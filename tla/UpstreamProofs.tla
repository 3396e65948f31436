---------------------------- MODULE UpstreamProofs ----------------------------
(***************************************************************************)
(* Theorems about UpstreamConnections, for every set of sessions, requests *)
(* and tokens: a session leaks no transport, and a request goes over a     *)
(* connection made under its own token.                                    *)
(***************************************************************************)
EXTENDS UpstreamConnections, TLAPS

Leads == {"validating", "connecting", "returning"}
Ended == {"done", "failed"}

\* Where a request is tells whether it made a promise and whether it settled.
PromiseOfPhase ==
    \A c \in Call :
        /\ calls[c].promise = "pending" <=> calls[c].pc \in {"validating", "connecting"}
        /\ calls[c].pc = "returning" => calls[c].promise \in {"resolved", "rejected"}
        /\ calls[c].pc \in {"idle", "authorizing", "waiting", "joined"}
              => calls[c].promise = "none"
        /\ calls[c].pc = "idle" <=> calls[c].sess = None
        /\ calls[c].pc = "idle" => calls[c].client = None

\* The connect in flight of a session is a request of it that leads, and no
\* other request of it leads.
OneLeader ==
    /\ \A c \in Call : calls[c].pc \in Leads => pending[Sess(c)] = c
    /\ \A s \in Session : pending[s] # None =>
          Sess(pending[s]) = s /\ calls[pending[s]].pc \in Leads

\* The map holds connections that were made, and none while one is being made.
MapHolds ==
    /\ \A s \in Session : connections[s] # None =>
          /\ calls[connections[s]].promise = "resolved" /\ Sess(connections[s]) = s
          /\ conn[connections[s]].state \in {"CONNECTED", "FAILED"}
    /\ \A c \in Call : calls[c].pc \in {"validating", "connecting"}
                          => connections[Sess(c)] = None

\* Whose promise a request awaits was made under its token.
JoinsOwnToken ==
    \A c \in Call : calls[c].pc = "joined" =>
        /\ calls[c].leader \in Call /\ calls[calls[c].leader].promise # "none"
        /\ SameToken(c, calls[c].leader)

\* A transport that is not shut is being connected or is in the map, unless its
\* session's marker was pruned early.
LinkHeld ==
    \A c \in Call : Linked(c) =>
        /\ Sess(c) \in Session
        /\ \/ PrunedEarly(Sess(c))
           \/ calls[c].pc = "connecting"
           \/ connections[Sess(c)] = c

\* A session that is torn down keeps its marker as long as a request of it is at
\* work, or the marker is pruned early; else it gets no connection any more once
\* closeAll closes the one it has.
TornDown ==
    \A s \in Session :
        /\ closing[s] = "no" => destroyed[s] = "no"
        /\ closing[s] # "no" => destroyed[s] # "no" \/ Quiet(s)
        /\ \A d \in Call :
              closing[s] \in {"closing", "done"} /\ connections[s] = d
                 => PrunedEarly(s) \/ ~Linked(d)

Shape == PromiseOfPhase /\ OneLeader /\ MapHolds /\ JoinsOwnToken /\ OwnTokenOnly
ConnInv == TypeOK /\ Shape
LinkInv == LinkHeld /\ TornDown

\* Facts every step proof starts from.
LEMMA Typed ==
    ASSUME TypeOK, PromiseOfPhase
    PROVE  /\ calls \in [Call -> CallRecord] /\ conn \in [Call -> ConnRecord]
           /\ connections \in [Session -> Call \cup {None}]
           /\ pending \in [Session -> Call \cup {None}]
           /\ None \notin Call /\ None \notin Session
           /\ \A c \in Call : calls[c].pc # "idle" => Sess(c) \in Session
           /\ \A c \in Call : calls[c].client # None =>
                 calls[c].client \in Call /\ calls[calls[c].client].promise = "resolved"
<1>1. calls \in [Call -> CallRecord]
  BY DEF TypeOK
<1>2. \A c \in Call : calls[c].sess \in Session \cup {None} /\ calls[c].client \in Call \cup {None}
  BY <1>1 DEF CallRecord
<1> QED
  BY <1>1, <1>2, ConstantsAssumption DEF TypeOK, PromiseOfPhase, Sess, ConstantsAssumption

\* Writing one request's record keeps the requests well typed, when it keeps its
\* settled promise and its connection was made.
LEMMA CallWritten ==
    ASSUME TypeOK, NEW c \in Call, NEW r \in CallRecord,
           calls' = [calls EXCEPT ![c] = r],
           calls[c].promise = "resolved" => r.promise = "resolved",
           r.client # None => calls[r.client].promise = "resolved",
           r.pc \in {"using", "listed"} => r.client # None
    PROVE  /\ calls' \in [Call -> CallRecord]
           /\ \A d \in Call : /\ calls'[d].client # None =>
                                     calls'[calls'[d].client].promise = "resolved"
                              /\ calls'[d].pc \in {"using", "listed"} => calls'[d].client # None
<1>1. calls \in [Call -> CallRecord]
  BY DEF TypeOK
<1>2. calls'[c] = r /\ \A d \in Call : d # c => calls'[d] = calls[d]
  BY <1>1
<1>3. \A d \in Call : /\ calls[d].client # None => calls[calls[d].client].promise = "resolved"
                      /\ calls[d].pc \in {"using", "listed"} => calls[d].client # None
                      /\ calls[d].client \in Call \cup {None}
  BY <1>1 DEF TypeOK, CallRecord
<1>4. r.client \in Call \cup {None}
  BY DEF CallRecord
<1> QED
  BY <1>1, <1>2, <1>3, <1>4

\* Closing a link leaves its state and every other link alone.
LEMMA ShutLinks ==
    ASSUME TypeOK, NEW d \in Call, conn' = Shut(d)
    PROVE  /\ conn' \in [Call -> ConnRecord] /\ ~Linked(d)'
           /\ conn'[d].state = conn[d].state
           /\ \A e \in Call : e # d => conn'[e] = conn[e]
<1>1. conn \in [Call -> ConnRecord] /\ conn[d] \in ConnRecord
  BY DEF TypeOK
<1>2. CloseLink(conn[d]) \in ConnRecord
  BY <1>1 DEF CloseLink, ConnRecord
<1>3. CloseLink(conn[d]).state = conn[d].state
      /\ CloseLink(conn[d]).link \notin {"opening", "open"}
  BY <1>1 DEF CloseLink, ConnRecord
<1>4. conn' = [conn EXCEPT ![d] = CloseLink(conn[d])]
  BY DEF Shut
<1> QED
  BY <1>1, <1>2, <1>3, <1>4 DEF Linked

\* What is taken out of the map is shut, and nothing else changes.
Dropped ==
    /\ conn' \in [Call -> ConnRecord] /\ timer' \in [Session -> Call \cup {None}]
    /\ connections' \in [Session -> Call \cup {None}]
    /\ \A d \in Call : conn'[d].state = conn[d].state /\ (Linked(d)' => Linked(d))
    /\ \A s \in Session : connections'[s] = connections[s] \/
          /\ connections'[s] = None
          /\ \A d \in Call : connections[s] = d => ~Linked(d)'

LEMMA ForgetDrops ==
    ASSUME ConnInv, NEW c \in Call, Sess(c) \in Session,
           (Existing(c) # None /\ Forget(c)) \/ Keep
    PROVE  Dropped
<1> USE Typed
<1>1. CASE Keep
  BY <1>1 DEF Keep, Dropped, ConnInv, Shape, TypeOK, Linked
<1>2. CASE Existing(c) # None /\ Forget(c)
  <2>1. PICK d \in Call : d = connections[Sess(c)] /\ d = Existing(c)
    BY <1>2 DEF Existing, ConnInv, Shape
  <2>2. /\ connections' = [connections EXCEPT ![Sess(c)] = None]
        /\ conn' = Shut(d) /\ timer' = [timer EXCEPT ![Sess(c)] = None]
    BY <1>2, <2>1 DEF Forget
  <2>3. timer \in [Session -> Call \cup {None}] /\ connections \in [Session -> Call \cup {None}]
    BY DEF ConnInv, TypeOK
  <2>4. /\ conn' \in [Call -> ConnRecord] /\ ~Linked(d)'
        /\ conn'[d].state = conn[d].state
        /\ \A e \in Call : e # d => conn'[e] = conn[e]
    BY <2>2, ShutLinks DEF ConnInv
  <2>5. \A e \in Call : conn'[e].state = conn[e].state /\ (Linked(e)' => Linked(e))
    BY <2>4 DEF Linked
  <2>6. /\ connections' \in [Session -> Call \cup {None}]
        /\ timer' \in [Session -> Call \cup {None}]
    BY <2>2, <2>3
  <2>7. ASSUME NEW s \in Session
        PROVE  connections'[s] = connections[s] \/
                  /\ connections'[s] = None
                  /\ \A e \in Call : connections[s] = e => ~Linked(e)'
    BY <2>1, <2>2, <2>3, <2>4
  <2> HIDE DEF Linked
  <2> QED
    BY <2>4, <2>5, <2>6, <2>7 DEF Dropped
<1> QED
  BY <1>1, <1>2

\* A request at work moves on, and what is kept per session stays.
LEMMA MoveShape ==
    ASSUME ConnInv, NEW c \in Call,
           UNCHANGED <<connections, pending>>,
           \A d \in Call : conn'[d].state = conn[d].state,
           calls[c].pc \notin Leads \cup {"idle"},
           calls'[c].pc \notin Leads \cup {"idle", "authorizing", "waiting", "joined"},
           \A d \in Call : d # c => calls'[d] = calls[d],
           calls'[c].sess = calls[c].sess, calls'[c].token = calls[c].token,
           calls'[c].promise = calls[c].promise,
           calls'[c].client # None => /\ calls'[c].client \in Call
                                      /\ SameToken(c, calls'[c].client)
    PROVE  Shape'
<1> USE Typed
<1>1. PromiseOfPhase'
  BY DEF ConnInv, Shape, PromiseOfPhase, Leads
<1>2. OneLeader'
  BY DEF ConnInv, Shape, OneLeader, Sess, Leads
<1>3. MapHolds'
  BY DEF ConnInv, Shape, MapHolds, Sess, Leads
<1>4. JoinsOwnToken'
  BY DEF ConnInv, Shape, JoinsOwnToken, SameToken
<1>5. OwnTokenOnly'
  BY DEF ConnInv, Shape, OwnTokenOnly, SameToken
<1> QED
  BY <1>1, <1>2, <1>3, <1>4, <1>5 DEF Shape

\* A request enters getOrConnect and waits for a connect or starts one.
LEMMA EnterShape ==
    ASSUME ConnInv, NEW c \in Call, NeedsConnection(c), Dropped,
           \A d \in Call : d # c => calls'[d] = calls[d],
           calls'[c].sess = calls[c].sess, calls'[c].token = calls[c].token,
           calls'[c].client = calls[c].client,
           \/ /\ pending' = pending /\ calls'[c].promise = calls[c].promise
              /\ calls'[c].pc \in {"joined", "waiting"}
              /\ calls'[c].leader = pending[Sess(c)] /\ InFlight(c)
              /\ calls'[c].pc = "joined" => SameToken(c, pending[Sess(c)])
           \/ /\ pending' = [pending EXCEPT ![Sess(c)] = c] /\ ~InFlight(c)
              /\ calls'[c].promise = "pending" /\ calls'[c].pc = "validating"
              /\ connections'[Sess(c)] = None
    PROVE  Shape'
<1> USE Typed
<1>1. /\ calls[c].pc \in {"authorizing", "waiting"} /\ Sess(c) \in Session
      /\ calls[c].promise = "none" /\ calls[c].sess = Sess(c)
  BY DEF NeedsConnection, Enters, ConnInv, Shape, PromiseOfPhase, Sess
<1>2. PromiseOfPhase'
  BY <1>1 DEF ConnInv, Shape, PromiseOfPhase, Leads
<1>3. OneLeader'
  BY <1>1 DEF ConnInv, Shape, OneLeader, Sess, Leads, InFlight
<1>4. MapHolds'
  <2>1. ASSUME NEW s \in Session, connections'[s] # None
        PROVE  /\ calls'[connections'[s]].promise = "resolved"
               /\ calls'[connections'[s]].sess = s
               /\ conn'[connections'[s]].state \in {"CONNECTED", "FAILED"}
    <3>1. connections'[s] = connections[s] /\ connections[s] \in Call
      BY <2>1 DEF Dropped, ConnInv, Shape
    <3>2. /\ calls[connections[s]].promise = "resolved" /\ calls[connections[s]].sess = s
          /\ conn[connections[s]].state \in {"CONNECTED", "FAILED"}
      BY <2>1, <3>1 DEF ConnInv, Shape, MapHolds, Sess
    <3> QED
      BY <1>1, <3>1, <3>2 DEF Dropped
  <2>2. ASSUME NEW d \in Call, calls'[d].pc \in {"validating", "connecting"}
        PROVE  connections'[calls'[d].sess] = None
    <3>1. CASE d = c
      BY <1>1, <2>2, <3>1
    <3>2. CASE d # c
      <4>1. calls'[d] = calls[d] /\ Sess(d) \in Session /\ connections[Sess(d)] = None
        BY <2>2, <3>2 DEF ConnInv, Shape, MapHolds
      <4> QED
        BY <4>1 DEF Dropped, Sess
    <3> QED
      BY <3>1, <3>2
  <2> QED
    BY <2>1, <2>2 DEF MapHolds, Sess
<1>5. JoinsOwnToken'
  <2>1. InFlight(c) => /\ pending[Sess(c)] \in Call
                       /\ calls[pending[Sess(c)]].promise # "none"
                       /\ pending[Sess(c)] # c
    BY <1>1 DEF InFlight, ConnInv, Shape, OneLeader, PromiseOfPhase, Leads
  <2> QED
    BY <1>1, <2>1 DEF ConnInv, Shape, JoinsOwnToken, SameToken
<1>6. OwnTokenOnly'
  BY DEF ConnInv, Shape, OwnTokenOnly
<1> QED
  BY <1>2, <1>3, <1>4, <1>5, <1>6 DEF Shape

\* A leader's connect goes on or settles.
LEMMA LeadShape ==
    ASSUME ConnInv, NEW c \in Call, pending' = pending,
           calls[c].pc \in {"validating", "connecting"},
           \A d \in Call : d # c => calls'[d] = calls[d] /\ conn'[d].state = conn[d].state,
           calls'[c].sess = calls[c].sess, calls'[c].token = calls[c].token,
           calls'[c].client = calls[c].client,
           \/ /\ connections' = connections
              /\ \/ calls'[c].pc = "connecting" /\ calls'[c].promise = "pending"
                 \/ calls'[c].pc = "returning" /\ calls'[c].promise = "rejected"
           \/ /\ connections' = [connections EXCEPT ![Sess(c)] = c]
              /\ calls'[c].pc = "returning" /\ calls'[c].promise = "resolved"
              /\ conn'[c].state = "CONNECTED"
    PROVE  Shape'
<1> USE Typed
<1>1. /\ Sess(c) \in Session /\ calls[c].promise = "pending" /\ calls[c].sess = Sess(c)
      /\ connections[Sess(c)] = None /\ pending[Sess(c)] = c
  BY DEF ConnInv, Shape, PromiseOfPhase, MapHolds, OneLeader, Leads, Sess
<1>2. PromiseOfPhase'
  BY <1>1 DEF ConnInv, Shape, PromiseOfPhase, Leads
<1>3. OneLeader'
  BY <1>1 DEF ConnInv, Shape, OneLeader, Sess, Leads
<1>4. MapHolds'
  <2>1. ASSUME NEW s \in Session, connections'[s] # None
        PROVE  /\ calls'[connections'[s]].promise = "resolved"
               /\ calls'[connections'[s]].sess = s
               /\ conn'[connections'[s]].state \in {"CONNECTED", "FAILED"}
    <3>1. CASE connections'[s] = connections[s]
      <4>1. /\ connections[s] \in Call /\ calls[connections[s]].promise = "resolved"
            /\ calls[connections[s]].sess = s
            /\ conn[connections[s]].state \in {"CONNECTED", "FAILED"}
        BY <2>1, <3>1 DEF ConnInv, Shape, MapHolds, Sess
      <4> QED
        BY <1>1, <3>1, <4>1
    <3>2. CASE connections'[s] # connections[s]
      <4>1. /\ s = Sess(c) /\ connections'[s] = c /\ calls'[c].promise = "resolved"
            /\ conn'[c].state = "CONNECTED"
        BY <1>1, <3>2 DEF ConnInv, Shape
      <4> QED
        BY <1>1, <4>1
    <3> QED
      BY <3>1, <3>2
  <2>2. ASSUME NEW d \in Call, calls'[d].pc \in {"validating", "connecting"}
        PROVE  connections'[calls'[d].sess] = None
    <3>1. CASE d = c
      BY <1>1, <2>2, <3>1
    <3>2. CASE d # c
      <4>1. /\ calls'[d] = calls[d] /\ Sess(d) \in Session /\ connections[Sess(d)] = None
            /\ pending[Sess(d)] = d
        BY <2>2, <3>2 DEF ConnInv, Shape, MapHolds, OneLeader, Leads
      <4>2. Sess(d) # Sess(c)
        BY <1>1, <3>2, <4>1
      <4> QED
        BY <1>1, <4>1, <4>2 DEF Sess, ConnInv, Shape
    <3> QED
      BY <3>1, <3>2
  <2> QED
    BY <2>1, <2>2 DEF MapHolds, Sess
<1>5. JoinsOwnToken'
  BY <1>1 DEF ConnInv, Shape, JoinsOwnToken, SameToken
<1>6. OwnTokenOnly'
  BY DEF ConnInv, Shape, OwnTokenOnly
<1> QED
  BY <1>2, <1>3, <1>4, <1>5, <1>6 DEF Shape

\* Events, pings and the end of a session only fail or drop connections.
LEMMA QuietShape ==
    ASSUME ConnInv, UNCHANGED <<calls, pending>>,
           \A s \in Session : connections'[s] \in {connections[s], None},
           \A d \in Call : conn'[d].state \in {conn[d].state, "FAILED"}
    PROVE  Shape'
<1> USE Typed
<1>1. PromiseOfPhase' /\ OneLeader' /\ JoinsOwnToken' /\ OwnTokenOnly'
  BY DEF ConnInv, Shape, PromiseOfPhase, OneLeader, JoinsOwnToken, OwnTokenOnly, SameToken, Sess
<1>2. MapHolds'
  <2>1. ASSUME NEW s \in Session, connections'[s] # None
        PROVE  /\ calls'[connections'[s]].promise = "resolved"
               /\ calls'[connections'[s]].sess = s
               /\ conn'[connections'[s]].state \in {"CONNECTED", "FAILED"}
    <3>1. connections'[s] = connections[s] /\ connections[s] \in Call
      BY <2>1 DEF ConnInv, Shape
    <3> QED
      BY <2>1, <3>1 DEF ConnInv, Shape, MapHolds, Sess
  <2>2. ASSUME NEW d \in Call, calls'[d].pc \in {"validating", "connecting"}
        PROVE  connections'[calls'[d].sess] = None
    BY <2>2 DEF ConnInv, Shape, MapHolds, Sess
  <2> QED
    BY <2>1, <2>2 DEF MapHolds, Sess
<1> QED
  BY <1>1, <1>2 DEF Shape

\* A new request is nobody's leader and nobody's connection.
LEMMA BeginShape ==
    ASSUME ConnInv, NEW c \in Call, NEW s \in Session, UNCHANGED <<conn, connections, pending>>,
           calls[c].pc = "idle",
           \A d \in Call : d # c => calls'[d] = calls[d],
           calls'[c].pc = "authorizing", calls'[c].sess = s,
           calls'[c].promise = calls[c].promise, calls'[c].client = None
    PROVE  Shape'
<1> USE Typed
<1>1. /\ calls[c].promise = "none" /\ calls[c].sess = None
      /\ \A x \in Session : pending[x] # c /\ connections[x] # c
      /\ \A d \in Call : calls[d].client # c
      /\ \A d \in Call : calls[d].pc = "joined" => calls[d].leader # c
  BY DEF ConnInv, Shape, PromiseOfPhase, MapHolds, OneLeader, JoinsOwnToken, Leads
<1>2. PromiseOfPhase'
  BY <1>1 DEF ConnInv, Shape, PromiseOfPhase
<1>3. OneLeader'
  BY <1>1 DEF ConnInv, Shape, OneLeader, Sess, Leads
<1>4. MapHolds'
  BY <1>1 DEF ConnInv, Shape, MapHolds, Sess
<1>5. JoinsOwnToken'
  BY <1>1 DEF ConnInv, Shape, JoinsOwnToken, SameToken
<1>6. OwnTokenOnly'
  BY <1>1 DEF ConnInv, Shape, OwnTokenOnly
<1> QED
  BY <1>2, <1>3, <1>4, <1>5, <1>6 DEF Shape

\* The leader of a connect gives its place away and uses what it made.
LEMMA ReturnShape ==
    ASSUME ConnInv, NEW c \in Call, UNCHANGED <<conn, connections>>,
           calls[c].pc = "returning", pending' = PendingCleared(c),
           \A d \in Call : d # c => calls'[d] = calls[d],
           calls'[c].pc \in {"using", "failed"},
           calls'[c].sess = calls[c].sess, calls'[c].token = calls[c].token,
           calls'[c].promise = calls[c].promise,
           calls'[c].client \in {calls[c].client, c}
    PROVE  Shape'
<1> USE Typed
<1>1. /\ Sess(c) \in Session /\ pending[Sess(c)] = c /\ calls[c].sess = Sess(c)
      /\ calls[c].promise \in {"resolved", "rejected"}
  BY DEF ConnInv, Shape, PromiseOfPhase, OneLeader, Leads, Sess
<1>2. pending' = [pending EXCEPT ![Sess(c)] = None]
  BY <1>1 DEF PendingCleared, ConnInv, Shape
<1>3. PromiseOfPhase'
  BY <1>1 DEF ConnInv, Shape, PromiseOfPhase, Leads
<1>4. OneLeader'
  <2>1. ASSUME NEW d \in Call, calls'[d].pc \in Leads PROVE pending'[calls'[d].sess] = d
    <3>1. /\ d # c /\ calls'[d] = calls[d] /\ Sess(d) \in Session /\ pending[Sess(d)] = d
      BY <2>1 DEF Leads, ConnInv, Shape, OneLeader
    <3>2. Sess(d) # Sess(c)
      BY <1>1, <3>1
    <3> QED
      BY <1>1, <1>2, <3>1, <3>2 DEF Sess, ConnInv, Shape
  <2>2. ASSUME NEW x \in Session, pending'[x] # None
        PROVE  calls'[pending'[x]].sess = x /\ calls'[pending'[x]].pc \in Leads
    <3>1. /\ x # Sess(c) /\ pending'[x] = pending[x] /\ pending[x] \in Call
      BY <1>1, <1>2, <2>2 DEF ConnInv, Shape
    <3>2. Sess(pending[x]) = x /\ calls[pending[x]].pc \in Leads /\ pending[x] # c
      BY <1>1, <2>2, <3>1 DEF ConnInv, Shape, OneLeader
    <3> QED
      BY <3>1, <3>2 DEF Sess
  <2> QED
    BY <2>1, <2>2 DEF OneLeader, Sess
<1>5. MapHolds'
  BY <1>1 DEF ConnInv, Shape, MapHolds, Sess
<1>6. JoinsOwnToken'
  BY <1>1 DEF ConnInv, Shape, JoinsOwnToken, SameToken
<1>7. OwnTokenOnly'
  BY <1>1 DEF ConnInv, Shape, OwnTokenOnly
<1> QED
  BY <1>3, <1>4, <1>5, <1>6, <1>7 DEF Shape

\* What the steps of getOrConnect write.
LEMMA EnterStep ==
    ASSUME ConnInv, NEW c \in Call, GetOrConnect(c)
    PROVE  TypeOK' /\ Shape'
<1> USE Typed
<1>1. /\ calls[c].pc \in {"authorizing", "waiting"} /\ Sess(c) \in Session
      /\ calls[c].promise = "none" /\ calls[c] \in CallRecord
  BY DEF GetOrConnect, UseExisting, Join, AwaitOther, Lead, NeedsConnection, Enters,
         ConnInv, Shape, PromiseOfPhase
<1>2. CASE UseExisting(c)
  <2>1. PICK d \in Call : d = Existing(c) /\ calls[d].promise = "resolved" /\ SameToken(c, d)
    BY <1>1, <1>2 DEF UseExisting, Connected, Existing, ConnInv, Shape, MapHolds
  <2> DEFINE r == [calls[c] EXCEPT !.pc = "using", !.client = d]
  <2>2. /\ r \in CallRecord /\ r.pc = "using" /\ r.client = d
        /\ r.sess = calls[c].sess /\ r.token = calls[c].token /\ r.promise = calls[c].promise
    BY <1>1 DEF CallRecord
  <2>3. calls' = [calls EXCEPT ![c] = r]
    BY <1>2, <2>1 DEF UseExisting
  <2> HIDE DEF r
  <2>4. calls'[c] = r /\ \A e \in Call : e # c => calls'[e] = calls[e]
    BY <2>3 DEF ConnInv, Shape
  <2>5. TypeOK'
    <3>1. /\ calls' \in [Call -> CallRecord]
          /\ \A e \in Call : /\ calls'[e].client # None =>
                                     calls'[calls'[e].client].promise = "resolved"
                             /\ calls'[e].pc \in {"using", "listed"} => calls'[e].client # None
      BY <1>1, <2>1, <2>2, <2>3, CallWritten DEF ConnInv, Shape
    <3> QED
      BY <1>2, <3>1 DEF UseExisting, ConnInv, TypeOK
  <2>6. Shape'
    <3>1. UNCHANGED <<conn, connections, pending>>
      BY <1>2 DEF UseExisting
    <3>2. /\ calls[c].pc \notin Leads \cup {"idle"}
          /\ calls'[c].pc \notin Leads \cup {"idle", "authorizing", "waiting", "joined"}
          /\ calls'[c].client \in Call /\ SameToken(c, calls'[c].client)
      BY <1>1, <2>1, <2>2, <2>4 DEF Leads
    <3> QED
      BY <2>2, <2>4, <3>1, <3>2, MoveShape
  <2> QED
    BY <2>5, <2>6
<1>3. CASE Join(c) \/ AwaitOther(c)
  <2>1. PICK l \in Call : l = pending[Sess(c)]
    BY <1>1, <1>3 DEF Join, AwaitOther, InFlight, ConnInv, Shape
  <2>2. PICK pc \in {"joined", "waiting"} :
           /\ calls' = [calls EXCEPT ![c].pc = pc, ![c].leader = l]
           /\ pc = "joined" => SameToken(c, pending[Sess(c)])
    BY <1>3, <2>1 DEF Join, AwaitOther
  <2> DEFINE r == [calls[c] EXCEPT !.pc = pc, !.leader = l]
  <2>3. /\ r \in CallRecord /\ r.pc = pc /\ r.leader = l /\ r.client = calls[c].client
        /\ r.sess = calls[c].sess /\ r.token = calls[c].token /\ r.promise = calls[c].promise
    BY <1>1 DEF CallRecord
  <2>4. calls' = [calls EXCEPT ![c] = r]
    BY <2>2
  <2> HIDE DEF r
  <2>5. calls'[c] = r /\ \A e \in Call : e # c => calls'[e] = calls[e]
    BY <2>4 DEF ConnInv, Shape
  <2>6. Dropped /\ toolCache' \in [Session -> Nat \cup {None}]
    <3>1. DropRotated(c)
      BY <1>3 DEF Join, AwaitOther
    <3>2. (Existing(c) # None /\ Forget(c)) \/ Keep
      BY <3>1 DEF DropRotated, Rotated, Connected
    <3> QED
      BY <1>1, <3>1, <3>2, ForgetDrops DEF DropRotated, ConnInv, TypeOK
  <2>7. /\ UNCHANGED <<pending, destroyed, closing, awaited, token, version, events>>
        /\ NeedsConnection(c) /\ InFlight(c)
    BY <1>3 DEF Join, AwaitOther
  <2>8. TypeOK'
    <3>1. /\ calls' \in [Call -> CallRecord]
          /\ \A e \in Call : /\ calls'[e].client # None =>
                                     calls'[calls'[e].client].promise = "resolved"
                             /\ calls'[e].pc \in {"using", "listed"} => calls'[e].client # None
      BY <1>1, <2>3, <2>4, CallWritten DEF ConnInv, Shape
    <3> QED
      BY <2>6, <2>7, <3>1 DEF ConnInv, TypeOK, Dropped
  <2>9. Shape'
    BY <2>1, <2>2, <2>3, <2>5, <2>6, <2>7, EnterShape
  <2> QED
    BY <2>8, <2>9
<1>4. CASE Lead(c)
  <2> DEFINE r == [calls[c] EXCEPT !.pc = "validating", !.promise = "pending"]
  <2>1. /\ r \in CallRecord /\ r.pc = "validating" /\ r.promise = "pending"
        /\ r.client = calls[c].client /\ r.sess = calls[c].sess /\ r.token = calls[c].token
    BY <1>1 DEF CallRecord
  <2>2. calls' = [calls EXCEPT ![c] = r]
    BY <1>4 DEF Lead
  <2> HIDE DEF r
  <2>3. calls'[c] = r /\ \A e \in Call : e # c => calls'[e] = calls[e]
    BY <2>2 DEF ConnInv, Shape
  <2>4. /\ NeedsConnection(c) /\ ~InFlight(c)
        /\ pending' = [pending EXCEPT ![Sess(c)] = c]
        /\ UNCHANGED <<destroyed, closing, awaited, token, version, events>>
        /\ IF Failed(c) THEN Forget(c) /\ UNCHANGED toolCache ELSE DropRotated(c)
    BY <1>4 DEF Lead
  <2>5. (Existing(c) # None /\ Forget(c)) \/ Keep
    BY <2>4 DEF DropRotated, Rotated, Connected, Failed
  <2>6. toolCache' \in [Session -> Nat \cup {None}]
    BY <2>4 DEF DropRotated, ConnInv, TypeOK
  <2>7. Dropped
    BY <1>1, <2>5, ForgetDrops
  <2>8. connections'[Sess(c)] = None
    <3>1. CASE Forget(c)
      BY <1>1, <3>1 DEF Forget, ConnInv, Shape
    <3>2. CASE ~Forget(c)
      <4>1. Keep /\ ~Failed(c) /\ ~Rotated(c)
        BY <2>4, <3>2 DEF DropRotated
      <4>2. ~Connected(c)
        BY <2>4, <4>1 DEF NeedsConnection, Rotated
      <4> QED
        BY <1>1, <4>1, <4>2 DEF Keep, Failed, Connected, Existing, ConnInv, Shape, MapHolds
    <3> QED
      BY <3>1, <3>2
  <2>9. TypeOK'
    <3>1. /\ calls' \in [Call -> CallRecord]
          /\ \A e \in Call : /\ calls'[e].client # None =>
                                     calls'[calls'[e].client].promise = "resolved"
                             /\ calls'[e].pc \in {"using", "listed"} => calls'[e].client # None
      <4>1. r.client # None => calls[r.client].promise = "resolved"
        BY <2>1 DEF ConnInv, Shape
      <4> QED
        BY <1>1, <2>1, <2>2, <4>1, CallWritten DEF ConnInv
    <3>2. pending' \in [Session -> Call \cup {None}]
      BY <1>1, <2>4 DEF ConnInv, Shape
    <3> QED
      BY <2>4, <2>6, <2>7, <3>1, <3>2 DEF ConnInv, TypeOK, Dropped
  <2>10. Shape'
    BY <2>1, <2>3, <2>4, <2>7, <2>8, EnterShape
  <2> QED
    BY <2>9, <2>10
<1> QED
  BY <1>2, <1>3, <1>4 DEF GetOrConnect

\* A request that only moves, or is given a connection made under its token.
LEMMA MoveStep ==
    ASSUME ConnInv, NEW c \in Call, NEW r \in CallRecord,
           UNCHANGED <<conn, connections, pending, destroyed, closing, awaited, timer,
                       token, version, events>>,
           toolCache' \in [Session -> Nat \cup {None}],
           calls[c].pc \notin Leads \cup {"idle"},
           r.pc \in {"using", "listed", "done", "failed"},
           r.sess = calls[c].sess, r.token = calls[c].token, r.promise = calls[c].promise,
           \/ r.client = calls[c].client
           \/ r.client \in Call /\ calls[r.client].promise = "resolved" /\ SameToken(c, r.client),
           r.pc \in {"using", "listed"} => r.client # None,
           calls' = [calls EXCEPT ![c] = r]
    PROVE  TypeOK' /\ Shape'
<1> USE Typed
<1>1. calls'[c] = r /\ \A d \in Call : d # c => calls'[d] = calls[d]
  BY DEF ConnInv, Shape
<1>2. r.client # None => calls[r.client].promise = "resolved" /\ r.client \in Call
  BY DEF ConnInv, Shape
<1>3. /\ calls' \in [Call -> CallRecord]
      /\ \A e \in Call : /\ calls'[e].client # None => calls'[calls'[e].client].promise = "resolved"
                         /\ calls'[e].pc \in {"using", "listed"} => calls'[e].client # None
  BY <1>2, CallWritten DEF ConnInv
<1>4. TypeOK'
  BY <1>3 DEF ConnInv, TypeOK
<1>5. r.client # None => SameToken(c, r.client)
  BY DEF ConnInv, Shape, OwnTokenOnly, SameToken
<1>6. r.pc \notin Leads \cup {"idle", "authorizing", "waiting", "joined"}
  BY DEF Leads
<1> QED
  BY <1>1, <1>2, <1>4, <1>5, <1>6, MoveShape

\* A connect that goes on or settles.
LEMMA LeadStep ==
    ASSUME ConnInv, NEW c \in Call, CreateConnection(c)
    PROVE  TypeOK' /\ Shape'
<1> USE Typed
<1>1. /\ calls[c].pc \in {"validating", "connecting"} /\ Sess(c) \in Session
      /\ calls[c] \in CallRecord /\ conn[c] \in ConnRecord /\ calls[c].promise = "pending"
      /\ UNCHANGED <<pending, destroyed, closing, awaited, token, toolCache, version, events>>
  BY DEF CreateConnection, Validated, ValidationFails, ConnectFails, ConnectStored,
         ConnectOrphaned, ConnInv, Shape, PromiseOfPhase
<1>2. PICK pc \in {"connecting", "returning"}, promise \in {"pending", "resolved", "rejected"} :
         /\ calls' = [calls EXCEPT ![c].pc = pc, ![c].promise = promise]
         /\ \/ pc = "connecting" /\ promise = "pending" /\ Validated(c)
            \/ pc = "returning" /\ promise = "rejected" /\ ValidationFails(c)
            \/ pc = "returning" /\ promise = "rejected" /\ ConnectFails(c)
            \/ pc = "returning" /\ promise = "resolved" /\ ConnectStored(c)
            \/ pc = "returning" /\ promise = "rejected" /\ ConnectOrphaned(c)
  <2>1. CASE Validated(c)
    <3>1. calls' = [calls EXCEPT ![c].pc = "connecting", ![c].promise = "pending"]
      BY <1>1, <2>1 DEF Validated, Goto, CallRecord, ConnInv, Shape
    <3> QED
      BY <2>1, <3>1
  <2>2. CASE ValidationFails(c)
    BY <2>2 DEF ValidationFails, Settle
  <2>3. CASE ConnectFails(c)
    BY <2>3 DEF ConnectFails, Settle
  <2>4. CASE ConnectStored(c)
    BY <2>4 DEF ConnectStored, Settle
  <2>5. CASE ConnectOrphaned(c)
    BY <2>5 DEF ConnectOrphaned, Settle
  <2> QED
    BY <2>1, <2>2, <2>3, <2>4, <2>5 DEF CreateConnection
<1> DEFINE r == [calls[c] EXCEPT !.pc = pc, !.promise = promise]
<1>3. /\ r \in CallRecord /\ r.pc = pc /\ r.promise = promise
      /\ r.client = calls[c].client /\ r.sess = calls[c].sess /\ r.token = calls[c].token
  BY <1>1 DEF CallRecord
<1>4. calls' = [calls EXCEPT ![c] = r]
  BY <1>2
<1> HIDE DEF r
<1>5. calls'[c] = r /\ \A e \in Call : e # c => calls'[e] = calls[e]
  BY <1>4 DEF ConnInv, Shape
<1>6. /\ calls' \in [Call -> CallRecord]
      /\ \A e \in Call : /\ calls'[e].client # None => calls'[calls'[e].client].promise = "resolved"
                         /\ calls'[e].pc \in {"using", "listed"} => calls'[e].client # None
  <2>1. r.client # None => calls[r.client].promise = "resolved"
    BY <1>3 DEF ConnInv, Shape
  <2>2. r.pc \notin {"using", "listed"} /\ calls[c].promise # "resolved" /\ r \in CallRecord
    BY <1>1, <1>3
  <2>3. TypeOK
    BY DEF ConnInv
  <2> QED
    BY <1>4, <2>1, <2>2, <2>3, CallWritten
<1>7. /\ conn' \in [Call -> ConnRecord]
      /\ \A d \in Call : d # c => conn'[d].state = conn[d].state
      /\ timer' \in [Session -> Call \cup {None}]
      /\ connections' \in [Session -> Call \cup {None}]
      /\ \/ connections' = connections /\ pc = "connecting" /\ promise = "pending"
         \/ connections' = connections /\ pc = "returning" /\ promise = "rejected"
         \/ /\ connections' = [connections EXCEPT ![Sess(c)] = c]
            /\ pc = "returning" /\ promise = "resolved" /\ conn'[c].state = "CONNECTED"
  <2>0. timer \in [Session -> Call \cup {None}]
    BY DEF ConnInv, TypeOK
  <2>1. CASE Validated(c) /\ promise = "pending" /\ pc = "connecting"
    <3>1. /\ conn' = [conn EXCEPT ![c].link = "opening"]
          /\ connections' = connections /\ timer' = timer
      BY <2>1 DEF Validated
    <3> QED
      BY <1>1, <2>0, <2>1, <3>1 DEF ConnRecord, ConnInv, Shape
  <2>2. CASE ValidationFails(c) /\ promise = "rejected" /\ pc = "returning"
    <3>1. conn' = conn /\ connections' = connections /\ timer' = timer
      BY <2>2 DEF ValidationFails
    <3> QED
      BY <1>1, <2>0, <2>2, <3>1 DEF ConnInv, Shape
  <2>3. CASE (ConnectFails(c) \/ ConnectOrphaned(c)) /\ promise = "rejected" /\ pc = "returning"
    <3>1. conn' = Shut(c) /\ connections' = connections /\ timer' = timer
      BY <2>3 DEF ConnectFails, ConnectOrphaned
    <3> QED
      BY <1>1, <2>0, <2>3, <3>1, ShutLinks DEF ConnInv, Shape
  <2>4. CASE ConnectStored(c) /\ promise = "resolved" /\ pc = "returning"
    <3>1. conn' = [conn EXCEPT ![c].link = IF conn[c].link = "opening" THEN "open"
                                           ELSE conn[c].link,
                               ![c].state = "CONNECTED"]
      BY <2>4 DEF ConnectStored
    <3>2. conn' \in [Call -> ConnRecord] /\ conn'[c].state = "CONNECTED"
          /\ \A d \in Call : d # c => conn'[d] = conn[d]
      BY <1>1, <3>1 DEF ConnRecord, ConnInv, Shape
    <3>3. /\ connections' = [connections EXCEPT ![Sess(c)] = c]
          /\ timer' = [timer EXCEPT ![Sess(c)] = IF timer[Sess(c)] = None THEN c
                                                 ELSE timer[Sess(c)]]
      BY <2>4 DEF ConnectStored
    <3> QED
      BY <1>1, <2>0, <2>4, <3>2, <3>3 DEF ConnInv, Shape
  <2> QED
    BY <1>2, <2>1, <2>2, <2>3, <2>4
<1>8. TypeOK'
  BY <1>1, <1>6, <1>7 DEF ConnInv, TypeOK
<1>9. Shape'
  BY <1>1, <1>3, <1>5, <1>7, LeadShape
<1> QED
  BY <1>8, <1>9

\* A heartbeat sets or clears one field of a connection.
LEMMA PingRecord ==
    ASSUME conn \in [Call -> ConnRecord], NEW d \in Call, NEW b \in BOOLEAN,
           conn' = [conn EXCEPT ![d].ping = b]
    PROVE  conn' \in [Call -> ConnRecord] /\ \A e \in Call : conn'[e].state = conn[e].state
<1>1. PICK r \in ConnRecord : r = conn[d]
  OBVIOUS
<1>2. PICK q : q = [r EXCEPT !.ping = b]
  OBVIOUS
<1>3. q \in ConnRecord /\ q.state = r.state
  BY <1>1, <1>2 DEF ConnRecord
<1>4. conn' = [conn EXCEPT ![d] = q]
  BY <1>1, <1>2
<1>5. QED
  BY <1>1, <1>3, <1>4

\* The types and the shape are inductive.
LEMMA ConnStep == ConnInv /\ [Next]_vars => ConnInv'
<1> SUFFICES ASSUME ConnInv, [Next]_vars PROVE TypeOK' /\ Shape'
  BY DEF ConnInv
<1>0. /\ TypeOK /\ Shape /\ PromiseOfPhase
  BY DEF ConnInv, Shape
<1>a. /\ calls \in [Call -> CallRecord] /\ conn \in [Call -> ConnRecord]
      /\ connections \in [Session -> Call \cup {None}]
      /\ pending \in [Session -> Call \cup {None}]
      /\ None \notin Call /\ None \notin Session
      /\ \A c \in Call : calls[c].pc # "idle" => Sess(c) \in Session
      /\ \A c \in Call : calls[c].client # None =>
            calls[c].client \in Call /\ calls[calls[c].client].promise = "resolved"
  BY <1>0, Typed
<1>b. /\ destroyed \in [Session -> {"no", "marked", "old", "early"}]
      /\ closing \in [Session -> {"no", "waiting", "closing", "done"}]
      /\ awaited \in [Session -> Call \cup {None}] /\ token \in [Session -> Token]
      /\ toolCache \in [Session -> Nat \cup {None}]
      /\ timer \in [Session -> Call \cup {None}]
      /\ version \in [Session -> Nat] /\ events \in Nat
      /\ \A c \in Call : calls[c] \in CallRecord /\ conn[c] \in ConnRecord
  BY <1>0, <1>a DEF TypeOK
<1>c. \A c \in Call : calls[c] \in CallRecord
  BY <1>a
<1>d. \A c \in Call : conn[c] \in ConnRecord
  BY <1>a
<1>1. ASSUME NEW c \in Call, NEW s \in Session, Begin(c, s) PROVE TypeOK' /\ Shape'
  <2> DEFINE r == [calls[c] EXCEPT !.pc = "authorizing", !.sess = s, !.token = token[s]]
  <2>1. token[s] \in Token /\ calls[c].pc = "idle"
    BY <1>0, <1>a, <1>b, <1>1 DEF TypeOK, Begin
  <2>2. calls[c].promise = "none" /\ calls[c].client = None
    BY <1>0, <1>a, <1>b, <2>1 DEF Shape, PromiseOfPhase
  <2>3. /\ r \in CallRecord /\ r.pc = "authorizing" /\ r.sess = s
        /\ r.promise = "none" /\ r.client = None
    BY <1>c, <2>1, <2>2 DEF CallRecord
  <2>4. calls' = [calls EXCEPT ![c] = r]
    BY <1>1 DEF Begin
  <2>5. UNCHANGED <<conn, connections, pending, destroyed, closing, awaited, timer,
                    token, toolCache, version, events>>
    BY <1>1 DEF Begin
  <2> HIDE DEF r
  <2>6. calls'[c] = r /\ \A d \in Call : d # c => calls'[d] = calls[d]
    BY <1>0, <1>a, <1>b, <2>4
  <2>7. /\ calls' \in [Call -> CallRecord]
        /\ \A e \in Call : /\ calls'[e].client # None => calls'[calls'[e].client].promise = "resolved"
                           /\ calls'[e].pc \in {"using", "listed"} => calls'[e].client # None
    BY <1>0, <1>a, <1>b, <2>2, <2>3, <2>4, CallWritten
  <2>8. TypeOK'
    BY <1>0, <1>a, <1>b, <2>5, <2>7 DEF TypeOK
  <2>9. Shape'
    BY <2>1, <2>2, <2>3, <2>5, <2>6, BeginShape
  <2> QED
    BY <2>8, <2>9
<1>2. ASSUME NEW c \in Call, NEW pc \in {"listed", "done", "failed"}, NEW seen \in Nat,
             calls[c].pc \notin Leads \cup {"idle"}, pc = "listed" => calls[c].client # None,
             calls' = [calls EXCEPT ![c] = [calls[c] EXCEPT !.pc = pc, !.seen = seen]],
             toolCache' \in [Session -> Nat \cup {None}],
             UNCHANGED <<conn, connections, pending, destroyed, closing, awaited, timer,
                         token, version, events>>
      PROVE  TypeOK' /\ Shape'
  <2> DEFINE r == [calls[c] EXCEPT !.pc = pc, !.seen = seen]
  <2>1. /\ r \in CallRecord /\ r.pc = pc /\ r.sess = calls[c].sess /\ r.token = calls[c].token
        /\ r.promise = calls[c].promise /\ r.client = calls[c].client
    BY <1>c DEF CallRecord
  <2>2. calls' = [calls EXCEPT ![c] = r]
    BY <1>2
  <2> HIDE DEF r
  <2> QED
    BY <1>2, <2>1, <2>2, MoveStep
<1>3. ASSUME NEW c \in Call, NEW pc \in {"done", "failed"}, Goto(c, pc),
             calls[c].pc \notin Leads \cup {"idle"},
             toolCache' \in [Session -> Nat \cup {None}],
             UNCHANGED <<conn, connections, pending, destroyed, closing, awaited, timer,
                         token, version, events>>
      PROVE  TypeOK' /\ Shape'
  <2>1. calls[c].seen \in Nat
    BY <1>c DEF CallRecord
  <2>2. calls' = [calls EXCEPT ![c] = [calls[c] EXCEPT !.pc = pc, !.seen = calls[c].seen]]
    BY <1>a, <1>c, <1>3 DEF Goto, CallRecord
  <2> QED
    BY <1>2, <1>3, <2>1, <2>2
<1>4. ASSUME NEW c \in Call, ConsentRefused(c) PROVE TypeOK' /\ Shape'
  BY <1>0, <1>a, <1>b, <1>3, <1>4 DEF ConsentRefused, Leads
<1>5. ASSUME NEW c \in Call, CallReturns(c) \/ RequestFails(c) PROVE TypeOK' /\ Shape'
  BY <1>0, <1>a, <1>b, <1>3, <1>5 DEF CallReturns, RequestFails, Leads
<1>6. ASSUME NEW c \in Call, ServeList(c) PROVE TypeOK' /\ Shape'
  <2>1. calls[c].pc = "using" /\ calls[c].client # None /\ version[Sess(c)] \in Nat
    BY <1>0, <1>a, <1>b, <1>6 DEF ServeList, TypeOK
  <2>2. /\ calls' = [calls EXCEPT ![c] = [calls[c] EXCEPT !.pc = "listed", !.seen = version[Sess(c)]]]
        /\ UNCHANGED <<conn, connections, pending, destroyed, closing, awaited, timer,
                       token, toolCache, version, events>>
    BY <1>6 DEF ServeList
  <2>3. \A n \in Nat : calls' = [calls EXCEPT ![c] = [calls[c] EXCEPT !.pc = "listed", !.seen = n]]
                       => TypeOK' /\ Shape'
    BY <1>0, <1>a, <1>b, <1>2, <2>1, <2>2 DEF Leads
  <2> QED
    BY <2>1, <2>2, <2>3
<1>7. ASSUME NEW c \in Call, ListReturns(c) PROVE TypeOK' /\ Shape'
  <2>1. /\ calls[c].pc = "listed" /\ Goto(c, "done") /\ calls[c].seen \in Nat
        /\ toolCache' = [toolCache EXCEPT ![Sess(c)] = calls[c].seen]
        /\ UNCHANGED <<conn, connections, pending, destroyed, closing, awaited, timer,
                       token, version, events>>
    BY <1>0, <1>a, <1>b, <1>7 DEF ListReturns, CallRecord
  <2>2. toolCache' \in [Session -> Nat \cup {None}]
    BY <1>0, <1>a, <1>b, <2>1
  <2> QED
    BY <1>3, <2>1, <2>2 DEF Leads
<1>8. ASSUME NEW c \in Call, NEW l \in Call, Return(c, l), calls[l].promise # "none"
      PROVE  \E r \in CallRecord :
                /\ calls' = [calls EXCEPT ![c] = r] /\ r.pc \in {"using", "failed"}
                /\ r.sess = calls[c].sess /\ r.token = calls[c].token
                /\ r.promise = calls[c].promise
                /\ \/ r.pc = "failed" /\ r.client = calls[c].client
                   \/ r.pc = "using" /\ r.client = l /\ calls[l].promise = "resolved"
  <2>1. CASE calls[l].promise = "resolved"
    <3> DEFINE r == [calls[c] EXCEPT !.pc = "using", !.client = l]
    <3>1. /\ r \in CallRecord /\ r.pc = "using" /\ r.sess = calls[c].sess
          /\ r.token = calls[c].token /\ r.promise = calls[c].promise /\ r.client = l
      BY <1>c DEF CallRecord
    <3>2. calls' = [calls EXCEPT ![c] = r]
      BY <1>8, <2>1 DEF Return
    <3> HIDE DEF r
    <3> QED
      BY <2>1, <3>1, <3>2
  <2>2. CASE calls[l].promise # "resolved"
    <3> DEFINE r == [calls[c] EXCEPT !.pc = "failed"]
    <3>1. /\ r \in CallRecord /\ r.pc = "failed" /\ r.sess = calls[c].sess
          /\ r.token = calls[c].token /\ r.promise = calls[c].promise
          /\ r.client = calls[c].client
      BY <1>c DEF CallRecord
    <3>2. calls' = [calls EXCEPT ![c] = r]
      BY <1>8, <2>2 DEF Return, Goto
    <3> HIDE DEF r
    <3> QED
      BY <3>1, <3>2
  <2> QED
    BY <2>1, <2>2
<1>9. ASSUME NEW c \in Call, LeaderReturns(c) PROVE TypeOK' /\ Shape'
  <2>1. /\ calls[c].pc = "returning" /\ calls[c].promise \in {"resolved", "rejected"}
        /\ Sess(c) \in Session /\ pending' = PendingCleared(c) /\ Return(c, c)
        /\ UNCHANGED <<conn, connections, destroyed, closing, awaited, timer,
                       token, toolCache, version, events>>
    BY <1>0, <1>a, <1>b, <1>9 DEF LeaderReturns, Shape, PromiseOfPhase
  <2>2. PICK r \in CallRecord :
           /\ calls' = [calls EXCEPT ![c] = r] /\ r.pc \in {"using", "failed"}
           /\ r.sess = calls[c].sess /\ r.token = calls[c].token
           /\ r.promise = calls[c].promise
           /\ \/ r.pc = "failed" /\ r.client = calls[c].client
              \/ r.pc = "using" /\ r.client = c /\ calls[c].promise = "resolved"
    BY <1>8, <2>1
  <2>3. calls'[c] = r /\ \A d \in Call : d # c => calls'[d] = calls[d]
    BY <1>0, <1>a, <1>b, <2>2
  <2>4. /\ r.client # None => calls[r.client].promise = "resolved"
        /\ r.pc \in {"using", "listed"} => r.client # None
    BY <1>0, <1>a, <1>b, <2>2
  <2>5. /\ calls' \in [Call -> CallRecord]
        /\ \A e \in Call : /\ calls'[e].client # None => calls'[calls'[e].client].promise = "resolved"
                           /\ calls'[e].pc \in {"using", "listed"} => calls'[e].client # None
    BY <1>0, <1>a, <1>b, <2>2, <2>4, CallWritten
  <2>6. pending' \in [Session -> Call \cup {None}]
    BY <1>0, <1>a, <1>b, <2>1 DEF PendingCleared
  <2>7. TypeOK'
    BY <1>0, <1>a, <1>b, <2>1, <2>5, <2>6 DEF TypeOK
  <2>8. Shape'
    BY <2>1, <2>2, <2>3, ReturnShape
  <2> QED
    BY <2>7, <2>8
<1>10. ASSUME NEW c \in Call, JoinerReturns(c) PROVE TypeOK' /\ Shape'
  <2>1. /\ calls[c].pc = "joined" /\ Return(c, calls[c].leader)
        /\ UNCHANGED <<conn, connections, pending, destroyed, closing, awaited, timer,
                       token, toolCache, version, events>>
    BY <1>10 DEF JoinerReturns
  <2>2. PICK l \in Call : l = calls[c].leader /\ calls[l].promise # "none" /\ SameToken(c, l)
    BY <1>0, <1>a, <1>b, <2>1 DEF Shape, JoinsOwnToken
  <2>3. PICK r \in CallRecord :
           /\ calls' = [calls EXCEPT ![c] = r] /\ r.pc \in {"using", "failed"}
           /\ r.sess = calls[c].sess /\ r.token = calls[c].token
           /\ r.promise = calls[c].promise
           /\ \/ r.pc = "failed" /\ r.client = calls[c].client
              \/ r.pc = "using" /\ r.client = l /\ calls[l].promise = "resolved"
    BY <1>8, <2>1, <2>2
  <2>4. r.pc \in {"using", "listed"} => r.client # None
    BY <1>0, <1>a, <1>b, <2>3
  <2>5. \/ r.client = calls[c].client
        \/ r.client \in Call /\ calls[r.client].promise = "resolved" /\ SameToken(c, r.client)
    BY <2>2, <2>3
  <2> QED
    BY <1>0, <1>a, <1>b, <2>1, <2>3, <2>4, <2>5, MoveStep DEF Leads
\* The other steps leave the requests alone.
<1>11. ASSUME UNCHANGED <<calls, pending>>, conn' \in [Call -> ConnRecord],
              connections' \in [Session -> Call \cup {None}],
              destroyed' \in [Session -> {"no", "marked", "old", "early"}],
              closing' \in [Session -> {"no", "waiting", "closing", "done"}],
              awaited' \in [Session -> Call \cup {None}],
              timer' \in [Session -> Call \cup {None}], token' \in [Session -> Token],
              toolCache' \in [Session -> Nat \cup {None}], version' \in [Session -> Nat],
              events' \in Nat,
              \A s \in Session : connections'[s] \in {connections[s], None},
              \A d \in Call : conn'[d].state \in {conn[d].state, "FAILED"}
       PROVE  TypeOK' /\ Shape'
  BY <1>0, <1>a, <1>b, <1>11, QuietShape DEF TypeOK
<1>12. ASSUME NEW s \in Session, NEW d \in Call, MarkFailed(s, d)
       PROVE  /\ conn' \in [Call -> ConnRecord] /\ timer' \in [Session -> Call \cup {None}]
              /\ \A e \in Call : conn'[e].state \in {conn[e].state, "FAILED"}
  <2>1. ASSUME NEW e \in Call
        PROVE  conn'[e] \in ConnRecord /\ conn'[e].state \in {conn[e].state, "FAILED"}
    <3>1. conn'[e] = [conn[e] EXCEPT
                         !.state = IF e = connections[s] THEN "FAILED" ELSE conn[e].state,
                         !.broken = conn[e].broken \/ e = d,
                         !.ping = conn[e].ping /\ e # d]
      BY <1>12 DEF MarkFailed
    <3>2. PICK b \in BOOLEAN, p \in BOOLEAN :
             b = (conn[e].broken \/ e = d) /\ p = (conn[e].ping /\ e # d)
      OBVIOUS
    <3>3. PICK st \in {"CONNECTED", "FAILED", "NONE"} :
             /\ st \in {conn[e].state, "FAILED"}
             /\ conn'[e] = [conn[e] EXCEPT !.state = st, !.broken = b, !.ping = p]
      <4>1. conn[e].state \in {"CONNECTED", "FAILED", "NONE"}
        BY <1>d DEF ConnRecord
      <4> QED
        BY <3>1, <3>2, <4>1
    <3> QED
      BY <1>d, <3>3 DEF ConnRecord
  <2>2. conn' = [e \in Call |-> conn'[e]] /\ timer' \in [Session -> Call \cup {None}]
    BY <1>0, <1>a, <1>b, <1>12 DEF MarkFailed
  <2> QED
    BY <2>1, <2>2
<1>13. ASSUME NEW d \in Call, TransportEvent(d) PROVE TypeOK' /\ Shape'
  <2>1. /\ UNCHANGED <<calls, connections, pending, destroyed, closing, awaited,
                       token, toolCache, version>>
        /\ events' \in Nat
    BY <1>13, <1>b DEF TransportEvent
  <2>2. /\ conn' \in [Call -> ConnRecord] /\ timer' \in [Session -> Call \cup {None}]
        /\ \A e \in Call : conn'[e].state \in {conn[e].state, "FAILED"}
    <3>1. CASE IsCurrent(d)
      <4>1. MarkFailed(Sess(d), d) /\ Sess(d) # None
        BY <1>13, <3>1 DEF TransportEvent, IsCurrent
      <4>2. PICK s \in Session : s = Sess(d)
        BY <1>0, <1>a, <4>1 DEF PromiseOfPhase, Sess
      <4> QED
        BY <1>12, <4>1, <4>2
    <3>2. CASE ~IsCurrent(d)
      <4>1. conn' = [conn EXCEPT ![d].broken = TRUE] /\ timer' = timer
        BY <1>13, <3>2 DEF TransportEvent
      <4>2. PICK r \in ConnRecord : r = conn[d]
        BY <1>a
      <4>3. PICK q : q = [r EXCEPT !.broken = TRUE]
        OBVIOUS
      <4>4. q \in ConnRecord /\ q.state = conn[d].state
        BY <4>2, <4>3 DEF ConnRecord
      <4>5. conn' = [conn EXCEPT ![d] = q]
        BY <1>a, <4>1, <4>2, <4>3
      <4>6. conn' \in [Call -> ConnRecord]
        BY <1>a, <4>4, <4>5
      <4>7. ASSUME NEW e \in Call PROVE conn'[e].state = conn[e].state
        <5>1. CASE e = d
          BY <1>a, <4>4, <4>5, <5>1
        <5>2. CASE e # d
          BY <1>a, <4>5, <5>2
        <5> QED
          BY <5>1, <5>2
      <4> QED
        BY <1>b, <4>1, <4>6, <4>7
    <3> QED
      BY <3>1, <3>2
  <2> QED
    BY <1>a, <1>b, <1>11, <2>1, <2>2
<1>14. ASSUME NEW d \in Call, PingFails(d) PROVE TypeOK' /\ Shape'
  <2>1. /\ UNCHANGED <<calls, connections, pending, destroyed, closing, awaited,
                       token, toolCache, version>>
        /\ events' \in Nat
    BY <1>14, <1>b DEF PingFails
  <2>2. /\ conn' \in [Call -> ConnRecord] /\ timer' \in [Session -> Call \cup {None}]
        /\ \A e \in Call : conn'[e].state \in {conn[e].state, "FAILED"}
    <3>1. CASE timer[Sess(d)] # None /\ IsCurrent(d)
      <4>1. MarkFailed(Sess(d), d) /\ Sess(d) # None
        BY <1>14, <3>1 DEF PingFails, IsCurrent
      <4>2. PICK s \in Session : s = Sess(d)
        BY <1>0, <1>a, <4>1 DEF PromiseOfPhase, Sess
      <4> QED
        BY <1>12, <4>1, <4>2
    <3>2. CASE ~(timer[Sess(d)] # None /\ IsCurrent(d))
      <4>1. conn' = [conn EXCEPT ![d].ping = FALSE, ![d].broken = TRUE] /\ timer' = timer
        BY <1>14, <3>2 DEF PingFails
      <4>2. PICK r \in ConnRecord : r = conn[d]
        BY <1>a
      <4>3. PICK q : q = [r EXCEPT !.ping = FALSE, !.broken = TRUE]
        OBVIOUS
      <4>4. q \in ConnRecord /\ q.state = conn[d].state
        BY <4>2, <4>3 DEF ConnRecord
      <4>5. conn' = [conn EXCEPT ![d] = q]
        BY <1>a, <4>1, <4>2, <4>3
      <4>6. conn' \in [Call -> ConnRecord]
        BY <1>a, <4>4, <4>5
      <4>7. ASSUME NEW e \in Call PROVE conn'[e].state = conn[e].state
        <5>1. CASE e = d
          BY <1>a, <4>4, <4>5, <5>1
        <5>2. CASE e # d
          BY <1>a, <4>5, <5>2
        <5> QED
          BY <5>1, <5>2
      <4> QED
        BY <1>b, <4>1, <4>6, <4>7
    <3> QED
      BY <3>1, <3>2
  <2> QED
    BY <1>a, <1>b, <1>11, <2>1, <2>2
<1>15. ASSUME NEW d \in Call, PingReturns(d) PROVE TypeOK' /\ Shape'
  <2>1. /\ conn' = [conn EXCEPT ![d].ping = FALSE]
        /\ UNCHANGED <<calls, connections, pending, destroyed, closing, awaited, timer,
                       token, toolCache, version, events>>
    BY <1>15 DEF PingReturns
  <2>2. conn' \in [Call -> ConnRecord] /\ \A e \in Call : conn'[e].state = conn[e].state
    BY <1>a, <2>1, PingRecord
  <2> QED
    BY <1>a, <1>b, <1>11, <2>1, <2>2
<1>16. ASSUME NEW d \in Call, ToolsChanged(d) PROVE TypeOK' /\ Shape'
  <2>0. Sess(d) \in Session
    BY <1>0, <1>a, <1>16 DEF ToolsChanged, IsCurrent, PromiseOfPhase, Sess
  <2>1. /\ version' \in [Session -> Nat] /\ toolCache' \in [Session -> Nat \cup {None}]
        /\ events' \in Nat
        /\ UNCHANGED <<calls, conn, connections, pending, destroyed, closing, awaited, timer,
                       token>>
    BY <1>16, <1>b, <2>0 DEF ToolsChanged
  <2> QED
    BY <1>a, <1>b, <1>11, <2>1
<1>17. ASSUME NEW s \in Session, Ping(s) PROVE TypeOK' /\ Shape'
  <2>1. PICK d \in Call : d = timer[s]
    BY <1>17, <1>b DEF Ping
  <2>2. /\ conn' = [conn EXCEPT ![d].ping = TRUE]
        /\ UNCHANGED <<calls, connections, pending, destroyed, closing, awaited, timer,
                       token, toolCache, version, events>>
    BY <1>17, <2>1 DEF Ping
  <2>3. conn' \in [Call -> ConnRecord] /\ \A e \in Call : conn'[e].state = conn[e].state
    BY <1>a, <2>2, PingRecord
  <2> QED
    BY <1>a, <1>b, <1>11, <2>2, <2>3
<1>18. ASSUME NEW s \in Session, RotateToken(s) PROVE TypeOK' /\ Shape'
  <2>1. /\ token' \in [Session -> Token]
        /\ UNCHANGED <<calls, conn, connections, pending, destroyed, closing, awaited, timer,
                       toolCache, version, events>>
    BY <1>18, <1>b DEF RotateToken
  <2> QED
    BY <1>a, <1>b, <1>11, <2>1
<1>19. ASSUME NEW s \in Session, Destroy(s) PROVE TypeOK' /\ Shape'
  <2>1. /\ destroyed' \in [Session -> {"no", "marked", "old", "early"}]
        /\ closing' \in [Session -> {"no", "waiting", "closing", "done"}]
        /\ awaited' \in [Session -> Call \cup {None}]
        /\ toolCache' \in [Session -> Nat \cup {None}]
        /\ UNCHANGED <<calls, conn, connections, pending, timer, token, version, events>>
    BY <1>19, <1>a, <1>b DEF Destroy
  <2> QED
    BY <1>a, <1>b, <1>11, <2>1
<1>20. ASSUME NEW s \in Session, CloseSession(s) PROVE TypeOK' /\ Shape'
  <2>1. /\ closing' \in [Session -> {"no", "waiting", "closing", "done"}]
        /\ UNCHANGED <<calls, connections, pending, destroyed, awaited,
                       token, toolCache, version, events>>
    BY <1>20, <1>b DEF CloseSession
  <2>2. /\ conn' \in [Call -> ConnRecord] /\ timer' \in [Session -> Call \cup {None}]
        /\ \A e \in Call : conn'[e].state = conn[e].state
    <3>1. CASE connections[s] # None
      <4>1. PICK d \in Call : d = connections[s]
        BY <1>a, <3>1
      <4>2. conn' = Shut(d) /\ timer' = [timer EXCEPT ![s] = None]
        BY <1>20, <3>1, <4>1 DEF CloseSession
      <4>3. timer' \in [Session -> Call \cup {None}]
        BY <1>b, <4>2
      <4>4. conn' \in [Call -> ConnRecord] /\ \A e \in Call : conn'[e].state = conn[e].state
        BY <1>0, <4>2, ShutLinks
      <4> QED
        BY <4>3, <4>4
    <3>2. CASE connections[s] = None
      BY <1>20, <1>a, <1>b, <3>2 DEF CloseSession
    <3> QED
      BY <3>1, <3>2
  <2> QED
    BY <1>a, <1>b, <1>11, <2>1, <2>2
<1>21. ASSUME NEW s \in Session, FinishClose(s) PROVE TypeOK' /\ Shape'
  <2>1. /\ closing' \in [Session -> {"no", "waiting", "closing", "done"}]
        /\ connections' \in [Session -> Call \cup {None}]
        /\ destroyed' \in [Session -> {"no", "marked", "old", "early"}]
        /\ \A x \in Session : connections'[x] \in {connections[x], None}
        /\ UNCHANGED <<calls, conn, pending, awaited, timer, token, toolCache, version, events>>
    BY <1>21, <1>a, <1>b DEF FinishClose, Pruned
  <2> QED
    BY <1>a, <1>b, <1>11, <2>1
<1>22. ASSUME NEW s \in Session, MarkerAges(s) PROVE TypeOK' /\ Shape'
  <2>1. /\ destroyed' \in [Session -> {"no", "marked", "old", "early"}]
        /\ UNCHANGED <<calls, conn, connections, pending, closing, awaited, timer,
                       token, toolCache, version, events>>
    BY <1>22, <1>b DEF MarkerAges
  <2> QED
    BY <1>a, <1>b, <1>11, <2>1
<1>23. CASE UNCHANGED vars
  BY <1>0, <1>a, <1>b, <1>11, <1>23 DEF vars
<1> QED
  BY <1>1, <1>4, <1>5, <1>6, <1>7, <1>9, <1>10, <1>13, <1>14, <1>15, <1>16,
     <1>17, <1>18, <1>19, <1>20, <1>21, <1>22, <1>23, EnterStep,
     LeadStep DEF Next

\* The requests, their connections and their promises stay well formed.
THEOREM ConnectionsWellFormed == Spec => []ConnInv
<1>1. Init => ConnInv
  <2> SUFFICES ASSUME Init PROVE TypeOK /\ Shape
    BY DEF ConnInv
  <2>1. /\ \A c \in Call : calls[c] = IdleCall /\ conn[c] = NoConn
        /\ \A s \in Session : connections[s] = None /\ pending[s] = None
    BY DEF Init
  <2>2. calls \in [Call -> CallRecord] /\ conn \in [Call -> ConnRecord]
    BY DEF Init, IdleCall, CallRecord, NoConn, ConnRecord
  <2>3. TypeOK
    BY <2>1, <2>2 DEF Init, TypeOK, IdleCall
  <2>4. Shape
    BY <2>1 DEF Shape, PromiseOfPhase, OneLeader, MapHolds, JoinsOwnToken, OwnTokenOnly,
                IdleCall, Leads
  <2> QED
    BY <2>3, <2>4
<1>2. ConnInv /\ [Next]_vars => ConnInv'
  BY ConnStep
<1> QED
  BY <1>1, <1>2, PTL DEF Spec

\* A request is only ever sent over a connection made under its own token.
THEOREM OwnToken == Spec => []OwnTokenOnly
<1>1. ConnInv => OwnTokenOnly
  BY DEF ConnInv, Shape
<1> QED
  BY <1>1, ConnectionsWellFormed, PTL

-----------------------------------------------------------------------------
(* Transports: none is left behind while the marker of a session lasts as long as
   its requests are at work. *)

\* A request at work opens nothing: what is linked stays linked or is shut.
LEMMA LinkKept ==
    ASSUME ConnInv, LinkInv, NEW c \in Call,
           \A d \in Call : Linked(d)' => Linked(d),
           \A d \in Call : d # c => calls'[d] = calls[d],
           calls[c].pc \notin Ended \cup {"idle"}, calls'[c].sess = calls[c].sess,
           calls[c].pc = "connecting" => ~Linked(c)',
           \A s \in Session : connections'[s] = connections[s] \/
              /\ connections'[s] = None
              /\ \A d \in Call : connections[s] = d => ~Linked(d)',
           UNCHANGED <<destroyed, closing>>
    PROVE  LinkInv'
<1>1. TypeOK /\ PromiseOfPhase
  BY DEF ConnInv, Shape
<1> USE <1>1, Typed
<1>2. LinkHeld'
  <2> SUFFICES ASSUME NEW d \in Call, Linked(d)'
               PROVE  /\ calls'[d].sess \in Session
                      /\ \/ destroyed'[calls'[d].sess] = "early"
                         \/ calls'[d].pc = "connecting"
                         \/ connections'[calls'[d].sess] = d
    BY DEF LinkHeld, Sess, PrunedEarly
  <2>1. /\ calls[d].sess \in Session
        /\ \/ destroyed[calls[d].sess] = "early"
           \/ calls[d].pc = "connecting"
           \/ connections[calls[d].sess] = d
    BY DEF LinkInv, LinkHeld, Sess, PrunedEarly
  <2>2. calls'[d].sess = calls[d].sess
    BY <1>1
  <2>3. calls[d].pc = "connecting" => calls'[d].pc = "connecting"
    BY <1>1
  <2> QED
    BY <2>1, <2>2, <2>3
<1>3. \A s \in Session : Quiet(s) => Quiet(s)'
  BY DEF Quiet, Sess, Ended
<1>4. TornDown'
  <2> SUFFICES ASSUME NEW s \in Session
               PROVE  /\ closing'[s] = "no" => destroyed'[s] = "no"
                      /\ closing'[s] # "no" => destroyed'[s] # "no" \/ Quiet(s)'
                      /\ \A d \in Call : closing'[s] \in {"closing", "done"} /\ connections'[s] = d
                                            => destroyed'[s] = "early" \/ ~Linked(d)'
    BY DEF TornDown, PrunedEarly
  <2>1. /\ closing[s] = "no" => destroyed[s] = "no"
        /\ closing[s] # "no" => destroyed[s] # "no" \/ Quiet(s)
    BY DEF LinkInv, TornDown
  <2>2. ASSUME NEW d \in Call, closing[s] \in {"closing", "done"}, connections'[s] = d
        PROVE  destroyed[s] = "early" \/ ~Linked(d)'
    BY <1>1, <2>2 DEF LinkInv, TornDown, PrunedEarly
  <2> QED
    BY <1>3, <2>1, <2>2
<1> QED
  BY <1>2, <1>4 DEF LinkInv

\* Nor do events, pings and rotated tokens.
LEMMA LinkStill ==
    ASSUME TypeOK', LinkInv, \A d \in Call : Linked(d)' => Linked(d),
           UNCHANGED <<calls, connections, destroyed, closing>>
    PROVE  LinkInv'
<1>1. LinkHeld'
  BY DEF LinkInv, LinkHeld, Sess, PrunedEarly
<1>2. \A s \in Session : Quiet(s)' <=> Quiet(s)
  BY DEF Quiet, Sess
<1>3. TornDown'
  BY <1>2 DEF LinkInv, TornDown, PrunedEarly
<1> QED
  BY <1>1, <1>3 DEF LinkInv

\* Marking a connection failed leaves every link as it is.
LEMMA MarkKeepsLinks ==
    ASSUME NEW s, NEW d, conn \in [Call -> ConnRecord], MarkFailed(s, d)
    PROVE  \A e \in Call : conn'[e].link = conn[e].link
<1>1. SUFFICES ASSUME NEW e \in Call PROVE conn'[e].link = conn[e].link
  OBVIOUS
<1>2. PICK r : r = conn[e]
  OBVIOUS
<1>3. PICK b, p, st : /\ b = (conn[e].broken \/ e = d) /\ p = (conn[e].ping /\ e # d)
                      /\ st = IF e = connections[s] THEN "FAILED" ELSE conn[e].state
  OBVIOUS
<1>4. conn'[e] = [r EXCEPT !.state = st, !.broken = b, !.ping = p]
  BY <1>2, <1>3 DEF MarkFailed
<1>5. r \in ConnRecord
  BY <1>2
<1> QED
  BY <1>2, <1>4, <1>5 DEF ConnRecord

\* No step leaves a transport behind.
LEMMA LinkStep ==
    ASSUME ConnInv, ConnInv', LinkInv, [Next]_vars
    PROVE  LinkInv'
<1>1. TypeOK /\ TypeOK' /\ PromiseOfPhase /\ OneLeader /\ MapHolds
  BY DEF ConnInv, Shape
<1>2. /\ calls \in [Call -> CallRecord] /\ conn \in [Call -> ConnRecord]
      /\ connections \in [Session -> Call \cup {None}]
      /\ pending \in [Session -> Call \cup {None}]
      /\ None \notin Call /\ None \notin Session
      /\ \A c \in Call : calls[c].pc # "idle" => Sess(c) \in Session
  BY <1>1, Typed
<1>3. \A s \in Session :
         /\ closing[s] = "no" => destroyed[s] = "no"
         /\ closing[s] # "no" => destroyed[s] # "no" \/ Quiet(s)
         /\ \A d \in Call : closing[s] \in {"closing", "done"} /\ connections[s] = d
                               => destroyed[s] = "early" \/ ~Linked(d)
  BY DEF LinkInv, TornDown, PrunedEarly
<1>4. /\ destroyed \in [Session -> {"no", "marked", "old", "early"}]
      /\ closing \in [Session -> {"no", "waiting", "closing", "done"}]
  BY <1>1 DEF TypeOK
<1>5. \A d \in Call : Linked(d) => /\ Sess(d) \in Session
                                   /\ \/ destroyed[Sess(d)] = "early"
                                      \/ calls[d].pc = "connecting"
                                      \/ connections[Sess(d)] = d
  BY DEF LinkInv, LinkHeld, PrunedEarly
\* TornDown and LinkHeld after a step.
<1>d. ASSUME \A s \in Session :
                /\ closing'[s] = "no" => destroyed'[s] = "no"
                /\ closing'[s] # "no" => destroyed'[s] # "no" \/ Quiet(s)'
                /\ \A d \in Call : closing'[s] \in {"closing", "done"} /\ connections'[s] = d
                                      => destroyed'[s] = "early" \/ ~Linked(d)'
      PROVE  TornDown'
  BY <1>d DEF TornDown, PrunedEarly
<1>e. ASSUME \A d \in Call : Linked(d)' =>
                /\ calls'[d].sess \in Session
                /\ \/ destroyed'[calls'[d].sess] = "early"
                   \/ calls'[d].pc = "connecting"
                   \/ connections'[calls'[d].sess] = d
      PROVE  LinkHeld'
  BY <1>e DEF LinkHeld, PrunedEarly, Sess
<1>c. \A c \in Call : calls[c] \in CallRecord
  BY <1>2
\* A request that neither connects nor ends a connect.
<1>6. ASSUME NEW c \in Call, UNCHANGED <<conn, connections, destroyed, closing>>,
             calls[c].pc \notin Ended \cup {"idle", "connecting"},
             \A d \in Call : d # c => calls'[d] = calls[d],
             calls'[c].sess = calls[c].sess
      PROVE  LinkInv'
  <2>1. \A d \in Call : Linked(d)' => Linked(d)
    BY <1>6 DEF Linked
  <2> QED
    BY <1>6, <2>1, LinkKept
<1>7. ASSUME NEW c \in Call, NEW s \in Session, Begin(c, s) PROVE LinkInv'
  <2>1. /\ calls[c].pc = "idle" /\ closing[s] = "no"
        /\ \A d \in Call : d # c => calls'[d] = calls[d]
        /\ calls'[c].sess = s /\ calls[c].sess = None
        /\ UNCHANGED <<conn, connections, destroyed, closing>>
    BY <1>1, <1>2, <1>c, <1>7 DEF Begin, CallRecord, PromiseOfPhase
  <2>2. calls[c].promise = "none" /\ \A x \in Session : connections[x] # c
    BY <1>1, <1>2, <2>1 DEF PromiseOfPhase, MapHolds
  <2>3. ~Linked(c) /\ \A d \in Call : Linked(d)' <=> Linked(d)
    BY <1>2, <1>5, <2>1, <2>2 DEF Linked, Sess
  <2>4. LinkHeld'
    BY <1>5, <2>1, <2>3 DEF LinkHeld, Sess, PrunedEarly
  <2>5. \A x \in Session : x # s /\ Quiet(x) => Quiet(x)'
    BY <2>1 DEF Quiet, Sess
  <2>6. TornDown'
    BY <1>1, <1>3, <2>1, <2>3, <2>5, <1>d
  <2> QED
    BY <2>4, <2>6 DEF LinkInv
<1>8. ASSUME NEW c \in Call, ConsentRefused(c) \/ CallReturns(c) \/ RequestFails(c)
                              \/ ValidationFails(c)
      PROVE  LinkInv'
  <2>1. /\ UNCHANGED <<conn, connections, destroyed, closing>>
        /\ calls[c].pc \notin Ended \cup {"idle", "connecting"}
    BY <1>8 DEF ConsentRefused, CallReturns, RequestFails, ValidationFails, Ended
  <2>2. Goto(c, "failed") \/ Goto(c, "done") \/ Settle(c, "rejected")
    BY <1>8 DEF ConsentRefused, CallReturns, RequestFails, ValidationFails
  <2>3. calls'[c].sess = calls[c].sess /\ \A d \in Call : d # c => calls'[d] = calls[d]
    <3>1. CASE Goto(c, "failed")
      BY <1>2, <1>c, <3>1 DEF CallRecord, Goto
    <3>2. CASE Goto(c, "done")
      BY <1>2, <1>c, <3>2 DEF CallRecord, Goto
    <3>3. CASE Settle(c, "rejected")
      BY <1>2, <1>c, <3>3 DEF CallRecord, Settle
    <3> QED
      BY <2>2, <3>1, <3>2, <3>3
  <2> QED
    BY <1>6, <2>1, <2>3
<1>9. ASSUME NEW c \in Call, ServeList(c) \/ ListReturns(c) PROVE LinkInv'
  <2>1. /\ UNCHANGED <<conn, connections, destroyed, closing>>
        /\ calls[c].pc \notin Ended \cup {"idle", "connecting"}
        /\ calls'[c].sess = calls[c].sess /\ \A d \in Call : d # c => calls'[d] = calls[d]
    BY <1>2, <1>c, <1>9 DEF ServeList, ListReturns, Goto, Ended, CallRecord
  <2> QED
    BY <1>6, <2>1
<1>10. ASSUME NEW c \in Call, LeaderReturns(c) \/ JoinerReturns(c) PROVE LinkInv'
  <2>1. /\ UNCHANGED <<conn, connections, destroyed, closing>>
        /\ calls[c].pc \notin Ended \cup {"idle", "connecting"}
    BY <1>10 DEF LeaderReturns, JoinerReturns, Ended
  <2>2. calls'[c].sess = calls[c].sess /\ \A d \in Call : d # c => calls'[d] = calls[d]
    <3>1. \E l : Return(c, l)
      BY <1>10 DEF LeaderReturns, JoinerReturns
    <3> QED
      BY <1>2, <1>c, <3>1 DEF Return, Goto, CallRecord
  <2> QED
    BY <1>6, <2>1, <2>2
<1>11. ASSUME NEW c \in Call, GetOrConnect(c) PROVE LinkInv'
  <2>1. /\ calls[c].pc \in {"authorizing", "waiting"} /\ Sess(c) \in Session
        /\ UNCHANGED <<destroyed, closing>>
    BY <1>2, <1>11 DEF GetOrConnect, UseExisting, Join, AwaitOther, Lead, NeedsConnection, Enters
  <2>2. calls'[c].sess = calls[c].sess /\ \A d \in Call : d # c => calls'[d] = calls[d]
    BY <1>2, <1>c, <1>11 DEF GetOrConnect, UseExisting, Join, AwaitOther, Lead, CallRecord
  <2>3. CASE UseExisting(c)
    <3>1. UNCHANGED <<conn, connections>>
      BY <2>3 DEF UseExisting
    <3> QED
      BY <1>6, <2>1, <2>2, <3>1 DEF Ended
  <2>4. CASE Join(c) \/ AwaitOther(c) \/ Lead(c)
    <3>1. (Existing(c) # None /\ Forget(c)) \/ Keep
      BY <2>4 DEF Join, AwaitOther, Lead, DropRotated, Rotated, Connected, Failed
    <3>2. Dropped
      BY <2>1, <3>1, ForgetDrops
    <3> QED
      BY <2>1, <2>2, <3>2, LinkKept DEF Dropped, Ended
  <2> QED
    BY <1>11, <2>3, <2>4 DEF GetOrConnect
<1>12. ASSUME NEW c \in Call, Validated(c) PROVE LinkInv'
  <2>1. /\ calls[c].pc = "validating" /\ calls'[c].pc = "connecting"
        /\ calls'[c].sess = calls[c].sess /\ \A d \in Call : d # c => calls'[d] = calls[d]
        /\ UNCHANGED <<connections, destroyed, closing>>
        /\ \A d \in Call : d # c => conn'[d] = conn[d]
    BY <1>2, <1>c, <1>12 DEF Validated, Goto, CallRecord
  <2>2. \A x \in Session : connections[x] # c
    BY <1>1, <1>2, <2>1 DEF PromiseOfPhase, MapHolds
  <2>3. LinkHeld'
    <3>1. calls[c].sess \in Session
      BY <1>2, <2>1 DEF Sess
    <3>2. \A d \in Call : calls'[d].sess = calls[d].sess /\ (d # c => (Linked(d)' <=> Linked(d)))
      BY <2>1 DEF Linked
    <3> QED
      BY <1>5, <1>e, <2>1, <3>1, <3>2 DEF Sess
  <2>4. \A x \in Session : Quiet(x) => Quiet(x)'
    BY <2>1 DEF Quiet, Sess
  <2>5. \A d \in Call : d # c /\ Linked(d)' => Linked(d)
    BY <2>1 DEF Linked
  <2>6. TornDown'
    BY <1>1, <1>3, <2>1, <2>2, <2>4, <2>5, <1>d
  <2> QED
    BY <2>3, <2>6 DEF LinkInv
<1>13. ASSUME NEW c \in Call, ConnectFails(c) \/ ConnectOrphaned(c) PROVE LinkInv'
  <2>1. /\ calls[c].pc = "connecting" /\ conn' = Shut(c)
        /\ calls'[c].sess = calls[c].sess /\ \A d \in Call : d # c => calls'[d] = calls[d]
        /\ UNCHANGED <<connections, destroyed, closing>>
    BY <1>2, <1>c, <1>13 DEF ConnectFails, ConnectOrphaned, Settle, CallRecord
  <2>2. ~Linked(c)' /\ \A d \in Call : Linked(d)' => Linked(d)
    <3>1. ~Linked(c)' /\ \A d \in Call : d # c => conn'[d] = conn[d]
      BY <1>1, <2>1, ShutLinks
    <3> QED
      BY <3>1 DEF Linked
  <2> QED
    BY <2>1, <2>2, LinkKept DEF Ended
<1>14. ASSUME NEW c \in Call, ConnectStored(c) PROVE LinkInv'
  <2>1. /\ calls[c].pc = "connecting" /\ calls[c].sess \in Session
        /\ calls'[c].sess = calls[c].sess /\ \A d \in Call : d # c => calls'[d] = calls[d]
        /\ connections' = [connections EXCEPT ![calls[c].sess] = c]
        /\ UNCHANGED <<destroyed, closing>> /\ destroyed[calls[c].sess] \in {"no", "early"}
        /\ \A d \in Call : d # c => conn'[d] = conn[d]
    BY <1>2, <1>c, <1>14 DEF ConnectStored, Settle, SessionAlive, Sess, CallRecord
  <2>2. connections[calls[c].sess] = None /\ pending[calls[c].sess] = c
    BY <1>1, <2>1 DEF MapHolds, OneLeader, Sess, Leads
  <2>3. closing[calls[c].sess] = "no" \/ destroyed[calls[c].sess] = "early"
    BY <1>3, <2>1 DEF Quiet, Sess
  <2>4. LinkHeld'
    <3> SUFFICES ASSUME NEW d \in Call, Linked(d)'
                 PROVE  /\ calls'[d].sess \in Session
                        /\ \/ destroyed'[calls'[d].sess] = "early"
                           \/ calls'[d].pc = "connecting"
                           \/ connections'[calls'[d].sess] = d
      BY <1>e
    <3>1. CASE d = c
      BY <1>2, <2>1, <3>1
    <3>2. CASE d # c
      <4>1. calls'[d] = calls[d] /\ Linked(d)
        BY <2>1, <3>2 DEF Linked
      <4>2. /\ calls[d].sess \in Session
            /\ \/ destroyed[calls[d].sess] = "early"
               \/ calls[d].pc = "connecting"
               \/ connections[calls[d].sess] = d
        BY <1>5, <4>1 DEF Sess
      <4> QED
        BY <1>2, <2>1, <2>2, <4>1, <4>2
    <3> QED
      BY <3>1, <3>2
  <2>5. \A x \in Session : Quiet(x) => Quiet(x)'
    BY <2>1 DEF Quiet, Sess
  <2>6. \A x \in Session, d \in Call : closing[x] \in {"closing", "done"} /\ connections'[x] = d
                                           => destroyed[x] = "early" \/ ~Linked(d)'
    <3> SUFFICES ASSUME NEW x \in Session, NEW d \in Call, closing[x] \in {"closing", "done"},
                        connections'[x] = d, destroyed[x] # "early"
                 PROVE  ~Linked(d)'
      OBVIOUS
    <3>1. x # calls[c].sess /\ connections[x] = d
      BY <1>2, <2>1, <2>3
    <3>2. d # c
      BY <1>1, <1>2, <2>1, <3>1 DEF MapHolds, PromiseOfPhase
    <3> QED
      BY <1>3, <2>1, <3>1, <3>2 DEF Linked
  <2>7. TornDown'
    BY <1>1, <1>3, <2>1, <2>5, <2>6, <1>d
  <2> QED
    BY <2>4, <2>7 DEF LinkInv
<1>15. ASSUME NEW d \in Call,
              TransportEvent(d) \/ PingReturns(d) \/ PingFails(d) \/ ToolsChanged(d)
       PROVE  LinkInv'
  <2>1. UNCHANGED <<calls, connections, destroyed, closing>>
    BY <1>15 DEF TransportEvent, PingReturns, PingFails, ToolsChanged
  <2>2. \A e \in Call : conn'[e].link = conn[e].link
    <3>1. CASE TransportEvent(d)
      <4>1. CASE MarkFailed(Sess(d), d)
        BY <1>2, <4>1, MarkKeepsLinks
      <4>2. CASE conn' = [conn EXCEPT ![d].broken = TRUE]
        BY <1>2, <4>2 DEF ConnRecord
      <4> QED
        BY <3>1, <4>1, <4>2 DEF TransportEvent
    <3>2. CASE PingReturns(d)
      BY <1>2, <3>2 DEF PingReturns, ConnRecord
    <3>3. CASE PingFails(d)
      <4>1. CASE MarkFailed(Sess(d), d)
        BY <1>2, <4>1, MarkKeepsLinks
      <4>2. CASE conn' = [conn EXCEPT ![d].ping = FALSE, ![d].broken = TRUE]
        BY <1>2, <4>2 DEF ConnRecord
      <4> QED
        BY <3>3, <4>1, <4>2 DEF PingFails
    <3>4. CASE ToolsChanged(d)
      BY <3>4 DEF ToolsChanged
    <3> QED
      BY <1>15, <3>1, <3>2, <3>3, <3>4
  <2> QED
    BY <1>1, <2>1, <2>2, LinkStill DEF Linked
<1>16. ASSUME NEW s \in Session, Ping(s) \/ RotateToken(s) PROVE LinkInv'
  <2>1. UNCHANGED <<calls, connections, destroyed, closing>>
    BY <1>16 DEF Ping, RotateToken
  <2>2. \A e \in Call : conn'[e].link = conn[e].link
    BY <1>2, <1>16 DEF Ping, RotateToken, ConnRecord
  <2> QED
    BY <1>1, <2>1, <2>2, LinkStill DEF Linked
\* The session comes down: marked, waited for, shut and forgotten.
<1>17. ASSUME UNCHANGED calls PROVE \A s \in Session : Quiet(s)' <=> Quiet(s)
  BY <1>17 DEF Quiet, Sess
<1>18. ASSUME NEW s \in Session, Destroy(s) PROVE LinkInv'
  <2>1. /\ UNCHANGED <<calls, conn, connections>> /\ closing[s] = "no"
        /\ destroyed' = [destroyed EXCEPT ![s] = "marked"]
        /\ closing' = [closing EXCEPT ![s] = "waiting"]
    BY <1>18 DEF Destroy
  <2>2. \A d \in Call : Linked(d)' <=> Linked(d)
    BY <2>1 DEF Linked
  <2>3. \A x \in Session : destroyed[x] = "early" => destroyed'[x] = "early"
    BY <1>3, <2>1
  <2>4. LinkHeld'
    BY <1>5, <1>e, <2>1, <2>2, <2>3 DEF Sess
  <2>5. TornDown'
    BY <1>1, <1>3, <1>4, <1>17, <2>1, <2>2, <1>d
  <2> QED
    BY <2>4, <2>5 DEF LinkInv
<1>19. ASSUME NEW s \in Session, CloseSession(s) PROVE LinkInv'
  <2>1. /\ UNCHANGED <<calls, connections, destroyed>> /\ closing[s] = "waiting"
        /\ closing' = [closing EXCEPT ![s] = "closing"]
        /\ IF connections[s] # None THEN conn' = Shut(connections[s]) ELSE conn' = conn
    BY <1>19 DEF CloseSession
  <2>2. /\ \A d \in Call : Linked(d)' => Linked(d)
        /\ \A d \in Call : connections[s] = d => ~Linked(d)'
    <3>1. CASE connections[s] = None
      BY <1>2, <2>1, <3>1 DEF Linked
    <3>2. CASE connections[s] # None
      <4>1. PICK d \in Call : d = connections[s] /\ conn' = Shut(d)
        BY <1>2, <2>1, <3>2
      <4>2. ~Linked(d)' /\ \A e \in Call : e # d => conn'[e] = conn[e]
        BY <1>1, <4>1, ShutLinks
      <4> QED
        BY <4>1, <4>2 DEF Linked
    <3> QED
      BY <3>1, <3>2
  <2>3. LinkHeld'
    BY <1>5, <2>1, <2>2 DEF LinkHeld, Sess, PrunedEarly
  <2>4. TornDown'
    BY <1>1, <1>3, <1>4, <1>17, <2>1, <2>2, <1>d
  <2> QED
    BY <2>3, <2>4 DEF LinkInv
<1>20. ASSUME NEW s \in Session, FinishClose(s) PROVE LinkInv'
  <2>1. /\ UNCHANGED <<calls, conn>> /\ closing[s] = "closing"
        /\ closing' = [closing EXCEPT ![s] = "done"]
        /\ connections' = [connections EXCEPT ![s] = None]
        /\ destroyed' = [x \in Session |-> IF destroyed[x] = "old" THEN Pruned(x) ELSE destroyed[x]]
    BY <1>20 DEF FinishClose
  <2>2. \A d \in Call : Linked(d)' <=> Linked(d)
    BY <2>1 DEF Linked
  <2>3. LinkHeld'
    <3> SUFFICES ASSUME NEW d \in Call, Linked(d)
                 PROVE  /\ calls[d].sess \in Session
                        /\ \/ destroyed'[calls[d].sess] = "early"
                           \/ calls[d].pc = "connecting"
                           \/ connections'[calls[d].sess] = d
      BY <1>e, <2>1, <2>2
    <3>1. calls[d].sess \in Session
      BY <1>5 DEF Sess
    <3>2. destroyed[calls[d].sess] = "early" => destroyed'[calls[d].sess] = "early"
      BY <2>1, <3>1
    <3>3. connections[s] = d => destroyed[s] = "early"
      BY <1>3, <2>1
    <3> QED
      BY <1>2, <1>5, <2>1, <3>1, <3>2, <3>3 DEF Sess
  <2>4. TornDown'
    <3> SUFFICES ASSUME NEW x \in Session
                 PROVE  /\ closing'[x] = "no" => destroyed'[x] = "no"
                        /\ closing'[x] # "no" => destroyed'[x] # "no" \/ Quiet(x)'
                        /\ \A d \in Call : closing'[x] \in {"closing", "done"} /\ connections'[x] = d
                                              => destroyed'[x] = "early" \/ ~Linked(d)'
      BY <1>d
    <3>1. /\ destroyed'[x] # "no" \/ destroyed[x] = "no" \/ Quiet(x)
          /\ destroyed[x] = "early" => destroyed'[x] = "early"
          /\ destroyed[x] = "no" => destroyed'[x] = "no"
      BY <1>4, <2>1 DEF Pruned
    <3> QED
      BY <1>2, <1>3, <1>4, <1>17, <2>1, <2>2, <3>1
  <2> QED
    BY <2>3, <2>4 DEF LinkInv
<1>21. ASSUME NEW s \in Session, MarkerAges(s) PROVE LinkInv'
  <2>1. /\ UNCHANGED <<calls, conn, connections, closing>>
        /\ destroyed[s] = "marked"
        /\ destroyed' = [destroyed EXCEPT ![s] = "old"]
    BY <1>21 DEF MarkerAges
  <2>2. LinkHeld' /\ \A d \in Call : Linked(d)' <=> Linked(d)
    BY <1>5, <2>1 DEF LinkHeld, Linked, Sess, PrunedEarly
  <2>3. TornDown'
    BY <1>1, <1>3, <1>4, <1>17, <2>1, <2>2, <1>d
  <2> QED
    BY <2>2, <2>3 DEF LinkInv
<1>22. CASE UNCHANGED vars
  BY <1>1, <1>22, LinkStill DEF vars, Linked
<1> QED
  BY <1>7, <1>8, <1>9, <1>10, <1>11, <1>12, <1>13, <1>14, <1>15, <1>16, <1>18, <1>19, <1>20,
     <1>21, <1>22 DEF Next, CreateConnection

\* A session has one transport at a time and leaks none, of every number of
\* sessions and requests, unless its marker was pruned while a request of it was
\* at work (getOrConnect, createConnection, closeAll).
THEOREM NoTransportLeaks == Spec => []NoLeakedTransport
<1>1. Init => LinkInv
  <2> SUFFICES ASSUME Init PROVE LinkInv
    OBVIOUS
  <2>1. \A c \in Call : ~Linked(c)
    BY DEF Init, NoConn, Linked
  <2> QED
    BY <2>1 DEF Init, LinkInv, LinkHeld, TornDown
<1>2. ConnInv /\ ConnInv' /\ LinkInv /\ [Next]_vars => LinkInv'
  BY LinkStep
<1>3. ConnInv /\ LinkInv => NoLeakedTransport
  <2> SUFFICES ASSUME ConnInv, LinkInv, NEW c \in Call, Linked(c), ~PrunedEarly(Sess(c))
               PROVE  /\ \/ connections[Sess(c)] = c /\ closing[Sess(c)] \in {"no", "waiting"}
                         \/ pending[Sess(c)] = c
                      /\ \A d \in Call \ {c} : ~(Linked(d) /\ Sess(d) = Sess(c))
    BY DEF NoLeakedTransport
  <2>1. \A d \in Call : Linked(d) /\ ~PrunedEarly(Sess(d)) =>
            \/ calls[d].pc = "connecting" /\ pending[Sess(d)] = d /\ connections[Sess(d)] = None
            \/ connections[Sess(d)] = d
    BY DEF ConnInv, Shape, OneLeader, MapHolds, LinkInv, LinkHeld, Leads
  <2>2. connections[Sess(c)] = c => closing[Sess(c)] \in {"no", "waiting"}
    BY DEF ConnInv, TypeOK, LinkInv, LinkHeld, TornDown
  <2> QED
    BY <2>1, <2>2, ConstantsAssumption DEF ConstantsAssumption
<1> QED
  BY <1>1, <1>2, <1>3, ConnectionsWellFormed, PTL DEF Spec
=============================================================================
