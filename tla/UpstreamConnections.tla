------------------------- MODULE UpstreamConnections -------------------------
(***************************************************************************)
(* Connections of client sessions to the upstream MCP server of their      *)
(* profile (src/upstream/upstream-connection-manager.ts and                *)
(* upstream-heartbeat.ts), and the tool calls of src/mcp/mcp-server.ts     *)
(* that use them.                                                          *)
(*                                                                         *)
(* A call reads the session token, awaits the consent guard, gets or makes *)
(* a connection, and awaits the upstream's answer.  A profile has one      *)
(* upstream, so the key `${sessionId}:${provider}` is the session.  A call *)
(* names the connection it creates.  Code between two awaits is one step;  *)
(* everything between steps interleaves: other calls, transport events,    *)
(* heartbeats, token rotation and the destruction of the session.          *)
(***************************************************************************)
EXTENDS Naturals

CONSTANTS
    Session, Call, Token, None,
    ProviderAuth,  \* the profile has upstream auth: connections carry a token
    MaxEvents      \* bound on failures and on changes of the tool list

ASSUME ConstantsAssumption ==
    /\ None \notin Session \cup Call \cup Token
    /\ ProviderAuth \in BOOLEAN
    /\ MaxEvents \in Nat

VARIABLES
    calls,        \* the requests at work
    conn,         \* the client and transport each call made
    connections,  \* session -> connection in the map, or None
    pending,      \* session -> call whose connect is in flight, or None
    destroyed,    \* destroyedSessions: "no", "marked", or "old" (past its TTL); "early" is
                  \* "no" to the code: pruned with a request of the session still at work
    closing,      \* closeAll of the session: "no", "waiting", "closing", "done"
    awaited,      \* the pending connect closeAll waits for
    timer,        \* heartbeat timers: session -> connection it pings, or None
    token,        \* the token of the session, as the transport holds it
    toolCache,    \* sanitizedAndPolicyFilteredToolNames, as a version, or None
    version,      \* version of the upstream's tool list, per session
    events        \* failures of transports and pings, and tool list changes

vars == <<calls, conn, connections, pending, destroyed, closing, awaited, timer,
          token, toolCache, version, events>>

CallRecord ==
    [ pc      : {"idle", "authorizing", "waiting", "joined", "validating", "connecting",
                 "returning", "using", "listed", "done", "failed"},
      sess    : Session \cup {None},
      token   : Token \cup {None},
      leader  : Call \cup {None},     \* whose connect it awaits
      promise : {"none", "pending", "resolved", "rejected"},
      client  : Call \cup {None},     \* the connection it was given
      seen    : Nat ]                 \* the tool list it was answered with
ConnRecord ==
    [ link   : {"none", "opening", "open", "shut"},
      state  : {"NONE", "CONNECTED", "FAILED"},
      broken : BOOLEAN,               \* its transport or its ping failed, or it was closed
      ping   : BOOLEAN ]              \* a ping is in flight

IdleCall == [ pc |-> "idle", sess |-> None, token |-> None, leader |-> None,
              promise |-> "none", client |-> None, seen |-> 0 ]
NoConn == [link |-> "none", state |-> "NONE", broken |-> FALSE, ping |-> FALSE]

Init ==
    /\ calls = [c \in Call |-> IdleCall]
    /\ conn = [c \in Call |-> NoConn]
    /\ connections = [s \in Session |-> None]
    /\ pending = [s \in Session |-> None]
    /\ destroyed = [s \in Session |-> "no"]
    /\ closing = [s \in Session |-> "no"]
    /\ awaited = [s \in Session |-> None]
    /\ timer = [s \in Session |-> None]
    /\ token \in [Session -> Token]
    /\ toolCache = [s \in Session |-> None]
    /\ version = [s \in Session |-> 0]
    /\ events = 0

Sess(c) == calls[c].sess
Goto(c, pc) == calls' = [calls EXCEPT ![c].pc = pc]
Settled(c) == calls[c].promise \in {"resolved", "rejected"}

----------------------------------------------------------------------------
(* A request: the token is read, then the consent guard is awaited. *)

\* Only a live session's request is handled.
Begin(c, s) ==
    /\ calls[c].pc = "idle" /\ closing[s] = "no"
    /\ calls' = [calls EXCEPT ![c] =
                   [@ EXCEPT !.pc = "authorizing", !.sess = s, !.token = token[s]]]
    /\ UNCHANGED <<conn, connections, pending, destroyed, closing, awaited, timer,
                   token, toolCache, version, events>>

ConsentRefused(c) ==
    /\ calls[c].pc = "authorizing"
    /\ Goto(c, "failed")
    /\ UNCHANGED <<conn, connections, pending, destroyed, closing, awaited, timer,
                   token, toolCache, version, events>>

----------------------------------------------------------------------------
(* getOrConnect, from its entry to its first await. *)

\* On entry, and again after the connect under another token has settled.
Enters(c) == \/ calls[c].pc = "authorizing"
             \/ calls[c].pc = "waiting" /\ Settled(calls[c].leader)

\* The tokens of two calls are compared only when the upstream has auth.
AnyToken(c, d) == TRUE
SameToken(c, d) == ProviderAuth => calls[c].token = calls[d].token

Existing(c) == connections[Sess(c)]
Connected(c) == Existing(c) # None /\ conn[Existing(c)].state = "CONNECTED"
Rotated(c) == Connected(c) /\ ~SameToken(c, Existing(c))
Failed(c) == Existing(c) # None /\ conn[Existing(c)].state = "FAILED"

AbandonsLink(r) == r
CloseLink(r) == IF r.link = "none" THEN r ELSE [r EXCEPT !.link = "shut", !.broken = TRUE]
Shut(d) == [conn EXCEPT ![d] = CloseLink(@)]

\* Take the connection of the call's session out of the map and close it.
Forget(c) ==
    /\ connections' = [connections EXCEPT ![Sess(c)] = None]
    /\ conn' = Shut(Existing(c))
    /\ timer' = [timer EXCEPT ![Sess(c)] = None]
Keep == UNCHANGED <<connections, conn, timer>>

\* A connection under another token is dropped, and the tool cache with it.
DropRotated(c) ==
    IF Rotated(c)
    THEN Forget(c) /\ toolCache' = [toolCache EXCEPT ![Sess(c)] = None]
    ELSE Keep /\ UNCHANGED toolCache

UseExisting(c) ==
    /\ Enters(c) /\ Connected(c) /\ SameToken(c, Existing(c))
    /\ calls' = [calls EXCEPT ![c].pc = "using", ![c].client = Existing(c)]
    /\ UNCHANGED <<conn, connections, pending, destroyed, closing, awaited, timer,
                   token, toolCache, version, events>>

NeedsConnection(c) == Enters(c) /\ ~(Connected(c) /\ SameToken(c, Existing(c)))

InFlight(c) == pending[Sess(c)] # None

\* The connect in flight is under the same token: await it.
Join(c) ==
    /\ NeedsConnection(c)
    /\ InFlight(c) /\ SameToken(c, pending[Sess(c)])
    /\ DropRotated(c)
    /\ calls' = [calls EXCEPT ![c].pc = "joined", ![c].leader = pending[Sess(c)]]
    /\ UNCHANGED <<pending, destroyed, closing, awaited, token, version, events>>

\* It is under another token: let it settle, then start over.
AwaitOther(c) ==
    /\ NeedsConnection(c)
    /\ InFlight(c) /\ ~SameToken(c, pending[Sess(c)])
    /\ DropRotated(c)
    /\ calls' = [calls EXCEPT ![c].pc = "waiting", ![c].leader = pending[Sess(c)]]
    /\ UNCHANGED <<pending, destroyed, closing, awaited, token, version, events>>

\* No connect is in flight: start one.
Lead(c) ==
    /\ NeedsConnection(c)
    /\ ~InFlight(c)
    /\ IF Failed(c) THEN Forget(c) /\ UNCHANGED toolCache ELSE DropRotated(c)
    /\ pending' = [pending EXCEPT ![Sess(c)] = c]
    /\ calls' = [calls EXCEPT ![c].pc = "validating", ![c].promise = "pending"]
    /\ UNCHANGED <<destroyed, closing, awaited, token, version, events>>

GetOrConnect(c) == UseExisting(c) \/ Join(c) \/ AwaitOther(c) \/ Lead(c)

----------------------------------------------------------------------------
(* createConnection *)

Settle(c, promise) ==
    calls' = [calls EXCEPT ![c].pc = "returning", ![c].promise = promise]

\* The address was validated: the transport is made and connects.
Validated(c) ==
    /\ calls[c].pc = "validating"
    /\ conn' = [conn EXCEPT ![c].link = "opening"]
    /\ Goto(c, "connecting")
    /\ UNCHANGED <<connections, pending, destroyed, closing, awaited, timer,
                   token, toolCache, version, events>>

ValidationFails(c) ==
    /\ calls[c].pc = "validating"
    /\ Settle(c, "rejected")
    /\ UNCHANGED <<conn, connections, pending, destroyed, closing, awaited, timer,
                   token, toolCache, version, events>>

ConnectFails(c) ==
    /\ calls[c].pc = "connecting"
    /\ conn' = Shut(c)
    /\ Settle(c, "rejected")
    /\ UNCHANGED <<connections, pending, destroyed, closing, awaited, timer,
                   token, toolCache, version, events>>

SessionAlive(c) == destroyed[Sess(c)] \in {"no", "early"}

\* Connected: the connection is stored and its heartbeat started, unless a
\* timer runs for the key already.
ConnectStored(c) ==
    /\ calls[c].pc = "connecting" /\ SessionAlive(c)
    /\ conn' = [conn EXCEPT ![c].link = IF @ = "opening" THEN "open" ELSE @,
                            ![c].state = "CONNECTED"]
    /\ connections' = [connections EXCEPT ![Sess(c)] = c]
    /\ timer' = [timer EXCEPT ![Sess(c)] = IF @ = None THEN c ELSE @]
    /\ Settle(c, "resolved")
    /\ UNCHANGED <<pending, destroyed, closing, awaited, token, toolCache, version, events>>

\* Connected after closeAll began: the orphan closes itself.
ConnectOrphaned(c) ==
    /\ calls[c].pc = "connecting" /\ ~SessionAlive(c)
    /\ conn' = Shut(c)
    /\ Settle(c, "rejected")
    /\ UNCHANGED <<connections, pending, destroyed, closing, awaited, timer,
                   token, toolCache, version, events>>

CreateConnection(c) ==
    Validated(c) \/ ValidationFails(c) \/ ConnectFails(c) \/ ConnectStored(c) \/ ConnectOrphaned(c)

\* What the promise of call l gives c: the connection, or an error.
Return(c, l) ==
    IF calls[l].promise = "resolved"
    THEN calls' = [calls EXCEPT ![c].pc = "using", ![c].client = l]
    ELSE Goto(c, "failed")

\* The leader's finally block: clear the pending entry, return or throw.
PendingKept(c) == pending
PendingCleared(c) == [pending EXCEPT ![Sess(c)] = IF @ = c THEN None ELSE @]
LeaderReturns(c) ==
    /\ calls[c].pc = "returning"
    /\ pending' = PendingCleared(c)
    /\ Return(c, c)
    /\ UNCHANGED <<conn, connections, destroyed, closing, awaited, timer,
                   token, toolCache, version, events>>

JoinerReturns(c) ==
    /\ calls[c].pc = "joined" /\ Settled(calls[c].leader)
    /\ Return(c, calls[c].leader)
    /\ UNCHANGED <<conn, connections, pending, destroyed, closing, awaited, timer,
                   token, toolCache, version, events>>

----------------------------------------------------------------------------
(* The use of the connection: tools/call, or tools/list and its cache. *)

CallReturns(c) ==
    /\ calls[c].pc = "using" /\ conn[calls[c].client].link = "open"
    /\ Goto(c, "done")
    /\ UNCHANGED <<conn, connections, pending, destroyed, closing, awaited, timer,
                   token, toolCache, version, events>>

\* The upstream answers tools/list; the answer is on its way.
ServeList(c) ==
    /\ calls[c].pc = "using" /\ conn[calls[c].client].link = "open"
    /\ calls' = [calls EXCEPT ![c].pc = "listed", ![c].seen = version[Sess(c)]]
    /\ UNCHANGED <<conn, connections, pending, destroyed, closing, awaited, timer,
                   token, toolCache, version, events>>

ListReturns(c) ==
    /\ calls[c].pc = "listed" /\ conn[calls[c].client].link = "open"
    /\ toolCache' = [toolCache EXCEPT ![Sess(c)] = calls[c].seen]
    /\ Goto(c, "done")
    /\ UNCHANGED <<conn, connections, pending, destroyed, closing, awaited, timer,
                   token, version, events>>

\* Closing a client rejects its requests; an upstream may refuse one too.
RequestFails(c) ==
    /\ calls[c].pc \in {"using", "listed"}
    /\ Goto(c, "failed")
    /\ UNCHANGED <<conn, connections, pending, destroyed, closing, awaited, timer,
                   token, toolCache, version, events>>

----------------------------------------------------------------------------
(* Transport events, heartbeats and notifications. *)

IsCurrent(d) == Sess(d) # None /\ connections[Sess(d)] = d

\* handleTransportError and handleTransportClose.
MarkFailed(s, broke) ==
    /\ conn' = [d \in Call |->
                  [conn[d] EXCEPT !.state = IF d = connections[s] THEN "FAILED" ELSE @,
                                  !.broken = @ \/ d = broke,
                                  !.ping = @ /\ d # broke]]
    /\ timer' = [timer EXCEPT ![s] = None]

\* onerror or onclose of a transport, possibly long after it was replaced.
TransportEvent(d) ==
    /\ events < MaxEvents /\ events' = events + 1
    /\ conn[d].link \in {"open", "shut"}
    /\ IF IsCurrent(d)
       THEN MarkFailed(Sess(d), d)
       ELSE conn' = [conn EXCEPT ![d].broken = TRUE] /\ UNCHANGED timer
    /\ UNCHANGED <<calls, connections, pending, destroyed, closing, awaited,
                   token, toolCache, version>>

\* A ping that can no longer fail changes nothing: it is left out.
Ping(s) ==
    /\ events < MaxEvents
    /\ timer[s] # None /\ ~conn[timer[s]].ping
    /\ conn' = [conn EXCEPT ![timer[s]].ping = TRUE]
    /\ UNCHANGED <<calls, connections, pending, destroyed, closing, awaited, timer,
                   token, toolCache, version, events>>

PingReturns(d) ==
    /\ conn[d].ping
    /\ conn' = [conn EXCEPT ![d].ping = FALSE]
    /\ UNCHANGED <<calls, connections, pending, destroyed, closing, awaited, timer,
                   token, toolCache, version, events>>

\* A ping outlives the timer that sent it; a failure counts only while a timer
\* runs for the key and the connection is still the one that was pinged.
PingFails(d) ==
    /\ events < MaxEvents /\ events' = events + 1
    /\ conn[d].ping
    /\ IF timer[Sess(d)] # None /\ IsCurrent(d)
       THEN MarkFailed(Sess(d), d)
       ELSE conn' = [conn EXCEPT ![d].ping = FALSE, ![d].broken = TRUE] /\ UNCHANGED timer
    /\ UNCHANGED <<calls, connections, pending, destroyed, closing, awaited,
                   token, toolCache, version>>

\* The upstream's tool list changes and the connected client is notified.
ToolsChanged(d) ==
    /\ events < MaxEvents /\ events' = events + 1
    /\ IsCurrent(d) /\ conn[d].link = "open"
    /\ version' = [version EXCEPT ![Sess(d)] = @ + 1]
    /\ toolCache' = [toolCache EXCEPT ![Sess(d)] = None]
    /\ UNCHANGED <<calls, conn, connections, pending, destroyed, closing, awaited, timer,
                   token>>

----------------------------------------------------------------------------
(* The session: token rotation and destruction. *)

RotateToken(s) ==
    /\ closing[s] = "no"
    /\ \E t \in Token \ {token[s]} : token' = [token EXCEPT ![s] = t]
    /\ UNCHANGED <<calls, conn, connections, pending, destroyed, closing, awaited, timer,
                   toolCache, version, events>>

\* closeAll up to its first await: mark, then wait for the connect in flight.
Destroy(s) ==
    /\ closing[s] = "no"
    /\ destroyed' = [destroyed EXCEPT ![s] = "marked"]
    /\ closing' = [closing EXCEPT ![s] = "waiting"]
    /\ awaited' = [awaited EXCEPT ![s] = pending[s]]
    /\ toolCache' = [toolCache EXCEPT ![s] = None]
    /\ UNCHANGED <<calls, conn, connections, pending, timer, token, version, events>>

\* It has settled: stop the heartbeat and close the connection in the map.
CloseSession(s) ==
    /\ closing[s] = "waiting"
    /\ awaited[s] # None => Settled(awaited[s])
    /\ closing' = [closing EXCEPT ![s] = "closing"]
    /\ IF connections[s] # None
       THEN conn' = Shut(connections[s]) /\ timer' = [timer EXCEPT ![s] = None]
       ELSE UNCHANGED <<conn, timer>>
    /\ UNCHANGED <<calls, connections, pending, destroyed, awaited,
                   token, toolCache, version, events>>

\* No request of the session is left in a handler.
Quiet(s) == \A c \in Call : Sess(c) = s => calls[c].pc \in {"done", "failed"}

\* The closes are done: forget the session, prune the markers past their TTL,
\* of whatever session and whatever it still does.
Pruned(s) == IF Quiet(s) THEN "no" ELSE "early"
FinishClose(s) ==
    /\ closing[s] = "closing"
    /\ closing' = [closing EXCEPT ![s] = "done"]
    /\ connections' = [connections EXCEPT ![s] = None]
    /\ destroyed' = [x \in Session |-> IF destroyed[x] = "old" THEN Pruned(x) ELSE destroyed[x]]
    /\ UNCHANGED <<calls, conn, pending, awaited, timer, token, toolCache, version, events>>

MarkerAges(s) ==
    /\ destroyed[s] = "marked"
    /\ destroyed' = [destroyed EXCEPT ![s] = "old"]
    /\ UNCHANGED <<calls, conn, connections, pending, closing, awaited, timer,
                   token, toolCache, version, events>>

Next ==
    \/ \E c \in Call : \E s \in Session : Begin(c, s)
    \/ \E c \in Call :
          \/ ConsentRefused(c) \/ GetOrConnect(c) \/ CreateConnection(c)
          \/ LeaderReturns(c) \/ JoinerReturns(c)
          \/ CallReturns(c) \/ ServeList(c) \/ ListReturns(c) \/ RequestFails(c)
          \/ TransportEvent(c) \/ PingReturns(c) \/ PingFails(c) \/ ToolsChanged(c)
    \/ \E s \in Session :
          \/ Ping(s) \/ RotateToken(s) \/ Destroy(s) \/ CloseSession(s) \/ FinishClose(s)
          \/ MarkerAges(s)

Spec == Init /\ [][Next]_vars

\* Name resolution, the connect (the SDK bounds it), the consent guard and the
\* upstream's answer (the SDK bounds it) all end, and settled promises run their
\* continuations.
Fairness ==
    /\ \A c \in Call :
          /\ WF_vars(GetOrConnect(c)) /\ WF_vars(CreateConnection(c))
          /\ WF_vars(LeaderReturns(c)) /\ WF_vars(JoinerReturns(c))
          /\ WF_vars(CallReturns(c) \/ ListReturns(c) \/ RequestFails(c))
    /\ \A s \in Session : WF_vars(CloseSession(s)) /\ WF_vars(FinishClose(s))

FairSpec == Spec /\ Fairness

----------------------------------------------------------------------------
(* Properties *)

\* Types; and a request is only given a connection that was made.
TypeOK ==
    /\ calls \in [Call -> CallRecord]
    /\ conn \in [Call -> ConnRecord]
    /\ connections \in [Session -> Call \cup {None}]
    /\ pending \in [Session -> Call \cup {None}]
    /\ destroyed \in [Session -> {"no", "marked", "old", "early"}]
    /\ closing \in [Session -> {"no", "waiting", "closing", "done"}]
    /\ awaited \in [Session -> Call \cup {None}]
    /\ timer \in [Session -> Call \cup {None}]
    /\ token \in [Session -> Token]
    /\ toolCache \in [Session -> Nat \cup {None}]
    /\ version \in [Session -> Nat]
    /\ events \in Nat
    /\ \A c \in Call : /\ calls[c].client # None => calls[calls[c].client].promise = "resolved"
                       /\ calls[c].pc \in {"using", "listed"} => calls[c].client # None

Linked(c) == conn[c].link \in {"opening", "open"}

PrunedEarly(s) == destroyed[s] = "early"

\* A session has one transport at a time and leaks none: what was not closed is
\* its connection in the map or its one connect in flight, whatever rotated or
\* failed meanwhile; once closeAll closes, it is no connection in the map either,
\* so that a connect still in flight will close itself.  Only a session whose
\* marker was pruned while a request of it was at work can leak
\* (getOrConnect, createConnection, closeAll).
NoLeakedTransport ==
    \A c \in Call : Linked(c) /\ ~PrunedEarly(Sess(c)) =>
        /\ \/ connections[Sess(c)] = c /\ closing[Sess(c)] \in {"no", "waiting"}
           \/ pending[Sess(c)] = c
        /\ \A d \in Call \ {c} : ~(Linked(d) /\ Sess(d) = Sess(c))

\* A destroyed session holds nothing upstream once closeAll is through, and a
\* request that was still in a handler opens nothing again (REL-02).
DestroyedHoldsNothing ==
    \A s \in Session : closing[s] = "done" => /\ connections[s] = None
                                              /\ timer[s] = None

\* A request is only ever sent over a connection made under its own token.
OwnTokenOnly ==
    \A c \in Call : ProviderAuth /\ calls[c].client # None
                       => calls[c].token = calls[calls[c].client].token

\* The heartbeat of a session pings the connection in the map, and a connection
\* the map calls CONNECTED is watched until its session is torn down.  One is
\* only marked FAILED for what happened to itself: late events and pings of the
\* connection it replaced leave it alone (start, handleTransportError).
HeartbeatMatches ==
    /\ \A s \in Session :
         /\ timer[s] # None => connections[s] = timer[s] /\ conn[timer[s]].state = "CONNECTED"
         /\ connections[s] # None /\ conn[connections[s]].state = "CONNECTED" /\ timer[s] = None
               => closing[s] = "closing"
    /\ \A c \in Call : conn[c].state = "FAILED" => conn[c].broken

\* Every request is answered and every closeAll completes, whoever waits for
\* whose connect (pendingConnections, the finally block of getOrConnect).
RequestSettles ==
    /\ \A c \in Call : calls[c].pc # "idle" ~> calls[c].pc \in {"done", "failed"}
    /\ \A s \in Session : closing[s] = "waiting" ~> closing[s] = "done"

\* After tools/list_changed the next tools/call never sees the old tool list.
ToolCacheFresh == \A s \in Session : toolCache[s] # None => toolCache[s] = version[s]
=============================================================================
