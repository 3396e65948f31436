--------------------------- MODULE ServingProofs ---------------------------
(***************************************************************************)
(* What serves a client before and beside its calls, for all constants and *)
(* any history: the clients and flows of the OAuth store, the creation of  *)
(* a profile's server, an enterprise's grants, the tenants of a profile,   *)
(* the admission of its sessions, the judging of origins.                  *)
(***************************************************************************)
EXTENDS OAuthFlow, ProfileStates, EnterpriseGrants, TenantSelectors, SessionAdmission,
        OriginCheck, FiniteSetTheorems, WellFoundedInduction, TLAPS

-----------------------------------------------------------------------------
(* The OAuth store: a client that is registered and does not come back once it
   is evicted has as many flows and sessions as its counters say, and eviction
   takes one that has none. *)

\* What a client holds of a kind, and that its counters say how much.
Held(c, kind) == IF kind = "session" THEN SessionsOf(c) ELSE FlowsAt(c, kind)
Counted(c) == \A kind \in Kind : /\ IsFiniteSet(Held(c, kind))
                                  /\ count[c][kind] = Cardinality(Held(c, kind))

\* A flow has a client once it began; a client that never registered has none.
ClientsKnown ==
    /\ \A f \in Flow : /\ flows[f].stage = "none" => flows[f].client = None /\ ~flows[f].bearer
                       /\ flows[f].stage # "none" => flows[f].client \in seen
    /\ \A s \in Session : session[s] # None => flows[session[s]].stage # "none"
    /\ \A c \in Client \ seen : count[c] = NoCount

FlowsInv == TypeOK /\ ClientsKnown /\ \A c \in registered : Counted(c)

LEMMA StoreTyped ==
    /\ None \notin Client /\ None \notin Flow /\ MaxClients \in Nat \ {0}
    /\ Initial \subseteq Client /\ IsFiniteSet(Initial) /\ Cardinality(Initial) <= MaxClients
    /\ NoCount \in Counters /\ NoFlow \in FlowRecord
    /\ \A k \in Kind : NoCount[k] = 0
BY ConstantsAssumption DEF ConstantsAssumption, NoCount, Counters, NoFlow, FlowRecord, Kind

\* The order of the store while clients are used, come and go.
LEMMA TouchKeeps ==
    ASSUME NEW cs, older \subseteq registered \X registered, Orders(older, registered),
           used \subseteq registered, Touch(cs)
    PROVE  /\ registered' = registered /\ used' \subseteq registered
           /\ older' \subseteq registered \X registered /\ Orders(older', registered)
<1>1. PICK t \in SUBSET registered :
         /\ t = cs \cap registered
         /\ older' = {p \in older : p[1] \notin t \/ p[2] \in t} \cup ((registered \ t) \X t)
         /\ used' = used \cup t /\ registered' = registered
  BY DEF Touch
<1>2. older' \subseteq registered \X registered
  BY <1>1
<1>3. \A c, d \in registered :
         <<c, d>> \in older' <=> \/ <<c, d>> \in older /\ (c \notin t \/ d \in t)
                                 \/ c \notin t /\ d \in t
  BY <1>1
<1>4. Orders(older', registered)
  <2>1. SUFFICES ASSUME NEW c \in registered, NEW d \in registered
                 PROVE  /\ c # d => (<<c, d>> \in older' <=> <<d, c>> \notin older')
                        /\ <<c, c>> \notin older'
                        /\ \A e \in registered : <<c, d>> \in older' /\ <<d, e>> \in older'
                                                    => <<c, e>> \in older'
    BY DEF Orders
  <2>2. c # d => (<<c, d>> \in older' <=> <<d, c>> \notin older')
    BY <1>3 DEF Orders
  <2>3. <<c, c>> \notin older'
    BY <1>3 DEF Orders
  <2>4. \A e \in registered : <<c, d>> \in older' /\ <<d, e>> \in older' => <<c, e>> \in older'
    BY <1>3 DEF Orders
  <2> QED
    BY <2>2, <2>3, <2>4
<1> QED
  BY <1>1, <1>2, <1>4

LEMMA RegisterKeeps ==
    ASSUME NEW R, NEW o, NEW c, c \notin R, o \subseteq R \X R, Orders(o, R)
    PROVE  /\ o \cup (R \X {c}) \subseteq (R \cup {c}) \X (R \cup {c})
           /\ Orders(o \cup (R \X {c}), R \cup {c})
<1> DEFINE n == o \cup (R \X {c})
<1>1. n \subseteq (R \cup {c}) \X (R \cup {c})
  OBVIOUS
<1>2. \A a, b \in R \cup {c} : <<a, b>> \in n <=> <<a, b>> \in o \/ (a \in R /\ b = c)
  OBVIOUS
<1>3. \A a, b : <<a, b>> \in o => a \in R /\ b \in R
  OBVIOUS
<1> HIDE DEF n
<1>4. Orders(n, R \cup {c})
  BY <1>2, <1>3 DEF Orders
<1> QED
  BY <1>1, <1>4 DEF n

LEMMA EvictKeeps ==
    ASSUME NEW R, NEW o, NEW v, o \subseteq R \X R, Orders(o, R)
    PROVE  /\ {p \in o : v \notin {p[1], p[2]}} \subseteq (R \ {v}) \X (R \ {v})
           /\ Orders({p \in o : v \notin {p[1], p[2]}}, R \ {v})
BY DEF Orders

\* Opened and Closed count one more and one less of the kind.
LEMMA OpenedCounts ==
    ASSUME TypeOK, NEW c \in Client, NEW kind \in Kind, Opened(c, kind)
    PROVE  /\ count' \in [Client -> Counters]
           /\ c \notin registered => count' = count
           /\ \A d \in Client, k \in Kind :
                count'[d][k] = IF c \in registered /\ d = c /\ k = kind THEN count[d][k] + 1
                               ELSE count[d][k]
<1>1. count \in [Client -> Counters] /\ (c \notin registered => count' = count)
  BY DEF TypeOK, Opened
<1>2. CASE c \notin registered
  BY <1>1, <1>2
<1>3. CASE c \in registered
  <2>1. count' = [count EXCEPT ![c][kind] = count[c][kind] + 1]
    BY <1>3 DEF Opened
  <2>2. PICK r \in Counters : r = count[c]
    BY <1>1
  <2>3. PICK q \in Counters : /\ q = [r EXCEPT ![kind] = r[kind] + 1]
                              /\ \A k \in Kind : q[k] = IF k = kind THEN r[k] + 1 ELSE r[k]
    <3> DEFINE q0 == [r EXCEPT ![kind] = r[kind] + 1]
    <3>1. r \in [Kind -> Nat]
      BY DEF Counters
    <3>2. q0 \in [Kind -> Nat] /\ \A k \in Kind : q0[k] = IF k = kind THEN r[k] + 1 ELSE r[k]
      BY <3>1
    <3> QED
      BY <3>2 DEF Counters
  <2>4. count' = [count EXCEPT ![c] = q]
    BY <1>1, <2>1, <2>2, <2>3
  <2> QED
    BY <1>1, <1>3, <2>2, <2>3, <2>4
<1> QED
  BY <1>2, <1>3

LEMMA ClosedCounts ==
    ASSUME TypeOK, NEW c \in Client, NEW kind \in Kind, Closed(c, kind)
    PROVE  /\ count' \in [Client -> Counters]
           /\ c \notin registered => count' = count
           /\ \A d \in Client, k \in Kind :
                count'[d][k] = IF c \in registered /\ d = c /\ k = kind
                               THEN IF count[d][k] > 0 THEN count[d][k] - 1 ELSE 0
                               ELSE count[d][k]
<1>1. count \in [Client -> Counters] /\ (c \notin registered => count' = count)
  BY DEF TypeOK, Closed
<1>2. CASE c \notin registered
  BY <1>1, <1>2
<1>3. CASE c \in registered
  <2>2. PICK r \in Counters : r = count[c]
    BY <1>1
  <2>5. r[kind] \in Nat
    BY DEF Counters, Kind
  <2>6. PICK m \in Nat : m = IF r[kind] > 0 THEN r[kind] - 1 ELSE 0
    BY <2>5
  <2>1. count' = [count EXCEPT ![c][kind] = m]
    BY <1>3, <2>2, <2>6 DEF Closed
  <2>3. PICK q \in Counters : /\ q = [r EXCEPT ![kind] = m]
                              /\ \A k \in Kind : q[k] = IF k = kind THEN m ELSE r[k]
    <3> DEFINE q0 == [r EXCEPT ![kind] = m]
    <3>1. r \in [Kind -> Nat]
      BY DEF Counters
    <3>2. q0 \in [Kind -> Nat] /\ \A k \in Kind : q0[k] = IF k = kind THEN m ELSE r[k]
      BY <3>1
    <3> QED
      BY <3>2 DEF Counters
  <2>4. count' = [count EXCEPT ![c] = q]
    BY <1>1, <2>1, <2>2, <2>3
  <2> QED
    BY <1>1, <1>3, <2>2, <2>3, <2>4, <2>6
<1> QED
  BY <1>2, <1>3

\* A client opens one thing more of a kind, or closes one; all else is as it was.
LEMMA OpenedExact ==
    ASSUME TypeOK, \A d \in registered : Counted(d), registered' = registered,
           NEW c \in Client, NEW kind \in Kind, Opened(c, kind),
           NEW x, x \notin Held(c, kind), Held(c, kind)' = Held(c, kind) \cup {x},
           \A d \in registered, k \in Kind :
               d # c \/ k # kind => Held(d, k)' = Held(d, k)
    PROVE  \A d \in registered : Counted(d)'
<1>1. SUFFICES ASSUME NEW d \in registered, NEW k \in Kind
               PROVE  IsFiniteSet(Held(d, k)') /\ count'[d][k] = Cardinality(Held(d, k)')
  BY DEF Counted
<1>2. d \in Client /\ IsFiniteSet(Held(d, k)) /\ count[d][k] = Cardinality(Held(d, k))
  BY <1>1 DEF Counted, TypeOK
<1>3. count'[d][k] = IF d = c /\ k = kind THEN count[d][k] + 1 ELSE count[d][k]
  BY <1>1, <1>2, OpenedCounts
<1>4. CASE d = c /\ k = kind
  <2>1. Held(d, k)' = Held(d, k) \cup {x} /\ x \notin Held(d, k)
    BY <1>4
  <2> QED
    BY <1>2, <1>3, <1>4, <2>1, FS_AddElement
<1>5. CASE ~(d = c /\ k = kind)
  BY <1>1, <1>2, <1>3, <1>5
<1> QED
  BY <1>4, <1>5

LEMMA ClosedExact ==
    ASSUME TypeOK, \A d \in registered : Counted(d), registered' = registered,
           NEW c \in Client, NEW kind \in Kind, Closed(c, kind),
           NEW x, x \in Held(c, kind), Held(c, kind)' = Held(c, kind) \ {x},
           \A d \in registered, k \in Kind :
               d # c \/ k # kind => Held(d, k)' = Held(d, k)
    PROVE  \A d \in registered : Counted(d)'
<1>1. SUFFICES ASSUME NEW d \in registered, NEW k \in Kind
               PROVE  IsFiniteSet(Held(d, k)') /\ count'[d][k] = Cardinality(Held(d, k)')
  BY DEF Counted
<1>2. d \in Client /\ IsFiniteSet(Held(d, k)) /\ count[d][k] = Cardinality(Held(d, k))
  BY <1>1 DEF Counted, TypeOK
<1>3. count'[d][k] = IF d = c /\ k = kind
                     THEN IF count[d][k] > 0 THEN count[d][k] - 1 ELSE 0 ELSE count[d][k]
  BY <1>1, <1>2, ClosedCounts
<1>4. CASE d = c /\ k = kind
  <2>1. Held(d, k)' = Held(d, k) \ {x} /\ x \in Held(d, k)
    BY <1>4
  <2>2. Cardinality(Held(d, k)) \in Nat /\ Cardinality(Held(d, k)) # 0
    BY <1>2, <2>1, FS_CardinalityType, FS_EmptySet
  <2> QED
    BY <1>2, <1>3, <1>4, <2>1, <2>2, FS_RemoveElement
<1>5. CASE ~(d = c /\ k = kind)
  BY <1>1, <1>2, <1>3, <1>5
<1> QED
  BY <1>4, <1>5

LEMMA SameExact ==
    ASSUME \A d \in registered : Counted(d), UNCHANGED <<registered, count>>,
           \A d \in registered, k \in Kind : Held(d, k)' = Held(d, k)
    PROVE  \A d \in registered : Counted(d)'
BY DEF Counted

\* A flow of the client c gets to a stage; the other flows stay.
Stage == {"none", "state", "exchanging", "parked", "recording", "code", "redeemed", "over"}
Pending == {"state", "code"}
Moves(f, c, stage) ==
    /\ flows' \in [Flow -> FlowRecord]
    /\ \A g \in Flow \ {f} : flows'[g] = flows[g]
    /\ flows'[f].stage = stage /\ flows'[f].client = c
    /\ flows[f].stage # "none" => flows[f].client = c

LEMMA EnterMoves ==
    ASSUME TypeOK, NEW f \in Flow, NEW stage \in Stage
    PROVE  /\ Enter(f, stage) \in [Flow -> FlowRecord]
           /\ \A g \in Flow \ {f} : Enter(f, stage)[g] = flows[g]
           /\ Enter(f, stage)[f].stage = stage
           /\ Enter(f, stage)[f].client = flows[f].client
           /\ Enter(f, stage)[f].bearer = flows[f].bearer
<1>1. flows \in [Flow -> FlowRecord]
  BY DEF TypeOK
<1>2. PICK r \in FlowRecord : r = flows[f]
  BY <1>1
<1>3. PICK q : q = [r EXCEPT !.stage = stage, !.old = FALSE]
  OBVIOUS
<1>4. q \in FlowRecord /\ q.stage = stage /\ q.client = r.client /\ q.bearer = r.bearer
  BY <1>3 DEF FlowRecord, Stage
<1>5. Enter(f, stage) = [flows EXCEPT ![f] = q]
  BY <1>1, <1>2, <1>3 DEF Enter
<1> QED
  BY <1>1, <1>2, <1>4, <1>5

LEMMA MoveHeld ==
    ASSUME TypeOK, ClientsKnown, NEW f \in Flow, NEW c \in Client, NEW stage \in Stage,
           Moves(f, c, stage), session' = session, NEW d \in Client
    PROVE  /\ \A k \in Pending :
                Held(d, k)' = IF d = c /\ stage = k THEN Held(d, k) \cup {f} ELSE Held(d, k) \ {f}
           /\ Held(d, "session")' = Held(d, "session")
           /\ \A k \in Pending : f \in Held(d, k) <=> flows[f].stage = k /\ d = c
<1>1. /\ flows \in [Flow -> FlowRecord] /\ session \in [Session -> Flow \cup {None}]
      /\ None \notin Flow /\ None \notin Client
  BY StoreTyped DEF TypeOK
<1>2. ASSUME NEW k \in Pending
      PROVE  Held(d, k)' = IF d = c /\ stage = k THEN Held(d, k) \cup {f} ELSE Held(d, k) \ {f}
  <2>1. FlowsAt(d, k) = {g \in Flow : flows[g].stage = k /\ flows[g].client = d}
    BY DEF FlowsAt, ClientOf
  <2>2. FlowsAt(d, k)' = {g \in Flow : flows'[g].stage = k /\ flows'[g].client = d}
    BY DEF FlowsAt, ClientOf
  <2>3. FlowsAt(d, k)' = IF d = c /\ stage = k THEN FlowsAt(d, k) \cup {f} ELSE FlowsAt(d, k) \ {f}
    BY <2>1, <2>2 DEF Moves
  <2> QED
    BY <1>2, <2>3 DEF Held, Pending
<1>3. Held(d, "session")' = Held(d, "session")
  <2>1. \A s \in Session : session[s] # None => flows'[session[s]].client = flows[session[s]].client
    BY <1>1 DEF Moves, ClientsKnown
  <2> QED
    BY <2>1 DEF Held, SessionsOf, ClientOf
<1>4. \A k \in Pending : f \in Held(d, k) <=> flows[f].stage = k /\ d = c
  BY DEF Held, Pending, FlowsAt, ClientOf, Moves
<1> QED
  BY <1>2, <1>3, <1>4

\* The store, when clients are only touched.
LEMMA TouchedTyped ==
    ASSUME TypeOK, NEW cs, Touch(cs), seen' = seen,
           count' \in [Client -> Counters], flows' \in [Flow -> FlowRecord],
           session' \in [Session -> Flow \cup {None}]
    PROVE  TypeOK'
<1>1. /\ registered' = registered /\ used' \subseteq registered
      /\ older' \subseteq registered \X registered /\ Orders(older', registered)
  BY TouchKeeps DEF TypeOK
<1>2. Orders(older', registered')
  BY <1>1
<1>3. IsFiniteSet(registered') /\ Cardinality(registered') <= MaxClients
  BY <1>1 DEF TypeOK
<1> QED
  BY <1>1, <1>2, <1>3 DEF TypeOK

LEMMA MoveStep ==
    ASSUME FlowsInv, NEW f \in Flow, NEW c \in seen, NEW stage \in Stage \ {"none"},
           Moves(f, c, stage), UNCHANGED <<seen, session>>,
           \/ stage \in Pending /\ flows[f].stage \notin Pending /\ Opened(c, stage)
           \/ flows[f].stage \in Pending /\ stage \notin Pending /\ Closed(c, flows[f].stage)
           \/ /\ stage = flows[f].stage \/ {stage, flows[f].stage} \cap Pending = {}
              /\ count' = count /\ (Touch({c}) \/ UNCHANGED <<registered, older, used>>)
    PROVE  FlowsInv'
<1>1. /\ TypeOK /\ ClientsKnown /\ (\A d \in registered : Counted(d)) /\ c \in Client
      /\ flows \in [Flow -> FlowRecord] /\ flows' \in [Flow -> FlowRecord]
      /\ session \in [Session -> Flow \cup {None}] /\ registered \subseteq seen
      /\ count \in [Client -> Counters] /\ registered \subseteq Client
  BY DEF FlowsInv, TypeOK, Moves
<1>2. /\ \A d \in Client, k \in Pending :
           /\ Held(d, k)' = IF d = c /\ stage = k THEN Held(d, k) \cup {f} ELSE Held(d, k) \ {f}
           /\ f \in Held(d, k) <=> flows[f].stage = k /\ d = c
      /\ \A d \in Client : Held(d, "session")' = Held(d, "session")
  BY <1>1, MoveHeld
<1>3. ASSUME NEW d \in registered, NEW k \in Kind, k = "session" \/ d # c
      PROVE  Held(d, k)' = Held(d, k)
  <2>1. CASE k = "session"
    BY <1>1, <1>2, <2>1
  <2>2. CASE k # "session"
    <3>1. d \in Client /\ k \in Pending /\ d # c
      BY <1>1, <1>3, <2>2 DEF Kind, Pending
    <3>2. f \notin Held(d, k) /\ Held(d, k)' = Held(d, k) \ {f}
      BY <1>2, <3>1
    <3> QED
      BY <3>2
  <2> QED
    BY <2>1, <2>2
<1>4. ASSUME NEW k \in Pending
      PROVE  /\ flows[f].stage # k /\ stage # k => Held(c, k)' = Held(c, k)
             /\ flows[f].stage # k /\ stage = k
                  => f \notin Held(c, k) /\ Held(c, k)' = Held(c, k) \cup {f}
             /\ flows[f].stage = k /\ stage # k
                  => f \in Held(c, k) /\ Held(c, k)' = Held(c, k) \ {f}
             /\ flows[f].stage = k /\ stage = k => Held(c, k)' = Held(c, k)
  <2>1. /\ Held(c, k)' = IF stage = k THEN Held(c, k) \cup {f} ELSE Held(c, k) \ {f}
        /\ f \in Held(c, k) <=> flows[f].stage = k
    BY <1>1, <1>2, <1>4
  <2>2. f \notin Held(c, k) => Held(c, k) \ {f} = Held(c, k)
    OBVIOUS
  <2>3. f \in Held(c, k) => Held(c, k) \cup {f} = Held(c, k)
    OBVIOUS
  <2> QED
    BY <2>1, <2>2, <2>3
<1>5. \A k \in Kind : k \in Pending \/ k = "session"
  BY DEF Kind, Pending
<1>6. ASSUME count' \in [Client -> Counters], \A d \in Client \ registered : count'[d] = count[d],
             Touch({c}) \/ UNCHANGED <<registered, older, used>>
      PROVE  TypeOK' /\ ClientsKnown'
  <2>1. TypeOK'
    <3>1. CASE Touch({c})
      BY <1>1, <1>6, <3>1, TouchedTyped
    <3>2. CASE UNCHANGED <<registered, older, used>>
      <4>1. Orders(older', registered') /\ older' \subseteq registered' \X registered'
        BY <1>1, <3>2 DEF TypeOK
      <4> QED
        BY <1>1, <1>6, <3>2, <4>1 DEF TypeOK
    <3> QED
      BY <1>6, <3>1, <3>2
  <2>2. ClientsKnown'
    <3>1. ASSUME NEW g \in Flow
          PROVE  /\ flows'[g].stage = "none" => flows'[g].client = None /\ ~flows'[g].bearer
                 /\ flows'[g].stage # "none" => flows'[g].client \in seen
      BY <1>1 DEF Moves, ClientsKnown
    <3>2. \A s \in Session : session[s] # None => flows'[session[s]].stage # "none"
      BY <1>1 DEF Moves, ClientsKnown
    <3>3. \A d \in Client \ seen : count'[d] = NoCount
      BY <1>1, <1>6 DEF ClientsKnown
    <3> QED
      BY <3>1, <3>2, <3>3 DEF ClientsKnown
  <2> QED
    BY <2>1, <2>2
<1>7. CASE stage \in Pending /\ flows[f].stage \notin Pending /\ Opened(c, stage)
  <2>1. stage \in Kind /\ Touch({c}) /\ registered' = registered
    BY <1>7 DEF Opened, Kind, Pending, Touch
  <2>2. \A d \in registered, k \in Kind : d # c \/ k # stage => Held(d, k)' = Held(d, k)
    <3>1. SUFFICES ASSUME NEW d \in registered, NEW k \in Kind, d # c \/ k # stage
                   PROVE  Held(d, k)' = Held(d, k)
      OBVIOUS
    <3>2. CASE k = "session" \/ d # c
      BY <1>3, <3>2
    <3>3. CASE k \in Pending /\ d = c
      BY <1>4, <1>7, <3>1, <3>3
    <3> QED
      BY <1>5, <3>2, <3>3
  <2>3. f \notin Held(c, stage) /\ Held(c, stage)' = Held(c, stage) \cup {f}
    BY <1>4, <1>7
  <2>4. \A d \in registered : Counted(d)'
    BY <1>1, <1>7, <2>1, <2>2, <2>3, OpenedExact
  <2>5. count' \in [Client -> Counters] /\ \A d \in Client \ registered : count'[d] = count[d]
    BY <1>1, <1>7, <2>1, OpenedCounts DEF Opened
  <2> QED
    BY <1>6, <2>1, <2>4, <2>5 DEF FlowsInv
<1>8. CASE flows[f].stage \in Pending /\ stage \notin Pending /\ Closed(c, flows[f].stage)
  <2> DEFINE a == flows[f].stage
  <2>1. a \in Kind /\ Touch({c}) /\ registered' = registered
    BY <1>8 DEF Closed, Kind, Pending, Touch
  <2>2. \A d \in registered, k \in Kind : d # c \/ k # a => Held(d, k)' = Held(d, k)
    <3>1. SUFFICES ASSUME NEW d \in registered, NEW k \in Kind, d # c \/ k # a
                   PROVE  Held(d, k)' = Held(d, k)
      OBVIOUS
    <3>2. CASE k = "session" \/ d # c
      BY <1>3, <3>2
    <3>3. CASE k \in Pending /\ d = c
      BY <1>4, <1>8, <3>1, <3>3
    <3> QED
      BY <1>5, <3>2, <3>3
  <2>3. PICK b \in Kind : b = a
    BY <2>1
  <2>4. f \in Held(c, b) /\ Held(c, b)' = Held(c, b) \ {f} /\ Closed(c, b)
    BY <1>4, <1>8, <2>3
  <2>5. \A d \in registered : Counted(d)'
    BY <1>1, <2>1, <2>2, <2>3, <2>4, ClosedExact
  <2>6. count' \in [Client -> Counters] /\ \A d \in Client \ registered : count'[d] = count[d]
    BY <1>1, <2>1, <2>4, ClosedCounts DEF Closed
  <2> QED
    BY <1>6, <2>1, <2>5, <2>6 DEF FlowsInv
<1>9. CASE /\ stage = flows[f].stage \/ {stage, flows[f].stage} \cap Pending = {}
           /\ count' = count /\ (Touch({c}) \/ UNCHANGED <<registered, older, used>>)
  <2>1. registered' = registered
    BY <1>9 DEF Touch
  <2>2. \A d \in registered, k \in Kind : Held(d, k)' = Held(d, k)
    <3>1. SUFFICES ASSUME NEW d \in registered, NEW k \in Kind PROVE Held(d, k)' = Held(d, k)
      OBVIOUS
    <3>2. CASE k = "session" \/ d # c
      BY <1>3, <3>2
    <3>3. CASE k \in Pending /\ d = c
      BY <1>4, <1>9, <3>3
    <3> QED
      BY <1>5, <3>2, <3>3
  <2>3. \A d \in registered : Counted(d)'
    BY <1>1, <1>9, <2>1, <2>2, SameExact
  <2> QED
    BY <1>1, <1>6, <1>9, <2>1, <2>3 DEF FlowsInv
<1> QED
  BY <1>7, <1>8, <1>9

\* A flow that began stays its client's.
LEMMA EnterIsMove ==
    ASSUME FlowsInv, NEW f \in Flow, flows[f].stage # "none", NEW stage \in Stage,
           flows' = Enter(f, stage)
    PROVE  Moves(f, ClientOf(f), stage) /\ ClientOf(f) \in seen
BY EnterMoves DEF FlowsInv, Moves, ClientOf, ClientsKnown

LEMMA FlowStep ==
    ASSUME FlowsInv, NEW f \in Flow,
           \/ Callback(f) \/ FlowFails(f) \/ CallbackCompletes(f) \/ Park(f) \/ Accept(f)
           \/ Deny(f) \/ AcceptCompletes(f) \/ RedeemRefused(f)
    PROVE  FlowsInv'
<1>1. CASE Callback(f)
  <2>1. flows[f].stage = "state" /\ flows' = Enter(f, "exchanging")
    BY <1>1 DEF Callback
  <2> QED
    BY <1>1, <2>1, EnterIsMove, MoveStep DEF Callback, Stage, Pending
<1>2. CASE FlowFails(f)
  <2>1. flows[f].stage \in {"exchanging", "recording", "parked"} /\ flows' = Enter(f, "over")
    BY <1>2 DEF FlowFails
  <2> QED
    BY <1>2, <2>1, EnterIsMove, MoveStep DEF FlowFails, Stage, Pending, Untouched
<1>3. CASE CallbackCompletes(f) \/ AcceptCompletes(f)
  <2>1. flows[f].stage \in {"exchanging", "recording"} /\ MintCode(f) /\ UNCHANGED <<seen, session>>
    BY <1>3 DEF CallbackCompletes, AcceptCompletes
  <2>2. CASE flows' = Enter(f, "code") /\ Opened(ClientOf(f), "code")
    BY <2>1, <2>2, EnterIsMove, MoveStep DEF Stage, Pending
  <2>3. CASE flows' = Enter(f, "over") /\ Untouched
    BY <2>1, <2>3, EnterIsMove, MoveStep DEF Stage, Pending, Untouched
  <2> QED
    BY <2>1, <2>2, <2>3 DEF MintCode
<1>4. CASE Park(f)
  <2>1. flows[f].stage = "exchanging" /\ flows' = Enter(f, "parked")
    BY <1>4 DEF Park
  <2> QED
    BY <1>4, <2>1, EnterIsMove, MoveStep DEF Park, Stage, Pending, Untouched
<1>5. CASE Accept(f)
  <2>1. flows[f].stage = "parked" /\ flows' = Enter(f, "recording")
    BY <1>5 DEF Accept
  <2> QED
    BY <1>5, <2>1, EnterIsMove, MoveStep DEF Accept, Stage, Pending, Untouched
<1>6. CASE Deny(f)
  <2>1. flows[f].stage = "parked" /\ flows' = Enter(f, "over")
    BY <1>6 DEF Deny
  <2> QED
    BY <1>6, <2>1, EnterIsMove, MoveStep DEF Deny, Stage, Pending
<1>7. CASE RedeemRefused(f)
  <2>1. flows[f].stage = "code" /\ flows' = Enter(f, "over")
    BY <1>7 DEF RedeemRefused
  <2> QED
    BY <1>7, <2>1, EnterIsMove, MoveStep DEF RedeemRefused, Stage, Pending
<1> QED
  BY <1>1, <1>2, <1>3, <1>4, <1>5, <1>6, <1>7

\* A record of a flow that the step changes in more than its stage.
LEMMA RecordMoves ==
    ASSUME TypeOK, NEW f \in Flow, NEW q \in FlowRecord,
           q.client = flows[f].client \/ flows[f].stage = "none",
           flows' = [flows EXCEPT ![f] = q]
    PROVE  Moves(f, q.client, q.stage)
BY DEF TypeOK, Moves

LEMMA AuthorizeStep ==
    ASSUME FlowsInv, NEW f \in Flow, NEW c \in Client, Authorize(f, c)
    PROVE  FlowsInv'
<1>1. /\ TypeOK /\ flows \in [Flow -> FlowRecord] /\ c \in seen
  BY DEF FlowsInv, TypeOK, Authorize
<1>2. PICK r \in FlowRecord : r = flows[f]
  BY <1>1
<1>3. PICK q : q = [r EXCEPT !.stage = "state", !.old = FALSE, !.client = c]
  OBVIOUS
<1>4. flows' = [flows EXCEPT ![f] = q]
  <2>1. PICK e : e = Enter(f, "state")
    OBVIOUS
  <2>2. /\ e = [flows EXCEPT ![f] = [r EXCEPT !.stage = "state", !.old = FALSE]]
        /\ flows' = [e EXCEPT ![f].client = c]
    BY <1>1, <1>2, <2>1 DEF Authorize, Enter
  <2> QED
    BY <1>1, <1>2, <1>3, <2>2
<1>6. q \in FlowRecord /\ q.client = c /\ q.stage = "state"
  BY <1>3 DEF FlowRecord
<1>5. Moves(f, c, "state")
  BY <1>1, <1>4, <1>6, RecordMoves DEF Authorize
<1> QED
  BY <1>1, <1>5, MoveStep DEF Authorize, Stage, Pending

LEMMA RedeemStep ==
    ASSUME FlowsInv, NEW f \in Flow, Redeem(f)
    PROVE  FlowsInv'
<1>1. /\ TypeOK /\ flows \in [Flow -> FlowRecord] /\ flows[f].stage = "code"
  BY DEF FlowsInv, TypeOK, Redeem
<1>2. PICK r \in FlowRecord : r = flows[f]
  BY <1>1
<1>7. PICK q : q = [r EXCEPT !.stage = "redeemed", !.old = FALSE, !.access = TRUE,
                             !.bearer = TRUE, !.tomb = TRUE]
  OBVIOUS
<1>3. q \in FlowRecord /\ q.client = r.client /\ q.stage = "redeemed"
  BY <1>7 DEF FlowRecord
<1>4. flows' = [flows EXCEPT ![f] = q]
  <2>1. PICK e : e = Enter(f, "redeemed")
    OBVIOUS
  <2>2. /\ e = [flows EXCEPT ![f] = [r EXCEPT !.stage = "redeemed", !.old = FALSE]]
        /\ flows' = [e EXCEPT ![f].access = TRUE, ![f].bearer = TRUE, ![f].tomb = TRUE]
    BY <1>1, <1>2, <2>1 DEF Redeem, Enter
  <2> QED
    BY <1>1, <1>2, <1>7, <2>2
<1>5. Moves(f, ClientOf(f), "redeemed") /\ ClientOf(f) \in seen
  BY <1>1, <1>2, <1>3, <1>4, RecordMoves DEF FlowsInv, ClientsKnown, ClientOf
<1> QED
  BY <1>1, <1>5, MoveStep DEF Redeem, Stage, Pending

LEMMA ReplayStep ==
    ASSUME FlowsInv, NEW f \in Flow, Replay(f) \/ GetsOld(f)
    PROVE  FlowsInv'
<1>1. /\ TypeOK /\ flows \in [Flow -> FlowRecord]
      /\ flows[f].stage \in {"state", "parked", "code", "redeemed"}
  BY DEF FlowsInv, TypeOK, Replay, GetsOld
<1>2. PICK r \in FlowRecord : r = flows[f]
  BY <1>1
<1>3. PICK q \in FlowRecord : /\ q.client = r.client /\ q.stage = r.stage
                              /\ flows' = [flows EXCEPT ![f] = q]
  <2>1. CASE Replay(f) /\ flows[f].tomb
    <3>1. flows' = [flows EXCEPT ![f] = [r EXCEPT !.access = FALSE, !.replayed = TRUE]]
      BY <1>1, <1>2, <2>1 DEF Replay
    <3>2. PICK q : q = [r EXCEPT !.access = FALSE, !.replayed = TRUE]
      OBVIOUS
    <3>3. q \in FlowRecord /\ q.client = r.client /\ q.stage = r.stage
      BY <3>2 DEF FlowRecord
    <3> QED
      BY <3>1, <3>2, <3>3
  <2>2. CASE Replay(f) /\ ~flows[f].tomb
    BY <1>1, <1>2, <2>2 DEF Replay
  <2>3. CASE GetsOld(f)
    <3>1. flows' = [flows EXCEPT ![f] = [r EXCEPT !.old = TRUE]]
      BY <1>1, <1>2, <2>3 DEF GetsOld
    <3>2. PICK q : q = [r EXCEPT !.old = TRUE]
      OBVIOUS
    <3>3. q \in FlowRecord /\ q.client = r.client /\ q.stage = r.stage
      BY <3>2 DEF FlowRecord
    <3> QED
      BY <3>1, <3>2, <3>3
  <2> QED
    BY <2>1, <2>2, <2>3
<1>4. Moves(f, ClientOf(f), flows[f].stage) /\ ClientOf(f) \in seen
  BY <1>1, <1>2, <1>3, RecordMoves DEF FlowsInv, ClientsKnown, ClientOf
<1>5. PICK c \in seen, stage \in Stage \ {"none"} : c = ClientOf(f) /\ stage = flows[f].stage
  BY <1>1, <1>4 DEF Stage
<1>6. /\ count' = count /\ UNCHANGED <<seen, session>>
      /\ Touch({c}) \/ UNCHANGED <<registered, older, used>>
  BY <1>5 DEF Replay, GetsOld, Untouched
<1> QED
  BY <1>4, <1>5, <1>6, MoveStep

LEMMA OpenSessionStep ==
    ASSUME FlowsInv, NEW s \in Session, NEW f \in Flow, OpenSession(s, f)
    PROVE  FlowsInv'
<1>1. /\ TypeOK /\ ClientsKnown /\ (\A d \in registered : Counted(d))
      /\ flows \in [Flow -> FlowRecord] /\ session \in [Session -> Flow \cup {None}]
      /\ None \notin Flow /\ registered \subseteq seen /\ seen \subseteq Client
      /\ flows[f].stage # "none" /\ ClientOf(f) \in seen
  BY StoreTyped DEF FlowsInv, TypeOK, OpenSession, ClientsKnown, ClientOf
<1>2. PICK c \in Client : c = ClientOf(f)
  BY <1>1
<1>3. /\ session[s] = None /\ session' = [session EXCEPT ![s] = f] /\ UNCHANGED <<flows, seen>>
      /\ Opened(c, "session") /\ Touch({c}) /\ registered' = registered
  BY <1>2 DEF OpenSession, Opened, Touch
<1>4. /\ s \notin Held(c, "session") /\ Held(c, "session")' = Held(c, "session") \cup {s}
      /\ \A d \in Client, k \in Kind : d # c \/ k # "session" => Held(d, k)' = Held(d, k)
  <2>1. \A d \in Client : SessionsOf(d)' = IF d = c THEN SessionsOf(d) \cup {s} ELSE SessionsOf(d)
    BY <1>1, <1>2, <1>3 DEF SessionsOf, ClientOf
  <2>2. s \notin SessionsOf(c)
    BY <1>3 DEF SessionsOf
  <2>3. \A d \in Client, k \in Kind : FlowsAt(d, k)' = FlowsAt(d, k)
    BY <1>3 DEF FlowsAt, ClientOf
  <2> QED
    BY <2>1, <2>2, <2>3 DEF Held
<1>5. \A d \in registered : Counted(d)'
  <2>1. "session" \in Kind
    BY DEF Kind
  <2> QED
    BY <1>1, <1>3, <1>4, <2>1, OpenedExact
<1>6. count' \in [Client -> Counters] /\ \A d \in Client \ registered : count'[d] = count[d]
  <2>1. count' \in [Client -> Counters]
    <3>1. "session" \in Kind
      BY DEF Kind
    <3> QED
      BY <1>1, <1>3, <3>1, OpenedCounts
  <2>2. \A d \in Client \ registered : count'[d] = count[d]
    BY <1>1, <1>3 DEF Opened, TypeOK
  <2> QED
    BY <2>1, <2>2
<1>7. TypeOK'
  BY <1>1, <1>3, <1>6, TouchedTyped
<1>8. ClientsKnown'
  <2>1. \A x \in Session : session'[x] # None => flows'[session'[x]].stage # "none"
    BY <1>1, <1>3 DEF ClientsKnown
  <2>2. \A d \in Client \ seen : count'[d] = NoCount
    BY <1>1, <1>6 DEF ClientsKnown
  <2> QED
    BY <1>1, <1>3, <2>1, <2>2 DEF ClientsKnown
<1> QED
  BY <1>3, <1>5, <1>7, <1>8 DEF FlowsInv

LEMMA DestroySessionStep ==
    ASSUME FlowsInv, NEW s \in Session, DestroySession(s)
    PROVE  FlowsInv'
<1>1. /\ TypeOK /\ ClientsKnown /\ (\A d \in registered : Counted(d))
      /\ flows \in [Flow -> FlowRecord] /\ session \in [Session -> Flow \cup {None}]
      /\ None \notin Flow /\ registered \subseteq seen /\ seen \subseteq Client
      /\ session[s] \in Flow /\ flows[session[s]].stage # "none" /\ ClientOf(session[s]) \in seen
  BY StoreTyped DEF FlowsInv, TypeOK, DestroySession, ClientsKnown, ClientOf
<1>2. PICK f \in Flow, c \in Client : f = session[s] /\ c = ClientOf(f)
  BY <1>1
<1>3. /\ session' = [session EXCEPT ![s] = None] /\ flows' = [flows EXCEPT ![f].bearer = FALSE]
      /\ Closed(c, "session") /\ Touch({c}) /\ registered' = registered /\ seen' = seen
  BY <1>2 DEF DestroySession, Closed, Touch
<1>4. /\ flows' \in [Flow -> FlowRecord]
      /\ \A g \in Flow : /\ flows'[g].stage = flows[g].stage /\ flows'[g].client = flows[g].client
                         /\ flows'[g].bearer => flows[g].bearer
  <2>1. PICK r \in FlowRecord : r = flows[f]
    BY <1>1
  <2>2. PICK q : q = [r EXCEPT !.bearer = FALSE]
    OBVIOUS
  <2>3. q \in FlowRecord /\ q.stage = r.stage /\ q.client = r.client /\ ~q.bearer
    BY <2>2 DEF FlowRecord
  <2>4. flows' = [flows EXCEPT ![f] = q]
    BY <1>3, <2>1, <2>2
  <2> QED
    BY <1>1, <2>1, <2>3, <2>4
<1>5. /\ s \in Held(c, "session") /\ Held(c, "session")' = Held(c, "session") \ {s}
      /\ \A d \in Client, k \in Kind : d # c \/ k # "session" => Held(d, k)' = Held(d, k)
  <2>1. \A d \in Client : SessionsOf(d)' = IF d = c THEN SessionsOf(d) \ {s} ELSE SessionsOf(d)
    <3>1. ASSUME NEW d \in Client
          PROVE  SessionsOf(d)' = {x \in Session : session'[x] # None /\ flows'[session'[x]].client = d}
      BY DEF SessionsOf, ClientOf
    <3>2. \A x \in Session : /\ x # s => session'[x] = session[x]
                             /\ session'[s] = None
                             /\ session[x] # None => flows'[session[x]].client = flows[session[x]].client
      BY <1>1, <1>3, <1>4
    <3> QED
      BY <1>2, <3>1, <3>2 DEF SessionsOf, ClientOf
  <2>2. s \in SessionsOf(c)
    BY <1>1, <1>2 DEF SessionsOf
  <2>3. \A d \in Client, k \in Kind : FlowsAt(d, k)' = FlowsAt(d, k)
    BY <1>4 DEF FlowsAt, ClientOf
  <2> QED
    BY <2>1, <2>2, <2>3 DEF Held
<1>6. \A d \in registered : Counted(d)'
  <2>1. "session" \in Kind
    BY DEF Kind
  <2> QED
    BY <1>1, <1>3, <1>5, <2>1, ClosedExact
<1>7. count' \in [Client -> Counters] /\ \A d \in Client \ registered : count'[d] = count[d]
  <2>1. count' \in [Client -> Counters]
    <3>1. "session" \in Kind
      BY DEF Kind
    <3> QED
      BY <1>1, <1>3, <3>1, ClosedCounts
  <2>2. \A d \in Client \ registered : count'[d] = count[d]
    BY <1>1, <1>3 DEF Closed, TypeOK
  <2> QED
    BY <2>1, <2>2
<1>8. TypeOK'
  BY <1>1, <1>3, <1>4, <1>7, TouchedTyped
<1>9. ClientsKnown'
  <2>1. \A x \in Session : session'[x] # None => flows'[session'[x]].stage # "none"
    BY <1>1, <1>3, <1>4 DEF ClientsKnown
  <2>2. \A d \in Client \ seen : count'[d] = NoCount
    BY <1>1, <1>7 DEF ClientsKnown
  <2> QED
    BY <1>1, <1>3, <1>4, <2>1, <2>2 DEF ClientsKnown
<1> QED
  BY <1>3, <1>6, <1>8, <1>9 DEF FlowsInv

\* A client that registers for the first time holds nothing.
LEMMA NewHoldsNothing ==
    ASSUME FlowsInv, NEW c \in Client, c \notin seen, NEW kind \in Kind
    PROVE  Held(c, kind) = {} /\ count[c] = NoCount
<1>1. /\ ClientsKnown /\ flows \in [Flow -> FlowRecord] /\ None \notin Client
      /\ session \in [Session -> Flow \cup {None}]
  BY StoreTyped DEF FlowsInv, TypeOK
<1>2. \A f \in Flow : flows[f].client # c
  BY <1>1 DEF ClientsKnown
<1> QED
  BY <1>1, <1>2 DEF Held, FlowsAt, SessionsOf, ClientOf, ClientsKnown

LEMMA ClientRegisterStep ==
    ASSUME FlowsInv, ~Returns, NEW c \in Client, Register(c)
    PROVE  FlowsInv'
<1>1. /\ TypeOK /\ ClientsKnown /\ (\A d \in registered : Counted(d))
      /\ c \notin seen /\ c \notin registered /\ seen' = seen \cup {c}
      /\ UNCHANGED <<flows, session>> /\ registered \subseteq seen /\ seen \subseteq Client
      /\ count \in [Client -> Counters]
      /\ older \subseteq registered \X registered /\ Orders(older, registered)
      /\ IsFiniteSet(registered) /\ Cardinality(registered) <= MaxClients
      /\ Cardinality(registered) \in Nat /\ MaxClients \in Nat \ {0}
  BY StoreTyped, FS_CardinalityType DEF FlowsInv, TypeOK, Register
<1>2. \A d \in Client, k \in Kind : Held(d, k)' = Held(d, k)
  BY <1>1 DEF Held, FlowsAt, SessionsOf, ClientOf
<1>3. ASSUME count'[c] = NoCount, \A d \in registered' \ {c} : d \in registered /\ count'[d] = count[d]
      PROVE  \A d \in registered' : Counted(d)'
  <2>1. SUFFICES ASSUME NEW d \in registered', NEW k \in Kind
                 PROVE  IsFiniteSet(Held(d, k)') /\ count'[d][k] = Cardinality(Held(d, k)')
    BY DEF Counted
  <2>2. CASE d = c
    BY <1>2, <1>3, <2>2, NewHoldsNothing, <1>1, StoreTyped, FS_EmptySet
  <2>3. CASE d # c
    <3>1. d \in registered /\ d \in Client /\ count'[d] = count[d]
      BY <1>1, <1>3, <2>3
    <3> QED
      BY <1>1, <1>2, <3>1 DEF Counted
  <2> QED
    BY <2>2, <2>3
<1>4. count[c] = NoCount
  BY <1>1, NewHoldsNothing DEF ClientsKnown
<1>5. CASE /\ ~Full /\ registered' = registered \cup {c} /\ older' = older \cup (registered \X {c})
           /\ UNCHANGED <<used, count>>
  <2>1. \A d \in registered' : Counted(d)'
    BY <1>3, <1>4, <1>5
  <2>2. older' \subseteq registered' \X registered' /\ Orders(older', registered')
    BY <1>1, <1>5, RegisterKeeps
  <2>3. IsFiniteSet(registered') /\ Cardinality(registered') <= MaxClients
    <3>1. Cardinality(registered) + 1 <= MaxClients
      BY <1>1, <1>5 DEF Full
    <3>2. IsFiniteSet(registered \cup {c}) /\ Cardinality(registered \cup {c}) = Cardinality(registered) + 1
      BY <1>1, FS_AddElement
    <3> QED
      BY <1>5, <3>1, <3>2
  <2>4. TypeOK'
    BY <1>1, <1>5, <2>2, <2>3 DEF TypeOK
  <2>5. ClientsKnown'
    BY <1>1, <1>5 DEF ClientsKnown
  <2> QED
    BY <2>1, <2>4, <2>5 DEF FlowsInv
<1>6. ASSUME NEW v \in registered, Full,
             registered' = (registered \ {v}) \cup {c},
             older' = {p \in older : v \notin {p[1], p[2]}} \cup ((registered \ {v}) \X {c}),
             used' = used \ {v}, count' = [count EXCEPT ![v] = NoCount]
      PROVE  FlowsInv'
  <2>1. \A d \in registered' : Counted(d)'
    BY <1>1, <1>3, <1>4, <1>6
  <2>2. older' \subseteq registered' \X registered' /\ Orders(older', registered')
    <3>1. PICK R, o : R = registered \ {v} /\ o = {p \in older : v \notin {p[1], p[2]}}
      OBVIOUS
    <3>2. o \subseteq R \X R /\ Orders(o, R)
      BY <1>1, <3>1, EvictKeeps
    <3>3. c \notin R /\ registered' = R \cup {c} /\ older' = o \cup (R \X {c})
      BY <1>1, <1>6, <3>1
    <3> QED
      BY <3>2, <3>3, RegisterKeeps
  <2>3. IsFiniteSet(registered') /\ Cardinality(registered') <= MaxClients
    <3>1. IsFiniteSet(registered \ {v}) /\ Cardinality(registered \ {v}) = Cardinality(registered) - 1
      BY <1>1, FS_RemoveElement
    <3>2. c \notin registered \ {v}
      BY <1>1
    <3> QED
      BY <1>1, <1>6, <3>1, <3>2, FS_AddElement
  <2>4. TypeOK'
    <3>1. count' \in [Client -> Counters]
      BY <1>1, <1>6, StoreTyped
    <3>2. used' \subseteq registered' /\ registered' \subseteq seen' /\ seen' \subseteq Client
      BY <1>1, <1>6 DEF TypeOK
    <3> QED
      BY <1>1, <2>2, <2>3, <3>1, <3>2 DEF TypeOK
  <2>5. ClientsKnown'
    <3>1. \A d \in Client \ seen' : count'[d] = NoCount
      BY <1>1, <1>6 DEF ClientsKnown
    <3> QED
      BY <1>1, <3>1 DEF ClientsKnown
  <2> QED
    BY <2>1, <2>4, <2>5 DEF FlowsInv
<1> QED
  BY <1>5, <1>6 DEF Register

LEMMA CleanupStep ==
    ASSUME FlowsInv, Cleanup
    PROVE  FlowsInv'
<1>1. /\ TypeOK /\ ClientsKnown /\ (\A d \in registered : Counted(d))
      /\ flows \in [Flow -> FlowRecord] /\ session \in [Session -> Flow \cup {None}]
      /\ None \notin Flow /\ registered \subseteq seen /\ seen \subseteq Client
      /\ count \in [Client -> Counters] /\ UNCHANGED <<seen, session>>
  BY StoreTyped DEF FlowsInv, TypeOK, Cleanup
<1>2. PICK cs : Touch(cs)
  BY DEF Cleanup
<1>3. registered' = registered
  BY <1>2 DEF Touch
<1>4. ASSUME NEW f \in Flow
      PROVE  /\ flows'[f] \in FlowRecord
             /\ flows'[f].client = flows[f].client /\ flows'[f].bearer = flows[f].bearer
             /\ \A k \in Pending : flows'[f].stage = k <=> flows[f].stage = k /\ ~flows[f].old
             /\ flows'[f].stage = "none" <=> flows[f].stage = "none"
  <2>1. PICK r \in FlowRecord : r = flows[f]
    BY <1>1
  <2>2. flows'[f] = IF ~r.old THEN r
                    ELSE IF r.stage \in Pending THEN [r EXCEPT !.stage = "over", !.old = FALSE]
                    ELSE IF r.stage = "redeemed" THEN [r EXCEPT !.tomb = FALSE] ELSE r
    BY <2>1 DEF Cleanup, Pending
  <2>3. PICK q1, q2 : q1 = [r EXCEPT !.stage = "over", !.old = FALSE] /\ q2 = [r EXCEPT !.tomb = FALSE]
    OBVIOUS
  <2>4. /\ q1 \in FlowRecord /\ q1.stage = "over" /\ q1.client = r.client /\ q1.bearer = r.bearer
        /\ q2 \in FlowRecord /\ q2.stage = r.stage /\ q2.client = r.client /\ q2.bearer = r.bearer
    BY <2>3 DEF FlowRecord
  <2>5. CASE ~r.old
    BY <2>1, <2>2, <2>5
  <2>6. CASE r.old /\ r.stage \in Pending
    BY <2>1, <2>2, <2>3, <2>4, <2>6 DEF Pending
  <2>7. CASE r.old /\ r.stage \notin Pending
    BY <2>1, <2>2, <2>3, <2>4, <2>7
  <2> QED
    BY <2>5, <2>6, <2>7
<1>5. flows' \in [Flow -> FlowRecord]
  <2>1. flows' = [f \in Flow |-> flows'[f]]
    BY DEF Cleanup
  <2> QED
    BY <1>4, <2>1
<1>6. ASSUME NEW d \in Client, NEW k \in Pending
      PROVE  /\ Held(d, k)' = Held(d, k) \ Expired(d, k)
             /\ Expired(d, k) \subseteq Held(d, k)
  BY <1>4 DEF Held, Pending, FlowsAt, Expired, ClientOf
<1>7. \A d \in Client : Held(d, "session")' = Held(d, "session")
  BY <1>1, <1>4 DEF Held, SessionsOf, ClientOf
<1>8. ASSUME NEW d \in registered
      PROVE  /\ \A k \in Pending : count'[d][k] = LessOrZero(count[d][k], Cardinality(Expired(d, k)))
             /\ \A k \in Pending : count'[d][k] \in Nat
             /\ count'[d]["session"] = count[d]["session"] /\ count'[d] \in Counters
  <2>1. PICK r \in Counters : r = count[d]
    BY <1>1
  <2>2. \A k \in Pending : IsFiniteSet(Expired(d, k)) /\ Cardinality(Expired(d, k)) \in Nat
    BY <1>1, <1>6, FS_Subset, FS_CardinalityType DEF Counted, Pending, Kind
  <2>3. PICK m, n : /\ m = LessOrZero(r["state"], Cardinality(Expired(d, "state")))
                    /\ n = LessOrZero(r["code"], Cardinality(Expired(d, "code")))
    OBVIOUS
  <2>4. m \in Nat /\ n \in Nat
    BY <2>2, <2>3 DEF LessOrZero, Counters, Kind, Pending
  <2>5. count'[d] = [r EXCEPT !["state"] = m, !["code"] = n]
    BY <1>1, <2>1, <2>3 DEF Cleanup, CountCleaned
  <2>6. r \in [Kind -> Nat]
    BY DEF Counters
  <2>7. /\ count'[d] \in [Kind -> Nat] /\ count'[d]["state"] = m /\ count'[d]["code"] = n
        /\ count'[d]["session"] = r["session"]
    BY <2>4, <2>5, <2>6 DEF Kind
  <2> QED
    BY <2>1, <2>3, <2>4, <2>7 DEF Pending, Counters
<1>9. \A d \in registered : Counted(d)'
  <2>1. SUFFICES ASSUME NEW d \in registered, NEW k \in Kind
                 PROVE  IsFiniteSet(Held(d, k)') /\ count'[d][k] = Cardinality(Held(d, k)')
    BY DEF Counted
  <2>2. IsFiniteSet(Held(d, k)) /\ count[d][k] = Cardinality(Held(d, k)) /\ d \in Client
    BY <1>1 DEF Counted
  <2>3. CASE k = "session"
    BY <1>7, <1>8, <2>2, <2>3
  <2>4. CASE k \in Pending
    <3>1. PICK S, T : S = Held(d, k) /\ T = Expired(d, k)
      OBVIOUS
    <3>2. T \subseteq S /\ Held(d, k)' = S \ T /\ S \cap T = T
      BY <1>6, <2>2, <2>4, <3>1
    <3>3. IsFiniteSet(S) /\ IsFiniteSet(T)
      BY <2>2, <3>1, <3>2, FS_Subset
    <3>4. Cardinality(S) \in Nat /\ Cardinality(T) \in Nat /\ Cardinality(T) <= Cardinality(S)
      BY <3>2, <3>3, FS_CardinalityType, FS_Subset
    <3>5. IsFiniteSet(S \ T) /\ Cardinality(S \ T) = Cardinality(S) - Cardinality(T)
      BY <3>2, <3>3, FS_Difference
    <3>6. count'[d][k] = LessOrZero(Cardinality(S), Cardinality(T))
      BY <1>8, <2>2, <2>4, <3>1
    <3>7. LessOrZero(Cardinality(S), Cardinality(T)) = Cardinality(S) - Cardinality(T)
      BY <3>4 DEF LessOrZero
    <3> QED
      BY <3>2, <3>5, <3>6, <3>7
  <2> QED
    BY <2>3, <2>4 DEF Kind, Pending
<1>10. ASSUME NEW d \in Client \ registered PROVE count'[d] = count[d]
  BY <1>10 DEF Cleanup, CountCleaned
<1>11. count' \in [Client -> Counters]
  <2>1. count' = [d \in Client |-> count'[d]]
    BY DEF Cleanup
  <2> QED
    BY <1>1, <1>8, <1>10, <2>1
<1>12. TypeOK'
  BY <1>1, <1>2, <1>5, <1>11, TouchedTyped
<1>13. ClientsKnown'
  <2>1. \A x \in Session : session[x] # None => flows'[session[x]].stage # "none"
    BY <1>1, <1>4 DEF ClientsKnown
  <2>2. \A d \in Client \ seen : count'[d] = NoCount
    BY <1>1, <1>10 DEF ClientsKnown
  <2> QED
    BY <1>1, <1>4, <2>1, <2>2 DEF ClientsKnown
<1> QED
  BY <1>3, <1>9, <1>12, <1>13 DEF FlowsInv

LEMMA FlowsStart == Init => FlowsInv
<1>1. SUFFICES ASSUME Init PROVE FlowsInv
  OBVIOUS
<1>2. TypeOK
  BY <1>1, StoreTyped DEF Init, TypeOK
<1>3. ClientsKnown
  BY <1>1, StoreTyped DEF Init, ClientsKnown, NoFlow
<1>4. ASSUME NEW c \in registered, NEW k \in Kind
      PROVE  IsFiniteSet(Held(c, k)) /\ count[c][k] = Cardinality(Held(c, k))
  <2>1. c \in Client /\ None \notin Client /\ None \notin Flow
    BY <1>1, StoreTyped DEF Init
  <2>2. Held(c, k) = {}
    BY <1>1, <2>1 DEF Init, NoFlow, Held, FlowsAt, SessionsOf, ClientOf
  <2> QED
    BY <1>1, <2>1, <2>2, StoreTyped, FS_EmptySet DEF Init
<1> QED
  BY <1>2, <1>3, <1>4 DEF FlowsInv, Counted

LEMMA FlowsStep == ~Returns /\ FlowsInv /\ [Next]_vars => FlowsInv'
<1>1. SUFFICES ASSUME ~Returns, FlowsInv, [Next]_vars PROVE FlowsInv'
  OBVIOUS
<1>2. ASSUME NEW c \in Client, Register(c) PROVE FlowsInv'
  BY <1>1, <1>2, ClientRegisterStep
<1>3. ASSUME NEW c \in Client, NEW f \in Flow, Authorize(f, c) PROVE FlowsInv'
  BY <1>1, <1>3, AuthorizeStep
<1>4. ASSUME NEW f \in Flow,
             \/ Callback(f) \/ FlowFails(f) \/ CallbackCompletes(f) \/ Park(f) \/ Accept(f)
             \/ Deny(f) \/ AcceptCompletes(f) \/ RedeemRefused(f)
      PROVE  FlowsInv'
  BY <1>1, <1>4, FlowStep
<1>5. ASSUME NEW f \in Flow, Redeem(f) PROVE FlowsInv'
  BY <1>1, <1>5, RedeemStep
<1>6. ASSUME NEW f \in Flow, Replay(f) \/ GetsOld(f) PROVE FlowsInv'
  BY <1>1, <1>6, ReplayStep
<1>7. ASSUME NEW s \in Session, DestroySession(s) PROVE FlowsInv'
  BY <1>1, <1>7, DestroySessionStep
<1>8. ASSUME NEW s \in Session, NEW f \in Flow, OpenSession(s, f) PROVE FlowsInv'
  BY <1>1, <1>8, OpenSessionStep
<1>9. CASE Cleanup
  BY <1>1, <1>9, CleanupStep
<1>10. CASE UNCHANGED vars
  <2>1. TypeOK' /\ ClientsKnown'
    <3>1. Orders(older', registered')
      BY <1>1, <1>10 DEF vars, FlowsInv, TypeOK
    <3> QED
      BY <1>1, <1>10, <3>1 DEF vars, FlowsInv, TypeOK, ClientsKnown
  <2>2. \A d \in registered, k \in Kind : Held(d, k)' = Held(d, k)
    BY <1>10 DEF vars, Held, FlowsAt, SessionsOf, ClientOf
  <2>3. \A d \in registered : Counted(d)'
    BY <1>1, <1>10, <2>2, SameExact DEF vars, FlowsInv
  <2> QED
    BY <1>10, <2>1, <2>3 DEF FlowsInv, vars
<1> QED
  BY <1>1, <1>2, <1>3, <1>4, <1>5, <1>6, <1>7, <1>8, <1>9, <1>10 DEF Next

LEMMA FlowsHold == ASSUME ~Returns PROVE Spec => []FlowsInv
<1>1. [](~Returns)
  BY PTL
<1> QED
  BY FlowsStart, FlowsStep, <1>1, PTL DEF Spec

\* For any number of clients, flows and sessions and any size of the store: while
\* an evicted client does not return, the counters of the clients in the store are
\* the numbers of their states, codes and sessions (markAuthStateOpened and the
\* other marks of the client store, cleanup).
THEOREM CountersAreExact == ASSUME ~Returns PROVE Spec => []CountersExact
<1>1. FlowsInv => CountersExact
  BY DEF FlowsInv, Counted, CountersExact, Held, Kind
<1> QED
  BY <1>1, FlowsHold, PTL

\* A registration evicts only a client that holds nothing (chooseEvictionDecision).
LEMMA EvictedHoldsNothing ==
    ASSUME FlowsInv, [Next]_vars, NEW c \in Client, c \in registered, c \notin registered'
    PROVE  FlowsAt(c, "state") \cup FlowsAt(c, "code") \cup SessionsOf(c) = {}
<1>1. PICK d \in Client : Register(d) /\ Full /\ Victim(c)
  <2>1. \A cs : Touch(cs) => registered' = registered
    BY DEF Touch
  <2>2. ~UNCHANGED registered
    BY DEF Touch
  <2>3. \E d \in Client : Register(d)
    <3>1. \A f \in Flow, d \in Client : ~Authorize(f, d)
      BY <2>1, <2>2 DEF Authorize, Opened
    <3>2. \A f \in Flow : ~Callback(f) /\ ~FlowFails(f) /\ ~CallbackCompletes(f) /\ ~Park(f)
      BY <2>1, <2>2 DEF Callback, FlowFails, CallbackCompletes, Park, MintCode, Opened, Closed, Untouched
    <3>3. \A f \in Flow : ~Accept(f) /\ ~Deny(f) /\ ~AcceptCompletes(f) /\ ~Redeem(f)
      BY <2>1, <2>2 DEF Accept, Deny, AcceptCompletes, Redeem, MintCode, Opened, Closed, Untouched
    <3>4. \A f \in Flow : ~RedeemRefused(f) /\ ~Replay(f) /\ ~GetsOld(f)
      BY <2>1, <2>2 DEF RedeemRefused, Replay, GetsOld, Closed, Untouched
    <3>5. \A s \in Session : ~DestroySession(s) /\ \A f \in Flow : ~OpenSession(s, f)
      BY <2>1, <2>2 DEF DestroySession, OpenSession, Opened, Closed
    <3>6. ~Cleanup
      BY <2>1, <2>2 DEF Cleanup
    <3> QED
      <4>1. Next
        BY <2>2 DEF vars
      <4>2. CASE \E d \in Client : Register(d) \/ \E f \in Flow : Authorize(f, d)
        BY <3>1, <4>2
      <4>3. CASE \E f \in Flow :
                   \/ Callback(f) \/ FlowFails(f) \/ CallbackCompletes(f)
                   \/ Park(f) \/ Accept(f) \/ Deny(f) \/ AcceptCompletes(f)
                   \/ Redeem(f) \/ RedeemRefused(f) \/ Replay(f) \/ GetsOld(f)
        BY <3>2, <3>3, <3>4, <4>3
      <4>4. CASE \E s \in Session : DestroySession(s) \/ \E f \in Flow : OpenSession(s, f)
        BY <3>5, <4>4
      <4> QED
        BY <3>6, <4>1, <4>2, <4>3, <4>4 DEF Next
  <2> QED
    BY <2>3 DEF Register
<1>2. count[c] = NoCount
  BY <1>1 DEF Victim, Candidates, Idle
<1>3. \A k \in Kind : IsFiniteSet(Held(c, k)) /\ Cardinality(Held(c, k)) = 0
  BY <1>2, StoreTyped DEF FlowsInv, Counted
<1>4. \A k \in Kind : Held(c, k) = {}
  BY <1>3, FS_EmptySet
<1> QED
  BY <1>4 DEF Held, Kind

\* While an evicted client does not return, whom a registration evicts has no
\* state, code or session (docs/OAUTH.md).
THEOREM EvictionSpares == ASSUME ~Returns PROVE Spec => EvictionSparesActive
<1>1. FlowsInv /\ [Next]_vars
        => [ \A c \in Client : c \in registered /\ c \notin registered'
               => FlowsAt(c, "state") \cup FlowsAt(c, "code") \cup SessionsOf(c) = {} ]_vars
  BY EvictedHoldsNothing
<1> QED
  BY <1>1, FlowsHold, PTL DEF Spec, EvictionSparesActive

-----------------------------------------------------------------------------
(* A profile's server is created once. *)

\* The profile's server has been asked for once and created at most once: there
\* is no creation before the first request for it, and none after.
Shared ==
    /\ server \in {"none", "creating", "ready", "failed"}
    /\ creations = IF server = "none" THEN 0 ELSE 1

\* MCPServerManager.getServer enters the promise before it is awaited.
LEMMA GetServerShares ==
    ASSUME Shared, GetServer
    PROVE  Shared'
BY DEF Shared, GetServer

LEMMA StartStep ==
    ASSUME Shared, [StartNext]_startVars
    PROVE  Shared'
<1>1. CASE UNCHANGED startVars
  BY <1>1 DEF startVars, Shared
<1>2. ASSUME NEW r \in Request, NEW s \in known \cup {Nobody}, Arrive(r, s) \/ ArriveFirst(r, s)
      PROVE  Shared'
  BY <1>2, GetServerShares DEF Arrive, ArriveFirst, Shared
<1>3. ASSUME NEW r \in Request, Initialize(r) \/ UseSession(r)
      PROVE  Shared'
  BY <1>3 DEF Initialize, UseSession, Shared
<1>4. CASE AskContext
  BY <1>4, GetServerShares DEF AskContext
<1>5. CASE ServerCreated \/ CreationFails
  BY <1>5 DEF ServerCreated, CreationFails, Shared
<1>6. CASE BuildStates
  BY <1>6 DEF BuildStates, Shared
<1>7. ASSUME NEW s \in StateSession, EndSession(s)
      PROVE  Shared'
  BY <1>7 DEF EndSession, Shared
<1>8. QED
  BY <1>1, <1>2, <1>3, <1>4, <1>5, <1>6, <1>7 DEF StartNext

\* However many requests come while the profile's server is created, and
\* whether its creation ends or fails, it is created once
\* (MCPServerManager.getServer).
THEOREM ServerCreatedOnce == StartSpec => []OneServer
<1>1. StartInit => Shared
  BY DEF StartInit, Shared
<1>2. Shared /\ [StartNext]_startVars => Shared'
  BY StartStep
<1>3. Shared => OneServer
  BY DEF Shared, OneServer
<1>4. QED
  BY <1>1, <1>2, <1>3, PTL DEF StartSpec

-----------------------------------------------------------------------------
(* Enterprise grants: an assertion buys a second token only after as many others
   as the replay store holds, a key the provider withdrew is trusted no longer
   than its answer is kept, and the counter of exchanges in progress is their
   number. *)

\* A key was given at most this long ago by the answer it is taken from.
KeysInv ==
    /\ ~fetch.on => fetch = NoFetch
    /\ \A k \in published : withdrawn[k] = 0
    /\ \A k \in fetch.kids : withdrawn[k] <= fetch.age
    /\ \A k \in cache.kids : withdrawn[k] <= cache.age + 1
    /\ \A c \in Keeper : grant[c].at = "verify" =>
          \A k \in grant[c].kids : withdrawn[k] <= KeyTtl

\* The replay store is a queue: what is behind an entry came later.
Behind(a) == {b \in replays : <<a, b>> \in replayOrder}
Ordered ==
    /\ \A a, b \in replays : a # b => <<a, b>> \in replayOrder \/ <<b, a>> \in replayOrder
    /\ \A a, b \in replays : <<a, b>> \in replayOrder => <<b, a>> \notin replayOrder
    /\ \A a, b, d \in replays : <<a, b>> \in replayOrder /\ <<b, d>> \in replayOrder
          => <<a, d>> \in replayOrder
CountedBehind == \A a \in replays : later[a] = MaxEntries \/ Cardinality(Behind(a)) <= later[a]
\* What was registered is still there, or out of its time, or long ago.
Remembered == \A a \in Assertion : signed[a].taken =>
    \/ later[a] = MaxEntries
    \/ ~InWindow(a)
    \/ a \in replays /\ replayAge[a] <= signed[a].age
AsksForOne == \A c \in Exchange : ~GrantFree(c) => grant[c].assertion \in Assertion

GrantsInv == GrantTypeOK /\ KeysInv /\ Ordered /\ CountedBehind /\ Remembered /\ AsksForOne /\ SlotsExact

-----------------------------------------------------------------------------
\* A part of a finite set is finite and no larger, and what is left is the
\* difference.
LEMMA SubsetCardinality ==
    ASSUME NEW S, NEW T, IsFiniteSet(S), T \subseteq S
    PROVE  /\ IsFiniteSet(T) /\ Cardinality(T) \in Nat /\ Cardinality(S) \in Nat
           /\ Cardinality(T) <= Cardinality(S)
           /\ Cardinality(S \ T) = Cardinality(S) - Cardinality(T)
<1>1. IsFiniteSet(T) /\ Cardinality(T) <= Cardinality(S) BY FS_Subset
<1>2. Cardinality(S) \in Nat /\ Cardinality(T) \in Nat BY <1>1, FS_CardinalityType
<1>3. Cardinality(S \ T) = Cardinality(S) - Cardinality(S \cap T) BY FS_Difference
<1>4. S \cap T = T OBVIOUS
<1> QED BY <1>1, <1>2, <1>3, <1>4

\* Exchanges that end give back as many slots as they are.
LEMMA SlotsGivenBack ==
    ASSUME SlotsExact, MaxSlots \in Nat, IsFiniteSet(Exchange),
           NEW ending, ending \cap Exchange \subseteq AskingNow
    PROVE  /\ SlotsLeft(ending) = Cardinality(AskingNow \ ending)
           /\ SlotsLeft(ending) <= MaxSlots /\ SlotsLeft(ending) \in Nat
<1> DEFINE E == ending \cap Exchange
<1>1. AskingNow \subseteq Exchange BY DEF AskingNow
<1>2. IsFiniteSet(AskingNow) BY <1>1, FS_Subset
<1>3. /\ Cardinality(E) \in Nat /\ Cardinality(AskingNow) \in Nat
      /\ Cardinality(E) <= Cardinality(AskingNow)
      /\ Cardinality(AskingNow \ E) = Cardinality(AskingNow) - Cardinality(E)
  BY <1>2, SubsetCardinality
<1>4. AskingNow \ E = AskingNow \ ending BY <1>1
<1>5. slots = Cardinality(AskingNow) /\ slots <= MaxSlots BY DEF SlotsExact
<1> QED BY <1>3, <1>4, <1>5 DEF SlotsLeft

-----------------------------------------------------------------------------
\* The constant records are of their types.
LEMMA RestingTyped == Resting \in GrantRequest /\ Ended \in GrantRequest /\ Unminted \in
    [age : 0..Window + 1, kid : Kid, named : BOOLEAN, taken : BOOLEAN]
<1>1. AnyKid \in Kid BY GrantsAssumption DEF AnyKid
<1>2. Window + 1 \in 0..Window + 1 BY GrantsAssumption DEF Window
<1> QED BY <1>1, <1>2 DEF Resting, Ended, GrantRequest, Unminted

\* What the calls of getResolver leave.
LEMMA ResolverStep ==
    ASSUME GrantsInv, NEW calling \in SUBSET Keeper, NEW asked \in [Keeper -> GrantRequest],
           GetResolver(calling, asked),
           \A c \in calling \cap Exchange : ~GrantFree(c) /\ asked[c].assertion \in Assertion
    PROVE  /\ grant' \in [Keeper -> GrantRequest]
           /\ fetch' \in [on : BOOLEAN, age : {0, 1}, read : BOOLEAN, kids : SUBSET Kid]
           /\ fetch' = fetch \/ fetch' = [NoFetch EXCEPT !.on = TRUE]
           /\ \A c \in Keeper : grant'[c].at = "verify" =>
                 \/ grant'[c] = grant[c]
                 \/ FreshKeys /\ grant'[c].kids = cache.kids
           /\ AsksForOne' /\ SlotsExact'
<1> DEFINE hits == {c \in calling : Hit(asked[c])}
           refused == {c \in calling : TriedLately(asked[c])}
           waits == calling \ (hits \cup refused)
<1> USE RestingTyped
<1>0. GrantTypeOK /\ SlotsExact /\ AsksForOne BY DEF GrantsInv
<1>1. grant' = [c \in Keeper |->
              IF c \in hits THEN [asked[c] EXCEPT !.at = "verify", !.kids = cache.kids, !.late = FALSE]
              ELSE IF c \in refused THEN Resting
              ELSE IF c \in waits THEN [asked[c] EXCEPT !.at = "keys", !.late = FALSE]
              ELSE grant[c]]
      /\ slots' = SlotsLeft(refused)
      /\ fetch' = IF waits # {} /\ ~fetch.on THEN [NoFetch EXCEPT !.on = TRUE] ELSE fetch
  BY Zenon DEF GetResolver
<1>2. \A c \in Keeper : asked[c] \in GrantRequest /\ grant[c] \in GrantRequest BY <1>0 DEF GrantTypeOK
<1>3. cache.kids \in SUBSET Kid BY <1>0 DEF GrantTypeOK
<1>4. \A c \in Keeper : grant'[c] \in GrantRequest
  <2> TAKE c \in Keeper
  <2>1. [asked[c] EXCEPT !.at = "verify", !.kids = cache.kids, !.late = FALSE] \in GrantRequest
    BY <1>2, <1>3 DEF GrantRequest
  <2>2. [asked[c] EXCEPT !.at = "keys", !.late = FALSE] \in GrantRequest BY <1>2 DEF GrantRequest
  <2> QED BY <1>1, <1>2, <2>1, <2>2
<1>5. grant' \in [Keeper -> GrantRequest] BY <1>1, <1>4
<1>6. fetch' = fetch \/ fetch' = [NoFetch EXCEPT !.on = TRUE] BY <1>1
<1>7. fetch' \in [on : BOOLEAN, age : {0, 1}, read : BOOLEAN, kids : SUBSET Kid]
  BY <1>0, <1>6 DEF GrantTypeOK, NoFetch
<1>8. ASSUME NEW c \in Keeper, grant'[c].at = "verify"
      PROVE  grant'[c] = grant[c] \/ (FreshKeys /\ grant'[c].kids = cache.kids)
  <2>1. CASE c \in hits
    <3>1. FreshKeys BY <2>1 DEF Hit
    <3>2. grant'[c].kids = cache.kids BY <1>1, <1>2, <2>1 DEF GrantRequest
    <3> QED BY <3>1, <3>2
  <2>2. CASE c \notin hits /\ c \in refused BY <1>1, <1>8, <2>2 DEF Resting
  <2>3. CASE c \notin hits /\ c \notin refused /\ c \in waits BY <1>1, <1>2, <1>8, <2>3 DEF GrantRequest
  <2>4. CASE c \notin hits /\ c \notin refused /\ c \notin waits BY <1>1, <2>4
  <2> QED BY <2>1, <2>2, <2>3, <2>4
<1>9. \A c \in Exchange : c \in Keeper BY DEF Keeper
<1>10. ASSUME NEW c \in Exchange
       PROVE  /\ (~GrantFree(c))' <=> (~GrantFree(c) /\ c \notin refused)
              /\ (~GrantFree(c))' => grant'[c].assertion \in Assertion
  <2>0. c \in Keeper /\ (~GrantFree(c) => grant[c].assertion \in Assertion) BY <1>0, <1>9 DEF AsksForOne
  <2>00. Hit(asked[c]) => ~TriedLately(asked[c]) BY DEF Hit, TriedLately
  <2>1. CASE c \in hits
    <3>1. grant'[c].at = "verify" /\ grant'[c].assertion = asked[c].assertion
      BY <1>1, <1>2, <2>0, <2>1 DEF GrantRequest
    <3> QED BY <2>0, <2>00, <2>1, <3>1 DEF GrantFree
  <2>2. CASE c \notin hits /\ c \in refused
    <3>1. grant'[c].at = "idle" BY <1>1, <2>0, <2>2 DEF Resting
    <3> QED BY <2>2, <3>1 DEF GrantFree
  <2>3. CASE c \notin hits /\ c \notin refused /\ c \in waits
    <3>1. grant'[c].at = "keys" /\ grant'[c].assertion = asked[c].assertion
      BY <1>1, <1>2, <2>0, <2>3 DEF GrantRequest
    <3> QED BY <2>0, <2>3, <3>1 DEF GrantFree
  <2>4. CASE c \notin hits /\ c \notin refused /\ c \notin waits
    <3>1. grant'[c] = grant[c] BY <1>1, <2>0, <2>4
    <3> QED BY <2>0, <2>4, <3>1 DEF GrantFree
  <2> QED BY <2>1, <2>2, <2>3, <2>4
<1>11. AsksForOne' BY <1>10 DEF AsksForOne
<1>12. AskingNow' = AskingNow \ refused BY <1>10 DEF AskingNow
<1>13. refused \cap Exchange \subseteq AskingNow BY DEF AskingNow
<1>14. SlotsExact' BY <1>0, <1>1, <1>12, <1>13, SlotsGivenBack, GrantsAssumption DEF SlotsExact
<1> QED BY <1>5, <1>6, <1>7, <1>8, <1>11, <1>14

\* Requests that end, and what some others go on with.
LEMMA EndingStep ==
    ASSUME GrantsInv, NEW ending \in SUBSET Keeper,
           grant' \in [Keeper -> GrantRequest],
           \A c \in ending \cap Exchange : ~GrantFree(c) /\ grant'[c].at \in {"idle", "served"},
           \A c \in Exchange \ ending : (grant'[c].at \in {"idle", "served"} <=> GrantFree(c))
                                       /\ grant'[c].assertion = grant[c].assertion,
           slots' = SlotsLeft(ending)
    PROVE  AsksForOne' /\ SlotsExact'
<1>1. SlotsExact /\ AsksForOne BY DEF GrantsInv
<1>2. ending \cap Exchange \subseteq AskingNow BY DEF AskingNow
<1>3. \A c \in Exchange : (~GrantFree(c))' <=> (~GrantFree(c) /\ c \notin ending) BY DEF GrantFree
<1>4. AskingNow' = AskingNow \ ending BY <1>3 DEF AskingNow
<1>5. AsksForOne' BY <1>1, <1>3 DEF AsksForOne
<1>6. SlotsExact' BY <1>1, <1>2, <1>4, SlotsGivenBack, GrantsAssumption DEF SlotsExact
<1> QED BY <1>5, <1>6

-----------------------------------------------------------------------------
\* A finite queue that is not empty has an oldest entry.
Queue(held, order) ==
    /\ \A a, b \in held : a # b => <<a, b>> \in order \/ <<b, a>> \in order
    /\ \A a, b \in held : <<a, b>> \in order => <<b, a>> \notin order
    /\ \A a, b, d \in held : <<a, b>> \in order /\ <<b, d>> \in order => <<a, d>> \in order

\* A queue that holds something has an oldest entry.
LEMMA OldestExists ==
    ASSUME NEW held, NEW order, IsFiniteSet(held), held # {}, Queue(held, order)
    PROVE  /\ Oldest(held, order) \in held
           /\ \A k \in held \ {Oldest(held, order)} : <<Oldest(held, order), k>> \in order
<1> DEFINE After(x) == {y \in held : <<x, y>> \in order}
           Rest(x) == held \ After(x)
           T == {Rest(x) : x \in held}
<1>1. FiniteSubsetsOf(held) = SUBSET held BY FS_FiniteSubsetsOfFinite
<1>2. IsWellFoundedOn(StrictSubsetOrdering(held), SUBSET held)
  BY <1>1, FS_StrictSubsetOrderingWellFounded
<1>3. T \subseteq SUBSET held /\ T # {} OBVIOUS
<1>4. PICK t \in T : \A u \in T : ~(<<u, t>> \in StrictSubsetOrdering(held))
  <2> HIDE DEF T
  <2> QED BY <1>2, <1>3, WFMin
<1>5. PICK o \in held : t = Rest(o) OBVIOUS
<1>6. ASSUME NEW k \in held \ {o}, <<o, k>> \notin order PROVE FALSE
  <2>1. <<k, o>> \in order BY <1>6 DEF Queue
  <2>2. After(o) \subseteq After(k)
    <3>1. ASSUME NEW y \in held, <<o, y>> \in order PROVE <<k, y>> \in order BY <2>1, <3>1 DEF Queue
    <3> QED BY <3>1
  <2>3. o \in After(k) /\ o \notin After(o) BY <2>1 DEF Queue
  <2>4. Rest(k) \subseteq Rest(o) /\ Rest(k) # Rest(o) BY <2>2, <2>3
  <2>5. <<Rest(k), Rest(o)>> \in StrictSubsetOrdering(held) BY <2>4 DEF StrictSubsetOrdering
  <2> QED BY <1>4, <1>5, <2>5
<1> QED BY <1>6 DEF Oldest

\* Expired entries leave the rest as it was.
LEMMA KeptQueue ==
    ASSUME GrantsInv
    PROVE  /\ Kept \subseteq replays /\ IsFiniteSet(replays) /\ Queue(Kept, replayOrder)
           /\ \A a \in Kept : \/ later[a] = MaxEntries
                            \/ Cardinality({b \in Kept : <<a, b>> \in replayOrder}) <= later[a]
           /\ \A a \in replays \ Kept : signed[a].taken /\ replayAge[a] <= signed[a].age => ~InWindow(a)
<1>1. GrantTypeOK /\ Ordered /\ CountedBehind BY DEF GrantsInv
<1>2. Kept \subseteq replays /\ IsFiniteSet(replays)
  BY <1>1, FS_Subset, GrantsAssumption DEF Kept, GrantTypeOK
<1>3. Queue(Kept, replayOrder) BY <1>1, <1>2, Zenon DEF Queue, Ordered
<1>4. ASSUME NEW a \in Kept, later[a] # MaxEntries
      PROVE  Cardinality({b \in Kept : <<a, b>> \in replayOrder}) <= later[a]
  <2>1. IsFiniteSet(Behind(a)) BY <1>2, FS_Subset DEF Behind
  <2>2. {b \in Kept : <<a, b>> \in replayOrder} \subseteq Behind(a) BY <1>2 DEF Behind
  <2>3. Cardinality(Behind(a)) <= later[a] /\ later[a] \in Nat
    BY <1>1, <1>2, <1>4 DEF CountedBehind, GrantTypeOK
  <2> HIDE DEF Kept, Behind
  <2>4. Cardinality({b \in Kept : <<a, b>> \in replayOrder}) \in Nat
        /\ Cardinality({b \in Kept : <<a, b>> \in replayOrder}) <= Cardinality(Behind(a))
        /\ Cardinality(Behind(a)) \in Nat
    BY <2>1, <2>2, SubsetCardinality
  <2> QED BY <2>3, <2>4
<1>5. ASSUME NEW a \in replays \ Kept, replayAge[a] <= signed[a].age PROVE ~InWindow(a)
  <2>1. a \in Assertion /\ replayAge[a] \in 0..ReplayTtl /\ signed[a].age \in 0..Window + 1
    BY <1>1 DEF GrantTypeOK
  <2>2. ~(replayAge[a] < ReplayTtl) BY <1>5 DEF Kept
  <2> QED BY <1>5, <2>1, <2>2, GrantsAssumption DEF InWindow, Window
<1> QED BY <1>2, <1>3, <1>4, <1>5

\* Registering an assertion keeps what is said of the replay store, overflow
\* included (register).
LEMMA RegisterStep ==
    ASSUME GrantsInv, NEW a \in Assertion, a \notin Kept, RegisterKey(a)
    PROVE  Ordered' /\ CountedBehind' /\ Remembered'
           /\ replays' \subseteq Assertion /\ replayOrder' \subseteq replays' \X replays'
<1> DEFINE held == Kept \cup {a}
           order == (replayOrder \cap (Kept \X Kept)) \cup (Kept \X {a})
           o == Oldest(held, order)
           After(x) == {y \in held : <<x, y>> \in order}
<1>0. GrantTypeOK /\ Remembered BY DEF GrantsInv
<1>1. /\ replays' = IF Cardinality(held) > MaxEntries THEN held \ {o} ELSE held
      /\ replayOrder' = order \cap (replays' \X replays')
      /\ replayAge' = [replayAge EXCEPT ![a] = 0]
      /\ later' = [k \in Assertion |-> IF k = a THEN 0 ELSE CappedAt(later[k], MaxEntries)]
      /\ signed' = [signed EXCEPT ![a].taken = TRUE]
  BY Zenon DEF RegisterKey
<1>2. Kept \subseteq Assertion /\ IsFiniteSet(Kept) /\ Queue(Kept, replayOrder)
  BY <1>0, KeptQueue, FS_Subset DEF GrantTypeOK
<1>3. IsFiniteSet(held) /\ held # {} /\ held \subseteq Assertion BY <1>2, FS_AddElement
<1>4. Queue(held, order)
  <2> HIDE DEF Kept
  <2>1. \A x, y \in held : <<x, y>> \in order <=>
          (x \in Kept /\ y = a) \/ (x \in Kept /\ y \in Kept /\ <<x, y>> \in replayOrder)
    OBVIOUS
  <2> HIDE DEF order
  <2> QED BY <2>1, <1>2 DEF Queue
<1>5. o \in held /\ \A k \in held \ {o} : <<o, k>> \in order
  <2> HIDE DEF held, order
  <2> QED BY <1>3, <1>4, OldestExists
<1>6. replays' \subseteq held BY <1>1
<1>7. Ordered'
  <2>1. \A x, y \in replays' : <<x, y>> \in replayOrder' <=> <<x, y>> \in order BY <1>1
  <2> HIDE DEF held, order
  <2> QED BY <1>4, <1>6, <2>1 DEF Ordered, Queue
<1>8. \A k \in Assertion : later[k] \in 0..MaxEntries /\ later'[k] \in 0..MaxEntries
  BY <1>0, <1>1, GrantsAssumption DEF GrantTypeOK, CappedAt
\* Each entry has counted what is behind it.
<1>9. ASSUME NEW k \in held, later'[k] # MaxEntries
      PROVE  Cardinality(After(k)) <= later'[k]
  <2>1. CASE k = a
    <3>1. After(k) = {} BY <2>1
    <3>2. later'[k] = 0 BY <1>1, <2>1
    <3> HIDE DEF After, held
    <3> QED BY <3>1, <3>2, FS_EmptySet
  <2>2. CASE k # a
    <3> DEFINE Old == {y \in Kept : <<k, y>> \in replayOrder}
    <3>1. k \in Kept BY <2>2
    <3>2. After(k) = Old \cup {a} BY <3>1
    <3>3. later'[k] = later[k] + 1 /\ later[k] # MaxEntries
      <4>1. k \in Assertion BY <1>3
      <4> HIDE DEF held, order, o, After
      <4> QED BY <4>1, <1>1, <1>8, <1>9, <2>2, GrantsAssumption DEF CappedAt
    <3>4. Cardinality(Old) <= later[k] BY <3>1, <3>3, KeptQueue
    <3>5. IsFiniteSet(Old) /\ Cardinality(Old) \in Nat BY <1>2, FS_Subset, FS_CardinalityType
    <3>6. a \notin Old OBVIOUS
    <3>7. later[k] \in Nat BY <1>8, <1>3, <1>9
    <3> HIDE DEF Old, After, held
    <3>8. Cardinality(Old \cup {a}) = Cardinality(Old) + 1 BY <3>5, <3>6, FS_AddElement
    <3> QED BY <3>2, <3>3, <3>4, <3>5, <3>7, <3>8
  <2> QED BY <2>1, <2>2
<1>10. CountedBehind'
  <2> SUFFICES ASSUME NEW k \in replays', later'[k] # MaxEntries
               PROVE  Cardinality(Behind(k)') <= later'[k]
    BY DEF CountedBehind
  <2>1. Behind(k)' \subseteq After(k) BY <1>1, <1>6 DEF Behind
  <2>2. k \in held BY <1>6
  <2>3. IsFiniteSet(After(k)) BY <1>3, FS_Subset
  <2> HIDE DEF After, held
  <2>4. Cardinality(Behind(k)') <= Cardinality(After(k)) /\ Cardinality(Behind(k)') \in Nat
        /\ Cardinality(After(k)) \in Nat
    BY <2>1, <2>3, SubsetCardinality
  <2>5. later'[k] \in Nat BY <1>3, <1>8, <2>2
  <2> QED BY <1>9, <2>2, <2>4, <2>5
<1>11. ASSUME Cardinality(held) > MaxEntries PROVE o # a /\ later'[o] = MaxEntries
  <2>2. held \ {o} \subseteq After(o) BY <1>5
  <2>3. IsFiniteSet(After(o)) BY <1>3, FS_Subset
  <2>4. o \in Assertion BY <1>3, <1>5
  <2>1. Cardinality(held \ {o}) = Cardinality(held) - 1 /\ Cardinality(held) \in Nat
    <3> HIDE DEF held, o
    <3> QED BY <1>3, <1>5, FS_RemoveElement, FS_CardinalityType
  <2> HIDE DEF held, After, o
  <2>5. Cardinality(held \ {o}) <= Cardinality(After(o)) /\ Cardinality(After(o)) \in Nat
        /\ Cardinality(held \ {o}) \in Nat
    BY <2>2, <2>3, SubsetCardinality
  <2>6. Cardinality(After(o)) >= MaxEntries BY <1>11, <2>1, <2>5, GrantsAssumption
  <2>7. later'[o] = MaxEntries BY <1>5, <1>8, <1>9, <2>4, <2>5, <2>6, GrantsAssumption
  <2>8. o # a BY <1>1, <2>7, GrantsAssumption
  <2> QED BY <2>7, <2>8
<1>12. Remembered'
  <2> SUFFICES ASSUME NEW b \in Assertion, signed'[b].taken
               PROVE  \/ later'[b] = MaxEntries
                      \/ ~InWindow(b)'
                      \/ b \in replays' /\ replayAge'[b] <= signed'[b].age
    BY DEF Remembered
  <2>0. signed'[b].age = signed[b].age /\ signed[b].age \in Nat BY <1>0, <1>1 DEF GrantTypeOK
  <2>1. CASE b = a
    <3>1. b \in replays' BY <1>1, <1>11, <2>1
    <3>2. replayAge'[b] = 0 BY <1>0, <1>1, <2>1 DEF GrantTypeOK
    <3> QED BY <2>0, <3>1, <3>2
  <2>2. CASE b # a
    <3>1. signed'[b] = signed[b] /\ replayAge'[b] = replayAge[b] BY <1>0, <1>1, <2>2 DEF GrantTypeOK
    <3>2. CASE later[b] = MaxEntries
      BY <1>1, <2>2, <3>2, GrantsAssumption DEF CappedAt
    <3>3. CASE ~InWindow(b) BY <3>1, <3>3 DEF InWindow
    <3>4. CASE b \in replays /\ replayAge[b] <= signed[b].age
      <4>1. CASE b \notin Kept
        <5>1. ~InWindow(b) BY <3>1, <3>4, <4>1, KeptQueue
        <5> QED BY <3>1, <5>1 DEF InWindow
      <4>2. CASE b \in Kept /\ b \in replays' BY <3>1, <3>4, <4>2
      <4>3. CASE b \in Kept /\ b \notin replays' BY <1>1, <1>11, <4>3
      <4> QED BY <4>1, <4>2, <4>3
    <3> QED BY <1>0, <3>1, <3>2, <3>3, <3>4 DEF Remembered
  <2> QED BY <2>1, <2>2
<1>13. replays' \subseteq Assertion /\ replayOrder' \subseteq replays' \X replays' BY <1>1, <1>3
<1> QED BY <1>7, <1>10, <1>12, <1>13

-----------------------------------------------------------------------------
\* An exact counter is a number.
LEMMA SlotsTyped ==
    ASSUME SlotsExact PROVE slots \in Nat
<1>1. IsFiniteSet(AskingNow) BY GrantsAssumption, FS_Subset DEF AskingNow
<1> QED BY <1>1, FS_CardinalityType DEF SlotsExact

\* Steps that leave the keys alone, but for what some requests are given of them.
LEMMA KeysKept ==
    ASSUME GrantsInv, UNCHANGED <<published, withdrawn, cache>>,
           fetch' = fetch \/ fetch' = [NoFetch EXCEPT !.on = TRUE],
           \A c \in Keeper : grant'[c].at = "verify" =>
                 \/ grant'[c] = grant[c]
                 \/ FreshKeys /\ grant'[c].kids = cache.kids
    PROVE  KeysInv'
<1>0. KeysInv /\ GrantTypeOK BY DEF GrantsInv
<1>1. \A k \in fetch'.kids : withdrawn'[k] <= fetch'.age BY <1>0 DEF KeysInv, NoFetch
<1>2. ASSUME NEW c \in Keeper, grant'[c].at = "verify", NEW k \in grant'[c].kids
      PROVE  withdrawn'[k] <= KeyTtl
  <2>1. CASE grant'[c] = grant[c] BY <1>0, <1>2, <2>1 DEF KeysInv
  <2>2. CASE FreshKeys /\ grant'[c].kids = cache.kids
    <3>1. withdrawn[k] <= cache.age + 1 /\ k \in Kid BY <1>0, <1>2, <2>2 DEF KeysInv, GrantTypeOK
    <3>2. cache.age \in 0..KeyTtl /\ withdrawn[k] \in 0..KeyTtl + 1 BY <1>0, <3>1 DEF GrantTypeOK
    <3> QED BY <2>2, <3>1, <3>2, GrantsAssumption DEF FreshKeys
  <2> QED BY <1>2, <2>1, <2>2
<1>3. ~fetch'.on => fetch' = NoFetch BY <1>0 DEF KeysInv, NoFetch
<1> QED BY <1>0, <1>1, <1>2, <1>3 DEF KeysInv

\* Steps that leave the store's order alone keep it in order.
LEMMA QueueKept ==
    ASSUME GrantsInv, UNCHANGED <<replays, replayOrder, later>> PROVE Ordered' /\ CountedBehind'
BY DEF GrantsInv, Ordered, CountedBehind, Behind

\* Steps that leave store and assertions alone keep what is said of them.
LEMMA ReplaysKept ==
    ASSUME GrantsInv, UNCHANGED <<replayVars, signed>>
    PROVE  Ordered' /\ CountedBehind' /\ Remembered'
<1>1. Ordered' /\ CountedBehind' BY QueueKept DEF replayVars
<1> QED BY <1>1 DEF GrantsInv, Remembered, InWindow, replayVars

\* The end of an exchange gives back one slot.
LEMMA ReleasedStep ==
    ASSUME GrantsInv, NEW c \in Exchange, ~GrantFree(c), NEW outcome \in {Ended, Resting},
           Released(c, outcome)
    PROVE  /\ grant' \in [Keeper -> GrantRequest] /\ AsksForOne' /\ SlotsExact'
           /\ \A d \in Keeper : grant'[d].at = "verify" => grant'[d] = grant[d]
<1> USE RestingTyped
<1>1. grant' = [grant EXCEPT ![c] = outcome] /\ slots' = SlotsLeft({c}) BY DEF Released
<1>2. grant \in [Keeper -> GrantRequest] /\ c \in Keeper BY DEF GrantsInv, GrantTypeOK, Keeper
<1>3. outcome \in GrantRequest /\ outcome.at \in {"idle", "served"}
  <2>1. Ended.at = "served" /\ Resting.at = "idle" BY DEF Resting, Ended
  <2>2. outcome = Ended \/ outcome = Resting OBVIOUS
  <2> QED BY <2>1, <2>2
<1>4. grant' \in [Keeper -> GrantRequest] BY <1>1, <1>2, <1>3
<1>5. \A d \in Keeper : grant'[d] = IF d = c THEN outcome ELSE grant[d] BY <1>1, <1>2
<1>6. \A d \in Exchange : d \in Keeper BY DEF Keeper
<1>7. AsksForOne' /\ SlotsExact'
  <2>1. {c} \in SUBSET Keeper BY <1>2
  <2>2. \A d \in {c} \cap Exchange : ~GrantFree(d) /\ grant'[d].at \in {"idle", "served"}
    BY <1>2, <1>3, <1>5
  <2>3. \A d \in Exchange \ {c} : (grant'[d].at \in {"idle", "served"} <=> GrantFree(d))
                                   /\ grant'[d].assertion = grant[d].assertion
    BY <1>5, <1>6 DEF GrantFree
  <2> QED BY <1>1, <1>4, <2>1, <2>2, <2>3, EndingStep
<1>8. \A d \in Keeper : grant'[d].at = "verify" => grant'[d] = grant[d] BY <1>3, <1>5
<1> QED BY <1>4, <1>7, <1>8

-----------------------------------------------------------------------------
\* The provider may publish and withdraw keys.
LEMMA ProviderStep ==
    ASSUME GrantsInv, NEW k \in Kid, Withdraw(k) \/ Publish(k) PROVE GrantsInv'
<1>0. GrantTypeOK /\ KeysInv /\ SlotsExact /\ AsksForOne BY DEF GrantsInv
<1>1. /\ published' \subseteq Kid
      /\ withdrawn' = withdrawn \/ withdrawn' = [withdrawn EXCEPT ![k] = 0]
      /\ \A j \in published' : j \in published \/ (j = k /\ withdrawn' = [withdrawn EXCEPT ![k] = 0])
      /\ UNCHANGED <<cache, fetch, signed, replayVars, grant, limits>>
  <2>1. CASE Withdraw(k) BY <1>0, <2>1 DEF Withdraw, GrantTypeOK
  <2>2. CASE Publish(k) BY <1>0, <2>2 DEF Publish, GrantTypeOK
  <2> QED BY <2>1, <2>2
<1>2. withdrawn' \in [Kid -> 0..KeyTtl + 1] /\ \A j \in Kid : withdrawn'[j] = withdrawn[j] \/ withdrawn'[j] = 0
  BY <1>0, <1>1, GrantsAssumption DEF GrantTypeOK
<1>3. GrantTypeOK' BY <1>0, <1>1, <1>2 DEF GrantTypeOK, replayVars, limits
<1>4. KeysInv'
  <2>1. \A j \in published' : withdrawn'[j] = 0 BY <1>0, <1>1, <1>2 DEF KeysInv, GrantTypeOK
  <2>2. cache.kids \subseteq Kid /\ fetch.kids \subseteq Kid /\ \A c \in Keeper : grant[c].kids \subseteq Kid
    BY <1>0 DEF GrantTypeOK, GrantRequest
  <2>3. cache.age \in Nat /\ fetch.age \in Nat BY <1>0 DEF GrantTypeOK
  <2> QED BY <1>0, <1>1, <1>2, <2>1, <2>2, <2>3, GrantsAssumption DEF KeysInv
<1>5. Ordered' /\ CountedBehind' /\ Remembered' BY <1>1, ReplaysKept
<1>6. AsksForOne' /\ SlotsExact' BY <1>0, <1>1 DEF AsksForOne, SlotsExact, AskingNow, GrantFree, limits
<1> QED BY <1>3, <1>4, <1>5, <1>6 DEF GrantsInv

\* The provider may sign assertions.
LEMMA MintStep ==
    ASSUME GrantsInv, NEW a \in Assertion, NEW k \in Kid, NEW named \in BOOLEAN, Mint(a, k, named)
    PROVE  GrantsInv'
<1>0. GrantTypeOK /\ KeysInv /\ SlotsExact /\ AsksForOne /\ Remembered BY DEF GrantsInv
<1>1. /\ signed' = [signed EXCEPT ![a] = [age |-> 0, kid |-> k, named |-> named, taken |-> FALSE]]
      /\ UNCHANGED <<keyVars, replayVars, grant, limits>>
  BY DEF Mint
<1>2. GrantTypeOK'
  <2>1. [age |-> 0, kid |-> k, named |-> named, taken |-> FALSE]
          \in [age : 0..Window + 1, kid : Kid, named : BOOLEAN, taken : BOOLEAN]
    BY GrantsAssumption DEF Window
  <2> QED BY <1>0, <1>1, <2>1 DEF GrantTypeOK, keyVars, replayVars, limits
<1>3. KeysInv' BY <1>0, <1>1 DEF KeysInv, keyVars
<1>4. Ordered' /\ CountedBehind' BY <1>1, QueueKept DEF replayVars
<1>5. Remembered'
  <2>1. \A b \in Assertion : signed'[b].taken => b # a BY <1>0, <1>1 DEF GrantTypeOK
  <2>2. \A b \in Assertion \ {a} : signed'[b] = signed[b] BY <1>0, <1>1 DEF GrantTypeOK
  <2> QED BY <1>0, <1>1, <2>1, <2>2 DEF Remembered, InWindow, replayVars
<1>6. AsksForOne' /\ SlotsExact' BY <1>0, <1>1 DEF AsksForOne, SlotsExact, AskingNow, GrantFree, limits
<1> QED BY <1>2, <1>3, <1>4, <1>5, <1>6 DEF GrantsInv

\* Time passes for keys, assertions and the store alike.
LEMMA TickStep ==
    ASSUME GrantsInv, GrantTick PROVE GrantsInv'
<1>0. GrantTypeOK /\ KeysInv /\ SlotsExact /\ AsksForOne /\ Remembered BY DEF GrantsInv
<1>1. /\ withdrawn' = [k \in Kid |-> IF k \in published THEN 0 ELSE CappedAt(withdrawn[k], KeyTtl + 1)]
      /\ cache' = [cache EXCEPT !.age = CappedAt(@, KeyTtl)]
      /\ fetch' = IF fetch.on THEN [fetch EXCEPT !.age = 1] ELSE fetch
      /\ signed' = [a \in Assertion |-> [signed[a] EXCEPT !.age = CappedAt(@, Window + 1)]]
      /\ replayAge' = [a \in Assertion |-> CappedAt(replayAge[a], ReplayTtl)]
      /\ grant' = [c \in Keeper |-> [grant[c] EXCEPT !.late = grant[c].at = "uri"]]
      /\ asks' = 0
      /\ UNCHANGED <<published, replays, replayOrder, later, slots>>
  BY Zenon DEF GrantTick
<1>2. /\ fetch.on => fetch.age = 0
      /\ \A c \in Keeper : grant[c].at # "verify"
  BY DEF GrantTick, InTime
<1>3. \A n \in Nat, m \in Nat : CappedAt(n, m) \in Nat /\ CappedAt(n, m) <= m
          /\ (n <= m => CappedAt(n, m) = n + 1 \/ (CappedAt(n, m) = m /\ n = m))
  BY DEF CappedAt
<1>4. \A c \in Keeper : grant[c] \in GrantRequest /\ grant'[c] = [grant[c] EXCEPT !.late = grant[c].at = "uri"]
  BY <1>0, <1>1 DEF GrantTypeOK
<1>5. \A c \in Keeper : grant'[c] \in GrantRequest /\ grant'[c].at = grant[c].at
                        /\ grant'[c].assertion = grant[c].assertion
  BY <1>4 DEF GrantRequest
<1>6. \A a \in Assertion : signed[a] \in [age : 0..Window + 1, kid : Kid, named : BOOLEAN, taken : BOOLEAN]
        /\ signed'[a] = [signed[a] EXCEPT !.age = CappedAt(@, Window + 1)]
  BY <1>0, <1>1 DEF GrantTypeOK
<1>7. \A a \in Assertion : /\ signed'[a] \in [age : 0..Window + 1, kid : Kid, named : BOOLEAN, taken : BOOLEAN]
                           /\ signed'[a].taken = signed[a].taken
                           /\ signed'[a].age = CappedAt(signed[a].age, Window + 1)
  <2> TAKE a \in Assertion
  <2>0. Window + 1 \in Nat BY GrantsAssumption DEF Window
  <2>1. signed[a].age \in 0..Window + 1 BY <1>6
  <2>2. CappedAt(signed[a].age, Window + 1) \in 0..Window + 1 BY <2>0, <2>1 DEF CappedAt
  <2> QED BY <1>6, <2>2
<1>8. Window \in Nat BY GrantsAssumption DEF Window
<1>9. \A k \in Kid : withdrawn[k] \in 0..KeyTtl + 1 /\ withdrawn'[k] \in 0..KeyTtl + 1
        /\ withdrawn'[k] <= withdrawn[k] + 1
  BY <1>0, <1>1, GrantsAssumption DEF GrantTypeOK, CappedAt
<1>10. cache.kids \subseteq Kid /\ cache.age \in 0..KeyTtl /\ cache'.kids = cache.kids
       /\ cache'.age = CappedAt(cache.age, KeyTtl) /\ cache'.age \in 0..KeyTtl
       /\ cache' \in [kids : SUBSET Kid, age : 0..KeyTtl]
  <2>1. cache \in [kids : SUBSET Kid, age : 0..KeyTtl] BY <1>0 DEF GrantTypeOK
  <2>2. CappedAt(cache.age, KeyTtl) \in 0..KeyTtl BY <2>1, GrantsAssumption DEF CappedAt
  <2>3. cache' = [cache EXCEPT !.age = CappedAt(cache.age, KeyTtl)] BY <1>1
  <2> QED BY <2>1, <2>2, <2>3
<1>11. fetch' \in [on : BOOLEAN, age : {0, 1}, read : BOOLEAN, kids : SUBSET Kid]
       /\ fetch'.kids = fetch.kids /\ fetch.kids \subseteq Kid /\ fetch.age \in {0, 1}
       /\ fetch'.age = IF fetch.on THEN 1 ELSE fetch.age
  BY <1>0, <1>1 DEF GrantTypeOK
<1>12. GrantTypeOK'
  <2>1. withdrawn' \in [Kid -> 0..KeyTtl + 1] BY <1>1, <1>9
  <2>2. signed' \in [Assertion -> [age : 0..Window + 1, kid : Kid, named : BOOLEAN, taken : BOOLEAN]]
    BY <1>1, <1>7
  <2>3. replayAge' \in [Assertion -> 0..ReplayTtl] BY <1>0, <1>1, <1>3, GrantsAssumption DEF GrantTypeOK
  <2>4. grant' \in [Keeper -> GrantRequest] BY <1>1, <1>5
  <2>5. asks' \in 0..MaxAsks BY <1>1, GrantsAssumption
  <2> QED BY <1>0, <1>1, <1>10, <1>11, <2>1, <2>2, <2>3, <2>4, <2>5 DEF GrantTypeOK
<1>13. KeysInv'
  <2>1. ~fetch'.on => fetch' = NoFetch
    BY <1>0, <1>1 DEF KeysInv, GrantTypeOK
  <2>2. \A k \in published' : withdrawn'[k] = 0 BY <1>0, <1>1 DEF GrantTypeOK
  <2>3. \A k \in fetch'.kids : withdrawn'[k] <= fetch'.age
    BY <1>0, <1>2, <1>9, <1>11 DEF KeysInv, NoFetch
  <2>4. \A k \in cache'.kids : withdrawn'[k] <= cache'.age + 1
    <3> SUFFICES ASSUME NEW k \in cache.kids PROVE withdrawn'[k] <= cache'.age + 1 BY <1>10
    <3>1. withdrawn[k] <= cache.age + 1 /\ k \in Kid BY <1>0, <1>10 DEF KeysInv
    <3> QED BY <1>9, <1>10, <3>1, GrantsAssumption DEF CappedAt
  <2>5. \A c \in Keeper : grant'[c].at # "verify" BY <1>2, <1>5
  <2> QED BY <2>1, <2>2, <2>3, <2>4, <2>5 DEF KeysInv
<1>14. Ordered' /\ CountedBehind' BY <1>1, QueueKept
<1>15. Remembered'
  <2> SUFFICES ASSUME NEW a \in Assertion, signed'[a].taken
               PROVE  later'[a] = MaxEntries \/ ~InWindow(a)'
                      \/ (a \in replays' /\ replayAge'[a] <= signed'[a].age)
    BY DEF Remembered
  <2>1. later[a] = MaxEntries \/ ~InWindow(a) \/ (a \in replays /\ replayAge[a] <= signed[a].age)
    BY <1>0, <1>7 DEF Remembered
  <2>2. signed[a].age \in 0..Window + 1 /\ replayAge[a] \in 0..ReplayTtl
        /\ signed'[a].age = CappedAt(signed[a].age, Window + 1)
        /\ replayAge'[a] = CappedAt(replayAge[a], ReplayTtl)
    BY <1>0, <1>1, <1>7 DEF GrantTypeOK
  <2> QED BY <1>1, <1>3, <1>8, <2>1, <2>2, GrantsAssumption DEF InWindow, CappedAt
<1>16. AsksForOne' /\ SlotsExact'
  <2>1. \A c \in Exchange : GrantFree(c)' <=> GrantFree(c) BY <1>5 DEF GrantFree, Keeper
  <2> QED BY <1>0, <1>1, <1>5, <2>1 DEF AsksForOne, SlotsExact, AskingNow, Keeper
<1> QED BY <1>12, <1>13, <1>14, <1>15, <1>16 DEF GrantsInv

-----------------------------------------------------------------------------
\* The calls of getResolver, with the other variables as their callers leave them.
LEMMA CallsResolver ==
    ASSUME GrantsInv, NEW calling \in SUBSET Keeper, NEW asked \in [Keeper -> GrantRequest],
           GetResolver(calling, asked),
           \A c \in calling \cap Exchange : ~GrantFree(c) /\ asked[c].assertion \in Assertion,
           UNCHANGED <<published, withdrawn, cache, signed, replayVars, asks>>
    PROVE  GrantsInv'
<1>0. GrantTypeOK BY DEF GrantsInv
<1>1. /\ grant' \in [Keeper -> GrantRequest]
      /\ fetch' \in [on : BOOLEAN, age : {0, 1}, read : BOOLEAN, kids : SUBSET Kid]
      /\ fetch' = fetch \/ fetch' = [NoFetch EXCEPT !.on = TRUE]
      /\ \A c \in Keeper : grant'[c].at = "verify" =>
            \/ grant'[c] = grant[c]
            \/ FreshKeys /\ grant'[c].kids = cache.kids
      /\ AsksForOne' /\ SlotsExact'
  BY ResolverStep
<1>2. slots' \in Nat
  <2>1. IsFiniteSet(AskingNow') BY GrantsAssumption, FS_Subset DEF AskingNow
  <2> QED BY <1>1, <2>1, FS_CardinalityType DEF SlotsExact
<1>3. GrantTypeOK' BY <1>0, <1>1, <1>2 DEF GrantTypeOK, replayVars
<1>4. KeysInv' BY <1>1, KeysKept
<1>5. Ordered' /\ CountedBehind' /\ Remembered' BY ReplaysKept
<1> QED BY <1>1, <1>3, <1>4, <1>5 DEF GrantsInv

\* Steps of one request, or of several, that leave the keys and the replays alone.
LEMMA Answers ==
    ASSUME GrantsInv, grant' \in [Keeper -> GrantRequest], AsksForOne', SlotsExact',
           \A c \in Keeper : grant'[c].at = "verify" => grant'[c] = grant[c],
           asks' \in 0..MaxAsks, UNCHANGED <<published, withdrawn, cache, fetch, signed, replayVars>>
    PROVE  GrantsInv'
<1>0. GrantTypeOK BY DEF GrantsInv
<1>2. slots' \in Nat
  <2>1. IsFiniteSet(AskingNow') BY GrantsAssumption, FS_Subset DEF AskingNow
  <2> QED BY <2>1, FS_CardinalityType DEF SlotsExact
<1>3. GrantTypeOK' BY <1>0, <1>2 DEF GrantTypeOK, replayVars
<1>4. KeysInv' BY KeysKept
<1>5. Ordered' /\ CountedBehind' /\ Remembered' BY ReplaysKept
<1> QED BY <1>3, <1>4, <1>5 DEF GrantsInv

\* The shared refresh of the keys keeps the invariant, however it ends
\* (JwksCache.refresh).
LEMMA AwaitsKeys ==
    ASSUME GrantsInv, FetchReads \/ FetchReturns \/ FetchFails \/ Displace PROVE GrantsInv'
<1> USE RestingTyped
<1>0. GrantTypeOK /\ KeysInv /\ SlotsExact /\ AsksForOne BY DEF GrantsInv
<1>1. CASE FetchReads
  <2>1. /\ fetch.on /\ fetch' = [fetch EXCEPT !.read = TRUE, !.kids = published]
        /\ UNCHANGED <<published, withdrawn, cache, signed, replayVars, grant, limits>>
    BY <1>1 DEF FetchReads
  <2>2. GrantTypeOK' BY <1>0, <2>1 DEF GrantTypeOK, replayVars, limits
  <2>3. KeysInv' BY <1>0, <2>1 DEF KeysInv, GrantTypeOK
  <2>4. Ordered' /\ CountedBehind' /\ Remembered' BY <2>1, ReplaysKept
  <2>5. AsksForOne' /\ SlotsExact' BY <1>0, <2>1 DEF AsksForOne, SlotsExact, AskingNow, GrantFree, limits
  <2> QED BY <2>2, <2>3, <2>4, <2>5 DEF GrantsInv
<1>2. CASE FetchReturns
  <2> DEFINE lacks == {c \in AwaitingKeys : ~NamesKeyIn(grant[c], fetch.kids)}
  <2>1. /\ fetch.on /\ cache' = [kids |-> fetch.kids, age |-> 0] /\ fetch' = NoFetch
        /\ grant' = [c \in Keeper |->
              IF c \in lacks THEN Resting
              ELSE IF c \in AwaitingKeys THEN [grant[c] EXCEPT !.at = "verify", !.kids = fetch.kids]
              ELSE grant[c]]
        /\ slots' = SlotsLeft(lacks)
        /\ UNCHANGED <<published, withdrawn, signed, replayVars, asks>>
    BY <1>2, Zenon DEF FetchReturns, FetchLeft
  <2>12. cache' = [kids |-> fetch.kids, age |-> 0] /\ withdrawn' = withdrawn BY <2>1, Zenon
  <2>2. \A c \in Keeper : grant[c] \in GrantRequest BY <1>0 DEF GrantTypeOK
  <2>3. fetch.kids \in SUBSET Kid /\ fetch.age \in {0, 1} BY <1>0 DEF GrantTypeOK
  <2>4. \A c \in Keeper : [grant[c] EXCEPT !.at = "verify", !.kids = fetch.kids] \in GrantRequest
    BY <2>2, <2>3 DEF GrantRequest
  <2>5. grant' \in [Keeper -> GrantRequest] BY <2>1, <2>2, <2>4
  <2>6. \A c \in Exchange : c \in Keeper BY DEF Keeper
  <2>7. AsksForOne' /\ SlotsExact'
    <3>1. lacks \in SUBSET Keeper BY DEF AwaitingKeys
    <3>2. \A c \in lacks : ~GrantFree(c) /\ grant'[c].at \in {"idle", "served"}
      BY <2>1, <3>1 DEF AwaitingKeys, GrantFree, Resting
    <3>3. ASSUME NEW c \in Exchange \ lacks
          PROVE  /\ grant'[c].at \in {"idle", "served"} <=> GrantFree(c)
                 /\ grant'[c].assertion = grant[c].assertion
      <4>1. CASE c \in AwaitingKeys
        <5>1. grant'[c] = [grant[c] EXCEPT !.at = "verify", !.kids = fetch.kids] BY <2>1, <2>6, <4>1
        <5>2. grant'[c].at = "verify" /\ grant'[c].assertion = grant[c].assertion
          BY <2>2, <2>6, <5>1 DEF GrantRequest
        <5> QED BY <4>1, <5>2 DEF AwaitingKeys, GrantFree
      <4>2. CASE c \notin AwaitingKeys BY <2>1, <2>6, <4>2 DEF GrantFree
      <4> QED BY <4>1, <4>2
    <3> HIDE DEF lacks
    <3> QED BY <2>1, <2>5, <3>1, <3>2, <3>3, EndingStep
  <2>8. slots' \in Nat
    <3>1. IsFiniteSet(AskingNow') BY GrantsAssumption, FS_Subset DEF AskingNow
    <3> QED BY <2>7, <3>1, FS_CardinalityType DEF SlotsExact
  <2>9. GrantTypeOK'
    <3>1. cache' \in [kids : SUBSET Kid, age : 0..KeyTtl] BY <2>12, <2>3, GrantsAssumption
    <3>2. fetch' \in [on : BOOLEAN, age : {0, 1}, read : BOOLEAN, kids : SUBSET Kid] BY <2>1 DEF NoFetch
    <3> QED BY <1>0, <2>1, <2>5, <2>8, <3>1, <3>2 DEF GrantTypeOK, replayVars
  <2>10. KeysInv'
    <3>1. \A k \in fetch.kids : withdrawn[k] <= 1 /\ k \in Kid /\ withdrawn[k] \in 0..KeyTtl + 1
      BY <1>0, <2>3 DEF KeysInv, GrantTypeOK
    <3>2. ASSUME NEW c \in Keeper, grant'[c].at = "verify", NEW k \in grant'[c].kids
          PROVE  withdrawn[k] <= KeyTtl
      <4>1. CASE c \in AwaitingKeys /\ c \notin lacks
        <5>1. grant'[c].kids = fetch.kids BY <2>1, <2>2, <4>1 DEF GrantRequest
        <5> QED BY <3>1, <3>2, <5>1, GrantsAssumption
      <4>2. CASE c \in lacks BY <2>1, <3>2, <4>2 DEF Resting
      <4>3. CASE c \notin AwaitingKeys
        <5>1. grant'[c] = grant[c] BY <2>1, <4>3
        <5> QED BY <1>0, <3>2, <5>1 DEF KeysInv
      <4> QED BY <4>1, <4>2, <4>3
    <3>3. \A k \in cache'.kids : withdrawn'[k] <= cache'.age + 1 BY <2>12, <3>1
    <3>4. ~fetch'.on => fetch' = NoFetch BY <2>1
    <3>5. fetch'.kids = {} BY <2>1 DEF NoFetch
    <3> QED BY <1>0, <2>1, <3>2, <3>3, <3>4, <3>5 DEF KeysInv
  <2>11. Ordered' /\ CountedBehind' /\ Remembered' BY <2>1, ReplaysKept
  <2> QED BY <2>7, <2>9, <2>10, <2>11 DEF GrantsInv
<1>3. CASE FetchFails
  <2>1. /\ fetch' = NoFetch
        /\ grant' = [c \in Keeper |-> IF c \in AwaitingKeys THEN Resting ELSE grant[c]]
        /\ slots' = SlotsLeft(AwaitingKeys)
        /\ UNCHANGED <<published, withdrawn, cache, signed, replayVars, asks>>
    BY <1>3, Zenon DEF FetchFails, FetchLeft
  <2>2. \A c \in Keeper : grant[c] \in GrantRequest BY <1>0 DEF GrantTypeOK
  <2>3. grant' \in [Keeper -> GrantRequest] BY <2>1, <2>2
  <2>4. \A c \in Exchange : c \in Keeper BY DEF Keeper
  <2>5. AsksForOne' /\ SlotsExact'
    <3>1. AwaitingKeys \in SUBSET Keeper BY DEF AwaitingKeys
    <3>2. \A c \in AwaitingKeys : ~GrantFree(c) /\ grant'[c].at \in {"idle", "served"}
      BY <2>1, <3>1 DEF AwaitingKeys, GrantFree, Resting
    <3>3. \A c \in Exchange \ AwaitingKeys : (grant'[c].at \in {"idle", "served"} <=> GrantFree(c))
              /\ grant'[c].assertion = grant[c].assertion
      BY <2>1, <2>4 DEF GrantFree
    <3> QED BY <2>1, <2>3, <3>1, <3>2, <3>3, EndingStep
  <2>6. slots' \in Nat
    <3>1. IsFiniteSet(AskingNow') BY GrantsAssumption, FS_Subset DEF AskingNow
    <3> QED BY <2>5, <3>1, FS_CardinalityType DEF SlotsExact
  <2>7. GrantTypeOK'
    <3>1. fetch' \in [on : BOOLEAN, age : {0, 1}, read : BOOLEAN, kids : SUBSET Kid] BY <2>1 DEF NoFetch
    <3> QED BY <1>0, <2>1, <2>3, <2>6, <3>1 DEF GrantTypeOK, replayVars
  <2>8. KeysInv'
    <3>1. \A c \in Keeper : grant'[c].at = "verify" => grant'[c] = grant[c] BY <2>1 DEF Resting
    <3>2. fetch'.kids = {} /\ (~fetch'.on => fetch' = NoFetch) BY <2>1 DEF NoFetch
    <3> QED BY <1>0, <2>1, <3>1, <3>2 DEF KeysInv
  <2>9. Ordered' /\ CountedBehind' /\ Remembered' BY <2>1, ReplaysKept
  <2> QED BY <2>5, <2>7, <2>8, <2>9 DEF GrantsInv
<1>4. CASE Displace
  <2>1. /\ cache' = NoKeys
        /\ UNCHANGED <<published, withdrawn, fetch, signed, replayVars, grant, limits>>
    BY <1>4 DEF Displace
  <2>2. GrantTypeOK' BY <1>0, <2>1, GrantsAssumption DEF GrantTypeOK, replayVars, limits, NoKeys
  <2>3. KeysInv' BY <1>0, <2>1 DEF KeysInv, NoKeys
  <2>4. Ordered' /\ CountedBehind' /\ Remembered' BY <2>1, ReplaysKept
  <2>5. AsksForOne' /\ SlotsExact' BY <1>0, <2>1 DEF AsksForOne, SlotsExact, AskingNow, GrantFree, limits
  <2> QED BY <2>2, <2>3, <2>4, <2>5 DEF GrantsInv
<1> QED BY <1>1, <1>2, <1>3, <1>4

-----------------------------------------------------------------------------
\* Logins keep the invariant.
LEMMA LoginStep ==
    ASSUME GrantsInv, (\E c \in Login : LoggingIn(c)) \/ MemoReturns \/ MemoFails PROVE GrantsInv'
<1> USE RestingTyped
<1>0. GrantTypeOK /\ AsksForOne /\ SlotsExact BY DEF GrantsInv
<1>1. grant \in [Keeper -> GrantRequest] BY <1>0 DEF GrantTypeOK
<1>2. Login \cap Exchange = {} /\ Login \subseteq Keeper /\ Exchange \subseteq Keeper
  BY GrantsAssumption DEF Keeper
\* Logins hold no slots.
<1>3. ASSUME \A c \in Exchange : grant'[c] = grant[c], slots' = slots
      PROVE  AsksForOne' /\ SlotsExact'
  BY <1>0, <1>3 DEF AsksForOne, SlotsExact, AskingNow, GrantFree
<1>4. ASSUME NEW c \in Login, NEW k \in Kid, NEW named \in BOOLEAN, LogIn(c, k, named) PROVE GrantsInv'
  <2> DEFINE asked == [grant EXCEPT ![c] = [Resting EXCEPT !.at = "uri", !.kid = k, !.named = named]]
  <2>1. [Resting EXCEPT !.at = "uri", !.kid = k, !.named = named] \in GrantRequest BY DEF GrantRequest
  <2>2. asked \in [Keeper -> GrantRequest] BY <1>1, <2>1
  <2>3. UNCHANGED <<published, withdrawn, cache, signed, replayVars, asks>> BY <1>4 DEF LogIn
  <2>4. CASE GetResolver({c}, asked)
    <3>1. {c} \in SUBSET Keeper /\ {c} \cap Exchange = {} BY <1>2
    <3> HIDE DEF asked
    <3> QED BY <2>2, <2>3, <2>4, <3>1, CallsResolver
  <2>5. CASE grant' = asked /\ fetch' = fetch /\ slots' = slots
    <3>1. grant' \in [Keeper -> GrantRequest] BY <2>2, <2>5
    <3>2. \A d \in Keeper : d # c => grant'[d] = grant[d] BY <1>1, <2>5
    <3>3. grant'[c].at = "uri" BY <1>1, <1>2, <2>5 DEF Resting
    <3>4. AsksForOne' /\ SlotsExact' BY <1>2, <1>3, <2>5, <3>2
    <3>5. \A d \in Keeper : grant'[d].at = "verify" => grant'[d] = grant[d] BY <3>2, <3>3
    <3>6. asks' \in 0..MaxAsks BY <1>0, <2>3 DEF GrantTypeOK
    <3> QED BY <2>3, <2>5, <3>1, <3>4, <3>5, <3>6, Answers
  <2>6. GetResolver({c}, asked) \/ (grant' = asked /\ fetch' = fetch /\ slots' = slots)
    BY <1>4, Zenon DEF LogIn
  <2> QED BY <2>4, <2>5, <2>6
<1>5. ASSUME NEW c \in Login, VerifyIdToken(c) PROVE GrantsInv'
  <2> DEFINE outcome == IF grant[c].kid \in grant[c].kids THEN Ended ELSE Resting
  <2>1. grant' = [grant EXCEPT ![c] = outcome] /\ UNCHANGED <<keyVars, signed, replayVars, limits>>
    BY <1>5 DEF VerifyIdToken
  <2>2. outcome \in GrantRequest /\ outcome.at # "verify" BY DEF Ended, Resting
  <2> HIDE DEF outcome
  <2>3. grant' \in [Keeper -> GrantRequest] BY <1>1, <2>1, <2>2
  <2>4. \A d \in Keeper : grant'[d] = IF d = c THEN outcome ELSE grant[d] BY <1>1, <2>1
  <2>5. AsksForOne' /\ SlotsExact' BY <1>2, <1>3, <2>1, <2>4 DEF limits
  <2>6. asks' \in 0..MaxAsks BY <1>0, <2>1 DEF GrantTypeOK, limits
  <2>7. \A d \in Keeper : grant'[d].at = "verify" => grant'[d] = grant[d] BY <2>2, <2>4
  <2> QED BY <2>1, <2>3, <2>5, <2>6, <2>7, Answers DEF keyVars
<1>6. CASE MemoReturns
  <2>1. Discovering \in SUBSET Keeper /\ Discovering \cap Exchange = {} BY <1>2 DEF Discovering
  <2>2. GetResolver(Discovering, grant) /\ UNCHANGED <<published, withdrawn, cache, signed, replayVars, asks>>
    BY <1>6 DEF MemoReturns
  <2> QED BY <1>1, <2>1, <2>2, CallsResolver
<1>7. CASE MemoFails
  <2>1. /\ grant' = [c \in Keeper |-> IF c \in Discovering THEN Resting ELSE grant[c]]
        /\ UNCHANGED <<published, withdrawn, cache, fetch, signed, replayVars, limits>>
    BY <1>7 DEF MemoFails
  <2>2. grant' \in [Keeper -> GrantRequest] BY <1>1, <2>1
  <2>3. \A c \in Exchange : grant'[c] = grant[c] BY <1>2, <2>1 DEF Discovering
  <2>4. AsksForOne' /\ SlotsExact' BY <1>3, <2>1, <2>3 DEF limits
  <2>5. asks' \in 0..MaxAsks BY <1>0, <2>1 DEF GrantTypeOK, limits
  <2>6. \A d \in Keeper : grant'[d].at = "verify" => grant'[d] = grant[d] BY <2>1 DEF Resting
  <2> QED BY <2>1, <2>2, <2>4, <2>5, <2>6, Answers
<1> QED BY <1>4, <1>5, <1>6, <1>7 DEF LoggingIn

\* Exchanges keep the invariant, at each of their stages.
LEMMA ExchangeStep ==
    ASSUME GrantsInv, NEW c \in Exchange, Exchanging(c) PROVE GrantsInv'
<1> USE RestingTyped
<1>0. GrantTypeOK /\ AsksForOne /\ SlotsExact /\ Remembered BY DEF GrantsInv
<1>1. grant \in [Keeper -> GrantRequest] /\ c \in Keeper /\ Exchange \subseteq Keeper
  BY <1>0 DEF GrantTypeOK, Keeper
<1>2. ASSUME NEW a \in Assertion, Ask(c, a) PROVE GrantsInv'
  <2> DEFINE asked == [Resting EXCEPT !.at = "uri", !.assertion = a, !.kid = signed[a].kid, !.named = signed[a].named]
  <2>1. UNCHANGED <<keyVars, signed, replayVars>> /\ GrantFree(c) /\ asks < MaxAsks /\ asks' = asks + 1
    BY <1>2, Zenon DEF Ask
  <2>2. asks' \in 0..MaxAsks BY <1>0, <2>1, GrantsAssumption DEF GrantTypeOK
  <2>3. CASE slots' = slots /\ grant' = grant
    <3>1. AsksForOne' /\ SlotsExact' BY <1>0, <2>3 DEF AsksForOne, SlotsExact, AskingNow, GrantFree
    <3> QED BY <1>1, <2>1, <2>2, <2>3, <3>1, Answers DEF keyVars
  <2>4. CASE slots < MaxSlots /\ slots' = slots + 1 /\ grant' = [grant EXCEPT ![c] = asked]
    <3>1. signed[a].kid \in Kid /\ signed[a].named \in BOOLEAN BY <1>0 DEF GrantTypeOK
    <3>2. asked \in GrantRequest /\ asked.at = "uri" /\ asked.assertion = a BY <3>1 DEF GrantRequest, Resting
    <3> HIDE DEF asked
    <3>3. grant' \in [Keeper -> GrantRequest] BY <1>1, <2>4, <3>2
    <3>4. \A d \in Keeper : grant'[d] = IF d = c THEN asked ELSE grant[d] BY <1>1, <2>4
    <3>5. AsksForOne' BY <1>0, <1>1, <3>2, <3>4 DEF AsksForOne, GrantFree
    <3>6. AskingNow' = AskingNow \cup {c} /\ c \notin AskingNow
      BY <1>1, <2>1, <3>2, <3>4 DEF AskingNow, GrantFree
    <3>7. SlotsExact'
      <4>1. IsFiniteSet(AskingNow) BY GrantsAssumption, FS_Subset DEF AskingNow
      <4>2. Cardinality(AskingNow \cup {c}) = Cardinality(AskingNow) + 1 BY <3>6, <4>1, FS_AddElement
      <4>3. Cardinality(AskingNow) \in Nat BY <4>1, FS_CardinalityType
      <4> QED BY <1>0, <2>4, <3>6, <4>2, <4>3, GrantsAssumption DEF SlotsExact
    <3>8. \A d \in Keeper : grant'[d].at = "verify" => grant'[d] = grant[d] BY <3>2, <3>4
    <3> QED BY <2>1, <2>2, <3>3, <3>5, <3>7, <3>8, Answers DEF keyVars
  <2>5. (slots' = slots /\ grant' = grant)
        \/ (slots < MaxSlots /\ slots' = slots + 1 /\ grant' = [grant EXCEPT ![c] = asked])
    BY <1>2, Zenon DEF Ask
  <2> QED BY <2>3, <2>4, <2>5
<1>3. CASE UriKnown(c)
  <2>1. /\ grant[c].at = "uri" /\ GetResolver({c}, grant)
        /\ UNCHANGED <<published, withdrawn, cache, signed, replayVars, asks>>
    BY <1>3 DEF UriKnown
  <2>2. ~GrantFree(c) /\ grant[c].assertion \in Assertion BY <1>0, <2>1 DEF GrantFree, AsksForOne
  <2>3. {c} \in SUBSET Keeper BY <1>1
  <2> QED BY <1>1, <2>1, <2>2, <2>3, CallsResolver
<1>4. CASE UriFails(c) \/ Refuse(c)
  <2>1. /\ ~GrantFree(c) /\ Released(c, Resting)
        /\ UNCHANGED <<keyVars, signed, replayVars, asks>>
    BY <1>4 DEF UriFails, Refuse, GrantFree
  <2>2. asks' \in 0..MaxAsks BY <1>0, <2>1 DEF GrantTypeOK
  <2>3. /\ grant' \in [Keeper -> GrantRequest] /\ AsksForOne' /\ SlotsExact'
        /\ \A d \in Keeper : grant'[d].at = "verify" => grant'[d] = grant[d]
    BY <2>1, ReleasedStep
  <2> QED BY <2>1, <2>2, <2>3, Answers DEF keyVars
<1>5. ASSUME NEW outcome \in {Ended, Resting}, ~GrantFree(c), Released(c, outcome),
             UNCHANGED <<keyVars, asks>>,
             signed' \in [Assertion -> [age : 0..Window + 1, kid : Kid, named : BOOLEAN, taken : BOOLEAN]],
             replays' \subseteq Assertion, replayOrder' \subseteq replays' \X replays',
             replayAge' \in [Assertion -> 0..ReplayTtl], later' \in [Assertion -> 0..MaxEntries],
             Ordered', CountedBehind', Remembered'
      PROVE  GrantsInv'
  <2>1. /\ grant' \in [Keeper -> GrantRequest] /\ AsksForOne' /\ SlotsExact'
        /\ \A d \in Keeper : grant'[d].at = "verify" => grant'[d] = grant[d]
    BY <1>5, ReleasedStep
  <2>2. slots' \in Nat
    <3>1. IsFiniteSet(AskingNow') BY GrantsAssumption, FS_Subset DEF AskingNow
    <3> QED BY <2>1, <3>1, FS_CardinalityType DEF SlotsExact
  <2>3. KeysInv' BY <1>5, <2>1, KeysKept DEF keyVars
  <2>4. GrantTypeOK' BY <1>0, <1>5, <2>1, <2>2 DEF GrantTypeOK, keyVars
  <2> QED BY <1>5, <2>1, <2>3, <2>4 DEF GrantsInv
<1>6. CASE RefuseReplay(c)
  <2>1. /\ ~GrantFree(c) /\ Released(c, Resting)
        /\ replays' = Kept /\ replayOrder' = replayOrder \cap (Kept \X Kept)
        /\ UNCHANGED <<keyVars, signed, replayAge, later, asks>>
    BY <1>6 DEF RefuseReplay, GrantFree
  <2>2. Kept \subseteq replays /\ Kept \subseteq Assertion BY <1>0 DEF Kept, GrantTypeOK
  <2>3. Ordered'
    <3>1. \A x, y \in Kept : <<x, y>> \in replayOrder' <=> <<x, y>> \in replayOrder BY <2>1
    <3> QED BY <2>1, <3>1, KeptQueue DEF Ordered, Queue
  <2>4. CountedBehind'
    <3>1. \A x \in Kept : Behind(x)' = {y \in Kept : <<x, y>> \in replayOrder} BY <2>1 DEF Behind
    <3> QED BY <2>1, <3>1, KeptQueue DEF CountedBehind
  <2>5. Remembered'
    <3>1. \A x \in replays \ Kept : signed[x].taken /\ replayAge[x] <= signed[x].age => ~InWindow(x)
      BY KeptQueue
    <3> QED BY <1>0, <2>1, <2>2, <3>1 DEF Remembered, InWindow
  <2>6. replayOrder' \subseteq replays' \X replays' BY <2>1
  <2> QED BY <1>0, <1>5, <2>1, <2>2, <2>3, <2>4, <2>5, <2>6 DEF GrantTypeOK
<1>7. ASSUME NEW outcome \in {Ended, Resting}, AcceptAssertion(c, outcome) PROVE GrantsInv'
  <2> DEFINE a == grant[c].assertion
  <2>1. /\ ~GrantFree(c) /\ a \notin Kept /\ RegisterKey(a) /\ Released(c, outcome)
        /\ UNCHANGED <<keyVars, asks>>
    BY <1>7 DEF AcceptAssertion, GrantFree
  <2>2. a \in Assertion BY <1>0, <2>1 DEF AsksForOne
  <2> HIDE DEF a
  <2>3. Ordered' /\ CountedBehind' /\ Remembered'
        /\ replays' \subseteq Assertion /\ replayOrder' \subseteq replays' \X replays'
    BY <2>1, <2>2, RegisterStep
  <2>4. /\ replayAge' = [replayAge EXCEPT ![a] = 0]
        /\ later' = [k \in Assertion |-> IF k = a THEN 0 ELSE CappedAt(later[k], MaxEntries)]
        /\ signed' = [signed EXCEPT ![a].taken = TRUE]
    BY <2>1, Zenon DEF RegisterKey
  <2>5. replayAge' \in [Assertion -> 0..ReplayTtl]
    <3>1. replayAge \in [Assertion -> 0..ReplayTtl] BY <1>0 DEF GrantTypeOK
    <3>2. 0 \in 0..ReplayTtl BY GrantsAssumption
    <3> QED BY <2>4, <3>1, <3>2
  <2>6. later' \in [Assertion -> 0..MaxEntries] BY <1>0, <2>4, GrantsAssumption DEF GrantTypeOK, CappedAt
  <2>7. signed' \in [Assertion -> [age : 0..Window + 1, kid : Kid, named : BOOLEAN, taken : BOOLEAN]]
    BY <1>0, <2>2, <2>4 DEF GrantTypeOK
  <2> QED BY <1>5, <2>1, <2>3, <2>5, <2>6, <2>7
<1> QED BY <1>2, <1>3, <1>4, <1>6, <1>7 DEF Exchanging

-----------------------------------------------------------------------------
\* The invariant holds at the start.
LEMMA GrantsStart == GrantInit => GrantsInv
<1> SUFFICES ASSUME GrantInit PROVE GrantsInv OBVIOUS
<1> USE RestingTyped
<1>1. GrantTypeOK
  <2>1. withdrawn \in [Kid -> 0..KeyTtl + 1] BY GrantsAssumption DEF GrantInit
  <2>2. cache \in [kids : SUBSET Kid, age : 0..KeyTtl] BY GrantsAssumption DEF GrantInit, NoKeys
  <2>3. fetch \in [on : BOOLEAN, age : {0, 1}, read : BOOLEAN, kids : SUBSET Kid] BY DEF GrantInit, NoFetch
  <2>4. signed \in [Assertion -> [age : 0..Window + 1, kid : Kid, named : BOOLEAN, taken : BOOLEAN]]
    BY DEF GrantInit
  <2>5. replayAge \in [Assertion -> 0..ReplayTtl] /\ later \in [Assertion -> 0..MaxEntries]
    BY GrantsAssumption DEF GrantInit
  <2>6. grant \in [Keeper -> GrantRequest] BY DEF GrantInit
  <2>7. published \subseteq Kid /\ replays \subseteq Assertion /\ replayOrder \subseteq replays \X replays
        /\ slots \in Nat /\ asks \in 0..MaxAsks
    BY GrantsAssumption DEF GrantInit
  <2> QED BY <2>1, <2>2, <2>3, <2>4, <2>5, <2>6, <2>7 DEF GrantTypeOK
<1>2. \A c \in Keeper : grant[c].at = "idle" BY DEF GrantInit, Resting
<1>3. KeysInv
  <2>1. \A k \in published : withdrawn[k] = 0 BY DEF GrantInit
  <2>2. fetch = NoFetch /\ fetch.kids = {} /\ cache.kids = {} BY DEF GrantInit, NoFetch, NoKeys
  <2> QED BY <1>2, <2>1, <2>2 DEF KeysInv
<1>4. Ordered /\ CountedBehind BY DEF GrantInit, Ordered, CountedBehind
<1>5. Remembered
  <2>1. \A a \in Assertion : ~signed[a].taken BY DEF GrantInit, Unminted
  <2> QED BY <2>1 DEF Remembered
<1>6. AsksForOne BY <1>2 DEF AsksForOne, GrantFree, Keeper
<1>7. SlotsExact
  <2>1. AskingNow = {} BY <1>2 DEF AskingNow, GrantFree, Keeper
  <2> QED BY <2>1, FS_EmptySet, GrantsAssumption DEF SlotsExact, GrantInit
<1> QED BY <1>1, <1>3, <1>4, <1>5, <1>6, <1>7 DEF GrantsInv

\* Every step keeps the invariant.
LEMMA GrantsStep == GrantsInv /\ [GrantNext]_grantVars => GrantsInv'
<1> SUFFICES ASSUME GrantsInv, [GrantNext]_grantVars PROVE GrantsInv' OBVIOUS
<1>1. CASE \E k \in Kid : Withdraw(k) \/ Publish(k) BY <1>1, ProviderStep
<1>2. CASE \E a \in Assertion, k \in Kid, named \in BOOLEAN : Mint(a, k, named) BY <1>2, MintStep
<1>3. CASE \E c \in Exchange : Exchanging(c) BY <1>3, ExchangeStep
<1>4. CASE \E c \in Login : LoggingIn(c) BY <1>4, LoginStep
<1>5. CASE Remote BY <1>5, LoginStep, AwaitsKeys DEF Remote
<1>6. CASE GrantTick BY <1>6, TickStep
<1>7. CASE UNCHANGED grantVars
  <2>1. UNCHANGED <<published, withdrawn, cache, fetch, signed, replayVars, grant, limits>>
    BY <1>7 DEF grantVars, keyVars
  <2>2. AsksForOne' /\ SlotsExact'
    BY <2>1 DEF GrantsInv, AsksForOne, SlotsExact, AskingNow, GrantFree, limits
  <2>3. grant' \in [Keeper -> GrantRequest] /\ asks' \in 0..MaxAsks
    BY <2>1 DEF GrantsInv, GrantTypeOK, limits
  <2> QED BY <2>1, <2>2, <2>3, Answers
<1> QED BY <1>1, <1>2, <1>3, <1>4, <1>5, <1>6, <1>7 DEF GrantNext

\* The state keeps its types, whatever requests, answers and keys interleave
\* (enterprise-auth-provider.ts, jwks-cache.ts).
THEOREM GrantTypesCorrect == GrantSpec => []GrantTypeOK
<1>1. GrantsInv => GrantTypeOK BY DEF GrantsInv
<1> QED BY <1>1, GrantsStart, GrantsStep, PTL DEF GrantSpec

\* enterpriseGrantConcurrencyByProfile is the number of exchanges in progress: the
\* finally of the token endpoint gives each slot back, once.
THEOREM SlotsAreExact == GrantSpec => []SlotsExact
<1>1. GrantsInv => SlotsExact BY DEF GrantsInv
<1> QED BY <1>1, GrantsStart, GrantsStep, PTL DEF GrantSpec

\* A request is served by its own check of the signature alone, and an exchange
\* by the acceptance of its assertion.
LEMMA ServedByItself ==
    ASSUME GrantsInv, GrantNext, NEW c \in Keeper, Serves(c)
    PROVE  /\ grant[c].kid \in grant[c].kids
           /\ c \in Exchange => ValidNow(c) /\ grant[c].assertion \notin Kept /\ grant[c].assertion \in Assertion
<1>0. GrantTypeOK /\ AsksForOne BY DEF GrantsInv
<1>1. grant \in [Keeper -> GrantRequest] BY <1>0 DEF GrantTypeOK
<1>2. grant[c].at = "verify" /\ grant'[c].at = "served" BY DEF Serves
<1>3. Login \cap Exchange = {} BY GrantsAssumption
<1>4. ~(grant' = grant) BY <1>2
<1>5. ASSUME NEW calling, NEW asked, GetResolver(calling, asked), c \notin calling PROVE FALSE
  <2>1. grant'[c] = grant[c] BY <1>1, <1>5 DEF GetResolver
  <2> QED BY <1>2, <2>1
<1>6. ASSUME NEW d \in Keeper, d # c, NEW e, grant' = [grant EXCEPT ![d] = e] PROVE FALSE
  BY <1>1, <1>2, <1>6
<1>7. c \notin AwaitingKeys /\ c \notin Discovering BY <1>2 DEF AwaitingKeys, Discovering
<1>8. ~(\E k \in Kid : Withdraw(k) \/ Publish(k))
  BY <1>4, Zenon DEF Withdraw, Publish
<1>9. ~(\E a \in Assertion, k \in Kid, named \in BOOLEAN : Mint(a, k, named)) BY <1>4, Zenon DEF Mint
<1>10. ~GrantTick
  BY <1>2, <1>1 DEF GrantTick, InTime
<1>11. ~Remote
  <2>1. ~MemoReturns BY <1>5, <1>7 DEF MemoReturns
  <2>2. ~MemoFails BY <1>1, <1>2, <1>7 DEF MemoFails
  <2>3. ~FetchReads /\ ~Displace BY <1>4, Zenon DEF FetchReads, Displace
  <2>4. ~FetchReturns
    <3> SUFFICES ASSUME FetchReturns PROVE FALSE OBVIOUS
    <3> DEFINE lacks == {d \in AwaitingKeys : ~NamesKeyIn(grant[d], fetch.kids)}
    <3>1. grant' = [d \in Keeper |->
              IF d \in lacks THEN Resting
              ELSE IF d \in AwaitingKeys THEN [grant[d] EXCEPT !.at = "verify", !.kids = fetch.kids]
              ELSE grant[d]]
      BY Zenon DEF FetchReturns
    <3>2. c \notin lacks BY <1>7
    <3> HIDE DEF lacks
    <3>3. grant'[c] = grant[c] BY <1>1, <1>7, <3>1, <3>2
    <3> QED BY <1>2, <3>3
  <2>5. ~FetchFails BY <1>1, <1>2, <1>7 DEF FetchFails
  <2> QED BY <2>1, <2>2, <2>3, <2>4, <2>5 DEF Remote
<1>12. ASSUME NEW d \in Login, LoggingIn(d) PROVE d = c /\ grant[c].kid \in grant[c].kids
  <2>1. d \in Keeper BY DEF Keeper
  <2>2. ASSUME NEW k \in Kid, NEW named \in BOOLEAN, LogIn(d, k, named) PROVE FALSE
    <3> DEFINE asked == [grant EXCEPT ![d] = [Resting EXCEPT !.at = "uri", !.kid = k, !.named = named]]
    <3>1. (GetResolver({d}, asked) \/ grant' = asked) /\ GrantFree(d) BY <2>2, Zenon DEF LogIn
    <3>2. c # d BY <1>2, <3>1 DEF GrantFree
    <3>3. ~GetResolver({d}, asked) BY <1>5, <3>2, Zenon
    <3>4. grant' # asked BY <1>6, <2>1, <3>2
    <3> QED BY <3>1, <3>3, <3>4
  <2>3. CASE VerifyIdToken(d)
    <3>1. grant' = [grant EXCEPT ![d] = IF grant[d].kid \in grant[d].kids THEN Ended ELSE Resting]
      BY <2>3, Zenon DEF VerifyIdToken
    <3>2. d = c BY <1>6, <2>1, <3>1, Zenon
    <3>3. grant'[c] = IF grant[c].kid \in grant[c].kids THEN Ended ELSE Resting BY <1>1, <3>1, <3>2
    <3> QED BY <1>2, <3>2, <3>3 DEF Resting
  <2> QED BY <1>12, <2>2, <2>3 DEF LoggingIn
<1>13. CASE \E d \in Login : LoggingIn(d) BY <1>3, <1>12, <1>13
<1> SUFFICES ASSUME NEW d \in Exchange, Exchanging(d)
             PROVE  d = c /\ ValidNow(c) /\ grant[c].assertion \notin Kept /\ grant[c].assertion \in Assertion
  BY <1>8, <1>9, <1>10, <1>11, <1>13 DEF GrantNext, ValidNow
<1>14. d \in Keeper BY DEF Keeper
<1>15. ASSUME NEW outcome, Released(d, outcome) PROVE d = c /\ grant'[c] = outcome
  <2>1. grant' = [grant EXCEPT ![d] = outcome] BY <1>15 DEF Released
  <2>2. d = c BY <1>6, <1>14, <2>1
  <2> QED BY <1>1, <2>1, <2>2
<1>16. Resting.at # "served" BY DEF Resting
<1>17. ~(\E a \in Assertion : Ask(d, a))
  <2> SUFFICES ASSUME NEW a \in Assertion, Ask(d, a) PROVE FALSE OBVIOUS
  <2>1. GrantFree(d) BY DEF Ask
  <2>2. d # c BY <1>2, <2>1 DEF GrantFree
  <2> DEFINE asked == [Resting EXCEPT !.at = "uri", !.assertion = a, !.kid = signed[a].kid, !.named = signed[a].named]
  <2>3. grant' = [grant EXCEPT ![d] = asked] BY <1>4, Zenon DEF Ask
  <2> HIDE DEF asked
  <2> QED BY <1>6, <1>14, <2>2, <2>3
<1>18. ~UriKnown(d)
  <2> SUFFICES ASSUME UriKnown(d) PROVE FALSE OBVIOUS
  <2>1. d # c /\ GetResolver({d}, grant) BY <1>2 DEF UriKnown
  <2> QED BY <1>5, <2>1
<1>19. ~UriFails(d) /\ ~Refuse(d) /\ ~RefuseReplay(d)
  <2>1. ~Released(d, Resting) BY <1>2, <1>15, <1>16
  <2> QED BY <2>1 DEF UriFails, Refuse, RefuseReplay
<1>20. PICK outcome \in {Ended, Resting} : AcceptAssertion(d, outcome)
  BY <1>17, <1>18, <1>19 DEF Exchanging
<1>21. d = c BY <1>15, <1>20 DEF AcceptAssertion
<1>22. ValidNow(c) /\ grant[c].assertion \notin Kept BY <1>20, <1>21 DEF AcceptAssertion
<1>23. grant[c].assertion \in Assertion BY <1>0, <1>2, <1>21 DEF AsksForOne, GrantFree
<1> QED BY <1>21, <1>22, <1>23

\* An assertion is accepted a second time only after the replay store took as
\* many others as it holds (enterprise-replay-store.ts).
THEOREM AcceptedOnce == GrantSpec => AcceptedAgainOnlyIfFull
<1> DEFINE Once == \A c \in Exchange : Serves(c) /\ signed[grant[c].assertion].taken
                      => later[grant[c].assertion] >= MaxEntries
<1>1. GrantsInv /\ [GrantNext]_grantVars => [Once]_grantVars
  <2> SUFFICES ASSUME GrantsInv, GrantNext, NEW c \in Exchange, Serves(c),
                      signed[grant[c].assertion].taken
               PROVE  later[grant[c].assertion] >= MaxEntries
    OBVIOUS
  <2> DEFINE a == grant[c].assertion
  <2>1. ValidNow(c) /\ a \notin Kept /\ a \in Assertion BY ServedByItself DEF Keeper
  <2>2. InWindow(a) BY <2>1 DEF ValidNow
  <2>3. GrantTypeOK /\ Remembered BY DEF GrantsInv
  <2>4. later[a] = MaxEntries \/ (a \in replays /\ replayAge[a] <= signed[a].age)
    BY <2>1, <2>2, <2>3 DEF Remembered
  <2>5. ~(a \in replays /\ replayAge[a] <= signed[a].age) BY <2>1, <2>2, KeptQueue
  <2> QED BY <2>4, <2>5, GrantsAssumption
<1> QED BY <1>1, GrantsStart, GrantsStep, PTL DEF GrantSpec, AcceptedAgainOnlyIfFull

\* No request is served over a key that the provider withdrew more than the
\* cache's lifetime ago (jwks-cache.ts).
THEOREM WithdrawnForgotten == GrantSpec => WithdrawnKeyForgotten
<1> DEFINE Forgotten == \A c \in Keeper : Serves(c) => withdrawn[grant[c].kid] <= KeyTtl
<1>1. GrantsInv /\ [GrantNext]_grantVars => [Forgotten]_grantVars
  <2> SUFFICES ASSUME GrantsInv, GrantNext, NEW c \in Keeper, Serves(c)
               PROVE  withdrawn[grant[c].kid] <= KeyTtl
    OBVIOUS
  <2>1. grant[c].kid \in grant[c].kids BY ServedByItself
  <2> QED BY <2>1 DEF GrantsInv, KeysInv, Serves
<1> QED BY <1>1, GrantsStart, GrantsStep, PTL DEF GrantSpec, WithdrawnKeyForgotten

\* Both: an assertion buys one token, and a withdrawn key is forgotten in time.
THEOREM TrustIsTimely == GrantSpec => TrustEnds
<1> QED BY AcceptedOnce, WithdrawnForgotten DEF TrustEnds

-----------------------------------------------------------------------------
(* The tenant index: its inductive invariant, and what follows from it for base
   URLs and for the calls of a session. *)

\* What the index holds is what it says of the tenants read so far.
Placed ==
    /\ \A n \in TenantId : byTenantId[n] # 0 =>
         LET k == byTenantId[n] IN
         /\ tenants[k].id = n
         /\ IF tenants[k].kind = "exact"
            THEN /\ byBaseUrl[tenants[k].at] # 0
                 /\ SameAuth(tenants[k], tenants[byBaseUrl[tenants[k].at]])
            ELSE k \in masks
    /\ \A u \in Url : byBaseUrl[u] # 0 =>
         tenants[byBaseUrl[u]].kind = "exact" /\ tenants[byBaseUrl[u]].at = u

\* No two selectors of it meet.
Apart ==
    /\ \A m, n \in masks : m = n \/ ~Intersect(tenants[m].at, tenants[n].at)
    /\ \A m \in masks, u \in Url : byBaseUrl[u] # 0 => ~Matches(tenants[m].at, u)

IndexType ==
    /\ tenants \in TenantLists
    /\ read \in 0 .. Len(tenants)
    /\ byTenantId \in [TenantId -> 0 .. read]
    /\ byBaseUrl \in [Url -> 0 .. read]
    /\ masks \subseteq 1 .. read

\* What was named when a call began fits the context it is handled under.
Named(id, url, context) ==
    /\ id # NoTenant => context.tenant # 0 /\ tenants[context.tenant].id = id
    /\ url # NoTenant => context.url = url

VisitOK(c) ==
    /\ life[c] = "unborn" => call[c].at = "idle" /\ built[c] = NoTenant
    /\ life[c] = "live" =>
         /\ index \in {"ready", "disabled"}
         /\ built[c] \in {NoTenant, bound[c]}
         /\ call[c].at # "idle" /\ index = "ready" => Named(call[c].id, call[c].url, bound[c])
         /\ call[c].at = "sent" => call[c].to = bound[c]

Functions ==
    /\ life = [c \in Visit |-> life[c]] /\ bound = [c \in Visit |-> bound[c]]
    /\ built = [c \in Visit |-> built[c]]
    /\ call = [c \in Visit |-> call[c]]
    /\ \A c \in Visit : call[c] = [at |-> call[c].at, id |-> call[c].id, url |-> call[c].url,
                                   under |-> call[c].under, to |-> call[c].to]

TenantInv == IndexType /\ Placed /\ Apart /\ Functions /\ \A c \in Visit : VisitOK(c)

-----------------------------------------------------------------------------
\* An overlap is one from either side.
LEMMA OverlapSymmetric ==
    ASSUME NEW p \in Seq(STRING), NEW q \in Seq(STRING), Overlap(p, q)
    PROVE  Overlap(q, p)
BY DEF Overlap

\* The order in which two masks are compared does not matter (masksIntersect).
LEMMA IntersectSymmetric ==
    ASSUME NEW a, NEW b, a.host \in Seq(STRING), b.host \in Seq(STRING),
           a.path \in Seq(STRING), b.path \in Seq(STRING), Intersect(a, b)
    PROVE  Intersect(b, a)
BY OverlapSymmetric DEF Intersect

\* Two masks that cover one sequence overlap.
LEMMA CoveredOverlap ==
    ASSUME NEW p \in Seq(STRING), NEW q \in Seq(STRING), NEW r \in Seq(STRING),
           Covers(p, r), Covers(q, r)
    PROVE  Overlap(p, q)
BY DEF Covers, Overlap

\* Two masks that one URL matches intersect (maskMatchesBaseUrl, masksIntersect).
LEMMA MatchedIntersect ==
    ASSUME NEW a, NEW b, NEW u \in Url, Matches(a, u), Matches(b, u),
           a.host \in Seq(STRING), b.host \in Seq(STRING),
           a.path \in Seq(STRING), b.path \in Seq(STRING)
    PROVE  Intersect(a, b)
<1>1. u.host \in Seq(STRING) /\ u.path \in Seq(STRING)
  BY TenantAssumption
<1> QED BY <1>1, CoveredOverlap DEF Matches, Intersect

\* The entries of an index are tenants of the configuration.
LEMMA EntryAt ==
    ASSUME IndexType, NEW k \in 1 .. Len(tenants)
    PROVE  /\ tenants[k] \in TenantEntry
           /\ tenants[k].at.host \in Seq(STRING) /\ tenants[k].at.path \in Seq(STRING)
           /\ tenants[k].id \in TenantId
           /\ tenants[k].kind \in {"exact", "mask"}
           /\ tenants[k].kind = "exact" => tenants[k].at \in Url
<1>1. tenants \in Seq(TenantEntry) /\ k \in DOMAIN tenants
  BY TenantAssumption DEF IndexType
<1>2. tenants[k] \in TenantEntry
  BY <1>1
<1>3. tenants[k].kind = "exact" => tenants[k].at \in Url
  BY <1>1, TenantAssumption DEF IndexType
<1> QED BY <1>2, <1>3 DEF TenantEntry

-----------------------------------------------------------------------------
\* The invariant holds before the index is built.
LEMMA TenantsStart == TenantInit => TenantInv
<1> SUFFICES ASSUME TenantInit PROVE TenantInv
  OBVIOUS
<1> USE DEF TenantInit
<1>1. IndexType
  <2>1. Len(tenants) \in Nat
    BY TenantAssumption
  <2> QED BY <2>1 DEF IndexType, NoIds, NoUrls
<1>2. Placed /\ Apart
  BY DEF Placed, Apart, NoIds, NoUrls
<1>3. Functions /\ \A c \in Visit : VisitOK(c)
  BY DEF Functions, VisitOK, NoCall, Default
<1> QED BY <1>1, <1>2, <1>3 DEF TenantInv

\* The turn of the loop that takes a tenant keeps selectors apart.
LEMMA TakesTenant ==
    ASSUME IndexType, Placed, Apart, read < Len(tenants), UNCHANGED tenants,
           TakeTenant(tenants[read + 1], read + 1)
    PROVE  IndexType' /\ Placed' /\ Apart'
<1> DEFINE k == read + 1
           t == tenants[k]
<1>1. /\ read \in Nat /\ Len(tenants) \in Nat /\ k \in 1 .. Len(tenants)
      /\ t \in TenantEntry /\ t.id \in TenantId /\ t.kind \in {"exact", "mask"}
      /\ t.kind = "exact" => t.at \in Url
      /\ t.at.host \in Seq(STRING) /\ t.at.path \in Seq(STRING)
  <2>1. Len(tenants) \in Nat
    BY TenantAssumption DEF IndexType
  <2> QED BY <2>1, EntryAt DEF IndexType
<1>2. IndexType'
  <2>1. read' = k /\ 0 .. read \subseteq 0 .. k /\ 1 .. read \subseteq 1 .. k /\ k \in 0 .. Len(tenants)
    BY <1>1 DEF TakeTenant
  <2>2. byTenantId' \in [TenantId -> 0 .. k]
    BY <1>1, <2>1 DEF IndexType, TakeTenant
  <2>3. byBaseUrl' \in [Url -> 0 .. k]
    BY <1>1, <2>1 DEF IndexType, TakeTenant
  <2>4. masks' \subseteq 1 .. k
    BY <1>1, <2>1 DEF IndexType, TakeTenant
  <2> QED BY <2>1, <2>2, <2>3, <2>4 DEF IndexType
<1>3. /\ \A n \in TenantId : byTenantId'[n] = IF n = t.id THEN k ELSE byTenantId[n]
      /\ byTenantId[t.id] = 0
  BY <1>1 DEF IndexType, TakeTenant, Acceptable
<1>4. CASE t.kind = "exact"
  <2>1. ~CollidesExact(t) /\ masks' = masks
    BY <1>4 DEF TakeTenant, Acceptable
  <2>2. \A u \in Url : byBaseUrl'[u] = IF u = t.at /\ byBaseUrl[u] = 0 THEN k ELSE byBaseUrl[u]
    BY <1>1, <1>4 DEF IndexType, TakeTenant
  <2>3. SameAuth(t, tenants[byBaseUrl'[t.at]]) /\ byBaseUrl'[t.at] # 0
    BY <1>1, <1>4, <2>1, <2>2 DEF CollidesExact, SameAuth
  <2>4. Placed'
    <3>1. \A u \in Url : byBaseUrl[u] # 0 => byBaseUrl'[u] = byBaseUrl[u]
      BY <2>2
    <3>2. ASSUME NEW n \in TenantId, byTenantId'[n] # 0
          PROVE  LET j == byTenantId'[n] IN
                 /\ tenants[j].id = n
                 /\ IF tenants[j].kind = "exact"
                    THEN /\ byBaseUrl'[tenants[j].at] # 0
                         /\ SameAuth(tenants[j], tenants[byBaseUrl'[tenants[j].at]])
                    ELSE j \in masks
      <4>1. CASE n = t.id
        BY <1>3, <1>4, <2>3, <4>1
      <4>2. CASE n # t.id
        <5>1. byTenantId'[n] = byTenantId[n] /\ byTenantId[n] \in 1 .. Len(tenants)
          BY <1>1, <1>3, <3>2, <4>2 DEF IndexType
        <5>2. tenants[byTenantId[n]].kind = "exact" => tenants[byTenantId[n]].at \in Url
          BY <5>1, EntryAt
        <5> QED BY <3>1, <3>2, <5>1, <5>2 DEF Placed
      <4> QED BY <4>1, <4>2
    <3>3. \A u \in Url : byBaseUrl'[u] # 0 =>
            tenants[byBaseUrl'[u]].kind = "exact" /\ tenants[byBaseUrl'[u]].at = u
      BY <1>4, <2>2 DEF Placed
    <3> QED BY <2>1, <3>2, <3>3 DEF Placed
  <2>5. Apart'
    BY <2>1, <2>2 DEF Apart, CollidesExact
  <2> QED BY <1>2, <2>4, <2>5
<1>5. CASE t.kind = "mask"
  <2>1. ~CollidesMask(t) /\ masks' = masks \cup {k} /\ byBaseUrl' = byBaseUrl
    BY <1>5 DEF TakeTenant, Acceptable
  <2>2. Placed'
    BY <1>3, <1>5, <2>1 DEF Placed
  <2>3. ASSUME NEW m \in masks PROVE ~Intersect(t.at, tenants[m].at)
    <3>1. m \in 1 .. Len(tenants)
      BY <1>1 DEF IndexType
    <3> QED BY <1>1, <2>1, <3>1, EntryAt, IntersectSymmetric DEF CollidesMask
  <2>4. Apart'
    BY <2>1, <2>3 DEF Apart, CollidesMask
  <2> QED BY <1>2, <2>2, <2>4
<1> QED BY <1>1, <1>4, <1>5

\* What headers resolve to is what they name.
LEMMA ResolvesNamed ==
    ASSUME IndexType, Placed, index = "ready", NEW id \in TenantIdHeader,
           NEW url, NEW context, Resolves(id, url, context)
    PROVE  Named(id, url, context)
BY TenantAssumption DEF IndexType, Placed, Resolves, Named, Context, Default, TenantIdHeader

\* Every step keeps the invariant.
LEMMA TenantsStep == TenantInv /\ [TenantNext]_tenantVars => TenantInv'
<1> SUFFICES ASSUME TenantInv, [TenantNext]_tenantVars PROVE TenantInv'
  OBVIOUS
<1> USE DEF TenantInv
<1> DEFINE Rest == UNCHANGED <<tenants, life, bound, built, call>>
<1>1. ASSUME Rest, index \notin {"ready", "disabled"}
      PROVE  Functions' /\ \A c \in Visit : VisitOK(c)'
  BY <1>1 DEF Functions, VisitOK, Named
<1>2. CASE ReadTenant
  <2>1. Functions' /\ \A c \in Visit : VisitOK(c)'
    BY <1>1, <1>2 DEF ReadTenant
  <2>2. IndexType' /\ Placed' /\ Apart'
    <3>1. CASE SkipTenant(tenants[read + 1])
      BY <1>2, <3>1 DEF ReadTenant, SkipTenant, IndexType, Placed, Apart
    <3>2. CASE TakeTenant(tenants[read + 1], read + 1)
      BY <1>2, <3>2, TakesTenant DEF ReadTenant
    <3>3. CASE RefuseTenants(tenants[read + 1])
      BY <1>2, <3>3 DEF ReadTenant, RefuseTenants, IndexType, Placed, Apart
    <3> QED BY <1>2, <3>1, <3>2, <3>3 DEF ReadTenant
  <2> QED BY <2>1, <2>2
<1>3. CASE IndexBuilt
  <2>1. Functions' /\ \A c \in Visit : VisitOK(c)'
    BY <1>1, <1>3 DEF IndexBuilt
  <2> QED BY <1>3, <2>1 DEF IndexBuilt, IndexType, Placed, Apart
<1>4. CASE BuildAgain
  <2>1. Functions' /\ \A c \in Visit : VisitOK(c)'
    BY <1>1, <1>4 DEF BuildAgain
  <2> QED BY <1>4, <2>1 DEF BuildAgain, IndexType, Placed, Apart, NoIds, NoUrls
<1>5. ASSUME UNCHANGED <<tenants, indexVars>>
      PROVE  IndexType' /\ Placed' /\ Apart'
  BY <1>5 DEF indexVars, IndexType, Placed, Apart
<1>6. ASSUME NEW c \in Visit, NEW id \in TenantIdHeader, NEW url \in BaseUrlHeader,
             OpenFor(c, id, url)
      PROVE  TenantInv'
  <2>1. index \in {"ready", "disabled"}
    BY <1>6 DEF OpenFor, Resolves
  <2>2. Functions' /\ \A d \in Visit : VisitOK(d)'
    BY <1>6, <2>1 DEF OpenFor, indexVars, Functions, VisitOK, Named
  <2> QED BY <1>5, <1>6, <2>2 DEF OpenFor
<1>7. ASSUME NEW c \in Visit, Close(c) PROVE TenantInv'
  <2>1. Functions' /\ \A d \in Visit : VisitOK(d)'
    BY <1>7 DEF Close, indexVars, Functions, VisitOK, Named
  <2> QED BY <1>5, <1>7, <2>1 DEF Close
<1>8. ASSUME NEW c \in Visit, life[c] = "live" => built[c] \in {NoTenant, bound[c]}
      PROVE  life[c] = "live" => ClientFor(c) = bound[c]
  BY <1>8 DEF ClientFor
<1>9. ASSUME NEW c \in Visit, NEW id \in TenantIdHeader, NEW url \in BaseUrlHeader,
             CallFor(c, id, url)
      PROVE  TenantInv'
  <2> DEFINE now == [NoCall EXCEPT !.id = id, !.url = url, !.under = bound[c]]
  <2>1. index = "ready" => Named(id, url, bound[c])
    BY <1>9, ResolvesNamed DEF CallFor, HeadersAgree, Named
  <2>2. life[c] = "live" /\ UNCHANGED <<tenants, indexVars, life, bound>>
    BY <1>9 DEF CallFor
  <2>3. CASE call' = [call EXCEPT ![c] = [now EXCEPT !.at = "refreshing"]] /\ UNCHANGED built
    <3>1. Functions'
      BY <2>2, <2>3 DEF Functions, NoCall
    <3>2. call'[c] = [now EXCEPT !.at = "refreshing"]
      BY <2>3 DEF Functions
    <3>3. VisitOK(c)'
      BY <2>1, <2>2, <2>3, <3>2 DEF indexVars, VisitOK, Named, NoCall
    <3>4. ASSUME NEW d \in Visit, d # c PROVE VisitOK(d)'
      BY <2>2, <2>3, <3>4 DEF indexVars, Functions, VisitOK, Named
    <3> QED BY <1>5, <2>2, <3>1, <3>3, <3>4
  <2>4. CASE Goes(c, now)
    <3>1. ClientFor(c) = bound[c]
      BY <1>8, <2>2 DEF VisitOK
    <3>2. Functions'
      BY <2>2, <2>4 DEF Goes, Functions, NoCall
    <3>3. /\ call'[c] = [now EXCEPT !.at = "sent", !.to = bound[c]]
          /\ built'[c] = bound[c]
      BY <2>4, <3>1 DEF Goes, Functions
    <3>4. VisitOK(c)'
      BY <2>1, <2>2, <3>3 DEF indexVars, VisitOK, Named, NoCall
    <3>5. ASSUME NEW d \in Visit, d # c PROVE VisitOK(d)'
      BY <2>2, <2>4, <3>5 DEF Goes, indexVars, Functions, VisitOK, Named
    <3> QED BY <1>5, <2>2, <3>2, <3>4, <3>5
  <2> QED BY <1>9, <2>3, <2>4 DEF CallFor
<1>10. ASSUME NEW c \in Visit, RefreshOver(c) PROVE TenantInv'
  <2>1. UNCHANGED <<tenants, indexVars, life, bound>> /\ Goes(c, call[c]) /\ call[c].at = "refreshing"
    BY <1>10 DEF RefreshOver
  <2>2. life[c] = "live" => ClientFor(c) = bound[c]
    BY <1>8 DEF VisitOK
  <2>3. Functions'
    BY <2>1 DEF Goes, Functions
  <2>4. /\ call'[c] = [call[c] EXCEPT !.at = "sent", !.to = ClientFor(c)]
        /\ built'[c] = ClientFor(c)
    BY <2>1 DEF Goes, Functions
  <2>5. /\ call'[c].at = "sent" /\ call'[c].to = ClientFor(c)
        /\ call'[c].id = call[c].id /\ call'[c].url = call[c].url
    BY <2>4 DEF Functions
  <2>6. VisitOK(c)'
    BY <2>1, <2>2, <2>4, <2>5 DEF indexVars, VisitOK, Named
  <2>7. ASSUME NEW d \in Visit, d # c PROVE VisitOK(d)'
    BY <2>1, <2>7 DEF Goes, indexVars, Functions, VisitOK, Named
  <2> QED BY <1>5, <2>1, <2>3, <2>6, <2>7
<1>11. ASSUME NEW c \in Visit, CallOverFor(c) PROVE TenantInv'
  <2>1. Functions' /\ \A d \in Visit : VisitOK(d)'
    BY <1>11 DEF CallOverFor, indexVars, Functions, VisitOK, Named, NoCall
  <2> QED BY <1>5, <1>11, <2>1 DEF CallOverFor
<1>12. CASE UNCHANGED tenantVars
  <2>1. Functions' /\ \A d \in Visit : VisitOK(d)'
    BY <1>12 DEF tenantVars, Functions, VisitOK, Named
  <2> QED BY <1>5, <1>12, <2>1 DEF tenantVars, indexVars
<1> QED BY <1>2, <1>3, <1>4, <1>6, <1>7, <1>9, <1>10, <1>11, <1>12 DEF TenantNext

\* The invariant holds always.
LEMMA TenantsHold == TenantSpec => []TenantInv
BY TenantsStart, TenantsStep, PTL DEF TenantSpec

-----------------------------------------------------------------------------
\* Whatever the configuration, an index that is built gives a base URL to
\* tenants of one auth only: the collisions refused pair by pair are enough.
THEOREM OneAuthPerUrl == TenantSpec => []UrlFixesAuth
<1>1. ASSUME TenantInv PROVE UrlFixesAuth
  <2> SUFFICES ASSUME NEW i \in Indexed, NEW j \in Indexed, NEW url \in Url,
                      Admits(i, url), Admits(j, url)
               PROVE  SameAuth(tenants[i], tenants[j])
    BY DEF UrlFixesAuth
  <2> USE <1>1 DEF TenantInv
  <2>1. PICK m, n \in TenantId : i = byTenantId[m] /\ j = byTenantId[n] /\ i # 0 /\ j # 0
    BY DEF Indexed
  <2>2. i \in 1 .. Len(tenants) /\ j \in 1 .. Len(tenants)
    BY <2>1, TenantAssumption DEF IndexType
  <2>3. \A k \in {i, j} : tenants[k].kind = "exact" => byBaseUrl[url] # 0
                          /\ SameAuth(tenants[k], tenants[byBaseUrl[url]])
    BY <2>1 DEF Placed, Admits
  <2>4. \A k \in {i, j} : tenants[k].kind # "exact" => k \in masks /\ Matches(tenants[k].at, url)
    BY <2>1 DEF Placed, Admits
  <2>5. CASE tenants[i].kind = "exact" /\ tenants[j].kind = "exact"
    BY <2>3, <2>5 DEF SameAuth
  <2>6. CASE tenants[i].kind # "exact" /\ tenants[j].kind # "exact"
    <3>1. Intersect(tenants[i].at, tenants[j].at)
      BY <2>2, <2>4, <2>6, EntryAt, MatchedIntersect
    <3>2. i = j
      BY <2>4, <2>6, <3>1 DEF Apart
    <3> QED BY <3>2 DEF SameAuth
  <2>7. CASE tenants[i].kind # tenants[j].kind
    <3>1. \E k \in masks : Matches(tenants[k].at, url) /\ byBaseUrl[url] # 0
      BY <2>2, <2>3, <2>4, <2>7, EntryAt
    <3> QED BY <3>1 DEF Apart
  <2>8. tenants[i].kind \in {"exact", "mask"} /\ tenants[j].kind \in {"exact", "mask"}
    BY <2>2, EntryAt
  <2> QED BY <2>5, <2>6, <2>7, <2>8
<1> QED BY <1>1, TenantsHold, PTL

\* Whatever the headers and the order of requests, a call of a live session
\* goes to the tenant and the base URL that its request named.
THEOREM CallsGoWhereNamed == TenantSpec => []NamedIsServed
<1>1. TenantInv => NamedIsServed
  BY DEF TenantInv, VisitOK, NamedIsServed, Named
<1> QED BY <1>1, TenantsHold, PTL

\* Both: one way to log in for each base URL, and calls go where they are named.
THEOREM TenantsApart == TenantSpec => []TenantsKeptApart
<1> QED BY OneAuthPerUrl, CallsGoWhereNamed, PTL DEF TenantsKeptApart

-----------------------------------------------------------------------------
(* Admission: a session's token is valid where the profile says so. *)

OpeningRecord ==
    [ at : {"idle", "judging", "env", "upstream"}, token : Token \cup {NoToken},
      read : Principal, principal : Principal ]
SeatRecord ==
    [ live : BOOLEAN, from : Token \cup {NoToken}, token : Token \cup {NoToken},
      given : BOOLEAN, renews : BOOLEAN, principal : Principal ]

\* The token may be worked with where its kind is validated.
Judged(t) == t # NoToken /\ setting.gate = "none" /\ IsJudged(t) =>
                 t \in approved \/ issued[t] # "no"

\* The server issues its own tokens, and its records are of these; a token with
\* a record is mapped, so that a session opened with it finds its refresh token.
RecordsRight ==
    \A t \in Token :
        /\ issued[t] # "no" => t \in OwnToken
        /\ record[t] # "none" => issued[t] # "no" /\ t \in mapped
        /\ setting.consented => record[t] # "client"

\* What is under way was read from such records: a token that is asked of the
\* validation endpoint had none, and the upstream is asked after that endpoint.
Asked(p) ==
    /\ p \in OpeningRecord
    /\ p.token \in OwnToken => issued[p.token] # "no"
    /\ p.read # "none" => p.token \in Token /\ issued[p.token] # "no"
    /\ setting.consented => p.principal # "client"
OpeningsRight ==
    \A o \in Opening :
        /\ Asked(opening[o])
        /\ opening[o].at = "judging" => opening[o].read = "none" /\ opening[o].token # NoToken
        /\ opening[o].at = "env" => opening[o].token = NoToken
        /\ opening[o].at = "upstream" => setting.upstream /\ Judged(opening[o].token)

SeatsRight ==
    \A s \in Seat : seat[s].live =>
        /\ seat[s].given \/ Judged(seat[s].token)
        /\ setting.consented => seat[s].principal # "client"
        /\ seat[s].from \in OwnToken => issued[seat[s].from] # "no"
        /\ setting.sealed /\ ~setting.upstream /\ seat[s].from # NoToken
           /\ issued[seat[s].from] \in {"human", "client"} => seat[s].renews

AdmissionInv == AdmissionTypeOK /\ RecordsRight /\ OpeningsRight /\ SeatsRight

LEMMA AdmissionTyped ==
    ASSUME AdmissionTypeOK
    PROVE  /\ setting \in Settings
           /\ issued \in [Token -> {"no", "human", "client", "enterprise"}]
           /\ record \in [Token -> Principal]
           /\ mapped \subseteq Token /\ over \subseteq Token /\ approved \subseteq Token
           /\ opening \in [Opening -> OpeningRecord] /\ seat \in [Seat -> SeatRecord]
           /\ swaps \subseteq Seat \X Token /\ rebooted \in BOOLEAN
BY DEF AdmissionTypeOK, OpeningRecord, SeatRecord

LEMMA AdmissionTypes ==
    ASSUME setting \in Settings,
           issued \in [Token -> {"no", "human", "client", "enterprise"}],
           record \in [Token -> Principal],
           mapped \subseteq Token, over \subseteq Token, approved \subseteq Token,
           opening \in [Opening -> OpeningRecord], seat \in [Seat -> SeatRecord],
           swaps \subseteq Seat \X Token, rebooted \in BOOLEAN
    PROVE  AdmissionTypeOK
BY DEF AdmissionTypeOK, OpeningRecord, SeatRecord

\* The fields of a setting, and where an environment's token and a client's differ.
LEMMA SettingTyped ==
    ASSUME setting \in Settings
    PROVE  /\ setting.gate \in {"none", "optional", "required"}
           /\ setting.upstream \in BOOLEAN /\ setting.sealed \in BOOLEAN
           /\ setting.consented \in BOOLEAN /\ setting.configs \in BOOLEAN
BY AdmissionAssumption DEF AdmissionAssumption

\* The seat and the request at rest.
LEMMA RestTyped ==
    /\ NotOpening \in OpeningRecord /\ NoSeat \in SeatRecord /\ ~NoSeat.live
    /\ NotOpening.at = "idle" /\ NotOpening.token = NoToken /\ NotOpening.read = "none"
    /\ NotOpening.principal = "none" /\ NoToken \notin Token /\ NoToken \notin OwnToken
    /\ OwnToken \subseteq Token /\ OwnToken \subseteq BearerToken
BY AdmissionAssumption
   DEF NotOpening, NoSeat, OpeningRecord, SeatRecord, Principal, AdmissionAssumption

\* A token's record is read: what expired is forgotten.
LEMMA ReadKeeps ==
    ASSUME AdmissionTypeOK, RecordsRight, NEW t \in Token \cup {NoToken}
    PROVE  /\ PrincipalOf(t) \in Principal
           /\ PrincipalOf(t) # "none" => t \in Token /\ t \in mapped /\ issued[t] # "no"
           /\ setting.consented => PrincipalOf(t) # "client"
           /\ AfterRead(t) \in [Token -> Principal]
           /\ \A u \in Token : AfterRead(t)[u] \in {record[u], "none"}
BY AdmissionTyped DEF RecordsRight, PrincipalOf, AfterRead, Principal

LEMMA StoreKeeps ==
    ASSUME AdmissionTypeOK, RecordsRight, NEW t \in Token, NEW p \in Principal
    PROVE  /\ Stored(t, p) \in [Token -> Principal] /\ Stored(t, p)[t] = p
           /\ \A u \in Token \ {t} : Stored(t, p)[u] \in {record[u], "none"}
BY AdmissionTyped DEF Stored, PrincipalOf, Principal

\* Less is on record than before.
LEMMA RecordsFewer ==
    ASSUME AdmissionTypeOK, RecordsRight, UNCHANGED <<setting, issued>>,
           \A u \in Token : record'[u] \in {record[u], "none"},
           \A u \in Token : record'[u] # "none" /\ u \in mapped => u \in mapped'
    PROVE  RecordsRight'
BY DEF RecordsRight

\* What was admitted stays admitted while tokens are issued and approved.
LEMMA OpeningsStay ==
    ASSUME OpeningsRight, UNCHANGED <<setting, opening>>, approved \subseteq approved',
           \A t \in Token : issued[t] # "no" => issued'[t] # "no",
           \A t \in OwnToken : t \in Token
    PROVE  OpeningsRight'
BY DEF OpeningsRight, Asked, Judged, IsJudged, TypeOfToken, OpeningRecord

LEMMA SeatsStay ==
    ASSUME SeatsRight, AdmissionTypeOK, RecordsRight, UNCHANGED <<setting, seat>>,
           approved \subseteq approved',
           \A t \in Token : issued[t] # "no" => issued'[t] = issued[t],
           \A t \in Token : issued'[t] # "no" => t \in OwnToken
    PROVE  SeatsRight'
<1>1. seat \in [Seat -> SeatRecord]
  BY AdmissionTyped
<1>2. SUFFICES ASSUME NEW s \in Seat, seat[s].live
               PROVE  /\ seat[s].given \/ Judged(seat[s].token)'
                      /\ setting.consented => seat[s].principal # "client"
                      /\ seat[s].from \in OwnToken => issued'[seat[s].from] # "no"
                      /\ setting.sealed /\ ~setting.upstream /\ seat[s].from # NoToken
                         /\ issued'[seat[s].from] \in {"human", "client"} => seat[s].renews
  BY DEF SeatsRight
<1>3. seat[s].from \in Token \cup {NoToken} /\ seat[s].token \in Token \cup {NoToken}
  BY <1>1, <1>2 DEF SeatRecord
<1>4. seat[s].given \/ Judged(seat[s].token)'
  BY <1>2, <1>3 DEF SeatsRight, Judged, IsJudged, TypeOfToken
<1>5. seat[s].from \in OwnToken => issued'[seat[s].from] # "no"
  BY <1>2, <1>3, RestTyped DEF SeatsRight
<1>6. setting.sealed /\ ~setting.upstream /\ seat[s].from # NoToken
      /\ issued'[seat[s].from] \in {"human", "client"} => seat[s].renews
  <2>1. seat[s].from # NoToken /\ issued'[seat[s].from] \in {"human", "client"}
           => issued'[seat[s].from] = issued[seat[s].from]
    BY <1>2, <1>3 DEF SeatsRight
  <2> QED
    BY <1>2, <2>1 DEF SeatsRight
<1> QED
  BY <1>2, <1>4, <1>5, <1>6 DEF SeatsRight

\* initialize reaches its end with what it knew when it began: the session it
\* opens may hold its token.
LEMMA Opens ==
    ASSUME AdmissionTypeOK, RecordsRight, OpeningsRight, SeatsRight,
           NEW o \in Opening, NEW p, Asked(p),
           setting.upstream \/ p.read = "none" \/ p.token \in mapped,
           p.token # NoToken /\ setting.gate = "none" /\ IsJudged(p.token)
              => p.token \in approved' \/ issued[p.token] # "no",
           UNCHANGED <<setting, issued>>, approved \subseteq approved',
           NEW s \in Seat, Takes(o, s, p)
    PROVE  /\ opening' \in [Opening -> OpeningRecord] /\ seat' \in [Seat -> SeatRecord]
           /\ OpeningsRight' /\ SeatsRight'
<1>1. /\ opening \in [Opening -> OpeningRecord] /\ seat \in [Seat -> SeatRecord]
      /\ p \in OpeningRecord /\ setting \in Settings
      /\ issued \in [Token -> {"no", "human", "client", "enterprise"}]
  BY AdmissionTyped DEF Asked
<1>2. /\ p.token \in Token \cup {NoToken} /\ p.principal \in Principal
      /\ setting.consented => p.principal # "client"
  BY <1>1 DEF OpeningRecord, Asked
<1>3. PICK rn \in BOOLEAN, pr \in Principal :
         /\ SeatFor(p) = [ live |-> TRUE, from |-> p.token, token |-> p.token, given |-> FALSE,
                           renews |-> rn, principal |-> pr ]
         /\ setting.consented => pr # "client"
         /\ Recovers(p) => rn
         /\ p.token \in BearerToken \cap mapped /\ issued[p.token] \in {"human", "client"} => rn
  <2>1. PICK b \in BOOLEAN, q \in Principal :
           /\ b = (\/ Recovers(p)
                   \/ /\ p.token \in BearerToken \cap mapped
                      /\ issued[p.token] \in {"human", "client"})
           /\ q = IF Recovers(p) /\ issued[p.token] = "human" THEN "human" ELSE p.principal
    BY <1>2 DEF Principal
  <2> QED
    BY <1>2, <2>1 DEF SeatFor
<1>4. /\ seat' = [seat EXCEPT ![s] = SeatFor(p)] /\ opening' = [opening EXCEPT ![o] = NotOpening]
  BY DEF Takes
<1>5. SeatFor(p) \in SeatRecord
  BY <1>2, <1>3 DEF SeatRecord
<1>6. opening' \in [Opening -> OpeningRecord] /\ seat' \in [Seat -> SeatRecord]
  BY <1>1, <1>4, <1>5, RestTyped
<1>7. OpeningsRight'
  <2>1. ASSUME NEW x \in Opening, x # o
        PROVE  /\ opening'[x] = opening[x] /\ Asked(opening[x])'
               /\ Judged(opening[x].token) => Judged(opening[x].token)'
    <3>1. opening'[x] = opening[x]
      BY <1>1, <1>4, <2>1
    <3>2. Asked(opening[x])
      BY DEF OpeningsRight
    <3> QED
      BY <3>1, <3>2 DEF Asked, Judged, IsJudged, TypeOfToken
  <2>2. opening'[o] = NotOpening
    BY <1>1, <1>4
  <2>3. Asked(NotOpening)'
    BY RestTyped DEF Asked
  <2> QED
    BY <2>1, <2>2, <2>3, RestTyped DEF OpeningsRight
<1>8. SeatsRight'
  <2>1. ASSUME NEW x \in Seat, x # s
        PROVE  seat'[x] = seat[x] /\ (Judged(seat[x].token) => Judged(seat[x].token)')
    BY <1>1, <1>4, <2>1 DEF Judged, IsJudged, TypeOfToken
  <2>2. seat'[s] = SeatFor(p)
    BY <1>1, <1>4
  <2>3. /\ seat'[s].token = p.token /\ seat'[s].from = p.token /\ seat'[s].principal = pr
        /\ seat'[s].renews = rn
    BY <1>3, <2>2
  <2>4. Judged(seat[s].token)'
    BY <2>3 DEF Judged, IsJudged, TypeOfToken
  <2>5. setting.sealed /\ ~setting.upstream /\ p.token # NoToken
        /\ issued[p.token] \in {"human", "client"} => rn
    <3>1. SUFFICES ASSUME setting.sealed, ~setting.upstream, p.token # NoToken,
                          issued[p.token] \in {"human", "client"}
                   PROVE  rn
      OBVIOUS
    <3>2. p.token \in Token /\ p.token \in BearerToken
      BY <1>2, <3>1, RestTyped DEF RecordsRight
    <3>3. CASE p.token \in mapped
      BY <1>3, <3>1, <3>2, <3>3
    <3>4. CASE p.token \notin mapped
      BY <1>3, <3>1, <3>2, <3>4 DEF Recovers, IsEnvelope
    <3> QED
      BY <3>3, <3>4
  <2>6. p.token \in OwnToken => issued[p.token] # "no"
    BY DEF Asked
  <2> QED
    BY <1>3, <2>1, <2>3, <2>4, <2>5, <2>6 DEF SeatsRight
<1> QED
  BY <1>6, <1>7, <1>8

\* initialize goes on from a request as Asked has it, having asked of the
\* validation endpoint what is not issued here.
LEMMA GoesOnKeeps ==
    ASSUME AdmissionTypeOK, RecordsRight, OpeningsRight, SeatsRight,
           NEW o \in Opening, NEW p, Asked(p), NEW calls, NEW recs \in [Token -> Principal],
           \A u \in Token : recs[u] \in {record[u], "none"},
           calls = {} => setting.upstream \/ p.read = "none" \/ p.token \in mapped,
           calls \in {{}, {"upstream"}}
              => (p.token # NoToken /\ setting.gate = "none" /\ IsJudged(p.token)
                     => p.token \in approved' \/ issued[p.token] # "no"),
           calls \in SUBSET {"judging", "env", "upstream"},
           "judging" \in calls => p.read = "none" /\ p.token # NoToken,
           "env" \in calls => p.token = NoToken,
           "upstream" \in calls => setting.upstream,
           UNCHANGED <<setting, issued>>, approved \subseteq approved',
           GoesOn(o, p, calls, recs)
    PROVE  /\ opening' \in [Opening -> OpeningRecord] /\ seat' \in [Seat -> SeatRecord]
           /\ record' \in [Token -> Principal] /\ mapped' \subseteq Token
           /\ RecordsRight' /\ OpeningsRight' /\ SeatsRight'
<1> HIDE DEF NotOpening
<1>0. /\ opening \in [Opening -> OpeningRecord] /\ seat \in [Seat -> SeatRecord]
      /\ record \in [Token -> Principal] /\ mapped \subseteq Token /\ p \in OpeningRecord
  BY AdmissionTyped DEF Asked
<1>1. CASE calls # {} /\ record' = recs /\ UNCHANGED <<mapped, seat>>
           /\ opening' = [opening EXCEPT ![o] =
                            [p EXCEPT !.at = IF calls = {"upstream"} THEN "upstream"
                                             ELSE CHOOSE c \in calls : c # "upstream"]]
  <2>1. PICK a : a = IF calls = {"upstream"} THEN "upstream"
                     ELSE CHOOSE c \in calls : c # "upstream"
    OBVIOUS
  <2>2. a \in calls /\ (a = "upstream" => calls = {"upstream"})
    BY <1>1, <2>1
  <2>3. PICK q : q = [p EXCEPT !.at = a]
    OBVIOUS
  <2>4. /\ q \in OpeningRecord /\ q.at = a /\ q.token = p.token /\ q.read = p.read
        /\ q.principal = p.principal
    BY <1>0, <2>2, <2>3 DEF OpeningRecord
  <2>5. opening' = [opening EXCEPT ![o] = q]
    BY <1>1, <2>1, <2>3
  <2>6. opening' \in [Opening -> OpeningRecord] /\ opening'[o] = q
    BY <1>0, <2>4, <2>5
  <2>7. Asked(opening[o])'
    BY <2>4, <2>6 DEF Asked
  <2>8. /\ q.at = "judging" => q.read = "none" /\ q.token # NoToken
        /\ q.at = "env" => q.token = NoToken
        /\ q.at = "upstream" => setting.upstream /\ Judged(opening[o].token)'
    BY <2>2, <2>4, <2>6 DEF Judged, IsJudged, TypeOfToken
  <2>9. ASSUME NEW x \in Opening, x # o
        PROVE  /\ opening'[x] = opening[x] /\ Asked(opening[x])'
               /\ Judged(opening[x].token) => Judged(opening[x].token)'
    <3>1. opening'[x] = opening[x]
      BY <1>0, <2>5, <2>9
    <3>2. Asked(opening[x])
      BY DEF OpeningsRight
    <3> QED
      BY <3>1, <3>2 DEF Asked, Judged, IsJudged, TypeOfToken
  <2>10. OpeningsRight'
    BY <2>6, <2>7, <2>8, <2>9 DEF OpeningsRight
  <2>11. SeatsRight'
    BY <1>1, SeatsStay DEF RecordsRight
  <2>12. RecordsRight'
    BY <1>1, RecordsFewer
  <2> QED
    BY <1>0, <1>1, <2>6, <2>10, <2>11, <2>12
<1>2. CASE calls = {} /\ OpensKnown(o, p) /\ record' = recs
  <2>1. PICK s \in Seat : Takes(o, s, p)
    BY <1>2 DEF OpensKnown
  <2>2. mapped' = mapped
    BY <1>2 DEF OpensKnown
  <2>3. RecordsRight'
    BY <1>2, <2>2, RecordsFewer
  <2> QED
    BY <1>0, <1>2, <2>1, <2>2, <2>3, Opens
<1>3. CASE calls = {} /\ OpensRecovered(o, p) /\ RecordedAtRecovery(p)
  <2>1. PICK s \in Seat : Takes(o, s, p)
    BY <1>3 DEF OpensRecovered
  <2>2. /\ mapped' = mapped \cup {p.token} /\ p.token \in Token
        /\ issued[p.token] # "no"
    BY <1>0, <1>3, RestTyped, AdmissionAssumption
       DEF OpensRecovered, Recovers, IsEnvelope, AdmissionAssumption
  <2>3. PICK who \in Principal : /\ who = SeatFor(p).principal
                                 /\ setting.consented => who # "client"
    BY <1>0 DEF SeatFor, Asked, OpeningRecord, Principal
  <2>4. /\ record' \in [Token -> Principal]
        /\ \A u \in Token \ {p.token} : record'[u] \in {record[u], "none"}
        /\ setting.consented => record'[p.token] # "client"
    <3>1. CASE who = "none"
      BY <1>0, <1>3, <2>2, <2>3, <3>1, StoreKeeps
         DEF RecordedAtRecovery, Recorded, RecordsRight, Principal
    <3>2. CASE who # "none"
      BY <1>0, <1>3, <2>2, <2>3, <3>2, StoreKeeps DEF RecordedAtRecovery
    <3> QED
      BY <3>1, <3>2
  <2>5. RecordsRight'
    BY <2>2, <2>4 DEF RecordsRight
  <2> QED
    BY <1>0, <1>3, <2>1, <2>2, <2>4, <2>5, Opens
<1>4. CASE calls = {} /\ RefusesEnvelope(o, p) /\ record' = recs
  <2>1. /\ opening' = [opening EXCEPT ![o] = NotOpening] /\ UNCHANGED <<seat, mapped>>
    BY <1>4 DEF RefusesEnvelope
  <2>2. opening' \in [Opening -> OpeningRecord]
    BY <1>0, <2>1, RestTyped
  <2>3. OpeningsRight'
    <3>1. ASSUME NEW x \in Opening, x # o
          PROVE  /\ opening'[x] = opening[x] /\ Asked(opening[x])'
                 /\ Judged(opening[x].token) => Judged(opening[x].token)'
      <4>1. opening'[x] = opening[x]
        BY <1>0, <2>1, <3>1
      <4>2. Asked(opening[x])
        BY DEF OpeningsRight
      <4> QED
        BY <4>1, <4>2 DEF Asked, Judged, IsJudged, TypeOfToken
    <3>2. opening'[o] = NotOpening
      BY <1>0, <2>1
    <3>3. Asked(opening[o])'
      BY <3>2, RestTyped DEF Asked
    <3> QED
      BY <3>1, <3>2, <3>3, RestTyped DEF OpeningsRight
  <2>4. SeatsRight'
    BY <2>1, SeatsStay DEF RecordsRight
  <2>5. RecordsRight'
    BY <1>4, <2>1, RecordsFewer
  <2> QED
    BY <1>0, <1>4, <2>1, <2>2, <2>3, <2>4, <2>5
<1> QED
  BY <1>1, <1>2, <1>3, <1>4 DEF GoesOn

LEMMA BeginStep ==
    ASSUME AdmissionInv, NEW o \in Opening, NEW t \in Presentable \cup {NoToken},
           BeginSession(o, t)
    PROVE  AdmissionInv'
<1>0. /\ AdmissionTypeOK /\ RecordsRight /\ OpeningsRight /\ SeatsRight
      /\ t \in Token \cup {NoToken}
      /\ t \in OwnToken => issued[t] # "no"
  BY RestTyped DEF AdmissionInv, Presentable
<1>1. /\ setting \in Settings /\ UNCHANGED <<setting, issued, over, approved, swaps, rebooted>>
  BY <1>0, AdmissionTyped DEF BeginSession
<1>2. PICK p : p = [ at |-> "idle", token |-> t, read |-> PrincipalOf(t),
                     principal |-> IF setting.gate = "none" THEN PrincipalOf(t)
                                   ELSE GatePrincipal(t) ]
  OBVIOUS
<1>3. GoesOn(o, p, Awaits(p), AfterRead(t))
  BY <1>2 DEF BeginSession
<1>4. /\ PrincipalOf(t) \in Principal /\ AfterRead(t) \in [Token -> Principal]
      /\ \A u \in Token : AfterRead(t)[u] \in {record[u], "none"}
      /\ PrincipalOf(t) # "none" => t \in Token /\ t \in mapped /\ issued[t] # "no"
      /\ setting.consented => PrincipalOf(t) # "client"
  BY <1>0, ReadKeeps
<1>5. p.token = t /\ p.read = PrincipalOf(t)
  BY <1>2
<1>6. Asked(p)
  <2>1. PICK q \in Principal : q = p.principal /\ (setting.consented => q # "client")
    BY <1>2, <1>4 DEF GatePrincipal, Principal
  <2>2. p = [at |-> "idle", token |-> t, read |-> PrincipalOf(t), principal |-> q]
    BY <1>2, <2>1
  <2>3. p \in OpeningRecord
    BY <1>0, <1>4, <2>2 DEF OpeningRecord
  <2> QED
    BY <1>0, <1>4, <1>5, <2>1, <2>3 DEF Asked
<1>7. /\ Awaits(p) \in SUBSET {"judging", "env", "upstream"}
      /\ "judging" \in Awaits(p) => p.read = "none" /\ p.token # NoToken
      /\ "env" \in Awaits(p) => p.token = NoToken
      /\ "upstream" \in Awaits(p) => setting.upstream
  BY DEF Awaits
<1>8. Awaits(p) \in {{}, {"upstream"}}
        => (p.token # NoToken /\ setting.gate = "none" /\ IsJudged(p.token)
              => p.token \in approved' \/ issued[p.token] # "no")
  BY <1>4, <1>5 DEF Awaits
<1>9. Awaits(p) = {} => setting.upstream \/ p.read = "none" \/ p.token \in mapped
  BY <1>4, <1>5
<1>10. PICK calls, recs : calls = Awaits(p) /\ recs = AfterRead(t)
  OBVIOUS
<1>11. /\ opening' \in [Opening -> OpeningRecord] /\ seat' \in [Seat -> SeatRecord]
       /\ record' \in [Token -> Principal] /\ mapped' \subseteq Token
       /\ RecordsRight' /\ OpeningsRight' /\ SeatsRight'
  BY <1>0, <1>1, <1>3, <1>4, <1>6, <1>7, <1>8, <1>9, <1>10, GoesOnKeeps
<1>12. AdmissionTypeOK'
  <2>1. /\ setting' \in Settings
        /\ issued' \in [Token -> {"no", "human", "client", "enterprise"}]
        /\ over' \subseteq Token /\ approved' \subseteq Token
        /\ swaps' \subseteq Seat \X Token /\ rebooted' \in BOOLEAN
    BY <1>0, <1>1, AdmissionTyped
  <2> QED
    BY <1>11, <2>1 DEF AdmissionTypeOK, OpeningRecord, SeatRecord
<1> QED
  BY <1>11, <1>12 DEF AdmissionInv

LEMMA AcceptStep ==
    ASSUME AdmissionInv, NEW o \in Opening, NEW awaited \in {"judging", "env", "upstream"},
           AwaitedAccepts(o, awaited)
    PROVE  AdmissionInv'
<1>0. AdmissionTypeOK /\ RecordsRight /\ OpeningsRight /\ SeatsRight
  BY DEF AdmissionInv
<1>1. /\ setting \in Settings /\ UNCHANGED <<setting, issued, over, swaps, rebooted>>
      /\ opening \in [Opening -> OpeningRecord] /\ record \in [Token -> Principal]
      /\ opening[o].at = awaited
      /\ approved' = IF awaited = "judging" THEN approved \cup {opening[o].token} ELSE approved
  BY <1>0, AdmissionTyped DEF AwaitedAccepts
<1>2. PICK p : p = opening[o]
  OBVIOUS
<1>3. PICK calls : calls = IF awaited = "upstream" THEN {} ELSE Awaits(p) \cap {"upstream"}
  OBVIOUS
<1>4. GoesOn(o, p, calls, record)
  BY <1>2, <1>3 DEF AwaitedAccepts
<1>5. /\ Asked(p) /\ p.at = awaited /\ p \in OpeningRecord
      /\ p.at = "judging" => p.read = "none" /\ p.token # NoToken
      /\ p.at = "env" => p.token = NoToken
      /\ p.at = "upstream" => setting.upstream /\ Judged(p.token)
  BY <1>0, <1>1, <1>2 DEF OpeningsRight
<1>6. /\ calls \in SUBSET {"judging", "env", "upstream"}
      /\ ~("judging" \in calls) /\ ~("env" \in calls)
      /\ "upstream" \in calls => setting.upstream
  BY <1>3 DEF Awaits
<1>7. p.token # NoToken /\ setting.gate = "none" /\ IsJudged(p.token)
         => p.token \in approved' \/ issued[p.token] # "no"
  BY <1>1, <1>2, <1>5 DEF Judged
<1>8. setting.upstream \/ p.read = "none" \/ p.token \in mapped
  <2>1. CASE awaited = "env"
    BY <1>5, <2>1, RestTyped DEF Asked
  <2>2. CASE awaited # "env"
    BY <1>5, <2>2
  <2> QED
    BY <2>1, <2>2
<1>9. approved \subseteq approved' /\ \A u \in Token : record[u] \in {record[u], "none"}
  BY <1>1
<1>10. PICK recs \in [Token -> Principal] : recs = record
  BY <1>1
<1>11. /\ opening' \in [Opening -> OpeningRecord] /\ seat' \in [Seat -> SeatRecord]
       /\ record' \in [Token -> Principal] /\ mapped' \subseteq Token
       /\ RecordsRight' /\ OpeningsRight' /\ SeatsRight'
  BY <1>0, <1>1, <1>4, <1>5, <1>6, <1>7, <1>8, <1>9, <1>10, GoesOnKeeps
<1>12. AdmissionTypeOK'
  <2>1. /\ setting' \in Settings
        /\ issued' \in [Token -> {"no", "human", "client", "enterprise"}]
        /\ over' \subseteq Token /\ swaps' \subseteq Seat \X Token /\ rebooted' \in BOOLEAN
    BY <1>0, <1>1, AdmissionTyped
  <2>2. approved' \subseteq Token
    <3>1. CASE awaited = "judging"
      <4>1. p.token \in Token
        BY <1>5, <3>1 DEF OpeningRecord
      <4>2. approved \subseteq Token
        BY <1>0, AdmissionTyped
      <4> QED
        BY <1>1, <1>2, <3>1, <4>1, <4>2
    <3>2. CASE awaited # "judging"
      BY <1>0, <1>1, <3>2, AdmissionTyped
    <3> QED
      BY <3>1, <3>2
  <2> QED
    BY <1>11, <2>1, <2>2 DEF AdmissionTypeOK, OpeningRecord, SeatRecord
<1> QED
  BY <1>11, <1>12 DEF AdmissionInv

\* What becomes of records, and of tokens issued and approved, disturbs nobody.
LEMMA TokenStep ==
    ASSUME AdmissionInv, NEW t \in Token,
           \/ \E who \in {"human", "client"} : IssueToken(t, who)
           \/ IssueEnterprise(t)
    PROVE  AdmissionInv'
<1>0. AdmissionTypeOK /\ RecordsRight /\ OpeningsRight /\ SeatsRight
  BY DEF AdmissionInv
<1>1. PICK who \in {"human", "client", "enterprise"} :
         /\ issued' = [issued EXCEPT ![t] = who] /\ t \in OwnToken /\ issued[t] = "no"
         /\ mapped' = mapped \cup {t}
         /\ record' = Stored(t, who) \/ (who = "client" /\ setting.consented /\ record' = record)
         /\ setting.consented => who # "client" \/ record' = record
         /\ UNCHANGED <<setting, over, approved, opening, seat, swaps, rebooted>>
  BY DEF IssueToken, IssueEnterprise, Recorded
<1>2. /\ issued' \in [Token -> {"no", "human", "client", "enterprise"}]
      /\ issued'[t] = who /\ \A u \in Token \ {t} : issued'[u] = issued[u]
  BY <1>0, <1>1, AdmissionTyped
<1>3. /\ record' \in [Token -> Principal]
      /\ \A u \in Token \ {t} : record'[u] \in {record[u], "none"}
      /\ record'[t] \in {who, record[t]}
      /\ setting.consented => record'[t] # "client"
  <2>1. CASE record' = record
    BY <1>0, <2>1, AdmissionTyped DEF RecordsRight
  <2>2. CASE record' = Stored(t, who)
    <3>1. who \in Principal
      BY DEF Principal
    <3> QED
      BY <1>0, <1>1, <2>2, <3>1, StoreKeeps DEF RecordsRight
  <2> QED
    BY <1>1, <2>1, <2>2
<1>4. RecordsRight'
  BY <1>0, <1>1, <1>2, <1>3 DEF RecordsRight
<1>5. OpeningsRight' /\ SeatsRight'
  <2>1. /\ \A u \in Token : issued[u] # "no" => issued'[u] = issued[u]
        /\ \A u \in Token : issued'[u] # "no" => u \in OwnToken
        /\ approved \subseteq approved'
    BY <1>0, <1>1, <1>2 DEF RecordsRight
  <2> QED
    BY <1>0, <1>1, <2>1, OpeningsStay, SeatsStay, RestTyped
<1>6. AdmissionTypeOK'
  BY <1>0, <1>1, <1>2, <1>3, RestTyped DEF AdmissionTypeOK
<1> QED
  BY <1>4, <1>5, <1>6 DEF AdmissionInv

\* Steps that only take records away.
LEMMA RecordStep ==
    ASSUME AdmissionInv,
           UNCHANGED <<setting, issued, mapped, approved, opening, seat, swaps, rebooted>>,
           over' \subseteq Token, record' \in [Token -> Principal],
           \A u \in Token : record'[u] \in {record[u], "none"}
    PROVE  AdmissionInv'
<1>0. AdmissionTypeOK /\ RecordsRight /\ OpeningsRight /\ SeatsRight
  BY DEF AdmissionInv
<1>1. RecordsRight'
  BY <1>0, RecordsFewer
<1>2. OpeningsRight' /\ SeatsRight'
  BY <1>0, OpeningsStay, SeatsStay, RestTyped DEF RecordsRight
<1>3. AdmissionTypeOK'
  BY <1>0 DEF AdmissionTypeOK
<1> QED
  BY <1>1, <1>2, <1>3 DEF AdmissionInv

\* A request under way ends, or a process does.
LEMMA RefuseStep ==
    ASSUME AdmissionInv, NEW o \in Opening, AwaitedRefuses(o)
    PROVE  AdmissionInv'
<1>0. /\ AdmissionTypeOK /\ RecordsRight /\ OpeningsRight /\ SeatsRight
      /\ opening \in [Opening -> OpeningRecord]
  BY AdmissionTyped DEF AdmissionInv
<1>1. /\ opening' = [opening EXCEPT ![o] = NotOpening]
      /\ UNCHANGED <<setting, issued, record, mapped, over, approved, seat, swaps, rebooted>>
  BY DEF AwaitedRefuses
<1>2. opening' \in [Opening -> OpeningRecord]
  BY <1>0, <1>1, RestTyped
<1>3. OpeningsRight'
  <2>1. ASSUME NEW x \in Opening, x # o
        PROVE  /\ opening'[x] = opening[x] /\ Asked(opening[x])'
               /\ Judged(opening[x].token) => Judged(opening[x].token)'
    <3>1. opening'[x] = opening[x]
      BY <1>0, <1>1, <2>1
    <3>2. Asked(opening[x])
      BY <1>0 DEF OpeningsRight
    <3> QED
      BY <1>1, <3>1, <3>2 DEF Asked, Judged, IsJudged, TypeOfToken
  <2>2. opening'[o] = NotOpening
    BY <1>0, <1>1
  <2>3. Asked(opening[o])'
    BY <2>2, RestTyped DEF Asked
  <2> QED
    BY <1>0, <1>1, <2>1, <2>2, <2>3, RestTyped DEF OpeningsRight
<1>4. SeatsRight'
  BY <1>0, <1>1, SeatsStay DEF RecordsRight
<1>5. RecordsRight'
  BY <1>0, <1>1, RecordsFewer, AdmissionTyped
<1>6. AdmissionTypeOK'
  BY <1>0, <1>1, <1>2 DEF AdmissionTypeOK, OpeningRecord
<1> QED
  BY <1>3, <1>4, <1>5, <1>6 DEF AdmissionInv

\* Another token is held: one that was judged, need not be, or is the first.
LEMMA HoldStep ==
    ASSUME AdmissionInv, NEW s \in Seat, NEW t \in Presentable, NEW g \in BOOLEAN,
           Holds(s, t, g), g \/ Judged(t)',
           UNCHANGED <<setting, issued, record, mapped, over, opening, rebooted>>,
           approved \subseteq approved', approved' \subseteq Token,
           swaps' \subseteq Seat \X Token
    PROVE  AdmissionInv'
<1>0. /\ AdmissionTypeOK /\ RecordsRight /\ OpeningsRight /\ SeatsRight
      /\ seat \in [Seat -> SeatRecord] /\ t \in Token
  BY AdmissionTyped DEF AdmissionInv, Presentable
<1>1. PICK r : r = seat[s]
  OBVIOUS
<1>2. PICK q : q = [r EXCEPT !.token = t, !.given = g]
  OBVIOUS
<1>3. r \in SeatRecord
  BY <1>0, <1>1
<1>4. /\ q \in SeatRecord /\ q.live = r.live /\ q.from = r.from /\ q.renews = r.renews
      /\ q.principal = r.principal /\ q.token = t /\ q.given = g
  BY <1>0, <1>2, <1>3 DEF SeatRecord
<1>5. seat' = [seat EXCEPT ![s] = q]
  BY <1>1, <1>2 DEF Holds
<1>6. seat' \in [Seat -> SeatRecord] /\ seat'[s] = q
  BY <1>0, <1>4, <1>5
<1>7. SeatsRight'
  <2>1. ASSUME NEW x \in Seat, x # s
        PROVE  seat'[x] = seat[x] /\ (Judged(seat[x].token) => Judged(seat[x].token)')
    BY <1>0, <1>5, <2>1 DEF Judged, IsJudged, TypeOfToken
  <2>2. seat'[s].given \/ Judged(seat[s].token)'
    BY <1>4, <1>6 DEF Judged, IsJudged, TypeOfToken
  <2>3. seat'[s].live =>
           /\ setting.consented => seat'[s].principal # "client"
           /\ seat'[s].from \in OwnToken => issued[seat'[s].from] # "no"
           /\ setting.sealed /\ ~setting.upstream /\ seat'[s].from # NoToken
              /\ issued[seat'[s].from] \in {"human", "client"} => seat'[s].renews
    BY <1>0, <1>1, <1>4, <1>6 DEF SeatsRight
  <2> QED
    BY <1>0, <2>1, <2>2, <2>3 DEF SeatsRight
<1>8. OpeningsRight'
  BY <1>0, OpeningsStay, RestTyped
<1>9. RecordsRight'
  BY <1>0 DEF RecordsRight
<1>10. AdmissionTypeOK'
  BY <1>0, <1>6 DEF AdmissionTypeOK, SeatRecord
<1> QED
  BY <1>7, <1>8, <1>9, <1>10 DEF AdmissionInv

LEMMA SwapStep ==
    ASSUME AdmissionInv, NEW s \in Seat, NEW t \in Presentable,
           \/ TakesFirstToken(s, t) \/ SwapUnjudged(s, t) \/ AskSwap(s, t)
           \/ SwapAccepted(s, t) \/ SwapRefused(s, t)
    PROVE  AdmissionInv'
<1>0. /\ AdmissionTypeOK /\ RecordsRight /\ OpeningsRight /\ SeatsRight
      /\ approved \subseteq Token /\ swaps \subseteq Seat \X Token /\ t \in Token
  BY AdmissionTyped DEF AdmissionInv, Presentable
<1>1. CASE TakesFirstToken(s, t)
  BY <1>0, <1>1, HoldStep DEF TakesFirstToken
<1>2. CASE SwapUnjudged(s, t)
  <2>1. Judged(t)'
    BY <1>2 DEF SwapUnjudged, Judged, IsJudged, TypeOfToken
  <2> QED
    BY <1>0, <1>2, <2>1, HoldStep DEF SwapUnjudged
<1>3. CASE SwapAccepted(s, t)
  <2>1. Judged(t)'
    BY <1>3 DEF SwapAccepted, Judged
  <2> QED
    BY <1>0, <1>3, <2>1, HoldStep DEF SwapAccepted
<1>4. CASE AskSwap(s, t) \/ SwapRefused(s, t)
  <2>1. /\ UNCHANGED <<setting, issued, record, mapped, over, approved, opening, seat, rebooted>>
        /\ swaps' \subseteq Seat \X Token
    BY <1>0, <1>4 DEF AskSwap, SwapRefused
  <2>2. AdmissionTypeOK'
    BY <1>0, <2>1 DEF AdmissionTypeOK
  <2>3. RecordsRight' /\ OpeningsRight' /\ SeatsRight'
    BY <1>0, <2>1, OpeningsStay, SeatsStay, RestTyped DEF RecordsRight
  <2> QED
    BY <2>2, <2>3 DEF AdmissionInv
<1> QED
  BY <1>1, <1>2, <1>3, <1>4

LEMMA EndStep ==
    ASSUME AdmissionInv, NEW s \in Seat, EndSeat(s)
    PROVE  AdmissionInv'
<1>0. /\ AdmissionTypeOK /\ RecordsRight /\ OpeningsRight /\ SeatsRight
      /\ record \in [Token -> Principal] /\ seat \in [Seat -> SeatRecord]
      /\ mapped \subseteq Token /\ swaps \subseteq Seat \X Token
  BY AdmissionTyped DEF AdmissionInv
<1>1. /\ seat' = [seat EXCEPT ![s] = NoSeat] /\ mapped' = mapped \ {seat[s].token}
      /\ record' = [u \in Token |-> IF u = seat[s].token THEN "none" ELSE record[u]]
      /\ swaps' = {w \in swaps : w[1] # s}
      /\ UNCHANGED <<setting, issued, over, approved, opening, rebooted>>
  BY DEF EndSeat
<1>2. RecordsRight'
  <2>1. \A u \in Token : record'[u] \in {record[u], "none"}
                         /\ (record'[u] # "none" /\ u \in mapped => u \in mapped')
    BY <1>1
  <2> QED
    BY <1>0, <1>1, <2>1, RecordsFewer
<1>3. OpeningsRight'
  BY <1>0, <1>1, OpeningsStay, RestTyped
<1>4. SeatsRight'
  <2>1. ASSUME NEW x \in Seat, x # s
        PROVE  seat'[x] = seat[x] /\ (Judged(seat[x].token) => Judged(seat[x].token)')
    BY <1>0, <1>1, <2>1 DEF Judged, IsJudged, TypeOfToken
  <2>2. ~seat'[s].live
    BY <1>0, <1>1, RestTyped
  <2> QED
    BY <1>0, <1>1, <2>1, <2>2 DEF SeatsRight
<1>5. AdmissionTypeOK'
  <2>1. seat' \in [Seat -> SeatRecord] /\ mapped' \subseteq Token /\ swaps' \subseteq Seat \X Token
    BY <1>0, <1>1, RestTyped
  <2>2. record' \in [Token -> Principal]
    BY <1>0, <1>1 DEF Principal
  <2> QED
    BY <1>0, <1>1, <2>1, <2>2 DEF AdmissionTypeOK, SeatRecord
<1> QED
  BY <1>2, <1>3, <1>4, <1>5 DEF AdmissionInv

LEMMA RebootStep ==
    ASSUME AdmissionInv, Reboot
    PROVE  AdmissionInv'
<1>0. /\ AdmissionTypeOK /\ RecordsRight
  BY DEF AdmissionInv
<1>1. /\ record' = [t \in Token |-> "none"] /\ mapped' = {} /\ swaps' = {} /\ rebooted' = TRUE
      /\ opening' = [o \in Opening |-> NotOpening] /\ seat' = [s \in Seat |-> NoSeat]
      /\ UNCHANGED <<setting, issued, over, approved>>
  BY DEF Reboot
<1>2. RecordsRight'
  BY <1>0, <1>1 DEF RecordsRight
<1>3. OpeningsRight' /\ SeatsRight'
  BY <1>1, RestTyped DEF OpeningsRight, SeatsRight, Asked
<1>4. AdmissionTypeOK'
  <2>1. record' \in [Token -> Principal]
    BY <1>1 DEF Principal
  <2>2. opening' \in [Opening -> OpeningRecord] /\ seat' \in [Seat -> SeatRecord]
    BY <1>1, RestTyped
  <2> QED
    BY <1>0, <1>1, <2>1, <2>2 DEF AdmissionTypeOK, OpeningRecord, SeatRecord
<1> QED
  BY <1>2, <1>3, <1>4 DEF AdmissionInv

LEMMA AdmissionStart == AdmissionInit => AdmissionInv
<1>1. SUFFICES ASSUME AdmissionInit PROVE AdmissionInv
  OBVIOUS
<1>2. AdmissionTypeOK
  <2>1. record \in [Token -> Principal] /\ issued \in [Token -> {"no", "human", "client", "enterprise"}]
    BY <1>1 DEF AdmissionInit, Principal
  <2>2. opening \in [Opening -> OpeningRecord] /\ seat \in [Seat -> SeatRecord]
    BY <1>1, RestTyped DEF AdmissionInit
  <2> QED
    BY <1>1, <2>1, <2>2 DEF AdmissionInit, AdmissionTypeOK, OpeningRecord, SeatRecord
<1>3. RecordsRight /\ OpeningsRight /\ SeatsRight
  BY <1>1, RestTyped DEF AdmissionInit, RecordsRight, OpeningsRight, SeatsRight, Asked
<1> QED
  BY <1>2, <1>3 DEF AdmissionInv

LEMMA AdmissionStep == AdmissionInv /\ [AdmissionNext]_admissionVars => AdmissionInv'
<1>1. SUFFICES ASSUME AdmissionInv, [AdmissionNext]_admissionVars PROVE AdmissionInv'
  OBVIOUS
<1>0. /\ AdmissionTypeOK /\ RecordsRight /\ record \in [Token -> Principal] /\ over \subseteq Token
  BY <1>1, AdmissionTyped DEF AdmissionInv
<1>2. ASSUME NEW t \in Token, NEW who \in {"human", "client"}, IssueToken(t, who)
      PROVE  AdmissionInv'
  BY <1>1, <1>2, TokenStep
<1>3. ASSUME NEW t \in Token, IssueEnterprise(t) PROVE AdmissionInv'
  BY <1>1, <1>3, TokenStep
<1>4. ASSUME NEW t \in Token, EvictOverflow(t) PROVE AdmissionInv'
  <2>1. /\ record' \in [Token -> Principal] /\ over' \subseteq Token
        /\ \A u \in Token : record'[u] \in {record[u], "none"}
    BY <1>0, <1>4 DEF EvictOverflow, Principal
  <2> QED
    BY <1>1, <1>4, <2>1, RecordStep DEF EvictOverflow
<1>5. ASSUME NEW t \in Token, Overdue(t) PROVE AdmissionInv'
  <2>1. /\ record' \in [Token -> Principal] /\ over' \subseteq Token
        /\ \A u \in Token : record'[u] \in {record[u], "none"}
    BY <1>0, <1>5 DEF Overdue
  <2> QED
    BY <1>1, <1>5, <2>1, RecordStep DEF Overdue
<1>6. ASSUME NEW t \in Presentable \cup {NoToken}, RefuseSession(t) PROVE AdmissionInv'
  <2>1. /\ record' \in [Token -> Principal] /\ over' \subseteq Token
        /\ \A u \in Token : record'[u] \in {record[u], "none"}
    BY <1>0, <1>6, ReadKeeps DEF RefuseSession, Presentable
  <2> QED
    BY <1>1, <1>6, <2>1, RecordStep DEF RefuseSession
<1>7. ASSUME NEW t \in Presentable \cup {NoToken}, NEW o \in Opening, BeginSession(o, t)
      PROVE  AdmissionInv'
  BY <1>1, <1>7, BeginStep
<1>8. ASSUME NEW o \in Opening, AwaitedRefuses(o) PROVE AdmissionInv'
  BY <1>1, <1>8, RefuseStep
<1>9. ASSUME NEW o \in Opening, NEW awaited \in {"judging", "env", "upstream"},
             AwaitedAccepts(o, awaited)
      PROVE  AdmissionInv'
  BY <1>1, <1>9, AcceptStep
<1>10. ASSUME NEW s \in Seat, NEW t \in Presentable,
              \/ TakesFirstToken(s, t) \/ SwapUnjudged(s, t) \/ AskSwap(s, t)
              \/ SwapAccepted(s, t) \/ SwapRefused(s, t)
       PROVE  AdmissionInv'
  BY <1>1, <1>10, SwapStep
<1>11. ASSUME NEW s \in Seat, EndSeat(s) PROVE AdmissionInv'
  BY <1>1, <1>11, EndStep
<1>12. CASE Reboot
  BY <1>1, <1>12, RebootStep
<1>13. CASE UNCHANGED admissionVars
  BY <1>1, <1>13 DEF admissionVars, AdmissionInv, AdmissionTypeOK, RecordsRight, OpeningsRight,
     SeatsRight, Asked, Judged, IsJudged, TypeOfToken
<1> QED
  BY <1>1, <1>2, <1>3, <1>4, <1>5, <1>6, <1>7, <1>8, <1>9, <1>10, <1>11, <1>12, <1>13
     DEF AdmissionNext

LEMMA AdmissionHolds == AdmissionSpec => []AdmissionInv
BY AdmissionStart, AdmissionStep, PTL DEF AdmissionSpec

LEMMA SeatsAdmitted == AdmissionInv => AdmittedRight
<1>1. SUFFICES ASSUME AdmissionInv PROVE AdmittedRight
  OBVIOUS
<1>2. SeatsRight /\ RecordsRight /\ seat \in [Seat -> SeatRecord]
  BY <1>1, AdmissionTyped DEF AdmissionInv
<1>3. HeldWasJudged
  BY <1>2 DEF SeatsRight, HeldWasJudged, Judged
<1>4. ConsentNeedsSubject
  BY <1>2 DEF SeatsRight, ConsentNeedsSubject
<1>5. RenewalKept
  BY <1>2 DEF SeatsRight, RenewalKept
<1> QED
  BY <1>3, <1>4, <1>5 DEF AdmittedRight

\* For every setting of the profile, any number of tokens, sessions and requests:
\* a session holds a token that was judged where its kind is, works for a person
\* where consent is required, and can renew a token of this server (handlePost).
THEOREM AdmissionRight == AdmissionSpec => []AdmittedRight
BY AdmissionHolds, SeatsAdmitted, PTL

-----------------------------------------------------------------------------
(* Which browsers may speak: a host is matched by the patterns it belongs to,
   a range of no bits aside, and what the caches hold comes from contexts that
   have loaded. *)

\* A sequence ends in another just if the other begins at a position of it.
LEMMA SuffixIsEnd ==
    ASSUME NEW s \in Seq(STRING), NEW t \in Seq(STRING), s # <<>>
    PROVE  IsSuffix(s, t) <=> \E i \in DOMAIN t : SubSeq(t, i, Len(t)) = s
<1> DEFINE m == Len(s)
           n == Len(t)
<1>1. m \in Nat \ {0} /\ n \in Nat
  OBVIOUS
<1>2. /\ Reverse(s) = [i \in 1 .. m |-> s[(m - i) + 1]]
      /\ Reverse(t) = [i \in 1 .. n |-> t[(n - i) + 1]]
  BY DEF Reverse
<1>3. Len(Reverse(s)) = m /\ Len(Reverse(t)) = n
  BY <1>1, <1>2
<1>4. ASSUME IsSuffix(s, t) PROVE \E i \in DOMAIN t : SubSeq(t, i, Len(t)) = s
  <2>1. m <= n /\ SubSeq(Reverse(s), 1, m) = SubSeq(Reverse(t), 1, m)
    BY <1>3, <1>4 DEF IsSuffix, IsPrefix
  <2>2. ASSUME NEW i \in 1 .. m PROVE s[(m - i) + 1] = t[(n - i) + 1]
    <3>1. SubSeq(Reverse(s), 1, m)[i] = Reverse(s)[i] /\ SubSeq(Reverse(t), 1, m)[i] = Reverse(t)[i]
      BY <1>1, <1>3, <2>1
    <3>2. Reverse(s)[i] = s[(m - i) + 1] /\ Reverse(t)[i] = t[(n - i) + 1]
      BY <1>1, <1>2, <2>1
    <3> QED BY <2>1, <3>1, <3>2
  <2>3. ASSUME NEW k \in 1 .. m PROVE s[k] = t[(n - m) + k]
    <3>1. (m - k) + 1 \in 1 .. m
      BY <1>1
    <3>2. (m - ((m - k) + 1)) + 1 = k /\ (n - ((m - k) + 1)) + 1 = (n - m) + k
      BY <1>1
    <3> QED BY <2>2, <3>1, <3>2
  <2>4. (n - m) + 1 \in DOMAIN t
    BY <1>1, <2>1
  <2>5. SubSeq(t, (n - m) + 1, n) = s
    BY <1>1, <2>1, <2>3
  <2> QED BY <2>4, <2>5
<1>5. ASSUME NEW j \in DOMAIN t, SubSeq(t, j, Len(t)) = s PROVE IsSuffix(s, t)
  <2>1. j \in 1 .. n /\ m = (n - j) + 1 /\ m <= n
    <3>1. j \in 1 .. n
      OBVIOUS
    <3>2. Len(SubSeq(t, j, n)) = (n - j) + 1
      BY <1>1, <3>1
    <3> QED BY <1>1, <1>5, <3>1, <3>2
  <2>2. ASSUME NEW k \in 1 .. m PROVE s[k] = t[(j + k) - 1]
    <3>1. SubSeq(t, j, n)[k] = t[(j + k) - 1]
      BY <1>1, <2>1
    <3> QED BY <1>5, <3>1
  <2>3. ASSUME NEW i \in 1 .. m PROVE Reverse(s)[i] = Reverse(t)[i]
    <3>1. (m - i) + 1 \in 1 .. m /\ (j + ((m - i) + 1)) - 1 = (n - i) + 1
      BY <1>1, <2>1
    <3>2. s[(m - i) + 1] = t[(j + ((m - i) + 1)) - 1]
      BY ONLY <2>2, <3>1
    <3>3. s[(m - i) + 1] = t[(n - i) + 1]
      BY ONLY <3>1, <3>2
    <3>4. Reverse(s)[i] = s[(m - i) + 1] /\ Reverse(t)[i] = t[(n - i) + 1]
      BY <1>1, <1>2, <2>1
    <3> QED BY <3>3, <3>4
  <2>4. SubSeq(Reverse(s), 1, m) = [i \in 1 .. m |-> Reverse(s)[i]]
    BY <1>1, <1>2, <1>3
  <2>5. SubSeq(Reverse(t), 1, m) = [i \in 1 .. m |-> Reverse(t)[i]]
    BY <1>1, <1>2, <1>3, <2>1
  <2>6. SubSeq(Reverse(s), 1, m) = SubSeq(Reverse(t), 1, m)
    BY <2>3, <2>4, <2>5
  <2> QED BY <1>3, <2>1, <2>6 DEF IsSuffix, IsPrefix
<1> QED BY <1>4, <1>5

\* The mask of a range keeps the range's bits, unless it is a mask of none.
LEMMA MaskIsPrefix ==
    ASSUME Width \in Nat \ {0}, NEW bits \in 1 .. Width, NEW version
    PROVE  Mask(version, bits) = 1 .. bits
<1>1. (Width - bits) % Width = Width - bits
  OBVIOUS
<1> QED BY <1>1 DEF Mask

\* Sequences agree up to a position just if their beginnings are one.
LEMMA SameBeginning ==
    ASSUME NEW s \in Seq(STRING), NEW t \in Seq(STRING), NEW n \in Nat
    PROVE  SubSeq(s, 1, n) = SubSeq(t, 1, n) <=> \A i \in 1 .. n : s[i] = t[i]
<1>1. /\ SubSeq(s, 1, n) = [i \in 1 .. n |-> s[i]]
      /\ SubSeq(t, 1, n) = [i \in 1 .. n |-> t[i]]
  OBVIOUS
<1> QED BY <1>1

\* A pattern matches the hosts that belong to it.
LEMMA MatchedBelongs ==
    ASSUME Width \in Nat \ {0}, NEW h \in Host, NEW p, HostPattern(p)
    PROVE  /\ MatchRedirectHost(h, p) =>
                Belongs(h, p) /\ (p.kind = "range" => p.bits \in 0 .. Width)
           /\ Belongs(h, p) /\ (p.kind = "range" => p.bits \in 1 .. Width) =>
                MatchRedirectHost(h, p)
<1>1. /\ p.kind \in {"exact", "under", "range"} /\ p.host \in Host
      /\ h.is \in Seq(STRING) /\ p.host.is \in Seq(STRING) /\ p.host.is # <<>>
  BY DEF HostPattern, Host
<1>2. CASE p.kind = "exact"
  BY <1>2 DEF MatchRedirectHost, Belongs
<1>3. CASE p.kind = "under"
  <2>1. IsSuffix(p.host.is, h.is) <=> \E i \in DOMAIN h.is : SubSeq(h.is, i, Len(h.is)) = p.host.is
    BY <1>1, SuffixIsEnd
  <2> QED BY <1>3, <2>1 DEF MatchRedirectHost, Belongs
<1>4. CASE p.kind = "range"
  <2>1. p.bits \in 1 .. Width => Mask(h.kind, p.bits) = 1 .. p.bits
    BY MaskIsPrefix
  <2>2. p.bits \in 0 .. Width =>
          (SubSeq(h.is, 1, p.bits) = SubSeq(p.host.is, 1, p.bits)
             <=> \A i \in 1 .. p.bits : h.is[i] = p.host.is[i])
    BY <1>1, SameBeginning
  <2>3. ASSUME MatchRedirectHost(h, p) PROVE Belongs(h, p) /\ p.bits \in 0 .. Width
    <3>1. MatchCIDR(h, p.host, p.bits)
      BY <1>4, <2>3 DEF MatchRedirectHost
    <3>2. /\ h.kind = p.host.kind /\ h.kind \in {"v4", "v6"} /\ p.bits \in 0 .. Width
          /\ \A i \in Mask(h.kind, p.bits) : h.is[i] = p.host.is[i]
      BY <3>1 DEF MatchCIDR
    <3>3. \A i \in 1 .. p.bits : h.is[i] = p.host.is[i]
      BY <2>1, <3>2
    <3> QED BY <1>4, <2>2, <3>2, <3>3 DEF Belongs
  <2>4. ASSUME Belongs(h, p), p.bits \in 1 .. Width PROVE MatchRedirectHost(h, p)
    <3>1. /\ h.kind = p.host.kind /\ h.kind \in {"v4", "v6"}
          /\ SubSeq(h.is, 1, p.bits) = SubSeq(p.host.is, 1, p.bits)
      BY <1>4, <2>4 DEF Belongs
    <3>2. \A i \in Mask(h.kind, p.bits) : h.is[i] = p.host.is[i]
      BY <2>1, <2>2, <2>4, <3>1
    <3> QED BY <1>4, <2>4, <3>1, <3>2 DEF MatchRedirectHost, MatchCIDR
  <2> QED BY <1>4, <2>3, <2>4
<1> QED BY <1>1, <1>2, <1>3, <1>4

\* What the promise of each profile's server means for what is kept of it, and how
\* far each request is.
RequestOK(c) ==
    LET r == check[c] IN
    /\ r.at \in {"priming", "primed"} =>
         deployed.routing /\ r.of \in Profile /\ r.origin \in Origin
    /\ r.at = "primed" => cached[r.of] # Uncached \/ promise[r.of] = "failed"
    /\ r.at \in {"priming", "primed", "admitted"} => r.key \in ClientKey
    /\ r.at = "opening" => r.of \in Profile
    /\ r.at = "refused" => r.origin \in Origin
ContextsOK ==
    /\ \A p \in running : promise[p] = "ready"
    /\ \A p \in Profile : cached[p] # Uncached => promise[p] = "ready" /\ deployed.routing
OriginInv == OriginTypeOK /\ ContextsOK /\ (\A c \in Browsing : RequestOK(c)) /\ OriginsJudged

\* The look at the origin tells the hosts of the configuration and of the contexts
\* that have loaded from the others.
Loaded(h) == \E p \in Profile : promise[p] = "ready" /\ h \in RedirectHosts(p)
LEMMA AllowedIsKnown ==
    ASSUME OriginTypeOK, ContextsOK, NEW h \in Host
    PROVE  /\ IsAllowedOrigin(h) => Configured(h, 0) \/ Loaded(h)
           /\ Configured(h, 1) => IsAllowedOrigin(h)
           /\ \A p \in Profile : cached[p] # Uncached /\ h \in RedirectHosts(p) => IsAllowedOrigin(h)
<1>1. /\ Width \in Nat \ {0} /\ \A p \in deployed.allowed : HostPattern(p)
  BY OriginAssumption DEF OriginTypeOK
<1>2. \A p \in deployed.allowed :
        /\ MatchOrigin(h, p) => Belongs(h, p) /\ (p.kind = "range" => p.bits \in 0 .. Width)
        /\ Belongs(h, p) /\ (p.kind = "range" => p.bits \in 1 .. Width) => MatchOrigin(h, p)
  BY <1>1, MatchedBelongs DEF MatchOrigin
<1>3. ASSUME NEW g PROVE MatchOrigin(h, [kind |-> "exact", host |-> g]) <=> h = g
  BY DEF MatchOrigin, MatchRedirectHost
<1>4. \A g \in RedirectHostPatterns : g \in deployed.redirects \/ Loaded(g)
  BY DEF RedirectHostPatterns, Loaded, OriginTypeOK, ContextsOK
<1>5. \A p \in Profile : cached[p] # Uncached => RedirectHosts(p) \subseteq RedirectHostPatterns
  BY DEF RedirectHostPatterns, OriginTypeOK
<1>6. deployed.redirects \subseteq RedirectHostPatterns
  BY DEF RedirectHostPatterns
<1>7. IsAllowedOrigin(h) => Configured(h, 0) \/ Loaded(h)
  BY <1>2, <1>3, <1>4 DEF IsAllowedOrigin, Configured
<1>8. Configured(h, 1) => IsAllowedOrigin(h)
  BY <1>2, <1>3, <1>6 DEF IsAllowedOrigin, Configured
<1>9. \A p \in Profile : cached[p] # Uncached /\ h \in RedirectHosts(p) => IsAllowedOrigin(h)
  BY <1>3, <1>5 DEF IsAllowedOrigin
<1> QED BY <1>7, <1>8, <1>9

LEMMA ProfilesTyped ==
    ASSUME OriginTypeOK, NEW k \in ClientKey, NEW names \in Profile \cup {NoProfile, Unresolved},
           NEW endpoint, MayAsk(endpoint, names)
    PROVE  /\ ProfileToCheck(HintsAfter(k, endpoint, names), k, names) \in Profile \cup {NoProfile}
           /\ HintsAfter(k, endpoint, names) \in [ClientKey -> HintRecord]
<1>1. deployed.default \in Profile \cup {NoProfile}
  BY OriginAssumption DEF OriginTypeOK
<1>2. HintsAfter(k, endpoint, names) \in [ClientKey -> HintRecord]
  BY DEF HintsAfter, Hinted, MayAsk, OriginTypeOK, HintRecord
<1>3. LiveHint(HintsAfter(k, endpoint, names), k) \in Profile \cup {NoProfile}
  BY <1>2 DEF LiveHint, HintRecord
<1> QED BY <1>1, <1>2, <1>3 DEF ProfileToCheck

LEMMA OriginsStart == OriginInit => OriginInv
<1> SUFFICES ASSUME OriginInit PROVE OriginInv
  OBVIOUS
<1>1. OriginTypeOK
  BY OriginAssumption DEF OriginInit, OriginTypeOK, NoHint, NotBrowsing, HintRecord, BrowsingRecord
<1>2. ContextsOK
  BY DEF OriginInit, ContextsOK
<1>3. \A c \in Browsing : check[c].at = "idle"
  BY DEF OriginInit, NotBrowsing
<1> QED BY <1>1, <1>2, <1>3 DEF OriginInv, RequestOK, OriginsJudged

\* What OriginsJudged says of one request.
JudgedRight(c) ==
    LET r == check[c] IN
    /\ r.at \in {"admitted", "opening"} /\ r.origin # NoOrigin => Configured(r.origin, 0) \/ Loaded(r.origin)
    /\ r.at = "refused" =>
         /\ ~Configured(r.origin, 1)
         /\ deployed.routing /\ r.of # NoProfile /\ r.origin \in RedirectHosts(r.of) => promise[r.of] = "failed"
LEMMA RightOneByOne == OriginsJudged <=> \A c \in Browsing : JudgedRight(c)
BY DEF OriginsJudged, JudgedRight, Loaded

\* Contexts that are ready or failed stay so, and what is kept of them: a request
\* that does not move remains right.
Settled ==
    /\ deployed' = deployed
    /\ \A p \in Profile : promise[p] \in {"ready", "failed"} => promise'[p] = promise[p]
    /\ \A p \in Profile : cached[p] # Uncached => cached'[p] = cached[p]
LEMMA OthersStay ==
    ASSUME OriginTypeOK, Settled, NEW c \in Browsing, RequestOK(c), JudgedRight(c), check'[c] = check[c]
    PROVE  RequestOK(c)' /\ JudgedRight(c)'
<1>1. \A h, n : Configured(h, n)' <=> Configured(h, n)
  BY DEF Settled, Configured
<1>2. \A p : RedirectHosts(p)' = RedirectHosts(p)
  BY DEF Settled, RedirectHosts
<1>3. \A h : Loaded(h) => Loaded(h)'
  BY <1>2 DEF Loaded, Settled
<1>4. check[c].of \in Profile \cup {NoProfile}
  BY DEF OriginTypeOK, BrowsingRecord
<1>5. RequestOK(c)'
  BY <1>4 DEF RequestOK, Settled
<1>6. JudgedRight(c)'
  BY <1>1, <1>2, <1>3, <1>4 DEF JudgedRight, Settled
<1> QED BY <1>5, <1>6

\* A request arrives; a context it has to wait for is asked for.
LEMMA ArrivalKeeps ==
    ASSUME OriginInv, NEW c \in Browsing, NEW k \in ClientKey, NEW endpoint \in {"profile", "metadata", "root"},
           NEW names \in Profile \cup {NoProfile, Unresolved}, NEW origin \in Origin \cup {NoOrigin},
           \/ ArriveAllowed(c, k, endpoint, names, origin)
           \/ ArriveRefused(c, k, endpoint, names, origin)
           \/ ArriveAsking(c, k, endpoint, names, origin)
    PROVE  OriginInv'
<1> DEFINE of == ProfileToCheck(HintsAfter(k, endpoint, names), k, names)
           hints == [ClientKey -> HintRecord]
<1> USE DEF OriginInv
<1>1. MayAsk(endpoint, names) /\ UNCHANGED <<deployed, cached, running>>
  BY DEF ArriveAllowed, ArriveRefused, ArriveAsking, Arrives
<1>2. of \in Profile \cup {NoProfile} /\ HintsAfter(k, endpoint, names) \in hints
  BY <1>1, ProfilesTyped
<1>3. hint' \in hints
  <2>1. hint \in hints /\ NoHint \in HintRecord
    BY DEF OriginTypeOK, NoHint, HintRecord
  <2>2. [hint EXCEPT ![k] = NoHint] \in hints
    BY <2>1
  <2>3. hint' \in {hint, [hint EXCEPT ![k] = NoHint], HintsAfter(k, endpoint, names)}
    BY DEF ArriveAllowed, ArriveRefused, ArriveAsking
  <2> QED BY <1>2, <2>1, <2>2, <2>3
<1>4. /\ promise' \in [Profile -> {"none", "creating", "ready", "failed"}]
      /\ \A p \in Profile : promise[p] \in {"ready", "failed"} => promise'[p] = promise[p]
  BY <1>2 DEF ArriveAllowed, ArriveRefused, ArriveAsking, LoadContext, OriginTypeOK
<1>5. PICK at \in {"admitted", "refused", "priming", "primed"} :
        check' = [check EXCEPT ![c] = [ at |-> at, of |-> of, origin |-> origin, key |-> k,
                                        endpoint |-> endpoint, names |-> names ]]
  BY DEF ArriveAllowed, ArriveRefused, ArriveAsking, Arrives
<1>6. OriginTypeOK'
  <2>1. \A p : RedirectHosts(p)' = RedirectHosts(p)
    BY <1>1 DEF RedirectHosts
  <2>2. check' \in [Browsing -> BrowsingRecord]
    BY <1>2, <1>5 DEF OriginTypeOK, BrowsingRecord
  <2> QED BY <1>1, <1>3, <1>4, <2>1, <2>2 DEF OriginTypeOK
<1>7. ContextsOK'
  BY <1>1, <1>4 DEF ContextsOK, OriginTypeOK
<1>8. Settled
  BY <1>1, <1>4 DEF Settled
<1>9. check[c].at = "idle"
  BY DEF ArriveAllowed, ArriveRefused, ArriveAsking, Arrives
<1>10. check'[c].at = at /\ check'[c].of = of /\ check'[c].origin = origin /\ check'[c].key = k
  BY <1>5 DEF OriginTypeOK
<1>11. \A h, n : Configured(h, n)' <=> Configured(h, n)
  BY <1>1 DEF Configured
<1>12. \A h : Loaded(h) => Loaded(h)'
  BY <1>1, <1>4 DEF Loaded, RedirectHosts
<1>13. origin # NoOrigin => origin \in Origin /\ origin \in Host
  BY OriginAssumption
<1>14. RequestOK(c)' /\ JudgedRight(c)'
  <2>1. CASE ArriveAllowed(c, k, endpoint, names, origin)
    <3>1. check'[c].at = "admitted" /\ (origin # NoOrigin => IsAllowedOrigin(origin))
      BY <2>1 DEF ArriveAllowed, Arrives, OriginTypeOK
    <3>2. origin # NoOrigin => Configured(origin, 0)' \/ Loaded(origin)'
      BY <1>11, <1>12, <1>13, <3>1, AllowedIsKnown
    <3> QED BY <1>10, <3>1, <3>2 DEF RequestOK, JudgedRight
  <2>2. CASE ArriveRefused(c, k, endpoint, names, origin)
    <3>1. /\ check'[c].at = "refused" /\ origin \in Origin /\ ~IsAllowedOrigin(origin)
          /\ ~deployed.routing \/ of = NoProfile
      BY <2>2, <1>13 DEF ArriveRefused, Arrives, OriginTypeOK
    <3>2. ~Configured(origin, 1)'
      BY <1>11, <1>13, <3>1, AllowedIsKnown, OriginAssumption
    <3> QED BY <1>1, <1>10, <3>1, <3>2 DEF RequestOK, JudgedRight
  <2>3. CASE ArriveAsking(c, k, endpoint, names, origin)
    <3>1. /\ check'[c].at \in {"priming", "primed"} /\ origin \in Origin
          /\ deployed.routing /\ of \in Profile
          /\ check'[c].at = "primed" => cached[of] # Uncached
      BY <2>3, <1>2, <1>13 DEF ArriveAsking, Arrives, OriginTypeOK
    <3> QED BY <1>1, <1>10, <3>1 DEF RequestOK, JudgedRight
  <2> QED BY <2>1, <2>2, <2>3
<1>15. ASSUME NEW d \in Browsing, d # c PROVE RequestOK(d)' /\ JudgedRight(d)'
  <2>1. check'[d] = check[d]
    BY <1>5, <1>15 DEF OriginTypeOK
  <2> QED BY <1>8, <2>1, RightOneByOne, OthersStay
<1>16. OriginsJudged'
  <2>1. \A d \in Browsing : JudgedRight(d)'
    BY <1>14, <1>15
  <2> QED BY <2>1 DEF OriginsJudged, JudgedRight, Loaded
<1> QED BY <1>6, <1>7, <1>14, <1>15, <1>16

\* Any step keeps the invariant.
LEMMA OriginsStep == OriginInv /\ [OriginNext]_originVars => OriginInv'
<1> SUFFICES ASSUME OriginInv, [OriginNext]_originVars PROVE OriginInv'
  OBVIOUS
<1>0. OriginTypeOK /\ ContextsOK /\ OriginsJudged /\ \A c \in Browsing : RequestOK(c) /\ JudgedRight(c)
  BY RightOneByOne DEF OriginInv
<1>1. ASSUME OriginTypeOK', ContextsOK', \A c \in Browsing : RequestOK(c)' /\ JudgedRight(c)' PROVE OriginInv'
  <2>1. OriginsJudged'
    BY <1>1 DEF OriginsJudged, JudgedRight, Loaded
  <2> QED BY <1>1, <2>1 DEF OriginInv
<1>2. ASSUME Settled, NEW c \in Browsing, check'[c] = check[c] PROVE RequestOK(c)' /\ JudgedRight(c)'
  BY <1>0, <1>2, OthersStay
<1>3. ASSUME NEW c \in Browsing, NEW k \in ClientKey, NEW endpoint \in {"profile", "metadata", "root"},
             NEW names \in Profile \cup {NoProfile, Unresolved}, NEW origin \in Origin \cup {NoOrigin},
             \/ ArriveAllowed(c, k, endpoint, names, origin)
             \/ ArriveRefused(c, k, endpoint, names, origin)
             \/ ArriveAsking(c, k, endpoint, names, origin)
      PROVE  OriginInv'
  BY <1>3, ArrivalKeeps
<1>4. ASSUME NEW c \in Browsing, PrimeOAuthRedirectHosts(c) PROVE OriginInv'
  <2> DEFINE p == check[c].of
  <2>1. /\ check[c].at = "priming" /\ promise[p] \in {"ready", "failed"} /\ p \in Profile /\ deployed.routing
        /\ check' = [check EXCEPT ![c].at = "primed"]
        /\ cached' = IF promise[p] = "ready" THEN [cached EXCEPT ![p] = RedirectHosts(p)] ELSE cached
        /\ UNCHANGED <<deployed, promise, running, hint>>
    BY <1>0, <1>4 DEF PrimeOAuthRedirectHosts, RequestOK
  <2>2. RedirectHosts(p) # Uncached /\ \A q : RedirectHosts(q)' = RedirectHosts(q)
    BY <2>1, OriginAssumption DEF RedirectHosts
  <2>3. Settled
    BY <1>0, <2>1 DEF Settled, OriginTypeOK
  <2>4. OriginTypeOK'
    <3>1. check' \in [Browsing -> BrowsingRecord]
      <4>1. check[c] \in BrowsingRecord /\ [check[c] EXCEPT !.at = "primed"] \in BrowsingRecord
        BY <1>0 DEF OriginTypeOK, BrowsingRecord
      <4>2. check' = [check EXCEPT ![c] = [check[c] EXCEPT !.at = "primed"]]
        BY <1>0, <2>1 DEF OriginTypeOK
      <4> QED BY <1>0, <4>1, <4>2 DEF OriginTypeOK
    <3>2. DOMAIN cached' = Profile /\ \A q \in Profile : cached'[q] \in {Uncached, RedirectHosts(q)'}
      BY <1>0, <2>1, <2>2 DEF OriginTypeOK
    <3> QED BY <1>0, <2>1, <3>1, <3>2 DEF OriginTypeOK
  <2>5. ContextsOK'
    BY <1>0, <2>1 DEF ContextsOK, OriginTypeOK
  <2>6. check'[c] = [check[c] EXCEPT !.at = "primed"]
    BY <1>0, <2>1 DEF OriginTypeOK, BrowsingRecord
  <2>7. cached'[p] # Uncached \/ promise'[p] = "failed"
    BY <1>0, <2>1, <2>2 DEF OriginTypeOK
  <2>8. RequestOK(c)' /\ JudgedRight(c)'
    BY <1>0, <2>1, <2>6, <2>7 DEF RequestOK, JudgedRight, OriginTypeOK, BrowsingRecord
  <2>9. ASSUME NEW d \in Browsing, d # c PROVE RequestOK(d)' /\ JudgedRight(d)'
    <3>1. check'[d] = check[d]
      BY <1>0, <2>1, <2>9 DEF OriginTypeOK
    <3> QED BY <1>2, <2>3, <3>1
  <2> QED BY <1>1, <2>4, <2>5, <2>8, <2>9
<1>5. ASSUME NEW c \in Browsing,
             \/ LookAgain(c) \/ Route(c) \/ GetProfileState(c) \/ RefusalSent(c)
      PROVE  OriginInv'
  <2> DEFINE r == check[c]
  <2>1. UNCHANGED <<deployed, cached>>
    BY <1>5 DEF LookAgain, Route, GetProfileState, RefusalSent
  <2>2. \A p : RedirectHosts(p)' = RedirectHosts(p)
    BY <2>1 DEF RedirectHosts
  <2>3. Route(c) => r.key \in ClientKey /\ ProfileToServe(r) \in Profile \cup {NoProfile}
    <3>1. SUFFICES ASSUME Route(c) PROVE r.key \in ClientKey /\ ProfileToServe(r) \in Profile \cup {NoProfile}
      OBVIOUS
    <3>2. r.key \in ClientKey /\ r.names \in Profile \cup {NoProfile, Unresolved}
      BY <1>0, <3>1 DEF Route, RequestOK, OriginTypeOK, BrowsingRecord
    <3>3. LiveHint(hint, r.key) \in Profile \cup {NoProfile}
      BY <1>0, <3>2 DEF LiveHint, OriginTypeOK, HintRecord
    <3>4. deployed.default \in Profile \cup {NoProfile}
      BY <1>0, OriginAssumption DEF OriginTypeOK
    <3> QED BY <3>2, <3>3, <3>4 DEF ProfileToServe
  <2>4. /\ promise' \in [Profile -> {"none", "creating", "ready", "failed"}]
        /\ \A p \in Profile : promise[p] \in {"ready", "failed"} => promise'[p] = promise[p]
    BY <1>0, <1>5, <2>3 DEF LookAgain, Route, GetProfileState, RefusalSent, LoadContext, OriginTypeOK
  <2>5. hint' \in [ClientKey -> HintRecord]
    <3> DEFINE hints == [ClientKey -> HintRecord]
    <3>1. hint \in hints /\ NoHint \in HintRecord
      BY <1>0 DEF OriginTypeOK, NoHint, HintRecord
    <3>2. [hint EXCEPT ![r.key] = NoHint] \in hints
      BY <3>1
    <3>3. r.names \in Profile => Hinted(r.key, r.names) \in hints
      BY <3>1 DEF Hinted, HintRecord
    <3>4. \/ hint' = hint \/ hint' = [hint EXCEPT ![r.key] = NoHint]
          \/ r.names \in Profile /\ hint' = Hinted(r.key, r.names)
      BY <1>5 DEF LookAgain, Route, GetProfileState, RefusalSent
    <3> QED BY <3>1, <3>2, <3>3, <3>4
  <2>6. running' \subseteq Profile /\ \A p \in running' : promise'[p] = "ready"
    <3>1. CASE GetProfileState(c)
      <4>1. r.of \in Profile
        BY <1>0, <3>1 DEF GetProfileState, RequestOK
      <4> QED BY <1>0, <3>1, <4>1 DEF GetProfileState, ContextsOK, OriginTypeOK
    <3>2. CASE running' = running
      BY <1>0, <2>4, <3>2 DEF ContextsOK, OriginTypeOK
    <3> QED BY <1>5, <3>1, <3>2 DEF LookAgain, Route, RefusalSent
  <2>7. PICK after : /\ check' = [check EXCEPT ![c] = after]
                     /\ \/ after = NotBrowsing
                        \/ /\ Route(c) /\ ProfileToServe(r) # NoProfile
                           /\ after = [NotBrowsing EXCEPT !.at = "opening", !.of = ProfileToServe(r), !.origin = r.origin]
                        \/ LookAgain(c) /\ IsAllowedOrigin(r.origin) /\ after = [r EXCEPT !.at = "admitted"]
                        \/ /\ LookAgain(c) /\ ~IsAllowedOrigin(r.origin)
                           /\ after = [NotBrowsing EXCEPT !.at = "refused", !.of = r.of, !.origin = r.origin]
    BY <1>5 DEF LookAgain, Route, GetProfileState, RefusalSent
  <2>8. after \in BrowsingRecord
    <3>1. r \in BrowsingRecord /\ NotBrowsing \in BrowsingRecord
      BY <1>0 DEF NotBrowsing, OriginTypeOK, BrowsingRecord
    <3>2. /\ [r EXCEPT !.at = "admitted"] \in BrowsingRecord
          /\ [NotBrowsing EXCEPT !.at = "refused", !.of = r.of, !.origin = r.origin] \in BrowsingRecord
          /\ ProfileToServe(r) \in Profile \cup {NoProfile} =>
               [NotBrowsing EXCEPT !.at = "opening", !.of = ProfileToServe(r), !.origin = r.origin] \in BrowsingRecord
      BY <3>1 DEF BrowsingRecord
    <3> QED BY <2>3, <2>7, <3>1, <3>2
  <2>9. OriginTypeOK'
    BY <1>0, <2>1, <2>2, <2>4, <2>5, <2>6, <2>7, <2>8 DEF OriginTypeOK
  <2>10. ContextsOK'
    BY <1>0, <2>1, <2>4, <2>6 DEF ContextsOK, OriginTypeOK
  <2>11. Settled
    BY <2>1, <2>4 DEF Settled
  <2>12. check'[c] = after
    BY <1>0, <2>7 DEF OriginTypeOK
  <2>13. /\ \A h, n : Configured(h, n)' <=> Configured(h, n)
         /\ \A h : Loaded(h) => Loaded(h)'
    BY <2>1, <2>2, <2>4 DEF Configured, Loaded
  <2>14. LookAgain(c) => /\ r.origin \in Origin /\ r.origin \in Host /\ r.of \in Profile
                         /\ cached[r.of] # Uncached \/ promise[r.of] = "failed"
    BY <1>0, OriginAssumption DEF LookAgain, RequestOK
  <2>15. RequestOK(c)' /\ JudgedRight(c)'
    <3>1. CASE after = NotBrowsing
      BY <2>12, <3>1 DEF RequestOK, JudgedRight, NotBrowsing
    <3>2. CASE Route(c) /\ ProfileToServe(r) # NoProfile
               /\ after = [NotBrowsing EXCEPT !.at = "opening", !.of = ProfileToServe(r), !.origin = r.origin]
      <4>1. after.at = "opening" /\ after.of \in Profile /\ after.origin = r.origin
        BY <2>3, <3>2 DEF NotBrowsing
      <4>2. r.at = "admitted"
        BY <3>2 DEF Route
      <4>3. r.origin # NoOrigin => Configured(r.origin, 0) \/ Loaded(r.origin)
        BY <1>0, <4>2 DEF JudgedRight
      <4> QED BY <2>12, <2>13, <4>1, <4>3 DEF RequestOK, JudgedRight
    <3>3. CASE LookAgain(c) /\ IsAllowedOrigin(r.origin) /\ after = [r EXCEPT !.at = "admitted"]
      <4>1. after.at = "admitted" /\ after.origin = r.origin /\ after.key \in ClientKey
        BY <1>0, <3>3 DEF LookAgain, RequestOK, OriginTypeOK, BrowsingRecord
      <4>2. Configured(r.origin, 0) \/ Loaded(r.origin)
        BY <1>0, <2>14, <3>3, AllowedIsKnown
      <4> QED BY <2>12, <2>13, <4>1, <4>2 DEF RequestOK, JudgedRight
    <3>4. CASE LookAgain(c) /\ ~IsAllowedOrigin(r.origin)
               /\ after = [NotBrowsing EXCEPT !.at = "refused", !.of = r.of, !.origin = r.origin]
      <4>1. after.at = "refused" /\ after.of = r.of /\ after.origin = r.origin
        BY <3>4 DEF NotBrowsing
      <4>2. /\ ~Configured(r.origin, 1)
            /\ r.origin \in RedirectHosts(r.of) => cached[r.of] = Uncached
        BY <1>0, <2>14, <3>4, AllowedIsKnown
      <4>3. r.origin \in RedirectHosts(r.of) => promise'[r.of] = "failed"
        BY <2>4, <2>14, <3>4, <4>2
      <4> QED BY <2>2, <2>12, <2>13, <2>14, <3>4, <4>1, <4>2, <4>3 DEF RequestOK, JudgedRight
    <3> QED BY <2>7, <3>1, <3>2, <3>3, <3>4
  <2>16. ASSUME NEW d \in Browsing, d # c PROVE RequestOK(d)' /\ JudgedRight(d)'
    <3>1. check'[d] = check[d]
      BY <1>0, <2>7, <2>16 DEF OriginTypeOK
    <3> QED BY <1>2, <2>11, <3>1
  <2> QED BY <1>1, <2>9, <2>10, <2>15, <2>16
<1>6. ASSUME \/ \E p \in Profile : ContextComes(p) \/ ContextFails(p)
             \/ \E k \in ClientKey : HintAges(k)
             \/ UNCHANGED originVars
      PROVE  OriginInv'
  <2>1. /\ UNCHANGED <<deployed, cached, running, check>>
        /\ promise' \in [Profile -> {"none", "creating", "ready", "failed"}]
        /\ \A p \in Profile : promise[p] \in {"ready", "failed"} => promise'[p] = promise[p]
        /\ hint' \in [ClientKey -> HintRecord]
    <3>1. ASSUME NEW p \in Profile, ContextComes(p) \/ ContextFails(p) PROVE <2>1!:
      BY <1>0, <3>1 DEF ContextComes, ContextFails, OriginTypeOK
    <3>2. ASSUME NEW k \in ClientKey, HintAges(k) PROVE <2>1!:
      <4>1. hint[k] \in HintRecord /\ [hint[k] EXCEPT !.old = TRUE] \in HintRecord
        BY <1>0 DEF OriginTypeOK, HintRecord
      <4>2. hint' = [hint EXCEPT ![k] = [hint[k] EXCEPT !.old = TRUE]]
        BY <1>0, <3>2 DEF HintAges, OriginTypeOK
      <4>3. hint' \in [ClientKey -> HintRecord]
        BY <1>0, <4>1, <4>2 DEF OriginTypeOK
      <4> QED BY <1>0, <3>2, <4>3 DEF HintAges, OriginTypeOK
    <3>3. CASE UNCHANGED originVars
      BY <1>0, <3>3 DEF originVars, OriginTypeOK
    <3> QED BY <1>6, <3>1, <3>2, <3>3
  <2>2. \A p : RedirectHosts(p)' = RedirectHosts(p)
    BY <2>1 DEF RedirectHosts
  <2>3. OriginTypeOK'
    BY <1>0, <2>1, <2>2 DEF OriginTypeOK
  <2>4. ContextsOK'
    BY <1>0, <2>1 DEF ContextsOK, OriginTypeOK
  <2>5. Settled
    BY <2>1 DEF Settled
  <2> QED BY <1>1, <1>2, <2>1, <2>3, <2>4, <2>5
<1> QED BY <1>3, <1>4, <1>5, <1>6 DEF OriginNext

\* Whoever speaks comes from a host of the configuration or of a profile that has
\* loaded, and nobody is refused whose host is the configuration's, or that of a
\* profile asked for that has loaded (isAllowedOriginForRequest).
THEOREM OriginsAreJudged == OriginSpec => []OriginsJudged
<1>1. OriginInv => OriginsJudged
  BY DEF OriginInv
<1> QED BY <1>1, OriginsStart, OriginsStep, PTL DEF OriginSpec
=============================================================================
