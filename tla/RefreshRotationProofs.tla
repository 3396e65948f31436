------------------------ MODULE RefreshRotationProofs ------------------------
(***************************************************************************)
(* Theorems about RefreshRotation, for every set of families and calls,    *)
(* every cap, every time limit and any number of restarts.                 *)
(***************************************************************************)
EXTENDS RefreshRotation, FiniteSetTheorems, TLAPS

MapType == [Family -> Call \cup {None}]

\* Writing an entry (store, evictOverflow) keeps the map well typed, and every
\* other family keeps its entry or loses it.
LEMMA StoreType ==
    ASSUME NEW fams \in MapType, NEW order \in SUBSET (Family \X Family),
           NEW f \in Family, NEW o \in Call, Store(fams, order, f, o)
    PROVE  /\ families' \in MapType
           /\ lru' \subseteq Family \X Family
           /\ \A g \in Family : g # f => families'[g] \in {fams[g], None}
           /\ families'[f] \in {o, None}
<1> DEFINE stored == [fams EXCEPT ![f] = o]
           bumped == MoveToEnd(order, f, Tracked(stored))
           victim == Oldest(bumped, Tracked(stored))
           kept   == IF OverCap(stored) THEN [stored EXCEPT ![victim] = None]
                                        ELSE stored
<1>1. families' = kept /\ lru' = Within(bumped, Tracked(kept))
  BY DEF Store
<1> HIDE DEF victim
<1>2. stored \in MapType /\ kept \in MapType
  BY DEF MapType
<1>3. bumped \subseteq Family \X Family
  BY DEF MoveToEnd, Tracked
<1>4. \A g \in Family : kept[g] \in {stored[g], None}
  BY <1>2 DEF MapType
<1> QED
  BY <1>1, <1>2, <1>3, <1>4 DEF MapType, Within

\* The lazy sweep of beginRotation keeps the maps well typed and only drops keys.
LEMMA SweepType ==
    ASSUME TypeOK
    PROVE  /\ KeptFamilies \in MapType
           /\ KeptRevoked \in [Family -> Nat]
           /\ Within(lru, Tracked(KeptFamilies)) \subseteq Family \X Family
           /\ Within(tombs, Tombed(KeptRevoked)) \subseteq Family \X Family
           /\ \A g \in Family : KeptFamilies[g] \in {families[g], None}
  BY DEF TypeOK, KeptFamilies, KeptRevoked, Within, MapType

\* Revoking keeps the maps well typed; the family loses its entry.
LEMMA RevokeType ==
    ASSUME TypeOK, ConstantsAssumption, NEW f \in Family, Revoke(f)
    PROVE  /\ families' = [KeptFamilies EXCEPT ![f] = None]
           /\ families' \in MapType
           /\ lru' \subseteq Family \X Family
           /\ revoked' \in [Family -> Nat]
           /\ tombs' \subseteq Family \X Family
           /\ \A g \in Family : g # f => revoked'[g] \in {KeptRevoked[g], 0}
<1> DEFINE fams   == [KeptFamilies EXCEPT ![f] = None]
           marked == [KeptRevoked EXCEPT ![f] = TombstoneUntil]
           bumped == MoveToEnd(tombs, f, Tombed(marked))
           victim == Oldest(Within(bumped, Tombed(marked)), Tombed(marked))
           kept   == IF Cardinality(Tombed(marked)) > MaxRevoked
                     THEN [marked EXCEPT ![victim] = 0] ELSE marked
<1>1. /\ families' = fams /\ lru' = Within(lru, Tracked(fams))
      /\ revoked' = kept /\ tombs' = Within(bumped, Tombed(kept))
  BY DEF Revoke
<1> HIDE DEF victim
<1>2. fams \in MapType
  BY SweepType DEF MapType
<1>3. TombstoneUntil \in Nat
  BY DEF TombstoneUntil, TypeOK, ConstantsAssumption
<1>4. marked \in [Family -> Nat] /\ kept \in [Family -> Nat]
  BY <1>3, SweepType
<1>5. bumped \subseteq Family \X Family
  BY DEF MoveToEnd, Tombed, TypeOK
<1>6. \A g \in Family : g # f => kept[g] \in {KeptRevoked[g], 0}
  BY <1>4, SweepType
<1> QED
  BY <1>1, <1>2, <1>4, <1>5, <1>6 DEF Within, TypeOK

\* One call changes to a well-formed record.
LEMMA CallsType ==
    ASSUME TypeOK, NEW c \in Call, NEW r \in CallRecord, WellLinked(r),
           calls' = [calls EXCEPT ![c] = r]
    PROVE  calls' \in [Call -> CallRecord] /\ \A d \in Call : WellLinked(calls[d])'
<1>1. ASSUME NEW d \in Call PROVE WellLinked(calls'[d])
  <2>1. CASE d = c
    <3>1. calls'[d] = r
      BY <2>1 DEF TypeOK
    <3> QED
      BY <3>1
  <2>2. CASE d # c
    <3>1. calls'[d] = calls[d]
      BY <2>2 DEF TypeOK
    <3> QED
      BY <3>1 DEF TypeOK
  <2> QED
    BY <2>1, <2>2
<1> QED
  BY <1>1 DEF TypeOK

\* A call that is answered keeps its record well formed.
LEMMA AnswerType ==
    ASSUME TypeOK, NEW c \in Call, NEW f \in Family, NEW j \in Jti,
           NEW pc \in Outcome, NEW got \in Call \cup {None}, Answer(c, f, j, pc, got)
    PROVE  calls' \in [Call -> CallRecord] /\ \A d \in Call : WellLinked(calls[d])'
<1> DEFINE r == [calls[c] EXCEPT !.pc = pc, !.fam = f, !.jti = j, !.at = now, !.got = got]
<1>0. calls[c] \in CallRecord
  BY DEF TypeOK
<1>a. r \in CallRecord
  BY <1>0 DEF TypeOK, CallRecord, Outcome
<1>b. r.pc = pc
  BY <1>0 DEF CallRecord
<1>1. r \in CallRecord /\ WellLinked(r)
  BY <1>a, <1>b DEF Outcome, WellLinked
<1> HIDE DEF r
<1>2. calls' = [calls EXCEPT ![c] = r]
  BY DEF Answer, r
<1> QED
  BY <1>1, <1>2, CallsType

\* A call that is settled keeps its type.
LEMMA SettleType ==
    ASSUME TypeOK, NEW c \in Call, NEW pc \in Outcome,
           NEW promise \in {"none", "resolved", "rejected"},
           NEW got \in Call \cup {None}, Settle(c, pc, promise, got)
    PROVE  calls' \in [Call -> CallRecord] /\ \A d \in Call : WellLinked(calls[d])'
<1> DEFINE r == [calls[c] EXCEPT !.pc = pc, !.promise = promise, !.at = now, !.got = got]
<1>0. calls[c] \in CallRecord
  BY DEF TypeOK
<1>a. r \in CallRecord
  BY <1>0 DEF TypeOK, CallRecord, Outcome
<1>b. r.pc = pc
  BY <1>0 DEF CallRecord
<1>1. r \in CallRecord /\ WellLinked(r)
  BY <1>a, <1>b DEF Outcome, WellLinked
<1> HIDE DEF r
<1>2. calls' = [calls EXCEPT ![c] = r]
  BY DEF Settle, r
<1> QED
  BY <1>1, <1>2, CallsType

\* Every action keeps the state well typed.
LEMMA TypeStep == ConstantsAssumption /\ TypeOK /\ [Next]_vars => TypeOK'
<1> SUFFICES ASSUME ConstantsAssumption, TypeOK, [Next]_vars PROVE TypeOK'
  OBVIOUS
<1> USE DEF MapType
<1>0. /\ now \in Nat /\ restarts \in Nat /\ Ttl \in Nat /\ Grace \in Nat
      /\ heap \in [Call -> Entry] /\ calls \in [Call -> CallRecord]
  BY DEF TypeOK, ConstantsAssumption
<1>1. ASSUME NEW c \in Call, NEW f \in Family, NEW j \in Jti, BeginRotation(c, f, j)
      PROVE  TypeOK'
  <2>1. CASE RejectStale(c, f, j)
    BY <2>1, AnswerType DEF RejectStale, TypeOK, Outcome
  <2>2. CASE RejectRevoked(c, f, j)
    BY <2>2, AnswerType, SweepType DEF RejectRevoked, EvictExpired, TypeOK, Outcome
  <2>3. CASE JoinPending(c, f, j)
    <3>1. EntryOf(f).pending \in Call \cup {None}
      BY <2>3, <1>0, SweepType DEF JoinPending, Live, EntryOf, Entry
    <3>2. calls' \in [Call -> CallRecord] /\ \A d \in Call : WellLinked(calls[d])'
      <4> DEFINE r == [calls[c] EXCEPT !.pc = "following", !.fam = f, !.jti = j,
                                       !.at = now, !.leader = EntryOf(f).pending]
      <4>0. calls[c] \in CallRecord
        BY <1>0
      <4>a. r \in CallRecord
        BY <4>0, <3>1, <1>0 DEF CallRecord
      <4>b. r.pc = "following" /\ r.leader = EntryOf(f).pending
        BY <4>0 DEF CallRecord
      <4>1. r \in CallRecord /\ WellLinked(r)
        BY <4>a, <4>b, <2>3, <3>1 DEF JoinPending, PendingOn, WellLinked
      <4>2. calls' = [calls EXCEPT ![c] = r]
        BY <2>3 DEF JoinPending
      <4> HIDE DEF r
      <4> QED
        BY <4>1, <4>2, CallsType
    <3> QED
      BY <2>3, <3>2, SweepType DEF JoinPending, EvictExpired, TypeOK
  <2>4. CASE ReplayGrace(c, f, j)
    <3>1. EntryOf(f).grace.next \in Call \cup {None}
      BY <2>4, <1>0, SweepType DEF ReplayGrace, Live, EntryOf, Entry, GraceRecord
    <3> QED
      BY <2>4, <3>1, AnswerType, SweepType DEF ReplayGrace, EvictExpired, TypeOK, Outcome
  <2>5. CASE DetectReuse(c, f, j)
    BY <2>5, AnswerType, RevokeType DEF DetectReuse, TypeOK, Outcome
  <2>6. CASE Lead(c, f, j)
    <3> DEFINE o == IF Live(f) THEN KeptFamilies[f] ELSE c
    <3>1. o \in Call
      BY SweepType DEF Live
    <3>2. FreshEntry(j, c) \in Entry
      BY <1>0 DEF FreshEntry, Entry, NoGrace, GraceRecord, Jti
    <3>3. Leased(heap[o], c) \in Entry
      BY <3>1, <1>0 DEF Leased, Entry
    <3>4. heap' \in [Call -> Entry]
      BY <2>6, <3>1, <3>2, <3>3, <1>0 DEF Lead
    <3>5. calls' \in [Call -> CallRecord] /\ \A d \in Call : WellLinked(calls[d])'
      <4> DEFINE r == [calls[c] EXCEPT !.pc = "leading", !.fam = f, !.jti = j, !.at = now,
                                       !.entry = o, !.promise = "pending"]
      <4>0. calls[c] \in CallRecord
        BY <1>0
      <4> HIDE DEF o
      <4>a. r \in CallRecord
        BY <4>0, <3>1, <1>0 DEF CallRecord
      <4>b. r.pc = "leading" /\ r.fam = f /\ r.entry = o
        BY <4>0 DEF CallRecord
      <4>1. r \in CallRecord /\ WellLinked(r)
        BY <4>a, <4>b, <3>1 DEF WellLinked
      <4>2. calls' = [calls EXCEPT ![c] = r]
        BY <2>6 DEF Lead, o
      <4> HIDE DEF r
      <4> QED
        BY <4>1, <4>2, CallsType
    <3>6. Store(KeptFamilies, Within(lru, Tracked(KeptFamilies)), f, o)
      BY <2>6 DEF Lead
    <3>7. families' \in MapType /\ lru' \subseteq Family \X Family
      <4>1. Within(lru, Tracked(KeptFamilies)) \in SUBSET (Family \X Family)
        BY SweepType
      <4> HIDE DEF o
      <4> QED
        BY <3>1, <3>6, <4>1, SweepType, StoreType DEF MapType
    <3> QED
      BY <2>6, <3>4, <3>5, <3>7, SweepType DEF Lead, TypeOK
  <2> QED
    BY <1>1, <2>1, <2>2, <2>3, <2>4, <2>5, <2>6 DEF BeginRotation
<1>2. ASSUME NEW c \in Call, Commit(c) PROVE TypeOK'
  <2> DEFINE f == calls[c].fam
             o == IF families[f] # None THEN families[f] ELSE calls[c].entry
  <2>1. f \in Family /\ o \in Call /\ calls[c].jti \in Jti
    BY <1>2, <1>0 DEF Commit, WellLinked, TypeOK, CallRecord
  <2>2. PendingAfter(o, c) \in Call \cup {None}
    BY <2>1, <1>0 DEF PendingAfter, Entry
  <2>3. Advanced(o, c) \in Entry
    BY <2>1, <2>2, <1>0 DEF Advanced, Entry, GraceRecord, Jti
  <2>4. heap' \in [Call -> Entry]
    BY <1>2, <2>1, <2>3, <1>0 DEF Commit
  <2>5. calls' \in [Call -> CallRecord] /\ \A d \in Call : WellLinked(calls[d])'
    BY <1>2, SettleType DEF Commit, Outcome
  <2>6. Store(families, lru, f, o)
    BY <1>2 DEF Commit
  <2>7. families' \in MapType /\ lru' \subseteq Family \X Family
    <3> HIDE DEF f, o
    <3> QED
      BY <2>1, <2>6, StoreType DEF TypeOK, MapType
  <2>8. revoked' \in [Family -> Nat] /\ tombs' \subseteq Family \X Family
    BY <1>2 DEF Commit, TypeOK, Within
  <2> QED
    BY <1>2, <2>4, <2>5, <2>7, <2>8 DEF Commit, TypeOK
<1>3. ASSUME NEW c \in Call, CommitRevoked(c) PROVE TypeOK'
  BY <1>3, SettleType DEF CommitRevoked, TypeOK, Outcome
<1>4. ASSUME NEW c \in Call, Fail(c) PROVE TypeOK'
  <2> DEFINE f == calls[c].fam
             o == families[f]
  <2>1. f \in Family
    BY <1>4 DEF Fail, WellLinked, TypeOK
  <2>2. calls' \in [Call -> CallRecord] /\ \A d \in Call : WellLinked(calls[d])'
    BY <1>4, SettleType DEF Fail, Outcome
  <2>3. CASE o # None /\ PendingSameJti(o, c)
    <3>1. o \in Call
      BY <2>1, <2>3 DEF TypeOK
    <3>2. heap' \in [Call -> Entry]
      BY <1>4, <2>3, <3>1, <1>0 DEF Fail, Entry
    <3>3. Store(families, lru, f, o)
      BY <1>4, <2>3 DEF Fail
    <3>4. families' \in MapType /\ lru' \subseteq Family \X Family
      <4> HIDE DEF f, o
      <4> QED
        BY <2>1, <3>1, <3>3, StoreType DEF TypeOK, MapType
    <3> QED
      BY <1>4, <2>2, <3>2, <3>4 DEF Fail, TypeOK
  <2>4. CASE ~(o # None /\ PendingSameJti(o, c))
    BY <1>4, <2>2, <2>4 DEF Fail, TypeOK
  <2> QED
    BY <2>3, <2>4
<1>5. ASSUME NEW c \in Call, Deliver(c) PROVE TypeOK'
  <2> DEFINE l == calls[c].leader
  <2>1. l \in Call /\ RotatedToken(l) \in Call
    BY <1>5 DEF Deliver, TypeOK, WellLinked, RotatedToken
  <2>2. calls' \in [Call -> CallRecord] /\ \A d \in Call : WellLinked(calls[d])'
    <3>1. \/ Settle(c, "ok", "none", RotatedToken(l))
          \/ Settle(c, "failed", "none", None)
      BY <1>5 DEF Deliver
    <3> QED
      BY <2>1, <3>1, SettleType DEF Outcome
  <2> QED
    BY <1>5, <2>2 DEF Deliver, TypeOK
<1>6. CASE Tick
  BY <1>6, <1>0 DEF Tick, TypeOK, WellLinked
<1>7. CASE Restart
  <2>1. ASSUME NEW d \in Call
        PROVE  calls'[d] \in CallRecord /\ WellLinked(calls[d])'
    <3>1. calls[d] \in CallRecord /\ WellLinked(calls[d])
      BY DEF TypeOK
    <3>2. CASE calls[d].pc \in {"leading", "following"}
      <4>1. calls'[d] = [calls[d] EXCEPT !.pc = "failed", !.promise = "none"]
        BY <1>7, <3>2 DEF Restart
      <4> QED
        BY <3>1, <4>1 DEF CallRecord, Outcome, WellLinked
    <3>3. CASE calls[d].pc \notin {"leading", "following"}
      BY <1>7, <3>1, <3>3 DEF Restart, WellLinked
    <3> QED
      BY <3>2, <3>3
  <2>2. calls' \in [Call -> CallRecord] /\ \A d \in Call : WellLinked(calls[d])'
    BY <1>7, <2>1 DEF Restart
  <2>a. /\ now' = now /\ restarts' = restarts + 1 /\ heap' = heap
        /\ families' = [f \in Family |-> None] /\ revoked' = [f \in Family |-> 0]
        /\ lru' = {} /\ tombs' = {}
    BY <1>7 DEF Restart
  <2>b. now' \in Nat /\ restarts' \in Nat /\ heap' \in [Call -> Entry]
    BY <2>a, <1>0
  <2>c. /\ families' \in [Family -> Call \cup {None}] /\ revoked' \in [Family -> Nat]
        /\ lru' \subseteq Family \X Family /\ tombs' \subseteq Family \X Family
    BY <2>a
  <2> QED
    BY <2>2, <2>b, <2>c DEF TypeOK
<1>8. CASE UNCHANGED vars
  BY <1>8 DEF vars, TypeOK, WellLinked
<1> QED
  BY <1>1, <1>2, <1>3, <1>4, <1>5, <1>6, <1>7, <1>8 DEF Next

\* The store starts well-typed.
LEMMA TypeInit == ConstantsAssumption /\ Init => TypeOK
<1> SUFFICES ASSUME ConstantsAssumption, Init PROVE TypeOK
  OBVIOUS
<1>1. heap \in [Call -> Entry]
  BY DEF Init, Entry, FreshEntry, NoGrace, GraceRecord, Jti
<1>2. calls \in [Call -> CallRecord] /\ \A d \in Call : WellLinked(calls[d])
  BY DEF Init, IdleCall, CallRecord, Jti, WellLinked
<1> QED
  BY <1>1, <1>2 DEF Init, TypeOK

\* The store, the entry objects and the redemptions stay well typed, with every
\* entry object a leader or the map still refers to.
THEOREM TypeCorrect == Spec => []TypeOK
<1>1. Init => TypeOK
  BY ConstantsAssumption, TypeInit
<1>2. TypeOK /\ [Next]_vars => TypeOK'
  BY ConstantsAssumption, TypeStep
<1> QED
  BY <1>1, <1>2, PTL DEF Spec

\* Dropping entries and tombstones cannot give a revoked family an entry.
LEMMA OnlyDrops ==
    ASSUME TypeOK, TombstoneClosed, now' = now,
           \A g \in Family : /\ families'[g] \in {families[g], None}
                             /\ revoked'[g] \in {revoked[g], 0}
    PROVE  TombstoneClosed'
  BY DEF TombstoneClosed, IsRevoked, TypeOK

\* evictExpired only drops entries and tombstones.
LEMMA SweepDrops ==
    ASSUME TypeOK
    PROVE  \A g \in Family : /\ KeptFamilies[g] \in {families[g], None}
                             /\ KeptRevoked[g] \in {revoked[g], 0}
  BY DEF TypeOK, KeptFamilies, KeptRevoked

\* No step opens a revoked family while its tombstone is retained.
LEMMA TombstoneStep ==
    ConstantsAssumption /\ TypeOK /\ TombstoneClosed /\ [Next]_vars => TombstoneClosed'
<1> SUFFICES ASSUME ConstantsAssumption, TypeOK, TombstoneClosed, [Next]_vars
             PROVE  TombstoneClosed'
  OBVIOUS
<1>1. ASSUME NEW c \in Call, NEW f \in Family, NEW j \in Jti, BeginRotation(c, f, j)
      PROVE  TombstoneClosed'
  <2>1. CASE RejectStale(c, f, j)
    BY <2>1, OnlyDrops DEF RejectStale
  <2>2. CASE RejectRevoked(c, f, j)
    BY <2>2, OnlyDrops, SweepDrops DEF RejectRevoked, EvictExpired
  <2>3. CASE JoinPending(c, f, j)
    BY <2>3, OnlyDrops, SweepDrops DEF JoinPending, EvictExpired
  <2>4. CASE ReplayGrace(c, f, j)
    BY <2>4, OnlyDrops, SweepDrops DEF ReplayGrace, EvictExpired
  \* The family that is revoked loses its entry; the others only drop.
  <2>5. CASE DetectReuse(c, f, j)
    <3>1. Revoke(f) /\ now' = now
      BY <2>5 DEF DetectReuse
    <3>2. /\ families' = [KeptFamilies EXCEPT ![f] = None]
          /\ \A g \in Family : g # f => revoked'[g] \in {KeptRevoked[g], 0}
      BY <3>1, RevokeType
    <3>3. \A g \in Family : g # f => /\ families'[g] \in {families[g], None}
                                     /\ revoked'[g] \in {revoked[g], 0}
      BY <3>2, SweepType, SweepDrops DEF MapType
    <3>4. families'[f] = None
      BY <3>2, SweepType DEF MapType
    <3> QED
      BY <3>1, <3>3, <3>4 DEF TombstoneClosed, IsRevoked, TypeOK
  \* A lease is only taken on a family without a tombstone.
  <2>6. CASE Lead(c, f, j)
    <3> DEFINE o == IF Live(f) THEN KeptFamilies[f] ELSE c
    <3>1. o \in Call
      BY SweepType DEF Live, MapType
    <3>2. Store(KeptFamilies, Within(lru, Tracked(KeptFamilies)), f, o)
      BY <2>6 DEF Lead
    <3>3. \A g \in Family : g # f => families'[g] \in {KeptFamilies[g], None}
      <4>1. Within(lru, Tracked(KeptFamilies)) \in SUBSET (Family \X Family)
        BY SweepType
      <4> HIDE DEF o
      <4> QED
        BY <3>1, <3>2, <4>1, SweepType, StoreType
    <3>4. /\ revoked' = KeptRevoked /\ now' = now /\ ~IsRevoked(f)
      BY <2>6 DEF Lead
    <3>5. \A g \in Family : g # f => /\ families'[g] \in {families[g], None}
                                     /\ revoked'[g] \in {revoked[g], 0}
      BY <3>3, <3>4, SweepDrops
    <3>6. revoked'[f] \in {revoked[f], 0}
      BY <3>4, SweepDrops
    <3> QED
      BY <3>4, <3>5, <3>6 DEF TombstoneClosed, IsRevoked, TypeOK
  <2> QED
    BY <1>1, <2>1, <2>2, <2>3, <2>4, <2>5, <2>6 DEF BeginRotation
\* The second look for a tombstone, after the exchange, is what the case needs.
<1>2. ASSUME NEW c \in Call, Commit(c) PROVE TombstoneClosed'
  <2> DEFINE f == calls[c].fam
             o == IF families[f] # None THEN families[f] ELSE calls[c].entry
  <2>1. f \in Family /\ o \in Call
    BY <1>2 DEF Commit, WellLinked, TypeOK
  <2>2. Store(families, lru, f, o)
    BY <1>2 DEF Commit
  <2>3. \A g \in Family : g # f => families'[g] \in {families[g], None}
    <3> HIDE DEF f, o
    <3> QED
      BY <2>1, <2>2, StoreType DEF TypeOK, MapType
  <2>4. revoked' = [revoked EXCEPT ![f] = 0] /\ now' = now /\ ~IsRevoked(f)
    BY <1>2 DEF Commit, RevokedAtCommit, IsRevoked
  <2> QED
    BY <2>1, <2>3, <2>4 DEF TombstoneClosed, IsRevoked, TypeOK
<1>3. ASSUME NEW c \in Call, CommitRevoked(c) PROVE TombstoneClosed'
  BY <1>3, OnlyDrops DEF CommitRevoked
<1>4. ASSUME NEW c \in Call, Fail(c) PROVE TombstoneClosed'
  <2> DEFINE f == calls[c].fam
             o == families[f]
  <2>1. f \in Family
    BY <1>4 DEF Fail, WellLinked, TypeOK
  <2>2. CASE o # None /\ PendingSameJti(o, c)
    <3>1. o \in Call
      BY <2>1, <2>2 DEF TypeOK
    <3>2. Store(families, lru, f, o)
      BY <1>4, <2>2 DEF Fail
    <3>3. \A g \in Family : families'[g] \in {families[g], None}
      <4>1. \A g \in Family : g # f => families'[g] \in {families[g], None}
        <5> HIDE DEF f, o
        <5> QED
          BY <2>1, <3>1, <3>2, StoreType DEF TypeOK, MapType
      <4>2. families'[f] \in {o, None}
        <5> HIDE DEF f, o
        <5> QED
          BY <2>1, <3>1, <3>2, StoreType DEF TypeOK, MapType
      <4> QED
        BY <4>1, <4>2
    <3> QED
      BY <1>4, <3>3, OnlyDrops DEF Fail
  <2>3. CASE ~(o # None /\ PendingSameJti(o, c))
    BY <1>4, <2>3, OnlyDrops DEF Fail
  <2> QED
    BY <2>2, <2>3
<1>5. ASSUME NEW c \in Call, Deliver(c) PROVE TombstoneClosed'
  BY <1>5, OnlyDrops DEF Deliver
<1>6. CASE Tick
  BY <1>6 DEF Tick, TombstoneClosed, IsRevoked, TypeOK
<1>7. CASE Restart
  BY <1>7 DEF Restart, TombstoneClosed
<1>8. CASE UNCHANGED vars
  BY <1>8 DEF vars, TombstoneClosed, IsRevoked
<1> QED
  BY <1>1, <1>2, <1>3, <1>4, <1>5, <1>6, <1>7, <1>8 DEF Next

\* A revoked family holds no entry while its tombstone is retained: no eviction,
\* no exchange that was in flight, no restart reopens it.
THEOREM RevocationStaysClosed == Spec => []TombstoneClosed
<1>1. Init => TombstoneClosed
  BY DEF Init, TombstoneClosed
<1>2. TypeOK /\ TombstoneClosed /\ [Next]_vars => TombstoneClosed'
  BY ConstantsAssumption, TombstoneStep
<1> QED
  BY <1>1, <1>2, TypeCorrect, PTL DEF Spec
-----------------------------------------------------------------------------
(***************************************************************************)
(* While no cap and no expiry bites (NoPressure), the rotation store       *)
(* implements the abstract token chain: ChainInv is inductive, a token has *)
(* at most one successor, and every step is a step of TokenChain or none.  *)
(***************************************************************************)

\* Within the horizon the lazy sweep finds nothing to drop.
LEMMA NoSweep ==
    ASSUME ConstantsAssumption, NoPressure, TypeOK, Horizon
    PROVE  KeptFamilies = families /\ KeptRevoked = revoked
<1>1. now \in Nat /\ MaxTime \in Nat /\ Ttl \in Nat /\ now < Ttl
  BY DEF NoPressure, TypeOK, Horizon, ConstantsAssumption
<1>2. ASSUME NEW f \in Family PROVE KeptFamilies[f] = families[f]
  <2>1. CASE families[f] = None
    BY <2>1 DEF KeptFamilies
  <2>2. CASE families[f] # None
    <3>1. heap[families[f]].expires \in Nat
      BY <2>2 DEF TypeOK, Entry
    <3> QED
      BY <2>2, <3>1, <1>1 DEF KeptFamilies, Horizon
  <2> QED
    BY <2>1, <2>2
<1>3. ASSUME NEW f \in Family PROVE KeptRevoked[f] = revoked[f]
  <2>1. revoked[f] \in Nat /\ (revoked[f] # 0 => revoked[f] >= Ttl)
    BY DEF TypeOK, Horizon
  <2>2. KeptRevoked[f] = IF revoked[f] > now THEN revoked[f] ELSE 0
    BY DEF KeptRevoked
  <2> QED
    BY <2>1, <2>2, <1>1
<1> QED
  BY <1>2, <1>3 DEF KeptFamilies, KeptRevoked, TypeOK

\* A cap of at least the number of families never evicts an entry.
LEMMA StoreExact ==
    ASSUME ConstantsAssumption, NoPressure, NEW fams \in MapType, NEW order,
           NEW f \in Family, NEW o \in Call, Store(fams, order, f, o)
    PROVE  families' = [fams EXCEPT ![f] = o]
<1> DEFINE stored == [fams EXCEPT ![f] = o]
<1>1. Tracked(stored) \subseteq Family
  BY DEF Tracked
<1>2. /\ Cardinality(Tracked(stored)) \in Nat /\ Cardinality(Family) \in Nat
      /\ Cardinality(Tracked(stored)) <= Cardinality(Family)
  BY <1>1, FS_Subset, FS_CardinalityType DEF ConstantsAssumption
<1>3. ~OverCap(stored)
  BY <1>2 DEF OverCap, NoPressure, ConstantsAssumption
<1> QED
  BY <1>3 DEF Store

\* Nor does the cap on tombstones drop one.
LEMMA RevokeExact ==
    ASSUME ConstantsAssumption, NoPressure, TypeOK, Horizon, NEW f \in Family, Revoke(f)
    PROVE  /\ families' = [families EXCEPT ![f] = None]
           /\ revoked' = [revoked EXCEPT ![f] = now + Ttl]
<1> DEFINE marked == [KeptRevoked EXCEPT ![f] = TombstoneUntil]
<1>1. Tombed(marked) \subseteq Family
  BY DEF Tombed
<1>2. /\ Cardinality(Tombed(marked)) \in Nat /\ Cardinality(Family) \in Nat
      /\ Cardinality(Tombed(marked)) <= Cardinality(Family)
  BY <1>1, FS_Subset, FS_CardinalityType DEF ConstantsAssumption
<1>3. ~(Cardinality(Tombed(marked)) > MaxRevoked)
  BY <1>2 DEF NoPressure, ConstantsAssumption
<1> QED
  BY <1>3, NoSweep DEF Revoke, TombstoneUntil

\* The parts of ChainInv that the actions must preserve beyond typing.
Core ==
    /\ Horizon /\ OwnEntries /\ LeaderHoldsEntry /\ PromiseStates /\ ActiveUnredeemed
    /\ TokensLinked /\ GraceIsSuccessor /\ FollowsSameToken /\ AnswersAreSuccessors /\ OneMint

\* Facts every step proof starts from.
LEMMA Basics ==
    ASSUME ConstantsAssumption, NoPressure, ChainInv
    PROVE  /\ now \in Nat /\ Ttl \in Nat /\ MaxTime \in Nat /\ Grace \in Nat
           /\ now <= MaxTime /\ now < Ttl /\ None \notin Call
           /\ families \in [Family -> Call \cup {None}] /\ revoked \in [Family -> Nat]
           /\ heap \in [Call -> Entry] /\ calls \in [Call -> CallRecord]
           /\ \A f \in Family : IsRevoked(f) <=> revoked[f] # 0
           /\ \A c \in Call : calls[c].pc = "leading" =>
                                 calls[c].fam \in Family /\ calls[c].entry \in Call
           /\ \A c \in Call : calls[c].pc = "following" => calls[c].leader \in Call
<1>1. /\ now \in Nat /\ Ttl \in Nat /\ MaxTime \in Nat /\ Grace \in Nat
      /\ now <= MaxTime /\ now < Ttl /\ None \notin Call
  BY DEF ChainInv, TypeOK, Horizon, NoPressure, ConstantsAssumption
<1>2. \A f \in Family : IsRevoked(f) <=> revoked[f] # 0
  BY <1>1 DEF ChainInv, TypeOK, Horizon, IsRevoked
<1>3. \A c \in Call : WellLinked(calls[c])
  BY DEF ChainInv, TypeOK
<1>4. /\ families \in [Family -> Call \cup {None}] /\ revoked \in [Family -> Nat]
      /\ heap \in [Call -> Entry] /\ calls \in [Call -> CallRecord]
  BY DEF ChainInv, TypeOK
<1> QED
  BY <1>1, <1>2, <1>3, <1>4 DEF WellLinked

\* A step that only moves one call c, which holds no lease on a living family,
\* mints nothing, and answers c at most with an existing successor.
LEMMA QuietStep ==
    ASSUME ConstantsAssumption, NoPressure, ChainInv, NEW c \in Call,
           UNCHANGED <<now, restarts, families, heap, revoked>>,
           \A d \in Call : d # c => calls'[d] = calls[d],
           calls[c].pc = "leading" => IsRevoked(calls[c].fam),
           calls[c].promise # "resolved",
           calls[c].pc # "idle" =>
              calls'[c].fam = calls[c].fam /\ calls'[c].jti = calls[c].jti,
           calls'[c].pc \notin {"leading", "idle"},
           calls'[c].promise \notin {"pending", "resolved"},
           calls'[c].jti \in Call => calls[calls'[c].jti].promise = "resolved",
           calls'[c].pc = "following" =>
              /\ calls'[c].leader \in Call \ {c} /\ calls[calls'[c].leader].pc # "idle"
              /\ calls[calls'[c].leader].fam = calls'[c].fam
              /\ calls[calls'[c].leader].jti = calls'[c].jti,
           calls'[c].pc = "ok" =>
              /\ calls'[c].got \in Call /\ calls[calls'[c].got].promise = "resolved"
              /\ calls[calls'[c].got].fam = calls'[c].fam
              /\ calls[calls'[c].got].jti = calls'[c].jti
    PROVE  Core'
<1> USE Basics
<1>1. Horizon'
  BY DEF ChainInv, Horizon
<1>2. OwnEntries'
  BY DEF ChainInv, OwnEntries
<1>3. LeaderHoldsEntry'
  <2>1. \A f \in Family : families[f] # None => ~IsRevoked(f)
    BY DEF ChainInv, TombstoneClosed
  <2>2. \A f \in Family :
          families[f] # None /\ heap[families[f]].pending # None =>
             heap[families[f]].pending # c /\ heap[families[f]].pending \in Call
    BY <2>1 DEF ChainInv, LeaderHoldsEntry, Entry
  <2> QED
    BY <2>2 DEF ChainInv, LeaderHoldsEntry, IsRevoked
<1>4. PromiseStates'
  BY DEF ChainInv, PromiseStates
<1>5. ActiveUnredeemed'
  BY DEF ChainInv, ActiveUnredeemed, IsRevoked, PromiseStates
<1>6. TokensLinked'
  BY DEF ChainInv, TokensLinked
<1>7. GraceIsSuccessor'
  <2>1. \A f \in Family : families[f] # None => heap[families[f]].grace.next \in Call \cup {None}
    BY DEF Entry, GraceRecord
  <2> QED
    BY <2>1 DEF ChainInv, GraceIsSuccessor
<1>8. FollowsSameToken'
  BY DEF ChainInv, FollowsSameToken, SameToken
<1>9. AnswersAreSuccessors'
  BY DEF ChainInv, AnswersAreSuccessors, Answered, SameToken
<1>10. OneMint'
  BY DEF ChainInv, OneMint, SameToken
<1> QED
  BY <1>1, <1>2, <1>3, <1>4, <1>5, <1>6, <1>7, <1>8, <1>9, <1>10 DEF Core

\* What Issued means when the family was not revoked: before any entry exists
\* only the root token is in circulation.
LEMMA IssuedRoot ==
    ASSUME ConstantsAssumption, NoPressure, ChainInv, NEW f \in Family, NEW j \in Jti,
           Issued(f, j), families[f] = None, ~IsRevoked(f)
    PROVE  j = Root
  BY DEF Issued, ChainInv, ActiveUnredeemed

\* Each branch of beginRotation keeps the core of the invariant.
LEMMA BeginStep ==
    ASSUME ConstantsAssumption, NoPressure, ChainInv, NEW c \in Call, NEW f \in Family,
           NEW j \in Jti, BeginRotation(c, f, j)
    PROVE  Core'
<1> USE Basics
<1>1. /\ KeptFamilies = families /\ KeptRevoked = revoked
  BY NoSweep DEF ChainInv
<1>2. /\ calls[c].pc = "idle" /\ Issued(f, j)
      /\ calls[c].promise \notin {"pending", "resolved"}
  BY DEF BeginRotation, RejectStale, RejectRevoked, JoinPending, ReplayGrace, DetectReuse,
         Lead, Presents, ChainInv, PromiseStates
<1>3. j \in Call => calls[j].promise = "resolved" /\ calls[j].fam = f
  BY <1>2 DEF Issued, ConstantsAssumption
<1>4. CASE RejectStale(c, f, j) \/ RejectRevoked(c, f, j)
  <2>1. UNCHANGED <<now, restarts, families, heap, revoked>> /\ Answer(c, f, j, "refused", None)
    BY <1>1, <1>4 DEF RejectStale, RejectRevoked, EvictExpired
  <2>2. /\ \A d \in Call : d # c => calls'[d] = calls[d]
        /\ calls'[c].pc = "refused" /\ calls'[c].promise = calls[c].promise
        /\ calls'[c].jti = j
    BY <2>1 DEF Answer, CallRecord
  <2> QED
    BY <1>2, <1>3, <2>1, <2>2, QuietStep
<1>5. CASE JoinPending(c, f, j)
  <2> DEFINE l == heap[families[f]].pending
  <2>1. /\ UNCHANGED <<now, restarts, families, heap, revoked>>
        /\ families[f] # None /\ l # None /\ calls[l].jti = j
    BY <1>1, <1>5 DEF JoinPending, EvictExpired, Live, PendingOn, EntryOf
  <2>2. /\ \A d \in Call : d # c => calls'[d] = calls[d]
        /\ calls'[c].pc = "following" /\ calls'[c].promise = calls[c].promise
        /\ calls'[c].jti = j /\ calls'[c].fam = f /\ calls'[c].leader = l
    BY <1>1, <1>5 DEF JoinPending, EntryOf, CallRecord
  <2>3. l \in Call /\ calls[l].pc = "leading" /\ calls[l].fam = f
    BY <2>1 DEF ChainInv, LeaderHoldsEntry, Entry
  <2> HIDE DEF l
  <2>4. l # c
    BY <1>2, <2>3
  <2> QED
    BY <1>2, <1>3, <2>1, <2>2, <2>3, <2>4, QuietStep
<1>6. CASE ReplayGrace(c, f, j)
  <2> DEFINE g == heap[families[f]].grace
  <2>1. /\ UNCHANGED <<now, restarts, families, heap, revoked>>
        /\ families[f] # None /\ g.next # None /\ g.prev = j
        /\ Answer(c, f, j, "ok", g.next)
    BY <1>1, <1>6 DEF ReplayGrace, EvictExpired, Live, InGrace, EntryOf
  <2>2. /\ \A d \in Call : d # c => calls'[d] = calls[d]
        /\ calls'[c].pc = "ok" /\ calls'[c].promise = calls[c].promise
        /\ calls'[c].jti = j /\ calls'[c].fam = f /\ calls'[c].got = g.next
    BY <2>1 DEF Answer, CallRecord
  <2>3. /\ g.next \in Call /\ calls[g.next].promise = "resolved"
        /\ calls[g.next].fam = f /\ calls[g.next].jti = j
    BY <2>1 DEF ChainInv, GraceIsSuccessor, Entry, GraceRecord
  <2> HIDE DEF g
  <2> QED
    BY <1>2, <1>3, <2>1, <2>2, <2>3, QuietStep
<1>7. CASE DetectReuse(c, f, j)
  <2>1. /\ UNCHANGED <<now, restarts, heap>> /\ families[f] # None
        /\ families' = [families EXCEPT ![f] = None]
        /\ revoked' = [revoked EXCEPT ![f] = now + Ttl]
        /\ Answer(c, f, j, "reused", None)
    BY <1>1, <1>7, RevokeExact DEF DetectReuse, Live, ChainInv
  <2>2. /\ \A d \in Call : d # c => calls'[d] = calls[d]
        /\ calls'[c].pc = "reused" /\ calls'[c].promise = calls[c].promise
        /\ calls'[c].jti = j /\ calls'[c].fam = f
    BY <2>1 DEF Answer, CallRecord
  <2>3. \A g \in Family : g # f => /\ families'[g] = families[g]
                                   /\ IsRevoked(g)' = IsRevoked(g)
    BY <2>1 DEF IsRevoked
  <2>4. families'[f] = None /\ IsRevoked(f)' /\ revoked'[f] >= Ttl
    BY <2>1 DEF IsRevoked
  <2>5. Horizon'
    BY <2>1, <2>3, <2>4 DEF ChainInv, Horizon
  <2>6. OwnEntries'
    BY <1>2, <2>2, <2>3, <2>4 DEF ChainInv, OwnEntries
  <2>7. LeaderHoldsEntry'
    <3>1. \A d \in Call : calls'[d].pc = "leading" /\ ~IsRevoked(calls[d].fam)' =>
             /\ d # c /\ calls'[d] = calls[d] /\ calls[d].fam # f
             /\ ~IsRevoked(calls[d].fam) /\ families'[calls[d].fam] = families[calls[d].fam]
      BY <2>2, <2>3, <2>4
    <3>2. \A g \in Family : families'[g] # None /\ heap[families[g]].pending # None =>
             /\ g # f /\ families'[g] = families[g]
             /\ heap[families[g]].pending \in Call \ {c}
      BY <1>2, <2>3, <2>4 DEF ChainInv, LeaderHoldsEntry, Entry
    <3> QED
      BY <2>1, <2>2, <3>1, <3>2 DEF ChainInv, LeaderHoldsEntry
  <2>8. PromiseStates'
    BY <1>2, <2>2 DEF ChainInv, PromiseStates
  <2>9. ActiveUnredeemed'
    <3>1. \A d \in Call : calls'[d].promise = "resolved" /\ ~IsRevoked(calls[d].fam)' =>
             /\ d # c /\ calls'[d] = calls[d] /\ calls[d].fam \in Family \ {f}
             /\ ~IsRevoked(calls[d].fam) /\ families'[calls[d].fam] = families[calls[d].fam]
      BY <1>2, <2>2, <2>3, <2>4 DEF ChainInv, PromiseStates
    <3> QED
      BY <1>2, <2>1, <2>2, <3>1 DEF ChainInv, ActiveUnredeemed
  <2>10. TokensLinked'
    BY <1>2, <1>3, <2>2 DEF ChainInv, TokensLinked
  <2>11. GraceIsSuccessor'
    <3>1. \A g \in Family : families'[g] # None => g # f /\ families'[g] = families[g]
      BY <2>3, <2>4
    <3>2. \A g \in Family : families[g] # None /\ heap[families[g]].grace.next # None =>
             heap[families[g]].grace.next \in Call \ {c}
      BY <1>2 DEF ChainInv, GraceIsSuccessor, Entry, GraceRecord
    <3> QED
      BY <2>1, <2>2, <3>1, <3>2 DEF ChainInv, GraceIsSuccessor
  <2>12. FollowsSameToken'
    BY <1>2, <2>2 DEF ChainInv, FollowsSameToken, SameToken
  <2>13. AnswersAreSuccessors'
    BY <1>2, <2>2 DEF ChainInv, AnswersAreSuccessors, Answered, SameToken
  <2>14. OneMint'
    BY <1>2, <2>2 DEF ChainInv, OneMint, SameToken
  <2> QED
    BY <2>5, <2>6, <2>7, <2>8, <2>9, <2>10, <2>11, <2>12, <2>13, <2>14 DEF Core
<1>8. CASE Lead(c, f, j)
  <2> DEFINE o == IF families[f] # None THEN families[f] ELSE c
  <2>0. /\ UNCHANGED <<now, restarts, revoked>> /\ o \in Call /\ ~IsRevoked(f)
        /\ Store(families, Within(lru, Tracked(families)), f, o)
        /\ heap' = [heap EXCEPT ![o] = IF families[f] # None THEN Leased(heap[o], c)
                                                             ELSE FreshEntry(j, c)]
        /\ calls' = [calls EXCEPT ![c] =
                       [calls[c] EXCEPT !.pc = "leading", !.fam = f, !.jti = j, !.at = now,
                                        !.entry = o, !.promise = "pending"]]
    BY <1>1, <1>8 DEF Lead, Live
  <2>1. families' = [families EXCEPT ![f] = o]
    <3> HIDE DEF o
    <3> QED
      BY <2>0, StoreExact DEF MapType
  <2>2. /\ \A d \in Call : d # c => calls'[d] = calls[d]
        /\ calls'[c].pc = "leading" /\ calls'[c].promise = "pending"
        /\ calls'[c].jti = j /\ calls'[c].fam = f /\ calls'[c].entry = o
    BY <2>0 DEF CallRecord
  <2>3. /\ \A x \in Call : x # o => heap'[x] = heap[x]
        /\ heap'[o].pending = c /\ heap'[o].active = j /\ heap'[o].expires >= Ttl
        /\ heap'[o].grace = (IF families[f] # None THEN heap[o].grace ELSE NoGrace)
    <3>1. CASE families[f] # None
      <4>1. heap[o].active = j /\ heap[o].expires >= Ttl
        BY <1>1, <1>8, <3>1 DEF Lead, Live, EntryOf, ChainInv, Horizon
      <4> QED
        BY <2>0, <3>1, <4>1 DEF Leased, Entry
    <3>2. CASE families[f] = None
      BY <2>0, <3>2 DEF FreshEntry
    <3> QED
      BY <3>1, <3>2
  <2>4. \A g \in Family : g # f /\ families[g] # None => families[g] # o /\ families[g] \in Call
    BY <1>2 DEF ChainInv, OwnEntries
  \* No other call leads f: it would be pending on the entry for the same token.
  <2>5. ASSUME NEW d \in Call, calls[d].pc = "leading", ~IsRevoked(calls[d].fam)
        PROVE  calls[d].fam # f
    <3> SUFFICES ASSUME calls[d].fam = f PROVE FALSE
      OBVIOUS
    <3>1. /\ families[f] = calls[d].entry /\ calls[d].entry \in Call
          /\ heap[calls[d].entry].pending = d /\ heap[calls[d].entry].active = calls[d].jti
      BY <2>5 DEF ChainInv, LeaderHoldsEntry
    <3>2. heap[families[f]].active = j /\ ~(calls[heap[families[f]].pending].jti = j)
      BY <1>1, <1>8, <3>1 DEF Lead, Live, EntryOf, PendingOn
    <3> QED
      BY <3>1, <3>2
  <2> HIDE DEF o
  <2>6. Horizon'
    BY <2>0, <2>1, <2>3, <2>4 DEF ChainInv, Horizon
  <2>7. OwnEntries'
    <3>1. o = families[f] \/ o = c
      BY DEF o
    <3> QED
      BY <1>2, <2>0, <2>1, <2>2, <2>4, <3>1 DEF ChainInv, OwnEntries
  <2>8. LeaderHoldsEntry'
    <3>1. ASSUME NEW d \in Call, calls'[d].pc = "leading", ~IsRevoked(calls[d].fam)'
          PROVE  /\ families'[calls'[d].fam] = calls'[d].entry
                 /\ heap'[calls'[d].entry].pending = d
                 /\ heap'[calls'[d].entry].active = calls'[d].jti
      <4>1. CASE d = c
        BY <2>0, <2>1, <2>2, <2>3, <4>1
      <4>2. CASE d # c
        <5>1. /\ calls'[d] = calls[d] /\ calls[d].pc = "leading"
              /\ ~IsRevoked(calls[d].fam) /\ calls[d].fam \in Family \ {f}
          BY <2>0, <2>2, <2>5, <3>1, <4>2 DEF IsRevoked
        <5>2. /\ families[calls[d].fam] = calls[d].entry /\ calls[d].entry \in Call
              /\ heap[calls[d].entry].pending = d
              /\ heap[calls[d].entry].active = calls[d].jti
          BY <5>1 DEF ChainInv, LeaderHoldsEntry
        <5>3. calls[d].entry # o
          BY <2>4, <5>1, <5>2
        <5> QED
          BY <2>1, <2>3, <5>1, <5>2, <5>3
      <4> QED
        BY <4>1, <4>2
    <3>2. ASSUME NEW g \in Family, families'[g] # None, heap'[families'[g]].pending # None
          PROVE  /\ calls'[heap'[families'[g]].pending].pc = "leading"
                 /\ calls'[heap'[families'[g]].pending].fam = g
      <4>1. CASE g = f
        BY <2>1, <2>2, <2>3, <4>1
      <4>2. CASE g # f
        <5>1. families'[g] = families[g] /\ heap'[families[g]] = heap[families[g]]
          BY <2>1, <2>3, <2>4, <3>2, <4>2
        <5>2. heap[families[g]].pending \in Call \ {c}
          BY <1>2, <3>2, <5>1 DEF ChainInv, LeaderHoldsEntry, Entry
        <5> QED
          BY <2>2, <3>2, <5>1, <5>2 DEF ChainInv, LeaderHoldsEntry
      <4> QED
        BY <4>1, <4>2
    <3> QED
      BY <3>1, <3>2 DEF LeaderHoldsEntry
  <2>9. PromiseStates'
    BY <1>2, <2>2 DEF ChainInv, PromiseStates
  <2>10. ActiveUnredeemed'
    <3>1. ASSUME NEW d \in Call, calls'[d].promise = "resolved", ~IsRevoked(calls[d].fam)'
          PROVE  /\ families'[calls'[d].fam] # None
                 /\ heap'[families'[calls'[d].fam]].active # calls'[d].jti
      <4>1. /\ d # c /\ calls'[d] = calls[d] /\ calls[d].fam \in Family
            /\ ~IsRevoked(calls[d].fam)
        BY <2>0, <2>2, <3>1 DEF IsRevoked, ChainInv, PromiseStates
      <4>2. /\ families[calls[d].fam] # None
            /\ heap[families[calls[d].fam]].active # calls[d].jti
        BY <3>1, <4>1 DEF ChainInv, ActiveUnredeemed
      <4>3. CASE calls[d].fam = f
        <5>1. heap[families[f]].active = j
          BY <1>1, <1>8, <4>2, <4>3 DEF Lead, Live, EntryOf
        <5> QED
          BY <2>0, <2>1, <2>3, <4>1, <4>2, <4>3, <5>1
      <4>4. CASE calls[d].fam # f
        BY <2>1, <2>3, <2>4, <4>1, <4>2, <4>4
      <4> QED
        BY <4>3, <4>4
    <3> QED
      BY <3>1 DEF ActiveUnredeemed
  <2>11. TokensLinked'
    BY <1>2, <1>3, <2>2 DEF ChainInv, TokensLinked
  <2>12. GraceIsSuccessor'
    <3>1. ASSUME NEW g \in Family, families'[g] # None, heap'[families'[g]].grace.next # None
          PROVE  /\ calls'[heap'[families'[g]].grace.next].promise = "resolved"
                 /\ calls'[heap'[families'[g]].grace.next].fam = g
                 /\ calls'[heap'[families'[g]].grace.next].jti = heap'[families'[g]].grace.prev
      <4>1. families[g] # None /\ heap'[families'[g]].grace = heap[families[g]].grace
        <5>1. CASE g = f
          BY <2>0, <2>1, <2>3, <3>1, <5>1 DEF NoGrace, o
        <5>2. CASE g # f
          BY <2>1, <2>3, <2>4, <3>1, <5>2
        <5> QED
          BY <5>1, <5>2
      <4>2. heap[families[g]].grace.next \in Call \ {c}
        BY <1>2, <3>1, <4>1 DEF ChainInv, GraceIsSuccessor, Entry, GraceRecord
      <4> QED
        BY <2>2, <3>1, <4>1, <4>2 DEF ChainInv, GraceIsSuccessor
    <3> QED
      BY <3>1 DEF GraceIsSuccessor
  <2>13. FollowsSameToken'
    BY <1>2, <2>2 DEF ChainInv, FollowsSameToken, SameToken
  <2>14. AnswersAreSuccessors'
    BY <1>2, <2>2 DEF ChainInv, AnswersAreSuccessors, Answered, SameToken
  <2>15. OneMint'
    BY <1>2, <2>2 DEF ChainInv, OneMint, SameToken
  <2> QED
    BY <2>6, <2>7, <2>8, <2>9, <2>10, <2>11, <2>12, <2>13, <2>14, <2>15 DEF Core
<1> QED
  BY <1>4, <1>5, <1>6, <1>7, <1>8 DEF BeginRotation

\* A committed exchange replaces the active token by its own, and nobody else
\* leads or redeemed the token it replaces.
LEMMA CommitStep ==
    ASSUME ConstantsAssumption, NoPressure, ChainInv, NEW c \in Call, Commit(c)
    PROVE  Core' /\ families' = families /\ revoked' = revoked
<1> USE Basics
<1> DEFINE f == calls[c].fam
           e == families[f]
<1>1. /\ calls[c].pc = "leading" /\ f \in Family /\ ~IsRevoked(f)
      /\ e = calls[c].entry /\ e \in Call
      /\ heap[e].pending = c /\ heap[e].active = calls[c].jti
  BY DEF Commit, RevokedAtCommit, ChainInv, LeaderHoldsEntry
<1>2. /\ UNCHANGED <<now, restarts>> /\ heap' = [heap EXCEPT ![e] = Advanced(e, c)]
      /\ Store(families, lru, f, e) /\ revoked' = [revoked EXCEPT ![f] = 0]
      /\ Settle(c, "ok", "resolved", c)
  BY <1>1 DEF Commit
<1>3. families' = families /\ revoked' = revoked
  <2>1. revoked[f] = 0
    BY <1>1
  <2> HIDE DEF f, e
  <2>2. families' = [families EXCEPT ![f] = e]
    BY <1>1, <1>2, StoreExact DEF MapType
  <2> QED
    BY <1>2, <2>1, <2>2 DEF e
<1>4. /\ \A x \in Call : x # e => heap'[x] = heap[x]
      /\ heap'[e].active = c /\ heap'[e].pending = None /\ heap'[e].expires >= Ttl
      /\ heap'[e].grace.next = c /\ heap'[e].grace.prev = calls[c].jti
  <2>1. PendingAfter(e, c) = None
    BY <1>1 DEF PendingAfter, PendingSameJti
  <2> HIDE DEF e
  <2> QED
    BY <1>1, <1>2, <2>1 DEF Advanced
<1>5. /\ \A d \in Call : d # c => calls'[d] = calls[d]
      /\ calls'[c].pc = "ok" /\ calls'[c].promise = "resolved" /\ calls'[c].got = c
      /\ calls'[c].fam = f /\ calls'[c].jti = calls[c].jti
  BY <1>2 DEF Settle, CallRecord
<1>6. \A g \in Family : g # f /\ families[g] # None => families[g] # e /\ families[g] \in Call
  BY <1>1 DEF ChainInv, OwnEntries
<1>7. /\ calls[c].promise = "pending"
      /\ \A d \in Call : calls[d].jti # c
  BY <1>1 DEF ChainInv, PromiseStates, TokensLinked
<1>8. \A d \in Call : calls[d].promise = "resolved" => ~SameToken(d, c)
  BY <1>1 DEF ChainInv, ActiveUnredeemed, SameToken
<1> HIDE DEF e
<1>9. Horizon'
  BY <1>2, <1>3, <1>4, <1>6 DEF ChainInv, Horizon
<1>10. OwnEntries'
  BY <1>3, <1>5 DEF ChainInv, OwnEntries
<1>11. LeaderHoldsEntry'
  <2>1. ASSUME NEW d \in Call, calls'[d].pc = "leading", ~IsRevoked(calls[d].fam)
        PROVE  /\ families[calls'[d].fam] = calls'[d].entry
               /\ heap'[calls'[d].entry].pending = d
               /\ heap'[calls'[d].entry].active = calls'[d].jti
    <3>1. d # c /\ calls'[d] = calls[d]
      BY <1>5, <2>1
    <3>2. /\ families[calls[d].fam] = calls[d].entry /\ calls[d].entry \in Call
          /\ heap[calls[d].entry].pending = d /\ heap[calls[d].entry].active = calls[d].jti
      BY <2>1, <3>1 DEF ChainInv, LeaderHoldsEntry
    <3> QED
      BY <1>1, <1>4, <3>1, <3>2
  <2>2. ASSUME NEW g \in Family, families[g] # None, heap'[families[g]].pending # None
        PROVE  /\ calls'[heap'[families[g]].pending].pc = "leading"
               /\ calls'[heap'[families[g]].pending].fam = g
    <3>1. families[g] # e /\ heap'[families[g]] = heap[families[g]]
      BY <1>4, <1>6, <2>2 DEF e
    <3>2. /\ heap[families[g]].pending \in Call
          /\ calls[heap[families[g]].pending].pc = "leading"
          /\ calls[heap[families[g]].pending].fam = g
      BY <2>2, <3>1 DEF ChainInv, LeaderHoldsEntry, Entry
    <3>3. heap[families[g]].pending # c
      BY <1>6, <2>2, <3>1, <3>2 DEF e
    <3> QED
      BY <1>5, <3>1, <3>2, <3>3
  <2>3. \A d \in Call : IsRevoked(calls[d].fam)' <=> revoked'[calls'[d].fam] > now'
    BY DEF IsRevoked
  <2>4. \A d \in Call : IsRevoked(calls[d].fam) => IsRevoked(calls[d].fam)'
    BY <1>2, <1>3, <1>5 DEF IsRevoked
  <2> QED
    BY <1>3, <2>1, <2>2, <2>4 DEF LeaderHoldsEntry
<1>12. PromiseStates'
  BY <1>1, <1>5 DEF ChainInv, PromiseStates
<1>13. ActiveUnredeemed'
  <2>1. ASSUME NEW d \in Call, calls'[d].promise = "resolved", ~IsRevoked(calls[d].fam)'
        PROVE  /\ families'[calls'[d].fam] # None
               /\ heap'[families'[calls'[d].fam]].active # calls'[d].jti
    <3>1. calls'[d].jti # c /\ calls'[d].fam = calls[d].fam /\ calls[d].fam \in Family
      BY <1>1, <1>5, <1>7, <2>1 DEF ChainInv, PromiseStates
    <3>2. CASE calls[d].fam = f
      BY <1>1, <1>3, <1>4, <3>1, <3>2 DEF e
    <3>3. CASE calls[d].fam # f
      <4>1. d # c /\ calls'[d] = calls[d] /\ ~IsRevoked(calls[d].fam)
        BY <1>2, <1>3, <1>5, <2>1, <3>1, <3>3 DEF IsRevoked
      <4> QED
        BY <1>3, <1>4, <1>6, <2>1, <3>1, <3>3, <4>1 DEF ChainInv, ActiveUnredeemed
    <3> QED
      BY <3>2, <3>3
  <2> QED
    BY <2>1 DEF ActiveUnredeemed
<1>14. TokensLinked'
  BY <1>5 DEF ChainInv, TokensLinked
<1>15. GraceIsSuccessor'
  <2>1. ASSUME NEW g \in Family, families[g] # None, heap'[families[g]].grace.next # None
        PROVE  /\ calls'[heap'[families[g]].grace.next].promise = "resolved"
               /\ calls'[heap'[families[g]].grace.next].fam = g
               /\ calls'[heap'[families[g]].grace.next].jti = heap'[families[g]].grace.prev
    <3>1. CASE g = f
      BY <1>4, <1>5, <3>1 DEF e
    <3>2. CASE g # f
      <4>1. heap'[families[g]] = heap[families[g]]
        BY <1>4, <1>6, <2>1, <3>2
      <4>2. heap[families[g]].grace.next \in Call \ {c}
        BY <1>6, <1>7, <2>1, <3>2, <4>1 DEF ChainInv, GraceIsSuccessor, Entry, GraceRecord
      <4> QED
        BY <1>5, <2>1, <4>1, <4>2 DEF ChainInv, GraceIsSuccessor
    <3> QED
      BY <3>1, <3>2
  <2> QED
    BY <1>3, <2>1 DEF GraceIsSuccessor
<1>16. FollowsSameToken'
  <2>1. \A d \in Call : /\ calls'[d].fam = calls[d].fam /\ calls'[d].jti = calls[d].jti
                        /\ calls[d].pc # "idle" => calls'[d].pc # "idle"
                        /\ calls'[d].pc = "following" => calls'[d] = calls[d]
    BY <1>5
  <2> QED
    BY <2>1 DEF ChainInv, FollowsSameToken, SameToken
<1>17. AnswersAreSuccessors'
  BY <1>5 DEF ChainInv, AnswersAreSuccessors, Answered, SameToken
<1>18. OneMint'
  BY <1>5, <1>8 DEF ChainInv, OneMint, SameToken
<1> QED
  BY <1>3, <1>9, <1>10, <1>11, <1>12, <1>13, <1>14, <1>15, <1>16, <1>17, <1>18 DEF Core

\* A failed exchange only releases the lease.
LEMMA FailStep ==
    ASSUME ConstantsAssumption, NoPressure, ChainInv, NEW c \in Call, Fail(c)
    PROVE  /\ Core' /\ families' = families /\ revoked' = revoked
           /\ \A x \in Call : heap'[x].active = heap[x].active
<1> USE Basics
<1> DEFINE f == calls[c].fam
           e == families[f]
<1>1. /\ calls[c].pc = "leading" /\ f \in Family /\ UNCHANGED <<now, restarts, revoked>>
      /\ Settle(c, "failed", "rejected", None) /\ calls[c].promise = "pending"
      /\ IF e # None /\ PendingSameJti(e, c)
         THEN heap' = [heap EXCEPT ![e].pending = None] /\ Store(families, lru, f, e)
         ELSE UNCHANGED <<heap, families, lru>>
  BY DEF Fail, ChainInv, PromiseStates
<1>2. /\ \A d \in Call : d # c => calls'[d] = calls[d]
      /\ calls'[c].pc = "failed" /\ calls'[c].promise = "rejected"
      /\ calls'[c].fam = f /\ calls'[c].jti = calls[c].jti
  BY <1>1 DEF Settle, CallRecord
<1>3. CASE IsRevoked(f)
  <2>1. UNCHANGED <<now, restarts, families, heap, revoked>>
    BY <1>1, <1>3 DEF ChainInv, TombstoneClosed
  <2>2. calls[c].jti \in Call => calls[calls[c].jti].promise = "resolved"
    BY DEF ChainInv, TokensLinked
  <2>3. Core'
    BY <1>1, <1>2, <1>3, <2>1, <2>2, QuietStep
  <2> QED
    BY <2>1, <2>3
<1>4. CASE ~IsRevoked(f)
  <2>1. /\ e = calls[c].entry /\ e \in Call
        /\ heap[e].pending = c /\ heap[e].active = calls[c].jti
    BY <1>1, <1>4 DEF ChainInv, LeaderHoldsEntry
  <2>2. heap' = [heap EXCEPT ![e].pending = None] /\ Store(families, lru, f, e)
    BY <1>1, <2>1 DEF PendingSameJti
  <2>3. families' = families
    <3> HIDE DEF f, e
    <3>1. families' = [families EXCEPT ![f] = e]
      BY <1>1, <2>1, <2>2, StoreExact DEF MapType
    <3> QED
      BY <3>1 DEF e
  <2>4. /\ \A x \in Call : x # e => heap'[x] = heap[x]
        /\ heap'[e].pending = None
        /\ \A x \in Call : /\ heap'[x].active = heap[x].active
                           /\ heap'[x].expires = heap[x].expires
                           /\ heap'[x].grace = heap[x].grace
    <3> HIDE DEF e
    <3> QED
      BY <2>1, <2>2 DEF Entry
  <2>5. \A g \in Family : g # f /\ families[g] # None => families[g] # e /\ families[g] \in Call
    BY <1>1, <2>1 DEF ChainInv, OwnEntries
  <2>6. \A d \in Call : /\ calls'[d].fam = calls[d].fam /\ calls'[d].jti = calls[d].jti
                        /\ calls[d].pc # "idle" => calls'[d].pc # "idle"
                        /\ calls'[d].pc \in {"idle", "following", "ok"} => calls'[d] = calls[d]
                        /\ calls'[d].promise = "resolved" <=> calls[d].promise = "resolved"
                        /\ calls[d].promise = "resolved" => calls'[d] = calls[d]
    BY <1>1, <1>2
  <2>7. \A d \in Call : IsRevoked(calls[d].fam)' <=> IsRevoked(calls[d].fam)
    BY <1>1, <2>6 DEF IsRevoked
  <2>8. \A g \in Family : families[g] # None => families[g] \in Call
    OBVIOUS
  <2> HIDE DEF e
  <2>9. Horizon'
    BY <1>1, <2>3, <2>4, <2>8 DEF ChainInv, Horizon
  <2>10. OwnEntries'
    BY <2>3, <2>6, <2>8 DEF ChainInv, OwnEntries
  <2>11. LeaderHoldsEntry'
    <3>1. ASSUME NEW d \in Call, calls'[d].pc = "leading", ~IsRevoked(calls[d].fam)
          PROVE  /\ families[calls'[d].fam] = calls'[d].entry
                 /\ heap'[calls'[d].entry].pending = d
                 /\ heap'[calls'[d].entry].active = calls'[d].jti
      <4>1. d # c /\ calls'[d] = calls[d]
        BY <1>2, <3>1
      <4>2. /\ families[calls[d].fam] = calls[d].entry /\ calls[d].entry \in Call
            /\ heap[calls[d].entry].pending = d /\ heap[calls[d].entry].active = calls[d].jti
        BY <3>1, <4>1 DEF ChainInv, LeaderHoldsEntry
      <4> QED
        BY <2>1, <2>4, <4>1, <4>2
    <3>2. ASSUME NEW g \in Family, families[g] # None, heap'[families[g]].pending # None
          PROVE  /\ calls'[heap'[families[g]].pending].pc = "leading"
                 /\ calls'[heap'[families[g]].pending].fam = g
      <4>1. families[g] # e /\ heap'[families[g]] = heap[families[g]]
        BY <2>4, <2>8, <3>2
      <4>2. /\ heap[families[g]].pending \in Call
            /\ calls[heap[families[g]].pending].pc = "leading"
            /\ calls[heap[families[g]].pending].fam = g
        BY <3>2, <4>1 DEF ChainInv, LeaderHoldsEntry, Entry
      <4>3. heap[families[g]].pending # c
        BY <4>1, <4>2 DEF e
      <4> QED
        BY <1>2, <4>1, <4>2, <4>3
    <3> QED
      BY <2>3, <2>7, <3>1, <3>2 DEF LeaderHoldsEntry
  <2>12. PromiseStates'
    BY <1>1, <1>2 DEF ChainInv, PromiseStates
  <2>13. ActiveUnredeemed'
    BY <2>3, <2>4, <2>6, <2>7, <2>8 DEF ChainInv, ActiveUnredeemed, PromiseStates
  <2>14. TokensLinked'
    BY <2>6 DEF ChainInv, TokensLinked
  <2>15. GraceIsSuccessor'
    <3>1. \A g \in Family : families[g] # None => heap[families[g]].grace.next \in Call \cup {None}
      BY DEF Entry, GraceRecord
    <3> QED
      BY <2>3, <2>4, <2>6, <2>8, <3>1 DEF ChainInv, GraceIsSuccessor
  <2>16. FollowsSameToken'
    BY <2>6 DEF ChainInv, FollowsSameToken, SameToken
  <2>17. AnswersAreSuccessors'
    BY <2>6 DEF ChainInv, AnswersAreSuccessors, Answered, SameToken
  <2>18. OneMint'
    BY <2>6 DEF ChainInv, OneMint, SameToken
  <2>19. Core'
    BY <2>9, <2>10, <2>11, <2>12, <2>13, <2>14, <2>15, <2>16, <2>17, <2>18 DEF Core
  <2> QED
    BY <1>1, <2>3, <2>4, <2>19
<1> QED
  BY <1>3, <1>4

\* A follower hands on what its leader's promise was settled with.
LEMMA DeliverStep ==
    ASSUME ConstantsAssumption, NoPressure, ChainInv, NEW c \in Call, Deliver(c)
    PROVE  Core'
<1> USE Basics
<1> DEFINE l == calls[c].leader
<1>1. /\ calls[c].pc = "following" /\ calls[c].promise \notin {"pending", "resolved"}
      /\ UNCHANGED <<now, restarts, families, heap, revoked>>
      /\ l \in Call /\ SameToken(c, l)
  BY DEF Deliver, ChainInv, PromiseStates, FollowsSameToken
<1>2. calls[c].jti \in Call => calls[calls[c].jti].promise = "resolved"
  BY DEF ChainInv, TokensLinked
<1>3. CASE calls[l].promise = "resolved"
  <2>1. /\ \A d \in Call : d # c => calls'[d] = calls[d]
        /\ calls'[c].pc = "ok" /\ calls'[c].promise = "none" /\ calls'[c].got = l
        /\ calls'[c].fam = calls[c].fam /\ calls'[c].jti = calls[c].jti
    <3>1. Settle(c, "ok", "none", l)
      BY <1>3 DEF Deliver, RotatedToken
    <3>2. calls[c] \in CallRecord
      OBVIOUS
    <3> HIDE DEF l
    <3> QED
      BY <3>1, <3>2 DEF Settle, CallRecord
  <2> HIDE DEF l
  <2> QED
    BY <1>1, <1>2, <1>3, <2>1, QuietStep DEF SameToken
<1>4. CASE calls[l].promise # "resolved"
  <2>1. /\ \A d \in Call : d # c => calls'[d] = calls[d]
        /\ calls'[c].pc = "failed" /\ calls'[c].promise = "none"
        /\ calls'[c].fam = calls[c].fam /\ calls'[c].jti = calls[c].jti
    <3>1. Settle(c, "failed", "none", None)
      BY <1>4 DEF Deliver
    <3>2. calls[c] \in CallRecord
      OBVIOUS
    <3> QED
      BY <3>1, <3>2 DEF Settle, CallRecord
  <2> QED
    BY <1>1, <1>2, <2>1, QuietStep
<1> QED
  BY <1>3, <1>4

\* So does a commit that finds the family revoked.
LEMMA CommitRevokedStep ==
    ASSUME ConstantsAssumption, NoPressure, ChainInv, NEW c \in Call, CommitRevoked(c)
    PROVE  Core'
<1> USE Basics
<1>1. /\ calls[c].pc = "leading" /\ IsRevoked(calls[c].fam) /\ calls[c].promise # "resolved"
      /\ UNCHANGED <<now, restarts, families, heap, revoked>>
  BY DEF CommitRevoked, RevokedAtCommit, ChainInv, PromiseStates
<1>2. /\ \A d \in Call : d # c => calls'[d] = calls[d]
      /\ calls'[c].pc = "refused" /\ calls'[c].promise = "rejected"
      /\ calls'[c].fam = calls[c].fam /\ calls'[c].jti = calls[c].jti
  BY DEF CommitRevoked, Settle, CallRecord
<1>3. calls[c].jti \in Call => calls[calls[c].jti].promise = "resolved"
  BY DEF ChainInv, TokensLinked
<1> QED
  BY <1>1, <1>2, <1>3, QuietStep

\* Time alone changes nothing within the horizon.
LEMMA TickStep ==
    ASSUME ConstantsAssumption, NoPressure, ChainInv,
           Tick \/ UNCHANGED vars
    PROVE  /\ Core' /\ UNCHANGED <<families, heap, revoked, calls>>
           /\ \A f \in Family : IsRevoked(f)' <=> IsRevoked(f)
<1> USE Basics
<1>1. /\ UNCHANGED <<families, heap, revoked, calls, restarts>>
      /\ now' \in Nat /\ now' <= MaxTime /\ now' < Ttl
  BY DEF Tick, vars, NoPressure
<1>2. \A f \in Family : IsRevoked(f)' <=> IsRevoked(f)
  BY <1>1 DEF IsRevoked, ChainInv, Horizon
<1>3. Horizon'
  BY <1>1 DEF ChainInv, Horizon
<1>4. OwnEntries' /\ PromiseStates' /\ TokensLinked' /\ GraceIsSuccessor'
  BY <1>1 DEF ChainInv, OwnEntries, PromiseStates, TokensLinked, GraceIsSuccessor
<1>5. FollowsSameToken' /\ AnswersAreSuccessors' /\ OneMint'
  BY <1>1 DEF ChainInv, FollowsSameToken, AnswersAreSuccessors, OneMint, SameToken, Answered
<1>6. LeaderHoldsEntry'
  <2>1. \A c \in Call : calls[c].pc = "leading" => (IsRevoked(calls[c].fam)' <=> IsRevoked(calls[c].fam))
    BY <1>1, <1>2 DEF IsRevoked
  <2> QED
    BY <1>1, <2>1 DEF ChainInv, LeaderHoldsEntry
<1>7. ActiveUnredeemed'
  <2>1. \A c \in Call : calls[c].promise = "resolved" => (IsRevoked(calls[c].fam)' <=> IsRevoked(calls[c].fam))
    BY <1>1, <1>2 DEF IsRevoked, ChainInv, PromiseStates
  <2> QED
    BY <1>1, <2>1 DEF ChainInv, ActiveUnredeemed
<1> QED
  BY <1>1, <1>2, <1>3, <1>4, <1>5, <1>6, <1>7 DEF Core

\* Every step keeps the invariant.
LEMMA ChainStep ==
    ASSUME ConstantsAssumption, NoPressure, ChainInv, [Next]_vars
    PROVE  ChainInv'
<1>1. TypeOK' /\ TombstoneClosed'
  BY TypeStep, TombstoneStep DEF ChainInv
<1>2. ~Restart
  BY DEF Restart, NoPressure, ChainInv, Horizon, TypeOK, ConstantsAssumption
<1>3. Core'
  BY <1>2, BeginStep, CommitStep, CommitRevokedStep, FailStep, DeliverStep, TickStep DEF Next
<1> QED
  BY <1>1, <1>3 DEF ChainInv, Core

\* Without pressure from the caps, the clock or restarts, ChainInv always holds.
THEOREM ChainInvariant == ASSUME NoPressure PROVE Spec => []ChainInv
<1>1. Init => ChainInv
  <2> SUFFICES ASSUME Init PROVE ChainInv
    OBVIOUS
  <2>1. TypeOK
    BY ConstantsAssumption, TypeInit
  <2>2. Horizon /\ TombstoneClosed
    BY ConstantsAssumption DEF Init, Horizon, TombstoneClosed
  <2>3. \A c \in Call : calls[c] = IdleCall
    BY DEF Init
  <2>4. \A f \in Family : families[f] = None
    BY DEF Init
  <2>5. OwnEntries /\ LeaderHoldsEntry /\ PromiseStates /\ ActiveUnredeemed
    BY <2>3, <2>4 DEF OwnEntries, LeaderHoldsEntry, PromiseStates, ActiveUnredeemed, IdleCall
  <2>6. TokensLinked /\ GraceIsSuccessor /\ FollowsSameToken /\ AnswersAreSuccessors /\ OneMint
    BY <2>3, <2>4, ConstantsAssumption
       DEF TokensLinked, GraceIsSuccessor, FollowsSameToken, AnswersAreSuccessors, OneMint,
           Answered, IdleCall
  <2> QED
    BY <2>1, <2>2, <2>5, <2>6 DEF ChainInv
<1>2. ChainInv /\ [Next]_vars => ChainInv'
  BY ConstantsAssumption, ChainStep
<1> QED
  BY <1>1, <1>2, PTL DEF Spec

\* Two redemptions of one token never end with different new tokens.
THEOREM OneSuccessor == ASSUME NoPressure PROVE Spec => []SingleSuccessor
<1>1. ChainInv => SingleSuccessor
  BY DEF ChainInv, SingleSuccessor, AnswersAreSuccessors, OneMint, SameToken
<1> QED
  BY <1>1, ChainInvariant, PTL

\* The exchanges made stay the same when no call resolves its promise.
LEMMA LinksSame ==
    ASSUME \A d \in Call : calls'[d].promise = "resolved" <=> calls[d].promise = "resolved",
           \A d \in Call : calls[d].promise = "resolved" => calls'[d] = calls[d]
    PROVE  Links' = Links
<1> DEFINE D == {d \in Call : calls[d].promise = "resolved"}
           DP == {d \in Call : calls'[d].promise = "resolved"}
<1>1. DP = D /\ \A d \in D : calls'[d] = calls[d]
  OBVIOUS
<1>2. Links' = {<<calls'[d].fam, calls'[d].jti, d>> : d \in DP}
  BY DEF Links
<1>3. Links = {<<calls[d].fam, calls[d].jti, d>> : d \in D}
  BY DEF Links
<1> HIDE DEF D, DP
<1> QED
  BY <1>1, <1>2, <1>3

\* A redemption that does not settle an exchange is a step of the abstract chain
\* only when it detects reuse.
LEMMA BeginRefines ==
    ASSUME ConstantsAssumption, NoPressure, ChainInv, NEW c \in Call, NEW f \in Family,
           NEW j \in Jti, BeginRotation(c, f, j)
    PROVE  /\ Links' = Links
           /\ Redeemable' = Redeemable \/ Chain!Kill(f)
<1> USE Basics
<1>1. /\ KeptFamilies = families /\ KeptRevoked = revoked
  BY NoSweep DEF ChainInv
<1>2. calls[c].promise \notin {"pending", "resolved"} /\ Issued(f, j) /\ now' = now
  BY DEF BeginRotation, RejectStale, RejectRevoked, JoinPending, ReplayGrace, DetectReuse,
         Lead, Presents, ChainInv, PromiseStates
<1>3. Links' = Links
  <2>1. \A d \in Call : /\ calls'[d].promise = "resolved" <=> calls[d].promise = "resolved"
                        /\ calls[d].promise = "resolved" => calls'[d] = calls[d]
    <3>1. /\ \A d \in Call : d # c => calls'[d] = calls[d]
          /\ calls'[c].promise \in {calls[c].promise, "pending"}
      <4> calls[c] \in CallRecord
        OBVIOUS
      <4>1. ASSUME NEW pc, NEW got, Answer(c, f, j, pc, got)
            PROVE  /\ \A d \in Call : d # c => calls'[d] = calls[d]
                   /\ calls'[c].promise = calls[c].promise
        BY <4>1 DEF Answer, CallRecord
      <4>2. CASE RejectStale(c, f, j) \/ RejectRevoked(c, f, j) \/ DetectReuse(c, f, j)
        BY <4>1, <4>2 DEF RejectStale, RejectRevoked, DetectReuse
      <4>3. CASE ReplayGrace(c, f, j)
        BY <4>1, <4>3 DEF ReplayGrace
      <4>4. CASE JoinPending(c, f, j)
        BY <4>4 DEF JoinPending, CallRecord
      <4>5. CASE Lead(c, f, j)
        BY <4>5 DEF Lead, CallRecord
      <4> QED
        BY <4>2, <4>3, <4>4, <4>5 DEF BeginRotation
    <3> QED
      BY <1>2, <3>1
  <2> QED
    BY <2>1, LinksSame
<1>4. CASE \/ RejectStale(c, f, j) \/ RejectRevoked(c, f, j)
           \/ JoinPending(c, f, j) \/ ReplayGrace(c, f, j)
  <2>1. UNCHANGED <<now, families, heap, revoked>>
    BY <1>1, <1>4 DEF RejectStale, RejectRevoked, JoinPending, ReplayGrace, EvictExpired
  <2> QED
    BY <1>3, <2>1 DEF Redeemable, IsRevoked
<1>5. CASE DetectReuse(c, f, j)
  <2>1. /\ heap' = heap /\ families[f] # None
        /\ families' = [families EXCEPT ![f] = None]
        /\ revoked' = [revoked EXCEPT ![f] = now + Ttl]
    BY <1>1, <1>5, RevokeExact DEF DetectReuse, Live, ChainInv
  <2>2. Redeemable[f] # {}
    BY <2>1 DEF Redeemable, ChainInv, TombstoneClosed
  <2>3. /\ Redeemable'[f] = {}
        /\ \A g \in Family : g # f => Redeemable'[g] = Redeemable[g]
    BY <1>2, <2>1 DEF Redeemable, IsRevoked
  <2>4. Redeemable' = [Redeemable EXCEPT ![f] = {}]
    BY <2>3 DEF Redeemable
  <2> QED
    BY <1>3, <2>2, <2>4 DEF Chain!Kill
<1>6. CASE Lead(c, f, j)
  <2> DEFINE o == IF families[f] # None THEN families[f] ELSE c
  <2>1. /\ revoked' = revoked /\ o \in Call /\ ~IsRevoked(f)
        /\ Store(families, Within(lru, Tracked(families)), f, o)
        /\ heap' = [heap EXCEPT ![o] = IF families[f] # None THEN Leased(heap[o], c)
                                                             ELSE FreshEntry(j, c)]
        /\ families[f] # None => heap[o].active = j
    BY <1>1, <1>6 DEF Lead, Live, EntryOf
  <2>2. families' = [families EXCEPT ![f] = o]
    <3> HIDE DEF o
    <3> QED
      BY <2>1, StoreExact DEF MapType
  <2>3. \A x \in Call : (x # o \/ families[f] # None) => heap'[x].active = heap[x].active
    BY <2>1 DEF Leased, Entry
  <2>4. families[f] = None => heap'[o].active = Root
    BY <1>2, <2>1, IssuedRoot DEF FreshEntry
  <2>5. calls[c].pc = "idle"
    BY <1>6 DEF Lead, Presents
  <2>6. \A g \in Family : g # f /\ families[g] # None => families[g] # o
    BY <2>5 DEF ChainInv, OwnEntries
  <2>7. \A g \in Family : Redeemable'[g] = Redeemable[g]
    <3> SUFFICES ASSUME NEW g \in Family PROVE Redeemable'[g] = Redeemable[g]
      OBVIOUS
    <3>1. CASE g = f
      BY <1>2, <2>1, <2>2, <2>3, <2>4, <3>1 DEF Redeemable, IsRevoked
    <3>2. CASE g # f
      BY <1>2, <2>1, <2>2, <2>3, <2>6, <3>2 DEF Redeemable, IsRevoked
    <3> QED
      BY <3>1, <3>2
  <2> HIDE DEF o
  <2>8. Redeemable' = Redeemable
    BY <2>7 DEF Redeemable
  <2> QED
    BY <1>3, <2>8
<1> QED
  BY <1>3, <1>4, <1>5, <1>6 DEF BeginRotation

\* A commit is a rotation of the abstract chain.
LEMMA CommitRefines ==
    ASSUME ConstantsAssumption, NoPressure, ChainInv, NEW c \in Call, Commit(c)
    PROVE  Chain!Rotate(calls[c].fam, c)
<1> USE Basics
<1> DEFINE f == calls[c].fam
           e == families[f]
<1>1. /\ calls[c].pc = "leading" /\ f \in Family /\ ~IsRevoked(f) /\ now' = now
      /\ e \in Call /\ calls[c].promise = "pending"
  BY DEF Commit, RevokedAtCommit, ChainInv, LeaderHoldsEntry, PromiseStates
<1>2. /\ heap' = [heap EXCEPT ![e] = Advanced(e, c)] /\ Settle(c, "ok", "resolved", c)
  BY <1>1 DEF Commit
<1>3. families' = families /\ revoked' = revoked
  BY CommitStep
<1>4. /\ \A x \in Call : x # e => heap'[x] = heap[x]
      /\ heap'[e].active = c
  <2> HIDE DEF e
  <2> QED
    BY <1>1, <1>2 DEF Advanced
<1>5. Links' = Links \cup {<<f, calls[c].jti, c>>} /\ \A l \in Links : l[3] # c
  <2> DEFINE D == {d \in Call : calls[d].promise = "resolved"}
             DP == {d \in Call : calls'[d].promise = "resolved"}
  <2>1. /\ \A d \in Call \ {c} : calls'[d] = calls[d]
        /\ calls'[c].promise = "resolved"
        /\ calls'[c].fam = f /\ calls'[c].jti = calls[c].jti
    BY <1>2 DEF Settle, CallRecord
  <2>2. DP = D \cup {c} /\ c \notin D /\ \A d \in D : calls'[d] = calls[d]
    BY <1>1, <2>1
  <2>3. Links' = {<<calls'[d].fam, calls'[d].jti, d>> : d \in DP}
    BY DEF Links
  <2>4. Links = {<<calls[d].fam, calls[d].jti, d>> : d \in D}
    BY DEF Links
  <2> HIDE DEF D, DP, f
  <2> QED
    BY <2>1, <2>2, <2>3, <2>4
<1>6. \A g \in Family : g # f /\ families[g] # None => families[g] # e
  BY <1>1 DEF ChainInv, OwnEntries
<1>7. calls[c].jti \in Redeemable[f]
  BY <1>1 DEF Redeemable, ChainInv, LeaderHoldsEntry
<1> HIDE DEF f
<1>8. Redeemable' = [Redeemable EXCEPT ![f] = {c}]
  BY <1>1, <1>3, <1>4, <1>6 DEF Redeemable, IsRevoked
<1> QED
  BY <1>5, <1>7, <1>8 DEF Chain!Rotate, f

\* A failed exchange leaves the abstract chain as it is.
LEMMA FailRefines ==
    ASSUME ConstantsAssumption, NoPressure, ChainInv, NEW c \in Call, Fail(c)
    PROVE  Redeemable' = Redeemable /\ Links' = Links
<1> USE Basics
<1>1. /\ families' = families /\ revoked' = revoked /\ now' = now
      /\ \A x \in Call : heap'[x].active = heap[x].active
  BY FailStep DEF Fail
<1>2. Links' = Links
  BY LinksSame DEF Fail, Settle, CallRecord, ChainInv, PromiseStates
<1> QED
  BY <1>1, <1>2 DEF Redeemable, IsRevoked

\* Every step of the store is a step of the abstract chain or leaves it alone.
LEMMA ChainRefines ==
    ASSUME NoPressure, ChainInv, [Next]_vars
    PROVE  [Chain!Next]_<<Redeemable, Links>>
<1>1. ASSUME NEW c \in Call, NEW f \in Family, NEW j \in Jti, BeginRotation(c, f, j)
      PROVE  [Chain!Next]_<<Redeemable, Links>>
  BY <1>1, ConstantsAssumption, BeginRefines DEF Chain!Next
<1>2. ASSUME NEW c \in Call, Commit(c) PROVE Chain!Next
  <2>1. calls[c].fam \in Family
    BY <1>2, ConstantsAssumption, Basics DEF Commit
  <2> QED
    BY <1>2, <2>1, ConstantsAssumption, CommitRefines DEF Chain!Next
<1>3. ASSUME NEW c \in Call, CommitRevoked(c) \/ Deliver(c)
      PROVE  UNCHANGED <<Redeemable, Links>>
  <2>1. UNCHANGED <<now, families, heap, revoked>>
    BY <1>3 DEF CommitRevoked, Deliver
  <2>2. \A d \in Call : /\ calls'[d].promise = "resolved" <=> calls[d].promise = "resolved"
                        /\ calls[d].promise = "resolved" => calls'[d] = calls[d]
    <3>1. calls \in [Call -> CallRecord]
      BY DEF ChainInv, TypeOK
    <3> QED
      <4>1. calls[c].promise # "resolved"
        BY <1>3 DEF CommitRevoked, Deliver, ChainInv, PromiseStates
      <4>2. \E pc \in Outcome, p \in {"none", "rejected"}, got \in Call \cup {None} :
               Settle(c, pc, p, got)
        BY <1>3, ConstantsAssumption, Basics
           DEF CommitRevoked, Deliver, RotatedToken, Outcome
      <4> QED
        BY <3>1, <4>1, <4>2 DEF Settle, CallRecord
  <2> QED
    BY <2>1, <2>2, LinksSame DEF Redeemable, IsRevoked
<1>4. ASSUME NEW c \in Call, Fail(c) PROVE UNCHANGED <<Redeemable, Links>>
  BY <1>4, ConstantsAssumption, FailRefines
<1>5. CASE Tick \/ UNCHANGED vars
  <2>1. /\ UNCHANGED <<families, heap, revoked, calls>>
        /\ \A f \in Family : IsRevoked(f)' <=> IsRevoked(f)
    BY <1>5, ConstantsAssumption, TickStep
  <2> QED
    BY <2>1 DEF Redeemable, Links
<1>6. ~Restart
  BY ConstantsAssumption DEF Restart, NoPressure, ChainInv, Horizon, TypeOK
<1> QED
  BY <1>1, <1>2, <1>3, <1>4, <1>5, <1>6 DEF Next

\* The store implements the abstract chain.
THEOREM RotationImplementsChain == ASSUME NoPressure PROVE Spec => ImplementsChain
<1>1. Init => Chain!Init
  BY ConstantsAssumption DEF Init, Chain!Init, Redeemable, Links, IsRevoked, IdleCall
<1>2. ChainInv /\ [Next]_vars => [Chain!Next]_<<Redeemable, Links>>
  BY ChainRefines
<1> QED
  BY <1>1, <1>2, ChainInvariant, PTL DEF Spec, ImplementsChain, Chain!Spec, Chain!chainVars

\* The tokens of a chain that were minted and bought nothing yet.
Minted(f, j) == j = Root \/ \E i \in Jti : <<f, i, j>> \in Links
Spent(f, j) == \E c \in Call : <<f, j, c>> \in Links

\* A chain that is still open can be continued with its one unspent token.
Unspent ==
    \A f \in Family :
        Redeemable[f] = {} \/ \E a \in Jti : /\ Redeemable[f] = {a}
                                            /\ \A j \in Jti : Minted(f, j) /\ ~Spent(f, j) => j = a

\* An exchange spends the one token there was and mints the next.
LEMMA UnspentStep ==
    ASSUME NoPressure, ChainInv, Unspent, [Next]_vars
    PROVE  Unspent'
<1>1. [Chain!Next]_<<Redeemable, Links>>
  BY ChainRefines
<1> SUFFICES ASSUME NEW g \in Family
             PROVE  Redeemable'[g] = {} \/ \E a \in Jti :
                       /\ Redeemable'[g] = {a}
                       /\ \A j \in Jti : Minted(g, j)' /\ ~Spent(g, j)' => j = a
  BY DEF Unspent
<1>2. Redeemable[g] = {} \/ \E a \in Jti :
         Redeemable[g] = {a} /\ \A j \in Jti : Minted(g, j) /\ ~Spent(g, j) => j = a
  BY DEF Unspent
<1>3. DOMAIN Redeemable = Family
  BY DEF Redeemable
<1>4. CASE UNCHANGED <<Redeemable, Links>>
  BY <1>2, <1>4 DEF Minted, Spent
<1>5. ASSUME NEW f \in Family, Chain!Kill(f)
      PROVE  Redeemable'[g] \in {{}, Redeemable[g]} /\ Links' = Links
  BY <1>3, <1>5 DEF Chain!Kill, Redeemable
<1>6. ASSUME NEW f \in Family, NEW c \in Call, Chain!Rotate(f, c)
      PROVE  Redeemable'[g] = {} \/ \E a \in Jti :
                /\ Redeemable'[g] = {a}
                /\ \A j \in Jti : Minted(g, j)' /\ ~Spent(g, j)' => j = a
  <2>1. PICK i \in Redeemable[f] : Links' = Links \cup {<<f, i, c>>}
    BY <1>6 DEF Chain!Rotate
  <2>2. Redeemable' = [Redeemable EXCEPT ![f] = {c}]
    BY <1>6 DEF Chain!Rotate
  <2>3. CASE g = f
    <3>1. PICK a \in Jti : /\ Redeemable[f] = {a}
                           /\ \A j \in Jti : Minted(f, j) /\ ~Spent(f, j) => j = a
      BY <1>2, <2>3
    <3>2. i = a /\ Spent(f, a)' /\ c \in Jti /\ Redeemable'[f] = {c}
      BY <1>3, <2>1, <2>2, <3>1 DEF Spent, Jti
    <3>3. ASSUME NEW j \in Jti, Minted(f, j)', ~Spent(f, j)' PROVE j = c
      <4>1. j = c \/ Minted(f, j)
        BY <2>1, <3>3 DEF Minted
      <4>2. ~Spent(f, j)
        BY <2>1, <3>3 DEF Spent
      <4> QED
        BY <3>1, <3>2, <3>3, <4>1, <4>2
    <3> QED
      BY <2>3, <3>2, <3>3
  <2>4. CASE g # f
    <3>1. Redeemable'[g] = Redeemable[g]
      BY <1>3, <2>2, <2>4
    <3>2. \A j \in Jti : (Minted(g, j)' <=> Minted(g, j)) /\ (Spent(g, j)' <=> Spent(g, j))
      BY <2>1, <2>4 DEF Minted, Spent
    <3> QED
      BY <1>2, <3>1, <3>2
  <2> QED
    BY <2>3, <2>4
<1>7. ASSUME NEW f \in Family, Chain!Kill(f)
      PROVE  Redeemable'[g] = {} \/ \E a \in Jti :
                /\ Redeemable'[g] = {a}
                /\ \A j \in Jti : Minted(g, j)' /\ ~Spent(g, j)' => j = a
  BY <1>2, <1>5, <1>7 DEF Minted, Spent
<1> QED
  BY <1>1, <1>4, <1>6, <1>7 DEF Chain!Next

\* A client that holds a token nobody redeemed is not locked out while the
\* family is tracked.
THEOREM HolderNotLockedOut == ASSUME NoPressure PROVE Spec => []UnusedTokenRedeemable
<1>1. Init => Unspent
  <2> SUFFICES ASSUME Init PROVE Unspent
    OBVIOUS
  <2>1. \A f \in Family : Redeemable[f] = {Root}
    BY ConstantsAssumption DEF Init, Redeemable, IsRevoked
  <2>2. Links = {}
    BY DEF Init, Links, IdleCall
  <2> QED
    BY <2>1, <2>2 DEF Unspent, Minted, Jti
<1>2. ChainInv /\ Unspent /\ [Next]_vars => Unspent'
  BY UnspentStep
<1>3. ChainInv /\ Unspent => UnusedTokenRedeemable
  <2> SUFFICES ASSUME ChainInv, Unspent, NEW f \in Family, NEW j \in Jti,
                      families[f] # None, Issued(f, j), ~Redeemed(f, j)
               PROVE  heap[families[f]].active = j
    BY DEF UnusedTokenRedeemable
  <2>1. Redeemable[f] = {heap[families[f]].active}
    BY DEF Redeemable, ChainInv, TombstoneClosed
  <2>2. calls \in [Call -> CallRecord]
    BY DEF ChainInv, TypeOK
  <2>3. Minted(f, j)
    <3>1. CASE j = Root
      BY <3>1 DEF Minted
    <3>2. CASE j # Root
      <4>1. j \in Call /\ calls[j].fam = f /\ calls[j].promise = "resolved"
        BY <3>2 DEF Issued
      <4>2. calls[j].jti \in Jti /\ <<f, calls[j].jti, j>> \in Links
        BY <2>2, <4>1 DEF Links, CallRecord
      <4> QED
        BY <4>2 DEF Minted
    <3> QED
      BY <3>1, <3>2
  <2>4. ~Spent(f, j)
    BY DEF Spent, Links, Redeemed
  <2> QED
    BY <2>1, <2>3, <2>4 DEF Unspent
<1> QED
  BY <1>1, <1>2, <1>3, ChainInvariant, PTL DEF Spec
-----------------------------------------------------------------------------
(***************************************************************************)
(* Reuse is final, whatever the cap on families and the expiry of entries, *)
(* leases and tombstones do: it needs the tombstones to fit their own cap  *)
(* and an upstream exchange to end within the lifetime of a token.         *)
(***************************************************************************)
TombstonesFit == MaxRevoked >= Cardinality(Family) /\ MaxLeg < Ttl

\* IssuedAt, of the calls given.
MintedAt(cs, j) == IF j = Root THEN 0 ELSE cs[j].at

\* A detected reuse has its tombstone for a token lifetime.
TombstoneOfReuse ==
    \A r \in Call : calls[r].pc = "reused" =>
        /\ calls[r].fam \in Family /\ calls[r].at <= now
        /\ calls[r].at + Ttl <= now \/ calls[r].at + Ttl <= revoked[calls[r].fam]
LegsAreShort ==
    \A c \in Call : calls[c].pc = "leading" =>
        calls[c].at <= now /\ now <= calls[c].at + MaxLeg
ResolvedIsOk == \A c \in Call : calls[c].promise = "resolved" => calls[c].pc = "ok"
\* A lease on a token older than a detected reuse was taken before it.
LedBeforeReuse ==
    \A c, r \in Call :
        /\ calls[c].pc = "leading" /\ calls[r].pc = "reused" /\ calls[r].fam = calls[c].fam
        /\ IssuedAt(calls[c].jti) < calls[r].at
        => calls[c].at <= calls[r].at
FinalParts ==
    /\ TombstoneOfReuse /\ LegsAreShort /\ ResolvedIsOk /\ TokensLinked /\ LedBeforeReuse
FinalInv == TypeOK /\ (restarts = 0 => FinalParts)

\* What a step may do to one call c and to the tombstones without reopening a
\* chain that ended.
LEMMA FinalKept ==
    ASSUME ConstantsAssumption, TombstonesFit, TypeOK, TypeOK', FinalParts,
           NEW c \in Call, now' = now,
           calls[c].pc \in {"idle", "leading", "following"},
           \A d \in Call : d # c => calls'[d] = calls[d],
           \A g \in Family : revoked'[g] >= revoked[g] \/ revoked[g] <= now,
           calls'[c].promise = "resolved" => calls'[c].pc = "ok",
           calls'[c].jti \in Call => calls[calls'[c].jti].promise = "resolved",
           calls'[c].pc = "reused" => /\ calls'[c].fam \in Family /\ calls'[c].at = now
                                      /\ revoked'[calls'[c].fam] >= now + Ttl,
           calls'[c].pc = "leading" => /\ calls'[c].fam \in Family /\ calls'[c].at = now
                                       /\ now - IssuedAt(calls'[c].jti) <= Ttl
                                       /\ revoked[calls'[c].fam] <= now
    PROVE  FinalParts'
<1>1. /\ now \in Nat /\ Ttl \in Nat /\ MaxLeg \in Nat
      /\ revoked \in [Family -> Nat] /\ revoked' \in [Family -> Nat]
      /\ \A d \in Call : calls[d] \in CallRecord /\ calls'[d] \in CallRecord
      /\ \A d \in Call : calls[d].at \in Nat /\ calls'[d].at \in Nat
                         /\ calls[d].jti \in Jti /\ calls'[d].jti \in Jti
  <2>1. calls \in [Call -> CallRecord] /\ calls' \in [Call -> CallRecord]
    BY DEF TypeOK
  <2> QED
    BY <2>1 DEF TypeOK, ConstantsAssumption, CallRecord
<1>2. \A j \in Call : calls[j].promise = "resolved" => j # c /\ calls'[j] = calls[j]
  BY DEF FinalParts, ResolvedIsOk
<1>3. \A d \in Call : calls'[d].jti \in Call => calls[calls'[d].jti].promise = "resolved"
  BY DEF FinalParts, TokensLinked
<1>4. \A d \in Call : MintedAt(calls', calls'[d].jti) = IssuedAt(calls'[d].jti)
  BY <1>1, <1>2, <1>3 DEF IssuedAt, MintedAt, Jti
<1>5. TombstoneOfReuse'
  <2> SUFFICES ASSUME NEW r \in Call, calls'[r].pc = "reused"
               PROVE  /\ calls'[r].fam \in Family /\ calls'[r].at <= now
                      /\ \/ calls'[r].at + Ttl <= now
                         \/ calls'[r].at + Ttl <= revoked'[calls'[r].fam]
    BY DEF TombstoneOfReuse
  <2>1. CASE r = c
    BY <1>1, <2>1
  <2>2. CASE r # c
    <3>1. calls'[r] = calls[r] /\ calls[r].pc = "reused"
      BY <2>2
    <3>2. /\ calls[r].fam \in Family /\ calls[r].at <= now
          /\ calls[r].at + Ttl <= now \/ calls[r].at + Ttl <= revoked[calls[r].fam]
      BY <3>1 DEF FinalParts, TombstoneOfReuse
    <3> QED
      BY <1>1, <3>1, <3>2
  <2> QED
    BY <2>1, <2>2
<1>6. LegsAreShort'
  BY <1>1 DEF FinalParts, LegsAreShort
<1>7. ResolvedIsOk'
  BY DEF FinalParts, ResolvedIsOk
<1>8. TokensLinked'
  BY <1>2, <1>3 DEF TokensLinked
<1>9. LedBeforeReuse'
  <2> SUFFICES ASSUME NEW x \in Call, NEW r \in Call,
                      calls'[x].pc = "leading", calls'[r].pc = "reused",
                      calls'[r].fam = calls'[x].fam,
                      MintedAt(calls', calls'[x].jti) < calls'[r].at
               PROVE  calls'[x].at <= calls'[r].at
    BY DEF LedBeforeReuse, IssuedAt, MintedAt
  <2>1. IssuedAt(calls'[x].jti) < calls'[r].at /\ IssuedAt(calls'[x].jti) \in Nat
    BY <1>1, <1>4 DEF IssuedAt, Jti
  <2>2. CASE x = c
    <3>1. r # c /\ calls'[r] = calls[r] /\ calls[r].pc = "reused"
      BY <2>2
    <3>2. /\ calls[r].fam \in Family
          /\ calls[r].at + Ttl <= now \/ calls[r].at + Ttl <= revoked[calls[r].fam]
      BY <3>1 DEF FinalParts, TombstoneOfReuse
    <3> QED
      BY <1>1, <2>1, <2>2, <3>1, <3>2
  <2>3. CASE x # c /\ r = c
    <3>1. calls[x].at <= now /\ calls'[x] = calls[x]
      BY <2>3 DEF FinalParts, LegsAreShort
    <3> QED
      BY <2>3, <3>1
  <2>4. CASE x # c /\ r # c
    BY <2>1, <2>4 DEF FinalParts, LedBeforeReuse
  <2> QED
    BY <2>2, <2>3, <2>4
<1> QED
  BY <1>5, <1>6, <1>7, <1>8, <1>9 DEF FinalParts

\* The lazy sweep keeps the tombstones that still hold.
LEMMA SweepKeepsTombs ==
    ASSUME TypeOK
    PROVE  \A g \in Family : KeptRevoked[g] >= revoked[g] \/ revoked[g] <= now
  BY DEF TypeOK, KeptRevoked

\* With room for every tombstone, revoking only adds one.
LEMMA RevokeKeepsTombs ==
    ASSUME ConstantsAssumption, TombstonesFit, TypeOK, NEW f \in Family, ~IsRevoked(f), Revoke(f)
    PROVE  /\ revoked'[f] = now + Ttl
           /\ \A g \in Family : revoked'[g] >= revoked[g] \/ revoked[g] <= now
<1> DEFINE marked == [KeptRevoked EXCEPT ![f] = TombstoneUntil]
<1>1. Tombed(marked) \subseteq Family
  BY DEF Tombed
<1>2. /\ Cardinality(Tombed(marked)) \in Nat /\ Cardinality(Family) \in Nat
      /\ Cardinality(Tombed(marked)) <= Cardinality(Family)
  BY <1>1, FS_Subset, FS_CardinalityType DEF ConstantsAssumption
<1>3. ~(Cardinality(Tombed(marked)) > MaxRevoked)
  BY <1>2 DEF TombstonesFit, ConstantsAssumption
<1>4. revoked' = marked
  BY <1>3 DEF Revoke
<1>5. KeptRevoked \in [Family -> Nat]
  BY SweepType
<1> QED
  BY <1>4, <1>5, SweepKeepsTombs DEF TombstoneUntil, IsRevoked, TypeOK

\* No step but a restart disturbs the parts.
LEMMA FinalStep ==
    ASSUME ConstantsAssumption, TombstonesFit, FinalInv, [Next]_vars
    PROVE  FinalInv'
<1>1. TypeOK /\ TypeOK'
  BY TypeStep DEF FinalInv
<1>2. restarts \in Nat /\ (restarts' = 0 => restarts = 0 /\ ~Restart)
  <2>1. restarts \in Nat
    BY <1>1 DEF TypeOK
  <2>2. CASE Restart
    <3>1. restarts' = restarts + 1
      BY <2>2, Zenon DEF Restart
    <3> QED
      BY <2>1, <3>1
  <2>3. CASE ~Restart
    <3>1. ASSUME NEW c \in Call, NEW f \in Family, NEW j \in Jti, BeginRotation(c, f, j)
          PROVE  restarts' = restarts
      BY <3>1, Zenon DEF BeginRotation, RejectStale, RejectRevoked, JoinPending, ReplayGrace,
                         DetectReuse, Lead
    <3>2. ASSUME NEW c \in Call, Commit(c) \/ CommitRevoked(c) \/ Fail(c) \/ Deliver(c)
          PROVE  restarts' = restarts
      BY <3>2, Zenon DEF Commit, CommitRevoked, Fail, Deliver
    <3>3. Tick \/ UNCHANGED vars => restarts' = restarts
      BY Zenon DEF Tick, vars
    <3>4. restarts' = restarts
      BY <2>3, <3>1, <3>2, <3>3, Zenon DEF Next
    <3> QED
      BY <2>1, <2>3, <3>4
  <2> QED
    BY <2>2, <2>3
<1> SUFFICES ASSUME restarts = 0, FinalParts, ~Restart PROVE FinalParts'
  BY <1>1, <1>2 DEF FinalInv
<1>3. /\ calls \in [Call -> CallRecord] /\ now \in Nat /\ Ttl \in Nat
      /\ revoked \in [Family -> Nat]
      /\ \A c \in Call : calls[c].jti \in Call => calls[calls[c].jti].promise = "resolved"
  BY <1>1 DEF TypeOK, ConstantsAssumption, FinalParts, TokensLinked
<1>4. ASSUME NEW c \in Call, NEW f \in Family, NEW j \in Jti, BeginRotation(c, f, j)
      PROVE  FinalParts'
  <2>1. /\ calls[c].pc = "idle" /\ calls[c].promise # "resolved" /\ now' = now
        /\ j \in Call => calls[j].promise = "resolved"
    <3>1. Presents(c, f, j) /\ now' = now
      BY <1>4 DEF BeginRotation, RejectStale, RejectRevoked, JoinPending, ReplayGrace,
                  DetectReuse, Lead
    <3>2. j \in Call => j # Root
      BY DEF ConstantsAssumption
    <3> QED
      BY <3>1, <3>2 DEF Presents, Issued, FinalParts, ResolvedIsOk
  <2>2. ASSUME NEW pc, NEW got, Answer(c, f, j, pc, got)
        PROVE  /\ \A d \in Call : d # c => calls'[d] = calls[d]
               /\ calls'[c].pc = pc /\ calls'[c].promise = calls[c].promise
               /\ calls'[c].jti = j /\ calls'[c].fam = f /\ calls'[c].at = now
    BY <1>3, <2>2 DEF Answer, CallRecord
  <2>3. CASE RejectStale(c, f, j)
    <3>1. Answer(c, f, j, "refused", None) /\ revoked' = revoked
      BY <2>3 DEF RejectStale
    <3> QED
      BY <1>1, <1>3, <2>1, <2>2, <3>1, FinalKept
  <2>4. CASE RejectRevoked(c, f, j)
    <3>1. Answer(c, f, j, "refused", None) /\ revoked' = KeptRevoked
      BY <2>4 DEF RejectRevoked, EvictExpired
    <3> QED
      BY <1>1, <2>1, <2>2, <3>1, SweepKeepsTombs, FinalKept
  <2>5. CASE JoinPending(c, f, j)
    <3>1. /\ \A d \in Call : d # c => calls'[d] = calls[d]
          /\ calls'[c].pc = "following" /\ calls'[c].promise = calls[c].promise
          /\ calls'[c].jti = j /\ revoked' = KeptRevoked
      BY <1>3, <2>5 DEF JoinPending, EvictExpired, CallRecord
    <3> QED
      BY <1>1, <2>1, <3>1, SweepKeepsTombs, FinalKept
  <2>6. CASE ReplayGrace(c, f, j)
    <3>1. Answer(c, f, j, "ok", EntryOf(f).grace.next) /\ revoked' = KeptRevoked
      BY <2>6 DEF ReplayGrace, EvictExpired
    <3> QED
      BY <1>1, <2>1, <2>2, <3>1, SweepKeepsTombs, FinalKept
  <2>7. CASE DetectReuse(c, f, j)
    <3>1. /\ Answer(c, f, j, "reused", None) /\ revoked'[f] = now + Ttl
          /\ \A g \in Family : revoked'[g] >= revoked[g] \/ revoked[g] <= now
      BY <1>1, <2>7, RevokeKeepsTombs DEF DetectReuse
    <3> QED
      BY <1>1, <1>3, <2>1, <2>2, <3>1, FinalKept
  <2>8. CASE Lead(c, f, j)
    <3>1. /\ \A d \in Call : d # c => calls'[d] = calls[d]
          /\ calls'[c].pc = "leading" /\ calls'[c].promise = "pending"
          /\ calls'[c].jti = j /\ calls'[c].fam = f /\ calls'[c].at = now
      BY <1>3, <2>8 DEF Lead, CallRecord
    <3>2. revoked' = KeptRevoked /\ revoked[f] <= now /\ now - IssuedAt(j) <= Ttl
      BY <1>3, <2>8 DEF Lead, IsRevoked, EnvelopeValid
    <3> QED
      BY <1>1, <2>1, <3>1, <3>2, SweepKeepsTombs, FinalKept
  <2> QED
    BY <1>4, <2>3, <2>4, <2>5, <2>6, <2>7, <2>8 DEF BeginRotation
<1>5. ASSUME NEW c \in Call, NEW pc, NEW p, NEW got, Settle(c, pc, p, got)
      PROVE  /\ \A d \in Call : d # c => calls'[d] = calls[d]
             /\ calls'[c].pc = pc /\ calls'[c].promise = p /\ calls'[c].jti = calls[c].jti
  BY <1>3, <1>5 DEF Settle, CallRecord
<1>6. ASSUME NEW c \in Call, Commit(c) PROVE FinalParts'
  <2>1. /\ calls[c].pc = "leading" /\ Settle(c, "ok", "resolved", c) /\ now' = now
        /\ \A g \in Family : revoked'[g] >= revoked[g] \/ revoked[g] <= now
    BY <1>3, <1>6 DEF Commit
  <2> QED
    BY <1>1, <1>3, <1>5, <2>1, FinalKept
<1>7. ASSUME NEW c \in Call, CommitRevoked(c) PROVE FinalParts'
  <2>1. /\ calls[c].pc = "leading" /\ Settle(c, "refused", "rejected", None)
        /\ now' = now /\ revoked' = revoked
    BY <1>7 DEF CommitRevoked
  <2> QED
    BY <1>1, <1>3, <1>5, <2>1, FinalKept
<1>8. ASSUME NEW c \in Call, Fail(c) PROVE FinalParts'
  <2>1. /\ calls[c].pc = "leading" /\ Settle(c, "failed", "rejected", None)
        /\ now' = now /\ revoked' = revoked
    BY <1>8 DEF Fail
  <2> QED
    BY <1>1, <1>3, <1>5, <2>1, FinalKept
<1>9. ASSUME NEW c \in Call, Deliver(c) PROVE FinalParts'
  <2>1. /\ calls[c].pc = "following" /\ now' = now /\ revoked' = revoked
        /\ \/ Settle(c, "ok", "none", RotatedToken(calls[c].leader))
           \/ Settle(c, "failed", "none", None)
    BY <1>9 DEF Deliver
  <2> QED
    BY <1>1, <1>3, <1>5, <2>1, FinalKept
<1>10. CASE Tick
  <2>1. /\ now' = now + 1 /\ calls' = calls /\ revoked' = revoked
        /\ \A c \in Call : calls[c].pc = "leading" => now - calls[c].at < MaxLeg
    BY <1>10 DEF Tick
  <2>2. \A c \in Call : calls[c].at \in Nat
    BY <1>3 DEF CallRecord
  <2>3. TombstoneOfReuse' /\ ResolvedIsOk' /\ TokensLinked' /\ LedBeforeReuse'
    BY <1>3, <2>1, <2>2 DEF FinalParts, TombstoneOfReuse, ResolvedIsOk, TokensLinked,
                            LedBeforeReuse, IssuedAt
  <2>4. LegsAreShort'
    BY <1>3, <2>1, <2>2 DEF FinalParts, LegsAreShort, ConstantsAssumption
  <2> QED
    BY <2>3, <2>4 DEF FinalParts
<1>11. CASE UNCHANGED vars
  BY <1>11 DEF vars, FinalParts, TombstoneOfReuse, LegsAreShort, ResolvedIsOk, TokensLinked,
               LedBeforeReuse, IssuedAt
<1> QED
  BY <1>4, <1>6, <1>7, <1>8, <1>9, <1>10, <1>11 DEF Next

\* Only a commit resolves a promise, and not for a family known to be revoked.
LEMMA ReuseIsFinalStep ==
    ASSUME ConstantsAssumption, TombstonesFit, FinalInv, [Next]_vars,
           NEW c \in Call, NEW r \in Call, restarts = 0,
           calls[c].promise = "pending", calls'[c].promise = "resolved",
           calls[r].pc = "reused", calls[r].fam = calls[c].fam
    PROVE  IssuedAt(calls[c].jti) >= calls[r].at
<1>1. /\ calls \in [Call -> CallRecord] /\ now \in Nat /\ Ttl \in Nat /\ MaxLeg \in Nat
      /\ revoked \in [Family -> Nat] /\ FinalParts
      /\ \A d \in Call : calls[d].at \in Nat /\ IssuedAt(calls[d].jti) \in Nat
  BY DEF FinalInv, TypeOK, ConstantsAssumption, CallRecord, IssuedAt, Jti
<1>2. Commit(c)
  <2>1. ASSUME NEW d \in Call, NEW f \in Family, NEW j \in Jti, BeginRotation(d, f, j)
        PROVE  calls'[c].promise \in {calls[c].promise, "pending"}
    <3>1. CASE \E pc, got : Answer(d, f, j, pc, got)
      BY <1>1, <3>1 DEF Answer, CallRecord
    <3>2. CASE JoinPending(d, f, j)
      BY <1>1, <3>2 DEF JoinPending, CallRecord
    <3>3. CASE Lead(d, f, j)
      BY <1>1, <3>3 DEF Lead, CallRecord
    <3> QED
      BY <2>1, <3>1, <3>2, <3>3 DEF BeginRotation, RejectStale, RejectRevoked, ReplayGrace,
                                    DetectReuse
  <2>2. ASSUME NEW d \in Call, CommitRevoked(d) \/ Fail(d) \/ Deliver(d)
        PROVE  calls'[c].promise \in {calls[c].promise, "rejected", "none"}
    <3>1. \E pc, p, got : p \in {"rejected", "none"} /\ Settle(d, pc, p, got)
      BY <2>2 DEF CommitRevoked, Fail, Deliver
    <3> QED
      BY <1>1, <3>1 DEF Settle, CallRecord
  <2>3. ASSUME NEW d \in Call, Commit(d) PROVE d = c
    BY <1>1, <2>3 DEF Commit, Settle, CallRecord
  <2>4. CASE Tick \/ UNCHANGED vars
    BY <2>4 DEF Tick, vars
  <2>5. CASE Restart
    BY <1>1, <2>5 DEF Restart, CallRecord
  <2> QED
    BY <2>1, <2>2, <2>3, <2>4, <2>5 DEF Next
<1>3. calls[c].pc = "leading" /\ ~IsRevoked(calls[c].fam)
  BY <1>2 DEF Commit, RevokedAtCommit
<1>4. calls[r].at + Ttl <= now
  BY <1>1, <1>3 DEF FinalParts, TombstoneOfReuse, IsRevoked
<1>5. now <= calls[c].at + MaxLeg
  BY <1>1, <1>3 DEF FinalParts, LegsAreShort
<1>6. ~(calls[c].at <= calls[r].at)
  BY <1>1, <1>4, <1>5 DEF TombstonesFit
<1> QED
  BY <1>1, <1>3, <1>6 DEF FinalParts, LedBeforeReuse

\* A token minted before the reuse of its chain was detected never buys another
\* one, not even when the entry was evicted or the tombstone has expired.
THEOREM ReuseFinal == ASSUME TombstonesFit PROVE Spec => ReuseIsFinal
<1>1. Init => FinalInv
  <2> SUFFICES ASSUME Init PROVE FinalInv
    OBVIOUS
  <2>1. \A c \in Call : calls[c] = IdleCall
    BY DEF Init
  <2>2. Root \notin Call
    BY ConstantsAssumption DEF ConstantsAssumption
  <2> QED
    BY <2>1, <2>2, ConstantsAssumption, TypeInit
       DEF FinalInv, FinalParts, TombstoneOfReuse, LegsAreShort, ResolvedIsOk, TokensLinked,
           LedBeforeReuse, IdleCall
<1>2. FinalInv /\ [Next]_vars => FinalInv'
  BY ConstantsAssumption, FinalStep
<1>3. FinalInv /\ [Next]_vars => [ReuseRefused]_vars
  BY ConstantsAssumption, ReuseIsFinalStep DEF ReuseRefused
<1> QED
  BY <1>1, <1>2, <1>3, PTL DEF Spec, ReuseIsFinal

\* The two halves of a revocation at once: the family is closed while its
\* tombstone stands, and its tokens are worthless after.
THEOREM RevocationFinal == ASSUME TombstonesFit PROVE Spec => RevocationIsFinal
<1>1. Spec => []TombstoneClosed
  BY RevocationStaysClosed
<1>2. Spec => ReuseIsFinal
  BY ReuseFinal
<1> QED
  BY <1>1, <1>2, PTL DEF RevocationIsFinal, ReuseIsFinal
=============================================================================
