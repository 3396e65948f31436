------------------------------ MODULE GatesProofs ------------------------------
(***************************************************************************)
(* What the gates between a login and a call promise, for every            *)
(* configuration, any number of users, replicas and sessions and any       *)
(* history: the consent gate, the refusal of the next envelope, the places *)
(* a browser may be sent, the evidence file that stores share.             *)
(***************************************************************************)
EXTENDS ConsentGate, ConsentEvidence, Reconsent, RedirectTargets, FiniteSetTheorems, WellFoundedInduction, TLAPS

-----------------------------------------------------------------------------
(* The consent gate *)

\* A set of numbers up to some bound has a greatest one.
LEMMA MaxIsGreatest ==
    ASSUME NEW S, NEW n \in Nat, S \subseteq 0 .. n, S # {}
    PROVE  Max(S) \in S /\ \A y \in S : Max(S) >= y
<1> DEFINE Above(x) == {y \in S : y > x}
           T == {Above(x) : x \in S}
<1>0. \A x \in S : x \in Int
  OBVIOUS
<1>1. IsFiniteSet(S)
  <2>1. IsFiniteSet(0 .. n)
    BY FS_Interval
  <2> QED BY <2>1, FS_Subset
<1>2. IsWellFoundedOn(StrictSubsetOrdering(S), SUBSET S)
  BY <1>1, FS_FiniteSubsetsOfFinite, FS_StrictSubsetOrderingWellFounded
<1>3. T \subseteq SUBSET S /\ T # {}
  OBVIOUS
<1>4. PICK t \in T : \A u \in T : ~(<<u, t>> \in StrictSubsetOrdering(S))
  <2> HIDE DEF T
  <2> QED BY <1>2, <1>3, WFMin
<1>5. PICK m \in S : t = Above(m)
  OBVIOUS
<1>6. ASSUME NEW y \in S, y > m PROVE FALSE
  <2>0. m \in Int /\ y \in Int /\ (\A z \in S : z > y => z > m) /\ ~(y > y)
    BY <1>0, <1>6
  <2>1. Above(y) \subseteq Above(m) /\ y \in Above(m) /\ y \notin Above(y)
    BY <2>0, <1>6, Zenon
  <2>2. <<Above(y), Above(m)>> \in StrictSubsetOrdering(S)
    BY <2>1 DEF StrictSubsetOrdering
  <2> QED BY <1>4, <1>5, <2>2
<1>7. \A y \in S : m >= y
  BY <1>0, <1>6
<1> QED BY <1>7 DEF Max

\* What the queries find is a row, of that subject and of a version asked for, or none.
LEMMA QueriesFind ==
    ASSUME GateAssumption, rows \in Seq(Row), Len(rows) <= MaxRows, NEW u
    PROVE  /\ LastRevocation(u) \in {0} \cup RowsOf(u, "revocation")
           /\ \A i \in RowsOf(u, "revocation") : LastRevocation(u) >= i
           /\ \A versions : NewestGrant(u, versions) \in
                 {0} \cup {i \in RowsOf(u, "grant") : rows[i].rules.version \in versions}
<1>1. DOMAIN rows \subseteq 0 .. MaxRows /\ MaxRows \in Nat
  BY DEF GateAssumption
<1>2. {0} \cup RowsOf(u, "revocation") \subseteq 0 .. MaxRows
  BY <1>1 DEF RowsOf
<1>3. /\ LastRevocation(u) \in {0} \cup RowsOf(u, "revocation")
      /\ \A i \in RowsOf(u, "revocation") : LastRevocation(u) >= i
  BY <1>1, <1>2, MaxIsGreatest DEF LastRevocation
<1>4. ASSUME NEW versions
      PROVE  NewestGrant(u, versions) \in
                 {0} \cup {i \in RowsOf(u, "grant") : rows[i].rules.version \in versions}
  <2> DEFINE of == {i \in RowsOf(u, "grant") : rows[i].rules.version \in versions}
             newest == {i \in of : \A j \in of : rows[j].at <= rows[i].at}
  <2>1. {0} \cup newest \subseteq 0 .. MaxRows
    BY <1>1 DEF RowsOf
  <2>2. Max({0} \cup newest) \in {0} \cup newest
    BY <1>1, <2>1, MaxIsGreatest
  <2> QED BY <2>2 DEF NewestGrant
<1> QED BY <1>3, <1>4

\* A completion is one of the parked, of the browser and the subject it was parked for.
RowsSound ==
    /\ rows \in Seq(Row) /\ Len(rows) <= MaxRows
    /\ \A i \in Grants : rows[i].rules \in Rules
ParkedSound ==
    /\ parked \in [Pending -> Parked] /\ rules \in [Replica -> Rules]
    /\ \A p \in Pending : parked[p].state # "free" => parked[p].sub \in Subject
    /\ \A i \in Answers : parked[rows[i].pending].state = "gone"

\* What a call has read is true of the rows it read, and stays so.
HasFound(c) ==
    /\ call[c].since \in {0} \cup RowsOf(call[c].sub, "revocation")
    /\ call[c].revoked # Unread => call[c].revoked >= call[c].since
    /\ call[c].grant \in {0, Unread} \cup
          {i \in RowsOf(call[c].sub, "grant") : rows[i].rules.version = RulesOf(c).version}
HasAnswer(c) ==
    LET p == call[c].pending IN
    /\ p \in Pending /\ parked[p].state # "free" /\ parked[p].browser = call[c].browser
    /\ call[c].at # "peeked" =>
          call[c].kind = "accept" /\ Approval(p, RulesOf(c), call[c].browser) \in approvals
    /\ call[c].at = "recording" => call[c].sub = parked[p].sub
CallSound(c) ==
    /\ call[c] \in GateCallRecord
    /\ call[c].at # "idle" => call[c].replica \in Replica
    /\ call[c].at \in {"lookup", "granted", "denied"} => call[c].sub \in Subject
    /\ call[c].at = "lookup" => HasFound(c)
    /\ call[c].at \in {"peeked", "approved", "recording"} => HasAnswer(c)
    /\ Answering(c) => call[c].pending \in Pending /\ parked[call[c].pending].state = "gone"
GateInv ==
    /\ RowsSound /\ ParkedSound /\ call \in [GateCall -> GateCallRecord]
    /\ \A c \in GateCall : CallSound(c)
    /\ ConsentWasShown /\ AnsweredOnce /\ RevocationHolds

\* An answer in the evidence is one of the parked.
LEMMA AnswersParked == RowsSound => \A i \in Answers : rows[i].pending \in Pending
<1> SUFFICES ASSUME RowsSound, NEW i \in Answers PROVE rows[i].pending \in Pending
  OBVIOUS
<1>1. rows \in Seq(Row) /\ i \in DOMAIN rows /\ rows[i].pending # Absent
  BY DEF RowsSound, Answers, Grants
<1>2. rows[i] \in Row
  BY <1>1
<1> QED BY <1>1, <1>2 DEF Row

LEMMA GateInvInit == GateAssumption /\ GateInit => GateInv
<1> SUFFICES ASSUME GateAssumption, GateInit PROVE GateInv
  OBVIOUS
<1>1. rows \in Histories /\ rules \in [Replica -> Rules] /\ parked = [p \in Pending |-> Free]
      /\ call = [c \in GateCall |-> Idle]
  BY DEF GateInit
<1>2. RowsSound /\ Answers = {}
  BY <1>1 DEF GateAssumption, RowsSound, Grants, Answers
<1>3. Free \in Parked /\ Idle \in GateCallRecord
  BY DEF GateAssumption, Free, Parked, Idle, GateCallRecord, Unread
<1>4. ParkedSound
  BY <1>1, <1>2, <1>3 DEF ParkedSound, Free
<1>5. call \in [GateCall -> GateCallRecord] /\ \A c \in GateCall : CallSound(c)
  BY <1>1, <1>3 DEF CallSound, Idle, Answering
<1>6. ConsentWasShown /\ AnsweredOnce /\ RevocationHolds
  BY <1>1, <1>2 DEF ConsentWasShown, AnsweredOnce, RevocationHolds, Answering, Idle
<1> QED BY <1>2, <1>4, <1>5, <1>6 DEF GateInv

\* How the shared state moves: rows are appended, a parked login is parked once, for
\* one browser and subject, and consumed once, approvals only become more, and the
\* rules of a replica change when its calls end.
Moves ==
    /\ rows' \in Seq(Row) /\ Len(rows') <= MaxRows /\ Len(rows) <= Len(rows')
    /\ \A i \in DOMAIN rows : rows'[i] = rows[i]
    /\ parked' \in [Pending -> Parked]
    /\ \A p \in Pending : parked[p].state # "free" =>
          /\ parked'[p].sub = parked[p].sub /\ parked'[p].browser = parked[p].browser
          /\ parked'[p].state # "free" /\ (parked[p].state = "gone" => parked'[p].state = "gone")
    /\ approvals \subseteq approvals'
    /\ rules' \in [Replica -> Rules]
    /\ call' \in [GateCall -> GateCallRecord]

LEMMA CallStaysSound ==
    ASSUME GateInv, Moves, NEW c \in GateCall, call'[c] = call[c],
           call[c].at # "idle" => rules'[call[c].replica] = rules[call[c].replica]
    PROVE  CallSound(c)'
<1>1. CallSound(c) /\ RowsSound /\ RulesOf(c)' = rules'[call'[c].replica]
  BY DEF GateInv, RulesOf
<1>2. DOMAIN rows \subseteq DOMAIN rows'
  BY <1>1 DEF Moves, RowsSound
<1>3. \A u, type : RowsOf(u, type) \subseteq RowsOf(u, type)'
  BY <1>2 DEF RowsOf, Moves
<1>4. call[c].at = "lookup" => HasFound(c)'
  <2> SUFFICES ASSUME call[c].at = "lookup" PROVE HasFound(c)'
    OBVIOUS
  <2>1. HasFound(c) /\ RulesOf(c)' = RulesOf(c)
    BY <1>1 DEF CallSound, RulesOf
  <2>2. \A i \in RowsOf(call[c].sub, "grant") : rows'[i] = rows[i]
    BY DEF Moves, RowsOf
  <2> QED BY <2>1, <2>2, <1>3 DEF HasFound, Unread
<1>5. call[c].at \in {"peeked", "approved", "recording"} => HasAnswer(c)'
  <2> SUFFICES ASSUME call[c].at \in {"peeked", "approved", "recording"} PROVE HasAnswer(c)'
    OBVIOUS
  <2>1. HasAnswer(c) /\ RulesOf(c)' = RulesOf(c)
    BY <1>1 DEF CallSound, RulesOf
  <2> QED BY <2>1 DEF HasAnswer, Moves, Approval
<1>6. Answering(c)' => call'[c].pending \in Pending /\ parked'[call'[c].pending].state = "gone"
  BY <1>1 DEF CallSound, Answering, Moves
<1> QED BY <1>1, <1>4, <1>5, <1>6 DEF CallSound

\* A call that goes upstream has its acceptance.
HasGrant(c) ==
    \E i \in Grants : rows[i].sub = call[c].sub /\ rows[i].rules = RulesOf(c) /\ i > call[c].since
KeepsRules(c) == call'[c] = call[c] /\ (call[c].at # "idle" => rules'[call[c].replica] = rules[call[c].replica])

\* A step that records nothing and consumes no completion for an answer: all that
\* was said of answers stays true.
LEMMA NoNewAnswer ==
    ASSUME GateInv, Moves, rows' = rows,
           \A p \in Pending : parked'[p].state # "free" => parked'[p].sub \in Subject,
           \A d \in GateCall : ~KeepsRules(d) =>
              /\ CallSound(d)'
              /\ Answering(d)' => /\ Answering(d) /\ call'[d].pending = call[d].pending
                                  /\ call'[d].at = "recording" => call[d].at = "recording"
              /\ call'[d].at = "granted" => HasGrant(d)'
    PROVE  GateInv'
<1>1. RowsSound' /\ Grants' = Grants /\ Answers' = Answers /\ Answers \subseteq Grants
  BY DEF GateInv, RowsSound, Grants, Answers
<1>2. ParkedSound'
  <2>1. \A i \in Answers : rows[i].pending \in Pending
    BY AnswersParked DEF GateInv
  <2> QED BY <1>1, <2>1 DEF GateInv, ParkedSound, Moves
<1>3. \A d \in GateCall : CallSound(d)'
  BY CallStaysSound DEF KeepsRules
<1>4. ConsentWasShown'
  <2>1. \A i \in Answers : rows[i].pending \in Pending
    BY AnswersParked DEF GateInv
  <2>2. \A i \in Answers : LET p == rows[i].pending IN
           parked'[p].sub = parked[p].sub /\ parked'[p].browser = parked[p].browser
    BY <2>1 DEF GateInv, ParkedSound, Moves
  <2> QED BY <1>1, <2>2 DEF GateInv, ConsentWasShown, Moves, Approval
<1>5. \A d \in GateCall : Answering(d)' =>
         /\ Answering(d) /\ call'[d].pending = call[d].pending
         /\ call'[d].at = "recording" => call[d].at = "recording"
  BY DEF KeepsRules, Answering
<1>6. AnsweredOnce'
  <2>1. \A d \in GateCall : call'[d].at = "recording" => Answering(d)'
    BY <1>3 DEF CallSound, HasAnswer, Answering
  <2> HIDE DEF Answering
  <2> QED BY <1>1, <1>5, <2>1 DEF GateInv, AnsweredOnce
<1>7. RevocationHolds'
  <2>1. \A d \in GateCall : call[d].at = "granted" => HasGrant(d)
    BY DEF GateInv, RevocationHolds, HasGrant
  <2>2. ASSUME NEW d \in GateCall, call'[d].at = "granted" PROVE HasGrant(d)'
    <3>1. CASE KeepsRules(d)
      BY <1>1, <2>1, <2>2, <3>1 DEF KeepsRules, HasGrant, RulesOf
    <3> QED BY <2>2, <3>1
  <2> QED BY <2>2 DEF RevocationHolds, HasGrant
<1> QED BY <1>1, <1>2, <1>3, <1>4, <1>6, <1>7 DEF GateInv, Moves

\* What is bounded and typed when nothing but a call and the approvals change.
LEMMA CallMoves ==
    ASSUME GateInv, UNCHANGED <<rows, parked, rules>>, approvals \subseteq approvals',
           call' \in [GateCall -> GateCallRecord]
    PROVE  Moves
  BY DEF GateInv, RowsSound, ParkedSound, Moves

\* One call changes, and answers nothing.
LEMMA OneCall ==
    ASSUME GateInv, UNCHANGED <<rows, rules>>, approvals \subseteq approvals',
           parked' \in [Pending -> Parked],
           \A p \in Pending : parked'[p].state # "free" => parked'[p].sub \in Subject,
           \A p \in Pending : parked[p].state # "free" =>
              /\ parked'[p].sub = parked[p].sub /\ parked'[p].browser = parked[p].browser
              /\ parked'[p].state # "free" /\ (parked[p].state = "gone" => parked'[p].state = "gone"),
           NEW c \in GateCall, NEW new \in GateCallRecord, call' = [call EXCEPT ![c] = new],
           ~(new.kind = "accept" /\ new.at \in {"recording", "completing"}),
           CallSound(c)',
           new.at = "granted" => HasGrant(c)'
    PROVE  GateInv'
<1>1. call \in [GateCall -> GateCallRecord] /\ call' \in [GateCall -> GateCallRecord]
  BY DEF GateInv
<1>2. Moves
  BY <1>1 DEF GateInv, RowsSound, ParkedSound, Moves
<1>3. call'[c] = new /\ \A d \in GateCall \ {c} : call'[d] = call[d] /\ KeepsRules(d)
  BY <1>1 DEF KeepsRules
<1>4. ~Answering(c)'
  BY <1>3 DEF Answering
<1>5. ASSUME NEW d \in GateCall, ~KeepsRules(d)
      PROVE  /\ CallSound(d)'
             /\ Answering(d)' => /\ Answering(d) /\ call'[d].pending = call[d].pending
                                 /\ call'[d].at = "recording" => call[d].at = "recording"
             /\ call'[d].at = "granted" => HasGrant(d)'
  <2>1. d = c
    BY <1>3, <1>5
  <2> QED BY <1>3, <1>4, <2>1
<1> QED BY <1>2, <1>5, NoNewAnswer

\* A call with one of its fields set is a call.
LEMMA FieldSet ==
    ASSUME NEW r \in GateCallRecord
    PROVE  /\ \A n \in 0 .. Unread : /\ [r EXCEPT !.grant = n] \in GateCallRecord
                                     /\ [r EXCEPT !.latest = n] \in GateCallRecord
                                     /\ [r EXCEPT !.revoked = n] \in GateCallRecord
           /\ \A at \in {"granted", "denied", "approved", "completing"} :
                 /\ [r EXCEPT !.at = at] \in GateCallRecord
                 /\ [r EXCEPT !.at = at].at = at
<1>1. \A n \in 0 .. Unread : [r EXCEPT !.grant = n] \in GateCallRecord
  BY DEF GateCallRecord
<1>2. \A n \in 0 .. Unread : [r EXCEPT !.latest = n] \in GateCallRecord
  BY DEF GateCallRecord
<1>3. \A n \in 0 .. Unread : [r EXCEPT !.revoked = n] \in GateCallRecord
  BY DEF GateCallRecord
<1>4. \A at \in {"granted", "denied", "approved", "completing"} :
         [r EXCEPT !.at = at] \in GateCallRecord /\ [r EXCEPT !.at = at].at = at
  BY DEF GateCallRecord
<1> QED BY <1>1, <1>2, <1>3, <1>4

\* A call ends.
LEMMA CallEnds ==
    ASSUME GateAssumption, GateInv, UNCHANGED <<rows, rules>>, approvals \subseteq approvals',
           parked' \in [Pending -> Parked],
           \A p \in Pending : parked'[p].state # "free" => parked'[p].sub \in Subject,
           \A p \in Pending : parked[p].state # "free" =>
              /\ parked'[p].sub = parked[p].sub /\ parked'[p].browser = parked[p].browser
              /\ parked'[p].state # "free" /\ (parked[p].state = "gone" => parked'[p].state = "gone"),
           NEW c \in GateCall, Ends(c)
    PROVE  GateInv'
<1>1. Idle \in GateCallRecord
  BY DEF GateAssumption, Idle, GateCallRecord, Unread
<1>2. call' = [call EXCEPT ![c] = Idle] /\ call'[c] = Idle
  BY DEF Ends, GateInv
<1>3. CallSound(c)'
  BY <1>1, <1>2 DEF CallSound, Idle, Answering
<1> QED BY <1>1, <1>2, <1>3, OneCall DEF Idle

\* The evidence stays as it was, and one call changes.
LEMMA CallGoesOn ==
    ASSUME GateInv, UNCHANGED <<rows, parked, rules>>, approvals \subseteq approvals',
           NEW c \in GateCall, NEW new \in GateCallRecord, call' = [call EXCEPT ![c] = new],
           ~(new.kind = "accept" /\ new.at \in {"recording", "completing"}),
           CallSound(c)',
           new.at = "granted" => HasGrant(c)'
    PROVE  GateInv'
<1>1. /\ parked' \in [Pending -> Parked]
      /\ \A p \in Pending : parked'[p].state # "free" => parked'[p].sub \in Subject
  BY DEF GateInv, ParkedSound
<1> QED BY <1>1, OneCall

LEMMA StartsKeeps ==
    ASSUME GateAssumption, GateInv, NEW c \in GateCall, NEW kind \in {"dispatch", "callback"},
           NEW r \in Replica, NEW u \in Subject, Starts(c, kind, r, u), UNCHANGED <<evidence, rules>>
    PROVE  GateInv'
<1> DEFINE new == [Idle EXCEPT !.at = "lookup", !.kind = kind, !.replica = r, !.sub = u,
                               !.since = LastRevocation(u)]
<1>1. call' = [call EXCEPT ![c] = new] /\ call'[c] = new /\ UNCHANGED <<rows, parked, approvals, rules>>
  BY DEF Starts, GateInv, evidence
<1>2. LastRevocation(u) \in {0} \cup RowsOf(u, "revocation") /\ LastRevocation(u) \in 0 .. MaxRows
  BY QueriesFind DEF GateInv, RowsSound, RowsOf, GateAssumption
<1>3. Idle \in GateCallRecord /\ LastRevocation(u) \in 0 .. MaxRows
  BY <1>2 DEF GateAssumption, Idle, GateCallRecord, Unread
<1>4. new \in GateCallRecord
  BY <1>3 DEF GateCallRecord
<1>5. /\ new.at = "lookup" /\ new.kind = kind /\ new.replica = r /\ new.sub = u
      /\ new.since = LastRevocation(u) /\ new.grant = Unread /\ new.revoked = Unread
  BY DEF Idle
<1> HIDE DEF new
<1>6. CallSound(c)'
  <2>1. HasFound(c)'
    BY <1>1, <1>2, <1>5 DEF HasFound, RowsOf, Unread
  <2> QED BY <1>1, <1>4, <1>5, <2>1 DEF CallSound, Answering
<1> QED BY <1>1, <1>4, <1>5, <1>6, CallGoesOn

\* What a query has answered goes into the call.
LEMMA ReadsKeep ==
    ASSUME GateAssumption, GateInv, NEW c \in GateCall, ReadGrant(c) \/ ReadLatest(c) \/ ReadRevocations(c)
    PROVE  GateInv'
<1> DEFINE u == call[c].sub
           version == RulesOf(c).version
<1>0. CallSound(c) /\ call \in [GateCall -> GateCallRecord] /\ UNCHANGED <<rows, parked, approvals, rules>>
  BY DEF GateInv, ReadGrant, ReadLatest, ReadRevocations, evidence
<1>1. /\ LastRevocation(u) \in 0 .. MaxRows
      /\ \A i \in RowsOf(u, "revocation") : LastRevocation(u) >= i
      /\ NewestGrant(u, AllVersions) \in 0 .. MaxRows /\ NewestGrant(u, {version}) \in 0 .. MaxRows
      /\ NewestGrant(u, {version}) \in {0} \cup {i \in RowsOf(u, "grant") : rows[i].rules.version = version}
  <2> HIDE DEF version
  <2>1. \A type : RowsOf(u, type) \subseteq 0 .. MaxRows
    BY DEF GateInv, RowsSound, RowsOf, GateAssumption
  <2>2. rows \in Seq(Row) /\ Len(rows) <= MaxRows
    BY DEF GateInv, RowsSound
  <2> HIDE DEF u
  <2>3. /\ LastRevocation(u) \in {0} \cup RowsOf(u, "revocation")
        /\ \A i \in RowsOf(u, "revocation") : LastRevocation(u) >= i
    BY <2>2, QueriesFind
  <2>4. \A versions : NewestGrant(u, versions) \in
           {0} \cup {i \in RowsOf(u, "grant") : rows[i].rules.version \in versions}
    BY <2>2, QueriesFind
  <2>5. NewestGrant(u, {version}) \in {0} \cup {i \in RowsOf(u, "grant") : rows[i].rules.version = version}
    BY <2>4
  <2>6. NewestGrant(u, AllVersions) \in {0} \cup RowsOf(u, "grant")
    BY <2>4
  <2> QED BY <2>1, <2>3, <2>5, <2>6 DEF GateAssumption
<1>2. \A n \in 0 .. MaxRows : n \in 0 .. Unread /\ n # Unread
  BY DEF Unread, GateAssumption
<1>3. ~(call[c].kind = "accept" /\ call[c].at \in {"recording", "completing"}) \/ call[c].at = "recording"
  BY DEF ReadGrant, ReadLatest, ReadRevocations
<1>4. PICK new \in GateCallRecord :
         /\ call' = [call EXCEPT ![c] = new]
         /\ new.at = call[c].at /\ new.kind = call[c].kind /\ new.replica = call[c].replica
         /\ new.sub = call[c].sub /\ new.since = call[c].since
         /\ new.pending = call[c].pending /\ new.browser = call[c].browser
         /\ new.grant \in {call[c].grant, NewestGrant(u, {version})}
         /\ new.revoked \in {call[c].revoked, LastRevocation(u)}
         /\ new.at \in {"lookup", "recording"}
  <2>1. CASE ReadGrant(c)
    <3> DEFINE new == [call[c] EXCEPT !.grant = NewestGrant(u, {version})]
    <3>1. new \in GateCallRecord
      BY <1>0, <1>1, <1>2, FieldSet
    <3> QED BY <1>0, <2>1, <3>1 DEF ReadGrant, GateCallRecord
  <2>2. CASE ReadLatest(c)
    <3> DEFINE new == [call[c] EXCEPT !.latest = NewestGrant(u, AllVersions)]
    <3>1. new \in GateCallRecord
      BY <1>0, <1>1, <1>2, FieldSet
    <3> QED BY <1>0, <2>2, <3>1 DEF ReadLatest, GateCallRecord
  <2>3. CASE ReadRevocations(c)
    <3> DEFINE new == [call[c] EXCEPT !.revoked = LastRevocation(u)]
    <3>1. new \in GateCallRecord
      BY <1>0, <1>1, <1>2, FieldSet
    <3> QED BY <1>0, <2>3, <3>1 DEF ReadRevocations, GateCallRecord
  <2> QED BY <2>1, <2>2, <2>3
<1>5. call'[c] = new /\ call' \in [GateCall -> GateCallRecord] /\ RulesOf(c)' = RulesOf(c)
  BY <1>0, <1>4 DEF RulesOf
<1>6. CallSound(c)'
  <2>1. new.at = "lookup" => HasFound(c)'
    <3> SUFFICES ASSUME new.at = "lookup" PROVE HasFound(c)'
      OBVIOUS
    <3>1. HasFound(c)
      BY <1>0, <1>4 DEF CallSound
    <3>2. \A i \in RowsOf(u, "revocation") : LastRevocation(u) >= i
      BY <1>1
    <3>3. LastRevocation(u) >= call[c].since
      BY <1>1, <3>1 DEF HasFound
    <3> HIDE DEF u, version
    <3> QED BY <1>0, <1>1, <1>4, <1>5, <3>1, <3>3 DEF HasFound, RowsOf, Unread, u, version
  <2>2. new.at = "recording" => HasAnswer(c)'
    BY <1>0, <1>4, <1>5 DEF CallSound, HasAnswer
  <2>3. Answering(c)' => call'[c].pending \in Pending /\ parked'[call'[c].pending].state = "gone"
    BY <1>0, <1>4, <1>5 DEF CallSound, Answering
  <2> QED BY <1>0, <1>4, <1>5, <2>1, <2>2, <2>3 DEF CallSound
<1>7. Moves
  BY <1>0, <1>5, CallMoves
<1>8. \A d \in GateCall : d # c => KeepsRules(d)
  BY <1>0, <1>4 DEF KeepsRules
<1>9. Answering(c)' => /\ Answering(c) /\ call'[c].pending = call[c].pending
                       /\ call'[c].at = "recording" => call[c].at = "recording"
  BY <1>4, <1>5 DEF Answering
<1>10. \A p \in Pending : parked'[p].state # "free" => parked'[p].sub \in Subject
  BY <1>0 DEF GateInv, ParkedSound
<1>11. call'[c].at # "granted"
  BY <1>4, <1>5
<1> QED BY <1>0, <1>6, <1>7, <1>8, <1>9, <1>10, <1>11, NoNewAnswer

\* A call is let through only if its acceptance was recorded after every revocation
\* there was when it came.
LEMMA DecideKeeps ==
    ASSUME GateAssumption, GateInv, NEW c \in GateCall, NEW now, Decide(c, now)
    PROVE  GateInv'
<1> DEFINE new == [call[c] EXCEPT !.at = IF Satisfied(c, now) THEN "granted" ELSE "denied"]
           g == call[c].grant
<1>1. /\ CallSound(c) /\ call \in [GateCall -> GateCallRecord] /\ UNCHANGED <<rows, parked, approvals, rules>>
      /\ call[c].at = "lookup" /\ HasRead(c) /\ HasFound(c)
      /\ call' = [call EXCEPT ![c] = new] /\ call'[c] = new
  BY DEF GateInv, Decide, evidence, CallSound
<1>2. new \in GateCallRecord /\ new.at \in {"granted", "denied"}
  <2>1. call[c] \in GateCallRecord
    BY <1>1
  <2> QED BY <2>1, FieldSet
<1>3. CallSound(c)'
  BY <1>1, <1>2 DEF CallSound, Answering, GateCallRecord
<1>4. ASSUME new.at = "granted" PROVE HasGrant(c)'
  <2>1. Satisfied(c, now)
    BY <1>1, <1>4 DEF GateCallRecord
  <2>2. g # 0 /\ g # Unread /\ rows[g].rules.hash = RulesOf(c).hash /\ ~Revoked(c)
        /\ call[c].revoked # Unread
    BY <1>1, <2>1 DEF Satisfied, HasRead
  <2>3. g \in RowsOf(call[c].sub, "grant") /\ rows[g].rules.version = RulesOf(c).version
    BY <1>1, <2>2 DEF HasFound
  <2>4. g \in Grants /\ rows[g].sub = call[c].sub /\ rows[g].rules \in Rules
    BY <2>3 DEF RowsOf, Grants, GateInv, RowsSound
  <2>5. RulesOf(c) \in Rules
    BY <1>1 DEF RulesOf, GateInv, ParkedSound, CallSound
  <2>6. rows[g].rules = RulesOf(c)
    BY <2>2, <2>3, <2>4, <2>5 DEF GateAssumption
  <2>7. g > call[c].since
    <3>1. g \in Nat \ {0} /\ call[c].since \in Nat /\ call[c].revoked \in Nat
      BY <1>1, <2>2, <2>3 DEF RowsOf, GateCallRecord, CallSound, GateInv, RowsSound, GateAssumption, Unread
    <3>2. call[c].revoked = 0 \/ g > call[c].revoked
      BY <2>2 DEF Revoked
    <3> QED BY <1>1, <2>2, <3>1, <3>2 DEF HasFound
  <2>8. Grants' = Grants /\ RulesOf(c)' = RulesOf(c) /\ call'[c].sub = call[c].sub
        /\ call'[c].since = call[c].since
    BY <1>1 DEF Grants, RulesOf, GateCallRecord
  <2> QED BY <1>1, <2>4, <2>6, <2>7, <2>8 DEF HasGrant
<1>5. ~(new.kind = "accept" /\ new.at \in {"recording", "completing"})
  BY <1>2
<1> QED
  <2> HIDE DEF new
  <2> QED BY <1>1, <1>2, <1>3, <1>4, <1>5, CallGoesOn

\* The steps that leave the parked logins as they are.
LEMMA CallsKeep ==
    ASSUME GateAssumption, GateInv, NEW c \in GateCall
    PROVE  /\ CallAnswered(c) \/ ShowAgain(c) \/ Complete(c) \/ CallFails(c) => GateInv'
           /\ PassSilently(c) => GateInv'
           /\ \A a \in approvals : Approve(c, a) => GateInv'
           /\ \A r \in Replica, b \in Browser, p \in Pending, d \in {"accept", "deny"} :
                 Post(c, r, b, p, d) => GateInv'
<1>0. /\ call \in [GateCall -> GateCallRecord] /\ CallSound(c)
      /\ parked \in [Pending -> Parked]
      /\ \A p \in Pending : parked[p].state # "free" => parked[p].sub \in Subject
  BY DEF GateInv, ParkedSound
<1>1. ASSUME CallAnswered(c) \/ ShowAgain(c) \/ Complete(c) \/ CallFails(c) PROVE GateInv'
  <2>1. Ends(c) /\ UNCHANGED <<rows, parked, rules>> /\ approvals \subseteq approvals'
    BY <1>1 DEF CallAnswered, ShowAgain, Complete, CallFails, evidence
  <2> QED BY <1>0, <2>1, CallEnds
<1>2. ASSUME PassSilently(c) PROVE GateInv'
  <2> DEFINE new == [call[c] EXCEPT !.at = "completing"]
  <2>1. /\ call' = [call EXCEPT ![c] = new] /\ call'[c] = new /\ UNCHANGED <<rows, parked, approvals, rules>>
        /\ call[c].at = "granted" /\ call[c].kind = "callback"
    BY <1>0, <1>2 DEF PassSilently, evidence
  <2>2. new \in GateCallRecord /\ new.at = "completing"
    BY <1>0, FieldSet
  <2>3. new.kind = "callback" /\ new.replica = call[c].replica
    BY <1>0, <2>1 DEF GateCallRecord
  <2> HIDE DEF new
  <2>4. CallSound(c)'
    BY <1>0, <2>1, <2>2, <2>3 DEF CallSound, Answering
  <2> QED BY <2>1, <2>2, <2>3, <2>4, CallGoesOn
<1>3. ASSUME NEW a \in approvals, Approve(c, a) PROVE GateInv'
  <2> DEFINE new == [call[c] EXCEPT !.at = "approved"]
  <2>1. /\ call' = [call EXCEPT ![c] = new] /\ call'[c] = new /\ UNCHANGED <<rows, parked, approvals, rules>>
        /\ call[c].at = "peeked" /\ call[c].kind = "accept"
        /\ a = Approval(call[c].pending, RulesOf(c), call[c].browser)
    BY <1>0, <1>3 DEF Approve, ApprovalFits
  <2>2. new \in GateCallRecord /\ new.at = "approved"
    BY <1>0, FieldSet
  <2>3. new.kind = "accept" /\ new.replica = call[c].replica /\ new.pending = call[c].pending
        /\ new.browser = call[c].browser /\ new.sub = call[c].sub
    BY <1>0, <2>1 DEF GateCallRecord
  <2> HIDE DEF new
  <2>4. HasAnswer(c)'
    <3>1. HasAnswer(c)
      BY <1>0, <2>1 DEF CallSound
    <3>2. RulesOf(c)' = RulesOf(c)
      BY <2>1, <2>3 DEF RulesOf
    <3> QED BY <2>1, <2>2, <2>3, <3>1, <3>2 DEF HasAnswer
  <2>5. CallSound(c)'
    BY <1>0, <2>1, <2>2, <2>3, <2>4 DEF CallSound, Answering
  <2> QED BY <2>1, <2>2, <2>3, <2>5, CallGoesOn
<1>4. ASSUME NEW r \in Replica, NEW b \in Browser, NEW p \in Pending, NEW d \in {"accept", "deny"},
             Post(c, r, b, p, d)
      PROVE  GateInv'
  <2> DEFINE new == [Idle EXCEPT !.at = "peeked", !.kind = d, !.replica = r, !.browser = b, !.pending = p]
  <2>1. /\ call' = [call EXCEPT ![c] = new] /\ call'[c] = new /\ UNCHANGED <<rows, parked, approvals, rules>>
        /\ Bound(p, b)
    BY <1>0, <1>4 DEF Post, evidence
  <2>2. Idle \in GateCallRecord
    BY DEF GateAssumption, Idle, GateCallRecord, Unread
  <2>3. new \in GateCallRecord
    BY <2>2 DEF GateCallRecord
  <2>4. new.at = "peeked" /\ new.kind = d /\ new.replica = r /\ new.browser = b /\ new.pending = p
    BY DEF Idle
  <2> HIDE DEF new
  <2>5. CallSound(c)'
    BY <2>1, <2>3, <2>4 DEF CallSound, HasAnswer, Bound, Answering
  <2> QED BY <2>1, <2>3, <2>4, <2>5, CallGoesOn
<1> QED BY <1>1, <1>2, <1>3, <1>4

\* A parked login that is consumed stays the one it was.
LEMMA TakenOnce ==
    ASSUME parked \in [Pending -> Parked],
           \A p \in Pending : parked[p].state # "free" => parked[p].sub \in Subject,
           NEW p \in Pending, Taken(p), parked[p].state = "live"
    PROVE  /\ parked' \in [Pending -> Parked] /\ parked'[p].state = "gone"
           /\ \A q \in Pending : parked'[q].state # "free" => parked'[q].sub \in Subject
           /\ \A q \in Pending : parked[q].state # "free" =>
                 /\ parked'[q].sub = parked[q].sub /\ parked'[q].browser = parked[q].browser
                 /\ parked'[q].state # "free" /\ (parked[q].state = "gone" => parked'[q].state = "gone")
<1> DEFINE new == [parked[p] EXCEPT !.state = "gone"]
<1>1. parked' = [parked EXCEPT ![p] = new]
  BY DEF Taken
<1>2. new \in Parked /\ new.state = "gone" /\ new.sub = parked[p].sub /\ new.browser = parked[p].browser
  BY DEF Parked
<1> HIDE DEF new
<1>3. parked' \in [Pending -> Parked] /\ parked'[p] = new /\ \A q \in Pending \ {p} : parked'[q] = parked[q]
  BY <1>1, <1>2
<1> QED BY <1>2, <1>3

\* The steps that change the parked logins, and answer nothing.
LEMMA ParkedKeeps ==
    ASSUME GateAssumption, GateInv
    PROVE  /\ \A c \in GateCall, p \in Pending, b \in Browser : Park(c, p, b) => GateInv'
           /\ \A c \in GateCall : Deny(c) => GateInv'
           /\ \A p \in Pending : Expire(p) => GateInv'
           /\ \A r \in Replica, b \in Browser, p \in Pending : Show(r, b, p) => GateInv'
<1>0. /\ call \in [GateCall -> GateCallRecord] /\ \A c \in GateCall : CallSound(c)
      /\ parked \in [Pending -> Parked] /\ rules \in [Replica -> Rules]
      /\ \A p \in Pending : parked[p].state # "free" => parked[p].sub \in Subject
      /\ RowsSound
  BY DEF GateInv, ParkedSound
<1>1. ASSUME NEW c \in GateCall, NEW p \in Pending, NEW b \in Browser, Park(c, p, b) PROVE GateInv'
  <2> DEFINE new == [state |-> "live", sub |-> call[c].sub, browser |-> b]
  <2>1. /\ parked' = [parked EXCEPT ![p] = new] /\ parked[p] = Free /\ Ends(c) /\ call[c].at = "denied"
        /\ UNCHANGED <<rows, approvals, rules>>
    BY <1>1 DEF Park
  <2>2. new \in Parked /\ new.sub \in Subject
    BY <1>0, <2>1 DEF Parked, CallSound
  <2> HIDE DEF new
  <2>3. parked' \in [Pending -> Parked] /\ parked'[p] = new /\ \A q \in Pending \ {p} : parked'[q] = parked[q]
    BY <1>0, <2>1, <2>2
  <2>4. parked[p].state = "free"
    BY <2>1 DEF Free
  <2> QED BY <1>0, <2>1, <2>2, <2>3, <2>4, CallEnds
<1>2. ASSUME NEW p \in Pending, Taken(p), parked[p].state = "live"
      PROVE  /\ parked' \in [Pending -> Parked]
             /\ \A q \in Pending : parked'[q].state # "free" => parked'[q].sub \in Subject
             /\ \A q \in Pending : parked[q].state # "free" =>
                   /\ parked'[q].sub = parked[q].sub /\ parked'[q].browser = parked[q].browser
                   /\ parked'[q].state # "free" /\ (parked[q].state = "gone" => parked'[q].state = "gone")
  BY <1>0, <1>2, TakenOnce
<1>3. ASSUME NEW c \in GateCall, Deny(c) PROVE GateInv'
  <2>1. /\ call[c].pending \in Pending /\ Ends(c) /\ UNCHANGED <<rows, approvals, rules>>
        /\ parked' = parked \/ (Taken(call[c].pending) /\ parked[call[c].pending].state = "live")
    BY <1>0, <1>3 DEF Deny, CallSound, HasAnswer, ParkedLive
  <2>2. CASE parked' = parked
    BY <1>0, <2>1, <2>2, CallEnds
  <2>3. CASE Taken(call[c].pending) /\ parked[call[c].pending].state = "live"
    BY <1>2, <2>1, <2>3, CallEnds
  <2> QED BY <2>1, <2>2, <2>3
<1>4. ASSUME NEW p \in Pending, Expire(p) PROVE GateInv'
  <2>1. Taken(p) /\ parked[p].state = "live" /\ UNCHANGED <<rows, approvals, rules, call>>
    BY <1>4 DEF Expire, Taken
  <2>2. Moves
    BY <1>0, <1>2, <2>1 DEF Moves, RowsSound
  <2>3. \A d \in GateCall : KeepsRules(d)
    BY <2>1 DEF KeepsRules
  <2> QED BY <1>2, <2>1, <2>2, <2>3, NoNewAnswer
<1>5. ASSUME NEW r \in Replica, NEW b \in Browser, NEW p \in Pending, Show(r, b, p) PROVE GateInv'
  <2>1. UNCHANGED <<rows, parked, rules, call>> /\ approvals \subseteq approvals'
    BY <1>5 DEF Show
  <2>2. Moves
    BY <1>0, <2>1, CallMoves
  <2>3. \A d \in GateCall : KeepsRules(d)
    BY <2>1 DEF KeepsRules
  <2> QED BY <1>0, <2>1, <2>2, <2>3, NoNewAnswer
<1> QED BY <1>1, <1>3, <1>4, <1>5

\* An answer takes the parked login for itself.
LEMMA ConsumeKeeps ==
    ASSUME GateAssumption, GateInv, NEW c \in GateCall, Consume(c)
    PROVE  GateInv'
<1> DEFINE p == call[c].pending
           new == [[call[c] EXCEPT !.at = "recording"] EXCEPT !.sub = parked[p].sub]
<1>0. /\ call \in [GateCall -> GateCallRecord] /\ CallSound(c) /\ HasAnswer(c)
      /\ parked \in [Pending -> Parked] /\ rules \in [Replica -> Rules] /\ p \in Pending
      /\ \A q \in Pending : parked[q].state # "free" => parked[q].sub \in Subject
      /\ RowsSound /\ UNCHANGED <<rows, approvals, rules>> /\ call[c].at = "approved"
  BY DEF GateInv, ParkedSound, Consume, CallSound, HasAnswer
<1>1. CASE parked[p].state # "live"
  <2>1. Ends(c) /\ parked' = parked
    BY <1>1 DEF Consume, ParkedLive
  <2> QED BY <1>0, <2>1, CallEnds
<1>2. CASE parked[p].state = "live"
  <2>1. Taken(p) /\ call' = [call EXCEPT ![c] = new] /\ call'[c] = new
    BY <1>0, <1>2 DEF Consume, ParkedLive
  <2>2. new \in GateCallRecord
    <3>1. call[c] \in GateCallRecord /\ parked[p].sub \in Subject
      BY <1>0, <1>2
    <3> HIDE DEF p
    <3> QED BY <3>1 DEF GateCallRecord
  <2>3. /\ new.at = "recording" /\ new.sub = parked[p].sub /\ new.kind = call[c].kind
        /\ new.replica = call[c].replica /\ new.pending = p /\ new.browser = call[c].browser
    BY <1>0 DEF GateCallRecord
  <2> HIDE DEF new
  <2>4. /\ parked' \in [Pending -> Parked] /\ parked'[p].state = "gone"
        /\ \A q \in Pending : parked'[q].state # "free" => parked'[q].sub \in Subject
        /\ \A q \in Pending : parked[q].state # "free" =>
              /\ parked'[q].sub = parked[q].sub /\ parked'[q].browser = parked[q].browser
              /\ parked'[q].state # "free" /\ (parked[q].state = "gone" => parked'[q].state = "gone")
    BY <1>0, <1>2, <2>1, TakenOnce
  <2>5. call' \in [GateCall -> GateCallRecord] /\ \A d \in GateCall \ {c} : call'[d] = call[d]
    BY <1>0, <2>1, <2>2
  <2>6. Moves
    BY <1>0, <2>4, <2>5 DEF Moves, RowsSound
  <2>7. HasAnswer(c)'
    <3>1. RulesOf(c)' = RulesOf(c)
      BY <1>0, <2>1, <2>3 DEF RulesOf
    <3> QED BY <1>0, <1>2, <2>1, <2>3, <2>4, <3>1 DEF HasAnswer
  <2>8. CallSound(c)'
    BY <1>0, <2>1, <2>2, <2>3, <2>4, <2>7 DEF CallSound, Answering
  <2>9. \A d \in GateCall \ {c} : CallSound(d)'
    BY <1>0, <2>5, <2>6, CallStaysSound
  <2>10. RowsSound' /\ Grants' = Grants /\ Answers' = Answers
    BY <1>0 DEF RowsSound, Grants, Answers
  <2>11. \A i \in Answers : rows[i].pending \in Pending /\ parked[rows[i].pending].state = "gone"
                            /\ rows[i].pending # p
    BY <1>0, <1>2, AnswersParked DEF GateInv, ParkedSound
  <2>12. ParkedSound'
    BY <1>0, <2>4, <2>10, <2>11 DEF ParkedSound
  <2>13. ConsentWasShown'
    BY <1>0, <2>4, <2>10, <2>11 DEF GateInv, ConsentWasShown
  <2>14. \A d \in GateCall : Answering(d) => call[d].pending # p
    BY <1>2 DEF GateInv, CallSound
  <2>15. AnsweredOnce'
    <3>1. \A d \in GateCall \ {c} : Answering(d)' <=> Answering(d)
      BY <2>5 DEF Answering
    <3>2. \A d, e \in GateCall : Answering(d)' /\ Answering(e)' /\ d # e => call'[d].pending # call'[e].pending
      BY <2>1, <2>3, <2>5, <2>14, <3>1 DEF GateInv, AnsweredOnce
    <3>3. \A d \in GateCall, i \in Answers : call'[d].at = "recording" => rows[i].pending # call'[d].pending
      BY <2>1, <2>3, <2>5, <2>11 DEF GateInv, AnsweredOnce
    <3> QED BY <1>0, <2>10, <3>2, <3>3 DEF GateInv, AnsweredOnce
  <2>16. RevocationHolds'
    <3>1. \A d \in GateCall : call'[d].at = "granted" => d # c /\ RulesOf(d)' = RulesOf(d)
      BY <1>0, <2>1, <2>3, <2>5 DEF RulesOf
    <3> QED BY <1>0, <2>5, <2>10, <3>1 DEF GateInv, RevocationHolds
  <2> QED BY <2>5, <2>8, <2>9, <2>10, <2>12, <2>13, <2>15, <2>16 DEF GateInv
<1> QED BY <1>1, <1>2

\* A row that is appended leaves the others where they are.
LEMMA Appended ==
    ASSUME RowsSound, NEW row \in Row, rows' = Append(rows, row), Len(rows) < MaxRows, MaxRows \in Nat,
           row.type = "grant" => row.rules \in Rules
    PROVE  /\ RowsSound' /\ Len(rows) <= Len(rows') /\ \A i \in DOMAIN rows : rows'[i] = rows[i]
           /\ rows'[Len(rows) + 1] = row /\ Len(rows) + 1 \notin DOMAIN rows
           /\ DOMAIN rows' = DOMAIN rows \cup {Len(rows) + 1}
           /\ Grants' = Grants \cup (IF row.type = "grant" THEN {Len(rows) + 1} ELSE {})
           /\ Answers' = Answers \cup
                 (IF row.type = "grant" /\ row.pending # Absent THEN {Len(rows) + 1} ELSE {})
<1>1. rows \in Seq(Row) /\ Len(rows) \in Nat
  BY DEF RowsSound
<1>2. /\ rows' \in Seq(Row) /\ Len(rows') = Len(rows) + 1 /\ rows'[Len(rows) + 1] = row
      /\ \A i \in DOMAIN rows : rows'[i] = rows[i]
      /\ DOMAIN rows' = DOMAIN rows \cup {Len(rows) + 1} /\ Len(rows) + 1 \notin DOMAIN rows
  BY <1>1
<1>3. Grants' = Grants \cup (IF row.type = "grant" THEN {Len(rows) + 1} ELSE {})
  BY <1>2 DEF Grants
<1>4. Answers' = Answers \cup (IF row.type = "grant" /\ row.pending # Absent THEN {Len(rows) + 1} ELSE {})
  BY <1>2, <1>3 DEF Answers, Grants
<1>5. RowsSound'
  <2>1. ASSUME NEW i \in Grants' PROVE rows'[i].rules \in Rules
    BY <1>2, <1>3, <2>1 DEF RowsSound, Grants
  <2>2. Len(rows') <= MaxRows
    BY <1>1, <1>2
  <2> QED BY <1>2, <2>1, <2>2 DEF RowsSound
<1> QED BY <1>1, <1>2, <1>3, <1>4, <1>5

\* A revocation is recorded.
LEMMA RevokeKeeps ==
    ASSUME GateAssumption, GateInv, NEW u \in Subject, NEW t \in 0 .. MaxReading, RevokeConsent(u, t)
    PROVE  GateInv'
<1> DEFINE row == RevocationRow(u, t)
<1>0. /\ RowsSound /\ ParkedSound /\ call \in [GateCall -> GateCallRecord]
      /\ UNCHANGED <<parked, approvals, rules, call>> /\ rows' = Append(rows, row) /\ Len(rows) < MaxRows
      /\ MaxRows \in Nat
  BY DEF GateInv, RevokeConsent, GateAssumption
<1>1. row \in Row /\ row.type = "revocation"
  BY DEF RevocationRow, Row, GateAssumption
<1> HIDE DEF row
<1>2. /\ RowsSound' /\ Len(rows) <= Len(rows') /\ \A i \in DOMAIN rows : rows'[i] = rows[i]
      /\ Grants' = Grants /\ Answers' = Answers /\ Grants \subseteq DOMAIN rows
  BY <1>0, <1>1, Appended DEF Grants
<1>3. Moves
  BY <1>0, <1>2 DEF Moves, RowsSound, ParkedSound
<1>4. \A d \in GateCall : CallSound(d)'
  BY <1>0, <1>3, CallStaysSound DEF GateInv
<1>5. ParkedSound' /\ ConsentWasShown'
  BY <1>0, <1>2 DEF GateInv, ParkedSound, ConsentWasShown, Answers, Approval
<1>6. AnsweredOnce'
  <2>1. \A d \in GateCall : Answering(d)' <=> Answering(d)
    BY <1>0 DEF Answering
  <2>2. \A i \in Answers : rows'[i] = rows[i]
    BY <1>2 DEF Answers, Grants
  <2>3. \A i, j \in Answers' : rows'[i].pending = rows'[j].pending => i = j
    BY <1>2, <2>2 DEF GateInv, AnsweredOnce
  <2>4. \A d, e \in GateCall : Answering(d)' /\ Answering(e)' /\ d # e => call'[d].pending # call'[e].pending
    BY <1>0, <2>1 DEF GateInv, AnsweredOnce
  <2>5. \A d \in GateCall, i \in Answers' : call'[d].at = "recording" => rows'[i].pending # call'[d].pending
    BY <1>0, <1>2, <2>2 DEF GateInv, AnsweredOnce
  <2> QED BY <2>3, <2>4, <2>5 DEF AnsweredOnce
<1>7. RevocationHolds'
  BY <1>0, <1>2 DEF GateInv, RevocationHolds, RulesOf
<1> QED BY <1>0, <1>2, <1>4, <1>5, <1>6, <1>7 DEF GateInv

\* A replica restarts with other rules: its calls are gone.
LEMMA DeployKeeps ==
    ASSUME GateAssumption, GateInv, NEW r \in Replica, NEW new \in Rules, Deploy(r, new)
    PROVE  GateInv'
<1>0. /\ RowsSound /\ ParkedSound /\ call \in [GateCall -> GateCallRecord]
      /\ UNCHANGED <<rows, parked, approvals>> /\ rules' = [rules EXCEPT ![r] = new]
      /\ call' = [c \in GateCall |-> IF call[c].replica = r THEN Idle ELSE call[c]]
  BY DEF GateInv, Deploy
<1>1. Idle \in GateCallRecord
  BY DEF GateAssumption, Idle, GateCallRecord, Unread
<1>2. rules' \in [Replica -> Rules] /\ \A s \in Replica \ {r} : rules'[s] = rules[s]
  BY <1>0 DEF ParkedSound
<1>3. Moves
  BY <1>0, <1>1, <1>2 DEF Moves, RowsSound, ParkedSound
<1>4. ASSUME NEW d \in GateCall, ~KeepsRules(d)
      PROVE  /\ CallSound(d)' /\ ~Answering(d)' /\ call'[d].at # "granted"
  <2>1. CASE call[d].replica = r
    <3>1. call'[d] = Idle
      BY <1>0, <2>1
    <3> QED BY <1>1, <3>1 DEF CallSound, Answering, Idle
  <2>2. CASE call[d].replica # r
    <3>1. call'[d] = call[d] /\ (call[d].at # "idle" => call[d].replica \in Replica)
      BY <1>0, <2>2 DEF GateInv, CallSound
    <3> QED BY <1>2, <1>4, <2>2, <3>1 DEF KeepsRules
  <2> QED BY <2>1, <2>2
<1>5. \A p \in Pending : parked'[p].state # "free" => parked'[p].sub \in Subject
  BY <1>0 DEF ParkedSound
<1> QED BY <1>0, <1>3, <1>4, <1>5, NoNewAnswer

\* An answer is recorded, or was recorded before.
LEMMA RecordKeeps ==
    ASSUME GateAssumption, GateInv, NEW c \in GateCall, NEW now \in 0 .. MaxReading, Record(c, now)
    PROVE  GateInv'
<1> DEFINE p == call[c].pending
           row == GrantRow(call[c].sub, RulesOf(c), now, p)
           new == [[[call[c] EXCEPT !.at = "completing"] EXCEPT !.grant = Unread] EXCEPT !.latest = Unread]
           n == Len(rows) + 1
<1>0. /\ call \in [GateCall -> GateCallRecord] /\ CallSound(c) /\ HasAnswer(c) /\ Answering(c)
      /\ RowsSound /\ ParkedSound /\ MaxRows \in Nat /\ call[c].at = "recording"
      /\ UNCHANGED <<parked, approvals, rules>> /\ call' = [call EXCEPT ![c] = new] /\ call'[c] = new
  BY DEF GateInv, Record, CallSound, HasAnswer, Answering, GateAssumption
<1>1. p \in Pending /\ parked[p].state = "gone" /\ RulesOf(c) \in Rules /\ call[c].sub = parked[p].sub
      /\ call[c].sub \in Subject /\ parked[p].browser = call[c].browser /\ call[c].kind = "accept"
      /\ Approval(p, RulesOf(c), call[c].browser) \in approvals
  BY <1>0 DEF CallSound, HasAnswer, ParkedSound, RulesOf
<1>2. new \in GateCallRecord /\ new.at = "completing" /\ new.kind = "accept" /\ new.pending = p
      /\ new.replica = call[c].replica
  <2>1. call[c] \in GateCallRecord /\ Unread \in 0 .. Unread /\ call[c].kind = "accept"
    BY <1>0, <1>1 DEF Unread, GateAssumption
  <2>2. [call[c] EXCEPT !.at = "completing"] \in GateCallRecord
    BY <2>1, FieldSet
  <2>3. [[call[c] EXCEPT !.at = "completing"] EXCEPT !.grant = Unread] \in GateCallRecord
    BY <2>1, <2>2, FieldSet
  <2>4. new \in GateCallRecord
    BY <2>1, <2>3, FieldSet
  <2> QED BY <2>1, <2>4 DEF GateCallRecord
<1> HIDE DEF new, p
<1>3. call' \in [GateCall -> GateCallRecord] /\ \A d \in GateCall \ {c} : call'[d] = call[d]
  BY <1>0, <1>2
<1>4. CASE rows' = rows
  <2>1. Moves /\ \A d \in GateCall \ {c} : KeepsRules(d)
    BY <1>0, <1>3, <1>4 DEF Moves, KeepsRules, RowsSound, ParkedSound
  <2>2. CallSound(c)'
    BY <1>0, <1>1, <1>2 DEF CallSound, Answering
  <2>3. Answering(c)' => Answering(c) /\ call'[c].pending = call[c].pending /\ call'[c].at # "recording"
                         /\ call'[c].at # "granted"
    BY <1>0, <1>2 DEF p, Answering
  <2>4. call'[c].at # "granted" /\ \A q \in Pending : parked'[q].state # "free" => parked'[q].sub \in Subject
    BY <1>0, <1>2 DEF ParkedSound
  <2> QED BY <1>4, <2>1, <2>2, <2>3, <2>4, NoNewAnswer
<1>5. CASE rows' = Append(rows, row) /\ Len(rows) < MaxRows
  <2>1. row \in Row /\ row.type = "grant" /\ row.pending = p /\ row.sub = parked[p].sub
        /\ row.rules = RulesOf(c) /\ row.rules \in Rules /\ p # Absent
    BY <1>1 DEF GrantRow, Row, GateAssumption
  <2> HIDE DEF row
  <2>2. /\ RowsSound' /\ Len(rows) <= Len(rows') /\ \A i \in DOMAIN rows : rows'[i] = rows[i]
        /\ rows'[n] = row /\ Grants' = Grants \cup {n} /\ Answers' = Answers \cup {n}
        /\ Answers \subseteq DOMAIN rows /\ Grants \subseteq DOMAIN rows /\ n \notin DOMAIN rows
    BY <1>0, <1>5, <2>1, Appended DEF Grants, Answers
  <2> HIDE DEF n
  <2>3. Moves
    BY <1>0, <1>3, <2>2 DEF Moves, RowsSound, ParkedSound
  <2>4. \A d \in GateCall \ {c} : CallSound(d)'
    BY <1>0, <1>3, <2>3, CallStaysSound
  <2>5. CallSound(c)'
    BY <1>0, <1>1, <1>2 DEF CallSound, Answering
  <2>6. ParkedSound'
    BY <1>0, <1>1, <2>1, <2>2 DEF ParkedSound
  <2>7. ConsentWasShown'
    <3>1. \A i \in Answers : rows'[i] = rows[i]
      BY <2>2
    <3> QED BY <1>0, <1>1, <2>1, <2>2, <3>1 DEF GateInv, ConsentWasShown
  <2>8. AnsweredOnce'
    <3>1. \A d \in GateCall : Answering(d)' => Answering(d) /\ call'[d].pending = call[d].pending
      BY <1>0, <1>2, <1>3 DEF Answering, p
    <3>2. \A d, e \in GateCall : Answering(d)' /\ Answering(e)' /\ d # e => call'[d].pending # call'[e].pending
      BY <3>1 DEF GateInv, AnsweredOnce
    <3>3. \A i \in Answers : rows'[i] = rows[i] /\ rows[i].pending # p
      BY <1>0, <2>2 DEF GateInv, AnsweredOnce, p
    <3>4. \A d \in GateCall : call'[d].at = "recording" => d # c /\ call'[d] = call[d] /\ Answering(d)
      <4>1. TAKE d \in GateCall
      <4>2. call[d].at = "recording" => call[d].kind = "accept"
        BY DEF GateInv, CallSound, HasAnswer
      <4> QED BY <1>0, <1>2, <1>3, <4>2 DEF Answering
    <3>5. \A d \in GateCall : call'[d].at = "recording" => call[d].pending # p
      BY <1>0, <3>4 DEF GateInv, AnsweredOnce, p
    <3>6. \A i, j \in Answers' : rows'[i].pending = rows'[j].pending => i = j
      BY <2>1, <2>2, <3>3 DEF GateInv, AnsweredOnce
    <3>7. \A d \in GateCall, i \in Answers' : call'[d].at = "recording" => rows'[i].pending # call'[d].pending
      BY <2>1, <2>2, <3>3, <3>4, <3>5 DEF GateInv, AnsweredOnce
    <3> QED BY <3>2, <3>6, <3>7 DEF AnsweredOnce
  <2>9. RevocationHolds'
    <3>1. \A d \in GateCall : call'[d].at = "granted" => call'[d] = call[d] /\ RulesOf(d)' = RulesOf(d)
      BY <1>0, <1>2, <1>3 DEF RulesOf
    <3>2. \A i \in Grants : i \in Grants' /\ rows'[i] = rows[i]
      BY <2>2
    <3> QED BY <3>1, <3>2 DEF GateInv, RevocationHolds
  <2> QED BY <1>3, <2>2, <2>4, <2>5, <2>6, <2>7, <2>8, <2>9 DEF GateInv
<1> QED BY <1>4, <1>5 DEF Record, p

LEMMA GateStep == GateAssumption /\ GateInv /\ [GateNext]_gateVars => GateInv'
<1> SUFFICES ASSUME GateAssumption, GateInv, [GateNext]_gateVars PROVE GateInv'
  OBVIOUS
<1>1. CASE UNCHANGED gateVars
  <2>1. UNCHANGED <<rows, parked, approvals, rules, call>>
    BY <1>1 DEF gateVars, evidence
  <2>2. Moves /\ \A d \in GateCall : KeepsRules(d)
    BY <2>1, CallMoves DEF GateInv, KeepsRules
  <2>3. \A q \in Pending : parked'[q].state # "free" => parked'[q].sub \in Subject
    BY <2>1 DEF GateInv, ParkedSound
  <2> QED BY <2>1, <2>2, <2>3, NoNewAnswer
<1>2. ASSUME NEW c \in GateCall, NEW r \in Replica, NEW u \in Subject, Dispatch(c, r, u) \/ Login(c, r, u)
      PROVE  GateInv'
  BY <1>2, StartsKeeps DEF Dispatch, Login
<1>3. ASSUME NEW c \in GateCall,
             \/ ReadGrant(c) \/ ReadLatest(c) \/ ReadRevocations(c)
             \/ CallAnswered(c) \/ PassSilently(c)
             \/ Deny(c) \/ ShowAgain(c) \/ Consume(c) \/ Complete(c) \/ CallFails(c)
      PROVE  GateInv'
  BY <1>3, ReadsKeep, CallsKeep, ParkedKeeps, ConsumeKeeps
<1>4. ASSUME NEW c \in GateCall, NEW now \in 0 .. MaxReading, Decide(c, now) \/ Record(c, now)
      PROVE  GateInv'
  BY <1>4, DecideKeeps, RecordKeeps
<1>5. ASSUME NEW c \in GateCall, NEW p \in Pending, NEW b \in Browser, Park(c, p, b) PROVE GateInv'
  BY <1>5, ParkedKeeps
<1>6. ASSUME NEW c \in GateCall, NEW a \in approvals, Approve(c, a) PROVE GateInv'
  BY <1>6, CallsKeep
<1>7. ASSUME NEW p \in Pending, Expire(p) PROVE GateInv'
  BY <1>7, ParkedKeeps
<1>8. ASSUME NEW r \in Replica, NEW b \in Browser, NEW p \in Pending, Show(r, b, p) PROVE GateInv'
  BY <1>8, ParkedKeeps
<1>9. ASSUME NEW c \in GateCall, NEW r \in Replica, NEW b \in Browser, NEW p \in Pending,
             NEW d \in {"accept", "deny"}, Post(c, r, b, p, d)
      PROVE  GateInv'
  BY <1>9, CallsKeep
<1>10. ASSUME NEW u \in Subject, NEW t \in 0 .. MaxReading, RevokeConsent(u, t) PROVE GateInv'
  BY <1>10, RevokeKeeps
<1>11. ASSUME NEW r \in Replica, NEW new \in Rules, Deploy(r, new) PROVE GateInv'
  BY <1>11, DeployKeeps
<1> QED BY <1>1, <1>2, <1>3, <1>4, <1>5, <1>6, <1>7, <1>8, <1>9, <1>10, <1>11 DEF GateNext

\* Of every acceptance in the evidence, the rules were shown in the form of that
\* login to the browser that made it, and the subject is the one who logged in, for
\* any number of replicas, deployments and logins (handlePendingConsentPost).
THEOREM AcceptedWasShown == GateSpec => []ConsentWasShown
<1>1. GateInv => ConsentWasShown
  BY DEF GateInv
<1> QED BY <1>1, GateAssumption, GateInvInit, GateStep, PTL DEF GateSpec

\* A parked login is recorded and completed once at most, whoever answers it, and
\* on whichever replica (take of the pending store).
THEOREM LoginAnsweredOnce == GateSpec => []AnsweredOnce
<1>1. GateInv => AnsweredOnce
  BY DEF GateInv
<1> QED BY <1>1, GateAssumption, GateInvInit, GateStep, PTL DEF GateSpec

\* A call that goes upstream has an acceptance of the rules in force that was
\* recorded after every revocation there was when it came, whatever the clocks of
\* the replicas say (effectiveRevokedAt).
THEOREM RevokedIsRefused == GateSpec => []RevocationHolds
<1>1. GateInv => RevocationHolds
  BY DEF GateInv
<1> QED BY <1>1, GateAssumption, GateInvInit, GateStep, PTL DEF GateSpec

-----------------------------------------------------------------------------
(* The refusal of the next envelope *)

\* Entries of which no two are of one key.
Mark == [key : Person \cup Connection, invalidated : BOOLEAN, armed : BOOLEAN]
Distinct(tr) ==
    /\ tr \in Seq(Mark) /\ Len(tr) <= TrackerMax
    /\ \A i, j \in DOMAIN tr : tr[i].key = tr[j].key => i = j

\* The entry of a key is the one that has it.
LEMMA EntryFound ==
    ASSUME NEW tr, Distinct(tr), NEW k
    PROVE  /\ \A i \in DOMAIN tr : tr[i].key = k => TrackerEntry(tr, k) = i
           /\ (\A i \in DOMAIN tr : tr[i].key # k) => TrackerEntry(tr, k) = 0
<1> DEFINE I == {i \in 1 .. Len(tr) : tr[i].key = k}
<1>1. TrackerEntry(tr, k) = IF I # {} THEN Min(I) ELSE 0
  BY DEF TrackerEntry, SelectInSeq
<1>2. DOMAIN tr = 1 .. Len(tr)
  BY DEF Distinct
<1>3. ASSUME NEW i \in DOMAIN tr, tr[i].key = k PROVE TrackerEntry(tr, k) = i
  <2>1. I = {i}
    BY <1>2, <1>3 DEF Distinct
  <2>2. Min({i}) = i
    BY <1>2 DEF Min
  <2> QED BY <1>1, <2>1, <2>2
<1>4. ASSUME \A i \in DOMAIN tr : tr[i].key # k PROVE TrackerEntry(tr, k) = 0
  BY <1>1, <1>2, <1>4
<1> QED BY <1>3, <1>4

LEMMA ArmedEntry ==
    ASSUME NEW tr, Distinct(tr), NEW k
    PROVE  /\ IsArmed(tr, k) <=> \E i \in DOMAIN tr : tr[i].key = k /\ tr[i].armed
           /\ TrackerEntry(tr, k) # 0 => TrackerEntry(tr, k) \in DOMAIN tr /\ tr[TrackerEntry(tr, k)].key = k
           /\ TrackerEntry(tr, k) = 0 => \A i \in DOMAIN tr : tr[i].key # k
<1>0. 0 \notin DOMAIN tr
  BY DEF Distinct
<1>1. CASE \A i \in DOMAIN tr : tr[i].key # k
  BY <1>1, EntryFound DEF IsArmed
<1>2. ASSUME NEW i \in DOMAIN tr, tr[i].key = k
      PROVE  /\ TrackerEntry(tr, k) = i /\ i # 0
             /\ IsArmed(tr, k) <=> \E j \in DOMAIN tr : tr[j].key = k /\ tr[j].armed
  <2>1. TrackerEntry(tr, k) = i /\ i # 0
    BY <1>0, <1>2, EntryFound
  <2>2. \A j \in DOMAIN tr : tr[j].key = k => j = i
    BY <1>2 DEF Distinct
  <2> QED BY <1>2, <2>1, <2>2 DEF IsArmed
<1> QED BY <1>0, <1>1, <1>2

LEMMA ArmedMeans ==
    \A t, k : Distinct(t) => (IsArmed(t, k) <=> \E i \in DOMAIN t : t[i].key = k /\ t[i].armed)
  BY ArmedEntry

\* An entry is changed in place.
LEMMA MarkChanged ==
    ASSUME NEW tr, Distinct(tr), NEW i \in DOMAIN tr, NEW e \in Mark, e.key = tr[i].key,
           NEW new \in Seq(Mark), Len(new) = Len(tr), DOMAIN new = DOMAIN tr, new[i] = e,
           \A j \in DOMAIN tr : j # i => new[j] = tr[j]
    PROVE  /\ Distinct(new)
           /\ \A k : IsArmed(new, k) <=> (k = tr[i].key /\ e.armed) \/ (k # tr[i].key /\ IsArmed(tr, k))
<1>1. \A j \in DOMAIN tr : j # i => new[j] = tr[j]
  OBVIOUS
<1>2. Distinct(new)
  BY <1>1 DEF Distinct
<1>3. ASSUME NEW k PROVE IsArmed(new, k) <=> (k = tr[i].key /\ e.armed) \/ (k # tr[i].key /\ IsArmed(tr, k))
  <2>1. \A j \in DOMAIN tr : tr[j].key = tr[i].key => j = i
    BY DEF Distinct
  <2>2. IsArmed(new, k) <=> \E j \in DOMAIN new : new[j].key = k /\ new[j].armed
    BY <1>2, ArmedMeans, Zenon
  <2>3. IsArmed(tr, k) <=> \E j \in DOMAIN tr : tr[j].key = k /\ tr[j].armed
    BY ArmedEntry
  <2>4. CASE k = tr[i].key
    BY <1>1, <2>1, <2>2, <2>4
  <2>5. CASE k # tr[i].key
    BY <1>1, <2>2, <2>3, <2>5
  <2> QED BY <2>4, <2>5
<1> QED BY <1>2, <1>3

\* An entry is replaced by another of its key.
LEMMA MarkReplaced ==
    ASSUME NEW tr, Distinct(tr), NEW i \in DOMAIN tr, NEW e \in Mark, e.key = tr[i].key
    PROVE  /\ Distinct([tr EXCEPT ![i] = e])
           /\ \A k : IsArmed([tr EXCEPT ![i] = e], k) <=>
                        (k = tr[i].key /\ e.armed) \/ (k # tr[i].key /\ IsArmed(tr, k))
<1> DEFINE new == [tr EXCEPT ![i] = e]
<1>1. /\ new \in Seq(Mark) /\ Len(new) = Len(tr) /\ DOMAIN new = DOMAIN tr /\ new[i] = e
      /\ \A j \in DOMAIN tr : j # i => new[j] = tr[j]
  BY DEF Distinct
<1> HIDE DEF new
<1>2. Distinct(new) /\ \A k : IsArmed(new, k) <=> (k = tr[i].key /\ e.armed) \/ (k # tr[i].key /\ IsArmed(tr, k))
  BY <1>1, MarkChanged
<1> QED BY <1>2 DEF new

\* An entry goes.
LEMMA MarkGone ==
    ASSUME NEW tr, Distinct(tr), NEW i \in DOMAIN tr, NEW new, new = RemoveAt(tr, i)
    PROVE  /\ Distinct(new) /\ Len(new) = Len(tr) - 1
           /\ \A j \in DOMAIN new : \E h \in DOMAIN tr : new[j] = tr[h] /\ h # i
           /\ \A k : IsArmed(new, k) <=> k # tr[i].key /\ IsArmed(tr, k)
<1> DEFINE n == Len(tr)
<1>0. tr \in Seq(Mark) /\ n \in Nat /\ i \in 1 .. n
  BY DEF Distinct
<1>1. /\ new \in Seq(Mark) /\ Len(new) = n - 1
      /\ \A j \in 1 .. n - 1 : new[j] = IF j < i THEN tr[j] ELSE tr[j + 1]
  <2> DEFINE a == SubSeq(tr, 1, i - 1)
             b == SubSeq(tr, i + 1, n)
  <2>1. a \in Seq(Mark) /\ Len(a) = i - 1 /\ \A j \in 1 .. i - 1 : a[j] = tr[j]
    BY <1>0
  <2>2. b \in Seq(Mark) /\ Len(b) = n - i /\ \A j \in 1 .. n - i : b[j] = tr[j + i]
    BY <1>0
  <2>3. new = a \o b
    BY DEF RemoveAt
  <2> HIDE DEF a, b
  <2>4. new \in Seq(Mark) /\ Len(new) = n - 1
    BY <1>0, <2>1, <2>2, <2>3
  <2>5. ASSUME NEW j \in 1 .. n - 1 PROVE new[j] = IF j < i THEN tr[j] ELSE tr[j + 1]
    <3>1. CASE j < i
      BY <1>0, <2>1, <2>2, <2>3, <2>5, <3>1
    <3>2. CASE ~(j < i)
      <4>1. j \in 1 .. Len(a) + Len(b) /\ ~(j <= Len(a))
        BY <1>0, <2>1, <2>2, <2>5, <3>2
      <4>2. new[j] = b[j - Len(a)]
        BY <2>1, <2>2, <2>3, <4>1
      <4>3. j - Len(a) \in 1 .. n - i /\ (j - Len(a)) + i = j + 1
        BY <1>0, <2>1, <2>5, <3>2
      <4> QED BY <2>2, <3>2, <4>2, <4>3
    <3> QED BY <3>1, <3>2
  <2> QED BY <2>4, <2>5
<1>2. DOMAIN new = 1 .. n - 1 /\ DOMAIN tr = 1 .. n
  BY <1>0, <1>1
<1>3. \A j \in DOMAIN new : \E h \in DOMAIN tr : new[j] = tr[h] /\ h # i
  <2>1. TAKE j \in DOMAIN new
  <2>2. CASE j < i
    BY <1>0, <1>1, <1>2, <2>2
  <2>3. CASE ~(j < i)
    <3>1. j + 1 \in DOMAIN tr /\ new[j] = tr[j + 1] /\ j + 1 # i
      BY <1>0, <1>1, <1>2, <2>3
    <3> QED BY <3>1
  <2> QED BY <2>2, <2>3
<1>4. \A h \in DOMAIN tr : h # i => \E j \in DOMAIN new : new[j] = tr[h]
  <2> SUFFICES ASSUME NEW h \in DOMAIN tr, h # i PROVE \E j \in DOMAIN new : new[j] = tr[h]
    OBVIOUS
  <2>1. CASE h < i
    BY <1>0, <1>1, <1>2, <2>1
  <2>2. CASE h > i
    <3>1. h - 1 \in DOMAIN new /\ new[h - 1] = tr[h]
      BY <1>0, <1>1, <1>2, <2>2
    <3> QED BY <3>1
  <2> QED BY <1>0, <1>2, <2>1, <2>2
<1>5. Distinct(new)
  <2>1. ASSUME NEW a \in DOMAIN new, NEW b \in DOMAIN new, new[a].key = new[b].key PROVE a = b
    <3> DEFINE at(j) == IF j < i THEN j ELSE j + 1
    <3>1. at(a) \in DOMAIN tr /\ at(b) \in DOMAIN tr /\ new[a] = tr[at(a)] /\ new[b] = tr[at(b)]
      BY <1>0, <1>1, <1>2
    <3>2. at(a) = at(b)
      <4> HIDE DEF at
      <4> QED BY <2>1, <3>1 DEF Distinct
    <3> QED BY <1>0, <1>2, <3>2
  <2>2. TrackerMax \in Nat => Len(new) <= TrackerMax
    BY <1>0, <1>1 DEF Distinct
  <2> QED BY <1>1, <2>1, <2>2, ReconsentAssumption DEF Distinct
<1>6. ASSUME NEW k PROVE IsArmed(new, k) <=> k # tr[i].key /\ IsArmed(tr, k)
  <2>1. IsArmed(new, k) <=> \E j \in DOMAIN new : new[j].key = k /\ new[j].armed
    BY <1>5, ArmedEntry
  <2>2. IsArmed(tr, k) <=> \E j \in DOMAIN tr : tr[j].key = k /\ tr[j].armed
    BY ArmedEntry
  <2>3. \A j \in DOMAIN tr : tr[j].key = tr[i].key => j = i
    BY DEF Distinct
  <2> QED BY <1>3, <1>4, <2>1, <2>2, <2>3
<1> QED BY <1>1, <1>3, <1>5, <1>6

\* An entry comes, for a key that has none.
LEMMA MarkAdded ==
    ASSUME NEW tr, Distinct(tr), Len(tr) < TrackerMax, NEW e \in Mark, \A i \in DOMAIN tr : tr[i].key # e.key,
           NEW new, new = Append(tr, e)
    PROVE  /\ Distinct(new)
           /\ \A k : IsArmed(new, k) <=> (k = e.key /\ e.armed) \/ (k # e.key /\ IsArmed(tr, k))
<1> DEFINE n == Len(tr) + 1
<1>1. /\ tr \in Seq(Mark) /\ new \in Seq(Mark) /\ Len(new) = n /\ new[n] = e /\ DOMAIN new = DOMAIN tr \cup {n}
      /\ n \notin DOMAIN tr /\ \A j \in DOMAIN tr : new[j] = tr[j]
  BY DEF Distinct
<1>2. Len(new) <= TrackerMax
  BY <1>1, ReconsentAssumption
<1> HIDE DEF n
<1>3. Distinct(new)
  BY <1>1, <1>2 DEF Distinct
<1>4. ASSUME NEW k PROVE IsArmed(new, k) <=> (k = e.key /\ e.armed) \/ (k # e.key /\ IsArmed(tr, k))
  <2>1. IsArmed(new, k) <=> \E j \in DOMAIN new : new[j].key = k /\ new[j].armed
    BY <1>3, ArmedEntry
  <2>2. IsArmed(tr, k) <=> \E j \in DOMAIN tr : tr[j].key = k /\ tr[j].armed
    BY ArmedEntry
  <2> QED BY <1>1, <2>1, <2>2
<1> QED BY <1>3, <1>4

\* What the tracker does with a key, and whose next envelope it then refuses.
LEMMA MarkTracked ==
    ASSUME NEW tr, Distinct(tr), NEW k \in Person \cup Connection, NEW arm \in BOOLEAN
    PROVE  /\ Distinct(MarkInvalidated(tr, k, arm)) /\ k \notin Evicted(tr, k)
           /\ \A q : IsArmed(MarkInvalidated(tr, k, arm), q) <=>
                        (q = k /\ arm) \/ (q \notin Evicted(tr, k) /\ IsArmed(tr, q))
<1> DEFINE i == TrackerEntry(tr, k)
           mark == [key |-> k, invalidated |-> TRUE, armed |-> arm]
<1>0. mark \in Mark /\ mark.key = k /\ mark.armed = arm
  BY DEF Mark
<1>1. CASE i # 0
  <2> DEFINE new == [[tr[i] EXCEPT !.invalidated = TRUE] EXCEPT !.armed = tr[i].armed \/ arm]
  <2>1. i \in DOMAIN tr /\ tr[i].key = k /\ tr[i] \in Mark
    BY <1>1, ArmedEntry DEF Distinct
  <2>2. new \in Mark /\ new.key = k
    BY <2>1 DEF Mark
  <2>7. new.armed <=> tr[i].armed \/ arm
    BY <2>1 DEF Mark
  <2>3. MarkInvalidated(tr, k, arm) = [tr EXCEPT ![i] = new]
    BY <1>1, <2>1 DEF MarkInvalidated, Distinct, Mark
  <2>4. Evicted(tr, k) = {} /\ (IsArmed(tr, k) <=> tr[i].armed)
    BY <1>1 DEF Evicted, IsArmed
  <2> HIDE DEF new, i
  <2> DEFINE set == [tr EXCEPT ![i] = new]
  <2>5. Distinct(set) /\ \A q : IsArmed(set, q) <=> (q = k /\ new.armed) \/ (q # k /\ IsArmed(tr, q))
    BY <2>1, <2>2, MarkReplaced
  <2> HIDE DEF set
  <2>6. MarkInvalidated(tr, k, arm) = set
    BY <2>3 DEF set
  <2> QED BY <2>7, <2>4, <2>5, <2>6
<1>2. CASE i = 0 /\ Len(tr) < TrackerMax
  <2>1. MarkInvalidated(tr, k, arm) = Append(tr, mark) /\ Evicted(tr, k) = {}
    BY <1>2, ReconsentAssumption DEF MarkInvalidated, Evicted, Distinct
  <2>2. (\A j \in DOMAIN tr : tr[j].key # k) /\ ~IsArmed(tr, k)
    BY <1>2, ArmedEntry DEF IsArmed
  <2> HIDE DEF mark
  <2>3. Distinct(MarkInvalidated(tr, k, arm))
        /\ \A q : IsArmed(MarkInvalidated(tr, k, arm), q) <=> (q = k /\ arm) \/ (q # k /\ IsArmed(tr, q))
    BY <1>0, <1>2, <2>1, <2>2, MarkAdded
  <2> QED BY <2>1, <2>2, <2>3
<1>3. CASE i = 0 /\ ~(Len(tr) < TrackerMax)
  <2>1. Len(tr) = TrackerMax /\ TrackerMax \in Nat \ {0} /\ tr \in Seq(Mark) /\ 1 \in DOMAIN tr
    BY <1>3, ReconsentAssumption DEF Distinct
  <2>2. MarkInvalidated(tr, k, arm) = Append(Tail(tr), mark) /\ Evicted(tr, k) = {tr[1].key}
    BY <1>3, <2>1 DEF MarkInvalidated, Evicted
  <2>3. \A j \in DOMAIN tr : tr[j].key # k
    BY <1>3, ArmedEntry
  <2>4. ~IsArmed(tr, k)
    BY <1>3 DEF IsArmed
  <2>5. Tail(tr) = RemoveAt(tr, 1)
    BY <2>1 DEF RemoveAt
  <2>6. /\ Distinct(Tail(tr)) /\ Len(Tail(tr)) = Len(tr) - 1
        /\ \A j \in DOMAIN Tail(tr) : \E h \in DOMAIN tr : Tail(tr)[j] = tr[h] /\ h # 1
        /\ \A q : IsArmed(Tail(tr), q) <=> q # tr[1].key /\ IsArmed(tr, q)
    BY <2>1, <2>5, MarkGone
  <2>7. (\A j \in DOMAIN Tail(tr) : Tail(tr)[j].key # k) /\ Len(Tail(tr)) < TrackerMax
    BY <2>1, <2>3, <2>6
  <2> DEFINE rest == Tail(tr)
             added == Append(rest, mark)
  <2> HIDE DEF mark, rest
  <2>12. Distinct(rest) /\ Len(rest) < TrackerMax /\ mark \in Mark /\ \A j \in DOMAIN rest : rest[j].key # mark.key
    BY <1>0, <2>6, <2>7 DEF rest
  <2>13. Distinct(added)
        /\ \A q : IsArmed(added, q) <=> (q = mark.key /\ mark.armed) \/ (q # mark.key /\ IsArmed(rest, q))
    BY <2>12, MarkAdded
  <2> HIDE DEF added
  <2>8. Distinct(added) /\ \A q : IsArmed(added, q) <=> (q = k /\ arm) \/ (q # k /\ IsArmed(Tail(tr), q))
    BY <1>0, <2>13 DEF rest
  <2>9. \A q : IsArmed(Tail(tr), q) <=> q \notin Evicted(tr, k) /\ IsArmed(tr, q)
    BY <2>2, <2>6
  <2>10. k \notin Evicted(tr, k)
    BY <2>1, <2>2, <2>3
  <2>11. MarkInvalidated(tr, k, arm) = added
    BY <2>2 DEF rest, added
  <2> QED BY <2>4, <2>8, <2>9, <2>10, <2>11
<1> QED BY <1>1, <1>2, <1>3

LEMMA ForgetTracked ==
    ASSUME NEW tr, Distinct(tr), NEW k
    PROVE  Distinct(Forget(tr, k)) /\ \A q : IsArmed(Forget(tr, k), q) <=> q # k /\ IsArmed(tr, q)
<1>1. CASE TrackerEntry(tr, k) = 0
  BY <1>1 DEF Forget, IsArmed
<1>2. CASE TrackerEntry(tr, k) # 0
  <2>1. TrackerEntry(tr, k) \in DOMAIN tr /\ tr[TrackerEntry(tr, k)].key = k
    BY <1>2, ArmedEntry
  <2> QED BY <1>2, <2>1, MarkGone DEF Forget
<1> QED BY <1>1, <1>2

LEMMA ClearTracked ==
    ASSUME NEW tr, Distinct(tr), NEW k
    PROVE  Distinct(ClearInvalidation(tr, k)) /\ \A q : IsArmed(ClearInvalidation(tr, k), q) <=> IsArmed(tr, q)
<1> DEFINE i == TrackerEntry(tr, k)
<1>1. CASE ~IsArmed(tr, k)
  BY <1>1, ForgetTracked DEF ClearInvalidation
<1>2. CASE IsArmed(tr, k)
  <2> DEFINE new == [tr[i] EXCEPT !.invalidated = FALSE]
  <2>1. i \in DOMAIN tr /\ tr[i].key = k /\ tr[i] \in Mark /\ tr[i].armed
    BY <1>2, ArmedEntry DEF Distinct, IsArmed
  <2>2. new \in Mark /\ new.key = k /\ new.armed
    BY <2>1 DEF Mark
  <2>3. ClearInvalidation(tr, k) = [tr EXCEPT ![i] = new]
    BY <1>2 DEF ClearInvalidation
  <2> HIDE DEF new, i
  <2> DEFINE set == [tr EXCEPT ![i] = new]
  <2>4. Distinct(set) /\ \A q : IsArmed(set, q) <=> (q = k /\ new.armed) \/ (q # k /\ IsArmed(tr, q))
    BY <2>1, <2>2, MarkReplaced
  <2> HIDE DEF set
  <2>5. ClearInvalidation(tr, k) = set
    BY <2>3 DEF set
  <2> QED BY <1>2, <2>2, <2>4, <2>5
<1> QED BY <1>1, <1>2

LEMMA ConsumeTracked ==
    ASSUME NEW tr, Distinct(tr), NEW k
    PROVE  Distinct(ConsumeRejection(tr, k))
           /\ \A q : IsArmed(ConsumeRejection(tr, k), q) <=> q # k /\ IsArmed(tr, q)
<1> DEFINE i == TrackerEntry(tr, k)
<1>1. CASE ~IsInvalidated(tr, k)
  BY <1>1, ForgetTracked DEF ConsumeRejection
<1>2. CASE IsInvalidated(tr, k)
  <2> DEFINE new == [tr[i] EXCEPT !.armed = FALSE]
  <2>1. i \in DOMAIN tr /\ tr[i].key = k /\ tr[i] \in Mark
    BY <1>2, ArmedEntry DEF Distinct, IsInvalidated
  <2>2. new \in Mark /\ new.key = k /\ ~new.armed
    BY <2>1 DEF Mark
  <2>3. ConsumeRejection(tr, k) = [tr EXCEPT ![i] = new]
    BY <1>2 DEF ConsumeRejection
  <2> HIDE DEF new, i
  <2> DEFINE set == [tr EXCEPT ![i] = new]
  <2>4. Distinct(set) /\ \A q : IsArmed(set, q) <=> (q = k /\ new.armed) \/ (q # k /\ IsArmed(tr, q))
    BY <2>1, <2>2, MarkReplaced
  <2> HIDE DEF set
  <2>5. ConsumeRejection(tr, k) = set
    BY <2>3 DEF set
  <2> QED BY <2>2, <2>4, <2>5
<1> QED BY <1>1, <1>2

\* The tracker is armed for whom a refusal is owed.
ReconsentInv ==
    /\ Distinct(tracker) /\ owed \subseteq Person
    /\ connection \in [Connection -> Person \cup {Nobody, Nothing}]
    /\ check \in [Check -> [session : Connection, of : Person \cup {Nobody}] \cup {Nothing}]
    /\ RefusalOwed

LEMMA ReconsentInvInit == ReconsentInit => ReconsentInv
<1> SUFFICES ASSUME ReconsentInit PROVE ReconsentInv
  OBVIOUS
<1>1. Distinct(tracker) /\ DOMAIN tracker = {}
  BY ReconsentAssumption DEF ReconsentInit, Distinct
<1>2. \A k : ~IsArmed(tracker, k)
  BY <1>1, ArmedEntry
<1> QED BY <1>1, <1>2 DEF ReconsentInit, ReconsentInv, RefusalOwed

LEMMA ReconsentStep == ReconsentInv /\ [ReconsentNext]_reconsentVars => ReconsentInv'
<1> SUFFICES ASSUME ReconsentInv, [ReconsentNext]_reconsentVars PROVE ReconsentInv'
  OBVIOUS
<1>0. /\ Distinct(tracker) /\ owed \subseteq Person /\ \A p \in Person : p \in owed <=> IsArmed(tracker, p)
      /\ connection \in [Connection -> Person \cup {Nobody, Nothing}]
      /\ check \in [Check -> [session : Connection, of : Person \cup {Nobody}] \cup {Nothing}]
  BY DEF ReconsentInv, RefusalOwed
<1>1. ASSUME NEW c \in Check, CheckEnds(c)
      PROVE  check' \in [Check -> [session : Connection, of : Person \cup {Nobody}] \cup {Nothing}]
  BY <1>0, <1>1 DEF CheckEnds
<1>2. ASSUME UNCHANGED <<tracker, owed>>,
             connection' \in [Connection -> Person \cup {Nobody, Nothing}],
             check' \in [Check -> [session : Connection, of : Person \cup {Nobody}] \cup {Nothing}]
      PROVE  ReconsentInv'
  BY <1>0, <1>2, SMT DEF ReconsentInv, RefusalOwed
<1>3. ASSUME NEW p \in Person, RefuseEnvelope(p) PROVE ReconsentInv'
  <2>1. tracker' = ConsumeRejection(tracker, p) /\ owed' = owed \ {p} /\ UNCHANGED <<connection, check>>
    BY <1>3 DEF RefuseEnvelope
  <2>2. Distinct(tracker') /\ \A q : IsArmed(tracker', q) <=> q # p /\ IsArmed(tracker, q)
    BY <1>0, <2>1, ConsumeTracked
  <2> QED BY <1>0, <2>1, <2>2 DEF ReconsentInv, RefusalOwed
<1>4. ASSUME NEW p \in Person, NEW here \in BOOLEAN, LogIn(p, here) PROVE ReconsentInv'
  BY <1>0, <1>2, <1>4 DEF LogIn
<1>5. ASSUME NEW k \in Connection, NEW p \in Person \cup {Nobody}, Opens(k, p), UNCHANGED <<tracker, check, owed>>
      PROVE  ReconsentInv'
  <2>1. connection' \in [Connection -> Person \cup {Nobody, Nothing}]
    BY <1>0, <1>5 DEF Opens
  <2> QED BY <1>0, <1>2, <1>5, <2>1
<1>6. ASSUME NEW c \in Check, NEW k \in Connection, AskGate(c, k) PROVE ReconsentInv'
  <2>1. connection[k] \in Person \cup {Nobody}
    BY <1>0, <1>6 DEF AskGate
  <2>2. check' \in [Check -> [session : Connection, of : Person \cup {Nobody}] \cup {Nothing}]
    BY <1>0, <1>6, <2>1 DEF AskGate
  <2> QED BY <1>0, <1>2, <1>6, <2>2 DEF AskGate
<1>7. ASSUME NEW c \in Check, GateSatisfied(c) PROVE ReconsentInv'
  <2>1. tracker' = ClearInvalidation(tracker, check[c].of) /\ UNCHANGED <<connection, owed>>
    BY <1>7 DEF GateSatisfied
  <2>2. Distinct(tracker') /\ \A q : IsArmed(tracker', q) <=> IsArmed(tracker, q)
    BY <1>0, <2>1, ClearTracked
  <2>3. check' \in [Check -> [session : Connection, of : Person \cup {Nobody}] \cup {Nothing}]
    BY <1>1, <1>7 DEF GateSatisfied
  <2> QED BY <1>0, <2>1, <2>2, <2>3 DEF ReconsentInv, RefusalOwed
<1>8. ASSUME NEW c \in Check, Denied(c) PROVE ReconsentInv'
  <2> DEFINE k == check[c].session
             p == check[c].of
             key == BudgetKey(k, p)
  <2>1. k \in Connection /\ p \in Person \cup {Nobody}
    BY <1>0, <1>8 DEF Denied
  <2>2. /\ tracker' = MarkInvalidated(tracker, key, p # Nobody)
        /\ owed' = (owed \cup ({p} \ {Nobody})) \ Evicted(tracker, key)
        /\ connection' = [connection EXCEPT ![k] = Nothing] /\ CheckEnds(c)
    BY <1>8 DEF Denied
  <2>3. key \in Person \cup Connection /\ (p # Nobody => key = p /\ p \in Person)
        /\ (p = Nobody => key \notin Person)
    BY <2>1, ReconsentAssumption DEF BudgetKey
  <2> HIDE DEF k, p, key
  <2>4. /\ Distinct(tracker') /\ key \notin Evicted(tracker, key)
        /\ \A q : IsArmed(tracker', q) <=>
                     (q = key /\ p # Nobody) \/ (q \notin Evicted(tracker, key) /\ IsArmed(tracker, q))
    BY <1>0, <2>2, <2>3, MarkTracked
  <2>5. connection' \in [Connection -> Person \cup {Nobody, Nothing}]
    BY <1>0, <2>2
  <2>6. \A q \in Person : q \in owed' <=> IsArmed(tracker', q)
    BY <1>0, <2>2, <2>3, <2>4
  <2>7. owed' \subseteq Person
    BY <1>0, <2>2, <2>3
  <2> QED BY <1>1, <2>2, <2>4, <2>5, <2>6, <2>7 DEF ReconsentInv, RefusalOwed
<1>9. ASSUME NEW c \in Check, DeniedAgain(c) \/ GateFails(c) PROVE ReconsentInv'
  BY <1>0, <1>1, <1>2, <1>9 DEF DeniedAgain, GateFails
<1>10. CASE ServerRestarts
  <2>1. Distinct(tracker') /\ DOMAIN tracker' = {}
    BY <1>10, ReconsentAssumption DEF ServerRestarts, Distinct
  <2>2. \A k : ~IsArmed(tracker', k)
    BY <2>1, ArmedEntry
  <2> QED BY <1>10, <2>1, <2>2 DEF ServerRestarts, ReconsentInv, RefusalOwed
<1>11. CASE UNCHANGED reconsentVars
  BY <1>0, <1>2, <1>11 DEF reconsentVars
<1> QED BY <1>3, <1>4, <1>5, <1>6, <1>7, <1>8, <1>9, <1>10, <1>11 DEF ReconsentNext, Connect, ConnectNobody

\* The next envelope of a denied subject is refused, and that of nobody else, for
\* any number of subjects and sessions and every size of the tracker; only eviction
\* and a restart forget it (ReconsentTracker).
THEOREM DenialIsRefused == ReconsentSpec => []RefusalOwed
<1>1. ReconsentInv => RefusalOwed
  BY DEF ReconsentInv
<1> QED BY <1>1, ReconsentInvInit, ReconsentStep, PTL DEF ReconsentSpec

-----------------------------------------------------------------------------
(* Where a browser may be sent *)

\* The host a domain covers ends in its labels, one of them at least.
LEMMA SuffixBegins ==
    ASSUME NEW s \in Seq(STRING), NEW t \in Seq(STRING), s # <<>>, IsSuffix(s, t)
    PROVE  \E i \in DOMAIN t : SubSeq(t, i, Len(t)) = s
<1> DEFINE m == Len(s)
           n == Len(t)
<1>1. m \in Nat \ {0} /\ n \in Nat
  OBVIOUS
<1>2. Len(Reverse(s)) = m /\ Len(Reverse(t)) = n
  BY <1>1 DEF Reverse
<1>3. m <= n /\ SubSeq(Reverse(s), 1, m) = SubSeq(Reverse(t), 1, m)
  BY <1>2 DEF IsSuffix, IsPrefix
<1>4. \A i \in 1 .. m : s[(m - i) + 1] = t[(n - i) + 1]
  <2>1. TAKE i \in 1 .. m
  <2>2. SubSeq(Reverse(s), 1, m)[i] = Reverse(s)[i] /\ SubSeq(Reverse(t), 1, m)[i] = Reverse(t)[i]
    BY <1>1, <1>2, <1>3, <2>1
  <2>3. Reverse(s)[i] = s[(m - i) + 1] /\ Reverse(t)[i] = t[(n - i) + 1]
    BY <1>1, <1>3, <2>1 DEF Reverse
  <2> QED BY <2>2, <2>3, <1>3
<1>5. \A k \in 1 .. m : s[k] = t[(n - m) + k]
  <2>1. TAKE k \in 1 .. m
  <2>2. (m - k) + 1 \in 1 .. m
    BY <1>1, <2>1
  <2>3. (m - ((m - k) + 1)) + 1 = k /\ (n - ((m - k) + 1)) + 1 = (n - m) + k
    BY <1>1, <2>1
  <2> QED BY <1>4, <2>2, <2>3
<1>6. (n - m) + 1 \in DOMAIN t
  BY <1>1, <1>3
<1>7. SubSeq(t, (n - m) + 1, n) = s
  BY <1>1, <1>3, <1>5
<1> QED BY <1>6, <1>7

\* A host that an entry of the allowlist matches is one the entry means.
LEMMA MatchBelongs ==
    ASSUME NEW u \in Callback, NEW p \in AllowedHosts, MatchRedirectHost(u.host, p)
    PROVE  Belongs(u.host, p)
<1>1. u.host \in Host /\ p.host \in Host /\ p.host.is # <<>>
  BY TargetsAssumption DEF HostPattern
<1>2. CASE p.kind = "exact"
  BY <1>2 DEF MatchRedirectHost, Belongs
<1>3. CASE p.kind = "under"
  <2>1. u.host.kind = "name" /\ IsSuffix(p.host.is, u.host.is)
    BY <1>3 DEF MatchRedirectHost
  <2>2. \E i \in DOMAIN u.host.is : SubSeq(u.host.is, i, Len(u.host.is)) = p.host.is
    BY <1>1, <2>1, SuffixBegins DEF Host
  <2> QED BY <1>3, <2>1, <2>2 DEF Belongs
<1>4. CASE p.kind = "range"
  <2>1. MatchCIDR(u.host, p.host, p.bits)
    BY <1>4 DEF MatchRedirectHost
  <2>2. u.host.kind = p.host.kind /\ u.host.kind \in {"v4", "v6"} /\ p.bits \in 0 .. Width /\ Width \in Nat \ {0}
    BY <2>1, TargetsAssumption DEF MatchCIDR
  <2>3. \A i \in 1 .. p.bits : i \in Mask(u.host.kind, p.bits)
    <3>1. CASE p.bits = 0
      BY <3>1
    <3>2. CASE p.bits # 0
      <4>1. (Width - p.bits) % Width = Width - p.bits
        BY <2>2, <3>2
      <4> QED BY <2>2, <4>1 DEF Mask
    <3> QED BY <3>1, <3>2
  <2>4. \A i \in 1 .. p.bits : u.host.is[i] = p.host.is[i]
    BY <2>1, <2>3 DEF MatchCIDR
  <2>5. SubSeq(u.host.is, 1, p.bits) = SubSeq(p.host.is, 1, p.bits)
    BY <1>1, <2>2, <2>4 DEF Host
  <2> QED BY <1>4, <2>2, <2>5 DEF Belongs
<1> QED BY <1>2, <1>3, <1>4, TargetsAssumption DEF HostPattern

\* Callbacks a record of the client may hold: declared or approved, and none at all
\* only for the shared client.
Owned(own, c, callbacks) ==
    /\ callbacks \subseteq Callback
    /\ callbacks = {} => c = Shared
    /\ \A u \in callbacks : u \in own \/ ByApproval(u)

\* Whatever holds a registration - the store, an envelope - holds owned callbacks,
\* so the second look before the redirect decides as the first did.
StoreSound ==
    /\ registered \in [Client -> (SUBSET Callback) \cup {NoClient}]
    /\ declared \in [Client -> SUBSET Callback]
    /\ \A c \in DOMAIN Configured : Configured[c] \subseteq declared[c]
    /\ \A c \in Client : registered[c] # NoClient => Owned(declared[c], c, registered[c])
SealsSound ==
    /\ sealed \subseteq Client \X SUBSET Callback
    /\ \A e \in sealed : Owned(declared[e[1]], e[1], e[2])
FlowRecord == [ at : {"none", "open", "away", "sent", "told"},
                client : Client \cup {NoClient}, to : Callback \cup {NoClient} ]
FlowsSound ==
    /\ flow \in [Flow -> FlowRecord]
    /\ \A f \in Flow : flow[f].at # "none" => flow[f].client \in Client /\ flow[f].to \in Callback
TargetsInv == StoreSound /\ SealsSound /\ FlowsSound /\ TargetsTrusted

\* What the configuration says of the clients it has.
LEMMA ConfiguredOwned ==
    /\ Shared \in Client /\ DOMAIN Configured \subseteq Client
    /\ \A c \in DOMAIN Configured : Configured[c] \subseteq Callback /\ (Configured[c] = {} => c = Shared)
  BY TargetsAssumption

LEMMA TargetsInvInit == TargetsInit => TargetsInv
<1> SUFFICES ASSUME TargetsInit PROVE TargetsInv
  OBVIOUS
<1>1. StoreSound
  BY ConfiguredOwned DEF TargetsInit, AtStart, StoreSound, Owned
<1>2. SealsSound
  BY DEF TargetsInit, SealsSound
<1>3. FlowsSound /\ TargetsTrusted
  BY DEF TargetsInit, NoFlowYet, FlowsSound, FlowRecord, TargetsTrusted
<1> QED BY <1>1, <1>2, <1>3 DEF TargetsInv

\* A place the policy allows for owned callbacks is trusted.
LEMMA AllowedIsTrusted ==
    ASSUME NEW own, NEW c \in Client, NEW callbacks, Owned(own, c, callbacks), NEW u \in Callback,
           IsRedirectUriAllowedForClient(callbacks, u)
    PROVE  Trusted(own, c, u)
<1>1. CASE ByApproval(u)
  <2>1. u.scheme # "dangerous" /\ u.concrete
    BY <1>1 DEF ByApproval, IsApprovedUnregistered, IsSafe
  <2> QED BY <1>1, <2>1 DEF Trusted
<1>2. CASE ~ ByApproval(u)
  <2>1. IsAllowedRedirectHost(u)
    BY <1>2 DEF IsRedirectUriAllowedForClient, IsAllowedClientRedirectUri, ByApproval,
                IsAllowedSharedClientRedirectUri
  <2>2. PICK p \in AllowedHosts : MatchRedirectHost(u.host, p)
    BY <2>1 DEF IsAllowedRedirectHost
  <2>3. Belongs(u.host, p)
    BY <2>2, MatchBelongs
  <2>4. CASE callbacks = {}
    <3>1. c = Shared
      BY <2>4 DEF Owned
    <3>2. IsAllowedSharedClientRedirectUri(u)
      BY <1>2, <2>4 DEF IsRedirectUriAllowedForClient, IsAllowedClientRedirectUri, ByApproval
    <3> QED BY <2>1, <2>3, <3>1, <3>2
            DEF Trusted, IsAllowedSharedClientRedirectUri, IsAllowedRedirectHost
  <2>5. CASE callbacks # {}
    <3>1. u \in callbacks
      BY <2>5 DEF IsRedirectUriAllowedForClient
    <3>2. u \in own
      BY <1>2, <3>1 DEF Owned
    <3> QED BY <2>1, <2>3, <3>2 DEF Trusted, IsAllowedRedirectHost
  <2> QED BY <2>4, <2>5
<1> QED BY <1>1, <1>2

\* The record a request is judged by: the store's, or one provisioned for it.
LEMMA ResolvedOwned ==
    ASSUME TargetsInv, NEW c \in Client, NEW u \in Callback, Resolved(c, u) # NoClient
    PROVE  Owned(declared[c], c, Resolved(c, u))
<1>1. CASE Resolved(c, u) = registered[c]
  BY <1>1 DEF TargetsInv, StoreSound
<1>2. CASE Resolved(c, u) # registered[c]
  <2> DEFINE grown == (IF registered[c] = NoClient THEN {} ELSE registered[c]) \cup {u}
  <2>1. Resolved(c, u) = Provisioned(c, u)
    BY <1>2 DEF Resolved
  <2>2. AllowsUnregistered /\ IsApprovedUnregistered(u) /\ Provisioned(c, u) = grown
    BY <1>2, <2>1 DEF Provisioned
  <2>3. \A v \in grown : v \in Callback /\ (v \in declared[c] \/ ByApproval(v))
    BY <2>2 DEF TargetsInv, StoreSound, Owned, ByApproval
  <2> QED BY <2>1, <2>2, <2>3 DEF Owned
<1> QED BY <1>1, <1>2

\* What was owned and trusted stays so while registrations are only added.
LEMMA DeclaredGrows ==
    TargetsInv /\ [TargetsNext]_targetVars => \A c \in Client : declared[c] \subseteq declared'[c]
<1> SUFFICES ASSUME TargetsInv, [TargetsNext]_targetVars
             PROVE  \A c \in Client : declared[c] \subseteq declared'[c]
  OBVIOUS
<1>1. ASSUME NEW d \in Client, NEW callbacks \in SUBSET Callback, RegisterDynamic(d, callbacks)
      PROVE  \A c \in Client : declared[c] \subseteq declared'[c]
  BY <1>1 DEF RegisterDynamic, TargetsInv, StoreSound
<1>2. CASE UNCHANGED declared
  BY <1>2
<1>3. (\E d \in Client, callbacks \in SUBSET Callback : RegisterDynamic(d, callbacks)) \/ UNCHANGED declared
  <2>1. CASE UNCHANGED targetVars
    BY <2>1 DEF targetVars
  <2>2. CASE \E d \in Client, callbacks \in SUBSET Callback :
               RegisterDynamic(d, callbacks) \/ RecoverClient(d, callbacks)
    BY <2>2 DEF RecoverClient
  <2>3. CASE \E d \in Client : EvictClient(d)
    BY <2>3 DEF EvictClient
  <2>4. CASE \E f \in Flow, d \in Client, u \in Callback : AuthorizeFor(f, d, u)
    BY <2>4 DEF AuthorizeFor
  <2>5. CASE \E f \in Flow : ReturnsFromProvider(f) \/ CompleteAuthorization(f) \/ RedeemCode(f) \/ AbandonFlow(f)
    BY <2>5 DEF ReturnsFromProvider, CompleteAuthorization, RedeemCode, AbandonFlow
  <2>6. CASE RestartProvider
    BY <2>6 DEF RestartProvider
  <2> QED BY <2>1, <2>2, <2>3, <2>4, <2>5, <2>6 DEF TargetsNext
<1> QED BY <1>1, <1>2, <1>3

\* Owned and trusted is for ever.
LEMMA StaysOwned ==
    ASSUME NEW own, NEW more, own \subseteq more, NEW c
    PROVE  /\ \A callbacks : Owned(own, c, callbacks) => Owned(more, c, callbacks)
           /\ \A u : Trusted(own, c, u) => Trusted(more, c, u)
<1>1. \A callbacks : Owned(own, c, callbacks) => Owned(more, c, callbacks)
  BY DEF Owned
<1>2. \A u : Trusted(own, c, u) => Trusted(more, c, u)
  BY DEF Trusted
<1> QED BY <1>1, <1>2

\* What a step leaves alone stays sound.
LEMMA TargetsKept ==
    TargetsInv /\ [TargetsNext]_targetVars =>
        /\ \A c \in Client : registered'[c] = registered[c] /\ registered'[c] # NoClient =>
              Owned(declared'[c], c, registered'[c])
        /\ \A c \in DOMAIN Configured : Configured[c] \subseteq declared'[c]
        /\ UNCHANGED sealed => SealsSound'
        /\ UNCHANGED flow => FlowsSound' /\ TargetsTrusted'
<1> SUFFICES ASSUME TargetsInv, [TargetsNext]_targetVars
             PROVE  /\ \A c \in Client : registered'[c] = registered[c] /\ registered'[c] # NoClient =>
                          Owned(declared'[c], c, registered'[c])
                    /\ \A c \in DOMAIN Configured : Configured[c] \subseteq declared'[c]
                    /\ UNCHANGED sealed => SealsSound'
                    /\ UNCHANGED flow => FlowsSound' /\ TargetsTrusted'
  OBVIOUS
<1>1. ASSUME NEW c \in Client, registered'[c] = registered[c], registered'[c] # NoClient
      PROVE  Owned(declared'[c], c, registered'[c])
  <2>1. Owned(declared[c], c, registered[c])
    BY <1>1 DEF TargetsInv, StoreSound
  <2> QED BY <1>1, <2>1, StaysOwned, DeclaredGrows
<1>2. \A c \in DOMAIN Configured : Configured[c] \subseteq declared'[c]
  BY DeclaredGrows, ConfiguredOwned DEF TargetsInv, StoreSound
<1>3. ASSUME UNCHANGED sealed PROVE SealsSound'
  <2>1. sealed' \subseteq Client \X SUBSET Callback
    BY <1>3 DEF TargetsInv, SealsSound
  <2>2. ASSUME NEW e \in sealed' PROVE Owned(declared'[e[1]], e[1], e[2])
    <3>1. e[1] \in Client /\ Owned(declared[e[1]], e[1], e[2])
      BY <1>3, <2>1, <2>2 DEF TargetsInv, SealsSound
    <3> QED BY <3>1, StaysOwned, DeclaredGrows
  <2> QED BY <2>1, <2>2 DEF SealsSound
<1>4. ASSUME UNCHANGED flow PROVE FlowsSound' /\ TargetsTrusted'
  <2>1. FlowsSound'
    BY <1>4 DEF TargetsInv, FlowsSound, FlowRecord
  <2>2. ASSUME NEW f \in Flow, flow'[f].at \in {"sent", "told"}
        PROVE  Trusted(declared'[flow'[f].client], flow'[f].client, flow'[f].to)
    <3>1. flow[f].client \in Client /\ Trusted(declared[flow[f].client], flow[f].client, flow[f].to)
      BY <1>4, <2>2 DEF TargetsInv, TargetsTrusted, FlowsSound
    <3> QED BY <1>4, <3>1, StaysOwned, DeclaredGrows
  <2> QED BY <2>1, <2>2 DEF TargetsTrusted
<1> QED BY <1>1, <1>2, <1>3, <1>4

\* A flow that is changed alone, to a sound one, leaves the flows sound.
LEMMA OneFlow ==
    TargetsInv /\ [TargetsNext]_targetVars =>
        \A f \in Flow, new \in FlowRecord :
            /\ flow' = [flow EXCEPT ![f] = new]
            /\ new.at # "none" => new.client \in Client /\ new.to \in Callback
            /\ new.at \in {"sent", "told"} => Trusted(declared'[new.client], new.client, new.to)
            => FlowsSound' /\ TargetsTrusted'
<1> SUFFICES ASSUME TargetsInv, [TargetsNext]_targetVars, NEW f \in Flow, NEW new \in FlowRecord,
                    flow' = [flow EXCEPT ![f] = new],
                    new.at # "none" => new.client \in Client /\ new.to \in Callback,
                    new.at \in {"sent", "told"} => Trusted(declared'[new.client], new.client, new.to)
             PROVE  FlowsSound' /\ TargetsTrusted'
  OBVIOUS
<1>1. flow \in [Flow -> FlowRecord] /\ flow' \in [Flow -> FlowRecord]
  BY DEF TargetsInv, FlowsSound
<1>2. flow'[f] = new /\ \A g \in Flow \ {f} : flow'[g] = flow[g]
  BY <1>1
<1>3. FlowsSound'
  BY <1>1, <1>2 DEF TargetsInv, FlowsSound, FlowRecord
<1>4. ASSUME NEW g \in Flow, flow'[g].at \in {"sent", "told"}
      PROVE  Trusted(declared'[flow'[g].client], flow'[g].client, flow'[g].to)
  <2>1. CASE g = f
    BY <1>2, <1>4, <2>1
  <2>2. CASE g # f
    <3>1. flow[g].client \in Client /\ Trusted(declared[flow[g].client], flow[g].client, flow[g].to)
      BY <1>2, <1>4, <2>2 DEF TargetsInv, TargetsTrusted, FlowsSound
    <3> QED BY <1>2, <2>2, <3>1, StaysOwned, DeclaredGrows
  <2> QED BY <2>1, <2>2
<1> QED BY <1>3, <1>4 DEF TargetsTrusted

\* One client's record is replaced by an owned one, or is gone.
LEMMA OneRecord ==
    TargetsInv /\ [TargetsNext]_targetVars =>
        \A c \in Client, new \in (SUBSET Callback) \cup {NoClient} :
            /\ registered' = [registered EXCEPT ![c] = new]
            /\ declared' \in [Client -> SUBSET Callback]
            /\ new # NoClient => Owned(declared'[c], c, new)
            => StoreSound'
<1> SUFFICES ASSUME TargetsInv, [TargetsNext]_targetVars, NEW c \in Client,
                    NEW new \in (SUBSET Callback) \cup {NoClient},
                    registered' = [registered EXCEPT ![c] = new],
                    declared' \in [Client -> SUBSET Callback],
                    new # NoClient => Owned(declared'[c], c, new)
             PROVE  StoreSound'
  OBVIOUS
<1>1. registered' \in [Client -> (SUBSET Callback) \cup {NoClient}]
  BY DEF TargetsInv, StoreSound
<1>2. registered'[c] = new /\ \A d \in Client \ {c} : registered'[d] = registered[d]
  BY DEF TargetsInv, StoreSound
<1>3. \A d \in Client : registered'[d] # NoClient => Owned(declared'[d], d, registered'[d])
  BY <1>2, TargetsKept
<1> QED BY <1>1, <1>3, TargetsKept DEF StoreSound

\* Every step keeps the invariant.
LEMMA TargetsStep == TargetsInv /\ [TargetsNext]_targetVars => TargetsInv'
<1> SUFFICES ASSUME TargetsInv, [TargetsNext]_targetVars PROVE TargetsInv'
  OBVIOUS
<1>0. /\ registered \in [Client -> (SUBSET Callback) \cup {NoClient}]
      /\ declared \in [Client -> SUBSET Callback] /\ flow \in [Flow -> FlowRecord]
  BY DEF TargetsInv, StoreSound, FlowsSound
<1>1. ASSUME NEW c \in Client, NEW callbacks \in SUBSET Callback, RegisterDynamic(c, callbacks)
      PROVE  TargetsInv'
  <2>1. /\ registered' = [registered EXCEPT ![c] = callbacks] /\ callbacks # {}
        /\ declared' = [declared EXCEPT ![c] = callbacks] /\ UNCHANGED <<sealed, flow>>
    BY <1>1 DEF RegisterDynamic
  <2>2. Owned(declared'[c], c, callbacks) /\ declared' \in [Client -> SUBSET Callback]
    BY <1>0, <2>1 DEF Owned
  <2>3. StoreSound'
    BY <2>1, <2>2, OneRecord
  <2> QED BY <2>1, <2>3, TargetsKept DEF TargetsInv
<1>2. ASSUME NEW c \in Client, NEW callbacks \in SUBSET Callback, RecoverClient(c, callbacks)
      PROVE  TargetsInv'
  <2>1. /\ registered' = [registered EXCEPT ![c] = callbacks] /\ <<c, callbacks>> \in sealed
        /\ UNCHANGED <<declared, sealed, flow>>
    BY <1>2 DEF RecoverClient
  <2>2. Owned(declared'[c], c, callbacks)
    BY <2>1 DEF TargetsInv, SealsSound
  <2>3. StoreSound'
    BY <1>0, <2>1, <2>2, OneRecord
  <2> QED BY <2>1, <2>3, TargetsKept DEF TargetsInv
<1>3. ASSUME NEW c \in Client, EvictClient(c) PROVE TargetsInv'
  <2>1. registered' = [registered EXCEPT ![c] = NoClient] /\ UNCHANGED <<declared, sealed, flow>>
    BY <1>3 DEF EvictClient
  <2>2. StoreSound'
    BY <1>0, <2>1, OneRecord
  <2> QED BY <2>1, <2>2, TargetsKept DEF TargetsInv
<1>4. ASSUME NEW f \in Flow, NEW c \in Client, NEW u \in Callback, AuthorizeFor(f, c, u)
      PROVE  TargetsInv'
  <2> DEFINE callbacks == Resolved(c, u)
  <2>1. /\ registered' = [registered EXCEPT ![c] = callbacks] /\ callbacks # NoClient
        /\ UNCHANGED <<declared, sealed>>
    BY <1>4 DEF AuthorizeFor
  <2>2. Owned(declared'[c], c, callbacks)
    BY <2>1, ResolvedOwned
  <2>3. StoreSound'
    BY <1>0, <2>1, <2>2, OneRecord DEF Owned
  <2>4. CASE flow' = flow
    BY <2>1, <2>3, <2>4, TargetsKept DEF TargetsInv
  <2>5. CASE IsRedirectUriAllowedForClient(callbacks, u)
             /\ \E at \in {"open", "told"} : flow' = [flow EXCEPT ![f] = [at |-> at, client |-> c, to |-> u]]
    <3>1. PICK at \in {"open", "told"} : flow' = [flow EXCEPT ![f] = [at |-> at, client |-> c, to |-> u]]
      BY <2>5
    <3>2. Trusted(declared'[c], c, u)
      BY <2>2, <2>5, AllowedIsTrusted
    <3>3. [at |-> at, client |-> c, to |-> u] \in FlowRecord
      BY DEF FlowRecord
    <3>4. FlowsSound' /\ TargetsTrusted'
      BY <3>1, <3>2, <3>3, OneFlow
    <3> QED BY <2>1, <2>3, <3>4, TargetsKept DEF TargetsInv
  <2> QED BY <1>4, <2>4, <2>5 DEF AuthorizeFor
<1>5. ASSUME UNCHANGED <<registered, declared>> PROVE StoreSound'
  <2>1. \A c \in Client : registered'[c] # NoClient => Owned(declared'[c], c, registered'[c])
    BY <1>5, TargetsKept
  <2> QED BY <1>0, <1>5, <2>1, TargetsKept DEF StoreSound
<1>6. ASSUME NEW f \in Flow, ReturnsFromProvider(f) PROVE TargetsInv'
  <2>1. flow' = [flow EXCEPT ![f] = [flow[f] EXCEPT !.at = "away"]] /\ flow[f].at = "open"
        /\ UNCHANGED <<registered, declared, sealed>>
    BY <1>0, <1>6 DEF ReturnsFromProvider, Sends
  <2>2. FlowsSound' /\ TargetsTrusted'
    BY <1>0, <2>1, OneFlow DEF FlowRecord, TargetsInv, FlowsSound
  <2> QED BY <1>5, <2>1, <2>2, TargetsKept DEF TargetsInv
<1>7. ASSUME NEW f \in Flow, flow' = [flow EXCEPT ![f] = NoFlowYet] PROVE FlowsSound' /\ TargetsTrusted'
  BY <1>7, OneFlow DEF FlowRecord, NoFlowYet
<1>8. ASSUME NEW f \in Flow, CompleteAuthorization(f) PROVE TargetsInv'
  <2> DEFINE c == flow[f].client
             u == flow[f].to
  <2>1. UNCHANGED <<registered, declared, sealed>> /\ flow[f].at = "away" /\ c \in Client /\ u \in Callback
    BY <1>8 DEF CompleteAuthorization, TargetsInv, FlowsSound
  <2>2. CASE flow' = [flow EXCEPT ![f] = NoFlowYet]
    BY <1>5, <1>7, <2>1, <2>2, TargetsKept DEF TargetsInv
  <2>3. CASE /\ registered[c] # NoClient /\ IsRedirectUriAllowedForClient(registered[c], u)
             /\ \E at \in {"sent", "told"} : Sends(f, at)
    <3>1. PICK at \in {"sent", "told"} : Sends(f, at)
      BY <2>3
    <3>2. flow' = [flow EXCEPT ![f] = [flow[f] EXCEPT !.at = at]]
      BY <1>0, <3>1 DEF Sends
    <3>3. Owned(declared'[c], c, registered[c])
      BY <2>1, <2>3 DEF TargetsInv, StoreSound
    <3>4. Trusted(declared'[c], c, u)
      BY <2>1, <2>3, <3>3, AllowedIsTrusted
    <3>5. FlowsSound' /\ TargetsTrusted'
      <4> DEFINE new == [flow[f] EXCEPT !.at = at]
      <4>1. new \in FlowRecord /\ new.client = c /\ new.to = u
        BY <1>0 DEF FlowRecord
      <4> HIDE DEF new
      <4> QED BY <2>1, <3>2, <3>4, <4>1, OneFlow DEF new
    <3> QED BY <1>5, <2>1, <3>5, TargetsKept DEF TargetsInv
  <2> QED BY <1>8, <2>2, <2>3 DEF CompleteAuthorization
<1>9. ASSUME NEW f \in Flow, RedeemCode(f) PROVE TargetsInv'
  <2>1. /\ UNCHANGED <<registered, declared>> /\ flow' = [flow EXCEPT ![f] = NoFlowYet]
        /\ flow[f].at = "sent" /\ flow[f].client \in Client
        /\ sealed' = sealed \/ sealed' = {<<c, registered[c]>> : c \in {flow[f].client} \ Unregistered}
    BY <1>9 DEF RedeemCode, TargetsInv, FlowsSound
  <2>2. CASE sealed' = sealed
    BY <1>5, <1>7, <2>1, <2>2, TargetsKept DEF TargetsInv
  <2>3. CASE sealed' = {<<c, registered[c]>> : c \in {flow[f].client} \ Unregistered}
    <3>1. \A e \in sealed' : e[1] \in Client /\ e[2] = registered[e[1]] /\ registered[e[1]] # NoClient
                             /\ e = <<e[1], e[2]>>
      BY <2>1, <2>3 DEF Unregistered
    <3>2. \A c \in Client : registered[c] # NoClient => registered[c] \in SUBSET Callback
                                                       /\ Owned(declared'[c], c, registered[c])
      BY <2>1 DEF TargetsInv, StoreSound
    <3>3. SealsSound'
      BY <3>1, <3>2 DEF SealsSound
    <3> QED BY <1>5, <1>7, <2>1, <3>3 DEF TargetsInv
  <2> QED BY <2>1, <2>2, <2>3
<1>10. ASSUME NEW f \in Flow, AbandonFlow(f) PROVE TargetsInv'
  <2>1. UNCHANGED <<registered, declared, sealed>> /\ flow' = [flow EXCEPT ![f] = NoFlowYet]
    BY <1>10 DEF AbandonFlow
  <2> QED BY <1>5, <1>7, <2>1, TargetsKept DEF TargetsInv
<1>11. ASSUME RestartProvider PROVE TargetsInv'
  <2>1. /\ registered' = AtStart /\ flow' = [f \in Flow |-> NoFlowYet] /\ UNCHANGED <<sealed, declared>>
    BY <1>11 DEF RestartProvider
  <2>2. FlowsSound' /\ TargetsTrusted'
    BY <2>1 DEF FlowsSound, FlowRecord, NoFlowYet, TargetsTrusted
  <2>3. registered' \in [Client -> (SUBSET Callback) \cup {NoClient}]
    BY <2>1, ConfiguredOwned DEF AtStart
  <2>4. ASSUME NEW c \in Client, registered'[c] # NoClient PROVE Owned(declared'[c], c, registered'[c])
    <3>1. c \in DOMAIN Configured /\ registered'[c] = Configured[c]
      BY <2>1, <2>4 DEF AtStart
    <3>2. Configured[c] \subseteq declared'[c]
      BY <3>1, TargetsKept
    <3> QED BY <3>1, <3>2, ConfiguredOwned DEF Owned
  <2>5. StoreSound'
    BY <1>0, <2>1, <2>3, <2>4, TargetsKept DEF StoreSound
  <2> QED BY <2>1, <2>2, <2>5, TargetsKept DEF TargetsInv
<1>12. CASE UNCHANGED targetVars
  BY <1>5, <1>12, TargetsKept DEF targetVars, TargetsInv
<1> QED BY <1>1, <1>2, <1>3, <1>4, <1>6, <1>8, <1>9, <1>10, <1>11, <1>12 DEF TargetsNext

\* A browser is sent, with a code or with an error, only to a place that the
\* configuration trusts and that the client may name, for every allowlist, list of
\* approved callbacks, set of clients and width of an address
\* (isRedirectUriAllowedForClient, resolveCompletionClient).
THEOREM BrowserGoesToTrusted == TargetsSpec => []TargetsTrusted
<1>1. TargetsInv => TargetsTrusted
  BY DEF TargetsInv
<1> QED BY <1>1, TargetsInvInit, TargetsStep, PTL DEF TargetsSpec

-----------------------------------------------------------------------------
(* The evidence file *)

\* A line of the file: a record as it was written, fit to be read or not.
Line == {[w EXCEPT !.bad = b] : w \in Written, b \in BOOLEAN}
Plain(line) == [type |-> line.type, bad |-> FALSE, grant |-> line.grant, at |-> line.at]

GrantsOf(lines, vs) == {i \in DOMAIN lines : lines[i].type = "grant" /\ lines[i].grant.version \in vs}

\* Acceptance k is no older than m.
Covers(k, m) == m = None \/ (k # None /\ k.at >= m.at)

\* What of k and the first n lines is the newest, and of those the last.
Newer(lines, n, vs, k, r) ==
    \/ \E i \in GrantsOf(lines, vs) :
          /\ i <= n /\ r = lines[i].grant /\ Covers(r, k)
          /\ \A j \in GrantsOf(lines, vs) : j <= n =>
                lines[j].grant.at <= r.at /\ (j > i => lines[j].grant.at < r.at)
    \/ /\ r = k
       /\ \A j \in GrantsOf(lines, vs) : j <= n => k # None /\ lines[j].grant.at < k.at

\* The same of a time of revocation.
Later(lines, n, t, u) ==
    /\ u >= t /\ \A j \in DOMAIN lines : j <= n => u >= lines[j].at
    /\ u = t \/ \E j \in DOMAIN lines : j <= n /\ u = lines[j].at

\* An index knows what the lines say, and of the lines to come some at most.
SlotAhead(k, m, coming, vs) ==
    k = m \/ (Covers(k, m) /\ \E x \in coming : x.type = "grant" /\ x.grant = k /\ k.version \in vs)
IndexAhead(index, lines, coming) ==
    /\ \A v \in Versions : SlotAhead(index.grants[v], NewestOf(lines, {v}), coming, {v})
    /\ SlotAhead(index.latest, NewestOf(lines, Versions), coming, Versions)
    /\ LET m == Meaning(lines).revoked IN
       index.revoked = m \/ (index.revoked > m /\ \E x \in coming : x.at = index.revoked)

\* An index knows nothing that neither the lines say nor is about to be written.
SlotWithin(k, m, coming, vs) ==
    Covers(m, k) \/ \E x \in coming : x.type = "grant" /\ x.grant = k /\ k.version \in vs
IndexWithin(index, lines, coming) ==
    /\ \A v \in Versions : SlotWithin(index.grants[v], NewestOf(lines, {v}), coming, {v})
    /\ SlotWithin(index.latest, NewestOf(lines, Versions), coming, Versions)
    /\ index.revoked <= Meaning(lines).revoked

Awaited(s) == IF s.at \in {"appending", "writing"} /\ s.op.type = "grant" THEN {s.op} ELSE {}
Between(lines, m, n) == {Plain(lines[i]) : i \in m + 1 .. n}

Truthful(s, lines) ==
    /\ IndexWithin(s.index, lines, Awaited(s))
    /\ s.at \in {"appending", "writing"} => s.op \in Written
    /\ s.at = "reading" /\ ~s.moved =>
          /\ s.size <= Len(lines)
          /\ \A r \in s.since : Knows(Meaning(SubSeq(lines, 1, s.size)), r)
          /\ s.same => s.offset <= s.size /\ IndexAhead(s.index, SubSeq(lines, 1, s.offset), Between(lines, s.offset, s.size))
    /\ s.at = "loaded" /\ ~s.moved =>
          /\ s.offset <= Len(lines) /\ s.index = Meaning(SubSeq(lines, 1, s.offset))
          /\ \A r \in s.since : Knows(s.index, r)
    /\ s.at \in {"idle", "appending", "writing"} /\ ~s.moved =>
          /\ s.offset <= Len(lines)
          /\ IndexAhead(s.index, SubSeq(lines, 1, s.offset), Between(lines, s.offset, Len(lines)) \cup Awaited(s))

EvidenceInv ==
    /\ file \in Seq(Line) /\ acked \subseteq Written /\ store \in [Store -> StoreRecord]
    /\ \A r \in acked : Knows(Meaning(file), r)
    /\ \A p \in Store : Truthful(store[p], file)

\* What holds at first, and at a number when it holds at the one before, holds up to n.
LEMMA UpTo ==
    ASSUME NEW n \in Nat, NEW T, T \subseteq 0 .. n, 0 \in T,
           \A k \in T : k < n => k + 1 \in T
    PROVE  n \in T
<1>1. PICK m \in T : \A y \in T : m >= y
  BY MaxIsGreatest
<1>2. CASE m < n
  <2>1. m + 1 \in T /\ m \in Nat
    BY <1>2
  <2> QED BY <1>1, <2>1
<1> QED BY <1>1, <1>2

\* A line has the fields of a record, and a time.
LEMMA LineIs ==
    ASSUME EvidenceAssumption, NEW x \in Line
    PROVE  /\ x \in LineRecord /\ x.at \in Nat /\ Plain(x) \in Written
           /\ Plain(x).type = x.type /\ Plain(x).grant = x.grant /\ Plain(x).at = x.at
           /\ x.type # "grant" => x.type = "revocation"
           /\ x.type = "grant" => x.grant \in Acceptances /\ x.grant.at \in Nat /\ x.grant # None
                                  /\ x.grant.version \in Versions /\ x.at = 0
<1>1. PICK w \in Written, b \in BOOLEAN : x = [w EXCEPT !.bad = b]
  BY DEF Line
<1>2. CASE \E g \in Acceptances : w = Grant(g)
  <2>1. PICK g \in Acceptances : w = Grant(g)
    BY <1>2
  <2>2. x = [type |-> "grant", bad |-> b, grant |-> g, at |-> 0]
    BY <1>1, <2>1 DEF Grant
  <2>3. Plain(x) = [type |-> "grant", bad |-> FALSE, grant |-> g, at |-> 0]
    BY <2>2 DEF Plain
  <2>5. Grant(g) \in Written /\ Plain(x) = Grant(g)
    BY <2>3, Zenon DEF Written, Grant
  <2>4. g.at \in Nat /\ g # None /\ g.version \in Versions
    BY DEF EvidenceAssumption, Versions
  <2>6. x \in LineRecord
    BY <2>2, <2>4 DEF LineRecord
  <2> QED BY <2>2, <2>3, <2>4, <2>5, <2>6
<1>3. CASE \E t \in Revocations : w = Revocation(t)
  <2>1. PICK t \in Revocations : w = Revocation(t)
    BY <1>3
  <2>2. x = [type |-> "revocation", bad |-> b, grant |-> None, at |-> t]
    BY <1>1, <2>1 DEF Revocation
  <2>3. Plain(x) = [type |-> "revocation", bad |-> FALSE, grant |-> None, at |-> t]
    BY <2>2 DEF Plain
  <2>5. Revocation(t) \in Written /\ Plain(x) = Revocation(t)
    BY <2>3, Zenon DEF Written, Revocation
  <2>4. t \in Nat
    BY DEF EvidenceAssumption
  <2>6. x \in LineRecord
    BY <2>2, <2>4 DEF LineRecord
  <2> QED BY <2>2, <2>3, <2>4, <2>5, <2>6
<1> QED BY <1>1, <1>2, <1>3 DEF Written

\* One line more.
LEMMA NewerStep ==
    ASSUME EvidenceAssumption, NEW lines \in Seq(Line), NEW n \in Nat, n + 1 <= Len(lines),
           NEW vs, NEW k \in Acceptances \cup {None}, NEW r \in Acceptances \cup {None}, Newer(lines, n, vs, k, r),
           NEW u, u = IF n + 1 \in GrantsOf(lines, vs) /\ Supersedes(lines[n + 1].grant, r)
                      THEN lines[n + 1].grant ELSE r
    PROVE  Newer(lines, n + 1, vs, k, u) /\ u \in Acceptances \cup {None}
<1>0. /\ n + 1 \in DOMAIN lines
      /\ \A j \in GrantsOf(lines, vs) : j \in Nat /\ lines[j].grant \in Acceptances
            /\ lines[j].grant.at \in Nat /\ lines[j].grant # None
      /\ \A g \in Acceptances : g.at \in Nat /\ g # None
  BY LineIs DEF GrantsOf, EvidenceAssumption
<1>1. CASE n + 1 \notin GrantsOf(lines, vs)
  <2>1. u = r /\ \A j \in GrantsOf(lines, vs) : j <= n + 1 => j <= n
    BY <1>0, <1>1
  <2> QED BY <1>0, <2>1 DEF Newer
<1>2. CASE n + 1 \in GrantsOf(lines, vs) /\ (u = lines[n + 1].grant)
  <2>1. Covers(u, r)
    BY <1>0, <1>2 DEF Supersedes, Covers
  <2>2. Covers(u, k) /\ \A j \in GrantsOf(lines, vs) : j <= n => lines[j].grant.at <= u.at
    BY <1>0, <1>2, <2>1 DEF Newer, Covers
  <2>3. \A j \in GrantsOf(lines, vs) : j <= n + 1 => lines[j].grant.at <= u.at /\ ~(j > n + 1)
    BY <1>0, <1>2, <2>2
  <2> QED BY <1>0, <1>2, <2>2, <2>3 DEF Newer
<1>3. CASE n + 1 \in GrantsOf(lines, vs) /\ u # lines[n + 1].grant
  <2>1. u = r /\ r # None /\ lines[n + 1].grant.at < r.at
    BY <1>0, <1>3 DEF Supersedes
  <2>2. CASE r = k /\ \A j \in GrantsOf(lines, vs) : j <= n => k # None /\ lines[j].grant.at < k.at
    <3>1. \A j \in GrantsOf(lines, vs) : j <= n + 1 => k # None /\ lines[j].grant.at < k.at
      BY <1>0, <2>1, <2>2
    <3> QED BY <1>0, <2>1, <2>2, <3>1 DEF Newer
  <2>3. ASSUME NEW i \in GrantsOf(lines, vs), i <= n, r = lines[i].grant, Covers(r, k),
               \A j \in GrantsOf(lines, vs) : j <= n =>
                  lines[j].grant.at <= r.at /\ (j > i => lines[j].grant.at < r.at)
        PROVE  Newer(lines, n + 1, vs, k, u)
    <3>1. \A j \in GrantsOf(lines, vs) : j <= n + 1 =>
             lines[j].grant.at <= r.at /\ (j > i => lines[j].grant.at < r.at)
      BY <1>0, <2>1, <2>3
    <3> QED BY <1>0, <2>1, <2>3, <3>1 DEF Newer
  <2> QED BY <1>0, <2>1, <2>2, <2>3 DEF Newer
<1> QED BY <1>0, <1>1, <1>2, <1>3

\* Only one acceptance is the newest and the last.
LEMMA NewerUnique ==
    ASSUME EvidenceAssumption, NEW lines \in Seq(Line), NEW vs, NEW k \in Acceptances \cup {None},
           NEW r, NEW u, Newer(lines, Len(lines), vs, k, r), Newer(lines, Len(lines), vs, k, u)
    PROVE  r = u
<1>0. \A j \in GrantsOf(lines, vs) : j \in Nat /\ j <= Len(lines) /\ lines[j].grant \in Acceptances
                                     /\ lines[j].grant.at \in Nat /\ lines[j].grant # None
  BY LineIs DEF GrantsOf
<1>1. \A g \in Acceptances : g.at \in Nat /\ g # None
  BY DEF EvidenceAssumption
<1> QED BY <1>0, <1>1 DEF Newer, Covers

\* The newest of the lines is the newest of none and them.
LEMMA NewestIs ==
    ASSUME EvidenceAssumption, NEW lines \in Seq(Line), NEW vs
    PROVE  Newer(lines, Len(lines), vs, None, NewestOf(lines, vs))
<1>0. \A j \in GrantsOf(lines, vs) : j \in Nat /\ 1 <= j /\ j <= Len(lines) /\ lines[j].grant \in Acceptances
                                     /\ lines[j].grant.at \in Nat /\ lines[j].grant # None
  BY LineIs DEF GrantsOf
<1> DEFINE T == {n \in 0 .. Len(lines) : \E r \in Acceptances \cup {None} : Newer(lines, n, vs, None, r)}
<1>1. 0 \in T
  <2>1. Newer(lines, 0, vs, None, None)
    BY <1>0 DEF Newer
  <2> QED BY <2>1
<1>2. ASSUME NEW n \in T, n < Len(lines) PROVE n + 1 \in T
  <2>1. PICK r \in Acceptances \cup {None} : Newer(lines, n, vs, None, r)
    OBVIOUS
  <2>2. PICK u : u = IF n + 1 \in GrantsOf(lines, vs) /\ Supersedes(lines[n + 1].grant, r)
                     THEN lines[n + 1].grant ELSE r
    OBVIOUS
  <2>3. n \in Nat /\ n + 1 <= Len(lines) /\ n + 1 \in 0 .. Len(lines)
    BY <1>2
  <2>4. Newer(lines, n + 1, vs, None, u) /\ u \in Acceptances \cup {None}
    BY <2>1, <2>2, <2>3, NewerStep
  <2> QED BY <2>3, <2>4
<1>3. Len(lines) \in T
  <2> HIDE DEF T
  <2>1. T \subseteq 0 .. Len(lines) /\ Len(lines) \in Nat
    BY DEF T
  <2> QED BY <1>1, <1>2, <2>1, UpTo
<1>4. PICK r \in Acceptances \cup {None} : Newer(lines, Len(lines), vs, None, r)
  BY <1>3
<1> DEFINE of == GrantsOf(lines, vs)
           newest == {i \in of : \A j \in of : lines[j].grant.at <= lines[i].grant.at}
<1>5. NewestOf(lines, vs) = IF of = {} THEN None ELSE lines[Max(newest)].grant
  BY Zenon DEF NewestOf, GrantsOf
<1>6. CASE of = {}
  BY <1>4, <1>5, <1>6 DEF Newer
<1>7. CASE of # {}
  <2>1. PICK i \in of :
          /\ r = lines[i].grant
          /\ \A j \in of : lines[j].grant.at <= r.at /\ (j > i => lines[j].grant.at < r.at)
    BY <1>0, <1>4, <1>7 DEF Newer
  <2>2. i \in newest /\ newest \subseteq 0 .. Len(lines)
    BY <1>0, <2>1
  <2>3. PICK m \in newest : m = Max(newest) /\ \A y \in newest : m >= y
    <3>1. newest # {} /\ newest \subseteq 0 .. Len(lines) /\ Len(lines) \in Nat
      BY <2>2
    <3> HIDE DEF newest
    <3> QED BY <3>1, MaxIsGreatest
  <2>4. m \in of /\ m \in Nat /\ i \in Nat /\ lines[i].grant.at <= lines[m].grant.at /\ m >= i
    BY <1>0, <2>2, <2>3
  <2>5. m = i
    BY <1>0, <2>1, <2>4
  <2> QED BY <1>4, <1>5, <1>7, <2>1, <2>3, <2>5
<1> QED BY <1>6, <1>7

\* It is one of them, and none is newer.
LEMMA NewestCovers ==
    ASSUME EvidenceAssumption, NEW lines \in Seq(Line), NEW vs
    PROVE  /\ NewestOf(lines, vs) \in Acceptances \cup {None}
           /\ NewestOf(lines, vs) = None \/ \E i \in GrantsOf(lines, vs) : lines[i].grant = NewestOf(lines, vs)
           /\ \A i \in GrantsOf(lines, vs) : Covers(NewestOf(lines, vs), lines[i].grant)
<1>0. \A j \in GrantsOf(lines, vs) : j \in Nat /\ j <= Len(lines) /\ lines[j].grant \in Acceptances
                                     /\ lines[j].grant.at \in Nat /\ lines[j].grant # None
  BY LineIs DEF GrantsOf
<1>1. Newer(lines, Len(lines), vs, None, NewestOf(lines, vs))
  BY NewestIs
<1> QED BY <1>0, <1>1 DEF Newer, Covers

\* One line more, for the time of revocation.
LEMMA LaterStep ==
    ASSUME EvidenceAssumption, NEW lines \in Seq(Line), NEW n \in Nat, n + 1 <= Len(lines),
           NEW t \in Nat, NEW u \in Nat, Later(lines, n, t, u),
           NEW w, w = IF lines[n + 1].at > u THEN lines[n + 1].at ELSE u
    PROVE  Later(lines, n + 1, t, w) /\ w \in Nat
<1>0. n + 1 \in DOMAIN lines /\ \A j \in DOMAIN lines : j \in Nat /\ lines[j].at \in Nat
  BY LineIs
<1>1. \A j \in DOMAIN lines : j <= n + 1 => j <= n \/ j = n + 1
  BY <1>0
<1>2. w >= u /\ w >= lines[n + 1].at /\ w \in Nat
  BY <1>0
<1>3. w >= t /\ \A j \in DOMAIN lines : j <= n + 1 => w >= lines[j].at
  BY <1>0, <1>1, <1>2 DEF Later
<1>4. w = t \/ \E j \in DOMAIN lines : j <= n + 1 /\ w = lines[j].at
  BY <1>0 DEF Later
<1> QED BY <1>2, <1>3, <1>4 DEF Later

\* The time of revocation that the lines give is the latest of theirs.
LEMMA RevokedIs ==
    ASSUME EvidenceAssumption, NEW lines \in Seq(Line)
    PROVE  Meaning(lines).revoked \in Nat /\ Later(lines, Len(lines), 0, Meaning(lines).revoked)
<1>0. \A j \in DOMAIN lines : j \in Nat /\ 1 <= j /\ j <= Len(lines) /\ lines[j].at \in Nat
  BY LineIs
<1> DEFINE T == {n \in 0 .. Len(lines) : \E u \in Nat : Later(lines, n, 0, u)}
<1>1. 0 \in T
  <2>1. Later(lines, 0, 0, 0)
    BY <1>0 DEF Later
  <2> QED BY <2>1
<1>2. ASSUME NEW n \in T, n < Len(lines) PROVE n + 1 \in T
  <2>1. PICK u \in Nat : Later(lines, n, 0, u)
    OBVIOUS
  <2>2. PICK w : w = IF lines[n + 1].at > u THEN lines[n + 1].at ELSE u
    OBVIOUS
  <2>3. n \in Nat /\ n + 1 <= Len(lines) /\ n + 1 \in 0 .. Len(lines)
    BY <1>2
  <2>4. Later(lines, n + 1, 0, w) /\ w \in Nat
    BY <2>1, <2>2, <2>3, LaterStep
  <2> QED BY <2>3, <2>4
<1>3. Len(lines) \in T
  <2> HIDE DEF T
  <2>1. T \subseteq 0 .. Len(lines) /\ Len(lines) \in Nat
    BY DEF T
  <2> QED BY <1>1, <1>2, <2>1, UpTo
<1>4. PICK u \in Nat : Later(lines, Len(lines), 0, u)
  BY <1>3
<1>5. u >= 0 /\ (u = 0 \/ \E j \in DOMAIN lines : u = lines[j].at) /\ \A j \in DOMAIN lines : u >= lines[j].at
  BY <1>0, <1>4 DEF Later
<1> DEFINE S == {0} \cup {lines[i].at : i \in DOMAIN lines}
<1>6. u \in S /\ \A y \in S : y \in Nat /\ u >= y
  BY <1>0, <1>5
<1>7. Max(S) = u
  <2> HIDE DEF S
  <2>1. Max(S) \in S /\ \A y \in S : Max(S) >= y
    BY <1>6, Zenon DEF Max
  <2>2. PICK m \in S : m = Max(S) /\ \A y \in S : m >= y
    BY <2>1
  <2> QED BY <1>6, <2>2
<1>8. Meaning(lines).revoked = u
  BY <1>7 DEF Meaning
<1> QED BY <1>4, <1>8

\* Only one time is the latest.
LEMMA LaterUnique ==
    ASSUME EvidenceAssumption, NEW lines \in Seq(Line), NEW n \in Nat, NEW t \in Nat, NEW u \in Nat, NEW w \in Nat,
           Later(lines, n, t, u), Later(lines, n, t, w)
    PROVE  u = w
BY LineIs DEF Later

\* What the lines say is an index.
LEMMA MeaningIs ==
    ASSUME EvidenceAssumption, NEW lines \in Seq(Line)
    PROVE  /\ Meaning(lines) \in Index
           /\ \A v \in Versions : Meaning(lines).grants[v] = NewestOf(lines, {v})
           /\ Meaning(lines).latest = NewestOf(lines, Versions)
<1>1. \A vs : NewestOf(lines, vs) \in Acceptances \cup {None}
  BY NewestCovers
<1>2. Meaning(lines).revoked \in Nat
  BY RevokedIs
<1>3. Meaning(lines) = [grants |-> [v \in Versions |-> NewestOf(lines, {v})],
                        latest |-> NewestOf(lines, Versions), revoked |-> Meaning(lines).revoked]
  BY DEF Meaning
<1> DEFINE G == [v \in Versions |-> NewestOf(lines, {v})]
<1>4. G \in [Versions -> Acceptances \cup {None}] /\ \A v \in Versions : G[v] = NewestOf(lines, {v})
  BY <1>1, Zenon
<1>5. Meaning(lines) = [grants |-> G, latest |-> NewestOf(lines, Versions), revoked |-> Meaning(lines).revoked]
  BY <1>3
<1> HIDE DEF G
<1>6. Meaning(lines).grants = G /\ Meaning(lines).latest = NewestOf(lines, Versions)
  BY <1>5
<1> QED BY <1>1, <1>2, <1>4, <1>5, <1>6 DEF Index

\* A line that is repaired means what it meant.
LEMMA MeaningSame ==
    ASSUME EvidenceAssumption, NEW lines \in Seq(Line), NEW fresh \in Seq(Line), Len(fresh) = Len(lines),
           \A i \in DOMAIN lines : Plain(fresh[i]) = Plain(lines[i])
    PROVE  Meaning(fresh) = Meaning(lines) /\ \A vs : NewestOf(fresh, vs) = NewestOf(lines, vs)
<1>1. DOMAIN fresh = DOMAIN lines
  OBVIOUS
<1>2. \A i \in DOMAIN lines : fresh[i].type = lines[i].type /\ fresh[i].grant = lines[i].grant
         /\ fresh[i].at = lines[i].at
  BY DEF Plain
<1>3. ASSUME NEW vs PROVE NewestOf(fresh, vs) = NewestOf(lines, vs)
  <2>1. Newer(fresh, Len(fresh), vs, None, NewestOf(fresh, vs)) /\ Newer(lines, Len(lines), vs, None, NewestOf(lines, vs))
    BY NewestIs
  <2>2. GrantsOf(fresh, vs) = GrantsOf(lines, vs) /\ GrantsOf(lines, vs) \subseteq DOMAIN lines
    BY <1>1, <1>2 DEF GrantsOf
  <2>3. Newer(lines, Len(lines), vs, None, NewestOf(fresh, vs))
    BY <1>2, <2>1, <2>2 DEF Newer
  <2> QED BY <2>1, <2>3, NewerUnique
<1>4. Meaning(fresh).revoked = Meaning(lines).revoked
  <2>1. /\ Meaning(fresh).revoked \in Nat /\ Later(fresh, Len(fresh), 0, Meaning(fresh).revoked)
        /\ Meaning(lines).revoked \in Nat /\ Later(lines, Len(lines), 0, Meaning(lines).revoked)
    BY RevokedIs
  <2>2. Later(lines, Len(lines), 0, Meaning(fresh).revoked)
    BY <1>1, <1>2, <2>1 DEF Later
  <2> QED BY <2>1, <2>2, LaterUnique
<1>5. \A ls : Meaning(ls) = [grants |-> [v \in Versions |-> NewestOf(ls, {v})],
                             latest |-> NewestOf(ls, Versions), revoked |-> Meaning(ls).revoked]
  BY DEF Meaning
<1>6. [v \in Versions |-> NewestOf(fresh, {v})] = [v \in Versions |-> NewestOf(lines, {v})]
  BY <1>3
<1> QED BY <1>3, <1>4, <1>5, <1>6

\* Lines to which others are added, and of which some are repaired, say no less.
Extends(lines, more) ==
    Len(lines) <= Len(more) /\ \A i \in DOMAIN lines : Plain(more[i]) = Plain(lines[i])
SaysAll(lines, more) ==
    /\ \A v \in Versions : Covers(NewestOf(more, {v}), NewestOf(lines, {v}))
    /\ Covers(NewestOf(more, Versions), NewestOf(lines, Versions))
    /\ Meaning(more).revoked >= Meaning(lines).revoked

\* Lines that extend others say all that those say.
LEMMA ExtendsSaysAll ==
    ASSUME EvidenceAssumption, NEW lines \in Seq(Line), NEW more \in Seq(Line), Extends(lines, more)
    PROVE  SaysAll(lines, more)
<1>0. \A i \in DOMAIN lines :
         /\ i \in DOMAIN more /\ more[i].type = lines[i].type /\ more[i].grant = lines[i].grant
         /\ more[i].at = lines[i].at /\ lines[i].at \in Nat
  <2> TAKE i \in DOMAIN lines
  <2>1. i \in DOMAIN more /\ Plain(more[i]) = Plain(lines[i])
    BY DEF Extends
  <2>2. more[i] \in Line /\ lines[i] \in Line
    BY <2>1
  <2> QED BY <2>1, <2>2, LineIs
<1>1. ASSUME NEW vs PROVE Covers(NewestOf(more, vs), NewestOf(lines, vs))
  <2>1. CASE NewestOf(lines, vs) = None
    BY <2>1 DEF Covers
  <2>2. ASSUME NEW i \in GrantsOf(lines, vs), lines[i].grant = NewestOf(lines, vs)
        PROVE  Covers(NewestOf(more, vs), NewestOf(lines, vs))
    <3>1. i \in GrantsOf(more, vs) /\ more[i].grant = NewestOf(lines, vs)
      BY <1>0, <2>2 DEF GrantsOf
    <3> QED BY <3>1, NewestCovers
  <2> QED BY <2>1, <2>2, NewestCovers
<1>2. Meaning(more).revoked >= Meaning(lines).revoked
  <2>1. /\ Meaning(more).revoked \in Nat /\ Later(more, Len(more), 0, Meaning(more).revoked)
        /\ Meaning(lines).revoked \in Nat /\ Later(lines, Len(lines), 0, Meaning(lines).revoked)
    BY RevokedIs
  <2>2. \A j \in DOMAIN more : j <= Len(more)
    OBVIOUS
  <2>3. Meaning(lines).revoked = 0 \/ \E j \in DOMAIN lines : Meaning(lines).revoked = lines[j].at
    BY <2>1 DEF Later
  <2>4. \A j \in DOMAIN more : Meaning(more).revoked >= more[j].at
    BY <2>1, <2>2 DEF Later
  <2> QED BY <1>0, <2>1, <2>3, <2>4
<1> QED BY <1>1, <1>2 DEF SaysAll

\* No older than what is no older.
LEMMA CoversTransitive ==
    ASSUME EvidenceAssumption, NEW a \in Acceptances \cup {None}, NEW b \in Acceptances \cup {None},
           NEW c \in Acceptances \cup {None}, Covers(a, b), Covers(b, c)
    PROVE  Covers(a, c)
<1>1. \A g \in Acceptances : g.at \in Nat /\ g # None
  BY DEF EvidenceAssumption
<1> QED BY <1>1 DEF Covers

\* Lines folded one after another.
Follows(index, lines, n, f) ==
    f = [m \in 0 .. n |-> IF m = 0 THEN index ELSE FoldLine(f[m - 1], lines[m])]

\* The fold of any number of lines exists.
LEMMA FollowsExists == ASSUME NEW index, NEW lines, NEW n \in Nat PROVE \E f : Follows(index, lines, n, f)
<1>1. PICK T : T = {k \in 0 .. n : \E f : Follows(index, lines, k, f)}
  OBVIOUS
<1>2. 0 \in T
  <2>1. PICK f : f = [m \in 0 .. 0 |-> index]
    OBVIOUS
  <2>2. \A m \in 0 .. 0 : m = 0
    OBVIOUS
  <2>3. Follows(index, lines, 0, f)
    BY <2>1, <2>2, Zenon DEF Follows
  <2> QED BY <1>1, <2>3
<1>3. ASSUME NEW k \in T, k < n PROVE k + 1 \in T
  <2>1. k \in Nat /\ k + 1 \in 0 .. n
    BY <1>1, <1>3
  <2>2. PICK f : Follows(index, lines, k, f)
    BY <1>1
  <2>3. PICK g : g = [m \in 0 .. k + 1 |-> IF m = 0 THEN index ELSE FoldLine(f[m - 1], lines[m])]
    OBVIOUS
  <2>4. ASSUME NEW m \in 0 .. k PROVE g[m] = f[m]
    <3>1. m \in 0 .. k + 1
      BY <2>1
    <3>2. g[m] = IF m = 0 THEN index ELSE FoldLine(f[m - 1], lines[m])
      BY <2>3, <3>1
    <3>3. f[m] = IF m = 0 THEN index ELSE FoldLine(f[m - 1], lines[m])
      BY <2>2, Zenon DEF Follows
    <3> QED BY <3>2, <3>3
  <2>5. ASSUME NEW m \in 0 .. k + 1
        PROVE  (IF m = 0 THEN index ELSE FoldLine(f[m - 1], lines[m]))
                 = (IF m = 0 THEN index ELSE FoldLine(g[m - 1], lines[m]))
    <3>1. CASE m = 0
      BY <3>1
    <3>2. CASE m # 0
      <4>1. m - 1 \in 0 .. k
        BY <2>1, <3>2
      <4>2. g[m - 1] = f[m - 1]
        BY <2>4, <4>1
      <4> QED BY <3>2, <4>2, Zenon
    <3> QED BY <3>1, <3>2
  <2>6. Follows(index, lines, k + 1, g)
    BY <2>3, <2>5, Zenon DEF Follows
  <2> QED BY <1>1, <2>1, <2>6
<1>4. T \subseteq 0 .. n
  BY <1>1
<1>5. n \in T
  BY <1>2, <1>3, <1>4, UpTo
<1> QED BY <1>1, <1>5

\* What an acceptance that is folded in makes of an index.
LEMMA ApplyIs ==
    ASSUME EvidenceAssumption, NEW index \in Index, NEW g \in Acceptances
    PROVE  /\ Apply(index, g) \in Index /\ Apply(index, g).revoked = index.revoked
           /\ \A v \in Versions : Apply(index, g).grants[v] =
                 IF g.version = v /\ Supersedes(g, index.grants[v]) THEN g ELSE index.grants[v]
           /\ Apply(index, g).latest = IF Supersedes(g, index.latest) THEN g ELSE index.latest
<1> DEFINE next == Apply(index, g)
<1>1. next = [index EXCEPT !.grants[g.version] = IF Supersedes(g, @) THEN g ELSE @,
                           !.latest = IF Supersedes(g, @) THEN g ELSE @]
  BY DEF Apply
<1>2. g.version \in Versions
  BY DEF Versions
<1> HIDE DEF next
<1>3. next \in Index
  BY <1>1, <1>2 DEF Index
<1>4. \A v \in Versions : next.grants[v] = IF g.version = v /\ Supersedes(g, index.grants[v]) THEN g ELSE index.grants[v]
  BY <1>1, <1>2 DEF Index
<1>5. next.latest = (IF Supersedes(g, index.latest) THEN g ELSE index.latest) /\ next.revoked = index.revoked
  BY <1>1, <1>2 DEF Index
<1> QED BY <1>3, <1>4, <1>5 DEF next

\* What a fold of the first n lines has made of an index.
FoldedTo(index, lines, n, known) ==
    /\ known \in Index
    /\ \A v \in Versions : Newer(lines, n, {v}, index.grants[v], known.grants[v])
    /\ Newer(lines, n, Versions, index.latest, known.latest)
    /\ Later(lines, n, index.revoked, known.revoked)

\* The fold of one line more is the newest of one line more.
LEMMA FoldLineIs ==
    ASSUME EvidenceAssumption, NEW lines \in Seq(Line), NEW n \in Nat, n + 1 <= Len(lines),
           NEW index \in Index, NEW known, FoldedTo(index, lines, n, known)
    PROVE  FoldedTo(index, lines, n + 1, FoldLine(known, lines[n + 1]))
<1> DEFINE line == lines[n + 1]
           next == FoldLine(known, line)
<1>0. /\ n + 1 \in DOMAIN lines /\ line \in Line /\ line.at \in Nat
      /\ line.type = "grant" => line.grant \in Acceptances /\ line.grant.version \in Versions /\ line.at = 0
  BY LineIs
<1>1. known \in Index
  BY DEF FoldedTo
<1>2. /\ \A v \in Versions : index.grants[v] \in Acceptances \cup {None} /\ known.grants[v] \in Acceptances \cup {None}
      /\ index.latest \in Acceptances \cup {None} /\ known.latest \in Acceptances \cup {None}
      /\ index.revoked \in Nat /\ known.revoked \in Nat
  BY <1>1 DEF Index
<1>3. /\ \A v \in Versions : next.grants[v] =
            IF n + 1 \in GrantsOf(lines, {v}) /\ Supersedes(line.grant, known.grants[v]) THEN line.grant ELSE known.grants[v]
      /\ next.latest = IF n + 1 \in GrantsOf(lines, Versions) /\ Supersedes(line.grant, known.latest)
                         THEN line.grant ELSE known.latest
      /\ next.revoked = IF line.at > known.revoked THEN line.at ELSE known.revoked
      /\ next \in Index
  <2>1. CASE line.type = "grant"
    <3>1. next = Apply(known, line.grant)
      BY <2>1 DEF FoldLine
    <3>2. \A v \in Versions : n + 1 \in GrantsOf(lines, {v}) <=> line.grant.version = v
      BY <1>0, <2>1 DEF GrantsOf
    <3>3. n + 1 \in GrantsOf(lines, Versions)
      BY <1>0, <2>1 DEF GrantsOf
    <3>4. line.grant \in Acceptances /\ line.at = 0
      BY <1>0, <2>1
    <3> HIDE DEF line, next
    <3>5. /\ next \in Index /\ next.revoked = known.revoked
          /\ \A v \in Versions : next.grants[v] =
                IF line.grant.version = v /\ Supersedes(line.grant, known.grants[v]) THEN line.grant ELSE known.grants[v]
          /\ next.latest = IF Supersedes(line.grant, known.latest) THEN line.grant ELSE known.latest
      BY <1>1, <3>1, <3>4, ApplyIs
    <3> QED BY <1>2, <3>2, <3>3, <3>4, <3>5
  <2>2. CASE line.type # "grant"
    <3>1. next = [known EXCEPT !.revoked = IF line.at > @ THEN line.at ELSE @]
      BY <2>2 DEF FoldLine, AddRevocation
    <3>2. \A vs : n + 1 \notin GrantsOf(lines, vs)
      BY <2>2 DEF GrantsOf
    <3>3. line.at \in Nat
      BY <1>0
    <3> HIDE DEF line, next
    <3> QED BY <1>1, <3>1, <3>2, <3>3 DEF Index
  <2> QED BY <2>1, <2>2
<1> HIDE DEF next
<1>4. \A v \in Versions : Newer(lines, n + 1, {v}, index.grants[v], next.grants[v])
  BY <1>2, <1>3, NewerStep DEF FoldedTo
<1>5. Newer(lines, n + 1, Versions, index.latest, next.latest)
  BY <1>2, <1>3, NewerStep DEF FoldedTo
<1>6. Later(lines, n + 1, index.revoked, next.revoked)
  BY <1>2, <1>3, LaterStep DEF FoldedTo
<1> QED BY <1>3, <1>4, <1>5, <1>6 DEF FoldedTo, next

\* The fold of all lines has in each slot the newest of what was there and of the lines.
LEMMA FoldedIs ==
    ASSUME EvidenceAssumption, NEW lines \in Seq(Line), NEW index \in Index
    PROVE  FoldedTo(index, lines, Len(lines), Folded(index, lines))
<1>1. \E f : Follows(index, lines, Len(lines), f)
  BY FollowsExists
<1>2. Follows(index, lines, Len(lines), CHOOSE f : Follows(index, lines, Len(lines), f))
  BY <1>1, Zenon
<1>3. Folded(index, lines) = (CHOOSE f : Follows(index, lines, Len(lines), f))[Len(lines)]
  BY Zenon DEF Folded, Follows
<1>4. PICK f : Follows(index, lines, Len(lines), f) /\ Folded(index, lines) = f[Len(lines)]
  BY <1>2, <1>3, Zenon
<1> DEFINE T == {n \in 0 .. Len(lines) : FoldedTo(index, lines, n, f[n])}
<1>5. \A n \in 0 .. Len(lines) : f[n] = IF n = 0 THEN index ELSE FoldLine(f[n - 1], lines[n])
  BY <1>4, Zenon DEF Follows
<1>6. 0 \in T
  <2>1. f[0] = index
    BY <1>5
  <2>2. \A j \in DOMAIN lines : ~(j <= 0)
    OBVIOUS
  <2>3. FoldedTo(index, lines, 0, index)
    BY <2>2 DEF FoldedTo, Newer, Later, GrantsOf, Index
  <2> QED BY <2>1, <2>3
<1>7. ASSUME NEW n \in T, n < Len(lines) PROVE n + 1 \in T
  <2>1. n \in Nat /\ n + 1 \in 0 .. Len(lines) /\ n + 1 <= Len(lines) /\ n + 1 # 0 /\ (n + 1) - 1 = n
    BY <1>7
  <2>2. f[n + 1] = FoldLine(f[n], lines[n + 1])
    BY <1>5, <2>1
  <2>3. FoldedTo(index, lines, n, f[n])
    OBVIOUS
  <2>4. FoldedTo(index, lines, n + 1, FoldLine(f[n], lines[n + 1]))
    BY <2>1, <2>3, FoldLineIs
  <2> QED BY <2>1, <2>2, <2>4
<1>8. Len(lines) \in T
  <2> HIDE DEF T
  <2>1. T \subseteq 0 .. Len(lines) /\ Len(lines) \in Nat
    BY DEF T
  <2> QED BY <1>6, <1>7, <2>1, UpTo
<1> QED BY <1>4, <1>8

\* What a fold of all that comes makes of what is ahead is what all lines say.
LEMMA SlotExact ==
    ASSUME EvidenceAssumption, NEW lines \in Seq(Line), NEW m \in Nat, NEW n \in Nat, m <= n, n <= Len(lines),
           NEW vs, NEW k \in Acceptances \cup {None}, NEW r \in Acceptances \cup {None},
           SlotAhead(k, NewestOf(SubSeq(lines, 1, m), vs), Between(lines, m, n), vs),
           Newer(SubSeq(lines, m + 1, n), n - m, vs, k, r)
    PROVE  r = NewestOf(SubSeq(lines, 1, n), vs)
<1> DEFINE whole == SubSeq(lines, 1, n)
           known == SubSeq(lines, 1, m)
           rest == SubSeq(lines, m + 1, n)
           M == NewestOf(known, vs)
<1>1. /\ whole \in Seq(Line) /\ Len(whole) = n /\ DOMAIN whole = 1 .. n
      /\ \A i \in 1 .. n : whole[i] = lines[i]
      /\ known \in Seq(Line) /\ Len(known) = m /\ DOMAIN known = 1 .. m
      /\ \A i \in 1 .. m : known[i] = lines[i]
      /\ rest \in Seq(Line) /\ Len(rest) = n - m /\ DOMAIN rest = 1 .. n - m
      /\ \A i \in 1 .. n - m : rest[i] = lines[m + i]
  OBVIOUS
<1>2. M \in Acceptances \cup {None} /\ Newer(known, m, vs, None, M)
  BY <1>1, NewestCovers, NewestIs
<1> HIDE DEF whole, known, rest, M
<1>3. \A i \in GrantsOf(whole, vs) : /\ i \in 1 .. n /\ whole[i].grant \in Acceptances /\ whole[i].grant.at \in Nat
                                     /\ whole[i].grant # None
                                     /\ i <= m => i \in GrantsOf(known, vs) /\ known[i].grant = whole[i].grant
                                     /\ i > m => i - m \in GrantsOf(rest, vs) /\ rest[i - m].grant = whole[i].grant
  <2> TAKE i \in GrantsOf(whole, vs)
  <2>1. i \in 1 .. n /\ whole[i] \in Line /\ whole[i].type = "grant" /\ whole[i].grant.version \in vs
    BY <1>1 DEF GrantsOf
  <2>2. whole[i].grant \in Acceptances /\ whole[i].grant.at \in Nat /\ whole[i].grant # None
    BY <2>1, LineIs
  <2>3. ASSUME i <= m PROVE i \in DOMAIN known /\ known[i] = whole[i]
    <3>1. i \in 1 .. m
      BY <2>1, <2>3
    <3> QED BY <1>1, <2>1, <3>1
  <2>4. ASSUME i > m PROVE i - m \in DOMAIN rest /\ rest[i - m] = whole[i]
    <3>1. i - m \in 1 .. n - m /\ m + (i - m) = i
      BY <2>1, <2>4
    <3> QED BY <1>1, <2>1, <3>1
  <2> QED BY <2>1, <2>2, <2>3, <2>4 DEF GrantsOf
<1>4. \A g \in Acceptances : g.at \in Nat /\ g # None
  BY DEF EvidenceAssumption
<1>5. \A i \in GrantsOf(known, vs) : /\ i \in Nat /\ i <= m /\ i \in GrantsOf(whole, vs)
                                     /\ known[i].grant = whole[i].grant
                                     /\ Covers(M, known[i].grant)
  <2>1. \A i \in GrantsOf(known, vs) : Covers(M, known[i].grant)
    BY <1>1, NewestCovers DEF M, known
  <2>2. \A i \in 1 .. m : i \in 1 .. n /\ whole[i] = known[i]
    BY <1>1
  <2> QED BY <1>1, <2>1, <2>2 DEF GrantsOf
<1>6. \A i \in GrantsOf(rest, vs) : i \in Nat /\ 1 <= i /\ i <= n - m /\ m + i \in GrantsOf(whole, vs)
         /\ rest[i].grant = whole[m + i].grant
  BY <1>1 DEF GrantsOf
<1>7. Covers(k, M)
  BY <1>2, <1>4 DEF SlotAhead, Covers, M, known
<1>8. ASSUME NEW i \in GrantsOf(rest, vs), i <= n - m, r = rest[i].grant, Covers(r, k),
             \A j \in GrantsOf(rest, vs) : j <= n - m =>
                  rest[j].grant.at <= r.at /\ (j > i => rest[j].grant.at < r.at)
      PROVE  Newer(whole, n, vs, None, r)
  <2>1. m + i \in GrantsOf(whole, vs) /\ m + i <= n /\ r = whole[m + i].grant /\ m + i > m
    BY <1>6, <1>8
  <2>2. Covers(r, M) /\ r # None
    BY <1>2, <1>3, <1>7, <1>8, <2>1, CoversTransitive
  <2>3. ASSUME NEW j \in GrantsOf(whole, vs), j <= n
        PROVE  whole[j].grant.at <= r.at /\ (j > m + i => whole[j].grant.at < r.at)
    <3>1. CASE j <= m
      <4>1. Covers(r, whole[j].grant) /\ ~(j > m + i)
        BY <1>2, <1>3, <1>5, <2>1, <2>2, <3>1, CoversTransitive
      <4> QED BY <1>3, <2>2, <4>1 DEF Covers
    <3>2. CASE j > m
      <4>1. j - m \in GrantsOf(rest, vs) /\ j - m <= n - m /\ (j > m + i => j - m > i)
        BY <1>3, <1>6, <3>2
      <4> QED BY <1>3, <1>8, <3>2, <4>1
    <3> QED BY <1>3, <3>1, <3>2
  <2> QED BY <2>1, <2>3 DEF Newer, Covers
<1>9. ASSUME r = k, \A j \in GrantsOf(rest, vs) : j <= n - m => k # None /\ rest[j].grant.at < k.at
      PROVE  Newer(whole, n, vs, None, r)
  <2>1. \A j \in GrantsOf(rest, vs) : k # None /\ rest[j].grant.at < k.at
    BY <1>6, <1>9
  <2>2. k = M
    <3>1. SUFFICES ASSUME NEW x \in Between(lines, m, n), x.type = "grant", x.grant = k, k.version \in vs
                   PROVE  FALSE
      BY DEF SlotAhead, M, known
    <3>2. PICK i \in m + 1 .. n : x = Plain(lines[i])
      BY DEF Between
    <3>3. i - m \in 1 .. n - m /\ rest[i - m] = lines[i]
      BY <1>1, <3>2
    <3>4. rest[i - m].type = "grant" /\ rest[i - m].grant = k
      BY <3>1, <3>2, <3>3 DEF Plain
    <3>5. i - m \in GrantsOf(rest, vs)
      BY <1>1, <3>1, <3>3, <3>4 DEF GrantsOf
    <3>6. k # None /\ k.at \in Nat
      BY <1>4, <2>1, <3>5
    <3> QED BY <2>1, <3>4, <3>5, <3>6
  <2>3. CASE M = None
    <3>1. GrantsOf(rest, vs) = {}
      BY <2>1, <2>2, <2>3
    <3>2. GrantsOf(known, vs) = {}
      BY <1>3, <1>5, <2>3 DEF Covers
    <3>3. GrantsOf(whole, vs) = {}
      BY <1>3, <3>1, <3>2
    <3> QED BY <1>9, <2>2, <2>3, <3>3 DEF Newer
  <2>4. CASE M # None
    <3>1. PICK i \in GrantsOf(known, vs) :
            /\ M = known[i].grant
            /\ \A j \in GrantsOf(known, vs) : j <= m =>
                  known[j].grant.at <= M.at /\ (j > i => known[j].grant.at < M.at)
      BY <1>2, <2>4 DEF Newer
    <3>2. \A j \in GrantsOf(whole, vs) : whole[j].grant.at <= M.at /\ (j > i => whole[j].grant.at < M.at)
      <4> TAKE j \in GrantsOf(whole, vs)
      <4>1. CASE j <= m
        BY <1>3, <3>1, <4>1
      <4>2. CASE j > m
        BY <1>2, <1>3, <1>4, <2>1, <2>2, <2>4, <4>2
      <4> QED BY <1>3, <4>1, <4>2
    <3>3. i \in GrantsOf(whole, vs) /\ i <= n /\ r = whole[i].grant /\ r = M
      BY <1>5, <1>9, <2>2, <3>1
    <3> QED BY <3>2, <3>3 DEF Newer, Covers
  <2> QED BY <2>3, <2>4
<1>10. Newer(whole, n, vs, None, r)
  <2>1. Newer(rest, n - m, vs, k, r)
    BY DEF rest
  <2>2. CASE \E i \in GrantsOf(rest, vs) :
          /\ i <= n - m /\ r = rest[i].grant /\ Covers(r, k)
          /\ \A j \in GrantsOf(rest, vs) : j <= n - m =>
                rest[j].grant.at <= r.at /\ (j > i => rest[j].grant.at < r.at)
    BY <1>8, <2>2
  <2>3. CASE r = k /\ \A j \in GrantsOf(rest, vs) : j <= n - m => k # None /\ rest[j].grant.at < k.at
    BY <1>9, <2>3
  <2> QED BY <2>1, <2>2, <2>3 DEF Newer
<1>11. Newer(whole, n, vs, None, NewestOf(whole, vs))
  BY <1>1, NewestIs
<1>12. r = NewestOf(whole, vs)
  BY <1>1, <1>10, <1>11, NewerUnique
<1> QED BY <1>12 DEF whole

\* The lines between, and what comes of them.
LEMMA RevokedExact ==
    ASSUME EvidenceAssumption, NEW lines \in Seq(Line), NEW m \in Nat, NEW n \in Nat, m <= n, n <= Len(lines),
           NEW t \in Nat, NEW u \in Nat, Later(SubSeq(lines, m + 1, n), n - m, t, u),
           LET r == Meaning(SubSeq(lines, 1, m)).revoked
           IN  t = r \/ (t > r /\ \E x \in Between(lines, m, n) : x.at = t)
    PROVE  u = Meaning(SubSeq(lines, 1, n)).revoked
<1> DEFINE whole == SubSeq(lines, 1, n)
           known == SubSeq(lines, 1, m)
           rest == SubSeq(lines, m + 1, n)
           r == Meaning(known).revoked
<1>1. /\ whole \in Seq(Line) /\ Len(whole) = n /\ DOMAIN whole = 1 .. n
      /\ \A i \in 1 .. n : whole[i] = lines[i]
      /\ known \in Seq(Line) /\ Len(known) = m /\ DOMAIN known = 1 .. m
      /\ \A i \in 1 .. m : known[i] = lines[i]
      /\ rest \in Seq(Line) /\ Len(rest) = n - m /\ DOMAIN rest = 1 .. n - m
      /\ \A i \in 1 .. n - m : rest[i] = lines[m + i]
  OBVIOUS
<1>2. r \in Nat /\ Later(known, m, 0, r)
  BY <1>1, RevokedIs
<1>3. Meaning(whole).revoked \in Nat /\ Later(whole, n, 0, Meaning(whole).revoked)
  BY <1>1, RevokedIs
<1>4. Later(rest, n - m, t, u) /\ (t = r \/ (t > r /\ \E x \in Between(lines, m, n) : x.at = t))
  OBVIOUS
<1> HIDE DEF whole, known, rest, r
<1>5. \A i \in 1 .. n : whole[i].at \in Nat
  BY <1>1, LineIs
<1>6. t >= r /\ u >= t
  BY <1>2, <1>4 DEF Later
<1>7. \A i \in 1 .. n : u >= whole[i].at
  <2> TAKE i \in 1 .. n
  <2>1. CASE i <= m
    <3>1. i \in DOMAIN known /\ known[i] = whole[i]
      BY <1>1, <2>1
    <3>2. r >= whole[i].at
      BY <1>2, <2>1, <3>1 DEF Later
    <3> QED BY <1>2, <1>5, <1>6, <3>2
  <2>2. CASE i > m
    <3>1. i - m \in 1 .. n - m /\ m + (i - m) = i
      BY <2>2
    <3>2. rest[i - m] = lines[m + (i - m)] /\ whole[i] = lines[i] /\ DOMAIN rest = 1 .. n - m
      BY <1>1, <3>1, Zenon
    <3>3. rest[i - m] = whole[i] /\ i - m \in DOMAIN rest /\ i - m <= n - m
      BY <3>1, <3>2
    <3> QED BY <1>4, <3>3 DEF Later
  <2> QED BY <2>1, <2>2
<1>8. u = 0 \/ \E i \in 1 .. n : u = whole[i].at
  <2>1. CASE u = r
    <3>1. r = 0 \/ \E j \in 1 .. m : r = known[j].at
      BY <1>1, <1>2 DEF Later
    <3>2. \A j \in 1 .. m : j \in 1 .. n /\ known[j] = whole[j]
      BY <1>1
    <3> QED BY <2>1, <3>1, <3>2
  <2>2. CASE \E j \in 1 .. n - m : u = rest[j].at
    <3>1. \A j \in 1 .. n - m : m + j \in 1 .. n
      OBVIOUS
    <3>3. \A j \in 1 .. n - m : rest[j] = whole[m + j]
      BY <1>1, <3>1, Zenon
    <3> QED BY <2>2, <3>1, <3>3
  <2>3. CASE u = t /\ \E x \in Between(lines, m, n) : x.at = t
    <3>1. PICK i \in m + 1 .. n : t = Plain(lines[i]).at
      BY <2>3 DEF Between
    <3>2. i \in 1 .. n /\ whole[i].at = t
      BY <1>1, <3>1 DEF Plain
    <3> QED BY <2>3, <3>2
  <2>4. u = t \/ \E j \in 1 .. n - m : u = rest[j].at
    BY <1>1, <1>4 DEF Later
  <2> QED BY <1>4, <2>1, <2>2, <2>3, <2>4
<1>9. Later(whole, n, 0, u)
  <2>1. DOMAIN whole = 1 .. n /\ u >= 0 /\ \A j \in 1 .. n : j <= n
    BY <1>1
  <2> QED BY <1>7, <1>8, <2>1, Zenon DEF Later
<1>10. u = Meaning(whole).revoked
  BY <1>1, <1>3, <1>9, LaterUnique
<1> QED BY <1>10 DEF whole

\* The fold of the lines between, of an index that is ahead by some of them at most, says what all the lines say.
LEMMA FoldExact ==
    ASSUME EvidenceAssumption, NEW lines \in Seq(Line), NEW m \in Nat, NEW n \in Nat, m <= n, n <= Len(lines),
           NEW index \in Index, IndexAhead(index, SubSeq(lines, 1, m), Between(lines, m, n))
    PROVE  Folded(index, SubSeq(lines, m + 1, n)) = Meaning(SubSeq(lines, 1, n))
<1> DEFINE rest == SubSeq(lines, m + 1, n)
           known == Folded(index, rest)
           all == Meaning(SubSeq(lines, 1, n))
<1>1. rest \in Seq(Line) /\ Len(rest) = n - m /\ SubSeq(lines, 1, n) \in Seq(Line)
  OBVIOUS
<1>2. FoldedTo(index, rest, n - m, known)
  BY <1>1, FoldedIs
<1>3. known \in Index /\ all \in Index
  BY <1>1, <1>2, MeaningIs DEF FoldedTo
<1>4. /\ \A v \in Versions : index.grants[v] \in Acceptances \cup {None} /\ known.grants[v] \in Acceptances \cup {None}
      /\ index.latest \in Acceptances \cup {None} /\ known.latest \in Acceptances \cup {None}
      /\ index.revoked \in Nat /\ known.revoked \in Nat
  BY <1>3 DEF Index
<1> HIDE DEF known
<1>5. ASSUME NEW v \in Versions PROVE known.grants[v] = all.grants[v]
  <2>1. Newer(rest, n - m, {v}, index.grants[v], known.grants[v])
    BY <1>2 DEF FoldedTo
  <2>2. SlotAhead(index.grants[v], NewestOf(SubSeq(lines, 1, m), {v}), Between(lines, m, n), {v})
    BY DEF IndexAhead
  <2>3. known.grants[v] = NewestOf(SubSeq(lines, 1, n), {v})
    BY <1>4, <2>1, <2>2, SlotExact, Zenon
  <2> QED BY <1>1, <2>3, MeaningIs
<1>6. known.latest = all.latest
  <2>1. Newer(rest, n - m, Versions, index.latest, known.latest)
    BY <1>2 DEF FoldedTo
  <2>2. SlotAhead(index.latest, NewestOf(SubSeq(lines, 1, m), Versions), Between(lines, m, n), Versions)
    BY DEF IndexAhead
  <2>3. known.latest = NewestOf(SubSeq(lines, 1, n), Versions)
    BY <1>4, <2>1, <2>2, SlotExact, Zenon
  <2> QED BY <1>1, <2>3, MeaningIs
<1>7. known.revoked = all.revoked
  <2>1. Later(rest, n - m, index.revoked, known.revoked)
    BY <1>2 DEF FoldedTo
  <2>2. LET r == Meaning(SubSeq(lines, 1, m)).revoked
        IN  index.revoked = r \/ (index.revoked > r /\ \E x \in Between(lines, m, n) : x.at = index.revoked)
    BY Zenon DEF IndexAhead
  <2> QED BY <1>4, <2>1, <2>2, RevokedExact, Zenon
<1> HIDE DEF all
<1>8. known = all
  BY <1>3, <1>5, <1>6, <1>7 DEF Index
<1> QED BY <1>8 DEF known, all

\* A fold of some of them leaves the index ahead of what it knew.
LEMMA FoldAhead ==
    ASSUME EvidenceAssumption, NEW base \in Seq(Line), NEW rest \in Seq(Line), NEW coming,
           \A i \in DOMAIN rest : Plain(rest[i]) \in coming,
           NEW index \in Index, IndexAhead(index, base, coming)
    PROVE  IndexAhead(Folded(index, rest), base, coming)
<1> DEFINE known == Folded(index, rest)
<1>2. FoldedTo(index, rest, Len(rest), known)
  BY FoldedIs
<1>3. known \in Index
  BY <1>2 DEF FoldedTo
<1>4. /\ \A v \in Versions : index.grants[v] \in Acceptances \cup {None} /\ known.grants[v] \in Acceptances \cup {None}
      /\ index.latest \in Acceptances \cup {None} /\ known.latest \in Acceptances \cup {None}
      /\ index.revoked \in Nat /\ known.revoked \in Nat
  BY <1>3 DEF Index
<1> HIDE DEF known
<1>7. ASSUME NEW vs, NEW k \in Acceptances \cup {None}, NEW r \in Acceptances \cup {None},
             SlotAhead(k, NewestOf(base, vs), coming, vs), Newer(rest, Len(rest), vs, k, r)
      PROVE  SlotAhead(r, NewestOf(base, vs), coming, vs)
  <2>1. NewestOf(base, vs) \in Acceptances \cup {None}
    BY NewestCovers
  <2>2. \A g \in Acceptances : g.at \in Nat /\ g # None
    BY DEF EvidenceAssumption
  <2>3. Covers(k, NewestOf(base, vs))
    BY <1>7, <2>1, <2>2 DEF SlotAhead, Covers
  <2>4. ASSUME NEW i \in GrantsOf(rest, vs), r = rest[i].grant, Covers(r, k)
        PROVE  SlotAhead(r, NewestOf(base, vs), coming, vs)
    <3>1. Covers(r, NewestOf(base, vs))
      BY <2>1, <2>3, <2>4, CoversTransitive
    <3>2. i \in DOMAIN rest /\ rest[i] \in Line /\ rest[i].type = "grant" /\ r.version \in vs
      BY <2>4 DEF GrantsOf
    <3>3. Plain(rest[i]) \in coming /\ Plain(rest[i]).type = "grant" /\ Plain(rest[i]).grant = r
      BY <2>4, <3>2, LineIs
    <3> QED BY <3>1, <3>2, <3>3 DEF SlotAhead
  <2>5. r = k \/ \E i \in GrantsOf(rest, vs) : r = rest[i].grant /\ Covers(r, k)
    BY <1>7 DEF Newer
  <2> QED BY <1>7, <2>4, <2>5
<1>8. \A v \in Versions : SlotAhead(known.grants[v], NewestOf(base, {v}), coming, {v})
  BY <1>2, <1>4, <1>7 DEF FoldedTo, IndexAhead
<1>9. SlotAhead(known.latest, NewestOf(base, Versions), coming, Versions)
  BY <1>2, <1>4, <1>7 DEF FoldedTo, IndexAhead
<1>10. LET r == Meaning(base).revoked
       IN  known.revoked = r \/ (known.revoked > r /\ \E x \in coming : x.at = known.revoked)
  <2>1. Meaning(base).revoked \in Nat
    BY RevokedIs
  <2>2. /\ index.revoked = Meaning(base).revoked
             \/ (index.revoked > Meaning(base).revoked /\ \E x \in coming : x.at = index.revoked)
    BY DEF IndexAhead
  <2>3. Later(rest, Len(rest), index.revoked, known.revoked)
    BY <1>2 DEF FoldedTo
  <2>4. known.revoked >= index.revoked
    BY <2>3 DEF Later
  <2>5. CASE known.revoked = index.revoked
    BY <2>2, <2>5
  <2>6. CASE known.revoked # index.revoked
    <3>1. PICK j \in DOMAIN rest : known.revoked = rest[j].at
      BY <2>3, <2>6 DEF Later
    <3>2. Plain(rest[j]) \in coming /\ Plain(rest[j]).at = known.revoked
      BY <3>1, LineIs
    <3>3. known.revoked > Meaning(base).revoked
      BY <1>4, <2>1, <2>2, <2>4, <2>6
    <3> QED BY <3>2, <3>3
  <2> QED BY <2>5, <2>6
<1>11. IndexAhead(known, base, coming)
  BY <1>8, <1>9, <1>10 DEF IndexAhead
<1> QED BY <1>11 DEF known

\* A fold of lines that there are brings nothing that they do not say.
LEMMA FoldWithin ==
    ASSUME EvidenceAssumption, NEW lines \in Seq(Line), NEW some \in Seq(Line),
           \A i \in DOMAIN some : \E j \in DOMAIN lines : some[i] = lines[j],
           NEW index \in Index, IndexWithin(index, lines, {})
    PROVE  Folded(index, some) \in Index /\ IndexWithin(Folded(index, some), lines, {})
<1> DEFINE known == Folded(index, some)
<1>2. FoldedTo(index, some, Len(some), known)
  BY FoldedIs
<1>3. known \in Index
  BY <1>2 DEF FoldedTo
<1> HIDE DEF known
<1>4. ASSUME NEW vs, NEW k, NEW r, Newer(some, Len(some), vs, k, r), Covers(NewestOf(lines, vs), k)
      PROVE  Covers(NewestOf(lines, vs), r)
  <2>1. CASE r = k
    BY <1>4, <2>1
  <2>2. ASSUME NEW i \in GrantsOf(some, vs), r = some[i].grant PROVE Covers(NewestOf(lines, vs), r)
    <3>1. PICK j \in DOMAIN lines : some[i] = lines[j]
      BY DEF GrantsOf
    <3>2. j \in GrantsOf(lines, vs) /\ r = lines[j].grant
      BY <2>2, <3>1 DEF GrantsOf
    <3> QED BY <3>2, NewestCovers
  <2> QED BY <1>4, <2>1, <2>2 DEF Newer
<1>5. \A v \in Versions : Covers(NewestOf(lines, {v}), known.grants[v])
  BY <1>2, <1>4 DEF FoldedTo, IndexWithin, SlotWithin
<1>6. Covers(NewestOf(lines, Versions), known.latest)
  BY <1>2, <1>4 DEF FoldedTo, IndexWithin, SlotWithin
<1>7. known.revoked <= Meaning(lines).revoked
  <2>1. Meaning(lines).revoked \in Nat /\ Later(lines, Len(lines), 0, Meaning(lines).revoked)
    BY RevokedIs
  <2>2. \A j \in DOMAIN lines : Meaning(lines).revoked >= lines[j].at
    BY <2>1 DEF Later
  <2>3. Later(some, Len(some), index.revoked, known.revoked)
    BY <1>2 DEF FoldedTo
  <2>4. known.revoked \in Nat /\ index.revoked \in Nat /\ index.revoked <= Meaning(lines).revoked
    BY <1>3 DEF Index, IndexWithin
  <2>5. CASE known.revoked = index.revoked
    BY <2>4, <2>5
  <2>6. ASSUME NEW j \in DOMAIN some, known.revoked = some[j].at PROVE known.revoked <= Meaning(lines).revoked
    <3>1. PICK i \in DOMAIN lines : some[j] = lines[i]
      OBVIOUS
    <3>2. Meaning(lines).revoked >= lines[i].at
      BY <2>2
    <3> QED BY <2>1, <2>4, <2>6, <3>1, <3>2
  <2> QED BY <2>3, <2>5, <2>6 DEF Later
<1> QED BY <1>3, <1>5, <1>6, <1>7 DEF IndexWithin, SlotWithin, known

\* An index with nothing in it is neither ahead of nor beyond anything.
LEMMA EmptyIs ==
    ASSUME EvidenceAssumption, NEW lines \in Seq(Line), NEW coming
    PROVE  /\ Empty \in Index /\ IndexWithin(Empty, lines, coming)
           /\ IndexAhead(Empty, SubSeq(lines, 1, 0), coming)
<1>1. Empty \in Index
  BY DEF Empty, Index
<1>2. Meaning(lines).revoked \in Nat
  BY RevokedIs
<1>3. IndexWithin(Empty, lines, coming)
  BY <1>2 DEF IndexWithin, SlotWithin, Empty, Covers
<1>4. SubSeq(lines, 1, 0) \in Seq(Line) /\ DOMAIN SubSeq(lines, 1, 0) = {}
  OBVIOUS
<1>5. \A vs : NewestOf(SubSeq(lines, 1, 0), vs) = None
  BY <1>4, NewestCovers DEF GrantsOf
<1>6. Meaning(SubSeq(lines, 1, 0)).revoked = 0
  BY <1>4, RevokedIs DEF Later
<1>7. IndexAhead(Empty, SubSeq(lines, 1, 0), coming)
  BY <1>5, <1>6 DEF IndexAhead, Empty, SlotAhead
<1> QED BY <1>1, <1>3, <1>7

\* Who knows a record of less knows it of more.
LEMMA WrittenIs ==
    ASSUME EvidenceAssumption, NEW r \in Written
    PROVE  /\ r \in LineRecord /\ r.at \in Nat /\ r.type \in {"grant", "revocation"}
           /\ r.type = "grant" => r.grant \in Acceptances /\ r.grant # None /\ r.grant.version \in Versions
           /\ \A b \in BOOLEAN : [r EXCEPT !.bad = b] \in Line /\ Plain([r EXCEPT !.bad = b]) = r
<1>1. \A b \in BOOLEAN : [r EXCEPT !.bad = b] \in Line
  BY DEF Line
<1>2. CASE \E g \in Acceptances : r = Grant(g)
  <2>1. PICK g \in Acceptances : r = [type |-> "grant", bad |-> FALSE, grant |-> g, at |-> 0]
    BY <1>2 DEF Grant
  <2>2. g # None /\ g.version \in Versions
    BY DEF EvidenceAssumption, Versions
  <2>3. ASSUME NEW b \in BOOLEAN PROVE Plain([r EXCEPT !.bad = b]) = r
    <3>1. [r EXCEPT !.bad = b] = [type |-> "grant", bad |-> b, grant |-> g, at |-> 0]
      BY <2>1
    <3> QED BY <2>1, <3>1 DEF Plain
  <2> QED BY <1>1, <2>1, <2>2, <2>3 DEF LineRecord
<1>3. CASE \E t \in Revocations : r = Revocation(t)
  <2>1. PICK t \in Revocations : r = [type |-> "revocation", bad |-> FALSE, grant |-> None, at |-> t]
    BY <1>3 DEF Revocation
  <2>2. t \in Nat
    BY DEF EvidenceAssumption
  <2>3. ASSUME NEW b \in BOOLEAN PROVE Plain([r EXCEPT !.bad = b]) = r
    <3>1. [r EXCEPT !.bad = b] = [type |-> "revocation", bad |-> b, grant |-> None, at |-> t]
      BY <2>1
    <3> QED BY <2>1, <3>1 DEF Plain
  <2> QED BY <1>1, <2>1, <2>2, <2>3 DEF LineRecord
<1> QED BY <1>2, <1>3 DEF Written

\* What it is to know a record, in terms of the slots.
LEMMA KnowsIs ==
    ASSUME EvidenceAssumption, NEW r \in Written, NEW index
    PROVE  Knows(index, r) <=>
             IF r.type = "grant" THEN Covers(index.latest, r.grant) /\ Covers(index.grants[r.grant.version], r.grant)
             ELSE index.revoked >= r.at
BY WrittenIs DEF Knows, Covers

\* Lines that say all that others say know what those know.
LEMMA KnowsSaysAll ==
    ASSUME EvidenceAssumption, NEW lines \in Seq(Line), NEW more \in Seq(Line), SaysAll(lines, more),
           NEW r \in Written, Knows(Meaning(lines), r)
    PROVE  Knows(Meaning(more), r)
<1>1. \A vs : NewestOf(lines, vs) \in Acceptances \cup {None} /\ NewestOf(more, vs) \in Acceptances \cup {None}
  BY NewestCovers
<1>2. Meaning(lines).revoked \in Nat /\ Meaning(more).revoked \in Nat
  BY RevokedIs
<1>3. CASE r.type = "grant"
  <2>1. r.grant \in Acceptances \cup {None} /\ r.grant.version \in Versions
    BY <1>3, WrittenIs
  <2> DEFINE v == r.grant.version
  <2>2. Covers(NewestOf(lines, Versions), r.grant) /\ Covers(NewestOf(lines, {v}), r.grant)
    BY <1>3, <2>1, KnowsIs, MeaningIs
  <2>3. Covers(NewestOf(more, Versions), r.grant) /\ Covers(NewestOf(more, {v}), r.grant)
    BY <1>1, <2>1, <2>2, CoversTransitive DEF SaysAll
  <2> QED BY <1>3, <2>1, <2>3, KnowsIs, MeaningIs
<1>4. CASE r.type # "grant"
  BY <1>2, <1>4, WrittenIs, KnowsIs DEF SaysAll
<1> QED BY <1>3, <1>4

\* What an index knows, the lines that it is within know.
LEMMA KnowsWithin ==
    ASSUME EvidenceAssumption, NEW lines \in Seq(Line), NEW index \in Index, IndexWithin(index, lines, {}),
           NEW r \in Written, Knows(index, r)
    PROVE  Knows(Meaning(lines), r)
<1>1. \A vs : NewestOf(lines, vs) \in Acceptances \cup {None}
  BY NewestCovers
<1>2. Meaning(lines).revoked \in Nat /\ index.revoked \in Nat
  BY RevokedIs DEF Index
<1>3. CASE r.type = "grant"
  <2>1. r.grant \in Acceptances \cup {None} /\ r.grant.version \in Versions
    BY <1>3, WrittenIs
  <2> DEFINE v == r.grant.version
  <2>2. Covers(index.latest, r.grant) /\ Covers(index.grants[v], r.grant)
    BY <1>3, KnowsIs
  <2>3. index.latest \in Acceptances \cup {None} /\ index.grants[v] \in Acceptances \cup {None}
    BY <2>1 DEF Index
  <2>4. Covers(NewestOf(lines, Versions), index.latest) /\ Covers(NewestOf(lines, {v}), index.grants[v])
    BY <2>1 DEF IndexWithin, SlotWithin
  <2>5. Covers(NewestOf(lines, Versions), r.grant) /\ Covers(NewestOf(lines, {v}), r.grant)
    BY <1>1, <2>1, <2>2, <2>3, <2>4, CoversTransitive
  <2> QED BY <1>3, <2>1, <2>5, KnowsIs, MeaningIs
<1>4. CASE r.type # "grant"
  BY <1>2, <1>4, WrittenIs, KnowsIs DEF IndexWithin
<1> QED BY <1>3, <1>4

\* More lines and more to come leave an index where it was.
LEMMA AheadGrows ==
    ASSUME NEW index, NEW lines, NEW same, NEW coming, NEW more, IndexAhead(index, lines, coming),
           coming \subseteq more, Meaning(same) = Meaning(lines),
           \A vs : NewestOf(same, vs) = NewestOf(lines, vs)
    PROVE  IndexAhead(index, same, more)
<1>1. \A k, m, vs : SlotAhead(k, m, coming, vs) => SlotAhead(k, m, more, vs)
  BY DEF SlotAhead
<1>2. \A v \in Versions : SlotAhead(index.grants[v], NewestOf(same, {v}), more, {v})
  BY <1>1 DEF IndexAhead
<1>3. SlotAhead(index.latest, NewestOf(same, Versions), more, Versions)
  BY <1>1 DEF IndexAhead
<1> QED BY <1>2, <1>3 DEF IndexAhead

\* An index stays within lines that say more.
LEMMA WithinGrows ==
    ASSUME EvidenceAssumption, NEW lines \in Seq(Line), NEW all \in Seq(Line), NEW index \in Index, NEW coming, NEW more,
           IndexWithin(index, lines, coming), SaysAll(lines, all), coming \subseteq more
    PROVE  IndexWithin(index, all, more)
<1>1. \A vs : NewestOf(lines, vs) \in Acceptances \cup {None} /\ NewestOf(all, vs) \in Acceptances \cup {None}
  BY NewestCovers
<1>2. Meaning(lines).revoked \in Nat /\ Meaning(all).revoked \in Nat /\ index.revoked \in Nat
  BY RevokedIs DEF Index
<1>3. ASSUME NEW vs, NEW k \in Acceptances \cup {None}, Covers(NewestOf(all, vs), NewestOf(lines, vs)),
             SlotWithin(k, NewestOf(lines, vs), coming, vs)
      PROVE  SlotWithin(k, NewestOf(all, vs), more, vs)
  <2>1. CASE Covers(NewestOf(lines, vs), k)
    <3>1. Covers(NewestOf(all, vs), k)
      BY <1>1, <1>3, <2>1, CoversTransitive
    <3> QED BY <3>1 DEF SlotWithin
  <2> QED BY <1>3, <2>1 DEF SlotWithin
<1>4. \A v \in Versions : SlotWithin(index.grants[v], NewestOf(all, {v}), more, {v})
  BY <1>3 DEF IndexWithin, SaysAll, Index
<1>5. SlotWithin(index.latest, NewestOf(all, Versions), more, Versions)
  BY <1>3 DEF IndexWithin, SaysAll, Index
<1> QED BY <1>2, <1>4, <1>5 DEF IndexWithin, SaysAll

\* An index that says what the lines say is not ahead of them.
LEMMA MeaningAhead ==
    ASSUME EvidenceAssumption, NEW lines \in Seq(Line), NEW coming
    PROVE  IndexAhead(Meaning(lines), lines, coming)
BY MeaningIs DEF IndexAhead, SlotAhead

\* With nothing to come it is no more than what the lines say.
LEMMA NothingAhead ==
    ASSUME EvidenceAssumption, NEW lines \in Seq(Line), NEW index \in Index, IndexAhead(index, lines, {})
    PROVE  index = Meaning(lines)
<1>1. Meaning(lines) \in Index
  BY MeaningIs
<1>2. \A v \in Versions : index.grants[v] = Meaning(lines).grants[v]
  BY MeaningIs DEF IndexAhead, SlotAhead
<1>3. index.latest = Meaning(lines).latest
  BY MeaningIs DEF IndexAhead, SlotAhead
<1>4. index.revoked = Meaning(lines).revoked
  BY DEF IndexAhead
<1> QED BY <1>1, <1>2, <1>3, <1>4 DEF Index

\* An acceptance that is folded in before its line is written leaves the index ahead by that line at most.
LEMMA ApplyAhead ==
    ASSUME EvidenceAssumption, NEW lines \in Seq(Line), NEW index \in Index, NEW op \in Written, op.type = "grant",
           NEW coming, op \in coming
    PROVE  /\ IndexAhead(index, lines, coming) => IndexAhead(Apply(index, op.grant), lines, coming)
           /\ IndexWithin(index, lines, {}) => IndexWithin(Apply(index, op.grant), lines, coming)
<1> DEFINE g == op.grant
           next == Apply(index, g)
<1>1. g \in Acceptances /\ g.version \in Versions
  BY WrittenIs
<1>2. \A h \in Acceptances : h.at \in Nat /\ h # None
  BY DEF EvidenceAssumption
<1>3. /\ \A v \in Versions : next.grants[v] =
                 IF g.version = v /\ Supersedes(g, index.grants[v]) THEN g ELSE index.grants[v]
      /\ next.latest = IF Supersedes(g, index.latest) THEN g ELSE index.latest
      /\ next.revoked = index.revoked
  BY <1>1, ApplyIs
<1>4. \A v \in Versions : index.grants[v] \in Acceptances \cup {None}
  BY DEF Index
<1>5. index.latest \in Acceptances \cup {None}
  BY DEF Index
<1>6. \A vs : NewestOf(lines, vs) \in Acceptances \cup {None}
  BY NewestCovers
<1> HIDE DEF next
<1>7. ASSUME NEW vs, NEW k \in Acceptances \cup {None}, g.version \in vs, Supersedes(g, k)
      PROVE  /\ SlotAhead(k, NewestOf(lines, vs), coming, vs) => SlotAhead(g, NewestOf(lines, vs), coming, vs)
             /\ SlotWithin(g, NewestOf(lines, vs), coming, vs)
  <2>1. Covers(g, k)
    BY <1>1, <1>2, <1>7 DEF Supersedes, Covers
  <2>2. SlotAhead(k, NewestOf(lines, vs), coming, vs) => Covers(k, NewestOf(lines, vs))
    BY <1>2, <1>6, <1>7 DEF SlotAhead, Covers
  <2>3. SlotAhead(k, NewestOf(lines, vs), coming, vs) => Covers(g, NewestOf(lines, vs))
    BY <1>1, <1>6, <1>7, <2>1, <2>2, CoversTransitive
  <2> QED BY <1>7, <2>3 DEF SlotAhead, SlotWithin
<1>8. \A k, m, vs : SlotWithin(k, m, {}, vs) => SlotWithin(k, m, coming, vs)
  BY DEF SlotWithin
<1>9. ASSUME IndexAhead(index, lines, coming) PROVE IndexAhead(next, lines, coming)
  <2>1. \A v \in Versions : SlotAhead(next.grants[v], NewestOf(lines, {v}), coming, {v})
    BY <1>1, <1>3, <1>4, <1>7, <1>9 DEF IndexAhead
  <2>2. SlotAhead(next.latest, NewestOf(lines, Versions), coming, Versions)
    BY <1>1, <1>3, <1>5, <1>7, <1>9 DEF IndexAhead
  <2> QED BY <1>3, <1>9, <2>1, <2>2 DEF IndexAhead
<1>10. ASSUME IndexWithin(index, lines, {}) PROVE IndexWithin(next, lines, coming)
  <2>1. \A v \in Versions : SlotWithin(next.grants[v], NewestOf(lines, {v}), coming, {v})
    BY <1>1, <1>3, <1>4, <1>7, <1>8, <1>10 DEF IndexWithin
  <2>2. SlotWithin(next.latest, NewestOf(lines, Versions), coming, Versions)
    BY <1>1, <1>3, <1>5, <1>7, <1>8, <1>10 DEF IndexWithin
  <2> QED BY <1>3, <1>10, <2>1, <2>2 DEF IndexWithin
<1> QED BY <1>9, <1>10 DEF next

\* Part of lines of which some are repaired, and to which others are added.
LEMMA ExtendsPart ==
    ASSUME EvidenceAssumption, NEW lines \in Seq(Line), NEW more \in Seq(Line), Extends(lines, more),
           NEW n \in Nat, n <= Len(lines)
    PROVE  /\ Meaning(SubSeq(more, 1, n)) = Meaning(SubSeq(lines, 1, n))
           /\ \A vs : NewestOf(SubSeq(more, 1, n), vs) = NewestOf(SubSeq(lines, 1, n), vs)
           /\ \A m \in Nat : Between(more, m, n) = Between(lines, m, n)
<1>1. Len(lines) <= Len(more) /\ \A i \in DOMAIN lines : Plain(more[i]) = Plain(lines[i])
  BY DEF Extends
<1>2. /\ SubSeq(more, 1, n) \in Seq(Line) /\ Len(SubSeq(more, 1, n)) = n
      /\ SubSeq(lines, 1, n) \in Seq(Line) /\ Len(SubSeq(lines, 1, n)) = n
      /\ DOMAIN SubSeq(lines, 1, n) = 1 .. n
      /\ \A i \in 1 .. n : SubSeq(lines, 1, n)[i] = lines[i] /\ SubSeq(more, 1, n)[i] = more[i]
  BY <1>1
<1>3. \A i \in 1 .. n : Plain(more[i]) = Plain(lines[i])
  BY <1>1
<1>4. \A i \in DOMAIN SubSeq(lines, 1, n) : Plain(SubSeq(more, 1, n)[i]) = Plain(SubSeq(lines, 1, n)[i])
  BY <1>2, <1>3
<1>5. /\ Meaning(SubSeq(more, 1, n)) = Meaning(SubSeq(lines, 1, n))
      /\ \A vs : NewestOf(SubSeq(more, 1, n), vs) = NewestOf(SubSeq(lines, 1, n), vs)
  BY <1>2, <1>4, MeaningSame
<1>6. ASSUME NEW m \in Nat PROVE Between(more, m, n) = Between(lines, m, n)
  <2>1. \A i \in m + 1 .. n : Plain(more[i]) = Plain(lines[i])
    BY <1>3
  <2> QED BY <2>1 DEF Between
<1> QED BY <1>5, <1>6

\* Part of the lines is made of them.
LEMMA PartIs ==
    ASSUME EvidenceAssumption, NEW lines \in Seq(Line), NEW m \in Nat, NEW n \in Nat, n <= Len(lines)
    PROVE  /\ SubSeq(lines, m + 1, n) \in Seq(Line)
           /\ \A i \in DOMAIN SubSeq(lines, m + 1, n) :
                 m + i \in m + 1 .. n /\ m + i \in DOMAIN lines /\ SubSeq(lines, m + 1, n)[i] = lines[m + i]
           /\ m <= n => Len(SubSeq(lines, m + 1, n)) = n - m
<1>1. CASE m <= n
  BY <1>1
<1>2. CASE m > n
  <2>1. SubSeq(lines, m + 1, n) = <<>>
    BY <1>2
  <2> QED BY <1>2, <2>1
<1> QED BY <1>1, <1>2

\* A store whose file has grown, was repaired or replaced under it.
Alike(s, t) ==
    /\ t.at = s.at /\ t.op = s.op /\ t.since = s.since /\ t.index = s.index /\ t.offset = s.offset
    /\ t.size = s.size /\ t.same = s.same /\ (s.moved => t.moved)

\* What a store knows stays true when the file grows, or is replaced and the store no longer knows it.
LEMMA StoreKept ==
    ASSUME EvidenceAssumption, NEW lines \in Seq(Line), NEW more \in Seq(Line),
           NEW s \in StoreRecord, NEW t \in StoreRecord, Truthful(s, lines), Alike(s, t),
           SaysAll(lines, more), ~t.moved => Extends(lines, more)
    PROVE  Truthful(t, more)
<1>0. s.offset \in Nat /\ s.size \in Nat /\ s.index \in Index /\ s.moved \in BOOLEAN /\ t.moved \in BOOLEAN
  BY DEF StoreRecord
<1>1. /\ t.at = s.at /\ t.op = s.op /\ t.since = s.since /\ t.index = s.index /\ t.offset = s.offset
      /\ t.size = s.size /\ t.same = s.same /\ (s.moved => t.moved)
  BY DEF Alike
<1>2. Awaited(t) = Awaited(s)
  BY <1>1 DEF Awaited
<1>3. IndexWithin(t.index, more, Awaited(t))
  BY <1>0, <1>1, <1>2, WithinGrows DEF Truthful
<1>4. t.at \in {"appending", "writing"} => t.op \in Written
  BY <1>1 DEF Truthful
<1>5. ASSUME ~t.moved PROVE ~s.moved /\ Extends(lines, more) /\ Len(lines) <= Len(more)
  BY <1>0, <1>1, <1>5 DEF Extends
<1>6. ASSUME t.at = "reading", ~t.moved
      PROVE  /\ t.size <= Len(more)
             /\ \A r \in t.since : Knows(Meaning(SubSeq(more, 1, t.size)), r)
             /\ t.same => t.offset <= t.size
                   /\ IndexAhead(t.index, SubSeq(more, 1, t.offset), Between(more, t.offset, t.size))
  <2>1. /\ s.size <= Len(lines)
        /\ \A r \in s.since : Knows(Meaning(SubSeq(lines, 1, s.size)), r)
        /\ s.same => s.offset <= s.size
                   /\ IndexAhead(s.index, SubSeq(lines, 1, s.offset), Between(lines, s.offset, s.size))
    BY <1>1, <1>5, <1>6 DEF Truthful
  <2>2. Meaning(SubSeq(more, 1, s.size)) = Meaning(SubSeq(lines, 1, s.size))
           /\ Between(more, s.offset, s.size) = Between(lines, s.offset, s.size)
    BY <1>0, <1>5, <1>6, <2>1, ExtendsPart
  <2>3. ASSUME s.same PROVE IndexAhead(s.index, SubSeq(more, 1, s.offset), Between(more, s.offset, s.size))
    <3>1. s.offset <= Len(lines)
      BY <1>0, <2>1, <2>3
    <3>2. /\ Meaning(SubSeq(more, 1, s.offset)) = Meaning(SubSeq(lines, 1, s.offset))
          /\ \A vs : NewestOf(SubSeq(more, 1, s.offset), vs) = NewestOf(SubSeq(lines, 1, s.offset), vs)
      BY <1>0, <1>5, <1>6, <3>1, ExtendsPart
    <3> QED BY <2>1, <2>2, <2>3, <3>2, AheadGrows
  <2>4. s.size <= Len(more)
    BY <1>0, <1>5, <1>6, <2>1
  <2> QED BY <1>1, <2>1, <2>2, <2>3, <2>4
<1>7. ASSUME t.at = "loaded", ~t.moved
      PROVE  /\ t.offset <= Len(more) /\ t.index = Meaning(SubSeq(more, 1, t.offset))
             /\ \A r \in t.since : Knows(t.index, r)
  <2>1. /\ s.offset <= Len(lines) /\ s.index = Meaning(SubSeq(lines, 1, s.offset))
        /\ \A r \in s.since : Knows(s.index, r)
    BY <1>1, <1>5, <1>7 DEF Truthful
  <2>2. Meaning(SubSeq(more, 1, s.offset)) = Meaning(SubSeq(lines, 1, s.offset))
    BY <1>0, <1>5, <1>7, <2>1, ExtendsPart
  <2>3. s.offset <= Len(more)
    BY <1>0, <1>5, <1>7, <2>1
  <2> QED BY <1>1, <2>1, <2>2, <2>3
<1>8. ASSUME t.at \in {"idle", "appending", "writing"}, ~t.moved
      PROVE  /\ t.offset <= Len(more)
             /\ IndexAhead(t.index, SubSeq(more, 1, t.offset), Between(more, t.offset, Len(more)) \cup Awaited(t))
  <2>1. /\ s.offset <= Len(lines)
        /\ IndexAhead(s.index, SubSeq(lines, 1, s.offset), Between(lines, s.offset, Len(lines)) \cup Awaited(s))
    BY <1>1, <1>5, <1>8 DEF Truthful
  <2>2. /\ Meaning(SubSeq(more, 1, s.offset)) = Meaning(SubSeq(lines, 1, s.offset))
        /\ \A vs : NewestOf(SubSeq(more, 1, s.offset), vs) = NewestOf(SubSeq(lines, 1, s.offset), vs)
    BY <1>0, <1>5, <1>8, <2>1, ExtendsPart
  <2>3. Between(more, s.offset, Len(lines)) = Between(lines, s.offset, Len(lines))
    BY <1>0, <1>5, <1>8, ExtendsPart
  <2>4. Between(more, s.offset, Len(lines)) \subseteq Between(more, s.offset, Len(more))
    BY <1>0, <1>5, <1>8 DEF Between
  <2>5. IndexAhead(s.index, SubSeq(more, 1, s.offset), Between(more, s.offset, Len(more)) \cup Awaited(s))
    BY <2>1, <2>2, <2>3, <2>4, AheadGrows
  <2>6. s.offset <= Len(more)
    BY <1>0, <1>5, <1>8, <2>1
  <2> QED BY <1>1, <1>2, <2>5, <2>6
<1> QED BY <1>3, <1>4, <1>6, <1>7, <1>8 DEF Truthful

\* A step of one store that leaves the file alone.
LEMMA OneStore ==
    ASSUME EvidenceAssumption, EvidenceInv, NEW p \in Store, NEW t \in StoreRecord, Truthful(t, file),
           \A q \in Store : IF q = p THEN store'[q] = t ELSE store'[q] \in StoreRecord
              /\ Alike(store[q], store'[q]) /\ store'[q].moved = store[q].moved,
           DOMAIN store' = Store, store' = [q \in Store |-> store'[q]],
           file' = file, acked' \subseteq Written, \A r \in acked' : Knows(Meaning(file), r)
    PROVE  EvidenceInv'
<1>1. file \in Seq(Line) /\ store \in [Store -> StoreRecord] /\ \A q \in Store : Truthful(store[q], file)
  BY DEF EvidenceInv
<1>2. store' \in [Store -> StoreRecord]
  <2>1. \A q \in Store : store'[q] \in StoreRecord
    OBVIOUS
  <2> QED BY <2>1
<1>3. Extends(file, file)
  BY <1>1 DEF Extends
<1>4. SaysAll(file, file)
  BY <1>1, <1>3, ExtendsSaysAll
<1>5. ASSUME NEW q \in Store PROVE Truthful(store'[q], file)
  <2>1. CASE q = p
    BY <2>1
  <2>2. CASE q # p
    BY <1>1, <1>2, <1>3, <1>4, <2>2, StoreKept
  <2> QED BY <2>1, <2>2
<1> QED BY <1>1, <1>2, <1>5 DEF EvidenceInv

\* The same when nothing happens to the others.
LEMMA OneBecomes ==
    ASSUME EvidenceAssumption, EvidenceInv, NEW p \in Store, NEW t \in StoreRecord, Truthful(t, file), Becomes(p, t),
           file' = file, acked' \subseteq Written, \A r \in acked' : Knows(Meaning(file), r)
    PROVE  EvidenceInv'
<1>1. store \in [Store -> StoreRecord] /\ store' = [store EXCEPT ![p] = t]
  BY DEF EvidenceInv, Becomes
<1>2. \A q \in Store : store'[q] = IF q = p THEN t ELSE store[q]
  BY <1>1
<1>3. \A q \in Store : Alike(store[q], store[q])
  BY DEF Alike
<1>4. store' = [q \in Store |-> store'[q]] /\ DOMAIN store' = Store
  BY <1>1
<1> QED BY <1>1, <1>2, <1>3, <1>4, OneStore

\* The operation of a store ends.
LEMMA OpEndsIs ==
    ASSUME NEW s \in StoreRecord
    PROVE  /\ OpEnds(s) \in StoreRecord /\ ReadDone(s) \in StoreRecord
           /\ OpEnds(s).at = "idle" /\ OpEnds(s).op = Lookup /\ OpEnds(s).since = {}
           /\ OpEnds(s).index = s.index /\ OpEnds(s).offset = s.offset /\ OpEnds(s).moved = s.moved
           /\ ReadDone(s).at = s.at /\ ReadDone(s).op = s.op /\ ReadDone(s).since = s.since
           /\ ReadDone(s).index = s.index /\ ReadDone(s).offset = s.offset /\ ReadDone(s).moved = s.moved
<1>1. ReadDone(s) \in StoreRecord
  BY DEF ReadDone, StoreRecord
<1>2. OpEnds(s) \in StoreRecord
  BY <1>1 DEF OpEnds, StoreRecord
<1>3. /\ ReadDone(s).at = s.at /\ ReadDone(s).op = s.op /\ ReadDone(s).since = s.since
      /\ ReadDone(s).index = s.index /\ ReadDone(s).offset = s.offset /\ ReadDone(s).moved = s.moved
  BY DEF ReadDone, StoreRecord
<1>4. /\ OpEnds(s).at = "idle" /\ OpEnds(s).op = Lookup /\ OpEnds(s).since = {}
      /\ OpEnds(s).index = ReadDone(s).index /\ OpEnds(s).offset = ReadDone(s).offset
            /\ OpEnds(s).moved = ReadDone(s).moved
  BY <1>1 DEF OpEnds, StoreRecord
<1> QED BY <1>1, <1>2, <1>3, <1>4

\* A store that is idle and does not know the file, with nothing in its index.
LEMMA ResetIs ==
    ASSUME EvidenceAssumption, NEW s \in StoreRecord
    PROVE  /\ Reset(s) \in StoreRecord /\ Reset(s).index = Empty /\ Reset(s).moved
           /\ Reset(s).at = s.at /\ Reset(s).op = s.op
<1>1. Empty \in Index
  BY DEF Empty, Index
<1> QED BY <1>1 DEF Reset, StoreRecord

\* What makes a record sound, whose index is sound and which does not know the file.
LEMMA MovedSound ==
    ASSUME NEW s \in StoreRecord, NEW lines, s.moved, IndexWithin(s.index, lines, Awaited(s)),
           s.at \in {"appending", "writing"} => s.op \in Written
    PROVE  Truthful(s, lines)
BY DEF Truthful

\* The lesser of two numbers.
LEMMA MinIs ==
    ASSUME NEW a \in Nat, NEW b \in Nat
    PROVE  Min({a, b}) = IF a <= b THEN a ELSE b
<1>1. PICK m : m = IF a <= b THEN a ELSE b
  OBVIOUS
<1>2. m \in {a, b} /\ \A y \in {a, b} : m <= y
  BY <1>1
<1>3. Min({a, b}) \in {a, b} /\ \A y \in {a, b} : Min({a, b}) <= y
  BY <1>2, Zenon DEF Min
<1>4. PICK n \in {a, b} : n = Min({a, b}) /\ \A y \in {a, b} : n <= y
  BY <1>3
<1> QED BY <1>1, <1>4

\* Where a read starts from: what the store knows, or nothing.
LEMMA BaseIs ==
    ASSUME EvidenceAssumption, file \in Seq(Line), NEW s \in StoreRecord, Truthful(s, file), s.at = "reading"
    PROVE  /\ Base(s) \in StoreRecord /\ Base(s).at = s.at /\ Base(s).op = s.op /\ Base(s).since = s.since
           /\ Base(s).moved = s.moved /\ Base(s).size = s.size
           /\ Base(s).index \in Index /\ Base(s).offset \in Nat
           /\ IndexWithin(Base(s).index, file, {})
           /\ ~s.moved =>
                 /\ Base(s).offset <= s.size /\ s.size <= Len(file)
                 /\ IndexAhead(Base(s).index, SubSeq(file, 1, Base(s).offset), Between(file, Base(s).offset, s.size))
<1>0. s.index \in Index /\ s.offset \in Nat /\ s.size \in Nat /\ s.moved \in BOOLEAN
  BY DEF StoreRecord
<1>1. /\ IndexWithin(s.index, file, {})
      /\ ~s.moved => s.size <= Len(file)
      /\ ~s.moved /\ s.same => s.offset <= s.size /\ IndexAhead(s.index, SubSeq(file, 1, s.offset), Between(file, s.offset, s.size))
  BY DEF Truthful, Awaited
<1>2. CASE Grown(s)
  <2>1. Base(s) = s /\ s.same
    BY <1>2 DEF Base, Grown
  <2> QED BY <1>0, <1>1, <2>1
<1>3. CASE ~Grown(s)
  <2>1. Base(s) = [s EXCEPT !.index = Empty, !.offset = 0]
    BY <1>3 DEF Base
  <2>2. /\ Empty \in Index /\ IndexWithin(Empty, file, {})
        /\ IndexAhead(Empty, SubSeq(file, 1, 0), Between(file, 0, s.size))
    BY EmptyIs
  <2>3. /\ Base(s) \in StoreRecord /\ Base(s).at = s.at /\ Base(s).op = s.op /\ Base(s).since = s.since
        /\ Base(s).moved = s.moved /\ Base(s).size = s.size /\ Base(s).index = Empty /\ Base(s).offset = 0
    <3>1. PICK e \in Index : e = Empty
      BY <2>2
    <3>2. PICK b : b = [s EXCEPT !.index = e, !.offset = 0]
      OBVIOUS
    <3>3. b \in StoreRecord /\ b.at = s.at /\ b.op = s.op /\ b.since = s.since
          /\ b.moved = s.moved /\ b.size = s.size /\ b.index = e /\ b.offset = 0
      BY <3>2 DEF StoreRecord
    <3> QED BY <2>1, <3>1, <3>2, <3>3
  <2>4. 0 <= s.size
    BY <1>0
  <2> QED BY <1>0, <1>1, <2>2, <2>3, <2>4
<1> QED BY <1>2, <1>3

\* The lines that a read finds.
LEMMA UnreadIs ==
    ASSUME EvidenceAssumption, file \in Seq(Line), NEW s \in StoreRecord, Truthful(s, file), s.at = "reading"
    PROVE  /\ UnreadLines(s) \in Seq(Line)
           /\ \A i \in DOMAIN UnreadLines(s) : \E j \in DOMAIN file : UnreadLines(s)[i] = file[j]
           /\ ~s.moved =>
                 /\ UnreadLines(s) = SubSeq(file, Base(s).offset + 1, s.size)
                 /\ Len(UnreadLines(s)) = s.size - Base(s).offset
                 /\ \A i \in DOMAIN UnreadLines(s) : Plain(UnreadLines(s)[i]) \in Between(file, Base(s).offset, s.size)
<1>0. s.size \in Nat /\ Len(file) \in Nat /\ Base(s).offset \in Nat
  BY BaseIs DEF StoreRecord
<1>1. PICK n \in Nat : n = Min({s.size, Len(file)}) /\ n <= Len(file) /\ (s.size <= Len(file) => n = s.size)
  BY <1>0, MinIs
<1>2. PICK m \in Nat : m = Base(s).offset
  BY <1>0
<1>3. UnreadLines(s) = SubSeq(file, m + 1, n)
  BY <1>1, <1>2 DEF UnreadLines
<1>4. /\ SubSeq(file, m + 1, n) \in Seq(Line)
      /\ \A i \in DOMAIN SubSeq(file, m + 1, n) :
            m + i \in m + 1 .. n /\ m + i \in DOMAIN file /\ SubSeq(file, m + 1, n)[i] = file[m + i]
      /\ m <= n => Len(SubSeq(file, m + 1, n)) = n - m
  <2>1. n <= Len(file)
    BY <1>1
  <2> QED BY <2>1, PartIs, Zenon
<1>5. \A i \in DOMAIN UnreadLines(s) : \E j \in DOMAIN file : UnreadLines(s)[i] = file[j]
  BY <1>3, <1>4
<1>6. ASSUME ~s.moved
      PROVE  /\ UnreadLines(s) = SubSeq(file, m + 1, s.size) /\ Len(UnreadLines(s)) = s.size - m
             /\ \A i \in DOMAIN UnreadLines(s) : Plain(UnreadLines(s)[i]) \in Between(file, m, s.size)
  <2>1. m <= s.size /\ s.size <= Len(file)
    BY <1>2, <1>6, BaseIs
  <2>2. n = s.size
    BY <1>1, <2>1
  <2> QED BY <1>3, <1>4, <2>1, <2>2 DEF Between
<1> QED BY <1>2, <1>3, <1>4, <1>5, <1>6

\* What the invariant says of one store, and of what the file says.
LEMMA InvOf ==
    ASSUME EvidenceInv, NEW p \in Store
    PROVE  /\ file \in Seq(Line) /\ Len(file) \in Nat /\ store[p] \in StoreRecord /\ Truthful(store[p], file)
           /\ acked \subseteq Written /\ \A r \in acked : Knows(Meaning(file), r)
BY DEF EvidenceInv

\* Each step keeps the invariant.  An operation begins: there is no file, or it is
\* as it was, or it is read from where it was.
LEMMA BeginSound ==
    ASSUME EvidenceAssumption, EvidenceInv, NEW p \in Store, NEW o \in Written \cup {Lookup}, Begin(p, o)
    PROVE  EvidenceInv'
<1> DEFINE was == store[p]
           s == [was EXCEPT !.op = o, !.since = acked]
           absent == [Reset(s) EXCEPT !.at = "loaded", !.loaded = TRUE]
           same == [s EXCEPT !.at = "loaded"]
           reads == [s EXCEPT !.at = "reading", !.size = Len(file), !.part = Part, !.same = ~s.moved,
              !.moved = FALSE, !.stale = FALSE]
           t == IF file = <<>> /\ ~Part THEN absent ELSE IF Unchanged(s) THEN same ELSE reads
<1>0. was.at = "idle" /\ Becomes(p, t) /\ file' = file /\ acked' = acked
  BY DEF Begin
<1>1. /\ file \in Seq(Line) /\ Len(file) \in Nat /\ was \in StoreRecord /\ Truthful(was, file)
      /\ acked \subseteq Written /\ \A r \in acked : Knows(Meaning(file), r)
  BY InvOf
<1>2. /\ s \in StoreRecord /\ s.at = was.at /\ s.index = was.index /\ s.offset = was.offset /\ s.moved = was.moved
      /\ s.op = o /\ s.since = acked
  BY <1>1 DEF StoreRecord
<1>3. /\ IndexWithin(s.index, file, {}) /\ s.index \in Index /\ s.offset \in Nat /\ s.moved \in BOOLEAN
      /\ ~s.moved => s.offset <= Len(file) /\ IndexAhead(s.index, SubSeq(file, 1, s.offset), Between(file, s.offset, Len(file)))
  <2>1. Awaited(was) = {}
    BY <1>0 DEF Awaited
  <2> HIDE DEF was, s
  <2> QED BY <1>0, <1>1, <1>2, <2>1 DEF Truthful, StoreRecord
<1>4. SubSeq(file, 1, Len(file)) = file /\ Part \in BOOLEAN
  BY <1>1 DEF Part
<1> HIDE DEF s, was
<1>5. absent \in StoreRecord /\ Truthful(absent, file)
  <2>1. /\ Reset(s) \in StoreRecord /\ Reset(s).index = Empty /\ Reset(s).moved /\ Reset(s).op = s.op
    BY <1>2, ResetIs
  <2>2. absent \in StoreRecord /\ absent.at = "loaded" /\ absent.moved /\ absent.index = Empty
    BY <2>1 DEF StoreRecord
  <2> HIDE DEF absent
  <2>3. IndexWithin(absent.index, file, Awaited(absent))
    BY <1>1, <2>2, EmptyIs
  <2> QED BY <2>2, <2>3, MovedSound
<1>6. ASSUME Unchanged(s) PROVE same \in StoreRecord /\ Truthful(same, file)
  <2>1. ~s.moved /\ Len(file) = s.offset
    BY <1>6 DEF Unchanged
  <2>2. /\ same \in StoreRecord /\ same.at = "loaded" /\ same.moved = s.moved /\ same.index = s.index
        /\ same.offset = s.offset /\ same.since = s.since
    BY <1>2 DEF StoreRecord
  <2>3. Between(file, s.offset, Len(file)) = {}
    BY <1>1, <1>3, <2>1 DEF Between
  <2>4. s.index = Meaning(file)
    BY <1>1, <1>3, <1>4, <2>1, <2>3, NothingAhead
  <2> HIDE DEF same
  <2>5. Awaited(same) = {}
    BY <2>2 DEF Awaited
  <2>6. IndexWithin(same.index, file, Awaited(same))
    BY <1>3, <2>2, <2>5
  <2>7. /\ same.offset <= Len(file) /\ same.index = Meaning(SubSeq(file, 1, same.offset))
        /\ \A r \in same.since : Knows(same.index, r)
    <3>1. same.offset = Len(file) /\ same.index = Meaning(file) /\ same.since = acked
      BY <1>2, <2>1, <2>2, <2>4
    <3>2. same.offset <= Len(file)
      BY <1>1, <3>1
    <3>3. SubSeq(file, 1, same.offset) = file
      BY <1>4, <3>1, Zenon
    <3>4. \A r \in same.since : Knows(same.index, r)
      BY <1>1, <3>1, Zenon
    <3> QED BY <3>1, <3>2, <3>3, <3>4, Zenon
  <2> QED BY <2>2, <2>6, <2>7 DEF Truthful
<1>7. reads \in StoreRecord /\ Truthful(reads, file)
  <2>1. /\ reads \in StoreRecord /\ reads.at = "reading" /\ reads.size = Len(file) /\ reads.same = ~s.moved
        /\ ~reads.moved
        /\ reads.index = s.index /\ reads.offset = s.offset /\ reads.since = s.since
    <3>1. PICK n \in Nat, b \in BOOLEAN, c \in BOOLEAN : n = Len(file) /\ b = Part /\ c = ~s.moved
      BY <1>1, <1>3, <1>4
    <3>2. reads = [s EXCEPT !.at = "reading", !.size = n, !.part = b, !.same = c, !.moved = FALSE, !.stale = FALSE]
      BY <3>1
    <3> HIDE DEF reads
    <3>3. /\ reads \in StoreRecord /\ reads.at = "reading" /\ reads.size = n /\ reads.same = c /\ ~reads.moved
          /\ reads.index = s.index /\ reads.offset = s.offset /\ reads.since = s.since
      BY <1>2, <3>2 DEF StoreRecord
    <3> QED BY <3>1, <3>3
  <2> HIDE DEF reads
  <2>2. Awaited(reads) = {}
    BY <2>1 DEF Awaited
  <2>3. IndexWithin(reads.index, file, Awaited(reads))
    BY <1>3, <2>1, <2>2
  <2>4. reads.size <= Len(file) /\ \A r \in reads.since : Knows(Meaning(SubSeq(file, 1, reads.size)), r)
    <3>1. reads.size = Len(file) /\ reads.since = acked
      BY <1>2, <2>1
    <3>2. reads.size <= Len(file)
      BY <1>1, <3>1
    <3>3. SubSeq(file, 1, reads.size) = file
      BY <1>4, <3>1, Zenon
    <3> QED BY <1>1, <3>1, <3>2, <3>3, Zenon
  <2>5. reads.same => reads.offset <= reads.size
              /\ IndexAhead(reads.index, SubSeq(file, 1, reads.offset), Between(file, reads.offset, reads.size))
    BY <1>3, <2>1
  <2> QED BY <2>1, <2>3, <2>4, <2>5 DEF Truthful
<1>8. t \in StoreRecord /\ Truthful(t, file)
  <2> HIDE DEF absent, same, reads
  <2> QED BY <1>5, <1>6, <1>7
<1> HIDE DEF t
<1> QED BY <1>0, <1>1, <1>8, OneBecomes

\* A read: the index says what the lines say as far as the file went at the stat.
LEMMA ReadSound ==
    ASSUME EvidenceAssumption, EvidenceInv, NEW p \in Store, Read(p)
    PROVE  EvidenceInv'
<1> DEFINE s == store[p]
           base == Base(s)
           lines == UnreadLines(s)
           tail == IF lines # <<>> THEN Last(lines) ELSE IF Grown(s) THEN base.tail ELSE None
           t == [ReadDone(base) EXCEPT !.at = "loaded", !.loaded = TRUE, !.index = Folded(@, lines),
                   !.offset = @ + Consumed(s),
                   !.tail = IF lines # <<>> THEN Last(lines) ELSE IF Grown(s) THEN @ ELSE None,
                   !.stale = @ \/ s.part \/ base.offset + Consumed(s) # s.size]
<1>0. s.at = "reading" /\ Becomes(p, t) /\ file' = file /\ acked' = acked
  BY DEF Read
<1>1. /\ file \in Seq(Line) /\ Len(file) \in Nat /\ s \in StoreRecord /\ Truthful(s, file)
      /\ acked \subseteq Written /\ \A r \in acked : Knows(Meaning(file), r)
  BY InvOf
<1>2. /\ base \in StoreRecord /\ base.since = s.since /\ base.moved = s.moved
      /\ base.index \in Index /\ base.offset \in Nat /\ IndexWithin(base.index, file, {})
      /\ ~s.moved =>
            /\ base.offset <= s.size /\ s.size <= Len(file)
            /\ IndexAhead(base.index, SubSeq(file, 1, base.offset), Between(file, base.offset, s.size))
  BY <1>0, <1>1, BaseIs
<1>3. /\ lines \in Seq(Line) /\ \A i \in DOMAIN lines : \E j \in DOMAIN file : lines[i] = file[j]
      /\ ~s.moved => lines = SubSeq(file, base.offset + 1, s.size) /\ Len(lines) = s.size - base.offset
  BY <1>0, <1>1, UnreadIs
<1>4. Consumed(s) = Len(lines) /\ Len(lines) \in Nat /\ s.part \in BOOLEAN /\ s.size \in Nat
  BY <1>1, <1>3 DEF Consumed, StoreRecord
<1> HIDE DEF s, base, lines
<1>5. Folded(base.index, lines) \in Index /\ IndexWithin(Folded(base.index, lines), file, {})
  BY <1>1, <1>2, <1>3, FoldWithin
<1>6. ReadDone(base) \in StoreRecord /\ ReadDone(base).index = base.index /\ ReadDone(base).offset = base.offset
      /\ ReadDone(base).since = base.since /\ ReadDone(base).moved = base.moved
  BY <1>2, OpEndsIs
<1>7. lines # <<>> => Last(lines) \in LineRecord
  <2>1. ASSUME lines # <<>> PROVE lines[Len(lines)] \in Line
    BY <1>3, <2>1
  <2> QED BY <2>1, LineIs DEF Last
<1>8. /\ t \in StoreRecord /\ t.at = "loaded" /\ t.moved = s.moved /\ t.since = s.since
      /\ t.index = Folded(base.index, lines) /\ t.offset = base.offset + Len(lines)
  <2>1. PICK d \in StoreRecord : d = ReadDone(base)
    BY <1>6
  <2>2. PICK x \in Nat : x = base.offset + Consumed(s)
    BY <1>2, <1>4
  <2>3. PICK i \in Index : i = Folded(base.index, lines)
    BY <1>5
  <2>4. PICK l \in LineRecord \cup {None} : l = IF lines # <<>> THEN Last(lines) ELSE IF Grown(s) THEN d.tail ELSE None
    BY <1>7 DEF StoreRecord
  <2>5. PICK b \in BOOLEAN : b = (d.stale \/ s.part \/ base.offset + Consumed(s) # s.size)
    BY <1>4 DEF StoreRecord
  <2>6. t = [d EXCEPT !.at = "loaded", !.loaded = TRUE, !.index = i, !.offset = x, !.tail = l, !.stale = b]
    BY <1>6, <2>1, <2>2, <2>3, <2>4, <2>5
  <2> HIDE DEF t
  <2>7. t \in StoreRecord /\ t.at = "loaded" /\ t.moved = d.moved /\ t.since = d.since /\ t.index = i /\ t.offset = x
    BY <2>6 DEF StoreRecord
  <2> QED BY <1>2, <1>4, <1>6, <2>1, <2>2, <2>3, <2>7
<1> HIDE DEF t
<1>9. Awaited(t) = {}
  BY <1>8 DEF Awaited
<1>10. ASSUME ~t.moved
       PROVE  /\ t.offset <= Len(file) /\ t.index = Meaning(SubSeq(file, 1, t.offset))
              /\ \A r \in t.since : Knows(t.index, r)
  <2>1. t.offset = s.size
    BY <1>2, <1>3, <1>4, <1>8, <1>10
  <2>2. Folded(base.index, SubSeq(file, base.offset + 1, s.size)) = Meaning(SubSeq(file, 1, s.size))
    BY <1>1, <1>2, <1>4, <1>8, <1>10, FoldExact
  <2>3. \A r \in s.since : Knows(Meaning(SubSeq(file, 1, s.size)), r)
    BY <1>0, <1>1, <1>8, <1>10 DEF Truthful
  <2> QED BY <1>2, <1>3, <1>8, <1>10, <2>1, <2>2, <2>3
<1>11. Truthful(t, file)
  BY <1>5, <1>8, <1>9, <1>10 DEF Truthful
<1> QED BY <1>0, <1>1, <1>8, <1>11, OneBecomes

\* What a read that fails leaves of what it was to learn.
LEMMA UnlearntSound ==
    ASSUME EvidenceAssumption, EvidenceInv, NEW p \in Store, store[p].at = "reading",
           NEW some \in Seq(Line), \A i \in DOMAIN some : \E j \in DOMAIN UnreadLines(store[p]) : some[i] = UnreadLines(store[p])[j],
           NEW t, t = [Unlearnt(store[p]) EXCEPT !.index = Folded(Base(store[p]).index, some)]
    PROVE  t \in StoreRecord /\ Truthful(t, file)
<1> DEFINE s == store[p]
           base == Base(s)
           lines == UnreadLines(s)
<1>1. /\ file \in Seq(Line) /\ Len(file) \in Nat /\ s \in StoreRecord /\ Truthful(s, file)
  BY InvOf
<1>2. /\ base \in StoreRecord /\ base.moved = s.moved
      /\ base.index \in Index /\ base.offset \in Nat /\ IndexWithin(base.index, file, {})
      /\ ~s.moved =>
            /\ base.offset <= s.size /\ s.size <= Len(file)
            /\ IndexAhead(base.index, SubSeq(file, 1, base.offset), Between(file, base.offset, s.size))
  BY <1>1, BaseIs
<1>3. /\ \A i \in DOMAIN lines : \E j \in DOMAIN file : lines[i] = file[j]
      /\ ~s.moved => \A i \in DOMAIN lines : Plain(lines[i]) \in Between(file, base.offset, s.size)
  BY <1>1, UnreadIs
<1>4. /\ \A i \in DOMAIN some : \E j \in DOMAIN file : some[i] = file[j]
      /\ ~s.moved => \A i \in DOMAIN some : Plain(some[i]) \in Between(file, base.offset, s.size)
  BY <1>3
<1>5. s.same \in BOOLEAN /\ s.moved \in BOOLEAN /\ s.size \in Nat
  BY <1>1 DEF StoreRecord
<1> HIDE DEF lines, s
<1>6. t = [[OpEnds(base) EXCEPT !.stale = TRUE, !.moved = @ \/ ~s.same] EXCEPT !.index = Folded(base.index, some)]
  BY DEF Unlearnt, s
<1> HIDE DEF base
<1>7. Folded(base.index, some) \in Index /\ IndexWithin(Folded(base.index, some), file, {})
  BY <1>1, <1>2, <1>4, FoldWithin
<1>8. OpEnds(base) \in StoreRecord /\ OpEnds(base).at = "idle" /\ OpEnds(base).offset = base.offset
         /\ OpEnds(base).moved = base.moved
  BY <1>2, OpEndsIs
<1>9. /\ t \in StoreRecord /\ t.at = "idle" /\ t.index = Folded(base.index, some) /\ t.offset = base.offset
      /\ t.moved = (s.moved \/ ~s.same)
  <2>1. PICK d \in StoreRecord : d = OpEnds(base)
    BY <1>8
  <2>2. PICK i \in Index : i = Folded(base.index, some)
    BY <1>7
  <2>3. t = [[d EXCEPT !.stale = TRUE, !.moved = @ \/ ~s.same] EXCEPT !.index = i]
    BY <1>6, <2>1, <2>2
  <2>4. /\ t \in StoreRecord /\ t.at = d.at /\ t.index = i /\ t.offset = d.offset
        /\ t.moved = (d.moved \/ ~s.same)
    BY <1>5, <2>3 DEF StoreRecord
  <2> QED BY <1>2, <1>8, <2>1, <2>2, <2>4
<1>10. Awaited(t) = {}
  BY <1>9 DEF Awaited
<1>11. ASSUME ~t.moved
       PROVE  t.offset <= Len(file) /\ IndexAhead(t.index, SubSeq(file, 1, t.offset), Between(file, t.offset, Len(file)))
  <2>1. ~s.moved /\ base.offset <= s.size /\ s.size <= Len(file)
    BY <1>2, <1>9, <1>11
  <2>2. SubSeq(file, 1, base.offset) \in Seq(Line)
    BY <1>1, <1>2, <1>5, <2>1
  <2>3. IndexAhead(t.index, SubSeq(file, 1, base.offset), Between(file, base.offset, s.size))
    <3>1. IndexAhead(Folded(base.index, some), SubSeq(file, 1, base.offset), Between(file, base.offset, s.size))
      BY <1>2, <1>4, <2>1, <2>2, FoldAhead, Zenon
    <3> QED BY <1>9, <3>1
  <2>4. Between(file, base.offset, s.size) \subseteq Between(file, base.offset, Len(file))
    BY <1>1, <1>2, <1>5, <2>1 DEF Between
  <2>5. IndexAhead(t.index, SubSeq(file, 1, base.offset), Between(file, base.offset, Len(file)))
    BY <2>3, <2>4, AheadGrows
  <2>6. base.offset <= Len(file)
    BY <1>1, <1>2, <1>5, <2>1
  <2> QED BY <1>9, <2>5, <2>6
<1>12. Truthful(t, file)
  BY <1>7, <1>9, <1>10, <1>11 DEF Truthful
<1> QED BY <1>9, <1>12

\* A read that meets a line that is no JSON: what came before it stays folded in.
LEMMA ReadBadSound ==
    ASSUME EvidenceAssumption, EvidenceInv, NEW p \in Store, ReadBad(p)
    PROVE  EvidenceInv'
<1> DEFINE lines == UnreadLines(store[p])
<1>1. PICK i \in DOMAIN lines :
         Becomes(p, [Unlearnt(store[p]) EXCEPT !.index = Folded(@, SubSeq(lines, 1, i - 1))])
  BY DEF ReadBad
<1>2. store[p].at = "reading" /\ file' = file /\ acked' = acked
  BY DEF ReadBad
<1>3. /\ store[p] \in StoreRecord /\ file \in Seq(Line) /\ Truthful(store[p], file)
      /\ acked \subseteq Written /\ \A r \in acked : Knows(Meaning(file), r)
  BY InvOf
<1>4. lines \in Seq(Line)
  BY <1>2, <1>3, UnreadIs
<1>5. Unlearnt(store[p]).index = Base(store[p]).index
  <2>1. Base(store[p]) \in StoreRecord
    BY <1>2, <1>3, BaseIs
  <2>2. OpEnds(Base(store[p])) \in StoreRecord /\ OpEnds(Base(store[p])).index = Base(store[p]).index
    BY <2>1, OpEndsIs
  <2> QED BY <2>2 DEF Unlearnt, StoreRecord
<1> HIDE DEF lines
<1>6. /\ SubSeq(lines, 1, i - 1) \in Seq(Line)
      /\ \A k \in DOMAIN SubSeq(lines, 1, i - 1) : \E j \in DOMAIN lines : SubSeq(lines, 1, i - 1)[k] = lines[j]
  BY <1>4
<1>7. PICK t : t = [Unlearnt(store[p]) EXCEPT !.index = Folded(Base(store[p]).index, SubSeq(lines, 1, i - 1))]
  OBVIOUS
<1>8. Becomes(p, t)
  BY <1>1, <1>5, <1>7
<1>9. t \in StoreRecord /\ Truthful(t, file)
  BY <1>2, <1>6, <1>7, UnlearntSound DEF lines
<1> QED BY <1>2, <1>3, <1>8, <1>9, OneBecomes

\* A read that fails: nothing is folded in.
LEMMA ReadFailsSound ==
    ASSUME EvidenceAssumption, EvidenceInv, NEW p \in Store, ReadFails(p)
    PROVE  EvidenceInv'
<1>1. /\ store[p].at = "reading" /\ Becomes(p, Unlearnt(store[p])) /\ file' = file /\ acked' = acked
  BY DEF ReadFails
<1>2. /\ store[p] \in StoreRecord /\ file \in Seq(Line) /\ Truthful(store[p], file)
      /\ acked \subseteq Written /\ \A r \in acked : Knows(Meaning(file), r)
  BY InvOf
<1>3. Unlearnt(store[p]) = [Unlearnt(store[p]) EXCEPT !.index = Base(store[p]).index]
  <2>1. Base(store[p]) \in StoreRecord
    BY <1>1, <1>2, BaseIs
  <2>2. OpEnds(Base(store[p])) \in StoreRecord /\ OpEnds(Base(store[p])).index = Base(store[p]).index
    BY <2>1, OpEndsIs
  <2> QED BY <2>2 DEF Unlearnt, StoreRecord
<1>4. Folded(Base(store[p]).index, <<>>) = Base(store[p]).index
  <2>1. Base(store[p]).index \in Index /\ <<>> \in Seq(Line) /\ Len(<<>>) = 0 /\ DOMAIN <<>> = {}
    BY <1>1, <1>2, BaseIs
  <2>2. FoldedTo(Base(store[p]).index, <<>>, Len(<<>>), Folded(Base(store[p]).index, <<>>))
    BY <2>1, FoldedIs, Zenon
  <2>3. GrantsOf(<<>>, Versions) = {} /\ \A v \in Versions : GrantsOf(<<>>, {v}) = {}
    BY <2>1 DEF GrantsOf
  <2>4. PICK k : k = Folded(Base(store[p]).index, <<>>)
    OBVIOUS
  <2>5. PICK x \in Index : x = Base(store[p]).index
    BY <2>1
  <2>6. k \in Index /\ \A v \in Versions : k.grants[v] = x.grants[v]
    BY <2>2, <2>3, <2>4, <2>5 DEF FoldedTo, Newer
  <2>7. k.latest = x.latest
    BY <2>2, <2>3, <2>4, <2>5 DEF FoldedTo, Newer
  <2>8. k.revoked = x.revoked
    BY <2>1, <2>2, <2>4, <2>5 DEF FoldedTo, Later
  <2> QED BY <2>4, <2>5, <2>6, <2>7, <2>8 DEF Index
<1>5. PICK t : t = Unlearnt(store[p])
  OBVIOUS
<1>6. t = [Unlearnt(store[p]) EXCEPT !.index = Folded(Base(store[p]).index, <<>>)]
  BY <1>3, <1>4, <1>5
<1>7. t \in StoreRecord /\ Truthful(t, file)
  <2>1. <<>> \in Seq(Line) /\ DOMAIN <<>> = {}
    OBVIOUS
  <2>2. \A i \in DOMAIN <<>> : \E j \in DOMAIN UnreadLines(store[p]) : <<>>[i] = UnreadLines(store[p])[j]
    BY <2>1
  <2> QED BY <1>1, <1>6, <2>1, <2>2, UnlearntSound, Zenon
<1> QED BY <1>1, <1>2, <1>5, <1>7, OneBecomes

\* A grant that changes nothing is known.
LEMMA NothingNewKnown ==
    ASSUME EvidenceAssumption, NEW index \in Index, NEW op \in Written, op.type = "grant", Apply(index, op.grant) = index
    PROVE  Knows(index, op)
<1>1. op.grant \in Acceptances /\ op.grant.version \in Versions /\ \A g \in Acceptances : g.at \in Nat /\ g # None
  BY WrittenIs DEF EvidenceAssumption
<1>2. index.latest \in Acceptances \cup {None} /\ index.grants[op.grant.version] \in Acceptances \cup {None}
  BY <1>1 DEF Index
<1>3. /\ index.latest = IF Supersedes(op.grant, index.latest) THEN op.grant ELSE index.latest
      /\ index.grants[op.grant.version] =
            IF Supersedes(op.grant, index.grants[op.grant.version]) THEN op.grant ELSE index.grants[op.grant.version]
  BY <1>1, ApplyIs
<1>4. Covers(index.latest, op.grant) /\ Covers(index.grants[op.grant.version], op.grant)
  BY <1>1, <1>2, <1>3 DEF Supersedes, Covers
<1> QED BY <1>4, KnowsIs

\* An answer: a grant that is acknowledged without a line is in the lines already.
LEMMA AnswerSound ==
    ASSUME EvidenceAssumption, EvidenceInv, NEW p \in Store, Answer(p)
    PROVE  EvidenceInv'
<1> DEFINE s == store[p]
<1>0. /\ s.at = "loaded" /\ (s.op = Lookup \/ (s.op.type = "grant" /\ Apply(s.index, s.op.grant) = s.index))
      /\ Becomes(p, OpEnds(s)) /\ acked' = acked \cup ({s.op} \ {Lookup}) /\ file' = file
  BY DEF Answer, NothingNew
<1>1. /\ file \in Seq(Line) /\ Len(file) \in Nat /\ s \in StoreRecord /\ Truthful(s, file)
      /\ acked \subseteq Written /\ \A r \in acked : Knows(Meaning(file), r)
  BY InvOf
<1> HIDE DEF s
<1>2. /\ OpEnds(s) \in StoreRecord /\ OpEnds(s).at = "idle" /\ OpEnds(s).index = s.index
      /\ OpEnds(s).offset = s.offset /\ OpEnds(s).moved = s.moved
  BY <1>1, OpEndsIs
<1>3. PICK t \in StoreRecord : t = OpEnds(s)
  BY <1>2
<1>4. IndexWithin(s.index, file, {}) /\ s.index \in Index /\ s.offset \in Nat /\ s.op \in Written \cup {Lookup}
  BY <1>0, <1>1 DEF Truthful, StoreRecord, Awaited
<1>5. Awaited(t) = {}
  BY <1>2, <1>3 DEF Awaited
<1>6. ASSUME ~t.moved
      PROVE  /\ t.offset <= Len(file)
             /\ IndexAhead(t.index, SubSeq(file, 1, t.offset), Between(file, t.offset, Len(file)) \cup Awaited(t))
  <2>1. s.offset <= Len(file) /\ s.index = Meaning(SubSeq(file, 1, s.offset))
    BY <1>0, <1>1, <1>2, <1>3, <1>6 DEF Truthful
  <2>2. SubSeq(file, 1, s.offset) \in Seq(Line)
    BY <1>1, <1>4, <2>1
  <2>3. IndexAhead(s.index, SubSeq(file, 1, s.offset), Between(file, s.offset, Len(file)) \cup Awaited(t))
    BY <2>1, <2>2, MeaningAhead, Zenon
  <2> QED BY <1>2, <1>3, <2>1, <2>3
<1>7. Truthful(t, file)
  BY <1>2, <1>3, <1>4, <1>5, <1>6 DEF Truthful
<1>8. ASSUME s.op # Lookup PROVE s.op \in Written /\ Knows(Meaning(file), s.op)
  <2>1. s.op \in Written /\ s.op.type = "grant" /\ Apply(s.index, s.op.grant) = s.index
    BY <1>0, <1>4, <1>8
  <2>2. Knows(s.index, s.op)
    BY <1>4, <2>1, NothingNewKnown
  <2> QED BY <1>1, <1>4, <2>1, <2>2, KnowsWithin
<1>9. acked' \subseteq Written /\ \A r \in acked' : Knows(Meaning(file), r)
  BY <1>0, <1>1, <1>8
<1> QED BY <1>0, <1>3, <1>7, <1>9, OneBecomes

\* A grant is folded in before its line is written: the index is ahead by that line.
LEMMA ProceedSound ==
    ASSUME EvidenceAssumption, EvidenceInv, NEW p \in Store, Proceed(p)
    PROVE  EvidenceInv'
<1> DEFINE s == store[p]
           next == IF s.op.type = "grant" THEN Apply(s.index, s.op.grant) ELSE s.index
<1>0. s.at = "loaded" /\ s.op # Lookup /\ file' = file /\ acked' = acked
  BY DEF Proceed
<1>1. /\ file \in Seq(Line) /\ Len(file) \in Nat /\ s \in StoreRecord /\ Truthful(s, file)
      /\ acked \subseteq Written /\ \A r \in acked : Knows(Meaning(file), r)
  BY InvOf
<1>2. PICK t : t = [s EXCEPT !.at = "appending", !.since = {}, !.index = next]
  OBVIOUS
<1>3. Becomes(p, t)
  BY <1>2 DEF Proceed
<1> HIDE DEF s
<1>4. IndexWithin(s.index, file, {}) /\ s.index \in Index /\ s.offset \in Nat /\ s.op \in Written
  BY <1>0, <1>1 DEF Truthful, StoreRecord, Awaited
<1>5. next \in Index
  <2>1. s.op.type = "grant" => s.op.grant \in Acceptances
    BY <1>4, WrittenIs
  <2> QED BY <1>4, <2>1, ApplyIs
<1> HIDE DEF next
<1>6. /\ t \in StoreRecord /\ t.at = "appending" /\ t.op = s.op /\ t.index = next /\ t.offset = s.offset
      /\ t.moved = s.moved
  BY <1>1, <1>2, <1>5 DEF StoreRecord
<1>7. Awaited(t) = IF s.op.type = "grant" THEN {s.op} ELSE {}
  BY <1>6 DEF Awaited
<1>8. IndexWithin(next, file, Awaited(t))
  <2>1. CASE s.op.type = "grant"
    BY <1>1, <1>4, <1>7, <2>1, ApplyAhead DEF next
  <2>2. CASE s.op.type # "grant"
    BY <1>4, <1>7, <2>2 DEF next
  <2> QED BY <2>1, <2>2
<1>9. ASSUME ~t.moved
      PROVE  /\ t.offset <= Len(file)
             /\ IndexAhead(t.index, SubSeq(file, 1, t.offset), Between(file, t.offset, Len(file)) \cup Awaited(t))
  <2>1. s.offset <= Len(file) /\ s.index = Meaning(SubSeq(file, 1, s.offset))
    BY <1>0, <1>1, <1>6, <1>9 DEF Truthful
  <2>2. SubSeq(file, 1, s.offset) \in Seq(Line)
    BY <1>1, <1>4, <2>1
  <2>3. IndexAhead(s.index, SubSeq(file, 1, s.offset), Between(file, s.offset, Len(file)) \cup Awaited(t))
    BY <2>1, <2>2, MeaningAhead, Zenon
  <2>4. IndexAhead(next, SubSeq(file, 1, s.offset), Between(file, s.offset, Len(file)) \cup Awaited(t))
    <3>1. CASE s.op.type = "grant"
      <4>1. s.op \in Between(file, s.offset, Len(file)) \cup Awaited(t)
        BY <1>7, <3>1
      <4>2. IndexAhead(Apply(s.index, s.op.grant), SubSeq(file, 1, s.offset), Between(file, s.offset, Len(file)) \cup Awaited(t))
        BY <1>4, <2>2, <2>3, <3>1, <4>1, ApplyAhead, Zenon
      <4> QED BY <3>1, <4>2 DEF next
    <3>2. CASE s.op.type # "grant"
      BY <2>3, <3>2 DEF next
    <3> QED BY <3>1, <3>2
  <2> QED BY <1>6, <2>1, <2>4
<1>10. Truthful(t, file)
  BY <1>4, <1>6, <1>8, <1>9 DEF Truthful
<1> QED BY <1>0, <1>1, <1>3, <1>6, <1>10, OneBecomes

\* A write that fails: the grant that was folded in is forgotten with the rest.
LEMMA AppendFailsSound ==
    ASSUME EvidenceAssumption, EvidenceInv, NEW p \in Store, AppendFails(p)
    PROVE  EvidenceInv'
<1> DEFINE s == store[p]
<1>0. s.at \in {"appending", "writing"} /\ Becomes(p, Forgets(s)) /\ file' = file /\ acked' = acked
  BY DEF AppendFails
<1>1. /\ file \in Seq(Line) /\ Len(file) \in Nat /\ s \in StoreRecord /\ Truthful(s, file)
      /\ acked \subseteq Written /\ \A r \in acked : Knows(Meaning(file), r)
  BY InvOf
<1> HIDE DEF s
<1>2. CASE s.op.type = "grant"
  <2>1. Reset(s) \in StoreRecord /\ Reset(s).index = Empty /\ Reset(s).moved
    BY <1>1, ResetIs
  <2>2. PICK t \in StoreRecord : t = OpEnds(Reset(s)) /\ t.at = "idle" /\ t.index = Empty /\ t.moved
    BY <2>1, OpEndsIs
  <2>3. Truthful(t, file)
    BY <1>1, <2>2, EmptyIs, MovedSound
  <2>4. Becomes(p, t)
    BY <1>0, <1>2, <2>2 DEF Forgets
  <2> QED BY <1>0, <1>1, <2>2, <2>3, <2>4, OneBecomes
<1>3. CASE s.op.type # "grant"
  <2>1. PICK t \in StoreRecord : /\ t = OpEnds(s) /\ t.at = "idle" /\ t.index = s.index
                                 /\ t.offset = s.offset /\ t.moved = s.moved
    BY <1>1, OpEndsIs
  <2>2. Awaited(s) = {} /\ Awaited(t) = {}
    BY <1>3, <2>1 DEF Awaited
  <2>3. Truthful(t, file)
    BY <1>0, <1>1, <2>1, <2>2 DEF Truthful
  <2>4. Becomes(p, t)
    BY <1>0, <1>3, <2>1 DEF Forgets
  <2> QED BY <1>0, <1>1, <2>1, <2>3, <2>4, OneBecomes
<1> QED BY <1>2, <1>3

\* A process that has just begun knows nothing.
LEMMA FreshIs ==
    ASSUME EvidenceAssumption, NEW lines \in Seq(Line)
    PROVE  Fresh \in StoreRecord /\ Truthful(Fresh, lines)
<1>1. Fresh \in StoreRecord /\ Fresh.at = "idle" /\ Fresh.moved /\ Fresh.index = Empty
  <2>1. Empty \in Index
    BY EmptyIs
  <2> QED BY <2>1 DEF Fresh, StoreRecord
<1>2. IndexWithin(Empty, lines, Awaited(Fresh))
  BY EmptyIs
<1> QED BY <1>1, <1>2, MovedSound

\* A crash.
LEMMA CrashSound ==
    ASSUME EvidenceAssumption, EvidenceInv, NEW p \in Store, Crash(p)
    PROVE  EvidenceInv'
<1>1. Becomes(p, Fresh) /\ file' = file /\ acked' = acked
  BY DEF Crash
<1>2. file \in Seq(Line) /\ acked \subseteq Written /\ \A r \in acked : Knows(Meaning(file), r)
  BY InvOf
<1> QED BY <1>1, <1>2, FreshIs, OneBecomes

\* A write begins: no store knows its mtime any more, and the others know what they knew.
LEMMA StartWriteSound ==
    ASSUME EvidenceAssumption, EvidenceInv, NEW p \in Store, StartWrite(p)
    PROVE  EvidenceInv'
<1>1. /\ store[p].at = "appending" /\ file' = file /\ acked' = acked
      /\ store' = [q \in Store |-> [[store EXCEPT ![p].at = "writing"][q] EXCEPT !.stale = TRUE]]
  BY DEF StartWrite, Touched
<1>2. /\ file \in Seq(Line) /\ Len(file) \in Nat /\ store[p] \in StoreRecord /\ Truthful(store[p], file)
      /\ acked \subseteq Written /\ \A r \in acked : Knows(Meaning(file), r)
  BY InvOf
<1>3. store \in [Store -> StoreRecord]
  BY DEF EvidenceInv
<1>4. ASSUME NEW q \in Store, q # p
      PROVE  store'[q] \in StoreRecord /\ Alike(store[q], store'[q]) /\ store'[q].moved = store[q].moved
  <2>1. store'[q] = [store[q] EXCEPT !.stale = TRUE]
    BY <1>1, <1>3, <1>4
  <2>2. store[q] \in StoreRecord
    BY <1>3
  <2> QED BY <2>1, <2>2 DEF Alike, StoreRecord
<1>5. PICK t : t = [[store[p] EXCEPT !.at = "writing"] EXCEPT !.stale = TRUE]
  OBVIOUS
<1>6. store'[p] = t
  BY <1>1, <1>3, <1>5
<1>7. PICK s \in StoreRecord : s = store[p]
  BY <1>2
<1>8. /\ t \in StoreRecord /\ t.at = "writing" /\ t.op = s.op /\ t.index = s.index /\ t.offset = s.offset
      /\ t.moved = s.moved
  BY <1>5, <1>7 DEF StoreRecord
<1>9. Awaited(t) = Awaited(s)
  BY <1>1, <1>7, <1>8 DEF Awaited
<1>10. Truthful(t, file)
  BY <1>1, <1>2, <1>7, <1>8, <1>9 DEF Truthful
<1>11. DOMAIN store' = Store /\ store' = [q \in Store |-> store'[q]]
  BY <1>1
<1>12. \A q \in Store : IF q = p THEN store'[q] = t
                        ELSE store'[q] \in StoreRecord /\ Alike(store[q], store'[q]) /\ store'[q].moved = store[q].moved
  BY <1>4, <1>6
<1> QED BY <1>1, <1>2, <1>8, <1>10, <1>11, <1>12, OneStore

\* The lines say what each of them says.
LEMMA LineKnown ==
    ASSUME EvidenceAssumption, NEW lines \in Seq(Line), NEW i \in DOMAIN lines
    PROVE  Knows(Meaning(lines), Plain(lines[i]))
<1>1. lines[i] \in Line
  OBVIOUS
<1>2. PICK x \in Line : x = lines[i]
  BY <1>1
<1>3. /\ Plain(x) \in Written /\ Plain(x).type = x.type /\ Plain(x).grant = x.grant /\ Plain(x).at = x.at
      /\ x.at \in Nat
      /\ x.type = "grant" => x.grant.version \in Versions
  BY LineIs
<1>4. PICK r \in Written : r = Plain(x)
  BY <1>3
<1>5. CASE x.type = "grant"
  <2>1. i \in GrantsOf(lines, Versions) /\ i \in GrantsOf(lines, {x.grant.version})
    BY <1>2, <1>3, <1>5 DEF GrantsOf
  <2>2. Covers(NewestOf(lines, Versions), x.grant) /\ Covers(NewestOf(lines, {x.grant.version}), x.grant)
    BY <1>2, <2>1, NewestCovers
  <2> QED BY <1>2, <1>3, <1>4, <1>5, <2>2, KnowsIs, MeaningIs
<1>6. CASE x.type # "grant"
  <2>1. Meaning(lines).revoked \in Nat /\ Later(lines, Len(lines), 0, Meaning(lines).revoked)
    BY RevokedIs
  <2>2. i <= Len(lines)
    OBVIOUS
  <2>3. Meaning(lines).revoked >= x.at
    BY <1>2, <2>1, <2>2 DEF Later
  <2> QED BY <1>2, <1>3, <1>4, <1>6, <2>3, KnowsIs
<1> QED BY <1>5, <1>6

\* What was about to be written is now in a line.
LEMMA WithinWritten ==
    ASSUME EvidenceAssumption, NEW lines \in Seq(Line), NEW index, NEW coming, IndexWithin(index, lines, coming),
           \A x \in coming : \E i \in DOMAIN lines : lines[i].type = x.type /\ lines[i].grant = x.grant
    PROVE  IndexWithin(index, lines, {})
<1>1. ASSUME NEW vs, NEW k, SlotWithin(k, NewestOf(lines, vs), coming, vs)
      PROVE SlotWithin(k, NewestOf(lines, vs), {}, vs)
  <2>1. ASSUME NEW x \in coming, x.type = "grant", x.grant = k, k.version \in vs PROVE Covers(NewestOf(lines, vs), k)
    <3>1. PICK i \in DOMAIN lines : lines[i].type = x.type /\ lines[i].grant = x.grant
      OBVIOUS
    <3>2. i \in GrantsOf(lines, vs) /\ lines[i].grant = k
      BY <2>1, <3>1 DEF GrantsOf
    <3> QED BY <3>2, NewestCovers
  <2> QED BY <1>1, <2>1 DEF SlotWithin
<1> QED BY <1>1 DEF IndexWithin

\* A revocation that is folded in.
LEMMA AddIs ==
    ASSUME EvidenceAssumption, NEW lines \in Seq(Line), NEW index \in Index, NEW op \in Written,
       NEW coming, op \in coming,
           NEW next, next = AddRevocation(index, op.at)
    PROVE  /\ next \in Index
           /\ \A base \in Seq(Line) : IndexAhead(index, base, coming) => IndexAhead(next, base, coming)
           /\ IndexWithin(index, lines, {}) /\ op.at <= Meaning(lines).revoked => IndexWithin(next, lines, {})
<1>1. op.at \in Nat
  BY WrittenIs
<1>2. next = [index EXCEPT !.revoked = IF op.at > @ THEN op.at ELSE @]
  BY DEF AddRevocation
<1>3. /\ next \in Index /\ next.grants = index.grants /\ next.latest = index.latest
      /\ next.revoked = IF op.at > index.revoked THEN op.at ELSE index.revoked
  BY <1>1, <1>2 DEF Index
<1>4. index.revoked \in Nat
  BY DEF Index
<1>5. ASSUME NEW base \in Seq(Line), IndexAhead(index, base, coming) PROVE IndexAhead(next, base, coming)
  <2>1. Meaning(base).revoked \in Nat
    BY RevokedIs
  <2> QED BY <1>1, <1>3, <1>4, <1>5, <2>1 DEF IndexAhead
<1>6. IndexWithin(index, lines, {}) /\ op.at <= Meaning(lines).revoked => IndexWithin(next, lines, {})
  BY <1>3 DEF IndexWithin
<1> QED BY <1>3, <1>5, <1>6

\* A step that changes the file: the stores whose records it may change.
LEMMA FileBecomes ==
    ASSUME EvidenceAssumption, EvidenceInv, file' \in Seq(Line), SaysAll(file, file'),
           store' \in [Store -> StoreRecord],
           \A q \in Store : \/ Truthful(store'[q], file')
                            \/ Alike(store[q], store'[q]) /\ (~store'[q].moved => Extends(file, file')),
           acked' \subseteq Written, \A r \in acked' : r \in acked \/ Knows(Meaning(file'), r)
    PROVE  EvidenceInv'
<1>1. /\ file \in Seq(Line) /\ acked \subseteq Written /\ store \in [Store -> StoreRecord]
      /\ \A r \in acked : Knows(Meaning(file), r)
      /\ \A q \in Store : Truthful(store[q], file)
  BY DEF EvidenceInv
<1>2. PICK more \in Seq(Line) : more = file'
  OBVIOUS
<1>3. ASSUME NEW q \in Store PROVE Truthful(store'[q], more)
  <2>1. store[q] \in StoreRecord /\ store'[q] \in StoreRecord /\ Truthful(store[q], file)
    BY <1>1
  <2>2. CASE Truthful(store'[q], more)
    BY <2>2
  <2>3. CASE Alike(store[q], store'[q]) /\ (~store'[q].moved => Extends(file, more))
    BY <1>1, <1>2, <2>1, <2>3, StoreKept
  <2> QED BY <1>2, <2>2, <2>3
<1>4. \A r \in acked' : Knows(Meaning(more), r)
  BY <1>1, <1>2, KnowsSaysAll
<1> QED BY <1>2, <1>3, <1>4 DEF EvidenceInv

\* A write ends: the line is in the file, and what it says is acknowledged.
LEMMA FinishWriteSound ==
    ASSUME EvidenceAssumption, EvidenceInv, NEW p \in Store, left \in BOOLEAN, FinishWrite(p)
    PROVE  EvidenceInv'
<1>0. /\ store[p].at = "writing" /\ file' = Append(file, [store[p].op EXCEPT !.bad = left])
      /\ acked' = acked \cup {store[p].op}
      /\ store' = [q \in Store |-> [[store EXCEPT ![p] =
                     [OpEnds(store[p]) EXCEPT
                        !.index = IF store[p].op.type = "revocation" THEN AddRevocation(@, store[p].op.at) ELSE @]][q]
                     EXCEPT !.stale = TRUE]]
  BY DEF FinishWrite, Touched, AfterAppend
<1>1. /\ file \in Seq(Line) /\ Len(file) \in Nat /\ store[p] \in StoreRecord /\ Truthful(store[p], file)
      /\ acked \subseteq Written /\ \A r \in acked : Knows(Meaning(file), r)
  BY InvOf
<1>2. PICK s \in StoreRecord : s = store[p]
  BY <1>1
<1>3. s.op \in Written /\ s.index \in Index /\ s.offset \in Nat /\ s.at = "writing" /\ Truthful(s, file)
  BY <1>0, <1>1, <1>2 DEF Truthful, StoreRecord
<1>4. PICK line \in Line : line = [s.op EXCEPT !.bad = left] /\ Plain(line) = s.op
  BY <1>3, WrittenIs
<1>5. PICK n \in Nat : n = Len(file)
  BY <1>1
<1>6. PICK more : more = Append(file, line)
  OBVIOUS
<1>7. /\ more \in Seq(Line) /\ file' = more /\ Len(more) = n + 1 /\ DOMAIN more = 1 .. n + 1
      /\ more[n + 1] = line /\ \A i \in 1 .. n : more[i] = file[i]
  BY <1>0, <1>1, <1>2, <1>4, <1>5, <1>6
<1>8. Extends(file, more) /\ SaysAll(file, more)
  <2>1. Extends(file, more)
    BY <1>1, <1>5, <1>7 DEF Extends
  <2> QED BY <1>1, <1>7, <2>1, ExtendsSaysAll
<1>9. n + 1 \in DOMAIN more /\ more[n + 1].type = s.op.type /\ more[n + 1].grant = s.op.grant /\ more[n + 1].at = s.op.at
  BY <1>4, <1>7, LineIs
<1>10. Knows(Meaning(more), s.op)
  BY <1>4, <1>7, <1>9, LineKnown
<1> DEFINE next == IF s.op.type = "revocation" THEN AddRevocation(s.index, s.op.at) ELSE s.index
           coming == Between(more, s.offset, n + 1)
<1>11. IndexWithin(s.index, more, {})
  <2>1. IndexWithin(s.index, more, Awaited(s))
    BY <1>1, <1>3, <1>7, <1>8, WithinGrows DEF Truthful
  <2>2. \A x \in Awaited(s) : \E i \in DOMAIN more : more[i].type = x.type /\ more[i].grant = x.grant
    BY <1>9 DEF Awaited
  <2> QED BY <1>7, <2>1, <2>2, WithinWritten
<1>12. next \in Index /\ IndexWithin(next, more, {})
  <2>1. CASE s.op.type = "revocation"
    <3>1. s.op.at <= Meaning(more).revoked
      <4>1. Meaning(more).revoked >= s.op.at
        BY <1>10, <2>1 DEF Knows
      <4> QED BY <1>3, <1>7, <4>1, WrittenIs, RevokedIs
    <3>2. /\ AddRevocation(s.index, s.op.at) \in Index
          /\ IndexWithin(s.index, more, {}) /\ s.op.at <= Meaning(more).revoked
                => IndexWithin(AddRevocation(s.index, s.op.at), more, {})
      <4>1. PICK k : k = AddRevocation(s.index, s.op.at)
        OBVIOUS
      <4>2. s.op \in {s.op}
        OBVIOUS
      <4> QED BY <1>3, <1>7, <4>1, <4>2, AddIs
    <3> QED BY <1>11, <2>1, <3>1, <3>2
  <2>2. CASE s.op.type # "revocation"
    BY <1>3, <1>11, <2>2
  <2> QED BY <2>1, <2>2
<1>13. ASSUME ~s.moved PROVE s.offset <= n /\ IndexAhead(next, SubSeq(more, 1, s.offset), coming)
  <2>1. /\ s.offset <= n
        /\ IndexAhead(s.index, SubSeq(file, 1, s.offset), Between(file, s.offset, n) \cup Awaited(s))
    BY <1>3, <1>5, <1>13 DEF Truthful
  <2>2. Between(file, s.offset, n) \cup {s.op} \subseteq coming
    <3>1. Between(more, s.offset, n) = Between(file, s.offset, n)
      BY <1>1, <1>5, <1>7, <1>8, <1>3, ExtendsPart
    <3>2. n + 1 \in s.offset + 1 .. n + 1 /\ \A i \in s.offset + 1 .. n : i \in s.offset + 1 .. n + 1
      BY <1>3, <2>1
    <3>3. Plain(more[n + 1]) = s.op
      BY <1>4, <1>7
    <3> QED BY <3>1, <3>2, <3>3 DEF Between
  <2>3. Between(file, s.offset, n) \cup Awaited(s) \subseteq coming /\ s.op \in coming
    BY <2>2 DEF Awaited
  <2>4. /\ Meaning(SubSeq(more, 1, s.offset)) = Meaning(SubSeq(file, 1, s.offset))
        /\ \A vs : NewestOf(SubSeq(more, 1, s.offset), vs) = NewestOf(SubSeq(file, 1, s.offset), vs)
    BY <1>1, <1>3, <1>5, <1>7, <1>8, <2>1, ExtendsPart
  <2> HIDE DEF coming
  <2>5. IndexAhead(s.index, SubSeq(more, 1, s.offset), coming)
    <3>1. PICK part, whole, some : /\ part = SubSeq(file, 1, s.offset) /\ whole = SubSeq(more, 1, s.offset)
                                   /\ some = Between(file, s.offset, n) \cup Awaited(s)
      OBVIOUS
    <3>2. /\ IndexAhead(s.index, part, some) /\ some \subseteq coming /\ Meaning(whole) = Meaning(part)
          /\ \A vs : NewestOf(whole, vs) = NewestOf(part, vs)
      BY <2>1, <2>3, <2>4, <3>1, Zenon
    <3>3. IndexAhead(s.index, whole, coming)
      BY <3>2, AheadGrows
    <3> QED BY <3>1, <3>3
  <2>6. SubSeq(more, 1, s.offset) \in Seq(Line)
    BY <1>3, <1>7, <2>1
  <2>7. CASE s.op.type = "revocation"
    <3>1. PICK k : k = AddRevocation(s.index, s.op.at)
      OBVIOUS
    <3>2. \A base \in Seq(Line) : IndexAhead(s.index, base, coming) => IndexAhead(k, base, coming)
      BY <1>3, <1>7, <2>3, <3>1, AddIs
    <3>3. IndexAhead(k, SubSeq(more, 1, s.offset), coming)
      BY <2>5, <2>6, <3>2, Zenon
    <3> QED BY <2>1, <2>7, <3>1, <3>3
  <2>8. CASE s.op.type # "revocation"
    BY <2>1, <2>5, <2>8
  <2> QED BY <2>7, <2>8
<1>14. PICK k \in Index : k = next
  BY <1>12
<1>15. PICK t : t = [[OpEnds(s) EXCEPT !.index = k] EXCEPT !.stale = TRUE]
  OBVIOUS
<1>16. t \in StoreRecord /\ t.at = "idle" /\ t.index = k /\ t.offset = s.offset /\ t.moved = s.moved
  <2>1. PICK d \in StoreRecord : d = OpEnds(s) /\ d.at = "idle" /\ d.offset = s.offset /\ d.moved = s.moved
    BY OpEndsIs
  <2> QED BY <1>15, <2>1 DEF StoreRecord
<1>17. store'[p] = t
  <2>1. /\ [store EXCEPT ![p] = [OpEnds(store[p]) EXCEPT
                        !.index = IF store[p].op.type = "revocation" THEN AddRevocation(@, store[p].op.at) ELSE @]][p]
             = [OpEnds(s) EXCEPT !.index = IF s.op.type = "revocation" THEN AddRevocation(@, s.op.at) ELSE @]
    BY <1>2 DEF EvidenceInv
  <2>2. [OpEnds(s) EXCEPT !.index = IF s.op.type = "revocation" THEN AddRevocation(@, s.op.at) ELSE @]
          = [OpEnds(s) EXCEPT !.index = k]
    <3>1. PICK d : d = OpEnds(s)
      OBVIOUS
    <3>2. d.index = s.index
      BY <3>1, OpEndsIs
    <3>3. [d EXCEPT !.index = IF s.op.type = "revocation" THEN AddRevocation(@, s.op.at) ELSE @]
            = [d EXCEPT !.index = IF s.op.type = "revocation" THEN AddRevocation(d.index, s.op.at) ELSE d.index]
      OBVIOUS
    <3> QED BY <1>14, <3>1, <3>2, <3>3
  <2> QED BY <1>0, <1>15, <2>1, <2>2
<1>18. Truthful(t, more)
  <2>1. Awaited(t) = {}
    BY <1>16 DEF Awaited
  <2>2. ASSUME ~t.moved
        PROVE  t.offset <= Len(more) /\ IndexAhead(t.index, SubSeq(more, 1, t.offset), Between(more, t.offset, Len(more)) \cup Awaited(t))
    <3>1. s.offset <= n /\ IndexAhead(k, SubSeq(more, 1, s.offset), Between(more, s.offset, n + 1))
      BY <1>13, <1>14, <1>16, <2>2
    <3>2. s.offset <= n + 1
      BY <1>3, <3>1
    <3> QED BY <1>7, <1>16, <2>1, <3>1, <3>2
  <2> QED BY <1>12, <1>14, <1>16, <2>1, <2>2 DEF Truthful
<1>19. \A q \in Store : q # p => store'[q] \in StoreRecord /\ Alike(store[q], store'[q])
  <2> TAKE q \in Store
  <2> HAVE q # p
  <2>1. store \in [Store -> StoreRecord]
    BY DEF EvidenceInv
  <2>2. store'[q] = [store[q] EXCEPT !.stale = TRUE]
    BY <1>0, <2>1
  <2>3. store[q] \in StoreRecord
    BY <2>1
  <2> QED BY <2>2, <2>3 DEF Alike, StoreRecord
<1>20. store' \in [Store -> StoreRecord]
  <2>1. \A q \in Store : store'[q] \in StoreRecord
    BY <1>16, <1>17, <1>19
  <2>2. store' = [q \in Store |-> store'[q]]
    BY <1>0
  <2> QED BY <2>1, <2>2
<1> HIDE DEF next, coming
<1>21. \A q \in Store : \/ Truthful(store'[q], file')
                        \/ Alike(store[q], store'[q]) /\ (~store'[q].moved => Extends(file, file'))
  BY <1>7, <1>8, <1>17, <1>18, <1>19
<1>22. acked' \subseteq Written /\ \A r \in acked' : r \in acked \/ Knows(Meaning(file'), r)
  BY <1>0, <1>1, <1>2, <1>3, <1>7, <1>10
<1> QED BY <1>7, <1>8, <1>20, <1>21, <1>22, FileBecomes

\* A repair: the lines say what they said, and a store that knew the file may know it no longer.
LEMMA RepairSound ==
    ASSUME EvidenceAssumption, EvidenceInv, NEW inPlace \in BOOLEAN, Repair(inPlace)
    PROVE  EvidenceInv'
<1>1. /\ file' = [i \in DOMAIN file |-> [file[i] EXCEPT !.bad = FALSE]] /\ acked' = acked
      /\ store' = [p \in Store |-> [Touched(store)[p] EXCEPT !.moved = @ \/ ~inPlace]]
  BY DEF Repair
<1>2. /\ file \in Seq(Line) /\ acked \subseteq Written /\ store \in [Store -> StoreRecord]
  BY DEF EvidenceInv
<1>3. PICK n \in Nat : n = Len(file) /\ DOMAIN file = 1 .. n
  BY <1>2
<1>4. ASSUME NEW i \in 1 .. n
      PROVE  [file[i] EXCEPT !.bad = FALSE] \in Line /\ Plain([file[i] EXCEPT !.bad = FALSE]) = Plain(file[i])
  <2>1. PICK x : x = file[i] /\ x \in Line
    BY <1>2, <1>3
  <2>2. PICK w \in Written, b \in BOOLEAN : x = [w EXCEPT !.bad = b]
    BY <2>1 DEF Line
  <2>3. Plain(x) = w /\ [w EXCEPT !.bad = FALSE] \in Line /\ Plain([w EXCEPT !.bad = FALSE]) = w
    BY <2>2, WrittenIs
  <2>4. [x EXCEPT !.bad = FALSE] = [w EXCEPT !.bad = FALSE]
    BY <2>2, WrittenIs DEF LineRecord
  <2> QED BY <2>1, <2>3, <2>4
<1>5. PICK more : more = [i \in 1 .. n |-> [file[i] EXCEPT !.bad = FALSE]]
  OBVIOUS
<1>6. /\ more \in Seq(Line) /\ Len(more) = n /\ \A i \in 1 .. n : Plain(more[i]) = Plain(file[i])
  <2>1. more \in [1 .. n -> Line] /\ \A i \in 1 .. n : more[i] = [file[i] EXCEPT !.bad = FALSE]
    BY <1>4, <1>5
  <2>2. more \in Seq(Line) /\ Len(more) = n
    BY <2>1
  <2> QED BY <1>4, <2>1, <2>2
<1>7. file' = more
  BY <1>1, <1>3, <1>5
<1>8. Extends(file, more)
  BY <1>3, <1>6 DEF Extends
<1>9. SaysAll(file, more)
  BY <1>2, <1>6, <1>8, ExtendsSaysAll
<1>10. ASSUME NEW q \in Store PROVE store'[q] \in StoreRecord /\ Alike(store[q], store'[q])
  <2>1. PICK s \in StoreRecord : s = store[q]
    BY <1>2
  <2>2. PICK t : t = [[s EXCEPT !.stale = TRUE] EXCEPT !.moved = @ \/ ~inPlace]
    OBVIOUS
  <2>3. store'[q] = t
    BY <1>1, <2>1, <2>2 DEF Touched
  <2>4. t \in StoreRecord /\ Alike(s, t)
    BY <2>2 DEF Alike, StoreRecord
  <2> QED BY <2>1, <2>3, <2>4
<1>11. store' \in [Store -> StoreRecord]
  <2>1. store' = [q \in Store |-> store'[q]] /\ \A q \in Store : store'[q] \in StoreRecord
    BY <1>1, <1>10
  <2> QED BY <2>1
<1> QED BY <1>1, <1>2, <1>6, <1>7, <1>8, <1>9, <1>10, <1>11, FileBecomes

\* A compaction: the new file says what the old one said, and no store knows it.
LEMMA CompactSound ==
    ASSUME EvidenceAssumption, EvidenceInv, NEW i \in DOMAIN file, Compact(i)
    PROVE  EvidenceInv'
<1>1. /\ file' = RemoveAt(file, i) /\ acked' = acked /\ Meaning(RemoveAt(file, i)) = Meaning(file)
      /\ store' = [p \in Store |-> [store[p] EXCEPT !.moved = TRUE, !.stale = TRUE]]
  BY DEF Compact
<1>2. /\ file \in Seq(Line) /\ acked \subseteq Written /\ store \in [Store -> StoreRecord]
  BY DEF EvidenceInv
<1>3. PICK more : more = RemoveAt(file, i)
  OBVIOUS
<1>4. more \in Seq(Line)
  BY <1>2, <1>3 DEF RemoveAt
<1>5. SaysAll(file, more)
  <2>1. Meaning(more) = Meaning(file)
    BY <1>1, <1>3
  <2>2. \A v \in Versions : NewestOf(more, {v}) = NewestOf(file, {v})
    BY <1>2, <1>4, <2>1, MeaningIs
  <2>3. NewestOf(more, Versions) = NewestOf(file, Versions)
    BY <1>2, <1>4, <2>1, MeaningIs
  <2>4. \A k \in Acceptances \cup {None} : Covers(k, k)
    BY DEF Covers, EvidenceAssumption
  <2>5. \A vs : NewestOf(file, vs) \in Acceptances \cup {None}
    BY <1>2, NewestCovers
  <2>6. Meaning(file).revoked \in Nat
    BY <1>2, RevokedIs
  <2> QED BY <2>1, <2>2, <2>3, <2>4, <2>5, <2>6 DEF SaysAll
<1>6. ASSUME NEW q \in Store PROVE store'[q] \in StoreRecord /\ Alike(store[q], store'[q]) /\ store'[q].moved
  <2>1. PICK s \in StoreRecord : s = store[q]
    BY <1>2
  <2>2. PICK t : t = [s EXCEPT !.moved = TRUE, !.stale = TRUE]
    OBVIOUS
  <2>3. store'[q] = t
    BY <1>1, <2>1, <2>2
  <2>4. t \in StoreRecord /\ Alike(s, t) /\ t.moved
    BY <2>2 DEF Alike, StoreRecord
  <2> QED BY <2>1, <2>3, <2>4
<1>7. store' \in [Store -> StoreRecord]
  <2>1. store' = [q \in Store |-> store'[q]] /\ \A q \in Store : store'[q] \in StoreRecord
    BY <1>1, <1>6
  <2> QED BY <2>1
<1> QED BY <1>1, <1>2, <1>3, <1>4, <1>5, <1>6, <1>7, FileBecomes

\* What a write leaves behind is part of a line or nothing.
LEMMA LeftTyped == ASSUME left \in BOOLEAN, [EvidenceNext]_evidenceVars PROVE left' \in BOOLEAN
BY DEF EvidenceNext, evidenceVars, Begin, Read, ReadBad, ReadFails, Answer, Proceed,
       StartWrite, FinishWrite, AppendFails, Crash, Repair, Compact

\* The invariant holds at first.
LEMMA EvidenceInvInit == EvidenceAssumption /\ EvidenceInit => EvidenceInv /\ left \in BOOLEAN
<1> SUFFICES ASSUME EvidenceAssumption, EvidenceInit PROVE EvidenceInv /\ left \in BOOLEAN
  OBVIOUS
<1>1. file = <<>> /\ left = FALSE /\ store = [p \in Store |-> Fresh] /\ acked = {}
  BY DEF EvidenceInit
<1>2. file \in Seq(Line)
  BY <1>1
<1>3. Fresh \in StoreRecord /\ Truthful(Fresh, file)
  BY <1>2, FreshIs
<1>4. store \in [Store -> StoreRecord] /\ \A p \in Store : Truthful(store[p], file)
  BY <1>1, <1>3
<1> QED BY <1>1, <1>2, <1>4 DEF EvidenceInv

\* Every step keeps it, by the actions one after another.
LEMMA EvidenceStep ==
    ASSUME EvidenceAssumption, EvidenceInv, left \in BOOLEAN, [EvidenceNext]_evidenceVars
    PROVE  EvidenceInv'
<1>1. ASSUME NEW p \in Store, NEW o \in Written \cup {Lookup}, Begin(p, o) PROVE EvidenceInv'
  BY <1>1, BeginSound
<1>2. ASSUME NEW p \in Store, Read(p) PROVE EvidenceInv'
  BY <1>2, ReadSound
<1>3. ASSUME NEW p \in Store, ReadBad(p) PROVE EvidenceInv'
  BY <1>3, ReadBadSound
<1>4. ASSUME NEW p \in Store, ReadFails(p) PROVE EvidenceInv'
  BY <1>4, ReadFailsSound
<1>5. ASSUME NEW p \in Store, Answer(p) PROVE EvidenceInv'
  BY <1>5, AnswerSound
<1>6. ASSUME NEW p \in Store, Proceed(p) PROVE EvidenceInv'
  BY <1>6, ProceedSound
<1>7. ASSUME NEW p \in Store, StartWrite(p) PROVE EvidenceInv'
  BY <1>7, StartWriteSound
<1>8. ASSUME NEW p \in Store, FinishWrite(p) PROVE EvidenceInv'
  BY <1>8, FinishWriteSound
<1>9. ASSUME NEW p \in Store, AppendFails(p) PROVE EvidenceInv'
  BY <1>9, AppendFailsSound
<1>10. ASSUME NEW p \in Store, Crash(p) PROVE EvidenceInv'
  BY <1>10, CrashSound
<1>11. ASSUME NEW inPlace \in BOOLEAN, Repair(inPlace) PROVE EvidenceInv'
  BY <1>11, RepairSound
<1>12. ASSUME NEW i \in DOMAIN file, Compact(i) PROVE EvidenceInv'
  BY <1>12, CompactSound
<1>13. CASE UNCHANGED evidenceVars
  BY <1>13 DEF evidenceVars, EvidenceInv
<1> QED BY <1>1, <1>2, <1>3, <1>4, <1>5, <1>6, <1>7, <1>8, <1>9, <1>10, <1>11, <1>12, <1>13, Zenon DEF EvidenceNext

\* A step that loads the file in a store does not write it.
LEMMA LoadsLeavesFile ==
    ASSUME EvidenceInv, [EvidenceNext]_evidenceVars, NEW p \in Store, Loads(p)
    PROVE  file' = file
<1>1. store \in [Store -> StoreRecord] /\ store[p].at # "loaded" /\ store'[p].at = "loaded"
  BY DEF EvidenceInv, Loads
<1>2. ASSUME NEW q \in Store, FinishWrite(q) PROVE FALSE
  <2>1. PICK t : t = [OpEnds(store[q]) EXCEPT
                !.index = IF store[q].op.type = "revocation" THEN AddRevocation(@, store[q].op.at) ELSE @]
    OBVIOUS
  <2>2. store' = [r \in Store |-> [[store EXCEPT ![q] = t][r] EXCEPT !.stale = TRUE]]
    BY <1>2, <2>1 DEF FinishWrite, Touched, AfterAppend
  <2>3. t.at = "idle" /\ DOMAIN t = DOMAIN OpEnds(store[q])
    <3>1. OpEnds(store[q]) \in StoreRecord /\ OpEnds(store[q]).at = "idle"
      BY <1>1, OpEndsIs
    <3> QED BY <2>1, <3>1 DEF StoreRecord
  <2>4. store'[p] = [[store EXCEPT ![q] = t][p] EXCEPT !.stale = TRUE]
    BY <2>2
  <2>5. [store EXCEPT ![q] = t][p] = IF p = q THEN t ELSE store[p]
    BY <1>1
  <2>6. store[p] \in StoreRecord
    BY <1>1
  <2>7. CASE p = q
    BY <1>1, <2>3, <2>4, <2>5, <2>7
  <2>8. CASE p # q
    <3>1. store'[p] = [store[p] EXCEPT !.stale = TRUE]
      BY <2>4, <2>5, <2>8
    <3> QED BY <1>1, <2>6, <3>1 DEF StoreRecord
  <2> QED BY <2>7, <2>8
<1>3. ASSUME NEW inPlace \in BOOLEAN, Repair(inPlace) PROVE FALSE
  <2>1. store'[p] = [[store[p] EXCEPT !.stale = TRUE] EXCEPT !.moved = @ \/ ~inPlace]
    BY <1>1, <1>3 DEF Repair, Touched
  <2>2. store[p] \in StoreRecord
    BY <1>1
  <2> QED BY <1>1, <2>1, <2>2 DEF StoreRecord
<1>4. ASSUME NEW i \in DOMAIN file, Compact(i) PROVE FALSE
  <2>1. store'[p] = [store[p] EXCEPT !.moved = TRUE, !.stale = TRUE]
    BY <1>1, <1>4 DEF Compact
  <2>2. store[p] \in StoreRecord
    BY <1>1
  <2> QED BY <1>1, <2>1, <2>2 DEF StoreRecord
<1> QED BY <1>2, <1>3, <1>4 DEF EvidenceNext, evidenceVars, Begin, Read, ReadBad, ReadFails, Answer, Proceed,
           StartWrite, AppendFails, Crash

\* What a store knows of the file is what the file says as far as it has read
\* it, and what it is about to write, in every execution.
THEOREM EvidenceIsSound == EvidenceSpec => []EvidenceInv
<1>1. EvidenceInit => EvidenceInv /\ left \in BOOLEAN
  BY EvidenceAssumption, EvidenceInvInit
<1>2. (EvidenceInv /\ left \in BOOLEAN) /\ [EvidenceNext]_evidenceVars => (EvidenceInv /\ left \in BOOLEAN)'
  BY EvidenceAssumption, EvidenceStep, LeftTyped
<1> QED BY <1>1, <1>2, PTL DEF EvidenceSpec

\* A store that has loaded the file it called stat on knows of all that any
\* store had acknowledged before.
THEOREM AcknowledgedIsSeen == EvidenceSpec => []AcknowledgedSeen
<1>1. EvidenceInv => AcknowledgedSeen
  BY DEF EvidenceInv, Truthful, AcknowledgedSeen
<1> QED BY <1>1, EvidenceIsSound, PTL

\* A store that loads the file has in its index what the lines it has consumed
\* say, in every step.
THEOREM IndexIsTheFile == EvidenceSpec => IndexIsFile
<1>1. EvidenceInv /\ EvidenceInv' /\ [EvidenceNext]_evidenceVars =>
        [\A p \in Store : Loads(p) => store'[p].index = Meaning(SubSeq(file, 1, store'[p].offset))]_evidenceVars
  <2> SUFFICES ASSUME EvidenceInv, EvidenceInv', [EvidenceNext]_evidenceVars, NEW p \in Store, Loads(p)
               PROVE  store'[p].index = Meaning(SubSeq(file, 1, store'[p].offset))
    OBVIOUS
  <2>1. store'[p].at = "loaded" /\ ~store'[p].moved
    BY DEF Loads
  <2>2. store'[p].index = Meaning(SubSeq(file', 1, store'[p].offset))
    BY <2>1 DEF EvidenceInv, Truthful
  <2>3. file' = file
    BY LoadsLeavesFile
  <2> QED BY <2>2, <2>3
<1> QED BY <1>1, EvidenceIsSound, PTL DEF EvidenceSpec, IndexIsFile
================================================================================
