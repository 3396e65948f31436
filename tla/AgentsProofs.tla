----------------------------- MODULE AgentsProofs -----------------------------
(***************************************************************************)
(* Theorems about the repository's agents, for every number of issues,     *)
(* heads, replies and crashes: an issue is locked only by work or by a run *)
(* that died (IssueAgents), and what is merged was reviewed as it is and   *)
(* approved (MergeAgents).                                                 *)
(***************************************************************************)
EXTENDS IssueAgents, MergeAgents, FiniteSetTheorems, WellFoundedInduction, TLAPS

-----------------------------------------------------------------------------
(* A pull request *)

Decision == [head : Commit, files : Commit, verdict : Opinion]
PullRecord == [head : Commit, draft : BOOLEAN, lane : BOOLEAN, merged : Commit \cup {0}]

\* A reviewer reads the files of the head it listed, or of one pushed since.
ReviewerRight ==
    \/ reviewer = Idle
    \/ reviewer \in [step : {"mark", "lease", "files"}, head : Commit] /\ reviewer.head <= pull.head
    \/ /\ reviewer \in [step : {"review"}, head : Commit, files : Commit]
       /\ reviewer.head <= reviewer.files /\ reviewer.files <= pull.head
    \/ reviewer \in [step : {"done", "unmark"}, verdict : Opinion]

\* So does every review there is.
DecisionsRight ==
    /\ decisions \in Seq(Decision)
    /\ \A n \in 1..Len(decisions) :
          decisions[n].head <= decisions[n].files /\ decisions[n].files <= pull.head

Approved(h) ==
    \E n \in 1..Len(decisions) : decisions[n].head = h /\ decisions[n].verdict = "approved"

\* What the executor is about to merge was approved under its name and is green.
ExecutorRight ==
    \/ executor = Idle
    \/ executor \in [step : {"plan"}, expected : Commit]
    \/ executor = [step |-> "unlabel"]
    \/ /\ executor \in [step : {"merge"}, expected : Commit]
       /\ Approved(executor.expected) /\ ci[executor.expected] = "green"

PullTyped ==
    /\ pull \in PullRecord /\ opinion \in [Commit -> Opinion]
    /\ ci \in [Commit -> {"running", "green", "red"}]

MergeInv == PullTyped /\ ReviewerRight /\ DecisionsRight /\ ExecutorRight /\ MergedWasApproved

\* A set of numbers up to some bound has a greatest one.
LEMMA MaxIsGreatest ==
    ASSUME NEW S, NEW n \in Nat, S \subseteq 0 .. n, S # {}
    PROVE  Max(S) \in S /\ \A y \in S : Max(S) >= y
<1> DEFINE Above(x) == {y \in S : y > x}
           T == {Above(x) : x \in S}
<1>0. \A x \in S : x \in Int
  OBVIOUS
<1>1. IsFiniteSet(S)
  <2>1. IsFiniteSet(0 .. n)
    BY FS_Interval
  <2> QED BY <2>1, FS_Subset
<1>2. IsWellFoundedOn(StrictSubsetOrdering(S), SUBSET S)
  BY <1>1, FS_FiniteSubsetsOfFinite, FS_StrictSubsetOrderingWellFounded
<1>3. T \subseteq SUBSET S /\ T # {}
  OBVIOUS
<1>4. PICK t \in T : \A u \in T : ~(<<u, t>> \in StrictSubsetOrdering(S))
  <2> HIDE DEF T
  <2> QED BY <1>2, <1>3, WFMin
<1>5. PICK m \in S : t = Above(m)
  OBVIOUS
<1>6. ASSUME NEW y \in S, y > m PROVE FALSE
  <2>0. m \in Int /\ y \in Int /\ (\A z \in S : z > y => z > m) /\ ~(y > y)
    BY <1>0, <1>6
  <2>1. Above(y) \subseteq Above(m) /\ y \in Above(m) /\ y \notin Above(y)
    BY <2>0, <1>6, Zenon
  <2>2. <<Above(y), Above(m)>> \in StrictSubsetOrdering(S)
    BY <2>1 DEF StrictSubsetOrdering
  <2> QED BY <1>4, <1>5, <2>2
<1>7. \A y \in S : m >= y
  BY <1>0, <1>6
<1> QED BY <1>7 DEF Max

LEMMA LatestApproved ==
    ASSUME decisions \in Seq(Decision), NEW h, Latest(h) = "approved"
    PROVE  Approved(h)
<1> DEFINE own == {n \in 1..Len(decisions) : decisions[n].head = h}
<1>1. own # {} /\ decisions[Max(own)].verdict = "approved"
  BY DEF Latest
<1>2. Len(decisions) \in Nat /\ own \subseteq 0..Len(decisions)
  OBVIOUS
<1>3. Max(own) \in own
  <2> HIDE DEF own
  <2> QED
    BY <1>1, <1>2, MaxIsGreatest
<1> QED
  BY <1>1, <1>3 DEF Approved

\* Reviews that were written stay.
LEMMA ApprovedStays ==
    ASSUME decisions \in Seq(Decision), NEW d \in Decision, decisions' = Append(decisions, d),
           NEW h, Approved(h)
    PROVE  Approved(h)'
<1>1. PICK n \in 1..Len(decisions) : decisions[n].head = h /\ decisions[n].verdict = "approved"
  BY DEF Approved
<1>2. n \in 1..Len(decisions') /\ decisions'[n] = decisions[n]
  OBVIOUS
<1> QED
  BY <1>1, <1>2 DEF Approved

\* The reviewer works.
LEMMA ReviewerKeeps ==
    ASSUME MergeInv, ReviewerRun
    PROVE  MergeInv'
<1> USE MergeAgentsAssumption
<1>0. /\ PullTyped /\ ReviewerRight /\ DecisionsRight /\ ExecutorRight /\ MergedWasApproved
      /\ pull.head \in Commit /\ pull.head \in Int /\ \A h \in Commit : h \in Int
  BY DEF MergeInv, PullTyped, PullRecord, Commit
<1>1. UNCHANGED <<pull, opinion, ci, executor>>
  BY DEF ReviewerRun, ListForReview, MarkInProgress, LeaseHead, ReadFiles, Review, MarkDone, Unmark
<1>2. PullTyped'
  BY <1>0, <1>1 DEF PullTyped
<1>3. CASE Review
  <2>1. /\ reviewer \in [step : {"review"}, head : Commit, files : Commit]
        /\ reviewer.head <= reviewer.files /\ reviewer.files <= pull.head
    BY <1>0, <1>3 DEF Review, ReviewerRight, Idle
  <2>2. PICK d : d = [head |-> reviewer.head, files |-> reviewer.files,
                      verdict |-> opinion[reviewer.files]]
    OBVIOUS
  <2>3. /\ d \in Decision /\ d.head <= d.files /\ d.files <= pull.head
        /\ decisions' = Append(decisions, d) /\ reviewer' = [step |-> "done", verdict |-> d.verdict]
    BY <1>0, <1>3, <2>1, <2>2 DEF Review, Decision, PullTyped
  <2>4. /\ decisions \in Seq(Decision) /\ decisions' \in Seq(Decision)
        /\ \A n \in 1..Len(decisions') :
              (n \in 1..Len(decisions) /\ decisions'[n] = decisions[n]) \/ decisions'[n] = d
        /\ \A n \in 1..Len(decisions) : n \in 1..Len(decisions') /\ decisions'[n] = decisions[n]
    BY <1>0, <2>3 DEF DecisionsRight
  <2>5. DecisionsRight'
    BY <1>0, <1>1, <2>3, <2>4 DEF DecisionsRight
  <2>6. ReviewerRight'
    BY <2>3 DEF ReviewerRight, Decision
  <2>7. \A h : Approved(h) => Approved(h)'
    BY <2>4 DEF Approved
  <2>8. ExecutorRight'
    BY <1>0, <1>1, <2>7 DEF ExecutorRight
  <2>9. MergedWasApproved'
    BY <1>0, <1>1, <2>4 DEF MergedWasApproved
  <2> QED
    BY <1>2, <2>5, <2>6, <2>8, <2>9 DEF MergeInv
<1>4. CASE ~Review
  <2>1. decisions' = decisions
    BY <1>4 DEF ReviewerRun, ListForReview, MarkInProgress, LeaseHead, ReadFiles, MarkDone, Unmark
  <2>2. ReviewerRight'
    <3>1. CASE ListForReview
      BY <1>0, <1>1, <3>1 DEF ListForReview, ReviewerRight
    <3>2. CASE MarkInProgress \/ LeaseHead
      <4>1. /\ reviewer \in [step : {"mark", "lease", "files"}, head : Commit]
            /\ reviewer.head <= pull.head
        BY <1>0, <3>2 DEF MarkInProgress, LeaseHead, ReviewerRight, Idle
      <4>2. PICK x \in {"lease", "files"} : reviewer' = [reviewer EXCEPT !.step = x]
        BY <3>2 DEF MarkInProgress, LeaseHead
      <4> QED
        BY <1>1, <4>1, <4>2 DEF ReviewerRight
    <3>3. CASE ReadFiles
      <4>1. /\ reviewer \in [step : {"mark", "lease", "files"}, head : Commit]
            /\ reviewer.head <= pull.head
        BY <1>0, <3>3 DEF ReadFiles, ReviewerRight, Idle
      <4> QED
        BY <1>0, <1>1, <3>3, <4>1 DEF ReadFiles, ReviewerRight
    <3>4. CASE MarkDone \/ Unmark
      <4>1. reviewer \in [step : {"done", "unmark"}, verdict : Opinion]
        BY <1>0, <3>4 DEF MarkDone, Unmark, ReviewerRight, Idle
      <4>2. reviewer' \in {[reviewer EXCEPT !.step = "unmark"], Idle}
        BY <3>4 DEF MarkDone, Unmark
      <4> QED
        BY <4>1, <4>2 DEF ReviewerRight
    <3> QED
      BY <1>4, <3>1, <3>2, <3>3, <3>4 DEF ReviewerRun
  <2>3. DecisionsRight' /\ ExecutorRight' /\ MergedWasApproved'
    BY <1>0, <1>1, <2>1 DEF DecisionsRight, ExecutorRight, MergedWasApproved, Approved
  <2> QED
    BY <1>2, <2>2, <2>3 DEF MergeInv
<1> QED
  BY <1>3, <1>4

\* The executor looks again, and merges the head it named.
LEMMA ExecutorKeeps ==
    ASSUME MergeInv, ExecutorRun
    PROVE  MergeInv'
<1> USE MergeAgentsAssumption
<1>0. /\ PullTyped /\ ReviewerRight /\ DecisionsRight /\ ExecutorRight /\ MergedWasApproved
      /\ pull.head \in Commit /\ pull.head \in Int /\ \A h \in Commit : h \in Int
  BY DEF MergeInv, PullTyped, PullRecord, Commit
<1>1. UNCHANGED <<opinion, ci, decisions, reviewer>>
  BY DEF ExecutorRun, ListCandidate, PlanMerge, MergePull, UnlabelReady
<1>2. CASE pull' = pull
  <2>1. ExecutorRight'
    <3>1. CASE ListCandidate
      BY <1>0, <3>1 DEF ListCandidate, ExecutorRight
    <3>2. CASE PlanMerge
      <4>1. CASE executor' = [step |-> "merge", expected |-> pull.head]
        <5>1. GatePasses(Seen)
          BY <3>2, <4>1 DEF PlanMerge, Idle
        <5>2. Latest(pull.head) = "approved" /\ ci[pull.head] = "green"
          BY <5>1 DEF GatePasses, Seen
        <5>3. Approved(pull.head)
          BY <1>0, <5>2, LatestApproved DEF DecisionsRight
        <5> QED
          BY <1>0, <1>1, <4>1, <5>2, <5>3 DEF ExecutorRight, Approved
      <4>2. CASE executor' \in {[step |-> "unlabel"], Idle}
        BY <4>2 DEF ExecutorRight
      <4> QED
        BY <3>2, <4>1, <4>2 DEF PlanMerge
    <3>3. CASE MergePull \/ UnlabelReady
      BY <3>3 DEF MergePull, UnlabelReady, ExecutorRight
    <3> QED
      BY <3>1, <3>2, <3>3 DEF ExecutorRun
  <2> QED
    BY <1>0, <1>1, <1>2, <2>1
       DEF MergeInv, PullTyped, ReviewerRight, DecisionsRight, MergedWasApproved
<1>3. CASE pull' # pull
  <2>1. /\ executor.step = "merge" /\ executor.expected = pull.head
        /\ pull' = [pull EXCEPT !.merged = pull.head] /\ executor' = [step |-> "unlabel"]
    BY <1>3 DEF ExecutorRun, ListCandidate, PlanMerge, MergePull, UnlabelReady
  <2>2. Approved(pull.head) /\ ci[pull.head] = "green"
    BY <1>0, <2>1 DEF ExecutorRight, Idle
  <2>3. pull' \in PullRecord /\ pull'.head = pull.head /\ pull'.merged = pull.head
    BY <1>0, <2>1 DEF PullTyped, PullRecord
  <2>4. PICK n \in 1..Len(decisions) :
          decisions[n].head = pull.head /\ decisions[n].verdict = "approved"
    BY <2>2 DEF Approved
  <2>5. /\ decisions[n] \in Decision /\ decisions[n].head <= decisions[n].files
        /\ decisions[n].files <= pull.head
    BY <1>0 DEF DecisionsRight
  <2>6. decisions[n].files = pull.head
    BY <1>0, <2>4, <2>5 DEF Decision
  <2>7. decisions[n] = [head |-> pull.head, files |-> pull.head, verdict |-> "approved"]
    BY <2>4, <2>5, <2>6 DEF Decision
  <2>8. MergedWasApproved'
    BY <1>1, <2>2, <2>3, <2>7 DEF MergedWasApproved
  <2>9. PullTyped' /\ ReviewerRight' /\ DecisionsRight' /\ ExecutorRight'
    BY <1>0, <1>1, <2>1, <2>3 DEF PullTyped, ReviewerRight, DecisionsRight, ExecutorRight
  <2> QED
    BY <2>8, <2>9 DEF MergeInv
<1> QED
  BY <1>2, <1>3

\* Pushes only go on; checks that are green stay so; nothing else is read later.
LEMMA OthersKeep ==
    ASSUME ~MayReturn, MergeInv,
           MergerRun \/ Push \/ Checked \/ Discuss \/ HumanSteps \/ TimePasses \/ RunDies
    PROVE  MergeInv'
<1> USE MergeAgentsAssumption
<1>0. /\ PullTyped /\ ReviewerRight /\ DecisionsRight /\ ExecutorRight /\ MergedWasApproved
      /\ pull.head \in Commit /\ pull.head \in Int /\ \A h \in Commit : h \in Int
  BY DEF MergeInv, PullTyped, PullRecord, Commit
<1>1. /\ UNCHANGED <<opinion, decisions>>
      /\ reviewer' \in {reviewer, Idle} /\ executor' \in {executor, Idle}
  BY DEF MergerRun, ListForMerger, EvaluateGate, SetReady, Push, Checked, Discuss, HumanSteps,
         TimePasses, RunDies
<1>2. pull' \in PullRecord /\ pull.head <= pull'.head /\ pull'.merged = pull.merged
  <2>1. CASE Push
    <3>1. PICK h \in Commit : h = pull.head + 1 /\ pull' = [pull EXCEPT !.head = h]
      BY <2>1 DEF Push
    <3> QED
      BY <1>0, <3>1 DEF PullTyped, PullRecord
  <2>2. CASE HumanSteps
    <3>1. pull' = pull \/ pull' = [pull EXCEPT !.draft = ~@]
      BY <2>2, Zenon DEF HumanSteps
    <3>2. CASE pull' = pull
      BY <1>0, <3>2 DEF PullTyped
    <3>3. CASE pull' = [pull EXCEPT !.draft = ~@]
      <4>1. PICK b \in BOOLEAN : b = ~pull.draft
        OBVIOUS
      <4>2. pull' = [pull EXCEPT !.draft = b]
        BY <3>3, <4>1
      <4> QED
        BY <1>0, <4>2 DEF PullTyped, PullRecord
    <3> QED
      BY <3>1, <3>2, <3>3
  <2>3. CASE pull' = pull
    BY <1>0, <2>3 DEF PullTyped
  <2> QED
    BY <2>1, <2>2, <2>3
       DEF MergerRun, ListForMerger, EvaluateGate, SetReady, Checked, Discuss, TimePasses, RunDies
<1>3. /\ ci' \in [Commit -> {"running", "green", "red"}]
      /\ \A h \in Commit : ci[h] = "green" => ci'[h] = "green"
  <2>1. CASE Checked
    BY <1>0, <2>1 DEF Checked, PullTyped
  <2>2. CASE ci' = ci
    BY <1>0, <2>2 DEF PullTyped
  <2> QED
    BY <2>1, <2>2
       DEF MergerRun, ListForMerger, EvaluateGate, SetReady, Push, Discuss, HumanSteps, TimePasses, RunDies
<1>4. PullTyped'
  BY <1>0, <1>1, <1>2, <1>3 DEF PullTyped
<1>5. pull'.head \in Int /\ pull'.head \in Commit
  BY <1>0, <1>2 DEF PullRecord
<1>6. ReviewerRight'
  <2>1. CASE reviewer' = Idle
    BY <2>1 DEF ReviewerRight
  <2>2. CASE reviewer' = reviewer
    <3>1. \A h \in Commit : h <= pull.head => h <= pull'.head
      BY <1>0, <1>2, <1>5
    <3>2. CASE reviewer \in [step : {"mark", "lease", "files"}, head : Commit]
      BY <1>0, <2>2, <3>1, <3>2 DEF ReviewerRight, Idle
    <3>3. CASE reviewer \in [step : {"review"}, head : Commit, files : Commit]
      BY <1>0, <2>2, <3>1, <3>3 DEF ReviewerRight, Idle
    <3> QED
      BY <1>0, <2>2, <3>2, <3>3 DEF ReviewerRight
  <2> QED
    BY <1>1, <2>1, <2>2
<1>7. DecisionsRight'
  <2>1. ASSUME NEW n \in 1..Len(decisions)
        PROVE  decisions[n].files <= pull'.head
    <3>1. decisions[n] \in Decision /\ decisions[n].files <= pull.head
      BY <1>0 DEF DecisionsRight
    <3>2. decisions[n].files \in Int
      BY <1>0, <3>1 DEF Decision
    <3> QED
      BY <1>0, <1>2, <1>5, <3>1, <3>2
  <2> QED
    BY <1>0, <1>1, <2>1 DEF DecisionsRight
<1>8. ExecutorRight'
  <2>1. CASE executor' = Idle
    BY <2>1 DEF ExecutorRight
  <2>2. CASE executor' = executor
    BY <1>0, <1>1, <1>3, <2>2 DEF ExecutorRight, Approved
  <2> QED
    BY <1>1, <2>1, <2>2
<1>9. MergedWasApproved'
  <2>1. pull.merged \in Commit \cup {0}
    BY <1>0 DEF PullTyped, PullRecord
  <2> QED
    BY <1>0, <1>1, <1>2, <1>3, <2>1 DEF MergedWasApproved
<1> QED
  BY <1>4, <1>6, <1>7, <1>8, <1>9 DEF MergeInv

LEMMA MergeInvInit == MergeInit => MergeInv
<1> SUFFICES ASSUME MergeInit PROVE MergeInv
  OBVIOUS
<1>1. 1 \in Commit
  BY MergeAgentsAssumption DEF Commit
<1>2. PullTyped
  BY <1>1 DEF MergeInit, PullTyped, PullRecord
<1>3. ReviewerRight /\ ExecutorRight
  BY DEF MergeInit, ReviewerRight, ExecutorRight
<1>4. DecisionsRight
  <2>1. decisions = <<>> /\ Len(decisions) = 0
    BY DEF MergeInit
  <2> QED
    BY <2>1 DEF DecisionsRight
<1>5. MergedWasApproved
  BY DEF MergeInit, MergedWasApproved
<1> QED
  BY <1>2, <1>3, <1>4, <1>5 DEF MergeInv

LEMMA MergeStep == ~MayReturn /\ MergeInv /\ [MergeNext]_mergeVars => MergeInv'
<1> SUFFICES ASSUME ~MayReturn, MergeInv, [MergeNext]_mergeVars PROVE MergeInv'
  OBVIOUS
<1>1. CASE UNCHANGED mergeVars
  BY <1>1 DEF mergeVars, MergeInv, PullTyped, ReviewerRight, DecisionsRight, ExecutorRight,
              MergedWasApproved, Approved
<1>2. CASE MergeNext
  BY <1>2, ReviewerKeeps, ExecutorKeeps, OthersKeep DEF MergeNext
<1> QED
  BY <1>1, <1>2

\* What is merged was reviewed as it is and approved, and its checks were green,
\* as long as no earlier head is pushed again (planMergeExecution and the run
\* that merges by the head it planned for).
THEOREM MergedAsReviewed == ASSUME ~MayReturn PROVE MergeSpec => []MergedWasApproved
<1>1. MergeInv => MergedWasApproved
  BY DEF MergeInv
<1>2. MergeInv /\ [MergeNext]_mergeVars => MergeInv'
  BY MergeStep
<1> QED
  BY <1>1, <1>2, MergeInvInit, PTL DEF MergeSpec

-----------------------------------------------------------------------------
(* The lock on an issue *)

IsJob(j) == j = Job(j.issue, j.adds, j.drops, j.what, j.about)

\* No run but the implementor's locks an issue, and this one only when it has
\* begun with it.
GoodQueue(a, q) ==
    /\ \E S : q \in Seq(S)
    /\ \A n \in 1..Len(q) :
          /\ IsJob(q[n])
          /\ a # "implementor" => "implementing" \notin q[n].adds
          /\ a = "implementor" /\ n > 1 => q[n].what = "preflight"

\* What the implementor is at; its last writes take the lock off.
GoodHead(q, ls) ==
    q # <<>> =>
        /\ Head(q).what \in {"preflight", "lease", "command", "result"}
        /\ Head(q).what = "result" =>
             /\ "implementing" \notin Head(q).adds
             /\ \/ "implementing" \in Head(q).drops
                \/ \A i \in Issue : i = Head(q).issue => "implementing" \notin ls[i]

LockInv ==
    /\ DOMAIN labels = Issue /\ DOMAIN run = Agent
    /\ \A a \in Agent : GoodQueue(a, run[a])
    /\ GoodHead(run["implementor"], labels)
    /\ LockedByWorkOrCrash

\* A queue whose first job goes on, and one whose first job is done.
LEMMA JobGoesOn ==
    ASSUME NEW a, NEW q, GoodQueue(a, q), q # <<>>, NEW j, IsJob(j),
           a # "implementor" => "implementing" \notin j.adds
    PROVE  /\ GoodQueue(a, <<j>> \o Tail(q)) /\ Head(<<j>> \o Tail(q)) = j
           /\ <<j>> \o Tail(q) # <<>>
<1>1. PICK S : q \in Seq(S)
  BY DEF GoodQueue
<1>2. PICK p : p = <<j>> \o Tail(q)
  OBVIOUS
<1>3. PICK T : T = S \cup {j}
  OBVIOUS
<1>4. Tail(q) \in Seq(T) /\ <<j>> \in Seq(T) /\ Len(q) \in Nat /\ Len(q) > 0
  <2>1. Tail(q) \in Seq(S) /\ S \subseteq T
    BY <1>1, <1>3
  <2> QED
    BY <1>1, <1>3, <2>1
<1>5. /\ p \in Seq(T) /\ Len(p) = Len(q) /\ p[1] = j
      /\ \A n \in 2..Len(q) : p[n] = q[n]
  BY <1>1, <1>2, <1>4
<1>6. Head(p) = j /\ p # <<>>
  BY <1>4, <1>5
<1>7. ASSUME NEW n \in 1..Len(p)
      PROVE  /\ IsJob(p[n])
             /\ a # "implementor" => "implementing" \notin p[n].adds
             /\ a = "implementor" /\ n > 1 => p[n].what = "preflight"
  <2>1. CASE n = 1
    BY <1>5, <2>1
  <2>2. CASE n # 1
    <3>1. n \in 2..Len(q) /\ n \in 1..Len(q)
      BY <1>4, <1>5, <2>2
    <3>2. p[n] = q[n]
      BY <1>5, <3>1
    <3> QED
      BY <3>1, <3>2 DEF GoodQueue
  <2> QED
    BY <2>1, <2>2
<1> QED
  BY <1>2, <1>5, <1>6, <1>7 DEF GoodQueue

LEMMA JobDone ==
    ASSUME NEW a, NEW q, GoodQueue(a, q), q # <<>>
    PROVE  /\ GoodQueue(a, Tail(q))
           /\ a = "implementor" /\ Tail(q) # <<>> => Head(Tail(q)).what = "preflight"
<1>1. PICK S : q \in Seq(S)
  BY DEF GoodQueue
<1>2. PICK p : p = Tail(q)
  OBVIOUS
<1>3. /\ p \in Seq(S) /\ Len(q) \in Nat /\ Len(q) > 0 /\ Len(p) = Len(q) - 1
      /\ \A n \in 1..Len(p) : p[n] = q[n + 1]
  BY <1>1, <1>2
<1>4. ASSUME NEW n \in 1..Len(p)
      PROVE  /\ IsJob(p[n])
             /\ a # "implementor" => "implementing" \notin p[n].adds
             /\ a = "implementor" => p[n].what = "preflight"
  <2>1. n + 1 \in 1..Len(q) /\ n + 1 > 1 /\ p[n] = q[n + 1]
    BY <1>3
  <2> QED
    BY <2>1 DEF GoodQueue
<1>5. p # <<>> => 1 \in 1..Len(p) /\ Head(p) = p[1]
  BY <1>3
<1> QED
  BY <1>2, <1>3, <1>4, <1>5 DEF GoodQueue

LEMMA EmptyQueue == \A a : GoodQueue(a, <<>>)
<1>1. <<>> \in Seq({}) /\ Len(<<>>) = 0
  OBVIOUS
<1> QED
  BY <1>1 DEF GoodQueue

\* A queue of jobs in any order.
LEMMA QueueOfJobs ==
    ASSUME NEW a, NEW S, IsFiniteSet(S), NEW q \in SetToSeqs(S),
           \A j \in S : /\ IsJob(j) /\ "implementing" \notin j.adds
                        /\ a = "implementor" => j.what = "preflight"
    PROVE  GoodQueue(a, q) /\ (a = "implementor" /\ q # <<>> => Head(q).what = "preflight")
<1>1. PICK n \in Nat : n = Cardinality(S)
  BY FS_CardinalityType
<1>2. q \in [1..n -> S]
  BY <1>1 DEF SetToSeqs
<1>3. q \in Seq(S) /\ Len(q) = n
  BY <1>2
<1>4. \A m \in 1..Len(q) : q[m] \in S
  BY <1>3
<1>5. q # <<>> => Head(q) \in S
  BY <1>3
<1> QED
  BY <1>3, <1>4, <1>5 DEF GoodQueue

\* The image of a finite set.
LEMMA FiniteImage ==
    ASSUME NEW S, IsFiniteSet(S), NEW f, DOMAIN f = S, f = [x \in S |-> f[x]]
    PROVE  IsFiniteSet({f[x] : x \in S})
<1> DEFINE T == {f[x] : x \in S}
<1>1. f \in [S -> T]
  BY Zenon
<1>2. \A t \in T : \E x \in S : f[x] = t
  OBVIOUS
<1>3. f \in Surjection(S, T)
  <2> HIDE DEF T
  <2> QED
    BY <1>1, <1>2 DEF Surjection
<1> QED
  BY <1>3, FS_Surjection

\* The jobs that runs read.
LEMMA JobsRead ==
    ASSUME NEW a \in Agent \ {"intake"}
    PROVE  /\ IsFiniteSet(Jobs(a))
           /\ \A j \in Jobs(a) : /\ IsJob(j) /\ "implementing" \notin j.adds
                                 /\ a = "implementor" => j.what = "preflight"
<1>1. \A i, adds, drops, what, about :
         /\ IsJob(Job(i, adds, drops, what, about)) /\ Job(i, adds, drops, what, about).adds = adds
         /\ Job(i, adds, drops, what, about).what = what
  BY DEF IsJob, Job
<1>2. IsFiniteSet(Issue)
  BY IssueAgentsAssumption
<1>3. CASE a = "issuer"
  <2>1. Jobs(a) = IssuerJobs
    BY <1>3 DEF Jobs
  <2>2. PICK f : f = [i \in Issue |-> IssuerJob(i)]
    OBVIOUS
  <2>3. IsFiniteSet({f[i] : i \in Issue})
    BY <1>2, <2>2, FiniteImage
  <2>4. IssuerJobs \subseteq {f[i] : i \in Issue}
    BY <2>2 DEF IssuerJobs
  <2>5. \A i : IsJob(IssuerJob(i)) /\ "implementing" \notin IssuerJob(i).adds
    BY <1>1 DEF IssuerJob
  <2>6. \A j \in IssuerJobs : IsJob(j) /\ "implementing" \notin j.adds
    BY <2>5 DEF IssuerJobs
  <2> QED
    BY <1>3, <2>1, <2>3, <2>4, <2>6, FS_Subset
<1>4. CASE a = "planner"
  <2>1. Jobs(a) = PlannerJobs
    BY <1>4 DEF Jobs
  <2>2. PICK f : f = [i \in Issue |-> PlannerJob(i)]
    OBVIOUS
  <2>3. IsFiniteSet({f[i] : i \in Issue})
    BY <1>2, <2>2, FiniteImage
  <2>4. PlannerJobs \subseteq {f[i] : i \in Issue}
    BY <2>2 DEF PlannerJobs
  <2>5. \A i : IsJob(PlannerJob(i)) /\ "implementing" \notin PlannerJob(i).adds
    BY <1>1 DEF PlannerJob
  <2>6. \A j \in PlannerJobs : IsJob(j) /\ "implementing" \notin j.adds
    BY <2>5 DEF PlannerJobs
  <2> QED
    BY <1>4, <2>1, <2>3, <2>4, <2>6, FS_Subset
<1>5. CASE a = "implementor"
  <2>1. Jobs(a) = ImplementorJobs
    BY <1>5 DEF Jobs
  <2>2. PICK f : f = [i \in Issue |-> Job(i, {}, {}, "preflight", HasArtifact(i))]
    OBVIOUS
  <2>3. IsFiniteSet({f[i] : i \in Issue})
    BY <1>2, <2>2, FiniteImage
  <2>4. ImplementorJobs \subseteq {f[i] : i \in Issue}
    BY <2>2 DEF ImplementorJobs
  <2>5. \A j \in ImplementorJobs : IsJob(j) /\ "implementing" \notin j.adds /\ j.what = "preflight"
    BY <1>1 DEF ImplementorJobs
  <2> QED
    BY <1>5, <2>1, <2>3, <2>4, <2>5, FS_Subset
<1> QED
  BY <1>3, <1>4, <1>5 DEF Agent

LEMMA FirstJob ==
    ASSUME NEW a, NEW q, GoodQueue(a, q), q # <<>>
    PROVE  IsJob(Head(q)) /\ (a # "implementor" => "implementing" \notin Head(q).adds)
<1>1. PICK S : q \in Seq(S)
  BY DEF GoodQueue
<1>2. 1 \in 1..Len(q) /\ Head(q) = q[1]
  BY <1>1
<1> QED
  BY <1>2 DEF GoodQueue

\* A job of which a part is done.
LEMMA JobLess ==
    ASSUME NEW j, IsJob(j)
    PROVE  /\ \A k : k = [j EXCEPT !.adds = {}] =>
                /\ IsJob(k) /\ k.issue = j.issue /\ k.what = j.what
                /\ k.adds = {} /\ k.drops = j.drops
           /\ \A k, l : k = [j EXCEPT !.drops = @ \ {l}] =>
                /\ IsJob(k) /\ k.issue = j.issue /\ k.what = j.what
                /\ k.adds = j.adds /\ k.drops = j.drops \ {l}
           /\ \A k, w : k = [j EXCEPT !.what = w] =>
                /\ IsJob(k) /\ k.issue = j.issue /\ k.what = w
                /\ k.adds = j.adds /\ k.drops = j.drops
<1>1. PICK i, as, ds, w, about : j = [issue |-> i, adds |-> as, drops |-> ds, what |-> w, about |-> about]
  BY DEF IsJob, Job
<1>2. ASSUME NEW k, k = [j EXCEPT !.adds = {}]
      PROVE  k = [issue |-> i, adds |-> {}, drops |-> ds, what |-> w, about |-> about]
  BY <1>1, <1>2
<1>3. ASSUME NEW k, NEW l, k = [j EXCEPT !.drops = @ \ {l}]
      PROVE  k = [issue |-> i, adds |-> as, drops |-> ds \ {l}, what |-> w, about |-> about]
  BY <1>1, <1>3
<1>4. ASSUME NEW k, NEW v, k = [j EXCEPT !.what = v]
      PROVE  k = [issue |-> i, adds |-> as, drops |-> ds, what |-> v, about |-> about]
  BY <1>1, <1>4
<1>5. /\ j.issue = i /\ j.adds = as /\ j.drops = ds /\ j.what = w /\ j.about = about
  BY <1>1
<1>6. ASSUME NEW k, k = [j EXCEPT !.adds = {}]
      PROVE  /\ IsJob(k) /\ k.issue = j.issue /\ k.what = j.what
             /\ k.adds = {} /\ k.drops = j.drops
  <2>1. k = [issue |-> i, adds |-> {}, drops |-> ds, what |-> w, about |-> about]
    BY <1>2, <1>6
  <2> QED
    BY <1>5, <2>1 DEF IsJob, Job
<1>7. ASSUME NEW k, NEW l, k = [j EXCEPT !.drops = @ \ {l}]
      PROVE  /\ IsJob(k) /\ k.issue = j.issue /\ k.what = j.what
             /\ k.adds = j.adds /\ k.drops = j.drops \ {l}
  <2>1. k = [issue |-> i, adds |-> as, drops |-> ds \ {l}, what |-> w, about |-> about]
    BY <1>3, <1>7
  <2> QED
    BY <1>5, <2>1 DEF IsJob, Job
<1>8. ASSUME NEW k, NEW v, k = [j EXCEPT !.what = v]
      PROVE  /\ IsJob(k) /\ k.issue = j.issue /\ k.what = v
             /\ k.adds = j.adds /\ k.drops = j.drops
  <2>1. k = [issue |-> i, adds |-> as, drops |-> ds, what |-> v, about |-> about]
    BY <1>4, <1>8
  <2> QED
    BY <1>5, <2>1 DEF IsJob, Job
<1> QED
  BY <1>6, <1>7, <1>8

\* Nothing the others do locks an issue.
LEMMA LockKept ==
    ASSUME LockInv, DOMAIN labels' = Issue, DOMAIN run' = Agent,
           \A a \in Agent : GoodQueue(a, run'[a]),
           run'["implementor"] = run["implementor"], stranded \subseteq stranded',
           \A i \in Issue : "implementing" \in labels'[i] => "implementing" \in labels[i]
    PROVE  LockInv'
<1>1. GoodHead(run["implementor"], labels)'
  BY DEF LockInv, GoodHead
<1>2. LockedByWorkOrCrash'
  BY DEF LockInv, LockedByWorkOrCrash, Doing
<1> QED
  BY <1>1, <1>2 DEF LockInv

\* The implementor goes on with the issue it is at.
LEMMA LockAtWork ==
    ASSUME LockInv, run["implementor"] # <<>>, NEW j, IsJob(j),
           j.issue = Head(run["implementor"]).issue, j.what \in {"lease", "command", "result"},
           run' = [run EXCEPT !["implementor"] = <<j>> \o Tail(@)],
           j.what = "result" =>
              /\ "implementing" \notin j.adds
              /\ \/ "implementing" \in j.drops
                 \/ \A i \in Issue : i = j.issue => "implementing" \notin labels'[i],
           DOMAIN labels' = Issue, stranded \subseteq stranded',
           \A i \in Issue : i # j.issue /\ "implementing" \in labels'[i] => "implementing" \in labels[i]
    PROVE  LockInv'
<1>0. "implementor" \in Agent
  BY DEF Agent
<1>1. DOMAIN run = Agent /\ GoodQueue("implementor", run["implementor"])
  BY <1>0 DEF LockInv
<1>2. PICK q : q = <<j>> \o Tail(run["implementor"])
  OBVIOUS
<1>3. GoodQueue("implementor", q) /\ Head(q) = j /\ q # <<>>
  BY <1>1, <1>2, JobGoesOn
<1>4. DOMAIN run' = Agent /\ run'["implementor"] = q
  BY <1>0, <1>1, <1>2
<1>5. \A a \in Agent : a # "implementor" => run'[a] = run[a]
  BY <1>1
<1>6. \A a \in Agent : GoodQueue(a, run'[a])
  BY <1>3, <1>4, <1>5 DEF LockInv
<1>7. GoodHead(run["implementor"], labels)'
  BY <1>3, <1>4 DEF GoodHead
<1>8. ASSUME NEW i \in Issue, "implementing" \in labels'[i]
      PROVE  i \in stranded' \/ (Doing("implementor", {"lease", "command", "result"})
                                   /\ Head(run["implementor"]).issue = i)'
  <2>1. CASE i = j.issue
    BY <2>1, <1>3, <1>4 DEF Doing
  <2>2. CASE i # j.issue
    BY <2>2, <1>8 DEF LockInv, LockedByWorkOrCrash
  <2> QED
    BY <2>1, <2>2
<1>9. LockedByWorkOrCrash'
  BY <1>8 DEF LockedByWorkOrCrash
<1> QED
  BY <1>4, <1>6, <1>7, <1>9 DEF LockInv

\* Another agent goes on with its own queue.
LEMMA OtherQueue ==
    ASSUME LockInv, NEW a \in Agent, a # "implementor", NEW q, GoodQueue(a, q),
           run' = [run EXCEPT ![a] = q]
    PROVE  /\ DOMAIN run' = Agent /\ \A b \in Agent : GoodQueue(b, run'[b])
           /\ run'["implementor"] = run["implementor"]
<1>1. DOMAIN run = Agent
  BY DEF LockInv
<1>2. DOMAIN run' = Agent /\ run'[a] = q /\ \A b \in Agent \ {a} : run'[b] = run[b]
  BY <1>1
<1>3. "implementor" \in Agent \ {a}
  BY DEF Agent
<1> QED
  BY <1>2, <1>3 DEF LockInv

LEMMA OtherWrites ==
    ASSUME LockInv, NEW a \in Agent, a # "implementor",
           AddLabels(a) \/ RemoveLabel(a) \/ PostVerdict(a)
    PROVE  LockInv'
<1>1. run[a] # <<>> /\ GoodQueue(a, run[a]) /\ DOMAIN labels = Issue
  BY DEF LockInv, AddLabels, RemoveLabel, PostVerdict, Doing
<1>2. PICK job : job = Head(run[a])
  OBVIOUS
<1>3. IsJob(job) /\ "implementing" \notin job.adds
  BY <1>1, <1>2, FirstJob
<1>4. CASE AddLabels(a)
  <2>1. PICK next : next = [job EXCEPT !.adds = {}]
    OBVIOUS
  <2>2. IsJob(next) /\ next.adds = {}
    BY <1>3, <2>1, JobLess
  <2>3. PICK q : q = <<next>> \o Tail(run[a])
    OBVIOUS
  <2>4. GoodQueue(a, q)
    BY <1>1, <2>2, <2>3, JobGoesOn
  <2>5. run' = [run EXCEPT ![a] = q]
    BY <1>2, <1>4, <2>1, <2>3 DEF AddLabels, Goes
  <2>6. /\ labels' = [labels EXCEPT ![job.issue] = @ \cup job.adds]
        /\ stranded' = stranded
    BY <1>2, <1>4 DEF AddLabels
  <2>7. /\ DOMAIN labels' = Issue
        /\ \A i \in Issue : "implementing" \in labels'[i] => "implementing" \in labels[i]
    BY <1>1, <1>3, <2>6
  <2>8. /\ DOMAIN run' = Agent /\ \A b \in Agent : GoodQueue(b, run'[b])
        /\ run'["implementor"] = run["implementor"]
    BY <2>4, <2>5, OtherQueue
  <2> QED
    BY <2>6, <2>7, <2>8, LockKept
<1>5. CASE RemoveLabel(a)
  <2>0. PICK l : l = CHOOSE x \in job.drops : TRUE
    OBVIOUS
  <2>1. PICK next : next = [job EXCEPT !.drops = @ \ {l}]
    OBVIOUS
  <2>2. IsJob(next) /\ next.adds = job.adds
    BY <1>3, <2>1, JobLess
  <2>3. PICK q : q = <<next>> \o Tail(run[a])
    OBVIOUS
  <2>4. GoodQueue(a, q)
    BY <1>1, <1>3, <2>2, <2>3, JobGoesOn
  <2>5. run' = [run EXCEPT ![a] = q]
    BY <1>2, <1>5, <2>0, <2>1, <2>3 DEF RemoveLabel, Goes
  <2>6. labels' = [labels EXCEPT ![job.issue] = @ \ {l}] /\ stranded' = stranded
    BY <1>2, <1>5, <2>0 DEF RemoveLabel
  <2>7. /\ DOMAIN labels' = Issue
        /\ \A i \in Issue : "implementing" \in labels'[i] => "implementing" \in labels[i]
    BY <1>1, <2>6
  <2>8. /\ DOMAIN run' = Agent /\ \A b \in Agent : GoodQueue(b, run'[b])
        /\ run'["implementor"] = run["implementor"]
    BY <2>4, <2>5, OtherQueue
  <2> QED
    BY <2>6, <2>7, <2>8, LockKept
<1>6. CASE PostVerdict(a)
  <2>1. PICK q : q = Tail(run[a])
    OBVIOUS
  <2>2. GoodQueue(a, q)
    BY <1>1, <2>1, JobDone
  <2>3. run' = [run EXCEPT ![a] = q] /\ labels' = labels /\ stranded' = stranded
    BY <1>6, <2>1 DEF PostVerdict, Done
  <2>4. /\ DOMAIN run' = Agent /\ \A b \in Agent : GoodQueue(b, run'[b])
        /\ run'["implementor"] = run["implementor"]
    BY <2>2, <2>3, OtherQueue
  <2>5. DOMAIN labels' = Issue
    BY <1>1, <2>3
  <2> QED
    BY <2>3, <2>4, <2>5, LockKept
<1> QED
  BY <1>4, <1>5, <1>6

LEMMA IntakeWrites ==
    ASSUME LockInv, CreateIssue \/ LinkTarget \/ PostResolution
    PROVE  LockInv'
<1>0. "intake" \in Agent
  BY DEF Agent
<1>1. run["intake"] # <<>> /\ GoodQueue("intake", run["intake"]) /\ DOMAIN labels = Issue
  BY <1>0 DEF LockInv, CreateIssue, LinkTarget, PostResolution, Doing
<1>2. PICK job : job = Head(run["intake"])
  OBVIOUS
<1>3. IsJob(job) /\ "implementing" \notin job.adds
  BY <1>1, <1>2, FirstJob
<1>4. CASE CreateIssue \/ LinkTarget
  <2>1. PICK w : Goes("intake", [job EXCEPT !.what = w])
    <3>1. CASE CreateIssue
      BY <1>2, <3>1 DEF CreateIssue
    <3>2. CASE LinkTarget
      BY <1>2, <3>2 DEF LinkTarget
    <3> QED
      BY <1>4, <3>1, <3>2
  <2>2. PICK next : next = [job EXCEPT !.what = w]
    OBVIOUS
  <2>3. IsJob(next) /\ next.adds = job.adds
    BY <1>3, <2>2, JobLess
  <2>4. PICK q : q = <<next>> \o Tail(run["intake"])
    OBVIOUS
  <2>5. GoodQueue("intake", q)
    BY <1>1, <1>3, <2>3, <2>4, JobGoesOn
  <2>6. run' = [run EXCEPT !["intake"] = q]
    BY <2>1, <2>2, <2>4 DEF Goes
  <2>7. /\ stranded' = stranded /\ DOMAIN labels' = Issue
        /\ \A i \in Issue : "implementing" \in labels'[i] => "implementing" \in labels[i]
    <3>1. CASE CreateIssue
      <4>1. PICK n : n = NextNumber
        OBVIOUS
      <4>2. labels' = [labels EXCEPT ![n] = {"safe", "needsPlan"}] /\ stranded' = stranded
        BY <3>1, <4>1 DEF CreateIssue
      <4> QED
        BY <1>1, <4>2
    <3>2. CASE LinkTarget
      BY <1>1, <3>2 DEF LinkTarget
    <3> QED
      BY <1>4, <3>1, <3>2
  <2>8. /\ DOMAIN run' = Agent /\ \A b \in Agent : GoodQueue(b, run'[b])
        /\ run'["implementor"] = run["implementor"]
    BY <1>0, <2>5, <2>6, OtherQueue
  <2> QED
    BY <2>7, <2>8, LockKept
<1>5. CASE PostResolution
  <2>1. PICK q : q = Tail(run["intake"])
    OBVIOUS
  <2>2. GoodQueue("intake", q)
    BY <1>1, <2>1, JobDone
  <2>3. run' = [run EXCEPT !["intake"] = q] /\ labels' = labels /\ stranded' = stranded
    BY <1>5, <2>1 DEF PostResolution, Done
  <2>4. /\ DOMAIN run' = Agent /\ \A b \in Agent : GoodQueue(b, run'[b])
        /\ run'["implementor"] = run["implementor"]
    BY <1>0, <2>2, <2>3, OtherQueue
  <2>5. DOMAIN labels' = Issue
    BY <1>1, <2>3
  <2> QED
    BY <2>3, <2>4, <2>5, LockKept
<1> QED
  BY <1>4, <1>5

\* The implementor holds no lock: it has just read, has finished a job, or died.
LEMMA LockAtRest ==
    ASSUME LockInv, NEW q, GoodQueue("implementor", q), q # <<>> => Head(q).what = "preflight",
           run' = [run EXCEPT !["implementor"] = q], labels' = labels,
           \A i \in Issue : "implementing" \in labels[i] => i \in stranded'
    PROVE  LockInv'
<1>0. "implementor" \in Agent
  BY DEF Agent
<1>1. DOMAIN run = Agent /\ DOMAIN labels' = Issue
  BY DEF LockInv
<1>2. DOMAIN run' = Agent /\ run'["implementor"] = q
  BY <1>0, <1>1
<1>3. \A a \in Agent : a # "implementor" => run'[a] = run[a]
  BY <1>1
<1>4. \A a \in Agent : GoodQueue(a, run'[a])
  BY <1>2, <1>3 DEF LockInv
<1>5. GoodHead(run["implementor"], labels)'
  BY <1>2 DEF GoodHead
<1>6. LockedByWorkOrCrash'
  BY DEF LockedByWorkOrCrash
<1> QED
  BY <1>1, <1>2, <1>4, <1>5, <1>6 DEF LockInv

LEMMA ReadRight == ASSUME LockInv, NEW a \in Agent, Read(a) PROVE LockInv'
<1>1. PICK q : q = run'[a]
  OBVIOUS
<1>2. DOMAIN run = Agent /\ DOMAIN labels = Issue
  BY DEF LockInv
<1>3. run[a] = <<>> /\ labels' = labels /\ stranded' = stranded
  BY DEF Read
<1>4. /\ q \in IF a = "intake" THEN {<<job>> : job \in IntakeJobs} \cup {<<>>}
               ELSE SetToSeqs(Jobs(a))
      /\ run' = [run EXCEPT ![a] = q]
  BY <1>1, <1>2 DEF Read
<1>5. CASE a = "intake"
  <2>1. CASE q = <<>>
    <3>1. GoodQueue(a, q)
      BY <2>1, EmptyQueue
    <3>2. /\ DOMAIN run' = Agent /\ \A b \in Agent : GoodQueue(b, run'[b])
          /\ run'["implementor"] = run["implementor"]
      BY <1>4, <1>5, <3>1, OtherQueue
    <3> QED
      BY <1>2, <1>3, <3>2, LockKept
  <2>2. CASE q # <<>>
    <3>1. PICK job \in IntakeJobs : q = <<job>>
      BY <1>4, <1>5, <2>2
    <3>2. PICK i, about : job = Job(i, {}, {}, "resolve", 0) \/ job = Job(i, {}, {}, "create", about)
      BY <3>1 DEF IntakeJobs
    <3>3. IsJob(job) /\ job.adds = {}
      BY <3>2 DEF IsJob, Job
    <3>4. q \in Seq({job}) /\ Len(q) = 1 /\ q[1] = job
      BY <3>1
    <3>5. GoodQueue(a, q)
      BY <1>5, <3>3, <3>4 DEF GoodQueue
    <3>6. /\ DOMAIN run' = Agent /\ \A b \in Agent : GoodQueue(b, run'[b])
          /\ run'["implementor"] = run["implementor"]
      BY <1>4, <1>5, <3>5, OtherQueue
    <3> QED
      BY <1>2, <1>3, <3>6, LockKept
  <2> QED
    BY <2>1, <2>2
<1>6. CASE a # "intake"
  <2>1. q \in SetToSeqs(Jobs(a)) /\ a \in Agent \ {"intake"}
    BY <1>4, <1>6
  <2>2. PICK S : S = Jobs(a)
    OBVIOUS
  <2>3. /\ IsFiniteSet(S)
        /\ \A j \in S : /\ IsJob(j) /\ "implementing" \notin j.adds
                        /\ a = "implementor" => j.what = "preflight"
    BY <2>1, <2>2, JobsRead
  <2>4. q \in SetToSeqs(S)
    BY <2>1, <2>2
  <2>5. GoodQueue(a, q) /\ (a = "implementor" /\ q # <<>> => Head(q).what = "preflight")
    BY <2>3, <2>4, QueueOfJobs
  <2>6. CASE a = "implementor"
    <3>1. \A i \in Issue : "implementing" \in labels[i] => i \in stranded'
      BY <1>3, <2>6 DEF LockInv, LockedByWorkOrCrash, Doing
    <3> QED
      BY <1>3, <1>4, <2>5, <2>6, <3>1, LockAtRest
  <2>7. CASE a # "implementor"
    <3>1. /\ DOMAIN run' = Agent /\ \A b \in Agent : GoodQueue(b, run'[b])
          /\ run'["implementor"] = run["implementor"]
      BY <1>4, <2>5, <2>7, OtherQueue
    <3> QED
      BY <1>2, <1>3, <3>1, LockKept
  <2> QED
    BY <2>6, <2>7
<1> QED
  BY <1>5, <1>6

LEMMA CrashRight == ASSUME LockInv, NEW a \in Agent, Crash(a) PROVE LockInv'
<1>1. PICK q : q = <<>>
  OBVIOUS
<1>2. GoodQueue(a, q) /\ q = <<>>
  BY <1>1, EmptyQueue
<1>3. run' = [run EXCEPT ![a] = q] /\ labels' = labels /\ DOMAIN labels = Issue
  BY <1>1 DEF Crash, LockInv
<1>4. CASE a = "implementor"
  <2>1. stranded' = stranded \cup {Head(run["implementor"]).issue}
    BY <1>4 DEF Crash
  <2>2. \A i \in Issue : "implementing" \in labels[i] => i \in stranded'
    BY <2>1 DEF LockInv, LockedByWorkOrCrash
  <2> QED
    BY <1>2, <1>3, <1>4, <2>2, LockAtRest
<1>5. CASE a # "implementor"
  <2>1. stranded' = stranded
    BY <1>5 DEF Crash
  <2>2. /\ DOMAIN run' = Agent /\ \A b \in Agent : GoodQueue(b, run'[b])
        /\ run'["implementor"] = run["implementor"]
    BY <1>2, <1>3, <1>5, OtherQueue
  <2> QED
    BY <1>3, <2>1, <2>2, LockKept
<1> QED
  BY <1>4, <1>5

\* Humans, pull requests and the clock.
LEMMA WorldRight ==
    ASSUME LockInv, Tick \/ \E i \in Issue : HumanActs(i) \/ PullEnds(i)
    PROVE  LockInv'
<1>0. DOMAIN labels = Issue
  BY DEF LockInv
<1>1. run' = run /\ stranded' = stranded
  BY DEF Tick, HumanActs, PullEnds
<1>2. CASE labels' = labels
  <2>1. /\ DOMAIN run' = Agent /\ \A b \in Agent : GoodQueue(b, run'[b])
        /\ run'["implementor"] = run["implementor"] /\ DOMAIN labels' = Issue
    BY <1>1, <1>2 DEF LockInv
  <2> QED
    BY <1>1, <1>2, <2>1, LockKept
<1>3. CASE labels' # labels
  <2>1. PICK i \in Issue : HumanActs(i)
    BY <1>3 DEF Tick, PullEnds
  <2>2. \/ labels' = [labels EXCEPT ![i] = IF "hold" \in @ THEN @ \ {"hold"} ELSE @ \cup {"hold"}]
        \/ labels' = [labels EXCEPT ![i] = @ \ {"implementing", "blocked"}]
    BY <1>3, <2>1 DEF HumanActs
  <2>3. /\ DOMAIN labels' = Issue
        /\ \A k \in Issue : "implementing" \in labels'[k] => "implementing" \in labels[k]
    <3>1. CASE labels' = [labels EXCEPT ![i] = IF "hold" \in @ THEN @ \ {"hold"} ELSE @ \cup {"hold"}]
      BY <1>0, <3>1
    <3>2. CASE labels' = [labels EXCEPT ![i] = @ \ {"implementing", "blocked"}]
      BY <1>0, <3>2
    <3> QED
      BY <2>2, <3>1, <3>2
  <2>4. /\ DOMAIN run' = Agent /\ \A b \in Agent : GoodQueue(b, run'[b])
        /\ run'["implementor"] = run["implementor"]
    BY <1>1 DEF LockInv
  <2> QED
    BY <1>1, <2>3, <2>4, LockKept
<1> QED
  BY <1>2, <1>3

\* The implementor's label writes; it posts no verdict.
LEMMA ImplementorLabels ==
    ASSUME LockInv,
           AddLabels("implementor") \/ RemoveLabel("implementor") \/ PostVerdict("implementor")
    PROVE  LockInv'
<1>0. "implementor" \in Agent
  BY DEF Agent
<1>1. /\ run["implementor"] # <<>> /\ GoodQueue("implementor", run["implementor"])
      /\ DOMAIN labels = Issue /\ Head(run["implementor"]).what \in Labelled
  BY <1>0 DEF LockInv, AddLabels, RemoveLabel, PostVerdict, Doing, Labelled
<1>2. PICK job : job = Head(run["implementor"])
  OBVIOUS
<1>3. IsJob(job) /\ job.what \in {"lease", "result"}
  BY <1>1, <1>2, FirstJob DEF LockInv, GoodHead, Labelled
<1>4. job.what = "result" =>
        /\ "implementing" \notin job.adds
        /\ \/ "implementing" \in job.drops
           \/ \A i \in Issue : i = job.issue => "implementing" \notin labels[i]
  BY <1>1, <1>2 DEF LockInv, GoodHead
<1>5. CASE AddLabels("implementor")
  <2>1. PICK next : next = [job EXCEPT !.adds = {}]
    OBVIOUS
  <2>2. /\ IsJob(next) /\ next.issue = job.issue /\ next.what = job.what
        /\ next.adds = {} /\ next.drops = job.drops
    BY <1>3, <2>1, JobLess
  <2>3. run' = [run EXCEPT !["implementor"] = <<next>> \o Tail(@)]
    BY <1>2, <1>5, <2>1 DEF AddLabels, Goes
  <2>4. labels' = [labels EXCEPT ![job.issue] = @ \cup job.adds] /\ stranded' = stranded
    BY <1>2, <1>5 DEF AddLabels
  <2>5. /\ DOMAIN labels' = Issue
        /\ \A i \in Issue : i # job.issue => labels'[i] = labels[i]
        /\ \A i \in Issue : i = job.issue => labels'[i] = labels[i] \cup job.adds
    BY <1>1, <2>4
  <2>6. next.what = "result" =>
          /\ "implementing" \notin next.adds
          /\ \/ "implementing" \in next.drops
             \/ \A i \in Issue : i = next.issue => "implementing" \notin labels'[i]
    BY <1>4, <2>2, <2>5
  <2> QED
    BY <1>1, <1>2, <1>3, <2>2, <2>3, <2>4, <2>5, <2>6, LockAtWork
<1>6. CASE RemoveLabel("implementor")
  <2>0. PICK l : l = CHOOSE x \in job.drops : TRUE
    OBVIOUS
  <2>1. PICK next : next = [job EXCEPT !.drops = @ \ {l}]
    OBVIOUS
  <2>2. /\ IsJob(next) /\ next.issue = job.issue /\ next.what = job.what
        /\ next.adds = job.adds /\ next.drops = job.drops \ {l}
    BY <1>3, <2>1, JobLess
  <2>3. run' = [run EXCEPT !["implementor"] = <<next>> \o Tail(@)]
    BY <1>2, <1>6, <2>0, <2>1 DEF RemoveLabel, Goes
  <2>4. labels' = [labels EXCEPT ![job.issue] = @ \ {l}] /\ stranded' = stranded
    BY <1>2, <1>6, <2>0 DEF RemoveLabel
  <2>5. /\ DOMAIN labels' = Issue
        /\ \A i \in Issue : i # job.issue => labels'[i] = labels[i]
        /\ \A i \in Issue : i = job.issue => labels'[i] = labels[i] \ {l}
    BY <1>1, <2>4
  <2>6. next.what = "result" =>
          /\ "implementing" \notin next.adds
          /\ \/ "implementing" \in next.drops
             \/ \A i \in Issue : i = next.issue => "implementing" \notin labels'[i]
    BY <1>4, <2>2, <2>5
  <2> QED
    BY <1>1, <1>2, <1>3, <2>2, <2>3, <2>4, <2>5, <2>6, LockAtWork
<1>7. CASE PostVerdict("implementor")
  BY <1>2, <1>3, <1>7 DEF PostVerdict, Doing
<1> QED
  BY <1>5, <1>6, <1>7

\* The implementor's own steps: the end of the work takes the lock off.
LEMMA ImplementorWorks ==
    ASSUME LockInv, Preflight \/ PostLease \/ RunCommand \/ PostResult
    PROVE  LockInv'
<1>0. "implementor" \in Agent
  BY DEF Agent
<1>1. /\ run["implementor"] # <<>> /\ GoodQueue("implementor", run["implementor"])
      /\ DOMAIN labels = Issue
  BY <1>0 DEF LockInv, Preflight, PostLease, RunCommand, PostResult, Doing
<1>2. PICK job : job = Head(run["implementor"])
  OBVIOUS
<1>3. IsJob(job)
  BY <1>1, <1>2, FirstJob
<1>4. labels' = labels /\ stranded' = stranded
  BY DEF Preflight, PostLease, RunCommand, PostResult
<1>5. \A i, outcome :
        /\ IsJob(Completion(i, outcome)) /\ Completion(i, outcome).issue = i
        /\ Completion(i, outcome).what = "result"
        /\ "implementing" \notin Completion(i, outcome).adds
        /\ "implementing" \in Completion(i, outcome).drops
  BY DEF Completion, Job, IsJob
<1>6. CASE Preflight
  <2>1. PICK claim : claim = Job(job.issue, {"implementing"}, {"blocked"}, "lease", "")
    OBVIOUS
  <2>2. IsJob(claim) /\ claim.issue = job.issue /\ claim.what = "lease"
    BY <2>1 DEF Job, IsJob
  <2>3. PICK next \in {claim, Completion(job.issue, "refused")} : Goes("implementor", next)
    BY <1>2, <1>6, <2>1 DEF Preflight
  <2>4. /\ IsJob(next) /\ next.issue = job.issue /\ next.what \in {"lease", "command", "result"}
        /\ next.what = "result" => "implementing" \notin next.adds /\ "implementing" \in next.drops
    BY <1>5, <2>2
  <2>5. run' = [run EXCEPT !["implementor"] = <<next>> \o Tail(@)]
    BY <2>3 DEF Goes
  <2> QED
    BY <1>1, <1>2, <1>4, <2>4, <2>5, LockAtWork
<1>7. CASE PostLease
  <2>1. PICK next : next = [job EXCEPT !.what = "command"]
    OBVIOUS
  <2>2. IsJob(next) /\ next.issue = job.issue /\ next.what = "command"
    BY <1>3, <2>1, JobLess
  <2>3. run' = [run EXCEPT !["implementor"] = <<next>> \o Tail(@)]
    BY <1>2, <1>7, <2>1 DEF PostLease, Goes
  <2> QED
    BY <1>1, <1>2, <1>4, <2>2, <2>3, LockAtWork
<1>8. CASE RunCommand
  <2>1. PICK outcome \in {"pr-created", "failed", "blocked"} :
           Goes("implementor", Completion(job.issue, outcome))
    BY <1>2, <1>8 DEF RunCommand
  <2>2. PICK next : next = Completion(job.issue, outcome)
    OBVIOUS
  <2>3. /\ IsJob(next) /\ next.issue = job.issue /\ next.what = "result"
        /\ "implementing" \notin next.adds /\ "implementing" \in next.drops
    BY <1>5, <2>2
  <2>4. run' = [run EXCEPT !["implementor"] = <<next>> \o Tail(@)]
    BY <2>1, <2>2 DEF Goes
  <2> QED
    BY <1>1, <1>2, <1>4, <2>3, <2>4, LockAtWork
<1>9. CASE PostResult
  <2>1. job.what = "result" /\ job.drops = {}
    BY <1>2, <1>9 DEF PostResult, Doing, Settled
  <2>2. \A i \in Issue : i = job.issue => "implementing" \notin labels[i]
    BY <1>1, <1>2, <2>1 DEF LockInv, GoodHead
  <2>3. \A i \in Issue : "implementing" \in labels[i] => i \in stranded'
    BY <1>2, <1>4, <2>2 DEF LockInv, LockedByWorkOrCrash
  <2>4. PICK q : q = Tail(run["implementor"])
    OBVIOUS
  <2>5. GoodQueue("implementor", q) /\ (q # <<>> => Head(q).what = "preflight")
    BY <1>1, <2>4, JobDone
  <2>6. run' = [run EXCEPT !["implementor"] = q]
    BY <1>9, <2>4 DEF PostResult, Done
  <2> QED
    BY <1>4, <2>3, <2>5, <2>6, LockAtRest
<1> QED
  BY <1>6, <1>7, <1>8, <1>9

LEMMA LockInvInit == Init => LockInv
<1> SUFFICES ASSUME Init PROVE LockInv
  OBVIOUS
<1>1. /\ labels = [i \in Issue |-> {}] /\ run = [a \in Agent |-> <<>>]
  BY DEF Init
<1>2. \A a \in Agent : run[a] = <<>>
  BY <1>1
<1>3. \A a \in Agent : GoodQueue(a, run[a])
  BY <1>2, EmptyQueue
<1>4. run["implementor"] = <<>>
  BY <1>2 DEF Agent
<1>5. \A i \in Issue : "implementing" \notin labels[i]
  BY <1>1
<1> QED
  BY <1>1, <1>3, <1>4, <1>5 DEF LockInv, GoodHead, LockedByWorkOrCrash

LEMMA LockStep == LockInv /\ [Next]_vars => LockInv'
<1> SUFFICES ASSUME LockInv, [Next]_vars PROVE LockInv'
  OBVIOUS
<1>1. ASSUME NEW a \in Agent, Work(a) PROVE LockInv'
  <2>1. CASE a = "implementor"
    BY <1>1, <2>1, ImplementorLabels, ImplementorWorks DEF Work
  <2>2. CASE a # "implementor"
    BY <1>1, <2>2, OtherWrites, IntakeWrites DEF Work
  <2> QED
    BY <2>1, <2>2
<1>2. CASE UNCHANGED vars
  <2>1. /\ DOMAIN labels' = Issue /\ DOMAIN run' = Agent /\ \A a \in Agent : GoodQueue(a, run'[a])
        /\ labels' = labels /\ run' = run /\ stranded' = stranded
    BY <1>2 DEF vars, LockInv
  <2> QED
    BY <2>1, LockKept
<1> QED
  BY <1>1, <1>2, ReadRight, CrashRight, WorldRight DEF Next

\* The label that locks an issue outlives the work on it only where a run of the
\* implementor died: every way a run can end takes the label off
\* (scripts of the implementor, src/automation/autonomy-gate.ts).
THEOREM LockEndsWithWork == Spec => []LockedByWorkOrCrash
<1>1. LockInv => LockedByWorkOrCrash
  BY DEF LockInv
<1> QED
  BY <1>1, LockInvInit, LockStep, PTL DEF Spec
================================================================================
