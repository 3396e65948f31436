----------------------------- MODULE MergeAgents -----------------------------
(***************************************************************************)
(* The agents that carry a pull request to its merge: reviewer, merger and *)
(* merge executor (src/automation and the scripts that run them).  One run *)
(* of each goes at a time; the three overlap with one another, with pushes *)
(* and with humans.  A run lists the pull request, reads what belongs to   *)
(* the head it saw in the list, and writes request by request.             *)
(*                                                                         *)
(* One pull request; heads are numbered in the order of their first push.  *)
(* Ages are counted in ticks and stop at the lease's end.                  *)
(***************************************************************************)
EXTENDS Integers, Sequences, FiniteSetsExt

CONSTANTS
    MaxHeads,      \* pushes
    ReviewTtl,     \* REVIEWER_LEASE_TTL_MINUTES, the same for merger and executor
    MaxReplies, MaxHumanActs, MaxDeaths,
    MayReturn      \* an earlier head may be pushed again

ASSUME MergeAgentsAssumption ==
    /\ MaxHeads \in Nat \ {0} /\ ReviewTtl \in Nat /\ MayReturn \in BOOLEAN
    /\ {MaxReplies, MaxHumanActs, MaxDeaths} \subseteq Nat

Commit == 1..MaxHeads
Mark == {"required", "progress", "done", "ready", "blocked", "hold"}
Opinion == {"approved", "changes-requested", "commented"}

VARIABLES
    pull,      \* its head, whether it is a draft, is kept for humans, is merged
    marks,     \* its labels
    opinion,   \* what the review of each head's files comes to
    ci,        \* what the checks of each head say
    leaseAge,  \* ticks since the reviewer last took each head
    decisions, \* the reviews: head they name, head their files were of, verdict
    thread,    \* a discussion the reviewer owns, and what is new in it
    reviewer, merger, executor, \* what each run still has to do
    replies, humanActs, deaths

mergeVars == <<pull, marks, opinion, ci, leaseAge, decisions, thread, reviewer, merger,
               executor, replies, humanActs, deaths>>

Idle == [step |-> "idle"]

----------------------------------------------------------------------------
(* What the gates read *)

Lifecycle == marks \cap {"required", "progress", "done", "ready"} # {}
ReviewLease(h) == leaseAge[h] <= ReviewTtl
\* A review of any head is taken for one of this head.
DecidedOnce(h) == decisions # <<>>

Decided(h) == \E n \in 1..Len(decisions) : decisions[n].head = h

\* findLatestReviewerDecision
Latest(h) ==
    LET own == {n \in 1..Len(decisions) : decisions[n].head = h}
    IN  IF own = {} THEN "none" ELSE decisions[Max(own)].verdict

\* A reply no decision has followed, in a thread that names this head.
FollowUp(h) == thread.head = h /\ thread.pending
Blocking(h) == thread.head = h /\ thread.state = "open"

Held == marks \cap {"hold", "blocked"} # {}
Seen == [head |-> pull.head, draft |-> pull.draft, held |-> Held]

\* evaluateMergeGate; whoever asks has seen a lifecycle label.
GatePasses(seen) ==
    LET h == seen.head
    IN  /\ ~seen.draft /\ ~seen.held
        /\ ~ReviewLease(h) /\ ~FollowUp(h) /\ ~Blocking(h)
        /\ Latest(h) = "approved" /\ ~pull.lane /\ ci[h] = "green"

----------------------------------------------------------------------------
MergeInit ==
    /\ pull \in [head : {1}, draft : BOOLEAN, lane : BOOLEAN, merged : {0}]
    /\ marks = {"required"} /\ opinion \in [Commit -> Opinion]
    /\ ci = [h \in Commit |-> "running"]
    /\ leaseAge = [h \in Commit |-> ReviewTtl + 1] /\ decisions = <<>>
    /\ thread = [head |-> 0, state |-> "none", pending |-> FALSE, now |-> FALSE]
    /\ reviewer = Idle /\ merger = Idle /\ executor = Idle
    /\ replies \in 0..MaxReplies /\ humanActs \in 0..MaxHumanActs /\ deaths \in 0..MaxDeaths

Unmerged == pull.merged = 0

\* collectReviewerAssignments: the head is the one of the list.
ListForReview ==
    /\ reviewer = Idle /\ Unmerged
    /\ ~pull.draft /\ Lifecycle /\ ~Held
    /\ ~ReviewLease(pull.head) /\ (~Decided(pull.head) \/ FollowUp(pull.head))
    /\ reviewer' = [step |-> "mark", head |-> pull.head]
    /\ UNCHANGED <<pull, marks, opinion, ci, leaseAge, decisions, thread, merger, executor,
                   replies, humanActs, deaths>>

MarkInProgress ==
    /\ reviewer.step = "mark" /\ marks' = marks \cup {"progress"}
    /\ reviewer' = [reviewer EXCEPT !.step = "lease"]
    /\ UNCHANGED <<pull, opinion, ci, leaseAge, decisions, thread, merger, executor,
                   replies, humanActs, deaths>>

LeaseHead ==
    /\ reviewer.step = "lease" /\ leaseAge' = [leaseAge EXCEPT ![reviewer.head] = 0]
    /\ reviewer' = [reviewer EXCEPT !.step = "files"]
    /\ UNCHANGED <<pull, marks, opinion, ci, decisions, thread, merger, executor,
                   replies, humanActs, deaths>>

\* The files are those of the pull request now, not those of the head listed.
ReadFiles ==
    /\ reviewer.step = "files"
    /\ reviewer' = [step |-> "review", head |-> reviewer.head, files |-> pull.head]
    /\ UNCHANGED <<pull, marks, opinion, ci, leaseAge, decisions, thread, merger, executor,
                   replies, humanActs, deaths>>

\* A decision of the second in which the reply came does not settle it.
Review ==
    /\ reviewer.step = "review"
    /\ decisions' = Append(decisions, [head |-> reviewer.head, files |-> reviewer.files,
                                       verdict |-> opinion[reviewer.files]])
    /\ thread' = [thread EXCEPT !.pending = @ /\ (reviewer.head # thread.head \/ thread.now)]
    /\ reviewer' = [step |-> "done", verdict |-> opinion[reviewer.files]]
    /\ UNCHANGED <<pull, marks, opinion, ci, leaseAge, merger, executor, replies,
                   humanActs, deaths>>

\* planReviewerCompletion, its additions before its removals.
MarkDone ==
    /\ reviewer.step = "done"
    /\ marks' = IF reviewer.verdict = "changes-requested" THEN marks ELSE marks \cup {"done"}
    /\ reviewer' = [reviewer EXCEPT !.step = "unmark"]
    /\ UNCHANGED <<pull, opinion, ci, leaseAge, decisions, thread, merger, executor,
                   replies, humanActs, deaths>>

Unmark ==
    /\ reviewer.step = "unmark"
    /\ marks' = marks \ (IF reviewer.verdict = "changes-requested" THEN {"done", "progress"}
                         ELSE {"progress"})
    /\ reviewer' = Idle
    /\ UNCHANGED <<pull, opinion, ci, leaseAge, decisions, thread, merger, executor,
                   replies, humanActs, deaths>>

----------------------------------------------------------------------------
(* Merger: the list first, the gate of the listed head later *)

ListForMerger ==
    /\ merger = Idle /\ Unmerged /\ Lifecycle
    /\ merger' = [step |-> "gate", pull |-> Seen]
    /\ UNCHANGED <<pull, marks, opinion, ci, leaseAge, decisions, thread, reviewer, executor,
                   replies, humanActs, deaths>>

EvaluateGate ==
    /\ merger.step = "gate"
    /\ merger' = [step |-> "label",
                  ready |-> GatePasses(merger.pull)]
    /\ UNCHANGED <<pull, marks, opinion, ci, leaseAge, decisions, thread, reviewer, executor,
                   replies, humanActs, deaths>>

SetReady ==
    /\ merger.step = "label"
    /\ marks' = IF merger.ready THEN marks \cup {"ready"} ELSE marks \ {"ready"}
    /\ merger' = Idle
    /\ UNCHANGED <<pull, opinion, ci, leaseAge, decisions, thread, reviewer, executor,
                   replies, humanActs, deaths>>

----------------------------------------------------------------------------
(* Merge executor *)

ListCandidate ==
    /\ executor = Idle /\ Unmerged /\ "ready" \in marks
    /\ executor' = [step |-> "plan", expected |-> pull.head]
    /\ UNCHANGED <<pull, marks, opinion, ci, leaseAge, decisions, thread, reviewer, merger,
                   replies, humanActs, deaths>>

\* planMergeExecution over the pull request as it is now.
PlanMerge ==
    /\ executor.step = "plan"
    /\ LET go == /\ "ready" \in marks /\ executor.expected = pull.head
                 /\ GatePasses(Seen)
       IN  executor' = IF go THEN [step |-> "merge", expected |-> pull.head]
                       ELSE IF "ready" \in marks THEN [step |-> "unlabel"] ELSE Idle
    /\ UNCHANGED <<pull, marks, opinion, ci, leaseAge, decisions, thread, reviewer, merger,
                   replies, humanActs, deaths>>

\* The API is asked to merge, and no head is named.
MergeWhateverIsThere ==
    /\ executor.step = "merge"
    /\ IF Unmerged /\ ~pull.draft
       THEN /\ pull' = [pull EXCEPT !.merged = pull.head]
            /\ executor' = [step |-> "unlabel"]
       ELSE executor' = Idle /\ UNCHANGED pull
    /\ UNCHANGED <<marks, opinion, ci, leaseAge, decisions, thread, reviewer, merger,
                   replies, humanActs, deaths>>

\* GitHub refuses another head, a draft, and what is merged; the run then dies.
MergePull ==
    /\ executor.step = "merge"
    /\ IF executor.expected = pull.head /\ Unmerged /\ ~pull.draft
       THEN /\ pull' = [pull EXCEPT !.merged = pull.head]
            /\ executor' = [step |-> "unlabel"]
       ELSE executor' = Idle /\ UNCHANGED pull
    /\ UNCHANGED <<marks, opinion, ci, leaseAge, decisions, thread, reviewer, merger,
                   replies, humanActs, deaths>>

UnlabelReady ==
    /\ executor.step = "unlabel" /\ marks' = marks \ {"ready"} /\ executor' = Idle
    /\ UNCHANGED <<pull, opinion, ci, leaseAge, decisions, thread, reviewer, merger,
                   replies, humanActs, deaths>>

----------------------------------------------------------------------------
(* Pushes, checks, humans, time and failure *)

Push ==
    /\ Unmerged
    /\ \E h \in Commit : /\ h = pull.head + 1 \/ (MayReturn /\ h < pull.head)
                         /\ pull' = [pull EXCEPT !.head = h]
    /\ UNCHANGED <<marks, opinion, ci, leaseAge, decisions, thread, reviewer, merger,
                   executor, replies, humanActs, deaths>>

Checked ==
    /\ \E h \in 1..pull.head, result \in {"green", "red"} :
          ci[h] = "running" /\ ci' = [ci EXCEPT ![h] = result]
    /\ UNCHANGED <<pull, marks, opinion, leaseAge, decisions, thread, reviewer, merger,
                   executor, replies, humanActs, deaths>>

\* Someone writes under the reviewer's name and is answered: by the implementor,
\* whose metadata name the head, or by a human.
Discuss ==
    /\ replies < MaxReplies /\ replies' = replies + 1 /\ Unmerged
    /\ \/ thread' = [head |-> pull.head, state |-> "open", pending |-> FALSE, now |-> FALSE]
       \/ /\ thread.head # 0
          /\ \E by \in {"implementor", "human"} :
                thread' = [thread EXCEPT !.pending = TRUE, !.now = TRUE,
                    !.state = IF by = "implementor" /\ thread.head = pull.head
                              THEN "addressed" ELSE @]
    /\ UNCHANGED <<pull, marks, opinion, ci, leaseAge, decisions, reviewer, merger,
                   executor, humanActs, deaths>>

HumanSteps ==
    /\ humanActs < MaxHumanActs /\ humanActs' = humanActs + 1 /\ Unmerged
    /\ \/ /\ \E m \in {"hold", "ready"} :
                 marks' = IF m \in marks THEN marks \ {m} ELSE marks \cup {m}
          /\ UNCHANGED <<pull, thread>>
       \/ pull' = [pull EXCEPT !.draft = ~@] /\ UNCHANGED <<marks, thread>>
       \/ thread' = [thread EXCEPT !.state = IF @ = "open" THEN "addressed" ELSE @]
             /\ UNCHANGED <<marks, pull>>
    /\ UNCHANGED <<opinion, ci, leaseAge, decisions, reviewer, merger, executor,
                   replies, deaths>>

TimePasses ==
    /\ thread.now \/ \E h \in Commit : leaseAge[h] <= ReviewTtl
    /\ leaseAge' = [h \in Commit |-> IF leaseAge[h] <= ReviewTtl THEN leaseAge[h] + 1
                                     ELSE leaseAge[h]]
    /\ thread' = [thread EXCEPT !.now = FALSE]
    /\ UNCHANGED <<pull, marks, opinion, ci, decisions, reviewer, merger, executor,
                   replies, humanActs, deaths>>

RunDies ==
    /\ deaths < MaxDeaths /\ deaths' = deaths + 1
    /\ \/ reviewer # Idle /\ reviewer' = Idle /\ UNCHANGED <<merger, executor>>
       \/ merger # Idle /\ merger' = Idle /\ UNCHANGED <<reviewer, executor>>
       \/ executor # Idle /\ executor' = Idle /\ UNCHANGED <<reviewer, merger>>
    /\ UNCHANGED <<pull, marks, opinion, ci, leaseAge, decisions, thread, replies, humanActs>>

ReviewerRun ==
    \/ ListForReview \/ MarkInProgress \/ LeaseHead \/ ReadFiles \/ Review \/ MarkDone \/ Unmark
MergerRun == ListForMerger \/ EvaluateGate \/ SetReady
ExecutorRun == ListCandidate \/ PlanMerge \/ MergePull \/ UnlabelReady

MergeNext ==
    \/ ReviewerRun \/ MergerRun \/ ExecutorRun
    \/ Push \/ Checked \/ Discuss \/ HumanSteps \/ TimePasses \/ RunDies

\* The schedules start the runs again and again, and time passes.
MergeFairness ==
    /\ WF_mergeVars(ReviewerRun) /\ WF_mergeVars(MergerRun) /\ WF_mergeVars(ExecutorRun)
    /\ WF_mergeVars(TimePasses)

MergeSpec == MergeInit /\ [][MergeNext]_mergeVars /\ MergeFairness

----------------------------------------------------------------------------
(* Properties *)

\* Types of the state.
MergeTypeOK ==
    /\ marks \subseteq Mark /\ pull.head \in Commit /\ pull.merged \in Commit \cup {0}
    /\ opinion \in [Commit -> Opinion] /\ leaseAge \in [Commit -> 0..ReviewTtl + 1]
    /\ DOMAIN ci = Commit

\* What is merged was reviewed as it is and approved, and its checks were green:
\* neither a push after the review, nor one between the last look and the merge,
\* nor a label somebody set by hand lets other commits in.
MergedWasApproved ==
    pull.merged # 0 =>
        /\ \E n \in 1..Len(decisions) :
              decisions[n] = [head |-> pull.merged, files |-> pull.merged,
                              verdict |-> "approved"]
        /\ ci[pull.merged] = "green"

\* Nothing of the code's own stands in the way.
Mergeable ==
    /\ ~pull.draft /\ ~pull.lane /\ ~Held
    /\ ci[pull.head] = "green" /\ opinion[pull.head] = "approved"
    /\ ~Blocking(pull.head)

\* A pull request that stays mergeable is merged: whatever run died where, and
\* whatever labels and leases it left, they do not hold it for ever.
MergedEventually == (<>[]Mergeable) => <>(~Unmerged)

=============================================================================
