----------------------------- MODULE IssueAgents -----------------------------
(***************************************************************************)
(* The agents that carry an issue of the repository to a pull request:     *)
(* proposal intake, issuer, planner and implementor (src/automation and    *)
(* the scripts that run them).  Each is a scheduled job of which one run   *)
(* goes at a time, and different jobs overlap: a run reads issues, labels, *)
(* comments and pull requests, decides, and then writes request by         *)
(* request; any request may fail, and the run with it.                     *)
(*                                                                         *)
(* A text is what the decisions look for in it.  Every number, title and   *)
(* hour is bounded by its constant; a run reads in one step, its lists are *)
(* never cut and their order is any order.                                 *)
(***************************************************************************)
EXTENDS Integers, Sequences, FiniteSets, SequencesExt, FiniteSetsExt

CONSTANTS
    Issue,     \* issue numbers
    Text,      \* what there may be in a text: structure, risk, a follow-up plan
    Key,       \* titles, up to spelling
    Kin,       \* Kin[<<k, l>>]: how else a text titled k is alike one titled l
    LeaseTtl,  \* IMPLEMENTOR_LEASE_TTL_MINUTES
    MaxTime, MaxCrashes, MaxActs

Kinship == {"none", "near", "follow", "regression"}
Agent == {"intake", "issuer", "planner", "implementor"}
Label == {"safe", "needsPlan", "planned", "implementing", "blocked", "hold"}

ASSUME IssueAgentsAssumption ==
    /\ Text \subseteq [structured : BOOLEAN, risky : BOOLEAN, followUp : BOOLEAN]
    /\ Issue \subseteq Nat \ {0} /\ IsFiniteSet(Issue)
    /\ Kin \in [Key \X Key -> Kinship]
    /\ LeaseTtl \in Nat /\ {MaxTime, MaxCrashes, MaxActs} \subseteq Nat

VARIABLES
    issue,     \* the issues: state, title, text, and the proposal it was made of
    labels,    \* their labels
    comments,  \* what issuer, planner and intake have said on them
    stamps,    \* when the implementor last took a lease, failed, was refused
    unchanged, \* no update of the issue since the implementor's last failure
    pulls,     \* an open pull request names the issue
    run,       \* the jobs each agent's run still has to do
    workflows, \* the agents that are switched on
    now, crashes, acts,
    stranded,  \* issues an implementor's run died on
    waiting    \* issues whose command asked for help, no human having come

vars == <<issue, labels, comments, stamps, unchanged, pulls, run, workflows, now,
          crashes, acts, stranded, waiting>>

Never == -LeaseTtl - 1
Open(i) == issue[i].state = "open"
Job(i, adds, drops, what, about) ==
    [issue |-> i, adds |-> adds, drops |-> drops, what |-> what, about |-> about]

----------------------------------------------------------------------------
(* The autonomy gate and the duplicate guard *)

IssuerEligible(i) == Open(i) /\ labels[i] \cap {"hold", "planned", "implementing"} = {}
PlannerActionable(i) ==
    /\ Open(i) /\ {"safe", "needsPlan"} \subseteq labels[i]
    /\ labels[i] \cap {"hold", "implementing", "blocked"} = {}

\* findSemanticOpenDuplicate among the lower numbers; 0 when there is none.
Duplicate(i, candidates) ==
    LET lower == {j \in candidates : j < i}
        same == {j \in lower : issue[j].key = issue[i].key}
        near == {j \in lower : Kin[<<issue[i].key, issue[j].key>>] = "near"}
    IN  IF same # {} THEN Min(same) ELSE IF near # {} THEN Min(near) ELSE 0

\* A comment is its reasons: status and wording follow from them.
Verdict(stage, i, dup, followUp) ==
    [stage |-> stage, structured |-> issue[i].text.structured \/ followUp,
     risky |-> issue[i].text.risky, dup |-> dup, followUp |-> followUp /\ dup = 0]
Suits(v) == v.structured /\ ~v.risky /\ v.dup = 0

\* A comment that says the same is no reason to be silent.
SaidNothing(i, v) == FALSE

Said(i, v) == v \in comments[i]

IssuerVerdict(i) ==
    Verdict("issuer", i, Duplicate(i, {j \in Issue : IssuerEligible(j)}), FALSE)
IssuerJob(i) ==
    LET v == IssuerVerdict(i)
        settled == {"safe", "needsPlan"} \subseteq labels[i]
    IN  IF Suits(v)
        THEN Job(i, IF settled THEN {} ELSE {"safe", "needsPlan"},
                 IF settled THEN labels[i] \cap {"blocked"} ELSE {"blocked"}, "verdict", v)
        ELSE Job(i, {}, {"safe", "needsPlan"}, "verdict", v)
IssuerJobs ==
    {job \in {IssuerJob(i) : i \in {j \in Issue : IssuerEligible(j) /\ issue[j].source = 0}} :
        /\ job.adds \cup job.drops # {}
        /\ ~\E c \in comments[job.issue] : c.stage = "resolution"
        /\ ~Said(job.issue, job.about)}

PlannerVerdict(i) ==
    Verdict("planner", i, Duplicate(i, {j \in Issue : PlannerActionable(j)}),
            issue[i].text.followUp)
PlannerJob(i) ==
    LET v == PlannerVerdict(i)
    IN  IF Suits(v) THEN Job(i, {"planned", "safe"}, {"needsPlan", "blocked"}, "verdict", v)
        ELSE Job(i, IF v.risky THEN {"blocked"} ELSE {},
                 {"safe", "needsPlan", "planned"}, "verdict", v)
PlannerJobs ==
    {job \in {PlannerJob(i) : i \in {j \in Issue : PlannerActionable(j)}} :
        ~Said(job.issue, job.about)}

----------------------------------------------------------------------------
(* The implementor's queue *)

Within(t) == now - t <= LeaseTtl
HasActiveLease(i) == Within(stamps[i].lease) \/ Within(stamps[i].refused)
HasRecentFailure(i) == Within(stamps[i].failed) /\ i \in unchanged
CanStart(i) ==
    /\ Open(i) /\ {"safe", "planned"} \subseteq labels[i]
    /\ labels[i] \cap {"hold", "implementing"} = {} /\ ~pulls[i]
    /\ ~HasActiveLease(i) /\ ~HasRecentFailure(i)

\* Whether some plan to be executed comes with an artifact, whose trust is
\* checked before anything is taken.
HasArtifact(i) == \E c \in comments[i] : c.stage = "planner" /\ c.followUp /\ ~c.risky
ImplementorJobs ==
    {Job(i, {}, {}, "preflight", HasArtifact(i)) : i \in {j \in Issue : CanStart(j)}}

----------------------------------------------------------------------------
(* Proposal intake *)

Relation(i, j) ==
    LET kin == Kin[<<issue[i].key, issue[j].key>>]
    IN  IF issue[i].key = issue[j].key THEN "exact"
        ELSE IF kin = "regression" /\ Open(j) THEN "none" ELSE kin
Matches(i) ==
    {j \in Issue \ {i} : issue[j].state # "absent" /\ Relation(i, j) # "none"}
Competing(i) == \E j, k \in Matches(i) : Relation(i, j) # Relation(i, k)
Active(j) ==
    /\ labels[j] \cap {"hold", "blocked"} = {}
    /\ labels[j] \cap {"planned", "implementing"} # {}

\* planProposalResolution: "none" also stands for a rejection, which the
\* script leaves without a comment.
Resolution(i) ==
    LET relevant == {j \in Matches(i) : Relation(i, j) # "follow"}
        best == Min(relevant)
    IN  IF Competing(i) THEN "none"
        ELSE IF relevant = {} THEN "fresh"
        ELSE IF Open(best) THEN (IF Active(best) THEN "linked" ELSE "existing")
        ELSE IF Relation(i, best) = "regression" THEN "linked" ELSE "none"
Target(i) == Min({j \in Matches(i) : Relation(i, j) # "follow"})

Resolved(i) ==
    \E c \in comments[i] : c.stage \in {"resolution", "link"} /\ c.key = issue[i].key

IntakeJobs ==
    {IF Resolution(i) = "existing" THEN Job(i, {}, {}, "resolve", 0)
     ELSE Job(i, {}, {}, "create", IF Resolution(i) = "linked" THEN Target(i) ELSE 0) :
        i \in {j \in Issue : Open(j) /\ issue[j].source = 0
                             /\ Resolution(j) # "none" /\ ~Resolved(j)}}

----------------------------------------------------------------------------
Init ==
    /\ issue \in [Issue -> [state : {"absent", "open", "closed"}, key : Key, text : Text,
                             source : {0}]]
    /\ labels = [i \in Issue |-> {}] /\ comments = [i \in Issue |-> {}]
    /\ stamps = [i \in Issue |-> [lease |-> Never, failed |-> Never, refused |-> Never]]
    /\ unchanged = {} /\ pulls = [i \in Issue |-> FALSE]
    /\ run = [a \in Agent |-> <<>>] /\ workflows \in SUBSET Agent
    /\ now = 0 /\ crashes = 0 /\ acts = 0 /\ stranded = {} /\ waiting = {}

Jobs(a) == CASE a = "issuer" -> IssuerJobs [] a = "planner" -> PlannerJobs
             [] a = "implementor" -> ImplementorJobs

\* The hour has come: the run reads and decides.  Intake does one thing a run.
Read(a) ==
    /\ a \in workflows /\ run[a] = <<>>
    /\ \E todo \in IF a = "intake" THEN {<<job>> : job \in IntakeJobs} \cup {<<>>}
                   ELSE SetToSeqs(Jobs(a)) :
          run' = [run EXCEPT ![a] = todo]
    /\ UNCHANGED <<issue, labels, comments, stamps, unchanged, pulls, workflows, now,
                   crashes, acts, stranded, waiting>>

\* The next write of a run, and what is left of its job.
Doing(a, what) == run[a] # <<>> /\ Head(run[a]).what \in what
Goes(a, job) == run' = [run EXCEPT ![a] = <<job>> \o Tail(@)]
Done(a) == run' = [run EXCEPT ![a] = Tail(@)]
Touch(i) == unchanged' = unchanged \ {i}
Labelled == {"verdict", "lease", "result"}
Settled(a) == Head(run[a]).adds = {} /\ Head(run[a]).drops = {}

AddLabels(a) ==
    /\ Doing(a, Labelled) /\ Head(run[a]).adds # {}
    /\ LET job == Head(run[a])
       IN  /\ labels' = [labels EXCEPT ![job.issue] = @ \cup job.adds]
           /\ Goes(a, [job EXCEPT !.adds = {}]) /\ Touch(job.issue)
    /\ UNCHANGED <<issue, comments, stamps, pulls, workflows, now, crashes, acts,
                   stranded, waiting>>

RemoveLabel(a) ==
    /\ Doing(a, Labelled) /\ Head(run[a]).adds = {} /\ Head(run[a]).drops # {}
    /\ LET job == Head(run[a])
           l == CHOOSE x \in job.drops : TRUE
       IN  /\ labels' = [labels EXCEPT ![job.issue] = @ \ {l}]
           /\ Goes(a, [job EXCEPT !.drops = @ \ {l}]) /\ Touch(job.issue)
    /\ UNCHANGED <<issue, comments, stamps, pulls, workflows, now, crashes, acts,
                   stranded, waiting>>

\* Issuer and planner: the comment comes after the labels.
PostVerdict(a) ==
    /\ Doing(a, {"verdict"}) /\ Settled(a)
    /\ LET job == Head(run[a])
       IN  /\ comments' = [comments EXCEPT ![job.issue] = @ \cup {job.about}]
           /\ Touch(job.issue)
    /\ Done(a)
    /\ UNCHANGED <<issue, labels, stamps, pulls, workflows, now, crashes, acts,
                   stranded, waiting>>

----------------------------------------------------------------------------
(* The implementor at work *)

\* A failed command leaves the lock.
CompletionKeepsLock(i, outcome) ==
    Job(i, IF outcome \in {"blocked", "refused"} THEN {"blocked"} ELSE {},
        IF outcome = "failed" THEN {} ELSE {"implementing"}, "result", outcome)

Completion(i, outcome) ==
    Job(i, IF outcome \in {"blocked", "refused"} THEN {"blocked"} ELSE {},
        {"implementing"}, "result", outcome)

\* A plan whose artifact is not trusted is refused before the lease is taken.
Preflight ==
    /\ Doing("implementor", {"preflight"})
    /\ LET job == Head(run["implementor"])
           claim == Job(job.issue, {"implementing"}, {"blocked"}, "lease", "")
       IN  \E next \in {claim}
                 \cup (IF job.about THEN {Completion(job.issue, "refused")} ELSE {}) :
             Goes("implementor", next)
    /\ UNCHANGED <<issue, labels, comments, stamps, unchanged, pulls, workflows, now,
                   crashes, acts, stranded, waiting>>

PostLease ==
    /\ Doing("implementor", {"lease"}) /\ Settled("implementor")
    /\ LET job == Head(run["implementor"])
       IN  /\ stamps' = [stamps EXCEPT ![job.issue].lease = now]
           /\ Goes("implementor", [job EXCEPT !.what = "command"]) /\ Touch(job.issue)
    /\ UNCHANGED <<issue, labels, comments, pulls, workflows, now, crashes, acts,
                   stranded, waiting>>

\* The command, or its fallback, ends or is killed; it may have opened a pull
\* request that names the issue whatever it answers.
RunCommand ==
    /\ Doing("implementor", {"command"})
    /\ LET i == Head(run["implementor"]).issue
       IN  /\ \E outcome \in {"pr-created", "failed", "blocked"} :
                 Goes("implementor", Completion(i, outcome))
           /\ \E opened \in BOOLEAN : pulls' = [pulls EXCEPT ![i] = @ \/ opened]
    /\ UNCHANGED <<issue, labels, comments, stamps, unchanged, workflows, now, crashes,
                   acts, stranded, waiting>>

PostResult ==
    /\ Doing("implementor", {"result"}) /\ Settled("implementor")
    /\ LET job == Head(run["implementor"])
       IN  /\ stamps' = [stamps EXCEPT
                 ![job.issue].failed = IF job.about = "failed" THEN now ELSE @,
                 ![job.issue].refused = IF job.about = "refused" THEN now ELSE @]
           /\ unchanged' = IF job.about = "failed" THEN unchanged \cup {job.issue}
                           ELSE unchanged \ {job.issue}
           /\ waiting' = IF job.about = "blocked" THEN waiting \cup {job.issue} ELSE waiting
    /\ Done("implementor")
    /\ UNCHANGED <<issue, labels, comments, pulls, workflows, now, crashes, acts, stranded>>

----------------------------------------------------------------------------
(* Proposal intake at work: the issue, the link, the resolution *)

NextNumber == Min({j \in Issue : \A k \in Issue : issue[k].state # "absent" => k < j})

CreateIssue ==
    /\ Doing("intake", {"create"})
    /\ LET job == Head(run["intake"])
       IN  /\ issue' = [issue EXCEPT ![NextNumber] =
                 [issue[job.issue] EXCEPT !.state = "open", !.source = job.issue]]
           /\ labels' = [labels EXCEPT ![NextNumber] = {"safe", "needsPlan"}]
           /\ Goes("intake", [job EXCEPT !.what = IF job.about # 0 THEN "link" ELSE "resolve"])
    /\ UNCHANGED <<comments, stamps, unchanged, pulls, workflows, now, crashes, acts,
                   stranded, waiting>>

Comment(i, c) == comments' = [comments EXCEPT ![i] = @ \cup {c}]

LinkTarget ==
    /\ Doing("intake", {"link"})
    /\ LET job == Head(run["intake"])
       IN  /\ Comment(job.about, [stage |-> "link", key |-> issue[job.issue].key])
           /\ Goes("intake", [job EXCEPT !.what = "resolve"]) /\ Touch(job.about)
    /\ UNCHANGED <<issue, labels, stamps, pulls, workflows, now, crashes, acts,
                   stranded, waiting>>

PostResolution ==
    /\ Doing("intake", {"resolve"})
    /\ LET i == Head(run["intake"]).issue
       IN  Comment(i, [stage |-> "resolution", key |-> issue[i].key]) /\ Touch(i)
    /\ Done("intake")
    /\ UNCHANGED <<issue, labels, stamps, pulls, workflows, now, crashes, acts,
                   stranded, waiting>>

----------------------------------------------------------------------------
(* The world around the agents *)

\* A request fails and the rest of the run is lost.
Crash(a) ==
    /\ run[a] # <<>> /\ crashes < MaxCrashes
    /\ run' = [run EXCEPT ![a] = <<>>] /\ crashes' = crashes + 1
    /\ stranded' = IF a = "implementor" THEN stranded \cup {Head(run[a]).issue} ELSE stranded
    /\ UNCHANGED <<issue, labels, comments, stamps, unchanged, pulls, workflows, now, acts,
                   waiting>>

Tick ==
    /\ now < MaxTime /\ now' = now + 1
    /\ UNCHANGED <<issue, labels, comments, stamps, unchanged, pulls, run, workflows,
                   crashes, acts, stranded, waiting>>

\* A human rewrites an issue, closes it, pauses it or takes labels off it.
HumanActs(i) ==
    /\ Open(i) /\ acts < MaxActs /\ acts' = acts + 1
    /\ \/ \E t \in Text \ {issue[i].text} : issue' = [issue EXCEPT ![i].text = t] /\ UNCHANGED labels
       \/ issue' = [issue EXCEPT ![i].state = "closed"] /\ UNCHANGED labels
       \/ /\ labels' = [labels EXCEPT ![i] = IF "hold" \in @ THEN @ \ {"hold"} ELSE @ \cup {"hold"}]
          /\ UNCHANGED issue
       \/ labels' = [labels EXCEPT ![i] = @ \ {"implementing", "blocked"}] /\ UNCHANGED issue
    /\ Touch(i) /\ waiting' = waiting \ {i}
    /\ UNCHANGED <<comments, stamps, pulls, run, workflows, now, crashes, stranded>>

\* The pull request is merged or closed; the issue need not be.
PullEnds(i) ==
    /\ pulls[i] /\ pulls' = [pulls EXCEPT ![i] = FALSE]
    /\ UNCHANGED <<issue, labels, comments, stamps, unchanged, run, workflows, now,
                   crashes, acts, stranded, waiting>>

Work(a) ==
    \/ AddLabels(a) \/ RemoveLabel(a) \/ PostVerdict(a)
    \/ a = "implementor" /\ (Preflight \/ PostLease \/ RunCommand \/ PostResult)
    \/ a = "intake" /\ (CreateIssue \/ LinkTarget \/ PostResolution)

Next ==
    \/ \E a \in Agent : Read(a) \/ Work(a) \/ Crash(a)
    \/ \E i \in Issue : HumanActs(i) \/ PullEnds(i)
    \/ Tick

\* A job that is started is finished, unless it crashes.
Fairness == \A a \in Agent : WF_vars(Work(a))
Spec == Init /\ [][Next]_vars /\ Fairness

----------------------------------------------------------------------------
(* Properties *)

\* Types of the state.
TypeOK ==
    /\ labels \in [Issue -> SUBSET Label] /\ pulls \in [Issue -> BOOLEAN]
    /\ unchanged \subseteq Issue /\ stranded \subseteq Issue /\ waiting \subseteq Issue
    /\ DOMAIN run = Agent /\ workflows \in SUBSET Agent

\* The label that locks an issue outlives the work on it only where a run of
\* the implementor died: every way a run can end gives the issue back.
LockedByWorkOrCrash ==
    \A i \in Issue : "implementing" \in labels[i] =>
        \/ i \in stranded
        \/ Doing("implementor", {"lease", "command", "result"})
              /\ Head(run["implementor"]).issue = i

\* What issuer, planner and intake say of one another's labels comes to an end:
\* once the humans are quiet they do not write for ever.
AgentsFallSilent == <>[](\A a \in {"intake", "issuer", "planner"} : run[a] = <<>>)

\* A proposal is made an issue once, and again only for a run that died between
\* the issue and the comment that says so.
CreatedOncePerCrash ==
    \A i \in Issue : Cardinality({j \in Issue : issue[j].source = i}) <= 1 + crashes

\* docs/AUTONOMOUS-AGENTS.md:185 has the implementor block an issue "only when
\* retry should stop pending human help": no lease is taken before a human came.
BlockedWaitsForHuman ==
    [][\A i \in waiting : stamps'[i].lease = stamps[i].lease]_vars

\* src/automation/semantic-triage.ts:137 calls exact titles "a required minimum
\* fallback": of two open issues with one title one at most is planned.
TwinsNotPlanned ==
    \A i, j \in Issue : i # j /\ Open(i) /\ Open(j) /\ issue[i].key = issue[j].key
                       => ~("planned" \in labels[i] /\ "planned" \in labels[j])

=============================================================================
