------------------------------ MODULE MCAgents ------------------------------
(* Small instances of the agents: those that work on issues, and those that  *)
(* review and merge a pull request.  One part goes on, the other rests.      *)
EXTENDS IssueAgents, MergeAgents

CONSTANT k

VARIABLE part
agentVars == <<vars, mergeVars, part>>

Numbers == 1..3
Unlike == [pair \in Key \X Key |-> "none"]
Plain == [structured |-> TRUE, risky |-> FALSE, followUp |-> FALSE]
Vague == [structured |-> FALSE, risky |-> FALSE, followUp |-> TRUE]
Risky == [structured |-> TRUE, risky |-> TRUE, followUp |-> TRUE]
Texts == {Plain, Vague, Risky}
Is(state, text) == [state |-> state, key |-> k, text |-> text, source |-> 0]

\* Intake, issuer and planner over one proposal.
ProposalInit ==
    /\ issue = [i \in Issue |-> Is(IF i = 1 THEN "open" ELSE "absent", Plain)]
    /\ workflows = {"intake", "issuer", "planner"}

\* Issuer and planner over two issues of one title.
TwinInit ==
    /\ issue = [i \in Issue |-> IF i = 1 THEN Is("open", Plain)
                                ELSE Is(IF i = 2 THEN "open" ELSE "absent", Vague)]
    /\ workflows = {"issuer", "planner"}

\* Planner and implementor over one issue: only here the hour matters.
WorkInit ==
    /\ issue = [i \in Issue |-> Is(IF i = 1 THEN "open" ELSE "absent", Vague)]
    /\ workflows = {"issuer", "planner", "implementor"}

\* A run dies and the second push repairs the first; the reviewer is answered;
\* a human steps in.
PullInit ==
    /\ ~pull.draft
    /\ \/ /\ opinion = <<"changes-requested", "approved">> /\ ~pull.lane
          /\ replies = MaxReplies /\ humanActs = MaxHumanActs /\ deaths = 0
       \/ /\ opinion = <<"approved", "commented">> /\ ~pull.lane
          /\ replies = 0 /\ humanActs = MaxHumanActs /\ deaths = MaxDeaths
       \/ /\ opinion = <<"approved", "approved">>
          /\ replies = MaxReplies /\ humanActs = 0 /\ deaths = MaxDeaths

NoPull ==
    /\ pull.draft /\ ~pull.lane /\ opinion = [h \in Commit |-> "approved"]
    /\ replies = 0 /\ humanActs = 0 /\ deaths = 0

IssuesInit == (ProposalInit \/ TwinInit \/ WorkInit) /\ Init /\ MergeInit /\ NoPull
IssuesNext == Next /\ ("implementor" \in workflows \/ now' = now)
MergesInit ==
    /\ issue = [i \in Issue |-> Is("absent", Plain)] /\ workflows = {} /\ Init
    /\ MergeInit /\ PullInit

AgentsInit ==
    \/ part = "issues" /\ IssuesInit
    \/ part = "merges" /\ MergesInit
AgentsNext ==
    \/ part = "issues" /\ IssuesNext /\ UNCHANGED <<mergeVars, part>>
    \/ part = "merges" /\ MergeNext /\ UNCHANGED <<vars, part>>

\* Fairness and MergeFairness, each in its part.
OnIssues(A) == part = "issues" /\ A /\ UNCHANGED <<mergeVars, part>>
OnMerges(A) == part = "merges" /\ A /\ UNCHANGED <<vars, part>>
AgentsFairness ==
    /\ \A a \in Agent : WF_vars(OnIssues(Work(a)))
    /\ WF_mergeVars(OnMerges(ReviewerRun)) /\ WF_mergeVars(OnMerges(MergerRun))
    /\ WF_mergeVars(OnMerges(ExecutorRun)) /\ WF_mergeVars(OnMerges(TimePasses))
AgentsSpec == AgentsInit /\ [][AgentsNext]_agentVars /\ AgentsFairness
=============================================================================
