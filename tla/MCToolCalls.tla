----------------------------- MODULE MCToolCalls -----------------------------
(* A tool call: which tool it may be, the steps of a composite tool, the way *)
(* of one request through the interceptors, and whose the tokens are that a  *)
(* call goes out with.  Each goes its way alone while the others rest.       *)
EXTENDS Interceptors, StepGraph, ToolCalls, TokenIdentities
LOCAL INSTANCE TLC

VARIABLE part
toolVars == <<all, graphVars, callVars, idVars, part>>

\* Names of one and of two parts, each in any order of the steps; a name twice.
Mr == <<"mr">>
Notes == <<"mr", "notes">>
User == <<"user">>
Orders == { <<Mr, Notes, User>>, <<Notes, Mr, User>>, <<User, Notes, Mr>>, <<Mr, User, Mr>> }
MCTools == { [i \in 1..3 |-> [store_as |-> names[i], depends_on |-> needs[i]]] :
               names \in Orders, needs \in [1..3 -> SUBSET {Mr, Notes, User}] }

\* A tool of every mixture of categories, forms and unknown operations.
MCCategory == [ls |-> "list", rd |-> "read", wr |-> "modify"]
Op(a, f, x) == [action |-> a, form |-> f, op |-> x]
Simple(ops) == [composite |-> FALSE, operations |-> ops, steps |-> {}]
Composite(ops) == [composite |-> TRUE, operations |-> {}, steps |-> ops]
SimpleTools ==
    { Simple({Op("list", "plain", "ls")}), Simple({Op("get", "plain", "rd")}),
      Simple({Op("list", "plain", "ls"), Op("create", "plain", "wr")}),
      Simple({Op("list", "plain", "ls"), Op("get", "plain", "rd")}),
      Simple({Op("upload", "multipart", "wr"), Op("list", "plain", "ls")}),
      Simple({Op("get", "plain", "gone"), Op("download", "proxy", "rd")}) }
CompositeTools ==
    { Composite({"ls", "rd"}), Composite({"rd"}), Composite({"ls", "wr"}), Composite({"rd", "gone"}) }
MCProfiles == { [n \in {"a", "b", "c"} |-> CASE n = "a" -> x [] n = "b" -> y [] n = "c" -> z] :
                  x \in SimpleTools, y \in SimpleTools \cup CompositeTools, z \in CompositeTools }
MCEnvFilters ==
    { [allow |-> {}, deny |-> {}, categories |-> {}],
      [allow |-> {{"a"}, {"c"}}, deny |-> {}, categories |-> {}],
      [allow |-> {}, deny |-> {{"b"}}, categories |-> {}],
      [allow |-> {}, deny |-> {}, categories |-> {"list"}],
      [allow |-> {}, deny |-> {{"a"}}, categories |-> {"list", "read"}] }
MCHeaders == { [allow |-> {{"a"}}, categories |-> {}], [allow |-> {}, categories |-> {"read"}] }
MCPolicies == { {}, {"list"}, {"list", "read"}, {"modify"} }

\* Raw tokens; a consent-gated profile whose endpoints are to be discovered; no
\* verifier; a reference the operational check does not look at.
Config(absent, unset) ==
    [f \in Field |-> IF f \in absent THEN "absent" ELSE IF f \in unset THEN "unset" ELSE "given"]
Setup(config, unregistered, verified, keyed, consented) ==
    [ config |-> config, unregistered |-> unregistered, verified |-> verified,
      keyed |-> keyed, consented |-> consented ]
MCSettings ==
    { Setup(Config({}, {}), FALSE, TRUE, FALSE, FALSE),
      Setup(Config({"authorize", "token"}, {}), TRUE, TRUE, TRUE, TRUE),
      Setup(Config({"issuer"}, {}), FALSE, FALSE, TRUE, FALSE),
      Setup(Config({}, {"issuer"}), FALSE, TRUE, TRUE, FALSE) }
CONSTANT OneApp
MCAppOf == [l \in SignIn |-> OneApp]

\* Refreshes that wait differ by what they wait for alone.
Symmetry == Permutations(Renewal)

\* A part that rests starts in one of its states.
Choice(p, S) == IF part = p THEN S ELSE { CHOOSE x \in S : TRUE }
ToolInit ==
    /\ part \in {"chain", "graph", "calls", "tokens"}
    /\ operation \in Choice("chain", Bucket)
    /\ steps \in Choice("graph", Tools) /\ partial \in Choice("graph", BOOLEAN)
    /\ original \in Choice("calls", Profiles)
    /\ setup \in Choice("tokens", Settings)
    /\ InterceptorsInit /\ GraphInit /\ CallsInit /\ IdentitiesInit
ToolNext ==
    \/ part = "chain" /\ InterceptorsNext /\ UNCHANGED <<graphVars, callVars, idVars, part>>
    \/ part = "graph" /\ GraphNext /\ UNCHANGED <<all, callVars, idVars, part>>
    \/ part = "calls" /\ CallsNext /\ UNCHANGED <<all, graphVars, idVars, part>>
    \/ part = "tokens" /\ IdentitiesNext /\ UNCHANGED <<all, graphVars, callVars, part>>
ToolSpec == ToolInit /\ [][ToolNext]_toolVars
=============================================================================
