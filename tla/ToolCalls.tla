------------------------------- MODULE ToolCalls -------------------------------
(***************************************************************************)
(* Which of a profile's tools a session may call, and what a call then         *)
(* asks of the REST API: the process-wide filter from the environment, the *)
(* session's own filter, the enterprise policy's categories, and the       *)
(* dispatch of src/mcp/mcp-server.ts over src/tool-filter.                 *)
(*                                                                         *)
(* A rule, exact names or a pattern, is the set of the names it matches.   *)
(* X-Mcp4-Params and the schema of the arguments are left out: a call that *)
(* they refuse asks nothing.                                               *)
(***************************************************************************)
EXTENDS FiniteSets

CONSTANTS
    Profiles,    \* the tables of tools a profile may have, by name
    EnvFilters,  \* the filters of the environment: [allow, deny, categories]
    Headers,     \* the filters of a session: [allow, categories]
    Session,
    Policies,    \* the category sets of an access policy; {} where there is none
    Category     \* of every operation of the OpenAPI document

\* A tool has operations, each with its action, its form and its identifier;
\* a composite tool has steps in their place, the operations they call.
VARIABLES
    original,    \* the profile's tools
    server,      \* "starting", "serving", "failed"
    served,      \* the names of the tools after the environment's filter
    byCategory,  \* the environment's filter allows by category alone
    session,     \* "none", "open", "lost": its initialize was refused
    allowed,     \* the names the session's filter left
    policy,      \* the categories its present token allows
    dispatch,    \* the session's call: what it may still ask
    request      \* the latest request: [tool, op, under], with the call's policy

callVars == <<original, server, served, byCategory, session, allowed, policy, dispatch, request>>

NoCall == [tool |-> "none", under |-> {}, asks |-> {}]
NoRequest == [tool |-> "none", op |-> "none", under |-> {}]

-----------------------------------------------------------------------------
(* Categories. *)

Known == DOMAIN Category
\* What an operation is taken for: by the document, else by the action's name.
CategoryOf(o) ==
    IF o.op \in Known THEN Category[o.op]
    ELSE CASE o.action \in {"list", "search"} -> "list"
           [] o.action \in {"get", "read"} -> "read"
           [] OTHER -> "modify"

\* What the filters take a tool for.
Detected(tool) ==
    IF tool.composite
    THEN { c \in {"list", "read"} :
             tool.steps # {} /\ \A op \in tool.steps : op \in Known /\ Category[op] = c }
    ELSE { CategoryOf(o) : o \in { x \in tool.operations : x.form = "plain" } } \ {"modify"}
CategoryMatches(categories, tool) ==
    \/ categories = {"list", "read"} /\ Detected(tool) # {}
    \/ Cardinality(categories) = 1 /\ Detected(tool) = categories

\* What the enterprise policy takes it for.
Parts(tool) ==
    IF tool.composite
    THEN { IF op \in Known THEN Category[op] ELSE "modify" : op \in tool.steps }
    ELSE { IF o.form = "plain" THEN CategoryOf(o) ELSE "modify" : o \in tool.operations }
\* Mutant: a tool with a list among its parts is a list.
AnyListed(tool) == IF "list" \in Parts(tool) THEN "list" ELSE "modify"

RequiredCategory(tool) ==
    IF Parts(tool) = {"list"} THEN "list"
    ELSE IF Parts(tool) = {"read"} THEN "read" ELSE "modify"
PolicyAllows(categories, tool) == categories = {} \/ RequiredCategory(tool) \in categories

-----------------------------------------------------------------------------
(* The filters. *)

\* Denied first; without a rule to allow, all others pass.
Passes(name, tool, allow, deny, categories) ==
    /\ \A rule \in deny : name \notin rule
    /\ \/ allow = {} /\ categories = {}
       \/ \E rule \in allow : name \in rule
       \/ CategoryMatches(categories, tool)

\* The operations some of the tools offer under their identifier alone.
PlainOf(names) == { o.op : o \in { x \in UNION { original[n].operations : n \in names } : x.form = "plain" } }

\* A composite tool that is left calls no operation that only removed tools offer.
StepsReach(left) ==
    \A n \in left : \A op \in original[n].steps \cap Known :
        op \in PlainOf(left) \/ op \notin PlainOf(DOMAIN original)

HasNoEffect(left, of) == of # {} /\ (left = of \/ left = {})

CallsInit ==
    /\ original \in Profiles /\ server = "starting" /\ served = {} /\ byCategory = FALSE
    /\ session = [s \in Session |-> "none"] /\ allowed = [s \in Session |-> {}]
    /\ policy = [s \in Session |-> {}] /\ dispatch = [s \in Session |-> NoCall]
    /\ request = NoRequest

ServerStarts ==
    /\ server = "starting"
    /\ \E f \in EnvFilters :
         LET all == DOMAIN original
             left == { n \in all : Passes(n, original[n], f.allow, f.deny, f.categories) }
             unset == f.allow = {} /\ f.deny = {} /\ f.categories = {}
         IN IF unset
              THEN served' = all /\ byCategory' = FALSE /\ server' = "serving"
            ELSE IF HasNoEffect(left, all) \/ ~ StepsReach(left)
              THEN server' = "failed" /\ UNCHANGED <<served, byCategory>>
            ELSE /\ served' = left /\ server' = "serving"
                 /\ byCategory' = (f.categories # {} /\ f.allow = {})
    /\ UNCHANGED <<original, session, allowed, policy, dispatch, request>>

\* initialize: the session is made, then filtered; one whose filter is refused
\* stays behind, and its client never learns its name.
Opens(s) ==
    /\ server = "serving" /\ session[s] = "none"
    /\ session' = [session EXCEPT ![s] = "open"]
    /\ allowed' = [allowed EXCEPT ![s] = served]
    /\ \E p \in Policies : policy' = [policy EXCEPT ![s] = p]
    /\ UNCHANGED <<original, server, served, byCategory, dispatch, request>>
OpensFiltered(s) ==
    /\ server = "serving" /\ session[s] = "none"
    /\ \E h \in Headers :
         LET left == { n \in served : Passes(n, original[n], h.allow, {}, h.categories) }
         IN IF HasNoEffect(left, served)
              THEN session' = [session EXCEPT ![s] = "lost"] /\ UNCHANGED allowed
              ELSE /\ session' = [session EXCEPT ![s] = "open"]
                   /\ allowed' = [allowed EXCEPT ![s] = left]
    /\ \E p \in Policies : policy' = [policy EXCEPT ![s] = p]
    /\ UNCHANGED <<original, server, served, byCategory, dispatch, request>>

\* The session gets another token, or its token's principal is dropped.
TokenChanges(s) ==
    /\ session[s] = "open"
    /\ \E p \in Policies : policy' = [policy EXCEPT ![s] = p]
    /\ UNCHANGED <<original, server, served, byCategory, session, allowed, dispatch, request>>

-----------------------------------------------------------------------------
(* A call. *)

\* What the call of a tool may ask: the steps, or one of the operations.
Asked(tool) == IF tool.composite THEN { tool.steps } ELSE { {o.op} : o \in tool.operations }

CallAdmitted(s, n) ==
    /\ session[s] = "open" /\ dispatch[s] = NoCall
    /\ n \in served /\ n \in allowed[s]
    /\ PolicyAllows(policy[s], original[n])
    /\ \E a \in Asked(original[n]) :
         dispatch' = [dispatch EXCEPT ![s] = [tool |-> n, under |-> policy[s], asks |-> a]]
    /\ UNCHANGED <<original, server, served, byCategory, session, allowed, policy, request>>

RequestMade(s, op) ==
    /\ op \in dispatch[s].asks \cap Known
    /\ dispatch' = [dispatch EXCEPT ![s].asks = @ \ {op}]
    /\ request' = [tool |-> dispatch[s].tool, op |-> op, under |-> dispatch[s].under]
    /\ UNCHANGED <<original, server, served, byCategory, session, allowed, policy>>

\* Answered, or thrown: an operation the document lacks, or a failed step.
CallOver(s) ==
    /\ dispatch[s] # NoCall
    /\ dispatch' = [dispatch EXCEPT ![s] = NoCall]
    /\ UNCHANGED <<original, server, served, byCategory, session, allowed, policy, request>>

CallsNext ==
    \/ ServerStarts
    \/ \E s \in Session :
         \/ Opens(s) \/ OpensFiltered(s) \/ TokenChanges(s) \/ CallOver(s)
         \/ \E n \in DOMAIN original : CallAdmitted(s, n)
         \/ \E op \in Known : RequestMade(s, op)

CallsSpec == CallsInit /\ [][CallsNext]_callVars

-----------------------------------------------------------------------------
(* Properties. *)

\* An operation that modifies is asked only under a policy that allows tools
\* that do, whatever is mixed in the tool; a list or a read only under a policy
\* that allows those, or them (getToolCategory judges a tool by all its parts).
RequestsWithinPolicy ==
    \/ request = NoRequest \/ request.under = {}
    \/ "modify" \in request.under \/ Category[request.op] \in request.under

\* No request reaches an operation that only tools removed by the environment's
\* filter offer: not through the steps of a composite tool either.
Offers(n, op) == \E o \in original[n].operations : o.op = op
RemovedOutOfReach ==
    \/ request = NoRequest \/ request.op \notin PlainOf(DOMAIN original)
    \/ \E n \in served : Offers(n, request.op)

\* A call stays within its reach in both ways, however its tool is made up.
ReachKept == RequestsWithinPolicy /\ RemovedOutOfReach

\* filter-rules.ts: a rule that allows list and read accepts no tool that has
\* modify operations.
CategoryServesNoModify ==
    byCategory /\ request # NoRequest => Category[request.op] # "modify"
===============================================================================
