------------------------------- MODULE StepGraph -------------------------------
(***************************************************************************)
(* A composite tool: steps that name what they store and what they depend  *)
(* on.  src/profile/profile-loader.ts judges the graph when the profile is *)
(* loaded, src/tooling/dag-executor.ts sorts it into levels at every call, *)
(* src/tooling/composite-executor.ts asks a level's steps at once, waits   *)
(* for all of them, and puts their bodies into one answer.                 *)
(*                                                                         *)
(* A name is the sequence of the parts of a store_as path.  A name given   *)
(* twice in one depends_on is counted twice and discounted twice, so       *)
(* depends_on is a set.                                                    *)
(***************************************************************************)
EXTENDS Integers, Sequences, FiniteSets

CONSTANTS
    Tools,      \* the steps of the composite tools a profile may have
    Kinds       \* what a body may be: "object", "array", "value"

ASSUME ToolsAssumption ==
    \A s \in Tools : Len(s) \in Nat /\ DOMAIN s = 1..Len(s)

VARIABLES
    steps,      \* the tool's steps: [store_as, depends_on]
    partial,    \* the tool's partial_results
    phase,      \* how far its call is
    waits,      \* the pairs of a step and a dependency the sort still counts
    queue,      \* the names to be processed next
    levels,     \* the steps by level, each level in the order of the queue
    current,    \* the level under way
    fate,     \* of every step
    body,       \* what a step's body is
    answer      \* the bodies in the answer, with their paths

graphVars == <<steps, partial, phase, waits, queue, levels, current, fate, body, answer>>

Indices(s) == DOMAIN s
Produced(s) == { s[i].store_as : i \in Indices(s) }
\* The step that stands for a name.  Where a name has several, the tool is
\* refused whichever it is.
StepOf(s, name) == CHOOSE i \in Indices(s) : s[i].store_as = name
Edges(s) == { e \in Indices(s) \X Produced(s) : e[2] \in s[e[1]].depends_on }
UnknownDependency(s) == \E i \in Indices(s) : ~ s[i].depends_on \subseteq Produced(s)

\* Mutant: free with one dependency to go.
FreeAtOne(s, pairs, name) == Cardinality({ e \in pairs : s[e[1]].store_as = name }) <= 1

\* The in-degree of a name is the number of its pairs among those that count.
NoDegree(s, pairs, name) == \A e \in pairs : s[e[1]].store_as # name

GraphInit ==
    /\ steps \in Tools /\ partial \in BOOLEAN /\ phase = "profile"
    /\ waits = {} /\ queue = <<>> /\ levels = <<>> /\ current = 0
    /\ fate = [i \in Indices(steps) |-> "waiting"]
    /\ body = [i \in Indices(steps) |-> "none"] /\ answer = {}

-----------------------------------------------------------------------------
(* The profile is loaded. *)

\* A cycle: some names, each of which a step produces that depends on one of them.
Cyclic(s) == \E C \in SUBSET Produced(s) :
    /\ C # {}
    /\ \A n \in C : \E i \in Indices(s) : s[i].store_as = n /\ s[i].depends_on \cap C # {}

LoadProfile ==
    /\ phase = "profile"
    /\ phase' = IF UnknownDependency(steps) \/ Cyclic(steps) THEN "not loaded" ELSE "loaded"
    /\ UNCHANGED <<steps, partial, waits, queue, levels, current, fate, body, answer>>

-----------------------------------------------------------------------------
(* A call sorts the steps. *)

\* The names of a set in an order of theirs; there is one such sequence.
Ordered(S, Before(_, _)) ==
    { q \in [1..Cardinality(S) -> S] : \A m, n \in DOMAIN q : m < n => Before(q[m], q[n]) }
Listed(a, b) == StepOf(steps, a) < StepOf(steps, b)

CallArrives ==
    /\ phase = "loaded"
    /\ waits' = Edges(steps)
    /\ \E q \in Ordered({ n \in Produced(steps) : NoDegree(steps, waits', n) }, Listed) : queue' = q
    /\ phase' = "sorting"
    /\ UNCHANGED <<steps, partial, levels, current, fate, body, answer>>

\* A level: its names leave, in the order of the queue, and what they freed follows.
Leaving == { queue[n] : n \in DOMAIN queue }
Freed == { n \in Produced(steps) :
             ~ NoDegree(steps, waits, n) /\ NoDegree(steps, { e \in waits : e[2] \notin Leaving }, n) }
FreedBy(name) == CHOOSE n \in DOMAIN queue :
    /\ \E e \in waits : steps[e[1]].store_as = name /\ e[2] = queue[n]
    /\ \A m \in DOMAIN queue :
         (\E e \in waits : steps[e[1]].store_as = name /\ e[2] = queue[m]) => m <= n
FreedBefore(a, b) == FreedBy(a) < FreedBy(b) \/ (FreedBy(a) = FreedBy(b) /\ Listed(a, b))

SortLevel ==
    /\ phase = "sorting" /\ queue # <<>>
    /\ levels' = Append(levels, [n \in DOMAIN queue |-> StepOf(steps, queue[n])])
    /\ waits' = { e \in waits : e[2] \notin Leaving }
    /\ \E q \in Ordered(Freed, FreedBefore) : queue' = q
    /\ UNCHANGED <<steps, partial, phase, current, fate, body, answer>>

\* No step is in two levels, so the count of those in the levels is short
\* exactly when a step is in none.
Placed == UNION { { levels[m][n] : n \in DOMAIN levels[m] } : m \in DOMAIN levels }
SortEnds ==
    /\ phase = "sorting" /\ queue = <<>>
    /\ IF Placed = Indices(steps)
         THEN phase' = "between" /\ current' = 1
         ELSE phase' = "refused" /\ UNCHANGED current
    /\ UNCHANGED <<steps, partial, waits, queue, levels, fate, body, answer>>

-----------------------------------------------------------------------------
(* Level by level. *)

InLevel(m) == { levels[m][n] : n \in DOMAIN levels[m] }

\* All steps of a level are asked; one whose request cannot be made fails at once.
StartLevel ==
    /\ phase = "between" /\ current <= Len(levels)
    /\ \E bad \in SUBSET InLevel(current) :
         fate' = [i \in Indices(steps) |->
            IF i \in bad THEN "failed" ELSE IF i \in InLevel(current) THEN "asked" ELSE fate[i]]
    /\ phase' = "level"
    /\ UNCHANGED <<steps, partial, waits, queue, levels, current, body, answer>>

StepAnswered(i) ==
    /\ fate[i] = "asked"
    /\ \E k \in Kinds : body' = [body EXCEPT ![i] = k]
    /\ fate' = [fate EXCEPT ![i] = "answered"]
    /\ UNCHANGED <<steps, partial, phase, waits, queue, levels, current, answer>>
StepFails(i) ==
    /\ fate[i] = "asked" /\ fate' = [fate EXCEPT ![i] = "failed"]
    /\ UNCHANGED <<steps, partial, phase, waits, queue, levels, current, body, answer>>

\* The path to a name leads over what is no object; a body put at a name
\* replaces what is there and below; what is put into an array is not shown.
Under(p, q) == Len(p) < Len(q) /\ SubSeq(q, 1, Len(p)) = p
NoWay(a, name) == \E r \in a : r.kind = "value" /\ Under(r.path, name)
Hidden(a, name) == \E r \in a : r.kind = "array" /\ Under(r.path, name)

\* Mutant: the objects on the way are made anew.
PutAnew(a, i) ==
    { r \in a : ~ Under(r.path, steps[i].store_as) /\ r.path # steps[i].store_as }
        \cup { [path |-> steps[i].store_as, kind |-> body[i], step |-> i] }

Put(a, i) ==
    LET name == steps[i].store_as IN
    { r \in a : r.path # name /\ ~ Under(name, r.path) }
        \cup (IF Hidden(a, name) THEN {} ELSE { [path |-> name, kind |-> body[i], step |-> i] })

\* The outcomes of a level in the level's order: a failure ends the call unless
\* the tool takes partial results, a name that cannot be reached ends it always.
Outcome(lvl) ==
    LET after[n \in 0..Len(lvl)] ==
          IF n = 0 THEN [kept |-> answer, thrown |-> FALSE]
          ELSE LET was == after[n - 1]
                   i == lvl[n]
               IN IF was.thrown \/ NoWay(was.kept, steps[i].store_as)
                    THEN [was EXCEPT !.thrown = TRUE]
                  ELSE IF fate[i] = "answered" THEN [was EXCEPT !.kept = Put(@, i)]
                  ELSE [was EXCEPT !.thrown = ~ partial]
    IN after[Len(lvl)]

Settled(i) == fate[i] \in {"answered", "failed"}
LevelSettles ==
    /\ phase = "level" /\ \A i \in InLevel(current) : Settled(i)
    /\ LET out == Outcome(levels[current])
       IN /\ answer' = out.kept
          /\ phase' = IF out.thrown THEN "thrown" ELSE "between"
    /\ current' = current + 1
    /\ UNCHANGED <<steps, partial, waits, queue, levels, fate, body>>

AnswerGiven ==
    /\ phase = "between" /\ current > Len(levels)
    /\ phase' = "answered"
    /\ UNCHANGED <<steps, partial, waits, queue, levels, current, fate, body, answer>>

GraphNext ==
    \/ LoadProfile \/ CallArrives \/ SortLevel \/ SortEnds
    \/ StartLevel \/ LevelSettles \/ AnswerGiven
    \/ \E i \in Indices(steps) : StepAnswered(i) \/ StepFails(i)

GraphSpec == GraphInit /\ [][GraphNext]_graphVars

-----------------------------------------------------------------------------
(* Properties. *)

\* A step's request is made only when every step that produces one of its
\* dependencies has its outcome (composite-executor.ts: a level's steps start
\* when the level before has settled).
DependenciesFirst ==
    \A i, j \in Indices(steps) :
        fate[i] # "waiting" /\ steps[j].store_as \in steps[i].depends_on => Settled(j)

PutBefore(j, i) == \E m, n \in DOMAIN levels :
    /\ j \in InLevel(m) /\ i \in InLevel(n)
    /\ m < n \/ (m = n /\ \E a, b \in DOMAIN levels[m] : a < b /\ levels[m][a] = j /\ levels[m][b] = i)

\* An answer holds every body that came, whatever the order the API answered
\* in, unless a step of a name above the body's brought a body that was put
\* later, or an array (storeResult).
BodyKept ==
    phase = "answered" => \A i \in Indices(steps) :
        \/ fate[i] # "answered"
        \/ \E r \in answer : r.step = i /\ r.path = steps[i].store_as /\ r.kind = body[i]
        \/ \E j \in Indices(steps) :
             /\ Under(steps[j].store_as, steps[i].store_as) /\ fate[j] = "answered"
             /\ PutBefore(i, j) \/ body[j] = "array"

\* docs/PROFILE-GUIDE.md: cycles are detected when the profile is loaded, so no
\* call of a loaded tool is refused for one.
LoadedRuns == phase # "refused"
===============================================================================
