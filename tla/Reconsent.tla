------------------------------- MODULE Reconsent -------------------------------
(***************************************************************************)
(* What a denied call does to its session: assertSessionConsent and        *)
(* invalidateSessionForReconsent of src/transport/http-transport.ts with   *)
(* ReconsentTracker (src/transport/reconsent-tracker.ts).  A client can    *)
(* only be sent to accept anew by a refusal of its bearer, so the first    *)
(* denial of a subject drops the session and has the next envelope of that *)
(* subject refused, once.                                                  *)
(*                                                                         *)
(* One process and one version of the rules.  What the gate answers is any *)
(* verdict: acceptances, revocations and expiries come at any time.        *)
(***************************************************************************)
EXTENDS Naturals, Sequences, SequencesExt

CONSTANTS
    Person,       \* the subjects
    Nobody,       \* the principal of a bearer without an identity
    Connection,   \* ids of sessions, each used once
    Check,        \* calls of assertSessionConsent
    Nothing,
    TrackerMax    \* RECONSENT_TRACKER_MAX

ASSUME ReconsentAssumption ==
    /\ TrackerMax \in Nat \ {0} /\ Nobody \notin Person
    /\ Nothing \notin Person \cup {Nobody} \cup Connection
    /\ (Person \cup {Nobody}) \cap Connection = {}

VARIABLES
    tracker,    \* its entries, the oldest first
    connection, \* the principal of each session, or Nothing
    opened,     \* the sessions there were
    bearers,    \* the subjects whose bearer the process has in memory
    envelopes,  \* the subjects whose client holds an envelope
    check,      \* calls: the session and the principal that was read, or Nothing
    owed        \* the subjects denied and not refused since, while tracked

reconsentVars == <<tracker, connection, opened, bearers, envelopes, check, owed>>

----------------------------------------------------------------------------
(* ReconsentTracker *)

TrackerEntry(tr, k) == SelectInSeq(tr, LAMBDA e : e.key = k)
IsInvalidated(tr, k) == TrackerEntry(tr, k) # 0 /\ tr[TrackerEntry(tr, k)].invalidated
IsArmed(tr, k) == TrackerEntry(tr, k) # 0 /\ tr[TrackerEntry(tr, k)].armed

Evicted(tr, k) == IF TrackerEntry(tr, k) = 0 /\ Len(tr) >= TrackerMax THEN {tr[1].key} ELSE {}
MarkInvalidated(tr, k, arm) ==
    LET i == TrackerEntry(tr, k)
    IN  IF i # 0 THEN [tr EXCEPT ![i].invalidated = TRUE, ![i].armed = @ \/ arm]
        ELSE Append(IF Evicted(tr, k) # {} THEN Tail(tr) ELSE tr,
                    [key |-> k, invalidated |-> TRUE, armed |-> arm])

Forget(tr, k) == IF TrackerEntry(tr, k) = 0 THEN tr ELSE RemoveAt(tr, TrackerEntry(tr, k))
ClearInvalidation(tr, k) ==
    IF IsArmed(tr, k) THEN [tr EXCEPT ![TrackerEntry(tr, k)].invalidated = FALSE]
    ELSE Forget(tr, k)

ConsumeRejection(tr, k) ==
    IF IsInvalidated(tr, k) THEN [tr EXCEPT ![TrackerEntry(tr, k)].armed = FALSE]
    ELSE Forget(tr, k)

\* The budget is the subject's; without one, the session's.
BudgetKey(k, p) == IF p = Nobody THEN k ELSE p

----------------------------------------------------------------------------
ReconsentInit ==
    /\ tracker = <<>> /\ opened = {}
    /\ connection = [k \in Connection |-> Nothing]
    /\ bearers = {} /\ envelopes = {} /\ owed = {}
    /\ check = [c \in Check |-> Nothing]

\* A login ends: the client gets a bearer that is an envelope.  Whether this
\* process made it or another, only this one has it in memory.
LogIn(p, here) ==
    /\ envelopes' = envelopes \cup {p}
    /\ bearers' = IF here THEN bearers \cup {p} ELSE bearers \ {p}
    /\ UNCHANGED <<tracker, connection, opened, check, owed>>

Opens(k, p) ==
    /\ k \notin opened
    /\ opened' = opened \cup {k} /\ connection' = [connection EXCEPT ![k] = p]

\* A client initializes a session.  Its bearer is in memory, or it is an envelope
\* the session is rebuilt from.
Connect(k, p) ==
    /\ p \in envelopes
    /\ p \in bearers \/ ~IsArmed(tracker, p)
    /\ Opens(k, p) /\ bearers' = bearers \cup {p}
    /\ UNCHANGED <<tracker, envelopes, check, owed>>
ConnectNobody(k) ==
    /\ Opens(k, Nobody)
    /\ UNCHANGED <<tracker, bearers, envelopes, check, owed>>
\* The envelope of a denied subject is refused once; the client drops it.
RefuseEnvelope(p) ==
    /\ p \in envelopes \ bearers /\ IsArmed(tracker, p)
    /\ tracker' = ConsumeRejection(tracker, p)
    /\ envelopes' = envelopes \ {p} /\ owed' = owed \ {p}
    /\ UNCHANGED <<connection, opened, bearers, check>>

\* The principal is read before the gate is asked, and used after it answered.
AskGate(c, k) ==
    /\ check[c] = Nothing /\ connection[k] # Nothing
    /\ check' = [check EXCEPT ![c] = [session |-> k, of |-> connection[k]]]
    /\ UNCHANGED <<tracker, connection, opened, bearers, envelopes, owed>>

CheckEnds(c) == check' = [check EXCEPT ![c] = Nothing]
GateSatisfied(c) ==
    /\ check[c] # Nothing /\ check[c].of # Nobody
    /\ tracker' = ClearInvalidation(tracker, check[c].of)
    /\ CheckEnds(c)
    /\ UNCHANGED <<connection, opened, bearers, envelopes, owed>>

\* destroySession drops the bearer with the session, if there still is one.
Denied(c) ==
    LET k == check[c].session
        p == check[c].of
        key == BudgetKey(k, p)
    IN
    /\ check[c] # Nothing /\ ~IsInvalidated(tracker, key)
    /\ tracker' = MarkInvalidated(tracker, key, p # Nobody)
    /\ owed' = (owed \cup ({p} \ {Nobody})) \ Evicted(tracker, key)
    /\ connection' = [connection EXCEPT ![k] = Nothing]
    /\ bearers' = IF connection[k] = Nothing THEN bearers ELSE bearers \ {p}
    /\ CheckEnds(c)
    /\ UNCHANGED <<opened, envelopes>>
DeniedAgain(c) ==
    /\ check[c] # Nothing
    /\ IsInvalidated(tracker, BudgetKey(check[c].session, check[c].of))
    /\ CheckEnds(c)
    /\ UNCHANGED <<tracker, connection, opened, bearers, envelopes, owed>>

\* The store cannot be read: the call fails and nothing else happens.
GateFails(c) ==
    /\ check[c] # Nothing /\ CheckEnds(c)
    /\ UNCHANGED <<tracker, connection, opened, bearers, envelopes, owed>>

\* The process restarts.  Clients keep their envelopes.
ServerRestarts ==
    /\ tracker' = <<>> /\ owed' = {} /\ bearers' = {}
    /\ connection' = [k \in Connection |-> Nothing]
    /\ check' = [c \in Check |-> Nothing]
    /\ UNCHANGED <<opened, envelopes>>

ReconsentNext ==
    \/ \E p \in Person : RefuseEnvelope(p) \/ \E here \in BOOLEAN : LogIn(p, here)
    \/ \E k \in Connection : ConnectNobody(k) \/ \E p \in Person : Connect(k, p)
    \/ \E c \in Check : \/ \E k \in Connection : AskGate(c, k)
                        \/ GateSatisfied(c) \/ Denied(c) \/ DeniedAgain(c) \/ GateFails(c)
    \/ ServerRestarts

ReconsentSpec == ReconsentInit /\ [][ReconsentNext]_reconsentVars

----------------------------------------------------------------------------
ReconsentTypeOK ==
    /\ tracker \in Seq([key : Person \cup Connection, invalidated : BOOLEAN, armed : BOOLEAN])
    /\ Len(tracker) <= TrackerMax
    /\ connection \in [Connection -> Person \cup {Nobody, Nothing}]
    /\ opened \subseteq Connection
    /\ bearers \subseteq Person /\ envelopes \subseteq Person /\ owed \subseteq Person
    /\ check \in [Check -> [session : Connection, of : Person \cup {Nobody}] \cup {Nothing}]

\* What a denial promises: the next envelope of the subject is refused, also when
\* the subject satisfied the gate in between and the budget was reset, and a subject
\* that was not denied since the last refusal is not refused again.  Only eviction
\* and a restart forget it (ReconsentTracker, "preserved until consumed").
RefusalOwed == \A p \in Person : p \in owed <=> IsArmed(tracker, p)
=============================================================================
