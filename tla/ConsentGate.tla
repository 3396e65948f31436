------------------------------ MODULE ConsentGate ------------------------------
(***************************************************************************)
(* The consent gate of a profile whose users must accept its rules before  *)
(* any call goes upstream: src/auth/consent-gate.ts, the consent form that *)
(* follows the login (handlePendingConsentGet and -Post of                 *)
(* src/transport/http-transport.ts, consent-http-controller.ts,            *)
(* pending-consent-store.ts) and the evidence in PostgreSQL                *)
(* (postgres-consent-evidence-store.ts).                                   *)
(*                                                                         *)
(* Several replicas share the two tables, each with the rules of its own   *)
(* deployment.  Every await is a step of its own.  Their clocks are not    *)
(* synchronized and may be set: a reading is any time.                     *)
(* The evidence and the logins are of one issuer and tenant.               *)
(***************************************************************************)
EXTENDS Naturals, FiniteSets, Sequences, SequencesExt, FiniteSetsExt

CONSTANTS
    Subject,     \* verified identities
    Browser, Replica, GateCall, Absent,
    Pending,     \* ids of parked completions, each used once
    Rules,       \* what a deployment may ask to accept: [version, hash]
    MaxAge,      \* max_age_days, in units of the clocks
    Histories,   \* the evidence there may be from before
    MaxLookups,  \* bound: the lookups at a time
    MaxReading,     \* bound: the latest reading of a clock
    MaxRows,     \* bound: the rows of the evidence table,
    MaxRevocations   \* and of them the revocations

Row == [ type : {"grant", "revocation"}, sub : Subject, rules : Rules \cup {Absent}, at : Nat,
         pending : Pending \cup {Absent} ]
ASSUME GateAssumption ==
    /\ MaxAge \in Nat /\ MaxReading \in Nat /\ MaxRows \in Nat /\ MaxRevocations \in Nat /\ MaxLookups \in Nat
    /\ Absent \notin Subject \cup Pending \cup Browser \cup Replica \cup Rules
    /\ \A r \in Rules : r = [version |-> r.version, hash |-> r.hash]
    /\ \A h \in Histories :   \* of logins that are over
         /\ h \in Seq(Row) /\ Len(h) <= MaxRows
         /\ \A i \in DOMAIN h : h[i].pending = Absent /\ (h[i].type = "grant" => h[i].rules \in Rules)

VARIABLES
    rows,      \* the evidence table, in the order of its ids
    parked,    \* the pending_consents table
    approvals, \* the approval tokens in the forms that were rendered
    consumed,  \* the approvals each replica has consumed
    rules, call

evidence == <<rows, parked, approvals, consumed>>
gateVars == <<rows, parked, approvals, consumed, rules, call>>

----------------------------------------------------------------------------
GrantRow(u, r, t, p) == [type |-> "grant", sub |-> u, rules |-> r, at |-> t, pending |-> p]
RevocationRow(u, t) ==
    [type |-> "revocation", sub |-> u, rules |-> Absent, at |-> t, pending |-> Absent]
Approval(p, r, b) == [pending |-> p, rules |-> r, browser |-> b]

\* A row of pending_consents: not created yet, live, consumed or past its
\* expires_at; whose login it parks and the browser that made it.
Parked == [state : {"free", "live", "gone"}, sub : Subject \cup {Absent},
           browser : Browser \cup {Absent}]
Free == [state |-> "free", sub |-> Absent, browser |-> Absent]

\* What a query has answered: not yet, or the place of the row it found (0: none).
Unread == MaxRows + 1
GateCallRecord ==
    [ at      : {"idle", "lookup", "granted", "denied", "peeked", "approved", "recording",
                 "inserting", "completing"},
      kind    : {"none", "dispatch", "callback", "accept", "deny"},
      replica : Replica \cup {Absent},
      sub     : Subject \cup {Absent},
      browser : Browser \cup {Absent},
      pending : Pending \cup {Absent},
      since   : 0..MaxRows,          \* the last revocation when the lookup began
      grant   : 0..Unread, latest : 0..Unread,
      revoked : 0..Unread ]
Idle == [ at |-> "idle", kind |-> "none", replica |-> Absent, sub |-> Absent, browser |-> Absent,
          pending |-> Absent, since |-> 0,
          grant |-> Unread, latest |-> Unread, revoked |-> Unread ]

\* A call ends with the deployment it came to.
RulesOf(c) == rules[call[c].replica]

GateInit ==
    /\ rows \in Histories /\ parked = [p \in Pending |-> Free] /\ approvals = {}
    /\ consumed = [r \in Replica |-> {}]
    /\ rules \in [Replica -> Rules]
    /\ call = [c \in GateCall |-> Idle]

----------------------------------------------------------------------------
(* The evidence table *)

RowsOf(u, type) == {i \in DOMAIN rows : rows[i].sub = u /\ rows[i].type = type}

LastRevocation(u) == Max({0} \cup RowsOf(u, "revocation"))

\* newestGrantQuery: the highest granted_at, and of those the last recorded.
NewestGrant(u, versions) ==
    LET of == {i \in RowsOf(u, "grant") : rows[i].rules.version \in versions}
        newest == {i \in of : \A j \in of : rows[j].at <= rows[i].at}
    IN  Max({0} \cup newest)
AllVersions == {r.version : r \in Rules}

\* evaluateGrantFold
NewerThan(r, t, i) ==
    i = 0 \/ t > rows[i].at \/ (t = rows[i].at /\ r # rows[i].rules)

\* effectiveRevokedAt: a revocation recorded after the newest acceptance counts
\* as no older than it, one recorded before it does not count.
RevokedByTime(c) ==
    call[c].revoked # 0 /\ call[c].grant # 0 /\ rows[call[c].revoked].at >= rows[call[c].grant].at
Revoked(c) ==
    /\ call[c].revoked # 0
    /\ ~(call[c].grant > call[c].revoked)

\* ConsentGate.evaluate, with what the queries answered.
Satisfied(c, now) ==
    LET g == call[c].grant
        r == RulesOf(c)
    IN  /\ g # 0 /\ rows[g].rules.hash = r.hash
        /\ call[c].latest # 0 => rows[call[c].latest].rules.version = r.version
        /\ ~Revoked(c)
        /\ now <= rows[g].at + MaxAge

----------------------------------------------------------------------------
(* The lookups of a dispatch and of a login *)

Starts(c, kind, r, u) ==
    /\ call[c].at = "idle"
    /\ Cardinality({d \in GateCall : call[d].at = "lookup"}) < MaxLookups
    /\ call' = [call EXCEPT ![c] = [Idle EXCEPT !.at = "lookup", !.kind = kind,
                                       !.replica = r, !.sub = u, !.since = LastRevocation(u)]]

\* assertSessionConsent reads the principal of the session and then the evidence.
Dispatch(c, r, u) ==
    /\ Starts(c, "dispatch", r, u)
    /\ UNCHANGED <<evidence, rules>>

\* The callback of a login whose identity was verified; of which browser matters
\* when it is parked.
Login(c, r, u) ==
    /\ Starts(c, "callback", r, u)
    /\ UNCHANGED <<evidence, rules>>

\* The queries of a lookup, and of an acceptance that is recorded, run in parallel.
ReadGrant(c) ==
    /\ call[c].at \in {"lookup", "recording"} /\ call[c].grant = Unread
    /\ call' = [call EXCEPT ![c].grant = NewestGrant(call[c].sub, {RulesOf(c).version})]
    /\ UNCHANGED <<evidence, rules>>
ReadLatest(c) ==
    /\ call[c].at \in {"lookup", "recording"} /\ call[c].latest = Unread
    /\ call' = [call EXCEPT ![c].latest = NewestGrant(call[c].sub, AllVersions)]
    /\ UNCHANGED <<evidence, rules>>
ReadRevocations(c) ==
    /\ call[c].at = "lookup" /\ call[c].revoked = Unread
    /\ call' = [call EXCEPT ![c].revoked = LastRevocation(call[c].sub)]
    /\ UNCHANGED <<evidence, rules>>

HasRead(c) == Unread \notin {call[c].grant, call[c].latest, call[c].revoked}
Decide(c, now) ==
    /\ call[c].at = "lookup" /\ HasRead(c)
    /\ call' = [call EXCEPT ![c].at = IF Satisfied(c, now) THEN "granted" ELSE "denied"]
    /\ UNCHANGED <<evidence, rules>>

Ends(c) == call' = [call EXCEPT ![c] = Idle]

\* A call upstream proceeds or is answered with the consent error.
CallAnswered(c) ==
    /\ call[c].at \in {"granted", "denied"} /\ call[c].kind = "dispatch"
    /\ Ends(c)
    /\ UNCHANGED <<evidence, rules>>

----------------------------------------------------------------------------
(* The form *)

\* configureCallbackConsent: a login without a valid acceptance is parked, bound
\* to the browser it came from; with one it completes.
Park(c, p, b) ==
    /\ call[c].at = "denied" /\ call[c].kind = "callback" /\ parked[p] = Free
    /\ parked' = [parked EXCEPT ![p] =
                    [state |-> "live", sub |-> call[c].sub, browser |-> b]]
    /\ Ends(c)
    /\ UNCHANGED <<rows, approvals, consumed, rules>>
PassSilently(c) ==
    /\ call[c].at = "granted" /\ call[c].kind = "callback"
    /\ call' = [call EXCEPT ![c].at = "completing"]
    /\ UNCHANGED <<evidence, rules>>

Expire(p) ==
    /\ parked[p].state = "live"
    /\ parked' = [parked EXCEPT ![p].state = "gone"]
    /\ UNCHANGED <<rows, approvals, consumed, rules, call>>

\* peek, and the binding cookie of the browser that logged in.
Bound(p, b) == parked[p].state = "live" /\ parked[p].browser = b

\* renderPendingConsentForm: the form shows the rules of the replica and carries
\* an approval of them.
Show(r, b, p) ==
    /\ Bound(p, b)
    /\ approvals' = approvals \cup {Approval(p, rules[r], b)}
    /\ UNCHANGED <<rows, parked, consumed, rules, call>>

Post(c, r, b, p, decision) ==
    /\ call[c].at = "idle" /\ Bound(p, b)
    /\ call' = [call EXCEPT ![c] = [Idle EXCEPT !.at = "peeked", !.kind = decision,
                  !.replica = r, !.browser = b, !.pending = p]]
    /\ UNCHANGED <<evidence, rules>>

\* A parked completion is consumed by one call, of whatever replica; whether its
\* client still is registered or not, a denial records nothing.
LiveWhenPeeked(p) == parked[p].state # "free"
ParkedLive(p) == parked[p].state = "live"
Taken(p) == parked' = [parked EXCEPT ![p].state = "gone"]
Deny(c) ==
    /\ call[c].at = "peeked" /\ call[c].kind = "deny"
    /\ IF ParkedLive(call[c].pending) THEN Taken(call[c].pending) ELSE UNCHANGED parked
    /\ Ends(c)
    /\ UNCHANGED <<rows, approvals, consumed, rules>>

\* consumeApproval: the signature, its fingerprint of the parked id and of the
\* rules in force now, the browser, and not twice on one replica.
ApprovalFitsAnyRules(c, a) ==
    /\ a.pending = call[c].pending /\ a.browser = call[c].browser
    /\ a \notin consumed[call[c].replica]
ApprovalFits(c, a) ==
    /\ a = Approval(call[c].pending, RulesOf(c), call[c].browser)
    /\ a \notin consumed[call[c].replica]
Approve(c, a) ==
    /\ call[c].at = "peeked" /\ call[c].kind = "accept"
    /\ a \in approvals /\ ApprovalFits(c, a)
    /\ consumed' = [consumed EXCEPT ![call[c].replica] = @ \cup {a}]
    /\ call' = [call EXCEPT ![c].at = "approved"]
    /\ UNCHANGED <<rows, parked, approvals, rules>>

\* Any other token, or one past its five minutes, and the form is shown again.
ShowAgain(c) ==
    /\ call[c].at = "peeked" /\ call[c].kind = "accept"
    /\ approvals' = approvals
         \cup {Approval(call[c].pending, RulesOf(c), call[c].browser)}
    /\ Ends(c)
    /\ UNCHANGED <<rows, parked, consumed, rules>>

Consume(c) ==
    LET p == call[c].pending IN
    /\ call[c].at = "approved"
    /\ IF ParkedLive(p)
       THEN /\ Taken(p)
            /\ call' = [call EXCEPT ![c].at = "recording", ![c].sub = parked[p].sub]
       ELSE Ends(c) /\ UNCHANGED parked
    /\ UNCHANGED <<rows, approvals, consumed, rules>>

\* record: an acceptance that is not newer than what the queries found is dropped.
\* Its time is read before they are sent.
IsNewer(c, now) ==
    NewerThan(RulesOf(c), now, call[c].grant) \/ NewerThan(RulesOf(c), now, call[c].latest)
Record(c, now) ==
    /\ call[c].at = "recording" /\ Unread \notin {call[c].grant, call[c].latest}
    /\ IF IsNewer(c, now)
       THEN /\ Len(rows) < MaxRows
            /\ rows' = Append(rows, GrantRow(call[c].sub, RulesOf(c), now,
                                             call[c].pending))
       ELSE UNCHANGED rows
    /\ call' = [call EXCEPT ![c].at = "completing", ![c].grant = Unread,
                            ![c].latest = Unread]
    /\ UNCHANGED <<parked, approvals, consumed, rules>>

\* completeAuthorization: the client gets a code.
Complete(c) ==
    /\ call[c].at = "completing"
    /\ Ends(c)
    /\ UNCHANGED <<evidence, rules>>

\* A query fails, or the client of the completion is no longer valid: the call
\* is answered with an error, and what was consumed stays consumed.
CallFails(c) ==
    /\ call[c].at \in {"lookup", "peeked", "approved", "recording", "completing"}
    /\ Ends(c)
    /\ UNCHANGED <<evidence, rules>>

----------------------------------------------------------------------------
(* The operator and the deployments *)

RevokeConsent(u, t) ==
    /\ Len(rows) < MaxRows /\ Cardinality(RowsOf(u, "revocation")) < MaxRevocations
    /\ rows' = Append(rows, RevocationRow(u, t))
    /\ UNCHANGED <<parked, approvals, consumed, rules, call>>

\* A replica restarts, with the rules of its next deployment.
Deploy(r, new) ==
    /\ rules' = [rules EXCEPT ![r] = new]
    /\ consumed' = [consumed EXCEPT ![r] = {}]
    /\ call' = [c \in GateCall |-> IF call[c].replica = r THEN Idle ELSE call[c]]
    /\ UNCHANGED <<rows, parked, approvals>>

GateNext ==
    \/ \E c \in GateCall, r \in Replica, u \in Subject : Dispatch(c, r, u) \/ Login(c, r, u)
    \/ \E c \in GateCall :
         \/ ReadGrant(c) \/ ReadLatest(c) \/ ReadRevocations(c)
         \/ CallAnswered(c) \/ PassSilently(c)
         \/ Deny(c) \/ ShowAgain(c) \/ Consume(c) \/ Complete(c) \/ CallFails(c)
    \/ \E c \in GateCall, now \in 0..MaxReading : Decide(c, now) \/ Record(c, now)
    \/ \E c \in GateCall, p \in Pending, b \in Browser : Park(c, p, b)
    \/ \E c \in GateCall, a \in approvals : Approve(c, a)
    \/ \E p \in Pending : Expire(p)
    \/ \E r \in Replica, b \in Browser, p \in Pending : Show(r, b, p)
    \/ \E c \in GateCall, r \in Replica, b \in Browser, p \in Pending, d \in {"accept", "deny"} :
         Post(c, r, b, p, d)
    \/ \E u \in Subject, t \in 0..MaxReading : RevokeConsent(u, t)
    \/ \E r \in Replica, new \in Rules : Deploy(r, new)

GateSpec == GateInit /\ [][GateNext]_gateVars

----------------------------------------------------------------------------
GateTypeOK ==
    /\ rows \in Seq(Row)
    /\ Len(rows) <= MaxRows
    /\ parked \in [Pending -> Parked]
    /\ approvals \subseteq [pending : Pending, rules : Rules, browser : Browser]
    /\ consumed \in [Replica -> SUBSET approvals]
    /\ rules \in [Replica -> Rules]
    /\ call \in [GateCall -> GateCallRecord]

Grants == {i \in DOMAIN rows : rows[i].type = "grant"}
Answers == {i \in Grants : rows[i].pending # Absent}

\* Consent is to rules that were seen: of every acceptance in the evidence, the
\* rules were shown in the form of that parked login, to the browser that made it,
\* and the subject is the one who logged in there - whatever deployments came in
\* between, and whichever replica took the answer (handlePendingConsentPost).
ConsentWasShown ==
    \A i \in Answers :
        LET p == rows[i].pending IN
        /\ parked[p].sub = rows[i].sub
        /\ Approval(p, rows[i].rules, parked[p].browser) \in approvals

Answering(c) == call[c].kind = "accept" /\ call[c].at \in {"recording", "completing"}

\* A login is answered once: a parked completion that two tabs, two replicas or a
\* replayed approval answer is recorded by one of them at most, and none is
\* completed twice (take of the pending store).
AnsweredOnce ==
    /\ \A i, j \in Answers : rows[i].pending = rows[j].pending => i = j
    /\ \A c, d \in GateCall : Answering(c) /\ Answering(d) /\ c # d
                            => call[c].pending # call[d].pending
    /\ \A c \in GateCall, i \in Answers :
          call[c].at = "recording" => rows[i].pending # call[c].pending

\* A revocation holds at once, on every replica and whatever their clocks say: a
\* call that goes upstream has an acceptance of the rules in force that was
\* recorded after every revocation there was when it came (effectiveRevokedAt).
RevocationHolds ==
    \A c \in GateCall : call[c].at = "granted" =>
        \E i \in Grants :
            /\ rows[i].sub = call[c].sub /\ rows[i].rules = RulesOf(c)
            /\ i > call[c].since
=============================================================================
