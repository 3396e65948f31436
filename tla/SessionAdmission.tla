-------------------------- MODULE SessionAdmission --------------------------
(***************************************************************************)
(* Who gets a session of src/transport/http-transport.ts, as whom, and     *)
(* with which credential: the initialize branch of handlePost with the     *)
(* client-auth gate, the checks of the token upstream, the inbound token   *)
(* store and the recovery from an mcp4.v1 envelope, and the replacement of *)
(* a session's token by a later request.                                   *)
(*                                                                         *)
(* One profile is modelled.  What a handler does between two calls of      *)
(* another process is one step: the record of the token is read before the *)
(* token is judged upstream, the session is opened after it, and meanwhile *)
(* other sessions open and end and records go.                             *)
(***************************************************************************)
EXTENDS FiniteSets

CONSTANTS
    Token, NoToken,
    BearerToken,   \* those shown as Authorization: Bearer; the others in a header of their own
    ApiKey,        \* the keys of the client-auth gate
    OwnToken,      \* the tokens that this server issues
    Seat,          \* the sessions that may be open
    Opening,       \* the initialize requests that may be under way
    Settings       \* the settings of the profile to consider

\* A setting: whether OAuth is active and enterprise authorization is required,
\* the gate's mode, whether auth is configured, the kinds of token with a
\* validation_endpoint, the token in the server's environment, whether the
\* upstream validates credentials, consent is required, and a token key is set.
ASSUME AdmissionAssumption ==
    /\ BearerToken \subseteq Token /\ ApiKey \subseteq Token /\ NoToken \notin Token
    /\ OwnToken \subseteq BearerToken \ ApiKey
    /\ Settings \subseteq
         [ oauth : BOOLEAN, enterprise : {"none", "optional", "required"},
           gate : {"none", "optional", "required"}, configs : BOOLEAN,
           judged : SUBSET {"bearer", "other"}, env : {"none", "plain", "judged"},
           upstream : BOOLEAN, consented : BOOLEAN, sealed : BOOLEAN ]

VARIABLES
    setting,
    issued,    \* token -> whom this server issued it for, or "no"
    record,    \* inboundAuthTokenStore: token -> the kind of its principal, or "none"
    mapped,    \* the tokens in oauthTokensByAccessToken
    over,      \* the tokens whose expiry has passed
    approved,  \* the tokens that a validation endpoint has accepted
    opening,   \* the initialize requests that wait for an answer
    seat,      \* the sessions
    swaps,     \* <<session, token>>: the replacements being judged
    rebooted

admissionVars == <<setting, issued, record, mapped, over, approved, opening, seat, swaps, rebooted>>

\* The tokens that clients may show.
Presentable == {t \in Token : t \in OwnToken => issued[t] # "no"}

Principal == {"none", "human", "client", "enterprise", "key"}
NotOpening == [at |-> "idle", token |-> NoToken, read |-> "none", principal |-> "none"]
NoSeat == [ live |-> FALSE, from |-> NoToken, token |-> NoToken, given |-> FALSE,
            renews |-> FALSE, principal |-> "none" ]

AdmissionInit ==
    /\ setting \in Settings
    /\ issued = [t \in Token |-> "no"] /\ record = [t \in Token |-> "none"]
    /\ mapped = {} /\ over = {} /\ approved = {} /\ swaps = {} /\ rebooted = FALSE
    /\ opening = [o \in Opening |-> NotOpening] /\ seat = [s \in Seat |-> NoSeat]

----------------------------------------------------------------------------
(* The inbound token store and the token endpoint *)

\* What get returns for a token, and the records after it.
PrincipalOf(t) == IF t = NoToken \/ t \in over THEN "none" ELSE record[t]
AfterRead(t) == [u \in Token |-> IF u = t THEN PrincipalOf(u) ELSE record[u]]

\* The records after store(t, p), which drops those that expired.
Stored(t, p) == [u \in Token |-> IF u = t THEN p ELSE PrincipalOf(u)]

\* The principal that an OAuth token is stored with: its identity, or its client
\* unless consent is required.
RecordedAnyway(t, who) == record' = Stored(t, who)
Recorded(t, who) ==
    record' = IF who = "client" /\ setting.consented THEN record ELSE Stored(t, who)

\* storeOAuthTokens; the token is sealed when the server has a key.
IssueToken(t, who) ==
    /\ setting.oauth /\ t \in OwnToken /\ issued[t] = "no"
    /\ issued' = [issued EXCEPT ![t] = who]
    /\ mapped' = mapped \cup {t} /\ Recorded(t, who)
    /\ UNCHANGED <<setting, over, approved, opening, seat, swaps, rebooted>>

\* The jwt-bearer grant.
IssueEnterprise(t) ==
    /\ setting.enterprise # "none" /\ t \in OwnToken /\ issued[t] = "no"
    /\ issued' = [issued EXCEPT ![t] = "enterprise"]
    /\ mapped' = mapped \cup {t} /\ record' = Stored(t, "enterprise")
    /\ UNCHANGED <<setting, over, approved, opening, seat, swaps, rebooted>>

\* The store holds maxTokens of all profiles: another's token pushes one out.
EvictOverflow(t) ==
    /\ record[t] # "none"
    /\ record' = [record EXCEPT ![t] = "none"]
    /\ UNCHANGED <<setting, issued, mapped, over, approved, opening, seat, swaps, rebooted>>

Overdue(t) ==
    /\ issued[t] # "no" /\ t \notin over
    /\ over' = over \cup {t}
    /\ UNCHANGED <<setting, issued, record, mapped, approved, opening, seat, swaps, rebooted>>

----------------------------------------------------------------------------
(* Opening a session *)

\* The types of token an auth config is chosen by.
TypeOfToken(t) == IF t \in BearerToken THEN "bearer" ELSE "other"
IsJudged(t) == setting.configs /\ TypeOfToken(t) \in setting.judged

\* ClientAuthGate.validate: the principal, or none; a required gate throws then.
GatePrincipal(t) == IF t \in ApiKey THEN "key" ELSE "none"
GateRefuses(t) == setting.gate = "required" /\ GatePrincipal(t) = "none"

\* What initialize refuses with nothing asked of another process.
RefusedAtOnce(t) ==
    \/ setting.oauth /\ t = NoToken
    \/ setting.enterprise = "required" /\ PrincipalOf(t) # "enterprise"
    \/ GateRefuses(t)
    \/ /\ setting.gate = "none"
       /\ \/ setting.oauth /\ PrincipalOf(t) = "none" /\ TypeOfToken(t) = "other"
          \/ setting.configs /\ t = NoToken /\ setting.env = "none"

\* The calls that initialize awaits, in their order.
Awaits(p) ==
    LET ungated == setting.gate = "none" IN
    (IF ungated /\ p.token # NoToken /\ p.read = "none" /\ IsJudged(p.token)
     THEN {"judging"} ELSE {})
    \cup (IF ungated /\ p.token = NoToken /\ setting.configs /\ setting.env = "judged"
          THEN {"env"} ELSE {})
    \cup (IF setting.upstream /\ p.token # NoToken THEN {"upstream"} ELSE {})

\* The session's principal and token data are looked up, perhaps in the envelope.
IsEnvelope(t) == setting.sealed /\ issued[t] \in {"human", "client"}
Recovers(p) ==
    /\ p.token \in BearerToken /\ p.read = "none"
    /\ p.token \notin mapped /\ IsEnvelope(p.token)

SeatFor(p) ==
    [ live |-> TRUE, from |-> p.token, token |-> p.token, given |-> FALSE,
      renews |-> \/ Recovers(p)
                 \/ /\ p.token \in BearerToken \cap mapped
                    /\ issued[p.token] \in {"human", "client"},
      principal |-> IF Recovers(p) /\ issued[p.token] = "human" THEN "human" ELSE p.principal ]

Takes(o, s, p) ==
    /\ ~seat[s].live
    /\ seat' = [seat EXCEPT ![s] = SeatFor(p)]
    /\ opening' = [opening EXCEPT ![o] = NotOpening]

\* The end of initialize.  An envelope may be too old, of another issuer, or one
\* that a lost consent rejects once.
OpensKnown(o, p) ==
    /\ ~Recovers(p)
    /\ \E s \in Seat : Takes(o, s, p)
    /\ UNCHANGED mapped
OpensRecovered(o, p) ==
    /\ Recovers(p)
    /\ \E s \in Seat : Takes(o, s, p)
    /\ mapped' = mapped \cup {p.token}
RefusesEnvelope(o, p) ==
    /\ Recovers(p)
    /\ opening' = [opening EXCEPT ![o] = NotOpening]
    /\ UNCHANGED <<seat, mapped>>

RecordedAtRecovery(p) ==
    LET who == SeatFor(p).principal IN
    IF who = "none" THEN Recorded(p.token, "client") ELSE record' = Stored(p.token, who)

\* initialize goes on to await the first of calls, or to its end.
GoesOn(o, p, calls, read) ==
    \/ /\ calls # {}
       /\ opening' = [opening EXCEPT ![o] =
                        [p EXCEPT !.at = IF calls = {"upstream"} THEN "upstream"
                                         ELSE CHOOSE c \in calls : c # "upstream"]]
       /\ record' = read /\ UNCHANGED <<mapped, seat>>
    \/ calls = {} /\ OpensKnown(o, p) /\ record' = read
    \/ calls = {} /\ OpensRecovered(o, p) /\ RecordedAtRecovery(p)
    \/ calls = {} /\ RefusesEnvelope(o, p) /\ record' = read

\* initialize with the token t, or without one.
BeginSession(o, t) ==
    LET p == [ at |-> "idle", token |-> t, read |-> PrincipalOf(t),
               principal |-> IF setting.gate = "none" THEN PrincipalOf(t) ELSE GatePrincipal(t) ] IN
    /\ opening[o].at = "idle" /\ ~RefusedAtOnce(t)
    /\ GoesOn(o, p, Awaits(p), AfterRead(t))
    /\ UNCHANGED <<setting, issued, over, approved, swaps, rebooted>>
RefuseSession(t) ==
    /\ RefusedAtOnce(t) /\ record' = AfterRead(t)
    /\ UNCHANGED <<setting, issued, mapped, over, approved, opening, seat, swaps, rebooted>>

\* validateAuthToken, of the client's token or of the one in the environment, and
\* validateCredentials of the upstream: accepted, or refused (or unreachable).
AwaitedAccepts(o, call) ==
    LET p == opening[o] IN
    /\ p.at = call
    /\ approved' = IF call = "judging" THEN approved \cup {p.token} ELSE approved
    /\ GoesOn(o, p, IF call = "upstream" THEN {} ELSE Awaits(p) \cap {"upstream"}, record)
    /\ UNCHANGED <<setting, issued, over, swaps, rebooted>>
AwaitedRefuses(o) ==
    /\ opening[o].at # "idle"
    /\ opening' = [opening EXCEPT ![o] = NotOpening]
    /\ UNCHANGED <<setting, issued, record, mapped, over, approved, seat, swaps, rebooted>>

----------------------------------------------------------------------------
(* A later request with another token, and the end of a session *)

Holds(s, t, given) == seat' = [seat EXCEPT ![s].token = t, ![s].given = given]

\* The first token of a session opened without one is taken as it comes.
TakesFirstToken(s, t) ==
    /\ seat[s].live /\ seat[s].token = NoToken
    /\ Holds(s, t, TRUE)
    /\ UNCHANGED <<setting, issued, record, mapped, over, approved, opening, swaps, rebooted>>
SwapUnjudged(s, t) ==
    /\ seat[s].live /\ seat[s].token \notin {NoToken, t} /\ ~IsJudged(t)
    /\ Holds(s, t, FALSE)
    /\ UNCHANGED <<setting, issued, record, mapped, over, approved, opening, swaps, rebooted>>
AskSwap(s, t) ==
    /\ seat[s].live /\ seat[s].token \notin {NoToken, t} /\ IsJudged(t)
    /\ <<s, t>> \notin swaps
    /\ swaps' = swaps \cup {<<s, t>>}
    /\ UNCHANGED <<setting, issued, record, mapped, over, approved, opening, seat, rebooted>>
SwapAccepted(s, t) ==
    /\ <<s, t>> \in swaps
    /\ swaps' = swaps \ {<<s, t>>} /\ approved' = approved \cup {t} /\ Holds(s, t, FALSE)
    /\ UNCHANGED <<setting, issued, record, mapped, over, opening, rebooted>>
SwapRefused(s, t) ==
    /\ <<s, t>> \in swaps
    /\ swaps' = swaps \ {<<s, t>>}
    /\ UNCHANGED <<setting, issued, record, mapped, over, approved, opening, seat, rebooted>>

\* destroySession takes along what was kept of the token the session holds now,
\* and a replacement under way no longer matters.
EndSeat(s) ==
    LET t == seat[s].token IN
    /\ seat[s].live
    /\ seat' = [seat EXCEPT ![s] = NoSeat]
    /\ mapped' = mapped \ {t} /\ record' = [u \in Token |-> IF u = t THEN "none" ELSE record[u]]
    /\ swaps' = {w \in swaps : w[1] # s}
    /\ UNCHANGED <<setting, issued, over, approved, opening, rebooted>>

\* The process ends and another starts, with the key and the environment it had.
Reboot ==
    /\ ~rebooted /\ rebooted' = TRUE
    /\ record' = [t \in Token |-> "none"] /\ mapped' = {} /\ swaps' = {}
    /\ opening' = [o \in Opening |-> NotOpening] /\ seat' = [s \in Seat |-> NoSeat]
    /\ UNCHANGED <<setting, issued, over, approved>>

AdmissionNext ==
    \/ \E t \in Token : \/ \E who \in {"human", "client"} : IssueToken(t, who)
                        \/ IssueEnterprise(t) \/ EvictOverflow(t) \/ Overdue(t)
    \/ \E t \in Presentable \cup {NoToken} : \/ RefuseSession(t)
                                       \/ \E o \in Opening : BeginSession(o, t)
    \/ \E o \in Opening : \/ AwaitedRefuses(o)
                          \/ \E call \in {"judging", "env", "upstream"} : AwaitedAccepts(o, call)
    \/ \E s \in Seat, t \in Presentable : \/ TakesFirstToken(s, t) \/ SwapUnjudged(s, t) \/ AskSwap(s, t)
                                    \/ SwapAccepted(s, t) \/ SwapRefused(s, t)
    \/ \E s \in Seat : EndSeat(s)
    \/ Reboot

AdmissionSpec == AdmissionInit /\ [][AdmissionNext]_admissionVars

----------------------------------------------------------------------------
(* Properties *)

AdmissionTypeOK ==
    /\ setting \in Settings
    /\ issued \in [Token -> {"no", "human", "client", "enterprise"}]
    /\ record \in [Token -> Principal]
    /\ mapped \subseteq Token /\ over \subseteq Token /\ approved \subseteq Token
    /\ opening \in [Opening ->
         [ at : {"idle", "judging", "env", "upstream"}, token : Token \cup {NoToken},
           read : Principal, principal : Principal ]]
    /\ seat \in [Seat ->
         [ live : BOOLEAN, from : Token \cup {NoToken}, token : Token \cup {NoToken},
           given : BOOLEAN, renews : BOOLEAN, principal : Principal ]]
    /\ swaps \subseteq Seat \X Token /\ rebooted \in BOOLEAN

\* Where no gate decides and a kind of token is validated, the token of this kind
\* that a session works with was accepted by the validation endpoint or issued by
\* this server, whatever replaced it since, a restart included; only the first
\* token of a session opened without one is exempt (handlePost).
HeldWasJudged ==
    \A s \in Seat :
      seat[s].live /\ seat[s].token # NoToken /\ ~seat[s].given /\ setting.gate = "none"
      /\ IsJudged(seat[s].token)
      => seat[s].token \in approved \/ issued[seat[s].token] # "no"

\* Where consent is required, no session works for a client instead of a person:
\* not after the token was stored, evicted, expired or recovered from its envelope
\* (storeOAuthTokens, handlePost).
ConsentNeedsSubject ==
    setting.consented => \A s \in Seat : seat[s].live => seat[s].principal # "client"

\* With a token key, a session opened with an OAuth token of this server has its
\* refresh token, though other sessions of that token end and the server restarts;
\* not so where the upstream is asked in between (see the README).
RenewalKept ==
    setting.sealed /\ ~setting.upstream =>
      \A s \in Seat :
        seat[s].live /\ seat[s].from # NoToken /\ issued[seat[s].from] \in {"human", "client"}
        => seat[s].renews

\* All three: a session stays what its client was admitted for.
AdmittedRight == HeldWasJudged /\ ConsentNeedsSubject /\ RenewalKept
=============================================================================
