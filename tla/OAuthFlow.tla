------------------------------ MODULE OAuthFlow ------------------------------
(***************************************************************************)
(* The authorization-code flow of src/auth/oauth-provider.ts and the store *)
(* of OAuth clients it keeps alive (src/auth/client-store/).               *)
(*                                                                         *)
(* A flow is one run of the browser: authorize stores a state, the         *)
(* provider's callback consumes it and exchanges the code upstream, a      *)
(* consent form may hold the flow up, an internal code is minted, and the  *)
(* token endpoint redeems it.  Registrations evict idle clients when the   *)
(* store is full; idle is decided by three counters per client, which the  *)
(* flow and the sessions keep.  A step is the code between two waits for   *)
(* another process (provider, database, browser); awaits that only yield   *)
(* to the microtask queue are inside a step.                               *)
(***************************************************************************)
EXTENDS Naturals, FiniteSets

CONSTANTS
    Client, Flow, Session, None,
    Static,       \* clients whose id is not dynamic ("mcp-client-" and a UUID)
    Initial,      \* those of them the constructor registers
    MaxClients,   \* limits.maxClients
    Gated,        \* the profile requires consent
    Returns       \* an evicted client may be registered again, from a token
                  \* envelope or as an approved unregistered client

ASSUME ConstantsAssumption ==
    /\ Initial \subseteq Static /\ Static \subseteq Client /\ None \notin Client \cup Flow
    /\ IsFiniteSet(Initial) /\ MaxClients \in Nat \ {0} /\ Cardinality(Initial) <= MaxClients
    /\ Gated \in BOOLEAN /\ Returns \in BOOLEAN

VARIABLES
    registered,\* the clients in the store
    older,     \* <<c, d>>: of these c was used, or else created, before d
    used,      \* those that have a lastUsedAt
    seen,      \* the clients ever registered
    count,     \* their pendingState, pendingAuthCode and activeSession counts
    flows,     \* the flows
    session    \* session -> flow whose token opened it, or None

vars == <<registered, older, used, seen, count, flows, session>>

Kind == {"state", "code", "session"}
Counters == [Kind -> Nat]
NoCount == [kind \in Kind |-> 0]

FlowRecord ==
    [ stage    : {"none", "state", "exchanging", "parked", "recording", "code",
                  "redeemed", "over"},
      client   : Client \cup {None},
      old      : BOOLEAN,      \* the record of the stage is past its TTL
      access   : BOOLEAN,      \* the provider holds its access token
      bearer   : BOOLEAN,      \* the transport holds its client token
      tomb     : BOOLEAN,      \* its code has a consumed-code tombstone
      replayed : BOOLEAN ]     \* its code was presented again, and recognised
NoFlow == [ stage |-> "none", client |-> None, old |-> FALSE, access |-> FALSE,
            bearer |-> FALSE, tomb |-> FALSE, replayed |-> FALSE ]

\* The relation orders the clients of the set one after another.
Orders(r, cs) ==
    \A c, d \in cs : /\ c # d => (<<c, d>> \in r <=> <<d, c>> \notin r)
                    /\ <<c, c>> \notin r
                    /\ \A e \in cs : <<c, d>> \in r /\ <<d, e>> \in r => <<c, e>> \in r

Init ==
    /\ registered = Initial
    /\ older \in {r \in SUBSET (Initial \X Initial) : Orders(r, Initial)}
    /\ used = {} /\ seen = Initial
    /\ count = [c \in Client |-> NoCount]
    /\ flows = [f \in Flow |-> NoFlow]
    /\ session = [s \in Session |-> None]

----------------------------------------------------------------------------
(* The client store *)

ClientOf(f) == flows[f].client

\* markClientUsed: the clients of cs were used now.
Touch(cs) ==
    LET touched == cs \cap registered IN
    /\ older' = {p \in older : p[1] \notin touched \/ p[2] \in touched}
                \cup ((registered \ touched) \X touched)
    /\ used' = used \cup touched
    /\ UNCHANGED registered

\* incrementCounter and decrementCounter: an unknown client is ignored.
Opened(c, kind) ==
    /\ count' = IF c \in registered THEN [count EXCEPT ![c][kind] = @ + 1] ELSE count
    /\ Touch({c})
Closed(c, kind) ==
    /\ count' = IF c \in registered
                THEN [count EXCEPT ![c][kind] = IF @ > 0 THEN @ - 1 ELSE 0] ELSE count
    /\ Touch({c})
Untouched == UNCHANGED <<registered, older, used, count>>

Idle(c) == count[c] = NoCount

\* The tiers of policy.ts (idleGraceMs at its default, 0): dynamic, idle and
\* never used; dynamic and idle; idle.
Candidates ==
    LET idle    == {c \in registered : Idle(c)}
        dynamic == idle \ Static
    IN  IF dynamic \ used # {} THEN dynamic \ used
        ELSE IF dynamic # {} THEN dynamic ELSE idle
Victim(v) == v \in Candidates /\ \A d \in Candidates \ {v} : <<v, d>> \in older

Full == Cardinality(registered) >= MaxClients

\* registerClient of a client the store does not have; it refuses when no
\* client can be evicted.
Register(c) ==
    /\ c \notin registered
    /\ c \in seen => Returns
    /\ seen' = seen \cup {c}
    /\ \/ /\ ~Full
          /\ registered' = registered \cup {c} /\ older' = older \cup (registered \X {c})
          /\ UNCHANGED <<used, count>>
       \/ /\ Full
          /\ \E v \in registered :
               /\ Victim(v)
               /\ registered' = (registered \ {v}) \cup {c}
               /\ older' = {p \in older : v \notin {p[1], p[2]}} \cup ((registered \ {v}) \X {c})
               /\ used' = used \ {v}
               /\ count' = [count EXCEPT ![v] = NoCount]
    /\ UNCHANGED <<flows, session>>

----------------------------------------------------------------------------
(* The flow, up to the internal code *)

Enter(f, stage) == [flows EXCEPT ![f].stage = stage, ![f].old = FALSE]

Authorize(f, c) ==
    /\ flows[f].stage = "none" /\ c \in registered
    /\ flows' = [Enter(f, "state") EXCEPT ![f].client = c]
    /\ Opened(c, "state")
    /\ UNCHANGED <<seen, session>>

\* handleCallback, up to the exchange with the provider.
Callback(f) ==
    /\ flows[f].stage = "state"
    /\ flows' = Enter(f, "exchanging")
    /\ Closed(ClientOf(f), "state")
    /\ UNCHANGED <<seen, session>>

\* The exchange, the verification of the identity or the look-up of the grant
\* fails; or a parked or accepted consent does.
FlowFails(f) ==
    /\ \/ flows[f].stage \in {"exchanging", "recording"}
       \/ flows[f].stage = "parked" /\ flows[f].old
    /\ flows' = Enter(f, "over")
    /\ Untouched /\ UNCHANGED <<seen, session>>

\* completeAuthorization: mint the code, if the client is still registered.
MintCode(f) ==
    IF ClientOf(f) \in registered
    THEN flows' = Enter(f, "code") /\ Opened(ClientOf(f), "code")
    ELSE flows' = Enter(f, "over") /\ Untouched

CallbackCompletes(f) ==
    /\ flows[f].stage = "exchanging"
    /\ MintCode(f)
    /\ UNCHANGED <<seen, session>>

\* No grant yet: the completion is parked until the human decides.
Park(f) ==
    /\ Gated /\ flows[f].stage = "exchanging"
    /\ flows' = Enter(f, "parked")
    /\ Untouched /\ UNCHANGED <<seen, session>>

\* The pending entry is consumed, whatever number of tabs posts the form.
Accept(f) ==
    /\ flows[f].stage = "parked" /\ ~flows[f].old
    /\ flows' = Enter(f, "recording")
    /\ Untouched /\ UNCHANGED <<seen, session>>

Deny(f) ==
    /\ flows[f].stage = "parked" /\ ~flows[f].old
    /\ flows' = Enter(f, "over")
    /\ Touch({ClientOf(f)})
    /\ UNCHANGED <<count, seen, session>>

\* The evidence was recorded: the authorization completes.
AcceptCompletes(f) ==
    /\ flows[f].stage = "recording"
    /\ MintCode(f)
    /\ UNCHANGED <<seen, session>>

----------------------------------------------------------------------------
(* The token endpoint *)

\* The client is known to the store, or the request ends in invalid_client.
Admitted(f) == ClientOf(f) \in registered

Redeem(f) ==
    /\ flows[f].stage = "code" /\ ~flows[f].old /\ Admitted(f)
    /\ flows' = [Enter(f, "redeemed") EXCEPT ![f].access = TRUE, ![f].bearer = TRUE,
                                             ![f].tomb = TRUE]
    /\ Closed(ClientOf(f), "code")
    /\ UNCHANGED <<seen, session>>

\* A wrong verifier or redirect_uri consumes the code, and so does its age.
RedeemRefused(f) ==
    /\ flows[f].stage = "code" /\ Admitted(f)
    /\ flows' = Enter(f, "over")
    /\ Closed(ClientOf(f), "code")
    /\ UNCHANGED <<seen, session>>

\* A consumed code is presented again: revokeTokensForConsumedCode.
Replay(f) ==
    /\ flows[f].stage = "redeemed" /\ Admitted(f)
    /\ flows' = IF flows[f].tomb
                THEN [flows EXCEPT ![f].access = FALSE, ![f].replayed = TRUE] ELSE flows
    /\ Touch({ClientOf(f)})
    /\ UNCHANGED <<count, seen, session>>

----------------------------------------------------------------------------
(* Sessions *)

\* createSession under a client token the transport issued.
OpenSession(s, f) ==
    /\ session[s] = None /\ flows[f].bearer
    /\ session' = [session EXCEPT ![s] = f]
    /\ Opened(ClientOf(f), "session")
    /\ UNCHANGED <<flows, seen>>

\* destroySession: the transport forgets the token, and detaches the client.
DestroySession(s) ==
    /\ session[s] # None
    /\ session' = [session EXCEPT ![s] = None]
    /\ flows' = [flows EXCEPT ![session[s]].bearer = FALSE]
    /\ Closed(ClientOf(session[s]), "session")
    /\ UNCHANGED seen

----------------------------------------------------------------------------
(* Time and cleanup *)

GetsOld(f) ==
    /\ flows[f].stage \in {"state", "parked", "code", "redeemed"} /\ ~flows[f].old
    /\ flows' = [flows EXCEPT ![f].old = TRUE]
    /\ Untouched /\ UNCHANGED <<seen, session>>

Expired(c, kind) == {f \in Flow : flows[f].stage = kind /\ flows[f].old /\ ClientOf(f) = c}

LessOrZero(n, k) == IF n > k THEN n - k ELSE 0
CountKept(c) == count[c]
CountCleaned(c) ==
    IF c \in registered
    THEN [count[c] EXCEPT !.state = LessOrZero(@, Cardinality(Expired(c, "state"))),
                          !.code = LessOrZero(@, Cardinality(Expired(c, "code")))]
    ELSE count[c]

\* The periodic cleanup of expired states, codes and tombstones.
Cleanup ==
    /\ flows' = [f \in Flow |->
                   IF ~flows[f].old THEN flows[f]
                   ELSE IF flows[f].stage \in {"state", "code"}
                   THEN [flows[f] EXCEPT !.stage = "over", !.old = FALSE]
                   ELSE IF flows[f].stage = "redeemed" THEN [flows[f] EXCEPT !.tomb = FALSE]
                   ELSE flows[f]]
    /\ count' = [c \in Client |-> CountCleaned(c)]
    /\ Touch({c \in Client : Expired(c, "state") \cup Expired(c, "code") # {}})
    /\ UNCHANGED <<seen, session>>

Next ==
    \/ \E c \in Client : Register(c) \/ \E f \in Flow : Authorize(f, c)
    \/ \E f \in Flow :
          \/ Callback(f) \/ FlowFails(f) \/ CallbackCompletes(f)
          \/ Park(f) \/ Accept(f) \/ Deny(f) \/ AcceptCompletes(f)
          \/ Redeem(f) \/ RedeemRefused(f) \/ Replay(f) \/ GetsOld(f)
    \/ \E s \in Session : DestroySession(s) \/ \E f \in Flow : OpenSession(s, f)
    \/ Cleanup

Spec == Init /\ [][Next]_vars

\* Records age, and the transport's interval runs the cleanup for ever.
Fairness == WF_vars(Cleanup) /\ \A f \in Flow : WF_vars(GetsOld(f))

FairSpec == Spec /\ Fairness

----------------------------------------------------------------------------
(* Properties *)

\* Types; the store never holds more than maxClients.
TypeOK ==
    /\ IsFiniteSet(registered) /\ Cardinality(registered) <= MaxClients
    /\ older \subseteq registered \X registered /\ Orders(older, registered)
    /\ used \subseteq registered /\ registered \subseteq seen /\ seen \subseteq Client
    /\ count \in [Client -> Counters]
    /\ flows \in [Flow -> FlowRecord]
    /\ session \in [Session -> Flow \cup {None}]

FlowsAt(c, stage) == {f \in Flow : flows[f].stage = stage /\ ClientOf(f) = c}
SessionsOf(c) == {s \in Session : session[s] # None /\ ClientOf(session[s]) = c}

\* The counters that decide what may be evicted say how many states, codes and
\* sessions the client has: no path through the flow, its failures and the
\* cleanup closes one twice or never.
CountersExact ==
    \A c \in registered : /\ count[c].state = Cardinality(FlowsAt(c, "state"))
                          /\ count[c].code = Cardinality(FlowsAt(c, "code"))
                          /\ count[c].session = Cardinality(SessionsOf(c))

\* A registration never evicts a client with a pending state, a pending code or
\* an open session.
EvictionSparesActive ==
    [][ \A c \in Client : c \in registered /\ c \notin registered'
          => FlowsAt(c, "state") \cup FlowsAt(c, "code") \cup SessionsOf(c) = {} ]_vars

\* A flow abandoned by its browser does not pin its client for ever.
PinReleased == \A c \in Client : count[c].state + count[c].code > 0
                                   ~> count[c].state + count[c].code = 0

\* A client whose authorization is under way is not evicted.
FlowKeepsClient ==
    \A f \in Flow : flows[f].stage \in {"state", "exchanging", "parked", "recording", "code"}
                      => ClientOf(f) \in registered

\* A replayed code revokes the tokens of its first redemption.
ReplayRevokes == \A f \in Flow : flows[f].replayed => ~flows[f].access /\ ~flows[f].bearer
=============================================================================
