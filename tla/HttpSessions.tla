---------------------------- MODULE HttpSessions ----------------------------
(***************************************************************************)
(* The HTTP sessions of src/transport/http-transport.ts: their OAuth       *)
(* tokens, the per-session refresh of these tokens, and what a tool call   *)
(* sends upstream (src/mcp/mcp-server.ts, src/transport/                   *)
(* http-client-factory.ts).                                                *)
(*                                                                         *)
(* A grant stands for what one answer of the provider's token endpoint     *)
(* brought: an access token, a refresh token, and the mcp4.v1 envelope     *)
(* around both that the client is given.  The client presents envelopes;   *)
(* oauthTokensByAccessToken leads from an envelope to its access token.    *)
(* One profile is modelled, with a token key and with tokens that expire.  *)
(* A handler that need not wait for another process runs on before the     *)
(* event loop takes the next event (Turn); only the clock moves meanwhile. *)
(***************************************************************************)
EXTENDS Naturals, FiniteSets

CONSTANTS
    Session, Request, None,
    MaxGrants,    \* bound on the grants the provider issues
    MaxRestarts,  \* bound on the restarts of the server
    Deployments   \* the deployments to consider

\* A deployment: whether the provider accepts a refresh token once only, whether
\* clients may open two live sessions with one envelope, whether the profile's
\* auth config has a validation_endpoint, and what requests carry: nothing,
\* their "own" envelope (the session was opened with) or a "newer" one.
ASSUME ConstantsAssumption ==
    /\ MaxGrants \in Nat /\ MaxRestarts \in Nat
    /\ Deployments \subseteq
         [ rotates : BOOLEAN, shared : BOOLEAN, validates : BOOLEAN,
           bearers : SUBSET {"none", "own", "newer"} ]
    /\ None \notin Session \cup Request /\ "client" \notin Session

Grant == 1 .. MaxGrants
NoGrant == 0

VARIABLES
    deployment, \* which of them it is
    session,   \* the sessions
    cached,    \* the HTTP client of each session: the credential it was built with
    known,     \* the envelopes in oauthTokensByAccessToken
    request,   \* the requests being handled
    minted,    \* the number of grants issued so far
    minter,    \* grant -> the session whose refresh it answered, or None
    held,      \* the grants that MCP clients hold
    aged,      \* those whose access token has expired or is about to
    spentBy,   \* grant -> who used up its refresh token: a session, "client" or None
    lost,      \* sessions for which an answer of the provider was lost
    restarts

vars == <<session, cached, known, request, minted, minter, held, aged, spentBy, lost, restarts>>
provider == <<minted, minter, held, spentBy, lost>>

----------------------------------------------------------------------------
(* State *)

Rotates == deployment.rotates
Shared == deployment.shared
Validates == deployment.validates
Bearers == deployment.bearers

SessionRecord ==
    [ state  : {"unborn", "live", "gone"},
      origin : Grant \cup {NoGrant},   \* the envelope of its initialize
      token  : Grant \cup {NoGrant},   \* authToken
      rt     : Grant \cup {NoGrant},   \* whose refresh token refreshToken is
      exp    : Grant \cup {NoGrant},   \* whose expiry accessTokenExpiresAt is
      idle   : BOOLEAN,                \* lastActivityAt is past the timeout
      leader : Request \cup {None} ]   \* who runs refreshInFlight
Unborn == [ state |-> "unborn", origin |-> NoGrant, token |-> NoGrant, rt |-> NoGrant,
            exp |-> NoGrant, idle |-> FALSE, leader |-> None ]

\* A credential: the access token of a grant, or (raw = FALSE) its envelope.
Credential == [grant : Grant \cup {NoGrant}, raw : BOOLEAN]
Anonymous == [grant |-> NoGrant, raw |-> TRUE]

\* The token is checked in handlePost (round 1), where the message is handled
\* (round 2) and for the HTTP client of a REST call (round 3).
RequestRecord ==
    [ at     : {"idle", "validating", "exchanging", "waiting", "checked", "sent", "refused"},
      of     : Session \cup {None},
      bearer : Grant \cup {NoGrant},
      round  : 1 .. 3,
      rt     : Grant \cup {NoGrant},    \* the refresh token it is exchanging
      sent   : Credential ]
NoRequest == [ at |-> "idle", of |-> None, bearer |-> NoGrant, round |-> 1,
               rt |-> NoGrant, sent |-> Anonymous ]

NoClient == [made |-> FALSE, with |-> Anonymous]

Init ==
    /\ deployment \in Deployments
    /\ session = [s \in Session |-> Unborn]
    /\ cached = [s \in Session |-> NoClient]
    /\ known = {} /\ request = [r \in Request |-> NoRequest]
    /\ minted = 0 /\ minter = [g \in Grant |-> None] /\ held = {} /\ aged = {}
    /\ spentBy = [g \in Grant |-> None] /\ lost = {} /\ restarts = 0

IsLive(s) == session[s].state = "live"

\* No handler can run on: the event loop takes the next event.
Turn == \A r \in Request : request[r].at # "checked"

----------------------------------------------------------------------------
(* The provider and the token endpoint *)

\* An authorization code is redeemed: the client gets an envelope.
Login ==
    /\ Turn /\ minted < MaxGrants
    /\ minted' = minted + 1
    /\ held' = held \cup {minted'} /\ known' = known \cup {minted'}
    /\ UNCHANGED <<session, cached, request, minter, aged, spentBy, lost, restarts>>

Accepts(g) == Rotates => spentBy[g] = None
Spends(g, who) == spentBy' = IF Rotates THEN [spentBy EXCEPT ![g] = who] ELSE spentBy

\* A client refreshes its grant itself, at /oauth/token.
ClientRefreshes(g) ==
    /\ Turn /\ g \in held /\ Accepts(g) /\ minted < MaxGrants
    /\ minted' = minted + 1
    /\ held' = held \cup {minted'} /\ known' = known \cup {minted'}
    /\ Spends(g, "client")
    /\ UNCHANGED <<session, cached, request, minter, aged, lost, restarts>>

Ages(g) ==
    /\ g \in 1 .. minted \ aged
    /\ aged' = aged \cup {g}
    /\ UNCHANGED <<session, cached, known, request, provider, restarts>>

----------------------------------------------------------------------------
(* Opening and ending a session *)

\* initialize: the envelope is known, or (after a restart, or when another
\* session took its entry along) it is decrypted and entered again.
Entered(g) == known \cup {g}
Initialize(s, g) ==
    /\ Turn /\ session[s].state = "unborn" /\ g \in held
    /\ Shared \/ \A t \in Session : IsLive(t) => g \notin {session[t].origin, session[t].token}
    /\ session' = [session EXCEPT ![s] = [Unborn EXCEPT !.state = "live",
                       !.origin = g, !.token = g, !.rt = g, !.exp = g]]
    /\ known' = Entered(g)
    /\ UNCHANGED <<cached, request, provider, aged, restarts>>

\* destroySession of every session in ss, and the listener that drops its client.
Destroys(ss) ==
    /\ session' = [s \in Session |->
                     IF s \in ss THEN [session[s] EXCEPT !.state = "gone"] ELSE session[s]]
    /\ known' = known \ {session[s].token : s \in ss}
    /\ cached' = [s \in Session |-> IF s \in ss THEN NoClient ELSE cached[s]]
    /\ UNCHANGED <<request, provider, aged, restarts>>

\* DELETE, or a consent denial that invalidates the session.
EndSession(s) == Turn /\ IsLive(s) /\ Destroys({s})

Idles(s) ==
    /\ IsLive(s) /\ ~session[s].idle
    /\ session' = [session EXCEPT ![s].idle = TRUE]
    /\ UNCHANGED <<cached, known, request, provider, aged, restarts>>

ExpiredWithoutRefreshToken == {s \in Session : IsLive(s) /\ session[s].idle /\ session[s].rt = NoGrant}
Expired == {s \in Session : IsLive(s) /\ session[s].idle}
CleanupExpiredSessions == Turn /\ Expired # {} /\ Destroys(Expired)

\* The process ends and another starts; in-memory state is gone.
Restart ==
    /\ Turn /\ restarts < MaxRestarts
    /\ restarts' = restarts + 1
    /\ session' = [s \in Session |-> IF IsLive(s) THEN [session[s] EXCEPT !.state = "gone"]
                                     ELSE session[s]]
    /\ known' = {} /\ cached' = [s \in Session |-> NoClient]
    /\ request' = [r \in Request |-> NoRequest]
    /\ UNCHANGED <<provider, aged>>

----------------------------------------------------------------------------
(* ensureValidSessionToken and refreshAccessToken *)

\* The check came out: on goes the request, or (round 1 only) it is refused.
Checked(rec, ok) ==
    [rec EXCEPT !.at = IF ok \/ rec.round > 1 THEN "checked" ELSE "refused", !.rt = NoGrant]

InFlightUnread(t) == FALSE
InFlight(t) == t.leader # None

\* accessTokenExpiresAt is within a minute
ExpiresUnread(t) == TRUE
ExpiresSoon(t) == t.exp \in aged

\* The check by request r, whose record is rec, of its session, which is t by now.
EnsureValid(r, rec, t) ==
    LET s == rec.of IN
    IF t.state # "live" \/ ~ExpiresSoon(t)
    THEN /\ session' = [session EXCEPT ![s] = t]
         /\ request' = [request EXCEPT ![r] = Checked(rec, t.state = "live")]
    ELSE IF InFlight(t)
    THEN /\ session' = [session EXCEPT ![s] = t]
         /\ request' = [request EXCEPT ![r] = [rec EXCEPT !.at = "waiting"]]
    ELSE /\ session' = [session EXCEPT ![s] = [t EXCEPT !.leader = r]]
         /\ request' = [request EXCEPT ![r] = [rec EXCEPT !.at = "exchanging", !.rt = t.rt]]

\* The leader's promise settles: refreshInFlight is cleared and all who await
\* it get the same answer.  ss is what became of the sessions.
Cleared(ss, s, r) == [ss EXCEPT ![s].leader = IF @ = r THEN None ELSE @]
AwaitsAlone(q, r) == q = r
Awaits(q, r) == q = r \/ (request[q].at = "waiting" /\ session[request[r].of].leader = r
                          /\ request[q].of = request[r].of)
Settles(r, ss, ok) ==
    /\ session' = Cleared(ss, request[r].of, r)
    /\ request' = [q \in Request |-> IF Awaits(q, r) THEN Checked(request[q], ok) ELSE request[q]]

\* performTokenRefresh: the session takes over the new grant g.
Renewed(t, g) == [t EXCEPT !.token = g, !.exp = g, !.rt = IF Rotates THEN g ELSE @]
RefreshSucceeds(r) ==
    LET s == request[r].of IN
    /\ Turn /\ request[r].at = "exchanging" /\ Accepts(request[r].rt) /\ minted < MaxGrants
    /\ minted' = minted + 1
    /\ minter' = [minter EXCEPT ![minted'] = s]
    /\ Spends(request[r].rt, s)
    /\ known' = (known \ {session[s].token}) \cup {minted'}
    /\ Settles(r, [session EXCEPT ![s] = Renewed(@, minted')], TRUE)
    /\ UNCHANGED <<cached, held, aged, lost, restarts>>

\* The provider refuses, or it is not reached.
RefreshFails(r) ==
    /\ Turn /\ request[r].at = "exchanging"
    /\ Settles(r, session, FALSE)
    /\ UNCHANGED <<cached, known, provider, aged, restarts>>

\* The provider accepts, but its answer does not arrive.
RefreshAnswerLost(r) ==
    /\ Turn /\ request[r].at = "exchanging" /\ Rotates /\ Accepts(request[r].rt)
    /\ Spends(request[r].rt, request[r].of)
    /\ lost' = lost \cup {request[r].of}
    /\ Settles(r, session, FALSE)
    /\ UNCHANGED <<cached, known, minted, minter, held, aged, restarts>>

----------------------------------------------------------------------------
(* A request *)

\* What the Authorization header of a request for session s may hold.
Bearer(s) ==
    (IF "none" \in Bearers THEN {NoGrant} ELSE {})
    \cup (IF "own" \in Bearers THEN {session[s].origin} ELSE {})
    \cup (IF "newer" \in Bearers
          THEN {g \in held : /\ g > session[s].origin
                             /\ \A t \in Session : IsLive(t) => g # session[t].token}
          ELSE {})

\* handlePost: a bearer that is not the session's token replaces it.
Replaces(s, g) == g # NoGrant /\ g # session[s].token
Post(r, s, g) ==
    LET rec == [NoRequest EXCEPT !.of = s, !.bearer = g]
        t == [session[s] EXCEPT !.idle = FALSE]
    IN  /\ Turn /\ request[r].at = "idle" /\ IsLive(s) /\ g \in Bearer(s)
        /\ IF Replaces(s, g) /\ Validates
           THEN /\ session' = [session EXCEPT ![s] = t]
                /\ request' = [request EXCEPT ![r] = [rec EXCEPT !.at = "validating"]]
           ELSE EnsureValid(r, rec, IF Replaces(s, g) THEN [t EXCEPT !.token = g] ELSE t)
        /\ UNCHANGED <<cached, known, provider, aged, restarts>>

\* validateClientTokenAgainstConfig accepted the bearer: the session takes it.
BearerAccepted(r) ==
    /\ Turn /\ request[r].at = "validating"
    /\ EnsureValid(r, request[r], [session[request[r].of] EXCEPT !.token = request[r].bearer])
    /\ UNCHANGED <<cached, known, provider, aged, restarts>>

\* The provider does not know the bearer any more.
BearerRejected(r) ==
    /\ Turn /\ request[r].at = "validating" /\ request[r].bearer \in aged
    /\ request' = [request EXCEPT ![r].at = "refused"]
    /\ UNCHANGED <<session, cached, known, provider, aged, restarts>>

\* getSessionToken
SessionCredential(s) ==
    IF IsLive(s) THEN [grant |-> session[s].token, raw |-> session[s].token \in known]
    ELSE Anonymous

Sends(r, credential) == request' = [request EXCEPT ![r].at = "sent", ![r].sent = credential]

IsChecked(r, n) == request[r].at = "checked" /\ request[r].round = n

\* Where the message is handled, the token is checked again ...
HandleMessage(r) ==
    /\ IsChecked(r, 1)
    /\ EnsureValid(r, [request[r] EXCEPT !.round = 2], session[request[r].of])
    /\ UNCHANGED <<cached, known, provider, aged, restarts>>

\* ... and a session that is gone by now has no token at all.
Unauthenticated(r) ==
    /\ IsChecked(r, 2) /\ ~IsLive(request[r].of)
    /\ request' = [request EXCEPT ![r].at = "refused"]
    /\ UNCHANGED <<session, cached, known, provider, aged, restarts>>

\* A call of an upstream MCP server: getUpstreamToken.
CallUpstream(r) ==
    /\ IsChecked(r, 2) /\ IsLive(request[r].of)
    /\ Sends(r, SessionCredential(request[r].of))
    /\ UNCHANGED <<session, cached, known, provider, aged, restarts>>

\* A call of the REST API: getHttpClientForSession checks the token once more ...
CallApi(r) ==
    /\ IsChecked(r, 2) /\ IsLive(request[r].of)
    /\ EnsureValid(r, [request[r] EXCEPT !.round = 3], session[request[r].of])
    /\ UNCHANGED <<cached, known, provider, aged, restarts>>

\* ... and getOrCreateSessionClient builds the session's client or returns it.
ApiClient(s) == IF cached[s].made THEN cached[s] ELSE [made |-> TRUE, with |-> SessionCredential(s)]
SendToApi(r) ==
    LET s == request[r].of IN
    /\ IsChecked(r, 3)
    /\ cached' = [cached EXCEPT ![s] = ApiClient(s)]
    /\ Sends(r, ApiClient(s).with)
    /\ UNCHANGED <<session, known, provider, aged, restarts>>

Answered(r) ==
    /\ Turn /\ request[r].at \in {"sent", "refused"}
    /\ request' = [request EXCEPT ![r] = NoRequest]
    /\ UNCHANGED <<session, cached, known, provider, aged, restarts>>

----------------------------------------------------------------------------
RunsOn(r) ==
    HandleMessage(r) \/ Unauthenticated(r) \/ CallUpstream(r) \/ CallApi(r) \/ SendToApi(r)
Continues(r) ==
    \/ RefreshSucceeds(r) \/ RefreshFails(r) \/ RefreshAnswerLost(r)
    \/ BearerAccepted(r) \/ BearerRejected(r) \/ Answered(r)

Next ==
    /\ UNCHANGED deployment
    /\ \/ Login \/ \E g \in Grant : ClientRefreshes(g) \/ Ages(g)
       \/ \E s \in Session, g \in Grant : Initialize(s, g)
       \/ \E s \in Session : EndSession(s) \/ Idles(s)
       \/ CleanupExpiredSessions \/ Restart
       \/ \E r \in Request, s \in Session, g \in Grant \cup {NoGrant} : Post(r, s, g)
       \/ \E r \in Request : RunsOn(r) \/ Continues(r)

\* A handler that can run on does.  The event loop takes its events in turn, so
\* that none that recurs is passed over for ever: the cleanup timer, and the end of
\* every wait of a handler, since fetch gives up at last on a server that hangs.
Fairness ==
    /\ SF_vars(CleanupExpiredSessions)
    /\ \A r \in Request : WF_vars(RunsOn(r)) /\ SF_vars(Continues(r))

Spec == Init /\ [][Next]_<<vars, deployment>> /\ Fairness

----------------------------------------------------------------------------
(* Properties *)

\* Types, and a session's refresh is led by a request that is exchanging for it.
TypeOK ==
    /\ deployment \in Deployments /\ session \in [Session -> SessionRecord]
    /\ cached \in [Session -> [made : BOOLEAN, with : Credential]]
    /\ request \in [Request -> RequestRecord]
    /\ minted \in 0 .. MaxGrants /\ known \cup held \cup aged \subseteq 1 .. minted
    /\ minter \in [Grant -> Session \cup {None}] /\ spentBy \in [Grant -> Session \cup {"client", None}]
    /\ lost \subseteq Session /\ restarts \in 0 .. MaxRestarts
    /\ \A s \in Session : InFlight(session[s]) /\ session[s].state = "live" =>
          request[session[s].leader].at = "exchanging" /\ request[session[s].leader].of = s

\* A session never presents a refresh token that it has used up itself: not in
\* a second exchange beside the first, and not later, since it keeps the token
\* of the last answer.  Only an answer that never arrived leaves it with a
\* spent one.  (The single flight of refreshAccessToken, and its promise that
\* a failed refresh does not clobber the refresh token.)
SpendsOnce ==
    /\ \A r \in Request : request[r].at = "exchanging" =>
          spentBy[request[r].rt] # request[r].of \/ request[r].of \in lost
    /\ \A s \in Session : IsLive(s) => spentBy[session[s].rt] # s \/ s \in lost

\* What goes upstream as a credential is an access token, never the envelope
\* that only serves to find it (getSessionToken).
UpstreamGetsAccessToken == \A r \in Request : request[r].at = "sent" => request[r].sent.raw

\* It is so as long as no envelope is presented a second time: to a session
\* that has refreshed, or to open another.
AccessTokenIfEnvelopeOnce ==
    Bearers = {"none"} /\ ~Shared => UpstreamGetsAccessToken

\* A call goes out with the token the session has at that time: a refresh that
\* is complete is in effect for the calls that follow it.
CallsUseCurrentToken ==
    [][\A r \in Request : LET s == request[r].of IN
          request[r].at # "sent" /\ request'[r].at = "sent" /\ IsLive(s)
             => request'[r].sent.grant = session[s].token]_vars

\* A request is only refused when the token it presents is expired, unless
\* it is one that the session's own expiry knows nothing of.
FreshBearerServed ==
    "newer" \notin Bearers => \A r \in Request :
        request[r].at = "refused" /\ request[r].bearer # NoGrant /\ IsLive(request[r].of)
           => request[r].bearer \in aged

\* Once a session is gone, so are the tokens its refreshes brought.
GoneLeavesNoToken ==
    \A g \in known : minter[g] # None => IsLive(minter[g])

\* Once a session is gone, so is its HTTP client.
GoneLeavesNoClient == \A s \in Session : cached[s].made => IsLive(s)

\* Every request is answered, also one that waits for another's refresh.
RequestAnswered == \A r \in Request : request[r].at # "idle" ~> request[r].at = "idle"

\* A session nobody uses any more ends.
IdleSessionEnds == \A s \in Session : (IsLive(s) /\ session[s].idle) ~> ~(IsLive(s) /\ session[s].idle)
=============================================================================
