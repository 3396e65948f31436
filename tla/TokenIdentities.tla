--------------------------- MODULE TokenIdentities ---------------------------
(***************************************************************************)
(* Whose the provider's tokens are: the maps of src/auth/oauth-provider.ts *)
(* that lead from an access token and from a refresh token to the verified *)
(* identity of the login they come from, and the discovery of the          *)
(* endpoints that every operation waits for.                               *)
(*                                                                         *)
(* A token is <<login, n>>, what the provider's n-th answer for that login *)
(* brought; an identity is the login whose user it is of.  Refresh tokens  *)
(* go to clients raw, or in envelopes that carry client and identity; a    *)
(* session keeps one too.  Records vanish when they expire: a step that    *)
(* finds one expired treats it as absent.  The stages of a login are in    *)
(* OAuthFlow, the rotation of envelopes in RefreshRotation.                *)
(***************************************************************************)
EXTENDS Naturals, FiniteSets

CONSTANTS
    SignIn, App, Renewal, NoUser,
    AppOf,           \* login -> the client it is for
    Configured,      \* the clients that the server registers itself
    StandIn,         \* the one a session refreshes as when its own client is gone
    Settings,
    MaxIdentities,   \* REFRESH_IDENTITY_MAX
    MaxAnswers       \* bound on the answers to refreshes, per login

\* config: the fields of the OAuth config, "unset" if they refer to a variable of
\* the environment that is not set; unregistered: allow_unregistered_clients;
\* verified: there is an identity verifier; keyed: there is a token key;
\* consented: the profile is consent-gated.
Field == {"issuer", "authorize", "token", "redirect", "client", "other"}
ASSUME IdentitiesAssumption ==
    /\ \A s \in Settings :
         /\ s.config \in [Field -> {"absent", "unset", "given"}]
         /\ {s.unregistered, s.verified, s.keyed, s.consented} \subseteq BOOLEAN
         /\ s.consented => s.verified /\ s.keyed
    /\ NoUser \notin SignIn \cup App
    /\ AppOf \in [SignIn -> App] /\ StandIn \in Configured /\ Configured \subseteq App
    /\ MaxIdentities \in Nat \ {0} /\ MaxAnswers \in Nat

VARIABLES
    setup,       \* which of the settings it is
    provider,    \* the OAuth provider of the profile
    endpoints,   \* what is known of the provider's endpoints
    registered,  \* the clients in the store
    code,        \* login -> its authorization code, and the tombstone of it
    access,      \* access token -> the record of accessTokens, or NoRecord
    identities,  \* refresh token -> its binding in refreshTokenIdentities, or NoRecord
    renewal,     \* the refreshes that wait for the provider
    seat,        \* login -> its session
    held,        \* the refresh tokens that clients hold, raw or in envelopes
    answered     \* login -> the number of answers

idVars == <<setup, provider, endpoints, registered, code, access, identities,
            renewal, seat, held, answered>>
known == <<setup, provider, endpoints>>
issued == <<access, identities, renewal, seat, held, answered>>

Token == SignIn \X (0 .. MaxAnswers)
SignInOf(t) == t[1]
NoRecord == [client |-> NoUser, user |-> NoUser]
NoRenewal == [at |-> "idle", by |-> "client", token |-> <<>>, client |-> NoUser, user |-> NoUser]
NoSeat == [at |-> "none", token |-> <<>>, user |-> NoUser]

IdentitiesInit ==
    /\ setup \in Settings /\ provider = "unknown" /\ endpoints = "unknown"
    /\ registered = App
    /\ code = [l \in SignIn |-> "none"]
    /\ access = [t \in Token |-> NoRecord] /\ identities = access
    /\ renewal = [x \in Renewal |-> NoRenewal]
    /\ seat = [l \in SignIn |-> NoSeat]
    /\ held = {} /\ answered = [l \in SignIn |-> 0]

----------------------------------------------------------------------------
(* The provider and its endpoints *)

Given(field) == setup.config[field] = "given"

\* isOAuthConfigOperational
Operational ==
    /\ Given("issuer") \/ (Given("authorize") /\ Given("token"))
    /\ ~setup.unregistered => Given("redirect") /\ setup.config["client"] # "unset"

\* resolveEnvVars throws at the first reference to a variable that is not set.
Resolves == \A field \in Field : setup.config[field] # "unset"

CreateProvider ==
    /\ provider = "unknown"
    /\ provider' = IF Operational /\ Resolves THEN "made" ELSE "disabled"
    /\ UNCHANGED <<setup, endpoints, registered, code, issued>>

\* ensureEndpointsInitialized, deriveEndpointsFromIssuer: the first request asks,
\* the others wait for it.
SeekEndpoints ==
    /\ provider = "made" /\ endpoints = "unknown"
    /\ endpoints' = IF Given("authorize") /\ Given("token") THEN "found" ELSE "rfc8414"
    /\ UNCHANGED <<setup, provider, registered, code, issued>>

\* fetchOAuthMetadata: two places, and the standard paths if neither has it; the
\* guess is never looked at again.
MetadataReturns ==
    /\ endpoints \in {"rfc8414", "oidc"}
    /\ endpoints' \in {"found", IF endpoints = "rfc8414" THEN "oidc" ELSE "guessed"}
    /\ UNCHANGED <<setup, provider, registered, code, issued>>

Ready == endpoints \in {"found", "guessed"}

----------------------------------------------------------------------------
(* Identities *)

Bound == {t \in Token : identities[t] # NoRecord}
Without(t) == [identities EXCEPT ![t] = NoRecord]

\* storeRefreshTokenIdentity: bindings make room in a full map; the code takes the
\* oldest, the model any.
Room(ids) ==
    IF Cardinality({t \in Token : ids[t] # NoRecord}) < MaxIdentities THEN {ids}
    ELSE {[ids EXCEPT ![t] = NoRecord] : t \in {o \in Token : ids[o] # NoRecord}}
StoreIdentity(ids, t, user, client) ==
    identities' \in {[r EXCEPT ![t] = [client |-> client, user |-> user]] : r \in Room(ids)}

\* The identity that a refresh token presented by a client inherits.
CachedForAny(t, client) == identities[t].user
Cached(t, client) == IF identities[t].client = client THEN identities[t].user ELSE NoUser

\* One bound to another client is dropped.
DropsForeign(t, client) ==
    identities' = IF identities[t].client = client THEN identities ELSE Without(t)

\* buildClientRefreshToken, storeOAuthTokens: the client gets an envelope, or the
\* token as it is.
Envelope(t, client, user) == [token |-> t, client |-> client, user |-> user]
Raw(t) == Envelope(t, NoUser, NoUser)
Hands(t, client, user) ==
    held' = held \cup {IF setup.keyed THEN Envelope(t, client, user) ELSE Raw(t)}

----------------------------------------------------------------------------
(* Clients *)

UserOf(l) == IF setup.verified THEN l ELSE NoUser

\* A dynamic client of which nothing is under way is evicted; it registers again, or
\* returns from an envelope.
EvictApp(c) ==
    /\ c \in registered \ Configured
    /\ \A l \in SignIn : AppOf[l] = c => code[l] # "minted" /\ seat[l] = NoSeat
    /\ registered' = registered \ {c}
    /\ UNCHANGED <<known, code, issued>>
ReturnApp(c) ==
    /\ c \notin registered /\ registered' = registered \cup {c}
    /\ UNCHANGED <<known, code, issued>>

----------------------------------------------------------------------------
(* Codes *)

\* handleCallback: the provider's code is exchanged, its identity token verified,
\* a code minted; if one of these fails the login is over.
SignInReturns(l) ==
    /\ Ready /\ code[l] = "none"
    /\ \E at \in {"minted", "over"} :
         /\ at = "minted" => AppOf[l] \in registered
         /\ code' = [code EXCEPT ![l] = at]
    /\ UNCHANGED <<known, registered, issued>>

\* exchangeAuthorizationCode: another client is refused, a wrong verifier spends
\* the code, the right one brings the tokens and the session that is opened with them.
RedeemCode(l) ==
    LET t == <<l, 0>>  c == AppOf[l]  u == UserOf(l) IN
    /\ code[l] = "minted" /\ c \in registered
    /\ code' = [code EXCEPT ![l] = "spent"]
    /\ access' = [access EXCEPT ![t] = [client |-> c, user |-> u]]
    /\ IF u = NoUser THEN UNCHANGED identities ELSE StoreIdentity(identities, t, u, c)
    /\ Hands(t, c, u)
    /\ seat' = [seat EXCEPT ![l] = [at |-> "open", token |-> t, user |-> u]]
    /\ UNCHANGED <<known, registered, renewal, answered>>
MissRedemption(l) ==
    /\ code[l] = "minted" /\ AppOf[l] \in registered
    /\ code' = [code EXCEPT ![l] = "over"]
    /\ UNCHANGED <<known, registered, issued>>

\* revokeTokensForConsumedCode: what the first redemption brought is revoked.
ReplayCode(l) ==
    /\ code[l] \in {"spent", "replayed"}
    /\ code' = [code EXCEPT ![l] = "replayed"]
    /\ access' = [access EXCEPT ![<<l, 0>>] = NoRecord] /\ identities' = Without(<<l, 0>>)
    /\ UNCHANGED <<known, registered, renewal, seat, held, answered>>

----------------------------------------------------------------------------
(* Refreshes *)

\* What a token endpoint's client presents (resolveRefreshGrant): an envelope of its
\* own, or a raw token, which a consent-gated profile refuses.  The identity
\* comes from the envelope, or else from what the provider remembers.
Presents(t, c, u) ==
    /\ c \in registered
    /\ \/ Envelope(t, c, u) \in held
       \/ Raw(t) \in held /\ u = NoUser
    /\ setup.consented => u # NoUser

\* exchangeRefreshToken, up to the call of the provider.
Begins(x, by, t, c, carried) ==
    /\ Ready /\ renewal[x].at = "idle"
    /\ renewal' = [renewal EXCEPT ![x] =
           [ at |-> "asked", by |-> by, token |-> t, client |-> c,
             user |-> IF carried # NoUser THEN carried ELSE Cached(t, c) ]]
    /\ DropsForeign(t, c)
    /\ UNCHANGED <<known, registered, code, access, seat, held, answered>>
OfSeat(x, l) == renewal[x].by = "session" /\ SignInOf(renewal[x].token) = l
RefreshGrant(x, t, c, u) == Presents(t, c, u) /\ Begins(x, "client", t, c, u)

\* performTokenRefresh, one at a time: for the session's user, as its client or the stand-in.
RefreshSession(x, l) ==
    /\ seat[l].at = "open" /\ \A y \in Renewal : ~OfSeat(y, l)
    /\ Begins(x, "session", seat[l].token,
              IF AppOf[l] \in registered THEN AppOf[l] ELSE StandIn, seat[l].user)

\* The provider answers with a new refresh token, the same one or none.
RenewalReturns(x) ==
    LET r == renewal[x]
        l == SignInOf(r.token)
        new == <<l, answered[l] + 1>> IN
    /\ r.at = "asked" /\ answered[l] < MaxAnswers
    /\ answered' = [answered EXCEPT ![l] = @ + 1]
    /\ renewal' = [renewal EXCEPT ![x] = NoRenewal]
    /\ access' = [access EXCEPT ![new] = [client |-> r.client, user |-> r.user]]
    /\ \/ \E t \in {new, r.token} :
            /\ IF r.user = NoUser THEN UNCHANGED identities
               ELSE StoreIdentity(Without(r.token), t, r.user, r.client)
            /\ IF r.by = "client" THEN Hands(t, r.client, r.user) ELSE UNCHANGED held
            /\ seat' = IF r.by = "session" THEN [seat EXCEPT ![l].token = t] ELSE seat
       \/ UNCHANGED <<identities, seat, held>>
    /\ UNCHANGED <<known, registered, code>>
RenewalFails(x) ==
    /\ renewal[x].at = "asked"
    /\ renewal' = [renewal EXCEPT ![x] = NoRenewal]
    /\ UNCHANGED <<known, registered, code, access, identities, seat, held, answered>>

----------------------------------------------------------------------------
(* Time, revocation, restart *)

\* cleanup, and the checks that find a record expired.
IdentityExpires(t) ==
    /\ t \in Bound /\ identities' = Without(t)
    /\ UNCHANGED <<known, registered, code, access, renewal, seat, held, answered>>
CodeExpires(l) ==
    /\ code[l] \in {"minted", "spent", "replayed"}
    /\ code' = [code EXCEPT ![l] = "over"]
    /\ UNCHANGED <<known, registered, issued>>

\* verifyAccessToken, revokeToken, cleanup
AccessEnds(t) ==
    /\ access[t] # NoRecord /\ access' = [access EXCEPT ![t] = NoRecord]
    /\ UNCHANGED <<known, registered, code, identities, renewal, seat, held, answered>>
SeatEnds(l) ==
    /\ seat[l].at = "open" /\ seat' = [seat EXCEPT ![l] = NoSeat]
    /\ renewal' = [x \in Renewal |-> IF OfSeat(x, l) THEN [renewal[x] EXCEPT !.by = "ended"] ELSE renewal[x]]
    /\ UNCHANGED <<known, registered, code, access, identities, held, answered>>

\* A session is opened with an envelope the process does not know.
SeatReturns(e) ==
    LET l == SignInOf(e.token) IN
    /\ e \in held \ {Raw(e.token)} /\ seat[l].at = "none"
    /\ seat' = [seat EXCEPT ![l] = [at |-> "open", token |-> e.token, user |-> e.user]]
    /\ UNCHANGED <<known, registered, code, access, identities, renewal, held, answered>>

RestartServer ==
    /\ provider' = "unknown" /\ endpoints' = "unknown" /\ registered' = Configured
    /\ code' = [l \in SignIn |-> IF code[l] = "none" THEN "none" ELSE "over"]
    /\ access' = [t \in Token |-> NoRecord] /\ identities' = access'
    /\ renewal' = [x \in Renewal |-> NoRenewal] /\ seat' = [l \in SignIn |-> NoSeat]
    /\ UNCHANGED <<setup, held, answered>>

IdentitiesNext ==
    \/ CreateProvider \/ SeekEndpoints \/ MetadataReturns
    \/ \E c \in App : EvictApp(c) \/ ReturnApp(c)
    \/ \E l \in SignIn :
          \/ SignInReturns(l) \/ RedeemCode(l) \/ MissRedemption(l) \/ ReplayCode(l)
          \/ CodeExpires(l) \/ SeatEnds(l)
    \/ \E x \in Renewal, t \in Token, c \in App, u \in SignIn \cup {NoUser} : RefreshGrant(x, t, c, u)
    \/ \E x \in Renewal, l \in SignIn : RefreshSession(x, l)
    \/ \E x \in Renewal : RenewalReturns(x) \/ RenewalFails(x)
    \/ \E t \in Token : IdentityExpires(t) \/ AccessEnds(t)
    \/ \E e \in held : SeatReturns(e)
    \/ RestartServer

IdentitiesSpec == IdentitiesInit /\ [][IdentitiesNext]_idVars

----------------------------------------------------------------------------
(* Properties *)

Record == [client : App \cup {NoUser}, user : SignIn \cup {NoUser}]
IdentitiesTypeOK ==
    /\ setup \in Settings /\ registered \subseteq App
    /\ code \in [SignIn -> {"none", "minted", "spent", "replayed", "over"}]
    /\ access \in [Token -> Record] /\ identities \in [Token -> Record]
    /\ renewal \in [Renewal -> [at : {"idle", "asked"}, by : {"client", "session", "ended"},
                                 token : Token \cup {<<>>}, client : App \cup {NoUser},
                                 user : SignIn \cup {NoUser}]]
    /\ seat \in [SignIn -> [at : {"none", "open"}, token : Token \cup {<<>>},
                              user : SignIn \cup {NoUser}]]
    /\ held \subseteq [token : Token, client : App \cup {NoUser}, user : SignIn \cup {NoUser}]
    /\ answered \in [SignIn -> 0 .. MaxAnswers]
    /\ Cardinality(Bound) <= MaxIdentities

Fits(t, client, user) ==
    user # NoUser => user = SignInOf(t) /\ client \in {AppOf[user], StandIn}

\* An identity goes with the tokens of its user's login and to the client that
\* login is for (or the stand-in of its session), raw or in envelopes, through
\* rotation, replay, eviction and restart; in a consent-gated profile no token is
\* nobody's; and what a replayed code brought does not come back.
\* (exchangeRefreshToken: "Identity bindings are client-scoped".)
IdentityBound ==
    /\ \A t \in Token : Fits(t, access[t].client, access[t].user)
    /\ \A t \in Token : Fits(t, identities[t].client, identities[t].user)
    /\ \A e \in held : Fits(e.token, e.client, e.user)
    /\ setup.consented => \A t \in Token : access[t] # NoRecord => access[t].user = SignInOf(t)
    /\ \A l \in SignIn : code[l] = "replayed" => access[<<l, 0>>] = NoRecord
=============================================================================
