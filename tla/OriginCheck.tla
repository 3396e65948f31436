----------------------------- MODULE OriginCheck -----------------------------
(***************************************************************************)
(* Which browsers may speak to a server (src/transport/http-transport.ts): *)
(* a request with an Origin header is admitted at once if the host is one  *)
(* of the server's; a server of many profiles loads the context of the     *)
(* profile the request asks for, and looks again.  The profile is in the   *)
(* path, in the resource a request for metadata names, or it is the        *)
(* default, or the one that the client asked for before (its hint).        *)
(*                                                                         *)
(* An origin is its host; one that does not parse is one that nothing      *)
(* allows.  The context is the server promise of MCPServerManager, which   *)
(* ProfileStates has with its sessions.                                    *)
(***************************************************************************)
EXTENDS HostPatterns

CONSTANTS
    Browsing,      \* the requests
    ClientKey,     \* address and user agent
    Profile, NoProfile,
    Unresolved,    \* a resource that names no profile
    Origin, NoOrigin,
    Exists,        \* the profiles of the registry
    Operational,   \* those whose OAuth config is complete
    Redirect,      \* profile -> the hosts of the redirect_uri of its OAuth config
    Uncached,
    Sites          \* the configurations to consider

\* routing: profileRoutingEnabled; own: config.host; redirects: the host of
\* config.oauthConfig's redirect_uri; allowed: config.allowedOrigins.
ASSUME OriginAssumption ==
    /\ Width \in Nat \ {0} /\ Origin \subseteq Host /\ NoOrigin \notin Origin
    /\ NoProfile \notin Profile /\ Unresolved \notin Profile \cup {NoProfile}
    /\ Exists \subseteq Profile /\ Operational \subseteq Exists
    /\ \A p \in Profile : Redirect[p] \subseteq Host /\ Redirect[p] # Uncached
    /\ \A s \in Sites :
         /\ s.routing \in BOOLEAN /\ s.default \in Profile \cup {NoProfile}
         /\ ~s.routing => s.default # NoProfile
         /\ s.own \in Host /\ s.redirects \subseteq Host
         /\ \A p \in s.allowed : HostPattern(p)

VARIABLES
    deployed,      \* the configuration
    promise,       \* profile -> its server's promise
    cached,        \* profile -> oauthRedirectHostCache
    running,       \* the profiles of profileStates
    hint,          \* client -> profileHintsByClient
    check          \* the requests

originVars == <<deployed, promise, cached, running, hint, check>>

-----------------------------------------------------------------------------
HintRecord == [profile : Profile \cup {NoProfile}, old : BOOLEAN]
BrowsingRecord ==
    [ at : {"idle", "priming", "primed", "admitted", "refused", "opening"},
      of : Profile \cup {NoProfile},   \* the profile it is judged or served for
      origin : Origin \cup {NoOrigin}, key : ClientKey \cup {NoProfile},
      endpoint : {"none", "profile", "metadata", "root"},
      names : Profile \cup {NoProfile, Unresolved} ]
NoHint == [profile |-> NoProfile, old |-> FALSE]
NotBrowsing == [at |-> "idle", of |-> NoProfile, origin |-> NoOrigin, key |-> NoProfile,
         endpoint |-> "none", names |-> NoProfile]

\* Without routing there is one profile, made from the configuration.
OriginInit ==
    /\ deployed \in Sites
    /\ promise = [p \in Profile |-> IF ~deployed.routing /\ p = deployed.default THEN "ready" ELSE "none"]
    /\ cached = [p \in Profile |-> Uncached] /\ running = {}
    /\ hint = [k \in ClientKey |-> NoHint] /\ check = [c \in Browsing |-> NotBrowsing]

RedirectHosts(p) == IF deployed.routing THEN Redirect[p] ELSE deployed.redirects

\* getOAuthRedirectHostPatterns
RedirectHostPatterns ==
    deployed.redirects \cup (UNION {RedirectHosts(p) : p \in running \cap Operational})
    \cup (UNION {cached[p] : p \in {q \in Profile : cached[q] # Uncached}})

MatchOrigin(host, p) == MatchRedirectHost(host, p)

\* The name of an IPv6 host is in brackets, config.host is not.
IsAllowedOrigin(host) ==
    \/ host \in {Localhost, LoopbackAddress}
    \/ host = deployed.own /\ host.kind # "v6"
    \/ \E h \in RedirectHostPatterns : MatchOrigin(host, [kind |-> "exact", host |-> h])
    \/ \E p \in deployed.allowed : MatchOrigin(host, p)

Hinted(k, p) == [hint EXCEPT ![k] = [profile |-> p, old |-> FALSE]]
LiveHint(hints, k) == IF hints[k].old THEN NoProfile ELSE hints[k].profile

\* resolveProfileIdForOriginCheck
ProfileToCheck(hints, k, names) ==
    IF names \in Profile THEN names
    ELSE IF deployed.default # NoProfile THEN deployed.default
    ELSE LiveHint(hints, k)

LoadContext(p) ==
    promise' = IF promise[p] = "none" THEN [promise EXCEPT ![p] = "creating"] ELSE promise

-----------------------------------------------------------------------------
(* Requests *)

\* What a request may ask for: a profile's endpoint, the metadata of a resource,
\* or an endpoint at the root, which has no use for the resource it may name.
MayAsk(endpoint, names) ==
    /\ endpoint = "profile" => deployed.routing /\ names \in Profile
    /\ ~deployed.routing => names \in {deployed.default, NoProfile, Unresolved}

\* The middleware keeps the hint, then looks at the origin.
HintsAfter(k, endpoint, names) == IF endpoint = "profile" THEN Hinted(k, names) ELSE hint
Arrives(c, k, endpoint, names, origin, at) ==
    LET of == ProfileToCheck(HintsAfter(k, endpoint, names), k, names) IN
    /\ check[c].at = "idle" /\ MayAsk(endpoint, names)
    /\ check' = [check EXCEPT ![c] = [ at |-> at, of |-> of, origin |-> origin, key |-> k,
                                       endpoint |-> endpoint, names |-> names ]]
    /\ UNCHANGED <<deployed, cached, running>>

ArriveAllowed(c, k, endpoint, names, origin) ==
    /\ origin # NoOrigin => IsAllowedOrigin(origin)
    /\ Arrives(c, k, endpoint, names, origin, "admitted")
    /\ hint' = HintsAfter(k, endpoint, names) /\ UNCHANGED promise

\* An old hint is dropped when it is looked at.
ArriveRefused(c, k, endpoint, names, origin) ==
    /\ origin # NoOrigin /\ ~IsAllowedOrigin(origin)
    /\ ~deployed.routing \/ ProfileToCheck(HintsAfter(k, endpoint, names), k, names) = NoProfile
    /\ Arrives(c, k, endpoint, names, origin, "refused")
    /\ hint' = IF deployed.routing THEN [hint EXCEPT ![k] = NoHint] ELSE hint
    /\ UNCHANGED promise

\* primeOAuthRedirectHosts, up to its await
ArriveAskingOnce(c, k, endpoint, names, origin) ==
    LET p == ProfileToCheck(HintsAfter(k, endpoint, names), k, names)
        loads == cached[p] = Uncached /\ promise[p] = "none" IN
    /\ origin # NoOrigin /\ ~IsAllowedOrigin(origin) /\ deployed.routing /\ p # NoProfile
    /\ Arrives(c, k, endpoint, names, origin, IF loads THEN "priming" ELSE "primed")
    /\ hint' = HintsAfter(k, endpoint, names)
    /\ IF loads THEN LoadContext(p) ELSE UNCHANGED promise
ArriveAsking(c, k, endpoint, names, origin) ==
    LET p == ProfileToCheck(HintsAfter(k, endpoint, names), k, names) IN
    /\ origin # NoOrigin /\ ~IsAllowedOrigin(origin) /\ deployed.routing /\ p # NoProfile
    /\ Arrives(c, k, endpoint, names, origin, IF cached[p] = Uncached THEN "priming" ELSE "primed")
    /\ hint' = HintsAfter(k, endpoint, names)
    /\ IF cached[p] = Uncached THEN LoadContext(p) ELSE UNCHANGED promise

\* Its end: a context that did not come leaves no entry.
PrimeOAuthRedirectHosts(c) ==
    LET p == check[c].of IN
    /\ check[c].at = "priming" /\ promise[p] \in {"ready", "failed"}
    /\ cached' = IF promise[p] = "ready" THEN [cached EXCEPT ![p] = RedirectHosts(p)] ELSE cached
    /\ check' = [check EXCEPT ![c].at = "primed"]
    /\ UNCHANGED <<deployed, promise, running, hint>>

\* isAllowedOriginForRequest looks again.
LookAgain(c) ==
    LET r == check[c] IN
    /\ r.at = "primed"
    /\ check' = [check EXCEPT ![c] =
         IF IsAllowedOrigin(r.origin) THEN [r EXCEPT !.at = "admitted"]
         ELSE [NotBrowsing EXCEPT !.at = "refused", !.of = r.of, !.origin = r.origin]]
    /\ UNCHANGED <<deployed, promise, cached, running, hint>>

-----------------------------------------------------------------------------
(* Handlers *)

\* The profile that attachProfileId, attachProfileFromResourceQuery,
\* attachProfileFromHint and getProfileIdForRequest come to.
ProfileToServe(r) ==
    IF r.endpoint = "root"
    THEN IF deployed.default # NoProfile THEN deployed.default ELSE LiveHint(hint, r.key)
    ELSE IF r.names = NoProfile THEN deployed.default
    ELSE IF r.names = Unresolved THEN NoProfile ELSE r.names

\* The request of a client that asks for the metadata of a resource leaves a
\* hint, too.
Route(c) ==
    LET r == check[c]  p == ProfileToServe(r) IN
    /\ r.at = "admitted"
    /\ check' = [check EXCEPT ![c] =
         IF p = NoProfile THEN NotBrowsing
         ELSE [NotBrowsing EXCEPT !.at = "opening", !.of = p, !.origin = r.origin]]
    /\ IF p = NoProfile THEN UNCHANGED promise ELSE LoadContext(p)
    /\ hint' = IF r.endpoint = "metadata" /\ r.names \in Profile THEN Hinted(r.key, r.names)
               ELSE IF r.endpoint = "root" /\ p = NoProfile THEN [hint EXCEPT ![r.key] = NoHint]
               ELSE hint
    /\ UNCHANGED <<deployed, cached, running>>

\* getProfileState: found or made, or the request fails.  The OAuth routes first
\* ask for the state of the profile to find its limiter; what that then turns
\* away ends here as well.
GetProfileState(c) ==
    LET p == check[c].of IN
    /\ check[c].at = "opening" /\ promise[p] \in {"ready", "failed"}
    /\ check' = [check EXCEPT ![c] = NotBrowsing]
    /\ \/ promise[p] = "ready" /\ running' = running \cup {p}
       \/ p \notin running /\ UNCHANGED running
    /\ UNCHANGED <<deployed, promise, cached, hint>>

-----------------------------------------------------------------------------
ContextComes(p) ==
    /\ promise[p] = "creating" /\ p \in Exists
    /\ promise' = [promise EXCEPT ![p] = "ready"] /\ UNCHANGED <<deployed, cached, running, hint, check>>
\* It fails for good, as it does for a profile that is not found.
ContextFails(p) ==
    /\ promise[p] = "creating"
    /\ promise' = [promise EXCEPT ![p] = "failed"] /\ UNCHANGED <<deployed, cached, running, hint, check>>

\* PROFILE_HINT_TTL_MS pass.
HintAges(k) ==
    /\ hint[k] # NoHint /\ hint' = [hint EXCEPT ![k].old = TRUE]
    /\ UNCHANGED <<deployed, promise, cached, running, check>>

RefusalSent(c) ==
    /\ check[c].at = "refused" /\ check' = [check EXCEPT ![c] = NotBrowsing]
    /\ UNCHANGED <<deployed, promise, cached, running, hint>>

OriginNext ==
    \/ \E c \in Browsing, k \in ClientKey, endpoint \in {"profile", "metadata", "root"},
          names \in Profile \cup {NoProfile, Unresolved}, origin \in Origin \cup {NoOrigin} :
          \/ ArriveAllowed(c, k, endpoint, names, origin)
          \/ ArriveRefused(c, k, endpoint, names, origin)
          \/ ArriveAsking(c, k, endpoint, names, origin)
    \/ \E c \in Browsing :
          PrimeOAuthRedirectHosts(c) \/ LookAgain(c) \/ Route(c) \/ GetProfileState(c) \/ RefusalSent(c)
    \/ \E p \in Profile : ContextComes(p) \/ ContextFails(p)
    \/ \E k \in ClientKey : HintAges(k)

OriginSpec == OriginInit /\ [][OriginNext]_originVars

-----------------------------------------------------------------------------
(* Properties *)

OriginTypeOK ==
    /\ deployed \in Sites /\ running \subseteq Profile
    /\ promise \in [Profile -> {"none", "creating", "ready", "failed"}]
    /\ DOMAIN cached = Profile /\ \A p \in Profile : cached[p] \in {Uncached, RedirectHosts(p)}
    /\ hint \in [ClientKey -> HintRecord] /\ check \in [Browsing -> BrowsingRecord]

\* The hosts that the configuration itself lets in, by ranges of so many bits at
\* least: an IPv4 range of none holds its own address only.
Configured(host, bits) ==
    \/ host \in {Localhost, LoopbackAddress} \cup deployed.redirects
    \/ host = deployed.own /\ host.kind # "v6"
    \/ \E p \in deployed.allowed :
         Belongs(host, p) /\ (p.kind = "range" => p.bits \in bits .. Width)

\* A browser speaks to a handler only from a host of the configuration or one
\* that a profile's OAuth config sends browsers to, whose context has loaded;
\* it is refused only from a host of neither kind, be it that the profile it
\* asked for did not load: however requests, loads and hints interleave
\* (isAllowedOriginForRequest, primeOAuthRedirectHosts).
OriginsJudged ==
    \A c \in Browsing :
        LET r == check[c] IN
        /\ r.at \in {"admitted", "opening"} /\ r.origin # NoOrigin =>
             \/ Configured(r.origin, 0)
             \/ \E p \in Profile : promise[p] = "ready" /\ r.origin \in RedirectHosts(p)
        /\ r.at = "refused" =>
             /\ ~Configured(r.origin, 1)
             /\ deployed.routing /\ r.of # NoProfile /\ r.origin \in RedirectHosts(r.of)
                  => promise[r.of] = "failed"
=============================================================================
