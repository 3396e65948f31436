--------------------------- MODULE TenantSelectors ---------------------------
(***************************************************************************)
(* The tenants of a profile (src/transport/http-tenant-config.ts): the     *)
(* index built from MCP4_HTTP_TENANTS when the profile's state is made, the *)
(* selector headers of a request, the tenant a session is bound to, and    *)
(* where the session's calls of the REST API then go                       *)
(* (src/mcp/mcp-server.ts, src/transport/http-client-factory.ts).          *)
(*                                                                         *)
(* A URL is its scheme and port (site), its host labels and its path       *)
(* segments, as the parsing leaves them; a mask has "*" among them.        *)
(***************************************************************************)
EXTENDS Naturals, Sequences

CONSTANTS
    TenantId, Url,
    TenantLists,   \* the tenant configurations to consider
    ProfileAuth,   \* the auth configs of the profile, by priority
    ProfileOAuth,  \* whether the profile has an OAuth config
    Visit,         \* the sessions
    NoTenant       \* no tenant, no header

\* An auth config: whether its type is oauth, whether it brings an OAuth config,
\* and what authFingerprint shows of it.
AuthConfig == [oauth : BOOLEAN, brings : BOOLEAN, shown : STRING]

\* scoped: profile_ids is a list of distinct names; here: it names the profile;
\* sound: tenant_id and api_base_url pass their checks, and there is no "default".
TenantEntry ==
    [ id : TenantId, scoped : BOOLEAN, here : BOOLEAN, sound : BOOLEAN,
      kind : {"exact", "mask"}, at : [site : STRING, host : Seq(STRING), path : Seq(STRING)],
      mode : {"oauth", "token"}, auth : Seq(AuthConfig) ]   \* <<>>: none of its own

ASSUME TenantAssumption ==
    /\ TenantLists \subseteq Seq(TenantEntry)
    /\ Url \subseteq [site : STRING, host : Seq(STRING), path : Seq(STRING)]
    /\ NoTenant \notin TenantId /\ NoTenant \notin Url
    /\ \A list \in TenantLists : \A k \in DOMAIN list : list[k].kind = "exact" => list[k].at \in Url

VARIABLES
    tenants,     \* the configuration
    read,        \* how many of them the loop has read
    byTenantId,  \* tenant_id -> its position, or 0
    byBaseUrl,   \* URL -> the position of the tenant that an exact selector means, or 0
    masks,       \* the positions of the tenants with masks
    index,       \* "building", "ready", "disabled", or "refused": the build threw
    life,        \* the sessions: "unborn", "live", "gone"
    bound,       \* session -> the context it is bound to
    built,       \* session -> what its cached HTTP client is for, or NoTenant
    call         \* session -> its call of the API

indexVars == <<read, byTenantId, byBaseUrl, masks, index>>
tenantVars == <<tenants, read, byTenantId, byBaseUrl, masks, index, life, bound, built, call>>

-----------------------------------------------------------------------------
(* Selectors *)

Covers(masked, concrete) ==
    /\ Len(masked) = Len(concrete)
    /\ \A i \in DOMAIN masked : masked[i] = "*" \/ masked[i] = concrete[i]

\* maskMatchesBaseUrl
Matches(mask, url) ==
    mask.site = url.site /\ Covers(mask.path, url.path) /\ Covers(mask.host, url.host)

Overlap(left, right) ==
    /\ Len(left) = Len(right)
    /\ \A i \in DOMAIN left : left[i] = "*" \/ right[i] = "*" \/ left[i] = right[i]

\* masksIntersect
Intersect(left, right) ==
    left.site = right.site /\ Overlap(left.path, right.path) /\ Overlap(left.host, right.host)

\* resolveEffectiveTenantAuthContext: the tenant's auth configs or else the
\* profile's, those of the tenant's mode.
EffectiveAuth(t) ==
    LET OfMode(c) == c.oauth = (t.mode = "oauth")
    IN  SelectSeq(IF t.auth # <<>> THEN t.auth ELSE ProfileAuth, OfMode)
AuthUsable(t) ==
    LET auth == EffectiveAuth(t)
    IN  auth # <<>> /\ (t.mode = "oauth" => auth[1].brings \/ ProfileOAuth)

\* authFingerprint
Shown(t) == LET auth == EffectiveAuth(t) IN [i \in DOMAIN auth |-> <<auth[i].oauth, auth[i].shown>>]
SameAuth(t, u) == Shown(t) = Shown(u) /\ t.mode = u.mode

-----------------------------------------------------------------------------
(* buildTenantIndexForProfile *)

\* The profile's own base URL and auth, where no tenant is bound.
Default == [tenant |-> 0, url |-> NoTenant]
Context(k, url) == [tenant |-> k, url |-> url]
NoCall == [at |-> "idle", id |-> NoTenant, url |-> NoTenant, under |-> Default, to |-> Default]

NoUrls == [u \in Url |-> 0]
NoIds == [n \in TenantId |-> 0]

TenantInit ==
    /\ tenants \in TenantLists
    /\ read = 0 /\ byTenantId = NoIds /\ byBaseUrl = NoUrls /\ masks = {} /\ index = "building"
    /\ life = [c \in Visit |-> "unborn"] /\ bound = [c \in Visit |-> Default]
    /\ built = [c \in Visit |-> NoTenant] /\ call = [c \in Visit |-> NoCall]

CollidesExact(t) ==
    \/ byBaseUrl[t.at] # 0 /\ ~SameAuth(t, tenants[byBaseUrl[t.at]])
    \/ \E m \in masks : Matches(tenants[m].at, t.at)
CollidesMask(t) ==
    \/ \E u \in Url : byBaseUrl[u] # 0 /\ Matches(t.at, u)
    \/ \E m \in masks : Intersect(tenants[m].at, t.at)
Acceptable(t) ==
    /\ t.sound /\ AuthUsable(t) /\ byTenantId[t.id] = 0
    /\ IF t.kind = "exact" THEN ~CollidesExact(t) ELSE ~CollidesMask(t)

\* One turn of the loop.
SkipTenant(t) ==
    /\ t.scoped /\ ~t.here
    /\ read' = read + 1
    /\ UNCHANGED <<byTenantId, byBaseUrl, masks, index>>
TakeTenant(t, k) ==
    /\ t.scoped /\ t.here /\ Acceptable(t)
    /\ read' = k
    /\ byTenantId' = [byTenantId EXCEPT ![t.id] = k]
    /\ byBaseUrl' = IF t.kind = "exact" /\ byBaseUrl[t.at] = 0
                    THEN [byBaseUrl EXCEPT ![t.at] = k] ELSE byBaseUrl
    /\ masks' = IF t.kind = "mask" THEN masks \cup {k} ELSE masks
    /\ UNCHANGED index
RefuseTenants(t) ==
    /\ ~t.scoped \/ (t.here /\ ~Acceptable(t))
    /\ index' = "refused"
    /\ UNCHANGED <<read, byTenantId, byBaseUrl, masks>>
ReadTenant ==
    /\ index = "building" /\ read < Len(tenants)
    /\ LET t == tenants[read + 1]
       IN  SkipTenant(t) \/ TakeTenant(t, read + 1) \/ RefuseTenants(t)
    /\ UNCHANGED <<tenants, life, bound, built, call>>

IndexBuilt ==
    /\ index = "building" /\ read = Len(tenants)
    /\ index' = IF \A n \in TenantId : byTenantId[n] = 0 THEN "disabled" ELSE "ready"
    /\ UNCHANGED <<tenants, read, byTenantId, byBaseUrl, masks, life, bound, built, call>>

\* The profile has no state then; the next request for it tries to make one.
BuildAgain ==
    /\ index = "refused"
    /\ read' = 0 /\ byTenantId' = NoIds /\ byBaseUrl' = NoUrls /\ masks' = {}
    /\ index' = "building"
    /\ UNCHANGED <<tenants, life, bound, built, call>>

-----------------------------------------------------------------------------
(* resolveTenantFromHeaders *)

MaskMatches(url) == {m \in masks : Matches(tenants[m].at, url)}

\* What X-Mcp4-Api-Base-Url alone selects: 0 if nothing does, or more than one.
ByUrl(url) ==
    IF byBaseUrl[url] # 0 THEN byBaseUrl[url]
    ELSE IF \E m \in masks : MaskMatches(url) = {m} THEN CHOOSE m \in masks : MaskMatches(url) = {m}
    ELSE 0

\* The values of the headers: none, or one that has passed its checks.  A value
\* that does not, or a second one, fails the request before its session is looked at.
TenantIdHeader == TenantId \cup {NoTenant}
BaseUrlHeader == Url \cup {NoTenant}

\* The headers id and url resolve to context; where they resolve to none, the
\* request is refused.
Resolves(id, url, context) ==
    \/ index = "disabled" /\ context = Default
    \/ index = "ready" /\ id = NoTenant /\ url = NoTenant /\ context = Default
    \/ /\ index = "ready" /\ url # NoTenant /\ ByUrl(url) # 0
       /\ id # NoTenant => byTenantId[id] = ByUrl(url)
       /\ context = Context(ByUrl(url), url)
    \/ /\ index = "ready" /\ id # NoTenant /\ url = NoTenant /\ byTenantId[id] # 0
       /\ tenants[byTenantId[id]].kind = "exact"
       /\ context = Context(byTenantId[id], tenants[byTenantId[id]].at)

Contexts == {Default} \cup [tenant : 1 .. Len(tenants), url : Url]

\* initialize: createSession keeps the context.
OpenFor(c, id, url) ==
    /\ life[c] = "unborn"
    /\ \E context \in Contexts : Resolves(id, url, context) /\ bound' = [bound EXCEPT ![c] = context]
    /\ life' = [life EXCEPT ![c] = "live"]
    /\ UNCHANGED <<tenants, indexVars, built, call>>

\* destroySession, and the listener that drops the session's HTTP client.
Close(c) ==
    /\ life[c] = "live"
    /\ life' = [life EXCEPT ![c] = "gone"]
    /\ built' = [built EXCEPT ![c] = NoTenant]
    /\ UNCHANGED <<tenants, indexVars, bound, call>>

\* A later request may name the tenant again; it must be the session's.
HeadersAgreeOnTenant(c, id, url) ==
    id # NoTenant \/ url # NoTenant =>
        \E context \in Contexts : Resolves(id, url, context) /\ bound[c].tenant = context.tenant
HeadersAgree(c, id, url) == id # NoTenant \/ url # NoTenant => Resolves(id, url, bound[c])

\* getHttpClientForSession, after its wait: the cached client, or one for the
\* context that the session has by then (getSessionTenantContext).
ClientFor(c) ==
    IF built[c] # NoTenant THEN built[c] ELSE IF life[c] = "live" THEN bound[c] ELSE Default
Goes(c, now) ==
    /\ call' = [call EXCEPT ![c] = [now EXCEPT !.at = "sent", !.to = ClientFor(c)]]
    /\ built' = [built EXCEPT ![c] = ClientFor(c)]

\* A tools/call.  Its token may have to be refreshed first, if it is an OAuth one.
UsesOAuth(context) ==
    IF context.tenant = 0 THEN ProfileOAuth ELSE tenants[context.tenant].mode = "oauth"
CallFor(c, id, url) ==
    /\ life[c] = "live" /\ call[c].at = "idle" /\ HeadersAgree(c, id, url)
    /\ LET now == [NoCall EXCEPT !.id = id, !.url = url, !.under = bound[c]] IN
       \/ /\ UsesOAuth(bound[c])
          /\ call' = [call EXCEPT ![c] = [now EXCEPT !.at = "refreshing"]]
          /\ UNCHANGED built
       \/ Goes(c, now)
    /\ UNCHANGED <<tenants, indexVars, life, bound>>
RefreshOver(c) ==
    /\ call[c].at = "refreshing" /\ Goes(c, call[c])
    /\ UNCHANGED <<tenants, indexVars, life, bound>>
CallOverFor(c) ==
    /\ call[c].at = "sent"
    /\ call' = [call EXCEPT ![c] = NoCall]
    /\ UNCHANGED <<tenants, indexVars, life, bound, built>>

TenantNext ==
    \/ ReadTenant \/ IndexBuilt \/ BuildAgain
    \/ \E c \in Visit, id \in TenantIdHeader, url \in BaseUrlHeader :
          OpenFor(c, id, url) \/ CallFor(c, id, url)
    \/ \E c \in Visit : Close(c) \/ RefreshOver(c) \/ CallOverFor(c)

TenantSpec == TenantInit /\ [][TenantNext]_tenantVars

-----------------------------------------------------------------------------
(* Properties *)

Indexed == {byTenantId[n] : n \in TenantId} \ {0}
Admits(k, url) == IF tenants[k].kind = "exact" THEN tenants[k].at = url ELSE Matches(tenants[k].at, url)

\* A base URL stands for one way to log in: whatever tenants of a profile admit
\* it, they show the same auth.  (The collisions that the build refuses, pair by
\* pair and in any order of the list, leave no URL to two of them; so the
\* guard against ambiguity at run time has nothing to do.)
UrlFixesAuth ==
    index = "ready" => \A i, j \in Indexed, url \in Url :
        Admits(i, url) /\ Admits(j, url) => SameAuth(tenants[i], tenants[j])

\* A request that names a tenant, or a base URL, is answered from that one as
\* long as its session lives: through the index, the session's context, the
\* comparison with it and the cached client.
NamedIsServed ==
    index = "ready" => \A c \in Visit :
        call[c].at = "sent" /\ life[c] = "live" =>
            /\ call[c].id # NoTenant =>
                 call[c].to.tenant # 0 /\ tenants[call[c].to.tenant].id = call[c].id
            /\ call[c].url # NoTenant => call[c].to.url = call[c].url

\* Neither the index nor a call confuses two tenants.
TenantsKeptApart == UrlFixesAuth /\ NamedIsServed

\* The tenant of the session takes precedence over what the profile says, in
\* every call of the session.
\* (plans/finished/http-tenant-session-override-plan.md: "session tenant override
\* > profile defaults".)
TenantTakesPrecedence == \A c \in Visit : call[c].at = "sent" => call[c].to = call[c].under
=============================================================================
