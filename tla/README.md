# mcp4openapi: verification project

mcp4openapi turns an OpenAPI document and a profile into MCP tools and serves them over stdio or HTTP. This
directory holds TLA+ models of the parts whose correctness depends on interleavings, expiry, limits and failures,
the TLC configurations that check them on small instances, and proofs, checked by TLAPS, of what matters most
for all values of the constants. Paths below are relative to the repository's root; every definition that models
code is listed in `PROJECT.json` under `map` with the lines it stands for.

Contents: [parts of the system](#parts-of-the-system), [modules and code](#modules-and-code), [runs](#runs),
[bounds](#bounds-and-why-they-are-enough), [fairness](#fairness), [proofs](#proofs),
[where code and text differ](#where-code-and-text-differ), [not modelled](#what-is-not-modelled), [plan](#plan),
[how to run](#how-to-run).

## Parts of the system

The server is one Node.js process. There is one thread: code between two awaits is atomic, and everything else
interleaves at awaits, timers and socket events. All state of the parts below is in memory and lost at a restart,
but for the consent evidence, which several processes may share. The repository's own agents (`src/automation`) are
scheduled jobs whose state is what GitHub holds: labels, comments, branches.

| Part | State it keeps | Operations | What is hard | Modules |
|---|---|---|---|---|
| Refresh-token rotation (`src/auth/refresh-rotation-store.ts`, `src/transport/refresh-envelope.ts`) | per family the active token, a lease in flight, a grace window, an LRU order; tombstones of revoked families | beginRotation, commit, fail, revoke, lazy eviction | concurrent redemptions, revocation during an exchange, three clocks, caps, restart | RefreshRotation, TokenChain; proved |
| Upstream connections (`src/upstream/`, `src/mcp/mcp-server.ts`) | connections, connects in flight, markers of destroyed sessions, heartbeat timers, tool-name cache | getOrConnect, createConnection, handleTransportError/Close, ping, closeAll, tools/list | joining a connect, token rotation, late transport events, destruction while connecting | UpstreamConnections; proved |
| OAuth provider (`src/auth/oauth-provider.ts`) | pending states, codes, consumed codes, records of tokens, identities of refresh tokens, discovered endpoints | authorize, handleCallback, exchange, replay, refresh, verify, cleanup | awaits between the stages, expiry of each stage, whose a refreshed token is | OAuthFlow, TokenIdentities; proved |
| Redirect policy (`unregistered-client-redirect-policy.ts`, provider) | clients that came without registration | authorize, callback, register, recover | the client of a flow is evicted, comes back or changes before its code is sent | RedirectTargets; proved |
| OAuth client store (`src/auth/client-store/`) | clients with last use and three counters | register with eviction by tiers, mark/release, cleanup | counters against what is really pending; a full store | OAuthFlow; proved |
| HTTP sessions and token refresh (`src/transport/http-transport.ts`, `http-client-factory.ts`) | sessions with token, refresh token, expiry; token map; cached HTTP clients | initialize, POST with a bearer, ensureValidSessionToken, refresh, DELETE, cleanup, recovery | single flight of the refresh, answers lost, bearers replaced while refreshing | HttpSessions; proved |
| Session admission (same file, `client-auth-gate.ts`, API-key stores, `inbound-auth-token-store.ts`) | records of inbound tokens, token map, sessions' principals | initialize, judging a token, recovery, swap of a session's token | a record read before an await and used after it | SessionAdmission; proved |
| Enterprise auth (`enterprise-auth-provider.ts`, `jwks-cache.ts`, `enterprise-replay-store.ts`, `oidc-identity-verifier.ts`) | replay store, shared key refresh and cool-down, slots and rate, remembered discovery | jwt-bearer grant, login verification, key refresh | replay inside the window, eviction at capacity, keys that rotate while a refresh is under way | EnterpriseGrants; proved |
| Consent gate and forms (`consent-gate.ts`, `pending-consent-store*.ts`, `consent-http-controller.ts`, PostgreSQL evidence) | evidence rows, parked logins, approvals used up | evaluate, park, show, post, record, revoke | replicas, deployments of new rules, clocks that disagree | ConsentGate; proved |
| Re-consent (`reconsent-tracker.ts`, transport) | budget per subject, armed refusals | denied call, refused envelope, login | eviction of an armed refusal | Reconsent; proved |
| Consent evidence file (`consent-evidence-store.ts`) | append-only file; per process an index, an offset and the tail it read | record, revoke, lookup, each with a reload | other processes write the same file; torn lines, failed reads, crashes, repairs | ConsentEvidence |
| Tenants (`http-tenant-config.ts`, transport, `mcp-server.ts`) | an index by id, base URL and mask; the tenant of a session | build at first use, selector headers, calls | masks that overlap, a session that ends during its call | TenantSelectors; proved |
| Profile runtime states (transport, `mcp-server-manager.ts`) | server promise and runtime state per profile | getServer, getProfileState, /ready | state read before an await, written after it | ProfileStates; proved |
| Origin check (transport) | hints of clients' profiles, cached redirect hosts of profiles | admit, refuse, load a context and look again, route | a profile taken from what another request left, contexts that load meanwhile or fail | OriginCheck, HostPatterns; proved |
| SSE delivery (transport, `upstream-notification-queue.ts`) | event ids, replay queue, notification buffer, streams | sendToClient, startSSEStream, replayMessages, buffer and drain | half-open streams, reconnects, caps, one id space for POST and GET | SseDelivery; proved |
| Tool calls (`src/mcp/mcp-server.ts`, `src/tool-filter/`) | the tools that are served, a session's filter and policy | start, initialize, tools/call | a policy that changes during a call; tools of mixed categories | ToolCalls; proved |
| Composite tools (`src/tooling/`) | results by step | check at load, sort, levels, partial results | graphs the check and the sort see differently, failures inside a level | StepGraph; proved |
| REST requests (`session-cookie-auth.ts`, `response-cache-interceptor.ts`) | cookie jar, login in flight, back-off; shared fetches | request through the chain, 401 with relogin and replay, invalidation on write | replay from within a shared fetch; fetches that outlive a write | ApiRequests; proved |
| Cache policy (`cache-policy-*.ts`, `cache-revalidation-utils.ts`, `in-memory-cache-store.ts`) | kept responses | read, keep, revalidate, evict | which header wins; a 304 for an entry that changed meanwhile | CacheFreshness; proved |
| Rate limiter and retries (`interceptors.ts`) | token buckets; attempt counters | take or wait, log in, follow redirects, retry with back-off, replay | late timers, nested loops | RateLimiter, RetryChain, Interceptors; proved |
| Agents that work on issues (`src/automation/`) | labels, comments, leases | intake, issuer, planner, implementor | runs overlap and die between two requests | IssueAgents; proved |
| Agents that merge (`src/automation/`) | reviews, labels, leases | reviewer, merger, executor | pushes between a review and a merge | MergeAgents; proved |
| Parsing, validation, naming, parameter filters, schemas, HTML, CLI, logging, metrics, downloads | none that changes | pure functions, or work done once at load | - | not modelled |

`PROJECT.json` lists these, whether each is modelled whole or in part, and why the rest is left out.

### How the parts interact

- A client logs in through the **OAuth provider**, which keeps its client from eviction through the counters of
  the **client store** and sends the browser only where the **redirect policy** lets it; the **consent gate** may park
  the login until a form is answered. The token endpoint answers with an envelope around the provider's tokens and a
  rotating refresh envelope; the provider remembers whose each refresh token is. Where the profile trusts an enterprise's
  identity provider, an assertion buys a token at the same endpoint (**enterprise auth**).
- The client redeems refresh envelopes at the token endpoint through the **rotation store**, and opens **HTTP
  sessions** with access envelopes, subject to **admission**. A session finds the access token behind the envelope in
  the transport's token map, and exchanges its own refresh token when the access token is about to expire.
- Every request with an Origin header passes the **origin check**, which loads the profile it asks for to learn where
  that profile's logins send browsers.
- A POST goes through the **profile's runtime state** to the MCP server, for the **tenant** of its session. A **tool
  call** is judged by filter, policy and consent; a denial drops the session and has the next envelope refused
  (**re-consent**). It then goes to an **upstream connection** of the session under its current token, or, as one
  request or the steps of a **composite tool**, through the session's **HTTP client**: cookie auth, cache, rate limiter,
  retries, fetch.
- Notifications of upstream servers, and requests that take long, come back through the **SSE streams** of the session.
- The end of a session calls closeAll of its upstream connections, drops its HTTP client, its token and its queues,
  and releases its OAuth client.

### What makes each part correct

- Rotation: a token never buys two different successors; a retry is not mistaken for reuse; reuse is final; the holder
  of an unused token is not locked out; everyone who waits is answered.
- Upstream: one transport per session, none leaked; requests only under their own token; every request ends.
- OAuth: counters say what is pending; an identity stays with the tokens of its login; codes go to places their client
  may name.
- Sessions: a refresh token is spent once; fresh bearers are served; requests and idle sessions end; a session stays what
  it was admitted as.
- Enterprise: an assertion is accepted once; a withdrawn key is forgotten in time; slots are given back; logins go on.
- Consent: what was acknowledged is seen by every later lookup, or that lookup fails; acceptance is of what was shown;
  a revocation holds at once; a refusal that is owed is not lost.
- Tenants: a base URL stands for one way to log in; a call goes to the tenant its request names.
- Tool calls: nothing is asked beyond the policy, or of what the filter removed; steps follow what they depend on.
- REST: no read joins a fetch sent before a write it follows; what the cache answers is within its stated life; every call
  ends; requests, logins and rate are bounded whatever the API answers.
- SSE: in order, no duplicates, no gap that no queue's cap accounts for. Profiles: one creation. Origins: a
  browser is let in or turned away for its own host and profile, whatever others ask for meanwhile.
- Agents: an issue is locked only by work or a crash; agents fall silent; only what was reviewed and approved is merged,
  and what stays mergeable is.

## Modules and code

Each module has the state of its part as variables, one action per handler or per stretch of a handler between two
awaits, and its properties at the end. Data is abstract: a token, a cookie or a message is a model value or a number;
cryptography, formatting and logging are left out. A definition that stands next to another of the same parameters and
is used nowhere (`InFlightUnread` next to `InFlight`, `Leased` next to `AdvancedAtLease`) is a variation of it with one
thing wrong; `PROJECT.json` names for each property the variation that breaks it.

**RefreshRotation** models the store and `rotateRefreshGrant`. A redemption is a `Call`; the call that leads an
exchange also names the token it mints and the entry object its lease may allocate, because a leader keeps a reference
to its object after the map has dropped it. `BeginRotation` has one disjunct per branch of `beginRotation`, each after
the lazy `EvictExpired`; `Store` and `Revoke` end with the code's overflow eviction; `Commit`, `CommitRevoked` and
`Fail` end the exchange; `Deliver` is the continuation of a follower's await. The map's insertion order is a relation
(`lru`, `tombs`). `Tick` lets an exchange take at most `MaxLeg`. **TokenChain** is what rotation promises: per family at
most one redeemable token, new tokens never seen before, and an end that is final. `ImplementsChain` is the refinement,
with `Redeemable` and `Links` computed from the store's state.

**UpstreamConnections** models `getOrConnect` from its entry to its first await (`UseExisting`, `Join`, `AwaitOther`,
`Lead`), `createConnection` by its awaits, the `finally` of the leader, the use of the connection, transport events,
pings, notifications and `closeAll` in its three stretches. A call names the connection it makes. Awaits that only yield
to the microtask queue are merged into the step. A ping that can no longer fail changes nothing and is left out.

**OAuthFlow** models a browser's run through the provider by its stage, and the store's counters, order of last use (the
relation `older` on the set `registered`) and tiers of eviction. `idleGraceMs` is at its default 0. The age of a record is one bit (`GetsOld`), so every record may expire
before, between and after all other steps.

**TokenIdentities** models whose tokens are: the provider's start (constructor, pre-flight check, discovery), the records
of access tokens, the map from refresh tokens to identities with its cap, the identity an envelope or a session carries,
refreshes by clients and by sessions from their first to their last await, code replay and restart. A token is
`<<login, n>>`, the n-th answer for that login; whose it is can be read off, so `IdentityBound` compares the map with it.
A lapsed record is an absent one; which binding makes room is left open (the code takes the oldest). One issuer;
configured clients are not evicted here; a session opens when its code is redeemed and refreshes one at a time.

**RedirectTargets** models the redirect policy whole (exact, suffix and CIDR hosts, loopback, approved callbacks of
clients nobody registered) and the clients it judges as they register, come with a first request, return from an
envelope, or are evicted. At most one envelope is tracked. **HostPatterns** has the hosts (labels, or the bits of an
address) and the patterns that it shares with the origin check, and says what a pattern means (`Belongs`).

**OriginCheck** models the way of a request from its Origin header to its handler: the hint that the address and user
agent of a client leave (`Hinted`), the first look (`ArriveAllowed`, `ArriveRefused`, `ArriveAsking`), the await of
the profile's context (`PrimeOAuthRedirectHosts`), the second look, and the profile it is served for (`Route`: the path,
the resource, or the hint once more), whose context and state it makes. The server promise is the one of ProfileStates, a
load fails for good as there, and a context says only where the profile's OAuth config sends browsers. The tables that
say what is configured (`deployed`, `Redirect`) do not change.

**HttpSessions** models sessions in the mode with a token key and tokens that expire. A grant stands for one answer of
the provider: access token, refresh token and envelope. `EnsureValid` is `ensureValidSessionToken` with
`refreshAccessToken`; it occurs three times in a request (handlePost, message handling, HTTP client). A handler that need
not wait runs on before the next event (`Turn`). Which deployment is at hand (does the provider rotate refresh tokens,
may sessions share an envelope, is the bearer validated, what do requests carry) is a variable that never changes, so one
run covers several.

**SessionAdmission** models the initialize branch of `handlePost`: the inbound record read before the awaits, the gate,
the token judged upstream, the session opened after, and `swap`: a later request whose token replaces the session's.
Deployments are records of settings. One profile; which record an overflow drops is left open (other profiles share the
store); profile, tenant and filter headers are checked elsewhere or left out.

**EnterpriseGrants** models the jwt-bearer grant by its awaits, with concurrency slots, a rate window of one tick and the
replay store as an ordered set, and the key cache: one shared refresh, cool-down, a forced refresh for an unknown kid,
`Displace` for what other issuers do to the shared store. A tick is the time limit of a remote call. Refusals of static
checks are nondeterministic. `ReplayTtl > Window` is assumed: with a shorter retention an assertion outlives its entry.

**ConsentGate** models several replicas over the two PostgreSQL tables, each with its own rules: the gate's reads one by
one, the decision at any clock reading, parking, form, approval token, post, record, completion, revocation, deployment.
**Reconsent** models what a denial does to the session and the next envelope, over a tracker with a cap.

**ConsentEvidence** models one identity's evidence in a file that several stores share. A line is the unit of size; a
write that is under way, or broke off, leaves part of a line (`Part`), and what is written after it is no JSON until an
operator repairs it. An operation is `Begin` (the stat of `reloadIfChanged`), `Read`, and then the answer or the append;
a store takes one at a time, as its queue does. `Compact` is an operator who replaces the file by one without lines that
have no effect. That a malformed grant is skipped while a line that could be a revocation fails the read is in `ReadBad`;
a line that is JSON but no record is not modelled. The check of the previous boundary and the read are one step.

**TenantSelectors** models the loop that builds the index tenant by tenant (`ReadTenant` with every refusal), the
resolution of the selector headers against it, the tenant a session is bound to and the destination of its calls. A URL
is its site, host labels and path segments; what makes an entry well-formed is a flag.

**ProfileStates** models one profile: the server promise and the runtime state that each request that waited builds in
its turn, before any event (`BuildStates`). **SseDelivery** models one session that lives on: event ids, replay queue,
notification buffer and the streams. The client reads one stream at a time and reconnects with the id of what it read
last. A stream breaks at either end first, and what is on its way is lost with it.

**ToolCalls** models the environment's filter at start, the session's filter at initialize, the policy of its token and
the requests of a call; a rule is the set of names it matches. **StepGraph** models the check of a composite tool at load,
the sort (a queue of names and counted edges), the levels, failures with and without `partial_results`, and the assembly
of the answer (`storeResult`, where a child's path may run through its parent's body).

**ApiRequests** models the calls of one `HttpClient` through cookie auth, cache and fetch. A refused call is replayed
from within, at level 1, while level 0 waits. Reads are of one resource whose version tells its states apart.
**CacheFreshness** models the other half: scope and policy, `Cache-Control`, `Expires`, `Date`, what may be kept,
revalidation, eviction and clearing. Its ghost `content` says what the origin has; the origin is assumed to conform (304
only for the current version). Requests carry no cache headers; the memory account and the query cut are left out.

**RetryChain** models one call with session-cookie auth through login, retry loop, redirects and replay. An attempt is the
whole redirect loop of `requestInternal`, one request per hop; the replay is an execution of its own, which looks for
cookies and perhaps logs in again before the limiter (`prepareRequest`) and has a retry loop of its own. What a cookie is
worth is the API's choice at every fetch, and which headers a redirect takes off is left out. **RateLimiter** models the
token buckets, the shared ones of operations with an override and the global one that a request copies and writes back;
**Interceptors** puts the two together for a client that makes its calls one after the other (`OneCaller`). Time is in
ticks, buckets count ticks, and a timer may be late by any amount. The retry interceptor is the last of the chain, so
that further attempts pass neither auth nor the limiter again, as in the code.

**IssueAgents** models intake, issuer, planner and implementor. A run reads in one step and then makes its requests one by
one; any may fail, and the run with it. Semantic scoring is a relation between titles, artifact trust a choice, lists are
not cut. Intake's candidates are issues: that the code also ranks open and closed pull requests
(`scripts/run-proposal-intake.ts:42-50`), which only changes which resolution it takes, is left out. **MergeAgents**
models reviewer, merger and executor over one pull request that is pushed to, discussed, relabelled and held; comments
are left out. The gate's five requests are one step (`EvaluateGate`): what it merges is bound to the head it read by the
sha it passes on. The cut of the list by lookback hours and a merge method the repository does not allow are left out.

The MC modules put parts that share no state side by side (`part` says which one moves) so that one run asks several
questions: MCServing (OAuthFlow, ProfileStates, SseDelivery, EnterpriseGrants, TenantSelectors, SessionAdmission,
OriginCheck),
MCToolCalls (Interceptors, StepGraph, ToolCalls, TokenIdentities), MCGates (ConsentEvidence, ConsentGate, Reconsent,
RedirectTargets), MCAgents (IssueAgents, MergeAgents), MCApiRequests (ApiRequests, CacheFreshness).

| Proof module | Proves about |
|---|---|
| RefreshRotationProofs | RefreshRotation, for all caps, TTLs and restarts; with TokenChain, without pressure |
| UpstreamProofs | UpstreamConnections, for every number of sessions, requests and tokens |
| GatesProofs | ConsentEvidence, ConsentGate, Reconsent, RedirectTargets |
| ServingProofs | OAuthFlow, ProfileStates, EnterpriseGrants, TenantSelectors, SessionAdmission, OriginCheck |
| SessionsProofs | HttpSessions, SseDelivery |
| ApiProofs | ApiRequests, CacheFreshness |
| AgentsProofs | IssueAgents, MergeAgents |
| ToolCallsProofs | RetryChain, RateLimiter and Interceptors, StepGraph, ToolCalls, TokenIdentities |

## Runs

| Run | Configuration | States | What it shows |
|---|---|---|---|
| rotation | MCRotation | 143 000 | `UnusedTokenRedeemable`, `ImplementsChain`, `RedemptionSettles`: four concurrent redemptions of one family, every order of exchanges, failures and retries |
| upstream | MCUpstream | 369 000 | `NoLeakedTransport`, `OwnTokenOnly`, `RequestSettles`: two requests, two tokens, one failure anywhere, destruction at any time, its marker pruned before or after they are through |
| serving | MCServing | 443 000 | `CountersExact`: a store of two, three clients, two gated flows, a session. `OneServer`: three first requests. `Delivered`: five notifications, queues of three and two, half-open streams. `SlotsExact`, `TrustEnds`, `LoginServed`: two exchanges of two assertions, a login, keys that rotate. `TenantsKeptApart`: every pair of tenants out of 23 entries. `AdmittedRight`: three tokens, two sessions, six deployments. `OriginsJudged`: two requests of one client, two origins, three configurations |
| sessions | MCSessions | 55 000 | `SpendsOnce`, `FreshBearerServed`, `RequestAnswered`, `IdleSessionEnds` in two deployments |
| api | MCApi | 117 000 | `NoJoinAcrossWrite`, `RequestCompletes`: two requests, reads and writes, cookies that expire or are revoked. `AnswersFresh`: three policies, three sets of headers, two versions |
| tool_calls | MCToolCalls | 1 990 000 | `WorkBounded`, `TwiceTheRate`: calls one after the other through logins, limiter, redirects, retries and replays. `DependenciesFirst`, `BodyKept`: three steps, every dependency, four orders of names. `ReachKept`: three tools of every mixture, five filters, four policies. `IdentityBound`: one login, two refreshes at a time, room for one identity, four setups |
| rotation_pressure | MCRotationPressure | 39 000 (with symmetry) | `RevocationIsFinal` (that is `TombstoneClosed` and `ReuseIsFinal`): three redemptions of two families for one map slot; entries, leases and tombstones expire; a restart |
| gates | MCGates | 682 000 (with symmetry) | `AcknowledgedSeen`, `IndexIsFile`: two stores of one file, an acceptance and a revocation, torn writes, failed reads, crashes, repairs, compactions. `ConsentWasShown`, `AnsweredOnce`, `RevocationHolds`: two replicas, two browsers, new rules. `RefusalOwed`: a tracker of two. `TargetsTrusted`: five callbacks, two rules of each kind |
| agents | MCAgents | 284 000 | `LockedByWorkOrCrash`, `AgentsFallSilent`: three issues in three constellations, a crash. `MergedWasApproved`, `MergedEventually`: two heads, a dying run, a human |
| composite_duplicates | MCCompositeDuplicates | violation | `LoadedRuns`: a graph with one name twice passes the check at load and is refused by every call |
| tenant_elsewhere | MCTenantElsewhere | violation | `TenantTakesPrecedence`: a call whose session ends while it awaits goes to the profile's API |
| issues_blocked | MCIssuesBlocked | violation | `BlockedWaitsForHuman`: an issue that waits for help is taken again |

Each module's type invariant (`TypeOK`, `GrantTypeOK`, ...) carries the structural facts other properties lean on: a
promise in flight is that of a call that will settle it (ApiRequests), a session's refresh is led by a request that is
exchanging for it (HttpSessions), a request is only given a connection that was made (UpstreamConnections), sessions are
in one state each (ProfileStates), a store stands after complete lines of the file it knows (ConsentEvidence). Those of
the rotation store, the upstream connections, the OAuth flow, the admission, the enterprise grants, the identities and
the limiter are proved. The type invariants, and
`StoreConsistent`, `ExpiryNeverReopens`, `ReuseOnlyOfRedeemed`, `SingleSuccessor` (RefreshRotation),
`EvictionSparesActive` (OAuthFlow), `StateStays` (ProfileStates), `HeartbeatMatches`
(UpstreamConnections), `LoginAwaited` (ApiRequests), `AccessTokenIfEnvelopeOnce` (HttpSessions) and `CreatedOncePerCrash`
(IssueAgents) hold under the same configurations when they are named in place of the properties above; no run names
them, to keep the runs to the questions that matter most.

Why these properties and not others: each relates two pieces of state that different handlers write, and is broken by
a plausible slip in one of them. `NoLeakedTransport` relates sockets to the two maps that could close them;
`CountersExact` relates counters that a dozen paths change to the records they count; `Delivered` relates what the client
has read to what arrived, across streams; `IdentityBound` relates what four maps and an envelope say of a token to the
login it comes from; `AdmittedRight` relates a session to the record its client was admitted by, across the awaits between
them; `MergedWasApproved` relates a merge to a review of that very commit by another run.

Limits stated in the properties: `SingleSuccessor` has one that `ExpiryNeverReopens` makes precise: when an entry is
dropped by its TTL, a token may be redeemed anew only in the last clock unit of its life, since an envelope is valid
while its age is at most the TTL and an entry is dropped when its age reaches it. `IndexIsFile` and `AcknowledgedSeen`
except a file that took the place of another between the stat and the read. `FreshBearerServed` says nothing of bearers
newer than the session's token. `RenewalKept` (in `AdmittedRight`) is about profiles without upstream validation.
`BodyKept` excepts a body whose parent's step was put later or is an array. `TrustEnds` excepts an assertion once as many
others were registered as the replay store holds. In each of these the code does differ, see below.

## Bounds and why they are enough

- **Rotation.** Four calls on one family: leader, follower, a retry in the grace window and a late reuse can meet, and a
  chain of three tokens exists. The proofs cover all numbers. Under pressure: two families and a cap of one make
  every lease evict the other family; `Ttl` 2, `Grace` 1, `MaxLeg` 1 and a clock of 3 let each clock run out before and
  after each other one; one restart.
- **Upstream.** Two requests suffice for every pair of roles (leader and joiner, leader and waiter under another token,
  user and replacer); `MaxEvents` 1 lets one transport or ping fail, or the tool list change, in any state.
- **OAuth.** A store of two with a static client and two dynamic ones reaches each tier of eviction and refusal; two
  flows give a counter the value 2.
- **Identities.** Two refreshes at a time and two answers give a refresh that is overtaken by another, by a replay, by a
  restart or by an eviction; room for one identity makes every new binding evict. The proof covers all numbers.
- **Redirects.** A rule or callback of every kind, addresses of three bits; one flow, since flows share only the clients,
  and another client's registration, return and eviction interleave with it.
- **Sessions.** Two requests meet in all pairs of their three checks; `MaxGrants` 2 allows one refresh after the login, or
  one by the client; one restart.
- **Admission.** Two sessions of one token and one initialize between its awaits are what a lost record takes; six
  settings reach every branch of the gate and of the judging.
- **Enterprise.** Two assertions for one entry overflow the store; one rotation of two keys while a refresh is under way;
  `KeyTtl` 1, `MemoTtl` 2, `BackOff` 1 and `ReplayTtl` 3 above a window of 2 keep every order of the expiries. Its three
  concerns (logins, withdrawals, replays) move in parts of their own; the proofs have no such bound.
- **Consent gate.** Two replicas with two versions of the rules, two browsers, two calls at a time, one parked login, an
  acceptance from before and one revocation: a revocation can fall between any two of the gate's reads on the other
  replica. Readings of the clock are 0 or 1 in any order. **Reconsent.** Two subjects and two sessions for a tracker of two.
- **Consent evidence.** Two stores, an acceptance and a revocation, a file of two whole lines: no write ends beyond them,
  a third may be begun and torn. What one store writes or tears, before and after what the other writes itself, is still
  to be read when the file has grown again.
- **Origins.** Two requests of one client share a hint, a promise and a cache; one of them asks for anything, the other
  for a profile's endpoint, which is what writes hints. A profile that exists and one that does not; a server with a
  default profile, one without and one without routing; addresses of two bits. The proof covers all numbers.
- **Tenants.** All pairs of two tenants out of exact URLs and masks that overlap in host, path or both, with the same auth
  or OAuth. The proof covers all lists.
- **Tool calls.** Three tools of every mixture of categories; composite ones of one or two steps. **Composite tools.**
  Three steps with every set of dependencies: chains, diamonds' halves, cycles, self-loops, names below one another.
- **REST.** `MaxChanges` 2 allows two logins, two writes, or one of each; two requests give leader and joiner. **Cache.**
  Two readings of one URL: leader and joiner, or one that follows an eviction or a change.
- **SSE.** Five notifications overflow a replay queue of three (100 in the code) and a buffer of two (50); POST responses
  take ids up to 3; up to two half-open streams. **Profiles.** Three requests: two that race and one that comes later.
- **Interceptors.** Two attempts in each loop give all places of a nested loop; one redirect an attempt (five in the
  code) is followed or is one too many; a bucket of two tokens of two ticks each, a clock of four ticks (and on until the
  timer fires). Each of the bounds is reached. The proofs cover all numbers.
- **Agents.** Three issue numbers: a proposal, what is made of it, and a twin; one act of a human, one crash, leases of one
  hour on a clock of three. Two heads of the pull request; a run dies once, a human steps in once.

## Fairness

Fairness is assumed of what the runtime does by itself, never of clients; of time only where named.

- Continuations of settled promises and handlers that can run on do run (weak fairness).
- What a handler awaits ends: fetches to the API by the AbortController's timeout, connects and calls upstream by the
  SDK's timeouts, the token exchange of a session by the HTTP library's own timeouts (the code passes no abort signal
  there), file reads at their end.
- `setInterval` fires: the cleanup of expired sessions and of OAuth records.
- Strong fairness is used where a continuation competes with other events for the next turn (`Turn` disables it again
  and again): the event loop takes its events in the order they come, so none that is there for ever is passed over.
- `LoginServed`: remote calls end, users who log in go on, and time passes (strong fairness of `GrantTick`, which waits
  for calls that reach their limit); it promises an answer only once the provider answers and keeps its keys.
- `AgentsFallSilent`: a job that is started makes its next request, unless it dies. `MergedEventually`: the schedules of
  reviewer, merger and executor recur, and time passes. Neither assumes anything of humans.
- `RateLimiter` assumes that time passes while a request sleeps, and nothing of how punctual timers are.

## Proofs

All theorems follow from the named assumptions of the modules only: absent values are no members of the sets, limits
are positive or natural numbers, the sets that are counted are finite (`ConstantsAssumption`, `LimiterAssumption`,
`OneCaller`, `ToolsAssumption`, `GrantsAssumption`, `TenantAssumption`, `IdentitiesAssumption`, `GateAssumption`,
`ReconsentAssumption`, `TargetsAssumption`, `AdmissionAssumption`, `StartAssumption`, `OriginAssumption`,
`SseAssumption`, `FreshnessAssumption`, `IssueAgentsAssumption`, `MergeAgentsAssumption`, `EvidenceAssumption`), and
from the hypothesis a theorem names itself: `NoPressure`, `TombstonesFit`, `~Returns`, `~TracksPosts` and
`~MayReturn`, explained below.

| Theorem | States |
|---|---|
| TypeCorrect | `TypeOK` of the rotation store |
| RevocationStaysClosed | `TombstoneClosed`: while its tombstone is retained a revoked family has no entry |
| ChainInvariant | under `NoPressure`, `ChainInv` |
| OneSuccessor | under `NoPressure`, `SingleSuccessor` |
| HolderNotLockedOut | under `NoPressure`, `UnusedTokenRedeemable` |
| RotationImplementsChain | under `NoPressure`, every step of the store is a step of `TokenChain` or none |
| ReuseFinal, RevocationFinal | under `TombstonesFit`, `ReuseIsFinal`, and with the tombstones `RevocationIsFinal` |
| OwnToken | `OwnTokenOnly` of the upstream connections |
| NoTransportLeaks | `NoLeakedTransport` |
| CountersAreExact, EvictionSpares | under `~Returns`, `CountersExact`, and an eviction takes no client that has something open |
| ServerCreatedOnce | `OneServer` |
| OriginsAreJudged | `OriginsJudged` |
| GrantTypesCorrect, SlotsAreExact, TrustIsTimely | `GrantTypeOK`, `SlotsExact`, `TrustEnds` |
| TenantsApart | `TenantsKeptApart` |
| AdmissionRight | `AdmittedRight` |
| RefreshTokenSpentOnce, FreshBearerIsServed | `SpendsOnce`, `FreshBearerServed` |
| StreamDelivers | under `~TracksPosts`, `Delivered` |
| AcceptedWasShown, LoginAnsweredOnce, RevokedIsRefused | `ConsentWasShown`, `AnsweredOnce`, `RevocationHolds` |
| DenialIsRefused | `RefusalOwed` |
| BrowserGoesToTrusted | `TargetsTrusted` |
| IdentitiesBound | `IdentityBound` and the types of the provider's maps |
| RetryBounds, CallsBounded | `WorkBounded` of one call, and of every call of a client |
| RateBounded | `TwiceTheRate` and `LimiterTypeOK` |
| DependenciesBeforeSteps, NoBodyLost | `DependenciesFirst`, `BodyKept` |
| WithinReach | `ReachKept` |
| EvidenceIsSound, AcknowledgedIsSeen, IndexIsTheFile | `EvidenceInv`, `AcknowledgedSeen`, `IndexIsFile` |
| NoReadJoinsAcrossWrite, ServedFresh | `NoJoinAcrossWrite`, `AnswersFresh` |
| LockEndsWithWork | `LockedByWorkOrCrash` |
| MergedAsReviewed | under `~MayReturn`, `MergedWasApproved` |

**Types and tombstones.** `TypeOK` is inductive with the help of lemmas on `Store`, `EvictExpired` and `Revoke`, whose
victims are chosen from a set the cap shows to be non-empty (`Oldest` of a relation that need not be total as far as
the type goes). `TombstoneClosed` is inductive next to it: the lazy sweep and the caps only drop entries
(`OnlyDrops`), `Revoke` drops the entry with the marker, `Commit` looks for the marker after the exchange, and `Fail`
stores only an entry that is there.

**One successor.** `SingleSuccessor` alone is not inductive: a commit could mint a second token if a token that bought
one were active again. `ChainInv` adds why not. A lease is on the entry in the map, for its active token, and pending
there (`LeaderHoldsEntry`); the active token of a live family has no successor (`ActiveUnredeemed`); grace holds the
successor of the token it is for (`GraceIsSuccessor`); a follower waits for a leader of the same token
(`FollowsSameToken`); only minted tokens are presented (`TokensLinked`); hence at most one mint per token (`OneMint`)
and answers that are successors (`AnswersAreSuccessors`). `NoPressure` says that no cap is below the number of
families, that the horizon ends before anything expires and that no restart happens; without it the statement is false
for the code (4 below, and the last clock unit above), so the assumption is as weak as the proof allows in this form.
The refinement then maps `Commit` to `Rotate`, `DetectReuse` to `Kill` and all else to stuttering.

**The holder is not locked out.** `UnusedTokenRedeemable` needs that a chain that is open has exactly one token that
bought none, and that it is the one the entry of its family has as active (`Unspent`); a failure or a lost answer
changes neither.

**Reuse is final.** Here caps on families and expiry stay: `TombstonesFit` only asks that the tombstones of all
families fit their cap and that an exchange ends within a token's life. `FinalInv` says that a detected reuse has its
tombstone for a token lifetime (`TombstoneOfReuse`), that an exchange under way is younger than its leg allows
(`LegsAreShort`), and that one on a token older than the reuse began before it (`LedBeforeReuse`), so that its commit
finds the tombstone. All of it is about the time until a restart, which forgets the tombstones.

**Connections.** `ConnInv` says what each phase of a request promises (`PromiseOfPhase`), that the connect in flight
of a session has one leader (`OneLeader`), that the map holds connections that were made, and none while one is being
made (`MapHolds`), and that who joins a connect does so under the token it was begun with (`JoinsOwnToken`); with
these `OwnTokenOnly` is inductive. `NoLeakedTransport` follows from `LinkHeld`, a transport that is not shut is being
connected or is in the map, and `TornDown`, a session that is being destroyed is marked as long as a request of it is
at work, and what it has in the map once `closeAll` closes is shut. Both leave out a session whose marker was pruned
while a request of it was at work: `destroyed` has the value "early" for it, a history value that the code's check
takes for "no". Nothing is assumed of how long a connect takes: the theorem says that this is the only way the code
leaks (5 below).

**Counters.** `CountersExact` counts sets of states, codes and sessions by their cardinality (`Counted`), for
registered clients only; every operation that adds or drops a record moves it from one set to another or out of all,
and the counters with it (lemmas on cardinalities of the record sets). `~Returns` excludes an evicted client that
registers again under the same id: its counters then start at zero while its old records are still about, and the
property is false.

**One server.** `Shared` counts creations: none before the first request, one after it, because the promise is entered
before it is awaited and is not removed when it fails.

**Admission.** `AdmissionInv` ties three kinds of records together: the server's records are of tokens it issued,
which are mapped while they have one (`RecordsRight`); what an initialization carries across its awaits was read from
such records, and it asks the upstream only after its token was judged (`OpeningsRight`); and a session has what its
opening carried (`SeatsRight`).

**Trust.** The replay store is a queue (`Ordered`); what is behind an entry was registered later (`CountedBehind`), so
an entry that was dropped for room has as many after it as the store holds; an entry is no older than its assertion
and is kept longer than the window (`Remembered`). For keys, `KeysInv` follows a key from the answer that brought it:
a refresh reads it while it is published and ends within a tick, the cache keeps it for `KeyTtl`, and a request that
took it verifies at once. `SlotsExact` counts by cardinality.

**Origins.** `IsAllowedOrigin` is held between two bounds (`AllowedIsKnown`): it lets in no host that is neither
configured nor of a profile that has loaded, and every host that is. For that the lemmas on `HostPatterns` say that a
mask of at least one bit keeps a prefix (`MaskIsPrefix`) and a suffix begins at a position (`SuffixIsEnd`); an IPv4
range of no bits is where the two bounds differ, see below. `OriginInv` adds that what is cached of a profile, or
runs, comes from a context that is ready (`ContextsOK`), and that who looks again has the cache filled or the load
failed (`RequestOK`); contexts stay ready or failed, so that a request is not unsettled by others (`OthersStay`).

**Tenants.** `Placed` and `Apart` are kept by the loop that builds the index: a tenant is entered only after its URL
or mask was compared with all that are there, in both directions (`Intersect` is symmetric, and two masks that cover
one URL overlap: `CoveredOverlap`). `Named` then carries what a request named to where its call goes.

**Sessions.** `SessionsInv` ties a request to its session: who exchanges is the leader of the session's refresh and
presents the refresh token the session has now, and who waits or exchanges does so because the envelope the session
began with is past its time (`RequestRight`). A session's refresh token is one it has not spent, unless the answer to
the exchange was lost, and its expiry is that of its first envelope until this one is past its time (`SessionRight`).
A token is spent only after it was issued (`SpentRight`), so that the one an answer brings is new. `SpendsOnce` needs
the second, `FreshBearerServed` the first: a refused bearer was the session's own, and it was past its time.

**Streams.** Ids and notification numbers rise together, in the replay queue, on the wire and in the buffer behind
them (`StreamRises`, `BufferRises`), and what the client has read lies before what it has yet to read (`ReadRises`):
that is `InOrder`. For `NoGap` every notification is queued, buffered or dropped (`Accounted`), and a queued one from
the first read on was read (`Seen`) or is due: then it is on the wire when the stream is open, and whenever a later
one is (`Coming`). Without a stream nothing is on the wire, and the next one begins with all that is due: what
`Resent` takes from the queue is what the client has not read (`MissedIs`), which holds because ids ascend in the
queue. `~TracksPosts` says that the client resumes from the ids of its streams; with the ids of POST responses the
property is false (the finding of `sse_posts`).

**Consent.** `GateInv` says that a row of the evidence that answers a parked login names that login, which exists once
(`RowsSound`, `ParkedSound`), and what a call carries across the awaits of its lookup and of its answer (`CallSound`):
who answers holds the login, which is gone for everyone else, and what a lookup has found are rows of the evidence,
and no older ones than those its call began with. For re-consent, `ReconsentInv` says that the tracker names a person
once and is armed for whom a refusal is owed. `TargetsInv` follows a callback from its registration through the store
(`StoreSound`), the sealed state (`SealsSound`) and the flow (`FlowsSound`) to the redirect.

**Identities.** `IdentityBound` alone is not inductive: an answer to a refresh binds what the refresh carries.
`BoundInv` adds that what a session or a refresh in flight carries fits the token it was taken with (`Carried`), and
that in a consent-gated profile neither they nor the envelopes about are nobody's (`Persons`). Dropping bindings
(expiry, the cap, replay) keeps all of it; the number of bindings needs that a binding is only added after room was
made.

**Work.** `WorkBounded` needs to know how much of the budget is used at each place of the nested loops: `Sent` bounds
the requests by the attempts of the outer loop that are over, each with its redirects and a full inner loop (`Inner`),
those of the inner loop and the hops of the one under way; `Logged` does the same for logins and tokens; `Looped` says
where the loops can be. A step that ends an attempt keeps all three whatever becomes of the call (`OverKeeps`,
`AgainKeeps`). With `max_attempts` 3 and five redirects one call can thus send 72 requests and 7 logins.

**Rate.** `TwiceTheRate` measures a flow: what goes on is due, and what is due flows off at twice the rate. The bucket
fills half as fast as that, so `Left(b) + Refilled(b) <= Full + Cost` is inductive (`Room2`): passing moves `Cost`
from the bucket to what is due, and waiting lets more flow off than it fills. A sleeper is the hard case, because the
time slept is credited again at the next refill of the global bucket: `Asleep` keeps the balance of the moment the
sleep began, to which the bucket is set back when the sleeper wakes.

**Dependencies.** The sort counts edges: an edge that counts no more has its dependency in a level (`Counted`), a name
in the queue or a level has no edge that counts (`Free`, `FreeInLevels`), so that it is freed once. When the sort has
placed every step, what a step depends on is in an earlier level; the execution then only has to keep that a level
starts when the earlier ones have settled (`EarlierSettled`, `StartedInLevel`).

**Bodies.** `Outcome` of StepGraph is a recursive function over the steps of a level; that it exists, and that what
holds at its start and is kept by each of its turns holds at its end, is proved by the greatest number of turns for
which it holds (`GreatestOf`, `TurnsExist`). Turn by turn the answer holds the bodies of the steps that had their turn
(`OfSteps`), all but those an array or a later body of a name above covers (`AllOf`). A body never replaces another of
its own name, because a tool with two steps of one name is refused at the call (`NamesApart`), and no step has two
turns, because no two levels share a step (`Apart`).

**Reach.** `CallsInv` says what a call may still ask: operations of its tool, which is served and was allowed by the
policy at its admission (`Asking`); the served tools have passed the check of the composite ones (`Reached`); before
the server serves there are no calls (`Quiet`).

**Evidence.** `EvidenceInv` relates the index of each store to the lines before its offset (`Truthful`). Between
operations an index says what those lines say, or is ahead of them by records that come after: lines that a load has
read before it dropped out, or the store's own acceptance, which it folds in before it writes it (`IndexAhead`). It is
never ahead of the whole file but by that acceptance (`IndexWithin`): an acceptance that changes nothing is
acknowledged from the index without a line, so the file must say it already. The file never says less than before,
when it grows, is repaired or is compacted (`SaysAll`). A load folds lines of which some are counted already; that it
computes what all of them mean (`FoldExact`) follows because each slot holds the newest of what it held and what was
folded, by the greatest number of lines for which that holds (`Newer`, `Later`, `UpTo`). What was acknowledged is
therefore in the file for good, as written or outdone by a newer record, and `AcknowledgedSeen` follows. Both leave
out a store that read a file which took the place of the one it had called stat on (`moved`), as the code does until
its next operation.

**Requests and cache.** A fetch in flight was sent after the last write that was answered, since the answer to a write
empties the map of fetches (`FlightsCurrent`); so who joins one began no later than it. What the cache keeps may be
kept, for the life its headers state (`KeptRight`): an answer is put there, a revalidated one too, only when it may
be. A reading under way carries a version of its time of fetch or later, which a 304 says is the one it had
(`ReadingRight`); the reading that leads a fetch is under way with it (`LeadersRight`), and who joined it has the same
time of fetch (`JoinedRight`), so that it may take its answer.

**Agents.** Only the implementor adds the label that locks an issue, to the one it is at (`GoodQueue`), and the last
writes of each of its ways to end take the label off, or it is off already (`GoodHead`). What is left is a run that
dies, which `stranded` remembers. For merges, `ReviewerRight` and `DecisionsRight` say that the files a review has
read are of its head or a later one, never of a later one than the pull request has; `ExecutorRight`, that what it is
about to merge was approved under its name and is green. `~MayReturn` says that no earlier head is pushed again: after
that the head a review names may be the current one although the files it read were of another, and the property is
false.

Only model-checked: liveness, which under fairness is out of the prover's reach; the fairness of each run is above. No
safety property or action property of a passing run is left without a theorem.

## Where code and text differ

The models follow the code. These are the places where a comment, a document or a test says otherwise. The first three
are runs; each of 4 to 17 is stated as a property of its module which TLC refutes under the configuration named, with the
change named, when the property takes the place of the run's own.

1. **A step given twice** (run composite_duplicates, `LoadedRuns`): the check at load accepts two steps with one
   `store_as`, the sort of every call counts one step too few and refuses the tool as a cycle
   (`src/tooling/dag-executor.ts:146`), although `docs/PROFILE-GUIDE.md` says cycles are found when the profile is loaded.
2. **A call of a session that ends** (run tenant_elsewhere, `TenantTakesPrecedence`): a call that awaits a token while its
   session ends goes to the profile's own API, without the tenant (`src/mcp/mcp-server.ts:935-941`).
3. **A blocked issue** (run issues_blocked, `BlockedWaitsForHuman`): what waits for human help is taken again before
   anyone came (`docs/AUTONOMOUS-AGENTS.md:185`).
4. **The cap evicts a family in flight** (MCRotation with two families, `SingleSuccessor`): `evictOverflow`
   (`src/auth/refresh-rotation-store.ts:256`) drops the least recently used entry whatever its lease; a second redemption
   of the same token starts a second exchange. Lines 11-14 say that across concurrent requests "exactly one new token is
   minted".
5. **A connect that outlasts the marker of its session** (MCUpstream, `DestroyedHoldsNothing`).
   `closeAll` prunes markers older than 60 s (`src/upstream/upstream-connection-manager.ts:348`) although a request of
   such a session may still be connecting: the SDK's own limit for a connect is 60 s, and a request may first wait for
   one under another token. Its connection is then stored, pinged for ever and never closed (`NoLeakedTransport` exempts
   exactly this). Lines 303-305 say the
   marker lets createConnection "detect the race and self-close any connection established after teardown began
   (REL-02)".
6. **A stale tool list is cached again** (MCUpstream, `ToolCacheFresh`): `src/mcp/mcp-server.ts:2273` stores
   the names after an await; a list_changed that came meanwhile has already cleared the cache. Lines 991-992 say the cache
   is invalidated so that the next tools/call does not block newly added tools.
7. **A client is evicted under its flow** (MCServing, `FlowKeepsClient`): `handleCallback` closes the state
   (`src/auth/oauth-provider.ts:1071`) before its awaits and counts the code after them (1203); a parked consent holds
   that gap open for minutes. `README.md:793` says eviction does not touch clients "currently active in session/state/code
   flows".
8. **Counters of a client that comes back** (MCServing with `Returns = TRUE`, `EvictionSparesActive`): attaching a session
   to a client that is not in the store is ignored (`src/auth/client-store/in-memory-clients-store.ts:246`), and
   registering it later starts at zero. `docs/OAUTH.md:189` says clients "with active session usage" are protected.
9. **Replay of a code** (MCServing, `ReplayRevokes`): `revokeTokensForConsumedCode` (`src/auth/oauth-provider.ts:1371`)
   deletes from maps the transport does not read; it admits requests from maps of its own. `CHANGELOG.md:28` says that
   replaying "revokes the tokens issued during its first redemption".
10. **The session's HTTP client keeps its token** (MCSessions, `CallsUseCurrentToken`):
    `src/transport/http-client-factory.ts:53` returns the client built at the first REST call, with the token of that
    time. `docs/OAUTH.md:741-742` says an expired token is exchanged before API calls.
11. **A refresh answered after the session ended** (MCSessions, `GoneLeavesNoToken`): `performTokenRefresh`
    (`src/transport/http-transport.ts:5859`) stores tokens nothing removes. In the same way an HTTP client built after
    such a wait stays in the cache (`src/mcp/mcp-server.ts:934`, `GoneLeavesNoClient`).
12. **The client's own envelope** (MCSessions with `Deployments <- MCOwnBearer`, `AccessTokenIfEnvelopeOnce`, whose
    exemption is of envelopes presented twice). A client never learns of a refresh inside its session and goes on sending
    its first envelope; `handlePost` (`src/transport/http-transport.ts:3681`) takes it for a replacement, and since the
    refresh deleted its entry from the token map, the envelope itself goes upstream. Lines 5413-5414 say "Upstream API
    calls must use the embedded raw access_token". A newer bearer is in the same way judged by the older expiry
    (`FreshBearerServed` exempts it): the swap leaves refresh token and expiry alone; `docs/OAUTH.md:322` says only "An
    expired access token that cannot be refreshed returns 401".
13. **A replay that awaits itself** (MCApi with `KeyHasCookie = FALSE`, `RequestCompletes`). A cached GET under
    session-cookie auth gets 401; the replay after the relogin runs inside the promise of the shared fetch, and where the
    cache key leaves the cookie out it finds that very promise (`src/transport/response-cache-interceptor.ts:94`) and
    awaits it for ever. `docs/PROFILE-GUIDE.md:651` promises "one relogin and one replay attempt".
14. **A read stored across a write** (MCApi, `ReadsSeeWrites`): `storeIfCacheable` (`response-cache-interceptor.ts:107`)
    does not look whether the cache was cleared since the fetch was sent. `CHANGELOG.md:192` promises "successful
    unsafe-method cache invalidation". And the leader's `finally` (line 119) deletes whatever is in flight under its key,
    also a newer promise (`OneFetchPerKey`); `docs/PROFILE-GUIDE.md:886` says duplicates "are deduplicated
    automatically".
15. **Notifications of a first stream on which nothing was read** (MCServing, `NothingMissed`): the client reconnects
    without Last-Event-ID and nothing is replayed (`http-transport.ts:4511`). `CHANGELOG.md:133` says buffered
    notifications "survive a second reconnect". Resuming from the id of a POST response (MCServing with
    `TracksPosts = TRUE`, `Delivered`) skips lower ids that another stream has lost (`http-transport.ts:4476`); line 4473
    puts POST responses "in the same ID space as GET SSE replay events".
16. **Runtime states built twice** (MCServing, `NoOrphans`): `getProfileState` (`http-transport.ts:819`) sets a
    state without looking again after its await; sessions in the one it replaces answer 404 and are never cleaned up.
    Lines 5349-5351 promise "Prevent memory leaks, enforce session timeout". And `/ready` (line 1950) asks for a state
    that only a request makes, which a load balancer holds back until `/ready` (`BecomesReady` of ProfileStates).
17. **Twins** (MCAgents, `TwinsNotPlanned`): of two open issues with one title both may be planned
    (`src/automation/semantic-triage.ts:137`, `issuer-runner.ts:168`).

Met while modelling, without a property of their own:

- *Provider.* Endpoints guessed after a failed discovery are kept for the provider's life (the comment at
  `oauth-provider.ts:333-336` covers only thrown errors). An unset environment reference that `isOAuthConfigOperational`
  does not look at passes the pre-flight check and makes the constructor throw, reported as "env var removed at runtime"
  (`http-transport.ts:656-661`). authorize with allow_unregistered_clients and no redirect_uri opens a state before it
  throws. After a code replay the identity may come back through a refresh in flight or the envelope's own identity. A
  revoked token still verifies where an introspection endpoint is configured.
- *Redirects.* An IPv4 `/0` range matches only the address itself, since JavaScript's `<< 32` shifts by 0
  (`oauth-provider.ts:793`; `docs/OAUTH.md:428`). A loopback rule for `[::1]` without port does not allow any port: the
  hostname has brackets, the set has none (`unregistered-client-redirect-policy.ts:5`). After a restart a client that came
  unregistered and is recovered from an envelope is no longer remembered as such, so that another installation's approved
  callback under the same id is refused (comment at `oauth-provider.ts:397-400`).
- *Cache.* max-age ignores the Age header (only Expires subtracts it); a 200 that may not be kept leaves the old
  no-cache entry, which is always revalidated; a joined fetch shares responses that may not be kept.
- *Limits.* The time a request slept is credited to the global bucket a second time, and requests that wait at once for
  one token all go on (`interceptors.ts:338`), where the comment at line 283 says "Allows bursts while enforcing average
  rate"; a relogin and a replay are repeated in every attempt of the retry loop (line 722), and the replay may log in once
  more (`session-cookie-auth.ts:247`), where `docs/PROFILE-GUIDE.md:651` says one of each;
  and the retry loop repeats on any thrown error, also of a status that is not in `retry_on_status` (line 378).
- *Admission.* initialize reads the inbound record before it awaits the upstream validation; if another session of the
  token ends meanwhile the new session has no refresh token and no map entry. Ending one session drops map entry and
  record of its token although another session of it lives.
- *Enterprise.* An assertion accepted within the clock skew after its exp buys a token already expired while the answer
  says `expires_in` of at least 1 (`http-transport.ts:2728-2734`, `enterprise-policy.ts:34`).
- *Consent.* A re-acceptance in PostgreSQL stamped not later than the newest acceptance is dropped by the fold, so that
  after a revocation the user stays revoked (`docs/HTTP-TRANSPORT.md:848`). The re-consent budget is spent and not reset
  in one path (comment at `http-transport.ts:5545-5547`). An evidence file replaced between stat and read is read as far
  as the old one went (`consent-evidence-store.ts:598`), where lines 489-490 say "replacement" forces "a full reload".
- *Tenants.* Of two tenants that share base URL and auth, the index knows one by URL, so a request that names the other
  by id and its own base URL is refused (`docs/HTTP-TRANSPORT.md:207-213`). The fingerprint that compares auth leaves
  out fields (query_param, session_cookie_config), so that tenants of one URL that differ only there are accepted. The
  ambiguity guard at runtime (`docs/HTTP-TRANSPORT.md:231`) can never fire.
- *Composite tools.* `docs/PROFILE-GUIDE.md:352` promises partial results, but storing a body below one that is no object
  throws also then; a child's body under a parent that is stored later, or an array, is lost. README.md:477 lets a
  composite tool run "only if all steps are within the allowed categories", while one of a list and a read step is refused
  even where both are allowed; and `filter-rules.ts:78` promises that a rule of list and read accepts no tool that
  modifies, which `CategoryServesNoModify` of ToolCalls examines.
- *Agents.* `docs/AUTONOMOUS-AGENTS.md:18` says "All active ownership must use lease TTL, not permanent locks", but a crash
  after the label `agent:implementing` locks the issue for ever; line 19 says "human:hold always wins", but the executor
  reads before it merges; an issue that is labelled again with its text unchanged is never planned again; a crash between
  an issue and the comment that says so makes a second issue (line 17); the mergers' comments compare '' with 'none' and
  are repeated every hour; a rejected duplicate leaves no comment and takes its run's only action each time; the reviewer
  names the listed head but reads the files of the pull request now, so that with `MayReturn = TRUE` a head may be merged
  on another's review.

## What is not modelled

- Cryptography of envelopes, PKCE and signatures: a token is a name, an envelope is what it carries.
- Pure parsing, validation, formatting, naming, parameter filters, schemas, HTML, CLI, logging and metrics: no state the
  program reads back. Profiles and OpenAPI documents are loaded once.
- Proxy downloads: one request at a time over no state of its own.
- In the origin check, what comes before and after it: the check of the Host header, the request limiter, CORS headers.
- In the parts that are modelled: `MAX_ENVELOPE_AGE` of access envelopes, the stateless credential probe of upstream
  connections, sessions whose tokens do not expire, the end of a session in SseDelivery and clients that read two streams
  at once, Set-Cookie on ordinary answers and the memory account of the cache, the length of the retry loop's back-off,
  tenants' own OAuth providers, the claims an enterprise principal keeps, resources and prompts, X-Mcp4-Params and the
  schema of arguments, semantic scores of titles, and the implementor's replies to review threads.

## Plan

Modelled and checked: everything in the module table. Proved: the table under Proofs. What is left:

- What the component list calls partly modelled or not modelled: profile loading and its overrides, the parsing of OpenAPI
  documents, tool naming and parameter filtering are functions of their inputs, better served by tests of their own.
- Liveness stays with TLC, on the small instances of the runs.

To keep the set of runs small, modules that share no state are checked in one run each that merges its questions
through constants chosen by a variable that never changes, as HttpSessions does with `deployment`.

## How to run

`tlc -workers 2 -config MCRotation.cfg MCRefreshRotation` checks a run, `tlapm UpstreamProofs.tla` the proofs of a
module. The passing runs take up to a minute and a half each, the proofs of a module from one minute to seven from
nothing.
