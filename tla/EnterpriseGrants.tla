--------------------------- MODULE EnterpriseGrants ---------------------------
(* Assertions of an enterprise's identity provider bought for tokens           *)
(* (src/auth/enterprise-auth-provider.ts, enterprise-replay-store.ts), and     *)
(* logins whose ID token the same provider signed                              *)
(* (src/auth/oidc-identity-verifier.ts), over the keys both read through       *)
(* src/auth/jwks-cache.ts.                                                     *)
(*                                                                             *)
(* One provider, one profile.  A tick is the time limit of a remote call.      *)
(* Ages stand for Date.now() minus a stamp.  Other issuers and other profiles  *)
(* appear in what they do to the shared stores: Displace drops the cached keys *)
(* as their refreshes do, and assertions they register are assertions here.    *)
EXTENDS Integers, FiniteSets

CONSTANTS
    Exchange, Login,  \* requests of the two kinds, each repeated for ever
    Assertion,        \* assertions that are about at one time
    Kid,              \* the provider's keys
    NoAssertion,
    MaxAge, Skew,     \* max_assertion_ttl_seconds, clock_skew_seconds
    ReplayTtl,        \* replay_protection_ttl_seconds
    MaxEntries,       \* global_max_replay_entries
    KeyTtl,           \* cacheTtlMs
    BackOff,          \* refreshBackoffMs
    MemoTtl,          \* DISCOVERY_CACHE_TTL_MS
    MaxSlots,         \* enterprise_grant_max_concurrency_per_profile
    MaxAsks,          \* enterprise_grant_rate_limit_max, in a window of a tick
    MaxRotations,     \* bound: keys withdrawn or published
    MaxFaults         \* bound: remote calls that fail, keys displaced

Window == MaxAge + 2 * Skew
Keeper == Exchange \cup Login

ASSUME GrantsAssumption ==
    /\ MaxAge \in Nat /\ Skew \in Nat /\ KeyTtl \in Nat \ {0} /\ BackOff \in Nat
    /\ MaxEntries \in Nat \ {0} /\ MaxSlots \in Nat \ {0} /\ MaxAsks \in Nat
    /\ MemoTtl \in Nat \ {0, 1} /\ MaxRotations \in Nat /\ MaxFaults \in Nat
    /\ ReplayTtl \in Nat /\ ReplayTtl > Window
    /\ Exchange \cap Login = {} /\ NoAssertion \notin Assertion
    /\ IsFiniteSet(Assertion) /\ IsFiniteSet(Exchange) /\ Kid # {}

VARIABLES
    published,  \* the keys the provider answers with
    withdrawn,  \* ticks since it last answered with a key
    cache,      \* issuers: the keys held and the ticks since they were fetched
    fetch,      \* refreshes: what the fetch in flight has read, and its age
    tried,      \* ticks since lastRefreshAttempt
    memo,       \* discoveryCache of the verifier
    signed,     \* assertions: age of iat, key, whether the header names the key,
                \* whether it was ever registered
    replays,    \* the replay store's keys
    replayOrder,  \* its order of insertion
    replayAge,  \* ticks since each was registered
    later,      \* registrations after it, MaxEntries standing for more
    grant,      \* requests in progress
    slots,      \* enterpriseGrantConcurrencyByProfile
    asks,       \* exchanges asked for in this window
    rotations, faults

keyVars == <<published, withdrawn, cache, fetch, tried, memo>>
replayVars == <<replays, replayOrder, replayAge, later>>
limits == <<slots, asks>>
bounds == <<rotations, faults>>
grantVars == <<keyVars, signed, replayVars, grant, limits, bounds>>

NoKeys == [kids |-> {}, age |-> KeyTtl]
NoFetch == [on |-> FALSE, age |-> 0, read |-> FALSE, kids |-> {}]
AnyKid == CHOOSE k \in Kid : TRUE
Unminted == [age |-> Window + 1, kid |-> AnyKid, named |-> TRUE, taken |-> FALSE]
GrantRequest == [at : {"idle", "uri", "keys", "verify", "served"},
            assertion : Assertion \cup {NoAssertion}, kid : Kid, named : BOOLEAN,
            kids : SUBSET Kid, late : BOOLEAN]
Resting == [at |-> "idle", assertion |-> NoAssertion, kid |-> AnyKid, named |-> TRUE,
            kids |-> {}, late |-> FALSE]
Ended == [Resting EXCEPT !.at = "served"]

\* iat may be ahead by the skew: age 0 is the first moment the assertion passes.
InWindow(a) == signed[a].age <= Window

GrantInit ==
    /\ published \in SUBSET Kid \ {{}}
    /\ withdrawn = [k \in Kid |-> IF k \in published THEN 0 ELSE KeyTtl + 1]
    /\ cache = NoKeys /\ fetch = NoFetch /\ tried = BackOff
    /\ memo = [state |-> "none", age |-> 0]
    /\ signed = [a \in Assertion |-> Unminted]
    /\ replays = {} /\ replayOrder = {}
    /\ replayAge = [a \in Assertion |-> ReplayTtl] /\ later = [a \in Assertion |-> MaxEntries]
    /\ grant = [c \in Keeper |-> Resting]
    /\ slots = 0 /\ asks = 0 /\ rotations = 0 /\ faults = 0

CappedAt(n, m) == IF n < m THEN n + 1 ELSE m

----------------------------------------------------------------------------
(* The provider: what it publishes, what it signs. *)

Withdraw(k) ==
    /\ rotations < MaxRotations /\ rotations' = rotations + 1
    /\ k \in published /\ published # {k} /\ published' = published \ {k}
    /\ UNCHANGED <<withdrawn, cache, fetch, tried, memo, signed, replayVars, grant, limits, faults>>

Publish(k) ==
    /\ rotations < MaxRotations /\ rotations' = rotations + 1
    /\ k \notin published /\ published' = published \cup {k}
    /\ withdrawn' = [withdrawn EXCEPT ![k] = 0]
    /\ UNCHANGED <<cache, fetch, tried, memo, signed, replayVars, grant, limits, faults>>

\* An assertion of its own jti.
Mint(a, k, named) ==
    /\ ~InWindow(a) /\ a \notin replays /\ k \in published
    /\ \A c \in Keeper : grant[c].assertion # a
    /\ signed' = [signed EXCEPT ![a] = [age |-> 0, kid |-> k, named |-> named, taken |-> FALSE]]
    /\ UNCHANGED <<keyVars, replayVars, grant, limits, bounds>>

\* Nothing remote takes longer than its limit, and nothing local takes time.
InTime ==
    /\ fetch.on => fetch.age = 0
    /\ memo.state = "pending" => memo.age = 0
    /\ \A c \in Keeper : grant[c].at # "verify" /\ ~grant[c].late

GrantTick ==
    /\ InTime
    /\ withdrawn' = [k \in Kid |-> IF k \in published THEN 0 ELSE CappedAt(withdrawn[k], KeyTtl + 1)]
    /\ cache' = [cache EXCEPT !.age = CappedAt(@, KeyTtl)]
    /\ fetch' = IF fetch.on THEN [fetch EXCEPT !.age = 1] ELSE fetch
    /\ tried' = CappedAt(tried, BackOff)
    /\ memo' = IF memo.state = "none" THEN memo ELSE [memo EXCEPT !.age = CappedAt(@, MemoTtl)]
    /\ signed' = [a \in Assertion |-> [signed[a] EXCEPT !.age = CappedAt(@, Window + 1)]]
    /\ replayAge' = [a \in Assertion |-> CappedAt(replayAge[a], ReplayTtl)]
    /\ grant' = [c \in Keeper |-> [grant[c] EXCEPT !.late = grant[c].at = "uri"]]
    /\ asks' = 0
    /\ UNCHANGED <<published, replays, replayOrder, later, slots, bounds>>

----------------------------------------------------------------------------
(* JwksCache *)

KeysHeld == cache.kids # {}

\* isCacheEntryFresh
FreshKeys == cache.age < KeyTtl
NamesKeyIn(r, kids) == ~r.named \/ r.kid \in kids
Hit(r) == FreshKeys /\ NamesKeyIn(r, cache.kids)

\* Fresh keys without this one, fetched a moment ago.
TriedLately(r) == FreshKeys /\ ~NamesKeyIn(r, cache.kids) /\ tried < BackOff

SlotsLeftByOne(ending) == IF slots = 0 THEN 0 ELSE slots - 1

\* What the end of some exchanges leaves of their slots.
SlotsLeft(ending) ==
    LET n == Cardinality(ending \cap Exchange) IN IF slots <= n THEN 0 ELSE slots - n

\* getResolver, called by a set of requests, as they stand in asked: keys at hand,
\* an error, or the one fetch that all of them wait for.
GetResolver(calling, asked) ==
    LET hits == {c \in calling : Hit(asked[c])}
        refused == {c \in calling : TriedLately(asked[c])}
        waits == calling \ (hits \cup refused)
    IN  /\ grant' = [c \in Keeper |->
              IF c \in hits THEN [asked[c] EXCEPT !.at = "verify", !.kids = cache.kids, !.late = FALSE]
              ELSE IF c \in refused THEN Resting
              ELSE IF c \in waits THEN [asked[c] EXCEPT !.at = "keys", !.late = FALSE]
              ELSE grant[c]]
        /\ slots' = SlotsLeft(refused)
        /\ fetch' = IF waits # {} /\ ~fetch.on THEN [NoFetch EXCEPT !.on = TRUE] ELSE fetch

AwaitingKeys == {c \in Keeper : grant[c].at = "keys"}

\* What the fetch leaves in refreshes when it ends.
FetchKept == [fetch EXCEPT !.age = 0]
FetchLeft == NoFetch

\* The provider answers with the keys it has.
FetchReads ==
    /\ fetch.on /\ ~fetch.read /\ fetch' = [fetch EXCEPT !.read = TRUE, !.kids = published]
    /\ UNCHANGED <<published, withdrawn, cache, tried, memo, signed, replayVars, grant, limits, bounds>>

\* refresh: everyone who waits goes on with the result, unless its key is not in it.
FetchReturns ==
    LET lacks == {c \in AwaitingKeys : ~NamesKeyIn(grant[c], fetch.kids)}
    IN  /\ fetch.on /\ fetch.read
        /\ cache' = [kids |-> fetch.kids, age |-> 0]
        /\ fetch' = FetchLeft /\ tried' = 0
        /\ grant' = [c \in Keeper |->
              IF c \in lacks THEN Resting
              ELSE IF c \in AwaitingKeys THEN [grant[c] EXCEPT !.at = "verify", !.kids = fetch.kids]
              ELSE grant[c]]
        /\ slots' = SlotsLeft(lacks)
        /\ UNCHANGED <<published, withdrawn, memo, signed, replayVars, asks, bounds>>

FetchFails ==
    /\ fetch.on /\ faults < MaxFaults /\ faults' = faults + 1
    /\ fetch' = FetchLeft /\ tried' = 0
    /\ grant' = [c \in Keeper |-> IF c \in AwaitingKeys THEN Resting ELSE grant[c]]
    /\ slots' = SlotsLeft(AwaitingKeys)
    /\ UNCHANGED <<published, withdrawn, cache, memo, signed, replayVars, asks, rotations>>

\* The keys of other issuers push these out.
Displace ==
    /\ faults < MaxFaults /\ faults' = faults + 1
    /\ cache # NoKeys /\ cache' = NoKeys
    /\ UNCHANGED <<published, withdrawn, fetch, tried, memo, signed, replayVars, grant, limits, rotations>>

----------------------------------------------------------------------------
(* OidcIdentityVerifier *)

GrantFree(c) == grant[c].at \in {"idle", "served"}

MemoKnown == memo.state # "none" /\ memo.age < MemoTtl
Discovering == {c \in Login : grant[c].at = "uri"}

\* discover: the memo, or the promise others wait for, or a discovery of its own.
LogIn(c, k, named) ==
    LET asked == [grant EXCEPT ![c] = [Resting EXCEPT !.at = "uri", !.kid = k, !.named = named]]
    IN  /\ GrantFree(c) /\ k \in published
        /\ \/ /\ MemoKnown /\ memo.state = "known"
              /\ GetResolver({c}, asked) /\ UNCHANGED memo
           \/ /\ ~(MemoKnown /\ memo.state = "known")
              /\ grant' = asked
              /\ memo' = IF MemoKnown THEN memo ELSE [state |-> "pending", age |-> 0]
              /\ UNCHANGED <<fetch, slots>>
        /\ UNCHANGED <<published, withdrawn, cache, tried, signed, replayVars, asks, bounds>>

MemoReturns ==
    /\ memo.state = "pending" /\ memo' = [memo EXCEPT !.state = "known"]
    /\ GetResolver(Discovering, grant)
    /\ UNCHANGED <<published, withdrawn, cache, tried, signed, replayVars, asks, bounds>>

\* A failed discovery is not remembered.
MemoFails ==
    /\ memo.state = "pending" /\ memo' = [state |-> "none", age |-> 0]
    /\ faults < MaxFaults /\ faults' = faults + 1
    /\ grant' = [c \in Keeper |-> IF c \in Discovering THEN Resting ELSE grant[c]]
    /\ UNCHANGED <<published, withdrawn, cache, fetch, tried, signed, replayVars, limits, rotations>>

VerifyIdToken(c) ==
    /\ grant[c].at = "verify"
    /\ grant' = [grant EXCEPT ![c] = IF @.kid \in @.kids THEN Ended ELSE Resting]
    /\ UNCHANGED <<keyVars, signed, replayVars, limits, bounds>>

----------------------------------------------------------------------------
(* EnterpriseReplayStore *)

\* What evictExpired leaves.
Kept == {k \in replays : replayAge[k] < ReplayTtl}

Oldest(held, order) == CHOOSE o \in held : \A k \in held \ {o} : <<o, k>> \in order

\* register, of a key it does not hold
RegisterKey(a) ==
    LET held == Kept \cup {a}
        order == (replayOrder \cap (Kept \X Kept)) \cup (Kept \X {a})
        left == IF Cardinality(held) > MaxEntries THEN held \ {Oldest(held, order)} ELSE held
    IN  /\ replays' = left
        /\ replayOrder' = order \cap (left \X left)
        /\ replayAge' = [replayAge EXCEPT ![a] = 0]
        /\ later' = [k \in Assertion |-> IF k = a THEN 0 ELSE CappedAt(later[k], MaxEntries)]
        /\ signed' = [signed EXCEPT ![a].taken = TRUE]

----------------------------------------------------------------------------
(* handleOAuthToken with a jwt-bearer grant, and validateAssertion *)

\* enforceEnterpriseGrantRateLimit, acquireEnterpriseGrantConcurrency, the checks that
\* need no keys: an exchange that they refuse has counted as an attempt.
Ask(c, a) ==
    /\ GrantFree(c) /\ signed[a] # Unminted /\ asks < MaxAsks /\ asks' = asks + 1
    /\ \/ /\ slots < MaxSlots /\ slots' = slots + 1
          /\ grant' = [grant EXCEPT ![c] =
                [Resting EXCEPT !.at = "uri", !.assertion = a, !.kid = signed[a].kid, !.named = signed[a].named]]
       \/ UNCHANGED <<slots, grant>>
    /\ UNCHANGED <<keyVars, signed, replayVars, bounds>>

\* resolveJwksUri
UriKnown(c) ==
    /\ grant[c].at = "uri" /\ GetResolver({c}, grant)
    /\ UNCHANGED <<published, withdrawn, cache, tried, memo, signed, replayVars, asks, bounds>>

Released(c, outcome) ==
    /\ grant' = [grant EXCEPT ![c] = outcome] /\ slots' = SlotsLeft({c})

UriFails(c) ==
    /\ grant[c].at = "uri" /\ faults < MaxFaults /\ faults' = faults + 1
    /\ Released(c, Resting)
    /\ UNCHANGED <<keyVars, signed, replayVars, asks, rotations>>

ValidNow(c) == grant[c].kid \in grant[c].kids /\ InWindow(grant[c].assertion)

\* jwtVerify or validatePayload says no, which it may of every assertion.
Refuse(c) ==
    /\ grant[c].at = "verify" /\ Released(c, Resting)
    /\ UNCHANGED <<keyVars, signed, replayVars, asks, bounds>>

\* A replay is refused; register drops what expired all the same.
RefuseReplay(c) ==
    /\ grant[c].at = "verify" /\ ValidNow(c) /\ grant[c].assertion \in Kept
    /\ replays' = Kept /\ replayOrder' = replayOrder \cap (Kept \X Kept)
    /\ Released(c, Resting)
    /\ UNCHANGED <<keyVars, signed, replayAge, later, asks, bounds>>

\* The principal is built after the assertion is registered, and may be refused.
AcceptAssertion(c, outcome) ==
    /\ grant[c].at = "verify" /\ ValidNow(c) /\ grant[c].assertion \notin Kept
    /\ RegisterKey(grant[c].assertion) /\ Released(c, outcome)
    /\ UNCHANGED <<keyVars, asks, bounds>>

----------------------------------------------------------------------------

Exchanging(c) ==
    \/ \E a \in Assertion : Ask(c, a)
    \/ UriKnown(c) \/ UriFails(c) \/ Refuse(c) \/ RefuseReplay(c)
    \/ \E outcome \in {Ended, Resting} : AcceptAssertion(c, outcome)
LoggingIn(c) ==
    \/ \E k \in Kid, named \in BOOLEAN : LogIn(c, k, named)
    \/ VerifyIdToken(c)
Remote == MemoReturns \/ MemoFails \/ FetchReads \/ FetchReturns \/ FetchFails \/ Displace
GrantNext ==
    \/ \E k \in Kid : Withdraw(k) \/ Publish(k)
    \/ \E a \in Assertion, k \in Kid, named \in BOOLEAN : Mint(a, k, named)
    \/ \E c \in Exchange : Exchanging(c)
    \/ \E c \in Login : LoggingIn(c)
    \/ Remote \/ GrantTick

GrantSpec == GrantInit /\ [][GrantNext]_grantVars

----------------------------------------------------------------------------
(* Properties *)

\* Types of the state.
GrantTypeOK ==
    /\ published \subseteq Kid /\ withdrawn \in [Kid -> 0..KeyTtl + 1]
    /\ cache \in [kids : SUBSET Kid, age : 0..KeyTtl]
    /\ fetch \in [on : BOOLEAN, age : {0, 1}, read : BOOLEAN, kids : SUBSET Kid]
    /\ signed \in [Assertion -> [age : 0..Window + 1, kid : Kid, named : BOOLEAN, taken : BOOLEAN]]
    /\ replays \subseteq Assertion /\ replayOrder \subseteq replays \X replays
    /\ replayAge \in [Assertion -> 0..ReplayTtl] /\ later \in [Assertion -> 0..MaxEntries]
    /\ grant \in [Keeper -> GrantRequest]
    /\ slots \in Nat /\ asks \in 0..MaxAsks

\* An assertion that buys a token is one that never bought one, unless at least
\* as many assertions as the replay store holds were registered in between: neither two
\* requests at a time, nor clocks that differ by the skew, nor expiry let it through.
Serves(c) == grant[c].at = "verify" /\ grant'[c].at = "served"
AcceptedAgainOnlyIfFull ==
    [][\A c \in Exchange : Serves(c) /\ signed[grant[c].assertion].taken
          => later[grant[c].assertion] >= MaxEntries]_grantVars

\* A key the provider no longer answers with is trusted for as long as its answer is
\* kept and no longer: not by refreshes that are held back, joined, failed or late.
WithdrawnKeyForgotten ==
    [][\A c \in Keeper : Serves(c) => withdrawn[grant[c].kid] <= KeyTtl]_grantVars

\* Neither an assertion nor a key is trusted beyond its time.
TrustEnds == AcceptedAgainOnlyIfFull /\ WithdrawnKeyForgotten

AskingNow == {c \in Exchange : ~GrantFree(c)}

\* The counter of exchanges in progress is their number: each way one can end
\* gives its slot back, once.
SlotsExact == slots = Cardinality(AskingNow) /\ slots <= MaxSlots

\* Whoever logs in again and again is let in again and again once the provider
\* answers and keeps its keys: no failed or stale answer is waited for for ever.
LoginServed ==
    \A c \in Login : []<>(~GrantFree(c)) => []<>(grant[c].at = "served")

GrantFairness ==
    /\ WF_grantVars(MemoReturns) /\ WF_grantVars(FetchReads) /\ WF_grantVars(FetchReturns)
    /\ SF_grantVars(GrantTick)
    /\ \A c \in Exchange : WF_grantVars(UriKnown(c) \/ Refuse(c))
    /\ \A c \in Login : WF_grantVars(LoggingIn(c))
=============================================================================
