--------------------------- MODULE CacheFreshness ---------------------------
(***************************************************************************)
(* Which responses the cache of an HttpClient keeps, for how long, and     *)
(* when it asks again: src/transport/response-cache-interceptor.ts with    *)
(* cache-policy-evaluator.ts, cache-policy-resolver.ts,                    *)
(* cache-revalidation-utils.ts and in-memory-cache-store.ts.               *)
(*                                                                         *)
(* The client reads a few URLs whose content other clients change too; a   *)
(* version tells the states of a URL apart.  Each response comes with some *)
(* of the headers that the cache looks at.  ApiRequests has the cookie of  *)
(* the request and the promise under which a fetch is shared; here a fetch *)
(* under way has its URL for a name.  The requests themselves carry no     *)
(* cache header: no caller sets one.                                       *)
(***************************************************************************)
EXTENDS Integers

CONSTANTS
    Url, Reading, Nothing,
    Policies,     \* the cache settings to consider
    Heads,        \* the headers that responses may come with
    Absent, Garbled,  \* a header that is not there, or not a number
    MaxVersions,   \* bound on the versions of a URL
    MaxAge        \* bound on the ages told apart

\* A setting: the scope and whether the profile has auth, sharing although it
\* has, and ttl_seconds.  Headers: no-store, no-cache, private, an ETag or a
\* date of modification, Set-Cookie, the fields Vary names, and s-maxage,
\* max-age, and Expires less Date and Age.
Lives == Int \cup {Absent, Garbled}
Headers ==
    [ noStore : BOOLEAN, noCache : BOOLEAN, private : BOOLEAN, validator : BOOLEAN,
      cookie : BOOLEAN, vary : {"nothing", "listed", "unlisted", "star"},
      shared : Lives, own : Lives, expires : Lives ]
Settings ==
    [ scope : {"auto", "public", "private", "session"},
      auth : BOOLEAN, shares : BOOLEAN, ttl : 1 .. MaxAge ]
ASSUME FreshnessAssumption == Policies \subseteq Settings /\ \A h \in Heads : h \in Headers

VARIABLES
    policy,
    content,   \* URL -> its version, at the origin
    shelf,     \* InMemoryCacheStore: URL -> what is kept of it
    leader,    \* inFlight: URL -> the reading whose fetch is shared
    reading

cacheVars == <<policy, content, shelf, leader, reading>>

Kept(v, h, ttl) == [version |-> v, head |-> h, ttl |-> ttl, age |-> 0]
Resting == [ at |-> "resting", url |-> Nothing, writes |-> FALSE, cond |-> Nothing,
             by |-> Nothing, floor |-> 0, status |-> "ok", version |-> 0, head |-> Nothing, from |-> Nothing ]

Answered(u, status, version, floor) ==
    [Resting EXCEPT !.at = "done", !.url = u, !.status = status, !.version = version, !.floor = floor]

FreshnessInit ==
    /\ policy \in Policies
    /\ content = [u \in Url |-> 1] /\ shelf = [u \in Url |-> Nothing]
    /\ leader = [u \in Url |-> Nothing] /\ reading = [r \in Reading |-> Resting]

----------------------------------------------------------------------------
(* The rules *)

\* CachePolicyResolver: auto is private where the profile has auth.
Public == policy.scope = "public" \/ (policy.scope = "auto" /\ ~policy.auth)
\* evaluateRequestCacheDecision: shared caches keep no answers to credentials,
\* which a request has in a sensitive header.
HasCredentials == policy.auth
UsesCache == Public /\ HasCredentials => policy.shares

\* resolveTtlSeconds: the life a response states, else that of the policy.
Life(h) == IF Public /\ h.shared # Absent THEN h.shared
           ELSE IF h.own # Absent THEN h.own
           ELSE IF h.expires \notin {Absent, Garbled} THEN h.expires
           ELSE policy.ttl
Retention(h) == IF Life(h) <= 0 THEN policy.ttl ELSE Life(h)

\* evaluateResponseCacheDecision
MayBeShared(h) == Public => ~h.private /\ (h.cookie => policy.shares)
KeyTells(h) == h.vary \in {"nothing", "listed"}
Cacheable(status, h) ==
    /\ status = "ok" /\ ~h.noStore /\ MayBeShared(h) /\ KeyTells(h) /\ Life(h) # Garbled
    /\ IF h.noCache THEN h.validator ELSE Life(h) > 0

IsOver(e) == e.age >= e.ttl
Found(u) == IF shelf[u] # Nothing /\ ~IsOver(shelf[u]) THEN shelf[u] ELSE Nothing

\* cachedResponseRequiresRevalidation
RevalidateNever(e) == FALSE
MustRevalidate(e) == e.head.noCache

\* If-None-Match, If-Modified-Since
Conditional(e) == IF e # Nothing /\ e.head.validator THEN e ELSE Nothing

----------------------------------------------------------------------------
(* A read *)

Goes(r, rec) == reading' = [reading EXCEPT ![r] = rec]

\* A read of u is answered from the shelf, joins a fetch, or leads one, which is
\* conditional when what is kept must be revalidated and has a validator.
ServeKept(r, u) ==
    LET e == Found(u) IN
    /\ e # Nothing /\ ~MustRevalidate(e)
    /\ Goes(r, [Resting EXCEPT !.at = "done", !.url = u, !.from = e,
                               !.version = e.version, !.head = e.head])
    /\ UNCHANGED <<shelf, leader>>
JoinFetch(r, u) ==
    /\ Found(u) # Nothing => MustRevalidate(Found(u))
    /\ leader[u] # Nothing
    /\ Goes(r, [Resting EXCEPT !.at = "joined", !.url = u, !.by = leader[u],
                               !.floor = reading[leader[u]].floor])
    /\ shelf' = [shelf EXCEPT ![u] = Found(u)] /\ UNCHANGED leader
LeadFetch(r, u) ==
    LET e == Found(u) IN
    /\ e # Nothing => MustRevalidate(e)
    /\ leader[u] = Nothing
    /\ Goes(r, [Resting EXCEPT !.at = "sent", !.url = u, !.floor = content[u],
                               !.cond = Conditional(e)])
    /\ leader' = [leader EXCEPT ![u] = r] /\ shelf' = [shelf EXCEPT ![u] = e]
\* A request that is not for the cache.
PassBy(r, u, writes) ==
    /\ writes \/ ~UsesCache
    /\ Goes(r, [Resting EXCEPT !.at = "sent", !.url = u, !.writes = writes, !.floor = content[u]])
    /\ UNCHANGED <<shelf, leader>>

AskFor(r, u) ==
    /\ reading[r].at \in {"resting", "done"}
    /\ \/ UsesCache /\ (ServeKept(r, u) \/ JoinFetch(r, u) \/ LeadFetch(r, u))
       \/ \E writes \in BOOLEAN : PassBy(r, u, writes)
    /\ UNCHANGED <<policy, content>>

\* The origin answers: it has not changed, it has, it performs a write, or fails.
OriginAnswers(r, h, status) ==
    LET rec == reading[r] IN
    /\ rec.at = "sent"
    /\ status = "same" => rec.cond # Nothing /\ rec.cond.version = content[rec.url]
    /\ rec.cond # Nothing /\ rec.cond.version = content[rec.url] => status # "ok"
    /\ rec.writes /\ status = "ok" => content[rec.url] < MaxVersions
    /\ content' = [content EXCEPT ![rec.url] =
                     IF rec.writes /\ status = "ok" THEN content[rec.url] + 1 ELSE content[rec.url]]
    /\ Goes(r, [rec EXCEPT !.at = "answered", !.status = status, !.head = h,
                           !.version = content'[rec.url]])
    /\ UNCHANGED <<policy, shelf, leader>>

\* mergeNotModifiedResponse: the kept body, as a success, with the headers merged;
\* a 304 repeats the headers that have changed.
Merged(rec) ==
    IF rec.status = "same"
    THEN [rec EXCEPT !.status = "ok", !.version = rec.cond.version]
    ELSE rec

\* The leader has the response: it is put on the shelf if it may be, and all who
\* joined it have it too.  A leader that the shelf was cleared beneath still puts
\* its response there and still ends whatever fetch has its URL for a name.
Joined(r, q) == reading[q].at = "joined" /\ reading[q].by = r
AnswerRead(r) ==
    LET rec == Merged(reading[r])
        u == rec.url
        answer(q) == Answered(u, rec.status, rec.version, reading[q].floor) IN
    /\ rec.at = "answered" /\ ~rec.writes /\ UsesCache
    /\ \/ ~Cacheable(rec.status, rec.head) /\ shelf' = shelf
       \/ /\ Cacheable(rec.status, rec.head)
          /\ shelf' \in {shelf,   \* it is larger than max_memory_bytes
                        [shelf EXCEPT ![u] = Kept(rec.version, rec.head, Retention(rec.head))]}
    /\ leader' = [leader EXCEPT ![u] = Nothing]
    /\ reading' = [q \in Reading |-> IF q = r \/ Joined(r, q)
                                     THEN answer(q) ELSE reading[q]]
    /\ UNCHANGED <<policy, content>>

\* A write that succeeds clears the cache.
ClearedAfter(rec) == rec.writes /\ rec.status = "ok"
AnswerOther(r) ==
    LET rec == reading[r] IN
    /\ rec.at = "answered" /\ (rec.writes \/ ~UsesCache)
    /\ IF ClearedAfter(rec)
       THEN /\ shelf' = [u \in Url |-> Nothing] /\ leader' = [u \in Url |-> Nothing]
       ELSE UNCHANGED <<shelf, leader>>
    /\ Goes(r, Answered(rec.url, rec.status, rec.version, rec.floor))
    /\ UNCHANGED <<policy, content>>

----------------------------------------------------------------------------
(* The rest *)

\* max_entries or max_memory_bytes.
EvictKept(u) ==
    /\ shelf[u] # Nothing /\ shelf' = [shelf EXCEPT ![u] = Nothing]
    /\ UNCHANGED <<policy, content, leader, reading>>

OtherChanges(u) ==
    /\ content[u] < MaxVersions /\ content' = [content EXCEPT ![u] = @ + 1]
    /\ UNCHANGED <<policy, shelf, leader, reading>>

Older(e) == IF e = Nothing THEN e ELSE [e EXCEPT !.age = IF @ < MaxAge THEN @ + 1 ELSE @]
TimePasses ==
    /\ shelf' = [u \in Url |-> Older(shelf[u])]
    /\ UNCHANGED <<policy, content, leader, reading>>

FreshnessNext ==
    \/ \E r \in Reading, u \in Url : AskFor(r, u)
    \/ \E r \in Reading, h \in Heads, status \in {"ok", "same", "error"} : OriginAnswers(r, h, status)
    \/ \E r \in Reading : AnswerRead(r) \/ AnswerOther(r)
    \/ \E u \in Url : EvictKept(u) \/ OtherChanges(u)
    \/ TimePasses

FreshnessSpec == FreshnessInit /\ [][FreshnessNext]_cacheVars

----------------------------------------------------------------------------
(* Properties *)

FreshnessTypeOK ==
    /\ policy \in Policies
    /\ content \in [Url -> 1 .. MaxVersions]
    /\ leader \in [Url -> Reading \cup {Nothing}]
    /\ \A u \in Url : shelf[u] # Nothing =>
         shelf[u].head \in Heads /\ shelf[u].age \in 0 .. MaxAge
    /\ \A r \in Reading : reading[r].at \in {"resting", "sent", "answered", "joined", "done"}

\* An answer is as fresh as its resource was said to stay.  Without the origin:
\* a response that was kept for less than the life its last headers state, and
\* that they neither forbid to keep nor want revalidated.  With it: no version
\* older than the one at the start of the fetch that was led or joined, however
\* many entries, writes, evictions and 304s lie between (asInterceptor).
AnswersFresh ==
    \A r \in Reading :
      LET rec == reading[r] IN
      rec.at = "done" /\ rec.status = "ok" =>
        IF rec.from # Nothing
        THEN /\ rec.from.age < Life(rec.head)
             /\ ~rec.head.noStore /\ ~rec.head.noCache /\ MayBeShared(rec.head)
        ELSE rec.version >= rec.floor
=============================================================================
