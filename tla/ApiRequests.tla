----------------------------- MODULE ApiRequests -----------------------------
(***************************************************************************)
(* The requests one HttpClient makes to the REST API, through the          *)
(* interceptors of its profile: session-cookie auth                        *)
(* (src/transport/session-cookie-auth.ts), then the response cache         *)
(* (src/transport/response-cache-interceptor.ts over                       *)
(* in-memory-cache-store.ts), then fetch (src/transport/interceptors.ts).  *)
(*                                                                         *)
(* Reads are of one resource; its versions tell its states apart.  A call  *)
(* that is refused logs in again and is replayed, once, from within: the   *)
(* replay (level 1) passes all interceptors anew while level 0 waits.      *)
(* Handlers that need not wait run on before the next event (Turn).        *)
(* Responses are cacheable, need no revalidation and carry no Set-Cookie;  *)
(* the rate limiter and the retry interceptor are not in the chain.        *)
(***************************************************************************)
EXTENDS Naturals

CONSTANTS
    Request, None,
    MaxChanges,    \* bound on the writes and logins the API performs
    Methods,       \* what requests do: "read" and "write"
    KeyHasCookie   \* cache scope private: the key hashes the Cookie header

ASSUME ConstantsAssumption ==
    /\ MaxChanges \in Nat
    /\ Methods \subseteq {"read", "write"} /\ KeyHasCookie \in BOOLEAN

Cookie == 1 .. MaxChanges
NoCookie == 0
Version == 1 .. MaxChanges + 1
NoVersion == 0

VARIABLES
    version,    \* of the resource, at the API
    accepted,   \* the cookies the API accepts
    issued,     \* the number of cookies it has issued
    jar,        \* the cookie in cookieJar
    login,      \* inFlightLogin is set
    blocked,    \* blockedUntil is to come
    store,      \* key -> the version in the cache
    inFlight,   \* key -> the promise under which a fetch is shared
    acked,      \* the version of the last write that was answered
    call        \* the requests

vars == <<version, accepted, issued, jar, login, blocked, store, inFlight, acked, call>>
api == <<version, accepted, issued>>
auth == <<jar, login, blocked>>
cache == <<store, inFlight, acked>>

----------------------------------------------------------------------------
Level == {0, 1}
Key == Cookie \cup {0}
NoKey == MaxChanges + 1
CacheKey(c) == IF KeyHasCookie THEN c ELSE 0

\* A promise of inFlight: whose it is, and what was acked when it was made.
Promise == [by : Request, level : Level, acked : Nat]

CallRecord ==
    [ at     : {"idle", "login", "relogin", "prepared", "fetching", "answered",
                "joined", "returning", "done", "failed"},
      method : {"read", "write"},
      level  : Level,
      cookie : Cookie \cup {NoCookie},      \* it was sent with
      leads  : [Level -> Key \cup {NoKey}], \* the key its promise is entered at
      joins  : Promise \cup {None},         \* the promise it awaits
      status : {"ok", "unauthorized", "error"},
      seen   : Version \cup {NoVersion},
      floor  : Nat,                         \* acked when the call began
      acked  : Nat ]                        \* acked when it reached the cache
Idle == [ at |-> "idle", method |-> "read", level |-> 0, cookie |-> NoCookie,
          leads |-> [l \in Level |-> NoKey], joins |-> None, status |-> "ok",
          seen |-> NoVersion, floor |-> 0, acked |-> 0 ]

Init ==
    /\ version = 1 /\ accepted = {} /\ issued = 0
    /\ jar = NoCookie /\ login = FALSE /\ blocked = FALSE
    /\ store = [k \in Key |-> NoVersion] /\ inFlight = [k \in Key |-> None] /\ acked = 0
    /\ call = [r \in Request |-> Idle]

MayChange == issued + version <= MaxChanges

\* No handler can run on: the event loop takes the next event.
Turn == \A r \in Request : call[r].at \notin {"prepared", "returning"}
Becomes(r, rec) == call' = [call EXCEPT ![r] = rec]
Fails(rec) == [rec EXCEPT !.at = "returning", !.status = "error"]

----------------------------------------------------------------------------
(* SessionCookieAuthManager *)

\* ensureLoggedIn by a request that is to wait in the stage at.
EnsureLoggedIn(r, rec, at) ==
    /\ login' = (login \/ ~blocked)
    /\ Becomes(r, IF login \/ ~blocked THEN [rec EXCEPT !.at = at] ELSE Fails(rec))

\* prepareRequest of a new call
Start(r, m) ==
    LET rec == [Idle EXCEPT !.at = "prepared", !.method = m, !.floor = acked] IN
    /\ Turn /\ call[r].at = "idle" /\ m \in Methods
    /\ IF jar # NoCookie THEN Becomes(r, rec) /\ UNCHANGED login
       ELSE EnsureLoggedIn(r, rec, "login")
    /\ UNCHANGED <<api, jar, blocked, cache>>

\* The login ends, and all who await it go on.
Waits(r) == call[r].at \in {"login", "relogin"}
LoggedIn ==
    /\ Turn /\ login /\ MayChange
    /\ issued' = issued + 1 /\ accepted' = accepted \cup {issued'} /\ jar' = issued'
    /\ login' = FALSE /\ blocked' = FALSE
    /\ call' = [r \in Request |->
                  IF ~Waits(r) THEN call[r]
                  ELSE [call[r] EXCEPT !.at = "prepared",
                                       !.level = IF call[r].at = "relogin" THEN 1 ELSE 0]]
    /\ UNCHANGED <<version, cache>>

LoginFails ==
    /\ Turn /\ login
    /\ login' = FALSE /\ blocked' = TRUE
    /\ call' = [r \in Request |-> IF Waits(r) THEN Fails(call[r]) ELSE call[r]]
    /\ UNCHANGED <<api, jar, cache>>

\* The backoff is over, or the cookie reaches its own expiry (pruneExpired),
\* at once even, between the login and the request.
BackoffEnds ==
    /\ Turn /\ blocked /\ blocked' = FALSE
    /\ UNCHANGED <<api, jar, login, cache, call>>
CookieExpires ==
    /\ jar # NoCookie /\ jar' = NoCookie
    /\ UNCHANGED <<api, login, blocked, cache, call>>

----------------------------------------------------------------------------
(* ResponseCacheInterceptor *)

\* The call reaches the cache with the jar's cookie: a write passes it by, and
\* a read is answered from the store, joins a fetch under way, or leads one.
Sharable(p) == p # None
ReachCache(r) ==
    LET k == CacheKey(jar)
        rec == [call[r] EXCEPT !.cookie = jar, !.acked = acked]
        l == rec.level
    IN
    /\ call[r].at = "prepared" /\ jar # NoCookie
    /\ \/ /\ rec.method = "write"
          /\ Becomes(r, [rec EXCEPT !.at = "fetching"]) /\ UNCHANGED inFlight
       \/ /\ rec.method = "read" /\ store[k] # NoVersion
          /\ Becomes(r, [rec EXCEPT !.at = "returning", !.seen = store[k], !.status = "ok"])
          /\ UNCHANGED inFlight
       \/ /\ rec.method = "read" /\ store[k] = NoVersion /\ Sharable(inFlight[k])
          /\ Becomes(r, [rec EXCEPT !.at = "joined", !.joins = inFlight[k]])
          /\ UNCHANGED inFlight
       \/ /\ rec.method = "read" /\ store[k] = NoVersion /\ ~Sharable(inFlight[k])
          /\ Becomes(r, [rec EXCEPT !.at = "fetching", !.leads[l] = k])
          /\ inFlight' = [inFlight EXCEPT ![k] = [by |-> r, level |-> l, acked |-> acked]]
    /\ UNCHANGED <<api, auth, store, acked>>

\* SessionCookieExpiredError
ExpiredBeforeRequest(r) ==
    /\ call[r].at = "prepared" /\ jar = NoCookie
    /\ Becomes(r, Fails(call[r]))
    /\ UNCHANGED <<api, auth, cache>>

\* The promise of r at its level settles, and those who await it go on.
ResumesNobody(q, r) == FALSE
Resumes(q, r) ==
    /\ call[q].at = "joined" /\ call[q].joins.by = r /\ call[q].joins.level = call[r].level
Settled(r) ==
    [q \in Request |->
       IF Resumes(q, r)
       THEN [call[q] EXCEPT !.at = "returning", !.joins = None,
                            !.status = call[r].status, !.seen = call[r].seen]
       ELSE IF q # r THEN call[q]
       ELSE IF call[r].level = 1 THEN [call[r] EXCEPT !.level = 0]
       ELSE [call[r] EXCEPT !.at = IF @ = "returning" /\ call[r].status = "ok"
                                   THEN "done" ELSE "failed"]]

\* invalidateAfterUnsafeMutation
ClearedStoreOnly == UNCHANGED inFlight
Cleared == inFlight' = [k \in Key |-> None]

\* The finally of the leader, whatever the outcome.
Landed(r, k) == [inFlight EXCEPT ![k] = None]

\* The response leaves the cache on its way out: a leader stores it (if it is a
\* success) and removes whatever is in flight under its key.
Return(r) ==
    LET rec == call[r]
        k == rec.leads[rec.level]
    IN
    /\ rec.at = "returning"
    /\ call' = Settled(r)
    /\ \/ /\ rec.method = "write" /\ rec.status = "ok"
          /\ store' = [j \in Key |-> NoVersion] /\ Cleared
          /\ acked' = IF rec.seen > acked THEN rec.seen ELSE acked
       \/ /\ rec.method = "read" /\ k # NoKey
          /\ store' = IF rec.status = "ok" THEN [store EXCEPT ![k] = rec.seen] ELSE store
          /\ inFlight' = Landed(r, k)
          /\ UNCHANGED acked
       \/ /\ IF rec.method = "write" THEN rec.status # "ok" ELSE k = NoKey
          /\ UNCHANGED cache
    /\ UNCHANGED <<api, auth>>

\* An entry's TTL ends, or it is evicted.
Evict(k) ==
    /\ Turn /\ store[k] # NoVersion
    /\ store' = [store EXCEPT ![k] = NoVersion]
    /\ UNCHANGED <<api, auth, inFlight, acked, call>>

----------------------------------------------------------------------------
(* HttpClient.requestInternal, and the API *)

\* The API handles the request ...
Handled(r) ==
    /\ Turn /\ call[r].at = "fetching"
    /\ \/ /\ call[r].cookie \notin accepted
          /\ Becomes(r, [call[r] EXCEPT !.at = "answered", !.status = "unauthorized"])
          /\ UNCHANGED version
       \/ /\ call[r].cookie \in accepted /\ call[r].method = "read"
          /\ Becomes(r, [call[r] EXCEPT !.at = "answered", !.status = "ok", !.seen = version])
          /\ UNCHANGED version
       \/ /\ call[r].cookie \in accepted /\ call[r].method = "write" /\ MayChange
          /\ version' = version + 1
          /\ Becomes(r, [call[r] EXCEPT !.at = "answered", !.status = "ok", !.seen = version'])
    /\ UNCHANGED <<accepted, issued, auth, cache>>

\* ... or it is not reached, or answers an error, or fetch is aborted: the
\* controller's timeout bounds every fetch.
FetchFails(r) ==
    /\ Turn /\ call[r].at \in {"fetching", "answered"}
    /\ Becomes(r, [call[r] EXCEPT !.at = "returning", !.status = "error"])
    /\ UNCHANGED <<api, auth, cache>>

\* The response arrives; handleAuthFailure sees to a 401, once.
Relogin(r) == call[r].status = "unauthorized" /\ call[r].level = 0
Response(r) ==
    /\ Turn /\ call[r].at = "answered"
    /\ IF Relogin(r)
       THEN jar' = NoCookie /\ EnsureLoggedIn(r, call[r], "relogin")
       ELSE /\ Becomes(r, [call[r] EXCEPT !.at = "returning",
                                          !.status = IF @ = "ok" THEN "ok" ELSE "error"])
            /\ UNCHANGED <<jar, login>>
    /\ UNCHANGED <<api, blocked, cache>>

\* The API ends a login session.
Revoke(c) ==
    /\ Turn /\ c \in accepted /\ accepted' = accepted \ {c}
    /\ UNCHANGED <<version, issued, auth, cache, call>>

\* The caller has its result.
Reported(r) ==
    /\ Turn /\ call[r].at \in {"done", "failed"}
    /\ Becomes(r, Idle)
    /\ UNCHANGED <<api, auth, cache>>

----------------------------------------------------------------------------
RunsOn(r) == ReachCache(r) \/ ExpiredBeforeRequest(r) \/ Return(r)
Fetched(r) == Handled(r) \/ FetchFails(r)

Next ==
    \/ \E r \in Request : RunsOn(r) \/ Fetched(r) \/ Response(r) \/ Reported(r)
    \/ \E r \in Request, m \in {"read", "write"} : Start(r, m)
    \/ LoggedIn \/ LoginFails \/ BackoffEnds \/ CookieExpires
    \/ \E k \in Key : Evict(k)
    \/ \E c \in Cookie : Revoke(c)

\* Handlers that can run on do; every fetch ends, by its timeout if need be, and
\* the event loop passes over no event for ever.
Fairness ==
    /\ SF_vars(LoggedIn \/ LoginFails)
    /\ \A r \in Request :
          WF_vars(RunsOn(r)) /\ SF_vars(Fetched(r) \/ Response(r)) /\ SF_vars(Reported(r))

Spec == Init /\ [][Next]_vars /\ Fairness

----------------------------------------------------------------------------
(* Properties *)

\* Types; and a promise in flight is that of a call which leads there and has
\* not come back, so whoever joins it will be resumed.
TypeOK ==
    /\ version \in Version /\ accepted \subseteq 1 .. issued /\ issued \in 0 .. MaxChanges
    /\ jar \in 0 .. issued /\ {login, blocked} \subseteq BOOLEAN /\ acked \in 0 .. version
    /\ store \in [Key -> 0 .. version] /\ call \in [Request -> CallRecord]
    /\ \A k \in Key : inFlight[k] # None =>
          LET p == inFlight[k] IN
          p \in Promise /\ call[p.by].leads[p.level] = k /\ p.level <= call[p.by].level

\* A read that begins after a write was answered never shares a fetch that was
\* sent before (invalidateAfterUnsafeMutation clears inFlight for that).
NoJoinAcrossWrite ==
    \A r \in Request : call[r].at = "joined" => call[r].joins.acked = call[r].acked

\* Concurrent reads with one cache key, with no write between them, are one
\* fetch (the in-flight sharing of ResponseCacheInterceptor).
OneFetchPerKey ==
    \A q, r \in Request :
        /\ q # r /\ call[q].at = "fetching" /\ call[r].at = "fetching"
        /\ call[q].method = "read" /\ call[r].method = "read"
        /\ CacheKey(call[q].cookie) = CacheKey(call[r].cookie)
        => call[q].acked # call[r].acked

\* Who logs in, awaits the login and none other: as long as one login is under
\* way, every call that needs one waits for it, and it has someone to wait for.
LoginAwaited == login <=> \E r \in Request : Waits(r)

\* A read that begins after a write was answered sees it (the invalidation of
\* the cache after a successful unsafe mutation).
ReadsSeeWrites ==
    \A r \in Request : call[r].at = "done" /\ call[r].method = "read" => call[r].seen >= call[r].floor

\* Every request comes to its end, also one whose login expired on the way:
\* one relogin and one replay.
RequestCompletes == \A r \in Request : call[r].at # "idle" ~> call[r].at \in {"done", "failed"}
=============================================================================
