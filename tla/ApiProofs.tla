------------------------------- MODULE ApiProofs -------------------------------
(***************************************************************************)
(* Theorems about an HttpClient's cache, for every number of requests,     *)
(* URLs, versions and policies: no read shares a fetch that a write lies   *)
(* between (ApiRequests), and what is served is as fresh as its headers    *)
(* said, or as the fetch it waited for (CacheFreshness).                   *)
(***************************************************************************)
EXTENDS ApiRequests, CacheFreshness, TLAPS

-----------------------------------------------------------------------------
(* Requests that share a fetch *)

ApiTyped ==
    /\ version \in Version /\ issued \in 0 .. MaxChanges /\ acked \in Nat
    /\ jar \in Cookie \cup {NoCookie} /\ store \in [Key -> Version \cup {NoVersion}]
    /\ inFlight \in [Key -> Promise \cup {None}]
    /\ call \in [Request -> CallRecord]

\* What is in flight was sent since the last write that was answered.
FlightsCurrent == \A k \in Key : inFlight[k] # None => inFlight[k].acked = acked

ApiInv == ApiTyped /\ FlightsCurrent /\ NoJoinAcrossWrite

\* One call moves.
LEMMA CallMoves ==
    ASSUME ApiInv, NEW r \in Request, NEW rec \in CallRecord, call' = [call EXCEPT ![r] = rec],
           rec.at = "joined" => rec.joins.acked = rec.acked
    PROVE  call' \in [Request -> CallRecord] /\ NoJoinAcrossWrite'
<1>1. call \in [Request -> CallRecord]
  BY DEF ApiInv, ApiTyped
<1>2. /\ call' \in [Request -> CallRecord] /\ call'[r] = rec
      /\ \A q \in Request \ {r} : call'[q] = call[q]
  BY <1>1
<1> QED
  BY <1>2 DEF ApiInv, NoJoinAcrossWrite

\* Several do, and none of them to a fetch it shares.
LEMMA CallsMove ==
    ASSUME ApiInv, call' = [q \in Request |-> call'[q]],
           \A q \in Request : \/ call'[q] = call[q]
                              \/ call'[q] \in CallRecord /\ call'[q].at # "joined"
    PROVE  call' \in [Request -> CallRecord] /\ NoJoinAcrossWrite'
<1>1. call \in [Request -> CallRecord]
  BY DEF ApiInv, ApiTyped
<1>2. \A q \in Request : call'[q] \in CallRecord
  BY <1>1
<1>3. call' \in [Request -> CallRecord]
  BY <1>2
<1> QED
  BY <1>3 DEF ApiInv, NoJoinAcrossWrite

\* A record of which a few fields change.
LEMMA RecordMoves ==
    ASSUME NEW rec \in CallRecord,
           NEW at \in {"idle", "login", "relogin", "prepared", "fetching", "answered",
                       "joined", "returning", "done", "failed"},
           NEW s \in {"ok", "unauthorized", "error"}, NEW v \in Version \cup {NoVersion},
           NEW l \in Level
    PROVE  /\ [rec EXCEPT !.at = at, !.status = s, !.seen = v] \in CallRecord
           /\ [rec EXCEPT !.at = at, !.seen = v, !.status = s] \in CallRecord
           /\ [rec EXCEPT !.at = at, !.joins = None, !.status = s, !.seen = v] \in CallRecord
           /\ [rec EXCEPT !.at = at, !.level = l] \in CallRecord
           /\ [rec EXCEPT !.at = at, !.status = s] \in CallRecord
           /\ [rec EXCEPT !.at = at] \in CallRecord
           /\ [rec EXCEPT !.level = l] \in CallRecord
<1>1. \A new : new = [rec EXCEPT !.at = at, !.status = s, !.seen = v] => new \in CallRecord
  BY DEF CallRecord
<1>2. \A new : new = [rec EXCEPT !.at = at, !.seen = v, !.status = s] => new \in CallRecord
  BY DEF CallRecord
<1>3. \A new : new = [rec EXCEPT !.at = at, !.joins = None, !.status = s, !.seen = v] => new \in CallRecord
  BY DEF CallRecord
<1>4. \A new : new = [rec EXCEPT !.at = at, !.level = l] => new \in CallRecord
  BY DEF CallRecord
<1>5. \A new : new = [rec EXCEPT !.at = at, !.status = s] => new \in CallRecord
  BY DEF CallRecord
<1>6. \A new : new = [rec EXCEPT !.at = at] => new \in CallRecord
  BY DEF CallRecord
<1>7. \A new : new = [rec EXCEPT !.level = l] => new \in CallRecord
  BY DEF CallRecord
<1> QED
  BY <1>1, <1>2, <1>3, <1>4, <1>5, <1>6, <1>7

LEMMA RecordReaches ==
    ASSUME NEW rec \in CallRecord, NEW c \in Cookie \cup {NoCookie}, NEW n \in Nat
    PROVE  LET new == [rec EXCEPT !.cookie = c, !.acked = n]
           IN  /\ new \in CallRecord /\ new.acked = n /\ new.level = rec.level
               /\ new.method = rec.method
BY DEF CallRecord

LEMMA RecordJoins ==
    ASSUME NEW rec \in CallRecord, NEW p \in Promise
    PROVE  LET new == [rec EXCEPT !.at = "joined", !.joins = p]
           IN  new \in CallRecord /\ new.joins = p /\ new.acked = rec.acked
BY DEF CallRecord

LEMMA RecordLeads ==
    ASSUME NEW rec \in CallRecord, NEW k \in Key, NEW l \in Level
    PROVE  LET new == [rec EXCEPT !.at = "fetching", !.leads[l] = k]
           IN  new \in CallRecord /\ new.at = "fetching"
<1>1. PICK ls : ls = [rec.leads EXCEPT ![l] = k]
  OBVIOUS
<1>2. ls \in [Level -> Key \cup {NoKey}]
  BY <1>1 DEF CallRecord
<1>3. PICK new : new = [rec EXCEPT !.at = "fetching", !.leads = ls]
  OBVIOUS
<1>4. new \in CallRecord /\ new.at = "fetching"
  BY <1>2, <1>3 DEF CallRecord
<1>5. [rec EXCEPT !.at = "fetching", !.leads[l] = k] = new
  BY <1>1, <1>3 DEF CallRecord
<1> QED
  BY <1>4, <1>5

LEMMA IdleIsRecord == Idle \in CallRecord /\ Idle.at = "idle"
<1>1. PICK ls : ls = [l \in Level |-> NoKey]
  OBVIOUS
<1>2. ls \in [Level -> Key \cup {NoKey}]
  BY <1>1
<1>3. NoVersion \in Nat /\ NoCookie \in Cookie \cup {NoCookie} /\ 0 \in Level /\ 0 \in Nat
  BY DEF NoVersion, NoCookie, Level
<1> QED
  BY <1>1, <1>2, <1>3 DEF Idle, CallRecord

LEMMA ApiInit == Init => ApiInv
<1> SUFFICES ASSUME Init PROVE ApiInv
  OBVIOUS
<1>1. /\ call = [r \in Request |-> Idle] /\ store = [k \in Key |-> NoVersion]
      /\ inFlight = [k \in Key |-> None]
  BY DEF Init
<1>2. call \in [Request -> CallRecord] /\ \A r \in Request : call[r].at = "idle"
  BY <1>1, IdleIsRecord
<1>3. version \in Version /\ issued \in 0 .. MaxChanges /\ acked \in Nat /\ jar \in Cookie \cup {NoCookie}
  BY ConstantsAssumption DEF Init, Version
<1> QED
  BY <1>1, <1>2, <1>3 DEF ApiInv, ApiTyped, FlightsCurrent, NoJoinAcrossWrite

\* A failed call is one that is on its way back.
LEMMA FailsMoves == ASSUME NEW rec \in CallRecord PROVE Fails(rec) \in CallRecord /\ Fails(rec).at = "returning"
<1>1. \A new : new = [rec EXCEPT !.at = "returning", !.status = "error"] => new \in CallRecord /\ new.at = "returning"
  BY DEF CallRecord
<1> QED
  BY <1>1 DEF Fails

LEMMA StartKeeps == ASSUME ApiInv, NEW r \in Request, NEW m, Start(r, m) PROVE ApiInv'
<1>1. PICK rec : rec = [Idle EXCEPT !.at = "prepared", !.method = m, !.floor = acked]
  OBVIOUS
<1>2. PICK i : i = Idle
  OBVIOUS
<1>3. i \in CallRecord /\ m \in {"read", "write"} /\ acked \in Nat
  BY <1>2, IdleIsRecord, ConstantsAssumption DEF Start, ApiInv, ApiTyped
<1>4. \A n \in Nat : \A new : new = [i EXCEPT !.at = "prepared", !.method = m, !.floor = n]
                                => new \in CallRecord /\ new.at = "prepared"
  BY <1>3 DEF CallRecord
<1>5. rec \in CallRecord /\ rec.at = "prepared"
  BY <1>1, <1>2, <1>3, <1>4
<1>6. PICK waits : waits = [rec EXCEPT !.at = "login"]
  OBVIOUS
<1>7. waits \in CallRecord /\ waits.at = "login"
  BY <1>5, <1>6 DEF CallRecord
<1>8. Fails(rec) \in CallRecord /\ Fails(rec).at = "returning"
  BY <1>5, FailsMoves
<1>9. Becomes(r, rec) \/ Becomes(r, waits) \/ Becomes(r, Fails(rec))
  BY <1>1, <1>6 DEF Start, EnsureLoggedIn
<1>10. PICK new \in CallRecord : call' = [call EXCEPT ![r] = new] /\ new.at # "joined"
  BY <1>5, <1>7, <1>8, <1>9 DEF Becomes
<1>11. call' \in [Request -> CallRecord] /\ NoJoinAcrossWrite'
  BY <1>10, CallMoves
<1>12. UNCHANGED <<api, jar, blocked, cache>>
  BY DEF Start
<1> QED
  BY <1>11, <1>12 DEF ApiInv, ApiTyped, FlightsCurrent, api, cache

LEMMA LoginKeeps ==
    ASSUME ApiInv, LoggedIn \/ LoginFails \/ BackoffEnds \/ CookieExpires PROVE ApiInv'
<1>1. CASE LoggedIn
  <2>1. \A q \in Request :
           \/ call'[q] = call[q]
           \/ \E l \in Level : call'[q] = [call[q] EXCEPT !.at = "prepared", !.level = l]
    BY <1>1 DEF LoggedIn, Level
  <2>2. ASSUME NEW q \in Request
        PROVE  call'[q] = call[q] \/ (call'[q] \in CallRecord /\ call'[q].at # "joined")
    <3>1. PICK c : c = call[q]
      OBVIOUS
    <3>2. c \in CallRecord
      BY <3>1 DEF ApiInv, ApiTyped
    <3>3. \A l \in Level : \A new : new = [c EXCEPT !.at = "prepared", !.level = l]
                                      => new \in CallRecord /\ new.at = "prepared"
      BY <3>2 DEF CallRecord
    <3> QED
      BY <2>1, <3>1, <3>3
  <2>3. call' = [q \in Request |-> call'[q]]
    BY <1>1 DEF LoggedIn
  <2>4. call' \in [Request -> CallRecord] /\ NoJoinAcrossWrite'
    BY <2>2, <2>3, CallsMove
  <2>5. /\ issued' = issued + 1 /\ jar' = issued' /\ issued + version <= MaxChanges
        /\ UNCHANGED <<version, cache>>
    BY <1>1 DEF LoggedIn, MayChange
  <2>6. issued \in Nat /\ version \in Nat /\ version >= 1 /\ issued <= MaxChanges /\ MaxChanges \in Nat
    BY ConstantsAssumption DEF ApiInv, ApiTyped, Version
  <2>7. issued' \in 0 .. MaxChanges /\ issued' \in Cookie
    BY <2>5, <2>6 DEF Cookie
  <2> QED
    BY <2>4, <2>5, <2>7 DEF ApiInv, ApiTyped, FlightsCurrent, cache
<1>2. CASE LoginFails
  <2>1. ASSUME NEW q \in Request
        PROVE  call'[q] = call[q] \/ (call'[q] \in CallRecord /\ call'[q].at # "joined")
    <3>1. call'[q] = call[q] \/ call'[q] = Fails(call[q])
      BY <1>2 DEF LoginFails
    <3>2. PICK c : c = call[q]
      OBVIOUS
    <3>3. c \in CallRecord
      BY <3>2 DEF ApiInv, ApiTyped
    <3>4. Fails(c) \in CallRecord /\ Fails(c).at = "returning"
      BY <3>3, FailsMoves
    <3> QED
      BY <3>1, <3>2, <3>4
  <2>2. call' = [q \in Request |-> call'[q]]
    BY <1>2 DEF LoginFails
  <2>3. call' \in [Request -> CallRecord] /\ NoJoinAcrossWrite'
    BY <2>1, <2>2, CallsMove
  <2>4. UNCHANGED <<api, jar, cache>>
    BY <1>2 DEF LoginFails
  <2> QED
    BY <2>3, <2>4 DEF ApiInv, ApiTyped, FlightsCurrent, api, cache
<1>3. CASE BackoffEnds \/ CookieExpires
  <2>1. UNCHANGED <<api, cache, call>> /\ jar' \in {jar, NoCookie}
    BY <1>3 DEF BackoffEnds, CookieExpires
  <2> QED
    BY <2>1 DEF ApiInv, ApiTyped, FlightsCurrent, NoJoinAcrossWrite, api, cache
<1> QED
  BY <1>1, <1>2, <1>3

\* A read joins only what was sent since the last write, and leads under that mark.
LEMMA ReachKeeps == ASSUME ApiInv, NEW r \in Request, ReachCache(r) PROVE ApiInv'
<1>1. PICK k : k = CacheKey(jar)
  OBVIOUS
<1>2. PICK old : old = call[r]
  OBVIOUS
<1>3. PICK n : n = acked
  OBVIOUS
<1>4. PICK c : c = jar
  OBVIOUS
<1>5. /\ old \in CallRecord /\ n \in Nat /\ c \in Cookie \cup {NoCookie} /\ k \in Key
  BY <1>1, <1>2, <1>3, <1>4 DEF ApiInv, ApiTyped, CacheKey, Key, NoCookie
<1>6. PICK rec : rec = [old EXCEPT !.cookie = c, !.acked = n]
  OBVIOUS
<1>7. rec \in CallRecord /\ rec.acked = n
  BY <1>5, <1>6, RecordReaches
<1>8. rec.level \in Level
  BY <1>7 DEF CallRecord
<1>9. /\ UNCHANGED <<api, auth, store, acked>>
      /\ \/ Becomes(r, [rec EXCEPT !.at = "fetching"]) /\ UNCHANGED inFlight
         \/ /\ Becomes(r, [rec EXCEPT !.at = "returning", !.seen = store[k], !.status = "ok"])
            /\ UNCHANGED inFlight
         \/ /\ Sharable(inFlight[k]) /\ Becomes(r, [rec EXCEPT !.at = "joined", !.joins = inFlight[k]])
            /\ UNCHANGED inFlight
         \/ /\ Becomes(r, [rec EXCEPT !.at = "fetching", !.leads[rec.level] = k])
            /\ inFlight' = [inFlight EXCEPT ![k] = [by |-> r, level |-> rec.level, acked |-> n]]
  BY <1>1, <1>2, <1>3, <1>4, <1>6 DEF ReachCache
<1>10. ASSUME NEW new \in CallRecord, call' = [call EXCEPT ![r] = new],
              new.at = "joined" => new.joins.acked = new.acked,
              inFlight' \in [Key -> Promise \cup {None}], FlightsCurrent'
       PROVE  ApiInv'
  <2>1. call' \in [Request -> CallRecord] /\ NoJoinAcrossWrite'
    BY <1>10, CallMoves
  <2> QED
    BY <1>9, <1>10, <2>1 DEF ApiInv, ApiTyped, api, auth
<1>11. UNCHANGED inFlight => inFlight' \in [Key -> Promise \cup {None}] /\ FlightsCurrent'
  BY <1>9 DEF ApiInv, ApiTyped, FlightsCurrent
<1>12. CASE Becomes(r, [rec EXCEPT !.at = "fetching"]) /\ UNCHANGED inFlight
  <2>1. PICK new : new = [rec EXCEPT !.at = "fetching"]
    OBVIOUS
  <2>2. new \in CallRecord /\ new.at = "fetching"
    BY <1>7, <2>1 DEF CallRecord
  <2> QED
    BY <1>10, <1>11, <1>12, <2>1, <2>2 DEF Becomes
<1>13. CASE /\ Becomes(r, [rec EXCEPT !.at = "returning", !.seen = store[k], !.status = "ok"])
            /\ UNCHANGED inFlight
  <2>1. PICK v : v = store[k]
    OBVIOUS
  <2>2. PICK new : new = [rec EXCEPT !.at = "returning", !.seen = v, !.status = "ok"]
    OBVIOUS
  <2>3. v \in Version \cup {NoVersion}
    BY <1>5, <2>1 DEF ApiInv, ApiTyped
  <2>4. new \in CallRecord /\ new.at = "returning"
    BY <1>7, <2>2, <2>3 DEF CallRecord
  <2> QED
    BY <1>10, <1>11, <1>13, <2>1, <2>2, <2>4 DEF Becomes
<1>14. CASE /\ Sharable(inFlight[k]) /\ Becomes(r, [rec EXCEPT !.at = "joined", !.joins = inFlight[k]])
            /\ UNCHANGED inFlight
  <2>1. PICK p : p = inFlight[k]
    OBVIOUS
  <2>2. p \in Promise /\ p.acked = n
    BY <1>3, <1>5, <1>14, <2>1 DEF Sharable, ApiInv, ApiTyped, FlightsCurrent
  <2>3. PICK new : new = [rec EXCEPT !.at = "joined", !.joins = p]
    OBVIOUS
  <2>4. new \in CallRecord /\ new.joins = p /\ new.acked = n
    BY <1>7, <2>2, <2>3, RecordJoins
  <2> QED
    BY <1>10, <1>11, <1>14, <2>1, <2>2, <2>3, <2>4 DEF Becomes
<1>15. CASE /\ Becomes(r, [rec EXCEPT !.at = "fetching", !.leads[rec.level] = k])
            /\ inFlight' = [inFlight EXCEPT ![k] = [by |-> r, level |-> rec.level, acked |-> n]]
  <2>1. PICK l : l = rec.level
    OBVIOUS
  <2>2. PICK new : new = [rec EXCEPT !.at = "fetching", !.leads[l] = k]
    OBVIOUS
  <2>3. new \in CallRecord /\ new.at = "fetching"
    BY <1>5, <1>7, <1>8, <2>1, <2>2, RecordLeads
  <2>4. PICK p : p = [by |-> r, level |-> l, acked |-> n]
    OBVIOUS
  <2>5. p \in Promise /\ p.acked = n
    BY <1>5, <1>8, <2>1, <2>4 DEF Promise
  <2>6. inFlight' = [inFlight EXCEPT ![k] = p] /\ acked' = n
    BY <1>3, <1>9, <1>15, <2>1, <2>4
  <2>7. inFlight' \in [Key -> Promise \cup {None}] /\ FlightsCurrent'
    BY <1>3, <1>5, <2>5, <2>6 DEF ApiInv, ApiTyped, FlightsCurrent
  <2> QED
    BY <1>10, <1>15, <2>1, <2>2, <2>3, <2>7 DEF Becomes
<1> QED
  BY <1>9, <1>12, <1>13, <1>14, <1>15

\* A write that succeeded leaves nothing in flight, so the mark may move.
LEMMA ReturnKeeps == ASSUME ApiInv, NEW r \in Request, Return(r) PROVE ApiInv'
<1>1. PICK rec : rec = call[r]
  OBVIOUS
<1>2. rec \in CallRecord /\ rec.at = "returning"
  BY <1>1 DEF Return, ApiInv, ApiTyped
<1>3. /\ rec.level \in Level /\ rec.status \in {"ok", "unauthorized", "error"}
      /\ rec.seen \in Version \cup {NoVersion} /\ rec.leads \in [Level -> Key \cup {NoKey}]
  BY <1>2 DEF CallRecord
<1>4. ASSUME NEW q \in Request
      PROVE  call'[q] = call[q] \/ (call'[q] \in CallRecord /\ call'[q].at # "joined")
  <2>1. PICK old : old = call[q]
    OBVIOUS
  <2>2. old \in CallRecord
    BY <2>1 DEF ApiInv, ApiTyped
  <2>3. \A new : new = [old EXCEPT !.at = "returning", !.joins = None, !.status = rec.status,
                                   !.seen = rec.seen]
                 => new \in CallRecord /\ new.at = "returning"
    BY <1>3, <2>2 DEF CallRecord
  <2>4. \A new : new = [rec EXCEPT !.level = 0] => new \in CallRecord /\ new.at = "returning"
    BY <1>2 DEF CallRecord, Level
  <2>5. \A s \in {"done", "failed"} : \A new :
           new = [rec EXCEPT !.at = s] => new \in CallRecord /\ new.at = s
    BY <1>2 DEF CallRecord
  <2>6. \/ call'[q] = call[q]
        \/ call'[q] = [old EXCEPT !.at = "returning", !.joins = None, !.status = rec.status,
                                  !.seen = rec.seen]
        \/ call'[q] = [rec EXCEPT !.level = 0]
        \/ \E s \in {"done", "failed"} : call'[q] = [rec EXCEPT !.at = s]
    BY <1>1, <2>1 DEF Return, Settled
  <2> QED
    BY <2>3, <2>4, <2>5, <2>6
<1>5. call' = [q \in Request |-> call'[q]]
  BY DEF Return, Settled
<1>6. call' \in [Request -> CallRecord] /\ NoJoinAcrossWrite'
  BY <1>4, <1>5, CallsMove
<1>7. UNCHANGED <<api, auth>>
  BY DEF Return
<1>8. /\ acked' \in Nat /\ store' \in [Key -> Version \cup {NoVersion}]
      /\ inFlight' \in [Key -> Promise \cup {None}] /\ FlightsCurrent'
  <2>0. /\ acked \in Nat /\ store \in [Key -> Version \cup {NoVersion}]
        /\ inFlight \in [Key -> Promise \cup {None}] /\ FlightsCurrent
    BY DEF ApiInv, ApiTyped
  <2>1. CASE /\ store' = [j \in Key |-> NoVersion] /\ Cleared
             /\ acked' = IF rec.seen > acked THEN rec.seen ELSE acked
    <3>1. rec.seen \in Nat
      BY <1>3 DEF Version, NoVersion
    <3>2. acked' \in Nat
      BY <2>0, <2>1, <3>1
    <3>3. inFlight' = [k \in Key |-> None] /\ store' = [j \in Key |-> NoVersion]
      BY <2>1 DEF Cleared
    <3> QED
      BY <3>2, <3>3 DEF FlightsCurrent
  <2>2. CASE \E k \in Key : /\ store' \in {store, [store EXCEPT ![k] = rec.seen]}
                            /\ inFlight' = Landed(r, k) /\ UNCHANGED acked
    BY <1>3, <2>0, <2>2 DEF Landed, FlightsCurrent
  <2>3. CASE UNCHANGED cache
    BY <2>0, <2>3 DEF cache, FlightsCurrent
  <2>4. PICK k : k = rec.leads[rec.level]
    OBVIOUS
  <2>5. k \in Key \cup {NoKey}
    BY <1>3, <2>4
  <2> QED
    BY <1>1, <2>1, <2>2, <2>3, <2>4, <2>5 DEF Return
<1> QED
  BY <1>6, <1>7, <1>8 DEF ApiInv, ApiTyped, api, auth

LEMMA OthersKeep ==
    ASSUME ApiInv, NEW r \in Request,
           \/ ExpiredBeforeRequest(r) \/ Handled(r) \/ FetchFails(r) \/ Response(r) \/ Reported(r)
    PROVE  ApiInv'
<1>1. PICK rec : rec = call[r]
  OBVIOUS
<1>2. rec \in CallRecord
  BY <1>1 DEF ApiInv, ApiTyped
<1>3. /\ UNCHANGED cache /\ issued' = issued /\ version' \in Version /\ jar' \in Cookie \cup {NoCookie}
  <2>1. issued \in Nat /\ version \in Version /\ MaxChanges \in Nat /\ jar \in Cookie \cup {NoCookie}
    BY ConstantsAssumption DEF ApiInv, ApiTyped
  <2>2. CASE Handled(r)
    <3>1. UNCHANGED <<issued, jar, cache>> /\ (version' = version \/ (MayChange /\ version' = version + 1))
      BY <2>2 DEF Handled, auth
    <3> QED
      BY <2>1, <3>1 DEF MayChange, Version
  <2>3. CASE ExpiredBeforeRequest(r) \/ FetchFails(r) \/ Response(r) \/ Reported(r)
    BY <2>1, <2>3 DEF ExpiredBeforeRequest, FetchFails, Response, Reported, api, auth
  <2> QED
    BY <2>2, <2>3
<1>4. \A v \in Version \cup {NoVersion}, s \in {"ok", "unauthorized", "error"} : \A new :
         \/ new = [rec EXCEPT !.at = "answered", !.status = s]
         \/ new = [rec EXCEPT !.at = "answered", !.status = s, !.seen = v]
         => new \in CallRecord /\ new.at = "answered"
  BY <1>2 DEF CallRecord
<1>5. \A s \in {"ok", "unauthorized", "error"} : \A new :
         new = [rec EXCEPT !.at = "returning", !.status = s] => new \in CallRecord /\ new.at = "returning"
  BY <1>2 DEF CallRecord
<1>6. \A new : new = [rec EXCEPT !.at = "relogin"] => new \in CallRecord /\ new.at = "relogin"
  BY <1>2 DEF CallRecord
<1>7. PICK new \in CallRecord : call' = [call EXCEPT ![r] = new] /\ new.at # "joined"
  <2>1. CASE Handled(r)
    <3>1. \/ Becomes(r, [rec EXCEPT !.at = "answered", !.status = "unauthorized"])
          \/ Becomes(r, [rec EXCEPT !.at = "answered", !.status = "ok", !.seen = version])
          \/ Becomes(r, [rec EXCEPT !.at = "answered", !.status = "ok", !.seen = version'])
      BY <1>1, <2>1 DEF Handled
    <3>2. PICK v, w : v = version /\ w = version'
      OBVIOUS
    <3>3. v \in Version \cup {NoVersion} /\ w \in Version \cup {NoVersion}
      BY <1>3, <3>2 DEF ApiInv, ApiTyped
    <3>4. PICK n : /\ Becomes(r, n)
                   /\ \/ n = [rec EXCEPT !.at = "answered", !.status = "unauthorized"]
                      \/ n = [rec EXCEPT !.at = "answered", !.status = "ok", !.seen = v]
                      \/ n = [rec EXCEPT !.at = "answered", !.status = "ok", !.seen = w]
      BY <3>1, <3>2
    <3>5. n \in CallRecord /\ n.at = "answered"
      BY <1>4, <3>3, <3>4
    <3> QED
      BY <3>4, <3>5 DEF Becomes
  <2>2. CASE ExpiredBeforeRequest(r) \/ FetchFails(r)
    <3>1. PICK n : n = [rec EXCEPT !.at = "returning", !.status = "error"]
      OBVIOUS
    <3>2. n \in CallRecord /\ n.at = "returning"
      BY <1>5, <3>1
    <3>3. Becomes(r, n)
      BY <1>1, <2>2, <3>1 DEF ExpiredBeforeRequest, FetchFails, Fails
    <3> QED
      BY <3>2, <3>3 DEF Becomes
  <2>3. CASE Response(r)
    <3>1. PICK n : /\ Becomes(r, n)
                   /\ \/ n = [rec EXCEPT !.at = "relogin"] \/ n = Fails(rec)
                      \/ n = [rec EXCEPT !.at = "returning", !.status = IF @ = "ok" THEN "ok" ELSE "error"]
      BY <1>1, <2>3 DEF Response, EnsureLoggedIn
    <3>2. PICK s \in {"ok", "error"} : s = IF rec.status = "ok" THEN "ok" ELSE "error"
      OBVIOUS
    <3>3. \/ n = [rec EXCEPT !.at = "relogin"]
          \/ n = [rec EXCEPT !.at = "returning", !.status = "error"]
          \/ n = [rec EXCEPT !.at = "returning", !.status = s]
      BY <1>2, <3>1, <3>2 DEF Fails, CallRecord
    <3>4. n \in CallRecord /\ n.at # "joined"
      BY <1>5, <1>6, <3>3
    <3> QED
      BY <3>1, <3>4 DEF Becomes
  <2>4. CASE Reported(r)
    BY <2>4, IdleIsRecord DEF Reported, Becomes
  <2> QED
    BY <2>1, <2>2, <2>3, <2>4
<1>8. call' \in [Request -> CallRecord] /\ NoJoinAcrossWrite'
  BY <1>7, CallMoves
<1> QED
  BY <1>3, <1>8 DEF ApiInv, ApiTyped, FlightsCurrent, cache

LEMMA ApiStep == ApiInv /\ [Next]_vars => ApiInv'
<1> SUFFICES ASSUME ApiInv, [Next]_vars PROVE ApiInv'
  OBVIOUS
<1>1. ASSUME NEW k \in Key, Evict(k) PROVE ApiInv'
  <2>1. /\ store' = [store EXCEPT ![k] = NoVersion] /\ UNCHANGED <<api, auth, inFlight, acked, call>>
    BY <1>1 DEF Evict
  <2>2. store' \in [Key -> Version \cup {NoVersion}]
    BY <1>1, <2>1 DEF ApiInv, ApiTyped
  <2> QED
    BY <2>1, <2>2 DEF ApiInv, ApiTyped, FlightsCurrent, NoJoinAcrossWrite, api, auth
<1>2. ASSUME NEW c \in Cookie, Revoke(c) PROVE ApiInv'
  BY <1>2 DEF Revoke, ApiInv, ApiTyped, FlightsCurrent, NoJoinAcrossWrite, auth, cache
<1>3. CASE UNCHANGED vars
  BY <1>3 DEF vars, ApiInv, ApiTyped, FlightsCurrent, NoJoinAcrossWrite
<1> QED
  BY <1>1, <1>2, <1>3, StartKeeps, LoginKeeps, ReachKeeps, ReturnKeeps, OthersKeep
     DEF Next, RunsOn, Fetched

\* A read that begins after a write was answered never shares a fetch that was
\* sent before it (invalidateAfterUnsafeMutation of ResponseCacheInterceptor).
THEOREM NoReadJoinsAcrossWrite == Spec => []NoJoinAcrossWrite
<1>1. ApiInv => NoJoinAcrossWrite
  BY DEF ApiInv
<1> QED
  BY <1>1, ApiInit, ApiStep, PTL DEF Spec

-----------------------------------------------------------------------------
(* What is served, and how fresh it is *)

\* The fields of a reading and of what is kept, whatever they hold.
IsReading(x) ==
    x = [ at |-> x.at, url |-> x.url, writes |-> x.writes, cond |-> x.cond, by |-> x.by,
          floor |-> x.floor, status |-> x.status, version |-> x.version, head |-> x.head,
          from |-> x.from ]
IsKept(e) == e = [version |-> e.version, head |-> e.head, ttl |-> e.ttl, age |-> e.age]

\* What is kept may be kept, and for the life its headers state.
KeptRight(e) ==
    /\ IsKept(e) /\ e.head \in Heads /\ Cacheable("ok", e.head)
    /\ e.ttl = Retention(e.head) /\ e.age \in Int /\ e.version \in Int
ShelfRight == \A u \in Url : shelf[u] # Nothing => KeptRight(shelf[u])

\* Under way with a fetch, and what came of it: a version of the time of the
\* fetch or later, which a 304 says is the one it had.
Away(x) == x.at \in {"sent", "answered"}
ReadingRight(x) ==
    /\ IsReading(x)
    /\ x.floor \in Int /\ x.version \in Int
    /\ Away(x) => x.from = Nothing /\ x.url \in Url /\ x.floor <= content[x.url]
    /\ x.at = "answered" =>
          /\ x.head \in Heads
          /\ x.status # "error" => x.version >= x.floor
          /\ x.status = "same" => x.cond.version = x.version

\* Who leads a fetch is under way with it, and so is he whom others wait for.
Leads(x) == Away(x) /\ ~x.writes /\ UsesCache
LeadersRight ==
    \A u \in Url : leader[u] # Nothing =>
        leader[u] \in Reading /\ Leads(reading[leader[u]]) /\ reading[leader[u]].url = u
JoinedRight ==
    \A q \in Reading : reading[q].at = "joined" =>
        /\ reading[q].by \in Reading /\ Leads(reading[reading[q].by])
        /\ reading[q].floor = reading[reading[q].by].floor

FreshInv ==
    /\ policy \in Policies /\ content \in [Url -> Int]
    /\ DOMAIN shelf = Url /\ DOMAIN leader = Url /\ DOMAIN reading = Reading
    /\ ShelfRight /\ LeadersRight /\ JoinedRight
    /\ \A r \in Reading : ReadingRight(reading[r])
    /\ AnswersFresh

\* What a reading shows that is done.
Served(x) ==
    x.at = "done" /\ x.status = "ok" =>
        IF x.from # Nothing
        THEN /\ x.from.age < Life(x.head)
             /\ ~x.head.noStore /\ ~x.head.noCache /\ MayBeShared(x.head)
        ELSE x.version >= x.floor

\* One reading moves, and nobody waits for it.
LEMMA ReadingMoves ==
    ASSUME FreshInv, NEW r \in Reading, NEW x, Goes(r, x), policy' = policy,
           content' \in [Url -> Int], \A u \in Url : content'[u] >= content[u],
           ReadingRight(x)', Served(x),
           x.at = "joined" => /\ x.by \in Reading /\ x.by # r /\ Leads(reading[x.by])
                              /\ x.floor = reading[x.by].floor,
           Leads(reading[r]) => Leads(x) /\ x.url = reading[r].url /\ x.floor = reading[r].floor
    PROVE  /\ DOMAIN reading' = Reading /\ JoinedRight' /\ AnswersFresh'
           /\ \A q \in Reading : ReadingRight(reading[q])'
           /\ reading'[r] = x /\ \A q \in Reading \ {r} : reading'[q] = reading[q]
           /\ leader' = leader => LeadersRight'
<1>1. DOMAIN reading = Reading
  BY DEF FreshInv
<1>2. DOMAIN reading' = Reading /\ reading'[r] = x /\ \A q \in Reading \ {r} : reading'[q] = reading[q]
  BY <1>1 DEF Goes
<1>3. ASSUME NEW q \in Reading PROVE ReadingRight(reading[q])'
  <2>1. CASE q = r
    BY <1>2, <2>1 DEF ReadingRight
  <2>2. CASE q # r
    <3>1. reading'[q] = reading[q] /\ ReadingRight(reading[q]) /\ content \in [Url -> Int]
      BY <1>2, <2>2 DEF FreshInv
    <3> QED
      BY <3>1 DEF ReadingRight, Away
  <2> QED
    BY <2>1, <2>2
<1>4. JoinedRight'
  <2> SUFFICES ASSUME NEW q \in Reading, reading'[q].at = "joined"
               PROVE  /\ reading'[q].by \in Reading /\ Leads(reading'[reading'[q].by])
                      /\ reading'[q].floor = reading'[reading'[q].by].floor
    BY DEF JoinedRight, Leads, UsesCache, Public, HasCredentials, Away
  <2>1. CASE q = r
    BY <1>2, <2>1
  <2>2. CASE q # r
    <3>1. reading'[q] = reading[q]
      BY <1>2, <2>2
    <3>2. PICK p : p = reading[q].by
      OBVIOUS
    <3>3. p \in Reading /\ Leads(reading[p]) /\ reading[q].floor = reading[p].floor
      BY <3>1, <3>2 DEF FreshInv, JoinedRight
    <3>4. CASE p = r
      BY <1>2, <3>1, <3>2, <3>3, <3>4
    <3>5. CASE p # r
      BY <1>2, <3>1, <3>2, <3>3, <3>5
    <3> QED
      BY <3>4, <3>5
  <2> QED
    BY <2>1, <2>2
<1>5. AnswersFresh'
  <2> SUFFICES ASSUME NEW q \in Reading PROVE Served(reading'[q])
    BY DEF AnswersFresh, Served, Life, MayBeShared, Public
  <2>1. CASE q = r
    BY <1>2, <2>1
  <2>2. CASE q # r
    BY <1>2, <2>2 DEF FreshInv, AnswersFresh, Served
  <2> QED
    BY <2>1, <2>2
<1>6. ASSUME leader' = leader PROVE LeadersRight'
  <2> SUFFICES ASSUME NEW u \in Url, leader[u] # Nothing
               PROVE  leader[u] \in Reading /\ Leads(reading'[leader[u]]) /\ reading'[leader[u]].url = u
    BY <1>6 DEF LeadersRight, Leads, UsesCache, Public, HasCredentials, Away
  <2>1. PICK p : p = leader[u]
    OBVIOUS
  <2>2. p \in Reading /\ Leads(reading[p]) /\ reading[p].url = u
    BY <2>1 DEF FreshInv, LeadersRight
  <2>3. CASE p = r
    BY <1>2, <2>1, <2>2, <2>3
  <2>4. CASE p # r
    BY <1>2, <2>1, <2>2, <2>4
  <2> QED
    BY <2>3, <2>4
<1> QED
  BY <1>2, <1>3, <1>4, <1>5, <1>6

\* A life that is told is a number, and is what a response without no-cache is kept for.
LEMMA LifeIsNumber ==
    ASSUME policy \in Policies, NEW h \in Heads, Cacheable("ok", h)
    PROVE  Life(h) \in Int /\ (~h.noCache => Retention(h) = Life(h))
<1>1. policy.ttl \in Int /\ h \in Headers
  BY FreshnessAssumption DEF Settings
<1>2. h.shared \in Lives /\ h.own \in Lives /\ h.expires \in Lives
  BY <1>1 DEF Headers
<1>3. Life(h) # Garbled
  BY DEF Cacheable
<1>4. Life(h) \in Int
  BY <1>1, <1>2, <1>3 DEF Life, Lives
<1>5. ~h.noCache => Life(h) > 0
  BY DEF Cacheable
<1> QED
  BY <1>4, <1>5 DEF Retention

LEMMA RestingIs == IsReading(Resting) /\ Resting.at = "resting" /\ Resting.from = Nothing
  BY DEF IsReading, Resting

LEMMA ServeKeeps ==
    ASSUME FreshInv, NEW r \in Reading, NEW u \in Url, reading[r].at \in {"resting", "done"},
           ServeKept(r, u), UNCHANGED <<policy, content>>
    PROVE  FreshInv'
<1>1. PICK e : e = Found(u)
  OBVIOUS
<1>2. PICK x : x = [Resting EXCEPT !.at = "done", !.url = u, !.from = e,
                                   !.version = e.version, !.head = e.head]
  OBVIOUS
<1>3. e # Nothing /\ ~MustRevalidate(e) /\ Goes(r, x) /\ UNCHANGED <<shelf, leader>>
  BY <1>1, <1>2 DEF ServeKept
<1>4. e = shelf[u] /\ ~IsOver(e) /\ KeptRight(e)
  BY <1>1, <1>3 DEF Found, FreshInv, ShelfRight
<1>5. /\ Life(e.head) \in Int /\ e.ttl = Life(e.head) /\ ~e.head.noCache
      /\ ~e.head.noStore /\ MayBeShared(e.head) /\ e.age \in Int
  BY <1>3, <1>4, LifeIsNumber DEF KeptRight, MustRevalidate, Cacheable, FreshInv
<1>6. e.age < Life(e.head)
  BY <1>4, <1>5 DEF IsOver
<1>7. /\ IsReading(x) /\ x.at = "done" /\ x.from = e /\ x.head = e.head /\ x.version = e.version
      /\ x.floor = 0
  BY <1>2 DEF Resting, IsReading
<1>8. Served(x)
  BY <1>3, <1>5, <1>6, <1>7 DEF Served
<1>9. ReadingRight(x)'
  BY <1>4, <1>7 DEF ReadingRight, Away, KeptRight
<1>10. content' \in [Url -> Int] /\ \A w \in Url : content'[w] >= content[w]
  BY DEF FreshInv
<1>11. /\ DOMAIN reading' = Reading /\ JoinedRight' /\ AnswersFresh' /\ LeadersRight'
       /\ \A q \in Reading : ReadingRight(reading[q])'
  <2>1. ~Leads(reading[r]) /\ x.at # "joined"
    BY <1>7 DEF Leads, Away
  <2> QED
    BY <1>3, <1>8, <1>9, <1>10, <2>1, ReadingMoves
<1>12. ShelfRight'
  BY <1>3 DEF FreshInv, ShelfRight, KeptRight, Cacheable, MayBeShared, Public, Life, Retention
<1> QED
  BY <1>3, <1>10, <1>11, <1>12 DEF FreshInv

\* The shelf with an entry put back, or an expired one removed.
LEMMA ShelfFound ==
    ASSUME FreshInv, NEW u \in Url, shelf' = [shelf EXCEPT ![u] = Found(u)], policy' = policy
    PROVE  DOMAIN shelf' = Url /\ ShelfRight'
<1>1. \A w \in Url : shelf'[w] = shelf[w] \/ shelf'[w] = Nothing
  BY DEF FreshInv, Found
<1> QED
  BY <1>1 DEF FreshInv, ShelfRight, KeptRight, Cacheable, MayBeShared, Public, Life, Retention

LEMMA JoinKeeps ==
    ASSUME FreshInv, NEW r \in Reading, NEW u \in Url, reading[r].at \in {"resting", "done"},
           JoinFetch(r, u), UNCHANGED <<policy, content>>
    PROVE  FreshInv'
<1>1. PICK p : p = leader[u]
  OBVIOUS
<1>2. PICK n : n = reading[p].floor
  OBVIOUS
<1>3. PICK x : x = [Resting EXCEPT !.at = "joined", !.url = u, !.by = p, !.floor = n]
  OBVIOUS
<1>4. /\ p # Nothing /\ Goes(r, x) /\ shelf' = [shelf EXCEPT ![u] = Found(u)]
      /\ UNCHANGED leader
  BY <1>1, <1>2, <1>3 DEF JoinFetch
<1>5. p \in Reading /\ Leads(reading[p]) /\ n \in Int
  BY <1>1, <1>2, <1>4 DEF FreshInv, LeadersRight, ReadingRight
<1>6. /\ IsReading(x) /\ x.at = "joined" /\ x.by = p /\ x.floor = n /\ x.from = Nothing
      /\ x.version = 0
  BY <1>3 DEF Resting, IsReading
<1>7. ~Leads(reading[r]) /\ p # r
  BY <1>5 DEF Leads, Away
<1>8. ReadingRight(x)' /\ Served(x)
  BY <1>5, <1>6 DEF ReadingRight, Away, Served
<1>9. content' \in [Url -> Int] /\ \A w \in Url : content'[w] >= content[w]
  BY DEF FreshInv
<1>10. /\ DOMAIN reading' = Reading /\ JoinedRight' /\ AnswersFresh' /\ LeadersRight'
       /\ \A q \in Reading : ReadingRight(reading[q])'
  BY <1>2, <1>4, <1>5, <1>6, <1>7, <1>8, <1>9, ReadingMoves
<1> QED
  BY <1>4, <1>9, <1>10, ShelfFound DEF FreshInv

\* A fetch begins, led or alone.
LEMMA FetchKeeps ==
    ASSUME FreshInv, NEW r \in Reading, NEW u \in Url, reading[r].at \in {"resting", "done"},
           (UsesCache /\ LeadFetch(r, u)) \/ \E writes \in BOOLEAN : PassBy(r, u, writes),
           UNCHANGED <<policy, content>>
    PROVE  FreshInv'
<1>1. PICK n : n = content[u]
  OBVIOUS
<1>2. n \in Int /\ content' \in [Url -> Int] /\ \A w \in Url : content'[w] >= content[w]
  BY <1>1 DEF FreshInv
<1>3. ~Leads(reading[r]) /\ \A w \in Url : leader[w] # r \/ leader[w] = Nothing
  BY DEF Leads, Away, FreshInv, LeadersRight
<1>4. ASSUME NEW x, Goes(r, x), IsReading(x), x.at = "sent", x.url = u, x.floor = n,
             x.version = 0, x.from = Nothing
      PROVE  /\ DOMAIN reading' = Reading /\ JoinedRight' /\ AnswersFresh'
             /\ \A q \in Reading : ReadingRight(reading[q])'
             /\ reading'[r] = x /\ \A q \in Reading \ {r} : reading'[q] = reading[q]
             /\ leader' = leader => LeadersRight'
  <2>1. ReadingRight(x)' /\ Served(x)
    BY <1>1, <1>2, <1>4 DEF ReadingRight, Away, Served
  <2> QED
    BY <1>2, <1>3, <1>4, <2>1, ReadingMoves
<1>5. CASE UsesCache /\ LeadFetch(r, u)
  <2>1. PICK c : c = Conditional(Found(u))
    OBVIOUS
  <2>2. PICK x : x = [Resting EXCEPT !.at = "sent", !.url = u, !.floor = n, !.cond = c]
    OBVIOUS
  <2>3. Goes(r, x) /\ leader' = [leader EXCEPT ![u] = r] /\ shelf' = [shelf EXCEPT ![u] = Found(u)]
    BY <1>1, <1>5, <2>1, <2>2 DEF LeadFetch
  <2>4. /\ IsReading(x) /\ x.at = "sent" /\ x.url = u /\ x.floor = n
        /\ x.version = 0 /\ x.from = Nothing /\ x.writes = FALSE
    BY <2>2 DEF Resting, IsReading
  <2>5. /\ DOMAIN reading' = Reading /\ JoinedRight' /\ AnswersFresh'
        /\ \A q \in Reading : ReadingRight(reading[q])'
        /\ reading'[r] = x /\ \A q \in Reading \ {r} : reading'[q] = reading[q]
    BY <1>4, <2>3, <2>4
  <2>6. DOMAIN leader' = Url /\ LeadersRight'
    <3>1. DOMAIN leader = Url /\ DOMAIN leader' = Url /\ leader'[u] = r
          /\ \A w \in Url \ {u} : leader'[w] = leader[w]
      BY <2>3 DEF FreshInv
    <3> SUFFICES ASSUME NEW w \in Url, leader'[w] # Nothing
                 PROVE  leader'[w] \in Reading /\ Leads(reading'[leader'[w]])
                           /\ reading'[leader'[w]].url = w
      BY <3>1 DEF LeadersRight, Leads, UsesCache, Public, HasCredentials, Away
    <3>2. CASE w = u
      BY <1>5, <2>4, <2>5, <3>1, <3>2 DEF Leads, Away
    <3>3. CASE w # u
      <4>1. leader[w] \in Reading \ {r} /\ Leads(reading[leader[w]]) /\ reading[leader[w]].url = w
        BY <1>3, <3>1, <3>3 DEF FreshInv, LeadersRight
      <4> QED
        BY <2>5, <3>1, <3>3, <4>1
    <3> QED
      BY <3>2, <3>3
  <2> QED
    BY <1>2, <2>3, <2>5, <2>6, ShelfFound DEF FreshInv
<1>6. CASE \E writes \in BOOLEAN : PassBy(r, u, writes)
  <2>1. PICK writes \in BOOLEAN : PassBy(r, u, writes)
    BY <1>6
  <2>2. PICK x : x = [Resting EXCEPT !.at = "sent", !.url = u, !.writes = writes, !.floor = n]
    OBVIOUS
  <2>3. Goes(r, x) /\ UNCHANGED <<shelf, leader>>
    BY <1>1, <2>1, <2>2 DEF PassBy
  <2>4. /\ IsReading(x) /\ x.at = "sent" /\ x.url = u /\ x.floor = n
        /\ x.version = 0 /\ x.from = Nothing
    BY <2>2 DEF Resting, IsReading
  <2>5. /\ DOMAIN reading' = Reading /\ JoinedRight' /\ AnswersFresh' /\ LeadersRight'
        /\ \A q \in Reading : ReadingRight(reading[q])'
    BY <1>4, <2>3, <2>4
  <2>6. ShelfRight'
    BY <2>3 DEF FreshInv, ShelfRight, KeptRight, Cacheable, MayBeShared, Public, Life, Retention
  <2> QED
    BY <1>2, <2>3, <2>5, <2>6 DEF FreshInv
<1> QED
  BY <1>5, <1>6

LEMMA OriginKeeps ==
    ASSUME FreshInv, NEW r \in Reading, NEW h \in Heads, NEW status \in {"ok", "same", "error"},
           OriginAnswers(r, h, status)
    PROVE  FreshInv'
<1>1. PICK rec : rec = reading[r]
  OBVIOUS
<1>2. rec.at = "sent" /\ ReadingRight(rec) /\ UNCHANGED <<policy, shelf, leader>>
  BY <1>1 DEF OriginAnswers, FreshInv
<1>3. PICK u : u = rec.url
  OBVIOUS
<1>4. u \in Url /\ rec.floor \in Int /\ rec.floor <= content[u] /\ rec.from = Nothing /\ IsReading(rec)
  BY <1>2, <1>3 DEF ReadingRight, Away
<1>5. content \in [Url -> Int]
  BY DEF FreshInv
<1>6. PICK grows \in BOOLEAN : grows = (rec.writes /\ status = "ok")
  OBVIOUS
<1>7. content' = [content EXCEPT ![u] = IF grows THEN content[u] + 1 ELSE content[u]]
  BY <1>1, <1>3, <1>6 DEF OriginAnswers
<1>8. /\ content' \in [Url -> Int] /\ \A w \in Url : content'[w] >= content[w]
      /\ ~grows => content'[u] = content[u]
  BY <1>4, <1>5, <1>7
<1>9. PICK v : v = content'[u]
  OBVIOUS
<1>10. v \in Int /\ v >= rec.floor
  BY <1>4, <1>5, <1>8, <1>9
<1>11. status = "same" => rec.cond.version = v
  BY <1>1, <1>3, <1>6, <1>8, <1>9 DEF OriginAnswers
<1>12. PICK x : x = [rec EXCEPT !.at = "answered", !.status = status, !.head = h, !.version = v]
  OBVIOUS
<1>13. Goes(r, x)
  BY <1>1, <1>3, <1>9, <1>12 DEF OriginAnswers
<1>14. /\ IsReading(x) /\ x.at = "answered" /\ x.status = status /\ x.head = h /\ x.version = v
       /\ x.url = u /\ x.writes = rec.writes /\ x.cond = rec.cond /\ x.floor = rec.floor
       /\ x.from = Nothing
  <2>1. PICK at, url, writes, cond, by, floor, s, version0, head, from :
           rec = [ at |-> at, url |-> url, writes |-> writes, cond |-> cond, by |-> by,
                   floor |-> floor, status |-> s, version |-> version0, head |-> head, from |-> from ]
    BY <1>4 DEF IsReading
  <2>2. x = [ at |-> "answered", url |-> url, writes |-> writes, cond |-> cond, by |-> by,
              floor |-> floor, status |-> status, version |-> v, head |-> h, from |-> from ]
    BY <1>12, <2>1
  <2> QED
    BY <1>3, <1>4, <2>1, <2>2 DEF IsReading
<1>15. ReadingRight(x)' /\ Served(x)
  BY <1>4, <1>5, <1>8, <1>9, <1>10, <1>11, <1>14 DEF ReadingRight, Away, Served
<1>16. Leads(reading[r]) => Leads(x) /\ x.url = reading[r].url /\ x.floor = reading[r].floor
  BY <1>1, <1>3, <1>14 DEF Leads, Away
<1>17. /\ DOMAIN reading' = Reading /\ JoinedRight' /\ AnswersFresh' /\ LeadersRight'
       /\ \A q \in Reading : ReadingRight(reading[q])'
  <2>1. x.at # "joined"
    BY <1>14
  <2> QED
    BY <1>2, <1>8, <1>13, <1>15, <1>16, <2>1, ReadingMoves
<1>18. ShelfRight'
  BY <1>2 DEF FreshInv, ShelfRight, KeptRight, Cacheable, MayBeShared, Public, Life, Retention
<1> QED
  BY <1>2, <1>8, <1>17, <1>18 DEF FreshInv

\* The answer to a leader is that of all who joined it, and is kept if it may be.
LEMMA AnswerReadKeeps == ASSUME FreshInv, NEW r \in Reading, AnswerRead(r) PROVE FreshInv'
<1>1. PICK old : old = reading[r]
  OBVIOUS
<1>2. ReadingRight(old) /\ old.at = "answered" /\ ~old.writes /\ UsesCache /\ Leads(old)
  <2>1. ReadingRight(old)
    BY <1>1 DEF FreshInv
  <2>2. old.at = "answered" /\ ~old.writes /\ UsesCache
    <3>1. PICK m : m = Merged(old)
      OBVIOUS
    <3>2. m.at = "answered" /\ ~m.writes /\ UsesCache
      BY <1>1, <3>1 DEF AnswerRead
    <3>3. m.at = old.at /\ m.writes = old.writes
      BY <2>1, <3>1 DEF Merged, ReadingRight, IsReading
    <3> QED
      BY <3>2, <3>3
  <2> QED
    BY <2>1, <2>2 DEF Leads, Away
<1>3. PICK rec : rec = Merged(old)
  OBVIOUS
<1>4. PICK at, url, writes, cond, by, floor, s, v, head, from :
         old = [ at |-> at, url |-> url, writes |-> writes, cond |-> cond, by |-> by,
                 floor |-> floor, status |-> s, version |-> v, head |-> head, from |-> from ]
  BY <1>2 DEF ReadingRight, IsReading
<1>4a. old.url = url /\ old.floor = floor
  BY <1>4
<1>5. /\ url \in Url /\ floor \in Int /\ v \in Int /\ head \in Heads /\ from = Nothing
      /\ s # "error" => v >= floor
      /\ s = "same" => cond.version = v
  BY <1>2, <1>4 DEF ReadingRight, Away
<1>6. /\ rec.url = url /\ rec.version = v /\ rec.head = head
      /\ rec.status = IF s = "same" THEN "ok" ELSE s
  <2>1. CASE s = "same"
    <3>1. rec = [old EXCEPT !.status = "ok", !.version = v]
      BY <1>3, <1>4, <1>5, <2>1 DEF Merged
    <3> QED
      BY <1>4, <2>1, <3>1
  <2>2. CASE s # "same"
    BY <1>3, <1>4, <2>2 DEF Merged
  <2> QED
    BY <2>1, <2>2
<1>7. rec.status = "ok" => v >= floor
  BY <1>5, <1>6
<1>8. PICK t : t = rec.status
  OBVIOUS
<1>9. /\ \/ shelf' = shelf
         \/ Cacheable(t, head) /\ shelf' = [shelf EXCEPT ![url] = Kept(v, head, Retention(head))]
      /\ leader' = [leader EXCEPT ![url] = Nothing]
      /\ reading' = [q \in Reading |-> IF q = r \/ Joined(r, q)
                                       THEN Answered(url, t, v, reading[q].floor) ELSE reading[q]]
      /\ UNCHANGED <<policy, content>>
  BY <1>1, <1>3, <1>6, <1>8 DEF AnswerRead
<1>10. ASSUME NEW n \in Int, NEW x, x = Answered(url, t, v, n)
       PROVE  /\ IsReading(x) /\ x.at = "done" /\ x.from = Nothing /\ x.floor = n /\ x.version = v
              /\ x.status = t
  BY <1>10 DEF Answered, Resting, IsReading
<1>11. ASSUME NEW q \in Reading, q = r \/ Joined(r, q)
       PROVE  reading'[q].at = "done" /\ ReadingRight(reading[q])' /\ Served(reading'[q])
  <2>1. reading[q].floor = floor
    <3>1. CASE q = r
      BY <1>1, <1>4a, <3>1
    <3>2. CASE Joined(r, q)
      BY <1>1, <1>4a, <3>2 DEF Joined, FreshInv, JoinedRight
    <3> QED
      BY <1>11, <3>1, <3>2
  <2>2. reading'[q] = Answered(url, t, v, floor)
    BY <1>9, <1>11, <2>1
  <2>3. PICK x : x = reading'[q]
    OBVIOUS
  <2>4. /\ IsReading(x) /\ x.at = "done" /\ x.from = Nothing /\ x.floor = floor /\ x.version = v
        /\ x.status = t
    BY <1>5, <1>10, <2>2, <2>3
  <2>5. IsReading(reading'[q]) /\ reading'[q].floor \in Int /\ reading'[q].version \in Int
        /\ reading'[q].at = "done"
    BY <1>5, <2>3, <2>4
  <2>6. ReadingRight(reading[q])'
    BY <2>5 DEF ReadingRight, Away
  <2> QED
    BY <1>7, <1>8, <2>3, <2>4, <2>6 DEF Served
<1>12. ASSUME NEW q \in Reading, ~(q = r \/ Joined(r, q))
       PROVE  reading'[q] = reading[q] /\ ReadingRight(reading[q])' /\ Served(reading'[q])
  <2>1. reading'[q] = reading[q] /\ ReadingRight(reading[q])
    BY <1>9, <1>12 DEF FreshInv
  <2>2. Served(reading[q])
    BY DEF FreshInv, AnswersFresh, Served
  <2> QED
    BY <1>9, <2>1, <2>2 DEF ReadingRight, Away
<1>13. DOMAIN reading' = Reading /\ \A q \in Reading : ReadingRight(reading[q])' /\ Served(reading'[q])
  BY <1>9, <1>11, <1>12
<1>14. AnswersFresh'
  BY <1>9, <1>13 DEF AnswersFresh, Served, Life, MayBeShared, Public
<1>15. ASSUME NEW p \in Reading, Leads(reading[p]), p # r PROVE reading'[p] = reading[p]
  BY <1>12, <1>15 DEF Joined, Leads, Away
<1>16. JoinedRight'
  <2> SUFFICES ASSUME NEW q \in Reading, reading'[q].at = "joined"
               PROVE  /\ reading'[q].by \in Reading /\ Leads(reading'[reading'[q].by])
                      /\ reading'[q].floor = reading'[reading'[q].by].floor
    BY <1>9 DEF JoinedRight, Leads, UsesCache, Public, HasCredentials, Away
  <2>1. reading'[q] = reading[q] /\ ~Joined(r, q)
    BY <1>11, <1>12
  <2>2. PICK p : p = reading[q].by
    OBVIOUS
  <2>3. p \in Reading /\ Leads(reading[p]) /\ reading[q].floor = reading[p].floor /\ p # r
    BY <2>1, <2>2 DEF FreshInv, JoinedRight, Joined
  <2> QED
    BY <1>15, <2>1, <2>2, <2>3
<1>17. DOMAIN leader' = Url /\ LeadersRight'
  <2>1. DOMAIN leader' = Url /\ leader'[url] = Nothing /\ \A w \in Url \ {url} : leader'[w] = leader[w]
    BY <1>5, <1>9 DEF FreshInv
  <2> SUFFICES ASSUME NEW w \in Url, leader'[w] # Nothing
               PROVE  leader'[w] \in Reading /\ Leads(reading'[leader'[w]])
                         /\ reading'[leader'[w]].url = w
    BY <1>9, <2>1 DEF LeadersRight, Leads, UsesCache, Public, HasCredentials, Away
  <2>2. PICK p : p = leader[w]
    OBVIOUS
  <2>3. leader'[w] = p /\ w # url /\ p # Nothing
    BY <2>1, <2>2
  <2>4. p \in Reading /\ Leads(reading[p]) /\ reading[p].url = w
    BY <2>2, <2>3 DEF FreshInv, LeadersRight
  <2>5. p # r
    BY <1>1, <1>4a, <2>3, <2>4
  <2> QED
    BY <1>15, <2>3, <2>4, <2>5
<1>18. DOMAIN shelf' = Url /\ ShelfRight'
  <2>1. CASE shelf' = shelf
    BY <1>9, <2>1 DEF FreshInv, ShelfRight, KeptRight, Cacheable, MayBeShared, Public, Life, Retention
  <2>2. CASE Cacheable(t, head) /\ shelf' = [shelf EXCEPT ![url] = Kept(v, head, Retention(head))]
    <3>1. PICK e : e = Kept(v, head, Retention(head))
      OBVIOUS
    <3>2. IsKept(e) /\ e.version = v /\ e.head = head /\ e.ttl = Retention(head) /\ e.age = 0
      BY <3>1 DEF Kept, IsKept
    <3>3. Cacheable("ok", head)
      BY <2>2 DEF Cacheable
    <3>4. KeptRight(e)
      BY <1>5, <3>2, <3>3 DEF KeptRight
    <3>5. DOMAIN shelf' = Url /\ \A w \in Url : shelf'[w] = shelf[w] \/ shelf'[w] = e
      BY <2>2, <3>1 DEF FreshInv
    <3>6. \A w \in Url : shelf'[w] # Nothing => KeptRight(shelf'[w])
      BY <3>4, <3>5 DEF FreshInv, ShelfRight
    <3> QED
      BY <1>9, <3>5, <3>6 DEF ShelfRight, KeptRight, Cacheable, MayBeShared, Public, Life, Retention
  <2> QED
    BY <1>9, <2>1, <2>2
<1>19. policy' \in Policies /\ content' \in [Url -> Int]
  BY <1>9 DEF FreshInv
<1> QED
  BY <1>13, <1>14, <1>16, <1>17, <1>18, <1>19 DEF FreshInv

LEMMA AnswerOtherKeeps == ASSUME FreshInv, NEW r \in Reading, AnswerOther(r) PROVE FreshInv'
<1>1. PICK rec : rec = reading[r]
  OBVIOUS
<1>2. /\ rec.at = "answered" /\ (rec.writes \/ ~UsesCache) /\ ReadingRight(rec)
      /\ UNCHANGED <<policy, content>>
  BY <1>1 DEF AnswerOther, FreshInv
<1>3. PICK x : x = Answered(rec.url, rec.status, rec.version, rec.floor)
  OBVIOUS
<1>4. /\ IsReading(x) /\ x.at = "done" /\ x.from = Nothing /\ x.floor = rec.floor
      /\ x.version = rec.version /\ x.status = rec.status
  BY <1>3 DEF Answered, Resting, IsReading
<1>5. Goes(r, x) /\ \/ UNCHANGED <<shelf, leader>>
                    \/ shelf' = [u \in Url |-> Nothing] /\ leader' = [u \in Url |-> Nothing]
  BY <1>1, <1>3 DEF AnswerOther
<1>6. ReadingRight(x)' /\ Served(x)
  BY <1>2, <1>4 DEF ReadingRight, Away, Served
<1>7. ~Leads(reading[r]) /\ x.at # "joined"
  BY <1>1, <1>2, <1>4 DEF Leads
<1>8. content' \in [Url -> Int] /\ \A w \in Url : content'[w] >= content[w]
  BY <1>2 DEF FreshInv
<1>9. /\ DOMAIN reading' = Reading /\ JoinedRight' /\ AnswersFresh'
      /\ leader' = leader => LeadersRight'
      /\ \A q \in Reading : ReadingRight(reading[q])'
  BY <1>2, <1>5, <1>6, <1>7, <1>8, ReadingMoves
<1>10. DOMAIN leader' = Url /\ LeadersRight' /\ DOMAIN shelf' = Url /\ ShelfRight'
  <2>1. CASE UNCHANGED <<shelf, leader>>
    BY <1>2, <1>9, <2>1
       DEF FreshInv, ShelfRight, KeptRight, Cacheable, MayBeShared, Public, Life, Retention
  <2>2. CASE shelf' = [u \in Url |-> Nothing] /\ leader' = [u \in Url |-> Nothing]
    BY <2>2 DEF ShelfRight, LeadersRight
  <2> QED
    BY <1>5, <2>1, <2>2
<1> QED
  BY <1>2, <1>8, <1>9, <1>10 DEF FreshInv

LEMMA FreshInvInit == FreshnessInit => FreshInv
<1> SUFFICES ASSUME FreshnessInit PROVE FreshInv
  OBVIOUS
<1>1. /\ policy \in Policies /\ content = [u \in Url |-> 1] /\ shelf = [u \in Url |-> Nothing]
      /\ leader = [u \in Url |-> Nothing] /\ reading = [r \in Reading |-> Resting]
  BY DEF FreshnessInit
<1>2. content \in [Url -> Int]
  BY <1>1
<1>3. PICK x : x = Resting
  OBVIOUS
<1>4. /\ IsReading(x) /\ x.at = "resting" /\ x.floor = 0 /\ x.version = 0
  BY <1>3, RestingIs DEF Resting
<1>5. ReadingRight(x)
  BY <1>4 DEF ReadingRight, Away
<1>6. \A r \in Reading : reading[r] = x
  BY <1>1, <1>3
<1> QED
  BY <1>1, <1>2, <1>4, <1>5, <1>6
     DEF FreshInv, ShelfRight, LeadersRight, JoinedRight, AnswersFresh

\* Entries leave the shelf or grow older, and the world goes on.
LEMMA WorldKeeps ==
    ASSUME FreshInv, TimePasses \/ \E u \in Url : EvictKept(u) \/ OtherChanges(u)
    PROVE  FreshInv'
<1>1. /\ policy' = policy /\ leader' = leader /\ reading' = reading
      /\ content' \in [Url -> Int] /\ \A w \in Url : content'[w] >= content[w]
  BY DEF TimePasses, EvictKept, OtherChanges, FreshInv
<1>2. DOMAIN shelf' = Url
      /\ \A w \in Url : \/ shelf'[w] = shelf[w]
                        \/ shelf'[w] = Nothing
                        \/ (shelf[w] # Nothing /\ shelf'[w] = Older(shelf[w]))
  <2>1. DOMAIN shelf = Url
    BY DEF FreshInv
  <2>2. CASE TimePasses
    <3>1. shelf' = [u \in Url |-> Older(shelf[u])]
      BY <2>2 DEF TimePasses
    <3>2. \A w \in Url : shelf[w] = Nothing => Older(shelf[w]) = Nothing
      BY DEF Older
    <3> QED
      BY <3>1, <3>2
  <2>3. ASSUME NEW u \in Url, EvictKept(u) \/ OtherChanges(u)
        PROVE  shelf' = shelf \/ shelf' = [shelf EXCEPT ![u] = Nothing]
    BY <2>3 DEF EvictKept, OtherChanges
  <2> QED
    BY <2>1, <2>2, <2>3
<1>3. ASSUME NEW e, KeptRight(e), e # Nothing PROVE KeptRight(Older(e))
  <2>1. PICK n : n = IF e.age < MaxAge THEN e.age + 1 ELSE e.age
    OBVIOUS
  <2>2. n \in Int
    BY <1>3, <2>1 DEF KeptRight
  <2>3. PICK x : x = [e EXCEPT !.age = n]
    OBVIOUS
  <2>4. Older(e) = x
    BY <1>3, <2>1, <2>3 DEF Older, KeptRight, IsKept
  <2>5. IsKept(x) /\ x.version = e.version /\ x.head = e.head /\ x.ttl = e.ttl /\ x.age = n
    BY <1>3, <2>3 DEF KeptRight, IsKept
  <2> QED
    BY <1>3, <2>2, <2>4, <2>5 DEF KeptRight
<1>4. \A w \in Url : shelf'[w] # Nothing => KeptRight(shelf'[w])
  BY <1>2, <1>3 DEF FreshInv, ShelfRight
<1>5. ShelfRight'
  BY <1>1, <1>4 DEF ShelfRight, KeptRight, Cacheable, MayBeShared, Public, Life, Retention
<1>6. LeadersRight' /\ JoinedRight' /\ AnswersFresh'
  BY <1>1 DEF FreshInv, LeadersRight, JoinedRight, AnswersFresh, Leads, Away, UsesCache, Public,
              HasCredentials, Life, MayBeShared
<1>7. ASSUME NEW q \in Reading PROVE ReadingRight(reading[q])'
  <2>1. reading'[q] = reading[q] /\ ReadingRight(reading[q]) /\ content \in [Url -> Int]
    BY <1>1 DEF FreshInv
  <2> QED
    BY <1>1, <2>1 DEF ReadingRight, Away
<1> QED
  BY <1>1, <1>2, <1>5, <1>6, <1>7 DEF FreshInv

LEMMA FreshStep == FreshInv /\ [FreshnessNext]_cacheVars => FreshInv'
<1> SUFFICES ASSUME FreshInv, [FreshnessNext]_cacheVars PROVE FreshInv'
  OBVIOUS
<1>1. ASSUME NEW r \in Reading, NEW u \in Url, AskFor(r, u) PROVE FreshInv'
  <2>1. reading[r].at \in {"resting", "done"} /\ UNCHANGED <<policy, content>>
    BY <1>1 DEF AskFor
  <2> QED
    BY <1>1, <2>1, ServeKeeps, JoinKeeps, FetchKeeps DEF AskFor
<1>2. CASE UNCHANGED cacheVars
  BY <1>2 DEF cacheVars, FreshInv, ShelfRight, LeadersRight, JoinedRight, AnswersFresh, ReadingRight,
     KeptRight, Cacheable, Leads, Away, UsesCache, Public, HasCredentials, Life, MayBeShared, Retention
<1> QED
  BY <1>1, <1>2, OriginKeeps, AnswerReadKeeps, AnswerOtherKeeps, WorldKeeps DEF FreshnessNext

\* What is served without the origin was kept for less than the life its headers
\* state, and they forbid neither to keep it nor to serve it without asking; what
\* comes from the origin is no older than the fetch that was led or joined
\* (ResponseCacheInterceptor with its policy evaluator and revalidation).
THEOREM ServedFresh == FreshnessSpec => []AnswersFresh
<1>1. FreshInv => AnswersFresh
  BY DEF FreshInv
<1> QED
  BY <1>1, FreshInvInit, FreshStep, PTL DEF FreshnessSpec
================================================================================
