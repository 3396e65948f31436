---------------------------- MODULE SessionsProofs ----------------------------
(***************************************************************************)
(* Theorems about HttpSessions, for every number of sessions, requests and *)
(* grants and every deployment: a session spends a refresh token once, and *)
(* a bearer that has not expired is served.  And about SseDelivery, for    *)
(* every size of the queues: the client reads its notifications in order   *)
(* and, from the first on, whole.                                          *)
(***************************************************************************)
EXTENDS HttpSessions, SseDelivery, FiniteSetTheorems, WellFoundedInduction, TLAPS

\* A request belongs to a session, leads the refresh it exchanges for, with the
\* session's own refresh token, and waits for a refresh only when the envelope the
\* session began with is past its time.
RequestRight(r) == request[r].at # "idle" =>
    LET s == request[r].of IN
    /\ s \in Session /\ session[s].state # "unborn"
    /\ "newer" \notin Bearers => request[r].bearer \in {NoGrant, session[s].origin}
    /\ request[r].at = "exchanging" => session[s].leader = r /\ request[r].rt = session[s].rt
    /\ request[r].at \in {"exchanging", "waiting"} => session[s].origin \in aged
    /\ request[r].at = "refused" /\ "newer" \notin Bearers /\ request[r].bearer # NoGrant /\ IsLive(s)
          => request[r].bearer \in aged

\* A session's expiry is that of its first envelope until this one is past its
\* time; its refresh token it has not spent.
SessionRight(s) == session[s].state # "unborn" =>
    /\ session[s].rt \in 1 .. minted
    /\ session[s].exp = session[s].origin \/ session[s].origin \in aged
    /\ spentBy[session[s].rt] # s \/ s \in lost

\* Only what was issued is spent, and by sessions there are.
SpentRight ==
    /\ \A g \in Grant : spentBy[g] # None => g <= minted
    /\ \A s \in Session, g \in Grant : spentBy[g] = s => session[s].state # "unborn"

SessionsInv ==
    /\ TypeOK
    /\ \A r \in Request : RequestRight(r)
    /\ \A s \in Session : SessionRight(s)
    /\ SpentRight

\* The types one by one.
LEMMA SessionsTyped ==
    ASSUME TypeOK
    PROVE  /\ deployment \in Deployments /\ session \in [Session -> SessionRecord]
           /\ cached \in [Session -> [made : BOOLEAN, with : Credential]]
           /\ request \in [Request -> RequestRecord]
           /\ minted \in 0 .. MaxGrants
           /\ known \subseteq 1 .. minted /\ held \subseteq 1 .. minted /\ aged \subseteq 1 .. minted
           /\ minter \in [Grant -> Session \cup {None}]
           /\ spentBy \in [Grant -> Session \cup {"client", None}]
           /\ lost \subseteq Session /\ restarts \in 0 .. MaxRestarts
           /\ MaxGrants \in Nat /\ MaxRestarts \in Nat
           /\ None \notin Session /\ None \notin Request /\ "client" \notin Session
BY ConstantsAssumption DEF TypeOK

\* What was issued is among the grants there may be.
LEMMA IssuedGrants ==
    ASSUME TypeOK
    PROVE  \A n \in 1 .. minted : n \in Grant /\ n \in Nat /\ n <= minted /\ n # minted + 1
<1>1. minted \in 0 .. MaxGrants /\ MaxGrants \in Nat
  BY SessionsTyped
<1> QED
  BY <1>1 DEF Grant

\* Spends, of a grant that was issued.
LEMMA SpendingKeeps ==
    ASSUME TypeOK, SpentRight, NEW k \in 1 .. minted, NEW w \in Session \cup {"client"},
           minted' \in minted .. MaxGrants,
           spentBy' \in {spentBy, [spentBy EXCEPT ![k] = w]}
    PROVE  /\ spentBy' \in [Grant -> Session \cup {"client", None}]
           /\ \A h \in Grant : spentBy'[h] \in {spentBy[h], w} /\ (spentBy'[h] # None => h <= minted')
<1>1. /\ spentBy \in [Grant -> Session \cup {"client", None}] /\ minted \in 0 .. MaxGrants
      /\ MaxGrants \in Nat /\ k \in Grant /\ k <= minted /\ k \in Nat
  BY SessionsTyped, IssuedGrants
<1>2. ASSUME NEW h \in Grant
      PROVE  (spentBy[h] # None => h <= minted) /\ h \in Nat
  BY <1>1 DEF SpentRight, Grant
<1>3. CASE spentBy' = spentBy
  BY <1>1, <1>2, <1>3
<1>4. CASE spentBy' = [spentBy EXCEPT ![k] = w]
  <2>1. spentBy' \in [Grant -> Session \cup {"client", None}]
    BY <1>1, <1>4
  <2>2. ASSUME NEW h \in Grant
        PROVE  spentBy'[h] \in {spentBy[h], w} /\ (spentBy'[h] # None => h <= minted')
    <3>1. spentBy'[h] = IF h = k THEN w ELSE spentBy[h]
      BY <1>1, <1>4
    <3> QED
      BY <1>1, <1>2, <3>1
  <2> QED
    BY <2>1, <2>2
<1> QED
  BY <1>3, <1>4

\* What the check leaves of a request's record.
LEMMA CheckedRecord ==
    ASSUME NEW rec \in RequestRecord, NEW ok \in BOOLEAN
    PROVE  /\ Checked(rec, ok) \in RequestRecord
           /\ Checked(rec, ok).at \in {"checked", "refused"}
           /\ ok => Checked(rec, ok).at = "checked"
           /\ Checked(rec, ok).of = rec.of /\ Checked(rec, ok).bearer = rec.bearer
<1>1. PICK a \in {"checked", "refused"} :
        a = IF ok \/ rec.round > 1 THEN "checked" ELSE "refused"
  OBVIOUS
<1>2. Checked(rec, ok) = [rec EXCEPT !.at = a, !.rt = NoGrant]
  BY <1>1 DEF Checked
<1>3. ok => a = "checked"
  BY <1>1
<1> QED
  BY <1>2, <1>3 DEF RequestRecord, Grant, NoGrant

\* ensureValidSessionToken, of a request that neither exchanges nor waits.
LEMMA EnsureValidKeeps ==
    ASSUME SessionsInv, NEW r \in Request, request[r].at \notin {"exchanging", "waiting"},
           NEW rec \in RequestRecord, NEW s \in Session, rec.of = s,
           session[s].state # "unborn", "newer" \notin Bearers => rec.bearer \in {NoGrant, session[s].origin},
           NEW t \in SessionRecord,
           t.state = session[s].state, t.origin = session[s].origin, t.rt = session[s].rt,
           t.exp = session[s].exp, t.leader = session[s].leader,
           EnsureValid(r, rec, t),
           UNCHANGED <<deployment, cached, known, provider, aged, restarts>>
    PROVE  SessionsInv'
<1> USE SessionsTyped DEF SessionsInv
<1>1. UNCHANGED <<deployment, cached, known, minted, minter, held, spentBy, lost, aged, restarts>>
  BY DEF provider
<1>2. session[s] \in SessionRecord /\ session[s].rt \in 1 .. minted
  BY DEF SessionRight
\* The record of the request and of the session after the check.
<1>3. PICK u, q :
        /\ session' = [session EXCEPT ![s] = u] /\ request' = [request EXCEPT ![r] = q]
        /\ u \in SessionRecord /\ q \in RequestRecord
        /\ u.state = t.state /\ u.origin = t.origin /\ u.rt = t.rt /\ u.exp = t.exp
        /\ q.of = s /\ q.bearer = rec.bearer /\ q.at # "idle"
        /\ \/ u.leader = t.leader /\ q.at = "checked"
           \/ u.leader = t.leader /\ q.at = "refused" /\ t.state # "live"
           \/ u.leader = t.leader /\ q.at = "waiting" /\ t.exp \in aged
           \/ u.leader = r /\ t.leader = None /\ q.at = "exchanging" /\ q.rt = t.rt /\ t.exp \in aged
  <2>1. CASE t.state # "live" \/ ~ExpiresSoon(t)
    <3>1. PICK ok \in BOOLEAN : ok = (t.state = "live")
      OBVIOUS
    <3>2. PICK q : q = Checked(rec, ok)
      OBVIOUS
    <3>3. /\ session' = [session EXCEPT ![s] = t] /\ request' = [request EXCEPT ![r] = q]
      BY <2>1, <3>1, <3>2 DEF EnsureValid
    <3>4. /\ q \in RequestRecord /\ q.at \in {"checked", "refused"} /\ (ok => q.at = "checked")
          /\ q.of = rec.of /\ q.bearer = rec.bearer
      BY <3>2, CheckedRecord
    <3> QED
      BY <3>1, <3>3, <3>4
  <2>2. CASE ~(t.state # "live" \/ ~ExpiresSoon(t)) /\ InFlight(t)
    <3>1. PICK q : q = [rec EXCEPT !.at = "waiting"]
      OBVIOUS
    <3>2. /\ session' = [session EXCEPT ![s] = t] /\ request' = [request EXCEPT ![r] = q]
          /\ t.exp \in aged
      BY <2>2, <3>1 DEF EnsureValid, ExpiresSoon
    <3>3. q \in RequestRecord /\ q.at = "waiting" /\ q.of = rec.of /\ q.bearer = rec.bearer
      BY <3>1 DEF RequestRecord
    <3> QED
      BY <3>2, <3>3
  <2>3. CASE ~(t.state # "live" \/ ~ExpiresSoon(t)) /\ ~InFlight(t)
    <3>1. PICK q : q = [rec EXCEPT !.at = "exchanging", !.rt = t.rt]
      OBVIOUS
    <3>2. PICK u : u = [t EXCEPT !.leader = r]
      OBVIOUS
    <3>3. /\ session' = [session EXCEPT ![s] = u] /\ request' = [request EXCEPT ![r] = q]
          /\ t.exp \in aged /\ t.leader = None
      BY <2>3, <3>1, <3>2 DEF EnsureValid, ExpiresSoon, InFlight
    <3>4. /\ q \in RequestRecord /\ q.at = "exchanging" /\ q.of = rec.of /\ q.bearer = rec.bearer
          /\ q.rt = t.rt
      BY <3>1 DEF RequestRecord, SessionRecord
    <3>5. /\ u \in SessionRecord /\ u.state = t.state /\ u.origin = t.origin /\ u.rt = t.rt
          /\ u.exp = t.exp /\ u.leader = r
      BY <3>2 DEF SessionRecord
    <3> QED
      BY <3>3, <3>4, <3>5
  <2> QED
    BY <2>1, <2>2, <2>3
<1>4. /\ session' \in [Session -> SessionRecord] /\ request' \in [Request -> RequestRecord]
      /\ session'[s] = u /\ \A v \in Session : v # s => session'[v] = session[v]
      /\ request'[r] = q /\ \A p \in Request : p # r => request'[p] = request[p]
  BY <1>3
<1>5. \A v \in Session : /\ session'[v].state = session[v].state /\ session'[v].origin = session[v].origin
                         /\ session'[v].rt = session[v].rt /\ session'[v].exp = session[v].exp
  BY <1>3, <1>4
<1>6. t.exp \in aged => session[s].origin \in aged
  BY DEF SessionRight
<1>7. ASSUME NEW p \in Request PROVE RequestRight(p)'
  <2>1. CASE p = r
    <3>1. request'[p] = q /\ session'[s] = u /\ Bearers' = Bearers /\ aged' = aged
      BY <1>1, <1>4, <2>1 DEF Bearers
    <3> QED
      BY <1>3, <1>6, <2>1, <3>1 DEF RequestRight, IsLive
  <2>2. CASE p # r
    <3>1. request'[p] = request[p] /\ Bearers' = Bearers /\ aged' = aged
      BY <1>1, <1>4, <2>2 DEF Bearers
    <3>2. ASSUME request[p].at # "idle", request[p].at = "exchanging"
          PROVE  session'[request[p].of].leader = session[request[p].of].leader
      <4>1. request[p].of \in Session /\ session[request[p].of].leader = p
        BY <3>2 DEF RequestRight
      <4>2. CASE request[p].of = s
        BY <1>3, <1>4, <4>1, <4>2
      <4>3. CASE request[p].of # s
        BY <1>4, <4>1, <4>3
      <4> QED
        BY <4>2, <4>3
    <3> QED
      BY <1>5, <3>1, <3>2 DEF RequestRight, IsLive
  <2> QED
    BY <2>1, <2>2
<1>8. ASSUME NEW v \in Session PROVE SessionRight(v)'
  BY <1>1, <1>5 DEF SessionRight
<1>9. SpentRight'
  BY <1>1, <1>5 DEF SpentRight
<1>10. ASSUME NEW v \in Session, InFlight(session'[v]), session'[v].state = "live"
       PROVE  request'[session'[v].leader].at = "exchanging" /\ request'[session'[v].leader].of = v
  <2>1. CASE v = s /\ u.leader = r /\ q.at = "exchanging"
    BY <1>3, <1>4, <2>1
  <2>2. CASE v # s \/ u.leader = t.leader
    <3>1. session'[v].leader = session[v].leader /\ session[v].leader # None /\ session[v].state = "live"
      BY <1>4, <1>5, <1>10, <2>2 DEF InFlight
    <3>2. PICK p : p = session[v].leader
      OBVIOUS
    <3>3. request[p].at = "exchanging" /\ request[p].of = v /\ p \in Request
      BY <3>1, <3>2 DEF TypeOK, InFlight, SessionRecord
    <3>4. p # r
      BY <3>3
    <3> QED
      BY <1>4, <3>1, <3>2, <3>3, <3>4
  <2> QED
    BY <1>3, <2>1, <2>2
<1>11. TypeOK'
  BY <1>1, <1>4, <1>10 DEF TypeOK
<1> QED
  BY <1>7, <1>8, <1>9, <1>11


\* The leader's promise settles; t is what became of its session, but for the lead.
LEMMA SettleKeeps ==
    ASSUME SessionsInv, NEW r \in Request, request[r].at = "exchanging",
           NEW s \in Session, s = request[r].of,
           NEW t \in SessionRecord, NEW ok \in BOOLEAN,
           t.state = session[s].state, t.origin = session[s].origin,
           t.leader = session[s].leader,
           Settles(r, [session EXCEPT ![s] = t], ok),
           minted' \in minted .. MaxGrants, t.rt \in 1 .. minted',
           known' \subseteq 1 .. minted', minter' \in [Grant -> Session \cup {None}],
           spentBy' \in [Grant -> Session \cup {"client", None}],
           \A g \in Grant : spentBy'[g] # None => g <= minted',
           \A g \in Grant : spentBy'[g] \in {spentBy[g], s},
           lost \subseteq lost', lost' \subseteq Session,
           spentBy'[t.rt] # s \/ s \in lost',
           UNCHANGED <<deployment, cached, held, aged, restarts>>
    PROVE  SessionsInv'
<1> USE SessionsTyped DEF SessionsInv
<1>1. session[s].leader = r /\ session[s].state # "unborn" /\ session[s].origin \in aged
  BY DEF RequestRight
<1>2. PICK u : u = [t EXCEPT !.leader = None]
  OBVIOUS
<1>3. /\ u \in SessionRecord /\ u.state = t.state /\ u.origin = t.origin /\ u.rt = t.rt
      /\ u.exp = t.exp /\ u.leader = None
  BY <1>2 DEF SessionRecord
<1>4. session' = [session EXCEPT ![s] = u]
  <2>1. session' = [[session EXCEPT ![s] = t] EXCEPT ![s].leader = IF @ = r THEN None ELSE @]
    BY DEF Settles, Cleared
  <2> QED
    BY <1>1, <1>2, <2>1
<1>5. /\ session' \in [Session -> SessionRecord] /\ session'[s] = u
      /\ \A v \in Session : v # s => session'[v] = session[v]
  BY <1>3, <1>4
<1>6. \A v \in Session : session'[v].state = session[v].state /\ session'[v].origin = session[v].origin
  BY <1>3, <1>5
\* The requests that get the answer, and the others.
<1>7. ASSUME NEW q \in Request
      PROVE  /\ request'[q] \in RequestRecord
             /\ request'[q].of = request[q].of /\ request'[q].bearer = request[q].bearer
             /\ Awaits(q, r) => request'[q].at \in {"checked", "refused"}
             /\ ~Awaits(q, r) => request'[q] = request[q]
  <2>1. request' = [p \in Request |-> IF Awaits(p, r) THEN Checked(request[p], ok) ELSE request[p]]
    BY DEF Settles
  <2>2. PICK rec \in RequestRecord : rec = request[q]
    OBVIOUS
  <2>3. PICK c : c = Checked(rec, ok)
    OBVIOUS
  <2>4. c \in RequestRecord /\ c.at \in {"checked", "refused"} /\ c.of = rec.of /\ c.bearer = rec.bearer
    BY <2>3, CheckedRecord
  <2>5. request'[q] = IF Awaits(q, r) THEN c ELSE rec
    BY <2>1, <2>2, <2>3
  <2> QED
    BY <2>2, <2>4, <2>5
<1>8. request' \in [Request -> RequestRecord]
  <2>1. request' = [p \in Request |-> IF Awaits(p, r) THEN Checked(request[p], ok) ELSE request[p]]
    BY DEF Settles
  <2>2. request' = [p \in Request |-> request'[p]]
    BY <2>1
  <2> QED
    BY <1>7, <2>2
<1>9. ASSUME NEW q \in Request
      PROVE  Awaits(q, r) => request[q].of = s /\ request[q].at \in {"exchanging", "waiting"}
  BY DEF Awaits
<1>10. ASSUME NEW q \in Request PROVE RequestRight(q)'
  <2>0. Bearers' = Bearers /\ aged' = aged
    BY DEF Bearers
  <2>1. CASE Awaits(q, r)
    <3>1. /\ request[q].at # "idle" /\ request[q].of = s
          /\ "newer" \notin Bearers => request[q].bearer \in {NoGrant, session[s].origin}
      BY <1>9, <2>1 DEF RequestRight
    <3>2. /\ request'[q].of = s /\ request'[q].bearer = request[q].bearer
          /\ request'[q].at \in {"checked", "refused"}
      BY <1>7, <2>1, <3>1
    <3> QED
      BY <1>1, <1>6, <2>0, <3>1, <3>2 DEF RequestRight, IsLive
  <2>2. CASE ~Awaits(q, r)
    <3>1. request'[q] = request[q] /\ q # r
      BY <1>7, <2>2 DEF Awaits
    <3>2. ASSUME request[q].at = "exchanging"
          PROVE  session'[request[q].of] = session[request[q].of]
      <4>1. session[request[q].of].leader = q /\ request[q].of \in Session
        BY <3>2 DEF RequestRight
      <4>2. request[q].of # s
        BY <1>1, <3>1, <4>1
      <4> QED
        BY <1>5, <4>1, <4>2
    <3> QED
      BY <1>6, <2>0, <3>1, <3>2 DEF RequestRight, IsLive
  <2> QED
    BY <2>1, <2>2
<1>11. ASSUME NEW v \in Session PROVE SessionRight(v)'
  <2>1. CASE v = s
    BY <1>1, <1>3, <1>5, <2>1 DEF SessionRight
  <2>2. CASE v # s
    <3>1. session'[v] = session[v]
      BY <1>5, <2>2
    <3>2. session[v].state # "unborn" => session[v].rt \in Grant /\ spentBy'[session[v].rt] \in {spentBy[session[v].rt], s}
      BY DEF SessionRight, Grant
    <3> QED
      BY <2>2, <3>1, <3>2 DEF SessionRight
  <2> QED
    BY <2>1, <2>2
<1>12. SpentRight'
  BY <1>1, <1>6 DEF SpentRight
<1>13. ASSUME NEW v \in Session, InFlight(session'[v]), session'[v].state = "live"
       PROVE  request'[session'[v].leader].at = "exchanging" /\ request'[session'[v].leader].of = v
  <2>1. v # s
    BY <1>3, <1>5, <1>13 DEF InFlight
  <2>2. PICK q : q = session[v].leader
    OBVIOUS
  <2>3. session'[v] = session[v] /\ q # None
    BY <1>5, <1>13, <2>1, <2>2 DEF InFlight
  <2>4. request[q].at = "exchanging" /\ request[q].of = v /\ q \in Request
    BY <1>13, <2>2, <2>3 DEF TypeOK, InFlight, SessionRecord
  <2>5. ~Awaits(q, r)
    BY <1>9, <2>1, <2>4
  <2> QED
    BY <1>7, <2>2, <2>3, <2>4, <2>5
<1>14. TypeOK'
  <2>1. minted' \in 0 .. MaxGrants /\ 1 .. minted \subseteq 1 .. minted'
    OBVIOUS
  <2>2. known' \cup held' \cup aged' \subseteq 1 .. minted'
    BY <2>1
  <2>3. /\ deployment' \in Deployments /\ cached' \in [Session -> [made : BOOLEAN, with : Credential]]
        /\ restarts' \in 0 .. MaxRestarts
    OBVIOUS
  <2> QED
    BY <1>5, <1>8, <1>13, <2>1, <2>2, <2>3 DEF TypeOK
<1> QED
  BY <1>10, <1>11, <1>12, <1>14

\* A refresh fails, or its answer is lost: the session keeps what it had.
LEMMA RefreshEndsKeeps ==
    ASSUME SessionsInv, NEW r \in Request, RefreshFails(r) \/ RefreshAnswerLost(r), UNCHANGED deployment
    PROVE  SessionsInv'
<1> USE SessionsTyped DEF SessionsInv
<1>0. request[r].at = "exchanging" /\ RequestRight(r)
  BY DEF RefreshFails, RefreshAnswerLost
<1>1. PICK s \in Session : s = request[r].of
  BY <1>0 DEF RequestRight
<1>2. PICK t \in SessionRecord : t = session[s]
  BY <1>1
<1>3. /\ request[r].at = "exchanging" /\ Settles(r, [session EXCEPT ![s] = t], FALSE)
      /\ UNCHANGED <<cached, known, minted, minter, held, aged, restarts>>
  <2>1. session = [session EXCEPT ![s] = t]
    BY <1>2
  <2> QED
    BY <2>1 DEF RefreshFails, RefreshAnswerLost, provider
<1>4. /\ request[r].rt = t.rt /\ session[s].state # "unborn" /\ t.rt \in 1 .. minted
      /\ spentBy[t.rt] # s \/ s \in lost
  BY <1>0, <1>1, <1>2 DEF RequestRight, SessionRight
<1>7. /\ minted' \in minted .. MaxGrants /\ t.rt \in 1 .. minted' /\ known' \subseteq 1 .. minted'
      /\ minter' \in [Grant -> Session \cup {None}] /\ SessionsInv
  BY <1>3, <1>4
<1>5. CASE RefreshFails(r)
  <2>1. spentBy' = spentBy /\ lost' = lost
    BY <1>5 DEF RefreshFails, provider
  <2>2. /\ spentBy' \in [Grant -> Session \cup {"client", None}] /\ lost' \subseteq Session
        /\ \A g \in Grant : spentBy'[g] \in {spentBy[g], s} /\ (spentBy'[g] # None => g <= minted')
        /\ spentBy'[t.rt] # s \/ s \in lost'
    BY <1>3, <1>4, <2>1 DEF SpentRight
  <2> HIDE DEF SessionsInv
  <2> QED
    BY <1>1, <1>2, <1>3, <1>4, <1>7, <2>1, <2>2, SettleKeeps
<1>6. CASE RefreshAnswerLost(r)
  <2>1. /\ spentBy' = [spentBy EXCEPT ![t.rt] = s] /\ lost' = lost \cup {s}
    BY <1>1, <1>4, <1>6 DEF RefreshAnswerLost, Spends
  <2>2. /\ spentBy' \in [Grant -> Session \cup {"client", None}] /\ lost' \subseteq Session
        /\ \A g \in Grant : spentBy'[g] \in {spentBy[g], s} /\ (spentBy'[g] # None => g <= minted')
        /\ lost \subseteq lost' /\ s \in lost'
    BY <1>3, <1>4, <2>1 DEF SpentRight, Grant
  <2> HIDE DEF SessionsInv
  <2> QED
    BY <1>1, <1>2, <1>3, <1>4, <1>7, <2>1, <2>2, SettleKeeps
<1> QED
  BY <1>5, <1>6

\* performTokenRefresh: the session keeps the refresh token of the answer.
LEMMA RefreshSucceedsKeeps ==
    ASSUME SessionsInv, NEW r \in Request, RefreshSucceeds(r), UNCHANGED deployment
    PROVE  SessionsInv'
<1>0. /\ request[r].at = "exchanging" /\ RequestRight(r) /\ minted < MaxGrants
      /\ minted' = minted + 1 /\ TypeOK /\ SpentRight
      /\ UNCHANGED <<cached, held, aged, lost, restarts>>
  BY DEF RefreshSucceeds, SessionsInv
<1>1. PICK s \in Session : s = request[r].of
  BY <1>0 DEF RequestRight
<1>2. /\ minted \in Nat /\ MaxGrants \in Nat /\ session[s] \in SessionRecord
      /\ known \subseteq 1 .. minted /\ minter \in [Grant -> Session \cup {None}]
      /\ None \notin Session /\ lost \subseteq Session
      /\ spentBy \in [Grant -> Session \cup {"client", None}]
  BY <1>0, SessionsTyped
<1>3. PICK g \in Grant : g = minted + 1
  BY <1>0, <1>2 DEF Grant
<1>4. /\ request[r].rt = session[s].rt /\ session[s].state # "unborn" /\ SessionRight(s)
  BY <1>0, <1>1 DEF RequestRight, SessionsInv
<1>5. /\ session[s].rt \in 1 .. minted /\ session[s].rt \in Grant /\ session[s].rt # g
      /\ spentBy[session[s].rt] # s \/ s \in lost
  BY <1>0, <1>3, <1>4, IssuedGrants DEF SessionRight
<1>6. PICK k \in Grant : k = IF Rotates THEN g ELSE session[s].rt
  BY <1>5
<1>7. PICK t : t = [session[s] EXCEPT !.token = g, !.exp = g, !.rt = k]
  OBVIOUS
<1>8. /\ t \in SessionRecord /\ t.state = session[s].state /\ t.origin = session[s].origin
      /\ t.leader = session[s].leader /\ t.rt = k
  BY <1>2, <1>7 DEF SessionRecord
<1>9. Settles(r, [session EXCEPT ![s] = t], TRUE)
  <2>1. Settles(r, [session EXCEPT ![s] = Renewed(@, minted')], TRUE)
    BY <1>1 DEF RefreshSucceeds
  <2>2. Renewed(session[s], minted') = t
    BY <1>0, <1>3, <1>6, <1>7 DEF Renewed
  <2>3. [session EXCEPT ![s] = Renewed(@, minted')] = [session EXCEPT ![s] = t]
    BY <2>2
  <2> QED
    BY <2>1, <2>3
<1>10. minted' \in minted .. MaxGrants /\ g \in 1 .. minted' /\ 1 .. minted \subseteq 1 .. minted'
  BY <1>0, <1>2, <1>3
<1>11. /\ t.rt \in 1 .. minted' /\ known' \subseteq 1 .. minted'
       /\ minter' \in [Grant -> Session \cup {None}]
  <2>1. known' = (known \ {session[s].token}) \cup {g} /\ minter' = [minter EXCEPT ![g] = s]
    BY <1>0, <1>1, <1>3 DEF RefreshSucceeds
  <2> QED
    BY <1>2, <1>5, <1>6, <1>8, <1>10, <2>1
<1>12. spentBy' = IF Rotates THEN [spentBy EXCEPT ![session[s].rt] = s] ELSE spentBy
  BY <1>1, <1>4 DEF RefreshSucceeds, Spends
<1>13. /\ spentBy' \in [Grant -> Session \cup {"client", None}]
       /\ \A h \in Grant : spentBy'[h] \in {spentBy[h], s} /\ (spentBy'[h] # None => h <= minted')
  <2>1. PICK o \in 1 .. minted : o = session[s].rt
    BY <1>5
  <2>2. spentBy' \in {spentBy, [spentBy EXCEPT ![o] = s]}
    BY <1>12, <2>1
  <2> QED
    BY <1>0, <1>10, <2>2, SpendingKeeps
<1>14. spentBy'[t.rt] # s \/ s \in lost'
  <2>1. CASE Rotates
    <3>1. spentBy[g] = None
      <4>1. ~(g <= minted)
        BY <1>2, <1>3
      <4> QED
        BY <1>0, <4>1 DEF SpentRight
    <3>2. spentBy'[g] = spentBy[g]
      BY <1>2, <1>5, <1>12, <2>1
    <3> QED
      BY <1>2, <1>6, <1>8, <2>1, <3>1, <3>2
  <2>2. CASE ~Rotates
    BY <1>0, <1>5, <1>6, <1>8, <1>12, <2>2
  <2> QED
    BY <2>1, <2>2
<1>15. SessionsInv /\ TRUE \in BOOLEAN /\ lost' \subseteq Session /\ lost \subseteq lost'
  BY <1>0, <1>2
<1> QED
  BY <1>0, <1>1, <1>8, <1>9, <1>10, <1>11, <1>13, <1>14, <1>15, SettleKeeps

-----------------------------------------------------------------------------
(* Everything else *)

\* The provider issues a grant to a client, or time passes over one.
LEMMA IssuesKeep ==
    ASSUME SessionsInv, UNCHANGED <<deployment, session, request, cached, minter, lost, restarts>>,
           minted' \in minted .. MaxGrants, aged \subseteq aged', aged' \subseteq 1 .. minted',
           known' \subseteq 1 .. minted', held' \subseteq 1 .. minted',
           spentBy' \in [Grant -> Session \cup {"client", None}],
           \A g \in Grant : spentBy'[g] \in {spentBy[g], "client"} /\ (spentBy'[g] # None => g <= minted')
    PROVE  SessionsInv'
<1> USE SessionsTyped DEF SessionsInv
<1>1. TypeOK'
  <2>1. minted' \in 0 .. MaxGrants /\ known' \cup held' \cup aged' \subseteq 1 .. minted'
    OBVIOUS
  <2>2. \A s \in Session : InFlight(session[s]) /\ session[s].state = "live" =>
            request[session[s].leader].at = "exchanging" /\ request[session[s].leader].of = s
    BY DEF TypeOK
  <2> QED
    BY <2>1, <2>2 DEF TypeOK
<1>2. ASSUME NEW r \in Request PROVE RequestRight(r)'
  <2>1. RequestRight(r) /\ Bearers' = Bearers
    BY DEF Bearers
  <2> QED
    BY <2>1 DEF RequestRight, IsLive
<1>3. ASSUME NEW s \in Session PROVE SessionRight(s)'
  <2>1. SessionRight(s) /\ (session[s].rt \in 1 .. minted => session[s].rt \in Grant /\ session[s].rt \in 1 .. minted')
    BY DEF Grant
  <2> QED
    BY <2>1 DEF SessionRight
<1>4. SpentRight'
  BY DEF SpentRight
<1> QED
  BY <1>1, <1>2, <1>3, <1>4

LEMMA ProviderKeeps ==
    ASSUME SessionsInv, UNCHANGED deployment, NEW g \in Grant, Login \/ ClientRefreshes(g) \/ Ages(g)
    PROVE  SessionsInv'
<1>1. CASE Login
  <2> USE SessionsTyped DEF SessionsInv
  <2>1. /\ UNCHANGED <<deployment, session, request, cached, minter, lost, restarts, aged, spentBy>>
        /\ minted' = minted + 1 /\ minted < MaxGrants
        /\ held' = held \cup {minted'} /\ known' = known \cup {minted'}
    BY <1>1 DEF Login
  <2>2. minted' \in minted .. MaxGrants /\ 1 .. minted \subseteq 1 .. minted' /\ minted' \in 1 .. minted'
    BY <2>1
  <2>3. \A h \in Grant : spentBy'[h] \in {spentBy[h], "client"} /\ (spentBy'[h] # None => h <= minted')
    <3>1. minted \in Nat /\ \A h \in Grant : h \in Nat
      BY DEF Grant
    <3> QED
      BY <2>1, <3>1 DEF SpentRight
  <2>4. /\ aged \subseteq aged' /\ aged' \subseteq 1 .. minted' /\ known' \subseteq 1 .. minted'
        /\ held' \subseteq 1 .. minted' /\ spentBy' \in [Grant -> Session \cup {"client", None}]
    BY <2>1, <2>2
  <2>5. SessionsInv
    OBVIOUS
  <2> HIDE DEF SessionsInv
  <2> QED
    BY <2>1, <2>2, <2>3, <2>4, <2>5, IssuesKeep
<1>2. CASE ClientRefreshes(g)
  <2> USE SessionsTyped DEF SessionsInv
  <2>1. /\ UNCHANGED <<deployment, session, request, cached, minter, lost, restarts, aged>>
        /\ minted' = minted + 1 /\ minted < MaxGrants /\ g \in held
        /\ held' = held \cup {minted'} /\ known' = known \cup {minted'}
        /\ spentBy' \in {spentBy, [spentBy EXCEPT ![g] = "client"]}
    BY <1>2 DEF ClientRefreshes, Spends
  <2>2. minted' \in minted .. MaxGrants /\ 1 .. minted \subseteq 1 .. minted' /\ minted' \in 1 .. minted'
    BY <2>1
  <2>3. \A h \in Grant : spentBy'[h] \in {spentBy[h], "client"} /\ (spentBy'[h] # None => h <= minted')
    <3>1. PICK k \in 1 .. minted : k = g
      BY <2>1
    <3> QED
      BY <2>1, <2>2, <3>1, SpendingKeeps
  <2>4. /\ aged \subseteq aged' /\ aged' \subseteq 1 .. minted' /\ known' \subseteq 1 .. minted'
        /\ held' \subseteq 1 .. minted' /\ spentBy' \in [Grant -> Session \cup {"client", None}]
    BY <2>1, <2>2
  <2>5. SessionsInv
    OBVIOUS
  <2> HIDE DEF SessionsInv
  <2> QED
    BY <2>1, <2>2, <2>3, <2>4, <2>5, IssuesKeep
<1>3. CASE Ages(g)
  <2> USE SessionsTyped DEF SessionsInv
  <2>1. /\ UNCHANGED <<deployment, session, request, cached, minter, lost, restarts, spentBy, minted, known, held>>
        /\ g \in 1 .. minted /\ aged' = aged \cup {g}
    BY <1>3 DEF Ages, provider
  <2>2. minted' \in minted .. MaxGrants
    BY <2>1
  <2>3. \A h \in Grant : spentBy'[h] \in {spentBy[h], "client"} /\ (spentBy'[h] # None => h <= minted')
    BY <2>1 DEF SpentRight
  <2>4. /\ aged \subseteq aged' /\ aged' \subseteq 1 .. minted' /\ known' \subseteq 1 .. minted'
        /\ held' \subseteq 1 .. minted' /\ spentBy' \in [Grant -> Session \cup {"client", None}]
    BY <2>1
  <2>5. SessionsInv
    OBVIOUS
  <2> HIDE DEF SessionsInv
  <2> QED
    BY <2>1, <2>2, <2>3, <2>4, <2>5, IssuesKeep
<1> QED
  BY <1>1, <1>2, <1>3

\* A request that neither exchanges nor waits begins, is sent, refused or over.
LEMMA RequestMoves ==
    ASSUME SessionsInv, NEW r \in Request, request[r].at \notin {"exchanging", "waiting"},
           NEW q \in RequestRecord, request' = [request EXCEPT ![r] = q],
           q.at \in {"idle", "validating", "sent", "refused"},
           q.at # "idle" => /\ q.of \in Session /\ session[q.of].state # "unborn"
                            /\ "newer" \notin Bearers => q.bearer \in {NoGrant, session[q.of].origin},
           q.at = "refused" => ~IsLive(q.of) \/ q.bearer \in aged,
           cached' \in [Session -> [made : BOOLEAN, with : Credential]],
           session' \in [Session -> SessionRecord],
           \A s \in Session : /\ session'[s].state = session[s].state /\ session'[s].origin = session[s].origin
                              /\ session'[s].rt = session[s].rt /\ session'[s].exp = session[s].exp
                              /\ session'[s].leader = session[s].leader,
           UNCHANGED <<deployment, known, provider, aged, restarts>>
    PROVE  SessionsInv'
<1>0. /\ UNCHANGED <<deployment, known, minted, minter, held, spentBy, lost, aged, restarts>>
      /\ TypeOK /\ SpentRight /\ Bearers' = Bearers
  BY DEF provider, SessionsInv, Bearers
<1>1. /\ request' \in [Request -> RequestRecord] /\ request'[r] = q
      /\ \A p \in Request : p # r => request'[p] = request[p]
  BY <1>0, SessionsTyped
<1>2. TypeOK'
  <2>1. ASSUME NEW s \in Session, InFlight(session'[s]), session'[s].state = "live"
        PROVE  request'[session'[s].leader].at = "exchanging" /\ request'[session'[s].leader].of = s
    <3>1. PICK p : p = session[s].leader
      OBVIOUS
    <3>2. session[s] \in SessionRecord /\ session'[s].leader = p /\ session[s].state = "live" /\ p # None
      BY <1>0, <2>1, <3>1, SessionsTyped DEF InFlight
    <3>3. p \in Request /\ request[p].at = "exchanging" /\ request[p].of = s
      BY <1>0, <3>1, <3>2 DEF TypeOK, InFlight, SessionRecord
    <3> QED
      BY <1>1, <3>2, <3>3
  <2> QED
    BY <1>0, <1>1, <2>1 DEF TypeOK
<1>3. ASSUME NEW p \in Request PROVE RequestRight(p)'
  <2>1. RequestRight(p)
    BY DEF SessionsInv
  <2>2. CASE p = r
    BY <1>0, <1>1, <2>2 DEF RequestRight, IsLive
  <2>3. CASE p # r
    <3>1. request'[p] = request[p]
      BY <1>1, <2>3
    <3> QED
      BY <1>0, <2>1, <3>1 DEF RequestRight, IsLive
  <2> QED
    BY <2>2, <2>3
<1>4. ASSUME NEW s \in Session PROVE SessionRight(s)'
  <2>1. SessionRight(s)
    BY DEF SessionsInv
  <2> QED
    BY <1>0, <2>1 DEF SessionRight
<1>5. SpentRight'
  BY <1>0 DEF SpentRight
<1> QED
  BY <1>2, <1>3, <1>4, <1>5 DEF SessionsInv

\* Sessions end, or grow idle; with a restart all requests are forgotten.
LEMMA SessionsEnd ==
    ASSUME SessionsInv, session' \in [Session -> SessionRecord],
           \A s \in Session :
              /\ session'[s].origin = session[s].origin /\ session'[s].rt = session[s].rt
              /\ session'[s].exp = session[s].exp /\ session'[s].leader = session[s].leader
              /\ \/ session'[s].state = session[s].state
                 \/ session[s].state # "unborn" /\ session'[s].state = "gone",
           known' \subseteq known, cached' \in [Session -> [made : BOOLEAN, with : Credential]],
           \/ request' = request
           \/ request' = [r \in Request |-> NoRequest] /\ \A s \in Session : session'[s].state # "live",
           restarts' \in 0 .. MaxRestarts, UNCHANGED <<deployment, provider, aged>>
    PROVE  SessionsInv'
<1>0. /\ UNCHANGED <<deployment, minted, minter, held, spentBy, lost, aged>>
      /\ TypeOK /\ SpentRight /\ Bearers' = Bearers
  BY DEF provider, SessionsInv, Bearers
<1>1. NoRequest \in RequestRecord /\ NoRequest.at = "idle"
  BY DEF NoRequest, RequestRecord, Anonymous, Credential
<1>2. TypeOK'
  <2>1. request' \in [Request -> RequestRecord]
    BY <1>0, <1>1, SessionsTyped
  <2>2. ASSUME NEW s \in Session, InFlight(session'[s]), session'[s].state = "live"
        PROVE  request'[session'[s].leader].at = "exchanging" /\ request'[session'[s].leader].of = s
    <3>1. request' = request /\ InFlight(session[s]) /\ session[s].state = "live"
      BY <2>2 DEF InFlight
    <3> QED
      BY <1>0, <3>1 DEF TypeOK
  <2>3. known' \cup held' \cup aged' \subseteq 1 .. minted'
    BY <1>0, SessionsTyped
  <2> QED
    BY <1>0, <2>1, <2>2, <2>3 DEF TypeOK
<1>3. ASSUME NEW r \in Request PROVE RequestRight(r)'
  <2>1. RequestRight(r)
    BY DEF SessionsInv
  <2>2. CASE request' = request
    BY <1>0, <2>1, <2>2 DEF RequestRight, IsLive
  <2>3. CASE request' = [p \in Request |-> NoRequest]
    BY <1>1, <2>3 DEF RequestRight
  <2> QED
    BY <2>2, <2>3
<1>4. ASSUME NEW s \in Session PROVE SessionRight(s)'
  <2>1. SessionRight(s)
    BY DEF SessionsInv
  <2> QED
    BY <1>0, <2>1 DEF SessionRight
<1>5. SpentRight'
  BY <1>0 DEF SpentRight
<1> QED
  BY <1>2, <1>3, <1>4, <1>5 DEF SessionsInv

LEMMA EndsKeep ==
    ASSUME SessionsInv, UNCHANGED deployment, NEW ss \in SUBSET Session, \A s \in ss : IsLive(s), Destroys(ss)
    PROVE  SessionsInv'
<1>1. TypeOK
  BY DEF SessionsInv
<1>2. /\ session' = [s \in Session |->
                       IF s \in ss THEN [session[s] EXCEPT !.state = "gone"] ELSE session[s]]
      /\ known' \subseteq known /\ request' = request /\ restarts' \in 0 .. MaxRestarts
      /\ UNCHANGED <<provider, aged>>
  BY <1>1, SessionsTyped DEF Destroys
<1>3. NoClient \in [made : BOOLEAN, with : Credential]
  BY DEF NoClient, Anonymous, Credential
<1>4. cached' \in [Session -> [made : BOOLEAN, with : Credential]]
  BY <1>1, <1>3, SessionsTyped DEF Destroys
<1>5. ASSUME NEW s \in Session
      PROVE  /\ session'[s] \in SessionRecord
             /\ session'[s].origin = session[s].origin /\ session'[s].rt = session[s].rt
             /\ session'[s].exp = session[s].exp /\ session'[s].leader = session[s].leader
             /\ \/ session'[s].state = session[s].state
                \/ session[s].state # "unborn" /\ session'[s].state = "gone"
  <2>1. PICK t \in SessionRecord : t = session[s]
    BY <1>1, SessionsTyped
  <2>2. PICK u : u = [t EXCEPT !.state = "gone"]
    OBVIOUS
  <2>3. /\ u \in SessionRecord /\ u.state = "gone" /\ u.origin = t.origin /\ u.rt = t.rt
        /\ u.exp = t.exp /\ u.leader = t.leader
    BY <2>2 DEF SessionRecord
  <2>4. session'[s] = IF s \in ss THEN u ELSE t
    BY <1>2, <2>1, <2>2
  <2>5. s \in ss => t.state = "live"
    BY <2>1 DEF IsLive
  <2> QED
    BY <2>1, <2>3, <2>4, <2>5
<1>6. session' \in [Session -> SessionRecord]
  BY <1>2, <1>5
<1> QED
  BY <1>2, <1>4, <1>5, <1>6, SessionsEnd

LEMMA RestartKeeps ==
    ASSUME SessionsInv, UNCHANGED deployment, Restart
    PROVE  SessionsInv'
<1>1. TypeOK
  BY DEF SessionsInv
<1>2. /\ session' = [s \in Session |->
                       IF IsLive(s) THEN [session[s] EXCEPT !.state = "gone"] ELSE session[s]]
      /\ known' \subseteq known /\ request' = [r \in Request |-> NoRequest]
      /\ UNCHANGED <<provider, aged>>
  BY DEF Restart
<1>3. restarts' \in 0 .. MaxRestarts
  BY <1>1, SessionsTyped DEF Restart
<1>4. cached' \in [Session -> [made : BOOLEAN, with : Credential]]
  <2>1. NoClient \in [made : BOOLEAN, with : Credential]
    BY DEF NoClient, Anonymous, Credential
  <2> QED
    BY <2>1 DEF Restart
<1>5. ASSUME NEW s \in Session
      PROVE  /\ session'[s] \in SessionRecord
             /\ session'[s].origin = session[s].origin /\ session'[s].rt = session[s].rt
             /\ session'[s].exp = session[s].exp /\ session'[s].leader = session[s].leader
             /\ session'[s].state # "live"
             /\ \/ session'[s].state = session[s].state
                \/ session[s].state # "unborn" /\ session'[s].state = "gone"
  <2>1. PICK t \in SessionRecord : t = session[s]
    BY <1>1, SessionsTyped
  <2>2. PICK u : u = [t EXCEPT !.state = "gone"]
    OBVIOUS
  <2>3. /\ u \in SessionRecord /\ u.state = "gone" /\ u.origin = t.origin /\ u.rt = t.rt
        /\ u.exp = t.exp /\ u.leader = t.leader
    BY <2>2 DEF SessionRecord
  <2>4. session'[s] = IF t.state = "live" THEN u ELSE t
    BY <1>2, <2>1, <2>2 DEF IsLive
  <2> QED
    BY <2>1, <2>3, <2>4
<1>6. session' \in [Session -> SessionRecord]
  BY <1>2, <1>5
<1> QED
  BY <1>2, <1>3, <1>4, <1>5, <1>6, SessionsEnd

LEMMA IdlesKeeps ==
    ASSUME SessionsInv, UNCHANGED deployment, NEW s \in Session, Idles(s)
    PROVE  SessionsInv'
<1>1. TypeOK
  BY DEF SessionsInv
<1>2. PICK t \in SessionRecord : t = session[s]
  BY <1>1, SessionsTyped
<1>3. PICK u : u = [t EXCEPT !.idle = TRUE]
  OBVIOUS
<1>4. /\ u \in SessionRecord /\ u.state = t.state /\ u.origin = t.origin /\ u.rt = t.rt
      /\ u.exp = t.exp /\ u.leader = t.leader
  BY <1>3 DEF SessionRecord
<1>5. session' = [session EXCEPT ![s] = u]
  BY <1>2, <1>3 DEF Idles
<1>6. /\ session' \in [Session -> SessionRecord] /\ session'[s] = u
      /\ \A v \in Session : v # s => session'[v] = session[v]
  BY <1>1, <1>4, <1>5, SessionsTyped
<1>7. /\ known' \subseteq known /\ request' = request /\ restarts' \in 0 .. MaxRestarts
      /\ cached' \in [Session -> [made : BOOLEAN, with : Credential]]
      /\ UNCHANGED <<provider, aged>>
  BY <1>1, SessionsTyped DEF Idles
<1>8. \A v \in Session :
         /\ session'[v].origin = session[v].origin /\ session'[v].rt = session[v].rt
         /\ session'[v].exp = session[v].exp /\ session'[v].leader = session[v].leader
         /\ session'[v].state = session[v].state
  BY <1>2, <1>4, <1>6
<1> QED
  BY <1>6, <1>7, <1>8, SessionsEnd

\* initialize: a new session of an envelope whose refresh token it has not spent.
LEMMA InitializeKeeps ==
    ASSUME SessionsInv, UNCHANGED deployment, NEW s \in Session, NEW g \in Grant, Initialize(s, g)
    PROVE  SessionsInv'
<1>0. /\ UNCHANGED <<deployment, cached, request, minted, minter, held, spentBy, lost, aged, restarts>>
      /\ TypeOK /\ SpentRight /\ Bearers' = Bearers
      /\ session[s].state = "unborn" /\ g \in held /\ known' = known \cup {g}
  BY DEF provider, SessionsInv, Bearers, Initialize, Entered
<1>1. PICK n : n = [Unborn EXCEPT !.state = "live", !.origin = g, !.token = g, !.rt = g, !.exp = g]
  OBVIOUS
<1>2. /\ n \in SessionRecord /\ n.state = "live" /\ n.origin = g /\ n.rt = g /\ n.exp = g /\ n.leader = None
  BY <1>1 DEF Unborn, SessionRecord
<1>3. session' = [session EXCEPT ![s] = n]
  BY <1>1 DEF Initialize
<1>4. /\ session' \in [Session -> SessionRecord] /\ session'[s] = n
      /\ \A v \in Session : v # s => session'[v] = session[v]
  BY <1>0, <1>2, <1>3, SessionsTyped
<1>5. g \in 1 .. minted
  BY <1>0, SessionsTyped
<1>6. TypeOK'
  <2>1. ASSUME NEW v \in Session, InFlight(session'[v]), session'[v].state = "live"
        PROVE  request'[session'[v].leader].at = "exchanging" /\ request'[session'[v].leader].of = v
    <3>1. v # s
      BY <1>2, <1>4, <2>1 DEF InFlight
    <3>2. session'[v] = session[v]
      BY <1>4, <3>1
    <3> QED
      BY <1>0, <2>1, <3>2 DEF TypeOK
  <2>2. known' \cup held' \cup aged' \subseteq 1 .. minted'
    BY <1>0, <1>5, SessionsTyped
  <2> QED
    BY <1>0, <1>4, <2>1, <2>2 DEF TypeOK
<1>7. ASSUME NEW r \in Request PROVE RequestRight(r)'
  <2>1. RequestRight(r)
    BY DEF SessionsInv
  <2>2. request[r].at # "idle" => request[r].of \in Session /\ session'[request[r].of] = session[request[r].of]
    BY <1>0, <1>4, <2>1 DEF RequestRight
  <2> QED
    BY <1>0, <2>1, <2>2 DEF RequestRight, IsLive
<1>8. ASSUME NEW v \in Session PROVE SessionRight(v)'
  <2>1. CASE v = s
    BY <1>0, <1>2, <1>4, <1>5, <2>1 DEF SessionRight, SpentRight
  <2>2. CASE v # s
    <3>1. SessionRight(v) /\ session'[v] = session[v]
      BY <1>4, <2>2 DEF SessionsInv
    <3> QED
      BY <1>0, <3>1 DEF SessionRight
  <2> QED
    BY <2>1, <2>2
<1>9. SpentRight'
  BY <1>0, <1>2, <1>4 DEF SpentRight
<1> QED
  BY <1>6, <1>7, <1>8, <1>9 DEF SessionsInv

\* A request that is being handled belongs to a session, and what it presents is
\* its session's.
LEMMA HandledRequest ==
    ASSUME SessionsInv, NEW r \in Request, request[r].at # "idle"
    PROVE  /\ request[r] \in RequestRecord /\ request[r].of \in Session
           /\ session[request[r].of].state # "unborn" /\ session[request[r].of] \in SessionRecord
           /\ "newer" \notin Bearers => request[r].bearer \in {NoGrant, session[request[r].of].origin}
BY SessionsTyped DEF SessionsInv, RequestRight

\* handlePost: the bearer is checked, or the token.
LEMMA PostKeeps ==
    ASSUME SessionsInv, UNCHANGED deployment, NEW r \in Request, NEW s \in Session,
           NEW g \in Grant \cup {NoGrant}, Post(r, s, g)
    PROVE  SessionsInv'
<1>1. /\ request[r].at = "idle" /\ session[s].state = "live" /\ g \in Bearer(s) /\ TypeOK
      /\ UNCHANGED <<deployment, cached, known, provider, aged, restarts>>
  BY DEF Post, IsLive, SessionsInv
<1>2. "newer" \notin Bearers => g \in {NoGrant, session[s].origin}
  BY <1>1 DEF Bearer
<1>3. PICK o \in SessionRecord : o = session[s]
  BY <1>1, SessionsTyped
<1>4. PICK rec : rec = [NoRequest EXCEPT !.of = s, !.bearer = g]
  OBVIOUS
<1>5. rec \in RequestRecord /\ rec.of = s /\ rec.bearer = g
  <2>1. NoRequest \in RequestRecord
    BY DEF NoRequest, RequestRecord, Anonymous, Credential
  <2>2. PICK z \in RequestRecord : z = NoRequest
    BY <2>1
  <2>3. rec = [z EXCEPT !.of = s, !.bearer = g]
    BY <1>4, <2>2
  <2> QED
    BY <2>3 DEF RequestRecord
<1>6. PICK t : t = [o EXCEPT !.idle = FALSE]
  OBVIOUS
<1>7. /\ t \in SessionRecord /\ t.state = o.state /\ t.origin = o.origin /\ t.rt = o.rt
      /\ t.exp = o.exp /\ t.leader = o.leader
  BY <1>6 DEF SessionRecord
<1>8. CASE Replaces(s, g) /\ Validates
  <2>1. PICK q : q = [rec EXCEPT !.at = "validating"]
    OBVIOUS
  <2>2. q \in RequestRecord /\ q.at = "validating" /\ q.of = s /\ q.bearer = g
    BY <1>5, <2>1 DEF RequestRecord
  <2>3. session' = [session EXCEPT ![s] = t] /\ request' = [request EXCEPT ![r] = q]
    BY <1>3, <1>4, <1>6, <1>8, <2>1 DEF Post
  <2>4. /\ session' \in [Session -> SessionRecord] /\ session'[s] = t
        /\ \A v \in Session : v # s => session'[v] = session[v]
    BY <1>1, <1>7, <2>3, SessionsTyped
  <2>5. /\ \A v \in Session :
             /\ session'[v].state = session[v].state /\ session'[v].origin = session[v].origin
             /\ session'[v].rt = session[v].rt /\ session'[v].exp = session[v].exp
             /\ session'[v].leader = session[v].leader
        /\ cached' \in [Session -> [made : BOOLEAN, with : Credential]]
    BY <1>1, <1>3, <1>7, <2>4, SessionsTyped
  <2> QED
    BY <1>1, <1>2, <2>2, <2>3, <2>4, <2>5, RequestMoves
<1>9. CASE ~(Replaces(s, g) /\ Validates)
  <2>1. PICK u : u = IF Replaces(s, g) THEN [t EXCEPT !.token = g] ELSE t
    OBVIOUS
  <2>2. /\ u \in SessionRecord /\ u.state = o.state /\ u.origin = o.origin /\ u.rt = o.rt
        /\ u.exp = o.exp /\ u.leader = o.leader
    <3>1. CASE Replaces(s, g)
      BY <1>7, <2>1, <3>1 DEF SessionRecord
    <3>2. CASE ~Replaces(s, g)
      BY <1>7, <2>1, <3>2
    <3> QED
      BY <3>1, <3>2
  <2>3. EnsureValid(r, rec, u)
    BY <1>3, <1>4, <1>6, <1>9, <2>1 DEF Post
  <2> QED
    BY <1>1, <1>2, <1>3, <1>5, <2>2, <2>3, EnsureValidKeeps
<1> QED
  BY <1>8, <1>9

LEMMA BearerAcceptedKeeps ==
    ASSUME SessionsInv, UNCHANGED deployment, NEW r \in Request, BearerAccepted(r)
    PROVE  SessionsInv'
<1>1. /\ request[r].at = "validating"
      /\ EnsureValid(r, request[r], [session[request[r].of] EXCEPT !.token = request[r].bearer])
      /\ UNCHANGED <<deployment, cached, known, provider, aged, restarts>>
  BY DEF BearerAccepted
<1>2. PICK s \in Session : s = request[r].of
  BY <1>1, HandledRequest
<1>3. PICK rec \in RequestRecord : rec = request[r]
  BY <1>1, HandledRequest
<1>4. PICK o \in SessionRecord : o = session[s]
  BY <1>1, <1>2, HandledRequest
<1>5. PICK t : t = [o EXCEPT !.token = rec.bearer]
  OBVIOUS
<1>6. /\ t \in SessionRecord /\ t.state = o.state /\ t.origin = o.origin /\ t.rt = o.rt
      /\ t.exp = o.exp /\ t.leader = o.leader
  BY <1>5 DEF SessionRecord, RequestRecord
<1>7. EnsureValid(r, rec, t)
  BY <1>1, <1>2, <1>3, <1>4, <1>5
<1>8. /\ request[r].at \notin {"exchanging", "waiting"} /\ session[s].state # "unborn" /\ rec.of = s
      /\ "newer" \notin Bearers => rec.bearer \in {NoGrant, session[s].origin}
  BY <1>1, <1>2, <1>3, HandledRequest
<1> QED
  BY <1>1, <1>4, <1>6, <1>7, <1>8, EnsureValidKeeps

\* The later checks of the token, of one message.
LEMMA NextCheckKeeps ==
    ASSUME SessionsInv, UNCHANGED deployment, NEW r \in Request, HandleMessage(r) \/ CallApi(r)
    PROVE  SessionsInv'
<1>1. PICK n \in 1 .. 3 :
        /\ request[r].at = "checked"
        /\ EnsureValid(r, [request[r] EXCEPT !.round = n], session[request[r].of])
        /\ UNCHANGED <<deployment, cached, known, provider, aged, restarts>>
  BY DEF HandleMessage, CallApi, IsChecked
<1>2. PICK s \in Session : s = request[r].of
  BY <1>1, HandledRequest
<1>3. PICK o \in SessionRecord : o = session[s]
  BY <1>1, <1>2, HandledRequest
<1>4. PICK q \in RequestRecord : q = request[r]
  BY <1>1, HandledRequest
<1>5. PICK rec : rec = [q EXCEPT !.round = n]
  OBVIOUS
<1>6. rec \in RequestRecord /\ rec.of = q.of /\ rec.bearer = q.bearer
  BY <1>5 DEF RequestRecord
<1>7. EnsureValid(r, rec, o)
  BY <1>1, <1>2, <1>3, <1>4, <1>5
<1>8. /\ request[r].at \notin {"exchanging", "waiting"} /\ session[s].state # "unborn" /\ rec.of = s
      /\ "newer" \notin Bearers => rec.bearer \in {NoGrant, session[s].origin}
  BY <1>1, <1>2, <1>4, <1>6, HandledRequest
<1> QED
  BY <1>1, <1>3, <1>6, <1>7, <1>8, EnsureValidKeeps

LEMMA CredentialTyped ==
    ASSUME TypeOK, NEW s \in Session
    PROVE  SessionCredential(s) \in Credential
<1>1. session[s].token \in Grant \cup {NoGrant}
  BY SessionsTyped DEF SessionRecord
<1> QED
  BY <1>1 DEF SessionCredential, Anonymous, Credential

\* A call goes out, or the request is refused or over.
LEMMA RequestEndsKeep ==
    ASSUME SessionsInv, UNCHANGED deployment, NEW r \in Request,
           BearerRejected(r) \/ Unauthenticated(r) \/ CallUpstream(r) \/ SendToApi(r) \/ Answered(r)
    PROVE  SessionsInv'
<1>1. /\ request[r].at \in {"validating", "checked", "sent", "refused"}
      /\ UNCHANGED <<deployment, session, known, provider, aged, restarts>> /\ TypeOK
  BY DEF BearerRejected, Unauthenticated, CallUpstream, SendToApi, Answered, IsChecked, SessionsInv
<1>2. PICK s \in Session : s = request[r].of
  BY <1>1, HandledRequest
<1>3. PICK rec \in RequestRecord : rec = request[r]
  BY <1>1, HandledRequest
<1>4. /\ rec.of = s /\ session[s].state # "unborn"
      /\ "newer" \notin Bearers => rec.bearer \in {NoGrant, session[s].origin}
  BY <1>1, <1>2, <1>3, HandledRequest
<1>5. PICK q :
        /\ q \in RequestRecord /\ request' = [request EXCEPT ![r] = q]
        /\ q.at \in {"idle", "sent", "refused"}
        /\ q.at # "idle" => q.of = rec.of /\ q.bearer = rec.bearer
        /\ q.at = "refused" => ~IsLive(q.of) \/ q.bearer \in aged
        /\ cached' \in [Session -> [made : BOOLEAN, with : Credential]]
  <2>1. CASE BearerRejected(r) \/ Unauthenticated(r)
    <3>1. PICK q : q = [rec EXCEPT !.at = "refused"]
      OBVIOUS
    <3>2. q \in RequestRecord /\ q.at = "refused" /\ q.of = rec.of /\ q.bearer = rec.bearer
      BY <3>1 DEF RequestRecord
    <3>3. request' = [request EXCEPT ![r] = q] /\ cached' = cached /\ (~IsLive(rec.of) \/ rec.bearer \in aged)
      BY <1>3, <2>1, <3>1 DEF BearerRejected, Unauthenticated
    <3> QED
      BY <1>1, <3>2, <3>3, SessionsTyped
  <2>2. CASE CallUpstream(r)
    <3>1. PICK c \in Credential : c = SessionCredential(s)
      BY <1>1, CredentialTyped
    <3>2. PICK q : q = [rec EXCEPT !.at = "sent", !.sent = c]
      OBVIOUS
    <3>3. q \in RequestRecord /\ q.at = "sent" /\ q.of = rec.of /\ q.bearer = rec.bearer
      BY <3>2 DEF RequestRecord
    <3>4. request' = [request EXCEPT ![r] = q] /\ cached' = cached
      BY <1>2, <1>3, <2>2, <3>1, <3>2 DEF CallUpstream, Sends
    <3> QED
      BY <1>1, <3>3, <3>4, SessionsTyped
  <2>3. CASE SendToApi(r)
    <3>1. PICK a \in [made : BOOLEAN, with : Credential] : a = ApiClient(s)
      BY <1>1, CredentialTyped, SessionsTyped DEF ApiClient
    <3>2. PICK q : q = [rec EXCEPT !.at = "sent", !.sent = a.with]
      OBVIOUS
    <3>3. q \in RequestRecord /\ q.at = "sent" /\ q.of = rec.of /\ q.bearer = rec.bearer
      BY <3>2 DEF RequestRecord
    <3>4. request' = [request EXCEPT ![r] = q] /\ cached' = [cached EXCEPT ![s] = a]
      BY <1>2, <1>3, <2>3, <3>1, <3>2 DEF SendToApi, Sends
    <3> QED
      BY <1>1, <3>1, <3>3, <3>4, SessionsTyped
  <2>4. CASE Answered(r)
    <3>1. NoRequest \in RequestRecord /\ NoRequest.at = "idle"
      BY DEF NoRequest, RequestRecord, Anonymous, Credential
    <3> QED
      BY <1>1, <2>4, <3>1, SessionsTyped DEF Answered
  <2> QED
    BY <2>1, <2>2, <2>3, <2>4
<1>6. /\ session' \in [Session -> SessionRecord]
      /\ \A v \in Session : /\ session'[v].state = session[v].state /\ session'[v].origin = session[v].origin
                            /\ session'[v].rt = session[v].rt /\ session'[v].exp = session[v].exp
                            /\ session'[v].leader = session[v].leader
  BY <1>1, SessionsTyped
<1>7. q.at # "idle" => /\ q.of \in Session /\ session[q.of].state # "unborn"
                       /\ "newer" \notin Bearers => q.bearer \in {NoGrant, session[q.of].origin}
  BY <1>4, <1>5
<1> QED
  BY <1>1, <1>5, <1>6, <1>7, RequestMoves

-----------------------------------------------------------------------------
LEMMA SessionsInvInit == Init => SessionsInv
<1> SUFFICES ASSUME Init PROVE SessionsInv
  OBVIOUS
<1>1. Unborn \in SessionRecord /\ Unborn.state = "unborn" /\ Unborn.leader = None
  BY DEF Unborn, SessionRecord
<1>2. NoRequest \in RequestRecord /\ NoRequest.at = "idle"
  BY DEF NoRequest, RequestRecord, Anonymous, Credential
<1>3. NoClient \in [made : BOOLEAN, with : Credential]
  BY DEF NoClient, Anonymous, Credential
<1>4. TypeOK
  <2>1. /\ deployment \in Deployments /\ session = [s \in Session |-> Unborn]
        /\ cached = [s \in Session |-> NoClient] /\ request = [r \in Request |-> NoRequest]
        /\ known \cup held \cup aged = {} /\ minted = 0 /\ minter = [g \in Grant |-> None]
        /\ spentBy = [g \in Grant |-> None] /\ lost = {} /\ restarts = 0
    BY DEF Init
  <2>2. MaxGrants \in Nat /\ MaxRestarts \in Nat
    BY ConstantsAssumption
  <2>3. \A s \in Session : ~InFlight(session[s])
    BY <1>1, <2>1 DEF InFlight
  <2>4. /\ session \in [Session -> SessionRecord] /\ request \in [Request -> RequestRecord]
        /\ cached \in [Session -> [made : BOOLEAN, with : Credential]]
        /\ minter \in [Grant -> Session \cup {None}]
        /\ spentBy \in [Grant -> Session \cup {"client", None}]
    BY <1>1, <1>2, <1>3, <2>1
  <2>5. /\ minted \in 0 .. MaxGrants /\ restarts \in 0 .. MaxRestarts /\ lost \subseteq Session
        /\ known \cup held \cup aged \subseteq 1 .. minted
    BY <2>1, <2>2
  <2> QED
    BY <2>1, <2>3, <2>4, <2>5 DEF TypeOK
<1>5. \A r \in Request : RequestRight(r)
  BY <1>2 DEF Init, RequestRight
<1>6. \A s \in Session : SessionRight(s)
  BY <1>1 DEF Init, SessionRight
<1>7. SpentRight
  BY ConstantsAssumption DEF Init, SpentRight
<1> QED
  BY <1>4, <1>5, <1>6, <1>7 DEF SessionsInv

LEMMA SessionsStep == SessionsInv /\ [Next]_<<vars, deployment>> => SessionsInv'
<1> SUFFICES ASSUME SessionsInv, [Next]_<<vars, deployment>> PROVE SessionsInv'
  OBVIOUS
<1>1. CASE UNCHANGED <<vars, deployment>>
  <2>1. /\ UNCHANGED <<deployment, session, cached, known, request, minted, minter, held, aged,
                       spentBy, lost, restarts>>
        /\ TypeOK /\ SpentRight /\ Bearers' = Bearers
    BY <1>1 DEF vars, SessionsInv, Bearers
  <2>2. TypeOK'
    BY <2>1 DEF TypeOK, InFlight
  <2>3. \A r \in Request : RequestRight(r)'
    BY <2>1 DEF SessionsInv, RequestRight, IsLive
  <2>4. \A s \in Session : SessionRight(s)'
    BY <2>1 DEF SessionsInv, SessionRight
  <2>5. SpentRight'
    BY <2>1 DEF SpentRight
  <2> QED
    BY <2>2, <2>3, <2>4, <2>5 DEF SessionsInv
<1>2. CASE Next
  <2>0. UNCHANGED deployment
    BY <1>2 DEF Next
  <2>1. CASE Login
    <3>1. CASE Grant = {}
      BY <2>1, <3>1, SessionsTyped DEF Login, Grant, SessionsInv
    <3>2. CASE Grant # {}
      BY <2>0, <2>1, <3>2, ProviderKeeps
    <3> QED
      BY <3>1, <3>2
  <2>2. ASSUME NEW g \in Grant, ClientRefreshes(g) \/ Ages(g) PROVE SessionsInv'
    BY <2>0, <2>2, ProviderKeeps
  <2>3. ASSUME NEW s \in Session, NEW g \in Grant, Initialize(s, g) PROVE SessionsInv'
    BY <2>0, <2>3, InitializeKeeps
  <2>4. ASSUME NEW s \in Session, EndSession(s) PROVE SessionsInv'
    BY <2>0, <2>4, EndsKeep DEF EndSession
  <2>5. ASSUME NEW s \in Session, Idles(s) PROVE SessionsInv'
    BY <2>0, <2>5, IdlesKeeps
  <2>6. CASE CleanupExpiredSessions
    <3>1. Expired \in SUBSET Session /\ (\A s \in Expired : IsLive(s)) /\ Destroys(Expired)
      BY <2>6 DEF CleanupExpiredSessions, Expired
    <3>2. PICK ss \in SUBSET Session : ss = Expired
      BY <3>1
    <3> QED
      BY <2>0, <3>1, <3>2, EndsKeep
  <2>7. CASE Restart
    BY <2>0, <2>7, RestartKeeps
  <2>8. ASSUME NEW r \in Request, NEW s \in Session, NEW g \in Grant \cup {NoGrant}, Post(r, s, g)
        PROVE  SessionsInv'
    BY <2>0, <2>8, PostKeeps
  <2>9. ASSUME NEW r \in Request, RunsOn(r) PROVE SessionsInv'
    BY <2>0, <2>9, NextCheckKeeps, RequestEndsKeep DEF RunsOn
  <2>10. ASSUME NEW r \in Request, Continues(r) PROVE SessionsInv'
    BY <2>0, <2>10, RefreshSucceedsKeeps, RefreshEndsKeeps, BearerAcceptedKeeps, RequestEndsKeep
       DEF Continues
  <2> QED
    BY <1>2, <2>1, <2>2, <2>3, <2>4, <2>5, <2>6, <2>7, <2>8, <2>9, <2>10 DEF Next
<1> QED
  BY <1>1, <1>2

\* The sessions are as SessionsInv says in every reachable state.
THEOREM SessionsRight == Spec => []SessionsInv
<1> QED
  BY SessionsInvInit, SessionsStep, PTL DEF Spec

\* A session never presents a refresh token it has used up itself, unless the
\* answer of the exchange was lost (refreshAccessToken's single flight).
THEOREM RefreshTokenSpentOnce == Spec => []SpendsOnce
<1>1. SessionsInv => SpendsOnce
  <2> SUFFICES ASSUME SessionsInv PROVE SpendsOnce
    OBVIOUS
  <2>1. ASSUME NEW r \in Request, request[r].at = "exchanging"
        PROVE  spentBy[request[r].rt] # request[r].of \/ request[r].of \in lost
    BY <2>1 DEF SessionsInv, RequestRight, SessionRight
  <2>2. ASSUME NEW s \in Session, IsLive(s)
        PROVE  spentBy[session[s].rt] # s \/ s \in lost
    BY <2>2 DEF SessionsInv, SessionRight, IsLive
  <2> QED
    BY <2>1, <2>2 DEF SpendsOnce
<1> QED
  BY <1>1, SessionsRight, PTL

\* A request of a live session whose bearer is not newer than the session is
\* refused only when that bearer has expired (ensureValidSessionToken).
THEOREM FreshBearerIsServed == Spec => []FreshBearerServed
<1>1. SessionsInv => FreshBearerServed
  BY DEF SessionsInv, RequestRight, FreshBearerServed
<1> QED
  BY <1>1, SessionsRight, PTL

-----------------------------------------------------------------------------
(* The stream of notifications *)

Numbers == [id : Nat, notice : Nat]
Rising(s) == \A i, j \in DOMAIN s : i < j => s[i].id < s[j].id
Known == Elements(replayQueue) \cup Elements(wire)

StreamTyped ==
    /\ replayQueue \in Seq(Numbers) /\ wire \in Seq(Numbers)
    /\ buffer \in Seq(Nat) /\ got \in Seq(Nat)
    /\ nextEventId \in Nat /\ arrived \in Nat /\ lastId \in 0 .. nextEventId
    /\ halfOpen \in Nat /\ link \in Link
    /\ got = <<>> <=> lastId = NoId

\* Ids and notifications rise together, in the queue, on the wire and beyond.
StreamRises ==
    /\ Rising(replayQueue) /\ Rising(wire)
    /\ \A e, f \in Known : e.id < f.id <=> e.notice < f.notice
    /\ \A e \in Known : 1 <= e.id /\ e.id <= nextEventId /\ 1 <= e.notice /\ e.notice <= arrived
    /\ link = "none" => wire = <<>>

\* What the client has read comes before what it has yet to read.
ReadRises ==
    /\ InOrder
    /\ \A e \in Elements(wire) : e.id > lastId
    /\ \A n \in Elements(got) : n <= arrived
    /\ \A e \in Known, n \in Elements(got) : e.id > lastId => n < e.notice

\* What waits for a stream is younger than all that was sent.
BufferRises ==
    /\ \A i, j \in DOMAIN buffer : i < j => buffer[i] < buffer[j]
    /\ \A b \in Elements(buffer) :
          /\ 1 <= b /\ b <= arrived
          /\ \A e \in Known : e.notice < b
          /\ \A n \in Elements(got) : n < b
    /\ buffer # <<>> => ~HasActiveStream

\* Every notification is queued, waits or was dropped.
Accounted == 1 .. arrived \subseteq dropped \cup Elements(buffer) \cup Notices(replayQueue)

\* A queued event since the first one read has been read, or, with an open
\* stream, or when a later one is on the wire, it is on the wire itself.
Due(e) == IF got = <<>> THEN \E v \in Elements(wire) : v.id <= e.id ELSE e.id > lastId
Seen(e) == got # <<>> /\ e.notice >= Head(got) /\ e.id <= lastId => e.notice \in Elements(got)
Coming(e) ==
    Due(e) /\ (link = "up" \/ \E w \in Elements(wire) : e.id <= w.id) => e \in Elements(wire)
QueuedRight == \A e \in Elements(replayQueue) : Seen(e) /\ Coming(e)

StreamInv ==
    StreamTyped /\ StreamRises /\ ReadRises /\ BufferRises /\ Accounted /\ QueuedRight

LEMMA ElementsIn == ASSUME NEW S, NEW q \in Seq(S) PROVE Elements(q) \subseteq S
  BY DEF Elements

LEMMA KnownTyped ==
    ASSUME StreamInv
    PROVE  /\ Elements(replayQueue) \subseteq Numbers /\ Elements(wire) \subseteq Numbers
           /\ Known \subseteq Numbers /\ \A e \in Known : e.id \in Nat /\ e.notice \in Nat
           /\ Elements(buffer) \subseteq Nat /\ Elements(got) \subseteq Nat
<1>1. /\ replayQueue \in Seq(Numbers) /\ wire \in Seq(Numbers)
      /\ buffer \in Seq(Nat) /\ got \in Seq(Nat)
  BY DEF StreamInv, StreamTyped
<1>2. /\ Elements(replayQueue) \subseteq Numbers /\ Elements(wire) \subseteq Numbers
      /\ Elements(buffer) \subseteq Nat /\ Elements(got) \subseteq Nat
  BY <1>1, ElementsIn
<1> QED
  BY <1>2 DEF Known, Numbers

\* A client that has read what is on the wire is up to date.
LEMMA StreamInvDelivers == StreamInv => Delivered
<1> SUFFICES ASSUME StreamInv PROVE Delivered
  OBVIOUS
<1>1. InOrder
  BY DEF StreamInv, ReadRises
<1>2. ASSUME link = "up", wire = <<>>, got # <<>>, NEW n \in Head(got) .. arrived
      PROVE  n \in Elements(got) \cup dropped
  <2>1. Head(got) \in Elements(got) /\ Head(got) \in Nat
    BY <1>2 DEF StreamInv, StreamTyped, Elements
  <2>2. buffer = <<>>
    BY <1>2 DEF StreamInv, BufferRises, HasActiveStream
  <2>3. Elements(buffer) = {} /\ Elements(wire) = {}
    BY <1>2, <2>2 DEF Elements
  <2>4. CASE n = 0
    BY <1>2, <2>1, <2>4
  <2>5. CASE n # 0
    <3>1. n \in 1 .. arrived
      BY <2>1, <2>5 DEF StreamInv, StreamTyped
    <3>2. CASE n \in dropped
      BY <3>2
    <3>3. CASE n \in Notices(replayQueue)
      <4>1. PICK e \in Elements(replayQueue) : e.notice = n
        BY <3>3 DEF Notices
      <4>2. Seen(e) /\ Coming(e)
        BY DEF StreamInv, QueuedRight
      <4>3. e.id \in Nat /\ lastId \in Nat
        BY KnownTyped DEF StreamInv, StreamTyped, Known
      <4>4. ~(e.id > lastId)
        BY <1>2, <2>3, <4>2 DEF Coming, Due
      <4>5. n >= Head(got)
        BY <2>1, <3>1
      <4> QED
        BY <1>2, <4>1, <4>2, <4>3, <4>4, <4>5 DEF Seen
    <3> QED
      BY <2>3, <3>1, <3>2, <3>3 DEF StreamInv, Accounted
  <2> QED
    BY <2>4, <2>5
<1>3. NoGap
  BY <1>2 DEF NoGap, UpToDate
<1> QED
  BY <1>1, <1>3 DEF Delivered

\* A set of numbers with a bound has a greatest one.
LEMMA MaxIsGreatest ==
    ASSUME NEW S, NEW n \in Nat, S \subseteq 0 .. n, S # {}
    PROVE  Max(S) \in S /\ \A y \in S : Max(S) >= y
<1> DEFINE Above(x) == {y \in S : y > x}
           T == {Above(x) : x \in S}
<1>0. \A x \in S : x \in Int
  OBVIOUS
<1>1. IsFiniteSet(S)
  <2>1. IsFiniteSet(0 .. n)
    BY FS_Interval
  <2> QED BY <2>1, FS_Subset
<1>2. IsWellFoundedOn(StrictSubsetOrdering(S), SUBSET S)
  BY <1>1, FS_FiniteSubsetsOfFinite, FS_StrictSubsetOrderingWellFounded
<1>3. T \subseteq SUBSET S /\ T # {}
  OBVIOUS
<1>4. PICK t \in T : \A u \in T : ~(<<u, t>> \in StrictSubsetOrdering(S))
  <2> HIDE DEF T
  <2> QED BY <1>2, <1>3, WFMin
<1>5. PICK m \in S : t = Above(m)
  OBVIOUS
<1>6. ASSUME NEW y \in S, y > m PROVE FALSE
  <2>0. m \in Int /\ y \in Int /\ (\A z \in S : z > y => z > m) /\ ~(y > y)
    BY <1>0, <1>6
  <2>1. Above(y) \subseteq Above(m) /\ y \in Above(m) /\ y \notin Above(y)
    BY <2>0, <1>6, Zenon
  <2>2. <<Above(y), Above(m)>> \in StrictSubsetOrdering(S)
    BY <2>1 DEF StrictSubsetOrdering
  <2> QED BY <1>4, <1>5, <2>2
<1>7. \A y \in S : m >= y
  BY <1>0, <1>6
<1> QED BY <1>7 DEF Max

\* What becomes of a sequence that is cut to its newest.
LEMMA NewestIs ==
    ASSUME NEW S, NEW q \in Seq(S), NEW n \in Nat
    PROVE  \E d \in 0 .. Len(q) :
             /\ Newest(q, n) = SubSeq(q, d + 1, Len(q))
             /\ Overflow(q, n) = SubSeq(q, 1, d)
<1>1. CASE Len(q) <= n
  <2>1. Newest(q, n) = q
    BY <1>1 DEF Newest
  <2>2. Newest(q, n) = SubSeq(q, 0 + 1, Len(q)) /\ Overflow(q, n) = SubSeq(q, 1, 0)
    BY <2>1 DEF Overflow
  <2> QED
    BY <2>2
<1>2. CASE ~(Len(q) <= n)
  <2>1. PICK d : d = Len(q) - n
    OBVIOUS
  <2>2. d \in 0 .. Len(q) /\ Len(q) - (Len(q) - (d + 1) + 1) = d
    BY <1>2, <2>1
  <2>3. Newest(q, n) = SubSeq(q, d + 1, Len(q))
    BY <1>2, <2>1 DEF Newest
  <2>4. Len(SubSeq(q, d + 1, Len(q))) = Len(q) - (d + 1) + 1
    BY <2>2
  <2>5. Overflow(q, n) = SubSeq(q, 1, d)
    BY <2>2, <2>3, <2>4 DEF Overflow
  <2> QED
    BY <2>2, <2>3, <2>5
<1> QED
  BY <1>1, <1>2

\* A sequence in two parts.
LEMMA Parts ==
    ASSUME NEW S, NEW q \in Seq(S), NEW d \in 0 .. Len(q)
    PROVE  /\ SubSeq(q, d + 1, Len(q)) \in Seq(S) /\ SubSeq(q, 1, d) \in Seq(S)
           /\ Len(SubSeq(q, d + 1, Len(q))) = Len(q) - d
           /\ \A i \in 1 .. Len(q) - d : SubSeq(q, d + 1, Len(q))[i] = q[i + d]
           /\ Elements(q) = Elements(SubSeq(q, d + 1, Len(q))) \cup Elements(SubSeq(q, 1, d))
<1>1. PICK a : a = SubSeq(q, d + 1, Len(q))
  OBVIOUS
<1>2. PICK b : b = SubSeq(q, 1, d)
  OBVIOUS
<1>3. /\ a \in Seq(S) /\ Len(a) = Len(q) - d /\ DOMAIN a = 1 .. Len(q) - d
      /\ \A i \in 1 .. Len(q) - d : a[i] = q[i + d]
  BY <1>1
<1>4. /\ b \in Seq(S) /\ Len(b) = d /\ DOMAIN b = 1 .. d
      /\ \A i \in 1 .. d : b[i] = q[i]
  BY <1>2
<1>5. ASSUME NEW i \in 1 .. Len(q) PROVE q[i] \in Elements(a) \cup Elements(b)
  <2>1. CASE i <= d
    BY <1>4, <2>1 DEF Elements
  <2>2. CASE i > d
    <3>1. i - d \in 1 .. Len(q) - d /\ a[i - d] = q[i]
      BY <1>3, <2>2
    <3> QED
      BY <1>3, <3>1 DEF Elements
  <2> QED
    BY <2>1, <2>2
<1>6. Elements(a) \subseteq Elements(q)
  BY <1>3 DEF Elements
<1>7. Elements(b) \subseteq Elements(q)
  BY <1>4 DEF Elements
<1>8. Elements(q) \subseteq Elements(a) \cup Elements(b)
  BY <1>5 DEF Elements
<1> QED
  BY <1>1, <1>2, <1>3, <1>4, <1>6, <1>7, <1>8

\* One sequence after another.
LEMMA Joins ==
    ASSUME NEW S, NEW a \in Seq(S), NEW b \in Seq(S)
    PROVE  /\ a \o b \in Seq(S) /\ Len(a \o b) = Len(a) + Len(b)
           /\ \A i \in 1 .. Len(a) : (a \o b)[i] = a[i]
           /\ \A i \in 1 .. Len(b) : (a \o b)[Len(a) + i] = b[i]
           /\ Elements(a \o b) = Elements(a) \cup Elements(b)
<1>1. PICK c : c = a \o b
  OBVIOUS
<1>2. /\ c \in Seq(S) /\ Len(c) = Len(a) + Len(b) /\ DOMAIN c = 1 .. Len(a) + Len(b)
      /\ \A i \in 1 .. Len(a) : c[i] = a[i]
      /\ \A i \in 1 .. Len(b) : c[Len(a) + i] = b[i]
  BY <1>1
<1>3. ASSUME NEW i \in 1 .. Len(c) PROVE c[i] \in Elements(a) \cup Elements(b)
  <2>1. CASE i <= Len(a)
    BY <1>2, <2>1 DEF Elements
  <2>2. CASE i > Len(a)
    <3>1. i - Len(a) \in 1 .. Len(b) /\ i = Len(a) + (i - Len(a))
      BY <1>2, <2>2
    <3>2. c[i] = b[i - Len(a)]
      BY <1>2, <3>1
    <3> QED
      BY <3>1, <3>2 DEF Elements
  <2> QED
    BY <2>1, <2>2
<1>4. Elements(a) \subseteq Elements(c)
  <2>1. PICK U : U = Elements(c)
    OBVIOUS
  <2>2. ASSUME NEW i \in 1 .. Len(a) PROVE a[i] \in U
    <3>1. i \in DOMAIN c /\ c[i] = a[i]
      BY <1>2
    <3> QED
      BY <2>1, <3>1 DEF Elements
  <2>3. DOMAIN a = 1 .. Len(a)
    OBVIOUS
  <2> QED
    BY <2>1, <2>2, <2>3 DEF Elements
<1>5. ASSUME NEW i \in 1 .. Len(b) PROVE b[i] \in Elements(c)
  <2>1. Len(a) + i \in DOMAIN c /\ c[Len(a) + i] = b[i]
    BY <1>2
  <2> QED
    BY <2>1 DEF Elements
<1>6. Elements(b) \subseteq Elements(c)
  BY <1>5 DEF Elements
<1>7. Elements(c) \subseteq Elements(a) \cup Elements(b)
  <2>1. DOMAIN c = 1 .. Len(c)
    BY <1>2
  <2>2. PICK U : U = Elements(a) \cup Elements(b)
    OBVIOUS
  <2>3. \A i \in DOMAIN c : c[i] \in U
    BY <1>3, <2>1, <2>2
  <2> QED
    BY <2>2, <2>3 DEF Elements
<1> QED
  BY <1>1, <1>2, <1>4, <1>6, <1>7

LEMMA JoinsRise ==
    ASSUME NEW a \in Seq(Numbers), NEW b \in Seq(Numbers), Rising(a), Rising(b),
           \A e \in Elements(a), f \in Elements(b) : e.id < f.id
    PROVE  Rising(a \o b)
<1>1. PICK c : c = a \o b
  OBVIOUS
<1>2. /\ c \in Seq(Numbers) /\ Len(c) = Len(a) + Len(b) /\ DOMAIN c = 1 .. Len(a) + Len(b)
      /\ \A i \in 1 .. Len(a) : c[i] = a[i]
      /\ \A i \in 1 .. Len(b) : c[Len(a) + i] = b[i]
  BY <1>1, Joins
<1>3. ASSUME NEW i \in DOMAIN c, NEW j \in DOMAIN c, i < j PROVE c[i].id < c[j].id
  <2>1. CASE j <= Len(a)
    BY <1>2, <1>3, <2>1 DEF Rising
  <2>2. CASE j > Len(a)
    <3>1. PICK k : k = j - Len(a)
      OBVIOUS
    <3>2. k \in 1 .. Len(b) /\ j = Len(a) + k
      BY <1>2, <2>2, <3>1
    <3>3. c[j] = b[k] /\ b[k] \in Elements(b) /\ k \in DOMAIN b
      BY <1>2, <3>2 DEF Elements
    <3>4. CASE i <= Len(a)
      <4>1. i \in 1 .. Len(a)
        BY <1>2, <3>4
      <4>2. c[i] = a[i] /\ a[i] \in Elements(a)
        BY <1>2, <4>1 DEF Elements
      <4> QED
        BY <3>3, <4>2
    <3>5. CASE i > Len(a)
      <4>1. PICK h : h = i - Len(a)
        OBVIOUS
      <4>2. h \in 1 .. Len(b) /\ i = Len(a) + h /\ h < k
        BY <1>2, <1>3, <3>2, <3>5, <4>1
      <4>3. c[i] = b[h] /\ h \in DOMAIN b
        BY <1>2, <4>2
      <4> QED
        BY <3>3, <4>2, <4>3 DEF Rising
    <3> QED
      BY <1>2, <3>4, <3>5
  <2> QED
    BY <1>2, <2>1, <2>2
<1> QED
  BY <1>1, <1>3 DEF Rising

\* What follows in a sequence that rises, rises.
LEMMA EndRises ==
    ASSUME NEW q \in Seq(Numbers), Rising(q), NEW d \in 0 .. Len(q)
    PROVE  Rising(SubSeq(q, d + 1, Len(q)))
<1>1. PICK a : a = SubSeq(q, d + 1, Len(q))
  OBVIOUS
<1>2. a \in Seq(Numbers) /\ Len(a) = Len(q) - d /\ \A i \in 1 .. Len(q) - d : a[i] = q[i + d]
  BY <1>1, Parts
<1>3. ASSUME NEW i \in DOMAIN a, NEW j \in DOMAIN a, i < j PROVE a[i].id < a[j].id
  <2>1. i \in 1 .. Len(q) - d /\ j \in 1 .. Len(q) - d
    BY <1>2
  <2>2. i + d \in DOMAIN q /\ j + d \in DOMAIN q /\ i + d < j + d
    BY <1>3, <2>1
  <2>3. a[i] = q[i + d] /\ a[j] = q[j + d]
    BY <1>2, <2>1
  <2> QED
    BY <2>2, <2>3 DEF Rising
<1> QED
  BY <1>1, <1>3 DEF Rising

\* New events, numbered on from the last.
Fresh(ev) == ev \in Seq(Numbers) /\ \A i \in DOMAIN ev : ev[i].id = nextEventId + i

LEMMA FreshRise ==
    ASSUME StreamInv, NEW ev, Fresh(ev)
    PROVE  /\ Rising(ev) /\ \A f \in Elements(ev) : f.id > nextEventId /\ f.id <= nextEventId + Len(ev)
           /\ \A e \in Known, f \in Elements(ev) : e.id < f.id
<1>1. nextEventId \in Nat /\ ev \in Seq(Numbers) /\ DOMAIN ev = 1 .. Len(ev)
  BY DEF StreamInv, StreamTyped, Fresh
<1>2. \A i \in DOMAIN ev : ev[i].id = nextEventId + i
  BY DEF Fresh
<1>3. Rising(ev)
  BY <1>1, <1>2 DEF Rising
<1>4. \A f \in Elements(ev) : f.id > nextEventId /\ f.id <= nextEventId + Len(ev) /\ f.id \in Nat
  BY <1>1, <1>2 DEF Elements
<1>5. \A e \in Known : e.id <= nextEventId /\ e.id \in Nat
  BY KnownTyped DEF StreamInv, StreamRises
<1> QED
  BY <1>1, <1>3, <1>4, <1>5

LEMMA QueueKeeps ==
    ASSUME StreamInv, NEW ev, Fresh(ev), Queue(ev)
    PROVE  /\ replayQueue' \in Seq(Numbers) /\ Rising(replayQueue')
           /\ nextEventId' = nextEventId + Len(ev) /\ nextEventId' \in Nat
           /\ Elements(replayQueue') \subseteq Elements(replayQueue) \cup Elements(ev)
           /\ dropped \subseteq dropped'
           /\ Notices(replayQueue) \cup Notices(ev) \subseteq Notices(replayQueue') \cup dropped'
<1>1. /\ nextEventId \in Nat /\ ev \in Seq(Numbers) /\ replayQueue \in Seq(Numbers)
      /\ Rising(replayQueue) /\ Elements(replayQueue) \subseteq Known /\ QueueMax \in Nat
  BY SseAssumption DEF StreamInv, StreamTyped, StreamRises, Fresh, Known
<1>2. PICK q : q = replayQueue
  OBVIOUS
<1>3. PICK full : full = q \o ev
  OBVIOUS
<1>4. full \in Seq(Numbers) /\ Elements(full) = Elements(q) \cup Elements(ev)
  BY <1>1, <1>2, <1>3, Joins
<1>5. Rising(full)
  <2>1. Rising(ev) /\ \A e \in Elements(q), f \in Elements(ev) : e.id < f.id
    BY <1>1, <1>2, FreshRise
  <2> QED
    BY <1>1, <1>2, <1>3, <2>1, JoinsRise
<1>6. PICK d \in 0 .. Len(full) :
         Newest(full, QueueMax) = SubSeq(full, d + 1, Len(full))
         /\ Overflow(full, QueueMax) = SubSeq(full, 1, d)
  BY <1>1, <1>4, NewestIs
<1>7. PICK a, b : a = SubSeq(full, d + 1, Len(full)) /\ b = SubSeq(full, 1, d)
  OBVIOUS
<1>8. a \in Seq(Numbers) /\ Elements(full) = Elements(a) \cup Elements(b) /\ Rising(a)
  <2>1. Rising(SubSeq(full, d + 1, Len(full)))
    BY <1>4, <1>5, EndRises
  <2>2. SubSeq(full, d + 1, Len(full)) \in Seq(Numbers)
    BY <1>4, Parts
  <2>3. Elements(full) = Elements(SubSeq(full, d + 1, Len(full))) \cup Elements(SubSeq(full, 1, d))
    BY <1>4, Parts
  <2> QED
    BY <1>7, <2>1, <2>2, <2>3
<1>9. /\ replayQueue' = a /\ dropped' = dropped \cup Notices(b)
      /\ nextEventId' = nextEventId + Len(ev)
  BY <1>2, <1>3, <1>6, <1>7 DEF Queue
<1>10. \A s \in {q, ev, a, b} : Notices(s) = {e.notice : e \in Elements(s)}
  BY DEF Notices
<1>11. Notices(q) \cup Notices(ev) \subseteq Notices(a) \cup Notices(b)
  BY <1>4, <1>8, <1>10
<1>12. Len(ev) \in Nat
  BY <1>1
<1> QED
  BY <1>1, <1>2, <1>4, <1>8, <1>9, <1>11, <1>12

\* What a request resumes with: the queued events after the last one read.
LEMMA LargestIndex ==
    ASSUME NEW n \in Nat, NEW S, S \subseteq 1 .. n
    PROVE  LET d == Max({0} \cup S) IN d \in 0 .. n /\ d \in {0} \cup S /\ \A x \in S : x <= d
<1>1. PICK T : T = {0} \cup S
  OBVIOUS
<1>2. T # {} /\ T \subseteq 0 .. n
  BY <1>1
<1>3. Max(T) \in T /\ \A x \in T : x <= Max(T)
  BY <1>2, MaxIsGreatest
<1> QED
  BY <1>1, <1>2, <1>3

LEMMA MissedIs ==
    ASSUME StreamInv, NEW last \in Nat
    PROVE  /\ Missed(last) \in Seq(Numbers) /\ Rising(Missed(last))
           /\ Elements(Missed(last)) = {e \in Elements(replayQueue) : e.id > last}
<1>1. PICK q : q = replayQueue
  OBVIOUS
<1>2. /\ q \in Seq(Numbers) /\ Rising(q) /\ DOMAIN q = 1 .. Len(q) /\ Len(q) \in Nat
      /\ \A i \in 1 .. Len(q) : q[i].id \in Nat
  <2>1. q \in Seq(Numbers) /\ Rising(q)
    BY <1>1 DEF StreamInv, StreamTyped, StreamRises
  <2>2. DOMAIN q = 1 .. Len(q) /\ Len(q) \in Nat /\ \A i \in 1 .. Len(q) : q[i] \in Numbers
    BY <2>1
  <2> QED
    BY <2>1, <2>2 DEF Numbers
<1>3. PICK S : S = {i \in DOMAIN q : q[i].id <= last}
  OBVIOUS
<1>4. PICK d : d = Max({0} \cup S)
  OBVIOUS
<1>5. d \in 0 .. Len(q) /\ d \in {0} \cup S /\ \A x \in S : x <= d
  BY <1>2, <1>3, <1>4, LargestIndex
<1>6. PICK a, b : a = SubSeq(q, d + 1, Len(q)) /\ b = SubSeq(q, 1, d)
  OBVIOUS
<1>7. Missed(last) = a
  BY <1>1, <1>3, <1>4, <1>6 DEF Missed, After
<1>8. /\ a \in Seq(Numbers) /\ Rising(a) /\ Len(a) = Len(q) - d
      /\ \A i \in 1 .. Len(q) - d : a[i] = q[i + d]
      /\ Elements(q) = Elements(a) \cup Elements(b)
  <2>1. Rising(a)
    BY <1>2, <1>5, <1>6, EndRises
  <2>2. q \in Seq(Numbers) /\ d \in 0 .. Len(q)
    BY <1>2, <1>5
  <2>3. /\ SubSeq(q, d + 1, Len(q)) \in Seq(Numbers)
        /\ Len(SubSeq(q, d + 1, Len(q))) = Len(q) - d
        /\ \A i \in 1 .. Len(q) - d : SubSeq(q, d + 1, Len(q))[i] = q[i + d]
    BY <2>2, Parts
  <2>4. Elements(q) = Elements(SubSeq(q, d + 1, Len(q))) \cup Elements(SubSeq(q, 1, d))
    BY <2>2, Parts
  <2> QED
    BY <1>6, <2>1, <2>3, <2>4
<1>9. ASSUME NEW i \in DOMAIN a PROVE a[i].id > last
  <2>1. i \in 1 .. Len(q) - d /\ DOMAIN a = 1 .. Len(q) - d
    BY <1>8
  <2>2. i + d \in DOMAIN q /\ ~(i + d <= d)
    BY <1>2, <1>5, <2>1
  <2>3. i + d \notin S
    BY <1>5, <2>2
  <2>4. a[i] = q[i + d] /\ q[i + d].id \in Nat
    BY <1>2, <1>8, <2>1, <2>2
  <2> QED
    BY <1>3, <2>2, <2>3, <2>4
<1>10. ASSUME NEW e \in Elements(b) PROVE ~(e.id > last)
  <2>1. PICK i \in DOMAIN b : e = b[i]
    BY DEF Elements
  <2>2. i \in 1 .. d /\ b[i] = q[i] /\ i \in DOMAIN q /\ d \in DOMAIN q
    BY <1>2, <1>5, <1>6, <2>1
  <2>3. d \in S
    BY <1>5, <2>2
  <2>4. q[d].id <= last
    BY <1>3, <2>3
  <2>5. i < d => q[i].id < q[d].id
    BY <1>2, <2>2 DEF Rising
  <2>6. q[i].id <= q[d].id
    BY <1>2, <2>2, <2>5
  <2> QED
    BY <1>2, <2>1, <2>2, <2>4, <2>6
<1>11. \A e \in Elements(a) : e.id > last
  BY <1>9 DEF Elements
<1> QED
  BY <1>1, <1>7, <1>8, <1>10, <1>11

\* The numbered events of a sequence of notifications.
LEMMA NumberedIs ==
    ASSUME StreamInv, NEW ns \in Seq(Nat)
    PROVE  /\ Fresh(Numbered(ns)) /\ Len(Numbered(ns)) = Len(ns)
           /\ DOMAIN Numbered(ns) = DOMAIN ns
           /\ \A i \in DOMAIN ns : Numbered(ns)[i].notice = ns[i]
           /\ Notices(Numbered(ns)) = Elements(ns)
<1>1. nextEventId \in Nat /\ DOMAIN ns = 1 .. Len(ns) /\ Len(ns) \in Nat
      /\ \A i \in DOMAIN ns : ns[i] \in Nat
  BY DEF StreamInv, StreamTyped
<1>2. PICK ev : ev = Numbered(ns)
  OBVIOUS
<1>3. /\ ev = [i \in 1 .. Len(ns) |-> [id |-> nextEventId + i, notice |-> ns[i]]]
      /\ \A i \in 1 .. Len(ns) : [id |-> nextEventId + i, notice |-> ns[i]] \in Numbers
  BY <1>1, <1>2 DEF Numbered, Numbers
<1>4. ev \in Seq(Numbers) /\ Len(ev) = Len(ns) /\ DOMAIN ev = DOMAIN ns
  BY <1>1, <1>3
<1>5. \A i \in DOMAIN ns : ev[i].id = nextEventId + i /\ ev[i].notice = ns[i]
  BY <1>1, <1>3
<1>6. Notices(ev) = Elements(ns)
  <2>1. ASSUME NEW n \in Notices(ev) PROVE n \in Elements(ns)
    <3>1. PICK e \in Elements(ev) : n = e.notice
      BY DEF Notices
    <3>2. PICK i \in DOMAIN ev : e = ev[i]
      BY DEF Elements
    <3> QED
      BY <1>4, <1>5, <3>1, <3>2 DEF Elements
  <2>2. ASSUME NEW n \in Elements(ns) PROVE n \in Notices(ev)
    <3>1. PICK i \in DOMAIN ns : n = ns[i]
      BY DEF Elements
    <3>2. ev[i] \in Elements(ev) /\ ev[i].notice = n
      BY <1>4, <1>5, <3>1 DEF Elements
    <3> QED
      BY <3>2 DEF Notices
  <2> QED
    BY <2>1, <2>2
<1> QED
  BY <1>2, <1>4, <1>5, <1>6 DEF Fresh

\* Events that are sent to the client, or only queued, leave the stream right.
LEMMA SentKeeps ==
    ASSUME StreamInv, NEW ev, Fresh(ev), Queue(ev), UNCHANGED <<lastId, got>>,
           buffer' = <<>>, halfOpen' \in Nat, link' \in Link, link' = "none" => wire' = <<>>,
           wire' \in Seq(Numbers), Rising(wire'),
           \A e \in Elements(wire') : e \in Elements(ev) \/ (e \in Known /\ e.id > lastId),
           arrived' \in Nat, arrived <= arrived',
           1 .. arrived' \subseteq dropped \cup Notices(replayQueue) \cup Notices(ev),
           \A f \in Elements(ev) :
               /\ 1 <= f.notice /\ f.notice <= arrived'
               /\ \A e \in Known : e.notice < f.notice
               /\ \A n \in Elements(got) : n < f.notice,
           \A f, g \in Elements(ev) : f.id < g.id <=> f.notice < g.notice,
           \A e \in Elements(replayQueue) \cup Elements(ev) : Coming(e)'
    PROVE  StreamInv'
<1>1. /\ replayQueue' \in Seq(Numbers) /\ Rising(replayQueue')
      /\ nextEventId' = nextEventId + Len(ev) /\ nextEventId' \in Nat
      /\ Elements(replayQueue') \subseteq Elements(replayQueue) \cup Elements(ev)
      /\ dropped \subseteq dropped'
      /\ Notices(replayQueue) \cup Notices(ev) \subseteq Notices(replayQueue') \cup dropped'
  BY QueueKeeps
<1>2. /\ ev \in Seq(Numbers) /\ Len(ev) \in Nat /\ Elements(ev) \subseteq Numbers
      /\ \A f \in Elements(ev) : f.id > nextEventId /\ f.id <= nextEventId + Len(ev)
      /\ \A e \in Known, f \in Elements(ev) : e.id < f.id
  <2>1. ev \in Seq(Numbers)
    BY DEF Fresh
  <2> QED
    BY <2>1, FreshRise, ElementsIn
<1>3. /\ nextEventId \in Nat /\ arrived \in Nat /\ lastId \in 0 .. nextEventId
      /\ \A e, f \in Known : e.id < f.id <=> e.notice < f.notice
      /\ \A e \in Known : 1 <= e.id /\ e.id <= nextEventId /\ 1 <= e.notice /\ e.notice <= arrived
      /\ \A n \in Elements(got) : n <= arrived
      /\ \A e \in Known, n \in Elements(got) : e.id > lastId => n < e.notice
  BY DEF StreamInv, StreamTyped, StreamRises, ReadRises
<1>4. /\ Known \subseteq Numbers /\ Elements(got) \subseteq Nat
      /\ \A e \in Known \cup Elements(ev) : e.id \in Nat /\ e.notice \in Nat
  BY <1>2, KnownTyped DEF Numbers
<1>5. Known' = Elements(replayQueue') \cup Elements(wire')
  BY DEF Known
<1>6. Known' \subseteq Known \cup Elements(ev)
  BY <1>1, <1>5 DEF Known
<1>7. StreamTyped'
  BY <1>1, <1>2, <1>3 DEF StreamInv, StreamTyped
<1>8. StreamRises'
  <2>1. ASSUME NEW e \in Known \cup Elements(ev), NEW f \in Known \cup Elements(ev)
        PROVE  e.id < f.id <=> e.notice < f.notice
    <3>1. e.id \in Nat /\ f.id \in Nat /\ e.notice \in Nat /\ f.notice \in Nat
      BY <1>4
    <3> QED
      BY <1>2, <1>3, <3>1
  <2>2. ASSUME NEW e \in Known \cup Elements(ev)
        PROVE  1 <= e.id /\ e.id <= nextEventId' /\ 1 <= e.notice /\ e.notice <= arrived'
    BY <1>1, <1>2, <1>3, <1>4
  <2> QED
    BY <1>1, <1>6, <2>1, <2>2 DEF StreamRises
<1>9. ReadRises'
  <2>1. InOrder'
    BY DEF InOrder, StreamInv, ReadRises
  <2>2. \A e \in Elements(wire') : e.id > lastId'
    BY <1>2, <1>3, <1>4
  <2>3. \A n \in Elements(got') : n <= arrived'
    BY <1>3, <1>4
  <2>4. \A e \in Known', n \in Elements(got') : e.id > lastId' => n < e.notice
    BY <1>3, <1>4, <1>6
  <2> QED
    BY <2>1, <2>2, <2>3, <2>4 DEF ReadRises
<1>10. BufferRises'
  BY DEF BufferRises, Elements
<1>11. Accounted'
  BY <1>1 DEF Accounted
<1>12. QueuedRight'
  <2>1. ASSUME NEW e \in Elements(replayQueue') PROVE Seen(e)'
    <3>1. CASE e \in Elements(ev)
      BY <1>2, <1>3, <1>4, <3>1 DEF Seen
    <3>2. CASE e \in Elements(replayQueue)
      <4>1. Seen(e)
        BY <3>2 DEF StreamInv, QueuedRight
      <4> QED
        BY <4>1 DEF Seen
    <3> QED
      BY <1>1, <3>1, <3>2
  <2> QED
    BY <1>1, <2>1 DEF QueuedRight
<1> QED
  BY <1>7, <1>8, <1>9, <1>10, <1>11, <1>12 DEF StreamInv

\* The events of a stream are numbered as the notifications are.
LEMMA NumberedRise ==
    ASSUME StreamInv, NEW ns \in Seq(Nat), NEW ev, ev = Numbered(ns),
           \A i, j \in DOMAIN ns : i < j => ns[i] < ns[j]
    PROVE  \A f, g \in Elements(ev) : f.id < g.id <=> f.notice < g.notice
<1>1. nextEventId \in Nat /\ DOMAIN ns = 1 .. Len(ns)
  BY DEF StreamInv, StreamTyped
<1>2. /\ DOMAIN ev = DOMAIN ns
      /\ \A i \in DOMAIN ns : ev[i].id = nextEventId + i /\ ev[i].notice = ns[i] /\ ns[i] \in Nat
  BY NumberedIs DEF Fresh
<1> SUFFICES ASSUME NEW f \in Elements(ev), NEW g \in Elements(ev)
             PROVE  f.id < g.id <=> f.notice < g.notice
  OBVIOUS
<1>3. PICK i \in DOMAIN ns, j \in DOMAIN ns : f = ev[i] /\ g = ev[j]
  BY <1>2 DEF Elements
<1>4. /\ i \in Nat /\ j \in Nat /\ ns[i] \in Nat /\ ns[j] \in Nat
      /\ i < j => ns[i] < ns[j]
      /\ j < i => ns[j] < ns[i]
      /\ f.id = nextEventId + i /\ g.id = nextEventId + j
      /\ f.notice = ns[i] /\ g.notice = ns[j]
  BY <1>1, <1>2, <1>3
<1> QED
  BY <1>1, <1>4

LEMMA ForwardKeeps == ASSUME StreamInv, Forward PROVE StreamInv'
<1>1. /\ nextEventId \in Nat /\ arrived \in Nat /\ wire \in Seq(Numbers) /\ Rising(wire)
      /\ lastId \in 0 .. nextEventId /\ halfOpen \in Nat /\ link \in Link
      /\ link = "none" => wire = <<>>
      /\ \A e \in Known : e.id <= nextEventId /\ e.id \in Nat /\ e.notice \in Nat /\ e.notice <= arrived
      /\ \A n \in Elements(got) : n <= arrived /\ n \in Nat
      /\ \A e \in Elements(wire) : e.id > lastId /\ e \in Known
  BY KnownTyped DEF StreamInv, StreamTyped, StreamRises, ReadRises, Known
<1>2. PICK ns : ns = <<arrived + 1>>
  OBVIOUS
<1>3. PICK ev : ev = Numbered(ns)
  OBVIOUS
<1>4. ns \in Seq(Nat) /\ DOMAIN ns = {1} /\ Elements(ns) = {arrived + 1}
  BY <1>1, <1>2 DEF Elements
<1>5. Fresh(ev) /\ Notices(ev) = {arrived + 1} /\ \A f \in Elements(ev) : f.notice = arrived + 1
  BY <1>3, <1>4, NumberedIs DEF Notices
<1>6. /\ Queue(ev) /\ arrived' = arrived + 1 /\ UNCHANGED <<lastId, got, link, halfOpen, buffer>>
      /\ HasActiveStream
      /\ wire' = IF link = "up" THEN wire \o ev ELSE wire
  BY <1>2, <1>3 DEF Forward, client
<1>7. buffer = <<>>
  BY <1>6 DEF StreamInv, BufferRises
<1>8. /\ ev \in Seq(Numbers) /\ Elements(ev) \subseteq Numbers /\ Rising(ev)
      /\ \A f \in Elements(ev) : f.id > nextEventId /\ f.id \in Nat
      /\ \A e \in Known, f \in Elements(ev) : e.id < f.id
  <2>1. ev \in Seq(Numbers) /\ Elements(ev) \subseteq Numbers
    BY <1>5, ElementsIn DEF Fresh
  <2> QED
    BY <1>5, <2>1, FreshRise DEF Numbers
<1>9. \A f, g \in Elements(ev) : f.id < g.id <=> f.notice < g.notice
  BY <1>3, <1>4, NumberedRise
<1>10. /\ wire' \in Seq(Numbers) /\ Rising(wire') /\ Elements(wire) \subseteq Elements(wire')
       /\ Elements(wire') \subseteq Elements(wire) \cup Elements(ev)
       /\ link = "up" => Elements(ev) \subseteq Elements(wire')
       /\ link # "up" => Elements(wire') = Elements(wire)
  <2>1. CASE link = "up"
    <3>1. wire \o ev \in Seq(Numbers) /\ Elements(wire \o ev) = Elements(wire) \cup Elements(ev)
      BY <1>1, <1>8, Joins
    <3>2. Rising(wire \o ev)
      BY <1>1, <1>8, JoinsRise
    <3> QED
      BY <1>6, <2>1, <3>1, <3>2
  <2>2. CASE link # "up"
    BY <1>1, <1>6, <2>2
  <2> QED
    BY <2>1, <2>2
<1>11. ASSUME NEW e \in Elements(replayQueue) \cup Elements(ev) PROVE Coming(e)'
  <2>1. /\ e.id \in Nat /\ e \in Known \cup Elements(ev)
        /\ \A v \in Elements(wire') : v.id \in Nat
    BY <1>1, <1>8, <1>10 DEF Known
  <2>2. CASE link = "up"
    <3>1. CASE e \in Elements(ev)
      BY <1>10, <2>2, <3>1 DEF Coming
    <3>2. CASE e \in Elements(replayQueue)
      <4>1. Coming(e) /\ e.id <= nextEventId
        BY <1>1, <3>2 DEF StreamInv, QueuedRight, Known
      <4>2. Due(e)' => Due(e)
        BY <1>1, <1>6, <1>8, <1>10, <2>1, <4>1 DEF Due
      <4> QED
        BY <1>10, <2>2, <4>1, <4>2 DEF Coming
    <3> QED
      BY <3>1, <3>2
  <2>3. CASE link # "up"
    <3>1. CASE e \in Elements(ev)
      BY <1>1, <1>6, <1>8, <1>10, <2>1, <2>3, <3>1 DEF Coming
    <3>2. CASE e \in Elements(replayQueue)
      <4>1. Coming(e)
        BY <3>2 DEF StreamInv, QueuedRight
      <4> QED
        BY <1>6, <1>10, <2>3, <4>1 DEF Coming, Due
    <3> QED
      BY <3>1, <3>2
  <2> QED
    BY <2>2, <2>3
<1>12. 1 .. arrived' \subseteq dropped \cup Notices(replayQueue) \cup Notices(ev)
  <2>1. 1 .. arrived \subseteq dropped \cup Notices(replayQueue)
    BY <1>7 DEF StreamInv, Accounted, Elements
  <2> QED
    BY <1>1, <1>5, <1>6, <2>1
<1>13. \A f \in Elements(ev) :
           /\ 1 <= f.notice /\ f.notice <= arrived'
           /\ \A e \in Known : e.notice < f.notice
           /\ \A n \in Elements(got) : n < f.notice
  BY <1>1, <1>5, <1>6
<1>14. \A e \in Elements(wire') : e \in Elements(ev) \/ (e \in Known /\ e.id > lastId)
  BY <1>1, <1>10
<1>15. arrived' \in Nat /\ arrived <= arrived' /\ halfOpen' \in Nat /\ link' \in Link /\ buffer' = <<>>
  BY <1>1, <1>6, <1>7
<1>16. link' = "none" => wire' = <<>>
  BY <1>1, <1>6
<1> QED
  BY <1>5, <1>6, <1>9, <1>10, <1>11, <1>12, <1>13, <1>14, <1>15, <1>16, SentKeeps

LEMMA OpenStreamKeeps == ASSUME StreamInv, OpenStream PROVE StreamInv'
<1>1. /\ nextEventId \in Nat /\ arrived \in Nat /\ lastId \in 0 .. nextEventId
      /\ halfOpen \in Nat /\ link = "none" /\ wire = <<>> /\ buffer \in Seq(Nat)
      /\ got = <<>> <=> lastId = NoId
      /\ \A e \in Known : e.id <= nextEventId /\ e.id \in Nat /\ e.notice \in Nat /\ e.notice <= arrived
      /\ Elements(replayQueue) \subseteq Known
  BY KnownTyped DEF StreamInv, StreamTyped, StreamRises, OpenStream, Known
<1>2. PICK ns : ns = buffer
  OBVIOUS
<1>3. PICK ev : ev = Numbered(ns)
  OBVIOUS
<1>4. /\ ns \in Seq(Nat) /\ \A i, j \in DOMAIN ns : i < j => ns[i] < ns[j]
      /\ \A b \in Elements(ns) : 1 <= b /\ b <= arrived /\ (\A e \in Known : e.notice < b)
                                 /\ \A n \in Elements(got) : n < b
  BY <1>1, <1>2 DEF StreamInv, BufferRises
<1>5. Fresh(ev) /\ Notices(ev) = Elements(ns) /\ \A f \in Elements(ev) : f.notice \in Elements(ns)
  BY <1>3, <1>4, NumberedIs DEF Notices
<1>6. PICK back : back = Resent
  OBVIOUS
<1>7. /\ Queue(ev) /\ UNCHANGED <<arrived, lastId, got, halfOpen>>
      /\ wire' = back \o ev /\ link' = "up" /\ buffer' = <<>>
  BY <1>2, <1>3, <1>6 DEF OpenStream, client
<1>8. /\ ev \in Seq(Numbers) /\ Elements(ev) \subseteq Numbers /\ Rising(ev)
      /\ \A f \in Elements(ev) : f.id > nextEventId /\ f.id \in Nat
      /\ \A e \in Known, f \in Elements(ev) : e.id < f.id
  <2>1. ev \in Seq(Numbers) /\ Elements(ev) \subseteq Numbers
    BY <1>5, ElementsIn DEF Fresh
  <2> QED
    BY <1>5, <2>1, FreshRise DEF Numbers
<1>9. \A f, g \in Elements(ev) : f.id < g.id <=> f.notice < g.notice
  BY <1>3, <1>4, NumberedRise
<1>10. /\ back \in Seq(Numbers) /\ Rising(back)
       /\ Elements(back) = {e \in Elements(replayQueue) : got # <<>> /\ e.id > lastId}
  <2>1. CASE lastId = NoId
    BY <1>1, <1>6, <2>1 DEF Resent, Rising, Elements
  <2>2. CASE lastId # NoId
    <3>1. PICK last \in Nat : last = lastId
      BY <1>1
    <3>2. back = Missed(last)
      BY <1>6, <2>2, <3>1 DEF Resent
    <3> QED
      BY <1>1, <2>2, <3>1, <3>2, MissedIs
  <2> QED
    BY <2>1, <2>2
<1>11. /\ wire' \in Seq(Numbers) /\ Rising(wire')
       /\ Elements(wire') = Elements(back) \cup Elements(ev)
  <2>1. back \o ev \in Seq(Numbers) /\ Elements(back \o ev) = Elements(back) \cup Elements(ev)
    BY <1>8, <1>10, Joins
  <2>2. \A e \in Elements(back), f \in Elements(ev) : e.id < f.id
    BY <1>1, <1>8, <1>10
  <2>3. Rising(back \o ev)
    BY <1>8, <1>10, <2>2, JoinsRise
  <2> QED
    BY <1>7, <2>1, <2>3
<1>12. ASSUME NEW e \in Elements(replayQueue) \cup Elements(ev) PROVE Coming(e)'
  <2>1. CASE e \in Elements(ev)
    BY <1>11, <2>1 DEF Coming
  <2>2. CASE e \in Elements(replayQueue)
    <3>1. CASE got = <<>>
      <4>1. Elements(wire') = Elements(ev)
        BY <1>10, <1>11, <3>1
      <4>2. ~Due(e)'
        BY <1>1, <1>7, <1>8, <2>2, <3>1, <4>1 DEF Due
      <4> QED
        BY <4>2 DEF Coming
    <3>2. CASE got # <<>>
      BY <1>7, <1>10, <1>11, <2>2, <3>2 DEF Coming, Due
    <3> QED
      BY <3>1, <3>2
  <2> QED
    BY <2>1, <2>2
<1>13. 1 .. arrived' \subseteq dropped \cup Notices(replayQueue) \cup Notices(ev)
  BY <1>2, <1>5, <1>7 DEF StreamInv, Accounted
<1>14. \A f \in Elements(ev) :
           /\ 1 <= f.notice /\ f.notice <= arrived'
           /\ \A e \in Known : e.notice < f.notice
           /\ \A n \in Elements(got) : n < f.notice
  BY <1>4, <1>5, <1>7
<1>15. \A e \in Elements(wire') : e \in Elements(ev) \/ (e \in Known /\ e.id > lastId)
  BY <1>1, <1>10, <1>11
<1>16. arrived' \in Nat /\ arrived <= arrived' /\ halfOpen' \in Nat /\ link' \in Link
  BY <1>1, <1>7 DEF Link
<1>17. link' = "none" => wire' = <<>>
  BY <1>7
<1> QED
  BY <1>5, <1>7, <1>9, <1>11, <1>12, <1>13, <1>14, <1>15, <1>16, <1>17, SentKeeps

LEMMA FirstAndRest ==
    ASSUME NEW S, NEW q \in Seq(S), q # <<>>
    PROVE  /\ Head(q) \in S /\ Tail(q) \in Seq(S)
           /\ Elements(q) = {Head(q)} \cup Elements(Tail(q))
           /\ \A i \in DOMAIN Tail(q) : i + 1 \in DOMAIN q /\ Tail(q)[i] = q[i + 1]
           /\ 1 \in DOMAIN q /\ Head(q) = q[1] /\ \A i \in DOMAIN Tail(q) : i \in Nat /\ 1 < i + 1
<1>1. PICK t : t = Tail(q)
  OBVIOUS
<1>2. /\ Head(q) \in S /\ t \in Seq(S) /\ 1 \in DOMAIN q /\ Head(q) = q[1]
      /\ Len(t) = Len(q) - 1 /\ DOMAIN t = 1 .. Len(t) /\ DOMAIN q = 1 .. Len(q) /\ Len(q) \in Nat
      /\ \A i \in DOMAIN t : t[i] = q[i + 1]
  BY <1>1
<1>3. \A i \in DOMAIN t : i + 1 \in DOMAIN q /\ i \in Nat /\ 1 < i + 1
  BY <1>2
<1>4. ASSUME NEW e \in Elements(q) PROVE e \in {Head(q)} \cup Elements(t)
  <2>1. PICK i \in DOMAIN q : e = q[i]
    BY DEF Elements
  <2>2. CASE i = 1
    BY <1>2, <2>1, <2>2
  <2>3. CASE i # 1
    <3>1. i - 1 \in DOMAIN t /\ (i - 1) + 1 = i
      BY <1>2, <2>1, <2>3
    <3>2. t[i - 1] = e
      BY <1>2, <2>1, <3>1
    <3> QED
      BY <3>1, <3>2 DEF Elements
  <2> QED
    BY <2>2, <2>3
<1>5. ASSUME NEW e \in {Head(q)} \cup Elements(t) PROVE e \in Elements(q)
  <2>1. CASE e = Head(q)
    BY <1>2, <2>1 DEF Elements
  <2>2. CASE e \in Elements(t)
    <3>1. PICK i \in DOMAIN t : e = t[i]
      BY <2>2 DEF Elements
    <3> QED
      BY <1>2, <1>3, <3>1 DEF Elements
  <2> QED
    BY <2>1, <2>2
<1> QED
  BY <1>1, <1>2, <1>3, <1>4, <1>5

\* What waits, with one more that is younger than all of it.
LEMMA BufferKeeps == ASSUME StreamInv, Buffer PROVE StreamInv'
<1>1. /\ buffer \in Seq(Nat) /\ arrived \in Nat /\ arrived' = arrived + 1
      /\ BufferMax \in Nat /\ ~HasActiveStream
      /\ UNCHANGED <<nextEventId, replayQueue, halfOpen, link, wire, lastId, got>>
      /\ \A i, j \in DOMAIN buffer : i < j => buffer[i] < buffer[j]
      /\ \A b \in Elements(buffer) :
            /\ 1 <= b /\ b <= arrived /\ b \in Nat
            /\ \A e \in Known : e.notice < b
            /\ \A n \in Elements(got) : n < b
      /\ \A e \in Known : e.notice <= arrived /\ e.notice \in Nat
      /\ \A n \in Elements(got) : n <= arrived /\ n \in Nat
  BY SseAssumption, KnownTyped
     DEF Buffer, client, StreamInv, StreamTyped, StreamRises, ReadRises, BufferRises
<1>2. PICK full : full = Append(buffer, arrived + 1)
  OBVIOUS
<1>3. /\ full \in Seq(Nat) /\ Len(full) = Len(buffer) + 1 /\ DOMAIN full = 1 .. Len(buffer) + 1
      /\ DOMAIN buffer = 1 .. Len(buffer) /\ Len(buffer) \in Nat
      /\ \A i \in 1 .. Len(buffer) : full[i] = buffer[i]
      /\ full[Len(buffer) + 1] = arrived + 1
  BY <1>1, <1>2
<1>4. Elements(full) = Elements(buffer) \cup {arrived + 1}
  <2>1. ASSUME NEW n \in Elements(full) PROVE n \in Elements(buffer) \cup {arrived + 1}
    <3>1. PICK i \in DOMAIN full : n = full[i]
      BY DEF Elements
    <3>2. i \in 1 .. Len(buffer) \/ i = Len(buffer) + 1
      BY <1>3
    <3> QED
      BY <1>3, <3>1, <3>2 DEF Elements
  <2>2. ASSUME NEW n \in Elements(buffer) PROVE n \in Elements(full)
    <3>1. PICK i \in DOMAIN buffer : n = buffer[i]
      BY DEF Elements
    <3>2. i \in DOMAIN full /\ full[i] = n
      BY <1>3, <3>1
    <3> QED
      BY <3>2 DEF Elements
  <2>3. arrived + 1 \in Elements(full)
    <3>1. Len(buffer) + 1 \in DOMAIN full
      BY <1>3
    <3> QED
      BY <1>3, <3>1 DEF Elements
  <2> QED
    BY <2>1, <2>2, <2>3
<1>5. ASSUME NEW i \in DOMAIN full, NEW j \in DOMAIN full, i < j PROVE full[i] < full[j]
  <2>1. i \in 1 .. Len(buffer) /\ full[i] = buffer[i] /\ buffer[i] \in Elements(buffer)
    BY <1>3, <1>5 DEF Elements
  <2>2. CASE j \in 1 .. Len(buffer)
    BY <1>1, <1>3, <1>5, <2>1, <2>2
  <2>3. CASE j = Len(buffer) + 1
    BY <1>1, <1>3, <2>1, <2>3
  <2> QED
    BY <1>3, <2>2, <2>3
<1>6. PICK d \in 0 .. Len(full) :
         Newest(full, BufferMax) = SubSeq(full, d + 1, Len(full))
         /\ Overflow(full, BufferMax) = SubSeq(full, 1, d)
  BY <1>1, <1>3, NewestIs
<1>7. PICK a, b : a = SubSeq(full, d + 1, Len(full)) /\ b = SubSeq(full, 1, d)
  OBVIOUS
<1>8. /\ buffer' = a /\ dropped' = dropped \cup Elements(b)
  BY <1>2, <1>6, <1>7 DEF Buffer
<1>9. a \in Seq(Nat) /\ Len(a) = Len(full) - d /\ Elements(full) = Elements(a) \cup Elements(b)
  <2>1. SubSeq(full, d + 1, Len(full)) \in Seq(Nat) /\ Len(SubSeq(full, d + 1, Len(full))) = Len(full) - d
    BY <1>3, <1>6, Parts
  <2>2. Elements(full) = Elements(SubSeq(full, d + 1, Len(full))) \cup Elements(SubSeq(full, 1, d))
    BY <1>3, <1>6, Parts
  <2> QED
    BY <1>7, <2>1, <2>2
<1>10. \A i \in 1 .. Len(full) - d : a[i] = full[i + d]
  BY <1>3, <1>6, <1>7
<1>11. ASSUME NEW i \in DOMAIN a, NEW j \in DOMAIN a, i < j PROVE a[i] < a[j]
  <2>1. i \in 1 .. Len(full) - d /\ j \in 1 .. Len(full) - d
    BY <1>9
  <2>2. i + d \in DOMAIN full /\ j + d \in DOMAIN full /\ i + d < j + d
    BY <1>3, <1>6, <1>11, <2>1
  <2> QED
    BY <1>5, <1>10, <2>1, <2>2
<1>12. \A n \in Elements(a) :
           /\ 1 <= n /\ n <= arrived'
           /\ \A e \in Known : e.notice < n
           /\ \A m \in Elements(got) : m < n
  BY <1>1, <1>4, <1>9
<1>13. Known' = Known /\ Elements(got') = Elements(got) /\ ~HasActiveStream'
  BY <1>1 DEF Known, HasActiveStream
<1>14. BufferRises'
  BY <1>8, <1>11, <1>12, <1>13 DEF BufferRises
<1>15. Accounted'
  <2>1. 1 .. arrived \subseteq dropped \cup Elements(buffer) \cup Notices(replayQueue)
    BY DEF StreamInv, Accounted
  <2>2. 1 .. arrived' \subseteq (1 .. arrived) \cup {arrived + 1}
    BY <1>1
  <2>3. Elements(buffer) \cup {arrived + 1} \subseteq Elements(buffer') \cup dropped'
    BY <1>4, <1>8, <1>9
  <2>4. Notices(replayQueue') = Notices(replayQueue) /\ dropped \subseteq dropped'
    BY <1>1, <1>8
  <2> QED
    BY <2>1, <2>2, <2>3, <2>4 DEF Accounted
<1>16. StreamTyped'
  BY <1>1, <1>8, <1>9 DEF StreamInv, StreamTyped
<1>17. StreamRises'
  <2>1. ASSUME NEW e \in Known
        PROVE  1 <= e.id /\ e.id <= nextEventId' /\ 1 <= e.notice /\ e.notice <= arrived'
    BY <1>1 DEF StreamInv, StreamRises
  <2> QED
    BY <1>1, <1>13, <2>1 DEF StreamInv, StreamRises
<1>18. ReadRises'
  <2>1. \A n \in Elements(got) : n <= arrived'
    BY <1>1
  <2> QED
    BY <1>1, <1>13, <2>1 DEF StreamInv, ReadRises, InOrder
<1>19. QueuedRight'
  BY <1>1 DEF StreamInv, QueuedRight, Seen, Coming, Due
<1> QED
  BY <1>14, <1>15, <1>16, <1>17, <1>18, <1>19 DEF StreamInv

LEMMA OutliveKeeps == ASSUME StreamInv, Outlive PROVE StreamInv'
<1>1. /\ buffer \in Seq(Nat) /\ buffer # <<>> /\ buffer' = Tail(buffer)
      /\ dropped' = dropped \cup {Head(buffer)}
      /\ UNCHANGED <<nextEventId, replayQueue, halfOpen, link, wire, lastId, got, arrived>>
  BY DEF Outlive, client, StreamInv, StreamTyped
<1>2. PICK q, t : q = buffer /\ t = Tail(q)
  OBVIOUS
<1>3. /\ q \in Seq(Nat) /\ t \in Seq(Nat) /\ Elements(q) = {Head(q)} \cup Elements(t)
      /\ \A i \in DOMAIN t : i + 1 \in DOMAIN q /\ t[i] = q[i + 1] /\ i \in Nat
  BY <1>1, <1>2, FirstAndRest
<1>4. Known' = Known /\ HasActiveStream' = HasActiveStream
  BY <1>1 DEF Known, HasActiveStream
<1>5. BufferRises'
  <2>1. \A i, j \in DOMAIN q : i < j => q[i] < q[j]
    BY <1>2 DEF StreamInv, BufferRises
  <2>2. ASSUME NEW i \in DOMAIN t, NEW j \in DOMAIN t, i < j PROVE t[i] < t[j]
    <3>1. i + 1 < j + 1
      BY <1>3, <2>2
    <3> QED
      BY <1>3, <2>1, <3>1
  <2>3. \A b \in Elements(t) :
           /\ 1 <= b /\ b <= arrived
           /\ \A e \in Known : e.notice < b
           /\ \A n \in Elements(got) : n < b
    BY <1>2, <1>3 DEF StreamInv, BufferRises
  <2>4. ~HasActiveStream
    BY <1>1 DEF StreamInv, BufferRises
  <2> QED
    BY <1>1, <1>2, <1>4, <2>2, <2>3, <2>4 DEF BufferRises
<1>6. Accounted'
  BY <1>1, <1>2, <1>3 DEF StreamInv, Accounted
<1>7. StreamTyped'
  BY <1>1, <1>2, <1>3 DEF StreamInv, StreamTyped
<1>8. StreamRises' /\ ReadRises'
  BY <1>1, <1>4 DEF StreamInv, StreamRises, ReadRises, InOrder
<1>9. QueuedRight'
  BY <1>1 DEF StreamInv, QueuedRight, Seen, Coming, Due
<1> QED
  BY <1>5, <1>6, <1>7, <1>8, <1>9 DEF StreamInv

\* Steps that send the client nothing and leave what waits as it is.
LEMMA QuietKeeps ==
    ASSUME StreamInv, UNCHANGED <<replayQueue, buffer, lastId, got, arrived, dropped>>,
           nextEventId' \in Nat, nextEventId <= nextEventId', halfOpen' \in Nat, link' \in Link,
           wire' = wire \/ wire' = <<>>, link' = "none" => wire' = <<>>,
           link' = "up" => link = "up" /\ wire' = wire, HasActiveStream' => HasActiveStream
    PROVE  StreamInv'
<1>1. /\ nextEventId \in Nat /\ wire \in Seq(Numbers) /\ <<>> \in Seq(Numbers)
      /\ lastId \in 0 .. nextEventId
      /\ \A e \in Known : e.id <= nextEventId /\ e.id \in Nat
  BY KnownTyped DEF StreamInv, StreamTyped, StreamRises
<1>2. wire' \in Seq(Numbers) /\ Elements(wire') \subseteq Elements(wire) /\ (Rising(wire) => Rising(wire'))
  <2>1. CASE wire' = wire
    BY <1>1, <2>1
  <2>2. CASE wire' = <<>>
    BY <1>1, <2>2 DEF Elements, Rising
  <2> QED
    BY <2>1, <2>2
<1>3. Known' \subseteq Known /\ Elements(got') = Elements(got) /\ Elements(buffer') = Elements(buffer)
  BY <1>2 DEF Known
<1>4. StreamTyped'
  BY <1>1, <1>2 DEF StreamInv, StreamTyped
<1>5. StreamRises'
  <2>1. \A e \in Known' : 1 <= e.id /\ e.id <= nextEventId' /\ 1 <= e.notice /\ e.notice <= arrived'
    BY <1>1, <1>3 DEF StreamInv, StreamRises
  <2> QED
    BY <1>2, <1>3, <2>1 DEF StreamInv, StreamRises
<1>6. ReadRises'
  BY <1>2, <1>3 DEF StreamInv, ReadRises, InOrder
<1>7. BufferRises'
  BY <1>3 DEF StreamInv, BufferRises
<1>8. Accounted'
  BY DEF StreamInv, Accounted
<1>9. ASSUME NEW e \in Elements(replayQueue) PROVE Seen(e)' /\ Coming(e)'
  <2>1. Seen(e) /\ Coming(e)
    BY DEF StreamInv, QueuedRight
  <2>2. Seen(e)'
    BY <2>1 DEF Seen
  <2>3. CASE wire' = wire
    BY <2>1, <2>2, <2>3 DEF Coming, Due
  <2>4. CASE wire' = <<>>
    <3>1. Elements(wire') = {}
      BY <2>4 DEF Elements
    <3>2. CASE link' = "up"
      BY <2>1, <2>2, <3>2 DEF Coming, Due
    <3>3. CASE link' # "up"
      BY <2>2, <3>1, <3>3 DEF Coming
    <3> QED
      BY <3>2, <3>3
  <2> QED
    BY <2>3, <2>4
<1>10. QueuedRight'
  BY <1>9 DEF QueuedRight
<1> QED
  BY <1>4, <1>5, <1>6, <1>7, <1>8, <1>10 DEF StreamInv

\* The client reads the event that is first on the wire.
LEMMA ReadKeeps == ASSUME StreamInv, Read PROVE StreamInv'
<1>1. PICK w, h, t : w = wire /\ h = Head(w) /\ t = Tail(w)
  OBVIOUS
<1>2. /\ w \in Seq(Numbers) /\ w # <<>> /\ Rising(w) /\ got \in Seq(Nat)
      /\ wire' = t /\ lastId' = h.id /\ got' = Append(got, h.notice)
      /\ UNCHANGED <<nextEventId, replayQueue, buffer, halfOpen, link, arrived, dropped>>
      /\ nextEventId \in Nat /\ arrived \in Nat /\ lastId \in Nat
      /\ got = <<>> <=> lastId = NoId
  BY <1>1 DEF Read, StreamInv, StreamTyped, StreamRises
<1>3. /\ h \in Numbers /\ t \in Seq(Numbers) /\ Elements(w) = {h} \cup Elements(t)
      /\ \A i \in DOMAIN t : i + 1 \in DOMAIN w /\ t[i] = w[i + 1]
      /\ 1 \in DOMAIN w /\ h = w[1] /\ \A i \in DOMAIN t : i \in Nat /\ 1 < i + 1
  BY <1>1, <1>2, FirstAndRest
<1>4. \A e \in Elements(t) : e.id > h.id
  <2>1. ASSUME NEW i \in DOMAIN t PROVE t[i].id > h.id
    <3>1. h.id < w[i + 1].id /\ w[i + 1] = t[i]
      BY <1>2, <1>3 DEF Rising
    <3>2. t[i] \in Numbers
      BY <1>3
    <3> QED
      BY <1>3, <3>1, <3>2 DEF Numbers
  <2> QED
    BY <2>1 DEF Elements
<1>5. /\ \A e, f \in Known : e.id < f.id <=> e.notice < f.notice
      /\ \A e \in Known : /\ 1 <= e.id /\ e.id <= nextEventId /\ 1 <= e.notice /\ e.notice <= arrived
                          /\ e.id \in Nat /\ e.notice \in Nat
      /\ h \in Known /\ Elements(w) \subseteq Known /\ Elements(replayQueue) \subseteq Known
      /\ h.id > lastId /\ h.notice \in Nat /\ h.id \in Nat
  <2>1. Elements(w) \subseteq Known /\ Elements(replayQueue) \subseteq Known
    BY <1>1 DEF Known
  <2>2. h \in Elements(wire)
    BY <1>1, <1>3
  <2> QED
    BY <1>1, <1>3, <2>1, <2>2, KnownTyped DEF StreamInv, StreamRises, ReadRises
<1>6. /\ Elements(got) \subseteq Nat
      /\ \A n \in Elements(got) : n <= arrived /\ n < h.notice
      /\ \A e \in Known, n \in Elements(got) : e.id > lastId => n < e.notice
  BY <1>5, KnownTyped DEF StreamInv, ReadRises
<1>7. PICK g : g = Append(got, h.notice)
  OBVIOUS
<1>8. /\ g \in Seq(Nat) /\ DOMAIN g = 1 .. Len(got) + 1 /\ DOMAIN got = 1 .. Len(got)
      /\ Len(got) \in Nat /\ g # <<>>
      /\ \A i \in 1 .. Len(got) : g[i] = got[i]
      /\ g[Len(got) + 1] = h.notice
      /\ got # <<>> => Head(g) = Head(got)
      /\ got = <<>> => Head(g) = h.notice
  BY <1>2, <1>5, <1>7
<1>9. Elements(g) = Elements(got) \cup {h.notice}
  <2>1. ASSUME NEW n \in Elements(g) PROVE n \in Elements(got) \cup {h.notice}
    <3>1. PICK i \in DOMAIN g : n = g[i]
      BY DEF Elements
    <3>2. i \in 1 .. Len(got) \/ i = Len(got) + 1
      BY <1>8
    <3> QED
      BY <1>8, <3>1, <3>2 DEF Elements
  <2>2. ASSUME NEW n \in Elements(got) PROVE n \in Elements(g)
    <3>1. PICK i \in DOMAIN got : n = got[i]
      BY DEF Elements
    <3>2. i \in DOMAIN g /\ g[i] = n
      BY <1>8, <3>1
    <3> QED
      BY <3>2 DEF Elements
  <2>3. h.notice \in Elements(g)
    <3>1. Len(got) + 1 \in DOMAIN g
      BY <1>8
    <3> QED
      BY <1>8, <3>1 DEF Elements
  <2> QED
    BY <2>1, <2>2, <2>3
<1>10. Known' \subseteq Known
  BY <1>1, <1>2, <1>3 DEF Known
<1>11. StreamTyped'
  BY <1>2, <1>3, <1>5, <1>7, <1>8 DEF StreamInv, StreamTyped, NoId
<1>12. StreamRises'
  <2>1. Rising(t)
    <3>1. ASSUME NEW i \in DOMAIN t, NEW j \in DOMAIN t, i < j PROVE t[i].id < t[j].id
      <4>1. i + 1 < j + 1
        BY <1>3, <3>1
      <4> QED
        BY <1>2, <1>3, <4>1 DEF Rising
    <3> QED
      BY <3>1 DEF Rising
  <2>2. link # "none"
    BY <1>1, <1>2 DEF StreamInv, StreamRises
  <2> QED
    BY <1>2, <1>5, <1>10, <2>1, <2>2 DEF StreamInv, StreamRises
<1>13. ReadRises'
  <2>1. \A i, j \in DOMAIN g : i < j => g[i] < g[j]
    <3>1. ASSUME NEW i \in DOMAIN g, NEW j \in DOMAIN g, i < j PROVE g[i] < g[j]
      <4>1. i \in 1 .. Len(got) /\ g[i] = got[i] /\ got[i] \in Elements(got)
        BY <1>8, <3>1 DEF Elements
      <4>2. CASE j \in 1 .. Len(got)
        BY <1>8, <3>1, <4>1, <4>2 DEF StreamInv, ReadRises, InOrder
      <4>3. CASE j = Len(got) + 1
        BY <1>6, <1>8, <4>1, <4>3
      <4> QED
        BY <1>8, <4>2, <4>3
    <3> QED
      BY <3>1
  <2>2. InOrder'
    BY <1>2, <1>7, <2>1 DEF InOrder
  <2>3. \A e \in Elements(wire') : e.id > lastId'
    BY <1>2, <1>4
  <2>4. \A n \in Elements(g) : n <= arrived
    BY <1>5, <1>6, <1>9
  <2>5. ASSUME NEW e \in Known, NEW n \in Elements(g), e.id > h.id PROVE n < e.notice
    <3>1. CASE n = h.notice
      BY <1>5, <2>5, <3>1
    <3>2. CASE n \in Elements(got)
      <4>1. e.id > lastId
        BY <1>2, <1>5, <2>5
      <4> QED
        BY <1>6, <3>2, <4>1
    <3> QED
      BY <1>9, <3>1, <3>2
  <2> QED
    BY <1>2, <1>7, <1>10, <2>2, <2>3, <2>4, <2>5 DEF ReadRises
<1>14. BufferRises'
  <2>1. HasActiveStream' = HasActiveStream
    BY <1>2 DEF HasActiveStream
  <2>2. \A b \in Elements(buffer) : \A n \in Elements(g) : n < b
    BY <1>5, <1>9 DEF StreamInv, BufferRises
  <2> QED
    BY <1>2, <1>7, <1>10, <2>1, <2>2 DEF StreamInv, BufferRises
<1>15. Accounted'
  BY <1>2 DEF StreamInv, Accounted
<1>16. ASSUME NEW e \in Elements(replayQueue) PROVE Seen(e)' /\ Coming(e)'
  <2>1. /\ Seen(e) /\ Coming(e) /\ e \in Known /\ e.id \in Nat /\ e.notice \in Nat
        /\ (e.id < h.id <=> e.notice < h.notice) /\ (h.id < e.id <=> h.notice < e.notice)
    BY <1>5 DEF StreamInv, QueuedRight
  <2>2. ASSUME e.notice >= Head(g), e.id <= h.id PROVE e.notice \in Elements(g)
    <3>1. CASE e.id = h.id
      BY <1>5, <1>9, <2>1, <3>1
    <3>2. CASE e.id # h.id
      <4>1. e.id < h.id /\ e.notice < h.notice
        BY <1>5, <2>1, <2>2, <3>2
      <4>2. got # <<>>
        BY <1>5, <1>8, <2>1, <2>2, <4>1
      <4>3. ~(e.id > lastId)
        <5>1. ASSUME e.id > lastId PROVE FALSE
          <6>1. h \in Elements(wire) /\ e.id <= h.id
            BY <1>1, <1>3, <2>2
          <6>2. e \in Elements(w)
            BY <1>1, <2>1, <4>2, <5>1, <6>1 DEF Coming, Due
          <6>3. e = h \/ e \in Elements(t)
            BY <1>3, <6>2
          <6> QED
            BY <1>4, <1>5, <2>1, <4>1, <6>3
        <5> QED
          BY <5>1
      <4> QED
        BY <1>2, <1>8, <1>9, <2>1, <2>2, <4>2, <4>3 DEF Seen
    <3> QED
      BY <3>1, <3>2
  <2>3. Seen(e)'
    BY <1>2, <1>7, <2>2 DEF Seen
  <2>4. ASSUME e.id > h.id, link = "up" \/ \E v \in Elements(t) : e.id <= v.id
        PROVE  e \in Elements(t)
    <3>1. h \in Elements(wire) /\ h.id <= e.id /\ e.id > lastId
      BY <1>1, <1>2, <1>3, <1>5, <2>1, <2>4
    <3>2. link = "up" \/ \E v \in Elements(wire) : e.id <= v.id
      BY <1>1, <1>3, <2>4
    <3>3. e \in Elements(w)
      BY <1>1, <2>1, <3>1, <3>2 DEF Coming, Due
    <3> QED
      BY <1>3, <1>5, <2>1, <2>4, <3>3
  <2>5. Coming(e)'
    BY <1>2, <1>7, <1>8, <2>4 DEF Coming, Due
  <2> QED
    BY <2>3, <2>5
<1>17. QueuedRight'
  BY <1>2, <1>16 DEF QueuedRight
<1> QED
  BY <1>11, <1>12, <1>13, <1>14, <1>15, <1>17 DEF StreamInv

LEMMA StreamInvHolds == ASSUME ~TracksPosts PROVE SseSpec => []StreamInv
<1>1. SseInit => StreamInv
  <2> SUFFICES ASSUME SseInit PROVE StreamInv
    OBVIOUS
  <2>1. /\ replayQueue = <<>> /\ wire = <<>> /\ buffer = <<>> /\ got = <<>>
        /\ nextEventId = 0 /\ arrived = 0 /\ lastId = 0 /\ halfOpen = 0 /\ link = "none"
    BY DEF SseInit, NoId
  <2>2. Elements(<<>>) = {}
    BY DEF Elements
  <2>3. StreamTyped
    BY <2>1 DEF StreamTyped, NoId, Link
  <2>4. StreamRises
    BY <2>1, <2>2 DEF StreamRises, Known, Rising
  <2>5. ReadRises /\ BufferRises
    BY <2>1, <2>2 DEF ReadRises, BufferRises, InOrder
  <2>6. Accounted /\ QueuedRight
    BY <2>1, <2>2 DEF Accounted, QueuedRight
  <2> QED
    BY <2>3, <2>4, <2>5, <2>6 DEF StreamInv
<1>2. StreamInv /\ [SseNext]_sseVars => StreamInv'
  <2> SUFFICES ASSUME StreamInv, [SseNext]_sseVars PROVE StreamInv'
    OBVIOUS
  <2>0. /\ nextEventId \in Nat /\ halfOpen \in Nat /\ link \in Link
        /\ link = "none" => wire = <<>>
    BY DEF StreamInv, StreamTyped, StreamRises
  <2>1. CASE Forward
    BY <2>1, ForwardKeeps
  <2>2. CASE Buffer
    BY <2>2, BufferKeeps
  <2>3. CASE Outlive
    BY <2>3, OutliveKeeps
  <2>4. CASE OpenStream
    BY <2>4, OpenStreamKeeps
  <2>5. CASE RespondOnPost
    <3>1. nextEventId' \in Nat /\ nextEventId <= nextEventId'
      BY <2>0, <2>5 DEF RespondOnPost
    <3> QED
      BY <2>0, <2>5, <3>1, QuietKeeps DEF RespondOnPost, client, HasActiveStream
  <2>6. CASE DetectLoss
    <3>1. halfOpen > 0 /\ halfOpen' \in Nat
      BY <2>0, <2>6 DEF DetectLoss
    <3> QED
      BY <2>0, <2>6, <3>1, QuietKeeps DEF DetectLoss, client, HasActiveStream
  <2>7. CASE CloseStream
    BY <2>0, <2>7, QuietKeeps DEF CloseStream, client, HasActiveStream, Link
  <2>8. CASE Read
    BY <2>8, ReadKeeps
  <2>9. CASE LoseStream
    <3>1. halfOpen' \in Nat /\ (HasActiveStream' => HasActiveStream)
      BY <2>0, <2>9 DEF LoseStream, HasActiveStream
    <3> QED
      BY <2>0, <2>9, <3>1, QuietKeeps DEF LoseStream, client, Link
  <2>10. ASSUME NEW id \in EventId, ReadPost(id) \/ LosePost(id) PROVE StreamInv'
    <3>1. UNCHANGED <<nextEventId, replayQueue, buffer, halfOpen, link, wire, lastId, got, arrived, dropped>>
      BY <2>10 DEF ReadPost, LosePost, client
    <3> QED
      BY <2>0, <3>1, QuietKeeps DEF HasActiveStream
  <2>11. CASE UNCHANGED sseVars
    BY <2>0, <2>11, QuietKeeps DEF sseVars, HasActiveStream
  <2> QED
    BY <2>1, <2>2, <2>3, <2>4, <2>5, <2>6, <2>7, <2>8, <2>9, <2>10, <2>11 DEF SseNext
<1> QED
  BY <1>1, <1>2, PTL DEF SseSpec

\* The client reads the notifications in order, none twice, and whole from the
\* first it read on but for those a full queue or the TTL has dropped: of a
\* client that resumes from the ids of its streams (startSSEStream, replayMessages).
THEOREM StreamDelivers == ASSUME ~TracksPosts PROVE SseSpec => []Delivered
<1>1. SseSpec => []StreamInv
  BY StreamInvHolds
<1> QED
  BY <1>1, StreamInvDelivers, PTL

================================================================================
