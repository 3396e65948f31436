-------------------------- MODULE ToolCallsProofs --------------------------
(***************************************************************************)
(* What a tool call can do to the REST API, and as whom, for every profile *)
(* and any history: the HTTP client's rate and retries, the order of the   *)
(* requests of a composite tool and the bodies in its answer, the policy a *)
(* call runs under, the user behind its token.                             *)
(***************************************************************************)
EXTENDS Interceptors, StepGraph, ToolCalls, TokenIdentities, FiniteSetTheorems, WellFoundedInduction, TLAPS

-----------------------------------------------------------------------------
(* The HTTP client: no flow of requests beyond twice the rate, and the bounds of
   RetryChain on each of any number of calls. *)

-----------------------------------------------------------------------------
(* One call *)

\* What one attempt can send, and one of the outer loop: itself and a replay's loop.
Hop == MaxRedirects + 1
Inner == MaxAttempts * Hop + Hop

\* What an attempt of the outer loop has sent before the attempt under way at
\* level l, and when that one is over.
Before(l) == IF l = 0 THEN 0 ELSE attempt[1] * Hop
After(l) == Before(l) + Hop
Going == {"preparing", "limited", "fetching"}

\* The requests sent by the place the call is in: those of the attempts of the
\* outer loop that are over, and of the one that is under way.
Sent ==
    /\ at \in Going => fetches <= (attempt[0] - 1) * Inner + Before(level) + hops
    /\ at = "relogin" => fetches <= (attempt[0] - 1) * Inner + Hop
    /\ at = "backoff" /\ level = 1 => fetches <= (attempt[0] - 1) * Inner + After(1)
    /\ fetches <= attempt[0] * Inner

\* The logins and the tokens likewise.
Outside == level = 0 /\ at \in Going \cup {"relogin"}
Logged ==
    /\ logins <= 2 * attempt[0] + 1
    /\ tokens <= attempt[0] + 1
    /\ Outside => logins < 2 * attempt[0] /\ tokens <= attempt[0]
    /\ Outside /\ at = "preparing" => logins < 2 * attempt[0] - 1
    /\ Outside /\ at \in {"preparing", "limited"} => tokens < attempt[0]
    /\ ~Outside /\ at = "preparing" => logins <= 2 * attempt[0]
    /\ ~Outside /\ at \in {"preparing", "limited"} => tokens <= attempt[0]

\* Where the loops can be.
Looped ==
    /\ at = "relogin" => level = 0
    /\ at = "backoff" => More(level)
    /\ at # "fetching" => hops = 0

IInv == TypeOK /\ Sent /\ Logged /\ Looped

\* The types of the state, for the steps below.
LEMMA Typed ==
    ASSUME TypeOK
    PROVE  /\ attempt[0] \in 1 .. MaxAttempts /\ attempt[1] \in 1 .. MaxAttempts
           /\ MaxAttempts \in Nat /\ MaxRedirects \in Nat /\ Hop \in Nat
           /\ hops \in Nat /\ hops < Hop /\ fetches \in Nat /\ tokens \in Nat /\ logins \in Nat
           /\ level \in {0, 1} /\ Level = {0, 1}
  BY ConstantsAssumption DEF TypeOK, Level, Hop

\* One time more.
LEMMA Distributes == \A a \in Nat, h \in Nat : (a + 1) * h = a * h + h
  OBVIOUS

\* An attempt leaves room for the rest of its loop.
LEMMA RoomLeft ==
    ASSUME TypeOK
    PROVE  /\ attempt[0] * Inner <= MaxAttempts * Inner
           /\ attempt[0] * Inner = (attempt[0] - 1) * Inner + Inner
           /\ attempt[0] * Inner \in Nat /\ (attempt[0] - 1) * Inner \in Nat
           /\ Inner \in Nat /\ MaxAttempts * Inner \in Nat
           /\ Before(0) = 0 /\ After(0) = Hop
           /\ Before(1) \in Nat /\ After(1) = Before(1) + Hop /\ After(1) <= Inner
<1>1. \A h \in Nat, a \in 1 .. MaxAttempts :
        /\ a * h \in Nat /\ (a - 1) * h \in Nat /\ MaxAttempts * h \in Nat
        /\ a * h = (a - 1) * h + h /\ a * h <= MaxAttempts * h
  BY ConstantsAssumption
<1>2. Hop \in Nat /\ attempt[0] \in 1 .. MaxAttempts /\ attempt[1] \in 1 .. MaxAttempts
  BY Typed
<1>3. attempt[1] * Hop \in Nat /\ MaxAttempts * Hop \in Nat /\ attempt[1] * Hop <= MaxAttempts * Hop
  BY <1>1, <1>2
<1>4. Inner \in Nat
  BY <1>2, <1>3 DEF Inner
<1>5. /\ attempt[0] * Inner \in Nat /\ (attempt[0] - 1) * Inner \in Nat /\ MaxAttempts * Inner \in Nat
      /\ attempt[0] * Inner = (attempt[0] - 1) * Inner + Inner
      /\ attempt[0] * Inner <= MaxAttempts * Inner
  BY <1>1, <1>2, <1>4
<1>6. /\ Before(0) = 0 /\ After(0) = Hop
      /\ Before(1) = attempt[1] * Hop /\ After(1) = attempt[1] * Hop + Hop
  BY <1>2 DEF Before, After
<1> QED
  BY <1>2, <1>3, <1>4, <1>5, <1>6 DEF Inner

\* The budget of a call that was not sent yet is whole.
LEMMA Initially == Init => IInv
<1> SUFFICES ASSUME Init PROVE IInv
  OBVIOUS
<1>1. TypeOK
  BY ConstantsAssumption DEF Init, TypeOK, Place, Level
<1>2. attempt[0] = 1 /\ level = 0 /\ at = "preparing" /\ fetches = 0 /\ hops = 0
      /\ logins = 0 /\ tokens = 0
  BY DEF Init, Level
<1>3. Sent
  BY <1>1, <1>2, RoomLeft DEF Sent, Going
<1>4. Logged /\ Looped
  BY <1>2 DEF Logged, Looped, Outside, Going
<1> QED  BY <1>1, <1>3, <1>4 DEF IInv

\* What a step may use up that ends the attempt under way at level l.
WithinAttempt(l) ==
    /\ UNCHANGED attempt /\ hops' = 0
    /\ fetches' \in Nat /\ fetches' <= attempt[0] * Inner
    /\ l = 1 => fetches' <= (attempt[0] - 1) * Inner + After(1)
    /\ logins' \in Nat /\ logins' <= 2 * attempt[0] + 1
    /\ tokens' \in Nat /\ tokens' <= attempt[0] + 1

\* A call that is over has kept to the budget.
LEMMA OverKeeps ==
    ASSUME IInv, NEW l \in Level, WithinAttempt(l),
           level' \in Level, at' \in {"done", "failed"}
    PROVE  IInv'
<1>1. TypeOK
  BY DEF IInv
<1>2. TypeOK'
  BY <1>1, Typed DEF TypeOK, Place, WithinAttempt
<1>3. attempt'[0] = attempt[0] /\ fetches' <= attempt[0] * Inner
  BY DEF WithinAttempt
<1>4. Sent'
  BY <1>3 DEF WithinAttempt, Sent, Going, Inner, Hop
<1>5. Logged' /\ Looped'
  BY <1>1, Typed DEF WithinAttempt, Logged, Looped, Outside, Going
<1> QED  BY <1>2, <1>4, <1>5 DEF IInv

\* So has one whose loop waits for its next attempt.
LEMMA AgainKeeps ==
    ASSUME IInv, NEW l \in Level, WithinAttempt(l),
           NEW end \in {"done", "failed"}, Again(l, end)
    PROVE  IInv'
<1>1. TypeOK
  BY DEF IInv
<1>2. l \in {0, 1} /\ Level = {0, 1}
  BY <1>1, Typed
<1>3. CASE at' = end /\ level' = 0
  BY <1>2, <1>3, OverKeeps
<1>4. CASE at' = "backoff" /\ level' \in Level /\ (level' = 1 => l = 1) /\ More(level')
  <2>1. TypeOK'
    BY <1>1, <1>4, Typed DEF TypeOK, Place, WithinAttempt
  <2>2. /\ fetches' <= attempt[0] * Inner
        /\ level' = 1 => fetches' <= (attempt[0] - 1) * Inner + After(1)
    BY <1>2, <1>4 DEF WithinAttempt
  <2>3. attempt'[0] = attempt[0] /\ After(1)' = After(1)
    BY DEF WithinAttempt, After, Before, Hop
  <2>4. Sent'
    BY <1>4, <2>2, <2>3 DEF Sent, Going, Inner, Hop
  <2>5. More(level)'
    BY <1>4 DEF WithinAttempt, More
  <2>6. Logged' /\ Looped'
    BY <1>1, <1>4, <2>5, Typed DEF WithinAttempt, Logged, Looped, Outside, Going
  <2> QED  BY <2>1, <2>4, <2>6 DEF IInv
<1> QED
  BY <1>2, <1>3, <1>4 DEF Again

\* Every step of a call keeps to the budget.
LEMMA Inductive == IInv /\ [Next]_vars => IInv'
<1> SUFFICES ASSUME IInv, [Next]_vars PROVE IInv'
  OBVIOUS
<1>1. TypeOK /\ Sent /\ Logged /\ Looped
  BY DEF IInv
<1>2. /\ attempt \in [Level -> 1 .. MaxAttempts]
      /\ attempt[0] \in 1 .. MaxAttempts /\ attempt[1] \in 1 .. MaxAttempts
      /\ MaxAttempts \in Nat /\ MaxRedirects \in Nat /\ Hop \in Nat
      /\ hops \in 0 .. MaxRedirects /\ hops < Hop
      /\ fetches \in Nat /\ tokens \in Nat /\ logins \in Nat
      /\ level \in {0, 1} /\ Level = {0, 1}
  BY <1>1, Typed DEF TypeOK
<1>3. /\ attempt[0] * Inner = (attempt[0] - 1) * Inner + Inner
      /\ attempt[0] * Inner \in Nat /\ (attempt[0] - 1) * Inner \in Nat /\ Inner \in Nat
      /\ Before(0) = 0 /\ After(0) = Hop
      /\ Before(1) \in Nat /\ After(1) = Before(1) + Hop /\ After(1) <= Inner
  BY <1>1, RoomLeft
<1>4. After(level) = Before(level) + Hop /\ Before(level) \in Nat /\ After(level) <= Inner
  BY <1>2, <1>3 DEF Inner
<1>5. UNCHANGED attempt => Before(0)' = 0 /\ Before(1)' = Before(1) /\ attempt'[0] = attempt[0]
  BY DEF Before, Hop
<1>6. at = "fetching" => /\ fetches + 1 <= (attempt[0] - 1) * Inner + After(level)
                         /\ fetches + 1 <= attempt[0] * Inner
  BY <1>1, <1>2, <1>3, <1>4 DEF Sent, Going
<1>7. CASE Prepared
  <2>1. TypeOK'
    BY <1>1, <1>2, <1>7 DEF Prepared, EnsureLoggedIn, TypeOK, Place
  <2>2. Sent'
    <3>1. Before(level)' = Before(level) /\ attempt'[0] = attempt[0]
      BY <1>7 DEF Prepared, Before, Hop
    <3> QED  BY <1>1, <1>2, <1>7, <3>1 DEF Prepared, Sent, Going, Inner, Hop
  <2>3. Logged' /\ Looped'
    BY <1>1, <1>2, <1>7 DEF Prepared, EnsureLoggedIn, Logged, Looped, Outside, Going
  <2> QED  BY <2>1, <2>2, <2>3 DEF IInv
<1>8. CASE PrepareFails
  <2>1. WithinAttempt(0)
    BY <1>1, <1>2, <1>8
    DEF PrepareFails, EnsureLoggedIn, WithinAttempt, Sent, Logged, Looped, Outside, Going
  <2>2. CASE level = 0
    BY <1>2, <1>8, <2>1, <2>2, OverKeeps DEF PrepareFails
  <2>3. CASE level = 1
    BY <1>2, <1>8, <2>1, <2>3, AgainKeeps DEF PrepareFails, Throw
  <2> QED  BY <1>2, <2>2, <2>3
<1>9. CASE Admitted
  <2>1. TypeOK'
    BY <1>1, <1>2, <1>9 DEF Admitted, TypeOK, Place
  <2>2. Sent'
    <3>1. Before(level)' = Before(level) /\ attempt'[0] = attempt[0]
      BY <1>9 DEF Admitted, Before, Hop
    <3> QED  BY <1>1, <1>2, <1>9, <3>1 DEF Admitted, Sent, Going, Inner, Hop
  <2>3. Logged' /\ Looped'
    BY <1>1, <1>2, <1>9 DEF Admitted, Logged, Looped, Outside, Going
  <2> QED  BY <2>1, <2>2, <2>3 DEF IInv
<1>10. CASE Blocked
  <2>1. WithinAttempt(level)
    BY <1>1, <1>2, <1>3, <1>4, <1>6, <1>10 DEF Blocked, WithinAttempt, Sent, Logged
  <2> QED  BY <1>2, <1>10, <2>1, AgainKeeps DEF Blocked, Throw
<1>11. CASE Redirected
  <2>1. hops + 1 <= MaxRedirects
    BY <1>2, <1>11 DEF Redirected, MayFollow
  <2>2. TypeOK'
    BY <1>1, <1>2, <1>11, <2>1 DEF Redirected, Fetch, TypeOK, Place
  <2>3. Sent'
    BY <1>1, <1>2, <1>3, <1>5, <1>6, <1>11 DEF Redirected, Fetch, Sent, Going, Inner, Hop
  <2>4. Logged' /\ Looped'
    BY <1>1, <1>2, <1>11 DEF Redirected, Fetch, Logged, Looped, Outside, Going
  <2> QED  BY <2>2, <2>3, <2>4 DEF IInv
<1>12. ASSUME Fetch, hops' = 0, UNCHANGED <<attempt, tokens, logins>> PROVE WithinAttempt(level)
  BY <1>1, <1>2, <1>6, <1>12 DEF Fetch, WithinAttempt, Logged
<1>13. CASE Answered
  <2>1. WithinAttempt(level)
    BY <1>12, <1>13 DEF Answered
  <2>2. CASE at' = "done" /\ UNCHANGED level
    BY <1>2, <2>1, <2>2, OverKeeps
  <2>3. CASE Again(level, "done")
    BY <1>2, <2>1, <2>3, AgainKeeps
  <2> QED  BY <1>13, <2>2, <2>3 DEF Answered
<1>14. CASE Fails
  <2>1. WithinAttempt(level)
    BY <1>12, <1>14 DEF Fails
  <2> QED  BY <1>2, <1>14, <2>1, AgainKeeps DEF Fails, Throw
<1>15. CASE Refused
  <2>1. at' = "relogin" /\ level = 0 /\ level' = 0
    BY <1>15 DEF Refused, MayReplay
  <2>2. TypeOK'
    BY <1>1, <1>2, <1>15, <2>1 DEF Refused, Fetch, TypeOK, Place
  <2>3. Sent'
    BY <1>2, <1>3, <1>6, <1>15, <2>1 DEF Refused, Fetch, Sent, Going, Inner, Hop
  <2>4. Logged' /\ Looped'
    BY <1>1, <1>2, <1>15, <2>1 DEF Refused, Fetch, Logged, Looped, Outside, Going
  <2> QED  BY <2>2, <2>3, <2>4 DEF IInv
<1>16. CASE LoggedIn
  <2>1. /\ attempt'[0] = attempt[0] /\ attempt'[1] = 1 /\ level' = 1 /\ level = 0
        /\ attempt' \in [Level -> 1 .. MaxAttempts]
    BY <1>1, <1>2, <1>16 DEF LoggedIn, Looped
  <2>2. TypeOK'
    BY <1>1, <1>2, <1>16, <2>1 DEF LoggedIn, EnsureLoggedIn, TypeOK, Place
  <2>3. Before(1)' = Hop
    BY <1>2, <2>1 DEF Before, Hop
  <2>4. Sent'
    BY <1>1, <1>2, <1>3, <1>16, <2>1, <2>3 DEF LoggedIn, Sent, Going, Looped, Inner, Hop
  <2>5. Logged' /\ Looped'
    BY <1>1, <1>2, <1>16, <2>1 DEF LoggedIn, EnsureLoggedIn, Logged, Looped, Outside, Going
  <2> QED  BY <2>2, <2>4, <2>5 DEF IInv
<1>17. CASE LoginFails
  <2>1. WithinAttempt(0)
    BY <1>1, <1>2, <1>17
    DEF LoginFails, EnsureLoggedIn, WithinAttempt, Sent, Logged, Looped, Outside, Going
  <2> QED  BY <1>2, <1>17, <2>1, AgainKeeps DEF LoginFails, Throw
<1>18. CASE Retry
  <2>1. /\ attempt' = [attempt EXCEPT ![level] = @ + 1] /\ attempt[level] < MaxAttempts
        /\ level' = level /\ hops' = 0 /\ hops = 0
    BY <1>1, <1>18 DEF Retry, Looped, More
  <2>2. TypeOK'
    BY <1>1, <1>2, <1>18, <2>1 DEF Retry, TypeOK, Place
  <2>3. CASE level = 0
    <3>1. attempt'[0] = attempt[0] + 1
      BY <1>2, <2>1, <2>3
    <3>2. (attempt'[0] - 1) * Inner = attempt[0] * Inner /\ Before(0)' = 0
      BY <1>2, <3>1 DEF Before
    <3>3. Sent'
      <4>1. attempt'[0] * Inner = attempt[0] * Inner + Inner
        BY <1>2, <1>3, <3>1, Distributes
      <4> QED  BY <1>1, <1>2, <1>3, <1>18, <2>1, <2>3, <3>2, <4>1 DEF Retry, Sent, Going, Inner, Hop
    <3>4. Logged' /\ Looped'
      BY <1>1, <1>2, <1>18, <2>1, <2>3, <3>1 DEF Retry, Logged, Looped, Outside, Going
    <3> QED  BY <2>2, <3>3, <3>4 DEF IInv
  <2>4. CASE level = 1
    <3>1. attempt'[0] = attempt[0] /\ attempt'[1] = attempt[1] + 1
      BY <1>2, <2>1, <2>4
    <3>2. Before(level)' = After(1)
      BY <1>2, <2>1, <2>4, <3>1, Distributes DEF Before, After, Hop
    <3>3. Sent'
      BY <1>1, <1>2, <1>3, <1>18, <2>1, <2>4, <3>1, <3>2 DEF Retry, Sent, Going, Inner, Hop
    <3>4. Logged' /\ Looped'
      BY <1>1, <1>2, <1>18, <2>1, <2>4, <3>1 DEF Retry, Logged, Looped, Outside, Going
    <3> QED  BY <2>2, <3>3, <3>4 DEF IInv
  <2> QED  BY <1>2, <2>3, <2>4
<1>19. CASE UNCHANGED vars
  BY <1>1, <1>19
  DEF vars, IInv, TypeOK, Sent, Logged, Looped, Outside, Before, After, Inner, Hop, More
<1> QED
  BY <1>7, <1>8, <1>9, <1>10, <1>11, <1>13, <1>14, <1>15, <1>16, <1>17, <1>18, <1>19 DEF Next, Ends

\* The bounds follow from the inductive invariant.
LEMMA BoundsFollow == IInv => TypeOK /\ WorkBounded
<1> SUFFICES ASSUME IInv PROVE TypeOK /\ WorkBounded
  OBVIOUS
<1>1. TypeOK /\ Sent /\ Logged
  BY DEF IInv
<1>2. fetches <= MaxAttempts * Inner
  BY <1>1, RoomLeft, Typed DEF Sent
<1>3. Inner = (MaxAttempts + 1) * (MaxRedirects + 1)
  BY ConstantsAssumption DEF Inner, Hop
<1>4. MaxAttempts * Inner = MaxAttempts * (MaxAttempts + 1) * (MaxRedirects + 1)
  BY <1>3, ConstantsAssumption
<1>5. logins <= 1 + 2 * MaxAttempts /\ tokens <= 1 + MaxAttempts
  BY <1>1, Typed DEF Logged
<1> QED
  BY <1>1, <1>2, <1>4, <1>5 DEF WorkBounded

\* For every max_attempts and limit on redirects a call is sent at most
\* max_attempts times what an attempt and a replay's loop inside it can send with
\* all their redirects, logs in at most once before and twice for each attempt,
\* and takes a token for itself and one for each replay
\* (createRetryInterceptor, requestInternal, prepareRequest).
THEOREM RetryBounds == Spec => [](TypeOK /\ WorkBounded)
  BY BoundsFollow, Initially, Inductive, PTL DEF Spec

-----------------------------------------------------------------------------
(* The chain *)


\* The most that may be due beyond a flow of twice the rate.
Burst == Full + Cost

\* What was due of bucket b at time t.
LeftAt(b, t) ==
    IF due[b].owed > 2 * (t - due[b].since) THEN due[b].owed - 2 * (t - due[b].since) ELSE 0

\* A bucket has no more to give than what is due leaves room for: its tokens
\* fill half as fast as what is due flows off.
Room2 ==
    \A b \in Bucket :
        /\ due[b].owed <= Burst
        /\ Left(b) + Refilled(b) <= Burst

\* The same for the time a sleep began, when the bucket held all of the cost
\* that the sleep is not long enough for.
Asleep ==
    \A r \in Request : call[r].at = "sleeping" =>
        LET b == call[r].from  s == call[r].start  u == call[r].until IN
        /\ s <= now /\ s < u /\ u <= s + Cost /\ due[b].since <= s
        /\ LeftAt(b, s) + (Cost - (u - s)) <= Burst
        /\ b = "endpoint" => bucket[b].lastRefill = s

RateInv == LimiterTypeOK /\ Room2 /\ Asleep

\* A full bucket holds at least the cost of one request.
LEMMA Numbers == Full \in Nat /\ Cost \in Nat /\ Max \in Nat /\ Cost >= 1 /\ Cost <= Full
  BY LimiterAssumption DEF Full

\* What is due and what a bucket holds, refilled, are numbers in their ranges.
LEMMA Levels ==
    ASSUME LimiterTypeOK, NEW b \in Bucket
    PROVE  /\ Left(b) \in Nat /\ Refilled(b) \in 0 .. Full
           /\ Left(b) = LeftAt(b, now) /\ Left(b) <= due[b].owed
           /\ bucket[b].tokens \in Nat /\ bucket[b].lastRefill \in Nat
           /\ due[b].owed \in Nat /\ due[b].since \in Nat /\ now \in Nat
           /\ due[b].since <= now /\ bucket[b].lastRefill <= now
  BY Numbers DEF LimiterTypeOK, Left, LeftAt, Flowed, Refilled, Filling

\* Full buckets and nothing due satisfy the invariant.
LEMMA RateInitially == LimiterInit => RateInv
  BY Numbers
  DEF LimiterInit, RateInv, LimiterTypeOK, Room2, Asleep, Left, Flowed, Refilled,
      Filling, Call, Idle, Bucket, Burst

\* A request takes a token that is there: what the bucket gives is then due.
LEMMA PassKeeps ==
    ASSUME RateInv, NEW r \in Request, Request = {r}, NEW b \in Bucket, Pass(r, b)
    PROVE  RateInv'
<1>1. /\ Left(b) \in Nat /\ Refilled(b) \in 0 .. Full /\ Refilled(b) >= Cost
      /\ Left(b) + Refilled(b) <= Burst /\ now \in Nat
  BY Levels DEF RateInv, Room2, Pass
<1>2. /\ bucket' = [bucket EXCEPT ![b] = [tokens |-> Refilled(b) - Cost, lastRefill |-> now]]
      /\ due' = [due EXCEPT ![b] = [owed |-> Left(b) + Cost, since |-> now]]
      /\ UNCHANGED <<now, call>> /\ call[r].at = "idle"
  BY DEF Pass, GoesOn
<1>3. Refilled(b) - Cost \in 0 .. Full
  BY <1>1, Numbers
<1>4. LimiterTypeOK'
  BY <1>1, <1>2, <1>3, Numbers DEF RateInv, LimiterTypeOK, Filling
<1>5. ASSUME NEW d \in Bucket PROVE due'[d].owed <= Burst /\ (Left(d) + Refilled(d) <= Burst)'
  <2>1. CASE d # b
    <3>1. due'[d] = due[d] /\ bucket'[d] = bucket[d] /\ now' = now
      BY <1>2, <2>1 DEF RateInv, LimiterTypeOK
    <3>2. Left(d)' = Left(d) /\ Refilled(d)' = Refilled(d)
      BY <3>1 DEF Left, Flowed, Refilled
    <3> QED  BY <3>1, <3>2 DEF RateInv, Room2
  <2>2. CASE d = b
    <3>1. /\ due'[b] = [owed |-> Left(b) + Cost, since |-> now] /\ now' = now
          /\ bucket'[b] = [tokens |-> Refilled(b) - Cost, lastRefill |-> now]
      BY <1>2 DEF RateInv, LimiterTypeOK
    <3>2. Left(b)' = Left(b) + Cost
      BY <1>1, <3>1, Numbers DEF Left, Flowed
    <3>3. Refilled(b)' = Refilled(b) - Cost
      BY <1>1, <1>3, <3>1, Numbers DEF Refilled
    <3> QED  BY <1>1, <2>2, <3>1, <3>2, <3>3, Numbers DEF Burst
  <2> QED  BY <2>1, <2>2
<1>6. Asleep'
  BY <1>2 DEF Asleep
<1> QED
  BY <1>4, <1>5, <1>6 DEF RateInv, Room2

\* None is there: how long the request sleeps says what the bucket held.
LEMMA SleepKeeps ==
    ASSUME RateInv, NEW r \in Request, Request = {r}, NEW b \in Bucket, Sleep(r, b)
    PROVE  RateInv'
<1>1. /\ Left(b) \in Nat /\ Refilled(b) \in 0 .. Full /\ Refilled(b) < Cost
      /\ Left(b) + Refilled(b) <= Burst /\ now \in Nat /\ Left(b) = LeftAt(b, now)
      /\ due[b].since <= now
  BY Levels DEF RateInv, Room2, Sleep
<1>2. /\ bucket' = IF b = "global" THEN bucket
                   ELSE [bucket EXCEPT ![b] = [tokens |-> Refilled(b), lastRefill |-> now]]
      /\ call' = [call EXCEPT ![r] = [at |-> "sleeping", from |-> b, start |-> now,
                                      until |-> now + (Cost - Refilled(b))]]
      /\ UNCHANGED <<now, due>>
  BY DEF Sleep
<1>3. now + (Cost - Refilled(b)) \in Nat
  BY <1>1, Numbers
<1>4. LimiterTypeOK'
  BY <1>1, <1>2, <1>3 DEF RateInv, LimiterTypeOK, Filling, Call
<1>5. ASSUME NEW d \in Bucket PROVE due'[d].owed <= Burst /\ (Left(d) + Refilled(d) <= Burst)'
  <2>1. Left(d)' = Left(d)
    BY <1>2 DEF Left, Flowed
  <2>2. Refilled(d)' = Refilled(d)
    <3>1. CASE d # b \/ b = "global"
      BY <1>2, <3>1 DEF Refilled, RateInv, LimiterTypeOK
    <3>2. CASE d = b /\ b # "global"
      <4>1. bucket'[b] = [tokens |-> Refilled(b), lastRefill |-> now] /\ now' = now
        BY <1>2, <3>2 DEF RateInv, LimiterTypeOK
      <4>2. Refilled(b)' = IF Refilled(b) + (now - now) < Full THEN Refilled(b) + (now - now) ELSE Full
        BY <4>1 DEF Refilled
      <4> QED  BY <1>1, <3>2, <4>2, Numbers
    <3> QED  BY <3>1, <3>2
  <2> QED  BY <1>2, <2>1, <2>2 DEF RateInv, Room2
<1>6. Asleep'
  <2>1. call'[r] = [at |-> "sleeping", from |-> b, start |-> now,
                    until |-> now + (Cost - Refilled(b))]
    BY <1>2 DEF RateInv, LimiterTypeOK
  <2>2. LeftAt(b, now)' = Left(b)
    BY <1>1, <1>2 DEF LeftAt
  <2>3. b = "endpoint" => bucket'[b].lastRefill = now
    BY <1>2 DEF RateInv, LimiterTypeOK
  <2>4. /\ now < now + (Cost - Refilled(b)) /\ now + (Cost - Refilled(b)) <= now + Cost
        /\ Cost - ((now + (Cost - Refilled(b))) - now) = Refilled(b)
    BY <1>1, Numbers
  <2> QED
    BY <1>1, <1>2, <2>1, <2>2, <2>3, <2>4 DEF Asleep, LeftAt
<1> QED
  BY <1>4, <1>5, <1>6 DEF RateInv, Room2


\* The timer fires: what flowed off while the request slept is as much as the
\* bucket is credited for the sleep a second time.
LEMMA WakeOf ==
    ASSUME RateInv, NEW r \in Request, Request = {r}, Wake(r),
           NEW b \in Bucket, NEW s \in Nat, NEW u \in Nat,
           call[r].from = b, call[r].start = s, call[r].until = u
    PROVE  RateInv'
<1>1. call[r].at = "sleeping" /\ now >= u /\ now \in Nat
  BY DEF RateInv, LimiterTypeOK, Wake
<1>2. /\ s <= now /\ s < u /\ u <= s + Cost /\ due[b].since <= s
      /\ LeftAt(b, s) + (Cost - (u - s)) <= Burst
      /\ b = "endpoint" => bucket[b].lastRefill = s
  BY <1>1 DEF RateInv, Asleep
<1>3. /\ Left(b) \in Nat /\ Left(b) = LeftAt(b, now)
      /\ due[b].owed \in Nat /\ due[b].since \in Nat
  BY <1>1, Levels DEF RateInv
<1>4. /\ bucket' = [bucket EXCEPT ![b] = [tokens |-> 0,
                      lastRefill |-> IF b = "global" THEN s ELSE bucket[b].lastRefill]]
      /\ due' = [due EXCEPT ![b] = [owed |-> Left(b) + Cost, since |-> now]]
      /\ call' = [call EXCEPT ![r] = Idle] /\ now' = now
  BY DEF Wake, GoesOn
<1>5. /\ bucket'[b].tokens = 0 /\ bucket'[b].lastRefill = s
      /\ bucket'[b] \in Filling
      /\ \A d \in Bucket \ {b} : bucket'[d] = bucket[d]
  <2>1. bucket[b] \in Filling /\ bucket \in [Bucket -> Filling]
    BY <1>1 DEF RateInv, LimiterTypeOK
  <2>2. bucket[b].lastRefill \in Nat /\ 0 \in 0 .. Full
    BY <2>1, Numbers DEF Filling
  <2>3. bucket'[b] = [tokens |-> 0, lastRefill |-> s]
    <3>1. b = "global" \/ b = "endpoint"
      BY DEF Bucket
    <3> QED  BY <1>2, <1>4, <2>1, <3>1
  <2>4. \A d \in Bucket \ {b} : bucket'[d] = bucket[d]
    BY <1>4, <2>1
  <2> QED
    BY <2>2, <2>3, <2>4 DEF Filling
<1>6. LimiterTypeOK'
  <2>1. bucket' \in [Bucket -> Filling]
    BY <1>1, <1>4, <1>5 DEF RateInv, LimiterTypeOK
  <2>2. due' \in [Bucket -> [owed : Nat, since : Nat]] /\ \A d \in Bucket : due'[d].since <= now'
    BY <1>1, <1>3, <1>4, Numbers DEF RateInv, LimiterTypeOK
  <2>3. call' \in [Request -> Call]
    BY <1>4 DEF RateInv, LimiterTypeOK, Idle, Call, Bucket
  <2>4. \A d \in Bucket : bucket'[d].lastRefill <= now'
    BY <1>1, <1>2, <1>4, <1>5 DEF RateInv, LimiterTypeOK
  <2> QED  BY <1>1, <1>4, <2>1, <2>2, <2>3, <2>4 DEF LimiterTypeOK
<1>7. ASSUME NEW d \in Bucket PROVE due'[d].owed <= Burst /\ (Left(d) + Refilled(d) <= Burst)'
  <2>1. CASE d # b
    <3>1. due'[d] = due[d] /\ bucket'[d] = bucket[d] /\ now' = now
      BY <1>4, <1>5, <2>1 DEF RateInv, LimiterTypeOK
    <3>2. Left(d)' = Left(d) /\ Refilled(d)' = Refilled(d)
      BY <3>1 DEF Left, Flowed, Refilled
    <3> QED  BY <3>1, <3>2 DEF RateInv, Room2
  <2>2. CASE d = b
    <3>1. due'[b] = [owed |-> Left(b) + Cost, since |-> now] /\ now' = now
      BY <1>1, <1>4 DEF RateInv, LimiterTypeOK
    <3>2. Left(b)' = Left(b) + Cost
      BY <1>1, <1>3, <3>1, Numbers DEF Left, Flowed
    <3>3. Refilled(b)' = IF now - s < Full THEN now - s ELSE Full
      BY <1>1, <1>5, <3>1 DEF Refilled
    <3>4. Left(b) = IF LeftAt(b, s) > 2 * (now - s) THEN LeftAt(b, s) - 2 * (now - s) ELSE 0
      BY <1>1, <1>2, <1>3 DEF LeftAt
    <3>5. LeftAt(b, s) \in Nat
      BY <1>1, <1>2, <1>3 DEF LeftAt
    <3>6. Left(b) + Cost <= Burst
      BY <1>1, <1>2, <1>3, <3>4, <3>5, Numbers DEF Burst
    <3>7. Left(b) + Cost + (IF now - s < Full THEN now - s ELSE Full) <= Burst
      BY <1>1, <1>2, <1>3, <3>4, <3>5, Numbers DEF Burst
    <3> QED  BY <2>2, <3>1, <3>2, <3>3, <3>6, <3>7
  <2> QED  BY <2>1, <2>2
<1>8. Asleep'
  BY <1>4 DEF Asleep, Idle, RateInv, LimiterTypeOK
<1> QED
  BY <1>6, <1>7, <1>8 DEF RateInv, Room2

\* So does the only caller when it wakes.
LEMMA WakeKeeps ==
    ASSUME RateInv, NEW r \in Request, Request = {r}, Wake(r)
    PROVE  RateInv'
<1>1. call[r].from \in Bucket /\ call[r].start \in Nat /\ call[r].until \in Nat
  BY DEF RateInv, LimiterTypeOK, Call
<1> QED
  BY <1>1, WakeOf

\* While time passes, what is due flows off twice as fast as the bucket fills.
LEMMA TickKeeps == RateInv /\ Tick => RateInv'
<1> SUFFICES ASSUME RateInv, Tick PROVE RateInv'
  OBVIOUS
<1>1. now' = now + 1 /\ UNCHANGED <<bucket, call, due>> /\ now \in Nat
  BY DEF Tick, RateInv, LimiterTypeOK
<1>2. LimiterTypeOK'
  BY <1>1, Levels DEF RateInv, LimiterTypeOK, Filling
<1>3. ASSUME NEW b \in Bucket PROVE due'[b].owed <= Burst /\ (Left(b) + Refilled(b) <= Burst)'
  <2>1. /\ Left(b) \in Nat /\ Refilled(b) \in 0 .. Full /\ Left(b) + Refilled(b) <= Burst
        /\ bucket[b].tokens \in Nat /\ bucket[b].lastRefill \in Nat
        /\ due[b].owed \in Nat /\ due[b].since \in Nat
        /\ due[b].since <= now /\ bucket[b].lastRefill <= now
    BY Levels DEF RateInv, Room2
  <2>2. Left(b)' = IF due[b].owed > 2 * (now - due[b].since) + 2
                   THEN due[b].owed - (2 * (now - due[b].since) + 2) ELSE 0
    BY <1>1, <2>1 DEF Left, Flowed
  <2>3. Left(b)' = 0 \/ Left(b)' = Left(b) - 2
    BY <1>1, <2>1, <2>2 DEF Left, Flowed
  <2>4. Refilled(b)' <= Refilled(b) + 1 /\ Refilled(b)' \in 0 .. Full
    BY <1>1, <2>1, Numbers DEF Refilled
  <2> QED
    BY <1>1, <2>1, <2>3, <2>4, Numbers DEF Burst, RateInv, Room2
<1>4. Asleep'
  BY <1>1 DEF RateInv, LimiterTypeOK, Asleep, LeftAt, Call
<1> QED
  BY <1>2, <1>3, <1>4 DEF RateInv, Room2

\* Calls of one client one after the other are sent at no more than twice the
\* configured rate, for every rate, bucket and sequence of waits, retries and
\* replays (createRateLimitInterceptor).
THEOREM RateBounded == InterceptorsSpec => [](LimiterTypeOK /\ TwiceTheRate)
<1>1. InterceptorsInit => RateInv
  BY RateInitially DEF InterceptorsInit
<1>2. RateInv /\ operation \in Bucket /\ [InterceptorsNext]_all => RateInv'
  <2> SUFFICES ASSUME RateInv, operation \in Bucket, [InterceptorsNext]_all PROVE RateInv'
    OBVIOUS
  <2>1. PICK r \in Request : Request = {r}
    BY OneCaller
  <2>2. CASE HeldBack
    <3>1. Sleep(r, operation)
      BY <2>1, <2>2 DEF HeldBack
    <3> QED  BY <2>1, <3>1, SleepKeeps
  <2>3. CASE LetPass
    <3>1. Pass(r, operation) \/ Wake(r)
      BY <2>1, <2>3 DEF LetPass
    <3> QED  BY <2>1, <3>1, PassKeeps, WakeKeeps
  <2>4. CASE TimePasses
    BY <2>4, TickKeeps DEF TimePasses
  <2>5. CASE UNCHANGED limiter
    BY <2>5 DEF limiter, RateInv, LimiterTypeOK, Room2, Asleep, Left, LeftAt, Flowed, Refilled
  <2> QED
    BY <2>2, <2>3, <2>4, <2>5
    DEF InterceptorsNext, GoesOnItsWay, NextCall, all
<1>3. InterceptorsInit => operation \in Bucket
  BY DEF InterceptorsInit
<1>4. operation \in Bucket /\ [InterceptorsNext]_all => (operation \in Bucket)'
  BY DEF InterceptorsNext, HeldBack, LetPass, GoesOnItsWay, TimePasses, NextCall, all
<1>5. RateInv => LimiterTypeOK /\ TwiceTheRate
  BY DEF RateInv, Room2, TwiceTheRate, Burst
<1> QED
  BY <1>1, <1>2, <1>3, <1>4, <1>5, PTL DEF InterceptorsSpec

\* The bounds of RetryChain hold for each of the calls a client makes.
THEOREM CallsBounded == InterceptorsSpec => [](TypeOK /\ WorkBounded)
<1>1. InterceptorsInit => IInv
  BY Initially DEF InterceptorsInit
<1>2. IInv /\ [InterceptorsNext]_all => IInv'
  <2> SUFFICES ASSUME IInv, [InterceptorsNext]_all PROVE IInv'
    OBVIOUS
  <2>1. CASE NextCall
    <3>1. Init'
      BY <2>1 DEF NextCall, Init
    <3> QED  BY <3>1, Initially, PTL
  <2>2. CASE [Next]_vars
    BY <2>2, Inductive
  <2> QED
    BY <2>1, <2>2
    DEF InterceptorsNext, HeldBack, LetPass, GoesOnItsWay, TimePasses, all, Next
<1>3. IInv => TypeOK /\ WorkBounded
  BY BoundsFollow
<1> QED
  BY <1>1, <1>2, <1>3, PTL DEF InterceptorsSpec

-----------------------------------------------------------------------------
(* Composite tools: the requests respect the dependencies.  The sort's invariant:
   a pair of a step and a dependency that counts no more has its dependency in a
   level; a name in the queue or in a level has no pair that counts, so it is
   freed only once.  What a step depends on is thus in an earlier level, and a
   level's steps are asked when the earlier levels have settled. *)

At(m, n) == levels[m][n]
NameAt(m, n) == steps[levels[m][n]].store_as

Running == phase \in {"between", "level", "thrown", "answered"}

GraphTypeOK ==
    /\ steps \in Tools
    /\ queue \in Seq(Produced(steps))
    /\ levels \in Seq(Seq(Indices(steps)))
    /\ current \in Nat /\ (Running => current >= 1)
    /\ DOMAIN fate = Indices(steps)
    /\ phase \in {"profile", "not loaded", "loaded", "sorting", "refused",
                  "between", "level", "thrown", "answered"}

\* Before a call, and when the sort goes on.
Untouched == phase \in {"profile", "not loaded", "loaded"} => levels = <<>>
NamesKnown == phase \notin {"profile", "not loaded"} => ~ UnknownDependency(steps)
Counted == phase = "sorting" =>
    \A e \in Edges(steps) : e \notin waits =>
        \E m \in DOMAIN levels : \E n \in DOMAIN levels[m] : levels[m][n] = StepOf(steps, e[2])
Free == phase = "sorting" => \A n \in DOMAIN queue :
    /\ NoDegree(steps, waits, queue[n])
    /\ \A m \in DOMAIN levels : \A k \in DOMAIN levels[m] : NameAt(m, k) # queue[n]
FreeInLevels == phase = "sorting" =>
    \A m \in DOMAIN levels : \A n \in DOMAIN levels[m] : NoDegree(steps, waits, NameAt(m, n))

\* Of the levels.
OwnStep == \A m \in DOMAIN levels : \A n \in DOMAIN levels[m] :
    levels[m][n] = StepOf(steps, NameAt(m, n))
Apart == \A m1, m2 \in DOMAIN levels : m1 # m2 =>
    \A a \in DOMAIN levels[m1], b \in DOMAIN levels[m2] : levels[m1][a] # levels[m2][b]
DependedAbove == \A m \in DOMAIN levels : \A n \in DOMAIN levels[m] :
    \A d \in steps[levels[m][n]].depends_on :
        \E m2 \in DOMAIN levels : m2 < m /\ \E k \in DOMAIN levels[m2] : levels[m2][k] = StepOf(steps, d)

\* Of the levels' run.
AllPlaced == Running => Placed = Indices(steps)
Waiting == ~ Running => \A i \in Indices(steps) : fate[i] = "waiting"
EarlierSettled == Running =>
    \A m \in DOMAIN levels : m < current => \A n \in DOMAIN levels[m] : Settled(levels[m][n])
StartedInLevel == Running => \A i \in Indices(steps) : fate[i] # "waiting" =>
    \E m \in DOMAIN levels : i \in InLevel(m) /\ (m < current \/ (phase = "level" /\ m = current))

GraphInv ==
    /\ GraphTypeOK /\ Untouched /\ NamesKnown /\ Counted /\ Free /\ FreeInLevels
    /\ OwnStep /\ Apart /\ DependedAbove
    /\ AllPlaced /\ Waiting /\ EarlierSettled /\ StartedInLevel

-----------------------------------------------------------------------------

\* A name that is produced has a step.
LEMMA StepOfName ==
    ASSUME NEW s, NEW name \in Produced(s)
    PROVE  StepOf(s, name) \in Indices(s) /\ s[StepOf(s, name)].store_as = name
<1>1. \E i \in Indices(s) : s[i].store_as = name
  BY DEF Produced
<1> QED  BY <1>1 DEF StepOf

\* The names of a tool can be put in a sequence.
LEMMA NamesFinite ==
    ASSUME NEW s \in Tools, NEW S \in SUBSET Produced(s)
    PROVE  Cardinality(S) \in Nat /\ \A q \in [1..Cardinality(S) -> S] : q \in Seq(S)
<1> DEFINE names == [i \in Indices(s) |-> s[i].store_as]
<1>1. IsFiniteSet(Indices(s))
  BY FS_Interval, ToolsAssumption DEF Indices
<1>2. names \in Surjection(Indices(s), Produced(s))
  BY DEF Surjection, Produced
<1>3. IsFiniteSet(S)
  BY <1>1, <1>2, FS_Surjection, FS_Subset
<1>4. Cardinality(S) \in Nat
  BY <1>3, FS_CardinalityType
<1> QED  BY <1>4

\* The invariant holds before the profile is loaded.
LEMMA GraphInitInv == GraphInit => GraphInv
<1> SUFFICES ASSUME GraphInit PROVE GraphInv
  OBVIOUS
<1> USE DEF GraphInit
<1>1. GraphTypeOK
  BY DEF GraphTypeOK, Running
<1> QED
  BY <1>1 DEF GraphInv, Untouched, NamesKnown, Counted, Free, FreeInLevels, OwnStep,
     Apart, DependedAbove, AllPlaced, Waiting, EarlierSettled, StartedInLevel, Running

-----------------------------------------------------------------------------
(* The sort. *)

\* It is kept when a call arrives.
LEMMA CallArrivesInv == GraphInv /\ CallArrives => GraphInv'
<1> SUFFICES ASSUME GraphInv, CallArrives PROVE GraphInv'
  OBVIOUS
<1> DEFINE S == { n \in Produced(steps) : NoDegree(steps, waits', n) }
<1>1. levels = <<>> /\ levels' = <<>> /\ steps' = steps /\ steps \in Tools
  BY DEF GraphInv, GraphTypeOK, Untouched, CallArrives
<1>2. queue' \in [1..Cardinality(S) -> S]
  BY DEF CallArrives, Ordered
<1>3. queue' \in Seq(S)
  BY <1>1, <1>2, NamesFinite
<1>4. GraphTypeOK'
  BY <1>1, <1>3 DEF GraphInv, GraphTypeOK, CallArrives, Running
<1>5. Free'
  BY <1>1, <1>2 DEF Free
<1>6. Counted' /\ NamesKnown'
  BY <1>1 DEF CallArrives, Counted, NamesKnown, GraphInv
<1>7. Waiting'
  BY DEF CallArrives, Waiting, Running, GraphInv
<1> QED
  BY <1>1, <1>4, <1>5, <1>6, <1>7 DEF GraphInv, CallArrives, Untouched, FreeInLevels, OwnStep,
     Apart, DependedAbove, AllPlaced, EarlierSettled, StartedInLevel, Running

\* It is kept by each level of the sort.
LEMMA SortLevelInv == GraphInv /\ SortLevel => GraphInv'
<1> SUFFICES ASSUME GraphInv, SortLevel PROVE GraphInv'
  OBVIOUS
<1> DEFINE new == Len(levels) + 1
           lvl == [n \in DOMAIN queue |-> StepOf(steps, queue[n])]
<1>1. /\ steps \in Tools /\ queue \in Seq(Produced(steps)) /\ levels \in Seq(Seq(Indices(steps)))
      /\ phase = "sorting" /\ phase' = "sorting" /\ steps' = steps /\ fate' = fate /\ current' = current
      /\ levels' = Append(levels, lvl) /\ waits' = { e \in waits : e[2] \notin Leaving }
  BY DEF GraphInv, GraphTypeOK, SortLevel
<1>2. lvl \in Seq(Indices(steps))
  BY <1>1, StepOfName
<1>3. /\ levels' \in Seq(Seq(Indices(steps))) /\ DOMAIN levels = 1..Len(levels) /\ Len(levels) \in Nat
      /\ DOMAIN levels' = 1..new /\ levels'[new] = lvl /\ DOMAIN lvl = DOMAIN queue
      /\ \A m \in DOMAIN levels : m \in DOMAIN levels' /\ levels'[m] = levels[m] /\ m < new
      /\ \A m \in DOMAIN levels' : m \in DOMAIN levels \/ m = new
  BY <1>1, <1>2
<1>4. \A n \in DOMAIN queue : /\ queue[n] \in Produced(steps) /\ lvl[n] = StepOf(steps, queue[n])
                             /\ lvl[n] \in Indices(steps) /\ steps[lvl[n]].store_as = queue[n]
  BY <1>1, StepOfName
<1>5. queue' \in [1..Cardinality(Freed) -> Freed] /\ Freed \in SUBSET Produced(steps)
  BY DEF SortLevel, Ordered, Freed
<1>6. queue' \in Seq(Freed)
  BY <1>1, <1>5, NamesFinite
<1>7. \A n \in DOMAIN queue' : /\ ~ NoDegree(steps, waits, queue'[n])
                              /\ NoDegree(steps, waits', queue'[n])
  BY <1>1, <1>5 DEF Freed
<1>8. GraphTypeOK'
  BY <1>1, <1>3, <1>5, <1>6 DEF GraphInv, GraphTypeOK, Running
<1>9. Counted'
  <2> SUFFICES ASSUME NEW e \in Edges(steps), e \notin waits'
               PROVE  \E m \in DOMAIN levels' : \E n \in DOMAIN levels'[m] : levels'[m][n] = StepOf(steps, e[2])
    BY <1>1 DEF Counted
  <2>1. CASE e \notin waits
    BY <2>1, <1>1, <1>3 DEF GraphInv, Counted
  <2>2. CASE e[2] \in Leaving
    <3>1. PICK n \in DOMAIN queue : e[2] = queue[n]
      BY <2>2 DEF Leaving
    <3>2. lvl[n] = StepOf(steps, e[2])
      BY <3>1, <1>4
    <3>3. new \in DOMAIN levels' /\ n \in DOMAIN levels'[new] /\ levels'[new][n] = lvl[n]
      BY <1>3
    <3> QED  BY <3>2, <3>3
  <2> QED  BY <2>1, <2>2, <1>1
<1>10. FreeInLevels'
  <2> SUFFICES ASSUME NEW m \in DOMAIN levels', NEW n \in DOMAIN levels'[m]
               PROVE  NoDegree(steps, waits', steps[levels'[m][n]].store_as)
    BY <1>1 DEF FreeInLevels, NameAt
  <2>1. NoDegree(steps, waits, steps[levels'[m][n]].store_as)
    BY <1>1, <1>3, <1>4 DEF GraphInv, FreeInLevels, Free, NameAt
  <2> QED  BY <2>1, <1>1 DEF NoDegree
<1>11. Free'
  <2> SUFFICES ASSUME NEW n \in DOMAIN queue', NEW m \in DOMAIN levels', NEW k \in DOMAIN levels'[m]
               PROVE  steps[levels'[m][k]].store_as # queue'[n]
    BY <1>1, <1>7 DEF Free, NameAt
  <2>1. NoDegree(steps, waits, steps[levels'[m][k]].store_as)
    BY <1>1, <1>3, <1>4 DEF GraphInv, FreeInLevels, Free, NameAt
  <2> QED  BY <2>1, <1>7
<1>12. OwnStep'
  BY <1>1, <1>3, <1>4 DEF GraphInv, OwnStep, NameAt
<1>13. \A m \in DOMAIN levels : \A a \in DOMAIN levels[m] : \A n \in DOMAIN queue : levels[m][a] # lvl[n]
  BY <1>1, <1>4 DEF GraphInv, Free, NameAt
<1>14. Apart'
  BY <1>3, <1>13 DEF GraphInv, Apart
<1>15. DependedAbove'
  <2> SUFFICES ASSUME NEW m \in DOMAIN levels', NEW n \in DOMAIN levels'[m],
                      NEW d \in steps'[levels'[m][n]].depends_on
               PROVE  \E m2 \in DOMAIN levels' : m2 < m /\ \E k \in DOMAIN levels'[m2] : levels'[m2][k] = StepOf(steps', d)
    BY DEF DependedAbove
  <2>1. CASE m \in DOMAIN levels
    <3>1. PICK m2 \in DOMAIN levels : m2 < m /\ \E k \in DOMAIN levels[m2] : levels[m2][k] = StepOf(steps, d)
      BY <2>1, <1>1, <1>3 DEF GraphInv, DependedAbove
    <3> QED  BY <3>1, <1>1, <1>3
  <2>2. CASE m = new
    <3> DEFINE i == lvl[n]
    <3>1. /\ n \in DOMAIN queue /\ i \in Indices(steps) /\ d \in steps[i].depends_on
          /\ steps[i].store_as = queue[n] /\ NoDegree(steps, waits, queue[n])
      BY <2>2, <1>1, <1>3, <1>4 DEF GraphInv, Free
    <3>2. d \in Produced(steps)
      BY <3>1, <1>1 DEF GraphInv, NamesKnown, UnknownDependency
    <3>3. <<i, d>> \in Edges(steps)
      BY <3>1, <3>2 DEF Edges
    <3>4. <<i, d>> \notin waits
      BY <3>1 DEF NoDegree
    <3>5. PICK m2 \in DOMAIN levels : \E k \in DOMAIN levels[m2] : levels[m2][k] = StepOf(steps, d)
      BY <3>3, <3>4, <1>1 DEF GraphInv, Counted
    <3> QED  BY <2>2, <3>5, <1>1, <1>3
  <2> QED  BY <2>1, <2>2, <1>3
<1> QED
  BY <1>1, <1>8, <1>9, <1>10, <1>11, <1>12, <1>14, <1>15 DEF GraphInv, Untouched, NamesKnown, AllPlaced,
     Waiting, EarlierSettled, StartedInLevel, Running

\* It is kept by the end of the sort, whether all steps were placed or not.
LEMMA SortEndsInv == GraphInv /\ SortEnds => GraphInv'
<1> SUFFICES ASSUME GraphInv, SortEnds PROVE GraphInv'
  OBVIOUS
<1>1. /\ phase = "sorting" /\ phase' \in {"between", "refused"} /\ current' \in Nat
      /\ phase' = "between" => current' = 1 /\ Placed = Indices(steps)
      /\ UNCHANGED <<steps, partial, waits, queue, levels, fate, body, answer>>
      /\ ~ Running /\ (Running' => current' >= 1)
  BY DEF SortEnds, GraphInv, GraphTypeOK, Running
<1>2. GraphTypeOK'
  BY <1>1 DEF GraphInv, GraphTypeOK, Running
<1>3. AllPlaced' /\ Waiting'
  BY <1>1 DEF GraphInv, AllPlaced, Placed, Waiting, Running
<1>4. EarlierSettled'
  <2>1. levels \in Seq(Seq(Indices(steps)))
    BY DEF GraphInv, GraphTypeOK
  <2>2. \A m \in DOMAIN levels : ~ m < 1
    BY <2>1
  <2> QED  BY <2>2, <1>1 DEF EarlierSettled, Running
<1>5. StartedInLevel'
  BY <1>1 DEF GraphInv, Waiting, Running, StartedInLevel
<1>6. /\ Untouched' /\ NamesKnown' /\ Counted' /\ Free' /\ FreeInLevels'
  BY <1>1 DEF GraphInv, Untouched, NamesKnown, Counted, Free, FreeInLevels
<1>7. OwnStep' /\ Apart' /\ DependedAbove'
  BY <1>1 DEF GraphInv, OwnStep, Apart, DependedAbove, NameAt
<1> QED  BY <1>2, <1>3, <1>4, <1>5, <1>6, <1>7 DEF GraphInv

-----------------------------------------------------------------------------
(* The levels' run. *)

\* What a step of the execution must show, the sorted levels being fixed.
LEMMA RunKeeps ==
    ASSUME GraphInv, Running, Running', phase # "sorting",
           UNCHANGED <<steps, partial, waits, queue, levels>>,
           current' \in Nat, current' >= 1, DOMAIN fate' = Indices(steps),
           phase' \in {"between", "level", "thrown", "answered"},
           EarlierSettled', StartedInLevel'
    PROVE  GraphInv'
<1>1. GraphTypeOK'
  BY DEF GraphInv, GraphTypeOK, Running
<1>2. AllPlaced' /\ Waiting'
  BY DEF GraphInv, AllPlaced, Placed, Waiting
<1>3. /\ Untouched' /\ NamesKnown' /\ Counted' /\ Free' /\ FreeInLevels'
  BY DEF GraphInv, Untouched, NamesKnown, Counted, Free, FreeInLevels, Running
<1>4. OwnStep' /\ Apart' /\ DependedAbove'
  BY DEF GraphInv, OwnStep, Apart, DependedAbove, NameAt
<1> QED  BY <1>1, <1>2, <1>3, <1>4 DEF GraphInv

\* It is kept when a level's steps start.
LEMMA StartLevelInv == GraphInv /\ StartLevel => GraphInv'
<1> SUFFICES ASSUME GraphInv, StartLevel PROVE GraphInv'
  OBVIOUS
<1>1. /\ phase = "between" /\ phase' = "level" /\ current' = current /\ current \in Nat /\ current >= 1
      /\ current <= Len(levels) /\ levels \in Seq(Seq(Indices(steps)))
      /\ UNCHANGED <<steps, partial, waits, queue, levels>>
  BY DEF StartLevel, GraphInv, GraphTypeOK, Running
<1>2. PICK bad \in SUBSET InLevel(current) :
        fate' = [i \in Indices(steps) |->
            IF i \in bad THEN "failed" ELSE IF i \in InLevel(current) THEN "asked" ELSE fate[i]]
  BY DEF StartLevel
<1>3. EarlierSettled'
  <2> SUFFICES ASSUME NEW m \in DOMAIN levels, m < current, NEW n \in DOMAIN levels[m]
               PROVE  fate'[levels[m][n]] \in {"answered", "failed"}
    BY <1>1 DEF EarlierSettled, Settled
  <2>1. levels[m][n] \in Indices(steps)
    BY <1>1
  <2>2. fate[levels[m][n]] \in {"answered", "failed"}
    BY <1>1 DEF GraphInv, EarlierSettled, Running, Settled
  <2>3. levels[m][n] \notin InLevel(current)
    <3>1. CASE current \in DOMAIN levels
      <4>1. m # current
        BY <1>1
      <4> QED  BY <3>1, <4>1 DEF GraphInv, Apart, InLevel
    <3>2. CASE current \notin DOMAIN levels
      BY <3>2, <1>1
    <3> QED  BY <3>1, <3>2
  <2> QED  BY <2>1, <2>2, <2>3, <1>2
<1>4. StartedInLevel'
  <2> SUFFICES ASSUME NEW i \in Indices(steps), fate'[i] # "waiting"
               PROVE  \E m \in DOMAIN levels : i \in InLevel(m) /\ (m < current \/ m = current)
    BY <1>1 DEF StartedInLevel, InLevel
  <2>1. CASE i \in InLevel(current)
    <3>1. current \in DOMAIN levels
      BY <1>1
    <3> QED  BY <2>1, <3>1
  <2>2. CASE i \notin InLevel(current)
    BY <2>2, <1>1, <1>2 DEF GraphInv, StartedInLevel, Running
  <2> QED  BY <2>1, <2>2
<1> QED  BY <1>1, <1>2, <1>3, <1>4, RunKeeps DEF Running

\* A step of a level gets its outcome.
LEMMA OutcomeInv ==
    ASSUME GraphInv, NEW i \in Indices(steps), StepAnswered(i) \/ StepFails(i)
    PROVE  GraphInv'
<1>1. /\ fate[i] = "asked" /\ \E f \in {"answered", "failed"} : fate' = [fate EXCEPT ![i] = f]
      /\ UNCHANGED <<steps, partial, phase, waits, queue, levels, current>>
  BY DEF StepAnswered, StepFails
<1>2. Running /\ phase # "sorting" /\ DOMAIN fate = Indices(steps)
  BY <1>1 DEF GraphInv, GraphTypeOK, Waiting, Running
<1>3. EarlierSettled'
  <2> SUFFICES ASSUME NEW m \in DOMAIN levels, m < current, NEW n \in DOMAIN levels[m]
               PROVE  fate'[levels[m][n]] \in {"answered", "failed"}
    BY <1>1 DEF EarlierSettled, Settled
  <2>1. fate[levels[m][n]] \in {"answered", "failed"}
    BY <1>2 DEF GraphInv, EarlierSettled, Settled
  <2> QED  BY <2>1, <1>1, <1>2
<1>4. StartedInLevel'
  BY <1>1, <1>2 DEF GraphInv, StartedInLevel, InLevel, Running
<1>5. DOMAIN fate' = Indices(steps)
  BY <1>1, <1>2
<1> QED  BY <1>1, <1>2, <1>3, <1>4, <1>5, RunKeeps DEF GraphInv, GraphTypeOK, Running

\* It is kept when a level has settled, with or without failures.
LEMMA LevelSettlesInv == GraphInv /\ LevelSettles => GraphInv'
<1> SUFFICES ASSUME GraphInv, LevelSettles PROVE GraphInv'
  OBVIOUS
<1>1. /\ phase = "level" /\ phase' \in {"thrown", "between"} /\ current' = current + 1
      /\ UNCHANGED <<steps, partial, waits, queue, levels, fate>>
      /\ \A j \in InLevel(current) : Settled(j)
  BY DEF LevelSettles
<1>2. current \in Nat /\ current >= 1 /\ levels \in Seq(Seq(Indices(steps)))
  BY <1>1 DEF GraphInv, GraphTypeOK, Running
<1>3. EarlierSettled'
  BY <1>1, <1>2 DEF GraphInv, EarlierSettled, Settled, InLevel, Running
<1>4. StartedInLevel'
  BY <1>1, <1>2 DEF GraphInv, StartedInLevel, InLevel, Running
<1>5. Running /\ Running' /\ phase # "sorting" /\ current' \in Nat /\ current' >= 1
  BY <1>1, <1>2 DEF Running
<1>6. DOMAIN fate' = Indices(steps)
  BY <1>1 DEF GraphInv, GraphTypeOK
<1> QED  BY <1>1, <1>3, <1>4, <1>5, <1>6, RunKeeps

\* It is kept by the answer.
LEMMA AnswerGivenInv == GraphInv /\ AnswerGiven => GraphInv'
<1> SUFFICES ASSUME GraphInv, AnswerGiven PROVE GraphInv'
  OBVIOUS
<1>1. /\ phase = "between" /\ phase' = "answered"
      /\ UNCHANGED <<steps, partial, waits, queue, levels, current, fate>>
  BY DEF AnswerGiven
<1>2. EarlierSettled' /\ StartedInLevel'
  BY <1>1 DEF GraphInv, EarlierSettled, StartedInLevel, InLevel, Settled, Running
<1> QED  BY <1>1, <1>2, RunKeeps DEF GraphInv, GraphTypeOK, Running

\* It is kept by the check at load.
LEMMA LoadProfileInv == GraphInv /\ LoadProfile => GraphInv'
<1> SUFFICES ASSUME GraphInv, LoadProfile PROVE GraphInv'
  OBVIOUS
<1>1. /\ phase = "profile" /\ phase' \in {"not loaded", "loaded"}
      /\ phase' = "loaded" => ~ UnknownDependency(steps)
      /\ UNCHANGED <<steps, partial, waits, queue, levels, current, fate, body, answer>>
  BY DEF LoadProfile
<1>2. levels = <<>>
  BY <1>1 DEF GraphInv, Untouched
<1>3. GraphTypeOK'
  BY <1>1 DEF GraphInv, GraphTypeOK, Running
<1>4. Waiting'
  BY <1>1 DEF GraphInv, Waiting, Running
<1>5. Untouched' /\ NamesKnown'
  BY <1>1, <1>2 DEF Untouched, NamesKnown
<1>8. Counted' /\ Free' /\ FreeInLevels'
  BY <1>1 DEF Counted, Free, FreeInLevels
<1>6. OwnStep' /\ Apart' /\ DependedAbove'
  <2>1. levels' = <<>>
    BY <1>1, <1>2
  <2>2. ASSUME NEW m \in DOMAIN << >> PROVE FALSE
    OBVIOUS
  <2> QED  BY <2>1, <2>2 DEF OwnStep, Apart, DependedAbove
<1>7. AllPlaced' /\ EarlierSettled' /\ StartedInLevel'
  BY <1>1 DEF AllPlaced, EarlierSettled, StartedInLevel, Running
<1> QED
  BY <1>3, <1>4, <1>5, <1>6, <1>7, <1>8 DEF GraphInv

\* The invariant of the executor, for every graph of steps (dag-executor.ts,
\* composite-executor.ts).
THEOREM GraphInvariant == GraphSpec => []GraphInv
<1>1. GraphInv /\ [GraphNext]_graphVars => GraphInv'
  <2> SUFFICES ASSUME GraphInv, [GraphNext]_graphVars PROVE GraphInv'
    OBVIOUS
  <2>1. CASE UNCHANGED graphVars
    <3> USE <2>1 DEF graphVars, GraphInv, Running
    <3>1. GraphTypeOK' /\ Untouched' /\ NamesKnown' /\ Counted' /\ Waiting'
      BY DEF GraphTypeOK, Untouched, NamesKnown, Counted, Waiting
    <3>2. Free' /\ FreeInLevels' /\ OwnStep' /\ Apart' /\ DependedAbove'
      BY DEF Free, FreeInLevels, OwnStep, Apart, DependedAbove, NameAt
    <3>3. AllPlaced' /\ EarlierSettled' /\ StartedInLevel'
      BY DEF AllPlaced, Placed, EarlierSettled, StartedInLevel, InLevel, Settled
    <3> QED  BY <3>1, <3>2, <3>3
  <2>2. ASSUME NEW i \in Indices(steps), StepAnswered(i) \/ StepFails(i) PROVE GraphInv'
    BY <2>2, OutcomeInv
  <2> QED
    BY <2>1, <2>2, LoadProfileInv, CallArrivesInv, SortLevelInv, SortEndsInv, StartLevelInv,
       LevelSettlesInv, AnswerGivenInv DEF GraphNext
<1> QED  BY <1>1, GraphInitInv, PTL DEF GraphSpec

\* A composite tool asks a step only when every step it depends on has its
\* outcome, whatever the graph.
THEOREM DependenciesBeforeSteps == GraphSpec => []DependenciesFirst
<1>1. GraphInv => DependenciesFirst
  <2> SUFFICES ASSUME GraphInv, NEW i \in Indices(steps), NEW j \in Indices(steps),
                      fate[i] # "waiting", steps[j].store_as \in steps[i].depends_on
               PROVE  Settled(j)
    BY DEF DependenciesFirst
  <2>1. Running
    BY DEF GraphInv, Waiting
  <2>2. PICK m \in DOMAIN levels : i \in InLevel(m) /\ (m < current \/ (phase = "level" /\ m = current))
    BY <2>1 DEF GraphInv, StartedInLevel
  <2>3. PICK n \in DOMAIN levels[m] : levels[m][n] = i
    BY <2>2 DEF InLevel
  <2>4. PICK m2 \in DOMAIN levels :
          m2 < m /\ \E k \in DOMAIN levels[m2] : levels[m2][k] = StepOf(steps, steps[j].store_as)
    BY <2>3 DEF GraphInv, DependedAbove
  <2>5. StepOf(steps, steps[j].store_as) = j
    <3>1. PICK m3 \in DOMAIN levels : \E k3 \in DOMAIN levels[m3] : levels[m3][k3] = j
      BY <2>1 DEF GraphInv, AllPlaced, Placed
    <3> QED  BY <3>1 DEF GraphInv, OwnStep, NameAt
  <2>6. m2 < current
    <3>1. levels \in Seq(Seq(Indices(steps))) /\ current \in Nat
      BY DEF GraphInv, GraphTypeOK
    <3>2. m \in Nat /\ m2 \in Nat
      BY <3>1
    <3> QED  BY <2>2, <2>4, <3>1, <3>2
  <2> QED  BY <2>1, <2>4, <2>5, <2>6 DEF GraphInv, EarlierSettled
<1> QED  BY <1>1, GraphInvariant, PTL

-----------------------------------------------------------------------------
(* Composite tools: no body is lost but under another's.  The outcomes of a level
   are put into the answer one after the other; the invariant of this loop is that
   of the levels, with the steps of the level that had their turn. *)

Rec(i) == [path |-> steps[i].store_as, kind |-> body[i], step |-> i]
Done(i, n) == \E m \in DOMAIN levels : \E k \in DOMAIN levels[m] :
    levels[m][k] = i /\ (m < current \/ (m = current /\ k <= n))
Covered(i) == \E j \in Indices(steps) :
    /\ Under(steps[j].store_as, steps[i].store_as) /\ fate[j] = "answered"
    /\ PutBefore(i, j) \/ body[j] = "array"

\* An answer holds the bodies of steps that had their turn, all but those covered.
OfSteps(a, n) ==
    \A r \in a : \E i \in Indices(steps) : r = Rec(i) /\ Done(i, n) /\ fate[i] = "answered"
AllOf(a, n) == \A i \in Indices(steps) :
    Done(i, n) /\ fate[i] = "answered" => Rec(i) \in a \/ Covered(i)
Whole(a, n) == OfSteps(a, n) /\ AllOf(a, n)

AnswerInv ==
    /\ DOMAIN body = Indices(steps)
    /\ ~ Running => answer = {}
    /\ phase = "level" => current <= Len(levels)
    /\ phase = "answered" => current > Len(levels)
    /\ phase \in {"between", "level", "answered"} => Whole(answer, 0)

\* The greatest number of a set that has a bound.
LEMMA GreatestOf ==
    ASSUME NEW n \in Nat, NEW T, T \subseteq 0 .. n, 0 \in T,
           \A k \in T : k < n => k + 1 \in T
    PROVE  n \in T
<1> DEFINE Above(x) == {y \in T : y > x}
           U == {Above(x) : x \in T}
<1>1. IsFiniteSet(T)
  <2>1. IsFiniteSet(0 .. n)
    BY FS_Interval
  <2> QED
    BY <2>1, FS_Subset
<1>2. IsWellFoundedOn(StrictSubsetOrdering(T), SUBSET T)
  BY <1>1, FS_FiniteSubsetsOfFinite, FS_StrictSubsetOrderingWellFounded
<1>3. U \subseteq SUBSET T /\ U # {}
  OBVIOUS
<1>4. PICK u \in U : \A v \in U : ~(<<v, u>> \in StrictSubsetOrdering(T))
  <2> HIDE DEF U
  <2> QED
    BY <1>2, <1>3, WFMin
<1>5. PICK m \in T : u = Above(m)
  OBVIOUS
<1>6. ASSUME m < n PROVE FALSE
  <2>1. m + 1 \in T /\ m + 1 > m /\ (\A z \in T : z > m + 1 => z > m) /\ ~(m + 1 > m + 1)
    BY <1>6
  <2>2. Above(m + 1) \subseteq Above(m) /\ m + 1 \in Above(m) /\ m + 1 \notin Above(m + 1)
    BY <2>1, Zenon
  <2>3. <<Above(m + 1), Above(m)>> \in StrictSubsetOrdering(T)
    BY <2>2 DEF StrictSubsetOrdering
  <2> QED
    BY <1>4, <1>5, <2>1, <2>3
<1> QED
  BY <1>6

\* The loop over a level: what one outcome does, and its steps one after another.
Turn(was, i) ==
    IF was.thrown \/ NoWay(was.kept, steps[i].store_as) THEN [was EXCEPT !.thrown = TRUE]
    ELSE IF fate[i] = "answered" THEN [was EXCEPT !.kept = Put(@, i)]
    ELSE [was EXCEPT !.thrown = ~ partial]
Begun == [kept |-> answer, thrown |-> FALSE]
Turns(lvl, n, f) == f = [m \in 0..n |-> IF m = 0 THEN Begun ELSE Turn(f[m - 1], lvl[m])]

LEMMA TurnsExist == ASSUME NEW lvl, NEW n \in Nat PROVE \E f : Turns(lvl, n, f)
<1>1. PICK T : T = {k \in 0..n : \E f : Turns(lvl, k, f)}
  OBVIOUS
<1>2. 0 \in T
  <2>1. PICK f : f = [m \in 0..0 |-> Begun]
    OBVIOUS
  <2>2. \A m \in 0..0 : m = 0
    OBVIOUS
  <2>3. Turns(lvl, 0, f)
    BY <2>1, <2>2, Zenon DEF Turns
  <2> QED
    BY <1>1, <2>3
<1>3. ASSUME NEW k \in T, k < n PROVE k + 1 \in T
  <2>1. k \in Nat /\ k + 1 \in 0..n
    BY <1>1, <1>3
  <2>2. PICK f : Turns(lvl, k, f)
    BY <1>1
  <2>3. PICK g : g = [m \in 0..k + 1 |-> IF m = 0 THEN Begun ELSE Turn(f[m - 1], lvl[m])]
    OBVIOUS
  <2>4. ASSUME NEW m \in 0..k PROVE g[m] = f[m]
    <3>1. m \in 0..k + 1
      BY <2>1
    <3>2. g[m] = IF m = 0 THEN Begun ELSE Turn(f[m - 1], lvl[m])
      BY <2>3, <3>1
    <3>3. f[m] = IF m = 0 THEN Begun ELSE Turn(f[m - 1], lvl[m])
      BY <2>2, Zenon DEF Turns
    <3> QED
      BY <3>2, <3>3
  <2>5. ASSUME NEW m \in 0..k + 1
        PROVE  (IF m = 0 THEN Begun ELSE Turn(f[m - 1], lvl[m]))
                 = (IF m = 0 THEN Begun ELSE Turn(g[m - 1], lvl[m]))
    <3>1. CASE m = 0
      BY <3>1
    <3>2. CASE m # 0
      <4>1. m - 1 \in 0..k
        BY <2>1, <3>2
      <4>2. g[m - 1] = f[m - 1]
        BY <2>4, <4>1
      <4> QED
        BY <3>2, <4>2, Zenon
    <3> QED
      BY <3>1, <3>2
  <2>6. Turns(lvl, k + 1, g)
    BY <2>3, <2>5, Zenon DEF Turns
  <2> QED
    BY <1>1, <2>1, <2>6
<1>4. n \in T
  BY <1>1, <1>2, <1>3, GreatestOf
<1> QED
  BY <1>1, <1>4

LEMMA OutcomeIs ==
    ASSUME NEW lvl, Len(lvl) \in Nat
    PROVE  \E f : Turns(lvl, Len(lvl), f) /\ Outcome(lvl) = f[Len(lvl)]
<1>1. \E f : Turns(lvl, Len(lvl), f)
  BY TurnsExist
<1>2. Turns(lvl, Len(lvl), CHOOSE f : Turns(lvl, Len(lvl), f))
  BY <1>1, Zenon
<1>3. Outcome(lvl) = (CHOOSE f : Turns(lvl, Len(lvl), f))[Len(lvl)]
  BY Zenon DEF Outcome, Turns, Turn, Begun
<1> QED
  BY <1>2, <1>3, Zenon

\* No two steps of a tool that runs have a name in common, and no two levels a step.
LEMMA NamesApart ==
    ASSUME GraphInv, Running, NEW i \in Indices(steps), NEW j \in Indices(steps),
           steps[i].store_as = steps[j].store_as
    PROVE  i = j
<1>1. ASSUME NEW k \in Indices(steps) PROVE k = StepOf(steps, steps[k].store_as)
  <2>1. k \in Placed
    BY DEF GraphInv, AllPlaced
  <2>2. PICK m \in DOMAIN levels : \E n \in DOMAIN levels[m] : levels[m][n] = k
    BY <2>1 DEF Placed
  <2> QED
    BY <2>2 DEF GraphInv, OwnStep, NameAt
<1> QED
  BY <1>1

\* One more outcome of the level under way.
LEMMA TurnWhole ==
    ASSUME GraphInv, Running, current \in DOMAIN levels,
           NEW n \in DOMAIN levels[current], NEW i, i = levels[current][n],
           i \in Indices(steps), fate[i] \in {"answered", "failed"},
           NEW was, Whole(was.kept, n - 1), ~ was.thrown, was = [kept |-> was.kept, thrown |-> FALSE],
           ~ Turn(was, i).thrown
    PROVE  Whole(Turn(was, i).kept, n)
<1>1. PICK a : a = was.kept
  OBVIOUS
<1>2. OfSteps(a, n - 1) /\ AllOf(a, n - 1)
  BY <1>1 DEF Whole
<1>3. /\ n \in Nat /\ n \in DOMAIN levels[current] /\ current \in Nat
      /\ \A m \in DOMAIN levels : m \in Nat /\ \A k \in DOMAIN levels[m] : k \in Nat
  <2>1. levels \in Seq(Seq(Indices(steps)))
    BY DEF GraphInv, GraphTypeOK
  <2>2. \A m \in DOMAIN levels : m \in Nat /\ levels[m] \in Seq(Indices(steps))
    BY <2>1
  <2> QED
    BY <2>2
<1>4. ASSUME NEW x, Done(x, n - 1) PROVE Done(x, n)
  BY <1>3, <1>4 DEF Done
<1>5. ASSUME NEW x, Done(x, n), x # i PROVE Done(x, n - 1)
  <2>1. PICK m \in DOMAIN levels : \E k \in DOMAIN levels[m] :
           levels[m][k] = x /\ (m < current \/ (m = current /\ k <= n))
    BY <1>5 DEF Done
  <2>2. PICK k \in DOMAIN levels[m] : levels[m][k] = x /\ (m < current \/ (m = current /\ k <= n))
    BY <2>1
  <2>3. m = current => k # n
    BY <1>5, <2>2
  <2>4. m < current \/ (m = current /\ k <= n - 1)
    BY <1>3, <2>2, <2>3
  <2> QED
    BY <2>2, <2>4 DEF Done
<1>6. Done(i, n)
  BY <1>3 DEF Done
<1>7. CASE fate[i] # "answered"
  <2>1. Turn(was, i).kept = a
    BY <1>1, <1>7 DEF Turn
  <2>2. OfSteps(a, n)
    BY <1>2, <1>4 DEF OfSteps
  <2>3. AllOf(a, n)
    BY <1>2, <1>5, <1>7 DEF AllOf
  <2> QED
    BY <2>1, <2>2, <2>3 DEF Whole
<1>8. CASE fate[i] = "answered"
  <2>1. Turn(was, i).kept = Put(a, i)
    BY <1>1, <1>8 DEF Turn
  <2>2. PICK p : p = Put(a, i)
    OBVIOUS
  <2>3. PICK name : name = steps[i].store_as
    OBVIOUS
  <2>4. p = { r \in a : r.path # name /\ ~ Under(name, r.path) }
              \cup (IF Hidden(a, name) THEN {} ELSE { Rec(i) })
    BY <2>2, <2>3 DEF Put, Rec
  <2>5. OfSteps(p, n)
    <3>1. ASSUME NEW r \in p
          PROVE  \E x \in Indices(steps) : r = Rec(x) /\ Done(x, n) /\ fate[x] = "answered"
      <4>1. CASE r = Rec(i)
        BY <1>6, <1>8, <4>1
      <4>2. CASE r # Rec(i)
        <5>1. r \in a
          BY <2>4, <4>2
        <5> QED
          BY <1>2, <1>4, <5>1 DEF OfSteps
      <4> QED
        BY <4>1, <4>2
    <3> QED
      BY <3>1 DEF OfSteps
  <2>6. ASSUME NEW x \in Indices(steps), Done(x, n), fate[x] = "answered"
        PROVE  Rec(x) \in p \/ Covered(x)
    <3>1. CASE x = i
      <4>1. CASE Hidden(a, name)
        <5>1. PICK r \in a : r.kind = "array" /\ Under(r.path, name)
          BY <4>1 DEF Hidden
        <5>2. PICK j \in Indices(steps) : r = Rec(j) /\ fate[j] = "answered"
          BY <1>2, <5>1 DEF OfSteps
        <5>3. body[j] = "array" /\ Under(steps[j].store_as, steps[x].store_as)
          BY <2>3, <3>1, <5>1, <5>2 DEF Rec
        <5> QED
          BY <5>2, <5>3 DEF Covered
      <4>2. CASE ~ Hidden(a, name)
        BY <2>4, <3>1, <4>2
      <4> QED
        BY <4>1, <4>2
    <3>2. CASE x # i
      <4>1. Done(x, n - 1)
        BY <1>5, <2>6, <3>2
      <4>2. CASE Covered(x)
        BY <4>2
      <4>3. CASE Rec(x) \in a
        <5>1. Rec(x).path = steps[x].store_as
          BY DEF Rec
        <5>2. Rec(x).path # name
          BY <2>3, <3>2, <5>1, NamesApart
        <5>3. CASE Under(name, steps[x].store_as)
          <6>1. PICK m \in DOMAIN levels : \E k \in DOMAIN levels[m] :
                   levels[m][k] = x /\ (m < current \/ (m = current /\ k <= n - 1))
            BY <4>1 DEF Done
          <6>2. PICK k \in DOMAIN levels[m] :
                   levels[m][k] = x /\ (m < current \/ (m = current /\ k <= n - 1))
            BY <6>1
          <6>3. x \in InLevel(m) /\ i \in InLevel(current)
            BY <6>2 DEF InLevel
          <6>4. m = current => k < n
            BY <1>3, <6>2
          <6>5. PutBefore(x, i)
            BY <1>3, <6>2, <6>3, <6>4 DEF PutBefore
          <6> QED
            BY <1>8, <2>3, <5>3, <6>5 DEF Covered
        <5>4. CASE ~ Under(name, steps[x].store_as)
          BY <2>4, <4>3, <5>1, <5>2, <5>4
        <5> QED
          BY <5>3, <5>4
      <4> QED
        BY <1>2, <2>6, <4>1, <4>2, <4>3 DEF AllOf
    <3> QED
      BY <3>1, <3>2
  <2> QED
    BY <2>1, <2>2, <2>5, <2>6 DEF Whole, AllOf
<1> QED
  BY <1>7, <1>8

\* The level has settled: its outcomes are in the answer, or the call is over.
LEMMA OutcomeWhole ==
    ASSUME GraphInv, Running, Whole(answer, 0), current \in DOMAIN levels,
           \A i \in InLevel(current) : Settled(i),
           ~ Outcome(levels[current]).thrown
    PROVE  Whole(Outcome(levels[current]).kept, Len(levels[current]))
<1>1. PICK lvl : lvl = levels[current]
  OBVIOUS
<1>2. /\ lvl \in Seq(Indices(steps)) /\ Len(lvl) \in Nat /\ DOMAIN lvl = 1..Len(lvl)
  <2>1. PICK I : I = Indices(steps)
    OBVIOUS
  <2>2. levels \in Seq(Seq(I))
    BY <2>1 DEF GraphInv, GraphTypeOK
  <2>3. lvl \in Seq(I)
    BY <1>1, <2>2
  <2> QED
    BY <2>1, <2>3
<1>3. PICK f : Turns(lvl, Len(lvl), f) /\ Outcome(lvl) = f[Len(lvl)]
  BY <1>2, OutcomeIs
<1>4. /\ f[0] = Begun
      /\ \A m \in 1..Len(lvl) : f[m] = Turn(f[m - 1], lvl[m])
  <2>1. f = [m \in 0..Len(lvl) |-> IF m = 0 THEN Begun ELSE Turn(f[m - 1], lvl[m])]
    BY <1>3, Zenon DEF Turns
  <2>2. 0 \in 0..Len(lvl) /\ \A m \in 1..Len(lvl) : m \in 0..Len(lvl) /\ m # 0
    BY <1>2
  <2>3. f[0] = Begun
    BY <2>1, <2>2, Zenon
  <2>4. ASSUME NEW m \in 1..Len(lvl) PROVE f[m] = Turn(f[m - 1], lvl[m])
    BY <2>1, <2>2, Zenon
  <2> QED
    BY <2>3, <2>4
<1> DEFINE Fine(w, n) ==
      /\ w = [kept |-> w.kept, thrown |-> w.thrown] /\ w.thrown \in BOOLEAN
      /\ ~ w.thrown => Whole(w.kept, n)
<1>5. PICK T : T = {n \in 0..Len(lvl) : Fine(f[n], n)}
  OBVIOUS
<1>6. 0 \in T
  <2>1. Fine(f[0], 0)
    BY <1>4 DEF Begun
  <2> QED
    BY <1>2, <1>5, <2>1
<1>7. ASSUME NEW k \in T, k < Len(lvl) PROVE k + 1 \in T
  <2>1. k \in Nat /\ k + 1 \in 1..Len(lvl) /\ k + 1 \in 0..Len(lvl) /\ (k + 1) - 1 = k
    BY <1>2, <1>5, <1>7
  <2>2. Fine(f[k], k)
    BY <1>5
  <2>3. PICK n \in 1..Len(lvl) : n = k + 1
    BY <2>1
  <2>4. PICK was : was = f[k]
    OBVIOUS
  <2>5. PICK i : i = lvl[n]
    OBVIOUS
  <2>6. f[n] = Turn(was, i) /\ n - 1 = k
    BY <1>4, <2>1, <2>3, <2>4, <2>5
  <2>7. i \in Indices(steps) /\ n \in DOMAIN lvl /\ fate[i] \in {"answered", "failed"}
    <3>1. n \in DOMAIN lvl
      BY <1>2
    <3>2. i \in InLevel(current)
      BY <1>1, <2>5, <3>1 DEF InLevel
    <3> QED
      BY <1>2, <2>5, <3>1, <3>2 DEF Settled
  <2>8. PICK w : w = Turn(was, i)
    OBVIOUS
  <2>9. was = [kept |-> was.kept, thrown |-> was.thrown] /\ was.thrown \in BOOLEAN
    BY <2>2, <2>4
  <2>10. /\ w = [kept |-> w.kept, thrown |-> w.thrown] /\ w.thrown \in BOOLEAN
         /\ ~ w.thrown => ~ was.thrown
    BY <2>8, <2>9 DEF Turn
  <2>11. ASSUME ~ w.thrown PROVE Whole(w.kept, n)
    <3>1. ~ was.thrown /\ was = [kept |-> was.kept, thrown |-> FALSE]
      BY <2>9, <2>10, <2>11
    <3>2. Whole(was.kept, n - 1)
      BY <2>2, <2>4, <2>6, <3>1
    <3> QED
      BY <1>1, <2>5, <2>7, <2>8, <2>11, <3>1, <3>2, TurnWhole
  <2>12. Fine(f[n], n)
    BY <2>6, <2>8, <2>10, <2>11
  <2> QED
    BY <1>5, <2>1, <2>3, <2>12
<1>8. Len(lvl) \in T
  <2>1. T \subseteq 0..Len(lvl)
    BY <1>5
  <2> QED
    BY <1>2, <1>6, <1>7, <2>1, GreatestOf
<1> QED
  BY <1>1, <1>3, <1>5, <1>8

\* Before a call has its answer, and while the sort goes on, there is nothing in it.
LEMMA AnswerEmpty ==
    ASSUME AnswerInv, ~ Running, ~ Running', UNCHANGED <<steps, body, answer>>
    PROVE  AnswerInv'
BY DEF AnswerInv, Running

\* Steps that leave what was answered in earlier levels and add nothing to it.
LEMMA AnswerKeeps ==
    ASSUME Whole(answer, 0), UNCHANGED <<steps, levels, current, answer>>,
           \A i \in Indices(steps) :
               (fate[i] = "answered" => fate'[i] = "answered" /\ body'[i] = body[i]),
           \A i \in Indices(steps) : Done(i, 0) /\ fate'[i] = "answered" => fate[i] = "answered"
    PROVE  Whole(answer, 0)'
<1>1. \A i : Done(i, 0)' <=> Done(i, 0)
  BY DEF Done
<1>2. \A i, j : PutBefore(i, j)' <=> PutBefore(i, j)
  BY DEF PutBefore, InLevel
<1>3. \A i \in Indices(steps) : fate[i] = "answered" => Rec(i)' = Rec(i)
  BY DEF Rec
<1>4. ASSUME NEW i \in Indices(steps), Covered(i) PROVE Covered(i)'
  <2>1. PICK j \in Indices(steps) :
           /\ Under(steps[j].store_as, steps[i].store_as) /\ fate[j] = "answered"
           /\ PutBefore(i, j) \/ body[j] = "array"
    BY <1>4 DEF Covered
  <2>2. fate'[j] = "answered" /\ body'[j] = body[j] /\ (PutBefore(i, j) => PutBefore(i, j)')
    BY <1>2, <2>1
  <2> QED
    BY <2>1, <2>2 DEF Covered
<1>5. OfSteps(answer, 0)'
  <2>1. ASSUME NEW r \in answer
        PROVE  \E i \in Indices(steps) : r = Rec(i)' /\ Done(i, 0)' /\ fate'[i] = "answered"
    <3>1. PICK i \in Indices(steps) : r = Rec(i) /\ Done(i, 0) /\ fate[i] = "answered"
      BY DEF Whole, OfSteps
    <3> QED
      BY <1>1, <1>3, <3>1
  <2> QED
    BY <2>1 DEF OfSteps
<1>6. AllOf(answer, 0)'
  <2>1. ASSUME NEW i \in Indices(steps), Done(i, 0)', fate'[i] = "answered"
        PROVE  Rec(i)' \in answer \/ Covered(i)'
    <3>1. Done(i, 0) /\ fate[i] = "answered"
      BY <1>1, <2>1
    <3>2. Rec(i) \in answer \/ Covered(i)
      BY <3>1 DEF Whole, AllOf
    <3> QED
      BY <1>3, <1>4, <3>1, <3>2
  <2> QED
    BY <2>1 DEF AllOf
<1> QED
  BY <1>5, <1>6 DEF Whole

LEMMA LevelsTyped ==
    ASSUME GraphInv
    PROVE  /\ current \in Nat /\ Len(levels) \in Nat /\ DOMAIN levels = 1..Len(levels)
           /\ \A m \in DOMAIN levels : /\ m \in Nat /\ Len(levels[m]) \in Nat
                                       /\ DOMAIN levels[m] = 1..Len(levels[m])
                                       /\ \A k \in DOMAIN levels[m] : levels[m][k] \in Indices(steps)
<1>1. PICK I : I = Indices(steps)
  OBVIOUS
<1>2. levels \in Seq(Seq(I)) /\ current \in Nat
  BY <1>1 DEF GraphInv, GraphTypeOK
<1>3. \A m \in DOMAIN levels : levels[m] \in Seq(I) /\ m \in Nat
  BY <1>2
<1> QED
  BY <1>1, <1>2, <1>3

LEMMA AnswerInvStep ==
    ASSUME GraphInv, GraphInv', AnswerInv, [GraphNext]_graphVars
    PROVE  AnswerInv'
<1>0. /\ current \in Nat /\ Len(levels) \in Nat /\ DOMAIN levels = 1..Len(levels)
      /\ DOMAIN fate = Indices(steps) /\ DOMAIN body = Indices(steps)
  BY LevelsTyped DEF GraphInv, GraphTypeOK, AnswerInv
<1>1. CASE LoadProfile \/ CallArrives \/ SortLevel
  BY <1>1, AnswerEmpty DEF LoadProfile, CallArrives, SortLevel, Running
<1>2. CASE SortEnds
  <2>1. phase = "sorting" /\ UNCHANGED <<steps, levels, fate, body, answer>>
    BY <1>2 DEF SortEnds
  <2>2. CASE phase' = "refused"
    BY <2>1, <2>2, AnswerEmpty DEF Running
  <2>3. CASE phase' # "refused"
    <3>1. phase' = "between" /\ current' = 1
      BY <1>2, <2>3 DEF SortEnds
    <3>2. answer' = {}
      BY <2>1 DEF AnswerInv, Running
    <3>3. ASSUME NEW i PROVE ~ Done(i, 0)'
      <4>1. ASSUME NEW m \in DOMAIN levels, NEW k \in DOMAIN levels[m], m < 1 \/ (m = 1 /\ k <= 0)
            PROVE  FALSE
        <5>1. m \in Nat /\ m >= 1 /\ k \in Nat /\ k >= 1
          BY <1>0, LevelsTyped
        <5> QED
          BY <4>1, <5>1
      <4> QED
        BY <2>1, <3>1, <4>1 DEF Done
    <3>4. Whole(answer, 0)'
      BY <3>2, <3>3 DEF Whole, OfSteps, AllOf
    <3> QED
      BY <1>0, <2>1, <3>1, <3>4 DEF AnswerInv, Running
  <2> QED
    BY <2>2, <2>3
<1>3. CASE StartLevel
  <2>1. /\ phase = "between" /\ phase' = "level" /\ current <= Len(levels)
        /\ UNCHANGED <<steps, levels, current, body, answer>>
    BY <1>3 DEF StartLevel
  <2>2. \A i \in Indices(steps) : i \notin InLevel(current) => fate'[i] = fate[i]
    BY <1>3 DEF StartLevel
  <2>3. \A i \in Indices(steps) : i \in InLevel(current) => fate'[i] \in {"asked", "failed"}
    BY <1>3 DEF StartLevel
  <2>4. ASSUME NEW i \in Indices(steps), fate[i] = "answered" PROVE i \notin InLevel(current)
    <3>1. PICK m \in DOMAIN levels : i \in InLevel(m) /\ m < current
      BY <2>1, <2>4 DEF GraphInv, StartedInLevel, Running
    <3>2. current \in DOMAIN levels /\ m # current
      BY <1>0, <2>1, <3>1
    <3> QED
      BY <3>1, <3>2 DEF GraphInv, Apart, InLevel
  <2>5. Whole(answer, 0)'
    <3>1. Whole(answer, 0)
      BY <2>1 DEF AnswerInv
    <3> QED
      BY <2>1, <2>2, <2>3, <2>4, <3>1, AnswerKeeps
  <2> QED
    BY <1>0, <2>1, <2>5 DEF AnswerInv, Running
<1>4. ASSUME NEW i \in Indices(steps), StepAnswered(i) \/ StepFails(i) PROVE AnswerInv'
  <2>1. /\ fate[i] = "asked" /\ UNCHANGED <<steps, phase, levels, current, answer>>
        /\ \A j \in Indices(steps) : j # i => fate'[j] = fate[j] /\ body'[j] = body[j]
        /\ DOMAIN body' = Indices(steps)
    BY <1>0, <1>4 DEF StepAnswered, StepFails
  <2>2. ASSUME Done(i, 0) PROVE FALSE
    <3>1. PICK m \in DOMAIN levels : \E k \in DOMAIN levels[m] :
             levels[m][k] = i /\ (m < current \/ (m = current /\ k <= 0))
      BY <2>2 DEF Done
    <3>2. PICK k \in DOMAIN levels[m] : levels[m][k] = i /\ (m < current \/ (m = current /\ k <= 0))
      BY <3>1
    <3>3. m < current
      BY <3>2, LevelsTyped
    <3>4. Running
      BY <2>1 DEF GraphInv, Waiting
    <3> QED
      BY <2>1, <3>2, <3>3, <3>4 DEF GraphInv, EarlierSettled, Settled
  <2>3. CASE phase \in {"between", "level", "answered"}
    <3>1. Whole(answer, 0)
      BY <2>3 DEF AnswerInv
    <3>2. \A j \in Indices(steps) :
             fate[j] = "answered" => fate'[j] = "answered" /\ body'[j] = body[j]
      BY <2>1
    <3>3. \A j \in Indices(steps) : Done(j, 0) /\ fate'[j] = "answered" => fate[j] = "answered"
      BY <2>1, <2>2
    <3>4. Whole(answer, 0)'
      BY <2>1, <3>1, <3>2, <3>3, AnswerKeeps
    <3> QED
      BY <2>1, <3>4 DEF AnswerInv, Running
  <2>4. CASE phase \notin {"between", "level", "answered"}
    BY <2>1, <2>4 DEF AnswerInv, Running
  <2> QED
    BY <2>3, <2>4
<1>5. CASE LevelSettles
  <2>1. /\ phase = "level" /\ \A i \in InLevel(current) : Settled(i)
        /\ current' = current + 1 /\ UNCHANGED <<steps, levels, fate, body>>
        /\ answer' = Outcome(levels[current]).kept
        /\ phase' = IF Outcome(levels[current]).thrown THEN "thrown" ELSE "between"
    BY <1>5 DEF LevelSettles
  <2>2. CASE phase' = "thrown"
    BY <1>0, <2>1, <2>2 DEF AnswerInv, Running
  <2>3. CASE phase' # "thrown"
    <3>1. phase' = "between" /\ ~ Outcome(levels[current]).thrown
      BY <2>1, <2>3
    <3>2. Running /\ Whole(answer, 0) /\ current <= Len(levels)
      BY <2>1 DEF Running, AnswerInv
    <3>3. current \in DOMAIN levels
      <4>1. current >= 1
        BY <3>2 DEF GraphInv, GraphTypeOK
      <4> QED
        BY <1>0, <3>2, <4>1
    <3>4. Whole(answer', Len(levels[current]))
      BY <2>1, <3>1, <3>2, <3>3, OutcomeWhole
    <3>5. ASSUME NEW i PROVE Done(i, 0)' <=> Done(i, Len(levels[current]))
      <4>1. ASSUME NEW m \in DOMAIN levels, NEW k \in DOMAIN levels[m]
            PROVE  (m < current + 1 \/ (m = current + 1 /\ k <= 0))
                     <=> (m < current \/ (m = current /\ k <= Len(levels[current])))
        <5>1. m \in Nat /\ k \in 1..Len(levels[m]) /\ Len(levels[m]) \in Nat
          BY LevelsTyped
        <5> QED
          BY <1>0, <5>1
      <4> QED
        BY <2>1, <4>1 DEF Done
    <3>6. \A i : Rec(i)' = Rec(i) /\ (Covered(i)' <=> Covered(i))
      BY <2>1 DEF Rec, Covered, PutBefore, InLevel
    <3>7. Whole(answer, 0)'
      BY <2>1, <3>4, <3>5, <3>6 DEF Whole, OfSteps, AllOf
    <3> QED
      BY <1>0, <2>1, <3>1, <3>7 DEF AnswerInv, Running
  <2> QED
    BY <2>2, <2>3
<1>6. CASE AnswerGiven
  <2>1. /\ phase = "between" /\ phase' = "answered" /\ current > Len(levels)
        /\ UNCHANGED <<steps, levels, current, fate, body, answer>>
    BY <1>6 DEF AnswerGiven
  <2>2. Whole(answer, 0)'
    <3>1. Whole(answer, 0)
      BY <2>1 DEF AnswerInv
    <3> QED
      BY <2>1, <3>1, AnswerKeeps
  <2> QED
    BY <1>0, <2>1, <2>2 DEF AnswerInv, Running
<1>7. CASE UNCHANGED graphVars
  <2>1. UNCHANGED <<steps, phase, levels, current, fate, body, answer>>
    BY <1>7 DEF graphVars
  <2>2. Whole(answer, 0) => Whole(answer, 0)'
    BY <2>1, AnswerKeeps
  <2> QED
    BY <2>1, <2>2 DEF AnswerInv, Running
<1> QED
  BY <1>1, <1>2, <1>3, <1>4, <1>5, <1>6, <1>7 DEF GraphNext

\* The answer of a composite tool holds every body that came, but for those put
\* below an array or under a name above that was put later, whatever the graph and
\* the order of the answers (composite-executor.ts and its storeResult).
THEOREM NoBodyLost == GraphSpec => []BodyKept
<1>1. GraphInit => AnswerInv
  BY DEF GraphInit, AnswerInv, Running
<1>2. GraphInv /\ AnswerInv => BodyKept
  <2> SUFFICES ASSUME GraphInv, AnswerInv, phase = "answered",
                      NEW i \in Indices(steps), fate[i] = "answered"
               PROVE  \/ \E r \in answer : r.step = i /\ r.path = steps[i].store_as /\ r.kind = body[i]
                      \/ Covered(i)
    BY DEF BodyKept, Covered
  <2>1. PICK m \in DOMAIN levels : \E k \in DOMAIN levels[m] : levels[m][k] = i
    <3>1. i \in Placed
      BY DEF GraphInv, AllPlaced, Running
    <3> QED
      BY <3>1 DEF Placed
  <2>2. m < current
    BY LevelsTyped DEF AnswerInv
  <2>3. Done(i, 0)
    BY <2>1, <2>2 DEF Done
  <2>4. Rec(i) \in answer \/ Covered(i)
    BY <2>3 DEF AnswerInv, Whole, AllOf
  <2> QED
    BY <2>4 DEF Rec
<1> QED
  BY <1>1, <1>2, AnswerInvStep, GraphInvariant, PTL DEF GraphSpec

-----------------------------------------------------------------------------
(* The filters: what a call can ask, for every profile, filter and policy. *)

\* Before the server serves nothing is called or asked.
Quiet ==
    server # "serving" =>
        /\ \A s \in Session : session[s] = "none" /\ dispatch[s].asks = {}
        /\ request = NoRequest

\* What is left of the tools passed the check of the composite ones.
Reached == server = "serving" =>
    /\ served \subseteq DOMAIN original
    /\ served = DOMAIN original \/ StepsReach(served)

\* A tool's own operation: one of its steps, or one it offers.
Belongs(op, n) ==
    IF original[n].composite THEN op \in original[n].steps ELSE Offers(n, op)

\* What a call may still ask is its tool's, and its tool was allowed.
Asking(s) ==
    /\ dispatch[s] = [tool |-> dispatch[s].tool, under |-> dispatch[s].under, asks |-> dispatch[s].asks]
    /\ \A op \in dispatch[s].asks :
         /\ dispatch[s].tool \in served
         /\ PolicyAllows(dispatch[s].under, original[dispatch[s].tool])
         /\ Belongs(op, dispatch[s].tool)

CallsInv ==
    /\ dispatch = [s \in Session |-> dispatch[s]]
    /\ session = [s \in Session |-> session[s]]
    /\ Quiet /\ Reached /\ \A s \in Session : Asking(s)
    /\ RequestsWithinPolicy /\ RemovedOutOfReach

-----------------------------------------------------------------------------
\* An operation of a tool an access policy allows is one the policy allows, or
\* the policy allows tools that modify (getToolCategory).
LEMMA PartsDecide ==
    ASSUME NEW n, NEW op \in Known, NEW categories,
           PolicyAllows(categories, original[n]), Belongs(op, n), categories # {},
           "modify" \notin categories
    PROVE  Category[op] \in categories
<1>1. RequiredCategory(original[n]) \in categories
  BY DEF PolicyAllows
<1>2. PICK c \in {"list", "read"} : Parts(original[n]) = {c} /\ c \in categories
  BY <1>1 DEF RequiredCategory
<1>3. CASE original[n].composite
  <2>1. Category[op] \in Parts(original[n])
    BY <1>3 DEF Belongs, Parts
  <2> QED BY <2>1, <1>2
<1>4. CASE ~ original[n].composite
  <2>1. PICK o \in original[n].operations : o.op = op
    BY <1>4 DEF Belongs, Offers
  <2>2. (IF o.form = "plain" THEN CategoryOf(o) ELSE "modify") \in Parts(original[n])
    BY <1>4, <2>1 DEF Parts
  <2>3. CategoryOf(o) = Category[op]
    BY <2>1 DEF CategoryOf, Known
  <2> QED BY <2>2, <2>3, <1>2
<1> QED BY <1>3, <1>4

\* Whatever a tool that is left asks is offered by one that is left, unless no
\* tool offers it (validateCompositeToolsAgainstFilteredOperations).
LEMMA LeftReach ==
    ASSUME Reached, server = "serving", NEW n \in served, NEW op \in Known, Belongs(op, n),
           op \in PlainOf(DOMAIN original)
    PROVE  \E m \in served : Offers(m, op)
<1>1. CASE ~ original[n].composite
  BY <1>1 DEF Belongs
<1>2. CASE original[n].composite
  <2>1. op \in PlainOf(served)
    BY <1>2 DEF Reached, StepsReach, Belongs
  <2>2. PICK m \in served : \E o \in original[m].operations : o.op = op
    BY <2>1 DEF PlainOf
  <2> QED BY <2>2 DEF Offers
<1> QED BY <1>1, <1>2

-----------------------------------------------------------------------------
\* The invariant holds before the server starts.
LEMMA CallsStart == CallsInit => CallsInv
BY DEF CallsInit, CallsInv, Quiet, Reached, Asking, NoCall, RequestsWithinPolicy, RemovedOutOfReach

\* Every action but a dispatch's own leaves requests and what may be asked alone.
LEMMA CallsStep == CallsInv /\ [CallsNext]_callVars => CallsInv'
<1> SUFFICES ASSUME CallsInv, [CallsNext]_callVars PROVE CallsInv'
  OBVIOUS
<1> USE DEF CallsInv
<1>1. CASE ServerStarts
  <2> USE <1>1 DEF ServerStarts
  <2>1. PICK f \in EnvFilters :
          LET offered == DOMAIN original
              left == { n \in offered : Passes(n, original[n], f.allow, f.deny, f.categories) }
          IN \/ served' = offered /\ server' = "serving"
             \/ server' = "failed" /\ UNCHANGED served
             \/ StepsReach(left) /\ served' = left /\ server' = "serving"
    OBVIOUS
  <2>2. Reached'
    BY <2>1 DEF Reached, StepsReach, PlainOf
  <2>3. Quiet' /\ \A s \in Session : Asking(s)'
    BY DEF Quiet, Asking
  <2>4. RequestsWithinPolicy' /\ RemovedOutOfReach'
    BY DEF Quiet, RequestsWithinPolicy, RemovedOutOfReach
  <2> QED BY <2>2, <2>3, <2>4
<1>2. ASSUME NEW s \in Session, Opens(s) \/ OpensFiltered(s) \/ TokenChanges(s)
      PROVE  CallsInv'
  <2> USE <1>2 DEF Opens, OpensFiltered, TokenChanges
  <2>1. server = "serving" /\ session' = [t \in Session |-> session'[t]]
    BY DEF Quiet
  <2>2. UNCHANGED <<original, server, served, dispatch, request>>
    OBVIOUS
  <2>3. Quiet' /\ Reached'
    BY <2>1, <2>2 DEF Quiet, Reached, StepsReach, PlainOf
  <2>4. \A t \in Session : Asking(t)'
    BY <2>2 DEF Asking, Belongs, Offers
  <2>5. RequestsWithinPolicy' /\ RemovedOutOfReach'
    BY <2>2 DEF RequestsWithinPolicy, RemovedOutOfReach, PlainOf, Offers
  <2> QED BY <2>1, <2>2, <2>3, <2>4, <2>5
<1>3. ASSUME NEW s \in Session, CallOver(s) PROVE CallsInv'
  <2> USE <1>3 DEF CallOver
  <2>1. ASSUME NEW t \in Session PROVE Asking(t)'
    <3>1. CASE t = s
      <4>1. dispatch'[t] = NoCall
        <5>1. s \in DOMAIN dispatch
          BY <1>3
        <5> QED BY <3>1, <5>1
      <4>2. dispatch'[t].asks = {}
        BY <4>1 DEF NoCall
      <4>3. dispatch'[t] = [tool |-> dispatch'[t].tool, under |-> dispatch'[t].under,
                            asks |-> dispatch'[t].asks]
        BY <4>1 DEF NoCall
      <4> QED BY <4>2, <4>3, Zenon DEF Asking
    <3>2. CASE t # s
      <4>1. dispatch'[t] = dispatch[t] /\ Asking(t)
        BY <3>2
      <4>2. UNCHANGED <<original, served>>
        OBVIOUS
      <4> QED BY <4>1, <4>2 DEF Asking, Belongs, Offers
    <3> QED BY <3>1, <3>2
  <2>2. Quiet' /\ Reached'
    BY DEF Quiet, Reached, StepsReach, PlainOf, NoCall
  <2>3. RequestsWithinPolicy' /\ RemovedOutOfReach'
    BY DEF RequestsWithinPolicy, RemovedOutOfReach, PlainOf, Offers
  <2> QED BY <2>1, <2>2, <2>3
<1>4. ASSUME NEW s \in Session, NEW n \in DOMAIN original, CallAdmitted(s, n) PROVE CallsInv'
  <2> USE <1>4 DEF CallAdmitted
  <2>1. server = "serving"
    BY DEF Quiet
  <2>2. PICK a \in Asked(original[n]) :
          dispatch' = [dispatch EXCEPT ![s] = [tool |-> n, under |-> policy[s], asks |-> a]]
    OBVIOUS
  <2>3. \A op \in a : Belongs(op, n)
    BY DEF Asked, Belongs, Offers
  <2>4. Asking(s)'
    BY <2>2, <2>3 DEF Asking, Belongs, Offers
  <2>5. \A t \in Session \ {s} : Asking(t)'
    BY <2>2 DEF Asking, Belongs, Offers
  <2>6. Quiet' /\ Reached' /\ RequestsWithinPolicy' /\ RemovedOutOfReach'
    BY <2>1 DEF Quiet, Reached, StepsReach, PlainOf, Offers, RequestsWithinPolicy, RemovedOutOfReach
  <2> QED BY <2>2, <2>4, <2>5, <2>6
<1>5. ASSUME NEW s \in Session, NEW op \in Known, RequestMade(s, op) PROVE CallsInv'
  <2> USE <1>5 DEF RequestMade
  <2> DEFINE n == dispatch[s].tool
  <2>1. op \in dispatch[s].asks /\ Asking(s)
    OBVIOUS
  <2>2. server = "serving"
    BY <2>1 DEF Quiet
  <2>3. n \in served /\ PolicyAllows(dispatch[s].under, original[n]) /\ Belongs(op, n)
    BY <2>1 DEF Asking
  <2>4. RequestsWithinPolicy'
    <3> SUFFICES ASSUME dispatch[s].under # {}, "modify" \notin dispatch[s].under
                 PROVE  Category[op] \in dispatch[s].under
      BY DEF RequestsWithinPolicy
    <3> QED BY <2>3, PartsDecide
  <2>5. RemovedOutOfReach'
    <3>1. op \in PlainOf(DOMAIN original) => \E m \in served : Offers(m, op)
      BY <2>2, <2>3, LeftReach
    <3> QED BY <3>1 DEF RemovedOutOfReach, PlainOf, Offers
  <2>6. Asking(s)'
    BY <2>1 DEF Asking, Belongs, Offers
  <2>7. \A t \in Session \ {s} : Asking(t)'
    BY DEF Asking, Belongs, Offers
  <2>8. Quiet' /\ Reached'
    BY <2>2 DEF Quiet, Reached, StepsReach, PlainOf
  <2> QED BY <2>4, <2>5, <2>6, <2>7, <2>8
<1>6. CASE UNCHANGED callVars
  BY <1>6 DEF callVars, Quiet, Reached, StepsReach, PlainOf, Asking, Belongs, Offers,
              RequestsWithinPolicy, RemovedOutOfReach
<1> QED BY <1>1, <1>2, <1>3, <1>4, <1>5, <1>6 DEF CallsNext

\* The calls' invariant, for every set of profiles, filters, policies and sessions.
THEOREM CallsInvariant == CallsSpec => []CallsInv
<1> QED BY CallsStart, CallsStep, PTL DEF CallsSpec

\* No request goes beyond the policy its call was admitted under (getToolCategory).
THEOREM WithinPolicy == CallsSpec => []RequestsWithinPolicy
<1>1. CallsInv => RequestsWithinPolicy
  BY DEF CallsInv
<1> QED BY <1>1, CallsInvariant, PTL

\* No request reaches what only removed tools offer.
THEOREM OutOfReach == CallsSpec => []RemovedOutOfReach
<1>1. CallsInv => RemovedOutOfReach
  BY DEF CallsInv
<1> QED BY <1>1, CallsInvariant, PTL

\* Both: what a call asks is within its policy and among what served tools offer.
THEOREM WithinReach == CallsSpec => []ReachKept
<1> QED BY WithinPolicy, OutOfReach, PTL DEF ReachKept

-----------------------------------------------------------------------------
(* The user: the tokens a session or a refresh in flight carries are of the
   login whose identity it carries. *)

\* The tokens a session or a refresh in flight carries fit their identity.
Carried ==
    /\ \A l \in SignIn : seat[l].at = "open" =>
          /\ seat[l].token \in Token /\ SignInOf(seat[l].token) = l
          /\ Fits(seat[l].token, AppOf[l], seat[l].user)
    /\ \A x \in Renewal : renewal[x].at = "asked" =>
          /\ renewal[x].token \in Token
          /\ Fits(renewal[x].token, renewal[x].client, renewal[x].user)

\* In a consent-gated profile nothing is nobody's.
Persons == setup.consented =>
    /\ \A l \in SignIn : seat[l].at = "open" => seat[l].user # NoUser
    /\ \A x \in Renewal : renewal[x].at = "asked" => renewal[x].user # NoUser
    /\ \A e \in held : e.user # NoUser

BoundInv == IdentitiesTypeOK /\ IsFiniteSet(Bound) /\ IdentityBound /\ Carried /\ Persons

-----------------------------------------------------------------------------
\* The n-th answer's token is a token of its login.
LEMMA TokenOf ==
    ASSUME NEW l \in SignIn, NEW n \in 0 .. MaxAnswers
    PROVE  <<l, n>> \in Token /\ SignInOf(<<l, n>>) = l
  BY DEF Token, SignInOf

\* Every token is of a login.
LEMMA TokensLogin == \A t \in Token : SignInOf(t) \in SignIn
  BY DEF Token, SignInOf

\* So is the first token of a login.
LEMMA FirstToken == \A l \in SignIn : <<l, 0>> \in Token /\ SignInOf(<<l, 0>>) = l
<1>1. 0 \in 0 .. MaxAnswers BY IdentitiesAssumption
<1> QED BY <1>1, TokenOf

\* A token may be nobody's, for every client.
LEMMA NobodyFits == \A t, c : Fits(t, c, NoUser)
  BY DEF Fits

\* No record is a record, of nobody.
LEMMA NoRecordTyped == NoRecord \in Record /\ NoRecord.user = NoUser /\ NoRecord.client = NoUser
  BY DEF NoRecord, Record

\* A user's own token, with the client of the login.
LEMMA OwnFits == \A l \in SignIn, t \in Token : SignInOf(t) = l => Fits(t, AppOf[l], l) /\ Fits(t, StandIn, l)
  BY DEF Fits

\* The clients of logins, and the stand-in of sessions, are clients.
LEMMA ClientsTyped == StandIn \in App /\ \A l \in SignIn : AppOf[l] \in App
  BY IdentitiesAssumption

\* The identities that are left, or that one of them makes room for.
LEMMA Fewer ==
    ASSUME NEW ids \in [Token -> Record], NEW rest \in [Token -> Record],
           \A t \in Token : rest[t] \in {NoRecord, ids[t]},
           IsFiniteSet({t \in Token : ids[t] # NoRecord})
    PROVE  /\ IsFiniteSet({t \in Token : rest[t] # NoRecord})
           /\ Cardinality({t \in Token : rest[t] # NoRecord}) <= Cardinality({t \in Token : ids[t] # NoRecord})
<1>1. {t \in Token : rest[t] # NoRecord} \subseteq {t \in Token : ids[t] # NoRecord} OBVIOUS
<1> QED BY <1>1, FS_Subset

\* storeRefreshTokenIdentity binds the one token and touches no other but to drop it.
LEMMA Stored ==
    ASSUME NEW ids \in [Token -> Record], NEW t \in Token, NEW user \in SignIn, NEW client \in App,
           IsFiniteSet({o \in Token : ids[o] # NoRecord}),
           Cardinality({o \in Token : ids[o] # NoRecord}) <= MaxIdentities,
           StoreIdentity(ids, t, user, client)
    PROVE  /\ identities' \in [Token -> Record]
           /\ identities'[t] = [client |-> client, user |-> user]
           /\ \A s \in Token \ {t} : identities'[s] \in {NoRecord, ids[s]}
           /\ IsFiniteSet(Bound') /\ Cardinality(Bound') <= MaxIdentities
<1> DEFINE kept == {o \in Token : ids[o] # NoRecord}
           new == [client |-> client, user |-> user]
<1>1. PICK r \in Room(ids) : identities' = [r EXCEPT ![t] = new] BY DEF StoreIdentity
<1>2. /\ r \in [Token -> Record]
      /\ \A s \in Token : r[s] \in {NoRecord, ids[s]}
      /\ IsFiniteSet({o \in Token : r[o] # NoRecord})
      /\ Cardinality({o \in Token : r[o] # NoRecord}) < MaxIdentities
  <2>0. Cardinality(kept) \in Nat /\ MaxIdentities \in Nat BY FS_CardinalityType, IdentitiesAssumption
  <2>1. CASE Cardinality(kept) < MaxIdentities
    <3>1. r = ids BY <1>1, <2>1 DEF Room
    <3> QED BY <2>1, <3>1
  <2>2. CASE ~(Cardinality(kept) < MaxIdentities)
    <3>1. PICK o \in kept : r = [ids EXCEPT ![o] = NoRecord] BY <1>1, <2>2 DEF Room
    <3>2. r \in [Token -> Record] /\ \A s \in Token : r[s] \in {NoRecord, ids[s]} BY <3>1, NoRecordTyped
    <3>3. {s \in Token : r[s] # NoRecord} = kept \ {o} BY <3>1
    <3>4. IsFiniteSet(kept \ {o}) /\ Cardinality(kept \ {o}) = Cardinality(kept) - 1
      BY <3>1, FS_RemoveElement
    <3>5. Cardinality(kept) <= MaxIdentities OBVIOUS
    <3>6. Cardinality(kept) - 1 < MaxIdentities BY <2>0, <3>5
    <3>7. Cardinality({s \in Token : r[s] # NoRecord}) < MaxIdentities BY <3>3, <3>4, <3>6
    <3> QED BY <3>2, <3>3, <3>4, <3>7
  <2> QED BY <2>1, <2>2
<1>3. new \in Record BY DEF Record
<1>4. /\ identities' \in [Token -> Record] /\ identities'[t] = new
      /\ \A s \in Token \ {t} : identities'[s] \in {NoRecord, ids[s]}
  BY <1>1, <1>2, <1>3
<1>5. new # NoRecord BY IdentitiesAssumption DEF NoRecord
<1>6. Bound' = {o \in Token : r[o] # NoRecord} \cup {t} BY <1>1, <1>2, <1>5 DEF Bound
<1>7. /\ IsFiniteSet(Bound')
      /\ Cardinality(Bound') <= Cardinality({o \in Token : r[o] # NoRecord}) + 1
  <2> DEFINE S == {o \in Token : r[o] # NoRecord}
  <2>1. /\ IsFiniteSet(S \cup {t})
        /\ Cardinality(S \cup {t}) = IF t \in S THEN Cardinality(S) ELSE Cardinality(S) + 1
    BY <1>2, FS_AddElement
  <2>2. Cardinality(S) \in Nat BY <1>2, FS_CardinalityType
  <2> QED BY <1>6, <2>1, <2>2
<1>8. Cardinality({o \in Token : r[o] # NoRecord}) \in Nat /\ Cardinality(Bound') \in Nat
  BY <1>2, <1>7, FS_CardinalityType
<1> QED BY <1>2, <1>4, <1>7, <1>8, IdentitiesAssumption

-----------------------------------------------------------------------------
\* The invariant holds when the server has started (the constructor of the
\* provider).
LEMMA IdentitiesStart == IdentitiesInit => BoundInv
<1> SUFFICES ASSUME IdentitiesInit PROVE BoundInv OBVIOUS
<1>1. /\ access = [t \in Token |-> NoRecord] /\ identities = [t \in Token |-> NoRecord]
      /\ setup \in Settings /\ registered = App /\ held = {}
      /\ code = [l \in SignIn |-> "none"] /\ answered = [l \in SignIn |-> 0]
      /\ renewal = [x \in Renewal |-> NoRenewal] /\ seat = [l \in SignIn |-> NoSeat]
  BY DEF IdentitiesInit
<1>2. Bound = {} BY <1>1 DEF Bound
<1>3. IsFiniteSet(Bound) /\ Cardinality(Bound) <= MaxIdentities
  BY <1>2, FS_EmptySet, IdentitiesAssumption
<1>4. IdentitiesTypeOK
  <2>1. 0 \in 0 .. MaxAnswers BY IdentitiesAssumption
  <2>2. access \in [Token -> Record] /\ identities \in [Token -> Record] BY <1>1, NoRecordTyped
  <2> QED BY <1>1, <1>3, <2>1, <2>2 DEF IdentitiesTypeOK, NoRenewal, NoSeat
<1>5. IdentityBound BY <1>1, NobodyFits, NoRecordTyped, FirstToken DEF IdentityBound
<1>6. Carried /\ Persons BY <1>1 DEF Carried, Persons, NoSeat, NoRenewal
<1> QED BY <1>3, <1>4, <1>5, <1>6 DEF BoundInv

\* Steps of the provider, of clients and of logins before their redemption.
LEMMA RecordsApart ==
    ASSUME BoundInv, UNCHANGED <<setup, issued>>,
           registered' \subseteq App,
           code' \in [SignIn -> {"none", "minted", "spent", "replayed", "over"}],
           \A l \in SignIn : code'[l] = "replayed" => code[l] = "replayed"
    PROVE  BoundInv'
<1>1. /\ access' = access /\ identities' = identities /\ renewal' = renewal
      /\ seat' = seat /\ held' = held /\ answered' = answered
  BY DEF issued
<1>2. IdentitiesTypeOK' /\ IsFiniteSet(Bound')
  BY <1>1 DEF BoundInv, IdentitiesTypeOK, Bound
<1>3. IdentityBound' BY <1>1 DEF BoundInv, IdentityBound, Fits
<1>4. Carried' /\ Persons' BY <1>1 DEF BoundInv, Carried, Persons, Fits
<1> QED BY <1>2, <1>3, <1>4 DEF BoundInv

\* What is kept of the identities is of whom it was.
LEMMA Dropped ==
    ASSUME BoundInv, NEW rest \in [Token -> Record], identities' = rest,
           \A t \in Token : rest[t] \in {NoRecord, identities[t]}
    PROVE  /\ identities' \in [Token -> Record]
           /\ IsFiniteSet(Bound') /\ Cardinality(Bound') <= MaxIdentities
           /\ \A t \in Token : Fits(t, identities'[t].client, identities'[t].user)
<1>1. identities \in [Token -> Record] /\ IsFiniteSet(Bound) /\ Cardinality(Bound) <= MaxIdentities
  BY DEF BoundInv, IdentitiesTypeOK
<1>2. IsFiniteSet(Bound') /\ Cardinality(Bound') <= Cardinality(Bound)
  BY <1>1, Fewer DEF Bound
<1>3. Cardinality(Bound') \in Nat /\ Cardinality(Bound) \in Nat /\ MaxIdentities \in Nat
  BY <1>1, <1>2, FS_CardinalityType, IdentitiesAssumption
<1>4. \A t \in Token : Fits(t, identities'[t].client, identities'[t].user)
  BY NobodyFits, NoRecordTyped DEF BoundInv, IdentityBound
<1> QED BY <1>1, <1>2, <1>3, <1>4

\* The first redemption of a code keeps it (exchangeAuthorizationCode).
LEMMA RedeemStep ==
    ASSUME BoundInv, NEW l \in SignIn, RedeemCode(l)
    PROVE  BoundInv'
<1> DEFINE t == <<l, 0>>  c == AppOf[l]  u == UserOf(l)
<1>0. /\ IdentitiesTypeOK /\ IdentityBound /\ Carried /\ Persons /\ IsFiniteSet(Bound)
      /\ t \in Token /\ SignInOf(t) = l /\ c \in App
  BY FirstToken, ClientsTyped DEF BoundInv
<1>1. /\ code' = [code EXCEPT ![l] = "spent"]
      /\ access' = [access EXCEPT ![t] = [client |-> c, user |-> u]]
      /\ IF u = NoUser THEN UNCHANGED identities ELSE StoreIdentity(identities, t, u, c)
      /\ held' = held \cup {IF setup.keyed THEN Envelope(t, c, u) ELSE Raw(t)}
      /\ seat' = [seat EXCEPT ![l] = [at |-> "open", token |-> t, user |-> u]]
      /\ setup' = setup /\ registered' = registered /\ renewal' = renewal /\ answered' = answered
  BY DEF RedeemCode, Hands, known
<1>2. u \in {l, NoUser} /\ (setup.consented => u = l /\ setup.keyed)
  BY <1>0, IdentitiesAssumption DEF UserOf, IdentitiesTypeOK
<1>3. Fits(t, c, u) BY <1>0, <1>2, OwnFits, NobodyFits
<1>10. t = <<l, 0>> /\ c = AppOf[l] OBVIOUS
<1> HIDE DEF t, c, u
<1>4. /\ identities' \in [Token -> Record] /\ IsFiniteSet(Bound') /\ Cardinality(Bound') <= MaxIdentities
      /\ \A s \in Token : Fits(s, identities'[s].client, identities'[s].user)
  <2>1. CASE u = NoUser
    BY <1>0, <1>1, <2>1, Dropped DEF IdentitiesTypeOK
  <2>2. CASE u # NoUser
    <3>1. /\ identities' \in [Token -> Record] /\ identities'[t] = [client |-> c, user |-> u]
          /\ \A s \in Token \ {t} : identities'[s] \in {NoRecord, identities[s]}
          /\ IsFiniteSet(Bound') /\ Cardinality(Bound') <= MaxIdentities
      <4>1. u \in SignIn /\ StoreIdentity(identities, t, u, c) BY <1>1, <1>2, <2>2
      <4>2. /\ identities \in [Token -> Record]
            /\ IsFiniteSet({o \in Token : identities[o] # NoRecord})
            /\ Cardinality({o \in Token : identities[o] # NoRecord}) <= MaxIdentities
        BY <1>0 DEF IdentitiesTypeOK, Bound
      <4> QED BY <1>0, <4>1, <4>2, Stored
    <3>2. \A s \in Token \ {t} : Fits(s, identities'[s].client, identities'[s].user)
      BY <1>0, <3>1, NobodyFits, NoRecordTyped DEF IdentityBound
    <3> QED BY <1>3, <3>1, <3>2
  <2> QED BY <2>1, <2>2
<1>5. \A e \in held' : e \in held \/ (e.token = t /\ Fits(e.token, e.client, e.user) /\ (setup.consented => e.user = l))
  BY <1>1, <1>2, <1>3, NobodyFits DEF Envelope, Raw
<1>6. IdentitiesTypeOK'
  <2>1. [client |-> c, user |-> u] \in Record BY <1>0, <1>2 DEF Record
  <2>2. access' \in [Token -> Record] BY <1>0, <1>1, <2>1 DEF IdentitiesTypeOK
  <2>3. held' \subseteq [token : Token, client : App \cup {NoUser}, user : SignIn \cup {NoUser}]
    <3>1. u \in SignIn \cup {NoUser} BY <1>2
    <3>2. Envelope(t, c, u) \in [token : Token, client : App \cup {NoUser}, user : SignIn \cup {NoUser}]
      BY <1>0, <3>1 DEF Envelope
    <3>3. Raw(t) \in [token : Token, client : App \cup {NoUser}, user : SignIn \cup {NoUser}]
      BY <1>0 DEF Raw, Envelope
    <3> QED BY <1>0, <1>1, <3>2, <3>3 DEF IdentitiesTypeOK
  <2>4. seat' \in [SignIn -> [at : {"none", "open"}, token : Token \cup {<<>>}, user : SignIn \cup {NoUser}]]
    BY <1>0, <1>1, <1>2 DEF IdentitiesTypeOK
  <2>5. code' \in [SignIn -> {"none", "minted", "spent", "replayed", "over"}] BY <1>0, <1>1 DEF IdentitiesTypeOK
  <2> QED BY <1>0, <1>1, <1>4, <2>2, <2>3, <2>4, <2>5 DEF IdentitiesTypeOK
<1>7. IdentityBound'
  <2>1. \A s \in Token : Fits(s, access'[s].client, access'[s].user)
    BY <1>0, <1>1, <1>3 DEF IdentitiesTypeOK, IdentityBound
  <2>2. \A e \in held' : Fits(e.token, e.client, e.user) BY <1>0, <1>5 DEF IdentityBound
  <2>3. setup'.consented => \A s \in Token : access'[s] # NoRecord => access'[s].user = SignInOf(s)
    BY <1>0, <1>1, <1>2 DEF IdentitiesTypeOK, IdentityBound
  <2>4. \A k \in SignIn : code'[k] = "replayed" => access'[<<k, 0>>] = NoRecord
    BY <1>0, <1>1, <1>10, FirstToken DEF IdentitiesTypeOK, IdentityBound
  <2> QED BY <1>4, <2>1, <2>2, <2>3, <2>4 DEF IdentityBound, Fits
<1>8. Carried' BY <1>0, <1>1, <1>3, <1>10 DEF Carried, IdentitiesTypeOK, Fits
<1>9. Persons'
  <2> SUFFICES ASSUME setup'.consented
               PROVE  /\ \A k \in SignIn : seat'[k].at = "open" => seat'[k].user # NoUser
                      /\ \A x \in Renewal : renewal'[x].at = "asked" => renewal'[x].user # NoUser
                      /\ \A e \in held' : e.user # NoUser
    BY DEF Persons
  <2>1. setup.consented /\ u = l /\ l # NoUser BY <1>1, <1>2, IdentitiesAssumption
  <2>2. \A k \in SignIn : seat'[k].at = "open" => seat'[k].user # NoUser
    BY <1>0, <1>1, <2>1 DEF Persons, IdentitiesTypeOK
  <2>3. \A e \in held' : e.user # NoUser BY <1>0, <1>5, <2>1 DEF Persons
  <2> QED BY <1>0, <1>1, <2>1, <2>2, <2>3 DEF Persons
<1> QED BY <1>4, <1>6, <1>7, <1>8, <1>9 DEF BoundInv

\* Records and identities that end, alone or together.
LEMMA Revoked ==
    ASSUME BoundInv, UNCHANGED <<setup, registered, renewal, seat, held, answered>>,
           access' \in [Token -> Record], \A t \in Token : access'[t] \in {NoRecord, access[t]},
           NEW rest \in [Token -> Record], identities' = rest,
           \A t \in Token : rest[t] \in {NoRecord, identities[t]},
           code' \in [SignIn -> {"none", "minted", "spent", "replayed", "over"}],
           \A l \in SignIn : code'[l] = "replayed" => access'[<<l, 0>>] = NoRecord
    PROVE  BoundInv'
<1>1. /\ identities' \in [Token -> Record]
      /\ IsFiniteSet(Bound') /\ Cardinality(Bound') <= MaxIdentities
      /\ \A t \in Token : Fits(t, identities'[t].client, identities'[t].user)
  BY Dropped
<1>2. IdentitiesTypeOK' BY <1>1 DEF BoundInv, IdentitiesTypeOK
<1>3. \A t \in Token : Fits(t, access'[t].client, access'[t].user)
  BY NobodyFits, NoRecordTyped DEF BoundInv, IdentityBound
<1>4. setup'.consented => \A t \in Token : access'[t] # NoRecord => access'[t].user = SignInOf(t)
  BY DEF BoundInv, IdentityBound
<1>5. \A e \in held' : Fits(e.token, e.client, e.user) BY DEF BoundInv, IdentityBound
<1>6. IdentityBound' BY <1>1, <1>3, <1>4, <1>5 DEF IdentityBound, Fits
<1>7. Carried' /\ Persons' BY DEF BoundInv, Carried, Persons, Fits
<1> QED BY <1>1, <1>2, <1>6, <1>7 DEF BoundInv

\* Dropping the bindings of a token adds none.
LEMMA WithoutDrops ==
    ASSUME BoundInv, NEW t \in Token
    PROVE  /\ Without(t) \in [Token -> Record]
           /\ \A s \in Token : Without(t)[s] \in {NoRecord, identities[s]}
  BY NoRecordTyped DEF BoundInv, IdentitiesTypeOK, Without

\* A code that comes again keeps it (revokeTokensForConsumedCode).
LEMMA ReplayStep ==
    ASSUME BoundInv, NEW l \in SignIn, ReplayCode(l)
    PROVE  BoundInv'
<1>1. /\ code' = [code EXCEPT ![l] = "replayed"]
      /\ access' = [access EXCEPT ![<<l, 0>>] = NoRecord] /\ identities' = Without(<<l, 0>>)
      /\ UNCHANGED <<setup, registered, renewal, seat, held, answered>>
  BY DEF ReplayCode, known
<1>2. IdentitiesTypeOK /\ IdentityBound BY DEF BoundInv
<1>3. access' \in [Token -> Record] /\ \A t \in Token : access'[t] \in {NoRecord, access[t]}
  BY <1>1, <1>2, NoRecordTyped, FirstToken DEF IdentitiesTypeOK
<1>4. /\ code' \in [SignIn -> {"none", "minted", "spent", "replayed", "over"}]
      /\ \A k \in SignIn : code'[k] = "replayed" => access'[<<k, 0>>] = NoRecord
  BY <1>1, <1>2, <1>3, FirstToken DEF IdentitiesTypeOK, IdentityBound
<1> QED BY <1>1, <1>3, <1>4, WithoutDrops, FirstToken, Revoked

\* A refresh begins with the identity it carries, or with the one bound to the token.
LEMMA BeginStep ==
    ASSUME BoundInv, NEW x \in Renewal, NEW by \in {"client", "session"}, NEW t \in Token,
           NEW c \in App, NEW carried \in SignIn \cup {NoUser}, Begins(x, by, t, c, carried),
           Fits(t, c, carried), setup.consented => carried # NoUser
    PROVE  BoundInv'
<1> DEFINE u == IF carried # NoUser THEN carried ELSE Cached(t, c)
           asked == [at |-> "asked", by |-> by, token |-> t, client |-> c, user |-> u]
<1>0. IdentitiesTypeOK /\ IdentityBound /\ Carried /\ Persons BY DEF BoundInv
<1>1. /\ renewal' = [renewal EXCEPT ![x] = asked]
      /\ identities' = IF identities[t].client = c THEN identities ELSE Without(t)
      /\ UNCHANGED <<setup, registered, code, access, seat, held, answered>>
  BY DEF Begins, DropsForeign, known
<1>2. u \in SignIn \cup {NoUser} BY <1>0 DEF Cached, IdentitiesTypeOK, Record
<1>3. Fits(t, c, u) /\ (setup.consented => u # NoUser)
  <2>1. CASE carried # NoUser BY <2>1
  <2>2. CASE carried = NoUser /\ identities[t].client = c
    BY <1>0, <2>2 DEF Cached, IdentityBound
  <2>3. CASE carried = NoUser /\ identities[t].client # c BY <2>3, NobodyFits DEF Cached
  <2> QED BY <2>1, <2>2, <2>3
<1> HIDE DEF u
<1>4. /\ identities' \in [Token -> Record]
      /\ IsFiniteSet(Bound') /\ Cardinality(Bound') <= MaxIdentities
      /\ \A s \in Token : Fits(s, identities'[s].client, identities'[s].user)
  <2>1. CASE identities[t].client = c
    <3>1. identities' = identities /\ identities \in [Token -> Record] BY <1>0, <1>1, <2>1 DEF IdentitiesTypeOK
    <3> QED BY <3>1, Dropped
  <2>2. CASE identities[t].client # c
    <3>1. identities' = Without(t) BY <1>1, <2>2
    <3> QED BY <3>1, WithoutDrops, Dropped
  <2> QED BY <2>1, <2>2
<1>5. asked \in [at : {"idle", "asked"}, by : {"client", "session", "ended"}, token : Token \cup {<<>>},
                 client : App \cup {NoUser}, user : SignIn \cup {NoUser}]
  BY <1>2
<1>6. IdentitiesTypeOK' BY <1>0, <1>1, <1>4, <1>5 DEF IdentitiesTypeOK
<1>7. IdentityBound' BY <1>0, <1>1, <1>4 DEF IdentityBound, Fits
<1>8. Carried' BY <1>0, <1>1, <1>3 DEF Carried, IdentitiesTypeOK, Fits
<1>9. Persons' BY <1>0, <1>1, <1>3 DEF Persons, IdentitiesTypeOK
<1> QED BY <1>4, <1>6, <1>7, <1>8, <1>9 DEF BoundInv

\* A client that presents a refresh token keeps it (exchangeRefreshToken, to
\* its first await).
LEMMA GrantStep ==
    ASSUME BoundInv, NEW x \in Renewal, NEW t \in Token, NEW c \in App,
           NEW u \in SignIn \cup {NoUser}, RefreshGrant(x, t, c, u)
    PROVE  BoundInv'
<1>1. Presents(t, c, u) /\ Begins(x, "client", t, c, u) BY DEF RefreshGrant
<1>2. setup.consented => u # NoUser BY <1>1 DEF Presents
<1>3. Fits(t, c, u)
  <2>1. CASE Envelope(t, c, u) \in held
    BY <2>1 DEF BoundInv, IdentityBound, Envelope
  <2>2. CASE u = NoUser BY <2>2, NobodyFits
  <2> QED BY <1>1, <2>1, <2>2 DEF Presents
<1> QED BY <1>1, <1>2, <1>3, BeginStep

\* A session that renews its token keeps it (performTokenRefresh).
LEMMA SessionStep ==
    ASSUME BoundInv, NEW x \in Renewal, NEW l \in SignIn, RefreshSession(x, l)
    PROVE  BoundInv'
<1> DEFINE c == IF AppOf[l] \in registered THEN AppOf[l] ELSE StandIn
<1>1. seat[l].at = "open" /\ Begins(x, "session", seat[l].token, c, seat[l].user)
  BY DEF RefreshSession
<1>2. /\ seat[l].token \in Token /\ SignInOf(seat[l].token) = l
      /\ Fits(seat[l].token, AppOf[l], seat[l].user)
      /\ setup.consented => seat[l].user # NoUser
      /\ seat[l].user \in SignIn \cup {NoUser}
  BY <1>1 DEF BoundInv, Carried, Persons, IdentitiesTypeOK
<1>3. c \in App /\ Fits(seat[l].token, c, seat[l].user)
  BY <1>2, ClientsTyped DEF Fits
<1> HIDE DEF c
<1> QED BY <1>1, <1>2, <1>3, BeginStep

\* The answer's tokens are of the login that the refreshed token is of.
LEMMA AnswerStep ==
    ASSUME BoundInv, NEW x \in Renewal, RenewalReturns(x)
    PROVE  BoundInv'
<1> DEFINE r == renewal[x]
           l == SignInOf(r.token)
           new == <<l, answered[l] + 1>>
<1>0. IdentitiesTypeOK /\ IdentityBound /\ Carried /\ Persons /\ IsFiniteSet(Bound) BY DEF BoundInv
<1>1. /\ r.at = "asked" /\ answered[l] < MaxAnswers
      /\ answered' = [answered EXCEPT ![l] = @ + 1]
      /\ renewal' = [renewal EXCEPT ![x] = NoRenewal]
      /\ access' = [access EXCEPT ![new] = [client |-> r.client, user |-> r.user]]
      /\ \/ \E t \in {new, r.token} :
              /\ IF r.user = NoUser THEN UNCHANGED identities
                 ELSE StoreIdentity(Without(r.token), t, r.user, r.client)
              /\ IF r.by = "client" THEN Hands(t, r.client, r.user) ELSE UNCHANGED held
              /\ seat' = IF r.by = "session" THEN [seat EXCEPT ![l].token = t] ELSE seat
         \/ UNCHANGED <<identities, seat, held>>
      /\ UNCHANGED <<setup, registered, code>>
  BY DEF RenewalReturns, known
<1>2. /\ r.token \in Token /\ l \in SignIn /\ Fits(r.token, r.client, r.user)
      /\ setup.consented => r.user # NoUser
      /\ r.client \in App \cup {NoUser} /\ r.user \in SignIn \cup {NoUser}
  BY <1>0, <1>1, TokensLogin DEF Carried, Persons, IdentitiesTypeOK
<1>3. answered[l] \in 0 .. MaxAnswers /\ answered[l] + 1 \in 1 .. MaxAnswers
  BY <1>0, <1>1, <1>2, IdentitiesAssumption DEF IdentitiesTypeOK
<1>4. /\ new \in Token /\ SignInOf(new) = l
      /\ \A k \in SignIn : new # <<k, 0>>
  BY <1>2, <1>3, TokenOf
<1>5. \A t \in {new, r.token} : t \in Token /\ SignInOf(t) = l /\ Fits(t, r.client, r.user)
  BY <1>2, <1>4 DEF Fits
<1>6. setup.consented => setup.keyed BY <1>0, IdentitiesAssumption DEF IdentitiesTypeOK
<1>7. r.user # NoUser => r.client \in App BY <1>2, ClientsTyped DEF Fits
<1> HIDE DEF r, l, new
<1>8. /\ identities' \in [Token -> Record] /\ IsFiniteSet(Bound') /\ Cardinality(Bound') <= MaxIdentities
      /\ \A s \in Token : Fits(s, identities'[s].client, identities'[s].user)
  <2>1. CASE identities' = identities
    BY <1>0, <2>1, Dropped DEF IdentitiesTypeOK
  <2>2. CASE \E t \in {new, r.token} : r.user # NoUser /\ StoreIdentity(Without(r.token), t, r.user, r.client)
    <3>1. PICK t \in {new, r.token} : r.user # NoUser /\ StoreIdentity(Without(r.token), t, r.user, r.client)
      BY <2>2
    <3> DEFINE ids == Without(r.token)
    <3>2. ids \in [Token -> Record] /\ \A s \in Token : ids[s] \in {NoRecord, identities[s]}
      BY <1>2, WithoutDrops
    <3>3. /\ IsFiniteSet({o \in Token : ids[o] # NoRecord})
          /\ Cardinality({o \in Token : ids[o] # NoRecord}) <= MaxIdentities
      <4>1. identities \in [Token -> Record] /\ IsFiniteSet(Bound) /\ Cardinality(Bound) <= MaxIdentities
        BY <1>0 DEF IdentitiesTypeOK
      <4>2. /\ IsFiniteSet({o \in Token : ids[o] # NoRecord})
            /\ Cardinality({o \in Token : ids[o] # NoRecord}) <= Cardinality(Bound)
        <5> HIDE DEF ids
        <5> QED BY <3>2, <4>1, Fewer DEF Bound
      <4>3. Cardinality({o \in Token : ids[o] # NoRecord}) \in Nat /\ Cardinality(Bound) \in Nat
        BY <4>1, <4>2, FS_CardinalityType
      <4> HIDE DEF ids
      <4> QED BY <4>1, <4>2, <4>3, IdentitiesAssumption
    <3>4. t \in Token /\ r.user \in SignIn /\ r.client \in App BY <1>2, <1>5, <1>7, <3>1
    <3>5. StoreIdentity(ids, t, r.user, r.client) BY <3>1
    <3> HIDE DEF ids
    <3>6. /\ identities' \in [Token -> Record] /\ identities'[t] = [client |-> r.client, user |-> r.user]
          /\ \A s \in Token \ {t} : identities'[s] \in {NoRecord, ids[s]}
          /\ IsFiniteSet(Bound') /\ Cardinality(Bound') <= MaxIdentities
      BY <3>2, <3>3, <3>4, <3>5, Stored
    <3>7. \A s \in Token \ {t} : Fits(s, identities'[s].client, identities'[s].user)
      BY <1>0, <3>2, <3>6, NobodyFits, NoRecordTyped DEF IdentityBound
    <3>8. Fits(t, identities'[t].client, identities'[t].user) BY <1>5, <3>6
    <3> QED BY <3>6, <3>7, <3>8
  <2> QED BY <1>1, <2>1, <2>2
<1>9. /\ held' \subseteq [token : Token, client : App \cup {NoUser}, user : SignIn \cup {NoUser}]
      /\ \A e \in held' : Fits(e.token, e.client, e.user)
      /\ setup.consented => \A e \in held' : e.user # NoUser
  <2>1. CASE held' = held BY <1>0, <2>1 DEF IdentitiesTypeOK, IdentityBound, Persons
  <2>2. CASE \E t \in {new, r.token} : Hands(t, r.client, r.user)
    <3>1. PICK t \in {new, r.token} : Hands(t, r.client, r.user) BY <2>2
    <3>2. \A e \in held' :
             \/ e \in held
             \/ setup.keyed /\ e = Envelope(t, r.client, r.user)
             \/ ~setup.keyed /\ e = Raw(t)
      BY <3>1 DEF Hands
    <3>3. /\ Envelope(t, r.client, r.user) \in [token : Token, client : App \cup {NoUser}, user : SignIn \cup {NoUser}]
          /\ Raw(t) \in [token : Token, client : App \cup {NoUser}, user : SignIn \cup {NoUser}]
      BY <1>2, <1>5 DEF Envelope, Raw
    <3>4. /\ Envelope(t, r.client, r.user).user = r.user
          /\ Fits(Envelope(t, r.client, r.user).token, Envelope(t, r.client, r.user).client,
                  Envelope(t, r.client, r.user).user)
      BY <1>5 DEF Envelope
    <3>5. Fits(Raw(t).token, Raw(t).client, Raw(t).user) BY NobodyFits DEF Raw, Envelope
    <3>6. held' \subseteq [token : Token, client : App \cup {NoUser}, user : SignIn \cup {NoUser}]
      BY <1>0, <3>2, <3>3 DEF IdentitiesTypeOK
    <3>7. \A e \in held' : Fits(e.token, e.client, e.user)
      BY <1>0, <3>2, <3>4, <3>5 DEF IdentityBound
    <3>8. setup.consented => \A e \in held' : e.user # NoUser
      BY <1>0, <1>2, <1>6, <3>2, <3>4 DEF Persons
    <3> QED BY <3>6, <3>7, <3>8
  <2> QED BY <1>1, <2>1, <2>2
<1>10. /\ seat' \in [SignIn -> [at : {"none", "open"}, token : Token \cup {<<>>}, user : SignIn \cup {NoUser}]]
       /\ \A k \in SignIn : seat'[k].at = "open" =>
             /\ seat'[k].token \in Token /\ SignInOf(seat'[k].token) = k
             /\ Fits(seat'[k].token, AppOf[k], seat'[k].user)
             /\ setup.consented => seat'[k].user # NoUser
  <2>1. CASE seat' = seat BY <1>0, <2>1 DEF IdentitiesTypeOK, Carried, Persons
  <2>2. CASE \E t \in {new, r.token} : seat' = [seat EXCEPT ![l].token = t]
    <3>1. PICK t \in {new, r.token} : seat' = [seat EXCEPT ![l].token = t] BY <2>2
    <3>2. t \in Token /\ SignInOf(t) = l BY <1>5
    <3>3. seat' \in [SignIn -> [at : {"none", "open"}, token : Token \cup {<<>>}, user : SignIn \cup {NoUser}]]
      <4> DEFINE Seat == [at : {"none", "open"}, token : Token \cup {<<>>}, user : SignIn \cup {NoUser}]
      <4>1. seat \in [SignIn -> Seat] BY <1>0 DEF IdentitiesTypeOK
      <4>2. [seat[l] EXCEPT !.token = t] \in Seat BY <1>2, <3>2, <4>1
      <4>3. seat' = [seat EXCEPT ![l] = [seat[l] EXCEPT !.token = t]] BY <3>1
      <4> HIDE DEF Seat
      <4>4. seat' \in [SignIn -> Seat] BY <1>2, <4>1, <4>2, <4>3
      <4> QED BY <4>4 DEF Seat
    <3>4. /\ \A k \in SignIn \ {l} : seat'[k] = seat[k]
          /\ seat'[l].at = seat[l].at /\ seat'[l].user = seat[l].user /\ seat'[l].token = t
      BY <1>0, <1>2, <3>1 DEF IdentitiesTypeOK
    <3>5. ASSUME NEW k \in SignIn, seat'[k].at = "open"
          PROVE  /\ seat'[k].token \in Token /\ SignInOf(seat'[k].token) = k
                 /\ Fits(seat'[k].token, AppOf[k], seat'[k].user)
                 /\ setup.consented => seat'[k].user # NoUser
      <4>1. CASE k # l BY <1>0, <3>4, <3>5, <4>1 DEF Carried, Persons
      <4>2. CASE k = l
        BY <1>0, <1>2, <3>2, <3>4, <3>5, <4>2 DEF Carried, Persons, Fits
      <4> QED BY <4>1, <4>2
    <3> QED BY <3>3, <3>5
  <2> QED BY <1>1, <2>1, <2>2
<1>11. IdentitiesTypeOK'
  <2>1. [client |-> r.client, user |-> r.user] \in Record BY <1>2 DEF Record
  <2>2. access' \in [Token -> Record] BY <1>0, <1>1, <1>4, <2>1 DEF IdentitiesTypeOK
  <2>3. answered' \in [SignIn -> 0 .. MaxAnswers]
    <3>1. answered[l] + 1 \in 0 .. MaxAnswers BY <1>3, IdentitiesAssumption
    <3> QED BY <1>0, <1>1, <1>2, <3>1 DEF IdentitiesTypeOK
  <2>4. renewal' \in [Renewal -> [at : {"idle", "asked"}, by : {"client", "session", "ended"},
                                  token : Token \cup {<<>>}, client : App \cup {NoUser},
                                  user : SignIn \cup {NoUser}]]
    BY <1>0, <1>1 DEF IdentitiesTypeOK, NoRenewal
  <2> QED BY <1>0, <1>1, <1>8, <1>9, <1>10, <2>2, <2>3, <2>4 DEF IdentitiesTypeOK
<1>12. IdentityBound'
  <2>1. \A s \in Token : access'[s] = access[s] \/ (s = new /\ access'[s] = [client |-> r.client, user |-> r.user])
    BY <1>0, <1>1, <1>4 DEF IdentitiesTypeOK
  <2>2. \A s \in Token : Fits(s, access'[s].client, access'[s].user)
    BY <1>0, <1>5, <2>1 DEF IdentityBound
  <2>3. setup'.consented => \A s \in Token : access'[s] # NoRecord => access'[s].user = SignInOf(s)
    BY <1>0, <1>1, <1>2, <1>5, <2>1 DEF IdentityBound, Fits
  <2>4. \A k \in SignIn : code'[k] = "replayed" => access'[<<k, 0>>] = NoRecord
    BY <1>0, <1>1, <1>4, <2>1, FirstToken DEF IdentityBound
  <2> QED BY <1>8, <1>9, <2>2, <2>3, <2>4 DEF IdentityBound, Fits
<1>13. \A y \in Renewal : renewal'[y] = renewal[y] \/ renewal'[y].at = "idle"
  BY <1>0, <1>1 DEF IdentitiesTypeOK, NoRenewal
<1>14. Carried' BY <1>0, <1>10, <1>13 DEF Carried, Fits
<1>15. Persons' BY <1>0, <1>1, <1>9, <1>10, <1>13 DEF Persons
<1> QED BY <1>8, <1>11, <1>12, <1>14, <1>15 DEF BoundInv

\* An exchange that fails keeps it.
LEMMA FailStep ==
    ASSUME BoundInv, NEW x \in Renewal, RenewalFails(x)
    PROVE  BoundInv'
<1>0. IdentitiesTypeOK /\ IdentityBound /\ Carried /\ Persons /\ IsFiniteSet(Bound) BY DEF BoundInv
<1>1. /\ renewal' = [renewal EXCEPT ![x] = NoRenewal]
      /\ UNCHANGED <<setup, registered, code, access, identities, seat, held, answered>>
  BY DEF RenewalFails, known
<1>2. IdentitiesTypeOK' /\ IsFiniteSet(Bound') BY <1>0, <1>1 DEF IdentitiesTypeOK, NoRenewal, Bound
<1>3. IdentityBound' BY <1>0, <1>1 DEF IdentityBound, Fits
<1>4. \A y \in Renewal : renewal'[y] = renewal[y] \/ renewal'[y].at = "idle"
  BY <1>0, <1>1 DEF IdentitiesTypeOK, NoRenewal
<1>5. Carried' /\ Persons' BY <1>0, <1>1, <1>4 DEF Carried, Persons, Fits
<1> QED BY <1>2, <1>3, <1>5 DEF BoundInv

\* A session that ends keeps it.
LEMMA SeatEndsStep ==
    ASSUME BoundInv, NEW l \in SignIn, SeatEnds(l)
    PROVE  BoundInv'
<1>0. IdentitiesTypeOK /\ IdentityBound /\ Carried /\ Persons /\ IsFiniteSet(Bound) BY DEF BoundInv
<1>1. /\ seat' = [seat EXCEPT ![l] = NoSeat]
      /\ renewal' = [x \in Renewal |-> IF OfSeat(x, l) THEN [renewal[x] EXCEPT !.by = "ended"] ELSE renewal[x]]
      /\ UNCHANGED <<setup, registered, code, access, identities, held, answered>>
  BY DEF SeatEnds, known
<1>2. \A x \in Renewal :
         /\ renewal'[x] \in [at : {"idle", "asked"}, by : {"client", "session", "ended"},
                             token : Token \cup {<<>>}, client : App \cup {NoUser},
                             user : SignIn \cup {NoUser}]
         /\ renewal'[x].at = renewal[x].at /\ renewal'[x].token = renewal[x].token
         /\ renewal'[x].client = renewal[x].client /\ renewal'[x].user = renewal[x].user
  BY <1>0, <1>1 DEF IdentitiesTypeOK
<1>3. /\ seat' \in [SignIn -> [at : {"none", "open"}, token : Token \cup {<<>>}, user : SignIn \cup {NoUser}]]
      /\ \A k \in SignIn : seat'[k] = seat[k] \/ seat'[k].at = "none"
  BY <1>0, <1>1 DEF IdentitiesTypeOK, NoSeat
<1>4. IdentitiesTypeOK' /\ IsFiniteSet(Bound')
  BY <1>0, <1>1, <1>2, <1>3 DEF IdentitiesTypeOK, Bound
<1>5. IdentityBound' BY <1>0, <1>1 DEF IdentityBound, Fits
<1>6. Carried' BY <1>0, <1>2, <1>3 DEF Carried, Fits
<1>7. Persons' BY <1>0, <1>1, <1>2, <1>3 DEF Persons
<1> QED BY <1>4, <1>5, <1>6, <1>7 DEF BoundInv

\* A session recovered from an envelope keeps it.
LEMMA SeatReturnsStep ==
    ASSUME BoundInv, NEW e \in held, SeatReturns(e)
    PROVE  BoundInv'
<1> DEFINE l == SignInOf(e.token)
<1>0. IdentitiesTypeOK /\ IdentityBound /\ Carried /\ Persons /\ IsFiniteSet(Bound) BY DEF BoundInv
<1>1. /\ seat' = [seat EXCEPT ![l] = [at |-> "open", token |-> e.token, user |-> e.user]]
      /\ UNCHANGED <<setup, registered, code, access, identities, renewal, held, answered>>
  BY DEF SeatReturns, known
<1>2. /\ e.token \in Token /\ e.user \in SignIn \cup {NoUser} /\ l \in SignIn
      /\ Fits(e.token, e.client, e.user) /\ (setup.consented => e.user # NoUser)
  BY <1>0, TokensLogin DEF IdentitiesTypeOK, IdentityBound, Persons
<1>3. SignInOf(e.token) = l /\ Fits(e.token, AppOf[l], e.user) BY <1>2 DEF Fits
<1> HIDE DEF l
<1>4. IdentitiesTypeOK' /\ IsFiniteSet(Bound') BY <1>0, <1>1, <1>2 DEF IdentitiesTypeOK, Bound
<1>5. IdentityBound' BY <1>0, <1>1 DEF IdentityBound, Fits
<1>6. Carried' BY <1>0, <1>1, <1>2, <1>3 DEF Carried, IdentitiesTypeOK, Fits
<1>7. Persons' BY <1>0, <1>1, <1>2 DEF Persons, IdentitiesTypeOK
<1> QED BY <1>4, <1>5, <1>6, <1>7 DEF BoundInv

\* Only envelopes, and the raw tokens, outlive a restart.
LEMMA RestartStep ==
    ASSUME BoundInv, RestartServer
    PROVE  BoundInv'
<1>0. IdentitiesTypeOK /\ IdentityBound /\ Persons BY DEF BoundInv
<1>1. /\ registered' = Configured /\ setup' = setup /\ held' = held /\ answered' = answered
      /\ code' = [l \in SignIn |-> IF code[l] = "none" THEN "none" ELSE "over"]
      /\ access' = [t \in Token |-> NoRecord] /\ identities' = [t \in Token |-> NoRecord]
      /\ renewal' = [x \in Renewal |-> NoRenewal] /\ seat' = [l \in SignIn |-> NoSeat]
  BY DEF RestartServer
<1>2. IsFiniteSet(Bound') /\ Cardinality(Bound') <= MaxIdentities
  <2>1. Bound' = {} BY <1>1 DEF Bound
  <2> QED BY <2>1, FS_EmptySet, IdentitiesAssumption
<1>3. IdentitiesTypeOK'
  <2>1. access' \in [Token -> Record] /\ identities' \in [Token -> Record] BY <1>1, NoRecordTyped
  <2> QED BY <1>0, <1>1, <1>2, <2>1, IdentitiesAssumption DEF IdentitiesTypeOK, NoRenewal, NoSeat
<1>4. IdentityBound'
  BY <1>0, <1>1, NobodyFits, NoRecordTyped, FirstToken DEF IdentityBound, Fits
<1>5. Carried' BY <1>1 DEF Carried, NoSeat, NoRenewal
<1>6. Persons' BY <1>0, <1>1 DEF Persons, NoSeat, NoRenewal
<1> QED BY <1>2, <1>3, <1>4, <1>5, <1>6 DEF BoundInv

-----------------------------------------------------------------------------
\* Every step keeps the invariant.
LEMMA IdentitiesStep == BoundInv /\ [IdentitiesNext]_idVars => BoundInv'
<1> SUFFICES ASSUME BoundInv, [IdentitiesNext]_idVars PROVE BoundInv' OBVIOUS
<1>0. IdentitiesTypeOK /\ IdentityBound BY DEF BoundInv
<1>1. CASE CreateProvider \/ SeekEndpoints \/ MetadataReturns
  BY <1>0, <1>1, RecordsApart DEF CreateProvider, SeekEndpoints, MetadataReturns, IdentitiesTypeOK
<1>2. ASSUME NEW c \in App, EvictApp(c) \/ ReturnApp(c) PROVE BoundInv'
  BY <1>0, <1>2, RecordsApart DEF EvictApp, ReturnApp, known, IdentitiesTypeOK
<1>3. ASSUME NEW l \in SignIn, SignInReturns(l) \/ MissRedemption(l) \/ CodeExpires(l) PROVE BoundInv'
  <2>1. PICK stage \in {"minted", "over"} :
           code' = [code EXCEPT ![l] = stage] /\ UNCHANGED <<setup, registered, issued>>
    BY <1>3 DEF SignInReturns, MissRedemption, CodeExpires, known
  <2>2. /\ code' \in [SignIn -> {"none", "minted", "spent", "replayed", "over"}]
        /\ \A k \in SignIn : code'[k] = "replayed" => code[k] = "replayed"
    BY <1>0, <2>1 DEF IdentitiesTypeOK
  <2> QED BY <1>0, <2>1, <2>2, RecordsApart DEF IdentitiesTypeOK
<1>4. ASSUME NEW l \in SignIn, RedeemCode(l) \/ ReplayCode(l) \/ SeatEnds(l) PROVE BoundInv'
  BY <1>4, RedeemStep, ReplayStep, SeatEndsStep
<1>5. ASSUME NEW x \in Renewal, NEW t \in Token, NEW c \in App, NEW u \in SignIn \cup {NoUser},
             RefreshGrant(x, t, c, u)
      PROVE BoundInv'
  BY <1>5, GrantStep
<1>6. ASSUME NEW x \in Renewal, NEW l \in SignIn, RefreshSession(x, l) PROVE BoundInv'
  BY <1>6, SessionStep
<1>7. ASSUME NEW x \in Renewal, RenewalReturns(x) \/ RenewalFails(x) PROVE BoundInv'
  BY <1>7, AnswerStep, FailStep
<1>8. ASSUME NEW t \in Token, IdentityExpires(t) PROVE BoundInv'
  <2>1. identities' = Without(t) /\ UNCHANGED <<setup, registered, code, access, renewal, seat, held, answered>>
    BY <1>8 DEF IdentityExpires, known
  <2> QED BY <1>0, <2>1, WithoutDrops, Revoked DEF IdentitiesTypeOK, IdentityBound
<1>9. ASSUME NEW t \in Token, AccessEnds(t) PROVE BoundInv'
  <2>1. /\ access' = [access EXCEPT ![t] = NoRecord]
        /\ UNCHANGED <<setup, registered, code, identities, renewal, seat, held, answered>>
    BY <1>9 DEF AccessEnds, known
  <2>2. access' \in [Token -> Record] /\ \A s \in Token : access'[s] \in {NoRecord, access[s]}
    BY <1>0, <2>1, NoRecordTyped DEF IdentitiesTypeOK
  <2>3. \A l \in SignIn : code'[l] = "replayed" => access'[<<l, 0>>] = NoRecord
    BY <1>0, <2>1, <2>2, FirstToken DEF IdentityBound
  <2> QED BY <1>0, <2>1, <2>2, <2>3, Revoked DEF IdentitiesTypeOK
<1>10. ASSUME NEW e \in held, SeatReturns(e) PROVE BoundInv'
  BY <1>10, SeatReturnsStep
<1>11. CASE RestartServer BY <1>11, RestartStep
<1>12. CASE UNCHANGED idVars
  BY <1>0, <1>12, RecordsApart DEF idVars, issued, IdentitiesTypeOK
<1> QED
  BY <1>1, <1>2, <1>3, <1>4, <1>5, <1>6, <1>7, <1>8, <1>9, <1>10, <1>11, <1>12 DEF IdentitiesNext

\* The identity of a login goes with no other login's tokens and to no other client
\* (but the stand-in of its session), whatever is refreshed, replayed, evicted or
\* restarted (exchangeRefreshToken: "Identity bindings are client-scoped").
THEOREM IdentitiesBound == IdentitiesSpec => [](IdentitiesTypeOK /\ IdentityBound)
<1>1. BoundInv => IdentitiesTypeOK /\ IdentityBound BY DEF BoundInv
<1> QED BY <1>1, IdentitiesStart, IdentitiesStep, PTL DEF IdentitiesSpec

=============================================================================
