------------------------------ MODULE RetryChain ------------------------------
(***************************************************************************)
(* One call through the interceptor chain of src/transport/interceptors.ts *)
(* when the profile has session-cookie auth, a rate limit and retries:     *)
(* InterceptorChain.execute, the retry interceptor, and requestInternal,   *)
(* which follows redirects itself, logs in and replays the call from       *)
(* within when it is refused (src/transport/session-cookie-auth.ts).       *)
(*                                                                         *)
(* The replay (level 1) is an execution of its own, with its own auth,     *)
(* token and retry loop, inside one attempt of the loop at level 0.  The   *)
(* retry interceptor is the last: its further attempts go straight to      *)
(* fetch, with the headers of the first.  The cache is not in the chain.   *)
(* What the rate limiter does before it lets the call pass is in           *)
(* RateLimiter; the module Interceptors has both.                          *)
(*                                                                         *)
(* What the API makes of a cookie is its choice at every fetch: it may end *)
(* a login at any time, and a redirect to another origin takes the cookie  *)
(* out of the headers.                                                     *)
(***************************************************************************)
EXTENDS Naturals

CONSTANTS
    MaxAttempts,   \* max_attempts
    MaxRedirects   \* maxRedirects of requestInternal, 5

ASSUME ConstantsAssumption == MaxAttempts \in Nat \ {0} /\ MaxRedirects \in Nat

VARIABLES
    at,         \* where the call is
    level,      \* of the execution that is under way
    attempt,    \* level -> the attempt its retry loop makes
    hops,       \* redirectCount of that attempt
    fetches,    \* how often the call was sent, to whatever URL
    tokens,     \* how often it passed the rate limiter
    logins      \* how often it had the server log in

vars == <<at, level, attempt, hops, fetches, tokens, logins>>

----------------------------------------------------------------------------
Level == {0, 1}
Place == {"preparing", "limited", "fetching", "backoff", "relogin", "done", "failed"}

\* execute: the auth interceptor is the first.
Init ==
    /\ at = "preparing" /\ level = 0 /\ attempt = [l \in Level |-> 1] /\ hops = 0
    /\ fetches = 0 /\ tokens = 0 /\ logins = 0

\* An attempt of level l fails, or its answer has a status to retry: the loop
\* waits for the next, or it was the last and the call ends.  How a replay ends
\* is how the attempt of level 0 ends that it is part of.
More(l) == attempt[l] < MaxAttempts
Again(l, end) ==
    \/ /\ More(l)
       /\ at' = "backoff" /\ level' = l
    \/ /\ ~More(l) /\ l = 1 /\ More(0)
       /\ at' = "backoff" /\ level' = 0
    \/ /\ ~More(l) /\ (l = 1 => ~More(0))
       /\ at' = end /\ level' = 0
Throw(l) == Again(l, "failed")

\* The backoff ends and the next attempt is made.
Retry ==
    /\ at = "backoff"
    /\ at' = "fetching" /\ attempt' = [attempt EXCEPT ![level] = @ + 1]
    /\ UNCHANGED <<level, hops, fetches, tokens, logins>>

\* ensureLoggedIn sends a login, awaits one of another call, or refuses to for
\* a while after one that failed.
EnsureLoggedIn == logins' \in {logins, logins + 1}

\* prepareRequest has cookies to send, from the jar or from a login.
Prepared ==
    /\ at = "preparing" /\ at' = "limited" /\ EnsureLoggedIn
    /\ UNCHANGED <<level, attempt, hops, fetches, tokens>>

\* The login fails, or its cookies have expired already: this is outside the
\* retry loop of the level, but a replay is inside that of level 0.
PrepareFails ==
    /\ at = "preparing" /\ EnsureLoggedIn
    /\ IF level = 0 THEN at' = "failed" /\ UNCHANGED level ELSE Throw(0)
    /\ UNCHANGED <<attempt, hops, fetches, tokens>>

\* The rate limiter lets the call pass to the first attempt of the retry loop.
Admitted ==
    /\ at = "limited"
    /\ at' = "fetching" /\ tokens' = tokens + 1
    /\ UNCHANGED <<level, attempt, hops, fetches, logins>>

\* The address is refused before anything is sent.
Blocked ==
    /\ at = "fetching" /\ hops = 0 /\ Throw(level)
    /\ UNCHANGED <<attempt, hops, fetches, tokens, logins>>

Fetch == at = "fetching" /\ fetches' = fetches + 1

\* The answer is a redirect, and it is followed.
MayFollow == hops < MaxRedirects
Redirected ==
    /\ Fetch /\ MayFollow /\ hops' = hops + 1
    /\ UNCHANGED <<at, level, attempt, tokens, logins>>

\* The answer is one to return: requestInternal returns through every level,
\* unless a retry loop has its status on the list.
Answered ==
    /\ Fetch /\ hops' = 0
    /\ (at' = "done" /\ UNCHANGED level) \/ Again(level, "done")
    /\ UNCHANGED <<attempt, tokens, logins>>

\* No answer, an error, or a redirect that is not followed: one too many,
\* without a location, or to an address that is refused.
Fails ==
    /\ Fetch /\ hops' = 0 /\ Throw(level)
    /\ UNCHANGED <<attempt, tokens, logins>>

\* The answer has one of reauth_on_statuses: the call of level 0 logs in again
\* (what a replay does is Fails).
AlwaysAgain == TRUE
MayReplay == level = 0
Refused ==
    /\ Fetch /\ hops' = 0 /\ MayReplay /\ at' = "relogin"
    /\ UNCHANGED <<level, attempt, tokens, logins>>

\* handleAuthFailure: the login succeeds and the call is replayed; or it fails,
\* and so does the attempt.
LoggedIn ==
    /\ at = "relogin" /\ EnsureLoggedIn
    /\ at' = "preparing" /\ level' = 1 /\ attempt' = [attempt EXCEPT ![1] = 1]
    /\ UNCHANGED <<hops, fetches, tokens>>
LoginFails ==
    /\ at = "relogin" /\ EnsureLoggedIn /\ Throw(0)
    /\ UNCHANGED <<attempt, hops, fetches, tokens>>

Ends ==
    \/ Prepared \/ PrepareFails \/ Blocked \/ Redirected \/ Answered \/ Fails
    \/ Refused \/ LoggedIn \/ LoginFails \/ Retry

Next == Admitted \/ Ends

Spec == Init /\ [][Next]_vars

----------------------------------------------------------------------------
(* Properties *)

\* The state is of its types; no loop makes more than max_attempts, and no
\* attempt follows more redirects than its limit.
TypeOK ==
    /\ at \in Place /\ level \in Level /\ attempt \in [Level -> 1 .. MaxAttempts]
    /\ hops \in 0 .. MaxRedirects /\ fetches \in Nat /\ tokens \in Nat /\ logins \in Nat

\* However redirects, refusals, failures and replays follow each other, no more
\* is sent than this: each attempt of the outer loop once and a full loop inside
\* it, each with its redirects; a login before the call, and for each attempt of
\* the outer loop one when it is refused and one when its replay finds no cookies;
\* and one token for the call and each replay (createRetryInterceptor,
\* requestInternal, prepareRequest).
WorkBounded ==
    /\ fetches <= MaxAttempts * (MaxAttempts + 1) * (MaxRedirects + 1)
    /\ logins <= 1 + 2 * MaxAttempts
    /\ tokens <= 1 + MaxAttempts
=============================================================================
