---------------------------- MODULE MCApiRequests ----------------------------
(* Two views of an HttpClient's cache, each going its way alone: the requests  *)
(* that share fetches and logins, and the headers by which responses are kept. *)
EXTENDS ApiRequests, CacheFreshness

\* A private cache, since there are credentials; public ones without and with.
Setting(scope, credentials, shares) == [scope |-> scope, auth |-> credentials, shares |-> shares, ttl |-> 1]
MCPolicies == {Setting("auto", TRUE, FALSE), Setting("public", FALSE, FALSE), Setting("public", TRUE, TRUE)}

\* A response that lives for a tick; one to be revalidated; one that is private,
\* with a life that only a shared cache must make sense of.
Plain == [ noStore |-> FALSE, noCache |-> FALSE, private |-> FALSE, validator |-> FALSE,
           cookie |-> FALSE, vary |-> "nothing", shared |-> Absent, own |-> 1, expires |-> Absent ]
MCHeads ==
    { Plain,
      [Plain EXCEPT !.noCache = TRUE, !.validator = TRUE, !.vary = "listed", !.own = 0],
      [Plain EXCEPT !.private = TRUE, !.cookie = TRUE, !.shared = Garbled, !.own = Absent, !.expires = 1] }


VARIABLE part
clientVars == <<vars, cacheVars, part>>

ClientInit ==
    /\ part \in {"requests", "freshness"}
    /\ Init /\ FreshnessInit
    /\ part = "requests" => policy = Setting("auto", TRUE, FALSE)
ClientNext ==
    \/ part = "requests" /\ Next /\ UNCHANGED <<cacheVars, part>>
    \/ part = "freshness" /\ FreshnessNext /\ UNCHANGED <<vars, part>>

\* Fairness of ApiRequests, in its part.
Run(A) == part = "requests" /\ A /\ UNCHANGED <<cacheVars, part>>
ClientFairness ==
    /\ SF_clientVars(Run(LoggedIn \/ LoginFails))
    /\ \A r \in Request :
          /\ WF_clientVars(Run(RunsOn(r))) /\ SF_clientVars(Run(Fetched(r) \/ Response(r)))
          /\ SF_clientVars(Run(Reported(r)))
ClientSpec == ClientInit /\ [][ClientNext]_clientVars /\ ClientFairness
=============================================================================
