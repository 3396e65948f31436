--------------------------- MODULE MCHttpSessions ---------------------------
(* Instances of HttpSessions for TLC. *)
EXTENDS HttpSessions

Deployment(rotates, shared, validates, bearers) ==
    [rotates |-> rotates, shared |-> shared, validates |-> validates, bearers |-> bearers]

\* Clients whose requests carry no bearer, and clients that go on sending theirs
\* to a server that validates it.
MCDeployments ==
    { Deployment(TRUE, FALSE, FALSE, {"none"}), Deployment(TRUE, FALSE, TRUE, {"own"}) }

\* Clients that send the envelope their session was opened with each time.
MCOwnBearer == { Deployment(TRUE, FALSE, FALSE, {"own"}) }
=============================================================================
