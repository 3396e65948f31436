---------------------------- MODULE ProfileStates ----------------------------
(***************************************************************************)
(* How one profile of a routing server comes up with its first requests:   *)
(* the server promise of MCPServerManager (src/mcp/mcp-server-manager.ts)  *)
(* and the ProfileRuntimeState that HttpTransport.getProfileState builds   *)
(* and every session lives in (src/transport/http-transport.ts).           *)
(*                                                                         *)
(* Requests that find no state await the server's context; when it comes   *)
(* each goes on to build a state of its own, one after the other before    *)
(* any event (Turn).  A load balancer may hold requests back until the     *)
(* readiness probe succeeds (ProbeGated).                                       *)
(***************************************************************************)
EXTENDS Naturals, FiniteSets

CONSTANTS
    Request, Nobody,
    MaxSessions,   \* bound on the sessions made
    ProbeGated          \* requests are routed only to a server that is ready

ASSUME StartAssumption ==
    /\ IsFiniteSet(Request) /\ MaxSessions \in Nat /\ ProbeGated \in BOOLEAN

VARIABLES
    server,      \* the promise in MCPServerManager.servers
    creations,   \* how often createServer was called
    current,     \* the state in profileStates, by number
    states,      \* the number of states built
    sessions,    \* state -> its sessions
    made,        \* the number of sessions made
    known,       \* the sessions clients hold the id of
    request      \* the requests

startVars == <<server, creations, current, states, sessions, made, known, request>>

----------------------------------------------------------------------------
NoState == 0
State == 1 .. Cardinality(Request)
StateSession == 1 .. MaxSessions

RequestRecord ==
    [ at   : {"idle", "waiting", "handling"},
      uses : StateSession \cup {Nobody},     \* the session it names; Nobody: initialize
      held : State \cup {NoState} ]   \* the state it goes on with
NotAsking == [at |-> "idle", uses |-> Nobody, held |-> NoState]

StartInit ==
    /\ server = "none" /\ creations = 0
    /\ current = NoState /\ states = 0
    /\ sessions = [i \in State |-> {}] /\ made = 0 /\ known = {}
    /\ request = [r \in Request |-> NotAsking]

Waiting == {r \in Request : request[r].at = "waiting"}

\* No awaited promise is settled: the event loop takes the next event.
Turn == ~(server = "ready" /\ Waiting # {})

----------------------------------------------------------------------------
\* MCPServerManager.getServer: the promise is entered before it is awaited.
GetServerAnew ==
    /\ server' = IF server = "none" THEN "creating" ELSE server
    /\ creations' = IF server \in {"none", "creating"} THEN creations + 1 ELSE creations
GetServer ==
    /\ server' = IF server = "none" THEN "creating" ELSE server
    /\ creations' = IF server = "none" THEN creations + 1 ELSE creations

\* getProfileState finds the state in profileStates.
Existing == current # NoState

\* GET /ready
Ready == current # NoState
Routed == ProbeGated => Ready

\* A request that finds a state goes on with it.
Arrive(r, s) ==
    /\ Turn /\ Routed /\ request[r].at = "idle" /\ Existing
    /\ request' = [request EXCEPT ![r] = [at |-> "handling", uses |-> s, held |-> current]]
    /\ UNCHANGED <<server, creations, current, states, sessions, made, known>>

\* Any other awaits the server, or fails with a creation that has failed.
ArriveFirst(r, s) ==
    /\ Turn /\ Routed /\ request[r].at = "idle" /\ ~Existing /\ server # "failed"
    /\ states + Cardinality(Waiting) < Cardinality(Request)
    /\ GetServer
    /\ request' = [request EXCEPT ![r] = [NotAsking EXCEPT !.at = "waiting", !.uses = s]]
    /\ UNCHANGED <<current, states, sessions, made, known>>

\* The index page and the origin check ask for the context only.
AskContext ==
    /\ Turn /\ Routed /\ server = "none"
    /\ GetServer
    /\ UNCHANGED <<current, states, sessions, made, known, request>>

\* createServer ends; its failure reaches all who await it and stays.
ServerCreated ==
    /\ server = "creating" /\ server' = "ready"
    /\ UNCHANGED <<creations, current, states, sessions, made, known, request>>
CreationFails ==
    /\ server = "creating" /\ server' = "failed"
    /\ request' = [r \in Request |-> IF r \in Waiting THEN NotAsking ELSE request[r]]
    /\ UNCHANGED <<creations, current, states, sessions, made, known>>

\* getProfileState goes on in each that waited: builds a state and sets it,
\* whatever is there by now.
BuildStates ==
    LET n == Cardinality(Waiting) IN
    /\ ~Turn
    /\ \E nth \in [Waiting -> 1 .. n] :
         /\ \A p, q \in Waiting : nth[p] = nth[q] => p = q
         /\ request' = [r \in Request |->
                          IF r \in Waiting
                          THEN [request[r] EXCEPT !.at = "handling", !.held = states + nth[r]]
                          ELSE request[r]]
    /\ states' = states + n /\ current' = states'
    /\ UNCHANGED <<server, creations, sessions, made, known>>

----------------------------------------------------------------------------
(* Handlers, with the state they hold *)

\* initialize makes a session.
Initialize(r) ==
    /\ Turn /\ request[r].at = "handling" /\ request[r].uses = Nobody /\ made < MaxSessions
    /\ made' = made + 1 /\ known' = known \cup {made'}
    /\ sessions' = [sessions EXCEPT ![request[r].held] = @ \cup {made'}]
    /\ request' = [request EXCEPT ![r] = NotAsking]
    /\ UNCHANGED <<server, creations, current, states>>

\* A request of a session is served, or answered 404: the client forgets it.
UseSession(r) ==
    LET s == request[r].uses IN
    /\ Turn /\ request[r].at = "handling" /\ s # Nobody
    /\ known' = IF s \in sessions[request[r].held] THEN known ELSE known \ {s}
    /\ request' = [request EXCEPT ![r] = NotAsking]
    /\ UNCHANGED <<server, creations, current, states, sessions, made>>

\* DELETE and cleanupExpiredSessions end sessions of the state in
\* profileStates.
EndSession(s) ==
    /\ Turn /\ current # NoState /\ s \in sessions[current]
    /\ sessions' = [sessions EXCEPT ![current] = @ \ {s}]
    /\ UNCHANGED <<server, creations, current, states, made, known, request>>

StartNext ==
    \/ \E r \in Request : \E s \in known \cup {Nobody} : Arrive(r, s) \/ ArriveFirst(r, s)
    \/ \E r \in Request : Initialize(r) \/ UseSession(r)
    \/ AskContext \/ ServerCreated \/ CreationFails \/ BuildStates
    \/ \E s \in StateSession : EndSession(s)

StartSpec == StartInit /\ [][StartNext]_startVars

\* Files are read to their end, handlers that go on run, and clients that are
\* let through keep coming.
StartFairness ==
    /\ WF_startVars(ServerCreated \/ CreationFails) /\ WF_startVars(BuildStates)
    /\ \A r \in Request : WF_startVars(Arrive(r, Nobody) \/ ArriveFirst(r, Nobody))
StartFairSpec == StartSpec /\ StartFairness

----------------------------------------------------------------------------
(* Properties *)

\* The state is of its types; sessions are in one state each, among those
\* built, and a handler runs with such a state in its hands.
StartTypeOK ==
    /\ server \in {"none", "creating", "ready", "failed"} /\ creations \in Nat
    /\ states \in 0 .. Cardinality(Request) /\ current \in 0 .. states
    /\ sessions \in [State -> SUBSET (1 .. made)] /\ made \in 0 .. MaxSessions
    /\ known \subseteq 1 .. made /\ request \in [Request -> RequestRecord]
    /\ \A i, j \in State : i # j => sessions[i] \cap sessions[j] = {}
    /\ \A i \in State : sessions[i] # {} => i <= states
    /\ \A r \in Request :
         /\ request[r].held <= states
         /\ request[r].at = "handling" <=> request[r].held # NoState

\* Whoever asks for the profile's server while it is being created shares the
\* creation: a profile is loaded once (MCPServerManager.getServer).
OneServer == creations <= 1

\* Once a state is in profileStates it stays: nobody replaces the sessions it
\* holds (getProfileState).
StateStays == [][current # NoState => current' = current]_startVars

\* Every session is in the state that cleanupExpiredSessions walks and that
\* requests look sessions up in: "Prevent memory leaks, enforce session
\* timeout".
NoOrphans == \A i \in State : sessions[i] # {} => i = current

\* A server whose probe "gates Kubernetes readinessProbe and load balancer
\* traffic" becomes ready, or its profile has failed to load (GET /ready).
BecomesReady == <>(Ready \/ server = "failed")
=============================================================================
