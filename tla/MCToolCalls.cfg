\* Two attempts a loop, a redirect each, two tokens of two ticks a minute, on both buckets;
\* three steps with every dependency; three tools of every mixture;
\* one login with two refreshes at a time, two answers to them, room for one identity.
SPECIFICATION ToolSpec
CONSTANTS
    MaxAttempts = 2
    MaxRedirects = 1
    Request = {r1}
    Max = 2
    Cost = 2
    MaxTime = 4
    Tools <- MCTools
    Kinds = {"object", "array", "value"}
    Profiles <- MCProfiles
    EnvFilters <- MCEnvFilters
    Headers <- MCHeaders
    Policies <- MCPolicies
    Category <- MCCategory
    Session = {s1}
    SignIn = {a}
    App = {k, m, p}
    OneApp = k
    StandIn = p
    Configured = {m, p}
    Renewal = {x, y}
    NoUser = NoUser
    AppOf <- MCAppOf
    Settings <- MCSettings
    MaxIdentities = 1
    MaxAnswers = 2
SYMMETRY Symmetry
INVARIANTS WorkBounded TwiceTheRate DependenciesFirst BodyKept ReachKept IdentityBound
CHECK_DEADLOCK FALSE
