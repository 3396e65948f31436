\* Two steps of one name: loaded, and refused at every call.
SPECIFICATION ToolSpec
CONSTANTS
    MaxAttempts = 2
    MaxRedirects = 1
    Request = {r1}
    Max = 2
    Cost = 2
    MaxTime = 5
    Tools <- MCTools
    Kinds = {"object", "array", "value"}
    Profiles <- MCProfiles
    EnvFilters <- MCEnvFilters
    Headers <- MCHeaders
    Policies <- MCPolicies
    Category <- MCCategory
    Session = {s1}
    SignIn = {a}
    App = {k, m, p}
    OneApp = k
    StandIn = p
    Configured = {m, p}
    Renewal = {x, y}
    NoUser = NoUser
    AppOf <- MCAppOf
    Settings <- MCSettings
    MaxIdentities = 1
    MaxAnswers = 2
INVARIANTS LoadedRuns
CHECK_DEADLOCK FALSE
