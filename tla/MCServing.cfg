\* A store of two for three clients and two gated flows; first requests of a profile; resumes with the event read last;
\* two exchanges of two assertions for one entry, and a login, over keys that rotate once;
\* two tenants, and one session of the profile; two sessions, one initialize at a time, with an
\* OAuth token of the server, another's token and a key.
SPECIFICATION ServingSpec
CONSTANTS
    Client = {p, c1, c2}
    Flow = {f1, f2}
    Session = {s1}
    None = None
    Static = {p}
    Initial = {p}
    MaxClients = 2
    Gated = TRUE
    Returns = FALSE
    Request = {r1, r2, r3}
    Nobody = Nobody
    MaxSessions = 2
    ProbeGated = FALSE
    QueueMax = 3
    BufferMax = 2
    MaxNotices = 5
    MaxPostId = 3
    MaxHalfOpen = 2
    TracksPosts = FALSE
    Exchange = {x, y}
    Login = {l}
    Assertion = {a, b}
    Kid = {k1, k2}
    NoAssertion = NoAssertion
    MaxAge = 0
    Skew = 1
    ReplayTtl = 3
    MaxEntries = 1
    KeyTtl = 1
    BackOff = 1
    MemoTtl = 2
    MaxSlots = 2
    MaxAsks = 2
    MaxRotations = 1
    MaxFaults = 1
    TenantId = {"t", "u"}
    Url <- Urls
    TenantLists <- Lists
    ProfileAuth <- ProfileAuths
    ProfileOAuth = TRUE
    Visit = {v1}
    NoTenant = NoTenant
    Token = {own, other, key}
    NoToken = NoToken
    BearerToken = {own, other}
    ApiKey = {key}
    OwnToken = {own}
    Seat = {s1, s2}
    Opening = {o1}
    Settings <- AdmissionSettings
    Width = 2
    Browsing = {b1, b2}
    ClientKey = {k}
    Profile = {"p1", "p2"}
    NoProfile = NoProfile
    Unresolved = Unresolved
    Origin <- Origins
    NoOrigin = NoOrigin
    Exists = {"p1"}
    Operational = {"p1"}
    Redirect <- RedirectsOf
    Uncached = Uncached
    Sites <- OriginSites
INVARIANTS CountersExact OneServer Delivered SlotsExact TenantsKeptApart AdmittedRight OriginsJudged
PROPERTIES TrustEnds LoginServed
CHECK_DEADLOCK FALSE
