\* Two stores of one file, an acceptance and a revocation in two lines.  Apart
\* from it: two replicas, a subject with two browsers, two calls, a login that is
\* parked, an acceptance from before, a revocation.  Apart from both: two subjects,
\* two sessions, two checks, a tracker of two entries.
SPECIFICATION MCSpec
CONSTANTS
    Store = {p, q}
    None = None
    Acceptances <- MCAcceptances
    Revocations = {1}
    MaxLines = 2
    Subject = {u}
    Browser = {a, b}
    Replica = {r, s}
    GateCall = {c, d}
    Absent = Absent
    Pending = {m}
    Rules <- MCVersions
    Histories <- MCHistories
    MaxAge = 0
    MaxReading = 1
    MaxRows = 3
    MaxRevocations = 1
    MaxLookups = 1
    Person = {x, y}
    Nobody = Nobody
    Connection = {k, l}
    Check = {q1, q2}
    Nothing = Nothing
    TrackerMax = 2
    Flow = {f}
    Client = {k, l}
    NoClient = NoClient
    Shared = k
    Dynamic = {l}
    Callback <- MCCallbacks
    Configured <- MCConfigured
    AllowedHosts <- MCAllowed
    Approved <- MCApproved
    AllowsUnregistered = TRUE
    MaxCallbacks = 2
    Width = 3
SYMMETRY Symmetry
INVARIANTS
    AcknowledgedSeen
    ConsentWasShown
    AnsweredOnce
    RevocationHolds
    RefusalOwed
    TargetsTrusted
PROPERTY
    IndexIsFile
CHECK_DEADLOCK FALSE
