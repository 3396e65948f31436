\* Two requests of one session, in two deployments (no symmetry: liveness).
SPECIFICATION Spec
CONSTANTS
    Session = {s1}
    Request = {r1, r2}
    None = None
    MaxGrants = 2
    MaxRestarts = 1
    Deployments <- MCDeployments
INVARIANTS
    SpendsOnce
    FreshBearerServed
PROPERTIES
    RequestAnswered
    IdleSessionEnds
CHECK_DEADLOCK FALSE
