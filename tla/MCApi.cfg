\* Two requests read and write; cookies expire, are revoked and renewed.  Apart
\* from it: two requests for one URL of two versions, three policies, three kinds
\* of headers, entries that live for one tick.
SPECIFICATION ClientSpec
CONSTANTS
    Request = {r1, r2}
    None = None
    MaxChanges = 2
    Methods = {"read", "write"}
    KeyHasCookie = TRUE
    Url = {u}
    Reading = {q1, q2}
    Nothing = Nothing
    Policies <- MCPolicies
    Heads <- MCHeads
    Absent = Absent
    Garbled = Garbled
    MaxVersions = 2
    MaxAge = 1
INVARIANTS
    NoJoinAcrossWrite
    AnswersFresh
PROPERTY
    RequestCompletes
CHECK_DEADLOCK FALSE
