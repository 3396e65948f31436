\* Two requests, two tokens, one failure or change of the tool list.
SPECIFICATION FairSpec
CONSTANTS
    Session = {s1}
    Call = {c1, c2}
    Token = {t1, t2}
    None = None
    ProviderAuth = TRUE
    MaxEvents = 1
INVARIANTS
    NoLeakedTransport
    OwnTokenOnly
PROPERTY
    RequestSettles
CHECK_DEADLOCK FALSE
