\* No cap, no expiry, no restart: one family, four redemptions.
SPECIFICATION FairSpec
CONSTANTS
    Family = {f1}
    Call = {c1, c2, c3, c4}
    Root = Root
    None = None
    MaxFamilies = 1
    MaxRevoked = 1
    Ttl = 3
    Grace = 1
    MaxLeg = 2
    MaxTime = 2
    MaxRestarts = 0
INVARIANTS
    UnusedTokenRedeemable
PROPERTIES
    ImplementsChain
    RedemptionSettles
CHECK_DEADLOCK FALSE
