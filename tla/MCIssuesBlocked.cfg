\* An issue whose command asked for help.
SPECIFICATION AgentsSpec
CONSTANTS
    k = k
    Issue <- Numbers
    Text <- Texts
    Key = {k}
    Kin <- Unlike
    LeaseTtl = 1
    MaxTime = 3
    MaxCrashes = 1
    MaxActs = 1
    MaxHeads = 2
    ReviewTtl = 1
    MaxReplies = 1
    MaxHumanActs = 1
    MaxDeaths = 1
    MayReturn = FALSE
CHECK_DEADLOCK FALSE
PROPERTIES BlockedWaitsForHuman
