SPECIFICATION FairSessionSpec
CONSTANTS
    r1 = r1
    r2 = r2
    Requests = {r1, r2}
    MaxFlows = 2
    NoFlow = NoFlow
    NoToken = NoToken
    MaxRefreshes = 2
    MaxBreaks = 1
INVARIANTS SessionTypeOK SignedOutStaysOut SerialSessionIsLive
PROPERTIES SessionHeals
CHECK_DEADLOCK FALSE
