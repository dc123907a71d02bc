SPECIFICATION Spec
CONSTANTS
    Specs <- MCSpecs
    Trim <- MCTrim
    AnySpecs <- MCAnySpecs
    IpSpecs <- MCIpSpecs
    OwnIp = "wanip"
    Boxes <- MCBoxes
    Start = 1
    Gui = Gui
    Closed = Closed
    MaxCalls = 3
    MaxEdits = 1
    MaxKills = 1
INVARIANTS CompletedIsLive OthersKept HandleNamesOwnRule ListFaithful
CHECK_DEADLOCK FALSE
