SPECIFICATION Spec
CONSTANTS
    Config <- MCConfig
    Good <- MCGood
    Plan <- MCPlan
    Apply <- MCApply
    Offers <- MCOffers
    NoPlan = NoPlan
    NoCards = NoCards
    NoSnapshot = NoSnapshot
    BadSnapshot = BadSnapshot
    HasPassword = TRUE
    Faults = {"nics", "snapshot", "badSnapshot", "apply", "garbled", "outage", "restore", "marker", "crash", "password"}
    MaxFaults = 3
INVARIANTS TypeOK RevertUndoes StaysReachable VerifiedMeansApplied
PROPERTIES AtomicBoot OneShot RetriesUntilMarked PasswordReapplied
