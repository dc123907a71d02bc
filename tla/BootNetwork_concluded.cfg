SPECIFICATION Spec
CONSTANTS
    Config <- MCConfig
    Good <- MCGood
    Plan <- MCPlan
    Apply <- MCApply
    Offers <- MCOffers
    NoPlan = NoPlan
    NoCards = NoCards
    NoSnapshot = NoSnapshot
    BadSnapshot = BadSnapshot
    HasPassword = TRUE
    Faults = {"apply", "crash"}
    MaxFaults = 1
INVARIANTS ConcludedMeansReachable
