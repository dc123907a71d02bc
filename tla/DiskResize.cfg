SPECIFICATION Spec
CONSTANTS
    Volumes <- MCVolumes
    MaxSize = 3
    MaxFaults = 2
INVARIANTS TypeOK
PROPERTIES PromiseKept RetryFills
