SPECIFICATION Spec
CONSTANTS
    Callers = {"telemetry", "command"}
    Metrics = {"telemetry"}
    Devices = {"vda"}
    Word = 16
    Nil = Nil
    MaxTime = 3
    MaxCount = 2
    MaxGen = 1
INVARIANTS RateIsGrowth NeverCountedTwice
