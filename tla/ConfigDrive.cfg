SPECIFICATION Spec
CONSTANTS
    MaxVersion = 3
    MaxFaults = 3
INVARIANTS CacheWhole NeverForgets DriveWins MountAsFound
PROPERTIES PoisonHeals
