SPECIFICATION Spec
CONSTANTS
    Msgs <- AllMsgs
    KnownOperations <- MCKnown
    AllowedOperations <- MCAllowed
    ActionOperations <- MCActions
    JobOperations <- MCJobs
    MaxSends = 2
    InboxMax = 1
    BufMax = 1
    Evt = Evt
    NoMsg = NoMsg
    Word = 32
    Second = 3
    Requests <- MCRequests
    Configured = 9
    Empty = Empty
INVARIANTS TypeOK StatusTruthful OncePerSend
PROPERTIES AnsweredUnlessWedged
