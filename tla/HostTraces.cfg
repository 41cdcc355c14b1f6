\* Two traces in a row, or one with both backends.
CONSTANTS
    Plans <- MCPlans
    MaxTraces = 2
    IdleLoops = 1
    QueueSize = 2
    MaxFaults = 1
    Other = Other
    Failed = Failed
SPECIFICATION FairSpec
INVARIANTS TypeOK OwnFilesOnly CommandsAreTraced NothingLeft
PROPERTY EndsInSilence
CHECK_DEADLOCK FALSE
