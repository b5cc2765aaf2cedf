SPECIFICATION SafeSpec
CONSTANTS
    MaxJobs = 3
    MaxCancels = 1
    w1 = w1
    w2 = w2
    Workers <- MCWorkers
    Ids <- MCOneId
    StringId = StringId
    NoId = NoId
    Coordinator = Coordinator
    NoJob = NoJob
SYMMETRY MCSymmetry
INVARIANTS
    SingleOwner
    RepliedOnce
    ServedInArrivalOrder
    RefusedOnlyIfAsked
    CancelHonoured
    DrainedAtExit
