SPECIFICATION LiveSpec
CONSTANT
    Cases = {"returns", "convert", "reading", "embedding", "ocrjob", "runners", "refresh"}
    Budget = 2
    MaxBurn = 3
    MaxWrites = 2
    CallerDeadline = TRUE
    SlowTeardown = TRUE
    MaxFaults = 1
    Runners = {"r1", "r2", "r3"}
    KeyOf <- KeyOfRunner
    OwnerOf <- SameOwner
    Skew <- FirstBehind
    Returns <- AnyResult
    MaxItems = 2
    MaxElapsed = 3
    LeaseDuration = 2
    RenewInterval = 1
    Cancellable = {"r1"}
    Changes = {"running", "cancelling", "cancelled", "complete", "failed", "ready"}
    LastStart = 5
    MaxTime = 5
PROPERTY WorkersEnd
CHECK_DEADLOCK FALSE
