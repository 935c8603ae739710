SPECIFICATION SuiteSpec
CONSTANT
    Cases = {"seal", "budget", "leaks", "singles", "mixed", "convert", "stream", "batch", "local", "vectors", "parts", "sage", "job", "fencing", "replay", "control", "external", "stages"}
    Budget = 2
    MaxBurn = 3
    MaxWrites = 2
    CallerDeadline = TRUE
    SlowTeardown = TRUE
    MaxFaults = 1
    Runners = {"r1", "r2", "r3"}
    KeyOf <- KeyOfRunner
    OwnerOf <- SameOwner
    Skew <- FirstBehind
    Returns <- AnyResult
    MaxItems = 2
    MaxElapsed = 3
    LeaseDuration = 2
    RenewInterval = 1
    Cancellable = {"r1"}
    Changes = {"running", "cancelling", "cancelled", "complete", "failed", "ready"}
    LastStart = 5
    MaxTime = 5
INVARIANTS AttemptContained OutputContained WorkAccounted RunsAccounted
PROPERTIES LateStepsHarmless
CHECK_DEADLOCK FALSE
