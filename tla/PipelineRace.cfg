SPECIFICATION SuiteSpec
CONSTANT
    Cases = {"superseded"}
    PolicyWorkers = {1, 2}
INVARIANT SupersessionHolds
CHECK_DEADLOCK FALSE
