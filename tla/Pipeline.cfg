SPECIFICATION SuiteSpec
CONSTANT
    Cases = {"plans", "files", "sweeps", "settled", "partial", "tree", "family", "lock", "superseded", "graph", "replaces"}
    PolicyWorkers = {1}
INVARIANTS FetchedWhole ValidityAgrees
PROPERTIES TreeKept RelationsKept
CHECK_DEADLOCK FALSE
