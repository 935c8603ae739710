SPECIFICATION LiveSpec
CONSTANT
    Cases = {"fetching", "recording", "settling", "healing", "backfill", "repair"}
    PolicyWorkers = {1}
PROPERTY WorkDelivered
CHECK_DEADLOCK FALSE
