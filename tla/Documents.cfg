SPECIFICATION SuiteSpec
CONSTANTS
    Cases = {"slot", "versions", "queues", "workflow", "decisions", "mints", "revisions", "batches",
             "reports"}
    Deliveries <- FourDeliveries
    Version <- SharedVersion
    LimitChoices <- AllLimits
    Environment = {"expire", "cancel", "withdraw", "acknowledge", "terminate", "observe", "gap"}
    MaxEpoch = 1
    MaxFence = 2
    MaxEvents = 1
    MaxConfigure = 1
INVARIANTS AdmissionSound OneLiveSlot WorkersHoldCapacity AnswersHonest
PROPERTIES WithinLimits ReplacementSpared CommitsPermitted
CHECK_DEADLOCK FALSE
