SPECIFICATION LiveSpec
CONSTANTS
    Cases = {"closure", "returned", "stopped", "calls"}
    Deliveries <- OneDelivery
    Version <- OneVersion
    LimitChoices <- NarrowLimits
    Environment = {"expire", "cancel", "terminate", "observe"}
    MaxEpoch = 1
    MaxFence = 2
    MaxEvents = 1
    MaxConfigure = 1
PROPERTY CapacityReturned
CHECK_DEADLOCK FALSE
