SPECIFICATION TimedSpec
CONSTANTS
    v1 = v1
    v2 = v2
    Validators <- TwoValidators
    LastEpoch = 2
    Activation <- Joins
    Exit <- Leaves
    Unservable <- OneLost
    DepthFloor = 1
    NonContiguous = {FALSE, TRUE}
    Modes = {"both", "backfill"}
    TrackingStart = 0
    RepairLimit = 1
    MaxDoublings = 1
    MaxDelay = 2
INVARIANTS TypeOK EpochsAccounted HistorySwept WatermarkProven
PROPERTIES LedgerKept AttemptsGoOn GapsRepaired HistoryFinishes
