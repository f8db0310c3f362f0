SPECIFICATION Spec
CONSTANTS
    SlotsPerEpoch = 2
    Blocks <- SkipBlocks
    BlockSlot <- SkipSlot
    Ancestry <- SkipAncestry
    Votes <- SkipVotes
    FirstHeads <- StartAtC2
    HeadStep <- SkipHeadStep
    MaxFallback = 1
    LastSlot = 7
    LagSlots = 1
    RetryWindow = 2
    ScanLimit = 3
    GapLimit = 2
    DutyOutcomes <- CompleteDuties
    SlotOutcomes = {"covered"}
    Optimistic = {FALSE}
INVARIANTS CoveredSlotsReconciled
