SPECIFICATION Spec
CONSTANTS
    SlotsPerEpoch = 2
    Blocks <- LineBlocks
    BlockSlot <- LineSlot
    Ancestry <- LineAncestry
    Votes <- LineVotes
    FirstHeads <- StartAtC3
    HeadStep <- LineHeadStep
    MaxFallback = 1
    LastSlot = 10
    LagSlots = 0
    RetryWindow = 3
    ScanLimit = 3
    GapLimit = 2
    DutyOutcomes <- CompleteDuties
    SlotOutcomes = {"covered"}
    Optimistic = {FALSE}
INVARIANTS CompletedInclusionFirst
