SPECIFICATION FairSpec
CONSTANTS
    SlotsPerEpoch = 2
    Blocks <- SkipBlocks
    BlockSlot <- SkipSlot
    Ancestry <- SkipAncestry
    Votes <- SkipVotes
    FirstHeads <- StartAtC2
    HeadStep <- BackHeadStep
    MaxFallback = 1
    LastSlot = 7
    LagSlots = 1
    RetryWindow = 2
    ScanLimit = 3
    GapLimit = 2
    DutyOutcomes <- CompleteDuties
    SlotOutcomes = {"partial", "covered"}
    Optimistic = {FALSE}
INVARIANTS IInv
PROPERTIES GapsHeal
