SPECIFICATION Spec
CONSTANTS
    SlotsPerEpoch = 2
    Blocks <- TwiceBlocks
    BlockSlot <- TwiceSlot
    Ancestry <- TwiceAncestry
    Votes <- TwiceVotes
    FirstHeads <- StartAtC2
    HeadStep <- TwiceHeadStep
    MaxFallback = 1
    LastSlot = 10
    LagSlots = 0
    RetryWindow = 2
    ScanLimit = 3
    GapLimit = 2
    DutyOutcomes <- CompleteDuties
    SlotOutcomes = {"covered"}
    Optimistic = {FALSE}
INVARIANTS FinalInclusionOnChain
