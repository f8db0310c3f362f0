SPECIFICATION Spec
CONSTANTS
    SlotsPerEpoch = 2
    Blocks <- ForkBlocks
    BlockSlot <- ForkSlot
    Ancestry <- ForkAncestry
    Votes <- ForkVotes
    FirstHeads <- StartAtC2
    HeadStep <- ForkHeadStep
    MaxFallback = 1
    LastSlot = 10
    LagSlots = 1
    RetryWindow = 2
    ScanLimit = 3
    GapLimit = 1
    DutyOutcomes <- AttesterDuties
    SlotOutcomes = {"covered"}
    Optimistic = {TRUE, FALSE}
INVARIANTS InclusionInv RowsCollected CompletedEpochsWhole FinalProposalsReal
           FinalMissesReal FinalInclusionOnChain OneBranchCollected
PROPERTIES FinalRowsFrozen
