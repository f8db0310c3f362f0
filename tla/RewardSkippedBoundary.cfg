SPECIFICATION Spec
CONSTANTS
    g0 = g0
    c2 = c2
    a3 = a3
    a6 = a6
    b3 = b3
    b6 = b6
    b10 = b10
    Blocks <- SkippedTree
    BlockSlot <- SkippedSlot
    Ancestry <- SkippedChains
    FirstHeads <- Heads
    HeadStep <- Steps
    MaxFallback = 0
    SlotsPerEpoch = 2
    Epochs <- DutyEpochs
    ProposalSlots = {}
    SyncSlots = {}
    LagSlots = 0
    RetryWindow = 2
    BatchLimit = 1
INVARIANTS CompletedRewardsOnChain
