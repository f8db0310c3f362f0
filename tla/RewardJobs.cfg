SPECIFICATION SettlingSpec
CONSTANTS
    g0 = g0
    c2 = c2
    a3 = a3
    a6 = a6
    b3 = b3
    b6 = b6
    b10 = b10
    Blocks <- Tree
    BlockSlot <- Slot
    Ancestry <- Chains
    FirstHeads <- Heads
    HeadStep <- ReturnSteps
    MaxFallback = 0
    SlotsPerEpoch = 2
    Epochs <- DutyEpochs
    ProposalSlots = {3}
    SyncSlots = {}
    LagSlots = 0
    RetryWindow = 2
    BatchLimit = 1
INVARIANTS IInv RewardInv StagedFromDependency CompletedRewardsOnChain
    CompletedBlockRewardsOnChain ExpiredAreGaps
PROPERTIES LedgerKept
