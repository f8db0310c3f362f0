CONSTANTS
    SlotsPerEpoch = 2
    BitsPerByte = 2
    MaxCommitteesPerSlot = 2
    NoSource = NoSource
    Null = Null
    v1 = v1
    v2 = v2
    u1 = u1
    u2 = u2
    u3 = u3
    Epoch = 2
    Tracked = {v1, v2}
    Committees <- MCCommittees
    Chains <- MCChains
    LiveChains <- MCLiveChains
    Leftovers <- MCLeftovers
    Legacy = {v1}
    Magnitude = 3
SPECIFICATION Spec
INVARIANTS IInv VotesDecoded RowsInv CompletedAttestationsTrue CompletedOutcomesTrue
PROPERTIES CompletedRowsFrozen ScanCompletes
CHECK_DEADLOCK FALSE
