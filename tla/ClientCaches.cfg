SPECIFICATION Spec
CONSTANTS
    g0 = g0
    a2 = a2
    c3 = c3
    c4 = c4
    c6 = c6
    e6 = e6
    w1 = w1
    w2 = w2
    Blocks <- Tree
    BlockSlot <- Slot
    Ancestry <- Lines
    FirstHeads <- Heads
    HeadStep <- Steps
    MaxFallback = 0
    SlotsPerEpoch = 2
    Workers = {w1, w2}
    InputEpoch = 2
    Endpoints <- Inputs
    Null = Null
    Readers = {w1}
    ReadSlots = {2, 6}
    NoRoot = Null
INVARIANTS InputInv EntriesTrue ReturnsCanonical BlocksByRoot SlotRootsFinal
PROPERTIES InputsReturn
