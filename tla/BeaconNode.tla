----------------------------- MODULE BeaconNode -----------------------------
(***************************************************************************)
(* The beacon node as the indexer uses it: a tree of blocks, the head the  *)
(* node's fork choice selects, and a finalized checkpoint.  The node is    *)
(* external; this module states only what the code in src/ relies on:      *)
(*                                                                         *)
(*  - a block is immutable and named by its root (a block *is* its root    *)
(*    here), so a parent walk from a named root always gives one chain;    *)
(*  - the head may move to any block of `HeadStep`, also to a competing    *)
(*    branch and also to a lower slot, but never off the finalized chain   *)
(*    and never more than `MaxFallback` epochs below the highest epoch it  *)
(*    had, a bound the worker's window relies on (see LiveCollector);      *)
(*  - the finalized checkpoint (epoch, root) only advances, along the      *)
(*    chain of the head, and at least `FinalityDistance` epochs behind it. *)
(***************************************************************************)
EXTENDS Chain

CONSTANTS
    Blocks,     \* block roots
    BlockSlot,  \* [Blocks -> Nat]: the slot of a block
    Ancestry,   \* [Blocks -> SUBSET Blocks]: a block and all its ancestors
    FirstHeads, \* the heads the node may report when the indexer starts
    HeadStep,   \* the head changes of this instance: pairs <<from, to>>
    MaxFallback \* how many epochs the head may fall back

ASSUME BlockSlotAssumption == BlockSlot \in [Blocks -> Nat]

\* Ancestries are chains: reflexive, transitive, and totally ordered by slot.
ASSUME AncestryAssumption ==
    /\ Ancestry \in [Blocks -> SUBSET Blocks]
    /\ \A b \in Blocks : b \in Ancestry[b]
    /\ \A b \in Blocks : \A x \in Ancestry[b] : Ancestry[x] \subseteq Ancestry[b]
    /\ \A b \in Blocks : \A x, y \in Ancestry[b] :
            BlockSlot[x] <= BlockSlot[y] <=> x \in Ancestry[y]
    /\ \A b \in Blocks : \A x, y \in Ancestry[b] : BlockSlot[x] = BlockSlot[y] => x = y

ASSUME HeadAssumption ==
    /\ FirstHeads \subseteq Blocks
    /\ HeadStep \subseteq Blocks \X Blocks
    /\ MaxFallback \in Nat

\* Two checkpoints of supermajority links separate a finalized epoch from the
\* epoch of the head whose state reports it.
FinalityDistance == 2

VARIABLES
    head,      \* the node's canonical head
    peakEpoch, \* the highest epoch the head has reached (history)
    finEpoch,  \* epoch of the node's finalized checkpoint
    finRoot    \* its root: the last canonical block at or before the epoch start

nodeVars == <<head, peakEpoch, finEpoch, finRoot>>

\* The last block of b's chain at or before a slot (a state's block root).
IsAncestorAt(x, b, slot) ==
    /\ x \in Ancestry[b]
    /\ BlockSlot[x] <= slot
    /\ \A y \in Ancestry[b] : BlockSlot[y] <= slot => BlockSlot[y] <= BlockSlot[x]

Canonical(b) == b \in Ancestry[head]

NodeTypeOK ==
    /\ head \in Blocks
    /\ peakEpoch \in Nat
    /\ finEpoch \in Nat
    /\ finRoot \in Blocks

NodeInit ==
    /\ head \in FirstHeads
    /\ peakEpoch = SlotToEpoch(BlockSlot[head])
    /\ finEpoch = 0
    /\ IsAncestorAt(finRoot, head, 0)

\* A new block, a reorg to another branch, or a fall-back to an earlier block.
MoveHead(b) ==
    /\ <<head, b>> \in HeadStep
    /\ EpochStartSlot(finEpoch) <= BlockSlot[b]
    /\ IsAncestorAt(finRoot, b, EpochStartSlot(finEpoch))
    /\ peakEpoch <= SlotToEpoch(BlockSlot[b]) + MaxFallback
    /\ head' = b
    /\ peakEpoch' = Greater(peakEpoch, SlotToEpoch(BlockSlot[b]))
    /\ UNCHANGED <<finEpoch, finRoot>>

\* The checkpoint of the head's chain advances to a later epoch.
AdvanceFinality(e, r) ==
    /\ e > finEpoch
    /\ e + FinalityDistance <= SlotToEpoch(BlockSlot[head])
    /\ IsAncestorAt(r, head, EpochStartSlot(e))
    /\ finEpoch' = e
    /\ finRoot' = r
    /\ UNCHANGED <<head, peakEpoch>>

NodeNext ==
    \/ \E b \in Blocks : MoveHead(b)
    \/ \E e \in 0..SlotToEpoch(BlockSlot[head]), r \in Blocks : AdvanceFinality(e, r)

============================================================================
