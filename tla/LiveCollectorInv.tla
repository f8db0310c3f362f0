-------------------------- MODULE LiveCollectorInv --------------------------
(***************************************************************************)
(* The inductive invariant of LiveCollector.  Model checking confirms it   *)
(* on the instances of MCLiveCollector, LiveCollectorProofs proves it for  *)
(* all of them.                                                            *)
(***************************************************************************)
EXTENDS LiveCollector

EpochOf(b) == SlotToEpoch(BlockSlot[b])

\* The finalized root is on the head's chain at its epoch's first slot, and the
\* head is within the fallback bound.
NodeInv ==
    /\ IsAncestorAt(finRoot, head, EpochStartSlot(finEpoch))
    /\ EpochOf(head) <= peakEpoch
    /\ peakEpoch <= EpochOf(head) + MaxFallback

\* The checkpoint a poll works with is final for the node too, with the same
\* root: a poll may be overtaken by finality but never contradicts it.
CheckpointInv ==
    pc # "idle" =>
        /\ EpochOf(tip) <= peakEpoch
        /\ chkpt <= finEpoch
        /\ \A r \in Blocks : IsAncestorAt(r, tip, EpochStartSlot(chkpt))
              => IsAncestorAt(r, finRoot, EpochStartSlot(chkpt))

\* Coverage lies below the cursor.  A cursor is forgotten only when nothing is
\* covered or all coverage lies before the retry window of the peak.
CursorInv ==
    /\ pc = "oldBranch" => next # 0 /\ next <= Floor
    /\ \A s \in cover :
          /\ next # 0 \/ pc = "collect" => s < next
          /\ next = 0 => SlotToEpoch(s) + RetryWindow < peakEpoch
          /\ next = 0 /\ pc # "idle" => SlotToEpoch(s) < EpochOf(tip)

\* What a scan works on: slots not yet covered, none below the floor, whose
\* blocks on the tip's chain are all resolved.
ScanInv ==
    /\ pc = "collect" =>
        /\ resolved \subseteq Ancestry[tip]
        /\ \A s \in todo :
              /\ s \notin cover
              /\ s >= Floor
              /\ \A x \in Ancestry[tip] : BlockSlot[x] = s => x \in resolved
    /\ OneBranchCollected

\* A covered slot whose row says "missed" has no recorded block.
SlotEvidence ==
    \A s \in cover \ slotFinal : slotRow[s] = "missed" => \A b \in stored : BlockSlot[b] # s

\* The votes of the recorded block of a covered slot are in the rows.
VoteEvidence ==
    \A b \in stored : BlockSlot[b] \in cover =>
        \A e \in (Epochs \cap Votes[b]) \ attFinal :
            InVoteWindow(e, BlockSlot[b]) => inclusion[e] \in Blocks

\* What is final lies before the node's finalized epoch.
FinalInv ==
    /\ \A s \in slotFinal : SlotToEpoch(s) < finEpoch
    /\ \A e \in attFinal : inclusion[e] # NoRow
    /\ \A e \in attFinal : inclusion[e] = NotIncluded => e + 2 <= finEpoch

IInv ==
    /\ TypeOK
    /\ NodeInv
    /\ CheckpointInv
    /\ CursorInv
    /\ ScanInv
    /\ SlotEvidence
    /\ VoteEvidence
    /\ FinalInv
    /\ FinalMissesReal

\* Coverage is evidence of a row: a slot is covered, or final, only with its row
\* written, and a rollback takes back both or neither.
RowsCollected == \A s \in cover \cup slotFinal : slotRow[s] # "none"

---------------------------------------------------------------------------
(* Inclusions where votes settle *)

\* A condition on the head changes of an instance: the head's epoch does not fall, and
\* the head does not leave a block with a tracked vote once it is in a later epoch.
\* Without it two reorgs in a row leave an inclusion behind (LiveTwoReorgs).
VotesSettle ==
    \A step \in HeadStep :
        /\ EpochOf(step[1]) <= EpochOf(step[2])
        /\ \A x \in Ancestry[step[1]] :
              Votes[x] # {} /\ EpochOf(x) < EpochOf(step[1]) => x \in Ancestry[step[2]]

\* The epoch a poll works at, or the next one would.
PollEpoch == IF pc = "idle" THEN EpochOf(head) ELSE EpochOf(tip)

\* Settled where votes settle.
Settled(x) == x \in Ancestry[head] /\ EpochOf(x) < EpochOf(head)

\* The head that a poll has read may have been left, the votes of its earlier epochs not.
HeadInv ==
    /\ PollEpoch <= EpochOf(head)
    /\ pc # "idle" =>
          \A x \in Ancestry[tip] : Votes[x] # {} /\ EpochOf(x) < EpochOf(tip) => x \in Ancestry[head]

\* Nothing is recorded, covered or planned beyond the head, nor two blocks of a slot.
ReachInv ==
    /\ \A b \in stored : EpochOf(b) <= PollEpoch
    /\ \A b, c \in stored : BlockSlot[b] = BlockSlot[c] => b = c
    /\ \A s \in cover : SlotToEpoch(s) <= PollEpoch
    /\ SlotToEpoch(next) <= PollEpoch + 1
    /\ pc = "collect" =>
          /\ SlotToEpoch(walkStart) <= PollEpoch
          /\ \A s \in todo : s <= HeadSlot

\* Behind all that a poll, now or later, looks at, and not recorded.
Behind(x) ==
    /\ EpochOf(x) + RetryWindow < PollEpoch
    /\ \A b \in stored : BlockSlot[b] # BlockSlot[x]

\* The block of an inclusion that is not final is recorded, or a rollback took its record
\* back and the head will not leave it, or no record will appear in its slot.
RowInv ==
    \A e \in Epochs : inclusion[e] \in Blocks =>
        /\ e \in Votes[inclusion[e]]
        /\ InVoteWindow(e, BlockSlot[inclusion[e]])
        /\ e \notin attFinal =>
              inclusion[e] \in stored \/ Settled(inclusion[e]) \/ Behind(inclusion[e])

\* Where votes settle, the block of an inclusion is the one that is confirmed in its slot.
InclusionInv ==
    /\ HeadInv
    /\ ReachInv
    /\ RowInv
    /\ FinalInclusionOnChain
=============================================================================
