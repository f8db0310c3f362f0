------------------------- MODULE LiveCollectorProofs -------------------------
(***************************************************************************)
(* Proofs about the live worker, for every block tree, every number of     *)
(* slots per epoch and every configuration the assumptions allow.          *)
(***************************************************************************)
EXTENDS LiveCollectorInv, ChainProofs

\* The arithmetic used all over, in one citable fact.
LEMMA SlotFacts ==
    /\ \A s \in Nat : SlotToEpoch(s) \in Nat
    /\ \A e \in Nat : EpochStartSlot(e) \in Nat
    /\ \A a, b \in Nat : SatSub(a, b) \in Nat /\ Lesser(a, b) \in Nat /\ Greater(a, b) \in Nat
    /\ \A b \in Blocks : BlockSlot[b] \in Slots
    /\ Slots \subseteq Nat
    /\ Epochs \subseteq Nat
  <1>1. \A s \in Nat : SlotToEpoch(s) \in Nat
    BY SlotToEpochBounds
  <1>2. \A e \in Nat : EpochStartSlot(e) \in Nat
    BY EpochStartIncreases
  <1>3. \A a, b \in Nat : SatSub(a, b) \in Nat /\ Lesser(a, b) \in Nat /\ Greater(a, b) \in Nat
    BY SaturationBounds
  <1>4. \A b \in Blocks : BlockSlot[b] \in Slots
    BY BlockSlotAssumption, ConfigAssumption DEF Slots
  <1>5. Slots \subseteq Nat /\ Epochs \subseteq Nat
    BY ConfigAssumption, <1>1 DEF Slots, Epochs
  <1> QED
    BY <1>1, <1>2, <1>3, <1>4, <1>5

---------------------------------------------------------------------------
(* Type correctness *)

LEMMA TypeInit == Init => TypeOK
  <1> SUFFICES ASSUME Init
               PROVE  TypeOK
    OBVIOUS
  <1>1. NodeTypeOK
    BY SlotFacts, HeadAssumption, AncestryAssumption DEF Init, NodeInit, NodeTypeOK, IsAncestorAt
  <1>2. started \in Nat
    BY ConfigAssumption DEF Init
  <1> QED
    BY <1>1, <1>2 DEF Init, TypeOK, NodeTypeOK, InclusionValues

\* What EndPoll leaves is well typed.
LEMMA EndPollType ==
    ASSUME TypeOK, EndPoll
    PROVE  /\ pc' \in {"idle", "oldBranch", "resolve", "collect", "finalize"}
           /\ tip' \in Blocks
           /\ chkpt' \in Nat
           /\ resolved' \subseteq Blocks
           /\ walkStart' \in Nat
           /\ todo' \subseteq Slots
           /\ duties' \in [Epochs -> SUBSET {"fetched", "attester", "slot", "error"}]
  BY DEF TypeOK, NodeTypeOK, EndPoll

\* So is what an invalidation leaves.
LEMMA InvalidateType ==
    ASSUME TypeOK, NEW from, InvalidateFrom(from)
    PROVE  /\ stored' \subseteq Blocks
           /\ cover' \subseteq Slots
           /\ started' \in Nat
           /\ inclusion' \in [Epochs -> InclusionValues]
           /\ attFinal' \subseteq Epochs
           /\ slotRow' \in [Slots -> {"none", "missed", "proposed"}]
           /\ slotFinal' \subseteq Slots
           /\ completed' \subseteq Epochs
  BY DEF TypeOK, InvalidateFrom, InclusionValues

LEMMA ReplayStartType ==
    ASSUME NEW s \in Nat
    PROVE  ReplayStart(s) \in Nat
  BY SlotFacts DEF ReplayStart

\* The cursor a scan starts from, and the slots it takes, are slots.
LEMMA PlanType ==
    ASSUME TypeOK
    PROVE  /\ HeadSlot \in Nat
           /\ Target \in Nat
           /\ Floor \in Nat
           /\ CollectionStart \in Nat
           /\ \A first \in Nat : WalkStartFrom(first) \in Nat
           /\ \A chain, start : SlotsToScan(start, chain) \subseteq Slots
  <1>1. HeadSlot \in Nat
    BY SlotFacts DEF TypeOK, HeadSlot
  <1>2. Target \in Nat /\ Floor \in Nat /\ CollectionStart \in Nat
    BY <1>1, SlotFacts, ConfigAssumption DEF TypeOK, Target, Floor, MinEpoch, CollectionStart
  <1>3. \A first \in Nat : WalkStartFrom(first) \in Nat
    BY SlotFacts DEF WalkStartFrom
  <1>4. \A chain, start : SlotsToScan(start, chain) \subseteq Slots
    BY DEF SlotsToScan, MissingCoverage, Newest
  <1> QED
    BY <1>1, <1>2, <1>3, <1>4

LEMMA TypeStep == TypeOK /\ [Next]_vars => TypeOK'
  <1> SUFFICES ASSUME TypeOK, [Next]_vars
               PROVE  TypeOK'
    OBVIOUS
  <1> USE DEF TypeOK, NodeTypeOK, dbVars, pollVars, nodeVars
  <1>1. CASE UNCHANGED vars
    BY <1>1 DEF vars
  <1>2. CASE NodeStep
    <2>1. ASSUME NEW b \in Blocks, MoveHead(b)
          PROVE  NodeTypeOK'
      BY <2>1, SlotFacts DEF MoveHead
    <2>2. ASSUME NEW e \in 0..SlotToEpoch(BlockSlot[head]), NEW r \in Blocks, AdvanceFinality(e, r)
          PROVE  NodeTypeOK'
      BY <2>2, SlotFacts DEF AdvanceFinality
    <2> QED
      BY <1>2, <2>1, <2>2 DEF NodeStep, NodeNext
  <1>3. CASE Poll
    BY <1>3, SlotFacts DEF Poll
  <1>4. ASSUME NEW newest \in Blocks, NEW first \in Blocks, NEW fails \in BOOLEAN,
               CheckOldBranch(newest, first, fails)
        PROVE  TypeOK'
    <2>1. CASE UNCHANGED dbVars
      BY <1>4, <2>1 DEF CheckOldBranch
    <2>2. CASE InvalidateFrom(ReplayStart(BlockSlot[first]))
      BY <1>4, <2>2, InvalidateType DEF CheckOldBranch
    <2> QED
      BY <1>4, <2>1, <2>2 DEF CheckOldBranch
  <1>5. ASSUME NEW s \in Nat, Rollback(s), EndPoll, UNCHANGED nodeVars
        PROVE  TypeOK'
    BY <1>5, EndPollType, InvalidateType, ReplayStartType DEF Rollback
  <1>6. ASSUME NEW first \in 0..(LastSlot + 1), NEW b \in Blocks, RollbackChanged(first, b)
        PROVE  TypeOK'
    BY <1>6, <1>5, SlotFacts DEF RollbackChanged
  <1>7. ASSUME NEW first \in 0..(LastSlot + 1), RollbackBeyondHead(first)
        PROVE  TypeOK'
    BY <1>7, <1>5, PlanType DEF RollbackBeyondHead
  <1>8. ASSUME NEW first \in 0..(LastSlot + 1), PlanScan(first)
        PROVE  TypeOK'
    <2> DEFINE chain == ResolveChain(Lesser(WalkStartFrom(first), Target))
    <2>1. chain \subseteq Blocks
      BY AncestryAssumption DEF ResolveChain
    <2> HIDE DEF chain
    <2> QED
      BY <1>8, <2>1, PlanType DEF PlanScan, chain
  <1>9. ASSUME NEW e \in Epochs, NEW o \in DutyOutcomes, FetchDuties(e, o)
        PROVE  TypeOK'
    <2>1. o \cup {"fetched"} \in SUBSET {"fetched", "attester", "slot", "error"}
      BY ConfigAssumption
    <2> QED
      BY <1>9, <2>1 DEF FetchDuties, InclusionValues
  <1>cov. ASSUME NEW s \in Slots, NEW o, RecordCoverage(s, o)
         PROVE  cover' \subseteq Slots /\ next' \in Nat /\ todo' \subseteq Slots
    <2>1. s + 1 \in Nat
      BY SlotFacts
    <2>2. Greater(next, s + 1) \in Nat
      BY <2>1, SlotFacts
    <2>3. CASE cover' = cover /\ next' = next
      BY <1>cov, <2>3 DEF RecordCoverage
    <2>4. CASE cover' = cover \cup {s} /\ next' = Greater(next, s + 1)
      BY <1>cov, <2>2, <2>4 DEF RecordCoverage
    <2> QED
      BY <1>cov, <2>3, <2>4 DEF RecordCoverage
  <1>10. ASSUME NEW s \in Slots, NEW o \in SlotOutcomes, ProcessSkippedSlot(s, o)
         PROVE  TypeOK'
    <2>1. cover' \subseteq Slots /\ next' \in Nat /\ todo' \subseteq Slots
      BY <1>10, <1>cov DEF ProcessSkippedSlot
    <2>2. slotRow' \in [Slots -> {"none", "missed", "proposed"}]
      BY <1>10 DEF ProcessSkippedSlot, WriteSlotRow
    <2> QED
      BY <1>10, <2>1, <2>2 DEF ProcessSkippedSlot
  <1>11. ASSUME NEW b \in Blocks, NEW o \in SlotOutcomes, NEW written \in SUBSET Votes[b],
                ProcessBlock(b, o, written)
         PROVE  TypeOK'
    <2>1. cover' \subseteq Slots /\ next' \in Nat /\ todo' \subseteq Slots
      BY <1>11, <1>cov, SlotFacts DEF ProcessBlock
    <2>2. slotRow' \in [Slots -> {"none", "missed", "proposed"}]
      BY <1>11, SlotFacts DEF ProcessBlock, WriteSlotRow
    <2>3. stored' \subseteq Blocks
      BY <1>11 DEF ProcessBlock
    <2>4. inclusion' \in [Epochs -> InclusionValues]
      BY <1>11 DEF ProcessBlock, InclusionValues
    <2> QED
      BY <1>11, <2>1, <2>2, <2>3, <2>4 DEF ProcessBlock
  <1>12. ASSUME NEW optimistic \in Optimistic, BranchSwitched(optimistic)
         PROVE  TypeOK'
    BY <1>12, <1>5 DEF BranchSwitched
  <1>13. CASE HeadSlotEmptied
    BY <1>13, EndPollType DEF HeadSlotEmptied
  <1>14. CASE BranchConfirmed
    BY <1>14 DEF BranchConfirmed
  <1>15. ASSUME NEW root \in Blocks, NEW first \in Blocks,
                NEW rewarded \in SUBSET FinalizedScanTargets(chkpt), Finalize(root, first, rewarded)
         PROVE  TypeOK'
    <2>1. /\ attFinal' \subseteq Epochs
          /\ slotFinal' \subseteq Slots
          /\ completed' \subseteq Epochs
      BY <1>15 DEF Finalize, Promote
    <2>2. stored' \subseteq Blocks /\ cover' \subseteq Slots
      BY <1>15 DEF Finalize, Prune
    <2> QED
      BY <1>15, <2>1, <2>2, EndPollType DEF Finalize
  <1>16. CASE Abort
    BY <1>16, EndPollType DEF Abort
  <1>17. CASE Restart
    <2>1. next' \in Nat
      <3>1. CASE next' = 0
        BY <3>1
      <3>2. CASE \E s \in cover : next' = s + 1
        BY <3>2, SlotFacts
      <3> QED
        BY <1>17, <3>1, <3>2 DEF Restart
    <2> QED
      BY <1>17, <2>1, EndPollType DEF Restart
  <1> QED
    BY <1>1, <1>2, <1>3, <1>4, <1>6, <1>7, <1>8, <1>9, <1>10, <1>11, <1>12, <1>13, <1>14,
       <1>15, <1>16, <1>17 DEF Next, Work

\* Every variable keeps its type: in particular the cursor never underflows.
THEOREM TypeCorrect == Spec => []TypeOK
  BY TypeInit, TypeStep, PTL DEF Spec
=============================================================================
