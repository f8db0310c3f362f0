-------------------------- MODULE LiveSafetyProofs --------------------------
(***************************************************************************)
(* The inductive invariant of the live worker, and what follows from it:   *)
(* final misses and proposals are real, one branch is collected at a time, *)
(* final rows are frozen and completed epochs are whole.                   *)
(***************************************************************************)
EXTENDS LiveCollectorProofs

---------------------------------------------------------------------------
\* The inclusion window of an epoch, in slots.
LEMMA VoteWindowBounds ==
    ASSUME NEW e \in Nat, NEW s \in Nat, InVoteWindow(e, s)
    PROVE  /\ EpochStartSlot(e) <= s
           /\ s < EpochStartSlot(e + 2)
           /\ \A f \in Nat : e + 2 <= f => s < EpochStartSlot(f)
  <1>1. SlotToEpoch(s) = e \/ SlotToEpoch(s) = e + 1
    BY DEF InVoteWindow
  <1>2. EpochStartSlot(e) <= s
    BY <1>1, EpochAtOrBelow
  <1>3. ASSUME NEW f \in Nat, e + 2 <= f
        PROVE  s < EpochStartSlot(f)
    BY <1>1, <1>3, BeforeEpoch
  <1> QED
    BY <1>2, <1>3

---------------------------------------------------------------------------
(* The node's steps *)

LEMMA NodeKeeps == IInv /\ NodeStep => IInv'
  <1> SUFFICES ASSUME IInv, NodeStep
               PROVE  IInv'
    OBVIOUS
  <1> USE DEF IInv, dbVars, pollVars
  <1>1. TypeOK'
    BY TypeStep DEF Next
  <1>2. UNCHANGED <<dbVars, pc, next, pollVars>>
    BY DEF NodeStep
  <1>3. /\ finEpoch \in Nat /\ finEpoch' \in Nat /\ peakEpoch \in Nat /\ peakEpoch' \in Nat
        /\ finRoot \in Blocks /\ head \in Blocks /\ tip \in Blocks /\ chkpt \in Nat
        /\ EpochOf(head) \in Nat /\ EpochOf(tip) \in Nat /\ cover \subseteq Nat
    BY <1>1, SlotFacts DEF TypeOK, NodeTypeOK, EpochOf
  <1>4. NodeInv' /\ finEpoch <= finEpoch' /\ peakEpoch <= peakEpoch'
    <2>1. ASSUME NEW b \in Blocks, MoveHead(b)
          PROVE  NodeInv' /\ finEpoch <= finEpoch' /\ peakEpoch <= peakEpoch'
      <3>1. EpochOf(b) \in Nat
        BY SlotFacts DEF EpochOf
      <3>2. EpochOf(head)' = EpochOf(b)
        BY <2>1 DEF MoveHead, EpochOf
      <3> QED
        BY <2>1, <3>1, <3>2, <1>3, HeadAssumption DEF MoveHead, NodeInv, Greater, EpochOf, IsAncestorAt
    <2>2. ASSUME NEW e \in 0..SlotToEpoch(BlockSlot[head]), NEW r \in Blocks, AdvanceFinality(e, r)
          PROVE  NodeInv' /\ finEpoch <= finEpoch' /\ peakEpoch <= peakEpoch'
      BY <2>2, <1>3 DEF AdvanceFinality, NodeInv, EpochOf, IsAncestorAt
    <2> QED
      BY <2>1, <2>2 DEF NodeStep, NodeNext
  <1>5. \/ finRoot' = finRoot
        \/ /\ IsAncestorAt(finRoot', head, EpochStartSlot(finEpoch'))
           /\ finRoot' \in Blocks
    BY DEF NodeStep, NodeNext, MoveHead, AdvanceFinality
  \* Below the checkpoint that was final, finality adds no block.
  <1>6. \A slot \in Nat, r \in Blocks :
           slot <= EpochStartSlot(finEpoch) /\ IsAncestorAt(r, finRoot, slot)
              => IsAncestorAt(r, finRoot', slot)
    <2> SUFFICES ASSUME NEW slot \in Nat, NEW r \in Blocks, slot <= EpochStartSlot(finEpoch),
                        IsAncestorAt(r, finRoot, slot), finRoot' # finRoot
                 PROVE  IsAncestorAt(r, finRoot', slot)
      OBVIOUS
    <2>1. /\ EpochStartSlot(finEpoch) \in Nat /\ EpochStartSlot(finEpoch') \in Nat
          /\ EpochStartSlot(finEpoch) <= EpochStartSlot(finEpoch')
      BY <1>3, <1>4, EpochStartIncreases
    <2>2. /\ finRoot \in Ancestry[finRoot']
          /\ IsAncestorAt(finRoot, finRoot', EpochStartSlot(finEpoch))
      BY <1>3, <1>5, <2>1, AncestorsNest DEF NodeInv
    <2>3. r \in Ancestry[finRoot']
      BY <1>5, <2>2, AncestryAssumption DEF IsAncestorAt
    <2>4. ASSUME NEW y \in Ancestry[finRoot'], BlockSlot[y] <= slot
          PROVE  BlockSlot[y] <= BlockSlot[r]
      <3>1. BlockSlot[y] \in Nat
        BY <1>5, AncestryAssumption, BlockSlotAssumption
      <3>2. y \in Ancestry[finRoot]
        BY <1>5, <2>1, <2>2, <2>4, <3>1, BelowAncestor
      <3> QED
        BY <3>2, <2>4 DEF IsAncestorAt
    <2> QED
      BY <2>3, <2>4 DEF IsAncestorAt
  <1>7. \A y \in Ancestry[finRoot'] : BlockSlot[y] < EpochStartSlot(finEpoch) => y \in Ancestry[finRoot]
    <2> SUFFICES ASSUME NEW y \in Ancestry[finRoot'], BlockSlot[y] < EpochStartSlot(finEpoch),
                        finRoot' # finRoot
                 PROVE  y \in Ancestry[finRoot]
      OBVIOUS
    <2>1. EpochStartSlot(finEpoch) \in Nat
      BY <1>3, EpochStartIncreases
    <2>2. y \in Ancestry[head] /\ BlockSlot[y] \in Nat
      BY <1>3, <1>5, AncestryAssumption, BlockSlotAssumption DEF IsAncestorAt
    <2> QED
      BY <1>3, <2>1, <2>2, BelowAncestor DEF NodeInv
  <1>8. CheckpointInv'
    <2> SUFFICES ASSUME pc # "idle"
                 PROVE  CheckpointInv'
      BY <1>2 DEF CheckpointInv
    <2>1. EpochStartSlot(chkpt) \in Nat /\ EpochStartSlot(chkpt) <= EpochStartSlot(finEpoch)
      BY <1>3, EpochStartIncreases DEF CheckpointInv
    <2>2. \A r \in Blocks : IsAncestorAt(r, tip, EpochStartSlot(chkpt))
             => IsAncestorAt(r, finRoot', EpochStartSlot(chkpt))
      BY <2>1, <1>6 DEF CheckpointInv
    <2>3. EpochOf(tip) <= peakEpoch' /\ chkpt <= finEpoch'
      BY <1>3, <1>4 DEF CheckpointInv
    <2> QED
      BY <1>2, <2>2, <2>3 DEF CheckpointInv, EpochOf, IsAncestorAt
  <1>9. CursorInv'
    <2>1. \A s \in cover : SlotToEpoch(s) \in Nat
      BY <1>3, SlotFacts
    <2> QED
      BY <1>2, <1>3, <1>4, <2>1, ConfigAssumption DEF CursorInv, EpochOf, Floor, MinEpoch, HeadSlot
  <1>10. ScanInv' /\ SlotEvidence' /\ VoteEvidence'
    BY <1>2 DEF ScanInv, OneBranchCollected, Recent, Floor, MinEpoch, HeadSlot, SlotEvidence, VoteEvidence
  <1>11. FinalInv'
    <2>1. \A s \in slotFinal : SlotToEpoch(s) \in Nat
      BY SlotFacts DEF TypeOK
    <2>2. attFinal \subseteq Nat
      BY SlotFacts DEF TypeOK
    <2> QED
      BY <1>2, <1>3, <1>4, <2>1, <2>2 DEF FinalInv
  <1>12. FinalMissesReal'
    <2>1. ASSUME NEW s \in slotFinal, slotRow[s] = "missed", NEW b \in Ancestry[finRoot'],
                 BlockSlot[b] = s
          PROVE  FALSE
      <3>1. s \in Nat /\ SlotToEpoch(s) < finEpoch
        BY <2>1, SlotFacts DEF TypeOK, FinalInv
      <3>2. s < EpochStartSlot(finEpoch)
        BY <3>1, <1>3, BeforeEpoch
      <3>3. b \in Ancestry[finRoot]
        BY <2>1, <3>2, <1>7
      <3> QED
        BY <2>1, <3>3 DEF FinalMissesReal, FinalBlockAt
    <2>2. ASSUME NEW e \in attFinal, inclusion[e] = NotIncluded, NEW b \in Ancestry[finRoot'],
                 InVoteWindow(e, BlockSlot[b])
          PROVE  e \notin Votes[b]
      <3>1. e \in Nat /\ e + 2 <= finEpoch
        BY <2>2, SlotFacts DEF TypeOK, FinalInv
      <3>2. BlockSlot[b] \in Nat
        BY <1>3, <1>5, AncestryAssumption, BlockSlotAssumption
      <3>3. BlockSlot[b] < EpochStartSlot(finEpoch)
        BY <2>2, <3>1, <3>2, <1>3, VoteWindowBounds
      <3>4. b \in Ancestry[finRoot]
        BY <3>3, <1>7
      <3> QED
        BY <2>2, <3>4 DEF FinalMissesReal
    <2> QED
      BY <1>2, <2>1, <2>2 DEF FinalMissesReal, FinalBlockAt, InVoteWindow
  <1> QED
    BY <1>1, <1>4, <1>8, <1>9, <1>10, <1>11, <1>12

---------------------------------------------------------------------------
(* The steps that only move the poll along *)

\* The parts of the invariant that speak of the database and the node only.
LEMMA EvidenceUnchanged ==
    ASSUME SlotEvidence, VoteEvidence, FinalInv, FinalMissesReal, NodeInv,
           UNCHANGED <<nodeVars, stored, cover, inclusion, attFinal, slotRow, slotFinal>>
    PROVE  SlotEvidence' /\ VoteEvidence' /\ FinalInv' /\ FinalMissesReal' /\ NodeInv'
  BY DEF nodeVars, SlotEvidence, VoteEvidence, FinalInv, FinalMissesReal, FinalBlockAt, InVoteWindow,
         NodeInv, EpochOf, IsAncestorAt

\* When a poll is over, nothing is claimed of its variables.
LEMMA IdleClaims ==
    ASSUME pc' = "idle"
    PROVE  CheckpointInv' /\ ScanInv'
  BY DEF CheckpointInv, ScanInv, OneBranchCollected

LEMMA PollKeeps == IInv /\ Poll => IInv'
  <1> SUFFICES ASSUME IInv, Poll
               PROVE  IInv'
    OBVIOUS
  <1> USE DEF IInv
  <1>1. TypeOK'
    BY TypeStep DEF Next, Work
  <1>2. /\ head \in Blocks /\ tip' = head /\ finEpoch \in Nat /\ chkpt' = finEpoch
        /\ peakEpoch \in Nat /\ EpochOf(head) \in Nat /\ next \in Nat /\ cover \subseteq Nat
        /\ EpochOf(tip)' = EpochOf(head)
    BY SlotFacts DEF TypeOK, NodeTypeOK, EpochOf, Poll
  <1>3. CheckpointInv'
    <2>1. EpochStartSlot(finEpoch) \in Nat
      BY <1>2, EpochStartIncreases
    <2>2. ASSUME NEW r \in Blocks, IsAncestorAt(r, head, EpochStartSlot(finEpoch))
          PROVE  IsAncestorAt(r, finRoot, EpochStartSlot(finEpoch))
      BY <1>2, <2>1, <2>2, AncestorUnique, AncestorOfItself DEF NodeInv
    <2> QED
      BY <1>2, <2>2 DEF CheckpointInv, NodeInv, Poll, nodeVars, IsAncestorAt, EpochOf
  <1>4. CursorInv'
    <2>1. ASSUME NEW s \in cover
          PROVE  /\ next # 0 => s < next
                 /\ next = 0 => SlotToEpoch(s) + RetryWindow < peakEpoch
                 /\ next = 0 => SlotToEpoch(s) < EpochOf(head)
      <3>1. SlotToEpoch(s) \in Nat
        BY <1>2, SlotFacts
      <3> QED
        BY <1>2, <3>1, ConfigAssumption, HeadAssumption DEF CursorInv, NodeInv
    <2>2. pc' = "oldBranch" => next # 0 /\ next <= Floor'
      BY DEF Poll, Floor, MinEpoch, HeadSlot
    <2> QED
      BY <1>2, <2>1, <2>2 DEF CursorInv, Poll, nodeVars
  <1>5. ScanInv'
    BY DEF Poll, ScanInv, OneBranchCollected
  <1>6. SlotEvidence' /\ VoteEvidence' /\ FinalInv' /\ FinalMissesReal' /\ NodeInv'
    BY EvidenceUnchanged DEF Poll
  <1> QED
    BY <1>1, <1>3, <1>4, <1>5, <1>6

LEMMA ConfirmedKeeps == IInv /\ BranchConfirmed => IInv'
  <1> SUFFICES ASSUME IInv, BranchConfirmed
               PROVE  IInv'
    OBVIOUS
  <1> USE DEF IInv
  <1>1. TypeOK'
    BY TypeStep DEF Next, Work
  <1>2. CheckpointInv' /\ CursorInv'
    BY DEF BranchConfirmed, nodeVars, pollVars, dbVars, CheckpointInv, CursorInv, EpochOf, IsAncestorAt,
           Floor, MinEpoch, HeadSlot
  <1>3. ScanInv'
    BY DEF BranchConfirmed, pollVars, dbVars, ScanInv, OneBranchCollected, Recent, Floor, MinEpoch, HeadSlot
  <1>4. SlotEvidence' /\ VoteEvidence' /\ FinalInv' /\ FinalMissesReal' /\ NodeInv'
    BY EvidenceUnchanged DEF BranchConfirmed, dbVars
  <1> QED
    BY <1>1, <1>2, <1>3, <1>4

LEMMA PollEndKeeps ==
    ASSUME IInv, TypeOK', EndPoll, UNCHANGED <<nodeVars, dbVars, next>>
    PROVE  IInv'
  <1> USE DEF IInv
  <1>1. pc' = "idle"
    BY DEF EndPoll
  <1>2. CursorInv'
    BY <1>1 DEF CursorInv, nodeVars, dbVars
  <1>3. SlotEvidence' /\ VoteEvidence' /\ FinalInv' /\ FinalMissesReal' /\ NodeInv'
    BY EvidenceUnchanged DEF dbVars
  <1> QED
    BY <1>1, <1>2, <1>3, IdleClaims

\* The cursor read back after a crash is above all coverage.
LEMMA RestartKeeps == IInv /\ Restart => IInv'
  <1> SUFFICES ASSUME IInv, Restart
               PROVE  IInv'
    OBVIOUS
  <1> USE DEF IInv
  <1>1. TypeOK'
    BY TypeStep DEF Next
  <1>2. pc' = "idle"
    BY DEF Restart, EndPoll
  <1>3. CursorInv'
    <2>1. cover \subseteq Nat
      BY SlotFacts DEF TypeOK
    <2>2. CASE cover = {} /\ next' = 0
      BY <1>2, <2>2 DEF Restart, dbVars, CursorInv
    <2>3. ASSUME NEW s \in cover, \A t \in cover : t <= s, next' = s + 1
          PROVE  CursorInv'
      BY <1>2, <2>1, <2>3 DEF Restart, dbVars, CursorInv
    <2> QED
      BY <2>2, <2>3 DEF Restart
  <1>4. SlotEvidence' /\ VoteEvidence' /\ FinalInv' /\ FinalMissesReal' /\ NodeInv'
    BY EvidenceUnchanged DEF Restart, dbVars
  <1> QED
    BY <1>1, <1>2, <1>3, <1>4, IdleClaims

---------------------------------------------------------------------------
(* Rollbacks *)

\* A rollback replays from the start of an epoch, so it keeps or drops the
\* evidence of an inclusion window together with the row it supports.
LEMMA InvalidateKeeps ==
    ASSUME IInv, NEW s \in Nat, InvalidateFrom(ReplayStart(s)), UNCHANGED nodeVars
    PROVE  /\ SlotEvidence' /\ VoteEvidence' /\ FinalInv' /\ FinalMissesReal' /\ NodeInv'
           /\ cover' = {t \in cover : t < ReplayStart(s)}
  <1> USE DEF IInv
  <1> DEFINE k == SatSub(SlotToEpoch(s), 1)
  <1>1. k \in Nat /\ ReplayStart(s) = EpochStartSlot(k) /\ ReplayStart(s) \in Nat
    BY SlotFacts DEF ReplayStart
  <1>2. SlotToEpoch(ReplayStart(s)) = k
    BY <1>1, EpochOfStart
  <1> HIDE DEF k
  <1>3. cover' = {t \in cover : t < ReplayStart(s)}
    BY DEF InvalidateFrom
  <1>4. /\ stored \subseteq Blocks /\ stored' = {b \in stored : BlockSlot[b] < ReplayStart(s)}
        /\ attFinal' = attFinal /\ slotFinal' = slotFinal
        /\ attFinal \subseteq Epochs /\ slotFinal \subseteq Slots /\ cover \subseteq Slots
    BY DEF InvalidateFrom, TypeOK
  <1>5. \A e \in attFinal : inclusion'[e] = inclusion[e]
    BY <1>4 DEF InvalidateFrom, TypeOK
  <1>6. \A t \in slotFinal : slotRow'[t] = slotRow[t]
    BY <1>4 DEF InvalidateFrom, TypeOK
  <1>7. SlotEvidence'
    <2> SUFFICES ASSUME NEW t \in cover' \ slotFinal', slotRow'[t] = "missed"
                 PROVE  \A b \in stored' : BlockSlot[b] # t
      BY DEF SlotEvidence
    <2>1. slotRow[t] = "missed" /\ t \in cover \ slotFinal
      BY <1>1, <1>3, <1>4, SlotFacts DEF InvalidateFrom, TypeOK
    <2> QED
      BY <2>1, <1>4 DEF SlotEvidence
  <1>8. VoteEvidence'
    <2> SUFFICES ASSUME NEW b \in stored', BlockSlot[b] \in cover',
                        NEW e \in (Epochs \cap Votes[b]) \ attFinal',
                        InVoteWindow(e, BlockSlot[b])
                 PROVE  inclusion'[e] \in Blocks
      BY DEF VoteEvidence, InVoteWindow
    <2>1. inclusion[e] \in Blocks
      BY <1>3, <1>4 DEF VoteEvidence
    <2>2. BlockSlot[b] \in Nat /\ BlockSlot[b] < EpochStartSlot(k) /\ e \in Nat
      BY <1>1, <1>4, SlotFacts
    <2>3. SlotToEpoch(BlockSlot[b]) < k /\ SlotToEpoch(BlockSlot[b]) \in Nat
      BY <1>1, <2>2, BeforeEpoch, SlotFacts
    <2>4. ~(e >= k)
      BY <1>1, <2>2, <2>3 DEF InVoteWindow
    <2> QED
      BY <1>2, <2>1, <2>4 DEF InvalidateFrom
  <1>9. FinalInv' /\ FinalMissesReal' /\ NodeInv'
    BY <1>4, <1>5, <1>6 DEF FinalInv, FinalMissesReal, FinalBlockAt, InVoteWindow, NodeInv, EpochOf,
                            IsAncestorAt, nodeVars
  <1> QED
    BY <1>3, <1>7, <1>8, <1>9

LEMMA RollbackKeeps ==
    ASSUME IInv, TypeOK', NEW s \in Nat, Rollback(s), EndPoll, UNCHANGED nodeVars
    PROVE  IInv'
  <1>1. /\ SlotEvidence' /\ VoteEvidence' /\ FinalInv' /\ FinalMissesReal' /\ NodeInv'
        /\ cover' = {t \in cover : t < ReplayStart(s)}
    BY InvalidateKeeps DEF Rollback
  <1>2. pc' = "idle"
    BY DEF EndPoll
  <1>3. CursorInv'
    <2>1. cover \subseteq Nat /\ ReplayStart(s) \in Nat /\ next' = ReplayStart(s)
      BY SlotFacts, ReplayStartType DEF IInv, TypeOK, Rollback
    <2> QED
      BY <1>1, <1>2, <2>1 DEF CursorInv
  <1> QED
    BY <1>1, <1>2, <1>3, IdleClaims DEF IInv

LEMMA OldBranchKeeps ==
    ASSUME IInv, NEW newest \in Blocks, NEW first \in Blocks, NEW fails \in BOOLEAN,
           CheckOldBranch(newest, first, fails)
    PROVE  IInv'
  <1> USE DEF IInv
  <1>1. TypeOK'
    BY TypeStep DEF Next, Work
  <1>2. /\ SlotEvidence' /\ VoteEvidence' /\ FinalInv' /\ FinalMissesReal' /\ NodeInv'
        /\ cover' \subseteq cover
    <2>1. CASE UNCHANGED dbVars
      BY <2>1, EvidenceUnchanged DEF CheckOldBranch, dbVars
    <2>2. CASE InvalidateFrom(ReplayStart(BlockSlot[first]))
      <3>1. BlockSlot[first] \in Nat
        BY SlotFacts
      <3> QED
        BY <2>2, <3>1, InvalidateKeeps DEF CheckOldBranch
    <2> QED
      BY <2>1, <2>2 DEF CheckOldBranch
  <1>3. /\ pc = "oldBranch" /\ pc' = "resolve" /\ next' = 0
        /\ UNCHANGED <<nodeVars, tip, chkpt>>
    BY DEF CheckOldBranch, pollVars
  \* The cursor was below the window, and so is all coverage.
  <1>4. ASSUME NEW s \in cover
        PROVE  /\ SlotToEpoch(s) + RetryWindow < peakEpoch
               /\ SlotToEpoch(s) < EpochOf(tip)
    <2>1. /\ s \in Nat /\ EpochOf(tip) \in Nat /\ SlotToEpoch(s) \in Nat /\ MinEpoch \in Nat
          /\ next \in Nat /\ peakEpoch \in Nat /\ RetryWindow \in Nat
      BY SlotFacts, ConfigAssumption DEF TypeOK, NodeTypeOK, EpochOf, MinEpoch, HeadSlot
    <2>2. s < next /\ next <= EpochStartSlot(MinEpoch) /\ EpochStartSlot(MinEpoch) \in Nat
      BY <1>3, <2>1, SlotFacts DEF CursorInv, Floor
    <2>3. SlotToEpoch(s) < MinEpoch
      BY <2>1, <2>2, BeforeEpoch
    <2>4. SlotToEpoch(s) + RetryWindow < EpochOf(tip)
      BY <2>1, <2>3 DEF MinEpoch, SatSub, EpochOf, HeadSlot
    <2>5. EpochOf(tip) <= peakEpoch
      BY <1>3 DEF CheckpointInv
    <2> QED
      BY <2>1, <2>4, <2>5
  <1>5. CursorInv'
    BY <1>2, <1>3, <1>4 DEF CursorInv, EpochOf, nodeVars
  <1>6. CheckpointInv'
    BY <1>3 DEF CheckpointInv, EpochOf, IsAncestorAt, nodeVars
  <1>7. ScanInv'
    BY <1>3 DEF ScanInv, OneBranchCollected
  <1> QED
    BY <1>1, <1>2, <1>5, <1>6, <1>7

---------------------------------------------------------------------------
(* Scanning *)

\* A parent walk that goes back to `from` misses no block at or after a slot
\* that is not before `from`, or not before a block the walk reached.
LEMMA WalkIsComplete ==
    ASSUME TypeOK, NEW from \in Nat, NEW x \in Ancestry[tip],
           \/ from <= BlockSlot[x]
           \/ \E b \in ResolveChain(from) : BlockSlot[b] <= BlockSlot[x]
    PROVE  x \in ResolveChain(from)
  <1>1. Ancestry[tip] \subseteq Blocks
    BY AncestryAssumption DEF TypeOK
  <1>2. \A y \in Ancestry[tip] : BlockSlot[y] \in Nat
    BY <1>1, BlockSlotAssumption
  <1> QED
    BY <1>2 DEF ResolveChain

\* The walk starts at or before the slot it is planned for.
LEMMA WalkStartBelow ==
    ASSUME NEW s \in Nat
    PROVE  WalkStartFrom(s) <= s
  <1> DEFINE k == SatSub(SlotToEpoch(s), 1)
  <1>1. k \in Nat /\ k <= SlotToEpoch(s)
    BY SlotFacts, SaturationBounds
  <1> QED
    BY <1>1, EpochAtOrBelow DEF WalkStartFrom

LEMMA PlanKeeps ==
    ASSUME IInv, NEW first \in 0..(LastSlot + 1), PlanScan(first)
    PROVE  IInv'
  <1> USE DEF IInv
  <1> DEFINE from == Lesser(WalkStartFrom(first), Target)
             chain == ResolveChain(from)
  <1>1. TypeOK'
    BY TypeStep DEF Next, Work
  <1>2. /\ next' = CollectionStart /\ resolved' = chain /\ pc' = "collect"
        /\ todo' = SlotsToScan(CollectionStart, chain)
        /\ UNCHANGED <<nodeVars, dbVars, tip, chkpt>>
        /\ pc = "resolve"
    BY DEF PlanScan
  <1>3. /\ first \in Nat /\ WalkStartFrom(first) \in Nat /\ Target \in Nat /\ Floor \in Nat
        /\ CollectionStart \in Nat /\ from \in Nat /\ next \in Nat
        /\ EpochOf(tip) \in Nat /\ cover \subseteq Nat
    <2>1. first \in Nat
      BY ConfigAssumption
    <2>2. next \in Nat /\ EpochOf(tip) \in Nat /\ cover \subseteq Nat /\ WalkStartFrom(first) \in Nat
      BY <2>1, PlanType, SlotFacts DEF TypeOK, EpochOf
    <2>3. Target \in Nat /\ Floor \in Nat /\ CollectionStart \in Nat
      BY PlanType
    <2> QED
      BY <2>1, <2>2, <2>3, SlotFacts
  \* The start is above all coverage, and not below the floor.
  <1>4. \A s \in cover : s < CollectionStart
    <2> SUFFICES ASSUME NEW s \in cover
                 PROVE  s < CollectionStart
      OBVIOUS
    <2>1. CASE next = 0
      <3>1. SlotToEpoch(s) < EpochOf(tip) /\ s \in Nat
        BY <1>2, <1>3, <2>1 DEF CursorInv
      <3> QED
        BY <1>3, <2>1, <3>1, BeforeEpoch DEF CollectionStart, EpochOf, HeadSlot
    <2>2. CASE next # 0
      <3>1. s < next /\ next <= Greater(next, Floor)
        BY <1>3, <2>2, SaturationBounds DEF CursorInv
      <3> QED
        BY <1>3, <2>2, <3>1 DEF CollectionStart
    <2> QED
      BY <2>1, <2>2
  <1>5. Floor <= CollectionStart
    <2>1. MinEpoch \in Nat /\ MinEpoch <= EpochOf(tip)
      BY <1>3, ConfigAssumption, SaturationBounds DEF MinEpoch, EpochOf, HeadSlot
    <2>2. CASE next = 0
      BY <1>3, <2>1, <2>2, EpochStartIncreases DEF CollectionStart, Floor, EpochOf, HeadSlot
    <2>3. CASE next # 0
      BY <1>3, <2>3, SaturationBounds DEF CollectionStart
    <2> QED
      BY <2>2, <2>3
  <1>6. CursorInv'
    <2>1. cover' = cover /\ next' = CollectionStart /\ pc' = "collect"
      BY <1>2 DEF dbVars
    <2>2. ASSUME NEW s \in cover
          PROVE  next' # 0 /\ s < next'
      BY <1>3, <1>4, <2>1
    <2> QED
      BY <2>1, <2>2 DEF CursorInv
  \* The walk reaches below everything that is scanned.
  <1>7. from <= CollectionStart
    <2>1. first <= CollectionStart
      BY DEF PlanScan, IsFirstSlot
    <2>2. from <= WalkStartFrom(first) /\ WalkStartFrom(first) <= first
      BY <1>3, WalkStartBelow, SaturationBounds
    <2> QED
      BY <1>3, <2>1, <2>2
  <1>8. ASSUME NEW s \in todo'
        PROVE  /\ s \notin cover /\ s >= Floor
               /\ \A x \in Ancestry[tip] : BlockSlot[x] = s => x \in chain
    <2>1. s \in Slots
      BY <1>1 DEF TypeOK
    <2>2. s \in Nat
      BY <2>1, SlotFacts
    <2>3. CASE CollectionStart <= s
      BY <1>3, <1>4, <1>5, <1>7, <2>2, <2>3, WalkIsComplete
    <2>4. CASE s \in MissingCoverage(chain)
      BY <2>4, <1>3, WalkIsComplete DEF MissingCoverage, Newest
    <2> QED
      BY <1>2, <2>3, <2>4 DEF SlotsToScan, Newest
  <1>9. chain \subseteq Ancestry[tip]
    BY DEF ResolveChain
  <1>10. Recent \subseteq chain
    BY DEF PlanScan, Changed, Recent
  <1> HIDE DEF from, chain
  <1>11. ScanInv'
    BY <1>2, <1>8, <1>9, <1>10 DEF ScanInv, OneBranchCollected, Recent, Floor, MinEpoch, HeadSlot, dbVars
  <1>12. CheckpointInv'
    BY <1>2 DEF CheckpointInv, EpochOf, IsAncestorAt, nodeVars
  <1>13. SlotEvidence' /\ VoteEvidence' /\ FinalInv' /\ FinalMissesReal' /\ NodeInv'
    BY <1>2, EvidenceUnchanged DEF dbVars
  <1> QED
    BY <1>1, <1>6, <1>11, <1>12, <1>13

\* Seeding an epoch's row adds "not included" where there was no row.
LEMMA DutiesKeep ==
    ASSUME IInv, NEW e \in Epochs, NEW o \in DutyOutcomes, FetchDuties(e, o)
    PROVE  IInv'
  <1> USE DEF IInv
  <1>1. TypeOK'
    BY TypeStep DEF Next, Work
  <1>2. /\ todo' \subseteq todo /\ pc = "collect"
        /\ UNCHANGED <<nodeVars, stored, cover, attFinal, slotRow, slotFinal, pc, next, tip, chkpt, resolved>>
    BY DEF FetchDuties
  <1>3. \A f \in Epochs : inclusion'[f] = inclusion[f] \/ inclusion[f] = NoRow
    BY DEF FetchDuties, TypeOK
  <1>4. CheckpointInv' /\ CursorInv'
    BY <1>2 DEF CheckpointInv, CursorInv, EpochOf, IsAncestorAt, nodeVars, Floor, MinEpoch, HeadSlot
  <1>5. ScanInv'
    BY <1>2 DEF ScanInv, OneBranchCollected, Recent, Floor, MinEpoch, HeadSlot
  <1>6. SlotEvidence' /\ NodeInv'
    BY <1>2 DEF SlotEvidence, NodeInv, EpochOf, IsAncestorAt, nodeVars
  <1>7. NoRow \notin Blocks
    BY DistinctAssumption
  <1>8. VoteEvidence'
    BY <1>2, <1>3, <1>7 DEF VoteEvidence, InVoteWindow
  <1>9. attFinal \subseteq Epochs
    BY DEF TypeOK
  <1>10. \A f \in attFinal : inclusion'[f] = inclusion[f]
    BY <1>3, <1>9 DEF FinalInv
  <1>11. FinalInv' /\ FinalMissesReal'
    BY <1>2, <1>10 DEF FinalInv, FinalMissesReal, FinalBlockAt, InVoteWindow, nodeVars
  <1> QED
    BY <1>1, <1>4, <1>5, <1>6, <1>8, <1>11

\* At a slot the resolved chain skips, no block is recorded.
LEMMA SkippedIsUnrecorded ==
    ASSUME IInv, NEW s \in todo, pc = "collect", \A b \in resolved : BlockSlot[b] # s
    PROVE  \A b \in stored : BlockSlot[b] # s
  BY DEF IInv, ScanInv, OneBranchCollected, Recent

\* Processing a slot moves the cursor above it and never touches final rows.
LEMMA CoverageKeeps ==
    ASSUME IInv, NEW s \in todo, NEW o, RecordCoverage(s, o), pc = "collect",
           UNCHANGED <<nodeVars, pc, tip, chkpt>>
    PROVE  /\ CursorInv' /\ CheckpointInv' /\ NodeInv'
           /\ cover' \subseteq cover \cup {s} /\ todo' = todo \ {s} /\ s \notin cover
  <1> USE DEF IInv
  <1>1. /\ s \in Nat /\ next \in Nat /\ cover \subseteq Nat
        /\ next <= Greater(next, s + 1) /\ s + 1 <= Greater(next, s + 1)
        /\ Greater(next, s + 1) \in Nat
    <2>1. s \in Nat /\ s + 1 \in Nat /\ next \in Nat /\ cover \subseteq Nat
      BY SlotFacts DEF TypeOK
    <2> QED
      BY <2>1, SaturationBounds
  <1>2. CursorInv'
    <2>1. CASE cover' = cover /\ next' = next
      BY <2>1 DEF CursorInv, EpochOf, nodeVars
    <2>2. CASE cover' = cover \cup {s} /\ next' = Greater(next, s + 1)
      <3>1. next' # 0 /\ pc' # "oldBranch"
        BY <1>1, <2>2
      <3>2. ASSUME NEW t \in cover'
            PROVE  t < next'
        <4>1. CASE t = s
          BY <1>1, <2>2, <4>1
        <4>2. CASE t \in cover
          <5>1. t < next /\ t \in Nat
            BY <1>1, <4>2 DEF CursorInv
          <5> QED
            BY <1>1, <2>2, <5>1
        <4> QED
          BY <2>2, <4>1, <4>2
      <3> QED
        BY <3>1, <3>2 DEF CursorInv
    <2> QED
      BY <2>1, <2>2 DEF RecordCoverage
  <1>3. CheckpointInv' /\ NodeInv'
    BY DEF CheckpointInv, NodeInv, EpochOf, IsAncestorAt, nodeVars
  <1>4. cover' \subseteq cover \cup {s} /\ todo' = todo \ {s} /\ s \notin cover
    BY DEF RecordCoverage, ScanInv
  <1> QED
    BY <1>2, <1>3, <1>4

LEMMA SkippedKeeps ==
    ASSUME IInv, NEW s \in Slots, NEW o \in SlotOutcomes, ProcessSkippedSlot(s, o)
    PROVE  IInv'
  <1> USE DEF IInv
  <1>1. TypeOK'
    BY TypeStep DEF Next, Work
  <1>2. /\ s \in todo /\ pc = "collect" /\ RecordCoverage(s, o)
        /\ UNCHANGED <<nodeVars, stored, inclusion, attFinal, slotFinal, pc, tip, chkpt, resolved>>
        /\ \A b \in stored : BlockSlot[b] # s
    BY SkippedIsUnrecorded DEF ProcessSkippedSlot, ReadyFor
  <1>3. /\ CursorInv' /\ CheckpointInv' /\ NodeInv'
        /\ cover' \subseteq cover \cup {s} /\ todo' = todo \ {s} /\ s \notin cover
    BY <1>2, CoverageKeeps
  <1>4. \A t \in Slots : t # s \/ t \in slotFinal => slotRow'[t] = slotRow[t]
    BY DEF ProcessSkippedSlot, WriteSlotRow, TypeOK
  <1>5. cover \subseteq Slots /\ slotFinal \subseteq Slots
    BY DEF TypeOK
  <1>6. ScanInv'
    BY <1>2, <1>3 DEF ScanInv, OneBranchCollected, Recent, Floor, MinEpoch, HeadSlot
  <1>7. SlotEvidence'
    BY <1>2, <1>3, <1>4, <1>5 DEF SlotEvidence
  <1>8. VoteEvidence'
    BY <1>2, <1>3 DEF VoteEvidence, InVoteWindow
  <1>9. FinalInv' /\ FinalMissesReal'
    BY <1>2, <1>4, <1>5 DEF FinalInv, FinalMissesReal, FinalBlockAt, InVoteWindow, nodeVars
  <1> QED
    BY <1>1, <1>3, <1>6, <1>7, <1>8, <1>9

LEMMA BlockKeeps ==
    ASSUME IInv, NEW b \in Blocks, NEW o \in SlotOutcomes, NEW written \in SUBSET Votes[b],
           ProcessBlock(b, o, written)
    PROVE  IInv'
  <1> USE DEF IInv
  <1> DEFINE s == BlockSlot[b]
             votes == {e \in Epochs \cap Votes[b] : InVoteWindow(e, s)}
  <1>1. TypeOK'
    BY TypeStep DEF Next, Work
  <1>2. /\ s \in todo /\ pc = "collect" /\ RecordCoverage(s, o) /\ b \in resolved
        /\ UNCHANGED <<nodeVars, attFinal, slotFinal, pc, tip, chkpt, resolved>>
        /\ o = "covered" => written = votes
    BY DEF ProcessBlock, ReadyFor
  <1>3. /\ CursorInv' /\ CheckpointInv' /\ NodeInv'
        /\ cover' \subseteq cover \cup {s} /\ todo' = todo \ {s} /\ s \notin cover
    BY <1>2, CoverageKeeps
  <1>4. s \in cover' => o = "covered" /\ "slot" \in duties[SlotToEpoch(s)]
    BY <1>2, <1>3 DEF RecordCoverage
  <1>5. /\ stored' \subseteq stored \cup {b}
        /\ o = "covered" => \A x \in stored' : BlockSlot[x] = s => x = b
    BY DEF ProcessBlock
  <1>6. \A t \in Slots : t # s \/ t \in slotFinal => slotRow'[t] = slotRow[t]
    BY DEF ProcessBlock, WriteSlotRow, TypeOK
  <1>7. cover \subseteq Slots /\ slotFinal \subseteq Slots /\ attFinal \subseteq Epochs /\ s \in Slots
    BY SlotFacts DEF TypeOK
  <1>8. \A e \in Epochs : /\ e \in attFinal => inclusion'[e] = inclusion[e]
                          /\ inclusion[e] \in Blocks => inclusion'[e] \in Blocks
                          /\ e \in written \ attFinal => inclusion'[e] \in Blocks
    BY DEF ProcessBlock, AcceptsInclusion
  <1>9. ScanInv'
    <2>1. b \in Ancestry[tip]
      BY <1>2 DEF ScanInv
    <2> QED
      BY <1>2, <1>3, <1>5, <2>1 DEF ScanInv, OneBranchCollected, Recent, Floor, MinEpoch, HeadSlot
  <1>10. SlotEvidence'
    <2> SUFFICES ASSUME NEW t \in cover' \ slotFinal', slotRow'[t] = "missed",
                        NEW x \in stored', BlockSlot[x] = t
                 PROVE  FALSE
      BY DEF SlotEvidence
    <2>1. CASE t = s
      <3>1. slotRow'[s] = "proposed"
        BY <1>2, <1>4, <1>7, <2>1 DEF ProcessBlock, WriteSlotRow, TypeOK
      <3> QED
        BY <2>1, <3>1
    <2>2. CASE t # s
      BY <1>2, <1>3, <1>5, <1>6, <1>7, <2>2 DEF SlotEvidence
    <2> QED
      BY <2>1, <2>2
  <1>11. VoteEvidence'
    <2> SUFFICES ASSUME NEW x \in stored', BlockSlot[x] \in cover',
                        NEW e \in (Epochs \cap Votes[x]) \ attFinal', InVoteWindow(e, BlockSlot[x])
                 PROVE  inclusion'[e] \in Blocks
      BY DEF VoteEvidence, InVoteWindow
    <2>1. CASE BlockSlot[x] = s
      BY <1>2, <1>4, <1>5, <1>8, <2>1
    <2>2. CASE BlockSlot[x] # s
      BY <1>2, <1>3, <1>5, <1>8, <2>2 DEF VoteEvidence
    <2> QED
      BY <2>1, <2>2
  <1>12. FinalInv' /\ FinalMissesReal'
    BY <1>2, <1>6, <1>7, <1>8 DEF FinalInv, FinalMissesReal, FinalBlockAt, InVoteWindow, nodeVars
  <1> QED
    BY <1>1, <1>3, <1>9, <1>10, <1>11, <1>12

---------------------------------------------------------------------------
(* Finalization *)

\* The block of the checkpoint a poll uses is on the node's finalized chain, and
\* carries all of that chain before the checkpoint.
LEMMA CheckpointChain ==
    ASSUME IInv, pc # "idle", NEW root \in Blocks, IsAncestorAt(root, tip, EpochStartSlot(chkpt)),
           NEW b \in Ancestry[finRoot], BlockSlot[b] < EpochStartSlot(chkpt)
    PROVE  b \in Ancestry[root]
  <1>1. IsAncestorAt(root, finRoot, EpochStartSlot(chkpt)) /\ finRoot \in Blocks
    BY DEF IInv, CheckpointInv, TypeOK, NodeTypeOK
  <1>2. EpochStartSlot(chkpt) \in Nat /\ BlockSlot[b] \in Nat
    BY <1>1, SlotFacts, AncestryAssumption, BlockSlotAssumption DEF IInv, TypeOK
  <1> QED
    BY <1>1, <1>2, BelowAncestor

\* A finalized block at or above the lowest confirmed one is recorded.
LEMMA ConfirmedIsStored ==
    ASSUME NEW root \in Blocks, NEW first \in ConfirmedAncestry(root), NEW b \in Ancestry[root],
           BlockSlot[first] <= BlockSlot[b]
    PROVE  b \in stored
  BY DEF ConfirmedAncestry

\* Why a promotion is sound: where the poll confirms, all of the finalized chain
\* is recorded, so a covered slot without a block is skipped by that chain and a
\* fully covered window without a vote has none.
LEMMA PromoteSound ==
    ASSUME IInv, pc = "finalize", NEW root \in Blocks, NEW first \in ConfirmedAncestry(root),
           NEW rewarded, IsAncestorAt(root, tip, EpochStartSlot(chkpt)),
           Promote(ConfirmedAncestry(root), BlockSlot[first], rewarded)
    PROVE  /\ \A s \in slotFinal' \ slotFinal :
                 SlotToEpoch(s) < chkpt /\ (slotRow[s] = "missed" => ~FinalBlockAt(s))
           /\ \A e \in attFinal' \ attFinal :
                 /\ inclusion[e] # NoRow
                 /\ inclusion[e] = NotIncluded =>
                      /\ e + 2 <= chkpt
                      /\ \A b \in Ancestry[finRoot] : InVoteWindow(e, BlockSlot[b]) => e \notin Votes[b]
  <1> USE DEF IInv
  <1> DEFINE floor == BlockSlot[first]
  <1>1. /\ chkpt \in Nat /\ finRoot \in Blocks /\ EpochStartSlot(chkpt) \in Nat
        /\ Ancestry[finRoot] \subseteq Blocks /\ first \in Blocks /\ floor \in Nat
        /\ Slots \subseteq Nat /\ Epochs \subseteq Nat
    BY SlotFacts, AncestryAssumption DEF TypeOK, NodeTypeOK, ConfirmedAncestry
  \* Above the floor and before the checkpoint, finalized blocks are recorded.
  <1>2. ASSUME NEW b \in Ancestry[finRoot], floor <= BlockSlot[b], BlockSlot[b] < EpochStartSlot(chkpt)
        PROVE  b \in stored
    <2>1. b \in Ancestry[root]
      BY <1>2, CheckpointChain
    <2> QED
      BY <1>2, <2>1, ConfirmedIsStored
  \* A slot with evidence of a miss is skipped by the finalized chain.
  <1>3. ASSUME NEW s \in Slots, floor <= s, SlotToEpoch(s) < chkpt, \A b \in stored : BlockSlot[b] # s
        PROVE  ~FinalBlockAt(s)
    <2>1. s < EpochStartSlot(chkpt)
      BY <1>1, <1>3, BeforeEpoch
    <2> QED
      BY <1>2, <1>3, <2>1 DEF FinalBlockAt
  \* An epoch that is fully covered from the floor on: all its slots are covered
  \* and decided by the checkpoint.
  <1>4. ASSUME NEW e \in Epochs, e \in FinalizedScanTargets(chkpt), EpochStartSlot(e) >= floor,
               FullyCovered(e), NEW s \in Nat, InVoteWindow(e, s)
        PROVE  s \in cover /\ floor <= s /\ s < EpochStartSlot(chkpt)
    <2>1. e \in Nat /\ e + 2 <= chkpt
      BY <1>1, <1>4, ScanTargetBounds
    <2>2. /\ EpochStartSlot(e) <= s /\ s < EpochStartSlot(e + 2) /\ s < EpochStartSlot(chkpt)
          /\ EpochStartSlot(e) \in Nat /\ EpochStartSlot(e + 2) \in Nat
      <3>1. s \in Nat /\ InVoteWindow(e, s) /\ chkpt \in Nat
        BY <1>1, <1>4
      <3>2. /\ EpochStartSlot(e) <= s /\ s < EpochStartSlot(e + 2)
            /\ \A f \in Nat : e + 2 <= f => s < EpochStartSlot(f)
        BY <2>1, <3>1, VoteWindowBounds
      <3>3. EpochStartSlot(e) \in Nat /\ EpochStartSlot(e + 2) \in Nat
        BY <2>1, SlotFacts
      <3> QED
        BY <2>1, <3>1, <3>2, <3>3
    <2>3. s \in EpochStartSlot(e)..(EpochStartSlot(e + 2) - 1)
      BY <2>2
    <2> QED
      BY <1>1, <1>4, <2>2, <2>3 DEF FullyCovered
  <1>5. ASSUME NEW s \in slotFinal' \ slotFinal
        PROVE  SlotToEpoch(s) < chkpt /\ (slotRow[s] = "missed" => ~FinalBlockAt(s))
    <2>1. s \in Slots /\ s \in Nat
      BY <1>1 DEF Promote
    <2>2. CASE /\ SlotToEpoch(s) < chkpt
               /\ s >= floor
               /\ s \in cover
               /\ \/ /\ slotRow[s] = "proposed"
                     /\ \E b \in stored \cap ConfirmedAncestry(root) : BlockSlot[b] = s
                  \/ /\ slotRow[s] = "missed"
                     /\ \A b \in stored : BlockSlot[b] # s
      BY <1>1, <1>3, <2>1, <2>2
    <2>3. ASSUME NEW e \in Epochs, SlotToEpoch(s) = e, e \in FinalizedScanTargets(chkpt),
                 EpochStartSlot(e) >= floor, FullyCovered(e)
          PROVE  SlotToEpoch(s) < chkpt /\ (slotRow[s] = "missed" => ~FinalBlockAt(s))
      <3>1. s \in cover /\ floor <= s
        BY <1>4, <2>1, <2>3 DEF InVoteWindow
      <3>2. SlotToEpoch(s) < chkpt
        BY <1>1, <2>3, ScanTargetBounds
      <3>3. slotRow[s] = "missed" => \A b \in stored : BlockSlot[b] # s
        BY <3>1 DEF SlotEvidence
      <3> QED
        BY <1>3, <2>1, <3>1, <3>2, <3>3
    <2> QED
      BY <2>2, <2>3 DEF Promote
  <1>6. ASSUME NEW e \in attFinal' \ attFinal
        PROVE  /\ inclusion[e] # NoRow
               /\ inclusion[e] = NotIncluded =>
                    /\ e + 2 <= chkpt
                    /\ \A b \in Ancestry[finRoot] : InVoteWindow(e, BlockSlot[b]) => e \notin Votes[b]
    <2>1. CASE e \in Epochs /\ inclusion[e] \in Blocks
      BY <2>1, DistinctAssumption
    <2>2. CASE /\ e \in Epochs
               /\ e \in FinalizedScanTargets(chkpt)
               /\ EpochStartSlot(e) >= floor
               /\ FullyCovered(e)
               /\ inclusion[e] # NoRow
      <3>1. e + 2 <= chkpt
        BY <1>1, <2>2, ScanTargetBounds
      <3>2. ASSUME inclusion[e] = NotIncluded, NEW b \in Ancestry[finRoot],
                   InVoteWindow(e, BlockSlot[b]), e \in Votes[b]
            PROVE  FALSE
        <4>1. BlockSlot[b] \in Nat
          BY <1>1, SlotFacts
        <4>2. BlockSlot[b] \in cover /\ floor <= BlockSlot[b] /\ BlockSlot[b] < EpochStartSlot(chkpt)
          BY <1>4, <2>2, <3>2, <4>1
        <4>3. b \in stored
          BY <1>2, <4>2
        <4>4. inclusion[e] \in Blocks
          BY <2>2, <3>2, <4>2, <4>3 DEF VoteEvidence
        <4> QED
          BY <3>2, <4>4, DistinctAssumption
      <3> QED
        BY <2>2, <3>1, <3>2
    <2> QED
      BY <2>1, <2>2 DEF Promote
  <1> QED
    BY <1>5, <1>6

LEMMA FinalizeKeeps ==
    ASSUME IInv, NEW root \in Blocks, NEW first \in Blocks,
           NEW rewarded \in SUBSET FinalizedScanTargets(chkpt), Finalize(root, first, rewarded)
    PROVE  IInv'
  <1> USE DEF IInv
  <1>1. TypeOK'
    BY TypeStep DEF Next, Work
  <1>2. /\ pc = "finalize" /\ pc' = "idle"
        /\ UNCHANGED <<nodeVars, inclusion, slotRow, next>>
        /\ IsAncestorAt(root, tip, EpochStartSlot(chkpt))
    BY DEF Finalize, EndPoll
  <1>3. cover' \subseteq cover /\ stored' \subseteq stored
    BY DEF Finalize, Prune
  <1>4. attFinal \subseteq attFinal' /\ slotFinal \subseteq slotFinal'
    BY DEF Finalize, Promote
  <1>5. /\ \A s \in slotFinal' \ slotFinal :
              SlotToEpoch(s) < chkpt /\ (slotRow[s] = "missed" => ~FinalBlockAt(s))
        /\ \A e \in attFinal' \ attFinal :
              /\ inclusion[e] # NoRow
              /\ inclusion[e] = NotIncluded =>
                   /\ e + 2 <= chkpt
                   /\ \A b \in Ancestry[finRoot] : InVoteWindow(e, BlockSlot[b]) => e \notin Votes[b]
    <2>1. CASE UNCHANGED <<attFinal, slotFinal, completed>>
      BY <2>1
    <2>2. CASE /\ first \in ConfirmedAncestry(root)
               /\ Promote(ConfirmedAncestry(root), BlockSlot[first], rewarded)
      BY <1>2, <2>2, PromoteSound
    <2> QED
      BY <2>1, <2>2 DEF Finalize
  <1>6. /\ chkpt \in Nat /\ finEpoch \in Nat /\ chkpt <= finEpoch
        /\ \A s \in slotFinal' : SlotToEpoch(s) \in Nat
        /\ attFinal' \subseteq Nat
    BY <1>1, <1>2, SlotFacts DEF TypeOK, NodeTypeOK, CheckpointInv
  <1>7. FinalInv'
    <2>1. ASSUME NEW s \in slotFinal'
          PROVE  SlotToEpoch(s) < finEpoch
      <3>1. CASE s \in slotFinal
        BY <3>1 DEF FinalInv
      <3>2. CASE s \notin slotFinal
        <4>1. SlotToEpoch(s) < chkpt /\ SlotToEpoch(s) \in Nat
          BY <1>5, <1>6, <2>1, <3>2
        <4> QED
          BY <1>6, <4>1
      <3> QED
        BY <3>1, <3>2
    <2>2. ASSUME NEW e \in attFinal'
          PROVE  inclusion[e] # NoRow /\ (inclusion[e] = NotIncluded => e + 2 <= finEpoch)
      <3>1. CASE e \in attFinal
        BY <3>1 DEF FinalInv
      <3>2. CASE e \notin attFinal
        BY <1>5, <1>6, <2>2, <3>2
      <3> QED
        BY <3>1, <3>2
    <2> QED
      BY <1>2, <2>1, <2>2 DEF FinalInv, nodeVars
  <1>8. FinalMissesReal'
    BY <1>2, <1>5 DEF FinalMissesReal, FinalBlockAt, InVoteWindow, nodeVars
  <1>9. CursorInv'
    BY <1>2, <1>3 DEF CursorInv, nodeVars
  <1>10. SlotEvidence' /\ VoteEvidence'
    BY <1>2, <1>3, <1>4 DEF SlotEvidence, VoteEvidence, InVoteWindow
  <1>11. NodeInv'
    BY <1>2 DEF NodeInv, EpochOf, IsAncestorAt, nodeVars
  <1> QED
    BY <1>1, <1>2, <1>7, <1>8, <1>9, <1>10, <1>11, IdleClaims

---------------------------------------------------------------------------
(* The theorems *)

LEMMA InvInit == Init => IInv
  <1> SUFFICES ASSUME Init
               PROVE  IInv
    OBVIOUS
  <1>1. TypeOK
    BY TypeInit
  <1>2. NodeInv
    <2>1. EpochStartSlot(0) = 0
      BY SlotsPerEpochAssumption DEF EpochStartSlot
    <2>2. EpochOf(head) \in Nat
      BY <1>1, SlotFacts DEF TypeOK, NodeTypeOK, EpochOf
    <2> QED
      BY <2>1, <2>2, HeadAssumption DEF Init, NodeInit, NodeInv, EpochOf
  <1>3. CheckpointInv /\ CursorInv /\ ScanInv
    BY DEF Init, CheckpointInv, CursorInv, ScanInv, OneBranchCollected
  <1>4. SlotEvidence /\ VoteEvidence /\ FinalInv /\ FinalMissesReal
    BY DEF Init, SlotEvidence, VoteEvidence, FinalInv, FinalMissesReal
  <1> QED
    BY <1>1, <1>2, <1>3, <1>4 DEF IInv

LEMMA InvStep == IInv /\ [Next]_vars => IInv'
  <1> SUFFICES ASSUME IInv, [Next]_vars
               PROVE  IInv'
    OBVIOUS
  <1>1. TypeOK'
    BY TypeStep DEF IInv
  <1>2. CASE UNCHANGED vars
    <2>1. CheckpointInv' /\ CursorInv' /\ ScanInv'
      BY <1>2 DEF vars, nodeVars, dbVars, pollVars, IInv, CheckpointInv, CursorInv, ScanInv, EpochOf,
                  IsAncestorAt, OneBranchCollected, Recent, Floor, MinEpoch, HeadSlot
    <2>2. SlotEvidence' /\ VoteEvidence' /\ FinalInv' /\ FinalMissesReal' /\ NodeInv'
      BY <1>2, EvidenceUnchanged DEF vars, dbVars, IInv
    <2> QED
      BY <1>1, <2>1, <2>2 DEF IInv
  <1>3. CASE NodeStep
    BY <1>3, NodeKeeps
  <1>4. CASE Poll
    BY <1>4, PollKeeps
  <1>5. ASSUME NEW newest \in Blocks, NEW first \in Blocks, NEW fails \in BOOLEAN,
               CheckOldBranch(newest, first, fails)
        PROVE  IInv'
    BY <1>5, OldBranchKeeps
  <1>6. ASSUME NEW first \in 0..(LastSlot + 1), NEW b \in Blocks, RollbackChanged(first, b)
        PROVE  IInv'
    BY <1>1, <1>6, RollbackKeeps, SlotFacts DEF RollbackChanged
  <1>7. ASSUME NEW first \in 0..(LastSlot + 1), RollbackBeyondHead(first)
        PROVE  IInv'
    <2>1. HeadSlot + 1 \in Nat
      BY PlanType DEF IInv
    <2> QED
      BY <1>1, <1>7, <2>1, RollbackKeeps DEF RollbackBeyondHead
  <1>8. ASSUME NEW first \in 0..(LastSlot + 1), PlanScan(first)
        PROVE  IInv'
    BY <1>8, PlanKeeps
  <1>9. ASSUME NEW e \in Epochs, NEW o \in DutyOutcomes, FetchDuties(e, o)
        PROVE  IInv'
    BY <1>9, DutiesKeep
  <1>10. ASSUME NEW s \in Slots, NEW o \in SlotOutcomes, ProcessSkippedSlot(s, o)
         PROVE  IInv'
    BY <1>10, SkippedKeeps
  <1>11. ASSUME NEW b \in Blocks, NEW o \in SlotOutcomes, NEW written \in SUBSET Votes[b],
                ProcessBlock(b, o, written)
         PROVE  IInv'
    BY <1>11, BlockKeeps
  <1>12. ASSUME NEW optimistic \in Optimistic, BranchSwitched(optimistic)
         PROVE  IInv'
    <2>1. walkStart \in Nat
      BY DEF IInv, TypeOK
    <2> QED
      BY <1>1, <1>12, <2>1, RollbackKeeps DEF BranchSwitched
  <1>13. CASE HeadSlotEmptied
    BY <1>1, <1>13, PollEndKeeps DEF HeadSlotEmptied
  <1>14. CASE BranchConfirmed
    BY <1>14, ConfirmedKeeps
  <1>15. ASSUME NEW root \in Blocks, NEW first \in Blocks,
                NEW rewarded \in SUBSET FinalizedScanTargets(chkpt), Finalize(root, first, rewarded)
         PROVE  IInv'
    BY <1>15, FinalizeKeeps
  <1>16. CASE Abort
    BY <1>1, <1>16, PollEndKeeps DEF Abort
  <1>17. CASE Restart
    BY <1>17, RestartKeeps
  <1> QED
    BY <1>2, <1>3, <1>4, <1>5, <1>6, <1>7, <1>8, <1>9, <1>10, <1>11, <1>12, <1>13, <1>14,
       <1>15, <1>16, <1>17 DEF Next, Work

THEOREM InductiveInvariant == Spec => []IInv
  BY InvInit, InvStep, PTL DEF Spec

\* A miss is final only if it is real, whatever the tree of blocks, the reorgs
\* within the fallback bound, the faults, the crashes and the order of requests.
THEOREM MissesReal == Spec => []FinalMissesReal
  <1>1. IInv => FinalMissesReal
    BY DEF IInv
  <1> QED
    BY <1>1, InductiveInvariant, PTL

\* The window's stored blocks are on the one branch a poll collects.
THEOREM OneBranch == Spec => []OneBranchCollected
  <1>1. IInv => OneBranchCollected
    BY DEF IInv, ScanInv
  <1> QED
    BY <1>1, InductiveInvariant, PTL

\* No step of the worker or the node changes or removes a final row.
LEMMA StepKeepsFinalRows == IInv /\ [Next]_vars => [KeepsFinalRows]_vars
  <1> SUFFICES ASSUME IInv, Next
               PROVE  KeepsFinalRows
    OBVIOUS
  <1> USE DEF KeepsFinalRows
  <1>1. attFinal \subseteq Epochs /\ slotFinal \subseteq Slots
    BY DEF IInv, TypeOK
  <1>2. CASE UNCHANGED <<inclusion, attFinal, slotRow, slotFinal>>
    BY <1>2
  <1>3. ASSUME NEW from, InvalidateFrom(from)
        PROVE  KeepsFinalRows
    BY <1>1, <1>3 DEF InvalidateFrom
  <1>4. ASSUME NEW e \in Epochs, NEW o \in DutyOutcomes, FetchDuties(e, o)
        PROVE  KeepsFinalRows
    BY <1>1, <1>4 DEF FetchDuties, IInv, FinalInv, TypeOK
  <1>5. ASSUME NEW s \in Slots, NEW o \in SlotOutcomes, ProcessSkippedSlot(s, o)
        PROVE  KeepsFinalRows
    BY <1>1, <1>5 DEF ProcessSkippedSlot, WriteSlotRow, IInv, TypeOK
  <1>6. ASSUME NEW b \in Blocks, NEW o \in SlotOutcomes, NEW written \in SUBSET Votes[b],
               ProcessBlock(b, o, written)
        PROVE  KeepsFinalRows
    BY <1>1, <1>6, SlotFacts DEF ProcessBlock, WriteSlotRow, AcceptsInclusion, IInv, TypeOK
  <1>7. ASSUME NEW root \in Blocks, NEW first \in Blocks,
               NEW rewarded \in SUBSET FinalizedScanTargets(chkpt), Finalize(root, first, rewarded)
        PROVE  KeepsFinalRows
    BY <1>1, <1>7 DEF Finalize, Promote
  <1> QED
    BY <1>2, <1>3, <1>4, <1>5, <1>6, <1>7
    DEF Next, Work, NodeStep, Poll, CheckOldBranch, RollbackChanged, RollbackBeyondHead, Rollback,
        PlanScan, BranchSwitched, HeadSlotEmptied, BranchConfirmed, Abort, Restart, dbVars

THEOREM RowsFrozen == Spec => FinalRowsFrozen
  BY InductiveInvariant, StepKeepsFinalRows, PTL DEF Spec, FinalRowsFrozen

---------------------------------------------------------------------------
(* Completed epochs are whole *)

WholeInv == RowsCollected /\ CompletedEpochsWhole

LEMMA WholeUnchanged ==
    ASSUME WholeInv, TypeOK, cover' \subseteq cover,
           UNCHANGED <<attFinal, slotFinal, completed>>,
           \A s \in cover' \cup slotFinal : slotRow'[s] = slotRow[s]
    PROVE  WholeInv'
  BY DEF WholeInv, RowsCollected, CompletedEpochsWhole

\* A rollback keeps the rows below it and the final ones.
LEMMA WholeInvalidate ==
    ASSUME WholeInv, TypeOK, NEW from \in Nat, InvalidateFrom(from)
    PROVE  WholeInv'
  <1>1. /\ cover' = {s \in cover : s < from} /\ UNCHANGED <<attFinal, slotFinal, completed>>
        /\ slotRow' = [s \in Slots |->
             IF s >= from /\ s \notin slotFinal THEN "none" ELSE slotRow[s]]
    BY DEF InvalidateFrom
  <1>2. cover \subseteq Nat /\ cover \subseteq Slots /\ slotFinal \subseteq Slots
    BY SlotFacts DEF TypeOK, Slots
  <1>3. ASSUME NEW s \in cover' \cup slotFinal
        PROVE  slotRow'[s] # "none"
    <2>1. CASE s \in slotFinal
      BY <1>1, <1>2, <2>1 DEF WholeInv, RowsCollected
    <2>2. CASE s \in cover'
      <3>1. s \in cover /\ s < from /\ s \in Nat /\ s \in Slots
        BY <1>1, <1>2, <2>2
      <3>2. ~(s >= from)
        BY <3>1
      <3> QED
        BY <1>1, <3>1, <3>2 DEF WholeInv, RowsCollected
    <2> QED
      BY <1>3, <2>1, <2>2
  <1> QED
    BY <1>1, <1>3 DEF WholeInv, RowsCollected, CompletedEpochsWhole

\* A slot is covered with complete assignments only, so its row is written.
LEMMA WholeProcessed ==
    ASSUME WholeInv, TypeOK, NEW s \in Slots, NEW outcome, NEW value \in {"missed", "proposed"},
           WriteSlotRow(s, value, outcome), RecordCoverage(s, outcome),
           UNCHANGED <<attFinal, slotFinal, completed>>
    PROVE  WholeInv'
  <1>1. ASSUME NEW t \in cover' \cup slotFinal
        PROVE  slotRow'[t] # "none"
    <2>1. slotRow[t] # "none" => slotRow'[t] # "none"
      BY DEF WriteSlotRow, TypeOK
    <2>2. CASE t \in cover \cup slotFinal
      BY <2>1, <2>2 DEF WholeInv, RowsCollected
    <2>3. CASE t \notin cover \cup slotFinal
      <3>1. t = s /\ outcome = "covered" /\ "slot" \in duties[SlotToEpoch(s)]
        BY <1>1, <2>3 DEF RecordCoverage
      <3>2. slotRow' = [slotRow EXCEPT ![s] = value]
        BY <2>3, <3>1 DEF WriteSlotRow
      <3> QED
        BY <3>1, <3>2 DEF TypeOK
    <2> QED
      BY <2>2, <2>3
  <1> QED
    BY <1>1 DEF WholeInv, RowsCollected, CompletedEpochsWhole

\* An epoch is completed with its window covered: its row and those of its
\* slots become final with it.
LEMMA WholePromoted ==
    ASSUME WholeInv, TypeOK, NEW confirmed, NEW floor, NEW rewarded,
           Promote(confirmed, floor, rewarded), cover' \subseteq cover, UNCHANGED slotRow
    PROVE  WholeInv'
  <1>1. attFinal \subseteq attFinal' /\ slotFinal \subseteq slotFinal'
    BY DEF Promote
  <1>2. \A s \in slotFinal' \ slotFinal : slotRow[s] # "none"
    BY DEF Promote
  <1>3. RowsCollected'
    BY <1>2 DEF WholeInv, RowsCollected
  <1>4. ASSUME NEW e \in completed'
        PROVE  /\ e \in attFinal'
               /\ \A s \in EpochStartSlot(e)..(EpochStartSlot(e + 1) - 1) : s \in slotFinal'
    <2>1. CASE e \in completed
      BY <1>1, <2>1 DEF WholeInv, CompletedEpochsWhole
    <2>2. CASE e \notin completed
      <3>1. e \in Epochs /\ FullyCovered(e) /\ e \in attFinal'
        BY <1>4, <2>2 DEF Promote
      <3>2. ASSUME NEW s \in EpochStartSlot(e)..(EpochStartSlot(e + 1) - 1)
            PROVE  s \in slotFinal'
        <4>1. /\ e \in Nat /\ EpochStartSlot(e) \in Nat /\ EpochStartSlot(e + 1) \in Nat
              /\ EpochStartSlot(e + 2) \in Nat /\ EpochStartSlot(e + 1) <= EpochStartSlot(e + 2)
          <5>1. e \in Nat /\ e + 1 \in Nat /\ e + 2 \in Nat /\ e + 1 <= e + 2
            BY <3>1, SlotFacts
          <5>2. /\ EpochStartSlot(e) \in Nat /\ EpochStartSlot(e + 1) \in Nat
                /\ EpochStartSlot(e + 2) \in Nat
            BY <5>1, SlotFacts
          <5>3. EpochStartSlot(e + 1) <= EpochStartSlot(e + 2)
            BY <5>1, EpochStartIncreases
          <5> QED
            BY <5>1, <5>2, <5>3
        <4>2. s \in Nat /\ EpochStartSlot(e) <= s /\ s < EpochStartSlot(e + 1)
          BY <4>1
        <4>3. SlotToEpoch(s) = e
          <5>1. e <= SlotToEpoch(s)
            BY <4>1, <4>2, EpochAtOrBelow
          <5>2. SlotToEpoch(s) < e + 1
            BY <4>1, <4>2, BeforeEpoch
          <5>3. SlotToEpoch(s) \in Nat
            BY <4>2, SlotFacts
          <5> QED
            BY <4>1, <5>1, <5>2, <5>3
        <4>4. s \in cover
          BY <3>1, <4>1, <4>2 DEF FullyCovered
        <4>5. s \in Slots /\ slotRow[s] # "none"
          BY <4>4 DEF WholeInv, RowsCollected, TypeOK
        <4> QED
          BY <1>4, <2>2, <4>3, <4>5 DEF Promote
      <3> QED
        BY <3>1, <3>2
    <2> QED
      BY <2>1, <2>2
  <1> QED
    BY <1>3, <1>4 DEF WholeInv, CompletedEpochsWhole

LEMMA WholeStep == WholeInv /\ TypeOK /\ [Next]_vars => WholeInv'
  <1> SUFFICES ASSUME WholeInv, TypeOK, [Next]_vars
               PROVE  WholeInv'
    OBVIOUS
  <1>1. CASE UNCHANGED <<cover, attFinal, slotFinal, completed, slotRow>>
    BY <1>1 DEF WholeInv, RowsCollected, CompletedEpochsWhole
  <1>2. ASSUME NEW newest \in Blocks, NEW first \in Blocks, NEW fails \in BOOLEAN,
               CheckOldBranch(newest, first, fails)
        PROVE  WholeInv'
    <2>1. ReplayStart(BlockSlot[first]) \in Nat
      BY ReplayStartType, SlotFacts
    <2> QED
      BY <1>1, <1>2, <2>1, WholeInvalidate DEF CheckOldBranch, dbVars
  <1>3. ASSUME NEW slot \in Nat, Rollback(slot)
        PROVE  WholeInv'
    BY <1>3, ReplayStartType, WholeInvalidate DEF Rollback
  <1>4. ASSUME NEW first \in 0..(LastSlot + 1), NEW b \in Blocks, RollbackChanged(first, b)
        PROVE  WholeInv'
    BY <1>3, <1>4, SlotFacts DEF RollbackChanged
  <1>5. ASSUME NEW first \in 0..(LastSlot + 1), RollbackBeyondHead(first)
        PROVE  WholeInv'
    <2>1. HeadSlot + 1 \in Nat
      BY PlanType
    <2> QED
      BY <1>3, <1>5, <2>1 DEF RollbackBeyondHead
  <1>6. ASSUME NEW optimistic \in Optimistic, BranchSwitched(optimistic)
        PROVE  WholeInv'
    <2>1. walkStart \in Nat
      BY DEF TypeOK
    <2> QED
      BY <1>3, <1>6, <2>1 DEF BranchSwitched
  <1>7. ASSUME NEW s \in Slots, NEW o \in SlotOutcomes, ProcessSkippedSlot(s, o)
        PROVE  WholeInv'
    BY <1>7, WholeProcessed DEF ProcessSkippedSlot
  <1>8. ASSUME NEW b \in Blocks, NEW o \in SlotOutcomes, NEW written \in SUBSET Votes[b],
               ProcessBlock(b, o, written)
        PROVE  WholeInv'
    <2>1. /\ WriteSlotRow(BlockSlot[b], "proposed", o) /\ RecordCoverage(BlockSlot[b], o)
          /\ UNCHANGED <<attFinal, slotFinal, completed>>
      BY <1>8 DEF ProcessBlock
    <2> QED
      BY <2>1, SlotFacts, WholeProcessed
  <1>9. ASSUME NEW root \in Blocks, NEW first \in Blocks,
               NEW rewarded \in SUBSET FinalizedScanTargets(chkpt), Finalize(root, first, rewarded)
        PROVE  WholeInv'
    <2>1. cover' \subseteq cover /\ UNCHANGED slotRow
      BY <1>9 DEF Finalize, Prune
    <2>2. CASE Promote(ConfirmedAncestry(root), BlockSlot[first], rewarded)
      BY <2>1, <2>2, WholePromoted
    <2>3. CASE UNCHANGED <<attFinal, slotFinal, completed>>
      BY <2>1, <2>3, WholeUnchanged
    <2> QED
      BY <1>9, <2>2, <2>3 DEF Finalize
  <1> QED
    BY <1>1, <1>2, <1>4, <1>5, <1>6, <1>7, <1>8, <1>9
    DEF Next, Work, NodeStep, Poll, PlanScan, FetchDuties, HeadSlotEmptied, BranchConfirmed,
        Abort, Restart, vars, dbVars

LEMMA WholeForever == Spec => []WholeInv
  <1>1. Init => WholeInv
    BY DEF Init, WholeInv, RowsCollected, CompletedEpochsWhole
  <1> QED
    BY <1>1, WholeStep, TypeCorrect, PTL DEF Spec

\* A slot is covered only with its row written, whichever assignments arrived,
\* and stays so through every rollback (live/head.rs process_slot,
\* db/scanner/live.rs invalidate_from).
THEOREM CoverageHasRows == Spec => []RowsCollected
  <1>1. WholeInv => RowsCollected
    BY DEF WholeInv
  <1> QED
    BY <1>1, WholeForever, PTL

\* A completed epoch has its final attestation row and a final row at each of its
\* slots, although assignments arrive in pieces (live/finalization.rs
\* promote_collected).
THEOREM EpochsWhole == Spec => []CompletedEpochsWhole
  <1>1. WholeInv => CompletedEpochsWhole
    BY DEF WholeInv
  <1> QED
    BY <1>1, WholeForever, PTL

---------------------------------------------------------------------------
(* Final proposals *)

\* The finalized chain only grows.
LEMMA FinalChainGrows ==
    ASSUME IInv, NodeStep
    PROVE  Ancestry[finRoot] \subseteq Ancestry[finRoot']
  <1>1. CASE finRoot' = finRoot
    BY <1>1
  <1>2. ASSUME NEW e \in 0..SlotToEpoch(BlockSlot[head]), NEW r \in Blocks, AdvanceFinality(e, r)
        PROVE  Ancestry[finRoot] \subseteq Ancestry[finRoot']
    <2>1. head \in Blocks /\ finEpoch \in Nat /\ e \in Nat /\ finEpoch <= e
      BY <1>2, SlotFacts DEF AdvanceFinality, IInv, TypeOK, NodeTypeOK
    <2>2. /\ EpochStartSlot(finEpoch) \in Nat /\ EpochStartSlot(e) \in Nat
          /\ EpochStartSlot(finEpoch) <= EpochStartSlot(e)
      BY <2>1, EpochStartIncreases
    <2>3. IsAncestorAt(r, head, EpochStartSlot(e)) /\ finRoot' = r
      BY <1>2 DEF AdvanceFinality
    <2>4. finRoot \in Ancestry[r]
      BY <2>1, <2>2, <2>3, AncestorsNest DEF IInv, NodeInv
    <2> QED
      BY <2>3, <2>4, AncestryAssumption
  <1> QED
    BY <1>1, <1>2 DEF NodeStep, NodeNext, MoveHead

\* A proposal is frozen with its block confirmed, by the block itself or, when its
\* epoch completes, by the reward staged under that block's root.
LEMMA PromotedProposals ==
    ASSUME IInv, pc = "finalize", NEW root \in Blocks, NEW floor, NEW rewarded,
           IsAncestorAt(root, tip, EpochStartSlot(chkpt)),
           Promote(ConfirmedAncestry(root), floor, rewarded),
           NEW s \in slotFinal' \ slotFinal, slotRow[s] = "proposed"
    PROVE  FinalBlockAt(s)
  <1>1. PICK b \in ConfirmedAncestry(root) : BlockSlot[b] = s
    BY DEF Promote, RewardsConfirmed
  <1>2. root \in Ancestry[finRoot] /\ finRoot \in Blocks
    BY DEF IInv, CheckpointInv, IsAncestorAt, TypeOK, NodeTypeOK
  <1>3. b \in Ancestry[finRoot]
    BY <1>1, <1>2, AncestryAssumption DEF ConfirmedAncestry
  <1> QED
    BY <1>1, <1>3 DEF FinalBlockAt

LEMMA ProposalsStep ==
    ASSUME IInv, FinalProposalsReal, [Next]_vars
    PROVE  FinalProposalsReal'
  <1>1. [KeepsFinalRows]_vars
    BY StepKeepsFinalRows
  <1>2. \A s \in slotFinal : slotRow'[s] = slotRow[s]
    BY <1>1 DEF KeepsFinalRows, vars, dbVars
  <1>3. CASE slotFinal' = slotFinal /\ Ancestry[finRoot] \subseteq Ancestry[finRoot']
    BY <1>2, <1>3 DEF FinalProposalsReal, FinalBlockAt
  <1>4. ASSUME NEW root \in Blocks, NEW first \in Blocks,
               NEW rewarded \in SUBSET FinalizedScanTargets(chkpt), Finalize(root, first, rewarded)
        PROVE  FinalProposalsReal'
    <2>1. /\ pc = "finalize" /\ UNCHANGED <<nodeVars, slotRow>>
          /\ IsAncestorAt(root, tip, EpochStartSlot(chkpt))
      BY <1>4 DEF Finalize
    <2>2. CASE UNCHANGED slotFinal
      BY <2>1, <2>2, <1>3 DEF nodeVars
    <2>3. CASE Promote(ConfirmedAncestry(root), BlockSlot[first], rewarded)
      <3>1. ASSUME NEW s \in slotFinal', slotRow[s] = "proposed"
            PROVE  FinalBlockAt(s)
        BY <2>1, <2>3, <3>1, PromotedProposals DEF FinalProposalsReal
      <3> QED
        BY <2>1, <3>1 DEF FinalProposalsReal, FinalBlockAt, nodeVars
    <2> QED
      BY <1>4, <2>2, <2>3 DEF Finalize
  <1>5. CASE NodeStep
    BY <1>3, <1>5, FinalChainGrows DEF NodeStep, dbVars
  <1>6. CASE UNCHANGED <<slotFinal, finRoot>>
    BY <1>3, <1>6
  <1> QED
    BY <1>4, <1>5, <1>6
    DEF Next, Work, Poll, CheckOldBranch, RollbackChanged, RollbackBeyondHead, Rollback, InvalidateFrom,
        PlanScan, FetchDuties, ProcessSkippedSlot, ProcessBlock, BranchSwitched, HeadSlotEmptied,
        BranchConfirmed, Abort, Restart, vars, nodeVars, dbVars

\* No proposal of an orphaned block is ever frozen, although the block may stay
\* recorded below the window that a poll compares (live/finalization.rs
\* promote_collected: a root of the confirmed ancestry for each row and each reward).
THEOREM ProposalsReal == Spec => []FinalProposalsReal
  <1>1. Init => FinalProposalsReal
    BY DEF Init, FinalProposalsReal
  <1> QED
    BY <1>1, ProposalsStep, InductiveInvariant, PTL DEF Spec

---------------------------------------------------------------------------
(* Final inclusions, where votes settle *)

\* A later slot is in no earlier epoch, and the next slot at most in the next one.
LEMMA EpochsGrow ==
    ASSUME NEW s \in Nat, NEW t \in Nat
    PROVE  /\ s <= t => SlotToEpoch(s) <= SlotToEpoch(t)
           /\ SlotToEpoch(s + 1) <= SlotToEpoch(s) + 1
  <1> DEFINE k == SlotToEpoch(s)
  <1>1. k \in Nat /\ EpochStartSlot(k) <= s /\ s < EpochStartSlot(k + 1) /\ EpochStartSlot(k) \in Nat
    BY SlotToEpochBounds, EpochStartIncreases
  <1>2. EpochStartSlot(k + 1) \in Nat /\ EpochStartSlot(k + 2) \in Nat
        /\ EpochStartSlot(k + 1) < EpochStartSlot(k + 2)
    BY <1>1, EpochStartIncreases
  <1> HIDE DEF k
  <1>3. ASSUME s <= t
        PROVE  k <= SlotToEpoch(t)
    BY <1>1, <1>3, EpochAtOrBelow
  <1>4. s + 1 < EpochStartSlot(k + 2)
    BY <1>1, <1>2
  <1>5. SlotToEpoch(s + 1) < k + 2 /\ SlotToEpoch(s + 1) \in Nat
    BY <1>1, <1>4, BeforeEpoch, SlotFacts
  <1>6. SlotToEpoch(s + 1) <= k + 1
    BY <1>1, <1>5
  <1> QED
    BY <1>3, <1>6 DEF k

LEMMA PollTypes ==
    ASSUME TypeOK
    PROVE  /\ EpochOf(head) \in Nat /\ EpochOf(tip) \in Nat /\ PollEpoch \in Nat
           /\ \A b \in Blocks : EpochOf(b) \in Nat /\ BlockSlot[b] \in Nat
           /\ RetryWindow \in Nat /\ Floor \in Nat /\ HeadSlot \in Nat /\ next \in Nat /\ walkStart \in Nat
           /\ stored \subseteq Blocks /\ cover \subseteq Nat
  BY SlotFacts, PlanType, ConfigAssumption DEF TypeOK, NodeTypeOK, EpochOf, PollEpoch

\* What lies below the window of a poll.
LEMMA BelowFloor ==
    ASSUME TypeOK, NEW x \in Blocks
    PROVE  BlockSlot[x] < Floor <=> EpochOf(x) + RetryWindow < EpochOf(tip)
  <1>1. EpochOf(x) \in Nat /\ EpochOf(tip) \in Nat /\ RetryWindow \in Nat /\ BlockSlot[x] \in Nat
    BY PollTypes
  <1>2. MinEpoch = SatSub(EpochOf(tip), RetryWindow) /\ MinEpoch \in Nat
    BY <1>1, SlotFacts DEF MinEpoch, HeadSlot, EpochOf
  <1>3. BlockSlot[x] < Floor <=> EpochOf(x) < MinEpoch
    BY <1>1, <1>2, BeforeEpoch DEF Floor, EpochOf
  <1>4. EpochOf(x) < MinEpoch <=> EpochOf(x) + RetryWindow < EpochOf(tip)
    BY <1>1, <1>2 DEF SatSub
  <1> QED
    BY <1>3, <1>4

\* No step takes the head, or what a poll works at, to an earlier epoch, and what has
\* settled stays.
SettledStays == \A x \in Blocks : Votes[x] # {} /\ Settled(x) => Settled(x)'

LEMMA HeadsAdvance ==
    ASSUME VotesSettle, TypeOK, TypeOK', HeadInv, [Next]_vars
    PROVE  PollEpoch <= PollEpoch' /\ SettledStays /\ HeadInv'
  <1>1. /\ EpochOf(head) \in Nat /\ EpochOf(tip) \in Nat /\ head \in Blocks /\ tip \in Blocks
        /\ \A b \in Blocks : EpochOf(b) \in Nat
    BY PollTypes DEF TypeOK, NodeTypeOK
  <1>2. CASE head' = head /\ pc' = "idle"
    BY <1>1, <1>2 DEF PollEpoch, HeadInv, SettledStays, Settled, EpochOf
  <1>3. CASE head' = head /\ pc # "idle" /\ pc' # "idle" /\ tip' = tip
    BY <1>1, <1>3 DEF PollEpoch, HeadInv, SettledStays, Settled, EpochOf
  <1>4. CASE Poll
    BY <1>1, <1>4 DEF Poll, nodeVars, PollEpoch, HeadInv, SettledStays, Settled, EpochOf
  <1>5. ASSUME NEW b \in Blocks, MoveHead(b), UNCHANGED <<pc, tip>>
        PROVE  PollEpoch <= PollEpoch' /\ SettledStays /\ HeadInv'
    <2>1. /\ head' = b /\ EpochOf(head) <= EpochOf(b) /\ EpochOf(b) \in Nat
          /\ \A x \in Ancestry[head] : Votes[x] # {} /\ EpochOf(x) < EpochOf(head) => x \in Ancestry[b]
      BY <1>1, <1>5 DEF MoveHead, VotesSettle
    <2>2. SettledStays
      BY <1>1, <2>1 DEF SettledStays, Settled, EpochOf
    <2>3. PollEpoch <= PollEpoch'
      BY <1>1, <1>5, <2>1 DEF PollEpoch, EpochOf
    <2>4. PollEpoch' <= EpochOf(head)'
      BY <1>1, <1>5, <2>1 DEF PollEpoch, HeadInv, EpochOf
    <2>5. ASSUME pc' # "idle", NEW x \in Ancestry[tip], Votes[x] # {}, EpochOf(x) < EpochOf(tip)
          PROVE  x \in Ancestry[head']
      <3>1. x \in Ancestry[head] /\ x \in Blocks
        BY <1>1, <1>5, <2>5, AncestryAssumption DEF HeadInv
      <3>2. EpochOf(tip) <= EpochOf(head)
        BY <1>5, <2>5 DEF HeadInv, PollEpoch
      <3> QED
        BY <1>1, <2>1, <2>5, <3>1, <3>2
    <2> QED
      BY <1>5, <2>2, <2>3, <2>4, <2>5 DEF HeadInv, EpochOf
  <1>6. CASE UNCHANGED <<head, pc, tip>>
    BY <1>2, <1>3, <1>6
  <1>7. CASE NodeStep
    BY <1>5, <1>6, <1>7 DEF NodeStep, NodeNext, AdvanceFinality, pollVars
  <1>8. CASE Abort \/ Restart
    BY <1>2, <1>8 DEF Abort, Restart, EndPoll, nodeVars
  <1>9. ASSUME Work, ~Poll
        PROVE  head' = head /\ (pc' = "idle" \/ (pc # "idle" /\ pc' # "idle" /\ tip' = tip))
    BY <1>9 DEF Work, CheckOldBranch, RollbackChanged, RollbackBeyondHead, PlanScan, FetchDuties,
                ProcessSkippedSlot, ProcessBlock, ReadyFor, BranchSwitched, HeadSlotEmptied,
                BranchConfirmed, Finalize, EndPoll, nodeVars, pollVars
  <1> QED
    BY <1>2, <1>3, <1>4, <1>6, <1>7, <1>8, <1>9 DEF Next, vars, nodeVars, pollVars

\* A block with a vote that a poll finds below its head's epoch has settled.
LEMMA SettledBelow ==
    ASSUME TypeOK, HeadInv, pc # "idle", NEW x \in Ancestry[tip], Votes[x] # {}, EpochOf(x) < EpochOf(tip)
    PROVE  Settled(x)
  <1>1. x \in Blocks
    BY AncestryAssumption DEF TypeOK
  <1>2. EpochOf(x) \in Nat /\ EpochOf(tip) \in Nat /\ EpochOf(head) \in Nat
    BY <1>1, PollTypes
  <1>3. EpochOf(tip) <= EpochOf(head) /\ x \in Ancestry[head]
    BY DEF HeadInv, PollEpoch
  <1> QED
    BY <1>2, <1>3 DEF Settled

---------------------------------------------------------------------------

\* The records and coverage that are kept satisfy what all of them satisfied.
RecordInv ==
    /\ \A b \in stored : EpochOf(b) <= PollEpoch
    /\ \A b, c \in stored : BlockSlot[b] = BlockSlot[c] => b = c
    /\ \A s \in cover : SlotToEpoch(s) <= PollEpoch

LEMMA RecordsKept ==
    ASSUME TypeOK, TypeOK', ReachInv, PollEpoch <= PollEpoch', stored' \subseteq stored, cover' \subseteq cover
    PROVE  RecordInv'
  <1>1. /\ PollEpoch \in Nat /\ PollEpoch' \in Nat /\ stored \subseteq Blocks
        /\ \A b \in Blocks : EpochOf(b) \in Nat
        /\ \A s \in cover : SlotToEpoch(s) \in Nat
    BY PollTypes, SlotFacts DEF TypeOK, NodeTypeOK, PollEpoch, EpochOf
  <1> QED
    BY <1>1 DEF ReachInv, RecordInv, EpochOf

\* An inclusion whose record goes is harmless when it has settled or lies behind.
Harmless(x) == Settled(x) \/ EpochOf(x) + RetryWindow < PollEpoch

RowsOnlyGo ==
    \A e \in Epochs : inclusion'[e] \in Blocks =>
        /\ inclusion'[e] = inclusion[e]
        /\ e \in attFinal => e \in attFinal'
        /\ e \notin attFinal' /\ inclusion[e] \in stored
              => inclusion[e] \in stored' \/ Harmless(inclusion[e])

LEMMA RowsKept ==
    ASSUME TypeOK, TypeOK', ReachInv, RowInv, PollEpoch <= PollEpoch', SettledStays,
           stored' \subseteq stored, RowsOnlyGo
    PROVE  RowInv'
  <1> SUFFICES ASSUME NEW e \in Epochs, inclusion'[e] \in Blocks
               PROVE  /\ e \in Votes[inclusion'[e]]
                      /\ InVoteWindow(e, BlockSlot[inclusion'[e]])
                      /\ e \notin attFinal' =>
                            \/ inclusion'[e] \in stored'
                            \/ Settled(inclusion[e])'
                            \/ Behind(inclusion[e])'
    BY DEF RowInv, InVoteWindow
  <1> DEFINE x == inclusion[e]
  <1>1. inclusion'[e] = x /\ x \in Blocks
    BY DEF RowsOnlyGo
  <1>2. e \in Votes[x] /\ InVoteWindow(e, BlockSlot[x]) /\ Votes[x] # {}
    BY <1>1 DEF RowInv
  <1>3. ASSUME e \notin attFinal'
        PROVE  x \in stored' \/ Settled(x)' \/ Behind(x)'
    <2>1. e \notin attFinal
      BY <1>3 DEF RowsOnlyGo
    <2>2. x \in stored \/ Settled(x) \/ Behind(x)
      BY <1>1, <2>1 DEF RowInv
    <2>3. /\ EpochOf(x) \in Nat /\ RetryWindow \in Nat /\ PollEpoch \in Nat /\ PollEpoch' \in Nat
          /\ stored \subseteq Blocks
      BY <1>1, PollTypes, SlotFacts DEF TypeOK, NodeTypeOK, PollEpoch, EpochOf
    <2>4. CASE Settled(x)
      BY <1>1, <1>2, <2>4 DEF SettledStays
    <2>5. CASE EpochOf(x) + RetryWindow < PollEpoch /\ \A b \in stored' : BlockSlot[b] # BlockSlot[x]
      <3>1. EpochOf(x) + RetryWindow < PollEpoch'
        BY <2>3, <2>5
      <3> QED
        BY <2>5, <3>1, <1>1 DEF Behind, EpochOf, RowsOnlyGo
    <2>6. CASE x \in stored /\ x \notin stored' /\ EpochOf(x) + RetryWindow < PollEpoch
      <3>1. \A b \in stored' : BlockSlot[b] # BlockSlot[x]
        BY <2>6 DEF ReachInv
      <3> QED
        BY <2>5, <2>6, <3>1
    <2>7. CASE Behind(x)
      BY <2>5, <2>7 DEF Behind
    <2>8. CASE x \in stored
      BY <1>1, <1>3, <2>4, <2>6, <2>8 DEF RowsOnlyGo, Harmless
    <2> QED
      BY <2>2, <2>4, <2>7, <2>8
  <1> QED
    BY <1>1, <1>2, <1>3

\* What is common to the steps that record nothing new.
InclusionKept ==
    /\ stored' \subseteq stored
    /\ cover' \subseteq cover
    /\ RowsOnlyGo
    /\ SlotToEpoch(next') <= PollEpoch + 1
    /\ pc' = "collect" =>
          /\ SlotToEpoch(walkStart') <= PollEpoch
          /\ \A s \in todo' : s <= HeadSlot'

LEMMA KeptInvariant ==
    ASSUME TypeOK, TypeOK', ReachInv, RowInv, PollEpoch <= PollEpoch', SettledStays, InclusionKept
    PROVE  ReachInv' /\ RowInv'
  <1>1. RecordInv' /\ RowInv'
    BY RecordsKept, RowsKept DEF InclusionKept
  <1>2. /\ PollEpoch \in Nat /\ PollEpoch' \in Nat
        /\ SlotToEpoch(next') \in Nat /\ SlotToEpoch(walkStart') \in Nat
    BY PollTypes, SlotFacts DEF TypeOK, NodeTypeOK, PollEpoch, EpochOf
  <1>3. SlotToEpoch(next') <= PollEpoch' + 1
    BY <1>2 DEF InclusionKept
  <1>4. pc' = "collect" => SlotToEpoch(walkStart') <= PollEpoch'
    BY <1>2 DEF InclusionKept
  <1>5. pc' = "collect" => \A s \in todo' : s <= HeadSlot'
    BY DEF InclusionKept
  <1> QED
    BY <1>1, <1>3, <1>4, <1>5 DEF ReachInv, RecordInv

\* A rollback drops the inclusions of its epochs but not those of the epoch before, whose
\* blocks may be in the first replayed epoch.
LEMMA RollbackRows ==
    ASSUME TypeOK, RowInv, NEW c \in Nat, InvalidateFrom(ReplayStart(c)),
           \A x \in stored : Votes[x] # {} /\ EpochOf(x) + 1 = SlotToEpoch(c) => Harmless(x)
    PROVE  stored' \subseteq stored /\ cover' \subseteq cover /\ RowsOnlyGo
  <1> DEFINE k == SatSub(SlotToEpoch(c), 1)
  <1>1. k \in Nat /\ ReplayStart(c) = EpochStartSlot(k) /\ SlotToEpoch(c) \in Nat
        /\ (k >= 1 => SlotToEpoch(c) = k + 1)
    BY SlotFacts DEF ReplayStart, SatSub
  <1>2. SlotToEpoch(ReplayStart(c)) = k
    BY <1>1, EpochOfStart
  <1> HIDE DEF k
  <1>3. stored' = {b \in stored : BlockSlot[b] < ReplayStart(c)} /\ cover' \subseteq cover
        /\ attFinal' = attFinal
    BY DEF InvalidateFrom
  <1>4. ASSUME NEW e \in Epochs, inclusion'[e] \in Blocks
        PROVE  /\ inclusion'[e] = inclusion[e]
               /\ e \notin attFinal /\ inclusion[e] \in stored
                     => inclusion[e] \in stored' \/ Harmless(inclusion[e])
    <2>1. inclusion'[e] = IF e >= k /\ e \notin attFinal THEN NoRow ELSE inclusion[e]
      BY <1>2 DEF InvalidateFrom
    <2>2. inclusion'[e] = inclusion[e] /\ (e >= k => e \in attFinal)
      BY <1>4, <2>1, DistinctAssumption
    <2>3. ASSUME e \notin attFinal, inclusion[e] \in stored, inclusion[e] \notin stored'
          PROVE  Harmless(inclusion[e])
      <3> DEFINE x == inclusion[e]
      <3>1. x \in Blocks /\ BlockSlot[x] \in Nat /\ e \in Nat /\ EpochOf(x) \in Nat
        BY <1>4, <2>2, SlotFacts DEF EpochOf
      <3>2. e \in Votes[x] /\ (EpochOf(x) = e \/ EpochOf(x) = e + 1)
        BY <1>4, <2>2 DEF RowInv, InVoteWindow, EpochOf
      <3> HIDE DEF x
      <3>3. ~(BlockSlot[x] < EpochStartSlot(k))
        BY <1>1, <1>3, <2>3 DEF x
      <3>4. ~(EpochOf(x) < k)
        BY <1>1, <3>1, <3>3, BeforeEpoch DEF EpochOf
      <3>5. ~(e >= k)
        BY <2>2, <2>3
      <3>6. EpochOf(x) = k /\ k >= 1
        BY <1>1, <3>1, <3>2, <3>4, <3>5
      <3>7. EpochOf(x) + 1 = SlotToEpoch(c)
        BY <1>1, <3>6
      <3> QED
        BY <2>3, <3>2, <3>7 DEF x
    <2> QED
      BY <2>2, <2>3
  <1> QED
    BY <1>3, <1>4 DEF RowsOnlyGo

\* A rollback from the epoch of a block, or of the slot after one, moves the cursor back.
LEMMA RollbackKept ==
    ASSUME TypeOK, RowInv, NEW c \in Nat, Rollback(c), EndPoll, SlotToEpoch(c) <= PollEpoch + 1,
           \A x \in stored : Votes[x] # {} /\ EpochOf(x) + 1 = SlotToEpoch(c) => Harmless(x)
    PROVE  InclusionKept
  <1> DEFINE k == SatSub(SlotToEpoch(c), 1)
  <1>1. k \in Nat /\ next' = EpochStartSlot(k) /\ k <= SlotToEpoch(c) /\ SlotToEpoch(c) \in Nat
        /\ PollEpoch \in Nat
    BY SlotFacts, SaturationBounds, PollTypes DEF ReplayStart, Rollback
  <1> HIDE DEF k
  <1>2. SlotToEpoch(next') = k
    BY <1>1, EpochOfStart
  <1>3. SlotToEpoch(next') <= PollEpoch + 1
    BY <1>1, <1>2
  <1>4. stored' \subseteq stored /\ cover' \subseteq cover /\ RowsOnlyGo
    BY RollbackRows DEF Rollback
  <1> QED
    BY <1>3, <1>4 DEF InclusionKept, EndPoll

\* A recorded block that a poll finds on its head's chain, or below its window, is not lost.
LEMMA RecordedHarmless ==
    ASSUME TypeOK, HeadInv, pc # "idle", NEW x \in stored, Votes[x] # {}, EpochOf(x) < EpochOf(tip),
           x \in Recent => x \in Ancestry[tip]
    PROVE  Harmless(x)
  <1>1. x \in Blocks
    BY DEF TypeOK
  <1>2. CASE x \in Recent
    BY <1>2, SettledBelow DEF Harmless
  <1>3. CASE x \notin Recent
    <2>1. BlockSlot[x] < Floor
      BY <1>1, <1>3, PollTypes DEF Recent
    <2> QED
      BY <1>1, <2>1, BelowFloor DEF Harmless, PollEpoch
  <1> QED
    BY <1>2, <1>3

LEMMA ChangedKept ==
    ASSUME TypeOK, HeadInv, ReachInv, RowInv, NEW first, NEW b \in Blocks, RollbackChanged(first, b)
    PROVE  InclusionKept
  <1> DEFINE chain == ResolveChain(Lesser(WalkStartFrom(first), Target))
  <1>1. /\ pc = "resolve" /\ b \in Changed(chain) /\ Rollback(BlockSlot[b]) /\ EndPoll
        /\ \A x \in Changed(chain) : BlockSlot[b] <= BlockSlot[x]
    BY DEF RollbackChanged
  <1>2. chain \subseteq Ancestry[tip]
    BY DEF ResolveChain
  <1> HIDE DEF chain
  <1>3. /\ b \in stored /\ BlockSlot[b] \in Nat /\ BlockSlot[b] <= HeadSlot /\ HeadSlot \in Nat
        /\ EpochOf(tip) \in Nat /\ EpochOf(b) \in Nat /\ PollEpoch = EpochOf(tip)
    BY <1>1, PollTypes DEF Changed, Recent, PollEpoch
  <1>4. EpochOf(b) <= EpochOf(tip)
    BY <1>3 DEF ReachInv
  <1>5. ASSUME NEW x \in stored, Votes[x] # {}, EpochOf(x) + 1 = SlotToEpoch(BlockSlot[b])
        PROVE  Harmless(x)
    <2>1. x \in Blocks /\ EpochOf(x) \in Nat /\ BlockSlot[x] \in Nat
      BY PollTypes
    <2>2. EpochOf(x) < EpochOf(b) /\ EpochOf(x) < EpochOf(tip)
      BY <1>3, <1>4, <1>5, <2>1 DEF EpochOf
    <2>3. BlockSlot[x] < BlockSlot[b]
      BY <1>3, <2>1, <2>2, EpochsGrow DEF EpochOf
    <2>4. x \in Recent => x \in Ancestry[tip]
      BY <1>1, <1>2, <1>3, <2>1, <2>3 DEF Changed
    <2> QED
      BY <1>1, <1>5, <2>2, <2>4, RecordedHarmless
  <1>6. SlotToEpoch(BlockSlot[b]) <= PollEpoch + 1
    BY <1>3, <1>4 DEF EpochOf
  <1> QED
    BY <1>1, <1>3, <1>5, <1>6, RollbackKept

LEMMA BeyondHeadKept ==
    ASSUME TypeOK, HeadInv, ReachInv, RowInv, NEW first, RollbackBeyondHead(first)
    PROVE  InclusionKept
  <1> DEFINE chain == ResolveChain(Lesser(WalkStartFrom(first), Target))
             c == HeadSlot + 1
  <1>1. /\ pc = "resolve" /\ Changed(chain) = {} /\ Rollback(c) /\ EndPoll
        /\ \E x \in Recent : BlockSlot[x] > HeadSlot
    BY DEF RollbackBeyondHead
  <1>2. chain \subseteq Ancestry[tip]
    BY DEF ResolveChain
  <1> HIDE DEF chain
  <1>3. PICK y \in Recent : BlockSlot[y] > HeadSlot
    BY <1>1
  <1>4. /\ y \in stored /\ BlockSlot[y] \in Nat /\ HeadSlot \in Nat /\ c \in Nat /\ c <= BlockSlot[y]
        /\ EpochOf(tip) \in Nat /\ EpochOf(y) \in Nat /\ PollEpoch = EpochOf(tip)
    BY <1>1, <1>3, PollTypes DEF Recent, PollEpoch
  <1>5. SlotToEpoch(c) <= EpochOf(tip) /\ SlotToEpoch(c) \in Nat
    <2>1. SlotToEpoch(c) <= EpochOf(y) /\ SlotToEpoch(c) \in Nat
      BY <1>4, EpochsGrow, SlotFacts DEF EpochOf
    <2>2. EpochOf(y) <= EpochOf(tip)
      BY <1>4 DEF ReachInv
    <2> QED
      BY <1>4, <2>1, <2>2
  <1>6. ASSUME NEW x \in stored, Votes[x] # {}, EpochOf(x) + 1 = SlotToEpoch(c)
        PROVE  Harmless(x)
    <2>1. x \in Blocks /\ EpochOf(x) \in Nat /\ BlockSlot[x] \in Nat
      BY PollTypes
    <2>2. EpochOf(x) < EpochOf(tip)
      BY <1>4, <1>5, <1>6, <2>1
    <2>3. ~(HeadSlot <= BlockSlot[x])
      BY <1>4, <2>1, <2>2, EpochsGrow DEF EpochOf, HeadSlot
    <2>4. x \in Recent => x \in Ancestry[tip]
      BY <1>1, <1>2, <1>4, <2>1, <2>3 DEF Changed
    <2> QED
      BY <1>1, <1>6, <2>2, <2>4, RecordedHarmless
  <1>7. SlotToEpoch(c) <= PollEpoch + 1
    BY <1>4, <1>5
  <1> HIDE DEF c
  <1> QED
    BY <1>1, <1>4, <1>6, <1>7, RollbackKept

LEMMA SwitchedKept ==
    ASSUME IInv, HeadInv, ReachInv, RowInv, NEW optimistic, BranchSwitched(optimistic)
    PROVE  InclusionKept
  <1>1. pc = "collect" /\ Rollback(walkStart) /\ EndPoll
    BY DEF BranchSwitched
  <1>2. TypeOK /\ Recent \subseteq Ancestry[tip]
    BY <1>1 DEF IInv, ScanInv, OneBranchCollected
  <1>3. walkStart \in Nat /\ PollEpoch = EpochOf(tip) /\ EpochOf(tip) \in Nat /\ SlotToEpoch(walkStart) \in Nat
    BY <1>1, <1>2, PollTypes, SlotFacts DEF PollEpoch
  <1>4. SlotToEpoch(walkStart) <= PollEpoch
    BY <1>1 DEF ReachInv
  <1>5. ASSUME NEW x \in stored, Votes[x] # {}, EpochOf(x) + 1 = SlotToEpoch(walkStart)
        PROVE  Harmless(x)
    <2>1. EpochOf(x) \in Nat
      BY <1>2, PollTypes
    <2>2. EpochOf(x) < EpochOf(tip)
      BY <1>3, <1>4, <1>5, <2>1
    <2> QED
      BY <1>1, <1>2, <1>5, <2>2, RecordedHarmless
  <1>6. SlotToEpoch(walkStart) <= PollEpoch + 1
    BY <1>3, <1>4
  <1> QED
    BY <1>1, <1>2, <1>3, <1>5, <1>6, RollbackKept

\* The check after an outage takes back everything that is recorded, with its inclusions.
LEMMA OldBranchKept ==
    ASSUME TypeOK, ReachInv, RowInv, NEW newest \in Blocks, NEW first \in Blocks, NEW fails,
           CheckOldBranch(newest, first, fails)
    PROVE  InclusionKept
  <1>1. /\ next' = 0 /\ pc' = "resolve"
        /\ \A b \in stored : BlockSlot[first] <= BlockSlot[b]
    BY DEF CheckOldBranch
  <1>2. SlotToEpoch(next') <= PollEpoch + 1
    <2>1. SlotToEpoch(0) = 0
      BY SlotsPerEpochAssumption, Z3 DEF SlotToEpoch
    <2>2. PollEpoch \in Nat
      BY PollTypes
    <2> QED
      BY <1>1, <2>1, <2>2
  <1>3. CASE UNCHANGED dbVars
    BY <1>1, <1>2, <1>3 DEF InclusionKept, RowsOnlyGo, dbVars
  <1>4. CASE InvalidateFrom(ReplayStart(BlockSlot[first]))
    <2>1. BlockSlot[first] \in Nat
      BY SlotFacts
    <2>2. ASSUME NEW x \in stored, EpochOf(x) + 1 = SlotToEpoch(BlockSlot[first])
          PROVE  FALSE
      <3>1. BlockSlot[x] \in Nat /\ EpochOf(x) \in Nat
        BY PollTypes
      <3>2. SlotToEpoch(BlockSlot[first]) <= EpochOf(x)
        BY <1>1, <2>1, <3>1, EpochsGrow DEF EpochOf
      <3> QED
        BY <2>2, <3>1, <3>2
    <2>3. stored' \subseteq stored /\ cover' \subseteq cover /\ RowsOnlyGo
      BY <1>4, <2>1, <2>2, RollbackRows
    <2> QED
      BY <1>1, <1>2, <2>3 DEF InclusionKept
  <1> QED
    BY <1>3, <1>4 DEF CheckOldBranch

\* A scan is planned from a cursor at most one epoch ahead.
LEMMA PlanKept ==
    ASSUME TypeOK, ReachInv, NEW first \in 0..(LastSlot + 1), PlanScan(first)
    PROVE  InclusionKept
  <1> DEFINE k == SatSub(SlotToEpoch(first), 1)
  <1>1. /\ pc = "resolve" /\ next' = CollectionStart /\ walkStart' = EpochStartSlot(k)
        /\ first <= CollectionStart
        /\ UNCHANGED <<dbVars, tip>>
        /\ \A s \in todo' : s \in Slots /\ s <= Target
    BY DEF PlanScan, IsFirstSlot, WalkStartFrom, SlotsToScan, MissingCoverage, Newest
  <1>2. /\ first \in Nat /\ CollectionStart \in Nat /\ Target \in Nat /\ HeadSlot \in Nat
        /\ next \in Nat /\ PollEpoch \in Nat /\ PollEpoch = EpochOf(tip)
        /\ SlotToEpoch(first) \in Nat /\ SlotToEpoch(CollectionStart) \in Nat
    BY <1>1, ConfigAssumption, PlanType, PollTypes, SlotFacts DEF PollEpoch
  <1>3. k \in Nat /\ (SlotToEpoch(first) <= PollEpoch + 1 => k <= PollEpoch)
    BY <1>2 DEF SatSub
  <1> HIDE DEF k
  <1>4. SlotToEpoch(CollectionStart) <= PollEpoch + 1
    <2>1. CASE next = 0
      BY <1>2, <2>1, EpochOfStart DEF CollectionStart, EpochOf, HeadSlot
    <2>2. CASE next # 0
      <3>1. MinEpoch \in Nat /\ MinEpoch <= PollEpoch
        BY <1>2, ConfigAssumption, SaturationBounds DEF MinEpoch, EpochOf, HeadSlot
      <3>2. SlotToEpoch(Floor) <= PollEpoch + 1
        BY <1>2, <3>1, EpochOfStart DEF Floor
      <3>3. CollectionStart = next \/ CollectionStart = Floor
        BY <2>2 DEF CollectionStart, Greater
      <3> QED
        BY <3>2, <3>3 DEF ReachInv
    <2> QED
      BY <2>1, <2>2
  <1>5. SlotToEpoch(walkStart') <= PollEpoch
    <2>1. SlotToEpoch(first) <= SlotToEpoch(CollectionStart)
      BY <1>1, <1>2, EpochsGrow
    <2>2. SlotToEpoch(first) <= PollEpoch + 1
      BY <1>2, <1>4, <2>1
    <2> QED
      BY <1>1, <1>3, <2>2, EpochOfStart
  <1>6. Target <= HeadSlot
    BY <1>2, ConfigAssumption, SaturationBounds DEF Target
  <1>7. ASSUME NEW s \in todo'
        PROVE  s <= HeadSlot'
    <2>1. HeadSlot' = HeadSlot
      BY <1>1 DEF HeadSlot
    <2>2. s \in Nat /\ s <= Target
      BY <1>1, SlotFacts
    <2> QED
      BY <1>2, <1>6, <2>1, <2>2
  <1> QED
    BY <1>1, <1>4, <1>5, <1>7 DEF InclusionKept, RowsOnlyGo, dbVars

LEMMA RestartKept ==
    ASSUME IInv, ReachInv, Restart
    PROVE  InclusionKept
  <1>1. /\ pc' = "idle" /\ UNCHANGED dbVars
        /\ (next' = 0 \/ \E s \in cover : next' = s + 1)
    BY DEF Restart, EndPoll
  <1>2. SlotToEpoch(next') <= PollEpoch + 1
    <2>1. CASE next' = 0
      <3>1. SlotToEpoch(0) = 0
        BY SlotsPerEpochAssumption, Z3 DEF SlotToEpoch
      <3> QED
        BY <2>1, <3>1, PollTypes DEF IInv
    <2>2. ASSUME NEW s \in cover, next' = s + 1
          PROVE  SlotToEpoch(next') <= PollEpoch + 1
      <3>1. s \in Nat /\ PollEpoch \in Nat
        BY PollTypes DEF IInv
      <3>2. SlotToEpoch(s) <= PollEpoch /\ SlotToEpoch(s) \in Nat /\ SlotToEpoch(s + 1) \in Nat
        <4>1. s + 1 \in Nat
          BY <3>1
        <4> QED
          BY <3>1, <4>1, SlotToEpochBounds DEF ReachInv
      <3>3. SlotToEpoch(s + 1) <= SlotToEpoch(s) + 1
        BY <3>1, EpochsGrow
      <3> QED
        BY <2>2, <3>1, <3>2, <3>3
    <2> QED
      BY <1>1, <2>1, <2>2
  <1> QED
    BY <1>1, <1>2 DEF InclusionKept, RowsOnlyGo, dbVars

\* Steps that leave the records, the rows and the cursor alone.
LEMMA QuietKept ==
    ASSUME ReachInv, UNCHANGED <<stored, cover, inclusion, attFinal, next>>,
           pc' # "collect" \/ (pc = "collect" /\ tip' = tip /\ UNCHANGED <<walkStart, todo>>)
    PROVE  InclusionKept
  BY DEF InclusionKept, RowsOnlyGo, ReachInv, HeadSlot

LEMMA DutiesKept ==
    ASSUME TypeOK, ReachInv, NEW e \in Epochs, NEW o, FetchDuties(e, o)
    PROVE  InclusionKept
  <1>1. /\ pc = "collect" /\ todo' \subseteq todo
        /\ UNCHANGED <<stored, cover, attFinal, next, walkStart, tip>>
    BY DEF FetchDuties
  <1>2. \A f \in Epochs : inclusion'[f] = inclusion[f] \/ inclusion'[f] = NotIncluded
    BY DEF FetchDuties, TypeOK
  <1>3. RowsOnlyGo
    BY <1>1, <1>2, DistinctAssumption DEF RowsOnlyGo
  <1> QED
    BY <1>1, <1>3 DEF InclusionKept, ReachInv, HeadSlot

\* Pruning drops records below the window only.
LEMMA FinalizeKept ==
    ASSUME IInv, ReachInv, NEW root, NEW first, NEW rewarded, Finalize(root, first, rewarded)
    PROVE  InclusionKept
  <1>1. /\ pc = "finalize" /\ pc' = "idle" /\ UNCHANGED <<inclusion, next>> /\ Prune
        /\ attFinal \subseteq attFinal'
    BY DEF Finalize, EndPoll, Promote
  <1>2. TypeOK /\ chkpt \in Nat
    BY DEF IInv, TypeOK
  <1>3. MinEpoch \in Nat /\ PollEpoch = EpochOf(tip)
    BY <1>1, <1>2, SlotFacts, ConfigAssumption, PlanType DEF MinEpoch, PollEpoch
  <1>4. ASSUME NEW x \in stored, x \notin stored'
        PROVE  Harmless(x)
    <2>1. stored \subseteq Blocks /\ \A b \in stored : BlockSlot[b] \in Nat
      BY <1>2, PollTypes
    <2>2. PICK y \in stored : BlockSlot[y] < RetainSlot /\ BlockSlot[x] < BlockSlot[y]
      BY <1>1, <1>4, <2>1 DEF Prune
    <2> DEFINE m == Lesser(MinEpoch, SatSub(chkpt, 2))
    <2>3. m \in Nat /\ m <= MinEpoch /\ RetainSlot = EpochStartSlot(m)
      BY <1>2, <1>3, SlotFacts, SaturationBounds DEF RetainSlot
    <2> HIDE DEF m
    <2>4. EpochStartSlot(m) \in Nat /\ EpochStartSlot(m) <= Floor /\ Floor \in Nat
      BY <1>3, <2>3, EpochStartIncreases DEF Floor
    <2>5. BlockSlot[x] < Floor
      BY <2>1, <2>2, <2>3, <2>4
    <2> QED
      BY <1>2, <1>3, <2>1, <2>5, BelowFloor DEF Harmless
  <1>5. stored' \subseteq stored /\ cover' \subseteq cover
    BY <1>1 DEF Prune
  <1>6. RowsOnlyGo
    BY <1>1, <1>4, <1>5 DEF RowsOnlyGo
  <1> QED
    BY <1>1, <1>5, <1>6 DEF InclusionKept, ReachInv

---------------------------------------------------------------------------

\* A processed slot is within the head's epoch, and the cursor moves at most behind it.
LEMMA ProcessedReach ==
    ASSUME TypeOK, ReachInv, pc = "collect", NEW s \in todo, NEW o, RecordCoverage(s, o),
           UNCHANGED <<nodeVars, pc, tip, walkStart>>
    PROVE  /\ PollEpoch' = PollEpoch
           /\ \A t \in cover' : SlotToEpoch(t) <= PollEpoch'
           /\ SlotToEpoch(next') <= PollEpoch' + 1
           /\ SlotToEpoch(walkStart') <= PollEpoch'
           /\ \A t \in todo' : t <= HeadSlot'
  <1>1. PollEpoch' = PollEpoch /\ HeadSlot' = HeadSlot
    BY DEF PollEpoch, EpochOf, HeadSlot, nodeVars
  <1>2. /\ s \in Nat /\ s <= HeadSlot /\ HeadSlot \in Nat /\ next \in Nat /\ PollEpoch \in Nat
        /\ PollEpoch = SlotToEpoch(HeadSlot)
    BY PollTypes, SlotFacts DEF TypeOK, ReachInv, PollEpoch, EpochOf, HeadSlot
  <1>3. SlotToEpoch(s) <= PollEpoch /\ SlotToEpoch(s + 1) <= PollEpoch + 1
    <2>1. SlotToEpoch(s) <= PollEpoch /\ SlotToEpoch(s + 1) <= SlotToEpoch(s) + 1
      BY <1>2, EpochsGrow
    <2>2. SlotToEpoch(s) \in Nat /\ SlotToEpoch(s + 1) \in Nat
      <3>1. s + 1 \in Nat
        BY <1>2
      <3> QED
        BY <1>2, <3>1, SlotToEpochBounds
    <2> QED
      BY <1>2, <2>1, <2>2
  <1>4. next' = next \/ next' = s + 1
    BY DEF RecordCoverage, Greater
  <1>5. SlotToEpoch(next') <= PollEpoch' + 1
    BY <1>1, <1>3, <1>4 DEF ReachInv
  <1>6. cover' \subseteq cover \cup {s} /\ todo' \subseteq todo
    BY DEF RecordCoverage
  <1> QED
    BY <1>1, <1>3, <1>5, <1>6 DEF ReachInv

LEMMA SkippedInclusion ==
    ASSUME TypeOK, ReachInv, RowInv, SettledStays, NEW s, NEW o, ProcessSkippedSlot(s, o)
    PROVE  ReachInv' /\ RowInv'
  <1>1. /\ pc = "collect" /\ s \in todo /\ RecordCoverage(s, o)
        /\ UNCHANGED <<nodeVars, stored, inclusion, attFinal, pc, tip, walkStart>>
    BY DEF ProcessSkippedSlot, ReadyFor
  <1>2. /\ PollEpoch' = PollEpoch
        /\ \A t \in cover' : SlotToEpoch(t) <= PollEpoch'
        /\ SlotToEpoch(next') <= PollEpoch' + 1
        /\ SlotToEpoch(walkStart') <= PollEpoch'
        /\ \A t \in todo' : t <= HeadSlot'
    BY <1>1, ProcessedReach
  <1>3. ReachInv'
    BY <1>1, <1>2 DEF ReachInv, EpochOf
  <1>4. \A x : Settled(x)' = Settled(x) /\ Behind(x)' = Behind(x)
    BY <1>1, <1>2 DEF Settled, Behind, EpochOf, nodeVars
  <1>5. RowInv'
    BY <1>1, <1>4 DEF RowInv, InVoteWindow
  <1> QED
    BY <1>3, <1>5

\* A recorded block replaces none: what was recorded in its slot is the same block.
LEMMA BlockInclusion ==
    ASSUME IInv, ReachInv, RowInv, SettledStays, NEW b \in Blocks, NEW o, NEW written,
           ProcessBlock(b, o, written)
    PROVE  ReachInv' /\ RowInv'
  <1> DEFINE s == BlockSlot[b]
  <1>1. /\ pc = "collect" /\ s \in todo /\ RecordCoverage(s, o) /\ b \in resolved
        /\ UNCHANGED <<nodeVars, attFinal, pc, tip, walkStart>>
        /\ stored' = IF o = "nothing" THEN stored ELSE {x \in stored : BlockSlot[x] # s} \cup {b}
        /\ \A e \in written : e \in Epochs /\ e \in Votes[b] /\ InVoteWindow(e, s)
        /\ o = "nothing" => written = {}
        /\ inclusion' = [e \in Epochs |->
                            IF e \in written /\ AcceptsInclusion(e, b) THEN b ELSE inclusion[e]]
    BY DEF ProcessBlock, ReadyFor
  <1>2. TypeOK /\ resolved \subseteq Ancestry[tip] /\ s >= Floor /\ Recent \subseteq Ancestry[tip]
    BY <1>1 DEF IInv, ScanInv, OneBranchCollected
  <1>3. /\ PollEpoch' = PollEpoch
        /\ \A t \in cover' : SlotToEpoch(t) <= PollEpoch'
        /\ SlotToEpoch(next') <= PollEpoch' + 1
        /\ SlotToEpoch(walkStart') <= PollEpoch'
        /\ \A t \in todo' : t <= HeadSlot'
    BY <1>1, <1>2, ProcessedReach
  <1>4. stored \subseteq stored' /\ stored' \subseteq stored \cup {b} /\ (o # "nothing" => b \in stored')
    <2>1. ASSUME NEW x \in stored, BlockSlot[x] = s
          PROVE  x = b
      <3>1. x \in Ancestry[tip] /\ b \in Ancestry[tip] /\ tip \in Blocks
        BY <1>1, <1>2, <2>1 DEF Recent, TypeOK
      <3> QED
        BY <2>1, <3>1, AncestryAssumption
    <2> QED
      BY <1>1, <2>1
  <1>5. EpochOf(b) <= PollEpoch
    <2>1. s \in Nat /\ HeadSlot \in Nat /\ s <= HeadSlot
      BY <1>1, <1>2, PollTypes DEF ReachInv
    <2> QED
      BY <1>1, <2>1, EpochsGrow DEF PollEpoch, EpochOf, HeadSlot
  <1>6. ReachInv'
    <2>1. \A x \in stored' : EpochOf(x) <= PollEpoch'
      BY <1>3, <1>4, <1>5 DEF ReachInv
    <2>2. \A x, y \in stored' : BlockSlot[x] = BlockSlot[y] => x = y
      BY <1>1 DEF ReachInv
    <2> QED
      BY <1>3, <2>1, <2>2 DEF ReachInv, EpochOf
  <1>7. \A x : Settled(x)' = Settled(x)
    BY <1>1 DEF Settled, EpochOf, nodeVars
  <1>8. ASSUME NEW x \in Blocks, Behind(x)
        PROVE  Behind(x)'
    <2>1. BlockSlot[x] < Floor
      BY <1>1, <1>2, <1>8, BelowFloor DEF Behind, PollEpoch
    <2>2. BlockSlot[x] # s
      BY <1>2, <2>1, PollTypes
    <2>3. \A y \in stored' : BlockSlot[y] # BlockSlot[x]
      BY <1>4, <1>8, <2>2 DEF Behind
    <2> QED
      BY <1>3, <1>8, <2>3 DEF Behind, EpochOf
  <1>9. RowInv'
    <2> SUFFICES ASSUME NEW e \in Epochs, inclusion'[e] \in Blocks
                 PROVE  /\ e \in Votes[inclusion'[e]]
                        /\ InVoteWindow(e, BlockSlot[inclusion'[e]])
                        /\ e \notin attFinal' =>
                              \/ inclusion'[e] \in stored'
                              \/ Settled(inclusion[e])'
                              \/ Behind(inclusion[e])'
      BY DEF RowInv, InVoteWindow
    <2>1. CASE e \in written /\ inclusion'[e] = b
      BY <1>1, <1>4, <2>1
    <2>2. CASE inclusion'[e] = inclusion[e]
      <3>1. /\ inclusion[e] \in Blocks /\ e \in Votes[inclusion[e]]
            /\ InVoteWindow(e, BlockSlot[inclusion[e]])
            /\ e \notin attFinal =>
                  inclusion[e] \in stored \/ Settled(inclusion[e]) \/ Behind(inclusion[e])
        BY <2>2 DEF RowInv
      <3>2. Settled(inclusion[e]) => Settled(inclusion[e])'
        BY <1>1, <2>2 DEF Settled, EpochOf, nodeVars
      <3>3. Behind(inclusion[e]) => Behind(inclusion[e])'
        BY <1>8, <2>2, <3>1 DEF Behind, EpochOf
      <3> QED
        BY <1>1, <1>4, <2>2, <3>1, <3>2, <3>3
    <2> QED
      BY <1>1, <2>1, <2>2
  <1> QED
    BY <1>6, <1>9

---------------------------------------------------------------------------

\* The block confirmed in the slot of an inclusion is the one the inclusion describes.
LEMMA PromotedInclusions ==
    ASSUME IInv, ReachInv, RowInv, pc = "finalize", NEW root \in Blocks, NEW floor, NEW rewarded,
           IsAncestorAt(root, tip, EpochStartSlot(chkpt)),
           Promote(ConfirmedAncestry(root), floor, rewarded),
           NEW e \in attFinal' \ attFinal, inclusion[e] \in Blocks
    PROVE  inclusion[e] \in Ancestry[finRoot]
  <1> DEFINE x == inclusion[e]
  <1>1. /\ e \in Epochs
        /\ \E b \in stored \cap ConfirmedAncestry(root) : BlockSlot[b] = BlockSlot[x]
    BY DEF Promote
  <1>2. PICK b \in stored : b \in ConfirmedAncestry(root) /\ BlockSlot[b] = BlockSlot[x]
    BY <1>1
  <1>3. root \in Ancestry[finRoot] /\ finRoot \in Blocks /\ head \in Blocks /\ finRoot \in Ancestry[head]
    BY DEF IInv, CheckpointInv, NodeInv, IsAncestorAt, TypeOK, NodeTypeOK
  <1>4. b \in Ancestry[finRoot] /\ b \in Ancestry[head]
    BY <1>2, <1>3, AncestryAssumption DEF ConfirmedAncestry
  <1>5. x \in stored \/ Settled(x) \/ Behind(x)
    BY <1>1 DEF RowInv
  <1>6. CASE x \in stored
    BY <1>2, <1>4, <1>6 DEF ReachInv
  <1>7. CASE Settled(x)
    <2>1. x \in Ancestry[head]
      BY <1>7 DEF Settled
    <2>2. x = b
      BY <1>2, <1>3, <1>4, <2>1, AncestryAssumption
    <2> QED
      BY <1>4, <2>2
  <1>8. CASE Behind(x)
    BY <1>2, <1>8 DEF Behind
  <1> QED
    BY <1>5, <1>6, <1>7, <1>8

LEMMA InclusionFinalStep ==
    ASSUME IInv, ReachInv, RowInv, FinalInclusionOnChain, [Next]_vars
    PROVE  FinalInclusionOnChain'
  <1>1. [KeepsFinalRows]_vars
    BY StepKeepsFinalRows
  <1>2. \A e \in attFinal : inclusion'[e] = inclusion[e]
    BY <1>1 DEF KeepsFinalRows, vars, dbVars
  <1>3. CASE attFinal' = attFinal /\ Ancestry[finRoot] \subseteq Ancestry[finRoot']
    BY <1>2, <1>3 DEF FinalInclusionOnChain
  <1>4. ASSUME NEW root \in Blocks, NEW first \in Blocks,
               NEW rewarded \in SUBSET FinalizedScanTargets(chkpt), Finalize(root, first, rewarded)
        PROVE  FinalInclusionOnChain'
    <2>1. /\ pc = "finalize" /\ UNCHANGED <<nodeVars, inclusion>>
          /\ IsAncestorAt(root, tip, EpochStartSlot(chkpt))
      BY <1>4 DEF Finalize
    <2>2. CASE UNCHANGED attFinal
      BY <2>1, <2>2, <1>3 DEF nodeVars
    <2>3. CASE Promote(ConfirmedAncestry(root), BlockSlot[first], rewarded)
      <3>1. ASSUME NEW e \in attFinal', inclusion[e] \in Blocks
            PROVE  inclusion[e] \in Ancestry[finRoot]
        BY <2>1, <2>3, <3>1, PromotedInclusions DEF FinalInclusionOnChain
      <3> QED
        BY <2>1, <3>1 DEF FinalInclusionOnChain, nodeVars
    <2> QED
      BY <1>4, <2>2, <2>3 DEF Finalize
  <1>5. CASE NodeStep
    BY <1>3, <1>5, FinalChainGrows DEF NodeStep, dbVars
  <1>6. CASE UNCHANGED <<attFinal, finRoot>>
    BY <1>3, <1>6
  <1> QED
    BY <1>4, <1>5, <1>6
    DEF Next, Work, Poll, CheckOldBranch, RollbackChanged, RollbackBeyondHead, Rollback, InvalidateFrom,
        PlanScan, FetchDuties, ProcessSkippedSlot, ProcessBlock, BranchSwitched, HeadSlotEmptied,
        BranchConfirmed, Abort, Restart, vars, nodeVars, dbVars

LEMMA InclusionStep ==
    ASSUME VotesSettle, IInv, IInv', InclusionInv, [Next]_vars
    PROVE  InclusionInv'
  <1> USE DEF InclusionInv
  <1>1. TypeOK /\ TypeOK'
    BY DEF IInv
  <1>2. PollEpoch <= PollEpoch' /\ SettledStays /\ HeadInv'
    BY <1>1, HeadsAdvance
  <1>3. FinalInclusionOnChain'
    BY InclusionFinalStep
  <1>4. ASSUME InclusionKept
        PROVE  InclusionInv'
    BY <1>1, <1>2, <1>3, <1>4, KeptInvariant
  <1>5. CASE NodeStep \/ UNCHANGED vars
    BY <1>4, <1>5, QuietKept DEF NodeStep, vars, dbVars, pollVars
  <1>6. CASE Poll \/ HeadSlotEmptied \/ BranchConfirmed \/ Abort
    BY <1>4, <1>6, QuietKept DEF Poll, HeadSlotEmptied, BranchConfirmed, Abort, EndPoll, dbVars
  <1>7. CASE Restart
    BY <1>4, <1>7, RestartKept
  <1>8. ASSUME NEW newest \in Blocks, NEW first \in Blocks, NEW fails \in BOOLEAN,
               CheckOldBranch(newest, first, fails)
        PROVE  InclusionInv'
    BY <1>1, <1>4, <1>8, OldBranchKept
  <1>9. ASSUME NEW first \in 0..(LastSlot + 1), NEW b \in Blocks, RollbackChanged(first, b)
        PROVE  InclusionInv'
    BY <1>1, <1>4, <1>9, ChangedKept
  <1>10. ASSUME NEW first \in 0..(LastSlot + 1), RollbackBeyondHead(first)
         PROVE  InclusionInv'
    BY <1>1, <1>4, <1>10, BeyondHeadKept
  <1>11. ASSUME NEW first \in 0..(LastSlot + 1), PlanScan(first)
         PROVE  InclusionInv'
    BY <1>1, <1>4, <1>11, PlanKept
  <1>12. ASSUME NEW e \in Epochs, NEW o \in DutyOutcomes, FetchDuties(e, o)
         PROVE  InclusionInv'
    BY <1>1, <1>4, <1>12, DutiesKept
  <1>13. ASSUME NEW s \in Slots, NEW o \in SlotOutcomes, ProcessSkippedSlot(s, o)
         PROVE  InclusionInv'
    BY <1>1, <1>2, <1>3, <1>13, SkippedInclusion
  <1>14. ASSUME NEW b \in Blocks, NEW o \in SlotOutcomes, NEW written \in SUBSET Votes[b],
                ProcessBlock(b, o, written)
         PROVE  InclusionInv'
    BY <1>2, <1>3, <1>14, BlockInclusion
  <1>15. ASSUME NEW optimistic \in Optimistic, BranchSwitched(optimistic)
         PROVE  InclusionInv'
    BY <1>4, <1>15, SwitchedKept
  <1>16. ASSUME NEW root \in Blocks, NEW first \in Blocks,
                NEW rewarded \in SUBSET FinalizedScanTargets(chkpt), Finalize(root, first, rewarded)
         PROVE  InclusionInv'
    BY <1>4, <1>16, FinalizeKept
  <1> QED
    BY <1>5, <1>6, <1>7, <1>8, <1>9, <1>10, <1>11, <1>12, <1>13, <1>14, <1>15, <1>16 DEF Next, Work

LEMMA InclusionInit == Init => InclusionInv
  <1> SUFFICES ASSUME Init
               PROVE  InclusionInv
    OBVIOUS
  <1>1. HeadInv
    <2>1. EpochOf(head) \in Nat
      BY TypeInit, PollTypes
    <2> QED
      BY <2>1 DEF Init, HeadInv, PollEpoch
  <1>2. ReachInv
    <2>1. SlotToEpoch(0) = 0
      BY SlotsPerEpochAssumption, Z3 DEF SlotToEpoch
    <2>2. PollEpoch \in Nat
      BY TypeInit, PollTypes
    <2> QED
      BY <2>1, <2>2 DEF Init, ReachInv
  <1>3. RowInv /\ FinalInclusionOnChain
    BY DistinctAssumption DEF Init, RowInv, FinalInclusionOnChain
  <1> QED
    BY <1>1, <1>2, <1>3 DEF InclusionInv

\* Where votes settle, the collector accounts for every inclusion it has not frozen.
THEOREM InclusionInvariant == VotesSettle => (Spec => []InclusionInv)
  <1> SUFFICES ASSUME VotesSettle
               PROVE  Spec => []InclusionInv
    OBVIOUS
  <1>1. IInv /\ IInv' /\ InclusionInv /\ [Next]_vars => InclusionInv'
    BY InclusionStep
  <1> QED
    BY <1>1, InclusionInit, InductiveInvariant, PTL DEF Spec

\* A frozen inclusion describes a block of the finalized chain, over all rollbacks, outages,
\* retried slots and prunings, as long as the head does not leave a block with a tracked
\* vote from a later epoch: a rollback (live/reorg.rs:28) takes the records of the epoch
\* before the change back, but keeps the votes that they included for the epoch before.
THEOREM InclusionsOnChain == VotesSettle => (Spec => []FinalInclusionOnChain)
  <1> SUFFICES ASSUME VotesSettle
               PROVE  Spec => []FinalInclusionOnChain
    OBVIOUS
  <1>1. InclusionInv => FinalInclusionOnChain
    BY DEF InclusionInv
  <1> QED
    BY <1>1, InclusionInvariant, PTL
============================================================================
