---------------------------- MODULE ChainProofs ----------------------------
(* Facts about the slot and epoch arithmetic of Chain, and about the chains of
   the node's block tree. *)
EXTENDS BeaconNode, TLAPS

(* Slots and epochs *)

\* A slot belongs to exactly one epoch: it is not before the epoch's first slot
\* and before the next epoch's.
LEMMA SlotToEpochBounds ==
    ASSUME NEW s \in Nat
    PROVE  /\ SlotToEpoch(s) \in Nat
           /\ EpochStartSlot(SlotToEpoch(s)) <= s
           /\ s < EpochStartSlot(SlotToEpoch(s) + 1)
  BY SlotsPerEpochAssumption, Z3 DEF SlotToEpoch, EpochStartSlot

\* slot_to_epoch and epoch_start_slot are adjoint: a slot is at or after the
\* start of an epoch iff its own epoch is that one or a later one.
LEMMA EpochAtOrBelow ==
    ASSUME NEW s \in Nat, NEW e \in Nat
    PROVE  EpochStartSlot(e) <= s <=> e <= SlotToEpoch(s)
  BY SlotsPerEpochAssumption, Z3 DEF SlotToEpoch, EpochStartSlot

\* The same, for the slots before an epoch.
LEMMA BeforeEpoch ==
    ASSUME NEW s \in Nat, NEW e \in Nat
    PROVE  SlotToEpoch(s) < e <=> s < EpochStartSlot(e)
  BY SlotsPerEpochAssumption, Z3 DEF SlotToEpoch, EpochStartSlot

\* Epoch starts are slots, and strictly increase.
LEMMA EpochStartIncreases ==
    ASSUME NEW e \in Nat, NEW f \in Nat
    PROVE  /\ EpochStartSlot(e) \in Nat
           /\ e <= f => EpochStartSlot(e) <= EpochStartSlot(f)
           /\ e < f => EpochStartSlot(e) < EpochStartSlot(f)
  BY SlotsPerEpochAssumption, Z3 DEF EpochStartSlot

\* The epoch of an epoch's first slot is that epoch.
LEMMA EpochOfStart ==
    ASSUME NEW e \in Nat
    PROVE  SlotToEpoch(EpochStartSlot(e)) = e
  <1>1. EpochStartSlot(e) \in Nat
    BY EpochStartIncreases
  <1>2. e <= SlotToEpoch(EpochStartSlot(e))
    BY <1>1, EpochAtOrBelow
  <1>3. ~(e + 1 <= SlotToEpoch(EpochStartSlot(e)))
    BY <1>1, EpochAtOrBelow, EpochStartIncreases
  <1> QED
    BY <1>1, <1>2, <1>3, SlotToEpochBounds

\* The saturating operations stay in the naturals.
LEMMA SaturationBounds ==
    ASSUME NEW a \in Nat, NEW b \in Nat
    PROVE  /\ SatSub(a, b) \in Nat /\ SatSub(a, b) <= a
           /\ Lesser(a, b) \in Nat /\ Lesser(a, b) <= a /\ Lesser(a, b) <= b
           /\ Greater(a, b) \in Nat /\ a <= Greater(a, b) /\ b <= Greater(a, b)
  BY DEF SatSub, Lesser, Greater

\* A checkpoint decides an epoch only from two epochs later on.
LEMMA ScanTargetBounds ==
    ASSUME NEW c \in Nat, NEW e \in FinalizedScanTargets(c)
    PROVE  e \in Nat /\ e + 2 <= c
  BY DEF FinalizedScanTargets

---------------------------------------------------------------------------
(* Chains *)

\* What lies at or before a slot on b's chain lies on the chain of the block
\* that is b's ancestor at that slot.
LEMMA BelowAncestor ==
    ASSUME NEW b \in Blocks, NEW r, NEW slot \in Nat, IsAncestorAt(r, b, slot),
           NEW y \in Ancestry[b], BlockSlot[y] <= slot
    PROVE  y \in Ancestry[r]
  BY AncestryAssumption DEF IsAncestorAt

\* A checkpoint block is its own ancestor at the checkpoint's slot.
LEMMA AncestorOfItself ==
    ASSUME NEW b \in Blocks, NEW r, NEW slot \in Nat, IsAncestorAt(r, b, slot)
    PROVE  IsAncestorAt(r, r, slot)
  <1>1. r \in Blocks /\ r \in Ancestry[r] /\ BlockSlot[r] <= slot
    BY AncestryAssumption DEF IsAncestorAt
  <1>2. \A y \in Ancestry[r] : BlockSlot[y] <= BlockSlot[r]
    BY <1>1, AncestryAssumption
  <1> QED
    BY <1>1, <1>2 DEF IsAncestorAt

LEMMA AncestorUnique ==
    ASSUME NEW b \in Blocks, NEW x, NEW y, NEW slot \in Nat,
           IsAncestorAt(x, b, slot), IsAncestorAt(y, b, slot)
    PROVE  x = y
  <1>1. x \in Ancestry[b] /\ y \in Ancestry[b] /\ x \in Blocks /\ y \in Blocks
    BY AncestryAssumption DEF IsAncestorAt
  <1>2. BlockSlot[x] \in Nat /\ BlockSlot[y] \in Nat
    BY <1>1, BlockSlotAssumption
  <1>3. BlockSlot[x] = BlockSlot[y]
    BY <1>1, <1>2 DEF IsAncestorAt
  <1> QED
    BY <1>1, <1>3, AncestryAssumption

\* The ancestor at an earlier slot passes through the ancestor at a later one.
LEMMA AncestorsNest ==
    ASSUME NEW b \in Blocks, NEW r, NEW q, NEW early \in Nat, NEW late \in Nat, early <= late,
           IsAncestorAt(r, b, early), IsAncestorAt(q, b, late)
    PROVE  r \in Ancestry[q] /\ IsAncestorAt(r, q, early)
  <1>1. Ancestry[q] \subseteq Ancestry[b] /\ r \in Blocks /\ q \in Blocks
    BY AncestryAssumption DEF IsAncestorAt
  <1>2. BlockSlot[r] \in Nat
    BY <1>1, BlockSlotAssumption
  <1>3. r \in Ancestry[q]
    BY <1>1, <1>2, BelowAncestor DEF IsAncestorAt
  <1> QED
    BY <1>1, <1>3 DEF IsAncestorAt

============================================================================
