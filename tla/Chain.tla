------------------------------- MODULE Chain -------------------------------
(***************************************************************************)
(* Slot and epoch arithmetic (src/src/chain.rs).  The number of slots per  *)
(* epoch is read from the beacon node at start-up, so it is a constant     *)
(* here and every theorem of the project holds for each value of it.       *)
(***************************************************************************)
EXTENDS Integers

CONSTANT SlotsPerEpoch

ASSUME SlotsPerEpochAssumption == SlotsPerEpoch \in Nat \ {0}

\* Saturating subtraction on u64: `a.saturating_sub(b)`.
SatSub(a, b) == IF a > b THEN a - b ELSE 0

Lesser(a, b) == IF a <= b THEN a ELSE b

Greater(a, b) == IF a >= b THEN a ELSE b

EpochStartSlot(epoch) == epoch * SlotsPerEpoch

SlotToEpoch(slot) == slot \div SlotsPerEpoch

\* Epoch E may be completed once checkpoint E+2 is final; below checkpoint 2
\* there is no such epoch (`checked_sub` returns None, here the empty set).
FinalizedScanTargets(checkpoint) == {e \in 0..checkpoint : e + 2 <= checkpoint}

============================================================================
