---------------------------- MODULE MCRewardJobs ----------------------------
(***************************************************************************)
(* An instance of RewardJobs: two slots per epoch, and a reorganization    *)
(* that replaces the block of slot 3, a duty of epoch 1, and the state its *)
(* attestation rewards come from (slot 5).                                 *)
(*                                                                         *)
(*   slot  0    2    3    6    10                                          *)
(*         g0 - c2 - a3 - a6                                               *)
(*                \- b3 - b6 - b10                                         *)
(***************************************************************************)
EXTENDS RewardJobs, TLC

CONSTANTS g0, c2, a3, a6, b3, b6, b10

Tree == {g0, c2, a3, a6, b3, b6, b10}

Slot == g0 :> 0 @@ c2 :> 2 @@ a3 :> 3 @@ a6 :> 6 @@ b3 :> 3 @@ b6 :> 6 @@ b10 :> 10

Chains ==
    g0 :> {g0} @@ c2 :> {g0, c2} @@ a3 :> {g0, c2, a3} @@ a6 :> {g0, c2, a3, a6}
    @@ b3 :> {g0, c2, b3} @@ b6 :> {g0, c2, b3, b6}
    @@ b10 :> {g0, c2, b3, b6, b10}

Heads == {c2}

Steps == {<<c2, a6>>, <<a6, b6>>, <<b6, b10>>}

\* The head may also come back to the first branch...
ReturnSteps == Steps \cup {<<b6, a6>>}

\* ...only not while a request waits for its confirmation.
SettlingSpec == Init /\ [][Next /\ NoReturn]_vars

DutyEpochs == {1}

(***************************************************************************)
(* The same without a3: the first branch is empty from slot 3 to slot 5,   *)
(* so its last block before the boundary is c2, which is on the second     *)
(* branch too.                                                             *)
(***************************************************************************)
SkippedTree == Tree \ {a3}

SkippedSlot == [b \in SkippedTree |-> Slot[b]]

SkippedChains == [b \in SkippedTree |-> Chains[b] \ {a3}]

\* The condition that the first tree meets and the second does not.
ASSUME TreeAssumption == BoundariesDistinct <=> Blocks = Tree
=============================================================================
