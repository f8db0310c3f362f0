---------------------------- MODULE MCBackfill ------------------------------
(***************************************************************************)
(* Instances of Backfill: two validators, one active throughout and one    *)
(* that is activated late and exits early.                                 *)
(***************************************************************************)
EXTENDS BackfillRetry, TLC

CONSTANTS v1, v2

TwoValidators == {v1, v2}

\* v2 is active in epoch 1 only.
Joins == v1 :> 0 @@ v2 :> 1

Leaves == v1 :> LastEpoch + 1 @@ v2 :> 2

\* One epoch that no node serves any more, below the depth floor.
OneLost == {<<v1, 0>>}
=============================================================================
