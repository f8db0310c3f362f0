--------------------------- MODULE MCBeaconClient ---------------------------
(***************************************************************************)
(* Two slots per epoch; the input of epoch 2, whose boundary is slot 4.    *)
(*                                                                         *)
(*   slot  0    2    3    4    6                                           *)
(*         g0 - a2 - c3 - c4 - c6                                          *)
(*               \------------ e6                                          *)
(*                                                                         *)
(* The anchor is a2 before the epoch starts, c4 on the first branch and a2 *)
(* again on the second.  Both inputs are decided in slot 3, where the      *)
(* branches differ.                                                        *)
(***************************************************************************)
EXTENDS BeaconClient, TLC

CONSTANTS g0, a2, c3, c4, c6, e6, w1, w2

Tree == {g0, a2, c3, c4, c6, e6}

Slot == g0 :> 0 @@ a2 :> 2 @@ c3 :> 3 @@ c4 :> 4 @@ c6 :> 6 @@ e6 :> 6

Lines ==
  g0 :> {g0} @@ a2 :> {g0, a2} @@ c3 :> {g0, a2, c3} @@ c4 :> {g0, a2, c3, c4}
  @@ c6 :> {g0, a2, c3, c4, c6} @@ e6 :> {g0, a2, e6}

Heads == {a2}

Steps == {<<a2, c6>>, <<c6, e6>>}

\* Proposer duties, and the committees of a recent state.
Inputs ==
  { [decidedAt |-> 3, named |-> TRUE, recent |-> FALSE],
    [decidedAt |-> 3, named |-> FALSE, recent |-> TRUE] }

=============================================================================
