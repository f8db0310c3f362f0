-------------------------- MODULE MCValidatorTable --------------------------
(***************************************************************************)
(* Instances of ValidatorTable: words of five bits, two validators, exits  *)
(* scheduled two epochs ahead and a refresh at least every other epoch.    *)
(***************************************************************************)
EXTENDS ValidatorTable, TLC

CONSTANTS v1, v2

TwoValidators == {v1, v2}

Symmetry == Permutations(TwoValidators)
=============================================================================
