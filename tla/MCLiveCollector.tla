-------------------------- MODULE MCLiveCollector --------------------------
(***************************************************************************)
(* Instances of LiveCollector with two slots per epoch.  A tree is given   *)
(* by the parent and the slot of each block; block names are strings whose *)
(* number is the slot.  `g` is genesis.                                    *)
(***************************************************************************)
EXTENDS LiveCollectorInv

\* A block and all its ancestors, by the parent function of a tree.
AncestryOf(parent) ==
    LET anc[b \in DOMAIN parent] == IF parent[b] = b THEN {b} ELSE {b} \cup anc[parent[b]]
    IN  anc

---------------------------------------------------------------------------
(* One fork.  q5 and p6 are on the branch of o3, which skips slot 4 (and 5 *)
(* under p6); the finalized branch has a5 and a6, and skips 3 and 4.       *)
(*   - The votes of epoch 1 in a5 and of epoch 2 in p6 are each on one     *)
(*     branch only; p6 and a6 are in the same slot.                        *)
(*   - With the head at q5, o3 is recorded and slot 4 covered as skipped;  *)
(*     the window of head a8 starts at slot 4, so o3 stays behind.         *)
(*   - With the head at p7, slot 5 is covered as skipped, where a5 is.     *)
(* The head leaves p6 before a later epoch begins, and never leaves a5: no *)
(* vote of an epoch before the head's is left (VotesSettle).               *)

ForkParent == [g |-> "g", c2 |-> "g", o3 |-> "c2", q5 |-> "o3", p6 |-> "o3", p7 |-> "p6",
               a5 |-> "c2", a6 |-> "a5", a8 |-> "a6", a10 |-> "a8"]
ForkSlot == [g |-> 0, c2 |-> 2, o3 |-> 3, q5 |-> 5, p6 |-> 6, p7 |-> 7,
             a5 |-> 5, a6 |-> 6, a8 |-> 8, a10 |-> 10]
ForkBlocks == DOMAIN ForkParent
ForkAncestry == AncestryOf(ForkParent)
ForkVotes == [b \in ForkBlocks |-> IF b = "a5" THEN {1} ELSE IF b = "p6" THEN {2} ELSE {}]
ForkHeadStep == {<<"c2", "q5">>, <<"q5", "p7">>, <<"q5", "a6">>, <<"p7", "a8">>, <<"a6", "a8">>, <<"a8", "a10">>}

---------------------------------------------------------------------------
(* A skipped slot that the other branch fills: a6 skips slot 5, b7 has b5, *)
(* which carries the vote of epoch 1.                                      *)

SkipParent == [g |-> "g", c2 |-> "g", c4 |-> "c2", a6 |-> "c4", b5 |-> "c4", b7 |-> "b5"]
SkipSlot == [g |-> 0, c2 |-> 2, c4 |-> 4, a6 |-> 6, b5 |-> 5, b7 |-> 7]
SkipBlocks == DOMAIN SkipParent
SkipAncestry == AncestryOf(SkipParent)
SkipVotes == [b \in SkipBlocks |-> IF b = "b5" THEN {1} ELSE {}]
SkipHeadStep == {<<"c2", "c4">>, <<"c4", "a6">>, <<"a6", "b7">>}
\* The other way round, the node falls back from b7 to c4 before a6 arrives.
BackHeadStep == {<<"c2", "b7">>, <<"b7", "c4">>, <<"c4", "a6">>}

---------------------------------------------------------------------------
(* Two reorgs in a row: x6 gives way to x7 on the same b5, then the whole  *)
(* branch to y5, y8, y10.  b5 carries the vote of epoch 1, y5 does not.    *)

TwiceParent == [g |-> "g", c2 |-> "g", b5 |-> "c2", x6 |-> "b5", x7 |-> "b5",
                y5 |-> "c2", y8 |-> "y5", y10 |-> "y8"]
TwiceSlot == [g |-> 0, c2 |-> 2, b5 |-> 5, x6 |-> 6, x7 |-> 7, y5 |-> 5, y8 |-> 8, y10 |-> 10]
TwiceBlocks == DOMAIN TwiceParent
TwiceAncestry == AncestryOf(TwiceParent)
TwiceVotes == [b \in TwiceBlocks |-> IF b = "b5" THEN {1} ELSE {}]
TwiceHeadStep == {<<"c2", "b5">>, <<"b5", "x6">>, <<"x6", "x7">>, <<"x7", "y8">>, <<"y8", "y10">>}

---------------------------------------------------------------------------
(* One branch; a4 and a5 both carry the vote of epoch 1.                   *)

LineParent == [g |-> "g", c2 |-> "g", c3 |-> "c2", a4 |-> "c3", a5 |-> "a4", a8 |-> "a5", a10 |-> "a8"]
LineSlot == [g |-> 0, c2 |-> 2, c3 |-> 3, a4 |-> 4, a5 |-> 5, a8 |-> 8, a10 |-> 10]
LineBlocks == DOMAIN LineParent
LineAncestry == AncestryOf(LineParent)
LineVotes == [b \in LineBlocks |-> IF b \in {"a4", "a5"} THEN {1} ELSE {}]
LineHeadStep == {<<"c3", "a5">>, <<"a5", "a8">>, <<"a8", "a10">>}

---------------------------------------------------------------------------

\* The instance of LiveFork meets the condition of InclusionInv.
ASSUME ForkSettles == Blocks = ForkBlocks => VotesSettle

StartAtC2 == {"c2"}
StartAtC3 == {"c3"}

CompleteDuties == {{"attester", "slot"}}
AttesterDuties == {{"attester", "slot"}, {"attester"}, {"attester", "error"}}
============================================================================
