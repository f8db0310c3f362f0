--------------------------- MODULE MCEpochScanner ---------------------------
(***************************************************************************)
(* Epoch 2 of chains with two slots per epoch: its slots are 4 and 5, the  *)
(* inclusion window ends with slot 7.  v1 attests in slot 4 beside an      *)
(* untracked validator, v2 in slot 5 in the second committee.              *)
(***************************************************************************)
EXTENDS EpochScanner

CONSTANTS v1, v2, u1, u2, u3

MCCommittees ==
  (<<4, 0>> :> <<u1, v1>>) @@ (<<4, 1>> :> <<u3>>) @@
  (<<5, 0>> :> <<u2>>) @@ (<<5, 1>> :> <<v2>>)

LastFilled(filled, slot) == Max({s \in filled : s <= slot})

\* The vote of v1 shares an aggregate with the other committee of its slot.
VoteOfV1(filled, head) ==
  [electra |-> TRUE, slot |-> 4, committees |-> {0, 1}, voters |-> {v1, u3},
   head |-> head, target |-> LastFilled(filled, 4)]

\* An aggregate of the same committees that v1 did not sign.
VoteOfOthers(filled) == [VoteOfV1(filled, LastFilled(filled, 4)) EXCEPT !.voters = {u3}]

VoteOfV2(filled, electra) ==
  [electra |-> electra, slot |-> 5, committees |-> {1}, voters |-> {v2},
   head |-> LastFilled(filled, 5), target |-> LastFilled(filled, 4)]

\* `in1` and `in2` are the slots v1 and v2 are included in.
ChainOf(filled, in1, in2, head, electra, leaking, proposer, committee, signed) ==
  LET votes == [s \in filled \cap (4..7) |->
                  (IF s = 6 THEN <<VoteOfOthers(filled)>> ELSE << >>) \o
                  (IF s \in in1 THEN <<VoteOfV1(filled, head)>> ELSE << >>) \o
                  (IF s \in in2 THEN <<VoteOfV2(filled, electra)>> ELSE << >>)]
  IN [filled |-> filled, votes |-> votes,
      body |-> [s \in DOMAIN votes |-> [k \in DOMAIN votes[s] |-> AttestationOf(votes[s][k])]],
      leaking |-> leaking,
      proposer |-> [s \in 4..5 |-> IF s = proposer THEN v1 ELSE u1],
      syncCommittee |-> committee,
      syncBits |-> [s \in filled \cap (4..5) |-> EncodeBitvector(signed)]]

Voters == <<u1, u2>>

\* Repeated inclusions, and slot 5 empty; a missed boundary slot with votes
\* for another head; a leak; no inclusion, with two sync committee members; no
\* block from slot 1 to slot 4.
Repeated == ChainOf({0, 2, 4, 5, 6, 7}, {5, 7}, {7}, 4, TRUE, FALSE, 0, Voters, <<TRUE, TRUE>>)
EmptySlot == ChainOf({0, 2, 4, 6, 7}, {6}, {6, 7}, 4, FALSE, FALSE, 0, Voters, <<TRUE, TRUE>>)
EmptyBoundary == ChainOf({0, 2, 5, 7}, {7}, {7}, -1, TRUE, FALSE, 0, Voters, <<TRUE, TRUE>>)
Leak == ChainOf({0, 2, 4, 5, 6, 7}, {5}, {}, 4, TRUE, TRUE, 0, Voters, <<TRUE, TRUE>>)
Missed == ChainOf({0, 2, 4, 5, 6, 7}, {}, {}, 4, TRUE, FALSE, 0, <<v1, v2>>, <<TRUE, FALSE>>)
EmptyEpoch == ChainOf({0, 5, 6, 7}, {6}, {6}, 0, TRUE, FALSE, 0, Voters, <<TRUE, TRUE>>)

\* Proposals and sync committee duties of v1: signed in one position of its
\* own, in both, cancelling out, and in slots without a block.
Duties == ChainOf({0, 5, 6}, {6}, {}, 0, TRUE, FALSE, 5, <<v1, u1>>, <<FALSE, TRUE>>)
TwoPositions == ChainOf({0, 4, 6, 7}, {6}, {6}, 4, TRUE, FALSE, 5, <<v1, v1>>, <<TRUE, TRUE>>)
Cancelling == ChainOf({0, 4, 5, 6}, {5}, {6}, 4, TRUE, FALSE, 5, <<v1, v1>>, <<TRUE, FALSE>>)
NoBlocks == ChainOf({0, 2, 6, 7}, {6}, {6}, 2, TRUE, FALSE, 4, <<v1, u1>>, <<TRUE, TRUE>>)

MCLiveChains == {Repeated, EmptySlot, Duties}

MCChains == MCLiveChains \cup {EmptyBoundary, Leak, Missed, EmptyEpoch, TwoPositions,
                               Cancelling, NoBlocks}

\* An inclusion on a branch that was abandoned, with and without a reward.
MCLeftovers ==
  { Row(TRUE, 6, 2, 2, [c \in Components |-> FALSE], Null, FALSE),
    Row(TRUE, 5, 1, 1, [c \in Components |-> TRUE], [c \in Components |-> TRUE], FALSE) }

=============================================================================
