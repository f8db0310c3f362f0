-------------------------- MODULE AttestationDecode --------------------------
(***************************************************************************)
(* How the attestations of a block become inclusions of validators         *)
(* (src/src/scanner/attestations/decode.rs): pure, without I/O.  An        *)
(* attestation is                                                          *)
(*   [electra, slot, index, committeeBits, aggregationBits, head, target,  *)
(*    source]                                                              *)
(* with the two bit fields as bytes.  The committees of an epoch are a     *)
(* function from <<slot, index>> to the sequence of its validators.  A     *)
(* vote context is [blockRoots, targetRoot, targetEpoch, source].          *)
(*                                                                         *)
(* Every error of the module aborts the scan that called it, so the error  *)
(* paths are predicates (...Resolves, ...Decodes) and the values are read  *)
(* only where they hold.                                                   *)
(***************************************************************************)
EXTENDS Chain, Bits, FiniteSetsExt, SequencesExt

CONSTANT MaxCommitteesPerSlot,   \* MAX_COMMITTEES_PER_SLOT of the preset
         NoSource                \* a context that takes the source as verified

ASSUME MaxCommitteesAssumption == MaxCommitteesPerSlot \in Nat \ {0}

\* The committees an attestation names: since Electra the bits of
\* committee_bits, before it the one of data.index.
SelectedCommittees(att) ==
  IF att.electra
  THEN LET bits == DecodeBitvector(att.committeeBits)
       IN {i \in 0..(Len(bits) - 1) : bits[i + 1]}
  ELSE {att.index}

\* Mutant: the offset counts every committee of the slot, selected or not.
BitOffsetOfAll(att, committees, index) ==
  LET offset[i \in 0..MaxCommitteesPerSlot] ==
        IF i = 0 THEN 0
        ELSE offset[i - 1] + IF <<att.slot, i - 1>> \in DOMAIN committees
                             THEN Len(committees[<<att.slot, i - 1>>]) ELSE 0
  IN offset[index]

\* `bit_offset`: each selected committee adds its size to that of the next one.
BitOffset(att, committees, index) ==
  LET offset[i \in 0..MaxCommitteesPerSlot] ==
        IF i = 0 THEN 0
        ELSE offset[i - 1] + IF i - 1 \in SelectedCommittees(att)
                             THEN Len(committees[<<att.slot, i - 1>>]) ELSE 0
  IN offset[index]

\* resolve_pre_electra_committees and resolve_electra_committees succeed.
CommitteesResolve(att, committees) ==
  /\ BitlistWellFormed(att.aggregationBits)
  /\ att.electra => /\ att.index = 0
                    /\ Len(DecodeBitvector(att.committeeBits)) = MaxCommitteesPerSlot
                    /\ SelectedCommittees(att) # {}
  /\ \A i \in SelectedCommittees(att) : <<att.slot, i>> \in DOMAIN committees
  /\ Len(DecodeBitlist(att.aggregationBits)) =
       BitOffset(att, committees, MaxCommitteesPerSlot)

\* The tracked validators whose aggregation bit is set.
SeenValidators(att, committees, tracked) ==
  LET bits == DecodeBitlist(att.aggregationBits)
  IN {v \in tracked :
        \E i \in SelectedCommittees(att) :
          \E p \in DOMAIN committees[<<att.slot, i>>] :
            /\ committees[<<att.slot, i>>][p] = v
            /\ bits[BitOffset(att, committees, i) + p]}

\* compute_vote_correctness.
VoteMarks(att, ctx) ==
  [source |-> ctx.source = NoSource \/ att.source = ctx.source,
   target |-> att.target = [epoch |-> ctx.targetEpoch, root |-> ctx.targetRoot],
   head   |-> att.head = ctx.blockRoots[att.slot]]

\* process_pre_electra_attestation and process_electra_attestation succeed:
\* other epochs are skipped before any check, and the votes are looked up only
\* when a tracked validator is seen.
AttestationDecodes(att, inclusionSlot, committees, tracked, ctx) ==
  SlotToEpoch(att.slot) = ctx.targetEpoch =>
    /\ CommitteesResolve(att, committees)
    /\ att.slot <= inclusionSlot
    /\ SeenValidators(att, committees, tracked) # {} => att.slot \in DOMAIN ctx.blockRoots

\* record_committee_inclusions: the validators an attestation records, none if
\* it is of another epoch or does not resolve.
Recorded(att, committees, tracked, ctx) ==
  IF SlotToEpoch(att.slot) = ctx.targetEpoch /\ CommitteesResolve(att, committees)
  THEN SeenValidators(att, committees, tracked) ELSE {}

\* Mutant: a later inclusion replaces an earlier one.
LastRecord(places) == Max(places)

\* contains_key: of the places that record a validator the first one counts.
FirstRecord(places) == Min(places)

Inclusion(att, inclusionSlot, ctx) ==
  [slot  |-> inclusionSlot,
   delay |-> inclusionSlot - att.slot,
   marks |-> VoteMarks(att, ctx)]

\* extract_attestation_inclusions, over the attestations of one block.
BlockDecodes(atts, inclusionSlot, committees, tracked, ctx) ==
  \A k \in DOMAIN atts :
    AttestationDecodes(atts[k], inclusionSlot, committees, tracked, ctx)

ExtractInclusions(atts, inclusionSlot, committees, tracked, ctx) ==
  LET places(v) == {k \in DOMAIN atts : v \in Recorded(atts[k], committees, tracked, ctx)}
  IN [v \in {w \in tracked : places(w) # {}} |->
        Inclusion(atts[FirstRecord(places(v))], inclusionSlot, ctx)]

\* collect_inclusions_from_blocks: the blocks of `bodies` in slot order.
CollectInclusions(bodies, committees, tracked, ctx) ==
  LET found == [slot \in DOMAIN bodies |->
                  ExtractInclusions(bodies[slot], slot, committees, tracked, ctx)]
      places(v) == {slot \in DOMAIN bodies : v \in DOMAIN found[slot]}
  IN [v \in {w \in tracked : places(w) # {}} |-> found[FirstRecord(places(v))][v]]

BodiesDecode(bodies, committees, tracked, ctx) ==
  \A slot \in DOMAIN bodies : BlockDecodes(bodies[slot], slot, committees, tracked, ctx)

=============================================================================
