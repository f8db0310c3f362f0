---------------------------- MODULE EpochScanner ----------------------------
(***************************************************************************)
(* The rows of one epoch and everything that writes them                   *)
(* (src/src/scanner, src/src/db/scanner): the archive's scan_epoch in its  *)
(* dense and sparse modes, the live worker's scan of single blocks, the    *)
(* reward joins, and the promotion of live rows to final ones.  Each       *)
(* upsert is one statement of the database; the writers interleave between *)
(* statements, and each stops anywhere.                                    *)
(*                                                                         *)
(* Abstractions.                                                           *)
(*  - The inclusion window of the epoch is final and does not change: the  *)
(*    branch switches are those of LiveCollector and RewardJobs.  A        *)
(*    database may start with what an earlier run left (Leftovers).        *)
(*  - The root of a block is its slot; a root off the chain is negative.   *)
(*  - A reward of an attestation is, per component, whether it is          *)
(*    positive: amounts are copied.  A reward of a proposal is the root    *)
(*    of its block.                                                        *)
(*  - Requests are answered truly or fail.  Which one fails is a choice.   *)
(*  - Before Altair the archive takes a missing inclusion delay from the   *)
(*    rewards (reward.inclusion_delay); no chain here is that old.         *)
(***************************************************************************)
EXTENDS AttestationDecode

CONSTANTS
    Epoch,       \* the epoch scanned
    Tracked,     \* the validators tracked
    Committees,  \* <<slot, index>> -> the validators of a committee
    Chains,      \* the chains considered, see ChainAssumption
    LiveChains,  \* those the live worker may run on too
    Leftovers,   \* the rows an earlier run may have left for a validator
    Legacy,      \* the validators with a row of an earlier version, if live
    Magnitude,   \* participant_reward of a sync committee position
    Null         \* SQL NULL, and the absence of a row

EpochSlots == EpochStartSlot(Epoch)..(EpochStartSlot(Epoch + 1) - 1)

Window == EpochStartSlot(Epoch)..(EpochStartSlot(Epoch + 2) - 1)

Components == {"source", "target", "head"}

Marks == [Components -> BOOLEAN \cup {Null}]

AttestationRow ==
    [included : BOOLEAN, slot : Window \cup {Null},
     delay : Nat \cup {Null}, effective : Nat \cup {Null}, marks : Marks,
     reward : [Components -> BOOLEAN] \cup {Null}, known : BOOLEAN, final : BOOLEAN]

ProposalRow == [proposed : BOOLEAN, reward : EpochSlots \cup {Null}, final : BOOLEAN]

SyncRow ==
    [participated : BOOLEAN, reward : Int \cup {Null}, missed : BOOLEAN, final : BOOLEAN]

\* External: how the consensus specification encodes an aggregate of votes for
\* one slot, of which `committees` are the committees and `voters` those who
\* signed.  The bits of the committees follow each other by committee index; here
\* those of the committees below `index`.
Signatures(vote, index) ==
  LET signed(committee) == [p \in DOMAIN committee |-> committee[p] \in vote.voters]
      upTo[i \in 0..MaxCommitteesPerSlot] ==
        IF i = 0 THEN << >>
        ELSE upTo[i - 1] \o IF i - 1 \in vote.committees
                            THEN signed(Committees[<<vote.slot, i - 1>>]) ELSE << >>
  IN upTo[index]

\* An accepted block only holds votes whose source is the justified checkpoint.
AttestationOf(vote) ==
  [electra |-> vote.electra, slot |-> vote.slot,
   index |-> IF vote.electra THEN 0 ELSE Min(vote.committees),
   committeeBits |-> EncodeBitvector([i \in 1..MaxCommitteesPerSlot |->
                                        (i - 1) \in vote.committees]),
   aggregationBits |-> EncodeBitlist(Signatures(vote, MaxCommitteesPerSlot)),
   head |-> vote.head, target |-> [epoch |-> Epoch, root |-> vote.target],
   source |-> "justified"]

\* An aggregate is of committees of its slot, before Electra of one, and only
\* their members sign it.
IsVote(vote) ==
  /\ vote.electra \in BOOLEAN
  /\ vote.committees # {} /\ \A i \in vote.committees : <<vote.slot, i>> \in DOMAIN Committees
  /\ ~vote.electra => \A i, j \in vote.committees : i = j
  /\ \A v \in vote.voters : \E i \in vote.committees : v \in Range(Committees[<<vote.slot, i>>])

\* The slot of the committee a validator sits in.
DutySlot(v) ==
  (CHOOSE c \in DOMAIN Committees : v \in Range(Committees[c]))[1]

\* A chain: its slots with a block, the votes in each block of the window and
\* their encoding, whether an inactivity leak withholds rewards, who proposes,
\* and the sync committee with the signatures in each block of the epoch.
ASSUME ChainAssumption ==
    \A c \in Chains :
      /\ 0 \in c.filled /\ c.filled \subseteq Nat
      /\ DOMAIN c.votes = c.filled \cap Window
      /\ \A s \in DOMAIN c.votes : c.votes[s] \in Seq(Range(c.votes[s]))
      /\ \A s \in DOMAIN c.votes : \A k \in DOMAIN c.votes[s] :
           /\ IsVote(c.votes[s][k])
           /\ c.votes[s][k].slot \in EpochSlots /\ c.votes[s][k].slot < s
           /\ \A v \in Tracked \cap c.votes[s][k].voters : c.votes[s][k].slot = DutySlot(v)
      /\ c.body = [s \in DOMAIN c.votes |->
                     [k \in DOMAIN c.votes[s] |-> AttestationOf(c.votes[s][k])]]
      /\ DOMAIN c.proposer = EpochSlots
      /\ c.syncCommittee \in Seq(Range(c.syncCommittee))
      /\ DOMAIN c.syncBits = c.filled \cap EpochSlots
      /\ \A s \in DOMAIN c.syncBits :
           Len(DecodeBitvector(c.syncBits[s])) = Len(c.syncCommittee)

\* MaxCommitteesPerSlot: resolve_electra_committees takes every bit of the bytes
\* of committee_bits for a committee, 64 on mainnet.  A limit that does not fill
\* its bytes would make every scan fail.
ASSUME ScannerAssumption ==
    /\ MaxCommitteesPerSlot % BitsPerByte = 0
    /\ Epoch \in Nat /\ IsFiniteSet(Tracked)
    /\ DOMAIN Committees \subseteq EpochSlots \X (0..(MaxCommitteesPerSlot - 1))
    /\ \A c \in DOMAIN Committees : Committees[c] \in Seq(Range(Committees[c]))
    /\ \A v \in Tracked : \E c \in DOMAIN Committees : v \in Range(Committees[c])
    /\ Magnitude \in Nat
    /\ LiveChains \subseteq Chains
    /\ Legacy \subseteq Tracked
    /\ Leftovers \subseteq AttestationRow

ASSUME NullAssumption ==
    /\ Null \notin Int /\ Null \notin BOOLEAN /\ Null \notin {"archive", "live"}
    /\ Null \notin [Components -> BOOLEAN]
    /\ Null \notin AttestationRow /\ Null \notin ProposalRow /\ Null \notin SyncRow

VARIABLES
    chain,      \* the canonical chain
    decoded,    \* what the scans make of its blocks, see Decoded
    mode,       \* the effective scan mode: "dense" or "sparse"
    live,       \* whether the live worker runs beside the archive's
    rows,       \* attestation_duties, by validator
    proposals,  \* block_proposals, by slot
    syncs,      \* sync_duties, by <<validator, slot>>
    completed,  \* completed_scans: by whom a validator's epoch was completed
    covered,    \* live_coverage: the slots the live worker has collected
    staged,     \* live_jobs with status complete: <<component, slot>>
    scan        \* the archive's scan_epoch: its stage and local variables

vars == <<chain, decoded, mode, live, rows, proposals, syncs, completed, covered, staged, scan>>

NoScan == [stage |-> "idle", validators |-> {}, todo |-> {}, duties |-> {},
           rewarded |-> {}, found |-> << >>, magnitude |-> Null]

(***************************************************************************)
(* The chain, and what a healthy beacon node answers about it.             *)
(***************************************************************************)

RootAtOrBefore(c, slot) == Max({s \in c.filled : s <= slot})

\* The votes of a validator, by the slot of the block they are included in,
\* and the first vote of it in a block.
InclusionSlots(v) ==
  {s \in DOMAIN chain.votes : \E k \in DOMAIN chain.votes[s] : v \in chain.votes[s][k].voters}

VoteIn(v, slot) ==
  chain.votes[slot][Min({k \in DOMAIN chain.votes[slot] : v \in chain.votes[slot][k].voters})]

RightVote(vote) ==
  [source |-> TRUE,
   target |-> vote.target = RootAtOrBefore(chain, EpochStartSlot(Epoch)),
   head   |-> vote.head = RootAtOrBefore(chain, vote.slot)]

\* External: the rewards endpoint.  A right vote included in time is paid, and
\* nothing is while a leak lasts.
RewardOf(v) ==
  IF chain.leaking \/ InclusionSlots(v) = {} THEN [c \in Components |-> FALSE]
  ELSE LET first == Min(InclusionSlots(v))
           right == RightVote(VoteIn(v, first))
       IN [right EXCEPT !.head = right.head /\ first = DutySlot(v) + 1]

ProposerSlots == {s \in EpochSlots : chain.proposer[s] \in Tracked}

\* get_sync_duties: the tracked members of the committee.
SyncMembers == Tracked \cap Range(chain.syncCommittee)

\* sync_outcomes: a member participates with any of its positions, and is
\* rewarded for each position signed less each one not signed.
Positions(v) == {p \in DOMAIN chain.syncCommittee : chain.syncCommittee[p] = v}

Signed(v, slot) == {p \in Positions(v) : DecodeBitvector(chain.syncBits[slot])[p]}

Participated(v, slot) == Signed(v, slot) # {}

NetPositions(v, slot) ==
  LET signed == Signed(v, slot)
  IN Cardinality(signed) - Cardinality(Positions(v) \ signed)

\* External: what the rewards endpoint answers for a member.
SyncRewardOf(v, slot) ==
  IF slot \in chain.filled
  THEN LET signed == {p \in Positions(v) : DecodeBitvector(chain.syncBits[slot])[p]}
       IN Magnitude * (2 * Cardinality(signed) - Cardinality(Positions(v)))
  ELSE 0

(***************************************************************************)
(* The three upserts and the updates of attestation_duties.                *)
(***************************************************************************)

Coalesce(a, b) == IF a # Null THEN a ELSE b

Row(included, slot, delay, effective, marks, reward, final) ==
  [included |-> included, slot |-> slot, delay |-> delay, effective |-> effective,
   marks |-> marks, reward |-> reward, known |-> FALSE, final |-> final]

NoMarks == [c \in Components |-> Null]

\* Mutant: an epoch that is complete does not stop a finalized write.
ReplacesCompleted(new, old, done) ==
  \/ /\ ~old.final
     /\ \/ new.final
        \/ old.slot = Null
        \/ /\ new.slot # Null
           /\ \/ new.slot < old.slot
              \/ new.slot = old.slot /\ new.effective # Null
  \/ new.final

\* The WHERE clause of upsert_attestation_duty.
Replaces(new, old, done) ==
  \/ /\ ~old.final
     /\ \/ new.final
        \/ old.slot = Null
        \/ /\ new.slot # Null
           /\ \/ new.slot < old.slot
              \/ new.slot = old.slot /\ new.effective # Null
  \/ new.final /\ ~done

Upsert(new, old, done) ==
  IF old = Null THEN new
  ELSE IF Replaces(new, old, done)
  THEN [new EXCEPT !.marks = [c \in Components |-> Coalesce(new.marks[c], old.marks[c])],
                   !.reward = Coalesce(new.reward, old.reward),
                   !.known = old.known]
  ELSE old

\* Nothing of an inclusion is left to find out.
Detailed(row) ==
  row.included => row.effective # Null /\ \A c \in Components : row.marks[c] # Null

\* The SET list of update_attestation_rewards_batch and of the replay.
JoinReward(row, reward) ==
  [row EXCEPT !.reward = reward,
              !.marks = [c \in Components |->
                           Coalesce(row.marks[c], IF reward[c] THEN TRUE ELSE Null)]]

\* repair_finalized_inclusion.
Repaired(row, inc, effective, done) ==
  IF /\ row.included /\ row.slot >= inc.slot
     /\ \/ ~done
        \/ row.slot = inc.slot /\ ~Detailed(row)
  THEN [row EXCEPT !.slot = inc.slot, !.delay = inc.delay, !.effective = effective,
                   !.marks = inc.marks]
  ELSE row

\* upsert_block_proposal and upsert_sync_duty: `new` has the fields of the
\* table, its reward and the final flag.
UpsertOutcome(new, old, done) ==
  IF old = Null THEN new
  ELSE IF ~old.final \/ (new.final /\ ~done)
  THEN [new EXCEPT !.reward = Coalesce(new.reward, old.reward)]
  ELSE old

Done(v) == completed[v] # Null

ProposalOf(slot, reward, final) ==
  [proposed |-> slot \in chain.filled,
   reward |-> IF slot \in chain.filled THEN reward ELSE Null, final |-> final]

SyncOf(v, slot, magnitude, final) ==
  IF slot \in chain.filled
  THEN [participated |-> Participated(v, slot),
        reward |-> IF magnitude = Null THEN Null ELSE magnitude * NetPositions(v, slot),
        missed |-> FALSE, final |-> final]
  ELSE [participated |-> FALSE, reward |-> 0, missed |-> TRUE, final |-> final]

(***************************************************************************)
(* The archive: scan_epoch(finalized = TRUE).                              *)
(***************************************************************************)

\* process_epoch_attestation_duties: build_block_root_map carries roots over
\* empty slots and looks for the first one in the epoch before, no further.
DenseReady(c) ==
  \E s \in c.filled : EpochStartSlot(Epoch) - SlotsPerEpoch <= s /\ s <= EpochStartSlot(Epoch)

DenseContext(c) ==
  [blockRoots  |-> [s \in EpochSlots |-> RootAtOrBefore(c, s)],
   targetRoot  |-> RootAtOrBefore(c, EpochStartSlot(Epoch)),
   targetEpoch |-> Epoch,
   source      |-> "justified"]

\* What the blocks of the window say of `validators`: a set of one result,
\* empty if the scan fails on them.
DenseResult(c, validators) ==
  IF DenseReady(c) /\ BodiesDecode(c.body, Committees, validators, DenseContext(c))
  THEN {CollectInclusions(c.body, Committees, validators, DenseContext(c))}
  ELSE {}

\* root_at_or_before looks two epochs back.
SparseReady(c, v) ==
  \A slot \in {EpochStartSlot(Epoch), DutySlot(v)} :
    \E s \in c.filled : slot - 2 * SlotsPerEpoch <= s /\ s <= slot

SparseContext(c, v) ==
  [blockRoots  |-> [s \in {DutySlot(v)} |-> RootAtOrBefore(c, s)],
   targetRoot  |-> RootAtOrBefore(c, EpochStartSlot(Epoch)),
   targetEpoch |-> Epoch,
   source      |-> NoSource]

\* scan_forward_for_inclusion visits the blocks after the duty, up to the
\* first inclusion.
ForwardBodies(c, v) == [s \in {b \in DOMAIN c.body : b > DutySlot(v)} |-> c.body[s]]

SparseFound(c, v) == CollectInclusions(ForwardBodies(c, v), Committees, {v}, SparseContext(c, v))

VisitedBodies(c, v) ==
  LET found == SparseFound(c, v)
  IN [s \in {b \in DOMAIN ForwardBodies(c, v) : v \in DOMAIN found => b <= found[v].slot} |->
        c.body[s]]

SparseResult(c, v) ==
  IF /\ SparseReady(c, v)
     /\ BodiesDecode(VisitedBodies(c, v), Committees, {v}, SparseContext(c, v))
  THEN {SparseFound(c, v)}
  ELSE {}

\* effective_inclusion_delay: the empty slots in between are not counted.
EffectiveDelay(dutySlot, inclusionSlot, delay) ==
  SatSub(delay, Cardinality({s \in (dutySlot + 1)..(inclusionSlot - 1) : s \notin chain.filled}))

\* write_duty_rows and derive_sparse_row.  A row of the sparse mode without
\* an inclusion is marked by its rewards, one of the dense mode is not.
ScannedRow(v, found, reward) ==
  IF v \in DOMAIN found
  THEN LET inc == found[v]
           delay == IF mode = "dense" THEN inc.delay ELSE inc.slot - DutySlot(v)
       IN Row(TRUE, inc.slot, delay, EffectiveDelay(DutySlot(v), inc.slot, delay),
              inc.marks, reward, TRUE)
  ELSE Row(FALSE, Null, Null, Null,
           IF mode = "dense" \/ reward = Null THEN NoMarks
           ELSE [c \in Components |-> IF reward[c] THEN TRUE ELSE Null], reward, TRUE)

\* Mutant: only the duties are checked.
ValidDuties(validators, duties, rewarded) == validators \subseteq duties

\* validate_epoch_response: a duty and a reward for every validator.
ValidResponse(validators, duties, rewarded) == validators \subseteq (duties \cap rewarded)

\* The archive takes the validators whose epoch is not complete.  The dense
\* mode has every inclusion before it writes the first row.
BeginScan(duties, rewarded) ==
  LET missing == {v \in Tracked : ~Done(v)}
  IN /\ scan = NoScan
     /\ missing # {}
     /\ ValidResponse(missing, duties, rewarded)
     /\ \E found \in IF mode = "dense" THEN decoded.dense[missing] ELSE {<< >>} :
          scan' = [NoScan EXCEPT !.stage = "attestations", !.validators = missing,
                                 !.todo = missing \cap duties, !.rewarded = rewarded,
                                 !.found = found]
     /\ UNCHANGED <<chain, decoded, mode, live, rows, proposals, syncs, completed, covered, staged>>

\* One upsert of the attestation stage; duties come in the node's order.  The
\* sparse mode looks for the inclusion of one duty at a time, and refuses a
\* positive reward without one.
WriteDuty(v) ==
  LET reward == IF v \in scan.rewarded THEN RewardOf(v) ELSE Null
  IN /\ scan.stage = "attestations"
     /\ v \in scan.todo
     /\ \E found \in IF mode = "dense" THEN {scan.found} ELSE decoded.sparse[v] :
          /\ (mode = "sparse" /\ v \notin DOMAIN found /\ reward # Null) =>
               \A c \in Components : ~reward[c]
          /\ rows' = [rows EXCEPT ![v] = Upsert(ScannedRow(v, found, reward), rows[v], Done(v))]
     /\ scan' = [scan EXCEPT !.todo = @ \ {v}]
     /\ UNCHANGED <<chain, decoded, mode, live, proposals, syncs, completed, covered, staged>>

BeginProposals ==
  /\ scan.stage = "attestations" /\ scan.todo = {}
  /\ scan' = [scan EXCEPT !.stage = "proposals", !.rewarded = {}, !.found = << >>,
                          !.todo = {s \in ProposerSlots : chain.proposer[s] \in scan.validators}]
  /\ UNCHANGED <<chain, decoded, mode, live, rows, proposals, syncs, completed, covered, staged>>

\* process_epoch_proposals, one slot after the other.
WriteProposal ==
  LET slot == Min(scan.todo)
  IN /\ scan.stage = "proposals" /\ scan.todo # {}
     /\ proposals' = [proposals EXCEPT ![slot] =
          UpsertOutcome(ProposalOf(slot, slot, TRUE), proposals[slot], Done(chain.proposer[slot]))]
     /\ scan' = [scan EXCEPT !.todo = @ \ {slot}]
     /\ UNCHANGED <<chain, decoded, mode, live, rows, syncs, completed, covered, staged>>

\* process_epoch_sync: probe_sync_participant_reward asks for each block in
\* turn; `served` are those whose parent state the node still has.
BeginSync(served) ==
  LET members == SyncMembers \cap scan.validators
      telling == {s \in served \cap DOMAIN chain.syncBits :
                    \E v \in members : NetPositions(v, s) # 0}
  IN /\ scan.stage = "proposals" /\ scan.todo = {}
     /\ scan' = [scan EXCEPT !.stage = "sync",
                             !.duties = members \X EpochSlots,
                             !.magnitude = IF telling = {} THEN Null ELSE Magnitude]
     /\ UNCHANGED <<chain, decoded, mode, live, rows, proposals, syncs, completed, covered, staged>>

\* One upsert for each member, slot after slot.
WriteSync(k) ==
  /\ scan.stage = "sync"
  /\ k \in scan.duties /\ \A d \in scan.duties : k[2] <= d[2]
  /\ syncs' = [syncs EXCEPT ![k] =
                 UpsertOutcome(SyncOf(k[1], k[2], scan.magnitude, TRUE), syncs[k], Done(k[1]))]
  /\ scan' = [scan EXCEPT !.duties = @ \ {k}]
  /\ UNCHANGED <<chain, decoded, mode, live, rows, proposals, completed, covered, staged>>

\* Mutant: an epoch whose sync rewards are unknown is complete.
NeverUnavailable == FALSE

\* Without a magnitude the participation is saved and the scan fails, unless
\* the epoch has no block at all.
RewardsUnavailable ==
  /\ scan.magnitude = Null
  /\ SyncMembers \cap scan.validators # {}
  /\ DOMAIN chain.syncBits # {}

SyncUnavailable ==
  /\ scan.stage = "sync" /\ scan.duties = {}
  /\ RewardsUnavailable
  /\ scan' = NoScan
  /\ UNCHANGED <<chain, decoded, mode, live, rows, proposals, syncs, completed, covered, staged>>

\* mark_complete.
MarkComplete ==
  /\ scan.stage = "sync" /\ scan.duties = {}
  /\ ~RewardsUnavailable
  /\ completed' = [v \in Tracked |->
                     IF v \in scan.validators /\ ~Done(v) THEN "archive" ELSE completed[v]]
  /\ rows' = [v \in Tracked |->
                IF v \in scan.validators /\ rows[v] # Null
                THEN [rows[v] EXCEPT !.known = TRUE] ELSE rows[v]]
  /\ scan' = NoScan
  /\ UNCHANGED <<chain, decoded, mode, live, proposals, syncs, covered, staged>>

\* A request or a statement fails, or the process stops: what is written
\* stays.
ScanFails ==
  /\ scan # NoScan
  /\ scan' = NoScan
  /\ UNCHANGED <<chain, decoded, mode, live, rows, proposals, syncs, completed, covered, staged>>

(***************************************************************************)
(* The live worker, on the same rows.                                      *)
(***************************************************************************)

\* seed_live_attestation_duties: a response without an assignment of each
\* validator is refused (validate_reward_indices); the upserts may stop after
\* those of `written`.
SeedDuties(duties, written) ==
  /\ live
  /\ duties = Tracked /\ written \subseteq duties
  /\ rows' = [v \in Tracked |->
       IF v \in written
       THEN Upsert(Row(FALSE, Null, Null, Null, NoMarks, Null, FALSE), rows[v], Done(v))
       ELSE rows[v]]
  /\ UNCHANGED <<chain, decoded, mode, live, proposals, syncs, completed, covered, staged, scan>>

\* live_vote_context, from the roots of a connected walk.
LiveContext(slot, roots) ==
  LET last == Lesser(slot, EpochStartSlot(Epoch + 1)) - 1
  IN [blockRoots  |-> [s \in EpochStartSlot(Epoch)..last |-> Max({r \in roots : r <= s})],
      targetRoot  |-> Max({r \in roots : r <= EpochStartSlot(Epoch)}),
      targetEpoch |-> Epoch,
      source      |-> NoSource]

\* scan_live_attestation_epoch of the block in `slot`, the ancestry of which is
\* resolved down to the block `first`; one without votes of the epoch asks for
\* nothing.
LiveResult(c, slot, roots) ==
  IF c.body[slot] = << >> THEN {<< >>}
  ELSE IF /\ \E r \in roots : r <= EpochStartSlot(Epoch)
          /\ BlockDecodes(c.body[slot], slot, Committees, Tracked, LiveContext(slot, roots))
  THEN {ExtractInclusions(c.body[slot], slot, Committees, Tracked, LiveContext(slot, roots))}
  ELSE {}

\* The results of all the scans of a chain.  They are functions of the chain:
\* a variable holds them only so that each is worked out once.
Decoded(c) ==
  [dense  |-> [validators \in SUBSET Tracked |-> DenseResult(c, validators)],
   sparse |-> [v \in Tracked |-> SparseResult(c, v)],
   live   |-> [slot \in DOMAIN c.body |-> [first \in c.filled \cap (0..slot) |->
                 LiveResult(c, slot, {b \in c.filled : first <= b /\ b <= slot})]]]

LiveEffective(v, slot, roots) == Cardinality({r \in roots : DutySlot(v) < r /\ r <= slot})

LiveRow(v, inc, roots) ==
  Row(TRUE, inc.slot, inc.delay, LiveEffective(v, inc.slot, roots), inc.marks, Null, FALSE)

\* process_slot: the proposal, the sync duties, the attestations.  It fails after
\* any of them, or after the attestation rows of `written`, and leaves the slot
\* uncovered then.
ProcessSlot(slot, first, last, written) ==
  LET roots == {b \in chain.filled : first <= b /\ b <= slot}
      results == IF slot \in chain.filled THEN decoded.live[slot][first] ELSE {<< >>}
      found == IF results = {} THEN << >> ELSE CHOOSE f \in results : TRUE
  IN /\ live
     /\ slot \notin covered
     /\ first <= slot
     /\ written \subseteq (IF last = "votes" THEN DOMAIN found ELSE {})
     /\ proposals' = IF slot \in ProposerSlots
                     THEN [proposals EXCEPT ![slot] =
                             UpsertOutcome(ProposalOf(slot, Null, FALSE), proposals[slot],
                                           Done(chain.proposer[slot]))]
                     ELSE proposals
     /\ syncs' = [k \in DOMAIN syncs |->
                    IF k[2] = slot /\ last # "proposal"
                    THEN UpsertOutcome(SyncOf(k[1], slot, Null, FALSE), syncs[k], Done(k[1]))
                    ELSE syncs[k]]
     /\ rows' = [v \in Tracked |->
                   IF v \in written THEN Upsert(LiveRow(v, found[v], roots), rows[v], Done(v))
                   ELSE rows[v]]
     /\ covered' = IF last = "votes" /\ results # {} /\ written = DOMAIN found
                   THEN covered \cup {slot} ELSE covered
     /\ UNCHANGED <<chain, decoded, mode, live, completed, staged, scan>>

\* A reward response is staged, then joined to the rows that are not final,
\* unless the process stops in between: update_attestation_rewards_batch,
\* persist_live_proposal_rewards and persist_live_sync_rewards.
AttestationJob == <<"attestation", EpochStartSlot(Epoch)>>

JoinAttestationRewards(joined) ==
  /\ live /\ AttestationJob \notin staged
  /\ staged' = staged \cup {AttestationJob}
  /\ rows' = [v \in Tracked |->
                IF joined /\ rows[v] # Null /\ ~rows[v].final
                THEN JoinReward(rows[v], RewardOf(v)) ELSE rows[v]]
  /\ UNCHANGED <<chain, decoded, mode, live, proposals, syncs, completed, covered, scan>>

JoinProposalReward(slot, joined) ==
  /\ live /\ slot \in chain.filled \cap ProposerSlots /\ proposals[slot] # Null
  /\ <<"proposal", slot>> \notin staged
  /\ staged' = staged \cup {<<"proposal", slot>>}
  /\ proposals' = IF joined
                  THEN [proposals EXCEPT ![slot] =
                          UpsertOutcome(ProposalOf(slot, slot, FALSE), proposals[slot],
                                        Done(chain.proposer[slot]))]
                  ELSE proposals
  /\ UNCHANGED <<chain, decoded, mode, live, rows, syncs, completed, covered, scan>>

\* The rewards endpoint answers with the total of a member's positions.
WithSyncReward(k) ==
  [syncs[k] EXCEPT !.reward = SyncRewardOf(k[1], k[2])]

JoinSyncRewards(slot, joined) ==
  /\ live /\ slot \in chain.filled \cap EpochSlots
  /\ \E v \in SyncMembers : syncs[<<v, slot>>] # Null
  /\ <<"sync", slot>> \notin staged
  /\ staged' = staged \cup {<<"sync", slot>>}
  /\ syncs' = [k \in DOMAIN syncs |->
                 IF joined /\ k[2] = slot /\ syncs[k] # Null /\ ~syncs[k].final
                 THEN WithSyncReward(k) ELSE syncs[k]]
  /\ UNCHANGED <<chain, decoded, mode, live, rows, proposals, completed, covered, scan>>

\* finalize_collected_evidence decodes again the blocks of rows whose details
\* an earlier version left NULL.
RepairDetails(slot, first) ==
  LET roots == {b \in chain.filled : first <= b /\ b <= slot}
      repaired(v, found) ==
        Repaired(Upsert(LiveRow(v, found[v], roots), rows[v], Done(v)),
                 found[v], LiveEffective(v, slot, roots), Done(v))
  IN /\ live /\ slot \in DOMAIN chain.body /\ first <= slot
     /\ \E v \in Tracked :
          rows[v] # Null /\ rows[v].included /\ rows[v].slot = slot /\ ~Detailed(rows[v])
     /\ \E found \in decoded.live[slot][first] :
          rows' = [v \in Tracked |-> IF v \in DOMAIN found THEN repaired(v, found) ELSE rows[v]]
     /\ UNCHANGED <<chain, decoded, mode, live, proposals, syncs, completed, covered, staged, scan>>

\* promote_collected, one transaction.  `floor` is the lowest block that is
\* known to be connected to the finalized checkpoint.
Connected(floor) == {b \in chain.filled : floor <= b}

Closed(floor) == floor <= EpochStartSlot(Epoch) /\ Window \subseteq covered

\* Staged responses are replayed on rows of incomplete epochs.
ReplayedRow(v) ==
  IF rows[v] # Null /\ ~Done(v) /\ AttestationJob \in staged
  THEN JoinReward(rows[v], RewardOf(v)) ELSE rows[v]

ReplayedProposal(slot, floor) ==
  IF /\ proposals[slot] # Null /\ ~Done(chain.proposer[slot])
     /\ <<"proposal", slot>> \in staged /\ slot \in Connected(floor)
  THEN [proposals[slot] EXCEPT !.reward = slot] ELSE proposals[slot]

ReplayedSync(k, floor) ==
  IF /\ syncs[k] # Null /\ ~Done(k[1])
     /\ <<"sync", k[2]>> \in staged /\ k[2] \in Connected(floor)
  THEN WithSyncReward(k) ELSE syncs[k]

\* An inclusion in a confirmed block is known; so is a miss once the whole
\* window is covered.
Proven(row, floor) ==
  IF row.included THEN row.slot # Null /\ row.slot \in Connected(floor) ELSE Closed(floor)

FrozenRow(v, floor) ==
  IF ReplayedRow(v) # Null /\ Proven(ReplayedRow(v), floor)
  THEN [ReplayedRow(v) EXCEPT !.known = TRUE, !.final = TRUE] ELSE ReplayedRow(v)

Settled(slot, floor) ==
  /\ slot \in covered /\ floor <= slot
  /\ slot \in chain.filled => slot \in Connected(floor)

\* The ready query.
Paid(v, floor) ==
  /\ \A s \in ProposerSlots \cap chain.filled :
       (chain.proposer[s] = v /\ proposals[s] # Null) =>
         ReplayedProposal(s, floor).reward # Null /\ <<"proposal", s>> \in staged
  /\ \A k \in DOMAIN syncs :
       (k[1] = v /\ syncs[k] # Null /\ ~syncs[k].missed) =>
         ReplayedSync(k, floor).reward # Null /\ <<"sync", k[2]>> \in staged

\* That no other job of the epoch is pending or of another branch is left out
\* here, so that more is ready than in the code; RewardJobs has it.
Ready(floor) ==
  {v \in Tracked :
     /\ ~Done(v) /\ Closed(floor) /\ AttestationJob \in staged
     /\ FrozenRow(v, floor) # Null /\ FrozenRow(v, floor).known
     /\ Detailed(FrozenRow(v, floor)) /\ FrozenRow(v, floor).reward # Null
     /\ Paid(v, floor)}

Promote(floor) ==
  LET ready == Ready(floor)
  IN /\ live
     /\ rows' = [v \in Tracked |->
          IF v \in ready THEN [FrozenRow(v, floor) EXCEPT !.final = TRUE]
          ELSE FrozenRow(v, floor)]
     /\ proposals' = [s \in DOMAIN proposals |->
          IF proposals[s] # Null /\ (Settled(s, floor) \/ chain.proposer[s] \in ready)
          THEN [ReplayedProposal(s, floor) EXCEPT !.final = TRUE]
          ELSE ReplayedProposal(s, floor)]
     /\ syncs' = [k \in DOMAIN syncs |->
          IF syncs[k] # Null /\ (Settled(k[2], floor) \/ k[1] \in ready)
          THEN [ReplayedSync(k, floor) EXCEPT !.final = TRUE]
          ELSE ReplayedSync(k, floor)]
     /\ completed' = [v \in Tracked |-> IF v \in ready THEN "live" ELSE completed[v]]
     /\ UNCHANGED <<chain, decoded, mode, live, covered, staged, scan>>

\* What an earlier version of the worker left: an inclusion without its
\* derived fields.
LegacyRow(v, slot) ==
  Row(TRUE, slot, slot - DutySlot(v), Null, NoMarks, RewardOf(v), FALSE)

EarlierRows(v) ==
  IF ~live THEN Leftovers
  ELSE IF v \in Legacy THEN {LegacyRow(v, s) : s \in InclusionSlots(v)} ELSE {}

Init ==
  /\ chain \in Chains
  /\ decoded = Decoded(chain)
  /\ mode \in {"dense", "sparse"}
  /\ live \in BOOLEAN
  /\ live => chain \in LiveChains
  /\ completed = [v \in Tracked |-> Null]
  /\ rows \in {r \in [Tracked -> UNION {EarlierRows(v) : v \in Tracked} \cup {Null}] :
                 \A v \in Tracked : r[v] \in EarlierRows(v) \cup {Null}}
  /\ proposals = [s \in ProposerSlots |-> Null]
  /\ syncs = [k \in SyncMembers \X EpochSlots |-> Null]
  /\ covered = {} /\ staged = {}
  /\ scan = NoScan

ArchiveStep ==
  \/ \E duties, rewarded \in SUBSET Tracked : BeginScan(duties, rewarded)
  \/ \E v \in Tracked : WriteDuty(v)
  \/ BeginProposals
  \/ WriteProposal
  \/ \E served \in SUBSET EpochSlots : BeginSync(served)
  \/ \E k \in SyncMembers \X EpochSlots : WriteSync(k)
  \/ MarkComplete
  \/ SyncUnavailable

LiveStep ==
  \/ \E duties, written \in SUBSET Tracked : SeedDuties(duties, written)
  \/ \E slot \in Window, first \in chain.filled, written \in SUBSET Tracked,
        last \in {"proposal", "sync", "votes"} : ProcessSlot(slot, first, last, written)
  \/ \E joined \in BOOLEAN : JoinAttestationRewards(joined)
  \/ \E slot \in EpochSlots, joined \in BOOLEAN :
       JoinProposalReward(slot, joined) \/ JoinSyncRewards(slot, joined)
  \/ \E slot \in Window, first \in chain.filled : RepairDetails(slot, first)
  \/ \E floor \in chain.filled : Promote(floor)

Next == ArchiveStep \/ LiveStep \/ ScanFails

\* A pass of the archive runs to its end or fails, and the next one starts
\* after a finite wait (BackfillRetry).  Fairness is assumed where the archive
\* runs alone; nothing is asked of the live worker.
Spec == Init /\ [][Next]_vars /\ WF_vars(~live /\ ArchiveStep)

(***************************************************************************)
(* Properties.                                                             *)
(***************************************************************************)

\* The archive's scan is at one of its stages, works on validators whose
\* rewards it has, and the rows have the types of their columns.
ScanType ==
  [stage : {"idle", "attestations", "proposals", "sync"},
   validators : SUBSET Tracked, todo : SUBSET (Tracked \cup EpochSlots),
   duties : SUBSET (Tracked \X EpochSlots),
   rewarded : SUBSET Tracked,
   found : {<< >>} \cup UNION {decoded.dense[vs] : vs \in SUBSET Tracked},
   magnitude : {Null, Magnitude}]

ScanTypeOK ==
  /\ scan \in ScanType
  /\ scan.stage = "attestations" =>
       /\ scan.todo \subseteq scan.validators /\ scan.validators \subseteq scan.rewarded
       /\ mode = "dense" => scan.found \in decoded.dense[scan.validators]
  /\ scan.stage = "proposals" => scan.todo \subseteq ProposerSlots
  /\ scan.stage = "sync" =>
       scan.duties \subseteq (SyncMembers \cap scan.validators) \X EpochSlots
  /\ scan.stage = "idle" => scan.validators = {}

RowsTypeOK ==
  /\ rows \in [Tracked -> AttestationRow \cup {Null}]
  /\ proposals \in [ProposerSlots -> ProposalRow \cup {Null}]
  /\ syncs \in [SyncMembers \X EpochSlots -> SyncRow \cup {Null}]
  /\ completed \in [Tracked -> {"archive", "live", Null}]
  /\ covered \subseteq Window

\* What the running scan has written so far is final and whole.
WrittenDuties ==
  IF scan.stage = "attestations" THEN scan.validators \ scan.todo ELSE scan.validators

FinalRow(row) == row # Null /\ row.final /\ row.reward # Null /\ Detailed(row)

DutiesWritten == \A v \in WrittenDuties : FinalRow(rows[v])

ProposalsWritten ==
  scan.stage \in {"proposals", "sync"} =>
    \A s \in ProposerSlots :
      /\ chain.proposer[s] \in scan.validators
      /\ scan.stage = "proposals" => s \notin scan.todo
      => proposals[s] = ProposalOf(s, s, TRUE)

SyncsWritten ==
  scan.stage = "sync" =>
    \A k \in ((SyncMembers \cap scan.validators) \X EpochSlots) \ scan.duties :
      /\ syncs[k] # Null /\ syncs[k].final
      /\ syncs[k].reward = Null => scan.magnitude = Null

\* An epoch is complete only on a final row of known inclusion.
CompletedFinal == \A v \in Tracked : Done(v) => FinalRow(rows[v]) /\ rows[v].known

\* What any writer says of a proposal or a sync duty is so, except that a
\* reward may be missing; a slot the live worker covers has both.
ProposalsReal ==
  \A s \in ProposerSlots : proposals[s] # Null =>
    proposals[s] \in {ProposalOf(s, reward, final) : reward \in {Null, s}, final \in BOOLEAN}

SyncsReal ==
  \A k \in SyncMembers \X EpochSlots : syncs[k] # Null =>
    /\ syncs[k].missed <=> k[2] \notin chain.filled
    /\ syncs[k].reward # SyncRewardOf(k[1], k[2]) => syncs[k].reward = Null /\ ~syncs[k].missed

OutcomesCollected ==
  /\ \A s \in ProposerSlots \cap covered : proposals[s] # Null
  /\ \A k \in SyncMembers \X (EpochSlots \cap covered) : syncs[k] # Null

\* A completed epoch has every proposal and every sync committee duty of the
\* validator, with its reward unless the slot was empty.
CompletedOutcomesTrue ==
  \A v \in Tracked : Done(v) =>
    /\ \A s \in ProposerSlots : chain.proposer[s] = v =>
         /\ proposals[s] # Null
         /\ proposals[s] = [proposed |-> s \in chain.filled, final |-> TRUE,
                            reward |-> IF s \in chain.filled THEN s ELSE Null]
    /\ v \in SyncMembers => \A s \in EpochSlots :
         /\ syncs[<<v, s>>] # Null
         /\ syncs[<<v, s>>].final
         /\ syncs[<<v, s>>].missed <=> s \notin chain.filled
         /\ syncs[<<v, s>>].reward = SyncRewardOf(v, s)

\* The columns of a row, its progress and its outcomes: everything that does
\* not depend on what the attestations of the blocks say.
IInv ==
  /\ ScanTypeOK /\ RowsTypeOK
  /\ DutiesWritten /\ ProposalsWritten /\ SyncsWritten
  /\ CompletedFinal /\ ProposalsReal /\ SyncsReal /\ OutcomesCollected
  /\ CompletedOutcomesTrue

\* An aggregate decodes to the votes it was made of: the bits of its
\* committees follow each other, whichever committees it holds.
VotesDecoded ==
  \A s \in DOMAIN chain.body : \A k \in DOMAIN chain.body[s] :
    /\ CommitteesResolve(chain.body[s][k], Committees)
    /\ SeenValidators(chain.body[s][k], Committees, Tracked)
         = Tracked \cap chain.votes[s][k].voters

\* A row says what the chain says: included exactly if a vote of the validator
\* is in the window, with the vote of the block it names, the distance to it
\* with and without the empty slots, and the reward.
InclusionTrue(v, row) ==
  /\ row.slot \in InclusionSlots(v)
  /\ row.delay = row.slot - DutySlot(v)
  /\ row.effective = Cardinality({s \in chain.filled : DutySlot(v) < s /\ s <= row.slot})
  /\ row.marks = RightVote(VoteIn(v, row.slot))

AttestationTrue(v, row) ==
  /\ IF row.included THEN InclusionTrue(v, row) ELSE InclusionSlots(v) = {}
  /\ row.reward = RewardOf(v)

Earliest(v, row) == row.included => row.slot = Min(InclusionSlots(v))

\* A completed attestation says what the chain says, whichever of the writers
\* wrote it and in whatever order.  The archive also names the earliest
\* inclusion.
CompletedAttestationsTrue ==
  \A v \in Tracked : Done(v) =>
    /\ AttestationTrue(v, rows[v])
    /\ completed[v] = "archive" => Earliest(v, rows[v])

\* Before that, a row of the live worker never shows an inclusion that is not
\* on the chain.
IncludedRowsReal ==
  \A v \in Tracked : live /\ rows[v] # Null /\ rows[v].included =>
    rows[v].slot \in InclusionSlots(v)

\* Nor a reward that is not paid, nor details of another inclusion; an inclusion
\* in a covered slot is on the row; and a row without one is final only when
\* there is none.
LiveRowReal(v, row) ==
  /\ row.reward \in {Null, RewardOf(v)}
  /\ ~row.included => row.slot = Null /\ (row.final => InclusionSlots(v) = {})
  /\ row.included /\ row.effective # Null => InclusionTrue(v, row)
  /\ row.included => row.delay = row.slot - DutySlot(v)

InclusionsCollected ==
  \A v \in Tracked : live /\ InclusionSlots(v) \cap covered # {} =>
    rows[v] # Null /\ rows[v].included

RowsInv ==
  /\ IncludedRowsReal /\ InclusionsCollected
  /\ \A v \in Tracked : live /\ rows[v] # Null => LiveRowReal(v, rows[v])
  /\ \A v \in WrittenDuties :
       AttestationTrue(v, rows[v]) /\ (Done(v) \/ Earliest(v, rows[v]))
  /\ CompletedAttestationsTrue

\* Once an epoch is complete, its rows no longer change; only a detail that is
\* still NULL may be filled in.
Extends(new, old) ==
  new = [old EXCEPT !.effective = new.effective, !.marks = new.marks]

CompletedRowsKept ==
  \A v \in Tracked : Done(v) =>
    /\ completed'[v] = completed[v]
    /\ [rows'[v] EXCEPT !.effective = Coalesce(rows[v].effective, rows'[v].effective),
                        !.marks = [c \in Components |->
                                     Coalesce(rows[v].marks[c], rows'[v].marks[c])]] = rows'[v]
    /\ Extends(rows'[v], rows[v])
    /\ \A s \in ProposerSlots : chain.proposer[s] = v => proposals'[s] = proposals[s]
    /\ \A k \in DOMAIN syncs : k[1] = v => syncs'[k] = syncs[k]

CompletedRowsFrozen == [][CompletedRowsKept]_vars

\* When requests stop failing, the archive completes the epoch of every
\* validator: no row that a writer left behind, and no answer of the chain,
\* makes a scan fail for ever.  Three kinds of chain are beyond it: in dense
\* mode the boundary slot and the whole epoch before it are empty; in sparse mode
\* no block is found within two epochs at or before the boundary slot or the
\* slot of a duty; the bits of a sync committee member cancel out in every block.
Scannable ==
  /\ mode = "dense" => DenseReady(chain)
  /\ mode = "sparse" => \A v \in Tracked : SparseReady(chain, v)
  /\ \A v \in SyncMembers : DOMAIN chain.syncBits # {} =>
       \E s \in DOMAIN chain.syncBits : NetPositions(v, s) # 0

FailuresEnd == <>[][~ScanFails /\ ~SyncUnavailable]_vars

ScanCompletes == (~live /\ Scannable /\ FailuresEnd) => <>(\A v \in Tracked : Done(v))

=============================================================================
