--------------------------- MODULE LiveCollector ---------------------------
(***************************************************************************)
(* The live worker (src/src/live): one serialized loop that polls the      *)
(* node's head, reconciles the stored ancestry with the head's parent      *)
(* chain, collects the duties of recent slots newest first, and confirms   *)
(* the collected evidence against the finalized checkpoint.                *)
(*                                                                         *)
(* Abstractions.                                                           *)
(*  - One tracked validator: every statement of the worker handles all     *)
(*    tracked validators at once.                                          *)
(*  - The cursor Option<u64> is kept as `next`: None is 0, Some(x) is x+1. *)
(*  - A row of attestation_duties is `inclusion[epoch]`: no row, a row     *)
(*    without inclusion, or the block whose inclusion it describes.        *)
(*    Inclusion slot, delays and vote flags are functions of that block    *)
(*    (its slot and its ancestry), so the block stands for all of them.    *)
(*  - `slotRow` is the row of a slot in block_proposals and sync_duties:   *)
(*    both tables are written, invalidated and promoted by the same rules  *)
(*    (proposed / not missed_block against missed).                        *)
(*  - promote_collected sets inclusion_known and finalized under the same  *)
(*    conditions: one flag, `attFinal`.                                    *)
(*  - Reward jobs, gaps and the archive worker are not in this module;     *)
(*    whether an epoch's rewards are all in place when it is promoted is   *)
(*    a choice of the Finalize action, except that the job of a proposed   *)
(*    slot counts only under a confirmed root (RewardsConfirmed).          *)
(*  - A database or node error at any request, and a crash, end the poll   *)
(*    between two committed statements (Abort, Restart).                   *)
(***************************************************************************)
EXTENDS BeaconNode, FiniteSets

CONSTANTS
    Votes,        \* [Blocks -> SUBSET Nat]: epochs whose tracked vote a block carries
    LastSlot,     \* no block of the instance has a later slot
    LagSlots,     \* config live.lag_slots
    RetryWindow,  \* config live.retry_window_epochs
    ScanLimit,    \* slots processed per poll (32)
    GapLimit,     \* uncovered slots retried per poll (12)
    DutyOutcomes, \* what a duty fetch may return, see FetchDuties
    SlotOutcomes, \* how far the processing of a slot may get, see ProcessBlock
    Optimistic    \* whether the node may answer execution-optimistic: {FALSE} or BOOLEAN

ASSUME ConfigAssumption ==
    /\ LastSlot \in Nat
    /\ \A b \in Blocks : BlockSlot[b] <= LastSlot
    /\ Votes \in [Blocks -> SUBSET Nat]
    /\ LagSlots \in Nat
    /\ RetryWindow \in Nat
    /\ MaxFallback < RetryWindow
    /\ ScanLimit \in Nat
    /\ GapLimit \in Nat
    /\ DutyOutcomes \subseteq SUBSET {"attester", "slot", "error"}
    /\ SlotOutcomes \subseteq {"nothing", "recorded", "partial", "covered"}
    /\ Optimistic \subseteq BOOLEAN

Slots == 0..LastSlot

Epochs == 0..SlotToEpoch(LastSlot)

NoRow == "no row"

NotIncluded == "not included"

ASSUME DistinctAssumption == {NoRow, NotIncluded} \cap Blocks = {}

InclusionValues == Blocks \cup {NoRow, NotIncluded}

VARIABLES
    (* database *)
    stored,    \* live_blocks: the recorded blocks, at most one per slot
    cover,     \* live_coverage: slots whose duties were all processed
    started,   \* live_tracking_start, LastSlot + 1 while there is no row
    inclusion, \* attestation_duties, by epoch
    attFinal,  \* epochs whose attestation row is inclusion_known and finalized
    slotRow,   \* block_proposals and sync_duties, by slot
    slotFinal, \* slots whose row is finalized
    completed, \* completed_scans
    (* worker *)
    pc,        \* where the poll is
    next,      \* the cursor + 1
    tip,       \* the head this poll read
    chkpt,     \* the finalized epoch of the head's state
    resolved,  \* resolve_chain's result
    walkStart, \* where the parent walk began
    todo,      \* slots still to process in this poll
    duties     \* what FetchDuties got for each epoch of this poll

dbVars == <<stored, cover, started, inclusion, attFinal, slotRow, slotFinal, completed>>

pollVars == <<tip, chkpt, resolved, walkStart, todo, duties>>

vars == <<nodeVars, dbVars, pc, next, pollVars>>

TypeOK ==
    /\ NodeTypeOK
    /\ stored \subseteq Blocks
    /\ cover \subseteq Slots
    /\ started \in Nat
    /\ inclusion \in [Epochs -> InclusionValues]
    /\ attFinal \subseteq Epochs
    /\ slotRow \in [Slots -> {"none", "missed", "proposed"}]
    /\ slotFinal \subseteq Slots
    /\ completed \subseteq Epochs
    /\ pc \in {"idle", "oldBranch", "resolve", "collect", "finalize"}
    /\ next \in Nat
    /\ tip \in Blocks
    /\ chkpt \in Nat
    /\ resolved \subseteq Blocks
    /\ walkStart \in Nat
    /\ todo \subseteq Slots
    /\ duties \in [Epochs -> SUBSET {"fetched", "attester", "slot", "error"}]

---------------------------------------------------------------------------
(* Quantities of a poll *)

HeadSlot == BlockSlot[tip]

Target == SatSub(HeadSlot, LagSlots)

MinEpoch == SatSub(SlotToEpoch(HeadSlot), RetryWindow)

Floor == EpochStartSlot(MinEpoch)

\* collection_start: a missing cursor starts at the head's epoch, an old one
\* at the floor of the retry window.
CollectionStart ==
    IF next = 0 THEN EpochStartSlot(SlotToEpoch(HeadSlot)) ELSE Greater(next, Floor)

\* recent_blocks(floor)
Recent == {b \in stored : BlockSlot[b] >= Floor}

\* The parent walk from the head stops at the first block at or before `from`.
ResolveChain(from) ==
    {b \in Ancestry[tip] :
        \A x \in Ancestry[tip] : BlockSlot[b] < BlockSlot[x] => from < BlockSlot[x]}

IsFirstSlot(slot, set) == slot \in set /\ \A s \in set : slot <= s

\* walk_start: one epoch before the earlier of the start and the stored blocks,
\* because a block of E may carry votes of E-1.
WalkStartFrom(first) == EpochStartSlot(SatSub(SlotToEpoch(first), 1))

\* Mutant: a stored block whose slot the resolved chain skips is not compared.
ChangedWhereFilled(chain) ==
    {b \in Recent : \E x \in chain : BlockSlot[x] = BlockSlot[b] /\ x # b}

\* The stored blocks whose root is not the one the resolved chain has there.
Changed(chain) == {b \in Recent : BlockSlot[b] <= HeadSlot /\ b \notin chain}

Newest(set, limit) == {s \in set : Cardinality({t \in set : t > s}) < limit}

\* Mutant: only slots above the cursor are scanned, gaps stay.
NoMissingCoverage(chain) == {}

\* missing_coverage_slots, from the lowest resolved slot but not below the floor
\* nor before tracking began.
MissingCoverage(chain) ==
    Newest({s \in Slots : /\ s \notin cover
                          /\ s <= Target
                          /\ s >= Floor
                          /\ \E b \in chain : BlockSlot[b] <= s
                          /\ s >= EpochStartSlot(started)},
           GapLimit)

SlotsToScan(start, chain) ==
    Newest({s \in Slots : start <= s /\ s <= Target} \cup MissingCoverage(chain), ScanLimit)

---------------------------------------------------------------------------
(* Database operations *)

\* Mutant: the epoch before the change is not replayed.
ReplayChangedEpoch(slot) == EpochStartSlot(SlotToEpoch(slot))

\* reorg_replay_start
ReplayStart(slot) == EpochStartSlot(SatSub(SlotToEpoch(slot), 1))

\* Mutant: final rows are invalidated too.
InvalidateFinalToo(from) ==
    /\ stored' = {b \in stored : BlockSlot[b] < from}
    /\ cover' = {s \in cover : s < from}
    /\ slotRow' = [s \in Slots |-> IF s >= from THEN "none" ELSE slotRow[s]]
    /\ inclusion' = [e \in Epochs |-> IF e >= SlotToEpoch(from) THEN NoRow ELSE inclusion[e]]
    /\ UNCHANGED <<started, attFinal, slotFinal, completed>>

\* invalidate_from: one transaction.
InvalidateFrom(from) ==
    /\ stored' = {b \in stored : BlockSlot[b] < from}
    /\ cover' = {s \in cover : s < from}
    /\ slotRow' = [s \in Slots |->
                      IF s >= from /\ s \notin slotFinal THEN "none" ELSE slotRow[s]]
    /\ inclusion' = [e \in Epochs |->
                      IF e >= SlotToEpoch(from) /\ e \notin attFinal THEN NoRow ELSE inclusion[e]]
    /\ UNCHANGED <<started, attFinal, slotFinal, completed>>

\* upsert_attestation_duty by a live write of an inclusion: only on a row that
\* is not final, and only an earlier inclusion or the same slot again.
AcceptsInclusion(e, b) ==
    /\ e \notin attFinal
    /\ inclusion[e] \in Blocks => BlockSlot[b] <= BlockSlot[inclusion[e]]

\* scan_live_attestations_in_slot: a block of epoch E may carry votes of E and E-1.
InVoteWindow(e, slot) == SlotToEpoch(slot) \in {e, e + 1}

\* Mutant: every stored block up to the checkpoint counts as confirmed.
ConfirmedBySlot(root) == {b \in stored : BlockSlot[b] <= BlockSlot[root]}

\* The parent walk from a root over stored blocks, as long as they are connected.
ConfirmedAncestry(root) ==
    {b \in Ancestry[root] :
        \A x \in Ancestry[root] : BlockSlot[b] <= BlockSlot[x] => x \in stored}

FullyCovered(e) ==
    \A s \in EpochStartSlot(e)..(EpochStartSlot(e + 2) - 1) : s \in cover

---------------------------------------------------------------------------
(* The worker *)

\* Between polls the poll's variables are dead; they are parked at fixed values.
EndPoll ==
    /\ pc' = "idle"
    /\ resolved' = {}
    /\ todo' = {}
    /\ duties' = [e \in Epochs |-> {}]
    /\ walkStart' = 0
    /\ chkpt' = 0
    /\ tip' = finRoot

\* rollback, after which reconcile returns to resolve again.
Rollback(changed) ==
    /\ InvalidateFrom(ReplayStart(changed))
    /\ next' = ReplayStart(changed)

\* Timer tick or wake-up: read the head (and, with its state, the finalized
\* checkpoint the rest of the poll will use), register the tracking start, and
\* check whether the cursor fell behind the retry window.
Poll ==
    /\ pc = "idle"
    /\ tip' = head
    /\ chkpt' = finEpoch
    /\ started' = Lesser(started, SlotToEpoch(BlockSlot[head]))
    /\ pc' = IF next # 0 /\ next <= EpochStartSlot(SatSub(SlotToEpoch(BlockSlot[head]), RetryWindow))
             THEN "oldBranch" ELSE "resolve"
    /\ UNCHANGED <<nodeVars, stored, cover, inclusion, attFinal, slotRow, slotFinal, completed,
                   next, resolved, walkStart, todo, duties>>

\* After an outage beyond the window the stored tip's header is looked up; an
\* error of that request counts as a changed branch too.
CheckOldBranch(newest, first, requestFails) ==
    /\ pc = "oldBranch"
    /\ stored # {} => {newest, first} \subseteq stored
    /\ \A b \in stored : BlockSlot[first] <= BlockSlot[b] /\ BlockSlot[b] <= BlockSlot[newest]
    /\ IF stored # {} /\ (~Canonical(newest) \/ requestFails)
       THEN InvalidateFrom(ReplayStart(BlockSlot[first]))
       ELSE UNCHANGED dbVars
    /\ next' = 0
    /\ pc' = "resolve"
    /\ UNCHANGED <<nodeVars, pollVars>>

\* resolve_chain and the comparison of the stored roots: the first stored block
\* off the chain is rolled back and the poll ends.
RollbackChanged(first, b) ==
    LET chain == ResolveChain(Lesser(WalkStartFrom(first), Target)) IN
    /\ pc = "resolve"
    /\ IsFirstSlot(first, {CollectionStart} \cup {BlockSlot[x] : x \in Recent})
    /\ b \in Changed(chain)
    /\ \A x \in Changed(chain) : BlockSlot[b] <= BlockSlot[x]
    /\ Rollback(BlockSlot[b])
    /\ EndPoll
    /\ UNCHANGED nodeVars

\* The head's chain is shorter than the stored one.
RollbackBeyondHead(first) ==
    LET chain == ResolveChain(Lesser(WalkStartFrom(first), Target)) IN
    /\ pc = "resolve"
    /\ IsFirstSlot(first, {CollectionStart} \cup {BlockSlot[x] : x \in Recent})
    /\ Changed(chain) = {}
    /\ \E x \in Recent : BlockSlot[x] > HeadSlot
    /\ Rollback(HeadSlot + 1)
    /\ EndPoll
    /\ UNCHANGED nodeVars

\* The stored blocks of the window lie on the resolved chain: plan the scan.
PlanScan(first) ==
    LET walk  == WalkStartFrom(first)
        chain == ResolveChain(Lesser(walk, Target))
        start == CollectionStart
    IN
    /\ pc = "resolve"
    /\ IsFirstSlot(first, {CollectionStart} \cup {BlockSlot[x] : x \in Recent})
    /\ Changed(chain) = {}
    /\ \A x \in Recent : BlockSlot[x] <= HeadSlot
    /\ next' = start
    /\ resolved' = chain
    /\ walkStart' = walk
    /\ todo' = SlotsToScan(start, chain)
    /\ pc' = "collect"
    /\ UNCHANGED <<nodeVars, dbVars, tip, chkpt, duties>>

Unfetched == {e \in Epochs : duties[e] = {} /\ \E s \in todo : SlotToEpoch(s) = e}

\* fetch_epoch_duties, once per epoch before any slot is processed.  An outcome
\* names the assignments that arrived; attester assignments seed the epoch's
\* row.  After an "error" the epoch's slots are left for a later poll.
FetchDuties(e, outcome) ==
    /\ pc = "collect"
    /\ e \in Unfetched
    /\ \A f \in Unfetched : f <= e
    /\ duties' = [duties EXCEPT ![e] = outcome \cup {"fetched"}]
    /\ todo' = IF "error" \in outcome THEN {s \in todo : SlotToEpoch(s) # e} ELSE todo
    /\ inclusion' = IF "attester" \in outcome /\ inclusion[e] = NoRow
                    THEN [inclusion EXCEPT ![e] = NotIncluded] ELSE inclusion
    /\ UNCHANGED <<nodeVars, stored, cover, started, attFinal, slotRow, slotFinal, completed,
                   pc, next, tip, chkpt, resolved, walkStart>>

\* process_slot on the newest slot left.  The statements commit one by one:
\* the block first, then the slot's row, then its votes, and coverage last, only
\* with complete assignments.  `outcome` tells how far they got: "nothing", the
\* block only ("recorded"), the row and some of the votes ("partial"), or all.
ReadyFor(s) ==
    /\ pc = "collect"
    /\ Unfetched = {}
    /\ s \in todo
    /\ \A t \in todo : t <= s

WriteSlotRow(s, value, outcome) ==
    slotRow' = IF /\ outcome \notin {"nothing", "recorded"}
                  /\ "slot" \in duties[SlotToEpoch(s)]
                  /\ s \notin slotFinal
               THEN [slotRow EXCEPT ![s] = value]
               ELSE slotRow

\* Mutant: a slot whose votes were stored in part counts as covered.
CoverPartialSlot(s, outcome) ==
    LET covers == /\ outcome \in {"partial", "covered"}
                  /\ {"attester", "slot"} \subseteq duties[SlotToEpoch(s)]
    IN  /\ cover' = IF covers THEN cover \cup {s} ELSE cover
        /\ next' = IF covers THEN Greater(next, s + 1) ELSE next
        /\ todo' = todo \ {s}

\* Mutant: incomplete assignments do not hold coverage back.
CoverWithoutDuties(s, outcome) ==
    /\ cover' = IF outcome = "covered" THEN cover \cup {s} ELSE cover
    /\ next' = IF outcome = "covered" THEN Greater(next, s + 1) ELSE next
    /\ todo' = todo \ {s}

RecordCoverage(s, outcome) ==
    LET covers == outcome = "covered" /\ {"attester", "slot"} \subseteq duties[SlotToEpoch(s)]
    IN  /\ cover' = IF covers THEN cover \cup {s} ELSE cover
        /\ next' = IF covers THEN Greater(next, s + 1) ELSE next
        /\ todo' = todo \ {s}

\* A slot the resolved chain skips.
ProcessSkippedSlot(s, outcome) ==
    /\ ReadyFor(s)
    /\ \A b \in resolved : BlockSlot[b] # s
    /\ WriteSlotRow(s, "missed", outcome)
    /\ RecordCoverage(s, outcome)
    /\ UNCHANGED <<nodeVars, stored, started, inclusion, attFinal, slotFinal, completed,
                   pc, tip, chkpt, resolved, walkStart, duties>>

\* A slot with block b, of whose votes the ones of the epochs `written` got stored.
ProcessBlock(b, outcome, written) ==
    LET s == BlockSlot[b]
        votes == {e \in Epochs \cap Votes[b] : InVoteWindow(e, s)}
    IN
    /\ ReadyFor(s)
    /\ b \in resolved
    /\ written \subseteq votes
    /\ outcome \in {"nothing", "recorded"} => written = {}
    /\ outcome = "covered" => written = votes
    /\ stored' = IF outcome = "nothing" THEN stored
                 ELSE {x \in stored : BlockSlot[x] # s} \cup {b}
    /\ WriteSlotRow(s, "proposed", outcome)
    /\ inclusion' = [e \in Epochs |->
                        IF e \in written /\ AcceptsInclusion(e, b) THEN b ELSE inclusion[e]]
    /\ RecordCoverage(s, outcome)
    /\ UNCHANGED <<nodeVars, started, attFinal, slotFinal, completed,
                   pc, tip, chkpt, resolved, walkStart, duties>>

\* canonical_root(head.slot, head.block) after the scan: the node answers with its
\* canonical block of that slot.  An answer marked execution-optimistic counts as
\* a switched branch.
BranchSwitched(optimistic) ==
    /\ pc = "collect"
    /\ todo = {}
    /\ \E b \in Ancestry[head] : BlockSlot[b] = HeadSlot /\ (b # tip \/ optimistic)
    /\ Rollback(walkStart)
    /\ EndPoll
    /\ UNCHANGED nodeVars

\* A chain that skips the slot has no header to answer with: the request fails,
\* and what was collected stays until the next poll compares it.
HeadSlotEmptied ==
    /\ pc = "collect"
    /\ todo = {}
    /\ \A b \in Ancestry[head] : BlockSlot[b] # HeadSlot
    /\ EndPoll
    /\ UNCHANGED <<nodeVars, dbVars, next>>

BranchConfirmed ==
    /\ pc = "collect"
    /\ todo = {}
    /\ Canonical(tip)
    /\ pc' = "finalize"
    /\ UNCHANGED <<nodeVars, dbVars, next, pollVars>>

---------------------------------------------------------------------------
(* Finalization *)

\* Mutant: a job of any recorded block counts.
RewardsStaged(e, roots) ==
    \A s \in Slots : SlotToEpoch(s) = e /\ slotRow[s] = "proposed"
        => \E b \in stored : BlockSlot[b] = s

\* A complete job of each proposed slot of the epoch has a confirmed root.  It names
\* the block of its slot.
RewardsConfirmed(e, roots) ==
    \A s \in Slots : SlotToEpoch(s) = e /\ slotRow[s] = "proposed"
        => \E b \in roots : BlockSlot[b] = s

\* promote_collected: one transaction over the confirmed ancestry, whose lowest
\* slot is `floor`.  `rewarded` are the epochs whose rewards are all in place.
Promote(confirmed, floor, rewarded) ==
    LET roots == confirmed
        included == {e \in Epochs : inclusion[e] \in Blocks /\
                        \E b \in stored \cap roots : BlockSlot[b] = BlockSlot[inclusion[e]]}
        closed == {e \in Epochs : /\ e \in FinalizedScanTargets(chkpt)
                                  /\ EpochStartSlot(e) >= floor
                                  /\ FullyCovered(e)}
        proven == {e \in closed : /\ inclusion[e] # NoRow
                                  /\ inclusion[e] \in Blocks => e \in included}
        ready == {e \in closed \cap (attFinal \cup included \cup proven) :
                     e \in rewarded /\ RewardsConfirmed(e, roots) /\ e \notin completed}
        settled == {s \in Slots : /\ SlotToEpoch(s) < chkpt
                                  /\ s >= floor
                                  /\ s \in cover
                                  /\ \/ /\ slotRow[s] = "proposed"
                                        /\ \E b \in stored \cap roots : BlockSlot[b] = s
                                     \/ /\ slotRow[s] = "missed"
                                        /\ \A b \in stored : BlockSlot[b] # s}
    IN
    /\ attFinal' = attFinal \cup included \cup proven
    /\ slotFinal' = slotFinal \cup settled
                      \cup {s \in Slots : SlotToEpoch(s) \in ready /\ slotRow[s] # "none"}
    /\ completed' = completed \cup ready

\* prune_completed_evidence: coverage below the retained epochs goes, and of the
\* blocks below it all but the newest (the anchor of the connected chain).
RetainSlot == EpochStartSlot(Lesser(MinEpoch, SatSub(chkpt, 2)))

Prune ==
    /\ cover' = {s \in cover : s >= RetainSlot}
    /\ stored' = {b \in stored :
                    \A x \in stored : BlockSlot[x] < RetainSlot => BlockSlot[x] <= BlockSlot[b]}

\* finalize_collected_evidence, then pruning.  Nothing is promoted before
\* checkpoint 2 or while the checkpoint's block is not among the stored ones.
Finalize(root, first, rewarded) ==
    LET confirmed == ConfirmedAncestry(root) IN
    /\ pc = "finalize"
    /\ IsAncestorAt(root, tip, EpochStartSlot(chkpt))
    /\ FinalizedScanTargets(chkpt) # {} => Canonical(root)
    /\ IF FinalizedScanTargets(chkpt) # {} /\ confirmed # {}
       THEN /\ first \in confirmed
            /\ \A b \in confirmed : BlockSlot[first] <= BlockSlot[b]
            /\ Promote(confirmed, BlockSlot[first], rewarded)
       ELSE /\ first = root
            /\ UNCHANGED <<attFinal, slotFinal, completed>>
    /\ Prune
    /\ EndPoll
    /\ UNCHANGED <<nodeVars, started, inclusion, slotRow, next>>

---------------------------------------------------------------------------
\* A request or statement fails: reconcile returns the error, the cursor keeps
\* what was processed.
Abort ==
    /\ pc # "idle"
    /\ EndPoll
    /\ UNCHANGED <<nodeVars, dbVars, next>>

\* Process crash and start: the cursor is read back (processed_tip).
Restart ==
    /\ EndPoll
    /\ \/ cover = {} /\ next' = 0
       \/ \E s \in cover : (\A t \in cover : t <= s) /\ next' = s + 1
    /\ UNCHANGED <<nodeVars, dbVars>>

Init ==
    /\ NodeInit
    /\ stored = {}
    /\ cover = {}
    /\ started = LastSlot + 1
    /\ inclusion = [e \in Epochs |-> NoRow]
    /\ attFinal = {}
    /\ slotRow = [s \in Slots |-> "none"]
    /\ slotFinal = {}
    /\ completed = {}
    /\ pc = "idle"
    /\ next = 0
    /\ tip = finRoot
    /\ chkpt = 0
    /\ resolved = {}
    /\ walkStart = 0
    /\ todo = {}
    /\ duties = [e \in Epochs |-> {}]

NodeStep == NodeNext /\ UNCHANGED <<dbVars, pc, next, pollVars>>

Work ==
    \/ Poll
    \/ \E newest, first \in Blocks, fails \in BOOLEAN : CheckOldBranch(newest, first, fails)
    \/ \E first \in 0..(LastSlot + 1), b \in Blocks : RollbackChanged(first, b)
    \/ \E first \in 0..(LastSlot + 1) : RollbackBeyondHead(first)
    \/ \E first \in 0..(LastSlot + 1) : PlanScan(first)
    \/ \E e \in Epochs, o \in DutyOutcomes : FetchDuties(e, o)
    \/ \E s \in Slots, o \in SlotOutcomes : ProcessSkippedSlot(s, o)
    \/ \E b \in Blocks, o \in SlotOutcomes :
          \E written \in SUBSET Votes[b] : ProcessBlock(b, o, written)
    \/ \E optimistic \in Optimistic : BranchSwitched(optimistic)
    \/ HeadSlotEmptied
    \/ BranchConfirmed
    \/ \E root, first \in Blocks, rewarded \in SUBSET FinalizedScanTargets(chkpt) :
          Finalize(root, first, rewarded)

Next == NodeStep \/ Work \/ Abort \/ Restart

Spec == Init /\ [][Next]_vars

\* The worker keeps taking steps; nothing is assumed of the node.
FairSpec == Spec /\ WF_vars(Work)

---------------------------------------------------------------------------
(* Properties *)

\* The finalized chain has a block at a slot.
FinalBlockAt(s) == \E b \in Ancestry[finRoot] : BlockSlot[b] = s

\* A miss is final only if it is real.  No slot that is final as missed has a
\* block on the finalized chain, and no attestation that is final as missed has
\* its vote in a block of the finalized chain in the inclusion window: an
\* unread, orphaned or half-processed slot never turns into a proven miss.
FinalMissesReal ==
    /\ \A s \in slotFinal : slotRow[s] = "missed" => ~FinalBlockAt(s)
    /\ \A e \in attFinal : inclusion[e] = NotIncluded =>
          \A b \in Ancestry[finRoot] : InVoteWindow(e, BlockSlot[b]) => e \notin Votes[b]

\* A slot is final as proposed only if the finalized chain has a block there:
\* the proposal of an orphaned block is never frozen.
FinalProposalsReal ==
    \A s \in slotFinal : slotRow[s] = "proposed" => FinalBlockAt(s)

\* A final inclusion describes a block of the finalized chain, so the delay
\* and vote flags derived from that block's ancestry are final facts.
FinalInclusionOnChain ==
    \A e \in attFinal : inclusion[e] \in Blocks => inclusion[e] \in Ancestry[finRoot]

\* A completed epoch holds the first inclusion of the vote on the finalized
\* chain: full coverage leaves no earlier block unread.
CompletedInclusionFirst ==
    \A e \in completed : inclusion[e] \in Blocks =>
        \A b \in Ancestry[finRoot] : e \in Votes[b] /\ InVoteWindow(e, BlockSlot[b])
            => BlockSlot[inclusion[e]] <= BlockSlot[b]

\* A completed epoch is whole: its attestation row is final and so is a row at
\* each of its slots, although assignments may have arrived in pieces.
CompletedEpochsWhole ==
    \A e \in completed :
        /\ e \in attFinal
        /\ \A s \in EpochStartSlot(e)..(EpochStartSlot(e + 1) - 1) : s \in slotFinal

\* When a poll has reconciled and collected, every covered slot of the window
\* is recorded as the polled chain has it: its block, or a skipped slot.
CoveredSlotsReconciled ==
    pc = "finalize" =>
        \A s \in cover : s >= Floor =>
            {b \in stored : BlockSlot[b] = s} = {b \in Ancestry[tip] : BlockSlot[b] = s}

\* While a poll collects, the stored blocks of the window are on one branch,
\* the one being collected, also after a crash in the middle of another branch.
OneBranchCollected ==
    pc \in {"collect", "finalize"} => Recent \subseteq Ancestry[tip]

\* The slots a poll of the current head is responsible for.
RecentSlots ==
    {s \in Slots : /\ s <= SatSub(BlockSlot[head], LagSlots)
                   /\ s >= EpochStartSlot(SatSub(SlotToEpoch(BlockSlot[head]), RetryWindow))
                   /\ s >= EpochStartSlot(started)}

\* Of these, the ones that the parent walk of the next poll passes: the walk starts
\* an epoch before the cursor or the first recorded block, whichever is lower.  A
\* gap below, in an epoch without any recorded block, is not looked at again.
WalkedSlots ==
    LET floor == EpochStartSlot(SatSub(SlotToEpoch(BlockSlot[head]), RetryWindow))
        start == IF next = 0 THEN EpochStartSlot(SlotToEpoch(BlockSlot[head])) ELSE Greater(next, floor)
    IN  {s \in RecentSlots :
            \E first \in {start} \cup {BlockSlot[b] : b \in {x \in stored : BlockSlot[x] >= floor}} :
                /\ WalkStartFrom(first) <= s
                /\ first <= start
                /\ \A b \in stored : BlockSlot[b] >= floor => first <= BlockSlot[b]}

\* The node moves, the poll fails or the process stops before the scan is through, an
\* answer is marked optimistic, or a slot is left uncovered.  (An error after the scan
\* cannot be told from success.)
Disturbance ==
    \/ NodeStep
    \/ (Abort \/ Restart) /\ pc # "finalize"
    \/ Restart /\ next' # next
    \/ BranchSwitched(TRUE)
    \/ \E s \in todo \ todo' : s \notin cover'

\* Gaps heal: once the head settles and requests stop failing, every recent slot the
\* walk passes ends up covered and stays so, whatever faults, restarts, half-stored
\* slots and reorgs came before.
GapsHeal == (<>[][~Disturbance]_vars) => <>[](WalkedSlots \subseteq cover)

KeepsFinalRows ==
    /\ \A e \in attFinal : e \in attFinal' /\ inclusion'[e] = inclusion[e]
    /\ \A s \in slotFinal : s \in slotFinal' /\ slotRow'[s] = slotRow[s]

\* Finalized rows are frozen: no replay, rollback or pruning changes them.
FinalRowsFrozen == [][KeepsFinalRows]_vars
============================================================================
