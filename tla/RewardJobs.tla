----------------------------- MODULE RewardJobs -----------------------------
(***************************************************************************)
(* Rewards of the live worker (reconcile, collect_job and                  *)
(* promote_collected of src/src/live) and the duty rows they are joined    *)
(* to, which the archive's scan_epoch writes at the same time.             *)
(*                                                                         *)
(* A reward depends on the branch.  Every fetch is a job in live_jobs; its *)
(* response is staged there with the root it depends on, then joined to    *)
(* the duty row, and replayed on the finalized branch when an epoch is     *)
(* promoted.  What cannot be collected becomes a gap for the archive.      *)
(*                                                                         *)
(* Abstractions.                                                           *)
(*  - One tracked validator, as in LiveCollector.                          *)
(*  - A duty, its row and its job share one key: <<"attestation", epoch>>, *)
(*    <<"proposal", slot>> or <<"sync", slot>>.  A row of a slot stands    *)
(*    for a block that was there; missed slots need no reward.             *)
(*  - A reward is the block whose state it was computed from: the last one *)
(*    of the epoch after the duty's, or the block of the slot.             *)
(*  - Slots, coverage and votes are LiveCollector's: which blocks a poll   *)
(*    collects, and which duties are proven when an epoch is promoted, are *)
(*    choices here (a covered slot has the rows of its block).             *)
(*  - Attempts and back-off: the jobs that are due are a choice.           *)
(***************************************************************************)
EXTENDS BeaconNode, FiniteSets

CONSTANTS
    Epochs,        \* the epochs in which the validator is active
    ProposalSlots, \* slots the validator is the proposer of
    SyncSlots,     \* slots with a sync committee duty of the validator
    LagSlots,      \* config live.lag_slots
    RetryWindow,   \* config live.retry_window_epochs
    BatchLimit     \* jobs collected per poll (12)

ASSUME ConfigAssumption ==
    /\ Epochs \subseteq Nat
    /\ \A s \in ProposalSlots \cup SyncSlots : s \in Nat /\ SlotToEpoch(s) \in Epochs
    /\ LagSlots \in Nat
    /\ RetryWindow \in Nat
    /\ BatchLimit \in Nat

AttestationKey(e) == <<"attestation", e>>

SlotKeys == ({"proposal"} \X ProposalSlots) \cup ({"sync"} \X SyncSlots)

Keys == ({"attestation"} \X Epochs) \cup SlotKeys

EpochOf(k) == IF k[1] = "attestation" THEN k[2] ELSE SlotToEpoch(k[2])

NoBlock == "no block"

NoKey == <<"none", 0>>

ASSUME NoBlockAssumption == NoBlock \notin Blocks

VARIABLES
    (* database *)
    started,   \* live_tracking_start.started_epoch, NotStarted before there is one
    stored,    \* live_blocks
    jobs,      \* live_jobs
    row,       \* attestation_duties, block_proposals and sync_duties
    completed, \* completed_scans
    gaps,      \* live_gaps
    (* live worker *)
    pc,
    tip,       \* the head this poll read
    chkpt,     \* the finalized epoch of the head's state
    batch,     \* pending_jobs of this poll that are still to be collected
    job,       \* the job being collected
    basis,     \* the root it depends on
    before,    \* the state at the boundary before the request, as its last block
    answer,    \* the reward that was returned
    (* archive worker *)
    stage,     \* the stage of its scan_epoch
    scanned    \* the epoch of that scan

dbVars == <<started, stored, jobs, row, completed, gaps>>

pollVars == <<tip, chkpt, batch, job, basis, before, answer>>

archiveVars == <<stage, scanned>>

vars == <<nodeVars, dbVars, pc, pollVars, archiveVars>>

NotStarted == -1

Roots == Blocks \cup {NoBlock}

NoJob == [status |-> "absent", root |-> NoBlock, reward |-> NoBlock]

NoRow == [status |-> "absent", reward |-> NoBlock]

\* A response is staged together with its dependency.
JobType ==
    [status : {"absent", "pending", "needs_backfill"}, root : Roots, reward : {NoBlock}]
    \cup [status : {"complete"}, root : Blocks, reward : Blocks]

RowType == [status : {"absent", "open", "final", "missed"}, reward : Roots]

TypeOK ==
    /\ NodeTypeOK
    /\ started \in Nat \cup {NotStarted}
    /\ stored \subseteq Blocks
    /\ jobs \in [Keys -> JobType]
    /\ row \in [Keys -> RowType]
    /\ completed \subseteq Epochs
    /\ gaps \subseteq Epochs
    /\ pc \in {"idle", "reconcile", "collected", "expire", "select",
               "jobs", "before", "fetch", "after", "confirm", "stage", "join", "prune"}
    /\ tip \in Blocks
    /\ chkpt \in Nat
    /\ batch \subseteq Keys
    /\ job \in Keys \cup {NoKey}
    /\ basis \in Roots
    /\ before \in Roots
    /\ answer \in Roots
    /\ stage \in {"idle", "attestations", "blocks", "complete"}
    /\ scanned \in Epochs \cup {-1}

---------------------------------------------------------------------------
(* Quantities *)

HeadEpoch == SlotToEpoch(BlockSlot[tip])

MinEpoch == SatSub(HeadEpoch, RetryWindow)

\* latest_reward_epoch: E needs the state at the end of E+1, and the settling lag.
RewardEpochs ==
    {e \in Epochs : LagSlots <= BlockSlot[tip] /\ e + 2 <= SlotToEpoch(BlockSlot[tip] - LagSlots)}

\* The last slot of epoch E+1, whose state holds the rewards of E.
Boundary(e) == EpochStartSlot(e + 2) - 1

\* On the chain of b the reward of k is computed from block x.
Basis(k, b, x) ==
    IF k[1] = "attestation"
    THEN IsAncestorAt(x, b, Boundary(k[2]))
    ELSE x \in Ancestry[b] /\ BlockSlot[x] = k[2]

\* The node has reached the state that the reward of k is computed from.
Reached(k) == k[1] = "attestation" => Boundary(k[2]) <= BlockSlot[head]

\* ORDER BY epoch DESC, slot DESC; the slot of an attestation job is -1.
Later(k, l) ==
    \/ EpochOf(k) > EpochOf(l)
    \/ /\ EpochOf(k) = EpochOf(l)
       /\ l[1] = "attestation" \/ (k[1] # "attestation" /\ k[2] > l[2])
       /\ k[1] # "attestation"

ReplayStart(slot) == EpochStartSlot(SatSub(SlotToEpoch(slot), 1))

---------------------------------------------------------------------------
(* Database operations *)

\* enqueue_jobs, ON CONFLICT DO NOTHING.
Enqueued(table, keys, root) ==
    [k \in Keys |-> IF k \in keys /\ table[k].status = "absent"
                    THEN [status |-> "pending", root |-> root[k], reward |-> NoBlock]
                    ELSE table[k]]

\* The duty rows seeded or upserted by live writes: a row that is there keeps
\* its reward (COALESCE), a final one is not touched.
Seeded(table, keys) ==
    [k \in Keys |-> IF k \in keys /\ table[k].status = "absent"
                    THEN [NoRow EXCEPT !.status = "open"]
                    ELSE table[k]]

\* Mutant: completed epochs lose their rows to a rollback.
InvalidateFinalRows(from) ==
    /\ stored' = {b \in stored : BlockSlot[b] < from}
    /\ row' = [k \in Keys |-> IF EpochOf(k) >= SlotToEpoch(from) THEN NoRow ELSE row[k]]
    /\ jobs' = [k \in Keys |-> IF EpochOf(k) >= SlotToEpoch(from) /\ EpochOf(k) \notin completed
                               THEN NoJob ELSE jobs[k]]
    /\ UNCHANGED <<started, completed, gaps>>

\* invalidate_from: one transaction.
InvalidateFrom(from) ==
    /\ stored' = {b \in stored : BlockSlot[b] < from}
    /\ row' = [k \in Keys |-> IF EpochOf(k) >= SlotToEpoch(from) /\ row[k].status \in {"absent", "open"}
                              THEN NoRow ELSE row[k]]
    /\ jobs' = [k \in Keys |-> IF EpochOf(k) >= SlotToEpoch(from) /\ EpochOf(k) \notin completed
                               THEN NoJob ELSE jobs[k]]
    /\ UNCHANGED <<started, completed, gaps>>

\* update_attestation_rewards_batch and persist_live_sync_rewards update a row that
\* is not final; upsert_block_proposal also inserts one.
Joined(k, reward) ==
    IF row[k].status = "open" \/ (k[1] = "proposal" /\ row[k].status = "absent")
    THEN [row EXCEPT ![k] = [status |-> "open", reward |-> reward]]
    ELSE row

\* The parent walk from a root over stored blocks, as long as they are connected.
ConfirmedAncestry(root) ==
    {b \in Ancestry[root] :
        \A x \in Ancestry[root] : BlockSlot[b] <= BlockSlot[x] => x \in stored}

\* Mutant: a staged response is replayed whatever branch it came from.
ReplayAnyBranch(roots, k) ==
    /\ jobs[k].status = "complete"
    /\ row[k].status # "absent"
    /\ EpochOf(k) \notin completed

\* The staged responses that promote_collected joins to their rows.
Replayed(roots, k) ==
    /\ jobs[k].status = "complete"
    /\ jobs[k].root \in roots
    /\ row[k].status # "absent"
    /\ EpochOf(k) \notin completed
    /\ EpochOf(k) <= chkpt
    /\ k[1] = "attestation" => k[2] \in FinalizedScanTargets(chkpt)

AfterReplay(roots) ==
    [k \in Keys |-> IF Replayed(roots, k)
                    THEN [row[k] EXCEPT !.reward = jobs[k].reward]
                    ELSE row[k]]

Staged(k, roots) == jobs[k].status = "complete" /\ jobs[k].root \in roots

\* promote_collected's condition on rewards: the row and every present row of a
\* slot has its reward, and every job of the epoch is staged on the branch.
Ready(table, roots, e) ==
    /\ table[AttestationKey(e)].status # "absent"
    /\ Staged(AttestationKey(e), roots)
    /\ \A k \in Keys : EpochOf(k) = e =>
          /\ jobs[k].status # "absent" => Staged(k, roots)
          /\ table[k].status \in {"open", "final"} => table[k].reward # NoBlock /\ Staged(k, roots)

---------------------------------------------------------------------------
(* The live worker *)

\* Between polls the poll's variables are dead; they are parked at fixed values.
ParkJob ==
    /\ job' = NoKey
    /\ basis' = NoBlock
    /\ before' = NoBlock
    /\ answer' = NoBlock

EndPoll ==
    /\ pc' = "idle"
    /\ tip' = finRoot
    /\ chkpt' = 0
    /\ batch' = {}
    /\ ParkJob

\* start_tracking: what lies before the start of tracking is dropped.
Poll ==
    LET epoch == SlotToEpoch(BlockSlot[head])
        first == IF started = NotStarted THEN epoch ELSE Lesser(started, epoch)
    IN
    /\ pc = "idle"
    /\ tip' = head
    /\ chkpt' = finEpoch
    /\ started' = first
    /\ jobs' = [k \in Keys |-> IF EpochOf(k) < first /\ EpochOf(k) \notin completed
                               THEN NoJob ELSE jobs[k]]
    /\ gaps' = {e \in gaps : first <= e}
    /\ pc' = "reconcile"
    /\ UNCHANGED <<nodeVars, stored, row, completed, batch, job, basis, before, answer, archiveVars>>

\* A stored block is not on the polled chain: replay from the epoch before it.
Reconcile(b) ==
    /\ pc = "reconcile"
    /\ b \in stored \ Ancestry[tip]
    /\ \A x \in stored \ Ancestry[tip] : BlockSlot[b] <= BlockSlot[x]
    /\ InvalidateFrom(ReplayStart(BlockSlot[b]))
    /\ EndPoll
    /\ UNCHANGED <<nodeVars, archiveVars>>

\* The blocks of the window that a poll may record.
Collectable ==
    {b \in Ancestry[tip] : /\ SlotToEpoch(BlockSlot[b]) >= MinEpoch
                           /\ BlockSlot[b] <= SatSub(BlockSlot[tip], LagSlots)}

\* eligible_for_live_epoch
Tracked(e) == started # NotStarted /\ started <= e

\* process_head_scan, as far as rewards are concerned: some blocks of the window are
\* recorded, some of those processed up to their rows and jobs, and the attestation
\* rows of some epochs seeded.
Collect(recorded, processed, epochs) ==
    LET slotKeys == {k \in SlotKeys : /\ Tracked(EpochOf(k))
                                      /\ \E b \in processed : BlockSlot[b] = k[2]}
        rootOf == [k \in slotKeys |-> CHOOSE b \in processed : BlockSlot[b] = k[2]]
    IN
    /\ stored' = stored \cup recorded
    /\ row' = Seeded(row, slotKeys \cup {AttestationKey(e) : e \in epochs})
    /\ jobs' = Enqueued(jobs, slotKeys, rootOf)

CollectSome ==
    /\ pc = "reconcile"
    /\ stored \subseteq Ancestry[tip]
    /\ \E recorded \in SUBSET Collectable,
          epochs \in SUBSET {e \in Epochs : Tracked(e) /\ MinEpoch <= e /\ e <= HeadEpoch} :
          \E processed \in SUBSET recorded : Collect(recorded, processed, epochs)
    /\ pc' = "collected"
    /\ UNCHANGED <<nodeVars, started, completed, gaps, pollVars, archiveVars>>

\* The head left the polled branch while it was collected: everything from the
\* start of the parent walk is replayed.
BranchSwitched(first) ==
    /\ pc = "collected"
    /\ tip \notin Ancestry[head]
    /\ first \in stored \cup {tip}
    /\ \A b \in stored \cup {tip} : BlockSlot[first] <= BlockSlot[b]
    /\ InvalidateFrom(ReplayStart(EpochStartSlot(SatSub(SlotToEpoch(BlockSlot[first]), 1))))
    /\ EndPoll
    /\ UNCHANGED <<nodeVars, archiveVars>>

\* One attestation job for each epoch of the window whose rewards are due.
EnqueueRewards ==
    LET due == {AttestationKey(e) : e \in {f \in RewardEpochs : MinEpoch <= f /\ Tracked(f)}}
    IN
    /\ pc = "collected"
    /\ Canonical(tip)
    /\ jobs' = Enqueued(jobs, due, [k \in due |-> NoBlock])
    /\ pc' = "expire"
    /\ UNCHANGED <<nodeVars, started, stored, row, completed, gaps, pollVars, archiveVars>>

\* Mutant: expired jobs are retired without a trace.
ExpireSilently ==
    /\ pc = "expire"
    /\ jobs' = [k \in Keys |-> IF jobs[k].status = "pending" /\ EpochOf(k) < MinEpoch
                               THEN [jobs[k] EXCEPT !.status = "needs_backfill"] ELSE jobs[k]]
    /\ pc' = "select"
    /\ UNCHANGED <<nodeVars, started, stored, row, completed, gaps, pollVars, archiveVars>>

\* expire_jobs: one transaction records the gap and retires the job.
ExpireJobs ==
    LET expired == {k \in Keys : jobs[k].status = "pending" /\ EpochOf(k) < MinEpoch} IN
    /\ pc = "expire"
    /\ gaps' = gaps \cup {EpochOf(k) : k \in expired}
    /\ jobs' = [k \in Keys |-> IF k \in expired
                               THEN [jobs[k] EXCEPT !.status = "needs_backfill"] ELSE jobs[k]]
    /\ pc' = "select"
    /\ UNCHANGED <<nodeVars, started, stored, row, completed, pollVars, archiveVars>>

\* pending_jobs: of the pending ones whose back-off has ended, the latest.
SelectJobs ==
    /\ pc = "select"
    /\ \E due \in SUBSET {k \in Keys : jobs[k].status = "pending" /\ EpochOf(k) >= MinEpoch} :
          batch' = {k \in due : Cardinality({l \in due : Later(l, k)}) < BatchLimit}
    /\ pc' = "jobs"
    /\ UNCHANGED <<nodeVars, dbVars, tip, chkpt, job, basis, before, answer, archiveVars>>

IsNextJob(k) == k \in batch /\ \A l \in batch : ~Later(l, k)

\* The root that a job depends on, on the chain this poll resolved.
DependsOn(k, b) ==
    IF k[1] = "attestation" THEN Basis(k, tip, b) ELSE b = jobs[k].root

\* canonical_root of that root.
CheckDependency(k, b) ==
    /\ pc = "jobs"
    /\ IsNextJob(k)
    /\ b \in Blocks
    /\ DependsOn(k, b)
    /\ Canonical(b)
    /\ job' = k
    /\ basis' = b
    /\ pc' = IF k[1] = "attestation" THEN "before" ELSE "fetch"
    /\ UNCHANGED <<nodeVars, dbVars, tip, chkpt, batch, before, answer, archiveVars>>

\* get_state_root of the boundary before the request.
ReadBefore(x) ==
    /\ pc = "before"
    /\ Reached(job)
    /\ Basis(job, head, x)
    /\ before' = x
    /\ pc' = "fetch"
    /\ UNCHANGED <<nodeVars, dbVars, tip, chkpt, batch, job, basis, answer, archiveVars>>

\* Mutant: rewards of a block are asked for by its slot.
FetchBySlot(x) ==
    /\ pc = "fetch"
    /\ Reached(job)
    /\ Basis(job, head, x)
    /\ answer' = x
    /\ pc' = IF job[1] = "attestation" THEN "after" ELSE "confirm"
    /\ UNCHANGED <<nodeVars, dbVars, tip, chkpt, batch, job, basis, before, archiveVars>>

\* The reward request.  Attestation rewards are asked for by epoch and come from the
\* node's branch of the moment, rewards of a block are asked for by root.
FetchRewards(x) ==
    /\ pc = "fetch"
    /\ Reached(job)
    /\ IF job[1] = "attestation" THEN Basis(job, head, x) ELSE x = basis
    /\ answer' = x
    /\ pc' = IF job[1] = "attestation" THEN "after" ELSE "confirm"
    /\ UNCHANGED <<nodeVars, dbVars, tip, chkpt, batch, job, basis, before, archiveVars>>

\* get_state_root again: the same state as before the request.
ReadAfter ==
    /\ pc = "after"
    /\ Reached(job)
    /\ Basis(job, head, before)
    /\ pc' = "confirm"
    /\ UNCHANGED <<nodeVars, dbVars, pollVars, archiveVars>>

\* Mutant: the dependency is not looked at again.
ConfirmAnyway ==
    /\ pc = "confirm"
    /\ pc' = "stage"
    /\ UNCHANGED <<nodeVars, dbVars, pollVars, archiveVars>>

\* canonical_root again.
ConfirmDependency ==
    /\ pc = "confirm"
    /\ Canonical(basis)
    /\ pc' = "stage"
    /\ UNCHANGED <<nodeVars, dbVars, pollVars, archiveVars>>

\* Mutant: the response is staged without its dependency.
StageWithoutDependency ==
    /\ pc = "stage"
    /\ jobs' = [jobs EXCEPT ![job].status = "complete", ![job].reward = answer]
    /\ pc' = "join"
    /\ UNCHANGED <<nodeVars, started, stored, row, completed, gaps, pollVars, archiveVars>>

\* complete_job: payload and success in one statement.
StageResponse ==
    /\ pc = "stage"
    /\ jobs' = [jobs EXCEPT ![job] = [status |-> "complete", root |-> basis, reward |-> answer]]
    /\ pc' = "join"
    /\ UNCHANGED <<nodeVars, started, stored, row, completed, gaps, pollVars, archiveVars>>

\* persist_live_*: the join to the duty row.
JoinRewards ==
    /\ pc = "join"
    /\ row' = Joined(job, answer)
    /\ batch' = batch \ {job}
    /\ ParkJob
    /\ pc' = "jobs"
    /\ UNCHANGED <<nodeVars, started, stored, jobs, completed, gaps, tip, chkpt, archiveVars>>

\* collect_job returns an error: fail_job leaves the job pending for a later poll
\* (a staged one stays staged).
JobFails(k) ==
    /\ \/ pc = "jobs" /\ IsNextJob(k)
       \/ pc \in {"before", "fetch", "after", "confirm", "stage", "join"} /\ k = job
    /\ batch' = batch \ {k}
    /\ ParkJob
    /\ pc' = "jobs"
    /\ UNCHANGED <<nodeVars, dbVars, tip, chkpt, archiveVars>>

---------------------------------------------------------------------------
(* Promotion *)

\* An epoch whose inclusion window lies at or above the confirmed floor and below
\* the checkpoint, and a duty with an outcome on the confirmed chain.
Closed(e, floor) == e \in FinalizedScanTargets(chkpt) /\ EpochStartSlot(e) >= floor

Provable(k, confirmed, floor) ==
    IF k[1] = "attestation"
    THEN \/ Closed(k[2], floor)
         \/ \E b \in confirmed : SlotToEpoch(BlockSlot[b]) \in {k[2], k[2] + 1}
    ELSE EpochOf(k) < chkpt /\ \E b \in confirmed : BlockSlot[b] = k[2]

Owed == {e \in FinalizedScanTargets(chkpt) \cap Epochs : Tracked(e)}

\* promote_collected: replay, freeze what is proven, complete what is ready, record
\* the rest as gaps, in one transaction.
Promote(roots, proven, covered) ==
    LET table == AfterReplay(roots)
        ready == {e \in covered : /\ AttestationKey(e) \in proven
                                  /\ Ready(table, roots, e)
                                  /\ e \notin completed}
    IN
    /\ row' = [k \in Keys |-> IF (k \in proven \/ EpochOf(k) \in ready) /\ table[k].status = "open"
                              THEN [table[k] EXCEPT !.status = "final"] ELSE table[k]]
    /\ completed' = completed \cup ready
    /\ gaps' = gaps \cup (Owed \ completed')

\* The rows of a covered epoch are there.
RowsThere(e, confirmed) ==
    \A k \in SlotKeys : EpochOf(k) = e /\ (\E b \in confirmed : BlockSlot[b] = k[2])
        => row[k].status # "absent"

\* finalize_collected_evidence.  Nothing happens while the checkpoint's block is not
\* among the stored ones.
Finalize(root) ==
    LET confirmed == ConfirmedAncestry(root) IN
    /\ pc = "jobs"
    /\ batch = {}
    /\ IsAncestorAt(root, tip, EpochStartSlot(chkpt))
    /\ FinalizedScanTargets(chkpt) # {} => Canonical(root)
    /\ IF FinalizedScanTargets(chkpt) # {} /\ confirmed # {}
       THEN \E first \in confirmed :
              LET floor == BlockSlot[first] IN
              /\ \A b \in confirmed : floor <= BlockSlot[b]
              /\ \E proven \in SUBSET {k \in Keys : Provable(k, confirmed, floor)},
                    covered \in SUBSET {e \in Epochs : Closed(e, floor) /\ RowsThere(e, confirmed)} :
                    Promote(confirmed, proven, covered)
       ELSE UNCHANGED <<row, completed, gaps>>
    /\ pc' = "prune"
    /\ UNCHANGED <<nodeVars, started, stored, jobs, pollVars, archiveVars>>

\* prune_completed_evidence
Prune ==
    LET retain == Lesser(MinEpoch, SatSub(chkpt, 2)) IN
    /\ pc = "prune"
    /\ jobs' = [k \in Keys |-> IF EpochOf(k) < retain /\ EpochOf(k) \in completed
                               THEN NoJob ELSE jobs[k]]
    /\ stored' = {b \in stored : \A x \in stored :
                     BlockSlot[x] < EpochStartSlot(retain) => BlockSlot[x] <= BlockSlot[b]}
    /\ EndPoll
    /\ UNCHANGED <<nodeVars, started, row, completed, gaps, archiveVars>>

\* A request or statement outside collect_job fails.
Abort ==
    /\ pc \notin {"idle", "before", "fetch", "after", "confirm", "stage", "join"}
    /\ EndPoll
    /\ UNCHANGED <<nodeVars, dbVars, archiveVars>>

---------------------------------------------------------------------------
(* The archive worker *)

\* Mutant: a final row is never written again, whether its epoch is complete or not.
ArchiveSparesFinal(k) == row[k].status \in {"absent", "open"}

\* The guard of the upserts for a finalized write.
ArchiveMayWrite(k) == row[k].status \in {"absent", "open"} \/ EpochOf(k) \notin completed

\* The row after a finalized upsert.
ArchiveRow(k) ==
    LET on == {x \in Blocks : Basis(k, finRoot, x)} IN
    IF ~ArchiveMayWrite(k) THEN row[k]
    ELSE IF on = {} THEN [status |-> "missed", reward |-> NoBlock]
    ELSE LET x == CHOOSE y \in on : TRUE
         IN  [status |-> "final", reward |-> x]

\* scan_epoch of a finalized epoch that is not completed.
ArchiveBegins(e) ==
    /\ stage = "idle"
    /\ e \in FinalizedScanTargets(finEpoch)
    /\ e \notin completed
    /\ scanned' = e
    /\ stage' = "attestations"
    /\ UNCHANGED <<nodeVars, dbVars, pc, pollVars>>

ArchiveAttestation ==
    /\ stage = "attestations"
    /\ row' = [row EXCEPT ![AttestationKey(scanned)] = ArchiveRow(AttestationKey(scanned))]
    /\ stage' = "blocks"
    /\ UNCHANGED <<nodeVars, started, stored, jobs, completed, gaps, pc, pollVars, scanned>>

\* Proposals and sync duties, one upsert after the other: some of them before a
\* failure, or all.
ArchiveBlocks ==
    LET due == {k \in SlotKeys : EpochOf(k) = scanned} IN
    /\ stage = "blocks"
    /\ \E written \in SUBSET due :
          /\ row' = [k \in Keys |-> IF k \in written THEN ArchiveRow(k) ELSE row[k]]
          /\ IF written = due
             THEN stage' = "complete" /\ UNCHANGED scanned
             ELSE stage' = "idle" /\ scanned' = -1
    /\ UNCHANGED <<nodeVars, started, stored, jobs, completed, gaps, pc, pollVars>>

\* mark_complete: one transaction.
ArchiveCompletes ==
    /\ stage = "complete"
    /\ completed' = completed \cup {scanned}
    /\ gaps' = gaps \ {scanned}
    /\ stage' = "idle"
    /\ scanned' = -1
    /\ UNCHANGED <<nodeVars, started, stored, jobs, row, pc, pollVars>>

ArchiveFails ==
    /\ stage # "idle"
    /\ stage' = "idle"
    /\ scanned' = -1
    /\ UNCHANGED <<nodeVars, dbVars, pc, pollVars>>

---------------------------------------------------------------------------
\* The process stops; the database stays.
Crash ==
    /\ EndPoll
    /\ stage' = "idle"
    /\ scanned' = -1
    /\ UNCHANGED <<nodeVars, dbVars>>

Init ==
    /\ NodeInit
    /\ started = NotStarted
    /\ stored = {}
    /\ jobs = [k \in Keys |-> NoJob]
    /\ row = [k \in Keys |-> NoRow]
    /\ completed = {}
    /\ gaps = {}
    /\ pc = "idle"
    /\ tip = finRoot
    /\ chkpt = 0
    /\ batch = {}
    /\ job = NoKey
    /\ basis = NoBlock
    /\ before = NoBlock
    /\ answer = NoBlock
    /\ stage = "idle"
    /\ scanned = -1

NodeStep == NodeNext /\ UNCHANGED <<dbVars, pc, pollVars, archiveVars>>

CollectJob ==
    \/ \E k \in Keys, b \in Blocks : CheckDependency(k, b)
    \/ \E x \in Blocks : ReadBefore(x)
    \/ \E x \in Blocks : FetchRewards(x)
    \/ ReadAfter
    \/ ConfirmDependency
    \/ StageResponse
    \/ JoinRewards
    \/ \E k \in Keys : JobFails(k)

Live ==
    \/ Poll
    \/ \E b \in Blocks : Reconcile(b)
    \/ CollectSome
    \/ \E first \in Blocks : BranchSwitched(first)
    \/ EnqueueRewards
    \/ ExpireJobs
    \/ SelectJobs
    \/ CollectJob
    \/ \E root \in Blocks : Finalize(root)
    \/ Prune
    \/ Abort

Archive ==
    \/ \E e \in Epochs : ArchiveBegins(e)
    \/ ArchiveAttestation
    \/ ArchiveBlocks
    \/ ArchiveCompletes
    \/ ArchiveFails

Next == NodeStep \/ Live \/ Archive \/ Crash

Spec == Init /\ [][Next]_vars

---------------------------------------------------------------------------
(* Properties *)

\* A staged attestation response was computed from the state its dependency stands
\* for: the request names only an epoch, so the node answers from whatever branch it
\* is on, and the reads around it have to catch a reorganization (mod.rs:294-304).
StagedFromDependency ==
    \A k \in Keys : jobs[k].status = "complete" => jobs[k].reward = jobs[k].root

\* A completed epoch reports the rewards of the finalized chain, whoever completed it
\* and whatever branches its rows, jobs and responses were collected on.
CompletedRewardsOnChain ==
    \A k \in Keys :
        /\ EpochOf(k) \in completed
        /\ row[k].status # "missed"
        /\ k[1] = "attestation" \/ \E b \in Ancestry[finRoot] : BlockSlot[b] = k[2]
        => Basis(k, finRoot, row[k].reward)

\* The part of it that depends on no branch but the final one, in any tree: proposal and
\* sync rewards are asked for by root, so a completed epoch has, for each duty in a block
\* of the final chain, a frozen row with the reward of that very block.
RewardsTrue(e) ==
    \A k \in SlotKeys, b \in Ancestry[finRoot] :
        EpochOf(k) = e /\ BlockSlot[b] = k[2] => row[k] = [status |-> "final", reward |-> b]

CompletedBlockRewardsOnChain == \A e \in completed : RewardsTrue(e)

\* A reward that the live worker gave up leaves an epoch the archive worker is told
\* about: an expired job blocks live completion for good (finalization.rs:271).
ExpiredAreGaps ==
    \A k \in Keys : jobs[k].status = "needs_backfill" => EpochOf(k) \in gaps \cup completed

\* What a request, and a scan of the archive, carry from step to step.
InFlight ==
    /\ pc \in {"before", "fetch", "after", "confirm", "stage", "join"} => job \in Keys /\ basis \in Blocks
    /\ pc \in {"after", "confirm", "stage", "join"} => answer \in Blocks
    /\ stage # "idle" => scanned \in Epochs

\* The start of tracking only moves back, so it drops no gap and no open job.
OwedTracked ==
    /\ \A e \in gaps : Tracked(e)
    /\ \A k \in Keys : jobs[k].status = "pending" => Tracked(EpochOf(k))

\* The inductive invariant of the proofs.
IInv == TypeOK /\ InFlight /\ OwedTracked /\ ExpiredAreGaps

\* The polled checkpoint is one of the node's: up to its slot the polled chain is final.
CheckpointInv ==
    /\ IsAncestorAt(finRoot, head, EpochStartSlot(finEpoch))
    /\ chkpt <= finEpoch
    /\ \A b \in Blocks : BlockSlot[b] <= EpochStartSlot(chkpt) =>
          (b \in Ancestry[tip] <=> b \in Ancestry[finRoot])

\* A job of a slot, its request and its response are about one block of that slot.
BlockJobs ==
    /\ \A k \in SlotKeys :
          /\ jobs[k].root \in Blocks => BlockSlot[jobs[k].root] = k[2]
          /\ jobs[k].status = "complete" => jobs[k].reward = jobs[k].root
    /\ job \in SlotKeys =>
          /\ pc \in {"fetch", "confirm", "stage", "join"}
          /\ BlockSlot[basis] = job[2]
          /\ pc \in {"confirm", "stage", "join"} => answer = basis

\* What the archive has found missed is not on the final chain, and what it is about to
\* complete is there.
ArchiveInv ==
    /\ \A k \in SlotKeys : row[k].status = "missed" =>
          /\ EpochOf(k) \in FinalizedScanTargets(finEpoch)
          /\ \A b \in Ancestry[finRoot] : BlockSlot[b] # k[2]
    /\ stage # "idle" => scanned \in FinalizedScanTargets(finEpoch)
    /\ stage = "complete" => RewardsTrue(scanned)

\* The inductive invariant about rewards of blocks.
RewardInv ==
    /\ CheckpointInv
    /\ BlockJobs
    /\ ArchiveInv
    /\ completed \subseteq FinalizedScanTargets(finEpoch)
    /\ CompletedBlockRewardsOnChain

\* The last block before the boundary of epoch e, on some branch that has passed it.
BoundaryBlock(e, x) ==
    \E b \in Blocks : Boundary(e) <= BlockSlot[b] /\ IsAncestorAt(x, b, Boundary(e))

\* A boundary is known by its block: on every branch past the boundary that contains the
\* block it stands for the same state, so no branch skips the slots up to the boundary
\* that another one fills.
BoundariesDistinct ==
    \A e \in Epochs, x, c \in Blocks :
        BoundaryBlock(e, x) /\ x \in Ancestry[c] /\ Boundary(e) <= BlockSlot[c]
            => IsAncestorAt(x, c, Boundary(e))

\* A dependency that has left the head's chain does not come back while an answer waits
\* to be confirmed.
NoReturn ==
    pc \in {"after", "confirm"} /\ basis \notin Ancestry[head] => basis \notin Ancestry[head']

Collecting == pc \in {"jobs", "before", "fetch", "after", "confirm", "stage", "join"}

\* The polled head has passed the boundary of the attestation jobs that it collects.
JobsReached ==
    Collecting => \A e \in Epochs : AttestationKey(e) \in batch => Boundary(e) <= BlockSlot[tip]

\* Why that is so when the head's epoch never falls: an attestation job is made once its
\* boundary is past.
JobsDue ==
    /\ peakEpoch = SlotToEpoch(BlockSlot[head])
    /\ pc # "idle" => HeadEpoch <= peakEpoch
    /\ \A e \in Epochs : jobs[AttestationKey(e)].status = "pending" =>
          /\ e + 2 <= peakEpoch
          /\ pc # "idle" => e + 2 <= HeadEpoch
    /\ Collecting => \A e \in Epochs : AttestationKey(e) \in batch => e + 2 <= HeadEpoch

\* The row of an attestation is settled, with the reward of the final chain.
AttestationTrue(e) ==
    LET k == AttestationKey(e) IN
    /\ row[k].status \in {"final", "missed"}
    /\ row[k].status = "final" => Basis(k, finRoot, row[k].reward)

\* A request, and a response that is staged, are about the block before the boundary; an
\* answer for another branch is one whose dependency the head has left.
AttestationJobs ==
    /\ \A e \in Epochs : LET j == jobs[AttestationKey(e)] IN
          j.status = "complete" => j.reward = j.root /\ BoundaryBlock(e, j.root)
    /\ \A e \in Epochs : job = AttestationKey(e) =>
          /\ BoundaryBlock(e, basis)
          /\ pc \in {"after", "confirm"} => answer = basis \/ basis \notin Ancestry[head]
          /\ pc \in {"stage", "join"} => answer = basis

AttestationRows ==
    /\ stage \in {"blocks", "complete"} => AttestationTrue(scanned)
    /\ \A e \in completed : AttestationTrue(e)

\* The inductive invariant about rewards of attestations, while boundaries are distinct
\* and reached, and dependencies do not return.
AttestationInv ==
    /\ EpochStartSlot(finEpoch) <= BlockSlot[head]
    /\ AttestationJobs
    /\ AttestationRows

\* What a reader of the database is promised about epochs.
Ledger == INSTANCE EpochLedger
    WITH complete <- completed,
         missing <- gaps \ completed,
         entries <- {<<k, row[k]>> : k \in
                       {l \in Keys : EpochOf(l) \in completed /\ row[l].status \in {"final", "missed"}}}

LedgerKept == Ledger!Spec
=============================================================================
