# Verification of the dabeacon indexer

TLA+ models, TLC configurations and TLAPS proofs for the indexer under
`src/`: a Rust process that follows an Ethereum beacon node, records the duties
of tracked validators (attestations, proposals, sync committee work) in
Postgres, and serves them to a web interface.

## 1. The system

| part | state it keeps | operations | talks to |
|---|---|---|---|
| chain arithmetic (`chain.rs`) | the node's spec constants | slot/epoch conversion, fork of an epoch, completion target | everything |
| beacon client (`beacon_client/`) | input cache in memory and in `beacon_inputs`, negative entries, block and root caches | headers, blocks, checkpoints, duties, committees, rewards | beacon node, every worker |
| live worker (`live/`) | cursor (in memory), `live_blocks`, `live_coverage`, `live_tracking_start` | poll: reconcile, scan, confirm, finalize, prune | node, duty rows |
| reward jobs (`live/mod.rs`, `db/scanner/live.rs`) | `live_jobs`, `live_gaps` | enqueue, collect, fail, expire, replay, complete, prune | node, duty rows, backfill |
| event channel (`live/mod.rs`) | a watch channel of wake-ups beside the polling timer | receive, coalesce, time out | node (SSE), live worker |
| duty rows (`db/scanner/{attestations,proposals,sync,completion}.rs`) | `attestation_duties`, `block_proposals`, `sync_duties`, `completed_scans` | upserts guarded by `finalized`, reward join, completion | live worker, archive worker |
| epoch scanner (`scanner/`) | none | duties and inclusions of an epoch, slot by slot or by walking forward; bit decoding; reward lookup | node, duty rows |
| archive backfill (`backfill.rs`, `backfill/retry.rs`) | watermark `last_scanned_epoch` per validator, in-memory back-off | pass over finalized epochs, gap repair, retries, extension | scanner, validator table |
| validator table (`validators_update.rs`, `db/scanner/validators.rs`) | `validators` | start-up seeding, periodic refresh, active-set query | node, scanner, live worker |
| start-up (`main.rs`, `config.rs`) | configuration | modes, task wiring | everything |
| web, metrics, UI (`web/`, `metrics.rs`, `src/web`) | none of their own | read queries | database |

Several workers write the same tables without a common lock: the live worker
(every head event and every timer tick), the archive worker (a pass over
finalized epochs, then gap repair), and the validator refresh. They meet in the
`attestation_duties`, `block_proposals`, `sync_duties`, `completed_scans` and
`live_gaps` tables and in the validator table, and each statement or small
transaction commits on its own. The beacon node is a second, uncontrolled
actor: its head changes branch, answers are late, missing or partial, and the
process may stop between any two commits.

What is hard here, and what `PROJECT.json` lists as hazards with their lines:
branch changes in the middle of a poll; newest-first processing, so that later
evidence is stored before earlier evidence; partially stored slots and
partially answered requests; a cursor restored from coverage that has holes;
finality overtaking a poll; two workers completing the same epoch; retries and
expiries racing late answers; cached answers of a branch that is gone; bit
offsets, empty slots and epoch boundaries in the decoding of votes; integer
casts at the far-future epoch.

What each component must guarantee:

- **live worker**: nothing that is not on the finalized chain becomes final; a
  miss becomes final only when it is one; final rows never change; every recent
  slot is read eventually; a completed epoch is whole.
- **reward jobs and gaps**: an epoch is either completed or known as a gap;
  a completed epoch reports the rewards of the finalized chain.
- **archive**: the watermark never passes an epoch a pass failed to store; a
  failure is retried; the repair pass reaches every gap.
- **validator table**: the active set used for an epoch holds the validators
  that are active in it.
- **scanner**: a completed epoch says what the chain says (bit positions,
  delays, votes, rewards), whichever of the three strategies wrote it, and
  completed rows do not change.
- **beacon client**: what it returns was true of the canonical chain during the
  call, and no cached answer outlives its branch.

## 2. Modules

| module | role |
|---|---|
| `Chain` | slot and epoch arithmetic, completion target (`chain.rs`) |
| `BeaconNode` | the external node: block tree, head, finalized checkpoint |
| `LiveCollector` | the live worker, EXTENDS `BeaconNode` |
| `LiveCollectorInv` | the inductive invariants, in named parts, and `VotesSettle` |
| `MCLiveCollector` | block trees and constants for TLC |
| `ChainProofs`, `LiveCollectorProofs`, `LiveSafetyProofs` | lemmas, type correctness, the safety theorems |
| `ValidatorTable` | the `validators` table, its seeding and refresh, beside the node's registry |
| `MCValidatorTable`, `ValidatorTableProofs` | instances; active set and exits for all parameters |
| `Backfill` | the archive worker beside the live worker's promotions |
| `BackfillRetry` | `Backfill` with the clock of its back-off |
| `MCBackfill`, `BackfillProofs` | instances; completion, gaps, watermarks and the refinement of `EpochLedger` for all parameters |
| `EpochLedger` | abstract specification, implemented by `RewardJobs` and `Backfill`: epochs are open, missing or complete |
| `RewardJobs` | reward jobs, staged responses, gaps and duty rows, EXTENDS `BeaconNode` |
| `MCRewardJobs`, `RewardJobsProofs` | instances; the refinement of `EpochLedger`, block and attestation rewards of completed epochs |
| `Bits`, `AttestationDecode` | bit fields; votes of a block as pure operators, the earliest inclusion first |
| `EpochScanner` | the rows of one epoch and all their writers, on `AttestationDecode` |
| `MCEpochScanner`, `EpochScannerProofs` | ten chains with votes, proposals and sync committees; the rows for all chains |
| `InputCache`, `BlockCache` | the caches of the beacon client, EXTEND `BeaconNode` |
| `BeaconClient` | their composition over one node |
| `MCBeaconClient`, `BeaconClientProofs` | an instance; the caches for all trees |

`BeaconNode` is one module used three times; `BeaconClient` composes its two
caches over one node, and `BackfillRetry` adds its clock to `Backfill`. Otherwise
the modules share no variables: each one treats what another component writes
as actions of its own environment. `Backfill` has `promote_collected` as two
actions that may complete any servable epoch, which includes everything
`LiveCollector` completes; `LiveCollector` in turn has no archive worker,
because the epochs the archive completes are finalized and its rows are guarded
by `finalized`. The two workers meet on the rows in `RewardJobs` (whole rows and
rewards, across reorgs) and in `EpochScanner` (columns and statements, on a
chain that is settled). `Backfill` reads activations and exits as constants: what
`ValidatorTable` says about them is the values a row can have, -1 for a pending
validator among them.

### LiveCollector against the code

One poll is a sequence of actions; `pc` names the point where it is. Node steps
and a crash may come between any two of them.

| action | code |
|---|---|
| `Poll` | `reconcile` reads head, checkpoint of the head's state, records the tracking start |
| `CheckOldBranch` | the branch after an outage beyond the retry window |
| `RollbackChanged`, `RollbackBeyondHead` | comparison of stored roots, `rollback` = `invalidate_from` of `reorg.rs` and the cursor |
| `PlanScan` | `scan_recent_slots` chooses the slots: above the cursor and missing coverage, newest first, limited |
| `FetchDuties` | `fetch_epoch_duties` for each epoch of the scan, seeding of attestation rows |
| `ProcessBlock`, `ProcessSkippedSlot` | `process_slot`: block row, slot row, votes, then coverage |
| `BranchSwitched`, `HeadSlotEmptied`, `BranchConfirmed` | `canonical_root` after the scan |
| `Finalize` | `finalize_collected_evidence`, `promote_collected`, pruning |
| `Abort`, `Restart` | an error return; process stop and `processed_tip` at start |

The node's answers within one poll are not a snapshot: the head is re-read
where the code re-reads it (`canonical_root`, the root of the checkpoint), and
it may have moved. Walks by parent root are exact, because a root fixes its
ancestors.

Abstractions (also in the module header):

- One tracked validator. Every statement handles the tracked validators
  together. What this hides is a set of validators whose tracking starts at
  different times, where `processed_tip` is a minimum.
- A row of `attestation_duties` is the block whose inclusion it describes.
  Slot, delays and the three vote flags are functions of that block and its
  ancestry.
- `block_proposals` and `sync_duties` are one row per slot, because the same
  statements write, invalidate and promote both.
- `inclusion_known` and `finalized` are one flag: `promote_collected` sets them
  under the same condition.
- A poll always has the details of an inclusion (live rows carry them), so the
  step that repairs rows without details has nothing to do and is absent.
- A failed statement at slot level is the outcome `"nothing"`, `"recorded"` or
  `"partial"` of the slot's action, a failed request the outcome `"error"` of
  `FetchDuties` or the action `Abort`.
- Rewards, gaps and the archive worker are outside this module (see
  `RewardJobs`). Whether the rewards of an epoch are in place when it is promoted
  is a free choice, except that the job of a proposed slot counts only under a
  confirmed root (`RewardsConfirmed`).
- Heads start in epoch 1 or later.

`MaxFallback < RetryWindow` is an assumption about the node, not about the
code: when a head falls back further than the retry window, stored blocks of
the abandoned part lie outside the window the worker compares. With the default
`retry_window_epochs` of four (`config.rs:379`; it must be at least two) and a chain
that finalizes this does not happen.

### ValidatorTable against the code

| action | code |
|---|---|
| `StartupFetch`, `TickFetch` | `update` for all tracked validators before the workers start; `run_update_loop` for those active at the head's epoch |
| `Upsert` | one `upsert_validator`; the last one ends the update |
| `RefreshFails` | an error in between, logged and left to the next tick |
| `Crash` | the process stops, or start-up fails |
| `EpochPasses`, `ScheduleActivation`, `ScheduleExit` | the node: time, activation queue, exit queue |

`u64` and `i64` are words of `Half` values on each side of zero, so that
`as i64` of the far-future epoch is -1 as in the code. Two assumptions are about
the environment, not the code: exits are announced at least `ExitDelay` epochs
ahead (at least five in the consensus rules), and while the process runs a refresh succeeds at
least every `MaxAge < ExitDelay` epochs.

### Backfill against the code

| action | code |
|---|---|
| `LiveReads`, `LiveCommits` | the transaction of `promote_collected`: what it reads, and its commit |
| `Startup` | `main.rs`: scan state, finality target, `historical_done` |
| `RepairBegins`, `RepairSucceeds`, `RepairFails`, `RepairEnds` | `repair_live_gaps`: the query, one `scan_epoch` after the other |
| `HistoryWaits`, `HistoryBegins` | `HistoricalRetry::ready`; an attempt with the state of start-up |
| `PassBegins` | `compute_start`, `min_start` |
| `SelectEpoch`, `ScanSucceeds`, `ScanFails`, `AdvanceWatermark` | the epoch loop: candidates without completed scans, `scan_epoch` up to `mark_complete`, the watermark in a statement of its own |
| `SweepEnds`, `PassEnds` | watermarks after a non-contiguous sweep; end or extension of the target |
| `Crash` | the process stops; memory and the open transaction are lost |

`scan_epoch` reaches its completing transaction or fails; rows it stored before
a failure have no effect on completion, gaps or watermarks. A scan that
includes a pair of `Unservable` never succeeds (`validate_epoch_response`), any
other may fail. In `Backfill` `HistoryWaits` may happen any number of times, and
`FairSpec` assumes that attempts are made again and again. `BackfillRetry` drops
the assumption: `failures` and `wait` are the fields of `HistoricalRetry`, time
is counted in iterations of the task's loop (`MinutePasses`), an attempt begins
when the wait is over, and `AttemptsGoOn` states the assumption as a property.
`RetriesRefineBackfill` proves that every behaviour with the clock is one of
`Backfill`, so that what is proved of `Backfill` holds for the module the run
checks.

### RewardJobs against the code

| action | code |
|---|---|
| `Poll`, `Reconcile`, `CollectSome`, `BranchSwitched` | `reconcile`, reduced to what rewards depend on: tracking start, rollback, blocks recorded, rows seeded and jobs enqueued, the branch check |
| `EnqueueRewards`, `ExpireJobs`, `SelectJobs` | one attestation job per epoch that is due; `expire_jobs`; `pending_jobs` in its order |
| `CheckDependency`, `ReadBefore`, `FetchRewards`, `ReadAfter`, `ConfirmDependency` | the requests of `collect_job`, one step each |
| `StageResponse`, `JoinRewards`, `JobFails` | `complete_job`, the `persist_live_*` functions, `fail_job` |
| `Finalize` | `promote_collected`: replay of staged responses, freezing, completion, gaps |
| `Prune`, `Abort`, `Crash` | pruning, an error outside a job, a stop anywhere |
| `ArchiveBegins` ... `ArchiveFails` | `scan_epoch` of the archive on the same rows, stage by stage |

A reward is the block whose state it was computed from, so "the rewards of the
finalized chain" is the relation `Basis`. Coverage and votes are a choice here,
restricted to what `LiveCollector` may find.

`EpochLedger` is what a reader of the tables may rely on: complete epochs stay
complete, their entries are neither changed nor withdrawn, and a missing epoch
stays known as missing until it is complete. `RewardJobs` implements it with
`complete <- completed`, `missing <- gaps \ completed` and the final rows of
completed epochs as entries. `Backfill` implements it with one ledger line per
pair of epoch and validator and no entries: it has both workers' completing
transactions, but no rows.

### EpochScanner against the code

One epoch whose window is final; the root of a block is its slot, the voters
and bit fields of its attestations are encoded as the consensus rules say
(`EncodeBitlist`) and decoded as the code does (`DecodeBitlist`). A byte is the
function from its bit positions to `BOOLEAN`; `Signatures` lays the bits of the
committees one after the other. The committee bits must fill their bytes
(`MaxCommitteesPerSlot % BitsPerByte = 0`, 64 and 8 on mainnet):
`resolve_electra_committees` compares the number of bits of the bytes with the
limit, so with any other limit it would refuse every Electra aggregate. The variable
`decoded` holds the decoder's results for the chain so that TLC computes each
once; it is a function of `chain`.

| action | code |
|---|---|
| `BeginScan`, `WriteDuty` | `process_epoch_attestation_duties` (everything before the first write) and `write_duty_rows`, or the sparse scan, duty by duty |
| `BeginProposals`, `WriteProposal` | `process_epoch_proposals` |
| `BeginSync`, `WriteSync`, `SyncUnavailable` | `process_epoch_sync`: the probe for the reward of a position, one upsert for each member and slot, the error after them |
| `MarkComplete`, `ScanFails` | `mark_complete`; an error or stop between any two statements |
| `SeedDuties`, `ProcessSlot` | the live writer: seeding, and one slot in any order, failing after any of its parts |
| `JoinAttestationRewards`, `JoinProposalReward`, `JoinSyncRewards` | staged responses with or without their join |
| `RepairDetails`, `Promote` | `finalize_collected_evidence` and the transaction of `promote_collected`, column by column |

`Upsert`, `UpsertOutcome`, `JoinReward` and `Repaired` are the SQL statements,
with their WHERE clauses. A database may start with rows an earlier run left
(`Leftovers`, `Legacy`).

### InputCache, BlockCache and BeaconClient against the code

| action | code |
|---|---|
| `Request`, `ReadRow` | `cached_input`: memory, then the row of `beacon_inputs` |
| `CompareHeader`, `ReadHead`, `Walk` | `anchor_unchanged`, `input_anchor`: one header per step |
| `Ask`, `Fetch`, `FetchRecent`, `CheckPin` | the negative entry, the request, the fallback to a recent state |
| `Confirm`, `Save`, `Keep` | the dependent root, the INSERT, the entry in memory and the return |
| `CallFails`, `Invalidate`, `Evict`, `PruneInputs`, `DelayExpires` | an error, `invalidate_duty_caches`, the LRU, `prune_inputs_before`, thirty seconds |
| `Resolve`, `FetchBlock`, `FetchByRoot` | `get_block_root` and `get_block`, two requests for a slot |

A response is the block that decides it. The head may move between any two
steps. Fields `seen`, `moved` and `sound` of a call are history, read by no
action: what was true during the call, whether the head moved while it worked
out an anchor, and whether it did so twice. The two caches share nothing but
the node, so a behaviour exercises one of them (`exercised`).

## 3. Runs

### Live worker

Every instance has two slots per epoch, so that "this epoch and the one
before", the vote window and the completion distance of two epochs fit in
eleven slots. `ScanLimit` is 3 and `GapLimit` 2 (1 in `LiveFork`; 32 and 12 in the code), small
enough that a poll after a few missed ones cannot scan everything at once.
`RetryWindow` is 2 (3 in `LiveLateHole`), the head may fall back one epoch.

| run | instance | shows |
|---|---|---|
| `LiveFork` | a fork with blocks of both branches in one slot and votes on one branch only, an orphan left behind below the window, a slot one branch skips; assignments that arrive in pieces or fail, optimistic answers | `RowsCollected`, `CompletedEpochsWhole`, `FinalProposalsReal`, `FinalMissesReal`, `FinalInclusionOnChain`, `InclusionInv`, `OneBranchCollected`, `FinalRowsFrozen` |
| `LiveHeals` | slots stored in part, a head that falls back, crashes; fair worker | `IInv`, `GapsHeal` |

Crashes are possible in both. `FinalInclusionOnChain` does not hold of every
tree (see `LiveTwoReorgs`); the theorem `InclusionsOnChain` has the condition
`VotesSettle` on the head's steps, and the tree of `LiveFork` meets it (TLC evaluates it as the
assumption `ForkSettles` of `MCLiveCollector`).

What a scan stores before a slot fails is `SlotOutcomes`. The instances take
`"covered"` (everything) and, in `LiveHeals`, `"partial"`; with `"nothing"` and
`"recorded"` as well they outgrow a run of a few minutes. No run takes those
two: they are covered by the proofs only (`IInv`, `FinalMissesReal`,
`FinalProposalsReal`, `OneBranchCollected`, `RowsCollected`, `CompletedEpochsWhole`,
`FinalRowsFrozen`),
which hold for every `SlotOutcomes`.

### Validator table and archive

| run | instance | shows |
|---|---|---|
| `ValidatorsTracked` | words of five bits, seven epochs, two validators, activations and exits at any time | `ActiveKnown`, `ExitsKnown` |
| `ArchiveRepair` | modes both and backfill, three epochs, two validators (one joins late and leaves early), one epoch lost for good, restarts with and without a sweep, live promotions at any time, failures, crashes, back-off of at most two loop iterations, repair budget of one epoch | `TypeOK`, `EpochsAccounted`, `HistorySwept`, `WatermarkProven`, `LedgerKept`, `AttemptsGoOn`, `GapsRepaired`, `HistoryFinishes` |

Three epochs suffice for an epoch before, at and after the target of start-up,
for a target that is extended twice, for a validator that is active in the
middle one only, and for more gap epochs than the budget of one. A back-off that
doubles once and is then capped has each of its cases.

### Rewards, scanner and caches

| run | instance | shows |
|---|---|---|
| `RewardJobs` | one epoch of duties (attestation, proposal); a reorg replaces the block of the proposal and the state the attestation rewards come from; one job per poll; failures, expiry, crashes and the archive at any point | `IInv`, `RewardInv`, `StagedFromDependency`, `CompletedRewardsOnChain`, `CompletedBlockRewardsOnChain`, `ExpiredAreGaps`, `LedgerKept` |
| `EpochScanner` | ten chains of two slots per epoch, two tracked validators in different committees, aggregates of one or two committees before and after Electra, both scan modes, both workers | `IInv`, `VotesDecoded`, `RowsInv`, `CompletedAttestationsTrue`, `CompletedOutcomesTrue`, `CompletedRowsFrozen`, `ScanCompletes` |
| `ClientCaches` | two workers, proposer duties (which name their dependent root) and committees (which do not), a boundary that one branch skips | `InputInv`, `EntriesTrue`, `ReturnsCanonical`, `BlocksByRoot`, `SlotRootsFinal`, `InputsReturn` |

A sync duty goes through `RewardJobs` as a proposal does, except that its join
inserts no row that is missing; it would triple the states, so the run leaves it out, and
the theorems of the module have it. In `RewardJobs` the head may go back
and forth between two branches, except that a dependency it has left does not come
back while an answer waits to be confirmed (`NoReturn`, in `SettlingSpec`). TLC
evaluates `BoundariesDistinct` on the tree, and `JobsReached` holds because the head's epoch
never falls (`JobsAreReached`), so the instance meets the three conditions of the
theorems on attestation rewards. In `ClientCaches` the
head moves twice, which is what one call can notice; what a reorg there and back
again does is described below. Bytes have two bits and a
slot at most two committees in `EpochScanner`, so that a bit list of two
committees crosses a byte and its sentinel takes both positions. The live
worker runs on three of the ten chains only, because its interleavings multiply
the states; `CHECK_DEADLOCK FALSE` is set there because a scanned epoch needs
nothing more.

**Fairness.** `LiveHeals` assumes weak fairness of `Work`, the disjunction of the
worker's steps: the loop in `run_live_tracking` polls on every timer tick, so it
never stops for good. Nothing is assumed of the node. The premise of `GapsHeal`
says that eventually only worker steps occur: the head settles and nothing
crashes or fails any more.

`ArchiveRepair` assumes weak fairness of the archive task, since the loop in
`main.rs` is endless and its only waits are sleeps. That a pending attempt is
made again and again is not assumed: it is the property `AttemptsGoOn`. Nothing is
assumed of finality or of the live worker. The premise `FailuresEnd` says that eventually the process no longer
stops and scans that can succeed do.

`EpochScanner` assumes weak fairness of the archive's steps where it runs alone: a
failed pass is followed by another (`AttemptsGoOn`). `ScanCompletes` asks that
failures end and that the chain can be scanned at all (`Scannable`).
`ClientCaches` assumes weak fairness of the steps of each worker's call, which is
sequential code, and of the thirty seconds' end. `InputsReturn` asks that the
node rests and answers and that no entry is `Stuck`: calls that keep failing on such an
entry (*Anchor in an empty slot* below) are what the code does, and no property is
about them.

### Findings

Five runs are expected to violate a property. Each states a sentence of the
repository's documentation or comments.

1. `LiveStaleSkip`: reconciliation compares roots of *stored blocks* only. A slot
   that was covered as skipped, on a branch that is then replaced by one with a
   block in this slot, is not noticed if no stored root changed: with a lag of
   one slot, the head a6 (which skips 5) covers 5 as missed and stores nothing
   above it; then b7 on b5 becomes head. Slot 5 stays missed until it leaves the window. It
   is not *promoted* as missed, because b5 breaks the confirmed ancestry, so the
   epoch falls to the archive.
2. `LiveTwoReorgs`: the replay of a reorg at epoch E deletes coverage and blocks
   from the start of E-1, but attestation rows from E-1 on only; rows of E-2
   filled by a block of E-1 stay. After a second reorg puts another block in
   the same slot, the stale row is frozen, because promotion compares slots.
3. `LiveLateHole`: a vote is included twice, in a4 and a5. a5 is read first, a4
   fails; finality freezes a5's inclusion; a4 is read later and cannot replace
   the frozen row; the epoch completes with an inclusion delay too large by one.
4. `ValidatorsPending`: the activation epoch of a pending validator is stored as
   -1, so it is in the active set of every epoch, past and present.
5. `RewardSkippedBoundary`: the dependency of an attestation reward is the last
   block at or before the boundary slot. A branch that is empty from slot 3 up to
   the boundary (slot 5) depends on c2, which the other branch has too. After a
   reorg to that other branch, which fills slot 3, the first stored block that changed
   is one of epoch E+2, so the replay drops jobs from E+1 on; the staged response of
   E, computed on the empty branch, has a confirmed root and is written into the
   completed epoch. The same tree with a block in slot 3 on the first branch is
   the instance of `RewardJobs`, where the replay does drop the job.

### Observations

Behaviour met while modelling that no run states, because the documentation
promises nothing else, or because a property leaves it out explicitly.

- **Partial responses.** A scan that includes a validator without history at the
  node (a pending one, by finding 4) fails for the whole epoch, so gaps of the
  other validators in that epoch stay too. With eight such epochs that are newer
  the repair pass looks at nothing else; `GapsRepaired` claims repair only while
  fewer epochs are lost than a pass takes.
- **Gap rows.** An epoch recorded as a gap and completed by a later promotion
  keeps its row in `live_gaps`, and `expire_jobs` may insert one for an epoch
  that is complete: only the archive deletes gap rows. `EpochLedger` therefore
  reads `gaps \ completed`.
- **Slots below the first recorded block.** The parent walk starts an epoch before
  the cursor or the first recorded block; an uncovered slot further down is not
  retried although it is in the retry window. `GapsHeal` is about `WalkedSlots`.
- **Rewards across a double reorg.** `collect_job` compares the state root before
  and after the request for attestation rewards. A reorg away and back between
  the two reads stages the rewards of the other branch under a canonical
  dependency. It needs two switches during one request, which `NoReturn` excludes.
- **Rewards before their boundary.** `pending_jobs` selects the jobs of every epoch, and
  `collect_job` resolves the boundary block without asking whether the polled head is
  past the boundary. When the head has fallen back below it, to a branch that then
  fills the slots up to the boundary, the block read is not the dependency, and the
  comparison cannot notice it. `JobsReached` is the condition; with a head whose
  epoch never falls it is a theorem.
- **Inclusions after a fall of the epoch.** A rollback deletes stored blocks and rows from
  the same epoch on, so it keeps the row of the epoch before, which a deleted block may
  have filled. When the head has fallen back an epoch and then leaves that block
  too, the row is frozen as in finding 2. `VotesSettle` excludes it.
- **Anchor in an empty slot.** `anchor_unchanged` passes on the 404 of a slot that
  the canonical chain now skips, so the key fails until its row is pruned or
  memory and row are replaced, instead of asking the node again.
- **Responses across a double reorg.** Two moves of the head during one call of
  `cached_input` may store a response of another branch under a canonical
  anchor. If the response names its dependent root, the key fails from then on;
  otherwise it is served. In the same way a walk of `input_anchor` is not atomic.
- **Empty epoch.** When the boundary slot and the whole epoch before it are empty,
  the dense scan finds no root and fails every time. The sparse scan looks two
  epochs back (`sparse.rs:284-296`): it succeeds there, and fails in the same way once
  no block lies within two epochs at or before the boundary or the slot of a duty.
  `Scannable` leaves out both; no chain of the run is of the second kind.
- **Cancelling sync bits.** If a member's signed and unsigned positions cancel out
  in every block of an epoch, the probe finds no reward of a position, and the
  epoch never completes.
- **Marks of an abandoned inclusion.** In mode backfill, a row that an earlier live
  run left with an inclusion on an abandoned branch keeps its vote marks when
  the final chain has a miss (COALESCE). `CompletedAttestationsTrue` is about the
  marks of included rows.
- **Earliest inclusion.** README.md:265 says the fields describe the earliest
  observed inclusion; `CompletedAttestationsTrue` asserts the earliest one of the
  chain for rows the archive completed, and an inclusion on the chain for those
  the live worker completed (finding 3).

## 4. Proofs

**Live worker.** Proved for every block tree, every configuration and every number of slots per
epoch that satisfies the ASSUMEs of `Chain`, `BeaconNode` and `LiveCollector`:

- `TypeCorrect`: `Spec => []TypeOK`.
- `InductiveInvariant`: `Spec => []IInv`.
- `MissesReal`: `Spec => []FinalMissesReal`, the central safety property. No unread,
  orphaned or half-processed slot becomes a proven miss.
- `ProposalsReal`: `Spec => []FinalProposalsReal`.
- `OneBranch`: `Spec => []OneBranchCollected`.
- `RowsFrozen`: `Spec => FinalRowsFrozen`.

Why an invariant is needed. A miss is promoted when its slots are covered, no
stored block contradicts it, and the confirmed ancestry reaches below it. For
it to be real, the confirmed ancestry must be the finalized chain (`CheckpointInv`:
a poll's checkpoint is at most the node's, with the same root), and what a
covered slot says must match the stored block in it (`SlotEvidence`) and the votes in
that block (`VoteEvidence`). These survive a scan because a covered slot is
never scanned again without being invalidated first and the scan works on the
tip's chain only (`ScanInv`), and they survive a rollback because coverage,
blocks and rows are deleted from one slot on. `CursorInv` is what excludes the
dangerous case of a dropped cursor: a cursor is forgotten only when all coverage
lies before the window, otherwise the scan would start above holes. `NodeInv`
bounds the head's fall-back, and `FinalInv` says that what is final is behind
the node's checkpoint, so no later block can contradict it.

Each action has its own lemma per part of the invariant; `LiveSafetyProofs`
combines them.

- `CoverageHasRows`: `Spec => []RowsCollected`, and `EpochsWhole`:
  `Spec => []CompletedEpochsWhole`. They share `WholeInv`. That completion finds
  every row is not visible in its query: the query asks for coverage, and the rows
  are only there because `RecordCoverage` covers a slot when both assignments
  have arrived and the slot's row is written, and because a rollback
  (`InvalidateFrom`) deletes coverage and rows from the same slot on.

- `InclusionsOnChain`: `VotesSettle => (Spec => []FinalInclusionOnChain)`: a frozen
  inclusion is a block of the final chain that carries the vote.
  `InclusionInvariant` is its inductive invariant.

`FinalInclusionOnChain` is not an invariant of the code on every tree (finding 2),
so the theorem has a condition on the node, `VotesSettle`: the epoch of the head
does not fall, and the head does not leave a block with a tracked vote once it is in a
later epoch. Both halves are needed. `LiveTwoReorgs` violates the second; for
the first there is a tree on which the head falls back an epoch and TLC finds the
property violated (see the observations). The core is `RowInv`: the block
of an inclusion that is not yet final is either recorded, and then the one that is
confirmed in its slot; or a rollback took its record back and the head will not leave
it any more (`Settled`); or it is so far behind that its slot never
gets a record again (`Behind`). The second case is the deletion of
`live/reorg.rs`, which takes records back and keeps the rows of the epoch before. Crashes,
failed requests and the finalized checkpoint are not restricted.

`ProposalsReal` does not rest on the stored blocks being of one branch, which
holds in the window only: `LiveFork` has an instance in which an orphan stays
behind. It rests on the confirmed roots, of which each frozen proposal has one: its
block or, when its epoch completes, the root its reward is staged under.

**Validator table.** `ActiveAlwaysKnown` and `ExitsAlwaysKnown` prove
`Spec => []ActiveKnown` and `Spec => []ExitsKnown`, for every word size and
every `MaxAge < ExitDelay`. The invariant says of each row, and of each part of
a response still to be stored, that its activation is the scheduled one or -1,
and that it misses no exit scheduled before the epoch of its response; a row
that a refresh did not ask for is one whose validator the table counted as
inactive, and `UpToDate` shows that it stays so.

**Archive.** `TypeCorrect` of `BackfillProofs` proves `Spec => []TypeOK`: every
goal, epoch and watermark is one the chain has. Two cases need more than types:
an attempt of the history takes its goal from start-up, where there may have
been no target, so that `PassInv` has to say that such a process is done with
the history already; and the newest epoch of a promotion exists because the epochs
of an instance are bounded (`NewestEpoch`). `AlwaysAccounted` proves `Spec => []EpochsAccounted`. What has to be carried along
is what an open promotion has read, because gaps are deleted while it is open.
`WatermarkAlwaysProven` (`Spec => []WatermarkProven`) and `SweepAlwaysWhole`
(`Spec => []HistorySwept`) share one invariant: behind the epoch of the loop
nothing is open (`BehindInv`), whoever is not in the scan in progress needs none
(`ScanInv`), and after the sweep nothing is open up to the first target
(`SweptInv`). `StartCovered` is the link: no epoch before the start of a pass is
open, which in a contiguous pass holds only because the watermark is a proof.

`LedgerRefinement` of `BackfillProofs` (`Spec => LedgerKept`) shows that `Backfill`
implements `EpochLedger`. The live worker commits what it has read in an earlier step, so
it may insert a gap for a pair that the archive has completed in between; the
ledger's missing epochs are the gaps that are not complete, and those only grow
except by completion. `RetriesRefineBackfill` (`TimedSpec => Spec`) carries every theorem of
the archive over to `BackfillRetry`, which is the specification `ArchiveRepair` checks.

**Rewards.** `InvariantHolds` (`Spec => []IInv`), `ExpiredRewardsAreGaps` and
`LedgerRefinement` (`Spec => LedgerKept`) hold for every block tree and
configuration, with any number of reorgs. The refinement argues action by
action: the archive's upserts spare a final row of a completed epoch, `Promote`
replays nothing there, `InvalidateFrom` and the join touch open rows only, and
what `Poll` drops from the gaps lies before the start of
tracking. For this last step `OwedTracked` is needed: the start of tracking only
moves back, so a gap or an open job is never before it.

`BlockRewardsOnChain` (`Spec => []CompletedBlockRewardsOnChain`) says what a
completed epoch shows for the duties in a block of the final chain, proposals and
sync committee work: a frozen row with the reward of that block. `RewardInvariant`
(`Spec => []RewardInv`) is its inductive invariant. The argument: the checkpoint of
a poll agrees with the node's up to its slot (`CheckpointInv`); the job of a slot,
the requests made for it and its response are about one block of this slot, since
the code asks by root (`BlockJobs`); what the archive calls missed is skipped by
the final chain (`ArchiveInv`). `Promote` replays a response only from a confirmed
root, which then is the root of the final chain in that slot, and completes an epoch only
when each of its confirmed blocks has its row and its response.

Attestation rewards depend on a state and not on a block of the epoch, so
nothing of the kind holds for them on every tree (finding 5). It does hold under
three conditions, each of which has a counterexample when it is dropped:

- `BoundariesDistinct`, of the tree: every branch past a boundary that contains the
  last block before it on one branch has it as its own last block. Without it
  there is `RewardSkippedBoundary`.
- `JobsReached`: the polled head has passed the boundary of every attestation job
  that it collects. `JobsAreReached` (`MaxFallback = 0 => (Spec => []JobsReached)`)
  proves it for heads whose epoch never falls. On a tree where the head falls back
  over the boundary TLC finds both properties violated.
- `NoReturn`, of each step: a dependency that has left the head's chain does not come
  back while an answer waits to be confirmed. Where it does, TLC finds
  `StagedFromDependency` violated.

`AttestationInvariant`, `ResponsesFromDependency` and `RewardsOnFinalChain` prove
`BoundariesDistinct => (Spec /\ []JobsReached /\ [][NoReturn]_vars => []P)` for
`AttestationInv`, `StagedFromDependency` and `CompletedRewardsOnChain`. The
argument: an answer computed on another branch is there only if the dependency
has left the head's chain since it was read; then it is still gone when the
dependency is read again, and the answer is not staged. A staged response is
about a boundary block, the replay requires that block to be confirmed, and a
confirmed boundary block is the dependency of the final chain. The comparison of
the two state roots is not needed: reading the dependency again suffices.

**Epoch scanner.** Proved for every chain, committee layout, number of slots per
epoch, set of tracked validators and set of rows an earlier run may have left, in three
layers:

- Progress and outcomes: `ScannerProgress` (`Spec => []IInv`), `ScannerOutcomesTrue`
  (`Spec => []CompletedOutcomesTrue`) and `ScannerCompletedFrozen`
  (`Spec => CompletedRowsFrozen`). `IInv` has the types of the columns, what a scan
  in progress has written so far (`DutiesWritten`, `ProposalsWritten`,
  `SyncsWritten`), that a completed epoch rests on final rows with all their
  columns (`CompletedFinal`), and what proposals and sync duties say (`ProposalsReal`,
  `SyncsReal`, `OutcomesCollected`). The lemmas about single statements say what an
  upsert, a join, a repair and `Promote` make of one row, whoever executes it.
- Decoding: `ScannerVotesDecoded` (`Spec => []VotesDecoded`), for every number of
  bits in a byte, of committees and of members. A bit keeps its place through
  packing and unpacking (`BitPlace`, from the uniqueness of quotient and
  remainder), the sentinel is the highest bit of the last byte (`BitlistDecodes`),
  and the bits of a committee start where the decoder's offset for it points
  (`SignaturesPlaced`). Offsets and signatures are functions defined by recursion over the
  committees: `RecursionExists` shows by a least counterexample that such a function
  exists, and the facts about them go the same way.
- What the rows say: `ScannerRowsTrue` (`Spec => []RowsInv`),
  `ScannerAttestationsTrue` and `ScannerInclusionsReal`. As the aggregates decode to
  the votes they were made of, each of the three scans and the live worker find the votes of
  the chain and nothing else, the archive the earliest one; a repair and `Promote` keep
  what is true; and a miss is frozen only with the window covered, when an
  inclusion in it would be on the row (`InclusionsCollected`).

**Beacon client.** `InputsConsistent`, `EntriesAlwaysTrue` and
`CallsReturnCanonical` prove the input cache for every block tree, set of workers
and kind of input. The invariant is `CallTrue`: a new entry has the response of
its anchor's chain or, if the head has moved once, of the present head's, in
which case the second anchor must differ or the two agree; `Skipped` says what a
walk in progress has learnt. `BlocksAlwaysByRoot` and `SlotRootsAlwaysFinal` prove the
block caches.

Only model-checked are the liveness properties `GapsHeal`, `AttemptsGoOn`,
`GapsRepaired`, `HistoryFinishes`, `ScanCompletes` and `InputsReturn`: fairness and
ENABLED are outside the prover's reach. No property of the five runs that end
in a violation is proved without a condition, because on some tree or schedule
each of them is false. `JobsReached` and `AttestationInv` are
theorems only; what they are needed for is checked by `RewardJobs`.

## 5. Plan

Done, in the order of importance: the live worker, the validator table, the
archive, the reward jobs with the abstract ledger, the scanner with its rows,
the back-off, the caches. What is left:

| work | why it is not there |
|---|---|
| `LiveCollector` shown to implement `EpochLedger` | its completion has no gaps; `RewardJobs` has both and the same transactions |
| several validators with different tracking starts in `LiveCollector` | `processed_tip` is a minimum over them; the state space squares |
| an instance with a reorg there and back within one call in `ClientCaches` | would violate what the observations describe |

Bounds stay in the range of the present runs: two validators, two slots per
epoch, at most one fault of each kind where faults multiply.

## 6. Not modelled, and why

- `web/`, `db/api/`, `metrics.rs` and the user interface read and format; no state
  of theirs feeds back into the workers.
- HTTP transport, its retries (`get_response`, `post_response`) and JSON decoding:
  a request that fails for good is the error outcome of the action that makes it.
- The event channel: SSE events only wake the live worker before its timer does,
  and a poll may start at any time in the models.
- The cache of the head slot (two seconds) and the caches of values that never
  change (`spec.rs`).
- The inclusion delay that the archive takes from the rewards before Altair, and
  the concurrency of the requests within one scan, whose results are joined
  before the first write.
- `config.rs` and command-line parsing, except the values that appear as
  CONSTANTs.
- Migrations: the tables' keys appear as the sets and functions that stand for
  them. A validator row that is missing at start-up, which the foreign key of
  `live_tracking_start` turns into an error on every poll, is outside the
  models.
- `--instance` heartbeats and several writers on the same validators, which the
  documentation puts out of scope.

