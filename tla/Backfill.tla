------------------------------ MODULE Backfill ------------------------------
(***************************************************************************)
(* The archive worker (src/src/backfill.rs and the task of src/src/main.rs *)
(* that drives it) beside the live worker, which completes epochs and      *)
(* records gaps in the same tables.                                        *)
(*                                                                         *)
(* In mode "both" one task alternates between repairing recorded gaps and  *)
(* attempts of the historical backfill; in mode "backfill" one backfill    *)
(* runs alone and extends its target while finality advances.              *)
(*                                                                         *)
(* Abstractions.                                                           *)
(*  - A row of completed_scans or live_gaps is a pair <<validator, epoch>>.*)
(*  - A watermark is None (-1 here) or an epoch; GREATEST ignores NULL.    *)
(*  - scan_epoch stores several stages and marks completion last, in one   *)
(*    transaction.  It either reaches that transaction or fails: partial   *)
(*    rows do not count for anything this module is about.                 *)
(*  - A scan fails for good when the node's answer lacks a validator       *)
(*    (`Unservable`: history that is gone, duties that never existed), and *)
(*    may fail for any other reason.                                       *)
(*  - The live worker is one transaction, promote_collected: it completes  *)
(*    some epochs and records the others as gaps.  Its INSERT reads        *)
(*    completed_scans before it commits.                                   *)
(***************************************************************************)
EXTENDS Integers, FiniteSets

CONSTANTS
    Validators,
    LastEpoch,     \* bound of the instance on epochs
    Activation,    \* validators.activation_epoch (i64, negative for a pending validator)
    Exit,          \* validators.exit_epoch, LastEpoch + 1 for NULL
    Unservable,    \* pairs for which no scan of the epoch can succeed
    DepthFloor,    \* config max_backfill_depth, 0 for None
    NonContiguous, \* the values of config non_contiguous_backfill over the restarts
    Modes,         \* the run modes of the instance, "both" and "backfill"
    TrackingStart, \* live_tracking_start.started_epoch
    RepairLimit    \* gap epochs per repair pass (8)

Epochs == 0..LastEpoch

Pairs == Validators \X Epochs

ASSUME BackfillAssumption ==
    /\ Validators # {}
    /\ LastEpoch \in Nat
    /\ Activation \in [Validators -> Int]
    /\ Exit \in [Validators -> Nat]
    /\ Unservable \subseteq Pairs
    /\ DepthFloor \in Nat
    /\ NonContiguous \subseteq BOOLEAN
    /\ Modes \subseteq {"both", "backfill"}
    /\ TrackingStart \in Nat
    /\ RepairLimit \in Nat

VARIABLES
    target,    \* the node's finalized scan target, -1 while there is none
    mode,      \* config mode of every start
    (* database *)
    completed, \* completed_scans
    gaps,      \* live_gaps
    watermark, \* validators.last_scanned_epoch
    (* live worker *)
    promotion, \* what the open transaction of promote_collected has read
    accounted, \* the last target it was committed for (history)
    (* archive worker *)
    pc,
    full,      \* config non_contiguous_backfill of this process
    known,     \* validator_scan_state as read at start-up
    first,     \* the finality target at start-up, -1 while there is none
    done,      \* historical_done
    repairs,   \* gap epochs of this repair pass, with their validators
    marks,     \* run_backfill's own copy of the watermarks
    sweep,     \* non_contiguous_pending
    goal,      \* target_finalized_epoch
    epoch,     \* the epoch of the loop
    scanning   \* the validators of the scan in progress

dbVars == <<completed, gaps, watermark>>

liveVars == <<promotion, accounted>>

taskVars == <<full, known, first, done, repairs>>

passVars == <<marks, sweep, goal, epoch, scanning>>

vars == <<target, mode, dbVars, liveVars, pc, taskVars, passVars>>

Marks == [Validators -> Epochs \cup {-1}]

NoPromotion == [ready |-> {}, missing |-> {}, target |-> -1]

TypeOK ==
    /\ target \in Epochs \cup {-1}
    /\ mode \in Modes
    /\ completed \subseteq Pairs
    /\ gaps \subseteq Pairs
    /\ watermark \in Marks
    /\ promotion \in [ready : SUBSET Pairs, missing : SUBSET Pairs, target : Epochs \cup {-1}]
    /\ accounted \in Epochs \cup {-1}
    /\ pc \in {"down", "loop", "repair", "history", "pass", "select", "scan", "marked", "exited"}
    /\ full \in BOOLEAN
    /\ known \in Marks
    /\ first \in Epochs \cup {-1}
    /\ done \in BOOLEAN
    /\ repairs \subseteq Pairs
    /\ marks \in Marks
    /\ sweep \in BOOLEAN
    /\ goal \in Epochs
    /\ epoch \in Nat
    /\ scanning \subseteq Validators

---------------------------------------------------------------------------
(* Quantities *)

Higher(a, b) == IF a >= b THEN a ELSE b

\* active_validators_at
ActiveAt(e) == {v \in Validators : Activation[v] <= e /\ e < Exit[v]}

\* The activation read back `as u64`: a negative one is beyond every epoch.
UnsignedActivation(v) == IF Activation[v] < 0 THEN LastEpoch + 1 ELSE Activation[v]

\* Mutant: a sweep, too, starts behind the watermark.
StartAfterMark(v) == Higher(Higher(marks[v] + 1, UnsignedActivation(v)), DepthFloor)

\* compute_start
ComputeStart(v) ==
    LET base == IF sweep \/ marks[v] = -1
                THEN UnsignedActivation(v)
                ELSE Higher(marks[v] + 1, UnsignedActivation(v))
    IN  Higher(base, DepthFloor)

\* The validators a pass scans in epoch e: active, at or past their start, and not
\* completed yet.
ToScan(e) ==
    {v \in ActiveAt(e) : e >= ComputeStart(v) /\ <<v, e>> \notin completed}

Servable(set, e) == \A v \in set : <<v, e>> \notin Unservable

\* Mutant: the watermark names the next epoch to scan.
AdvancePast(w, set, e) ==
    [v \in Validators |-> IF v \in set THEN Higher(w[v], e + 1) ELSE w[v]]

\* GREATEST(COALESCE(last_scanned_epoch, -1), e) for the validators of a set.
Advance(w, set, e) == [v \in Validators |-> IF v \in set THEN Higher(w[v], e) ELSE w[v]]

\* Mutant: the gaps of the epoch are closed whoever was scanned.
CloseWholeEpoch(set, e) ==
    /\ completed' = completed \cup (set \X {e})
    /\ gaps' = {p \in gaps : p[2] # e}

\* mark_complete: one transaction.
MarkComplete(set, e) ==
    /\ completed' = completed \cup (set \X {e})
    /\ gaps' = gaps \ (set \X {e})

EpochsOf(pairs) == {p[2] : p \in pairs}

\* Mutant: the oldest gaps first.
OldestOf(pairs) ==
    {p \in pairs : Cardinality({e \in EpochsOf(pairs) : e < p[2]}) < RepairLimit}

\* ORDER BY epoch DESC LIMIT 8
NewestOf(pairs) ==
    {p \in pairs : Cardinality({e \in EpochsOf(pairs) : e > p[2]}) < RepairLimit}

---------------------------------------------------------------------------
(* The node and the live worker *)

FinalityAdvances ==
    /\ target < LastEpoch
    /\ target' = target + 1
    /\ UNCHANGED <<mode, dbVars, liveVars, pc, taskVars, passVars>>

Alive == pc \notin {"down", "exited"}

\* The epochs that promote_collected has to account for.
Owed ==
    {p \in Pairs \ completed : p[1] \in ActiveAt(p[2]) /\ TrackingStart <= p[2] /\ p[2] <= target}

\* promote_collected reads: `ready` are the epochs whose live evidence is complete,
\* every other epoch since tracking started is missing.
LiveReads ==
    /\ mode = "both"
    /\ Alive
    /\ promotion = NoPromotion
    /\ target >= 0
    /\ \E ready \in SUBSET (Owed \ Unservable) :
          promotion' = [ready |-> ready, missing |-> Owed \ ready, target |-> target]
    /\ UNCHANGED <<target, mode, dbVars, accounted, pc, taskVars, passVars>>

\* ... and commits.
LiveCommits ==
    /\ promotion # NoPromotion
    /\ completed' = completed \cup promotion.ready
    /\ gaps' = gaps \cup promotion.missing
    /\ watermark' = [v \in Validators |->
                        IF \E p \in promotion.ready : p[1] = v
                        THEN Higher(watermark[v],
                                    CHOOSE e \in EpochsOf({p \in promotion.ready : p[1] = v}) :
                                        \A p \in promotion.ready : p[1] = v => p[2] <= e)
                        ELSE watermark[v]]
    /\ accounted' = Higher(accounted, promotion.target)
    /\ promotion' = NoPromotion
    /\ UNCHANGED <<target, mode, pc, taskVars, passVars>>

---------------------------------------------------------------------------
(* The archive worker *)

\* Process start: the watermarks and the finality target are read once.
Startup ==
    /\ pc = "down"
    /\ full' \in NonContiguous
    /\ known' = watermark
    /\ first' = target
    /\ done' = (target = -1)
    /\ IF mode = "both"
       THEN pc' = "loop" /\ UNCHANGED passVars
       ELSE IF target = -1
       THEN pc' = "exited" /\ UNCHANGED passVars
       ELSE /\ pc' = "pass"
            /\ marks' = watermark
            /\ sweep' = full'
            /\ goal' = target
            /\ UNCHANGED <<epoch, scanning>>
    /\ repairs' = {}
    /\ UNCHANGED <<target, mode, dbVars, liveVars>>

\* repair_live_gaps: the newest epochs with open gaps, read once.
RepairBegins ==
    /\ pc = "loop"
    /\ repairs' = NewestOf({p \in gaps \ completed : p[2] <= target})
    /\ pc' = "repair"
    /\ UNCHANGED <<target, mode, dbVars, liveVars, full, known, first, done, passVars>>

IsNextRepair(e) == e \in EpochsOf(repairs) /\ \A f \in EpochsOf(repairs) : f <= e

RepairSet(e) == {p[1] : p \in {q \in repairs : q[2] = e}}

\* Mutant: the gap is taken off the list before the scan.
RepairFailsAfterDelete(e) ==
    /\ pc = "repair"
    /\ IsNextRepair(e)
    /\ repairs' = {p \in repairs : p[2] # e}
    /\ gaps' = gaps \ (RepairSet(e) \X {e})
    /\ UNCHANGED <<target, mode, completed, watermark, liveVars, pc, full, known, first, done, passVars>>

\* A failed scan leaves the gap for a later pass.
RepairFails(e) ==
    /\ pc = "repair"
    /\ IsNextRepair(e)
    /\ repairs' = {p \in repairs : p[2] # e}
    /\ UNCHANGED <<target, mode, dbVars, liveVars, pc, full, known, first, done, passVars>>

RepairSucceeds(e) ==
    /\ pc = "repair"
    /\ IsNextRepair(e)
    /\ Servable(RepairSet(e), e)
    /\ MarkComplete(RepairSet(e), e)
    /\ repairs' = {p \in repairs : p[2] # e}
    /\ UNCHANGED <<target, mode, watermark, liveVars, pc, full, known, first, done, passVars>>

RepairEnds ==
    /\ pc = "repair"
    /\ repairs = {}
    /\ pc' = IF done THEN "loop" ELSE "history"
    /\ UNCHANGED <<target, mode, dbVars, liveVars, taskVars, passVars>>

\* HistoricalRetry is not ready yet: back to the next iteration.
HistoryWaits ==
    /\ pc = "history"
    /\ pc' = "loop"
    /\ UNCHANGED <<target, mode, dbVars, liveVars, taskVars, passVars>>

\* An attempt starts from the watermarks read at start-up.
HistoryBegins ==
    /\ pc = "history"
    /\ pc' = "pass"
    /\ marks' = known
    /\ sweep' = full
    /\ goal' = first
    /\ UNCHANGED <<target, mode, dbVars, liveVars, taskVars, epoch, scanning>>

\* run_backfill returned Ok.
Finish ==
    /\ pc' = IF mode = "both" THEN "loop" ELSE "exited"
    /\ done' = TRUE
    /\ UNCHANGED <<marks, sweep, goal, epoch, scanning>>

\* The head of run_backfill's loop: min_start.
PassBegins ==
    /\ pc = "pass"
    /\ IF \A v \in Validators : ComputeStart(v) > goal
       THEN Finish
       ELSE /\ \E v \in Validators :
                  /\ \A u \in Validators : ComputeStart(v) <= ComputeStart(u)
                  /\ epoch' = ComputeStart(v)
            /\ pc' = "select"
            /\ UNCHANGED <<done, marks, sweep, goal, scanning>>
    /\ UNCHANGED <<target, mode, dbVars, liveVars, full, known, first, repairs>>

\* The next epoch of the pass: who is to be scanned.
SelectEpoch ==
    /\ pc = "select"
    /\ epoch <= goal
    /\ IF ToScan(epoch) = {}
       THEN epoch' = epoch + 1 /\ UNCHANGED <<pc, scanning>>
       ELSE scanning' = ToScan(epoch) /\ pc' = "scan" /\ UNCHANGED epoch
    /\ UNCHANGED <<target, mode, dbVars, liveVars, taskVars, marks, sweep, goal>>

\* Mutant: a failed epoch is passed over, as in a repair pass.
ScanFailsAndContinues ==
    /\ pc = "scan"
    /\ pc' = "select"
    /\ epoch' = epoch + 1
    /\ scanning' = {}
    /\ UNCHANGED <<target, mode, dbVars, liveVars, taskVars, marks, sweep, goal>>

\* A failed scan ends run_backfill: retried later, or the process exits.
ScanFails ==
    /\ pc = "scan"
    /\ pc' = IF mode = "both" THEN "loop" ELSE "exited"
    /\ scanning' = {}
    /\ UNCHANGED <<target, mode, dbVars, liveVars, taskVars, marks, sweep, goal, epoch>>

ScanSucceeds ==
    /\ pc = "scan"
    /\ Servable(scanning, epoch)
    /\ MarkComplete(scanning, epoch)
    /\ pc' = "marked"
    /\ UNCHANGED <<target, mode, watermark, liveVars, taskVars, passVars>>

\* update_validators_scanned_epoch, a statement of its own.
AdvanceWatermark ==
    /\ pc = "marked"
    /\ watermark' = Advance(watermark, scanning, epoch)
    /\ marks' = Advance(marks, scanning, epoch)
    /\ epoch' = epoch + 1
    /\ scanning' = {}
    /\ pc' = "select"
    /\ UNCHANGED <<target, mode, completed, gaps, liveVars, taskVars, sweep, goal>>

\* Mutant: the sweep is not switched off.
SweepRepeats ==
    /\ pc = "select"
    /\ epoch > goal
    /\ sweep
    /\ watermark' = Advance(watermark, ActiveAt(goal), goal)
    /\ marks' = Advance(marks, ActiveAt(goal), goal)
    /\ pc' = "pass"
    /\ UNCHANGED <<target, mode, completed, gaps, liveVars, taskVars, sweep, goal, epoch, scanning>>

\* After a non-contiguous sweep the validators active at the target resume there.
SweepEnds ==
    /\ pc = "select"
    /\ epoch > goal
    /\ sweep
    /\ watermark' = Advance(watermark, ActiveAt(goal), goal)
    /\ marks' = Advance(marks, ActiveAt(goal), goal)
    /\ sweep' = FALSE
    /\ pc' = "pass"
    /\ UNCHANGED <<target, mode, completed, gaps, liveVars, taskVars, goal, epoch, scanning>>

\* After a contiguous pass: done, or in mode "backfill" on to the advanced target.
PassEnds ==
    /\ pc = "select"
    /\ epoch > goal
    /\ ~sweep
    /\ IF mode = "backfill" /\ target > goal
       THEN goal' = target /\ pc' = "pass" /\ UNCHANGED <<done, marks, sweep, epoch, scanning>>
       ELSE Finish
    /\ UNCHANGED <<target, mode, dbVars, liveVars, full, known, first, repairs>>

Nowhere == [v \in Validators |-> -1]

\* The process stops; an open transaction is rolled back.
Crash ==
    /\ pc # "down"
    /\ promotion' = NoPromotion
    /\ pc' = "down"
    /\ full' = FALSE
    /\ known' = Nowhere
    /\ first' = -1
    /\ done' = FALSE
    /\ repairs' = {}
    /\ marks' = Nowhere
    /\ sweep' = FALSE
    /\ goal' = 0
    /\ epoch' = 0
    /\ scanning' = {}
    /\ UNCHANGED <<target, mode, dbVars, accounted>>

Init ==
    /\ target = -1
    /\ mode \in Modes
    /\ completed = {}
    /\ gaps = {}
    /\ watermark = Nowhere
    /\ accounted = -1
    /\ promotion = NoPromotion
    /\ pc = "down"
    /\ full = FALSE
    /\ known = Nowhere
    /\ first = -1
    /\ done = FALSE
    /\ repairs = {}
    /\ marks = Nowhere
    /\ sweep = FALSE
    /\ goal = 0
    /\ epoch = 0
    /\ scanning = {}

Live == LiveReads \/ LiveCommits

Fails == ScanFails \/ \E e \in Epochs : RepairFails(e)

Archive ==
    \/ Startup
    \/ RepairBegins
    \/ \E e \in Epochs : RepairSucceeds(e)
    \/ RepairEnds
    \/ HistoryWaits
    \/ HistoryBegins
    \/ PassBegins
    \/ SelectEpoch
    \/ ScanSucceeds
    \/ AdvanceWatermark
    \/ SweepEnds
    \/ PassEnds
    \/ Fails

Next == FinalityAdvances \/ Live \/ Archive \/ Crash

Spec == Init /\ [][Next]_vars

(* The task never stops and its back-off always ends; nothing is promised of the   *)
(* live worker.                                                                    *)
FairSpec == Spec /\ WF_vars(Archive) /\ SF_vars(HistoryBegins)

---------------------------------------------------------------------------
(* Properties *)

\* A promotion may record a gap that a repair has just closed: it is none any more.
Ledger == INSTANCE EpochLedger
              WITH Epochs <- Pairs,
                   complete <- completed,
                   missing <- gaps \ completed,
                   entries <- {}

\* A failure that another attempt need not meet, or a stop of the process.
TransientFailure ==
    \/ Crash
    \/ ScanFails /\ Servable(scanning, epoch)
    \/ \E e \in Epochs : RepairFails(e) /\ Servable(RepairSet(e), e)

FailuresEnd == <>[][~TransientFailure]_vars

\* "Every finalized epoch since this validator began live tracking must be either
\* complete or explicitly repairable by the archive worker" (finalization.rs:303):
\* up to the last committed promotion, whatever the archive worker did meanwhile.
EpochsAccounted ==
    \A v \in Validators : \A e \in Epochs :
        v \in ActiveAt(e) /\ TrackingStart <= e /\ e <= accounted
            => <<v, e>> \in completed \cup gaps

\* What the archive worker has to complete in epoch e.  A validator with a negative
\* activation is never scanned.
Due(v, e) == v \in ActiveAt(e) /\ 0 <= Activation[v] /\ DepthFloor <= e

\* Where the archive worker is alone, a watermark is a proof: every epoch up to it, from
\* the depth floor on, has been scanned.  A restart resumes behind the watermark, so
\* an epoch that is not complete there would never be looked at again.
WatermarkProven ==
    mode = "backfill" =>
        \A v \in Validators : \A e \in Epochs :
            Due(v, e) /\ e <= watermark[v] => <<v, e>> \in completed

\* A non-contiguous backfill that reports success has left no hole up to the target
\* it started from, whatever the watermarks said (README.md:230).
HistorySwept ==
    full /\ done =>
        \A v \in Validators : \A e \in Epochs :
            Due(v, e) /\ e <= first => <<v, e>> \in completed

\* An epoch that is recorded as a gap is eventually completed when the node can serve
\* it for every validator, although other epochs can never be repaired, as long as
\* fewer than RepairLimit of those are newer (a pass looks at the newest gaps only).
GapsRepaired ==
    mode = "both" /\ FailuresEnd =>
        \A v \in Validators : \A e \in Epochs :
            Servable(Validators, e) => (<<v, e>> \in gaps ~> <<v, e>> \in completed)

\* The tables keep the promise of EpochLedger whoever writes them: the two workers
\* commit in any order, on what each of them read before, and no epoch that was
\* complete is given up, nor is a gap forgotten before its epoch is complete.
LedgerKept == Ledger!Spec

\* The historical attempts come to an end, whatever epoch each of them stopped at.
HistoryFinishes == mode = "both" /\ FailuresEnd => <>[](pc # "down" /\ done)
============================================================================
