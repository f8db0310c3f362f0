--------------------------- MODULE BackfillRetry ----------------------------
(***************************************************************************)
(* Backfill with the clock of its retries (HistoricalRetry in              *)
(* src/src/backfill/retry.rs).  Backfill leaves open when an attempt of    *)
(* the historical backfill begins and assumes that it begins again and     *)
(* again; here it begins when the back-off has ended, and the assumption   *)
(* becomes a property.                                                     *)
(*                                                                         *)
(* Time is counted in iterations of the task's loop, which ends in a sleep *)
(* of 60 seconds; an iteration may take longer than that.                  *)
(***************************************************************************)
EXTENDS Backfill

CONSTANTS
    MaxDoublings, \* the exponent of the back-off stops growing here (5)
    MaxDelay      \* the longest back-off, in minutes (30)

ASSUME RetryAssumption == MaxDoublings \in Nat /\ MaxDelay \in Nat \ {0}

VARIABLES
    failures, \* HistoricalRetry.failures, as far as it matters
    wait      \* minutes until next_attempt

retryVars == <<failures, wait>>

allVars == <<vars, retryVars>>

\* failed: 60 * 2^failures seconds, the exponent and the product capped.
Delay == IF 2^failures <= MaxDelay THEN 2^failures ELSE MaxDelay

RetryFailed ==
    /\ wait' = Delay
    /\ failures' = IF failures < MaxDoublings THEN failures + 1 ELSE failures

\* A run of the process has its own HistoricalRetry.
RetryStarts == failures' = 0 /\ wait' = 0

\* Mutant: the waiting time starts anew with every iteration.
WaitsAgain == wait' = (IF wait > 0 THEN Delay ELSE 0) /\ UNCHANGED failures

\* The sleep at the end of an iteration, and the time the iteration itself took.
MinutePasses == wait' \in {w \in 0..wait : w < wait \/ wait = 0} /\ UNCHANGED failures

TimedNext ==
    \/ (FinalityAdvances \/ Live) /\ UNCHANGED retryVars
    \/ (Startup \/ Crash) /\ RetryStarts
    \/ RepairBegins /\ MinutePasses
    \/ HistoryWaits /\ wait > 0 /\ UNCHANGED retryVars
    \/ HistoryBegins /\ wait = 0 /\ UNCHANGED retryVars
    \/ ScanFails /\ RetryFailed
    \/ /\ \/ \E e \in Epochs : RepairSucceeds(e) \/ RepairFails(e)
          \/ RepairEnds
          \/ PassBegins
          \/ SelectEpoch
          \/ ScanSucceeds
          \/ AdvanceWatermark
          \/ SweepEnds
          \/ PassEnds
       /\ UNCHANGED retryVars

TimedInit == Init /\ failures = 0 /\ wait = 0

TimedSpec == TimedInit /\ [][TimedNext]_allVars /\ WF_allVars(Archive /\ TimedNext)

---------------------------------------------------------------------------
(* Properties *)

\* The back-off of a failed attempt always ends (retry.rs:36): while the process
\* runs, an attempt that is possible again and again is made again and again, however
\* often it fails.  This is the strong fairness that Backfill assumes of its retries.
AttemptsGoOn == <>[][~Crash]_vars => SF_vars(HistoryBegins)
=============================================================================
