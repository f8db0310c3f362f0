--------------------------- MODULE BackfillProofs ---------------------------
(***************************************************************************)
(* For every set of validators, activation and exit epochs, unavailable    *)
(* history and configuration: no finalized epoch is lost between           *)
(* completion and the gap table, and neither a watermark nor a finished    *)
(* sweep claims an epoch that was not scanned.                             *)
(***************************************************************************)
EXTENDS BackfillRetry, WellFoundedInduction, TLAPS

\* The transaction of promote_collected has seen every epoch it will account for.
PromotionInv ==
    \A v \in Validators : \A e \in Epochs :
        v \in ActiveAt(e) /\ TrackingStart <= e /\ e <= promotion.target
            => <<v, e>> \in completed \cup promotion.ready \cup promotion.missing

AccountInv == EpochsAccounted /\ PromotionInv

\* Nothing is accounted for at first.
LEMMA AccountedInit == Init => AccountInv
BY DEF Init, AccountInv, EpochsAccounted, PromotionInv, NoPromotion, Epochs

\* Every step keeps what is accounted for: completion only grows, and a gap is only
\* deleted together with it.
LEMMA AccountedStep == AccountInv /\ [Next]_vars => AccountInv'
<1> SUFFICES ASSUME AccountInv, [Next]_vars PROVE AccountInv'
  OBVIOUS
<1> USE DEF AccountInv, EpochsAccounted, PromotionInv, dbVars, liveVars
<1>1. CASE UNCHANGED <<completed, gaps, liveVars>>
  BY <1>1
<1>2. CASE LiveReads
  BY <1>2 DEF LiveReads, Owed, Pairs, ActiveAt
<1>3. CASE LiveCommits
  BY <1>3 DEF LiveCommits, Higher, NoPromotion, Epochs
<1>4. CASE \E e \in Epochs : RepairSucceeds(e)
  BY <1>4 DEF RepairSucceeds, MarkComplete
<1>5. CASE ScanSucceeds
  BY <1>5 DEF ScanSucceeds, MarkComplete
<1>6. CASE Crash
  BY <1>6 DEF Crash, NoPromotion, Epochs
<1>7. CASE FinalityAdvances
  BY <1>7, <1>1 DEF FinalityAdvances
<1>8. CASE Fails
  BY <1>8, <1>1 DEF Fails, ScanFails, RepairFails
<1>9. CASE Startup \/ RepairBegins \/ RepairEnds \/ HistoryWaits \/ HistoryBegins
  BY <1>9, <1>1 DEF Startup, RepairBegins, RepairEnds, HistoryWaits, HistoryBegins
<1>10. CASE PassBegins \/ SelectEpoch
  BY <1>10, <1>1 DEF PassBegins, SelectEpoch
<1>11. CASE AdvanceWatermark \/ SweepEnds \/ PassEnds
  BY <1>11, <1>1 DEF AdvanceWatermark, SweepEnds, PassEnds
<1>12. CASE UNCHANGED vars
  BY <1>12, <1>1 DEF vars
<1> QED
  BY <1>2, <1>3, <1>4, <1>5, <1>6, <1>7, <1>8, <1>9, <1>10, <1>11, <1>12
     DEF Next, Live, Archive

\* Whatever the archive worker does beside it, and wherever the process stops, every epoch
\* the live worker has accounted for is complete or recorded as a gap.
THEOREM AlwaysAccounted == Spec => []EpochsAccounted
<1>1. AccountInv => EpochsAccounted
  BY DEF AccountInv
<1> QED
  BY <1>1, AccountedInit, AccountedStep, PTL DEF Spec
---------------------------------------------------------------------------
(* Passes of the backfill *)

Passing == pc \in {"pass", "select", "scan", "marked"}

Looking == pc \in {"select", "scan", "marked"}

\* Where the start of a pass owes nothing to what the live worker wrote.
Reliable == sweep \/ mode = "backfill"

Covered(v, e) == Due(v, e) => <<v, e>> \in completed

NumberInv ==
    /\ mode \in {"both", "backfill"}
    /\ target \in Epochs \cup {-1}
    /\ first \in Epochs \cup {-1}
    /\ goal \in Epochs
    /\ sweep \in BOOLEAN /\ full \in BOOLEAN /\ done \in BOOLEAN
    /\ pc # "down" /\ ~done => first \in Epochs
    /\ pc = "history" => ~done
    /\ scanning \subseteq Validators
    /\ Looking /\ Reliable => epoch \in Nat
    /\ mode = "backfill" => watermark \in [Validators -> Int] /\ marks \in [Validators -> Int]

\* Alone, the archive worker has no promotions and its copy of the watermarks is exact.
AloneInv ==
    mode = "backfill" =>
        /\ promotion = NoPromotion
        /\ pc \notin {"loop", "repair", "history"}
        /\ Passing => marks = watermark

\* Nothing is left open behind the epoch of the loop.
BehindInv ==
    Looking /\ Reliable =>
        \A v \in Validators : \A e \in Epochs : e < epoch /\ e <= goal => Covered(v, e)

\* Whoever is not in the scan in progress needs none, and a scan is marked as a whole.
ScanInv ==
    /\ pc \in {"scan", "marked"} /\ Reliable =>
        /\ epoch <= goal
        /\ \A v \in Validators : v \in scanning \/ Covered(v, epoch)
    /\ pc = "marked" => \A v \in scanning : <<v, epoch>> \in completed

\* After the sweep nothing is open up to the target of start-up.
SweptInv ==
    /\ Passing => first <= goal
    /\ Passing /\ full /\ ~sweep =>
        \A v \in Validators : \A e \in Epochs : e <= first => Covered(v, e)

PassInv ==
    /\ NumberInv
    /\ AloneInv
    /\ BehindInv
    /\ ScanInv
    /\ SweptInv
    /\ WatermarkProven
    /\ HistorySwept

\* The start of a validator is a number, and nothing before it is open.
LEMMA StartCovered ==
    ASSUME PassInv, Passing, Reliable, NEW v \in Validators
    PROVE  /\ ComputeStart(v) \in Nat
           /\ \A e \in Epochs : e < ComputeStart(v) => Covered(v, e)
<1>1. /\ Activation[v] \in Int /\ DepthFloor \in Nat /\ LastEpoch \in Nat
      /\ UnsignedActivation(v) \in Nat
      /\ 0 <= Activation[v] => UnsignedActivation(v) = Activation[v]
  BY BackfillAssumption DEF UnsignedActivation
<1>2. CASE sweep
  <2>1. ComputeStart(v) = Higher(UnsignedActivation(v), DepthFloor)
    BY <1>2 DEF ComputeStart
  <2> QED
    BY <1>1, <2>1 DEF Higher, Covered, Due, ActiveAt, Epochs
<1>3. CASE ~sweep
  <2>1. mode = "backfill" /\ marks = watermark /\ marks[v] \in Int
    BY <1>3 DEF Reliable, PassInv, AloneInv, NumberInv
  <2>2. \A e \in Epochs : e <= marks[v] => Covered(v, e)
    BY <2>1 DEF PassInv, WatermarkProven, Covered
  <2>3. CASE marks[v] = -1
    <3>1. ComputeStart(v) = Higher(UnsignedActivation(v), DepthFloor)
      BY <2>3 DEF ComputeStart
    <3> QED
      BY <1>1, <3>1 DEF Higher, Covered, Due, ActiveAt, Epochs
  <2>4. CASE marks[v] # -1
    <3>1. ComputeStart(v) = Higher(Higher(marks[v] + 1, UnsignedActivation(v)), DepthFloor)
      BY <1>3, <2>4 DEF ComputeStart
    <3>2. ComputeStart(v) \in Nat
      BY <1>1, <2>1, <3>1 DEF Higher
    <3>3. ASSUME NEW e \in Epochs, e < ComputeStart(v) PROVE Covered(v, e)
      <4>1. \/ e <= marks[v]
            \/ e < UnsignedActivation(v)
            \/ e < DepthFloor
        BY <1>1, <2>1, <3>1, <3>3 DEF Higher, Epochs
      <4> QED
        BY <1>1, <2>2, <4>1 DEF Covered, Due, ActiveAt, Epochs
    <3> QED
      BY <3>2, <3>3
  <2> QED
    BY <2>3, <2>4
<1> QED
  BY <1>2, <1>3

\* Who is not selected for an epoch of the loop needs no scan of it.
LEMMA SelectionWhole ==
    ASSUME PassInv, Looking, Reliable, epoch \in Epochs, NEW v \in Validators, v \notin ToScan(epoch)
    PROVE  Covered(v, epoch)
<1>1. Passing
  BY DEF Looking, Passing
<1>2. ComputeStart(v) \in Nat /\ (epoch < ComputeStart(v) => Covered(v, epoch))
  BY <1>1, StartCovered
<1>3. CASE epoch < ComputeStart(v)
  BY <1>2, <1>3
<1>4. CASE epoch >= ComputeStart(v)
  BY <1>4 DEF ToScan, Covered, Due
<1> QED
  BY <1>2, <1>3, <1>4 DEF Epochs

LEMMA PassInit == Init => PassInv
<1> SUFFICES ASSUME Init PROVE PassInv
  OBVIOUS
<1> USE DEF Init, PassInv, Passing, Looking
<1>1. NumberInv
  <2>1. 0 \in Epochs
    BY BackfillAssumption DEF Epochs
  <2>2. marks \in [Validators -> Int] /\ watermark \in [Validators -> Int]
    BY DEF Nowhere
  <2> QED
    BY <2>1, <2>2, BackfillAssumption DEF NumberInv
<1>2. AloneInv /\ WatermarkProven
  BY DEF AloneInv, WatermarkProven, Nowhere, Epochs
<1>3. BehindInv /\ ScanInv /\ SweptInv /\ HistorySwept
  BY DEF BehindInv, ScanInv, SweptInv, HistorySwept
<1> QED
  BY <1>1, <1>2, <1>3

\* Steps that leave the archive worker's pass and the tables alone.
LEMMA ElsewhereKeeps ==
    ASSUME PassInv, UNCHANGED <<mode, completed, watermark, promotion, full, first, done, passVars>>,
           target' \in Epochs \cup {-1},
           \/ pc' = pc
           \/ /\ pc # "down" /\ mode = "both"
              /\ pc' \in {"loop", "repair", "history"}
              /\ pc' = "history" => ~done
    PROVE  PassInv'
<1> USE DEF PassInv, passVars, Passing, Looking, Reliable
<1>1. NumberInv'
  BY DEF NumberInv
<1>2. AloneInv' /\ WatermarkProven'
  BY DEF NumberInv, AloneInv, WatermarkProven, Due, ActiveAt
<1>3. BehindInv' /\ ScanInv' /\ SweptInv' /\ HistorySwept'
  BY DEF BehindInv, ScanInv, SweptInv, HistorySwept, Covered, Due, ActiveAt
<1> QED
  BY <1>1, <1>2, <1>3

\* Steps that complete more epochs and leave the pass alone.
LEMMA CompletionKeeps ==
    ASSUME PassInv, completed \subseteq completed',
           UNCHANGED <<target, mode, full, first, done, passVars>>,
           \/ pc' = pc /\ mode = "both"
           \/ /\ UNCHANGED <<watermark, promotion>>
              /\ pc = "scan" /\ pc' = "marked"
              /\ \A v \in scanning : <<v, epoch>> \in completed'
    PROVE  PassInv'
<1> USE DEF PassInv, passVars, Passing, Looking, Reliable
<1>1. NumberInv'
  BY DEF NumberInv
<1>2. AloneInv' /\ WatermarkProven'
  BY DEF NumberInv, AloneInv, WatermarkProven, Due, ActiveAt
<1>3. BehindInv' /\ ScanInv' /\ SweptInv' /\ HistorySwept'
  BY DEF BehindInv, ScanInv, SweptInv, HistorySwept, Covered, Due, ActiveAt
<1> QED
  BY <1>1, <1>2, <1>3

LEMMA LivePass == ASSUME PassInv, Live PROVE PassInv'
<1>1. mode = "both"
  BY DEF Live, LiveReads, LiveCommits, PassInv, NumberInv, AloneInv
<1>2. completed \subseteq completed' /\ UNCHANGED <<target, mode, pc, full, first, done, passVars>>
  BY DEF Live, LiveReads, LiveCommits, dbVars, taskVars
<1> QED
  BY <1>1, <1>2, CompletionKeeps

LEMMA CrashPass == ASSUME PassInv, Crash PROVE PassInv'
<1> USE DEF Crash, PassInv, Passing, Looking, dbVars
<1>1. NumberInv'
  <2>1. 0 \in Epochs /\ Epochs' = Epochs
    BY BackfillAssumption DEF Epochs
  <2>2. marks' \in [Validators -> Int]
    BY DEF Nowhere
  <2> QED
    BY <2>1, <2>2 DEF NumberInv
<1>2. AloneInv' /\ WatermarkProven'
  BY DEF NumberInv, AloneInv, WatermarkProven, Due, ActiveAt
<1>3. BehindInv' /\ ScanInv' /\ SweptInv' /\ HistorySwept'
  BY DEF BehindInv, ScanInv, SweptInv, HistorySwept
<1> QED
  BY <1>1, <1>2, <1>3

LEMMA StartupPass == ASSUME PassInv, Startup PROVE PassInv'
<1> USE DEF PassInv, Startup, dbVars, liveVars, passVars
<1>1. NumberInv'
  BY BackfillAssumption DEF NumberInv, Looking, Epochs
<1>2. AloneInv' /\ WatermarkProven'
  BY BackfillAssumption DEF NumberInv, AloneInv, WatermarkProven, Due, ActiveAt, Passing
<1>3. BehindInv' /\ ScanInv'
  BY DEF BehindInv, ScanInv, Looking
<1>4. SweptInv'
  <2>1. CASE pc' # "pass"
    BY <2>1 DEF SweptInv, Passing
  <2>2. CASE pc' = "pass"
    <3>1. sweep' = full' /\ goal' = target /\ first' = target
      BY <2>2
    <3> QED
      BY <2>2, <3>1 DEF SweptInv, NumberInv, Epochs
  <2> QED
    BY <2>1, <2>2
<1>5. HistorySwept'
  <2>1. first' = target /\ (done' <=> target = -1)
    OBVIOUS
  <2>2. ASSUME done' PROVE \A e \in Epochs : ~(e <= first')
    BY <2>1, <2>2 DEF Epochs
  <2> QED
    BY <2>2 DEF HistorySwept
<1> QED
  BY <1>1, <1>2, <1>3, <1>4, <1>5

LEMMA HistoryBeginsPass == ASSUME PassInv, HistoryBegins PROVE PassInv'
<1> USE DEF PassInv, HistoryBegins, dbVars, liveVars, taskVars
<1>1. mode = "both"
  BY DEF AloneInv, NumberInv
<1>2. AloneInv' /\ WatermarkProven'
  BY <1>1 DEF AloneInv, WatermarkProven
<1>3. BehindInv' /\ ScanInv' /\ HistorySwept'
  BY DEF BehindInv, ScanInv, Looking, HistorySwept, Due, ActiveAt
<1>4. NumberInv' /\ SweptInv'
  BY <1>1 DEF NumberInv, SweptInv, Passing, Looking, Epochs
<1> QED
  BY <1>2, <1>3, <1>4

LEMMA PassBeginsPass == ASSUME PassInv, PassBegins PROVE PassInv'
<1> USE DEF PassInv, PassBegins, dbVars, liveVars
<1>0. Passing /\ pc = "pass"
  BY DEF Passing
<1>1. \A v \in Validators : Reliable =>
          /\ ComputeStart(v) \in Nat
          /\ \A e \in Epochs : e < ComputeStart(v) => Covered(v, e)
  BY <1>0, StartCovered
<1>2. CASE \A v \in Validators : ComputeStart(v) > goal
  <2> USE <1>2 DEF Finish
  <2>0. /\ pc' \in {"loop", "exited"} /\ (pc' = "loop" <=> mode = "both")
        /\ done' = TRUE
        /\ UNCHANGED <<mode, completed, watermark, promotion, target, full, first, marks, sweep, goal, epoch,
                      scanning>>
    BY DEF NumberInv
  <2>1. NumberInv'
    BY <2>0 DEF NumberInv, Looking, Reliable
  <2>2. AloneInv' /\ WatermarkProven'
    BY <2>0, BackfillAssumption DEF NumberInv, AloneInv, WatermarkProven, Due, ActiveAt, Passing
  <2>3. BehindInv' /\ ScanInv' /\ SweptInv'
    BY <2>0 DEF BehindInv, ScanInv, SweptInv, Passing, Looking
  <2>4. ASSUME full PROVE \A v \in Validators : \A e \in Epochs : e <= first => Covered(v, e)
    <3>1. CASE sweep
      <4> SUFFICES ASSUME NEW v \in Validators, NEW e \in Epochs, e <= first PROVE Covered(v, e)
        OBVIOUS
      <4>1. e < ComputeStart(v)
        <5>1. ComputeStart(v) \in Nat /\ ComputeStart(v) > goal
          BY <1>1, <1>2, <3>1 DEF Reliable
        <5>2. e <= goal
          BY <1>0 DEF SweptInv, NumberInv, Epochs
        <5> QED
          BY <5>1, <5>2 DEF NumberInv, Epochs
      <4> QED
        BY <1>1, <3>1, <4>1 DEF Reliable
    <3>2. CASE ~sweep
      BY <1>0, <2>4, <3>2 DEF SweptInv
    <3> QED
      BY <3>1, <3>2
  <2>5. HistorySwept'
    BY <2>0, <2>4 DEF HistorySwept, Covered, Due, ActiveAt
  <2> QED
    BY <2>1, <2>2, <2>3, <2>5
<1>3. CASE ~\A v \in Validators : ComputeStart(v) > goal
  <2>0. /\ pc' = "select"
        /\ UNCHANGED <<mode, completed, watermark, promotion, target, full, first, done, marks, sweep, goal,
                      scanning>>
    BY <1>3
  <2>1. PICK v0 \in Validators :
             (\A u \in Validators : ComputeStart(v0) <= ComputeStart(u)) /\ epoch' = ComputeStart(v0)
    BY <1>3
  <2>2. NumberInv'
    BY <1>1, <2>0, <2>1 DEF NumberInv, Looking, Reliable
  <2>3. AloneInv' /\ WatermarkProven'
    BY <1>0, <2>0 DEF NumberInv, AloneInv, WatermarkProven, Due, ActiveAt, Passing
  <2>4. ScanInv' /\ SweptInv' /\ HistorySwept'
    BY <1>0, <2>0 DEF ScanInv, SweptInv, HistorySwept, Passing, Covered, Due, ActiveAt
  <2>5. BehindInv'
    <3>1. ASSUME Reliable, NEW v \in Validators, NEW e \in Epochs, e < epoch' PROVE Covered(v, e)
      <4>1. e < ComputeStart(v)
        BY <1>1, <2>1, <3>1 DEF Epochs
      <4> QED
        BY <1>1, <3>1, <4>1
    <3> QED
      BY <2>0, <3>1 DEF BehindInv, Reliable, Covered, Due, ActiveAt
  <2> QED
    BY <2>2, <2>3, <2>4, <2>5
<1> QED
  BY <1>2, <1>3

LEMMA SelectEpochPass == ASSUME PassInv, SelectEpoch PROVE PassInv'
<1> USE DEF PassInv, SelectEpoch, dbVars, liveVars, taskVars
<1>0. Passing /\ Looking /\ pc = "select" /\ epoch <= goal
  BY DEF Passing, Looking
<1>1. Reliable => epoch \in Epochs
  BY <1>0, BackfillAssumption DEF NumberInv, Epochs
<1>2. \A v \in Validators : Reliable => v \in ToScan(epoch) \/ Covered(v, epoch)
  BY <1>0, <1>1, SelectionWhole
<1>3. UNCHANGED <<mode, completed, watermark, promotion, target, full, first, done, marks, sweep, goal>>
  OBVIOUS
<1>4. pc' \in {"select", "scan"}
  OBVIOUS
<1>5. AloneInv' /\ WatermarkProven'
  BY <1>0, <1>3, <1>4 DEF NumberInv, AloneInv, WatermarkProven, Due, ActiveAt, Passing
<1>6. SweptInv' /\ HistorySwept'
  BY <1>0, <1>3, <1>4 DEF SweptInv, HistorySwept, Passing, Covered, Due, ActiveAt
<1>7. CASE ToScan(epoch) = {}
  <2>0. epoch' = epoch + 1 /\ UNCHANGED <<pc, scanning>>
    BY <1>7
  <2>1. NumberInv' /\ ScanInv'
    BY <1>0, <1>3, <2>0 DEF NumberInv, ScanInv, Looking, Reliable
  <2>2. ASSUME Reliable, NEW v \in Validators, NEW e \in Epochs, e < epoch + 1, e <= goal
        PROVE  Covered(v, e)
    <3>1. e < epoch \/ e = epoch
      BY <1>1, <2>2 DEF Epochs
    <3> QED
      BY <1>0, <1>2, <1>7, <2>2, <3>1 DEF BehindInv
  <2>3. BehindInv'
    BY <1>3, <2>0, <2>2 DEF BehindInv, Reliable, Covered, Due, ActiveAt
  <2> QED
    BY <1>5, <1>6, <2>1, <2>3
<1>8. CASE ToScan(epoch) # {}
  <2>0. scanning' = ToScan(epoch) /\ pc' = "scan" /\ UNCHANGED epoch
    BY <1>8
  <2>1. NumberInv'
    BY <1>0, <1>3, <2>0 DEF NumberInv, Looking, Reliable, ToScan, ActiveAt
  <2>2. ScanInv'
    BY <1>0, <1>2, <1>3, <2>0 DEF ScanInv, Reliable, Covered, Due, ActiveAt
  <2>3. BehindInv'
    BY <1>0, <1>3, <2>0 DEF BehindInv, Reliable, Looking, Covered, Due, ActiveAt
  <2> QED
    BY <1>5, <1>6, <2>1, <2>2, <2>3
<1> QED
  BY <1>7, <1>8

LEMMA ScanFailsPass == ASSUME PassInv, ScanFails PROVE PassInv'
<1> USE DEF PassInv, ScanFails, dbVars, liveVars, taskVars
<1>0. pc' \in {"loop", "exited"} /\ (pc' = "loop" <=> mode = "both") /\ pc # "down"
  BY DEF NumberInv
<1>1. NumberInv'
  BY <1>0 DEF NumberInv, Looking
<1>2. AloneInv' /\ WatermarkProven'
  BY <1>0, BackfillAssumption DEF NumberInv, AloneInv, WatermarkProven, Due, ActiveAt, Passing
<1>3. BehindInv' /\ ScanInv' /\ SweptInv' /\ HistorySwept'
  BY <1>0 DEF BehindInv, ScanInv, SweptInv, HistorySwept, Passing, Looking, Due, ActiveAt
<1> QED
  BY <1>1, <1>2, <1>3

LEMMA AdvancePass == ASSUME PassInv, AdvanceWatermark PROVE PassInv'
<1> USE DEF PassInv, AdvanceWatermark, liveVars, taskVars
<1>0. /\ Passing /\ Looking /\ pc = "marked" /\ pc' = "select"
      /\ UNCHANGED <<target, mode, completed, promotion, full, first, done, sweep, goal>>
      /\ epoch' = epoch + 1 /\ scanning' = {}
      /\ watermark' = Advance(watermark, scanning, epoch)
      /\ marks' = Advance(marks, scanning, epoch)
  BY DEF Passing, Looking
<1>1. Reliable => epoch \in Epochs /\ epoch <= goal
  BY <1>0, BackfillAssumption DEF NumberInv, ScanInv, Epochs
<1>2. ASSUME Reliable, NEW v \in Validators, NEW e \in Epochs, e < epoch + 1 PROVE Covered(v, e)
  <2>1. CASE e < epoch
    <3>1. e <= goal
      BY <1>1, <1>2, <2>1 DEF NumberInv, Epochs
    <3> QED
      BY <1>0, <1>2, <2>1, <3>1 DEF BehindInv
  <2>2. CASE e = epoch
    BY <1>0, <1>2, <2>2 DEF ScanInv, Covered
  <2> QED
    BY <1>1, <1>2, <2>1, <2>2 DEF Epochs
<1>3. NumberInv'
  BY <1>0, <1>1 DEF NumberInv, Looking, Reliable, Advance, Higher, Epochs
<1>4. AloneInv'
  BY <1>0 DEF AloneInv, Passing
<1>5. BehindInv' /\ ScanInv'
  BY <1>0, <1>2 DEF BehindInv, ScanInv, Reliable, Covered, Due, ActiveAt
<1>6. SweptInv' /\ HistorySwept'
  BY <1>0 DEF SweptInv, HistorySwept, Passing, Covered, Due, ActiveAt
<1>7. WatermarkProven'
  <2> SUFFICES ASSUME mode = "backfill", NEW v \in Validators, NEW e \in Epochs, e <= watermark'[v]
               PROVE  Covered(v, e)
    BY <1>0 DEF WatermarkProven, Covered, Due, ActiveAt
  <2>1. e <= watermark[v] \/ e <= epoch
    BY <1>0 DEF Advance, Higher
  <2>2. CASE e <= watermark[v]
    BY <2>2 DEF WatermarkProven, Covered
  <2>3. CASE e <= epoch
    BY <1>1, <1>2, <2>3 DEF Reliable, Epochs
  <2> QED
    BY <2>1, <2>2, <2>3
<1> QED
  BY <1>3, <1>4, <1>5, <1>6, <1>7

LEMMA SweepEndsPass == ASSUME PassInv, SweepEnds PROVE PassInv'
<1> USE DEF PassInv, SweepEnds, liveVars, taskVars
<1>0. /\ Passing /\ Looking /\ Reliable /\ pc = "select" /\ pc' = "pass" /\ ~sweep' /\ sweep' \in BOOLEAN
      /\ UNCHANGED <<target, mode, completed, promotion, full, first, done, goal, epoch, scanning>>
      /\ epoch > goal
      /\ watermark' = Advance(watermark, ActiveAt(goal), goal)
      /\ marks' = Advance(marks, ActiveAt(goal), goal)
  BY DEF Passing, Looking, Reliable
<1>1. ASSUME NEW v \in Validators, NEW e \in Epochs, e <= goal PROVE Covered(v, e)
  <2>1. e < epoch
    BY <1>0, <1>1 DEF NumberInv, Epochs
  <2> QED
    BY <1>0, <1>1, <2>1 DEF BehindInv
<1>2. NumberInv'
  BY <1>0 DEF NumberInv, Looking, Advance, Higher, Epochs
<1>3. AloneInv'
  BY <1>0 DEF AloneInv, Passing
<1>4. BehindInv' /\ ScanInv' /\ HistorySwept'
  BY <1>0 DEF BehindInv, ScanInv, HistorySwept, Looking, Due, ActiveAt
<1>5. SweptInv'
  <2>1. first <= goal
    BY <1>0 DEF SweptInv
  <2>2. ASSUME NEW v \in Validators, NEW e \in Epochs, e <= first PROVE Covered(v, e)
    <3>1. e <= goal
      BY <2>1, <2>2 DEF NumberInv, Epochs
    <3> QED
      BY <1>1, <3>1
  <2> QED
    BY <1>0, <2>1, <2>2 DEF SweptInv, Covered, Due, ActiveAt
<1>6. WatermarkProven'
  <2> SUFFICES ASSUME mode = "backfill", NEW v \in Validators, NEW e \in Epochs, e <= watermark'[v]
               PROVE  Covered(v, e)
    BY <1>0 DEF WatermarkProven, Covered, Due, ActiveAt
  <2>1. e <= watermark[v] \/ e <= goal
    BY <1>0 DEF Advance, Higher
  <2> QED
    BY <1>1, <2>1 DEF WatermarkProven, Covered
<1> QED
  BY <1>2, <1>3, <1>4, <1>5, <1>6

LEMMA PassEndsPass == ASSUME PassInv, PassEnds PROVE PassInv'
<1> USE DEF PassInv, PassEnds, dbVars, liveVars
<1>0. /\ Passing /\ ~sweep /\ pc = "select"
      /\ UNCHANGED <<mode, completed, watermark, promotion, target, full, first, marks, sweep, epoch, scanning>>
  BY DEF Passing, Finish
<1>1. CASE mode = "backfill" /\ target > goal
  <2>0. goal' = target /\ pc' = "pass" /\ UNCHANGED done
    BY <1>1
  <2>1. NumberInv'
    BY <1>0, <1>1, <2>0 DEF NumberInv, Looking, Epochs
  <2>2. AloneInv' /\ WatermarkProven'
    BY <1>0, <2>0 DEF NumberInv, AloneInv, WatermarkProven, Due, ActiveAt, Passing
  <2>3. BehindInv' /\ ScanInv' /\ HistorySwept'
    BY <1>0, <2>0 DEF BehindInv, ScanInv, HistorySwept, Looking, Due, ActiveAt
  <2>4. first <= goal'
    BY <1>0, <1>1, <2>0 DEF SweptInv, NumberInv, Epochs
  <2>5. SweptInv'
    BY <1>0, <2>0, <2>4 DEF SweptInv, Passing, Covered, Due, ActiveAt
  <2> QED
    BY <2>1, <2>2, <2>3, <2>5
<1>2. CASE ~(mode = "backfill" /\ target > goal)
  <2>0. /\ pc' \in {"loop", "exited"} /\ (pc' = "loop" <=> mode = "both")
        /\ done' = TRUE /\ UNCHANGED goal
    BY <1>2 DEF Finish, NumberInv
  <2>1. NumberInv'
    BY <1>0, <2>0 DEF NumberInv, Looking
  <2>2. AloneInv' /\ WatermarkProven'
    BY <1>0, <2>0, BackfillAssumption DEF NumberInv, AloneInv, WatermarkProven, Due, ActiveAt, Passing
  <2>3. BehindInv' /\ ScanInv' /\ SweptInv'
    BY <2>0 DEF BehindInv, ScanInv, SweptInv, Passing, Looking
  <2>4. HistorySwept'
    BY <1>0, <2>0 DEF HistorySwept, SweptInv, Covered, Due, ActiveAt
  <2> QED
    BY <2>1, <2>2, <2>3, <2>4
<1> QED
  BY <1>1, <1>2

\* Every step of the two workers, of the node and a crash keep the invariant of the passes.
LEMMA PassStep == ASSUME PassInv, [Next]_vars PROVE PassInv'
<1> USE DEF dbVars, liveVars, taskVars
<1>1. CASE Live
  BY <1>1, LivePass
<1>2. CASE Crash
  BY <1>2, CrashPass
<1>3. CASE Startup
  BY <1>3, StartupPass
<1>4. CASE HistoryBegins
  BY <1>4, HistoryBeginsPass
<1>5. CASE PassBegins
  BY <1>5, PassBeginsPass
<1>6. CASE SelectEpoch
  BY <1>6, SelectEpochPass
<1>7. CASE ScanFails
  BY <1>7, ScanFailsPass
<1>8. CASE AdvanceWatermark
  BY <1>8, AdvancePass
<1>9. CASE SweepEnds
  BY <1>9, SweepEndsPass
<1>10. CASE PassEnds
  BY <1>10, PassEndsPass
<1>11. CASE ScanSucceeds
  <2>1. /\ completed \subseteq completed' /\ pc = "scan" /\ pc' = "marked"
        /\ \A v \in scanning : <<v, epoch>> \in completed'
        /\ UNCHANGED <<target, mode, watermark, promotion, full, first, done, passVars>>
    BY <1>11 DEF ScanSucceeds, MarkComplete
  <2> QED
    BY <2>1, CompletionKeeps
<1>12. CASE \E e \in Epochs : RepairSucceeds(e)
  <2>1. /\ completed \subseteq completed' /\ pc = "repair"
        /\ UNCHANGED <<target, mode, pc, full, first, done, passVars>>
    BY <1>12 DEF RepairSucceeds, MarkComplete
  <2>2. mode = "both"
    BY <2>1 DEF PassInv, NumberInv, AloneInv
  <2> QED
    BY <2>1, <2>2, CompletionKeeps
<1>13. CASE FinalityAdvances
  <2>1. target' \in Epochs \cup {-1} /\ UNCHANGED <<mode, dbVars, liveVars, pc, taskVars, passVars>>
    BY <1>13, BackfillAssumption DEF FinalityAdvances, PassInv, NumberInv, Epochs
  <2> QED
    BY <2>1, ElsewhereKeeps
<1>14. CASE RepairBegins \/ RepairEnds \/ HistoryWaits \/ \E e \in Epochs : RepairFails(e)
  <2>1. /\ pc \in {"loop", "repair", "history"} /\ pc' \in {"loop", "repair", "history"}
        /\ pc' = "history" => ~done
        /\ UNCHANGED <<target, mode, completed, watermark, promotion, full, first, done, passVars>>
    BY <1>14 DEF RepairBegins, RepairEnds, HistoryWaits, RepairFails
  <2>2. mode = "both"
    BY <2>1 DEF PassInv, NumberInv, AloneInv
  <2>3. target' \in Epochs \cup {-1}
    BY <2>1 DEF PassInv, NumberInv
  <2> QED
    BY <2>1, <2>2, <2>3, ElsewhereKeeps
<1>15. CASE UNCHANGED vars
  BY <1>15, ElsewhereKeeps DEF vars, PassInv, NumberInv
<1> QED
  BY <1>1, <1>2, <1>3, <1>4, <1>5, <1>6, <1>7, <1>8, <1>9, <1>10, <1>11, <1>12, <1>13, <1>14, <1>15
     DEF Next, Archive, Fails

LEMMA PassAlways == Spec => []PassInv
BY PassInit, PassStep, PTL DEF Spec

\* Alone, the archive worker's watermarks are proofs of completion, over all crashes, failures,
\* restarts with or without a sweep and extensions of the target.
THEOREM WatermarkAlwaysProven == Spec => []WatermarkProven
<1>1. PassInv => WatermarkProven
  BY DEF PassInv
<1> QED
  BY <1>1, PassAlways, PTL

\* A sweep that ended has no holes, although the live worker moves the watermarks meanwhile.
THEOREM SweepAlwaysWhole == Spec => []HistorySwept
<1>1. PassInv => HistorySwept
  BY DEF PassInv
<1> QED
  BY <1>1, PassAlways, PTL
---------------------------------------------------------------------------
(* Types *)

\* The epoch being scanned is one of the pass: the loop stops at its goal.
TypeInv ==
    /\ TypeOK
    /\ pc \in {"scan", "marked"} => epoch <= goal

\* A set of epochs that is not empty has a greatest one.
LEMMA NewestEpoch ==
    ASSUME NEW E \in SUBSET Epochs, E # {}
    PROVE  \E e \in E : \A f \in E : f <= e
<1> DEFINE R == {p \in Nat \X Nat : p[1] < p[2]}
<1> DEFINE Below == {LastEpoch - e : e \in E}
<1>1. LastEpoch \in Nat /\ \A e \in E : e \in Nat /\ e <= LastEpoch
  BY BackfillAssumption DEF Epochs
<1>2. IsWellFoundedOn(R, Nat)
  BY NatLessThanWellFounded DEF OpToRel
<1>3. Below \subseteq Nat /\ Below # {}
  BY <1>1
<1>4. PICK x \in Below : \A y \in Below : <<y, x>> \notin R
  <2> HIDE DEF R, Below
  <2> QED
    BY <1>2, <1>3, WFMin
<1>5. PICK e \in E : x = LastEpoch - e
  OBVIOUS
<1>6. \A f \in E : ~(LastEpoch - f < LastEpoch - e)
  BY <1>1, <1>3, <1>4, <1>5
<1> QED
  BY <1>1, <1>6

\* The greater of two epochs is one of them.
LEMMA HigherType ==
    ASSUME NEW S, NEW a \in S, NEW b \in S
    PROVE  Higher(a, b) \in S
BY DEF Higher

LEMMA AdvanceType ==
    ASSUME NEW w \in Marks, NEW set, NEW e \in Epochs
    PROVE  Advance(w, set, e) \in Marks
BY HigherType DEF Advance, Marks

\* The start of a validator is a number, whatever the watermarks say.
LEMMA StartType ==
    ASSUME TypeOK, NEW v \in Validators
    PROVE  ComputeStart(v) \in Nat
<1>1. /\ Activation[v] \in Int /\ DepthFloor \in Nat
      /\ UnsignedActivation(v) \in Nat
      /\ marks[v] + 1 \in Nat
  BY BackfillAssumption DEF UnsignedActivation, TypeOK, Marks, Epochs
<1>2. Higher(marks[v] + 1, UnsignedActivation(v)) \in Nat
  BY <1>1, HigherType
<1> QED
  BY <1>1, <1>2, HigherType DEF ComputeStart

LEMMA TypeInit == Init => TypeInv
<1> SUFFICES ASSUME Init PROVE TypeInv
  OBVIOUS
<1>1. 0 \in Epochs /\ Nowhere \in Marks
  BY BackfillAssumption DEF Epochs, Nowhere, Marks
<1> QED
  BY <1>1 DEF Init, TypeInv, TypeOK, NoPromotion

\* The live worker's commit moves a watermark to the newest epoch it completes.
LEMMA LiveCommitsType == ASSUME TypeInv, LiveCommits PROVE TypeInv'
<1> USE DEF TypeInv, TypeOK, LiveCommits, taskVars, passVars
<1>1. promotion.ready \subseteq Pairs /\ promotion.missing \subseteq Pairs
      /\ promotion.target \in Epochs \cup {-1}
  OBVIOUS
<1>2. watermark' \in Marks
  <2> SUFFICES ASSUME NEW v \in Validators, \E p \in promotion.ready : p[1] = v
               PROVE  Higher(watermark[v],
                          CHOOSE e \in EpochsOf({p \in promotion.ready : p[1] = v}) :
                              \A p \in promotion.ready : p[1] = v => p[2] <= e)
                      \in Epochs \cup {-1}
    BY DEF Marks
  <2> DEFINE E == EpochsOf({p \in promotion.ready : p[1] = v})
  <2>1. E \subseteq Epochs /\ E # {}
    BY <1>1 DEF EpochsOf, Pairs
  <2>2. \A p \in promotion.ready : p[1] = v => p[2] \in E
    BY DEF EpochsOf
  <2>3. \E e \in E : \A f \in E : f <= e
    <3> HIDE DEF E
    <3> QED
      BY <2>1, NewestEpoch
  <2>4. (CHOOSE e \in E : \A p \in promotion.ready : p[1] = v => p[2] <= e) \in Epochs
    <3> HIDE DEF E
    <3> QED
      BY <2>1, <2>2, <2>3
  <2>5. watermark[v] \in Epochs \cup {-1}
    BY DEF Marks
  <2> DEFINE newest == CHOOSE e \in E : \A p \in promotion.ready : p[1] = v => p[2] <= e
  <2>6. newest \in Epochs \cup {-1}
    BY <2>4
  <2>7. Higher(watermark[v], newest) \in Epochs \cup {-1}
    <3> HIDE DEF newest, E
    <3> QED
      BY <2>5, <2>6, HigherType
  <2> QED
    BY <2>7
<1>3. promotion' \in [ready : SUBSET Pairs, missing : SUBSET Pairs, target : Epochs \cup {-1}]
  BY DEF NoPromotion
<1>4. accounted' \in Epochs \cup {-1}
  BY <1>1, HigherType
<1> QED
  BY <1>1, <1>2, <1>3, <1>4

LEMMA LiveReadsType == ASSUME TypeInv, LiveReads PROVE TypeInv'
<1> USE DEF TypeInv, TypeOK, LiveReads, dbVars, taskVars, passVars
<1>1. promotion' \in [ready : SUBSET Pairs, missing : SUBSET Pairs, target : Epochs \cup {-1}]
  BY DEF Owed
<1> QED
  BY <1>1

LEMMA StartupType == ASSUME TypeInv, Startup PROVE TypeInv'
BY BackfillAssumption DEF TypeInv, TypeOK, Startup, dbVars, liveVars, passVars

\* A repair pass only takes up and completes epochs of the gap table.
LEMMA RepairType ==
    ASSUME TypeInv,
           \/ RepairBegins \/ RepairEnds
           \/ \E e \in Epochs : RepairSucceeds(e) \/ RepairFails(e)
    PROVE  TypeInv'
<1> USE DEF TypeInv, TypeOK, dbVars, liveVars, taskVars, passVars
<1>1. CASE RepairBegins
  BY <1>1 DEF RepairBegins, NewestOf
<1>2. CASE RepairEnds
  BY <1>2 DEF RepairEnds
<1>3. ASSUME NEW e \in Epochs, RepairFails(e) PROVE TypeInv'
  BY <1>3 DEF RepairFails
<1>4. ASSUME NEW e \in Epochs, RepairSucceeds(e) PROVE TypeInv'
  <2>1. RepairSet(e) \X {e} \subseteq Pairs
    BY DEF RepairSet, Pairs
  <2>2. completed' \subseteq Pairs /\ gaps' \subseteq Pairs
    BY <1>4, <2>1 DEF RepairSucceeds, MarkComplete
  <2> QED
    BY <1>4, <2>2 DEF RepairSucceeds
<1> QED
  BY <1>1, <1>2, <1>3, <1>4

\* An attempt has a target: without one there was nothing to do from the start.
LEMMA HistoryType ==
    ASSUME TypeInv, PassInv, HistoryWaits \/ HistoryBegins
    PROVE  TypeInv'
<1> USE DEF TypeInv, TypeOK, dbVars, liveVars, taskVars, passVars
<1>1. CASE HistoryWaits
  BY <1>1 DEF HistoryWaits
<1>2. CASE HistoryBegins
  <2>1. first \in Epochs
    BY <1>2 DEF HistoryBegins, PassInv, NumberInv
  <2> QED
    BY <1>2, <2>1 DEF HistoryBegins
<1> QED
  BY <1>1, <1>2

LEMMA PassHeadType ==
    ASSUME TypeInv, PassBegins \/ SelectEpoch \/ PassEnds
    PROVE  TypeInv'
<1> USE DEF TypeInv, TypeOK, dbVars, liveVars, taskVars
<1>1. CASE PassBegins
  <2>1. CASE \A v \in Validators : ComputeStart(v) > goal
    BY <1>1, <2>1 DEF PassBegins, Finish
  <2>2. CASE ~\A v \in Validators : ComputeStart(v) > goal
    <3>1. epoch' \in Nat
      BY <1>1, <2>2, StartType DEF PassBegins
    <3> QED
      BY <1>1, <2>2, <3>1 DEF PassBegins
  <2> QED
    BY <2>1, <2>2
<1>2. CASE SelectEpoch
  <2>1. ToScan(epoch) \subseteq Validators
    BY DEF ToScan, ActiveAt
  <2> QED
    BY <1>2, <2>1 DEF SelectEpoch
<1>3. CASE PassEnds
  <2>1. CASE mode = "backfill" /\ target > goal
    <3>1. target \in Epochs
      BY <2>1 DEF Epochs
    <3> QED
      BY <1>3, <2>1, <3>1 DEF PassEnds
  <2>2. CASE ~(mode = "backfill" /\ target > goal)
    BY <1>3, <2>2 DEF PassEnds, Finish
  <2> QED
    BY <2>1, <2>2
<1> QED
  BY <1>1, <1>2, <1>3

LEMMA ScanType ==
    ASSUME TypeInv, ScanFails \/ ScanSucceeds \/ AdvanceWatermark
    PROVE  TypeInv'
<1> USE DEF TypeInv, TypeOK, dbVars, liveVars, taskVars, passVars
<1>1. pc \in {"scan", "marked"} => epoch \in Epochs
  BY BackfillAssumption DEF Epochs
<1>2. CASE ScanFails
  BY <1>2 DEF ScanFails
<1>3. CASE ScanSucceeds
  <2>1. scanning \X {epoch} \subseteq Pairs
    BY <1>1, <1>3 DEF ScanSucceeds, Pairs
  <2>2. completed' \subseteq Pairs /\ gaps' \subseteq Pairs
    BY <1>3, <2>1 DEF ScanSucceeds, MarkComplete
  <2> QED
    BY <1>3, <2>2 DEF ScanSucceeds
<1>4. CASE AdvanceWatermark
  <2>1. watermark' \in Marks /\ marks' \in Marks
    BY <1>1, <1>4, AdvanceType DEF AdvanceWatermark
  <2> QED
    BY <1>4, <2>1 DEF AdvanceWatermark
<1> QED
  BY <1>2, <1>3, <1>4

LEMMA SweepEndsType == ASSUME TypeInv, SweepEnds PROVE TypeInv'
<1>1. watermark' \in Marks /\ marks' \in Marks
  BY AdvanceType DEF SweepEnds, TypeInv, TypeOK
<1> QED
  BY <1>1 DEF SweepEnds, TypeInv, TypeOK, liveVars, taskVars

LEMMA CrashType == ASSUME TypeInv, Crash PROVE TypeInv'
<1>1. 0 \in Epochs /\ Nowhere \in Marks
  BY BackfillAssumption DEF Epochs, Nowhere, Marks
<1> QED
  BY <1>1 DEF Crash, TypeInv, TypeOK, NoPromotion, dbVars

LEMMA FinalityType == ASSUME TypeInv, FinalityAdvances PROVE TypeInv'
BY BackfillAssumption DEF FinalityAdvances, TypeInv, TypeOK, Epochs, dbVars, liveVars, taskVars, passVars

LEMMA TypeStep == ASSUME TypeInv, PassInv, [Next]_vars PROVE TypeInv'
<1>1. CASE UNCHANGED vars
  BY <1>1 DEF TypeInv, TypeOK, vars, dbVars, liveVars, taskVars, passVars
<1>2. CASE FinalityAdvances \/ Crash
  BY <1>2, FinalityType, CrashType
<1>3. CASE Live
  BY <1>3, LiveReadsType, LiveCommitsType DEF Live
<1>4. CASE Archive
  BY <1>4, StartupType, RepairType, HistoryType, PassHeadType, ScanType, SweepEndsType
     DEF Archive, Fails
<1> QED
  BY <1>1, <1>2, <1>3, <1>4 DEF Next

\* No watermark, gap or completed epoch lies outside the epochs the chain has finalized or the
\* tracking has seen, and every target a pass is given exists: an attempt of the history
\* never starts without the finality target of start-up.
THEOREM TypeCorrect == Spec => []TypeOK
<1>1. TypeInv => TypeOK
  BY DEF TypeInv
<1> QED
  BY <1>1, TypeInit, TypeStep, PassAlways, PTL DEF Spec

---------------------------------------------------------------------------
(* The promises of the tables, and the clock of the retries *)

LEMMA LiveSettles ==
    ASSUME TypeInv, LiveCommits
    PROVE  Ledger!Settle
  <1> DEFINE lost == promotion.missing
  <1>1. promotion.ready \in SUBSET Pairs /\ lost \in SUBSET Pairs
    BY DEF TypeInv, TypeOK
  <1>2. completed' = completed \cup promotion.ready
    BY DEF LiveCommits
  <1>3. gaps' \ completed' = ((gaps \ completed) \cup lost) \ completed'
    BY <1>2 DEF LiveCommits
  <1>4. {} \subseteq {}'
    OBVIOUS
  <1> HIDE DEF lost
  <1> QED
    BY <1>1, <1>2, <1>3, <1>4 DEF Ledger!Settle

LEMMA CompletionSettles ==
    ASSUME NEW set \in SUBSET Validators, NEW e \in Epochs, MarkComplete(set, e)
    PROVE  Ledger!Settle
  <1> DEFINE S == set \X {e}
  <1>1. S \in SUBSET Pairs
    BY DEF Pairs
  <1>2. completed' = completed \cup S /\ gaps' = gaps \ S
    BY DEF MarkComplete
  <1>3. gaps' \ completed' = ((gaps \ completed) \cup {}) \ completed'
    BY <1>2
  <1> HIDE DEF S
  <1> QED
    BY <1>1, <1>2, <1>3 DEF Ledger!Settle

\* The two workers together keep the promises of EpochLedger: whatever each of them read
\* before the other committed (finalization.rs:303, completion.rs:5), an epoch stays
\* complete and a gap is forgotten only with the completion of its epoch.
THEOREM LedgerRefinement == Spec => LedgerKept
  <1>1. Init => Ledger!Init
    BY DEF Init, Ledger!Init
  <1>2. TypeInv /\ PassInv /\ [Next]_vars => [Ledger!Settle]_Ledger!ledger
    <2> SUFFICES ASSUME TypeInv, PassInv, [Next]_vars
                 PROVE  Ledger!Settle \/ UNCHANGED <<completed, gaps>>
      BY DEF Ledger!ledger
    <2>1. CASE LiveCommits
      BY <2>1, LiveSettles
    <2>2. ASSUME NEW e \in Epochs, RepairSucceeds(e)
          PROVE  Ledger!Settle
      <3>1. RepairSet(e) \in SUBSET Validators
        BY DEF RepairSet, TypeInv, TypeOK, Pairs
      <3> QED
        BY <2>2, <3>1, CompletionSettles DEF RepairSucceeds
    <2>3. CASE ScanSucceeds
      <3>1. scanning \in SUBSET Validators /\ epoch \in Epochs
        <4>1. pc = "scan"
          BY <2>3 DEF ScanSucceeds
        <4>2. epoch \in Nat /\ goal \in Epochs /\ scanning \subseteq Validators
          BY DEF TypeInv, TypeOK
        <4>3. epoch <= goal
          BY <4>1 DEF TypeInv
        <4> QED
          BY <4>2, <4>3, BackfillAssumption DEF Epochs
      <3> QED
        BY <2>3, <3>1, CompletionSettles DEF ScanSucceeds
    <2>4. CASE UNCHANGED vars
      BY <2>4 DEF vars, dbVars
    <2>5. CASE FinalityAdvances \/ LiveReads \/ Crash \/ Startup \/ RepairBegins \/ RepairEnds
               \/ HistoryWaits \/ HistoryBegins
      BY <2>5 DEF FinalityAdvances, LiveReads, Crash, Startup, RepairBegins, RepairEnds,
                  HistoryWaits, HistoryBegins, dbVars
    <2>6. CASE PassBegins \/ SelectEpoch \/ AdvanceWatermark \/ SweepEnds \/ PassEnds \/ ScanFails
      BY <2>6 DEF PassBegins, SelectEpoch, AdvanceWatermark, SweepEnds, PassEnds, ScanFails, dbVars
    <2>7. ASSUME NEW e \in Epochs, RepairFails(e)
          PROVE  UNCHANGED <<completed, gaps>>
      BY <2>7 DEF RepairFails, dbVars
    <2> QED
      BY <2>1, <2>2, <2>3, <2>4, <2>5, <2>6, <2>7 DEF Next, Live, Archive, Fails
  <1>3. Spec => []TypeInv
    BY TypeInit, TypeStep, PassAlways, PTL DEF Spec
  <1> QED
    BY <1>1, <1>2, <1>3, PassAlways, PTL DEF Spec, LedgerKept, Ledger!Spec

\* The worker with the clock of its retries (retry.rs:36) takes no step that Backfill
\* does not allow: what is proved of Backfill holds for it too.
THEOREM RetriesRefineBackfill == TimedSpec => Spec
  <1>1. TimedInit => Init
    BY DEF TimedInit
  <1>2. [TimedNext]_allVars => [Next]_vars
    BY DEF TimedNext, Next, Live, Archive, Fails, allVars
  <1> QED
    BY <1>1, <1>2, PTL DEF TimedSpec, Spec
=============================================================================
