-------------------------- MODULE RewardJobsProofs --------------------------
(***************************************************************************)
(* Proofs about RewardJobs, for every block tree and configuration, with   *)
(* any number of reorganizations, failures and restarts: the tables keep   *)
(* the promises of EpochLedger, and no reward is given up without a gap.   *)
(***************************************************************************)
EXTENDS RewardJobs, ChainProofs

\* A key belongs to an epoch of the validator.
LEMMA KeyEpochs ==
    /\ \A k \in Keys : EpochOf(k) \in Epochs
    /\ \A e \in Epochs : AttestationKey(e) \in Keys /\ EpochOf(AttestationKey(e)) = e
    /\ SlotKeys \subseteq Keys
    /\ Epochs \subseteq Nat
  BY ConfigAssumption DEF Keys, SlotKeys, EpochOf, AttestationKey

LEMMA BlockFacts ==
    /\ \A b \in Blocks : BlockSlot[b] \in Nat /\ SlotToEpoch(BlockSlot[b]) \in Nat
    /\ \A b \in Blocks : Ancestry[b] \subseteq Blocks
    /\ NoBlock \notin Blocks
  BY BlockSlotAssumption, AncestryAssumption, NoBlockAssumption, SlotToEpochBounds

---------------------------------------------------------------------------
(* What the database operations keep *)

LEMMA EnqueuedType ==
    ASSUME NEW table \in [Keys -> JobType], NEW keys \in SUBSET Keys, NEW root,
           \A k \in keys : root[k] \in Roots
    PROVE  /\ Enqueued(table, keys, root) \in [Keys -> JobType]
           /\ \A k \in Keys : \/ Enqueued(table, keys, root)[k] = table[k]
                              \/ k \in keys /\ Enqueued(table, keys, root)[k].status = "pending"
  BY DEF Enqueued, JobType

LEMMA SeededType ==
    ASSUME NEW table \in [Keys -> RowType], NEW keys
    PROVE  /\ Seeded(table, keys) \in [Keys -> RowType]
           /\ \A k \in Keys : table[k].status # "absent" => Seeded(table, keys)[k] = table[k]
  BY DEF Seeded, RowType, NoRow, Roots

LEMMA InvalidateKeeps ==
    ASSUME TypeOK, NEW from, InvalidateFrom(from)
    PROVE  /\ stored' \subseteq Blocks
           /\ row' \in [Keys -> RowType]
           /\ jobs' \in [Keys -> JobType]
           /\ \A k \in Keys : row[k].status \in {"final", "missed"} => row'[k] = row[k]
           /\ \A k \in Keys : jobs'[k] = jobs[k] \/ jobs'[k].status = "absent"
           /\ UNCHANGED <<started, completed, gaps>>
  BY DEF InvalidateFrom, TypeOK, RowType, JobType, NoRow, NoJob, Roots

LEMMA ArchiveRowType ==
    ASSUME TypeOK, NEW k \in Keys
    PROVE  /\ ArchiveRow(k) \in RowType
           /\ row[k].status \in {"final", "missed"} /\ EpochOf(k) \in completed
                 => ArchiveRow(k) = row[k]
  <1> DEFINE on == {x \in Blocks : Basis(k, finRoot, x)}
  <1>1. row[k] \in RowType
    BY DEF TypeOK
  <1>2. on # {} => (CHOOSE y \in on : TRUE) \in Roots
    BY DEF Roots
  <1>3. CASE ~ArchiveMayWrite(k)
    BY <1>1, <1>3 DEF ArchiveRow
  <1>4. CASE ArchiveMayWrite(k) /\ on = {}
    BY <1>4 DEF ArchiveRow, ArchiveMayWrite, RowType, Roots
  <1>5. CASE ArchiveMayWrite(k) /\ on # {}
    BY <1>2, <1>5 DEF ArchiveRow, ArchiveMayWrite, RowType
  <1> QED
    BY <1>3, <1>4, <1>5

LEMMA PromoteKeeps ==
    ASSUME TypeOK, NEW roots, NEW proven, NEW covered \in SUBSET Epochs,
           Promote(roots, proven, covered)
    PROVE  /\ row' \in [Keys -> RowType]
           /\ completed' \subseteq Epochs /\ completed \subseteq completed'
           /\ gaps' \subseteq Epochs /\ gaps \subseteq gaps'
           /\ \A e \in gaps' \ gaps : Tracked(e)
           /\ \A k \in Keys : row[k].status \in {"final", "missed"} /\ EpochOf(k) \in completed
                                 => row'[k] = row[k]
  <1> DEFINE table == AfterReplay(roots)
  <1>1. /\ table \in [Keys -> RowType]
        /\ \A k \in Keys : EpochOf(k) \in completed => table[k] = row[k]
    BY DEF AfterReplay, Replayed, TypeOK, RowType, JobType, Roots
  <1>2. /\ row' \in [Keys -> RowType]
        /\ \A k \in Keys : table[k].status # "open" => row'[k] = table[k]
    BY <1>1 DEF Promote, RowType
  <1>3. completed' \subseteq Epochs /\ completed \subseteq completed'
    BY DEF Promote, TypeOK
  <1>4. gaps' \subseteq Epochs /\ gaps \subseteq gaps' /\ \A e \in gaps' \ gaps : Tracked(e)
    BY DEF Promote, TypeOK, Owed
  <1> QED
    BY <1>1, <1>2, <1>3, <1>4

---------------------------------------------------------------------------
(* The inductive step *)

\* What every step leaves of the tables' promises: a completed epoch and its entries
\* stay, and a gap stays until its epoch is complete.
TablesKept ==
    /\ completed \subseteq completed'
    /\ \A e \in gaps : e \in gaps' \cup completed'
    /\ \A k \in Keys : row[k].status \in {"final", "missed"} /\ EpochOf(k) \in completed
                          => row'[k] = row[k]

\* The parts of TypeOK that belong to the database and to the poll.
DatabaseType ==
    /\ started \in Nat \cup {NotStarted}
    /\ stored \subseteq Blocks
    /\ jobs \in [Keys -> JobType]
    /\ row \in [Keys -> RowType]
    /\ completed \subseteq Epochs
    /\ gaps \subseteq Epochs

PollType ==
    /\ pc \in {"idle", "reconcile", "collected", "expire", "select",
               "jobs", "before", "fetch", "after", "confirm", "stage", "join", "prune"}
    /\ tip \in Blocks
    /\ chkpt \in Nat
    /\ batch \subseteq Keys
    /\ job \in Keys \cup {NoKey}
    /\ basis \in Roots
    /\ before \in Roots
    /\ answer \in Roots

ArchiveType ==
    /\ stage \in {"idle", "attestations", "blocks", "complete"}
    /\ scanned \in Epochs \cup {-1}

LEMMA EndPollType ==
    ASSUME TypeOK, EndPoll, stage' # "idle" => scanned' \in Epochs
    PROVE  PollType' /\ InFlight'
  BY DEF EndPoll, ParkJob, PollType, InFlight, TypeOK, NodeTypeOK, Roots

\* A step that touches no table keeps what is said about them.
LEMMA TablesUnchanged ==
    ASSUME IInv, UNCHANGED dbVars
    PROVE  DatabaseType' /\ OwedTracked' /\ ExpiredAreGaps' /\ TablesKept
  <1>1. DatabaseType'
    BY DEF IInv, TypeOK, DatabaseType, dbVars
  <1>2. OwedTracked' /\ ExpiredAreGaps'
    BY DEF IInv, OwedTracked, ExpiredAreGaps, Tracked, dbVars
  <1>3. TablesKept
    BY DEF TablesKept, dbVars
  <1> QED
    BY <1>1, <1>2, <1>3

\* Nor does one that drops jobs and open rows only.
LEMMA InvalidateTables ==
    ASSUME IInv, NEW from, InvalidateFrom(from)
    PROVE  DatabaseType' /\ OwedTracked' /\ ExpiredAreGaps' /\ TablesKept
  <1>1. DatabaseType'
    BY InvalidateKeeps DEF IInv, TypeOK, DatabaseType
  <1>2. OwedTracked' /\ ExpiredAreGaps'
    BY InvalidateKeeps DEF IInv, OwedTracked, ExpiredAreGaps, Tracked
  <1>3. TablesKept
    BY InvalidateKeeps DEF IInv, TablesKept
  <1> QED
    BY <1>1, <1>2, <1>3

LEMMA NodeKeeps ==
    ASSUME TypeOK, NodeNext
    PROVE  NodeTypeOK'
  <1>1. ASSUME NEW b \in Blocks, MoveHead(b)
        PROVE  NodeTypeOK'
    BY <1>1, BlockFacts, SaturationBounds DEF MoveHead, TypeOK, NodeTypeOK
  <1>2. ASSUME NEW e \in 0..SlotToEpoch(BlockSlot[head]), NEW r \in Blocks, AdvanceFinality(e, r)
        PROVE  NodeTypeOK'
    BY <1>2, BlockFacts DEF AdvanceFinality, TypeOK, NodeTypeOK
  <1> QED
    BY <1>1, <1>2 DEF NodeNext

LEMMA InitHolds == Init => IInv
  <1> SUFFICES ASSUME Init
               PROVE  IInv
    OBVIOUS
  <1>1. NodeTypeOK
    BY BlockFacts, HeadAssumption DEF Init, NodeInit, NodeTypeOK, IsAncestorAt
  <1>2. TypeOK
    BY <1>1 DEF Init, TypeOK, NodeTypeOK, JobType, RowType, NoJob, NoRow, Roots, NotStarted
  <1>3. InFlight /\ OwedTracked /\ ExpiredAreGaps
    BY DEF Init, InFlight, OwedTracked, ExpiredAreGaps, NoJob
  <1> QED
    BY <1>2, <1>3 DEF IInv

\* What a step has to establish.
Kept ==
    /\ NodeTypeOK'
    /\ DatabaseType'
    /\ PollType'
    /\ ArchiveType'
    /\ InFlight'
    /\ OwedTracked'
    /\ ExpiredAreGaps'
    /\ TablesKept

LEMMA KeptIsEnough == Kept => IInv' /\ TablesKept
  BY DEF Kept, IInv, TypeOK, DatabaseType, PollType, ArchiveType

\* The rest of the state, for a step that leaves it alone.
LEMMA RestUnchanged ==
    ASSUME IInv
    PROVE  /\ UNCHANGED nodeVars => NodeTypeOK'
           /\ UNCHANGED archiveVars => ArchiveType'
           /\ UNCHANGED <<pc, pollVars>> => PollType'
           /\ UNCHANGED <<pc, pollVars, archiveVars>> => InFlight'
  <1>1. UNCHANGED nodeVars => NodeTypeOK'
    BY DEF IInv, TypeOK, NodeTypeOK, nodeVars
  <1>2. UNCHANGED archiveVars => ArchiveType'
    BY DEF IInv, TypeOK, ArchiveType, archiveVars
  <1>3. UNCHANGED <<pc, pollVars>> => PollType'
    BY DEF IInv, TypeOK, PollType, pollVars
  <1>4. UNCHANGED <<pc, pollVars, archiveVars>> => InFlight'
    BY DEF IInv, InFlight, pollVars, archiveVars
  <1> QED
    BY <1>1, <1>2, <1>3, <1>4

LEMMA NodeStepKeeps == IInv /\ NodeStep => Kept
  <1> SUFFICES ASSUME IInv, NodeStep
               PROVE  Kept
    OBVIOUS
  <1>1. NodeTypeOK'
    BY NodeKeeps DEF NodeStep, IInv
  <1>2. UNCHANGED <<dbVars, pc, pollVars, archiveVars>>
    BY DEF NodeStep
  <1> QED
    BY <1>1, <1>2, RestUnchanged, TablesUnchanged DEF Kept

\* start_tracking drops only what was never owed.
LEMMA PollKeeps == IInv /\ Poll => Kept
  <1> SUFFICES ASSUME IInv, Poll
               PROVE  Kept
    OBVIOUS
  <1> DEFINE epoch == SlotToEpoch(BlockSlot[head])
  <1>1. epoch \in Nat
    BY BlockFacts DEF IInv, TypeOK, NodeTypeOK
  <1>2. /\ started' \in Nat
        /\ started # NotStarted => started' <= started
    BY <1>1, SaturationBounds DEF Poll, IInv, TypeOK
  <1>3. \A e \in Epochs : Tracked(e) => Tracked(e)' /\ started' <= e
    BY <1>2, KeyEpochs DEF Tracked, IInv, TypeOK, NotStarted
  <1>4. \A e \in gaps : started' <= e /\ Tracked(e)'
    BY <1>3 DEF IInv, OwedTracked, TypeOK
  <1>5. gaps' = gaps
    BY <1>4 DEF Poll
  <1>6. /\ jobs' \in [Keys -> JobType]
        /\ \A k \in Keys : jobs'[k] = jobs[k] \/ jobs'[k].status = "absent"
    BY DEF Poll, IInv, TypeOK, JobType, NoJob, Roots
  <1>7. DatabaseType'
    BY <1>2, <1>5, <1>6 DEF DatabaseType, Poll, IInv, TypeOK
  <1>8. OwedTracked'
    BY <1>3, <1>4, <1>5, <1>6, KeyEpochs DEF OwedTracked, IInv
  <1>9. ExpiredAreGaps' /\ TablesKept
    BY <1>5, <1>6 DEF Poll, ExpiredAreGaps, TablesKept, IInv
  <1>10. PollType' /\ InFlight'
    BY DEF Poll, PollType, InFlight, IInv, TypeOK, NodeTypeOK, archiveVars
  <1>11. NodeTypeOK' /\ ArchiveType'
    BY RestUnchanged DEF Poll
  <1> QED
    BY <1>7, <1>8, <1>9, <1>10, <1>11 DEF Kept

LEMMA RollbackKeeps ==
    ASSUME IInv, NEW from, InvalidateFrom(from), EndPoll, UNCHANGED <<nodeVars, archiveVars>>
    PROVE  Kept
  <1>1. PollType' /\ InFlight'
    BY EndPollType DEF IInv, InFlight, archiveVars
  <1> QED
    BY <1>1, InvalidateTables, RestUnchanged DEF Kept

LEMMA CollectKeeps == IInv /\ CollectSome => Kept
  <1> SUFFICES ASSUME IInv, CollectSome
               PROVE  Kept
    OBVIOUS
  <1>1. PICK recorded \in SUBSET Collectable,
             epochs \in SUBSET {e \in Epochs : Tracked(e) /\ MinEpoch <= e /\ e <= HeadEpoch} :
             \E processed \in SUBSET recorded : Collect(recorded, processed, epochs)
    BY DEF CollectSome
  <1>2. PICK processed \in SUBSET recorded : Collect(recorded, processed, epochs)
    BY <1>1
  <1> DEFINE slotKeys == {k \in SlotKeys : /\ Tracked(EpochOf(k))
                                           /\ \E b \in processed : BlockSlot[b] = k[2]}
             rootOf == [k \in slotKeys |-> CHOOSE b \in processed : BlockSlot[b] = k[2]]
             keys == slotKeys \cup {AttestationKey(e) : e \in epochs}
  <1>3. recorded \subseteq Blocks
    BY BlockFacts DEF Collectable, IInv, TypeOK
  <1>4. slotKeys \in SUBSET Keys /\ \A k \in slotKeys : rootOf[k] \in Roots
    BY <1>3, KeyEpochs DEF Roots
  <1>5. stored' \subseteq Blocks
    BY <1>2, <1>3 DEF Collect, IInv, TypeOK
  <1>6. /\ row' = Seeded(row, keys)
        /\ jobs' = Enqueued(jobs, slotKeys, rootOf)
    BY <1>2 DEF Collect
  <1>7. UNCHANGED <<nodeVars, started, completed, gaps, pollVars, archiveVars>> /\ pc' = "collected"
    BY DEF CollectSome
  <1>8. /\ row' \in [Keys -> RowType]
        /\ \A k \in Keys : row[k].status # "absent" => row'[k] = row[k]
    BY <1>6, SeededType DEF IInv, TypeOK
  <1>9. /\ jobs' \in [Keys -> JobType]
        /\ \A k \in Keys : \/ jobs'[k] = jobs[k]
                           \/ jobs'[k].status = "pending" /\ Tracked(EpochOf(k))
    <2>1. jobs \in [Keys -> JobType] /\ \A k \in slotKeys : Tracked(EpochOf(k))
      BY DEF IInv, TypeOK
    <2> HIDE DEF slotKeys, rootOf
    <2> QED
      BY <1>4, <1>6, <2>1, EnqueuedType
  <1>10. DatabaseType'
    BY <1>5, <1>7, <1>8, <1>9 DEF DatabaseType, IInv, TypeOK
  <1>11. OwedTracked' /\ ExpiredAreGaps'
    BY <1>7, <1>9 DEF OwedTracked, ExpiredAreGaps, Tracked, IInv
  <1>12. TablesKept
    BY <1>7, <1>8 DEF TablesKept
  <1>13. PollType' /\ InFlight'
    BY <1>7 DEF PollType, InFlight, IInv, TypeOK, pollVars, archiveVars
  <1> QED
    BY <1>7, <1>10, <1>11, <1>12, <1>13, RestUnchanged DEF Kept

LEMMA EnqueueKeeps == IInv /\ EnqueueRewards => Kept
  <1> SUFFICES ASSUME IInv, EnqueueRewards
               PROVE  Kept
    OBVIOUS
  <1> DEFINE due == {AttestationKey(e) : e \in {f \in RewardEpochs : MinEpoch <= f /\ Tracked(f)}}
             rootOf == [k \in due |-> NoBlock]
  <1>1. /\ due \in SUBSET Keys
        /\ \A k \in due : rootOf[k] \in Roots /\ Tracked(EpochOf(k))
    BY KeyEpochs DEF RewardEpochs, Roots
  <1>2. jobs' = Enqueued(jobs, due, rootOf)
    BY DEF EnqueueRewards
  <1>3. /\ jobs' \in [Keys -> JobType]
        /\ \A k \in Keys : \/ jobs'[k] = jobs[k]
                           \/ jobs'[k].status = "pending" /\ Tracked(EpochOf(k))
    <2>1. jobs \in [Keys -> JobType]
      BY DEF IInv, TypeOK
    <2> HIDE DEF due, rootOf
    <2> QED
      BY <1>1, <1>2, <2>1, EnqueuedType
  <1>4. /\ UNCHANGED <<nodeVars, started, stored, row, completed, gaps, pollVars, archiveVars>>
        /\ pc' = "expire"
    BY DEF EnqueueRewards
  <1>5. DatabaseType' /\ TablesKept
    BY <1>3, <1>4 DEF DatabaseType, TablesKept, IInv, TypeOK
  <1>6. OwedTracked' /\ ExpiredAreGaps'
    BY <1>3, <1>4 DEF OwedTracked, ExpiredAreGaps, Tracked, IInv
  <1>7. PollType' /\ InFlight'
    BY <1>4 DEF PollType, InFlight, IInv, TypeOK, pollVars, archiveVars
  <1> QED
    BY <1>4, <1>5, <1>6, <1>7, RestUnchanged DEF Kept

\* The gap is recorded together with the job's retirement.
LEMMA ExpireKeeps == IInv /\ ExpireJobs => Kept
  <1> SUFFICES ASSUME IInv, ExpireJobs
               PROVE  Kept
    OBVIOUS
  <1> DEFINE expired == {k \in Keys : jobs[k].status = "pending" /\ EpochOf(k) < MinEpoch}
  <1>1. /\ UNCHANGED <<nodeVars, started, stored, row, completed, pollVars, archiveVars>>
        /\ pc' = "select"
        /\ gaps' = gaps \cup {EpochOf(k) : k \in expired}
        /\ jobs' = [k \in Keys |-> IF k \in expired
                                   THEN [jobs[k] EXCEPT !.status = "needs_backfill"] ELSE jobs[k]]
    BY DEF ExpireJobs
  <1>2. \A k \in expired : EpochOf(k) \in Epochs /\ Tracked(EpochOf(k))
    BY KeyEpochs DEF IInv, OwedTracked
  <1>3. /\ jobs' \in [Keys -> JobType]
        /\ \A k \in Keys : jobs'[k] = jobs[k] \/ (k \in expired /\ jobs'[k].status = "needs_backfill")
    BY <1>1 DEF IInv, TypeOK, JobType
  <1>4. gaps' \subseteq Epochs /\ gaps \subseteq gaps' /\ \A e \in gaps' : Tracked(e)
    BY <1>1, <1>2 DEF IInv, TypeOK, OwedTracked
  <1>5. DatabaseType' /\ TablesKept
    BY <1>1, <1>3, <1>4 DEF DatabaseType, TablesKept, IInv, TypeOK
  <1>6. OwedTracked'
    BY <1>1, <1>3, <1>4 DEF OwedTracked, Tracked, IInv
  <1>7. \A k \in Keys : k \in expired => EpochOf(k) \in gaps'
    BY <1>1
  <1>8. ExpiredAreGaps'
    BY <1>1, <1>3, <1>4, <1>7 DEF ExpiredAreGaps, IInv
  <1>9. PollType' /\ InFlight'
    BY <1>1 DEF PollType, InFlight, IInv, TypeOK, pollVars, archiveVars
  <1> QED
    BY <1>1, <1>5, <1>6, <1>8, <1>9, RestUnchanged DEF Kept

---------------------------------------------------------------------------
(* Collecting a job *)

\* The steps up to the staging touch no table.
LEMMA RequestKeeps ==
    ASSUME IInv, UNCHANGED <<nodeVars, dbVars, archiveVars>>,
           \/ SelectJobs
           \/ \E k \in Keys, b \in Blocks : CheckDependency(k, b)
           \/ \E x \in Blocks : ReadBefore(x)
           \/ \E x \in Blocks : FetchRewards(x)
           \/ ReadAfter
           \/ ConfirmDependency
           \/ \E k \in Keys : JobFails(k)
           \/ EndPoll
    PROVE  Kept
  <1>1. stage' # "idle" => scanned' \in Epochs
    BY DEF IInv, InFlight, archiveVars
  <1>2. ASSUME SelectJobs
        PROVE  PollType' /\ InFlight'
    BY <1>1, <1>2 DEF SelectJobs, PollType, InFlight, IInv, TypeOK
  <1>3. ASSUME NEW k \in Keys, NEW b \in Blocks, CheckDependency(k, b)
        PROVE  PollType' /\ InFlight'
    BY <1>1, <1>3 DEF CheckDependency, PollType, InFlight, IInv, TypeOK, Roots
  <1>4. ASSUME NEW x \in Blocks, ReadBefore(x)
        PROVE  PollType' /\ InFlight'
    BY <1>1, <1>4 DEF ReadBefore, PollType, InFlight, IInv, TypeOK, Roots
  <1>5. ASSUME NEW x \in Blocks, FetchRewards(x)
        PROVE  PollType' /\ InFlight'
    BY <1>1, <1>5 DEF FetchRewards, PollType, InFlight, IInv, TypeOK, Roots
  <1>6. ASSUME ReadAfter \/ ConfirmDependency
        PROVE  PollType' /\ InFlight'
    BY <1>1, <1>6 DEF ReadAfter, ConfirmDependency, pollVars, PollType, InFlight, IInv, TypeOK
  <1>7. ASSUME NEW k \in Keys, JobFails(k)
        PROVE  PollType' /\ InFlight'
    BY <1>1, <1>7 DEF JobFails, ParkJob, PollType, InFlight, IInv, TypeOK, Roots
  <1>8. ASSUME EndPoll
        PROVE  PollType' /\ InFlight'
    BY <1>1, <1>8, EndPollType DEF IInv
  <1>9. PollType' /\ InFlight'
    BY <1>2, <1>3, <1>4, <1>5, <1>6, <1>7, <1>8
  <1> QED
    BY <1>9, TablesUnchanged, RestUnchanged DEF Kept

LEMMA StageKeeps == IInv /\ StageResponse => Kept
  <1> SUFFICES ASSUME IInv, StageResponse
               PROVE  Kept
    OBVIOUS
  <1>1. /\ UNCHANGED <<nodeVars, started, stored, row, completed, gaps, pollVars, archiveVars>>
        /\ pc = "stage" /\ pc' = "join"
        /\ jobs' = [jobs EXCEPT ![job] = [status |-> "complete", root |-> basis, reward |-> answer]]
    BY DEF StageResponse
  <1>2. [status |-> "complete", root |-> basis, reward |-> answer] \in JobType
    BY <1>1 DEF IInv, InFlight, JobType
  <1>3. /\ jobs' \in [Keys -> JobType]
        /\ \A k \in Keys : jobs'[k] = jobs[k] \/ jobs'[k].status = "complete"
    BY <1>1, <1>2 DEF IInv, TypeOK
  <1>4. DatabaseType' /\ TablesKept
    BY <1>1, <1>3 DEF DatabaseType, TablesKept, IInv, TypeOK
  <1>5. OwedTracked' /\ ExpiredAreGaps'
    BY <1>1, <1>3 DEF OwedTracked, ExpiredAreGaps, Tracked, IInv
  <1>6. PollType' /\ InFlight'
    BY <1>1 DEF PollType, InFlight, IInv, TypeOK, pollVars, archiveVars
  <1> QED
    BY <1>1, <1>4, <1>5, <1>6, RestUnchanged DEF Kept

\* A final row is not joined to.
LEMMA JoinKeeps == IInv /\ JoinRewards => Kept
  <1> SUFFICES ASSUME IInv, JoinRewards
               PROVE  Kept
    OBVIOUS
  <1>1. /\ UNCHANGED <<nodeVars, started, stored, jobs, completed, gaps, tip, chkpt, archiveVars>>
        /\ pc' = "jobs" /\ batch' = batch \ {job} /\ ParkJob
        /\ row' = Joined(job, answer)
    BY DEF JoinRewards
  <1>2. row \in [Keys -> RowType] /\ answer \in Roots
    BY DEF IInv, TypeOK
  <1>3. /\ row' \in [Keys -> RowType]
        /\ \A k \in Keys : row[k].status \in {"final", "missed"} => row'[k] = row[k]
    BY <1>1, <1>2 DEF Joined, RowType
  <1>4. DatabaseType' /\ TablesKept
    BY <1>1, <1>3 DEF DatabaseType, TablesKept, IInv, TypeOK
  <1>5. OwedTracked' /\ ExpiredAreGaps'
    BY <1>1 DEF OwedTracked, ExpiredAreGaps, Tracked, IInv
  <1>6. PollType' /\ InFlight'
    BY <1>1 DEF ParkJob, PollType, InFlight, IInv, TypeOK, Roots, archiveVars
  <1> QED
    BY <1>1, <1>4, <1>5, <1>6, RestUnchanged DEF Kept

---------------------------------------------------------------------------
(* Promotion, pruning, and the archive worker *)

LEMMA FinalizeKeeps ==
    ASSUME IInv, NEW root \in Blocks, Finalize(root)
    PROVE  Kept
  <1>1. /\ UNCHANGED <<nodeVars, started, stored, jobs, pollVars, archiveVars>>
        /\ pc' = "prune"
    BY DEF Finalize
  <1>2. \/ \E roots, proven : \E covered \in SUBSET Epochs : Promote(roots, proven, covered)
        \/ UNCHANGED <<row, completed, gaps>>
    BY DEF Finalize
  <1>3. /\ row' \in [Keys -> RowType]
        /\ completed' \subseteq Epochs /\ completed \subseteq completed'
        /\ gaps' \subseteq Epochs /\ gaps \subseteq gaps'
        /\ \A e \in gaps' \ gaps : Tracked(e)
        /\ \A k \in Keys : row[k].status \in {"final", "missed"} /\ EpochOf(k) \in completed
                              => row'[k] = row[k]
    <2>1. CASE \E roots, proven : \E covered \in SUBSET Epochs : Promote(roots, proven, covered)
      BY <2>1, PromoteKeeps DEF IInv
    <2>2. CASE UNCHANGED <<row, completed, gaps>>
      BY <2>2 DEF IInv, TypeOK
    <2> QED
      BY <1>2, <2>1, <2>2
  <1>4. DatabaseType' /\ TablesKept
    BY <1>1, <1>3 DEF DatabaseType, TablesKept, IInv, TypeOK
  <1>5. OwedTracked' /\ ExpiredAreGaps'
    BY <1>1, <1>3 DEF OwedTracked, ExpiredAreGaps, Tracked, IInv
  <1>6. PollType' /\ InFlight'
    BY <1>1 DEF PollType, InFlight, IInv, TypeOK, pollVars, archiveVars
  <1> QED
    BY <1>1, <1>4, <1>5, <1>6, RestUnchanged DEF Kept

LEMMA PruneKeeps == IInv /\ Prune => Kept
  <1> SUFFICES ASSUME IInv, Prune
               PROVE  Kept
    OBVIOUS
  <1>1. EndPoll /\ UNCHANGED <<nodeVars, started, row, completed, gaps, archiveVars>>
    BY DEF Prune
  <1>2. stored' \subseteq Blocks
    BY DEF Prune, IInv, TypeOK
  <1>3. /\ jobs' \in [Keys -> JobType]
        /\ \A k \in Keys : jobs'[k] = jobs[k] \/ jobs'[k].status = "absent"
    BY DEF Prune, IInv, TypeOK, JobType, NoJob, Roots
  <1>4. DatabaseType' /\ TablesKept
    BY <1>1, <1>2, <1>3 DEF DatabaseType, TablesKept, IInv, TypeOK
  <1>5. OwedTracked' /\ ExpiredAreGaps'
    BY <1>1, <1>3 DEF OwedTracked, ExpiredAreGaps, Tracked, IInv
  <1>6. PollType' /\ InFlight'
    BY <1>1, EndPollType DEF IInv, InFlight, archiveVars
  <1> QED
    BY <1>1, <1>4, <1>5, <1>6, RestUnchanged DEF Kept

\* The archive's upserts respect the rows of completed epochs.
LEMMA ArchiveWritesKeep ==
    ASSUME IInv, UNCHANGED <<nodeVars, started, stored, jobs, completed, gaps, pc, pollVars>>,
           row' \in [Keys -> RowType],
           \A k \in Keys : row'[k] = row[k] \/ row'[k] = ArchiveRow(k),
           stage' \in {"idle", "blocks", "complete"},
           IF stage' = "idle" THEN scanned' = -1 ELSE scanned' = scanned /\ scanned \in Epochs
    PROVE  Kept
  <1>1. ArchiveType' /\ InFlight'
    BY DEF ArchiveType, InFlight, IInv, pollVars
  <1>2. DatabaseType'
    BY DEF DatabaseType, IInv, TypeOK
  <1>3. TablesKept
    BY ArchiveRowType DEF TablesKept, IInv
  <1>4. OwedTracked' /\ ExpiredAreGaps'
    BY DEF OwedTracked, ExpiredAreGaps, Tracked, IInv
  <1> QED
    BY <1>1, <1>2, <1>3, <1>4, RestUnchanged DEF Kept

LEMMA ArchiveKeeps == IInv /\ Archive => Kept
  <1> SUFFICES ASSUME IInv, Archive
               PROVE  Kept
    OBVIOUS
  <1>1. ASSUME UNCHANGED <<nodeVars, dbVars, pc, pollVars>>,
               \/ \E e \in Epochs : ArchiveBegins(e)
               \/ ArchiveFails
        PROVE  Kept
    <2>1. ArchiveType' /\ InFlight'
      BY <1>1 DEF ArchiveBegins, ArchiveFails, ArchiveType, InFlight, IInv, pollVars
    <2> QED
      BY <1>1, <2>1, TablesUnchanged, RestUnchanged DEF Kept
  <1>2. ASSUME ArchiveAttestation
        PROVE  Kept
    <2>1. row' \in [Keys -> RowType] /\ \A k \in Keys : row'[k] = row[k] \/ row'[k] = ArchiveRow(k)
      BY <1>2, ArchiveRowType DEF ArchiveAttestation, IInv, TypeOK
    <2> QED
      BY <1>2, <2>1, ArchiveWritesKeep DEF ArchiveAttestation, IInv, InFlight
  <1>3. ASSUME ArchiveBlocks
        PROVE  Kept
    <2> DEFINE due == {k \in SlotKeys : EpochOf(k) = scanned}
    <2>1. PICK written \in SUBSET due :
            /\ row' = [k \in Keys |-> IF k \in written THEN ArchiveRow(k) ELSE row[k]]
            /\ IF written = due
               THEN stage' = "complete" /\ UNCHANGED scanned
               ELSE stage' = "idle" /\ scanned' = -1
      BY <1>3 DEF ArchiveBlocks
    <2>2. row' \in [Keys -> RowType] /\ \A k \in Keys : row'[k] = row[k] \/ row'[k] = ArchiveRow(k)
      BY <2>1, ArchiveRowType DEF IInv, TypeOK
    <2>3. scanned \in Epochs
      BY <1>3 DEF ArchiveBlocks, IInv, InFlight
    <2>4. UNCHANGED <<nodeVars, started, stored, jobs, completed, gaps, pc, pollVars>>
      BY <1>3 DEF ArchiveBlocks
    <2> QED
      BY <2>1, <2>2, <2>3, <2>4, ArchiveWritesKeep
  <1>4. ASSUME ArchiveCompletes
        PROVE  Kept
    <2>1. /\ UNCHANGED <<nodeVars, started, stored, jobs, row, pc, pollVars>>
          /\ completed' = completed \cup {scanned} /\ gaps' = gaps \ {scanned}
          /\ scanned \in Epochs /\ stage' = "idle" /\ scanned' = -1
      BY <1>4 DEF ArchiveCompletes, IInv, InFlight
    <2>2. DatabaseType' /\ TablesKept
      BY <2>1 DEF DatabaseType, TablesKept, IInv, TypeOK
    <2>3. OwedTracked' /\ ExpiredAreGaps'
      BY <2>1 DEF OwedTracked, ExpiredAreGaps, Tracked, IInv
    <2>4. ArchiveType' /\ InFlight'
      BY <2>1 DEF ArchiveType, InFlight, IInv, pollVars
    <2> QED
      BY <2>1, <2>2, <2>3, <2>4, RestUnchanged DEF Kept
  <1>5. \A e \in Epochs : ArchiveBegins(e) => UNCHANGED <<nodeVars, dbVars, pc, pollVars>>
    BY DEF ArchiveBegins
  <1>6. ArchiveFails => UNCHANGED <<nodeVars, dbVars, pc, pollVars>>
    BY DEF ArchiveFails
  <1> QED
    BY <1>1, <1>2, <1>3, <1>4, <1>5, <1>6 DEF Archive

LEMMA CrashKeeps == IInv /\ Crash => Kept
  <1> SUFFICES ASSUME IInv, Crash
               PROVE  Kept
    OBVIOUS
  <1>1. EndPoll /\ stage' = "idle" /\ scanned' = -1 /\ UNCHANGED <<nodeVars, dbVars>>
    BY DEF Crash
  <1>2. PollType' /\ InFlight'
    BY <1>1, EndPollType DEF IInv
  <1>3. ArchiveType'
    BY <1>1 DEF ArchiveType
  <1> QED
    BY <1>1, <1>2, <1>3, TablesUnchanged, RestUnchanged DEF Kept

LEMMA LiveKeeps == IInv /\ Live => Kept
  <1> SUFFICES ASSUME IInv, Live
               PROVE  Kept
    OBVIOUS
  <1>1. ASSUME \/ SelectJobs
               \/ \E k \in Keys, b \in Blocks : CheckDependency(k, b)
               \/ \E x \in Blocks : ReadBefore(x)
               \/ \E x \in Blocks : FetchRewards(x)
               \/ ReadAfter
               \/ ConfirmDependency
               \/ \E k \in Keys : JobFails(k)
               \/ Abort
        PROVE  Kept
    <2>1. UNCHANGED <<nodeVars, dbVars, archiveVars>>
      BY <1>1 DEF SelectJobs, CheckDependency, ReadBefore, FetchRewards, ReadAfter,
                  ConfirmDependency, JobFails, Abort
    <2>2. Abort => EndPoll
      BY DEF Abort
    <2> QED
      BY <1>1, <2>1, <2>2, RequestKeeps
  <1>2. ASSUME NEW b \in Blocks, Reconcile(b) \/ BranchSwitched(b)
        PROVE  Kept
    BY <1>2, RollbackKeeps DEF Reconcile, BranchSwitched
  <1> QED
    BY <1>1, <1>2, PollKeeps, CollectKeeps, EnqueueKeeps, ExpireKeeps, StageKeeps, JoinKeeps,
       FinalizeKeeps, PruneKeeps
       DEF Live, CollectJob

LEMMA StutterKeeps == IInv /\ UNCHANGED vars => Kept
  BY TablesUnchanged, RestUnchanged DEF vars, Kept

LEMMA StepKeeps == IInv /\ [Next]_vars => IInv' /\ TablesKept
  BY NodeStepKeeps, LiveKeeps, ArchiveKeeps, CrashKeeps, StutterKeeps, KeptIsEnough DEF Next

---------------------------------------------------------------------------
(* The theorems *)

\* The inductive invariant: the tables, the poll and the scan in progress are well
\* formed, gaps and open jobs belong to tracked epochs, and no reward that was given up
\* lacks a gap (expire_jobs, promote_collected, start_tracking).
THEOREM InvariantHolds == Spec => []IInv
  <1>1. IInv /\ [Next]_vars => IInv'
    BY StepKeeps
  <1> QED
    BY InitHolds, <1>1, PTL DEF Spec

\* A reward that the live worker gives up always leaves a gap or a completed epoch,
\* whatever polls, restarts, rollbacks and archive scans follow (live.rs:264).
THEOREM ExpiredRewardsAreGaps == Spec => []ExpiredAreGaps
  <1>1. IInv => ExpiredAreGaps
    BY DEF IInv
  <1> QED
    BY InvariantHolds, <1>1, PTL

\* The two workers together keep the promises of EpochLedger: no rollback, late reward,
\* promotion or archive scan changes or withdraws an entry of a completed epoch, and a
\* gap stays until its epoch is complete.
THEOREM LedgerRefinement == Spec => LedgerKept
  <1>1. Init => Ledger!Init
    BY DEF Init, Ledger!Init
  <1>2. ASSUME IInv, IInv', TablesKept
        PROVE  [Ledger!Settle]_Ledger!ledger
    <2> DEFINE done == completed'
               lost == gaps'
               entries == {<<k, row[k]>> : k \in
                   {l \in Keys : EpochOf(l) \in completed /\ row[l].status \in {"final", "missed"}}}
    <2>1. done \in SUBSET Epochs /\ lost \in SUBSET Epochs
      BY <1>2 DEF IInv, TypeOK
    <2>2. completed' = completed \cup done
      BY <1>2 DEF TablesKept
    <2>3. (gaps \ completed)' = ((gaps \ completed) \cup lost) \ completed'
      BY <1>2 DEF TablesKept
    <2>4. entries \subseteq entries'
      BY <1>2 DEF TablesKept
    <2> QED
      BY <2>1, <2>2, <2>3, <2>4 DEF Ledger!Settle
  <1>3. IInv /\ [Next]_vars => [Ledger!Settle]_Ledger!ledger
    BY StepKeeps, <1>2
  <1> QED
    BY <1>1, <1>3, InvariantHolds, PTL DEF Spec, LedgerKept, Ledger!Spec
---------------------------------------------------------------------------
(* Rewards of blocks: the final chain *)

\* What a step leaves of the final chain: the checkpoint moves forward only, and what
\* was decided up to it stays decided.
FinalityKept ==
    /\ finEpoch <= finEpoch'
    /\ IsAncestorAt(finRoot, head, EpochStartSlot(finEpoch))'
    /\ \A b \in Blocks : BlockSlot[b] <= EpochStartSlot(finEpoch) =>
          (b \in Ancestry[finRoot] <=> b \in Ancestry[finRoot'])

LEMMA NodeKeepsFinality ==
    ASSUME TypeOK, CheckpointInv, NodeNext
    PROVE  FinalityKept
  <1>1. /\ head \in Blocks /\ finRoot \in Blocks /\ finEpoch \in Nat
        /\ EpochStartSlot(finEpoch) \in Nat
        /\ IsAncestorAt(finRoot, head, EpochStartSlot(finEpoch))
    BY EpochStartIncreases DEF TypeOK, NodeTypeOK, CheckpointInv
  <1>2. ASSUME NEW b \in Blocks, MoveHead(b)
        PROVE  FinalityKept
    BY <1>1, <1>2 DEF MoveHead, FinalityKept, IsAncestorAt
  <1>3. ASSUME NEW e \in Nat, NEW r \in Blocks, AdvanceFinality(e, r)
        PROVE  FinalityKept
    <2>1. /\ finEpoch < e /\ finEpoch' = e /\ finRoot' = r /\ head' = head
          /\ IsAncestorAt(r, head, EpochStartSlot(e))
          /\ EpochStartSlot(e) \in Nat
          /\ EpochStartSlot(finEpoch) <= EpochStartSlot(e)
      BY <1>1, <1>3, EpochStartIncreases DEF AdvanceFinality
    <2>2. finRoot \in Ancestry[r] /\ IsAncestorAt(finRoot, r, EpochStartSlot(finEpoch))
      BY <1>1, <2>1, AncestorsNest
    <2>3. \A b \in Blocks : BlockSlot[b] <= EpochStartSlot(finEpoch)
             => (b \in Ancestry[finRoot] <=> b \in Ancestry[r])
      BY <1>1, <2>2, BelowAncestor, AncestryAssumption
    <2>4. IsAncestorAt(finRoot, head, EpochStartSlot(finEpoch))'
      BY <2>1 DEF IsAncestorAt
    <2> QED
      BY <1>1, <2>1, <2>3, <2>4 DEF FinalityKept
  <1> QED
    BY <1>2, <1>3 DEF NodeNext

LEMMA NoNodeStepKeepsFinality ==
    ASSUME CheckpointInv, TypeOK, UNCHANGED nodeVars
    PROVE  FinalityKept
  BY DEF CheckpointInv, TypeOK, NodeTypeOK, nodeVars, FinalityKept, IsAncestorAt

\* A duty of a slot in a decided epoch lies before the checkpoint.
LEMMA DecidedSlots ==
    ASSUME NEW c \in Nat, NEW k \in SlotKeys, EpochOf(k) \in FinalizedScanTargets(c)
    PROVE  k[2] \in Nat /\ k[2] < EpochStartSlot(c) /\ EpochOf(k) <= c
  <1>1. k[2] \in Nat /\ EpochOf(k) = SlotToEpoch(k[2])
    BY ConfigAssumption DEF SlotKeys, EpochOf
  <1>2. EpochOf(k) \in Nat /\ EpochOf(k) + 2 <= c
    BY ScanTargetBounds
  <1> QED
    BY <1>1, <1>2, BeforeEpoch

LEMMA TargetsGrow ==
    ASSUME NEW c \in Nat, NEW d \in Nat, c <= d
    PROVE  FinalizedScanTargets(c) \subseteq FinalizedScanTargets(d)
  BY DEF FinalizedScanTargets

LEMMA CheckpointKept ==
    ASSUME IInv, IInv', CheckpointInv, FinalityKept,
           \/ UNCHANGED <<tip, chkpt>>
           \/ Poll
           \/ tip' = finRoot /\ chkpt' = 0 /\ UNCHANGED nodeVars
    PROVE  CheckpointInv'
  <1>1. /\ finEpoch \in Nat /\ chkpt \in Nat /\ chkpt <= finEpoch /\ finRoot \in Blocks
        /\ head \in Blocks /\ EpochStartSlot(finEpoch) \in Nat
        /\ EpochStartSlot(chkpt) \in Nat /\ EpochStartSlot(chkpt) <= EpochStartSlot(finEpoch)
    BY EpochStartIncreases DEF IInv, TypeOK, NodeTypeOK, CheckpointInv
  <1>2. CASE UNCHANGED <<tip, chkpt>>
    <2>1. chkpt' <= finEpoch'
      BY <1>1, <1>2 DEF IInv, TypeOK, NodeTypeOK, FinalityKept
    <2>2. \A b \in Blocks : BlockSlot[b] <= EpochStartSlot(chkpt)
             => (b \in Ancestry[tip] <=> b \in Ancestry[finRoot'])
      BY <1>1, BlockFacts DEF FinalityKept, CheckpointInv
    <2> QED
      BY <1>2, <2>1, <2>2 DEF CheckpointInv, FinalityKept
  <1>3. CASE Poll
    <2>1. tip' = head /\ chkpt' = finEpoch /\ UNCHANGED nodeVars
      BY <1>3 DEF Poll
    <2>2. ASSUME NEW b \in Blocks, BlockSlot[b] <= EpochStartSlot(finEpoch)
          PROVE  b \in Ancestry[head] <=> b \in Ancestry[finRoot]
      <3>1. IsAncestorAt(finRoot, head, EpochStartSlot(finEpoch))
        BY DEF CheckpointInv
      <3>2. Ancestry[finRoot] \subseteq Ancestry[head]
        BY <1>1, <3>1, AncestryAssumption DEF IsAncestorAt
      <3> QED
        BY <1>1, <2>2, <3>1, <3>2, BelowAncestor
    <2> QED
      BY <1>1, <2>1, <2>2 DEF CheckpointInv, nodeVars, IsAncestorAt
  <1>4. CASE tip' = finRoot /\ chkpt' = 0 /\ UNCHANGED nodeVars
    BY <1>1, <1>4 DEF CheckpointInv, nodeVars, IsAncestorAt
  <1> QED
    BY <1>2, <1>3, <1>4

---------------------------------------------------------------------------
(* Rewards of blocks: the rows *)

\* The part of RewardInv that is about rows.
RowsInv ==
    /\ ArchiveInv
    /\ completed \subseteq FinalizedScanTargets(finEpoch)
    /\ CompletedBlockRewardsOnChain

\* A step of any worker that completes only epochs whose rewards are true and writes
\* no other reward over a true one keeps what is said about rows.
LEMMA TruthKept ==
    ASSUME IInv, IInv', RowsInv, FinalityKept,
           \A e \in completed' \ completed : e \in FinalizedScanTargets(finEpoch) /\ RewardsTrue(e)',
           \A k \in SlotKeys : row'[k].status = "missed" => row[k].status = "missed",
           \A k \in SlotKeys, b \in Ancestry[finRoot] :
               BlockSlot[b] = k[2] /\ row[k] = [status |-> "final", reward |-> b] => row'[k] = row[k],
           \/ stage' = "idle"
           \/ /\ scanned' \in FinalizedScanTargets(finEpoch)
              /\ stage' = "complete" => stage = "complete" /\ scanned' = scanned
    PROVE  RowsInv'
  <1>1. /\ finEpoch \in Nat /\ finRoot \in Blocks /\ EpochStartSlot(finEpoch) \in Nat
        /\ FinalizedScanTargets(finEpoch) \subseteq FinalizedScanTargets(finEpoch')
    BY EpochStartIncreases, TargetsGrow DEF IInv, TypeOK, NodeTypeOK, FinalityKept
  <1>2. finRoot' \in Blocks
    BY DEF IInv, TypeOK, NodeTypeOK
  <1>3. ASSUME NEW k \in SlotKeys, EpochOf(k) \in FinalizedScanTargets(finEpoch),
               NEW b \in Ancestry[finRoot'], BlockSlot[b] = k[2]
        PROVE  b \in Ancestry[finRoot]
    <2>1. b \in Blocks /\ BlockSlot[b] \in Nat /\ BlockSlot[b] <= EpochStartSlot(finEpoch)
      BY <1>1, <1>2, <1>3, DecidedSlots, BlockFacts
    <2> QED
      BY <2>1 DEF FinalityKept
  <1>4. ASSUME NEW e \in FinalizedScanTargets(finEpoch), RewardsTrue(e)
        PROVE  RewardsTrue(e)'
    <2> SUFFICES ASSUME NEW k \in SlotKeys, NEW b \in Ancestry[finRoot'],
                        EpochOf(k) = e, BlockSlot[b] = k[2]
                 PROVE  row'[k] = [status |-> "final", reward |-> b]
      BY DEF RewardsTrue
    <2>1. b \in Ancestry[finRoot]
      BY <1>3
    <2>2. row[k] = [status |-> "final", reward |-> b]
      BY <1>4, <2>1 DEF RewardsTrue
    <2> QED
      BY <2>1, <2>2
  <1>5. completed' \subseteq FinalizedScanTargets(finEpoch')
    BY <1>1 DEF RowsInv
  <1>6. CompletedBlockRewardsOnChain'
    BY <1>4 DEF RowsInv, CompletedBlockRewardsOnChain
  <1>7. ASSUME NEW k \in SlotKeys, row'[k].status = "missed"
        PROVE  /\ EpochOf(k) \in FinalizedScanTargets(finEpoch')
               /\ \A b \in Ancestry[finRoot'] : BlockSlot[b] # k[2]
    <2>1. /\ EpochOf(k) \in FinalizedScanTargets(finEpoch)
          /\ \A b \in Ancestry[finRoot] : BlockSlot[b] # k[2]
      BY <1>7 DEF RowsInv, ArchiveInv
    <2> QED
      BY <1>1, <1>3, <2>1
  <1>8. /\ stage' # "idle" => scanned' \in FinalizedScanTargets(finEpoch')
        /\ stage' = "complete" => RewardsTrue(scanned)'
    <2>1. stage' = "complete" =>
             RewardsTrue(scanned) /\ scanned \in FinalizedScanTargets(finEpoch) /\ scanned' = scanned
      BY DEF RowsInv, ArchiveInv
    <2>2. stage' = "complete" => RewardsTrue(scanned)'
      <3> SUFFICES ASSUME stage' = "complete"
                   PROVE  RewardsTrue(scanned)'
        OBVIOUS
      <3>1. \A k \in SlotKeys, b \in Ancestry[finRoot'] :
                EpochOf(k) = scanned /\ BlockSlot[b] = k[2]
                   => row'[k] = [status |-> "final", reward |-> b]
        BY <1>4, <2>1 DEF RewardsTrue
      <3> QED
        BY <2>1, <3>1 DEF RewardsTrue
    <2> QED
      BY <1>1, <2>2
  <1> QED
    BY <1>5, <1>6, <1>7, <1>8 DEF RowsInv, ArchiveInv

\* Live writes other than a promotion touch open rows only.
LEMMA OpenRowsOnly ==
    ASSUME IInv, IInv', RowsInv, UNCHANGED <<nodeVars, archiveVars, completed>>, CheckpointInv,
           \A k \in SlotKeys :
               \/ row'[k] = row[k]
               \/ row[k].status \in {"absent", "open"} /\ row'[k].status \in {"absent", "open"}
    PROVE  RowsInv'
  <1>1. FinalityKept
    BY NoNodeStepKeepsFinality DEF IInv
  <1>2. \A k \in SlotKeys : row'[k].status = "missed" => row[k].status = "missed"
    OBVIOUS
  <1>3. \A k \in SlotKeys, b \in Ancestry[finRoot] :
            BlockSlot[b] = k[2] /\ row[k] = [status |-> "final", reward |-> b] => row'[k] = row[k]
    OBVIOUS
  <1>4. \/ stage' = "idle"
        \/ /\ scanned' \in FinalizedScanTargets(finEpoch)
           /\ stage' = "complete" => stage = "complete" /\ scanned' = scanned
    BY DEF RowsInv, ArchiveInv, archiveVars
  <1> QED
    BY <1>1, <1>2, <1>3, <1>4, TruthKept

---------------------------------------------------------------------------
(* Rewards of blocks: the promotion *)

\* The block of the polled checkpoint is on the final chain, and so is what is
\* confirmed from it.
LEMMA ConfirmedIsFinal ==
    ASSUME IInv, CheckpointInv, NEW root, IsAncestorAt(root, tip, EpochStartSlot(chkpt))
    PROVE  ConfirmedAncestry(root) \subseteq Ancestry[finRoot]
  <1>1. tip \in Blocks /\ finRoot \in Blocks
    BY DEF IInv, TypeOK, NodeTypeOK
  <1>2. root \in Blocks /\ root \in Ancestry[finRoot]
    BY <1>1, BlockFacts DEF IsAncestorAt, CheckpointInv
  <1>3. Ancestry[root] \subseteq Ancestry[finRoot]
    BY <1>1, <1>2, AncestryAssumption
  <1> QED
    BY <1>3 DEF ConfirmedAncestry

\* Where an epoch lies above the confirmed floor, every block of it on the final chain
\* is confirmed.
LEMMA ClosedIsConfirmed ==
    ASSUME IInv, CheckpointInv, NEW root, IsAncestorAt(root, tip, EpochStartSlot(chkpt)),
           NEW first \in ConfirmedAncestry(root),
           NEW k \in SlotKeys, Closed(EpochOf(k), BlockSlot[first]),
           NEW b \in Ancestry[finRoot], BlockSlot[b] = k[2]
    PROVE  b \in ConfirmedAncestry(root)
  <1>1. /\ tip \in Blocks /\ finRoot \in Blocks /\ chkpt \in Nat /\ EpochStartSlot(chkpt) \in Nat
        /\ root \in Blocks /\ b \in Blocks
    BY EpochStartIncreases, BlockFacts DEF IInv, TypeOK, NodeTypeOK, IsAncestorAt
  <1>2. k[2] \in Nat /\ k[2] < EpochStartSlot(chkpt)
    BY <1>1, DecidedSlots DEF Closed
  <1>3. b \in Ancestry[root]
    <2>1. b \in Ancestry[tip]
      BY <1>1, <1>2 DEF CheckpointInv
    <2> QED
      BY <1>1, <1>2, <2>1, BelowAncestor
  <1>4. first \in Blocks /\ BlockSlot[first] \in Nat
    BY <1>1, BlockFacts DEF ConfirmedAncestry
  <1>5. BlockSlot[first] <= k[2]
    <2>1. EpochOf(k) = SlotToEpoch(k[2])
      BY DEF SlotKeys, EpochOf
    <2>2. EpochStartSlot(EpochOf(k)) <= k[2]
      BY <1>2, <2>1, SlotToEpochBounds
    <2>3. EpochStartSlot(EpochOf(k)) \in Nat
      BY <1>2, <2>1, SlotToEpochBounds, EpochStartIncreases
    <2> QED
      BY <1>2, <1>4, <2>2, <2>3 DEF Closed
  <1>6. \A x \in Ancestry[root] : BlockSlot[b] <= BlockSlot[x] => x \in stored
    <2> SUFFICES ASSUME NEW x \in Ancestry[root], BlockSlot[b] <= BlockSlot[x]
                 PROVE  x \in stored
      OBVIOUS
    <2>1. BlockSlot[x] \in Nat
      BY <1>1, BlockFacts
    <2>2. BlockSlot[first] <= BlockSlot[x]
      BY <1>2, <1>4, <1>5, <2>1
    <2> QED
      BY <2>2 DEF ConfirmedAncestry
  <1> QED
    BY <1>3, <1>6 DEF ConfirmedAncestry

\* Why a promotion is sound: a staged response is replayed only from a confirmed block
\* of the duty's slot, the final chain has one such block, and where an epoch is
\* completed each of its blocks is confirmed, has its row, and has its response.
LEMMA PromotionTrue ==
    ASSUME IInv, RewardInv, NEW root \in Blocks, Finalize(root)
    PROVE  /\ \A e \in completed' \ completed :
                 e \in FinalizedScanTargets(finEpoch) /\ RewardsTrue(e)'
           /\ \A k \in SlotKeys : row'[k].status = "missed" => row[k].status = "missed"
           /\ \A k \in SlotKeys, b \in Ancestry[finRoot] :
                 BlockSlot[b] = k[2] /\ row[k] = [status |-> "final", reward |-> b]
                    => row'[k] = row[k]
  <1> DEFINE confirmed == ConfirmedAncestry(root)
             table == AfterReplay(confirmed)
  <1>1. /\ IsAncestorAt(root, tip, EpochStartSlot(chkpt))
        /\ UNCHANGED nodeVars
    BY DEF Finalize
  <1>2. CASE UNCHANGED <<row, completed, gaps>>
    BY <1>2
  <1>3. ASSUME NEW first \in confirmed, NEW proven, NEW covered,
               covered \subseteq {e \in Epochs : Closed(e, BlockSlot[first]) /\ RowsThere(e, confirmed)},
               Promote(confirmed, proven, covered)
        PROVE  /\ \A e \in completed' \ completed :
                     e \in FinalizedScanTargets(finEpoch) /\ RewardsTrue(e)'
               /\ \A k \in SlotKeys : row'[k].status = "missed" => row[k].status = "missed"
               /\ \A k \in SlotKeys, b \in Ancestry[finRoot] :
                     BlockSlot[b] = k[2] /\ row[k] = [status |-> "final", reward |-> b]
                        => row'[k] = row[k]
    <2> DEFINE ready == {e \in covered : /\ AttestationKey(e) \in proven
                                         /\ Ready(table, confirmed, e)
                                         /\ e \notin completed}
    <2>1. /\ finRoot \in Blocks /\ chkpt \in Nat /\ finEpoch \in Nat /\ chkpt <= finEpoch
          /\ row \in [Keys -> RowType] /\ jobs \in [Keys -> JobType]
          /\ SlotKeys \subseteq Keys
      BY KeyEpochs DEF IInv, TypeOK, NodeTypeOK, RewardInv, CheckpointInv
    <2>2. confirmed \subseteq Ancestry[finRoot]
      BY <1>1, ConfirmedIsFinal DEF RewardInv
    <2>3. ASSUME NEW k \in SlotKeys, Replayed(confirmed, k), NEW b \in Ancestry[finRoot],
                 BlockSlot[b] = k[2]
          PROVE  jobs[k].reward = b
      <3>1. jobs[k].root \in Ancestry[finRoot] /\ jobs[k].root \in Blocks /\ jobs[k].reward = jobs[k].root
        BY <2>1, <2>2, <2>3, BlockFacts DEF Replayed, RewardInv, BlockJobs
      <3>2. BlockSlot[jobs[k].root] = k[2]
        BY <3>1 DEF RewardInv, BlockJobs
      <3> QED
        BY <2>1, <2>3, <3>1, <3>2, AncestryAssumption
    <2>4. \A k \in Keys : table[k] = IF Replayed(confirmed, k)
                                     THEN [row[k] EXCEPT !.reward = jobs[k].reward] ELSE row[k]
      BY DEF AfterReplay
    <2>5. \A k \in Keys : table[k] \in RowType /\ table[k].status = row[k].status
      BY <2>1, <2>4 DEF RowType, JobType, Roots
    <2>6. /\ completed' = completed \cup ready
          /\ \A k \in Keys : row'[k] = IF (k \in proven \/ EpochOf(k) \in ready) /\ table[k].status = "open"
                                       THEN [table[k] EXCEPT !.status = "final"] ELSE table[k]
      BY <1>3 DEF Promote
    <2> HIDE DEF table, ready
    <2>7. \A k \in SlotKeys : row'[k].status = "missed" => row[k].status = "missed"
      BY <2>1, <2>5, <2>6 DEF RowType
    <2>8. ASSUME NEW k \in SlotKeys, NEW b \in Ancestry[finRoot],
                 BlockSlot[b] = k[2], row[k] = [status |-> "final", reward |-> b]
          PROVE  row'[k] = row[k]
      <3>1. ASSUME Replayed(confirmed, k)
            PROVE  table[k] = row[k]
        <4>1. table[k] = [row[k] EXCEPT !.reward = b]
          BY <2>1, <2>3, <2>4, <2>8, <3>1
        <4> QED
          BY <2>8, <4>1
      <3>2. ASSUME ~Replayed(confirmed, k)
            PROVE  table[k] = row[k]
        BY <2>1, <2>4, <3>2
      <3>3. table[k] = row[k]
        BY <3>1, <3>2
      <3> QED
        BY <2>1, <2>6, <2>8, <3>3
    <2>9. ASSUME NEW e \in ready
          PROVE  e \in FinalizedScanTargets(finEpoch) /\ RewardsTrue(e)'
      <3>1. /\ Closed(e, BlockSlot[first]) /\ RowsThere(e, confirmed) /\ Ready(table, confirmed, e)
            /\ e \notin completed
        BY <1>3, <2>9 DEF ready
      <3>2. e \in FinalizedScanTargets(finEpoch)
        BY <2>1, <3>1, TargetsGrow DEF Closed
      <3>3. ASSUME NEW k \in SlotKeys, NEW b \in Ancestry[finRoot],
                   EpochOf(k) = e, BlockSlot[b] = k[2]
            PROVE  row'[k] = [status |-> "final", reward |-> b]
        <4>1. b \in confirmed
          BY <1>1, <3>1, <3>3, ClosedIsConfirmed DEF RewardInv
        <4>2. row[k].status # "absent"
          BY <3>1, <3>3, <4>1 DEF RowsThere
        <4>3. row[k].status # "missed"
          BY <3>3 DEF RewardInv, ArchiveInv
        <4>4. table[k].status \in {"open", "final"}
          BY <2>1, <2>5, <4>2, <4>3 DEF RowType
        <4>5. Staged(k, confirmed)
          BY <2>1, <3>1, <3>3, <4>4 DEF Ready
        <4>6. Replayed(confirmed, k)
          <5>1. EpochOf(k) <= chkpt
            BY <2>1, <3>1, <3>3, DecidedSlots DEF Closed
          <5>2. k[1] # "attestation"
            BY DEF SlotKeys
          <5> QED
            BY <3>1, <3>3, <4>2, <4>5, <5>1, <5>2 DEF Staged, Replayed
        <4>7. table[k].reward = b
          <5>1. jobs[k].reward = b
            BY <2>3, <3>3, <4>6
          <5>2. k \in Keys /\ row[k] \in RowType
            BY <2>1
          <5>3. table[k] = [row[k] EXCEPT !.reward = jobs[k].reward]
            BY <2>4, <4>6, <5>2
          <5> QED
            BY <5>1, <5>2, <5>3 DEF RowType
        <4>8. row'[k] = [table[k] EXCEPT !.status = "final"]
          <5>1. k \in Keys /\ table[k] \in RowType
            BY <2>1, <2>5
          <5> QED
            BY <2>6, <3>3, <4>4, <5>1 DEF RowType
        <4> QED
          BY <2>1, <2>5, <4>7, <4>8 DEF RowType
      <3>4. RewardsTrue(e)'
        BY <1>1, <3>3 DEF RewardsTrue, nodeVars
      <3> QED
        BY <3>2, <3>4
    <2> QED
      BY <2>6, <2>7, <2>8, <2>9
  <1>4. \/ UNCHANGED <<row, completed, gaps>>
        \/ \E first \in confirmed : \E proven :
              \E covered \in SUBSET {e \in Epochs : Closed(e, BlockSlot[first]) /\ RowsThere(e, confirmed)} :
                 Promote(confirmed, proven, covered)
    BY DEF Finalize
  <1> QED
    BY <1>2, <1>3, <1>4

---------------------------------------------------------------------------
(* Rewards of blocks: the jobs *)

LEMMA SlotKeyFacts ==
    /\ \A k \in SlotKeys : k[1] # "attestation" /\ EpochOf(k) = SlotToEpoch(k[2])
    /\ \A e : AttestationKey(e) \notin SlotKeys
    /\ NoKey \notin SlotKeys
  BY DEF SlotKeys, EpochOf, AttestationKey, NoKey

\* The table of jobs keeps its part when jobs are dropped or only change their status
\* to one that is not complete.
LEMMA JobTableKept ==
    ASSUME BlockJobs, job' \notin SlotKeys \/ UNCHANGED <<pc, job, basis, answer>>,
           \A k \in SlotKeys :
               \/ jobs'[k] = jobs[k]
               \/ /\ jobs'[k].status # "complete"
                  /\ jobs'[k].root \in Blocks => BlockSlot[jobs'[k].root] = k[2]
    PROVE  BlockJobs'
  BY DEF BlockJobs

LEMMA NoJobFacts == NoJob.status # "complete" /\ NoJob.root \notin Blocks
  BY NoBlockAssumption DEF NoJob

\* A slot's job is enqueued with the block that was recorded at that slot.
LEMMA CollectJobs ==
    ASSUME IInv, BlockJobs, CollectSome
    PROVE  BlockJobs'
  <1>1. PICK recorded \in SUBSET Collectable, epochs \in SUBSET Epochs :
             \E processed \in SUBSET recorded : Collect(recorded, processed, epochs)
    BY DEF CollectSome
  <1>2. PICK processed \in SUBSET recorded : Collect(recorded, processed, epochs)
    BY <1>1
  <1> DEFINE slotKeys == {k \in SlotKeys : /\ Tracked(EpochOf(k))
                                           /\ \E b \in processed : BlockSlot[b] = k[2]}
             rootOf == [k \in slotKeys |-> CHOOSE b \in processed : BlockSlot[b] = k[2]]
  <1>3. jobs' = Enqueued(jobs, slotKeys, rootOf)
    BY <1>2 DEF Collect
  <1>4. \A k \in slotKeys : BlockSlot[rootOf[k]] = k[2]
    OBVIOUS
  <1> HIDE DEF slotKeys, rootOf
  <1>5. \A k \in SlotKeys : \/ jobs'[k] = jobs[k]
                            \/ k \in slotKeys /\ jobs'[k].status = "pending" /\ jobs'[k].root = rootOf[k]
    BY <1>3, KeyEpochs DEF Enqueued
  <1>6. job' \notin SlotKeys
    BY DEF CollectSome, BlockJobs, pollVars
  <1> QED
    BY <1>4, <1>5, <1>6, JobTableKept

\* Attestation jobs aside, nothing else is enqueued.
LEMMA EnqueueJobs ==
    ASSUME IInv, BlockJobs, EnqueueRewards
    PROVE  BlockJobs'
  <1>1. \A k \in SlotKeys : jobs'[k] = jobs[k]
    BY KeyEpochs, SlotKeyFacts DEF EnqueueRewards, Enqueued
  <1>2. job' \notin SlotKeys
    BY DEF EnqueueRewards, BlockJobs, pollVars
  <1> QED
    BY <1>1, <1>2, JobTableKept

LEMMA DroppedJobs ==
    ASSUME IInv, BlockJobs,
           \/ Poll \/ Prune \/ ExpireJobs
           \/ (\E from : InvalidateFrom(from)) /\ EndPoll
    PROVE  BlockJobs'
  <1>1. job' \notin SlotKeys
    BY SlotKeyFacts DEF Poll, Prune, ExpireJobs, EndPoll, ParkJob, BlockJobs, pollVars
  <1>2. ASSUME NEW k \in SlotKeys
        PROVE  \/ jobs'[k] = jobs[k]
               \/ jobs'[k] = NoJob
               \/ jobs'[k] = [jobs[k] EXCEPT !.status = "needs_backfill"]
    BY <1>2, KeyEpochs DEF Poll, Prune, ExpireJobs, InvalidateFrom
  <1>3. ASSUME NEW k \in SlotKeys, jobs'[k] = [jobs[k] EXCEPT !.status = "needs_backfill"]
        PROVE  jobs'[k].status = "needs_backfill" /\ jobs'[k].root = jobs[k].root
    BY <1>3, KeyEpochs DEF IInv, TypeOK, JobType
  <1>4. \A k \in SlotKeys :
               \/ jobs'[k] = jobs[k]
               \/ /\ jobs'[k].status # "complete"
                  /\ jobs'[k].root \in Blocks => BlockSlot[jobs'[k].root] = k[2]
    BY <1>2, <1>3, NoJobFacts DEF BlockJobs
  <1> QED
    BY <1>1, <1>4, JobTableKept

\* The request of a slot's job names the job's block, and the answer is about it.
LEMMA RequestJobs ==
    ASSUME IInv, BlockJobs, CollectJob
    PROVE  BlockJobs'
  <1>1. ASSUME NEW k \in Keys, NEW b \in Blocks, CheckDependency(k, b)
        PROVE  BlockJobs'
    <2>1. job' = k /\ basis' = b /\ jobs' = jobs
      BY <1>1 DEF CheckDependency, dbVars
    <2>2. k \in SlotKeys => pc' = "fetch" /\ b = jobs[k].root
      BY <1>1, SlotKeyFacts DEF CheckDependency, DependsOn
    <2> QED
      BY <2>1, <2>2 DEF BlockJobs
  <1>2. ASSUME NEW x \in Blocks, ReadBefore(x)
        PROVE  BlockJobs'
    BY <1>2 DEF ReadBefore, dbVars, BlockJobs
  <1>3. ASSUME NEW x \in Blocks, FetchRewards(x)
        PROVE  BlockJobs'
    BY <1>3, SlotKeyFacts DEF FetchRewards, dbVars, BlockJobs
  <1>4. ASSUME ReadAfter \/ ConfirmDependency
        PROVE  BlockJobs'
    BY <1>4 DEF ReadAfter, ConfirmDependency, dbVars, pollVars, BlockJobs
  <1>5. ASSUME StageResponse
        PROVE  BlockJobs'
    <2>1. /\ pc = "stage" /\ pc' = "join" /\ UNCHANGED pollVars
          /\ jobs' = [jobs EXCEPT ![job] = [status |-> "complete", root |-> basis, reward |-> answer]]
      BY <1>5 DEF StageResponse
    <2>2. \A k \in SlotKeys : k # job => jobs'[k] = jobs[k]
      BY <2>1, KeyEpochs DEF IInv, TypeOK
    <2>3. job \in SlotKeys =>
             jobs'[job] = [status |-> "complete", root |-> basis, reward |-> answer]
      BY <2>1, KeyEpochs DEF IInv, TypeOK
    <2>4. UNCHANGED <<job, basis, answer>>
      BY <2>1 DEF pollVars
    <2> QED
      BY <2>1, <2>2, <2>3, <2>4 DEF BlockJobs
  <1>6. ASSUME JoinRewards \/ \E k \in Keys : JobFails(k)
        PROVE  BlockJobs'
    <2>1. job' = NoKey /\ jobs' = jobs
      BY <1>6 DEF JoinRewards, JobFails, ParkJob, dbVars
    <2> QED
      BY <2>1, SlotKeyFacts, JobTableKept
  <1> QED
    BY <1>1, <1>2, <1>3, <1>4, <1>5, <1>6 DEF CollectJob

---------------------------------------------------------------------------
(* Rewards of blocks: the theorems *)

\* What the archive writes about a duty of a slot in a decided epoch is the truth.
LEMMA ArchiveRowTrue ==
    ASSUME IInv, RowsInv, NEW k \in SlotKeys, EpochOf(k) \in FinalizedScanTargets(finEpoch)
    PROVE  /\ ArchiveRow(k).status = "missed" => \A b \in Ancestry[finRoot] : BlockSlot[b] # k[2]
           /\ \A b \in Ancestry[finRoot] :
                 BlockSlot[b] = k[2] => ArchiveRow(k) = [status |-> "final", reward |-> b]
  <1> DEFINE on == {x \in Blocks : Basis(k, finRoot, x)}
  <1>1. finRoot \in Blocks /\ k \in Keys /\ row[k] \in RowType
    BY KeyEpochs DEF IInv, TypeOK, NodeTypeOK
  <1>2. on = {x \in Ancestry[finRoot] : BlockSlot[x] = k[2]}
    BY <1>1, SlotKeyFacts, BlockFacts DEF Basis
  <1>3. \A b, x \in on : b = x
    BY <1>1, <1>2, AncestryAssumption
  <1>4. CASE ~ArchiveMayWrite(k)
    <2>1. ArchiveRow(k) = row[k] /\ EpochOf(k) \in completed
      BY <1>4 DEF ArchiveRow, ArchiveMayWrite
    <2> QED
      BY <2>1 DEF RowsInv, ArchiveInv, CompletedBlockRewardsOnChain, RewardsTrue
  <1>5. CASE ArchiveMayWrite(k) /\ on = {}
    BY <1>2, <1>5 DEF ArchiveRow
  <1>6. CASE ArchiveMayWrite(k) /\ on # {}
    <2>1. (CHOOSE y \in on : TRUE) \in on
      BY <1>6
    <2>2. ArchiveRow(k) = [status |-> "final", reward |-> CHOOSE y \in on : TRUE]
      BY <1>6 DEF ArchiveRow
    <2> HIDE DEF on
    <2> QED
      BY <1>2, <1>3, <2>1, <2>2
  <1> QED
    BY <1>4, <1>5, <1>6

\* The archive worker: upserts of a decided epoch, completed only after all of them.
LEMMA ArchiveTrue ==
    ASSUME IInv, IInv', RowsInv, CheckpointInv, Archive
    PROVE  RowsInv'
  <1>0. UNCHANGED nodeVars
    BY DEF Archive, ArchiveBegins, ArchiveAttestation, ArchiveBlocks, ArchiveCompletes, ArchiveFails
  <1>1. FinalityKept
    BY <1>0, NoNodeStepKeepsFinality DEF IInv
  <1>2. ASSUME NEW e \in Epochs, ArchiveBegins(e)
        PROVE  RowsInv'
    <2>1. /\ e \in FinalizedScanTargets(finEpoch)
          /\ UNCHANGED <<completed, row>> /\ scanned' = e /\ stage' = "attestations"
      BY <1>2 DEF ArchiveBegins, dbVars
    <2> QED
      BY <1>1, <2>1, TruthKept
  <1>3. ASSUME ArchiveAttestation
        PROVE  RowsInv'
    <2>1. /\ UNCHANGED <<completed, scanned>> /\ stage' = "blocks" /\ stage # "idle"
          /\ \A k \in SlotKeys : row'[k] = row[k]
      BY <1>3, KeyEpochs, SlotKeyFacts DEF ArchiveAttestation, IInv, TypeOK
    <2>2. scanned' \in FinalizedScanTargets(finEpoch)
      BY <2>1 DEF RowsInv, ArchiveInv
    <2> QED
      BY <1>1, <2>1, <2>2, TruthKept
  <1>4. ASSUME ArchiveBlocks
        PROVE  RowsInv'
    <2> DEFINE due == {k \in SlotKeys : EpochOf(k) = scanned}
    <2>1. PICK written \in SUBSET due :
            /\ row' = [k \in Keys |-> IF k \in written THEN ArchiveRow(k) ELSE row[k]]
            /\ IF written = due
               THEN stage' = "complete" /\ UNCHANGED scanned
               ELSE stage' = "idle" /\ scanned' = -1
      BY <1>4 DEF ArchiveBlocks
    <2>2. /\ scanned \in FinalizedScanTargets(finEpoch)
          /\ completed' = completed
          /\ UNCHANGED <<finRoot, finEpoch>>
      BY <1>4 DEF ArchiveBlocks, RowsInv, ArchiveInv, nodeVars
    <2>3. ASSUME NEW k \in SlotKeys
          PROVE  row'[k] = row[k] \/ (k \in written /\ EpochOf(k) = scanned /\ row'[k] = ArchiveRow(k))
      BY <2>1, KeyEpochs
    <2>4. \A k \in SlotKeys, b \in Ancestry[finRoot] :
              BlockSlot[b] = k[2] /\ row[k] = [status |-> "final", reward |-> b] => row'[k] = row[k]
      BY <2>2, <2>3, ArchiveRowTrue
    <2>5. \A e \in completed : RewardsTrue(e)'
      BY <2>2, <2>4 DEF RowsInv, CompletedBlockRewardsOnChain, RewardsTrue
    <2>6. CompletedBlockRewardsOnChain' /\ completed' \subseteq FinalizedScanTargets(finEpoch')
      BY <2>2, <2>5 DEF RowsInv, CompletedBlockRewardsOnChain
    <2>7. ASSUME NEW k \in SlotKeys, row'[k].status = "missed"
          PROVE  /\ EpochOf(k) \in FinalizedScanTargets(finEpoch')
                 /\ \A b \in Ancestry[finRoot'] : BlockSlot[b] # k[2]
      BY <2>2, <2>3, <2>7, ArchiveRowTrue DEF RowsInv, ArchiveInv
    <2>8. stage' # "idle" => scanned' \in FinalizedScanTargets(finEpoch')
      BY <2>1, <2>2
    <2>9. stage' = "complete" => RewardsTrue(scanned)'
      <3> SUFFICES ASSUME stage' = "complete", NEW k \in SlotKeys, NEW b \in Ancestry[finRoot],
                          EpochOf(k) = scanned, BlockSlot[b] = k[2]
                   PROVE  row'[k] = [status |-> "final", reward |-> b]
        BY <2>1, <2>2 DEF RewardsTrue
      <3>1. row'[k] = ArchiveRow(k)
        BY <2>1, KeyEpochs
      <3> QED
        BY <2>2, <3>1, ArchiveRowTrue
    <2> QED
      BY <2>6, <2>7, <2>8, <2>9 DEF RowsInv, ArchiveInv
  <1>5. ASSUME ArchiveCompletes
        PROVE  RowsInv'
    <2>1. /\ completed' = completed \cup {scanned} /\ UNCHANGED row /\ stage' = "idle"
          /\ scanned \in FinalizedScanTargets(finEpoch) /\ RewardsTrue(scanned)
          /\ UNCHANGED finRoot
      BY <1>5 DEF ArchiveCompletes, RowsInv, ArchiveInv, nodeVars
    <2>2. RewardsTrue(scanned) => \A e \in {scanned} : RewardsTrue(e)'
      BY <2>1 DEF RewardsTrue
    <2> QED
      BY <1>1, <2>1, <2>2, TruthKept
  <1>6. ASSUME ArchiveFails
        PROVE  RowsInv'
    <2>1. UNCHANGED <<completed, row>> /\ stage' = "idle"
      BY <1>6 DEF ArchiveFails, dbVars
    <2> QED
      BY <1>1, <2>1, TruthKept
  <1> QED
    BY <1>2, <1>3, <1>4, <1>5, <1>6 DEF Archive

LEMMA LiveTrue ==
    ASSUME IInv, IInv', RewardInv, Live
    PROVE  RowsInv'
  <1>0. CheckpointInv /\ RowsInv
    BY DEF RewardInv, RowsInv
  <1>1. UNCHANGED <<nodeVars, archiveVars>>
    BY DEF Live, Poll, Reconcile, CollectSome, BranchSwitched, EnqueueRewards, ExpireJobs, SelectJobs,
           CollectJob, CheckDependency, ReadBefore, FetchRewards, ReadAfter, ConfirmDependency,
           StageResponse, JoinRewards, JobFails, Finalize, Prune, Abort
  <1>2. ASSUME NEW root \in Blocks, Finalize(root)
        PROVE  RowsInv'
    <2>1. FinalityKept
      BY <1>0, <1>1, NoNodeStepKeepsFinality DEF IInv
    <2>2. \/ stage' = "idle"
          \/ /\ scanned' \in FinalizedScanTargets(finEpoch)
             /\ stage' = "complete" => stage = "complete" /\ scanned' = scanned
      BY <1>0, <1>1 DEF RowsInv, ArchiveInv, archiveVars
    <2> QED
      BY <1>0, <1>2, <2>1, <2>2, PromotionTrue, TruthKept
  <1>3. ASSUME ~\E root \in Blocks : Finalize(root)
        PROVE  /\ completed' = completed
               /\ \A k \in SlotKeys :
                     \/ row'[k] = row[k]
                     \/ row[k].status \in {"absent", "open"} /\ row'[k].status \in {"absent", "open"}
    <2>1. row \in [Keys -> RowType] /\ SlotKeys \subseteq Keys
      BY KeyEpochs DEF IInv, TypeOK
    <2>2. ASSUME NEW from, InvalidateFrom(from)
          PROVE  /\ completed' = completed
                 /\ \A k \in SlotKeys :
                       \/ row'[k] = row[k]
                       \/ row[k].status \in {"absent", "open"} /\ row'[k].status \in {"absent", "open"}
      BY <2>1, <2>2 DEF InvalidateFrom, NoRow
    <2>3. CASE CollectSome
      BY <2>1, <2>3 DEF CollectSome, Collect, Seeded, NoRow
    <2>4. CASE JoinRewards
      <3>1. completed' = completed /\ row' = Joined(job, answer)
        BY <2>4 DEF JoinRewards
      <3> QED
        BY <2>1, <3>1 DEF Joined
    <2>5. CASE \E b \in Blocks : Reconcile(b) \/ BranchSwitched(b)
      BY <2>2, <2>5 DEF Reconcile, BranchSwitched
    <2>6. ASSUME ~CollectSome, ~JoinRewards, ~\E b \in Blocks : Reconcile(b) \/ BranchSwitched(b)
          PROVE  UNCHANGED <<completed, row>>
      BY <1>3, <2>6
         DEF Live, Poll, EnqueueRewards, ExpireJobs, SelectJobs, CollectJob, CheckDependency, ReadBefore,
             FetchRewards, ReadAfter, ConfirmDependency, StageResponse, JobFails, Prune, Abort, dbVars
    <2> QED
      BY <2>3, <2>4, <2>5, <2>6
  <1> QED
    BY <1>0, <1>1, <1>2, <1>3, OpenRowsOnly

LEMMA LiveJobs ==
    ASSUME IInv, BlockJobs, Live
    PROVE  BlockJobs'
  <1>1. CASE \E b \in Blocks : Reconcile(b) \/ BranchSwitched(b)
    <2>1. (\E from : InvalidateFrom(from)) /\ EndPoll
      BY <1>1 DEF Reconcile, BranchSwitched
    <2> QED
      BY <2>1, DroppedJobs
  <1>3. CASE Poll \/ Prune \/ ExpireJobs
    BY <1>3, DroppedJobs
  <1>2. CASE SelectJobs \/ (\E root \in Blocks : Finalize(root)) \/ Abort
    <2>1. jobs' = jobs /\ job' \notin SlotKeys
      BY <1>2, SlotKeyFacts DEF SelectJobs, Finalize, Abort, EndPoll, ParkJob, BlockJobs, dbVars, pollVars
    <2> QED
      BY <2>1, JobTableKept
  <1> QED
    BY <1>1, <1>2, <1>3, CollectJobs, EnqueueJobs, RequestJobs DEF Live

LEMMA LiveCheckpoint ==
    ASSUME IInv, IInv', CheckpointInv, Live
    PROVE  CheckpointInv'
  <1>1. UNCHANGED nodeVars
    BY DEF Live, Poll, Reconcile, CollectSome, BranchSwitched, EnqueueRewards, ExpireJobs, SelectJobs,
           CollectJob, CheckDependency, ReadBefore, FetchRewards, ReadAfter, ConfirmDependency,
           StageResponse, JoinRewards, JobFails, Finalize, Prune, Abort
  <1>2. FinalityKept
    BY <1>1, NoNodeStepKeepsFinality DEF IInv
  <1>3. \/ UNCHANGED <<tip, chkpt>>
        \/ Poll
        \/ tip' = finRoot /\ chkpt' = 0
    BY DEF Live, Reconcile, CollectSome, BranchSwitched, EnqueueRewards, ExpireJobs, SelectJobs,
           CollectJob, CheckDependency, ReadBefore, FetchRewards, ReadAfter, ConfirmDependency,
           StageResponse, JoinRewards, JobFails, Finalize, Prune, Abort, EndPoll, pollVars
  <1> QED
    BY <1>1, <1>2, <1>3, CheckpointKept

LEMMA InitRewards == Init => RewardInv
  <1> SUFFICES ASSUME Init
               PROVE  RewardInv
    OBVIOUS
  <1>1. EpochStartSlot(0) = 0
    BY SlotsPerEpochAssumption DEF EpochStartSlot
  <1>2. CheckpointInv
    BY <1>1 DEF Init, NodeInit, CheckpointInv
  <1>3. BlockJobs
    BY KeyEpochs, SlotKeyFacts, NoJobFacts DEF Init, BlockJobs
  <1>4. ArchiveInv /\ completed = {}
    BY KeyEpochs DEF Init, ArchiveInv, NoRow
  <1> QED
    BY <1>2, <1>3, <1>4 DEF RewardInv, CompletedBlockRewardsOnChain

LEMMA RewardStep == IInv /\ IInv' /\ RewardInv /\ [Next]_vars => RewardInv'
  <1> SUFFICES ASSUME IInv, IInv', RewardInv, [Next]_vars
               PROVE  CheckpointInv' /\ BlockJobs' /\ RowsInv'
    BY DEF RewardInv, RowsInv
  <1>0. CheckpointInv /\ BlockJobs /\ RowsInv
    BY DEF RewardInv, RowsInv
  <1>1. ASSUME NodeStep \/ UNCHANGED vars
        PROVE  CheckpointInv' /\ BlockJobs' /\ RowsInv'
    <2>1. FinalityKept
      BY <1>0, <1>1, NodeKeepsFinality, NoNodeStepKeepsFinality DEF NodeStep, IInv, vars
    <2>2. UNCHANGED <<dbVars, pc, pollVars, archiveVars>>
      BY <1>1 DEF NodeStep, vars
    <2>3. UNCHANGED <<jobs, row, completed, pc, job, basis, answer, tip, chkpt, stage, scanned>>
      BY <2>2 DEF dbVars, pollVars, archiveVars
    <2>4. CheckpointInv'
      BY <1>0, <2>1, <2>3, CheckpointKept
    <2>5. BlockJobs'
      BY <1>0, <2>3, JobTableKept
    <2>6. stage' = "idle" \/ scanned' \in FinalizedScanTargets(finEpoch)
      BY <1>0, <2>3 DEF RowsInv, ArchiveInv
    <2>7. RowsInv'
      BY <1>0, <2>1, <2>3, <2>6, TruthKept
    <2> QED
      BY <2>4, <2>5, <2>7
  <1>2. ASSUME Live
        PROVE  CheckpointInv' /\ BlockJobs' /\ RowsInv'
    BY <1>0, <1>2, LiveCheckpoint, LiveJobs, LiveTrue
  <1>3. ASSUME Archive
        PROVE  CheckpointInv' /\ BlockJobs' /\ RowsInv'
    <2>1. UNCHANGED <<nodeVars, jobs, pc, pollVars>>
      BY <1>3 DEF Archive, ArchiveBegins, ArchiveAttestation, ArchiveBlocks, ArchiveCompletes,
                  ArchiveFails, dbVars
    <2>2. UNCHANGED <<pc, job, basis, answer, tip, chkpt>>
      BY <2>1 DEF pollVars
    <2>3. CheckpointInv'
      BY <1>0, <2>1, <2>2, NoNodeStepKeepsFinality, CheckpointKept DEF IInv
    <2>4. BlockJobs'
      BY <1>0, <2>1, <2>2, JobTableKept
    <2> QED
      BY <1>0, <1>3, <2>3, <2>4, ArchiveTrue
  <1>4. ASSUME Crash
        PROVE  CheckpointInv' /\ BlockJobs' /\ RowsInv'
    <2>1. /\ UNCHANGED nodeVars /\ tip' = finRoot /\ chkpt' = 0 /\ job' = NoKey
          /\ UNCHANGED <<jobs, row, completed>> /\ stage' = "idle"
      BY <1>4 DEF Crash, EndPoll, ParkJob, dbVars
    <2>2. FinalityKept
      BY <1>0, <2>1, NoNodeStepKeepsFinality DEF IInv
    <2>3. CheckpointInv'
      BY <1>0, <2>1, <2>2, CheckpointKept
    <2>4. BlockJobs'
      BY <1>0, <2>1, SlotKeyFacts, JobTableKept
    <2>5. RowsInv'
      BY <1>0, <2>1, <2>2, TruthKept
    <2> QED
      BY <2>3, <2>4, <2>5
  <1> QED
    BY <1>1, <1>2, <1>3, <1>4 DEF Next

\* What the promises about block rewards rest on: the poll's checkpoint is the node's,
\* a slot's job, request and response are about one block of the slot, and the archive
\* calls missed only what the final chain skips.
THEOREM RewardInvariant == Spec => []RewardInv
  <1>1. IInv /\ IInv' /\ RewardInv /\ [Next]_vars => RewardInv'
    BY RewardStep
  <1> QED
    BY InvariantHolds, InitRewards, <1>1, PTL DEF Spec

\* Whatever branches the rows, jobs and responses of an epoch were collected on, and
\* whichever worker completes it: a completed epoch has, for each duty in a block of the
\* final chain, a frozen row with the reward of that block (collect_job asks by root,
\* promote_collected replays from confirmed roots only).
THEOREM BlockRewardsOnChain == Spec => []CompletedBlockRewardsOnChain
  <1>1. RewardInv => CompletedBlockRewardsOnChain
    BY DEF RewardInv
  <1> QED
    BY RewardInvariant, <1>1, PTL

---------------------------------------------------------------------------
(* Rewards of attestations: the boundary *)

LEMMA AttestationKeyFacts ==
    /\ \A e \in Epochs : /\ AttestationKey(e) \in Keys /\ AttestationKey(e) \notin SlotKeys
                         /\ AttestationKey(e)[1] = "attestation" /\ AttestationKey(e)[2] = e
                         /\ EpochOf(AttestationKey(e)) = e
                         /\ AttestationKey(e) # NoKey
    /\ \A k \in Keys : k[1] = "attestation" => k[2] \in Epochs /\ k = AttestationKey(k[2])
    /\ \A k \in Keys : k[1] # "attestation" => k \in SlotKeys
    /\ \A k \in Keys : k \in SlotKeys \/ \E e \in Epochs : k = AttestationKey(e)
  <1>1. \A e \in Epochs : /\ AttestationKey(e) \in Keys /\ AttestationKey(e) \notin SlotKeys
                         /\ AttestationKey(e)[1] = "attestation" /\ AttestationKey(e)[2] = e
                         /\ EpochOf(AttestationKey(e)) = e
                         /\ AttestationKey(e) # NoKey
    BY KeyEpochs, SlotKeyFacts DEF AttestationKey, NoKey
  <1>2. \A k \in Keys : k \in SlotKeys \/ \E e \in Epochs : k = AttestationKey(e)
    BY DEF Keys, AttestationKey
  <1>3. \A k \in SlotKeys : k[1] # "attestation"
    BY SlotKeyFacts
  <1>4. ASSUME NEW k \in Keys, k[1] = "attestation"
        PROVE  k[2] \in Epochs /\ k = AttestationKey(k[2])
    <2>1. PICK e \in Epochs : k = AttestationKey(e)
      BY <1>2, <1>3, <1>4
    <2> QED
      BY <1>1, <2>1
  <1> QED
    BY <1>1, <1>2, <1>4

\* The boundary of an epoch is the slot before the start of the epoch after next.
LEMMA BoundarySlots ==
    ASSUME NEW e \in Epochs
    PROVE  /\ e \in Nat /\ Boundary(e) \in Nat
           /\ \A s \in Nat : e + 2 <= SlotToEpoch(s) => Boundary(e) <= s
           /\ \A c \in Nat : e + 2 <= c => Boundary(e) <= EpochStartSlot(c)
  <1>1. e \in Nat /\ e + 2 \in Nat /\ EpochStartSlot(e + 2) \in Nat
    BY KeyEpochs, EpochStartIncreases
  <1>2. EpochStartSlot(0) < EpochStartSlot(e + 2) /\ EpochStartSlot(0) \in Nat
    BY <1>1, EpochStartIncreases
  <1>3. Boundary(e) \in Nat /\ Boundary(e) <= EpochStartSlot(e + 2)
    BY <1>1, <1>2 DEF Boundary
  <1>4. ASSUME NEW s \in Nat, e + 2 <= SlotToEpoch(s)
        PROVE  Boundary(e) <= s
    <2>1. EpochStartSlot(e + 2) <= s
      BY <1>1, <1>4, EpochAtOrBelow
    <2> QED
      BY <1>1, <1>3, <2>1
  <1>5. ASSUME NEW c \in Nat, e + 2 <= c
        PROVE  Boundary(e) <= EpochStartSlot(c)
    <2>1. EpochStartSlot(e + 2) <= EpochStartSlot(c) /\ EpochStartSlot(c) \in Nat
      BY <1>1, <1>5, EpochStartIncreases
    <2> QED
      BY <1>1, <1>3, <2>1
  <1> QED
    BY <1>1, <1>3, <1>4, <1>5

LEMMA AttestationBasis ==
    ASSUME NEW e \in Epochs, NEW b, NEW x
    PROVE  Basis(AttestationKey(e), b, x) <=> IsAncestorAt(x, b, Boundary(e))
  BY AttestationKeyFacts DEF Basis

---------------------------------------------------------------------------
(* Rewards of attestations: the jobs that are due *)

\* Steps that make no attestation job pending and take no job into the batch.
LEMMA DueKept ==
    ASSUME JobsDue, UNCHANGED nodeVars,
           \A e \in Epochs : jobs'[AttestationKey(e)].status = "pending"
                             => jobs[AttestationKey(e)].status = "pending",
           pc' = "idle" \/ (pc # "idle" /\ tip' = tip),
           ~Collecting' \/ (Collecting /\ batch' \subseteq batch)
    PROVE  JobsDue'
  BY DEF JobsDue, Collecting, HeadEpoch, nodeVars

\* The head moves on to an epoch that is not an earlier one.
LEMMA NodeKeepsDue ==
    ASSUME MaxFallback = 0, IInv, IInv', JobsDue, NodeStep
    PROVE  JobsDue'
  <1>1. /\ peakEpoch \in Nat /\ peakEpoch' \in Nat /\ head \in Blocks /\ tip \in Blocks
        /\ UNCHANGED <<jobs, pc, tip, batch>>
        /\ HeadEpoch \in Nat
    BY BlockFacts DEF IInv, TypeOK, NodeTypeOK, NodeStep, dbVars, pollVars, HeadEpoch
  <1>2. peakEpoch <= peakEpoch' /\ peakEpoch' = SlotToEpoch(BlockSlot[head'])
    <2>1. ASSUME NEW b \in Blocks, MoveHead(b)
          PROVE  peakEpoch <= peakEpoch' /\ peakEpoch' = SlotToEpoch(BlockSlot[head'])
      <3>1. /\ peakEpoch <= SlotToEpoch(BlockSlot[b]) + MaxFallback /\ head' = b
            /\ peakEpoch' = Greater(peakEpoch, SlotToEpoch(BlockSlot[b]))
        BY <2>1 DEF MoveHead
      <3>2. SlotToEpoch(BlockSlot[b]) \in Nat
        BY BlockFacts
      <3> QED
        BY <1>1, <3>1, <3>2 DEF Greater
    <2>2. ASSUME NEW e, NEW r, AdvanceFinality(e, r)
          PROVE  peakEpoch <= peakEpoch' /\ peakEpoch' = SlotToEpoch(BlockSlot[head'])
      BY <1>1, <2>2 DEF AdvanceFinality, JobsDue
    <2> QED
      BY <2>1, <2>2 DEF NodeStep, NodeNext
  <1>3. HeadEpoch' = HeadEpoch
    BY <1>1 DEF HeadEpoch
  <1> QED
    BY <1>1, <1>2, <1>3, KeyEpochs DEF JobsDue, Collecting

\* Every step that may make an attestation job due finds the head past its boundary.
LEMMA LiveKeepsDue ==
    ASSUME IInv, IInv', JobsDue, Live
    PROVE  JobsDue'
  <1>0. /\ UNCHANGED nodeVars
        /\ jobs \in [Keys -> JobType] /\ batch \subseteq Keys /\ tip \in Blocks /\ head \in Blocks
    BY DEF IInv, TypeOK, NodeTypeOK, Live, Poll, Reconcile, CollectSome, BranchSwitched, EnqueueRewards,
           ExpireJobs, SelectJobs, CollectJob, CheckDependency, ReadBefore, FetchRewards, ReadAfter,
           ConfirmDependency, StageResponse, JoinRewards, JobFails, Finalize, Prune, Abort
  <1> DEFINE pending(e) == jobs[AttestationKey(e)].status = "pending"
             pending2(e) == jobs'[AttestationKey(e)].status = "pending"
  <1>1. CASE Poll
    <2>1. /\ tip' = head /\ pc' = "reconcile"
          /\ \A e \in Epochs : pending2(e) => pending(e)
      BY <1>0, <1>1, AttestationKeyFacts DEF Poll, NoJob
    <2>2. HeadEpoch' = peakEpoch /\ peakEpoch \in Nat
      BY <1>0, <2>1 DEF JobsDue, HeadEpoch, nodeVars, IInv, TypeOK, NodeTypeOK
    <2> QED
      BY <1>0, <2>1, <2>2 DEF JobsDue, Collecting, nodeVars
  <1>2. ASSUME NEW from, InvalidateFrom(from), EndPoll
        PROVE  JobsDue'
    <2>1. pc' = "idle" /\ \A e \in Epochs : pending2(e) => pending(e)
      BY <1>0, <1>2, AttestationKeyFacts DEF InvalidateFrom, EndPoll, NoJob
    <2> QED
      BY <1>0, <2>1, DueKept DEF Collecting
  <1>3. CASE CollectSome
    <2>1. PICK recorded \in SUBSET Collectable, epochs \in SUBSET Epochs :
               \E processed \in SUBSET recorded : Collect(recorded, processed, epochs)
      BY <1>3 DEF CollectSome
    <2>2. \A e \in Epochs : jobs'[AttestationKey(e)] = jobs[AttestationKey(e)]
      BY <1>0, <2>1, AttestationKeyFacts DEF Collect, Enqueued
    <2>3. pc = "reconcile" /\ pc' = "collected" /\ tip' = tip
      BY <1>3 DEF CollectSome, pollVars
    <2> QED
      BY <1>0, <2>2, <2>3, DueKept DEF Collecting
  <1>4. CASE EnqueueRewards
    <2> DEFINE due == {AttestationKey(e) : e \in {f \in RewardEpochs : MinEpoch <= f /\ Tracked(f)}}
    <2>1. /\ jobs' = Enqueued(jobs, due, [k \in due |-> NoBlock])
          /\ pc = "collected" /\ pc' = "expire" /\ tip' = tip
      BY <1>4 DEF EnqueueRewards, pollVars
    <2>2. ASSUME NEW e \in Epochs, AttestationKey(e) \in due
          PROVE  e + 2 <= HeadEpoch
      <3>1. PICK f \in RewardEpochs : AttestationKey(e) = AttestationKey(f)
        BY <2>2
      <3>2. e = f /\ e \in Nat
        BY <3>1, AttestationKeyFacts, KeyEpochs DEF RewardEpochs
      <3> DEFINE early == BlockSlot[tip] - LagSlots
      <3>3. /\ BlockSlot[tip] \in Nat /\ early \in Nat /\ early <= BlockSlot[tip]
            /\ e + 2 <= SlotToEpoch(early)
        BY <1>0, <3>2, BlockFacts, ConfigAssumption DEF RewardEpochs
      <3> HIDE DEF early
      <3>4. EpochStartSlot(e + 2) <= early /\ EpochStartSlot(e + 2) \in Nat
        BY <3>2, <3>3, EpochAtOrBelow, EpochStartIncreases
      <3>5. EpochStartSlot(e + 2) <= BlockSlot[tip]
        BY <3>3, <3>4
      <3> QED
        BY <3>2, <3>3, <3>5, EpochAtOrBelow DEF HeadEpoch
    <2> HIDE DEF due
    <2>3. \A e \in Epochs : pending2(e) => pending(e) \/ AttestationKey(e) \in due
      BY <1>0, <2>1, AttestationKeyFacts DEF Enqueued
    <2>4. \A e \in Epochs : pending2(e) => e + 2 <= HeadEpoch
      BY <2>1, <2>2, <2>3 DEF JobsDue
    <2>5. HeadEpoch \in Nat /\ peakEpoch \in Nat /\ HeadEpoch <= peakEpoch /\ HeadEpoch' = HeadEpoch
      BY <1>0, <2>1, BlockFacts DEF JobsDue, HeadEpoch, IInv, TypeOK, NodeTypeOK
    <2>6. ASSUME NEW e \in Epochs, pending2(e)
          PROVE  e + 2 <= peakEpoch
      <3>1. e \in Nat
        BY KeyEpochs
      <3>2. e + 2 <= HeadEpoch
        BY <2>4, <2>6
      <3> QED
        BY <2>5, <3>1, <3>2
    <2>7. ~Collecting'
      BY <2>1 DEF Collecting
    <2>8. UNCHANGED <<head, peakEpoch>>
      BY <1>0 DEF nodeVars
    <2>9. peakEpoch' = SlotToEpoch(BlockSlot[head'])
      BY <2>8 DEF JobsDue
    <2> QED
      BY <2>4, <2>5, <2>6, <2>7, <2>8, <2>9 DEF JobsDue
  <1>5. CASE ExpireJobs
    <2>1. /\ pc = "expire" /\ pc' = "select" /\ tip' = tip
          /\ \A e \in Epochs : pending2(e) => pending(e)
      BY <1>0, <1>5, AttestationKeyFacts DEF ExpireJobs, pollVars, JobType
    <2> QED
      BY <1>0, <2>1, DueKept DEF Collecting
  <1>6. CASE SelectJobs
    <2>1. /\ pc = "select" /\ pc' = "jobs" /\ tip' = tip /\ jobs' = jobs
          /\ \A k \in batch' : jobs[k].status = "pending"
      BY <1>6 DEF SelectJobs, dbVars
    <2> QED
      BY <1>0, <2>1, AttestationKeyFacts DEF JobsDue, Collecting, HeadEpoch, nodeVars
  <1>7. CASE CollectJob
    <2>1. /\ pc # "idle" /\ Collecting /\ tip' = tip
          /\ batch' \subseteq batch
      BY <1>7 DEF CollectJob, CheckDependency, ReadBefore, FetchRewards, ReadAfter, ConfirmDependency,
                  StageResponse, JoinRewards, JobFails, pollVars, Collecting
    <2>2. UNCHANGED jobs \/ StageResponse
      BY <1>7 DEF CollectJob, CheckDependency, ReadBefore, FetchRewards, ReadAfter, ConfirmDependency,
                  JoinRewards, JobFails, dbVars
    <2>3. \A e \in Epochs : pending2(e) => pending(e)
      BY <1>0, <2>2, AttestationKeyFacts DEF StageResponse
    <2> QED
      BY <1>0, <2>1, <2>3, DueKept
  <1>8. CASE \E root \in Blocks : Finalize(root)
    <2>1. pc = "jobs" /\ pc' = "prune" /\ UNCHANGED <<jobs, tip, batch>>
      BY <1>8 DEF Finalize, pollVars
    <2> QED
      BY <1>0, <2>1, DueKept DEF Collecting
  <1>9. CASE Prune \/ Abort
    <2>1. pc' = "idle" /\ \A e \in Epochs : pending2(e) => pending(e)
      BY <1>0, <1>9, AttestationKeyFacts DEF Prune, Abort, EndPoll, NoJob, dbVars
    <2> QED
      BY <1>0, <2>1, DueKept DEF Collecting
  <1>10. CASE \E b \in Blocks : Reconcile(b) \/ BranchSwitched(b)
    BY <1>2, <1>10 DEF Reconcile, BranchSwitched
  <1> QED
    BY <1>1, <1>3, <1>4, <1>5, <1>6, <1>7, <1>8, <1>9, <1>10 DEF Live

LEMMA StepKeepsDue ==
    ASSUME MaxFallback = 0, IInv, IInv', JobsDue, [Next]_vars
    PROVE  JobsDue'
  <1>1. CASE Archive
    <2>1. UNCHANGED <<nodeVars, jobs, pc, tip, batch>>
      BY <1>1 DEF Archive, ArchiveBegins, ArchiveAttestation, ArchiveBlocks, ArchiveCompletes,
                  ArchiveFails, dbVars, pollVars
    <2> QED
      BY <2>1 DEF JobsDue, Collecting, HeadEpoch, nodeVars
  <1>2. CASE Crash
    <2>1. UNCHANGED <<nodeVars, jobs>> /\ pc' = "idle"
      BY <1>2 DEF Crash, EndPoll, dbVars
    <2> QED
      BY <2>1, DueKept DEF Collecting
  <1>3. CASE UNCHANGED vars
    BY <1>3 DEF vars, dbVars, pollVars, nodeVars, JobsDue, Collecting, HeadEpoch
  <1> QED
    BY <1>1, <1>2, <1>3, NodeKeepsDue, LiveKeepsDue DEF Next

LEMMA InitDue == Init => JobsDue
  <1> SUFFICES ASSUME Init
               PROVE  JobsDue
    OBVIOUS
  <1>1. \A e \in Epochs : jobs[AttestationKey(e)] = NoJob
    BY AttestationKeyFacts DEF Init
  <1> QED
    BY <1>1 DEF Init, NodeInit, JobsDue, Collecting, NoJob

---------------------------------------------------------------------------
(* Rewards of attestations: the request *)

\* On a branch that has passed the boundary, a block that stands for it on another such
\* branch stands for it here too.
LEMMA OneBoundary ==
    ASSUME BoundariesDistinct, NEW e \in Epochs, NEW x, BoundaryBlock(e, x),
           NEW c \in Blocks, x \in Ancestry[c], Boundary(e) <= BlockSlot[c]
    PROVE  IsAncestorAt(x, c, Boundary(e))
  <1>1. x \in Blocks
    BY BlockFacts
  <1> QED
    BY <1>1 DEF BoundariesDistinct

\* The table of jobs and the request keep their part when attestation jobs change to a
\* status that is not complete, and the request is over or where it was.
LEMMA AttestationJobsKept ==
    ASSUME AttestationJobs,
           \A e \in Epochs : \/ jobs'[AttestationKey(e)] = jobs[AttestationKey(e)]
                            \/ jobs'[AttestationKey(e)].status # "complete",
           \/ job' = NoKey
           \/ /\ UNCHANGED <<job, basis, answer>>
              /\ pc' \notin {"after", "confirm", "stage", "join"}
           \/ /\ UNCHANGED <<job, basis, answer, pc>>
              /\ \/ head' = head
                 \/ NoReturn
    PROVE  AttestationJobs'
  <1>1. \A e \in Epochs : jobs'[AttestationKey(e)].status = "complete" =>
            /\ jobs'[AttestationKey(e)].reward = jobs'[AttestationKey(e)].root
            /\ BoundaryBlock(e, jobs'[AttestationKey(e)].root)
    BY DEF AttestationJobs
  <1>2. ASSUME NEW e \in Epochs, job' = AttestationKey(e)
        PROVE  /\ BoundaryBlock(e, basis')
               /\ pc' \in {"after", "confirm"} => answer' = basis' \/ basis' \notin Ancestry[head']
               /\ pc' \in {"stage", "join"} => answer' = basis'
    <2>1. job' = job /\ UNCHANGED <<basis, answer>>
      BY <1>2, AttestationKeyFacts
    <2>2. job = AttestationKey(e)
      BY <1>2, <2>1
    <2> QED
      BY <1>2, <2>1, <2>2, AttestationKeyFacts DEF AttestationJobs, NoReturn
  <1> QED
    BY <1>1, <1>2 DEF AttestationJobs, BoundaryBlock

\* Why the re-check of the dependency suffices: where the node has passed the boundary
\* with the dependency on its chain, its answer is about it; otherwise the head has left
\* the dependency, which ConfirmDependency finds out.
LEMMA RequestStaysOnBoundary ==
    ASSUME IInv, JobsReached, AttestationJobs, BoundariesDistinct, CollectJob
    PROVE  AttestationJobs'
  <1>0. /\ head \in Blocks /\ tip \in Blocks /\ BlockSlot[tip] \in Nat
        /\ jobs \in [Keys -> JobType] /\ batch \subseteq Keys
    BY BlockFacts DEF IInv, TypeOK, NodeTypeOK
  <1>1. ASSUME NEW k \in Keys, NEW b \in Blocks, CheckDependency(k, b)
        PROVE  AttestationJobs'
    <2>1. /\ job' = k /\ basis' = b /\ jobs' = jobs /\ pc' \in {"before", "fetch"}
          /\ pc = "jobs" /\ k \in batch /\ DependsOn(k, b)
      BY <1>1 DEF CheckDependency, IsNextJob, dbVars
    <2>2. ASSUME NEW e \in Epochs, k = AttestationKey(e)
          PROVE  BoundaryBlock(e, b)
      <3>2. Boundary(e) <= BlockSlot[tip]
        BY <2>1, <2>2 DEF JobsReached, Collecting
      <3>3. IsAncestorAt(b, tip, Boundary(e))
        BY <2>1, <2>2, AttestationKeyFacts, AttestationBasis DEF DependsOn
      <3> QED
        BY <1>0, <3>2, <3>3 DEF BoundaryBlock
    <2> QED
      BY <2>1, <2>2 DEF AttestationJobs, BoundaryBlock
  <1>2. ASSUME NEW x \in Blocks, ReadBefore(x)
        PROVE  AttestationJobs'
    <2>1. UNCHANGED <<jobs, job, basis, answer>> /\ pc' = "fetch"
      BY <1>2 DEF ReadBefore, dbVars
    <2> QED
      BY <2>1, AttestationJobsKept
  <1>3. ASSUME NEW x \in Blocks, FetchRewards(x)
        PROVE  AttestationJobs'
    <2>1. /\ UNCHANGED <<jobs, job, basis, nodeVars>> /\ answer' = x
          /\ pc' \in {"after", "confirm"} /\ Reached(job)
          /\ job[1] = "attestation" => Basis(job, head, x)
      BY <1>3 DEF FetchRewards, dbVars
    <2>2. ASSUME NEW e \in Epochs, job = AttestationKey(e), basis \in Ancestry[head]
          PROVE  x = basis
      <3>1. BoundaryBlock(e, basis)
        BY <2>2 DEF AttestationJobs
      <3>2. Boundary(e) <= BlockSlot[head] /\ IsAncestorAt(x, head, Boundary(e))
        BY <2>1, <2>2, AttestationKeyFacts, AttestationBasis DEF Reached
      <3>3. IsAncestorAt(basis, head, Boundary(e))
        BY <1>0, <2>2, <3>1, <3>2, OneBoundary
      <3> QED
        BY <1>0, <3>2, <3>3, AncestorUnique, BoundarySlots
    <2> QED
      BY <2>1, <2>2 DEF AttestationJobs, BoundaryBlock, nodeVars
  <1>4. ASSUME ReadAfter
        PROVE  AttestationJobs'
    <2>1. UNCHANGED <<jobs, job, basis, answer, head>> /\ pc = "after" /\ pc' = "confirm"
      BY <1>4 DEF ReadAfter, dbVars, pollVars, nodeVars
    <2> QED
      BY <2>1 DEF AttestationJobs, BoundaryBlock
  <1>5. ASSUME ConfirmDependency
        PROVE  AttestationJobs'
    <2>1. /\ UNCHANGED <<jobs, job, basis, answer>> /\ pc = "confirm" /\ pc' = "stage"
          /\ basis \in Ancestry[head]
      BY <1>5 DEF ConfirmDependency, Canonical, dbVars, pollVars
    <2> QED
      BY <2>1 DEF AttestationJobs, BoundaryBlock
  <1>6. ASSUME StageResponse
        PROVE  AttestationJobs'
    <2>1. /\ pc = "stage" /\ pc' = "join" /\ UNCHANGED <<job, basis, answer>>
          /\ jobs' = [jobs EXCEPT ![job] = [status |-> "complete", root |-> basis, reward |-> answer]]
      BY <1>6 DEF StageResponse, pollVars
    <2>2. ASSUME NEW e \in Epochs, job = AttestationKey(e)
          PROVE  /\ answer = basis /\ BoundaryBlock(e, basis)
                 /\ jobs'[AttestationKey(e)] = [status |-> "complete", root |-> basis, reward |-> answer]
      BY <1>0, <2>1, <2>2, AttestationKeyFacts DEF AttestationJobs
    <2>3. \A e \in Epochs : job # AttestationKey(e)
                             => jobs'[AttestationKey(e)] = jobs[AttestationKey(e)]
      BY <1>0, <2>1, AttestationKeyFacts
    <2> QED
      BY <2>1, <2>2, <2>3 DEF AttestationJobs, BoundaryBlock
  <1>7. ASSUME JoinRewards \/ \E k \in Keys : JobFails(k)
        PROVE  AttestationJobs'
    <2>1. job' = NoKey /\ jobs' = jobs
      BY <1>7 DEF JoinRewards, JobFails, ParkJob, dbVars
    <2> QED
      BY <2>1, AttestationJobsKept
  <1> QED
    BY <1>1, <1>2, <1>3, <1>4, <1>5, <1>6, <1>7 DEF CollectJob

LEMMA LiveKeepsRequests ==
    ASSUME IInv, JobsReached, AttestationJobs, BoundariesDistinct, Live
    PROVE  AttestationJobs'
  <1>0. jobs \in [Keys -> JobType]
    BY DEF IInv, TypeOK
  <1>1. ASSUME NEW from, InvalidateFrom(from), EndPoll
        PROVE  AttestationJobs'
    <2>1. job' = NoKey
      BY <1>1 DEF EndPoll, ParkJob
    <2>2. \A e \in Epochs : \/ jobs'[AttestationKey(e)] = jobs[AttestationKey(e)]
                           \/ jobs'[AttestationKey(e)].status # "complete"
      BY <1>0, <1>1, AttestationKeyFacts, NoJobFacts DEF InvalidateFrom
    <2> QED
      BY <2>1, <2>2, AttestationJobsKept
  <1>2. CASE Poll \/ ExpireJobs
    <2>1. UNCHANGED <<job, basis, answer>> /\ pc' \notin {"after", "confirm", "stage", "join"}
      BY <1>2 DEF Poll, ExpireJobs, pollVars
    <2>2. \A e \in Epochs : \/ jobs'[AttestationKey(e)] = jobs[AttestationKey(e)]
                           \/ jobs'[AttestationKey(e)].status # "complete"
      BY <1>0, <1>2, AttestationKeyFacts, NoJobFacts DEF Poll, ExpireJobs, JobType
    <2> QED
      BY <2>1, <2>2, AttestationJobsKept
  <1>3. CASE CollectSome
    <2>1. PICK recorded \in SUBSET Collectable, epochs \in SUBSET Epochs :
               \E processed \in SUBSET recorded : Collect(recorded, processed, epochs)
      BY <1>3 DEF CollectSome
    <2>2. \A e \in Epochs : jobs'[AttestationKey(e)] = jobs[AttestationKey(e)]
      BY <1>0, <2>1, AttestationKeyFacts DEF Collect, Enqueued
    <2>3. UNCHANGED <<job, basis, answer>> /\ pc' \notin {"after", "confirm", "stage", "join"}
      BY <1>3 DEF CollectSome, pollVars
    <2> QED
      BY <2>2, <2>3, AttestationJobsKept
  <1>4. CASE EnqueueRewards
    <2>1. UNCHANGED <<job, basis, answer>> /\ pc' \notin {"after", "confirm", "stage", "join"}
      BY <1>4 DEF EnqueueRewards, pollVars
    <2>2. \A e \in Epochs : \/ jobs'[AttestationKey(e)] = jobs[AttestationKey(e)]
                           \/ jobs'[AttestationKey(e)].status # "complete"
      BY <1>0, <1>4, AttestationKeyFacts DEF EnqueueRewards, Enqueued
    <2> QED
      BY <2>1, <2>2, AttestationJobsKept
  <1>5. CASE SelectJobs \/ \E root \in Blocks : Finalize(root)
    <2>1. /\ UNCHANGED <<jobs, job, basis, answer>>
          /\ pc' \notin {"after", "confirm", "stage", "join"}
      BY <1>5 DEF SelectJobs, Finalize, dbVars, pollVars
    <2> QED
      BY <2>1, AttestationJobsKept
  <1>6. CASE Prune \/ Abort
    <2>1. job' = NoKey
      BY <1>6 DEF Prune, Abort, EndPoll, ParkJob
    <2>2. \A e \in Epochs : \/ jobs'[AttestationKey(e)] = jobs[AttestationKey(e)]
                           \/ jobs'[AttestationKey(e)].status # "complete"
      BY <1>0, <1>6, AttestationKeyFacts, NoJobFacts DEF Prune, Abort, dbVars
    <2> QED
      BY <2>1, <2>2, AttestationJobsKept
  <1>7. CASE \E b \in Blocks : Reconcile(b) \/ BranchSwitched(b)
    BY <1>1, <1>7 DEF Reconcile, BranchSwitched
  <1>8. CASE CollectJob
    BY <1>8, RequestStaysOnBoundary
  <1> QED
    BY <1>2, <1>3, <1>4, <1>5, <1>6, <1>7, <1>8 DEF Live

LEMMA StepKeepsRequests ==
    ASSUME IInv, JobsReached, AttestationJobs, BoundariesDistinct, [Next]_vars, [NoReturn]_vars
    PROVE  AttestationJobs'
  <1>1. CASE NodeStep \/ UNCHANGED vars
    <2>1. UNCHANGED <<jobs, job, basis, answer, pc>>
      BY <1>1 DEF NodeStep, vars, dbVars, pollVars
    <2>2. head' = head \/ NoReturn
      BY DEF vars, nodeVars
    <2> QED
      BY <2>1, <2>2, AttestationJobsKept
  <1>2. CASE Archive
    <2>1. UNCHANGED <<jobs, job, basis, answer, pc, head>>
      BY <1>2 DEF Archive, ArchiveBegins, ArchiveAttestation, ArchiveBlocks, ArchiveCompletes,
                  ArchiveFails, dbVars, pollVars, nodeVars
    <2> QED
      BY <2>1, AttestationJobsKept
  <1>3. CASE Crash
    <2>1. jobs' = jobs /\ job' = NoKey
      BY <1>3 DEF Crash, EndPoll, ParkJob, dbVars
    <2> QED
      BY <2>1, AttestationJobsKept
  <1> QED
    BY <1>1, <1>2, <1>3, LiveKeepsRequests DEF Next

---------------------------------------------------------------------------
(* Rewards of attestations: the rows *)

\* What is settled about a decided epoch stays settled while its row does.
LEMMA SettledKept ==
    ASSUME IInv, FinalityKept, NEW e \in Epochs, e \in FinalizedScanTargets(finEpoch),
           NEW r, IsAncestorAt(r, finRoot, Boundary(e)), finRoot' \in Blocks
    PROVE  IsAncestorAt(r, finRoot', Boundary(e))
  <1>1. /\ finRoot \in Blocks /\ finEpoch \in Nat
        /\ EpochStartSlot(finEpoch) \in Nat /\ Boundary(e) \in Nat
        /\ Boundary(e) <= EpochStartSlot(finEpoch)
    BY BoundarySlots, ScanTargetBounds, EpochStartIncreases DEF IInv, TypeOK, NodeTypeOK
  <1>2. ASSUME NEW y \in Blocks, BlockSlot[y] <= Boundary(e)
        PROVE  y \in Ancestry[finRoot] <=> y \in Ancestry[finRoot']
    <2>1. BlockSlot[y] \in Nat /\ BlockSlot[y] <= EpochStartSlot(finEpoch)
      BY <1>1, <1>2, BlockFacts
    <2> QED
      BY <2>1 DEF FinalityKept
  <1>3. r \in Ancestry[finRoot] /\ BlockSlot[r] <= Boundary(e) /\ r \in Blocks
    BY <1>1, BlockFacts DEF IsAncestorAt
  <1>4. ASSUME NEW y \in Ancestry[finRoot'], BlockSlot[y] <= Boundary(e)
        PROVE  BlockSlot[y] <= BlockSlot[r]
    <2>1. y \in Ancestry[finRoot]
      BY <1>2, <1>4, BlockFacts
    <2> QED
      BY <1>4, <2>1 DEF IsAncestorAt
  <1> QED
    BY <1>2, <1>3, <1>4 DEF IsAncestorAt

\* A step that leaves the settled rows alone, or writes rewards of the final chain into
\* them, keeps what is said about completed epochs and the scan in progress.
LEMMA SettledRowsKept ==
    ASSUME IInv, IInv', AttestationRows, FinalityKept, RowsInv,
           \A e \in completed' \ completed : AttestationTrue(e)',
           \A e \in Epochs : AttestationTrue(e) =>
               \/ row'[AttestationKey(e)] = row[AttestationKey(e)]
               \/ AttestationTrue(e)',
           \/ stage' \notin {"blocks", "complete"}
           \/ stage \in {"blocks", "complete"} /\ scanned' = scanned
    PROVE  AttestationRows'
  <1>1. finRoot' \in Blocks /\ completed \subseteq Epochs /\ InFlight
    BY DEF IInv, TypeOK, NodeTypeOK
  <1>2. ASSUME NEW e \in Epochs, e \in FinalizedScanTargets(finEpoch), AttestationTrue(e)
        PROVE  AttestationTrue(e)'
    <2>1. CASE row'[AttestationKey(e)] = row[AttestationKey(e)]
      <3> DEFINE r == row[AttestationKey(e)].reward
      <3>1. row[AttestationKey(e)].status = "final" => IsAncestorAt(r, finRoot, Boundary(e))
        BY <1>2, AttestationBasis DEF AttestationTrue
      <3>2. row[AttestationKey(e)].status = "final" => IsAncestorAt(r, finRoot', Boundary(e))
        BY <1>1, <1>2, <3>1, SettledKept
      <3>3. row'[AttestationKey(e)].status = "final"
               => Basis(AttestationKey(e), finRoot', row'[AttestationKey(e)].reward)
        BY <2>1, <3>2, AttestationBasis
      <3>4. row'[AttestationKey(e)].status \in {"final", "missed"}
        BY <1>2, <2>1 DEF AttestationTrue
      <3> QED
        BY <3>3, <3>4 DEF AttestationTrue, Basis, AttestationKey
    <2> QED
      BY <1>2, <2>1
  <1>3. \A e \in completed : AttestationTrue(e)'
    BY <1>1, <1>2 DEF AttestationRows, RowsInv
  <1>4. stage \in {"blocks", "complete"} =>
           scanned \in Epochs /\ scanned \in FinalizedScanTargets(finEpoch) /\ AttestationTrue(scanned)
    BY <1>1 DEF AttestationRows, RowsInv, ArchiveInv, InFlight
  <1>5. \A e \in Epochs : stage \in {"blocks", "complete"} /\ e = scanned => AttestationTrue(e)'
    BY <1>2, <1>4
  <1>6. stage' \in {"blocks", "complete"} => AttestationTrue(scanned)'
    <2> SUFFICES ASSUME stage' \in {"blocks", "complete"}
                 PROVE  AttestationTrue(scanned)'
      OBVIOUS
    <2>1. scanned' = scanned /\ scanned \in Epochs /\ stage \in {"blocks", "complete"}
      BY <1>4
    <2>2. \A e \in Epochs : e = scanned => AttestationTrue(e)'
      BY <1>5, <2>1
    <2> QED
      BY <2>1, <2>2 DEF AttestationTrue
  <1> QED
    BY <1>3, <1>6 DEF AttestationRows

\* A response that is replayed from the final chain is the final chain's reward.
LEMMA ReplayedIsFinal ==
    ASSUME IInv, CheckpointInv, EpochStartSlot(finEpoch) <= BlockSlot[head], AttestationJobs, BoundariesDistinct,
           NEW roots \in SUBSET Ancestry[finRoot], NEW e \in Epochs, Replayed(roots, AttestationKey(e))
    PROVE  IsAncestorAt(jobs[AttestationKey(e)].reward, finRoot, Boundary(e))
  <1> DEFINE r == jobs[AttestationKey(e)].root
  <1>1. /\ head \in Blocks /\ finRoot \in Blocks /\ finEpoch \in Nat /\ chkpt \in Nat /\ chkpt <= finEpoch
        /\ IsAncestorAt(finRoot, head, EpochStartSlot(finEpoch))
        /\ EpochStartSlot(finEpoch) \in Nat /\ EpochStartSlot(finEpoch) <= BlockSlot[head]
        /\ BlockSlot[head] \in Nat
    BY EpochStartIncreases, BlockFacts DEF IInv, TypeOK, NodeTypeOK, CheckpointInv
  <1>2. e \in FinalizedScanTargets(chkpt) /\ r \in Ancestry[finRoot]
    BY AttestationKeyFacts DEF Replayed
  <1>3. jobs[AttestationKey(e)].reward = r /\ BoundaryBlock(e, r)
    BY DEF Replayed, AttestationJobs
  <1>4. /\ Boundary(e) \in Nat /\ Boundary(e) <= EpochStartSlot(finEpoch)
        /\ Boundary(e) <= BlockSlot[head]
    <2>1. e \in Nat /\ e + 2 <= finEpoch
      BY <1>1, <1>2, ScanTargetBounds
    <2>2. Boundary(e) \in Nat /\ Boundary(e) <= EpochStartSlot(finEpoch)
      BY <1>1, <2>1, BoundarySlots
    <2> QED
      BY <1>1, <2>2
  <1> HIDE DEF r
  <1>5. r \in Ancestry[head]
    BY <1>1, <1>2, AncestryAssumption DEF IsAncestorAt
  <1>6. IsAncestorAt(r, head, Boundary(e))
    BY <1>1, <1>3, <1>4, <1>5, OneBoundary
  <1>7. IsAncestorAt(r, finRoot, Boundary(e))
    BY <1>1, <1>4, <1>6, AncestorsNest
  <1> QED
    BY <1>3, <1>7

\* Why a promotion is sound: it completes an epoch only with its attestation response
\* staged on the confirmed chain, and what it replays is the final chain's reward.
LEMMA PromotionSettles ==
    ASSUME IInv, RewardInv, AttestationInv, BoundariesDistinct,
           NEW root \in Blocks, Finalize(root)
    PROVE  /\ \A e \in completed' \ completed : AttestationTrue(e)'
           /\ \A e \in Epochs : AttestationTrue(e) =>
                 \/ row'[AttestationKey(e)] = row[AttestationKey(e)]
                 \/ AttestationTrue(e)'
  <1> DEFINE confirmed == ConfirmedAncestry(root)
             table == AfterReplay(confirmed)
  <1>1. IsAncestorAt(root, tip, EpochStartSlot(chkpt)) /\ finRoot' = finRoot
    BY DEF Finalize, nodeVars
  <1>2. CASE UNCHANGED <<row, completed, gaps>>
    BY <1>2
  <1>3. ASSUME NEW first \in confirmed, NEW proven, NEW covered,
               covered \subseteq {e \in Epochs : Closed(e, BlockSlot[first]) /\ RowsThere(e, confirmed)},
               Promote(confirmed, proven, covered)
        PROVE  /\ \A e \in completed' \ completed : AttestationTrue(e)'
               /\ \A e \in Epochs : AttestationTrue(e) =>
                     \/ row'[AttestationKey(e)] = row[AttestationKey(e)]
                     \/ AttestationTrue(e)'
    <2> DEFINE ready == {e \in covered : /\ AttestationKey(e) \in proven
                                         /\ Ready(table, confirmed, e)
                                         /\ e \notin completed}
    <2>1. /\ row \in [Keys -> RowType] /\ jobs \in [Keys -> JobType] /\ chkpt \in Nat
          /\ CheckpointInv
      BY DEF IInv, TypeOK, RewardInv
    <2>2. confirmed \in SUBSET Ancestry[finRoot]
      BY <1>1, <2>1, ConfirmedIsFinal
    <2>3. \A e \in Epochs : Replayed(confirmed, AttestationKey(e))
             => IsAncestorAt(jobs[AttestationKey(e)].reward, finRoot, Boundary(e))
      BY <2>1, <2>2, ReplayedIsFinal DEF AttestationInv
    <2>4. \A k \in Keys : table[k] = IF Replayed(confirmed, k)
                                     THEN [row[k] EXCEPT !.reward = jobs[k].reward] ELSE row[k]
      BY DEF AfterReplay
    <2>5. \A k \in Keys : table[k] \in RowType /\ table[k].status = row[k].status
      BY <2>1, <2>4 DEF RowType, JobType, Roots
    <2>6. /\ completed' = completed \cup ready
          /\ \A k \in Keys : row'[k] = IF (k \in proven \/ EpochOf(k) \in ready) /\ table[k].status = "open"
                                       THEN [table[k] EXCEPT !.status = "final"] ELSE table[k]
      BY <1>3 DEF Promote
    <2> HIDE DEF table, ready
    <2>7. ASSUME NEW e \in Epochs, Replayed(confirmed, AttestationKey(e)),
                 row'[AttestationKey(e)].status \in {"final", "missed"}
          PROVE  AttestationTrue(e)'
      <3> DEFINE k == AttestationKey(e)
      <3>1. k \in Keys /\ row[k] \in RowType /\ table[k] \in RowType
        BY <2>1, <2>5, AttestationKeyFacts
      <3>2. table[k].reward = jobs[k].reward
        BY <2>4, <2>7, <3>1 DEF RowType
      <3>3. row'[k].reward = jobs[k].reward
        BY <2>6, <3>1, <3>2 DEF RowType
      <3>4. Basis(k, finRoot', row'[k].reward)
        BY <1>1, <2>3, <2>7, <3>3, AttestationBasis
      <3> QED
        BY <2>7, <3>4 DEF AttestationTrue, Basis, AttestationKey
    <2>8. ASSUME NEW e \in Epochs, AttestationTrue(e)
          PROVE  row'[AttestationKey(e)] = row[AttestationKey(e)] \/ AttestationTrue(e)'
      <3> DEFINE k == AttestationKey(e)
      <3>1. k \in Keys /\ row[k].status \in {"final", "missed"} /\ row'[k] = table[k]
        BY <2>5, <2>6, <2>8, AttestationKeyFacts DEF AttestationTrue
      <3>2. CASE Replayed(confirmed, k)
        BY <2>5, <2>7, <3>1, <3>2
      <3>3. CASE ~Replayed(confirmed, k)
        BY <2>4, <3>1, <3>3
      <3> QED
        BY <3>2, <3>3
    <2>9. ASSUME NEW e \in ready
          PROVE  AttestationTrue(e)'
      <3> DEFINE k == AttestationKey(e)
      <3>1. /\ Closed(e, BlockSlot[first]) /\ Ready(table, confirmed, e) /\ e \in Epochs
            /\ e \notin completed /\ k \in proven
        BY <1>3, <2>9 DEF ready
      <3>2. /\ k \in Keys /\ EpochOf(k) = e /\ k[2] = e /\ table[k] \in RowType
            /\ e \in FinalizedScanTargets(chkpt) /\ e <= chkpt
        BY <2>1, <2>5, <3>1, AttestationKeyFacts, ScanTargetBounds DEF Closed
      <3>3. table[k].status # "absent" /\ Staged(k, confirmed)
        BY <3>1 DEF Ready
      <3>4. Replayed(confirmed, k)
        BY <2>5, <3>1, <3>2, <3>3 DEF Replayed, Staged
      <3>5. row'[k].status \in {"final", "missed"}
        BY <2>6, <3>1, <3>2, <3>3 DEF RowType
      <3> QED
        BY <2>7, <3>1, <3>4, <3>5
    <2> QED
      BY <2>6, <2>8, <2>9
  <1>4. \/ UNCHANGED <<row, completed, gaps>>
        \/ \E first \in confirmed : \E proven :
              \E covered \in SUBSET {e \in Epochs : Closed(e, BlockSlot[first]) /\ RowsThere(e, confirmed)} :
                 Promote(confirmed, proven, covered)
    BY DEF Finalize
  <1> QED
    BY <1>2, <1>3, <1>4

\* Live writes other than a promotion leave a settled row alone.
LEMMA LiveKeepsSettled ==
    ASSUME IInv, Live, ~\E root \in Blocks : Finalize(root)
    PROVE  /\ completed' = completed
           /\ \A k \in Keys : row[k].status \in {"final", "missed"} => row'[k] = row[k]
  <1>1. row \in [Keys -> RowType]
    BY DEF IInv, TypeOK
  <1>2. ASSUME NEW from, InvalidateFrom(from)
        PROVE  /\ completed' = completed
               /\ \A k \in Keys : row[k].status \in {"final", "missed"} => row'[k] = row[k]
    BY <1>1, <1>2 DEF InvalidateFrom
  <1>3. CASE CollectSome
    BY <1>1, <1>3 DEF CollectSome, Collect, Seeded
  <1>4. CASE JoinRewards
    <2>1. completed' = completed /\ row' = Joined(job, answer)
      BY <1>4 DEF JoinRewards
    <2> QED
      BY <1>1, <2>1 DEF Joined
  <1>5. CASE \E b \in Blocks : Reconcile(b) \/ BranchSwitched(b)
    BY <1>2, <1>5 DEF Reconcile, BranchSwitched
  <1>6. ASSUME ~CollectSome, ~JoinRewards, ~\E b \in Blocks : Reconcile(b) \/ BranchSwitched(b)
        PROVE  UNCHANGED <<completed, row>>
    BY <1>6
       DEF Live, Poll, EnqueueRewards, ExpireJobs, SelectJobs, CollectJob, CheckDependency, ReadBefore,
           FetchRewards, ReadAfter, ConfirmDependency, StageResponse, JobFails, Prune, Abort, dbVars
  <1> QED
    BY <1>3, <1>4, <1>5, <1>6

LEMMA LiveSettles ==
    ASSUME IInv, IInv', RewardInv, AttestationInv, BoundariesDistinct, Live
    PROVE  AttestationRows'
  <1>1. CheckpointInv /\ RowsInv
    BY DEF RewardInv, RowsInv
  <1>2. UNCHANGED nodeVars /\ UNCHANGED <<stage, scanned>>
    BY DEF Live, Poll, Reconcile, CollectSome, BranchSwitched, EnqueueRewards, ExpireJobs, SelectJobs,
           CollectJob, CheckDependency, ReadBefore, FetchRewards, ReadAfter, ConfirmDependency,
           StageResponse, JoinRewards, JobFails, Finalize, Prune, Abort, archiveVars
  <1>3. FinalityKept
    BY <1>1, <1>2, NoNodeStepKeepsFinality DEF IInv
  <1>4. /\ \A e \in completed' \ completed : AttestationTrue(e)'
        /\ \A e \in Epochs : AttestationTrue(e) =>
              \/ row'[AttestationKey(e)] = row[AttestationKey(e)]
              \/ AttestationTrue(e)'
    <2>1. CASE \E root \in Blocks : Finalize(root)
      BY <2>1, PromotionSettles
    <2>2. CASE ~\E root \in Blocks : Finalize(root)
      BY <2>2, LiveKeepsSettled, AttestationKeyFacts DEF AttestationTrue
    <2> QED
      BY <2>1, <2>2
  <1> QED
    BY <1>1, <1>2, <1>3, <1>4, SettledRowsKept DEF AttestationInv

\* The archive writes the attestation row from the final chain before it completes.
LEMMA ArchiveSettles ==
    ASSUME IInv, IInv', RewardInv, AttestationInv, Archive
    PROVE  AttestationRows'
  <1>1. CheckpointInv /\ RowsInv /\ AttestationRows /\ InFlight /\ row \in [Keys -> RowType]
    BY DEF RewardInv, RowsInv, AttestationInv, IInv, TypeOK
  <1>2. UNCHANGED nodeVars
    BY DEF Archive, ArchiveBegins, ArchiveAttestation, ArchiveBlocks, ArchiveCompletes, ArchiveFails
  <1>3. FinalityKept
    BY <1>1, <1>2, NoNodeStepKeepsFinality DEF IInv
  <1>4. ASSUME NEW e \in Epochs, ArchiveBegins(e)
        PROVE  AttestationRows'
    <2>1. UNCHANGED <<completed, row>> /\ stage' = "attestations"
      BY <1>4 DEF ArchiveBegins, dbVars
    <2> QED
      BY <1>1, <1>3, <2>1, SettledRowsKept
  <1>5. CASE ArchiveAttestation
    <2> DEFINE k == AttestationKey(scanned)
    <2>1. /\ row' = [row EXCEPT ![k] = ArchiveRow(k)] /\ UNCHANGED <<completed, scanned, finRoot>>
          /\ stage = "attestations" /\ scanned \in Epochs
      BY <1>1, <1>5 DEF ArchiveAttestation, InFlight, nodeVars
    <2>2. k \in Keys /\ EpochOf(k) = scanned
      BY <2>1, AttestationKeyFacts
    <2>3. row'[k] = ArchiveRow(k)
      BY <1>1, <2>1, <2>2
    <2>4. /\ ArchiveRow(k).status \in {"final", "missed"}
          /\ ArchiveRow(k).status = "final" => Basis(k, finRoot, ArchiveRow(k).reward)
      <3> DEFINE on == {x \in Blocks : Basis(k, finRoot, x)}
      <3>1. CASE ~ArchiveMayWrite(k)
        <4>1. ArchiveRow(k) = row[k] /\ scanned \in completed
          BY <2>2, <3>1 DEF ArchiveRow, ArchiveMayWrite
        <4> QED
          BY <1>1, <4>1 DEF AttestationRows, AttestationTrue
      <3>2. CASE ArchiveMayWrite(k) /\ on = {}
        BY <3>2 DEF ArchiveRow
      <3>3. CASE ArchiveMayWrite(k) /\ on # {}
        <4>1. (CHOOSE y \in on : TRUE) \in on
          BY <3>3
        <4>2. ArchiveRow(k) = [status |-> "final", reward |-> CHOOSE y \in on : TRUE]
          BY <3>3 DEF ArchiveRow
        <4> QED
          BY <4>1, <4>2
      <3> QED
        BY <3>1, <3>2, <3>3
    <2>5. \A e \in Epochs : e = scanned => AttestationTrue(e)'
      BY <2>1, <2>3, <2>4 DEF AttestationTrue, Basis, AttestationKey
    <2>6. ASSUME NEW e \in Epochs, e # scanned
          PROVE  row'[AttestationKey(e)] = row[AttestationKey(e)]
      <3>1. AttestationKey(e) # k /\ AttestationKey(e) \in Keys
        BY <2>1, <2>6, AttestationKeyFacts
      <3> QED
        BY <1>1, <2>1, <3>1
    <2>7. AttestationTrue(scanned)'
      BY <2>1, <2>5 DEF AttestationTrue
    <2>8. \A e \in completed : AttestationTrue(e)'
      <3>1. completed \subseteq Epochs
        BY DEF IInv, TypeOK
      <3>2. ASSUME NEW e \in completed, e # scanned
            PROVE  AttestationTrue(e)'
        BY <1>1, <2>1, <2>6, <3>1, <3>2 DEF AttestationRows, AttestationTrue, Basis, AttestationKey
      <3> QED
        BY <2>5, <3>1, <3>2
    <2> QED
      BY <2>1, <2>7, <2>8 DEF AttestationRows
  <1>6. CASE ArchiveBlocks
    <2>1. /\ stage = "blocks" /\ UNCHANGED completed
          /\ stage' \notin {"blocks", "complete"} \/ scanned' = scanned
          /\ \A e \in Epochs : row'[AttestationKey(e)] = row[AttestationKey(e)]
      BY <1>6, AttestationKeyFacts DEF ArchiveBlocks
    <2> QED
      BY <1>1, <1>3, <2>1, SettledRowsKept
  <1>7. CASE ArchiveCompletes
    <2>1. /\ stage = "complete" /\ stage' = "idle" /\ UNCHANGED row /\ finRoot' = finRoot
          /\ completed' = completed \cup {scanned}
      BY <1>7 DEF ArchiveCompletes, nodeVars
    <2>2. \A e \in {scanned} : AttestationTrue(e)'
      BY <1>1, <2>1 DEF AttestationRows, AttestationTrue, Basis, AttestationKey
    <2> QED
      BY <1>1, <1>3, <2>1, <2>2, SettledRowsKept
  <1>8. CASE ArchiveFails
    <2>1. UNCHANGED <<completed, row>> /\ stage' = "idle"
      BY <1>8 DEF ArchiveFails, dbVars
    <2> QED
      BY <1>1, <1>3, <2>1, SettledRowsKept
  <1> QED
    BY <1>4, <1>5, <1>6, <1>7, <1>8 DEF Archive

LEMMA StepSettles ==
    ASSUME IInv, IInv', RewardInv, AttestationInv, BoundariesDistinct, [Next]_vars
    PROVE  AttestationRows'
  <1>1. CheckpointInv /\ RowsInv /\ AttestationRows
    BY DEF RewardInv, RowsInv, AttestationInv
  <1>2. CASE NodeStep \/ UNCHANGED vars
    <2>1. FinalityKept
      BY <1>1, <1>2, NodeKeepsFinality, NoNodeStepKeepsFinality DEF NodeStep, IInv, vars
    <2>2. UNCHANGED <<completed, row, stage, scanned>>
      BY <1>2 DEF NodeStep, vars, dbVars, archiveVars
    <2> QED
      BY <1>1, <2>1, <2>2, SettledRowsKept
  <1>3. CASE Crash
    <2>1. UNCHANGED nodeVars /\ UNCHANGED <<completed, row>> /\ stage' = "idle"
      BY <1>3 DEF Crash, dbVars
    <2>2. FinalityKept
      BY <1>1, <2>1, NoNodeStepKeepsFinality DEF IInv
    <2> QED
      BY <1>1, <2>1, <2>2, SettledRowsKept
  <1> QED
    BY <1>2, <1>3, LiveSettles, ArchiveSettles DEF Next

LEMMA InitAttestations == Init => AttestationInv
  <1> SUFFICES ASSUME Init
               PROVE  AttestationInv
    OBVIOUS
  <1>1. /\ head \in Blocks /\ finEpoch = 0 /\ EpochStartSlot(0) = 0 /\ BlockSlot[head] \in Nat
    BY HeadAssumption, BlockFacts, SlotsPerEpochAssumption DEF Init, NodeInit, EpochStartSlot
  <1>2. \A e \in Epochs : jobs[AttestationKey(e)] = NoJob
    BY AttestationKeyFacts DEF Init
  <1>3. EpochStartSlot(finEpoch) <= BlockSlot[head]
    BY <1>1
  <1>4. AttestationJobs
    BY <1>2, AttestationKeyFacts DEF Init, AttestationJobs, NoJob
  <1>5. AttestationRows
    BY DEF Init, AttestationRows
  <1> QED
    BY <1>3, <1>4, <1>5 DEF AttestationInv

\* The checkpoint is never ahead of the head.
LEMMA HeadPastCheckpoint ==
    ASSUME IInv, EpochStartSlot(finEpoch) <= BlockSlot[head], [Next]_vars
    PROVE  EpochStartSlot(finEpoch') <= BlockSlot[head']
  <1>1. head \in Blocks /\ BlockSlot[head] \in Nat /\ SlotToEpoch(BlockSlot[head]) \in Nat
    BY BlockFacts DEF IInv, TypeOK, NodeTypeOK
  <1>2. CASE NodeStep
    <2>1. ASSUME NEW b \in Blocks, MoveHead(b)
          PROVE  EpochStartSlot(finEpoch') <= BlockSlot[head']
      BY <2>1 DEF MoveHead
    <2>2. ASSUME NEW e \in Nat, NEW r \in Blocks, AdvanceFinality(e, r)
          PROVE  EpochStartSlot(finEpoch') <= BlockSlot[head']
      <3>1. e + 2 <= SlotToEpoch(BlockSlot[head]) /\ finEpoch' = e /\ head' = head
        BY <2>2 DEF AdvanceFinality, FinalityDistance
      <3>2. e <= SlotToEpoch(BlockSlot[head])
        BY <1>1, <3>1
      <3> QED
        BY <1>1, <3>1, <3>2, EpochAtOrBelow
    <2> QED
      BY <1>2, <2>1, <2>2 DEF NodeStep, NodeNext
  <1>3. CASE Live \/ Archive \/ Crash \/ UNCHANGED vars
    <2>1. UNCHANGED <<head, finEpoch>>
      BY <1>3 DEF Live, Poll, Reconcile, CollectSome, BranchSwitched, EnqueueRewards, ExpireJobs,
           SelectJobs, CollectJob, CheckDependency, ReadBefore, FetchRewards, ReadAfter,
           ConfirmDependency, StageResponse, JoinRewards, JobFails, Finalize, Prune, Abort, Archive,
           ArchiveBegins, ArchiveAttestation, ArchiveBlocks, ArchiveCompletes, ArchiveFails, Crash,
           vars, nodeVars
    <2> QED
      BY <2>1
  <1> QED
    BY <1>2, <1>3 DEF Next

LEMMA AttestationStep ==
    ASSUME BoundariesDistinct, IInv, IInv', RewardInv, JobsReached, AttestationInv,
           [Next]_vars, [NoReturn]_vars
    PROVE  AttestationInv'
  <1>1. EpochStartSlot(finEpoch') <= BlockSlot[head']
    BY HeadPastCheckpoint DEF AttestationInv
  <1>2. AttestationJobs'
    BY StepKeepsRequests DEF AttestationInv
  <1>3. AttestationRows'
    BY StepSettles
  <1> QED
    BY <1>1, <1>2, <1>3 DEF AttestationInv

\* While the head's epoch never falls, a poll collects an attestation job only from a
\* head past its boundary (latest_reward_epoch, when the job is enqueued).
THEOREM JobsAreReached == MaxFallback = 0 => (Spec => []JobsReached)
  <1> SUFFICES ASSUME MaxFallback = 0
               PROVE  Spec => []JobsReached
    OBVIOUS
  <1>1. IInv /\ IInv' /\ JobsDue /\ [Next]_vars => JobsDue'
    BY StepKeepsDue
  <1>2. IInv /\ JobsDue => JobsReached
    <2>1. IInv => tip \in Blocks /\ BlockSlot[tip] \in Nat
      BY BlockFacts DEF IInv, TypeOK
    <2> QED
      BY <2>1, BoundarySlots DEF JobsDue, JobsReached, HeadEpoch
  <1> QED
    BY InvariantHolds, InitDue, <1>1, <1>2, PTL DEF Spec

\* While the chain keeps its boundaries distinct and reached, and no dependency returns
\* before it is confirmed, every attestation request and response is about the block
\* before its boundary, and what is settled about a completed epoch is the final chain's
\* (collect_job, promote_collected, scan_epoch).
THEOREM AttestationInvariant ==
    BoundariesDistinct => (Spec /\ []JobsReached /\ [][NoReturn]_vars => []AttestationInv)
  <1> SUFFICES ASSUME BoundariesDistinct
               PROVE  Spec /\ []JobsReached /\ [][NoReturn]_vars => []AttestationInv
    OBVIOUS
  <1>1. IInv /\ IInv' /\ RewardInv /\ JobsReached /\ AttestationInv /\ [Next]_vars /\ [NoReturn]_vars
           => AttestationInv'
    BY AttestationStep
  <1> QED
    BY InvariantHolds, RewardInvariant, InitAttestations, <1>1, PTL DEF Spec

\* Under the same conditions the answer that collect_job stages is the one of its
\* dependency, whatever the head does between the reads: without them the two state reads
\* and the re-check can all see the right branch while the answer came from another.
THEOREM ResponsesFromDependency ==
    BoundariesDistinct => (Spec /\ []JobsReached /\ [][NoReturn]_vars => []StagedFromDependency)
  <1>1. RewardInv /\ AttestationInv => StagedFromDependency
    BY AttestationKeyFacts DEF RewardInv, BlockJobs, AttestationInv, AttestationJobs, StagedFromDependency
  <1> QED
    BY AttestationInvariant, RewardInvariant, <1>1, PTL

\* And a completed epoch reports the rewards of the final chain, attestations included,
\* whichever worker completed it.
THEOREM RewardsOnFinalChain ==
    BoundariesDistinct => (Spec /\ []JobsReached /\ [][NoReturn]_vars => []CompletedRewardsOnChain)
  <1>1. IInv /\ RewardInv /\ AttestationInv => CompletedRewardsOnChain
    <2> SUFFICES ASSUME IInv, RewardInv, AttestationInv, NEW k \in Keys,
                        EpochOf(k) \in completed, row[k].status # "missed",
                        k[1] = "attestation" \/ \E b \in Ancestry[finRoot] : BlockSlot[b] = k[2]
                 PROVE  Basis(k, finRoot, row[k].reward)
      BY DEF CompletedRewardsOnChain
    <2>1. ASSUME NEW e \in Epochs, k = AttestationKey(e)
          PROVE  Basis(k, finRoot, row[k].reward)
      <3>1. EpochOf(k) = e
        BY <2>1, AttestationKeyFacts
      <3>2. AttestationTrue(e)
        BY <3>1 DEF AttestationInv, AttestationRows
      <3> QED
        BY <2>1, <3>2 DEF AttestationTrue
    <2>2. ASSUME k \in SlotKeys
          PROVE  Basis(k, finRoot, row[k].reward)
      <3>1. k[1] # "attestation" /\ RewardsTrue(EpochOf(k))
        BY <2>2, SlotKeyFacts DEF RewardInv, CompletedBlockRewardsOnChain
      <3>2. PICK b \in Ancestry[finRoot] : BlockSlot[b] = k[2]
        BY <3>1
      <3>3. row[k] = [status |-> "final", reward |-> b]
        BY <2>2, <3>1, <3>2 DEF RewardsTrue
      <3> QED
        BY <3>1, <3>2, <3>3 DEF Basis
    <2> QED
      BY <2>1, <2>2, AttestationKeyFacts
  <1> QED
    BY InvariantHolds, RewardInvariant, AttestationInvariant, <1>1, PTL

=============================================================================
