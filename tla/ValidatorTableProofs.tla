------------------------ MODULE ValidatorTableProofs ------------------------
(***************************************************************************)
(* For every set of validators, word size and delay: no active validator   *)
(* is overlooked and every exit is known in time.                          *)
(***************************************************************************)
EXTENDS ValidatorTable, TLAPS

\* The last refresh is recent enough, and times are ordered.
AgeInv ==
    /\ fetched <= epoch
    /\ fresh <= epoch
    /\ running => epoch <= fresh + MaxAge
    /\ ~Idle => epoch <= fetched + MaxAge
    /\ running /\ ~Idle => fresh <= fetched

\* A validator exits no earlier than ExitDelay after its activation.
ExitInv ==
    \A v \in Validators : exit[v] # FarFuture =>
        exit[v] <= LastEpoch /\ exit[v] >= activation[v] + ExitDelay

\* What a row says of a validator: the scheduled activation, or -1 for one that was
\* pending when the row was read, and an exit only if it is the scheduled one.
Agrees(row, v) ==
    /\ row.activation \in {activation[v], 0 - 1}
    /\ row.exit \in {Null, exit[v]}

\* The row misses no exit that was scheduled before epoch t.
UpToDate(row, v, t) ==
    row.exit = Null => exit[v] = FarFuture \/ exit[v] >= t + ExitDelay

RowInv ==
    \A v \in Validators :
        /\ rows[v] # NoRow => Agrees(rows[v], v)
        /\ response[v] # NoRow => Agrees(response[v], v) /\ UpToDate(response[v], v, fetched)
        /\ running => rows[v] # NoRow /\ UpToDate(rows[v], v, fresh)
        /\ ~Idle /\ response[v] = NoRow => rows[v] # NoRow /\ UpToDate(rows[v], v, fetched)

ActivationInv ==
    \A v \in Validators : activation[v] \in 0..LastEpoch \cup {FarFuture}

TableInv == TypeOK /\ ActivationInv /\ AgeInv /\ ExitInv /\ RowInv

---------------------------------------------------------------------------

\* Far future wraps around to -1; the epochs of the instance do not wrap around.
LEMMA Casts ==
    /\ AsSigned(FarFuture) = 0 - 1
    /\ \A e \in 0..LastEpoch : AsSigned(e) = e
    /\ FarFuture \in Nat
    /\ \A e \in 0..LastEpoch : e # FarFuture /\ e # Null
    /\ Null \notin I64
    /\ 0 - 1 \in I64
    /\ 0..LastEpoch \subseteq I64
    /\ 0..LastEpoch \subseteq U64
    /\ FarFuture \in U64
BY ValidatorTableAssumption DEF AsSigned, FarFuture, Null, I64, U64

\* What a response binds agrees with the node and misses no exit.
LEMMA ResponseRow ==
    ASSUME TableInv, NEW v \in Validators
    PROVE  /\ RowOf(v) \in Row
           /\ RowOf(v) # NoRow
           /\ Agrees(RowOf(v), v)
           /\ UpToDate(RowOf(v), v, epoch)
<1>1. activation[v] \in 0..LastEpoch \cup {FarFuture}
  BY DEF TableInv, ActivationInv
<1>2. exit[v] \in 0..LastEpoch \cup {FarFuture}
  BY DEF TableInv, TypeOK, ExitInv, U64
<1>3. AsSigned(activation[v]) \in {activation[v], 0 - 1} /\ AsSigned(activation[v]) \in I64
  BY <1>1, Casts
<1>4. exit[v] # FarFuture => AsSigned(exit[v]) = exit[v] /\ exit[v] \in I64 /\ exit[v] # Null
  BY <1>2, Casts
<1>5. RowOf(v).activation = AsSigned(activation[v])
  BY DEF RowOf
<1>6. RowOf(v).exit = IF exit[v] = FarFuture THEN Null ELSE AsSigned(exit[v])
  BY DEF RowOf
<1>7. RowOf(v) \in Row
  BY <1>3, <1>4, Zenon DEF RowOf, Row
<1>8. RowOf(v) # NoRow
  BY <1>3, <1>5, Casts DEF NoRow
<1>9. Agrees(RowOf(v), v) /\ UpToDate(RowOf(v), v, epoch)
  BY <1>3, <1>4, <1>5, <1>6 DEF Agrees, UpToDate
<1> QED
  BY <1>7, <1>8, <1>9

LEMMA TableInit == Init => TableInv
<1> SUFFICES ASSUME Init PROVE TableInv
  OBVIOUS
<1>1. NoRow \in Row /\ Idle
  BY DEF Init, NoRow, Row, Idle
<1>2. ActivationInv
  BY DEF Init, ActivationInv
<1>3. activation \in [Validators -> U64] /\ exit \in [Validators -> U64]
  BY Casts DEF Init
<1>7. TypeOK
  <2>1. rows \in [Validators -> Row] /\ response \in [Validators -> Row]
    BY <1>1 DEF Init
  <2>2. epoch \in 0..LastEpoch /\ fetched \in 0..LastEpoch /\ fresh \in 0..LastEpoch
    BY ValidatorTableAssumption DEF Init
  <2> QED
    BY <1>3, <2>1, <2>2 DEF Init, TypeOK
<1>4. AgeInv
  BY <1>1, ValidatorTableAssumption DEF Init, AgeInv
<1>5. ExitInv
  BY DEF Init, ExitInv
<1>6. RowInv
  BY <1>1 DEF Init, RowInv
<1> QED
  BY <1>2, <1>7, <1>4, <1>5, <1>6 DEF TableInv

---------------------------------------------------------------------------

\* Epochs pass only while the last refresh is recent.
LEMMA EpochPassesKeeps == TableInv /\ EpochPasses => TableInv'
<1> SUFFICES ASSUME TableInv, EpochPasses PROVE TableInv'
  OBVIOUS
<1> USE DEF EpochPasses
<1>1. TypeOK' /\ ActivationInv'
  BY ValidatorTableAssumption DEF TableInv, TypeOK, ActivationInv
<1>2. Idle' <=> Idle
  BY DEF Idle
<1>3. AgeInv'
  BY <1>2, ValidatorTableAssumption DEF TableInv, TypeOK, AgeInv
<1>4. ExitInv'
  BY DEF TableInv, ExitInv
<1>5. RowInv'
  BY <1>2 DEF TableInv, RowInv, Agrees, UpToDate
<1> QED
  BY <1>1, <1>3, <1>4, <1>5 DEF TableInv

\* A pending validator has no exit, and its rows show the activation -1.
LEMMA ScheduleActivationKeeps ==
    ASSUME NEW v \in Validators, NEW e \in 0..LastEpoch,
           TableInv, ScheduleActivation(v, e)
    PROVE  TableInv'
<1> USE DEF ScheduleActivation
<1>1. activation' = [activation EXCEPT ![v] = e] /\ activation \in [Validators -> U64]
  BY DEF TableInv, TypeOK
<1>2. TypeOK' /\ ActivationInv'
  BY <1>1, Casts DEF TableInv, TypeOK, ActivationInv
<1>3. Idle' <=> Idle
  BY DEF Idle
<1>4. AgeInv'
  BY <1>3 DEF TableInv, AgeInv
<1>5. exit[v] = FarFuture
  BY Casts, ValidatorTableAssumption DEF TableInv, TypeOK, ExitInv, U64, FarFuture
<1>6. ExitInv'
  BY <1>1, <1>5 DEF TableInv, ExitInv
<1>7. ASSUME NEW u \in Validators, NEW row \in Row, row.activation # Null, Agrees(row, u)
      PROVE  Agrees(row, u)'
  <2>1. CASE u # v
    BY <1>1, <1>7, <2>1 DEF Agrees
  <2>2. CASE u = v
    <3>1. row.activation \in I64
      BY <1>7 DEF Row
    <3>2. FarFuture \notin I64
      BY ValidatorTableAssumption DEF FarFuture, I64
    <3> QED
      BY <1>7, <2>2, <3>1, <3>2 DEF Agrees
  <2> QED
    BY <2>1, <2>2
<1>8. ASSUME NEW u \in Validators, NEW row \in Row, row # NoRow, Agrees(row, u)
      PROVE  Agrees(row, u)'
  <2>1. row.activation \in {activation[u], 0 - 1}
    BY <1>8 DEF Agrees
  <2>2. activation[u] # Null
    BY ValidatorTableAssumption DEF TableInv, ActivationInv, FarFuture, Null
  <2>3. row.activation # Null
    BY <2>1, <2>2, Casts
  <2> QED
    BY <1>7, <1>8, <2>3
<1>9. RowInv'
  BY <1>3, <1>8 DEF TableInv, TypeOK, RowInv, UpToDate
<1> QED
  BY <1>2, <1>4, <1>6, <1>9 DEF TableInv

\* A new exit is ExitDelay after the epoch, so after every fetch made so far.
LEMMA ScheduleExitKeeps ==
    ASSUME NEW v \in Validators, NEW e \in 0..LastEpoch,
           TableInv, ScheduleExit(v, e)
    PROVE  TableInv'
<1> USE DEF ScheduleExit
<1>1. exit' = [exit EXCEPT ![v] = e] /\ exit \in [Validators -> U64]
  BY DEF TableInv, TypeOK
<1>2. TypeOK' /\ ActivationInv'
  BY <1>1, Casts DEF TableInv, TypeOK, ActivationInv
<1>3. Idle' <=> Idle
  BY DEF Idle
<1>4. AgeInv'
  BY <1>3 DEF TableInv, AgeInv
<1>5. activation[v] <= epoch /\ activation[v] \in Nat /\ epoch \in Nat /\ e >= epoch + ExitDelay
  BY DEF TableInv, TypeOK, TrulyActiveAt, U64
<1>6. ExitInv'
  BY <1>1, <1>5, ValidatorTableAssumption DEF TableInv, ExitInv
<1>7. ASSUME NEW u \in Validators, NEW row \in Row, Agrees(row, u)
      PROVE  Agrees(row, u)'
  <2>1. CASE u # v
    BY <1>1, <1>7, <2>1 DEF Agrees
  <2>2. CASE u = v
    <3>1. row.exit # FarFuture
      <4>1. row.exit \in I64 \cup {Null}
        BY DEF Row
      <4> QED
        BY <4>1, ValidatorTableAssumption DEF FarFuture, I64, Null
    <3> QED
      BY <1>1, <1>7, <2>2, <3>1 DEF Agrees
  <2> QED
    BY <2>1, <2>2
<1>8. ASSUME NEW u \in Validators, NEW row \in Row, NEW t \in Nat, t <= epoch, UpToDate(row, u, t)
      PROVE  UpToDate(row, u, t)'
  BY <1>1, <1>5, <1>8, ValidatorTableAssumption DEF UpToDate
<1>9. /\ fetched \in Nat /\ fetched <= epoch
      /\ fresh \in Nat /\ fresh <= epoch
  BY DEF TableInv, TypeOK, AgeInv
<1>10. RowInv'
  BY <1>3, <1>7, <1>8, <1>9 DEF TableInv, TypeOK, RowInv
<1> QED
  BY <1>2, <1>4, <1>6, <1>10 DEF TableInv

---------------------------------------------------------------------------

\* A response covers every validator that is active at the previous epoch or at this
\* one, so whoever is left out has been active for less than an epoch.
LEMMA FetchKeeps ==
    ASSUME NEW set, TableInv, Fetch(set), set \subseteq Validators,
           \A v \in Validators \ set :
               /\ running
               /\ \E e \in {epoch - 1, epoch} : v \notin ActiveAt(e)
    PROVE  TableInv'
<1> USE DEF Fetch, nodeVars
<1>1. response' = [v \in Validators |-> IF v \in set THEN RowOf(v) ELSE NoRow]
  OBVIOUS
<1>2. NoRow \in Row
  BY DEF NoRow, Row
<1>3. TypeOK' /\ ActivationInv'
  BY <1>1, <1>2, ResponseRow DEF TableInv, TypeOK, ActivationInv
<1>4. AgeInv'
  BY ValidatorTableAssumption DEF TableInv, TypeOK, AgeInv
<1>5. ExitInv'
  BY DEF TableInv, ExitInv
<1>6. ASSUME NEW v \in Validators
      PROVE  /\ rows[v] # NoRow => Agrees(rows[v], v)
             /\ running => rows[v] # NoRow /\ UpToDate(rows[v], v, fresh)
  BY DEF TableInv, RowInv
<1>7. ASSUME NEW v \in Validators, v \in set
      PROVE  /\ response'[v] = RowOf(v)
             /\ RowOf(v) # NoRow /\ Agrees(RowOf(v), v) /\ UpToDate(RowOf(v), v, epoch)
  BY <1>1, <1>7, ResponseRow
<1>8. ASSUME NEW v \in Validators, v \notin set
      PROVE  /\ response'[v] = NoRow
             /\ rows[v] # NoRow /\ UpToDate(rows[v], v, epoch)
  <2>1. response'[v] = NoRow /\ rows[v] # NoRow /\ Agrees(rows[v], v)
    BY <1>1, <1>6, <1>8
  <2>2. PICK e \in {epoch - 1, epoch} : v \notin ActiveAt(e)
    BY <1>8
  <2>3. ASSUME rows[v].exit = Null, exit[v] # FarFuture
        PROVE  exit[v] >= epoch + ExitDelay
    <3>1. ~(rows[v].activation <= e)
      BY <2>1, <2>2, <2>3 DEF ActiveAt
    <3>2. epoch \in Nat /\ activation[v] \in Nat /\ exit[v] \in Nat
      BY DEF TableInv, TypeOK, U64
    <3>3. rows[v].activation = activation[v] \/ rows[v].activation = 0 - 1
      BY <2>1 DEF Agrees
    <3>4. activation[v] >= epoch
      BY <3>1, <3>2, <3>3
    <3>5. exit[v] >= activation[v] + ExitDelay
      BY <2>3 DEF TableInv, ExitInv
    <3> QED
      BY <3>2, <3>4, <3>5, ValidatorTableAssumption
  <2> QED
    BY <2>1, <2>3 DEF UpToDate
<1>9. RowInv'
  BY <1>6, <1>7, <1>8 DEF RowInv, Agrees, UpToDate
<1> QED
  BY <1>3, <1>4, <1>5, <1>9 DEF TableInv

\* The row that is stored is as good as the response was.
LEMMA UpsertKeeps ==
    ASSUME NEW v \in Validators, TableInv, Upsert(v)
    PROVE  TableInv'
<1> USE DEF Upsert, nodeVars
<1>1. /\ rows' = [rows EXCEPT ![v] = response[v]]
      /\ response' = [response EXCEPT ![v] = NoRow]
      /\ rows \in [Validators -> Row] /\ response \in [Validators -> Row]
  BY DEF TableInv, TypeOK
<1>2. NoRow \in Row
  BY DEF NoRow, Row
<1>3. CASE \A u \in Validators \ {v} : response[u] = NoRow
  <2>1. running' = TRUE /\ fresh' = fetched /\ Idle' /\ ~Idle
    BY <1>1, <1>3 DEF Idle
  <2>2. TypeOK' /\ ActivationInv'
    BY <1>1, <1>2, <2>1 DEF TableInv, TypeOK, ActivationInv
  <2>3. AgeInv' /\ ExitInv'
    BY <2>1 DEF TableInv, AgeInv, ExitInv
  <2>4. RowInv'
    BY <1>1, <1>3, <2>1 DEF TableInv, RowInv, Agrees, UpToDate
  <2> QED
    BY <2>2, <2>3, <2>4 DEF TableInv
<1>4. CASE ~(\A u \in Validators \ {v} : response[u] = NoRow)
  <2>1. running' = running /\ fresh' = fresh /\ ~Idle' /\ ~Idle
    BY <1>1, <1>4 DEF Idle
  <2>2. TypeOK' /\ ActivationInv'
    BY <1>1, <1>2, <2>1 DEF TableInv, TypeOK, ActivationInv
  <2>3. AgeInv' /\ ExitInv'
    BY <2>1 DEF TableInv, AgeInv, ExitInv
  <2>4. ASSUME NEW row, NEW u \in Validators, running, UpToDate(row, u, fetched)
        PROVE  UpToDate(row, u, fresh)
    <3>1. fresh <= fetched /\ fresh \in Nat /\ fetched \in Nat /\ exit[u] \in Nat
      BY <2>1, <2>4 DEF TableInv, AgeInv, TypeOK, U64
    <3> QED
      BY <2>4, <3>1, ValidatorTableAssumption DEF UpToDate
  <2>5. RowInv'
    BY <1>1, <2>1, <2>4 DEF TableInv, RowInv, Agrees, UpToDate
  <2> QED
    BY <2>2, <2>3, <2>5 DEF TableInv
<1> QED
  BY <1>3, <1>4

\* Dropping a response, with or without the process, keeps the rows.
LEMMA DropKeeps == TableInv /\ (RefreshFails \/ Crash) => TableInv'
<1> SUFFICES ASSUME TableInv, RefreshFails \/ Crash PROVE TableInv'
  OBVIOUS
<1>1. /\ response' = [v \in Validators |-> NoRow]
      /\ UNCHANGED <<nodeVars, rows, fetched, fresh>>
      /\ running' \in BOOLEAN /\ (running' => running)
  BY DEF RefreshFails, Crash, TableInv, TypeOK
<1>2. NoRow \in Row /\ Idle'
  BY <1>1 DEF NoRow, Row, Idle
<1>3. TypeOK' /\ ActivationInv'
  BY <1>1, <1>2 DEF TableInv, TypeOK, ActivationInv, nodeVars
<1>4. AgeInv' /\ ExitInv'
  BY <1>1, <1>2 DEF TableInv, AgeInv, ExitInv, nodeVars
<1>5. RowInv'
  BY <1>1, <1>2 DEF TableInv, RowInv, Agrees, UpToDate, nodeVars
<1> QED
  BY <1>3, <1>4, <1>5 DEF TableInv

LEMMA TableStep == TableInv /\ [Next]_vars => TableInv'
<1> SUFFICES ASSUME TableInv, [Next]_vars PROVE TableInv'
  OBVIOUS
<1>1. CASE EpochPasses
  BY <1>1, EpochPassesKeeps
<1>2. CASE \E v \in Validators, e \in 0..LastEpoch : ScheduleActivation(v, e) \/ ScheduleExit(v, e)
  BY <1>2, ScheduleActivationKeeps, ScheduleExitKeeps
<1>3. CASE StartupFetch
  BY <1>3, FetchKeeps DEF StartupFetch
<1>4. CASE TickFetch
  <2>1. PICK e \in {epoch - 1, epoch} : running /\ Fetch(ActiveAt(e))
    BY <1>4 DEF TickFetch
  <2> QED
    BY <2>1, FetchKeeps DEF ActiveAt
<1>5. CASE \E v \in Validators : Upsert(v)
  BY <1>5, UpsertKeeps
<1>6. CASE RefreshFails \/ Crash
  BY <1>6, DropKeeps
<1>7. CASE UNCHANGED vars
  BY <1>7 DEF TableInv, TypeOK, ActivationInv, AgeInv, ExitInv, RowInv, Agrees, UpToDate,
              Idle, vars, nodeVars
<1> QED
  BY <1>1, <1>2, <1>3, <1>4, <1>5, <1>6, <1>7 DEF Next

LEMMA TableInvariant == Spec => []TableInv
BY TableInit, TableStep, PTL DEF Spec

---------------------------------------------------------------------------

LEMMA InvActiveKnown == TableInv => ActiveKnown
<1> SUFFICES ASSUME TableInv, running, NEW e \in 0..epoch, NEW v \in TrulyActiveAt(e)
             PROVE  v \in ActiveAt(e)
  BY DEF ActiveKnown
<1>1. v \in Validators /\ activation[v] <= e /\ e < exit[v]
  BY DEF TrulyActiveAt
<1>2. rows[v] # NoRow /\ Agrees(rows[v], v)
  BY <1>1 DEF TableInv, RowInv
<1>3. activation[v] \in Nat /\ e \in Nat
  BY <1>1 DEF TableInv, TypeOK, U64
<1>4. rows[v].activation <= e
  BY <1>1, <1>2, <1>3 DEF Agrees
<1>5. rows[v].exit = Null \/ rows[v].exit > e
  BY <1>1, <1>2 DEF Agrees
<1> QED
  BY <1>1, <1>2, <1>4, <1>5 DEF ActiveAt

LEMMA InvExitsKnown == TableInv => ExitsKnown
<1> SUFFICES ASSUME TableInv, running, NEW e \in 0..epoch, NEW v \in ActiveAt(e)
             PROVE  e < exit[v]
  BY DEF ExitsKnown
<1>1. /\ v \in Validators
      /\ rows[v] # NoRow
      /\ rows[v].exit = Null \/ rows[v].exit > e
  BY DEF ActiveAt
<1>2. Agrees(rows[v], v) /\ UpToDate(rows[v], v, fresh)
  BY <1>1 DEF TableInv, RowInv
<1>3. epoch \in 0..LastEpoch /\ fresh \in Nat /\ exit[v] \in Nat /\ e \in Nat /\ e <= epoch
  BY <1>1 DEF TableInv, TypeOK, U64
<1>4. CASE rows[v].exit = Null
  <2>1. CASE exit[v] = FarFuture
    BY <1>3, <2>1, ValidatorTableAssumption DEF FarFuture
  <2>2. CASE exit[v] >= fresh + ExitDelay
    <3>1. epoch <= fresh + MaxAge
      BY DEF TableInv, AgeInv
    <3> QED
      BY <1>3, <2>2, <3>1, ValidatorTableAssumption
  <2> QED
    BY <1>2, <1>4, <2>1, <2>2 DEF UpToDate
<1>5. CASE rows[v].exit # Null
  BY <1>1, <1>2, <1>5 DEF Agrees
<1> QED
  BY <1>4, <1>5

\* Whoever has duties in an epoch up to the head's is in the set every worker reads.
THEOREM ActiveAlwaysKnown == Spec => []ActiveKnown
BY TableInvariant, InvActiveKnown, PTL

\* Nobody is in the set of an epoch after its exit, while refreshes succeed often
\* enough (MaxAge < ExitDelay).
THEOREM ExitsAlwaysKnown == Spec => []ExitsKnown
BY TableInvariant, InvExitsKnown, PTL
============================================================================
