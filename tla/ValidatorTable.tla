--------------------------- MODULE ValidatorTable ---------------------------
(***************************************************************************)
(* The validators table (src/src/validators_update.rs and                  *)
(* src/src/db/scanner/validators.rs): seeded for all tracked validators at *)
(* start-up, refreshed about once per epoch for the validators the table   *)
(* itself counts as active, and read by every worker through               *)
(* active_validators_at.                                                   *)
(*                                                                         *)
(* The node keeps epochs as u64 with the largest value as "far future";    *)
(* the table keeps them as i64, written with `as i64`.  The word size is   *)
(* the constant Half (2^63), so that wrap-around is part of the model.     *)
(***************************************************************************)
EXTENDS Integers

CONSTANTS
    Validators,      \* the tracked validators
    Half,            \* half the number of u64 values
    LastEpoch,       \* bound of the instance on the epoch
    ActivationDelay, \* epochs between scheduling an activation and the activation
    ExitDelay,       \* the same for an exit (MAX_SEED_LOOKAHEAD + 1)
    MaxAge,          \* epochs that may pass without a refresh while the process runs
    MayPend          \* whether tracked validators may be pending: {FALSE} or BOOLEAN

FarFuture == 2 * Half - 1

ASSUME ValidatorTableAssumption ==
    /\ Half \in Nat \ {0, 1}
    /\ LastEpoch \in Nat
    /\ LastEpoch < Half
    /\ ActivationDelay \in Nat
    /\ ExitDelay \in Nat
    /\ MaxAge \in Nat
    /\ MaxAge < ExitDelay
    /\ MayPend \subseteq BOOLEAN

U64 == 0..FarFuture

I64 == (0 - Half)..(Half - 1)

Null == Half  \* SQL NULL, a value outside I64

NoRow == [activation |-> Null, exit |-> Null]

VARIABLES
    epoch,      \* the node's head epoch
    activation, \* activation_epoch of each validator in the node's state
    exit,       \* exit_epoch of each validator in the node's state
    rows,       \* the validators table
    running,    \* start-up has finished, the workers read the table
    response,   \* what is left to upsert of the response being stored
    fetched,    \* the epoch of that response
    fresh       \* the epoch of the last response stored completely

nodeVars == <<epoch, activation, exit>>

vars == <<nodeVars, rows, running, response, fetched, fresh>>

Row == [activation : I64 \cup {Null}, exit : I64 \cup {Null}]

TypeOK ==
    /\ epoch \in 0..LastEpoch
    /\ activation \in [Validators -> U64]
    /\ exit \in [Validators -> U64]
    /\ rows \in [Validators -> Row]
    /\ running \in BOOLEAN
    /\ response \in [Validators -> Row]
    /\ fetched \in 0..LastEpoch
    /\ fresh \in 0..LastEpoch

---------------------------------------------------------------------------
(* The table *)

\* Mutant: a cast that saturates instead of wrapping around.
SaturatingCast(n) == IF n < Half THEN n ELSE Half - 1

\* `n as i64`
AsSigned(n) == IF n < Half THEN n ELSE n - 2 * Half

\* What `update` binds for a validator of the response: far future exits are NULL.
RowOf(v) == [activation |-> AsSigned(activation[v]),
             exit       |-> IF exit[v] = FarFuture THEN Null ELSE AsSigned(exit[v])]

\* Mutant: a validator still counts as active in its exit epoch.
ActiveThroughExit(e) ==
    {v \in Validators : /\ rows[v] # NoRow
                        /\ rows[v].activation <= e
                        /\ rows[v].exit = Null \/ rows[v].exit >= e}

\* active_validators_at(e)
ActiveAt(e) ==
    {v \in Validators : /\ rows[v] # NoRow
                        /\ rows[v].activation <= e
                        /\ rows[v].exit = Null \/ rows[v].exit > e}

\* The validators the chain assigns duties to.
TrulyActiveAt(e) == {v \in Validators : activation[v] <= e /\ e < exit[v]}

\* No response is being stored.
Idle == \A v \in Validators : response[v] = NoRow

---------------------------------------------------------------------------
(* The node: epochs pass, activations and exits get scheduled. *)

\* While the process runs, a refresh succeeds every MaxAge epochs.
EpochPasses ==
    /\ epoch < LastEpoch
    /\ running => epoch < fresh + MaxAge
    /\ ~Idle => epoch < fetched + MaxAge
    /\ epoch' = epoch + 1
    /\ UNCHANGED <<activation, exit, rows, running, response, fetched, fresh>>

ScheduleActivation(v, e) ==
    /\ activation[v] = FarFuture
    /\ e > epoch + ActivationDelay
    /\ activation' = [activation EXCEPT ![v] = e]
    /\ UNCHANGED <<epoch, exit, rows, running, response, fetched, fresh>>

ScheduleExit(v, e) ==
    /\ v \in TrulyActiveAt(epoch)
    /\ exit[v] = FarFuture
    /\ e >= epoch + ExitDelay
    /\ exit' = [exit EXCEPT ![v] = e]
    /\ UNCHANGED <<epoch, activation, rows, running, response, fetched, fresh>>

---------------------------------------------------------------------------
(* The process *)

\* The response of get_validators("head", set) arrives.
Fetch(set) ==
    /\ Idle
    /\ set # {}
    /\ response' = [v \in Validators |-> IF v \in set THEN RowOf(v) ELSE NoRow]
    /\ fetched' = epoch
    /\ UNCHANGED <<nodeVars, rows, running, fresh>>

\* Start-up: update(all tracked validators), before any worker starts.
StartupFetch == ~running /\ Fetch(Validators)

\* run_update_loop: the validators active at the head's epoch, per the table.  The
\* head is read first, so an epoch may have begun since.
TickFetch == running /\ \E e \in {epoch - 1, epoch} : Fetch(ActiveAt(e))

\* upsert_validator, one row after the other; the last one completes the update.
Upsert(v) ==
    /\ response[v] # NoRow
    /\ rows' = [rows EXCEPT ![v] = response[v]]
    /\ response' = [response EXCEPT ![v] = NoRow]
    /\ IF \A u \in Validators \ {v} : response[u] = NoRow
       THEN running' = TRUE /\ fresh' = fetched
       ELSE UNCHANGED <<running, fresh>>
    /\ UNCHANGED <<nodeVars, fetched>>

\* A failed statement ends a refresh: the rest of the response is dropped.
RefreshFails ==
    /\ running
    /\ ~Idle
    /\ response' = [v \in Validators |-> NoRow]
    /\ UNCHANGED <<nodeVars, rows, running, fetched, fresh>>

\* Process stop, also a failed start-up.
Crash ==
    /\ running \/ ~Idle
    /\ running' = FALSE
    /\ response' = [v \in Validators |-> NoRow]
    /\ UNCHANGED <<nodeVars, rows, fetched, fresh>>

Init ==
    /\ epoch = 0
    /\ activation \in [Validators -> 0..LastEpoch \cup {e \in {FarFuture} : TRUE \in MayPend}]
    /\ exit = [v \in Validators |-> FarFuture]
    /\ rows = [v \in Validators |-> NoRow]
    /\ running = FALSE
    /\ response = [v \in Validators |-> NoRow]
    /\ fetched = 0
    /\ fresh = 0

Next ==
    \/ EpochPasses
    \/ \E v \in Validators, e \in 0..LastEpoch : ScheduleActivation(v, e) \/ ScheduleExit(v, e)
    \/ StartupFetch
    \/ TickFetch
    \/ \E v \in Validators : Upsert(v)
    \/ RefreshFails
    \/ Crash

Spec == Init /\ [][Next]_vars

---------------------------------------------------------------------------
(* Properties *)

\* No active validator is overlooked: whoever has duties in an epoch up to the
\* head's is in the set that active_validators_at returns for that epoch, also
\* a validator whose activation was scheduled after start-up.
ActiveKnown == running => \A e \in 0..epoch : TrulyActiveAt(e) \subseteq ActiveAt(e)

\* Exits are captured without a restart (validators_update.rs:12-17): a validator is
\* in no set of an epoch after its exit, although it is refreshed only while the
\* table counts it as active and refreshes fail or stop half-way.
ExitsKnown ==
    running => \A e \in 0..epoch : \A v \in ActiveAt(e) : e < exit[v]

\* "Pending validators are skipped" (validators_update.rs:15): the active set of
\* the head's epoch has no validator without an activation epoch.
PendingSkipped == running => \A v \in ActiveAt(epoch) : activation[v] # FarFuture
============================================================================
