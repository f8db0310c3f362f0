----------------------------- MODULE InputCache -----------------------------
(***************************************************************************)
(* cached_input (src/src/beacon_client/inputs.rs): the assignments of an   *)
(* epoch (attester, proposer and sync duties, committees) are kept in      *)
(* memory and in a table, together with the block they were anchored to.   *)
(* The workers of the process share the client, and every request to the   *)
(* node is a step of its own, so the head may move between any two.        *)
(*                                                                         *)
(* Abstractions.                                                           *)
(*  - One key of the cache: one epoch and endpoint.  Other keys do not     *)
(*    interact with it, but for the evictions of the LRU (Evict).          *)
(*  - The assignments of an epoch are a function of the last block at or   *)
(*    before some slot before the epoch starts: that block stands for the  *)
(*    response.                                                            *)
(*  - An answer marked optimistic is an error, as in the code.             *)
(***************************************************************************)
EXTENDS BeaconNode

CONSTANTS
    Workers,    \* the tasks that share the client
    InputEpoch, \* the epoch of the key
    Endpoints,  \* the kinds of input, see EndpointAssumption
    Null        \* no entry

Boundary == EpochStartSlot(InputEpoch)

\* An endpoint: the slot whose last block decides the response, whether the
\* response names that block as its dependent root, and whether the request
\* may fall back to a recent state.
ASSUME EndpointAssumption ==
    /\ InputEpoch \in Nat \ {0}
    /\ Endpoints \subseteq [decidedAt : 0..(Boundary - 1), named : BOOLEAN, recent : BOOLEAN]
    /\ Null \notin Blocks

\* Every slot up to the boundary has a last block at or before it (genesis).
ASSUME HeaderAssumption ==
    \A b \in Blocks, slot \in 0..Boundary : \E x \in Blocks : IsAncestorAt(x, b, slot)

VARIABLES
    endpoint,    \* the endpoint of the key
    memory,      \* its entry in input_cache
    row,         \* its row in beacon_inputs
    unavailable, \* whether unavailable_inputs has an entry younger than 30 seconds
    request      \* the call of each worker

inputVars == <<endpoint, memory, row, unavailable, request>>

\* A call: its stage, what its anchor is for, the slot of the walk, the entry it
\* works on, and the head it has pinned.  The other fields are history: what was
\* true meanwhile, whether the head moved, and whether the entry is sound.
Idle == [stage |-> "idle", goal |-> "none", slot |-> 0,
         anchor |-> Null, input |-> Null, pin |-> Null,
         seen |-> {}, moved |-> FALSE, sound |-> TRUE]

\* What the node says of the canonical chain with head b.
LastAt(b, slot) == CHOOSE x \in Blocks : IsAncestorAt(x, b, slot)

Decided(b) == LastAt(b, endpoint.decidedAt)

\* get_header of a slot: empty if the node answers 404.
HeaderAt(slot) == {b \in Ancestry[head] : BlockSlot[b] = slot}

At(w, stage) == request[w].stage = stage

Go(w, fields) == request' = [request EXCEPT ![w] = fields]

\* The call ends.
Leave(w) == Go(w, Idle)

\* The call with an empty hand.
Afresh(w) == [Idle EXCEPT !.seen = request[w].seen]

Entry(w) ==
  [anchor |-> request[w].anchor, input |-> request[w].input, sound |-> request[w].sound]

InputInit ==
  /\ endpoint \in Endpoints
  /\ memory = Null /\ row = Null /\ unavailable = FALSE
  /\ request = [w \in Workers |-> Idle]

(***************************************************************************)
(* Looking the key up, and whether what is found can be used.              *)
(***************************************************************************)

\* Mutant: the header of the anchor's slot is enough for every hit.
CheckHeader(hit) == "same"

\* A hit below the boundary, which may have been taken before the epoch
\* started, has its anchor worked out again; one at the boundary is compared
\* with the header of its slot.
Check(hit) == IF BlockSlot[hit.anchor] < Boundary THEN "head" ELSE "same"

Lookup(entry, otherwise) ==
  IF entry # Null
  THEN [Idle EXCEPT !.stage = Check(entry), !.goal = "reuse",
                    !.anchor = entry.anchor, !.input = entry.input, !.sound = entry.sound]
  ELSE [Idle EXCEPT !.stage = otherwise]

Request(w) ==
  /\ At(w, "idle")
  /\ Go(w, [Lookup(memory, "row") EXCEPT !.seen = {Decided(head)}])
  /\ UNCHANGED <<nodeVars, endpoint, memory, row, unavailable>>

ReadRow(w) ==
  /\ At(w, "row")
  /\ Go(w, [Lookup(row, "ask") EXCEPT !.seen = request[w].seen])
  /\ UNCHANGED <<nodeVars, endpoint, memory, row, unavailable>>

\* anchor_unchanged.  An empty slot is a 404, which ends the call.
CompareHeader(w) ==
  /\ At(w, "same")
  /\ LET found == HeaderAt(BlockSlot[request[w].anchor])
     IN IF found = {} THEN Leave(w)
        ELSE IF found = {request[w].anchor} THEN Go(w, [request[w] EXCEPT !.stage = "confirm"])
        ELSE Go(w, [Afresh(w) EXCEPT !.stage = "ask"])
  /\ UNCHANGED <<nodeVars, endpoint, memory, row, unavailable>>

(***************************************************************************)
(* input_anchor, called with one of three goals: "reuse" of an entry, the  *)
(* anchor of a "new" one, and the same "again" before it is stored.        *)
(***************************************************************************)

\* Mutant: a new entry is not compared with the anchor read again.
AnchorOnReuse(w, b) == request[w].goal = "reuse" => b = request[w].anchor

\* The recomputed anchor is still that of the entry.
AnchorHolds(w, b) == b = request[w].anchor

Anchored(w, b) ==
  CASE request[w].goal = "new" ->
         Go(w, [request[w] EXCEPT !.stage = "fetch", !.slot = 0, !.anchor = b])
    [] request[w].goal = "reuse" ->
         IF AnchorHolds(w, b) THEN Go(w, [request[w] EXCEPT !.stage = "confirm", !.slot = 0])
                              ELSE Go(w, [Afresh(w) EXCEPT !.stage = "ask"])
    [] request[w].goal = "again" ->
         IF AnchorHolds(w, b) THEN Go(w, [request[w] EXCEPT !.stage = "save", !.slot = 0])
                              ELSE Leave(w)

\* A head that has not passed the boundary is the anchor itself.
ReadHead(w) ==
  /\ At(w, "head")
  /\ IF BlockSlot[head] <= Boundary THEN Anchored(w, head)
     ELSE Go(w, [request[w] EXCEPT !.stage = "walk", !.slot = Boundary])
  /\ UNCHANGED <<nodeVars, endpoint, memory, row, unavailable>>

\* One header of the walk back from the boundary, two epochs at most.
Walk(w) ==
  LET slot == request[w].slot
      found == HeaderAt(slot)
  IN /\ At(w, "walk")
     /\ IF found # {} THEN \E b \in found : Anchored(w, b)
        ELSE IF slot > 0 /\ Boundary - (slot - 1) <= 2 * SlotsPerEpoch
        THEN Go(w, [request[w] EXCEPT !.slot = slot - 1])
        ELSE Leave(w)
     /\ UNCHANGED <<nodeVars, endpoint, memory, row, unavailable>>

(***************************************************************************)
(* Asking the node.                                                        *)
(***************************************************************************)

\* A key that was unavailable in the last 30 seconds is not asked for again.
Ask(w) ==
  /\ At(w, "ask")
  /\ IF unavailable THEN Leave(w) ELSE Go(w, [Afresh(w) EXCEPT !.stage = "head", !.goal = "new"])
  /\ UNCHANGED <<nodeVars, endpoint, memory, row, unavailable>>

\* A response: the negative entry of the key is dropped.
Answered(w, input) ==
  /\ Go(w, [request[w] EXCEPT !.stage = "confirm", !.input = input, !.pin = Null])
  /\ unavailable' = FALSE

\* A 404: it is remembered for 30 seconds.
NotFound(w) == Leave(w) /\ unavailable' = TRUE

\* get_input_response: whether the node has the state is its choice.
Fetch(w, available) ==
  /\ At(w, "fetch")
  /\ IF available THEN Answered(w, Decided(head))
     ELSE IF endpoint.recent
     THEN Go(w, [request[w] EXCEPT !.stage = "recent"]) /\ UNCHANGED unavailable
     ELSE NotFound(w)
  /\ UNCHANGED <<nodeVars, endpoint, memory, row>>

\* The committees of the current and the previous epoch, from the state of the
\* head, which is named by its root.
FetchRecent(w, available) ==
  LET headEpoch == SlotToEpoch(BlockSlot[head])
  IN /\ At(w, "recent")
     /\ IF available /\ SatSub(headEpoch, 1) <= InputEpoch /\ InputEpoch <= headEpoch
        THEN /\ Go(w, [request[w] EXCEPT !.stage = "pinned", !.input = Decided(head), !.pin = head])
             /\ UNCHANGED unavailable
        ELSE NotFound(w)
     /\ UNCHANGED <<nodeVars, endpoint, memory, row>>

CheckPin(w) ==
  LET found == HeaderAt(BlockSlot[request[w].pin])
  IN /\ At(w, "pinned")
     /\ IF found = {} THEN NotFound(w)
        ELSE IF found = {request[w].pin} THEN Answered(w, request[w].input)
        ELSE Leave(w) /\ UNCHANGED unavailable
     /\ UNCHANGED <<nodeVars, endpoint, memory, row>>

\* The dependent root of a response has to be canonical.  A new entry then has
\* its anchor worked out again.
Confirm(w) ==
  /\ At(w, "confirm")
  /\ IF endpoint.named /\ ~Canonical(request[w].input) THEN Leave(w)
     ELSE IF request[w].goal = "reuse" THEN Go(w, [request[w] EXCEPT !.stage = "keep"])
     ELSE Go(w, [request[w] EXCEPT !.stage = "head", !.goal = "again"])
  /\ UNCHANGED <<nodeVars, endpoint, memory, row, unavailable>>

\* The row is written, then the memory; the call returns the input.
Save(w) ==
  /\ At(w, "save")
  /\ row' = Entry(w)
  /\ Go(w, [request[w] EXCEPT !.stage = "keep"])
  /\ UNCHANGED <<nodeVars, endpoint, memory, unavailable>>

Keep(w) ==
  /\ At(w, "keep")
  /\ memory' = Entry(w)
  /\ Leave(w)
  /\ UNCHANGED <<nodeVars, endpoint, row, unavailable>>

(***************************************************************************)
(* What happens around a call.                                             *)
(***************************************************************************)

\* A request of the call fails, after the retries of get_response, or its answer
\* is optimistic.
CallFails(w) ==
  /\ ~At(w, "idle")
  /\ Leave(w)
  /\ UNCHANGED <<nodeVars, endpoint, memory, row, unavailable>>

\* invalidate_duty_caches, after a reorg the live worker noticed: the row stays.
Invalidate ==
  /\ memory' = Null /\ unavailable' = FALSE
  /\ UNCHANGED <<nodeVars, endpoint, row, request>>

\* The LRU drops the entry for others.
Evict ==
  /\ memory' = Null
  /\ UNCHANGED <<nodeVars, endpoint, row, unavailable, request>>

\* prune_inputs_before.
PruneInputs ==
  /\ row' = Null
  /\ UNCHANGED <<nodeVars, endpoint, memory, unavailable, request>>

\* Mutant: the delay never ends by itself.
DelayStays == FALSE

\* Thirty seconds pass.
DelayExpires ==
  /\ unavailable
  /\ unavailable' = FALSE
  /\ UNCHANGED <<nodeVars, endpoint, memory, row, request>>

InputsRestart ==
  /\ memory' = Null /\ unavailable' = FALSE
  /\ request' = [w \in Workers |-> Idle]
  /\ UNCHANGED <<endpoint, row>>

\* The head moves: the running calls have seen it.  Of a call that works out an
\* anchor, the move is recorded from the first header on; a second one makes a
\* new entry unsound.
Observed(call) ==
  LET walking == call.goal = "reuse" /\ call.stage = "walk"
      making == \/ call.goal = "new" /\ call.stage # "head"
                \/ call.goal = "again" /\ call.stage \notin {"save", "keep"}
  IN IF call.stage = "idle" THEN call
     ELSE [call EXCEPT !.seen = @ \cup {Decided(head')},
                       !.moved = @ \/ walking \/ making,
                       !.sound = @ /\ ~(making /\ call.moved)]

Observe ==
  /\ request' = [w \in Workers |-> Observed(request[w])]
  /\ UNCHANGED <<endpoint, memory, row, unavailable>>

CallStep(w) ==
  \/ Request(w) \/ ReadRow(w) \/ CompareHeader(w) \/ ReadHead(w) \/ Walk(w) \/ Ask(w)
  \/ \E available \in BOOLEAN : Fetch(w, available) \/ FetchRecent(w, available)
  \/ CheckPin(w) \/ Confirm(w) \/ Save(w) \/ Keep(w)

InputStep ==
  \/ \E w \in Workers : CallStep(w) \/ CallFails(w)
  \/ Invalidate \/ Evict \/ PruneInputs \/ DelayExpires

(***************************************************************************)
(* Properties.                                                             *)
(***************************************************************************)

Entries == [anchor : Blocks, input : Blocks, sound : BOOLEAN]

Calls ==
  [stage : {"idle", "row", "same", "head", "walk", "ask", "fetch", "recent", "pinned",
            "confirm", "save", "keep"},
   goal : {"none", "reuse", "new", "again"}, slot : 0..Boundary,
   anchor : Blocks \cup {Null}, input : Blocks \cup {Null}, pin : Blocks \cup {Null},
   seen : SUBSET Blocks, moved : BOOLEAN, sound : BOOLEAN]

InputTypeOK ==
  /\ endpoint \in Endpoints
  /\ memory \in Entries \cup {Null} /\ row \in Entries \cup {Null}
  /\ unavailable \in BOOLEAN
  /\ request \in [Workers -> Calls]

\* An entry holds the response of its anchor's chain: none is stored whose
\* response came from another branch than the anchor, unless the head moved
\* twice while it was made (from a branch and back to its anchor).
EntriesTrue ==
  \A e \in {memory, row} \ {Null} : e.sound => e.input = Decided(e.anchor)

\* A call returns what was true of the canonical chain at some moment of the
\* call, wherever the answer came from: memory, the table or the node.  Only a
\* reuse during whose walk the head moves is out of it, since the walk then
\* reads headers of two branches.
ReturnsCanonical ==
  \A w \in Workers :
    (At(w, "keep") /\ request[w].sound /\ (request[w].goal = "reuse" => ~request[w].moved))
      => request[w].input \in request[w].seen

\* While a walk is going on, the canonical chain has no block between its slot
\* and the boundary.
Skipped(call) ==
  call.stage = "walk" =>
    \A b \in Ancestry[head] : ~(call.slot < BlockSlot[b] /\ BlockSlot[b] <= Boundary)

\* What a running call knows.  A reuse holds an entry; a new entry has the
\* response of its anchor's chain, or, if the head moved once, of the chain of
\* the present head, which the second anchor then has to match.
CallTrue(call) ==
  LET own == call.input = Decided(call.anchor)
      holds == call.anchor \in Blocks /\ call.input \in Blocks
  IN /\ Decided(head) \in call.seen
     /\ call.goal = "none" => call.stage \in {"row", "ask"}
     /\ ~call.moved => Skipped(call)
     /\ call.goal = "reuse" =>
          /\ call.stage \in {"same", "head", "walk", "confirm", "keep"} /\ holds
          /\ call.stage = "same" => BlockSlot[call.anchor] >= Boundary
          /\ call.sound => own
          /\ (call.stage \in {"confirm", "keep"} /\ call.sound /\ ~call.moved)
               => call.input \in call.seen
     /\ call.goal = "new" =>
          /\ call.stage \in {"head", "walk", "fetch", "recent", "pinned", "confirm"}
          /\ ~call.moved => call.sound
          /\ call.stage \in {"fetch", "recent"} =>
               call.anchor \in Blocks /\ (~call.moved => Decided(call.anchor) = Decided(head))
          /\ call.stage \in {"pinned", "confirm"} => holds /\ call.input \in call.seen
     /\ call.goal = "again" =>
          call.stage \in {"head", "walk", "save", "keep"} /\ holds /\ call.input \in call.seen
     /\ (call.stage \in {"save", "keep"} /\ call.sound) => own
     /\ (call.goal = "again" /\ call.stage \in {"head", "walk"})
        \/ (call.goal = "new" /\ call.stage \in {"pinned", "confirm"}) =>
          (call.sound => own \/ (call.moved /\ call.input = Decided(head) /\ Skipped(call)))

\* The inductive invariant: what the entries and the running calls hold.
InputInv ==
  /\ InputTypeOK
  /\ EntriesTrue
  /\ \A w \in Workers : ~At(w, "idle") => CallTrue(request[w])

\* An entry that fails every call that finds it: one at the boundary whose slot
\* the canonical chain skips, or the response of another branch.
Stuck(e) ==
  e # Null /\ \/ BlockSlot[e.anchor] >= Boundary /\ HeaderAt(BlockSlot[e.anchor]) = {}
              \/ ~e.sound

\* A request of the call fails, or the node no longer has the state.  (A failure
\* that looks like an ordinary end of the call is not told apart.)
Unavailable(w) == Fetch(w, FALSE) \/ FetchRecent(w, FALSE) \/ (CallFails(w) /\ ~CallStep(w))

=============================================================================
