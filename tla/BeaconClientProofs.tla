------------------------- MODULE BeaconClientProofs -------------------------
(***************************************************************************)
(* Proofs about the caches of the client, for every block tree, every set  *)
(* of workers and every kind of input.                                     *)
(***************************************************************************)
EXTENDS BeaconClient, ChainProofs

---------------------------------------------------------------------------
(* Blocks and the inputs they decide *)

LEMMA BoundaryFacts ==
    /\ Boundary \in Nat
    /\ \A b \in Blocks : BlockSlot[b] \in Nat /\ Ancestry[b] \subseteq Blocks /\ b \in Ancestry[b]
    /\ 0..Boundary \subseteq Nat /\ 0 \in 0..Boundary /\ Boundary \in 0..Boundary
  BY EndpointAssumption, EpochStartIncreases, BlockSlotAssumption, AncestryAssumption DEF Boundary

\* LastAt is the ancestor at a slot, and the only one.
LEMMA LastAtIs ==
    ASSUME NEW b \in Blocks, NEW slot \in 0..Boundary
    PROVE  /\ LastAt(b, slot) \in Blocks
           /\ IsAncestorAt(LastAt(b, slot), b, slot)
           /\ \A x : IsAncestorAt(x, b, slot) => x = LastAt(b, slot)
  <1>1. \E x \in Blocks : IsAncestorAt(x, b, slot)
    BY HeaderAssumption
  <1>2. LastAt(b, slot) \in Blocks /\ IsAncestorAt(LastAt(b, slot), b, slot)
    BY <1>1 DEF LastAt
  <1>3. slot \in Nat
    BY BoundaryFacts
  <1> QED
    BY <1>2, <1>3, AncestorUnique

\* The slot that decides a response lies below the boundary.
LEMMA DecidedSlot ==
    ASSUME endpoint \in Endpoints
    PROVE  endpoint.decidedAt \in 0..Boundary
  BY EndpointAssumption, BoundaryFacts

LEMMA DecidedType ==
    ASSUME endpoint \in Endpoints, NEW b \in Blocks
    PROVE  Decided(b) \in Blocks
  BY DecidedSlot, LastAtIs DEF Decided

\* The anchor of a chain decides what the chain decides.
LEMMA AnchorDecides ==
    ASSUME endpoint \in Endpoints, NEW b \in Blocks, NEW a \in Blocks,
           IsAncestorAt(a, b, Boundary)
    PROVE  Decided(a) = Decided(b)
  <1> DEFINE slot == endpoint.decidedAt
  <1>1. slot \in 0..Boundary /\ slot \in Nat /\ Boundary \in Nat /\ slot <= Boundary
    BY DecidedSlot, BoundaryFacts
  <1>2. IsAncestorAt(LastAt(b, slot), b, slot)
    BY <1>1, LastAtIs
  <1>3. IsAncestorAt(LastAt(b, slot), a, slot)
    BY <1>1, <1>2, AncestorsNest
  <1> QED
    BY <1>1, <1>3, LastAtIs DEF Decided

\* So does any later block of the chain.
LEMMA LaterDecides ==
    ASSUME endpoint \in Endpoints, NEW b \in Blocks, NEW a \in Ancestry[b],
           Boundary <= BlockSlot[a]
    PROVE  Decided(a) = Decided(b)
  <1>1. a \in Blocks /\ BlockSlot[a] \in Nat /\ Boundary \in Nat
    BY BoundaryFacts
  <1>2. Boundary \in 0..Boundary
    BY <1>1
  <1> DEFINE x == LastAt(b, Boundary)
  <1>3. x \in Blocks /\ IsAncestorAt(x, b, Boundary) /\ BlockSlot[x] \in Nat
    BY <1>2, LastAtIs, BoundaryFacts
  <1>4. x \in Ancestry[a]
    BY <1>1, <1>3, AncestryAssumption DEF IsAncestorAt
  <1>5. Ancestry[a] \subseteq Ancestry[b]
    BY AncestryAssumption
  <1>6. IsAncestorAt(x, a, Boundary)
    BY <1>3, <1>4, <1>5 DEF IsAncestorAt
  <1> QED
    BY <1>1, <1>3, <1>6, AnchorDecides

\* A block of the canonical chain, found at the slot where an undisturbed walk
\* stands, is the chain's anchor.
LEMMA WalkFinds ==
    ASSUME endpoint \in Endpoints, head \in Blocks, NEW call, call.stage = "walk",
           Skipped(call), call.slot \in 0..Boundary,
           NEW b \in HeaderAt(call.slot)
    PROVE  b \in Blocks /\ Decided(b) = Decided(head)
  <1>1. b \in Ancestry[head] /\ BlockSlot[b] = call.slot /\ b \in Blocks
    BY BoundaryFacts DEF HeaderAt
  <1>2. IsAncestorAt(b, head, Boundary)
    BY <1>1, BoundaryFacts DEF IsAncestorAt, Skipped
  <1> QED
    BY <1>1, <1>2, AnchorDecides

---------------------------------------------------------------------------
(* The input cache *)

\* What a step has to leave in the two stores.
StoresOK ==
  /\ memory \in Entries \cup {Null} /\ row \in Entries \cup {Null}
  /\ unavailable \in BOOLEAN
  /\ EntriesTrue

\* A step of one call: it is enough to look at that call and at the stores.
LEMMA CallKeeps ==
    ASSUME InputInv, NEW w \in Workers, NEW call \in Calls, Go(w, call),
           UNCHANGED <<head, endpoint>>, StoresOK',
           call.stage # "idle" => CallTrue(call)
    PROVE  InputInv'
  <1>1. InputTypeOK'
    BY DEF InputInv, InputTypeOK, Go, StoresOK
  <1>2. ASSUME NEW v \in Workers, ~At(v, "idle")'
        PROVE  CallTrue(request[v])'
    <2>1. request'[v] = IF v = w THEN call ELSE request[v]
      BY DEF Go, InputInv, InputTypeOK
    <2>2. CallTrue(request'[v])
      BY <2>1, <1>2 DEF At, InputInv
    <2> QED
      BY <2>2 DEF CallTrue, Skipped, Decided, LastAt
  <1> QED
    BY <1>1, <1>2 DEF InputInv, StoresOK

\* A step that leaves the stores alone.
LEMMA StoresStay ==
    ASSUME InputInv, UNCHANGED <<endpoint, memory, row>>, unavailable' \in BOOLEAN
    PROVE  StoresOK'
  BY DEF InputInv, InputTypeOK, StoresOK, EntriesTrue, Decided, LastAt

LEMMA IdleType == Idle \in Calls
  BY BoundaryFacts DEF Idle, Calls

\* A call that ends.
LEMMA LeaveKeeps ==
    ASSUME InputInv, NEW w \in Workers, Leave(w), UNCHANGED <<head, endpoint>>, StoresOK'
    PROVE  InputInv'
  <1>1. Idle \in Calls /\ Idle.stage = "idle"
    BY IdleType DEF Idle
  <1> QED
    BY <1>1, CallKeeps DEF Leave

\* The facts about one running call.
LEMMA CallFacts ==
    ASSUME InputInv, head \in Blocks, NEW w \in Workers
    PROVE  /\ request[w] \in Calls
           /\ endpoint \in Endpoints
           /\ Decided(head) \in Blocks
           /\ ~At(w, "idle") => CallTrue(request[w])
  BY DecidedType DEF InputInv, InputTypeOK

\* A call that starts afresh.
LEMMA AfreshKeeps ==
    ASSUME InputInv, head \in Blocks, NEW w \in Workers, ~At(w, "idle"),
           Go(w, [Afresh(w) EXCEPT !.stage = "ask"]),
           UNCHANGED <<head, endpoint, memory, row, unavailable>>
    PROVE  InputInv'
  <1> DEFINE call == [Afresh(w) EXCEPT !.stage = "ask"]
  <1>1. call \in Calls
    BY CallFacts, IdleType DEF Afresh, Idle, Calls
  <1>2. CallTrue(call)
    BY CallFacts DEF Afresh, Idle, CallTrue, Skipped
  <1> QED
    BY <1>1, <1>2, CallKeeps, StoresStay DEF InputInv, InputTypeOK

\* What is found in memory or in the table.
LEMMA LookupKeeps ==
    ASSUME InputInv, head \in Blocks, NEW w \in Workers,
           NEW entry \in {memory, row}, NEW otherwise \in {"row", "ask"},
           NEW seen \in SUBSET Blocks, Decided(head) \in seen,
           Go(w, [Lookup(entry, otherwise) EXCEPT !.seen = seen]),
           UNCHANGED <<head, endpoint, memory, row, unavailable>>
    PROVE  InputInv'
  <1> DEFINE call == [Lookup(entry, otherwise) EXCEPT !.seen = seen]
  <1>1. CASE entry = Null
    <2>1. call = [[Idle EXCEPT !.stage = otherwise] EXCEPT !.seen = seen]
      BY <1>1 DEF Lookup
    <2> HIDE DEF call
    <2>2. call \in Calls
      BY <2>1, IdleType DEF Idle, Calls
    <2>3. CallTrue(call)
      BY <2>1 DEF Idle, CallTrue, Skipped
    <2> USE DEF call
    <2> QED
      BY <2>2, <2>3, CallKeeps, StoresStay DEF InputInv, InputTypeOK
  <1>2. CASE entry # Null
    <2>1. entry \in Entries /\ (entry.sound => entry.input = Decided(entry.anchor))
      BY <1>2 DEF InputInv, InputTypeOK, EntriesTrue
    <2>2. /\ Check(entry) \in {"head", "same"}
          /\ Check(entry) = "same" => BlockSlot[entry.anchor] >= Boundary
      BY <2>1, BoundaryFacts DEF Check, Entries
    <2>3. call = [[Idle EXCEPT !.stage = Check(entry), !.goal = "reuse",
                               !.anchor = entry.anchor, !.input = entry.input,
                               !.sound = entry.sound] EXCEPT !.seen = seen]
      BY <1>2 DEF Lookup
    <2> HIDE DEF call
    <2>4. call \in Calls
      BY <2>1, <2>2, <2>3, IdleType DEF Idle, Calls, Entries
    <2>5. CallTrue(call)
      BY <2>1, <2>2, <2>3 DEF Idle, CallTrue, Skipped, Entries
    <2> USE DEF call
    <2> QED
      BY <2>4, <2>5, CallKeeps, StoresStay DEF InputInv, InputTypeOK
  <1> QED
    BY <1>1, <1>2

LEMMA RequestKeeps ==
    ASSUME InputInv, head \in Blocks, NEW w \in Workers, Request(w)
    PROVE  InputInv'
  <1>1. UNCHANGED <<head, endpoint, memory, row, unavailable>>
    BY DEF Request, nodeVars
  <1> QED
    BY <1>1, CallFacts, LookupKeeps DEF Request

LEMMA ReadRowKeeps ==
    ASSUME InputInv, head \in Blocks, NEW w \in Workers, ReadRow(w)
    PROVE  InputInv'
  <1>1. UNCHANGED <<head, endpoint, memory, row, unavailable>>
    BY DEF ReadRow, nodeVars
  <1>2. request[w].seen \in SUBSET Blocks /\ Decided(head) \in request[w].seen
    BY CallFacts DEF ReadRow, At, Calls, CallTrue
  <1> QED
    BY <1>1, <1>2, LookupKeeps DEF ReadRow

LEMMA CompareKeeps ==
    ASSUME InputInv, head \in Blocks, NEW w \in Workers, CompareHeader(w)
    PROVE  InputInv'
  <1> DEFINE call == [request[w] EXCEPT !.stage = "confirm"]
             found == HeaderAt(BlockSlot[request[w].anchor])
  <1>1. UNCHANGED <<head, endpoint, memory, row, unavailable>> /\ ~At(w, "idle")
        /\ request[w].stage = "same"
    BY DEF CompareHeader, nodeVars, At
  <1>2. StoresOK'
    BY <1>1, StoresStay DEF InputInv, InputTypeOK
  <1>3. CASE Leave(w)
    BY <1>1, <1>2, <1>3, LeaveKeeps
  <1>4. CASE found = {request[w].anchor} /\ Go(w, call)
    <2>1. /\ request[w] \in Calls /\ CallTrue(request[w]) /\ request[w].goal = "reuse"
          /\ request[w].anchor \in Blocks /\ Boundary <= BlockSlot[request[w].anchor]
      BY <1>1, CallFacts, BoundaryFacts DEF CallTrue, Calls
    <2>2. request[w].anchor \in Ancestry[head]
      BY <1>4 DEF HeaderAt
    <2>3. Decided(request[w].anchor) = Decided(head)
      BY <2>1, <2>2, CallFacts, LaterDecides
    <2>4. call \in Calls
      BY <2>1 DEF Calls
    <2>5. CallTrue(call)
      BY <2>1, <2>3 DEF Calls, CallTrue, Skipped
    <2> QED
      BY <1>1, <1>2, <1>4, <2>4, <2>5, CallKeeps
  <1>5. CASE Go(w, [Afresh(w) EXCEPT !.stage = "ask"])
    BY <1>1, <1>5, AfreshKeeps
  <1> QED
    BY <1>3, <1>4, <1>5 DEF CompareHeader

\* The end of the work on an anchor: b is the anchor of the present chain if
\* the head did not move under the walk.
LEMMA AnchoredKeeps ==
    ASSUME InputInv, head \in Blocks, NEW w \in Workers,
           request[w].stage \in {"head", "walk"},
           NEW b \in Blocks, Skipped(request[w]) => Decided(b) = Decided(head),
           Anchored(w, b), UNCHANGED <<head, endpoint, memory, row, unavailable>>
    PROVE  InputInv'
  <1> DEFINE old == request[w]
             fetch == [old EXCEPT !.stage = "fetch", !.slot = 0, !.anchor = b]
             confirm == [old EXCEPT !.stage = "confirm", !.slot = 0]
             save == [old EXCEPT !.stage = "save", !.slot = 0]
  <1>1. StoresOK' /\ ~At(w, "idle") /\ old \in Calls /\ CallTrue(old)
    BY StoresStay, CallFacts DEF InputInv, InputTypeOK, At
  <1>2. old.goal \in {"new", "reuse", "again"} /\ Decided(head) \in old.seen
    BY <1>1 DEF CallTrue, Calls
  <1>3. CASE old.goal = "new"
    <2>1. Go(w, fetch)
      BY <1>3 DEF Anchored
    <2>2. fetch \in Calls
      BY <1>1, BoundaryFacts DEF Calls
    <2>3. CallTrue(fetch)
      BY <1>1, <1>3 DEF CallTrue, Calls, Skipped
    <2> QED
      BY <1>1, <2>1, <2>2, <2>3, CallKeeps
  <1>4. CASE old.goal = "reuse" /\ AnchorHolds(w, b)
    <2>1. Go(w, confirm) /\ b = old.anchor
      BY <1>4 DEF Anchored, AnchorHolds
    <2>2. confirm \in Calls
      BY <1>1, BoundaryFacts DEF Calls
    <2>3. (old.sound /\ ~old.moved) => old.input \in old.seen
      BY <1>1, <1>2, <1>4, <2>1 DEF CallTrue
    <2>4. CallTrue(confirm)
      BY <1>1, <1>4, <2>3 DEF CallTrue, Calls, Skipped
    <2> QED
      BY <1>1, <2>1, <2>2, <2>4, CallKeeps
  <1>5. CASE old.goal = "reuse" /\ ~AnchorHolds(w, b)
    BY <1>1, <1>5, AfreshKeeps DEF Anchored
  <1>6. CASE old.goal = "again" /\ AnchorHolds(w, b)
    <2>1. Go(w, save) /\ b = old.anchor
      BY <1>6 DEF Anchored, AnchorHolds
    <2>2. save \in Calls
      BY <1>1, BoundaryFacts DEF Calls
    <2>3. old.sound => old.input = Decided(old.anchor)
      BY <1>1, <1>6, <2>1 DEF CallTrue
    <2>4. CallTrue(save)
      BY <1>1, <1>6, <2>3 DEF CallTrue, Calls, Skipped
    <2> QED
      BY <1>1, <2>1, <2>2, <2>4, CallKeeps
  <1>7. CASE old.goal = "again" /\ ~AnchorHolds(w, b)
    BY <1>1, <1>7, LeaveKeeps DEF Anchored
  <1> QED
    BY <1>2, <1>3, <1>4, <1>5, <1>6, <1>7

LEMMA ReadHeadKeeps ==
    ASSUME InputInv, head \in Blocks, NEW w \in Workers, ReadHead(w)
    PROVE  InputInv'
  <1> DEFINE old == request[w]
             call == [old EXCEPT !.stage = "walk", !.slot = Boundary]
  <1>1. UNCHANGED <<head, endpoint, memory, row, unavailable>> /\ ~At(w, "idle")
        /\ old.stage = "head"
    BY DEF ReadHead, nodeVars, At
  <1>2. CASE Anchored(w, head)
    BY <1>1, <1>2, AnchoredKeeps
  <1>3. CASE Go(w, call)
    <2>1. StoresOK' /\ old \in Calls /\ CallTrue(old)
      BY <1>1, StoresStay, CallFacts DEF InputInv, InputTypeOK
    <2>2. call \in Calls
      BY <2>1, BoundaryFacts DEF Calls
    <2>3. Skipped(call)
      BY <2>1, BoundaryFacts DEF Skipped, Calls
    <2>4. CallTrue(call)
      BY <1>1, <2>1, <2>3 DEF CallTrue, Calls
    <2> QED
      BY <1>1, <1>3, <2>1, <2>2, <2>4, CallKeeps
  <1> QED
    BY <1>2, <1>3 DEF ReadHead

LEMMA WalkKeeps ==
    ASSUME InputInv, head \in Blocks, NEW w \in Workers, Walk(w)
    PROVE  InputInv'
  <1> DEFINE old == request[w]
             call == [old EXCEPT !.slot = old.slot - 1]
  <1>1. UNCHANGED <<head, endpoint, memory, row, unavailable>> /\ ~At(w, "idle")
        /\ old.stage = "walk"
    BY DEF Walk, nodeVars, At
  <1>2. StoresOK' /\ old \in Calls /\ CallTrue(old) /\ old.slot \in 0..Boundary
    BY <1>1, StoresStay, CallFacts DEF InputInv, InputTypeOK, Calls
  <1>3. ASSUME NEW b \in HeaderAt(old.slot), Anchored(w, b)
        PROVE  InputInv'
    <2>1. b \in Blocks /\ (Skipped(old) => Decided(b) = Decided(head))
      BY <1>1, <1>2, WalkFinds, CallFacts, BoundaryFacts DEF HeaderAt
    <2> QED
      BY <1>1, <1>3, <2>1, AnchoredKeeps
  <1>4. CASE HeaderAt(old.slot) = {} /\ old.slot > 0 /\ Go(w, call)
    <2>1. call \in Calls
      BY <1>2, <1>4, BoundaryFacts DEF Calls
    <2>2. Skipped(old) => Skipped(call)
      BY <1>1, <1>2, <1>4, BoundaryFacts DEF Skipped, HeaderAt, Calls
    <2>3. CallTrue(call)
      BY <1>1, <1>2, <2>2 DEF CallTrue, Calls
    <2> QED
      BY <1>1, <1>2, <1>4, <2>1, <2>3, CallKeeps
  <1>5. CASE Leave(w)
    BY <1>1, <1>2, <1>5, LeaveKeeps
  <1> QED
    BY <1>3, <1>4, <1>5 DEF Walk

LEMMA AskKeeps ==
    ASSUME InputInv, head \in Blocks, NEW w \in Workers, Ask(w)
    PROVE  InputInv'
  <1> DEFINE call == [Afresh(w) EXCEPT !.stage = "head", !.goal = "new"]
  <1>1. UNCHANGED <<head, endpoint, memory, row, unavailable>> /\ ~At(w, "idle")
    BY DEF Ask, nodeVars, At
  <1>2. StoresOK' /\ request[w] \in Calls /\ CallTrue(request[w])
    BY <1>1, StoresStay, CallFacts DEF InputInv, InputTypeOK
  <1>3. CASE Go(w, call)
    <2>1. call \in Calls
      BY <1>2, IdleType DEF Afresh, Idle, Calls
    <2>2. CallTrue(call)
      BY <1>2 DEF Afresh, Idle, CallTrue, Skipped
    <2> QED
      BY <1>1, <1>2, <1>3, <2>1, <2>2, CallKeeps
  <1> QED
    BY <1>1, <1>2, <1>3, LeaveKeeps DEF Ask

\* A call that ends or goes on with the same fields, and may leave or drop a
\* negative entry.
LEMMA NotFoundKeeps ==
    ASSUME InputInv, NEW w \in Workers, NotFound(w), UNCHANGED <<head, endpoint, memory, row>>
    PROVE  InputInv'
  BY StoresStay, LeaveKeeps DEF NotFound

\* A response of the present chain.
LEMMA FetchKeeps ==
    ASSUME InputInv, head \in Blocks, NEW w \in Workers, NEW available \in BOOLEAN,
           Fetch(w, available)
    PROVE  InputInv'
  <1> DEFINE old == request[w]
             answered == [old EXCEPT !.stage = "confirm", !.input = Decided(head), !.pin = Null]
             recent == [old EXCEPT !.stage = "recent"]
  <1>1. UNCHANGED <<head, endpoint, memory, row>> /\ ~At(w, "idle") /\ old.stage = "fetch"
    BY DEF Fetch, nodeVars, At
  <1>2. /\ old \in Calls /\ CallTrue(old) /\ old.goal = "new" /\ old.anchor \in Blocks
        /\ Decided(head) \in Blocks /\ Decided(head) \in old.seen
    BY <1>1, CallFacts DEF CallTrue, Calls
  <1>3. CASE Answered(w, Decided(head))
    <2>1. StoresOK' /\ Go(w, answered)
      BY <1>1, <1>3, StoresStay DEF Answered
    <2>2. answered \in Calls
      BY <1>2 DEF Calls
    <2>3. CallTrue(answered)
      BY <1>1, <1>2 DEF CallTrue, Calls, Skipped
    <2> QED
      BY <1>1, <2>1, <2>2, <2>3, CallKeeps
  <1>4. CASE Go(w, recent) /\ UNCHANGED unavailable
    <2>1. StoresOK'
      BY <1>1, <1>4, StoresStay DEF InputInv, InputTypeOK
    <2>2. recent \in Calls
      BY <1>2 DEF Calls
    <2>3. CallTrue(recent)
      BY <1>1, <1>2 DEF CallTrue, Calls, Skipped
    <2> QED
      BY <1>1, <1>4, <2>1, <2>2, <2>3, CallKeeps
  <1> QED
    BY <1>1, <1>3, <1>4, NotFoundKeeps DEF Fetch

LEMMA FetchRecentKeeps ==
    ASSUME InputInv, head \in Blocks, NEW w \in Workers, NEW available \in BOOLEAN,
           FetchRecent(w, available)
    PROVE  InputInv'
  <1> DEFINE old == request[w]
             pinned == [old EXCEPT !.stage = "pinned", !.input = Decided(head), !.pin = head]
  <1>1. UNCHANGED <<head, endpoint, memory, row>> /\ ~At(w, "idle") /\ old.stage = "recent"
    BY DEF FetchRecent, nodeVars, At
  <1>2. /\ old \in Calls /\ CallTrue(old) /\ old.goal = "new" /\ old.anchor \in Blocks
        /\ Decided(head) \in Blocks /\ Decided(head) \in old.seen
    BY <1>1, CallFacts DEF CallTrue, Calls
  <1>3. CASE Go(w, pinned) /\ UNCHANGED unavailable
    <2>1. StoresOK'
      BY <1>1, <1>3, StoresStay DEF InputInv, InputTypeOK
    <2>2. pinned \in Calls
      BY <1>2 DEF Calls
    <2>3. CallTrue(pinned)
      BY <1>1, <1>2 DEF CallTrue, Calls, Skipped
    <2> QED
      BY <1>1, <1>3, <2>1, <2>2, <2>3, CallKeeps
  <1> QED
    BY <1>1, <1>3, NotFoundKeeps DEF FetchRecent

LEMMA CheckPinKeeps ==
    ASSUME InputInv, head \in Blocks, NEW w \in Workers, CheckPin(w)
    PROVE  InputInv'
  <1> DEFINE old == request[w]
             answered == [old EXCEPT !.stage = "confirm", !.input = old.input, !.pin = Null]
  <1>1. UNCHANGED <<head, endpoint, memory, row>> /\ ~At(w, "idle") /\ old.stage = "pinned"
    BY DEF CheckPin, nodeVars, At
  <1>2. old \in Calls /\ CallTrue(old) /\ old.goal = "new"
    BY <1>1, CallFacts DEF CallTrue, Calls
  <1>3. CASE Answered(w, old.input)
    <2>1. StoresOK' /\ Go(w, answered)
      BY <1>1, <1>3, StoresStay DEF Answered
    <2>2. answered \in Calls
      BY <1>2 DEF Calls
    <2>3. CallTrue(answered)
      BY <1>1, <1>2 DEF CallTrue, Calls, Skipped
    <2> QED
      BY <1>1, <2>1, <2>2, <2>3, CallKeeps
  <1>4. CASE Leave(w) /\ UNCHANGED unavailable
    BY <1>1, <1>4, StoresStay, LeaveKeeps DEF InputInv, InputTypeOK
  <1> QED
    BY <1>1, <1>3, <1>4, NotFoundKeeps DEF CheckPin

LEMMA ConfirmKeeps ==
    ASSUME InputInv, head \in Blocks, NEW w \in Workers, Confirm(w)
    PROVE  InputInv'
  <1> DEFINE old == request[w]
             keep == [old EXCEPT !.stage = "keep"]
             again == [old EXCEPT !.stage = "head", !.goal = "again"]
  <1>1. UNCHANGED <<head, endpoint, memory, row, unavailable>> /\ ~At(w, "idle")
        /\ old.stage = "confirm"
    BY DEF Confirm, nodeVars, At
  <1>2. StoresOK' /\ old \in Calls /\ CallTrue(old) /\ old.goal \in {"reuse", "new"}
    BY <1>1, CallFacts, StoresStay DEF CallTrue, Calls, InputInv, InputTypeOK
  <1>3. CASE old.goal = "reuse" /\ Go(w, keep)
    <2>1. keep \in Calls
      BY <1>2 DEF Calls
    <2>2. CallTrue(keep)
      BY <1>1, <1>2, <1>3 DEF CallTrue, Calls, Skipped
    <2> QED
      BY <1>1, <1>2, <1>3, <2>1, <2>2, CallKeeps
  <1>4. CASE old.goal = "new" /\ Go(w, again)
    <2>1. again \in Calls
      BY <1>2 DEF Calls
    <2>2. CallTrue(again)
      BY <1>1, <1>2, <1>4 DEF CallTrue, Calls, Skipped
    <2> QED
      BY <1>1, <1>2, <1>4, <2>1, <2>2, CallKeeps
  <1> QED
    BY <1>1, <1>2, <1>3, <1>4, LeaveKeeps DEF Confirm

\* What a call holds when it stores it.
LEMMA EntryTrue ==
    ASSUME InputInv, head \in Blocks, NEW w \in Workers, request[w].stage \in {"save", "keep"}
    PROVE  /\ Entry(w) \in Entries
           /\ Entry(w).sound => Entry(w).input = Decided(Entry(w).anchor)
  <1>1. request[w] \in Calls /\ CallTrue(request[w])
    BY CallFacts DEF At
  <1>2. request[w].anchor \in Blocks /\ request[w].input \in Blocks /\ request[w].sound \in BOOLEAN
    BY <1>1 DEF CallTrue, Calls
  <1> QED
    BY <1>1, <1>2 DEF Entry, Entries, CallTrue

LEMMA SaveKeeps ==
    ASSUME InputInv, head \in Blocks, NEW w \in Workers, Save(w)
    PROVE  InputInv'
  <1> DEFINE call == [request[w] EXCEPT !.stage = "keep"]
  <1>1. UNCHANGED <<head, endpoint, memory, unavailable>> /\ ~At(w, "idle")
        /\ request[w].stage = "save" /\ row' = Entry(w)
    BY DEF Save, nodeVars, At
  <1>2. request[w] \in Calls /\ CallTrue(request[w])
    BY <1>1, CallFacts
  <1>3. StoresOK'
    BY <1>1, EntryTrue DEF InputInv, InputTypeOK, StoresOK, EntriesTrue, Decided, LastAt
  <1>4. call \in Calls
    BY <1>2 DEF Calls
  <1>5. CallTrue(call)
    BY <1>1, <1>2 DEF CallTrue, Calls, Skipped
  <1> QED
    BY <1>1, <1>3, <1>4, <1>5, CallKeeps DEF Save

LEMMA KeepKeeps ==
    ASSUME InputInv, head \in Blocks, NEW w \in Workers, Keep(w)
    PROVE  InputInv'
  <1>1. UNCHANGED <<head, endpoint, row, unavailable>> /\ request[w].stage = "keep"
        /\ memory' = Entry(w)
    BY DEF Keep, nodeVars, At
  <1>2. StoresOK'
    BY <1>1, EntryTrue DEF InputInv, InputTypeOK, StoresOK, EntriesTrue, Decided, LastAt
  <1> QED
    BY <1>1, <1>2, LeaveKeeps DEF Keep

\* A step beside the calls.
LEMMA AsideKeeps ==
    ASSUME InputInv, UNCHANGED <<head, endpoint, request>>, StoresOK'
    PROVE  InputInv'
  <1>1. InputTypeOK'
    BY DEF InputInv, InputTypeOK, StoresOK
  <1>2. ASSUME NEW w \in Workers, ~At(w, "idle")'
        PROVE  CallTrue(request[w])'
    <2>1. request'[w] = request[w] /\ CallTrue(request[w])
      BY <1>2 DEF InputInv, At
    <2>2. CallTrue(request'[w])
      BY <2>1
    <2> QED
      BY <2>2 DEF CallTrue, Skipped, Decided, LastAt
  <1> QED
    BY <1>1, <1>2 DEF InputInv, StoresOK

LEMMA InputStepKeeps ==
    ASSUME InputInv, head \in Blocks, InputStep
    PROVE  InputInv'
  <1>1. ASSUME NEW w \in Workers, CallStep(w)
        PROVE  InputInv'
    BY <1>1, RequestKeeps, ReadRowKeeps, CompareKeeps, ReadHeadKeeps, WalkKeeps, AskKeeps,
       FetchKeeps, FetchRecentKeeps, CheckPinKeeps, ConfirmKeeps, SaveKeeps, KeepKeeps
       DEF CallStep
  <1>2. ASSUME NEW w \in Workers, CallFails(w)
        PROVE  InputInv'
    BY <1>2, StoresStay, LeaveKeeps DEF CallFails, nodeVars, InputInv, InputTypeOK
  <1>3. CASE Invalidate \/ Evict \/ PruneInputs \/ DelayExpires
    <2>1. UNCHANGED <<head, endpoint, request>>
      BY <1>3 DEF Invalidate, Evict, PruneInputs, DelayExpires, nodeVars
    <2>2. StoresOK'
      BY <1>3 DEF Invalidate, Evict, PruneInputs, DelayExpires, InputInv, InputTypeOK, StoresOK,
                  EntriesTrue, Decided, LastAt
    <2> QED
      BY <2>1, <2>2, AsideKeeps
  <1> QED
    BY <1>1, <1>2, <1>3 DEF InputStep

LEMMA InputsRestartKeeps ==
    ASSUME InputInv, UNCHANGED head, InputsRestart
    PROVE  InputInv'
  <1>1. InputTypeOK' /\ EntriesTrue'
    BY IdleType DEF InputsRestart, InputInv, InputTypeOK, EntriesTrue, Decided, LastAt
  <1>2. (\A w \in Workers : At(w, "idle"))'
    BY DEF InputsRestart, At, Idle
  <1> QED
    BY <1>1, <1>2 DEF InputInv

\* A running call goes on though the head has moved: what it knew of the old
\* head it no longer relies on.
LEMMA ObservedTrue ==
    ASSUME head \in Blocks, head' \in Blocks, endpoint \in Endpoints, UNCHANGED endpoint,
           NEW call \in Calls, call.stage # "idle", CallTrue(call),
           NEW next, next = Observed(call)
    PROVE  next \in Calls /\ CallTrue(next)'
  <1> DEFINE walking == call.goal = "reuse" /\ call.stage = "walk"
             making == \/ call.goal = "new" /\ call.stage # "head"
                       \/ call.goal = "again" /\ call.stage \notin {"save", "keep"}
  <1>1. next = [call EXCEPT !.seen = @ \cup {Decided(head')},
                            !.moved = @ \/ walking \/ making,
                            !.sound = @ /\ ~(making /\ call.moved)]
    BY DEF Observed
  <1>2. Decided(head') \in Blocks
    BY DecidedType
  <1>3. /\ next.stage = call.stage /\ next.goal = call.goal /\ next.slot = call.slot
        /\ next.anchor = call.anchor /\ next.input = call.input
        /\ next.seen = call.seen \cup {Decided(head')}
        /\ next.moved = (call.moved \/ walking \/ making)
        /\ next.sound = (call.sound /\ ~(making /\ call.moved))
    BY <1>1 DEF Calls
  <1>4. next \in Calls
    <2>1. [call EXCEPT !.seen = @ \cup {Decided(head')},
                       !.moved = @ \/ walking \/ making,
                       !.sound = @ /\ ~(making /\ call.moved)] \in Calls
      BY <1>2 DEF Calls
    <2> QED
      BY <1>1, <2>1
  <1>5. Decided(head)' = Decided(head') /\ Decided(next.anchor)' = Decided(call.anchor)
    <2>1. Decided(head)' = Decided(head')
      BY DEF Decided, LastAt
    <2>2. Decided(next.anchor)' = Decided(next.anchor)
      BY DEF Decided, LastAt
    <2> QED
      BY <2>1, <2>2, <1>3
  <1>6. call.goal \in {"none", "reuse", "new", "again"} /\ call.sound \in BOOLEAN
        /\ call.moved \in BOOLEAN
    BY DEF Calls
  <1>7. CallTrue(next)'
    <2>1. CASE call.goal = "none"
      BY <1>3, <1>5, <2>1 DEF CallTrue, Skipped
    <2>2. CASE call.goal = "reuse"
      BY <1>3, <1>5, <2>2 DEF CallTrue, Skipped
    <2>3. CASE call.goal = "new"
      BY <1>3, <1>5, <2>3, <1>6 DEF CallTrue, Skipped
    <2>4. CASE call.goal = "again"
      BY <1>3, <1>5, <2>4, <1>6 DEF CallTrue, Skipped
    <2> QED
      BY <1>6, <2>1, <2>2, <2>3, <2>4
  <1> QED
    BY <1>4, <1>7

LEMMA ObserveKeeps ==
    ASSUME InputInv, head \in Blocks, head' \in Blocks, Observe
    PROVE  InputInv'
  <1>1. EntriesTrue' /\ endpoint \in Endpoints
    BY DEF Observe, InputInv, InputTypeOK, EntriesTrue, Decided, LastAt
  <1>2. \A w \in Workers : request'[w] = Observed(request[w])
    BY DEF Observe
  <1>3. ASSUME NEW w \in Workers
        PROVE  request'[w] \in Calls /\ (~At(w, "idle")' => CallTrue(request[w])')
    <2>1. request[w] \in Calls /\ (~At(w, "idle") => CallTrue(request[w]))
      BY CallFacts
    <2>2. CASE At(w, "idle")
      BY <1>2, <2>1, <2>2 DEF At, Observed
    <2>3. CASE ~At(w, "idle")
      <3>1. request[w].stage # "idle"
        BY <2>3 DEF At
      <3>2. \A next : next = Observed(request[w]) => next \in Calls /\ CallTrue(next)'
        BY <1>1, <2>1, <2>3, <3>1, ObservedTrue DEF Observe
      <3> QED
        BY <1>2, <3>2 DEF CallTrue, Skipped, Decided, LastAt
    <2> QED
      BY <2>2, <2>3
  <1>4. InputTypeOK'
    BY <1>1, <1>3 DEF Observe, InputInv, InputTypeOK
  <1> QED
    BY <1>1, <1>3, <1>4 DEF InputInv

---------------------------------------------------------------------------
(* The block caches *)

\* The node's finalized root is on the head's chain, at the checkpoint.
NodeFinal ==
  /\ NodeTypeOK
  /\ IsAncestorAt(finRoot, head, EpochStartSlot(finEpoch))

LEMMA NodeInitFinal == NodeInit => NodeFinal
  <1> SUFFICES ASSUME NodeInit PROVE NodeFinal
    OBVIOUS
  <1>1. head \in Blocks /\ EpochStartSlot(0) = 0
    BY HeadAssumption, SlotsPerEpochAssumption DEF NodeInit, EpochStartSlot
  <1>2. peakEpoch \in Nat
    BY <1>1, BlockSlotAssumption, SlotToEpochBounds DEF NodeInit
  <1>3. finRoot \in Blocks
    BY <1>1, AncestryAssumption DEF NodeInit, IsAncestorAt
  <1> QED
    BY <1>1, <1>2, <1>3 DEF NodeInit, NodeFinal, NodeTypeOK

\* A node step keeps the checkpoint's chain: what was final stays so.
LEMMA NodeStepFinal ==
    ASSUME NodeFinal, NodeNext
    PROVE  NodeFinal' /\ \A b \in Blocks : Finalized(b) => Finalized(b)'
  <1>1. CASE \E b \in Blocks : MoveHead(b)
    <2>1. PICK b \in Blocks : MoveHead(b)
      BY <1>1
    <2>2. SlotToEpoch(BlockSlot[b]) \in Nat
      BY BlockSlotAssumption, SlotToEpochBounds
    <2>3. NodeFinal'
      BY <2>1, <2>2 DEF MoveHead, NodeFinal, NodeTypeOK, Greater, IsAncestorAt
    <2>4. ASSUME NEW x \in Blocks, Finalized(x)
          PROVE  Finalized(x)'
      <3>1. EpochStartSlot(finEpoch) \in Nat /\ finRoot \in Ancestry[b]
        BY <2>1, EpochStartIncreases DEF NodeFinal, NodeTypeOK, MoveHead, IsAncestorAt
      <3>2. x \in Ancestry[finRoot]
        BY <2>4, <3>1, BelowAncestor DEF Finalized, Canonical, NodeFinal, NodeTypeOK
      <3>3. x \in Ancestry[b]
        BY <3>1, <3>2, AncestryAssumption
      <3> QED
        BY <2>1, <2>4, <3>3 DEF Finalized, Canonical, MoveHead
    <2> QED
      BY <2>3, <2>4
  <1>2. CASE \E e \in 0..SlotToEpoch(BlockSlot[head]), r \in Blocks : AdvanceFinality(e, r)
    <2>1. PICK e \in Nat, r \in Blocks : AdvanceFinality(e, r)
      BY <1>2
    <2>2. NodeFinal'
      BY <2>1 DEF AdvanceFinality, NodeFinal, NodeTypeOK, IsAncestorAt
    <2>3. EpochStartSlot(finEpoch) <= EpochStartSlot(e)
          /\ EpochStartSlot(finEpoch) \in Nat /\ EpochStartSlot(e) \in Nat
      BY <2>1, EpochStartIncreases DEF AdvanceFinality, NodeFinal, NodeTypeOK
    <2> QED
      BY <2>1, <2>2, <2>3, BlockSlotAssumption DEF AdvanceFinality, Finalized, Canonical
  <1> QED
    BY <1>1, <1>2 DEF NodeNext

\* Caches whose entries were and are good, and calls that know the truth.
LEMMA BlocksAside ==
    ASSUME BlockInv, NodeFinal, UNCHANGED blockVars,
           \A b \in Blocks : Finalized(b) => Finalized(b)'
    PROVE  BlockInv'
  <1>1. \A slot \in DOMAIN slotRoots : slotRoots[slot] \in Blocks
    BY AncestryAssumption DEF BlockInv, SlotRootsFinal, Finalized, Canonical, NodeFinal, NodeTypeOK
  <1>2. BlocksByRoot' /\ SlotRootsFinal'
    BY <1>1 DEF BlockInv, BlocksByRoot, SlotRootsFinal, blockVars
  <1> QED
    BY <1>2 DEF BlockInv, blockVars, Lookups

\* A step that leaves the node alone.
LEMMA FinalStays ==
    ASSUME UNCHANGED nodeVars
    PROVE  \A b \in Blocks : Finalized(b)' <=> Finalized(b)
  BY DEF nodeVars, Finalized, Canonical

LEMMA PutFinal ==
    ASSUME BlockInv, UNCHANGED nodeVars, NEW b \in Blocks, Finalized(b),
           slotRoots' = Put(slotRoots, BlockSlot[b], b)
    PROVE  SlotRootsFinal'
  BY DEF Put, BlockInv, SlotRootsFinal, Finalized, Canonical, nodeVars

LEMMA SlotRootsStay ==
    ASSUME BlockInv, UNCHANGED <<nodeVars, slotRoots>>
    PROVE  SlotRootsFinal'
  BY DEF BlockInv, SlotRootsFinal, Finalized, Canonical, nodeVars

LEMMA RootLookupTrue ==
    ASSUME BlockInv, UNCHANGED nodeVars, NEW slot, NEW root \in Blocks, NEW final \in BOOLEAN,
           RootLookup(slot, root, final)
    PROVE  /\ SlotRootsFinal'
           /\ BlockSlot[root] = slot
           /\ final => Finalized(root)
  <1>1. CASE slot \in DOMAIN slotRoots
    BY <1>1, SlotRootsStay DEF RootLookup, BlockInv, SlotRootsFinal
  <1>2. CASE slot \notin DOMAIN slotRoots
    BY <1>2, SlotRootsStay, PutFinal DEF RootLookup
  <1> QED
    BY <1>1, <1>2

LEMMA LookupsStay ==
    ASSUME BlockInv, UNCHANGED nodeVars, NEW r \in Readers, NEW call \in Lookups,
           lookup' = [lookup EXCEPT ![r] = call] \/ lookup' = lookup,
           call.root # NoRoot =>
             BlockSlot[call.root] = call.slot /\ (call.final => Finalized(call.root)),
           BlocksByRoot', SlotRootsFinal'
    PROVE  BlockInv'
  <1>1. lookup' \in [Readers -> Lookups]
    BY DEF BlockInv
  <1>2. ASSUME NEW v \in Readers, lookup'[v].root # NoRoot
        PROVE  /\ BlockSlot[lookup'[v].root] = lookup'[v].slot
               /\ lookup'[v].final => Finalized(lookup[v].root)'
    <2>1. lookup'[v] = call \/ lookup'[v] = lookup[v]
      BY DEF BlockInv
    <2>2. /\ BlockSlot[lookup'[v].root] = lookup'[v].slot
          /\ lookup'[v].final => Finalized(lookup'[v].root)
      BY <1>2, <2>1 DEF BlockInv
    <2> QED
      BY <2>2 DEF Finalized, Canonical, nodeVars
  <1> QED
    BY <1>1, <1>2 DEF BlockInv

LEMMA BlockStepKeeps ==
    ASSUME BlockInv, NodeFinal, BlockStep
    PROVE  BlockInv'
  <1>1. UNCHANGED nodeVars
    BY DEF BlockStep, Resolve, FetchBlock, LookupFails, FetchByRoot, EvictBlock, EvictRoot
  <1>2. NoLookup \in Lookups /\ NoLookup.root = NoRoot
    BY DEF NoLookup, Lookups
  <1>3. ASSUME NEW r \in Readers, NEW slot \in ReadSlots, NEW root \in Blocks,
               NEW final \in BOOLEAN, Resolve(r, slot, root, final)
        PROVE  BlockInv'
    <2> DEFINE call == [slot |-> slot, root |-> root, final |-> final]
    <2>1. SlotRootsFinal' /\ BlockSlot[root] = slot /\ (final => Finalized(root))
      BY <1>1, <1>3, RootLookupTrue DEF Resolve
    <2>2. call \in Lookups
      BY <2>1, BlockSlotAssumption DEF Lookups
    <2>3. BlocksByRoot'
      BY <1>3 DEF Resolve, BlockInv, BlocksByRoot
    <2>4. lookup' = [lookup EXCEPT ![r] = call] \/ lookup' = lookup
      BY <1>3 DEF Resolve
    <2> QED
      BY <1>1, <2>1, <2>2, <2>3, <2>4, LookupsStay
  <1>4. ASSUME NEW r \in Readers, FetchBlock(r)
        PROVE  BlockInv'
    <2> DEFINE root == lookup[r].root
    <2>1. /\ root \in Blocks /\ BlockSlot[root] = lookup[r].slot
          /\ lookup[r].final => Finalized(root)
      BY <1>4 DEF FetchBlock, BlockInv, Lookups
    <2>2. /\ rootBlocks' = Put(rootBlocks, root, root)
          /\ slotRoots' = IF Finalized(root) \/ lookup[r].final
                          THEN Put(slotRoots, lookup[r].slot, root) ELSE slotRoots
          /\ lookup' = [lookup EXCEPT ![r] = NoLookup]
      BY <1>4 DEF FetchBlock, BlockOf
    <2>3. BlocksByRoot'
      BY <2>2 DEF Put, BlockInv, BlocksByRoot
    <2>4. SlotRootsFinal'
      BY <1>1, <2>1, <2>2, PutFinal, SlotRootsStay
    <2> QED
      BY <1>1, <1>2, <2>2, <2>3, <2>4, LookupsStay
  <1>5. ASSUME NEW r \in Readers, LookupFails(r)
        PROVE  BlockInv'
    <2>1. BlocksByRoot' /\ SlotRootsFinal'
      BY <1>1, <1>5, SlotRootsStay DEF LookupFails, BlockInv, BlocksByRoot
    <2> QED
      BY <1>1, <1>2, <1>5, <2>1, LookupsStay DEF LookupFails
  \* The other operations leave the calls alone.
  <1>6. ASSUME UNCHANGED lookup, BlocksByRoot', SlotRootsFinal'
        PROVE  BlockInv'
    <2>1. ASSUME NEW r \in Readers, lookup[r].root # NoRoot
          PROVE  lookup'[r].final => Finalized(lookup[r].root)'
      BY <1>1, <1>6, <2>1 DEF BlockInv, Finalized, Canonical, nodeVars
    <2> QED
      BY <1>6, <2>1 DEF BlockInv
  <1>7. ASSUME NEW root \in Blocks, FetchByRoot(root)
        PROVE  BlockInv'
    <2>1. BlocksByRoot'
      BY <1>7 DEF FetchByRoot, Put, BlockInv, BlocksByRoot
    <2>2. SlotRootsFinal'
      BY <1>1, <1>7, PutFinal, SlotRootsStay DEF FetchByRoot
    <2> QED
      BY <1>6, <1>7, <2>1, <2>2 DEF FetchByRoot
  <1>8. ASSUME NEW root \in Blocks, EvictBlock(root)
        PROVE  BlockInv'
    <2>1. BlocksByRoot'
      BY <1>8 DEF EvictBlock, Restrict, BlockInv, BlocksByRoot
    <2> QED
      BY <1>1, <1>6, <1>8, <2>1, SlotRootsStay DEF EvictBlock
  <1>9. ASSUME NEW slot \in ReadSlots, EvictRoot(slot)
        PROVE  BlockInv'
    <2>1. BlocksByRoot'
      BY <1>9 DEF EvictRoot, BlockInv, BlocksByRoot
    <2>2. SlotRootsFinal'
      BY <1>1, <1>9 DEF EvictRoot, Restrict, BlockInv, SlotRootsFinal, nodeVars, Finalized, Canonical
    <2> QED
      BY <1>6, <1>9, <2>1, <2>2 DEF EvictRoot
  <1> QED
    BY <1>3, <1>4, <1>5, <1>7, <1>8, <1>9 DEF BlockStep

LEMMA BlocksEmpty ==
    ASSUME rootBlocks = << >>, slotRoots = << >>, lookup = [r \in Readers |-> NoLookup]
    PROVE  BlockInv
  BY DEF BlockInv, BlocksByRoot, SlotRootsFinal, NoLookup, Lookups

---------------------------------------------------------------------------
(* The client *)

ClientInv == NodeFinal /\ InputInv /\ BlockInv

LEMMA ClientInit == Init => ClientInv
  <1> SUFFICES ASSUME Init PROVE ClientInv
    OBVIOUS
  <1>1. InputInv
    BY IdleType DEF Init, InputInit, InputInv, InputTypeOK, EntriesTrue, At, Idle
  <1>2. BlockInv
    BY BlocksEmpty DEF Init, BlockInit
  <1> QED
    BY <1>1, <1>2, NodeInitFinal DEF Init, ClientInv

LEMMA ClientStep == ClientInv /\ [Next]_vars => ClientInv'
  <1> SUFFICES ASSUME ClientInv, [Next]_vars
               PROVE  ClientInv'
    OBVIOUS
  <1> USE DEF ClientInv
  <1>1. head \in Blocks
    BY DEF NodeFinal, NodeTypeOK
  <1>2. ASSUME UNCHANGED nodeVars
        PROVE  NodeFinal'
    BY <1>2 DEF nodeVars, NodeFinal, NodeTypeOK, IsAncestorAt
  <1>3. CASE NodeStep
    <2>1. NodeFinal' /\ BlockInv'
      BY <1>3, NodeStepFinal, BlocksAside DEF NodeStep
    <2>2. InputInv'
      BY <1>1, <1>3, <2>1, ObserveKeeps DEF NodeStep, NodeFinal, NodeTypeOK
    <2> QED
      BY <2>1, <2>2
  <1>4. CASE Restart
    <2>1. InputInv'
      BY <1>4, InputsRestartKeeps DEF Restart, nodeVars
    <2>2. BlockInv'
      BY <1>4 DEF Restart, BlocksRestart, BlockInv, BlocksByRoot, SlotRootsFinal, NoLookup, Lookups
    <2> QED
      BY <1>2, <1>4, <2>1, <2>2 DEF Restart
  <1>5. CASE UseInputs
    <2>1. UNCHANGED nodeVars
      BY <1>5 DEF UseInputs, InputStep, CallStep, Request, ReadRow, CompareHeader, ReadHead, Walk,
                  Ask, Fetch, FetchRecent, CheckPin, Confirm, Save, Keep, CallFails, Invalidate,
                  Evict, PruneInputs, DelayExpires
    <2>2. InputInv'
      BY <1>1, <1>5, InputStepKeeps DEF UseInputs
    <2>3. BlockInv'
      BY <1>5, <2>1, FinalStays, BlocksAside DEF UseInputs
    <2> QED
      BY <1>2, <2>1, <2>2, <2>3
  <1>6. CASE UseBlocks
    <2>1. UNCHANGED nodeVars
      BY <1>6 DEF UseBlocks, BlockStep, Resolve, FetchBlock, LookupFails, FetchByRoot, EvictBlock,
                  EvictRoot
    <2>2. InputInv'
      BY <1>6, <2>1, StoresStay, AsideKeeps
         DEF UseBlocks, inputVars, nodeVars, InputInv, InputTypeOK
    <2> QED
      BY <1>2, <1>6, <2>1, <2>2, BlockStepKeeps DEF UseBlocks
  <1>7. CASE UNCHANGED vars
    <2>1. InputInv'
      BY <1>7, StoresStay, AsideKeeps DEF vars, inputVars, nodeVars, InputInv, InputTypeOK
    <2>2. BlockInv'
      BY <1>7, FinalStays, BlocksAside DEF vars
    <2> QED
      BY <1>2, <1>7, <2>1, <2>2 DEF vars
  <1> QED
    BY <1>3, <1>4, <1>5, <1>6, <1>7 DEF Next

\* The invariant of both caches.
LEMMA ClientAlways == Spec => []ClientInv
  BY ClientInit, ClientStep, PTL DEF Spec

\* The entries and the running calls of the input cache are consistent, in
\* whatever order the workers' requests and the moves of the head come.
THEOREM InputsConsistent == Spec => []InputInv
  BY ClientAlways, PTL DEF ClientInv

\* No response is stored under an anchor of another branch, unless the head
\* moved twice while the call made the entry.
THEOREM EntriesAlwaysTrue == Spec => []EntriesTrue
  <1>1. InputInv => EntriesTrue
    BY DEF InputInv
  <1> QED
    BY <1>1, InputsConsistent, PTL

\* What a call returns was true of the canonical chain during the call.
THEOREM CallsReturnCanonical == Spec => []ReturnsCanonical
  <1>1. ClientInv => ReturnsCanonical
    <2> SUFFICES ASSUME ClientInv, NEW w \in Workers, At(w, "keep"), request[w].sound,
                        request[w].goal = "reuse" => ~request[w].moved
                 PROVE  request[w].input \in request[w].seen
      BY DEF ReturnsCanonical
    <2>1. request[w] \in Calls /\ CallTrue(request[w]) /\ request[w].stage = "keep"
      BY CallFacts DEF ClientInv, NodeFinal, NodeTypeOK, At
    <2> QED
      BY <2>1 DEF Calls, CallTrue
  <1> QED
    BY <1>1, ClientAlways, PTL

\* A block cached under a root is the block of that root, whatever the
\* canonical chain does: no reorg has to clear the block cache.
THEOREM BlocksAlwaysByRoot == Spec => []BlocksByRoot
  <1>1. ClientInv => BlocksByRoot
    BY DEF ClientInv, BlockInv
  <1> QED
    BY <1>1, ClientAlways, PTL

\* A root cached for a slot is the root of every later chain in that slot: it is
\* only kept once finality has passed the slot.
THEOREM SlotRootsAlwaysFinal == Spec => []SlotRootsFinal
  <1>1. ClientInv => SlotRootsFinal
    BY DEF ClientInv, BlockInv
  <1> QED
    BY <1>1, ClientAlways, PTL

=============================================================================
