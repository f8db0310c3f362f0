----------------------------- MODULE BlockCache -----------------------------
(***************************************************************************)
(* get_block and get_block_root (src/src/beacon_client/blocks.rs): blocks  *)
(* are cached by root, and the root of a slot only once it is final.  A    *)
(* root and the block it names are one and the same here (BeaconNode); the *)
(* cache still maps roots to blocks, for it could be filled wrongly.       *)
(***************************************************************************)
EXTENDS BeaconNode, Functions

CONSTANTS
    Readers,   \* the tasks that share the client
    ReadSlots, \* the slots they ask for
    NoRoot     \* no root yet

VARIABLES
    rootBlocks, \* root_block_cache: a function from roots to blocks
    slotRoots,  \* slot_root_cache: a function from slots to roots
    lookup      \* the call of each reader

blockVars == <<rootBlocks, slotRoots, lookup>>

NoLookup == [slot |-> 0, root |-> NoRoot, final |-> FALSE]

BlockInit ==
  /\ rootBlocks = << >>
  /\ slotRoots = << >>
  /\ lookup = [r \in Readers |-> NoLookup]

\* The `finalized` field of the node's answers.
Finalized(b) == Canonical(b) /\ BlockSlot[b] <= EpochStartSlot(finEpoch)

Put(cache, key, value) ==
  [k \in DOMAIN cache \cup {key} |-> IF k = key THEN value ELSE cache[k]]

\* Mutant: the root of a slot is cached as soon as it is known.
RootLookupCachesAll(slot, root, final) ==
  IF slot \in DOMAIN slotRoots
  THEN root = slotRoots[slot] /\ final /\ UNCHANGED slotRoots
  ELSE /\ Canonical(root) /\ BlockSlot[root] = slot
       /\ final = Finalized(root)
       /\ slotRoots' = Put(slotRoots, slot, root)

\* get_block_root of a slot: the cache, or a request; the answer is cached if
\* it is final.  `root` and `final` are what the caller gets.
RootLookup(slot, root, final) ==
  IF slot \in DOMAIN slotRoots
  THEN root = slotRoots[slot] /\ final /\ UNCHANGED slotRoots
  ELSE /\ Canonical(root) /\ BlockSlot[root] = slot
       /\ final = Finalized(root)
       /\ slotRoots' = IF final THEN Put(slotRoots, slot, root) ELSE slotRoots

\* get_block of a slot resolves the root first; a block in the cache ends the
\* call, and so does an empty slot, which changes nothing.
Resolve(r, slot, root, final) ==
  /\ lookup[r] = NoLookup
  /\ RootLookup(slot, root, final)
  /\ lookup' = IF root \in DOMAIN rootBlocks THEN lookup
               ELSE [lookup EXCEPT ![r] = [slot |-> slot, root |-> root, final |-> final]]
  /\ UNCHANGED <<nodeVars, rootBlocks>>

\* Mutant: the block is asked for by its slot.
BlockInSlot(root, slot) == {b \in Ancestry[head] : BlockSlot[b] = slot}

\* The block a request for a root returns; a block the node forgot is a 404.
BlockOf(root, slot) == {root}

\* The block is fetched by that root, though the head may have moved.
FetchBlock(r) ==
  LET root == lookup[r].root
  IN /\ root # NoRoot
     /\ \E b \in BlockOf(root, lookup[r].slot) :
          /\ rootBlocks' = Put(rootBlocks, root, b)
          /\ slotRoots' = IF Finalized(b) \/ lookup[r].final
                          THEN Put(slotRoots, lookup[r].slot, root) ELSE slotRoots
     /\ lookup' = [lookup EXCEPT ![r] = NoLookup]
     /\ UNCHANGED nodeVars

\* get_block of a root, as the parent walk of the live worker asks for it.
FetchByRoot(root) ==
  /\ root \notin DOMAIN rootBlocks
  /\ rootBlocks' = Put(rootBlocks, root, root)
  /\ slotRoots' = IF Finalized(root) THEN Put(slotRoots, BlockSlot[root], root) ELSE slotRoots
  /\ UNCHANGED <<nodeVars, lookup>>

\* A call fails, or the block is no longer there.
LookupFails(r) ==
  /\ lookup[r] # NoLookup
  /\ lookup' = [lookup EXCEPT ![r] = NoLookup]
  /\ UNCHANGED <<nodeVars, rootBlocks, slotRoots>>

\* The LRUs are full.
EvictBlock(root) ==
  /\ root \in DOMAIN rootBlocks
  /\ rootBlocks' = Restrict(rootBlocks, DOMAIN rootBlocks \ {root})
  /\ UNCHANGED <<nodeVars, slotRoots, lookup>>

EvictRoot(slot) ==
  /\ slot \in DOMAIN slotRoots
  /\ slotRoots' = Restrict(slotRoots, DOMAIN slotRoots \ {slot})
  /\ UNCHANGED <<nodeVars, rootBlocks, lookup>>

BlocksRestart ==
  /\ rootBlocks' = << >> /\ slotRoots' = << >>
  /\ lookup' = [r \in Readers |-> NoLookup]

BlockStep ==
  \/ \E r \in Readers, slot \in ReadSlots, root \in Blocks, final \in BOOLEAN :
       Resolve(r, slot, root, final)
  \/ \E r \in Readers : FetchBlock(r) \/ LookupFails(r)
  \/ \E root \in Blocks : FetchByRoot(root) \/ EvictBlock(root)
  \/ \E slot \in ReadSlots : EvictRoot(slot)

(***************************************************************************)
(* Properties.                                                             *)
(***************************************************************************)

\* A cached block is the one its root names, also when the slot it was asked
\* for changed hands between the two requests.
BlocksByRoot == \A root \in DOMAIN rootBlocks : rootBlocks[root] = root

\* The cached root of a slot is on the canonical chain, whatever reorgs
\* follow, and the indexer may call it final.
SlotRootsFinal ==
  \A slot \in DOMAIN slotRoots : Finalized(slotRoots[slot]) /\ BlockSlot[slotRoots[slot]] = slot

\* The inductive invariant: the caches, and what a call knows between its two
\* requests.
Lookups == [slot : Nat, root : Blocks \cup {NoRoot}, final : BOOLEAN]

BlockInv ==
  /\ BlocksByRoot /\ SlotRootsFinal
  /\ lookup \in [Readers -> Lookups]
  /\ \A r \in Readers :
       lookup[r].root # NoRoot =>
         BlockSlot[lookup[r].root] = lookup[r].slot
         /\ (lookup[r].final => Finalized(lookup[r].root))

=============================================================================
