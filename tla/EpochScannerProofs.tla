------------------------- MODULE EpochScannerProofs -------------------------
(***************************************************************************)
(* Theorems about EpochScanner.                                            *)
(***************************************************************************)
EXTENDS EpochScanner, FiniteSetTheorems, WellFoundedInduction, TLAPS

(***************************************************************************)
(* Least and greatest elements.                                            *)
(***************************************************************************)

\* A set of naturals that is not empty has a least element.
LEMMA LeastNat ==
    ASSUME NEW T, T \subseteq Nat, T # {}
    PROVE  \E x \in T : \A y \in T : x <= y
  <1> DEFINE R == {ss \in Nat \X Nat : ss[1] < ss[2]}
  <1>1. IsWellFoundedOn(R, Nat)
    BY NatLessThanWellFounded DEF OpToRel
  <1>2. \A x, y \in Nat : <<y, x>> \in R <=> y < x
    OBVIOUS
  <1> HIDE DEF R
  <1>3. PICK x \in T : \A y \in T : ~ (<<y, x>> \in R)
    BY <1>1, WFMin
  <1>4. \A y \in T : ~ (y < x)
    BY <1>2, <1>3
  <1> QED
    BY <1>3, <1>4

LEMMA MinIn ==
    ASSUME NEW T, T \subseteq Nat, T # {}
    PROVE  Min(T) \in T /\ \A y \in T : Min(T) <= y
  BY LeastNat DEF Min

\* So has one that is bounded a greatest.
LEMMA MaxIn ==
    ASSUME NEW T, T \subseteq Nat, T # {}, NEW n \in Nat, \A x \in T : x <= n
    PROVE  Max(T) \in T /\ \A y \in T : y <= Max(T)
  <1> DEFINE U == {d \in Nat : \E x \in T : d = n - x}
  <1>1. PICK x \in T : TRUE
    OBVIOUS
  <1>2. n - x \in U
    BY <1>1
  <1>3. PICK d \in U : \A e \in U : d <= e
    <2> HIDE DEF U
    <2> U \subseteq Nat
      BY DEF U
    <2> QED
      BY <1>2, LeastNat
  <1>4. PICK m \in T : d = n - m
    BY <1>3
  <1>5. \A y \in T : n - y \in U
    OBVIOUS
  <1>6. \A y \in T : y <= m
    <2> TAKE y \in T
    <2>1. d <= n - y
      BY <1>3, <1>5
    <2>2. y \in Nat /\ m \in Nat
      BY <1>4
    <2> QED
      BY <1>4, <2>1, <2>2
  <1>7. \E z \in T : \A y \in T : z >= y
    BY <1>4, <1>6
  <1> QED
    BY <1>7 DEF Max

LEMMA MaxIs ==
    ASSUME NEW T, T \subseteq Nat, NEW m \in T, \A y \in T : y <= m
    PROVE  Max(T) = m
  <1>1. Max(T) \in T /\ \A y \in T : y <= Max(T)
    BY MaxIn
  <1>2. m <= Max(T) /\ Max(T) <= m /\ m \in Nat /\ Max(T) \in Nat
    BY <1>1
  <1> QED
    BY <1>2

LEMMA MinIs ==
    ASSUME NEW T, T \subseteq Nat, NEW m \in T, \A y \in T : m <= y
    PROVE  Min(T) = m
  <1>1. Min(T) \in T /\ \A y \in T : Min(T) <= y
    BY MinIn
  <1>2. m <= Min(T) /\ Min(T) <= m /\ m \in Nat /\ Min(T) \in Nat
    BY <1>1
  <1> QED
    BY <1>2

(***************************************************************************)
(* The slots of the epoch, its committees and its chains.                  *)
(***************************************************************************)

LEMMA SlotFacts ==
    /\ EpochStartSlot(Epoch) \in EpochSlots
    /\ EpochSlots \subseteq Window /\ Window \subseteq Nat
    /\ \A s \in EpochSlots : EpochStartSlot(Epoch) <= s
    /\ \A s \in EpochSlots : SlotToEpoch(s) = Epoch
    /\ EpochStartSlot(Epoch) \in Nat /\ EpochStartSlot(Epoch + 1) \in Nat
    /\ EpochStartSlot(Epoch + 2) \in Nat
    /\ EpochStartSlot(Epoch) < EpochStartSlot(Epoch + 1)
    /\ EpochStartSlot(Epoch + 1) < EpochStartSlot(Epoch + 2)
  <1>1. /\ Epoch \in Nat
        /\ EpochStartSlot(Epoch) \in Nat /\ EpochStartSlot(Epoch + 1) \in Nat
        /\ EpochStartSlot(Epoch + 2) \in Nat
        /\ EpochStartSlot(Epoch) < EpochStartSlot(Epoch + 1)
        /\ EpochStartSlot(Epoch + 1) < EpochStartSlot(Epoch + 2)
    BY ScannerAssumption, SlotsPerEpochAssumption, Z3 DEF EpochStartSlot
  <1>2. /\ EpochStartSlot(Epoch) \in EpochSlots
        /\ EpochSlots \subseteq Window /\ Window \subseteq Nat
        /\ \A s \in EpochSlots : EpochStartSlot(Epoch) <= s
    BY <1>1 DEF EpochSlots, Window
  <1>3. \A s \in EpochSlots : SlotToEpoch(s) = Epoch
    <2> TAKE s \in EpochSlots
    <2>1. s \in Nat /\ Epoch * SlotsPerEpoch <= s /\ s < (Epoch + 1) * SlotsPerEpoch
      BY <1>1 DEF EpochSlots, EpochStartSlot
    <2> QED
      BY <1>1, <2>1, SlotsPerEpochAssumption, Z3 DEF SlotToEpoch
  <1> QED
    BY <1>1, <1>2, <1>3

LEMMA DutySlotInEpoch ==
    ASSUME NEW v \in Tracked
    PROVE  DutySlot(v) \in EpochSlots
  <1>1. \E c \in DOMAIN Committees : v \in Range(Committees[c])
    BY ScannerAssumption
  <1>2. DOMAIN Committees \subseteq EpochSlots \X (0..(MaxCommitteesPerSlot - 1))
    BY ScannerAssumption
  <1>3. (CHOOSE c \in DOMAIN Committees : v \in Range(Committees[c])) \in DOMAIN Committees
    BY <1>1
  <1> QED
    BY <1>2, <1>3 DEF DutySlot

LEMMA MarksType ==
    ASSUME NEW source \in BOOLEAN, NEW target \in BOOLEAN, NEW head \in BOOLEAN
    PROVE  [source |-> source, target |-> target, head |-> head] \in [Components -> BOOLEAN]
  <1> DEFINE r == [source |-> source, target |-> target, head |-> head]
  <1>1. r = [m \in {"source", "target", "head"} |-> r[m]]
    OBVIOUS
  <1>2. \A m \in {"source", "target", "head"} : r[m] \in BOOLEAN
    OBVIOUS
  <1> QED
    BY <1>1, <1>2 DEF Components

\* A block of the window holds the encoding of its votes, which are of earlier
\* slots of the epoch; a tracked validator votes in its duty slot.
LEMMA BodyFacts ==
    ASSUME NEW c \in Chains, NEW s \in DOMAIN c.body
    PROVE  /\ s \in Window /\ s \in Nat /\ s \in c.filled
           /\ DOMAIN c.body = c.filled \cap Window /\ DOMAIN c.votes = DOMAIN c.body
           /\ DOMAIN c.body[s] = DOMAIN c.votes[s] /\ DOMAIN c.votes[s] \subseteq Nat
           /\ \A k \in DOMAIN c.body[s] :
                /\ IsVote(c.votes[s][k]) /\ c.body[s][k] = AttestationOf(c.votes[s][k])
                /\ c.body[s][k].slot = c.votes[s][k].slot
                /\ c.votes[s][k].slot \in EpochSlots /\ c.votes[s][k].slot < s
                /\ \A v \in Tracked \cap c.votes[s][k].voters :
                     c.votes[s][k].slot = DutySlot(v)
  <1>1. c.body = [x \in DOMAIN c.votes |->
                    [k \in DOMAIN c.votes[x] |-> AttestationOf(c.votes[x][k])]]
    BY ChainAssumption
  <1>2. DOMAIN c.body = DOMAIN c.votes /\ DOMAIN c.votes = c.filled \cap Window
    BY <1>1, ChainAssumption
  <1>3. c.body[s] = [k \in DOMAIN c.votes[s] |-> AttestationOf(c.votes[s][k])]
    BY <1>1, <1>2
  <1>4. DOMAIN c.votes[s] \subseteq Nat
    <2>1. c.votes[s] \in Seq(Range(c.votes[s]))
      BY <1>2, ChainAssumption
    <2> QED
      BY <2>1
  <1>5. \A k \in DOMAIN c.votes[s] : AttestationOf(c.votes[s][k]).slot = c.votes[s][k].slot
    BY DEF AttestationOf
  <1>6. \A k \in DOMAIN c.votes[s] :
          /\ IsVote(c.votes[s][k])
          /\ c.votes[s][k].slot \in EpochSlots /\ c.votes[s][k].slot < s
          /\ \A v \in Tracked \cap c.votes[s][k].voters : c.votes[s][k].slot = DutySlot(v)
    <2>1. \A x \in DOMAIN c.votes : \A k \in DOMAIN c.votes[x] :
            /\ IsVote(c.votes[x][k])
            /\ c.votes[x][k].slot \in EpochSlots /\ c.votes[x][k].slot < x
            /\ \A v \in Tracked \cap c.votes[x][k].voters : c.votes[x][k].slot = DutySlot(v)
      BY ChainAssumption
    <2> QED
      BY <1>2, <2>1
  <1>7. DOMAIN c.body[s] = DOMAIN c.votes[s]
    BY <1>3
  <1>8. \A k \in DOMAIN c.body[s] : c.body[s][k] = AttestationOf(c.votes[s][k])
    BY <1>3
  <1> QED
    BY <1>2, <1>4, <1>5, <1>6, <1>7, <1>8, SlotFacts

(***************************************************************************)
(* What a scan finds in the blocks.                                        *)
(***************************************************************************)

InclusionType == [slot : Window, delay : Nat, marks : [Components -> BOOLEAN]]

IsFound(found, vs) == DOMAIN found \subseteq vs /\ \A v \in DOMAIN found : found[v] \in InclusionType

\* The attestations of a block that record a validator.
Places(c, s, v, vs, ctx) ==
  {k \in DOMAIN c.body[s] : v \in Recorded(c.body[s][k], Committees, vs, ctx)}

\* A block's result names the validators recorded in it, each by the first
\* attestation that does.
IsBlockResult(found, c, s, vs, ctx) ==
  /\ DOMAIN found = {v \in vs : Places(c, s, v, vs, ctx) # {}}
  /\ \A v \in DOMAIN found : \E k \in Places(c, s, v, vs, ctx) :
       /\ k = Min(Places(c, s, v, vs, ctx))
       /\ found[v] = Inclusion(c.body[s][k], s, ctx)

LEMMA ExtractFacts ==
    ASSUME NEW c \in Chains, NEW s \in DOMAIN c.body, NEW vs, NEW ctx
    PROVE  IsBlockResult(ExtractInclusions(c.body[s], s, Committees, vs, ctx), c, s, vs, ctx)
  <1> DEFINE found == ExtractInclusions(c.body[s], s, Committees, vs, ctx)
  <1>1. found = [v \in {w \in vs : Places(c, s, w, vs, ctx) # {}} |->
                   Inclusion(c.body[s][Min(Places(c, s, v, vs, ctx))], s, ctx)]
    BY DEF ExtractInclusions, Places, FirstRecord
  <1>2. DOMAIN found = {v \in vs : Places(c, s, v, vs, ctx) # {}}
    BY <1>1
  <1>3. ASSUME NEW v \in DOMAIN found
        PROVE  \E k \in Places(c, s, v, vs, ctx) :
                 /\ k = Min(Places(c, s, v, vs, ctx))
                 /\ found[v] = Inclusion(c.body[s][k], s, ctx)
    <2>1. Places(c, s, v, vs, ctx) \subseteq Nat /\ Places(c, s, v, vs, ctx) # {}
      BY <1>2, <1>3, BodyFacts DEF Places
    <2>2. Min(Places(c, s, v, vs, ctx)) \in Places(c, s, v, vs, ctx)
      BY <2>1, MinIn
    <2>3. found[v] = Inclusion(c.body[s][Min(Places(c, s, v, vs, ctx))], s, ctx)
      BY <1>1, <1>2, <1>3
    <2> QED
      BY <2>2, <2>3
  <1> QED
    BY <1>2, <1>3 DEF IsBlockResult

LEMMA VoteMarksType ==
    ASSUME NEW att, NEW ctx
    PROVE  VoteMarks(att, ctx) \in [Components -> BOOLEAN]
  <1>1. /\ (ctx.source = NoSource \/ att.source = ctx.source) \in BOOLEAN
        /\ (att.target = [epoch |-> ctx.targetEpoch, root |-> ctx.targetRoot]) \in BOOLEAN
        /\ (att.head = ctx.blockRoots[att.slot]) \in BOOLEAN
    OBVIOUS
  <1> QED
    BY <1>1, MarksType DEF VoteMarks

LEMMA ExtractType ==
    ASSUME NEW c \in Chains, NEW s \in DOMAIN c.body, NEW vs, NEW ctx, NEW found,
           IsBlockResult(found, c, s, vs, ctx)
    PROVE  IsFound(found, vs) /\ \A v \in DOMAIN found : found[v].slot = s
  <1>1. DOMAIN found \subseteq vs
    BY DEF IsBlockResult
  <1>2. ASSUME NEW v \in DOMAIN found
        PROVE  found[v] \in InclusionType /\ found[v].slot = s
    <2>1. PICK k \in DOMAIN c.body[s] : found[v] = Inclusion(c.body[s][k], s, ctx)
      BY <1>2 DEF IsBlockResult, Places
    <2>2. s - c.body[s][k].slot \in Nat
      <3>1. s \in Nat /\ c.body[s][k].slot \in EpochSlots /\ c.body[s][k].slot < s
        BY BodyFacts
      <3>2. c.body[s][k].slot \in Nat
        BY <3>1, SlotFacts
      <3> QED
        BY <3>1, <3>2
    <2>3. s \in Window
      BY BodyFacts
    <2> QED
      BY <2>1, <2>2, <2>3, VoteMarksType DEF Inclusion, InclusionType
  <1> QED
    BY <1>1, <1>2 DEF IsFound

\* The blocks that record a validator.
InBlocks(c, D, v, vs, ctx) ==
  {s \in D : v \in DOMAIN ExtractInclusions(c.body[s], s, Committees, vs, ctx)}

\* The result of several blocks names each validator by the first block that
\* records it.
IsResult(found, c, D, vs, ctx) ==
  /\ DOMAIN found = {v \in vs : InBlocks(c, D, v, vs, ctx) # {}}
  /\ \A v \in DOMAIN found : \E s \in InBlocks(c, D, v, vs, ctx) :
       /\ s = Min(InBlocks(c, D, v, vs, ctx))
       /\ found[v] = ExtractInclusions(c.body[s], s, Committees, vs, ctx)[v]

LEMMA CollectFacts ==
    ASSUME NEW c \in Chains, NEW bodies, DOMAIN bodies \subseteq DOMAIN c.body,
           \A s \in DOMAIN bodies : bodies[s] = c.body[s], NEW vs, NEW ctx
    PROVE  IsResult(CollectInclusions(bodies, Committees, vs, ctx), c, DOMAIN bodies, vs, ctx)
  <1> DEFINE found == CollectInclusions(bodies, Committees, vs, ctx)
             at == [s \in DOMAIN bodies |-> ExtractInclusions(bodies[s], s, Committees, vs, ctx)]
             D == DOMAIN bodies
  <1>1. \A s \in D : at[s] = ExtractInclusions(c.body[s], s, Committees, vs, ctx)
    OBVIOUS
  <1>2. found = [v \in {w \in vs : {s \in D : w \in DOMAIN at[s]} # {}} |->
                   at[Min({s \in D : v \in DOMAIN at[s]})][v]]
    BY DEF CollectInclusions, FirstRecord
  <1>3. \A v : {s \in D : v \in DOMAIN at[s]} = InBlocks(c, D, v, vs, ctx)
    BY <1>1 DEF InBlocks
  <1> HIDE DEF found, at
  <1>4. DOMAIN found = {v \in vs : InBlocks(c, D, v, vs, ctx) # {}}
    BY <1>2, <1>3
  <1>5. ASSUME NEW v \in DOMAIN found
        PROVE  \E s \in InBlocks(c, D, v, vs, ctx) :
                 /\ s = Min(InBlocks(c, D, v, vs, ctx))
                 /\ found[v] = ExtractInclusions(c.body[s], s, Committees, vs, ctx)[v]
    <2>1. InBlocks(c, D, v, vs, ctx) # {}
      BY <1>4, <1>5
    <2>2. InBlocks(c, D, v, vs, ctx) \subseteq Nat
      <3>1. \A s \in D : s \in Nat
        BY BodyFacts
      <3> QED
        BY <3>1 DEF InBlocks
    <2>3. Min(InBlocks(c, D, v, vs, ctx)) \in InBlocks(c, D, v, vs, ctx)
      BY <2>1, <2>2, MinIn
    <2>4. found[v] = at[Min(InBlocks(c, D, v, vs, ctx))][v]
      BY <1>2, <1>3, <1>4, <1>5
    <2>5. Min(InBlocks(c, D, v, vs, ctx)) \in D
      BY <2>3 DEF InBlocks
    <2> QED
      BY <1>1, <2>3, <2>4, <2>5
  <1> QED
    BY <1>4, <1>5 DEF found, IsResult

LEMMA CollectType ==
    ASSUME NEW c \in Chains, NEW D, D \subseteq DOMAIN c.body, NEW vs, NEW ctx, NEW found,
           IsResult(found, c, D, vs, ctx)
    PROVE  IsFound(found, vs) /\ \A v \in DOMAIN found : found[v].slot \in D
  <1>1. DOMAIN found \subseteq vs
    BY DEF IsResult
  <1>2. ASSUME NEW v \in DOMAIN found
        PROVE  found[v] \in InclusionType /\ found[v].slot \in D
    <2>1. PICK s \in InBlocks(c, D, v, vs, ctx) :
            found[v] = ExtractInclusions(c.body[s], s, Committees, vs, ctx)[v]
      BY <1>2 DEF IsResult
    <2> DEFINE inBlock == ExtractInclusions(c.body[s], s, Committees, vs, ctx)
    <2>2. s \in D /\ s \in DOMAIN c.body /\ v \in DOMAIN inBlock
      BY <2>1 DEF InBlocks
    <2>3. IsBlockResult(inBlock, c, s, vs, ctx)
      BY <2>2, ExtractFacts
    <2> HIDE DEF inBlock
    <2>4. IsFound(inBlock, vs) /\ \A w \in DOMAIN inBlock : inBlock[w].slot = s
      BY <2>2, <2>3, ExtractType
    <2>5. found[v] = inBlock[v]
      BY <2>1 DEF inBlock
    <2> QED
      BY <2>2, <2>4, <2>5 DEF IsFound
  <1> QED
    BY <1>1, <1>2 DEF IsFound

\* The three scans.
LEMMA DenseScan ==
    ASSUME NEW c \in Chains, NEW vs \in SUBSET Tracked, NEW found \in Decoded(c).dense[vs]
    PROVE  DenseReady(c) /\ IsResult(found, c, DOMAIN c.body, vs, DenseContext(c))
  <1>1. Decoded(c).dense[vs] = DenseResult(c, vs)
    BY DEF Decoded
  <1>2. DenseReady(c) /\ found = CollectInclusions(c.body, Committees, vs, DenseContext(c))
    BY <1>1 DEF DenseResult
  <1> QED
    BY <1>2, CollectFacts

LEMMA SparseScan ==
    ASSUME NEW c \in Chains, NEW v \in Tracked, NEW found \in Decoded(c).sparse[v]
    PROVE  /\ SparseReady(c, v)
           /\ IsResult(found, c, {b \in DOMAIN c.body : b > DutySlot(v)}, {v}, SparseContext(c, v))
  <1>1. Decoded(c).sparse[v] = SparseResult(c, v)
    BY DEF Decoded
  <1>2. SparseReady(c, v) /\ found = SparseFound(c, v)
    BY <1>1 DEF SparseResult
  <1> DEFINE bodies == ForwardBodies(c, v)
             D == {b \in DOMAIN c.body : b > DutySlot(v)}
  <1>3. DOMAIN bodies = D /\ \A s \in D : bodies[s] = c.body[s]
    BY DEF ForwardBodies
  <1>4. found = CollectInclusions(bodies, Committees, {v}, SparseContext(c, v))
    BY <1>2 DEF SparseFound
  <1> HIDE DEF bodies
  <1>5. IsResult(found, c, DOMAIN bodies, {v}, SparseContext(c, v))
    <2>1. DOMAIN bodies \subseteq DOMAIN c.body
      BY <1>3
    <2>2. \A s \in DOMAIN bodies : bodies[s] = c.body[s]
      BY <1>3
    <2> QED
      BY <1>4, <2>1, <2>2, CollectFacts
  <1> QED
    BY <1>2, <1>3, <1>5

RootsFrom(c, first, slot) == {b \in c.filled : first <= b /\ b <= slot}

LEMMA LiveScan ==
    ASSUME NEW c \in Chains, NEW slot \in DOMAIN c.body, NEW first \in c.filled, first <= slot,
           NEW found \in Decoded(c).live[slot][first]
    PROVE  LET roots == RootsFrom(c, first, slot)
           IN /\ IsBlockResult(found, c, slot, Tracked, LiveContext(slot, roots))
              /\ DOMAIN found # {} => \E r \in roots : r <= EpochStartSlot(Epoch)
  <1> DEFINE roots == RootsFrom(c, first, slot)
             ctx == LiveContext(slot, roots)
  <1>1. first \in c.filled \cap (0..slot)
    <2>1. slot \in Nat
      BY BodyFacts
    <2>2. first \in Nat
      BY ChainAssumption
    <2> QED
      BY <2>1, <2>2
  <1>2. found \in LiveResult(c, slot, roots)
    BY <1>1 DEF Decoded, RootsFrom
  <1> HIDE DEF roots
  <1>3. CASE c.body[slot] = << >>
    <2>1. found = << >> /\ DOMAIN found = {}
      BY <1>2, <1>3 DEF LiveResult
    <2>2. \A v : Places(c, slot, v, Tracked, ctx) = {}
      BY <1>3 DEF Places
    <2> QED
      BY <2>1, <2>2 DEF IsBlockResult, roots
  <1>4. CASE c.body[slot] # << >>
    <2>1. /\ \E r \in roots : r <= EpochStartSlot(Epoch)
          /\ found = ExtractInclusions(c.body[slot], slot, Committees, Tracked, ctx)
      BY <1>2, <1>4 DEF LiveResult
    <2>2. IsBlockResult(found, c, slot, Tracked, ctx)
      BY <2>1, ExtractFacts
    <2> QED
      BY <2>1, <2>2 DEF roots
  <1> QED
    BY <1>3, <1>4

(***************************************************************************)
(* The rows the writers make.                                              *)
(***************************************************************************)

\* The chain does not change, and neither does what the scans make of it.
ChainInv == chain \in Chains /\ decoded = Decoded(chain)

RewardType == [Components -> BOOLEAN]

LEMMA FiniteBetween ==
    ASSUME NEW a \in Nat, NEW b \in Nat, NEW P, P \subseteq Nat,
           \A s \in P : a <= s /\ s <= b
    PROVE  IsFiniteSet(P) /\ Cardinality(P) \in Nat
  <1>1. P \subseteq a..b
    OBVIOUS
  <1>2. IsFiniteSet(a..b)
    BY FS_Interval
  <1> QED
    BY <1>1, <1>2, FS_Subset, FS_CardinalityType

LEMMA RewardTyped ==
    ASSUME NEW v
    PROVE  RewardOf(v) \in RewardType
  <1>1. \A vote : RightVote(vote) \in RewardType
    <2> TAKE vote
    <2>1. /\ TRUE \in BOOLEAN
          /\ (vote.target = RootAtOrBefore(chain, EpochStartSlot(Epoch))) \in BOOLEAN
          /\ (vote.head = RootAtOrBefore(chain, vote.slot)) \in BOOLEAN
      OBVIOUS
    <2> QED
      BY <2>1, MarksType DEF RightVote, RewardType
  <1>2. ASSUME NEW r \in RewardType, NEW b \in BOOLEAN
        PROVE  [r EXCEPT !.head = b] \in RewardType
    BY DEF RewardType, Components
  <1>3. [c \in Components |-> FALSE] \in RewardType
    BY DEF RewardType
  <1> DEFINE first == Min(InclusionSlots(v))
             right == RightVote(VoteIn(v, first))
  <1>4. right \in RewardType
    BY <1>1
  <1>5. (right.head /\ first = DutySlot(v) + 1) \in BOOLEAN
    OBVIOUS
  <1>6. [right EXCEPT !.head = right.head /\ first = DutySlot(v) + 1] \in RewardType
    <2> HIDE DEF right, first
    <2> QED
      BY <1>2, <1>4, <1>5
  <1> QED
    BY <1>3, <1>6 DEF RewardOf

\* What an upsert makes of a row: it keeps the old one, or replaces it by the
\* new one with what the old one knew.
Replaced(row, new, old) ==
  /\ row.included = new.included /\ row.slot = new.slot
  /\ row.delay = new.delay /\ row.effective = new.effective
  /\ row.final = new.final
  /\ \A c \in Components : new.marks[c] # Null => row.marks[c] = new.marks[c]
  /\ row.reward = IF new.reward # Null \/ old = Null THEN new.reward ELSE old.reward

LEMMA UpsertCases ==
    ASSUME NEW new \in AttestationRow, NEW old \in AttestationRow \cup {Null}, NEW done \in BOOLEAN
    PROVE  /\ Upsert(new, old, done) \in AttestationRow
           /\ IF old = Null \/ Replaces(new, old, done)
              THEN Replaced(Upsert(new, old, done), new, old)
              ELSE Upsert(new, old, done) = old
  <1>1. CASE old = Null
    BY <1>1 DEF Upsert, Replaced
  <1>2. CASE old # Null /\ ~Replaces(new, old, done)
    BY <1>2 DEF Upsert
  <1>3. CASE old # Null /\ Replaces(new, old, done)
    <2> DEFINE marks == [c \in Components |-> Coalesce(new.marks[c], old.marks[c])]
               reward == Coalesce(new.reward, old.reward)
               row == [new EXCEPT !.marks = marks, !.reward = reward, !.known = old.known]
    <2>1. old \in AttestationRow
      BY <1>3
    <2>2. marks \in Marks /\ \A c \in Components : new.marks[c] # Null => marks[c] = new.marks[c]
      BY <2>1 DEF AttestationRow, Marks, Coalesce
    <2>3. /\ reward \in [Components -> BOOLEAN] \cup {Null}
          /\ reward = IF new.reward # Null THEN new.reward ELSE old.reward
      BY <2>1 DEF AttestationRow, Coalesce
    <2>4. old.known \in BOOLEAN
      BY <2>1 DEF AttestationRow
    <2>5. Upsert(new, old, done) = row
      BY <1>3 DEF Upsert
    <2> HIDE DEF marks, reward
    <2>6. row \in AttestationRow
      BY <2>2, <2>3, <2>4 DEF AttestationRow
    <2>7. /\ row.included = new.included /\ row.slot = new.slot
          /\ row.delay = new.delay /\ row.effective = new.effective
          /\ row.final = new.final /\ row.marks = marks /\ row.reward = reward
      BY DEF AttestationRow
    <2>8. Replaced(row, new, old)
      BY <1>3, <2>2, <2>3, <2>7 DEF Replaced
    <2> QED
      BY <1>3, <2>5, <2>6, <2>8
  <1> QED
    BY <1>1, <1>2, <1>3

LEMMA JoinRewardCases ==
    ASSUME NEW row \in AttestationRow, NEW reward \in RewardType
    PROVE  LET new == JoinReward(row, reward)
           IN /\ new \in AttestationRow
              /\ new.included = row.included /\ new.slot = row.slot /\ new.delay = row.delay
              /\ new.effective = row.effective /\ new.final = row.final /\ new.known = row.known
              /\ new.reward = reward
              /\ \A c \in Components : row.marks[c] # Null => new.marks[c] = row.marks[c]
  <1> DEFINE marks == [c \in Components |->
                         Coalesce(row.marks[c], IF reward[c] THEN TRUE ELSE Null)]
             new == [row EXCEPT !.reward = reward, !.marks = marks]
  <1>1. marks \in Marks /\ \A c \in Components : row.marks[c] # Null => marks[c] = row.marks[c]
    BY DEF AttestationRow, Marks, Coalesce
  <1>2. JoinReward(row, reward) = new
    BY DEF JoinReward
  <1> HIDE DEF marks
  <1>3. /\ new \in AttestationRow
        /\ new.included = row.included /\ new.slot = row.slot /\ new.delay = row.delay
        /\ new.effective = row.effective /\ new.final = row.final /\ new.known = row.known
        /\ new.reward = reward /\ new.marks = marks
    BY <1>1 DEF AttestationRow, RewardType
  <1> QED
    BY <1>1, <1>2, <1>3

\* A repair replaces the inclusion of a row by another, or leaves the row.
RepairOf(new, row, inc, effective, done) ==
  /\ new \in AttestationRow
  /\ new.included = row.included /\ new.reward = row.reward
  /\ new.known = row.known /\ new.final = row.final
  /\ new = row \/ /\ row.included /\ row.slot >= inc.slot
                  /\ new.slot = inc.slot /\ new.delay = inc.delay
                  /\ new.effective = effective /\ new.marks = inc.marks
                  /\ done => row.slot = inc.slot /\ ~Detailed(row)

LEMMA RepairedCases ==
    ASSUME NEW row \in AttestationRow, NEW inc \in InclusionType, NEW effective \in Nat,
           NEW done \in BOOLEAN
    PROVE  RepairOf(Repaired(row, inc, effective, done), row, inc, effective, done)
  <1> DEFINE new == [row EXCEPT !.slot = inc.slot, !.delay = inc.delay, !.effective = effective,
                                !.marks = inc.marks]
  <1>1. inc.slot \in Window /\ inc.delay \in Nat /\ inc.marks \in Marks
    BY DEF InclusionType, Marks
  <1>2. /\ new \in AttestationRow
        /\ new.included = row.included /\ new.reward = row.reward
        /\ new.known = row.known /\ new.final = row.final
        /\ new.slot = inc.slot /\ new.delay = inc.delay
        /\ new.effective = effective /\ new.marks = inc.marks
    BY <1>1 DEF AttestationRow
  <1> HIDE DEF new
  <1>3. \/ Repaired(row, inc, effective, done) = row
        \/ /\ Repaired(row, inc, effective, done) = new
           /\ row.included /\ row.slot >= inc.slot /\ (done => row.slot = inc.slot /\ ~Detailed(row))
    <2> DEFINE moves == /\ row.included /\ row.slot >= inc.slot
                        /\ \/ ~done
                           \/ row.slot = inc.slot /\ ~Detailed(row)
    <2>1. Repaired(row, inc, effective, done) = IF moves THEN new ELSE row
      BY DEF Repaired, new
    <2>2. moves => row.included /\ row.slot >= inc.slot /\ (done => row.slot = inc.slot /\ ~Detailed(row))
      OBVIOUS
    <2> HIDE DEF moves
    <2> QED
      BY <2>1, <2>2
  <1> QED
    BY <1>2, <1>3 DEF RepairOf

LEMMA NoMarksType ==
    NoMarks \in Marks
  BY DEF NoMarks, Marks

LEMMA EffectiveDelayType ==
    ASSUME ChainInv, NEW a \in Nat, NEW b \in Nat, NEW delay \in Nat
    PROVE  EffectiveDelay(a, b, delay) \in Nat
  <1> DEFINE P == {s \in (a + 1)..(b - 1) : s \notin chain.filled}
  <1>1. IsFiniteSet((a + 1)..(b - 1))
    BY FS_Interval
  <1>2. IsFiniteSet(P) /\ Cardinality(P) \in Nat
    BY <1>1, FS_Subset, FS_CardinalityType
  <1>3. EffectiveDelay(a, b, delay) = SatSub(delay, Cardinality(P))
    BY DEF EffectiveDelay
  <1> HIDE DEF P
  <1> QED
    BY <1>2, <1>3 DEF SatSub

\* The archive's row is final and whole; it names the inclusion it found.
LEMMA ScannedRowCases ==
    ASSUME ChainInv, NEW v \in Tracked, NEW found, IsFound(found, Tracked),
           mode # "dense" /\ v \in DOMAIN found => DutySlot(v) < found[v].slot,
           NEW reward \in RewardType \cup {Null}
    PROVE  LET row == ScannedRow(v, found, reward)
           IN /\ row \in AttestationRow /\ row.final
              /\ row.reward = reward
              /\ row.included <=> v \in DOMAIN found
              /\ Detailed(row) /\ (row.included => \A c \in Components : row.marks[c] # Null)
              /\ row.included =>
                   /\ row.slot = found[v].slot /\ row.marks = found[v].marks
                   /\ row.delay = IF mode = "dense" THEN found[v].delay
                                  ELSE found[v].slot - DutySlot(v)
                   /\ row.effective = EffectiveDelay(DutySlot(v), row.slot, row.delay)
              /\ ~row.included => row.slot = Null
  <1> DEFINE row == ScannedRow(v, found, reward)
  <1>1. CASE v \in DOMAIN found
    <2> DEFINE inc == found[v]
               delay == IF mode = "dense" THEN inc.delay ELSE inc.slot - DutySlot(v)
               effective == EffectiveDelay(DutySlot(v), inc.slot, delay)
    <2>1. inc \in InclusionType
      BY <1>1 DEF IsFound
    <2>2. DutySlot(v) \in Nat /\ inc.slot \in Nat /\ inc.slot \in Window /\ inc.delay \in Nat
      BY <2>1, DutySlotInEpoch, SlotFacts DEF InclusionType
    <2>3. inc.marks \in Marks /\ \A c \in Components : inc.marks[c] # Null
      BY <2>1, NullAssumption DEF InclusionType, Marks
    <2>4. delay \in Nat
      BY <1>1, <2>2
    <2>5. effective \in Nat
      <3> HIDE DEF delay
      <3> QED
        BY <2>2, <2>4, EffectiveDelayType
    <2>6. row = Row(TRUE, inc.slot, delay, effective, inc.marks, reward, TRUE)
      BY <1>1 DEF ScannedRow
    <2> HIDE DEF row, inc, delay, effective
    <2>7. /\ row \in AttestationRow
          /\ row.included = TRUE /\ row.slot = inc.slot /\ row.delay = delay
          /\ row.effective = effective /\ row.marks = inc.marks /\ row.reward = reward
          /\ row.final = TRUE
      BY <2>2, <2>3, <2>4, <2>5, <2>6 DEF Row, AttestationRow, RewardType
    <2>8. row.effective # Null
      BY <2>5, <2>7, NullAssumption
    <2> QED
      BY <1>1, <2>3, <2>7, <2>8 DEF Detailed, row, inc, delay, effective
  <1>2. CASE v \notin DOMAIN found
    <2> DEFINE marks == IF mode = "dense" \/ reward = Null THEN NoMarks
                        ELSE [c \in Components |-> IF reward[c] THEN TRUE ELSE Null]
    <2>1. marks \in Marks
      BY NoMarksType DEF Marks
    <2>2. row = Row(FALSE, Null, Null, Null, marks, reward, TRUE)
      BY <1>2 DEF ScannedRow
    <2> HIDE DEF marks, row
    <2>3. row \in AttestationRow /\ row.included = FALSE /\ row.slot = Null
          /\ row.reward = reward /\ row.final = TRUE
      BY <2>1, <2>2 DEF Row, AttestationRow, RewardType
    <2> QED
      BY <1>2, <2>3 DEF Detailed, row
  <1> QED
    BY <1>1, <1>2

LEMMA LiveEffectiveType ==
    ASSUME ChainInv, NEW v \in Tracked, NEW slot \in Nat, NEW roots, roots \subseteq chain.filled
    PROVE  LiveEffective(v, slot, roots) \in Nat
  <1> DEFINE P == {r \in roots : DutySlot(v) < r /\ r <= slot}
  <1>1. P \subseteq Nat /\ \A r \in P : 0 <= r /\ r <= slot
    <2>1. chain.filled \subseteq Nat
      BY ChainAssumption DEF ChainInv
    <2> QED
      BY <2>1
  <1>2. Cardinality(P) \in Nat
    <2> HIDE DEF P
    <2> QED
      BY <1>1, FiniteBetween
  <1> QED
    BY <1>2 DEF LiveEffective

LEMMA LiveRowCases ==
    ASSUME ChainInv, NEW v \in Tracked, NEW inc \in InclusionType,
           NEW roots, roots \subseteq chain.filled
    PROVE  LET row == LiveRow(v, inc, roots)
           IN /\ row \in AttestationRow /\ row.included /\ ~row.final
              /\ row.slot = inc.slot /\ row.delay = inc.delay /\ row.marks = inc.marks
              /\ row.effective = LiveEffective(v, inc.slot, roots)
              /\ row.effective \in Nat
              /\ row.reward = Null
  <1>1. inc.slot \in Window /\ inc.slot \in Nat /\ inc.delay \in Nat /\ inc.marks \in Marks
    BY SlotFacts DEF InclusionType, Marks
  <1>2. LiveEffective(v, inc.slot, roots) \in Nat
    BY <1>1, LiveEffectiveType
  <1> QED
    BY <1>1, <1>2 DEF LiveRow, Row, AttestationRow

\* A vote of a tracked validator is included after its duty slot.
LEMMA InclusionAfterDuty ==
    ASSUME ChainInv, NEW v \in Tracked
    PROVE  \A s \in InclusionSlots(v) :
             s \in Window /\ s \in Nat /\ s \in chain.filled /\ s \in DOMAIN chain.body
             /\ DutySlot(v) < s
  <1> TAKE s \in InclusionSlots(v)
  <1>1. chain \in Chains
    BY DEF ChainInv
  <1>2. PICK k \in DOMAIN chain.votes[s] : s \in DOMAIN chain.votes /\ v \in chain.votes[s][k].voters
    BY DEF InclusionSlots
  <1>3. DOMAIN chain.votes = DOMAIN chain.body
    BY <1>1, ChainAssumption
  <1> QED
    BY <1>1, <1>2, <1>3, BodyFacts

LEMMA LegacyRowCases ==
    ASSUME ChainInv, NEW v \in Tracked, NEW s \in InclusionSlots(v)
    PROVE  LET row == LegacyRow(v, s)
           IN /\ row \in AttestationRow /\ row.included /\ ~row.final
              /\ row.slot = s /\ row.delay = s - DutySlot(v) /\ row.effective = Null
              /\ row.reward = RewardOf(v)
  <1>1. s \in Window /\ s \in Nat /\ DutySlot(v) \in Nat /\ DutySlot(v) < s
    BY InclusionAfterDuty, DutySlotInEpoch, SlotFacts
  <1>2. s - DutySlot(v) \in Nat
    BY <1>1
  <1> QED
    BY <1>1, <1>2, NoMarksType, RewardTyped DEF LegacyRow, Row, AttestationRow, RewardType

\* Proposals and sync duties.
ProposalsOf(s) == {ProposalOf(s, reward, final) : reward \in {Null, s}, final \in BOOLEAN}

LEMMA ProposalFinal ==
    ASSUME NEW a \in ProposalRow, NEW b \in ProposalRow,
           b.proposed = a.proposed, b.reward = a.reward, b.final = TRUE
    PROVE  [a EXCEPT !.final = TRUE] = b
  BY DEF ProposalRow

LEMMA ProposalOfType ==
    ASSUME NEW s \in EpochSlots, NEW row \in ProposalsOf(s)
    PROVE  /\ row \in ProposalRow /\ row # Null
           /\ row.final /\ (s \in chain.filled => row.reward # Null) => row = ProposalOf(s, s, TRUE)
           /\ row.reward \in {Null, s}
           /\ s \in chain.filled => [row EXCEPT !.reward = s] = ProposalOf(s, s, row.final)
           /\ [row EXCEPT !.final = TRUE] = ProposalOf(s, row.reward, TRUE)
  <1>1. PICK reward \in {Null, s}, final \in BOOLEAN : row = ProposalOf(s, reward, final)
    BY DEF ProposalsOf
  <1> DEFINE paid == IF s \in chain.filled THEN reward ELSE Null
  <1>2. s # Null /\ (s \in chain.filled) \in BOOLEAN /\ paid \in EpochSlots \cup {Null}
        /\ paid \in {Null, s}
    BY SlotFacts, NullAssumption
  <1>3. row = [proposed |-> s \in chain.filled, reward |-> paid, final |-> final]
    BY <1>1 DEF ProposalOf
  <1>4. \A r, f : ProposalOf(s, r, f) = [proposed |-> s \in chain.filled,
                                         reward |-> IF s \in chain.filled THEN r ELSE Null,
                                         final |-> f]
    BY DEF ProposalOf
  <1>5. row \in ProposalRow /\ row # Null
    <2> HIDE DEF paid
    <2>1. row \in ProposalRow
      BY <1>2, <1>3 DEF ProposalRow
    <2> QED
      BY <2>1, NullAssumption
  <1>6. ASSUME row.final, s \in chain.filled => row.reward # Null
        PROVE  row = ProposalOf(s, s, TRUE)
    <2>1. final = TRUE /\ (s \in chain.filled => paid = s) /\ (s \notin chain.filled => paid = Null)
      BY <1>2, <1>3, <1>6
    <2>2. paid = IF s \in chain.filled THEN s ELSE Null
      BY <2>1
    <2> QED
      BY <1>3, <1>4, <2>1, <2>2
  <1>7. row.reward \in {Null, s} /\ row.final = final /\ row.reward = paid
    BY <1>2, <1>3
  <1>8. s \in chain.filled => [row EXCEPT !.reward = s] = ProposalOf(s, s, row.final)
    BY <1>3, <1>4
  <1>9. [row EXCEPT !.final = TRUE] = ProposalOf(s, row.reward, TRUE)
    <2>1. /\ ProposalOf(s, row.reward, TRUE).proposed = row.proposed
          /\ ProposalOf(s, row.reward, TRUE).reward = row.reward
          /\ ProposalOf(s, row.reward, TRUE).final = TRUE
          /\ ProposalOf(s, row.reward, TRUE) \in ProposalRow
      <3>1. /\ ProposalOf(s, row.reward, TRUE).proposed = (s \in chain.filled)
            /\ ProposalOf(s, row.reward, TRUE).final = TRUE
            /\ ProposalOf(s, row.reward, TRUE).reward = IF s \in chain.filled THEN row.reward ELSE Null
        BY DEF ProposalOf
      <3>2. row.proposed = (s \in chain.filled) /\ row.reward \in EpochSlots \cup {Null}
            /\ row.reward = IF s \in chain.filled THEN row.reward ELSE Null
        BY <1>2, <1>3, <1>7
      <3>3. ProposalOf(s, row.reward, TRUE) \in ProposalRow
        BY <1>2, <3>2 DEF ProposalOf, ProposalRow
      <3> QED
        BY <3>1, <3>2, <3>3
    <2> QED
      BY <1>5, <2>1, ProposalFinal
  <1> QED
    BY <1>1, <1>5, <1>6, <1>7, <1>8, <1>9

\* What an upsert makes of a proposal.
ProposalUpserted(s, row, reward, final, old, done) ==
  /\ row \in ProposalsOf(s)
  /\ old # Null /\ old.final /\ (done \/ ~final) => row = old
  /\ reward = s /\ final /\ (~done \/ old = Null) => row = ProposalOf(s, s, TRUE)

LEMMA ProposalUpsert ==
    ASSUME NEW s \in EpochSlots, NEW reward \in {Null, s}, NEW final \in BOOLEAN,
           NEW old \in ProposalsOf(s) \cup {Null}, NEW done \in BOOLEAN
    PROVE  ProposalUpserted(s, UpsertOutcome(ProposalOf(s, reward, final), old, done),
                            reward, final, old, done)
  <1> DEFINE new == ProposalOf(s, reward, final)
  <1>1. new \in ProposalsOf(s)
    BY DEF ProposalsOf
  <1>2. s # Null
    BY SlotFacts, NullAssumption
  <1>3. CASE old = Null
    BY <1>1, <1>3 DEF UpsertOutcome, ProposalUpserted
  <1>4. CASE old # Null
    <2>1. PICK r \in {Null, s}, f \in BOOLEAN : old = ProposalOf(s, r, f)
      BY <1>4 DEF ProposalsOf
    <2> DEFINE joined == [new EXCEPT !.reward = Coalesce(new.reward, old.reward)]
    <2>2. joined = ProposalOf(s, Coalesce(reward, r), final)
      BY <1>2, <2>1 DEF ProposalOf, Coalesce
    <2>3. Coalesce(reward, r) \in {Null, s} /\ (reward = s => Coalesce(reward, r) = s)
      BY <1>2 DEF Coalesce
    <2>4. UpsertOutcome(new, old, done) =
            IF ~old.final \/ (new.final /\ ~done) THEN joined ELSE old
      BY <1>4 DEF UpsertOutcome
    <2>5. new.final = final
      BY DEF ProposalOf
    <2>6. joined \in ProposalsOf(s) /\ (reward = s /\ final => joined = ProposalOf(s, s, TRUE))
      <3> DEFINE paid == Coalesce(reward, r)
      <3>1. joined = ProposalOf(s, paid, final) /\ paid \in {Null, s} /\ (reward = s => paid = s)
        BY <2>2, <2>3
      <3> HIDE DEF joined, paid
      <3>2. joined \in ProposalsOf(s)
        BY <3>1 DEF ProposalsOf
      <3>3. ASSUME reward = s, final
            PROVE  joined = ProposalOf(s, s, TRUE)
        <4>1. final = TRUE
          BY <3>3
        <4> QED
          BY <3>1, <3>3, <4>1
      <3> QED
        BY <3>2, <3>3
    <2> HIDE DEF joined, new
    <2> QED
      BY <1>4, <2>4, <2>5, <2>6 DEF new, ProposalUpserted
  <1> QED
    BY <1>3, <1>4

SyncReal(k, row) ==
  /\ row \in SyncRow
  /\ row.missed <=> k[2] \notin chain.filled
  /\ row.reward # SyncRewardOf(k[1], k[2]) => row.reward = Null /\ ~row.missed

\* The positions signed less those not signed are twice those signed less all.
LEMMA NetPositionsIs ==
    ASSUME ChainInv, NEW v, NEW slot
    PROVE  /\ Cardinality(Signed(v, slot)) \in Nat /\ Cardinality(Positions(v)) \in Nat
           /\ NetPositions(v, slot) = 2 * Cardinality(Signed(v, slot)) - Cardinality(Positions(v))
           /\ NetPositions(v, slot) \in Int
  <1>1. IsFiniteSet(Positions(v))
    <2>1. chain.syncCommittee \in Seq(Range(chain.syncCommittee))
      BY ChainAssumption DEF ChainInv
    <2>2. DOMAIN chain.syncCommittee = 1..Len(chain.syncCommittee) /\ Len(chain.syncCommittee) \in Nat
      BY <2>1
    <2>3. IsFiniteSet(1..Len(chain.syncCommittee))
      BY <2>2, FS_Interval
    <2> QED
      BY <2>2, <2>3, FS_Subset DEF Positions
  <1>2. Signed(v, slot) \subseteq Positions(v)
    BY DEF Signed
  <1>3. IsFiniteSet(Signed(v, slot))
    BY <1>1, <1>2, FS_Subset
  <1>4. /\ Cardinality(Positions(v) \ Signed(v, slot))
             = Cardinality(Positions(v)) - Cardinality(Positions(v) \cap Signed(v, slot))
        /\ Positions(v) \cap Signed(v, slot) = Signed(v, slot)
    BY <1>1, <1>2, <1>3, FS_Difference
  <1>5. Cardinality(Signed(v, slot)) \in Nat /\ Cardinality(Positions(v)) \in Nat
    BY <1>1, <1>3, FS_CardinalityType
  <1> QED
    BY <1>4, <1>5 DEF NetPositions

LEMMA SyncRewardIs ==
    ASSUME ChainInv, NEW v, NEW slot
    PROVE  /\ SyncRewardOf(v, slot) \in Int
           /\ slot \in chain.filled => SyncRewardOf(v, slot) = Magnitude * NetPositions(v, slot)
           /\ slot \notin chain.filled => SyncRewardOf(v, slot) = 0
  <1>1. slot \in chain.filled => SyncRewardOf(v, slot) = Magnitude * NetPositions(v, slot)
    BY NetPositionsIs DEF SyncRewardOf, Signed
  <1>2. Magnitude * NetPositions(v, slot) \in Int
    BY NetPositionsIs, ScannerAssumption
  <1>3. slot \notin chain.filled => SyncRewardOf(v, slot) = 0
    BY DEF SyncRewardOf
  <1> QED
    BY <1>1, <1>2, <1>3

LEMMA SyncOfCases ==
    ASSUME ChainInv, NEW k, NEW magnitude \in {Null, Magnitude}, NEW final \in BOOLEAN
    PROVE  LET row == SyncOf(k[1], k[2], magnitude, final)
           IN /\ SyncReal(k, row) /\ row # Null /\ row.final = final
              /\ row.reward = Null => magnitude = Null
  <1> DEFINE row == SyncOf(k[1], k[2], magnitude, final)
  <1>1. Magnitude \in Nat /\ Magnitude # Null
    BY ScannerAssumption, NullAssumption
  <1>2. CASE k[2] \in chain.filled
    <2>1. Magnitude * NetPositions(k[1], k[2]) = SyncRewardOf(k[1], k[2])
          /\ SyncRewardOf(k[1], k[2]) \in Int /\ SyncRewardOf(k[1], k[2]) # Null
      BY <1>2, SyncRewardIs, NullAssumption
    <2> DEFINE reward == IF magnitude = Null THEN Null ELSE SyncRewardOf(k[1], k[2])
    <2>2. row = [participated |-> Participated(k[1], k[2]), reward |-> reward,
                 missed |-> FALSE, final |-> final]
      BY <1>1, <1>2, <2>1 DEF SyncOf
    <2>3. reward \in Int \cup {Null} /\ (reward = Null => magnitude = Null)
          /\ (reward # SyncRewardOf(k[1], k[2]) => reward = Null)
      BY <2>1
    <2>4. Participated(k[1], k[2]) \in BOOLEAN
      BY DEF Participated
    <2> HIDE DEF reward, row
    <2>5. row \in SyncRow
      BY <2>2, <2>3, <2>4 DEF SyncRow
    <2>6. row.reward = reward /\ row.missed = FALSE /\ row.final = final
      BY <2>2
    <2> QED
      BY <1>2, <2>3, <2>5, <2>6, NullAssumption DEF SyncReal, row
  <1>3. CASE k[2] \notin chain.filled
    <2>1. row = [participated |-> FALSE, reward |-> 0, missed |-> TRUE, final |-> final]
      BY <1>3 DEF SyncOf
    <2>2. SyncRewardOf(k[1], k[2]) = 0 /\ 0 # Null
      BY <1>3, SyncRewardIs, NullAssumption
    <2> HIDE DEF row
    <2>3. row \in SyncRow /\ row.reward = 0 /\ row.missed = TRUE /\ row.final = final
      BY <2>1 DEF SyncRow
    <2> QED
      BY <1>3, <2>2, <2>3, NullAssumption DEF SyncReal, row
  <1> QED
    BY <1>2, <1>3

\* What an upsert makes of a sync duty.
SyncUpserted(k, row, new, old, done) ==
  /\ SyncReal(k, row) /\ row # Null
  /\ old # Null /\ old.final /\ (done \/ ~new.final) => row = old
  /\ new.final /\ (~done \/ old = Null) =>
       row.final /\ (row.reward = Null => new.reward = Null)
  /\ old # Null /\ old.reward # Null => row.reward # Null

LEMMA SyncUpsert ==
    ASSUME NEW k, NEW new, SyncReal(k, new), new # Null, NEW old, old = Null \/ SyncReal(k, old),
           NEW done \in BOOLEAN
    PROVE  SyncUpserted(k, UpsertOutcome(new, old, done), new, old, done)
  <1>1. CASE old = Null
    BY <1>1 DEF UpsertOutcome, SyncUpserted
  <1>2. CASE old # Null
    <2>1. old \in SyncRow /\ new \in SyncRow
      BY <1>2 DEF SyncReal
    <2> DEFINE reward == Coalesce(new.reward, old.reward)
               joined == [new EXCEPT !.reward = reward]
    <2>2. /\ reward \in Int \cup {Null}
          /\ reward # SyncRewardOf(k[1], k[2]) => reward = Null /\ ~new.missed
          /\ reward = Null => new.reward = Null /\ old.reward = Null
      BY <1>2, <2>1 DEF Coalesce, SyncReal, SyncRow
    <2> HIDE DEF reward
    <2>3. /\ joined \in SyncRow /\ joined.reward = reward /\ joined.missed = new.missed
          /\ joined.final = new.final
      BY <2>1, <2>2 DEF SyncRow
    <2>4. UpsertOutcome(new, old, done) =
            IF ~old.final \/ (new.final /\ ~done) THEN joined ELSE old
      BY <1>2 DEF UpsertOutcome, reward
    <2> HIDE DEF joined
    <2>5. SyncReal(k, joined) /\ joined # Null
      BY <2>2, <2>3, NullAssumption DEF SyncReal
    <2> QED
      BY <1>2, <2>2, <2>3, <2>4, <2>5 DEF SyncUpserted
  <1> QED
    BY <1>1, <1>2

\* A reward that joins a sync duty is the right one.
LEMMA SyncJoin ==
    ASSUME ChainInv, NEW k, NEW row, SyncReal(k, row)
    PROVE  LET new == [row EXCEPT !.reward = SyncRewardOf(k[1], k[2])]
           IN /\ SyncReal(k, new) /\ new # Null /\ new.final = row.final /\ new.missed = row.missed
              /\ new.reward = SyncRewardOf(k[1], k[2]) /\ new.reward # Null
  <1>1. row \in SyncRow /\ SyncRewardOf(k[1], k[2]) \in Int /\ SyncRewardOf(k[1], k[2]) # Null
    BY SyncRewardIs, NullAssumption DEF SyncReal
  <1> DEFINE new == [row EXCEPT !.reward = SyncRewardOf(k[1], k[2])]
  <1>2. /\ new \in SyncRow /\ new.reward = SyncRewardOf(k[1], k[2]) /\ new.missed = row.missed
        /\ new.final = row.final
    BY <1>1 DEF SyncRow
  <1> HIDE DEF new
  <1>3. SyncReal(k, new) /\ new # Null
    BY <1>2, NullAssumption DEF SyncReal
  <1> QED
    BY <1>1, <1>2, <1>3 DEF new

(***************************************************************************)
(* Steps that keep what is written.                                        *)
(***************************************************************************)

\* Facts about the chain alone survive every step.
LEMMA ChainStable ==
    ASSUME chain' = chain
    PROVE  /\ SyncMembers' = SyncMembers /\ ProposerSlots' = ProposerSlots
           /\ \A v, s : SyncRewardOf(v, s)' = SyncRewardOf(v, s)
           /\ \A s, r, f : ProposalOf(s, r, f)' = ProposalOf(s, r, f)
           /\ \A k, row : SyncReal(k, row)' <=> SyncReal(k, row)
           /\ \A s : ProposalsOf(s)' = ProposalsOf(s)
  <1>1. SyncMembers' = SyncMembers /\ ProposerSlots' = ProposerSlots
    BY DEF SyncMembers, ProposerSlots
  <1>2. \A v, s : SyncRewardOf(v, s)' = SyncRewardOf(v, s)
    BY DEF SyncRewardOf, Positions
  <1>3. \A s, r, f : ProposalOf(s, r, f)' = ProposalOf(s, r, f)
    BY DEF ProposalOf
  <1>4. \A k, row : SyncReal(k, row)' <=> SyncReal(k, row)
    BY <1>2 DEF SyncReal
  <1>5. \A s : ProposalsOf(s)' = ProposalsOf(s)
    BY <1>3 DEF ProposalsOf
  <1> QED
    BY <1>1, <1>2, <1>3, <1>4, <1>5

\* A step adds to the proposals and completes them, and never takes back a
\* final one with its reward.
ProposalsKept ==
  /\ proposals' \in [ProposerSlots -> ProposalRow \cup {Null}]
  /\ \A s \in ProposerSlots :
       /\ proposals'[s] # Null => proposals'[s] \in ProposalsOf(s)
       /\ proposals[s] # Null => proposals'[s] # Null
       /\ proposals[s] = ProposalOf(s, s, TRUE) => proposals'[s] = proposals[s]

SyncsKept ==
  /\ syncs' \in [SyncMembers \X EpochSlots -> SyncRow \cup {Null}]
  /\ \A k \in SyncMembers \X EpochSlots :
       /\ syncs'[k] # Null => SyncReal(k, syncs'[k])
       /\ syncs[k] # Null =>
            /\ syncs'[k] # Null
            /\ syncs[k].final => syncs'[k].final
            /\ syncs[k].reward # Null => syncs'[k].reward # Null
       /\ Done(k[1]) => syncs'[k] = syncs[k]

\* A final row stays final and whole, one of a completed epoch as it is.
RowsKept ==
  /\ rows' \in [Tracked -> AttestationRow \cup {Null}]
  /\ \A v \in Tracked :
       /\ FinalRow(rows[v]) => FinalRow(rows'[v]) /\ (rows[v].known => rows'[v].known)
       /\ Done(v) => rows'[v] = rows[v]

Kept ==
  /\ ProposalsKept /\ SyncsKept /\ RowsKept
  /\ \A v \in Tracked : Done(v) => completed'[v] = completed[v]

\* What IInv says of the outcomes, in the words used here.
LEMMA OutcomeFacts ==
    ASSUME ChainInv, IInv
    PROVE  /\ \A s \in ProposerSlots :
                s \in EpochSlots /\ (proposals[s] # Null => proposals[s] \in ProposalsOf(s))
           /\ \A k \in SyncMembers \X EpochSlots :
                syncs[k] # Null => SyncReal(k, syncs[k])
           /\ \A v \in Tracked : Done(v) =>
                /\ \A s \in ProposerSlots : chain.proposer[s] = v =>
                     proposals[s] = ProposalOf(s, s, TRUE)
                /\ v \in SyncMembers => \A s \in EpochSlots :
                     /\ syncs[<<v, s>>] # Null /\ syncs[<<v, s>>].final
                     /\ syncs[<<v, s>>].reward # Null
  <1>1. \A s \in ProposerSlots :
          s \in EpochSlots /\ (proposals[s] # Null => proposals[s] \in ProposalsOf(s))
    BY DEF IInv, ProposalsReal, ProposalsOf, ProposerSlots
  <1>2. \A k \in SyncMembers \X EpochSlots : syncs[k] # Null => SyncReal(k, syncs[k])
    BY DEF IInv, RowsTypeOK, SyncsReal, SyncReal
  <1>3. ASSUME NEW v \in Tracked, Done(v)
        PROVE  /\ \A s \in ProposerSlots : chain.proposer[s] = v =>
                    proposals[s] = ProposalOf(s, s, TRUE)
               /\ v \in SyncMembers => \A s \in EpochSlots :
                    /\ syncs[<<v, s>>] # Null /\ syncs[<<v, s>>].final
                    /\ syncs[<<v, s>>].reward # Null
    <2>1. \A s \in ProposerSlots : chain.proposer[s] = v =>
            proposals[s] = [proposed |-> s \in chain.filled, final |-> TRUE,
                            reward |-> IF s \in chain.filled THEN s ELSE Null]
      BY <1>3 DEF IInv, CompletedOutcomesTrue
    <2>2. v \in SyncMembers => \A s \in EpochSlots :
            /\ syncs[<<v, s>>] # Null /\ syncs[<<v, s>>].final
            /\ syncs[<<v, s>>].reward = SyncRewardOf(v, s)
      BY <1>3 DEF IInv, CompletedOutcomesTrue
    <2>3. \A s : SyncRewardOf(v, s) # Null
      BY SyncRewardIs, NullAssumption
    <2>4. \A s : ProposalOf(s, s, TRUE) =
            [proposed |-> s \in chain.filled, final |-> TRUE,
             reward |-> IF s \in chain.filled THEN s ELSE Null]
      BY DEF ProposalOf
    <2> QED
      BY <2>1, <2>2, <2>3, <2>4
  <1> QED
    BY <1>1, <1>2, <1>3

LEMMA DoneSync ==
    ASSUME ChainInv, IInv, NEW k \in SyncMembers \X EpochSlots, Done(k[1])
    PROVE  syncs[k] # Null /\ syncs[k].final /\ syncs[k].reward # Null
  <1>1. k[1] \in Tracked /\ k[1] \in SyncMembers /\ k[2] \in EpochSlots /\ k = <<k[1], k[2]>>
    BY DEF SyncMembers
  <1> QED
    BY <1>1, OutcomeFacts

LEMMA OutcomesStep ==
    ASSUME ChainInv, IInv, chain' = chain, ProposalsKept, SyncsKept
    PROVE  /\ ProposalsReal' /\ SyncsReal'
           /\ covered' = covered => OutcomesCollected'
           /\ completed' = completed => CompletedOutcomesTrue'
           /\ scan' = scan => ProposalsWritten' /\ SyncsWritten'
  <1> USE ChainStable
  <1>1. ProposalsReal'
    <2> SUFFICES ASSUME NEW s \in ProposerSlots, proposals'[s] # Null
                 PROVE  proposals'[s] \in ProposalsOf(s)'
      BY DEF ProposalsReal, ProposalsOf
    <2> QED
      BY DEF ProposalsKept
  <1>2. SyncsReal'
    <2> SUFFICES ASSUME NEW k \in SyncMembers \X EpochSlots, syncs'[k] # Null
                 PROVE  /\ syncs'[k].missed <=> k[2] \notin chain.filled
                        /\ syncs'[k].reward # SyncRewardOf(k[1], k[2]) =>
                             syncs'[k].reward = Null /\ ~syncs'[k].missed
      BY DEF SyncsReal
    <2>1. SyncReal(k, syncs'[k])
      BY DEF SyncsKept
    <2> QED
      BY <2>1 DEF SyncReal
  <1>3. ASSUME covered' = covered
        PROVE  OutcomesCollected'
    BY <1>3 DEF OutcomesCollected, ProposalsKept, SyncsKept, IInv
  <1>4. ASSUME completed' = completed
        PROVE  CompletedOutcomesTrue'
    <2> SUFFICES ASSUME NEW v \in Tracked, Done(v)
                 PROVE  /\ \A s \in ProposerSlots : chain.proposer[s] = v =>
                             /\ proposals'[s] # Null
                             /\ proposals'[s] = [proposed |-> s \in chain.filled, final |-> TRUE,
                                                 reward |-> IF s \in chain.filled THEN s ELSE Null]
                        /\ v \in SyncMembers => \A s \in EpochSlots :
                             /\ syncs'[<<v, s>>] # Null
                             /\ syncs'[<<v, s>>].final
                             /\ syncs'[<<v, s>>].missed <=> s \notin chain.filled
                             /\ syncs'[<<v, s>>].reward = SyncRewardOf(v, s)
      BY <1>4 DEF CompletedOutcomesTrue, Done
    <2>1. ASSUME NEW s \in ProposerSlots, chain.proposer[s] = v
          PROVE  /\ proposals'[s] # Null
                 /\ proposals'[s] = [proposed |-> s \in chain.filled, final |-> TRUE,
                                     reward |-> IF s \in chain.filled THEN s ELSE Null]
      <3>1. proposals[s] = ProposalOf(s, s, TRUE)
        BY <2>1, OutcomeFacts
      <3>2. proposals[s] # Null
        BY <2>1 DEF IInv, CompletedOutcomesTrue
      <3>3. proposals'[s] = ProposalOf(s, s, TRUE) /\ proposals'[s] # Null
        BY <3>1, <3>2 DEF ProposalsKept
      <3> QED
        BY <3>3 DEF ProposalOf
    <2>2. ASSUME v \in SyncMembers, NEW s \in EpochSlots
          PROVE  /\ syncs'[<<v, s>>] # Null
                 /\ syncs'[<<v, s>>].final
                 /\ syncs'[<<v, s>>].missed <=> s \notin chain.filled
                 /\ syncs'[<<v, s>>].reward = SyncRewardOf(v, s)
      <3> DEFINE k == <<v, s>>
      <3>1. k \in SyncMembers \X EpochSlots /\ k[1] = v /\ k[2] = s
        BY <2>2
      <3> HIDE DEF k
      <3>2. syncs[k] # Null /\ syncs[k].final /\ syncs[k].reward # Null
        BY <2>2, OutcomeFacts DEF k
      <3>3. syncs'[k] # Null /\ syncs'[k].final /\ syncs'[k].reward # Null /\ SyncReal(k, syncs'[k])
        BY <3>1, <3>2 DEF SyncsKept
      <3>4. syncs'[k] # Null /\ syncs'[k].final
            /\ (syncs'[k].missed <=> s \notin chain.filled)
            /\ syncs'[k].reward = SyncRewardOf(v, s)
        BY <3>1, <3>3 DEF SyncReal
      <3> QED
        BY <3>4 DEF k
    <2> QED
      BY <2>1, <2>2
  <1>5. ASSUME scan' = scan
        PROVE  ProposalsWritten' /\ SyncsWritten'
    <2>1. ProposalsWritten'
      <3> SUFFICES ASSUME scan.stage \in {"proposals", "sync"}, NEW s \in ProposerSlots,
                          chain.proposer[s] \in scan.validators,
                          scan.stage = "proposals" => s \notin scan.todo
                   PROVE  proposals'[s] = ProposalOf(s, s, TRUE)
        <4>1. ProposerSlots' = ProposerSlots /\ \A s : ProposalOf(s, s, TRUE)' = ProposalOf(s, s, TRUE)
          OBVIOUS
        <4>2. scan'.stage = scan.stage /\ scan'.todo = scan.todo /\ scan'.validators = scan.validators
          BY <1>5
        <4> QED
          BY <4>1, <4>2, Zenon DEF ProposalsWritten
      <3>1. proposals[s] = ProposalOf(s, s, TRUE)
        BY DEF IInv, ProposalsWritten
      <3> QED
        BY <3>1 DEF ProposalsKept
    <2>2. SyncsWritten'
      <3> SUFFICES ASSUME scan.stage = "sync",
                          NEW k \in ((SyncMembers \cap scan.validators) \X EpochSlots) \ scan.duties
                   PROVE  /\ syncs'[k] # Null /\ syncs'[k].final
                          /\ syncs'[k].reward = Null => scan.magnitude = Null
        BY <1>5 DEF SyncsWritten
      <3>1. /\ syncs[k] # Null /\ syncs[k].final
            /\ syncs[k].reward = Null => scan.magnitude = Null
        BY DEF IInv, SyncsWritten
      <3>2. k \in SyncMembers \X EpochSlots
        OBVIOUS
      <3> QED
        BY <3>1, <3>2 DEF SyncsKept
    <2> QED
      BY <2>1, <2>2
  <1> QED
    BY <1>1, <1>2, <1>3, <1>4, <1>5

\* Nothing changes of the outcomes.
LEMMA OutcomesUnchanged ==
    ASSUME ChainInv, IInv, chain' = chain, proposals' = proposals, syncs' = syncs
    PROVE  ProposalsKept /\ SyncsKept
  <1>1. ProposalsKept
    BY OutcomeFacts DEF ProposalsKept, IInv, RowsTypeOK
  <1>2. SyncsKept
    BY OutcomeFacts DEF SyncsKept, IInv, RowsTypeOK
  <1> QED
    BY <1>1, <1>2

\* The same for the attestation rows.
LEMMA RowsStep ==
    ASSUME IInv, RowsKept
    PROVE  /\ scan' = scan => DutiesWritten'
           /\ completed' = completed => CompletedFinal'
  <1>1. ASSUME scan' = scan
        PROVE  DutiesWritten'
    <2>1. WrittenDuties' = WrittenDuties /\ WrittenDuties \subseteq Tracked
      BY <1>1 DEF WrittenDuties, IInv, ScanTypeOK, ScanType
    <2>2. \A v \in Tracked : FinalRow(rows[v]) => FinalRow(rows'[v])
      BY DEF RowsKept
    <2> QED
      BY <2>1, <2>2 DEF IInv, DutiesWritten, FinalRow, Detailed
  <1>2. ASSUME completed' = completed
        PROVE  CompletedFinal'
    <2>1. \A v \in Tracked : FinalRow(rows[v]) => FinalRow(rows'[v]) /\ (rows[v].known => rows'[v].known)
      BY DEF RowsKept
    <2> QED
      BY <1>2, <2>1 DEF IInv, CompletedFinal, Done, FinalRow, Detailed
  <1> QED
    BY <1>1, <1>2

LEMMA RowsUnchanged ==
    ASSUME IInv, rows' = rows
    PROVE  RowsKept
  BY DEF RowsKept, IInv, RowsTypeOK

LEMMA ChainKept ==
    ASSUME ChainInv, UNCHANGED <<chain, decoded>>
    PROVE  ChainInv'
  BY DEF ChainInv

(***************************************************************************)
(* The archive's steps.                                                    *)
(***************************************************************************)

\* A step of the scan alone.
LEMMA ScanOnly ==
    ASSUME ChainInv, IInv,
           UNCHANGED <<chain, decoded, mode, rows, proposals, syncs, completed, covered>>,
           ScanTypeOK', DutiesWritten', ProposalsWritten', SyncsWritten'
    PROVE  IInv' /\ Kept
  <1>1. ProposalsKept /\ SyncsKept
    BY OutcomesUnchanged
  <1>2. RowsKept
    BY RowsUnchanged
  <1>3. ProposalsReal' /\ SyncsReal' /\ OutcomesCollected' /\ CompletedOutcomesTrue'
    BY <1>1, OutcomesStep
  <1>4. CompletedFinal'
    BY <1>2, RowsStep
  <1>5. RowsTypeOK'
    BY ChainStable DEF IInv, RowsTypeOK
  <1> QED
    BY <1>1, <1>2, <1>3, <1>4, <1>5 DEF IInv, Kept

LEMMA NoScanOK ==
    ASSUME scan' = NoScan
    PROVE  ScanTypeOK' /\ DutiesWritten' /\ ProposalsWritten' /\ SyncsWritten'
  <1>1. scan'.stage = "idle" /\ scan'.validators = {}
    BY DEF NoScan
  <1>2. NoScan \in ScanType'
    BY DEF NoScan, ScanType
  <1> QED
    BY <1>1, <1>2 DEF ScanTypeOK, DutiesWritten, WrittenDuties, ProposalsWritten, SyncsWritten

LEMMA ScanEnds ==
    ASSUME ChainInv, IInv, ScanFails \/ SyncUnavailable
    PROVE  IInv' /\ Kept
  <1>1. scan' = NoScan
        /\ UNCHANGED <<chain, decoded, mode, rows, proposals, syncs, completed, covered>>
    BY DEF ScanFails, SyncUnavailable
  <1> QED
    BY <1>1, NoScanOK, ScanOnly

LEMMA BeginScanKeeps ==
    ASSUME ChainInv, IInv, NEW duties \in SUBSET Tracked, NEW rewarded \in SUBSET Tracked,
           BeginScan(duties, rewarded)
    PROVE  IInv' /\ Kept
  <1> DEFINE missing == {v \in Tracked : ~Done(v)}
  <1>1. PICK found \in IF mode = "dense" THEN decoded.dense[missing] ELSE {<< >>} :
          scan' = [NoScan EXCEPT !.stage = "attestations", !.validators = missing,
                                 !.todo = missing \cap duties, !.rewarded = rewarded,
                                 !.found = found]
    BY DEF BeginScan
  <1>2. missing \subseteq duties /\ missing \subseteq rewarded
        /\ UNCHANGED <<chain, decoded, mode, rows, proposals, syncs, completed, covered>>
    BY DEF BeginScan, ValidResponse
  <1>3. missing \in SUBSET Tracked
    OBVIOUS
  <1> HIDE DEF missing
  <1>4. scan' = [stage |-> "attestations", validators |-> missing, todo |-> missing \cap duties,
                 duties |-> {}, rewarded |-> rewarded, found |-> found, magnitude |-> Null]
    BY <1>1 DEF NoScan
  <1>5. /\ scan'.stage = "attestations" /\ scan'.validators = missing
        /\ scan'.todo = missing /\ scan'.rewarded = rewarded /\ scan'.found = found
    BY <1>2, <1>4
  <1>6. found \in {<< >>} \cup UNION {decoded.dense[vs] : vs \in SUBSET Tracked}
    BY <1>1, <1>3
  <1>7. ScanTypeOK'
    <2>1. scan' \in ScanType
      BY <1>2, <1>3, <1>4, <1>6 DEF ScanType
    <2>2. ScanType' = ScanType
      BY <1>2 DEF ScanType
    <2>3. mode' = "dense" => found \in decoded'.dense[missing]
      BY <1>1, <1>2
    <2> QED
      BY <1>2, <1>5, <2>1, <2>2, <2>3 DEF ScanTypeOK
  <1>8. DutiesWritten' /\ ProposalsWritten' /\ SyncsWritten'
    BY <1>5 DEF DutiesWritten, WrittenDuties, ProposalsWritten, SyncsWritten
  <1> QED
    BY <1>2, <1>7, <1>8, ScanOnly

\* The inclusions the attestation stage uses.
LEMMA StageFound ==
    ASSUME ChainInv, IInv, scan.stage = "attestations", NEW v \in scan.todo,
           NEW found \in IF mode = "dense" THEN {scan.found} ELSE decoded.sparse[v]
    PROVE  /\ v \in Tracked /\ v \in scan.validators /\ v \in scan.rewarded
           /\ IsFound(found, Tracked)
           /\ mode # "dense" /\ v \in DOMAIN found => DutySlot(v) < found[v].slot
  <1>1. /\ v \in Tracked /\ v \in scan.validators /\ v \in scan.rewarded
        /\ scan.validators \in SUBSET Tracked
        /\ mode = "dense" => scan.found \in decoded.dense[scan.validators]
    BY DEF IInv, ScanTypeOK, ScanType
  <1>2. chain \in Chains /\ decoded = Decoded(chain) /\ DOMAIN chain.body \subseteq Nat
    <2>1. chain \in Chains /\ decoded = Decoded(chain)
      BY DEF ChainInv
    <2>2. \A s \in DOMAIN chain.body : s \in Nat
      BY <2>1, BodyFacts
    <2> QED
      BY <2>1, <2>2
  <1>3. CASE mode = "dense"
    <2>1. IsResult(found, chain, DOMAIN chain.body, scan.validators, DenseContext(chain))
      BY <1>1, <1>2, <1>3, DenseScan
    <2>2. IsFound(found, scan.validators)
      BY <1>2, <2>1, CollectType
    <2> QED
      BY <1>1, <1>3, <2>2 DEF IsFound
  <1>4. CASE mode # "dense"
    <2> DEFINE D == {b \in DOMAIN chain.body : b > DutySlot(v)}
    <2>1. found \in Decoded(chain).sparse[v]
      BY <1>2, <1>4
    <2>2. IsResult(found, chain, D, {v}, SparseContext(chain, v))
      BY <1>1, <1>2, <2>1, SparseScan
    <2>3. D \subseteq DOMAIN chain.body
      OBVIOUS
    <2> HIDE DEF D
    <2>4. IsFound(found, {v}) /\ \A w \in DOMAIN found : found[w].slot \in D
      BY <1>2, <2>2, <2>3, CollectType
    <2>5. DutySlot(v) \in Nat
      BY <1>1, DutySlotInEpoch, SlotFacts
    <2>6. \A s \in D : DutySlot(v) < s
      BY <1>2, <2>5 DEF D
    <2> QED
      BY <1>1, <2>4, <2>6 DEF IsFound
  <1> QED
    BY <1>3, <1>4

\* A final row of the archive is not refused where the epoch is not complete.
LEMMA FinalUpsert ==
    ASSUME NEW new \in AttestationRow, new.final, Detailed(new), new.reward # Null,
           new.included => \A c \in Components : new.marks[c] # Null,
           NEW old \in AttestationRow \cup {Null}, NEW done \in BOOLEAN,
           done => FinalRow(old)
    PROVE  /\ FinalRow(Upsert(new, old, done))
           /\ done => Upsert(new, old, done) = old
           /\ ~done => Replaced(Upsert(new, old, done), new, old)
  <1> DEFINE row == Upsert(new, old, done)
  <1>1. /\ row \in AttestationRow
        /\ IF old = Null \/ Replaces(new, old, done) THEN Replaced(row, new, old) ELSE row = old
    BY UpsertCases
  <1> HIDE DEF row
  <1>2. CASE done
    <2>1. old # Null /\ ~Replaces(new, old, done) /\ FinalRow(old)
      BY <1>2 DEF FinalRow, Replaces
    <2> QED
      BY <1>1, <1>2, <2>1 DEF row
  <1>3. CASE ~done
    <2>1. old = Null \/ Replaces(new, old, done)
      BY <1>3 DEF Replaces
    <2>2. Replaced(row, new, old)
      BY <1>1, <2>1
    <2>3. row # Null /\ row.final /\ row.reward # Null
      BY <1>1, <2>2, NullAssumption DEF Replaced
    <2>4. Detailed(row)
      BY <2>2 DEF Replaced, Detailed
    <2> QED
      BY <1>3, <2>2, <2>3, <2>4 DEF FinalRow, row
  <1> QED
    BY <1>2, <1>3

LEMMA DoneBoolean ==
    ASSUME NEW v
    PROVE  Done(v) \in BOOLEAN
  BY DEF Done

LEMMA UpsertKnown ==
    ASSUME NEW new \in AttestationRow, NEW old \in AttestationRow, NEW done
    PROVE  Upsert(new, old, done).known = old.known
  BY NullAssumption DEF Upsert, AttestationRow

\* What WriteDuty writes.
LEMMA WriteDutyRow ==
    ASSUME ChainInv, IInv, NEW v, WriteDuty(v)
    PROVE  \E found \in IF mode = "dense" THEN {scan.found} ELSE decoded.sparse[v] :
             LET new == ScannedRow(v, found, RewardOf(v))
             IN /\ rows' = [rows EXCEPT ![v] = Upsert(new, rows[v], Done(v))]
                /\ new \in AttestationRow
                /\ FinalRow(rows'[v]) /\ rows'[v] \in AttestationRow
                /\ Done(v) => rows'[v] = rows[v]
                /\ ~Done(v) => Replaced(rows'[v], new, rows[v])
  <1>1. scan.stage = "attestations" /\ v \in scan.todo
    BY DEF WriteDuty
  <1>2. v \in Tracked /\ v \in scan.rewarded
    BY <1>1 DEF IInv, ScanTypeOK, ScanType
  <1>3. PICK found \in IF mode = "dense" THEN {scan.found} ELSE decoded.sparse[v] :
          rows' = [rows EXCEPT ![v] = Upsert(ScannedRow(v, found, RewardOf(v)), rows[v], Done(v))]
    BY <1>2 DEF WriteDuty
  <1>4. IsFound(found, Tracked) /\ (mode # "dense" /\ v \in DOMAIN found => DutySlot(v) < found[v].slot)
    BY <1>1, <1>3, StageFound
  <1> DEFINE new == ScannedRow(v, found, RewardOf(v))
  <1>5. RewardOf(v) \in RewardType /\ RewardOf(v) # Null
    BY RewardTyped, NullAssumption DEF RewardType
  <1>6. /\ new \in AttestationRow /\ new.final
        /\ new.reward = RewardOf(v)
        /\ Detailed(new) /\ (new.included => \A c \in Components : new.marks[c] # Null)
    BY <1>2, <1>4, <1>5, ScannedRowCases
  <1>7. rows \in [Tracked -> AttestationRow \cup {Null}] /\ (Done(v) => FinalRow(rows[v]))
    BY <1>2 DEF IInv, RowsTypeOK, CompletedFinal
  <1>8. rows[v] \in AttestationRow \cup {Null} /\ rows'[v] = Upsert(new, rows[v], Done(v))
    BY <1>2, <1>3, <1>7
  <1> HIDE DEF new
  <1>9. /\ FinalRow(Upsert(new, rows[v], Done(v)))
        /\ Done(v) => Upsert(new, rows[v], Done(v)) = rows[v]
        /\ ~Done(v) => Replaced(Upsert(new, rows[v], Done(v)), new, rows[v])
        /\ Upsert(new, rows[v], Done(v)) \in AttestationRow
    <2> DEFINE old == rows[v]
               done == Done(v)
    <2>1. /\ old \in AttestationRow \cup {Null} /\ done \in BOOLEAN
          /\ new.reward # Null /\ (done => FinalRow(old))
      BY <1>5, <1>6, <1>7, <1>8, DoneBoolean
    <2> HIDE DEF old, done
    <2>2. Upsert(new, old, done) \in AttestationRow
      BY <1>6, <2>1, UpsertCases
    <2>3. /\ FinalRow(Upsert(new, old, done))
          /\ done => Upsert(new, old, done) = old
          /\ ~done => Replaced(Upsert(new, old, done), new, old)
      BY <1>6, <2>1, FinalUpsert
    <2> QED
      BY <2>2, <2>3 DEF old, done
  <1> QED
    BY <1>3, <1>6, <1>8, <1>9 DEF new

LEMMA WriteDutyKeeps ==
    ASSUME ChainInv, IInv, NEW v \in Tracked, WriteDuty(v)
    PROVE  IInv' /\ Kept
  <1>1. /\ scan.stage = "attestations" /\ v \in scan.todo
        /\ scan' = [scan EXCEPT !.todo = scan.todo \ {v}]
        /\ UNCHANGED <<chain, decoded, mode, proposals, syncs, completed, covered>>
    BY DEF WriteDuty
  <1>2. /\ rows' \in [Tracked -> AttestationRow \cup {Null}]
        /\ FinalRow(rows'[v]) /\ (Done(v) => rows'[v] = rows[v])
        /\ \A w \in Tracked \ {v} : rows'[w] = rows[w]
    <2>1. PICK row : rows' = [rows EXCEPT ![v] = row] /\ rows'[v] \in AttestationRow
                     /\ FinalRow(rows'[v]) /\ (Done(v) => rows'[v] = rows[v])
      BY WriteDutyRow
    <2>2. rows \in [Tracked -> AttestationRow \cup {Null}]
      BY DEF IInv, RowsTypeOK
    <2> QED
      BY <2>1, <2>2
  <1>3. ProposalsKept /\ SyncsKept
    BY <1>1, OutcomesUnchanged
  <1>4. ProposalsReal' /\ SyncsReal' /\ OutcomesCollected' /\ CompletedOutcomesTrue'
    BY <1>1, <1>3, OutcomesStep
  <1>5. scan \in ScanType /\ scan.todo \subseteq scan.validators
    BY <1>1 DEF IInv, ScanTypeOK
  <1>6. /\ scan'.stage = "attestations" /\ scan'.validators = scan.validators
        /\ scan'.todo = scan.todo \ {v} /\ scan'.rewarded = scan.rewarded
        /\ scan'.found = scan.found /\ scan' \in ScanType
    BY <1>1, <1>5 DEF ScanType
  <1>7. ScanTypeOK'
    <2>1. ScanType' = ScanType
      BY <1>1 DEF ScanType
    <2> QED
      BY <1>1, <1>6, <2>1 DEF IInv, ScanTypeOK
  <1>8. DutiesWritten'
    <2>1. WrittenDuties' = WrittenDuties \cup {v} /\ WrittenDuties \subseteq Tracked
      BY <1>1, <1>5, <1>6 DEF WrittenDuties, ScanType
    <2>2. \A w \in WrittenDuties : FinalRow(rows'[w])
      BY <1>2, <2>1 DEF IInv, DutiesWritten
    <2> QED
      BY <1>2, <2>1, <2>2 DEF DutiesWritten, FinalRow, Detailed
  <1>9. ProposalsWritten' /\ SyncsWritten'
    BY <1>6 DEF ProposalsWritten, SyncsWritten
  <1>10. CompletedFinal'
    <2>1. \A w \in Tracked : Done(w) => FinalRow(rows[w]) /\ rows[w].known
      BY DEF IInv, CompletedFinal
    <2>2. \A w \in Tracked : Done(w) => rows'[w] = rows[w]
      BY <1>2
    <2> QED
      BY <1>1, <2>1, <2>2 DEF CompletedFinal, FinalRow, Detailed, Done
  <1>11. RowsTypeOK'
    BY <1>1, <1>2, ChainStable DEF IInv, RowsTypeOK
  <1>12. RowsKept
    <2>1. PICK new \in AttestationRow : rows' = [rows EXCEPT ![v] = Upsert(new, rows[v], Done(v))]
      BY WriteDutyRow
    <2>2. rows[v] # Null => rows'[v].known = rows[v].known
      <3>1. rows \in [Tracked -> AttestationRow \cup {Null}]
        BY DEF IInv, RowsTypeOK
      <3>2. rows[v] # Null => rows[v] \in AttestationRow
        BY <3>1
      <3>3. rows'[v] = Upsert(new, rows[v], Done(v))
        BY <2>1, <3>1
      <3> QED
        BY <3>2, <3>3, UpsertKnown
    <2>3. \A w \in Tracked : FinalRow(rows[w]) =>
            FinalRow(rows'[w]) /\ (rows[w].known => rows'[w].known)
      BY <1>2, <2>2 DEF FinalRow
    <2> QED
      BY <1>2, <2>3 DEF RowsKept
  <1> QED
    BY <1>1, <1>3, <1>4, <1>7, <1>8, <1>9, <1>10, <1>11, <1>12 DEF IInv, Kept

LEMMA BeginProposalsKeeps ==
    ASSUME ChainInv, IInv, BeginProposals
    PROVE  IInv' /\ Kept
  <1>1. /\ scan.stage = "attestations" /\ scan.todo = {}
        /\ scan' = [scan EXCEPT !.stage = "proposals", !.rewarded = {}, !.found = << >>,
                                !.todo = {s \in ProposerSlots : chain.proposer[s] \in scan.validators}]
        /\ UNCHANGED <<chain, decoded, mode, rows, proposals, syncs, completed, covered>>
    BY DEF BeginProposals
  <1>2. scan \in ScanType
    BY DEF IInv, ScanTypeOK
  <1> DEFINE todo == {s \in ProposerSlots : chain.proposer[s] \in scan.validators}
  <1>3. todo \subseteq ProposerSlots /\ todo \subseteq EpochSlots
    BY DEF ProposerSlots
  <1>4. /\ scan'.stage = "proposals" /\ scan'.validators = scan.validators /\ scan'.todo = todo
        /\ scan' \in ScanType
    <2> HIDE DEF todo
    <2> QED
      BY <1>1, <1>2, <1>3 DEF ScanType, todo
  <1>5. ScanTypeOK'
    <2>1. ScanType' = ScanType /\ ProposerSlots' = ProposerSlots
      BY <1>1, ChainStable DEF ScanType
    <2> QED
      BY <1>3, <1>4, <2>1 DEF ScanTypeOK
  <1>6. DutiesWritten'
    <2>1. WrittenDuties' = WrittenDuties
      BY <1>1, <1>4 DEF WrittenDuties
    <2> QED
      BY <1>1, <2>1 DEF IInv, DutiesWritten, FinalRow, Detailed
  <1>7. ProposalsWritten' /\ SyncsWritten'
    <2>1. \A s \in ProposerSlots' : ~(chain'.proposer[s] \in scan'.validators /\ s \notin scan'.todo)
      BY <1>1, <1>4, ChainStable
    <2> QED
      BY <1>4, <2>1 DEF ProposalsWritten, SyncsWritten
  <1> QED
    BY <1>1, <1>5, <1>6, <1>7, ScanOnly

LEMMA WriteProposalKeeps ==
    ASSUME ChainInv, IInv, WriteProposal
    PROVE  IInv' /\ Kept
  <1> DEFINE slot == Min(scan.todo)
  <1>1. /\ scan.stage = "proposals" /\ scan.todo # {}
        /\ proposals' = [proposals EXCEPT ![slot] =
             UpsertOutcome(ProposalOf(slot, slot, TRUE), proposals[slot], Done(chain.proposer[slot]))]
        /\ scan' = [scan EXCEPT !.todo = scan.todo \ {slot}]
        /\ UNCHANGED <<chain, decoded, mode, rows, syncs, completed, covered>>
    BY DEF WriteProposal
  <1>2. slot \in scan.todo /\ slot \in ProposerSlots /\ slot \in EpochSlots
    <2>1. scan.todo \subseteq ProposerSlots /\ ProposerSlots \subseteq EpochSlots /\ EpochSlots \subseteq Nat
      BY <1>1, SlotFacts DEF IInv, ScanTypeOK, ProposerSlots
    <2> QED
      BY <1>1, <2>1, MinIn
  <1> DEFINE done == Done(chain.proposer[slot])
             row == UpsertOutcome(ProposalOf(slot, slot, TRUE), proposals[slot], done)
  <1> HIDE DEF slot
  <1>3. proposals \in [ProposerSlots -> ProposalRow \cup {Null}]
    BY DEF IInv, RowsTypeOK
  <1>4. proposals[slot] \in ProposalsOf(slot) \cup {Null}
    BY <1>2, OutcomeFacts
  <1>5. /\ row \in ProposalsOf(slot)
        /\ ~done \/ proposals[slot] = Null => row = ProposalOf(slot, slot, TRUE)
        /\ proposals[slot] # Null /\ proposals[slot].final /\ done => row = proposals[slot]
    <2>1. done \in BOOLEAN
      BY DoneBoolean
    <2> HIDE DEF done
    <2>2. ProposalUpserted(slot, row, slot, TRUE, proposals[slot], done)
      BY <1>2, <1>4, <2>1, ProposalUpsert
    <2> HIDE DEF row
    <2> QED
      BY <2>1, <2>2 DEF ProposalUpserted
  <1>6. done => proposals[slot] = ProposalOf(slot, slot, TRUE) /\ proposals[slot] # Null
    <2>1. chain.proposer[slot] \in Tracked
      BY <1>2 DEF ProposerSlots
    <2> QED
      BY <1>2, <2>1, OutcomeFacts DEF IInv, CompletedOutcomesTrue
  <1>7. row = ProposalOf(slot, slot, TRUE) /\ row \in ProposalRow /\ row # Null
    <2>1. ProposalOf(slot, slot, TRUE).final = TRUE
      BY DEF ProposalOf
    <2> HIDE DEF row, done
    <2>2. row = ProposalOf(slot, slot, TRUE)
      BY <1>5, <1>6, <2>1
    <2> QED
      BY <1>2, <1>5, <2>2, ProposalOfType
  <1> HIDE DEF row
  <1>8. /\ proposals'[slot] = ProposalOf(slot, slot, TRUE)
        /\ \A s \in ProposerSlots \ {slot} : proposals'[s] = proposals[s]
        /\ proposals' \in [ProposerSlots -> ProposalRow \cup {Null}]
    BY <1>1, <1>2, <1>3, <1>7 DEF row
  <1>9. ProposalsKept
    <2> SUFFICES ASSUME NEW s \in ProposerSlots
                 PROVE  /\ proposals'[s] # Null => proposals'[s] \in ProposalsOf(s)
                        /\ proposals[s] # Null => proposals'[s] # Null
                        /\ proposals[s] = ProposalOf(s, s, TRUE) => proposals'[s] = proposals[s]
      BY <1>8 DEF ProposalsKept
    <2>1. CASE s = slot
      BY <1>5, <1>7, <1>8, <2>1
    <2>2. CASE s # slot
      BY <1>8, <2>2, OutcomeFacts
    <2> QED
      BY <2>1, <2>2
  <1>10. SyncsKept
    BY <1>1, OutcomeFacts DEF SyncsKept, IInv, RowsTypeOK
  <1>11. ProposalsReal' /\ SyncsReal' /\ OutcomesCollected' /\ CompletedOutcomesTrue'
    BY <1>1, <1>9, <1>10, OutcomesStep
  <1>12. /\ scan \in ScanType /\ scan'.stage = "proposals" /\ scan'.validators = scan.validators
         /\ scan'.todo = scan.todo \ {slot} /\ scan' \in ScanType
    <2>1. scan \in ScanType
      BY DEF IInv, ScanTypeOK
    <2> QED
      BY <1>1, <2>1 DEF ScanType
  <1>13. ScanTypeOK'
    <2>1. ScanType' = ScanType /\ ProposerSlots' = ProposerSlots /\ scan.todo \subseteq ProposerSlots
      BY <1>1, ChainStable DEF ScanType, IInv, ScanTypeOK
    <2> QED
      BY <1>12, <2>1 DEF ScanTypeOK
  <1>14. ProposalsWritten' /\ SyncsWritten'
    <2>1. ASSUME NEW s \in ProposerSlots, chain.proposer[s] \in scan.validators,
                 s \notin scan.todo \ {slot}
          PROVE  proposals'[s] = ProposalOf(s, s, TRUE)
      <3>1. CASE s = slot
        BY <1>8, <3>1
      <3>2. CASE s # slot
        BY <1>1, <1>8, <2>1, <3>2 DEF IInv, ProposalsWritten
      <3> QED
        BY <3>1, <3>2
    <2>2. ProposerSlots' = ProposerSlots /\ \A s : ProposalOf(s, s, TRUE)' = ProposalOf(s, s, TRUE)
      BY <1>1, ChainStable
    <2>3. ProposalsWritten'
      BY <1>1, <1>12, <2>1, <2>2 DEF ProposalsWritten
    <2> QED
      BY <1>12, <2>3 DEF SyncsWritten
  <1>15. RowsKept
    BY <1>1, RowsUnchanged
  <1>16. CompletedFinal'
    BY <1>1, <1>15, RowsStep
  <1>17. DutiesWritten'
    <2>1. WrittenDuties' = WrittenDuties
      BY <1>1, <1>12 DEF WrittenDuties
    <2> QED
      BY <1>1, <2>1 DEF IInv, DutiesWritten, FinalRow, Detailed
  <1>18. RowsTypeOK'
    BY <1>1, <1>8, ChainStable DEF IInv, RowsTypeOK
  <1> QED
    BY <1>1, <1>9, <1>10, <1>11, <1>13, <1>14, <1>15, <1>16, <1>17, <1>18 DEF IInv, Kept

LEMMA ProposalPaid ==
    ASSUME NEW s \in EpochSlots
    PROVE  ProposalOf(s, s, TRUE) \in ProposalsOf(s) /\ ProposalOf(s, s, TRUE) # Null
  <1>1. \A reward \in {Null, s}, final \in BOOLEAN : ProposalOf(s, reward, final) \in ProposalsOf(s)
    BY DEF ProposalsOf
  <1>2. ProposalOf(s, s, TRUE) \in ProposalsOf(s)
    BY <1>1, Zenon
  <1> QED
    BY <1>2, ProposalOfType

\* What is left to show of the outcomes when an epoch is completed.
LEMMA CompletedOutcomesStep ==
    ASSUME ChainInv, IInv, chain' = chain, ProposalsKept, SyncsKept,
           \A v \in Tracked : completed'[v] # Null =>
             /\ \A s \in ProposerSlots : chain.proposer[s] = v =>
                  proposals'[s] = ProposalOf(s, s, TRUE)
             /\ v \in SyncMembers => \A s \in EpochSlots :
                  syncs'[<<v, s>>] # Null /\ syncs'[<<v, s>>].final /\ syncs'[<<v, s>>].reward # Null
    PROVE  CompletedOutcomesTrue'
  <1> USE ChainStable
  <1> SUFFICES ASSUME NEW v \in Tracked, completed'[v] # Null
               PROVE  /\ \A s \in ProposerSlots : chain.proposer[s] = v =>
                           /\ proposals'[s] # Null
                           /\ proposals'[s] = [proposed |-> s \in chain.filled, final |-> TRUE,
                                               reward |-> IF s \in chain.filled THEN s ELSE Null]
                      /\ v \in SyncMembers => \A s \in EpochSlots :
                           /\ syncs'[<<v, s>>] # Null
                           /\ syncs'[<<v, s>>].final
                           /\ syncs'[<<v, s>>].missed <=> s \notin chain.filled
                           /\ syncs'[<<v, s>>].reward = SyncRewardOf(v, s)
    BY DEF CompletedOutcomesTrue, Done
  <1>1. ASSUME NEW s \in ProposerSlots, chain.proposer[s] = v
        PROVE  /\ proposals'[s] # Null
               /\ proposals'[s] = [proposed |-> s \in chain.filled, final |-> TRUE,
                                   reward |-> IF s \in chain.filled THEN s ELSE Null]
    <2>1. proposals'[s] = ProposalOf(s, s, TRUE)
      BY <1>1
    <2>2. s \in EpochSlots
      BY DEF ProposerSlots
    <2>3. ProposalOf(s, s, TRUE) # Null
      BY <2>2, ProposalPaid
    <2> QED
      BY <2>1, <2>3 DEF ProposalOf
  <1>2. ASSUME v \in SyncMembers, NEW s \in EpochSlots
        PROVE  /\ syncs'[<<v, s>>] # Null
               /\ syncs'[<<v, s>>].final
               /\ syncs'[<<v, s>>].missed <=> s \notin chain.filled
               /\ syncs'[<<v, s>>].reward = SyncRewardOf(v, s)
    <2> DEFINE k == <<v, s>>
    <2>1. k \in SyncMembers \X EpochSlots /\ k[1] = v /\ k[2] = s
      BY <1>2
    <2>2. syncs'[k] # Null /\ syncs'[k].final /\ syncs'[k].reward # Null
      BY <1>2
    <2> HIDE DEF k
    <2>3. SyncReal(k, syncs'[k])
      BY <2>1, <2>2 DEF SyncsKept
    <2>4. /\ syncs'[k] # Null /\ syncs'[k].final
          /\ syncs'[k].missed <=> s \notin chain.filled
          /\ syncs'[k].reward = SyncRewardOf(v, s)
      BY <2>1, <2>2, <2>3 DEF SyncReal
    <2> QED
      BY <2>4 DEF k
  <1> QED
    BY <1>1, <1>2

LEMMA BeginSyncKeeps ==
    ASSUME ChainInv, IInv, NEW served, BeginSync(served)
    PROVE  IInv' /\ Kept
  <1>1. /\ scan.stage = "proposals" /\ scan.todo = {}
        /\ UNCHANGED <<chain, decoded, mode, rows, proposals, syncs, completed, covered>>
    BY DEF BeginSync
  <1>2. PICK magnitude \in {Null, Magnitude} :
          scan' = [scan EXCEPT !.stage = "sync",
                               !.duties = (SyncMembers \cap scan.validators) \X EpochSlots,
                               !.magnitude = magnitude]
    BY DEF BeginSync
  <1> DEFINE duties == (SyncMembers \cap scan.validators) \X EpochSlots
  <1>3. scan \in ScanType /\ duties \subseteq Tracked \X EpochSlots
    BY DEF IInv, ScanTypeOK, SyncMembers
  <1>4. /\ scan'.stage = "sync" /\ scan'.validators = scan.validators
        /\ scan'.duties = duties /\ scan' \in ScanType
    <2>1. scan' = [scan EXCEPT !.stage = "sync", !.duties = duties, !.magnitude = magnitude]
      BY <1>2
    <2> HIDE DEF duties
    <2> QED
      BY <1>3, <2>1 DEF ScanType
  <1>5. ScanTypeOK'
    <2>1. ScanType' = ScanType /\ SyncMembers' = SyncMembers
      BY <1>1, ChainStable DEF ScanType
    <2> QED
      BY <1>4, <2>1 DEF ScanTypeOK
  <1>6. DutiesWritten'
    <2>1. WrittenDuties' = WrittenDuties
      BY <1>1, <1>4 DEF WrittenDuties
    <2> QED
      BY <1>1, <2>1 DEF IInv, DutiesWritten, FinalRow, Detailed
  <1>7. ProposalsWritten'
    <2>1. \A s \in ProposerSlots : chain.proposer[s] \in scan.validators =>
            proposals[s] = ProposalOf(s, s, TRUE)
      BY <1>1 DEF IInv, ProposalsWritten
    <2>2. ProposerSlots' = ProposerSlots /\ \A s : ProposalOf(s, s, TRUE)' = ProposalOf(s, s, TRUE)
      BY <1>1, ChainStable
    <2> QED
      BY <1>1, <1>4, <2>1, <2>2 DEF ProposalsWritten
  <1>8. SyncsWritten'
    <2>1. ((SyncMembers' \cap scan'.validators) \X EpochSlots) \ scan'.duties = {}
      BY <1>1, <1>4, ChainStable
    <2> QED
      BY <2>1 DEF SyncsWritten
  <1> QED
    BY <1>1, <1>5, <1>6, <1>7, <1>8, ScanOnly

LEMMA WriteSyncKeeps ==
    ASSUME ChainInv, IInv, NEW d \in SyncMembers \X EpochSlots, WriteSync(d)
    PROVE  IInv' /\ Kept
  <1> DEFINE Write(k) == UpsertOutcome(SyncOf(k[1], k[2], scan.magnitude, TRUE), syncs[k], Done(k[1]))
  <1>1. /\ scan.stage = "sync"
        /\ syncs' = [syncs EXCEPT ![d] = Write(d)]
        /\ scan' = [scan EXCEPT !.duties = scan.duties \ {d}]
        /\ UNCHANGED <<chain, decoded, mode, rows, proposals, completed, covered>>
    BY DEF WriteSync
  <1>2. /\ syncs \in [SyncMembers \X EpochSlots -> SyncRow \cup {Null}]
        /\ scan \in ScanType /\ scan.magnitude \in {Null, Magnitude}
        /\ scan.duties \subseteq (SyncMembers \cap scan.validators) \X EpochSlots
    BY <1>1 DEF IInv, RowsTypeOK, ScanTypeOK, ScanType
  <1>3. ASSUME NEW k \in SyncMembers \X EpochSlots
        PROVE  /\ SyncReal(k, Write(k)) /\ Write(k) # Null
               /\ syncs[k] # Null =>
                    /\ syncs[k].final => Write(k).final
                    /\ syncs[k].reward # Null => Write(k).reward # Null
               /\ Write(k).final /\ (Write(k).reward = Null => scan.magnitude = Null)
               /\ Done(k[1]) => Write(k) = syncs[k]
    <2> DEFINE new == SyncOf(k[1], k[2], scan.magnitude, TRUE)
               done == Done(k[1])
               row == Write(k)
    <2>1. /\ SyncReal(k, new) /\ new # Null /\ new.final
          /\ new.reward = Null => scan.magnitude = Null
      BY <1>2, SyncOfCases
    <2>2. syncs[k] = Null \/ SyncReal(k, syncs[k])
      BY OutcomeFacts
    <2>3. done => syncs[k] # Null /\ syncs[k].final /\ syncs[k].reward # Null
      BY DoneSync
    <2>4. done \in BOOLEAN
      BY DoneBoolean
    <2>5. row = UpsertOutcome(new, syncs[k], done)
      OBVIOUS
    <2> HIDE DEF new, done, row
    <2>9. SyncUpserted(k, row, new, syncs[k], done)
      BY <2>1, <2>2, <2>4, <2>5, SyncUpsert
    <2>6. /\ SyncReal(k, row) /\ row # Null
          /\ syncs[k] # Null /\ syncs[k].final /\ done => row = syncs[k]
          /\ ~done \/ syncs[k] = Null => row.final /\ (row.reward = Null => new.reward = Null)
          /\ syncs[k] # Null /\ syncs[k].reward # Null => row.reward # Null
      BY <2>1, <2>4, <2>9 DEF SyncUpserted
    <2>7. row.final
      BY <2>3, <2>6
    <2>8. row.final /\ (row.reward = Null => scan.magnitude = Null)
      BY <2>1, <2>3, <2>6, <2>7
    <2>10. done => row = syncs[k]
      BY <2>3, <2>6
    <2> QED
      BY <2>6, <2>7, <2>8, <2>10 DEF row, done
  <1>4. \A k \in SyncMembers \X EpochSlots :
          syncs'[k] = IF k = d THEN Write(k) ELSE syncs[k]
    <2> HIDE DEF Write
    <2> QED
      BY <1>1, <1>2
  <1>5. DOMAIN syncs' = SyncMembers \X EpochSlots
    BY <1>1, <1>2
  <1> HIDE DEF Write
  <1>6. SyncsKept
    <2>1. \A k \in SyncMembers \X EpochSlots :
            /\ syncs'[k] # Null => SyncReal(k, syncs'[k])
            /\ syncs[k] # Null =>
                 /\ syncs'[k] # Null
                 /\ syncs[k].final => syncs'[k].final
                 /\ syncs[k].reward # Null => syncs'[k].reward # Null
            /\ Done(k[1]) => syncs'[k] = syncs[k]
      BY <1>3, <1>4, OutcomeFacts
    <2>2. syncs' \in [SyncMembers \X EpochSlots -> SyncRow \cup {Null}]
      <3>1. \A k \in SyncMembers \X EpochSlots : syncs'[k] \in SyncRow \cup {Null}
        BY <2>1 DEF SyncReal
      <3>2. syncs' = [k \in DOMAIN syncs' |-> syncs'[k]]
        BY <1>1
      <3> QED
        BY <1>5, <3>1, <3>2
    <2> QED
      BY <2>1, <2>2 DEF SyncsKept
  <1>7. ProposalsKept
    BY <1>1, OutcomeFacts DEF ProposalsKept, IInv, RowsTypeOK
  <1>8. ProposalsReal' /\ SyncsReal' /\ OutcomesCollected' /\ CompletedOutcomesTrue'
    BY <1>1, <1>6, <1>7, OutcomesStep
  <1>9. /\ scan'.stage = "sync" /\ scan'.validators = scan.validators
        /\ scan'.duties = scan.duties \ {d} /\ scan'.magnitude = scan.magnitude /\ scan' \in ScanType
    BY <1>1, <1>2 DEF ScanType
  <1>10. ScanTypeOK'
    <2>1. ScanType' = ScanType /\ SyncMembers' = SyncMembers
      BY <1>1, ChainStable DEF ScanType
    <2> QED
      BY <1>2, <1>9, <2>1 DEF ScanTypeOK
  <1>11. SyncsWritten'
    <2>1. ASSUME NEW k \in ((SyncMembers \cap scan.validators) \X EpochSlots) \ (scan.duties \ {d})
          PROVE  /\ syncs'[k] # Null /\ syncs'[k].final
                 /\ syncs'[k].reward = Null => scan.magnitude = Null
      <3>1. CASE k = d
        BY <1>3, <1>4, <3>1
      <3>2. CASE k # d
        <4>1. scan.stage = "sync" /\ SyncsWritten
          BY <1>1 DEF IInv
        <4>2. k \in ((SyncMembers \cap scan.validators) \X EpochSlots) \ scan.duties
          BY <3>2
        <4>3. /\ syncs[k] # Null /\ syncs[k].final
              /\ syncs[k].reward = Null => scan.magnitude = Null
          BY <4>1, <4>2 DEF SyncsWritten
        <4>4. syncs'[k] = syncs[k]
          BY <1>4, <3>2
        <4> QED
          BY <4>3, <4>4
      <3> QED
        BY <3>1, <3>2
    <2> QED
      BY <1>1, <1>9, <2>1, ChainStable DEF SyncsWritten
  <1>12. ProposalsWritten'
    <2>1. \A s \in ProposerSlots : chain.proposer[s] \in scan.validators =>
            proposals[s] = ProposalOf(s, s, TRUE)
      BY <1>1 DEF IInv, ProposalsWritten
    <2>2. ProposerSlots' = ProposerSlots /\ \A s : ProposalOf(s, s, TRUE)' = ProposalOf(s, s, TRUE)
      BY <1>1, ChainStable
    <2> QED
      BY <1>1, <1>9, <2>1, <2>2 DEF ProposalsWritten
  <1>13. RowsKept /\ CompletedFinal'
    BY <1>1, RowsUnchanged, RowsStep
  <1>14. DutiesWritten'
    <2>1. WrittenDuties' = WrittenDuties
      BY <1>1, <1>9 DEF WrittenDuties
    <2> QED
      BY <1>1, <2>1 DEF IInv, DutiesWritten, FinalRow, Detailed
  <1>15. RowsTypeOK'
    BY <1>1, <1>6, ChainStable DEF IInv, RowsTypeOK, SyncsKept
  <1> QED
    BY <1>1, <1>6, <1>7, <1>8, <1>10, <1>11, <1>12, <1>13, <1>14, <1>15 DEF IInv, Kept

LEMMA KnownRow ==
    ASSUME NEW row \in AttestationRow
    PROVE  /\ [row EXCEPT !.known = TRUE] \in AttestationRow
           /\ FinalRow(row) => FinalRow([row EXCEPT !.known = TRUE])
           /\ [row EXCEPT !.known = TRUE].known
           /\ row.known => [row EXCEPT !.known = TRUE] = row
  <1> DEFINE new == [row EXCEPT !.known = TRUE]
  <1>1. /\ new \in AttestationRow /\ new.known /\ new.included = row.included
        /\ new.final = row.final /\ new.reward = row.reward
        /\ new.effective = row.effective /\ new.marks = row.marks
        /\ row.known => new = row
    BY DEF AttestationRow
  <1> HIDE DEF new
  <1>2. FinalRow(row) => FinalRow(new)
    BY <1>1, NullAssumption DEF FinalRow, Detailed
  <1> QED
    BY <1>1, <1>2 DEF new

LEMMA MarkCompleteKeeps ==
    ASSUME ChainInv, IInv, MarkComplete
    PROVE  IInv' /\ Kept
  <1>1. /\ scan.stage = "sync" /\ scan.duties = {} /\ ~RewardsUnavailable
        /\ completed' = [v \in Tracked |->
             IF v \in scan.validators /\ ~Done(v) THEN "archive" ELSE completed[v]]
        /\ rows' = [v \in Tracked |->
             IF v \in scan.validators /\ rows[v] # Null
             THEN [rows[v] EXCEPT !.known = TRUE] ELSE rows[v]]
        /\ scan' = NoScan
        /\ UNCHANGED <<chain, decoded, mode, proposals, syncs, covered>>
    BY DEF MarkComplete
  <1>2. /\ rows \in [Tracked -> AttestationRow \cup {Null}]
        /\ completed \in [Tracked -> {"archive", "live", Null}]
    BY DEF IInv, RowsTypeOK
  <1>3. ASSUME NEW v \in Tracked
        PROVE  /\ rows'[v] \in AttestationRow \cup {Null}
               /\ FinalRow(rows[v]) => FinalRow(rows'[v]) /\ (rows[v].known => rows'[v].known)
               /\ FinalRow(rows[v]) /\ v \in scan.validators => rows'[v].known
               /\ FinalRow(rows[v]) /\ rows[v].known => rows'[v] = rows[v]
    <2>1. CASE v \in scan.validators /\ rows[v] # Null
      <3>1. rows[v] \in AttestationRow /\ rows'[v] = [rows[v] EXCEPT !.known = TRUE]
        BY <1>1, <1>2, <2>1
      <3> DEFINE old == rows[v]
                 new == [old EXCEPT !.known = TRUE]
      <3>2. /\ new \in AttestationRow /\ (FinalRow(old) => FinalRow(new))
            /\ new.known /\ (old.known => new = old)
        <4>1. old \in AttestationRow
          BY <3>1
        <4> HIDE DEF old
        <4> QED
          BY <4>1, KnownRow
      <3>3. rows'[v] = new
        BY <3>1
      <3> HIDE DEF new
      <3> QED
        BY <3>2, <3>3 DEF old
    <2>2. CASE ~(v \in scan.validators /\ rows[v] # Null)
      <3>1. rows'[v] = rows[v]
        BY <1>1, <2>2
      <3> QED
        BY <1>2, <2>2, <3>1 DEF FinalRow
    <2> QED
      BY <2>1, <2>2
  <1>4. RowsKept
    <2>1. rows' \in [Tracked -> AttestationRow \cup {Null}]
      BY <1>1, <1>3
    <2>2. \A v \in Tracked : Done(v) => FinalRow(rows[v]) /\ rows[v].known
      BY DEF IInv, CompletedFinal
    <2> QED
      BY <1>3, <2>1, <2>2 DEF RowsKept
  <1>5. ProposalsKept /\ SyncsKept
    BY <1>1, OutcomesUnchanged
  <1>6. ProposalsReal' /\ SyncsReal' /\ OutcomesCollected'
    BY <1>1, <1>5, OutcomesStep
  <1>7. \A v \in Tracked : completed'[v] # Null => Done(v) \/ v \in scan.validators
    BY <1>1, <1>2 DEF Done
  <1>8. CompletedFinal'
    <2>1. \A v \in Tracked : v \in scan.validators => FinalRow(rows[v])
      BY <1>1 DEF IInv, DutiesWritten, WrittenDuties
    <2>2. \A v \in Tracked : Done(v) => FinalRow(rows[v]) /\ rows[v].known
      BY DEF IInv, CompletedFinal
    <2>3. \A v \in Tracked : completed'[v] # Null => FinalRow(rows'[v]) /\ rows'[v].known
      BY <1>3, <1>7, <2>1, <2>2
    <2> QED
      BY <2>3 DEF CompletedFinal, Done, FinalRow, Detailed
  <1>9. CompletedOutcomesTrue'
    <2>1. ASSUME NEW v \in Tracked, v \in scan.validators
          PROVE  /\ \A s \in ProposerSlots : chain.proposer[s] = v =>
                      proposals[s] = ProposalOf(s, s, TRUE)
                 /\ v \in SyncMembers => \A s \in EpochSlots :
                      syncs[<<v, s>>] # Null /\ syncs[<<v, s>>].final /\ syncs[<<v, s>>].reward # Null
      <3>1. \A s \in ProposerSlots : chain.proposer[s] = v => proposals[s] = ProposalOf(s, s, TRUE)
        BY <1>1, <2>1 DEF IInv, ProposalsWritten
      <3>2. ASSUME v \in SyncMembers, NEW s \in EpochSlots
            PROVE  syncs[<<v, s>>] # Null /\ syncs[<<v, s>>].final /\ syncs[<<v, s>>].reward # Null
        <4> DEFINE k == <<v, s>>
        <4>1. k \in ((SyncMembers \cap scan.validators) \X EpochSlots) \ scan.duties
              /\ k \in SyncMembers \X EpochSlots /\ k[1] = v /\ k[2] = s
          BY <1>1, <2>1, <3>2
        <4> HIDE DEF k
        <4>2. syncs[k] # Null /\ syncs[k].final /\ (syncs[k].reward = Null => scan.magnitude = Null)
          BY <1>1, <4>1 DEF IInv, SyncsWritten
        <4>3. SyncReal(k, syncs[k])
          BY <4>1, <4>2, OutcomeFacts
        <4>4. scan.magnitude = Null => s \notin chain.filled
          <5>1. DOMAIN chain.syncBits = chain.filled \cap EpochSlots
            BY ChainAssumption DEF ChainInv
          <5> QED
            BY <1>1, <2>1, <3>2, <5>1 DEF RewardsUnavailable
        <4>5. SyncRewardOf(k[1], k[2]) # Null
          BY SyncRewardIs, NullAssumption
        <4>6. syncs[k].reward # Null
          BY <4>1, <4>2, <4>3, <4>4, <4>5 DEF SyncReal
        <4> QED
          BY <4>2, <4>6 DEF k
      <3> QED
        BY <3>1, <3>2
    <2>2. \A v \in Tracked : completed'[v] # Null =>
            /\ \A s \in ProposerSlots : chain.proposer[s] = v =>
                 proposals'[s] = ProposalOf(s, s, TRUE)
            /\ v \in SyncMembers => \A s \in EpochSlots :
                 syncs'[<<v, s>>] # Null /\ syncs'[<<v, s>>].final /\ syncs'[<<v, s>>].reward # Null
      BY <1>1, <1>7, <2>1, OutcomeFacts
    <2> QED
      BY <1>1, <1>5, <2>2, CompletedOutcomesStep
  <1>10. RowsTypeOK'
    <2>1. completed' \in [Tracked -> {"archive", "live", Null}]
      BY <1>1, <1>2
    <2> QED
      BY <1>1, <1>4, <2>1, ChainStable DEF IInv, RowsTypeOK, RowsKept
  <1>11. \A v \in Tracked : Done(v) => completed'[v] = completed[v]
    BY <1>1
  <1> QED
    BY <1>1, <1>4, <1>5, <1>6, <1>8, <1>9, <1>10, <1>11, NoScanOK DEF IInv, Kept

(***************************************************************************)
(* The live worker's steps.                                                *)
(***************************************************************************)

\* A step that leaves the scan and the completion of epochs alone.
LEMMA LiveKeeps ==
    ASSUME ChainInv, IInv, UNCHANGED <<chain, decoded, mode, completed, scan>>,
           covered' \subseteq Window, OutcomesCollected',
           ProposalsKept, SyncsKept, RowsKept
    PROVE  IInv' /\ Kept
  <1>1. /\ ProposalsReal' /\ SyncsReal' /\ CompletedOutcomesTrue'
        /\ ProposalsWritten' /\ SyncsWritten'
    BY OutcomesStep
  <1>2. DutiesWritten' /\ CompletedFinal'
    BY RowsStep
  <1>3. ScanTypeOK'
    <2>1. ScanType' = ScanType /\ ProposerSlots' = ProposerSlots /\ SyncMembers' = SyncMembers
      BY ChainStable DEF ScanType
    <2> QED
      BY <2>1 DEF IInv, ScanTypeOK
  <1>4. RowsTypeOK'
    BY ChainStable DEF IInv, RowsTypeOK, RowsKept, ProposalsKept, SyncsKept
  <1> QED
    BY <1>1, <1>2, <1>3, <1>4 DEF IInv, Kept

\* A row that is not final does not replace one that is.
LEMMA LiveUpsert ==
    ASSUME NEW new \in AttestationRow, ~new.final,
           NEW old \in AttestationRow \cup {Null}, NEW done \in BOOLEAN
    PROVE  /\ Upsert(new, old, done) \in AttestationRow
           /\ old # Null /\ old.final => Upsert(new, old, done) = old
  <1>1. /\ Upsert(new, old, done) \in AttestationRow
        /\ ~(old = Null \/ Replaces(new, old, done)) => Upsert(new, old, done) = old
    BY UpsertCases, Zenon
  <1>2. old # Null /\ old.final => ~(old = Null \/ Replaces(new, old, done))
    BY DEF Replaces
  <1> QED
    BY <1>1, <1>2

\* Each row is one that keeps what was final.
LEMMA RowsOneByOne ==
    ASSUME IInv, DOMAIN rows' = Tracked, rows' = [v \in Tracked |-> rows'[v]],
           \A v \in Tracked : rows'[v] = rows[v] \/
             /\ rows'[v] \in AttestationRow
             /\ rows[v] # Null /\ rows[v].final => rows'[v] = rows[v]
    PROVE  RowsKept
  <1>1. rows \in [Tracked -> AttestationRow \cup {Null}]
    BY DEF IInv, RowsTypeOK
  <1>2. \A v \in Tracked : rows'[v] \in AttestationRow \cup {Null}
    BY <1>1
  <1>3. \A v \in Tracked : FinalRow(rows[v]) => rows'[v] = rows[v]
    BY DEF FinalRow
  <1>4. \A v \in Tracked : FinalRow(rows[v]) =>
          FinalRow(rows'[v]) /\ (rows[v].known => rows'[v].known)
    BY <1>3
  <1>5. \A v \in Tracked : Done(v) => rows'[v] = rows[v]
    BY <1>3 DEF IInv, CompletedFinal
  <1> QED
    BY <1>2, <1>4, <1>5 DEF RowsKept

SeedRow == Row(FALSE, Null, Null, Null, NoMarks, Null, FALSE)

LEMMA SeedRowType ==
    SeedRow \in AttestationRow /\ ~SeedRow.final /\ ~SeedRow.included /\ SeedRow.slot = Null
    /\ SeedRow.reward = Null /\ SeedRow.effective = Null
  BY NoMarksType DEF SeedRow, Row, AttestationRow

LEMMA SeedDutiesKeeps ==
    ASSUME ChainInv, IInv, NEW duties, NEW written, SeedDuties(duties, written)
    PROVE  IInv' /\ Kept
  <1>1. /\ rows' = [v \in Tracked |->
             IF v \in written THEN Upsert(SeedRow, rows[v], Done(v)) ELSE rows[v]]
        /\ UNCHANGED <<chain, decoded, mode, proposals, syncs, completed, covered, scan>>
    BY DEF SeedDuties, SeedRow
  <1>2. RowsKept
    <2>1. \A v \in Tracked : rows[v] \in AttestationRow \cup {Null}
      BY DEF IInv, RowsTypeOK
    <2>2. ASSUME NEW v \in Tracked
          PROVE  rows'[v] = rows[v] \/
                   /\ rows'[v] \in AttestationRow
                   /\ rows[v] # Null /\ rows[v].final => rows'[v] = rows[v]
      <3>1. rows'[v] = IF v \in written THEN Upsert(SeedRow, rows[v], Done(v)) ELSE rows[v]
        BY <1>1
      <3> QED
        BY <2>1, <3>1, SeedRowType, DoneBoolean, LiveUpsert
    <2>3. DOMAIN rows' = Tracked /\ rows' = [v \in Tracked |-> rows'[v]]
      BY <1>1
    <2> QED
      BY <2>2, <2>3, RowsOneByOne
  <1>3. ProposalsKept /\ SyncsKept
    BY <1>1, OutcomesUnchanged
  <1>4. OutcomesCollected'
    BY <1>1, <1>3, OutcomesStep
  <1>5. covered' \subseteq Window
    BY <1>1 DEF IInv, RowsTypeOK
  <1> QED
    BY <1>1, <1>2, <1>3, <1>4, <1>5, LiveKeeps

LEMMA JoinAttestationRewardsKeeps ==
    ASSUME ChainInv, IInv, NEW joined, JoinAttestationRewards(joined)
    PROVE  IInv' /\ Kept
  <1>1. /\ rows' = [v \in Tracked |->
             IF joined /\ rows[v] # Null /\ ~rows[v].final
             THEN JoinReward(rows[v], RewardOf(v)) ELSE rows[v]]
        /\ UNCHANGED <<chain, decoded, mode, proposals, syncs, completed, covered, scan>>
    BY DEF JoinAttestationRewards
  <1>2. RowsKept
    <2>1. \A v \in Tracked : rows[v] \in AttestationRow \cup {Null}
      BY DEF IInv, RowsTypeOK
    <2>2. ASSUME NEW v \in Tracked
          PROVE  rows'[v] = rows[v] \/
                   /\ rows'[v] \in AttestationRow
                   /\ rows[v] # Null /\ rows[v].final => rows'[v] = rows[v]
      <3>1. rows'[v] = IF joined /\ rows[v] # Null /\ ~rows[v].final
                       THEN JoinReward(rows[v], RewardOf(v)) ELSE rows[v]
        BY <1>1
      <3>2. rows[v] # Null => JoinReward(rows[v], RewardOf(v)) \in AttestationRow
        BY <2>1, RewardTyped, JoinRewardCases
      <3> QED
        BY <3>1, <3>2
    <2>3. DOMAIN rows' = Tracked /\ rows' = [v \in Tracked |-> rows'[v]]
      BY <1>1
    <2> QED
      BY <2>2, <2>3, RowsOneByOne
  <1>3. ProposalsKept /\ SyncsKept
    BY <1>1, OutcomesUnchanged
  <1>4. OutcomesCollected'
    BY <1>1, <1>3, OutcomesStep
  <1>5. covered' \subseteq Window
    BY <1>1 DEF IInv, RowsTypeOK
  <1> QED
    BY <1>1, <1>2, <1>3, <1>4, <1>5, LiveKeeps

\* One proposal is written by the live worker.
LEMMA LiveProposal ==
    ASSUME ChainInv, IInv, NEW slot \in ProposerSlots, NEW reward \in {Null, slot},
           proposals' = [proposals EXCEPT ![slot] =
             UpsertOutcome(ProposalOf(slot, reward, FALSE), proposals[slot],
                           Done(chain.proposer[slot]))]
    PROVE  ProposalsKept /\ proposals'[slot] # Null
  <1> DEFINE done == Done(chain.proposer[slot])
             row == UpsertOutcome(ProposalOf(slot, reward, FALSE), proposals[slot], done)
  <1>1. slot \in EpochSlots /\ proposals[slot] \in ProposalsOf(slot) \cup {Null}
    BY OutcomeFacts
  <1>2. done \in BOOLEAN
    BY DoneBoolean
  <1>3. row \in ProposalsOf(slot) /\ (proposals[slot] # Null /\ proposals[slot].final => row = proposals[slot])
    <2> HIDE DEF done
    <2>1. ProposalUpserted(slot, row, reward, FALSE, proposals[slot], done)
      BY <1>1, <1>2, ProposalUpsert
    <2> HIDE DEF row
    <2> QED
      BY <1>2, <2>1 DEF ProposalUpserted
  <1>4. proposals \in [ProposerSlots -> ProposalRow \cup {Null}]
    BY DEF IInv, RowsTypeOK
  <1>5. row \in ProposalRow /\ row # Null
    <2> HIDE DEF row
    <2> QED
      BY <1>1, <1>3, ProposalOfType
  <1> HIDE DEF row, done
  <1>6. proposals' = [proposals EXCEPT ![slot] = row]
    BY DEF row, done
  <1>7. /\ proposals'[slot] = row
        /\ \A s \in ProposerSlots \ {slot} : proposals'[s] = proposals[s]
        /\ proposals' \in [ProposerSlots -> ProposalRow \cup {Null}]
    BY <1>4, <1>5, <1>6
  <1>8. proposals[slot] = ProposalOf(slot, slot, TRUE) => row = proposals[slot]
    <2>1. ProposalOf(slot, slot, TRUE).final = TRUE /\ ProposalOf(slot, slot, TRUE) # Null
      BY <1>1, ProposalPaid DEF ProposalOf
    <2> QED
      BY <1>3, <2>1
  <1>9. ASSUME NEW s \in ProposerSlots
        PROVE  /\ proposals'[s] # Null => proposals'[s] \in ProposalsOf(s)
               /\ proposals[s] # Null => proposals'[s] # Null
               /\ proposals[s] = ProposalOf(s, s, TRUE) => proposals'[s] = proposals[s]
    <2>1. CASE s = slot
      BY <1>3, <1>5, <1>7, <1>8, <2>1
    <2>2. CASE s # slot
      BY <1>7, <2>2, OutcomeFacts
    <2> QED
      BY <2>1, <2>2
  <1> QED
    BY <1>5, <1>7, <1>9 DEF ProposalsKept

LEMMA JoinProposalRewardKeeps ==
    ASSUME ChainInv, IInv, NEW slot \in EpochSlots, NEW joined, JoinProposalReward(slot, joined)
    PROVE  IInv' /\ Kept
  <1>1. /\ slot \in ProposerSlots
        /\ proposals' = IF joined
                        THEN [proposals EXCEPT ![slot] =
                               UpsertOutcome(ProposalOf(slot, slot, FALSE), proposals[slot],
                                             Done(chain.proposer[slot]))]
                        ELSE proposals
        /\ UNCHANGED <<chain, decoded, mode, rows, syncs, completed, covered, scan>>
    BY DEF JoinProposalReward
  <1>2. ProposalsKept
    <2>1. CASE joined
      BY <1>1, <2>1, LiveProposal
    <2>2. CASE ~joined
      BY <1>1, <2>2, OutcomesUnchanged
    <2> QED
      BY <2>1, <2>2
  <1>3. SyncsKept
    BY <1>1, OutcomeFacts DEF SyncsKept, IInv, RowsTypeOK
  <1>4. RowsKept
    BY <1>1, RowsUnchanged
  <1>5. OutcomesCollected'
    BY <1>1, <1>2, <1>3, OutcomesStep
  <1>6. covered' \subseteq Window
    BY <1>1 DEF IInv, RowsTypeOK
  <1> QED
    BY <1>1, <1>2, <1>3, <1>4, <1>5, <1>6, LiveKeeps

\* Each sync duty is one that keeps what was final, and a reward.
LEMMA SyncsOneByOne ==
    ASSUME ChainInv, IInv, DOMAIN syncs' = SyncMembers \X EpochSlots,
           syncs' = [k \in DOMAIN syncs' |-> syncs'[k]],
           \A k \in SyncMembers \X EpochSlots : syncs'[k] = syncs[k] \/
             /\ SyncReal(k, syncs'[k]) /\ syncs'[k] # Null
             /\ syncs[k] # Null =>
                  /\ syncs[k].final => syncs'[k].final
                  /\ syncs[k].reward # Null => syncs'[k].reward # Null
             /\ Done(k[1]) => syncs'[k] = syncs[k]
    PROVE  SyncsKept
  <1>1. \A k \in SyncMembers \X EpochSlots :
          /\ syncs'[k] # Null => SyncReal(k, syncs'[k])
          /\ syncs[k] # Null =>
               /\ syncs'[k] # Null
               /\ syncs[k].final => syncs'[k].final
               /\ syncs[k].reward # Null => syncs'[k].reward # Null
          /\ Done(k[1]) => syncs'[k] = syncs[k]
    BY OutcomeFacts
  <1>2. \A k \in SyncMembers \X EpochSlots : syncs'[k] \in SyncRow \cup {Null}
    BY <1>1 DEF SyncReal
  <1>3. syncs' \in [SyncMembers \X EpochSlots -> SyncRow \cup {Null}]
    BY <1>2
  <1> QED
    BY <1>1, <1>3 DEF SyncsKept

LEMMA JoinSyncRewardsKeeps ==
    ASSUME ChainInv, IInv, NEW slot, NEW joined, JoinSyncRewards(slot, joined)
    PROVE  IInv' /\ Kept
  <1>1. /\ syncs' = [k \in DOMAIN syncs |->
             IF joined /\ k[2] = slot /\ syncs[k] # Null /\ ~syncs[k].final
             THEN WithSyncReward(k) ELSE syncs[k]]
        /\ UNCHANGED <<chain, decoded, mode, rows, proposals, completed, covered, scan>>
    BY DEF JoinSyncRewards
  <1>2. DOMAIN syncs = SyncMembers \X EpochSlots
    BY DEF IInv, RowsTypeOK
  <1>3. SyncsKept
    <2>1. ASSUME NEW k \in SyncMembers \X EpochSlots
          PROVE  syncs'[k] = syncs[k] \/
                   /\ SyncReal(k, syncs'[k]) /\ syncs'[k] # Null
                   /\ syncs[k] # Null =>
                        /\ syncs[k].final => syncs'[k].final
                        /\ syncs[k].reward # Null => syncs'[k].reward # Null
                   /\ Done(k[1]) => syncs'[k] = syncs[k]
      <3>1. syncs'[k] = syncs[k] \/
              (syncs[k] # Null /\ ~syncs[k].final /\ syncs'[k] = WithSyncReward(k))
        BY <1>1, <1>2
      <3>2. syncs[k] # Null => SyncReal(k, syncs[k])
        BY OutcomeFacts
      <3>3. Done(k[1]) => syncs[k].final
        BY DoneSync
      <3>4. syncs[k] # Null =>
              /\ SyncReal(k, WithSyncReward(k)) /\ WithSyncReward(k) # Null
              /\ WithSyncReward(k).final = syncs[k].final /\ WithSyncReward(k).reward # Null
        BY <3>2, SyncJoin DEF WithSyncReward
      <3> QED
        BY <3>1, <3>3, <3>4
    <2>2. DOMAIN syncs' = SyncMembers \X EpochSlots /\ syncs' = [k \in DOMAIN syncs' |-> syncs'[k]]
      BY <1>1, <1>2
    <2> QED
      BY <2>1, <2>2, SyncsOneByOne
  <1>4. ProposalsKept
    BY <1>1, OutcomeFacts DEF ProposalsKept, IInv, RowsTypeOK
  <1>5. RowsKept
    BY <1>1, RowsUnchanged
  <1>6. OutcomesCollected'
    BY <1>1, <1>3, <1>4, OutcomesStep
  <1>7. covered' \subseteq Window
    BY <1>1 DEF IInv, RowsTypeOK
  <1> QED
    BY <1>1, <1>3, <1>4, <1>5, <1>6, <1>7, LiveKeeps

\* What the live worker decodes of a block.
LiveFoundOf(found, slot, first) ==
  /\ IsFound(found, Tracked)
  /\ \A v \in DOMAIN found : found[v].slot = slot
  /\ DOMAIN found # {} => slot \in DOMAIN chain.body
  /\ slot \in DOMAIN chain.body =>
       \/ DOMAIN found = {}
       \/ /\ IsBlockResult(found, chain, slot, Tracked,
                           LiveContext(slot, RootsFrom(chain, first, slot)))
          /\ \E r \in RootsFrom(chain, first, slot) : r <= EpochStartSlot(Epoch)

LEMMA LiveFound ==
    ASSUME ChainInv, NEW slot \in DOMAIN chain.body, NEW first \in chain.filled, first <= slot,
           NEW found \in decoded.live[slot][first]
    PROVE  /\ LiveFoundOf(found, slot, first)
           /\ IsBlockResult(found, chain, slot, Tracked,
                            LiveContext(slot, RootsFrom(chain, first, slot)))
  <1> DEFINE ctx == LiveContext(slot, RootsFrom(chain, first, slot))
  <1>1. chain \in Chains /\ found \in Decoded(chain).live[slot][first]
    BY DEF ChainInv
  <1>2. /\ IsBlockResult(found, chain, slot, Tracked, ctx)
        /\ DOMAIN found # {} => \E r \in RootsFrom(chain, first, slot) : r <= EpochStartSlot(Epoch)
    BY <1>1, LiveScan
  <1> HIDE DEF ctx
  <1>3. IsFound(found, Tracked) /\ \A v \in DOMAIN found : found[v].slot = slot
    BY <1>1, <1>2, ExtractType
  <1> QED
    BY <1>2, <1>3 DEF LiveFoundOf, ctx

\* The result ProcessSlot works with; a slot it covers was decoded.
LEMMA ProcessSlotFound ==
    ASSUME ChainInv, NEW slot \in Window, NEW first \in chain.filled, first <= slot,
           NEW results,
           results = IF slot \in chain.filled THEN decoded.live[slot][first] ELSE {<< >>},
           NEW found, found = IF results = {} THEN << >> ELSE CHOOSE f \in results : TRUE
    PROVE  /\ LiveFoundOf(found, slot, first)
           /\ results # {} /\ slot \in DOMAIN chain.body =>
                IsBlockResult(found, chain, slot, Tracked,
                              LiveContext(slot, RootsFrom(chain, first, slot)))
  <1>1. DOMAIN chain.body = chain.filled \cap Window
    <2>1. chain.body = [s \in DOMAIN chain.votes |->
                          [k \in DOMAIN chain.votes[s] |-> AttestationOf(chain.votes[s][k])]]
          /\ DOMAIN chain.votes = chain.filled \cap Window
      BY ChainAssumption DEF ChainInv
    <2> QED
      BY <2>1
  <1>2. ASSUME found = << >>
        PROVE  LiveFoundOf(found, slot, first)
    <2>0. DOMAIN << >> = {}
      OBVIOUS
    <2>1. DOMAIN found = {}
      BY <1>2, <2>0
    <2> QED
      BY <2>1 DEF LiveFoundOf, IsFound
  <1>3. CASE results # {} /\ slot \in chain.filled
    <2>1. found \in decoded.live[slot][first]
      BY <1>3
    <2> QED
      BY <1>1, <1>3, <2>1, LiveFound
  <1>4. CASE results = {} \/ slot \notin chain.filled
    <2>1. found = << >>
      BY <1>4
    <2> QED
      BY <1>1, <1>2, <1>4, <2>1
  <1> QED
    BY <1>3, <1>4

LEMMA ProcessSlotKeeps ==
    ASSUME ChainInv, IInv, NEW slot \in Window, NEW first \in chain.filled, NEW last, NEW written,
           ProcessSlot(slot, first, last, written)
    PROVE  IInv' /\ Kept
  <1> DEFINE roots == {b \in chain.filled : first <= b /\ b <= slot}
             results == IF slot \in chain.filled THEN decoded.live[slot][first] ELSE {<< >>}
             found == IF results = {} THEN << >> ELSE CHOOSE f \in results : TRUE
  <1>1. /\ first <= slot
        /\ written \subseteq (IF last = "votes" THEN DOMAIN found ELSE {})
        /\ proposals' = IF slot \in ProposerSlots
                        THEN [proposals EXCEPT ![slot] =
                               UpsertOutcome(ProposalOf(slot, Null, FALSE), proposals[slot],
                                             Done(chain.proposer[slot]))]
                        ELSE proposals
        /\ syncs' = [k \in DOMAIN syncs |->
             IF k[2] = slot /\ last # "proposal"
             THEN UpsertOutcome(SyncOf(k[1], slot, Null, FALSE), syncs[k], Done(k[1]))
             ELSE syncs[k]]
        /\ rows' = [v \in Tracked |->
             IF v \in written THEN Upsert(LiveRow(v, found[v], roots), rows[v], Done(v))
             ELSE rows[v]]
        /\ covered' = IF last = "votes" /\ results # {} /\ written = DOMAIN found
                      THEN covered \cup {slot} ELSE covered
        /\ UNCHANGED <<chain, decoded, mode, completed, scan>>
    BY DEF ProcessSlot
  <1>2. LiveFoundOf(found, slot, first)
    BY <1>1, ProcessSlotFound
  <1> HIDE DEF found, results
  <1>3. written \subseteq DOMAIN found /\ \A v \in DOMAIN found : found[v] \in InclusionType
    BY <1>1, <1>2 DEF LiveFoundOf, IsFound
  <1>4. RowsKept
    <2>1. \A v \in Tracked : rows[v] \in AttestationRow \cup {Null}
      BY DEF IInv, RowsTypeOK
    <2>2. ASSUME NEW v \in Tracked
          PROVE  rows'[v] = rows[v] \/
                   /\ rows'[v] \in AttestationRow
                   /\ rows[v] # Null /\ rows[v].final => rows'[v] = rows[v]
      <3> DEFINE new == LiveRow(v, found[v], roots)
      <3>1. rows'[v] = IF v \in written THEN Upsert(new, rows[v], Done(v)) ELSE rows[v]
        BY <1>1
      <3>2. v \in written => new \in AttestationRow /\ ~new.final
        <4>1. roots \subseteq chain.filled
          OBVIOUS
        <4> HIDE DEF roots
        <4> QED
          BY <1>3, <4>1, LiveRowCases
      <3> HIDE DEF new
      <3> QED
        BY <2>1, <3>1, <3>2, DoneBoolean, LiveUpsert
    <2>3. DOMAIN rows' = Tracked /\ rows' = [v \in Tracked |-> rows'[v]]
      BY <1>1
    <2> QED
      BY <2>2, <2>3, RowsOneByOne
  <1>5. ProposalsKept /\ (slot \in ProposerSlots => proposals'[slot] # Null)
    <2>1. CASE slot \in ProposerSlots
      BY <1>1, <2>1, LiveProposal
    <2>2. CASE slot \notin ProposerSlots
      <3>1. proposals' = proposals
        BY <1>1, <2>2
      <3> QED
        BY <2>2, <3>1, OutcomeFacts DEF ProposalsKept, IInv, RowsTypeOK
    <2> QED
      BY <2>1, <2>2
  <1>6. DOMAIN syncs = SyncMembers \X EpochSlots
    BY DEF IInv, RowsTypeOK
  <1>7. ASSUME NEW k \in SyncMembers \X EpochSlots
        PROVE  IF k[2] = slot /\ last # "proposal"
               THEN /\ SyncReal(k, syncs'[k]) /\ syncs'[k] # Null
                    /\ syncs[k] # Null =>
                         /\ syncs[k].final => syncs'[k].final
                         /\ syncs[k].reward # Null => syncs'[k].reward # Null
                    /\ Done(k[1]) => syncs'[k] = syncs[k]
               ELSE syncs'[k] = syncs[k]
    <2>1. syncs'[k] = IF k[2] = slot /\ last # "proposal"
                      THEN UpsertOutcome(SyncOf(k[1], k[2], Null, FALSE), syncs[k], Done(k[1]))
                      ELSE syncs[k]
      BY <1>1, <1>6
    <2> DEFINE new == SyncOf(k[1], k[2], Null, FALSE)
               done == Done(k[1])
    <2>2. SyncReal(k, new) /\ new # Null /\ new.final = FALSE
      BY SyncOfCases
    <2>3. syncs[k] = Null \/ SyncReal(k, syncs[k])
      BY OutcomeFacts
    <2>4. done \in BOOLEAN
      BY DoneBoolean
    <2> DEFINE row == UpsertOutcome(new, syncs[k], done)
    <2> HIDE DEF new, done
    <2>5. SyncUpserted(k, row, new, syncs[k], done)
      BY <2>2, <2>3, <2>4, SyncUpsert
    <2>6. syncs'[k] = IF k[2] = slot /\ last # "proposal" THEN row ELSE syncs[k]
      BY <2>1 DEF new, done
    <2> HIDE DEF row
    <2>7. /\ SyncReal(k, row) /\ row # Null
          /\ syncs[k] # Null =>
               /\ syncs[k].final => row.final
               /\ syncs[k].reward # Null => row.reward # Null
          /\ done => row = syncs[k]
      <3>1. done => syncs[k] # Null /\ syncs[k].final
        BY DoneSync DEF done
      <3> QED
        BY <2>2, <2>5, <3>1 DEF SyncUpserted
    <2> QED
      BY <2>6, <2>7 DEF done
  <1>8. SyncsKept
    <2>1. DOMAIN syncs' = SyncMembers \X EpochSlots /\ syncs' = [k \in DOMAIN syncs' |-> syncs'[k]]
      BY <1>1, <1>6
    <2> QED
      BY <1>7, <2>1, SyncsOneByOne
  <1>9. covered' \subseteq Window
    BY <1>1 DEF IInv, RowsTypeOK
  <1>10. OutcomesCollected'
    <2>1. covered' = covered \/ (covered' = covered \cup {slot} /\ last = "votes")
      BY <1>1
    <2>2. ASSUME NEW s \in ProposerSlots \cap covered'
          PROVE  proposals'[s] # Null
      <3>1. CASE s \in covered
        BY <1>5, <3>1 DEF IInv, OutcomesCollected, ProposalsKept
      <3>2. CASE s = slot
        BY <1>5, <3>2
      <3> QED
        BY <2>1, <3>1, <3>2
    <2>3. ASSUME NEW k \in SyncMembers \X (EpochSlots \cap covered')
          PROVE  syncs'[k] # Null
      <3>1. k \in SyncMembers \X EpochSlots /\ k[2] \in covered' /\ k = <<k[1], k[2]>>
        OBVIOUS
      <3>2. CASE k[2] \in covered
        <4>1. k \in SyncMembers \X (EpochSlots \cap covered)
          BY <3>1, <3>2
        <4> QED
          BY <1>8, <3>1, <4>1 DEF IInv, OutcomesCollected, SyncsKept
      <3>3. CASE k[2] = slot /\ k[2] \notin covered
        <4>1. last # "proposal"
          BY <2>1, <3>1, <3>3
        <4> QED
          BY <1>7, <3>1, <3>3, <4>1
      <3> QED
        BY <2>1, <3>1, <3>2, <3>3
    <2> QED
      BY <1>1, <2>2, <2>3, ChainStable DEF OutcomesCollected
  <1> QED
    BY <1>1, <1>4, <1>5, <1>8, <1>9, <1>10, LiveKeeps

\* What RepairDetails makes of one row.
LEMMA RepairedRow ==
    ASSUME ChainInv, NEW v \in Tracked, NEW inc \in InclusionType,
           NEW roots, roots \subseteq chain.filled, NEW slot \in Nat,
           NEW old \in AttestationRow \cup {Null}, NEW done \in BOOLEAN,
           NEW up, up = Upsert(LiveRow(v, inc, roots), old, done),
           NEW new, new = Repaired(up, inc, LiveEffective(v, slot, roots), done)
    PROVE  /\ up \in AttestationRow
           /\ RepairOf(new, up, inc, LiveEffective(v, slot, roots), done)
           /\ old # Null /\ old.final => up = old
           /\ FinalRow(old) => FinalRow(new) /\ (old.known => new.known)
           /\ FinalRow(old) /\ done => new = old
  <1> DEFINE effective == LiveEffective(v, slot, roots)
  <1>1. effective \in Nat
    BY LiveEffectiveType
  <1>2. LiveRow(v, inc, roots) \in AttestationRow /\ ~LiveRow(v, inc, roots).final
    BY LiveRowCases
  <1>3. up \in AttestationRow /\ (old # Null /\ old.final => up = old)
    BY <1>2, LiveUpsert
  <1> HIDE DEF effective
  <1>4. RepairOf(new, up, inc, effective, done)
    BY <1>1, <1>3, RepairedCases DEF effective
  <1>5. ASSUME FinalRow(old)
        PROVE  FinalRow(new) /\ (old.known => new.known) /\ (done => new = old)
    <2>1. up = old /\ up.final /\ up.reward # Null /\ Detailed(up)
      BY <1>3, <1>5 DEF FinalRow
    <2>2. new # Null /\ new.final /\ new.reward # Null
      BY <1>4, <2>1, NullAssumption DEF RepairOf
    <2>3. \A c \in Components : inc.marks[c] # Null
      BY NullAssumption DEF InclusionType
    <2>4. Detailed(new)
      BY <1>1, <1>4, <2>1, <2>3, NullAssumption DEF RepairOf, Detailed
    <2> QED
      BY <1>4, <2>1, <2>2, <2>4 DEF FinalRow, RepairOf
  <1> QED
    BY <1>3, <1>4, <1>5 DEF effective

LEMMA RepairDetailsKeeps ==
    ASSUME ChainInv, IInv, NEW slot \in Window, NEW first \in chain.filled,
           RepairDetails(slot, first)
    PROVE  IInv' /\ Kept
  <1> DEFINE roots == {b \in chain.filled : first <= b /\ b <= slot}
             Up(v, found) == Upsert(LiveRow(v, found[v], roots), rows[v], Done(v))
             New(v, found) == Repaired(Up(v, found), found[v], LiveEffective(v, slot, roots), Done(v))
  <1>1. PICK found \in decoded.live[slot][first] :
          rows' = [v \in Tracked |-> IF v \in DOMAIN found THEN New(v, found) ELSE rows[v]]
    BY DEF RepairDetails
  <1>2. /\ slot \in DOMAIN chain.body /\ first <= slot
        /\ UNCHANGED <<chain, decoded, mode, proposals, syncs, completed, covered, scan>>
    BY DEF RepairDetails
  <1>3. \A v \in DOMAIN found : found[v] \in InclusionType
    BY <1>2, LiveFound DEF LiveFoundOf, IsFound
  <1>4. slot \in Nat /\ roots \subseteq chain.filled
    BY SlotFacts
  <1> HIDE DEF roots
  <1>5. rows \in [Tracked -> AttestationRow \cup {Null}]
    BY DEF IInv, RowsTypeOK
  <1>6. ASSUME NEW v \in Tracked
        PROVE  /\ rows'[v] \in AttestationRow \cup {Null}
               /\ FinalRow(rows[v]) => FinalRow(rows'[v]) /\ (rows[v].known => rows'[v].known)
               /\ FinalRow(rows[v]) /\ Done(v) => rows'[v] = rows[v]
    <2>1. CASE v \in DOMAIN found
      <3>1. rows'[v] = New(v, found)
        BY <1>1, <2>1
      <3> DEFINE up == Up(v, found)
                 new == New(v, found)
                 done == Done(v)
      <3>2. rows[v] \in AttestationRow \cup {Null} /\ done \in BOOLEAN
        BY <1>5, DoneBoolean
      <3> HIDE DEF done
      <3>3. up = Upsert(LiveRow(v, found[v], roots), rows[v], done)
            /\ new = Repaired(up, found[v], LiveEffective(v, slot, roots), done)
        BY DEF done
      <3> HIDE DEF up, new
      <3>4. /\ RepairOf(new, up, found[v], LiveEffective(v, slot, roots), done)
            /\ FinalRow(rows[v]) => FinalRow(new) /\ (rows[v].known => new.known)
            /\ FinalRow(rows[v]) /\ done => new = rows[v]
        BY <1>3, <1>4, <2>1, <3>2, <3>3, RepairedRow
      <3>5. new \in AttestationRow
        BY <3>4 DEF RepairOf
      <3> QED
        BY <3>1, <3>4, <3>5 DEF done, new
    <2>2. CASE v \notin DOMAIN found
      BY <1>1, <1>5, <2>2
    <2> QED
      BY <2>1, <2>2
  <1>7. RowsKept
    <2>1. rows' \in [Tracked -> AttestationRow \cup {Null}]
      BY <1>1, <1>6
    <2>2. \A v \in Tracked : Done(v) => FinalRow(rows[v])
      BY DEF IInv, CompletedFinal
    <2> QED
      BY <1>6, <2>1, <2>2 DEF RowsKept
  <1>8. ProposalsKept /\ SyncsKept
    BY <1>2, OutcomesUnchanged
  <1>9. OutcomesCollected'
    BY <1>2, <1>8, OutcomesStep
  <1>10. covered' \subseteq Window
    BY <1>2 DEF IInv, RowsTypeOK
  <1> QED
    BY <1>2, <1>7, <1>8, <1>9, <1>10, LiveKeeps

\* Promote: what becomes of each row, proposal and sync duty.
FrozenFrom(new, old, reward) ==
  /\ new \in AttestationRow
  /\ new.included = old.included /\ new.slot = old.slot /\ new.delay = old.delay
  /\ new.effective = old.effective
  /\ new.reward \in {old.reward, reward}
  /\ \A c \in Components : old.marks[c] # Null => new.marks[c] = old.marks[c]
  /\ old.known => new.known
  /\ old.final => new.final

LEMMA FrozenRowCases ==
    ASSUME IInv, NEW v \in Tracked, NEW floor
    PROVE  IF rows[v] = Null THEN FrozenRow(v, floor) = Null
           ELSE /\ FrozenFrom(FrozenRow(v, floor), rows[v], RewardOf(v))
                /\ FrozenRow(v, floor) # Null
                /\ Done(v) => FrozenRow(v, floor) = rows[v]
                /\ FrozenRow(v, floor).final =>
                     rows[v].final \/ Proven(rows[v], floor)
  <1> DEFINE old == rows[v]
             replayed == ReplayedRow(v)
             proven == Proven(replayed, floor)
             new == FrozenRow(v, floor)
  <1>1. old \in AttestationRow \cup {Null}
    BY DEF IInv, RowsTypeOK
  <1>2. CASE old = Null
    <2>1. replayed = Null
      BY <1>2 DEF ReplayedRow
    <2> QED
      BY <1>2, <2>1 DEF FrozenRow
  <1>3. CASE old # Null
    <2>1. /\ replayed \in AttestationRow
          /\ replayed.included = old.included /\ replayed.slot = old.slot
          /\ replayed.delay = old.delay /\ replayed.effective = old.effective
          /\ replayed.final = old.final /\ replayed.known = old.known
          /\ replayed.reward \in {old.reward, RewardOf(v)}
          /\ \A c \in Components : old.marks[c] # Null => replayed.marks[c] = old.marks[c]
      BY <1>1, <1>3, RewardTyped, JoinRewardCases DEF ReplayedRow
    <2>2. Done(v) => replayed = old
      BY DEF ReplayedRow
    <2>3. new = IF proven THEN [replayed EXCEPT !.known = TRUE, !.final = TRUE] ELSE replayed
      BY <2>1, NullAssumption DEF FrozenRow
    <2>4. proven = Proven(old, floor)
      BY <2>1 DEF Proven
    <2> DEFINE marked == [replayed EXCEPT !.known = TRUE, !.final = TRUE]
    <2> HIDE DEF replayed, proven, new
    <2>5. /\ marked \in AttestationRow
          /\ marked.included = replayed.included /\ marked.slot = replayed.slot
          /\ marked.delay = replayed.delay /\ marked.effective = replayed.effective
          /\ marked.known = TRUE /\ marked.final = TRUE
          /\ marked.reward = replayed.reward /\ marked.marks = replayed.marks
          /\ replayed.known /\ replayed.final => marked = replayed
      BY <2>1 DEF AttestationRow
    <2>6. Done(v) => old.known /\ old.final
      BY DEF IInv, CompletedFinal, FinalRow
    <2> HIDE DEF marked
    <2> DEFINE paid == RewardOf(v)
               done == Done(v)
    <2> HIDE DEF paid, done, old
    <2>7. FrozenFrom(new, old, paid) /\ new # Null
      <3>1. CASE proven
        <4>1. new = marked
          BY <2>3, <3>1 DEF marked
        <4>2. /\ new \in AttestationRow /\ new # Null
              /\ new.included = old.included /\ new.slot = old.slot /\ new.delay = old.delay
              /\ new.effective = old.effective
              /\ new.marks = replayed.marks /\ new.reward = replayed.reward
              /\ new.known = TRUE /\ new.final = TRUE
          BY <2>1, <2>5, <4>1, NullAssumption
        <4> QED
          BY <2>1, <4>2 DEF FrozenFrom, paid
      <3>2. CASE ~proven
        <4>1. new = replayed
          BY <2>3, <3>2
        <4> QED
          BY <2>1, <4>1, NullAssumption DEF FrozenFrom, paid
      <3> QED
        BY <3>1, <3>2
    <2>8. done => new = old
      <3>1. done => replayed = old /\ old.known /\ old.final
        BY <2>2, <2>6 DEF done
      <3> QED
        BY <2>3, <2>5, <3>1 DEF marked
    <2>9. new.final => old.final \/ Proven(old, floor)
      BY <2>1, <2>3, <2>4
    <2> QED
      BY <1>3, <2>7, <2>8, <2>9 DEF new, old, paid, done
  <1> QED
    BY <1>2, <1>3

LEMMA FinalMarked ==
    ASSUME NEW row \in AttestationRow
    PROVE  /\ [row EXCEPT !.final = TRUE] \in AttestationRow
           /\ [row EXCEPT !.final = TRUE].final
           /\ \A f \in {"included", "slot", "delay", "effective", "marks", "reward", "known"} :
                [row EXCEPT !.final = TRUE][f] = row[f]
           /\ row.final => [row EXCEPT !.final = TRUE] = row
  BY DEF AttestationRow

\* A row of Promote keeps what was final, and is whole when the epoch is ready.
LEMMA PromotedRow ==
    ASSUME IInv, NEW v \in Tracked, NEW floor, NEW new,
           new = IF v \in Ready(floor) THEN [FrozenRow(v, floor) EXCEPT !.final = TRUE]
                 ELSE FrozenRow(v, floor)
    PROVE  /\ new \in AttestationRow \cup {Null}
           /\ FinalRow(rows[v]) => FinalRow(new) /\ (rows[v].known => new.known)
           /\ Done(v) => new = rows[v]
           /\ v \in Ready(floor) => FinalRow(new) /\ new.known
  <1> DEFINE frozen == FrozenRow(v, floor)
  <1>1. IF rows[v] = Null THEN frozen = Null
        ELSE /\ FrozenFrom(frozen, rows[v], RewardOf(v)) /\ frozen # Null
             /\ Done(v) => frozen = rows[v]
    BY FrozenRowCases
  <1>2. v \in Ready(floor) =>
          /\ ~Done(v) /\ frozen # Null /\ frozen.known /\ Detailed(frozen) /\ frozen.reward # Null
    BY DEF Ready
  <1>3. rows[v] \in AttestationRow \cup {Null} /\ RewardOf(v) # Null
    BY RewardTyped, NullAssumption DEF IInv, RowsTypeOK, RewardType
  <1> HIDE DEF frozen
  <1>4. FinalRow(rows[v]) => FinalRow(frozen) /\ (rows[v].known => frozen.known)
    BY <1>1, <1>3, NullAssumption DEF FinalRow, FrozenFrom, Detailed
  <1>5. frozen # Null => frozen \in AttestationRow
    BY <1>1 DEF FrozenFrom
  <1>6. CASE v \notin Ready(floor)
    <2>1. new = frozen
      BY <1>6 DEF frozen
    <2>2. Done(v) => new = rows[v]
      BY <1>1, <2>1
    <2> QED
      BY <1>4, <1>5, <1>6, <2>1, <2>2
  <1>7. CASE v \in Ready(floor)
    <2> DEFINE marked == [frozen EXCEPT !.final = TRUE]
    <2>1. new = marked /\ frozen \in AttestationRow
      BY <1>2, <1>5, <1>7 DEF frozen
    <2>2. /\ marked \in AttestationRow /\ marked.final
          /\ marked.included = frozen.included /\ marked.effective = frozen.effective
          /\ marked.marks = frozen.marks /\ marked.reward = frozen.reward
          /\ marked.known = frozen.known
      BY <2>1, FinalMarked
    <2> HIDE DEF marked
    <2>3. FinalRow(marked) /\ marked.known
      BY <1>2, <1>7, <2>2, NullAssumption DEF FinalRow, Detailed
    <2> QED
      BY <1>2, <1>7, <2>1, <2>2, <2>3
  <1> QED
    BY <1>6, <1>7

LEMMA PromotedProposal ==
    ASSUME ChainInv, IInv, NEW s \in ProposerSlots, NEW floor, NEW settled \in BOOLEAN, NEW new,
           new = IF proposals[s] # Null /\ settled
                 THEN [ReplayedProposal(s, floor) EXCEPT !.final = TRUE]
                 ELSE ReplayedProposal(s, floor)
    PROVE  /\ new # Null => new \in ProposalsOf(s) /\ new \in ProposalRow
           /\ proposals[s] # Null => new # Null
           /\ proposals[s] = Null => new = Null
           /\ proposals[s] = ProposalOf(s, s, TRUE) => new = proposals[s]
           /\ proposals[s] # Null /\ settled /\
                (s \in chain.filled => ReplayedProposal(s, floor).reward # Null) =>
                  new = ProposalOf(s, s, TRUE)
  <1> DEFINE replayed == ReplayedProposal(s, floor)
             Is(r, f) == ProposalOf(s, r, f)
  <1>1. s \in EpochSlots /\ s # Null /\ (proposals[s] # Null => proposals[s] \in ProposalsOf(s))
    BY OutcomeFacts, SlotFacts, NullAssumption
  <1>2. CASE proposals[s] = Null
    <2>1. replayed = Null
      BY <1>2 DEF ReplayedProposal
    <2>2. new = Null
      BY <1>2, <2>1
    <2>3. ProposalOf(s, s, TRUE) # Null
      BY <1>1, ProposalPaid
    <2> QED
      BY <1>2, <2>2, <2>3
  <1>3. CASE proposals[s] # Null
    <2>1. \A r \in {Null, s}, f \in BOOLEAN : Is(r, f) \in ProposalsOf(s)
      BY DEF ProposalsOf
    <2>2. proposals[s].final \in BOOLEAN
      BY <1>1, <1>3, ProposalOfType DEF ProposalRow
    <2>3. replayed \in ProposalsOf(s)
          /\ (proposals[s] = Is(s, TRUE) => replayed = proposals[s])
      <3>1. CASE replayed = proposals[s]
        BY <1>1, <1>3, <3>1
      <3>2. CASE replayed # proposals[s]
        <4>1. s \in chain.filled /\ replayed = [proposals[s] EXCEPT !.reward = s]
          BY <3>2 DEF ReplayedProposal, Connected
        <4>2. replayed = Is(s, proposals[s].final)
          BY <1>1, <1>3, <4>1, ProposalOfType
        <4>3. Is(s, proposals[s].final) \in ProposalsOf(s)
          BY <2>1, <2>2
        <4>4. Is(s, TRUE).final = TRUE
          BY DEF ProposalOf
        <4> HIDE DEF Is, replayed
        <4> QED
          BY <4>2, <4>3, <4>4
      <3> QED
        BY <3>1, <3>2
    <2> HIDE DEF replayed
    <2>4. CASE ~settled
      <3>1. new = replayed /\ replayed # Null /\ replayed \in ProposalRow
        BY <1>1, <2>3, <2>4, ProposalOfType DEF replayed
      <3> QED
        BY <1>3, <2>3, <2>4, <3>1
    <2>5. CASE settled
      <3>1. new = [replayed EXCEPT !.final = TRUE]
        BY <1>3, <2>5 DEF replayed
      <3>2. new = Is(replayed.reward, TRUE) /\ replayed.reward \in {Null, s}
        BY <1>1, <2>3, <3>1, ProposalOfType
      <3>3. new \in ProposalsOf(s)
        BY <2>1, <3>2
      <3>4. new \in ProposalRow /\ new # Null
        BY <1>1, <3>3, ProposalOfType
      <3>5. new.final /\ (s \in chain.filled => new.reward = replayed.reward)
        BY <3>2 DEF ProposalOf
      <3>6. (s \in chain.filled => replayed.reward # Null) => new = ProposalOf(s, s, TRUE)
        BY <1>1, <3>3, <3>5, ProposalOfType
      <3>7. ASSUME proposals[s] = Is(s, TRUE)
            PROVE  new = proposals[s]
        <4>1. s \in chain.filled => replayed.reward = s
          BY <2>3, <3>7 DEF ProposalOf
        <4> QED
          BY <1>1, <3>6, <3>7, <4>1
      <3> QED
        BY <1>3, <3>3, <3>4, <3>6, <3>7 DEF replayed
    <2> QED
      BY <2>4, <2>5
  <1> QED
    BY <1>2, <1>3

LEMMA SyncMarked ==
    ASSUME NEW row \in SyncRow
    PROVE  /\ [row EXCEPT !.final = TRUE] \in SyncRow
           /\ [row EXCEPT !.final = TRUE].final
           /\ [row EXCEPT !.final = TRUE].missed = row.missed
           /\ [row EXCEPT !.final = TRUE].reward = row.reward
           /\ row.final => [row EXCEPT !.final = TRUE] = row
  BY DEF SyncRow

SyncPromoted(new, k, floor, settled) ==
  /\ syncs[k] = Null => new = Null
  /\ syncs[k] # Null =>
       /\ SyncReal(k, new) /\ new # Null
       /\ syncs[k].final => new.final
       /\ syncs[k].reward # Null => new.reward # Null
       /\ settled => new.final
       /\ settled /\ (~syncs[k].missed => ReplayedSync(k, floor).reward # Null) =>
            new.reward # Null
  /\ Done(k[1]) => new = syncs[k]

LEMMA PromotedSync ==
    ASSUME ChainInv, IInv, NEW k \in SyncMembers \X EpochSlots, NEW floor,
           NEW settled \in BOOLEAN, NEW new,
           new = IF syncs[k] # Null /\ settled
                 THEN [ReplayedSync(k, floor) EXCEPT !.final = TRUE]
                 ELSE ReplayedSync(k, floor)
    PROVE  SyncPromoted(new, k, floor, settled)
  <1> DEFINE replayed == ReplayedSync(k, floor)
             marked == [replayed EXCEPT !.final = TRUE]
  <1>1. CASE syncs[k] = Null
    <2>1. new = Null
      BY <1>1 DEF ReplayedSync
    <2> QED
      BY <1>1, <2>1 DEF SyncPromoted
  <1>2. CASE syncs[k] # Null
    <2>1. SyncReal(k, syncs[k]) /\ (Done(k[1]) => syncs[k].final)
      BY <1>2, OutcomeFacts, DoneSync
    <2>2. /\ SyncReal(k, replayed) /\ replayed # Null
          /\ replayed.final = syncs[k].final /\ replayed.missed = syncs[k].missed
          /\ syncs[k].reward # Null => replayed.reward # Null
          /\ Done(k[1]) => replayed = syncs[k]
      <3>1. CASE replayed = syncs[k]
        BY <1>2, <2>1, <3>1
      <3>2. CASE replayed # syncs[k]
        <4>1. replayed = [syncs[k] EXCEPT !.reward = SyncRewardOf(k[1], k[2])] /\ ~Done(k[1])
          BY <3>2 DEF ReplayedSync, WithSyncReward
        <4> HIDE DEF replayed
        <4> QED
          BY <2>1, <4>1, SyncJoin
      <3> QED
        BY <3>1, <3>2
    <2>3. new = IF settled THEN marked ELSE replayed
      BY <1>2
    <2> HIDE DEF replayed
    <2>4. replayed \in SyncRow
      BY <2>2 DEF SyncReal
    <2>5. /\ marked \in SyncRow /\ marked.final
          /\ marked.missed = replayed.missed /\ marked.reward = replayed.reward
          /\ replayed.final => marked = replayed
      BY <2>4, SyncMarked
    <2> HIDE DEF marked
    <2>6. SyncReal(k, marked) /\ marked # Null
      BY <2>2, <2>5, NullAssumption DEF SyncReal
    <2>7. syncs[k].missed => replayed.reward # Null
      <3>1. SyncRewardOf(k[1], k[2]) # Null
        BY SyncRewardIs, NullAssumption
      <3> QED
        BY <2>2, <3>1 DEF SyncReal
    <2> QED
      BY <1>2, <2>1, <2>2, <2>3, <2>5, <2>6, <2>7 DEF replayed, SyncPromoted
  <1> QED
    BY <1>1, <1>2

LEMMA PromoteKeeps ==
    ASSUME ChainInv, IInv, NEW floor, Promote(floor)
    PROVE  IInv' /\ Kept
  <1> DEFINE ready == Ready(floor)
             Frozen(v) == IF v \in ready THEN [FrozenRow(v, floor) EXCEPT !.final = TRUE]
                          ELSE FrozenRow(v, floor)
             SettledProposal(s) == Settled(s, floor) \/ chain.proposer[s] \in ready
             SettledSync(k) == Settled(k[2], floor) \/ k[1] \in ready
  <1>1. /\ rows' = [v \in Tracked |-> Frozen(v)]
        /\ proposals' = [s \in DOMAIN proposals |->
             IF proposals[s] # Null /\ SettledProposal(s)
             THEN [ReplayedProposal(s, floor) EXCEPT !.final = TRUE]
             ELSE ReplayedProposal(s, floor)]
        /\ syncs' = [k \in DOMAIN syncs |->
             IF syncs[k] # Null /\ SettledSync(k)
             THEN [ReplayedSync(k, floor) EXCEPT !.final = TRUE]
             ELSE ReplayedSync(k, floor)]
        /\ completed' = [v \in Tracked |-> IF v \in ready THEN "live" ELSE completed[v]]
        /\ UNCHANGED <<chain, decoded, mode, covered, scan>>
    BY DEF Promote
  <1>2. /\ DOMAIN proposals = ProposerSlots /\ DOMAIN syncs = SyncMembers \X EpochSlots
        /\ completed \in [Tracked -> {"archive", "live", Null}]
    BY DEF IInv, RowsTypeOK
  <1> HIDE DEF ready
  <1>3. ASSUME NEW v \in Tracked
        PROVE  /\ rows'[v] \in AttestationRow \cup {Null}
               /\ FinalRow(rows[v]) => FinalRow(rows'[v]) /\ (rows[v].known => rows'[v].known)
               /\ Done(v) => rows'[v] = rows[v]
               /\ v \in ready => FinalRow(rows'[v]) /\ rows'[v].known
    <2>1. rows'[v] = Frozen(v)
      BY <1>1
    <2> QED
      BY <2>1, PromotedRow DEF ready
  <1>4. ASSUME NEW s \in ProposerSlots
        PROVE  /\ proposals'[s] # Null => proposals'[s] \in ProposalsOf(s) /\ proposals'[s] \in ProposalRow
               /\ proposals[s] # Null => proposals'[s] # Null
               /\ proposals[s] = ProposalOf(s, s, TRUE) => proposals'[s] = proposals[s]
               /\ proposals[s] # Null /\ SettledProposal(s) /\
                    (s \in chain.filled => ReplayedProposal(s, floor).reward # Null) =>
                      proposals'[s] = ProposalOf(s, s, TRUE)
    <2> DEFINE settled == SettledProposal(s)
    <2>1. settled \in BOOLEAN
      BY DEF Settled
    <2>2. proposals'[s] = IF proposals[s] # Null /\ settled
                          THEN [ReplayedProposal(s, floor) EXCEPT !.final = TRUE]
                          ELSE ReplayedProposal(s, floor)
      BY <1>1, <1>2
    <2> HIDE DEF settled
    <2> QED
      BY <2>1, <2>2, PromotedProposal DEF settled
  <1>5. ASSUME NEW k \in SyncMembers \X EpochSlots
        PROVE  /\ syncs[k] = Null => syncs'[k] = Null
               /\ syncs[k] # Null =>
                    /\ SyncReal(k, syncs'[k]) /\ syncs'[k] # Null
                    /\ syncs[k].final => syncs'[k].final
                    /\ syncs[k].reward # Null => syncs'[k].reward # Null
                    /\ SettledSync(k) => syncs'[k].final
                    /\ SettledSync(k) /\ (~syncs[k].missed => ReplayedSync(k, floor).reward # Null) =>
                         syncs'[k].reward # Null
               /\ Done(k[1]) => syncs'[k] = syncs[k]
    <2> DEFINE settled == SettledSync(k)
    <2>1. settled \in BOOLEAN
      BY DEF Settled
    <2>2. syncs'[k] = IF syncs[k] # Null /\ settled
                      THEN [ReplayedSync(k, floor) EXCEPT !.final = TRUE]
                      ELSE ReplayedSync(k, floor)
      BY <1>1, <1>2
    <2> HIDE DEF settled
    <2>3. SyncPromoted(syncs'[k], k, floor, settled)
      BY <2>1, <2>2, PromotedSync
    <2> QED
      BY <2>3 DEF settled, SyncPromoted
  <1> HIDE DEF Frozen, SettledProposal, SettledSync
  <1>6. RowsKept
    <2>1. rows' \in [Tracked -> AttestationRow \cup {Null}]
      BY <1>1, <1>3
    <2> QED
      BY <1>3, <2>1 DEF RowsKept
  <1>7. ProposalsKept
    <2>1. \A s \in ProposerSlots : proposals'[s] \in ProposalRow \cup {Null}
      BY <1>4
    <2>2. proposals' \in [ProposerSlots -> ProposalRow \cup {Null}]
      BY <1>1, <1>2, <2>1
    <2> QED
      BY <1>4, <2>2 DEF ProposalsKept
  <1>8. SyncsKept
    <2>1. DOMAIN syncs' = SyncMembers \X EpochSlots /\ syncs' = [k \in DOMAIN syncs' |-> syncs'[k]]
      BY <1>1, <1>2
    <2>2. \A k \in SyncMembers \X EpochSlots : syncs'[k] = syncs[k] \/
            /\ SyncReal(k, syncs'[k]) /\ syncs'[k] # Null
            /\ syncs[k] # Null =>
                 /\ syncs[k].final => syncs'[k].final
                 /\ syncs[k].reward # Null => syncs'[k].reward # Null
            /\ Done(k[1]) => syncs'[k] = syncs[k]
      BY <1>5
    <2> QED
      BY <2>1, <2>2, SyncsOneByOne
  <1>9. ProposalsReal' /\ SyncsReal' /\ OutcomesCollected' /\ ProposalsWritten' /\ SyncsWritten'
    BY <1>1, <1>7, <1>8, OutcomesStep
  <1>10. \A v \in Tracked : completed'[v] # Null => Done(v) \/ v \in ready
    BY <1>1, <1>2 DEF Done
  <1>11. CompletedFinal'
    <2>1. \A v \in Tracked : Done(v) => FinalRow(rows[v]) /\ rows[v].known
      BY DEF IInv, CompletedFinal
    <2>2. \A v \in Tracked : completed'[v] # Null => FinalRow(rows'[v]) /\ rows'[v].known
      BY <1>3, <1>10, <2>1
    <2> QED
      BY <2>2 DEF CompletedFinal, Done, FinalRow, Detailed
  <1>12. ASSUME NEW v \in Tracked, v \in ready
         PROVE  /\ \A s \in ProposerSlots : chain.proposer[s] = v =>
                     proposals'[s] = ProposalOf(s, s, TRUE)
                /\ v \in SyncMembers => \A s \in EpochSlots :
                     syncs'[<<v, s>>] # Null /\ syncs'[<<v, s>>].final /\ syncs'[<<v, s>>].reward # Null
    <2>1. EpochSlots \subseteq covered /\ Paid(v, floor)
      BY <1>12, SlotFacts DEF ready, Ready, Closed
    <2>2. ASSUME NEW s \in ProposerSlots, chain.proposer[s] = v
          PROVE  proposals'[s] = ProposalOf(s, s, TRUE)
      <3>1. proposals[s] # Null
        BY <2>1 DEF IInv, OutcomesCollected, ProposerSlots
      <3>2. s \in chain.filled => ReplayedProposal(s, floor).reward # Null
        BY <2>1, <2>2, <3>1 DEF Paid
      <3>3. SettledProposal(s)
        BY <1>12, <2>2 DEF SettledProposal
      <3> QED
        BY <1>4, <3>1, <3>2, <3>3
    <2>3. ASSUME v \in SyncMembers, NEW s \in EpochSlots
          PROVE  syncs'[<<v, s>>] # Null /\ syncs'[<<v, s>>].final /\ syncs'[<<v, s>>].reward # Null
      <3> DEFINE k == <<v, s>>
      <3>1. k \in SyncMembers \X EpochSlots /\ k[1] = v /\ k[2] = s
            /\ k \in SyncMembers \X (EpochSlots \cap covered)
        BY <2>1, <2>3
      <3> HIDE DEF k
      <3>2. syncs[k] # Null
        BY <3>1 DEF IInv, OutcomesCollected
      <3>3. ~syncs[k].missed => ReplayedSync(k, floor).reward # Null
        BY <1>2, <2>1, <3>1, <3>2 DEF Paid
      <3>4. SettledSync(k)
        BY <1>12, <3>1 DEF SettledSync
      <3>5. syncs'[k] # Null /\ syncs'[k].final /\ syncs'[k].reward # Null
        BY <1>5, <3>1, <3>2, <3>3, <3>4
      <3> QED
        BY <3>5 DEF k
    <2> QED
      BY <2>2, <2>3
  <1>13. CompletedOutcomesTrue'
    <2>1. ASSUME NEW v \in Tracked, Done(v)
          PROVE  /\ \A s \in ProposerSlots : chain.proposer[s] = v =>
                      proposals'[s] = ProposalOf(s, s, TRUE)
                 /\ v \in SyncMembers => \A s \in EpochSlots :
                      syncs'[<<v, s>>] # Null /\ syncs'[<<v, s>>].final
                      /\ syncs'[<<v, s>>].reward # Null
      <3>1. \A s \in ProposerSlots : chain.proposer[s] = v => proposals'[s] = ProposalOf(s, s, TRUE)
        BY <1>4, <2>1, OutcomeFacts
      <3>2. ASSUME v \in SyncMembers, NEW s \in EpochSlots
            PROVE  syncs'[<<v, s>>] = syncs[<<v, s>>]
        <4> DEFINE k == <<v, s>>
        <4>1. k \in SyncMembers \X EpochSlots /\ k[1] = v
          BY <3>2
        <4> HIDE DEF k
        <4>2. syncs'[k] = syncs[k]
          BY <1>5, <2>1, <4>1
        <4> QED
          BY <4>2 DEF k
      <3> QED
        BY <2>1, <3>1, <3>2, OutcomeFacts
    <2>2. \A v \in Tracked : completed'[v] # Null =>
            /\ \A s \in ProposerSlots : chain.proposer[s] = v =>
                 proposals'[s] = ProposalOf(s, s, TRUE)
            /\ v \in SyncMembers => \A s \in EpochSlots :
                 syncs'[<<v, s>>] # Null /\ syncs'[<<v, s>>].final /\ syncs'[<<v, s>>].reward # Null
      BY <1>10, <1>12, <2>1
    <2> QED
      BY <1>1, <1>7, <1>8, <2>2, CompletedOutcomesStep
  <1>14. DutiesWritten'
    BY <1>1, <1>6, RowsStep
  <1>15. ScanTypeOK'
    <2>1. ScanType' = ScanType /\ ProposerSlots' = ProposerSlots /\ SyncMembers' = SyncMembers
      BY <1>1, ChainStable DEF ScanType
    <2> QED
      BY <1>1, <2>1 DEF IInv, ScanTypeOK
  <1>16. RowsTypeOK'
    <2>1. completed' \in [Tracked -> {"archive", "live", Null}]
      BY <1>1, <1>2
    <2> QED
      BY <1>1, <1>6, <1>7, <1>8, <2>1, ChainStable
      DEF IInv, RowsTypeOK, RowsKept, ProposalsKept, SyncsKept
  <1>17. \A v \in Tracked : Done(v) => completed'[v] = completed[v]
    BY <1>1 DEF ready, Ready
  <1> QED
    BY <1>6, <1>7, <1>8, <1>9, <1>11, <1>13, <1>14, <1>15, <1>16, <1>17 DEF IInv, Kept

(***************************************************************************)
(* The specification.                                                      *)
(***************************************************************************)

\* No step changes the chain.
LEMMA ChainFixed ==
    ASSUME [Next]_vars
    PROVE  UNCHANGED <<chain, decoded>>
  <1>1. ArchiveStep \/ ScanFails => UNCHANGED <<chain, decoded>>
    <2>1. \A duties, rewarded : BeginScan(duties, rewarded) => UNCHANGED <<chain, decoded>>
      BY DEF BeginScan
    <2>2. \A v : WriteDuty(v) => UNCHANGED <<chain, decoded>>
      BY DEF WriteDuty
    <2>3. \A served : BeginSync(served) => UNCHANGED <<chain, decoded>>
      BY DEF BeginSync
    <2>4. BeginProposals \/ SyncUnavailable \/ ScanFails => UNCHANGED <<chain, decoded>>
      BY DEF BeginProposals, SyncUnavailable, ScanFails
    <2>5. WriteProposal => UNCHANGED <<chain, decoded>>
      BY DEF WriteProposal
    <2>6. \A k : WriteSync(k) => UNCHANGED <<chain, decoded>>
      BY DEF WriteSync
    <2>7. MarkComplete => UNCHANGED <<chain, decoded>>
      BY DEF MarkComplete
    <2> QED
      BY <2>1, <2>2, <2>3, <2>4, <2>5, <2>6, <2>7, Zenon DEF ArchiveStep
  <1>2. LiveStep => UNCHANGED <<chain, decoded>>
    <2>1. \A duties, written : SeedDuties(duties, written) => UNCHANGED <<chain, decoded>>
      BY DEF SeedDuties
    <2>2. \A slot, first, last, written :
            ProcessSlot(slot, first, last, written) => UNCHANGED <<chain, decoded>>
      BY DEF ProcessSlot
    <2>3. \A joined : JoinAttestationRewards(joined) => UNCHANGED <<chain, decoded>>
      BY DEF JoinAttestationRewards
    <2>4. \A slot, joined : JoinProposalReward(slot, joined) => UNCHANGED <<chain, decoded>>
      BY DEF JoinProposalReward
    <2>5. \A slot, joined : JoinSyncRewards(slot, joined) => UNCHANGED <<chain, decoded>>
      BY DEF JoinSyncRewards
    <2>6. \A slot, first : RepairDetails(slot, first) => UNCHANGED <<chain, decoded>>
      BY DEF RepairDetails
    <2>7. \A floor : Promote(floor) => UNCHANGED <<chain, decoded>>
      BY DEF Promote
    <2> QED
      BY <2>1, <2>2, <2>3, <2>4, <2>5, <2>6, <2>7, Zenon DEF LiveStep
  <1> QED
    BY <1>1, <1>2 DEF Next, vars

LEMMA ChainForever ==
    Spec => []ChainInv
  <1>1. Init => ChainInv
    BY DEF Init, ChainInv
  <1>2. ChainInv /\ [Next]_vars => ChainInv'
    BY ChainFixed, ChainKept
  <1> QED
    BY <1>1, <1>2, PTL DEF Spec

\* Rows an earlier run left.
LEMMA InitRows ==
    ASSUME ChainInv, Init
    PROVE  rows \in [Tracked -> AttestationRow \cup {Null}]
  <1>1. \A v \in Tracked : EarlierRows(v) \subseteq AttestationRow
    BY LegacyRowCases, ScannerAssumption DEF EarlierRows
  <1> QED
    BY <1>1 DEF Init

LEMMA InitKeeps ==
    ASSUME Init
    PROVE  IInv
  <1>1. ChainInv
    BY DEF Init, ChainInv
  <1>2. /\ rows \in [Tracked -> AttestationRow \cup {Null}]
        /\ completed = [v \in Tracked |-> Null] /\ scan = NoScan
        /\ proposals = [s \in ProposerSlots |-> Null]
        /\ syncs = [k \in SyncMembers \X EpochSlots |-> Null] /\ covered = {}
    BY <1>1, InitRows DEF Init
  <1>3. /\ scan.stage = "idle" /\ scan.validators = {} /\ scan \in ScanType
    BY <1>2 DEF NoScan, ScanType
  <1>4. ScanTypeOK /\ DutiesWritten /\ ProposalsWritten /\ SyncsWritten
    BY <1>3 DEF ScanTypeOK, DutiesWritten, WrittenDuties, ProposalsWritten, SyncsWritten
  <1>5. RowsTypeOK
    BY <1>2 DEF RowsTypeOK
  <1>6. ProposalsReal /\ SyncsReal /\ OutcomesCollected
    BY <1>2 DEF ProposalsReal, SyncsReal, OutcomesCollected
  <1>7. \A v \in Tracked : ~Done(v)
    BY <1>2 DEF Done
  <1> QED
    BY <1>4, <1>5, <1>6, <1>7 DEF IInv, CompletedFinal, CompletedOutcomesTrue

LEMMA NextKeeps ==
    ASSUME ChainInv, IInv, Next
    PROVE  IInv' /\ Kept
  <1>1. ASSUME NEW duties \in SUBSET Tracked, NEW rewarded \in SUBSET Tracked,
               BeginScan(duties, rewarded)
        PROVE  IInv' /\ Kept
    BY <1>1, BeginScanKeeps
  <1>2. ASSUME NEW v \in Tracked, WriteDuty(v)
        PROVE  IInv' /\ Kept
    BY <1>2, WriteDutyKeeps
  <1>3. CASE BeginProposals
    BY <1>3, BeginProposalsKeeps
  <1>4. CASE WriteProposal
    BY <1>4, WriteProposalKeeps
  <1>5. ASSUME NEW served \in SUBSET EpochSlots, BeginSync(served)
        PROVE  IInv' /\ Kept
    BY <1>5, BeginSyncKeeps
  <1>6. ASSUME NEW k \in SyncMembers \X EpochSlots, WriteSync(k)
        PROVE  IInv' /\ Kept
    BY <1>6, WriteSyncKeeps
  <1>7. CASE MarkComplete
    BY <1>7, MarkCompleteKeeps
  <1>8. CASE SyncUnavailable \/ ScanFails
    BY <1>8, ScanEnds
  <1>9. ASSUME NEW duties \in SUBSET Tracked, NEW written \in SUBSET Tracked,
               SeedDuties(duties, written)
        PROVE  IInv' /\ Kept
    BY <1>9, SeedDutiesKeeps
  <1>10. ASSUME NEW slot \in Window, NEW first \in chain.filled, NEW written \in SUBSET Tracked,
                NEW last \in {"proposal", "sync", "votes"}, ProcessSlot(slot, first, last, written)
         PROVE  IInv' /\ Kept
    BY <1>10, ProcessSlotKeeps
  <1>11. ASSUME NEW joined \in BOOLEAN, JoinAttestationRewards(joined)
         PROVE  IInv' /\ Kept
    BY <1>11, JoinAttestationRewardsKeeps
  <1>12. ASSUME NEW slot \in EpochSlots, NEW joined \in BOOLEAN, JoinProposalReward(slot, joined)
         PROVE  IInv' /\ Kept
    BY <1>12, JoinProposalRewardKeeps
  <1>13. ASSUME NEW slot \in EpochSlots, NEW joined \in BOOLEAN, JoinSyncRewards(slot, joined)
         PROVE  IInv' /\ Kept
    BY <1>13, JoinSyncRewardsKeeps
  <1>14. ASSUME NEW slot \in Window, NEW first \in chain.filled, RepairDetails(slot, first)
         PROVE  IInv' /\ Kept
    BY <1>14, RepairDetailsKeeps
  <1>15. ASSUME NEW floor \in chain.filled, Promote(floor)
         PROVE  IInv' /\ Kept
    BY <1>15, PromoteKeeps
  <1> QED
    BY <1>1, <1>2, <1>3, <1>4, <1>5, <1>6, <1>7, <1>8, <1>9, <1>10, <1>11, <1>12, <1>13, <1>14,
       <1>15 DEF Next, ArchiveStep, LiveStep

LEMMA StutterKeeps ==
    ASSUME ChainInv, IInv, UNCHANGED vars
    PROVE  IInv' /\ Kept
  <1>1. UNCHANGED <<chain, decoded, mode, rows, proposals, syncs, completed, covered, scan>>
    BY DEF vars
  <1>2. ProposalsKept /\ SyncsKept
    BY <1>1, OutcomesUnchanged
  <1>3. RowsKept
    BY <1>1, RowsUnchanged
  <1>4. OutcomesCollected' /\ covered' \subseteq Window
    BY <1>1, <1>2, OutcomesStep DEF IInv, RowsTypeOK
  <1> QED
    BY <1>1, <1>2, <1>3, <1>4, LiveKeeps

\* Whoever writes and wherever a writer stops, the columns have their types,
\* what the archive's scan has written is final, and an epoch is complete only
\* on a final, whole row with every outcome of the validator (db/scanner.rs,
\* live/finalization.rs).
THEOREM ScannerProgress ==
    Spec => []IInv
  <1>1. ChainInv /\ IInv /\ [Next]_vars => IInv'
    BY NextKeeps, StutterKeeps
  <1>2. Init => IInv
    BY InitKeeps
  <1> QED
    BY <1>1, <1>2, ChainForever, PTL DEF Spec

\* Every proposal and sync committee duty of a completed epoch is recorded,
\* with the reward the node answers (live/finalization.rs ready query,
\* scanner/sync.rs).
THEOREM ScannerOutcomesTrue ==
    Spec => []CompletedOutcomesTrue
  <1>1. IInv => CompletedOutcomesTrue
    BY DEF IInv
  <1> QED
    BY <1>1, ScannerProgress, PTL

\* No writer changes the rows of a completed epoch: the guards of the three
\* upserts and of the repair hold them (db/scanner/attestations.rs).
THEOREM ScannerCompletedFrozen ==
    Spec => CompletedRowsFrozen
  <1>1. ASSUME ChainInv, IInv, [Next]_vars
        PROVE  CompletedRowsKept
    <2>1. Kept
      BY <1>1, NextKeeps, StutterKeeps
    <2> SUFFICES ASSUME NEW v \in Tracked, Done(v)
                 PROVE  /\ completed'[v] = completed[v]
                        /\ [rows'[v] EXCEPT !.effective = Coalesce(rows[v].effective, rows'[v].effective),
                                            !.marks = [c \in Components |->
                                              Coalesce(rows[v].marks[c], rows'[v].marks[c])]] = rows'[v]
                        /\ Extends(rows'[v], rows[v])
                        /\ \A s \in ProposerSlots : chain.proposer[s] = v => proposals'[s] = proposals[s]
                        /\ \A k \in DOMAIN syncs : k[1] = v => syncs'[k] = syncs[k]
      BY DEF CompletedRowsKept
    <2>2. rows'[v] = rows[v] /\ completed'[v] = completed[v]
      BY <2>1 DEF Kept, RowsKept
    <2>3. rows[v] \in AttestationRow
      <3>1. rows[v] \in AttestationRow \cup {Null} /\ rows[v] # Null
        BY <1>1 DEF IInv, RowsTypeOK, CompletedFinal, FinalRow
      <3> QED
        BY <3>1
    <2>4. /\ [rows[v] EXCEPT !.effective = Coalesce(rows[v].effective, rows[v].effective),
                             !.marks = [c \in Components |->
                               Coalesce(rows[v].marks[c], rows[v].marks[c])]] = rows[v]
          /\ Extends(rows[v], rows[v])
      BY <2>3 DEF Coalesce, Extends, AttestationRow, Marks
    <2>5. \A s \in ProposerSlots : chain.proposer[s] = v => proposals'[s] = proposals[s]
      <3>1. \A s \in ProposerSlots : chain.proposer[s] = v => proposals[s] = ProposalOf(s, s, TRUE)
        BY <1>1, OutcomeFacts
      <3> QED
        BY <2>1, <3>1 DEF Kept, ProposalsKept
    <2>6. \A k \in DOMAIN syncs : k[1] = v => syncs'[k] = syncs[k]
      <3>1. DOMAIN syncs = SyncMembers \X EpochSlots
        BY <1>1 DEF IInv, RowsTypeOK
      <3> QED
        BY <2>1, <3>1 DEF Kept, SyncsKept
    <2> QED
      BY <2>2, <2>4, <2>5, <2>6
  <1>2. ChainInv /\ IInv /\ [Next]_vars => CompletedRowsKept
    BY <1>1
  <1> QED
    BY <1>2, ChainForever, ScannerProgress, PTL DEF Spec, CompletedRowsFrozen

(***************************************************************************)
(* Functions defined by recursion over the numbers up to a bound.          *)
(***************************************************************************)

Steps(f, n, first, step) == f[0] = first /\ \A i \in 1..n : f[i] = step[i][f[i - 1]]

\* There is a function that starts with `first` and steps as `step` says.
LEMMA RecursionExists ==
    ASSUME NEW N \in Nat, NEW S, NEW first \in S, NEW step \in [1..N -> [S -> S]]
    PROVE  \E f \in [0..N -> S] : Steps(f, N, first, step)
  <1> DEFINE Runs(n, f) == f[0] = first /\ \A i \in 1..n : f[i] = step[i][f[i - 1]]
             Short == {n \in 0..N : ~ \E f \in [0..n -> S] : Runs(n, f)}
  <1>1. 0 \notin Short
    <2> DEFINE f == [i \in 0..0 |-> first]
    <2>1. f \in [0..0 -> S] /\ Runs(0, f)
      OBVIOUS
    <2> QED
      BY <2>1
  <1>2. ASSUME NEW n \in 0..N, n + 1 \in 0..N, n \notin Short
        PROVE  n + 1 \notin Short
    <2>1. PICK f \in [0..n -> S] : Runs(n, f)
      BY <1>2
    <2> DEFINE g == [i \in 0..(n + 1) |-> IF i <= n THEN f[i] ELSE step[n + 1][f[n]]]
    <2>2. g \in [0..(n + 1) -> S]
      <3>1. step[n + 1] \in [S -> S] /\ f[n] \in S
        BY <1>2, <2>1
      <3> QED
        BY <2>1, <3>1
    <2>3. g[0] = first
      BY <2>1
    <2>4. ASSUME NEW i \in 1..(n + 1)
          PROVE  g[i] = step[i][g[i - 1]]
      <3>1. CASE i <= n
        BY <2>1, <3>1
      <3>2. CASE i = n + 1
        BY <2>1, <3>2
      <3> QED
        BY <3>1, <3>2
    <2> QED
      BY <1>2, <2>2, <2>3, <2>4
  <1>3. Short = {}
    <2> SUFFICES ASSUME Short # {} PROVE FALSE
      OBVIOUS
    <2>1. Short \subseteq Nat
      OBVIOUS
    <2> HIDE DEF Short
    <2>2. PICK n \in Short : \A m \in Short : n <= m
      BY <2>1, LeastNat
    <2>3. n \in 0..N /\ n # 0
      BY <1>1, <2>2 DEF Short
    <2>4. n - 1 \in 0..N /\ (n - 1) + 1 = n /\ n - 1 \notin Short
      BY <2>1, <2>2, <2>3
    <2> QED
      BY <1>2, <2>2, <2>3, <2>4
  <1>4. \E f \in [0..N -> S] : Runs(N, f)
    <2>1. N \in 0..N
      OBVIOUS
    <2> HIDE DEF Runs
    <2> QED
      BY <1>3, <2>1
  <1> QED
    BY <1>4 DEF Steps

(***************************************************************************)
(* Bit fields.                                                             *)
(***************************************************************************)

\* Division by the bits of a byte.
LEMMA ByteDivision ==
    ASSUME NEW n \in Nat, NEW q, q = n \div BitsPerByte, NEW r, r = n % BitsPerByte
    PROVE  q \in Nat /\ r \in 0..(BitsPerByte - 1) /\ n = BitsPerByte * q + r
  <1>1. q \in Nat /\ r \in 0..(BitsPerByte - 1)
    BY BitsPerByteAssumption
  <1>2. n = BitsPerByte * q + r
    BY <1>1, BitsPerByteAssumption, Z3
  <1> QED
    BY <1>1, <1>2

LEMMA ByteProduct ==
    ASSUME NEW a \in Nat, NEW b \in Nat, a < b
    PROVE  a * BitsPerByte + BitsPerByte <= b * BitsPerByte
  BY BitsPerByteAssumption

\* The bytes of a field of `len` bits.
LEMMA ByteCount ==
    ASSUME NEW len \in Nat, NEW n, n = (len + BitsPerByte - 1) \div BitsPerByte
    PROVE  n \in Nat /\ len <= n * BitsPerByte /\ n * BitsPerByte < len + BitsPerByte
  <1> DEFINE m == len + BitsPerByte - 1
             r == m % BitsPerByte
  <1>1. m \in Nat
    BY BitsPerByteAssumption
  <1>2. n \in Nat /\ r \in 0..(BitsPerByte - 1) /\ m = BitsPerByte * n + r
    <2> HIDE DEF m
    <2> QED
      BY <1>1, ByteDivision DEF m
  <1> HIDE DEF r
  <1> QED
    BY <1>2, BitsPerByteAssumption

\* Where a bit of `n` bytes is.
LEMMA BitPlace ==
    ASSUME NEW n \in Nat, NEW p \in 1..(n * BitsPerByte),
           NEW q, q = (p - 1) \div BitsPerByte, NEW r, r = (p - 1) % BitsPerByte
    PROVE  1 + q \in 1..n /\ q \in Nat /\ r \in 0..(BitsPerByte - 1)
           /\ q * BitsPerByte + 1 + r = p
  <1>0. n * BitsPerByte \in Nat
    BY BitsPerByteAssumption
  <1>1. q \in Nat /\ r \in 0..(BitsPerByte - 1) /\ p - 1 = BitsPerByte * q + r
    <2>1. p - 1 \in Nat
      BY <1>0
    <2> QED
      BY <2>1, ByteDivision
  <1>2. q < n
    <2>1. n <= q => n * BitsPerByte <= q * BitsPerByte
      BY <1>1, BitsPerByteAssumption
    <2> QED
      BY <1>0, <1>1, <2>1, BitsPerByteAssumption
  <1>3. q * BitsPerByte + 1 + r = p
    BY <1>0, <1>1, BitsPerByteAssumption
  <1>4. 1 + q \in 1..n
    BY <1>1, <1>2
  <1> QED
    BY <1>1, <1>3, <1>4

\* A bit field decodes to its bits, with zeros up to the end of the last byte.
LEMMA BitvectorDecodes ==
    ASSUME NEW bits \in Seq(BOOLEAN), NEW n \in Nat,
           n = (Len(bits) + BitsPerByte - 1) \div BitsPerByte
    PROVE  LET out == DecodeBitvector(EncodeBitvector(bits))
           IN  /\ Len(EncodeBitvector(bits)) = n /\ Len(out) = n * BitsPerByte
               /\ out \in Seq(BOOLEAN)
               /\ \A p \in 1..(n * BitsPerByte) : out[p] <=> p <= Len(bits) /\ bits[p]
  <1> DEFINE bytes == EncodeBitvector(bits)
             out   == DecodeBitvector(bytes)
  <1>0. n * BitsPerByte \in Nat
    BY BitsPerByteAssumption
  <1>1. bytes = [b \in 1..n |-> ByteAt(bits, (b - 1) * BitsPerByte + 1)]
    BY DEF EncodeBitvector
  <1>2. Len(bytes) = n
    BY <1>1
  <1> HIDE DEF bytes
  <1>3. out = [p \in 1..(n * BitsPerByte) |->
                 bytes[1 + (p - 1) \div BitsPerByte][(p - 1) % BitsPerByte]]
    BY <1>2 DEF DecodeBitvector
  <1>4. Len(out) = n * BitsPerByte
    BY <1>0, <1>3
  <1>5. ASSUME NEW p \in 1..(n * BitsPerByte)
        PROVE  out[p] = (p <= Len(bits) /\ bits[p])
    <2> DEFINE q == (p - 1) \div BitsPerByte
               r == (p - 1) % BitsPerByte
    <2>1. out[p] = bytes[1 + q][r]
      BY <1>3
    <2> HIDE DEF q, r, out
    <2>2. 1 + q \in 1..n /\ r \in 0..(BitsPerByte - 1) /\ q * BitsPerByte + 1 + r = p
          /\ q \in Nat
      BY BitPlace DEF q, r
    <2>3. q \in Int
      BY <2>2
    <2>4. bytes[1 + q] = ByteAt(bits, q * BitsPerByte + 1)
      <3>1. bytes[1 + q] = ByteAt(bits, ((1 + q) - 1) * BitsPerByte + 1)
        BY <1>1, <2>2
      <3>2. (1 + q) - 1 = q
        BY <2>3
      <3> QED
        BY <3>1, <3>2
    <2>5. bytes[1 + q][r] = (q * BitsPerByte + 1 + r <= Len(bits) /\ bits[q * BitsPerByte + 1 + r])
      BY <2>2, <2>4 DEF ByteAt
    <2> QED
      BY <2>1, <2>2, <2>5
  <1>6. \A p \in 1..(n * BitsPerByte) : out[p] \in BOOLEAN
    BY <1>5
  <1>7. out \in Seq(BOOLEAN)
    <2>1. out = [p \in 1..(n * BitsPerByte) |-> out[p]]
      BY <1>3
    <2> HIDE DEF out
    <2>2. [p \in 1..(n * BitsPerByte) |-> out[p]] \in Seq(BOOLEAN)
      BY <1>0, <1>6
    <2> QED
      BY <2>1, <2>2
  <1> QED
    BY <1>2, <1>4, <1>5, <1>7 DEF bytes

\* A bit list decodes to its bits: the sentinel is the bit after the last one.
LEMMA BitlistDecodes ==
    ASSUME NEW bits \in Seq(BOOLEAN)
    PROVE  /\ BitlistWellFormed(EncodeBitlist(bits))
           /\ DecodeBitlist(EncodeBitlist(bits)) = bits
  <1> DEFINE len   == Len(bits)
             more  == Append(bits, TRUE)
             n     == (Len(more) + BitsPerByte - 1) \div BitsPerByte
             bytes == EncodeBitlist(bits)
             last  == bytes[n]
             whole == len \div BitsPerByte
             top   == len % BitsPerByte
  <1>1. more \in Seq(BOOLEAN) /\ Len(more) = len + 1 /\ len \in Nat /\ more[len + 1] = TRUE
        /\ \A p \in 1..len : more[p] = bits[p]
    OBVIOUS
  <1> HIDE DEF len, more
  <1> HIDE DEF n, whole, top
  <1>2. n \in Nat /\ len + 1 <= n * BitsPerByte /\ n * BitsPerByte < len + 1 + BitsPerByte
    <2>1. len + 1 \in Nat
      BY <1>1
    <2>2. n = (len + 1 + BitsPerByte - 1) \div BitsPerByte
      BY <1>1 DEF n
    <2> QED
      BY <2>1, <2>2, ByteCount
  <1>3. top \in 0..(BitsPerByte - 1) /\ whole \in Nat /\ len = BitsPerByte * whole + top
    <2>1. whole = len \div BitsPerByte /\ top = len % BitsPerByte
      BY DEF whole, top
    <2> QED
      BY <1>1, <2>1, ByteDivision
  <1>4. n # 0
    <2>1. n = 0 => n * BitsPerByte = 0
      BY BitsPerByteAssumption
    <2> QED
      BY <1>1, <1>2, <2>1
  <1>5. (n - 1) * BitsPerByte + top = len
    <2> DEFINE q == whole
    <2>1. q \in Nat /\ len = BitsPerByte * q + top
      BY <1>3
    <2> HIDE DEF q
    <2>2. ~ (n <= q)
      <3> SUFFICES ASSUME n <= q PROVE FALSE
        OBVIOUS
      <3>1. n * BitsPerByte <= q * BitsPerByte
        BY <1>2, <2>1, BitsPerByteAssumption
      <3> QED
        BY <1>1, <1>2, <1>3, <2>1, <3>1, BitsPerByteAssumption
    <2>3. ~ (q + 1 < n)
      <3> SUFFICES ASSUME q + 1 < n PROVE FALSE
        OBVIOUS
      <3>1. (q + 1) * BitsPerByte + BitsPerByte <= n * BitsPerByte
        BY <1>2, <2>1, ByteProduct
      <3> QED
        BY <1>1, <1>2, <1>3, <2>1, <3>1, BitsPerByteAssumption
    <2>4. n - 1 = q
      BY <1>2, <2>1, <2>2, <2>3
    <2>5. q * BitsPerByte = BitsPerByte * q
      BY <2>1, BitsPerByteAssumption
    <2> QED
      BY <2>1, <2>4, <2>5
  <1>6. Len(bytes) = n /\ bytes # << >>
    <2>1. Len(bytes) = n
      BY <1>1, <1>2, BitvectorDecodes DEF EncodeBitlist, n, more
    <2> QED
      BY <1>4, <2>1
  <1>7. last = ByteAt(more, (n - 1) * BitsPerByte + 1)
    <2>1. bytes = [b \in 1..n |-> ByteAt(more, (b - 1) * BitsPerByte + 1)]
      BY DEF EncodeBitlist, EncodeBitvector, more, n
    <2> HIDE DEF bytes
    <2> QED
      BY <1>2, <1>4, <2>1
  <1>8. \A i \in 0..(BitsPerByte - 1) :
          last[i] = ((n - 1) * BitsPerByte + 1 + i <= len + 1 /\ more[(n - 1) * BitsPerByte + 1 + i])
    BY <1>1, <1>7 DEF ByteAt
  <1> HIDE DEF last
  <1>9. last[top] /\ \A j \in (top + 1)..(BitsPerByte - 1) : ~last[j]
    <2>1. (n - 1) * BitsPerByte + 1 + top = len + 1
      BY <1>1, <1>2, <1>3, <1>5, BitsPerByteAssumption
    <2>2. last[top]
      BY <1>1, <1>3, <1>8, <2>1
    <2>3. ASSUME NEW j \in (top + 1)..(BitsPerByte - 1)
          PROVE  ~last[j]
      <3>1. j \in 0..(BitsPerByte - 1)
        BY <1>3
      <3>2. ~ ((n - 1) * BitsPerByte + 1 + j <= len + 1)
        BY <1>1, <1>2, <1>3, <2>1, BitsPerByteAssumption
      <3> QED
        BY <1>8, <3>1, <3>2
    <2> QED
      BY <2>2, <2>3
  <1>10. SentinelPosition(last) = top
    <2> DEFINE S(i) == last[i] /\ \A j \in (i + 1)..(BitsPerByte - 1) : ~last[j]
    <2>1. ASSUME NEW i \in 0..(BitsPerByte - 1), S(i)
          PROVE  i = top
      BY <1>3, <1>9, <2>1
    <2>2. S(top)
      BY <1>9
    <2> QED
      BY <1>3, <2>1, <2>2 DEF SentinelPosition
  <1>11. BitlistWellFormed(bytes)
    BY <1>3, <1>6, <1>9 DEF BitlistWellFormed, last
  <1> DEFINE out == DecodeBitvector(bytes)
  <1>12. /\ Len(out) = n * BitsPerByte /\ out \in Seq(BOOLEAN)
         /\ \A p \in 1..(n * BitsPerByte) : out[p] <=> p <= len + 1 /\ more[p]
    <2>1. bytes = EncodeBitvector(more)
      BY DEF EncodeBitlist, more
    <2>2. n = (Len(more) + BitsPerByte - 1) \div BitsPerByte
      BY DEF n
    <2> HIDE DEF bytes
    <2> QED
      BY <1>1, <1>2, <2>1, <2>2, BitvectorDecodes
  <1>13. DecodeBitlist(bytes) = SubSeq(out, 1, len)
    <2>1. DecodeBitlist(bytes) = SubSeq(out, 1, (n - 1) * BitsPerByte + SentinelPosition(last))
      BY <1>6 DEF DecodeBitlist, last
    <2> QED
      BY <1>5, <1>10, <2>1
  <1> HIDE DEF out, bytes
  <1>14. SubSeq(out, 1, len) = bits
    <2>1. n * BitsPerByte \in Nat
      BY <1>2, BitsPerByteAssumption
    <2>2. \A p \in 1..len : out[p] = bits[p]
      <3> TAKE p \in 1..len
      <3>1. p \in 1..(n * BitsPerByte) /\ p <= len + 1
        BY <1>1, <1>2, <2>1
      <3>2. out[p] \in BOOLEAN /\ bits[p] \in BOOLEAN
        BY <1>1, <1>12, <2>1, <3>1 DEF len
      <3>3. out[p] <=> more[p]
        BY <1>12, <3>1
      <3>4. more[p] = bits[p]
        BY <1>1
      <3> QED
        BY <3>2, <3>3, <3>4
    <2>3. SubSeq(out, 1, len) = [p \in 1..len |-> out[p]]
      BY <1>1, <1>2, <1>12, <2>1
    <2>4. bits = [p \in 1..len |-> bits[p]]
      BY DEF len
    <2> QED
      BY <2>2, <2>3, <2>4
  <1> QED
    BY <1>11, <1>13, <1>14 DEF bytes

(***************************************************************************)
(* Committees.                                                             *)
(***************************************************************************)

\* Each selected committee shifts the next one by its size.
LEMMA OffsetSteps ==
    ASSUME NEW att,
           \A i \in SelectedCommittees(att) \cap (0..(MaxCommitteesPerSlot - 1)) :
             Len(Committees[<<att.slot, i>>]) \in Nat
    PROVE  /\ \A i \in 0..MaxCommitteesPerSlot : BitOffset(att, Committees, i) \in Nat
           /\ BitOffset(att, Committees, 0) = 0
           /\ \A i \in 1..MaxCommitteesPerSlot :
                BitOffset(att, Committees, i)
                  = BitOffset(att, Committees, i - 1)
                    + IF i - 1 \in SelectedCommittees(att)
                      THEN Len(Committees[<<att.slot, i - 1>>]) ELSE 0
  <1> DEFINE selected == SelectedCommittees(att)
             size(i) == IF i - 1 \in selected THEN Len(Committees[<<att.slot, i - 1>>]) ELSE 0
             IsOffset(f) == f = [i \in 0..MaxCommitteesPerSlot |->
                                   IF i = 0 THEN 0 ELSE f[i - 1] + size(i)]
             offset == CHOOSE f : IsOffset(f)
             step == [i \in 1..MaxCommitteesPerSlot |-> [x \in Nat |-> x + size(i)]]
  <1>0. MaxCommitteesPerSlot \in Nat
    BY MaxCommitteesAssumption
  <1> HIDE DEF selected
  <1>1. ASSUME NEW i \in 1..MaxCommitteesPerSlot
        PROVE  size(i) \in Nat
    <2>1. i - 1 \in 0..(MaxCommitteesPerSlot - 1)
      BY <1>0
    <2> QED
      BY <2>1 DEF selected
  <1> HIDE DEF size
  <1>2. step \in [1..MaxCommitteesPerSlot -> [Nat -> Nat]]
    BY <1>1
  <1>3. PICK f \in [0..MaxCommitteesPerSlot -> Nat] : Steps(f, MaxCommitteesPerSlot, 0, step)
    <2> HIDE DEF step
    <2>1. 0 \in Nat
      OBVIOUS
    <2> QED
      BY <1>0, <1>2, <2>1, RecursionExists
  <1>4. \A i \in 1..MaxCommitteesPerSlot : f[i] = f[i - 1] + size(i)
    <2> TAKE i \in 1..MaxCommitteesPerSlot
    <2>1. i - 1 \in 0..MaxCommitteesPerSlot
      BY <1>0
    <2> QED
      BY <1>3, <2>1 DEF Steps
  <1>5. IsOffset(f)
    <2>1. \A i \in 0..MaxCommitteesPerSlot : i # 0 => i \in 1..MaxCommitteesPerSlot
      BY <1>0
    <2> QED
      BY <1>3, <1>4, <2>1 DEF Steps
  <1>6. IsOffset(offset)
    BY <1>5
  <1>7. \A i : BitOffset(att, Committees, i) = offset[i]
    BY DEF BitOffset, size, selected
  <1> HIDE DEF offset
  <1>8. offset[0] = 0 /\ \A i \in 1..MaxCommitteesPerSlot : offset[i] = offset[i - 1] + size(i)
    BY <1>0, <1>6
  <1>9. \A i \in 0..MaxCommitteesPerSlot : offset[i] \in Nat
    <2> DEFINE Bad == {i \in 0..MaxCommitteesPerSlot : offset[i] \notin Nat}
    <2> SUFFICES ASSUME Bad # {} PROVE FALSE
      OBVIOUS
    <2>1. Bad \subseteq Nat
      OBVIOUS
    <2> HIDE DEF Bad
    <2>2. PICK i \in Bad : \A j \in Bad : i <= j
      BY <2>1, LeastNat
    <2>3. i \in 1..MaxCommitteesPerSlot /\ i - 1 \in 0..MaxCommitteesPerSlot /\ i - 1 \notin Bad
      BY <1>0, <1>8, <2>1, <2>2 DEF Bad
    <2>4. offset[i - 1] \in Nat /\ offset[i] = offset[i - 1] + size(i) /\ size(i) \in Nat
      BY <1>1, <1>8, <2>3 DEF Bad
    <2> QED
      BY <2>2, <2>4 DEF Bad
  <1> QED
    BY <1>7, <1>8, <1>9 DEF size, selected

\* The signatures of a committee follow those of the committees before it.
LEMMA SignatureSteps ==
    ASSUME NEW vote, IsVote(vote)
    PROVE  /\ Signatures(vote, 0) = << >>
           /\ \A i \in 1..MaxCommitteesPerSlot :
                Signatures(vote, i)
                  = Signatures(vote, i - 1)
                    \o IF i - 1 \in vote.committees
                       THEN [p \in DOMAIN Committees[<<vote.slot, i - 1>>] |->
                               Committees[<<vote.slot, i - 1>>][p] \in vote.voters]
                       ELSE << >>
  <1> DEFINE signed(committee) == [p \in DOMAIN committee |-> committee[p] \in vote.voters]
             next(i) == IF i - 1 \in vote.committees
                        THEN signed(Committees[<<vote.slot, i - 1>>]) ELSE << >>
             IsUpTo(f) == f = [i \in 0..MaxCommitteesPerSlot |->
                                 IF i = 0 THEN << >> ELSE f[i - 1] \o next(i)]
             upTo == CHOOSE f : IsUpTo(f)
             step == [i \in 1..MaxCommitteesPerSlot |-> [x \in Seq(BOOLEAN) |-> x \o next(i)]]
  <1>0. MaxCommitteesPerSlot \in Nat
    BY MaxCommitteesAssumption
  <1>1. ASSUME NEW i \in 1..MaxCommitteesPerSlot
        PROVE  next(i) \in Seq(BOOLEAN)
    <2>1. CASE i - 1 \in vote.committees
      <3> DEFINE committee == Committees[<<vote.slot, i - 1>>]
      <3>1. committee \in Seq(Range(committee))
        BY <2>1, ScannerAssumption DEF IsVote
      <3> HIDE DEF committee
      <3>2. signed(committee) \in Seq(BOOLEAN)
        <4> DEFINE bits == [p \in DOMAIN committee |-> committee[p] \in vote.voters]
        <4>1. Len(committee) \in Nat /\ DOMAIN committee = 1..Len(committee)
          BY <3>1
        <4>2. bits \in [1..Len(committee) -> BOOLEAN]
          BY <4>1
        <4> HIDE DEF bits
        <4>3. bits \in Seq(BOOLEAN)
          BY <4>1, <4>2
        <4> QED
          BY <4>3 DEF bits
      <3> QED
        BY <2>1, <3>2 DEF committee
    <2>2. CASE i - 1 \notin vote.committees
      BY <2>2
    <2> QED
      BY <2>1, <2>2
  <1> HIDE DEF next
  <1>2. step \in [1..MaxCommitteesPerSlot -> [Seq(BOOLEAN) -> Seq(BOOLEAN)]]
    BY <1>1
  <1>3. PICK f \in [0..MaxCommitteesPerSlot -> Seq(BOOLEAN)] : Steps(f, MaxCommitteesPerSlot, << >>, step)
    <2> HIDE DEF step
    <2>1. << >> \in Seq(BOOLEAN)
      OBVIOUS
    <2> QED
      BY <1>0, <1>2, <2>1, RecursionExists
  <1>4. \A i \in 1..MaxCommitteesPerSlot : f[i] = f[i - 1] \o next(i)
    <2> TAKE i \in 1..MaxCommitteesPerSlot
    <2>1. i - 1 \in 0..MaxCommitteesPerSlot
      BY <1>0
    <2> QED
      BY <1>3, <2>1 DEF Steps
  <1>5. IsUpTo(f)
    <2>1. \A i \in 0..MaxCommitteesPerSlot : i # 0 => i \in 1..MaxCommitteesPerSlot
      BY <1>0
    <2> QED
      BY <1>3, <1>4, <2>1 DEF Steps
  <1>6. IsUpTo(upTo)
    BY <1>5
  <1>7. \A i : Signatures(vote, i) = upTo[i]
    BY DEF Signatures, next
  <1> HIDE DEF upTo
  <1>8. upTo[0] = << >>
    BY <1>0, <1>6
  <1>9. \A i \in 1..MaxCommitteesPerSlot : upTo[i] = upTo[i - 1] \o next(i)
    <2> TAKE i \in 1..MaxCommitteesPerSlot
    <2>1. i \in 0..MaxCommitteesPerSlot /\ i # 0
      BY <1>0
    <2> QED
      BY <1>6, <2>1
  <1> QED
    BY <1>7, <1>8, <1>9 DEF next

\* The committees named by an aggregate are those it was made of.
LEMMA SelectedIs ==
    ASSUME NEW vote, IsVote(vote)
    PROVE  /\ SelectedCommittees(AttestationOf(vote)) = vote.committees
           /\ vote.electra =>
                Len(DecodeBitvector(AttestationOf(vote).committeeBits)) = MaxCommitteesPerSlot
  <1> DEFINE att  == AttestationOf(vote)
             bits == [i \in 1..MaxCommitteesPerSlot |-> (i - 1) \in vote.committees]
             n    == (MaxCommitteesPerSlot + BitsPerByte - 1) \div BitsPerByte
             out  == DecodeBitvector(EncodeBitvector(bits))
  <1>0. MaxCommitteesPerSlot \in Nat
    BY MaxCommitteesAssumption
  <1>1. \A i \in vote.committees : i \in 0..(MaxCommitteesPerSlot - 1)
    <2> TAKE i \in vote.committees
    <2>1. <<vote.slot, i>> \in DOMAIN Committees
      BY DEF IsVote
    <2>2. <<vote.slot, i>> \in EpochSlots \X (0..(MaxCommitteesPerSlot - 1))
      BY <2>1, ScannerAssumption
    <2> QED
      BY <2>2
  <1>2. att.electra = vote.electra /\ att.committeeBits = EncodeBitvector(bits)
        /\ att.index = IF vote.electra THEN 0 ELSE Min(vote.committees)
    BY DEF AttestationOf
  <1> HIDE DEF att
  <1>3. /\ bits \in Seq(BOOLEAN) /\ Len(bits) = MaxCommitteesPerSlot
        /\ \A p \in 1..MaxCommitteesPerSlot : bits[p] = ((p - 1) \in vote.committees)
    <2>1. bits \in [1..MaxCommitteesPerSlot -> BOOLEAN]
      OBVIOUS
    <2>2. \A p \in 1..MaxCommitteesPerSlot : bits[p] = ((p - 1) \in vote.committees)
      BY Zenon
    <2> HIDE DEF bits
    <2>3. bits \in Seq(BOOLEAN) /\ Len(bits) = MaxCommitteesPerSlot
      BY <1>0, <2>1
    <2> QED
      BY <2>2, <2>3
  <1>4. n \in Nat /\ n * BitsPerByte = MaxCommitteesPerSlot
    <2> HIDE DEF n
    <2>1. n \in Nat /\ MaxCommitteesPerSlot <= n * BitsPerByte
          /\ n * BitsPerByte < MaxCommitteesPerSlot + BitsPerByte
      BY <1>0, ByteCount DEF n
    <2> DEFINE q == MaxCommitteesPerSlot \div BitsPerByte
               r == MaxCommitteesPerSlot % BitsPerByte
    <2>2. q \in Nat /\ r = 0 /\ MaxCommitteesPerSlot = BitsPerByte * q + r
      <3>1. q = MaxCommitteesPerSlot \div BitsPerByte /\ r = MaxCommitteesPerSlot % BitsPerByte
        OBVIOUS
      <3>2. r = 0
        BY ScannerAssumption
      <3> HIDE DEF q, r
      <3> QED
        BY <1>0, <3>1, <3>2, ByteDivision
    <2> HIDE DEF q, r
    <2>3. ~ (q < n)
      <3> SUFFICES ASSUME q < n PROVE FALSE
        OBVIOUS
      <3>1. q * BitsPerByte + BitsPerByte <= n * BitsPerByte
        BY <2>1, <2>2, ByteProduct
      <3> QED
        BY <1>0, <2>1, <2>2, <3>1, BitsPerByteAssumption
    <2>4. n * BitsPerByte <= q * BitsPerByte
      BY <2>1, <2>2, <2>3, BitsPerByteAssumption
    <2> QED
      BY <1>0, <2>1, <2>2, <2>4, BitsPerByteAssumption
  <1>5. /\ Len(out) = MaxCommitteesPerSlot
        /\ \A p \in 1..MaxCommitteesPerSlot : out[p] <=> p <= Len(bits) /\ bits[p]
    <2>1. n = (Len(bits) + BitsPerByte - 1) \div BitsPerByte
      BY <1>3
    <2> HIDE DEF n, bits
    <2> QED
      BY <1>3, <1>4, <2>1, BitvectorDecodes
  <1>6. CASE vote.electra
    <2>1. SelectedCommittees(att) = {i \in 0..(Len(out) - 1) : out[i + 1]}
      BY <1>2, <1>6 DEF SelectedCommittees
    <2> HIDE DEF out
    <2>2. ASSUME NEW i \in 0..(MaxCommitteesPerSlot - 1)
          PROVE  out[i + 1] <=> i \in vote.committees
      <3>1. i + 1 \in 1..MaxCommitteesPerSlot /\ (i + 1) - 1 = i
        BY <1>0
      <3> QED
        BY <1>3, <1>5, <3>1
    <2> QED
      BY <1>1, <1>2, <1>5, <2>1, <2>2 DEF att, out
  <1>7. CASE ~vote.electra
    <2>1. PICK i \in vote.committees : TRUE
      BY DEF IsVote
    <2>2. vote.committees = {i}
      BY <1>7, <2>1 DEF IsVote
    <2>3. Min({i}) = i
      BY <1>1, <2>1 DEF Min
    <2> QED
      BY <1>2, <1>7, <2>2, <2>3 DEF SelectedCommittees, att
  <1> QED
    BY <1>6, <1>7 DEF IsVote

\* The bits of one sequence after those of another.
IsJoin(st, s, t) ==
    /\ st \in Seq(BOOLEAN) /\ Len(st) = Len(s) + Len(t)
    /\ \A p \in 1..Len(s) : st[p] = s[p]
    /\ \A p \in 1..Len(t) : st[Len(s) + p] = t[p]

LEMMA Appended ==
    ASSUME NEW s \in Seq(BOOLEAN), NEW t \in Seq(BOOLEAN)
    PROVE  IsJoin(s \o t, s, t)
  BY DEF IsJoin

\* The bit at the place of a member says whether it signed.
Placed(vote, n) ==
    /\ Signatures(vote, n) \in Seq(BOOLEAN)
    /\ Len(Signatures(vote, n)) = BitOffset(AttestationOf(vote), Committees, n)
    /\ \A i \in vote.committees : i < n =>
         \A p \in DOMAIN Committees[<<vote.slot, i>>] :
           /\ BitOffset(AttestationOf(vote), Committees, i) + p \in 1..Len(Signatures(vote, n))
           /\ Signatures(vote, n)[BitOffset(AttestationOf(vote), Committees, i) + p]
                <=> Committees[<<vote.slot, i>>][p] \in vote.voters

LEMMA SignaturesPlaced ==
    ASSUME NEW vote, IsVote(vote)
    PROVE  Placed(vote, MaxCommitteesPerSlot)
  <1> DEFINE att       == AttestationOf(vote)
             offset(i) == BitOffset(att, Committees, i)
             member(i) == Committees[<<vote.slot, i>>]
             sigs(i)   == Signatures(vote, i)
             signed(i) == [p \in DOMAIN member(i) |-> member(i)[p] \in vote.voters]
             Bad       == {n \in 0..MaxCommitteesPerSlot : ~Placed(vote, n)}
  <1>0. MaxCommitteesPerSlot \in Nat
    BY MaxCommitteesAssumption
  <1>1. ASSUME NEW i \in vote.committees
        PROVE  /\ i \in 0..(MaxCommitteesPerSlot - 1)
               /\ Len(member(i)) \in Nat /\ DOMAIN member(i) = 1..Len(member(i))
               /\ signed(i) \in Seq(BOOLEAN) /\ Len(signed(i)) = Len(member(i))
               /\ \A p \in DOMAIN member(i) : signed(i)[p] = (member(i)[p] \in vote.voters)
    <2>1. <<vote.slot, i>> \in DOMAIN Committees
      BY DEF IsVote
    <2>2. <<vote.slot, i>> \in EpochSlots \X (0..(MaxCommitteesPerSlot - 1))
      BY <2>1, ScannerAssumption
    <2>3. member(i) \in Seq(Range(member(i)))
      BY <2>1, ScannerAssumption
    <2> HIDE DEF member
    <2>4. Len(member(i)) \in Nat /\ DOMAIN member(i) = 1..Len(member(i))
      BY <2>3
    <2>5. signed(i) \in [1..Len(member(i)) -> BOOLEAN]
      BY <2>4
    <2>6. \A p \in DOMAIN member(i) : signed(i)[p] = (member(i)[p] \in vote.voters)
      OBVIOUS
    <2> HIDE DEF signed
    <2>7. signed(i) \in Seq(BOOLEAN) /\ Len(signed(i)) = Len(member(i))
      BY <2>4, <2>5
    <2> QED
      BY <2>2, <2>4, <2>6, <2>7
  <1>2. SelectedCommittees(att) = vote.committees /\ att.slot = vote.slot
    <2>1. att.slot = vote.slot
      BY DEF AttestationOf
    <2> QED
      BY <2>1, SelectedIs
  <1>3. /\ \A i \in 0..MaxCommitteesPerSlot : offset(i) \in Nat
        /\ offset(0) = 0
        /\ \A i \in 1..MaxCommitteesPerSlot :
             offset(i) = offset(i - 1) + IF i - 1 \in vote.committees THEN Len(member(i - 1)) ELSE 0
    <2>1. \A i \in SelectedCommittees(att) \cap (0..(MaxCommitteesPerSlot - 1)) :
            Len(Committees[<<att.slot, i>>]) \in Nat
      BY <1>1, <1>2
    <2> HIDE DEF att
    <2> QED
      BY <1>2, <2>1, OffsetSteps
  <1>4. /\ sigs(0) = << >>
        /\ \A i \in 1..MaxCommitteesPerSlot :
             sigs(i) = sigs(i - 1) \o IF i - 1 \in vote.committees THEN signed(i - 1) ELSE << >>
    BY SignatureSteps
  <1> HIDE DEF member, signed
  <1>5. Placed(vote, 0)
    <2>1. sigs(0) \in Seq(BOOLEAN) /\ Len(sigs(0)) = 0
      <3>1. sigs(0) = << >>
        BY <1>4
      <3> HIDE DEF sigs
      <3>2. << >> \in Seq(BOOLEAN) /\ Len(<< >>) = 0
        OBVIOUS
      <3> QED
        BY <3>1, <3>2
    <2>2. \A i \in vote.committees : ~ (i < 0)
      BY <1>1
    <2> QED
      BY <1>3, <2>1, <2>2 DEF Placed
  <1>6. ASSUME NEW n \in 1..MaxCommitteesPerSlot, Placed(vote, n - 1)
        PROVE  Placed(vote, n)
    <2> DEFINE k == n - 1
    <2>0. k \in 0..MaxCommitteesPerSlot /\ n \in 0..MaxCommitteesPerSlot /\ n = k + 1
      BY <1>0
    <2>1. /\ sigs(k) \in Seq(BOOLEAN) /\ Len(sigs(k)) = offset(k)
          /\ \A i \in vote.committees : i < k =>
               \A p \in DOMAIN member(i) :
                 /\ offset(i) + p \in 1..Len(sigs(k))
                 /\ sigs(k)[offset(i) + p] <=> member(i)[p] \in vote.voters
      BY <1>6 DEF Placed, member
    <2>2. /\ offset(n) = offset(k) + IF k \in vote.committees THEN Len(member(k)) ELSE 0
          /\ sigs(n) = sigs(k) \o IF k \in vote.committees THEN signed(k) ELSE << >>
          /\ offset(k) \in Nat
      BY <1>3, <1>4, <2>0
    <2> HIDE DEF k, offset, sigs
    <2>3. CASE k \in vote.committees
      <3>1. /\ Len(member(k)) \in Nat /\ DOMAIN member(k) = 1..Len(member(k))
            /\ signed(k) \in Seq(BOOLEAN) /\ Len(signed(k)) = Len(member(k))
            /\ \A p \in DOMAIN member(k) : signed(k)[p] = (member(k)[p] \in vote.voters)
        BY <1>1, <2>3
      <3>2. sigs(n) = sigs(k) \o signed(k) /\ offset(n) = offset(k) + Len(member(k))
        BY <2>2, <2>3
      <3>3. /\ sigs(n) \in Seq(BOOLEAN) /\ Len(sigs(n)) = offset(n)
            /\ \A p \in 1..Len(sigs(k)) : sigs(n)[p] = sigs(k)[p]
            /\ \A p \in 1..Len(signed(k)) : sigs(n)[Len(sigs(k)) + p] = signed(k)[p]
        <4>1. sigs(k) \in Seq(BOOLEAN) /\ Len(sigs(k)) = offset(k) /\ Len(signed(k)) = Len(member(k))
          BY <2>1, <3>1
        <4>2. /\ sigs(n) \in Seq(BOOLEAN) /\ Len(sigs(n)) = Len(sigs(k)) + Len(signed(k))
              /\ \A p \in 1..Len(sigs(k)) : sigs(n)[p] = sigs(k)[p]
              /\ \A p \in 1..Len(signed(k)) : sigs(n)[Len(sigs(k)) + p] = signed(k)[p]
          <5>1. signed(k) \in Seq(BOOLEAN)
            BY <3>1
          <5>2. IsJoin(sigs(k) \o signed(k), sigs(k), signed(k))
            BY <4>1, <5>1, Appended
          <5>3. IsJoin(sigs(n), sigs(k), signed(k))
            BY <3>2, <5>2
          <5> QED
            BY <5>3 DEF IsJoin
        <4> QED
          BY <3>2, <4>1, <4>2
      <3>4. ASSUME NEW i \in vote.committees, i < n, NEW p \in DOMAIN member(i)
            PROVE  /\ offset(i) + p \in 1..Len(sigs(n))
                   /\ sigs(n)[offset(i) + p] <=> member(i)[p] \in vote.voters
        <4>1. CASE i < k
          <5>1. offset(i) + p \in 1..Len(sigs(k))
                /\ (sigs(k)[offset(i) + p] <=> member(i)[p] \in vote.voters)
            BY <2>1, <4>1
          <5>2. sigs(n)[offset(i) + p] = sigs(k)[offset(i) + p]
            BY <3>3, <5>1
          <5>3. offset(i) + p \in 1..Len(sigs(n))
            BY <2>1, <2>2, <3>1, <3>2, <3>3, <5>1
          <5> QED
            BY <5>1, <5>2, <5>3
        <4>2. CASE i = k
          <5>1. p \in 1..Len(signed(k)) /\ Len(sigs(k)) = offset(i)
            BY <2>1, <3>1, <4>2
          <5>2. sigs(n)[offset(i) + p] = signed(k)[p]
            BY <3>3, <5>1
          <5>3. signed(k)[p] = (member(i)[p] \in vote.voters)
            BY <3>1, <4>2
          <5>4. offset(i) + p \in 1..Len(sigs(n))
            BY <2>1, <2>2, <3>1, <3>2, <3>3, <4>2, <5>1
          <5> QED
            BY <5>2, <5>3, <5>4
        <4> QED
          BY <1>1, <2>0, <3>4, <4>1, <4>2
      <3> QED
        BY <3>3, <3>4 DEF Placed, member, offset, sigs
    <2>4. CASE k \notin vote.committees
      <3>1. sigs(n) = sigs(k) /\ offset(n) = offset(k)
        <4>1. sigs(n) = sigs(k) \o << >> /\ offset(n) = offset(k) + 0
          BY <2>2, <2>4
        <4> QED
          BY <2>1, <2>2, <4>1
      <3>2. \A i \in vote.committees : i < n => i < k
        BY <1>1, <2>0, <2>4
      <3> QED
        BY <2>1, <3>1, <3>2 DEF Placed, member, offset, sigs
    <2> QED
      BY <2>3, <2>4
  <1>7. Bad = {}
    <2> SUFFICES ASSUME Bad # {} PROVE FALSE
      OBVIOUS
    <2>1. Bad \subseteq Nat
      OBVIOUS
    <2> HIDE DEF Bad
    <2>2. PICK n \in Bad : \A m \in Bad : n <= m
      BY <2>1, LeastNat
    <2>3. n \in 1..MaxCommitteesPerSlot /\ n - 1 \in 0..MaxCommitteesPerSlot /\ n - 1 \notin Bad
      BY <1>0, <1>5, <2>1, <2>2 DEF Bad
    <2>4. Placed(vote, n - 1)
      BY <2>3 DEF Bad
    <2> QED
      BY <1>6, <2>2, <2>3, <2>4 DEF Bad
  <1> QED
    BY <1>0, <1>7

\* An aggregate decodes to the votes it was made of.
LEMMA AttestationDecoded ==
    ASSUME NEW vote, IsVote(vote)
    PROVE  /\ CommitteesResolve(AttestationOf(vote), Committees)
           /\ SeenValidators(AttestationOf(vote), Committees, Tracked) = Tracked \cap vote.voters
  <1> DEFINE att  == AttestationOf(vote)
             bits == Signatures(vote, MaxCommitteesPerSlot)
             offset(i) == BitOffset(att, Committees, i)
  <1>0. MaxCommitteesPerSlot \in Nat
    BY MaxCommitteesAssumption
  <1>1. /\ bits \in Seq(BOOLEAN) /\ Len(bits) = offset(MaxCommitteesPerSlot)
        /\ \A i \in vote.committees : i < MaxCommitteesPerSlot =>
             \A p \in DOMAIN Committees[<<vote.slot, i>>] :
               bits[offset(i) + p] <=> Committees[<<vote.slot, i>>][p] \in vote.voters
    BY SignaturesPlaced DEF Placed
  <1>2. SelectedCommittees(att) = vote.committees
        /\ (vote.electra => Len(DecodeBitvector(att.committeeBits)) = MaxCommitteesPerSlot)
    BY SelectedIs
  <1>3. att.slot = vote.slot /\ att.electra = vote.electra /\ (vote.electra => att.index = 0)
        /\ att.aggregationBits = EncodeBitlist(bits)
    BY DEF AttestationOf
  <1> HIDE DEF att, bits, offset
  <1>4. BitlistWellFormed(att.aggregationBits) /\ DecodeBitlist(att.aggregationBits) = bits
    BY <1>1, <1>3, BitlistDecodes
  <1>5. \A i \in vote.committees :
          <<vote.slot, i>> \in DOMAIN Committees /\ i < MaxCommitteesPerSlot
    <2> TAKE i \in vote.committees
    <2>1. <<vote.slot, i>> \in DOMAIN Committees
      BY DEF IsVote
    <2>2. <<vote.slot, i>> \in EpochSlots \X (0..(MaxCommitteesPerSlot - 1))
      BY <2>1, ScannerAssumption
    <2> QED
      BY <1>0, <2>1, <2>2
  <1>6. CommitteesResolve(att, Committees)
    <2>1. vote.committees # {}
      BY DEF IsVote
    <2> QED
      BY <1>1, <1>2, <1>3, <1>4, <1>5, <2>1 DEF CommitteesResolve, offset
  <1>7. SeenValidators(att, Committees, Tracked)
          = {v \in Tracked :
               \E i \in vote.committees : \E p \in DOMAIN Committees[<<vote.slot, i>>] :
                 Committees[<<vote.slot, i>>][p] = v /\ bits[offset(i) + p]}
    BY <1>2, <1>3, <1>4 DEF SeenValidators, offset
  <1>8. \A i \in vote.committees : \A p \in DOMAIN Committees[<<vote.slot, i>>] :
          bits[offset(i) + p] <=> Committees[<<vote.slot, i>>][p] \in vote.voters
    BY <1>1, <1>5
  <1>9. \A v \in vote.voters : \E i \in vote.committees :
          \E p \in DOMAIN Committees[<<vote.slot, i>>] : Committees[<<vote.slot, i>>][p] = v
    BY DEF IsVote, Range
  <1>10. ASSUME NEW v \in Tracked
         PROVE  (\E i \in vote.committees : \E p \in DOMAIN Committees[<<vote.slot, i>>] :
                   Committees[<<vote.slot, i>>][p] = v /\ bits[offset(i) + p])
                <=> v \in vote.voters
    <2>1. ASSUME v \in vote.voters
          PROVE  \E i \in vote.committees : \E p \in DOMAIN Committees[<<vote.slot, i>>] :
                   Committees[<<vote.slot, i>>][p] = v /\ bits[offset(i) + p]
      <3>1. PICK i \in vote.committees :
              \E p \in DOMAIN Committees[<<vote.slot, i>>] : Committees[<<vote.slot, i>>][p] = v
        BY <1>9, <2>1
      <3>2. PICK p \in DOMAIN Committees[<<vote.slot, i>>] : Committees[<<vote.slot, i>>][p] = v
        BY <3>1
      <3>3. bits[offset(i) + p]
        BY <1>8, <2>1, <3>2
      <3> QED
        BY <3>2, <3>3
    <2>2. ASSUME NEW i \in vote.committees, NEW p \in DOMAIN Committees[<<vote.slot, i>>],
                 Committees[<<vote.slot, i>>][p] = v, bits[offset(i) + p]
          PROVE  v \in vote.voters
      BY <1>8, <2>2
    <2> QED
      BY <2>1, <2>2
  <1> QED
    BY <1>6, <1>7, <1>10 DEF att

\* So does every aggregate of a chain.
LEMMA ChainDecoded ==
    ASSUME ChainInv
    PROVE  VotesDecoded
  <1>1. chain \in Chains
    BY DEF ChainInv
  <1> SUFFICES ASSUME NEW s \in DOMAIN chain.body, NEW k \in DOMAIN chain.body[s]
               PROVE  /\ CommitteesResolve(chain.body[s][k], Committees)
                      /\ SeenValidators(chain.body[s][k], Committees, Tracked)
                           = Tracked \cap chain.votes[s][k].voters
    BY DEF VotesDecoded
  <1>2. chain.body[s][k] = AttestationOf(chain.votes[s][k]) /\ IsVote(chain.votes[s][k])
    BY <1>1, BodyFacts
  <1> QED
    BY <1>2, AttestationDecoded

\* Every aggregate of a chain decodes to the votes it was made of: its length is
\* that of its committees, and of the tracked validators exactly its voters are
\* seen (scanner/attestations/decode.rs, scanner/bits.rs).
THEOREM ScannerVotesDecoded ==
    Spec => []VotesDecoded
  <1>1. ChainInv => VotesDecoded
    BY ChainDecoded
  <1> QED
    BY <1>1, ChainForever, PTL

(***************************************************************************)
(* What the attestation rows say.                                          *)
(***************************************************************************)

\* A scan of the right epoch sees the votes of its validators.
LEMMA RecordedIs ==
    ASSUME ChainInv, NEW vs \in SUBSET Tracked, NEW v \in vs,
           NEW ctx, ctx.targetEpoch = Epoch, NEW s \in DOMAIN chain.body
    PROVE  /\ Places(chain, s, v, vs, ctx)
                = {k \in DOMAIN chain.votes[s] : v \in chain.votes[s][k].voters}
           /\ s \in InclusionSlots(v) <=> Places(chain, s, v, vs, ctx) # {}
  <1>1. chain \in Chains
    BY DEF ChainInv
  <1>2. /\ DOMAIN chain.body[s] = DOMAIN chain.votes[s] /\ s \in DOMAIN chain.votes
        /\ \A k \in DOMAIN chain.body[s] :
             /\ chain.body[s][k].slot = chain.votes[s][k].slot
             /\ chain.votes[s][k].slot \in EpochSlots
    BY <1>1, BodyFacts
  <1>3. ASSUME NEW k \in DOMAIN chain.body[s]
        PROVE  v \in Recorded(chain.body[s][k], Committees, vs, ctx)
                 <=> v \in chain.votes[s][k].voters
    <2> DEFINE att == chain.body[s][k]
    <2>1. SlotToEpoch(att.slot) = ctx.targetEpoch
      BY <1>2, SlotFacts
    <2>2. /\ CommitteesResolve(att, Committees)
          /\ SeenValidators(att, Committees, Tracked) = Tracked \cap chain.votes[s][k].voters
      BY ChainDecoded DEF VotesDecoded
    <2> HIDE DEF att
    <2>3. v \in SeenValidators(att, Committees, vs) <=> v \in SeenValidators(att, Committees, Tracked)
      BY DEF SeenValidators
    <2>4. Recorded(att, Committees, vs, ctx) = SeenValidators(att, Committees, vs)
      BY <2>1, <2>2 DEF Recorded
    <2> QED
      BY <2>2, <2>3, <2>4 DEF att
  <1>4. Places(chain, s, v, vs, ctx)
          = {k \in DOMAIN chain.votes[s] : v \in chain.votes[s][k].voters}
    BY <1>2, <1>3 DEF Places
  <1>5. s \in InclusionSlots(v) <=> Places(chain, s, v, vs, ctx) # {}
    BY <1>2, <1>4 DEF InclusionSlots
  <1> QED
    BY <1>4, <1>5

LEMMA AttestationFields ==
    ASSUME NEW vote
    PROVE  /\ AttestationOf(vote).head = vote.head
           /\ AttestationOf(vote).target = [epoch |-> Epoch, root |-> vote.target]
           /\ AttestationOf(vote).source = "justified"
  <1>1. AttestationOf(vote).head = vote.head
    BY DEF AttestationOf
  <1>2. AttestationOf(vote).target = [epoch |-> Epoch, root |-> vote.target]
    BY DEF AttestationOf
  <1>3. AttestationOf(vote).source = "justified"
    BY DEF AttestationOf
  <1> QED
    BY <1>1, <1>2, <1>3

\* A context that tells right votes from wrong ones.
RightContext(ctx, v) ==
  /\ ctx.targetEpoch = Epoch
  /\ ctx.targetRoot = RootAtOrBefore(chain, EpochStartSlot(Epoch))
  /\ ctx.blockRoots[DutySlot(v)] = RootAtOrBefore(chain, DutySlot(v))
  /\ ctx.source \in {"justified", NoSource}

LEMMA MarksTrue ==
    ASSUME ChainInv, NEW v \in Tracked, NEW ctx, RightContext(ctx, v),
           NEW s \in DOMAIN chain.body, NEW k \in DOMAIN chain.votes[s],
           v \in chain.votes[s][k].voters
    PROVE  VoteMarks(chain.body[s][k], ctx) = RightVote(chain.votes[s][k])
  <1> DEFINE vote == chain.votes[s][k]
             att == chain.body[s][k]
  <1>1. att = AttestationOf(vote) /\ vote.slot = DutySlot(v) /\ att.slot = vote.slot
    BY BodyFacts DEF ChainInv
  <1>2. /\ att.head = vote.head /\ att.target = [epoch |-> Epoch, root |-> vote.target]
        /\ att.source = "justified"
    BY <1>1, AttestationFields
  <1> HIDE DEF att, vote
  <1>3. /\ (ctx.source = NoSource \/ att.source = ctx.source) = TRUE
        /\ (att.target = [epoch |-> ctx.targetEpoch, root |-> ctx.targetRoot])
             = (vote.target = RootAtOrBefore(chain, EpochStartSlot(Epoch)))
        /\ (att.head = ctx.blockRoots[att.slot]) = (vote.head = RootAtOrBefore(chain, vote.slot))
    BY <1>1, <1>2 DEF RightContext
  <1>4. VoteMarks(att, ctx) = RightVote(vote)
    BY <1>3 DEF VoteMarks, RightVote
  <1> QED
    BY <1>4 DEF att, vote

\* What a true inclusion says.
TrueInclusion(inc, v, s) ==
  /\ inc.slot = s /\ inc.delay = s - DutySlot(v) /\ inc.marks = RightVote(VoteIn(v, s))

\* The result of one block.
LEMMA BlockTrue ==
    ASSUME ChainInv, NEW vs \in SUBSET Tracked, NEW v \in vs,
           NEW ctx, ctx.targetEpoch = Epoch, NEW s \in DOMAIN chain.body,
           NEW found, IsBlockResult(found, chain, s, vs, ctx)
    PROVE  /\ v \in DOMAIN found <=> s \in InclusionSlots(v)
           /\ v \in DOMAIN found /\ RightContext(ctx, v) => TrueInclusion(found[v], v, s)
  <1>1. v \in DOMAIN found <=> s \in InclusionSlots(v)
    BY RecordedIs DEF IsBlockResult
  <1>2. ASSUME v \in DOMAIN found, RightContext(ctx, v)
        PROVE  TrueInclusion(found[v], v, s)
    <2>1. PICK k \in Places(chain, s, v, vs, ctx) :
            /\ k = Min(Places(chain, s, v, vs, ctx))
            /\ found[v] = Inclusion(chain.body[s][k], s, ctx)
      BY <1>2 DEF IsBlockResult
    <2>2. /\ Places(chain, s, v, vs, ctx)
               = {j \in DOMAIN chain.votes[s] : v \in chain.votes[s][j].voters}
          /\ k \in DOMAIN chain.votes[s] /\ v \in chain.votes[s][k].voters
      BY <2>1, RecordedIs
    <2>3. VoteIn(v, s) = chain.votes[s][k]
      BY <2>1, <2>2 DEF VoteIn
    <2>4. VoteMarks(chain.body[s][k], ctx) = RightVote(VoteIn(v, s))
      BY <1>2, <2>2, <2>3, MarksTrue
    <2>5. chain.body[s][k].slot = DutySlot(v)
      BY <2>2, BodyFacts DEF ChainInv
    <2> QED
      BY <2>1, <2>4, <2>5 DEF TrueInclusion, Inclusion
  <1> QED
    BY <1>1, <1>2

\* The result of the blocks that may include a vote of the validator.
LEMMA ResultTrue ==
    ASSUME ChainInv, NEW vs \in SUBSET Tracked, NEW v \in vs,
           NEW ctx, RightContext(ctx, v), NEW D, D \subseteq DOMAIN chain.body,
           InclusionSlots(v) \subseteq D,
           NEW found, IsResult(found, chain, D, vs, ctx)
    PROVE  /\ v \in DOMAIN found <=> InclusionSlots(v) # {}
           /\ v \in DOMAIN found =>
                /\ Min(InclusionSlots(v)) \in InclusionSlots(v)
                /\ TrueInclusion(found[v], v, Min(InclusionSlots(v)))
  <1>1. ctx.targetEpoch = Epoch /\ chain \in Chains
    BY DEF RightContext, ChainInv
  <1>2. InBlocks(chain, D, v, vs, ctx) = InclusionSlots(v)
    <2>1. ASSUME NEW s \in D
          PROVE  v \in DOMAIN ExtractInclusions(chain.body[s], s, Committees, vs, ctx)
                   <=> s \in InclusionSlots(v)
      <3> DEFINE inBlock == ExtractInclusions(chain.body[s], s, Committees, vs, ctx)
      <3>1. s \in DOMAIN chain.body
        BY <2>1
      <3>2. IsBlockResult(inBlock, chain, s, vs, ctx)
        BY <1>1, <3>1, ExtractFacts
      <3> HIDE DEF inBlock
      <3>3. v \in DOMAIN inBlock <=> s \in InclusionSlots(v)
        BY <1>1, <3>1, <3>2, BlockTrue
      <3> QED
        BY <3>3 DEF inBlock
    <2> QED
      BY <2>1 DEF InBlocks
  <1>3. v \in DOMAIN found <=> InclusionSlots(v) # {}
    BY <1>2 DEF IsResult
  <1>4. ASSUME v \in DOMAIN found
        PROVE  /\ Min(InclusionSlots(v)) \in InclusionSlots(v)
               /\ TrueInclusion(found[v], v, Min(InclusionSlots(v)))
    <2>1. PICK s \in InclusionSlots(v) :
            /\ s = Min(InclusionSlots(v))
            /\ found[v] = ExtractInclusions(chain.body[s], s, Committees, vs, ctx)[v]
      BY <1>2, <1>4 DEF IsResult
    <2> DEFINE inBlock == ExtractInclusions(chain.body[s], s, Committees, vs, ctx)
    <2>2. s \in DOMAIN chain.body
      BY <2>1
    <2>3. IsBlockResult(inBlock, chain, s, vs, ctx)
      BY <1>1, <2>2, ExtractFacts
    <2>4. found[v] = inBlock[v]
      BY <2>1
    <2> HIDE DEF inBlock
    <2>5. v \in DOMAIN inBlock /\ TrueInclusion(inBlock[v], v, s)
      BY <1>1, <2>1, <2>2, <2>3, BlockTrue
    <2> QED
      BY <2>1, <2>4, <2>5
  <1> QED
    BY <1>3, <1>4

\* The three contexts are right.
LEMMA ArchiveContexts ==
    ASSUME NEW v \in Tracked
    PROVE  RightContext(DenseContext(chain), v) /\ RightContext(SparseContext(chain, v), v)
  <1>1. DutySlot(v) \in EpochSlots
    BY DutySlotInEpoch
  <1> QED
    BY <1>1 DEF RightContext, DenseContext, SparseContext

LEMMA RootFrom ==
    ASSUME ChainInv, NEW first \in chain.filled, NEW slot \in Nat, NEW d \in Nat,
           first <= d, d <= slot
    PROVE  Max({r \in RootsFrom(chain, first, slot) : r <= d}) = RootAtOrBefore(chain, d)
  <1> DEFINE T == {s \in chain.filled : s <= d}
             U == {r \in RootsFrom(chain, first, slot) : r <= d}
             m == Max(T)
  <1>1. chain.filled \subseteq Nat
    BY ChainAssumption DEF ChainInv
  <1>2. T \subseteq Nat /\ first \in T /\ \A x \in T : x <= d
    BY <1>1
  <1>3. m \in T /\ \A y \in T : y <= m
    <2> HIDE DEF T
    <2> QED
      BY <1>2, MaxIn
  <1>4. U \subseteq T
    BY DEF RootsFrom
  <1>5. m \in chain.filled /\ m \in Nat /\ first <= m /\ m <= d
    BY <1>1, <1>2, <1>3
  <1>6. m <= slot
    BY <1>5
  <1>7. m \in U
    <2> HIDE DEF m, T
    <2> QED
      BY <1>5, <1>6 DEF RootsFrom
  <1>8. U \subseteq Nat /\ \A y \in U : y <= m
    BY <1>2, <1>3, <1>4
  <1>9. Max(U) = m
    <2> HIDE DEF U, m
    <2> QED
      BY <1>7, <1>8, MaxIs
  <1> QED
    BY <1>9 DEF RootAtOrBefore

LEMMA LiveContextRight ==
    ASSUME ChainInv, NEW v \in Tracked, NEW slot \in Nat, DutySlot(v) < slot,
           NEW first \in chain.filled, first <= EpochStartSlot(Epoch)
    PROVE  RightContext(LiveContext(slot, RootsFrom(chain, first, slot)), v)
  <1> DEFINE start == EpochStartSlot(Epoch)
             last == Lesser(slot, EpochStartSlot(Epoch + 1)) - 1
             roots == RootsFrom(chain, first, slot)
             ctx == LiveContext(slot, roots)
             d == DutySlot(v)
  <1>1. /\ d \in Nat /\ start \in Nat /\ start <= d /\ d < EpochStartSlot(Epoch + 1)
        /\ EpochStartSlot(Epoch + 1) \in Nat
    <2>1. d \in EpochSlots
      BY DutySlotInEpoch
    <2> QED
      BY <2>1, SlotFacts DEF EpochSlots
  <1>2. first \in Nat
    BY ChainAssumption DEF ChainInv
  <1>3. d \in start..last
    BY <1>1 DEF Lesser
  <1>4. Max({r \in roots : r <= d}) = RootAtOrBefore(chain, d)
    <2> first <= d /\ d <= slot
      BY <1>1, <1>2
    <2> QED
      BY <1>1, RootFrom
  <1>5. Max({r \in roots : r <= start}) = RootAtOrBefore(chain, start)
    <2> start <= slot
      BY <1>1
    <2> QED
      BY <1>1, RootFrom
  <1> HIDE DEF start, last, roots, d
  <1>6. /\ ctx.blockRoots[d] = Max({r \in roots : r <= d})
        /\ ctx.targetRoot = Max({r \in roots : r <= start})
        /\ ctx.targetEpoch = Epoch /\ ctx.source = NoSource
    BY <1>3 DEF LiveContext, start, last
  <1> QED
    BY <1>4, <1>5, <1>6 DEF RightContext, start, d, roots

\* The slots with a block after the duty, up to the inclusion.
LEMMA EffectiveTrue ==
    ASSUME ChainInv, NEW a \in Nat, NEW b \in Nat, a < b, b \in chain.filled
    PROVE  EffectiveDelay(a, b, b - a) = Cardinality({s \in chain.filled : a < s /\ s <= b})
  <1> DEFINE I == (a + 1)..b
             F == {s \in chain.filled : a < s /\ s <= b}
             P == {s \in (a + 1)..(b - 1) : s \notin chain.filled}
  <1>1. IsFiniteSet(I) /\ Cardinality(I) = b - a
    BY FS_Interval
  <1>2. chain.filled \subseteq Nat
    BY ChainAssumption DEF ChainInv
  <1>3. F \subseteq I /\ I \cap F = F
    BY <1>2
  <1>4. P = I \ F
    BY <1>2
  <1> HIDE DEF I, F, P
  <1>5. IsFiniteSet(F) /\ Cardinality(F) \in Nat
    BY <1>1, <1>3, FS_Subset, FS_CardinalityType
  <1>6. Cardinality(I \ F) = Cardinality(I) - Cardinality(I \cap F)
    BY <1>1, FS_Difference
  <1>7. Cardinality(P) = (b - a) - Cardinality(F)
    BY <1>1, <1>3, <1>4, <1>6
  <1>8. Cardinality(P) \in Nat
    BY <1>1, <1>4, FS_Difference, FS_CardinalityType
  <1>9. SatSub(b - a, Cardinality(P)) = Cardinality(F)
    BY <1>5, <1>7, <1>8 DEF SatSub
  <1> QED
    BY <1>9 DEF EffectiveDelay, P, F

LEMMA LiveEffectiveTrue ==
    ASSUME ChainInv, NEW v \in Tracked, NEW slot \in Nat,
           NEW first \in chain.filled, first <= EpochStartSlot(Epoch)
    PROVE  LiveEffective(v, slot, RootsFrom(chain, first, slot))
             = Cardinality({s \in chain.filled : DutySlot(v) < s /\ s <= slot})
  <1>1. /\ DutySlot(v) \in Nat /\ EpochStartSlot(Epoch) \in Nat
        /\ EpochStartSlot(Epoch) <= DutySlot(v) /\ chain.filled \subseteq Nat
    BY DutySlotInEpoch, SlotFacts, ChainAssumption DEF ChainInv
  <1>2. {r \in RootsFrom(chain, first, slot) : DutySlot(v) < r /\ r <= slot}
          = {s \in chain.filled : DutySlot(v) < s /\ s <= slot}
    BY <1>1 DEF RootsFrom
  <1> QED
    BY <1>2 DEF LiveEffective

LEMMA RightVoteType ==
    ASSUME NEW vote
    PROVE  RightVote(vote) \in RewardType
  <1>1. /\ TRUE \in BOOLEAN
        /\ (vote.target = RootAtOrBefore(chain, EpochStartSlot(Epoch))) \in BOOLEAN
        /\ (vote.head = RootAtOrBefore(chain, vote.slot)) \in BOOLEAN
    OBVIOUS
  <1> QED
    BY <1>1, MarksType DEF RightVote, RewardType

\* A true inclusion stays so when only what is NULL is filled in.
LEMMA SameInclusion ==
    ASSUME NEW v, NEW old \in AttestationRow, NEW new \in AttestationRow, InclusionTrue(v, old),
           new.slot = old.slot, new.delay = old.delay, new.effective = old.effective,
           \A c \in Components : old.marks[c] # Null => new.marks[c] = old.marks[c]
    PROVE  InclusionTrue(v, new)
  <1>1. old.marks \in Marks /\ new.marks \in Marks
    BY DEF AttestationRow
  <1>2. old.marks = RightVote(VoteIn(v, old.slot))
    BY DEF InclusionTrue
  <1>3. old.marks \in RewardType
    BY <1>2, RightVoteType
  <1>4. \A c \in Components : old.marks[c] # Null
    BY <1>3, NullAssumption DEF RewardType
  <1>5. new.marks = old.marks
    BY <1>1, <1>4 DEF Marks
  <1> QED
    BY <1>2, <1>5 DEF InclusionTrue

\* What is true of a live row, and of the inclusion it names.
RowReal(v, row) ==
  row # Null => LiveRowReal(v, row) /\ (row.included => row.slot \in InclusionSlots(v))

LEMMA TruthStable ==
    ASSUME chain' = chain
    PROVE  /\ \A v : InclusionSlots(v)' = InclusionSlots(v)
           /\ \A v, row : AttestationTrue(v, row)' <=> AttestationTrue(v, row)
           /\ \A v, row : Earliest(v, row)' <=> Earliest(v, row)
           /\ \A v, row : LiveRowReal(v, row)' <=> LiveRowReal(v, row)
  <1>1. \A v : InclusionSlots(v)' = InclusionSlots(v)
    BY DEF InclusionSlots
  <1>2. \A v, s : VoteIn(v, s)' = VoteIn(v, s)
    BY DEF VoteIn
  <1>3. \A vote : RightVote(vote)' = RightVote(vote)
    BY DEF RightVote
  <1>4. \A v, row : InclusionTrue(v, row)' <=> InclusionTrue(v, row)
    BY <1>1, <1>2, <1>3 DEF InclusionTrue
  <1>5. \A v : RewardOf(v)' = RewardOf(v)
    BY <1>1, <1>2, <1>3 DEF RewardOf
  <1> QED
    BY <1>1, <1>4, <1>5 DEF AttestationTrue, Earliest, LiveRowReal

RowTruths ==
  /\ live => \A v \in Tracked :
       /\ RowReal(v, rows[v])
       /\ InclusionSlots(v) \cap covered # {} => rows[v] # Null /\ rows[v].included
  /\ \A v \in WrittenDuties : AttestationTrue(v, rows[v]) /\ (Done(v) \/ Earliest(v, rows[v]))
  /\ \A v \in Tracked : Done(v) =>
       /\ AttestationTrue(v, rows[v])
       /\ completed[v] = "archive" => Earliest(v, rows[v])

LEMMA RowTruthsIs ==
    RowsInv <=> RowTruths
  BY DEF RowsInv, RowTruths, RowReal, IncludedRowsReal, InclusionsCollected,
         CompletedAttestationsTrue

\* A step of the archive's scan that writes no row.
LEMMA ScanTruth ==
    ASSUME RowTruths, UNCHANGED <<chain, live, rows, completed, covered>>,
           WrittenDuties' \subseteq WrittenDuties
    PROVE  RowTruths'
  <1>1. \A v \in Tracked : RowReal(v, rows[v])' <=> RowReal(v, rows[v])
    BY TruthStable DEF RowReal
  <1>2. live => \A v \in Tracked :
          InclusionSlots(v) \cap covered # {} => rows[v] # Null /\ rows[v].included
    BY DEF RowTruths
  <1>3. live' => \A v \in Tracked :
          /\ RowReal(v, rows[v])'
          /\ (InclusionSlots(v) \cap covered # {} => rows[v] # Null /\ rows[v].included)'
    BY <1>1, <1>2, TruthStable DEF RowTruths
  <1>4. \A v \in WrittenDuties' :
          (AttestationTrue(v, rows[v]) /\ (Done(v) \/ Earliest(v, rows[v])))'
    BY TruthStable DEF RowTruths, Done
  <1>5. \A v \in Tracked :
          (Done(v) => /\ AttestationTrue(v, rows[v])
                      /\ completed[v] = "archive" => Earliest(v, rows[v]))'
    BY TruthStable DEF RowTruths, Done
  <1> QED
    BY <1>3, <1>4, <1>5 DEF RowTruths

\* What a step of the live worker does to the row of one validator.
LiveMove(v) ==
  /\ RowReal(v, rows'[v])
  /\ InclusionSlots(v) \cap covered' # {} => rows'[v] # Null /\ rows'[v].included
  /\ FinalRow(rows[v]) /\ AttestationTrue(v, rows[v]) =>
       /\ AttestationTrue(v, rows'[v])
       /\ ~Done(v) /\ Earliest(v, rows[v]) => Earliest(v, rows'[v])

LEMMA LiveTruth ==
    ASSUME IInv, RowTruths, live, UNCHANGED <<chain, live, completed, scan>>, RowsKept,
           \A v \in Tracked : LiveMove(v)
    PROVE  RowTruths'
  <1>1. \A v \in Tracked : RowReal(v, rows'[v]) /\
          (InclusionSlots(v) \cap covered' # {} => rows'[v] # Null /\ rows'[v].included)
    BY DEF LiveMove
  <1>2. \A v, row : LiveRowReal(v, row)' <=> LiveRowReal(v, row)
    BY TruthStable
  <1>3. live' => \A v \in Tracked :
          /\ RowReal(v, rows[v])'
          /\ (InclusionSlots(v) \cap covered # {} => rows[v] # Null /\ rows[v].included)'
    BY <1>1, <1>2, TruthStable DEF RowReal
  <1>4. WrittenDuties' = WrittenDuties /\ WrittenDuties \subseteq Tracked
    BY DEF WrittenDuties, IInv, ScanTypeOK, ScanType
  <1>5. ASSUME NEW v \in WrittenDuties
        PROVE  AttestationTrue(v, rows'[v]) /\ (Done(v) \/ Earliest(v, rows'[v]))
    <2>1. AttestationTrue(v, rows[v]) /\ (Done(v) \/ Earliest(v, rows[v])) /\ FinalRow(rows[v])
      BY DEF RowTruths, IInv, DutiesWritten
    <2> QED
      BY <1>4, <2>1 DEF LiveMove
  <1>6. \A v \in WrittenDuties' :
          (AttestationTrue(v, rows[v]) /\ (Done(v) \/ Earliest(v, rows[v])))'
    BY <1>4, <1>5, TruthStable DEF Done
  <1>7. \A v \in Tracked : Done(v) => rows'[v] = rows[v]
    BY DEF RowsKept
  <1>8. \A v \in Tracked :
          (Done(v) => /\ AttestationTrue(v, rows[v])
                      /\ completed[v] = "archive" => Earliest(v, rows[v]))'
    BY <1>7, TruthStable DEF RowTruths, Done
  <1> QED
    BY <1>3, <1>6, <1>8 DEF RowTruths

\* The archive's row is the first inclusion of the chain.
LEMMA ScannedTrue ==
    ASSUME ChainInv, IInv, scan.stage = "attestations", NEW v \in scan.todo,
           NEW found \in IF mode = "dense" THEN {scan.found} ELSE decoded.sparse[v],
           NEW row, row = ScannedRow(v, found, RewardOf(v))
    PROVE  AttestationTrue(v, row) /\ Earliest(v, row)
  <1> DEFINE first == Min(InclusionSlots(v))
  <1>1. v \in Tracked /\ IsFound(found, Tracked)
        /\ (mode # "dense" /\ v \in DOMAIN found => DutySlot(v) < found[v].slot)
    BY StageFound
  <1>2. /\ v \in scan.validators /\ scan.validators \in SUBSET Tracked
        /\ mode = "dense" => scan.found \in decoded.dense[scan.validators]
        /\ chain \in Chains /\ decoded = Decoded(chain)
    BY DEF IInv, ScanTypeOK, ScanType, ChainInv
  <1>3. \A s \in InclusionSlots(v) :
          s \in Nat /\ s \in chain.filled /\ s \in DOMAIN chain.body /\ DutySlot(v) < s
    BY <1>1, InclusionAfterDuty
  <1>4. /\ v \in DOMAIN found <=> InclusionSlots(v) # {}
        /\ v \in DOMAIN found => first \in InclusionSlots(v) /\ TrueInclusion(found[v], v, first)
    <2>1. CASE mode = "dense"
      <3>1. IsResult(found, chain, DOMAIN chain.body, scan.validators, DenseContext(chain))
        BY <1>2, <2>1, DenseScan
      <3>2. RightContext(DenseContext(chain), v) /\ InclusionSlots(v) \subseteq DOMAIN chain.body
        BY <1>1, <1>3, ArchiveContexts
      <3> QED
        BY <1>2, <3>1, <3>2, ResultTrue
    <2>2. CASE mode # "dense"
      <3> DEFINE D == {b \in DOMAIN chain.body : b > DutySlot(v)}
      <3>1. found \in Decoded(chain).sparse[v]
        BY <1>2, <2>2
      <3>2. IsResult(found, chain, D, {v}, SparseContext(chain, v))
        BY <1>1, <1>2, <3>1, SparseScan
      <3>3. RightContext(SparseContext(chain, v), v)
        BY <1>1, ArchiveContexts
      <3>4. InclusionSlots(v) \subseteq D /\ D \subseteq DOMAIN chain.body
        <4>1. DutySlot(v) \in Nat
          BY <1>1, DutySlotInEpoch, SlotFacts
        <4> QED
          BY <1>3, <4>1
      <3> HIDE DEF D
      <3>5. {v} \in SUBSET Tracked /\ v \in {v}
        BY <1>1
      <3> QED
        BY <3>2, <3>3, <3>4, <3>5, ResultTrue
    <2> QED
      BY <2>1, <2>2
  <1>5. /\ row.reward = RewardOf(v)
        /\ row.included <=> v \in DOMAIN found
        /\ row.included =>
             /\ row.slot = found[v].slot /\ row.marks = found[v].marks
             /\ row.delay = IF mode = "dense" THEN found[v].delay ELSE found[v].slot - DutySlot(v)
             /\ row.effective = EffectiveDelay(DutySlot(v), row.slot, row.delay)
    BY <1>1, RewardTyped, ScannedRowCases
  <1> HIDE DEF first
  <1>6. ASSUME row.included
        PROVE  InclusionTrue(v, row) /\ row.slot = first
    <2>1. /\ row.slot = first /\ first \in InclusionSlots(v)
          /\ row.marks = RightVote(VoteIn(v, row.slot))
          /\ row.delay = row.slot - DutySlot(v)
      BY <1>4, <1>5, <1>6 DEF TrueInclusion
    <2>2. row.effective = Cardinality({s \in chain.filled : DutySlot(v) < s /\ s <= row.slot})
      <3>1. DutySlot(v) \in Nat
        BY <1>1, DutySlotInEpoch, SlotFacts
      <3>2. row.slot \in Nat /\ row.slot \in chain.filled /\ DutySlot(v) < row.slot
        BY <1>3, <2>1
      <3>3. row.effective = EffectiveDelay(DutySlot(v), row.slot, row.slot - DutySlot(v))
        BY <1>5, <1>6, <2>1
      <3> QED
        BY <3>1, <3>2, <3>3, EffectiveTrue
    <2> QED
      BY <2>1, <2>2 DEF InclusionTrue
  <1>7. ~row.included => InclusionSlots(v) = {}
    BY <1>4, <1>5
  <1> QED
    BY <1>5, <1>6, <1>7 DEF AttestationTrue, Earliest, first

\* What a true row is for the live worker.
LEMMA TrueRowReal ==
    ASSUME NEW v, NEW row, AttestationTrue(v, row), ~row.included => row.slot = Null
    PROVE  /\ RowReal(v, row)
           /\ InclusionSlots(v) # {} => row.included
  BY DEF AttestationTrue, RowReal, LiveRowReal, InclusionTrue

LEMMA ReplacedTrue ==
    ASSUME NEW v, NEW new \in AttestationRow, NEW row \in AttestationRow, NEW old,
           Replaced(row, new, old), AttestationTrue(v, new), new.reward # Null
    PROVE  /\ AttestationTrue(v, row)
           /\ Earliest(v, new) => Earliest(v, row)
           /\ row.included = new.included /\ row.slot = new.slot
  <1>1. new.included => InclusionTrue(v, row)
    BY SameInclusion DEF Replaced, AttestationTrue
  <1> QED
    BY <1>1 DEF Replaced, AttestationTrue, Earliest

LEMMA WriteDutyTruth ==
    ASSUME ChainInv, IInv, RowTruths, NEW v \in Tracked, WriteDuty(v)
    PROVE  RowTruths'
  <1>1. /\ scan.stage = "attestations" /\ v \in scan.todo
        /\ scan' = [scan EXCEPT !.todo = scan.todo \ {v}]
        /\ UNCHANGED <<chain, live, completed, covered>>
    BY DEF WriteDuty
  <1>2. PICK found \in IF mode = "dense" THEN {scan.found} ELSE decoded.sparse[v] :
          LET new == ScannedRow(v, found, RewardOf(v))
          IN /\ rows' = [rows EXCEPT ![v] = Upsert(new, rows[v], Done(v))]
             /\ new \in AttestationRow
             /\ FinalRow(rows'[v]) /\ rows'[v] \in AttestationRow
             /\ Done(v) => rows'[v] = rows[v]
             /\ ~Done(v) => Replaced(rows'[v], new, rows[v])
    BY WriteDutyRow
  <1> DEFINE new == ScannedRow(v, found, RewardOf(v))
  <1>3. AttestationTrue(v, new) /\ Earliest(v, new)
    BY <1>1, ScannedTrue
  <1>4. ~new.included => new.slot = Null
    BY <1>1, RewardTyped, StageFound, ScannedRowCases
  <1>5. /\ new \in AttestationRow /\ rows'[v] \in AttestationRow
        /\ Done(v) => rows'[v] = rows[v]
        /\ ~Done(v) => Replaced(rows'[v], new, rows[v])
        /\ \A w \in Tracked \ {v} : rows'[w] = rows[w]
    <2>1. rows \in [Tracked -> AttestationRow \cup {Null}]
      BY DEF IInv, RowsTypeOK
    <2> QED
      BY <1>2, <2>1
  <1>6. RewardOf(v) # Null
    BY RewardTyped, NullAssumption DEF RewardType
  <1> HIDE DEF new
  <1>7. ASSUME ~Done(v)
        PROVE  /\ AttestationTrue(v, rows'[v]) /\ Earliest(v, rows'[v])
               /\ RowReal(v, rows'[v]) /\ rows'[v] # Null
               /\ InclusionSlots(v) # {} => rows'[v].included
    <2>1. new.reward # Null
      BY <1>3, <1>6 DEF AttestationTrue
    <2>2. /\ AttestationTrue(v, rows'[v]) /\ Earliest(v, rows'[v])
          /\ ~rows'[v].included => rows'[v].slot = Null
      BY <1>3, <1>4, <1>5, <1>7, <2>1, ReplacedTrue
    <2> QED
      BY <1>5, <2>2, TrueRowReal, NullAssumption
  <1>8. ASSUME Done(v)
        PROVE  AttestationTrue(v, rows'[v])
    BY <1>5, <1>8 DEF RowTruths
  <1>9. scan'.stage = "attestations" /\ scan'.validators = scan.validators
        /\ scan'.todo = scan.todo \ {v}
    BY <1>1 DEF IInv, ScanTypeOK, ScanType
  <1>10. WrittenDuties' \subseteq WrittenDuties \cup {v} /\ WrittenDuties \subseteq Tracked
    BY <1>1, <1>9 DEF WrittenDuties, IInv, ScanTypeOK, ScanType
  <1>11. ASSUME live, NEW w \in Tracked
         PROVE  /\ RowReal(w, rows'[w])
                /\ InclusionSlots(w) \cap covered # {} => rows'[w] # Null /\ rows'[w].included
    <2>1. CASE w = v /\ ~Done(v)
      BY <1>7, <2>1
    <2>2. CASE w # v \/ Done(v)
      <3>1. rows'[w] = rows[w]
        BY <1>5, <2>2
      <3> QED
        BY <1>11, <3>1 DEF RowTruths
    <2> QED
      BY <2>1, <2>2
  <1>12. ASSUME NEW w \in WrittenDuties'
         PROVE  AttestationTrue(w, rows'[w]) /\ (Done(w) \/ Earliest(w, rows'[w]))
    <2>1. CASE w = v
      BY <1>7, <1>8, <2>1
    <2>2. CASE w # v
      BY <1>5, <1>10, <2>2 DEF RowTruths
    <2> QED
      BY <2>1, <2>2
  <1>13. ASSUME NEW w \in Tracked, Done(w)
         PROVE  /\ AttestationTrue(w, rows'[w])
                /\ completed[w] = "archive" => Earliest(w, rows'[w])
    <2>1. rows'[w] = rows[w]
      BY <1>5, <1>13
    <2> QED
      BY <1>13, <2>1 DEF RowTruths
  <1>14. live' => \A w \in Tracked :
           /\ RowReal(w, rows[w])'
           /\ (InclusionSlots(w) \cap covered # {} => rows[w] # Null /\ rows[w].included)'
    BY <1>1, <1>11, TruthStable DEF RowReal
  <1>15. \A w \in WrittenDuties' :
           (AttestationTrue(w, rows[w]) /\ (Done(w) \/ Earliest(w, rows[w])))'
    BY <1>1, <1>12, TruthStable DEF Done
  <1>16. \A w \in Tracked :
           (Done(w) => /\ AttestationTrue(w, rows[w])
                       /\ completed[w] = "archive" => Earliest(w, rows[w]))'
    BY <1>1, <1>13, TruthStable DEF Done
  <1> QED
    BY <1>14, <1>15, <1>16 DEF RowTruths

LEMMA KnownTrue ==
    ASSUME NEW v, NEW row \in AttestationRow, NEW new, new = [row EXCEPT !.known = TRUE]
    PROVE  /\ AttestationTrue(v, row) => AttestationTrue(v, new)
           /\ Earliest(v, row) => Earliest(v, new)
           /\ RowReal(v, row) => RowReal(v, new)
           /\ new # Null /\ new.included = row.included
  <1>1. /\ new \in AttestationRow
        /\ new.included = row.included /\ new.slot = row.slot /\ new.delay = row.delay
        /\ new.effective = row.effective /\ new.marks = row.marks /\ new.reward = row.reward
        /\ new.final = row.final
    BY DEF AttestationRow
  <1>2. InclusionTrue(v, row) => InclusionTrue(v, new)
    BY <1>1 DEF InclusionTrue
  <1>3. new # Null /\ row # Null
    BY <1>1, NullAssumption
  <1> QED
    BY <1>1, <1>2, <1>3 DEF AttestationTrue, Earliest, RowReal, LiveRowReal

LEMMA MarkCompleteTruth ==
    ASSUME ChainInv, IInv, RowTruths, MarkComplete
    PROVE  RowTruths'
  <1>1. /\ scan.stage = "sync"
        /\ completed' = [v \in Tracked |->
             IF v \in scan.validators /\ ~Done(v) THEN "archive" ELSE completed[v]]
        /\ rows' = [v \in Tracked |->
             IF v \in scan.validators /\ rows[v] # Null
             THEN [rows[v] EXCEPT !.known = TRUE] ELSE rows[v]]
        /\ scan' = NoScan
        /\ UNCHANGED <<chain, live, covered>>
    BY DEF MarkComplete
  <1>2. /\ rows \in [Tracked -> AttestationRow \cup {Null}]
        /\ completed \in [Tracked -> {"archive", "live", Null}]
        /\ WrittenDuties = scan.validators
    BY <1>1 DEF IInv, RowsTypeOK, WrittenDuties
  <1>3. ASSUME NEW v \in Tracked
        PROVE  /\ rows[v] # Null /\ AttestationTrue(v, rows[v]) => AttestationTrue(v, rows'[v])
               /\ rows[v] # Null /\ Earliest(v, rows[v]) => Earliest(v, rows'[v])
               /\ RowReal(v, rows[v]) => RowReal(v, rows'[v])
               /\ rows[v] # Null => rows'[v] # Null /\ rows'[v].included = rows[v].included
    <2>1. CASE v \in scan.validators /\ rows[v] # Null
      <3>1. rows[v] \in AttestationRow /\ rows'[v] = [rows[v] EXCEPT !.known = TRUE]
        BY <1>1, <1>2, <2>1
      <3> QED
        BY <3>1, KnownTrue
    <2>2. CASE ~(v \in scan.validators /\ rows[v] # Null)
      <3>1. rows'[v] = rows[v]
        BY <1>1, <2>2
      <3> QED
        BY <3>1
    <2> QED
      BY <2>1, <2>2
  <1>4. WrittenDuties' = {}
    BY <1>1 DEF WrittenDuties, NoScan
  <1>5. ASSUME NEW v \in Tracked, completed'[v] # Null
        PROVE  /\ AttestationTrue(v, rows'[v])
               /\ completed'[v] = "archive" => Earliest(v, rows'[v])
    <2>1. CASE Done(v)
      <3>1. rows[v] # Null /\ completed'[v] = completed[v]
        BY <1>1, <2>1 DEF IInv, CompletedFinal, FinalRow
      <3> QED
        BY <1>3, <2>1, <3>1 DEF RowTruths
    <2>2. CASE ~Done(v)
      <3>1. v \in scan.validators
        BY <1>1, <1>2, <1>5, <2>2 DEF Done
      <3>2. rows[v] # Null
        BY <1>2, <3>1 DEF IInv, DutiesWritten, FinalRow
      <3> QED
        BY <1>2, <1>3, <2>2, <3>1, <3>2 DEF RowTruths
    <2> QED
      BY <2>1, <2>2
  <1>6. live' => \A v \in Tracked :
          /\ RowReal(v, rows[v])'
          /\ (InclusionSlots(v) \cap covered # {} => rows[v] # Null /\ rows[v].included)'
    <2>1. live => \A v \in Tracked : RowReal(v, rows'[v]) /\
            (InclusionSlots(v) \cap covered # {} => rows'[v] # Null /\ rows'[v].included)
      BY <1>3 DEF RowTruths
    <2> QED
      BY <1>1, <2>1, TruthStable DEF RowReal
  <1>7. \A v \in Tracked :
          (Done(v) => /\ AttestationTrue(v, rows[v])
                      /\ completed[v] = "archive" => Earliest(v, rows[v]))'
    BY <1>1, <1>5, TruthStable DEF Done
  <1> QED
    BY <1>4, <1>6, <1>7 DEF RowTruths

\* A row of the live worker is a true inclusion.
LEMMA LiveRowTrue ==
    ASSUME ChainInv, NEW slot \in DOMAIN chain.body, NEW first \in chain.filled,
           NEW found,
           IsBlockResult(found, chain, slot, Tracked,
                         LiveContext(slot, RootsFrom(chain, first, slot))),
           \E r \in RootsFrom(chain, first, slot) : r <= EpochStartSlot(Epoch),
           NEW v \in Tracked, v \in DOMAIN found, found[v] \in InclusionType,
           NEW row, row = LiveRow(v, found[v], RootsFrom(chain, first, slot))
    PROVE  /\ slot \in InclusionSlots(v) /\ TrueInclusion(found[v], v, slot)
           /\ row \in AttestationRow /\ row.included /\ ~row.final /\ row.reward = Null
           /\ InclusionTrue(v, row)
           /\ LiveEffective(v, slot, RootsFrom(chain, first, slot))
                = Cardinality({s \in chain.filled : DutySlot(v) < s /\ s <= slot})
  <1> DEFINE roots == RootsFrom(chain, first, slot)
             ctx == LiveContext(slot, roots)
  <1>1. slot \in Nat /\ chain.filled \subseteq Nat
    BY BodyFacts, ChainAssumption DEF ChainInv
  <1>2. first <= EpochStartSlot(Epoch)
    <2>1. PICK r \in chain.filled : first <= r /\ r <= EpochStartSlot(Epoch)
      BY DEF RootsFrom
    <2> QED
      BY <1>1, <2>1, SlotFacts
  <1>3. ctx.targetEpoch = Epoch
    BY DEF LiveContext
  <1> HIDE DEF ctx
  <1>4. slot \in InclusionSlots(v)
    BY <1>3, BlockTrue DEF ctx
  <1>5. DutySlot(v) < slot
    BY <1>4, InclusionAfterDuty
  <1>6. RightContext(ctx, v)
    BY <1>1, <1>2, <1>5, LiveContextRight DEF ctx
  <1>7. TrueInclusion(found[v], v, slot)
    BY <1>3, <1>6, BlockTrue DEF ctx
  <1>8. LiveEffective(v, slot, roots)
          = Cardinality({s \in chain.filled : DutySlot(v) < s /\ s <= slot})
    BY <1>1, <1>2, LiveEffectiveTrue
  <1>9. roots \subseteq chain.filled
    BY DEF RootsFrom
  <1> HIDE DEF roots
  <1>10. /\ row \in AttestationRow /\ row.included /\ ~row.final /\ row.reward = Null
         /\ row.slot = found[v].slot /\ row.delay = found[v].delay /\ row.marks = found[v].marks
         /\ row.effective = LiveEffective(v, found[v].slot, roots)
    BY <1>9, LiveRowCases DEF roots
  <1>11. InclusionTrue(v, row)
    BY <1>4, <1>7, <1>8, <1>10 DEF InclusionTrue, TrueInclusion
  <1> QED
    BY <1>4, <1>7, <1>8, <1>10, <1>11 DEF roots

LEMMA InclusionReal ==
    ASSUME NEW v, NEW row, row.included, InclusionTrue(v, row), row.reward \in {Null, RewardOf(v)}
    PROVE  RowReal(v, row)
  BY DEF RowReal, LiveRowReal, InclusionTrue

\* An upsert of a true inclusion leaves a real row with an inclusion.
LEMMA UpsertReal ==
    ASSUME NEW v, NEW new \in AttestationRow, ~new.final, new.included, new.reward = Null,
           InclusionTrue(v, new), NEW old \in AttestationRow \cup {Null}, RowReal(v, old),
           NEW done \in BOOLEAN, NEW up, up = Upsert(new, old, done)
    PROVE  /\ RowReal(v, up) /\ up # Null /\ up.included /\ up \in AttestationRow
           /\ old # Null /\ old.final => up = old
  <1>1. /\ up \in AttestationRow
        /\ IF old = Null \/ Replaces(new, old, done) THEN Replaced(up, new, old) ELSE up = old
    <2> DEFINE result == Upsert(new, old, done)
    <2>1. /\ result \in AttestationRow
          /\ IF old = Null \/ Replaces(new, old, done)
             THEN Replaced(result, new, old) ELSE result = old
      BY UpsertCases, Zenon
    <2>2. up = result
      OBVIOUS
    <2> QED
      BY <2>1, <2>2, Zenon
  <1>2. up # Null
    BY <1>1, NullAssumption
  <1>3. old # Null /\ old.final => up = old
    BY <1>1 DEF Replaces
  <1>4. CASE old = Null \/ Replaces(new, old, done)
    <2>1. Replaced(up, new, old)
      BY <1>1, <1>4
    <2>2. InclusionTrue(v, up) /\ up.included
      BY <1>1, <2>1, SameInclusion DEF Replaced
    <2>3. up.reward \in {Null, RewardOf(v)}
      BY <2>1 DEF Replaced, RowReal, LiveRowReal
    <2>4. RowReal(v, up)
      BY <2>2, <2>3, InclusionReal
    <2> QED
      BY <1>1, <1>2, <1>3, <2>2, <2>4
  <1>5. CASE old # Null /\ ~Replaces(new, old, done)
    <2>1. up = old
      BY <1>1, <1>5
    <2>2. old.included
      <3>1. new.slot \in InclusionSlots(v)
        BY DEF InclusionTrue
      <3>2. old.final \/ old.slot # Null
        BY <1>5 DEF Replaces
      <3> QED
        BY <1>5, <3>1, <3>2 DEF RowReal, LiveRowReal
    <2> QED
      BY <1>1, <1>2, <1>3, <2>1, <2>2
  <1> QED
    BY <1>4, <1>5

LEMMA ProcessSlotTruth ==
    ASSUME ChainInv, IInv, RowTruths, RowsKept,
           NEW slot \in Window, NEW first \in chain.filled, NEW last, NEW written,
           ProcessSlot(slot, first, last, written)
    PROVE  RowTruths'
  <1> DEFINE roots == {b \in chain.filled : first <= b /\ b <= slot}
             results == IF slot \in chain.filled THEN decoded.live[slot][first] ELSE {<< >>}
             found == IF results = {} THEN << >> ELSE CHOOSE f \in results : TRUE
  <1>1. /\ first <= slot /\ live
        /\ written \subseteq (IF last = "votes" THEN DOMAIN found ELSE {})
        /\ rows' = [v \in Tracked |->
             IF v \in written THEN Upsert(LiveRow(v, found[v], roots), rows[v], Done(v))
             ELSE rows[v]]
        /\ covered' = IF last = "votes" /\ results # {} /\ written = DOMAIN found
                      THEN covered \cup {slot} ELSE covered
        /\ UNCHANGED <<chain, live, completed, scan>>
    BY DEF ProcessSlot
  <1>2. /\ LiveFoundOf(found, slot, first)
        /\ results # {} /\ slot \in DOMAIN chain.body =>
             IsBlockResult(found, chain, slot, Tracked, LiveContext(slot, RootsFrom(chain, first, slot)))
    BY <1>1, ProcessSlotFound
  <1>3. roots = RootsFrom(chain, first, slot)
    BY DEF RootsFrom
  <1> HIDE DEF roots, results, found
  <1>4. /\ \A v \in Tracked : rows[v] \in AttestationRow \cup {Null}
        /\ \A v \in Tracked : RowReal(v, rows[v])
        /\ \A v \in Tracked : InclusionSlots(v) \cap covered # {} =>
             rows[v] # Null /\ rows[v].included
    BY <1>1 DEF IInv, RowsTypeOK, RowTruths
  <1>5. ASSUME NEW v \in Tracked, v \in written
        PROVE  /\ RowReal(v, rows'[v]) /\ rows'[v] # Null /\ rows'[v].included
               /\ rows[v] # Null /\ rows[v].final => rows'[v] = rows[v]
    <2> DEFINE new == LiveRow(v, found[v], roots)
               done == Done(v)
    <2>1. v \in DOMAIN found /\ found[v] \in InclusionType /\ slot \in DOMAIN chain.body
      BY <1>1, <1>2, <1>5 DEF LiveFoundOf, IsFound
    <2>2. /\ IsBlockResult(found, chain, slot, Tracked, LiveContext(slot, RootsFrom(chain, first, slot)))
          /\ \E r \in RootsFrom(chain, first, slot) : r <= EpochStartSlot(Epoch)
      BY <1>2, <2>1 DEF LiveFoundOf
    <2>3. /\ new \in AttestationRow /\ new.included /\ ~new.final /\ new.reward = Null
          /\ InclusionTrue(v, new)
      BY <1>3, <2>1, <2>2, LiveRowTrue
    <2>4. rows'[v] = Upsert(new, rows[v], done)
      BY <1>1, <1>5
    <2>5. done \in BOOLEAN
      BY DoneBoolean
    <2> HIDE DEF new, done
    <2> QED
      BY <1>4, <2>3, <2>4, <2>5, UpsertReal
  <1>6. \A v \in Tracked \ written : rows'[v] = rows[v]
    BY <1>1
  <1>7. ASSUME NEW v \in Tracked
        PROVE  LiveMove(v)
    <2>1. RowReal(v, rows'[v])
      BY <1>4, <1>5, <1>6
    <2>2. ASSUME InclusionSlots(v) \cap covered' # {}
          PROVE  rows'[v] # Null /\ rows'[v].included
      <3>1. CASE v \in written
        BY <1>5, <3>1
      <3>2. CASE v \notin written /\ InclusionSlots(v) \cap covered # {}
        BY <1>4, <1>6, <3>2
      <3>3. CASE v \notin written /\ InclusionSlots(v) \cap covered = {}
        <4>1. slot \in InclusionSlots(v) /\ results # {} /\ written = DOMAIN found
          BY <1>1, <2>2, <3>3
        <4>2. slot \in DOMAIN chain.body
          BY <4>1, InclusionAfterDuty
        <4>3. LiveContext(slot, RootsFrom(chain, first, slot)).targetEpoch = Epoch
          BY DEF LiveContext
        <4>4. v \in DOMAIN found
          BY <1>2, <4>1, <4>2, <4>3, BlockTrue
        <4> QED
          BY <3>3, <4>1, <4>4
      <3> QED
        BY <3>1, <3>2, <3>3
    <2>3. FinalRow(rows[v]) => rows'[v] = rows[v]
      BY <1>5, <1>6 DEF FinalRow
    <2> QED
      BY <2>1, <2>2, <2>3 DEF LiveMove
  <1> QED
    BY <1>1, <1>7, LiveTruth

LEMMA InclusionNotNull ==
    ASSUME ChainInv, NEW v \in Tracked
    PROVE  \A s \in InclusionSlots(v) : s # Null
  BY InclusionAfterDuty, NullAssumption

LEMMA SeedDutiesTruth ==
    ASSUME ChainInv, IInv, RowTruths, RowsKept, NEW duties, NEW written, SeedDuties(duties, written)
    PROVE  RowTruths'
  <1>1. /\ live
        /\ rows' = [v \in Tracked |->
             IF v \in written THEN Upsert(SeedRow, rows[v], Done(v)) ELSE rows[v]]
        /\ UNCHANGED <<chain, live, completed, covered, scan>>
    BY DEF SeedDuties, SeedRow
  <1>2. ASSUME NEW v \in Tracked
        PROVE  LiveMove(v)
    <2>1. /\ rows[v] \in AttestationRow \cup {Null}
          /\ RowReal(v, rows[v])
          /\ InclusionSlots(v) \cap covered # {} => rows[v] # Null /\ rows[v].included
      BY <1>1 DEF IInv, RowsTypeOK, RowTruths
    <2>2. CASE rows'[v] = rows[v]
      BY <1>1, <2>1, <2>2 DEF LiveMove
    <2>3. CASE rows'[v] # rows[v]
      <3> DEFINE old == rows[v]
                 new == rows'[v]
                 done == Done(v)
      <3>1. new = Upsert(SeedRow, old, done) /\ done \in BOOLEAN
        BY <1>1, <2>3, DoneBoolean
      <3> HIDE DEF done
      <3>2. /\ old = Null \/ Replaces(SeedRow, old, done)
            /\ Replaced(new, SeedRow, old)
        BY <2>1, <2>3, <3>1, SeedRowType, UpsertCases
      <3>3. old = Null \/ (~old.final /\ old.slot = Null)
        BY <3>2, SeedRowType DEF Replaces
      <3>4. /\ ~new.included /\ new.slot = Null /\ ~new.final
            /\ new.reward = IF old = Null THEN Null ELSE old.reward
        BY <3>2, SeedRowType DEF Replaced
      <3>5. old # Null => ~old.included
        <4>1. \A s \in InclusionSlots(v) : s # Null
          BY <1>1, InclusionNotNull
        <4> QED
          BY <2>1, <3>3, <4>1 DEF RowReal
      <3>6. RowReal(v, new)
        BY <2>1, <3>4 DEF RowReal, LiveRowReal
      <3>7. InclusionSlots(v) \cap covered = {}
        BY <2>1, <3>5
      <3>8. ~FinalRow(old)
        BY <3>3 DEF FinalRow
      <3> QED
        BY <1>1, <3>6, <3>7, <3>8 DEF LiveMove
    <2> QED
      BY <2>2, <2>3
  <1> QED
    BY <1>1, <1>2, LiveTruth

LEMMA JoinAttestationRewardsTruth ==
    ASSUME IInv, RowTruths, RowsKept, NEW joined, JoinAttestationRewards(joined)
    PROVE  RowTruths'
  <1>1. /\ live
        /\ rows' = [v \in Tracked |->
             IF joined /\ rows[v] # Null /\ ~rows[v].final
             THEN JoinReward(rows[v], RewardOf(v)) ELSE rows[v]]
        /\ UNCHANGED <<chain, live, completed, covered, scan>>
    BY DEF JoinAttestationRewards
  <1>2. ASSUME NEW v \in Tracked
        PROVE  LiveMove(v)
    <2>1. /\ rows[v] \in AttestationRow \cup {Null}
          /\ RowReal(v, rows[v])
          /\ InclusionSlots(v) \cap covered # {} => rows[v] # Null /\ rows[v].included
      BY <1>1 DEF IInv, RowsTypeOK, RowTruths
    <2>2. CASE rows'[v] = rows[v]
      BY <1>1, <2>1, <2>2 DEF LiveMove
    <2>3. CASE rows'[v] # rows[v]
      <3> DEFINE old == rows[v]
                 new == rows'[v]
      <3>1. new = JoinReward(old, RewardOf(v)) /\ old # Null /\ ~old.final /\ old \in AttestationRow
        BY <1>1, <2>1, <2>3
      <3>2. /\ new \in AttestationRow
            /\ new.included = old.included /\ new.slot = old.slot /\ new.delay = old.delay
            /\ new.effective = old.effective /\ new.final = old.final
            /\ new.reward = RewardOf(v)
            /\ \A c \in Components : old.marks[c] # Null => new.marks[c] = old.marks[c]
        BY <3>1, RewardTyped, JoinRewardCases
      <3>3. InclusionTrue(v, old) => InclusionTrue(v, new)
        BY <3>1, <3>2, SameInclusion
      <3>4. RowReal(v, new) /\ new # Null
        BY <2>1, <3>1, <3>2, <3>3, NullAssumption DEF RowReal, LiveRowReal
      <3>5. ~FinalRow(old)
        BY <3>1 DEF FinalRow
      <3> QED
        BY <1>1, <2>1, <3>2, <3>4, <3>5 DEF LiveMove
    <2> QED
      BY <2>2, <2>3
  <1> QED
    BY <1>1, <1>2, LiveTruth

\* A repair of one row: the inclusion it names is the one of the block, or
\* the row stays.
LEMMA RepairReal ==
    ASSUME ChainInv, NEW v \in Tracked, NEW slot \in InclusionSlots(v), NEW inc,
           TrueInclusion(inc, v, slot), NEW effective,
           effective = Cardinality({s \in chain.filled : DutySlot(v) < s /\ s <= slot}),
           NEW row \in AttestationRow, RowReal(v, row), row.included, NEW done \in BOOLEAN,
           NEW new, RepairOf(new, row, inc, effective, done)
    PROVE  /\ RowReal(v, new) /\ new # Null /\ new.included
           /\ AttestationTrue(v, row) => AttestationTrue(v, new)
           /\ Earliest(v, row) => Earliest(v, new)
  <1>1. new \in AttestationRow /\ new # Null /\ row # Null
    BY NullAssumption DEF RepairOf
  <1>2. CASE new = row
    BY <1>1, <1>2
  <1>3. CASE new # row
    <2>1. /\ row.slot >= slot /\ new.slot = slot /\ new.included
          /\ new.reward = row.reward /\ InclusionTrue(v, new)
      BY <1>3 DEF RepairOf, TrueInclusion, InclusionTrue
    <2>2. RowReal(v, new)
      <3>1. row.reward \in {Null, RewardOf(v)}
        BY <1>1 DEF RowReal, LiveRowReal
      <3> QED
        BY <2>1, <3>1, InclusionReal
    <2>3. AttestationTrue(v, row) => AttestationTrue(v, new)
      BY <2>1 DEF AttestationTrue
    <2>4. Earliest(v, row) => Earliest(v, new)
      <3>1. InclusionSlots(v) \subseteq Nat
        BY InclusionAfterDuty
      <3>2. Min(InclusionSlots(v)) \in Nat /\ Min(InclusionSlots(v)) <= slot
        BY <3>1, MinIn
      <3> QED
        BY <2>1, <3>1, <3>2 DEF Earliest
    <2> QED
      BY <1>1, <2>1, <2>2, <2>3, <2>4
  <1> QED
    BY <1>2, <1>3

LEMMA RepairDetailsTruth ==
    ASSUME ChainInv, IInv, RowTruths, RowsKept,
           NEW slot \in Window, NEW first \in chain.filled, RepairDetails(slot, first)
    PROVE  RowTruths'
  <1> DEFINE roots == {b \in chain.filled : first <= b /\ b <= slot}
             Up(v, found) == Upsert(LiveRow(v, found[v], roots), rows[v], Done(v))
             New(v, found) == Repaired(Up(v, found), found[v], LiveEffective(v, slot, roots), Done(v))
  <1>1. PICK found \in decoded.live[slot][first] :
          rows' = [v \in Tracked |-> IF v \in DOMAIN found THEN New(v, found) ELSE rows[v]]
    BY DEF RepairDetails
  <1>2. /\ live /\ slot \in DOMAIN chain.body /\ first <= slot
        /\ UNCHANGED <<chain, live, completed, covered, scan>>
    BY DEF RepairDetails
  <1>3. /\ LiveFoundOf(found, slot, first)
        /\ IsBlockResult(found, chain, slot, Tracked,
                         LiveContext(slot, RootsFrom(chain, first, slot)))
    BY <1>2, LiveFound
  <1>4. roots = RootsFrom(chain, first, slot) /\ roots \subseteq chain.filled /\ slot \in Nat
    BY SlotFacts DEF RootsFrom
  <1> HIDE DEF roots
  <1>5. /\ \A v \in Tracked : rows[v] \in AttestationRow \cup {Null}
        /\ \A v \in Tracked : RowReal(v, rows[v])
        /\ \A v \in Tracked : InclusionSlots(v) \cap covered # {} =>
             rows[v] # Null /\ rows[v].included
    BY <1>2 DEF IInv, RowsTypeOK, RowTruths
  <1>6. ASSUME NEW v \in Tracked, v \in DOMAIN found
        PROVE  LiveMove(v)
    <2> DEFINE fresh == LiveRow(v, found[v], roots)
               effective == LiveEffective(v, slot, roots)
               up == Up(v, found)
               new == New(v, found)
               done == Done(v)
    <2>1. /\ found[v] \in InclusionType
          /\ \E r \in RootsFrom(chain, first, slot) : r <= EpochStartSlot(Epoch)
      BY <1>2, <1>3, <1>6 DEF LiveFoundOf, IsFound
    <2>2. /\ slot \in InclusionSlots(v) /\ TrueInclusion(found[v], v, slot)
          /\ fresh \in AttestationRow /\ fresh.included /\ ~fresh.final /\ fresh.reward = Null
          /\ InclusionTrue(v, fresh)
          /\ effective = Cardinality({s \in chain.filled : DutySlot(v) < s /\ s <= slot})
      BY <1>2, <1>3, <1>4, <1>6, <2>1, LiveRowTrue
    <2>3. done \in BOOLEAN
      BY DoneBoolean
    <2>4. up = Upsert(fresh, rows[v], done) /\ new = Repaired(up, found[v], effective, done)
      OBVIOUS
    <2>10. /\ rows[v] \in AttestationRow \cup {Null}
           /\ roots \subseteq chain.filled /\ slot \in Nat
           /\ up = Upsert(LiveRow(v, found[v], roots), rows[v], done)
           /\ new = Repaired(up, found[v], LiveEffective(v, slot, roots), done)
      BY <1>4, <1>5
    <2>5. rows'[v] = new
      BY <1>1, <1>6
    <2> HIDE DEF up, new, done, fresh, effective
    <2>6. /\ RowReal(v, up) /\ up # Null /\ up.included /\ up \in AttestationRow
          /\ rows[v] # Null /\ rows[v].final => up = rows[v]
      BY <1>5, <2>2, <2>3, <2>4, UpsertReal
    <2>7. RepairOf(new, up, found[v], effective, done)
      <3>1. effective \in Nat
        BY <2>10, LiveEffectiveType DEF effective
      <3> QED
        BY <2>1, <2>3, <2>4, <2>6, <3>1, RepairedCases
    <2>8. /\ RowReal(v, new) /\ new # Null /\ new.included
          /\ AttestationTrue(v, up) => AttestationTrue(v, new)
          /\ Earliest(v, up) => Earliest(v, new)
      BY <2>2, <2>3, <2>6, <2>7, RepairReal
    <2> QED
      BY <1>2, <2>5, <2>6, <2>8 DEF LiveMove, FinalRow
  <1>7. ASSUME NEW v \in Tracked, v \notin DOMAIN found
        PROVE  LiveMove(v)
    <2>1. rows'[v] = rows[v]
      BY <1>1, <1>7
    <2> QED
      BY <1>2, <1>5, <2>1 DEF LiveMove
  <1> QED
    BY <1>2, <1>6, <1>7, LiveTruth

\* A row that Promote freezes.  A miss is known once the window is covered:
\* an inclusion in it would be on the row.
LEMMA PromotedReal ==
    ASSUME ChainInv, IInv, NEW v \in Tracked, NEW floor, RowReal(v, rows[v]),
           InclusionSlots(v) \cap covered # {} => rows[v] # Null /\ rows[v].included,
           NEW new,
           new = IF v \in Ready(floor) THEN [FrozenRow(v, floor) EXCEPT !.final = TRUE]
                 ELSE FrozenRow(v, floor)
    PROVE  /\ RowReal(v, new)
           /\ rows[v] # Null => new # Null /\ new.included = rows[v].included
           /\ FinalRow(rows[v]) /\ AttestationTrue(v, rows[v]) =>
                /\ AttestationTrue(v, new)
                /\ Earliest(v, rows[v]) => Earliest(v, new)
           /\ v \in Ready(floor) => AttestationTrue(v, new)
  <1> DEFINE frozen == FrozenRow(v, floor)
             old == rows[v]
             paid == RewardOf(v)
             ready == v \in Ready(floor)
             closed == Closed(floor)
  <1>1. IF old = Null THEN frozen = Null
        ELSE /\ FrozenFrom(frozen, old, paid) /\ frozen # Null
             /\ frozen.final => old.final \/ Proven(old, floor)
    BY FrozenRowCases
  <1>2. ready => /\ closed /\ frozen # Null /\ Detailed(frozen) /\ frozen.reward # Null
    BY DEF Ready
  <1>3. old \in AttestationRow \cup {Null}
    BY DEF IInv, RowsTypeOK
  <1>4. closed => (old # Null /\ ~old.included => InclusionSlots(v) = {})
    <2>1. InclusionSlots(v) \subseteq Window
      BY InclusionAfterDuty
    <2> QED
      BY <2>1 DEF Closed
  <1>5. new = IF ready THEN [frozen EXCEPT !.final = TRUE] ELSE frozen
    OBVIOUS
  <1>6. Proven(old, floor) /\ ~old.included => closed
    BY DEF Proven
  <1>7. CASE old = Null
    BY <1>1, <1>2, <1>5, <1>7 DEF FinalRow, RowReal
  <1>8. CASE old # Null
    <2>1. /\ frozen \in AttestationRow /\ old \in AttestationRow
          /\ FrozenFrom(frozen, old, paid)
          /\ frozen.final => old.final \/ Proven(old, floor)
      BY <1>1, <1>3, <1>8 DEF FrozenFrom
    <2>2. /\ RowReal(v, old)
          /\ LiveRowReal(v, old) /\ (old.included => old.slot \in InclusionSlots(v))
      BY <1>8 DEF RowReal
    <2> HIDE DEF frozen, old, ready, closed, paid
    <2>3. /\ new \in AttestationRow /\ new # Null
          /\ new.included = old.included /\ new.slot = old.slot /\ new.delay = old.delay
          /\ new.effective = old.effective /\ new.reward \in {old.reward, paid}
          /\ \A c \in Components : old.marks[c] # Null => new.marks[c] = old.marks[c]
          /\ new.final => old.final \/ Proven(old, floor) \/ closed
          /\ ready => Detailed(new) /\ new.reward # Null
      <3>1. CASE ready
        <4> DEFINE marked == [frozen EXCEPT !.final = TRUE]
        <4>1. /\ marked \in AttestationRow
              /\ marked.included = frozen.included /\ marked.slot = frozen.slot
              /\ marked.delay = frozen.delay /\ marked.effective = frozen.effective
              /\ marked.marks = frozen.marks /\ marked.reward = frozen.reward
          BY <2>1, FinalMarked
        <4>2. new = marked
          BY <1>5, <3>1
        <4> HIDE DEF marked
        <4> QED
          BY <1>2, <2>1, <3>1, <4>1, <4>2, NullAssumption DEF FrozenFrom, Detailed
      <3>2. CASE ~ready
        <4>1. new = frozen
          BY <1>5, <3>2
        <4> QED
          BY <2>1, <3>2, <4>1, NullAssumption DEF FrozenFrom
      <3> QED
        BY <3>1, <3>2
    <2>4. InclusionTrue(v, old) => InclusionTrue(v, new)
      BY <2>1, <2>3, SameInclusion
    <2>5. ~new.included => new.slot = Null /\ (new.final => InclusionSlots(v) = {})
      BY <1>4, <1>6, <1>8, <2>2, <2>3 DEF LiveRowReal
    <2>6. LiveRowReal(v, new)
      BY <2>2, <2>3, <2>4, <2>5 DEF LiveRowReal, paid
    <2>7. FinalRow(old) /\ AttestationTrue(v, old) =>
            AttestationTrue(v, new) /\ (Earliest(v, old) => Earliest(v, new))
      BY <2>3, <2>4 DEF AttestationTrue, Earliest, paid
    <2>8. ready => AttestationTrue(v, new)
      <3>1. ready => closed /\ Detailed(new) /\ new.reward # Null
        BY <1>2, <2>3
      <3>2. ready => new.reward = RewardOf(v)
        BY <2>6, <3>1 DEF LiveRowReal
      <3>3. ready /\ new.included => InclusionTrue(v, new)
        BY <2>6, <3>1 DEF LiveRowReal, Detailed
      <3>4. ready /\ ~new.included => InclusionSlots(v) = {}
        BY <1>4, <1>8, <2>3, <3>1
      <3> QED
        BY <3>2, <3>3, <3>4 DEF AttestationTrue
    <2> QED
      BY <2>2, <2>3, <2>6, <2>7, <2>8 DEF RowReal, old, ready
  <1> QED
    BY <1>7, <1>8

LEMMA PromoteTruth ==
    ASSUME ChainInv, IInv, RowTruths, NEW floor, Promote(floor)
    PROVE  RowTruths'
  <1> DEFINE Frozen(v) == IF v \in Ready(floor) THEN [FrozenRow(v, floor) EXCEPT !.final = TRUE]
                          ELSE FrozenRow(v, floor)
  <1>1. /\ live
        /\ rows' = [v \in Tracked |-> Frozen(v)]
        /\ completed' = [v \in Tracked |-> IF v \in Ready(floor) THEN "live" ELSE completed[v]]
        /\ UNCHANGED <<chain, live, covered, scan>>
    BY DEF Promote
  <1>2. ASSUME NEW v \in Tracked
        PROVE  /\ RowReal(v, rows[v])
               /\ InclusionSlots(v) \cap covered # {} => rows[v] # Null /\ rows[v].included
               /\ rows'[v] = Frozen(v)
               /\ rows[v] \in AttestationRow \cup {Null}
    BY <1>1 DEF RowTruths, IInv, RowsTypeOK
  <1>3. ASSUME NEW v \in Tracked
        PROVE  /\ RowReal(v, rows'[v])
               /\ rows[v] # Null => rows'[v] # Null /\ rows'[v].included = rows[v].included
               /\ FinalRow(rows[v]) /\ AttestationTrue(v, rows[v]) =>
                    /\ AttestationTrue(v, rows'[v])
                    /\ Earliest(v, rows[v]) => Earliest(v, rows'[v])
               /\ v \in Ready(floor) => AttestationTrue(v, rows'[v])
    BY <1>2, PromotedReal
  <1>4. \A v \in Tracked : Done(v) => rows'[v] = rows[v]
    BY <1>2, PromotedRow
  <1>5. ASSUME NEW v \in Tracked
        PROVE  /\ Done(v) => Done(v)'
               /\ Done(v)' => Done(v) \/ v \in Ready(floor)
               /\ completed'[v] = "archive" => completed[v] = "archive" /\ v \notin Ready(floor)
    BY <1>1, NullAssumption DEF Done
  <1> HIDE DEF Frozen
  <1>6. \A v, row : LiveRowReal(v, row)' <=> LiveRowReal(v, row)
    BY <1>1, TruthStable
  <1>7. live' => \A v \in Tracked :
          /\ RowReal(v, rows[v])'
          /\ (InclusionSlots(v) \cap covered # {} => rows[v] # Null /\ rows[v].included)'
    BY <1>1, <1>2, <1>3, <1>6, TruthStable DEF RowReal
  <1>8. WrittenDuties' = WrittenDuties /\ WrittenDuties \subseteq Tracked
    BY <1>1 DEF WrittenDuties, IInv, ScanTypeOK, ScanType
  <1>9. ASSUME NEW v \in WrittenDuties
        PROVE  AttestationTrue(v, rows'[v]) /\ (Done(v)' \/ Earliest(v, rows'[v]))
    <2>1. AttestationTrue(v, rows[v]) /\ (Done(v) \/ Earliest(v, rows[v])) /\ FinalRow(rows[v])
      BY DEF RowTruths, IInv, DutiesWritten
    <2> QED
      BY <1>3, <1>5, <1>8, <2>1
  <1>10. \A v \in WrittenDuties' :
           (AttestationTrue(v, rows[v]) /\ (Done(v) \/ Earliest(v, rows[v])))'
    BY <1>1, <1>8, <1>9, TruthStable
  <1>11. ASSUME NEW v \in Tracked, Done(v)'
         PROVE  /\ AttestationTrue(v, rows'[v])
                /\ completed'[v] = "archive" => Earliest(v, rows'[v])
    BY <1>3, <1>4, <1>5, <1>11 DEF RowTruths, Done
  <1>12. \A v \in Tracked :
          (Done(v) => /\ AttestationTrue(v, rows[v])
                      /\ completed[v] = "archive" => Earliest(v, rows[v]))'
    BY <1>1, <1>11, TruthStable
  <1> QED
    BY <1>7, <1>10, <1>12 DEF RowTruths

\* Steps that write no attestation row.
QuietStep ==
  /\ UNCHANGED <<chain, live, rows, completed, covered>>
  /\ WrittenDuties' \subseteq WrittenDuties

LEMMA ScanStepsQuiet ==
    ASSUME IInv,
           \/ \E duties, rewarded : BeginScan(duties, rewarded)
           \/ BeginProposals \/ WriteProposal
           \/ \E k \in SyncMembers \X EpochSlots : WriteSync(k)
           \/ \E served : BeginSync(served)
           \/ SyncUnavailable \/ ScanFails
    PROVE  QuietStep
  <1>1. ASSUME NEW duties, NEW rewarded, BeginScan(duties, rewarded)
        PROVE  QuietStep
    <2>1. /\ scan'.stage = "attestations" /\ scan'.validators = {v \in Tracked : ~Done(v)}
          /\ scan'.todo = {v \in Tracked : ~Done(v)} \cap duties
          /\ UNCHANGED <<chain, live, rows, completed, covered>>
      BY <1>1 DEF BeginScan, NoScan
    <2>2. {v \in Tracked : ~Done(v)} \subseteq duties
      BY <1>1 DEF BeginScan, ValidResponse
    <2>3. WrittenDuties' = {}
      BY <2>1, <2>2 DEF WrittenDuties
    <2> QED
      BY <2>1, <2>3 DEF QuietStep
  <1>2. CASE BeginProposals
    <2>1. /\ scan.stage = "attestations" /\ scan.todo = {}
          /\ scan'.stage = "proposals" /\ scan'.validators = scan.validators
          /\ UNCHANGED <<chain, live, rows, completed, covered>>
      BY <1>2 DEF BeginProposals, IInv, ScanTypeOK, ScanType
    <2> QED
      BY <2>1 DEF QuietStep, WrittenDuties
  <1>3. CASE WriteProposal
    <2>1. /\ scan.stage = "proposals"
          /\ scan'.stage = "proposals" /\ scan'.validators = scan.validators
          /\ UNCHANGED <<chain, live, rows, completed, covered>>
      BY <1>3 DEF WriteProposal, IInv, ScanTypeOK, ScanType
    <2> QED
      BY <2>1 DEF QuietStep, WrittenDuties
  <1>4. ASSUME NEW k, WriteSync(k)
        PROVE  QuietStep
    <2>1. /\ scan.stage = "sync"
          /\ scan'.stage = "sync" /\ scan'.validators = scan.validators
          /\ UNCHANGED <<chain, live, rows, completed, covered>>
      BY <1>4 DEF WriteSync, IInv, ScanTypeOK, ScanType
    <2> QED
      BY <2>1 DEF QuietStep, WrittenDuties
  <1>5. ASSUME NEW served, BeginSync(served)
        PROVE  QuietStep
    <2>1. /\ scan.stage = "proposals"
          /\ scan'.stage = "sync" /\ scan'.validators = scan.validators
          /\ UNCHANGED <<chain, live, rows, completed, covered>>
      BY <1>5 DEF BeginSync, IInv, ScanTypeOK, ScanType
    <2> QED
      BY <2>1 DEF QuietStep, WrittenDuties
  <1>6. CASE SyncUnavailable \/ ScanFails
    <2>1. scan' = NoScan /\ UNCHANGED <<chain, live, rows, completed, covered>>
      BY <1>6 DEF SyncUnavailable, ScanFails
    <2> QED
      BY <2>1 DEF QuietStep, WrittenDuties, NoScan
  <1> QED
    BY <1>1, <1>2, <1>3, <1>4, <1>5, <1>6

LEMMA JoinsQuiet ==
    ASSUME NEW slot, NEW joined,
           JoinProposalReward(slot, joined) \/ JoinSyncRewards(slot, joined) \/ UNCHANGED vars
    PROVE  QuietStep
  <1>1. JoinProposalReward(slot, joined) =>
          UNCHANGED <<chain, live, rows, completed, covered, scan>>
    BY DEF JoinProposalReward
  <1>2. JoinSyncRewards(slot, joined) =>
          UNCHANGED <<chain, live, rows, completed, covered, scan>>
    BY DEF JoinSyncRewards
  <1>3. UNCHANGED vars => UNCHANGED <<chain, live, rows, completed, covered, scan>>
    BY DEF vars
  <1> QED
    BY <1>1, <1>2, <1>3 DEF QuietStep, WrittenDuties

LEMMA InitTruth ==
    ASSUME Init
    PROVE  RowTruths
  <1>1. ChainInv
    BY DEF Init, ChainInv
  <1>2. /\ completed = [v \in Tracked |-> Null] /\ scan = NoScan /\ covered = {}
        /\ \A v \in Tracked : rows[v] \in EarlierRows(v) \cup {Null}
    BY DEF Init
  <1>3. WrittenDuties = {}
    BY <1>2 DEF WrittenDuties, NoScan
  <1>4. \A v \in Tracked : ~Done(v)
    BY <1>2 DEF Done
  <1>5. ASSUME live, NEW v \in Tracked
        PROVE  RowReal(v, rows[v])
    <2>1. CASE rows[v] = Null
      BY <2>1 DEF RowReal
    <2>2. CASE rows[v] # Null
      <3>1. PICK s \in InclusionSlots(v) : rows[v] = LegacyRow(v, s)
        BY <1>2, <1>5, <2>2 DEF EarlierRows
      <3> DEFINE row == LegacyRow(v, s)
      <3>2. /\ row.included /\ ~row.final /\ row.slot = s /\ row.delay = s - DutySlot(v)
            /\ row.effective = Null /\ row.reward = RewardOf(v)
        BY <1>1, LegacyRowCases
      <3> HIDE DEF row
      <3>3. RowReal(v, row)
        BY <3>2 DEF RowReal, LiveRowReal
      <3> QED
        BY <3>1, <3>3 DEF row
    <2> QED
      BY <2>1, <2>2
  <1> QED
    BY <1>2, <1>3, <1>4, <1>5 DEF RowTruths

LEMMA NextTruth ==
    ASSUME ChainInv, IInv, RowTruths, [Next]_vars
    PROVE  RowTruths'
  <1>1. RowsKept
    BY NextKeeps, StutterKeeps DEF Kept
  <1>2. QuietStep => RowTruths'
    BY ScanTruth DEF QuietStep
  <1>3. ASSUME NEW duties \in SUBSET Tracked, NEW rewarded \in SUBSET Tracked,
               BeginScan(duties, rewarded)
        PROVE  RowTruths'
    BY <1>2, <1>3, ScanStepsQuiet
  <1>4. ASSUME NEW v \in Tracked, WriteDuty(v)
        PROVE  RowTruths'
    BY <1>4, WriteDutyTruth
  <1>5. CASE \/ BeginProposals \/ WriteProposal \/ SyncUnavailable \/ ScanFails
             \/ \E k \in SyncMembers \X EpochSlots : WriteSync(k)
    BY <1>2, <1>5, ScanStepsQuiet
  <1>6. ASSUME NEW served \in SUBSET EpochSlots, BeginSync(served)
        PROVE  RowTruths'
    BY <1>2, <1>6, ScanStepsQuiet
  <1>7. CASE MarkComplete
    BY <1>7, MarkCompleteTruth
  <1>8. ASSUME NEW duties \in SUBSET Tracked, NEW written \in SUBSET Tracked,
               SeedDuties(duties, written)
        PROVE  RowTruths'
    BY <1>1, <1>8, SeedDutiesTruth
  <1>9. ASSUME NEW slot \in Window, NEW first \in chain.filled, NEW written \in SUBSET Tracked,
               NEW last \in {"proposal", "sync", "votes"}, ProcessSlot(slot, first, last, written)
        PROVE  RowTruths'
    BY <1>1, <1>9, ProcessSlotTruth
  <1>10. ASSUME NEW joined \in BOOLEAN, JoinAttestationRewards(joined)
         PROVE  RowTruths'
    BY <1>1, <1>10, JoinAttestationRewardsTruth
  <1>11. ASSUME NEW slot \in EpochSlots, NEW joined \in BOOLEAN,
                JoinProposalReward(slot, joined) \/ JoinSyncRewards(slot, joined)
         PROVE  RowTruths'
    BY <1>2, <1>11, JoinsQuiet
  <1>12. ASSUME NEW slot \in Window, NEW first \in chain.filled, RepairDetails(slot, first)
         PROVE  RowTruths'
    BY <1>1, <1>12, RepairDetailsTruth
  <1>13. ASSUME NEW floor \in chain.filled, Promote(floor)
         PROVE  RowTruths'
    BY <1>13, PromoteTruth
  <1>14. CASE UNCHANGED vars
    BY <1>2, <1>14, JoinsQuiet
  <1> QED
    BY <1>3, <1>4, <1>5, <1>6, <1>7, <1>8, <1>9, <1>10, <1>11, <1>12, <1>13, <1>14
       DEF Next, ArchiveStep, LiveStep

\* Every row says what the chain says, as far as its writers know it: those of
\* the archive's scan, those of the live worker and those of the completed
\* epochs (scanner/attestations, live/finalization.rs).
THEOREM ScannerRowsTrue ==
    Spec => []RowsInv
  <1>1. Init => RowTruths
    BY InitTruth
  <1>2. ChainInv /\ IInv /\ RowTruths /\ [Next]_vars => RowTruths'
    BY NextTruth
  <1>3. RowTruths => RowsInv
    BY RowTruthsIs
  <1> QED
    BY <1>1, <1>2, <1>3, ChainForever, ScannerProgress, PTL DEF Spec

\* A completed attestation says what the chain says, whichever of the archive's
\* modes and the live worker wrote it, and whatever each overwrote
\* (db/scanner/attestations.rs, live/finalization.rs).
THEOREM ScannerAttestationsTrue ==
    Spec => []CompletedAttestationsTrue
  <1>1. RowsInv => CompletedAttestationsTrue
    BY DEF RowsInv
  <1> QED
    BY <1>1, ScannerRowsTrue, PTL

\* Before that, no row of the live worker shows an inclusion that is not on the
\* chain (live/mod.rs process_slot, live/finalization.rs).
THEOREM ScannerInclusionsReal ==
    Spec => []IncludedRowsReal
  <1>1. RowsInv => IncludedRowsReal
    BY DEF RowsInv
  <1> QED
    BY <1>1, ScannerRowsTrue, PTL

=============================================================================
