---------------------------- MODULE CensusProofs -----------------------------
(***************************************************************************)
(* Census, for any addresses, weights, widths and bounds.  The types hold   *)
(* always; ProofsMatch whatever Env allows, as long as the process is not  *)
(* restarted; what needs callers that tell the truth is under Truthful,    *)
(* and what the disk keeps of additions, updates and imports under Plain.  *)
(***************************************************************************)
EXTENDS Census, SequenceTheorems, WellFoundedInduction, TLAPS

-----------------------------------------------------------------------------
(* The CHOOSEs of Census find what they look for. *)

\* A set of naturals that is not empty has a least member.
LEMMA LeastExists ==
    ASSUME NEW T \in SUBSET Nat, T # {}
    PROVE  \E m \in T : \A k \in T : m <= k
<1>1. PICK m \in T : \A k \in T : ~(<<k, m>> \in OpToRel(<, Nat))
  BY NatLessThanWellFounded, WFMin, Zenon
<1>2. ASSUME NEW k \in T PROVE m <= k
  <2>1. <<k, m>> \in OpToRel(<, Nat) <=> k < m
    BY DEF OpToRel
  <2>2. ~(<<k, m>> \in OpToRel(<, Nat))
    BY <1>1, Zenon
  <2>3. ~(k < m)
    BY <2>1, <2>2, Zenon
  <2>4. k \in Nat /\ m \in Nat
    OBVIOUS
  <2> QED BY <2>3, <2>4
<1> QED BY <1>2

\* A bounded one has a greatest.
LEMMA GreatestExists ==
    ASSUME NEW n \in Nat, NEW T \in SUBSET (0..n), T # {}
    PROVE  \E m \in T : \A k \in T : k <= m
<1> DEFINE Mirror == {n - k : k \in T}
<1>0. PICK t \in T : TRUE
  OBVIOUS
<1>1. Mirror \in SUBSET Nat /\ Mirror # {}
  <2>1. \A k \in T : k \in Nat /\ k <= n
    OBVIOUS
  <2>2. n - t \in Mirror
    OBVIOUS
  <2> QED BY <2>1, <2>2
<1>2. PICK m \in Mirror : \A k \in Mirror : m <= k
  BY <1>1, LeastExists
<1>3. PICK l \in T : m = n - l
  BY <1>2
<1>4. ASSUME NEW k \in T PROVE k <= l
  <2>1. n - k \in Mirror
    OBVIOUS
  <2>2. n - l <= n - k
    BY <1>2, <1>3, <2>1
  <2> QED BY <2>2
<1> QED BY <1>4

\* IndexOf finds a leaf that is there.
LEMMA IndexOfFinds ==
    ASSUME leaves \in Seq(Leaf), NEW leaf, Contains(leaf)
    PROVE  IndexOf(leaf) \in 0..(Len(leaves) - 1) /\ LeafAt(IndexOf(leaf)) = leaf
<1> DEFINE T == {i \in 0..(Len(leaves) - 1) : LeafAt(i) = leaf}
<1>1. T \in SUBSET Nat /\ T # {}
  BY DEF Contains
<1>2. PICK m \in T : \A k \in T : m <= k
  BY <1>1, LeastExists
<1>3. \A j \in 0..(m - 1) : LeafAt(j) # leaf
  <2> SUFFICES ASSUME NEW j \in 0..(m - 1), LeafAt(j) = leaf PROVE FALSE
    OBVIOUS
  <2>1. j \in T /\ j < m
    OBVIOUS
  <2> QED BY <2>1, <1>2
<1>4. \E i \in 0..(Len(leaves) - 1) :
         LeafAt(i) = leaf /\ \A j \in 0..(i - 1) : LeafAt(j) # leaf
  BY <1>2, <1>3
<1> QED BY <1>4 DEF IndexOf

\* Every address of a batch has a last place in it.
LEMMA LastExists ==
    ASSUME NEW n \in Nat, NEW addrs \in [1..n -> Address], NEW a \in Range(addrs)
    PROVE  \E i \in DOMAIN addrs :
              addrs[i] = a /\ \A j \in DOMAIN addrs : addrs[j] = a => j <= i
<1> DEFINE T == {i \in 1..n : addrs[i] = a}
<1>1. T \in SUBSET (0..n) /\ T # {}
  BY DEF Range
<1>2. PICK m \in T : \A k \in T : k <= m
  BY <1>1, GreatestExists
<1> QED BY <1>2

\* Packing keeps address and weight apart.
LEMMA PackInjective ==
    ASSUME NEW a \in Nat, NEW b \in Nat,
           NEW v \in 0..(WeightLimit - 1), NEW w \in 0..(WeightLimit - 1),
           PackAddressWeight(a, v) = PackAddressWeight(b, w)
    PROVE  a = b
<1>1. ASSUME NEW x \in Nat, NEW y \in Nat, x < y,
             NEW p \in 0..(WeightLimit - 1), NEW q \in Nat
      PROVE  x * WeightLimit + p < y * WeightLimit + q
  <2>1. PICK d \in Nat : y = x + 1 + d
    <3>1. y - x - 1 \in Nat /\ y = x + 1 + (y - x - 1)
      BY <1>1
    <3> QED BY <3>1
  <2>2. WeightLimit \in Nat
    BY CensusAssumption
  <2>3. y * WeightLimit = x * WeightLimit + WeightLimit + d * WeightLimit
    BY <2>1, <2>2
  <2>4. x * WeightLimit \in Nat /\ d * WeightLimit \in Nat
    BY <2>2
  <2> HIDE <2>1
  <2> QED BY <2>2, <2>3, <2>4
<1>2. v \in Nat /\ w \in Nat
  BY CensusAssumption
<1>3. WeightLimit \in Nat
  BY CensusAssumption
<1>4. a * WeightLimit \in Nat /\ b * WeightLimit \in Nat
  BY <1>3
<1>5. CASE a < b
  <2>1. a * WeightLimit + v < b * WeightLimit + w
    BY <1>1, <1>2, <1>5
  <2> QED BY <2>1, <1>2, <1>4 DEF PackAddressWeight
<1>6. CASE b < a
  <2>1. b * WeightLimit + w < a * WeightLimit + v
    BY <1>1, <1>2, <1>6
  <2> QED BY <2>1, <1>2, <1>4 DEF PackAddressWeight
<1> QED BY <1>5, <1>6

\* So two addresses never pack to the same leaf.
LEMMA LeavesDiffer ==
    ASSUME NEW a \in Address, NEW b \in Address, a # b,
           NEW v \in Weight, NEW w \in Weight
    PROVE  PackAddressWeight(a, v) # PackAddressWeight(b, w)
BY CensusAssumption, PackInjective

\* Whatever is packed is a leaf.
LEMMA PackIsLeaf ==
    ASSUME NEW a \in Address, NEW w \in Weight
    PROVE  PackAddressWeight(a, w) \in Leaf
BY DEF Leaf

\* A leaf unpacks to the address it was packed from.
LEMMA UnpackPacked ==
    ASSUME NEW a \in Address, NEW w \in Weight
    PROVE  UnpackAddress(PackAddressWeight(a, w)) = a
<1>1. a \in Nat /\ w \in Nat /\ w < WeightLimit /\ WeightLimit \in Nat \ {0}
  BY CensusAssumption
<1>2. WeightLimit * a + w = a * WeightLimit + w
  BY <1>1
<1>3. (WeightLimit * a + w) \div WeightLimit = a
  BY <1>1
<1> QED BY <1>2, <1>3 DEF UnpackAddress, PackAddressWeight

\* Only address 0 with weight 0, which is an empty participant, packs to 0.
LEMMA PackedNotZero ==
    ASSUME NEW a \in Address, NEW w \in Weight, ~IsEmptyParticipant(a, w)
    PROVE  PackAddressWeight(a, w) # 0
<1>1. a \in Nat /\ w \in Nat /\ WeightLimit \in Nat \ {0}
  BY CensusAssumption
<1>2. CASE a = 0
  <2>1. w # 0 /\ 0 * WeightLimit = 0
    BY <1>1, <1>2 DEF IsEmptyParticipant
  <2> QED BY <1>1, <1>2, <2>1 DEF PackAddressWeight
<1>3. CASE a # 0
  <2>1. UnpackAddress(PackAddressWeight(a, w)) = a
    BY UnpackPacked
  <2>2. 0 \div WeightLimit = 0
    BY <1>1
  <2> QED BY <1>3, <2>1, <2>2 DEF UnpackAddress
<1> QED BY <1>2, <1>3

-----------------------------------------------------------------------------
(* Maps *)

\* Merging, storing and deleting keep the types of a map.
LEMMA MergeTyped ==
    ASSUME NEW D, NEW R, NEW f, NEW g, IsMap(f, D, R), IsMap(g, D, R)
    PROVE  IsMap(Merge(f, g), D, R)
BY DEF IsMap, Merge

\* Storing one entry in a Go map.
LEMMA StoreTyped ==
    ASSUME NEW D, NEW R, NEW f, IsMap(f, D, R), NEW k \in D, NEW v \in R
    PROVE  IsMap(Store(f, k, v), D, R)
BY DEF IsMap, Store, Merge

\* Keeping some of its keys.
LEMMA RestrictTyped ==
    ASSUME NEW D, NEW R, NEW f, IsMap(f, D, R), NEW S, S \subseteq DOMAIN f
    PROVE  IsMap(Restrict(f, S), D, R)
BY DEF IsMap, Restrict

\* Deleting some of its keys.
LEMMA DeleteTyped ==
    ASSUME NEW D, NEW R, NEW f, IsMap(f, D, R), NEW S
    PROVE  IsMap(Delete(f, S), D, R)
BY DEF IsMap, Delete, Restrict

\* The empty map has every type.
LEMMA NoEntryTyped == \A D, R : IsMap(NoEntry, D, R)
BY DEF IsMap, NoEntry

-----------------------------------------------------------------------------
(* Type correctness *)

\* The two halves of TypeOK that an action treats together.
MapsTyped ==
    /\ IsMap(addressIndex, Address, Nat) /\ IsMap(indexToAddress, Nat, Address)
    /\ IsMap(weights, Address, Weight)
KeysTyped ==
    /\ diskSize \in Nat
    /\ IsMap(diskAddress, Nat, Address) /\ IsMap(diskWeight, Address, Weight)

\* What an import writes when it ends: every address it knows has a leaf.
ImportIndexed ==
    op.call = "import" =>
        /\ Up
        /\ \A a \in DOMAIN addressIndex :
              \E k \in DOMAIN leaves : leaves[k] # 0 /\ UnpackAddress(leaves[k]) = a

\* Idle is a value of op, and so is every call without an event.
LEMMA IdleTyped ==
    \A c \in {"none", "apply", "importEvents", "import"} :
       [Idle EXCEPT !.call = c] \in [call : {"none", "apply", "importEvents", "import"},
                                     event : Event \union {NoEvent}, last : Nat]
BY DEF Idle

\* Idle is a call without an event.
LEMMA IdleIsNone == Idle \in [call : {"none", "apply", "importEvents", "import"},
                              event : Event \union {NoEvent}, last : Nat]
BY DEF Idle

\* What an import writes for an index is an address that has this index.
LEMMA ImportedAddressHasIndex ==
    ASSUME TypeOK, ImportIndexed, op.call = "import", NEW i \in Range(addressIndex)
    PROVE  ImportedAddress[i] \in DOMAIN addressIndex /\ addressIndex[ImportedAddress[i]] = i
<1>1. leaves \in Seq(Leaf) /\ Len(leaves) \in Nat /\ DOMAIN leaves = 1..Len(leaves)
  BY DEF TypeOK
<1>2. PICK a \in DOMAIN addressIndex : addressIndex[a] = i
  BY DEF Range
<1>3. PICK k \in DOMAIN leaves : leaves[k] # 0 /\ UnpackAddress(leaves[k]) = a
  BY <1>2 DEF ImportIndexed
<1>4. Importers(i) \in SUBSET (0..Len(leaves)) /\ Importers(i) # {}
  <2>1. k \in Importers(i)
    BY <1>2, <1>3 DEF Importers
  <2> QED BY <1>1, <2>1 DEF Importers
<1>5. \E l \in Importers(i) : \A j \in Importers(i) : j <= l
  BY <1>1, <1>4, GreatestExists
<1> DEFINE last == CHOOSE l \in Importers(i) : \A j \in Importers(i) : j <= l
<1>6. last \in Importers(i)
  BY <1>5
<1>7. ImportedAddress[i] = UnpackAddress(leaves[last])
  BY DEF ImportedAddress
<1> HIDE DEF last
<1> QED BY <1>6, <1>7 DEF Importers

\* The transactions write what they are given.
LEMMA PersistTyped ==
    ASSUME KeysTyped, NEW size \in Nat,
           NEW addressOf, IsMap(addressOf, Nat, Address),
           NEW weightOf, IsMap(weightOf, Address, Weight),
           PersistEntries(size, addressOf, weightOf)
    PROVE  KeysTyped'
<1>1. IsMap(Merge(addressOf, diskAddress), Nat, Address)
  BY MergeTyped DEF KeysTyped
<1>2. IsMap(Merge(weightOf, diskWeight), Address, Weight)
  BY MergeTyped DEF KeysTyped
<1> QED BY <1>1, <1>2 DEF PersistEntries, Commit, KeysTyped, mapKeys

\* TreeSync saves a list of leaves.
LEMMA TreeSyncTyped ==
    ASSUME TypeOK, TreeSync
    PROVE  saved' \in Seq(Leaf) /\ dirty' \in BOOLEAN
BY DEF TypeOK, TreeSync

\* ResetPersistentState keeps the types of the keys.
LEMMA ResetTyped ==
    ASSUME TypeOK, ResetPersistentState
    PROVE  saved' \in Seq(Leaf) /\ KeysTyped'
<1>1. CASE HasDB
  <2>1. IsMap(diskAddress', Nat, Address) /\ IsMap(diskWeight', Address, Weight)
    BY <1>1, DeleteTyped DEF ResetPersistentState, TypeOK
  <2>2. diskSize' \in Nat
    BY <1>1 DEF ResetPersistentState
  <2>3. saved' = <<>>
    BY <1>1 DEF ResetPersistentState
  <2> QED BY <2>1, <2>2, <2>3, EmptySeq DEF KeysTyped
<1>2. CASE ~HasDB
  BY <1>2 DEF ResetPersistentState, TypeOK, KeysTyped, mapKeys
<1> QED BY <1>1, <1>2

\* Empty maps have their types.
LEMMA ClearedTyped ==
    ASSUME ClearMaps
    PROVE  MapsTyped'
BY NoEntryTyped DEF ClearMaps, MapsTyped

\* SetEntry keeps the types of the maps.
LEMMA SetEntryTyped ==
    ASSUME MapsTyped, NEW a \in Address, NEW index \in Nat, NEW w \in Weight,
           SetEntry(a, index, w)
    PROVE  MapsTyped'
<1>1. IsMap(Store(addressIndex, a, index), Address, Nat)
  BY StoreTyped DEF MapsTyped
<1>2. IsMap(Store(indexToAddress, index, a), Nat, Address)
  BY StoreTyped DEF MapsTyped
<1>3. IsMap(Store(weights, a, w), Address, Weight)
  BY StoreTyped DEF MapsTyped
<1> QED BY <1>1, <1>2, <1>3 DEF SetEntry, MapsTyped

\* The locals of AddEntries: where an address comes last, and what is stored for it.
LastIn(addrs) ==
    [a \in Range(addrs) |->
        CHOOSE i \in DOMAIN addrs :
            addrs[i] = a /\ \A j \in DOMAIN addrs : addrs[j] = a => j <= i]
AddressOf(addrs) == [i \in Len(leaves)..(Len(leaves) + Len(addrs) - 1) |->
                        addrs[i - Len(leaves) + 1]]
WeightOf(addrs, ws) == [a \in Range(addrs) |-> ws[LastIn(addrs)[a]]]
IndexIn(addrs) == [a \in Range(addrs) |-> Len(leaves) + LastIn(addrs)[a] - 1]

\* What AddEntries stores for each address of a batch has its type.
LEMMA EntriesTyped ==
    ASSUME leaves \in Seq(Leaf), NEW n \in Nat,
           NEW addrs \in [1..n -> Address], NEW ws \in [1..n -> Weight]
    PROVE  /\ \A a \in Range(addrs) :
                 /\ LastIn(addrs)[a] \in 1..n /\ addrs[LastIn(addrs)[a]] = a
                 /\ \A j \in 1..n : addrs[j] = a => j <= LastIn(addrs)[a]
           /\ IsMap(AddressOf(addrs), Nat, Address)
           /\ IsMap(WeightOf(addrs, ws), Address, Weight)
           /\ IsMap(IndexIn(addrs), Address, Nat)
<1>1. Len(addrs) = n /\ DOMAIN addrs = 1..n /\ Len(leaves) \in Nat
  OBVIOUS
<1>2. ASSUME NEW a \in Range(addrs)
      PROVE  /\ LastIn(addrs)[a] \in 1..n /\ addrs[LastIn(addrs)[a]] = a
             /\ \A j \in 1..n : addrs[j] = a => j <= LastIn(addrs)[a]
  <2>1. \E i \in DOMAIN addrs :
           addrs[i] = a /\ \A j \in DOMAIN addrs : addrs[j] = a => j <= i
    BY LastExists
  <2>2. LastIn(addrs)[a] = CHOOSE i \in DOMAIN addrs :
           addrs[i] = a /\ \A j \in DOMAIN addrs : addrs[j] = a => j <= i
    BY DEF LastIn
  <2> QED BY <1>1, <2>1, <2>2
<1>3. Range(addrs) \subseteq Address
  BY DEF Range
<1>4. IsMap(AddressOf(addrs), Nat, Address)
  <2>1. ASSUME NEW i \in Len(leaves)..(Len(leaves) + n - 1)
        PROVE  i \in Nat /\ addrs[i - Len(leaves) + 1] \in Address
    <3>1. i - Len(leaves) + 1 \in 1..n
      BY <1>1
    <3> QED BY <3>1, <1>1
  <2> QED BY <1>1, <2>1 DEF AddressOf, IsMap
<1>5. IsMap(WeightOf(addrs, ws), Address, Weight)
  BY <1>2, <1>3 DEF WeightOf, IsMap
<1>6. IsMap(IndexIn(addrs), Address, Nat)
  BY <1>1, <1>2, <1>3 DEF IndexIn, IsMap
<1> QED BY <1>2, <1>4, <1>5, <1>6

\* AddEntries in these words.
LEMMA AddEntriesDoes ==
    ASSUME NEW addrs, NEW ws, AddEntries(addrs, ws)
    PROVE  /\ Unlocked
           /\ leaves' = leaves \o [i \in DOMAIN addrs |-> PackAddressWeight(addrs[i], ws[i])]
           /\ dirty' = TRUE
           /\ addressIndex' = Merge(IndexIn(addrs), addressIndex)
           /\ indexToAddress' = Merge(AddressOf(addrs), indexToAddress)
           /\ weights' = Merge(WeightOf(addrs, ws), weights)
           /\ PersistEntries(Len(leaves) + Len(addrs), AddressOf(addrs), WeightOf(addrs, ws))
           /\ UNCHANGED <<saved, op, proc>>
BY DEF AddEntries, LastIn, AddressOf, WeightOf, IndexIn

\* Add and AddBulk keep the types.
LEMMA AddTypes ==
    ASSUME TypeOK, NEW n \in Nat, NEW addrs \in [1..n -> Address],
           NEW ws \in [1..n -> Weight], AddEntries(addrs, ws)
    PROVE  TypeOK'
<1>1. leaves' \in Seq(Leaf)
  <2> DEFINE new == [i \in 1..n |-> PackAddressWeight(addrs[i], ws[i])]
  <2>1. new \in Seq(Leaf)
    BY PackIsLeaf
  <2>2. DOMAIN addrs = 1..n
    OBVIOUS
  <2>3. leaves' = leaves \o [i \in DOMAIN addrs |-> PackAddressWeight(addrs[i], ws[i])]
    BY AddEntriesDoes
  <2>4. leaves' = leaves \o new
    BY <2>2, <2>3
  <2> HIDE DEF new
  <2> QED BY <2>1, <2>4, ConcatProperties DEF TypeOK
<1>2. /\ IsMap(AddressOf(addrs), Nat, Address)
      /\ IsMap(WeightOf(addrs, ws), Address, Weight)
      /\ IsMap(IndexIn(addrs), Address, Nat)
  BY EntriesTyped DEF TypeOK
<1>3. MapsTyped'
  <2>1. IsMap(Merge(IndexIn(addrs), addressIndex), Address, Nat)
    BY <1>2, MergeTyped DEF TypeOK
  <2>2. IsMap(Merge(AddressOf(addrs), indexToAddress), Nat, Address)
    BY <1>2, MergeTyped DEF TypeOK
  <2>3. IsMap(Merge(WeightOf(addrs, ws), weights), Address, Weight)
    BY <1>2, MergeTyped DEF TypeOK
  <2>4. /\ addressIndex' = Merge(IndexIn(addrs), addressIndex)
        /\ indexToAddress' = Merge(AddressOf(addrs), indexToAddress)
        /\ weights' = Merge(WeightOf(addrs, ws), weights)
    BY AddEntriesDoes
  <2> QED BY <2>1, <2>2, <2>3, <2>4 DEF MapsTyped
<1>5. KeysTyped'
  <2>1. Len(leaves) + Len(addrs) \in Nat /\ KeysTyped
    BY DEF TypeOK, KeysTyped
  <2>2. PersistEntries(Len(leaves) + Len(addrs), AddressOf(addrs), WeightOf(addrs, ws))
    BY AddEntriesDoes
  <2> QED BY <1>2, <2>1, <2>2, PersistTyped
<1>4. UNCHANGED <<saved, op, proc>> /\ dirty' = TRUE
  BY AddEntriesDoes
<1> QED BY <1>1, <1>3, <1>4, <1>5 DEF TypeOK, MapsTyped, KeysTyped

\* Update keeps the types.
LEMMA UpdateTypes ==
    ASSUME TypeOK, NEW a \in Address, NEW w \in Weight, Update(a, w)
    PROVE  TypeOK'
<1>1. leaves' \in Seq(Leaf)
  <2>1. addressIndex[a] \in Nat /\ addressIndex[a] < Len(leaves)
    BY DEF TypeOK, Update, Has, IsMap
  <2> QED BY <2>1, PackIsLeaf DEF TypeOK, Update
<1>2. IsMap(weights', Address, Weight)
  BY StoreTyped DEF TypeOK, Update
<1>3. KeysTyped'
  <2>1. IsMap([i \in {addressIndex[a]} |-> a], Nat, Address)
    BY DEF TypeOK, Update, Has, IsMap
  <2>2. IsMap([b \in {a} |-> w], Address, Weight)
    BY DEF IsMap
  <2>3. KeysTyped /\ Len(leaves) \in Nat
    BY DEF TypeOK, KeysTyped
  <2>4. PersistEntries(Len(leaves), [i \in {addressIndex[a]} |-> a], [b \in {a} |-> w])
    BY DEF Update
  <2> QED BY <2>1, <2>2, <2>3, <2>4, PersistTyped
<1> QED BY <1>1, <1>2, <1>3 DEF TypeOK, KeysTyped, Update

\* An event that is handled is remembered in op, and op stays a call.
LEMMA HandledTyped ==
    ASSUME TypeOK, NEW e \in Event, Handled(e)
    PROVE  /\ op' \in [call : {"none", "apply", "importEvents", "import"},
                       event : Event \union {NoEvent}, last : Nat]
           /\ saved' \in Seq(Leaf) /\ KeysTyped' /\ proc' \in {"up", "down"}
BY DEF TypeOK, KeysTyped, Handled, mapKeys

\* What is known of the leaf an event is about.
LEMMA OldLeafAt ==
    ASSUME TypeOK, NEW e \in Event, Contains(OldLeaf(e))
    PROVE  /\ IndexOf(OldLeaf(e)) \in 0..(Len(leaves) - 1)
           /\ leaves[IndexOf(OldLeaf(e)) + 1] = OldLeaf(e)
BY IndexOfFinds DEF TypeOK, LeafAt

\* Replacing a leaf, or adding one, gives a list of leaves.
LEMMA LeavesTyped ==
    ASSUME leaves \in Seq(Leaf), NEW leaf \in Leaf
    PROVE  /\ \A i \in 0..(Len(leaves) - 1) : [leaves EXCEPT ![i + 1] = leaf] \in Seq(Leaf)
           /\ Append(leaves, leaf) \in Seq(Leaf)
OBVIOUS

\* Each branch of the loop over events keeps the types.
LEMMA EventTypes ==
    ASSUME TypeOK, NEW e \in Event,
           InsertEvent(e) \/ UpdateEvent(e) \/ DeleteEvent(e) \/ NoOpEvent(e) \/ FailEvent(e)
    PROVE  TypeOK'
<1>1. e.address \in Address /\ e.prev \in Weight /\ e.new \in Weight
  BY DEF Event
<1>2. NewLeaf(e) \in Leaf /\ 0 \in Leaf
  BY <1>1, PackIsLeaf DEF NewLeaf, Leaf
<1>3. MapsTyped /\ leaves \in Seq(Leaf) /\ Len(leaves) \in Nat
  BY DEF TypeOK, MapsTyped
<1>4. CASE InsertEvent(e)
  <2> DEFINE index == IF Contains(OldLeaf(e)) THEN IndexOf(OldLeaf(e)) ELSE Len(leaves)
  <2>1. index \in Nat
    BY <1>3, OldLeafAt
  <2>2. SetEntry(e.address, index, e.new) /\ Handled(e) /\ dirty' = TRUE
    BY <1>4 DEF InsertEvent
  <2>3. MapsTyped'
    BY <1>1, <1>3, <2>1, <2>2, SetEntryTyped
  <2>4. leaves' = IF index < Len(leaves)
                  THEN [leaves EXCEPT ![index + 1] = NewLeaf(e)]
                  ELSE Append(leaves, NewLeaf(e))
    BY <1>4 DEF InsertEvent
  <2>5. leaves' \in Seq(Leaf)
    <3> HIDE DEF index
    <3>1. CASE index < Len(leaves)
      <4>1. index \in 0..(Len(leaves) - 1)
        BY <3>1, <2>1, <1>3
      <4> QED BY <3>1, <4>1, <2>4, <1>2, <1>3, LeavesTyped
    <3>2. CASE ~(index < Len(leaves))
      BY <3>2, <2>4, <1>2, <1>3, LeavesTyped
    <3> QED BY <3>1, <3>2
  <2> QED BY <2>2, <2>3, <2>5, HandledTyped DEF TypeOK, MapsTyped, KeysTyped
<1>5. CASE UpdateEvent(e)
  <2>1. IndexOf(OldLeaf(e)) \in 0..(Len(leaves) - 1)
    BY <1>5, OldLeafAt DEF UpdateEvent
  <2>2. SetEntry(e.address, IndexOf(OldLeaf(e)), e.new) /\ Handled(e) /\ dirty' = TRUE
        /\ leaves' = [leaves EXCEPT ![IndexOf(OldLeaf(e)) + 1] = NewLeaf(e)]
    BY <1>5 DEF UpdateEvent
  <2>3. IndexOf(OldLeaf(e)) \in Nat
    BY <2>1
  <2>4. MapsTyped'
    BY <1>1, <1>3, <2>3, <2>2, SetEntryTyped
  <2>5. leaves' \in Seq(Leaf)
    BY <1>2, <1>3, <2>1, <2>2, LeavesTyped
  <2> QED BY <2>2, <2>4, <2>5, HandledTyped DEF TypeOK, MapsTyped, KeysTyped
<1>6. CASE DeleteEvent(e)
  <2>1. IndexOf(OldLeaf(e)) \in 0..(Len(leaves) - 1)
    BY <1>6, OldLeafAt DEF DeleteEvent
  <2>2. leaves' = [leaves EXCEPT ![IndexOf(OldLeaf(e)) + 1] = 0] /\ Handled(e) /\ dirty' = TRUE
    BY <1>6 DEF DeleteEvent
  <2>3. leaves' \in Seq(Leaf)
    BY <1>2, <1>3, <2>1, <2>2, LeavesTyped
  <2>4. MapsTyped'
    BY <1>3, <1>6, DeleteTyped DEF DeleteEvent, MapsTyped
  <2> QED BY <2>2, <2>3, <2>4, HandledTyped DEF TypeOK, MapsTyped, KeysTyped
<1>7. CASE NoOpEvent(e)
  BY <1>7, HandledTyped DEF NoOpEvent, TypeOK, KeysTyped, maps
<1>8. CASE FailEvent(e)
  BY <1>8, IdleIsNone DEF FailEvent, TypeOK, maps, mapKeys
<1> QED BY <1>4, <1>5, <1>6, <1>7, <1>8

\* The ends of the loops.
LEMMA LoopTypes ==
    ASSUME TypeOK, ImportIndexed,
           BeginApplyEvents \/ BeginImportEvents \/ EndEvents \/ RejectEvents
             \/ BeginImport \/ EndImport \/ RejectImport
    PROVE  TypeOK'
<1>1. CASE BeginApplyEvents
  BY <1>1, IdleTyped DEF BeginApplyEvents, TypeOK, maps, mapKeys
<1>2. CASE BeginImportEvents
  <2>1. MapsTyped' /\ KeysTyped' /\ saved' \in Seq(Leaf)
    BY <1>2, ResetTyped, ClearedTyped DEF BeginImportEvents
  <2> QED BY <1>2, <2>1, IdleTyped DEF BeginImportEvents, TypeOK, MapsTyped, KeysTyped
<1>3. CASE EndEvents
  <2>1. saved' \in Seq(Leaf) /\ dirty' \in BOOLEAN
    BY <1>3, TreeSyncTyped DEF EndEvents
  <2> QED BY <1>3, <2>1, IdleIsNone DEF EndEvents, TypeOK, maps, mapKeys
<1>4. CASE RejectEvents
  BY <1>4, IdleIsNone DEF RejectEvents, TypeOK, maps, mapKeys
<1>5. CASE BeginImport
  <2>1. MapsTyped' /\ KeysTyped' /\ saved' \in Seq(Leaf)
    BY <1>5, ResetTyped, ClearedTyped DEF BeginImport
  <2>2. leaves' \in Seq(Leaf) /\ dirty' \in BOOLEAN
    BY <1>5, EmptySeq DEF BeginImport
  <2> QED BY <1>5, <2>1, <2>2, IdleTyped DEF BeginImport, TypeOK, MapsTyped, KeysTyped
<1>6. CASE EndImport
  <2>1. PersistEntries(Len(leaves), ImportedAddress, weights)
    BY <1>6 DEF EndImport
  <2>2. ASSUME NEW i \in Range(addressIndex) PROVE i \in Nat /\ ImportedAddress[i] \in Address
    <3>1. ImportedAddress[i] \in DOMAIN addressIndex
      BY <1>6, ImportedAddressHasIndex DEF EndImport
    <3> QED BY <3>1 DEF TypeOK, IsMap, Range
  <2>3. IsMap(ImportedAddress, Nat, Address)
    BY <2>2 DEF ImportedAddress, IsMap
  <2>4. KeysTyped /\ Len(leaves) \in Nat /\ IsMap(weights, Address, Weight)
    BY DEF TypeOK, KeysTyped
  <2>5. KeysTyped'
    BY <2>1, <2>3, <2>4, PersistTyped
  <2> QED BY <1>6, <2>5, IdleIsNone DEF EndImport, TypeOK, KeysTyped, maps
<1>7. CASE RejectImport
  BY <1>7, IdleIsNone DEF RejectImport, TypeOK, maps, mapKeys
<1> QED BY <1>1, <1>2, <1>3, <1>4, <1>5, <1>6, <1>7

\* The leaves of an imported participant: empty slots, and its own at the end.
LEMMA ParticipantLeavesAre ==
    ASSUME TypeOK, NEW index \in Nat, NEW a \in Address, NEW w \in Weight
    PROVE  /\ ParticipantLeaves(index, a, w) \in Seq(Leaf)
           /\ Len(ParticipantLeaves(index, a, w))
                = IF Len(leaves) <= index THEN index - Len(leaves) + 1 ELSE 1
           /\ \A k \in 1..(Len(ParticipantLeaves(index, a, w)) - 1) :
                 ParticipantLeaves(index, a, w)[k] = 0
           /\ ParticipantLeaves(index, a, w)[Len(ParticipantLeaves(index, a, w))]
                = PackAddressWeight(a, w)
<1> DEFINE gap == [i \in 1..(index - Len(leaves)) |-> 0]
           own == <<PackAddressWeight(a, w)>>
           n == IF Len(leaves) <= index THEN index - Len(leaves) ELSE 0
<1>1. Len(leaves) \in Nat
  BY DEF TypeOK
<1>2. n \in Nat /\ 1..(index - Len(leaves)) = 1..n
  BY <1>1
<1> HIDE DEF n
<1>3. gap \in Seq(Leaf) /\ Len(gap) = n /\ \A k \in 1..n : gap[k] = 0
  <2>1. gap = [i \in 1..n |-> 0] /\ 0 \in Leaf
    BY <1>2 DEF Leaf
  <2> HIDE DEF gap
  <2> QED BY <1>2, <2>1
<1>4. own \in Seq(Leaf) /\ Len(own) = 1 /\ own[1] = PackAddressWeight(a, w)
  BY PackIsLeaf
<1>5. ParticipantLeaves(index, a, w) = gap \o own
  BY DEF ParticipantLeaves
<1> HIDE DEF gap, own
<1>6. /\ gap \o own \in Seq(Leaf) /\ Len(gap \o own) = n + 1
      /\ \A k \in 1..n : (gap \o own)[k] = 0
      /\ (gap \o own)[n + 1] = PackAddressWeight(a, w)
  <2>1. gap \o own \in Seq(Leaf) /\ Len(gap \o own) = Len(gap) + Len(own)
    BY <1>3, <1>4, ConcatProperties, Zenon
  <2>a. \A k \in 1..(Len(gap) + Len(own)) :
           (gap \o own)[k] = IF k <= Len(gap) THEN gap[k] ELSE own[k - Len(gap)]
    BY <1>3, <1>4, ConcatProperties, Zenon
  <2>b. Len(gap) = n /\ Len(own) = 1 /\ n \in Nat
    BY <1>2, <1>3, <1>4
  <2>2. ASSUME NEW k \in 1..n PROVE (gap \o own)[k] = 0
    <3>1. k \in 1..(n + 1) /\ k <= n
      BY <2>b
    <3>2. (gap \o own)[k] = gap[k]
      BY <2>a, <2>b, <3>1
    <3> QED BY <1>3, <3>2
  <2>3. (gap \o own)[n + 1] = own[1]
    <3>1. n + 1 \in 1..(n + 1) /\ ~(n + 1 <= n) /\ (n + 1) - n = 1
      BY <2>b
    <3> QED BY <2>a, <2>b, <3>1
  <2> QED BY <1>3, <1>4, <2>1, <2>2, <2>3
<1>7. n + 1 = IF Len(leaves) <= index THEN index - Len(leaves) + 1 ELSE 1
  BY <1>1 DEF n
<1> QED BY <1>2, <1>5, <1>6, <1>7

\* What an import adds to the leaves, wherever the maps then look for it.
LEMMA ParticipantAdds ==
    ASSUME TypeOK, NEW index \in Nat, NEW a \in Address, NEW w \in Weight,
           ImportParticipant(index, a, w)
    PROVE  /\ leaves' \in Seq(Leaf) /\ Len(leaves) < Len(leaves')
           /\ \A k \in 1..Len(leaves) : leaves'[k] = leaves[k]
           /\ \A k \in (Len(leaves) + 1)..(Len(leaves') - 1) : leaves'[k] = 0
           /\ leaves'[Len(leaves')] = PackAddressWeight(a, w)
           /\ Len(leaves) <= index => Len(leaves') = index + 1
<1> DEFINE new == ParticipantLeaves(index, a, w)
<1>1. leaves \in Seq(Leaf) /\ Len(leaves) \in Nat
  BY DEF TypeOK
<1>2. /\ new \in Seq(Leaf) /\ Len(new) \in Nat /\ Len(new) >= 1
      /\ Len(leaves) <= index => Len(new) = index - Len(leaves) + 1
      /\ \A k \in 1..(Len(new) - 1) : new[k] = 0
      /\ new[Len(new)] = PackAddressWeight(a, w)
  <2>1. /\ new \in Seq(Leaf)
        /\ Len(new) = IF Len(leaves) <= index THEN index - Len(leaves) + 1 ELSE 1
        /\ \A k \in 1..(Len(new) - 1) : new[k] = 0
        /\ new[Len(new)] = PackAddressWeight(a, w)
    BY ParticipantLeavesAre
  <2> HIDE DEF new
  <2> QED BY <1>1, <2>1
<1>3. leaves' = leaves \o new
  BY DEF ImportParticipant
<1> HIDE DEF new
<1>4. /\ leaves' \in Seq(Leaf) /\ Len(leaves') = Len(leaves) + Len(new)
      /\ \A k \in 1..Len(leaves) : leaves'[k] = leaves[k]
      /\ \A k \in 1..Len(new) : leaves'[Len(leaves) + k] = new[k]
  BY <1>1, <1>2, <1>3, ConcatProperties
<1>5. ASSUME NEW k \in (Len(leaves) + 1)..(Len(leaves') - 1) PROVE leaves'[k] = 0
  <2>0. /\ Len(leaves) \in Nat /\ Len(new) \in Nat
        /\ Len(leaves') = Len(leaves) + Len(new)
    BY <1>1, <1>2, <1>4
  <2>1. k - Len(leaves) \in 1..(Len(new) - 1) /\ k - Len(leaves) \in 1..Len(new)
    BY <2>0
  <2>2. Len(leaves) + (k - Len(leaves)) = k
    BY <2>0
  <2>3. leaves'[Len(leaves) + (k - Len(leaves))] = new[k - Len(leaves)]
    BY <1>4, <2>1
  <2>4. new[k - Len(leaves)] = 0
    BY <1>2, <2>1
  <2> QED BY <2>2, <2>3, <2>4, Zenon
<1>6. leaves'[Len(leaves')] = PackAddressWeight(a, w)
  <2>1. Len(new) \in 1..Len(new)
    BY <1>2
  <2>2. leaves'[Len(leaves) + Len(new)] = new[Len(new)]
    BY <1>4, <2>1
  <2> QED BY <1>2, <1>4, <2>2
<1>7. Len(leaves) < Len(leaves') /\ (Len(leaves) <= index => Len(leaves') = index + 1)
  BY <1>1, <1>2, <1>4
<1> QED BY <1>4, <1>5, <1>6, <1>7

\* An imported participant keeps the types, the empty slots before it too.
LEMMA ParticipantTypes ==
    ASSUME TypeOK, NEW index \in Nat, NEW a \in Address, NEW w \in Weight,
           ImportParticipant(index, a, w)
    PROVE  TypeOK'
<1>5. leaves' \in Seq(Leaf)
  BY ParticipantAdds
<1>4. op' \in [call : {"none", "apply", "importEvents", "import"},
               event : Event \union {NoEvent}, last : Nat]
  BY DEF ImportParticipant, TypeOK
<1>6. MapsTyped'
  <2>1. MapsTyped
    BY DEF TypeOK, MapsTyped
  <2>2. CASE IsEmptyParticipant(a, w)
    BY <2>1, <2>2 DEF ImportParticipant, MapsTyped, maps
  <2>3. CASE ~IsEmptyParticipant(a, w)
    BY <2>1, <2>3, SetEntryTyped DEF ImportParticipant
  <2> QED BY <2>2, <2>3
<1> QED BY <1>4, <1>5, <1>6 DEF ImportParticipant, TypeOK, MapsTyped, mapKeys

\* Each index Load gives to an address is below the census size.
LEMMA LoadedIndexAt ==
    ASSUME KeysTyped, NEW a \in Range(LoadedAddress)
    PROVE  /\ LoadedIndex[a] \in 0..(diskSize - 1) /\ diskAddress[LoadedIndex[a]] = a
           /\ \A j \in 0..(diskSize - 1) : diskAddress[j] = a => j <= LoadedIndex[a]
<1> DEFINE T == {i \in 0..(diskSize - 1) : diskAddress[i] = a}
<1>1. diskSize \in Nat
  BY DEF KeysTyped
<1>2. T \in SUBSET (0..diskSize) /\ T # {}
  BY <1>1 DEF Range, LoadedAddress
<1>3. PICK m \in T : \A k \in T : k <= m
  BY <1>1, <1>2, GreatestExists
<1>4. ASSUME NEW j \in (m + 1)..(diskSize - 1) PROVE diskAddress[j] # a
  <2>1. j \in 0..(diskSize - 1) /\ ~(j <= m)
    BY <1>1
  <2> QED BY <2>1, <1>3
<1>5. \E i \in 0..(diskSize - 1) :
         /\ diskAddress[i] = a
         /\ \A j \in (i + 1)..(diskSize - 1) : diskAddress[j] # a
  BY <1>3, <1>4
<1> DEFINE l == LoadedIndex[a]
<1>6. /\ l \in 0..(diskSize - 1) /\ diskAddress[l] = a
      /\ \A j \in (l + 1)..(diskSize - 1) : diskAddress[j] # a
  BY <1>5 DEF LoadedIndex
<1> HIDE DEF l
<1>7. ASSUME NEW j \in 0..(diskSize - 1), diskAddress[j] = a PROVE j <= l
  <2>1. ~(j \in (l + 1)..(diskSize - 1))
    BY <1>6, <1>7
  <2> QED BY <1>1, <1>6, <2>1
<1> QED BY <1>6, <1>7 DEF l

\* Closing, crashing and opening again keep the types.
LEMMA RestartTypes ==
    ASSUME TypeOK, Sync \/ Close \/ Crash \/ NewCensusIMT
    PROVE  TypeOK'
<1>1. CASE Sync
  BY <1>1, TreeSyncTyped DEF Sync, TypeOK, maps, mapKeys
<1>2. ASSUME Gone PROVE MapsTyped' /\ leaves' \in Seq(Leaf)
  BY <1>2, ClearedTyped, EmptySeq DEF Gone
<1>3. CASE Close
  BY <1>2, <1>3, IdleIsNone DEF Close, Gone, TypeOK, MapsTyped, mapKeys
<1>4. CASE Crash
  BY <1>2, <1>4, IdleIsNone DEF Crash, Gone, TypeOK, MapsTyped, mapKeys
<1>5. CASE NewCensusIMT
  <2>1. KeysTyped
    BY DEF TypeOK, KeysTyped
  <2>2. \A i \in 0..(diskSize - 1) : i \in Nat /\ diskAddress[i] \in Address
                                   /\ diskWeight[diskAddress[i]] \in Weight
    BY <1>5, <2>1 DEF NewCensusIMT, Loadable, KeysTyped, IsMap
  <2>3. IsMap(LoadedAddress, Nat, Address)
    BY <2>2 DEF LoadedAddress, IsMap
  <2>4. ASSUME NEW a \in Range(LoadedAddress)
        PROVE  a \in Address /\ LoadedIndex[a] \in Nat /\ diskWeight[a] \in Weight
    BY <2>1, <2>2, LoadedIndexAt DEF KeysTyped
  <2>5. IsMap(LoadedIndex, Address, Nat)
    <3>1. LoadedIndex = [a \in Range(LoadedAddress) |-> LoadedIndex[a]]
      BY DEF LoadedIndex
    <3> QED BY <2>4, <3>1 DEF IsMap
  <2>6. IsMap(LoadedWeight, Address, Weight)
    BY <2>4 DEF LoadedWeight, IsMap
  <2> QED BY <1>5, <2>3, <2>5, <2>6 DEF NewCensusIMT, TypeOK, mapKeys
<1> QED BY <1>1, <1>3, <1>4, <1>5

\* ImportIndexed holds through every step.
LEMMA ImportIndexedPreserved ==
    ASSUME TypeOK, ImportIndexed, [Next]_vars
    PROVE  ImportIndexed'
<1> SUFFICES ASSUME op'.call = "import" PROVE ImportIndexed'
  BY DEF ImportIndexed
<1>1. Idle.call = "none"
  BY DEF Idle
<1>3. CASE BeginImport
  BY <1>3 DEF BeginImport, ClearMaps, NoEntry, ImportIndexed, Unlocked, Up
<1>4. ASSUME NEW i \in 0..(MaxSize - 1), NEW a \in Address, NEW w \in Weight,
             ImportParticipant(i, a, w)
      PROVE  ImportIndexed'
  <2>1. op.call = "import" /\ Up'
    BY <1>4 DEF ImportParticipant, ImportIndexed, Up
  <2>2. /\ leaves \in Seq(Leaf) /\ Len(leaves) \in Nat /\ DOMAIN leaves = 1..Len(leaves)
        /\ leaves' \in Seq(Leaf) /\ Len(leaves') \in Nat /\ DOMAIN leaves' = 1..Len(leaves')
        /\ Len(leaves) < Len(leaves')
        /\ \A k \in 1..Len(leaves) : leaves'[k] = leaves[k]
        /\ leaves'[Len(leaves')] = PackAddressWeight(a, w)
    <3>1. i \in Nat
      OBVIOUS
    <3> QED BY <1>4, <3>1, ParticipantAdds DEF TypeOK
  <2>3. ASSUME NEW b \in DOMAIN addressIndex'
        PROVE  \E k \in DOMAIN leaves' : leaves'[k] # 0 /\ UnpackAddress(leaves'[k]) = b
    <3>1. CASE b \in DOMAIN addressIndex
      <4>1. PICK k \in DOMAIN leaves : leaves[k] # 0 /\ UnpackAddress(leaves[k]) = b
        BY <2>1, <3>1 DEF ImportIndexed
      <4>2. k \in DOMAIN leaves' /\ leaves'[k] = leaves[k]
        BY <2>2
      <4> QED BY <4>1, <4>2
    <3>2. CASE b \notin DOMAIN addressIndex
      <4>1. ~IsEmptyParticipant(a, w)
        BY <1>4, <2>3, <3>2 DEF ImportParticipant, maps
      <4>2. addressIndex' = Store(addressIndex, a, i)
        BY <1>4, <4>1 DEF ImportParticipant, SetEntry
      <4>3. b = a
        BY <2>3, <3>2, <4>2 DEF Store, Merge
      <4>4. leaves'[Len(leaves')] # 0 /\ UnpackAddress(leaves'[Len(leaves')]) = a
        BY <2>2, <4>1, PackedNotZero, UnpackPacked
      <4>5. Len(leaves') \in DOMAIN leaves'
        BY <2>2
      <4> QED BY <4>3, <4>4, <4>5
    <3> QED BY <3>1, <3>2
  <2> QED BY <2>1, <2>3 DEF ImportIndexed
<1>5. CASE UNCHANGED vars
  BY <1>5 DEF vars, ImportIndexed, maps, Up
<1>6. ASSUME NEW addrs, NEW ws, AddEntries(addrs, ws) PROVE FALSE
  BY <1>1, <1>6 DEF AddEntries, Unlocked
<1>7. ASSUME NEW a, NEW w, Update(a, w) PROVE FALSE
  BY <1>1, <1>7 DEF Update, Unlocked
<1>8. ASSUME NEW e \in Event,
             InsertEvent(e) \/ UpdateEvent(e) \/ DeleteEvent(e) \/ NoOpEvent(e) \/ FailEvent(e)
      PROVE  FALSE
  <2>1. Handling(e) /\ (Handled(e) \/ op' = Idle)
    BY <1>8 DEF InsertEvent, UpdateEvent, DeleteEvent, NoOpEvent, FailEvent
  <2>2. op'.call = op.call \/ op' = Idle
    BY <2>1 DEF Handled, TypeOK
  <2> QED BY <1>1, <2>1, <2>2 DEF Handling
<1>9. ASSUME BeginApplyEvents \/ BeginImportEvents PROVE FALSE
  BY <1>9 DEF BeginApplyEvents, BeginImportEvents, Idle
<1>10. ASSUME EndEvents \/ RejectEvents \/ EndImport \/ RejectImport PROVE FALSE
  BY <1>1, <1>10 DEF EndEvents, RejectEvents, EndImport, RejectImport
<1>11. ASSUME Sync \/ Close \/ Crash PROVE FALSE
  BY <1>1, <1>11 DEF Sync, Unlocked, Close, Crash, Gone
<1>12. ASSUME NewCensusIMT PROVE FALSE
  BY <1>12 DEF NewCensusIMT, ImportIndexed, Up
<1> QED
  BY <1>3, <1>4, <1>5, <1>6, <1>7, <1>8, <1>9, <1>10, <1>11, <1>12
  DEF Next, Add, AddBulk

\* All batches are sequences of addresses and as many weights.
LEMMA BatchTyped ==
    ASSUME NEW b \in Batches
    PROVE  \E n \in Nat : b[1] \in [1..n -> Address] /\ b[2] \in [1..n -> Weight]
BY DEF Batches

\* TypeOK with ImportIndexed is inductive.
LEMMA TypePreserved ==
    ASSUME TypeOK, ImportIndexed, [Next]_vars
    PROVE  TypeOK'
<1>1. ASSUME NEW a \in Address, NEW w \in Weight, Add(a, w) PROVE TypeOK'
  <2>1. <<a>> \in [1..1 -> Address] /\ <<w>> \in [1..1 -> Weight] /\ 1 \in Nat
    OBVIOUS
  <2> QED BY <1>1, <2>1, AddTypes DEF Add
<1>2. ASSUME NEW a \in Address, NEW w \in Weight, Update(a, w) PROVE TypeOK'
  BY <1>2, UpdateTypes
<1>3. ASSUME NEW b \in Batches, AddBulk(b[1], b[2]) PROVE TypeOK'
  BY <1>3, BatchTyped, AddTypes DEF AddBulk
<1>4. ASSUME NEW e \in Event,
             InsertEvent(e) \/ UpdateEvent(e) \/ DeleteEvent(e) \/ NoOpEvent(e) \/ FailEvent(e)
      PROVE  TypeOK'
  BY <1>4, EventTypes
<1>5. ASSUME NEW i \in 0..(MaxSize - 1), NEW a \in Address, NEW w \in Weight,
             ImportParticipant(i, a, w)
      PROVE  TypeOK'
  BY <1>5, ParticipantTypes
<1>6. CASE UNCHANGED vars
  BY <1>6 DEF vars, maps, mapKeys, TypeOK
<1> QED BY <1>1, <1>2, <1>3, <1>4, <1>5, <1>6, LoopTypes, RestartTypes DEF Next

\* It holds of a census that was just made.
LEMMA TypeInit == Init => TypeOK /\ ImportIndexed
<1> SUFFICES ASSUME Init PROVE TypeOK /\ ImportIndexed
  OBVIOUS
<1>1. leaves \in Seq(Leaf) /\ saved \in Seq(Leaf)
  BY EmptySeq DEF Init
<1>2. TypeOK
  BY <1>1, NoEntryTyped, IdleIsNone DEF Init, TypeOK
<1>3. ImportIndexed
  BY DEF Init, ImportIndexed, Idle
<1> QED BY <1>2, <1>3

\* The census keeps its types, whatever callers, the database and crashes do: the maps
\* never hold an index, an address or a weight that is none.
THEOREM TypeCorrect == Spec => []TypeOK
<1>1. Init => TypeOK /\ ImportIndexed
  BY TypeInit
<1>2. TypeOK /\ ImportIndexed /\ [Next]_vars => (TypeOK /\ ImportIndexed)'
  BY TypePreserved, ImportIndexedPreserved
<1> QED BY <1>1, <1>2, PTL DEF Spec

-----------------------------------------------------------------------------
(* ProofsMatch *)

\* An entry that is set for its own leaf disturbs no other: the slot it takes is new, or
\* held a leaf of the same address.
LEMMA SetEntryMatches ==
    ASSUME TypeOK, Up, ProofsMatch,
           NEW a \in Address, NEW index \in Nat, NEW w \in Weight, SetEntry(a, index, w),
           index < Len(leaves'), leaves'[index + 1] = PackAddressWeight(a, w),
           \A i \in 0..(Len(leaves) - 1) :
              i # index => i < Len(leaves') /\ leaves'[i + 1] = leaves[i + 1],
           index < Len(leaves) =>
              \E v \in Weight : leaves[index + 1] = PackAddressWeight(a, v)
    PROVE  ProofsMatch'
<1> SUFFICES ASSUME NEW b \in DOMAIN addressIndex'
             PROVE  /\ b \in DOMAIN weights'
                    /\ addressIndex'[b] < Len(leaves')
                    /\ leaves'[addressIndex'[b] + 1] = PackAddressWeight(b, weights'[b])
  BY DEF ProofsMatch, LeafAt
<1>1. addressIndex' = Store(addressIndex, a, index) /\ weights' = Store(weights, a, w)
  BY DEF SetEntry
<1>2. CASE b = a
  BY <1>1, <1>2 DEF Store, Merge
<1>3. CASE b # a
  <2>1. b \in DOMAIN addressIndex /\ addressIndex'[b] = addressIndex[b]
    BY <1>1, <1>3 DEF Store, Merge
  <2>2. /\ b \in DOMAIN weights /\ addressIndex[b] < Len(leaves)
        /\ leaves[addressIndex[b] + 1] = PackAddressWeight(b, weights[b])
    BY <2>1 DEF ProofsMatch, Up, LeafAt
  <2>3. b \in DOMAIN weights' /\ weights'[b] = weights[b]
    BY <1>1, <1>3, <2>2 DEF Store, Merge
  <2>4. addressIndex[b] \in Nat /\ b \in Address /\ weights[b] \in Weight
    BY <2>1, <2>2 DEF TypeOK, IsMap
  <2>5. addressIndex[b] # index
    BY <1>3, <2>2, <2>4, LeavesDiffer
  <2>6. addressIndex[b] \in 0..(Len(leaves) - 1)
    BY <2>2, <2>4 DEF TypeOK
  <2> QED BY <2>1, <2>2, <2>3, <2>5, <2>6
<1> QED BY <1>2, <1>3

\* Add and AddBulk: the batch lies behind all leaves, its last entries are the ones stored.
LEMMA AddMatches ==
    ASSUME TypeOK, Up, ProofsMatch, NEW n \in Nat, NEW addrs \in [1..n -> Address],
           NEW ws \in [1..n -> Weight], AddEntries(addrs, ws)
    PROVE  ProofsMatch'
<1> SUFFICES ASSUME NEW b \in DOMAIN addressIndex'
             PROVE  /\ b \in DOMAIN weights'
                    /\ addressIndex'[b] < Len(leaves')
                    /\ leaves'[addressIndex'[b] + 1] = PackAddressWeight(b, weights'[b])
  BY DEF ProofsMatch, LeafAt
<1> DEFINE new == [i \in 1..n |-> PackAddressWeight(addrs[i], ws[i])]
<1>1. leaves' = leaves \o new
  <2>1. DOMAIN addrs = 1..n
    OBVIOUS
  <2>2. leaves' = leaves \o [i \in DOMAIN addrs |-> PackAddressWeight(addrs[i], ws[i])]
    BY AddEntriesDoes
  <2> QED BY <2>1, <2>2
<1>2. /\ addressIndex' = Merge(IndexIn(addrs), addressIndex)
      /\ weights' = Merge(WeightOf(addrs, ws), weights)
  BY AddEntriesDoes
<1>3. new \in Seq(Leaf) /\ Len(new) = n /\ leaves \in Seq(Leaf)
  BY PackIsLeaf DEF TypeOK
<1>4. /\ Len(leaves') = Len(leaves) + n
      /\ \A i \in 1..Len(leaves) : leaves'[i] = leaves[i]
      /\ \A i \in 1..n : leaves'[Len(leaves) + i] = PackAddressWeight(addrs[i], ws[i])
  BY <1>1, <1>3, ConcatProperties
<1>5. DOMAIN IndexIn(addrs) = Range(addrs) /\ DOMAIN WeightOf(addrs, ws) = Range(addrs)
  BY DEF IndexIn, WeightOf
<1> HIDE DEF new
<1>6. CASE b \in Range(addrs)
  <2> DEFINE l == LastIn(addrs)[b]
  <2>1. l \in 1..n /\ addrs[l] = b
    BY <1>3, <1>6, EntriesTyped
  <2>2. addressIndex'[b] = Len(leaves) + l - 1
    BY <1>2, <1>5, <1>6 DEF Merge, IndexIn
  <2>3. b \in DOMAIN weights' /\ weights'[b] = ws[l]
    BY <1>2, <1>5, <1>6 DEF Merge, WeightOf
  <2> HIDE DEF l
  <2>4. Len(leaves) \in Nat
    BY <1>3
  <2>5. addressIndex'[b] < Len(leaves') /\ addressIndex'[b] + 1 = Len(leaves) + l
    BY <1>4, <2>1, <2>2, <2>4
  <2> QED BY <1>4, <2>1, <2>3, <2>5
<1>7. CASE b \notin Range(addrs)
  <2>1. b \in DOMAIN addressIndex /\ addressIndex'[b] = addressIndex[b]
    BY <1>2, <1>5, <1>7 DEF Merge
  <2>2. /\ b \in DOMAIN weights /\ addressIndex[b] < Len(leaves)
        /\ leaves[addressIndex[b] + 1] = PackAddressWeight(b, weights[b])
    BY <2>1 DEF ProofsMatch, Up, LeafAt
  <2>3. b \in DOMAIN weights' /\ weights'[b] = weights[b]
    BY <1>2, <1>5, <1>7, <2>2 DEF Merge
  <2>4. addressIndex[b] \in Nat /\ Len(leaves) \in Nat
    BY <2>1, <1>3 DEF TypeOK, IsMap
  <2>5. addressIndex[b] + 1 \in 1..Len(leaves)
    BY <2>2, <2>4
  <2> QED BY <1>4, <2>1, <2>2, <2>3, <2>4, <2>5
<1> QED BY <1>6, <1>7

\* Update: the leaf of the address gets the weight the map gets, no other leaf is touched.
LEMMA UpdateMatches ==
    ASSUME TypeOK, Up, ProofsMatch, NEW a \in Address, NEW w \in Weight, Update(a, w)
    PROVE  ProofsMatch'
<1> SUFFICES ASSUME NEW b \in DOMAIN addressIndex
             PROVE  /\ b \in DOMAIN weights'
                    /\ addressIndex[b] < Len(leaves')
                    /\ leaves'[addressIndex[b] + 1] = PackAddressWeight(b, weights'[b])
  BY DEF Update, ProofsMatch, LeafAt
<1> DEFINE i == addressIndex[a] + 1
<1>1. /\ leaves' = [leaves EXCEPT ![i] = PackAddressWeight(a, w)]
      /\ weights' = Store(weights, a, w)
      /\ a \in DOMAIN addressIndex
  BY DEF Update, Has
<1>2. ASSUME NEW c \in DOMAIN addressIndex
      PROVE  /\ c \in DOMAIN weights /\ weights[c] \in Weight /\ c \in Address
             /\ addressIndex[c] + 1 \in 1..Len(leaves)
             /\ leaves[addressIndex[c] + 1] = PackAddressWeight(c, weights[c])
  BY DEF ProofsMatch, Up, LeafAt, TypeOK, IsMap
<1>3. leaves \in Seq(Leaf) /\ Len(leaves) \in Nat /\ Len(leaves') = Len(leaves)
  BY <1>1, <1>2 DEF TypeOK
<1>4. addressIndex[b] \in Nat /\ addressIndex[b] < Len(leaves')
  <2>1. addressIndex[b] \in Nat
    BY DEF TypeOK, IsMap
  <2>2. addressIndex[b] + 1 \in 1..Len(leaves)
    BY <1>2
  <2> QED BY <1>3, <2>1, <2>2
<1>5. i \in 1..Len(leaves)
  BY <1>1, <1>2
<1> HIDE DEF i
<1>6. CASE b = a
  <2>1. a \in DOMAIN weights' /\ weights'[a] = w
    BY <1>1 DEF Store, Merge
  <2>2. leaves'[i] = PackAddressWeight(a, w)
    BY <1>1, <1>3, <1>5
  <2>3. leaves'[addressIndex[a] + 1] = PackAddressWeight(a, weights'[a])
    BY <2>1, <2>2 DEF i
  <2> QED BY <1>4, <1>6, <2>1, <2>3
<1>7. CASE b # a
  <2>1. b \in DOMAIN weights' /\ weights'[b] = weights[b]
    BY <1>1, <1>2, <1>7 DEF Store, Merge
  <2>2. addressIndex[b] + 1 # i
    BY <1>1, <1>2, <1>7, LeavesDiffer DEF i
  <2>3. addressIndex[b] + 1 \in 1..Len(leaves)
    BY <1>2
  <2>4. leaves'[addressIndex[b] + 1] = leaves[addressIndex[b] + 1]
    BY <1>1, <1>3, <2>2, <2>3
  <2> QED BY <1>2, <1>4, <2>1, <2>4
<1> QED BY <1>6, <1>7

\* No dump names an index twice in this instance.
NoClashes == "clashes" \notin Env

\* An imported participant lies behind all leaves, where its index is new at its index.
LEMMA ParticipantMatches ==
    ASSUME NoClashes, TypeOK, Up, ProofsMatch, NEW index \in Nat, NEW a \in Address,
           NEW w \in Weight, ImportParticipant(index, a, w)
    PROVE  ProofsMatch'
<1>1. Len(leaves) <= index
  BY DEF ImportParticipant, NoClashes
<1>2. leaves \in Seq(Leaf) /\ Len(leaves) \in Nat
  BY DEF TypeOK
<1>5. /\ Len(leaves') = index + 1 /\ leaves'[index + 1] = PackAddressWeight(a, w)
      /\ \A i \in 1..Len(leaves) : leaves'[i] = leaves[i]
  BY <1>1, ParticipantAdds
<1>6. CASE IsEmptyParticipant(a, w)
  <2>1. UNCHANGED maps
    BY <1>6 DEF ImportParticipant
  <2>2. ASSUME NEW b \in DOMAIN addressIndex PROVE addressIndex[b] \in Nat
    BY DEF TypeOK, IsMap
  <2> QED BY <1>1, <1>2, <1>5, <2>1, <2>2 DEF ProofsMatch, Up, LeafAt, maps
<1>7. CASE ~IsEmptyParticipant(a, w)
  <2>1. SetEntry(a, index, w)
    BY <1>7 DEF ImportParticipant
  <2>2. \A i \in 0..(Len(leaves) - 1) :
           i # index => i < Len(leaves') /\ leaves'[i + 1] = leaves[i + 1]
    BY <1>1, <1>2, <1>5
  <2>3. index < Len(leaves') /\ leaves'[index + 1] = PackAddressWeight(a, w)
    BY <1>5
  <2>4. ~(index < Len(leaves))
    BY <1>1, <1>2
  <2> QED BY <2>1, <2>2, <2>3, <2>4, SetEntryMatches
<1> QED BY <1>6, <1>7

\* Insert and update events set an entry; a delete event takes the leaf of its own address.
LEMMA EventMatches ==
    ASSUME TypeOK, Up, ProofsMatch, NEW e \in Event,
           InsertEvent(e) \/ UpdateEvent(e) \/ DeleteEvent(e) \/ NoOpEvent(e) \/ FailEvent(e)
    PROVE  ProofsMatch'
<1>1. e.address \in Address /\ e.prev \in Weight /\ e.new \in Weight
  BY DEF Event
<1>2. leaves \in Seq(Leaf) /\ Len(leaves) \in Nat
  BY DEF TypeOK
<1>3. ASSUME NEW index \in 0..(Len(leaves) - 1), leaves[index + 1] = OldLeaf(e),
             leaves' = [leaves EXCEPT ![index + 1] = NewLeaf(e)],
             SetEntry(e.address, index, e.new)
      PROVE  ProofsMatch'
  <2>1. index \in Nat /\ index < Len(leaves) /\ Len(leaves') = Len(leaves)
    BY <1>2, <1>3
  <2>2. leaves'[index + 1] = PackAddressWeight(e.address, e.new)
    BY <1>2, <1>3 DEF NewLeaf
  <2>3. \A i \in 0..(Len(leaves) - 1) :
           i # index => i < Len(leaves') /\ leaves'[i + 1] = leaves[i + 1]
    BY <1>2, <1>3, <2>1
  <2>4. \E v \in Weight : leaves[index + 1] = PackAddressWeight(e.address, v)
    BY <1>1, <1>3 DEF OldLeaf
  <2> QED BY <1>1, <1>3, <2>1, <2>2, <2>3, <2>4, SetEntryMatches
<1>4. CASE InsertEvent(e)
  <2>1. CASE Contains(OldLeaf(e))
    <3>1. /\ IndexOf(OldLeaf(e)) \in 0..(Len(leaves) - 1)
          /\ leaves[IndexOf(OldLeaf(e)) + 1] = OldLeaf(e)
      BY <2>1, OldLeafAt
    <3>2. /\ leaves' = [leaves EXCEPT ![IndexOf(OldLeaf(e)) + 1] = NewLeaf(e)]
          /\ SetEntry(e.address, IndexOf(OldLeaf(e)), e.new)
      BY <1>2, <1>4, <2>1, <3>1 DEF InsertEvent
    <3> QED BY <1>3, <3>1, <3>2
  <2>2. CASE ~Contains(OldLeaf(e))
    <3>1. leaves' = Append(leaves, NewLeaf(e)) /\ SetEntry(e.address, Len(leaves), e.new)
      BY <1>2, <1>4, <2>2 DEF InsertEvent
    <3>2. /\ Len(leaves') = Len(leaves) + 1
          /\ leaves'[Len(leaves) + 1] = PackAddressWeight(e.address, e.new)
          /\ \A i \in 0..(Len(leaves) - 1) : leaves'[i + 1] = leaves[i + 1]
      BY <1>2, <3>1 DEF NewLeaf
    <3>3. \A i \in 0..(Len(leaves) - 1) :
             i # Len(leaves) => i < Len(leaves') /\ leaves'[i + 1] = leaves[i + 1]
      BY <1>2, <3>2
    <3>4. Len(leaves) < Len(leaves') /\ ~(Len(leaves) < Len(leaves))
      BY <1>2, <3>2
    <3> QED BY <1>1, <1>2, <3>1, <3>2, <3>3, <3>4, SetEntryMatches
  <2> QED BY <2>1, <2>2
<1>5. CASE UpdateEvent(e)
  <2>1. /\ IndexOf(OldLeaf(e)) \in 0..(Len(leaves) - 1)
        /\ leaves[IndexOf(OldLeaf(e)) + 1] = OldLeaf(e)
    BY <1>5, OldLeafAt DEF UpdateEvent
  <2>2. /\ leaves' = [leaves EXCEPT ![IndexOf(OldLeaf(e)) + 1] = NewLeaf(e)]
        /\ SetEntry(e.address, IndexOf(OldLeaf(e)), e.new)
    BY <1>5 DEF UpdateEvent
  <2> QED BY <1>3, <2>1, <2>2
<1>6. CASE DeleteEvent(e)
  <2> DEFINE index == IndexOf(OldLeaf(e))
  <2>1. index \in 0..(Len(leaves) - 1) /\ leaves[index + 1] = OldLeaf(e)
    BY <1>6, OldLeafAt DEF DeleteEvent
  <2>2. /\ leaves' = [leaves EXCEPT ![index + 1] = 0]
        /\ addressIndex' = Delete(addressIndex, {e.address})
        /\ weights' = Delete(weights, {e.address})
    BY <1>6 DEF DeleteEvent
  <2> HIDE DEF index
  <2> SUFFICES ASSUME NEW b \in DOMAIN addressIndex'
               PROVE  /\ b \in DOMAIN weights'
                      /\ addressIndex'[b] < Len(leaves')
                      /\ leaves'[addressIndex'[b] + 1] = PackAddressWeight(b, weights'[b])
    BY DEF ProofsMatch, LeafAt
  <2>3. b # e.address /\ b \in DOMAIN addressIndex /\ addressIndex'[b] = addressIndex[b]
    BY <2>2 DEF Delete, Restrict
  <2>4. /\ b \in DOMAIN weights /\ addressIndex[b] < Len(leaves)
        /\ leaves[addressIndex[b] + 1] = PackAddressWeight(b, weights[b])
    BY <2>3 DEF ProofsMatch, Up, LeafAt
  <2>5. b \in DOMAIN weights' /\ weights'[b] = weights[b]
    BY <2>2, <2>3, <2>4 DEF Delete, Restrict
  <2>6. b \in Address /\ weights[b] \in Weight /\ addressIndex[b] \in Nat
    BY <2>3, <2>4 DEF TypeOK, IsMap
  <2>7. addressIndex[b] # index
    BY <1>1, <2>1, <2>3, <2>4, <2>6, LeavesDiffer DEF OldLeaf
  <2>8. Len(leaves') = Len(leaves) /\ leaves'[addressIndex[b] + 1] = leaves[addressIndex[b] + 1]
    BY <1>2, <2>1, <2>2, <2>4, <2>6, <2>7
  <2> QED BY <2>3, <2>4, <2>5, <2>8
<1>7. CASE NoOpEvent(e)
  BY <1>7 DEF NoOpEvent, Handled, maps, ProofsMatch, Up, LeafAt
<1>8. CASE FailEvent(e)
  BY <1>8 DEF FailEvent, maps, ProofsMatch, Up, LeafAt
<1> QED BY <1>4, <1>5, <1>6, <1>7, <1>8

\* The process is never restarted in this instance.
NoRestart == "close" \notin Env /\ "crash" \notin Env

\* ProofsMatch survives every step of a process that keeps running.
LEMMA MatchesPreserved ==
    ASSUME NoRestart, NoClashes, TypeOK, Up, ProofsMatch, [Next]_vars
    PROVE  ProofsMatch' /\ Up'
<1>1. Up'
  <2>1. ~Close /\ ~Crash /\ ~NewCensusIMT
    BY DEF NoRestart, Close, Crash, NewCensusIMT, Up
  <2> QED BY <2>1
    DEF Up, vars, Next, Add, AddBulk, AddEntries, Update, BeginApplyEvents, BeginImportEvents,
        EndEvents, RejectEvents, InsertEvent, UpdateEvent, DeleteEvent, NoOpEvent, FailEvent,
        Handled, BeginImport, EndImport, RejectImport, ImportParticipant, Sync
<1>2. ASSUME NEW a \in Address, NEW w \in Weight, Add(a, w) PROVE ProofsMatch'
  <2>1. <<a>> \in [1..1 -> Address] /\ <<w>> \in [1..1 -> Weight] /\ 1 \in Nat
    OBVIOUS
  <2> QED BY <1>2, <2>1, AddMatches DEF Add
<1>3. ASSUME NEW a \in Address, NEW w \in Weight, Update(a, w) PROVE ProofsMatch'
  BY <1>3, UpdateMatches
<1>4. ASSUME NEW b \in Batches, AddBulk(b[1], b[2]) PROVE ProofsMatch'
  BY <1>4, BatchTyped, AddMatches DEF AddBulk
<1>5. ASSUME NEW e \in Event,
             InsertEvent(e) \/ UpdateEvent(e) \/ DeleteEvent(e) \/ NoOpEvent(e) \/ FailEvent(e)
      PROVE  ProofsMatch'
  BY <1>5, EventMatches
<1>6. ASSUME NEW i \in 0..(MaxSize - 1), NEW a \in Address, NEW w \in Weight,
             ImportParticipant(i, a, w)
      PROVE  ProofsMatch'
  BY <1>6, ParticipantMatches
<1>7. ASSUME BeginImportEvents \/ BeginImport PROVE ProofsMatch'
  <2>1. addressIndex' = NoEntry
    BY <1>7 DEF BeginImportEvents, BeginImport, ClearMaps
  <2>2. DOMAIN NoEntry = {}
    BY DEF NoEntry
  <2> QED BY <2>1, <2>2 DEF ProofsMatch
<1>8. ASSUME UNCHANGED <<leaves, maps>> PROVE ProofsMatch'
  BY <1>8 DEF ProofsMatch, Up, LeafAt, maps
<1>9. ASSUME UNCHANGED vars PROVE ProofsMatch'
  BY <1>8, <1>9 DEF vars
<1>10. ASSUME BeginApplyEvents \/ EndEvents \/ RejectEvents \/ EndImport \/ RejectImport \/ Sync
       PROVE  UNCHANGED <<leaves, maps>>
  BY <1>10 DEF BeginApplyEvents, EndEvents, RejectEvents, EndImport, RejectImport, Sync
<1>11. ~Close /\ ~Crash /\ ~NewCensusIMT
  BY DEF NoRestart, Close, Crash, NewCensusIMT, Up
<1> QED
  BY <1>1, <1>2, <1>3, <1>4, <1>5, <1>6, <1>7, <1>8, <1>9, <1>10, <1>11 DEF Next

\* As long as the process runs and no dump gives two participants one index, whatever else
\* callers and the database do, a proof that GenerateProof hands out is about the leaf of
\* its address and the weight it states.
THEOREM EveryProofMatches == NoRestart /\ NoClashes => (Spec => []ProofsMatch)
<1> SUFFICES ASSUME NoRestart, NoClashes PROVE Spec => []ProofsMatch
  OBVIOUS
<1>1. Init => TypeOK /\ Up /\ ProofsMatch
  BY TypeInit DEF Init, Up, ProofsMatch, NoEntry
<1>2. TypeOK /\ Up /\ ProofsMatch /\ [Next]_vars => (Up /\ ProofsMatch)'
  BY MatchesPreserved
<1> QED BY <1>1, <1>2, TypeCorrect, PTL DEF Spec

-----------------------------------------------------------------------------
(* Aligned, and what follows from it, for callers that tell the truth *)

\* What callers of the instance do: events state the weight the census has, no batch and
\* no dump names an address twice, no dump an index, ImportEvents is for an empty tree.  Address 0 with
\* weight 0 would look like an empty slot.
Truthful ==
    /\ NoRestart
    /\ Env \intersect {"reuse", "doubles", "clashes", "repeats", "liars"} = {}
    /\ 0 \notin Address

\* An index with an address has a leaf.
LEMMA IndexHasLeaf ==
    ASSUME TypeOK, Up, ProofsMatch, Aligned, NEW i \in DOMAIN indexToAddress
    PROVE  /\ i \in 0..(Len(leaves) - 1)
           /\ indexToAddress[i] \in DOMAIN weights
           /\ leaves[i + 1] = PackAddressWeight(indexToAddress[i], weights[indexToAddress[i]])
<1>1. indexToAddress[i] \in DOMAIN addressIndex /\ addressIndex[indexToAddress[i]] = i
  BY DEF Aligned
<1>2. i \in Nat /\ Len(leaves) \in Nat
  BY DEF TypeOK, IsMap
<1>3. i < Len(leaves)
  BY <1>1 DEF ProofsMatch
<1>4. i \in 0..(Len(leaves) - 1)
  BY <1>2, <1>3
<1> QED BY <1>1, <1>4 DEF ProofsMatch, LeafAt

\* Address 0 aside, the leaf of an address is not an empty slot.
LEMMA LeafNotEmpty ==
    ASSUME Truthful, NEW a \in Address, NEW w \in Weight
    PROVE  PackAddressWeight(a, w) # 0
<1>1. a \in Nat /\ a # 0 /\ w \in Nat /\ WeightLimit \in Nat /\ WeightLimit > 0
  BY CensusAssumption DEF Truthful
<1>2. PICK b \in Nat : a = 1 + b
  <2>1. a - 1 \in Nat /\ a = 1 + (a - 1)
    BY <1>1
  <2> QED BY <2>1
<1>3. a * WeightLimit = WeightLimit + b * WeightLimit /\ b * WeightLimit \in Nat
  BY <1>1, <1>2
<1> QED BY <1>1, <1>3 DEF PackAddressWeight

\* The leaf of an address, with whatever weight, is at the index the census has for it.
LEMMA LeafTellsIndex ==
    ASSUME Truthful, TypeOK, Up, ProofsMatch, Aligned,
           NEW i \in 0..(Len(leaves) - 1), NEW a \in Address, NEW w \in Weight,
           leaves[i + 1] = PackAddressWeight(a, w)
    PROVE  /\ i \in DOMAIN indexToAddress /\ indexToAddress[i] = a
           /\ a \in DOMAIN addressIndex /\ addressIndex[a] = i
<1>1. i \in DOMAIN indexToAddress
  BY LeafNotEmpty DEF Aligned, LeafAt
<1>2. /\ indexToAddress[i] \in DOMAIN weights
      /\ leaves[i + 1] = PackAddressWeight(indexToAddress[i], weights[indexToAddress[i]])
  BY <1>1, IndexHasLeaf
<1>3. indexToAddress[i] \in Address /\ weights[indexToAddress[i]] \in Weight
  BY <1>1, <1>2 DEF TypeOK, IsMap
<1>4. indexToAddress[i] = a
  BY <1>2, <1>3, LeavesDiffer
<1> QED BY <1>1, <1>4 DEF Aligned

\* An event that tells the truth finds the leaf of its address, and only if it has one.
LEMMA EventFinds ==
    ASSUME Truthful, TypeOK, Up, ProofsMatch, Aligned, NEW e \in Event, Handling(e)
    PROVE  /\ Contains(OldLeaf(e)) <=> Has(e.address)
           /\ Contains(OldLeaf(e)) =>
                 /\ IndexOf(OldLeaf(e)) \in 0..(Len(leaves) - 1)
                 /\ IndexOf(OldLeaf(e)) \in DOMAIN indexToAddress
                 /\ indexToAddress[IndexOf(OldLeaf(e))] = e.address
                 /\ addressIndex[e.address] = IndexOf(OldLeaf(e))
<1>1. e.address \in Address /\ e.prev \in Weight
  BY DEF Event
<1>2. ASSUME Contains(OldLeaf(e))
      PROVE  /\ IndexOf(OldLeaf(e)) \in 0..(Len(leaves) - 1)
             /\ IndexOf(OldLeaf(e)) \in DOMAIN indexToAddress
             /\ indexToAddress[IndexOf(OldLeaf(e))] = e.address
             /\ e.address \in DOMAIN addressIndex
             /\ addressIndex[e.address] = IndexOf(OldLeaf(e))
  <2> DEFINE i == IndexOf(OldLeaf(e))
  <2>1. i \in 0..(Len(leaves) - 1) /\ leaves[i + 1] = OldLeaf(e)
    BY <1>2, OldLeafAt
  <2> HIDE DEF i
  <2>2. leaves[i + 1] = PackAddressWeight(e.address, e.prev)
    BY <2>1 DEF OldLeaf
  <2>3. /\ i \in DOMAIN indexToAddress /\ indexToAddress[i] = e.address
        /\ e.address \in DOMAIN addressIndex /\ addressIndex[e.address] = i
    BY <1>1, <2>1, <2>2, LeafTellsIndex
  <2> QED BY <2>1, <2>3 DEF i
<1>3. ASSUME Has(e.address) PROVE Contains(OldLeaf(e))
  <2>1. e.prev = weights[e.address]
    BY <1>3 DEF Handling, Truthful, CurrentWeight
  <2>2. /\ addressIndex[e.address] < Len(leaves)
        /\ LeafAt(addressIndex[e.address]) = OldLeaf(e)
    BY <1>3, <2>1 DEF ProofsMatch, Has, OldLeaf
  <2>3. addressIndex[e.address] \in Nat /\ Len(leaves) \in Nat
    BY <1>3 DEF Has, TypeOK, IsMap
  <2>4. addressIndex[e.address] \in 0..(Len(leaves) - 1)
    BY <2>2, <2>3
  <2> QED BY <2>2, <2>4 DEF Contains
<1> QED BY <1>2, <1>3 DEF Has

\* An entry that is set at its own index, or is new at a new one, keeps the maps aligned.
LEMMA SetEntryAligned ==
    ASSUME Aligned, NEW a, NEW index, NEW w, SetEntry(a, index, w),
           \/ index \in DOMAIN indexToAddress /\ indexToAddress[index] = a
           \/ a \notin DOMAIN addressIndex /\ index \notin DOMAIN indexToAddress,
           \A i \in 0..(Len(leaves') - 1) :
              i # index /\ i \notin DOMAIN indexToAddress => leaves'[i + 1] = 0
    PROVE  Aligned'
<1>1. /\ DOMAIN addressIndex' = DOMAIN addressIndex \union {a}
      /\ \A b \in DOMAIN addressIndex' :
            addressIndex'[b] = IF b = a THEN index ELSE addressIndex[b]
  BY DEF SetEntry, Store, Merge
<1>2. /\ DOMAIN indexToAddress' = DOMAIN indexToAddress \union {index}
      /\ \A i \in DOMAIN indexToAddress' :
            indexToAddress'[i] = IF i = index THEN a ELSE indexToAddress[i]
  BY DEF SetEntry, Store, Merge
<1>3. ASSUME NEW b \in DOMAIN addressIndex'
      PROVE  addressIndex'[b] \in DOMAIN indexToAddress' /\ indexToAddress'[addressIndex'[b]] = b
  BY <1>1, <1>2 DEF Aligned
<1>4. ASSUME NEW i \in DOMAIN indexToAddress'
      PROVE  indexToAddress'[i] \in DOMAIN addressIndex' /\ addressIndex'[indexToAddress'[i]] = i
  BY <1>1, <1>2 DEF Aligned
<1>5. \A i \in 0..(Len(leaves') - 1) : i \notin DOMAIN indexToAddress' => leaves'[i + 1] = 0
  BY <1>2
<1> QED BY <1>3, <1>4, <1>5 DEF Aligned, LeafAt

\* Each branch of the loop over events keeps the maps aligned.
LEMMA EventAligned ==
    ASSUME Truthful, TypeOK, Up, ProofsMatch, Aligned, NEW e \in Event,
           InsertEvent(e) \/ UpdateEvent(e) \/ DeleteEvent(e) \/ NoOpEvent(e) \/ FailEvent(e)
    PROVE  Aligned'
<1>1. leaves \in Seq(Leaf) /\ Len(leaves) \in Nat
  BY DEF TypeOK
<1>2. ASSUME Handling(e), NEW index, index = IndexOf(OldLeaf(e)), Contains(OldLeaf(e)),
             leaves' = [leaves EXCEPT ![index + 1] = NewLeaf(e)],
             SetEntry(e.address, index, e.new)
      PROVE  Aligned'
  <2>1. index \in 0..(Len(leaves) - 1) /\ index \in DOMAIN indexToAddress
        /\ indexToAddress[index] = e.address
    BY <1>2, EventFinds
  <2>2. \A i \in 0..(Len(leaves') - 1) :
           i # index /\ i \notin DOMAIN indexToAddress => leaves'[i + 1] = 0
    BY <1>1, <1>2, <2>1 DEF Aligned, LeafAt
  <2> QED BY <1>2, <2>1, <2>2, SetEntryAligned
<1>3. CASE InsertEvent(e)
  <2>1. CASE Contains(OldLeaf(e))
    <3>1. IndexOf(OldLeaf(e)) \in 0..(Len(leaves) - 1)
      BY <2>1, OldLeafAt
    <3>2. /\ leaves' = [leaves EXCEPT ![IndexOf(OldLeaf(e)) + 1] = NewLeaf(e)]
          /\ SetEntry(e.address, IndexOf(OldLeaf(e)), e.new) /\ Handling(e)
      BY <1>1, <1>3, <2>1, <3>1 DEF InsertEvent
    <3> QED BY <1>2, <2>1, <3>2
  <2>2. CASE ~Contains(OldLeaf(e))
    <3>1. /\ leaves' = Append(leaves, NewLeaf(e)) /\ Handling(e)
          /\ SetEntry(e.address, Len(leaves), e.new)
      BY <1>1, <1>3, <2>2 DEF InsertEvent
    <3>2. e.address \notin DOMAIN addressIndex
      BY <2>2, <3>1, EventFinds DEF Has
    <3>3. Len(leaves) \notin DOMAIN indexToAddress
      BY <1>1, IndexHasLeaf
    <3>4. \A i \in 0..(Len(leaves') - 1) :
             i # Len(leaves) => i \in 0..(Len(leaves) - 1) /\ leaves'[i + 1] = leaves[i + 1]
      BY <1>1, <3>1
    <3>5. \A i \in 0..(Len(leaves') - 1) :
             i # Len(leaves) /\ i \notin DOMAIN indexToAddress => leaves'[i + 1] = 0
      BY <3>4 DEF Aligned, LeafAt
    <3> QED BY <3>1, <3>2, <3>3, <3>5, SetEntryAligned
  <2> QED BY <2>1, <2>2
<1>4. CASE UpdateEvent(e)
  BY <1>2, <1>4 DEF UpdateEvent
<1>5. CASE DeleteEvent(e)
  <2> DEFINE index == IndexOf(OldLeaf(e))
  <2>1. /\ index \in 0..(Len(leaves) - 1) /\ index \in DOMAIN indexToAddress
        /\ indexToAddress[index] = e.address /\ addressIndex[e.address] = index
    BY <1>5, EventFinds DEF DeleteEvent
  <2>2. /\ leaves' = [leaves EXCEPT ![index + 1] = 0]
        /\ addressIndex' = Delete(addressIndex, {e.address})
        /\ indexToAddress' = Delete(indexToAddress, {index})
    BY <1>5 DEF DeleteEvent
  <2> HIDE DEF index
  <2>3. /\ DOMAIN addressIndex' = DOMAIN addressIndex \ {e.address}
        /\ \A b \in DOMAIN addressIndex' : addressIndex'[b] = addressIndex[b]
    BY <2>2 DEF Delete, Restrict
  <2>4. /\ DOMAIN indexToAddress' = DOMAIN indexToAddress \ {index}
        /\ \A i \in DOMAIN indexToAddress' : indexToAddress'[i] = indexToAddress[i]
    BY <2>2 DEF Delete, Restrict
  <2>5. \A b \in DOMAIN addressIndex' :
           addressIndex'[b] \in DOMAIN indexToAddress' /\ indexToAddress'[addressIndex'[b]] = b
    BY <2>1, <2>3, <2>4 DEF Aligned
  <2>6. \A i \in DOMAIN indexToAddress' :
           indexToAddress'[i] \in DOMAIN addressIndex' /\ addressIndex'[indexToAddress'[i]] = i
    BY <2>1, <2>3, <2>4 DEF Aligned
  <2>7. Len(leaves') = Len(leaves)
        /\ \A i \in 0..(Len(leaves) - 1) :
              leaves'[i + 1] = IF i = index THEN 0 ELSE leaves[i + 1]
    BY <1>1, <2>1, <2>2
  <2>8. \A i \in 0..(Len(leaves') - 1) : i \notin DOMAIN indexToAddress' => leaves'[i + 1] = 0
    BY <2>4, <2>7 DEF Aligned, LeafAt
  <2> QED BY <2>5, <2>6, <2>8 DEF Aligned, LeafAt
<1>6. CASE NoOpEvent(e)
  BY <1>6 DEF NoOpEvent, maps, Aligned, LeafAt
<1>7. CASE FailEvent(e)
  BY <1>7 DEF FailEvent, maps, Aligned, LeafAt
<1> QED BY <1>3, <1>4, <1>5, <1>6, <1>7

\* Add and AddBulk: with no address twice in a batch, each entry is new at a new index.
LEMMA AddAligned ==
    ASSUME TypeOK, Up, ProofsMatch, Aligned, NEW n \in Nat, NEW addrs \in [1..n -> Address],
           NEW ws \in [1..n -> Weight], IsInjective(addrs), AddEntries(addrs, ws)
    PROVE  Aligned'
<1> DEFINE new == [i \in 1..n |-> PackAddressWeight(addrs[i], ws[i])]
           size == Len(leaves)
<1>0. size \in Nat /\ Len(addrs) = n /\ DOMAIN addrs = 1..n
  BY DEF TypeOK
<1>1. leaves' = leaves \o new
  <2>1. leaves' = leaves \o [i \in DOMAIN addrs |-> PackAddressWeight(addrs[i], ws[i])]
    BY AddEntriesDoes
  <2> QED BY <1>0, <2>1
<1>2. /\ addressIndex' = Merge(IndexIn(addrs), addressIndex)
      /\ indexToAddress' = Merge(AddressOf(addrs), indexToAddress)
  BY AddEntriesDoes
<1>3. new \in Seq(Leaf) /\ Len(new) = n /\ leaves \in Seq(Leaf)
  BY PackIsLeaf DEF TypeOK
<1>4. Len(leaves') = size + n /\ \A i \in 1..size : leaves'[i] = leaves[i]
  BY <1>1, <1>3, ConcatProperties
<1> HIDE DEF new
<1>5. \A a \in Range(addrs) : a \notin DOMAIN addressIndex
  BY DEF AddEntries, Has, Range
<1>6. \A i \in DOMAIN indexToAddress : i \in 0..(size - 1)
  BY IndexHasLeaf
<1>7. ASSUME NEW k \in 1..n
      PROVE  /\ addrs[k] \in DOMAIN addressIndex' /\ addressIndex'[addrs[k]] = size + k - 1
             /\ size + k - 1 \in DOMAIN indexToAddress'
             /\ indexToAddress'[size + k - 1] = addrs[k]
  <2>1. addrs[k] \in Range(addrs)
    BY <1>0 DEF Range
  <2>2. LastIn(addrs)[addrs[k]] \in 1..n /\ addrs[LastIn(addrs)[addrs[k]]] = addrs[k]
    BY <1>3, <2>1, EntriesTyped
  <2>3. LastIn(addrs)[addrs[k]] = k
    BY <1>0, <2>2 DEF IsInjective
  <2>4. IndexIn(addrs)[addrs[k]] = size + k - 1 /\ addrs[k] \in DOMAIN IndexIn(addrs)
    BY <2>1, <2>3 DEF IndexIn
  <2>5. size + k - 1 \in size..(size + n - 1) /\ size + k - 1 - size + 1 = k
    BY <1>0
  <2>6. /\ size + k - 1 \in DOMAIN AddressOf(addrs)
        /\ AddressOf(addrs)[size + k - 1] = addrs[k]
    BY <1>0, <2>5 DEF AddressOf
  <2> HIDE DEF size
  <2> QED BY <1>2, <2>4, <2>6 DEF Merge
<1>8. DOMAIN addressIndex' = Range(addrs) \union DOMAIN addressIndex
  BY <1>2 DEF Merge, IndexIn
<1>9. DOMAIN indexToAddress' = size..(size + n - 1) \union DOMAIN indexToAddress
  BY <1>0, <1>2 DEF Merge, AddressOf
<1>10. ASSUME NEW b \in DOMAIN addressIndex
       PROVE  b \in DOMAIN addressIndex' /\ addressIndex'[b] = addressIndex[b]
  BY <1>2, <1>5 DEF Merge, IndexIn
<1>11. ASSUME NEW i \in DOMAIN indexToAddress
       PROVE  i \in DOMAIN indexToAddress' /\ indexToAddress'[i] = indexToAddress[i]
  <2>1. i \notin size..(size + n - 1)
    BY <1>0, <1>6
  <2>2. i \notin DOMAIN AddressOf(addrs)
    BY <1>0, <2>1 DEF AddressOf
  <2> QED BY <1>2, <2>2 DEF Merge
<1>12. ASSUME NEW b \in DOMAIN addressIndex'
       PROVE  addressIndex'[b] \in DOMAIN indexToAddress' /\ indexToAddress'[addressIndex'[b]] = b
  <2>1. CASE b \in Range(addrs)
    <3>1. PICK k \in 1..n : b = addrs[k]
      BY <1>0, <2>1 DEF Range
    <3> QED BY <1>7, <3>1
  <2>2. CASE b \in DOMAIN addressIndex
    BY <1>10, <1>11, <2>2 DEF Aligned
  <2> QED BY <1>8, <2>1, <2>2
<1>13. ASSUME NEW i \in DOMAIN indexToAddress'
       PROVE  indexToAddress'[i] \in DOMAIN addressIndex' /\ addressIndex'[indexToAddress'[i]] = i
  <2>1. CASE i \in size..(size + n - 1)
    <3>1. i - size + 1 \in 1..n /\ i = size + (i - size + 1) - 1
      BY <1>0, <2>1
    <3> QED BY <1>7, <3>1
  <2>2. CASE i \in DOMAIN indexToAddress
    BY <1>10, <1>11, <2>2 DEF Aligned
  <2> QED BY <1>9, <2>1, <2>2
<1>14. ASSUME NEW i \in 0..(Len(leaves') - 1), i \notin DOMAIN indexToAddress'
       PROVE  leaves'[i + 1] = 0
  <2>1. i \in 0..(size - 1) /\ i + 1 \in 1..size
    BY <1>0, <1>4, <1>9, <1>14
  <2>2. i \notin DOMAIN indexToAddress
    BY <1>9, <1>14
  <2> QED BY <1>4, <2>1, <2>2 DEF Aligned, LeafAt
<1> QED BY <1>12, <1>13, <1>14 DEF Aligned, LeafAt

\* Update touches the leaf of an address that is there.
LEMMA UpdateAligned ==
    ASSUME TypeOK, Aligned, NEW a \in Address, NEW w \in Weight, Update(a, w)
    PROVE  Aligned'
<1>1. /\ leaves' = [leaves EXCEPT ![addressIndex[a] + 1] = PackAddressWeight(a, w)]
      /\ addressIndex[a] \in DOMAIN indexToAddress /\ addressIndex[a] \in Nat
      /\ UNCHANGED <<addressIndex, indexToAddress>>
  BY DEF Update, Has, Aligned, TypeOK, IsMap
<1>2. leaves \in Seq(Leaf)
  BY DEF TypeOK
<1>3. Len(leaves') = Len(leaves)
      /\ \A i \in 0..(Len(leaves) - 1) : i # addressIndex[a] => leaves'[i + 1] = leaves[i + 1]
  BY <1>1, <1>2
<1> QED BY <1>1, <1>3 DEF Aligned, LeafAt

\* An imported participant is new at a new index, and the slots before it are empty.
LEMMA ParticipantAligned ==
    ASSUME Truthful, TypeOK, Up, ProofsMatch, Aligned,
           NEW index \in Nat, NEW a \in Address, NEW w \in Weight, ImportParticipant(index, a, w)
    PROVE  Aligned'
<1>1. Len(leaves) <= index /\ SetEntry(a, index, w) /\ a \notin DOMAIN addressIndex
  BY DEF ImportParticipant, IsEmptyParticipant, Truthful, Has
<1>2. leaves \in Seq(Leaf) /\ Len(leaves) \in Nat
  BY DEF TypeOK
<1>3. /\ Len(leaves') = index + 1
      /\ \A k \in 1..Len(leaves) : leaves'[k] = leaves[k]
      /\ \A k \in (Len(leaves) + 1)..(Len(leaves') - 1) : leaves'[k] = 0
  BY <1>1, ParticipantAdds
<1>5. index \notin DOMAIN indexToAddress
  BY <1>1, <1>2, IndexHasLeaf
<1>6. ASSUME NEW i \in 0..(Len(leaves') - 1), i # index, i \notin DOMAIN indexToAddress
      PROVE  leaves'[i + 1] = 0
  <2>1. CASE i < Len(leaves)
    <3>1. i + 1 \in 1..Len(leaves) /\ i \in 0..(Len(leaves) - 1)
      BY <1>2, <1>3, <2>1
    <3> QED BY <1>3, <1>6, <3>1 DEF Aligned, LeafAt
  <2>2. CASE i >= Len(leaves)
    <3>1. i + 1 \in (Len(leaves) + 1)..(Len(leaves') - 1)
      BY <1>2, <1>3, <1>6, <2>2
    <3> QED BY <1>3, <3>1
  <2> QED BY <1>2, <2>1, <2>2
<1> QED BY <1>1, <1>5, <1>6, SetEntryAligned

\* Aligned survives every step of a process that keeps running.
LEMMA AlignedPreserved ==
    ASSUME Truthful, TypeOK, Up, ProofsMatch, Aligned, [Next]_vars
    PROVE  Aligned'
<1>1. ASSUME NEW a \in Address, NEW w \in Weight, Add(a, w) PROVE Aligned'
  <2>1. <<a>> \in [1..1 -> Address] /\ <<w>> \in [1..1 -> Weight] /\ 1 \in Nat
        /\ IsInjective(<<a>>)
    BY DEF IsInjective
  <2> QED BY <1>1, <2>1, AddAligned DEF Add
<1>2. ASSUME NEW a \in Address, NEW w \in Weight, Update(a, w) PROVE Aligned'
  BY <1>2, UpdateAligned
<1>3. ASSUME NEW b \in Batches, AddBulk(b[1], b[2]) PROVE Aligned'
  <2>1. IsInjective(b[1]) /\ AddEntries(b[1], b[2])
    BY <1>3 DEF AddBulk, Truthful
  <2> QED BY <2>1, BatchTyped, AddAligned
<1>4. ASSUME NEW e \in Event,
             InsertEvent(e) \/ UpdateEvent(e) \/ DeleteEvent(e) \/ NoOpEvent(e) \/ FailEvent(e)
      PROVE  Aligned'
  BY <1>4, EventAligned
<1>5. ASSUME NEW i \in 0..(MaxSize - 1), NEW a \in Address, NEW w \in Weight,
             ImportParticipant(i, a, w)
      PROVE  Aligned'
  BY <1>5, ParticipantAligned
<1>6. ASSUME BeginImportEvents \/ BeginImport PROVE Aligned'
  <2>1. addressIndex' = NoEntry /\ indexToAddress' = NoEntry
    BY <1>6 DEF BeginImportEvents, BeginImport, ClearMaps
  <2>2. leaves' = <<>>
    BY <1>6 DEF BeginImportEvents, BeginImport, Truthful
  <2> QED BY <2>1, <2>2 DEF Aligned, NoEntry
<1>7. ASSUME UNCHANGED <<leaves, maps>> PROVE Aligned'
  BY <1>7 DEF Aligned, LeafAt, maps
<1>8. ASSUME UNCHANGED vars PROVE Aligned'
  BY <1>7, <1>8 DEF vars
<1>9. ASSUME BeginApplyEvents \/ EndEvents \/ RejectEvents \/ EndImport \/ RejectImport \/ Sync
      PROVE  UNCHANGED <<leaves, maps>>
  BY <1>9 DEF BeginApplyEvents, EndEvents, RejectEvents, EndImport, RejectImport, Sync
<1>10. ~Close /\ ~Crash /\ ~NewCensusIMT
  BY DEF Truthful, NoRestart, Close, Crash, NewCensusIMT, Up
<1> QED BY <1>1, <1>2, <1>3, <1>4, <1>5, <1>6, <1>7, <1>8, <1>9, <1>10 DEF Next

\* What holds of every state of a census in such hands.
Sound == TypeOK /\ ImportIndexed /\ Up /\ ProofsMatch /\ Aligned

\* Sound is inductive.
LEMMA SoundInductive ==
    ASSUME Truthful
    PROVE  (Init => Sound) /\ (Sound /\ [Next]_vars => Sound')
<1>1. Init => Sound
  <2>1. Init => TypeOK /\ ImportIndexed /\ Up /\ ProofsMatch
    BY TypeInit DEF Init, Up, ProofsMatch, NoEntry
  <2>2. Init => Aligned
    BY DEF Init, Aligned, NoEntry
  <2> QED BY <2>1, <2>2 DEF Sound
<1>2. Sound /\ [Next]_vars => Sound'
  <2>1. NoClashes
    BY DEF Truthful, NoClashes
  <2> QED BY <2>1, TypePreserved, ImportIndexedPreserved, MatchesPreserved, AlignedPreserved
          DEF Sound, Truthful
<1> QED BY <1>1, <1>2

\* The maps of a census stay each other's inverse, and only empty leaves are without an
\* address, for all that callers who tell the truth do and whatever the database answers.
THEOREM MapsStayAligned == Truthful => (Spec => []Aligned)
<1> SUFFICES ASSUME Truthful PROVE Spec => []Aligned
  OBVIOUS
<1>1. Sound => Aligned
  BY DEF Sound
<1> QED BY <1>1, SoundInductive, PTL DEF Spec

\* No address ever has two leaves, in the hands of callers who tell the truth: each voter
\* counts once, through any sequence of additions, events and imports.
THEOREM EachVotesOnce == Truthful => (Spec => []OneLeafEach)
<1> SUFFICES ASSUME Truthful PROVE Spec => []OneLeafEach
  OBVIOUS
<1>1. ASSUME Sound PROVE OneLeafEach
  <2> SUFFICES ASSUME NEW i \in 1..Len(leaves), NEW j \in 1..Len(leaves), i # j,
                      leaves[i] # 0, leaves[j] # 0
               PROVE  UnpackAddress(leaves[i]) # UnpackAddress(leaves[j])
    BY DEF OneLeafEach
  <2>1. ASSUME NEW k \in 1..Len(leaves), leaves[k] # 0
        PROVE  \E a \in DOMAIN addressIndex :
                  addressIndex[a] = k - 1 /\ UnpackAddress(leaves[k]) = a
    <3>1. k - 1 \in 0..(Len(leaves) - 1) /\ (k - 1) + 1 = k
      BY <1>1 DEF Sound, TypeOK
    <3>2. k - 1 \in DOMAIN indexToAddress
      BY <1>1, <2>1, <3>1 DEF Sound, Aligned, LeafAt
    <3> DEFINE a == indexToAddress[k - 1]
    <3>3. a \in DOMAIN weights /\ leaves[(k - 1) + 1] = PackAddressWeight(a, weights[a])
      BY <1>1, <3>2, IndexHasLeaf DEF Sound
    <3>4. a \in Address /\ weights[a] \in Weight
      BY <1>1, <3>2, <3>3 DEF Sound, TypeOK, IsMap
    <3>5. a \in DOMAIN addressIndex /\ addressIndex[a] = k - 1
      BY <1>1, <3>2 DEF Sound, Aligned
    <3> HIDE DEF a
    <3>6. UnpackAddress(leaves[k]) = a
      BY <3>1, <3>3, <3>4, UnpackPacked
    <3> QED BY <3>5, <3>6
  <2>2. i - 1 # j - 1
    OBVIOUS
  <2> QED BY <2>1, <2>2
<1> QED BY <1>1, SoundInductive, PTL DEF Spec

\* What DumpAll shows is what the tree holds, leaf by leaf: the export has the root it
\* states, and every address in it has its weight.
THEOREM DumpsFaithful == Truthful => (Spec => []DumpFaithful)
<1> SUFFICES ASSUME Truthful PROVE Spec => []DumpFaithful
  OBVIOUS
<1>1. Sound => DumpFaithful
  BY IndexHasLeaf DEF Sound, DumpFaithful, DumpedLeaf, Aligned, LeafAt
<1> QED BY <1>1, SoundInductive, PTL DEF Spec

\* Two entries of an address, before and after SetEntry.
LEMMA SetEntryKeeps ==
    ASSUME Aligned, NEW a, NEW index, NEW w, SetEntry(a, index, w),
           NEW b \in DOMAIN addressIndex,
           \/ index \in DOMAIN indexToAddress /\ indexToAddress[index] = a
           \/ a \notin DOMAIN addressIndex
    PROVE  addressIndex'[b] = addressIndex[b]
BY DEF SetEntry, Store, Merge, Aligned

\* No step changes the index of an address that is there before and after it.
LEMMA IndexKept ==
    ASSUME Truthful, Sound, [Next]_vars,
           NEW b \in DOMAIN addressIndex, b \in DOMAIN addressIndex'
    PROVE  addressIndex'[b] = addressIndex[b]
<1> USE DEF Sound
<1>1. ASSUME NEW addrs, NEW ws, AddEntries(addrs, ws) PROVE addressIndex'[b] = addressIndex[b]
  <2>1. addressIndex' = Merge(IndexIn(addrs), addressIndex)
    BY <1>1, AddEntriesDoes
  <2>2. b \notin Range(addrs)
    BY <1>1 DEF AddEntries, Has, Range
  <2> QED BY <2>1, <2>2 DEF Merge, IndexIn
<1>2. ASSUME NEW e \in Event, InsertEvent(e) PROVE addressIndex'[b] = addressIndex[b]
  <2> DEFINE index == IF Contains(OldLeaf(e)) THEN IndexOf(OldLeaf(e)) ELSE Len(leaves)
  <2>1. SetEntry(e.address, index, e.new) /\ Handling(e)
    BY <1>2 DEF InsertEvent
  <2>2. \/ index \in DOMAIN indexToAddress /\ indexToAddress[index] = e.address
        \/ e.address \notin DOMAIN addressIndex
    BY <2>1, EventFinds DEF Has
  <2> HIDE DEF index
  <2> QED BY <2>1, <2>2, SetEntryKeeps
<1>3. ASSUME NEW e \in Event, UpdateEvent(e) PROVE addressIndex'[b] = addressIndex[b]
  <2>1. SetEntry(e.address, IndexOf(OldLeaf(e)), e.new)
    BY <1>3 DEF UpdateEvent
  <2>2. /\ IndexOf(OldLeaf(e)) \in DOMAIN indexToAddress
        /\ indexToAddress[IndexOf(OldLeaf(e))] = e.address
    BY <1>3, EventFinds DEF UpdateEvent
  <2> QED BY <2>1, <2>2, SetEntryKeeps
<1>4. ASSUME NEW e \in Event, DeleteEvent(e) PROVE addressIndex'[b] = addressIndex[b]
  BY <1>4 DEF DeleteEvent, Delete, Restrict
<1>5. ASSUME NEW i, NEW a \in Address, NEW w, ImportParticipant(i, a, w)
      PROVE  addressIndex'[b] = addressIndex[b]
  <2>1. SetEntry(a, i, w) /\ a \notin DOMAIN addressIndex
    BY <1>5 DEF ImportParticipant, IsEmptyParticipant, Truthful, Has
  <2> QED BY <2>1, SetEntryKeeps
<1>6. ASSUME BeginImportEvents \/ BeginImport PROVE FALSE
  BY <1>6 DEF BeginImportEvents, BeginImport, ClearMaps, NoEntry
<1>7. ~Close /\ ~Crash /\ ~NewCensusIMT
  BY DEF Truthful, NoRestart, Close, Crash, NewCensusIMT, Up
<1>8. ASSUME \/ BeginApplyEvents \/ EndEvents \/ RejectEvents \/ EndImport \/ RejectImport
             \/ Sync \/ UNCHANGED vars
             \/ \E a, w : Update(a, w)
             \/ \E e \in Event : NoOpEvent(e) \/ FailEvent(e)
      PROVE  addressIndex'[b] = addressIndex[b]
  BY <1>8 DEF BeginApplyEvents, EndEvents, RejectEvents, EndImport, RejectImport, Sync,
              vars, maps, Update, NoOpEvent, FailEvent
<1> QED BY <1>1, <1>2, <1>3, <1>4, <1>5, <1>6, <1>7, <1>8 DEF Next, Add, AddBulk

\* An address that stays in the census keeps its index, whichever step it is: the proof it
\* has been given changes only with the leaves.
THEOREM IndexesStay == Truthful => (Spec => AddressesKeepIndex)
<1> SUFFICES ASSUME Truthful PROVE Spec => AddressesKeepIndex
  OBVIOUS
<1> DEFINE Keep == \A a \in DOMAIN addressIndex \intersect DOMAIN addressIndex' :
                      addressIndex'[a] = addressIndex[a]
<1>1. Sound /\ [Next]_vars => [Keep]_vars
  BY IndexKept
<1> HIDE DEF Keep
<1>2. Spec => [][Keep]_vars
  BY <1>1, SoundInductive, PTL DEF Spec
<1> QED BY <1>2 DEF AddressesKeepIndex, Keep

-----------------------------------------------------------------------------
(* EventsTakeEffect *)

\* Weights that an int64 holds; a voting weight in wei passes it, as census_int64 shows.
SmallWeights == \A w \in Weight : w < Int64Limit

\* An int64 holds what it can hold.
LEMMA Int64Small ==
    ASSUME NEW w \in Nat, w < Int64Limit
    PROVE  Int64(w) = w
<1>1. Int64Limit \in Nat \ {0}
  BY CensusAssumption
<1>2. w + Int64Limit \in 0..(2 * Int64Limit - 1) /\ 2 * Int64Limit \in Nat \ {0}
  BY <1>1
<1>3. (w + Int64Limit) % (2 * Int64Limit) = w + Int64Limit
  <2> DEFINE n == w + Int64Limit
             m == 2 * Int64Limit
  <2>1. n \in 0..(m - 1) /\ m \in Nat \ {0}
    BY <1>2
  <2> HIDE DEF n, m
  <2>2. n % m = n
    BY <2>1
  <2> QED BY <2>2 DEF n, m
<1> QED BY <1>1, <1>3 DEF Int64

\* The event handled last is one of the loop that runs, and its address has its weight.
EventDone ==
    /\ op # Idle => Up
    /\ op.event # NoEvent =>
          /\ op.call \in {"apply", "importEvents"}
          /\ CurrentWeight(op.event.address) = op.event.new

\* Each branch of the loop gives the address of a true event its new weight.
LEMMA EventTakesEffect ==
    ASSUME "liars" \notin Env, SmallWeights, TypeOK, EventDone, NEW e \in Event,
           InsertEvent(e) \/ UpdateEvent(e) \/ DeleteEvent(e) \/ NoOpEvent(e)
    PROVE  CurrentWeight(e.address)' = e.new
<1>1. /\ e.prev \in Nat /\ e.new \in Nat /\ e.prev = CurrentWeight(e.address)
      /\ Int64(e.prev) = e.prev /\ Int64(e.new) = e.new
  <2>1. e.prev \in Weight /\ e.new \in Weight
    BY DEF Event
  <2>2. Handling(e)
    BY DEF InsertEvent, UpdateEvent, DeleteEvent, NoOpEvent
  <2>3. \A w \in Weight : w \in Nat /\ w < Int64Limit
    BY CensusAssumption DEF SmallWeights
  <2> QED BY <2>1, <2>2, <2>3, Int64Small DEF Handling
<1>2. ASSUME NEW index, SetEntry(e.address, index, e.new)
      PROVE  CurrentWeight(e.address)' = e.new
  BY <1>2 DEF SetEntry, Store, Merge, CurrentWeight, Has
<1>3. CASE InsertEvent(e) \/ UpdateEvent(e)
  BY <1>2, <1>3 DEF InsertEvent, UpdateEvent
<1>4. CASE DeleteEvent(e)
  <2>1. e.new = 0
    <3>1. TreeOp(e) = "delete"
      BY <1>4 DEF DeleteEvent
    <3> QED BY <1>1, <3>1 DEF TreeOp
  <2>2. e.address \notin DOMAIN addressIndex'
    BY <1>4 DEF DeleteEvent, Delete, Restrict
  <2> QED BY <2>1, <2>2 DEF CurrentWeight, Has
<1>5. CASE NoOpEvent(e)
  <2>1. e.prev = 0 /\ e.new = 0
    <3>1. TreeOp(e) = "noop"
      BY <1>5 DEF NoOpEvent
    <3> QED BY <1>1, <3>1 DEF TreeOp
  <2>2. UNCHANGED maps
    BY <1>5 DEF NoOpEvent
  <2> QED BY <1>1, <2>1, <2>2 DEF CurrentWeight, Has, maps
<1> QED BY <1>3, <1>4, <1>5

\* A call that goes on is one of a process that runs.
LEMMA BusyIsUp ==
    ASSUME op # Idle => Up, [Next]_vars
    PROVE  op' # Idle' => Up'
<1>1. CASE Unlocked /\ proc' = proc
  BY <1>1 DEF Unlocked, Up
<1>2. CASE UNCHANGED <<op, proc>>
  BY <1>2 DEF Up, Idle
<1>3. CASE op' = Idle
  BY <1>3 DEF Idle
<1>4. ASSUME NEW e \in Event,
             InsertEvent(e) \/ UpdateEvent(e) \/ DeleteEvent(e) \/ NoOpEvent(e)
      PROVE  op # Idle /\ proc' = proc
  BY <1>4 DEF InsertEvent, UpdateEvent, DeleteEvent, NoOpEvent, Handling, Handled, Idle
<1>5. ASSUME NEW addrs, NEW ws, AddEntries(addrs, ws) PROVE UNCHANGED <<op, proc>>
  BY <1>5 DEF AddEntries
<1>6. ASSUME \/ BeginApplyEvents \/ BeginImportEvents \/ BeginImport
      PROVE  Unlocked /\ proc' = proc
  BY <1>6 DEF BeginApplyEvents, BeginImportEvents, BeginImport
<1>7. ASSUME \/ EndEvents \/ RejectEvents \/ EndImport \/ RejectImport \/ Close \/ Crash
             \/ \E e \in Event : FailEvent(e)
      PROVE  op' = Idle
  BY <1>7 DEF EndEvents, RejectEvents, EndImport, RejectImport, Close, Crash, Gone, FailEvent
<1>8. ASSUME \/ Sync \/ UNCHANGED vars
             \/ \E a, w : Update(a, w)
      PROVE  UNCHANGED <<op, proc>>
  BY <1>8 DEF Sync, vars, Update
<1>11. ASSUME NEW i, NEW a, NEW w, ImportParticipant(i, a, w)
       PROVE  op # Idle /\ proc' = proc
  BY <1>11 DEF ImportParticipant, Idle
<1>12. CASE \E i, a, w : ImportParticipant(i, a, w)
  BY <1>11, <1>12 DEF Up
<1>9. CASE NewCensusIMT
  BY <1>9 DEF NewCensusIMT, Up, Idle
<1>10. CASE \E e \in Event : InsertEvent(e) \/ UpdateEvent(e) \/ DeleteEvent(e) \/ NoOpEvent(e)
  BY <1>4, <1>10 DEF Up
<1> QED
  BY <1>1, <1>2, <1>3, <1>5, <1>6, <1>7, <1>8, <1>9, <1>10, <1>12 DEF Next, Add, AddBulk

\* EventDone is inductive: no other call comes between two events.
LEMMA EventDoneInductive ==
    ASSUME "liars" \notin Env, SmallWeights, TypeOK, EventDone, [Next]_vars
    PROVE  EventDone'
<1>1. Idle.event = NoEvent /\ Idle.call = "none"
  BY DEF Idle
<1>0. op' # Idle' => Up'
  BY BusyIsUp DEF EventDone
<1>2. ASSUME op'.event = NoEvent PROVE EventDone'
  BY <1>0, <1>2 DEF EventDone, NoEvent
<1>3. ASSUME NEW e \in Event,
             InsertEvent(e) \/ UpdateEvent(e) \/ DeleteEvent(e) \/ NoOpEvent(e)
      PROVE  EventDone'
  <2>1. CurrentWeight(e.address)' = e.new
    BY <1>3, EventTakesEffect
  <2>2. op.call \in {"apply", "importEvents"} /\ op' = [op EXCEPT !.event = e]
    BY <1>3 DEF InsertEvent, UpdateEvent, DeleteEvent, NoOpEvent, Handling, Handled
  <2>3. op'.event = e /\ op'.call = op.call
    BY <2>2 DEF TypeOK
  <2> QED BY <1>0, <2>1, <2>2, <2>3 DEF EventDone, CurrentWeight, Has
<1>4. CASE UNCHANGED <<op, maps>>
  BY <1>0, <1>4 DEF EventDone, CurrentWeight, Has, maps
<1>5. ASSUME UNCHANGED op, op.event = NoEvent PROVE op'.event = NoEvent
  BY <1>5
<1>6. ASSUME NEW addrs, NEW ws, AddEntries(addrs, ws) PROVE op'.event = NoEvent
  BY <1>1, <1>6 DEF AddEntries, Unlocked
<1>7. ASSUME NEW a, NEW w, Update(a, w) PROVE op'.event = NoEvent
  BY <1>1, <1>7 DEF Update, Unlocked
<1>8. ASSUME BeginApplyEvents \/ BeginImportEvents \/ BeginImport PROVE op'.event = NoEvent
  BY <1>8 DEF BeginApplyEvents, BeginImportEvents, BeginImport, Idle
<1>9. ASSUME NEW i, NEW a, NEW w, ImportParticipant(i, a, w) PROVE op'.event = NoEvent
  BY <1>9 DEF ImportParticipant, EventDone
<1>10. ASSUME \/ EndEvents \/ RejectEvents \/ EndImport \/ RejectImport \/ Close \/ Crash
              \/ \E e \in Event : FailEvent(e)
       PROVE  op'.event = NoEvent
  BY <1>1, <1>10 DEF EndEvents, RejectEvents, EndImport, RejectImport, Close, Crash, Gone, FailEvent
<1>11. ASSUME Sync PROVE op'.event = NoEvent
  BY <1>1, <1>11 DEF Sync, Unlocked
<1>12. ASSUME NewCensusIMT PROVE op'.event = NoEvent
  BY <1>1, <1>12 DEF NewCensusIMT, EventDone, Up
<1>13. CASE UNCHANGED vars
  BY <1>4, <1>13 DEF vars
<1> QED
  BY <1>2, <1>3, <1>6, <1>7, <1>8, <1>9, <1>10, <1>11, <1>12, <1>13 DEF Next, Add, AddBulk

\* An event that told the truth gave its address the weight it names, whatever else callers
\* and crashes do, as long as weights fit an int64.
THEOREM TrueEventsTakeEffect ==
    "liars" \notin Env /\ SmallWeights => (Spec => []EventsTakeEffect)
<1> SUFFICES ASSUME "liars" \notin Env, SmallWeights PROVE Spec => []EventsTakeEffect
  OBVIOUS
<1>1. Init => TypeOK /\ EventDone
  BY TypeInit DEF Init, EventDone, Idle
<1>2. TypeOK /\ EventDone /\ [Next]_vars => EventDone'
  BY EventDoneInductive
<1>3. EventDone => EventsTakeEffect
  BY DEF EventDone, EventsTakeEffect
<1> QED BY <1>1, <1>2, <1>3, TypeCorrect, PTL DEF Spec

-----------------------------------------------------------------------------
(* DiskIndexComplete and ReopenRestores, for additions, updates and imports *)

\* Calls whose entries are all persisted with the leaves they add: no events, and no dumps
\* with empty slots, with an address twice or with another root.  No transaction fails.
Plain == Env \subseteq {"close", "crash", "import", "repeats"}

\* An address is known for the index i, and i is known for another: after a crash has lost
\* leaves, Add hands out again an index that a map still holds.
Parted(i) == \E a \in DOMAIN addressIndex : addressIndex[a] = i /\ indexToAddress[i] # a

\* The maps hold the same addresses, and addressIndex the last index of each.
MapsFollow ==
    /\ DOMAIN weights = DOMAIN addressIndex
    /\ \A i \in DOMAIN indexToAddress :
          indexToAddress[i] \in DOMAIN addressIndex /\ i <= addressIndex[indexToAddress[i]]

\* While an import runs the disk is empty and every leaf has an address of its own.
Importing ==
    /\ saved = <<>> /\ diskSize = 0
    /\ DOMAIN indexToAddress = 0..(Len(leaves) - 1)
    /\ \A i \in DOMAIN indexToAddress : addressIndex[indexToAddress[i]] = i
    /\ \A a \in DOMAIN addressIndex :
          addressIndex[a] \in DOMAIN indexToAddress /\ indexToAddress[addressIndex[a]] = a

\* Otherwise the keys on disk say what the maps say, where the maps agree.
OnDisk ==
    /\ Len(leaves) <= diskSize
    /\ 0..(diskSize - 1) \subseteq DOMAIN indexToAddress
    /\ \A i \in DOMAIN indexToAddress :
          i \in DOMAIN diskAddress /\ (diskAddress[i] = indexToAddress[i] \/ Parted(i))
    /\ \A a \in DOMAIN weights : a \in DOMAIN diskWeight /\ diskWeight[a] = weights[a]

\* The disk of a census in such hands, beside its memory.
Kept ==
    /\ DiskIndexComplete
    /\ ~HasDB => saved = <<>> /\ diskSize = 0
    /\ op.call \in {"none", "import"}
    /\ op # Idle => Up
    /\ Up => Len(saved) <= Len(leaves) /\ (~dirty => saved = leaves) /\ MapsFollow
    /\ op.call = "import" => Importing
    /\ HasDB /\ Up /\ op.call = "none" => OnDisk

\* A transaction of such a census writes, if there is a database.
LEMMA PersistWrites ==
    ASSUME Plain, NEW size, NEW addressOf, NEW weightOf,
           PersistEntries(size, addressOf, weightOf)
    PROVE  /\ HasDB => /\ diskSize' = size
                       /\ diskAddress' = Merge(addressOf, diskAddress)
                       /\ diskWeight' = Merge(weightOf, diskWeight)
           /\ ~HasDB => UNCHANGED mapKeys
BY DEF Plain, PersistEntries, Commit

\* Add and AddBulk write what they add.
LEMMA AddKept ==
    ASSUME Plain, TypeOK, Kept, NEW n \in Nat, NEW addrs \in [1..n -> Address],
           NEW ws \in [1..n -> Weight], AddEntries(addrs, ws)
    PROVE  Kept'
<1> DEFINE size == Len(leaves)
<1>1. /\ leaves \in Seq(Leaf) /\ size \in Nat /\ saved \in Seq(Leaf) /\ Len(saved) \in Nat
      /\ diskSize \in Nat /\ Len(addrs) = n /\ DOMAIN addrs = 1..n
  BY DEF TypeOK
<1>2. /\ addressIndex' = Merge(IndexIn(addrs), addressIndex)
      /\ indexToAddress' = Merge(AddressOf(addrs), indexToAddress)
      /\ weights' = Merge(WeightOf(addrs, ws), weights)
      /\ PersistEntries(size + n, AddressOf(addrs), WeightOf(addrs, ws))
      /\ UNCHANGED <<saved, op, proc>> /\ dirty' = TRUE
      /\ op = Idle /\ Up
  BY <1>1, AddEntriesDoes DEF Unlocked, Up
<1>3. Len(leaves') = size + n
  <2> DEFINE new == [i \in 1..n |-> PackAddressWeight(addrs[i], ws[i])]
  <2>1. leaves' = leaves \o new
    BY <1>1, AddEntriesDoes
  <2>2. new \in Seq(Leaf) /\ Len(new) = n
    BY PackIsLeaf
  <2> HIDE DEF new
  <2> QED BY <1>1, <2>1, <2>2, ConcatProperties
<1>4. \A a \in Range(addrs) : a \notin DOMAIN addressIndex
  BY DEF AddEntries, Has, Range
<1>5. MapsFollow /\ Idle.call = "none" /\ op.call = "none"
  BY <1>2 DEF Kept, Idle
<1>6. /\ DOMAIN AddressOf(addrs) = size..(size + n - 1)
      /\ DOMAIN WeightOf(addrs, ws) = Range(addrs) /\ DOMAIN IndexIn(addrs) = Range(addrs)
  BY <1>1 DEF AddressOf, WeightOf, IndexIn
<1>7. ASSUME NEW i \in size..(size + n - 1)
      PROVE  /\ AddressOf(addrs)[i] \in Range(addrs)
             /\ IndexIn(addrs)[AddressOf(addrs)[i]] >= i
  <2> DEFINE k == i - size + 1
             a == AddressOf(addrs)[i]
  <2>1. k \in 1..n /\ i = size + k - 1 /\ a = addrs[k]
    BY <1>1 DEF AddressOf
  <2>2. a \in Range(addrs)
    BY <1>1, <2>1 DEF Range
  <2>3. LastIn(addrs)[a] \in 1..n /\ k <= LastIn(addrs)[a]
    BY <1>1, <2>1, <2>2, EntriesTyped
  <2>4. IndexIn(addrs)[a] = size + LastIn(addrs)[a] - 1
    BY <2>2 DEF IndexIn
  <2> HIDE DEF k, a, size
  <2>5. IndexIn(addrs)[a] >= i
    BY <1>1, <2>1, <2>3, <2>4
  <2> QED BY <2>2, <2>5 DEF a
<1> HIDE DEF size
<1>8. MapsFollow'
  <2>1. DOMAIN weights' = DOMAIN addressIndex'
    BY <1>2, <1>5, <1>6 DEF Merge, MapsFollow
  <2>2. ASSUME NEW i \in DOMAIN indexToAddress'
        PROVE  /\ indexToAddress'[i] \in DOMAIN addressIndex'
               /\ i <= addressIndex'[indexToAddress'[i]]
    <3>1. CASE i \in size..(size + n - 1)
      <4>1. indexToAddress'[i] = AddressOf(addrs)[i] /\ i \in Nat
        BY <1>1, <1>2, <1>6, <3>1 DEF Merge
      <4>2. AddressOf(addrs)[i] \in Range(addrs) /\ IndexIn(addrs)[AddressOf(addrs)[i]] >= i
        BY <1>7, <3>1
      <4>3. \A a \in Range(addrs) : addressIndex'[a] = IndexIn(addrs)[a] /\ a \in DOMAIN addressIndex'
        BY <1>2, <1>6 DEF Merge
      <4>4. IsMap(IndexIn(addrs), Address, Nat)
        BY <1>1, EntriesTyped
      <4>5. IndexIn(addrs)[AddressOf(addrs)[i]] \in Nat
        BY <1>6, <4>2, <4>4 DEF IsMap
      <4> QED BY <4>1, <4>2, <4>3, <4>5
    <3>2. CASE i \notin size..(size + n - 1)
      <4>1. i \in DOMAIN indexToAddress /\ indexToAddress'[i] = indexToAddress[i]
        BY <1>2, <1>6, <3>2 DEF Merge
      <4>2. indexToAddress[i] \in DOMAIN addressIndex /\ i <= addressIndex[indexToAddress[i]]
        BY <1>5, <4>1 DEF MapsFollow
      <4> QED BY <1>2, <1>4, <1>6, <4>1, <4>2 DEF Merge
    <3> QED BY <3>1, <3>2
  <2> QED BY <2>1, <2>2 DEF MapsFollow
<1>9. ASSUME HasDB PROVE DiskIndexComplete' /\ OnDisk'
  <2>1. OnDisk /\ DiskIndexComplete /\ Len(saved) <= size
    BY <1>2, <1>5, <1>9 DEF Kept, size
  <2>2. /\ diskSize' = size + n
        /\ diskAddress' = Merge(AddressOf(addrs), diskAddress)
        /\ diskWeight' = Merge(WeightOf(addrs, ws), diskWeight)
    BY <1>2, <1>9, PersistWrites
  <2>3. size <= diskSize
    BY <2>1 DEF OnDisk, size
  <2>4. DOMAIN diskWeight' = Range(addrs) \union DOMAIN diskWeight
    BY <1>6, <2>2 DEF Merge
  <2>5. ASSUME NEW i \in 0..(diskSize' - 1)
        PROVE  i \in DOMAIN diskAddress' /\ diskAddress'[i] \in DOMAIN diskWeight'
    <3>1. CASE i \in size..(size + n - 1)
      BY <1>6, <1>7, <2>2, <2>4, <3>1 DEF Merge
    <3>2. CASE i \notin size..(size + n - 1)
      <4>1. i \in 0..(diskSize - 1)
        BY <1>1, <2>2, <2>3, <3>2
      <4>2. i \in DOMAIN diskAddress /\ diskAddress[i] \in DOMAIN diskWeight
        BY <2>1, <4>1 DEF DiskIndexComplete, Loadable
      <4> QED BY <1>6, <2>2, <2>4, <3>2, <4>2 DEF Merge
    <3> QED BY <3>1, <3>2
  <2>6. DiskIndexComplete'
    <3>1. Len(saved') <= diskSize'
      BY <1>1, <1>2, <2>1, <2>2
    <3> QED BY <2>5, <3>1 DEF DiskIndexComplete, Loadable
  <2>7. 0..(diskSize' - 1) \subseteq DOMAIN indexToAddress'
    <3>1. diskSize' = size + n
      BY <2>2
    <3>2. ASSUME NEW i \in 0..(diskSize' - 1) PROVE i \in DOMAIN indexToAddress'
      <4>1. CASE i \in size..(size + n - 1)
        BY <1>2, <1>6, <4>1 DEF Merge
      <4>2. CASE i \notin size..(size + n - 1)
        <5>1. i \in 0..(diskSize - 1)
          BY <1>1, <2>3, <3>1, <4>2
        <5> QED BY <1>2, <2>1, <5>1 DEF Merge, OnDisk
      <4> QED BY <4>1, <4>2
    <3> QED BY <3>2
  <2>8. ASSUME NEW i \in DOMAIN indexToAddress'
        PROVE  i \in DOMAIN diskAddress' /\ (diskAddress'[i] = indexToAddress'[i] \/ Parted(i)')
    <3>1. CASE i \in DOMAIN AddressOf(addrs)
      BY <1>2, <2>2, <3>1 DEF Merge
    <3>2. CASE i \notin DOMAIN AddressOf(addrs)
      <4>1. /\ i \in DOMAIN indexToAddress /\ indexToAddress'[i] = indexToAddress[i]
            /\ i \in DOMAIN diskAddress => diskAddress'[i] = diskAddress[i]
                                           /\ i \in DOMAIN diskAddress'
        BY <1>2, <2>2, <3>2 DEF Merge
      <4>2. ASSUME Parted(i) PROVE Parted(i)'
        <5>1. PICK a \in DOMAIN addressIndex : addressIndex[a] = i /\ indexToAddress[i] # a
          BY <4>2 DEF Parted
        <5>2. a \in DOMAIN addressIndex' /\ addressIndex'[a] = addressIndex[a]
          BY <1>2, <1>4, <1>6 DEF Merge
        <5> QED BY <4>1, <5>1, <5>2 DEF Parted
      <4> QED BY <2>1, <4>1, <4>2 DEF OnDisk
    <3> QED BY <3>1, <3>2
  <2>9. ASSUME NEW a \in DOMAIN weights'
        PROVE  a \in DOMAIN diskWeight' /\ diskWeight'[a] = weights'[a]
    <3>1. CASE a \in Range(addrs)
      BY <1>2, <1>6, <2>2, <3>1 DEF Merge
    <3>2. CASE a \notin Range(addrs)
      <4>1. a \in DOMAIN weights /\ weights'[a] = weights[a]
        BY <1>2, <1>6, <3>2 DEF Merge
      <4> QED BY <1>6, <2>1, <2>2, <3>2, <4>1 DEF Merge, OnDisk
    <3> QED BY <3>1, <3>2
  <2>10. Len(leaves') <= diskSize'
    BY <1>1, <1>3, <2>2
  <2> QED BY <2>6, <2>7, <2>8, <2>9, <2>10 DEF OnDisk
<1>10. ASSUME ~HasDB PROVE DiskIndexComplete' /\ saved' = <<>> /\ diskSize' = 0
  <2>1. UNCHANGED mapKeys
    BY <1>2, <1>10, PersistWrites
  <2> QED BY <1>2, <1>10, <2>1 DEF Kept, DiskIndexComplete, Loadable, mapKeys
<1>11. Len(saved') <= Len(leaves')
  <2>1. Len(saved) <= size
    BY <1>2 DEF Kept, size
  <2> QED BY <1>1, <1>2, <1>3, <2>1
<1>12. op' = Idle' /\ op'.call = "none"
  BY <1>2, <1>5 DEF Idle
<1> QED BY <1>2, <1>8, <1>9, <1>10, <1>11, <1>12 DEF Kept

\* Update writes the entry of the address, at the index of its leaf.
LEMMA UpdateKept ==
    ASSUME Plain, TypeOK, Kept, NEW a \in Address, NEW w \in Weight, Update(a, w)
    PROVE  Kept'
<1> DEFINE index == addressIndex[a]
           addressOf == [i \in {index} |-> a]
           weightOf == [b \in {a} |-> w]
<1>1. /\ leaves \in Seq(Leaf) /\ Len(leaves) \in Nat /\ saved \in Seq(Leaf) /\ Len(saved) \in Nat
      /\ diskSize \in Nat /\ a \in DOMAIN addressIndex /\ index \in Nat
  BY DEF TypeOK, Update, Has, IsMap
<1>2. /\ index < Len(leaves) /\ Len(leaves') = Len(leaves) /\ dirty' = TRUE
      /\ weights' = Store(weights, a, w)
      /\ PersistEntries(Len(leaves), addressOf, weightOf)
      /\ UNCHANGED <<addressIndex, indexToAddress, saved, op, proc>> /\ op = Idle /\ Up
  BY <1>1 DEF Update, Unlocked, Up
<1>3. MapsFollow /\ op.call = "none"
  BY <1>2 DEF Kept, Idle
<1> HIDE DEF index
<1>4. MapsFollow'
  <2>1. DOMAIN weights' = DOMAIN weights \union {a}
    BY <1>2 DEF Store, Merge
  <2> QED BY <1>1, <1>2, <1>3, <2>1 DEF MapsFollow
<1>5. ASSUME HasDB PROVE DiskIndexComplete' /\ OnDisk'
  <2>1. OnDisk /\ DiskIndexComplete /\ Len(saved) <= Len(leaves)
    BY <1>2, <1>3, <1>5 DEF Kept
  <2>2. /\ diskSize' = Len(leaves)
        /\ diskAddress' = Merge(addressOf, diskAddress)
        /\ diskWeight' = Merge(weightOf, diskWeight)
    BY <1>2, <1>5, PersistWrites
  <2>3. /\ DOMAIN diskAddress' = DOMAIN diskAddress \union {index}
        /\ \A i \in DOMAIN diskAddress' : diskAddress'[i] = IF i = index THEN a ELSE diskAddress[i]
    BY <2>2 DEF Merge
  <2>4. /\ DOMAIN diskWeight' = DOMAIN diskWeight \union {a}
        /\ \A b \in DOMAIN diskWeight' : diskWeight'[b] = IF b = a THEN w ELSE diskWeight[b]
    BY <2>2 DEF Merge
  <2>5. Len(leaves) <= diskSize
    BY <2>1 DEF OnDisk
  <2>6. ASSUME NEW i \in 0..(diskSize' - 1)
        PROVE  i \in DOMAIN diskAddress' /\ diskAddress'[i] \in DOMAIN diskWeight'
    <3>1. i \in 0..(diskSize - 1)
      BY <1>1, <2>2, <2>5
    <3>2. i \in DOMAIN diskAddress /\ diskAddress[i] \in DOMAIN diskWeight
      BY <2>1, <3>1 DEF DiskIndexComplete, Loadable
    <3> QED BY <2>3, <2>4, <3>2
  <2>7. DiskIndexComplete'
    <3>1. Len(saved') <= diskSize'
      BY <1>2, <2>1, <2>2
    <3> QED BY <2>6, <3>1 DEF DiskIndexComplete, Loadable
  <2>8. 0..(diskSize' - 1) \subseteq DOMAIN indexToAddress'
    <3>1. diskSize' = Len(leaves) /\ indexToAddress' = indexToAddress
      BY <1>2, <2>2
    <3>2. ASSUME NEW i \in 0..(diskSize' - 1) PROVE i \in DOMAIN indexToAddress'
      <4>1. i \in 0..(diskSize - 1)
        BY <1>1, <2>5, <3>1
      <4> QED BY <2>1, <3>1, <4>1 DEF OnDisk
    <3> QED BY <3>2
  <2>9. ASSUME NEW i \in DOMAIN indexToAddress
        PROVE  i \in DOMAIN diskAddress' /\ (diskAddress'[i] = indexToAddress[i] \/ Parted(i))
    <3>1. CASE i = index
      BY <1>1, <2>3, <3>1 DEF Parted, index
    <3>2. CASE i # index
      BY <2>1, <2>3, <3>2 DEF OnDisk
    <3> QED BY <3>1, <3>2
  <2>10. \A i : Parted(i)' <=> Parted(i)
    BY <1>2 DEF Parted
  <2>11. ASSUME NEW b \in DOMAIN weights'
         PROVE  b \in DOMAIN diskWeight' /\ diskWeight'[b] = weights'[b]
    BY <1>2, <2>1, <2>4 DEF Store, Merge, OnDisk
  <2>12. Len(leaves') <= diskSize'
    BY <1>1, <1>2, <2>2
  <2> QED BY <1>2, <2>7, <2>8, <2>9, <2>10, <2>11, <2>12 DEF OnDisk
<1>6. ASSUME ~HasDB PROVE DiskIndexComplete' /\ saved' = <<>> /\ diskSize' = 0
  <2>1. UNCHANGED mapKeys
    BY <1>2, <1>6, PersistWrites
  <2> QED BY <1>2, <1>6, <2>1 DEF Kept, DiskIndexComplete, Loadable, mapKeys
<1>7. Len(saved') <= Len(leaves')
  BY <1>2 DEF Kept
<1>8. op' = Idle' /\ op'.call = "none"
  BY <1>2, <1>3 DEF Idle
<1> QED BY <1>2, <1>4, <1>5, <1>6, <1>7, <1>8 DEF Kept

\* An import starts with an empty disk and empty maps.
LEMMA BeginImportKept ==
    ASSUME Plain, TypeOK, Kept, BeginImport
    PROVE  Kept'
<1>1. /\ leaves' = <<>> /\ saved' = <<>> /\ diskSize' = 0 /\ dirty' = FALSE
      /\ addressIndex' = NoEntry /\ indexToAddress' = NoEntry /\ weights' = NoEntry
  BY DEF BeginImport, ResetPersistentState, ClearMaps, Kept, mapKeys
<1>2. op'.call = "import" /\ Up'
  BY DEF BeginImport, Unlocked, Up, Idle
<1>3. DiskIndexComplete'
  BY <1>1 DEF DiskIndexComplete, Loadable
<1>4. MapsFollow' /\ Importing'
  BY <1>1 DEF MapsFollow, Importing, NoEntry
<1> QED BY <1>1, <1>2, <1>3, <1>4 DEF Kept

\* A participant of an import is a leaf, and an entry of each map, more.
LEMMA ParticipantKept ==
    ASSUME Plain, TypeOK, Kept, NEW index \in Nat, NEW a \in Address, NEW w \in Weight,
           ImportParticipant(index, a, w)
    PROVE  Kept'
<1>1. leaves \in Seq(Leaf) /\ Len(leaves) \in Nat
  BY DEF TypeOK
<1>2. index = Len(leaves) /\ ~IsEmptyParticipant(a, w) /\ a \notin DOMAIN addressIndex
  <2>1. Len(leaves) <= index /\ index <= Len(leaves)
    BY DEF ImportParticipant, Plain
  <2>2. index = Len(leaves)
    BY <1>1, <2>1
  <2>3. ~IsEmptyParticipant(a, w) /\ ~Has(a)
    BY DEF ImportParticipant, Plain
  <2> QED BY <2>2, <2>3 DEF Has
<1>3. /\ addressIndex' = Store(addressIndex, a, index)
      /\ indexToAddress' = Store(indexToAddress, index, a)
      /\ weights' = Store(weights, a, w)
  BY <1>2 DEF ImportParticipant, SetEntry
<1>4. op.call = "import" /\ dirty' = TRUE /\ UNCHANGED <<saved, mapKeys, proc>>
  BY DEF ImportParticipant
<1>5. Importing /\ Up /\ MapsFollow /\ DiskIndexComplete
  <2>1. op # Idle
    BY <1>4 DEF Idle
  <2> QED BY <1>4, <2>1 DEF Kept
<1>6. Len(leaves') = index + 1
  BY <1>1, <1>2, ParticipantAdds
<1>7. /\ DOMAIN addressIndex' = DOMAIN addressIndex \union {a}
      /\ \A b \in DOMAIN addressIndex' :
            addressIndex'[b] = IF b = a THEN index ELSE addressIndex[b]
      /\ DOMAIN indexToAddress' = DOMAIN indexToAddress \union {index}
      /\ \A i \in DOMAIN indexToAddress' :
            indexToAddress'[i] = IF i = index THEN a ELSE indexToAddress[i]
      /\ DOMAIN weights' = DOMAIN weights \union {a}
  BY <1>3 DEF Store, Merge
<1>8. MapsFollow'
  <2>1. DOMAIN weights' = DOMAIN addressIndex'
    BY <1>5, <1>7 DEF MapsFollow
  <2>2. ASSUME NEW i \in DOMAIN indexToAddress'
        PROVE  /\ indexToAddress'[i] \in DOMAIN addressIndex'
               /\ i <= addressIndex'[indexToAddress'[i]]
    <3>1. CASE i = index
      BY <1>7, <3>1
    <3>2. CASE i # index
      BY <1>2, <1>5, <1>7, <3>2 DEF MapsFollow
    <3> QED BY <3>1, <3>2
  <2> QED BY <2>1, <2>2 DEF MapsFollow
<1>9. Importing'
  <2>1. DOMAIN indexToAddress' = 0..(Len(leaves') - 1)
    BY <1>1, <1>2, <1>5, <1>6, <1>7 DEF Importing
  <2>2. ASSUME NEW i \in DOMAIN indexToAddress' PROVE addressIndex'[indexToAddress'[i]] = i
    <3>1. CASE i = index
      BY <1>7, <3>1
    <3>2. CASE i # index
      <4>1. i \in DOMAIN indexToAddress /\ indexToAddress[i] \in DOMAIN addressIndex
        BY <1>5, <1>7, <3>2 DEF MapsFollow
      <4> QED BY <1>2, <1>5, <1>7, <3>2, <4>1 DEF Importing
    <3> QED BY <3>1, <3>2
  <2>3. ASSUME NEW b \in DOMAIN addressIndex'
        PROVE  /\ addressIndex'[b] \in DOMAIN indexToAddress'
               /\ indexToAddress'[addressIndex'[b]] = b
    <3>1. CASE b = a
      BY <1>7, <3>1
    <3>2. CASE b # a
      <4>1. /\ b \in DOMAIN addressIndex /\ addressIndex[b] \in DOMAIN indexToAddress
            /\ indexToAddress[addressIndex[b]] = b /\ addressIndex'[b] = addressIndex[b]
        BY <1>5, <1>7, <3>2 DEF Importing
      <4>2. addressIndex[b] # index
        BY <1>1, <1>2, <1>5, <4>1 DEF Importing
      <4> QED BY <1>7, <4>1, <4>2
    <3> QED BY <3>1, <3>2
  <2> QED BY <1>4, <1>5, <2>1, <2>2, <2>3 DEF Importing, mapKeys
<1>10. DiskIndexComplete'
  BY <1>4, <1>5 DEF DiskIndexComplete, Loadable, mapKeys
<1>11. Len(saved') <= Len(leaves')
  BY <1>4, <1>5, <1>6 DEF Importing
<1>12. op'.call = "import" /\ Up' /\ (~HasDB => saved' = <<>> /\ diskSize' = 0)
  <2>1. op'.call = "import"
    BY <1>4 DEF ImportParticipant, TypeOK
  <2> QED BY <1>4, <1>5, <2>1 DEF Importing, Up, mapKeys
<1> QED BY <1>4, <1>8, <1>9, <1>10, <1>11, <1>12 DEF Kept

\* The end of an import writes all it has read, and an import is given up for want of it.
LEMMA EndImportKept ==
    ASSUME Plain, TypeOK, ImportIndexed, Kept, EndImport \/ RejectImport
    PROVE  Kept'
<1>1. leaves \in Seq(Leaf) /\ Len(leaves) \in Nat
  BY DEF TypeOK
<1>2. /\ op.call = "import" /\ op' = Idle
      /\ UNCHANGED <<leaves, dirty, maps, saved, proc>>
  BY DEF EndImport, RejectImport
<1>3. Importing /\ Up /\ MapsFollow
  <2>1. op # Idle
    BY <1>2 DEF Idle
  <2> QED BY <1>2, <2>1 DEF Kept
<1>4. /\ op'.call = "none" /\ op' = Idle'
      /\ UNCHANGED <<leaves, dirty, addressIndex, indexToAddress, weights, saved, proc>>
  BY <1>2 DEF Idle, maps
<1>5. MapsFollow' /\ Up'
  BY <1>3, <1>4 DEF MapsFollow, Up
<1>6. Len(saved') <= Len(leaves') /\ (~dirty' => saved' = leaves')
  BY <1>3, <1>4 DEF Kept
<1>7. CASE EndImport /\ HasDB
  <2> DEFINE addressOf == ImportedAddress
  <2>1. /\ diskSize' = Len(leaves)
        /\ diskAddress' = Merge(addressOf, diskAddress)
        /\ diskWeight' = Merge(weights, diskWeight)
    BY <1>7, PersistWrites DEF EndImport
  <2>2. ASSUME NEW i \in DOMAIN indexToAddress
        PROVE  i \in DOMAIN addressOf /\ addressOf[i] = indexToAddress[i]
    <3>1. addressIndex[indexToAddress[i]] = i /\ indexToAddress[i] \in DOMAIN addressIndex
      BY <1>3 DEF Importing, MapsFollow
    <3>2. i \in Range(addressIndex)
      BY <3>1 DEF Range
    <3>3. ImportedAddress[i] \in DOMAIN addressIndex /\ addressIndex[ImportedAddress[i]] = i
      BY <1>2, <3>2, ImportedAddressHasIndex
    <3>4. ImportedAddress[i] = indexToAddress[i]
      BY <1>3, <3>3 DEF Importing
    <3> QED BY <3>2, <3>4 DEF ImportedAddress
  <2> HIDE DEF addressOf
  <2>3. ASSUME NEW i \in DOMAIN indexToAddress
        PROVE  i \in DOMAIN diskAddress' /\ diskAddress'[i] = indexToAddress[i]
    BY <2>1, <2>2 DEF Merge
  <2>4. ASSUME NEW a \in DOMAIN weights
        PROVE  a \in DOMAIN diskWeight' /\ diskWeight'[a] = weights[a]
    BY <2>1 DEF Merge
  <2>5. DOMAIN indexToAddress = 0..(diskSize' - 1)
    BY <1>3, <2>1 DEF Importing
  <2>6. OnDisk'
    BY <1>1, <1>4, <2>1, <2>3, <2>4, <2>5 DEF OnDisk
  <2>7. DiskIndexComplete'
    <3>1. ASSUME NEW i \in 0..(diskSize' - 1)
          PROVE  i \in DOMAIN diskAddress' /\ diskAddress'[i] \in DOMAIN diskWeight'
      BY <1>3, <2>3, <2>4, <2>5, <3>1 DEF MapsFollow
    <3> QED BY <1>6, <1>4, <2>1, <3>1 DEF DiskIndexComplete, Loadable
  <2> QED BY <1>4, <1>5, <1>6, <1>7, <2>6, <2>7 DEF Kept
<1>8. CASE RejectImport \/ ~HasDB
  <2>1. UNCHANGED mapKeys
    BY <1>2, <1>8, PersistWrites DEF EndImport, RejectImport
  <2>2. DiskIndexComplete'
    BY <1>4, <2>1 DEF Kept, DiskIndexComplete, Loadable, mapKeys
  <2>3. ASSUME HasDB PROVE OnDisk'
    <3>1. leaves = <<>>
      BY <1>8, <2>3 DEF RejectImport, Plain
    <3>2. DOMAIN indexToAddress = {} /\ diskSize = 0 /\ Len(leaves) = 0
      BY <1>3, <3>1 DEF Importing
    <3>3. DOMAIN weights = {}
      BY <1>3, <3>2 DEF Importing, MapsFollow
    <3> QED BY <1>4, <2>1, <3>2, <3>3 DEF OnDisk, mapKeys
  <2>4. ~HasDB => saved' = <<>> /\ diskSize' = 0
    BY <1>4, <2>1 DEF Kept, mapKeys
  <2> QED BY <1>4, <1>5, <1>6, <2>2, <2>3, <2>4 DEF Kept
<1> QED BY <1>7, <1>8

\* Sync saves the leaves, of which the keys hold as many.
LEMMA SyncKept ==
    ASSUME Plain, TypeOK, Kept, Sync
    PROVE  Kept'
<1>1. leaves \in Seq(Leaf) /\ Len(leaves) \in Nat /\ diskSize \in Nat
  BY DEF TypeOK
<1>2. /\ op = Idle /\ Up /\ op.call = "none"
      /\ UNCHANGED <<leaves, addressIndex, indexToAddress, weights>>
      /\ UNCHANGED <<diskSize, diskAddress, diskWeight, op, proc>>
  BY DEF Sync, Unlocked, Up, Idle, maps, mapKeys
<1>3. (HasDB /\ saved' = leaves /\ dirty' = FALSE) \/ UNCHANGED <<saved, dirty>>
  BY DEF Sync, TreeSync
<1>4. MapsFollow' /\ Up'
  BY <1>2 DEF Kept, MapsFollow, Up
<1>5. HasDB => OnDisk /\ OnDisk'
  BY <1>2 DEF Kept, OnDisk, Parted
<1>6. Len(saved') <= Len(leaves') /\ (~dirty' => saved' = leaves')
  BY <1>1, <1>2, <1>3 DEF Kept
<1>7. DiskIndexComplete'
  <2>1. Len(saved') <= diskSize
    <3>1. CASE HasDB /\ saved' = leaves
      BY <1>5, <3>1 DEF OnDisk
    <3>2. CASE saved' = saved
      BY <3>2 DEF Kept, DiskIndexComplete
    <3> QED BY <1>3, <3>1, <3>2
  <2> QED BY <1>2, <2>1 DEF Kept, DiskIndexComplete, Loadable
<1>8. ~HasDB => saved' = <<>> /\ diskSize' = 0
  BY <1>2, <1>3 DEF Kept
<1>9. op' = Idle' /\ op'.call = "none"
  BY <1>2 DEF Idle
<1> QED BY <1>4, <1>5, <1>6, <1>7, <1>8, <1>9 DEF Kept

\* A process that ends leaves a disk that can be loaded.
LEMMA GoneKept ==
    ASSUME Plain, TypeOK, Kept, Close \/ Crash
    PROVE  Kept'
<1>1. proc' = "down" /\ op' = Idle /\ op'.call = "none" /\ op' = Idle'
  BY DEF Close, Crash, Gone, Idle
<1>2. UNCHANGED <<diskSize, diskAddress, diskWeight>>
  BY DEF Close, Crash, mapKeys
<1>3. saved' = saved \/ (HasDB /\ saved' = leaves /\ Len(leaves) <= diskSize)
  <2>1. CASE Crash
    BY <2>1 DEF Crash
  <2>2. CASE Close
    <3>1. Up /\ op.call = "none"
      BY <2>2 DEF Close, Unlocked, Up, Idle
    <3>2. HasDB => Len(leaves) <= diskSize
      BY <3>1 DEF Kept, OnDisk
    <3> QED BY <2>2, <3>2 DEF Close
  <2> QED BY <2>1, <2>2
<1>4. Len(saved') <= diskSize
  BY <1>3 DEF Kept, DiskIndexComplete
<1>5. DiskIndexComplete'
  BY <1>2, <1>4 DEF Kept, DiskIndexComplete, Loadable
<1>6. ~HasDB => saved' = <<>> /\ diskSize' = 0
  BY <1>2, <1>3 DEF Kept
<1>7. ~Up'
  BY <1>1 DEF Up
<1> QED BY <1>1, <1>5, <1>6, <1>7 DEF Kept

\* A census that is opened holds what the disk says.
LEMMA OpenKept ==
    ASSUME Plain, TypeOK, Kept, NewCensusIMT
    PROVE  Kept'
<1>1. diskSize \in Nat /\ KeysTyped
  BY DEF TypeOK, KeysTyped
<1>2. /\ leaves' = saved /\ dirty' = FALSE /\ Loadable
      /\ addressIndex' = LoadedIndex /\ indexToAddress' = LoadedAddress
      /\ weights' = LoadedWeight
      /\ UNCHANGED <<saved, diskSize, diskAddress, diskWeight, op>> /\ Up'
  BY DEF NewCensusIMT, mapKeys, Up
<1>3. op = Idle /\ op' = Idle' /\ op'.call = "none"
  BY <1>2 DEF NewCensusIMT, Kept, Up, Idle
<1>4. DOMAIN LoadedAddress = 0..(diskSize - 1)
      /\ \A i \in 0..(diskSize - 1) : LoadedAddress[i] = diskAddress[i]
  BY DEF LoadedAddress
<1>5. DOMAIN LoadedIndex = Range(LoadedAddress) /\ DOMAIN LoadedWeight = Range(LoadedAddress)
      /\ \A a \in Range(LoadedAddress) : LoadedWeight[a] = diskWeight[a]
  BY DEF LoadedIndex, LoadedWeight
<1>6. ASSUME NEW i \in 0..(diskSize - 1)
      PROVE  /\ diskAddress[i] \in Range(LoadedAddress) /\ i <= LoadedIndex[diskAddress[i]]
             /\ i \in DOMAIN diskAddress /\ diskAddress[i] \in DOMAIN diskWeight
  <2>1. diskAddress[i] \in Range(LoadedAddress)
    BY <1>4 DEF Range
  <2>2. i \in DOMAIN diskAddress /\ diskAddress[i] \in DOMAIN diskWeight
    BY <1>2 DEF Loadable
  <2> QED BY <1>1, <2>1, <2>2, LoadedIndexAt
<1>7. MapsFollow'
  BY <1>2, <1>4, <1>5, <1>6 DEF MapsFollow
<1>8. OnDisk'
  <2>1. Len(leaves') <= diskSize
    BY <1>2 DEF Kept, DiskIndexComplete
  <2>2. ASSUME NEW a \in Range(LoadedAddress)
        PROVE  a \in DOMAIN diskWeight
    BY <1>4, <1>6 DEF Range
  <2>3. 0..(diskSize' - 1) \subseteq DOMAIN indexToAddress'
    BY <1>2, <1>4
  <2>4. \A i \in DOMAIN indexToAddress' :
           i \in DOMAIN diskAddress' /\ diskAddress'[i] = indexToAddress'[i]
    BY <1>2, <1>4, <1>6
  <2>5. \A a \in DOMAIN weights' : a \in DOMAIN diskWeight' /\ diskWeight'[a] = weights'[a]
    BY <1>2, <1>5, <2>2
  <2> QED BY <1>2, <2>1, <2>3, <2>4, <2>5 DEF OnDisk
<1>9. DiskIndexComplete' /\ (~HasDB => saved' = <<>> /\ diskSize' = 0)
  BY <1>2 DEF Kept, DiskIndexComplete, Loadable
<1>10. Len(saved') <= Len(leaves') /\ saved' = leaves'
  <2>1. Len(saved) \in Nat
    BY DEF TypeOK
  <2> QED BY <1>2, <2>1
<1> QED BY <1>3, <1>7, <1>8, <1>9, <1>10 DEF Kept

\* Kept is inductive.
LEMMA KeptPreserved ==
    ASSUME Plain, TypeOK, ImportIndexed, Kept, [Next]_vars
    PROVE  Kept'
<1>1. ASSUME NEW a \in Address, NEW w \in Weight, Add(a, w) PROVE Kept'
  <2>1. <<a>> \in [1..1 -> Address] /\ <<w>> \in [1..1 -> Weight] /\ 1 \in Nat
    OBVIOUS
  <2> QED BY <1>1, <2>1, AddKept DEF Add
<1>2. ASSUME NEW a \in Address, NEW w \in Weight, Update(a, w) PROVE Kept'
  BY <1>2, UpdateKept
<1>3. ASSUME NEW b \in Batches, AddBulk(b[1], b[2]) PROVE Kept'
  BY <1>3, BatchTyped, AddKept DEF AddBulk
<1>4. ASSUME NEW e \in Event,
             InsertEvent(e) \/ UpdateEvent(e) \/ DeleteEvent(e) \/ NoOpEvent(e) \/ FailEvent(e)
      PROVE  FALSE
  BY <1>4 DEF InsertEvent, UpdateEvent, DeleteEvent, NoOpEvent, FailEvent, Handling, Kept
<1>5. ASSUME BeginApplyEvents \/ BeginImportEvents \/ EndEvents \/ RejectEvents PROVE FALSE
  BY <1>5 DEF BeginApplyEvents, BeginImportEvents, EndEvents, RejectEvents, Plain, Kept
<1>6. ASSUME NEW i \in 0..(MaxSize - 1), NEW a \in Address, NEW w \in Weight,
             ImportParticipant(i, a, w)
      PROVE  Kept'
  BY <1>6, ParticipantKept
<1>7. CASE UNCHANGED vars
  BY <1>7 DEF vars, maps, mapKeys, Kept, DiskIndexComplete, Loadable, MapsFollow, Importing,
              OnDisk, Parted, Up, Idle
<1> QED
  BY <1>1, <1>2, <1>3, <1>4, <1>5, <1>6, <1>7, BeginImportKept, EndImportKept, SyncKept,
     GoneKept, OpenKept
  DEF Next

\* A census that was just made is empty, and so is its disk.
LEMMA KeptInit == Init => Kept
BY DEF Init, Kept, DiskIndexComplete, Loadable, MapsFollow, Importing, OnDisk, Parted, Up,
       Idle, NoEntry

\* With additions, updates and imports only, whenever the process ends the census can be
\* opened again: every index on disk has an address and a weight, every saved leaf an index.
THEOREM TheDiskIsComplete == Plain => (Spec => []DiskIndexComplete)
<1> SUFFICES ASSUME Plain PROVE Spec => []DiskIndexComplete
  OBVIOUS
<1>1. Init => TypeOK /\ ImportIndexed /\ Kept
  BY TypeInit, KeptInit
<1>2. TypeOK /\ ImportIndexed /\ Kept /\ [Next]_vars => (TypeOK /\ ImportIndexed /\ Kept)'
  BY TypePreserved, ImportIndexedPreserved, KeptPreserved
<1>3. Kept => DiskIndexComplete
  BY DEF Kept
<1> QED BY <1>1, <1>2, <1>3, PTL DEF Spec

\* Where Kept holds, maps that match the leaves are the ones the disk gives back.
LEMMA KeptRestores ==
    ASSUME TypeOK, Kept
    PROVE  ReopenRestores
<1> SUFFICES ASSUME Up, op = Idle, ~dirty, ProofsMatch, IndexesMatch
             PROVE  /\ Loadable
                    /\ saved = leaves
                    /\ LoadedIndex = addressIndex
                    /\ LoadedAddress = indexToAddress
                    /\ LoadedWeight = weights
  BY DEF ReopenRestores
<1>1. /\ leaves \in Seq(Leaf) /\ Len(leaves) \in Nat /\ diskSize \in Nat /\ KeysTyped
      /\ IsMap(addressIndex, Address, Nat) /\ IsMap(indexToAddress, Nat, Address)
      /\ IsMap(weights, Address, Weight)
  BY DEF TypeOK, KeysTyped
<1>2. Loadable /\ saved = leaves /\ MapsFollow
  BY DEF Kept, DiskIndexComplete
<1>3. Len(leaves) <= diskSize
  BY <1>2 DEF Kept, DiskIndexComplete
<1>4. DOMAIN indexToAddress \subseteq 0..(diskSize - 1)
  <2> SUFFICES ASSUME NEW i \in DOMAIN indexToAddress PROVE i \in 0..(diskSize - 1)
    OBVIOUS
  <2>1. i \in Nat /\ i < Len(leaves)
    BY <1>1 DEF IsMap, IndexesMatch
  <2> QED BY <1>1, <1>3, <2>1
<1>5. HasDB => OnDisk
  BY DEF Kept, Idle
<1>6. DOMAIN indexToAddress = 0..(diskSize - 1)
  <2>1. CASE HasDB
    BY <1>4, <1>5, <2>1 DEF OnDisk
  <2>2. CASE ~HasDB
    BY <1>4, <2>2 DEF Kept
  <2> QED BY <2>1, <2>2
<1>7. ASSUME NEW a \in DOMAIN addressIndex
      PROVE  addressIndex[a] \in 0..(diskSize - 1) /\ LeafAt(addressIndex[a]) = PackAddressWeight(a, weights[a])
             /\ a \in Address /\ weights[a] \in Weight
  <2>1. addressIndex[a] \in Nat /\ addressIndex[a] < Len(leaves) /\ a \in DOMAIN weights
        /\ LeafAt(addressIndex[a]) = PackAddressWeight(a, weights[a])
    BY <1>1 DEF IsMap, ProofsMatch
  <2>2. a \in Address /\ weights[a] \in Weight
    BY <1>1, <2>1 DEF IsMap
  <2> QED BY <1>1, <1>3, <2>1, <2>2
<1>8. ASSUME NEW a \in DOMAIN addressIndex PROVE indexToAddress[addressIndex[a]] = a
  <2>1. UnpackAddress(LeafAt(addressIndex[a])) = indexToAddress[addressIndex[a]]
    BY <1>6, <1>7 DEF IndexesMatch
  <2> QED BY <1>7, <2>1, UnpackPacked
<1>9. \A i \in DOMAIN indexToAddress : ~Parted(i)
  BY <1>8 DEF Parted
<1>10. ASSUME NEW i \in 0..(diskSize - 1) PROVE diskAddress[i] = indexToAddress[i]
  <2>1. HasDB
    <3>1. diskSize # 0
      BY <1>1
    <3> QED BY <3>1 DEF Kept
  <2> QED BY <1>5, <1>6, <1>9, <2>1 DEF OnDisk
<1>11. LoadedAddress = indexToAddress
  BY <1>1, <1>6, <1>10 DEF LoadedAddress, IsMap
<1>12. Range(LoadedAddress) = DOMAIN addressIndex
  <2>1. ASSUME NEW a \in DOMAIN addressIndex PROVE a \in Range(LoadedAddress)
    BY <1>6, <1>7, <1>8, <1>11 DEF Range
  <2>2. ASSUME NEW a \in Range(LoadedAddress) PROVE a \in DOMAIN addressIndex
    BY <1>2, <1>11 DEF Range, MapsFollow
  <2> QED BY <2>1, <2>2
<1>13. ASSUME NEW a \in DOMAIN addressIndex PROVE LoadedIndex[a] = addressIndex[a]
  <2> DEFINE l == LoadedIndex[a]
  <2>1. /\ l \in 0..(diskSize - 1) /\ diskAddress[l] = a
        /\ \A j \in 0..(diskSize - 1) : diskAddress[j] = a => j <= l
    BY <1>1, <1>12, LoadedIndexAt
  <2> HIDE DEF l
  <2>2. addressIndex[a] <= l
    BY <1>7, <1>8, <1>10, <2>1
  <2>3. l <= addressIndex[a]
    BY <1>2, <1>6, <1>10, <2>1 DEF MapsFollow
  <2> QED BY <1>1, <1>7, <2>1, <2>2, <2>3 DEF l
<1>14. LoadedIndex = addressIndex
  <2>1. LoadedIndex = [a \in DOMAIN addressIndex |-> LoadedIndex[a]]
    BY <1>12 DEF LoadedIndex
  <2> QED BY <1>1, <1>13, <2>1 DEF IsMap
<1>15. LoadedWeight = weights
  <2>1. ASSUME NEW a \in DOMAIN addressIndex PROVE diskWeight[a] = weights[a]
    <3>1. HasDB
      <4>1. addressIndex[a] \in 0..(diskSize - 1)
        BY <1>7
      <4>2. diskSize # 0
        BY <1>1, <4>1
      <4> QED BY <4>2 DEF Kept
    <3> QED BY <1>2, <1>5, <3>1 DEF OnDisk, MapsFollow
  <2>2. DOMAIN weights = DOMAIN addressIndex
    BY <1>2 DEF MapsFollow
  <2> QED BY <1>1, <1>12, <2>1, <2>2 DEF LoadedWeight, IsMap
<1> QED BY <1>2, <1>11, <1>14, <1>15

\* With additions, updates and imports only, a census that has synced comes back with every
\* address, index and weight, unless a crash before had parted its maps from its leaves.
THEOREM ASyncedCensusComesBack == Plain => (Spec => []ReopenRestores)
<1> SUFFICES ASSUME Plain PROVE Spec => []ReopenRestores
  OBVIOUS
<1>1. Init => TypeOK /\ ImportIndexed /\ Kept
  BY TypeInit, KeptInit
<1>2. TypeOK /\ ImportIndexed /\ Kept /\ [Next]_vars => (TypeOK /\ ImportIndexed /\ Kept)'
  BY TypePreserved, ImportIndexedPreserved, KeptPreserved
<1>3. TypeOK /\ Kept => ReopenRestores
  BY KeptRestores
<1> QED BY <1>1, <1>2, <1>3, PTL DEF Spec

-----------------------------------------------------------------------------
(* LeavesKeepOwners, for the same calls *)

\* A census whose leaves belong to their addresses has one address for each index.
LEMMA OwnedIsAligned ==
    ASSUME TypeOK, Up, ProofsMatch, IndexesMatch
    PROVE  /\ \A i \in DOMAIN indexToAddress : ~Parted(i)
           /\ \A a \in DOMAIN addressIndex :
                 addressIndex[a] \in DOMAIN indexToAddress => indexToAddress[addressIndex[a]] = a
<1>1. ASSUME NEW a \in DOMAIN addressIndex, addressIndex[a] \in DOMAIN indexToAddress
      PROVE  indexToAddress[addressIndex[a]] = a
  <2>1. /\ a \in DOMAIN weights
        /\ LeafAt(addressIndex[a]) = PackAddressWeight(a, weights[a])
    BY DEF ProofsMatch
  <2>2. a \in Address /\ weights[a] \in Weight
    BY <2>1 DEF TypeOK, IsMap
  <2>3. UnpackAddress(LeafAt(addressIndex[a])) = indexToAddress[addressIndex[a]]
    BY <1>1 DEF IndexesMatch
  <2> QED BY <2>1, <2>2, <2>3, UnpackPacked
<1> QED BY <1>1 DEF Parted

\* While it runs, such a census knows on disk whose each of its leaves is.
LEMMA OwnedOnDisk ==
    ASSUME TypeOK, Kept, Up, ProofsMatch, IndexesMatch, HasDB, op.call = "none",
           NEW i \in 0..(Len(leaves) - 1)
    PROVE  /\ i < diskSize /\ i \in DOMAIN indexToAddress
           /\ diskAddress[i] = indexToAddress[i]
           /\ diskAddress[i] = UnpackAddress(leaves[i + 1])
<1>1. Len(leaves) \in Nat /\ diskSize \in Nat
  BY DEF TypeOK
<1>2. OnDisk
  BY DEF Kept
<1>3. i \in 0..(diskSize - 1)
  <2>1. Len(leaves) <= diskSize
    BY <1>2 DEF OnDisk
  <2> QED BY <1>1, <2>1
<1>4. i \in DOMAIN indexToAddress /\ i < diskSize
  <2>1. i < diskSize
    BY <1>1, <1>3
  <2> QED BY <1>2, <1>3, <2>1 DEF OnDisk
<1>5. diskAddress[i] = indexToAddress[i]
  BY <1>2, <1>4, OwnedIsAligned DEF OnDisk
<1>6. indexToAddress[i] = UnpackAddress(leaves[i + 1])
  BY <1>4 DEF IndexesMatch, LeafAt
<1> QED BY <1>4, <1>5, <1>6

\* Add and AddBulk take new indexes, and leave what is on disk of the others alone.
LEMMA AddKeepsOwners ==
    ASSUME Plain, TypeOK, Kept, Up, LeavesOwned, NEW n \in Nat,
           NEW addrs \in [1..n -> Address], NEW ws \in [1..n -> Weight], AddEntries(addrs, ws)
    PROVE  LeavesOwned'
<1> DEFINE size == Len(leaves)
           new == [i \in 1..n |-> PackAddressWeight(addrs[i], ws[i])]
<1>1. /\ leaves \in Seq(Leaf) /\ size \in Nat /\ Len(saved) \in Nat /\ diskSize \in Nat
      /\ Len(addrs) = n /\ DOMAIN addrs = 1..n
  BY DEF TypeOK
<1>2. /\ leaves' = leaves \o new
      /\ indexToAddress' = Merge(AddressOf(addrs), indexToAddress)
      /\ PersistEntries(size + n, AddressOf(addrs), WeightOf(addrs, ws))
      /\ saved' = saved
  BY <1>1, AddEntriesDoes
<1>3. new \in Seq(Leaf) /\ Len(new) = n
  BY PackIsLeaf
<1>4. /\ Len(leaves') = size + n
      /\ \A i \in 1..size : leaves'[i] = leaves[i]
      /\ \A i \in 1..n : leaves'[size + i] = PackAddressWeight(addrs[i], ws[i])
  BY <1>1, <1>2, <1>3, ConcatProperties
<1>5. /\ DOMAIN AddressOf(addrs) = size..(size + n - 1)
      /\ \A i \in size..(size + n - 1) : AddressOf(addrs)[i] = addrs[i - size + 1]
  BY <1>1 DEF AddressOf
<1> HIDE DEF new, size
<1>6. ProofsMatch'
  BY AddMatches DEF LeavesOwned
<1>7. IndexesMatch'
  <2> SUFFICES ASSUME NEW i \in DOMAIN indexToAddress'
               PROVE  i < Len(leaves') /\ UnpackAddress(leaves'[i + 1]) = indexToAddress'[i]
    BY DEF IndexesMatch, LeafAt
  <2>1. CASE i \in size..(size + n - 1)
    <3>0. size \in Nat
      BY <1>1
    <3>1. i - size + 1 \in 1..n /\ size + (i - size + 1) = i + 1 /\ i < size + n
      <4>1. i \in Int /\ size <= i /\ i <= size + n - 1
        BY <2>1, <3>0
      <4>2. i - size + 1 \in 1..n
        BY <3>0, <4>1
      <4>3. size + (i - size + 1) = i + 1
        BY <3>0, <4>1
      <4>4. i < size + n
        BY <3>0, <4>1
      <4> QED BY <4>2, <4>3, <4>4
    <3>2. indexToAddress'[i] = addrs[i - size + 1]
      BY <1>2, <1>5, <2>1 DEF Merge
    <3>3. leaves'[i + 1] = PackAddressWeight(addrs[i - size + 1], ws[i - size + 1])
      BY <1>4, <3>1
    <3>4. addrs[i - size + 1] \in Address /\ ws[i - size + 1] \in Weight
      BY <3>1
    <3> QED BY <1>4, <3>1, <3>2, <3>3, <3>4, UnpackPacked
  <2>2. CASE i \notin size..(size + n - 1)
    <3>1. i \in DOMAIN indexToAddress /\ indexToAddress'[i] = indexToAddress[i]
      BY <1>2, <1>5, <2>2 DEF Merge
    <3>2. i < size /\ UnpackAddress(leaves[i + 1]) = indexToAddress[i] /\ i \in Nat
      BY <3>1 DEF LeavesOwned, IndexesMatch, LeafAt, TypeOK, IsMap, size
    <3>3. i + 1 \in 1..size /\ i < size + n
      BY <1>1, <3>2
    <3> QED BY <1>4, <3>1, <3>2, <3>3
  <2> QED BY <2>1, <2>2
<1>8. SavedLeavesOwned'
  <2> SUFFICES ASSUME NEW i \in 0..(Len(saved) - 1)
               PROVE  i < diskSize' /\ diskAddress'[i] = UnpackAddress(saved[i + 1])
    BY <1>2 DEF SavedLeavesOwned
  <2>1. Len(saved) <= size
    BY DEF Kept, size
  <2>2. HasDB
    BY <1>1 DEF Kept
  <2>3. diskSize' = size + n /\ diskAddress' = Merge(AddressOf(addrs), diskAddress)
    BY <1>2, <2>2, PersistWrites
  <2>4. i < size + n /\ i \notin size..(size + n - 1)
    BY <1>1, <2>1
  <2>5. diskAddress[i] = UnpackAddress(saved[i + 1])
    BY DEF LeavesOwned, SavedLeavesOwned
  <2>6. i \in DOMAIN diskAddress
    <3>1. i < diskSize
      BY DEF LeavesOwned, SavedLeavesOwned
    <3> QED BY <1>1, <3>1 DEF Kept, DiskIndexComplete, Loadable
  <2> QED BY <1>5, <2>3, <2>4, <2>5, <2>6 DEF Merge
<1> QED BY <1>6, <1>7, <1>8 DEF LeavesOwned

\* Update gives a leaf another weight and writes the address that the disk has for it.
LEMMA UpdateKeepsOwners ==
    ASSUME Plain, TypeOK, Kept, Up, LeavesOwned, NEW a \in Address, NEW w \in Weight,
           Update(a, w)
    PROVE  LeavesOwned'
<1> DEFINE at == addressIndex[a]
<1>1. leaves \in Seq(Leaf) /\ Len(leaves) \in Nat /\ Len(saved) \in Nat
  BY DEF TypeOK
<1>2. /\ op = Idle /\ op.call = "none"
      /\ leaves' = [leaves EXCEPT ![at + 1] = PackAddressWeight(a, w)]
      /\ PersistEntries(Len(leaves), [i \in {at} |-> a], [b \in {a} |-> w])
      /\ UNCHANGED <<indexToAddress, saved>>
  BY DEF Update, Unlocked, Idle
<1>3. a \in DOMAIN addressIndex /\ at \in 0..(Len(leaves) - 1)
  BY <1>1 DEF Update, Has, TypeOK, IsMap
<1>4. ProofsMatch /\ IndexesMatch /\ SavedLeavesOwned
  BY DEF LeavesOwned
<1> HIDE DEF at
<1>5. ProofsMatch'
  BY <1>4, UpdateMatches
<1>6. IndexesMatch'
  <2> SUFFICES ASSUME NEW i \in DOMAIN indexToAddress
               PROVE  i < Len(leaves') /\ UnpackAddress(leaves'[i + 1]) = indexToAddress[i]
    BY <1>2 DEF IndexesMatch, LeafAt
  <2>1. i \in Nat /\ i < Len(leaves) /\ UnpackAddress(leaves[i + 1]) = indexToAddress[i]
    BY <1>4 DEF IndexesMatch, LeafAt, TypeOK, IsMap
  <2>2. Len(leaves') = Len(leaves)
    BY <1>1, <1>2
  <2>3. CASE i = at
    <3>1. leaves'[i + 1] = PackAddressWeight(a, w)
      BY <1>1, <1>2, <1>3, <2>3
    <3>2. indexToAddress[i] = a
      BY <1>3, <1>4, <2>3, OwnedIsAligned DEF at
    <3> QED BY <2>1, <2>2, <3>1, <3>2, UnpackPacked
  <2>4. CASE i # at
    <3>1. leaves'[i + 1] = leaves[i + 1]
      BY <1>1, <1>2, <1>3, <2>1, <2>4
    <3> QED BY <2>1, <2>2, <3>1
  <2> QED BY <2>3, <2>4
<1>7. SavedLeavesOwned'
  <2> SUFFICES ASSUME NEW i \in 0..(Len(saved) - 1)
               PROVE  i < diskSize' /\ diskAddress'[i] = UnpackAddress(saved[i + 1])
    BY <1>2 DEF SavedLeavesOwned
  <2>1. HasDB /\ Len(saved) <= Len(leaves)
    BY <1>1 DEF Kept
  <2>2. diskSize' = Len(leaves) /\ diskAddress' = Merge([j \in {at} |-> a], diskAddress)
    BY <1>2, <2>1, PersistWrites
  <2>3. i < diskSize' /\ i \in 0..(Len(leaves) - 1)
    BY <1>1, <2>1, <2>2
  <2>4. i < diskSize /\ diskAddress[i] = UnpackAddress(saved[i + 1])
    BY <1>4 DEF SavedLeavesOwned
  <2>5. CASE i = at
    <3>1. diskAddress'[i] = a
      BY <2>2, <2>5 DEF Merge
    <3>2. diskAddress[i] = indexToAddress[i] /\ i \in DOMAIN indexToAddress
      BY <1>2, <1>4, <2>1, <2>3, OwnedOnDisk
    <3>3. indexToAddress[i] = a
      BY <1>3, <1>4, <2>5, <3>2, OwnedIsAligned DEF at
    <3> QED BY <2>3, <2>4, <3>1, <3>2, <3>3
  <2>6. CASE i # at
    <3>1. diskSize \in Nat /\ i \in DOMAIN diskAddress
      <4>1. i \in 0..(diskSize - 1) /\ diskSize \in Nat
        BY <2>4 DEF TypeOK
      <4> QED BY <4>1 DEF Kept, DiskIndexComplete, Loadable
    <3>2. diskAddress'[i] = diskAddress[i]
      BY <2>2, <2>6, <3>1 DEF Merge
    <3> QED BY <2>3, <2>4, <3>2
  <2> QED BY <2>5, <2>6
<1> QED BY <1>5, <1>6, <1>7 DEF LeavesOwned

\* An import has nothing on disk, and gives each of its leaves the address at its index.
LEMMA ImportKeepsOwners ==
    ASSUME Plain, TypeOK, Kept, Up, LeavesOwned, NEW index \in Nat, NEW a \in Address,
           NEW w \in Weight, ImportParticipant(index, a, w)
    PROVE  LeavesOwned'
<1>1. Importing /\ saved = <<>> /\ saved' = saved
  BY DEF Kept, Importing, ImportParticipant
<1>2. NoClashes
  BY DEF Plain, NoClashes
<1>3. ProofsMatch'
  BY <1>2, ParticipantMatches DEF LeavesOwned
<1>4. SavedLeavesOwned'
  BY <1>1 DEF SavedLeavesOwned
<1>5. Len(leaves) \in Nat /\ Len(leaves) <= index
  BY <1>2 DEF TypeOK, ImportParticipant, NoClashes
<1>6. /\ Len(leaves') = index + 1 /\ leaves'[index + 1] = PackAddressWeight(a, w)
      /\ \A k \in 1..Len(leaves) : leaves'[k] = leaves[k]
  BY <1>5, ParticipantAdds
<1>7. indexToAddress' = Store(indexToAddress, index, a)
  <2>1. ~IsEmptyParticipant(a, w)
    BY DEF ImportParticipant, Plain
  <2> QED BY <2>1 DEF ImportParticipant, SetEntry
<1>8. IndexesMatch'
  <2> SUFFICES ASSUME NEW i \in DOMAIN indexToAddress'
               PROVE  i < Len(leaves') /\ UnpackAddress(leaves'[i + 1]) = indexToAddress'[i]
    BY DEF IndexesMatch, LeafAt
  <2>1. CASE i = index
    <3>1. indexToAddress'[i] = a
      BY <1>7, <2>1 DEF Store, Merge
    <3> QED BY <1>6, <2>1, <3>1, UnpackPacked
  <2>2. CASE i # index
    <3>1. i \in DOMAIN indexToAddress /\ indexToAddress'[i] = indexToAddress[i]
      BY <1>7, <2>2 DEF Store, Merge
    <3>2. i \in Nat /\ i < Len(leaves) /\ UnpackAddress(leaves[i + 1]) = indexToAddress[i]
      BY <3>1 DEF LeavesOwned, IndexesMatch, LeafAt, TypeOK, IsMap
    <3>3. i + 1 \in 1..Len(leaves) /\ i < Len(leaves')
      BY <1>5, <1>6, <3>2
    <3> QED BY <1>6, <3>1, <3>2, <3>3
  <2> QED BY <2>1, <2>2
<1> QED BY <1>3, <1>4, <1>8 DEF LeavesOwned

\* Sync and Close save each leaf where the disk has its address already.
LEMMA SavingKeepsOwners ==
    ASSUME TypeOK, Kept, Up, LeavesOwned, Sync \/ Close
    PROVE  SavedLeavesOwned'
<1>1. op.call = "none" /\ UNCHANGED <<diskSize, diskAddress>>
  BY DEF Sync, Close, Unlocked, Idle, mapKeys
<1>2. saved' = saved \/ (HasDB /\ saved' = leaves)
  BY DEF Sync, TreeSync, Close
<1>3. CASE saved' = saved
  BY <1>1, <1>3 DEF LeavesOwned, SavedLeavesOwned
<1>4. CASE HasDB /\ saved' = leaves
  <2> SUFFICES ASSUME NEW i \in 0..(Len(leaves) - 1)
               PROVE  i < diskSize /\ diskAddress[i] = UnpackAddress(leaves[i + 1])
    BY <1>1, <1>4 DEF SavedLeavesOwned
  <2> QED BY <1>1, <1>4, OwnedOnDisk DEF LeavesOwned
<1> QED BY <1>2, <1>3, <1>4

\* Maps and tree are written at different times, and still, with additions, updates and
\* imports only, no step but one that opens a census gives a leaf, in memory or on disk,
\* to another address than its own.
THEOREM OwnersStay == Plain => (Spec => LeavesKeepOwners)
<1> SUFFICES ASSUME Plain PROVE Spec => LeavesKeepOwners
  OBVIOUS
<1>1. Init => TypeOK /\ ImportIndexed /\ Kept
  BY TypeInit, KeptInit
<1>2. TypeOK /\ ImportIndexed /\ Kept /\ [Next]_vars => (TypeOK /\ ImportIndexed /\ Kept)'
  BY TypePreserved, ImportIndexedPreserved, KeptPreserved
<1>3. TypeOK /\ Kept /\ [Next]_vars => [Up /\ LeavesOwned => LeavesOwned']_vars
  <2> SUFFICES ASSUME TypeOK, Kept, Next, Up, LeavesOwned PROVE LeavesOwned'
    OBVIOUS
  <2>1. ASSUME UNCHANGED <<leaves, maps, saved, diskSize, diskAddress>>, Up' PROVE LeavesOwned'
    BY <2>1 DEF LeavesOwned, ProofsMatch, IndexesMatch, SavedLeavesOwned, LeafAt, maps, Up
  <2>2. ASSUME NEW a \in Address, NEW w \in Weight, Add(a, w) PROVE LeavesOwned'
    <3>1. <<a>> \in [1..1 -> Address] /\ <<w>> \in [1..1 -> Weight] /\ 1 \in Nat
      OBVIOUS
    <3> QED BY <2>2, <3>1, AddKeepsOwners DEF Add
  <2>3. ASSUME NEW a \in Address, NEW w \in Weight, Update(a, w) PROVE LeavesOwned'
    BY <2>3, UpdateKeepsOwners
  <2>4. ASSUME NEW b \in Batches, AddBulk(b[1], b[2]) PROVE LeavesOwned'
    BY <2>4, BatchTyped, AddKeepsOwners DEF AddBulk
  <2>5. ASSUME NEW i \in 0..(MaxSize - 1), NEW a \in Address, NEW w \in Weight,
               ImportParticipant(i, a, w)
        PROVE  LeavesOwned'
    BY <2>5, ImportKeepsOwners
  <2>6. ASSUME NEW e \in Event,
               InsertEvent(e) \/ UpdateEvent(e) \/ DeleteEvent(e) \/ NoOpEvent(e) \/ FailEvent(e)
        PROVE  FALSE
    BY <2>6 DEF InsertEvent, UpdateEvent, DeleteEvent, NoOpEvent, FailEvent, Handling, Kept
  <2>7. ASSUME BeginApplyEvents \/ BeginImportEvents \/ EndEvents \/ RejectEvents PROVE FALSE
    BY <2>7 DEF BeginApplyEvents, BeginImportEvents, EndEvents, RejectEvents, Plain, Kept
  <2>8. CASE BeginImport
    <3>1. /\ leaves' = <<>> /\ saved' = <<>>
          /\ addressIndex' = NoEntry /\ indexToAddress' = NoEntry
      BY <2>8 DEF BeginImport, ResetPersistentState, ClearMaps, Kept
    <3> QED BY <3>1 DEF LeavesOwned, ProofsMatch, IndexesMatch, SavedLeavesOwned, NoEntry
  <2>9. CASE EndImport \/ RejectImport
    <3>1. saved = <<>> /\ UNCHANGED <<leaves, maps, saved, proc>>
      BY <2>9 DEF EndImport, RejectImport, Kept, Importing
    <3> QED BY <3>1 DEF LeavesOwned, ProofsMatch, IndexesMatch, SavedLeavesOwned, LeafAt, maps, Up
  <2>10. CASE Sync
    <3>1. UNCHANGED <<leaves, maps, proc>> /\ SavedLeavesOwned'
      BY <2>10, SavingKeepsOwners DEF Sync
    <3> QED BY <3>1 DEF LeavesOwned, ProofsMatch, IndexesMatch, LeafAt, maps, Up
  <2>11. ASSUME Gone, SavedLeavesOwned' PROVE LeavesOwned'
    BY <2>11 DEF Gone, ClearMaps, NoEntry, LeavesOwned, ProofsMatch, IndexesMatch, Up
  <2>12. CASE Close
    BY <2>11, <2>12, SavingKeepsOwners DEF Close
  <2>13. CASE Crash
    <3>1. SavedLeavesOwned'
      BY <2>13 DEF Crash, LeavesOwned, SavedLeavesOwned, mapKeys
    <3> QED BY <2>11, <2>13, <3>1 DEF Crash
  <2>14. ~NewCensusIMT
    BY DEF NewCensusIMT, Up
  <2> QED
    BY <2>2, <2>3, <2>4, <2>5, <2>6, <2>7, <2>8, <2>9, <2>10, <2>12, <2>13, <2>14 DEF Next
<1> QED BY <1>1, <1>2, <1>3, PTL DEF Spec, LeavesKeepOwners

=============================================================================
