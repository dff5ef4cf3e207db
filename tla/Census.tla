------------------------------- MODULE Census --------------------------------
(***************************************************************************)
(* One CensusIMT value (census/census_imt.go): the tree, three Go maps     *)
(* beside it and the keys of both in one database.  The tree is what       *)
(* LeafStore says of it, a list of leaves with a saved copy.  Methods hold *)
(* c.mu throughout; the ones that commit more than once, or loop over data *)
(* that may turn out bad half way, take several steps here, since a crash  *)
(* or an error can leave the census between them.  The keys idx:addr:* and *)
(* meta:version are left out: nothing reads them.                          *)
(***************************************************************************)
EXTENDS Integers, Sequences, Functions

CONSTANTS
    Address,       \* addresses as numbers
    Weight,        \* voting weights
    WeightLimit,   \* the first number too big for a packed weight: 2^88 in the code
    Int64Limit,    \* the first number too big for an int64: 2^63 in the code
    HasDB,         \* was NewCensusIMT given a database?
    Env,           \* what callers and the database do in this instance
    MaxSize,       \* bound: leaves of a census
    MaxBatch       \* bound: addresses of one AddBulk

Behaviours == {
    "close",       \* the census is closed and opened again
    "crash",       \* the process ends without Close and starts again
    "dbError",     \* a transaction fails to commit
    "import",      \* ImportAll and Import are used
    "gaps",        \*   with dumps that hold empty slots
    "doubles",     \*   with dumps that name an address twice
    "clashes",     \*   with dumps in which two participants share an index
    "mismatch",    \* an import finds another root than it was told
    "apply",       \* ApplyEvents is used
    "reset",       \* ImportEvents is used
    "reuse",       \*   also on a census that has leaves already
    "repeats",     \* a batch of AddBulk names an address twice
    "liars" }      \* an event may tell a wrong previous weight

ASSUME CensusAssumption ==
    /\ WeightLimit \in Nat \ {0} /\ Int64Limit \in Nat \ {0}
    /\ Weight \subseteq 0..(WeightLimit - 1)
    /\ Address \subseteq Nat
    /\ HasDB \in BOOLEAN
    /\ Env \subseteq Behaviours
    /\ MaxSize \in Nat /\ MaxBatch \in Nat

VARIABLES
    leaves,           \* the leaves of c.tree
    dirty,            \* c.tree.dirty
    addressIndex,     \* c.addressIndex
    indexToAddress,   \* c.indexToAddress
    weights,          \* c.weights
    saved,            \* on disk: the tree's leaves, as many as meta:size says
    diskSize,         \* meta:census_size; 0 stands for a missing key too
    diskAddress,      \* the idx:rev:<index> keys
    diskWeight,       \* the weight:<address> keys
    op,               \* the call that holds c.mu between two steps, or Idle
    proc              \* "up" or "down"

maps == <<addressIndex, indexToAddress, weights>>
mapKeys == <<diskSize, diskAddress, diskWeight>>
vars == <<leaves, dirty, maps, saved, mapKeys, op, proc>>

Event == [address : Address, prev : Weight, new : Weight]
NoEvent == [address |-> -1, prev |-> -1, new |-> -1]

\* "event" is the event a loop over events handled last, "last" the index of the
\* participant an import added last.
Idle == [call |-> "none", event |-> NoEvent, last |-> 0]

\* Go maps are functions on the keys they hold.
NoEntry == [x \in {} |-> 0]
Merge(new, old) == [x \in DOMAIN new \union DOMAIN old |->
                       IF x \in DOMAIN new THEN new[x] ELSE old[x]]
Store(map, key, value) == Merge([x \in {key} |-> value], map)
Delete(map, keys) == Restrict(map, DOMAIN map \ keys)

IsMap(f, D, R) == f \in [DOMAIN f -> R] /\ DOMAIN f \subseteq D

-----------------------------------------------------------------------------
(* Leaves *)

\* Address and weight in one number; 0 is an empty slot, and address 0 with weight 0.
PackAddressWeight(address, weight) == address * WeightLimit + weight
UnpackAddress(leaf) == leaf \div WeightLimit

Leaf == {0} \union {PackAddressWeight(a, w) : a \in Address, w \in Weight}

\* The leaf with index i.
LeafAt(i) == leaves[i + 1]

Contains(leaf) == \E i \in 0..(Len(leaves) - 1) : LeafAt(i) = leaf

\* The first index of a leaf, -1 when there is none.
IndexOf(leaf) ==
    IF Contains(leaf)
    THEN CHOOSE i \in 0..(Len(leaves) - 1) :
            LeafAt(i) = leaf /\ \A j \in 0..(i - 1) : LeafAt(j) # leaf
    ELSE -1

TypeOK ==
    /\ leaves \in Seq(Leaf) /\ saved \in Seq(Leaf)
    /\ dirty \in BOOLEAN
    /\ IsMap(addressIndex, Address, Nat) /\ IsMap(indexToAddress, Nat, Address)
    /\ IsMap(weights, Address, Weight)
    /\ diskSize \in Nat
    /\ IsMap(diskAddress, Nat, Address) /\ IsMap(diskWeight, Address, Weight)
    /\ op \in [call : {"none", "apply", "importEvents", "import"},
               event : Event \union {NoEvent}, last : Nat]
    /\ proc \in {"up", "down"}

-----------------------------------------------------------------------------
(* The database *)

Unlocked == proc = "up" /\ op = Idle

\* A transaction that writes or, when the database fails, does not.
Commit(writes, kept) == (HasDB /\ writes) \/ ((~HasDB \/ "dbError" \in Env) /\ kept)

\* LeanIMT.Sync: a clean tree is not written, and stays dirty when it cannot be.
TreeSync ==
    \/ HasDB /\ dirty /\ saved' = leaves /\ dirty' = FALSE
    \/ (~HasDB \/ ~dirty \/ "dbError" \in Env) /\ UNCHANGED <<saved, dirty>>

\* Mutant: a weight that is on disk already stays.
BugKeepWeight(size, addressOf, weightOf) ==
    Commit(/\ diskSize' = size
           /\ diskAddress' = Merge(addressOf, diskAddress)
           /\ diskWeight' = Merge(diskWeight, weightOf),
           UNCHANGED mapKeys)

\* persistEntry, persistBulkEntries: the entries and the size the tree then has.
PersistEntries(size, addressOf, weightOf) ==
    Commit(/\ diskSize' = size
           /\ diskAddress' = Merge(addressOf, diskAddress)
           /\ diskWeight' = Merge(weightOf, diskWeight),
           UNCHANGED mapKeys)

\* Mutant: meta:census_size stays.
BugKeepSize ==
    IF HasDB
    THEN /\ saved' = <<>>
         /\ diskAddress' = Delete(diskAddress, DOMAIN indexToAddress)
         /\ diskWeight' = Delete(diskWeight, DOMAIN addressIndex)
         /\ UNCHANGED diskSize
    ELSE UNCHANGED <<saved, mapKeys>>

\* Mutant: the leaves stay on disk.
BugKeepLeaves ==
    IF HasDB
    THEN /\ diskSize' = 0
         /\ diskAddress' = Delete(diskAddress, DOMAIN indexToAddress)
         /\ diskWeight' = Delete(diskWeight, DOMAIN addressIndex)
         /\ UNCHANGED saved
    ELSE UNCHANGED <<saved, mapKeys>>

\* resetPersistentState deletes the tree and the keys of what the maps hold.
ResetPersistentState ==
    IF HasDB
    THEN /\ saved' = <<>>
         /\ diskSize' = 0
         /\ diskAddress' = Delete(diskAddress, DOMAIN indexToAddress)
         /\ diskWeight' = Delete(diskWeight, DOMAIN addressIndex)
    ELSE UNCHANGED <<saved, mapKeys>>

ClearMaps == addressIndex' = NoEntry /\ indexToAddress' = NoEntry /\ weights' = NoEntry

-----------------------------------------------------------------------------
(* Add, AddBulk and Update *)

Has(a) == a \in DOMAIN addressIndex

\* Entries are sequences of addresses and weights; the last entry of an address wins.
AddEntries(addrs, ws) ==
    LET start == Len(leaves)
        last == [a \in Range(addrs) |->
                    CHOOSE i \in DOMAIN addrs :
                        addrs[i] = a /\ \A j \in DOMAIN addrs : addrs[j] = a => j <= i]
        addressOf == [i \in start..(start + Len(addrs) - 1) |-> addrs[i - start + 1]]
        weightOf == [a \in Range(addrs) |-> ws[last[a]]]
    IN  /\ Unlocked
        /\ start + Len(addrs) <= MaxSize
        /\ \A i \in DOMAIN addrs : ~Has(addrs[i])
        /\ leaves' = leaves \o [i \in DOMAIN addrs |-> PackAddressWeight(addrs[i], ws[i])]
        /\ dirty' = TRUE
        /\ addressIndex' = Merge([a \in Range(addrs) |-> start + last[a] - 1], addressIndex)
        /\ indexToAddress' = Merge(addressOf, indexToAddress)
        /\ weights' = Merge(weightOf, weights)
        /\ PersistEntries(start + Len(addrs), addressOf, weightOf)
        /\ UNCHANGED <<saved, op, proc>>

Add(a, w) == AddEntries(<<a>>, <<w>>)

\* The batch is compared with the census and not with itself.
AddBulk(addrs, ws) ==
    /\ "repeats" \in Env \/ IsInjective(addrs)
    /\ AddEntries(addrs, ws)

\* A stale index makes tree.Update fail, before anything is changed.
Update(a, w) ==
    /\ Unlocked
    /\ Has(a) /\ addressIndex[a] < Len(leaves)
    /\ leaves' = [leaves EXCEPT ![addressIndex[a] + 1] = PackAddressWeight(a, w)]
    /\ dirty' = TRUE
    /\ weights' = Store(weights, a, w)
    /\ PersistEntries(Len(leaves), [i \in {addressIndex[a]} |-> a], [b \in {a} |-> w])
    /\ UNCHANGED <<addressIndex, indexToAddress, saved, op, proc>>

-----------------------------------------------------------------------------
(* ApplyEvents and ImportEvents: a loop over events between two ends *)

\* Int64 of a big number: its low bits, and a sign.
Int64(w) == ((w + Int64Limit) % (2 * Int64Limit)) - Int64Limit

TreeOp(e) ==
    LET prev == Int64(e.prev)
        new == Int64(e.new)
    IN  CASE prev = 0 /\ new > 0 -> "insert"
          [] prev > 0 /\ new = 0 -> "delete"
          [] prev > 0 /\ new # 0 -> "update"
          [] OTHER -> "noop"

CurrentWeight(a) == IF Has(a) THEN weights[a] ELSE 0

OldLeaf(e) == PackAddressWeight(e.address, e.prev)
NewLeaf(e) == PackAddressWeight(e.address, e.new)

BeginApplyEvents ==
    /\ Unlocked
    /\ "apply" \in Env
    /\ op' = [Idle EXCEPT !.call = "apply"]
    /\ UNCHANGED <<leaves, dirty, maps, saved, mapKeys, proc>>

\* Disk and maps are emptied; the tree in memory stays.
BeginImportEvents ==
    /\ Unlocked
    /\ "reset" \in Env
    /\ leaves = <<>> \/ "reuse" \in Env
    /\ ResetPersistentState
    /\ ClearMaps
    /\ op' = [Idle EXCEPT !.call = "importEvents"]
    /\ UNCHANGED <<leaves, dirty, proc>>

\* The next event of the list, whatever it is.
Handling(e) ==
    /\ op.call \in {"apply", "importEvents"}
    /\ "liars" \in Env \/ e.prev = CurrentWeight(e.address)

Handled(e) ==
    /\ op' = [op EXCEPT !.event = e]
    /\ UNCHANGED <<saved, mapKeys, proc>>

SetEntry(a, index, w) ==
    /\ addressIndex' = Store(addressIndex, a, index)
    /\ indexToAddress' = Store(indexToAddress, index, a)
    /\ weights' = Store(weights, a, w)

\* Mutant: the index Insert returns is not taken.
BugIndexNotTaken(e) ==
    /\ Handling(e) /\ TreeOp(e) = "insert" /\ Len(leaves) < MaxSize
    /\ leaves' = IF Contains(OldLeaf(e))
                 THEN [leaves EXCEPT ![IndexOf(OldLeaf(e)) + 1] = NewLeaf(e)]
                 ELSE Append(leaves, NewLeaf(e))
    /\ dirty' = TRUE
    /\ SetEntry(e.address, IndexOf(OldLeaf(e)), e.new)
    /\ Handled(e)

\* Mutant: a leaf is added although one with weight zero is there.
BugAlwaysAppend(e) ==
    /\ Handling(e) /\ TreeOp(e) = "insert" /\ Len(leaves) < MaxSize
    /\ leaves' = Append(leaves, NewLeaf(e))
    /\ dirty' = TRUE
    /\ SetEntry(e.address, Len(leaves), e.new)
    /\ Handled(e)

\* A leaf with the previous weight, zero, is taken over; otherwise one is added.
InsertEvent(e) ==
    LET index == IF Contains(OldLeaf(e)) THEN IndexOf(OldLeaf(e)) ELSE Len(leaves)
    IN  /\ Handling(e) /\ TreeOp(e) = "insert"
        /\ index < MaxSize
        /\ leaves' = IF index < Len(leaves)
                     THEN [leaves EXCEPT ![index + 1] = NewLeaf(e)]
                     ELSE Append(leaves, NewLeaf(e))
        /\ dirty' = TRUE
        /\ SetEntry(e.address, index, e.new)
        /\ Handled(e)

\* Mutant: the maps keep the previous weight.
BugKeepsPrevWeight(e) ==
    /\ Handling(e) /\ TreeOp(e) = "update" /\ Contains(OldLeaf(e))
    /\ leaves' = [leaves EXCEPT ![IndexOf(OldLeaf(e)) + 1] = NewLeaf(e)]
    /\ dirty' = TRUE
    /\ UNCHANGED maps
    /\ Handled(e)

UpdateEvent(e) ==
    LET index == IndexOf(OldLeaf(e))
    IN  /\ Handling(e) /\ TreeOp(e) = "update" /\ Contains(OldLeaf(e))
        /\ leaves' = [leaves EXCEPT ![index + 1] = NewLeaf(e)]
        /\ dirty' = TRUE
        /\ SetEntry(e.address, index, e.new)
        /\ Handled(e)

\* Mutant: the address stays in addressIndex, or the index in indexToAddress.
BugDeleteHalf(e, keepIndex) ==
    /\ Handling(e) /\ TreeOp(e) = "delete" /\ Contains(OldLeaf(e))
    /\ leaves' = [leaves EXCEPT ![IndexOf(OldLeaf(e)) + 1] = 0]
    /\ dirty' = TRUE
    /\ IF keepIndex
       THEN indexToAddress' = Delete(indexToAddress, {IndexOf(OldLeaf(e))})
                /\ UNCHANGED <<addressIndex, weights>>
       ELSE /\ addressIndex' = Delete(addressIndex, {e.address})
            /\ weights' = Delete(weights, {e.address})
            /\ UNCHANGED indexToAddress
    /\ Handled(e)
BugDeleteKeepsIndex(e) == BugDeleteHalf(e, TRUE)
BugDeleteKeepsSlot(e) == BugDeleteHalf(e, FALSE)

\* The slot stays and becomes empty.
DeleteEvent(e) ==
    LET index == IndexOf(OldLeaf(e))
    IN  /\ Handling(e) /\ TreeOp(e) = "delete" /\ Contains(OldLeaf(e))
        /\ leaves' = [leaves EXCEPT ![index + 1] = 0]
        /\ dirty' = TRUE
        /\ addressIndex' = Delete(addressIndex, {e.address})
        /\ indexToAddress' = Delete(indexToAddress, {index})
        /\ weights' = Delete(weights, {e.address})
        /\ Handled(e)

NoOpEvent(e) ==
    /\ Handling(e) /\ TreeOp(e) = "noop"
    /\ Handled(e)
    /\ UNCHANGED <<leaves, dirty, maps>>

\* A leaf that is to be replaced and is not there ends the loop with an error.
FailEvent(e) ==
    /\ Handling(e) /\ TreeOp(e) \in {"update", "delete"} /\ ~Contains(OldLeaf(e))
    /\ op' = Idle
    /\ UNCHANGED <<leaves, dirty, maps, saved, mapKeys, proc>>

\* After the list the tree is synced, and nothing else is.
EndEvents ==
    /\ op.call = "apply" \/ (op.call = "importEvents" /\ leaves # <<>>)
    /\ TreeSync
    /\ op' = Idle
    /\ UNCHANGED <<leaves, maps, mapKeys, proc>>

\* The root of an empty tree, or one other than the caller expects, is an error.
RejectEvents ==
    /\ op.call = "importEvents"
    /\ leaves = <<>> \/ "mismatch" \in Env
    /\ op' = Idle
    /\ UNCHANGED <<leaves, dirty, maps, saved, mapKeys, proc>>

-----------------------------------------------------------------------------
(* ImportAll and Import *)

IsEmptyParticipant(a, w) == a = 0 /\ w = 0

\* Disk, maps and tree start anew.
BeginImport ==
    /\ Unlocked
    /\ "import" \in Env
    /\ ResetPersistentState
    /\ ClearMaps
    /\ leaves' = <<>> /\ dirty' = FALSE
    /\ op' = [Idle EXCEPT !.call = "import"]
    /\ UNCHANGED proc

\* The leaves a participant adds at the end, after the empty slots up to its index.
ParticipantLeaves(index, a, w) ==
    [i \in 1..(index - Len(leaves)) |-> 0] \o <<PackAddressWeight(a, w)>>

\* The next participant of the dump, which is sorted by index.  Nothing keeps two of them
\* from having one index: the later leaf comes after, and the maps take the index it names.
ImportParticipant(index, a, w) ==
    /\ op.call = "import"
    /\ op.last <= index /\ Len(leaves) < MaxSize
    /\ "clashes" \in Env \/ Len(leaves) <= index
    /\ "gaps" \in Env \/ (index <= Len(leaves) /\ ~IsEmptyParticipant(a, w))
    /\ "doubles" \in Env \/ ~Has(a)
    /\ leaves' = leaves \o ParticipantLeaves(index, a, w)
    /\ dirty' = TRUE
    /\ IF IsEmptyParticipant(a, w) THEN UNCHANGED maps ELSE SetEntry(a, index, w)
    /\ op' = [op EXCEPT !.last = index]
    /\ UNCHANGED <<saved, mapKeys, proc>>

\* The participants that imported an address with index i, by their leaves.
Importers(i) ==
    {k \in DOMAIN leaves : leaves[k] # 0 /\ UnpackAddress(leaves[k]) \in DOMAIN addressIndex
                                /\ addressIndex[UnpackAddress(leaves[k])] = i}

\* persistImportedData goes through the addresses as they came, and the last one stays.
ImportedAddress ==
    [i \in Range(addressIndex) |->
        UnpackAddress(leaves[CHOOSE k \in Importers(i) : \A j \in Importers(i) : j <= k])]

\* The root is the one expected; the maps are written, the tree is not.
EndImport ==
    /\ op.call = "import" /\ leaves # <<>>
    /\ PersistEntries(Len(leaves), ImportedAddress, weights)
    /\ op' = Idle
    /\ UNCHANGED <<leaves, dirty, maps, saved, proc>>

\* No participants, one that does not decode, or another root.
RejectImport ==
    /\ op.call = "import"
    /\ leaves = <<>> \/ "mismatch" \in Env
    /\ op' = Idle
    /\ UNCHANGED <<leaves, dirty, maps, saved, mapKeys, proc>>

-----------------------------------------------------------------------------
(* Sync, Close, the end of the process and NewCensusIMT *)

Sync ==
    /\ Unlocked
    /\ TreeSync
    /\ UNCHANGED <<leaves, maps, mapKeys, op, proc>>

\* What a process that is not running has in memory.
Gone ==
    /\ proc' = "down"
    /\ leaves' = <<>> /\ dirty' = FALSE
    /\ ClearMaps
    /\ op' = Idle

\* Close returns early, and leaves the census open, when its Sync fails.
Close ==
    /\ Unlocked
    /\ "close" \in Env
    /\ saved' = IF HasDB /\ dirty THEN leaves ELSE saved
    /\ Gone
    /\ UNCHANGED mapKeys

Crash ==
    /\ proc = "up"
    /\ "crash" \in Env
    /\ Gone
    /\ UNCHANGED <<saved, mapKeys>>

\* Load finds an address and a weight for each index below the census size.
Loadable ==
    \A i \in 0..(diskSize - 1) :
        i \in DOMAIN diskAddress /\ diskAddress[i] \in DOMAIN diskWeight

\* The maps Load builds from the keys; a later index of an address wins.
LoadedAddress == [i \in 0..(diskSize - 1) |-> diskAddress[i]]
LoadedIndex ==
    [a \in Range(LoadedAddress) |->
        CHOOSE i \in 0..(diskSize - 1) :
            /\ diskAddress[i] = a
            /\ \A j \in (i + 1)..(diskSize - 1) : diskAddress[j] # a]
LoadedWeight == [a \in Range(LoadedAddress) |-> diskWeight[a]]

\* Where Load finds a gap, NewCensusIMT fails, and the disk stays as it is.
NewCensusIMT ==
    /\ proc = "down"
    /\ Loadable
    /\ proc' = "up"
    /\ leaves' = saved /\ dirty' = FALSE
    /\ addressIndex' = LoadedIndex
    /\ indexToAddress' = LoadedAddress
    /\ weights' = LoadedWeight
    /\ UNCHANGED <<saved, mapKeys, op>>

Init ==
    /\ leaves = <<>> /\ saved = <<>> /\ dirty = FALSE
    /\ addressIndex = NoEntry /\ indexToAddress = NoEntry /\ weights = NoEntry
    /\ diskSize = 0 /\ diskAddress = NoEntry /\ diskWeight = NoEntry
    /\ op = Idle /\ proc = "up"

Batches == UNION {[1..n -> Address] \X [1..n -> Weight] : n \in 1..MaxBatch}

Next ==
    \/ \E a \in Address, w \in Weight : Add(a, w) \/ Update(a, w)
    \/ \E b \in Batches : AddBulk(b[1], b[2])
    \/ BeginApplyEvents \/ BeginImportEvents \/ EndEvents \/ RejectEvents
    \/ \E e \in Event : InsertEvent(e) \/ UpdateEvent(e) \/ DeleteEvent(e)
                           \/ NoOpEvent(e) \/ FailEvent(e)
    \/ BeginImport \/ EndImport \/ RejectImport
    \/ \E i \in 0..(MaxSize - 1), a \in Address, w \in Weight : ImportParticipant(i, a, w)
    \/ Sync \/ Close \/ Crash \/ NewCensusIMT

Spec == Init /\ [][Next]_vars

-----------------------------------------------------------------------------
(* Properties *)

Up == proc = "up"

\* A proof for an address is about its leaf, and the weight it states is the leaf's.
\* (GenerateProof, for a caller that then checks the weight of a voter)
ProofsMatch ==
    Up => \A a \in DOMAIN addressIndex :
        /\ a \in DOMAIN weights
        /\ addressIndex[a] < Len(leaves)
        /\ LeafAt(addressIndex[a]) = PackAddressWeight(a, weights[a])

\* No address has two leaves, with which it would count twice.  (AddBulk, applyEvents)
OneLeafEach ==
    \A i, j \in 1..Len(leaves) :
        i # j /\ leaves[i] # 0 /\ leaves[j] # 0
        => UnpackAddress(leaves[i]) # UnpackAddress(leaves[j])

\* The two index maps are each other's inverse, and a leaf no address is known for is
\* empty: whoever votes can be found from the leaf, and the leaf from the voter.
\* (the entries Add, applyEvents and Import set, and the one a delete removes)
Aligned ==
    /\ \A a \in DOMAIN addressIndex :
          addressIndex[a] \in DOMAIN indexToAddress /\ indexToAddress[addressIndex[a]] = a
    /\ \A i \in DOMAIN indexToAddress :
          indexToAddress[i] \in DOMAIN addressIndex /\ addressIndex[indexToAddress[i]] = i
    /\ \A i \in 0..(Len(leaves) - 1) : i \notin DOMAIN indexToAddress => LeafAt(i) = 0

\* The leaf DumpAll shows for an index, as ImportAll would build it.
DumpedLeaf(i) ==
    IF i \in DOMAIN indexToAddress
    THEN PackAddressWeight(indexToAddress[i], weights[indexToAddress[i]])
    ELSE 0

\* What DumpAll exports has the root it states: it can be imported elsewhere.
DumpFaithful ==
    \A i \in 0..(Len(leaves) - 1) :
        /\ i \in DOMAIN indexToAddress => indexToAddress[i] \in DOMAIN weights
        /\ DumpedLeaf(i) = LeafAt(i)

\* After an event that told the truth the address has its new weight.  (treeOp, applyEvents)
EventsTakeEffect ==
    op.event # NoEvent => CurrentWeight(op.event.address) = op.event.new

\* An address keeps its index for as long as it is in the census, so that a proof of it
\* changes only with the tree.  (applyEvents, Add, Update)
AddressesKeepIndex ==
    [][\A a \in DOMAIN addressIndex \intersect DOMAIN addressIndex' :
          addressIndex'[a] = addressIndex[a]]_vars

\* Every index has a leaf, and it is its address's.
IndexesMatch ==
    \A i \in DOMAIN indexToAddress :
        i < Len(leaves) /\ UnpackAddress(LeafAt(i)) = indexToAddress[i]

\* A census that has synced comes back with every address where it was, unless a crash
\* before had parted its maps from its leaves.  (Sync, Load)
ReopenRestores ==
    Up /\ op = Idle /\ ~dirty /\ ProofsMatch /\ IndexesMatch =>
        /\ Loadable
        /\ saved = leaves
        /\ LoadedIndex = addressIndex
        /\ LoadedAddress = indexToAddress
        /\ LoadedWeight = weights

\* Whenever the process ends, the census can be opened: each of its indexes has an address
\* and a weight, each saved leaf an index.  Whether they are the leaf's own is another
\* question, see LeavesKeepOwners.  (persistEntry, persistImportedData, Load)
DiskIndexComplete == Loadable /\ Len(saved) <= diskSize

\* A census that has stopped can be started again.  (Load)
OpensAgain == ~Up => Loadable

\* The leaves on disk are of the addresses the index on disk gives them.
SavedLeavesOwned ==
    \A i \in 0..(Len(saved) - 1) :
        i < diskSize /\ diskAddress[i] = UnpackAddress(saved[i + 1])

LeavesOwned == ProofsMatch /\ IndexesMatch /\ SavedLeavesOwned

\* A leaf gets another owner only where a census is opened that had lost leaves: no other
\* step takes a census whose leaves belong to their addresses, in memory and on disk, to
\* one where they do not.  (persistEntry, Sync, resetPersistentState)
LeavesKeepOwners == [][Up /\ LeavesOwned => LeavesOwned']_vars

=============================================================================
