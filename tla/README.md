# Verification of lean-imt-go

A TLA+ model of the lean incremental Merkle tree in this repository, of its
persistence, of its membership proofs and of the census built on it,
model-checked with TLC and proved with TLAPS.

    tlc -config MCLeanIMT_memory.cfg MCLeanIMT      one model-checking run
    tlapm LeanIMTProofs.tla                         the proofs of one module

## The system

| Component | Code | State | Operations |
|---|---|---|---|
| Tree | `leanimt.go` 25-374 | `nodes` (levels, leaves first), `dirty`, `mu` (an RWMutex) | Insert, InsertMany, Update, UpdateMany; Depth, Size, Leaves, Root, IndexOf, Has |
| Tree persistence | `leanimt.go` 45-76, 409-578 | keys `meta:version`, `meta:size`, `leaf:<i>` | New, Load, rebuildTree, Sync, cleanupStaleLeaves, Close |
| Membership proofs | `proof.go` | none; reads `nodes` | GenerateProof, VerifyProofWith |
| JSON | `json.go` | none | Export, Import |
| Codecs, hashers | `hashers.go`, `leanimt.go` 376-407 | none | intToString, encodeInt, decodeInt, encoders, hash functions |
| Census | `census/census_imt.go` | `addressIndex`, `indexToAddress`, `weights`, `c.mu`, a tree, keys `idx:addr:`, `idx:rev:`, `weight:`, `meta:census_size` | New, Add, AddBulk, Update, GenerateProof, Has, GetWeight, Root, Size, Sync, Close |
| Census events | `census/census_imt.go` 802-950 | the same | ApplyEvents, ImportEvents |
| Census dumps | `census/census_imt.go` 302-441, 578-797, 953-1043 | a pipe | Dump, DumpRange, DumpAll, Import, ImportAll |
| Leaf packing | `census/helpers.go` | none | PackAddressWeight, UnpackAddressWeight |
| Circuit | `circuit/leanimt_circuit.go` | none | Verify, PackLeaf, CensusProofToMerkleProof |

How they interact. The census calls the tree and keeps three maps beside its
leaves; a leaf of the census is an address packed with its weight, zero for a
slot that was emptied. The tree reaches the disk only in `Sync`, in one
transaction; the index entries of the census reach it at once in `Add`,
`AddBulk` and `Update`. Both use the same store, each under its prefix. Proofs
are made from the tree's levels and checked by `VerifyProofWith` or by the
circuit. There are no messages: everything is calls, two locks (`t.mu` inside
`c.mu`) and a key-value store.

What is hard in it:

* The levels are repaired incrementally, by four algorithms that each touch
  another part of them, and after a restart by a fifth one from scratch. All of
  them must agree, at every size and after any history.
* Operations hold `t.mu` to their end, but `GenerateProof` reads `t.nodes`
  without it and takes the lock anew for the size, each depth and the root.
  `Insert` and `Update` empty the top level before they store the root there,
  and in a tree of one leaf the top level is the level of leaves.
* `Close` gives the lock back between its `Sync` and the closing of the
  database.
* Memory and disk part ways between two `Sync`s, and a crash may come at any
  point; a store that lost one leaf is taken for a new one (`New` ignores
  `ErrKeyNotFound`).
* The census writes some of its keys at once and others never, so that the tree
  and the maps on disk can be those of different moments.
* A dump lets go of `c.mu` between its batches and while it writes, and is read
  by somebody else's goroutine.
* The same leaf is a number in the tree, bytes on disk, a token of JSON and a
  field element in the circuit, each with its own limits.

What makes each component correct:

* Tree: whenever the lock is free, `depth = ceil(log2(size))`, there is one
  root, and every inner node is the hash of its children or its only child.
* Persistence: what was synced comes back, node for node; the leaf keys are
  those below the size.
* Proofs: what is handed out verifies against the current root, no read is out
  of range, and the loop ends.
* Census: maps and leaves correspond, in memory and, after a restart, on disk;
  weights on record are those in the leaves; what was acknowledged and synced
  is there after a crash.
* Events, dumps, imports: the importer of a dump or of events arrives at the
  root of the exporter; a failure leaves a census that is one of the two states.
* Dumps in batches: whoever stays in the census is listed once, and nobody
  waits for the reader of a dump.
* Circuit: it accepts the proofs that `VerifyProofWith` accepts, as far as they
  fit, and packs leaves as the census does.
* Codecs: what was written is read back.

## Modules

| Module | Contents |
|---|---|
| `LeanTree` | the levels as a data type: `Level`, `At` with the code's indices from 0; `Put` (ensureIndex and a store), `CeilLog2`, `Parent`, `RebuildTree`, `Consistent`, `Root` |
| `LeanIMT` | one tree with its store: the state machine, its properties |
| `LeafStore` | what a tree promises: a list of leaves and a saved copy of it |
| `LeanIMTInd` | the inductive invariant of `LeanIMT`, and `Synced`, which joins memory to disk |
| `GenerateProof` | provers that read the tree beside the writers of `LeanIMT` |
| `Census` | one census: its maps beside a list of leaves, and the keys of both on disk |
| `CensusDump` | a dump that is read while the other methods of `Census` go on |
| `Circuit` | the circuit's Verify on the proofs of `GenerateProof` |
| `Codec` | one leaf and one size on their way through packing, disk and JSON; the circuit's PackLeaf; what the hashers hash |
| `MCLeanIMT`, `MCGenerateProof`, `MCCensusDump`, `MCCodec` | instances for TLC; `Census` needs none, its constants are sets of numbers |
| `NaturalLemmas` | numbers, for the proofs: induction over sets of them, division, powers of two and bits |
| `LeanTreeProofs`, `LeanIMTProofs` | the operators on levels; the inductive invariant of one tree |
| `LeafStoreProofs` | levels grow, a clean tree is durable, and `LeanIMT` implements `LeafStore` |
| `GenerateProofProofs` | provers beside writers, and the circuit on what they hand out |
| `CensusProofs` | the census, with callers of any kind, with truthful ones, and its disk |
| `CensusDumpProofs` | a dump beside the methods of the census |
| `CodecProofs` | digits and bytes, packing, and what is hashed |

`LeanIMT` corresponds to the code as follows.

| Variable | Code |
|---|---|
| `nodes`, `dirty` | `t.nodes`, `t.dirty` |
| `op` | the locals of the method that holds `t.mu` (`call`, `level`, `index`, `node`, `startIndex`, the two sets of modified parents), or `Idle` when the lock is free |
| `diskSize`, `disk` | the keys `meta:size` and `leaf:<i>` |
| `proc` | the process: up, between the two halves of `Close`, or down |

Each iteration of each loop is an action: `Insert`, `InsertLevel`*,
`InsertTruncates`, `StoreRoot`; `InsertMany`, `InsertManyParent`*,
`InsertManyLevel`*, `InsertManyEnd`; `Update`, `UpdateLevel`*, `UpdateTruncates`,
`StoreRoot`; `UpdateMany`, `UpdateManyParent`* in any order, `UpdateManyLevel`*,
`UpdateManyEnd`. `InsertTruncates` and `UpdateTruncates` are `t.nodes[top][:0]`,
`StoreRoot` the `append` behind it. They are that fine because `GenerateProof` can
look in between. `Sync` is one action: it holds the lock and commits one transaction. `CloseSync` and `CloseDB` are two, because `Close`
unlocks in between. `Crash` may happen between any two steps, `Open` is `New`
with `Load`. `Load` is exported but takes no lock and is called by `New` alone in
the code; that is where it is modelled.

The steps of `GenerateProof` are `Start`, which compares the index with the size
under the lock; `ReadLeaf`; then, for each level, `TestDepth` under the lock,
`TestSibling`, which compares a left child's neighbour with the length of the level,
and `ReadSibling`; and `ReadRoot` under the lock. A read past the end of a level ends
in `"panic"`. `pv` holds the locals of each prover.

`Census` takes of the tree what `LeafStore` says of it, which `tree_disk` shows
the tree implements: `leaves` and `dirty` in memory, `saved` on disk.

| Variable | Code |
|---|---|
| `addressIndex`, `indexToAddress`, `weights` | the maps `c.addressIndex`, `c.indexToAddress`, `c.weights` |
| `diskSize`, `diskAddress`, `diskWeight` | the keys `meta:census_size`, `idx:rev:<i>`, `weight:<a>` |
| `op` | the call that holds `c.mu` between two steps, and the event it handled last |
| `proc` | is the process running, with the census open? |

`Add`, `AddBulk`, `Update` and `Sync` are one action each: a lock from beginning
to end, one transaction. `ApplyEvents` and `ImportEvents` are a beginning, one
action per branch of the loop in `applyEvents` (`InsertEvent`, `UpdateEvent`,
`DeleteEvent`, `NoOpEvent`, and `FailEvent`, which ends the loop and leaves what
is done in place), and an end; `ImportAll` and `Import` are a beginning, which
deletes what is on disk, `ImportParticipant`* and an end. They are that fine
because errors and crashes fall between those steps. Participants come sorted by
index; one whose index is already taken has its leaf at the end of the tree and
the index it names in the maps, and `ImportedAddress` says which of several
addresses of one index is written, the last. `NewCensusIMT` with `Load`
opens the census after `Close` or `Crash`, if it can.

`Env` says what the callers and the database do in an instance, so that each run
names the least it needs to assume: that events tell the truth (no `"liars"`),
that a batch names an address once (no `"repeats"`), that `ImportEvents` finds an
empty census (no `"reuse"`), that a dump has no address twice (no `"doubles"`) and
no index twice (no `"clashes"`), that the process ends only by `Close` (no
`"crash"`), and so on. Where the code does not keep a property without such an
assumption, a counterexample shows it.

`CensusDump` puts the goroutine of one `DumpRange` beside the actions of
`Census`, which step only while it does not hold the read lock. Its variable
`dump` holds the locals of the goroutine and the lines its reader has received:
`DumpRange` reads the size under the lock and fixes the range; `LockBatch` and
`ReadBatch` are the lock and the loop under it, for the whole range or for one
batch of it; `WriteLine` hands one line through the pipe, which has no buffer,
with no lock held; `EndOfDump` closes the pipe. `stayed` is a history variable:
who has been in the census without interruption since the size was read.

`Circuit` adds no state: `MerkleProof` pads or cuts a proof to
`MaxCensusDepth` siblings, and `CircuitAccepts` is `Verify` on it. `Zero` is the
node 0, with which proofs are padded and which is the leaf of an emptied slot.

`Codec` follows one leaf. `at` says where it is; `Add` packs it or panics,
`Sync` and `Load` are the encoders and decoders of leaf and size, `Export`,
`Import` and `ImportMapped` the way through JSON, without mapFn and with one
that parses integers. `FitsLeaf`, `Pack`, `UnpackAddressWeight` and `PackLeaf`
are the packing outside and inside the circuit, `Concatenated` and `Filled` the
bytes that the hashers give to SHA-256 and Blake2b, and to MiMC.

What is abstracted:

* Leaves and hashes are values of a set `Node`; `Hash` is a constant operator.
  In the runs it builds a term, so that two different trees never have the same
  root by accident.
* A transaction of the database is atomic and the value of a committed key is
  read back as it was written. A `Sync` whose transaction fails, an `Update`
  out of range, an empty `InsertMany` and an `UpdateMany` that does not pass
  its validation change nothing and are steps that leave everything as it is.
* `meta:version` is written and never used; the zero value of a missing
  `meta:size` and a stored 0 are one value, as they are for `Load`.
* Reading or storing one element of a level is atomic. So are the first stores of
  an operation: the `append` of `InsertMany`, the leaves of one `UpdateMany`, a new
  level together with the node stored next. The data race in `GenerateProof` can
  also tear a slice header or show a zero cell between `ensureIndex` and the store
  behind it; what the runs show does not need that, and `ReadsInRange` and
  `ProofReturns` are about reads that are not torn.
* A database that cannot be read makes `New` return an error and no tree, which
  is a process that stays down. Only `ErrKeyNotFound` is taken for an empty
  tree (`leanimt.go` 65-71).
* The root a census computes and the one it is told are not values: an import
  finds them equal, or, with `"mismatch"`, may find them different.
* The packed leaf is `address * WeightLimit + weight`, where `WeightLimit` stands
  for 2^88; `Int64Limit` stands for 2^63, and `Int64` truncates as Go does.
* `HasDB` is FALSE for a census without a database: nothing is written. The
  `idx:addr` keys, which `Load` does not read, and `meta:version` are left out.
* `Close` of the census is its `Sync` followed by the end of the process. What
  can happen between the two locks is part of `LeanIMT`.
* A line of a dump is a record of index, address and weight; address 0 with
  weight 0 is the line of an empty slot.
* `Codec` has numbers that are not negative. The code does not check the sign of
  a weight: `BitLen` ignores it, `Or` lets a negative weight override the
  address, and `Bytes` drops the sign. A float64 is an integer multiple of the
  distance between floats around it, rounded to the nearest, ties to even.

## Runs

| Run | Question | Answer |
|---|---|---|
| `tree_memory` | Do the four operations keep the tree the lean tree of its leaves, through every iteration of every loop? Does no level but the top ever shrink? Does each operation end? | yes: `IInv`, `LevelsOnlyGrow`, `OperationEnds` |
| `tree_disk` | With a store, crashes and restarts: is what was synced restored exactly, and does the tree implement a saved list of leaves? Are there ever fewer leaves in memory than on disk? | yes: `DiskComplete`, `CleanIsDurable`, `ImplementsLeafStore`, with `TypeOK`, `TreeConsistent`; no: `TreeKeepsSaved` |
| `proof_locked` | Under the caller's lock, as the census calls it: does every proof verify, against the current tree, and none panic? Which of them does the circuit accept? | yes: `ProofsVerify`, `ProofsCurrent`, `NoPanic`, with `PvTypeOK`; those whose siblings fit and are not zero (`CircuitAgrees`) |
| `proof_racing` | Without that lock: where may `GenerateProof` read out of range, and does it return otherwise? | only the leaf of a tree of one leaf: `ReadsInRange`; yes: `ProofReturns` |
| `census_any` | Whatever callers pass in, but for dumps with an index twice, and whichever transactions fail: is the proof of an address about its own leaf, and the weight on record that of the leaf? | yes: `ProofsMatch`, with `TypeOK` |
| `census_truthful` | When they tell the truth: are the index maps each other's inverse, has each address one leaf, at one index, does an event take effect, and does a dump rebuild the tree? | yes: `Aligned`, `OneLeafEach`, `AddressesKeepIndex`, `EventsTakeEffect`, `DumpFaithful` |
| `census_store` | With closes and crashes between any two steps of `Add`, `Update`, `Sync` and imports: does the census open again, and as it was synced? Which step can give a leaf to another address? | yes: `DiskIndexComplete`, `ReopenRestores`; only the opening after leaves were lost: `LeavesKeepOwners` |
| `census_dump` | Of a dump beside all other methods: is each index listed once, in order, and whoever stays in the census once? Are the maps never at odds? Does it keep writers out, or they it? | yes: `LinesInOrder`, `StayersListed`, `NeverCorrupt`; no: `WritersGetIn`, `DumpEnds`, with `DumpTypeOK` |
| `codec` | Do a leaf and a size come back from disk and JSON? Do census and circuit pack alike? Which hashers tell all pairs of children apart? | yes: `LeavesSurvive`, `SizesSurvive`, but for Imports with mapFn of numbers that a float64 may not hold; yes: `PackingAgrees`; the MiMC hashers, and SHA-256 and Blake2b for left children of one length: `PairsToldApart`, with `CodecTypeOK` |

The others check one statement of the repository each and find it violated.

| Run | Statement | What TLC finds |
|---|---|---|
| `proof_torn` | "LeanIMT is safe for concurrent use by multiple goroutines" (`leanimt.go:24`) | without a lock of the caller's a proof can mix the leaf of one tree with the root of another and not verify (`ProofsVerify`) |
| `census_sync` | "Sync ensures all data is persisted to disk" (`census_imt.go:546`) | `ApplyEvents` changes the maps and nothing writes them; after a restart they are those of before the events (`ReopenRestores`) |
| `census_int64` | "Insert: previous weight is 0, new weight > 0" (`census_imt.go:819`) | `treeOp` compares `Int64()` of weights of 88 bits; 2^64 counts as 0 and the event is dropped (`EventsTakeEffect`) |

### Counterexamples

Beside the runs there are configurations that each violate their one property on
purpose: what the code does where the assumption of a run or of a theorem does not
hold, or where a statement of the repository is not kept. `tlc -config
Census_clash.cfg Census` prints the steps that lead there.

| Configuration | Statement | What TLC finds |
|---|---|---|
| `MCGenerateProof_empty` | "LeanIMT is safe for concurrent use" (`leanimt.go:24`) | without a lock of the caller's `GenerateProof` can panic: `Update` empties the only level of a tree of one leaf before it stores the leaf there again (`NoPanic`) |
| `MCGenerateProof_zero` | "Verify method verifies a Lean IMT Merkle proof" (`leanimt_circuit.go:56`) | it takes a sibling that is zero for padding, and the leaf of an emptied slot is zero (`CircuitVerifies`) |
| `Census_clash` | "CensusProof contains all data needed for census membership verification" (`census_imt.go:32`) | a dump in which two participants share an `AddressIndex` is taken as it is, and the proof of the later one is about the leaf of the earlier (`ProofsMatch`) |
| `Census_crash` | "Our indices are already persisted on each Add" (`census_imt.go:556`) | their leaves are not: after a crash between `Add` and `Sync` an address is known and its leaf is lost (`ProofsMatch`) |
| `Census_gaps` | "Load restores the census from disk" (`census_imt.go:504`) | the size on disk counts the empty slots of an imported dump, which have no `idx:rev` key, and `Load` fails (`OpensAgain`) |
| `Census_unlisted` | the same | so it does where an event inserted a leaf before the last `Add` (`OpensAgain`) |
| `Census_reuse` | "This method resets any existing census data before applying events" (`census_imt.go:915`) | `ImportEvents` keeps the tree, and an address comes to have two leaves (`OneLeafEach`) |
| `Census_repeats` | "Pre-validate all addresses don't already exist" (`census_imt.go:160`) | an address that one batch of `AddBulk` names twice gets two leaves (`OneLeafEach`) |
| `MCCensusDump_overflow` | "Returns entries from [offset, min(offset+limit, size))" (`census_imt.go:316`) | none, if `offset + limit` passes the largest int (`RangeListed`) |
| `MCCodec_number` | "For *big.Int values, this results in JSON strings" (`json.go:9`) | it results in numbers, which `Import` with mapFn rounds to a float64 (`StringsSurvive`) |

The passing runs of the census name the behaviours under which the properties
hold; the counterexamples show what others do to them. Beside those, with
`"apply"` or `"doubles"` in `census_store` the census may not open again, for the
same reason as with `"gaps"`; with `"reuse"` or `"repeats"` in `census_truthful`
`DumpFaithful` fails too.

What the properties leave out, since the code does not keep it:

* `Close` of a tree lets go of `t.mu` between its `Sync` and `db.Close`. An
  operation that another goroutine finishes in between is lost, although "Close
  ensures all changes are synced" (`leanimt.go:529`): `CloseDB` happens with
  `dirty` true. What was synced is kept (`CleanIsDurable`).
* `ReadsInRange` and `ProofReturns` except the leaf of a tree of one leaf while a
  writer stores it again, which is what `MCGenerateProof_empty` meets.
* `LinesInOrder` asks for the promised number of lines only if `offset + limit`
  does not pass the largest int.
* The lines of a dump may be of different moments. An address that is removed
  and added again meanwhile may be missing, or, if it was an import that did so,
  be there twice; `StayersListed` is about the others. A dump whose reader goes
  away never ends.
* `CircuitAgrees` says which proofs the circuit refuses: beside those with a zero
  sibling, those with more than 24 siblings, which the voter cannot use inside the
  circuit at all.
* `LeavesSurvive` excepts leaves that a float64 may not hold and that went through
  an Import with mapFn: from 2^53 on they may change, and from 10^21 on, which is
  most leaves of a census, mapFn is given an exponent. Import without mapFn reads
  numbers exactly.
* `DiskIndexComplete` is about whether a census opens. Whether its leaves are then
  under their own addresses is the question of `LeavesKeepOwners`, and the answer is
  that it is not so after a crash that lost leaves: with addresses A and B, `Add(A)`,
  a crash, a restart and `Add(B)` leave index 0 to both, and B's leaf, if it is
  saved, may later come back under A (`Census_crash` shows the first half). An
  `Update` that was not synced likewise leaves the new weight on disk beside a leaf
  with the old one.
* `EventsTakeEffect` says nothing of the event at which a list fails.
* SHA256Hasher and Blake2bHasher hash the bytes of two children without
  separating them: the children 1 and 0 give the same hash as 0 and 1.

`ReopenRestores` speaks of a census whose maps and leaves correspond
(`ProofsMatch`, `IndexesMatch`): after a crash between `Add` and `Sync` they do
not, as said above, and there is nothing to restore.

`ImplementsLeafStore` is a refinement: `LeafStore` has a list of leaves, of
which a number may be appended or one batch replaced in one step, `Save`, and
`Restart`, which goes back to the saved list. Its leaves are `nodes[1]`, which
every operation changes in its first step, or the locals' single leaf in the
moment between `TruncateTop` and `StoreRoot` in a tree of one (`Leaves`).

Each checked property has a variant of the code it fails on, defined as `Bug...`
before the definition it varies: a save that forgets the last leaf or skips
leaves that were saved before, a loop that forgets to halve its start, a left
child that ignores its right sibling, a path bit placed by level, a proof made
without the lock, an import that keeps the old leaves on disk, and so on.

### Bounds

* `MaxSize` 7 in `tree_memory`: depth 3, with levels of 7, 4, 2, 1 nodes and
  all sizes below, so that missing siblings occur on the leaf level, on inner
  levels and on several at once, and every power of two is passed. Batches of
  up to 2, at every offset: a batch that starts left or right in a pair, that
  adds one level, or two (two leaves at size 1), that crosses a power of two.
* `MaxSize` 4 with two leaf values in `tree_disk`: sizes grow past what is on disk
  and, with a restart, go back to it. They never fall below it: no operation
  removes a leaf and `Load` brings back all that were saved. So the loop of
  `cleanupStaleLeaves` (`leanimt.go:581`), which `WriteLeaves` models, has nothing to
  delete as the code stands, and no property here would miss it; `TreeKeepsSaved`
  says so, and its proof that it is so at every size. It would matter to a tree
  that is saved over a longer one, as after an `Import` into the same store.
* One prover and size 6 in `proof_locked` (an inner node without sibling above
  two levels), two values of a leaf and size 3 in `proof_racing`.
* Leaf values are few because no operation branches on them; two tell an old
  leaf from a new one, three an unchanged neighbour from both.
* `census_truthful`: three addresses, three weights and four slots, so that an
  address can be deleted, its slot reused by an insertion with previous weight 0,
  and others stand on both sides. The others have two or three addresses and
  slots; address 0 is one of them, since with weight 0 it packs to an empty slot.
  Batches of up to two.
* `census_dump`: three slots and batches of two lines, so that a dump takes one
  batch and a half, with a full range of batches, ranges below the threshold,
  a negative offset, and one whose end passes an int (`Int64Limit` 8). The
  writers are events, with truthful callers, single adds and updates, and
  imports. Larger batches or censuses repeat these steps.
* `MaxCensusDepth` 2 in `proof_locked`, where proofs have up to three siblings;
  one of the two leaf values is `Zero`.
* `codec`: addresses of 2 bits, weights of 3, bytes of 2: leaves of up to three
  bytes with zero bytes at both ends and in between, and entries one beyond each
  limit; sizes around the powers of ten; floats exact up to 8 and printed with an
  exponent from 24. The proofs need none of these.
* `census_int64`: a weight of twice the size of an `Int64`, which stands for 2^64,
  is the smallest that truncates to zero.

### Fairness

`FairSpec` assumes weak fairness of `Continue`, the steps of the goroutine that
holds `t.mu`: none of them waits for anything. Nothing is assumed of new calls,
of `Sync` or of restarts. `PFairSpec` also assumes strong fairness of each step
of a prover, since three of them wait for the read lock: `sync.RWMutex` blocks
writers that come after a waiting reader, so a reader that waits is let in
before the next writer.

`DumpFairSpec` assumes weak fairness of the ends of the census's loops (lists of
events and participants are finite and the loops wait for nothing) and of
`ReadBatch`, and strong fairness of `LockBatch`, a reader that waits for an
RWMutex. Of the one who reads the pipe nothing is assumed, but in `DumpEnds`,
which says so: it is a reader that reads on.

## Proofs

TLAPS proves every invariant and every action property of the passing runs, and
the refinement, for every value of the constants. The four liveness properties
stay with TLC.

| Module | Theorem | States | Hypothesis |
|---|---|---|---|
| `LeanIMTProofs` | `InductiveInvariant`, `TypeCorrect` | `IInv`, `TypeOK` | |
| | `TreeIsConsistent`, `DiskIsComplete` | `TreeConsistent`, `DiskComplete` | |
| `LeafStoreProofs` | `LevelsGrow` | `LevelsOnlyGrow` | |
| | `CleanTreeIsDurable`, `SavedLeavesStay` | `CleanIsDurable`, `TreeKeepsSaved` | |
| | `TreeImplementsLeafStore` | `ImplementsLeafStore` | |
| `GenerateProofProofs` | `ProofsTyped`, `UnlockedReadsInRange` | `PvTypeOK`, `ReadsInRange` | |
| | `LockedProofsVerify`, `LockedProofsCurrent`, `LockedNoPanic` | `ProofsVerify`, `ProofsCurrent`, `NoPanic` | `OuterLock` |
| | `CircuitComplete` | the circuit accepts what fits | `OuterLock` |
| | `CircuitExact` | `CircuitAgrees`: and nothing else | `OuterLock`, `HashesApart` |
| `CensusProofs` | `TypeCorrect` | `TypeOK` | |
| | `EveryProofMatches` | `ProofsMatch` | `NoRestart`, `NoClashes` |
| | `MapsStayAligned`, `EachVotesOnce`, `DumpsFaithful`, `IndexesStay` | `Aligned`, `OneLeafEach`, `DumpFaithful`, `AddressesKeepIndex` | `Truthful` |
| | `TrueEventsTakeEffect` | `EventsTakeEffect` | no `"liars"`, `SmallWeights` |
| | `TheDiskIsComplete`, `ASyncedCensusComesBack`, `OwnersStay` | `DiskIndexComplete`, `ReopenRestores`, `LeavesKeepOwners` | `Plain` |
| `CensusDumpProofs` | `DumpTyped`, `LinesComeInOrder` | `DumpTypeOK`, `LinesInOrder` | |
| | `DumpsEndWell`, `StayersAreListed` | `NeverCorrupt`, `StayersListed` | `Truthful` |
| `CodecProofs` | `CodecTypeCorrect` | `CodecTypeOK` | |
| | `LeavesAreKept`, `SizesAreKept` | `LeavesSurvive`, `SizesSurvive` | |
| | `PackingsAgree`, `NoOtherPair` | `PackingAgrees`, `PairsToldApart` | |

Beside the hypotheses only the assumptions on the constants are used, which TLC
evaluates in the runs: leaves are nodes, a hash of nodes is a node, the zero
value of a new cell is none (`NodeAssumption`); bounds are numbers; addresses are
numbers and weights are below the limit (`CensusAssumption`); the widths of
`Codec` fit the field, floats are exact below the numbers printed with an exponent
(`CodecAssumption`), and the bytes that `FillBytes` fills hold a field element
(`WidthAssumption`; it would panic otherwise).

### The hypotheses

Each is needed: without it, and for `Truthful` and `Plain` without any one part of
it, TLC finds a property violated.

* `OuterLock`: no operation starts while a proof is being read, as `c.mu` sees
  to in the census. `proof_torn` is the tree without it.
* `HashesApart(me)`: of the hashes that `VerifyProofWith` and the circuit compute for
  the one proof `me`, each can be given a size by which it is larger than what it is
  made from. That is so where no two different pairs among those few have the same
  hash and none is, over any number of steps, its own ingredient: a condition on
  some fifty hashes of one proof, which a hasher of the code meets unless somebody
  has found a collision, and not on the hash function as a whole. Without it the
  circuit could accept by accident. It is part of the formula, at each moment for the
  proofs handed out then. `CircuitComplete` and everything else about proofs needs
  nothing of the kind.
* `NoRestart`: `Env` has neither `"close"` nor `"crash"`; `Census_crash` has.
* `NoClashes`: `Env` has no `"clashes"`; `Census_clash` is the census with them.
* `Truthful`: `NoRestart`, and no `"reuse"`, `"doubles"`, `"clashes"`, `"repeats"` or
  `"liars"`, each of which breaks `Aligned`; and 0 is no
  address, since address 0 with weight 0 is an empty slot and the next insertion
  of an event could take its leaf. Imports with gaps or other roots, failing
  transactions and empty addresses of a dump are allowed.
* `SmallWeights`: weights are below 2^63. `census_int64` is the census without it.
* `Plain`: `Env` has at most `"close"`, `"crash"`, `"import"` and `"repeats"`.
  Events, gaps and doubles, and two participants with one index, leave indexes for
  which there is no key (`Census_unlisted`, `Census_gaps`); after a rejected import, or
  where a transaction may fail, memory and disk differ.

### The inductive invariants

**Trees.** `TreeConsistent` speaks of moments at which the lock is free and says
nothing of a half repaired tree, so it is not inductive. `IInv` adds, for each
operation, which levels are repaired (`Full`), what the others are in relation
to the level below them (`Untouched`: only right parents, perhaps the last one
missing; `RightUpTo`: right on the left of the new nodes; `RightExcept`: right
but for the parents still to be repaired), what the locals hold, and one number
that makes the top come out right: `BitLen[index] = depth - level`, for Insert
of its index and for InsertMany of the last index of the level, so that index 0
and the top level are reached together.

The proof has two layers. The first is about three sequences, a level, the one
below and the one above: what storing one node does to the relations between
them (`PutKeepsRight`, `PutRight` and the lemmas for each algorithm after
them). The second lifts it to trees, one lemma for the start, the loop and the
end of each operation; then one lemma per action says that `IInv` is preserved.
`RebuildSettles` says of `rebuildTree` that what it builds is consistent, which
takes care of restarts. `LeanTreeProofs` holds what is said of the operators:
that the recursion of `BitLen` defines a function, its unfolding, that it grows
by at most one, and what `Put` and `PutAt` do. Induction is over sets of
naturals (`NatSetInduction`, `NatSetStrongInduction`), from the
well-foundedness of `<`.

**Tree and disk.** `CleanIsDurable` says that `Load` would rebuild the tree in
memory, node for node. `Synced` says it of the leaves, and `SettledIsUnique` that
two consistent trees with the same leaves are the same tree, by induction over
the levels: the four incremental algorithms build what `rebuildTree` builds. The
refinement maps the leaves to `nodes[1]`, which each operation changes in its
first step, and the saved list to the keys below `meta:size`: the first steps are
steps of `LeafStore`, all others are stutters, since by `IInv` they store above
the leaves, or, with a tree of one leaf, take it away and put the same one back.

**Provers.** Without the lock `ReadInv` says where a prover may be: its index has a
node on its level, in a tree that grows under it; `PathInRange` is the fact that
starts it and `LevelsOnlyGrow` the one that keeps it. The top level, which
`LevelsOnlyGrow` excepts, is never read in the loop, where the level is below the
depth; it is read as level 0 of a tree of one leaf, which `ReadsInRange` excepts.
Under the caller's lock no writer is between its steps then (`LockedNoPanic`), and
`ProofInv` says that no operation is under way and that the siblings collected so far lead
from the leaf to the node the prover stands on (`Leads`); at the top that is the
root, by `TopIsRoot`. `VerifyProofWith` and the circuit climb by recursive
functions, and `ClimbIsUnique` says that what satisfies the recursion is what
they compute. The circuit also skips zeros: a sibling that is zero, or one cut
off, leaves it at a node that is an ingredient of the root, and so not the root
by `HashesApart`.

**Census.** `TypeOK` needs `ImportIndexed` beside it: in an import every address that
is known has a leaf, also where two share an index, so that the address `EndImport`
writes for an index exists. `ProofsMatch` is inductive with `TypeOK` as long as no
two participants share an index. Its core is `SetEntryMatches`: a step
that writes one leaf and one entry disturbs no other address, since the leaf it
overwrites held a leaf of the same address, and two addresses never pack to the
same leaf (`PackInjective`, from the widths). That an event finds its leaf by
value and not through the maps is why the lemma is about leaves and not about
indexes.

With truthful callers `Sound`, which is `TypeOK`, `ProofsMatch` and `Aligned`, is
inductive: with the maps inverse of each other and unknown leaves empty, the
leaf an event finds by value is the one the maps say (`EventFinds`). One leaf
for each address, indexes that stay, and dumps that rebuild the leaves follow.
`EventDone` says for `EventsTakeEffect` that no other call comes between two
events of a list.

**The disk of the census.** `DiskIndexComplete` is not inductive, since it says
nothing of memory. `Kept` joins the two: the keys cover the indexes of the maps,
agree with them unless the index is `Parted`, hold the weights on record, and
count at least the leaves, those not synced yet included. `Parted` is what a crash
leaves: it loses the leaves of unsynced additions and not their keys, `Load`
brings back their entries, and the next `Add` gives their index to somebody else.
While an import runs the disk is empty and the maps are numbered through
(`Importing`), so its end writes a key for every leaf. `ReopenRestores` follows
because maps that match the leaves have no parted index, and because
`addressIndex` holds the last index of each address (`MapsFollow`), which is the one
`Load` takes. `LeavesKeepOwners` follows from `Kept` too: without parted indexes the
next `Add` takes an index nobody has, the keys it writes are for that index, and
`Sync` saves leaves whose keys are already there.

**Dumps.** `Course` says how many lines the batches so far have written and that
they are the first of the range, whatever the int of `offset + limit` became; it
needs nothing of the census. `Listed` says of everyone who has stayed that the
lines have them at their index and nowhere else; a batch read from a `Sound`
census keeps that, and an index that stays (`IndexKept`) makes the lines of
different moments agree.

**Codec.** `CodecIInv` says what form leaf and size have in each place, as long
as no float64 has stood between the leaf and its origin. Its core is
`DigitsInverse`: the digits of a number stand for it, by induction on the number
over the two recursions, `Digits` from the last digit back and `Number` from the
first digit on (`NumberAppend`). `PackingsAgree` rests on `DivisionUnique`, the
uniqueness of quotient and remainder, and on the packed entries being below the
order of the field. `NoOtherPair` needs that the first digit of a number is not
zero (`FirstDigit`), so that the zeros before it can be told from it
(`PaddedApart`).

### Only model-checked

`OperationEnds`, `ProofReturns`, `WritersGetIn` and `DumpEnds` are liveness, under
fairness, which the provers do not reach. The violations are counterexamples and need no proof.

## Not modelled

* The digests of the hash functions, Poseidon and MiMC7 (library code), and the
  panics of hashers on numbers beyond their field.
* The opening of databases (`NewWithPebble`, metadb, Pebble), logging, error texts.
* `Export` beside writers: it reads the levels without the lock, as
  `GenerateProof` does, and nothing in the repository calls it beside writers.
  `Import` of a matrix that no tree exported: the code takes it as it is and
  promises nothing of it; the empty one makes `Size` panic.
* `Root` and `Size` of the census while an import replaces its tree: they read
  one pointer without the lock.
* Negative weights, see above.

## Plan

1. `LeanTree`, `LeanIMT`, `LeafStore`, `GenerateProof` and their proofs: done.
2. `Census`, `CensusDump`, `Circuit`, `Codec`: done.
3. Proofs of every invariant and action property that a run checks, and of the
   refinement of `LeafStore`: done.
4. Proofs still to be tried: wider hypotheses where the code allows them, above
   all `Plain` with events that are synced before the next `Add`; that a batch of
   events in `Census` arrives at the leaves its list describes.
