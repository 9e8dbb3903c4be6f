# Verification of critbit

TLA+ models, model-checking runs and machine-checked proofs for `critbit`, a
crit-bit tree with lock-free readers and the benchmark that compares it with
other map implementations.

## 1. The system

The repository builds one benchmark program per data structure. `helper.c` is
the program; `helper.h` is the interface each data structure implements
(`init`, `add`, `find`, `del`, `clear`, `info`); one source file per data
structure implements it.

| component | state | operations | interaction |
|---|---|---|---|
| crit-bit tree (`critbit.c`, `critbit_common.h`) | `root->head`, heap of internal nodes and key strings, `wlock`, two reader locks and the pointers `cur_rwlock`, `prev_rwlock` | `critbit_new`, `_insert`, `_delete`, `_get`, `_contains`, `_clear` | called by any number of threads; writers exclude each other with `wlock`, readers take only a read lock and race with every store of the writers |
| map contract (`helper.h`) | a map from strings to pointers | `add`, `find`, `del`, `clear` | implemented by every data structure, used by `helper.c` |
| benchmark (`helper.c`) | loop counters, 32 threads | `main` and its phases, `get_thread` | calls the map; exits when a result is wrong |
| redis dictionary (`redisdict.c`) | two hash tables, rehash index, number of safe iterators | add, replace, delete, find, expand, rehash, iterate, scan, empty | rehashes a bucket in every lookup or update |
| adaptive radix tree (`art.c`) | nodes of 4, 16, 48 and 256 children with compressed paths | insert, delete, search, iterate, prefix iterate, destroy; the map operations | the map operations take a read/write lock |
| uthash adapter (`uthash.c`, `uthash.h`) | elements in a list and in the chains of a bucket array that expands | the map operations over the macros `HASH_FIND`, `HASH_ADD`, `HASH_DEL`, `HASH_ITER` | no lock |
| red-black tree adapter (`bsdtree.c`, `tree.h`) | red-black tree | the map operations, `del` empty | no lock |
| STL and sparsehash adapters (`cc_common.h`, `stl*.cc`, `sparsehash.cc`) | a library container | the map operations | no lock |
| `none.c`, `array.c`, `queue.h` | none, or unused | | |

What is hard here:

* `critbit_get` walks the tree while writers store into it, unlink blocks and
  free them. Safety rests on a grace period built from two reader/writer
  locks: `critbit_delete` unlinks, swaps `cur_rwlock` and `prev_rwlock`, and
  waits for the readers of the old one by taking it for writing.
* `critbit_delete` frees after it has left the critical section, and decides
  there what to free by reading the unlinked node's children.
* `critbit_insert` must find the one slot that keeps the bit positions
  increasing on every path; the positions are computed by byte tricks.
* memory may run out between two allocations of one insertion.
* the benchmark's threads delete and add the same keys without looking at the
  results, and `cleanup` then relies on every key being there.
* `redisdict.c` moves a bucket between two tables in the course of almost every
  call; iterators and scans go on across such calls with positions, pointers and
  cursors taken before.
* `art.c` stores a part of each compressed path and fetches the rest from a leaf;
  nodes change size at four thresholds; bytes are compared as signed chars in one
  node size and as unsigned in the others, and signed ones with unsigned ones past
  the stored part of a path; 48-child nodes get holes.
* the rebalancing of `tree.h` after a removal, and the expansion of `uthash.h`
  inside an add, rearrange everything another list or pointer refers to.
* the small adapters have mistakes of their own: tests the wrong way round, empty
  functions, an uninitialised root, a loop that frees what it goes on to read.

`PROJECT.json` lists the hazards with their lines and the properties aimed at
them.

## 2. Modules

| module | models |
|---|---|
| `Critbit` | the crit-bit tree, its memory and its locks |
| `CritbitBits` | the byte arithmetic that finds the critical bit |
| `MapSpec` | the contract of `helper.h`, as a linearizable map |
| `CritbitMap` | the refinement mapping from `Critbit` to `MapSpec` |
| `Bench` | `helper.c` over an atomic map |
| `RedisDict` | the dictionary of `redisdict.c`: tables, rehashing, iterators, scan |
| `RedisDictMap` | `add`, `find`, `del` and `clear` over it, and the refinement mapping to `MapSpec` |
| `Art` | what the functions of `art.c` compute, as operators on trees |
| `ArtSpec` | an adaptive radix tree in use: insertions, deletions, destroys |
| `RbTree` | the functions `RB_GENERATE` makes, as operators on trees |
| `Uthash` | the macros of `uthash.h` that `uthash.c` uses, as operators on tables |
| `Adapters` | the benchmark linked with `art.c`, `bsdtree.c`, `uthash.c` or a C++ container: composes `Art`, `RbTree` and `Uthash` and compares them with `MapSpec` |
| `MCCritbit`, `MCCritbitBits`, `MCBench`, `MCRedisDict`, `MCRedisDictMap`, `MCArt`, `MCAdapters` | instances for TLC |
| `Iteration` | lemmas about recursive functions on numbers: they satisfy their equations, and what every step keeps holds to the end |
| `CritbitProofs` | lemmas on the shape of a crit-bit tree and what walks over it find; theorems on `Critbit`: types and locks, the tree and its memory, and that it implements `MapSpec` |
| `CritbitBitsProofs` | theorems on `CritbitBits` |
| `BenchProofs` | theorems on `Bench` |
| `RedisDictProofs` | lemmas on the operators of `RedisDict`: what a push, a removal, a moved bucket, a rehashing, an expansion leave in the tables; theorems on `RedisDict`: entries, load, iterators, `dictScan` with lemmas on reversed words; the refinement of `RedisDictMap` |
| `ArtNodes` | lemmas on the nodes of `Art`: what adding, removing, finding and replacing a child does to the children of each kind of node |
| `ArtProofs` | theorems on `ArtSpec` |
| `AdaptersProofs` | the theorem on the table of `Uthash` as `Adapters` uses it |

### Critbit

State. `head`, `node`, `str` and `live` are the heap: `node` and `str` give the
contents of the blocks, `live` the allocated ones. A node's pair `(byte,
otherbits)` is one bit position `pos`; a string block is a key with the value
stored in front of it. A key is its bit string, 0 past its end (`get_direction`
returns 0 there); the only assumption on keys is that two different keys have a
first differing position. `wlock`, `cur`, `prev` and `rd` are the mutex, the two
pointers and the holders of the two read locks. `pc`, `key`, `p`, `slot`, ... are
the threads' locals. `slot` is the code's `void **wherep`, `gslot` its `whereq`,
`made` the node an insertion has allocated.

Actions. One per iteration of a walk and per lock operation or store:

* `critbit_get`: `GetStart` loads `cur_rwlock`, `GetRdLock` locks what was
  loaded, `GetHead` loads `head`, `GetWalk` is an iteration of `find_nearest`,
  `GetCompare` the `strcmp` and the read of the value, `GetUnlock` the return.
* `critbit_insert`: `InsertLock`, `InsertNear` (iterations of `find_nearest`),
  then one of `InsertFirst` (empty tree), `InsertExists`, `InsertNoMem` or
  `InsertAlloc`; `InsertDescend` (iterations of the slot search), `InsertLink`
  (the publishing store), `WriterUnlock`.
* `critbit_delete`: `DeleteLock`, `DeleteWalk`, `DeleteAbsent` or
  `DeleteUnlink`, `DeleteSwap`, `DeleteWait`, `DeleteUnlock`, and outside the
  critical section `DeleteCompare` and `DeleteFree`.
* `critbit_clear` and `critbit_new`: `Clear`, `New`, when no thread is in an
  operation, as in `main`. `critbit_clear` of an empty tree changes nothing.
* `NullRead`, `FreedRead`, `DoubleFree`: undefined behaviour. The program is
  then stopped (`fault`), and `Halted` is its only step.

Reductions. Steps are merged where no other thread can observe the difference:
the two compare-and-swaps of `DeleteSwap` (`prev_rwlock` is read only under
`wlock`), locking and unlocking in `DeleteWait` (readers that come in between
would only be delayed), stores into a block that is not linked yet (`InsertAlloc`
and the first store of `InsertLink`), and the two allocations of an insertion
(nobody else allocates: `wlock` is held). `malloc` fails exactly when the pool of
addresses is used up, returns any free address and so reuses freed ones at once.
Memory is sequentially consistent. The code has full barriers around the store
that links a new node (lines 100 to 102) and after the one that unlinks a node
(144), but none at the two stores to `head`, of the first key (43) and of the NULL
after the last (139): there the model takes the stores to be seen in program
order, as x86 does if the compiler keeps that order. Values are not NULL.

History variables. `map` is the map the completed stores define; `path[k]` the
blocks on the walk for a key of the tree; `seen[t]` the bindings the key of a get
has had since the call; `fresh[t]` tells that the read lock a get took was the
current one at that moment. No guard reads them.

### MapSpec and CritbitMap

`MapSpec` splits every operation into call, effect and return. `add` and `del`
take effect at one moment; `find` returns a binding its key had at some moment
of the call, which is linearizability for an operation on one key. `CritbitMap`
maps the heap to the abstract map with `TreeMap`, the result of walking the tree
for every key, so the refinement compares what the tree holds with what the
operations return. `ImplementsMap` also speaks of `fault`: every step is one of the
map, or none, and leaves `fault` alone, except `EmptyFind`, the find that reads the
head of an empty tree and so passes NULL to `strcmp`.

### CritbitBits

The two loops of `critbit_insert_inplace` (lines 49 to 69) step by step, with
8-bit bytes, and `get_direction`. It justifies the abstraction of `Critbit` from
bytes to bit positions.

### Bench

`main`'s phases over a map whose operations are atomic (what `MapSpec` gives for
`add` and `del`). `Rand` is the sequence of keys `fill_rand` makes after
`srand(RANDOM_SEED)`, assumed to be without repetition. A thread of
`get_threaded` draws any key in every iteration.

### RedisDict and RedisDictMap

State. `d` is `struct dict`: two tables with `size`, `used` and their buckets,
`rehashidx`, `iterators`. An entry is named by its key, a bucket is the sequence
of its entries, newest first. `val` gives the allocated entries and their values,
`can` is `dict_can_resize`, `it` the iterators (`table`, `index`, `entry`,
`next`), `scan.v` the cursor of a scan. The hash function is a constant: any
function from keys to words of `Width` bits. `InitialSize` and `ForceRatio` are
the constants 4 and 5 of the code.

Actions. The code is sequential, so a call is one step, composed of operators
for its parts: `RehashStep` and `RehashOne` (`_dictRehashStep`, a round of
`dictRehash`; `Rehash(d, n)[n]` is the dictionary after `n` rounds), `ExpandIfNeeded`,
`Expand`, `Push`, `Unlink`. `DictNextInChain`, `DictNextBucket` and `DictNextEnd`
are the three outcomes of `dictNext`. `RedisDictMap` wraps `dictAdd`, `dictFind`
and `dictDelete` in calls and returns.

Callers. `Calls` are the functions used, `During` those used while a safe
iterator runs: `May` states the rules of the comments (an unsafe iterator allows
`dictNext` only; a safe one allows updates, and deleting the entry just returned).
A caller does not go on after `dictNext` has returned NULL.

History. `todo`, `got` and `twice` of an iterator, `todo` of the scan: what was
there all the time and is not returned yet, what has been returned. `skewed`: the
scan met a bigger table more than twice as large as the smaller one with a cursor
of a larger table. No guard reads them.

### Art and ArtSpec

A subtree is a value, because no block of it is reachable in two ways:
`recursive_insert(n, ref, ...)`, which updates `*ref`, is an operator whose result
is the new `*ref`. A node is a record with its `kind`, `num` (`num_children`, a
byte that wraps), `plen` and `partial` (the path and its stored part), `keys` and
`children`; 48-child nodes have the key map and the slots of the code, holes
included. A key is a sequence of bytes. The code passes `key[depth]` to
`find_child` also at and past the end of the key: there is the terminating 0, and
then anything (`junk`). The sizes 4, 16, 48, 256, the thresholds 3, 12, 37 and
`MAX_PREFIX_LEN` are constants.

`ArtSpec` has `root`, `size` and the actions `ArtInsert`, `ArtDelete` and
`DestroyArtTree`; what the reading functions answer is compared with the history
variable `map` in every state. `mixed` is history too: a 16-child node has had a
byte that is negative as a char. So is `torn`. Past the stored part of a path
`prefix_mismatch` compares the `unsigned char`s of a leaf with the `char`s of the key
(`art.c`, line 477), so that a byte above 127 differs from itself (`Chars`). A key
that is compared so is misread (`Misreads`); its insertion cuts the path where the
two agree and gives a node two children under one byte. The model makes that
insertion, sets `torn`, and goes on only with `DestroyArtTree`; the properties speak
of trees that are not torn. Keys of which one is a prefix of another are
excluded by `ArtAssumption`: the code then reads past the end of a leaf.

### RbTree, Uthash and Adapters

In `RbTree` a tree is a root and a function from keys to entries with `left`,
`right`, `parent` and `color`. The mirrored halves of the code are one operator
with the side as parameter. In `Uthash` a table has the order of insertion and
the chains as sequences, with `count`, `expand_mult`, `ideal_chain_maxlen`,
`ineff_expands` and `noexpand`; the table without elements stands for
`head == NULL`.

`Adapters` has one action per function and implementation: `ArtAddSearch` and
`ArtAddInsert` (add searches, then inserts), `ArtFind`, `ArtDel`, `ArtClear`,
`BsdAdd`, ... `StlClear`. `impl`, chosen initially, is the object file the
benchmark is linked with; `stl` is `std::map` or `std::unordered_map` and `sparse`
is `google::sparse_hash_map`. What these do is external, and taken from their
documentation: a `sparse_hash_map` asserts in `erase` of a key that is there that
`set_deleted_key` has been called, which `sparsehash.cc` does not, and the build
does not define `NDEBUG` (`SparseDel`). `Call`, `Enter` and `Return` are the call, the lock of
`art.c` and the return; only `art.c` is called by several threads at a time.
`BsdRemove` and `UtRemove` are a caller of the macros `RB_REMOVE` and `HASH_DEL`,
which the adapters never reach. `wild` says that the root of a tree is not valid:
`bsdtree.c` does not initialise it, and the clears of `art.c` and `bsdtree.c`
leave it pointing to freed memory. `fault` is undefined behaviour, after which
the model stops (`Halted`).

`KeepsContract` says that every step is one of the map of `helper.h` and leaves
`fault` alone, or is one of `Deviates` (another result) or `Fails` (no result). These
two name, by operation and by what the map holds, where the adapters leave the
contract; that nothing else does is what is checked.

## 3. Runs

| run | instance | shows |
|---|---|---|
| `critbit_sequential` | one thread, 5 keys (the empty key, two 1-byte keys, two 2-byte keys with a common prefix), 2 values, memory for all | `TypeOK`, `TreeHoldsMap`, `CriticalBits`, `ImplementsMap` |
| `critbit_concurrent` | a reader, an inserting thread, a thread that inserts and deletes, 3 keys, 3 nodes, 3 strings | `GracePeriod`, `NoLeak`, `FreshReaderSafe`, `GetLinearizable`, `FreesOnlyUnlinked` |
| `critbit_progress` | a reader and a thread that inserts and deletes, 3 keys, 2 nodes, fair | `WaitEnds`, `GetEnds` |
| `critbit_stale_reader` | a reader and a thread that inserts and deletes, 2 keys | violation of `NoFreedRead` |
| `critbit_two_deleters` | 2 threads that insert and delete | violation of `DeletersApart` |
| `critbit_bits` | every 1-byte string against 13 strings of at most 2 bytes at the bit boundaries, both ways round | `FindsCriticalBit`, `DirectionIsBit`, `InBounds`, `Terminates` |
| `bench` | 3 threads, 5 iterations, a delete in every second one | `NeverExits`, `MissingIsPending`, `LeavesOnlyZero`, `Finishes` |
| `dict_iterators` | one caller of `add`, `find`, `del`, `clear`, 3 keys (two collide in 4 buckets), tables of 4 and 8 buckets, an iterator, safe or unsafe | `TypeOK`, `OneHome`, `RehashInBounds`, `IteratorExact`, `NextNotFreed`, `IteratorsCounted`, `ImplementsMap` |
| `dict_scan` | every function but the iterators, 3 keys, tables of 1 to 8 buckets, fair | `ScanCompleteUnlessSkewed`, `LoadBounded`, `RehashEnds`, `ScanEnds` |
| `dict_scan_shrink` | a scan while a table of 16 buckets shrinks to 4, 2 keys | violation of `ScanComplete` |
| `art` | 8 keys, 5 of them children of one node and 3 below its sixth child; queries that are shorter and longer than the keys, and one that leaves a path | `SearchExact`, `PathsAgree`, `NodesFit`, `IterExact`, `IterPrefixExact`, `DestroyFreesAll` |
| `adapters` | two threads over `art.c` with 2 keys; one caller of `bsdtree.c` with 10 keys, of `uthash.c` with 5, of each kind of C++ container with 2 | `KeepsContract`, `RbTreeSound` (balance and order), `HashTableSound` (consistency and chain bound) |

Bounds. Three keys give trees with two nodes on a path, so that a node is
unlinked above, at and below a reader, and a sibling can be a node or a string.
One node more than the tree needs lets a writer allocate while a delete still
holds unlinked blocks, and reuse what it frees; with three strings, an insertion
of the third key during a delete runs out of memory after its node was allocated.
In `critbit_progress` two nodes are enough for a walk without end: the node the
reader stands on is released and comes back above the other one, and so on, which
is what happens if `critbit_delete` does not wait (the mutant of `GetEnds`). Bytes in `MCCritbit`
have 2 bits, so that two nodes can test the same byte and different bytes. In
`bench`, three threads can have the same key deleted, and five iterations give
each two deletes. Node and string addresses are interchangeable, so the safety
runs use symmetry on them. `dict_iterators` asks for a table of 7 buckets, which
the code rounds up to 8, and shrinks it to 4 again; two keys that share a bucket
of the small table are in different buckets of the large one. In `dict_scan`,
`InitialSize` and `ForceRatio` are 1 instead of 4 and 5, so that three keys make
the table grow by itself, overfill it while resizing is off, and a scan sees four
sizes.

In `art`, nodes have 3, 4, 5 and 12 children instead of 4, 16, 48 and 256, shrink
at 2, 3 and 4, and store 2 bytes of a path, so that six children take a node
through all sizes and back, with holes. The bytes from 6 on are negative chars.
Without the other keys, 198111 and 198112 have the path 19811, in which the 8 is
past the stored part, so that either of them is misread when it is inserted again;
with another key, the 8 is stored. The keys cut this path within and beyond its
stored part, and the path 19 of either of the two and 192, which is stored in full.
All exceptions the properties name are met. Every key has one value: that an
insertion replaces the value is left to the proof. What comes after the end of a
key is the byte 1, for which a node has a child in some states and none in others.
In `adapters`,
ten keys are the fewest for which a red-black tree gets three black levels, so
that a removal is repaired above its parent; six to ten are added in ascending
order (`Rising`). With one bucket at first and a threshold of 1 instead of 32 and
10, four keys with the same hash make the table give up expanding, and a fifth
has a chain of its own; a table of more than 16 buckets is not added to
(`MaxBuckets`).

Fairness. `critbit_progress` assumes that a thread that can go on with an
operation it has begun does so (weak fairness of `Step(t)`): the scheduler's. It
assumes nothing about who wins the race for `wlock`. `bench` assumes that `main`
and the created threads keep running. `dict_scan`
assumes that the dictionary is looked up again and again ("while it is actively
used") and that a scan that has begun is continued, as its protocol asks.

### Findings

1. **A reader can hold the wrong lock** (`critbit_stale_reader`). `critbit_get`
   loads `cur_rwlock` and locks it afterwards. When a delete swaps the locks in
   between, the reader is not seen by the delete after that one, which frees
   under it. This is why the safety properties speak of *fresh* readers.
2. **Two deletes of sibling keys interfere** (`critbit_two_deleters`). What is
   freed is decided after `wlock` is released, by reading a string that may be
   the tree's. This is why the other concurrent runs have one deleting thread.
3. **A scan can miss an entry when the table shrinks to a quarter or less**
   (`dict_scan_shrink`). `dictScan` visits the expansions of the small table's
   bucket from the cursor's own high bits upwards, but a cursor counts with its
   bits reversed: from 16 to 4 buckets, cursor 9 leads to buckets 9 and 13, and
   5 is never visited. With factors of two the guarantee holds (`dict_scan`).

The passing runs show these as exceptions the properties have to name:

* `uthash.c`: `find` has its test the wrong way round. It returns NULL for a key
  that is there and dereferences NULL for one that is not; `del`, which calls it,
  so never deletes (`Deviates`, `Fails`).
* `bsdtree.c`: `del` returns 0 and does nothing (`Deviates`); `init` leaves the
  root unset; `clear` frees entries whose right descendants `RB_NEXT` still climbs
  through (`Fails`).
* `cc_common.h`: `find` dereferences `end()` for an absent key, and the `del` of
  `sparsehash.cc` aborts for a key that is there (`Fails`).
* `art.c`: past the stored part of a path a byte above 127 of the key is taken to
  differ from the same byte of a leaf (line 477). From three keys that begin with the
  same eleven such bytes and differ in the next, the third is put below a second
  child under one byte and `art_search` does not find it (`torn`, in all six
  properties); `art_iter_prefix` misses every key below a path in which the prefix
  ends after such a byte (`EndsMisread` in `IterPrefixExact`). The benchmark does not
  meet it: its keys have at most ten bytes, and ten are stored.
* `art.c`: iteration is out of order, and `art_minimum` and `art_maximum` are
  wrong, once a 16-child node had a byte above 127 (`IterExact`); `destroy_node`
  leaks children behind holes of a 48-child node (`DestroyFreesAll`);
  `art_iter_prefix` visits keys that do not match in two cases, although `art.h`
  (line 155) promises "a callback for each that matches" (`IterPrefixExact`):
  * `Strays`: it gives up if the first byte of a path differs from the prefix, but
    if a later one does, it goes on below as if there were "a full match"
    (`art.c`, line 879). Where it then meets a leaf the whole prefix is compared, but
    where it ends in the path of a node nothing is: from the keys 11111, 11119 and
    112, the prefix 1211 gets the first two, also if paths are stored in full.
  * `Overruns`: below a path longer than `MAX_PREFIX_LEN`, `prefix_mismatch` goes on
    comparing the prefix with the least key after the path has ended; if the prefix
    ends there, everything below the node is visited.
* `critbit.c`: a get on an empty tree passes NULL to `strcmp`, where `helper.h`
  (line 6) says that it "returns NULL if not exists" (`EmptyFind` in
  `ImplementsMap`).

Read off the code of `redisdict.c`, without a run: under a safe iterator, deleting
the entry after the current one leaves `nextEntry` dangling, and a call of
`dictRehash` makes entries come twice or not at all (both are left out of
`During`); `dictEmpty` under a safe iterator sets `iterators` to 0, its release
makes it -1, and `_dictRehashStep` never moves a bucket again; the fingerprint of an unsafe iterator is never compared; and the
dictionary has no lock, although `get_threaded` looks keys up, which rehashes,
from many threads.

## 4. Proofs

The theorems hold for any sets of threads, keys, values and addresses, whatever
their sizes.

### Crit-bit tree: types and locks (`CritbitProofs`)

Without any condition on the callers:

* `TypesCorrect`. `TypeOK` alone is not inductive: the next pointer of a walk has
  its type only if the thread has a key (`ArgsOK`), and a new node's position only
  if allocated strings have one (`StringsOK`).
* `GracePeriodHolds`. The inductive invariant `LockInv` says that `wlock` and the
  read locks are held exactly by the threads that are inside, that a waiting
  delete waits for the lock that is not current, and that no thread is inside
  when the root is gone. The step that matters is `DeleteSwap`: no other delete
  waits then, so every fresh reader holds the current lock, which becomes the
  awaited one; and `DeleteWait` passes only when none of them is left.

### Crit-bit tree: the tree and its memory (`CritbitProofs`)

Hypothesis `OneDeleter`: at most one thread calls `critbit_delete`; any number
read and insert. Finding 2 is why: with two deleting threads the properties are
false. The phases of the benchmark that `main` runs alone meet the hypothesis;
`get_threaded`, where all 32 threads delete, does not.

| theorem | property |
|---|---|
| `TreeHoldsMapAlways` | `TreeHoldsMap` |
| `CriticalBitsAlways` | `CriticalBits` |
| `NoLeakAlways` | `NoLeak` |
| `FreshReadersSafe` | `FreshReaderSafe` |
| `GetsLinearizable` | `GetLinearizable` |
| `FreesOnlyTheUnlinked` | `FreesOnlyUnlinked` |
| `OnlyReadersFaultHolds` | undefined behaviour begins only in a `critbit_get`, on an empty tree or with a lock that was no longer the current one |
| `DeleterAlone` | `DeletersApart`, where nobody reads |

They follow from one inductive invariant, `Inv`, beside the two above:

* `ShapeInv`: the tree as the paths of its keys. Paths start at the head, follow
  the bits of their key, have ascending positions, share everything above a node
  they meet in, and end in the string of their key; the keys below a node agree
  on all earlier positions, and there are some on both sides of it.
  The lemmas prove that the store of an insertion at the slot it looks for,
  and the splice of a deletion, lead from such a tree to such a tree
  (`InsertionShape`, `DeletionShape`): this is the correctness of the algorithm,
  without threads.
* `HeapInv`: every allocated block is in the tree, or made by one insertion and not
  linked yet, or unlinked by one deletion and not released yet. A store into a
  block that is not linked disturbs nobody, and a block released is in no tree.
* `InsertOK`, `DeleteOK`: where the walk of a writer is, with its slots, and that
  the sibling of an unlinked key is in the tree as long as the delete goes on. It
  is what `DeleteCompare` reads after the critical section; a second deleting
  thread breaks this part.
* `ReaderOK`: a fresh reader is in the tree or on the blocks of a delete that is
  still to wait for it; and as long as its key has been bound all the time it is
  on the path of its key, or on the node unlinked last, from which it comes back
  to that path.
* `RootInv`: without a root there is no tree to lose.

Further lemmas show that walks over a tree of that shape find the map
(`WalksFindMap`) and that `Linked` is the union of the paths. `Walk` and `Reach`
are recursive functions; that they satisfy their equations, and the inductions
over the number of edges, come from the fact that a set of numbers has a least
element (`Iteration`, from `WFMin`).

`CritbitProofs` has one lemma per action. TLC has checked `Inv` as an invariant on
the instances of `critbit_sequential` and `critbit_concurrent`.

### Crit-bit tree: refinement (`CritbitProofs`)

* `TreeImplementsMap`: with one deleting thread, when `malloc` does not fail
  (`MemoryLasts`; a failed add returns 1 like one that finds its key, which the
  map of `helper.h` does not know) and every get holds the lock that was current
  (`AllFresh`, finding 1), `Spec` implements `MapSpec` under the mapping of
  `CritbitMap`. Every step of the tree is one step of the map or none: the store of
  `InsertFirst`, `InsertLink` and `DeleteUnlink` is the effect of an add or del,
  `GetCompare` that of a find. The only step that goes wrong is `EmptyFind`: a reader
  with the current lock that comes to NULL had a key that was not bound all the time
  (`FaultMap`, from `ReaderOK`).
* `ImplementsMapWithoutRaces`: when nobody reads beside the deleting thread, as in
  the phases of the benchmark other than `get_threaded`, readers are always fresh,
  so that hypothesis falls away.

### Crit-bit tree: the critical bit (`CritbitBitsProofs`)

For any two strings of bytes 1 .. 255:

* `BoundsKept`: the comparison reads neither string past its NUL.
* `CriticalBitFound`: the pair of byte and mask is the first bit at which they
  differ, and the nearest string's subtree gets the side of its bit there; the key
  exists only if the strings are equal.
* `DirectionsAreBits`: `get_direction` at the new node is the bit of every string.
* `DifferentStringsDiffer`: such a bit exists for any two different strings, which
  is what `KeyAssumption` of `Critbit` says of its keys.

The invariant of the loops (`LoopInv`) says that the strings agree before
`newbyte`, and that `newotherbits` is what is left of the bits in which the two
bytes differ, with the highest of them, when low ones are cleared. `And`, `Or` and
`Xor` are defined bit by bit; the lemmas say which bits of a byte they leave.

### Benchmark (`BenchProofs`)

For any number of threads and iterations: `BenchTypes`, `BenchNeverExits`,
`BenchMissingIsPending`, `BenchLeavesOnlyZero`. The invariant says for each phase
which keys are bound (`RandInv`, `SeqInv`) and where the threads are (`ThreadInv`).

### Redis dictionary: entries, tables and load (`RedisDictProofs`)

For every hash function, every number of keys and iterators and every sequence of
calls that `May` admits:

| theorem | property | condition |
|---|---|---|
| `TablesHoldEntries` | the invariant `DictInv` below | none |
| `OneHomeAlways` | `OneHome` | none |
| `RehashInBoundsAlways` | `RehashInBounds` | none |
| `TypesAlways` | `TypeOK` | none |
| `LoadBoundedAlways` | `LoadBounded` | no safe iterators: one that stays under way stops the rehashing for as long, and chains then grow |
| `IteratorsCountedAlways` | `IteratorsCounted` | `dictEmpty` is not called while a safe iterator is under way |
| `IteratorExactAlways` | `IteratorExact` | `Quiet`: under a safe iterator no entry but the current one is deleted, and `dictEmpty` and `dictRehash` are not called |
| `NextNotFreedAlways` | `NextNotFreed` | `Quiet` |
| `ScanCompleteAlways` | `ScanCompleteUnlessSkewed` | none beyond the one in its name (finding 3) |
| `DictImplementsMap` | `ImplementsMap` | none |

The conditions are the ones under which the runs check the properties; without
them the properties are false (section 3, after the findings).

* `DictInv`. The keys in the two tables are disjoint and are the allocated
  entries; each is in the bucket of its hash, once; `used` counts them; a table
  that is not being replaced is the only one; of a table that is, the buckets in
  front of `rehashidx` are empty. The lemmas prove
  this for each operator: that the loop of `dictRehash` finds a bucket
  within the table because `used` is exact (`NextBucketOK`), that pushing the
  entries of a chain one by one onto the new table keeps every count
  (`PushAllOK`), that `n` rounds keep everything (by induction, from `Iteration`).
* Load. `LoadBounded` speaks of tables that are not being replaced; the invariant
  `Load` has to say why a table is not overfull at the moment the rehashing ends:
  while it goes on, the entries of the new table and twice those of the old one
  fit twice in the new one, because every addition moves at least one bucket.
* Iterators. `IterInv` is the form of an iterator, `ExactInv` says for one that
  has returned an entry that the entries it must still return are in front of it:
  `nextEntry` and what follows it in the chain, the buckets above `index`, and the
  new table while the old one is being walked; and nothing it has returned is. It is
  inductive because every other call made meanwhile is `Calm`: with a safe
  iterator counted no bucket moves, an expansion adds an empty table, an addition
  goes to the front of a chain behind which the iterator is or to the new table,
  and the deleted entry is the one returned last.

### Redis dictionary: scan (`RedisDictProofs`)

`ScanInv`: an entry still to be returned has a reversed hash that is not below the
reversed cursor. It is the argument the comment of `dictScan` sketches: a cursor
counts with its bits reversed, so that the buckets of all sizes that it has
visited are the prefixes of the numbers it has passed. The lemmas on words say
what `rev` does (`RevPrefix`, `RevRev`), that the next cursor is the reverse of the
least number with a larger prefix (`NextCursorRev`), that the entries between the two
are in the bucket that is visited (`BucketCovers`), and that with a larger table of
twice the size its two buckets are (`TwiceCovers`).

### Redis dictionary: refinement

`DictImplementsMap`: what `dictFind` finds (`Holds`) is the map of `helper.h` after
every call of `add`, `find`, `del` and `clear`, whatever is rehashed, resized or
iterated over. `CallInv` says that the call under way has its arguments;
`HoldsVal` gets the map from `DictInv`.

### Adaptive radix tree (`ArtNodes`, `ArtProofs`)

For any set of keys of which none is a prefix of another, any sizes and thresholds
in the order of the code's (`ArtAssumption`), and whatever the bytes past the end
of a key are, for trees that are not torn:

| theorem | property |
|---|---|
| `SearchAlwaysExact` | `SearchExact` |
| `PathsAlwaysAgree` | `PathsAgree` |
| `NodesAlwaysFit` | `NodesFit` |
| `DestroyAlwaysFreesAll` | `DestroyFreesAll` |
| `IterAlwaysExact` | `IterExact` |
| `IterPrefixAlwaysExact` | `IterPrefixExact` |
| `PlainKeysNeverTear` | a tree is never torn, if no key has a byte above 127 after its first `MAX_PREFIX_LEN`, as those of `helper.c`: for such keys the others hold without the exception |

The inductive invariant is `torn \/ ArtInv`. `ArtInv` says that `root` is a tree whose leaves are exactly
those of `map`. "A tree at depth `d` with the leaves `L`", `Good(n, d, L)`, is a leaf
alone, or a node of the right size whose path is common to the keys of `L`, stored
as far as it is, and in which the child of every byte is a tree, one byte behind the
path, with the leaves that have that byte. It is defined as membership in some set
of triples that is closed in this way, because a definition by recursion over a tree
would need an induction over data; TLC cannot evaluate it, but its consequences
`PathsAgree`, `NodesFit` and `SearchExact` are what TLC checks.

* `ArtNodes` has the arguments about one node. `add_child` and `remove_child` give
  a node in which one child is added or removed and all others are found as before
  (`Added`, `Removed`), for each of the four kinds, when the node changes its kind,
  with the holes of 48-child nodes and with a `num_children` that wraps at 256.
* The loops of `art_search`, `recursive_insert` and `recursive_delete` build ways
  down the tree (`Chain`). Every step of a way goes at least a byte deeper and keeps
  the leaves that can be the key's, so that they have ended after `MaxLen` steps.
* Where `recursive_insert` ends, it replaces a leaf, splits a leaf or a path, or adds
  a child, and a tree with the new leaf stands there (`InsertHereOK`); where
  `recursive_delete` ends, a child is removed, and a node with one child left is
  merged with it (`DeleteHereInner`). That the merged path is right although only its first
  `MaxPrefix` bytes are stored is `JoinedPath`; that a split finds the true place,
  with stored bytes or those of a leaf, if the key is not misread, is
  `PrefixMismatchIs` with `NotMisread`. A way with a changed
  end is again a tree, up to the root (`Updated`).
* Optimistic search: `art_search` skips the part of a path that is not stored. It
  is right because no key is a prefix of another, and because the leaf is compared
  in full.
* Iteration: `recursive_iter` replaces a node by its children in the order of the
  slots, so that the leaves of one child stay together (`Row`, `Spreads`); after
  `MaxLen` steps only leaves are left, each once (`IterOK`). For their order the
  invariant is `IterInv`: `ArtInv`, `size` counts the keys of `map` (`Counts`), and
  as long as `mixed` is false every node is `Tidy`: the bytes of a 4-child or
  16-child node rise, or it has a negative byte, which `~Mixes(root)` excludes. The
  second case is needed because an insertion may make such a node anywhere, and the
  invariant has to survive until `mixed` records it. `add_child`,
  `remove_child`, splits and merges keep a node tidy (`TidyInsert`, `TidyDelete`).
* `art_iter_prefix` builds a way like the others. If the prefix leaves no path after
  its first byte, or if some key matches it, it agrees with all keys below every
  place of the way, and the keys that match stay below (`PrefixAgrees`); at the end
  of the way that leaves four cases (`GivenLeaf`, `GivenHere`, `GivenPath`,
  `GivenNone`). The exceptions of `IterPrefixExact` are those the proof needs (`EndsMisread` where
  prefix_mismatch stops short of the end of the prefix, `OnwardAgrees`, `EndsMatch`);
  with `Overruns` alone the proof does not go through, which is how `Strays` was
  found.

### uthash (`AdaptersProofs`)

`HashTableStaysSound`: for any hash function, keys, initial number of buckets and
threshold, the table of `uthash.c` passes `HASH_FSCK`, its two lists have the same
elements, each in the bucket of its hash, no chain is longer than the bound of
`HashChains`, and all of it holds through any expansions, deletions and clears.
The inductive invariant `HashInv` adds the types of the table, that the elements of
the table are distinct and that the elements of all buckets together are those of
the list. The lemma that takes most work is `ExpandOK`: bucket `b` of twice as many
gets the elements of the old bucket `b % num` that belong there, and those are all
(a hash modulo `2 * num` is a hash modulo `num`, modulo `num`).

### Assumptions, and what is only model-checked

Assumptions: `KeyAssumption`, `AddressAssumption` (`Critbit`), `BenchAssumption`
(`Bench`), `DictAssumption` (`RedisDict`: finitely many keys, of which twice as many
fit in a word, a hash that is a word, sizes that are at most the largest power of
two), `ArtAssumption` (`ArtSpec`: the order of the sizes and thresholds, keys without
the byte 0, none a prefix of another); TLC evaluates them in the runs. That
twice the number of entries is a word is what keeps the doubling of a table from
overflowing; entries take more than two bytes of memory each.

Only model-checked: liveness (`WaitEnds`, `GetEnds`, `Terminates`, `Finishes`,
`RehashEnds`, `ScanEnds`: out of the prover's reach), and the red-black tree:
`RbTreeSound`, and `KeepsContract`, which depends on it. Every clause of
`RbTreeSound` is about walks along the pointers of a tree that rotations rearrange.

## 5. Not modelled

`info` and `fill_depth` (they only read and print), timing and output of the
benchmark, weak memory, values that are NULL; of `redisdict.c`, what the hash
functions compute, the copying and destruction of keys and values, the
fingerprint, and failing allocations, which it does not check for; of `art.c`,
callbacks that stop an iteration, failing allocations and keys that are prefixes
of others; of `uthash.h`, the hash functions, the Bloom filter and the macros
`HASH_SRT`, `HASH_SELECT` and `HASH_CLEAR`, which nothing uses; the splay trees of
`tree.h`, which nothing uses; threads over the data structures without a lock,
which are data races. `none.c` does nothing, `array.c` is not built, `queue.h` is
not used.

## 6. Plan

Done: `Critbit`, `CritbitBits`, `MapSpec`, `Bench`, `RedisDict`, `Art`, `RbTree`,
`Uthash`, `Adapters`, and the proofs of section 4. Left: proofs about `RbTree`.
