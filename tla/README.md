# A verification project for the LSM tree engine

TLA+ models of the storage engine under `src/`: the skip list, the memtable,
the engine that flushes it into SSTs, the blocks, the SST builder and its Bloom
filter, the iterators that merge tables, the block cache, the transactions, the
write-ahead log and the Redis commands on top. TLC checks each model on small
instances; what the skip list, the memtable, the engine over it, the walks over
the tables, the block cache, the transactions, the log, the SST builder with its
filter and searches, and the Redis counters, lists, hashes and sorted sets
promise is also proved with TLAPS for every number of threads, keys, values and
calls.

Paths below are relative to the repository (`src/src/engine/engine.cpp` is the
file `src/engine/engine.cpp` of the code base); line numbers are those of the
modelled commit.

## 1. The system

    server (RESP over TCP) -> RedisWrapper -> LSMEngine -> Memtable -> SkipList
                                   LSM facade --^   |
                          TranManager, WAL          +-> SST -> Block, BlockCache, Bloom, FileObj

An application talks to `LSM` or, over a socket, to the Redis-like server. Both
end in `LSMEngine`. Writes go into the memtable, which is frozen and written
out as an SST of sorted blocks when a threshold is reached; reads ask the
memtable and then the SSTs.

### Components

**SkipList** (`skiplist.cpp`, `skiplist.h`). State: nodes with `key_`,
`value_`, `tranc_id_`, vectors `forward` and `backward`, `current_level`,
`size_bytes`. Operations: `put`, `get`, `remove`, `clear`, `flush`, `begin`,
`begin_preffix`, `end_preffix`, `iters_monotony_predicate`. No lock of its own:
the memtable guards it. Hard: random heights, links on several levels in both
directions, several versions of a key, a range query that starts in the middle
and must reach both ends, a byte counter kept by differences. Correct when it
is a sorted map of versions and each level is a sorted part of the one below.

**Memtable** (`memtable.cpp`). State: `current_table`, `frozen_tables` (newest
first), `frozen_bytes`, locks `cur_mtx` and `frozen_mtx`. Operations: `put`,
`put_batch`, `remove`, `remove_batch`, `get`, `get_batch`, `frozen_cur_table`,
`flush_last`, `clear`, `get_cur_size`, `get_frozen_size`, `get_total_size`,
and the iterators. Called by all the threads at once. Hard: two locks, taken
together and apart; a table on its way from active to frozen to SST while
readers look; a builder that throws after the table has been popped. Correct
when no write is lost or brought back, a reader sees one state of memory, and
the byte counts are exact (they decide about flushing).

**LSMEngine** (`engine.cpp` 1-384). State: `memtable`, `level_sst_ids`,
`ssts`, `ssts_mtx`, `data_dir`, `block_cache`. Operations: `put`, `put_batch`,
`get`, `remove`, `remove_batch`, `clear`, `flush`, `full_compact`
and its helpers, `lsm_iters_monotony_predicate`, `begin`, `end`, constructor,
destructor. Hard: threads that write trigger flushes, which touch the index
with no lock; the limit of level 0; draining in the destructor; opening a
directory again. Correct when every entry is in the memtable or a reachable
SST, newer data comes before older, memory and level 0 stay bounded, and the
destructor leaves nothing behind.

**SSTBuilder and SST** (`sst.cpp`). The builder keeps the block at hand, the
finished blocks, their first and last keys, the bloom filter and the range of
transaction ids; `add`, `finish_block`, `build`. An SST keeps the meta entries
and the file; `open`, `read_block`, `find_block_idx`, `get`, `begin`, `end`,
`get_tranc_id_range`. Hard: block boundaries between the versions of one key,
entries that no block takes, readers who share one file stream. Correct when
an SST holds the entries it was given and a reader finds each in the one block
it looks into.

**Block** (`block.cpp`, `blockmeta.cpp`, `block_iterator.cpp`). State: `data_`,
`offsets`, `capacity`. `add_entry`, `encode`, `decode`, `get_idx_binary`,
`adjust_idx_by_tranc_id`, `get_monotony_predicate_iters`. Hard: binary searches
at the ends of the block, 16-bit offsets.

**BlockCache** (`block_cache.cpp`). State: `cache_list_less_k`,
`cache_list_greater_k`, `cache_map_`, hit counters, `mutex_`. `get`, `put`,
private `update_access_count`. Hard: an entry moves between the two lists at
its k-th use and eviction takes from one or the other; readers race between
miss and put. Correct when map and lists agree, the policy is LRU-K, and a
cached block is the one of the file.

**Merging iterators** (`iterator.cpp`, `two_merge_iterator.cpp`,
`concat_iterator.cpp`, `sst_iterator.cpp`). A heap, a merge of two iterators
and a concatenation. Sequential. Hard: versions of a key from several tables,
an order of the heap that contradicts itself, what is invisible beside what is
deleted, the end of a block. Correct when a walk yields each key once, in
order, with the version that `get` finds.

**Bloom filter** (`bloom_filter.cpp`). A function of the keys added, and its
encoding in the file of an SST. Correct when it never denies a key it was given,
also after a trip through the file.

**TranContext, TranManager** (`transaction.cpp`). State: `temp_map_`,
`read_map_`, `rollback_map_`, `operations_`, the isolation level of a context; the
manager has `next_tranc_id_`, its mutex and a file of three numbers. `put`,
`get`, `remove`, `commit`, `abort`, `new_tranc`, the constructor and destructor
of the manager. Hard: isolation levels, validation while others write,
ids across restarts and crashes. Correct when ids are unique, reads repeatable
where the level says so, and a commit that validates has no conflict.

**WAL, Record** (`wal.cpp`, `record.cpp`). A buffer and the files `wal.0`,
`wal.1`, ... of a directory. `log`, `reset_file_`, `recover`. (The cleaner
thread is a TODO.) Hard: a new file that does not open, a crash between records
or in one, files of an earlier run. Correct when the files of a run and the
buffer hold what was logged, once and in order.

**LSM** (`engine.cpp` 386-430). The facade with transactions. Its constructor
always throws at this commit, see section 7.

**RedisWrapper** (`redis_wrapper.cpp`). State: all of it in the engine (a key,
a key with the time of expiry, one key per field or element), and `redis_mtx`.
Commands on strings, hashes, sorted sets, lists and sets, with lazy expiry.
Hard: read-modify-write under a lock that is given back and taken again, an
expiry seen under one lock and acted on under the next. Correct when each
command is atomic, no element is lost, and deletion takes what has expired.

**Server** (`server/src/server.cpp`, `handler.cpp`). One event loop: parses
RESP requests, calls the wrapper, sends the reply. Stateless but for buffers.

**File access** (`file.cpp`, `std_file.cpp`, `mmap_file.cpp`). Create, open,
read, append. `MmapFile` is not used.

### How they interact

Calls, from top to bottom; no callbacks and no messages. The engine hands the
memtable's byte counts to its thresholds; `flush_last` hands the oldest table
to an `SSTBuilder`; SSTs share the engine's block cache. There is no background
thread. What is shared between threads is: the
memtable (two locks), the engine's two containers (a lock that writers do not
take), the block cache (one lock), the file stream of each SST (none), the
manager's next id (one lock), the log (one lock) and the engine below the Redis
commands (one lock). A commit takes the two locks of the memtable itself.

## 2. Modules

| module | models | of the code |
| --- | --- | --- |
| `SharedMutex` | `std::shared_mutex` | external |
| `VersionMap` | what a skip list promises: a map of versions | abstract |
| `SkipList` | nodes, links, searches | `skiplist.cpp` |
| `SkipListProof` | its theorems, and that it implements `VersionMap` | |
| `Memtable` | the memtable under threads | `memtable.cpp` |
| `LSMEngine` | the engine over `Memtable` | `engine.cpp` |
| `EngineProof` | the theorems of these two | |
| `SSTBuilder` | building an SST, and block searches | `sst.cpp`, `block.cpp` |
| `BloomFilter` | the filter, for any hash functions | `bloom_filter.cpp` |
| `SSTProof` | the theorems of these two | |
| `Scan` | walks of a heap over the tables | `iterator.cpp`, `memtable.cpp`, `engine.cpp` |
| `LruK` | the replacement policy | abstract |
| `BlockCache` | the cache and the readers that share it | `block_cache.cpp`, `sst.cpp` |
| `CacheProof` | its theorems, and that it implements `LruK` | |
| `Transaction` | contexts and their manager | `transaction.cpp` |
| `VersionsProof` | the theorems of `Transaction` and of `Scan`, which both stand on `VersionMap` | |
| `Wal` | the log and its files | `wal.cpp` |
| `WalProof` | its theorem | |
| `RedisWrapper` | counters, lists, sets, expiry | `redis_wrapper.cpp` |
| `RedisCollections` | hashes and sorted sets, on top of it | `redis_wrapper.cpp` |
| `RedisProof` | the theorems of these two | |
| `ListLemmas` | lemmas about lists that the proofs share | |
| `MC...` | values for TLC | |

### Memtable

A skip list is a function from versions `<<key, tranc_id>>` to values with its
byte count (`TablePut`, `TableGet`); `SkipList` checks that the linked structure
behaves so. A call is a walk of `pc[t]` over labels; between two labels another
thread may step. The labels are at the lock operations and, inside a lock, at
each key of a batch and between looking into the active and the frozen tables.
`Freeze`, `Clear` and `FlushFreeze` take and release `cur_mtx` within one
step: `frozen_mtx` is held and nobody can see the middle. `FlushBuild` and `FlushFail` are the two outcomes of `build` on the popped table.
`ret[t]` is the label a finished call returns to, so that the engine can call
the memtable without a second copy of it.

History variables: `store` is what was last written to each version, `flushed`
what the SSTs built so far hold, `snap` what a reader is owed at the moment it
has both locks, `build_failed` that a build threw entries away.

### LSMEngine

Extends `Memtable`. Each of its `Mem...` actions is a memtable action with the
engine's effect beside it: `MemFlushBuild` creates the file. A flush is
`FlushSize` (the total), `FlushNone`/`FlushCompact`/`FlushId` (the checks and
the id), the memtable's flush, then `IndexStore` and `IndexPush`, because the code
holds no lock around them. `MemPut` writes through the node a reader still
points to after `get` has unlocked (`node`, with `live` while it is in the
active table): the reader may see the new value or, in the middle of the
string assignment, anything (`Garbage`). `full_compact` is modelled by what it
does at this commit when level 0 is full, which is to throw before it changes
anything. `Reopen` is the constructor on the directory left behind. An SST is a
table with the id of its file; `Absent` and `None`, for no file and no answer, are no
SST and no version with a value (`SstAssumption`), so that C++'s types tell them apart.
`GetFindsPut` is about a get that ends in memory or finds level 0 empty, which are
the gets that answer at this commit: what was put and is not covered by a later
clear is the answer, of the versions the call may see. When level 0 has SSTs, the
versions it may see are those in memory (`InMemory`), since a get that goes on to an
SST is `GetSst`, with what the inverted test at `block.cpp`:287 makes of an id
(`AnyVersion`).

### SkipList

A node is named by its version, so pointers are versions. `put` links a new
node with any height the code can draw (`new_level` in `1 .. MaxLevel`);
`remove`, `clear`, `get`, `flush` and `iters_monotony_predicate` follow the
links as the code does. `flush` and the queries are operators: they change nothing.
`remove` of a key that is not there goes on with the node of the next larger key:
the forward links, the values and the map stay, the nodes behind that node point
back past it, and its bytes are taken off `size_bytes`, which may go below zero here
where the code wraps. When there is no larger key it follows a null pointer
(`remove_crashes`: the process dies, the next one has an empty list). The history
`astray` says that an absent key was removed since the list was last empty; what is
about backward links or bytes holds until then, what is about forward links always.

### SSTBuilder

Entries are `<<key, tranc_id, length>>` in the order of the skip list. `add`
is two actions by whether the block at hand takes the entry; the one that does
not finishes the block and tries the next. `Loop` is the loop of every binary
search of the code: it goes right, left or stops as a function of the middle index says,
and only in this function do the searches differ. As many rounds as there are places
are enough for it to end. The searches are operators checked on every SST the builder
can produce: `find_block_idx`,
`adjust_idx_by_tranc_id`, `get_monotony_predicate`, and
`sst_iters_monotony_predicate`, the range query of an SST: it puts together what
`get_monotony_predicate` finds in each block, and its result is a pair of
positions (block, index), of which the second may be a null iterator.
`get_tranc_id_at` uses a length of which six bytes are not initialised, so an id is
read from anywhere: the operator is the set of all outcomes of the comparisons
`id <= tranc_id` in a block, and `adjust_idx_by_tranc_id` takes one of them. Without a
transaction (id 0) no id is read. `add`
fills the Bloom filter, `build` encodes it, and `get` asks the decoded one before
it searches, so that `FindsBlock` goes through the filter.

### BloomFilter

Keys, two functions from keys to words, and the sizes are constants; `hash` is
their combination modulo the word and the number of bits, in the unsigned
arithmetic of the code. `encode` and `decode` are the bytes of bits: the last
byte may be short.

### Scan

The tables are maps of versions (`VersionMap`, which `SkipList` implements): the
active one, frozen ones and SSTs. A walk is what an iterator is built from
(`Begin`, `InRange`, `SstRange`) and the steps of `HeapIterator`. Its
`operator>` on equal keys is `After`: a larger id goes first, or a newer
table. For two items that disagree in both, each is after the other, so that a heap
orders nothing; `Tops` is then any of the items. The walk copies its items
under the locks of the memtable, so that no writer meets it. The test
`a == tr > tr` of `iter_monotony_predicate` compares `a` with the Boolean 0,
the result of the memtable is tested the wrong way round in the engine, and
an SST yields copies of its first entry: the operators say so, since that is
what the code does.

### BlockCache

`get` and `put` hold the cache's mutex throughout and are atomic. `read_block`
is the protocol around them: `get_miss`, the calls on the stream, `put`. The readers of an
SST share its `std::fstream` and take no lock, so each call on it is a step: `size` seeks to
the end (`size_seekg`) and asks where that is (`size_tellg`), `read` seeks to the block
(`read_seekg`) and reads from where the stream is now (`read_bytes`). The hash of a block
covers its own bytes only, so a read that another reader has sent astray decodes to
whatever whole block of the same size begins there (`Decoded`); other bytes make `decode`
throw. A read past the end throws and leaves `failbit` set, after which every read of that SST
throws (`read_fails`). A block is named by its key, so that the model tells whose block is
cached. The histories `crossed` and `suspect` say which readers had the stream moved
between their seek and their read, and which keys were last put by one of those.
A list of the code hands out iterators, and `erase` takes one: in the models,
`LruK` and `BlockCache` erase at a position of the list (`Position`).

### RedisWrapper

The engine below is a map, which it is until its memtable is first flushed.
A write command is `acquire` (take the lock, read) and its own action (write,
release), except `SREM`, whose two writes and the reads before them are steps of their
own (`srem_size`, `srem_put`, `srem_remove`), since `SADD` may come between. List and set
commands begin with `check`: the expiry under the
shared lock, then `unlock` or `unlock_clean`, then `clean` under the exclusive
lock. `sadd` runs outside any lock, as the code does. `RedisCollections` adds
the keys whose values are not of these kinds (`Other`) and the commands on
them: `hset` and `hdel` are two steps, `zadd`, `zincrby` and `zrem` read, remove
and put in steps of their own. The two batches of `zadd` are sets of pairs: `changed` are
those whose score is a new one, and a batch (`PutBatch`) leaves under each key what the
last pair that names it puts there. A score is a number with leading zeros, since
scores are compared as texts but padded to one width as names of keys. It is counted in
halves, so that a client can give 1.5: `ZINCRBY` adds the whole part of the old score
(`stol`) to the increment (`stod`) and keeps the result in a `uint64_t`, which cuts off
the fraction and wraps what is below zero (`Whole`, `Raised`); a score from 2^63 on makes
`stol` throw (`TooLong`, `zincrby_throws`). The
histories `hash` and `zset` are what the commands that returned promised; a score that has
gone through a rounded or wrapped sum is `Rounded` there, until a `ZADD` or `ZREM`.

### Transaction

The engine is one map of versions under one lock (`mem_mtx`, for the two of
the memtable, which a commit takes together). `new_tranc` is three steps, since
`next_tranc_id_` is read and written with `mutex_` held. `put`, `remove` and
`get` are an action for each way they go: to the context's own maps or to the
engine. `commit` takes the lock, `validate` looks at one key, `validated` goes
on to the log, where `write_to_wal` dies at the null pointer `wal_`. The
destructor writes its three numbers one by one, and a crash may come at
any moment. `level` is any of the four levels or some other number, since the
constructor does not set it. Histories: `given` are the ids since the last
crash, `sees` what a context should see of a key, `reply` its last answer.

### Wal

Records are numbers in the order of `log`. A file is what has been appended to
it. `append` is one record, so that a crash can come between two; it may leave a
`Torn` one. `reset_file_throws` is a new file that does not open, after which
the path has moved on and the stream has not. The buffer of the constructor, its
truncation of `wal.0` only, and what an earlier run left in the directory are
in the model.

## 3. Runs

A passing run checks at most one type invariant and otherwise properties that take
several steps, often of several threads, to break.

| run | what it shows | size |
| --- | --- | --- |
| `memtable` | `Exclusion`, `ReadsAreSnapshots`, `NoEntryLost`, `BytesExact` | 2 threads, 5 calls, 2 keys, ids 0-1 |
| `memtable_versions` | violated: `NewestVersionWins` | 3 threads, ids 0-2, 4 calls |
| `engine` | `EngineNoEntryLost`, `IndexSound`, `MemoryBounded`, `ClosedIsDrained`, `GetFindsPut` | a writer and a reader, 6 calls |
| `engine_writers` | `Level0Bounded`, `EngineCallsReturn` | two writers, fair, 3 calls |
| `skiplist` | `WellLinked`, `GetsNewest`, `RangeExact`, `SizeExact`, refinement of `VersionMap` | 3 keys, 2 ids, 3 levels, 3 nodes, 1 removal |
| `sstbuilder` | `KeepsEntries`, `FindsBlock`, `BlockBounded`, `AdjustsExactly`, `RangeExact` | 3 keys, 3 ids, 6 entries |
| `blockcache` | `ListsMatchMap`, `Coherent`, refinement of `LruK` | 2 readers, 2 SSTs with 3 blocks, capacity 2, k 3, 7 reads |
| `redis` | `CounterExact`, `ListConserved`, `CommandsReturn` | 2 threads, 3 keys, 4 calls |
| `redis_collections` | `HashExact`, `ScoreNamesMember`, `ScoreExact` | 2 threads, a hash, a sorted set, a text, 3 calls |
| `transaction` | `IdsUnique`, `RepeatableReads`, `CommitUnconflicted` | 2 threads, 2 keys, ids 1-3, 4 calls, crashes |
| `scan` | `ScanAscends`, `ScanAgreesWithGet` | 2 keys, ids 0-2, up to 5 versions, 3 tables |
| `wal` | `LogExact` | 2 threads, 9 records, 5 files, crashes |
### Bounds, and why they are enough

- `MaxCalls` (memtable, engine, Redis) and `MaxReads` (cache) bound the calls
  of a behaviour, all interleavings included. Five memtable calls are enough
  for put, freeze, put, freeze, flush, or for a get between any two steps of a
  flush with a batch before it; six engine calls fill level 0 twice, clear it
  and fill it again.
- `Limit = 21` with keys and values of 11 and 13 bytes flushes at the second
  put; `Ratio = 1` (`LSM_SST_LEVEL_RATIO`, 16 in `const.h`) makes level 0 full
  at two SSTs. `MaxId` is not a guard: `EngineTypeOK` says ids never exceed it
  in these runs, and TLC would report it if they did.
- `MaxTranc = 1` in the memtable run gives the id 0 (no transaction) and one
  other; versions of one key interact pairwise. The engine runs use id 0, the
  only one its callers outside of transactions pass.
- The skip list has three nodes at most (`MaxNodes`) of six versions, each of
  height 1 to 3: a node has a left and a right neighbour on every level, and a
  search can begin in the middle. `MaxRemoved` bounds the removals between two
  clears: `remove` leaves `size_bytes` wrong, which would grow for ever. One removal
  meets every list of three nodes, with a key that is there, one that is not and one
  behind the last; the theorems are about any number.
- A block of 60 bytes takes one to four of the entries; lengths 0, 20
  and 60 are one that always fits, one that fills, one that no block takes.
  Six entries give up to four blocks and all three versions of a key. The run
  sets `CHECK_DEADLOCK FALSE` since a builder stops when it has built.
- The cache holds 2 of 3 blocks with k = 3: enough for each list to be empty,
  mixed and full when an eviction comes. Two of the blocks are of one SST and of one
  size, which can be taken for each other; a third read in that file ends within it or
  beyond its end, depending on where the stream is.
- `MaxNow` bounds the clock of the Redis models; `EXPIRE` sets the current time
  and the key is expired one tick later.
- Collections: three calls of two threads, a hash with two fields, a sorted set
  with two members and the scores 1, 01 and 1.5, increments of 1 and -1.5, `MaxPairs`
  pairs in a `ZADD`. `Word` is 64 in place of 2^64, far above and so far apart from the
  scores that three calls make, as 2^64 is.
  `Repeats = FALSE`: with a member twice in one `ZADD` the old score stays listed
  (section 6). A key of plain text stands for a client that mistakes a type.
- Transactions: two threads, four calls, two keys, ids up to `MaxTranc = 3`, so
  that one thread can have an older id and one a newer one than a write.
- Scan: two keys, ids 0 to 2, and `MaxSize = 5`: five versions in the active
  table, four in two tables or three in three. Three versions of a key in two
  tables are needed for an order that contradicts itself. A walk ends where it
  ends: that stutter is in `Next`.
- Wal: nine records in batches of up to two, a buffer of two, files of up to two
  records and a batch, five files: a second run meets files of the first.
- The Bloom filter of the `sstbuilder` run has few bits, so that keys collide.
- `MCTransaction` sets `CHECK_DEADLOCK FALSE`: a manager whose file is too short
  cannot start again, and then nothing moves.

`MCMemtable`, `MCTransaction`, `MCRedisCollections` and `MCBlockCache` use the symmetry of
threads and of values that nothing orders, which is sound there since no property of those
runs is a liveness property (`ImplementsLru` is an initial condition and a step relation
that name no reader).

### Mutants

Each property of a passing run has a mutant in the module of the code it is
about: an operator defined before the mapped definition, with a comment
that says what differs (a dropped guard, a missing reset, a lock in the
wrong mode, an off-by-one). With the mutant in place the run reports the
property violated.

## 4. Fairness

`EngineFairSpec` and the `FairSpec` of the Redis model assume weak fairness of the
steps of each thread, not of calls: a thread that can take the next step of its
call takes it. The operating system schedules runnable threads and a
`std::shared_mutex` that is free is given to a waiter, and a holder's steps
inside a lock are never blocked, so that each critical section ends. Weak
fairness does not say that a writer wins against an endless stream of
readers, which the standard does not promise either; in the runs the calls are
bounded and the question is whether a thread can be stuck or a loop (flush
again, drain again) can run for ever.

## 5. What is proved

`EngineProof.tla`, first of `Memtable`, for all values of the constants that satisfy
`MemtableAssumption` (ids from 0 to a natural number, values of positive length,
batches that are sequences of pairs); the sets of threads, keys and values may
be infinite and `MaxCalls` any number:

- `TypeCorrect`: `Spec => []TypeOK`.
- `LocksExclude`: `Spec => []Exclusion`.
- `NothingLost`: `Spec => []NoEntryLost`.
- `ReadsSnapshot`: `Spec => []ReadsAreSnapshots`.
- `SizesExact`: `Spec => []BytesExact`.

`Exclusion` is not inductive: it speaks of program counters, and a step is
excluded by a lock. The inductive invariant `Inv` is `TypeOK /\ LockInv /\ StageInv`:

- `LockInv` ties each lock to the program counters: a thread is in the set of
  writers or readers of a lock exactly when its label says it holds it, writers
  are alone, and no one shares what is held exclusively. A step that takes a lock looks
  at the lock; with `LockInv` it thereby looks at the labels of all others.
- `StageInv` says that a thread about to build has a frozen table (so that
  `Oldest` is one) and a thread about to search the frozen tables has a key.
  The former needs `LockInv`: only the holder of `frozen_mtx` pops.

`NoEntryLost` is inductive relative to `Inv`. The argument is about where a version is
found in the layers of memory: `PutFound` (a put into the first layer),
`FreezeFound` (an empty table put in front), `BuildFound` (the last layer moves
into the SSTs) each preserve `FoundIn`, and every action is one of these or
leaves the layers alone. The lemmas on sequences (`LayersOf`, `FrozenType`)
come from `SequenceTheorems`.

`ReadsSnapshot` needs `ReadInv`: of a reader under way, the answers so far
and the keys left always add up to the snapshot of the moment it had both locks. A
step of another thread keeps it because it would need one of the two locks
exclusively (`LockInv`); a step of the reader moves one answer, taken from the active
table or, when that has none, from the frozen ones, to the other side of the sum.

`SizesExact` needs `BytesInv`: the size of a table is a sum of weights over its versions
(`Measured`), and `frozen_bytes` is the last of the partial sums of the frozen
tables' sizes (`Summed`). `SumBytes` folds a list; `SumBytesIs` shows that any function
that satisfies the recurrence of the partial sums gives its value, by the least
position at which the two would differ (`NatMin`).

`EngineProof.tla` proves the theorems of the memtable and of `LSMEngine`, the second from
`EngineAssumption` and `SstAssumption`:

- `Level0InBounds`: `EngineSpec => []Level0Bounded`, for any finite set of writers
  and any readers. `Control` relates the labels of a thread, its way back
  (`ret`) and its right to write; `Room` counts the flushes that have passed the check of
  level 0 and not pushed yet (`Pushing`): they and the SSTs of level 0 together are at
  most `Ratio + Cardinality(Writer)`.
- `EngineTypeCorrect`, `IndexStaysSound`, `EngineLosesNothing`, `MemoryStaysBounded`,
  `DestructorDrains` (`EngineTypeOK`, `IndexSound`, `EngineNoEntryLost`,
  `MemoryBounded`, `ClosedIsDrained`) and `GetsFindPuts` (the action property
  `GetFindsPut`), for one writer among any number of threads.

The hypothesis `Writer = {w}` is the code's, not the proof's: `put`, `flush` and
`clear` change `level_sst_ids` and `ssts` under no lock, and with a second writer
two flushes take one id and `IndexSound` is false. The readers are any number.
`Ratio <= MaxId` says that the ids of the model suffice: level 0 refuses a flush
that would need a larger one.

`EngineInv(w)` is the inductive invariant, in parts: `MemInv` (at most one table is
frozen, a flush begins with something to flush, so that no SST is empty, and the sizes that
were read still hold), `IndexInv` (the ids of level 0 are
`n - 1, ..., 0`, so that the next one is its length; between `FlushId` and `IndexPush` the
new SST has its id, its file and, after `IndexStore`, its place in `ssts`),
`PhaseInv` (what the destructor has done so far, and that a call leaves less than the
limit) and `HoldInv` (a version is found, newest first, in `Held`: the active table, the
frozen one, the SST in flight, the index).
The weak point of the code is visible in it: the SST in
flight is in no container that a reader looks into, so that `HoldInv` has to name it.
Steps of others only read (`OthersLookUp`) and keep all of it (`ReadsKeep`). `GetsFindPuts`
adds `GetOf`: what a get of the writer has been answered so far.

`CacheProof.tla`, for every capacity, every k and any number of readers:

- `ListsAgree`: `Spec => []ListsMatchMap`. The strengthening is `ListInv`: neither list
  repeats an item and no key is in both (`Distinct`), the map has each item where
  it is (`MapInv`), and an erase or a push in front keeps both.
- `CacheCoherent`: `Spec => []Coherent`, from `BlockInv` and `FileAssumption` (no two blocks
  of an SST begin at one place): what is true of a cached block is true of one on its way to
  the cache, where it may meet another of the same key, and a reader that is about to read
  and was not crossed has the stream at its block.
- `Implements`: `Spec => ImplementsLru`. The mapping gives each cached key its count, up to
  k, and its block; `used` is a history of the model. `UsedInv` says that the
  keys of each list are in the order of `used` (`Ordered`), so that the last element of
  the list that is evicted from is the `Victim` of the policy.

`RedisProof.tla`, for any threads, keys, elements and calls:

- `TypeCorrect`: `Spec => []TypeOK`.
- `CountersExact`: `Spec => []CounterExact`. A thread between its read and its
  write has the lock alone (`LockInv`), and what it has read is still so (`SeenInv`).
- `ListsConserved`: `Spec => []ListConserved`. In addition no element is in two lists
  (`ListsApart`), so that a pop from one list cannot leave it in another.

and of `RedisCollections`, for any hashes, sorted sets, fields, members and scores as
well, from `CollectionsAssumption` (the keys have one type each; no token of a text is
the name of a field; the empty optional is neither a value nor a score, and `Rounded` no
number):

- `HashesExact`: `CollectionsSpec => []HashExact`. `OwnersInv` is the lock again: all
  labels between two writes of a command (`Middle`) hold it, `ArgsInv` and `OpsInv` what
  arguments a thread has there. `HashInv` is what then holds of every hash in every
  state: the list names the fields that are set, each once, and their keys have their
  values but for the field a command is at (`Changing`), whose list is still the one it
  has read (`ListSeen`). Two lemmas carry the proof, one for the write of the field
  (`HashTouch`), one for that of the list (`HashList`).
- `ScoresNameMembers`, `ScoresExact`: `ScoreNamesMember` and `ScoreExact`, if `~ Repeats`.
  `ScoreSeen` says what each step of `zadd`, `zincrby` and `zrem` leaves to the next: the
  pairs to put are those that still change a score, and no such member is listed any
  more when the batch is put (`Unlisted`). That a sum is exact where `ScoreExact` says so, for any
  increments and any `Word`, is `RaisedIs`. The hypothesis is the code's: a `ZADD`
  that names a member twice breaks both the list and the lemma `ZaddPuts`
  (section 6), and nothing in `zadd` refuses one.

`VersionsProof.tla`, of `Transaction`, for any threads, keys, values, calls and bound on the
ids, from `TransactionAssumption` (the empty optional and the missing entry are
no values). `Typed` gives the types and what a step inside a call relies on;
three invariants on top of it are inductive, each on its own:

- `IdsAreUnique`: `Spec => []IdsUnique`. `IdInv` says that a thread in the middle
  of `new_tranc` has the lock alone and has read the current `next_tranc_id_`
  (`NewLock`), and that the next id is above all that were given: in memory
  while the process is up, and in a complete file when it is down (`Fresh`). The
  step that matters is `IdTake`; `IdManage` hands the id from memory to file and back.
- `CommitsUnconflicted`: `Spec => []CommitUnconflicted`. `Validated` says that a
  commit has the lock from its validation on, and that a key is still to be
  visited or has no newer version. Everybody else's writes need the lock
  (`CommitQuiet`).
- `ReadsRepeat`: `Spec => []RepeatableReads`. `Consistent` relates what the
  context should see to its maps (`Own`), at the levels that keep what they
  read; it needs that nothing read is `None` (`SomethingRead`), and so that the newest of
  the readable versions exists (`NewestIs`, from the well-foundedness of `<`).

`SkipListProof.tla`, for any keys, ids, values, levels and bounds, from
`SkipListAssumption` (keys are positive numbers, so that the head comes before them;
`None` is neither a value nor a version, since `Read` answers one or the other):

- `InvAlways`: `Spec => []Inv`. Each level is a chain (`Chained`): the forward link of
  a node leads to the least of those after it on the level and the backward link to the
  greatest before it, and a level is part of the one below (`Sound`).
  This says more than `WellLinked`, which a list with a node left out of a chain would
  still satisfy. `LinkInv` says that there are backward links with which the forward ones
  are such chains, and that they are the list's own as long as it is not `astray`: the removal of
  an absent key bends the list's links and not those (`MissLinks`). `put` is `ChainInsert` on
  the levels it links and `ChainSame` on the
  rest, `remove` of a node is `ChainRemove`; both rest on `SearchFinds`: on each level the search
  ends at the last node that lies before the place. `SizeInv` counts, until an absent
  key is removed, eight bytes for each node removed, which is what `remove` leaves in
  `size_bytes`, so that `SizeExact` can be about lists from which nothing was.
- A search is a recursive function along links. There is no induction rule at hand (the
  theorems of the library take an operator as a parameter, which the provers installed
  cannot instantiate): that the function exists is `Descent`, built by rounds since every
  link leads to a higher place below a bound, and what it computes is shown by the
  highest place where it would fail (`NoClimb`).
- `LinksSound`: `Spec => []WellLinked`; `ListSizeExact`: `Spec => []SizeExact`.
- `GetsFindNewest`: `Spec => []GetsNewest`. `First` is the newest version of the key
  (`SearchSmaller`), and of the versions from any node on the loop of `get` returns the
  first that is readable (`GetFirst`).
- `RangesComplete`: `Spec => []RangeExact`, whose hypothesis `~ astray` is the code's: section 6
  tells what a range query answers without it. If the range is not empty the descent meets it,
  at the latest on level 1 (`RangeMet`), and from wherever that is the walks end at its
  first node (`RangeLeft`) and before the first behind it (`RangeRight`), and meet no
  node on the wrong side: the code's exception is never thrown.
- `ImplementsVersionMap`: `Spec => ImplementsMap`. `flush` meets all nodes
  (`FlushMeets`), so that `Flushed` is `value`, and `remove` takes the version that `Read`
  answers.

`SSTProof.tla`, for any keys, lengths, capacity, filter sizes and hash functions, and
any number of entries, from the assumptions of `SSTBuilder` and `BloomFilter`:

- `NoFalseNegative`: what was added is contained, and adding keeps what is.
- `DecodeEncode`: the encoding of the filter loses nothing.
- `BuilderInvariant`: `Spec => []Inv`, which gives `SizesBounded` (`BlockBounded`) and, for
  the types only, `BuilderTypeOK` (`TypeOK`). `Inv` has a part for the finished
  blocks (`Stored`) and one for the block at hand (`Hand`). A block is in the order of
  versions (`Sorted`), has its keys in the filter (`Filtered`) and between its
  first and its last key (`Ranged`), and an entry without a newer version is
  within the capacity (`Sized`); the ranges of the blocks ascend and do
  not touch (`Ascending`), which is why all versions of a key are in one block.
  `Hand` ties `first_key` and `last_key` to the entries: the block at hand begins
  above the finished ones and ends at or below the last entry that was added, also when
  that one was dropped.
- `FindsEveryBlock`, `FindsVersion`, `RangesAnswered`: `Spec => []FindsBlock`,
  `Spec => []AdjustsExactly`, `Spec => []RangeExact`. Each search is a `Loop` whose
  direction splits the indices into those on the left, those where it stops
  and those on the right (`Splits`), since the blocks are `Sorted` and `Ascending`;
  `Ends` says where it is then after all rounds. The invariant of
  the loop is `Closing`: its bounds are around the places where it may stop, and a
  round that does not find one leaves fewer places, so that the rounds of `Loop`
  suffice. In a block the range is cut out exactly (`Cuts`); over the blocks, those
  without a hit are at either end. `FindsVersion` is in two parts, as its property is:
  `AdjustsWithin` needs nothing of what is read as the ids, `AdjustsBack` and
  `AdjustsOnward` that they are read as they are.
- `EntriesKept`: `Spec => []KeepsEntries`, from `Contents`: the entries given ascend,
  and the finished blocks and the one at hand hold those and no others, but for the
  entries that no block takes.

and of `Scan`, for any tables, keys, values and ids, from `ScanAssumption` (keys and ids
are numbers, 0 is an id; the empty value is a value and `None` is none). A module that
extends both needs names apart, hence `ScanSpec` and `stage`; no step uses the
assumption of the other module.

- `WalksAscend`: `ScanSpec => []ScanAscends`. What was yielded is below all that is left
  (`Yielded`), since a step takes the top, which has the least key, with all of its key.
- `WalksAgreeWithGet`: `ScanSpec => []ScanAgreesWithGet`. `Started` says what the walk began
  with: where it left out a version that its reader may see, those it has of the key are
  newer. `KeptTogether` says that of the items of a key, what is gone while others are
  left could not be seen, so that the item on top is the one `get` finds
  (`TopIsGot`: no other is newer, or in a newer table). Outside of transactions
  every key that is gone was yielded or is removed (`Accounted`).

`WalProof.tla`, for any threads, sizes and bounds:

- `LogIsExact`: `Spec => []LogExact`. One thread at a time is in `log` with records
  to write, and it has the mutex (`LockInv`); the stream is that of the last file
  that was opened (`OpenInv`). Reading file by file gives the values of a function `f`
  (`Read`), the last of which is `Disk` (`DiskIs`, by a least counterexample);
  a record appended to the last file is appended to each later value of `f` (`DiskAppend`),
  and a new file is empty (`DiskKept`).

### Only model-checked

- Liveness (`EngineCallsReturn`, `CommandsReturn`): fairness and `ENABLED` are
  beyond the prover.
- The engine with several writers, but for `Level0Bounded`.

## 6. What the code promises and does not keep

The run marked *violated* in section 3 checks one sentence of the code:

- `NewestVersionWins`: the larger transaction id has the higher priority
  (`skiplist.h`:36), but `Memtable::get_` (`memtable.cpp`:121) returns what the active table
  answers even when a frozen table holds a newer version. Three calls show it: put with
  id 2, freeze, put with id 1.

Met while modelling, and told here instead of repeated by a run:

- The search in a block is said to go to the version nearest to the transaction
  id (`block.cpp`:199), but `get_tranc_id_at` (`block.cpp`:10) copies two bytes into a
  `uint64_t` that it has not initialised and takes all eight for the length of the key. The id
  it returns comes from an undefined place, or the read leaves the memory of the process.
  `AdjustsExactly` is what holds all the same: the search stays with the key, and it is right
  when the six other bytes happen to be zero, or without a transaction.
- A range query is said to return the first position of its range and the one after
  the last (`skiplist.cpp`:320), but `remove` of a key that is not in the list
  (`skiplist.cpp`:144) bends the backward links on which the query walks to the left:
  with `RangesWhole` for an invariant, TLC shows it with two puts and one removal. With no larger key in the list the same line follows
  a null pointer (`remove_crashes`). Only the tests call `SkipList::remove`: the memtable
  removes by putting an empty value, so that the engine's lists never go astray.
- Two flushes at once take the same id for their SSTs (`FlushId`), although
  `engine.cpp`:21 reads the age of an SST off its id.
- `clear` keeps the block cache and restarts the ids: a block of a new SST can be
  answered with one of an old SST. `Coherent` holds as long as ids are not used again.
- Two readers of one SST can send each other astray (`BlockCache`): a block of another key,
  of the same size, is then cached under the key asked for, which the hash does not notice,
  and stays there until it is evicted or put again. A read beyond the end of the file
  makes every later read of that SST throw, since nothing clears `failbit`.
  `Coherent` says under which condition the block is the right one.
- `ZINCRBY` puts the sum of a `long` and a `double` into a `uint64_t`
  (`redis_wrapper.cpp`:735): 1.5 and 1 make 2, 1 and -1.5 make 0, 1 and -3 make 2^64 - 2, which the next
  `ZINCRBY` of the member cannot read (`stol` throws). `ScoreExact` demands the number only
  where nothing was rounded or wrapped.
- `SREM` removes the members that are not there, since its test (line 944) is the wrong
  way round, and writes the size before it removes.
- The expiry of a list, set, hash or sorted set is not looked at again under the
  exclusive lock, so that a command can erase a key that another has just
  made fresh (`redis_wrapper.cpp`:1088 speaks of what has expired).
- `sadd` is commented to take the write lock and does not: two of them can count
  a member twice or lose one (`sadd_elem`, `sadd_size`, `sadd_put`).
- `expire_hash_clean` removes keys named like the fields, without the prefix
  under which `hset` stores them (`clean_hash`): it leaves the fields and may
  remove a stranger's key. `expire_zset_clean` finds nothing to remove, since a
  range query of the engine leaves the memtable out.
- A `ZADD` that names a member twice lists it under both scores
  (`Repeats = TRUE` violates `ScoreNamesMember`).
- `abort` writes an old version back under its old id, where it already is, and
  leaves the transaction's own version on top of it: the state before, of which
  `transaction.cpp`:185 speaks, does not come back (`restore`).
- A range query within a transaction drops the versions of id 0, by the test
  `a == tr > tr`, and when a version too new meets a mark it may skip a key that is
  visible: `ScanAgreesWithGet` demands every key for walks outside of
  transactions only.
- `get` of a key that is in SSTs only never returns its value: the comparison
  with `end()` and the search in a block (`block.cpp`:287 tests the opposite of
  what `test_block.cpp`:94 expects) make it an empty optional or an exception; and with a transaction id, when the search
  makes out that no version is visible, the value of one that need not be (`AnyVersion`).
  `GetSst` is the nondeterministic choice of these outcomes.
- `full_compact` copies the ids of level x where it means level y (`engine.cpp`:252), and
  `gen_ssts_from_iter` (377) passes the level where `build` expects the id: no run of the
  program comes that far, since it throws before (next but one).
- `SST::open` of a file that `build` has written throws: the offsets it reads
  have been overwritten by `max_tranc_id_` (`Reopen` to phase `failed`).
- `full_compact(0)` throws when level 0 is full; from then on every flush does,
  and the memtable grows (`FlushCompact`, and the premise of `MemoryBounded`).
  The iterators `SST::begin` returns have a null block iterator
  (`sst_iterator.h`:40), so that the heap of the merge stays empty, and
  `skip_it_b` reads both. The order in which a compiler
  evaluates the two decides between an exception and a crash; the model
  allows either.
- `SstIterator::is_end` (`sst_iterator.cpp`:218) is true of every iterator that
  is in a block, and `operator==` (line 180) follows a null
  block iterator when one of the two is at the end: a range that ends with its
  block cannot be walked. `RangeExact` is about the positions, not the walk.
- Members of a sorted set with equal scores share one score key, although
  `redis_wrapper.cpp`:765 says that score keys and members go in pairs; hence
  `ScoreNamesMember` goes from a score to its member and not back.
- `hset` on a fresh key stores the field and then throws: a hash never gets its
  list of fields (`redis_wrapper.cpp`:369) unless the key holds a text.
- `Wal::log` is called with its default `force_flush = false` by the
  transactions, so that nothing they log would reach a file; and with `TRUE` it still waits
  for a full buffer. The destructor writes nothing.
- After a failed `reset_file_` the log goes on in the old file, and the next one
  to open has a number further on: a file of an earlier run may lie between
  (comment on `Disk` in `Wal.tla`), and `recover` would read it.
- `Record::encode` writes `record_len_` bytes for the header, where `decode`
  skips 14: after the first record of a file `recover` reads at wrong offsets.
- `isolation_level_` is not initialised by the constructor of `TranContext`;
  `init_new_wal` lists the directory `""` and throws, so that `wal_` stays null
  and every commit that gets past its validation ends the process.
- The server takes the text of an argument to start four bytes after its `$`
  (`server.cpp`:108), which fits lengths of one digit, and answers one request
  for each chunk it receives.
- The example in the comment of `iters_monotony_predicate`
  (`skiplist.cpp`:328-336) has the signs of its predicate the wrong way round.
- The branch of `BlockCache::put` for a key that is cached is reachable, by
  two readers who miss together; the model takes it (`put`).
- `decr` on a fresh key writes -1 and then throws; list and set commands on a key
  without expiry throw (`check_throws`), so that those commands work only
  after an `EXPIRE`.
- `SSTBuilder::add` drops an entry no block takes (`KeepsEntries` says these
  are the only ones).

## 7. Not modelled, and why

- **Compaction beyond its exception**: `full_compact` throws at this commit for every
  level the engine can produce, before it merges. `ConcactIterator`,
  `TwoMergeIterator` with two sides and `gen_ssts_from_iter` are reached from
  there only; a model would have no run of the program to be faithful to.
- **LSM facade**: `LSM::LSM` always throws, so nothing can be called on it.
  `Transaction` starts from `TranManager`, which can be used without it.
- **Reading the log back** (`recover`, `Record::decode`): see section 6; what it
  reads after the first record is a matter of bytes.
- **The flush under a transaction**: `Transaction` takes the engine as its memory. A
  `get` that must look into an SST answers nothing right at this commit.
- **The encoding of blocks and SSTs**: byte layout and 16-bit offsets.
  `BlockBounded` bounds what a block holds, not what an offset can say.
- **FLUSHALL** is `LSMEngine::clear` without a lock. The answers of `LRANGE`, `SMEMBERS`,
  `ZRANGE` and the other readers are not modelled, their locks and cleaning are.
- **Server**: one thread, parsing and formatting.
- **MmapFile**: not used. **StdFile**: writes are assumed to succeed, except that a
  file may not open (`FlushFail`, `reset_file_throws`) and that a process may
  die between two (`Crash`).
- **Iterators** of the skip list (`begin`, `end`, `iters_preffix`): reads only.

### Assumptions of the models

- Each access to `level_sst_ids` or `ssts` is atomic. They are unguarded
  standard containers, and two accesses at the same moment are undefined
  behaviour; the models show what goes wrong even when they are not.
- An entry that the memtable takes fits into a block, where the engine is
  concerned (`SSTBuilder` shows what happens else).
- `commit` numbers, `tranc_id`s, are what the caller passes.
- The byte counts stay below the width of `size_t`; `BytesExact` shows that they do not
  wrap below zero.
- Each call on the stream of an SST is atomic. Two at the same moment are a data race on a
  `std::fstream`, which is undefined; the model shows what goes wrong without it. The hash of
  bytes that are no block does not match.
- Doubles are exact for the increments and scores in question, sums stay below 2^64, and a
  negative double becomes a `uint64_t` as on x86-64, modulo 2^64.
- Nobody holds an iterator at a node that `SkipList::remove` takes out of the list, so that
  the node is freed and the weak backward links to it are null.

## 8. Plan

Done in this order, the most important behaviour first: the memtable and its
proof; the engine over it; the skip list and its refinement; blocks and the
builder; the cache and its refinement; Redis counters, lists and sets; Redis hashes
and sorted sets; the Bloom filter and its proof; walks over the tables;
transactions and their proof; the log; the proofs about the engine, the cache, the
Redis commands, the log, SSTs with their searches, the skip list and the walks.

Left, in order:

1. The encoding of a block as bytes with offsets of 16 bits, and of records,
   against their decoding.
2. Transactions over an engine that flushes, when `get` finds what is in an SST.
