------------------------------ MODULE BlockCache ------------------------------
(***************************************************************************)
(* The block cache (src/src/block/block_cache.cpp) and the readers that    *)
(* share it, SST::read_block (src/src/sst/sst.cpp): look the block up,     *)
(* read it from the file when it is not there, put it into the cache. get  *)
(* and put hold the cache's mutex_ from start to end and are one step each; *)
(* nothing is held while the file is read, although the readers of an SST  *)
(* share its stream: each call on the stream is a step. What is read is    *)
(* told apart by its place: a block is named by the key it has in its file. *)
(*                                                                         *)
(* A key is a pair of SST id and block index. Its item is in one of two    *)
(* lists, and cache_map_ points at it: here, at the list it is in, for a   *)
(* list has at most one item per key (ListsMatchMap).                      *)
(***************************************************************************)
EXTENDS Integers, SequencesExt

CONSTANTS
  Reader,      \* the threads that read blocks
  Key,         \* <<sst_id, block_id>>, and the block at that place
  offset, block_size,   \* where a block is in the file of its SST
  file_size,   \* of the file of an SST: blocks, then filter and meta entries
  None,        \* a null pointer
  capacity_, k_,
  MaxReads     \* bound on the reads in a behaviour

ASSUME BlockCacheAssumption ==
  /\ None \notin Key /\ capacity_ \in Nat \ {0} /\ k_ \in Nat \ {0, 1}
  /\ Key # {} /\ MaxReads \in Nat

\* The blocks are in the file, at places of their own.
ASSUME FileAssumption ==
  /\ offset \in [Key -> Nat] /\ block_size \in [Key -> Nat]
  /\ file_size \in [{key[1] : key \in Key} -> Nat]
  /\ \A key \in Key : offset[key] + block_size[key] <= file_size[key[1]]
  /\ \A a, b \in Key : a[1] = b[1] /\ offset[a] = offset[b] => a = b

VARIABLES
  cache_list_less_k, cache_list_greater_k,   \* items, front first
  cache_map_,      \* "less", "greater" or "none"
  position, failed, \* of the stream of each SST: where it is, failbit
  pc, want, block, \* per reader: next step, key, the block it has read
  reads,
  used,            \* history: the cached keys, last used first
  crossed,         \* history: who had the stream moved before reading
  suspect          \* history: the keys last put by such a reader

lists   == <<cache_list_less_k, cache_list_greater_k, cache_map_>>
stream  == <<position, failed>>
readers == <<pc, want, block, reads>>
history == <<used, crossed, suspect>>
vars    == <<lists, stream, readers, history>>
-----------------------------------------------------------------------------
(* The lists. access_count is kept up to k_ + 1: the code compares it with *)
(* k_ only.                                                                *)

Item == [key : Key, cache_block : Key, access_count : 1 .. k_ + 1]

\* The iterator of a key in its list.
Position(s, key) == CHOOSE i \in DOMAIN s : s[i].key = key

Without(s, key) == RemoveAt(s, Position(s, key))
ItemOf(s, key)  == s[Position(s, key)]

Cached(key) == cache_map_[key] # "none"

Find(key) == ItemOf(IF cache_map_[key] = "less" THEN cache_list_less_k
                    ELSE cache_list_greater_k, key)

\* Mutant of update_access_count: the item stays where it is in its list.
CountInPlace(item) ==
  LET n    == item.access_count + 1
      next == [item EXCEPT !.access_count = IF n > k_ THEN k_ + 1 ELSE n]
      Set(s) == [i \in DOMAIN s |-> IF s[i].key = item.key THEN next ELSE s[i]]
  IN  \/ /\ n < k_
         /\ cache_list_less_k' = Set(cache_list_less_k)
         /\ UNCHANGED <<cache_list_greater_k, cache_map_>>
      \/ /\ n = k_
         /\ cache_list_less_k' = Without(cache_list_less_k, item.key)
         /\ cache_list_greater_k' = <<next>> \o cache_list_greater_k
         /\ cache_map_' = [cache_map_ EXCEPT ![item.key] = "greater"]
      \/ /\ n > k_
         /\ cache_list_greater_k' = Set(cache_list_greater_k)
         /\ UNCHANGED <<cache_list_less_k, cache_map_>>

\* update_access_count, for an item that put may just have given a new block.
update_access_count(item) ==
  LET n    == item.access_count + 1
      next == [item EXCEPT !.access_count = IF n > k_ THEN k_ + 1 ELSE n]
  IN  \/ /\ n < k_
         /\ cache_list_less_k' = <<next>> \o Without(cache_list_less_k, item.key)
         /\ UNCHANGED <<cache_list_greater_k, cache_map_>>
      \/ /\ n = k_
         /\ cache_list_less_k' = Without(cache_list_less_k, item.key)
         /\ cache_list_greater_k' = <<next>> \o cache_list_greater_k
         /\ cache_map_' = [cache_map_ EXCEPT ![item.key] = "greater"]
      \/ /\ n > k_
         /\ cache_list_greater_k' = <<next>> \o Without(cache_list_greater_k, item.key)
         /\ UNCHANGED <<cache_list_less_k, cache_map_>>

Entries == Cardinality({key \in Key : Cached(key)})

\* Mutant of Insert: the item leaves its list and not the map.
InsertKeepsKey(key, b) ==
  LET item == [key |-> key, cache_block |-> b, access_count |-> 1]
      full == Entries >= capacity_
  IN  /\ cache_map_' = [cache_map_ EXCEPT ![key] = "less"]
      /\ \/ /\ ~full
            /\ cache_list_less_k' = <<item>> \o cache_list_less_k
            /\ UNCHANGED cache_list_greater_k
         \/ /\ full /\ cache_list_less_k # <<>>
            /\ cache_list_less_k' = <<item>> \o Front(cache_list_less_k)
            /\ UNCHANGED cache_list_greater_k
         \/ /\ full /\ cache_list_less_k = <<>>
            /\ cache_list_greater_k' = Front(cache_list_greater_k)
            /\ cache_list_less_k' = <<item>>

\* put of a key that is not cached, into a full cache or one with room.
Insert(key, b) ==
  LET item == [key |-> key, cache_block |-> b, access_count |-> 1]
      full == Entries >= capacity_
  IN  \/ /\ ~full
         /\ cache_list_less_k' = <<item>> \o cache_list_less_k
         /\ cache_map_' = [cache_map_ EXCEPT ![key] = "less"]
         /\ UNCHANGED cache_list_greater_k
      \/ /\ full /\ cache_list_less_k # <<>>
         /\ cache_list_less_k' = <<item>> \o Front(cache_list_less_k)
         /\ cache_map_' = [cache_map_ EXCEPT ![Last(cache_list_less_k).key] = "none",
                                             ![key] = "less"]
         /\ UNCHANGED cache_list_greater_k
      \/ /\ full /\ cache_list_less_k = <<>>
         /\ cache_list_greater_k' = Front(cache_list_greater_k)
         /\ cache_list_less_k' = <<item>>
         /\ cache_map_' = [cache_map_ EXCEPT ![Last(cache_list_greater_k).key] = "none",
                                             ![key] = "less"]
-----------------------------------------------------------------------------
(* read_block.                                                             *)

Goto(t, l) == pc' = [pc EXCEPT ![t] = l]

\* The history of uses: key comes to the front, one that is evicted goes.
Evicted == {x \in Key : Cached(x) /\ cache_map_'[x] = "none"}

Used(key) ==
  used' = <<key>> \o RemoveFirst(used, IF Evicted = {} THEN key
                                      ELSE CHOOSE x \in Evicted : TRUE)

read_block(t) ==
  /\ pc[t] = "idle" /\ reads < MaxReads
  /\ reads' = reads + 1
  /\ \E key \in Key : want' = [want EXCEPT ![t] = key]
  /\ Goto(t, "get")
  /\ UNCHANGED <<lists, stream, block, history>>

get_hit(t) ==
  /\ pc[t] = "get" /\ Cached(want[t])
  /\ update_access_count(Find(want[t]))
  /\ Goto(t, "idle") /\ Used(want[t])
  /\ UNCHANGED <<stream, want, block, reads, crossed, suspect>>

get_miss(t) ==
  /\ pc[t] = "get" /\ ~Cached(want[t])
  /\ Goto(t, "size")
  /\ UNCHANGED <<lists, stream, want, block, reads, history>>

\* The calls on the stream of t's SST. Once failbit is set, nothing clears it:
\* the seeks do nothing and the reads fail. A call of t that may move the stream
\* crosses the readers of the SST that are about to read.
Sst(t) == want[t][1]

SeekTo(t, p) ==
  position' = IF failed[Sst(t)] THEN position ELSE [position EXCEPT ![Sst(t)] = p]

Crosses(t) == {u \in Reader \ {t} : pc[u] = "read" /\ Sst(u) = Sst(t)}

\* StdFile::size: to the end, ...
size_seekg(t) ==
  /\ pc[t] = "size"
  /\ SeekTo(t, file_size[Sst(t)])
  /\ crossed' = crossed \cup Crosses(t)
  /\ Goto(t, "tell")
  /\ UNCHANGED <<lists, failed, want, block, reads, used, suspect>>

\* ... and where that is (the largest number if failbit is set). read_to_slice
\* throws if the block is not before it.
size_tellg(t) ==
  /\ pc[t] = "tell"
  /\ \/ /\ failed[Sst(t)] \/ offset[want[t]] + block_size[want[t]] <= position[Sst(t)]
        /\ Goto(t, "seek")
     \/ /\ ~failed[Sst(t)] /\ offset[want[t]] + block_size[want[t]] > position[Sst(t)]
        /\ Goto(t, "idle")
  /\ UNCHANGED <<lists, stream, want, block, reads, history>>

\* StdFile::read: to the offset, ...
read_seekg(t) ==
  /\ pc[t] = "seek"
  /\ SeekTo(t, offset[want[t]])
  /\ crossed' = crossed \cup Crosses(t)
  /\ Goto(t, "read")
  /\ UNCHANGED <<lists, failed, want, block, reads, used, suspect>>

\* What the bytes from where the stream is decode to: the hash is that of the
\* bytes themselves, so any whole block passes.
Decoded(t) ==
  {b \in Key : /\ b[1] = Sst(t) /\ offset[b] = position[Sst(t)]
               /\ block_size[b] = block_size[want[t]]}

\* ... and the bytes from where the stream is now. Block::decode throws for those
\* that are no block.
read_bytes(t) ==
  /\ pc[t] = "read"
  /\ ~failed[Sst(t)] /\ position[Sst(t)] + block_size[want[t]] <= file_size[Sst(t)]
  /\ position' = [position EXCEPT ![Sst(t)] = @ + block_size[want[t]]]
  /\ \/ /\ \E b \in Decoded(t) : block' = [block EXCEPT ![t] = b]
        /\ Goto(t, "put") /\ crossed' = crossed \cup Crosses(t)
     \/ /\ Decoded(t) = {}
        /\ Goto(t, "idle") /\ crossed' = (crossed \ {t}) \cup Crosses(t) /\ UNCHANGED block
  /\ UNCHANGED <<lists, failed, want, reads, used, suspect>>

\* Bytes beyond the end: the read throws, as does each one after it.
read_fails(t) ==
  /\ pc[t] = "read"
  /\ failed[Sst(t)] \/ position[Sst(t)] + block_size[want[t]] > file_size[Sst(t)]
  /\ failed' = [failed EXCEPT ![Sst(t)] = TRUE]
  /\ Goto(t, "idle") /\ crossed' = crossed \ {t}
  /\ UNCHANGED <<lists, position, want, block, reads, used, suspect>>

\* The history of reads that crossed, when a block is put.
Suspects(t) ==
  /\ suspect' = IF t \in crossed THEN suspect \cup {want[t]} ELSE suspect \ {want[t]}
  /\ crossed' = crossed \ {t}

\* Mutant of put: a key that is cached keeps its block.
put_keeps(t) ==
  /\ pc[t] = "put"
  /\ \/ /\ Cached(want[t])
        /\ update_access_count(Find(want[t]))
     \/ /\ ~Cached(want[t])
        /\ Insert(want[t], block[t])
  /\ block' = [block EXCEPT ![t] = None]
  /\ Goto(t, "idle") /\ Used(want[t]) /\ Suspects(t)
  /\ UNCHANGED <<stream, want, reads>>

put(t) ==
  /\ pc[t] = "put"
  /\ \/ /\ Cached(want[t])
        /\ update_access_count([Find(want[t]) EXCEPT !.cache_block = block[t]])
     \/ /\ ~Cached(want[t])
        /\ Insert(want[t], block[t])
  /\ block' = [block EXCEPT ![t] = None]
  /\ Goto(t, "idle") /\ Used(want[t]) /\ Suspects(t)
  /\ UNCHANGED <<stream, want, reads>>
-----------------------------------------------------------------------------
Init ==
  /\ cache_list_less_k = <<>> /\ cache_list_greater_k = <<>>
  /\ cache_map_ = [key \in Key |-> "none"]
  /\ position = file_size /\ failed = [s \in DOMAIN file_size |-> FALSE]
  /\ pc = [t \in Reader |-> "idle"]
  /\ want \in [Reader -> {CHOOSE key \in Key : TRUE}]
  /\ block = [t \in Reader |-> None]
  /\ reads = 0 /\ used = <<>> /\ crossed = {} /\ suspect = {}

Step(t) ==
  \/ get_hit(t) \/ get_miss(t) \/ put(t)
  \/ size_seekg(t) \/ size_tellg(t) \/ read_seekg(t) \/ read_bytes(t) \/ read_fails(t)

Done == reads = MaxReads /\ (\A t \in Reader : pc[t] = "idle") /\ UNCHANGED vars

Next == (\E t \in Reader : read_block(t) \/ Step(t)) \/ Done

Spec == Init /\ [][Next]_vars
-----------------------------------------------------------------------------
(* Properties.                                                             *)

TypeOK ==
  /\ cache_list_less_k \in Seq(Item) /\ cache_list_greater_k \in Seq(Item)
  /\ cache_map_ \in [Key -> {"less", "greater", "none"}]
  /\ position \in [DOMAIN file_size -> Nat] /\ failed \in [DOMAIN file_size -> BOOLEAN]
  /\ pc \in [Reader -> {"idle", "get", "size", "tell", "seek", "read", "put"}]
  /\ want \in [Reader -> Key] /\ block \in [Reader -> Key \cup {None}]
  /\ crossed \subseteq Reader /\ suspect \subseteq Key

\* The map points at the list its item is in, each key has one item, an item
\* is in cache_list_greater_k exactly when it was used k_ times, and there are
\* no more items than capacity_.
ListsMatchMap ==
  LET Keys(s) == {s[i].key : i \in DOMAIN s}
  IN  /\ TypeOK
      /\ Keys(cache_list_less_k)    = {key \in Key : cache_map_[key] = "less"}
      /\ Keys(cache_list_greater_k) = {key \in Key : cache_map_[key] = "greater"}
      /\ Len(cache_list_less_k) + Len(cache_list_greater_k) = Entries
      /\ Entries <= capacity_
      /\ \A i \in DOMAIN cache_list_less_k : cache_list_less_k[i].access_count < k_
      /\ \A i \in DOMAIN cache_list_greater_k : cache_list_greater_k[i].access_count >= k_

\* The two lists and the map carry out the replacement policy of LruK.tla.
Lru == INSTANCE LruK WITH
  Content  <- Key,
  Capacity <- capacity_,
  K        <- k_,
  uses     <- [key \in Key |-> IF ~Cached(key) THEN 0
                               ELSE IF Find(key).access_count > k_ THEN k_
                               ELSE Find(key).access_count],
  content  <- [key \in Key |-> IF ~Cached(key) THEN None ELSE Find(key).cache_block]

ImplementsLru == Lru!LruSpec

\* What is cached for a key is a whole block of the same SST and of the same size;
\* and it is the block of that key, unless the last reader to put it had the
\* stream moved by another one between its seek and its read.
Coherent ==
  \A key \in Key : Cached(key) =>
    LET b == Find(key).cache_block
    IN  /\ b[1] = key[1] /\ block_size[b] = block_size[key]
        /\ key \notin suspect => b = key
=============================================================================
