--------------------------------- MODULE Scan ---------------------------------
(***************************************************************************)
(* Walks over the tables: HeapIterator (src/src/iterator/iterator.cpp) on  *)
(* the entries that Memtable::begin, Memtable::iter_monotony_predicate and *)
(* LSMEngine::iter_monotony_predicate copy into it.                        *)
(*                                                                         *)
(* The memory tables and the SSTs are maps of versions (VersionMap.tla,    *)
(* whose variable is the active table). A walk copies its entries while it *)
(* holds the locks, so that writers do not disturb it: they are before it  *)
(* here.                                                                   *)
(***************************************************************************)
EXTENDS VersionMap, SequencesExt

CONSTANTS
  Removed,     \* the empty value, which marks a removed key
  MaxSize      \* bound on the versions in all tables and the tables but the
               \* active one, taken together

ASSUME ScanAssumption ==
  /\ Key \subseteq Nat /\ Tranc \subseteq Nat /\ 0 \in Tranc
  /\ Removed \in Value /\ None \notin Value
  /\ MaxSize \in Nat

VARIABLES
  frozen_tables,  \* newest first
  ssts,           \* newest first
  stage,          \* writing, which loop of the iterator, or dead
  walk,           \* what the walk began with: [from, lo, hi, tranc, items]
  items,          \* what is in the heap
  max_tranc_id_,  \* of the heap
  out             \* history: what the walk has yielded

scan_vars == <<map, frozen_tables, ssts, stage, walk, items, max_tranc_id_, out>>

Memory == <<map>> \o frozen_tables

Stored == UNION {{<<i, v>> : v \in {u \in Version : (Memory \o ssts)[i][u] # None}}
                    : i \in 1 .. Len(Memory \o ssts)}

Room == Cardinality(Stored) + Len(frozen_tables) + Len(ssts) < MaxSize
-----------------------------------------------------------------------------
(* The tables.                                                             *)

put_(v, x) ==
  /\ stage = "write" /\ Room
  /\ Write(v, x)
  /\ UNCHANGED <<frozen_tables, ssts, stage, walk, items, max_tranc_id_, out>>

frozen_cur_table ==
  /\ stage = "write" /\ map # Empty /\ Room
  /\ frozen_tables' = <<map>> \o frozen_tables /\ map' = Empty
  /\ UNCHANGED <<ssts, stage, walk, items, max_tranc_id_, out>>

\* The oldest table becomes the newest SST.
flush_last ==
  /\ stage = "write" /\ frozen_tables # <<>>
  /\ ssts' = <<Last(frozen_tables)>> \o ssts /\ frozen_tables' = Front(frozen_tables)
  /\ UNCHANGED <<map, stage, walk, items, max_tranc_id_, out>>
-----------------------------------------------------------------------------
(* What a walk starts with. idx is the age of the table; every level is 0. *)

SearchItem(m, i, tr) == {[key |-> v[1], tranc |-> v[2], idx |-> i, value |-> m[v]]
                           : v \in {u \in Version : m[u] # None /\ u \in tr}}

\* Memtable::begin: within a transaction, its own entries only.
Begin(tr) ==
  UNION {SearchItem(Memory[i], i - 1, Key \X (IF tr = 0 THEN Tranc ELSE {tr}))
           : i \in DOMAIN Memory}

\* Memtable::iter_monotony_predicate. The filter a == tr > tr compares a with
\* the value of tr > tr, which is 0.
InRange(lo, hi, tr) ==
  UNION {SearchItem(Memory[i], i - 1, (lo .. hi) \X (IF tr = 0 THEN Tranc ELSE Tranc \ {0}))
           : i \in DOMAIN Memory}

\* LSMEngine::iter_monotony_predicate. SstIterator caches the first entry it is
\* asked for and ++ does not clear it, so of each SST there are only copies of
\* its first entry in the range, under the caller's id. The memtable is left
\* out: the test of its result is inverted, and TwoMergeIterator gets an empty
\* heap in its place.
Held(m, lo, hi) == {v \in Version : m[v] # None /\ v[1] \in lo .. hi}

FirstHeld(m, lo, hi) ==
  LET in == Held(m, lo, hi)
  IN  {v \in in : \A u \in in : v[1] < u[1] \/ (v[1] = u[1] /\ v[2] >= u[2])}

SstRange(lo, hi, tr) ==
  UNION {{[key |-> v[1], tranc |-> tr, idx |-> i - 1, value |-> ssts[i][v]]
            : v \in FirstHeld(ssts[i], lo, hi)} : i \in DOMAIN ssts}

\* A range that holds the last entry of a block (an SST is one here) ends in an
\* iterator without a block, which operator== of SstIterator dereferences.
Overruns(lo, hi) ==
  \E i \in DOMAIN ssts : \E v \in Held(ssts[i], lo, hi) :
    \A u \in Version : ssts[i][u] # None => u[1] <= v[1]

Walk(from, lo, hi, tr, its, max) ==
  /\ stage = "write" /\ stage' = "outer"
  /\ walk' = [from |-> from, lo |-> lo, hi |-> hi, tranc |-> tr, items |-> its]
  /\ items' = its /\ max_tranc_id_' = max
  /\ UNCHANGED <<map, frozen_tables, ssts, out>>

begin == \E tr \in Tranc, hi \in {k \in Key : \A j \in Key : j <= k} :
  Walk("begin", 0, hi, tr, Begin(tr), tr)

range == \E tr \in Tranc, lo, hi \in Key :
  lo <= hi /\ Walk("range", lo, hi, tr, InRange(lo, hi, tr), tr)

sst_range == \E tr \in Tranc, lo, hi \in Key :
  lo <= hi /\ ~ Overruns(lo, hi) /\ Walk("sst", lo, hi, tr, SstRange(lo, hi, tr), 0)

\* The process dies.
overrun ==
  /\ stage = "write" /\ \E lo, hi \in Key : lo <= hi /\ Overruns(lo, hi)
  /\ stage' = "dead"
  /\ UNCHANGED <<map, frozen_tables, ssts, walk, items, max_tranc_id_, out>>
-----------------------------------------------------------------------------
(* HeapIterator.                                                           *)

\* operator> of two items with one key.
After(a, b) == a.tranc < b.tranc \/ a.idx > b.idx

\* It orders the items of a key unless an older table has a newer version.
Ordered(S) == \A a, b \in S : ~ (After(a, b) /\ After(b, a))

\* The items of the least key.
Least == {a \in items : \A b \in items : a.key <= b.key}

OfKey(S, a) == {b \in S : b.key = a.key}

\* top(): a heap keeps the keys in order, and the items of a key if the order
\* never contradicted itself on them; else any of them may be on top.
Tops == {a \in Least : Ordered(OfKey(walk.items, a)) => \A b \in Least : ~ After(a, b)}

Invisible(a) == max_tranc_id_ # 0 /\ a.tranc > max_tranc_id_

Pop(S, l) ==
  /\ items' = items \ S /\ stage' = l
  /\ UNCHANGED <<map, frozen_tables, ssts, walk, max_tranc_id_, out>>

\* while (!top_value_legal()): first the entries of later transactions go.
skip_by_tranc_id ==
  stage = "outer" /\ \E a \in Tops : Invisible(a) /\ Pop({a}, "skip")

skip_more ==
  stage = "skip" /\ \E a \in Tops : Invisible(a) /\ Pop({a}, "skip")

skipped ==
  /\ stage = "skip" /\ (items # {} => \E a \in Tops : ~ Invisible(a)) /\ Pop({}, "inner")

\* An entry that is visible and deleted.
skip_none ==
  stage = "outer" /\ \E a \in Tops : ~ Invisible(a) /\ a.value = Removed /\ Pop({}, "inner")

\* Mutant of skip_deleted: the mark goes, what it hides does not.
skip_mark ==
  stage = "inner" /\ \E a \in Tops : a.value = Removed /\ Pop({a}, "inner")

\* Then the keys that are deleted go, as long as there is one on top; whether
\* the mark is visible is not looked at again.
skip_deleted ==
  stage = "inner" /\ \E a \in Tops : a.value = Removed /\ Pop(OfKey(items, a), "inner")

skipped_deleted ==
  /\ stage = "inner" /\ (items # {} => \E a \in Tops : a.value # Removed) /\ Pop({}, "outer")

\* Mutant of next: the other versions of the key stay.
next_version ==
  /\ stage = "outer"
  /\ \E a \in Tops : ~ Invisible(a) /\ a.value # Removed
       /\ items' = items \ {a} /\ out' = Append(out, a)
  /\ UNCHANGED <<map, frozen_tables, ssts, stage, walk, max_tranc_id_>>

\* operator*, and operator++ with all that has the same key.
next ==
  /\ stage = "outer"
  /\ \E a \in Tops : ~ Invisible(a) /\ a.value # Removed
       /\ items' = items \ OfKey(items, a) /\ out' = Append(out, a)
  /\ UNCHANGED <<map, frozen_tables, ssts, stage, walk, max_tranc_id_>>
-----------------------------------------------------------------------------
ScanInit ==
  /\ map = Empty /\ frozen_tables = <<>> /\ ssts = <<>>
  /\ stage = "write" /\ walk = None /\ items = {} /\ max_tranc_id_ = 0 /\ out = <<>>

End == stage = "outer" /\ items = {}

ScanNext ==
  \/ \E v \in Version, x \in Value : put_(v, x)
  \/ frozen_cur_table \/ flush_last
  \/ begin \/ range \/ sst_range \/ overrun
  \/ skip_by_tranc_id \/ skip_more \/ skipped \/ skip_none
  \/ skip_deleted \/ skipped_deleted \/ next
  \/ (End \/ stage = "dead") /\ UNCHANGED scan_vars

ScanSpec == ScanInit /\ [][ScanNext]_scan_vars
-----------------------------------------------------------------------------
(* Properties.                                                             *)

\* Memtable::get: the first table that has a visible version; None also for a
\* mark.
Get(k, tr) ==
  LET has == {i \in DOMAIN Memory : Readable(Memory[i], k, tr) # {}}
      m   == Memory[Min(has)]
  IN  IF has = {} \/ m[Read(m, k, tr)] = Removed THEN None
      ELSE <<Min(has), Read(m, k, tr)>>

\* The entries of a key where no older table has a newer version.
InOrder(k) == Ordered({a \in Begin(0) : a.key = k})

InMemory == walk # None /\ walk.from # "sst"

\* A walk yields keys in ascending order, none twice and none deleted, over
\* however many tables and versions, also where the order of the heap
\* contradicts itself (iterator.cpp, operator++).
ScanAscends ==
  /\ \A i, j \in DOMAIN out : i < j => out[i].key < out[j].key
  /\ \A i \in DOMAIN out : out[i].value # Removed

\* What a walk of the memtable yields for a key is the version a get of the
\* same reader finds (memtable.cpp, begin and iter_monotony_predicate, against
\* get_); and outside of transactions it yields every key that get finds in its
\* range, if the newest versions are in the newest tables.
ScanAgreesWithGet ==
  /\ InMemory => \A i \in DOMAIN out : InOrder(out[i].key) =>
       Get(out[i].key, walk.tranc) = <<out[i].idx + 1, <<out[i].key, out[i].tranc>>>>
  /\ InMemory /\ End /\ walk.tranc = 0 => \A k \in Key \cap walk.lo .. walk.hi :
       InOrder(k) /\ Get(k, 0) # None => \E i \in DOMAIN out : out[i].key = k
=============================================================================
