------------------------------ MODULE SSTBuilder ------------------------------
(***************************************************************************)
(* Building an SST (SSTBuilder, src/src/sst/sst.cpp) out of blocks         *)
(* (src/src/block/block.cpp), and the searches that later run on it.       *)
(*                                                                         *)
(* The builder also adds each key to a Bloom filter (BloomFilter.tla).      *)
(*                                                                         *)
(* flush_last feeds the builder the entries of a skip list in its order:   *)
(* by key, the versions of a key from the newest to the oldest. An entry   *)
(* is <<key, tranc_id, length of the value>>; a key is a number in the     *)
(* order of the strings, and never the empty string. A block is the        *)
(* sequence of its entries; indices are those of the code, from 0.         *)
(***************************************************************************)
EXTENDS BloomFilter, SequencesExt

CONSTANTS
  MaxTranc,   \* transaction ids are 0..MaxTranc
  Length,     \* lengths of values
  KeyBytes,   \* length of a key
  capacity,   \* LSM_BLOCK_MEM_LIMIT
  MaxEntries  \* bound on the entries of one SST

Tranc == 0 .. MaxTranc
Entry == Key \X Tranc \X Length

NoKey == 0    \* the empty string

ASSUME SSTBuilderAssumption ==
  /\ Key \subseteq Nat \ {0} /\ MaxTranc \in Nat /\ Length \subseteq Nat
  /\ KeyBytes \in Nat \ {0} /\ capacity \in Nat /\ MaxEntries \in Nat

VARIABLES
  block,               \* the block being filled
  data,                \* the blocks finished
  meta_entries,        \* <<first_key, last_key>> of each
  first_key, last_key,
  bloom_filter,        \* its bits
  phase,               \* "adding", "built" or "thrown"
  added                \* history: the entries the builder was given

vars == <<block, data, meta_entries, first_key, last_key, bloom_filter, phase, added>>

-----------------------------------------------------------------------------
(* Blocks.                                                                 *)

EntryBytes(e) == KeyBytes + e[3] + 12

DataBytes(b) ==
  LET sum[n \in 0 .. Len(b)] == IF n = 0 THEN 0 ELSE sum[n - 1] + EntryBytes(b[n])
  IN  sum[Len(b)]

\* cur_size: two bytes for each offset, two for their number.
cur_size(b) == DataBytes(b) + 2 * Len(b) + 2

\* Mutant of Fits: the versions of a key may be split.
FitsUnforced(b, e, force_write) == cur_size(b) + KeyBytes + e[3] + 6 <= capacity

\* Mutant of Fits: the value is not counted.
FitsKey(b, e, force_write) == force_write \/ cur_size(b) + KeyBytes + 6 <= capacity

\* add_entry counts neither the transaction id nor, when forced, anything.
Fits(b, e, force_write) == force_write \/ cur_size(b) + KeyBytes + e[3] + 6 <= capacity

is_same_key(b, i, k) == i < Len(b) /\ b[i + 1][1] = k

\* What get_tranc_id_at lets the comparisons `id <= tranc_id` with the entries of
\* b come to. It copies the two bytes of key_len into eight uninitialised ones
\* and goes on by all of them, so an id may be read from anywhere (or the process
\* dies): each comparison may come out either way. With tranc_id = 0 no id is read.
get_tranc_id_at(b, tr) ==
  IF tr = 0 THEN {[n \in 0 .. Len(b) - 1 |-> TRUE]} ELSE [0 .. Len(b) - 1 -> BOOLEAN]

\* Mutant of adjust_idx_by_tranc_id: the way back does not look at the key.
adjust_idx_any_key(b, idx, sees) ==
  LET k == b[idx + 1][1]
      back[i \in 0 .. idx] == IF i > 0 /\ sees[i - 1] THEN back[i - 1] ELSE i
      onward[i \in idx + 1 .. Len(b)] ==
        IF ~is_same_key(b, i, k) THEN -1 ELSE IF sees[i] THEN i ELSE onward[i + 1]
  IN  IF sees[idx] THEN back[idx] ELSE onward[idx + 1]

\* The entry nearest to tranc_id among the neighbours of b[idx] with its key,
\* where sees[n] is what `id of entry n <= tranc_id` came to.
adjust_idx_by_tranc_id(b, idx, sees) ==
  LET k == b[idx + 1][1]
      back[i \in 0 .. idx] ==
        IF i > 0 /\ is_same_key(b, i - 1, k) /\ sees[i - 1] THEN back[i - 1] ELSE i
      onward[i \in idx + 1 .. Len(b)] ==
        IF ~is_same_key(b, i, k) THEN -1 ELSE IF sees[i] THEN i ELSE onward[i + 1]
  IN  IF idx >= Len(b) THEN -1 ELSE IF sees[idx] THEN back[idx] ELSE onward[idx + 1]

\* The loops of the binary searches from left to n - 1: how far they get that go
\* to the right where direction is > 0, to the left where it is < 0 and stop where
\* it is 0. As many rounds as there are places are enough.
Middle(s) == (s.left + s.right) \div 2

Loop(left, n, direction) ==
  LET round[i \in 0 .. n] ==
        IF i = 0 THEN [left |-> left, right |-> n - 1]
        ELSE LET s == round[i - 1]
             IN  IF s.left > s.right \/ direction[Middle(s)] = 0 THEN s
                 ELSE IF direction[Middle(s)] > 0 THEN [s EXCEPT !.left = Middle(s) + 1]
                 ELSE [s EXCEPT !.right = Middle(s) - 1]
  IN  round[n]

\* An index at which direction is 0, or -1.
Bisect(n, direction) ==
  LET s == Loop(0, n, direction) IN IF s.left > s.right THEN -1 ELSE Middle(s)

\* find_block_idx, by the first and the last keys of the blocks; where no
\* block holds the key, the block that would begin after it.
find_block_idx(meta, k) ==
  LET direction == [i \in 0 .. Len(meta) - 1 |->
                      IF k < meta[i + 1][1] THEN -1 ELSE IF k > meta[i + 1][2] THEN 1 ELSE 0]
      s         == Loop(0, Len(meta), direction)
  IN  IF s.left <= s.right THEN Middle(s) ELSE IF s.left = Len(meta) THEN -1 ELSE s.left

\* SST::get: the block it searches, or -1.
get(bits, meta, k) == IF possibly_contains(bits, k) THEN find_block_idx(meta, k) ELSE -1

\* get_monotony_predicate: the first hit, the leftmost one from the middle
\* down, then the rightmost one from the first hit up.
get_monotony_predicate(b, p) ==
  LET at    == [i \in 0 .. Len(b) - 1 |-> p[b[i + 1][1]]]
      first == Loop(0, Len(b), [i \in DOMAIN at |-> IF at[i] > 0 THEN 1 ELSE -1]).left
      hit   == Bisect(Len(b), at)
      last  == Loop(hit, Len(b), [i \in DOMAIN at |-> IF at[i] < 0 THEN -1 ELSE 1]).right
  IN  IF hit = -1 THEN <<>> ELSE <<first, last + 1>>

(* Range queries of an SST: for p as above, the position of the first hit   *)
(* and the one after the last, as pairs of block and index. At the end of a *)
(* block the latter is a null iterator.                                     *)

Null == -1

\* Mutant of sst_iters_monotony_predicate: each block sets the beginning anew.
RangeOfLast(d, meta, p) ==
  LET range == [j \in DOMAIN d |-> get_monotony_predicate(d[j], p)]
      found == {j \in DOMAIN d : range[j] # <<>>}
      after == range[Max(found)][2]
  IN  IF found = {} THEN <<>>
      ELSE << <<Max(found) - 1, range[Max(found)][1]>>,
              <<Max(found) - 1, IF after = Len(d[Max(found)]) THEN Null ELSE after>> >>

sst_iters_monotony_predicate(d, meta, p) ==
  LET range == [j \in DOMAIN d |->
                  IF p[meta[j][1]] < 0 /\ p[meta[j][2]] > 0 THEN <<>>
                  ELSE get_monotony_predicate(d[j], p)]
      found == {j \in DOMAIN d : range[j] # <<>>}
      after == range[Max(found)][2]
  IN  IF found = {} THEN <<>>
      ELSE << <<Min(found) - 1, range[Min(found)][1]>>,
              <<Max(found) - 1, IF after = Len(d[Max(found)]) THEN Null ELSE after>> >>

-----------------------------------------------------------------------------
(* The builder.                                                            *)

Before(d, e) == d[1] < e[1] \/ (d[1] = e[1] /\ d[2] > e[2])

\* The next entry comes after the last one in the order of the skip list.
Next_entry(e) ==
  /\ phase = "adding" /\ Len(added) < MaxEntries
  /\ added # <<>> => Before(Last(added), e)
  /\ added' = Append(added, e)
  /\ bloom_filter' = bloom_add(bloom_filter, e[1])

\* Mutant of first: the first key of a block is not remembered.
firstForgets(e) == first_key

first(e) == IF first_key = NoKey THEN e[1] ELSE first_key

\* add: into the block at hand, else into a new one; an entry that no block
\* takes is dropped, its key remembered all the same.
add_fits(e) ==
  /\ Next_entry(e)
  /\ Fits(block, e, last_key = e[1])
  /\ block' = Append(block, e)
  /\ first_key' = first(e) /\ last_key' = e[1]
  /\ UNCHANGED <<data, meta_entries, phase>>

\* Mutant of add_finishes: the entry that did not fit is not added again.
add_loses(e) ==
  /\ Next_entry(e)
  /\ ~Fits(block, e, last_key = e[1])
  /\ data' = Append(data, block)
  /\ meta_entries' = Append(meta_entries, <<first(e), last_key>>)
  /\ block' = <<>>
  /\ first_key' = e[1] /\ last_key' = e[1]
  /\ UNCHANGED phase

add_finishes(e) ==
  /\ Next_entry(e)
  /\ ~Fits(block, e, last_key = e[1])
  /\ data' = Append(data, block)
  /\ meta_entries' = Append(meta_entries, <<first(e), last_key>>)
  /\ block' = IF Fits(<<>>, e, FALSE) THEN <<e>> ELSE <<>>
  /\ first_key' = e[1] /\ last_key' = e[1]
  /\ UNCHANGED phase

build ==
  /\ phase = "adding"
  /\ IF block = <<>> THEN UNCHANGED <<data, meta_entries>>
     ELSE /\ data' = Append(data, block)
          /\ meta_entries' = Append(meta_entries, <<first_key, last_key>>)
  /\ phase' = IF meta_entries' = <<>> THEN "thrown" ELSE "built"
  /\ UNCHANGED <<block, first_key, last_key, bloom_filter, added>>

Init ==
  /\ block = <<>> /\ data = <<>> /\ meta_entries = <<>>
  /\ first_key = NoKey /\ last_key = NoKey /\ bloom_filter = NoBits
  /\ phase = "adding" /\ added = <<>>

Next == (\E e \in Entry : add_fits(e) \/ add_finishes(e)) \/ build

Spec == Init /\ [][Next]_vars
-----------------------------------------------------------------------------
(* Properties.                                                             *)

TypeOK ==
  /\ block \in Seq(Entry) /\ data \in Seq(Seq(Entry))
  /\ meta_entries \in Seq(Key \X (Key \cup {NoKey}))
  /\ first_key \in Key \cup {NoKey} /\ last_key \in Key \cup {NoKey}
  /\ bloom_filter \in [Bit -> BOOLEAN] /\ phase \in {"adding", "built", "thrown"}

\* An entry that an empty block would not take.
TooLarge(e) == ~Fits(<<>>, e, FALSE)

\* Two elements of a sequence, in their order.
InOrder(s, d, e) == \E m, n \in DOMAIN s : m < n /\ s[m] = d /\ s[n] = e

\* An SST holds the entries it was given, each once and in their order, but for
\* some that are too large for a block.
KeepsEntries ==
  phase = "built" =>
    /\ \A e \in ToSet(added) :
          TooLarge(e) \/ \E j \in DOMAIN data : \E i \in DOMAIN data[j] : data[j][i] = e
    /\ \A j \in DOMAIN data : \A i \in DOMAIN data[j] : data[j][i] \in ToSet(added)
    /\ \A j, h \in DOMAIN data : \A i \in DOMAIN data[j], g \in DOMAIN data[h] :
         j < h \/ (j = h /\ i < g) => InOrder(added, data[j][i], data[h][g])

\* All versions of a key are in one block, and get finds it: the filter does
\* not refuse the key, neither as it was built nor read back, and a reader looks
\* into no other block.
FindsBlock ==
  phase = "built" =>
    \A j \in DOMAIN data : \A i \in DOMAIN data[j] :
      \A bits \in {bloom_filter, decode(encode(bloom_filter))} :
        get(bits, meta_entries, data[j][i][1]) = j - 1

\* A block outgrows its capacity only by the older versions of a key, which
\* must stay together: with the newest version of each key, it is within the
\* eight bytes that add_entry forgets.
BlockBounded ==
  LET Newest(e) == \A i \in DOMAIN added : added[i][1] = e[1] => added[i][2] <= e[2]
  IN  \A j \in DOMAIN data : \A n \in DOMAIN data[j] :
        Newest(data[j][n]) => cur_size(SubSeq(data[j], 1, n)) <= capacity + 8

\* The versions of the key of b[i] that a reader tr may see, and the newest of
\* them, as an index of the code.
Seen(b, i, tr) == {n \in DOMAIN b : b[n][1] = b[i][1] /\ (tr = 0 \/ b[n][2] <= tr)}

NewestSeen(b, i, tr) ==
  IF Seen(b, i, tr) = {} THEN -1
  ELSE (CHOOSE n \in Seen(b, i, tr) : \A m \in Seen(b, i, tr) : n <= m) - 1

\* The ids were read as they are.
ReadExactly(b, tr, sees) == \A n \in DOMAIN b : sees[n - 1] <=> (tr = 0 \/ b[n][2] <= tr)

\* From any version of a key, adjust_idx_by_tranc_id goes to another one of that
\* key that passed its comparison or to none, whatever was read as the ids; and
\* where the ids were read as they are (and always with tranc_id = 0) to the newest
\* one a reader may see.
AdjustsExactly ==
  \A j \in DOMAIN data : \A i \in DOMAIN data[j], tr \in Tranc :
    \A sees \in get_tranc_id_at(data[j], tr) :
      LET b   == data[j]
          got == adjust_idx_by_tranc_id(b, i - 1, sees)
      IN  /\ got = -1 \/ (got + 1 \in DOMAIN b /\ b[got + 1][1] = b[i][1] /\ sees[got])
          /\ ReadExactly(b, tr, sees) => got = NewestSeen(b, i, tr)

\* A range query of an SST returns exactly its entries in the range, over
\* however many blocks they go, and with blocks that hold none at either end.
RangeExact ==
  phase = "built" => \A lo, hi \in Key :
    LET p    == [k \in Key \cup {NoKey} |-> IF k < lo THEN 1 ELSE IF k > hi THEN -1 ELSE 0]
        got  == sst_iters_monotony_predicate(data, meta_entries, p)
        all  == UNION {{<<j - 1, n - 1>> : n \in DOMAIN data[j]} : j \in DOMAIN data}
        in   == {x \in all : data[x[1] + 1][x[2] + 1][1] \in lo .. hi}
        Before_end(x) == \/ x[1] < got[2][1]
                         \/ x[1] = got[2][1] /\ (got[2][2] = Null \/ x[2] < got[2][2])
        From_begin(x) == x[1] > got[1][1] \/ (x[1] = got[1][1] /\ x[2] >= got[1][2])
    IN  IF in = {} THEN got = <<>>
        ELSE got # <<>> /\ in = {x \in all : From_begin(x) /\ Before_end(x)}
=============================================================================
