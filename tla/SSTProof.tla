------------------------------- MODULE SSTProof -------------------------------
(***************************************************************************)
(* Proofs about SSTs: the filter has no false negatives and survives its   *)
(* encoding, the binary searches end where they should, and what the       *)
(* builder writes is what the searches expect.                             *)
(***************************************************************************)
EXTENDS SSTBuilder, ListLemmas

(* The Bloom filter.                                                       *)

\* Every hash is the number of a bit.
LEMMA HashesAreBits ==
  ASSUME NEW key \in Key
  PROVE  Hashes(key) \subseteq Bit
<1>1. SUFFICES ASSUME NEW idx \in 0 .. num_hashes_ - 1
               PROVE  hash(key, idx) \in Bit
  BY DEF Hashes
<1>2. hash1[key] + idx * hash2[key] \in Nat
  <2>1. hash1[key] \in Nat /\ hash2[key] \in Nat /\ idx \in Nat
    BY BloomAssumption
  <2>2. idx * hash2[key] \in Nat
    BY <2>1
  <2> QED  BY <2>1, <2>2
<1>3. (hash1[key] + idx * hash2[key]) % Word \in Nat
  <2> DEFINE h == hash1[key] + idx * hash2[key]
  <2>1. h \in Nat  BY <1>2
  <2> HIDE DEF h
  <2>2. h % Word \in Nat  BY <2>1, BloomAssumption
  <2> QED  BY <2>2 DEF h
<1> DEFINE w == (hash1[key] + idx * hash2[key]) % Word
<1>4. w \in Nat  BY <1>3
<1> HIDE DEF w
<1>5. w % num_bits_ \in 0 .. num_bits_ - 1  BY <1>4, BloomAssumption
<1> QED  BY <1>5 DEF w, hash, Bit

\* A key that was added is never refused, whatever the hash functions, the
\* number of bits and the width of a word, and whatever is added after it: a
\* get that finds its key refused by the filter may answer without a search.
THEOREM NoFalseNegative ==
  ASSUME NEW bits \in [Bit -> BOOLEAN], NEW key \in Key
  PROVE  /\ bloom_add(bits, key) \in [Bit -> BOOLEAN]
         /\ possibly_contains(bloom_add(bits, key), key)
         /\ \A k \in Key : possibly_contains(bits, k) =>
                             possibly_contains(bloom_add(bits, key), k)
<1>1. bloom_add(bits, key) \in [Bit -> BOOLEAN]
  BY DEF bloom_add
<1>2. possibly_contains(bloom_add(bits, key), key)
  BY HashesAreBits DEF bloom_add, possibly_contains
<1>3. ASSUME NEW k \in Key, possibly_contains(bits, k)
      PROVE  possibly_contains(bloom_add(bits, key), k)
  BY <1>3, HashesAreBits DEF bloom_add, possibly_contains
<1> QED  BY <1>1, <1>2, <1>3

\* The filter that is read back from an SST is the one that was written.
THEOREM DecodeEncode ==
  ASSUME NEW bits \in [Bit -> BOOLEAN]
  PROVE  decode(encode(bits)) = bits
<1>1. SUFFICES ASSUME NEW b \in Bit
               PROVE  encode(bits)[b \div 8][b % 8] = bits[b]
  BY DEF decode
<1>2. /\ b \in Nat /\ b < num_bits_
      /\ b \div 8 \in 0 .. num_bytes - 1 /\ b % 8 \in 0 .. 7
      /\ (b \div 8) * 8 + (b % 8) = b
  <2>1. b \in Nat /\ num_bits_ \in Nat /\ b < num_bits_
    BY BloomAssumption DEF Bit
  <2>2. b % 8 \in 0 .. 7 /\ b \div 8 \in Nat /\ (b \div 8) * 8 + (b % 8) = b
    BY <2>1
  <2> DEFINE n == num_bits_
  <2>3. n \in Nat /\ b < n
    BY <2>1
  <2> HIDE DEF n
  <2>4. b \div 8 <= ((n + 7) \div 8) - 1
    BY <2>1, <2>3
  <2>5. (n + 7) \div 8 \in Nat
    BY <2>3
  <2> QED  BY <2>1, <2>2, <2>4, <2>5 DEF n, num_bytes
<1> DEFINE i == b \div 8
           j == b % 8
<1>3. i \in 0 .. num_bytes - 1 /\ j \in 0 .. 7 /\ i * 8 + j = b /\ b < num_bits_
  BY <1>2
<1> HIDE DEF i, j
<1>4. encode(bits)[i] = [n \in 0 .. 7 |-> IF i * 8 + n < num_bits_ THEN bits[i * 8 + n] ELSE FALSE]
  BY <1>3 DEF encode
<1>5. encode(bits)[i][j] = IF i * 8 + j < num_bits_ THEN bits[i * 8 + j] ELSE FALSE
  BY <1>3, <1>4, Zenon
<1>6. encode(bits)[i][j] = bits[b]
  BY <1>3, <1>5
<1> QED  BY <1>6 DEF i, j
-----------------------------------------------------------------------------
(* The loop of the binary searches.                                        *)

\* Its bounds.
Bounds(n) == [left : 0 .. n, right : -1 .. n - 1]

\* One round of it.
Turn(n, direction) ==
  [s \in Bounds(n) |->
     IF s.left > s.right \/ direction[Middle(s)] = 0 THEN s
     ELSE IF direction[Middle(s)] > 0 THEN [s EXCEPT !.left = Middle(s) + 1]
     ELSE [s EXCEPT !.right = Middle(s) - 1]]

\* The middle of two bounds that have not met is between them.
LEMMA MiddleBetween ==
  ASSUME NEW n \in Nat, NEW s \in Bounds(n), s.left <= s.right
  PROVE  Middle(s) \in s.left .. s.right /\ Middle(s) \in 0 .. n - 1
  <1>1. PICK l \in 0 .. n, r \in -1 .. n - 1 : s.left = l /\ s.right = r
    BY DEF Bounds
  <1>2. l \in Int /\ r \in Int /\ l <= r
    BY <1>1
  <1>3. (l + r) \div 2 \in l .. r
    BY ONLY <1>2
  <1> QED
    BY <1>1, <1>2, <1>3 DEF Middle

LEMMA TurnType ==
  ASSUME NEW n \in Nat, NEW direction
  PROVE  Turn(n, direction) \in [Bounds(n) -> Bounds(n)]
  <1> DEFINE Then(s) ==
        IF s.left > s.right \/ direction[Middle(s)] = 0 THEN s
        ELSE IF direction[Middle(s)] > 0 THEN [s EXCEPT !.left = Middle(s) + 1]
        ELSE [s EXCEPT !.right = Middle(s) - 1]
  <1>1. ASSUME NEW s \in Bounds(n) PROVE Then(s) \in Bounds(n)
    <2>1. CASE s.left > s.right \/ direction[Middle(s)] = 0
      BY <2>1
    <2>2. CASE ~ (s.left > s.right \/ direction[Middle(s)] = 0)
      <3>1. s.left \in 0 .. n /\ s.right \in -1 .. n - 1
        BY DEF Bounds
      <3>2. Middle(s) \in 0 .. n - 1
        BY <2>2, <3>1, MiddleBetween
      <3> DEFINE mid == Middle(s)
      <3>3. mid + 1 \in 0 .. n /\ mid - 1 \in -1 .. n - 1
        BY <3>2
      <3> HIDE DEF mid
      <3>4. [s EXCEPT !.left = mid + 1] \in Bounds(n) /\ [s EXCEPT !.right = mid - 1] \in Bounds(n)
        BY <3>3 DEF Bounds
      <3> QED
        BY <2>2, <3>4 DEF mid
    <2> QED
      BY <2>1, <2>2
  <1>2. Turn(n, direction) = [s \in Bounds(n) |-> Then(s)]
    BY DEF Turn
  <1> HIDE DEF Then
  <1> QED
    BY <1>1, <1>2

\* Loop goes through rounds of one Turn each.
Runs(r, left, n, direction) ==
  /\ r \in [0 .. n -> Bounds(n)]
  /\ r[0] = [left |-> left, right |-> n - 1]
  /\ \A i \in 1 .. n : r[i] = Turn(n, direction)[r[i - 1]]
  /\ Loop(left, n, direction) = r[n]

LEMMA LoopIs ==
  ASSUME NEW n \in Nat, NEW left \in 0 .. n, NEW direction
  PROVE  \E r : Runs(r, left, n, direction)
  <1> DEFINE start == [left |-> left, right |-> n - 1]
             turn == Turn(n, direction)
             step == [i \in 1 .. n |-> turn]
             Recur(h) ==
               h = [i \in 0 .. n |->
                      IF i = 0 THEN [left |-> left, right |-> n - 1]
                      ELSE LET s == h[i - 1]
                           IN  IF s.left > s.right \/ direction[Middle(s)] = 0 THEN s
                               ELSE IF direction[Middle(s)] > 0
                                    THEN [s EXCEPT !.left = Middle(s) + 1]
                               ELSE [s EXCEPT !.right = Middle(s) - 1]]
             Go(h, i) == IF i = 0 THEN start ELSE
                           LET s == h[i - 1]
                           IN  IF s.left > s.right \/ direction[Middle(s)] = 0 THEN s
                               ELSE IF direction[Middle(s)] > 0
                                    THEN [s EXCEPT !.left = Middle(s) + 1]
                               ELSE [s EXCEPT !.right = Middle(s) - 1]
             g == CHOOSE h : Recur(h)
  <1>1. start \in Bounds(n) /\ turn \in [Bounds(n) -> Bounds(n)]
    <2>1. start \in Bounds(n)
      <3>1. n - 1 \in -1 .. n - 1
        OBVIOUS
      <3> QED
        BY <3>1 DEF Bounds
    <2>2. turn \in [Bounds(n) -> Bounds(n)]
      BY TurnType
    <2> QED
      BY ONLY <2>1, <2>2, Zenon
  <1>2. PICK r : Rolls(r, Bounds(n), start, step, n)
    <2> HIDE DEF start, turn
    <2>1. step \in [1 .. n -> [Bounds(n) -> Bounds(n)]]
      BY <1>1
    <2> HIDE DEF step
    <2> QED
      BY <1>1, <2>1, Rounds
  <1>3. /\ r \in [0 .. n -> Bounds(n)] /\ r[0] = start
        /\ \A i \in 1 .. n : r[i] = turn[r[i - 1]]
    <2> HIDE DEF start, turn
    <2> QED
      BY <1>2 DEF Rolls
  <1>4. Loop(left, n, direction) = g[n]
    BY Zenon DEF Loop
  <1>5. \A i \in 0 .. n : r[i] = Go(r, i)
    <2>1. ASSUME NEW i \in 1 .. n PROVE r[i] = Go(r, i)
      <3>1. r[i - 1] \in Bounds(n) /\ i # 0 /\ r[i] = turn[r[i - 1]]
        BY <1>3
      <3> QED
        BY ONLY <3>1, Zenon DEF Turn
    <2>2. r[0] = Go(r, 0)
      BY <1>3
    <2> QED
      BY <2>1, <2>2
  <1>6. Recur(r)
    <2>1. r = [i \in 0 .. n |-> Go(r, i)]
      <3> HIDE DEF Go
      <3> QED
        BY <1>3, <1>5
    <2> QED
      BY ONLY <2>1, Zenon
  <1>7. Recur(g)
    <2> HIDE DEF Recur
    <2> QED
      BY <1>6
  <1>8. \A i \in 0 .. n : g[i] = Go(g, i)
    <2> HIDE DEF g
    <2> QED
      BY ONLY <1>7, Zenon
  <1> HIDE DEF g, Recur
  <1>9. g[n] = r[n]
    <2>1. g[0] = r[0]
      <3>1. 0 \in 0 .. n
        OBVIOUS
      <3>2. g[0] = Go(g, 0) /\ r[0] = Go(r, 0)
        BY ONLY <1>5, <1>8, <3>1, Zenon
      <3> QED
        BY ONLY <3>2, Zenon
    <2>2. ASSUME NEW i \in 1 .. n, g[i - 1] = r[i - 1] PROVE g[i] = r[i]
      <3>1. i \in 0 .. n /\ i # 0
        OBVIOUS
      <3>2. g[i] = Go(g, i) /\ r[i] = Go(r, i)
        <4> HIDE DEF Go
        <4> QED
          BY <1>5, <1>8, <3>1
      <3> QED
        BY ONLY <2>2, <3>1, <3>2, Zenon
    <2>3. \A i \in 0 .. n : g[i] = r[i]
      BY <2>1, <2>2, Alike
    <2> QED
      BY <2>3
  <1> QED
    BY <1>3, <1>4, <1>9 DEF Runs

\* direction is > 0 below a, 0 from a up to b and < 0 from b.
Splits(direction, n, a, b) ==
  \A i \in 0 .. n - 1 : /\ direction[i] \in Int
                        /\ i < a => direction[i] > 0
                        /\ i >= a /\ i < b => direction[i] = 0
                        /\ i >= b => direction[i] < 0

\* Where the loop then ends: between a and b, or with its bounds on either side
\* of the place where direction changes its sign.
Ends(s, a, b) ==
  IF a < b THEN s.left <= s.right /\ Middle(s) \in a .. b - 1
  ELSE s.left = a /\ s.right = a - 1

\* What every round keeps: the bounds are around a and b, and they come closer
\* as long as direction is not 0 between them.
Closing(s, n, a, b, i, direction) ==
  /\ s.left <= a /\ b - 1 <= s.right
  /\ s.right - s.left + 1 <= n - i \/ (s.left <= s.right /\ direction[Middle(s)] = 0)

LEMMA TurnCloses ==
  ASSUME NEW n \in Nat, NEW a \in 0 .. n, NEW b \in a .. n, NEW direction,
         Splits(direction, n, a, b), NEW i \in 0 .. n - 1, NEW s \in Bounds(n),
         Closing(s, n, a, b, i, direction)
  PROVE  Closing(Turn(n, direction)[s], n, a, b, i + 1, direction)
  <1> DEFINE t == Turn(n, direction)[s]
  <1>1. PICK l \in 0 .. n, r \in -1 .. n - 1 : s.left = l /\ s.right = r /\ s = [left |-> l, right |-> r]
    BY DEF Bounds
  <1>2. t = IF l > r \/ direction[Middle(s)] = 0 THEN s
            ELSE IF direction[Middle(s)] > 0 THEN [s EXCEPT !.left = Middle(s) + 1]
            ELSE [s EXCEPT !.right = Middle(s) - 1]
    BY <1>1, Zenon DEF Turn
  <1>3. l <= a /\ b - 1 <= r
    BY <1>1 DEF Closing
  <1> HIDE DEF t
  <1>4. CASE l > r
    <2>1. t = s
      BY <1>2, <1>4
    <2>2. r - l + 1 <= n - (i + 1)
      BY <1>4
    <2> QED
      BY <1>1, <1>3, <2>1, <2>2 DEF Closing, t
  <1>5. CASE l <= r /\ direction[Middle(s)] = 0
    <2>1. t = s
      BY <1>2, <1>5
    <2> QED
      BY <1>1, <1>3, <1>5, <2>1 DEF Closing, t
  <1>6. CASE l <= r /\ direction[Middle(s)] # 0
    <2>1. PICK mid \in 0 .. n - 1 : mid = Middle(s) /\ l <= mid /\ mid <= r
      BY <1>1, <1>6, MiddleBetween
    <2>2. r - l + 1 <= n - i
      BY <1>1, <1>6 DEF Closing
    <2>3. direction[mid] \in Int /\ direction[mid] # 0
      BY <1>6, <2>1 DEF Splits
    <2>4. CASE direction[mid] > 0
      <3>1. t = [left |-> mid + 1, right |-> r]
        BY <1>1, <1>2, <1>6, <2>1, <2>4
      <3>2. mid < a
        BY <2>1, <2>4 DEF Splits
      <3>3. mid + 1 <= a /\ r - (mid + 1) + 1 <= n - (i + 1)
        BY <2>1, <2>2, <3>2
      <3> QED
        BY <1>3, <3>1, <3>3 DEF Closing, t
    <2>5. CASE direction[mid] < 0
      <3>1. ~ (direction[mid] > 0)
        BY <2>3, <2>5
      <3>2. t = [left |-> l, right |-> mid - 1]
        BY <1>1, <1>2, <1>6, <2>1, <3>1
      <3>3. mid >= b
        BY <2>1, <2>5 DEF Splits
      <3>4. b - 1 <= mid - 1 /\ mid - 1 - l + 1 <= n - (i + 1)
        BY <2>1, <2>2, <3>3
      <3> QED
        BY <1>3, <3>2, <3>4 DEF Closing, t
    <2> QED
      BY <2>3, <2>4, <2>5
  <1> QED
    BY <1>1, <1>4, <1>5, <1>6

\* Where the loop ends, from any bound on the left that does not lie beyond a.
LEMMA LoopEnds ==
  ASSUME NEW n \in Nat, NEW a \in 0 .. n, NEW b \in a .. n, NEW left \in 0 .. a,
         NEW direction, Splits(direction, n, a, b)
  PROVE  /\ Loop(left, n, direction) \in Bounds(n)
         /\ Ends(Loop(left, n, direction), a, b)
  <1>0. left \in 0 .. n
    OBVIOUS
  <1>1. PICK r :
           /\ r \in [0 .. n -> Bounds(n)]
           /\ r[0] = [left |-> left, right |-> n - 1]
           /\ \A i \in 1 .. n : r[i] = Turn(n, direction)[r[i - 1]]
           /\ Loop(left, n, direction) = r[n]
    <2>1. PICK r : Runs(r, left, n, direction)
      BY <1>0, LoopIs, Zenon
    <2> QED
      BY <2>1, Zenon DEF Runs
  <1> DEFINE T == {i \in 0 .. n : ~ Closing(r[i], n, a, b, i, direction)}
  <1>2. ASSUME T # {} PROVE FALSE
    <2>1. T \subseteq Nat /\ T \subseteq 0 .. n
      OBVIOUS
    <2>2. PICK i \in T : \A m \in T : i <= m
      <3> HIDE DEF T
      <3> QED
        BY <1>2, <2>1, NatMin
    <2>3. i # 0
      <3>1. Closing(r[0], n, a, b, 0, direction)
        BY <1>1 DEF Closing
      <3> QED
        BY <2>2, <3>1, Zenon
    <2>4. i - 1 \in 0 .. n - 1 /\ i \in 1 .. n /\ i - 1 \in 0 .. n /\ i - 1 \notin T
      <3> HIDE DEF T
      <3> QED
        BY <2>1, <2>2, <2>3
    <2>5. PICK h \in 0 .. n - 1 : h = i - 1
      BY <2>4
    <2>6. Closing(r[h], n, a, b, h, direction) /\ r[h] \in Bounds(n)
      <3>1. h \in 0 .. n /\ h \notin T
        BY <2>4, <2>5
      <3> QED
        BY ONLY <1>1, <3>1, Zenon
    <2>7. Closing(Turn(n, direction)[r[h]], n, a, b, h + 1, direction)
      BY <2>6, TurnCloses
    <2>8. r[i] = Turn(n, direction)[r[h]] /\ h + 1 = i
      BY <1>1, <2>4, <2>5
    <2> QED
      BY ONLY <2>2, <2>7, <2>8, Zenon
  <1>3. PICK s \in Bounds(n) : s = r[n]
    BY <1>1
  <1>4. Closing(s, n, a, b, n, direction)
    <2>1. n \in 0 .. n
      OBVIOUS
    <2> QED
      BY <1>2, <1>3, <2>1, Zenon
  <1>5. s.left \in 0 .. n /\ s.right \in -1 .. n - 1
    BY DEF Bounds
  <1>6. CASE s.left <= s.right /\ direction[Middle(s)] = 0
    <2>1. Middle(s) \in 0 .. n - 1
      BY <1>6, MiddleBetween
    <2>2. PICK mid \in 0 .. n - 1 : mid = Middle(s)
      BY <2>1
    <2>3. a <= mid /\ mid < b
      BY <1>6, <2>2 DEF Splits
    <2> QED
      BY <1>1, <1>3, <1>6, <2>2, <2>3 DEF Ends
  <1>7. CASE s.right - s.left + 1 <= n - n
    <2>1. s.left <= a /\ b - 1 <= s.right
      BY <1>4 DEF Closing
    <2>2. ~ (a < b) /\ s.left = a /\ s.right = a - 1
      BY <1>5, <1>7, <2>1
    <2> QED
      BY <1>1, <1>3, <2>2 DEF Ends
  <1> QED
    BY <1>4, <1>6, <1>7 DEF Closing
-----------------------------------------------------------------------------
(* The searches.                                                           *)

Meta == Key \X (Key \cup {NoKey})

LEMMA KeysAreNat == Key \subseteq Nat /\ Key \cup {NoKey} \subseteq Nat /\ NoKey \notin Key
  BY SSTBuilderAssumption DEF NoKey

\* A block begins above every key of the ones before it.
Ascending(meta) ==
  \A i, j \in DOMAIN meta : i < j => meta[i][1] <= meta[j][1] /\ meta[i][2] < meta[j][1]

\* A key in the range of a block is looked for in that block.
LEMMA FindsIt ==
  ASSUME NEW meta \in Seq(Meta), Ascending(meta), NEW j \in DOMAIN meta, NEW k \in Nat,
         meta[j][1] <= k, k <= meta[j][2]
  PROVE  find_block_idx(meta, k) = j - 1
  <1> DEFINE n == Len(meta)
             dir == [i \in 0 .. Len(meta) - 1 |->
                       IF k < meta[i + 1][1] THEN -1 ELSE IF k > meta[i + 1][2] THEN 1 ELSE 0]
  <1>1. /\ n \in Nat /\ DOMAIN meta = 1 .. n
        /\ \A i \in 1 .. n : meta[i][1] \in Nat /\ meta[i][2] \in Nat
    <2>1. n \in Nat /\ DOMAIN meta = 1 .. n
      BY LenProperties
    <2>2. ASSUME NEW i \in 1 .. n PROVE meta[i][1] \in Nat /\ meta[i][2] \in Nat
      <3>1. meta[i] \in Meta
        BY ElementOfSeq
      <3> QED
        BY <3>1, KeysAreNat DEF Meta
    <2> QED
      BY <2>1, <2>2
  <1>2. j \in 1 .. n /\ j - 1 \in 0 .. n /\ j \in j - 1 .. n /\ 0 \in 0 .. j - 1
    BY <1>1
  <1>3. Splits(dir, n, j - 1, j)
    <2>1. ASSUME NEW i \in 0 .. n - 1
          PROVE  /\ dir[i] \in Int
                 /\ i < j - 1 => dir[i] > 0
                 /\ i >= j - 1 /\ i < j => dir[i] = 0
                 /\ i >= j => dir[i] < 0
      <3>1. i + 1 \in 1 .. n
        BY <1>1
      <3>2. PICK m \in 1 .. n : m = i + 1
        BY <3>1
      <3>3. dir[i] = IF k < meta[m][1] THEN -1 ELSE IF k > meta[m][2] THEN 1 ELSE 0
        BY <3>2
      <3> HIDE DEF dir
      <3>4. meta[m][1] \in Nat /\ meta[m][2] \in Nat /\ meta[j][1] \in Nat /\ meta[j][2] \in Nat
        BY <1>1, <1>2
      <3>5. CASE m < j
        <4>1. meta[m][1] <= meta[j][1] /\ meta[m][2] < meta[j][1]
          BY <1>1, <3>5 DEF Ascending
        <4> QED
          BY <3>2, <3>3, <3>4, <3>5, <4>1
      <3>6. CASE m = j
        BY <3>2, <3>3, <3>4, <3>6
      <3>7. CASE m > j
        <4>1. meta[j][2] < meta[m][1]
          BY <1>1, <3>7 DEF Ascending
        <4> QED
          BY <3>2, <3>3, <3>4, <3>7, <4>1
      <3> QED
        BY <1>2, <3>5, <3>6, <3>7
    <2> HIDE DEF dir, n
    <2> QED
      BY <2>1 DEF Splits
  <1> DEFINE s == Loop(0, n, dir)
  <1>4. s \in Bounds(n) /\ Ends(s, j - 1, j)
    <2> HIDE DEF dir, n
    <2>1. PICK a \in 0 .. n : a = j - 1
      BY <1>2
    <2>2. Splits(dir, n, a, j) /\ j \in a .. n /\ 0 \in 0 .. a
      BY <1>2, <1>3, <2>1
    <2>3. s \in Bounds(n) /\ Ends(s, a, j)
      BY <1>1, <2>2, LoopEnds
    <2> QED
      BY <2>1, <2>3
  <1>5. find_block_idx(meta, k) =
          IF s.left <= s.right THEN Middle(s) ELSE IF s.left = Len(meta) THEN -1 ELSE s.left
    BY Zenon DEF find_block_idx
  <1> HIDE DEF s, dir, n
  <1>6. s.left <= s.right /\ Middle(s) \in j - 1 .. j - 1
    BY <1>2, <1>4 DEF Ends
  <1> QED
    BY <1>2, <1>5, <1>6

\* Values that fall have a place where they pass v.
LEMMA Cut ==
  ASSUME NEW n \in Nat, NEW f \in [0 .. n - 1 -> Int], NEW v \in Int,
         \A i, j \in 0 .. n - 1 : i < j => f[j] <= f[i]
  PROVE  \E a \in 0 .. n : \A i \in 0 .. n - 1 : i < a <=> f[i] > v
  <1> DEFINE T == {i \in 0 .. n : \A j \in 0 .. n - 1 : j >= i => f[j] <= v}
  <1>1. T \subseteq Nat /\ n \in T
    OBVIOUS
  <1>2. PICK a \in T : \A m \in T : a <= m
    <2> HIDE DEF T
    <2> QED
      BY <1>1, NatMin
  <1>3. a \in 0 .. n /\ \A j \in 0 .. n - 1 : j >= a => f[j] <= v
    OBVIOUS
  <1>4. ASSUME NEW i \in 0 .. n - 1, i < a, f[i] <= v PROVE FALSE
    <2>1. i \in 0 .. n /\ \A j \in 0 .. n - 1 : j >= i => f[j] <= v
      BY <1>4
    <2>2. i \in T
      BY <2>1
    <2> HIDE DEF T
    <2> QED
      BY <1>2, <1>3, <1>4, <2>2
  <1> HIDE DEF T
  <1>5. ASSUME NEW i \in 0 .. n - 1 PROVE i < a <=> f[i] > v
    <2>1. f[i] \in Int /\ a \in Int /\ i \in Int
      BY <1>3
    <2>2. i < a => f[i] > v
      BY <1>4, <2>1
    <2>3. i >= a => f[i] <= v
      BY <1>3
    <2> QED
      BY <2>1, <2>2, <2>3
  <1> QED
    BY <1>3, <1>5

\* The predicate of a range query.
Query(lo, hi) == [k \in Key \cup {NoKey} |-> IF k < lo THEN 1 ELSE IF k > hi THEN -1 ELSE 0]

\* The keys of a block do not fall.
Rising(b) == \A i, j \in DOMAIN b : i < j => b[i][1] <= b[j][1]

\* The entries of a block that are in a range are those from a up to c.
Cuts(b, lo, hi, a, c) ==
  \A i \in DOMAIN b : /\ i - 1 < a <=> b[i][1] < lo
                      /\ i - 1 < c <=> (b[i][1] < lo \/ b[i][1] <= hi)

RangeIs(b, lo, hi, a, c) ==
  /\ a \in 0 .. Len(b) /\ c \in a .. Len(b)
  /\ Cuts(b, lo, hi, a, c)
  /\ get_monotony_predicate(b, Query(lo, hi)) = IF a = c THEN <<>> ELSE <<a, c>>

\* A range query of a block.
LEMMA RangeOfBlock ==
  ASSUME NEW b \in Seq(Entry), Rising(b), NEW lo \in Key, NEW hi \in Key
  PROVE  \E a, c : RangeIs(b, lo, hi, a, c)
  <1> DEFINE n  == Len(b)
             p  == Query(lo, hi)
             at == [i \in 0 .. Len(b) - 1 |-> p[b[i + 1][1]]]
             up == [i \in DOMAIN at |-> IF at[i] > 0 THEN 1 ELSE -1]
             dn == [i \in DOMAIN at |-> IF at[i] < 0 THEN -1 ELSE 1]
  <1>1. /\ n \in Nat /\ DOMAIN b = 1 .. n /\ lo \in Nat /\ hi \in Nat
        /\ \A i \in 1 .. n : b[i][1] \in Key /\ b[i][1] \in Nat
    <2>1. n \in Nat /\ DOMAIN b = 1 .. n
      BY LenProperties
    <2>2. ASSUME NEW i \in 1 .. n PROVE b[i][1] \in Key /\ b[i][1] \in Nat
      <3>1. b[i] \in Entry
        BY ElementOfSeq
      <3> QED
        BY <3>1, KeysAreNat DEF Entry
    <2> QED
      BY <2>1, <2>2, KeysAreNat
  <1>2. \A i \in 0 .. n - 1 :
           /\ i + 1 \in 1 .. n
           /\ at[i] = IF b[i + 1][1] < lo THEN 1 ELSE IF b[i + 1][1] > hi THEN -1 ELSE 0
    <2>1. ASSUME NEW i \in 0 .. n - 1
          PROVE  /\ i + 1 \in 1 .. n
                 /\ at[i] = IF b[i + 1][1] < lo THEN 1 ELSE IF b[i + 1][1] > hi THEN -1 ELSE 0
      <3>1. i + 1 \in 1 .. n
        BY <1>1
      <3>2. b[i + 1][1] \in Key \cup {NoKey}
        BY <1>1, <3>1
      <3>3. at[i] = p[b[i + 1][1]]
        OBVIOUS
      <3> QED
        BY ONLY <3>1, <3>2, <3>3 DEF Query, p
    <2> QED
      BY <2>1
  <1>3. at \in [0 .. n - 1 -> Int]
    <2>1. \A i \in 0 .. n - 1 : at[i] \in Int
      BY <1>2
    <2> QED
      BY <2>1
  <1>4. ASSUME NEW i \in 0 .. n - 1, NEW j \in 0 .. n - 1, i < j PROVE at[j] <= at[i]
    <2>1. PICK k \in 1 .. n, m \in 1 .. n : k = i + 1 /\ m = j + 1
      BY <1>2
    <2>2. b[k][1] <= b[m][1]
      BY <1>1, <1>4, <2>1 DEF Rising
    <2>3. /\ at[i] = IF b[k][1] < lo THEN 1 ELSE IF b[k][1] > hi THEN -1 ELSE 0
          /\ at[j] = IF b[m][1] < lo THEN 1 ELSE IF b[m][1] > hi THEN -1 ELSE 0
      BY <1>2, <2>1
    <2> HIDE DEF at
    <2> QED
      BY <1>1, <2>2, <2>3
  <1> HIDE DEF at, n
  <1>5. PICK a \in 0 .. n : \A i \in 0 .. n - 1 : i < a <=> at[i] > 0
    <2>1. \A i, j \in 0 .. n - 1 : i < j => at[j] <= at[i]
      BY <1>4
    <2>2. n \in Nat /\ at \in [0 .. n - 1 -> Int] /\ 0 \in Int
      BY <1>1, <1>3
    <2> QED
      BY ONLY <2>1, <2>2, Cut
  <1>6. PICK c \in 0 .. n : \A i \in 0 .. n - 1 : i < c <=> at[i] > -1
    <2>1. \A i, j \in 0 .. n - 1 : i < j => at[j] <= at[i]
      BY <1>4
    <2>2. n \in Nat /\ at \in [0 .. n - 1 -> Int] /\ -1 \in Int
      BY <1>1, <1>3
    <2> QED
      BY ONLY <2>1, <2>2, Cut
  <1>7. a <= c
    <2>1. ASSUME c < a PROVE FALSE
      <3>1. c \in 0 .. n - 1 /\ at[c] \in Int
        BY <1>1, <1>3, <2>1
      <3>2. at[c] > 0 /\ ~ (at[c] > -1)
        BY <1>5, <1>6, <2>1, <3>1
      <3> QED
        BY <3>1, <3>2
    <2> QED
      BY <2>1
  <1>8. c \in a .. n /\ 0 \in 0 .. a /\ 0 \in 0 .. c /\ a \in a .. n /\ c \in c .. n
    BY <1>1, <1>7
  <1>9. \A i \in 0 .. n - 1 : /\ at[i] \in Int
                              /\ i < a <=> at[i] > 0
                              /\ i < c <=> at[i] > -1
    BY <1>3, <1>5, <1>6
  <1>10. Splits(at, n, a, c) /\ Splits(up, n, a, a) /\ Splits(dn, n, c, c)
    <2>1. DOMAIN at = 0 .. n - 1
      BY <1>3
    <2>2. Splits(at, n, a, c)
      BY <1>8, <1>9 DEF Splits
    <2>3. \A i \in 0 .. n - 1 : /\ up[i] = IF at[i] > 0 THEN 1 ELSE -1
                                /\ dn[i] = IF at[i] < 0 THEN -1 ELSE 1
      BY <2>1
    <2> HIDE DEF up, dn
    <2>4. Splits(up, n, a, a)
      BY <1>8, <1>9, <2>3 DEF Splits
    <2>5. Splits(dn, n, c, c)
      BY <1>8, <1>9, <2>3 DEF Splits
    <2> QED
      BY <2>2, <2>4, <2>5
  <1> DEFINE s   == Loop(0, n, at)
             hit == Bisect(n, at)
             fst == Loop(0, n, up)
             lst == Loop(hit, n, dn)
  <1>11. get_monotony_predicate(b, p) = IF hit = -1 THEN <<>> ELSE <<fst.left, lst.right + 1>>
    BY Zenon DEF get_monotony_predicate, at, n
  <1> HIDE DEF up, dn, n, p
  <1>12. Ends(s, a, c) /\ s \in Bounds(n)
    BY <1>1, <1>8, <1>10, LoopEnds
  <1>13. fst.left = a
    <2>1. Ends(fst, a, a)
      BY <1>1, <1>8, <1>10, LoopEnds
    <2> QED
      BY <2>1 DEF Ends
  <1>14. hit = IF s.left > s.right THEN -1 ELSE Middle(s)
    BY Zenon DEF Bisect
  <1> HIDE DEF s, hit, fst
  <1>17. get_monotony_predicate(b, p) = IF a = c THEN <<>> ELSE <<a, c>>
    <2>1. CASE a = c
      <3>1. s.left > s.right
        BY <1>5, <1>12, <2>1 DEF Ends
      <3>2. hit = -1
        BY <1>14, <3>1
      <3> QED
        BY <1>11, <2>1, <3>2
    <2>2. CASE a < c
      <3>1. s.left <= s.right /\ Middle(s) \in a .. c - 1 /\ s.left \in Int /\ s.right \in Int
        BY <1>12, <2>2 DEF Ends, Bounds
      <3>2. hit \in a .. c - 1
        BY <1>14, <3>1
      <3>3. hit \in 0 .. c /\ hit # -1
        BY <1>8, <3>2
      <3>4. Ends(lst, c, c)
        BY <1>1, <1>8, <1>10, <3>3, LoopEnds
      <3>5. lst.right + 1 = c
        <4>1. lst.right = c - 1
          BY <3>4 DEF Ends
        <4> QED
          BY <1>6, <4>1
      <3> QED
        BY <1>5, <1>11, <1>13, <2>2, <3>3, <3>5
    <2> QED
      BY <1>5, <1>6, <1>7, <2>1, <2>2
  <1>18. Cuts(b, lo, hi, a, c)
    <2>1. ASSUME NEW i \in 1 .. n
          PROVE  /\ i - 1 < a <=> b[i][1] < lo
                 /\ i - 1 < c <=> (b[i][1] < lo \/ b[i][1] <= hi)
      <3>1. PICK m \in 0 .. n - 1 : m = i - 1 /\ m + 1 = i
        BY <1>1
      <3>2. at[m] = IF b[i][1] < lo THEN 1 ELSE IF b[i][1] > hi THEN -1 ELSE 0
        BY <1>2, <3>1
      <3>3. m < a <=> at[m] > 0
        BY <1>9
      <3>4. m < c <=> at[m] > -1
        BY <1>9
      <3>5. b[i][1] \in Nat
        BY <1>1
      <3> QED
        BY <1>1, <3>1, <3>2, <3>3, <3>4, <3>5
    <2> QED
      BY <1>1, <2>1 DEF Cuts
  <1>19. a \in 0 .. Len(b) /\ c \in a .. Len(b)
    BY <1>8 DEF n
  <1> QED
    BY <1>17, <1>18, <1>19 DEF RangeIs, p
-----------------------------------------------------------------------------
(* The size of a block.                                                    *)

Sums(r, b) ==
  /\ r \in [0 .. Len(b) -> Nat] /\ r[0] = 0
  /\ \A i \in 1 .. Len(b) : r[i] = r[i - 1] + EntryBytes(b[i])

LEMMA EntryType ==
  ASSUME NEW e \in Entry
  PROVE  /\ e[1] \in Key /\ e[1] \in Nat \ {0} /\ e[2] \in Nat /\ e[2] \in Tranc /\ e[3] \in Nat
         /\ EntryBytes(e) \in Nat /\ KeyBytes \in Nat /\ EntryBytes(e) = KeyBytes + e[3] + 12
  <1>1. PICK k \in Key, t \in Tranc, l \in Length : e = <<k, t, l>>
    BY DEF Entry
  <1>2. k \in Nat \ {0} /\ t \in Nat /\ l \in Nat /\ KeyBytes \in Nat
    BY SSTBuilderAssumption DEF Tranc
  <1>3. e[1] = k /\ e[2] = t /\ e[3] = l
    BY <1>1
  <1>4. EntryBytes(e) = KeyBytes + l + 12
    BY <1>3 DEF EntryBytes
  <1> QED
    BY <1>2, <1>3, <1>4

LEMMA BytesIs ==
  ASSUME NEW b \in Seq(Entry)
  PROVE  \E r : Sums(r, b)
  <1> DEFINE n    == Len(b)
             step == [i \in 1 .. n |-> [x \in Nat |-> x + EntryBytes(b[i])]]
  <1>1. n \in Nat /\ \A i \in 1 .. n : b[i] \in Entry
    BY LenProperties, ElementOfSeq
  <1> HIDE DEF n
  <1>2. ASSUME NEW i \in 1 .. n PROVE step[i] \in [Nat -> Nat]
    <2>1. EntryBytes(b[i]) \in Nat
      BY <1>1, EntryType
    <2> QED
      BY <2>1
  <1>3. step \in [1 .. n -> [Nat -> Nat]]
    BY <1>2
  <1>4. PICK r : Rolls(r, Nat, 0, step, n)
    <2> HIDE DEF step
    <2> QED
      BY <1>1, <1>3, Rounds
  <1>5. r \in [0 .. n -> Nat] /\ r[0] = 0 /\ \A i \in 1 .. n : r[i] = step[i][r[i - 1]]
    BY <1>4, Zenon DEF Rolls
  <1>6. ASSUME NEW i \in 1 .. n PROVE r[i] = r[i - 1] + EntryBytes(b[i])
    <2>1. r[i - 1] \in Nat
      BY <1>1, <1>5
    <2>2. step[i][r[i - 1]] = r[i - 1] + EntryBytes(b[i])
      BY <2>1
    <2> QED
      BY <1>5, <2>2
  <1> QED
    BY <1>5, <1>6 DEF Sums, n

LEMMA BytesAre ==
  ASSUME NEW b \in Seq(Entry), NEW r, Sums(r, b)
  PROVE  DataBytes(b) = r[Len(b)]
  <1> DEFINE n        == Len(b)
             Go(h, i) == IF i = 0 THEN 0 ELSE h[i - 1] + EntryBytes(b[i])
             Recur(h) == h = [i \in 0 .. Len(b) |->
                                IF i = 0 THEN 0 ELSE h[i - 1] + EntryBytes(b[i])]
             g        == CHOOSE h : Recur(h)
  <1>1. n \in Nat
    BY LenProperties
  <1>2. DataBytes(b) = g[n]
    BY Zenon DEF DataBytes
  <1>3. /\ r \in [0 .. n -> Nat] /\ r[0] = 0
        /\ \A i \in 1 .. n : r[i] = r[i - 1] + EntryBytes(b[i])
    BY DEF Sums
  <1>4. \A i \in 0 .. n : r[i] = Go(r, i)
    BY <1>1, <1>3
  <1>5. Recur(r)
    <2>1. r = [i \in 0 .. n |-> Go(r, i)]
      <3> HIDE DEF Go
      <3> QED
        BY <1>3, <1>4
    <2> QED
      BY ONLY <2>1, Zenon
  <1>6. Recur(g)
    <2> HIDE DEF Recur
    <2> QED
      BY <1>5
  <1>7. \A i \in 0 .. n : g[i] = Go(g, i)
    <2> HIDE DEF g
    <2> QED
      BY ONLY <1>6, Zenon
  <1> HIDE DEF g, Recur, n
  <1>8. g[0] = r[0] /\ \A i \in 1 .. n : g[i - 1] = r[i - 1] => g[i] = r[i]
    BY <1>1, <1>4, <1>7
  <1>9. \A i \in 0 .. n : g[i] = r[i]
    <2> HIDE DEF Go
    <2> QED
      BY <1>1, <1>8, Alike
  <1> QED
    BY <1>1, <1>2, <1>9 DEF n

\* An entry adds its own bytes to a block.
LEMMA BytesGrow ==
  ASSUME NEW b \in Seq(Entry), NEW e \in Entry
  PROVE  /\ DataBytes(b) \in Nat
         /\ DataBytes(Append(b, e)) = DataBytes(b) + EntryBytes(e)
         /\ cur_size(Append(b, e)) = cur_size(b) + EntryBytes(e) + 2
  <1> DEFINE n == Len(b)
             c == Append(b, e)
  <1>1. /\ n \in Nat /\ c \in Seq(Entry) /\ Len(c) = n + 1
        /\ \A i \in 1 .. n : c[i] = b[i]
        /\ c[n + 1] = e
    BY AppendProperties, LenProperties
  <1> HIDE DEF n, c
  <1>2. PICK r : Sums(r, c)
    BY <1>1, BytesIs
  <1>3. DataBytes(c) = r[n + 1]
    BY <1>1, <1>2, BytesAre
  <1>4. /\ r \in [0 .. n + 1 -> Nat] /\ r[0] = 0
        /\ \A i \in 1 .. n + 1 : r[i] = r[i - 1] + EntryBytes(c[i])
    BY <1>1, <1>2 DEF Sums
  <1> DEFINE q == [i \in 0 .. n |-> r[i]]
  <1>5. q \in [0 .. n -> Nat] /\ q[0] = 0 /\ q[n] = r[n] /\ r[n] \in Nat
    BY <1>1, <1>4
  <1>6. ASSUME NEW i \in 1 .. n PROVE q[i] = q[i - 1] + EntryBytes(b[i])
    <2>1. i \in 0 .. n /\ i - 1 \in 0 .. n /\ i \in 1 .. n + 1
      BY <1>1
    <2>2. q[i] = r[i] /\ q[i - 1] = r[i - 1]
      BY <2>1
    <2> HIDE DEF q
    <2> QED
      BY <1>1, <1>4, <2>1, <2>2
  <1> HIDE DEF q
  <1>7. Sums(q, b)
    BY <1>5, <1>6 DEF Sums, n
  <1>8. DataBytes(b) = r[n]
    BY <1>5, <1>7, BytesAre DEF n
  <1>9. r[n + 1] = r[n] + EntryBytes(e)
    <2>1. n + 1 \in 1 .. n + 1 /\ n + 1 - 1 = n
      BY <1>1
    <2> QED
      BY <1>1, <1>4, <2>1
  <1>10. DataBytes(c) = DataBytes(b) + EntryBytes(e) /\ DataBytes(b) \in Nat
    BY <1>3, <1>5, <1>8, <1>9
  <1>11. cur_size(c) = cur_size(b) + EntryBytes(e) + 2
    <2>1. cur_size(c) = DataBytes(c) + 2 * (n + 1) + 2 /\ cur_size(b) = DataBytes(b) + 2 * n + 2
      BY <1>1 DEF cur_size, n
    <2>2. EntryBytes(e) \in Nat
      BY EntryType
    <2> QED
      BY <1>1, <1>10, <2>1, <2>2
  <1> QED
    BY <1>10, <1>11 DEF c
-----------------------------------------------------------------------------
(* What the builder keeps.                                                 *)

\* The entries of a block are in the order of the skip list.
Sorted(b) == \A i, j \in DOMAIN b : i < j => Before(b[i], b[j])

\* The filter takes every key of a block.
Filtered(b, bits) == \A i \in DOMAIN b : possibly_contains(bits, b[i][1])

\* An entry that has no newer version is within the capacity of the block.
Sized(b, given) ==
  \A n \in DOMAIN b :
    \/ \E i \in DOMAIN given : given[i][1] = b[n][1] /\ given[i][2] > b[n][2]
    \/ cur_size(SubSeq(b, 1, n)) <= capacity + 8

\* The keys of a block are between its first and its last key.
Ranged(b, lo, hi) == \A i \in DOMAIN b : lo <= b[i][1] /\ b[i][1] <= hi

\* The blocks d that are finished, of ranges m, in a filter and of entries given.
Stored(d, m, bits, given) ==
  /\ Len(d) = Len(m) /\ Ascending(m)
  /\ \A j \in DOMAIN d : /\ Sorted(d[j]) /\ Filtered(d[j], bits) /\ Sized(d[j], given)
                         /\ Ranged(d[j], m[j][1], m[j][2])

\* The block at hand: it begins above the ones that are finished, and ends
\* with the last entry that was added.
Hand ==
  /\ Sorted(block) /\ Filtered(block, bloom_filter) /\ Sized(block, added)
  /\ Ranged(block, first_key, last_key)
  /\ \A j \in DOMAIN meta_entries : meta_entries[j][1] <= first_key /\ meta_entries[j][2] < first_key
  /\ IF added = <<>> THEN first_key = NoKey /\ last_key = NoKey /\ block = <<>>
                          /\ meta_entries = <<>>
     ELSE /\ first_key # NoKey /\ first_key <= last_key
          /\ added[Len(added)][1] = last_key
          /\ \A i \in DOMAIN block : block[i] = added[Len(added)]
                                     \/ Before(block[i], added[Len(added)])

Inv == /\ TypeOK /\ added \in Seq(Entry) /\ Stored(data, meta_entries, bloom_filter, added)
       /\ (phase = "adding" => Hand)

LEMMA AppendIs ==
  ASSUME NEW S, NEW b \in Seq(S), NEW e \in S
  PROVE  /\ Append(b, e) \in Seq(S) /\ Len(b) \in Nat /\ Len(Append(b, e)) = Len(b) + 1
         /\ DOMAIN b = 1 .. Len(b) /\ DOMAIN Append(b, e) = 1 .. Len(b) + 1
         /\ \A i \in 1 .. Len(b) : Append(b, e)[i] = b[i] /\ b[i] \in S
         /\ Append(b, e)[Len(b) + 1] = e
  BY AppendProperties, LenProperties, ElementOfSeq

LEMMA Prefix ==
  ASSUME NEW S, NEW b \in Seq(S), NEW e \in S, NEW m \in 1 .. Len(b)
  PROVE  SubSeq(Append(b, e), 1, m) = SubSeq(b, 1, m)
  <1> DEFINE c == Append(b, e)
             s == SubSeq(c, 1, m)
             t == SubSeq(b, 1, m)
  <1>1. m \in Nat /\ 1 <= m /\ 1 \in Int /\ \A i \in 1 .. m : b[i] \in S /\ c[i] = b[i]
    BY AppendIs
  <1> HIDE DEF c
  <1>2. /\ s \in Seq(S) /\ Len(s) = m /\ \A i \in 1 .. m : s[i] = b[i]
        /\ t \in Seq(S) /\ Len(t) = m /\ \A i \in 1 .. m : t[i] = b[i]
    BY <1>1, SubSeqProperties
  <1> HIDE DEF s, t
  <1>3. s = t
    BY <1>2, LenProperties
  <1> QED
    BY <1>3 DEF s, t, c

LEMMA BeforeTransitive ==
  ASSUME NEW c \in Entry, NEW d \in Entry, NEW e \in Entry, Before(c, d), Before(d, e)
  PROVE  Before(c, e)
  BY EntryType DEF Before

LEMMA SortedGrows ==
  ASSUME NEW b \in Seq(Entry), NEW e \in Entry, Sorted(b), \A i \in DOMAIN b : Before(b[i], e)
  PROVE  Sorted(Append(b, e))
  <1> DEFINE n == Len(b)
             c == Append(b, e)
  <1>1. /\ n \in Nat /\ DOMAIN b = 1 .. n /\ DOMAIN c = 1 .. n + 1
        /\ \A i \in 1 .. n : c[i] = b[i]
        /\ c[n + 1] = e
    BY AppendIs
  <1> HIDE DEF n, c
  <1>2. ASSUME NEW i \in 1 .. n + 1, NEW j \in 1 .. n + 1, i < j PROVE Before(c[i], c[j])
    <2>1. i \in 1 .. n /\ c[i] = b[i]
      BY <1>1, <1>2
    <2>2. CASE j \in 1 .. n
      BY <1>1, <1>2, <2>1, <2>2 DEF Sorted
    <2>3. CASE j = n + 1
      BY <1>1, <2>1, <2>3
    <2> QED
      BY <1>1, <2>2, <2>3
  <1>3. Sorted(c)
    BY <1>1, <1>2 DEF Sorted
  <1> QED
    BY <1>3 DEF c

\* An entry that fits is within eight bytes of the capacity.
LEMMA SizedGrows ==
  ASSUME NEW b \in Seq(Entry), NEW e \in Entry, NEW given, Sized(b, given),
         \/ Fits(b, e, FALSE)
         \/ \E i \in DOMAIN given : given[i][1] = e[1] /\ given[i][2] > e[2]
  PROVE  Sized(Append(b, e), given)
  <1> DEFINE n == Len(b)
             c == Append(b, e)
             Older(d) == \E i \in DOMAIN given : given[i][1] = d[1] /\ given[i][2] > d[2]
  <1>1. /\ n \in Nat /\ DOMAIN b = 1 .. n /\ DOMAIN c = 1 .. n + 1 /\ Len(c) = n + 1
        /\ \A i \in 1 .. n : c[i] = b[i]
        /\ c[n + 1] = e /\ c \in Seq(Entry)
    BY AppendIs
  <1>2. cur_size(c) = cur_size(b) + KeyBytes + e[3] + 14 /\ cur_size(b) \in Nat
    <2>1. cur_size(c) = cur_size(b) + EntryBytes(e) + 2 /\ DataBytes(b) \in Nat
      BY BytesGrow
    <2>2. EntryBytes(e) = KeyBytes + e[3] + 12 /\ KeyBytes \in Nat /\ e[3] \in Nat
      BY EntryType
    <2>3. cur_size(b) \in Nat
      BY <1>1, <2>1 DEF cur_size
    <2> QED
      BY <2>1, <2>2, <2>3
  <1>3. \A m \in 1 .. n : SubSeq(c, 1, m) = SubSeq(b, 1, m)
    BY Prefix
  <1>4. SubSeq(c, 1, n + 1) = c
    BY <1>1, SubSeqFull
  <1> HIDE DEF n, c
  <1>5. ASSUME NEW m \in 1 .. n + 1 PROVE Older(c[m]) \/ cur_size(SubSeq(c, 1, m)) <= capacity + 8
    <2>1. CASE m \in 1 .. n
      <3>1. c[m] = b[m] /\ SubSeq(c, 1, m) = SubSeq(b, 1, m)
        BY <1>1, <1>3, <2>1
      <3>2. Older(b[m]) \/ cur_size(SubSeq(b, 1, m)) <= capacity + 8
        BY ONLY <1>1, <2>1, Sized(b, given), Zenon DEF Sized
      <3> QED
        BY ONLY <3>1, <3>2, Zenon
    <2>2. CASE m = n + 1 /\ Fits(b, e, FALSE)
      <3>1. cur_size(b) + KeyBytes + e[3] + 6 <= capacity
        BY <2>2 DEF Fits
      <3>2. KeyBytes \in Nat /\ e[3] \in Nat /\ capacity \in Nat
        BY EntryType, SSTBuilderAssumption
      <3>3. cur_size(c) <= capacity + 8
        BY ONLY <1>2, <3>1, <3>2
      <3>4. SubSeq(c, 1, m) = c
        BY <1>4, <2>2
      <3> QED
        BY ONLY <3>3, <3>4, Zenon
    <2>3. CASE m = n + 1 /\ Older(e)
      BY ONLY <1>1, <2>3, Zenon
    <2>4. Fits(b, e, FALSE) \/ Older(e)
      OBVIOUS
    <2>5. m \in 1 .. n \/ m = n + 1
      BY <1>1
    <2> QED
      BY ONLY <2>1, <2>2, <2>3, <2>4, <2>5, Zenon
  <1>6. Sized(c, given)
    BY ONLY <1>1, <1>5, Zenon DEF Sized
  <1> QED
    BY <1>6 DEF c

\* A block is finished.
LEMMA StoredGrows ==
  ASSUME NEW d \in Seq(Seq(Entry)), NEW m \in Seq(Meta), NEW b \in Seq(Entry),
         NEW f \in Key, NEW l \in Key \cup {NoKey}, NEW bits, NEW given,
         Stored(d, m, bits, given),
         Sorted(b), Filtered(b, bits), Sized(b, given), Ranged(b, f, l),
         \A j \in DOMAIN m : m[j][1] <= f /\ m[j][2] < f
  PROVE  Stored(Append(d, b), Append(m, <<f, l>>), bits, given)
  <1> DEFINE n == Len(d)
             x == Append(d, b)
             r == <<f, l>>
             y == Append(m, r)
  <1>1. r \in Meta /\ r[1] = f /\ r[2] = l
    BY DEF Meta
  <1> HIDE DEF r
  <1>2. /\ n \in Nat /\ DOMAIN d = 1 .. n /\ DOMAIN x = 1 .. n + 1 /\ Len(x) = n + 1
        /\ \A j \in 1 .. n : x[j] = d[j]
        /\ x[n + 1] = b
    BY AppendIs
  <1>3. /\ Len(m) = n /\ DOMAIN m = 1 .. n /\ DOMAIN y = 1 .. n + 1 /\ Len(y) = n + 1
        /\ \A j \in 1 .. n : y[j] = m[j]
        /\ y[n + 1] = r
    <2>1. Len(m) = n
      BY DEF Stored
    <2> QED
      BY <1>1, <2>1, AppendIs
  <1> HIDE DEF n, x, y
  <1>4. Ascending(y)
    <2>1. ASSUME NEW i \in 1 .. n + 1, NEW j \in 1 .. n + 1, i < j
          PROVE  y[i][1] <= y[j][1] /\ y[i][2] < y[j][1]
      <3>1. i \in 1 .. n /\ y[i] = m[i]
        BY <1>2, <1>3, <2>1
      <3>2. CASE j \in 1 .. n
        <4>1. Ascending(m) /\ y[j] = m[j]
          BY <1>3, <3>2 DEF Stored
        <4> QED
          BY <1>3, <2>1, <3>1, <3>2, <4>1 DEF Ascending
      <3>3. CASE j = n + 1
        <4>1. y[j][1] = f
          BY <1>1, <1>3, <3>3
        <4> QED
          BY <1>3, <3>1, <4>1
      <3> QED
        BY <1>2, <3>2, <3>3
    <2> QED
      BY <1>3, <2>1 DEF Ascending
  <1>5. ASSUME NEW j \in 1 .. n + 1
        PROVE  /\ Sorted(x[j]) /\ Filtered(x[j], bits) /\ Sized(x[j], given)
               /\ Ranged(x[j], y[j][1], y[j][2])
    <2>1. CASE j \in 1 .. n
      <3>1. x[j] = d[j] /\ y[j] = m[j]
        BY <1>2, <1>3, <2>1
      <3> QED
        BY <1>2, <2>1, <3>1 DEF Stored
    <2>2. CASE j = n + 1
      <3>1. x[j] = b /\ y[j][1] = f /\ y[j][2] = l
        BY <1>1, <1>2, <1>3, <2>2
      <3> QED
        BY <3>1
    <2> QED
      BY <1>2, <2>1, <2>2
  <1>6. Stored(x, y, bits, given)
    BY <1>2, <1>3, <1>4, <1>5 DEF Stored
  <1> QED
    BY <1>6 DEF x, y, r

\* What adding an entry does besides placing it.
LEMMA AddKeeps ==
  ASSUME Inv, NEW e \in Entry, Next_entry(e)
  PROVE  /\ phase = "adding" /\ Hand
         /\ added' \in Seq(Entry) /\ added' # <<>> /\ added'[Len(added')] = e
         /\ bloom_filter' \in [Bit -> BOOLEAN] /\ possibly_contains(bloom_filter', e[1])
         /\ \A b \in Seq(Entry) :
              /\ Filtered(b, bloom_filter) => Filtered(b, bloom_filter')
              /\ Sized(b, added) => Sized(b, added')
         /\ Stored(data, meta_entries, bloom_filter', added')
  <1>1. phase = "adding" /\ Hand /\ added \in Seq(Entry) /\ bloom_filter \in [Bit -> BOOLEAN]
    BY DEF Inv, Next_entry, TypeOK
  <1>2. added' = Append(added, e) /\ bloom_filter' = bloom_add(bloom_filter, e[1])
    BY DEF Next_entry
  <1>3. e[1] \in Key
    BY EntryType
  <1>4. /\ bloom_filter' \in [Bit -> BOOLEAN] /\ possibly_contains(bloom_filter', e[1])
        /\ \A k \in Key : possibly_contains(bloom_filter, k) => possibly_contains(bloom_filter', k)
    BY <1>1, <1>2, <1>3, NoFalseNegative
  <1>5. /\ added' \in Seq(Entry) /\ Len(added) \in Nat /\ Len(added') = Len(added) + 1
        /\ DOMAIN added = 1 .. Len(added) /\ DOMAIN added' = 1 .. Len(added) + 1
        /\ \A i \in 1 .. Len(added) : added'[i] = added[i]
        /\ added'[Len(added) + 1] = e
    BY <1>1, <1>2, AppendIs
  <1>6. added' # <<>>
    BY <1>5
  <1>7. ASSUME NEW b \in Seq(Entry)
        PROVE  /\ Filtered(b, bloom_filter) => Filtered(b, bloom_filter')
               /\ Sized(b, added) => Sized(b, added')
    <2>1. \A i \in DOMAIN b : b[i][1] \in Key
      <3>1. \A i \in DOMAIN b : b[i] \in Entry
        BY LenProperties, ElementOfSeq
      <3> QED
        BY <3>1, EntryType
    <2>2. Filtered(b, bloom_filter) => Filtered(b, bloom_filter')
      BY <1>4, <2>1 DEF Filtered
    <2>3. ASSUME NEW k, NEW t, \E i \in DOMAIN added : added[i][1] = k /\ added[i][2] > t
          PROVE  \E i \in DOMAIN added' : added'[i][1] = k /\ added'[i][2] > t
      BY <1>5, <2>3
    <2>4. Sized(b, added) => Sized(b, added')
      BY ONLY <2>3, Zenon DEF Sized
    <2> QED
      BY <2>2, <2>4
  <1>8. Stored(data, meta_entries, bloom_filter', added')
    <2>1. Stored(data, meta_entries, bloom_filter, added) /\ data \in Seq(Seq(Entry))
      BY DEF Inv, TypeOK
    <2>2. \A j \in DOMAIN data : data[j] \in Seq(Entry)
      BY <2>1, LenProperties, ElementOfSeq
    <2> QED
      BY ONLY <1>7, <2>1, <2>2, Zenon DEF Stored
  <1> QED
    BY <1>1, <1>4, <1>5, <1>6, <1>7, <1>8

\* Where the entry belongs: above all that was added.
LEMMA AddOrder ==
  ASSUME Inv, NEW e \in Entry, Next_entry(e)
  PROVE  /\ first(e) \in Key /\ first(e) <= e[1] /\ e[1] \in Key
         /\ \A i \in DOMAIN block : Before(block[i], e)
         /\ Ranged(block, first(e), last_key)
         /\ \A j \in DOMAIN meta_entries :
              meta_entries[j][1] <= first(e) /\ meta_entries[j][2] < first(e)
         /\ last_key # e[1] => last_key < e[1]
         /\ last_key <= e[1] /\ (block # <<>> => first(e) = first_key)
         /\ first_key # NoKey => first(e) <= last_key
         /\ last_key = e[1] =>
              \E i \in DOMAIN added' : added'[i][1] = e[1] /\ added'[i][2] > e[2]
  <1>1. /\ phase = "adding" /\ Hand /\ added \in Seq(Entry) /\ block \in Seq(Entry)
        /\ first_key \in Key \cup {NoKey} /\ last_key \in Key \cup {NoKey}
    BY DEF Inv, Next_entry, TypeOK
  <1>2. e[1] \in Key /\ e[1] \in Nat \ {0} /\ first_key \in Nat /\ last_key \in Nat
    BY <1>1, EntryType, KeysAreNat
  <1>3. CASE added = <<>>
    <2>1. /\ first_key = NoKey /\ last_key = NoKey /\ block = <<>> /\ meta_entries = <<>>
      BY <1>1, <1>3 DEF Hand
    <2>2. first(e) = e[1]
      BY <2>1 DEF first
    <2>3. DOMAIN block = {} /\ DOMAIN meta_entries = {}
      BY <2>1
    <2>4. last_key < e[1]
      BY <1>2, <2>1 DEF NoKey
    <2> QED
      BY <1>2, <2>1, <2>2, <2>3, <2>4 DEF Ranged
  <1>4. CASE added # <<>>
    <2> DEFINE n == Len(added)
               d == added[n]
    <2>1. n \in Nat /\ n >= 1 /\ DOMAIN added = 1 .. n /\ d \in Entry
      BY <1>1, <1>4, EmptySeq, LenProperties, ElementOfSeq
    <2>2. /\ first_key # NoKey /\ first_key <= last_key /\ d[1] = last_key
          /\ \A i \in DOMAIN block : block[i] = d \/ Before(block[i], d)
      BY <1>1, <1>4 DEF Hand
    <2>3. Before(d, e)
      BY <1>4 DEF Next_entry, Last
    <2> HIDE DEF d
    <2>4. first(e) = first_key
      BY <2>2 DEF first
    <2>5. \A i \in DOMAIN block : Before(block[i], e)
      <3>1. \A i \in DOMAIN block : block[i] \in Entry
        BY <1>1, LenProperties, ElementOfSeq
      <3> QED
        BY <2>1, <2>2, <2>3, <3>1, BeforeTransitive
    <2>6. last_key <= e[1] /\ (last_key = e[1] => d[2] > e[2])
      BY <1>2, <2>1, <2>2, <2>3, EntryType DEF Before
    <2>7. ASSUME last_key = e[1]
          PROVE  \E i \in DOMAIN added' : added'[i][1] = e[1] /\ added'[i][2] > e[2]
      <3>1. n \in DOMAIN added' /\ added'[n] = d
        BY <1>1, <2>1, AppendIs DEF Next_entry, d
      <3> QED
        BY <2>2, <2>6, <2>7, <3>1
    <2>8. /\ Ranged(block, first_key, last_key)
          /\ \A j \in DOMAIN meta_entries :
               meta_entries[j][1] <= first_key /\ meta_entries[j][2] < first_key
      BY <1>1 DEF Hand
    <2> QED
      BY <1>1, <1>2, <2>2, <2>4, <2>5, <2>6, <2>7, <2>8
  <1> QED
    BY <1>3, <1>4

LEMMA Single ==
  ASSUME NEW e \in Entry
  PROVE  <<>> \in Seq(Entry) /\ <<e>> = Append(<<>>, e)
  BY EmptySeq

LEMMA EmptyBlock ==
  ASSUME NEW bits, NEW given, NEW lo, NEW hi
  PROVE  /\ Sorted(<<>>) /\ Filtered(<<>>, bits) /\ Sized(<<>>, given)
         /\ Ranged(<<>>, lo, hi)
  <1>1. DOMAIN <<>> = {}
    OBVIOUS
  <1> QED
    BY <1>1 DEF Sorted, Filtered, Sized, Ranged

\* A block that ends with the last entry that was added, and begins above the
\* ones that are finished.
LEMMA HandGrows ==
  ASSUME NEW b \in Seq(Entry), NEW e \in Entry, block' = Append(b, e),
         Sorted(b), Filtered(b, bloom_filter'), Sized(b, added'),
         Ranged(b, first_key', e[1]), first_key' \in Key, first_key' <= e[1],
         last_key' = e[1], \A i \in DOMAIN b : Before(b[i], e),
         \/ Fits(b, e, FALSE)
         \/ \E i \in DOMAIN added' : added'[i][1] = e[1] /\ added'[i][2] > e[2],
         possibly_contains(bloom_filter', e[1]),
         added' # <<>>, added'[Len(added')] = e,
         \A j \in DOMAIN meta_entries' :
           meta_entries'[j][1] <= first_key' /\ meta_entries'[j][2] < first_key'
  PROVE  Hand'
  <1> DEFINE n == Len(b)
             c == Append(b, e)
  <1>1. /\ n \in Nat /\ DOMAIN b = 1 .. n /\ DOMAIN c = 1 .. n + 1
        /\ \A i \in 1 .. n : c[i] = b[i]
        /\ c[n + 1] = e
    BY AppendIs
  <1>2. Sorted(c) /\ Sized(c, added')
    BY SortedGrows, SizedGrows
  <1> HIDE DEF n, c
  <1>3. ASSUME NEW i \in 1 .. n + 1
        PROVE  /\ possibly_contains(bloom_filter', c[i][1])
               /\ first_key' <= c[i][1] /\ c[i][1] <= e[1]
               /\ c[i] = e \/ Before(c[i], e)
    <2>1. CASE i \in 1 .. n
      <3>1. c[i] = b[i]
        BY <1>1, <2>1
      <3> QED
        BY <1>1, <2>1, <3>1 DEF Filtered, Ranged
    <2>2. CASE i = n + 1
      <3>1. e[1] <= e[1]
        BY EntryType
      <3> QED
        BY <1>1, <2>2, <3>1
    <2> QED
      BY <1>1, <2>1, <2>2
  <1>4. Filtered(c, bloom_filter') /\ Ranged(c, first_key', e[1])
    BY <1>1, <1>3 DEF Filtered, Ranged
  <1>5. block' = c
    BY DEF c
  <1>6. first_key' # NoKey /\ added'[Len(added')][1] = last_key'
    BY KeysAreNat
  <1>7. \A i \in DOMAIN block' : block'[i] = added'[Len(added')] \/ Before(block'[i], added'[Len(added')])
    BY <1>1, <1>3, <1>5
  <1> QED
    BY <1>2, <1>4, <1>5, <1>6, <1>7 DEF Hand

LEMMA AddFits ==
  ASSUME Inv, NEW e \in Entry, add_fits(e)
  PROVE  Inv'
  <1>1. /\ Next_entry(e) /\ Fits(block, e, last_key = e[1]) /\ block' = Append(block, e)
        /\ first_key' = first(e) /\ last_key' = e[1]
        /\ data' = data /\ meta_entries' = meta_entries /\ phase' = phase
    BY DEF add_fits
  <1>2. TypeOK /\ block \in Seq(Entry)
    BY DEF Inv, TypeOK
  <1>3. TypeOK'
    <2>1. block' \in Seq(Entry)
      BY <1>1, <1>2, AppendIs
    <2>2. first_key' \in Key /\ last_key' \in Key
      BY <1>1, AddOrder
    <2>3. bloom_filter' \in [Bit -> BOOLEAN]
      BY <1>1, AddKeeps
    <2> QED
      BY <1>1, <1>2, <2>1, <2>2, <2>3 DEF TypeOK
  <1>4. added' \in Seq(Entry) /\ Stored(data, meta_entries, bloom_filter', added')
    BY <1>1, AddKeeps
  <1>5. Hand'
    <2>1. Hand /\ added' # <<>> /\ added'[Len(added')] = e /\ possibly_contains(bloom_filter', e[1])
      BY <1>1, AddKeeps
    <2>2. Sorted(block) /\ Filtered(block, bloom_filter') /\ Sized(block, added')
      BY <1>1, <1>2, <2>1, AddKeeps DEF Hand
    <2>3. first(e) \in Key /\ first(e) <= e[1] /\ \A i \in DOMAIN block : Before(block[i], e)
      BY <1>1, AddOrder
    <2>4. Ranged(block, first(e), e[1])
      <3>1. \A i \in DOMAIN block : block[i] \in Entry
        BY <1>2, LenProperties, ElementOfSeq
      <3>2. Ranged(block, first(e), last_key)
        BY <1>1, AddOrder
      <3>3. \A i \in DOMAIN block : block[i][1] <= e[1]
        BY <2>3, <3>1, EntryType DEF Before
      <3> QED
        BY <3>2, <3>3 DEF Ranged
    <2>5. \/ Fits(block, e, FALSE)
          \/ \E i \in DOMAIN added' : added'[i][1] = e[1] /\ added'[i][2] > e[2]
      <3>1. CASE last_key = e[1]
        BY <1>1, <3>1, AddOrder
      <3>2. CASE last_key # e[1]
        BY <1>1, <3>2 DEF Fits
      <3> QED
        BY <3>1, <3>2
    <2>6. \A j \in DOMAIN meta_entries :
             meta_entries[j][1] <= first(e) /\ meta_entries[j][2] < first(e)
      BY <1>1, AddOrder
    <2> QED
      BY ONLY <1>1, <1>2, <2>1, <2>2, <2>3, <2>4, <2>5, <2>6, e \in Entry, HandGrows
  <1> QED
    BY ONLY <1>1, <1>3, <1>4, <1>5, Zenon DEF Inv

LEMMA AddFinishes ==
  ASSUME Inv, NEW e \in Entry, add_finishes(e)
  PROVE  Inv'
  <1> DEFINE r == <<first(e), last_key>>
  <1>1. /\ Next_entry(e) /\ ~ Fits(block, e, last_key = e[1])
        /\ data' = Append(data, block) /\ meta_entries' = Append(meta_entries, r)
        /\ block' = IF Fits(<<>>, e, FALSE) THEN <<e>> ELSE <<>>
        /\ first_key' = e[1] /\ last_key' = e[1] /\ phase' = phase
    BY DEF add_finishes
  <1>2. /\ TypeOK /\ block \in Seq(Entry) /\ data \in Seq(Seq(Entry))
        /\ meta_entries \in Seq(Meta) /\ last_key \in Key \cup {NoKey}
    BY DEF Inv, TypeOK, Meta
  <1>3. /\ first(e) \in Key /\ first(e) <= e[1] /\ e[1] \in Key
        /\ last_key < e[1]
        /\ Ranged(block, first(e), last_key)
        /\ \A j \in DOMAIN meta_entries :
             meta_entries[j][1] <= first(e) /\ meta_entries[j][2] < first(e)
    <2>1. last_key # e[1]
      BY <1>1 DEF Fits
    <2> QED
      BY <1>1, <2>1, AddOrder
  <1>4. r \in Meta /\ r[1] = first(e) /\ r[2] = last_key
    BY <1>2, <1>3 DEF Meta
  <1>5. /\ Hand /\ added' \in Seq(Entry) /\ added' # <<>> /\ added'[Len(added')] = e
        /\ bloom_filter' \in [Bit -> BOOLEAN] /\ possibly_contains(bloom_filter', e[1])
        /\ Filtered(block, bloom_filter) => Filtered(block, bloom_filter')
        /\ Sized(block, added) => Sized(block, added')
        /\ Stored(data, meta_entries, bloom_filter', added')
    BY <1>1, <1>2, AddKeeps
  <1>6. Sorted(block) /\ Filtered(block, bloom_filter') /\ Sized(block, added')
    BY <1>5 DEF Hand
  <1>7. Stored(data', meta_entries', bloom_filter', added')
    <2>1. Stored(Append(data, block), Append(meta_entries, r), bloom_filter', added')
      BY <1>2, <1>3, <1>5, <1>6, StoredGrows
    <2> QED
      BY ONLY <1>1, <2>1, Zenon
  <1> HIDE DEF r
  <1>8. TypeOK'
    <2>1. block' \in Seq(Entry)
      <3>1. <<e>> \in Seq(Entry) /\ <<>> \in Seq(Entry)
        OBVIOUS
      <3> QED
        BY ONLY <1>1, <3>1, Zenon
    <2>2. data' \in Seq(Seq(Entry)) /\ meta_entries' \in Seq(Meta)
      BY <1>1, <1>2, <1>4, AppendIs
    <2> QED
      BY <1>1, <1>2, <1>3, <1>5, <2>1, <2>2 DEF TypeOK, Meta
  <1>9. \A j \in DOMAIN meta_entries' : meta_entries'[j][1] <= e[1] /\ meta_entries'[j][2] < e[1]
    <2> DEFINE n == Len(meta_entries)
    <2>1. /\ n \in Nat /\ DOMAIN meta_entries' = 1 .. n + 1 /\ DOMAIN meta_entries = 1 .. n
          /\ \A j \in 1 .. n : meta_entries'[j] = meta_entries[j] /\ meta_entries[j] \in Meta
          /\ meta_entries'[n + 1] = r
      BY <1>1, <1>2, <1>4, AppendIs
    <2> HIDE DEF n
    <2>2. ASSUME NEW j \in 1 .. n + 1
          PROVE  meta_entries'[j][1] <= e[1] /\ meta_entries'[j][2] < e[1]
      <3>1. CASE j \in 1 .. n
        <4>1. meta_entries'[j] = meta_entries[j]
          BY <2>1, <3>1
        <4>2. meta_entries[j][1] <= first(e) /\ meta_entries[j][2] < first(e)
          BY <1>3, <2>1, <3>1
        <4>3. meta_entries[j][1] \in Nat /\ meta_entries[j][2] \in Nat
          <5>1. meta_entries[j] \in Meta
            BY <2>1, <3>1
          <5> QED
            BY <5>1, KeysAreNat DEF Meta
        <4>4. first(e) \in Nat /\ e[1] \in Nat
          BY <1>3, KeysAreNat
        <4> QED
          BY <1>3, <4>1, <4>2, <4>3, <4>4
      <3>2. CASE j = n + 1
        BY <1>3, <1>4, <2>1, <3>2
      <3> QED
        BY <2>1, <3>1, <3>2
    <2> QED
      BY <2>1, <2>2
  <1>10. Hand'
    <2>1. CASE Fits(<<>>, e, FALSE)
      <3>1. block' = Append(<<>>, e) /\ <<>> \in Seq(Entry)
        BY <1>1, <2>1, Single
      <3>2. /\ Sorted(<<>>) /\ Filtered(<<>>, bloom_filter') /\ Sized(<<>>, added')
            /\ Ranged(<<>>, first_key', e[1])
        BY EmptyBlock
      <3>3. \A i \in DOMAIN <<>> : Before(<<>>[i], e)
        OBVIOUS
      <3>4. first_key' \in Key /\ first_key' <= e[1]
        BY <1>1, <1>3, EntryType
      <3>5. \A j \in DOMAIN meta_entries' :
               meta_entries'[j][1] <= first_key' /\ meta_entries'[j][2] < first_key'
        BY ONLY <1>1, <1>9, Zenon
      <3> QED
        BY ONLY <1>1, <1>5, <2>1, <3>1, <3>2, <3>3, <3>4, <3>5, e \in Entry, HandGrows
    <2>2. CASE ~ Fits(<<>>, e, FALSE)
      <3>1. block' = <<>> /\ DOMAIN block' = {}
        BY <1>1, <2>2
      <3>2. /\ Sorted(block') /\ Filtered(block', bloom_filter') /\ Sized(block', added')
            /\ Ranged(block', first_key', last_key')
        BY <3>1, EmptyBlock
      <3>3. first_key' # NoKey /\ first_key' <= last_key'
        BY <1>1, <1>3, KeysAreNat
      <3>4. \A j \in DOMAIN meta_entries' :
               meta_entries'[j][1] <= first_key' /\ meta_entries'[j][2] < first_key'
        BY ONLY <1>1, <1>9, Zenon
      <3> QED
        BY <1>1, <1>5, <3>1, <3>2, <3>3, <3>4 DEF Hand
    <2> QED
      BY <2>1, <2>2
  <1> QED
    BY ONLY <1>1, <1>5, <1>7, <1>8, <1>10, Zenon DEF Inv

LEMMA Builds ==
  ASSUME Inv, build
  PROVE  Inv'
  <1> DEFINE r == <<first_key, last_key>>
  <1>1. /\ phase = "adding" /\ phase' \in {"built", "thrown"}
        /\ IF block = <<>> THEN data' = data /\ meta_entries' = meta_entries
           ELSE data' = Append(data, block) /\ meta_entries' = Append(meta_entries, r)
        /\ block' = block /\ first_key' = first_key /\ last_key' = last_key
        /\ bloom_filter' = bloom_filter /\ added' = added
    BY DEF build
  <1>2. phase' # "adding"
    BY <1>1
  <1>3. /\ TypeOK /\ Hand /\ block \in Seq(Entry) /\ data \in Seq(Seq(Entry))
        /\ meta_entries \in Seq(Meta) /\ last_key \in Key \cup {NoKey}
        /\ first_key \in Key \cup {NoKey}
        /\ Stored(data, meta_entries, bloom_filter, added)
    BY <1>1 DEF Inv, TypeOK, Meta
  <1>4. CASE block = <<>>
    BY <1>1, <1>2, <1>4 DEF Inv, TypeOK
  <1>5. CASE block # <<>>
    <2>1. first_key \in Key
      BY <1>3, <1>5 DEF Hand
    <2>2. r \in Meta
      BY <1>3, <2>1 DEF Meta
    <2>3. Stored(Append(data, block), Append(meta_entries, r), bloom_filter, added)
      BY <1>3, <2>1, StoredGrows DEF Hand
    <2> HIDE DEF r
    <2>4. Append(data, block) \in Seq(Seq(Entry)) /\ Append(meta_entries, r) \in Seq(Meta)
      BY <1>3, <2>2, AppendIs
    <2>5. TypeOK'
      BY <1>1, <1>3, <1>5, <2>4 DEF TypeOK, Meta
    <2>6. Stored(data', meta_entries', bloom_filter', added')
      BY <1>1, <1>5, <2>3
    <2> QED
      BY <1>1, <1>2, <2>5, <2>6 DEF Inv
  <1> QED
    BY <1>4, <1>5

\* The blocks finished and the one at hand are as the searches expect them, after
\* any number of calls of add and a build.
THEOREM BuilderInvariant == Spec => []Inv
  <1>1. Init => Inv
    <2> SUFFICES ASSUME Init PROVE Inv
      OBVIOUS
    <2>1. TypeOK /\ added \in Seq(Entry)
      <3>1. NoBits \in [Bit -> BOOLEAN]
        BY DEF NoBits
      <3> QED
        BY <3>1 DEF Init, TypeOK
    <2>2. /\ block = <<>> /\ data = <<>> /\ meta_entries = <<>> /\ added = <<>>
          /\ first_key = NoKey /\ last_key = NoKey
      BY DEF Init
    <2>3. Stored(data, meta_entries, bloom_filter, added)
      BY <2>2 DEF Stored, Ascending
    <2>4. Hand
      <3>1. DOMAIN meta_entries = {}
        BY <2>2
      <3>2. /\ Sorted(block) /\ Filtered(block, bloom_filter) /\ Sized(block, added)
            /\ Ranged(block, first_key, last_key)
        BY <2>2, EmptyBlock
      <3> QED
        BY <2>2, <3>1, <3>2 DEF Hand
    <2> QED
      BY <2>1, <2>3, <2>4 DEF Inv
  <1>2. Inv /\ [Next]_vars => Inv'
    <2> SUFFICES ASSUME Inv, [Next]_vars PROVE Inv'
      OBVIOUS
    <2>1. CASE \E e \in Entry : add_fits(e)
      BY <2>1, AddFits
    <2>2. CASE \E e \in Entry : add_finishes(e)
      BY <2>2, AddFinishes
    <2>3. CASE build
      BY <2>3, Builds
    <2>4. CASE UNCHANGED vars
      BY <2>4 DEF vars, Inv, TypeOK, Hand
    <2> QED
      BY <2>1, <2>2, <2>3, <2>4 DEF Next
  <1> QED
    BY <1>1, <1>2, PTL DEF Spec

\* The builder's members keep their types, whatever it is given.
THEOREM BuilderTypeOK == Spec => []TypeOK
  <1>1. Inv => TypeOK
    BY DEF Inv
  <1> QED
    BY <1>1, BuilderInvariant, PTL

\* A block outgrows its capacity, but for eight bytes, only by the older
\* versions of a key.
THEOREM SizesBounded == Spec => []BlockBounded
  <1>1. ASSUME Inv PROVE BlockBounded
    <2> DEFINE Newest(e) == \A i \in DOMAIN added : added[i][1] = e[1] => added[i][2] <= e[2]
    <2>1. ASSUME NEW j \in DOMAIN data, NEW n \in DOMAIN data[j], Newest(data[j][n])
          PROVE  cur_size(SubSeq(data[j], 1, n)) <= capacity + 8
      <3>1. PICK e : e = data[j][n]
        OBVIOUS
      <3>2. e \in Entry
        <4>1. data[j] \in Seq(Entry)
          BY <1>1, LenProperties, ElementOfSeq DEF Inv, TypeOK
        <4> QED
          BY <3>1, <4>1, LenProperties, ElementOfSeq
      <3>3. \A i \in DOMAIN added : added[i] \in Entry
        BY <1>1, LenProperties, ElementOfSeq DEF Inv
      <3>4. ~ \E i \in DOMAIN added : added[i][1] = e[1] /\ added[i][2] > e[2]
        BY <2>1, <3>1, <3>2, <3>3, EntryType
      <3>5. Sized(data[j], added)
        BY <1>1 DEF Inv, Stored
      <3> QED
        BY ONLY <3>1, <3>4, <3>5, n \in DOMAIN data[j], Zenon DEF Sized
    <2> QED
      BY <2>1 DEF BlockBounded
  <1> QED
    BY <1>1, BuilderInvariant, PTL

\* Every entry of every block is found by a get of its key.
THEOREM FindsEveryBlock == Spec => []FindsBlock
  <1>1. ASSUME Inv PROVE FindsBlock
    <2>1. ASSUME NEW j \in DOMAIN data, NEW i \in DOMAIN data[j],
                 NEW bits \in {bloom_filter, decode(encode(bloom_filter))}
          PROVE  get(bits, meta_entries, data[j][i][1]) = j - 1
      <3>1. /\ data \in Seq(Seq(Entry)) /\ meta_entries \in Seq(Meta)
            /\ bloom_filter \in [Bit -> BOOLEAN]
            /\ Stored(data, meta_entries, bloom_filter, added)
        BY <1>1 DEF Inv, TypeOK, Meta
      <3>2. bits = bloom_filter
        BY <3>1, DecodeEncode
      <3>3. PICK k : k = data[j][i][1]
        OBVIOUS
      <3>4. k \in Nat
        <4>1. data[j] \in Seq(Entry)
          BY <3>1, LenProperties, ElementOfSeq
        <4>2. data[j][i] \in Entry
          BY <4>1, LenProperties, ElementOfSeq
        <4> QED
          BY <3>3, <4>2, EntryType
      <3>5. possibly_contains(bits, k)
        BY <3>1, <3>2, <3>3 DEF Stored, Filtered
      <3>6. /\ Ascending(meta_entries) /\ meta_entries[j][1] <= k /\ k <= meta_entries[j][2]
        BY <3>1, <3>3 DEF Stored, Ranged
      <3>7. j \in DOMAIN meta_entries
        BY <3>1, LenProperties DEF Stored
      <3>8. find_block_idx(meta_entries, k) = j - 1
        BY ONLY <3>1, <3>4, <3>6, <3>7, FindsIt
      <3> QED
        BY ONLY <3>3, <3>5, <3>8, Zenon DEF get
    <2> QED
      BY <2>1 DEF FindsBlock
  <1> QED
    BY <1>1, BuilderInvariant, PTL
-----------------------------------------------------------------------------
(* The versions of a key in a block.                                       *)

\* The recursions of adjust_idx_by_tranc_id have solutions.
LEMMA BackExists ==
  ASSUME NEW n \in Nat, NEW S
  PROVE  \E r : r = [x \in 0 .. n |-> IF x > 0 /\ x \in S THEN r[x - 1] ELSE x]
  <1> DEFINE step == [x \in 1 .. n |-> [v \in Nat |-> IF x \in S THEN v ELSE x]]
  <1>1. step \in [1 .. n -> [Nat -> Nat]]
    OBVIOUS
  <1>2. PICK r : Rolls(r, Nat, 0, step, n)
    <2> HIDE DEF step
    <2> QED
      BY <1>1, Rounds
  <1>3. r \in [0 .. n -> Nat] /\ r[0] = 0 /\ \A x \in 1 .. n : r[x] = step[x][r[x - 1]]
    BY <1>2, Zenon DEF Rolls
  <1>4. ASSUME NEW x \in 1 .. n PROVE r[x] = IF x \in S THEN r[x - 1] ELSE x
    <2>1. r[x - 1] \in Nat
      BY <1>3
    <2>2. step[x][r[x - 1]] = IF x \in S THEN r[x - 1] ELSE x
      BY <2>1
    <2> QED
      BY <1>3, <2>2
  <1>5. \A x \in 0 .. n : r[x] = IF x > 0 /\ x \in S THEN r[x - 1] ELSE x
    BY <1>3, <1>4
  <1> QED
    BY <1>3, <1>5

Onward(f, lo, hi, A, B) ==
  f = [x \in lo .. hi |-> IF x \in A THEN -1 ELSE IF x \in B THEN x ELSE f[x + 1]]

LEMMA OnwardExists ==
  ASSUME NEW lo \in Nat, NEW hi \in Nat, lo <= hi, NEW A, NEW B, hi \in A
  PROVE  \E f : Onward(f, lo, hi, A, B)
  <1> DEFINE n    == hi - lo
             step == [y \in 1 .. n |->
                        [v \in Int |-> IF hi - y \in A THEN -1 ELSE IF hi - y \in B THEN hi - y ELSE v]]
             Go(h, x) == IF x \in A THEN -1 ELSE IF x \in B THEN x ELSE h[x + 1]
  <1>1. step \in [1 .. n -> [Int -> Int]] /\ n \in Nat
    OBVIOUS
  <1>2. PICK r : Rolls(r, Int, -1, step, n)
    <2> HIDE DEF step, n
    <2>1. PICK none \in Int : none = -1
      OBVIOUS
    <2>2. \E r : Rolls(r, Int, none, step, n)
      BY <1>1, Rounds
    <2> QED
      BY ONLY <2>1, <2>2, Zenon
  <1>3. r \in [0 .. n -> Int] /\ r[0] = -1 /\ \A y \in 1 .. n : r[y] = step[y][r[y - 1]]
    BY <1>2, Zenon DEF Rolls
  <1>4. ASSUME NEW y \in 1 .. n
        PROVE  r[y] = IF hi - y \in A THEN -1 ELSE IF hi - y \in B THEN hi - y ELSE r[y - 1]
    <2>1. r[y - 1] \in Int
      BY <1>3
    <2>2. step[y][r[y - 1]] = IF hi - y \in A THEN -1 ELSE IF hi - y \in B THEN hi - y ELSE r[y - 1]
      BY <2>1
    <2> QED
      BY <1>3, <2>2
  <1> HIDE DEF step
  <1> DEFINE f == [x \in lo .. hi |-> r[hi - x]]
  <1>5. ASSUME NEW x \in lo .. hi PROVE f[x] = Go(f, x)
    <2>1. CASE x = hi
      BY <1>3, <2>1
    <2>2. CASE x # hi
      <3>1. PICK y \in 1 .. n : y = hi - x /\ hi - y = x /\ y - 1 = hi - (x + 1)
        BY <2>2
      <3>2. f[x] = r[y] /\ f[x + 1] = r[y - 1]
        BY <2>2, <3>1
      <3> HIDE DEF f, n
      <3> QED
        BY <1>4, <3>1, <3>2
    <2> QED
      BY <2>1, <2>2
  <1>6. f = [x \in lo .. hi |-> f[x]]
    OBVIOUS
  <1>7. f = [x \in lo .. hi |-> Go(f, x)]
    <2> HIDE DEF f, Go
    <2> QED
      BY <1>5, <1>6
  <1> QED
    BY ONLY <1>7, Zenon DEF Onward

\* What does not change from one step to the next does not change.
LEMMA Steady ==
  ASSUME NEW lo \in Int, NEW hi \in Int, lo <= hi, NEW f,
         \A x \in lo .. hi - 1 : f[x] = f[x + 1]
  PROVE  f[lo] = f[hi]
  <1> DEFINE n == hi - lo
             p == [i \in 0 .. n |-> f[lo + i]]
             q == [i \in 0 .. n |-> f[lo]]
  <1>1. n \in Nat /\ p[0] = q[0]
    OBVIOUS
  <1>2. ASSUME NEW i \in 1 .. n, p[i - 1] = q[i - 1] PROVE p[i] = q[i]
    <2>1. PICK x \in lo .. hi - 1 : x = lo + (i - 1) /\ x + 1 = lo + i
      OBVIOUS
    <2>2. p[i - 1] = f[x] /\ p[i] = f[x + 1] /\ q[i] = q[i - 1]
      BY <2>1
    <2> HIDE DEF p, q
    <2> QED
      BY <1>2, <2>2
  <1>3. \A i \in 0 .. n : p[i] = q[i]
    <2> HIDE DEF p, q, n
    <2> QED
      BY <1>1, <1>2, Alike
  <1>4. p[n] = q[n] /\ p[n] = f[lo + n] /\ q[n] = f[lo] /\ lo + n = hi
    BY <1>1, <1>3
  <1> QED
    BY <1>4

\* The versions of a key are next to each other, the newer ones first.
LEMMA VersionsTogether ==
  ASSUME NEW b \in Seq(Entry), Sorted(b), NEW i \in DOMAIN b, NEW m \in DOMAIN b,
         b[i][1] = b[m][1], i < m
  PROVE  /\ b[i][2] > b[m][2]
         /\ \A x \in i .. m : x \in DOMAIN b /\ b[x][1] = b[i][1]
  <1>1. /\ DOMAIN b = 1 .. Len(b) /\ Len(b) \in Nat
        /\ \A x \in DOMAIN b : b[x][1] \in Nat /\ b[x][2] \in Nat
    <2>1. \A x \in DOMAIN b : b[x] \in Entry
      BY LenProperties, ElementOfSeq
    <2> QED
      BY <2>1, LenProperties, EntryType
  <1>2. b[i][2] > b[m][2]
    BY <1>1 DEF Sorted, Before
  <1>3. ASSUME NEW x \in i .. m PROVE x \in DOMAIN b /\ b[x][1] = b[i][1]
    <2>1. x \in DOMAIN b
      BY <1>1
    <2>2. i < x => b[i][1] <= b[x][1]
      BY <1>1, <2>1 DEF Sorted, Before
    <2>3. x < m => b[x][1] <= b[m][1]
      BY <1>1, <2>1 DEF Sorted, Before
    <2> QED
      BY <1>1, <2>1, <2>2, <2>3
  <1> QED
    BY <1>2, <1>3

\* The entries up to b[i] that have its key and passed their comparison.
Passed(b, i, sees) == {x \in 1 .. i : b[x][1] = b[i][1] /\ sees[x - 1]}

\* From an entry that passed its comparison, down to the first of those next to
\* it with its key that did.
LEMMA BackReaches ==
  ASSUME NEW b \in Seq(Entry), NEW i \in DOMAIN b,
         NEW sees \in [0 .. Len(b) - 1 -> BOOLEAN], NEW m \in 1 .. i,
         m .. i \subseteq Passed(b, i, sees), m - 1 \notin Passed(b, i, sees)
  PROVE  adjust_idx_by_tranc_id(b, i - 1, sees) = m - 1
  <1> DEFINE k == b[i][1]
             idx == i - 1
             S == {x \in 1 .. idx : b[x][1] = k /\ sees[x - 1]}
             Recur(h) ==
               h = [x \in 0 .. idx |->
                      IF x > 0 /\ is_same_key(b, x - 1, b[idx + 1][1]) /\ sees[x - 1]
                      THEN h[x - 1] ELSE x]
             Go(h, x) == IF x > 0 /\ x \in S THEN h[x - 1] ELSE x
             g == CHOOSE h : Recur(h)
  <1>1. DOMAIN b = 1 .. Len(b) /\ Len(b) \in Nat /\ i \in 1 .. Len(b) /\ m \in Nat
    BY LenProperties
  <1>2. idx \in Nat /\ idx + 1 = i /\ idx < Len(b) /\ ~ (idx >= Len(b))
    BY <1>1
  <1>3. adjust_idx_by_tranc_id(b, idx, sees) = g[idx]
    <2>1. sees[idx]
      <3>1. i \in Passed(b, i, sees)
        BY <1>1
      <3> QED
        BY <3>1 DEF Passed
    <2>2. ~ (idx >= Len(b))
      BY <1>2
    <2> HIDE DEF idx
    <2> QED
      BY ONLY <2>1, <2>2, Zenon DEF adjust_idx_by_tranc_id
  <1>4. \A x \in 0 .. idx :
           (x > 0 /\ is_same_key(b, x - 1, b[idx + 1][1]) /\ sees[x - 1]) <=> x > 0 /\ x \in S
    <2>1. ASSUME NEW x \in 0 .. idx, x > 0
          PROVE  is_same_key(b, x - 1, b[idx + 1][1]) <=> b[x][1] = k
      <3>1. x - 1 < Len(b) /\ x - 1 + 1 = x
        BY <1>1, <2>1
      <3>2. b[idx + 1][1] = k
        BY <1>2
      <3> HIDE DEF idx, k
      <3> QED
        BY ONLY <3>1, <3>2 DEF is_same_key
    <2>2. ASSUME NEW x \in 0 .. idx, x > 0 PROVE x \in 1 .. idx
      BY <1>2, <2>2
    <2> HIDE DEF idx, k
    <2> QED
      BY <2>1, <2>2
  <1>5. \E h : Recur(h)
    <2> HIDE DEF S, idx
    <2>1. PICK h : h = [x \in 0 .. idx |-> IF x > 0 /\ x \in S THEN h[x - 1] ELSE x]
      BY <1>2, BackExists
    <2>2. Recur(h)
      BY ONLY <1>4, <2>1
    <2> QED
      BY ONLY <2>2, Zenon
  <1>6. Recur(g)
    <2> HIDE DEF Recur
    <2> QED
      BY <1>5
  <1>7. \A x \in 0 .. idx : g[x] = Go(g, x)
    <2> HIDE DEF g, S, idx
    <2> QED
      BY ONLY <1>4, <1>6
  <1> HIDE DEF g, Recur, Go
  <1>8. \A x \in m .. idx : x \in S
    <2>1. ASSUME NEW x \in m .. idx PROVE x \in S
      <3>1. x \in m .. i /\ x \in 1 .. idx
        BY <1>1, <1>2
      <3> QED
        BY <3>1 DEF Passed
    <2> QED
      BY <2>1
  <1>9. m - 1 \notin S
    <2>1. ASSUME m - 1 \in S PROVE FALSE
      <3>1. m - 1 \in 1 .. i
        BY <1>1, <1>2, <2>1
      <3> QED
        BY <2>1, <3>1 DEF Passed
    <2> QED
      BY <2>1
  <1> HIDE DEF S, idx, k
  <1>10. g[m - 1] = m - 1
    <2>1. m - 1 \in 0 .. idx
      BY <1>1, <1>2
    <2> QED
      BY <1>7, <1>9, <2>1 DEF Go
  <1>11. \A x \in m - 1 .. idx - 1 : g[x] = g[x + 1]
    <2>1. ASSUME NEW x \in m - 1 .. idx - 1 PROVE g[x] = g[x + 1]
      <3>1. x + 1 \in m .. idx /\ x + 1 \in 0 .. idx /\ x + 1 > 0 /\ x + 1 - 1 = x
        BY <1>1, <1>2
      <3>2. x + 1 \in S
        BY <1>8, <3>1
      <3>3. g[x + 1] = Go(g, x + 1)
        BY <1>7, <3>1
      <3> QED
        BY <3>1, <3>2, <3>3 DEF Go
    <2> QED
      BY <2>1
  <1>12. g[m - 1] = g[idx]
    <2>1. m - 1 \in Int /\ idx \in Int /\ m - 1 <= idx
      BY <1>1, <1>2
    <2> QED
      BY ONLY <1>11, <2>1, Steady
  <1> QED
    BY ONLY <1>3, <1>10, <1>12, Zenon DEF idx

\* From an entry that did not pass, on to where the way ends: behind the last
\* entry of the key, or at the first one that passed.
LEMMA OnwardReaches ==
  ASSUME NEW b \in Seq(Entry), NEW i \in DOMAIN b,
         NEW sees \in [0 .. Len(b) - 1 -> BOOLEAN], ~ sees[i - 1],
         NEW m \in i .. Len(b),
         \A x \in i .. m - 1 : b[x + 1][1] = b[i][1] /\ ~ sees[x],
         m < Len(b) /\ b[m + 1][1] = b[i][1] => sees[m]
  PROVE  adjust_idx_by_tranc_id(b, i - 1, sees) =
           IF m < Len(b) /\ b[m + 1][1] = b[i][1] THEN m ELSE -1
  <1> DEFINE k == b[i][1]
             n == Len(b)
             A == {x \in i .. n : ~ (x < n /\ b[x + 1][1] = k)}
             B == {x \in i .. n : x < n /\ sees[x]}
             idx == i - 1
             Recur(h) ==
               h = [x \in idx + 1 .. Len(b) |->
                      IF ~is_same_key(b, x, b[idx + 1][1]) THEN -1
                      ELSE IF sees[x] THEN x ELSE h[x + 1]]
             Go(h, x) == IF x \in A THEN -1 ELSE IF x \in B THEN x ELSE h[x + 1]
             g == CHOOSE h : Recur(h)
  <1>1. /\ DOMAIN b = 1 .. n /\ n \in Nat /\ i \in 1 .. n /\ m \in Nat
    BY LenProperties
  <1>2. idx + 1 = i /\ ~ (idx >= n)
    BY <1>1
  <1>3. adjust_idx_by_tranc_id(b, idx, sees) = g[idx + 1]
    <2>1. ~ sees[idx]
      OBVIOUS
    <2>2. ~ (idx >= Len(b))
      BY <1>2
    <2> HIDE DEF idx
    <2> QED
      BY ONLY <2>1, <2>2, Zenon DEF adjust_idx_by_tranc_id
  <1>4. \A x \in i .. n : /\ x \in A <=> ~is_same_key(b, x, b[idx + 1][1])
                          /\ x \notin A => (x \in B <=> sees[x])
    <2>1. b[idx + 1][1] = k
      BY <1>2
    <2> HIDE DEF idx, k, n
    <2> QED
      BY <1>2, <2>1 DEF is_same_key, n
  <1>5. n \in A /\ i <= n /\ i \in Nat
    BY <1>1
  <1>6. \A x \in idx + 1 .. Len(b) : \A h : Go(h, x) =
           IF ~is_same_key(b, x, b[idx + 1][1]) THEN -1
           ELSE IF sees[x] THEN x ELSE h[x + 1]
    <2>1. \A x \in idx + 1 .. Len(b) : x \in i .. n
      BY <1>2
    <2> HIDE DEF A, B, idx, n
    <2> QED
      BY ONLY <1>4, <2>1, Zenon
  <1>7. \E h : Recur(h)
    <2> HIDE DEF A, B
    <2>1. PICK h : h = [x \in i .. n |-> IF x \in A THEN -1 ELSE IF x \in B THEN x ELSE h[x + 1]]
      <3>1. i \in Nat /\ n \in Nat /\ i <= n /\ n \in A
        BY <1>1, <1>5
      <3> HIDE DEF n
      <3>2. PICK h : Onward(h, i, n, A, B)
        BY ONLY <3>1, OnwardExists
      <3> QED
        BY ONLY <3>2, Zenon DEF Onward
    <2>2. h = [x \in idx + 1 .. Len(b) |-> Go(h, x)]
      <3>1. i .. n = idx + 1 .. Len(b)
        BY <1>2
      <3> HIDE DEF idx, n
      <3> QED
        BY ONLY <2>1, <3>1
    <2>3. Recur(h)
      <3> HIDE DEF Go
      <3> QED
        BY ONLY <1>6, <2>2
    <2> QED
      BY ONLY <2>3, Zenon
  <1>8. Recur(g)
    <2> HIDE DEF Recur
    <2> QED
      BY <1>7
  <1>9. \A x \in i .. n : g[x] = Go(g, x)
    <2>1. g = [x \in idx + 1 .. Len(b) |-> Go(g, x)]
      <3> HIDE DEF Go, g
      <3> QED
        BY ONLY <1>6, <1>8
    <2>2. i .. n = idx + 1 .. Len(b)
      BY <1>2
    <2> HIDE DEF g, Go, idx, n
    <2> QED
      BY ONLY <2>1, <2>2
  <1> HIDE DEF g, Recur, idx
  <1>10. m < n /\ b[m + 1][1] = k => g[m] = m
    <2>1. ASSUME m < n, b[m + 1][1] = k PROVE m \notin A /\ m \in B /\ m \in i .. n
      BY <1>1, <2>1
    <2> HIDE DEF A, B, n, k
    <2> QED
      BY <1>9, <2>1
  <1>11. ~ (m < n /\ b[m + 1][1] = k) => g[m] = -1
    <2>1. ASSUME ~ (m < n /\ b[m + 1][1] = k) PROVE m \in A /\ m \in i .. n
      BY <1>1, <2>1
    <2> HIDE DEF A, B, n, k
    <2> QED
      BY <1>9, <2>1
  <1>12. \A x \in i .. m - 1 : g[x] = g[x + 1]
    <2>1. ASSUME NEW x \in i .. m - 1 PROVE g[x] = g[x + 1]
      <3>1. x \in i .. n /\ x < n /\ b[x + 1][1] = k /\ ~ sees[x]
        BY <1>1, <2>1
      <3>2. x \notin A /\ x \notin B
        BY <3>1
      <3> HIDE DEF A, B, n
      <3> QED
        BY <1>9, <3>1, <3>2
    <2> QED
      BY <2>1
  <1>13. g[i] = g[m]
    <2>1. i \in Int /\ m \in Int /\ i <= m
      BY <1>1
    <2> QED
      BY ONLY <1>12, <2>1, Steady
  <1>14. adjust_idx_by_tranc_id(b, i - 1, sees) = g[m]
    BY ONLY <1>2, <1>3, <1>13 DEF idx
  <1> HIDE DEF k
  <1>15. CASE m < n /\ b[m + 1][1] = k
    BY <1>10, <1>14, <1>15 DEF k
  <1>16. CASE ~ (m < n /\ b[m + 1][1] = k)
    BY <1>11, <1>14, <1>16 DEF k
  <1> QED
    BY <1>15, <1>16

\* Whatever was read as ids, the way ends at an entry of the key that passed its
\* comparison, or nowhere.
LEMMA AdjustsWithin ==
  ASSUME NEW b \in Seq(Entry), NEW i \in DOMAIN b, NEW sees \in [0 .. Len(b) - 1 -> BOOLEAN]
  PROVE  LET got == adjust_idx_by_tranc_id(b, i - 1, sees)
         IN  got = -1 \/ (got + 1 \in DOMAIN b /\ b[got + 1][1] = b[i][1] /\ sees[got])
  <1>1. /\ DOMAIN b = 1 .. Len(b) /\ Len(b) \in Nat /\ i \in 1 .. Len(b)
    BY LenProperties
  <1>2. CASE sees[i - 1]
    <2> DEFINE P == Passed(b, i, sees)
               T == {n \in 1 .. i : n .. i \subseteq P}
    <2>1. i \in T /\ T \subseteq Nat
      BY <1>1, <1>2 DEF Passed
    <2> HIDE DEF P
    <2>2. PICK m \in T : \A n \in T : m <= n
      <3> HIDE DEF T
      <3> QED
        BY <2>1, NatMin
    <2>3. m \in 1 .. i /\ m \in Nat /\ m .. i \subseteq P
      BY <1>1, <2>2
    <2>4. ASSUME m - 1 \in P PROVE FALSE
      <3>1. m - 1 \in 1 .. i
        BY <2>4 DEF P, Passed
      <3>2. m - 1 .. i \subseteq P
        BY <1>1, <2>3, <2>4, <3>1
      <3>3. m - 1 \in T /\ ~ (m <= m - 1)
        BY <2>3, <3>1, <3>2
      <3> HIDE DEF T
      <3> QED
        BY <2>2, <3>3
    <2>5. adjust_idx_by_tranc_id(b, i - 1, sees) = m - 1
      BY <2>3, <2>4, BackReaches DEF P
    <2>6. m \in P
      BY <1>1, <2>3
    <2>7. m - 1 + 1 = m /\ m \in DOMAIN b /\ b[m][1] = b[i][1] /\ sees[m - 1]
      BY <1>1, <2>3, <2>6 DEF P, Passed
    <2> QED
      BY <2>5, <2>7
  <1>3. CASE ~ sees[i - 1]
    <2> DEFINE Stop(n) == n < Len(b) /\ b[n + 1][1] = b[i][1] => sees[n]
               T == {n \in i .. Len(b) : Stop(n) \/ ~ (n < Len(b) /\ b[n + 1][1] = b[i][1])}
    <2>1. Len(b) \in T /\ T \subseteq Nat
      BY <1>1
    <2>2. PICK m \in T : \A n \in T : m <= n
      <3> HIDE DEF T
      <3> QED
        BY <2>1, NatMin
    <2>3. m \in i .. Len(b) /\ m \in Nat /\ Stop(m)
      BY <1>1, <2>2
    <2>4. ASSUME NEW x \in i .. m - 1 PROVE b[x + 1][1] = b[i][1] /\ ~ sees[x]
      <3>1. x \in i .. Len(b) /\ ~ (m <= x)
        BY <1>1, <2>3
      <3>2. x \notin T
        <4> HIDE DEF T
        <4> QED
          BY <2>2, <3>1
      <3> QED
        BY <3>1, <3>2
    <2>5. adjust_idx_by_tranc_id(b, i - 1, sees) =
            IF m < Len(b) /\ b[m + 1][1] = b[i][1] THEN m ELSE -1
      BY <1>3, <2>3, <2>4, OnwardReaches
    <2>6. m < Len(b) => m + 1 \in DOMAIN b
      BY <1>1, <2>3
    <2> QED
      BY <2>3, <2>5, <2>6
  <1> QED
    BY <1>2, <1>3

\* The first of the versions that a reader sees: NewestSeen is its index.
LEMMA NewestSeenIs ==
  ASSUME NEW b \in Seq(Entry), NEW i \in DOMAIN b, NEW tr \in Nat, Seen(b, i, tr) # {}
  PROVE  \E m \in Seen(b, i, tr) :
           (\A x \in Seen(b, i, tr) : m <= x) /\ NewestSeen(b, i, tr) = m - 1
  <1> DEFINE seen == Seen(b, i, tr)
             m == CHOOSE n \in seen : \A x \in seen : n <= x
  <1>1. seen \subseteq Nat
    BY LenProperties DEF Seen
  <1>2. m \in seen /\ \A x \in seen : m <= x
    <2> HIDE DEF seen
    <2>1. \E n \in seen : \A x \in seen : n <= x
      BY <1>1, NatMin DEF seen
    <2> HIDE DEF m
    <2> QED
      BY <2>1 DEF m
  <1>3. NewestSeen(b, i, tr) = m - 1
    BY Zenon DEF NewestSeen
  <1> QED
    BY <1>2, <1>3

\* Where the ids were read as they are: from a version that tr sees, down to the
\* newest one that it sees.
LEMMA AdjustsBack ==
  ASSUME NEW b \in Seq(Entry), Sorted(b), NEW i \in DOMAIN b, NEW tr \in Nat,
         NEW sees \in [0 .. Len(b) - 1 -> BOOLEAN], ReadExactly(b, tr, sees), sees[i - 1]
  PROVE  adjust_idx_by_tranc_id(b, i - 1, sees) = NewestSeen(b, i, tr)
  <1> DEFINE k == b[i][1]
             Sees(n) == tr = 0 \/ b[n][2] <= tr
  <1>1. /\ DOMAIN b = 1 .. Len(b) /\ Len(b) \in Nat /\ i \in 1 .. Len(b)
        /\ \A x \in DOMAIN b : b[x][1] \in Nat /\ b[x][2] \in Nat
    <2>1. \A x \in DOMAIN b : b[x] \in Entry
      BY LenProperties, ElementOfSeq
    <2> QED
      BY <2>1, LenProperties, EntryType
  <1>2. \A x \in DOMAIN b : sees[x - 1] <=> Sees(x)
    BY DEF ReadExactly
  <1>3. i \in Seen(b, i, tr)
    BY <1>2 DEF Seen
  <1>4. PICK m \in Seen(b, i, tr) :
          (\A x \in Seen(b, i, tr) : m <= x) /\ NewestSeen(b, i, tr) = m - 1
    BY <1>3, NewestSeenIs
  <1>5. m \in DOMAIN b /\ b[m][1] = k /\ Sees(m)
    BY <1>4 DEF Seen
  <1>6. m \in 1 .. i /\ m \in Nat
    BY <1>1, <1>3, <1>4, <1>5
  <1>7. \A x \in m .. i : b[x][1] = k /\ Sees(x) /\ x \in DOMAIN b
    <2>1. ASSUME NEW x \in m .. i PROVE b[x][1] = k /\ Sees(x) /\ x \in DOMAIN b
      <3>1. CASE m = i
        BY <1>1, <1>5, <2>1, <3>1
      <3>2. CASE m < i
        <4>1. x \in DOMAIN b /\ b[x][1] = k
          BY <1>5, <3>2, VersionsTogether
        <4>2. CASE x = m
          BY <1>5, <4>1, <4>2
        <4>3. CASE m < x
          <5>1. b[m][2] > b[x][2]
            BY <1>5, <4>1, <4>3, VersionsTogether
          <5> QED
            BY <1>1, <1>5, <4>1, <5>1
        <4> QED
          BY <1>6, <2>1, <4>2, <4>3
      <3> QED
        BY <1>1, <1>6, <3>1, <3>2
    <2> QED
      BY <2>1
  <1>8. m .. i \subseteq Passed(b, i, sees)
    <2>1. ASSUME NEW x \in m .. i PROVE x \in 1 .. i /\ b[x][1] = k /\ sees[x - 1]
      <3>1. x \in 1 .. i
        BY <1>1, <1>6
      <3>2. b[x][1] = k /\ Sees(x) /\ x \in DOMAIN b
        BY <1>7
      <3> HIDE DEF Sees, k
      <3> QED
        BY ONLY <1>2, <3>1, <3>2
    <2> QED
      BY <2>1 DEF Passed
  <1>9. ASSUME m - 1 \in Passed(b, i, sees) PROVE FALSE
    <2>1. m - 1 \in 1 .. i /\ b[m - 1][1] = k /\ sees[m - 1 - 1]
      BY <1>9 DEF Passed
    <2>2. m - 1 \in DOMAIN b
      BY <1>1, <2>1
    <2>3. m - 1 \in Seen(b, i, tr)
      BY <1>2, <2>1, <2>2 DEF Seen
    <2> QED
      BY <1>4, <1>6, <2>3
  <1>10. adjust_idx_by_tranc_id(b, i - 1, sees) = m - 1
    BY <1>6, <1>8, <1>9, BackReaches
  <1> QED
    BY <1>4, <1>10

\* Where the ids were read as they are: from a version that is too new for tr, on
\* to the newest one that it sees.
LEMMA AdjustsOnward ==
  ASSUME NEW b \in Seq(Entry), Sorted(b), NEW i \in DOMAIN b, NEW tr \in Nat,
         NEW sees \in [0 .. Len(b) - 1 -> BOOLEAN], ReadExactly(b, tr, sees), ~ sees[i - 1]
  PROVE  adjust_idx_by_tranc_id(b, i - 1, sees) = NewestSeen(b, i, tr)
  <1> DEFINE k == b[i][1]
             n == Len(b)
             Sees(x) == tr = 0 \/ b[x][2] <= tr
             seen == Seen(b, i, tr)
  <1>1. /\ DOMAIN b = 1 .. n /\ n \in Nat /\ i \in 1 .. n
        /\ \A x \in DOMAIN b : b[x][1] \in Nat /\ b[x][2] \in Nat
    <2>1. \A x \in DOMAIN b : b[x] \in Entry
      BY LenProperties, ElementOfSeq
    <2> QED
      BY <2>1, LenProperties, EntryType
  <1>2. \A x \in DOMAIN b : sees[x - 1] <=> Sees(x)
    BY DEF ReadExactly
  <1>3. \A m \in seen : m \in 1 .. n /\ b[m][1] = k /\ Sees(m) /\ m > i
    <2>1. ASSUME NEW m \in seen PROVE m \in 1 .. n /\ b[m][1] = k /\ Sees(m) /\ m > i
      <3>1. m \in DOMAIN b /\ b[m][1] = k /\ Sees(m)
        BY DEF Seen
      <3>2. m # i
        BY <1>2, <3>1
      <3>3. ASSUME m < i PROVE FALSE
        <4>1. b[m][2] > b[i][2]
          BY <3>1, <3>3, VersionsTogether
        <4>2. ~ Sees(i)
          BY <1>2
        <4> QED
          BY <1>1, <3>1, <4>1, <4>2
      <3> QED
        BY <1>1, <3>1, <3>2, <3>3
    <2> QED
      BY <2>1
  <1>4. \A x \in i .. n - 1 : x + 1 \in DOMAIN b /\ x + 1 - 1 = x
    BY <1>1
  <1>5. \A x \in i .. n - 1 : x + 1 \notin seen /\ b[x + 1][1] = k => ~ sees[x]
    <2>1. ASSUME NEW x \in i .. n - 1, b[x + 1][1] = k, sees[x] PROVE x + 1 \in seen
      <3>1. Sees(x + 1)
        <4> HIDE DEF Sees
        <4> QED
          BY <1>2, <1>4, <2>1
      <3> QED
        BY <1>4, <2>1, <3>1 DEF Seen
    <2> HIDE DEF seen, k, n
    <2> QED
      BY <2>1
  <1>6. CASE seen = {}
    <2> DEFINE A == {x \in i .. n : ~ (x < n /\ b[x + 1][1] = k)}
    <2>1. A \subseteq Nat /\ A # {} /\ A \subseteq i .. n
      BY <1>1
    <2>2. PICK h \in A : \A x \in A : h <= x
      <3> HIDE DEF A
      <3> QED
        BY <2>1, NatMin
    <2>3. h \in i .. n /\ ~ (h < n /\ b[h + 1][1] = k)
      BY <2>1
    <2>4. ASSUME NEW x \in i .. h - 1 PROVE b[x + 1][1] = k /\ ~ sees[x]
      <3>1. x \in i .. n - 1 /\ ~ (h <= x) /\ x \in i .. n /\ x < n
        BY <1>1, <2>3
      <3>2. x \notin A
        <4> HIDE DEF A
        <4> QED
          BY <2>2, <3>1
      <3>3. b[x + 1][1] = k
        BY <3>1, <3>2
      <3> QED
        BY <1>5, <1>6, <3>1, <3>3
    <2>5. adjust_idx_by_tranc_id(b, i - 1, sees) = -1
      <3>1. adjust_idx_by_tranc_id(b, i - 1, sees) =
              IF h < Len(b) /\ b[h + 1][1] = b[i][1] THEN h ELSE -1
        BY <2>3, <2>4, OnwardReaches
      <3> QED
        BY <2>3, <3>1
    <2> QED
      BY <1>6, <2>5 DEF NewestSeen
  <1>7. CASE seen # {}
    <2>1. PICK m \in seen : (\A x \in seen : m <= x) /\ NewestSeen(b, i, tr) = m - 1
      BY <1>7, NewestSeenIs
    <2>2. m \in 1 .. n /\ b[m][1] = k /\ Sees(m) /\ m > i
      BY <1>3, <2>1
    <2>3. \A x \in i .. m : b[x][1] = k
      <3>1. m \in DOMAIN b /\ i < m
        BY <1>1, <2>2
      <3> QED
        BY <2>2, <3>1, VersionsTogether
    <2>4. m - 1 \in i .. n /\ m - 1 < n /\ m - 1 + 1 = m
      BY <1>1, <2>2
    <2>5. ASSUME NEW x \in i .. m - 1 - 1 PROVE b[x + 1][1] = k /\ ~ sees[x]
      <3>1. x \in i .. n - 1 /\ x + 1 \in i .. m /\ x + 1 < m
        BY <1>1, <2>2
      <3>2. x + 1 \notin seen
        <4> HIDE DEF seen
        <4> QED
          BY <1>1, <2>1, <2>2, <3>1
      <3> HIDE DEF seen
      <3> QED
        BY <1>5, <2>3, <3>1, <3>2
    <2>6. sees[m - 1]
      <3>1. m \in DOMAIN b
        BY <1>1, <2>2
      <3> HIDE DEF Sees
      <3> QED
        BY <1>2, <2>2, <3>1
    <2>7. adjust_idx_by_tranc_id(b, i - 1, sees) =
            IF m - 1 < Len(b) /\ b[m - 1 + 1][1] = b[i][1] THEN m - 1 ELSE -1
      BY <2>4, <2>5, <2>6, OnwardReaches
    <2> QED
      BY <2>1, <2>2, <2>4, <2>7
  <1> QED
    BY <1>6, <1>7

\* From any version of a key, adjust_idx_by_tranc_id ends at another one that
\* passed its comparison or nowhere, whatever was read as the ids; and if they were
\* read as they are, at the newest one that a reader may see.
THEOREM FindsVersion == Spec => []AdjustsExactly
  <1>1. ASSUME Inv PROVE AdjustsExactly
    <2>1. ASSUME NEW j \in DOMAIN data, NEW i \in DOMAIN data[j], NEW tr \in Tranc,
                 NEW sees \in get_tranc_id_at(data[j], tr)
          PROVE  LET b   == data[j]
                     got == adjust_idx_by_tranc_id(b, i - 1, sees)
                 IN  /\ \/ got = -1
                        \/ got + 1 \in DOMAIN b /\ b[got + 1][1] = b[i][1] /\ sees[got]
                     /\ ReadExactly(b, tr, sees) => got = NewestSeen(b, i, tr)
      <3>1. data[j] \in Seq(Entry)
        BY <1>1, LenProperties, ElementOfSeq DEF Inv, TypeOK
      <3>2. Sorted(data[j])
        BY <1>1 DEF Inv, Stored
      <3>3. tr \in Nat
        BY SSTBuilderAssumption DEF Tranc
      <3>4. sees \in [0 .. Len(data[j]) - 1 -> BOOLEAN]
        BY <2>1, Zenon DEF get_tranc_id_at
      <3>5. CASE sees[i - 1]
        BY <3>1, <3>2, <3>3, <3>4, <3>5, AdjustsWithin, AdjustsBack
      <3>6. CASE ~ sees[i - 1]
        BY <3>1, <3>2, <3>3, <3>4, <3>6, AdjustsWithin, AdjustsOnward
      <3> QED
        BY <3>5, <3>6
    <2> QED
      BY ONLY <2>1, Zenon DEF AdjustsExactly
  <1> QED
    BY <1>1, BuilderInvariant, PTL
-----------------------------------------------------------------------------
(* Range queries over the blocks.                                          *)

\* What block j answers.
Answer(d, m, p, j) ==
  IF p[m[j][1]] < 0 /\ p[m[j][2]] > 0 THEN <<>> ELSE get_monotony_predicate(d[j], p)

\* The positions of the entries, as pairs of block and index, and those in a range.
Places(d) == UNION {{<<j - 1, n - 1>> : n \in DOMAIN d[j]} : j \in DOMAIN d}
Within(d, lo, hi) == {x \in Places(d) : d[x[1] + 1][x[2] + 1][1] \in lo .. hi}

\* A position is not before, or before, the ends of an answer.
FromBegin(got, x) == x[1] > got[1][1] \/ (x[1] = got[1][1] /\ x[2] >= got[1][2])
BeforeEnd(got, x) == \/ x[1] < got[2][1]
                     \/ x[1] = got[2][1] /\ (got[2][2] = Null \/ x[2] < got[2][2])

RangeAnswered(d, m, lo, hi) ==
  LET got == sst_iters_monotony_predicate(d, m, Query(lo, hi))
  IN  IF Within(d, lo, hi) = {} THEN got = <<>>
      ELSE got # <<>> /\ Within(d, lo, hi) =
                           {x \in Places(d) : FromBegin(got, x) /\ BeforeEnd(got, x)}

\* The keys of the entries: within the range of their block, and rising from
\* block to block.
LEMMA KeysOrdered ==
  ASSUME NEW d \in Seq(Seq(Entry)), NEW m \in Seq(Meta), NEW bits, NEW given,
         Stored(d, m, bits, given)
  PROVE  /\ DOMAIN d = 1 .. Len(d) /\ Len(d) \in Nat /\ Len(m) = Len(d)
         /\ \A j \in 1 .. Len(d) :
              /\ d[j] \in Seq(Entry) /\ DOMAIN d[j] = 1 .. Len(d[j]) /\ Len(d[j]) \in Nat
              /\ Rising(d[j])
              /\ m[j][1] \in Key /\ m[j][2] \in Key \cup {NoKey}
              /\ m[j][1] \in Nat /\ m[j][2] \in Nat
              /\ \A i \in DOMAIN d[j] : /\ d[j][i][1] \in Nat
                                        /\ m[j][1] <= d[j][i][1] /\ d[j][i][1] <= m[j][2]
         /\ \A j, h \in 1 .. Len(d) : j < h =>
              \A i \in DOMAIN d[j], g \in DOMAIN d[h] : d[j][i][1] < d[h][g][1]
  <1>1. DOMAIN d = 1 .. Len(d) /\ Len(d) \in Nat /\ Len(m) = Len(d) /\ DOMAIN m = 1 .. Len(d)
    BY LenProperties DEF Stored
  <1>2. ASSUME NEW j \in 1 .. Len(d)
        PROVE  /\ d[j] \in Seq(Entry) /\ DOMAIN d[j] = 1 .. Len(d[j]) /\ Len(d[j]) \in Nat
               /\ Rising(d[j])
               /\ m[j][1] \in Key /\ m[j][2] \in Key \cup {NoKey}
               /\ m[j][1] \in Nat /\ m[j][2] \in Nat
               /\ \A i \in DOMAIN d[j] : /\ d[j][i][1] \in Nat
                                         /\ m[j][1] <= d[j][i][1] /\ d[j][i][1] <= m[j][2]
    <2>1. d[j] \in Seq(Entry) /\ m[j] \in Meta
      BY <1>1, ElementOfSeq
    <2>2. DOMAIN d[j] = 1 .. Len(d[j]) /\ Len(d[j]) \in Nat
      BY <2>1, LenProperties
    <2>3. m[j][1] \in Key /\ m[j][2] \in Key \cup {NoKey}
      BY <2>1 DEF Meta
    <2>4. m[j][1] \in Nat /\ m[j][2] \in Nat
      BY <2>3, KeysAreNat
    <2>5. Sorted(d[j]) /\ Ranged(d[j], m[j][1], m[j][2])
      BY <1>1 DEF Stored
    <2>6. \A i \in DOMAIN d[j] : d[j][i] \in Entry /\ d[j][i][1] \in Nat
      BY <2>1, <2>2, ElementOfSeq, EntryType
    <2>7. Rising(d[j])
      BY <2>5, <2>6 DEF Sorted, Before, Rising
    <2> QED
      BY <2>1, <2>2, <2>3, <2>4, <2>5, <2>6, <2>7 DEF Ranged
  <1>3. ASSUME NEW j \in 1 .. Len(d), NEW h \in 1 .. Len(d), j < h,
               NEW i \in DOMAIN d[j], NEW g \in DOMAIN d[h]
        PROVE  d[j][i][1] < d[h][g][1]
    <2>1. m[j][2] < m[h][1]
      BY <1>1, <1>3 DEF Stored, Ascending
    <2>2. /\ d[j][i][1] \in Nat /\ d[h][g][1] \in Nat /\ m[j][2] \in Nat /\ m[h][1] \in Nat
          /\ d[j][i][1] <= m[j][2] /\ m[h][1] <= d[h][g][1]
      BY <1>2
    <2>3. PICK x \in Nat, y \in Nat, l \in Nat, f \in Nat :
            x = d[j][i][1] /\ y = d[h][g][1] /\ l = m[j][2] /\ f = m[h][1]
      BY <2>2
    <2>4. x <= l /\ l < f /\ f <= y
      BY ONLY <2>1, <2>2, <2>3, Zenon
    <2>5. x < y
      BY <2>4
    <2> QED
      BY ONLY <2>3, <2>5, Zenon
  <1> QED
    BY <1>1, <1>2, <1>3

\* A block answers with the places of its entries in the range; the blocks that
\* are skipped have none.
AnswerIs(b, answer, lo, hi) ==
  \E a, c : /\ a \in 0 .. Len(b) /\ c \in a .. Len(b)
            /\ Cuts(b, lo, hi, a, c)
            /\ answer = IF a = c THEN <<>> ELSE <<a, c>>

LEMMA Answers ==
  ASSUME NEW d \in Seq(Seq(Entry)), NEW m \in Seq(Meta), NEW bits, NEW given,
         Stored(d, m, bits, given), NEW lo \in Key, NEW hi \in Key, NEW j \in 1 .. Len(d)
  PROVE  AnswerIs(d[j], Answer(d, m, Query(lo, hi), j), lo, hi)
  <1> DEFINE p == Query(lo, hi)
             b == d[j]
  <1>1. /\ b \in Seq(Entry) /\ DOMAIN b = 1 .. Len(b) /\ Len(b) \in Nat /\ Rising(b)
        /\ m[j][1] \in Key /\ m[j][2] \in Key \cup {NoKey}
        /\ m[j][1] \in Nat /\ m[j][2] \in Nat
        /\ \A i \in DOMAIN b : /\ b[i][1] \in Nat
                               /\ m[j][1] <= b[i][1] /\ b[i][1] <= m[j][2]
    BY KeysOrdered
  <1>2. PICK a, c : RangeIs(b, lo, hi, a, c)
    <2> HIDE DEF b
    <2> QED
      BY <1>1, RangeOfBlock
  <1>3. /\ a \in 0 .. Len(b) /\ c \in a .. Len(b) /\ Cuts(b, lo, hi, a, c)
        /\ get_monotony_predicate(b, p) = IF a = c THEN <<>> ELSE <<a, c>>
    BY <1>2 DEF RangeIs
  <1>4. CASE p[m[j][1]] < 0 /\ p[m[j][2]] > 0
    <2>1. lo \in Nat /\ hi \in Nat
      BY KeysAreNat
    <2>2. p[m[j][1]] = IF m[j][1] < lo THEN 1 ELSE IF m[j][1] > hi THEN -1 ELSE 0
      BY <1>1 DEF Query
    <2>3. p[m[j][2]] = IF m[j][2] < lo THEN 1 ELSE IF m[j][2] > hi THEN -1 ELSE 0
      BY <1>1 DEF Query
    <2> HIDE DEF p, b
    <2>4. m[j][2] < m[j][1]
      BY <1>1, <1>4, <2>1, <2>2, <2>3
    <2>5. DOMAIN b = {}
      <3>1. ASSUME NEW i \in DOMAIN b PROVE FALSE
        <4>1. b[i][1] \in Nat /\ m[j][1] <= b[i][1] /\ b[i][1] <= m[j][2]
          BY <1>1
        <4> QED
          BY <1>1, <2>4, <4>1
      <3> QED
        BY <3>1
    <2>6. Len(b) = 0 /\ a = c
      BY <1>1, <1>3, <2>5
    <2>7. Answer(d, m, p, j) = <<>>
      BY <1>4 DEF Answer
    <2> QED
      BY <1>3, <2>6, <2>7 DEF AnswerIs, p, b
  <1>5. CASE ~ (p[m[j][1]] < 0 /\ p[m[j][2]] > 0)
    <2>1. Answer(d, m, p, j) = get_monotony_predicate(b, p)
      BY <1>5 DEF Answer
    <2> HIDE DEF p, b
    <2> QED
      BY <1>3, <2>1 DEF AnswerIs, p, b
  <1> QED
    BY <1>4, <1>5

\* An answer is empty exactly if no entry is in the range.
LEMMA AnswerEmpty ==
  ASSUME NEW b \in Seq(Entry), NEW lo \in Nat, NEW hi \in Nat, NEW answer,
         AnswerIs(b, answer, lo, hi)
  PROVE  answer = <<>> <=> \A i \in DOMAIN b : b[i][1] \notin lo .. hi
  <1>1. /\ DOMAIN b = 1 .. Len(b) /\ Len(b) \in Nat
        /\ \A i \in DOMAIN b : b[i][1] \in Nat
    <2>1. \A i \in DOMAIN b : b[i] \in Entry
      BY LenProperties, ElementOfSeq
    <2> QED
      BY <2>1, LenProperties, EntryType
  <1>2. PICK a, c : /\ a \in 0 .. Len(b) /\ c \in a .. Len(b)
                    /\ Cuts(b, lo, hi, a, c)
                    /\ answer = IF a = c THEN <<>> ELSE <<a, c>>
    BY DEF AnswerIs
  <1>3. CASE a = c
    <2>1. answer = <<>>
      BY <1>2, <1>3
    <2>2. \A i \in DOMAIN b : b[i][1] \notin lo .. hi
      BY <1>1, <1>2, <1>3 DEF Cuts
    <2> QED
      BY <2>1, <2>2
  <1>4. CASE a # c
    <2>1. answer # <<>>
      BY <1>2, <1>4
    <2>2. PICK i \in DOMAIN b : i = a + 1
      BY <1>1, <1>2, <1>4
    <2>3. i - 1 = a /\ a < c /\ ~ (a < a)
      BY <1>2, <1>4, <2>2
    <2>4. b[i][1] \in lo .. hi
      BY <1>1, <1>2, <2>2, <2>3 DEF Cuts
    <2> QED
      BY <2>1, <2>4
  <1> QED
    BY <1>3, <1>4

\* The answer of all blocks is put together from the first and the last that
\* has one.
LEMMA RangeOfAll ==
  ASSUME NEW d \in Seq(Seq(Entry)), NEW m \in Seq(Meta), NEW bits, NEW given,
         Stored(d, m, bits, given), NEW lo \in Key, NEW hi \in Key
  PROVE  RangeAnswered(d, m, lo, hi)
  <1> DEFINE n == Len(d)
             p == Query(lo, hi)
             range == [j \in DOMAIN d |-> Answer(d, m, p, j)]
             found == {j \in DOMAIN d : range[j] # <<>>}
             after == range[Max(found)][2]
             got == sst_iters_monotony_predicate(d, m, p)
  <1>1. /\ DOMAIN d = 1 .. n /\ n \in Nat
        /\ \A j \in 1 .. n :
              /\ d[j] \in Seq(Entry) /\ DOMAIN d[j] = 1 .. Len(d[j]) /\ Len(d[j]) \in Nat
              /\ \A i \in DOMAIN d[j] : d[j][i][1] \in Nat
        /\ \A j, h \in 1 .. n : j < h =>
              \A i \in DOMAIN d[j], g \in DOMAIN d[h] : d[j][i][1] < d[h][g][1]
    BY KeysOrdered
  <1>2. lo \in Nat /\ hi \in Nat
    BY KeysAreNat
  <1>3. \A j \in 1 .. n : AnswerIs(d[j], range[j], lo, hi)
    BY <1>1, Answers
  <1>4. got = IF found = {} THEN <<>>
              ELSE << <<Min(found) - 1, range[Min(found)][1]>>,
                      <<Max(found) - 1, IF after = Len(d[Max(found)]) THEN Null ELSE after>> >>
    BY Zenon DEF sst_iters_monotony_predicate, Answer
  <1> HIDE DEF range, got, p
  <1>5. \A j \in 1 .. n : j \in found <=> \E i \in DOMAIN d[j] : d[j][i][1] \in lo .. hi
    <2>1. ASSUME NEW j \in 1 .. n
          PROVE  range[j] = <<>> <=> \A i \in DOMAIN d[j] : d[j][i][1] \notin lo .. hi
      <3>1. d[j] \in Seq(Entry) /\ AnswerIs(d[j], range[j], lo, hi)
        BY <1>1, <1>3
      <3> QED
        BY ONLY <3>1, <1>2, AnswerEmpty
    <2> QED
      BY <1>1, <2>1
  <1>6. found \subseteq 1 .. n
    BY <1>1
  <1> HIDE DEF found, n
  <1>7. \A x : x \in Within(d, lo, hi) <=>
               \E j \in 1 .. n : \E i \in DOMAIN d[j] :
                  x = <<j - 1, i - 1>> /\ d[j][i][1] \in lo .. hi
    <2>1. ASSUME NEW j \in 1 .. n, NEW i \in DOMAIN d[j], NEW x, x = <<j - 1, i - 1>>
          PROVE  d[x[1] + 1][x[2] + 1][1] = d[j][i][1]
      <3>1. x[1] + 1 = j /\ x[2] + 1 = i
        BY <1>1, <2>1
      <3> QED
        BY <3>1
    <2>2. ASSUME NEW x
          PROVE  x \in Places(d) <=>
                   \E j \in 1 .. n : \E i \in DOMAIN d[j] : x = <<j - 1, i - 1>>
      BY <1>1 DEF Places
    <2>3. \A x : x \in Within(d, lo, hi) <=>
                  x \in Places(d) /\ d[x[1] + 1][x[2] + 1][1] \in lo .. hi
      BY DEF Within
    <2>4. ASSUME NEW x, x \in Within(d, lo, hi)
          PROVE  \E j \in 1 .. n : \E i \in DOMAIN d[j] :
                    x = <<j - 1, i - 1>> /\ d[j][i][1] \in lo .. hi
      <3>1. PICK j \in 1 .. n : \E i \in DOMAIN d[j] : x = <<j - 1, i - 1>>
        BY ONLY <2>2, <2>3, <2>4, Zenon
      <3>4. PICK i \in DOMAIN d[j] : x = <<j - 1, i - 1>>
        BY <3>1
      <3>2. d[x[1] + 1][x[2] + 1][1] = d[j][i][1]
        BY <2>1, <3>4
      <3>3. d[j][i][1] \in lo .. hi
        BY ONLY <2>3, <2>4, <3>2, Zenon
      <3> QED
        BY <3>3, <3>4
    <2>5. ASSUME NEW x, NEW j \in 1 .. n, NEW i \in DOMAIN d[j], x = <<j - 1, i - 1>>,
                 d[j][i][1] \in lo .. hi
          PROVE  x \in Within(d, lo, hi)
      <3>1. d[x[1] + 1][x[2] + 1][1] = d[j][i][1]
        BY <2>1, <2>5
      <3>2. x \in Places(d)
        BY ONLY <2>2, <2>5, Zenon
      <3>3. d[x[1] + 1][x[2] + 1][1] \in lo .. hi
        BY ONLY <2>5, <3>1, Zenon
      <3> QED
        BY ONLY <2>3, <3>2, <3>3, Zenon
    <2> QED
      BY ONLY <2>4, <2>5, Zenon
  <1>8. CASE found = {}
    <2>1. got = <<>>
      BY <1>4, <1>8
    <2>2. Within(d, lo, hi) = {}
      BY <1>5, <1>7, <1>8
    <2> QED
      BY <2>1, <2>2 DEF RangeAnswered, got, p
  <1>9. CASE found # {}
    <2>1. PICK F \in found, G \in found : /\ F = Min(found) /\ G = Max(found)
                                          /\ \A x \in found : F <= x /\ x <= G
      BY <1>1, <1>6, <1>9, Extremes
    <2>2. PICK a, c : /\ a \in 0 .. Len(d[F]) /\ c \in a .. Len(d[F])
                      /\ Cuts(d[F], lo, hi, a, c) /\ range[F] = IF a = c THEN <<>> ELSE <<a, c>>
      BY <1>3, <1>6 DEF AnswerIs
    <2>3. PICK s, t : /\ s \in 0 .. Len(d[G]) /\ t \in s .. Len(d[G])
                      /\ Cuts(d[G], lo, hi, s, t) /\ range[G] = IF s = t THEN <<>> ELSE <<s, t>>
      BY <1>3, <1>6 DEF AnswerIs
    <2>4. range[F][1] = a /\ range[G][2] = t
      <3>1. range[F] # <<>> /\ range[G] # <<>>
        BY DEF found
      <3> QED
        BY <2>2, <2>3, <3>1
    <2>5. PICK fi \in DOMAIN d[F] : d[F][fi][1] \in lo .. hi
      BY <1>5, <1>6
    <2>6. PICK gi \in DOMAIN d[G] : d[G][gi][1] \in lo .. hi
      BY <1>5, <1>6
    <2>7. /\ got # <<>> /\ got[1][1] = F - 1 /\ got[1][2] = a /\ got[2][1] = G - 1
          /\ got[2][2] = IF t = Len(d[G]) THEN Null ELSE t
      BY <1>4, <1>9, <2>1, <2>4
    <2>8. F \in 1 .. n /\ G \in 1 .. n /\ F \in Int /\ G \in Int /\ lo <= hi
      BY <1>1, <1>2, <1>6, <2>5
    <2>9. PICK kf \in Nat, kg \in Nat : /\ kf = d[F][fi][1] /\ kg = d[G][gi][1]
                                        /\ lo <= kf /\ kf <= hi /\ lo <= kg /\ kg <= hi
      <3>1. d[F][fi][1] \in Nat /\ d[G][gi][1] \in Nat
        BY <1>1, <2>8
      <3> QED
        BY <2>5, <2>6, <3>1
    <2>10. ASSUME NEW j \in 1 .. n, NEW i \in DOMAIN d[j], NEW x, x = <<j - 1, i - 1>>
           PROVE  /\ FromBegin(got, x) <=> lo <= d[j][i][1]
                  /\ BeforeEnd(got, x) <=> d[j][i][1] <= hi
      <3>1. PICK k \in Nat : k = d[j][i][1]
        BY <1>1
      <3>2. x[1] = j - 1 /\ x[2] = i - 1 /\ j \in Int /\ i \in Int
        BY <1>1, <2>10
      <3>3. FromBegin(got, x) <=> j > F \/ (j = F /\ i - 1 >= a)
        <4>1. FromBegin(got, x) <=> j - 1 > F - 1 \/ (j - 1 = F - 1 /\ i - 1 >= a)
          BY ONLY <2>7, <3>2, Zenon DEF FromBegin
        <4>2. (j - 1 > F - 1 <=> j > F) /\ (j - 1 = F - 1 <=> j = F)
          BY ONLY <2>8, <3>2
        <4> QED
          BY ONLY <4>1, <4>2, Zenon
      <3>4. BeforeEnd(got, x) <=> \/ j < G
                                  \/ j = G /\ (got[2][2] = Null \/ i - 1 < got[2][2])
        <4>1. BeforeEnd(got, x) <=> \/ j - 1 < G - 1
                                    \/ j - 1 = G - 1 /\ (got[2][2] = Null \/ i - 1 < got[2][2])
          BY ONLY <2>7, <3>2, Zenon DEF BeforeEnd
        <4>2. (j - 1 < G - 1 <=> j < G) /\ (j - 1 = G - 1 <=> j = G)
          BY ONLY <2>8, <3>2
        <4> QED
          BY ONLY <4>1, <4>2, Zenon
      <3>5. /\ j < F => k < kf
            /\ F < j => kf < k
            /\ j < G => k < kg
            /\ G < j => kg < k
        BY <1>1, <2>8, <2>9, <3>1
      <3>6. j \notin found => ~ (lo <= k /\ k <= hi)
        <4>1. j \notin found => d[j][i][1] \notin lo .. hi
          BY <1>5
        <4> QED
          BY <1>2, <3>1, <4>1
      <3>7. (j < F => j \notin found) /\ (G < j => j \notin found)
        <4>1. F \in Int /\ G \in Int /\ j \in Int
          BY ONLY <2>8, <3>2, Zenon
        <4>2. j \in found => F <= j /\ j <= G
          BY ONLY <2>1, Zenon
        <4> QED
          BY ONLY <4>1, <4>2
      <3>8. j = F => (i - 1 >= a <=> lo <= k)
        <4>1. ASSUME j = F PROVE i - 1 < a <=> k < lo
          BY <2>2, <3>1, <4>1 DEF Cuts
        <4> QED
          BY <1>2, <2>2, <3>2, <4>1
      <3>9. j = G => ((got[2][2] = Null \/ i - 1 < got[2][2]) <=> k <= hi)
        <4>1. SUFFICES ASSUME j = G PROVE (got[2][2] = Null \/ i - 1 < got[2][2]) <=> k <= hi
          OBVIOUS
        <4>2. i - 1 < t <=> (k < lo \/ k <= hi)
          BY <2>3, <3>1, <4>1 DEF Cuts
        <4>3. i \in 1 .. Len(d[G]) /\ t \in 0 .. Len(d[G]) /\ Len(d[G]) \in Nat
          BY <1>1, <2>3, <2>8, <4>1
        <4>4. i - 1 < t <=> (got[2][2] = Null \/ i - 1 < got[2][2])
          <5>1. CASE t = Len(d[G])
            <6>1. got[2][2] = Null
              BY <2>7, <5>1
            <6> QED
              BY <4>3, <5>1, <6>1
          <5>2. CASE t # Len(d[G])
            <6>1. got[2][2] = t /\ t # Null
              BY <2>7, <4>3, <5>2 DEF Null
            <6> QED
              BY <6>1
          <5> QED
            BY <5>1, <5>2
        <4>5. i - 1 < t <=> k <= hi
          BY <1>2, <2>8, <4>2
        <4> QED
          BY ONLY <4>4, <4>5, Zenon
      <3>12. /\ k \in Nat /\ kf \in Nat /\ kg \in Nat /\ lo \in Nat /\ hi \in Nat
             /\ lo <= kf /\ kf <= hi /\ lo <= kg /\ kg <= hi
        BY <1>2, <2>9
      <3>10. FromBegin(got, x) <=> lo <= k
        <4>1. CASE j < F
          <5>1. ~ (lo <= k)
            <6>1. k < kf /\ ~ (lo <= k /\ k <= hi)
              BY ONLY <3>5, <3>6, <3>7, <4>1, Zenon
            <6> QED
              BY ONLY <3>12, <6>1
          <5>0. F \in Int /\ j \in Int /\ j < F
            BY ONLY <2>8, <3>2, <4>1, Zenon
          <5>3. ~ (j > F) /\ j # F
            BY ONLY <5>0
          <5>2. ~ (j > F \/ (j = F /\ i - 1 >= a))
            BY ONLY <5>3, Zenon
          <5> QED
            BY ONLY <3>3, <5>1, <5>2, Zenon
        <4>2. CASE j = F
          <5>1. ~ (j > F)
            BY ONLY <2>8, <3>2, <4>2
          <5> QED
            BY ONLY <3>3, <3>8, <4>2, <5>1, Zenon
        <4>3. CASE j > F
          <5>0. F \in Int /\ j \in Int
            BY ONLY <2>8, <3>2
          <5>2. F < j
            BY ONLY <4>3, <5>0
          <5>3. kf < k
            BY ONLY <3>5, <5>2, Zenon
          <5>1. lo <= k
            BY ONLY <3>12, <5>3
          <5> QED
            BY ONLY <3>3, <4>3, <5>1, Zenon
        <4> QED
          BY ONLY <2>8, <3>2, <4>1, <4>2, <4>3
      <3>11. BeforeEnd(got, x) <=> k <= hi
        <4>1. CASE j > G
          <5>0. G \in Int /\ j \in Int /\ G < j
            BY ONLY <2>8, <3>2, <4>1
          <5>1. ~ (k <= hi)
            <6>1. kg < k /\ ~ (lo <= k /\ k <= hi)
              BY ONLY <3>5, <3>6, <3>7, <5>0, Zenon
            <6> QED
              BY ONLY <3>12, <6>1
          <5>2. ~ (j < G) /\ j # G
            BY ONLY <5>0
          <5> QED
            BY ONLY <3>4, <5>1, <5>2, Zenon
        <4>2. CASE j = G
          <5>1. ~ (j < G)
            BY ONLY <2>8, <3>2, <4>2
          <5> QED
            BY ONLY <3>4, <3>9, <4>2, <5>1, Zenon
        <4>3. CASE j < G
          <5>3. k < kg
            BY ONLY <3>5, <4>3, Zenon
          <5>1. k <= hi
            BY ONLY <3>12, <5>3
          <5> QED
            BY ONLY <3>4, <4>3, <5>1, Zenon
        <4> QED
          BY ONLY <2>8, <3>2, <4>1, <4>2, <4>3
      <3> QED
        BY ONLY <3>1, <3>10, <3>11, Zenon
    <2>11. \A x : x \in Within(d, lo, hi) <=>
                  x \in Places(d) /\ FromBegin(got, x) /\ BeforeEnd(got, x)
      <3>1. ASSUME NEW x, NEW j \in 1 .. n, NEW i \in DOMAIN d[j], x = <<j - 1, i - 1>>
            PROVE  d[j][i][1] \in lo .. hi <=> FromBegin(got, x) /\ BeforeEnd(got, x)
        <4>1. d[j][i][1] \in Nat
          BY <1>1
        <4>2. FromBegin(got, x) <=> lo <= d[j][i][1]
          BY <2>10, <3>1
        <4>3. BeforeEnd(got, x) <=> d[j][i][1] <= hi
          BY <2>10, <3>1
        <4> QED
          BY ONLY <1>2, <4>1, <4>2, <4>3
      <3>2. ASSUME NEW x
            PROVE  x \in Places(d) <=>
                     \E j \in 1 .. n : \E i \in DOMAIN d[j] : x = <<j - 1, i - 1>>
        BY <1>1 DEF Places
      <3> QED
        BY ONLY <1>7, <3>1, <3>2, Zenon
    <2>12. Within(d, lo, hi) # {}
      BY <1>7, <2>5, <2>8
    <2>13. Within(d, lo, hi) = {x \in Places(d) : FromBegin(got, x) /\ BeforeEnd(got, x)}
      BY ONLY <2>11
    <2> QED
      BY ONLY <2>7, <2>12, <2>13, Zenon DEF RangeAnswered, got, p
  <1> QED
    BY <1>8, <1>9

\* A range query of an SST returns exactly its entries in the range.
THEOREM RangesAnswered == Spec => []RangeExact
  <1>1. ASSUME Inv PROVE RangeExact
    <2>1. ASSUME NEW lo \in Key, NEW hi \in Key PROVE RangeAnswered(data, meta_entries, lo, hi)
      <3>1. /\ data \in Seq(Seq(Entry)) /\ meta_entries \in Seq(Meta)
            /\ Stored(data, meta_entries, bloom_filter, added)
        BY <1>1 DEF Inv, TypeOK, Meta
      <3> QED
        BY <3>1, RangeOfAll
    <2> QED
      BY ONLY <2>1, Zenon DEF RangeExact, RangeAnswered, Within, Places, FromBegin, BeforeEnd, Query
  <1> QED
    BY <1>1, BuilderInvariant, PTL
-----------------------------------------------------------------------------
(* The entries of an SST.                                                  *)

\* An entry is in a finished block or in the one at hand.
Holds(d, b, e) ==
  \/ \E j \in DOMAIN d : \E i \in DOMAIN d[j] : d[j][i] = e
  \/ \E i \in DOMAIN b : b[i] = e

\* The blocks hold what was given, but for what no block takes.
Complete(d, b, given) ==
  /\ \A i \in DOMAIN given : TooLarge(given[i]) \/ Holds(d, b, given[i])
  /\ \A e : Holds(d, b, e) => \E i \in DOMAIN given : given[i] = e

Filling == IF phase = "adding" THEN block ELSE <<>>

Contents == Sorted(added) /\ Complete(data, Filling, added)

LEMMA HoldsEntry ==
  ASSUME NEW d, NEW b \in Seq(Entry), NEW x \in Entry
  PROVE  \A e : Holds(d, Append(b, x), e) <=> Holds(d, b, e) \/ e = x
  <1> DEFINE n == Len(b)
             c == Append(b, x)
  <1>1. /\ n \in Nat /\ DOMAIN b = 1 .. n /\ DOMAIN c = 1 .. n + 1
        /\ \A i \in 1 .. n : c[i] = b[i]
        /\ c[n + 1] = x
    BY AppendIs
  <1> HIDE DEF n, c
  <1>2. \A e : (\E i \in DOMAIN c : c[i] = e) <=> (\E i \in DOMAIN b : b[i] = e) \/ e = x
    <2>1. \A i \in 1 .. n + 1 : i \in 1 .. n \/ i = n + 1
      BY <1>1
    <2>2. n + 1 \in 1 .. n + 1 /\ \A i \in 1 .. n : i \in 1 .. n + 1
      BY <1>1
    <2> QED
      BY ONLY <1>1, <2>1, <2>2, Zenon
  <1>3. \A e : Holds(d, c, e) <=> Holds(d, b, e) \/ e = x
    BY ONLY <1>2, Zenon DEF Holds
  <1> QED
    BY ONLY <1>3, Zenon DEF c

LEMMA HoldsBlock ==
  ASSUME NEW d \in Seq(Seq(Entry)), NEW b \in Seq(Entry)
  PROVE  \A e : Holds(Append(d, b), <<>>, e) <=> Holds(d, b, e)
  <1> DEFINE n == Len(d)
             c == Append(d, b)
  <1>1. /\ n \in Nat /\ DOMAIN d = 1 .. n /\ DOMAIN c = 1 .. n + 1
        /\ \A i \in 1 .. n : c[i] = d[i]
        /\ c[n + 1] = b
    BY AppendIs
  <1> HIDE DEF n, c
  <1>2. DOMAIN <<>> = {}
    OBVIOUS
  <1>3. \A i \in 1 .. n + 1 : i \in 1 .. n \/ i = n + 1
    BY <1>1
  <1>4. n + 1 \in 1 .. n + 1 /\ \A i \in 1 .. n : i \in 1 .. n + 1
    BY <1>1
  <1>5. ASSUME NEW e, Holds(c, <<>>, e) PROVE Holds(d, b, e)
    <2>1. PICK j \in DOMAIN c : \E i \in DOMAIN c[j] : c[j][i] = e
      BY ONLY <1>2, <1>5, Zenon DEF Holds
    <2>2. CASE j \in 1 .. n
      BY ONLY <1>1, <2>1, <2>2, Zenon DEF Holds
    <2>3. CASE j = n + 1
      BY ONLY <1>1, <2>1, <2>3, Zenon DEF Holds
    <2> QED
      BY ONLY <1>1, <1>3, <2>1, <2>2, <2>3, Zenon
  <1>6. ASSUME NEW e, Holds(d, b, e) PROVE Holds(c, <<>>, e)
    <2>1. CASE \E j \in DOMAIN d : \E i \in DOMAIN d[j] : d[j][i] = e
      <3>1. PICK j \in 1 .. n : \E i \in DOMAIN d[j] : d[j][i] = e
        BY ONLY <1>1, <2>1, Zenon
      <3>2. j \in DOMAIN c /\ c[j] = d[j]
        BY ONLY <1>1, <1>4, <3>1, Zenon
      <3> QED
        BY ONLY <3>1, <3>2, Zenon DEF Holds
    <2>2. CASE \E i \in DOMAIN b : b[i] = e
      <3>1. n + 1 \in DOMAIN c /\ c[n + 1] = b
        BY ONLY <1>1, <1>4, Zenon
      <3> QED
        BY ONLY <2>2, <3>1, Zenon DEF Holds
    <2> QED
      BY ONLY <1>6, <2>1, <2>2, Zenon DEF Holds
  <1> QED
    BY <1>5, <1>6 DEF c

LEMMA ContentsKept ==
  ASSUME Inv, Contents, [Next]_vars
  PROVE  Contents'
  <1>1. /\ block \in Seq(Entry) /\ data \in Seq(Seq(Entry)) /\ added \in Seq(Entry)
    BY DEF Inv, TypeOK
  <1>2. ASSUME NEW e \in Entry, Next_entry(e)
        PROVE  /\ Filling = block /\ Sorted(added')
               /\ \A x : (\E i \in DOMAIN added' : added'[i] = x)
                           <=> (\E i \in DOMAIN added : added[i] = x) \/ x = e
    <2> DEFINE n == Len(added)
    <2>1. /\ n \in Nat /\ DOMAIN added = 1 .. n /\ DOMAIN added' = 1 .. n + 1
          /\ \A i \in 1 .. n : added'[i] = added[i] /\ added[i] \in Entry
          /\ added'[n + 1] = e /\ added' = Append(added, e)
      BY <1>1, <1>2, AppendIs DEF Next_entry
    <2>2. Filling = block
      BY <1>2 DEF Next_entry, Filling
    <2>3. \A i \in DOMAIN added : Before(added[i], e)
      <3>1. ASSUME NEW i \in 1 .. n PROVE Before(added[i], e)
        <4>1. n \in 1 .. n /\ added # <<>>
          BY <2>1, <3>1
        <4>2. Before(added[n], e)
          BY <1>2, <4>1 DEF Next_entry, Last
        <4>3. i = n \/ Before(added[i], added[n])
          <5>1. Sorted(added) /\ DOMAIN added = 1 .. n
            BY <2>1 DEF Contents
          <5>2. i = n \/ i < n
            <6> HIDE DEF n
            <6>1. n \in Nat
              BY <2>1
            <6> QED
              BY ONLY <6>1, i \in 1 .. n
          <5> QED
            BY ONLY <3>1, <4>1, <5>1, <5>2, i \in 1 .. n, Zenon DEF Sorted
        <4> QED
          BY <2>1, <4>1, <4>2, <4>3, BeforeTransitive
      <3> QED
        BY <2>1, <3>1
    <2>4. Sorted(added')
      BY <1>1, <2>1, <2>3, SortedGrows DEF Contents
    <2> HIDE DEF n
    <2>5. /\ \A i \in 1 .. n + 1 : i \in 1 .. n \/ i = n + 1
          /\ n + 1 \in 1 .. n + 1 /\ \A i \in 1 .. n : i \in 1 .. n + 1
      BY <2>1
    <2>6. \A x : (\E i \in DOMAIN added' : added'[i] = x)
                   <=> (\E i \in DOMAIN added : added[i] = x) \/ x = e
      BY ONLY <2>1, <2>5, Zenon
    <2> QED
      BY ONLY <2>2, <2>4, <2>6, Zenon
  <1>3. ASSUME NEW e \in Entry, Next_entry(e),
               \A x : Holds(data', Filling', x) =>
                        Holds(data, block, x) \/ x = e,
               \A x : Holds(data, block, x) => Holds(data', Filling', x),
               TooLarge(e) \/ Holds(data', Filling', e)
        PROVE  Contents'
    <2>1. Sorted(added') /\ Complete(data, block, added)
      BY <1>2, <1>3 DEF Contents
    <2>2. \A i \in DOMAIN added' :
             TooLarge(added'[i]) \/ Holds(data', Filling', added'[i])
      <3>1. ASSUME NEW i \in DOMAIN added'
            PROVE  TooLarge(added'[i]) \/ Holds(data', Filling', added'[i])
        <4>1. PICK x : x = added'[i]
          OBVIOUS
        <4>2. (\E h \in DOMAIN added : added[h] = x) \/ x = e
          BY <1>2, <1>3, <4>1
        <4>3. TooLarge(x) \/ Holds(data', Filling', x)
          BY ONLY <1>3, <2>1, <4>2, Zenon DEF Complete
        <4> QED
          BY ONLY <4>1, <4>3, Zenon
      <3> QED
        BY <3>1
    <2>3. \A x : Holds(data', Filling', x) => \E i \in DOMAIN added' : added'[i] = x
      <3>1. ASSUME NEW x, Holds(data', Filling', x) PROVE \E i \in DOMAIN added' : added'[i] = x
        <4>1. Holds(data, block, x) \/ x = e
          BY ONLY <1>3, <3>1, Zenon
        <4>2. (\E h \in DOMAIN added : added[h] = x) \/ x = e
          BY ONLY <2>1, <4>1, Zenon DEF Complete
        <4> QED
          BY <1>2, <1>3, <4>2
      <3> QED
        BY <3>1
    <2> QED
      BY ONLY <2>1, <2>2, <2>3, Zenon DEF Contents, Complete
  <1>4. ASSUME NEW e \in Entry, add_fits(e) PROVE Contents'
    <2>1. Next_entry(e) /\ data' = data /\ block' = Append(block, e) /\ phase' = phase
      BY <1>4 DEF add_fits
    <2>2. Filling' = Append(block, e)
      BY <2>1 DEF Filling, Next_entry
    <2>3. \A x : Holds(data', Filling', x) <=> Holds(data, block, x) \/ x = e
      <3>1. \A x : Holds(data, Append(block, e), x) <=> Holds(data, block, x) \/ x = e
        BY <1>1, HoldsEntry
      <3> QED
        BY ONLY <2>1, <2>2, <3>1, Zenon
    <2> QED
      BY <1>3, <2>1, <2>3
  <1>5. ASSUME NEW e \in Entry, add_finishes(e) PROVE Contents'
    <2>1. /\ Next_entry(e) /\ data' = Append(data, block) /\ phase' = phase
          /\ block' = IF Fits(<<>>, e, FALSE) THEN <<e>> ELSE <<>>
      BY <1>5 DEF add_finishes
    <2>2. Filling' = block'
      BY <2>1 DEF Filling, Next_entry
    <2>3. \A x : Holds(data', <<>>, x) <=> Holds(data, block, x)
      <3>1. \A x : Holds(Append(data, block), <<>>, x) <=> Holds(data, block, x)
        BY <1>1, HoldsBlock
      <3> QED
        BY ONLY <2>1, <3>1, Zenon
    <2>4. CASE Fits(<<>>, e, FALSE)
      <3>1. Filling' = Append(<<>>, e) /\ <<>> \in Seq(Entry)
        BY <2>1, <2>2, <2>4, Single
      <3>2. \A x : Holds(data', Append(<<>>, e), x) <=> Holds(data', <<>>, x) \/ x = e
        BY <3>1, HoldsEntry
      <3>3. \A x : Holds(data', Filling', x) <=> Holds(data, block, x) \/ x = e
        BY ONLY <2>3, <3>1, <3>2, Zenon
      <3> QED
        BY <1>3, <2>1, <3>3
    <2>5. CASE ~ Fits(<<>>, e, FALSE)
      <3>1. Filling' = <<>> /\ TooLarge(e)
        BY <2>1, <2>2, <2>5 DEF TooLarge
      <3>2. \A x : Holds(data', Filling', x) <=> Holds(data, block, x)
        BY ONLY <2>3, <3>1, Zenon
      <3> QED
        BY <1>3, <2>1, <3>1, <3>2
    <2> QED
      BY <2>4, <2>5
  <1>6. CASE build
    <2>1. /\ phase = "adding" /\ added' = added /\ phase' # "adding"
          /\ data' = IF block = <<>> THEN data ELSE Append(data, block)
      BY <1>6 DEF build
    <2>2. Filling = block /\ Filling' = <<>>
      BY <2>1 DEF Filling
    <2>3. \A x : Holds(data', <<>>, x) <=> Holds(data, block, x)
      <3>1. CASE block = <<>>
        BY <2>1, <3>1
      <3>2. CASE block # <<>>
        <4>1. \A x : Holds(Append(data, block), <<>>, x) <=> Holds(data, block, x)
          BY <1>1, HoldsBlock
        <4> QED
          BY <2>1, <3>2, <4>1
      <3> QED
        BY <3>1, <3>2
    <2> QED
      BY ONLY <2>1, <2>2, <2>3, Contents, Zenon DEF Contents, Complete
  <1>7. CASE UNCHANGED vars
    BY <1>7 DEF vars, Contents, Filling
  <1> QED
    BY <1>4, <1>5, <1>6, <1>7 DEF Next

\* An SST holds the entries it was given, each once and in their order, but for
\* those that are too large for a block.
THEOREM EntriesKept == Spec => []KeepsEntries
  <1>1. Init => Contents
    <2> SUFFICES ASSUME Init PROVE Contents
      OBVIOUS
    <2>1. data = <<>> /\ added = <<>> /\ Filling = <<>>
      BY DEF Init, Filling
    <2> QED
      BY <2>1 DEF Contents, Sorted, Complete, Holds
  <1>2. ASSUME Inv, Contents, phase = "built" PROVE KeepsEntries
    <2>1. /\ data \in Seq(Seq(Entry)) /\ meta_entries \in Seq(Meta) /\ added \in Seq(Entry)
          /\ Stored(data, meta_entries, bloom_filter, added)
          /\ Filling = <<>> /\ Sorted(added) /\ Complete(data, <<>>, added)
      BY <1>2 DEF Inv, TypeOK, Meta, Contents, Filling
    <2>2. \A e \in ToSet(added) :
             TooLarge(e) \/ \E j \in DOMAIN data : \E i \in DOMAIN data[j] : data[j][i] = e
      <3>1. \A e \in ToSet(added) : \E i \in DOMAIN added : e = added[i]
        BY DEF ToSet
      <3>2. DOMAIN <<>> = {}
        OBVIOUS
      <3>3. ASSUME NEW e \in ToSet(added)
            PROVE  TooLarge(e) \/ \E j \in DOMAIN data : \E i \in DOMAIN data[j] : data[j][i] = e
        <4>1. PICK i \in DOMAIN added : e = added[i]
          BY <3>1
        <4>2. TooLarge(e) \/ Holds(data, <<>>, e)
          BY ONLY <2>1, <4>1, i \in DOMAIN added, Zenon DEF Complete
        <4> QED
          BY ONLY <3>2, <4>2, Zenon DEF Holds
      <3> QED
        BY <3>3
    <2>3. ASSUME NEW j \in DOMAIN data, NEW i \in DOMAIN data[j]
          PROVE  \E m \in DOMAIN added : added[m] = data[j][i]
      <3>1. Holds(data, <<>>, data[j][i])
        BY DEF Holds
      <3> QED
        BY <2>1, <3>1 DEF Complete
    <2>4. \A j \in DOMAIN data : \A i \in DOMAIN data[j] : data[j][i] \in ToSet(added)
      BY <2>3 DEF ToSet
    <2>5. ASSUME NEW j \in DOMAIN data, NEW h \in DOMAIN data,
                 NEW i \in DOMAIN data[j], NEW g \in DOMAIN data[h],
                 j < h \/ (j = h /\ i < g)
          PROVE  InOrder(added, data[j][i], data[h][g])
      <3>1. PICK m \in DOMAIN added, n \in DOMAIN added :
               added[m] = data[j][i] /\ added[n] = data[h][g]
        BY <2>3
      <3>2. Before(added[m], added[n])
        <4>1. CASE j < h
          <5>1. data[j][i][1] < data[h][g][1]
            BY <2>1, <4>1, KeysOrdered
          <5> QED
            BY <3>1, <5>1 DEF Before
        <4>2. CASE j = h /\ i < g
          <5>1. Sorted(data[j])
            BY <2>1 DEF Stored
          <5> QED
            BY <3>1, <4>2, <5>1 DEF Sorted
        <4> QED
          BY <2>5, <4>1, <4>2
      <3>3. /\ m \in Nat /\ n \in Nat /\ added[m] \in Entry /\ added[n] \in Entry
        BY <2>1, LenProperties, ElementOfSeq
      <3>4. ~ Before(added[n], added[m]) /\ ~ Before(added[m], added[m])
        BY <3>2, <3>3, EntryType DEF Before
      <3>5. m # n
        BY ONLY <3>2, <3>4, Zenon
      <3>6. ~ (n < m)
        BY <2>1, <3>4 DEF Sorted
      <3>7. m < n
        BY <3>3, <3>5, <3>6
      <3> QED
        BY <3>1, <3>7 DEF InOrder
    <2> QED
      BY <2>2, <2>4, <2>5 DEF KeepsEntries
  <1>3. Inv /\ Contents => KeepsEntries
    BY <1>2 DEF KeepsEntries
  <1> QED
    BY <1>1, <1>3, ContentsKept, BuilderInvariant, PTL DEF Spec
=============================================================================
