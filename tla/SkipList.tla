------------------------------- MODULE SkipList -------------------------------
(***************************************************************************)
(* The skip list (src/src/skiplist/skiplist.cpp): nodes ordered by key,    *)
(* then by falling tranc_id, linked both ways on every level they reach.   *)
(*                                                                         *)
(* A list has at most one node per version <<key, tranc_id>>, so a node is *)
(* named by its version. Its pointers are forward[n][i] and backward[n][i] *)
(* for the levels 1..MaxLevel, level 1 being the code's level 0. Levels    *)
(* are drawn at random; here, in every way the code can draw them. The     *)
(* pointers a node does not use are null, whether its vectors are that     *)
(* long or not.                                                            *)
(***************************************************************************)
EXTENDS Integers, Sequences, FiniteSetsExt, Functions

CONSTANTS
  Key,         \* keys, numbers in the order of the strings
  MaxTranc,    \* transaction ids are 0..MaxTranc
  Value,       \* values, lengths in bytes
  MaxLevel,    \* max_level
  KeyBytes,    \* length of a key
  MaxNodes,    \* bound on the nodes of a list
  MaxRemoved,  \* bound on the removals between two clears
  None

Tranc   == 0 .. MaxTranc
Version == Key \X Tranc
Level   == 1 .. MaxLevel
head    == <<0, 0>>      \* the head node, before every key
Nil     == <<0, 1>>      \* the null pointer
Node    == Version \cup {head}

ASSUME SkipListAssumption ==
  /\ Key \subseteq Nat \ {0} /\ Value \subseteq Nat
  /\ MaxNodes \in Nat /\ MaxRemoved \in Nat
  /\ MaxTranc \in Nat /\ MaxLevel \in Nat \ {0} /\ KeyBytes \in Nat \ {0}
  /\ None \notin Value \cup Version

VARIABLES
  value,          \* the value of each node, None where there is none
  forward, backward,
  current_level,
  size_bytes,     \* modulo 2^64: a removal may take off more than there is
  removed,        \* history: the removals since the last clear
  astray          \* history: whether one of them was of a key not in the list

vars == <<value, forward, backward, current_level, size_bytes, removed, astray>>

-----------------------------------------------------------------------------
\* Mutant of Before: the oldest version of a key first.
BeforeRising(m, n) == m[1] < n[1] \/ (m[1] = n[1] /\ m[2] < n[2])

\* operator< of the nodes.
Before(m, n) == m[1] < n[1] \/ (m[1] = n[1] /\ m[2] > n[2])

\* From node n along link = forward or backward on level i, while the next
\* node is in S.
Follow(link, n, i, S) ==
  LET go[m \in Node] == LET next == link[m][i]
                        IN  IF next \in S \ {head} THEN go[next] ELSE m
  IN  go[n]

\* The same from level top down to 1: where the walk leaves each level.
Walk(link, n, top, S) ==
  LET at[i \in 1 .. top] == Follow(link, IF i = top THEN n ELSE at[i + 1], i, S)
  IN  at

Search(top, S) == Walk(forward, head, top, S)

Below(n) == {m \in Node : Before(m, n)}

Smaller(k) == {m \in Node : m[1] < k}

\* Mutant of Link: the next node does not point back to the new one.
LinkForward(n, update, top) ==
  /\ forward' = [m \in Node |-> [i \in Level |->
       IF i \in 1 .. top /\ m = n THEN forward[update[i]][i]
       ELSE IF i \in 1 .. top /\ m = update[i] THEN n
       ELSE forward[m][i]]]
  /\ backward' = [m \in Node |-> [i \in Level |->
       IF i \in 1 .. top /\ m = n THEN update[i] ELSE backward[m][i]]]

\* put: a node that is there is overwritten in place, a new one is linked
\* after update[i] on level 1 and, unless the list grows a level, only as far
\* up as the coins say.
Link(n, update, top) ==
  /\ forward' = [m \in Node |-> [i \in Level |->
       IF i \in 1 .. top /\ m = n THEN forward[update[i]][i]
       ELSE IF i \in 1 .. top /\ m = update[i] THEN n
       ELSE forward[m][i]]]
  /\ backward' = [m \in Node |-> [i \in Level |->
       IF i \in 1 .. top /\ m = n THEN update[i]
       ELSE IF i \in 1 .. top /\ m = forward[update[i]][i] THEN n
       ELSE backward[m][i]]]

\* Mutant of Overwrite: the old value is still counted.
OverwriteAdds(n, x) ==
  /\ value[n] # None
  /\ value' = [value EXCEPT ![n] = x]
  /\ size_bytes' = size_bytes + x
  /\ UNCHANGED <<forward, backward, current_level, removed, astray>>

Overwrite(n, x) ==
  /\ value[n] # None
  /\ value' = [value EXCEPT ![n] = x]
  /\ size_bytes' = size_bytes + x - value[n]
  /\ UNCHANGED <<forward, backward, current_level, removed, astray>>

Present == {v \in Version : value[v] # None}

Insert(n, x, new_level, top) ==
  LET old    == Search(current_level, Below(n))
      update == [i \in 1 .. new_level |-> IF i <= current_level THEN old[i] ELSE head]
  IN  /\ forward[old[1]][1] # n /\ Cardinality(Present) < MaxNodes
      /\ Link(n, update, top)
      /\ value' = [value EXCEPT ![n] = x]
      /\ size_bytes' = size_bytes + KeyBytes + x + 8
      /\ current_level' = new_level
      /\ UNCHANGED <<removed, astray>>

put(k, x, tr) ==
  \/ LET n == <<k, tr>>
     IN  forward[Search(current_level, Below(n))[1]][1] = n /\ Overwrite(n, x)
  \/ \E drawn \in Level :
       LET new_level == IF drawn > current_level THEN drawn ELSE current_level
       IN  \E top \in IF drawn > current_level THEN {drawn} ELSE 1 .. new_level :
             Insert(<<k, tr>>, x, new_level, top)

\* The first node with key k, or Nil: get's search, from the full height.
First(k) ==
  LET n == forward[Search(MaxLevel, Smaller(k))[1]][1]
  IN  IF n # Nil /\ n[1] = k THEN n ELSE Nil

\* Mutant of get: a reader does not see its own version.
getBelow(k, tr) ==
  LET go[n \in Node \cup {Nil}] ==
        IF n = Nil \/ n[1] # k THEN Nil
        ELSE IF tr = 0 \/ n[2] < tr THEN n
        ELSE go[forward[n][1]]
  IN  go[First(k)]

\* get: skip the versions that are too new.
get(k, tr) ==
  LET go[n \in Node \cup {Nil}] ==
        IF n = Nil \/ n[1] # k THEN Nil
        ELSE IF tr = 0 \/ n[2] <= tr THEN n
        ELSE go[forward[n][1]]
  IN  go[First(k)]

\* remove: the newest version of a key, if the key is there; the eight bytes
\* of the tranc_id stay in size_bytes. If it is not there, n is the node of a
\* larger key, which stays; but the code goes on with it as if it had gone: the
\* nodes behind n point back past it, and its bytes are taken off. Nothing
\* points to a node that is freed.
remove(k) ==
  LET update == Search(MaxLevel, Smaller(k))
      n      == forward[update[1]][1]
      hit    == n[1] = k
      cut    == {i \in 1 .. current_level :
                   hit /\ \A j \in 1 .. i : forward[update[j]][j] = n}
  IN  /\ n # Nil /\ removed < MaxRemoved
      /\ forward' = [m \in Node |-> [i \in Level |->
           IF hit /\ m = n THEN Nil
           ELSE IF i \in cut /\ m = update[i] THEN forward[n][i]
           ELSE forward[m][i]]]
      /\ backward' = [m \in Node |-> [i \in Level |->
           IF hit /\ m = n THEN Nil
           ELSE IF i <= current_level /\ m = forward[n][i] THEN update[i]
           ELSE IF hit /\ backward[m][i] = n THEN Nil
           ELSE backward[m][i]]]
      /\ value' = IF hit THEN [value EXCEPT ![n] = None] ELSE value
      /\ size_bytes' = size_bytes - KeyBytes - value[n]
      /\ current_level' =
           LET used == {1} \cup {i \in 1 .. current_level : forward'[head][i] # Nil}
           IN  CHOOSE i \in used : \A j \in used : j <= i
      /\ removed' = removed + 1 /\ astray' = (astray \/ ~ hit)

\* No node has the key or a larger one: n is null and is dereferenced. The
\* process dies; the next one begins with an empty list.
remove_crashes(k) ==
  /\ forward[Search(MaxLevel, Smaller(k))[1]][1] = Nil
  /\ value' = [n \in Version |-> None]
  /\ forward' = [n \in Node |-> [i \in Level |-> Nil]]
  /\ backward' = [n \in Node |-> [i \in Level |-> Nil]]
  /\ current_level' = 1 /\ size_bytes' = 0 /\ removed' = 0 /\ astray' = FALSE

\* clear: a new head; current_level stays as it was.
clear ==
  /\ value' = [n \in Version |-> None]
  /\ forward' = [n \in Node |-> [i \in Level |-> Nil]]
  /\ backward' = [n \in Node |-> [i \in Level |-> Nil]]
  /\ size_bytes' = 0 /\ removed' = 0 /\ astray' = FALSE
  /\ UNCHANGED current_level

\* flush: every node from the left.
flush ==
  LET go[n \in Node \cup {Nil}] == IF n = Nil THEN <<>> ELSE <<n>> \o go[forward[n][1]]
  IN  go[forward[head][1]]

\* iters_monotony_predicate for a predicate on keys (> 0: move right, < 0:
\* move left): the first node met that satisfies it, then from there to both
\* ends of the range, the right end one node further. A direction that the
\* order of the keys rules out throws.
Throws == <<0, 2>>

\* Mutant of iters_monotony_predicate: the range begins where it was met.
ItersFromHit(p) ==
  LET Hit   == {n \in Version : p[n[1]] = 0}
      Right == {n \in Version : p[n[1]] > 0}
      at    == Search(current_level, Right)
      found == {i \in 1 .. current_level : forward[at[i]][i] \in Hit}
      i1    == CHOOSE i \in found : \A j \in found : j <= i
      n1    == forward[at[i1]][i1]
  IN  IF found = {} THEN <<>>
      ELSE <<n1, forward[Walk(forward, n1, MaxLevel, Hit)[1]][1]>>

iters_monotony_predicate(p) ==
  LET Hit   == {n \in Version : p[n[1]] = 0}
      Right == {n \in Version : p[n[1]] > 0}
      at    == Search(current_level, Right)
      found == {i \in 1 .. current_level : forward[at[i]][i] \in Hit}
      i1    == CHOOSE i \in found : \A j \in found : j <= i
      n1    == forward[at[i1]][i1]
      left  == Walk(backward, n1, MaxLevel, Hit)
      right == Walk(forward, n1, MaxLevel, Hit)
      wrong == \E i \in Level :
                 \/ backward[left[i]][i] \notin {Nil, head} /\ p[backward[left[i]][i][1]] < 0
                 \/ forward[right[i]][i] # Nil /\ p[forward[right[i]][i][1]] > 0
  IN  IF found = {} THEN <<>>
      ELSE IF wrong THEN <<Throws>>
      ELSE <<left[1], forward[right[1]][1]>>

-----------------------------------------------------------------------------
Init ==
  /\ value = [n \in Version |-> None]
  /\ forward = [n \in Node |-> [i \in Level |-> Nil]]
  /\ backward = [n \in Node |-> [i \in Level |-> Nil]]
  /\ current_level = 1 /\ size_bytes = 0 /\ removed = 0 /\ astray = FALSE

Next ==
  \/ \E k \in Key, x \in Value, tr \in Tranc : put(k, x, tr)
  \/ \E k \in Key : remove(k)
  \/ \E k \in Key : remove_crashes(k)
  \/ clear

Spec == Init /\ [][Next]_vars
-----------------------------------------------------------------------------
(* Properties.                                                             *)

TypeOK ==
  /\ value \in [Version -> Value \cup {None}]
  /\ forward \in [Node -> [Level -> Version \cup {Nil}]]
  /\ backward \in [Node -> [Level -> Node \cup {Nil}]]
  /\ current_level \in Level /\ size_bytes \in Int
  /\ removed \in 0 .. MaxRemoved /\ astray \in BOOLEAN

\* Whatever levels are drawn and nodes removed, every level is sorted, a part
\* of the level below and met by no two nodes, and no node is above
\* current_level, where put would not look. backward mirrors forward until a
\* key is removed that is not there (put, remove).
WellLinked ==
  /\ TypeOK
  /\ \A i \in Level, m \in Node :
       forward[m][i] # Nil =>
         /\ m = head \/ Before(m, forward[m][i])
         /\ i <= current_level
         /\ \A l \in Node : forward[l][i] = forward[m][i] => l = m
         /\ i > 1 => \E l \in Node : forward[l][i - 1] = forward[m][i]
  /\ ~ astray => \A i \in Level, m \in Node, n \in Version :
                   forward[m][i] = n <=> backward[n][i] = m

\* A search from the top level, and the walk back through the versions of a
\* key, find the newest version a reader may see.
GetsNewest ==
  \A k \in Key, tr \in Tranc :
    LET seen == {r \in Tranc : value[<<k, r>>] # None /\ (tr = 0 \/ r <= tr)}
    IN  get(k, tr) = IF seen = {} THEN Nil
                     ELSE <<k, CHOOSE r \in seen : \A q \in seen : q <= r>>

\* The nodes with a key in lo..hi, and the node after them.
Between(lo, hi) ==
  LET in    == {v \in Present : v[1] \in lo .. hi}
      after == {v \in Present : v[1] > hi}
      Leftmost(S) == CHOOSE v \in S : \A w \in S \ {v} : Before(v, w)
  IN  IF in = {} THEN <<>>
      ELSE <<Leftmost(in), IF after = {} THEN Nil ELSE Leftmost(after)>>

\* A range query returns all of the range: what the comment at skiplist.cpp:320
\* says of it, and what is false once a key was removed that was not there.
RangesWhole ==
  \A lo, hi \in Key :
    LET p == [k \in Key |-> IF k < lo THEN 1 ELSE IF k > hi THEN -1 ELSE 0]
    IN  iters_monotony_predicate(p) = Between(lo, hi)

\* It does as long as no key is removed that is not there: a descent that
\* starts in the middle of the range, on a high level, still reaches both ends.
RangeExact == ~ astray => RangesWhole

\* size_bytes, on which flushing depends, is what the nodes hold, as long as
\* the list is used as the memtable uses it (it removes by writing "").
SizeExact ==
  removed = 0 => size_bytes = MapThenSumSet(LAMBDA v : KeyBytes + value[v] + 8, Present)

\* The nodes flush meets, with their values, behave as a map of versions does
\* under put, remove and clear.
Flushed == LET met == Range(flush)
           IN  [v \in Version |-> IF v \in met THEN value[v] ELSE None]

Map == INSTANCE VersionMap WITH map <- Flushed

ImplementsMap == Map!MapSpec
=============================================================================
