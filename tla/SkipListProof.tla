---------------------------- MODULE SkipListProof -----------------------------
(***************************************************************************)
(* What SkipList.tla promises, proved for every set of keys, number of     *)
(* transaction ids, levels and nodes, whatever levels are drawn: its links *)
(* are sound, get and the range query find what they should, size_bytes is *)
(* exact, and put, remove and clear implement a map of versions.           *)
(***************************************************************************)
EXTENDS SkipList, ListLemmas

-----------------------------------------------------------------------------
(* The order of the nodes.                                                 *)

\* The place of a node among all nodes there could be.
Pos(n) == n[1] * (MaxTranc + 1) + (MaxTranc - n[2])

\* Places of numbers written with digits below w.
LEMMA Digits ==
  ASSUME NEW w \in Nat, NEW a \in Nat, NEW b \in Nat, NEW r \in 0 .. w, NEW s \in 0 .. w
  PROVE  /\ a * (w + 1) + r \in Nat
         /\ a < b => a * (w + 1) + r < b * (w + 1) + s
<1>1. a * (w + 1) \in Nat /\ b * (w + 1) \in Nat  OBVIOUS
<1>2. ASSUME a < b PROVE a * (w + 1) + r < b * (w + 1) + s
  <2>1. PICK d \in Nat : b = a + 1 + d
    <3>1. b - a - 1 \in Nat /\ b = a + 1 + (b - a - 1)  BY <1>2
    <3> QED  BY <3>1
  <2>2. b * (w + 1) = a * (w + 1) + (w + 1) + d * (w + 1)  BY <2>1
  <2>3. d * (w + 1) \in Nat  OBVIOUS
  <2> HIDE <2>1
  <2> DEFINE A == a * (w + 1)
             B == b * (w + 1)
             D == d * (w + 1)
  <2>4. A \in Nat /\ B \in Nat /\ D \in Nat /\ B = A + (w + 1) + D  BY <1>1, <2>2, <2>3
  <2> HIDE DEF A, B, D
  <2>5. A + r < B + s  BY <2>4
  <2> QED  BY <2>5 DEF A, B
<1> QED  BY <1>1, <1>2

LEMMA NodeShape ==
  ASSUME NEW n \in Node
  PROVE  /\ n = <<n[1], n[2]>> /\ n[1] \in Nat /\ n[2] \in 0 .. MaxTranc
         /\ n \in Version <=> n[1] # 0
         /\ n \in Version => n[1] \in Key /\ n[2] \in Tranc
<1> USE SkipListAssumption
<1>1. CASE n \in Version
  <2>1. n[1] \in Key /\ n[2] \in 0 .. MaxTranc /\ n = <<n[1], n[2]>>
    BY <1>1 DEF Version, Tranc
  <2> QED  BY <1>1, <2>1 DEF Tranc
<1>2. CASE n = <<0, 0>>
  <2>1. n \notin Version  BY <1>2 DEF Version
  <2> QED  BY <1>2, <2>1
<1> QED  BY <1>1, <1>2 DEF Node, head

\* The nodes are in one line, the head first.
LEMMA Order ==
  /\ \A n \in Node : Pos(n) \in Nat
  /\ \A m, n \in Node : Before(m, n) <=> Pos(m) < Pos(n)
  /\ \A m, n \in Node : Pos(m) = Pos(n) => m = n
  /\ \A v \in Version : v \in Node /\ v # head /\ v # Nil /\ Before(head, v)
  /\ head \in Node /\ head # Nil /\ Nil \notin Node /\ Nil \notin Version
<1> USE SkipListAssumption
<1>1. ASSUME NEW n \in Node
      PROVE  /\ n = <<n[1], n[2]>> /\ n[1] \in Nat /\ n[2] \in 0 .. MaxTranc
             /\ n \in Version <=> n[1] # 0
             /\ n \in Version => n[1] \in Key
  BY NodeShape
<1>2. \A n \in Node : Pos(n) \in Nat /\ MaxTranc - n[2] \in 0 .. MaxTranc
  BY <1>1, Digits DEF Pos
<1>3. ASSUME NEW m \in Node, NEW n \in Node, m[1] < n[1] PROVE Pos(m) < Pos(n)
  BY <1>1, <1>2, <1>3, Digits DEF Pos
<1>4. ASSUME NEW m \in Node, NEW n \in Node, m[1] = n[1]
      PROVE  Pos(m) < Pos(n) <=> m[2] > n[2]
  <2> DEFINE A == m[1] * (MaxTranc + 1)
  <2>1. A \in Nat /\ Pos(m) = A + (MaxTranc - m[2]) /\ Pos(n) = A + (MaxTranc - n[2])
    BY <1>1, <1>4 DEF Pos
  <2> HIDE DEF A
  <2> QED  BY <2>1, <1>1
<1>5. ASSUME NEW m \in Node, NEW n \in Node PROVE Before(m, n) <=> Pos(m) < Pos(n)
  <2>1. CASE m[1] < n[1]  BY <2>1, <1>3 DEF Before
  <2>2. CASE m[1] = n[1]  BY <2>2, <1>1, <1>4 DEF Before
  <2>3. CASE n[1] < m[1]
    <3>1. Pos(n) < Pos(m)  BY <2>3, <1>3
    <3> QED  BY <3>1, <2>3, <1>1, <1>2 DEF Before
  <2> QED  BY <2>1, <2>2, <2>3, <1>1
<1>6. ASSUME NEW m \in Node, NEW n \in Node, Pos(m) = Pos(n) PROVE m = n
  <2>1. ~ Before(m, n) /\ ~ Before(n, m)  BY <1>5, <1>6, <1>2
  <2>2. m[1] = n[1] /\ m[2] = n[2]  BY <2>1, <1>1 DEF Before
  <2> QED  BY <2>2, <1>1
<1>7. \A v \in Version : v \in Node /\ v # head /\ v # Nil /\ Before(head, v)
  BY <1>1 DEF Node, Version, Tranc, head, Nil, Before
<1>8. head \in Node /\ head # Nil /\ Nil \notin Node /\ Nil \notin Version
  BY DEF Node, Version, head, Nil
<1> QED  BY <1>2, <1>5, <1>6, <1>7, <1>8

LEMMA Linear ==
  /\ \A m, n \in Node : m = n \/ Before(m, n) \/ Before(n, m)
  /\ \A m, n \in Node : ~ (Before(m, n) /\ Before(n, m))
  /\ \A n \in Node : ~ Before(n, n)
  /\ \A l, m, n \in Node : Before(l, m) /\ Before(m, n) => Before(l, n)
  /\ \A v \in Version : ~ Before(v, head)
<1>1. ASSUME NEW m \in Node, NEW n \in Node
      PROVE  /\ m = n \/ Before(m, n) \/ Before(n, m)
             /\ ~ (Before(m, n) /\ Before(n, m))
  <2>1. Pos(m) \in Nat /\ Pos(n) \in Nat /\ (Pos(m) = Pos(n) => m = n)  BY Order
  <2>2. Pos(m) = Pos(n) \/ Pos(m) < Pos(n) \/ Pos(n) < Pos(m)  BY <2>1
  <2> QED  BY <2>1, <2>2, Order
<1>2. ASSUME NEW l \in Node, NEW m \in Node, NEW n \in Node, Before(l, m), Before(m, n)
      PROVE  Before(l, n)
  <2>1. Pos(l) \in Nat /\ Pos(m) \in Nat /\ Pos(n) \in Nat  BY Order
  <2>2. Pos(l) < Pos(m) /\ Pos(m) < Pos(n)  BY <1>2, Order
  <2> QED  BY <2>1, <2>2, Order
<1>3. \A v \in Version : ~ Before(v, head)  BY <1>1, Order
<1> QED  BY <1>1, <1>2, <1>3

IsLeast(S, x)    == x \in S /\ \A v \in S : v = x \/ Before(x, v)
IsGreatest(S, x) == x \in S /\ \A v \in S : v = x \/ Before(v, x)
IsFirst(S, x)    == IF S = {} THEN x = Nil ELSE IsLeast(S, x)

\* The numbers of finitely many things are bounded.
LEMMA Bounded ==
  ASSUME NEW S, IsFiniteSet(S), NEW f \in [S -> Nat]
  PROVE  \E b \in Nat : \A x \in S : f[x] <= b
<1> DEFINE Bound(T, b) == \A x \in T : f[x] <= b
           Bad == {c \in Nat : \E T \in SUBSET S : /\ IsFiniteSet(T) /\ Cardinality(T) = c
                                                  /\ ~ \E b \in Nat : Bound(T, b)}
<1>1. ASSUME Bad # {} PROVE FALSE
  <2>1. PICK c \in Bad : \A d \in Bad : c <= d
    <3>1. Bad \in SUBSET Nat  OBVIOUS
    <3> HIDE DEF Bad
    <3> QED  BY <3>1, <1>1, NatMin
  <2>2. PICK T \in SUBSET S : /\ IsFiniteSet(T) /\ Cardinality(T) = c
                              /\ ~ \E b \in Nat : Bound(T, b)
    OBVIOUS
  <2>3. T # {}
    <3>1. T = {} => Bound(T, 0)  OBVIOUS
    <3> QED  BY <3>1, <2>2
  <2>4. PICK x \in T : TRUE  BY <2>3
  <2>5. /\ IsFiniteSet(T \ {x}) /\ Cardinality(T \ {x}) = c - 1
        /\ c \in Nat /\ T \ {x} \in SUBSET S
    BY <2>2, <2>4, FS_RemoveElement
  <2>6. c # 0  BY <2>2, <2>3, FS_EmptySet
  <2>7. PICK b \in Nat : Bound(T \ {x}, b)
    <3>1. c - 1 \in Nat /\ c - 1 \notin Bad
      <4> HIDE DEF Bad
      <4> QED  BY <2>1, <2>5, <2>6
    <3> QED  BY <3>1, <2>5
  <2>8. Bound(T, b + f[x]) /\ b + f[x] \in Nat
    <3>1. f[x] \in Nat  BY <2>4
    <3>2. ASSUME NEW y \in T PROVE f[y] <= b + f[x]
      <4>1. CASE y = x  BY <4>1, <3>1
      <4>2. CASE y # x
        <5>1. f[y] <= b /\ f[y] \in Nat  BY <4>2, <2>7
        <5> QED  BY <5>1, <3>1
      <4> QED  BY <4>1, <4>2
    <3> QED  BY <3>1, <3>2
  <2> QED  BY <2>2, <2>8
<1>2. Cardinality(S) \in Nat /\ Cardinality(S) \notin Bad
  <2> HIDE DEF Bad
  <2> QED  BY <1>1, FS_CardinalityType
<1> QED  BY <1>2
-----------------------------------------------------------------------------
(* Recursion along links.                                                  *)

\* A function defined along next: what a walk that ends in stop computes.
Solves(f, N, stop, base, step, next) ==
  f = [n \in N |-> IF n \in stop THEN base[n] ELSE step[n][f[next[n]]]]

\* One round of the computation, for all nodes at once.
Once(g, N, stop, base, step, next) ==
  [n \in N |-> IF n \in stop THEN base[n] ELSE step[n][g[next[n]]]]

\* Such a function exists if every link leads higher, up to a bound.
LEMMA Descent ==
  ASSUME NEW N, NEW V, NEW stop, NEW base \in [N -> V], NEW step \in [N -> [V -> V]],
         NEW next \in [N -> N], NEW pos \in [N -> Nat], NEW b \in Nat,
         \A n \in N \ stop : pos[n] < pos[next[n]] /\ pos[next[n]] <= b
  PROVE  \E f \in [N -> V] : Solves(f, N, stop, base, step, next)
<1> DEFINE St == [N -> V]
           F(g) == Once(g, N, stop, base, step, next)
           go == [i \in 1 .. b + 2 |-> [g \in St |-> F(g)]]
<1>1. ASSUME NEW g \in St PROVE F(g) \in St
  BY DEF Once
<1>2. go \in [1 .. b + 2 -> [St -> St]]  BY <1>1, Zenon
<1>3. PICK r : Rolls(r, St, base, go, b + 2)
  <2>1. b + 2 \in Nat /\ base \in St  OBVIOUS
  <2> HIDE DEF St, go
  <2> QED  BY <1>2, <2>1, Rounds
<1>4. /\ \A i \in 0 .. b + 2 : r[i] \in St
      /\ \A i \in 0 .. b + 1 : r[i + 1] = F(r[i])
  <2>1. \A i \in 0 .. b + 2 : r[i] \in St  BY <1>3 DEF Rolls
  <2>2. ASSUME NEW i \in 0 .. b + 1 PROVE r[i + 1] = F(r[i])
    <3>1. i + 1 \in 1 .. b + 2 /\ i + 1 - 1 = i /\ i \in 0 .. b + 2  OBVIOUS
    <3>2. r[i + 1] = go[i + 1][r[i + 1 - 1]]
      <4> HIDE DEF go, St
      <4> QED  BY <1>3, <3>1 DEF Rolls
    <3>3. r[i] \in St  BY <2>1, <3>1
    <3> HIDE DEF F, St
    <3> QED  BY <3>1, <3>2, <3>3
  <2> QED  BY <2>1, <2>2
<1> HIDE DEF go
\* After i rounds the values of the last i places have settled.
<1> DEFINE Settled(i) == \A n \in N : n \in stop \/ b - pos[n] < i => r[i][n] = r[i + 1][n]
           Bad == {i \in 1 .. b + 1 : ~ Settled(i)}
<1>5. ASSUME NEW i \in 0 .. b + 1, NEW n \in N
      PROVE  r[i + 1][n] = IF n \in stop THEN base[n] ELSE step[n][r[i][next[n]]]
  <2>1. r[i + 1] = F(r[i])
    <3> HIDE DEF F
    <3> QED  BY <1>4
  <2>2. r[i + 1] = Once(r[i], N, stop, base, step, next)  BY <2>1
  <2> QED  BY ONLY <2>2, n \in N DEF Once
<1>6. ASSUME Bad # {} PROVE FALSE
  <2>1. PICK i \in Bad : \A j \in Bad : i <= j
    <3>1. Bad \in SUBSET Nat  OBVIOUS
    <3> HIDE DEF Bad
    <3> QED  BY <3>1, <1>6, NatMin
  <2>2. i \in 1 .. b + 1 /\ ~ Settled(i)  OBVIOUS
  <2>3. PICK n \in N : (n \in stop \/ b - pos[n] < i) /\ r[i][n] # r[i + 1][n]
    BY <2>2
  <2>4. i \in 0 .. b + 1 /\ i - 1 \in 0 .. b + 1 /\ i - 1 + 1 = i  BY <2>2
  <2>5. /\ r[i + 1][n] = IF n \in stop THEN base[n] ELSE step[n][r[i][next[n]]]
        /\ r[i][n] = IF n \in stop THEN base[n] ELSE step[n][r[i - 1][next[n]]]
    <3>1. r[i - 1 + 1][n] = IF n \in stop THEN base[n] ELSE step[n][r[i - 1][next[n]]]
      BY <2>4, <1>5
    <3> QED  BY <2>4, <3>1, <1>5
  <2>6. n \notin stop /\ b - pos[n] < i  BY <2>3, <2>5
  <2>7. /\ next[n] \in N /\ pos[n] < pos[next[n]] /\ pos[next[n]] <= b
        /\ pos[n] \in Nat /\ pos[next[n]] \in Nat
    BY <2>6
  <2>8. b - pos[next[n]] < i - 1 /\ i # 1  BY <2>2, <2>6, <2>7
  <2>9. i - 1 \notin Bad /\ i - 1 \in 1 .. b + 1
    <3> HIDE DEF Bad
    <3> QED  BY <2>1, <2>2, <2>8
  <2>10. Settled(i - 1)  BY <2>9
  <2>11. r[i - 1][next[n]] = r[i][next[n]]  BY <2>10, <2>7, <2>8, <2>4
  <2> QED  BY <2>3, <2>5, <2>6, <2>11
<1>7. Settled(b + 1)
  <2>1. b + 1 \in 1 .. b + 1 /\ Bad = {}  BY <1>6
  <2>2. b + 1 \notin Bad  BY <2>1
  <2> QED  BY ONLY <2>1, <2>2, Zenon
<1>8. ASSUME NEW n \in N PROVE r[b + 1][n] = r[b + 1 + 1][n]
  <2>1. b - pos[n] < b + 1
    <3>1. pos[n] \in Nat  OBVIOUS
    <3> QED  BY <3>1
  <2> QED  BY <2>1, <1>7
<1>9. r[b + 1] = r[b + 1 + 1]
  <2>1. r[b + 1] \in St /\ r[b + 1 + 1] \in St
    <3>1. b + 1 \in 0 .. b + 2 /\ b + 1 + 1 \in 0 .. b + 2  OBVIOUS
    <3> HIDE DEF St
    <3> QED  BY <3>1, <1>4
  <2> QED  BY <2>1, <1>8
<1>10. r[b + 1] = F(r[b + 1])
  <2>1. b + 1 \in 0 .. b + 1  OBVIOUS
  <2> HIDE DEF F
  <2> QED  BY <2>1, <1>4, <1>9
<1>11. r[b + 1] \in [N -> V]
  <2>1. b + 1 \in 0 .. b + 2  OBVIOUS
  <2> QED  BY <2>1, <1>4
<1> QED  BY <1>10, <1>11 DEF Solves, Once

\* Nothing climbs for ever below a bound.
LEMMA NoClimb ==
  ASSUME NEW Bad, NEW next, NEW pos, NEW b \in Nat,
         \A x \in Bad : /\ next[x] \in Bad /\ pos[x] \in Nat /\ pos[next[x]] \in Nat
                        /\ pos[x] < pos[next[x]] /\ pos[next[x]] <= b
  PROVE  Bad = {}
<1> SUFFICES ASSUME Bad # {} PROVE FALSE  OBVIOUS
<1> DEFINE D == {b - pos[x] : x \in Bad}
<1>1. D \in SUBSET Nat /\ D # {}
  <2>1. \A x \in Bad : pos[x] \in Nat /\ pos[x] <= b  OBVIOUS
  <2> QED  BY <2>1
<1>2. PICK d \in D : \A e \in D : d <= e
  <2> HIDE DEF D
  <2> QED  BY <1>1, NatMin
<1>3. PICK x \in Bad : d = b - pos[x]  OBVIOUS
<1>4. b - pos[next[x]] \in D  OBVIOUS
<1>5. d <= b - pos[next[x]]
  <2> HIDE DEF D
  <2> QED  BY <1>2, <1>4
<1>6. pos[x] \in Nat /\ pos[next[x]] \in Nat /\ pos[x] < pos[next[x]]  OBVIOUS
<1> QED  BY ONLY <1>3, <1>5, <1>6, b \in Nat
-----------------------------------------------------------------------------
(* Follow and Walk.                                                        *)

\* Along link every step to a node of S goes one way: T[i] holds of the steps
\* of level i and of what they add up to, and pos grows with them.
Leads(link, S, T, pos, b) ==
  /\ link \in [Node -> [Level -> Node \cup {Nil}]]
  /\ S \in SUBSET Node /\ pos \in [Node -> Nat] /\ b \in Nat
  /\ \A i \in Level, m \in Node : link[m][i] \in S \ {head} =>
       /\ <<m, link[m][i]>> \in T[i]
       /\ pos[m] < pos[link[m][i]] /\ pos[link[m][i]] <= b
  /\ \A i \in Level : \A x, y, z \in Node :
       <<x, y>> \in T[i] /\ <<y, z>> \in T[i] => <<x, z>> \in T[i]
  /\ \A i, j \in Level : i <= j => T[j] \subseteq T[i]

\* Where the walk from n stops on level i.
Stops(link, n, i, S, T, x) ==
  /\ x \in Node /\ link[x][i] \notin S \ {head}
  /\ x = n \/ <<n, x>> \in T[i]

\* The recursive functions in Follow and Walk.
Follows(f, link, i, S) ==
  f = [m \in Node |-> IF link[m][i] \in S \ {head} THEN f[link[m][i]] ELSE m]

Walks(at, link, n, top, S) ==
  at = [i \in 1 .. top |-> Follow(link, IF i = top THEN n ELSE at[i + 1], i, S)]

LEMMA FollowStops ==
  ASSUME NEW link, NEW S, NEW T, NEW pos, NEW b, Leads(link, S, T, pos, b),
         NEW n \in Node, NEW i \in Level
  PROVE  Stops(link, n, i, S, T, Follow(link, n, i, S))
<1> DEFINE Go == {m \in Node : link[m][i] \in S \ {head}}
           stop == Node \ Go
           base == [m \in Node |-> m]
           step == [m \in Node |-> [x \in Node |-> x]]
           next == [m \in Node |-> IF m \in stop THEN m ELSE link[m][i]]
           g == CHOOSE f : Follows(f, link, i, S)
<1>1. /\ S \in SUBSET Node /\ pos \in [Node -> Nat] /\ b \in Nat
      /\ \A m \in Go : /\ link[m][i] \in S \ {head} /\ link[m][i] \in Node
                       /\ <<m, link[m][i]>> \in T[i]
                       /\ pos[m] < pos[link[m][i]] /\ pos[link[m][i]] <= b
  BY DEF Leads
<1>2. \A x, y, z \in Node : <<x, y>> \in T[i] /\ <<y, z>> \in T[i] => <<x, z>> \in T[i]
  BY DEF Leads
<1>3. PICK f \in [Node -> Node] : Solves(f, Node, stop, base, step, next)
  <2>1. base \in [Node -> Node] /\ step \in [Node -> [Node -> Node]]
    OBVIOUS
  <2>2. next \in [Node -> Node]
    BY <1>1
  <2>3. \A m \in Node \ stop : pos[m] < pos[next[m]] /\ pos[next[m]] <= b
    BY <1>1
  <2> HIDE DEF stop, base, step, next
  <2> QED  BY <1>1, <2>1, <2>2, <2>3, Descent
<1>4. Follows(f, link, i, S)
  <2>1. f = [m \in Node |-> IF m \in stop THEN base[m] ELSE step[m][f[next[m]]]]
    BY <1>3 DEF Solves
  <2>2. ASSUME NEW m \in Node
        PROVE  (IF m \in stop THEN base[m] ELSE step[m][f[next[m]]])
               = IF link[m][i] \in S \ {head} THEN f[link[m][i]] ELSE m
    <3>1. CASE m \in Go
      <4>1. next[m] = link[m][i] /\ f[link[m][i]] \in Node  BY <3>1, <1>1
      <4>2. step[m][f[link[m][i]]] = f[link[m][i]]  BY <4>1
      <4> QED  BY <3>1, <4>1, <4>2
    <3>2. CASE m \notin Go  BY <3>2
    <3> QED  BY <3>1, <3>2
  <2> HIDE DEF stop, base, step, next, Go
  <2> QED  BY <2>1, <2>2, Zenon DEF Follows
<1>5. Follows(g, link, i, S)  BY <1>4
<1>6. Follow(link, n, i, S) = g[n]  BY DEF Follow, Follows
<1> HIDE DEF g
<1>7. \A m \in Node : g[m] = IF m \in Go THEN g[link[m][i]] ELSE m
  BY <1>5 DEF Follows
<1> DEFINE Bad == {m \in Node : ~ Stops(link, m, i, S, T, g[m])}
<1>8. \A m \in Bad : m \in Go
  BY <1>7 DEF Stops
<1>9. \A m \in Bad : link[m][i] \in Bad
  <2> SUFFICES ASSUME NEW m \in Bad, Stops(link, link[m][i], i, S, T, g[link[m][i]])
               PROVE  Stops(link, m, i, S, T, g[m])
    BY <1>1, <1>8
  <2>1. g[m] = g[link[m][i]]  BY <1>7, <1>8
  <2>2. <<m, link[m][i]>> \in T[i] /\ link[m][i] \in Node /\ m \in Node  BY <1>1, <1>8
  <2>3. g[m] = link[m][i] \/ <<link[m][i], g[m]>> \in T[i]  BY <2>1 DEF Stops
  <2>4. g[m] \in Node /\ link[g[m]][i] \notin S \ {head}  BY <2>1 DEF Stops
  <2>5. <<m, g[m]>> \in T[i]
    <3> HIDE DEF Bad
    <3> QED  BY <1>2, <2>2, <2>3, <2>4
  <2> QED  BY <2>4, <2>5 DEF Stops
<1>10. Bad = {}
  <2> DEFINE up == [m \in Node |-> link[m][i]]
  <2>1. ASSUME NEW x \in Bad
        PROVE  /\ up[x] \in Bad /\ pos[x] \in Nat /\ pos[up[x]] \in Nat
               /\ pos[x] < pos[up[x]] /\ pos[up[x]] <= b
    <3>1. x \in Go /\ link[x][i] \in Bad /\ up[x] = link[x][i]  BY <1>8, <1>9
    <3> HIDE DEF Bad, up
    <3> QED  BY <3>1, <1>1
  <2> HIDE DEF Bad, up
  <2> QED  BY <1>1, <2>1, NoClimb
<1> QED  BY <1>6, <1>10

\* The walk down the levels stops on each as if it had begun there.
LEMMA WalkStops ==
  ASSUME NEW link, NEW S, NEW T, NEW pos, NEW b, Leads(link, S, T, pos, b),
         NEW n \in Node, NEW top \in Level
  PROVE  \A i \in 1 .. top : Stops(link, n, i, S, T, Walk(link, n, top, S)[i])
<1> DEFINE N == 1 .. top
           base == [i \in N |-> Follow(link, n, i, S)]
           step == [i \in N |-> [x \in Node |-> Follow(link, x, i, S)]]
           next == [i \in N |-> IF i = top THEN i ELSE i + 1]
           pos1 == [i \in N |-> i]
           at == CHOOSE g : Walks(g, link, n, top, S)
<1>1. top \in Nat /\ 1 <= top /\ N \subseteq Level /\ N \subseteq Nat /\ top \in N
  BY SkipListAssumption DEF Level
<1>2. ASSUME NEW i \in N, NEW x \in Node
      PROVE  Follow(link, x, i, S) \in Node
  BY <1>1, FollowStops DEF Stops
<1>3. PICK g \in [N -> Node] : Solves(g, N, {top}, base, step, next)
  <2>1. base \in [N -> Node] /\ step \in [N -> [Node -> Node]]
    BY <1>2
  <2>2. next \in [N -> N] /\ pos1 \in [N -> Nat]
    BY <1>1
  <2>3. \A i \in N \ {top} : pos1[i] < pos1[next[i]] /\ pos1[next[i]] <= top
    BY <1>1
  <2> HIDE DEF N, base, step, next, pos1
  <2> QED  BY <1>1, <2>1, <2>2, <2>3, Descent
<1>4. Walks(g, link, n, top, S)
  <2>1. g = [i \in N |-> IF i \in {top} THEN base[i] ELSE step[i][g[next[i]]]]
    BY <1>3 DEF Solves
  <2>2. ASSUME NEW i \in N
        PROVE  (IF i \in {top} THEN base[i] ELSE step[i][g[next[i]]])
               = Follow(link, IF i = top THEN n ELSE g[i + 1], i, S)
    <3>1. CASE i = top  BY <3>1
    <3>2. CASE i # top
      <4>1. next[i] = i + 1 /\ next[i] \in N  BY <3>2, <1>1
      <4>2. g[i + 1] \in Node  BY <4>1
      <4>3. step[i][g[i + 1]] = Follow(link, g[i + 1], i, S)  BY <4>2
      <4> QED  BY <3>2, <4>1, <4>3
    <3> QED  BY <3>1, <3>2
  <2> HIDE DEF base, step, next
  <2> QED  BY <2>1, <2>2, Zenon DEF Walks
<1>5. Walks(at, link, n, top, S)  BY <1>4
<1>6. Walk(link, n, top, S) = at  BY DEF Walk, Walks
<1> HIDE DEF at
<1>7. ASSUME NEW i \in N
      PROVE  at[i] = Follow(link, IF i = top THEN n ELSE at[i + 1], i, S)
  <2>1. at = [j \in N |-> Follow(link, IF j = top THEN n ELSE at[j + 1], j, S)]
    BY <1>5 DEF Walks
  <2> HIDE DEF N
  <2>2. at[i] = [j \in N |-> Follow(link, IF j = top THEN n ELSE at[j + 1], j, S)][i]
    BY <2>1
  <2> QED  BY <2>2
<1> DEFINE Bad == {i \in N : ~ Stops(link, n, i, S, T, at[i])}
           up == [i \in N |-> i + 1]
<1>8. ASSUME NEW i \in Bad PROVE i # top
  <2>1. ASSUME i = top PROVE Stops(link, n, i, S, T, at[i])
    <3>1. at[i] = Follow(link, n, i, S)  BY <1>7, <2>1
    <3> QED  BY <3>1, <1>1, FollowStops
  <2> QED  BY <2>1
<1>9. ASSUME NEW i \in Bad PROVE i + 1 \in Bad
  <2>1. i # top /\ i \in N /\ i + 1 \in N /\ i <= i + 1  BY <1>1, <1>8
  <2> SUFFICES ASSUME Stops(link, n, i + 1, S, T, at[i + 1])
               PROVE  Stops(link, n, i, S, T, at[i])
    BY <2>1
  <2>2. PICK y \in Node : y = at[i + 1]  BY DEF Stops
  <2>3. at[i] = Follow(link, y, i, S)  BY <2>1, <2>2, <1>7
  <2>4. Stops(link, y, i, S, T, at[i])
    <3>1. i \in Level  BY <1>1
    <3> HIDE DEF Bad
    <3> QED  BY <2>3, <3>1, FollowStops
  <2>5. y = n \/ <<n, y>> \in T[i]
    <3>1. i \in Level /\ i + 1 \in Level  BY <1>1, <2>1
    <3>2. T[i + 1] \subseteq T[i]  BY <2>1, <3>1 DEF Leads
    <3> QED  BY <2>2, <3>2 DEF Stops
  <2>6. \A x, z \in Node : <<n, y>> \in T[i] /\ <<y, z>> \in T[i] => <<n, z>> \in T[i]
    <3>1. i \in Level  BY <1>1
    <3> HIDE DEF Bad
    <3> QED  BY <3>1 DEF Leads
  <2> HIDE DEF Bad
  <2> QED  BY <2>4, <2>5, <2>6 DEF Stops
<1>10. Bad = {}
  <2>1. ASSUME NEW i \in Bad
        PROVE  /\ up[i] \in Bad /\ pos1[i] \in Nat /\ pos1[up[i]] \in Nat
               /\ pos1[i] < pos1[up[i]] /\ pos1[up[i]] <= top
    <3>1. i \in N /\ i + 1 \in Bad /\ i + 1 \in N  BY <1>9
    <3> HIDE DEF Bad
    <3> QED  BY <3>1, <1>1
  <2> HIDE DEF Bad, up, pos1
  <2> QED  BY <1>1, <2>1, NoClimb
<1> QED  BY <1>6, <1>10
-----------------------------------------------------------------------------
(* The links of a list.                                                    *)

\* The nodes linked on level i.
Reach(bw, i) == {n \in Version : bw[n][i] # Nil}

After(R, m) == {v \in R : Before(m, v)}
Ahead(R, n) == {v \in R \cup {head} : Before(v, n)}

\* Level i is a chain of the nodes of R in order, linked both ways.
Chained(fw, bw, i, R) ==
  /\ \A m \in R \cup {head} : IsFirst(After(R, m), fw[m][i])
  /\ \A m \in Version \ R : fw[m][i] = Nil
  /\ \A n \in R : IsGreatest(Ahead(R, n), bw[n][i])
  /\ \A n \in Node \ R : bw[n][i] = Nil

Sound(fw, bw) ==
  /\ fw \in [Node -> [Level -> Version \cup {Nil}]]
  /\ bw \in [Node -> [Level -> Node \cup {Nil}]]
  /\ \A i \in Level : Chained(fw, bw, i, Reach(bw, i))
  /\ \A i, j \in Level : i <= j => Reach(bw, j) \subseteq Reach(bw, i)
  /\ IsFiniteSet(Reach(bw, 1))

LEMMA ChainForward ==
  ASSUME NEW fw, NEW bw, NEW i, NEW R \in SUBSET Version, Chained(fw, bw, i, R),
         NEW m \in Node
  PROVE  /\ fw[m][i] = Nil \/ fw[m][i] \in Version
         /\ fw[m][i] # Nil => /\ m \in R \cup {head} /\ fw[m][i] \in R
                              /\ Before(m, fw[m][i])
         /\ m \in R \cup {head} => \A v \in R : Before(m, v) =>
              fw[m][i] # Nil /\ (v = fw[m][i] \/ Before(fw[m][i], v))
<1>1. CASE m \in R \cup {head}
  <2>1. IsFirst(After(R, m), fw[m][i])  BY <1>1 DEF Chained
  <2> QED  BY <2>1, <1>1, Order DEF IsFirst, IsLeast, After
<1>2. CASE m \notin R \cup {head}
  <2>1. fw[m][i] = Nil  BY <1>2 DEF Chained, Node
  <2> QED  BY <2>1, <1>2
<1> QED  BY <1>1, <1>2

LEMMA ChainBackward ==
  ASSUME NEW fw, NEW bw, NEW i, NEW R \in SUBSET Version, Chained(fw, bw, i, R),
         NEW m \in Node
  PROVE  /\ bw[m][i] = Nil \/ bw[m][i] \in Node
         /\ bw[m][i] # Nil => /\ m \in R /\ bw[m][i] \in R \cup {head}
                              /\ Before(bw[m][i], m)
         /\ m \in R => /\ bw[m][i] # Nil
                       /\ \A v \in R \cup {head} : Before(v, m) =>
                            v = bw[m][i] \/ Before(v, bw[m][i])
<1>1. CASE m \in R
  <2>1. IsGreatest(Ahead(R, m), bw[m][i])  BY <1>1 DEF Chained
  <2> QED  BY <2>1, <1>1, Order DEF IsGreatest, Ahead, Node
<1>2. CASE m \notin R
  <2>1. bw[m][i] = Nil  BY <1>2 DEF Chained
  <2> QED  BY <2>1, <1>2
<1> QED  BY <1>1, <1>2

LEMMA LevelOne == 1 \in Level /\ MaxLevel \in Level /\ Level \subseteq Nat
  BY SkipListAssumption DEF Level

\* Steps to the right, or to the left, within S.
Rightwards(bw, S) == [i \in Level |-> {p \in Node \X Node :
                        Before(p[1], p[2]) /\ p[2] \in Reach(bw, i) \cap S}]
Leftwards(bw, S)  == [i \in Level |-> {p \in Node \X Node :
                        /\ Before(p[2], p[1]) /\ p[2] \in Reach(bw, i) \cap S
                        /\ p[1] \in Reach(bw, i)}]

LEMMA ReachBounded ==
  ASSUME NEW fw, NEW bw, Sound(fw, bw)
  PROVE  \E b \in Nat : \A x \in Reach(bw, 1) : Pos(x) <= b
<1> DEFINE R == Reach(bw, 1)
           f == [x \in R |-> Pos(x)]
<1>1. IsFiniteSet(R) /\ R \subseteq Node  BY Order DEF Sound, Reach
<1> HIDE DEF R
<1>2. f \in [R -> Nat]  BY <1>1, Order
<1> HIDE DEF f
<1>3. PICK b \in Nat : \A x \in R : f[x] <= b  BY <1>1, <1>2, Bounded
<1> QED  BY <1>3 DEF R, f

LEMMA LeadsRight ==
  ASSUME NEW fw, NEW bw, Sound(fw, bw), NEW S \in SUBSET Node
  PROVE  \E pos, b : Leads(fw, S, Rightwards(bw, S), pos, b)
<1> DEFINE R(i) == Reach(bw, i)
           T == Rightwards(bw, S)
           pos == [m \in Node |-> Pos(m)]
<1>1. PICK b \in Nat : \A x \in R(1) : Pos(x) <= b  BY ReachBounded
<1>2. \A i \in Level : R(i) \in SUBSET Version /\ R(i) \subseteq R(1)
  BY LevelOne DEF Sound, Reach, Level
<1>3. pos \in [Node -> Nat]  BY Order
<1>4. fw \in [Node -> [Level -> Node \cup {Nil}]]
  BY Order DEF Sound
<1>5. ASSUME NEW i \in Level, NEW m \in Node, fw[m][i] \in S \ {head}
      PROVE  /\ <<m, fw[m][i]>> \in T[i]
             /\ pos[m] < pos[fw[m][i]] /\ pos[fw[m][i]] <= b
  <2>1. Chained(fw, bw, i, R(i))  BY DEF Sound
  <2> HIDE DEF R
  <2>2. fw[m][i] # Nil  BY <1>5, Order
  <2>3. fw[m][i] \in R(i) /\ Before(m, fw[m][i])
    BY <1>2, <2>1, <2>2, ChainForward
  <2>4. fw[m][i] \in Node /\ fw[m][i] \in R(1)  BY <2>3, <1>2, Order
  <2>5. <<m, fw[m][i]>> \in T[i]  BY <1>5, <2>3, <2>4 DEF Rightwards, R
  <2>6. Pos(m) < Pos(fw[m][i])  BY <2>3, <2>4, Order
  <2> QED  BY <1>1, <2>4, <2>5, <2>6
<1>6. ASSUME NEW i \in Level, NEW x \in Node, NEW y \in Node, NEW z \in Node,
             <<x, y>> \in T[i], <<y, z>> \in T[i]
      PROVE  <<x, z>> \in T[i]
  <2>1. Before(x, y) /\ Before(y, z) /\ z \in R(i) \cap S  BY <1>6 DEF Rightwards
  <2>2. Before(x, z)
    <3>1. Pos(x) \in Nat /\ Pos(y) \in Nat /\ Pos(z) \in Nat  BY Order
    <3>2. Pos(x) < Pos(y) /\ Pos(y) < Pos(z)  BY <2>1, Order
    <3> QED  BY <3>1, <3>2, Order
  <2> QED  BY <2>1, <2>2 DEF Rightwards
<1>7. ASSUME NEW i \in Level, NEW j \in Level, i <= j PROVE T[j] \subseteq T[i]
  <2>1. R(j) \subseteq R(i)  BY <1>7 DEF Sound
  <2> QED  BY <2>1 DEF Rightwards
<1> HIDE DEF pos, T
<1>8. Leads(fw, S, T, pos, b)  BY <1>3, <1>4, <1>5, <1>6, <1>7 DEF Leads
<1> QED  BY <1>8 DEF T

LEMMA LeadsLeft ==
  ASSUME NEW fw, NEW bw, Sound(fw, bw), NEW S \in SUBSET Node
  PROVE  \E pos, b : Leads(bw, S, Leftwards(bw, S), pos, b)
<1> DEFINE R(i) == Reach(bw, i)
           T == Leftwards(bw, S)
<1>1. PICK b \in Nat : \A x \in R(1) : Pos(x) <= b  BY ReachBounded
<1> DEFINE pos == [m \in Node |-> IF m \in R(1) THEN b - Pos(m) ELSE 0]
<1>2. \A i \in Level : R(i) \in SUBSET Version /\ R(i) \subseteq R(1)
  BY LevelOne DEF Sound, Reach, Level
<1>3. pos \in [Node -> Nat]  BY <1>1, Order
<1>4. bw \in [Node -> [Level -> Node \cup {Nil}]]
  BY Order DEF Sound
<1>5. ASSUME NEW i \in Level, NEW m \in Node, bw[m][i] \in S \ {head}
      PROVE  /\ <<m, bw[m][i]>> \in T[i]
             /\ pos[m] < pos[bw[m][i]] /\ pos[bw[m][i]] <= b
  <2>1. Chained(fw, bw, i, R(i))  BY DEF Sound
  <2> HIDE DEF R
  <2>2. bw[m][i] # Nil /\ bw[m][i] # head  BY <1>5, Order
  <2>3. m \in R(i) /\ bw[m][i] \in R(i) /\ Before(bw[m][i], m)
    BY <1>2, <2>1, <2>2, ChainBackward
  <2>4. bw[m][i] \in Node /\ bw[m][i] \in R(1) /\ m \in R(1)  BY <2>3, <1>2, Order
  <2>5. <<m, bw[m][i]>> \in T[i]  BY <1>5, <2>3, <2>4 DEF Leftwards, R
  <2>6. /\ Pos(bw[m][i]) < Pos(m) /\ Pos(m) <= b
        /\ Pos(m) \in Nat /\ Pos(bw[m][i]) \in Nat
    BY <1>1, <2>3, <2>4, Order
  <2>7. pos[m] = b - Pos(m) /\ pos[bw[m][i]] = b - Pos(bw[m][i])  BY <2>4
  <2> QED  BY <2>5, <2>6, <2>7
<1>6. ASSUME NEW i \in Level, NEW x \in Node, NEW y \in Node, NEW z \in Node,
             <<x, y>> \in T[i], <<y, z>> \in T[i]
      PROVE  <<x, z>> \in T[i]
  <2>1. Before(y, x) /\ Before(z, y) /\ z \in R(i) \cap S /\ x \in R(i)
    BY <1>6 DEF Leftwards
  <2>2. Before(z, x)
    <3>1. Pos(x) \in Nat /\ Pos(y) \in Nat /\ Pos(z) \in Nat  BY Order
    <3>2. Pos(y) < Pos(x) /\ Pos(z) < Pos(y)  BY <2>1, Order
    <3> QED  BY <3>1, <3>2, Order
  <2> QED  BY <2>1, <2>2 DEF Leftwards
<1>7. ASSUME NEW i \in Level, NEW j \in Level, i <= j PROVE T[j] \subseteq T[i]
  <2>1. R(j) \subseteq R(i)  BY <1>7 DEF Sound
  <2> QED  BY <2>1 DEF Leftwards
<1> HIDE DEF pos, T
<1>8. Leads(bw, S, T, pos, b)  BY <1>3, <1>4, <1>5, <1>6, <1>7 DEF Leads
<1> QED  BY <1>8 DEF T

\* Where a walk to the right ends on level i: at n, or further right in S.
EndsRight(fw, bw, n, i, S, x) ==
  /\ x \in Node /\ fw[x][i] \notin S \ {head}
  /\ x = n \/ (x \in Reach(bw, i) \cap S /\ Before(n, x))

EndsLeft(bw, n, i, S, x) ==
  /\ x \in Node /\ bw[x][i] \notin S \ {head}
  /\ x = n \/ (x \in Reach(bw, i) \cap S /\ Before(x, n))

LEMMA WalkRight ==
  ASSUME NEW fw, NEW bw, Sound(fw, bw), NEW S \in SUBSET Node, NEW n \in Node,
         NEW top \in Level
  PROVE  \A i \in 1 .. top : EndsRight(fw, bw, n, i, S, Walk(fw, n, top, S)[i])
<1> DEFINE T == Rightwards(bw, S)
           at == Walk(fw, n, top, S)
<1>1. PICK pos, b : Leads(fw, S, T, pos, b)  BY LeadsRight
<1>2. 1 .. top \subseteq Level  BY SkipListAssumption DEF Level
<1> HIDE DEF T, at
<1>3. \A i \in 1 .. top : Stops(fw, n, i, S, T, at[i])  BY <1>1, WalkStops DEF at
<1>4. ASSUME NEW i \in 1 .. top PROVE EndsRight(fw, bw, n, i, S, at[i])
  <2>1. <<n, at[i]>> \in T[i] => at[i] \in Reach(bw, i) \cap S /\ Before(n, at[i])
    BY <1>2 DEF T, Rightwards
  <2> QED  BY <1>3, <2>1 DEF Stops, EndsRight
<1> QED  BY <1>4 DEF at

LEMMA WalkLeft ==
  ASSUME NEW fw, NEW bw, Sound(fw, bw), NEW S \in SUBSET Node, NEW n \in Node,
         NEW top \in Level
  PROVE  \A i \in 1 .. top : EndsLeft(bw, n, i, S, Walk(bw, n, top, S)[i])
<1> DEFINE T == Leftwards(bw, S)
           at == Walk(bw, n, top, S)
<1>1. PICK pos, b : Leads(bw, S, T, pos, b)  BY LeadsLeft
<1>2. 1 .. top \subseteq Level  BY SkipListAssumption DEF Level
<1> HIDE DEF T, at
<1>3. \A i \in 1 .. top : Stops(bw, n, i, S, T, at[i])  BY <1>1, WalkStops DEF at
<1>4. ASSUME NEW i \in 1 .. top PROVE EndsLeft(bw, n, i, S, at[i])
  <2>1. <<n, at[i]>> \in T[i] => at[i] \in Reach(bw, i) \cap S /\ Before(at[i], n)
    BY <1>2 DEF T, Leftwards
  <2> QED  BY <1>3, <2>1 DEF Stops, EndsLeft
<1> QED  BY <1>4 DEF at

\* The search for the last node of S, where S lies to the left of the rest: on
\* each level it finds the last that the level has, and behind it the first of
\* the rest.
LastOf(R, S, x) == IsGreatest((R \cap S) \cup {head}, x)

LeftPart(S) ==
  /\ S \in SUBSET Node
  /\ \A u \in Version, w \in S : Before(u, w) => u \in S

LEMMA SearchFinds ==
  ASSUME NEW fw, NEW bw, Sound(fw, bw), NEW S, LeftPart(S), NEW top \in Level
  PROVE  \A i \in 1 .. top :
           /\ LastOf(Reach(bw, i), S, Walk(fw, head, top, S)[i])
           /\ IsFirst(Reach(bw, i) \ S, fw[Walk(fw, head, top, S)[i]][i])
<1> DEFINE at == Walk(fw, head, top, S)
<1>1. \A i \in 1 .. top : EndsRight(fw, bw, head, i, S, at[i])
  BY WalkRight, Order DEF LeftPart
<1> HIDE DEF at
<1> SUFFICES ASSUME NEW i \in 1 .. top
             PROVE  /\ LastOf(Reach(bw, i), S, at[i])
                    /\ IsFirst(Reach(bw, i) \ S, fw[at[i]][i])
  BY DEF at
<1> DEFINE R == Reach(bw, i)
           x == at[i]
           f == fw[x][i]
<1>2. i \in Level  BY SkipListAssumption DEF Level
<1>3. R \in SUBSET Version /\ R \subseteq Node  BY Order DEF Reach
<1>4. /\ x \in Node /\ f \notin S \ {head}
      /\ x \in (R \cap S) \cup {head}
  BY <1>1 DEF EndsRight
<1>5. Chained(fw, bw, i, R)  BY <1>2 DEF Sound
<1> HIDE DEF R
<1>6. /\ f = Nil \/ f \in Version
      /\ f # Nil => f \in R /\ Before(x, f)
      /\ \A v \in R : Before(x, v) => f # Nil /\ (v = f \/ Before(f, v))
  BY <1>3, <1>4, <1>5, ChainForward
<1> HIDE DEF x, f
<1>7. \A u, w \in Node : u = w \/ Before(u, w) \/ Before(w, u)  BY Linear
<1>8. f # Nil => f \notin S  BY <1>4, <1>6, Order
<1>9. ASSUME NEW v \in R, v # x, ~ Before(v, x)
      PROVE  /\ f # Nil /\ (v = f \/ Before(f, v))
             /\ v \notin S
  <2>1. Before(x, v)  BY <1>3, <1>4, <1>7, <1>9
  <2>2. f # Nil /\ (v = f \/ Before(f, v))  BY <1>6, <2>1
  <2>3. v \notin S
    <3>1. f \in Version /\ f \notin S  BY <1>6, <1>8, <2>2
    <3> QED  BY <3>1, <2>2 DEF LeftPart
  <2> QED  BY <2>2, <2>3
<1>10. head = x \/ Before(head, x)  BY <1>3, <1>4, Order
<1>11. LastOf(R, S, x)  BY <1>4, <1>9, <1>10 DEF LastOf, IsGreatest
<1>12. ASSUME NEW v \in R, v \notin S PROVE v # x /\ ~ Before(v, x)
  <2>1. v # head /\ ~ Before(v, head)
    <3>1. Before(head, v) /\ v \in Node /\ head \in Node /\ v # head  BY <1>3, Order
    <3>2. Pos(head) < Pos(v) /\ Pos(head) \in Nat /\ Pos(v) \in Nat  BY <3>1, Order
    <3> QED  BY <3>1, <3>2, Order
  <2>2. x \in S => v # x /\ ~ Before(v, x)  BY <1>3, <1>12 DEF LeftPart
  <2> QED  BY <2>1, <2>2, <1>4
<1>13. IsFirst(R \ S, f)
  <2>1. CASE R \ S = {}
    <3>1. f = Nil  BY <1>6, <1>8, <2>1
    <3> QED  BY <3>1, <2>1 DEF IsFirst
  <2>2. CASE R \ S # {}
    <3>1. \A v \in R \ S : f # Nil /\ (v = f \/ Before(f, v))  BY <1>9, <1>12
    <3>2. f \in R \ S  BY <3>1, <2>2, <1>6, <1>8
    <3> QED  BY <3>1, <3>2, <2>2 DEF IsFirst, IsLeast
  <2> QED  BY <2>1, <2>2
<1> QED  BY <1>11, <1>13 DEF R, x, f

LEMMA Unique ==
  ASSUME NEW S \in SUBSET Node, NEW x, NEW y
  PROVE  /\ IsLeast(S, x) /\ IsLeast(S, y) => x = y
         /\ IsGreatest(S, x) /\ IsGreatest(S, y) => x = y
         /\ IsFirst(S, x) /\ IsFirst(S, y) => x = y
<1>1. \A u, w \in Node : ~ (Before(u, w) /\ Before(w, u))  BY Linear
<1>2. IsLeast(S, x) /\ IsLeast(S, y) => x = y  BY <1>1 DEF IsLeast
<1>3. IsGreatest(S, x) /\ IsGreatest(S, y) => x = y  BY <1>1 DEF IsGreatest
<1> QED  BY <1>2, <1>3 DEF IsFirst
-----------------------------------------------------------------------------
(* What put and remove do to the links.                                    *)

\* On one level: a node goes in after the last of those before it.
LEMMA ChainInsert ==
  ASSUME NEW fw, NEW bw, NEW fw2, NEW bw2, NEW i, NEW R \in SUBSET Version,
         Chained(fw, bw, i, R), NEW n \in Version, n \notin R,
         NEW u, LastOf(R, Below(n), u),
         \A m \in Node : fw2[m][i] = IF m = n THEN fw[u][i]
                                     ELSE IF m = u THEN n ELSE fw[m][i],
         \A m \in Node : bw2[m][i] = IF m = n THEN u
                                     ELSE IF m = fw[u][i] THEN n ELSE bw[m][i]
  PROVE  Chained(fw2, bw2, i, R \cup {n})
<1> DEFINE Q == R \cup {n}
           g == fw[u][i]
<1>1. R \subseteq Node /\ n \in Node /\ head \in Node /\ n # head /\ n # Nil /\ head \notin R
  BY Order
<1>2. /\ u \in R \cup {head} /\ u \in Node /\ Before(u, n) /\ u # n
      /\ \A v \in R \cup {head} : Before(v, n) => v = u \/ Before(v, u)
  <2>1. u \in (R \cap Below(n)) \cup {head}
    BY DEF LastOf, IsGreatest
  <2>2. \A v \in R \cup {head} : Before(v, n) => v = u \/ Before(v, u)
    BY <1>1 DEF LastOf, IsGreatest, Below
  <2>3. Before(u, n)  BY <2>1, Order DEF Below
  <2> QED  BY <2>1, <2>2, <2>3, <1>1, Linear
<1>3. /\ g = Nil \/ g \in Version
      /\ g # Nil => g \in R /\ Before(u, g)
      /\ \A v \in R : Before(u, v) => g # Nil /\ (v = g \/ Before(g, v))
  BY <1>2, ChainForward
<1>4. \A m \in Node : /\ fw2[m][i] = IF m = n THEN g ELSE IF m = u THEN n ELSE fw[m][i]
                      /\ bw2[m][i] = IF m = n THEN u ELSE IF m = g THEN n ELSE bw[m][i]
  OBVIOUS
<1> HIDE DEF g
\* Between u and n there is nothing, so that n is just before g.
<1>5. /\ g # Nil => Before(n, g) /\ g # n
      /\ \A v \in R : Before(n, v) => g # Nil /\ (v = g \/ Before(g, v))
      /\ \A v \in R : Before(u, v) => Before(n, v)
  <2>1. \A v \in R : Before(u, v) => Before(n, v)
    BY <1>1, <1>2, Linear
  <2>2. \A v \in R : Before(n, v) => Before(u, v)
    BY <1>1, <1>2, Linear
  <2> QED  BY <2>1, <2>2, <1>3
<1>6. ASSUME NEW m \in Q \cup {head} PROVE IsFirst(After(Q, m), fw2[m][i])
  <2>1. CASE m = n
    <3>1. fw2[m][i] = g  BY <1>1, <1>4, <2>1
    <3>2. After(Q, m) = {v \in R : Before(n, v)}  BY <1>1, <2>1, Linear DEF After
    <3> QED  BY <3>1, <3>2, <1>3, <1>5 DEF IsFirst, IsLeast
  <2>2. CASE m = u
    <3>1. fw2[m][i] = n  BY <1>2, <1>4, <2>2
    <3>2. n \in After(Q, m)  BY <1>2, <2>2 DEF After
    <3>3. \A v \in After(Q, m) : v = n \/ Before(n, v)  BY <1>5, <2>2 DEF After
    <3> QED  BY <3>1, <3>2, <3>3 DEF IsFirst, IsLeast
  <2>3. CASE m # n /\ m # u
    <3> DEFINE f == fw[m][i]
    <3>1. fw2[m][i] = f /\ m \in R \cup {head} /\ m \in Node  BY <1>1, <1>4, <2>3
    <3>2. /\ f # Nil => f \in R /\ Before(m, f)
          /\ \A v \in R : Before(m, v) => f # Nil /\ (v = f \/ Before(f, v))
      BY <3>1, ChainForward
    <3> HIDE DEF f
    <3>3. CASE Before(m, n)
      <4>1. Before(m, u) /\ u \in R  BY <1>1, <1>2, <2>3, <3>1, <3>3, Linear
      <4>2. f # Nil /\ f \in R /\ Before(m, f) /\ (u = f \/ Before(f, u))  BY <3>2, <4>1
      <4>3. Before(f, n)  BY <4>2, <1>1, <1>2, Linear
      <4>4. f \in After(Q, m) /\ \A v \in After(Q, m) : v = f \/ Before(f, v)
        BY <4>2, <4>3, <3>2 DEF After
      <4> QED  BY <3>1, <4>4 DEF IsFirst, IsLeast
    <3>4. CASE ~ Before(m, n)
      <4>1. After(Q, m) = {v \in R : Before(m, v)}  BY <3>4 DEF After
      <4> QED  BY <4>1, <3>1, <3>2 DEF IsFirst, IsLeast
    <3> QED  BY <3>3, <3>4
  <2> QED  BY <2>1, <2>2, <2>3
<1>7. ASSUME NEW m \in Version \ Q PROVE fw2[m][i] = Nil
  <2>1. m \in Node /\ m # n /\ m # u /\ m \in Version \ R  BY <1>2, Order
  <2>2. fw[m][i] = Nil  BY <2>1 DEF Chained
  <2> QED  BY <2>1, <2>2, <1>4
<1>8. ASSUME NEW k \in Q PROVE IsGreatest(Ahead(Q, k), bw2[k][i])
  <2>1. CASE k = n
    <3>1. bw2[k][i] = u  BY <1>1, <1>4, <2>1
    <3>2. Ahead(Q, k) = {v \in R \cup {head} : Before(v, n)}  BY <1>1, <2>1, Linear DEF Ahead
    <3> QED  BY <3>1, <3>2, <1>2 DEF IsGreatest
  <2>2. CASE k = g
    <3>1. bw2[k][i] = n /\ g \in R /\ Before(n, g) /\ g # Nil
      BY <1>1, <1>3, <1>4, <1>5, <2>2, Order
    <3>2. n \in Ahead(Q, k)  BY <3>1, <2>2 DEF Ahead
    <3>3. ASSUME NEW v \in R \cup {head}, Before(v, g) PROVE Before(v, n)
      <4>1. v \in Node /\ g \in Node  BY <1>1, <3>1
      <4>2. v # n  BY <1>1
      <4>3. ~ Before(n, v)
        <5> SUFFICES ASSUME Before(n, v) PROVE FALSE  OBVIOUS
        <5>1. v \in R  BY <1>1, Linear
        <5>2. v = g \/ Before(g, v)  BY <1>5, <5>1
        <5> QED  BY <5>2, <3>3, <4>1, Linear
      <4> QED  BY <4>1, <4>2, <4>3, <1>1, Linear
    <3>4. \A v \in Ahead(Q, k) : v = n \/ Before(v, n)  BY <3>3, <2>2 DEF Ahead
    <3> QED  BY <3>1, <3>2, <3>4 DEF IsGreatest
  <2>3. CASE k # n /\ k # g
    <3> DEFINE q == bw[k][i]
    <3>1. bw2[k][i] = q /\ k \in R /\ k \in Node  BY <1>1, <1>4, <2>3
    <3>2. /\ q \in R \cup {head} /\ Before(q, k)
          /\ \A v \in R \cup {head} : Before(v, k) => v = q \/ Before(v, q)
      BY <3>1, ChainBackward
    <3> HIDE DEF q
    <3>3. q \in Ahead(Q, k)  BY <3>2 DEF Ahead
    <3>4. ASSUME Before(n, k) PROVE Before(n, q)
      <4>1. g # Nil /\ g \in R /\ Before(g, k) /\ Before(n, g)
        BY <1>3, <1>5, <2>3, <3>1, <3>4
      <4>2. g = q \/ Before(g, q)  BY <3>2, <4>1
      <4>3. g \in Node /\ q \in Node  BY <4>1, <3>2, <1>1
      <4> QED  BY <4>1, <4>2, <4>3, <1>1, Linear
    <3>5. \A v \in Ahead(Q, k) : v = q \/ Before(v, q)
      BY <3>2, <3>4 DEF Ahead
    <3> QED  BY <3>1, <3>3, <3>5 DEF IsGreatest
  <2> QED  BY <2>1, <2>2, <2>3
<1>9. ASSUME NEW k \in Node \ Q PROVE bw2[k][i] = Nil
  <2>1. k # n /\ k # g /\ k \in Node \ R  BY <1>3, Order
  <2>2. bw[k][i] = Nil  BY <2>1 DEF Chained
  <2> QED  BY <2>1, <2>2, <1>4
<1> HIDE DEF Q
<1>10. Chained(fw2, bw2, i, Q)  BY <1>6, <1>7, <1>8, <1>9 DEF Chained
<1> QED  BY <1>10 DEF Q

\* On one level: a node comes out.
LEMMA ChainRemove ==
  ASSUME NEW fw, NEW bw, NEW fw2, NEW bw2, NEW i, NEW R \in SUBSET Version,
         Chained(fw, bw, i, R), NEW n \in R,
         NEW u, LastOf(R, Below(n), u),
         \A m \in Node : fw2[m][i] = IF m = n THEN Nil
                                     ELSE IF m = u THEN fw[n][i] ELSE fw[m][i],
         \A m \in Node : bw2[m][i] = IF m = n THEN Nil
                                     ELSE IF m = fw[n][i] THEN u ELSE bw[m][i]
  PROVE  Chained(fw2, bw2, i, R \ {n})
<1> DEFINE Q == R \ {n}
           g == fw[n][i]
<1>1. /\ R \subseteq Node /\ n \in Node /\ head \in Node /\ n # head /\ n # Nil
      /\ head \notin R /\ n \in Version
  BY Order
<1>2. /\ u \in R \cup {head} /\ u \in Node /\ Before(u, n) /\ u # n
      /\ \A v \in R \cup {head} : Before(v, n) => v = u \/ Before(v, u)
  <2>1. u \in (R \cap Below(n)) \cup {head}
    BY DEF LastOf, IsGreatest
  <2>2. \A v \in R \cup {head} : Before(v, n) => v = u \/ Before(v, u)
    BY <1>1 DEF LastOf, IsGreatest, Below
  <2>3. Before(u, n)  BY <1>1, <2>1, Order DEF Below
  <2> QED  BY <2>1, <2>2, <2>3, <1>1, Linear
<1>3. /\ g = Nil \/ g \in Version
      /\ g # Nil => g \in R /\ Before(n, g) /\ g # n
      /\ \A v \in R : Before(n, v) => g # Nil /\ (v = g \/ Before(g, v))
  <2>1. /\ g = Nil \/ g \in Version
        /\ g # Nil => g \in R /\ Before(n, g)
        /\ \A v \in R : Before(n, v) => g # Nil /\ (v = g \/ Before(g, v))
    BY <1>1, ChainForward
  <2> QED  BY <2>1, <1>1, Linear
<1>4. \A m \in Node : /\ fw2[m][i] = IF m = n THEN Nil ELSE IF m = u THEN g ELSE fw[m][i]
                      /\ bw2[m][i] = IF m = n THEN Nil ELSE IF m = g THEN u ELSE bw[m][i]
  OBVIOUS
<1> HIDE DEF g
<1>5. ASSUME NEW m \in Q \cup {head} PROVE IsFirst(After(Q, m), fw2[m][i])
  <2>0. m # n /\ m \in R \cup {head} /\ m \in Node  BY <1>1
  <2>1. CASE m = u
    <3>1. fw2[m][i] = g  BY <2>0, <1>4, <2>1
    <3>2. \A v \in R : Before(u, v) /\ v # n => Before(n, v)  BY <1>1, <1>2, Linear
    <3>3. \A v \in R : Before(n, v) => Before(u, v) /\ v # n  BY <1>1, <1>2, Linear
    <3>4. After(Q, m) = {v \in R : Before(n, v)}  BY <2>1, <3>2, <3>3 DEF After
    <3> QED  BY <3>1, <3>4, <1>3 DEF IsFirst, IsLeast
  <2>2. CASE m # u
    <3> DEFINE f == fw[m][i]
    <3>1. fw2[m][i] = f  BY <1>4, <2>0, <2>2
    <3>2. /\ f # Nil => f \in R /\ Before(m, f)
          /\ \A v \in R : Before(m, v) => f # Nil /\ (v = f \/ Before(f, v))
      BY <2>0, ChainForward
    <3> HIDE DEF f
    <3>3. f # n
      <4> SUFFICES ASSUME f = n PROVE FALSE  OBVIOUS
      <4>1. Before(m, n)  BY <3>2, <1>1
      <4>2. Before(m, u) /\ u \in R  BY <4>1, <2>0, <2>2, <1>1, <1>2, Linear
      <4>3. u = n \/ Before(n, u)  BY <3>2, <4>2
      <4> QED  BY <4>3, <1>1, <1>2, Linear
    <3> QED  BY <3>1, <3>2, <3>3 DEF IsFirst, IsLeast, After
  <2> QED  BY <2>1, <2>2
<1>6. ASSUME NEW m \in Version \ Q PROVE fw2[m][i] = Nil
  <2>1. CASE m = n  BY <2>1, <1>1, <1>4
  <2>2. CASE m # n
    <3>1. m \in Node /\ m # u /\ m \in Version \ R  BY <1>2, <2>2, Order
    <3>2. fw[m][i] = Nil  BY <3>1 DEF Chained
    <3> QED  BY <3>1, <3>2, <1>4, <2>2
  <2> QED  BY <2>1, <2>2
<1>7. ASSUME NEW k \in Q PROVE IsGreatest(Ahead(Q, k), bw2[k][i])
  <2>0. k \in R /\ k \in Node /\ k # n  BY <1>1
  <2>1. CASE k = g
    <3>1. bw2[k][i] = u /\ Before(n, g) /\ g \in R /\ g # Nil
      BY <1>1, <1>3, <1>4, <2>0, <2>1, Order
    <3>2. u \in Ahead(Q, k)
      <4>1. Before(u, g)  BY <1>1, <1>2, <3>1, Linear
      <4> QED  BY <4>1, <2>1, <1>1, <1>2 DEF Ahead
    <3>3. ASSUME NEW v \in Q \cup {head}, Before(v, g) PROVE Before(v, n)
      <4>1. v \in Node /\ g \in Node /\ v # n  BY <1>1, <3>1
      <4>2. ~ Before(n, v)
        <5> SUFFICES ASSUME Before(n, v) PROVE FALSE  OBVIOUS
        <5>1. v \in R  BY <1>1, Linear
        <5>2. v = g \/ Before(g, v)  BY <1>3, <5>1
        <5> QED  BY <5>2, <3>3, <4>1, Linear
      <4> QED  BY <4>1, <4>2, <1>1, Linear
    <3>4. \A v \in Ahead(Q, k) : v = u \/ Before(v, u)
      BY <3>3, <2>1, <1>2 DEF Ahead
    <3> QED  BY <3>1, <3>2, <3>4 DEF IsGreatest
  <2>2. CASE k # g
    <3> DEFINE q == bw[k][i]
    <3>1. bw2[k][i] = q  BY <1>4, <2>0, <2>2
    <3>2. /\ q \in R \cup {head} /\ Before(q, k)
          /\ \A v \in R \cup {head} : Before(v, k) => v = q \/ Before(v, q)
      BY <2>0, ChainBackward
    <3> HIDE DEF q
    <3>3. q # n
      <4> SUFFICES ASSUME q = n PROVE FALSE  OBVIOUS
      <4>1. g # Nil /\ Before(g, k) /\ g \in R /\ Before(n, g)  BY <1>3, <2>0, <2>2, <3>2
      <4>2. g = n \/ Before(g, n)  BY <3>2, <4>1
      <4> QED  BY <4>1, <4>2, <1>1, Linear
    <3> QED  BY <3>1, <3>2, <3>3, <1>1 DEF IsGreatest, Ahead
  <2> QED  BY <2>1, <2>2
<1>8. ASSUME NEW k \in Node \ Q PROVE bw2[k][i] = Nil
  <2>1. CASE k = n  BY <2>1, <1>1, <1>4
  <2>2. CASE k # n
    <3>1. k # g /\ k \in Node \ R  BY <1>3, <2>2, Order
    <3>2. bw[k][i] = Nil  BY <3>1 DEF Chained
    <3> QED  BY <3>1, <3>2, <1>4, <2>2
  <2> QED  BY <2>1, <2>2
<1> HIDE DEF Q
<1>9. Chained(fw2, bw2, i, Q)  BY <1>5, <1>6, <1>7, <1>8 DEF Chained
<1> QED  BY <1>9 DEF Q

\* A level nobody touches.
LEMMA ChainSame ==
  ASSUME NEW fw, NEW bw, NEW fw2, NEW bw2, NEW i, NEW R \in SUBSET Version,
         Chained(fw, bw, i, R),
         \A m \in Node : fw2[m][i] = fw[m][i] /\ bw2[m][i] = bw[m][i]
  PROVE  Chained(fw2, bw2, i, R)
<1>1. R \subseteq Node /\ head \in Node /\ Version \subseteq Node  BY Order
<1> QED  BY <1>1 DEF Chained

\* The nodes of a chain are the nodes its links reach.
LEMMA ChainReach ==
  ASSUME NEW fw, NEW bw, NEW i, NEW R \in SUBSET Version, Chained(fw, bw, i, R)
  PROVE  Reach(bw, i) = R
<1>1. \A n \in Version : bw[n][i] # Nil <=> n \in R
  BY ChainBackward, Order
<1> QED  BY <1>1 DEF Reach

\* The links after a node went in on levels 1 to top, or came out.
LinkedIn(fw, bw, n, update, top, fw2, bw2) ==
  /\ fw2 = [m \in Node |-> [i \in Level |->
               IF i \in 1 .. top /\ m = n THEN fw[update[i]][i]
               ELSE IF i \in 1 .. top /\ m = update[i] THEN n
               ELSE fw[m][i]]]
  /\ bw2 = [m \in Node |-> [i \in Level |->
               IF i \in 1 .. top /\ m = n THEN update[i]
               ELSE IF i \in 1 .. top /\ m = fw[update[i]][i] THEN n
               ELSE bw[m][i]]]

LinkedOut(fw, bw, n, update, cut, high, fw2, bw2) ==
  /\ fw2 = [m \in Node |-> [i \in Level |->
               IF m = n THEN Nil
               ELSE IF i \in cut /\ m = update[i] THEN fw[n][i]
               ELSE fw[m][i]]]
  /\ bw2 = [m \in Node |-> [i \in Level |->
               IF m = n THEN Nil
               ELSE IF i <= high /\ m = fw[n][i] THEN update[i]
               ELSE bw[m][i]]]

LEMMA InsertSound ==
  ASSUME NEW fw, NEW bw, Sound(fw, bw), NEW n \in Version, n \notin Reach(bw, 1),
         NEW top \in Level, NEW update,
         \A i \in 1 .. top : LastOf(Reach(bw, i), Below(n), update[i]),
         NEW fw2, NEW bw2, LinkedIn(fw, bw, n, update, top, fw2, bw2)
  PROVE  /\ Sound(fw2, bw2)
         /\ \A i \in Level : Reach(bw2, i) = IF i \in 1 .. top THEN Reach(bw, i) \cup {n}
                                             ELSE Reach(bw, i)
<1> DEFINE Q(i) == IF i \in 1 .. top THEN Reach(bw, i) \cup {n} ELSE Reach(bw, i)
<1>1. /\ \A i \in Level : /\ Reach(bw, i) \in SUBSET Version
                          /\ Chained(fw, bw, i, Reach(bw, i))
                          /\ Reach(bw, i) \subseteq Reach(bw, 1) /\ n \notin Reach(bw, i)
      /\ \A i, j \in Level : i <= j => Reach(bw, j) \subseteq Reach(bw, i)
      /\ fw \in [Node -> [Level -> Version \cup {Nil}]]
      /\ bw \in [Node -> [Level -> Node \cup {Nil}]]
  <2>1. \A i \in Level : Reach(bw, i) \in SUBSET Version  BY DEF Reach
  <2>2. \A i \in Level : Reach(bw, i) \subseteq Reach(bw, 1)
    BY LevelOne DEF Sound, Level
  <2> QED  BY <2>1, <2>2 DEF Sound
<1>2. n \in Node /\ 1 .. top \subseteq Level /\ 1 \in 1 .. top
  BY Order, SkipListAssumption DEF Level
<1>3. ASSUME NEW i \in 1 .. top PROVE update[i] \in Node
  BY <1>1, <1>2, Order DEF LastOf, IsGreatest
<1>4. ASSUME NEW i \in Level, NEW m \in Node
      PROVE  /\ fw2[m][i] = IF i \in 1 .. top /\ m = n THEN fw[update[i]][i]
                            ELSE IF i \in 1 .. top /\ m = update[i] THEN n
                            ELSE fw[m][i]
             /\ bw2[m][i] = IF i \in 1 .. top /\ m = n THEN update[i]
                            ELSE IF i \in 1 .. top /\ m = fw[update[i]][i] THEN n
                            ELSE bw[m][i]
  BY DEF LinkedIn
<1>5. ASSUME NEW i \in Level PROVE Chained(fw2, bw2, i, Q(i))
  <2>1. CASE i \in 1 .. top
    <3>1. \A m \in Node :
            /\ fw2[m][i] = IF m = n THEN fw[update[i]][i]
                           ELSE IF m = update[i] THEN n ELSE fw[m][i]
            /\ bw2[m][i] = IF m = n THEN update[i]
                           ELSE IF m = fw[update[i]][i] THEN n ELSE bw[m][i]
      BY <1>4, <2>1
    <3>2. LastOf(Reach(bw, i), Below(n), update[i])  BY <2>1
    <3> DEFINE R == Reach(bw, i)
               u == update[i]
    <3>3. /\ R \in SUBSET Version /\ Chained(fw, bw, i, R) /\ n \notin R
          /\ LastOf(R, Below(n), u)
      BY <1>1, <1>2, <2>1, <3>2
    <3>4. \A m \in Node : fw2[m][i] = IF m = n THEN fw[u][i]
                                      ELSE IF m = u THEN n ELSE fw[m][i]
      BY <3>1
    <3>5. \A m \in Node : bw2[m][i] = IF m = n THEN u
                                      ELSE IF m = fw[u][i] THEN n ELSE bw[m][i]
      BY <3>1
    <3> HIDE DEF R, u
    <3>6. Chained(fw2, bw2, i, R \cup {n})  BY <3>3, <3>4, <3>5, ChainInsert
    <3> QED  BY <3>6, <2>1 DEF R
  <2>2. CASE i \notin 1 .. top
    <3>1. \A m \in Node : fw2[m][i] = fw[m][i] /\ bw2[m][i] = bw[m][i]
      BY <1>4, <2>2
    <3>2. Chained(fw2, bw2, i, Reach(bw, i))
      BY ONLY <1>1, <3>1, i \in Level, ChainSame
    <3> QED  BY <3>2, <2>2
  <2> QED  BY <2>1, <2>2
<1>6. ASSUME NEW i \in Level PROVE Q(i) \in SUBSET Version /\ Reach(bw2, i) = Q(i)
  <2>1. Q(i) \in SUBSET Version  BY <1>1
  <2> HIDE DEF Q
  <2> QED  BY <2>1, <1>5, ChainReach
<1>7. fw2 \in [Node -> [Level -> Version \cup {Nil}]]
  <2>1. \A m \in Node, i \in Level : fw[m][i] \in Version \cup {Nil}  BY <1>1
  <2> QED  BY <1>3, <2>1 DEF LinkedIn
<1>8. bw2 \in [Node -> [Level -> Node \cup {Nil}]]
  <2>1. \A m \in Node, i \in Level : bw[m][i] \in Node \cup {Nil}  BY <1>1
  <2> QED  BY <1>2, <1>3, <2>1 DEF LinkedIn
<1>9. ASSUME NEW i \in Level, NEW j \in Level, i <= j PROVE Q(j) \subseteq Q(i)
  <2>1. j \in 1 .. top => i \in 1 .. top  BY <1>9 DEF Level
  <2> QED  BY <2>1, <1>1, <1>9
<1>10. IsFiniteSet(Q(1))
  <2>1. IsFiniteSet(Reach(bw, 1))  BY DEF Sound
  <2> QED  BY <2>1, <1>2, FS_AddElement
<1> HIDE DEF Q
<1>11. Sound(fw2, bw2)
  <2>1. \A i \in Level : Chained(fw2, bw2, i, Reach(bw2, i))  BY <1>5, <1>6
  <2>2. \A i, j \in Level : i <= j => Reach(bw2, j) \subseteq Reach(bw2, i)
    BY <1>6, <1>9
  <2>3. IsFiniteSet(Reach(bw2, 1))  BY <1>6, <1>10, LevelOne
  <2> QED  BY <2>1, <2>2, <2>3, <1>7, <1>8 DEF Sound
<1>12. \A i \in Level : Reach(bw2, i) = Q(i)  BY <1>6
<1> QED  BY <1>11, <1>12 DEF Q

LEMMA RemoveSound ==
  ASSUME NEW fw, NEW bw, Sound(fw, bw), NEW n \in Version,
         NEW cut, cut = {i \in Level : n \in Reach(bw, i)},
         NEW high, \A i \in cut : i <= high,
         NEW update, \A i \in Level : update[i] \in Node,
         \A i \in cut : LastOf(Reach(bw, i), Below(n), update[i]),
         NEW fw2, NEW bw2, LinkedOut(fw, bw, n, update, cut, high, fw2, bw2)
  PROVE  /\ Sound(fw2, bw2)
         /\ \A i \in Level : Reach(bw2, i) = Reach(bw, i) \ {n}
<1> DEFINE Q(i) == Reach(bw, i) \ {n}
<1>1. /\ \A i \in Level : /\ Reach(bw, i) \in SUBSET Version
                          /\ Chained(fw, bw, i, Reach(bw, i))
      /\ \A i, j \in Level : i <= j => Reach(bw, j) \subseteq Reach(bw, i)
      /\ fw \in [Node -> [Level -> Version \cup {Nil}]]
      /\ bw \in [Node -> [Level -> Node \cup {Nil}]]
  <2>1. \A i \in Level : Reach(bw, i) \in SUBSET Version  BY DEF Reach
  <2> QED  BY <2>1 DEF Sound
<1>2. n \in Node /\ n # Nil /\ Nil \notin Node  BY Order
<1>3. ASSUME NEW i \in Level, NEW m \in Node
      PROVE  /\ fw2[m][i] = IF m = n THEN Nil
                            ELSE IF i \in cut /\ m = update[i] THEN fw[n][i]
                            ELSE fw[m][i]
             /\ bw2[m][i] = IF m = n THEN Nil
                            ELSE IF i <= high /\ m = fw[n][i] THEN update[i]
                            ELSE bw[m][i]
  BY DEF LinkedOut
<1>4. ASSUME NEW i \in Level PROVE Chained(fw2, bw2, i, Q(i))
  <2>1. CASE i \in cut
    <3>1. \A m \in Node :
            /\ fw2[m][i] = IF m = n THEN Nil
                           ELSE IF m = update[i] THEN fw[n][i] ELSE fw[m][i]
            /\ bw2[m][i] = IF m = n THEN Nil
                           ELSE IF m = fw[n][i] THEN update[i] ELSE bw[m][i]
      BY <1>3, <2>1
    <3>2. LastOf(Reach(bw, i), Below(n), update[i]) /\ n \in Reach(bw, i)  BY <2>1
    <3> DEFINE R == Reach(bw, i)
               u == update[i]
    <3>3. /\ R \in SUBSET Version /\ Chained(fw, bw, i, R) /\ n \in R
          /\ LastOf(R, Below(n), u)
      BY <1>1, <3>2
    <3>4. \A m \in Node : fw2[m][i] = IF m = n THEN Nil
                                      ELSE IF m = u THEN fw[n][i] ELSE fw[m][i]
      BY <3>1
    <3>5. \A m \in Node : bw2[m][i] = IF m = n THEN Nil
                                      ELSE IF m = fw[n][i] THEN u ELSE bw[m][i]
      BY <3>1
    <3> HIDE DEF R, u
    <3>6. Chained(fw2, bw2, i, R \ {n})  BY ONLY <3>3, <3>4, <3>5, ChainRemove
    <3> QED  BY <3>6 DEF R
  <2>2. CASE i \notin cut
    <3>1. n \notin Reach(bw, i)  BY <2>2
    <3>2. fw[n][i] = Nil /\ bw[n][i] = Nil
      BY <1>1, <1>2, <3>1 DEF Chained
    <3>3. \A m \in Node : fw2[m][i] = fw[m][i] /\ bw2[m][i] = bw[m][i]
      BY <1>2, <1>3, <2>2, <3>2
    <3>4. Chained(fw2, bw2, i, Reach(bw, i))
      BY ONLY <1>1, <3>3, i \in Level, ChainSame
    <3>5. Q(i) = Reach(bw, i)  BY <3>1
    <3> HIDE DEF Q
    <3> QED  BY <3>4, <3>5
  <2> QED  BY <2>1, <2>2
<1>5. ASSUME NEW i \in Level PROVE Q(i) \in SUBSET Version /\ Reach(bw2, i) = Q(i)
  <2>1. Q(i) \in SUBSET Version  BY <1>1
  <2> HIDE DEF Q
  <2> QED  BY <2>1, <1>4, ChainReach
<1>6. fw2 \in [Node -> [Level -> Version \cup {Nil}]]
  <2>1. \A m \in Node, i \in Level : fw[m][i] \in Version \cup {Nil}  BY <1>1
  <2> QED  BY <1>2, <2>1 DEF LinkedOut
<1>7. bw2 \in [Node -> [Level -> Node \cup {Nil}]]
  <2>1. \A m \in Node, i \in Level : bw[m][i] \in Node \cup {Nil}  BY <1>1
  <2> QED  BY <1>2, <2>1 DEF LinkedOut
<1>8. ASSUME NEW i \in Level, NEW j \in Level, i <= j PROVE Q(j) \subseteq Q(i)
  BY <1>1, <1>8
<1>9. IsFiniteSet(Q(1))
  <2>1. IsFiniteSet(Reach(bw, 1))  BY DEF Sound
  <2> QED  BY <2>1, FS_RemoveElement
<1> HIDE DEF Q
<1>10. Sound(fw2, bw2)
  <2>1. \A i \in Level : Chained(fw2, bw2, i, Reach(bw2, i))  BY <1>4, <1>5
  <2>2. \A i, j \in Level : i <= j => Reach(bw2, j) \subseteq Reach(bw2, i)
    BY <1>5, <1>8
  <2>3. IsFiniteSet(Reach(bw2, 1))  BY <1>5, <1>9, LevelOne
  <2> QED  BY <2>1, <2>2, <2>3, <1>6, <1>7 DEF Sound
<1>11. \A i \in Level : Reach(bw2, i) = Q(i)  BY <1>5
<1> QED  BY <1>10, <1>11 DEF Q
-----------------------------------------------------------------------------
(* The invariant. bw is what the links back have to be: where a search leaves *)
(* them as they should be, backward is bw.                                  *)

Links(bw) ==
  /\ value \in [Version -> Value \cup {None}]
  /\ Sound(forward, bw)
  /\ Reach(bw, 1) = Present
  /\ current_level \in Level
  /\ \A i \in Level : i > current_level => Reach(bw, i) = {}
  /\ size_bytes \in Int /\ removed \in 0 .. MaxRemoved

LinkInv ==
  /\ \E bw : Links(bw) /\ (~ astray => backward = bw)
  /\ backward \in [Node -> [Level -> Node \cup {Nil}]] /\ astray \in BOOLEAN

LEMMA LeftParts ==
  /\ \A n \in Version : LeftPart(Below(n)) /\ n \notin Below(n)
  /\ \A k \in Key : LeftPart(Smaller(k))
<1>1. ASSUME NEW n \in Version PROVE LeftPart(Below(n)) /\ n \notin Below(n)
  BY Order, Linear DEF LeftPart, Below
<1>2. ASSUME NEW k \in Key PROVE LeftPart(Smaller(k))
  <2>1. \A u \in Version, w \in Node : Before(u, w) => u[1] <= w[1]
    <3> SUFFICES ASSUME NEW u \in Version, NEW w \in Node, Before(u, w) PROVE u[1] <= w[1]
      OBVIOUS
    <3>1. u[1] \in Nat /\ w[1] \in Nat
      BY NodeShape, Order
    <3> QED  BY <3>1 DEF Before
  <2>2. k \in Nat /\ \A w \in Node : w[1] \in Nat
    BY SkipListAssumption, NodeShape
  <2>3. Version \subseteq Node  BY Order
  <2> QED  BY <2>1, <2>2, <2>3 DEF LeftPart, Smaller
<1> QED  BY <1>1, <1>2

\* put's search ends before the node's place on every level it has.
LEMMA SearchBelow ==
  ASSUME NEW bw, Links(bw), NEW n \in Version
  PROVE  /\ \A i \in 1 .. current_level :
              LastOf(Reach(bw, i), Below(n), Search(current_level, Below(n))[i])
         /\ forward[Search(current_level, Below(n))[1]][1] = n <=> value[n] # None
<1> DEFINE S == Below(n)
           at == Search(current_level, S)
           f == forward[at[1]][1]
<1>1. LeftPart(S) /\ n \notin S  BY LeftParts
<1>2. /\ Sound(forward, bw) /\ current_level \in Level
      /\ Reach(bw, 1) = Present
  BY DEF Links
<1> HIDE DEF S
<1>3. \A i \in 1 .. current_level :
        /\ LastOf(Reach(bw, i), S, at[i])
        /\ IsFirst(Reach(bw, i) \ S, forward[at[i]][i])
  BY <1>1, <1>2, SearchFinds DEF Search
<1>4. 1 \in 1 .. current_level  BY <1>2 DEF Level
<1> HIDE DEF at
<1>5. IsFirst(Present \ S, f)  BY <1>2, <1>3, <1>4
<1>6. ASSUME value[n] # None PROVE f = n
  <2>1. n \in Present \ S  BY <1>1, <1>6 DEF Present
  <2>2. f \in Present \ S /\ (n = f \/ Before(f, n))
    BY <1>5, <2>1 DEF IsFirst, IsLeast
  <2>3. ~ Before(f, n)
    <3>1. f \in Node  BY <2>2, Order DEF Present
    <3> QED  BY <2>2, <3>1 DEF S, Below
  <2> QED  BY <2>2, <2>3
<1>7. ASSUME f = n PROVE value[n] # None
  <2>1. n # Nil  BY Order
  <2> QED  BY <1>5, <1>7, <2>1 DEF IsFirst, IsLeast, Present
<1> QED  BY <1>3, <1>6, <1>7 DEF at, S

LEMMA EmptyLinks ==
  ASSUME NEW fw, fw = [n \in Node |-> [i \in Level |-> Nil]]
  PROVE  Sound(fw, fw) /\ \A i \in Level : Reach(fw, i) = {}
<1>1. \A i \in Level, n \in Node : fw[n][i] = Nil  OBVIOUS
<1>2. \A i \in Level : Reach(fw, i) = {}
  BY <1>1, Order DEF Reach
<1>3. ASSUME NEW i \in Level PROVE Chained(fw, fw, i, {})
  BY <1>1, Order DEF Chained, IsFirst, After
<1>4. IsFiniteSet(Reach(fw, 1))  BY <1>2, LevelOne, FS_EmptySet
<1> QED  BY <1>2, <1>3, <1>4 DEF Sound

LEMMA InitLinks == Init => LinkInv
<1> SUFFICES ASSUME Init PROVE LinkInv  OBVIOUS
<1>1. /\ value = [n \in Version |-> None]
      /\ forward = [n \in Node |-> [i \in Level |-> Nil]] /\ backward = forward
      /\ current_level = 1 /\ size_bytes = 0 /\ removed = 0 /\ astray = FALSE
  BY DEF Init
<1>2. Sound(forward, backward) /\ \A i \in Level : Reach(backward, i) = {}
  BY <1>1, EmptyLinks
<1>3. Present = {}  BY <1>1 DEF Present
<1>4. removed \in 0 .. MaxRemoved  BY <1>1, SkipListAssumption
<1>5. Links(backward)
  <2>1. value \in [Version -> Value \cup {None}]  BY <1>1
  <2>2. Reach(backward, 1) = Present  BY <1>2, <1>3, LevelOne
  <2>3. current_level \in Level /\ size_bytes \in Int  BY <1>1, LevelOne
  <2> QED  BY <1>2, <1>4, <2>1, <2>2, <2>3 DEF Links
<1> QED  BY <1>1, <1>5 DEF LinkInv

LEMMA OverwriteLinks ==
  ASSUME LinkInv, NEW n \in Version, NEW x \in Value, Overwrite(n, x)
  PROVE  LinkInv'
<1>1. /\ value[n] # None /\ value' = [value EXCEPT ![n] = x]
      /\ size_bytes' = size_bytes + x - value[n]
      /\ UNCHANGED <<forward, backward, current_level, removed, astray>>
  BY DEF Overwrite
<1>2. PICK bw : Links(bw) /\ (~ astray => backward = bw)  BY DEF LinkInv
<1>3. /\ value \in [Version -> Value \cup {None}] /\ x \in Nat /\ x # None
      /\ value[n] \in Nat /\ size_bytes \in Int
  BY <1>1, <1>2, SkipListAssumption DEF Links
<1>4. value' \in [Version -> Value \cup {None}] /\ size_bytes' \in Int
  BY <1>1, <1>3
<1>5. Present' = Present  BY <1>1, <1>3 DEF Present
<1>6. Links(bw)'  BY <1>1, <1>2, <1>4, <1>5 DEF Links
<1> QED  BY <1>1, <1>2, <1>6 DEF LinkInv

LEMMA InsertLinks ==
  ASSUME LinkInv, NEW n \in Version, NEW x \in Value, NEW new_level \in Level,
         new_level >= current_level, NEW top \in 1 .. new_level, Insert(n, x, new_level, top)
  PROVE  LinkInv' /\ value[n] = None /\ Present' = Present \cup {n}
<1> DEFINE old == Search(current_level, Below(n))
           update == [i \in 1 .. new_level |-> IF i <= current_level THEN old[i] ELSE head]
<1>1. /\ forward[old[1]][1] # n
      /\ Link(n, update, top)
      /\ value' = [value EXCEPT ![n] = x]
      /\ size_bytes' = size_bytes + KeyBytes + x + 8
      /\ current_level' = new_level /\ removed' = removed /\ astray' = astray
  BY DEF Insert
<1> PICK bw : Links(bw) /\ (~ astray => backward = bw)  BY DEF LinkInv
<1>2. value[n] = None /\ n \notin Reach(bw, 1)
  BY <1>1, SearchBelow DEF Links, Present
<1>3. /\ value \in [Version -> Value \cup {None}] /\ current_level \in Level
      /\ size_bytes \in Int /\ x \in Nat /\ x # None /\ KeyBytes \in Nat
      /\ Sound(forward, bw) /\ Reach(bw, 1) = Present
      /\ \A i \in Level : i > current_level => Reach(bw, i) = {}
  BY SkipListAssumption DEF Links
<1>4. top \in Level /\ 1 .. top \subseteq 1 .. new_level /\ 1 .. new_level \subseteq Level
  BY SkipListAssumption DEF Level
<1>5. ASSUME NEW i \in 1 .. top
      PROVE  LastOf(Reach(bw, i), Below(n), update[i])
  <2>1. i \in 1 .. new_level /\ i \in Level  BY <1>4
  <2>2. CASE i <= current_level
    <3>1. i \in 1 .. current_level /\ update[i] = old[i]  BY <1>3, <2>1, <2>2 DEF Level
    <3> HIDE DEF update
    <3> QED  BY <3>1, SearchBelow
  <2>3. CASE ~ (i <= current_level)
    <3>1. Reach(bw, i) = {}  BY <1>3, <2>1, <2>3 DEF Level
    <3>2. update[i] = head  BY <2>1, <2>3
    <3> QED  BY <3>1, <3>2 DEF LastOf, IsGreatest
  <2> QED  BY <2>2, <2>3
<1> HIDE DEF old, update
<1> PICK bw2 : bw2 = [m \in Node |-> [i \in Level |->
                        IF i \in 1 .. top /\ m = n THEN update[i]
                        ELSE IF i \in 1 .. top /\ m = forward[update[i]][i] THEN n
                        ELSE bw[m][i]]]
  OBVIOUS
<1>6. /\ Sound(forward', bw2)
      /\ \A i \in Level : Reach(bw2, i) = IF i \in 1 .. top THEN Reach(bw, i) \cup {n}
                                          ELSE Reach(bw, i)
  <2>1. PICK fw2 : fw2 = forward'  OBVIOUS
  <2>2. LinkedIn(forward, bw, n, update, top, fw2, bw2)
    BY <1>1, <2>1 DEF Link, LinkedIn
  <2>3. /\ Sound(fw2, bw2)
        /\ \A i \in Level : Reach(bw2, i) = IF i \in 1 .. top THEN Reach(bw, i) \cup {n}
                                            ELSE Reach(bw, i)
    BY ONLY <1>2, <1>3, <1>4, <1>5, <2>2, n \in Version, InsertSound
  <2> QED  BY <2>1, <2>3
<1>7. Present' = Present \cup {n}
  BY <1>1, <1>2, <1>3 DEF Present
<1>8. Reach(bw2, 1) = Present'
  <2>1. 1 \in 1 .. top /\ 1 \in Level  BY LevelOne
  <2> QED  BY <2>1, <1>3, <1>6, <1>7
<1>9. ASSUME NEW i \in Level, i > new_level PROVE Reach(bw2, i) = {}
  <2>1. i > current_level /\ i \notin 1 .. top  BY <1>3, <1>9 DEF Level
  <2> QED  BY <2>1, <1>3, <1>6
<1>10. value' \in [Version -> Value \cup {None}] /\ size_bytes' \in Int
  BY <1>1, <1>3
<1>11. removed' \in 0 .. MaxRemoved  BY <1>1 DEF Links
<1>12. Links(bw2)'
  BY <1>1, <1>6, <1>8, <1>9, <1>10, <1>11 DEF Links
<1>13. backward' = [m \in Node |-> [i \in Level |->
                     IF i \in 1 .. top /\ m = n THEN update[i]
                     ELSE IF i \in 1 .. top /\ m = forward[update[i]][i] THEN n
                     ELSE backward[m][i]]]
  BY <1>1 DEF Link
<1>14. ~ astray' => backward' = bw2  BY <1>1, <1>13
<1>15. backward' \in [Node -> [Level -> Node \cup {Nil}]]
  <2>1. /\ n \in Node
        /\ \A m \in Node, i \in Level : backward[m][i] \in Node \cup {Nil}
        /\ \A i \in 1 .. top : update[i] \in Node
    <3>1. \A i \in 1 .. top : Reach(bw, i) \subseteq Version  BY DEF Reach
    <3> QED  BY <3>1, <1>5, Order DEF LinkInv, LastOf, IsGreatest
  <2> QED  BY <1>13, <2>1
<1>16. LinkInv'  BY <1>1, <1>12, <1>14, <1>15 DEF LinkInv
<1> QED  BY <1>2, <1>7, <1>16

\* get's search ends before the key's place: First is the first node with it.
LEMMA SearchSmaller ==
  ASSUME NEW bw, Links(bw), NEW k \in Key
  PROVE  /\ \A i \in Level :
              /\ LastOf(Reach(bw, i), Smaller(k), Search(MaxLevel, Smaller(k))[i])
              /\ IsFirst(Reach(bw, i) \ Smaller(k),
                         forward[Search(MaxLevel, Smaller(k))[i]][i])
         /\ IsFirst({v \in Present : v[1] = k}, First(k))
<1> DEFINE S == Smaller(k)
           at == Search(MaxLevel, S)
           f == forward[at[1]][1]
           K == {v \in Present : v[1] = k}
<1>1. LeftPart(S)  BY LeftParts
<1>2. Sound(forward, bw) /\ Reach(bw, 1) = Present  BY DEF Links
<1> HIDE DEF S
<1>3. \A i \in Level :
        /\ LastOf(Reach(bw, i), S, at[i])
        /\ IsFirst(Reach(bw, i) \ S, forward[at[i]][i])
  BY <1>1, <1>2, LevelOne, SearchFinds DEF Search, Level
<1> HIDE DEF at
<1>4. IsFirst(Present \ S, f)  BY <1>2, <1>3, LevelOne
<1>5. First(k) = IF f # Nil /\ f[1] = k THEN f ELSE Nil
  BY DEF First, at, S
<1>6. k \in Nat /\ \A v \in Present : /\ v[1] \in Nat /\ v \in Node /\ v # Nil
                                      /\ v \in S <=> v[1] < k
  BY SkipListAssumption, NodeShape, Order DEF Present, S, Smaller
<1> HIDE DEF f
<1>7. K \subseteq Present \ S  BY <1>6
<1>8. ASSUME NEW w \in Present, w[1] = k PROVE f # Nil /\ f[1] = k
  <2>1. w \in Present \ S  BY <1>7, <1>8
  <2>2. f \in Present \ S /\ (w = f \/ Before(f, w))
    BY <1>4, <2>1 DEF IsFirst, IsLeast
  <2>3. f[1] <= k  BY <1>6, <1>8, <2>2 DEF Before
  <2> QED  BY <1>6, <2>2, <2>3
<1>9. IsFirst(K, First(k))
  <2>1. CASE K = {}
    <3>1. ~ (f # Nil /\ f[1] = k)
      <4>1. f # Nil => f \in Present  BY <1>4 DEF IsFirst, IsLeast
      <4> QED  BY <4>1, <2>1
    <3> QED  BY <3>1, <2>1, <1>5 DEF IsFirst
  <2>2. CASE K # {}
    <3>1. f # Nil /\ f[1] = k  BY <2>2, <1>8
    <3>2. f \in Present /\ \A v \in Present \ S : v = f \/ Before(f, v)
      BY <1>4, <3>1 DEF IsFirst, IsLeast
    <3> QED  BY <3>1, <3>2, <2>2, <1>5, <1>7 DEF IsFirst, IsLeast
  <2> QED  BY <2>1, <2>2
<1> QED  BY <1>3, <1>9 DEF at, S

\* The levels that are left after a removal.
LEMMA LevelShrinks ==
  ASSUME NEW fw2, NEW bw2, Sound(fw2, bw2), NEW high \in Level,
         \A i \in Level : i > high => Reach(bw2, i) = {},
         NEW c, c = LET used == {1} \cup {i \in 1 .. high : fw2[head][i] # Nil}
                    IN  CHOOSE i \in used : \A j \in used : j <= i
  PROVE  c \in Level /\ \A i \in Level : i > c => Reach(bw2, i) = {}
<1> DEFINE used == {1} \cup {i \in 1 .. high : fw2[head][i] # Nil}
<1>1. c = CHOOSE i \in used : \A j \in used : j <= i  OBVIOUS
<1>2. used \subseteq 1 .. high /\ used # {} /\ high \in Nat  BY LevelOne DEF Level
<1>3. \A i \in Level : i \in 1 .. high /\ i \notin used => fw2[head][i] = Nil
  OBVIOUS
<1> HIDE DEF used
<1>4. Max(used) \in used /\ \A x \in used : x <= Max(used)
  BY <1>2, Extremes
<1>5. PICK z \in used : \A j \in used : j <= z  BY <1>4
<1>6. c \in used /\ \A j \in used : j <= c
  BY <1>1, <1>5
<1>7. c \in Level /\ c <= high
  BY ONLY <1>2, <1>6, high \in Level, SkipListAssumption DEF Level
<1>8. ASSUME NEW i \in Level, i > c PROVE Reach(bw2, i) = {}
  <2>1. CASE i > high  BY <2>1
  <2>2. CASE ~ (i > high)
    <3>1. i \in 1 .. high  BY ONLY <2>2, <1>2, i \in Level, SkipListAssumption DEF Level
    <3>2. i \notin used
      <4>1. i \in Nat /\ c \in Nat  BY <1>7, LevelOne
      <4> QED  BY ONLY <4>1, <1>6, <1>8
    <3>3. fw2[head][i] = Nil  BY <1>3, <3>1, <3>2
    <3>4. Chained(fw2, bw2, i, Reach(bw2, i))
      BY DEF Sound
    <3>5. After(Reach(bw2, i), head) = {}
      <4>1. IsFirst(After(Reach(bw2, i), head), fw2[head][i])
        BY <3>4 DEF Chained
      <4>2. Nil \notin After(Reach(bw2, i), head)
        BY Order DEF After, Reach
      <4> QED  BY <4>1, <4>2, <3>3 DEF IsFirst, IsLeast
    <3> QED  BY <3>5, Order DEF After, Reach
  <2> QED  BY <2>1, <2>2
<1> QED  BY <1>7, <1>8

\* In a sound list the links back mirror the links forward.
LEMMA Mirrored ==
  ASSUME NEW fw, NEW bw, Sound(fw, bw), NEW i \in Level, NEW m \in Node, NEW n \in Version
  PROVE  fw[m][i] = n <=> bw[n][i] = m
<1> DEFINE R == Reach(bw, i)
           f == fw[m][i]
           p == bw[n][i]
<1>1. Chained(fw, bw, i, R) /\ R \in SUBSET Version  BY DEF Sound, Reach
<1>2. n \in Node /\ n # Nil /\ m # Nil  BY Order
<1> HIDE DEF R
<1>3. /\ f # Nil => /\ m \in R \cup {head} /\ f \in R /\ Before(m, f)
      /\ m \in R \cup {head} => \A v \in R : Before(m, v) =>
           f # Nil /\ (v = f \/ Before(f, v))
  BY <1>1, ChainForward
<1>4. /\ p # Nil => n \in R /\ p \in R \cup {head} /\ Before(p, n)
      /\ n \in R => /\ p # Nil
                    /\ \A v \in R \cup {head} : Before(v, n) => v = p \/ Before(v, p)
  BY <1>1, <1>2, ChainBackward
<1> HIDE DEF f, p
<1>5. R \subseteq Node /\ head \in Node /\ \A v \in Node : ~ Before(v, head)
  BY <1>1, Order, Linear DEF Node
<1>6. ASSUME f = n PROVE p = m
  <2>1. /\ m \in R \cup {head} /\ n \in R /\ Before(m, n)
        /\ p \in R \cup {head} /\ Before(p, n) /\ (m = p \/ Before(m, p))
    BY <1>2, <1>3, <1>4, <1>6
  <2>2. ~ Before(m, p)
    <3> SUFFICES ASSUME Before(m, p) PROVE FALSE  OBVIOUS
    <3>1. p \in R  BY <2>1, <1>5
    <3>2. p = n \/ Before(n, p)  BY <1>3, <1>6, <2>1, <3>1
    <3> QED  BY <3>1, <3>2, <2>1, <1>2, <1>5, Linear
  <2> QED  BY <2>1, <2>2
<1>7. ASSUME p = m PROVE f = n
  <2>1. /\ n \in R /\ m \in R \cup {head} /\ Before(m, n)
        /\ f # Nil /\ f \in R /\ Before(m, f) /\ (n = f \/ Before(f, n))
    BY <1>2, <1>3, <1>4, <1>7
  <2>2. ~ Before(f, n)
    <3> SUFFICES ASSUME Before(f, n) PROVE FALSE  OBVIOUS
    <3>1. f = m \/ Before(f, m)  BY <1>4, <1>7, <2>1
    <3> QED  BY <3>1, <2>1, <1>2, <1>5, Linear
  <2> QED  BY <2>1, <2>2
<1> QED  BY <1>6, <1>7 DEF f, p
LEMMA RemoveLinks ==
  ASSUME LinkInv, NEW k \in Key, remove(k), First(k) # Nil
  PROVE  /\ LinkInv' /\ First(k) \in Present
         /\ Present' = Present \ {First(k)} /\ value' = [value EXCEPT ![First(k)] = None]
         /\ size_bytes' = size_bytes - KeyBytes - value[First(k)]
         /\ removed' = removed + 1 /\ astray' = astray
<1> DEFINE n == First(k)
           update == Search(MaxLevel, Smaller(k))
           cut == {i \in 1 .. current_level :
                     \A j \in 1 .. i : forward[update[j]][j] = n}
<1> PICK bw : Links(bw) /\ (~ astray => backward = bw)  BY DEF LinkInv
<1> DEFINE n1 == forward[update[1]][1]
           hit == n1[1] = k
           cut1 == {i \in 1 .. current_level :
                      hit /\ \A j \in 1 .. i : forward[update[j]][j] = n1}
<1>0. n = n1 /\ hit /\ n # Nil
  BY DEF First
<1>1. /\ n # Nil /\ removed < MaxRemoved
      /\ forward' = [m \in Node |-> [i \in Level |->
           IF m = n THEN Nil
           ELSE IF i \in cut /\ m = update[i] THEN forward[n][i]
           ELSE forward[m][i]]]
      /\ backward' = [m \in Node |-> [i \in Level |->
           IF m = n THEN Nil
           ELSE IF i <= current_level /\ m = forward[n][i] THEN update[i]
           ELSE IF backward[m][i] = n THEN Nil
           ELSE backward[m][i]]]
      /\ value' = [value EXCEPT ![n] = None]
      /\ size_bytes' = size_bytes - KeyBytes - value[n]
      /\ removed' = removed + 1 /\ astray' = astray
  <2>1. /\ removed < MaxRemoved
        /\ forward' = [m \in Node |-> [i \in Level |->
             IF hit /\ m = n1 THEN Nil
             ELSE IF i \in cut1 /\ m = update[i] THEN forward[n1][i]
             ELSE forward[m][i]]]
        /\ backward' = [m \in Node |-> [i \in Level |->
             IF hit /\ m = n1 THEN Nil
             ELSE IF i <= current_level /\ m = forward[n1][i] THEN update[i]
             ELSE IF hit /\ backward[m][i] = n1 THEN Nil
             ELSE backward[m][i]]]
        /\ value' = IF hit THEN [value EXCEPT ![n1] = None] ELSE value
        /\ size_bytes' = size_bytes - KeyBytes - value[n1]
        /\ removed' = removed + 1 /\ astray' = (astray \/ ~ hit)
    BY DEF remove
  <2>2. cut1 = cut  BY <1>0
  <2>3. astray \in BOOLEAN  BY DEF LinkInv
  <2> HIDE DEF n, n1, hit, cut, cut1, update
  <2>4. astray' = astray  BY <2>1, <2>3, <1>0
  <2> QED  BY <1>0, <2>1, <2>2, <2>4, Zenon
<1> HIDE DEF n1, hit, cut1
<1>2. LET used == {1} \cup {i \in 1 .. current_level : forward'[head][i] # Nil}
      IN  current_level' = CHOOSE i \in used : \A j \in used : j <= i
  BY DEF remove
<1>3. \A i \in Level : /\ LastOf(Reach(bw, i), Smaller(k), update[i])
                       /\ IsFirst(Reach(bw, i) \ Smaller(k), forward[update[i]][i])
  BY SearchSmaller
<1>4. IsFirst({v \in Present : v[1] = k}, n)  BY SearchSmaller
<1> HIDE DEF n, update
<1>5. /\ n \in Present /\ n \in Version /\ n[1] = k /\ n \in Node
      /\ \A v \in Present : v[1] = k => v = n \/ Before(n, v)
  BY <1>1, <1>4, Order DEF IsFirst, IsLeast, Present
<1>6. /\ value \in [Version -> Value \cup {None}] /\ value[n] \in Nat
      /\ current_level \in Level /\ Level \subseteq Nat
      /\ size_bytes \in Int /\ KeyBytes \in Nat /\ removed \in 0 .. MaxRemoved
      /\ MaxRemoved \in Nat
      /\ Sound(forward, bw) /\ Reach(bw, 1) = Present
      /\ \A i \in Level : i > current_level => Reach(bw, i) = {}
      /\ \A i \in Level : Reach(bw, i) \subseteq Present
  <2>1. value[n] \in Nat  BY <1>5, SkipListAssumption DEF Links, Present
  <2>2. \A i \in Level : Reach(bw, i) \subseteq Present
    BY LevelOne DEF Links, Sound, Level
  <2> QED  BY <2>1, <2>2, SkipListAssumption, LevelOne DEF Links
\* What lies before n is what has a smaller key.
<1>7. /\ \A v \in Present \cup {head} : v \in Smaller(k) <=> Before(v, n)
      /\ n \notin Smaller(k)
  <2>1. k \in Nat /\ n[1] = k /\ \A v \in Present \cup {head} : v[1] \in Nat /\ v \in Node
    BY <1>5, SkipListAssumption, NodeShape, Order DEF Present
  <2>2. ASSUME NEW v \in Present \cup {head} PROVE v[1] < k <=> Before(v, n)
    <3>1. v[1] < k => Before(v, n)  BY <2>1 DEF Before
    <3>2. ASSUME Before(v, n) PROVE v[1] < k
      <4>1. v[1] <= k  BY <2>1, <3>2 DEF Before
      <4>2. v[1] # k
        <5> SUFFICES ASSUME v[1] = k PROVE FALSE  OBVIOUS
        <5>1. v \in Present
          <6>1. head[1] = 0 /\ k # 0  BY SkipListAssumption DEF head
          <6> QED  BY <6>1
        <5>2. v = n \/ Before(n, v)  BY <5>1, <1>5
        <5> QED  BY <5>2, <3>2, <2>1, <1>5, Linear
      <4> QED  BY <4>1, <4>2, <2>1
    <3> QED  BY <3>1, <3>2
  <2> QED  BY <2>1, <2>2, <1>5 DEF Smaller
<1>8. cut = {i \in Level : n \in Reach(bw, i)} /\ \A i \in cut : i <= current_level
  <2>1. ASSUME NEW i \in Level PROVE forward[update[i]][i] = n <=> n \in Reach(bw, i)
    <3> DEFINE R == Reach(bw, i)
    <3>1. R \subseteq Present /\ IsFirst(R \ Smaller(k), forward[update[i]][i])
      BY <1>3, <1>6
    <3> HIDE DEF R
    <3>2. ASSUME n \in R PROVE IsFirst(R \ Smaller(k), n)
      <4>1. n \in R \ Smaller(k)  BY <1>7, <3>2
      <4>2. ASSUME NEW v \in R \ Smaller(k) PROVE v = n \/ Before(n, v)
        <5>1. v \in Node /\ ~ Before(v, n)  BY <1>7, <3>1, Order DEF Present
        <5> QED  BY <5>1, <1>5, Linear
      <4> QED  BY <4>1, <4>2 DEF IsFirst, IsLeast
    <3>3. R \ Smaller(k) \in SUBSET Node  BY <3>1, Order DEF Present
    <3>4. n \in R => forward[update[i]][i] = n  BY <3>1, <3>2, <3>3, Unique
    <3>5. forward[update[i]][i] = n => n \in R
      BY <1>1, <3>1 DEF IsFirst, IsLeast
    <3> QED  BY <3>4, <3>5 DEF R
  <2>2. ASSUME NEW i \in cut PROVE i \in Level /\ n \in Reach(bw, i) /\ i <= current_level
    <3>1. i \in 1 .. current_level /\ i \in 1 .. i /\ forward[update[i]][i] = n  OBVIOUS
    <3>2. i \in Level  BY <3>1, <1>6, SkipListAssumption DEF Level
    <3> QED  BY <3>1, <3>2, <2>1
  <2>3. ASSUME NEW i \in Level, n \in Reach(bw, i) PROVE i \in cut
    <3>1. ~ (i > current_level)  BY <1>6, <2>3
    <3>2. i \in 1 .. current_level  BY <1>6, <3>1 DEF Level
    <3>3. ASSUME NEW j \in 1 .. i PROVE forward[update[j]][j] = n
      <4>1. j \in Level /\ j <= i  BY <1>6, SkipListAssumption DEF Level
      <4>2. Reach(bw, i) \subseteq Reach(bw, j)  BY <1>6, <4>1 DEF Sound
      <4> QED  BY <4>1, <4>2, <2>1, <2>3
    <3> QED  BY <3>2, <3>3
  <2> QED  BY <2>2, <2>3
<1> HIDE DEF cut
<1>9. ASSUME NEW i \in Level
      PROVE  update[i] \in Node /\ LastOf(Reach(bw, i), Below(n), update[i])
  <2>1. Reach(bw, i) \subseteq Present  BY <1>6
  <2>2. Reach(bw, i) \cap Smaller(k) = Reach(bw, i) \cap Below(n)
    <3>1. \A v \in Present : v \in Below(n) <=> Before(v, n)  BY Order DEF Below, Present
    <3> QED  BY <3>1, <2>1, <1>7
  <2>3. LastOf(Reach(bw, i), Smaller(k), update[i])  BY <1>3
  <2>4. LastOf(Reach(bw, i), Below(n), update[i])  BY <2>2, <2>3 DEF LastOf
  <2>5. update[i] \in Node  BY <2>1, <2>3, Order DEF LastOf, IsGreatest, Present
  <2> QED  BY <2>4, <2>5
<1> PICK bw2 : bw2 = [m \in Node |-> [i \in Level |->
                        IF m = n THEN Nil
                        ELSE IF i <= current_level /\ m = forward[n][i] THEN update[i]
                        ELSE bw[m][i]]]
  OBVIOUS
<1>10. /\ Sound(forward', bw2)
       /\ \A i \in Level : Reach(bw2, i) = Reach(bw, i) \ {n}
  <2>1. PICK fw2 : fw2 = forward'  OBVIOUS
  <2>2. PICK fw, high : fw = forward /\ high = current_level  OBVIOUS
  <2>3. PICK u, c : u = update /\ c = cut  OBVIOUS
  <2>4. PICK v : v = n  OBVIOUS
  <2>5. LinkedOut(fw, bw, v, u, c, high, fw2, bw2)
    BY <1>1, <2>1, <2>2, <2>3, <2>4 DEF LinkedOut
  <2>6. /\ Sound(fw, bw) /\ v \in Version /\ c = {i \in Level : v \in Reach(bw, i)}
        /\ \A i \in c : i <= high
        /\ \A i \in Level : u[i] \in Node
        /\ \A i \in c : LastOf(Reach(bw, i), Below(v), u[i])
    BY <1>5, <1>6, <1>8, <1>9, <2>2, <2>3, <2>4
  <2>7. /\ Sound(fw2, bw2)
        /\ \A i \in Level : Reach(bw2, i) = Reach(bw, i) \ {v}
    BY ONLY <2>5, <2>6, RemoveSound
  <2> QED  BY <2>1, <2>4, <2>7
<1>11. Present' = Present \ {n}
  <2>1. value' = [value EXCEPT ![n] = None] /\ n \in Version  BY <1>1, <1>5
  <2>2. \A v \in Version : value'[v] = IF v = n THEN None ELSE value[v]  BY <2>1, <1>6
  <2> QED  BY <2>2 DEF Present
<1>12. Reach(bw2, 1) = Present'  BY <1>6, <1>10, <1>11, LevelOne
<1>13. /\ current_level' \in Level
       /\ \A i \in Level : i > current_level' => Reach(bw2, i) = {}
  <2>1. PICK fw2, high, c : fw2 = forward' /\ high = current_level /\ c = current_level'
    OBVIOUS
  <2>2. /\ Sound(fw2, bw2) /\ high \in Level
        /\ \A i \in Level : i > high => Reach(bw2, i) = {}
    BY <1>6, <1>10, <2>1
  <2>3. c = LET used == {1} \cup {i \in 1 .. high : fw2[head][i] # Nil}
            IN  CHOOSE i \in used : \A j \in used : j <= i
    BY <1>2, <2>1
  <2>4. c \in Level /\ \A i \in Level : i > c => Reach(bw2, i) = {}
    BY ONLY <2>2, <2>3, LevelShrinks
  <2> QED  BY <2>1, <2>4
<1>14. value' \in [Version -> Value \cup {None}]  BY <1>1, <1>6
<1>15. size_bytes' \in Int /\ removed' \in 0 .. MaxRemoved  BY <1>1, <1>6
<1>16. Links(bw2)'  BY <1>10, <1>12, <1>13, <1>14, <1>15 DEF Links
\* No node but the one behind n points back to n.
<1>17. ASSUME ~ astray, NEW m \in Node, NEW i \in Level, m # n, bw[m][i] = n
       PROVE  i <= current_level /\ m = forward[n][i]
  <2>1. Chained(forward, bw, i, Reach(bw, i)) /\ Reach(bw, i) \in SUBSET Version
    BY <1>6 DEF Sound, Reach
  <2>2. m \in Reach(bw, i)  BY <1>1, <1>17, <2>1, ChainBackward
  <2>3. forward[n][i] = m  BY <1>5, <1>6, <1>17, <2>1, <2>2, Mirrored
  <2>4. ~ (i > current_level)  BY <1>6, <2>2
  <2> QED  BY <2>3, <2>4, <1>6
<1>18. ASSUME ~ astray' PROVE backward' = bw2
  <2>1. ~ astray /\ backward = bw  BY <1>1, <1>18
  <2>2. ASSUME NEW m \in Node, NEW i \in Level
        PROVE  (IF m = n THEN Nil
                ELSE IF i <= current_level /\ m = forward[n][i] THEN update[i]
                ELSE IF bw[m][i] = n THEN Nil
                ELSE bw[m][i])
               = IF m = n THEN Nil
                 ELSE IF i <= current_level /\ m = forward[n][i] THEN update[i]
                 ELSE bw[m][i]
    BY <2>1, <1>17
  <2> QED  BY <1>1, <2>1, <2>2, Zenon
<1>19. backward' \in [Node -> [Level -> Node \cup {Nil}]]
  <2>1. \A m \in Node, i \in Level : backward[m][i] \in Node \cup {Nil}  BY DEF LinkInv
  <2> QED  BY <1>1, <1>9, <2>1
<1>20. LinkInv'
  <2>1. astray' \in BOOLEAN  BY <1>1 DEF LinkInv
  <2> QED  BY <1>16, <1>18, <1>19, <2>1 DEF LinkInv
<1> QED  BY <1>1, <1>5, <1>11, <1>20 DEF n

\* A removal of a key that is not there leaves the links forward as they are.
LEMMA MissLinks ==
  ASSUME LinkInv, NEW k \in Key, remove(k), First(k) = Nil
  PROVE  /\ LinkInv' /\ value' = value /\ removed' = removed + 1 /\ astray'
<1> DEFINE update == Search(MaxLevel, Smaller(k))
           n == forward[update[1]][1]
           hit == n[1] = k
           cut == {i \in 1 .. current_level :
                     hit /\ \A j \in 1 .. i : forward[update[j]][j] = n}
<1> PICK bw : Links(bw) /\ (~ astray => backward = bw)  BY DEF LinkInv
<1>1. /\ n # Nil /\ removed < MaxRemoved
      /\ forward' = [m \in Node |-> [i \in Level |->
           IF hit /\ m = n THEN Nil
           ELSE IF i \in cut /\ m = update[i] THEN forward[n][i]
           ELSE forward[m][i]]]
      /\ backward' = [m \in Node |-> [i \in Level |->
           IF hit /\ m = n THEN Nil
           ELSE IF i <= current_level /\ m = forward[n][i] THEN update[i]
           ELSE IF hit /\ backward[m][i] = n THEN Nil
           ELSE backward[m][i]]]
      /\ value' = IF hit THEN [value EXCEPT ![n] = None] ELSE value
      /\ size_bytes' = size_bytes - KeyBytes - value[n]
      /\ removed' = removed + 1 /\ astray' = (astray \/ ~ hit)
  BY DEF remove
<1>2. current_level' =
        LET used == {1} \cup {i \in 1 .. current_level : forward'[head][i] # Nil}
        IN  CHOOSE i \in used : \A j \in used : j <= i
  BY DEF remove
<1>3. ~ hit /\ cut = {}
  <2>1. ~ hit
    <3> SUFFICES ASSUME hit PROVE FALSE  OBVIOUS
    <3>1. First(k) = n  BY <1>1 DEF First
    <3> QED  BY <3>1, <1>1
  <2> HIDE DEF hit
  <2> QED  BY <2>1
<1>4. \A i \in Level : /\ LastOf(Reach(bw, i), Smaller(k), update[i])
                       /\ IsFirst(Reach(bw, i) \ Smaller(k), forward[update[i]][i])
  BY SearchSmaller
<1>5. /\ value \in [Version -> Value \cup {None}] /\ current_level \in Level
      /\ Sound(forward, bw) /\ Reach(bw, 1) = Present
      /\ \A i \in Level : i > current_level => Reach(bw, i) = {}
      /\ size_bytes \in Int /\ removed \in 0 .. MaxRemoved
      /\ forward \in [Node -> [Level -> Version \cup {Nil}]]
      /\ backward \in [Node -> [Level -> Node \cup {Nil}]]
  BY DEF LinkInv, Links, Sound
<1> HIDE DEF update, n, hit, cut
<1>6. n \in Present  BY <1>1, <1>4, <1>5, LevelOne DEF n, IsFirst, IsLeast
<1>7. forward' = forward /\ value' = value
  BY <1>1, <1>3, <1>5
<1>8. size_bytes' \in Int /\ removed' \in 0 .. MaxRemoved
  BY <1>1, <1>5, <1>6, SkipListAssumption DEF Present
<1>9. current_level' \in Level /\ \A i \in Level : i > current_level' => Reach(bw, i) = {}
  <2>1. PICK fw, high, c : fw = forward /\ high = current_level /\ c = current_level'
    OBVIOUS
  <2>2. c = LET used == {1} \cup {i \in 1 .. high : fw[head][i] # Nil}
            IN  CHOOSE i \in used : \A j \in used : j <= i
    BY <1>2, <1>7, <2>1
  <2>3. /\ Sound(fw, bw) /\ high \in Level
        /\ \A i \in Level : i > high => Reach(bw, i) = {}
    BY <1>5, <2>1
  <2>4. c \in Level /\ \A i \in Level : i > c => Reach(bw, i) = {}
    BY ONLY <2>2, <2>3, LevelShrinks
  <2> QED  BY <2>1, <2>4
<1>10. Present' = Present  BY <1>7 DEF Present
<1>11. Links(bw)'  BY <1>5, <1>7, <1>8, <1>9, <1>10 DEF Links
<1>12. backward' \in [Node -> [Level -> Node \cup {Nil}]]
  <2>1. \A i \in Level : update[i] \in Node
    <3>1. \A i \in Level : Reach(bw, i) \subseteq Version  BY DEF Reach
    <3> QED  BY <3>1, <1>4, Order DEF LastOf, IsGreatest
  <2>2. \A m \in Node, i \in Level : backward[m][i] \in Node \cup {Nil}  BY <1>5
  <2> QED  BY <1>1, <2>1, <2>2
<1>13. astray' = TRUE  BY <1>1, <1>3
<1> QED  BY <1>1, <1>7, <1>11, <1>12, <1>13 DEF LinkInv

LEMMA ClearLinks ==
  ASSUME LinkInv, \/ clear
                  \/ \E k \in Key : remove_crashes(k)
  PROVE  LinkInv' /\ Present' = {}
<1>1. /\ value' = [n \in Version |-> None]
      /\ forward' = [n \in Node |-> [i \in Level |-> Nil]] /\ backward' = forward'
      /\ current_level' \in {1, current_level}
      /\ size_bytes' = 0 /\ removed' = 0 /\ astray' = FALSE
  BY DEF clear, remove_crashes
<1>2. PICK fw2 : fw2 = forward'  OBVIOUS
<1>3. Sound(fw2, fw2) /\ \A i \in Level : Reach(fw2, i) = {}
  BY <1>1, <1>2, EmptyLinks
<1>4. Present' = {}  BY <1>1 DEF Present
<1>5. value' \in [Version -> Value \cup {None}]  BY <1>1
<1>6. current_level' \in Level  BY <1>1, LevelOne DEF LinkInv, Links
<1>7. size_bytes' \in Int /\ removed' \in 0 .. MaxRemoved  BY <1>1, SkipListAssumption
<1>8. Links(fw2)'  BY <1>2, <1>3, <1>4, <1>5, <1>6, <1>7, LevelOne DEF Links
<1> QED  BY <1>1, <1>2, <1>4, <1>8 DEF LinkInv
-----------------------------------------------------------------------------
(* What the nodes hold, in bytes.                                          *)

Bytes(x) == KeyBytes + x + 8

\* The recursive function in MapThenSumSet.
Weighs(F, val, S) ==
  F = [s \in SUBSET S |->
         IF s = {} THEN 0
         ELSE Bytes(val[CHOOSE x \in s : TRUE]) + F[s \ {CHOOSE x \in s : TRUE}]]

Held(val, S) == (CHOOSE F : Weighs(F, val, S))[S]

\* A finite set that is bad for no smaller part's sake.
LEMMA LeastSet ==
  ASSUME NEW S, IsFiniteSet(S), NEW Bad \in SUBSET SUBSET S, Bad # {}
  PROVE  \E s \in Bad : \A y \in s : s \ {y} \notin Bad
<1> DEFINE D == {Cardinality(s) : s \in Bad}
<1>1. \A s \in Bad : IsFiniteSet(s) /\ Cardinality(s) \in Nat
  BY FS_Subset, FS_CardinalityType
<1>2. D \in SUBSET Nat /\ D # {}  BY <1>1
<1>3. PICK d \in D : \A e \in D : d <= e
  <2> HIDE DEF D
  <2> QED  BY <1>2, NatMin
<1>4. PICK s \in Bad : d = Cardinality(s)  OBVIOUS
<1>5. ASSUME NEW y \in s, s \ {y} \in Bad PROVE FALSE
  <2>1. Cardinality(s \ {y}) = Cardinality(s) - 1  BY <1>1, FS_RemoveElement
  <2>2. d <= Cardinality(s \ {y})  BY <1>3, <1>5
  <2> QED  BY <1>1, <1>4, <2>1, <2>2
<1> QED  BY <1>4, <1>5

LEMMA WeighsExists ==
  ASSUME NEW S, IsFiniteSet(S), NEW val, \A x \in S : val[x] \in Nat
  PROVE  \E F : Weighs(F, val, S)
<1> DEFINE N == SUBSET S
           first(s) == CHOOSE x \in s : TRUE
           base == [s \in N |-> 0]
           step == [s \in N |-> [z \in Int |-> IF s = {} THEN z ELSE Bytes(val[first(s)]) + z]]
           next == [s \in N |-> IF s = {} THEN s ELSE s \ {first(s)}]
           b == Cardinality(S)
           pos == [s \in N |-> b - Cardinality(s)]
<1>1. KeyBytes \in Nat  BY SkipListAssumption
<1>2. \A s \in N : s # {} => first(s) \in s  OBVIOUS
<1>3. \A s \in N : IsFiniteSet(s) /\ Cardinality(s) \in Nat /\ Cardinality(s) <= b
  BY FS_Subset, FS_CardinalityType
<1>4. b \in Nat  BY FS_CardinalityType
<1> HIDE DEF first, b
<1>5. base \in [N -> Int] /\ step \in [N -> [Int -> Int]] /\ next \in [N -> N]
  <2>1. ASSUME NEW s \in N, NEW z \in Int
        PROVE  (IF s = {} THEN z ELSE Bytes(val[first(s)]) + z) \in Int
    BY <1>1, <1>2 DEF Bytes
  <2>2. step \in [N -> [Int -> Int]]  BY <2>1
  <2>3. next \in [N -> N]  OBVIOUS
  <2> QED  BY <2>2, <2>3
<1>6. pos \in [N -> Nat]  BY <1>3, <1>4
<1>7. ASSUME NEW s \in N \ {{}} PROVE pos[s] < pos[next[s]] /\ pos[next[s]] <= b
  <2>1. next[s] = s \ {first(s)} /\ next[s] \in N  OBVIOUS
  <2>2. Cardinality(next[s]) = Cardinality(s) - 1
    BY <1>2, <1>3, <2>1, FS_RemoveElement
  <2> QED  BY <1>3, <1>4, <2>1, <2>2
<1>8. PICK F \in [N -> Int] : Solves(F, N, {{}}, base, step, next)
  <2> HIDE DEF N, base, step, next, pos
  <2> QED  BY <1>4, <1>5, <1>6, <1>7, Descent
<1>9. ASSUME NEW s \in N
      PROVE  (IF s \in {{}} THEN base[s] ELSE step[s][F[next[s]]])
             = IF s = {} THEN 0 ELSE Bytes(val[first(s)]) + F[s \ {first(s)}]
  <2>1. CASE s = {}  BY <2>1
  <2>2. CASE s # {}
    <3>1. next[s] = s \ {first(s)} /\ next[s] \in N  BY <2>2
    <3>2. F[next[s]] \in Int  BY <3>1
    <3> QED  BY <2>2, <3>1, <3>2
  <2> QED  BY <2>1, <2>2
<1>10. F = [s \in N |-> IF s \in {{}} THEN base[s] ELSE step[s][F[next[s]]]]
  BY <1>8 DEF Solves
<1>11. F = [s \in N |-> IF s = {} THEN 0 ELSE Bytes(val[first(s)]) + F[s \ {first(s)}]]
  <2> HIDE DEF N, base, step, next
  <2> QED  BY <1>9, <1>10, Zenon
<1> QED  BY <1>11 DEF Weighs, first

\* The sum does not depend on the order in which the set is counted.
LEMMA WeighsAny ==
  ASSUME NEW S, IsFiniteSet(S), NEW val, \A x \in S : val[x] \in Nat,
         NEW F, Weighs(F, val, S)
  PROVE  /\ F[{}] = 0
         /\ \A s \in SUBSET S : F[s] \in Nat
         /\ \A s \in SUBSET S : \A y \in s : F[s] = Bytes(val[y]) + F[s \ {y}]
<1> DEFINE first(s) == CHOOSE x \in s : TRUE
           Bad1 == {s \in SUBSET S : F[s] \notin Nat}
           Bad2 == {s \in SUBSET S : \E y \in s : F[s] # Bytes(val[y]) + F[s \ {y}]}
<1>1. \A x \in S : Bytes(val[x]) \in Nat  BY SkipListAssumption DEF Bytes
<1>2. /\ F[{}] = 0
      /\ \A s \in SUBSET S : s # {} => /\ first(s) \in s
                                       /\ F[s] = Bytes(val[first(s)]) + F[s \ {first(s)}]
  BY DEF Weighs
<1> HIDE DEF first
<1>3. ASSUME Bad1 # {} PROVE FALSE
  <2>1. PICK s \in Bad1 : \A y \in s : s \ {y} \notin Bad1
    <3>1. Bad1 \in SUBSET SUBSET S  OBVIOUS
    <3> HIDE DEF Bad1
    <3> QED  BY <3>1, <1>3, LeastSet
  <2>2. s # {}  BY <1>2
  <2>3. F[s \ {first(s)}] \in Nat  BY <1>2, <2>1, <2>2
  <2> QED  BY <1>1, <1>2, <2>2, <2>3
<1>4. \A s \in SUBSET S : F[s] \in Nat  BY <1>3
<1>5. ASSUME Bad2 # {} PROVE FALSE
  <2>1. PICK s \in Bad2 : \A y \in s : s \ {y} \notin Bad2
    <3>1. Bad2 \in SUBSET SUBSET S  OBVIOUS
    <3> HIDE DEF Bad2
    <3> QED  BY <3>1, <1>5, LeastSet
  <2>2. PICK y \in s : F[s] # Bytes(val[y]) + F[s \ {y}]  OBVIOUS
  <2>3. PICK x : x = first(s)  OBVIOUS
  <2>4. x \in s /\ F[s] = Bytes(val[x]) + F[s \ {x}] /\ x # y  BY <1>2, <2>2, <2>3
  <2>5. y \in s \ {x} /\ x \in s \ {y} /\ (s \ {x}) \ {y} = (s \ {y}) \ {x}  BY <2>4
  <2>6. F[s \ {x}] = Bytes(val[y]) + F[(s \ {x}) \ {y}]  BY <2>1, <2>4, <2>5
  <2>7. F[s \ {y}] = Bytes(val[x]) + F[(s \ {y}) \ {x}]  BY <2>1, <2>5
  <2>8. PICK p, q, r, t \in Nat : /\ p = Bytes(val[x]) /\ q = Bytes(val[y])
                                  /\ r = F[(s \ {x}) \ {y}] /\ t = F[s \ {y}]
    BY <1>1, <1>4, <2>4
  <2>9. F[s] = p + (q + r) /\ t = p + r  BY <2>4, <2>5, <2>6, <2>7, <2>8
  <2> QED  BY <2>2, <2>8, <2>9
<1>6. \A s \in SUBSET S : \A y \in s : F[s] = Bytes(val[y]) + F[s \ {y}]
  BY <1>5
<1> QED  BY <1>2, <1>4, <1>6

LEMMA WeighsAlike ==
  ASSUME NEW S, IsFiniteSet(S), NEW val, \A x \in S : val[x] \in Nat,
         NEW F, Weighs(F, val, S),
         NEW T, IsFiniteSet(T), NEW val2, \A x \in T : val2[x] \in Nat,
         NEW G, Weighs(G, val2, T),
         NEW P \in SUBSET (S \cap T), \A x \in P : val[x] = val2[x]
  PROVE  F[P] = G[P]
<1> DEFINE Bad == {s \in SUBSET P : F[s] # G[s]}
<1>1. IsFiniteSet(P)  BY FS_Subset
<1>2. /\ F[{}] = 0
      /\ \A s \in SUBSET S : \A y \in s : F[s] = Bytes(val[y]) + F[s \ {y}]
  BY WeighsAny
<1>3. /\ G[{}] = 0
      /\ \A s \in SUBSET T : \A y \in s : G[s] = Bytes(val2[y]) + G[s \ {y}]
  BY WeighsAny
<1>4. ASSUME Bad # {} PROVE FALSE
  <2>1. PICK s \in Bad : \A y \in s : s \ {y} \notin Bad
    <3>1. Bad \in SUBSET SUBSET P  OBVIOUS
    <3> HIDE DEF Bad
    <3> QED  BY <3>1, <1>1, <1>4, LeastSet
  <2>2. s # {}  BY <1>2, <1>3
  <2>3. PICK y \in s : TRUE  BY <2>2
  <2>4. s \in SUBSET S /\ s \in SUBSET T /\ y \in P  OBVIOUS
  <2>5. F[s \ {y}] = G[s \ {y}]  BY <2>1
  <2>6. F[s] = Bytes(val[y]) + F[s \ {y}]  BY <1>2, <2>4
  <2>7. G[s] = Bytes(val2[y]) + G[s \ {y}]  BY <1>3, <2>4
  <2>8. val[y] = val2[y]  BY <2>4
  <2> QED  BY <2>5, <2>6, <2>7, <2>8
<1> QED  BY <1>4

\* One node more, or less, or another value for it.
LEMMA HeldStep ==
  ASSUME NEW S, IsFiniteSet(S), NEW val, \A x \in S : val[x] \in Nat, NEW y \in S,
         NEW val2, \A x \in S \ {y} : val2[x] = val[x]
  PROVE  /\ Held(val, S) \in Nat /\ Held(val2, S \ {y}) \in Nat
         /\ Held(val, S) = Bytes(val[y]) + Held(val2, S \ {y})
<1> DEFINE T == S \ {y}
           F == CHOOSE f : Weighs(f, val, S)
           G == CHOOSE f : Weighs(f, val2, T)
<1>1. IsFiniteSet(T) /\ T \in SUBSET (S \cap T) /\ \A x \in T : val2[x] \in Nat
  BY FS_Subset
<1> HIDE DEF T
<1>2. Weighs(F, val, S)  BY WeighsExists
<1>3. Weighs(G, val2, T)  BY <1>1, WeighsExists
<1>4. Held(val, S) = F[S] /\ Held(val2, T) = G[T]  BY DEF Held
<1> HIDE DEF F, G
<1>5. \A x \in T : val[x] = val2[x]  BY DEF T
<1>6. F[T] = G[T]  BY <1>1, <1>2, <1>3, <1>5, WeighsAlike
<1>7. F[S] \in Nat /\ F[S] = Bytes(val[y]) + F[T]
  BY <1>2, WeighsAny DEF T
<1>8. G[T] \in Nat  BY <1>1, <1>3, WeighsAny
<1> QED  BY <1>4, <1>6, <1>7, <1>8 DEF T

LEMMA HeldNone == ASSUME NEW val PROVE Held(val, {}) = 0
<1> DEFINE F == CHOOSE f : Weighs(f, val, {})
<1>1. IsFiniteSet({}) /\ \A x \in {} : val[x] \in Nat  BY FS_EmptySet
<1>2. Weighs(F, val, {})  BY <1>1, WeighsExists
<1> HIDE DEF F
<1>3. F[{}] = 0  BY <1>1, <1>2, WeighsAny
<1> QED  BY <1>3 DEF Held, F

\* Also with removals, as long as they are of keys that are there: each leaves
\* the eight bytes of a tranc_id behind.
SizeInv ==
  /\ ~ astray => size_bytes = Held(value, Present) + 8 * removed
  /\ astray => removed # 0

Inv == LinkInv /\ SizeInv

LEMMA PresentFinite ==
  ASSUME LinkInv
  PROVE  /\ IsFiniteSet(Present) /\ Present \subseteq Version
         /\ \A v \in Present : value[v] \in Nat /\ value[v] # None
<1> PICK bw : Links(bw)  BY DEF LinkInv
<1>1. IsFiniteSet(Reach(bw, 1)) /\ Reach(bw, 1) = Present  BY DEF Links, Sound
<1>2. value \in [Version -> Value \cup {None}]  BY DEF Links
<1>3. \A v \in Present : value[v] \in Value  BY <1>2 DEF Present
<1> QED  BY <1>1, <1>3, SkipListAssumption DEF Present

LEMMA OverwriteSize ==
  ASSUME Inv, ~ astray, NEW n \in Version, NEW x \in Value, Overwrite(n, x)
  PROVE  size_bytes' = Held(value', Present') + 8 * removed'
<1> DEFINE P == Present
<1>1. /\ n \in P /\ value' = [value EXCEPT ![n] = x]
      /\ size_bytes' = size_bytes + x - value[n] /\ removed' = removed
  BY DEF Overwrite, Present
<1>2. /\ IsFiniteSet(P) /\ P \subseteq Version
      /\ \A v \in P : value[v] \in Nat
  BY PresentFinite DEF Inv
<1>3. x \in Nat /\ KeyBytes \in Nat /\ removed \in Nat
      /\ value \in [Version -> Value \cup {None}] /\ x # None
  BY SkipListAssumption DEF Inv, LinkInv, Links
<1>4. P' = P  BY <1>1, <1>3 DEF Present
<1> HIDE DEF P
<1>5. value'[n] = x /\ \A v \in P \ {n} : value'[v] = value[v]
  BY <1>1, <1>2, <1>3
<1>6. PICK v2 : v2 = value'  OBVIOUS
<1>7. /\ Held(value, P) = Bytes(value[n]) + Held(value, P \ {n})
      /\ Held(value, P \ {n}) \in Nat
  BY <1>1, <1>2, HeldStep
<1>8. Held(v2, P) = Bytes(v2[n]) + Held(value, P \ {n})
  <2>1. \A v \in P : v2[v] \in Nat  BY <1>2, <1>3, <1>5, <1>6
  <2>2. \A v \in P \ {n} : value[v] = v2[v]  BY <1>5, <1>6
  <2> QED  BY <1>1, <1>2, <2>1, <2>2, HeldStep
<1>9. size_bytes = Held(value, P) + 8 * removed  BY DEF Inv, SizeInv, P
<1>10. size_bytes' = Held(v2, P) + 8 * removed'
  <2>1. PICK h, o, r \in Nat : /\ h = Held(value, P \ {n}) /\ o = value[n] /\ r = removed
    BY <1>1, <1>2, <1>3, <1>7
  <2>2. size_bytes = KeyBytes + o + 8 + h + 8 * r  BY <1>7, <1>9, <2>1 DEF Bytes
  <2>3. Held(v2, P) = KeyBytes + x + 8 + h  BY <1>5, <1>6, <1>8, <2>1 DEF Bytes
  <2>4. size_bytes' = size_bytes + x - o /\ removed' = r  BY <1>1, <2>1
  <2> QED  BY <1>3, <2>2, <2>3, <2>4
<1>11. size_bytes' = Held(value', P') + 8 * removed'  BY <1>4, <1>6, <1>10
<1> QED  BY <1>11 DEF P

LEMMA InsertSize ==
  ASSUME Inv, ~ astray, NEW n \in Version, NEW x \in Value,
         value[n] = None, Present' = Present \cup {n},
         value' = [value EXCEPT ![n] = x],
         size_bytes' = size_bytes + KeyBytes + x + 8, removed' = removed
  PROVE  size_bytes' = Held(value', Present') + 8 * removed'
<1> DEFINE P == Present
<1>1. /\ IsFiniteSet(P) /\ P \subseteq Version /\ n \notin P
      /\ \A v \in P : value[v] \in Nat
  BY PresentFinite DEF Inv, Present
<1>2. P' = P \cup {n}  OBVIOUS
<1>3. x \in Nat /\ KeyBytes \in Nat /\ removed \in Nat
      /\ value \in [Version -> Value \cup {None}]
  BY SkipListAssumption DEF Inv, LinkInv, Links
<1> HIDE DEF P
<1>4. value'[n] = x /\ \A v \in P : value'[v] = value[v]
  BY <1>1, <1>3
<1>5. PICK v2 : v2 = value'  OBVIOUS
<1> DEFINE S == P \cup {n}
<1>6. /\ IsFiniteSet(S) /\ n \in S /\ S \ {n} = P
      /\ \A v \in S : v2[v] \in Nat
      /\ \A v \in S \ {n} : value[v] = v2[v]
  BY <1>1, <1>3, <1>4, <1>5, FS_AddElement
<1> HIDE DEF S
<1>7. Held(v2, S) = Bytes(v2[n]) + Held(value, S \ {n}) /\ Held(value, S \ {n}) \in Nat
  BY <1>6, HeldStep
<1>8. size_bytes = Held(value, P) + 8 * removed  BY DEF Inv, SizeInv, P
<1>9. size_bytes' = Held(v2, S) + 8 * removed'
  <2>1. PICK h, r \in Nat : h = Held(value, P) /\ r = removed  BY <1>3, <1>6, <1>7
  <2>2. Held(v2, S) = KeyBytes + x + 8 + h  BY <1>4, <1>5, <1>6, <1>7, <2>1 DEF Bytes
  <2>3. size_bytes' = (h + 8 * r) + KeyBytes + x + 8 /\ removed' = r  BY <1>8, <2>1
  <2> QED  BY <1>3, <2>2, <2>3
<1>10. size_bytes' = Held(value', P') + 8 * removed'  BY <1>2, <1>5, <1>9 DEF S
<1> QED  BY <1>10 DEF P

LEMMA RemoveSize ==
  ASSUME Inv, ~ astray, NEW n \in Present, Present' = Present \ {n},
         value' = [value EXCEPT ![n] = None],
         size_bytes' = size_bytes - KeyBytes - value[n], removed' = removed + 1
  PROVE  size_bytes' = Held(value', Present') + 8 * removed'
<1> DEFINE P == Present
<1>1. /\ IsFiniteSet(P) /\ P \subseteq Version /\ n \in P
      /\ \A v \in P : value[v] \in Nat
  BY PresentFinite DEF Inv
<1>2. P' = P \ {n}  OBVIOUS
<1>3. KeyBytes \in Nat /\ removed \in Nat /\ value \in [Version -> Value \cup {None}]
  BY SkipListAssumption DEF Inv, LinkInv, Links
<1> HIDE DEF P
<1>4. PICK v2 : v2 = value'  OBVIOUS
<1>5. \A v \in P \ {n} : v2[v] = value[v]  BY <1>1, <1>3, <1>4
<1>6. /\ Held(value, P) = Bytes(value[n]) + Held(v2, P \ {n})
      /\ Held(v2, P \ {n}) \in Nat
  BY <1>1, <1>5, HeldStep
<1>7. size_bytes = Held(value, P) + 8 * removed  BY DEF Inv, SizeInv, P
<1>8. size_bytes' = Held(v2, P \ {n}) + 8 * removed'
  <2>1. PICK h, o, r \in Nat : h = Held(v2, P \ {n}) /\ o = value[n] /\ r = removed
    BY <1>1, <1>3, <1>6
  <2>2. size_bytes = (KeyBytes + o + 8 + h) + 8 * r  BY <1>6, <1>7, <2>1 DEF Bytes
  <2>3. size_bytes' = size_bytes - KeyBytes - o /\ removed' = r + 1  BY <2>1
  <2> QED  BY <1>3, <2>1, <2>2, <2>3
<1>9. size_bytes' = Held(value', P') + 8 * removed'  BY <1>2, <1>4, <1>8
<1> QED  BY <1>9 DEF P
-----------------------------------------------------------------------------
(* Every step keeps the invariant.                                         *)

LEMMA PutKeeps ==
  ASSUME Inv, NEW k \in Key, NEW x \in Value, NEW tr \in Tranc, put(k, x, tr)
  PROVE  Inv'
<1> DEFINE n == <<k, tr>>
<1>1. n \in Version  BY DEF Version
<1> HIDE DEF n
<1>2. ASSUME Overwrite(n, x) PROVE Inv'
  <2>1. LinkInv'  BY <1>1, <1>2, OverwriteLinks DEF Inv
  <2>2. removed' = removed /\ astray' = astray  BY <1>2 DEF Overwrite
  <2>3. ASSUME ~ astray PROVE size_bytes' = Held(value', Present') + 8 * removed'
    BY <1>1, <1>2, <2>3, OverwriteSize
  <2>4. SizeInv'  BY <2>2, <2>3 DEF Inv, SizeInv
  <2> QED  BY <2>1, <2>4 DEF Inv
<1>3. ASSUME NEW drawn \in Level,
             NEW new_level, new_level = IF drawn > current_level THEN drawn ELSE current_level,
             NEW top \in IF drawn > current_level THEN {drawn} ELSE 1 .. new_level,
             Insert(n, x, new_level, top)
      PROVE  Inv'
  <2>1. new_level \in Level /\ new_level >= current_level /\ top \in 1 .. new_level
    BY <1>3, SkipListAssumption DEF Inv, LinkInv, Links, Level
  <2>2. LinkInv' /\ value[n] = None /\ Present' = Present \cup {n}
    BY <1>1, <1>3, <2>1, InsertLinks DEF Inv
  <2>3. /\ value' = [value EXCEPT ![n] = x]
        /\ size_bytes' = size_bytes + KeyBytes + x + 8
        /\ removed' = removed /\ astray' = astray
    BY <1>3 DEF Insert
  <2>4. ASSUME ~ astray PROVE size_bytes' = Held(value', Present') + 8 * removed'
    BY <1>1, <2>2, <2>3, <2>4, InsertSize
  <2>5. SizeInv'  BY <2>3, <2>4 DEF Inv, SizeInv
  <2> QED  BY <2>2, <2>5 DEF Inv
<1>4. CASE \E drawn \in Level :
             LET new_level == IF drawn > current_level THEN drawn ELSE current_level
             IN  \E top \in IF drawn > current_level THEN {drawn} ELSE 1 .. new_level :
                   Insert(n, x, new_level, top)
  BY <1>3, <1>4
<1> QED  BY <1>2, <1>4 DEF put, n

LEMMA RemoveKeeps == ASSUME Inv, NEW k \in Key, remove(k) PROVE Inv'
<1> PICK n : n = First(k)  OBVIOUS
<1>1. CASE n # Nil
  <2>1. /\ LinkInv' /\ n \in Present
        /\ Present' = Present \ {n} /\ value' = [value EXCEPT ![n] = None]
        /\ size_bytes' = size_bytes - KeyBytes - value[n]
        /\ removed' = removed + 1 /\ astray' = astray
    BY <1>1, RemoveLinks DEF Inv
  <2>2. ASSUME ~ astray PROVE size_bytes' = Held(value', Present') + 8 * removed'
    BY <2>1, <2>2, RemoveSize
  <2>3. removed' # 0  BY <2>1, SkipListAssumption DEF Inv, LinkInv, Links
  <2>4. SizeInv'  BY <2>1, <2>2, <2>3 DEF SizeInv
  <2> QED  BY <2>1, <2>4 DEF Inv
<1>2. CASE n = Nil
  <2>1. LinkInv' /\ removed' = removed + 1 /\ astray'
    BY <1>2, MissLinks DEF Inv
  <2>2. removed' # 0  BY <2>1, SkipListAssumption DEF Inv, LinkInv, Links
  <2> QED  BY <2>1, <2>2 DEF Inv, SizeInv
<1> QED  BY <1>1, <1>2

LEMMA ClearKeeps ==
  ASSUME Inv, \/ clear
              \/ \E k \in Key : remove_crashes(k)
  PROVE  Inv'
<1>1. LinkInv' /\ Present' = {}  BY ClearLinks DEF Inv
<1>2. size_bytes' = 0 /\ removed' = 0 /\ astray' = FALSE  BY DEF clear, remove_crashes
<1>3. PICK v2 : v2 = value'  OBVIOUS
<1>4. Held(v2, {}) = 0  BY HeldNone
<1>5. SizeInv'  BY <1>1, <1>2, <1>3, <1>4 DEF SizeInv
<1> QED  BY <1>1, <1>5 DEF Inv

LEMMA InitInv == Init => Inv
<1> SUFFICES ASSUME Init PROVE Inv  OBVIOUS
<1>1. LinkInv  BY InitLinks
<1>2. Present = {}  BY DEF Init, Present
<1>3. size_bytes = 0 /\ removed = 0 /\ astray = FALSE  BY DEF Init
<1>4. Held(value, {}) = 0  BY HeldNone
<1> QED  BY <1>1, <1>2, <1>3, <1>4 DEF Inv, SizeInv

LEMMA StepInv == Inv /\ [Next]_vars => Inv'
<1> SUFFICES ASSUME Inv, [Next]_vars PROVE Inv'  OBVIOUS
<1>1. CASE \E k \in Key, x \in Value, tr \in Tranc : put(k, x, tr)  BY <1>1, PutKeeps
<1>2. CASE \E k \in Key : remove(k)  BY <1>2, RemoveKeeps
<1>3. CASE \E k \in Key : remove_crashes(k)  BY <1>3, ClearKeeps
<1>4. CASE clear  BY <1>4, ClearKeeps
<1>5. CASE UNCHANGED vars
  BY <1>5 DEF vars, Inv, LinkInv, Links, SizeInv, Present
<1> QED  BY <1>1, <1>2, <1>3, <1>4, <1>5 DEF Next

\* On every level the list is a chain of the nodes that reach it, in order;
\* until a key is removed that is not there it is linked both ways, and
\* size_bytes counts the nodes there are and eight bytes for each removal
\* (skiplist.cpp, put, remove and clear).
THEOREM InvAlways == Spec => []Inv
<1> QED  BY InitInv, StepInv, PTL DEF Spec

\* Whatever levels are drawn and nodes removed, the links forward are sound on
\* every level, and the links back mirror them until a key is removed that is
\* not there (skiplist.cpp, put and remove).
THEOREM LinksSound == Spec => []WellLinked
<1>1. Inv => WellLinked
  <2> SUFFICES ASSUME Inv PROVE WellLinked  OBVIOUS
  <2> PICK bw : Links(bw) /\ (~ astray => backward = bw)  BY DEF Inv, LinkInv
  <2>1. /\ Sound(forward, bw)
        /\ \A i \in Level : i > current_level => Reach(bw, i) = {}
    BY DEF Links
  <2>2. TypeOK  BY <2>1 DEF Inv, LinkInv, Links, Sound, TypeOK
  <2>3. \A i \in Level : /\ Chained(forward, bw, i, Reach(bw, i))
                         /\ Reach(bw, i) \in SUBSET Version
    BY <2>1 DEF Sound, Reach
  <2>4. \A i \in Level, m \in Node, n \in Version : forward[m][i] = n <=> bw[n][i] = m
    BY <2>1, Mirrored
  <2>5. ASSUME NEW i \in Level, NEW m \in Node, forward[m][i] # Nil
        PROVE  /\ m = head \/ Before(m, forward[m][i])
               /\ i <= current_level
               /\ \A l \in Node : forward[l][i] = forward[m][i] => l = m
               /\ i > 1 => \E l \in Node : forward[l][i - 1] = forward[m][i]
    <3> DEFINE f == forward[m][i]
    <3>1. f \in Reach(bw, i) /\ f \in Version /\ Before(m, f)
      BY <2>3, <2>5, ChainForward
    <3>2. i <= current_level
      <4>1. ~ (i > current_level)  BY <2>1, <3>1
      <4>2. i \in Nat /\ current_level \in Nat  BY LevelOne DEF Links
      <4> QED  BY <4>1, <4>2
    <3> HIDE DEF f
    <3>3. ASSUME NEW l \in Node, forward[l][i] = f PROVE l = m
      BY <2>4, <3>1, <3>3 DEF f
    <3>4. ASSUME i > 1 PROVE \E l \in Node : forward[l][i - 1] = f
      <4>1. i - 1 \in Level /\ i - 1 <= i  BY <3>4, SkipListAssumption DEF Level
      <4>2. Reach(bw, i) \subseteq Reach(bw, i - 1)  BY <2>1, <4>1 DEF Sound
      <4>3. f \in Node /\ f \in Reach(bw, i - 1)  BY <3>1, <4>2, Order
      <4>4. bw[f][i - 1] \in Node
        <5>1. bw[f][i - 1] # Nil  BY <4>3 DEF Reach
        <5>2. bw[f][i - 1] \in Node \cup {Nil}  BY <2>1, <4>1, <4>3 DEF Sound
        <5> QED  BY <5>1, <5>2
      <4>5. forward[bw[f][i - 1]][i - 1] = f  BY <2>4, <3>1, <4>1, <4>4
      <4> QED  BY <4>4, <4>5
    <3> QED  BY <3>1, <3>2, <3>3, <3>4 DEF f
  <2> QED  BY <2>2, <2>4, <2>5 DEF WellLinked
<1> QED  BY <1>1, InvAlways, PTL

\* size_bytes is what the nodes hold, as long as nothing was removed
\* (skiplist.cpp, put: the old value's size is taken off).
THEOREM ListSizeExact == Spec => []SizeExact
<1>1. Inv => SizeExact
  <2> SUFFICES ASSUME Inv, removed = 0
               PROVE  size_bytes = MapThenSumSet(LAMBDA v : KeyBytes + value[v] + 8, Present)
    BY DEF SizeExact
  <2>1. MapThenSumSet(LAMBDA v : KeyBytes + value[v] + 8, Present) = Held(value, Present)
    BY DEF MapThenSumSet, MapThenFoldSet, Held, Weighs, Bytes
  <2>2. size_bytes = Held(value, Present) + 8 * 0
    <3>1. ~ astray  BY DEF Inv, SizeInv
    <3> QED  BY <3>1 DEF Inv, SizeInv
  <2>3. Held(value, Present) \in Nat
    <3>1. CASE Present = {}  BY <3>1, HeldNone
    <3>2. CASE Present # {}
      <4>1. PICK y \in Present : TRUE  BY <3>2
      <4> QED  BY <4>1, PresentFinite, HeldStep DEF Inv
    <3> QED  BY <3>1, <3>2
  <2>4. size_bytes = Held(value, Present)  BY <2>2, <2>3
  <2> QED  BY <2>1, <2>4, Zenon
<1> QED  BY <1>1, InvAlways, PTL
-----------------------------------------------------------------------------
(* flush, and the map of versions.                                         *)

LEMMA ChainOne ==
  ASSUME NEW bw, Links(bw)
  PROVE  /\ Sound(forward, bw) /\ Present = Reach(bw, 1)
         /\ Present \in SUBSET Version /\ Present \subseteq Node
         /\ Chained(forward, bw, 1, Present)
<1>1. Sound(forward, bw) /\ Reach(bw, 1) = Present  BY DEF Links
<1>2. Chained(forward, bw, 1, Reach(bw, 1))  BY <1>1, LevelOne DEF Sound
<1>3. Present \in SUBSET Version  BY DEF Present
<1> QED  BY <1>1, <1>2, <1>3, Order

\* The places of the nodes of level 1 and of the null pointer behind them.
LevelOnePos(R, b) ==
  [n \in Node \cup {Nil} |-> IF n \in R \cup {head} THEN Pos(n) ELSE IF n = Nil THEN b ELSE 0]

LEMMA LevelOneClimbs ==
  ASSUME NEW bw, Links(bw)
  PROVE  \E b \in Nat :
           /\ LevelOnePos(Present, b) \in [Node \cup {Nil} -> Nat]
           /\ \A n \in Node :
                /\ forward[n][1] \in Node \cup {Nil}
                /\ LevelOnePos(Present, b)[n] < LevelOnePos(Present, b)[forward[n][1]]
                /\ LevelOnePos(Present, b)[forward[n][1]] <= b
<1>1. /\ Sound(forward, bw) /\ Present = Reach(bw, 1)
      /\ Present \in SUBSET Version /\ Chained(forward, bw, 1, Present)
  BY ChainOne
<1>2. PICK c \in Nat : \A x \in Present : Pos(x) <= c  BY <1>1, ReachBounded
<1>3. Pos(head) \in Nat /\ \A n \in Node : Pos(n) \in Nat  BY Order
<1>4. PICK b \in Nat : c < b /\ Pos(head) < b
  <2>1. c + Pos(head) + 1 \in Nat /\ c < c + Pos(head) + 1 /\ Pos(head) < c + Pos(head) + 1
    BY <1>3
  <2> QED  BY <2>1
<1> DEFINE pos == LevelOnePos(Present, b)
<1>5. Present \subseteq Node /\ head \in Node /\ Nil \notin Node /\ Nil \notin Present
  BY <1>1, Order
<1>6. \A n \in Node \cup {Nil} :
        pos[n] = IF n \in Present \cup {head} THEN Pos(n) ELSE IF n = Nil THEN b ELSE 0
  BY DEF LevelOnePos
<1>7. pos \in [Node \cup {Nil} -> Nat]  BY <1>3, <1>5 DEF LevelOnePos
<1> HIDE DEF pos
<1>8. ASSUME NEW n \in Node
      PROVE  /\ forward[n][1] \in Node \cup {Nil}
             /\ pos[n] < pos[forward[n][1]] /\ pos[forward[n][1]] <= b
  <2> DEFINE f == forward[n][1]
  <2>1. /\ f = Nil \/ f \in Version
        /\ f # Nil => n \in Present \cup {head} /\ f \in Present /\ Before(n, f)
    BY <1>1, ChainForward
  <2> HIDE DEF f
  <2>2. CASE f = Nil
    <3>1. pos[f] = b /\ pos[n] < b
      <4>1. pos[f] = b  BY <1>5, <1>6, <2>2, Order
      <4>2. n # Nil  BY <1>5
      <4>3. CASE n \in Present
        <5>1. pos[n] = Pos(n) /\ Pos(n) <= c /\ Pos(n) \in Nat  BY <1>2, <1>3, <1>6, <4>3
        <5> QED  BY <4>1, <5>1, <1>4
      <4>4. CASE n = head
        <5>1. pos[n] = Pos(head)  BY <1>5, <1>6, <4>4
        <5> QED  BY <4>1, <5>1, <1>4
      <4>5. CASE n \notin Present \cup {head}
        <5>1. pos[n] = 0  BY <1>6, <4>2, <4>5
        <5> QED  BY <4>1, <5>1, <1>3, <1>4
      <4> QED  BY <4>3, <4>4, <4>5
    <3> QED  BY <3>1, <2>2 DEF f
  <2>3. CASE f # Nil
    <3>1. f \in Present /\ f \in Node /\ n \in Present \cup {head} /\ Pos(n) < Pos(f)
      BY <1>5, <2>1, <2>3, Order
    <3>2. pos[f] = Pos(f) /\ pos[n] = Pos(n) /\ Pos(f) <= c  BY <1>2, <1>6, <3>1
    <3> QED  BY <3>1, <3>2, <1>3, <1>4 DEF f
  <2> QED  BY <2>2, <2>3
<1> QED  BY <1>7, <1>8 DEF pos

\* The recursive function in flush.
Flushes(go) ==
  go = [n \in Node \cup {Nil} |-> IF n = Nil THEN <<>> ELSE <<n>> \o go[forward[n][1]]]

\* What flush meets from node n on.
From(n) == {v \in Present : v = n \/ Before(n, v)}

LEMMA FlushMeets == ASSUME LinkInv PROVE Range(flush) = Present
<1> PICK bw : Links(bw)  BY DEF LinkInv
<1> DEFINE N == Node \cup {Nil}
           V == Seq(N)
           base == [n \in N |-> <<>>]
           step == [n \in N |-> [s \in V |-> <<n>> \o s]]
           next == [n \in N |-> IF n = Nil THEN n ELSE forward[n][1]]
           go == CHOOSE g : Flushes(g)
<1>1. PICK b \in Nat :
        /\ LevelOnePos(Present, b) \in [N -> Nat]
        /\ \A n \in Node : /\ forward[n][1] \in N
                           /\ LevelOnePos(Present, b)[n] < LevelOnePos(Present, b)[forward[n][1]]
                           /\ LevelOnePos(Present, b)[forward[n][1]] <= b
  BY LevelOneClimbs
<1> DEFINE pos == LevelOnePos(Present, b)
<1>2. /\ Nil \notin Node /\ head \in Node /\ Present \subseteq Node
      /\ Present \in SUBSET Version /\ Chained(forward, bw, 1, Present)
  BY Order, ChainOne
<1>3. PICK g \in [N -> V] : Solves(g, N, {Nil}, base, step, next)
  <2>1. base \in [N -> V]  OBVIOUS
  <2>2. step \in [N -> [V -> V]]
    <3>1. ASSUME NEW n \in N, NEW s \in V PROVE <<n>> \o s \in V
      <4>1. <<n>> \in Seq(N)  OBVIOUS
      <4> QED  BY <4>1, ConcatProperties
    <3> QED  BY <3>1
  <2>3. next \in [N -> N]  BY <1>1
  <2>4. \A n \in N \ {Nil} : pos[n] < pos[next[n]] /\ pos[next[n]] <= b  BY <1>1
  <2>5. pos \in [N -> Nat] /\ b \in Nat  BY <1>1
  <2> HIDE DEF N, V, base, step, next, pos
  <2> QED  BY <2>1, <2>2, <2>3, <2>4, <2>5, Descent
<1>4. Flushes(g)
  <2>1. g = [n \in N |-> IF n \in {Nil} THEN base[n] ELSE step[n][g[next[n]]]]
    BY <1>3 DEF Solves
  <2>2. ASSUME NEW n \in N
        PROVE  (IF n \in {Nil} THEN base[n] ELSE step[n][g[next[n]]])
               = IF n = Nil THEN <<>> ELSE <<n>> \o g[forward[n][1]]
    <3>1. CASE n = Nil  BY <3>1
    <3>2. CASE n # Nil
      <4>1. next[n] = forward[n][1] /\ forward[n][1] \in N  BY <3>2, <1>1
      <4>2. g[forward[n][1]] \in V  BY <4>1
      <4>3. step[n][g[forward[n][1]]] = <<n>> \o g[forward[n][1]]
        <5> HIDE DEF V
        <5> QED  BY <4>2
      <4> HIDE DEF step, next
      <4> QED  BY <3>2, <4>1, <4>3
    <3> QED  BY <3>1, <3>2
  <2> HIDE DEF base, step, next
  <2> QED  BY <2>1, <2>2, Zenon DEF Flushes
<1>5. Flushes(go)  BY <1>4
<1>6. flush = go[forward[head][1]]  BY DEF flush, Flushes
<1> HIDE DEF go
<1>7. /\ go[Nil] = <<>>
      /\ \A n \in Node : go[n] = <<n>> \o go[forward[n][1]]
  BY <1>2, <1>5 DEF Flushes
<1> DEFINE Bad == {n \in N : ~ (go[n] \in V /\ (n = Nil \/ n \in Present =>
                                   Range(go[n]) = IF n = Nil THEN {} ELSE From(n)))}
<1>8. Nil \notin Bad
  <2>1. <<>> \in V /\ Range(<<>>) = {}  BY DEF Range
  <2> QED  BY <1>7, <2>1
<1>9. ASSUME NEW n \in Bad PROVE forward[n][1] \in Bad
  <2>1. n \in Node  BY <1>8
  <2> DEFINE f == forward[n][1]
             s == go[f]
  <2>2. f \in N /\ go[n] = <<n>> \o s  BY <2>1, <1>1, <1>7
  <2>3. /\ f # Nil => n \in Present \cup {head} /\ f \in Present /\ Before(n, f)
        /\ n \in Present \cup {head} => \A v \in Present : Before(n, v) =>
             f # Nil /\ (v = f \/ Before(f, v))
    BY <2>1, <1>2, ChainForward
  <2> SUFFICES ASSUME f \notin Bad PROVE n \notin Bad
    OBVIOUS
  <2>4. s \in V /\ (f = Nil \/ f \in Present => Range(s) = IF f = Nil THEN {} ELSE From(f))
    BY <2>2
  <2> HIDE DEF f, s, Bad
  <2>5. <<n>> \o s \in V /\ ToSet(<<n>> \o s) = ToSet(s) \cup {n}
    BY <2>1, <2>4, PushFront
  <2>6. Range(<<n>> \o s) = Range(s) \cup {n}  BY <2>5 DEF Range, ToSet
  <2>7. ASSUME n \in Present PROVE Range(<<n>> \o s) = From(n)
    <3>1. Range(s) = IF f = Nil THEN {} ELSE From(f)  BY <2>3, <2>4
    <3>2. CASE f = Nil
      <4>1. From(n) = {n}  BY <2>3, <2>7, <3>2 DEF From
      <4> QED  BY <2>6, <3>1, <3>2, <4>1
    <3>3. CASE f # Nil
      <4>1. f \in Present /\ Before(n, f)  BY <2>3, <3>3
      <4>2. \A v \in Present : Before(f, v) => Before(n, v)
        BY <4>1, <2>1, <1>2, Linear
      <4>3. From(n) = From(f) \cup {n}  BY <2>3, <2>7, <4>1, <4>2 DEF From
      <4> QED  BY <2>6, <3>1, <3>3, <4>3
    <3> QED  BY <3>2, <3>3
  <2>8. n # Nil  BY <1>2, <2>1
  <2> QED  BY <2>2, <2>5, <2>7, <2>8 DEF Bad
<1>10. Bad = {}
  <2> DEFINE up == [n \in N |-> forward[n][1]]
  <2>1. ASSUME NEW x \in Bad
        PROVE  /\ up[x] \in Bad /\ pos[x] \in Nat /\ pos[up[x]] \in Nat
               /\ pos[x] < pos[up[x]] /\ pos[up[x]] <= b
    <3>1. x \in Node /\ forward[x][1] \in Bad /\ up[x] = forward[x][1] /\ up[x] \in N
      BY <1>1, <1>8, <1>9
    <3> HIDE DEF Bad, up
    <3> QED  BY <3>1, <1>1
  <2> HIDE DEF Bad, up, pos
  <2> QED  BY <1>1, <2>1, NoClimb
<1>11. Range(go[forward[head][1]]) = Present
  <2> DEFINE f == forward[head][1]
  <2>1. /\ f = Nil \/ f \in Version
        /\ f # Nil => f \in Present
        /\ \A v \in Present : Before(head, v) => f # Nil /\ (v = f \/ Before(f, v))
    BY <1>2, ChainForward
  <2>2. \A v \in Present : Before(head, v)  BY <1>2, Order
  <2>3. f \in N  BY <1>1, <1>2
  <2> HIDE DEF f
  <2>4. f \notin Bad  BY <1>10
  <2>5. Range(go[f]) = IF f = Nil THEN {} ELSE From(f)  BY <2>1, <2>3, <2>4
  <2>6. CASE f = Nil
    <3>1. Present = {}  BY <2>1, <2>2, <2>6
    <3> QED  BY <2>5, <2>6, <3>1 DEF f
  <2>7. CASE f # Nil
    <3>1. From(f) = Present  BY <2>1, <2>2, <2>7 DEF From
    <3> QED  BY <2>5, <2>7, <3>1 DEF f
  <2> QED  BY <2>6, <2>7
<1> QED  BY <1>6, <1>11

\* What is flushed is what was put.
LEMMA FlushedIs == Inv => Flushed = value
<1> SUFFICES ASSUME Inv PROVE Flushed = value  OBVIOUS
<1>1. Range(flush) = Present /\ value \in [Version -> Value \cup {None}]
  BY FlushMeets DEF Inv, LinkInv, Links
<1>2. Flushed = [v \in Version |-> IF v \in Present THEN value[v] ELSE None]
  BY <1>1 DEF Flushed
<1>3. \A v \in Version : v \notin Present => value[v] = None  BY DEF Present
<1> QED  BY <1>1, <1>2, <1>3

\* First is the newest version there is of a key.
NewestOf(K, x) == IF K = {} THEN x = Nil ELSE x \in K /\ \A v \in K : v[2] <= x[2]

LEMMA FirstNewest ==
  ASSUME NEW k \in Key, NEW K \in SUBSET Version, \A v \in K : v[1] = k, NEW x, IsFirst(K, x)
  PROVE  NewestOf(K, x)
<1>1. \A v \in K : v = <<k, v[2]>> /\ v[2] \in Nat
  BY NodeShape, Order, SkipListAssumption
<1> QED  BY <1>1, SkipListAssumption DEF IsFirst, IsLeast, NewestOf, Before

\* A set of transaction ids that is not empty has a newest.
LEMMA NewestTranc ==
  ASSUME NEW T \in SUBSET Tranc, NEW r \in T, \A q \in T : q <= r
  PROVE  (CHOOSE x \in T : \A q \in T : q <= x) = r
<1>1. T \subseteq Nat  BY SkipListAssumption DEF Tranc
<1>2. \A x \in T : (\A q \in T : q <= x) => x = r  BY <1>1
<1> QED  BY <1>2

LEMMA FlushedAlways == Spec => [](Flushed = value)
<1> QED  BY FlushedIs, InvAlways, PTL

\* put, remove and clear do to what flush meets what Write, DropNewest and
\* DropAll do to a map of versions, whatever levels are drawn (skiplist.cpp).
THEOREM ImplementsVersionMap == Spec => ImplementsMap
<1>1. Init /\ Flushed = value => Map!MapInit
  BY DEF Init, Map!MapInit, Map!Empty, Map!Version, Version
<1>2. ASSUME Inv, Inv', Flushed = value, (Flushed = value)', [Next]_vars
      PROVE  [Map!MapNext]_Flushed
  <2>1. ASSUME NEW k \in Key, NEW x \in Value, NEW tr \in Tranc, put(k, x, tr)
        PROVE  Map!MapNext
    <3>1. value' = [value EXCEPT ![<<k, tr>>] = x]
      BY <2>1 DEF put, Overwrite, Insert
    <3>2. <<k, tr>> \in Map!Version  BY DEF Map!Version
    <3>3. Map!Write(<<k, tr>>, x)  BY <1>2, <3>1 DEF Map!Write
    <3> QED  BY <3>2, <3>3 DEF Map!MapNext
  <2>2. ASSUME NEW k \in Key, remove(k), First(k) # Nil PROVE Map!MapNext
    <3> PICK bw : Links(bw)  BY <1>2 DEF Inv, LinkInv
    <3> DEFINE K == {v \in Present : v[1] = k}
               n == First(k)
               T == {r \in Tranc : value[<<k, r>>] # None}
    <3>1. IsFirst(K, n) /\ n \in Present /\ value' = [value EXCEPT ![n] = None]
      BY <1>2, <2>2, SearchSmaller, RemoveLinks DEF Inv
    <3> HIDE DEF n
    <3>2. NewestOf(K, n)  BY <3>1, FirstNewest DEF Present
    <3>3. n # Nil  BY <3>1, Order DEF Present
    <3>4. n \in K /\ \A v \in K : v[2] <= n[2]  BY <3>2, <3>3 DEF NewestOf
    <3>5. n = <<k, n[2]>> /\ n[2] \in T /\ n \in Version
      BY <3>4 DEF Present, Version
    <3>6. \A r \in T : <<k, r>> \in K  BY DEF Present, Version
    <3>7. \A r \in T : r <= n[2]  BY <3>4, <3>6
    <3>8. (CHOOSE r \in T : \A q \in T : q <= r) = n[2]
      BY <3>5, <3>7, NewestTranc
    <3>9. Map!Readable(Flushed, k, 0) = T
      BY <1>2 DEF Map!Readable
    <3> HIDE DEF T
    <3>10. Map!Read(Flushed, k, 0) = n
      BY <3>5, <3>8, <3>9 DEF Map!Read, Map!Newest
    <3>11. n # None  BY <3>5, SkipListAssumption
    <3>12. Map!DropNewest(k)
      BY <1>2, <3>1, <3>10, <3>11 DEF Map!DropNewest
    <3> QED  BY <3>12 DEF Map!MapNext
  <2>3. ASSUME NEW k \in Key, remove(k), First(k) = Nil PROVE UNCHANGED Flushed
    <3>1. value' = value  BY <1>2, <2>3, MissLinks DEF Inv
    <3> QED  BY <1>2, <3>1
  <2>4. ASSUME clear \/ \E k \in Key : remove_crashes(k) PROVE Map!MapNext
    <3>1. value' = [v \in Version |-> None]  BY <2>4 DEF clear, remove_crashes
    <3>2. Map!DropAll
      BY <1>2, <3>1 DEF Map!DropAll, Map!Empty, Map!Version, Version
    <3> QED  BY <3>2 DEF Map!MapNext
  <2>5. ASSUME UNCHANGED vars PROVE UNCHANGED Flushed
    BY <1>2, <2>5 DEF vars
  <2> QED  BY <1>2, <2>1, <2>2, <2>3, <2>4, <2>5 DEF Next
<1> QED
  BY <1>1, <1>2, InvAlways, FlushedAlways, PTL DEF Spec, ImplementsMap, Map!MapSpec
-----------------------------------------------------------------------------
(* get.                                                                    *)

\* The recursive function in get, on the links fw.
Gets(go, fw, k, tr) ==
  go = [n \in Node \cup {Nil} |-> IF n = Nil \/ n[1] # k THEN Nil
                                  ELSE IF tr = 0 \/ n[2] <= tr THEN n
                                  ELSE go[fw[n][1]]]

\* The versions of a key that a reader may see.
Readable(k, tr) == {v \in Present : v[1] = k /\ (tr = 0 \/ v[2] <= tr)}

\* get walks from the newest version of a key to the first that is readable.
LEMMA GetFirst ==
  ASSUME LinkInv, NEW k \in Key, NEW tr \in Tranc
  PROVE  IsFirst(Readable(k, tr), get(k, tr))
<1> PICK bw : Links(bw)  BY DEF LinkInv
<1> DEFINE N == Node \cup {Nil}
           stop == {n \in N : n = Nil \/ n[1] # k \/ tr = 0 \/ n[2] <= tr}
           base == [n \in N |-> IF n = Nil \/ n[1] # k THEN Nil ELSE n]
           step == [n \in N |-> [x \in N |-> x]]
           next == [n \in N |-> IF n = Nil THEN n ELSE forward[n][1]]
           go == CHOOSE g : Gets(g, forward, k, tr)
           Rest(n) == {v \in Readable(k, tr) : v = n \/ Before(n, v)}
<1>1. PICK b \in Nat :
        /\ LevelOnePos(Present, b) \in [N -> Nat]
        /\ \A n \in Node : /\ forward[n][1] \in N
                           /\ LevelOnePos(Present, b)[n] < LevelOnePos(Present, b)[forward[n][1]]
                           /\ LevelOnePos(Present, b)[forward[n][1]] <= b
  BY LevelOneClimbs
<1> DEFINE pos == LevelOnePos(Present, b)
<1>2. /\ Nil \notin Node /\ head \in Node /\ Present \subseteq Node
      /\ Present \in SUBSET Version /\ Chained(forward, bw, 1, Present)
  BY Order, ChainOne
<1>3. PICK g \in [N -> N] : Solves(g, N, stop, base, step, next)
  <2>1. base \in [N -> N] /\ step \in [N -> [N -> N]]  OBVIOUS
  <2>2. next \in [N -> N]  BY <1>1
  <2>3. \A n \in N \ stop : pos[n] < pos[next[n]] /\ pos[next[n]] <= b  BY <1>1
  <2>4. pos \in [N -> Nat] /\ b \in Nat  BY <1>1
  <2> HIDE DEF N, stop, base, step, next, pos
  <2> QED  BY <2>1, <2>2, <2>3, <2>4, Descent
<1>4. Gets(g, forward, k, tr)
  <2>1. g = [n \in N |-> IF n \in stop THEN base[n] ELSE step[n][g[next[n]]]]
    BY <1>3 DEF Solves
  <2>2. ASSUME NEW n \in N
        PROVE  (IF n \in stop THEN base[n] ELSE step[n][g[next[n]]])
               = IF n = Nil \/ n[1] # k THEN Nil
                 ELSE IF tr = 0 \/ n[2] <= tr THEN n ELSE g[forward[n][1]]
    <3>1. CASE n \in stop  BY <3>1
    <3>2. CASE n \notin stop
      <4>1. n # Nil /\ next[n] = forward[n][1] /\ forward[n][1] \in N  BY <3>2, <1>1
      <4>2. g[forward[n][1]] \in N  BY <4>1
      <4>3. step[n][g[forward[n][1]]] = g[forward[n][1]]
        <5> HIDE DEF N
        <5> QED  BY <4>2
      <4>4. ~ (n = Nil \/ n[1] # k) /\ ~ (tr = 0 \/ n[2] <= tr)  BY <3>2
      <4> HIDE DEF step, next, stop
      <4> QED  BY <3>2, <4>1, <4>3, <4>4
    <3> QED  BY <3>1, <3>2
  <2> HIDE DEF base, step, next, stop
  <2> QED  BY <2>1, <2>2, Zenon DEF Gets
<1>5. Gets(go, forward, k, tr)  BY <1>4
<1>6. get(k, tr) = go[First(k)]  BY DEF get, Gets
<1> HIDE DEF go
<1>7. ASSUME NEW n \in N
      PROVE  go[n] = IF n = Nil \/ n[1] # k THEN Nil
                     ELSE IF tr = 0 \/ n[2] <= tr THEN n ELSE go[forward[n][1]]
  BY <1>5 DEF Gets
<1> DEFINE Bad == {n \in Present : n[1] = k /\ ~ IsFirst(Rest(n), go[n])}
<1>8. ASSUME NEW n \in Bad PROVE forward[n][1] \in Bad
  <2> DEFINE f == forward[n][1]
  <2>1. n \in Present /\ n \in Node /\ n \in N /\ n # Nil /\ n[1] = k  BY <1>2
  <2>2. /\ f = Nil \/ f \in Version
        /\ f # Nil => f \in Present /\ Before(n, f)
        /\ \A v \in Present : Before(n, v) => f # Nil /\ (v = f \/ Before(f, v))
    BY <2>1, <1>2, ChainForward
  <2>3. f \in N  BY <1>1, <2>1
  <2>4. ~ IsFirst(Rest(n), go[n])  OBVIOUS
  <2> HIDE DEF f
  <2>5. ~ (tr = 0 \/ n[2] <= tr)
    <3> SUFFICES ASSUME tr = 0 \/ n[2] <= tr PROVE IsFirst(Rest(n), go[n])
      BY <2>4
    <3>1. go[n] = n  BY <2>1, <1>7
    <3>2. n \in Rest(n)  BY <2>1 DEF Readable
    <3> QED  BY <3>1, <3>2 DEF IsFirst, IsLeast
  <2>6. go[n] = go[f]  BY <2>1, <2>5, <1>7 DEF f
  <2>7. Rest(n) = {v \in Readable(k, tr) : Before(n, v)}  BY <2>5 DEF Readable
  <2>8. f # Nil /\ f[1] = k
    <3> SUFFICES ASSUME f = Nil \/ f[1] # k PROVE IsFirst(Rest(n), go[n])
      BY <2>4
    <3>1. go[n] = Nil  BY <2>3, <2>6, <1>7
    <3>2. Rest(n) = {}
      <4> SUFFICES ASSUME NEW v \in Present, v[1] = k, Before(n, v) PROVE FALSE
        BY <2>7 DEF Readable
      <4>1. f # Nil /\ (v = f \/ Before(f, v)) /\ f[1] # k  BY <2>2
      <4>2. f \in Present /\ Before(n, f)  BY <2>2, <4>1
      <4>3. n[1] \in Nat /\ f[1] \in Nat /\ v[1] \in Nat  BY <1>2, <2>1, <4>2, NodeShape
      <4> QED  BY <2>1, <4>1, <4>2, <4>3 DEF Before
    <3> QED  BY <3>1, <3>2 DEF IsFirst
  <2>9. Rest(n) = Rest(f)
    <3>1. \A v \in Present : Before(f, v) => Before(n, v)
      BY <2>1, <2>2, <2>8, <1>2, Linear
    <3> QED  BY <2>2, <2>7, <2>8, <3>1 DEF Readable
  <2>10. f \in Present /\ ~ IsFirst(Rest(f), go[f])  BY <2>2, <2>4, <2>6, <2>8, <2>9
  <2> QED  BY <2>8, <2>10 DEF f
<1>9. Bad = {}
  <2> DEFINE up == [n \in N |-> forward[n][1]]
  <2>1. ASSUME NEW x \in Bad
        PROVE  /\ up[x] \in Bad /\ pos[x] \in Nat /\ pos[up[x]] \in Nat
               /\ pos[x] < pos[up[x]] /\ pos[up[x]] <= b
    <3>1. x \in Node /\ forward[x][1] \in Bad /\ up[x] = forward[x][1] /\ up[x] \in N
      BY <1>1, <1>2, <1>8
    <3> HIDE DEF Bad, up
    <3> QED  BY <3>1, <1>1
  <2> HIDE DEF Bad, up, pos
  <2> QED  BY <1>1, <2>1, NoClimb
<1> DEFINE K == {v \in Present : v[1] = k}
           x == First(k)
<1>10. IsFirst(K, x)  BY SearchSmaller
<1> HIDE DEF x
<1>11. CASE K = {}
  <2>1. x = Nil /\ go[Nil] = Nil  BY <1>7, <1>10, <1>11 DEF IsFirst
  <2>2. Readable(k, tr) = {}  BY <1>11 DEF Readable
  <2> QED  BY <1>6, <2>1, <2>2 DEF x, IsFirst
<1>12. CASE K # {}
  <2>1. x \in Present /\ x[1] = k /\ \A v \in K : v = x \/ Before(x, v)
    BY <1>10, <1>12 DEF IsFirst, IsLeast
  <2>2. x \notin Bad  BY <1>9
  <2>3. IsFirst(Rest(x), go[x])  BY <2>1, <2>2
  <2>4. Rest(x) = Readable(k, tr)  BY <2>1 DEF Readable
  <2> QED  BY <1>6, <2>3, <2>4 DEF x
<1> QED  BY <1>11, <1>12

\* get finds the newest version of a key that a reader may see, however the
\* levels were drawn and nodes removed (skiplist.cpp, SkipList::get).
THEOREM GetsFindNewest == Spec => []GetsNewest
<1>1. Inv => GetsNewest
  <2> SUFFICES ASSUME Inv, NEW k \in Key, NEW tr \in Tranc
               PROVE  LET seen == {r \in Tranc : value[<<k, r>>] # None /\ (tr = 0 \/ r <= tr)}
                      IN  get(k, tr) = IF seen = {} THEN Nil
                                       ELSE <<k, CHOOSE r \in seen : \A q \in seen : q <= r>>
    BY DEF GetsNewest
  <2> DEFINE seen == {r \in Tranc : value[<<k, r>>] # None /\ (tr = 0 \/ r <= tr)}
             K == Readable(k, tr)
             x == get(k, tr)
  <2>1. K \in SUBSET Version /\ \A v \in K : v[1] = k  BY DEF Readable, Present
  <2>2. IsFirst(K, x)  BY GetFirst DEF Inv
  <2>3. \A v \in K : v = <<k, v[2]>> /\ v[2] \in seen  BY DEF Readable, Present, Version
  <2>4. \A r \in seen : <<k, r>> \in K  BY DEF Readable, Present, Version
  <2> HIDE DEF K, x
  <2>5. NewestOf(K, x)  BY <2>1, <2>2, FirstNewest
  <2>6. CASE K = {}
    <3>1. seen = {} /\ x = Nil  BY <2>4, <2>5, <2>6 DEF NewestOf
    <3> QED  BY <3>1 DEF x
  <2>7. CASE K # {}
    <3>1. x \in K /\ \A v \in K : v[2] <= x[2]  BY <2>5, <2>7 DEF NewestOf
    <3>2. x[2] \in seen /\ x = <<k, x[2]>>  BY <2>3, <3>1
    <3>3. \A r \in seen : r <= x[2]  BY <2>4, <3>1
    <3>4. seen \in SUBSET Tranc  OBVIOUS
    <3> HIDE DEF seen
    <3>5. (CHOOSE r \in seen : \A q \in seen : q <= r) = x[2]
      BY <3>2, <3>3, <3>4, NewestTranc
    <3>6. seen # {}  BY <3>2
    <3> QED  BY <3>2, <3>5, <3>6 DEF seen, x
  <2> QED  BY <2>6, <2>7
<1> QED  BY <1>1, InvAlways, PTL
-----------------------------------------------------------------------------
(* The range query.                                                        *)

\* The predicate on keys that stands for the range lo..hi.
InRange(lo, hi) == [k \in Key |-> IF k < lo THEN 1 ELSE IF k > hi THEN -1 ELSE 0]

Hits(lo, hi) == {n \in Version : n[1] \in lo .. hi}

LeftOf(lo) == {n \in Version : n[1] < lo}

LEMMA RangeParts ==
  ASSUME NEW lo \in Key, NEW hi \in Key
  PROVE  /\ {n \in Version : InRange(lo, hi)[n[1]] = 0} = Hits(lo, hi)
         /\ {n \in Version : InRange(lo, hi)[n[1]] > 0} = LeftOf(lo)
         /\ \A n \in Version : InRange(lo, hi)[n[1]] < 0 => n[1] > hi
         /\ LeftPart(LeftOf(lo)) /\ Hits(lo, hi) \in SUBSET Node
         /\ head \notin Hits(lo, hi)
<1>1. lo \in Nat /\ hi \in Nat /\ \A n \in Version : n[1] \in Key /\ n[1] \in Nat
  BY SkipListAssumption DEF Version
<1>2. \A n \in Version : InRange(lo, hi)[n[1]] = IF n[1] < lo THEN 1
                                                 ELSE IF n[1] > hi THEN -1 ELSE 0
  BY <1>1 DEF InRange
<1>3. {n \in Version : InRange(lo, hi)[n[1]] = 0} = Hits(lo, hi)
  BY <1>1, <1>2 DEF Hits
<1>4. {n \in Version : InRange(lo, hi)[n[1]] > 0} = LeftOf(lo)
  BY <1>1, <1>2 DEF LeftOf
<1>5. \A n \in Version : InRange(lo, hi)[n[1]] < 0 => n[1] > hi
  BY <1>1, <1>2
<1>6. \A u, w \in Version : Before(u, w) => u[1] <= w[1]
  BY <1>1 DEF Before
<1>7. LeftPart(LeftOf(lo))
  BY <1>1, <1>6, Order DEF LeftPart, LeftOf
<1>8. Hits(lo, hi) \in SUBSET Node /\ head \notin Hits(lo, hi)
  BY Order DEF Hits
<1> QED  BY <1>3, <1>4, <1>5, <1>7, <1>8

\* The levels on which a search ends before a node of H.
MetOn(at, H) == {i \in 1 .. current_level : forward[at[i]][i] \in H}

\* The descent meets a node of the range on some level if the list has one:
\* at the latest on the lowest.
LEMMA RangeMet ==
  ASSUME NEW bw, Links(bw), NEW lo \in Key, NEW hi \in Key, NEW at,
         at = Search(current_level, LeftOf(lo))
  PROVE  /\ MetOn(at, Hits(lo, hi)) = {} <=> Present \cap Hits(lo, hi) = {}
         /\ \A i \in MetOn(at, Hits(lo, hi)) : forward[at[i]][i] \in Present \cap Hits(lo, hi)
<1> DEFINE S == LeftOf(lo)
           H == Hits(lo, hi)
           found == MetOn(at, H)
<1>1. /\ Sound(forward, bw) /\ Present = Reach(bw, 1)
      /\ current_level \in Level /\ LeftPart(S)
  BY ChainOne, RangeParts DEF Links
<1>2. \A i \in 1 .. current_level :
        IsFirst(Reach(bw, i) \ S, forward[at[i]][i])
  BY <1>1, SearchFinds DEF Search
<1>3. /\ 1 \in 1 .. current_level /\ 1 .. current_level \subseteq Level
      /\ \A i \in 1 .. current_level : 1 <= i
  BY <1>1, SkipListAssumption DEF Level
<1>4. ASSUME NEW i \in found PROVE forward[at[i]][i] \in Present \cap H
  <2>1. i \in 1 .. current_level /\ forward[at[i]][i] \in H  BY DEF MetOn
  <2>2. forward[at[i]][i] # Nil  BY <2>1, Order DEF Hits
  <2>3. forward[at[i]][i] \in Reach(bw, i)
    BY <1>2, <2>1, <2>2 DEF IsFirst, IsLeast
  <2>4. Reach(bw, i) \subseteq Reach(bw, 1)
    BY <1>1, <1>3, <2>1 DEF Sound
  <2> QED  BY <1>1, <2>1, <2>3, <2>4
<1>5. ASSUME NEW v \in Present \cap H PROVE 1 \in found
  <2> DEFINE f == forward[at[1]][1]
  <2>1. /\ lo \in Nat /\ hi \in Nat /\ \A n \in Version : n[1] \in Nat
        /\ Present \subseteq Version
    BY SkipListAssumption DEF Version, Present
  <2>2. IsFirst(Present \ S, f)  BY <1>1, <1>2, <1>3
  <2> HIDE DEF f
  <2>3. v \in Present \ S /\ v[1] <= hi  BY <2>1 DEF Hits, LeftOf
  <2>4. f \in Present \ S /\ (v = f \/ Before(f, v))
    BY <2>2, <2>3 DEF IsFirst, IsLeast
  <2>5. f[1] <= v[1]  BY <2>1, <2>3, <2>4 DEF Before
  <2>6. f \in Version /\ f[1] \in lo .. hi  BY <2>1, <2>3, <2>4, <2>5 DEF LeftOf
  <2> QED  BY <1>3, <2>6 DEF f, Hits, MetOn
<1> QED  BY <1>4, <1>5

\* Where the walk to the left from a node of the range ends: on every level in
\* the range with nothing of it to the left, on the lowest at its first node.
LEMMA RangeLeft ==
  ASSUME NEW bw, Links(bw), NEW lo \in Key, NEW hi \in Key, NEW n \in Present \cap Hits(lo, hi),
         NEW left, left = Walk(bw, n, MaxLevel, Hits(lo, hi))
  PROVE  /\ \A i \in Level : bw[left[i]][i] \in {Nil, head} \cup LeftOf(lo)
         /\ IsLeast(Present \cap Hits(lo, hi), left[1])
<1> DEFINE H == Hits(lo, hi)
           R(i) == Reach(bw, i)
<1>1. /\ Sound(forward, bw) /\ Present = R(1)
      /\ Present \in SUBSET Version /\ Present \subseteq Node
  BY ChainOne
<1>2. H \in SUBSET Node /\ head \notin H /\ H \subseteq Version
  BY RangeParts DEF Hits
<1>3. lo \in Nat /\ hi \in Nat /\ \A v \in Version : v[1] \in Nat
  BY SkipListAssumption DEF Version
<1>4. \A i \in Level : EndsLeft(bw, n, i, H, left[i])
  BY <1>1, <1>2, WalkLeft, LevelOne DEF Level
<1>5. \A i \in Level : R(i) \in SUBSET Version /\ R(i) \subseteq Present
  BY <1>1, LevelOne DEF Sound, Reach, Level
<1>6. \A v \in Version : v \in H <=> lo <= v[1] /\ v[1] <= hi  BY <1>3 DEF Hits
<1>7. \A u, w \in Version : Before(u, w) => u[1] <= w[1]  BY <1>3 DEF Before
<1>8. ASSUME NEW i \in Level
      PROVE  /\ left[i] \in Present \cap H /\ left[i] \in Node
             /\ bw[left[i]][i] \notin H
             /\ bw[left[i]][i] \in {Nil, head} \cup LeftOf(lo)
  <2> DEFINE x == left[i]
             y == bw[x][i]
  <2>1. /\ x \in Node /\ y \notin H \ {head}
        /\ x = n \/ x \in R(i) \cap H
    BY <1>4 DEF EndsLeft
  <2>2. Chained(forward, bw, i, R(i))  BY <1>1 DEF Sound
  <2> HIDE DEF x
  <2>3. x \in Present \cap H  BY <1>5, <2>1
  <2>4. y # Nil => x \in R(i) /\ y \in R(i) \cup {head} /\ Before(y, x)
    <3> HIDE DEF R
    <3> QED  BY <1>5, <2>1, <2>2, ChainBackward
  <2> HIDE DEF y, R
  <2>5. y \notin H  BY <1>2, <2>1
  <2>6. y \notin {Nil, head} => y \in LeftOf(lo)
    <3> SUFFICES ASSUME y \notin {Nil, head} PROVE y \in LeftOf(lo)  OBVIOUS
    <3>1. y \in Version /\ Before(y, x)  BY <2>4, <1>5
    <3>2. y[1] <= x[1] /\ x[1] <= hi  BY <3>1, <2>3, <1>1, <1>6, <1>7
    <3>3. y[1] < lo  BY <3>1, <3>2, <2>3, <2>5, <1>1, <1>3, <1>6
    <3> QED  BY <3>1, <3>3 DEF LeftOf
  <2> QED  BY <2>1, <2>3, <2>5, <2>6 DEF x, y
<1>9. IsLeast(Present \cap H, left[1])
  <2> DEFINE x == left[1]
             y == bw[x][1]
  <2>1. x \in Present \cap H /\ x \in Node /\ y \notin H  BY <1>8, LevelOne
  <2> HIDE DEF x
  <2> SUFFICES ASSUME NEW v \in Present \cap H, v # x PROVE Before(x, v)
    BY <2>1 DEF IsLeast, x
  <2>2. Chained(forward, bw, 1, Present)  BY ChainOne
  <2>3. /\ y \in Present \cup {head} /\ Before(y, x)
        /\ Before(v, x) => v = y \/ Before(v, y)
    BY <1>1, <2>1, <2>2, ChainBackward
  <2> HIDE DEF y
  <2>4. ASSUME Before(v, x) PROVE FALSE
    <3>1. Before(v, y)  BY <2>1, <2>3, <2>4
    <3>2. y \in Version /\ v \in Version /\ x \in Version
      BY <1>1, <2>1, <2>3, <3>1, Linear
    <3>3. lo <= v[1] /\ v[1] <= y[1] /\ y[1] <= x[1] /\ x[1] <= hi
      BY <2>1, <2>3, <3>1, <3>2, <1>6, <1>7
    <3> QED  BY <2>1, <3>2, <3>3, <1>3, <1>6
  <2> QED  BY <2>4, <1>1, <2>1, Linear
<1> QED  BY <1>8, <1>9

\* And the walk to the right: on the lowest level the next node is the first
\* behind the range.
LEMMA RangeRight ==
  ASSUME NEW bw, Links(bw), NEW lo \in Key, NEW hi \in Key, NEW n \in Present \cap Hits(lo, hi),
         NEW right, right = Walk(forward, n, MaxLevel, Hits(lo, hi))
  PROVE  /\ \A i \in Level : forward[right[i]][i] # Nil =>
              forward[right[i]][i] \in Version \ LeftOf(lo)
         /\ IsFirst({v \in Present : v[1] > hi}, forward[right[1]][1])
<1> DEFINE H == Hits(lo, hi)
           R(i) == Reach(bw, i)
<1>1. /\ Sound(forward, bw) /\ Present = R(1)
      /\ Present \in SUBSET Version /\ Present \subseteq Node
  BY ChainOne
<1>2. H \in SUBSET Node /\ head \notin H /\ H \subseteq Version
  BY RangeParts DEF Hits
<1>3. lo \in Nat /\ hi \in Nat /\ \A v \in Version : v[1] \in Nat
  BY SkipListAssumption DEF Version
<1>4. \A i \in Level : EndsRight(forward, bw, n, i, H, right[i])
  BY <1>1, <1>2, WalkRight, LevelOne DEF Level
<1>5. \A i \in Level : R(i) \in SUBSET Version /\ R(i) \subseteq Present
  BY <1>1, LevelOne DEF Sound, Reach, Level
<1>6. \A v \in Version : v \in H <=> lo <= v[1] /\ v[1] <= hi  BY <1>3 DEF Hits
<1>7. \A u, w \in Version : Before(u, w) => u[1] <= w[1]  BY <1>3 DEF Before
<1>8. ASSUME NEW i \in Level
      PROVE  /\ right[i] \in Present \cap H /\ right[i] \in Node
             /\ forward[right[i]][i] # Nil =>
                  /\ forward[right[i]][i] \in R(i) /\ forward[right[i]][i] \in Version
                  /\ forward[right[i]][i][1] > hi /\ forward[right[i]][i][1] >= lo
  <2> DEFINE x == right[i]
             y == forward[x][i]
  <2>1. /\ x \in Node /\ y \notin H \ {head}
        /\ x = n \/ x \in R(i) \cap H
    BY <1>4 DEF EndsRight
  <2>2. Chained(forward, bw, i, R(i))  BY <1>1 DEF Sound
  <2> HIDE DEF x
  <2>3. x \in Present \cap H  BY <1>5, <2>1
  <2>4. y # Nil => y \in R(i) /\ Before(x, y)
    <3> HIDE DEF R
    <3> QED  BY <1>5, <2>1, <2>2, ChainForward
  <2> HIDE DEF y, R
  <2>5. y \notin H  BY <1>2, <2>1
  <2>6. ASSUME y # Nil PROVE y \in Version /\ y[1] > hi /\ y[1] >= lo
    <3>1. y \in Version /\ Before(x, y) /\ x \in Version  BY <2>3, <2>4, <2>6, <1>1, <1>5
    <3>2. x[1] <= y[1] /\ lo <= x[1]  BY <3>1, <2>3, <1>6, <1>7
    <3> QED  BY <3>1, <3>2, <2>5, <1>3, <1>6
  <2> QED  BY <2>1, <2>3, <2>4, <2>6 DEF x, y
<1>9. IsFirst({v \in Present : v[1] > hi}, forward[right[1]][1])
  <2> DEFINE x == right[1]
             y == forward[x][1]
             B == {v \in Present : v[1] > hi}
  <2>1. /\ x \in Present \cap H /\ x \in Node
        /\ y # Nil => y \in B
    BY <1>1, <1>8, LevelOne
  <2> HIDE DEF x
  <2>2. Chained(forward, bw, 1, Present)  BY ChainOne
  <2>3. \A v \in Present : Before(x, v) => y # Nil /\ (v = y \/ Before(y, v))
    BY <1>1, <2>1, <2>2, ChainForward
  <2> HIDE DEF y
  <2>4. \A v \in B : Before(x, v)
    BY <1>1, <1>3, <1>6, <2>1 DEF Before
  <2>5. \A v \in B : y # Nil /\ (v = y \/ Before(y, v))  BY <2>3, <2>4
  <2> QED  BY <2>1, <2>5 DEF IsFirst, IsLeast, x, y
<1>10. ASSUME NEW i \in Level, forward[right[i]][i] # Nil
       PROVE  forward[right[i]][i] \in Version \ LeftOf(lo)
  <2> DEFINE y == forward[right[i]][i]
  <2>1. y \in Version /\ y[1] >= lo  BY <1>8, <1>10
  <2> HIDE DEF y
  <2>2. y \notin LeftOf(lo)  BY <2>1, <1>3 DEF LeftOf
  <2> QED  BY <2>1, <2>2 DEF y
<1> QED  BY <1>9, <1>10

LEMMA LeastChosen ==
  ASSUME NEW S \in SUBSET Node, NEW x, IsLeast(S, x)
  PROVE  (CHOOSE v \in S : \A w \in S \ {v} : Before(v, w)) = x
<1>1. x \in S /\ \A w \in S \ {x} : Before(x, w)  BY DEF IsLeast
<1>2. \A v \in S : (\A w \in S \ {v} : Before(v, w)) => v = x
  BY <1>1, Linear
<1> QED  BY <1>1, <1>2

LEMMA GreatestChosen ==
  ASSUME NEW c \in Nat, NEW S \in SUBSET (1 .. c), S # {}
  PROVE  (CHOOSE i \in S : \A j \in S : j <= i) \in S
<1> DEFINE D == {c - i : i \in S}
<1>1. D \in SUBSET Nat /\ D # {}
  <2>1. \A i \in S : i \in 1 .. c  OBVIOUS
  <2>2. \A i \in 1 .. c : c - i \in Nat  OBVIOUS
  <2> QED  BY <2>1, <2>2
<1>2. PICK d \in D : \A e \in D : d <= e
  <2> HIDE DEF D
  <2> QED  BY <1>1, NatMin
<1>3. PICK i \in S : d = c - i  OBVIOUS
<1>4. \A j \in S : c - i <= c - j  BY <1>2, <1>3
<1>5. \A j \in S : j <= i  BY <1>4
<1> QED  BY <1>5

\* A range query returns the first node of the range and the node behind its
\* last, on whatever level and wherever in the range the descent met it, and
\* does not throw, until a key is removed that is not there (skiplist.cpp,
\* iters_monotony_predicate and remove).
THEOREM RangesComplete == Spec => []RangeExact
<1>1. ASSUME Inv, ~ astray, NEW lo \in Key, NEW hi \in Key
      PROVE  iters_monotony_predicate(InRange(lo, hi)) = Between(lo, hi)
  <2> PICK bw : Links(bw) /\ backward = bw  BY <1>1 DEF Inv, LinkInv
  <2> DEFINE p     == InRange(lo, hi)
             H     == {n \in Version : p[n[1]] = 0}
             L     == {n \in Version : p[n[1]] > 0}
             at    == Search(current_level, L)
             found == {i \in 1 .. current_level : forward[at[i]][i] \in H}
             i1    == CHOOSE i \in found : \A j \in found : j <= i
             n1    == forward[at[i1]][i1]
             left  == Walk(backward, n1, MaxLevel, H)
             right == Walk(forward, n1, MaxLevel, H)
             wrong == \E i \in Level :
                 \/ backward[left[i]][i] \notin {Nil, head} /\ p[backward[left[i]][i][1]] < 0
                 \/ forward[right[i]][i] # Nil /\ p[forward[right[i]][i][1]] > 0
             In    == {v \in Present : v[1] \in lo .. hi}
             B     == {v \in Present : v[1] > hi}
  <2>1. /\ H = Hits(lo, hi) /\ L = LeftOf(lo)
        /\ \A n \in Version : p[n[1]] < 0 => n[1] > hi
    BY RangeParts
  <2>2. iters_monotony_predicate(p) =
          IF found = {} THEN <<>>
          ELSE IF wrong THEN <<Throws>>
          ELSE <<left[1], forward[right[1]][1]>>
    BY DEF iters_monotony_predicate
  <2>3. Links(bw) /\ Present \in SUBSET Version /\ Present \subseteq Node
    BY ChainOne
  <2>4. In = Present \cap Hits(lo, hi)  BY <2>3 DEF Hits
  <2>5. Between(lo, hi) =
          IF In = {} THEN <<>>
          ELSE <<CHOOSE v \in In : \A w \in In \ {v} : Before(v, w),
                 IF B = {} THEN Nil
                 ELSE CHOOSE v \in B : \A w \in B \ {v} : Before(v, w)>>
    BY DEF Between
  <2> SUFFICES iters_monotony_predicate(p) = Between(lo, hi)  OBVIOUS
  <2> HIDE DEF p, H, L, at, In
  <2>6. /\ found = {} <=> In = {}
        /\ \A i \in found : forward[at[i]][i] \in In
    <3>1. at = Search(current_level, LeftOf(lo))  BY <2>1 DEF at
    <3>2. found = MetOn(at, Hits(lo, hi))  BY <2>1 DEF MetOn
    <3> HIDE DEF found
    <3>3. Links(bw)  BY <2>3
    <3>4. /\ found = {} <=> Present \cap Hits(lo, hi) = {}
          /\ \A i \in found : forward[at[i]][i] \in Present \cap Hits(lo, hi)
      BY <3>1, <3>2, <3>3, RangeMet
    <3> QED  BY ONLY <2>4, <3>4
  <2>7. CASE found = {}
    <3> HIDE DEF found, i1, n1, left, right, wrong, B
    <3> QED  BY <2>2, <2>5, <2>6, <2>7
  <2>8. CASE found # {}
    <3>1. i1 \in found
      <4>1. current_level \in Nat  BY <2>3, LevelOne DEF Links
      <4>2. found \in SUBSET (1 .. current_level)  OBVIOUS
      <4> HIDE DEF found
      <4> QED  BY <4>1, <4>2, <2>8, GreatestChosen
    <3> HIDE DEF found, i1
    <3>2. n1 \in In  BY <2>6, <3>1
    <3> HIDE DEF n1
    <3>3. n1 \in Present \cap Hits(lo, hi)  BY <2>4, <3>2
    <3>4. /\ \A i \in Level : backward[left[i]][i] \in {Nil, head} \cup LeftOf(lo)
          /\ IsLeast(Present \cap Hits(lo, hi), left[1])
      <4>1. left = Walk(bw, n1, MaxLevel, Hits(lo, hi))  BY <2>1
      <4> HIDE DEF left
      <4> QED  BY <2>3, <3>3, <4>1, RangeLeft
    <3>5. /\ \A i \in Level : forward[right[i]][i] # Nil =>
                forward[right[i]][i] \in Version \ LeftOf(lo)
          /\ IsFirst(B, forward[right[1]][1])
      <4>1. right = Walk(forward, n1, MaxLevel, Hits(lo, hi))  BY <2>1
      <4> HIDE DEF right
      <4> QED  BY <2>3, <3>3, <4>1, RangeRight
    <3> HIDE DEF left, right
    <3>6. ~ wrong
      <4>1. ASSUME NEW i \in Level, backward[left[i]][i] \notin {Nil, head}
            PROVE  ~ p[backward[left[i]][i][1]] < 0
        <5> DEFINE y == backward[left[i]][i]
        <5>1. y \in LeftOf(lo)  BY <3>4, <4>1
        <5> HIDE DEF y
        <5>2. y \in Version /\ p[y[1]] > 0  BY <5>1, <2>1 DEF L
        <5>3. p[y[1]] \in Int
          BY <5>2 DEF p, InRange, Version
        <5> QED  BY <5>2, <5>3 DEF y
      <4>2. ASSUME NEW i \in Level, forward[right[i]][i] # Nil
            PROVE  ~ p[forward[right[i]][i][1]] > 0
        BY <3>5, <4>2, <2>1 DEF L
      <4> QED  BY <4>1, <4>2
    <3>7. (CHOOSE v \in In : \A w \in In \ {v} : Before(v, w)) = left[1]
      <4>1. In \in SUBSET Node /\ IsLeast(In, left[1])  BY <2>3, <2>4, <3>4
      <4> QED  BY <4>1, LeastChosen
    <3>8. (IF B = {} THEN Nil
           ELSE CHOOSE v \in B : \A w \in B \ {v} : Before(v, w)) = forward[right[1]][1]
      <4>1. B \in SUBSET Node  BY <2>3
      <4> HIDE DEF B
      <4>2. CASE B = {}  BY <4>2, <3>5 DEF IsFirst
      <4>3. CASE B # {}  BY <4>1, <4>3, <3>5, LeastChosen DEF IsFirst
      <4> QED  BY <4>2, <4>3
    <3> HIDE DEF wrong, B
    <3> QED  BY <2>2, <2>5, <2>6, <2>8, <3>6, <3>7, <3>8, Zenon
  <2> QED  BY <2>7, <2>8
<1>2. Inv => RangeExact
  BY <1>1 DEF RangeExact, RangesWhole, InRange
<1> QED  BY <1>2, InvAlways, PTL
=============================================================================
