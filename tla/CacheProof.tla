------------------------------ MODULE CacheProof ------------------------------
(***************************************************************************)
(* What BlockCache.tla promises, proved for every number of readers, keys, *)
(* blocks and reads, and every capacity and k: the map and the two lists   *)
(* agree, a cached block is the one of its key unless the stream was moved *)
(* under its reader, and the cache carries out the policy of LruK.tla.     *)
(***************************************************************************)
EXTENDS BlockCache, ListLemmas

Less    == ToSet(cache_list_less_k)
Greater == ToSet(cache_list_greater_k)
Items   == Less \cup Greater

ListsTyped ==
  /\ cache_list_less_k \in Seq(Item) /\ cache_list_greater_k \in Seq(Item)
  /\ cache_map_ \in [Key -> {"less", "greater", "none"}]

\* No list has an item twice, and no two items have one key.
Distinct ==
  /\ IsInjective(cache_list_less_k) /\ IsInjective(cache_list_greater_k)
  /\ \A x, y \in Items : x.key = y.key => x = y

\* The map has each item where it is, and nothing else.
MapInv ==
  /\ \A x \in Less : cache_map_[x.key] = "less" /\ x.access_count < k_
  /\ \A x \in Greater : cache_map_[x.key] = "greater" /\ x.access_count >= k_
  /\ \A key \in Key : /\ cache_map_[key] = "less" => \E x \in Less : x.key = key
                      /\ cache_map_[key] = "greater" => \E x \in Greater : x.key = key

\* A list of items is in the order of a list of their keys.
Ordered(s, keys) == \A x, y : Precedes(s, x, y) => Precedes(keys, x.key, y.key)

\* The cached keys in the order of their use: each list is in that order.
UsedInv ==
  /\ used \in Seq(Key) /\ IsInjective(used)
  /\ ToSet(used) = {key \in Key : Cached(key)}
  /\ Len(used) = Len(cache_list_less_k) + Len(cache_list_greater_k)
  /\ Len(used) <= capacity_
  /\ Ordered(cache_list_less_k, used) /\ Ordered(cache_list_greater_k, used)

\* A whole block that the hash lets pass for the one of key.
Passes(b, key) == b \in Key /\ b[1] = key[1] /\ block_size[b] = block_size[key]

\* A cached block, and one that is about to be, passes for that of its key, and is
\* it unless the reader was crossed; who is about to read, and was not, has the
\* stream at the offset of its block.
BlockInv ==
  /\ \A x \in Items : Passes(x.cache_block, x.key)
                     /\ (x.key \notin suspect => x.cache_block = x.key)
  /\ \A t \in Reader : pc[t] = "put" =>
       Passes(block[t], want[t]) /\ (t \notin crossed => block[t] = want[t])
  /\ \A t \in Reader : pc[t] = "read" /\ t \notin crossed /\ ~failed[Sst(t)] =>
       position[Sst(t)] = offset[want[t]]

ListInv == ListsTyped /\ Distinct /\ MapInv /\ UsedInv

Inv == TypeOK /\ ListInv /\ BlockInv

-----------------------------------------------------------------------------
(* Looking a key up.                                                       *)

LEMMA ItemType ==
  ASSUME ListsTyped
  PROVE  /\ Less \subseteq Item /\ Greater \subseteq Item
         /\ \A x \in Items : /\ x.key \in Key /\ x.cache_block \in Key
                             /\ x.access_count \in 1 .. k_ + 1
<1>1. Less \subseteq Item /\ Greater \subseteq Item
  BY Elements DEF ListsTyped, Less, Greater
<1> QED  BY <1>1 DEF Items, Item

\* The iterator of a key in the list that has it.
LEMMA PositionIs ==
  ASSUME NEW s \in Seq(Item), NEW x \in ToSet(s), IsInjective(s),
         \A y, z \in ToSet(s) : y.key = z.key => y = z
  PROVE  Position(s, x.key) \in 1 .. Len(s) /\ s[Position(s, x.key)] = x
<1>1. /\ DOMAIN s = 1 .. Len(s) /\ \A i \in 1 .. Len(s) : s[i] \in ToSet(s)
      /\ \E i \in 1 .. Len(s) : x = s[i]
  BY Elements
<1>2. PICK i \in 1 .. Len(s) : x = s[i]  BY <1>1
<1>3. Position(s, x.key) \in 1 .. Len(s) /\ s[Position(s, x.key)].key = x.key
  BY <1>1, <1>2 DEF Position
<1> QED  BY <1>1, <1>3

\* find of a key that is there gives its item.
LEMMA FindIs ==
  ASSUME ListInv, NEW x \in Items
  PROVE  /\ x.key \in Key /\ Cached(x.key) /\ Find(x.key) = x
         /\ x \in Less <=> cache_map_[x.key] = "less"
<1>1. \A y, z \in Items : y.key = z.key => y = z  BY DEF ListInv, Distinct
<1>2. CASE x \in Less
  <2>1. cache_map_[x.key] = "less"  BY <1>2 DEF ListInv, MapInv
  <2>2. cache_list_less_k[Position(cache_list_less_k, x.key)] = x
    BY <1>1, <1>2, PositionIs DEF ListInv, ListsTyped, Distinct, Items, Less
  <2> QED  BY <2>1, <2>2, <1>2, ItemType DEF ListInv, Find, ItemOf, Cached
<1>3. CASE x \in Greater
  <2>1. cache_map_[x.key] = "greater"  BY <1>3 DEF ListInv, MapInv
  <2>2. cache_list_greater_k[Position(cache_list_greater_k, x.key)] = x
    BY <1>1, <1>3, PositionIs DEF ListInv, ListsTyped, Distinct, Items, Greater
  <2>3. x \notin Less  BY <2>1 DEF ListInv, MapInv
  <2> QED  BY <2>1, <2>2, <2>3, <1>3, ItemType DEF ListInv, Find, ItemOf, Cached
<1> QED  BY <1>2, <1>3 DEF Items

LEMMA CachedIs ==
  ASSUME ListInv, NEW key \in Key, Cached(key)
  PROVE  /\ Find(key) \in Items /\ Find(key).key = key
         /\ cache_map_[key] = "less" => Find(key) \in Less
         /\ cache_map_[key] = "greater" => Find(key) \in Greater
<1>1. cache_map_[key] \in {"less", "greater"}  BY DEF ListInv, ListsTyped, Cached
<1>2. PICK x \in Items : /\ x.key = key
                         /\ cache_map_[key] = "less" => x \in Less
                         /\ cache_map_[key] = "greater" => x \in Greater
  BY <1>1 DEF ListInv, MapInv, Items
<1>3. Find(key) = x  BY <1>2, FindIs
<1> QED  BY <1>2, <1>3

\* erase of the iterator of an item.
LEMMA WithoutIs ==
  ASSUME NEW s \in Seq(Item), NEW x \in ToSet(s), IsInjective(s),
         \A y, z \in ToSet(s) : y.key = z.key => y = z
  PROVE  /\ Without(s, x.key) \in Seq(Item) /\ Len(Without(s, x.key)) = Len(s) - 1
         /\ IsInjective(Without(s, x.key))
         /\ ToSet(Without(s, x.key)) = ToSet(s) \ {x}
         /\ \A y, z : Precedes(Without(s, x.key), y, z)
                      <=> Precedes(s, y, z) /\ y # x /\ z # x
<1>1. Position(s, x.key) \in 1 .. Len(s) /\ s[Position(s, x.key)] = x  BY PositionIs
<1> QED  BY <1>1, EraseAt, EraseLeaves DEF Without

\* There are as many entries in the map as items in the lists.
LEMMA EntriesAre == ListInv => Entries = Len(used) /\ Len(used) \in Nat
<1> SUFFICES ASSUME ListInv PROVE Entries = Len(used) /\ Len(used) \in Nat  OBVIOUS
<1>1. Cardinality(ToSet(used)) = Len(used)  BY InjectiveLength DEF ListInv, UsedInv
<1>2. Len(used) \in Nat  BY LenProperties DEF ListInv, UsedInv
<1> QED  BY <1>1, <1>2 DEF ListInv, UsedInv, Entries
-----------------------------------------------------------------------------
(* An access: the item comes to the front of its list or of the other.     *)

LEMMA BeforeIn ==
  ASSUME NEW s, NEW x, NEW y, Precedes(s, x, y)
  PROVE  x \in ToSet(s) /\ y \in ToSet(s)
BY DEF Precedes, ToSet

\* splice to the front, of an item that may have changed but for its key.
LEMMA MoveIs ==
  ASSUME NEW s \in Seq(Item), NEW x \in ToSet(s), NEW new \in Item, new.key = x.key,
         IsInjective(s), \A y, z \in ToSet(s) : y.key = z.key => y = z
  PROVE  LET s2 == <<new>> \o Without(s, x.key)
         IN  /\ s2 \in Seq(Item) /\ Len(s2) = Len(s) /\ IsInjective(s2)
             /\ ToSet(s2) = (ToSet(s) \ {x}) \cup {new}
             /\ \A y, z : Precedes(s2, y, z) <=> \/ Precedes(s, y, z) /\ y # x /\ z # x
                                                 \/ y = new /\ z \in ToSet(s) \ {x}
<1> DEFINE r == Without(s, x.key)
           s2 == <<new>> \o r
<1>1. /\ r \in Seq(Item) /\ Len(r) = Len(s) - 1 /\ IsInjective(r)
      /\ ToSet(r) = ToSet(s) \ {x}
      /\ \A y, z : Precedes(r, y, z) <=> Precedes(s, y, z) /\ y # x /\ z # x
  BY WithoutIs
<1>2. new \notin ToSet(r)  BY <1>1
<1> HIDE DEF r
<1>3. /\ s2 \in Seq(Item) /\ Len(s2) = Len(r) + 1 /\ IsInjective(s2)
      /\ ToSet(s2) = ToSet(r) \cup {new}
  BY <1>1, <1>2, PushFront
<1>4. \A y, z : Precedes(s2, y, z) <=> Precedes(r, y, z) \/ (y = new /\ z \in ToSet(r))
  BY <1>1, PushFrontOrder
<1>5. Len(s2) = Len(s)
  <2>1. Len(s) \in Nat  BY LenProperties
  <2> QED  BY <2>1, <1>1, <1>3
<1> HIDE DEF s2
<1> QED  BY <1>1, <1>3, <1>4, <1>5 DEF s2, r

\* How the order of the keys changes, and that of a list of items beside it.
KeysMove(u2, u, gone, key) ==
  \A a, b : Precedes(u2, a, b) <=> \/ Precedes(u, a, b) /\ a # gone /\ b # gone
                                   \/ a = key /\ b \in ToSet(u) \ {gone}

ItemsMove(s2, s, u, gone, key) ==
  \A x, y : Precedes(s2, x, y) => \/ Precedes(s, x, y) /\ x.key # gone /\ y.key # gone
                                  \/ x.key = key /\ y.key \in ToSet(u) \ {gone}

\* The history after an access, or after a put that evicts gone for key.
Updated(s, gone, key) == <<key>> \o RemoveFirst(s, gone)
Pushed(s, key)        == <<key>> \o s

LEMMA UsedMoves ==
  ASSUME NEW s \in Seq(Key), IsInjective(s), NEW gone \in ToSet(s), NEW key \in Key,
         key \notin ToSet(s) \ {gone}, NEW u, u = Updated(s, gone, key)
  PROVE  /\ u \in Seq(Key) /\ Len(u) = Len(s) /\ IsInjective(u)
         /\ ToSet(u) = (ToSet(s) \ {gone}) \cup {key}
         /\ KeysMove(u, s, gone, key)
<1>1. PICK i \in 1 .. Len(s) : s[i] = gone /\ RemoveFirst(s, gone) = RemoveAt(s, i)
  BY EraseElement
<1> DEFINE r == RemoveAt(s, i)
<1>2. /\ r \in Seq(Key) /\ Len(r) = Len(s) - 1 /\ IsInjective(r)
      /\ ToSet(r) = ToSet(s) \ {gone}
      /\ \A a, b : Precedes(r, a, b) <=> Precedes(s, a, b) /\ a # gone /\ b # gone
  BY <1>1, EraseAt, EraseLeaves
<1>3. u = <<key>> \o r /\ key \notin ToSet(r)  BY <1>1, <1>2 DEF Updated
<1> HIDE DEF r
<1> DEFINE w == <<key>> \o r
<1>4. /\ w \in Seq(Key) /\ Len(w) = Len(r) + 1 /\ IsInjective(w)
      /\ ToSet(w) = ToSet(r) \cup {key}
  BY <1>2, <1>3, PushFront
<1>5. \A a, b : Precedes(w, a, b) <=> Precedes(r, a, b) \/ (a = key /\ b \in ToSet(r))
  BY <1>2, <1>3, PushFrontOrder
<1>6. Len(w) = Len(s)
  <2>1. Len(s) \in Nat  BY LenProperties
  <2> QED  BY <2>1, <1>2, <1>4
<1>7. u = w  BY <1>3
<1> HIDE DEF w
<1>8. KeysMove(w, s, gone, key)
  <2> SUFFICES ASSUME NEW a, NEW b
               PROVE  Precedes(w, a, b) <=> \/ Precedes(s, a, b) /\ a # gone /\ b # gone
                                            \/ a = key /\ b \in ToSet(s) \ {gone}
    BY DEF KeysMove
  <2>1. Precedes(w, a, b) <=> Precedes(r, a, b) \/ (a = key /\ b \in ToSet(r))  BY <1>5
  <2>2. Precedes(r, a, b) <=> Precedes(s, a, b) /\ a # gone /\ b # gone  BY <1>2
  <2>3. ToSet(r) = ToSet(s) \ {gone}  BY <1>2
  <2> QED  BY <2>1, <2>2, <2>3
<1>9. /\ w \in Seq(Key) /\ Len(w) = Len(s) /\ IsInjective(w)
      /\ ToSet(w) = (ToSet(s) \ {gone}) \cup {key}
  BY <1>2, <1>4, <1>6
<1> QED  BY ONLY <1>7, <1>8, <1>9, Zenon

\* A list in the order of the history is so after a move of both.
LEMMA OrderKept ==
  ASSUME NEW s, NEW s2, NEW u, NEW u2, NEW gone, NEW key,
         Ordered(s, u), ItemsMove(s2, s, u, gone, key), KeysMove(u2, u, gone, key)
  PROVE  Ordered(s2, u2)
<1> SUFFICES ASSUME NEW x, NEW y, Precedes(s2, x, y)
             PROVE  Precedes(u2, x.key, y.key)
  BY DEF Ordered
<1>1. \/ Precedes(s, x, y) /\ x.key # gone /\ y.key # gone
      \/ x.key = key /\ y.key \in ToSet(u) \ {gone}
  BY DEF ItemsMove
<1>2. Precedes(s, x, y) => Precedes(u, x.key, y.key)  BY DEF Ordered
<1> QED  BY <1>1, <1>2 DEF KeysMove

\* The item an access leaves.
Next_(item) ==
  [item EXCEPT !.access_count = IF item.access_count + 1 > k_ THEN k_ + 1
                                ELSE item.access_count + 1]

LEMMA AccessCases ==
  ASSUME ListInv, NEW x \in Items, NEW y \in Item, y.key = x.key,
         y.access_count = x.access_count, update_access_count(y)
  PROVE  LET new == Next_(y)
         IN  /\ new \in Item /\ new.key = x.key /\ new.cache_block = y.cache_block
             /\ new.access_count = IF x.access_count < k_ THEN x.access_count + 1 ELSE k_ + 1
             /\ \/ /\ x \in Less /\ new.access_count < k_
                   /\ cache_list_less_k' = <<new>> \o Without(cache_list_less_k, x.key)
                   /\ UNCHANGED <<cache_list_greater_k, cache_map_>>
                \/ /\ x \in Less /\ new.access_count = k_
                   /\ cache_list_less_k' = Without(cache_list_less_k, x.key)
                   /\ cache_list_greater_k' = <<new>> \o cache_list_greater_k
                   /\ cache_map_' = [cache_map_ EXCEPT ![x.key] = "greater"]
                \/ /\ x \in Greater /\ new.access_count > k_
                   /\ cache_list_greater_k' = <<new>> \o Without(cache_list_greater_k, x.key)
                   /\ UNCHANGED <<cache_list_less_k, cache_map_>>
<1> DEFINE n == y.access_count + 1
           new == Next_(y)
<1>1. y.access_count \in 1 .. k_ + 1 /\ k_ \in Nat \ {0, 1}
  BY BlockCacheAssumption DEF Item
<1>2. /\ new \in Item /\ new.key = y.key /\ new.cache_block = y.cache_block
      /\ new.access_count = IF n > k_ THEN k_ + 1 ELSE n
  BY <1>1 DEF Item, Next_
<1>3. /\ x \in Less => x.access_count < k_
      /\ x \in Greater => x.access_count >= k_
      /\ x \in Less \/ x \in Greater
  BY DEF ListInv, MapInv, Items
<1>4. \/ /\ n < k_
         /\ cache_list_less_k' = <<new>> \o Without(cache_list_less_k, y.key)
         /\ UNCHANGED <<cache_list_greater_k, cache_map_>>
      \/ /\ n = k_
         /\ cache_list_less_k' = Without(cache_list_less_k, y.key)
         /\ cache_list_greater_k' = <<new>> \o cache_list_greater_k
         /\ cache_map_' = [cache_map_ EXCEPT ![y.key] = "greater"]
      \/ /\ n > k_
         /\ cache_list_greater_k' = <<new>> \o Without(cache_list_greater_k, y.key)
         /\ UNCHANGED <<cache_list_less_k, cache_map_>>
  BY DEF update_access_count, Next_
<1> HIDE DEF new
<1>5. new.access_count = IF x.access_count < k_ THEN x.access_count + 1 ELSE k_ + 1
  BY <1>1, <1>2
<1>6. /\ n < k_ => x \in Less /\ new.access_count < k_
      /\ n = k_ => x \in Less /\ new.access_count = k_
      /\ n > k_ => x \in Greater /\ new.access_count > k_
  BY <1>1, <1>2, <1>3
<1> QED  BY <1>2, <1>4, <1>5, <1>6 DEF new

LEMMA AccessKeeps ==
  ASSUME ListInv, NEW x \in Items, NEW y \in Item, y.key = x.key,
         y.access_count = x.access_count, update_access_count(y), Used(x.key)
  PROVE  /\ ListInv' /\ Items' = (Items \ {x}) \cup {Next_(y)}
         /\ used' = Updated(used, x.key, x.key)
<1> DEFINE new == Next_(y)
           key == x.key
           l == cache_list_less_k
           g == cache_list_greater_k
<1>1. /\ new \in Item /\ new.key = key
      /\ \/ /\ x \in Less /\ new.access_count < k_
            /\ l' = <<new>> \o Without(l, key)
            /\ UNCHANGED <<g, cache_map_>>
         \/ /\ x \in Less /\ new.access_count = k_
            /\ l' = Without(l, key)
            /\ g' = <<new>> \o g
            /\ cache_map_' = [cache_map_ EXCEPT ![key] = "greater"]
         \/ /\ x \in Greater /\ new.access_count > k_
            /\ g' = <<new>> \o Without(g, key)
            /\ UNCHANGED <<l, cache_map_>>
  BY AccessCases
<1> HIDE DEF new
<1>2. /\ l \in Seq(Item) /\ g \in Seq(Item) /\ cache_map_ \in [Key -> {"less", "greater", "none"}]
      /\ IsInjective(l) /\ IsInjective(g)
      /\ \A a, b \in Less : a.key = b.key => a = b
      /\ \A a, b \in Greater : a.key = b.key => a = b
      /\ \A a, b \in Items : a.key = b.key => a = b
      /\ key \in Key /\ Cached(key)
      /\ \A a \in Items : a.key \in Key /\ Cached(a.key)
  BY FindIs, <1>1 DEF ListInv, ListsTyped, Distinct, Items
<1>3. Evicted = {}
  <2>1. cache_map_' = cache_map_ \/ cache_map_' = [cache_map_ EXCEPT ![key] = "greater"]
    BY <1>1
  <2>2. ASSUME NEW k \in Key, Cached(k) PROVE cache_map_'[k] # "none"
    BY <2>1, <2>2, <1>2 DEF Cached
  <2> QED  BY <2>2 DEF Evicted
<1>4. /\ used \in Seq(Key) /\ IsInjective(used) /\ key \in ToSet(used)
      /\ ToSet(used) = {k \in Key : Cached(k)}
      /\ Len(used) = Len(l) + Len(g) /\ Len(used) <= capacity_
      /\ Ordered(l, used) /\ Ordered(g, used)
  BY <1>2 DEF ListInv, UsedInv
<1>5. used' = Updated(used, key, key)  BY <1>3 DEF Used, Updated
<1>6. /\ used' \in Seq(Key) /\ Len(used') = Len(used) /\ IsInjective(used')
      /\ ToSet(used') = (ToSet(used) \ {key}) \cup {key}
      /\ KeysMove(used', used, key, key)
  <2>1. key \in Key /\ key \notin ToSet(used) \ {key}  BY <1>2
  <2> HIDE DEF key
  <2> QED  BY <2>1, <1>4, <1>5, UsedMoves
<1>7. \A s, s2 : Ordered(s, used) /\ ItemsMove(s2, s, used, key, key) => Ordered(s2, used')
  BY <1>6, OrderKept
<1>8. \A a \in Items : a.key \in ToSet(used) /\ (a # x => a.key # key)
  BY <1>2, <1>4
<1>9. \A a, b : /\ Precedes(l, a, b) => a \in Less /\ b \in Less
                /\ Precedes(g, a, b) => a \in Greater /\ b \in Greater
  BY BeforeIn DEF Less, Greater
<1>10. Less \subseteq Items /\ Greater \subseteq Items /\ Less \cap Greater = {}
  BY DEF Items, ListInv, MapInv
<1>11. Len(l) \in Nat /\ Len(g) \in Nat  BY <1>2, LenProperties
<1>12. /\ l' \in Seq(Item) /\ g' \in Seq(Item) /\ IsInjective(l') /\ IsInjective(g')
       /\ Len(l') + Len(g') = Len(l) + Len(g)
       /\ ItemsMove(l', l, used, key, key) /\ ItemsMove(g', g, used, key, key)
       /\ \/ /\ x \in Less /\ new.access_count < k_ /\ cache_map_' = cache_map_
             /\ Less' = (Less \ {x}) \cup {new} /\ Greater' = Greater
          \/ /\ x \in Less /\ new.access_count = k_
             /\ cache_map_' = [cache_map_ EXCEPT ![key] = "greater"]
             /\ Less' = Less \ {x} /\ Greater' = Greater \cup {new}
          \/ /\ x \in Greater /\ new.access_count > k_ /\ cache_map_' = cache_map_
             /\ Less' = Less /\ Greater' = (Greater \ {x}) \cup {new}
  <2>1. CASE /\ x \in Less /\ new.access_count < k_
             /\ l' = <<new>> \o Without(l, key)
             /\ UNCHANGED <<g, cache_map_>>
    <3>1. /\ l' \in Seq(Item) /\ Len(l') = Len(l) /\ IsInjective(l')
          /\ ToSet(l') = (ToSet(l) \ {x}) \cup {new}
          /\ \A a, b : Precedes(l', a, b) <=> \/ Precedes(l, a, b) /\ a # x /\ b # x
                                              \/ a = new /\ b \in ToSet(l) \ {x}
      <4>1. IsInjective(l) /\ l \in Seq(Item) /\ x \in ToSet(l) /\ \A a, b \in ToSet(l) : a.key = b.key => a = b
        BY <2>1, <1>2 DEF Less
      <4> QED  BY <4>1, <2>1, <1>1, MoveIs
    <3>2. ItemsMove(l', l, used, key, key)
      BY <3>1, <1>1, <1>8, <1>9, <1>10 DEF ItemsMove, Less
    <3>3. ItemsMove(g', g, used, key, key)
      BY <2>1, <1>8, <1>9, <1>10 DEF ItemsMove
    <3> QED  BY <2>1, <3>1, <3>2, <3>3, <1>2 DEF Less, Greater
  <2>2. CASE /\ x \in Less /\ new.access_count = k_
             /\ l' = Without(l, key)
             /\ g' = <<new>> \o g
             /\ cache_map_' = [cache_map_ EXCEPT ![key] = "greater"]
    <3>1. /\ l' \in Seq(Item) /\ Len(l') = Len(l) - 1 /\ IsInjective(l')
          /\ ToSet(l') = ToSet(l) \ {x}
          /\ \A a, b : Precedes(l', a, b) <=> Precedes(l, a, b) /\ a # x /\ b # x
      BY <2>2, <1>1, <1>2, WithoutIs DEF Less
    <3>2. new \notin Greater
      BY <2>2, <1>1, <1>2, <1>10
    <3>3. /\ g' \in Seq(Item) /\ Len(g') = Len(g) + 1 /\ IsInjective(g')
          /\ ToSet(g') = ToSet(g) \cup {new}
      BY <2>2, <3>2, <1>1, <1>2, PushFront DEF Greater
    <3>4. \A a, b : Precedes(g', a, b) <=> Precedes(g, a, b) \/ (a = new /\ b \in ToSet(g))
      BY <2>2, <1>1, <1>2, PushFrontOrder
    <3>5. ItemsMove(l', l, used, key, key)
      BY <3>1, <1>8, <1>9, <1>10 DEF ItemsMove
    <3>6. ItemsMove(g', g, used, key, key)
      BY <2>2, <3>4, <1>1, <1>8, <1>9, <1>10 DEF ItemsMove, Greater
    <3>7. Len(l') + Len(g') = Len(l) + Len(g)  BY <3>1, <3>3, <1>11
    <3> QED  BY <2>2, <3>1, <3>3, <3>5, <3>6, <3>7 DEF Less, Greater
  <2>3. CASE /\ x \in Greater /\ new.access_count > k_
             /\ g' = <<new>> \o Without(g, key)
             /\ UNCHANGED <<l, cache_map_>>
    <3>1. /\ g' \in Seq(Item) /\ Len(g') = Len(g) /\ IsInjective(g')
          /\ ToSet(g') = (ToSet(g) \ {x}) \cup {new}
          /\ \A a, b : Precedes(g', a, b) <=> \/ Precedes(g, a, b) /\ a # x /\ b # x
                                              \/ a = new /\ b \in ToSet(g) \ {x}
      BY <2>3, <1>1, <1>2, MoveIs DEF Greater
    <3>2. ItemsMove(g', g, used, key, key)
      BY <3>1, <1>1, <1>8, <1>9, <1>10 DEF ItemsMove, Greater
    <3>3. ItemsMove(l', l, used, key, key)
      BY <2>3, <1>8, <1>9, <1>10 DEF ItemsMove
    <3> QED  BY <2>3, <3>1, <3>2, <3>3, <1>2 DEF Less, Greater
  <2> QED  BY <1>1, <2>1, <2>2, <2>3
<1>13. Items' = (Items \ {x}) \cup {new}
  BY <1>12, <1>10 DEF Items
<1>14. ListsTyped'
  BY <1>2, <1>12 DEF ListsTyped
<1>15. Distinct'
  <2>1. \A a, b \in Items' : a.key = b.key => a = b
    BY <1>1, <1>2, <1>8, <1>13
  <2> QED  BY <2>1, <1>12 DEF Distinct
<1>16. MapInv'
  <2>1. /\ \A i \in Less : cache_map_[i.key] = "less" /\ i.access_count < k_
        /\ \A i \in Greater : cache_map_[i.key] = "greater" /\ i.access_count >= k_
        /\ \A k \in Key : /\ cache_map_[k] = "less" => \E i \in Less : i.key = k
                          /\ cache_map_[k] = "greater" => \E i \in Greater : i.key = k
    BY DEF ListInv, MapInv
  <2>2. /\ new.access_count \in Nat /\ k_ \in Nat
        /\ \A k \in Key : k # key => cache_map_'[k] = cache_map_[k]
    BY <1>1, <1>2, <1>12, BlockCacheAssumption DEF Item
  <2>3. \A i \in Less' : cache_map_'[i.key] = "less" /\ i.access_count < k_
    BY <2>1, <2>2, <1>1, <1>2, <1>8, <1>10, <1>12
  <2>4. \A i \in Greater' : cache_map_'[i.key] = "greater" /\ i.access_count >= k_
    BY <2>1, <2>2, <1>1, <1>2, <1>8, <1>10, <1>12
  <2>5. ASSUME NEW k \in Key
        PROVE  /\ cache_map_'[k] = "less" => \E i \in Less' : i.key = k
               /\ cache_map_'[k] = "greater" => \E i \in Greater' : i.key = k
    <3>1. CASE k = key  BY <3>1, <2>1, <2>2, <1>1, <1>2, <1>12
    <3>2. CASE k # key
      <4>1. cache_map_'[k] = cache_map_[k]  BY <3>2, <2>2
      <4>2. \A i : i.key = k => i # x  BY <3>2
      <4> QED  BY <4>1, <4>2, <2>1, <1>12
    <3> QED  BY <3>1, <3>2
  <2> QED  BY <2>3, <2>4, <2>5 DEF MapInv
<1>17. UsedInv'
  <2>1. \A k \in Key : Cached(k)' <=> Cached(k)
    BY <1>12, <1>2 DEF Cached
  <2>2. ToSet(used') = {k \in Key : Cached(k)'}
    BY <2>1, <1>4, <1>6
  <2>3. Ordered(l', used') /\ Ordered(g', used')
    BY <1>4, <1>7, <1>12
  <2> QED  BY <2>2, <2>3, <1>4, <1>6, <1>12 DEF UsedInv
<1> QED  BY <1>5, <1>13, <1>14, <1>15, <1>16, <1>17 DEF ListInv, new
-----------------------------------------------------------------------------
(* A put of a key that is not cached: a new item, and perhaps one evicted. *)

LEMMA UsedGrows ==
  ASSUME NEW s \in Seq(Key), IsInjective(s), NEW key \in Key, key \notin ToSet(s),
         NEW u, u = Updated(s, key, key)
  PROVE  /\ u \in Seq(Key) /\ Len(u) = Len(s) + 1 /\ IsInjective(u) /\ u = Pushed(s, key)
         /\ ToSet(u) = ToSet(s) \cup {key}
         /\ KeysMove(u, s, key, key)
<1> DEFINE w == <<key>> \o s
<1>1. u = w
  <2>1. \A i \in DOMAIN s : s[i] # key  BY Elements
  <2> QED  BY <2>1, Elements DEF Updated, RemoveFirst
<1>2. /\ w \in Seq(Key) /\ Len(w) = Len(s) + 1 /\ IsInjective(w)
      /\ ToSet(w) = ToSet(s) \cup {key}
  BY PushFront
<1>3. \A a, b : Precedes(w, a, b) <=> Precedes(s, a, b) \/ (a = key /\ b \in ToSet(s))
  BY PushFrontOrder
<1>4. \A a, b : Precedes(s, a, b) => a \in ToSet(s) /\ b \in ToSet(s)
  BY BeforeIn
<1> HIDE DEF w
<1>5. KeysMove(w, s, key, key)
  BY <1>3, <1>4 DEF KeysMove
<1> QED  BY <1>1, <1>2, <1>5 DEF w, Pushed

NewItem(key, b) == [key |-> key, cache_block |-> b, access_count |-> 1]

LEMMA InsertKeeps ==
  ASSUME ListInv, NEW key \in Key, ~Cached(key), NEW b \in Key,
         Insert(key, b), Used(key)
  PROVE  /\ ListInv'
         /\ \/ /\ Len(used) < capacity_ /\ used' = Pushed(used, key)
               /\ Items' = Items \cup {NewItem(key, b)}
            \/ /\ Len(used) = capacity_
               /\ \E v \in Items :
                     /\ v = Last(IF cache_list_less_k # <<>> THEN cache_list_less_k
                                 ELSE cache_list_greater_k)
                     /\ used' = Updated(used, v.key, key)
                     /\ Items' = (Items \ {v}) \cup {NewItem(key, b)}
<1> DEFINE new == NewItem(key, b)
           l == cache_list_less_k
           g == cache_list_greater_k
<1>1. /\ Entries = Len(used) /\ Len(used) \in Nat /\ Len(used) <= capacity_
      /\ Len(used) = Len(l) + Len(g) /\ Len(l) \in Nat /\ Len(g) \in Nat
      /\ capacity_ \in Nat \ {0} /\ k_ \in Nat \ {0, 1}
  BY EntriesAre, LenProperties, BlockCacheAssumption DEF ListInv, UsedInv, ListsTyped
<1>2. /\ new \in Item /\ new.key = key /\ new.access_count = 1
  BY <1>1 DEF NewItem, Item
<1>3. \/ /\ Len(used) < capacity_
         /\ l' = <<new>> \o l
         /\ cache_map_' = [cache_map_ EXCEPT ![key] = "less"]
         /\ UNCHANGED g
      \/ /\ Len(used) = capacity_ /\ l # <<>>
         /\ l' = <<new>> \o Front(l)
         /\ cache_map_' = [cache_map_ EXCEPT ![Last(l).key] = "none", ![key] = "less"]
         /\ UNCHANGED g
      \/ /\ Len(used) = capacity_ /\ l = <<>>
         /\ g' = Front(g)
         /\ l' = <<new>>
         /\ cache_map_' = [cache_map_ EXCEPT ![Last(g).key] = "none", ![key] = "less"]
  BY <1>1 DEF Insert, NewItem
<1> HIDE DEF new
<1>4. /\ l \in Seq(Item) /\ g \in Seq(Item) /\ cache_map_ \in [Key -> {"less", "greater", "none"}]
      /\ IsInjective(l) /\ IsInjective(g)
      /\ \A a, c \in Less : a.key = c.key => a = c
      /\ \A a, c \in Greater : a.key = c.key => a = c
      /\ \A a, c \in Items : a.key = c.key => a = c
      /\ \A a \in Items : a.key \in Key /\ Cached(a.key) /\ a.key # key
      /\ cache_map_[key] = "none"
  BY FindIs DEF ListInv, ListsTyped, Distinct, Items, Cached
<1>5. /\ used \in Seq(Key) /\ IsInjective(used) /\ key \notin ToSet(used)
      /\ ToSet(used) = {k \in Key : Cached(k)}
      /\ Ordered(l, used) /\ Ordered(g, used)
      /\ \A a \in Items : a.key \in ToSet(used)
  BY <1>4 DEF ListInv, UsedInv
<1>6. \A a, c : /\ Precedes(l, a, c) => a \in Less /\ c \in Less
                /\ Precedes(g, a, c) => a \in Greater /\ c \in Greater
  BY BeforeIn DEF Less, Greater
<1>7. Less \subseteq Items /\ Greater \subseteq Items /\ Less \cap Greater = {}
  BY DEF Items, ListInv, MapInv
<1>8. /\ \A i \in Less : cache_map_[i.key] = "less" /\ i.access_count < k_
      /\ \A i \in Greater : cache_map_[i.key] = "greater" /\ i.access_count >= k_
      /\ \A k \in Key : /\ cache_map_[k] = "less" => \E i \in Less : i.key = k
                        /\ cache_map_[k] = "greater" => \E i \in Greater : i.key = k
  BY DEF ListInv, MapInv
<1>9. CASE /\ Len(used) < capacity_
           /\ l' = <<new>> \o l
           /\ cache_map_' = [cache_map_ EXCEPT ![key] = "less"]
           /\ UNCHANGED g
  <2>1. Evicted = {}
    BY <1>9, <1>4 DEF Evicted, Cached
  <2>2. /\ used' \in Seq(Key) /\ Len(used') = Len(used) + 1 /\ IsInjective(used')
        /\ used' = Pushed(used, key) /\ ToSet(used') = ToSet(used) \cup {key}
        /\ KeysMove(used', used, key, key)
    <3>1. used' = Updated(used, key, key)  BY <2>1 DEF Used, Updated
    <3> QED  BY <3>1, <1>5, UsedGrows
  <2>3. /\ l' \in Seq(Item) /\ Len(l') = Len(l) + 1 /\ IsInjective(l')
        /\ Less' = Less \cup {new}
    <3>1. new \notin Less  BY <1>2, <1>4, <1>7
    <3> QED  BY <3>1, <1>9, <1>2, <1>4, PushFront DEF Less
  <2>4. \A a, c : Precedes(l', a, c) <=> Precedes(l, a, c) \/ (a = new /\ c \in Less)
    BY <1>9, <1>2, <1>4, PushFrontOrder DEF Less
  <2>5. ItemsMove(l', l, used, key, key) /\ ItemsMove(g', g, used, key, key)
    BY <2>4, <1>9, <1>2, <1>4, <1>5, <1>6, <1>7 DEF ItemsMove
  <2>6. Items' = Items \cup {new}  BY <2>3, <1>9 DEF Items, Greater
  <2>7. ListsTyped' /\ Distinct'
    <3>1. \A a, c \in Items' : a.key = c.key => a = c
      BY <2>6, <1>2, <1>4
    <3> QED  BY <3>1, <2>3, <1>4, <1>9 DEF ListsTyped, Distinct
  <2>8. MapInv'
    <3>1. \A i \in Less' : cache_map_'[i.key] = "less" /\ i.access_count < k_
      BY <1>1, <1>2, <1>4, <1>7, <1>8, <1>9, <2>3
    <3>2. \A i \in Greater' : cache_map_'[i.key] = "greater" /\ i.access_count >= k_
      BY <1>4, <1>7, <1>8, <1>9 DEF Greater
    <3>3. ASSUME NEW k \in Key
          PROVE  /\ cache_map_'[k] = "less" => \E i \in Less' : i.key = k
                 /\ cache_map_'[k] = "greater" => \E i \in Greater' : i.key = k
      <4>1. CASE k = key  BY <4>1, <1>2, <1>4, <1>9, <2>3
      <4>2. CASE k # key  BY <4>2, <1>4, <1>8, <1>9, <2>3 DEF Greater
      <4> QED  BY <4>1, <4>2
    <3> QED  BY <3>1, <3>2, <3>3 DEF MapInv
  <2>9. UsedInv'
    <3>1. \A k \in Key : Cached(k)' <=> Cached(k) \/ k = key
      BY <1>9, <1>4 DEF Cached
    <3>2. Ordered(l', used') /\ Ordered(g', used')
      BY <1>5, <2>2, <2>5, OrderKept
    <3>3. Len(used') = Len(l') + Len(g') /\ Len(used') <= capacity_
      BY <1>1, <1>9, <2>2, <2>3
    <3> QED  BY <3>1, <3>2, <3>3, <1>5, <2>2 DEF UsedInv
  <2> QED  BY <1>9, <2>2, <2>6, <2>7, <2>8, <2>9 DEF ListInv, new
<1>10. ASSUME Len(used) = capacity_, NEW v \in Items,
              v = Last(IF l # <<>> THEN l ELSE g),
              /\ l' \in Seq(Item) /\ g' \in Seq(Item) /\ IsInjective(l') /\ IsInjective(g')
              /\ Len(l') + Len(g') = Len(l) + Len(g),
              ItemsMove(l', l, used, v.key, key), ItemsMove(g', g, used, v.key, key),
              cache_map_' = [cache_map_ EXCEPT ![v.key] = "none", ![key] = "less"],
              Less' = (Less \ {v}) \cup {new}, Greater' = Greater \ {v}
       PROVE  /\ ListInv' /\ used' = Updated(used, v.key, key)
              /\ Items' = (Items \ {v}) \cup {new}
  <2>1. /\ v.key \in Key /\ v.key # key /\ Cached(v.key) /\ v.key \in ToSet(used)
        /\ \A a \in Items : a # v => a.key # v.key
        /\ \A k \in Key : cache_map_'[k] = IF k = key THEN "less"
                                           ELSE IF k = v.key THEN "none"
                                           ELSE cache_map_[k]
    BY <1>4, <1>5, <1>10
  <2>2. used' = Updated(used, v.key, key)
    <3>1. \A k \in Key : Cached(k) /\ cache_map_'[k] = "none" <=> k = v.key
      BY <2>1 DEF Cached
    <3>2. Evicted = {v.key}  BY <3>1, <2>1 DEF Evicted
    <3> QED  BY <3>2 DEF Used, Updated
  <2>3. /\ used' \in Seq(Key) /\ Len(used') = Len(used) /\ IsInjective(used')
        /\ ToSet(used') = (ToSet(used) \ {v.key}) \cup {key}
        /\ KeysMove(used', used, v.key, key)
    BY <2>1, <2>2, <1>5, UsedMoves
  <2>4. Items' = (Items \ {v}) \cup {new}
    BY <1>7, <1>10 DEF Items
  <2>5. ListsTyped' /\ Distinct'
    <3>1. \A a, c \in Items' : a.key = c.key => a = c
      BY <2>4, <1>2, <1>4
    <3>2. cache_map_' \in [Key -> {"less", "greater", "none"}]  BY <1>4, <1>10
    <3> QED  BY <3>1, <3>2, <1>10 DEF ListsTyped, Distinct
  <2>6. MapInv'
    <3>1. \A i \in Less' : cache_map_'[i.key] = "less" /\ i.access_count < k_
      BY <1>1, <1>2, <1>4, <1>7, <1>8, <1>10, <2>1
    <3>2. \A i \in Greater' : cache_map_'[i.key] = "greater" /\ i.access_count >= k_
      BY <1>4, <1>7, <1>8, <1>10, <2>1
    <3>3. ASSUME NEW k \in Key
          PROVE  /\ cache_map_'[k] = "less" => \E i \in Less' : i.key = k
                 /\ cache_map_'[k] = "greater" => \E i \in Greater' : i.key = k
      <4>1. CASE k = key
        <5>1. new \in Less' /\ new.key = k  BY <4>1, <1>2, <1>10
        <5>2. cache_map_'[k] = "less"  BY <4>1, <2>1
        <5> QED  BY <5>1, <5>2
      <4>2. CASE k = v.key  BY <4>2, <2>1
      <4>3. CASE k # key /\ k # v.key
        <5>1. cache_map_'[k] = cache_map_[k]  BY <4>3, <2>1
        <5>2. \A i : i.key = k => i # v  BY <4>3
        <5> QED  BY <5>1, <5>2, <1>8, <1>10
      <4> QED  BY <4>1, <4>2, <4>3
    <3> QED  BY <3>1, <3>2, <3>3 DEF MapInv
  <2>7. UsedInv'
    <3>1. \A k \in Key : Cached(k)' <=> (Cached(k) /\ k # v.key) \/ k = key
      BY <2>1 DEF Cached
    <3>2. Ordered(l', used') /\ Ordered(g', used')
      BY <1>5, <1>10, <2>3, OrderKept
    <3>3. Len(used') = Len(l') + Len(g') /\ Len(used') <= capacity_
      BY <1>1, <1>10, <2>3
    <3>4. ToSet(used') = {k \in Key : Cached(k)'}
      BY <3>1, <1>5, <2>3
    <3> QED  BY <3>2, <3>3, <3>4, <2>3 DEF UsedInv
  <2> QED  BY <2>2, <2>4, <2>5, <2>6, <2>7 DEF ListInv
<1>11. CASE /\ Len(used) = capacity_ /\ l # <<>>
            /\ l' = <<new>> \o Front(l)
            /\ cache_map_' = [cache_map_ EXCEPT ![Last(l).key] = "none", ![key] = "less"]
            /\ UNCHANGED g
  <2> DEFINE v == Last(l)
             r == Front(l)
  <2>1. Len(l) \in 1 .. Len(l) /\ r = RemoveAt(l, Len(l)) /\ v = l[Len(l)]
    BY <1>4, <1>11, FrontErases
  <2>2. /\ r \in Seq(Item) /\ Len(r) = Len(l) - 1 /\ IsInjective(r)
        /\ ToSet(r) = Less \ {v}
        /\ \A a, c : Precedes(r, a, c) <=> Precedes(l, a, c) /\ a # v /\ c # v
    <3> DEFINE n == Len(l)
    <3>1. n \in 1 .. Len(l) /\ r = RemoveAt(l, n) /\ v = l[n]  BY <2>1
    <3> HIDE DEF n, r, v
    <3> QED  BY <3>1, <1>4, EraseAt, EraseLeaves DEF Less
  <2>3. v \in Less  BY <1>4, <2>1, Elements DEF Less
  <2> HIDE DEF r, v
  <2>4. l' = <<new>> \o r  BY <1>11 DEF r
  <2>5. new \notin ToSet(r)  BY <2>2, <1>2, <1>4, <1>7
  <2>6. /\ l' \in Seq(Item) /\ Len(l') = Len(r) + 1 /\ IsInjective(l')
        /\ ToSet(l') = ToSet(r) \cup {new}
    BY <2>2, <2>4, <2>5, <1>2, PushFront
  <2>7. \A a, c : Precedes(l', a, c) <=> Precedes(r, a, c) \/ (a = new /\ c \in ToSet(r))
    BY <2>2, <2>4, <1>2, PushFrontOrder
  <2>8. \A a \in Items : a # v => a.key # v.key  BY <2>3, <1>4, <1>7
  <2>9. ItemsMove(l', l, used, v.key, key)
    BY <2>2, <2>7, <2>8, <1>2, <1>5, <1>6, <1>7 DEF ItemsMove
  <2>10. ItemsMove(g', g, used, v.key, key)
    BY <2>3, <2>8, <1>6, <1>7, <1>11 DEF ItemsMove
  <2>11. Greater' = Greater \ {v}  BY <1>7, <1>11, <2>3 DEF Greater
  <2>12. Less' = (Less \ {v}) \cup {new}  BY <2>2, <2>6 DEF Less
  <2>13. Len(l') + Len(g') = Len(l) + Len(g)
    <3>1. Len(l') = Len(l) - 1 + 1 /\ Len(g') = Len(g)  BY <1>11, <2>2, <2>6
    <3> QED  BY <3>1, <1>1
  <2>14. cache_map_' = [cache_map_ EXCEPT ![v.key] = "none", ![key] = "less"]
    BY <1>11 DEF v
  <2>15. v \in Items /\ v = Last(IF l # <<>> THEN l ELSE g)  BY <2>3, <1>7, <1>11 DEF v
  <2>16. g' \in Seq(Item) /\ IsInjective(g')  BY <1>4, <1>11
  <2>17. /\ ListInv' /\ used' = Updated(used, v.key, key)
         /\ Items' = (Items \ {v}) \cup {new}
    BY <1>10, <1>11, <2>6, <2>9, <2>10, <2>11, <2>12, <2>13, <2>14, <2>15, <2>16
  <2> QED  BY <1>11, <2>15, <2>17 DEF new
<1>12. CASE /\ Len(used) = capacity_ /\ l = <<>>
            /\ g' = Front(g)
            /\ l' = <<new>>
            /\ cache_map_' = [cache_map_ EXCEPT ![Last(g).key] = "none", ![key] = "less"]
  <2> DEFINE v == Last(g)
             r == Front(g)
  <2>1. Len(l) = 0 /\ Less = {}  BY <1>12 DEF Less, ToSet
  <2>2. g # <<>>  BY <2>1, <1>1, <1>12
  <2>3. Len(g) \in 1 .. Len(g) /\ r = RemoveAt(g, Len(g)) /\ v = g[Len(g)]
    BY <1>4, <2>2, FrontErases
  <2>4. /\ r \in Seq(Item) /\ Len(r) = Len(g) - 1 /\ IsInjective(r)
        /\ ToSet(r) = Greater \ {v}
        /\ \A a, c : Precedes(r, a, c) <=> Precedes(g, a, c) /\ a # v /\ c # v
    <3> DEFINE n == Len(g)
    <3>1. n \in 1 .. Len(g) /\ r = RemoveAt(g, n) /\ v = g[n]  BY <2>3
    <3> HIDE DEF n, r, v
    <3> QED  BY <3>1, <1>4, EraseAt, EraseLeaves DEF Greater
  <2>5. v \in Greater  BY <1>4, <2>3, Elements DEF Greater
  <2> HIDE DEF r, v
  <2>6. g' = r  BY <1>12 DEF r
  <2>7. /\ l' \in Seq(Item) /\ Len(l') = 1 /\ IsInjective(l') /\ ToSet(l') = {new}
    BY <1>2, <1>12 DEF IsInjective, ToSet
  <2>8. ItemsMove(l', l, used, v.key, key)
    BY <1>12 DEF ItemsMove, Precedes
  <2>9. \A a \in Items : a # v => a.key # v.key  BY <2>5, <1>4, <1>7
  <2>10. ItemsMove(g', g, used, v.key, key)
    BY <2>4, <2>6, <2>9, <1>6, <1>7 DEF ItemsMove
  <2>11. Greater' = Greater \ {v}  BY <2>4, <2>6 DEF Greater
  <2>12. Less' = (Less \ {v}) \cup {new}  BY <2>1, <2>7 DEF Less
  <2>13. Len(l') + Len(g') = Len(l) + Len(g)  BY <1>1, <2>1, <2>4, <2>6, <2>7
  <2>14. cache_map_' = [cache_map_ EXCEPT ![v.key] = "none", ![key] = "less"]
    BY <1>12 DEF v
  <2>15. v \in Items /\ v = Last(IF l # <<>> THEN l ELSE g)  BY <2>5, <1>7, <1>12 DEF v
  <2>16. g' \in Seq(Item) /\ IsInjective(g')  BY <2>4, <2>6
  <2>17. /\ ListInv' /\ used' = Updated(used, v.key, key)
         /\ Items' = (Items \ {v}) \cup {new}
    BY <1>10, <1>12, <2>7, <2>8, <2>10, <2>11, <2>12, <2>13, <2>14, <2>15, <2>16
  <2> QED  BY <1>12, <2>15, <2>17 DEF new
<1> QED  BY <1>3, <1>9, <1>11, <1>12
-----------------------------------------------------------------------------
(* The invariant, step by step.                                            *)

\* A get of a key that is cached, as the lists see it.
LEMMA GetStep ==
  ASSUME ListInv, NEW key \in Key, Cached(key),
         update_access_count(Find(key)), Used(key)
  PROVE  \E x \in Items, new \in Item :
            /\ x.key = key /\ x = Find(key) /\ new.key = key
            /\ new.cache_block = x.cache_block
            /\ new.access_count = IF x.access_count < k_ THEN x.access_count + 1 ELSE k_ + 1
            /\ ListInv' /\ Items' = (Items \ {x}) \cup {new}
            /\ used' = Updated(used, key, key)
<1> DEFINE x == Find(key)
<1>1. x \in Items /\ x.key = key  BY CachedIs
<1>2. x \in Item  BY <1>1, ItemType DEF Items, ListInv
<1> HIDE DEF x
<1>3. update_access_count(x) /\ Used(x.key)  BY <1>1 DEF x
<1>4. /\ Next_(x) \in Item /\ Next_(x).key = x.key /\ Next_(x).cache_block = x.cache_block
      /\ Next_(x).access_count = IF x.access_count < k_ THEN x.access_count + 1 ELSE k_ + 1
  BY <1>1, <1>2, <1>3, AccessCases
<1>5. ListInv' /\ Items' = (Items \ {x}) \cup {Next_(x)} /\ used' = Updated(used, x.key, x.key)
  BY <1>1, <1>2, <1>3, AccessKeeps
<1> QED  BY <1>1, <1>4, <1>5 DEF x

\* A put of a key that is cached.
LEMMA ReplaceStep ==
  ASSUME ListInv, NEW key \in Key, Cached(key), NEW b \in Key,
         update_access_count([Find(key) EXCEPT !.cache_block = b]), Used(key)
  PROVE  \E x \in Items, new \in Item :
            /\ x.key = key /\ x = Find(key) /\ new.key = key
            /\ new.cache_block = b
            /\ new.access_count = IF x.access_count < k_ THEN x.access_count + 1 ELSE k_ + 1
            /\ ListInv' /\ Items' = (Items \ {x}) \cup {new}
            /\ used' = Updated(used, key, key)
<1> DEFINE x == Find(key)
           y == [Find(key) EXCEPT !.cache_block = b]
<1>1. x \in Items /\ x.key = key  BY CachedIs
<1>2. x \in Item  BY <1>1, ItemType DEF Items, ListInv
<1>3. /\ y \in Item /\ y.key = x.key /\ y.access_count = x.access_count
      /\ y.cache_block = b
  <2> HIDE DEF x
  <2>1. y = [x EXCEPT !.cache_block = b]  BY DEF x
  <2> QED  BY <1>2, <2>1 DEF Item
<1>4. update_access_count(y) /\ Used(x.key)  BY <1>1
<1> HIDE DEF x, y
<1>5. /\ Next_(y) \in Item /\ Next_(y).key = x.key /\ Next_(y).cache_block = y.cache_block
      /\ Next_(y).access_count = IF x.access_count < k_ THEN x.access_count + 1 ELSE k_ + 1
  BY <1>1, <1>3, <1>4, AccessCases
<1>6. ListInv' /\ Items' = (Items \ {x}) \cup {Next_(y)} /\ used' = Updated(used, x.key, x.key)
  BY <1>1, <1>3, <1>4, AccessKeeps
<1> QED  BY <1>1, <1>3, <1>5, <1>6 DEF x

LEMMA InitInv == Init => Inv
<1> SUFFICES ASSUME Init PROVE Inv  OBVIOUS
<1> USE BlockCacheAssumption
<1>1. Less = {} /\ Greater = {} /\ Items = {}  BY DEF Init, Less, Greater, Items, ToSet
<1>2. TypeOK
  <2>1. (CHOOSE key \in Key : TRUE) \in Key  OBVIOUS
  <2>2. position \in [DOMAIN file_size -> Nat]  BY FileAssumption DEF Init
  <2> QED  BY <2>1, <2>2 DEF Init, TypeOK
<1>3. ListsTyped /\ Distinct /\ MapInv
  BY <1>1 DEF Init, ListsTyped, Distinct, MapInv, IsInjective
<1>4. UsedInv
  BY DEF Init, UsedInv, Ordered, Precedes, ToSet, IsInjective, Cached
<1>5. BlockInv  BY <1>1 DEF Init, BlockInv
<1> QED  BY <1>2, <1>3, <1>4, <1>5 DEF Inv, ListInv

LEMMA NextInv == Inv /\ [Next]_vars => Inv'
<1> SUFFICES ASSUME Inv, [Next]_vars PROVE Inv'  OBVIOUS
<1>1. TypeOK /\ ListInv /\ BlockInv  BY DEF Inv
<1>2. \A t \in Reader : want[t] \in Key  BY <1>1 DEF TypeOK
<1> DEFINE L == ListInv' /\ Items' = Items /\ ListsTyped'
<1>20. UNCHANGED <<lists, used>> => L
  BY <1>1 DEF ListInv, ListsTyped, Distinct, MapInv, UsedInv, Items, Less, Greater, Cached, lists
<1> HIDE DEF L
<1>21. \A u \in Reader : Sst(u) \in DOMAIN file_size
  <2>1. ASSUME NEW key \in Key PROVE key[1] \in {k[1] : k \in Key}  OBVIOUS
  <2>2. {k[1] : k \in Key} = DOMAIN file_size  BY FileAssumption
  <2>3. \A key \in Key : key[1] \in DOMAIN file_size  BY <2>1, <2>2
  <2> QED  BY <1>2, <2>3 DEF Sst
<1>22. ASSUME NEW u \in Reader
       PROVE  offset[want[u]] \in Nat /\ block_size[want[u]] \in Nat /\ file_size[Sst(u)] \in Nat
              /\ position[Sst(u)] \in Nat
  <2>1. file_size \in [DOMAIN file_size -> Nat]  BY FileAssumption
  <2> QED  BY <1>1, <1>2, <1>21, <2>1, FileAssumption DEF TypeOK
<1>3. ASSUME NEW t \in Reader, read_block(t) PROVE Inv'
  <2>1. L /\ TypeOK'  BY <1>1, <1>20, <1>3 DEF read_block, Goto, L, TypeOK, ListsTyped, stream, history
  <2>2. BlockInv'
    BY <1>1, <2>1, <1>3 DEF read_block, Goto, L, TypeOK, BlockInv, stream, history, Sst
  <2> QED  BY <2>1, <2>2 DEF Inv, L
<1>4. ASSUME NEW t \in Reader, get_hit(t) PROVE Inv'
  <2>1. PICK x \in Items, new \in Item :
            /\ x = Find(want[t]) /\ new.key = x.key /\ new.cache_block = x.cache_block
            /\ ListInv' /\ Items' = (Items \ {x}) \cup {new}
    <3>1. /\ want[t] \in Key /\ Cached(want[t]) /\ ListInv
          /\ update_access_count(Find(want[t])) /\ Used(want[t])
      BY <1>1, <1>2, <1>4 DEF get_hit
    <3> QED  BY <3>1, GetStep
  <2>2. TypeOK'
    BY <1>1, <1>4, <2>1 DEF get_hit, Goto, TypeOK, ListInv, ListsTyped, stream
  <2>3. BlockInv'
    <3>1. \A y \in Items' : Passes(y.cache_block, y.key)
                            /\ (y.key \notin suspect' => y.cache_block = y.key)
      BY <1>1, <1>4, <2>1 DEF get_hit, BlockInv, Passes
    <3>2. UNCHANGED <<block, want, crossed, failed, position>>  BY <1>4 DEF get_hit, stream
    <3>3. \A u \in Reader : pc'[u] \in {"put", "read"} => pc'[u] = pc[u]
      BY <1>1, <1>4 DEF get_hit, Goto, TypeOK
    <3> QED  BY <1>1, <3>1, <3>2, <3>3 DEF BlockInv, Passes, Sst
  <2> QED  BY <2>1, <2>2, <2>3 DEF Inv
<1>5. ASSUME NEW t \in Reader, get_miss(t) PROVE Inv'
  <2>1. L /\ TypeOK'  BY <1>1, <1>20, <1>5 DEF get_miss, Goto, L, TypeOK, ListsTyped, stream, history
  <2>2. BlockInv'
    BY <1>1, <2>1, <1>5 DEF get_miss, Goto, L, TypeOK, BlockInv, stream, history, Sst
  <2> QED  BY <2>1, <2>2 DEF Inv, L
<1>6. ASSUME NEW t \in Reader, size_seekg(t) PROVE Inv'
  <2>1. L  BY <1>20, <1>6 DEF size_seekg
  <2>2. TypeOK'
    BY <1>1, <1>6, <1>21, <1>22, <2>1 DEF size_seekg, SeekTo, Crosses, Goto, L, TypeOK, ListsTyped
  <2>3. ASSUME NEW u \in Reader, pc'[u] = "read", u \notin crossed', ~failed'[Sst(u)']
        PROVE  position'[Sst(u)'] = offset[want'[u]]
    <3>1. u # t /\ pc[u] = "read" /\ u \notin crossed /\ ~failed[Sst(u)] /\ Sst(u)' = Sst(u)
      BY <1>1, <1>6, <2>3 DEF size_seekg, Goto, TypeOK, Sst
    <3>2. Sst(u) # Sst(t)  BY <1>6, <2>3, <3>1 DEF size_seekg, Crosses
    <3>3. position'[Sst(u)] = position[Sst(u)]
      BY <1>1, <1>6, <1>21, <3>2 DEF size_seekg, SeekTo, TypeOK
    <3> QED  BY <1>1, <1>6, <3>1, <3>3 DEF size_seekg, BlockInv
  <2>4. ASSUME NEW u \in Reader, pc'[u] = "put"
        PROVE  Passes(block'[u], want'[u]) /\ (u \notin crossed' => block'[u] = want'[u])
    BY <1>1, <1>6, <2>4 DEF size_seekg, Goto, TypeOK, BlockInv
  <2>5. BlockInv'
    BY <1>1, <1>6, <2>1, <2>3, <2>4 DEF size_seekg, L, BlockInv, Passes
  <2> QED  BY <2>1, <2>2, <2>5 DEF Inv, L
<1>7. ASSUME NEW t \in Reader, size_tellg(t) PROVE Inv'
  <2>1. L /\ TypeOK'
    BY <1>1, <1>20, <1>7 DEF size_tellg, Goto, L, TypeOK, ListsTyped, stream, history
  <2>2. UNCHANGED <<block, want, crossed, suspect, failed, position>>
    BY <1>7 DEF size_tellg, stream, history
  <2>3. \A u \in Reader : pc'[u] \in {"put", "read"} => pc'[u] = pc[u]
    BY <1>1, <1>7 DEF size_tellg, Goto, TypeOK
  <2>4. BlockInv'  BY <1>1, <2>1, <2>2, <2>3 DEF L, BlockInv, Passes, Sst
  <2> QED  BY <2>1, <2>4 DEF Inv, L
<1>8. ASSUME NEW t \in Reader, read_seekg(t) PROVE Inv'
  <2>1. L  BY <1>20, <1>8 DEF read_seekg
  <2>2. TypeOK'
    BY <1>1, <1>8, <1>21, <1>22, <2>1 DEF read_seekg, SeekTo, Crosses, Goto, L, TypeOK, ListsTyped
  <2>3. ASSUME NEW u \in Reader, pc'[u] = "read", u \notin crossed', ~failed'[Sst(u)']
        PROVE  position'[Sst(u)'] = offset[want'[u]]
    <3>1. Sst(u)' = Sst(u) /\ failed' = failed /\ want' = want  BY <1>8 DEF read_seekg, Sst
    <3>2. CASE u = t
      BY <1>1, <1>8, <1>21, <2>3, <3>1, <3>2 DEF read_seekg, SeekTo, TypeOK
    <3>3. CASE u # t
      <4>1. pc[u] = "read" /\ u \notin crossed
        BY <1>1, <1>8, <2>3, <3>3 DEF read_seekg, Goto, TypeOK
      <4>2. Sst(u) # Sst(t)  BY <1>8, <2>3, <3>3, <4>1 DEF read_seekg, Crosses
      <4>3. position'[Sst(u)] = position[Sst(u)]
        BY <1>1, <1>8, <1>21, <4>2 DEF read_seekg, SeekTo, TypeOK
      <4> QED  BY <1>1, <2>3, <3>1, <4>1, <4>3 DEF BlockInv
    <3> QED  BY <3>2, <3>3
  <2>4. ASSUME NEW u \in Reader, pc'[u] = "put"
        PROVE  Passes(block'[u], want'[u]) /\ (u \notin crossed' => block'[u] = want'[u])
    BY <1>1, <1>8, <2>4 DEF read_seekg, Goto, TypeOK, BlockInv
  <2>5. BlockInv'
    BY <1>1, <1>8, <2>1, <2>3, <2>4 DEF read_seekg, L, BlockInv, Passes
  <2> QED  BY <2>1, <2>2, <2>5 DEF Inv, L
<1>9. ASSUME NEW t \in Reader, read_bytes(t) PROVE Inv'
  <2>1. L  BY <1>20, <1>9 DEF read_bytes
  <2>2. \A b \in Decoded(t) : Passes(b, want[t])  BY DEF Decoded, Passes, Sst
  <2>3. TypeOK'
    <3>1. position' \in [DOMAIN file_size -> Nat]
      BY <1>1, <1>9, <1>21, <1>22 DEF read_bytes, TypeOK
    <3>2. crossed' \subseteq Reader  BY <1>1, <1>9 DEF read_bytes, Crosses, TypeOK
    <3>3. block' \in [Reader -> Key \cup {None}]
      BY <1>1, <1>9, <2>2 DEF read_bytes, TypeOK, Passes
    <3>4. pc' \in [Reader -> {"idle", "get", "size", "tell", "seek", "read", "put"}]
      BY <1>1, <1>9 DEF read_bytes, Goto, TypeOK
    <3> QED  BY <1>1, <1>9, <2>1, <3>1, <3>2, <3>3, <3>4 DEF read_bytes, L, TypeOK, ListsTyped
  <2>4. ASSUME NEW u \in Reader, pc'[u] = "read", u \notin crossed', ~failed'[Sst(u)']
        PROVE  position'[Sst(u)'] = offset[want'[u]]
    <3>1. Sst(u)' = Sst(u) /\ failed' = failed /\ want' = want  BY <1>9 DEF read_bytes, Sst
    <3>2. u # t  BY <1>1, <1>9, <2>4 DEF read_bytes, Goto, TypeOK
    <3>3. pc[u] = "read" /\ u \notin crossed
      BY <1>1, <1>9, <2>4, <3>2 DEF read_bytes, Goto, TypeOK
    <3>4. Sst(u) # Sst(t)  BY <1>9, <2>4, <3>2, <3>3 DEF read_bytes, Crosses
    <3>5. position'[Sst(u)] = position[Sst(u)]
      BY <1>1, <1>9, <1>21, <3>4 DEF read_bytes, TypeOK
    <3> QED  BY <1>1, <2>4, <3>1, <3>3, <3>5 DEF BlockInv
  <2>5. ASSUME NEW u \in Reader, pc'[u] = "put"
        PROVE  Passes(block'[u], want'[u]) /\ (u \notin crossed' => block'[u] = want'[u])
    <3>1. CASE u # t
      BY <1>1, <1>9, <2>5, <3>1 DEF read_bytes, Goto, TypeOK, BlockInv
    <3>2. CASE u = t
      <4>1. PICK b \in Decoded(t) : block' = [block EXCEPT ![t] = b] /\ crossed' = crossed \cup Crosses(t)
        BY <1>1, <1>9, <2>5, <3>2 DEF read_bytes, Goto, TypeOK
      <4>2. block'[t] = b /\ want' = want  BY <1>1, <1>9, <4>1 DEF read_bytes, TypeOK
      <4>3. ASSUME t \notin crossed' PROVE b = want[t]
        <5>1. pc[t] = "read" /\ ~failed[Sst(t)] /\ t \notin crossed
          BY <1>9, <4>1, <4>3 DEF read_bytes
        <5>2. offset[b] = offset[want[t]] /\ b[1] = want[t][1] /\ b \in Key
          BY <1>1, <4>1, <5>1 DEF BlockInv, Decoded, Sst
        <5> QED  BY <1>2, <5>2, FileAssumption
      <4> QED  BY <2>2, <3>2, <4>1, <4>2, <4>3
    <3> QED  BY <3>1, <3>2
  <2>6. BlockInv'
    BY <1>1, <1>9, <2>1, <2>4, <2>5 DEF read_bytes, L, BlockInv, Passes
  <2> QED  BY <2>1, <2>3, <2>6 DEF Inv, L
<1>10. ASSUME NEW t \in Reader, read_fails(t) PROVE Inv'
  <2>1. L  BY <1>20, <1>10 DEF read_fails
  <2>2. TypeOK'
    BY <1>1, <1>10, <2>1 DEF read_fails, Goto, L, TypeOK, ListsTyped
  <2>3. \A u \in Reader : pc'[u] \in {"put", "read"} => u # t /\ pc'[u] = pc[u]
    BY <1>1, <1>10 DEF read_fails, Goto, TypeOK
  <2>4. \A u \in Reader : ~failed'[Sst(u)] => ~failed[Sst(u)]
    BY <1>1, <1>10, <1>21 DEF read_fails, TypeOK
  <2>5. UNCHANGED <<block, want, suspect, position>> /\ crossed' = crossed \ {t}
    BY <1>10 DEF read_fails
  <2>6. BlockInv'
    <3>1. \A u \in Reader : Sst(u)' = Sst(u)  BY <2>5 DEF Sst
    <3> QED  BY <1>1, <2>1, <2>3, <2>4, <2>5, <3>1 DEF L, BlockInv, Passes
  <2> QED  BY <2>1, <2>2, <2>6 DEF Inv, L
<1>11. ASSUME NEW t \in Reader, put(t) PROVE Inv'
  <2>1. /\ block[t] \in Key /\ want[t] \in Key /\ Passes(block[t], want[t])
        /\ t \notin crossed => block[t] = want[t]
    BY <1>1, <1>11 DEF put, BlockInv, Passes, TypeOK
  <2>2. /\ ListInv'
        /\ \E new \in Items' : /\ new.key = want[t] /\ new.cache_block = block[t]
                               /\ \A x \in Items' : x = new \/ x \in Items
    <3>1. CASE Cached(want[t])
      <4>1. /\ update_access_count([Find(want[t]) EXCEPT !.cache_block = block[t]])
            /\ Used(want[t])
        BY <3>1, <1>11 DEF put
      <4>2. PICK x \in Items, new \in Item :
               /\ x.key = want[t] /\ new.key = want[t] /\ new.cache_block = block[t]
               /\ ListInv' /\ Items' = (Items \ {x}) \cup {new}
        BY <4>1, <3>1, <2>1, <1>1, ReplaceStep
      <4> QED  BY <4>2
    <3>2. CASE ~Cached(want[t])
      <4> DEFINE new == NewItem(want[t], block[t])
      <4>1. Insert(want[t], block[t]) /\ Used(want[t])
        BY <3>2, <1>11 DEF put
      <4>2. new.key = want[t] /\ new.cache_block = block[t]  BY DEF NewItem
      <4>3. /\ ListInv'
            /\ \/ Items' = Items \cup {new}
               \/ \E v \in Items : Items' = (Items \ {v}) \cup {new}
        BY <4>1, <3>2, <2>1, <1>1, InsertKeeps
      <4> QED  BY <4>2, <4>3
    <3> QED  BY <3>1, <3>2
  <2>3. TypeOK'
    BY <1>1, <1>11, <2>1, <2>2 DEF put, Suspects, Goto, TypeOK, ListInv, ListsTyped, stream
  <2>4. /\ suspect' = IF t \in crossed THEN suspect \cup {want[t]} ELSE suspect \ {want[t]}
        /\ crossed' = crossed \ {t} /\ UNCHANGED <<want, failed, position>>
        /\ \A u \in Reader : u # t => block'[u] = block[u]
    BY <1>1, <1>11 DEF put, Suspects, TypeOK, stream
  <2>5. \A u \in Reader : pc'[u] \in {"put", "read"} => u # t /\ pc'[u] = pc[u]
    BY <1>1, <1>11 DEF put, Goto, TypeOK
  <2>6. ASSUME NEW x \in Items'
        PROVE  Passes(x.cache_block, x.key) /\ (x.key \notin suspect' => x.cache_block = x.key)
    <3>1. PICK new \in Items' : /\ new.key = want[t] /\ new.cache_block = block[t]
                               /\ \A y \in Items' : y = new \/ y \in Items
      BY <2>2
    <3>2. CASE x = new
      BY <2>1, <2>4, <3>1, <3>2
    <3>3. CASE x # new
      <4>1. x \in Items /\ x.key # want[t]
        BY <2>2, <3>1, <3>3 DEF ListInv, Distinct
      <4>2. x.key \notin suspect' => x.key \notin suspect  BY <2>4, <4>1
      <4> QED  BY <1>1, <4>1, <4>2 DEF BlockInv
    <3> QED  BY <3>2, <3>3
  <2>7. BlockInv'
    <3>1. \A u \in Reader : Sst(u)' = Sst(u)  BY <2>4 DEF Sst
    <3> QED  BY <1>1, <2>4, <2>5, <2>6, <3>1 DEF BlockInv, Passes
  <2> QED  BY <2>2, <2>3, <2>7 DEF Inv
<1>12. CASE UNCHANGED vars
  BY <1>1, <1>12 DEF Inv, TypeOK, ListInv, ListsTyped, Distinct, MapInv, UsedInv, BlockInv,
     vars, lists, readers, stream, history, Items, Less, Greater, Cached, Passes, Sst
<1> QED
  BY <1>3, <1>4, <1>5, <1>6, <1>7, <1>8, <1>9, <1>10, <1>11, <1>12 DEF Next, Step, Done

\* The invariant holds in every reachable state.
THEOREM Invariance == Spec => []Inv
BY InitInv, NextInv, PTL DEF Spec

\* The types of the lists, the map (block_cache.cpp) and the readers.
THEOREM TypeCorrect == Spec => []TypeOK
BY Invariance, PTL DEF Inv

\* The two lists and the map agree: each key that the map has is the key of
\* exactly one item, in the list the map says; an item is in the list its count
\* calls for, and there are at most capacity_ (block_cache.cpp, put and get).
THEOREM ListsAgree == Spec => []ListsMatchMap
<1>1. Inv => ListsMatchMap
  <2> SUFFICES ASSUME Inv PROVE ListsMatchMap  OBVIOUS
  <2> DEFINE l == cache_list_less_k
             g == cache_list_greater_k
  <2>1. TypeOK /\ ListInv  BY DEF Inv
  <2>2. l \in Seq(Item) /\ g \in Seq(Item)  BY <2>1 DEF ListInv, ListsTyped
  <2>3. /\ Less = {l[i] : i \in DOMAIN l} /\ Greater = {g[i] : i \in DOMAIN g}
        /\ \A i \in DOMAIN l : l[i] \in Less
        /\ \A i \in DOMAIN g : g[i] \in Greater
    BY <2>2, Elements DEF Less, Greater
  <2>4. /\ \A x \in Items : x.key \in Key  
        /\ \A x \in Less : cache_map_[x.key] = "less" /\ x.access_count < k_
        /\ \A x \in Greater : cache_map_[x.key] = "greater" /\ x.access_count >= k_
        /\ \A key \in Key : /\ cache_map_[key] = "less" => \E x \in Less : x.key = key
                            /\ cache_map_[key] = "greater" => \E x \in Greater : x.key = key
    BY <2>1, ItemType DEF ListInv, MapInv
  <2>5. {l[i].key : i \in DOMAIN l} = {key \in Key : cache_map_[key] = "less"}
    BY <2>3, <2>4 DEF Items
  <2>6. {g[i].key : i \in DOMAIN g} = {key \in Key : cache_map_[key] = "greater"}
    BY <2>3, <2>4 DEF Items
  <2>7. Len(l) + Len(g) = Entries /\ Entries <= capacity_
    BY <2>1, EntriesAre DEF ListInv, UsedInv
  <2> QED  BY <2>1, <2>3, <2>4, <2>5, <2>6, <2>7 DEF ListsMatchMap
<1> QED  BY <1>1, Invariance, PTL

\* What read_block (sst.cpp) puts into the cache for a key is a block of its SST and
\* its size, and the block of the key itself unless another reader moved the stream
\* between seekg and read (std_file.cpp), whatever the readers do before and after.
THEOREM CacheCoherent == Spec => []Coherent
<1>1. Inv => Coherent
  <2> SUFFICES ASSUME Inv, NEW key \in Key, Cached(key)
               PROVE  /\ Find(key).cache_block[1] = key[1]
                      /\ block_size[Find(key).cache_block] = block_size[key]
                      /\ key \notin suspect => Find(key).cache_block = key
    BY DEF Coherent
  <2> QED  BY CachedIs DEF Inv, BlockInv, Passes
<1> QED  BY <1>1, Invariance, PTL
-----------------------------------------------------------------------------
(* The cache carries out the policy of LruK.tla.                           *)

Count(x)  == IF x.access_count > k_ THEN k_ ELSE x.access_count
UsesMap   == [key \in Key |-> IF ~Cached(key) THEN 0
                              ELSE IF Find(key).access_count > k_ THEN k_
                              ELSE Find(key).access_count]
Contents  == [key \in Key |-> IF ~Cached(key) THEN None ELSE Find(key).cache_block]

MapsInv ==
  /\ \A x \in Items : /\ x.key \in Key
                      /\ UsesMap[x.key] = Count(x) /\ Contents[x.key] = x.cache_block
                      /\ x.access_count \in 1 .. k_ + 1
  /\ \A key \in Key : (\A x \in Items : x.key # key)
                      => ~Cached(key) /\ UsesMap[key] = 0 /\ Contents[key] = None
  /\ \A x, y \in Items : x.key = y.key => x = y

LEMMA MapsAre == ListInv => MapsInv
<1> SUFFICES ASSUME ListInv PROVE MapsInv  OBVIOUS
<1>1. ASSUME NEW x \in Items
      PROVE  x.key \in Key /\ UsesMap[x.key] = Count(x) /\ Contents[x.key] = x.cache_block
  <2>1. x.key \in Key /\ Cached(x.key) /\ Find(x.key) = x  BY FindIs
  <2> QED  BY <2>1 DEF UsesMap, Contents, Count
<1>2. ASSUME NEW key \in Key, \A x \in Items : x.key # key
      PROVE  ~Cached(key) /\ UsesMap[key] = 0 /\ Contents[key] = None
  <2>1. ~Cached(key)  BY <1>2, CachedIs
  <2> QED  BY <2>1 DEF UsesMap, Contents
<1> QED  BY <1>1, <1>2, ItemType DEF MapsInv, ListInv, Distinct

LEMMA MapsWillBe == ListInv' => MapsInv'
BY MapsAre, PTL

\* What a get or a put of a cached key does to the two maps.
LEMMA MapsOfUse ==
  ASSUME ListInv, ListInv', NEW x \in Items, NEW new \in Item, new.key = x.key,
         new.access_count = IF x.access_count < k_ THEN x.access_count + 1 ELSE k_ + 1,
         Items' = (Items \ {x}) \cup {new}
  PROVE  /\ UsesMap[x.key] > 0
         /\ UsesMap' = [UsesMap EXCEPT ![x.key] = IF @ < k_ THEN @ + 1 ELSE k_]
         /\ Contents' = [Contents EXCEPT ![x.key] = new.cache_block]
<1>1. MapsInv /\ MapsInv'  BY MapsAre, MapsWillBe
<1>2. k_ \in Nat \ {0, 1}  BY BlockCacheAssumption
<1>3. /\ x.key \in Key /\ x.access_count \in 1 .. k_ + 1
      /\ UsesMap[x.key] = Count(x) /\ UsesMap'[x.key] = Count(new)
      /\ Contents'[x.key] = new.cache_block
  BY <1>1 DEF MapsInv
<1>4. /\ UsesMap[x.key] > 0
      /\ UsesMap'[x.key] = IF UsesMap[x.key] < k_ THEN UsesMap[x.key] + 1 ELSE k_
  BY <1>2, <1>3 DEF Count
<1>5. ASSUME NEW key \in Key, key # x.key
      PROVE  UsesMap'[key] = UsesMap[key] /\ Contents'[key] = Contents[key]
  <2>1. CASE \E y \in Items : y.key = key
    <3>1. PICK y \in Items : y.key = key  BY <2>1
    <3>2. y \in Items'  BY <3>1, <1>5
    <3> QED  BY <3>1, <3>2, <1>1 DEF MapsInv
  <2>2. CASE \A y \in Items : y.key # key
    <3>1. \A y \in Items' : y.key # key  BY <2>2, <1>5
    <3> QED  BY <2>2, <3>1, <1>1 DEF MapsInv
  <2> QED  BY <2>1, <2>2
<1>6. /\ DOMAIN UsesMap = Key /\ DOMAIN UsesMap' = Key
      /\ DOMAIN Contents = Key /\ DOMAIN Contents' = Key
      /\ UsesMap = [key \in Key |-> UsesMap[key]] /\ UsesMap' = [key \in Key |-> UsesMap'[key]]
      /\ Contents = [key \in Key |-> Contents[key]]
      /\ Contents' = [key \in Key |-> Contents'[key]]
  BY DEF UsesMap, Contents
<1> HIDE DEF UsesMap, Contents
<1>7. UsesMap' = [UsesMap EXCEPT ![x.key] = IF @ < k_ THEN @ + 1 ELSE k_]
  BY <1>3, <1>4, <1>5, <1>6
<1>8. Contents' = [Contents EXCEPT ![x.key] = new.cache_block]
  BY <1>3, <1>5, <1>6
<1> QED  BY <1>4, <1>7, <1>8

UsesAfter(key, Gone) ==
  [k \in Key |-> IF k = key THEN 1
                 ELSE IF \E v \in Gone : v.key = k THEN 0 ELSE UsesMap[k]]
ContentsAfter(key, b, Gone) ==
  [k \in Key |-> IF k = key THEN b
                 ELSE IF \E v \in Gone : v.key = k THEN None ELSE Contents[k]]

\* What a put of a new key does to them: gone is the key it evicts, if any.
LEMMA MapsOfLoad ==
  ASSUME ListInv, ListInv', NEW key \in Key, NEW b \in Key, NEW Gone,
         Gone = {} \/ \E v \in Items : Gone = {v},
         \A x \in Items : x.key # key,
         Items' = (Items \ Gone) \cup {NewItem(key, b)}
  PROVE  /\ UsesMap[key] = 0
         /\ UsesMap' = UsesAfter(key, Gone) /\ Contents' = ContentsAfter(key, b, Gone)
<1> DEFINE new == NewItem(key, b)
<1>1. MapsInv /\ MapsInv'  BY MapsAre, MapsWillBe
<1>2. k_ \in Nat \ {0, 1}  BY BlockCacheAssumption
<1>3. new.key = key /\ new.cache_block = b /\ new.access_count = 1 /\ new \in Items'
  BY DEF NewItem
<1> HIDE DEF new
<1>4. UsesMap[key] = 0 /\ UsesMap'[key] = 1 /\ Contents'[key] = b
  <2>1. Count(new) = 1  BY <1>2, <1>3 DEF Count
  <2> QED  BY <2>1, <1>1, <1>3 DEF MapsInv
<1>5. ASSUME NEW k \in Key, k # key
      PROVE  /\ UsesMap'[k] = IF \E v \in Gone : v.key = k THEN 0 ELSE UsesMap[k]
             /\ Contents'[k] = IF \E v \in Gone : v.key = k THEN None ELSE Contents[k]
  <2>1. CASE \E v \in Gone : v.key = k
    <3>1. \A y \in Items' : y.key # k  BY <2>1, <1>1, <1>3, <1>5 DEF MapsInv, new
    <3> QED  BY <2>1, <3>1, <1>1 DEF MapsInv
  <2>2. CASE (\A v \in Gone : v.key # k) /\ \E y \in Items : y.key = k
    <3>1. PICK y \in Items : y.key = k  BY <2>2
    <3>2. y \in Items'  BY <3>1, <2>2
    <3> QED  BY <2>2, <3>1, <3>2, <1>1 DEF MapsInv
  <2>3. CASE (\A v \in Gone : v.key # k) /\ \A y \in Items : y.key # k
    <3>1. \A y \in Items' : y.key # k  BY <2>3, <1>3, <1>5 DEF new
    <3> QED  BY <2>3, <3>1, <1>1 DEF MapsInv
  <2> QED  BY <2>1, <2>2, <2>3
<1>6. UsesMap' = [k \in Key |-> UsesMap'[k]] /\ Contents' = [k \in Key |-> Contents'[k]]
  BY DEF UsesMap, Contents
<1> HIDE DEF UsesMap, Contents
<1> QED  BY <1>4, <1>5, <1>6 DEF UsesAfter, ContentsAfter

-----------------------------------------------------------------------------
(* The operators of LruK.tla, for the two maps.                            *)

LEMMA LruOperators ==
  /\ \A s, e : Lru!RemoveFirst(s, e) = RemoveFirst(s, e)
  /\ \A S : Lru!Max(S) = Max(S)
<1>1. ASSUME NEW s, NEW e PROVE Lru!RemoveFirst(s, e) = RemoveFirst(s, e)
  <2>1. \A i : Lru!RemoveAt(s, i) = RemoveAt(s, i)  BY DEF Lru!RemoveAt, RemoveAt
  <2>2. Lru!SelectInSeq(s, LAMBDA v : v = e) = SelectInSeq(s, LAMBDA v : v = e)
    BY DEF Lru!SelectInSeq, SelectInSeq, Lru!Min, Min
  <2> QED  BY <2>1, <2>2 DEF Lru!RemoveFirst, RemoveFirst
<1>2. ASSUME NEW S PROVE Lru!Max(S) = Max(S)  BY DEF Lru!Max, Max
<1> QED  BY <1>1, <1>2

LEMMA UseIs ==
  ASSUME NEW key
  PROVE  Lru!Use(key) <=> /\ UsesMap[key] > 0
                          /\ used' = Updated(used, key, key)
                          /\ UsesMap' = [UsesMap EXCEPT ![key] = IF @ < k_ THEN @ + 1 ELSE k_]
<1>1. Lru!RemoveFirst(used, key) = RemoveFirst(used, key)  BY LruOperators
<1> QED  BY <1>1, Zenon DEF Lru!Use, UsesMap, Updated

LEMMA HitIs == ASSUME NEW key, Lru!Use(key), Contents' = Contents PROVE Lru!Hit(key)
BY Zenon DEF Lru!Hit, Contents

LEMMA ReplaceIs ==
  ASSUME NEW key, NEW b, Lru!Use(key), Contents' = [Contents EXCEPT ![key] = b]
  PROVE  Lru!Replace(key, b)
BY Zenon DEF Lru!Replace, Contents

LEMMA VictimIs == Lru!Victim = used[Max(IF Lru!Rare # {} THEN Lru!Rare ELSE DOMAIN used)]
<1>1. \A S : Lru!Max(S) = Max(S)  BY LruOperators
<1> QED  BY <1>1, Zenon DEF Lru!Victim

LEMMA MapsDomain == /\ UsesMap = [k \in Key |-> UsesMap[k]]
                   /\ Contents = [k \in Key |-> Contents[k]]
BY DEF UsesMap, Contents

LEMMA LoadIs ==
  ASSUME NEW key \in Key, NEW b, UsesMap[key] = 0,
         Len(used) < capacity_, used' = Pushed(used, key),
         UsesMap' = UsesAfter(key, {}), Contents' = ContentsAfter(key, b, {})
  PROVE  Lru!Load(key, b)
<1>1. /\ UsesMap' = [UsesMap EXCEPT ![key] = 1]
      /\ Contents' = [Contents EXCEPT ![key] = b]
  BY MapsDomain DEF UsesAfter, ContentsAfter
<1> QED  BY <1>1, Zenon DEF Lru!Load, UsesMap, Contents, Pushed

LEMMA LoadFullIs ==
  ASSUME NEW key \in Key, NEW b, UsesMap[key] = 0,
         NEW v, v.key \in Key, v.key # key, v.key = Lru!Victim,
         Len(used) = capacity_, used' = Updated(used, v.key, key),
         UsesMap' = UsesAfter(key, {v}), Contents' = ContentsAfter(key, b, {v})
  PROVE  Lru!Load(key, b)
<1>1. /\ UsesMap' = [UsesMap EXCEPT ![key] = 1, ![v.key] = 0]
      /\ Contents' = [Contents EXCEPT ![key] = b, ![v.key] = None]
  BY MapsDomain DEF UsesAfter, ContentsAfter
<1>2. /\ UsesMap' = [UsesMap EXCEPT ![key] = 1, ![Lru!Victim] = 0]
      /\ Contents' = [Contents EXCEPT ![key] = b, ![Lru!Victim] = None]
      /\ used' = Updated(used, Lru!Victim, key)
  BY <1>1, Zenon
<1>3. Lru!RemoveFirst(used, Lru!Victim) = RemoveFirst(used, Lru!Victim)  BY LruOperators
<1> QED  BY <1>2, <1>3, Zenon DEF Lru!Load, UsesMap, Contents, Updated

\* The victim of the policy is the last of the list that put takes it from.
LEMMA VictimIsLast ==
  ASSUME ListInv, Len(used) = capacity_
  PROVE  LET v == Last(IF cache_list_less_k # <<>> THEN cache_list_less_k
                       ELSE cache_list_greater_k)
         IN  v \in Items /\ Lru!Victim = v.key
<1> DEFINE l    == cache_list_less_k
           g    == cache_list_greater_k
           v    == Last(IF l # <<>> THEN l ELSE g)
           Rare == {i \in DOMAIN used : UsesMap[used[i]] < k_}
           From == IF Rare # {} THEN Rare ELSE DOMAIN used
<1>1. /\ l \in Seq(Item) /\ g \in Seq(Item) /\ used \in Seq(Key) /\ IsInjective(used)
      /\ Ordered(l, used) /\ Ordered(g, used) /\ ToSet(used) = {key \in Key : Cached(key)}
      /\ Len(used) = Len(l) + Len(g) /\ capacity_ \in Nat \ {0} /\ k_ \in Nat \ {0, 1}
  BY BlockCacheAssumption DEF ListInv, ListsTyped, UsedInv
<1>2. l # <<>> \/ g # <<>>  BY <1>1
<1>3. /\ l # <<>> => v \in Less /\ \A y \in Less : y # v => Precedes(l, y, v)
      /\ l = <<>> => v \in Greater /\ \A y \in Greater : y # v => Precedes(g, y, v)
      /\ l = <<>> <=> Less = {}
  <2>1. ASSUME NEW s \in Seq(Item), s # <<>>
        PROVE  Last(s) \in ToSet(s) /\ \A y \in ToSet(s) : y # Last(s) => Precedes(s, y, Last(s))
    BY <2>1, PopBack, LastAfter
  <2>2. l = <<>> => Less = {}  BY DEF Less, ToSet
  <2> QED  BY <1>1, <1>2, <2>1, <2>2 DEF Less, Greater
<1> HIDE DEF v
<1>4. MapsInv  BY MapsAre
<1>5. /\ \A x \in Less : x.access_count < k_
      /\ \A x \in Greater : x.access_count >= k_
      /\ Less \subseteq Items /\ Greater \subseteq Items
  BY DEF ListInv, MapInv, Items
<1>6. \A x \in Items : /\ x.key \in ToSet(used) /\ x.access_count \in Nat
                       /\ UsesMap[x.key] < k_ <=> x \in Less
  <2>1. ASSUME NEW x \in Items
        PROVE  /\ x.key \in ToSet(used) /\ x.access_count \in Nat
               /\ UsesMap[x.key] < k_ <=> x \in Less
    <3>1. x.key \in Key /\ Cached(x.key)  BY FindIs
    <3>2. UsesMap[x.key] = Count(x) /\ x.access_count \in 1 .. k_ + 1
      BY <1>4 DEF MapsInv
    <3>3. x \in Less \/ x \in Greater  BY DEF Items
    <3> QED  BY <3>1, <3>2, <3>3, <1>1, <1>5 DEF Count
  <2> QED  BY <2>1
<1>7. \A key \in ToSet(used) : \E x \in Items : x.key = key
  BY <1>1, CachedIs
<1>8. DOMAIN used = 1 .. Len(used) /\ Len(used) \in Nat /\ \A i \in DOMAIN used : used[i] \in ToSet(used)
  BY <1>1, Elements
<1>9. v \in Items  BY <1>3, <1>5
<1>10. PICK p \in DOMAIN used : used[p] = v.key
  <2>1. v.key \in ToSet(used)  BY <1>6, <1>9
  <2>2. \A e \in ToSet(used) : \E i \in 1 .. Len(used) : e = used[i]  BY <1>1, Elements
  <2> QED  BY <2>1, <2>2, <1>8
<1>11. p \in From
  <2>1. CASE l # <<>>
    <3>1. p \in Rare  BY <2>1, <1>3, <1>6, <1>9, <1>10
    <3> QED  BY <3>1
  <2>2. CASE l = <<>>
    <3>1. Rare = {}  BY <2>2, <1>3, <1>6, <1>7, <1>8
    <3> QED  BY <3>1
  <2> QED  BY <2>1, <2>2
<1>12. ASSUME NEW i \in From PROVE p >= i
  <2>1. i \in DOMAIN used  OBVIOUS
  <2>2. PICK y \in Items : y.key = used[i]  BY <2>1, <1>7, <1>8
  <2>3. CASE y = v
    <3>1. i = p  BY <2>1, <2>2, <2>3, <1>1, <1>10 DEF IsInjective
    <3> QED  BY <3>1, <2>1, <1>8
  <2>4. CASE y # v
    <3>1. Precedes(used, y.key, v.key)
      <4>1. CASE l # <<>>
        <5>1. i \in Rare  BY <4>1, <1>3, <1>6, <1>9, <1>10
        <5>2. y \in Less  BY <5>1, <2>2, <1>6
        <5> QED  BY <5>2, <4>1, <2>4, <1>1, <1>3 DEF Ordered
      <4>2. CASE l = <<>>
        <5>1. y \in Greater  BY <4>2, <1>3 DEF Items
        <5> QED  BY <5>1, <4>2, <2>4, <1>1, <1>3 DEF Ordered
      <4> QED  BY <4>1, <4>2
    <3>2. PICK m, n \in DOMAIN used : m < n /\ used[m] = y.key /\ used[n] = v.key
      BY <3>1 DEF Precedes
    <3>3. m = i /\ n = p  BY <3>2, <2>1, <2>2, <1>1, <1>10 DEF IsInjective
    <3> QED  BY <3>2, <3>3, <2>1, <1>8
  <2> QED  BY <2>3, <2>4
<1>13. Max(From) = p
  <2>1. \A i \in From : i \in Int  BY <1>8
  <2> HIDE DEF From
  <2> QED  BY <2>1, <1>11, <1>12 DEF Max
<1>14. Lru!Rare = Rare  BY Zenon DEF Lru!Rare, UsesMap
<1>15. Lru!Victim = v.key  BY <1>10, <1>13, <1>14, VictimIs
<1> QED  BY <1>9, <1>15 DEF v

LruVars == <<used, UsesMap, Contents>>

\* Every step of the cache (block_cache.cpp) is a step of the policy or none of
\* its business: a get that finds the block is a use of it, a put of a cached
\* block replaces it, and a put of a new one evicts the policy's victim when the
\* cache is full.
THEOREM Implements == Spec => ImplementsLru
<1>1. Init => Lru!LruInit
  <2> SUFFICES ASSUME Init PROVE Lru!LruInit  OBVIOUS
  <2> QED  BY DEF Init, Lru!LruInit, Cached
<1>2. Inv /\ Inv' /\ [Next]_vars => [Lru!LruNext]_LruVars
  <2> SUFFICES ASSUME Inv, Inv', [Next]_vars PROVE [Lru!LruNext]_LruVars  OBVIOUS
  <2>1. ListInv /\ ListInv' /\ \A t \in Reader : want[t] \in Key  BY DEF Inv, TypeOK
  <2>2. UNCHANGED <<lists, used>> => UNCHANGED LruVars
    BY DEF LruVars, lists, UsesMap, Contents, Cached, Find
  <2>3. ASSUME NEW t \in Reader, get_hit(t) PROVE Lru!LruNext
    <3>1. PICK x \in Items, new \in Item :
             /\ x.key = want[t] /\ new.key = want[t] /\ new.cache_block = x.cache_block
             /\ new.access_count = IF x.access_count < k_ THEN x.access_count + 1 ELSE k_ + 1
             /\ Items' = (Items \ {x}) \cup {new}
             /\ used' = Updated(used, want[t], want[t])
      <4>1. /\ Cached(want[t]) /\ update_access_count(Find(want[t])) /\ Used(want[t])
        BY <2>3 DEF get_hit
      <4> QED  BY <4>1, <2>1, GetStep
    <3>2. /\ UsesMap[x.key] > 0
          /\ UsesMap' = [UsesMap EXCEPT ![x.key] = IF @ < k_ THEN @ + 1 ELSE k_]
          /\ Contents' = [Contents EXCEPT ![x.key] = new.cache_block]
      BY <3>1, <2>1, MapsOfUse
    <3>3. Contents' = Contents
      <4>1. Contents[x.key] = x.cache_block  BY <2>1, MapsAre DEF MapsInv
      <4> QED  BY <4>1, <3>1, <3>2 DEF Contents
    <3>4. Lru!Hit(want[t])
      BY <3>1, <3>2, <3>3, UseIs, HitIs
    <3> QED  BY <3>4, <2>1 DEF Lru!LruNext
  <2>4. ASSUME NEW t \in Reader, put(t) PROVE block[t] \in Key
    BY <2>4 DEF put, Inv, BlockInv, Passes
  <2>5. ASSUME NEW t \in Reader, put(t), Cached(want[t]) PROVE Lru!LruNext
    <3>1. PICK x \in Items, new \in Item :
             /\ x.key = want[t] /\ new.key = want[t] /\ new.cache_block = block[t]
             /\ new.access_count = IF x.access_count < k_ THEN x.access_count + 1 ELSE k_ + 1
             /\ Items' = (Items \ {x}) \cup {new}
             /\ used' = Updated(used, want[t], want[t])
      <4>1. /\ update_access_count([Find(want[t]) EXCEPT !.cache_block = block[t]])
            /\ Used(want[t])
        BY <2>5 DEF put
      <4> QED  BY <4>1, <2>1, <2>4, <2>5, ReplaceStep
    <3>2. /\ UsesMap[x.key] > 0
          /\ UsesMap' = [UsesMap EXCEPT ![x.key] = IF @ < k_ THEN @ + 1 ELSE k_]
          /\ Contents' = [Contents EXCEPT ![x.key] = new.cache_block]
      BY <3>1, <2>1, MapsOfUse
    <3>3. Lru!Replace(want[t], block[t])
      BY <3>1, <3>2, UseIs, ReplaceIs
    <3> QED  BY <3>3, <2>1, <2>4, <2>5 DEF Lru!LruNext
  <2>6. ASSUME NEW t \in Reader, put(t), ~Cached(want[t]) PROVE Lru!LruNext
    <3> DEFINE key  == want[t]
               b    == block[t]
               last == Last(IF cache_list_less_k # <<>> THEN cache_list_less_k
                            ELSE cache_list_greater_k)
    <3>1. key \in Key /\ b \in Key /\ Insert(key, b) /\ Used(key) /\ ~Cached(key)
      BY <2>1, <2>4, <2>6 DEF put
    <3>2. \A x \in Items : x.key # key  BY <2>1, <3>1, FindIs
    <3> HIDE DEF key, b
    <3>3. \/ /\ Len(used) < capacity_ /\ used' = Pushed(used, key)
            /\ Items' = Items \cup {NewItem(key, b)}
         \/ /\ Len(used) = capacity_
            /\ \E v \in Items : /\ v = last
                               /\ used' = Updated(used, v.key, key)
                               /\ Items' = (Items \ {v}) \cup {NewItem(key, b)}
      BY <2>1, <3>1, InsertKeeps
    <3>4. CASE /\ Len(used) < capacity_ /\ used' = Pushed(used, key)
               /\ Items' = Items \cup {NewItem(key, b)}
      <4>1. /\ UsesMap[key] = 0
            /\ UsesMap' = UsesAfter(key, {}) /\ Contents' = ContentsAfter(key, b, {})
        BY <2>1, <3>1, <3>2, <3>4, MapsOfLoad
      <4>2. Lru!Load(key, b)  BY <4>1, <3>1, <3>4, LoadIs
      <4> QED  BY <4>2, <3>1 DEF Lru!LruNext
    <3>5. CASE /\ Len(used) = capacity_
               /\ \E v \in Items : /\ v = last
                                  /\ used' = Updated(used, v.key, key)
                                  /\ Items' = (Items \ {v}) \cup {NewItem(key, b)}
      <4>1. last \in Items /\ Lru!Victim = last.key  BY <2>1, <3>5, VictimIsLast
      <4> HIDE DEF last
      <4>2. /\ used' = Updated(used, last.key, key)
            /\ Items' = (Items \ {last}) \cup {NewItem(key, b)}
        BY <3>5
      <4>3. /\ UsesMap[key] = 0
            /\ UsesMap' = UsesAfter(key, {last}) /\ Contents' = ContentsAfter(key, b, {last})
        BY <2>1, <3>1, <3>2, <4>1, <4>2, MapsOfLoad
      <4>4. last.key \in Key /\ last.key # key  BY <2>1, <3>2, <4>1, FindIs
      <4>5. Lru!Load(key, b)
        BY <4>1, <4>2, <4>3, <4>4, <3>1, <3>5, LoadFullIs
      <4> QED  BY <4>5, <3>1 DEF Lru!LruNext
    <3> QED  BY <3>3, <3>4, <3>5
  <2> QED
    BY <2>2, <2>3, <2>5, <2>6 DEF Next, Step, Done, read_block, get_miss, size_seekg, size_tellg,
       read_seekg, read_bytes, read_fails, history, vars
<1> QED  BY <1>1, <1>2, Invariance, PTL DEF Spec, ImplementsLru, Lru!LruSpec, LruVars,
         UsesMap, Contents
=============================================================================
