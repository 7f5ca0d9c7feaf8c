------------------------------ MODULE VersionMap ------------------------------
(***************************************************************************)
(* What a skip list promises its users: a map from versions <<key,         *)
(* tranc_id>> to values. SkipList.tla implements it; the tables of         *)
(* Memtable.tla are such maps.                                             *)
(***************************************************************************)
EXTENDS Integers

CONSTANTS Key, Tranc, Value, None

Version == Key \X Tranc

VARIABLE map

Empty == [v \in Version |-> None]

\* The versions of k a reader with id tr may see; 0 sees all of them.
Readable(m, k, tr) == {r \in Tranc : m[<<k, r>>] # None /\ (tr = 0 \/ r <= tr)}

Newest(S) == CHOOSE r \in S : \A q \in S : q <= r

\* What get answers: the version, or None.
Read(m, k, tr) ==
  IF Readable(m, k, tr) = {} THEN None ELSE <<k, Newest(Readable(m, k, tr))>>

Write(v, x) == map' = [map EXCEPT ![v] = x]

DropNewest(k) == Read(map, k, 0) # None /\ map' = [map EXCEPT ![Read(map, k, 0)] = None]

\* clear, or the process dies with the list.
DropAll == map' = Empty

MapInit == map = Empty

MapNext ==
  \/ \E v \in Version, x \in Value : Write(v, x)
  \/ \E k \in Key : DropNewest(k)
  \/ DropAll

MapSpec == MapInit /\ [][MapNext]_map
=============================================================================
