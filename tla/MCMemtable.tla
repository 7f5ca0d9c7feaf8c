------------------------------ MODULE MCMemtable ------------------------------
(***************************************************************************)
(* A small instance of Memtable.tla.                                       *)
(***************************************************************************)
EXTENDS Memtable, TLC

CONSTANTS a, b, c, k1, k2, v1, v2

MCValueBytes == (v1 :> 1) @@ (v2 :> 3)

\* put(k1, v1), put(k1, v2), remove(k1), put_batch({k1, v2}, {k2, v2})
MCBatch == {<< <<k1, v1>> >>, << <<k1, Tombstone>> >>, << <<k1, v2>>, <<k2, v2>> >>}

\* get(k1), get_batch({k1, k2})
MCKeyList == {<<k1, k2>>}

ThreadSymmetry == Permutations(Thread)
=============================================================================
