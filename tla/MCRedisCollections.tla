-------------------------- MODULE MCRedisCollections ---------------------------
(***************************************************************************)
(* Small instances of RedisCollections.tla.                                *)
(***************************************************************************)
EXTENDS RedisCollections

\* The scores "1", "01" and "1.5", in halves; the increments 1 and
\* -1.5, with which sums lose a fraction, wrap, and are too long for the next.
MCScore     == {<<2, 0>>, <<2, 1>>, <<3, 0>>}
MCIncrement == {2, -3}

\* Threads, values of fields, and members have no order.
MCSymmetry == Permutations(Thread) \cup Permutations(Value) \cup Permutations(Member)
=============================================================================
