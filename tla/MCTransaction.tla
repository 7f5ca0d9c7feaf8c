---------------------------- MODULE MCTransaction -----------------------------
(***************************************************************************)
(* Small instances of Transaction.tla.                                     *)
(***************************************************************************)
EXTENDS Transaction, TLC

\* Threads have no order, and keys none but that of a loop in any order.
MCSymmetry == Permutations(Thread) \cup Permutations(Key)
=============================================================================
