----------------------------- MODULE MCSSTBuilder -----------------------------
(***************************************************************************)
(* A small instance of SSTBuilder.tla.                                     *)
(***************************************************************************)
EXTENDS SSTBuilder

\* Hashes that share bits between keys and wrap around the word.
MCHash1 == [k \in Key |-> 7 * k]
MCHash2 == [k \in Key |-> k + 11]
=============================================================================
