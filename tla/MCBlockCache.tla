----------------------------- MODULE MCBlockCache -----------------------------
(***************************************************************************)
(* A small instance of BlockCache.tla: an SST of two blocks of one size,   *)
(* which can be taken for each other, and one of one block.                *)
(***************************************************************************)
EXTENDS BlockCache

MCKey  == {<<1, 0>>, <<1, 1>>, <<2, 0>>}
MCOffset == [key \in MCKey |-> 5 * key[2]]
MCBlockSize == [key \in MCKey |-> 5]

\* Behind the blocks of the first SST there are enough bytes for another one.
MCFileSize == <<15, 7>>

\* Nothing tells readers apart.
Symmetry == Permutations(Reader)
=============================================================================
