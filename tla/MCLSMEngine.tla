----------------------------- MODULE MCLSMEngine ------------------------------
(***************************************************************************)
(* Small instances of LSMEngine.tla.                                       *)
(***************************************************************************)
EXTENDS LSMEngine, TLC

CONSTANTS a, b, k1, k2, v1, v2

MCValueBytes == (v1 :> 1) @@ (v2 :> 3)

\* put(k2, v1), remove(k1), put_batch({k1, v2}, {k2, v2})
MCBatch == {<< <<k2, v1>> >>, << <<k1, Tombstone>> >>, << <<k1, v2>>, <<k2, v2>> >>}

MCKeyList == {<<k1>>, <<k2>>}
=============================================================================
