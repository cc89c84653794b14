--------------------------- MODULE MCProcessHost ---------------------------
(***************************************************************************)
(* A small instance of ProcessHost for TLC.                                *)
(***************************************************************************)
EXTENDS ProcessHostProperties, TLC

CONSTANTS i1, i2,            \* two request ids
          b1                 \* a fiber that runs turns beside the workers

Senders == Id \cup Background \cup {Reader, Main}
Ids == Permutations({i1, i2})
=============================================================================
