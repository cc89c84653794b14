---------------------------- MODULE MCTurnWriter ----------------------------
(***************************************************************************)
(* A small instance of TurnWriter for TLC.                                 *)
(***************************************************************************)
EXTENDS TurnWriterProperties, TLC

CONSTANTS a1, a2, t1, f1, e1, w1, z

SomeCalls == {a1, a2, t1, w1, f1, e1, z}
SomeKinds == a1 :> "append" @@ a2 :> "append" @@ t1 :> "transact" @@ w1 :> "write" @@ f1 :> "flush" @@ e1 :> "end" @@ z :> "end"
SomeFibers == a2 :> a1 @@ t1 :> a2 @@ e1 :> t1 @@ f1 :> w1 @@ [c \in SomeCalls |-> NoCall]
=============================================================================
