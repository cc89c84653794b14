---------------------------- MODULE MCInboxDrain ----------------------------
(***************************************************************************)
(* Small instances of InboxDrain for TLC.                                  *)
(***************************************************************************)
EXTENDS InboxDrainProperties, TLC

CONSTANTS x1, x2, w1, w2, n1, n2, u1, r1, none

Nothing == <<>>
ANotice == <<n1>>
AnInput == <<u1>>
Both == <<n1, u1>>
=============================================================================
