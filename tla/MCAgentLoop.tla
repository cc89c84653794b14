---------------------------- MODULE MCAgentLoop ----------------------------
(***************************************************************************)
(* A small instance of AgentLoop for TLC.                                  *)
(***************************************************************************)
EXTENDS AgentLoopProperties, TLC

CONSTANTS s1

Speaks(finish, asked) == [finish |-> finish, calls |-> asked, says |-> TRUE]
Quiet(finish, asked) == [finish |-> finish, calls |-> asked, says |-> FALSE]

(* A reply, a paused one, tool calls (one of them bad), a reply and calls    *)
(* cut at the limit, and one id for two calls.                               *)
SomeReplies ==
    {Speaks("stop", <<>>), Speaks("pause", <<>>), Quiet("tool-calls", <<"good", "bad", "good">>),
     Speaks("length", <<>>), Quiet("length", <<"good">>), Quiet("stop", <<"twin">>)}
=============================================================================
