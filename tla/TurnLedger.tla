------------------------------ MODULE TurnLedger ------------------------------
(***************************************************************************)
(* A session as its users see it, whoever serves them: turns, numbered     *)
(* from 1, each begun by a run, at most one of them open and that the last *)
(* one.  A turn ends once, for a reason, and takes what it stored with it: *)
(* nothing is added to a turn that ended, and nothing a turn stored is     *)
(* ever taken back, unless the session is removed with all of it.          *)
(***************************************************************************)
EXTENDS Integers

CONSTANTS Run, Reason

VARIABLES begun,   \* how many turns began
          turns    \* for each, its run, how it ended ("open" until then) and what it stored

seen == <<begun, turns>>

IsOpen == begun # 0 /\ turns[begun].reason = "open"

Init == begun = 0 /\ turns = <<>>

(* No turn but the last is touched.                                          *)
KeepsOthers == DOMAIN turns' = 1..begun' /\ \A n \in 1..(begun - 1) : turns'[n] = turns[n]

(* The last turn keeps its run and what it stored.                           *)
KeepsLast ==
    /\ turns'[begun].run = turns[begun].run
    /\ turns[begun].stored \subseteq turns'[begun].stored

(* A turn begins, after one that has ended or ends now.                      *)
NewTurn ==
    /\ begun' = begun + 1
    /\ turns'[begun + 1].run \in Run /\ turns'[begun + 1].reason = "open"
    /\ turns'[begun + 1].stored = {}

Begins ==
    /\ ~IsOpen
    /\ NewTurn /\ KeepsOthers
    /\ begun # 0 => turns'[begun] = turns[begun]

Ends ==
    /\ IsOpen /\ begun' = begun /\ KeepsOthers /\ KeepsLast
    /\ turns'[begun].reason \in Reason

TakesOver ==
    /\ IsOpen /\ NewTurn /\ KeepsOthers /\ KeepsLast
    /\ turns'[begun].reason \in Reason

Stores ==
    /\ IsOpen /\ begun' = begun /\ KeepsOthers /\ KeepsLast
    /\ turns'[begun].reason = "open"

Removed == begun' = 0 /\ turns' = <<>>

Next == Begins \/ Ends \/ TakesOver \/ Stores \/ Removed

Spec == Init /\ [][Next]_seen
=============================================================================
