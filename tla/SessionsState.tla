---------------------------- MODULE SessionsState ----------------------------
(***************************************************************************)
(* The state the sessions plugin keeps in a session's head, and the pure   *)
(* decisions over it: how many turns began, the open turn (who holds it,   *)
(* until when, and whether its final reply sealed it) and the inbox.  A    *)
(* slot holds a notice or a queued user input; `by` is the turn that took  *)
(* it, 0 while it waits.  The order of the inbox is left out: what a drain *)
(* takes next may be any waiting slot.                                     *)
(***************************************************************************)
EXTENDS Integers, FiniteSets

CONSTANTS Instance,           \* Sessions instances over one log
          Run,                \* run ids
          Notice,             \* ids of delivered inbox items
          Input,              \* ids of queued user inputs
          Steer,              \* the inputs a running turn may take
          NoInstance, NoRun, NoItem,
          Attempts            \* config.inbox.attempts

ASSUME StateConstants ==
    /\ Steer \subseteq Input
    /\ Notice \cap Input = {}
    /\ NoItem \notin Notice \cup Input
    /\ NoRun \notin Run
    /\ NoInstance \notin Instance
    /\ Attempts \in Nat \ {0}

Item == Notice \cup Input

Seal == {"none", "completed", "partial"}

(* How a turn ends, and the code of the failure a close from elsewhere gives it. *)
Reason == {"completed", "partial", "failed", "waiting", "cancelled", "interrupted"}
Code == {"own", "sealed", "cancelled", "turn.lease", "turn.takeover", "turn.shutdown",
         "turn.time-limit", "turn.interrupted", "turn.unended"}

Slot == [in : BOOLEAN, attempts : Nat, by : Nat]
NoSlot == [in |-> FALSE, attempts |-> 0, by |-> 0]
NewSlot == [in |-> TRUE, attempts |-> 0, by |-> 0]

(* expiresAt = 0 is a turn taken under process ownership. *)
OpenTurn == [turn : Nat, run : Run \cup {NoRun}, holder : Instance \cup {NoInstance},
             expiresAt : Nat, sealed : Seal]
NoTurn == [turn |-> 0, run |-> NoRun, holder |-> NoInstance, expiresAt |-> 0, sealed |-> "none"]

State == [turns : Nat, open : OpenTurn, inbox : [Item -> Slot]]
InitialState == [turns |-> 0, open |-> NoTurn, inbox |-> [i \in Item |-> NoSlot]]

IsOpen(s) == s.open.turn # 0

(* The inbox slots waiting for a turn. *)
PendingOf(s) == {i \in Item : s.inbox[i].in /\ s.inbox[i].by = 0}

(* The slots the open turn took. *)
TakenBy(s) == {i \in Item : s.inbox[i].in /\ s.inbox[i].by # 0 /\ s.inbox[i].by = s.open.turn}

(* Whether a turn that ends so is done with an item it took: an input waits  *)
(* again after a partial reply, a notice does not.                           *)
DoneWithPartly(i, reason) == reason \in {"completed", "partial", "waiting", "cancelled"}

DoneWith(i, reason) ==
    \/ reason \in {"completed", "waiting", "cancelled"}
    \/ i \in Notice /\ reason = "partial"

CountedAlways(reason, tried) == TRUE

Counted(reason, tried) == tried \/ reason # "interrupted"

(* A notice too many turns took and did not finish; an input never is. *)
Exhausted(s, i, reason, tried) ==
    i \in Notice /\ Counted(reason, tried) /\ s.inbox[i].attempts + 1 >= Attempts

Dropped(s, reason, tried) ==
    {i \in TakenBy(s) : ~DoneWith(i, reason) /\ Exhausted(s, i, reason, tried)}

(* The open turn closes: the items it took are done, dropped, or wait again. *)
ClosedState(s, reason, tried) ==
    [s EXCEPT !.open = NoTurn,
              !.inbox = [i \in Item |->
                 IF i \notin TakenBy(s) THEN s.inbox[i]
                 ELSE IF DoneWith(i, reason) \/ Exhausted(s, i, reason, tried) THEN NoSlot
                 ELSE [in |-> TRUE, by |-> 0,
                       attempts |-> s.inbox[i].attempts + (IF Counted(reason, tried) THEN 1 ELSE 0)]]]

(* A new turn opens over a state that has none open, taking these items. *)
OpenedState(s, run, holder, expiresAt, taking) ==
    [turns |-> s.turns + 1,
     open  |-> [turn |-> s.turns + 1, run |-> run, holder |-> holder,
                expiresAt |-> expiresAt, sealed |-> "none"],
     inbox |-> [i \in Item |-> IF i \in taking THEN [s.inbox[i] EXCEPT !.by = s.turns + 1]
                                               ELSE s.inbox[i]]]

(* An item is added to the inbox; a steer leaves it for the running turn. *)
QueuedState(s, item) == [s EXCEPT !.inbox[item] = NewSlot]
WithoutItems(s, items) ==
    [s EXCEPT !.inbox = [i \in Item |-> IF i \in items THEN NoSlot ELSE s.inbox[i]]]
=============================================================================
