---------------------------- MODULE SessionsProofs ----------------------------
(***************************************************************************)
(* Proofs about Sessions, for every number of instances, callers, turns    *)
(* and faults.                                                             *)
(***************************************************************************)
EXTENDS SessionsProperties, TLAPS

-----------------------------------------------------------------------------
(* The operators of SessionsState and SessionLog keep their types.           *)

(* The empty slot, turn and state are of their types.                        *)
LEMMA InitialTypes == NoTurn \in OpenTurn /\ NoSlot \in Slot /\ NewSlot \in Slot /\ InitialState \in State
  BY StateConstants DEF NoTurn, OpenTurn, NoSlot, NewSlot, Slot, InitialState, State, Seal

(* Closing, opening and queueing keep a state a state.                       *)
LEMMA ClosedStateType ==
  ASSUME NEW s \in State, NEW reason \in Reason, NEW tried \in BOOLEAN
  PROVE  ClosedState(s, reason, tried) \in State
<1> DEFINE again(i) == [in |-> TRUE, by |-> 0,
                        attempts |-> s.inbox[i].attempts + (IF Counted(reason, tried) THEN 1 ELSE 0)]
<1>1. \A i \in Item : s.inbox[i] \in Slot /\ again(i) \in Slot
  BY DEF State, Slot
<1> QED BY <1>1, InitialTypes DEF ClosedState, State

(* Opening a turn, for a run and a holder, keeps a state a state.            *)
LEMMA OpenedStateType ==
  ASSUME NEW s \in State, NEW run \in Run, NEW holder \in Instance, NEW expiresAt \in Nat, NEW taking
  PROVE  OpenedState(s, run, holder, expiresAt, taking) \in State
  BY DEF OpenedState, State, OpenTurn, Slot, Seal

(* So do an item queued and items taken out.                                 *)
LEMMA InboxStateTypes ==
  ASSUME NEW s \in State, NEW item \in Item, NEW items
  PROVE  QueuedState(s, item) \in State /\ WithoutItems(s, items) \in State
  BY InitialTypes DEF QueuedState, WithoutItems, State, Slot, NoSlot, NewSlot

(* Only notices are dropped.                                                 *)
LEMMA DroppedType ==
  ASSUME NEW s, NEW reason, NEW tried
  PROVE  Dropped(s, reason, tried) \subseteq Notice
  BY DEF Dropped, Exhausted

(* Each kind of event is an event.                                           *)
LEMMA EventTypes ==
  /\ \A turn \in Nat, reason \in Reason, code \in Code, replied \in BOOLEAN, dropped \in SUBSET Notice :
       Ended(turn, reason, code, replied, dropped) \in EndEvent
  /\ \A turn \in Nat, run \in Run, key \in Key, origin \in {"user", "inbox", "task"},
        input \in Input \cup {NoItem}, resumes \in Nat, claimed \in SUBSET Notice :
       Started(turn, run, key, origin, input, resumes, claimed) \in StartEvent
  /\ \A turn \in Nat, items \in SUBSET Steer : Taken(turn, items) \in TurnEvent /\ Wrote(turn) \in TurnEvent
  /\ \A item \in Item : Queued(item) \in OtherEvent
  /\ \A tx \in Tx : Keyed(tx) \in OtherEvent
  BY DEF Ended, Started, Taken, Wrote, Queued, Keyed, EndEvent, StartEvent, TurnEvent, OtherEvent

(* A stored event keeps everything but its revision.                         *)
LEMMA Restamped ==
  ASSUME NEW e \in Event, NEW n \in Nat
  PROVE  /\ [e EXCEPT !.rev = n] \in Event
         /\ [e EXCEPT !.rev = n].rev = n
         /\ [e EXCEPT !.rev = n].kind = e.kind
         /\ e.kind \in OfTurn => [e EXCEPT !.rev = n].turn = e.turn
         /\ e.kind = "turn.started" => [e EXCEPT !.rev = n].run = e.run
<1>1. CASE e \in StartEvent
  BY <1>1 DEF StartEvent, Event, OfTurn
<1>2. CASE e \in EndEvent
  BY <1>2 DEF EndEvent, Event, OfTurn
<1>3. CASE e \in TurnEvent
  BY <1>3 DEF TurnEvent, Event, OfTurn
<1>4. CASE e \in OtherEvent
  BY <1>4 DEF OtherEvent, Event, OfTurn
<1> QED BY <1>1, <1>2, <1>3, <1>4 DEF Event

-----------------------------------------------------------------------------
(* What calls plan, of which types, and that they decide it from the state   *)
(* they read.                                                                *)

(* What r closes of state s: its open turn, with one end, and nothing else   *)
(* of the ledger.                                                            *)
Closes(s, r) ==
  /\ r.events \subseteq Event /\ r.state \in State
  /\ r.closed = s.open.turn
  /\ \E e \in Event : r.events = {e} /\ e.kind = "turn.ended" /\ e.turn = s.open.turn
  /\ r.state.turns = s.turns /\ ~IsOpen(r.state)
  /\ Decides(s, r.events, r.state)

(* The close of a turn: one end of the open turn, and none open after.       *)
LEMMA ReapClosingShape ==
  ASSUME NEW s \in State, NEW reason \in Reason, NEW code \in Code,
         NEW sealed \in BOOLEAN, NEW tried \in BOOLEAN, IsOpen(s)
  PROVE  Closes(s, ReapClosing(s, reason, code, sealed, tried))
<1> DEFINE e == Ended(s.open.turn, reason, code, sealed, Dropped(s, reason, tried))
           next == ClosedState(s, reason, tried)
<1>1. s.open.turn \in Nat
  BY DEF State, OpenTurn
<1>2. e \in Event /\ e.kind = "turn.ended" /\ e.turn = s.open.turn
  BY <1>1, DroppedType, EventTypes DEF Event, Ended
<1>3. next \in State
  BY ClosedStateType
<1>4. next.turns = s.turns /\ next.open.turn = 0
  BY DEF ClosedState, NoTurn, State
<1>5. Decides(s, {e}, next)
  <2> HIDE DEF e, next
  <2> QED BY <1>2, <1>4 DEF Decides, OfTurn, IsOpen
<1>6. ReapClosing(s, reason, code, sealed, tried) =
        [closed |-> s.open.turn, reason |-> reason, state |-> next, events |-> {e}]
  BY DEF ReapClosing
<1> HIDE DEF e, next
<1> QED BY <1>2, <1>3, <1>4, <1>5, <1>6 DEF IsOpen, Closes

(* What r reaps of state s: nothing, or its open turn.                       *)
Reaps(s, r) ==
  /\ r.events \subseteq Event /\ r.state \in State /\ r.closed \in Nat
  /\ r.state.turns = s.turns
  /\ \/ r.closed = 0 /\ r.events = {} /\ r.state = s
     \/ IsOpen(s) /\ Closes(s, r)

(* A reap does nothing, or closes the open turn.                             *)
LEMMA ReapShape ==
  ASSUME NEW s \in State, NEW at, NEW reader, NEW over
  PROVE  Reaps(s, Reaped(s, at, reader, over))
<1> DEFINE held == IsHeld(s.open, at, reader)
           taken == TakesOver(over, s.open) /\ held
           code == IF taken THEN "turn.takeover" ELSE "turn.lease"
           r == Reaped(s, at, reader, over)
<1>1. CASE ~IsOpen(s) \/ (held /\ ~taken)
  <2>1. r = [closed |-> 0, reason |-> "none", events |-> {}, state |-> s]
    BY <1>1 DEF Reaped, Unreaped
  <2> QED BY <2>1 DEF Reaps
<1>2. CASE IsOpen(s) /\ ~(held /\ ~taken) /\ s.open.sealed # "none"
  <2> DEFINE q == ReapClosing(s, s.open.sealed, "sealed", TRUE, ~taken)
  <2>1. r = q
    BY <1>2 DEF Reaped
  <2>2. s.open.sealed \in Reason /\ "sealed" \in Code
    BY <1>2 DEF State, OpenTurn, Seal, Reason, Code
  <2>3. Closes(s, q)
    BY <1>2, <2>2, ReapClosingShape
  <2>4. s.open.turn \in Nat
    BY DEF State, OpenTurn
  <2> QED BY <1>2, <2>1, <2>3, <2>4 DEF Closes, Reaps
<1>3. CASE IsOpen(s) /\ ~(held /\ ~taken) /\ s.open.sealed = "none"
  <2> DEFINE q == ReapClosing(s, "interrupted", code, FALSE, ~taken)
  <2>1. r = q
    BY <1>3 DEF Reaped
  <2>2. "interrupted" \in Reason /\ code \in Code
    BY <1>3 DEF State, OpenTurn, Seal, Reason, Code
  <2>3. Closes(s, q)
    BY <1>3, <2>2, ReapClosingShape
  <2>4. s.open.turn \in Nat
    BY DEF State, OpenTurn
  <2> QED BY <1>3, <2>1, <2>3, <2>4 DEF Closes, Reaps
<1> QED BY <1>1, <1>2, <1>3

(* What p plans from state s: if it commits, a commit s allows.              *)
PlannedFrom(s, p) ==
  /\ p.events \subseteq Event /\ p.next \in State
  /\ p.commits => Decides(s, p.events, p.next)

(* A plan that only answers commits nothing.                                 *)
LEMMA OnlyPlans == \A s, told : PlannedFrom(s, Only(told)) /\ ~Only(told).commits
  BY InitialTypes DEF PlannedFrom, Only

(* A begin that is not refused ends the turn it reaped and opens the next.   *)
LEMMA BeginPlanShape ==
  ASSUME NEW k \in Call, AskedWith(k), k.op = "begin", k.step = "read", ~Refuses(k)
  PROVE  /\ PlannedFrom(k.state, BeginPlan(k))
         /\ BeginPlan(k).next.turns \in Nat \ {0}
         /\ BeginPlan(k).next.open.turn = BeginPlan(k).next.turns
         /\ BeginReap(k).closed \in Nat
<1> DEFINE r == BeginReap(k)
           s == r.state
           started == Started(s.turns + 1, k.run, k.key, Origin(k.ask.kind), k.item, k.ask.resumes,
                              Taking(k, s) \cap Notice)
           next == OpenedState(s, k.run, k.at, LeaseEnd(k.at, k.now), Taking(k, s))
<1>1. k.state \in State /\ k.at \in Instance /\ k.ask \in Ask /\ k.run \in Run /\ k.key \in Key
      /\ k.item \in Input \cup {NoItem} /\ k.now \in Nat
  BY DEF Call, AskedWith
<1>2. Reaps(k.state, r)
  BY <1>1, ReapShape DEF BeginReap
<1>3. s \in State /\ s.turns \in Nat
  BY <1>2 DEF Reaps, State
<1>4. ~IsOpen(s)
  BY DEF Refuses, BeginRefusal, Refusal, Accepted
<1>5. started \in Event /\ started.kind = "turn.started" /\ started.turn = s.turns + 1 /\ started.run = k.run
  <2>1. Origin(k.ask.kind) \in {"user", "inbox", "task"} /\ k.ask.resumes \in Nat
    BY <1>1, SessionsConstants DEF Origin
  <2>2. started \in StartEvent
    <3> HIDE DEF s
    <3> QED BY <1>1, <1>3, <2>1 DEF Started, StartEvent
  <2> QED BY <2>2 DEF Event, Started
<1>6. next \in State
  <2>1. LeaseEnd(k.at, k.now) \in Nat
    BY <1>1, SessionsConstants DEF LeaseEnd
  <2> HIDE DEF s
  <2> QED BY <1>1, <1>3, <2>1, OpenedStateType
<1>7. next.turns = s.turns + 1 /\ next.open.turn = s.turns + 1 /\ next.open.run = k.run
  BY DEF OpenedState
<1>8. BeginPlan(k) = [commits |-> TRUE, events |-> r.events \cup {started}, next |-> next, told |-> "began"]
  BY DEF BeginPlan, Plan
<1>9. Decides(k.state, r.events \cup {started}, next)
  <2> HIDE DEF r, started, next
  <2>1. CASE r.closed = 0 /\ r.events = {} /\ r.state = k.state
    BY <2>1, <1>4, <1>5, <1>7 DEF Decides, OfTurn
  <2>2. CASE IsOpen(k.state) /\ Closes(k.state, r)
    <3>1. PICK e \in Event : r.events = {e} /\ e.kind = "turn.ended" /\ e.turn = k.state.open.turn
      BY <2>2 DEF Closes
    <3> QED BY <2>2, <3>1, <1>2, <1>5, <1>7 DEF Decides, OfTurn, Reaps
  <2> QED BY <1>2, <2>1, <2>2 DEF Reaps
<1> HIDE DEF started, next
<1> QED BY <1>2, <1>3, <1>5, <1>6, <1>7, <1>8, <1>9 DEF PlannedFrom, Reaps

(* A plan that closes turn k.state.open, or does what a reap does.           *)
LEMMA ClosesPlans ==
  ASSUME NEW s \in State, NEW r, Closes(s, r), NEW told
  PROVE  PlannedFrom(s, Plan(r.events, r.state, told))
  BY DEF Closes, PlannedFrom, Plan

(* A cancel, a time limit and a shutdown close the turn they name or reap    *)
(* one nobody holds.                                                         *)
LEMMA ClosePlanShape ==
  ASSUME NEW k \in Call, AskedWith(k), k.op \in CloseOp, k.step = "read"
  PROVE  PlannedFrom(k.state, ClosePlan(k))
<1> DEFINE r == Reaped(k.state, k.now, k.at, NotOver)
           s == k.state
           sealed == s.open.sealed # "none"
           closing == IF sealed THEN s.open.sealed
                      ELSE IF k.op = "cancel" THEN "cancelled" ELSE "interrupted"
           code == IF sealed THEN "sealed" ELSE CloseCode(k.op)
           close == ReapClosing(s, closing, code, sealed, k.op # "shutdown")
<1>1. s \in State /\ s.open \in OpenTurn /\ k.turn \in Nat /\ k.turn # 0
  BY DEF Call, AskedWith, State
<1>2. Reaps(s, r)
  BY <1>1, ReapShape
<1>3. CASE r.closed # 0
  <2>1. ClosePlan(k) = Plan(r.events, r.state, "not open")
    BY <1>3 DEF ClosePlan, ClosingPlan
  <2>2. Closes(s, r)
    BY <1>2, <1>3 DEF Reaps
  <2> HIDE DEF r
  <2> QED BY <1>1, <2>1, <2>2, ClosesPlans
<1>4. CASE r.closed = 0 /\ s.open.turn # k.turn
  BY <1>4, OnlyPlans DEF ClosePlan, ClosingPlan
<1>5. CASE r.closed = 0 /\ s.open.turn = k.turn
  <2>1. ClosePlan(k) = Plan(close.events, close.state, "closed")
    BY <1>5 DEF ClosePlan, ClosingPlan
  <2>2. closing \in Reason /\ code \in Code
    BY <1>1 DEF OpenTurn, Seal, Reason, Code, CloseCode, CloseOp
  <2>3. IsOpen(s)
    BY <1>1, <1>5 DEF IsOpen
  <2>4. Closes(s, close)
    <3> HIDE DEF s, closing, code
    <3> QED BY <1>1, <2>2, <2>3, ReapClosingShape
  <2> HIDE DEF close
  <2> QED BY <1>1, <2>1, <2>4, ClosesPlans
<1> QED BY <1>3, <1>4, <1>5

(* A begin cut before its writer closes its own turn, if it is still open.   *)
LEMMA UnhandedPlanShape ==
  ASSUME NEW k \in Call, AskedWith(k), k.op = "unhanded", k.step = "read"
  PROVE  PlannedFrom(k.state, UnhandedPlan(k))
<1> DEFINE s == k.state
           close == ReapClosing(s, CutReason(k), CutCode(k), FALSE, FALSE)
<1>1. s \in State /\ k.turn # 0
  BY DEF Call, AskedWith
<1>2. CASE s.open.turn # k.turn \/ s.open.holder # k.at
  BY <1>2, OnlyPlans DEF UnhandedPlan
<1>3. CASE ~(s.open.turn # k.turn \/ s.open.holder # k.at)
  <2>1. UnhandedPlan(k) = Plan(close.events, close.state, "cut")
    BY <1>3 DEF UnhandedPlan
  <2>2. IsOpen(s) /\ CutReason(k) \in Reason /\ CutCode(k) \in Code
    BY <1>1, <1>3 DEF IsOpen, Reason, Code, CutReason, CutCode
  <2>3. Closes(s, close)
    <3> HIDE DEF s
    <3> QED BY <1>1, <2>2, ReapClosingShape
  <2> HIDE DEF close
  <2> QED BY <1>1, <2>1, <2>3, ClosesPlans
<1> QED BY <1>2, <1>3

(* A delivery or an enqueue may reap, and queues its item.                   *)
LEMMA InboxPlanShape ==
  ASSUME NEW k \in Call, AskedWith(k), k.op \in Inboxes, k.step = "read"
  PROVE  PlannedFrom(k.state, InboxPlan(k))
<1> DEFINE r == Reaped(k.state, k.now, k.at, NotOver)
           s == k.state
           known == k.state.inbox[k.item].in \/ WasQueued(k.item)
           next == QueuedState(r.state, k.item)
<1>1. s \in State /\ k.item \in Item
  BY DEF Call, AskedWith
<1>2. Reaps(s, r)
  BY <1>1, ReapShape
<1>3. CASE known /\ r.closed # 0
  <2>1. InboxPlan(k) = Plan(r.events, r.state, "already")
    BY <1>3 DEF InboxPlan
  <2>2. Closes(s, r)
    BY <1>2, <1>3 DEF Reaps
  <2> HIDE DEF r
  <2> QED BY <1>1, <2>1, <2>2, ClosesPlans
<1>4. CASE \/ known /\ r.closed = 0
           \/ ~known /\ Cardinality(PendingOf(r.state)) >= MaxPending
  BY <1>4, OnlyPlans DEF InboxPlan
<1>5. CASE ~known /\ ~(Cardinality(PendingOf(r.state)) >= MaxPending)
  <2>1. InboxPlan(k) = [commits |-> TRUE, events |-> r.events \cup {Queued(k.item)}, next |-> next, told |-> "queued"]
    BY <1>5 DEF InboxPlan, Plan
  <2>2. Queued(k.item) \in Event /\ Queued(k.item).kind = "inbox.queued"
    BY <1>1, EventTypes DEF Event, Queued
  <2>3. next \in State
    <3> HIDE DEF r
    <3> QED BY <1>1, <1>2, InboxStateTypes DEF Reaps
  <2>4. next.turns = r.state.turns /\ next.open = r.state.open
    <3> HIDE DEF r
    <3> QED BY <1>2 DEF Reaps, QueuedState, State
  <2>5. Decides(s, r.events \cup {Queued(k.item)}, next)
    <3> HIDE DEF r, s, next
    <3>1. CASE r.events = {} /\ r.state = s
      BY <3>1, <2>2, <2>4 DEF Decides, OfTurn, IsOpen
    <3>2. CASE IsOpen(s) /\ Closes(s, r)
      <4>1. PICK e \in Event : r.events = {e} /\ e.kind = "turn.ended" /\ e.turn = s.open.turn
        BY <3>2 DEF Closes
      <4> QED BY <3>2, <4>1, <2>2, <2>4 DEF Decides, OfTurn, IsOpen, Closes
    <3> QED BY <1>2, <3>1, <3>2 DEF Reaps
  <2> HIDE DEF r, next
  <2> QED BY <1>2, <2>1, <2>2, <2>3, <2>5 DEF PlannedFrom, Reaps
<1> QED BY <1>3, <1>4, <1>5

(* A keyed transact leaves the turns alone.                                  *)
LEMMA TransactPlanShape ==
  ASSUME NEW k \in Call, AskedWith(k), k.op = "transact", k.step = "read"
  PROVE  PlannedFrom(k.state, TransactPlan(k))
<1>1. k.state \in State /\ k.item \in Tx
  BY DEF Call, AskedWith
<1>2. Keyed(k.item) \in Event /\ Keyed(k.item).kind = "transact.keyed"
  BY <1>1, EventTypes DEF Event, Keyed
<1>3. Decides(k.state, {Keyed(k.item)}, k.state)
  BY <1>2 DEF Decides, OfTurn
<1> QED BY <1>1, <1>2, <1>3, OnlyPlans DEF TransactPlan, Plan, PlannedFrom

(* Whatever a call plans, it decides it from the state it read.              *)
LEMMA PlanShape ==
  ASSUME NEW k \in Call, AskedWith(k), k.step = "read", ~Refuses(k)
  PROVE  PlannedFrom(k.state, PlanOf(k))
<1>1. k.op \in CloseOp \cup Inboxes \cup {"unhanded", "transact", "begin"}
  BY DEF Call, AskedWith, Op
<1>2. CASE k.op \in CloseOp
  BY <1>2, ClosePlanShape DEF PlanOf, CloseOp
<1>3. CASE k.op \in Inboxes
  BY <1>3, InboxPlanShape DEF PlanOf, CloseOp, Inboxes
<1>4. CASE k.op = "unhanded"
  BY <1>4, UnhandedPlanShape DEF PlanOf, CloseOp
<1>5. CASE k.op = "transact"
  BY <1>5, TransactPlanShape DEF PlanOf, CloseOp
<1>6. CASE k.op = "begin"
  BY <1>6, BeginPlanShape DEF PlanOf, CloseOp
<1> QED BY <1>1, <1>2, <1>3, <1>4, <1>5, <1>6

-----------------------------------------------------------------------------
(* Every variable keeps its type.                                            *)

(* A commit keeps the log's types.                                           *)
LEMMA StoreCommitType ==
  ASSUME LogOK, NEW events \in SUBSET Event, NEW next \in State, StoreCommit(events, next)
  PROVE  LogOK'
<1>1. head.rev + 1 \in Nat
  BY DEF LogOK, Head
<1>2. journal' \subseteq Event
  BY <1>1, Restamped DEF StoreCommit, LogOK
<1>3. head' \in Head
  BY <1>1 DEF StoreCommit, LogOK, Head
<1> QED BY <1>2, <1>3 DEF StoreCommit, LogOK

(* What a call needs before it reads the head.                               *)
Asks(k) ==
  /\ k \in Call /\ k.at \in Instance /\ k.op # "none"
  /\ k.op = "begin" => k.ask \in Ask /\ k.item \in Input \cup {NoItem} /\ k.run \in Run
  /\ k.op \in Inboxes => k.item \in Item
  /\ k.op = "transact" => k.item \in Tx
  /\ k.op \in CloseOp \cup {"unhanded"} => k.turn # 0

(* A call in flight is typed, and asks with what its operation needs.        *)
CallOK(k) == k \in Call /\ AskedWith(k)

(* A call in flight has what it needs to read the head; an idle caller is    *)
(* typed.                                                                    *)
LEMMA CallTypes ==
  /\ \A k : CallOK(k) /\ k.step \in {"prepared", "read", "lost", "await"} => Asks(k)
  /\ CallOK(Idle)
<1>1. ASSUME NEW k, CallOK(k), k.step \in {"prepared", "read", "lost", "await"} PROVE Asks(k)
  BY <1>1 DEF CallOK, AskedWith, Asks, CloseOp
<1>2. NoKey \in Key /\ InitialState \in State
  BY InitialTypes DEF NoKey, Key, KeyIds, RunOrNone
<1>3. CallOK(Idle)
  BY <1>2 DEF CallOK, Idle, Call, AskedWith, Op, CallStepName, Told, RunOrNone, CloseOp, Inboxes
<1> QED BY <1>1, <1>3

(* Reading the head keeps a call typed.                                      *)
LEMMA ReadingType ==
  ASSUME LogOK, NEW k, Asks(k)
  PROVE  CallOK(Reading(k))
<1>1. CASE ~head.present
  BY <1>1 DEF Reading, CallOK, Asks, Call, AskedWith, CallStepName, CloseOp, Inboxes
<1>2. CASE head.present /\ k.op = "begin" /\ stopping[k.at] # "running"
  BY <1>2 DEF Reading, CallOK, Asks, Call, AskedWith, CallStepName, CloseOp, Inboxes, Told
<1>3. CASE head.present /\ ~(k.op = "begin" /\ stopping[k.at] # "running")
  <2>1. head.rev \in Nat /\ head.inc \in 1..MaxInc /\ head.inc \in Nat /\ head.state \in State /\ now \in Nat
    BY LogBounds DEF LogOK, Head
  <2>2. Reading(k) = [k EXCEPT !.step = "read", !.inc = head.inc, !.rev = head.rev, !.state = head.state, !.now = now]
    BY <1>3 DEF Reading
  <2> QED BY <2>1, <2>2 DEF CallOK, Asks, Call, AskedWith, CallStepName, CloseOp, Inboxes
<1> QED BY <1>1, <1>2, <1>3

(* A call that becomes a typed call leaves every call typed.                 *)
LEMMA BecomeType ==
  ASSUME CallsOK, NEW c \in Caller, NEW rec, CallOK(rec), Become(c, rec)
  PROVE  CallsOK'
  BY DEF CallsOK, CallOK, Become

(* A writer is typed, and has what its phase needs; and what it may be told. *)
WriterOK(w) == w \in Writer /\ WritesFor(w)
WriterTold == {"none", "cancelled", "interrupted", "timed-out", "removed", "error"}

(* A turn without a writer yet, or no longer, is typed.                      *)
LEMMA NoHoldType == NoHold \in Writer /\ \A phase \in {"None", "Gone"} : WriterOK([NoHold EXCEPT !.phase = phase])
  BY InitialTypes DEF NoHold, Writer, WriterOK, WritesFor, Phase, Seal, Ending, RunOrNone

(* A writer that stops is typed.                                             *)
LEMMA StoppedType ==
  ASSUME NEW w \in Writer, WritesFor(w), NEW told \in WriterTold
  PROVE  /\ WriterOK(Stopped(w, told))
         /\ w.inst \in Instance =>
              \A phase \in {"Ended", "Failed"} : WriterOK(Stop(w, phase, told))
<1>1. ASSUME w.inst \in Instance, NEW phase \in {"Ended", "Failed", "Closed"} PROVE WriterOK(Stop(w, phase, told))
  BY <1>1, NoHoldType DEF WriterOK, WritesFor, Writer, Stop, Phase, WriterTold
<1>2. w.phase \in Live => w.inst \in Instance
  BY DEF WritesFor, Live
<1> QED BY <1>1, <1>2 DEF Stopped, WriterOK

(* Writers typed one by one.                                                 *)
LEMMA WriterBecomesType ==
  ASSUME WritersOK, NEW w, NEW rec, WriterOK(rec), writer' = [writer EXCEPT ![w] = rec]
  PROVE  WritersOK'
  BY DEF WritersOK, WriterOK

(* Closing the writer held here keeps the writers typed.                     *)
LEMMA ClosedLocallyType ==
  ASSUME WritersOK, InstancesOK, NEW i \in Instance, NEW turn \in Nat, NEW told \in WriterTold
  PROVE  /\ ClosedLocally(i, turn, told) \in [WriterId -> Writer]
         /\ \A w \in WriterId : WritesFor(ClosedLocally(i, turn, told)[w])
<1>1. CASE turn # 0 /\ registered[i].turn = turn
  <2>1. registered[i] \in WriterId
    BY <1>1 DEF InstancesOK, NoWriter
  <2>2. WriterOK(Stopped(writer[registered[i]], told))
    BY <2>1, StoppedType DEF WritersOK
  <2> QED BY <1>1, <2>1, <2>2 DEF ClosedLocally, WritersOK, WriterOK
<1>2. CASE ~(turn # 0 /\ registered[i].turn = turn)
  BY <1>2 DEF ClosedLocally, WritersOK
<1> QED BY <1>1, <1>2

(* Letting a turn go keeps what an instance let go of typed.                 *)
LEMMA ReleasedType ==
  ASSUME InstancesOK, NEW i \in Instance
  PROVE  /\ \A turn \in Nat, run \in RunOrNone : LetGo(i, turn, run) \in [Instance -> SUBSET (Nat \X RunOrNone)]
         /\ \A next : ForgetClosed(i, next) \in [Instance -> SUBSET (Nat \X RunOrNone)]
  BY DEF InstancesOK, LetGo, ForgetClosed

(* The largest turn of a set of turns is a number.                           *)
LEMMA LargestType == \A S \in SUBSET Nat : Largest(S) \in Nat
  BY DEF Largest, IsLargest

(* What the journal says of a begin is a turn.                               *)
LEMMA JournalTurns ==
  ASSUME LogOK
  PROVE  /\ \A s \in Starts : s \in StartEvent
         /\ \A key : KeyTurn(key) \in Nat
         /\ \A run : RunTurn(run) \in Nat
         /\ \A item : LastInputTurn(item) \in Nat
         /\ \A item, rev : TakenInput(item, rev) \in Nat
<1>1. \A s \in Starts : s \in StartEvent /\ s.turn \in Nat
  BY DEF LogOK, Starts, Of, Event, StartEvent, EndEvent, TurnEvent, OtherEvent
<1>2. \A t \in Of("inbox.taken") : t.turn \in Nat
  BY DEF LogOK, Of, Event, StartEvent, EndEvent, TurnEvent, OtherEvent
<1> QED BY <1>1, <1>2, LargestType DEF KeyTurn, RunTurn, LastInputTurn, TakenInput

(* What a refused begin may be told.                                         *)
RefusalOK(r) == r.told \in Told /\ r.turn \in Nat /\ r.open \in BOOLEAN

(* A refusal is one of those.                                                *)
LEMMA RefusalType ==
  ASSUME LogOK, NEW k, NEW reap, reap.state \in State, k.ask \in Ask
  PROVE  RefusalOK(BeginRefusal(k, reap))
<1>1. reap.state.open.turn \in Nat /\ k.ask.resumes \in Nat
  BY SessionsConstants DEF State, OpenTurn
<1> QED BY <1>1, JournalTurns DEF RefusalOK, BeginRefusal, Refusal, Accepted, Told

(* What a call that was not stored leaves behind.                            *)
LEMMA RefusedCallType ==
  ASSUME NEW k, CallOK(k), k.op = "begin", k.step \in {"read", "lost"}, NEW told \in Told, NEW turn \in Nat, NEW open \in BOOLEAN
  PROVE  CallOK(RefusedCall(k, told, turn, open))
<1>1. k.at \in Instance /\ k.op \in Op /\ k.ask \in Ask
  BY DEF CallOK, Call, AskedWith
<1>2. Idle \in Call /\ CallOK(Idle)
  BY CallTypes DEF CallOK
<1>3. ASSUME Replies # {} PROVE CallOK(RefusedCall(k, told, turn, open))
  BY <1>1, <1>2, <1>3 DEF RefusedCall, CallOK, Call, AskedWith, CallStepName, CloseOp, Inboxes
<1> QED BY <1>2, <1>3 DEF RefusedCall

(* What a close becomes once all but this instance's writer is closed.       *)
LEMMA ClosingType ==
  ASSUME NEW k, CallOK(k), k.op \in CloseOp, k.at \in Instance
  PROVE  CallOK(Closing(k))
<1>1. Idle \in Call /\ k.op \in Op /\ k.turn \in Nat \ {0} /\ k.run \in RunOrNone /\ k.at \in Instance \cup {NoInstance}
  BY CallTypes DEF CallOK, Call, AskedWith
<1>2. /\ Closing(k).op = k.op /\ Closing(k).at = k.at /\ Closing(k).step = "closing" /\ Closing(k).turn = k.turn
      /\ Closing(k) \in Call
  BY <1>1 DEF Closing, Call, CallStepName
<1>3. k.op \notin Inboxes /\ k.op \notin {"begin", "transact", "none"}
  BY DEF CloseOp, Inboxes
<1> HIDE DEF Closing
<1> QED BY <1>1, <1>2, <1>3 DEF CallOK, AskedWith

(* A call that gives up keeps calls, writers and what was let go of typed.   *)
LEMMA GivesUpType ==
  ASSUME TypeOK, NEW c \in Caller, call[c].step \in {"read", "lost"}, NEW told \in {"contended", "missing", "error"},
         told = "error" => call[c].step = "read" /\ ~Refuses(call[c]), GivesUp(c, told)
  PROVE  CallsOK' /\ WritersOK' /\ released' \in [Instance -> SUBSET (Nat \X RunOrNone)]
<1> DEFINE k == call[c]
<1>1. CallOK(k) /\ k.at \in Instance /\ k.turn \in Nat /\ k.run \in RunOrNone
  BY DEF TypeOK, CallsOK, CallOK, AskedWith, Call
<1>2. CallsOK'
  <2>1. CASE k.op = "begin"
    <3>1. CallOK(RefusedCall(k, told, 0, FALSE))
      BY <1>1, <2>1, RefusedCallType DEF Told
    <3> QED BY <3>1, <2>1, BecomeType DEF GivesUp, TypeOK
  <2>2. CASE k.op \in {"time-limit", "shutdown"}
    <3>1. CallOK(Closing(k))
      BY <1>1, <2>2, ClosingType DEF CloseOp
    <3> QED BY <3>1, <2>2, BecomeType DEF GivesUp, TypeOK
  <2>3. CASE k.op \notin {"begin", "time-limit", "shutdown"}
    BY <2>3, CallTypes, BecomeType DEF GivesUp, TypeOK, Answer
  <2> QED BY <2>1, <2>2, <2>3
<1>3. WritersOK'
  BY DEF GivesUp, TypeOK, WritersOK
<1>4. released' \in [Instance -> SUBSET (Nat \X RunOrNone)]
  <2>1. CASE k.op = "begin" /\ told = "error"
    <3>1. BeginPlan(k).next.turns \in Nat
      BY <1>1, <2>1, BeginPlanShape DEF CallOK
    <3> QED BY <1>1, <2>1, <3>1, ReleasedType DEF GivesUp, TypeOK
  <2>2. CASE ~(k.op = "begin" /\ told = "error")
    BY <1>1, <2>2, ReleasedType DEF GivesUp, TypeOK, InstancesOK
  <2> QED BY <2>1, <2>2
<1> QED BY <1>2, <1>3, <1>4

(* A commit the store may still apply is typed as the commit was.            *)
LEMMA StallType ==
  ASSUME FaultsOK, NEW rev \in Nat, NEW inc \in Nat, NEW notAfter \in Nat, NEW events \in SUBSET Event,
         NEW next \in State, Stall(rev, inc, notAfter, events, next), faults' \in Nat
  PROVE  FaultsOK'
  BY DEF FaultsOK, Stall, Stalled

(* What AskBegin looks up in the journal.                                    *)
LEMMA PreparedTypes ==
  ASSUME LogOK, NEW ask \in Ask
  PROVE  PreparedItem(ask) \in Input \cup {NoItem} /\ PreparedKey(ask) \in Key
<1>1. \A s \in Starts : s \in StartEvent
  BY JournalTurns
<1>2. ask.input \in Input \cup {NoItem} /\ ask.run \in Run
      /\ (ask.kind = "queued" => ask.input \in Input) /\ ask.kind \in {"user", "inbox", "queued", "task"}
  BY SessionsConstants
<1>3. PreparedItem(ask) \in Input \cup {NoItem}
  <2> DEFINE target == {s \in Starts : s.turn = ask.resumes}
  <2>1. target # {} => (CHOOSE s \in target : TRUE) \in StartEvent
    BY <1>1
  <2> HIDE DEF target
  <2>2. target # {} => (CHOOSE s \in target : TRUE).input \in Input \cup {NoItem}
    BY <2>1 DEF StartEvent
  <2> QED BY <1>2, <2>2 DEF PreparedItem, target
<1>4. PreparedKey(ask) \in Key
  <2> DEFINE again == {s \in Starts : s.input = ask.input /\ s.run = ask.run}
  <2>1. again # {} => (CHOOSE s \in again : TRUE) \in StartEvent
    BY <1>1
  <2>2. LastInputTurn(ask.input) \in Nat
    BY JournalTurns
  <2> HIDE DEF again
  <2>3. again # {} => (CHOOSE s \in again : TRUE).key \in Key
    BY <2>1 DEF StartEvent
  <2>4. ask.kind \in {"user", "task"} => <<ask.key, 0, NoRun>> \in Key
    BY DEF Key, KeyIds, RunOrNone
  <2>5. <<NoItem, 0, ask.run>> \in Key
    BY <1>2 DEF Key, KeyIds, RunOrNone
  <2>6. ask.kind = "queued" => AttemptKey(ask.input, LastInputTurn(ask.input), ask.run) \in Key
    BY <1>2, <2>2 DEF AttemptKey, Key, KeyIds, RunOrNone, Item
  <2> QED BY <1>2, <2>3, <2>4, <2>5, <2>6 DEF PreparedKey, again
<1> QED BY <1>3, <1>4

(* A call just asked is typed.                                               *)
LEMMA AskedType ==
  ASSUME NEW i \in Instance, NEW op \in Op
  PROVE  Asked(i, op) \in Call /\ Asked(i, op).op = op /\ Asked(i, op).at = i
<1>1. Idle \in Call
  BY CallTypes DEF CallOK
<1> QED BY <1>1 DEF Asked, Call

(* Calls begin.                                                              *)
LEMMA CallInType ==
  ASSUME TypeOK, NEW c \in Caller, NEW i, NEW rec, CallOK(rec), CallIn(c, i, rec)
  PROVE  TypeOK'
<1>1. CallsOK'
  BY BecomeType DEF CallIn, TypeOK
<1> QED BY <1>1 DEF CallIn, TypeOK, logVars, local, LogOK, WritersOK, InstancesOK, FaultsOK

(* Asking for a begin keeps every variable typed.                            *)
LEMMA AskBeginType ==
  ASSUME TypeOK, NEW c \in Caller, NEW i \in Instance, NEW ask \in Ask, AskBegin(c, i, ask)
  PROVE  TypeOK'
<1> DEFINE asked == [Asked(i, "begin") EXCEPT !.ask = ask, !.run = ask.run,
                         !.item = PreparedItem(ask), !.key = PreparedKey(ask)]
           rec == IF ask.kind = "queued" \/ ask.resumes # 0
                  THEN [asked EXCEPT !.step = "prepared"] ELSE Reading(asked)
<1>1. PreparedItem(ask) \in Input \cup {NoItem} /\ PreparedKey(ask) \in Key /\ ask.run \in Run
  BY PreparedTypes, SessionsConstants DEF TypeOK
<1>2. "begin" \in Op
  BY DEF Op
<1>3. Asked(i, "begin") \in Call /\ Asked(i, "begin").op = "begin" /\ Asked(i, "begin").at = i
  BY <1>2, AskedType
<1>4. Asks(asked)
  BY <1>1, <1>2, <1>3 DEF Asks, Call, RunOrNone, Item, Inboxes, CloseOp
<1>5. CallOK(rec)
  <2>1. CASE ask.kind = "queued" \/ ask.resumes # 0
    <3> HIDE DEF asked
    <3>1. CallOK([asked EXCEPT !.step = "prepared"])
      BY <1>4 DEF Asks, Call, CallOK, AskedWith, CallStepName
    <3> QED BY <2>1, <3>1
  <2>2. CASE ~(ask.kind = "queued" \/ ask.resumes # 0)
    BY <1>4, <2>2, ReadingType DEF TypeOK
  <2> QED BY <2>1, <2>2
<1>6. CallIn(c, i, rec)
  BY DEF AskBegin
<1> QED BY <1>5, <1>6, CallInType

(* So does asking for a delivery, an enqueue or a transact.                  *)
LEMMA AskInboxType ==
  ASSUME TypeOK, NEW c \in Caller, NEW i \in Instance
  PROVE  /\ \A item \in Delivers : AskDeliver(c, i, item) => TypeOK'
         /\ \A tx \in Tx : AskTransact(c, i, tx) => TypeOK'
<1>1. ASSUME NEW item \in Delivers, AskDeliver(c, i, item) PROVE TypeOK'
  <2> DEFINE op == IF item \in Notice THEN "deliver" ELSE "enqueue"
             asked == [Asked(i, op) EXCEPT !.item = item]
  <2>1. op \in Inboxes /\ op \in Op /\ item \in Item
    BY SessionsConstants DEF Inboxes, Op
  <2>2. Asked(i, op) \in Call /\ Asked(i, op).op = op /\ Asked(i, op).at = i
    <3> HIDE DEF op
    <3> QED BY <2>1, AskedType
  <2>3. Asks(asked)
    <3> HIDE DEF op
    <3> QED BY <2>1, <2>2 DEF Asks, Call, Inboxes, CloseOp
  <2>4. CallIn(c, i, Reading(asked))
    BY <1>1 DEF AskDeliver
  <2> HIDE DEF asked
  <2> QED BY <2>3, <2>4, ReadingType, CallInType DEF TypeOK
<1>2. ASSUME NEW tx \in Tx, AskTransact(c, i, tx) PROVE TypeOK'
  <2> DEFINE asked == [Asked(i, "transact") EXCEPT !.item = tx]
  <2>1. Asked(i, "transact") \in Call /\ Asked(i, "transact").op = "transact" /\ Asked(i, "transact").at = i
    <3>1. "transact" \in Op
      BY DEF Op
    <3> QED BY <3>1, AskedType
  <2>2. Asks(asked)
    BY <2>1 DEF Asks, Call, Inboxes, CloseOp
  <2>3. CallIn(c, i, Reading(asked))
    BY <1>2 DEF AskTransact
  <2> HIDE DEF asked
  <2> QED BY <2>2, <2>3, ReadingType, CallInType DEF TypeOK
<1> QED BY <1>1, <1>2

(* So does asking for a close, whether it waits for the sealed writer or     *)
(* reads the head.                                                           *)
LEMMA AskCloseType ==
  ASSUME TypeOK, NEW c \in Caller, NEW i \in Instance, NEW op \in CloseOp, NEW turn \in Nat \ {0},
         NEW run \in RunOrNone, AskClose(c, i, op, turn, run), InstancesOK', FaultsOK'
  PROVE  TypeOK'
<1> DEFINE asked == [Asked(i, op) EXCEPT !.turn = turn, !.run = run]
<1>1. Asked(i, op) \in Call /\ Asked(i, op).op = op /\ Asked(i, op).at = i
  <2>1. op \in Op
    BY DEF Op
  <2> QED BY <2>1, AskedType
<1>2. Asks(asked)
  BY <1>1 DEF Asks, Call, Inboxes, CloseOp
<1>3. LogOK'
  BY DEF AskClose, TypeOK, LogOK, logVars
<1>4. CASE SealedHere(i, turn)
  <2>1. registered[i] \in WriterId
    BY <1>4 DEF SealedHere, TypeOK, InstancesOK, NoWriter
  <2>2. registered[i].inc \in Nat
    BY <2>1, LogBounds DEF WriterId
  <2>3. CallOK([asked EXCEPT !.step = "await", !.inc = registered[i].inc])
    <3> HIDE DEF asked
    <3>1. asked.op = op
      BY <1>1 DEF asked, Call
    <3> QED BY <1>2, <2>2, <3>1 DEF Asks, Call, CallOK, AskedWith, CallStepName, CloseOp, Inboxes
  <2>4. CallsOK'
    BY <1>4, <2>3, BecomeType DEF AskClose, TypeOK
  <2>5. WriterOK([writer[registered[i]] EXCEPT !.phase = "Ending", !.ending = writer[registered[i]].sealed])
    <3> DEFINE w == writer[registered[i]]
    <3>1. w \in Writer /\ WritesFor(w) /\ w.phase \in Live /\ w.sealed # "none"
      BY <1>4, <2>1 DEF SealedHere, TypeOK, WritersOK
    <3>2. w.inst \in Instance /\ w.sealed \in Reason
      BY <3>1 DEF Live, WritesFor, Writer, Seal, Reason
    <3> HIDE DEF w
    <3>3. WriterOK([w EXCEPT !.phase = "Ending", !.ending = w.sealed])
      BY <3>1, <3>2 DEF WriterOK, WritesFor, Writer, Phase, Ending
    <3> QED BY <3>3 DEF w
  <2>6. WritersOK'
    BY <1>4, <2>1, <2>5 DEF AskClose, TypeOK, WritersOK, WriterOK
  <2> QED BY <1>3, <2>4, <2>6 DEF TypeOK
<1>5. CASE ~SealedHere(i, turn)
  <2>1. CallsOK'
    <3>1. CallOK(Reading(asked))
      <4> HIDE DEF asked
      <4> QED BY <1>2, ReadingType DEF TypeOK
    <3> QED BY <1>5, <3>1, BecomeType DEF AskClose, TypeOK
  <2>2. WritersOK'
    BY <1>5 DEF AskClose, TypeOK, WritersOK
  <2> QED BY <1>3, <2>1, <2>2 DEF TypeOK
<1> QED BY <1>4, <1>5

(* The same of a cancel, a time limit and a shutdown's sweep.                *)
LEMMA ClosesAskedType ==
  ASSUME TypeOK, NEW c \in Caller
  PROVE  /\ \A i \in Instance, turn \in CancelTurns : AskCancel(c, i, turn) => TypeOK'
         /\ \A w \in WriterId : AskTimeLimit(c, w) => TypeOK'
         /\ \A i \in Instance : ShutdownCloses(c, i) => TypeOK'
<1>1. ASSUME NEW i \in Instance, NEW turn \in CancelTurns, AskCancel(c, i, turn) PROVE TypeOK'
  <2>1. turn \in Nat \ {0} /\ "cancel" \in CloseOp /\ NoRun \in RunOrNone
    BY SessionsConstants DEF CloseOp, RunOrNone
  <2>2. InstancesOK' /\ FaultsOK' /\ AskClose(c, i, "cancel", turn, NoRun)
    BY <1>1 DEF AskCancel, AskClose, TypeOK, InstancesOK, FaultsOK
  <2> QED BY <2>1, <2>2, AskCloseType
<1>2. ASSUME NEW w \in WriterId, AskTimeLimit(c, w) PROVE TypeOK'
  <2>1. w.turn \in Nat \ {0} /\ "time-limit" \in CloseOp
    BY SessionsConstants DEF CloseOp, WriterId
  <2>2. writer[w].inst \in Instance /\ writer[w].run \in RunOrNone
    BY <1>2 DEF AskTimeLimit, Live, TypeOK, WritersOK, WritesFor, Writer
  <2>3. InstancesOK' /\ FaultsOK' /\ AskClose(c, writer[w].inst, "time-limit", w.turn, writer[w].run)
    BY <1>2 DEF AskTimeLimit, AskClose, TypeOK, InstancesOK, FaultsOK
  <2> QED BY <2>1, <2>2, <2>3, AskCloseType
<1>3. ASSUME NEW i \in Instance, ShutdownCloses(c, i) PROVE TypeOK'
  <2>1. CASE registered[i] = NoWriter
    BY <1>3, <2>1 DEF ShutdownCloses, TypeOK, logVars, LogOK, CallsOK, WritersOK, InstancesOK, FaultsOK
  <2>2. CASE registered[i] # NoWriter
    <3> DEFINE w == registered[i]
    <3>1. w \in WriterId
      BY <2>2 DEF TypeOK, InstancesOK
    <3>2. /\ w.turn \in Nat \ {0} /\ "shutdown" \in CloseOp
          /\ writer[w].run \in RunOrNone
      <4>1. w.turn \in Nat \ {0} /\ "shutdown" \in CloseOp
        BY <3>1, SessionsConstants DEF CloseOp, WriterId
      <4>2. writer[w].run \in RunOrNone
        BY <3>1 DEF TypeOK, WritersOK, Writer
      <4> QED BY <4>1, <4>2
    <3>3. AskClose(c, i, "shutdown", w.turn, writer[w].run)
      BY <1>3, <2>2 DEF ShutdownCloses
    <3>4. InstancesOK' /\ FaultsOK'
      BY <1>3, <2>2 DEF ShutdownCloses, AskClose, TypeOK, InstancesOK, FaultsOK
    <3> QED BY <3>2, <3>3, <3>4, AskCloseType
  <2> QED BY <2>1, <2>2
<1> QED BY <1>1, <1>2, <1>3

(* What a call in flight is, of the types its steps need.                    *)
LEMMA CallInFlight ==
  ASSUME TypeOK, NEW c \in Caller
  PROVE  /\ CallOK(call[c]) /\ call[c].turn \in Nat /\ call[c].run \in RunOrNone
         /\ call[c].rev \in Nat /\ call[c].inc \in Nat /\ call[c].state \in State
         /\ call[c].step # "idle" => call[c].at \in Instance
  BY DEF TypeOK, CallsOK, CallOK, AskedWith, Call

(* A call's steps beside the log keep every variable typed.                  *)
LEMMA LocalSteps ==
  ASSUME TypeOK, NEW c \in Caller
  PROVE  ReadHead(c) \/ Refused(c) \/ Answered(c) \/ Handed(c) \/ AwaitOver(c) \/ CloseLocal(c) => TypeOK'
<1> DEFINE k == call[c]
<1>1. CallOK(k) /\ k.turn \in Nat /\ k.run \in RunOrNone /\ (k.step # "idle" => k.at \in Instance)
  BY CallInFlight
<1>2. ASSUME UNCHANGED <<logVars, local>>, CallsOK' PROVE TypeOK'
  BY <1>2 DEF TypeOK, logVars, local, LogOK, WritersOK, InstancesOK, FaultsOK
<1>3. ASSUME k.step \in {"prepared", "await"} PROVE CallOK(Reading(k))
  BY <1>1, <1>3, CallTypes, ReadingType DEF TypeOK
<1>4. ASSUME Answer(c) PROVE CallsOK'
  BY <1>4, CallTypes, BecomeType DEF Answer, TypeOK
<1>5. ASSUME ReadHead(c) PROVE TypeOK'
  BY <1>2, <1>3, <1>5, BecomeType DEF ReadHead, TypeOK
<1>6. ASSUME Refused(c) PROVE TypeOK'
  <2> DEFINE refusal == BeginRefusal(k, BeginReap(k))
  <2>1. k.op = "begin" /\ k.step = "read" /\ k.state \in State /\ k.ask \in Ask
    BY <1>1, <1>6, CallInFlight DEF Refused, Refuses, CallOK, AskedWith
  <2>2. RefusalOK(refusal)
    <3>1. BeginReap(k).state \in State
      BY <2>1, ReapShape DEF BeginReap, Reaps
    <3> QED BY <2>1, <3>1, RefusalType DEF TypeOK
  <2>3. CallOK(RefusedCall(k, refusal.told, refusal.turn, refusal.open))
    <3> HIDE DEF refusal
    <3> QED BY <1>1, <2>1, <2>2, RefusedCallType DEF RefusalOK
  <2>4. CallsOK'
    BY <1>6, <2>3, BecomeType DEF Refused, TypeOK
  <2> QED BY <1>2, <1>6, <2>4 DEF Refused
<1>7. ASSUME Answered(c) PROVE TypeOK'
  BY <1>2, <1>4, <1>7 DEF Answered
<1>8. ASSUME Handed(c) PROVE TypeOK'
  <2> DEFINE asked == [Asked(k.at, "shutdown") EXCEPT !.turn = k.turn, !.run = k.run]
  <2>1. CallOK(Reading(asked))
    <3>1. k.at \in Instance /\ k.turn # 0 /\ "shutdown" \in Op
      BY <1>1, <1>8 DEF Handed, CallOK, AskedWith, Op, CloseOp
    <3>2. Asked(k.at, "shutdown") \in Call /\ Asked(k.at, "shutdown").op = "shutdown"
          /\ Asked(k.at, "shutdown").at = k.at
      BY <3>1, AskedType
    <3>3. Asks(asked)
      BY <1>1, <3>1, <3>2 DEF Asks, Call, Inboxes, CloseOp
    <3> HIDE DEF asked
    <3> QED BY <3>3, ReadingType DEF TypeOK
  <2>2. CallsOK'
    BY <1>4, <1>8, <2>1, BecomeType DEF Handed, TypeOK
  <2> QED BY <1>2, <1>8, <2>2 DEF Handed
<1>9. ASSUME AwaitOver(c) PROVE TypeOK'
  <2>1. CallsOK'
    BY <1>3, <1>4, <1>9, BecomeType DEF AwaitOver, TypeOK
  <2> QED BY <1>2, <1>9, <2>1 DEF AwaitOver
<1>10. ASSUME CloseLocal(c) PROVE TypeOK'
  <2>1. k.op \in CloseOp /\ k.at \in Instance /\ CallsOK'
    BY <1>1, <1>4, <1>10 DEF CloseLocal, CallOK, AskedWith
  <2>2. CloseTold(k.op) \in WriterTold
    BY <2>1 DEF CloseTold, WriterTold, CloseOp
  <2>3. WritersOK'
    BY <1>1, <1>10, <2>1, <2>2, ClosedLocallyType DEF CloseLocal, TypeOK, WritersOK
  <2> QED BY <1>10, <2>1, <2>3 DEF CloseLocal, TypeOK, logVars, LogOK, InstancesOK, FaultsOK
<1> QED BY <1>5, <1>6, <1>7, <1>8, <1>9, <1>10

(* So do its commits.                                                        *)
LEMMA CommittingSteps ==
  ASSUME TypeOK, NEW c \in Caller
  PROVE  ReapSealed(c) \/ BeginStored(c) \/ CallStored(c) => TypeOK'
<1> DEFINE k == call[c]
<1>1. CallOK(k) /\ k.turn \in Nat /\ k.run \in RunOrNone /\ k.state \in State
      /\ (k.step # "idle" => k.at \in Instance)
  BY CallInFlight
<1>2. ASSUME Answer(c) PROVE CallsOK'
  BY <1>2, CallTypes, BecomeType DEF Answer, TypeOK
<1>3. ASSUME ReapSealed(c) PROVE TypeOK'
  <2> DEFINE r == Reaped(head.state, now, k.at, k.ask.over)
             reaps == /\ StoreCommit(r.events, r.state)
                      /\ writer' = ClosedLocally(k.at, r.closed, "interrupted")
                      /\ released' = ForgetClosed(k.at, r.state)
  <2>1. CallsOK' /\ k.at \in Instance
    BY <1>1, <1>2, <1>3 DEF ReapSealed
  <2>2. CASE reaps
    <3>1. r.events \in SUBSET Event /\ r.state \in State /\ r.closed \in Nat
      BY ReapShape DEF Reaps, TypeOK, LogOK, Head
    <3>2. /\ StoreCommit(r.events, r.state)
          /\ writer' = ClosedLocally(k.at, r.closed, "interrupted")
          /\ released' = ForgetClosed(k.at, r.state)
      BY <2>2
    <3> HIDE DEF r
    <3>3. LogOK'
      BY <3>1, <3>2, StoreCommitType DEF TypeOK
    <3>4. WritersOK'
      BY <2>1, <3>1, <3>2, ClosedLocallyType DEF TypeOK, WritersOK, WriterTold
    <3>5. InstancesOK'
      BY <1>3, <2>1, <3>2, ReleasedType DEF ReapSealed, TypeOK, InstancesOK
    <3> QED BY <1>3, <2>1, <3>3, <3>4, <3>5 DEF ReapSealed, TypeOK, FaultsOK
  <2>3. CASE ~reaps
    <3>1. UNCHANGED <<logVars, writer, released, registered, stopping, alive, stalled, faults>>
      BY <1>3, <2>3 DEF ReapSealed
    <3> QED BY <2>1, <3>1 DEF TypeOK, logVars, LogOK, WritersOK, InstancesOK, FaultsOK
  <2> QED BY <2>2, <2>3
<1>4. ASSUME BeginStored(c) PROVE TypeOK'
  <2> DEFINE plan == BeginPlan(k)
             rec == [k EXCEPT !.step = "opened", !.turn = plan.next.turns, !.rev = head.rev + 1,
                              !.state = plan.next, !.reaped = BeginReap(k).closed, !.ask = NoAsk,
                              !.item = NoItem, !.key = NoKey, !.now = 0, !.tries = 0]
  <2>1. k.op = "begin" /\ k.step = "read" /\ ~Refuses(k) /\ plan.next.turns <= MaxTurn
    BY <1>4 DEF BeginStored, Commits
  <2>2. PlannedFrom(k.state, plan) /\ plan.next.turns \in Nat \ {0} /\ BeginReap(k).closed \in Nat
    BY <1>1, <2>1, BeginPlanShape DEF CallOK
  <2>3. plan.events \in SUBSET Event /\ plan.next \in State
    BY <2>2 DEF PlannedFrom
  <2>4. CallOK(rec)
    <3>1. head.rev + 1 \in Nat /\ NoKey \in Key /\ plan.next.turns \in 1..MaxTurn
      BY <2>1, <2>2, SessionsConstants DEF TypeOK, LogOK, Head, NoKey, Key, KeyIds, RunOrNone
    <3> HIDE DEF plan
    <3> QED BY <1>1, <2>1, <2>2, <2>3, <3>1 DEF CallOK, Call, AskedWith, CallStepName, CloseOp, Inboxes
  <2>5. CallsOK'
    BY <1>4, <2>4, BecomeType DEF BeginStored, TypeOK
  <2>6. LogOK'
    BY <1>4, <2>3, StoreCommitType DEF BeginStored, TypeOK
  <2>7. InstancesOK'
    BY <1>4 DEF BeginStored, TypeOK, InstancesOK
  <2> QED BY <1>4, <2>5, <2>6, <2>7 DEF BeginStored, TypeOK, WritersOK, FaultsOK
<1>5. ASSUME CallStored(c) PROVE TypeOK'
  <2> DEFINE plan == PlanOf(k)
  <2>1. k.op # "begin" /\ k.step = "read" /\ ~Refuses(k) /\ k.at \in Instance
    BY <1>1, <1>5 DEF CallStored, Commits
  <2>2. plan.events \in SUBSET Event /\ plan.next \in State
    BY <1>1, <2>1, PlanShape DEF CallOK, PlannedFrom
  <2>3. LogOK'
    BY <1>5, <2>2, StoreCommitType DEF CallStored, TypeOK
  <2>4. CallsOK' /\ WritersOK'
    <3>1. CASE k.op \in CloseOp /\ plan.told = "closed"
      <4>1. CallOK(Closing(k))
        BY <1>1, <2>1, <3>1, ClosingType
      <4> QED BY <1>5, <3>1, <4>1, BecomeType DEF CallStored, TypeOK, WritersOK
    <3>2. CASE ~(k.op \in CloseOp /\ plan.told = "closed")
      BY <1>2, <1>5, <3>2 DEF CallStored, TypeOK, WritersOK
    <3> QED BY <3>1, <3>2
  <2>5. InstancesOK'
    BY <1>5, <2>1, ReleasedType DEF CallStored, TypeOK, InstancesOK
  <2> QED BY <1>5, <2>1, <2>3, <2>4, <2>5 DEF CallStored, TypeOK, FaultsOK
<1> QED BY <1>3, <1>4, <1>5

(* So does a call that conflicts, finds no session, or fails.                *)
LEMMA FailingSteps ==
  ASSUME TypeOK, NEW c \in Caller
  PROVE  Conflicted(c) \/ Vanished(c) \/ StoreFailed(c) => TypeOK'
<1> DEFINE k == call[c]
<1>1. CallOK(k) /\ k.rev \in Nat /\ k.inc \in Nat /\ k.tries \in Nat /\ k.state \in State
  BY CallInFlight DEF CallOK, Call
<1>2. ASSUME UNCHANGED <<logVars, registered, stopping, alive>>, FaultsOK', CallsOK', WritersOK',
             released' \in [Instance -> SUBSET (Nat \X RunOrNone)]
      PROVE  TypeOK'
  BY <1>2 DEF TypeOK, logVars, LogOK, InstancesOK
<1>3. ASSUME Conflicted(c) PROVE TypeOK'
  <2>1. k.step = "read" /\ FaultsOK' /\ UNCHANGED <<logVars, registered, stopping, alive>>
    BY <1>3 DEF Conflicted, Commits, TypeOK, FaultsOK
  <2>2. CASE k.tries + 1 < Retries
    <3> DEFINE again == [k EXCEPT !.tries = @ + 1]
    <3>1. Asks(k)
      BY <1>1, <2>1, CallTypes
    <3>2. Asks(again)
      BY <1>1, <3>1 DEF Asks, Call, Inboxes, CloseOp
    <3>3. CallOK(Reading(again))
      <4> HIDE DEF again
      <4> QED BY <3>2, ReadingType DEF TypeOK
    <3>4. CallsOK'
      BY <1>3, <2>2, <3>3, BecomeType DEF Conflicted, TypeOK
    <3>5. WritersOK' /\ released' \in [Instance -> SUBSET (Nat \X RunOrNone)]
      BY <1>3, <2>2 DEF Conflicted, TypeOK, WritersOK, InstancesOK
    <3> QED BY <1>2, <2>1, <3>4, <3>5
  <2>3. CASE ~(k.tries + 1 < Retries)
    <3>1. GivesUp(c, "contended")
      BY <1>3, <2>3 DEF Conflicted
    <3> QED BY <1>2, <2>1, <3>1, GivesUpType
  <2> QED BY <2>2, <2>3
<1>4. ASSUME Vanished(c) PROVE TypeOK'
  <2>1. k.step \in {"read", "lost"} /\ GivesUp(c, "missing") /\ FaultsOK'
        /\ UNCHANGED <<logVars, registered, stopping, alive>>
    BY <1>4 DEF Vanished, Commits, TypeOK, FaultsOK
  <2> QED BY <1>2, <2>1, GivesUpType
<1>5. ASSUME StoreFailed(c) PROVE TypeOK'
  <2> DEFINE plan == PlanOf(k)
  <2>1. k.step = "read" /\ ~Refuses(k) /\ GivesUp(c, "error")
        /\ UNCHANGED <<logVars, registered, stopping, alive>>
    BY <1>5 DEF StoreFailed, Commits
  <2>2. plan.events \in SUBSET Event /\ plan.next \in State
    BY <1>1, <2>1, PlanShape DEF CallOK, PlannedFrom
  <2>3. FaultsOK'
    <3>1. faults' \in Nat
      BY <1>5 DEF StoreFailed, Fault, TypeOK, FaultsOK
    <3>2. Stall(k.rev, k.inc, NoExpiry, plan.events, plan.next) /\ NoExpiry \in Nat
      BY <1>5 DEF StoreFailed, NoExpiry
    <3> HIDE DEF plan
    <3> QED BY <1>1, <2>2, <3>1, <3>2, StallType DEF TypeOK
  <2> QED BY <1>2, <2>1, <2>3, GivesUpType
<1> QED BY <1>3, <1>4, <1>5

(* So does handing a turn to its writer.                                     *)
LEMMA HandoverSteps ==
  ASSUME TypeOK, NEW c \in Caller
  PROVE  Handover(c) \/ BeginCut(c) => TypeOK'
<1> DEFINE k == call[c]
<1>1. CallOK(k) /\ k.rev \in Nat /\ k.state \in State /\ k.run \in RunOrNone /\ k.reaped \in Nat
  BY CallInFlight DEF CallOK, Call
<1>2. k.step = "opened" => k.at \in Instance /\ k.inc \in 1..MaxInc /\ k.turn \in 1..MaxTurn
  BY <1>1 DEF CallOK, AskedWith
<1>3. ASSUME Handover(c) PROVE TypeOK'
  <2> DEFINE w == [inc |-> k.inc, turn |-> k.turn]
             rec == [NoHold EXCEPT !.inst = k.at, !.run = k.run, !.phase = "Open", !.rev = k.rev, !.state = k.state]
             others == ClosedLocally(k.at, k.reaped, "interrupted")
  <2>1. k.step = "opened" /\ w \in WriterId
    BY <1>2, <1>3 DEF Handover, WriterId
  <2>2. WriterOK(rec)
    BY <1>1, <1>2, <2>1, NoHoldType DEF WriterOK, Writer, WritesFor, Phase
  <2>3. others \in [WriterId -> Writer] /\ \A v \in WriterId : WritesFor(others[v])
    BY <1>1, <1>2, <2>1, ClosedLocallyType DEF TypeOK, WriterTold
  <2>4. WritersOK'
    <3>1. writer' = [others EXCEPT ![w] = rec]
      BY <1>3 DEF Handover
    <3> HIDE DEF others, rec, w
    <3> QED BY <2>2, <2>3, <3>1 DEF WritersOK, WriterOK
  <2>5. InstancesOK'
    BY <1>3, <2>1 DEF Handover, TypeOK, InstancesOK
  <2>6. CallOK([Unread(k) EXCEPT !.step = "handed", !.reaped = 0])
    BY <1>1, <1>2, <2>1, InitialTypes DEF Unread, CallOK, Call, AskedWith, CallStepName, CloseOp, Inboxes
  <2>7. CallsOK'
    BY <1>3, <2>6, BecomeType DEF Handover, TypeOK
  <2> QED BY <1>3, <2>4, <2>5, <2>7 DEF Handover, TypeOK, logVars, LogOK, FaultsOK
<1>4. ASSUME BeginCut(c) PROVE TypeOK'
  <2> PICK told \in {"none", "error"} :
         Become(c, Reading([Asked(k.at, "unhanded") EXCEPT !.turn = k.turn, !.run = k.run, !.told = told]))
    BY <1>4 DEF BeginCut
  <2> DEFINE asked == [Asked(k.at, "unhanded") EXCEPT !.turn = k.turn, !.run = k.run, !.told = told]
  <2>1. k.at \in Instance /\ k.turn \in Nat /\ k.turn # 0 /\ "unhanded" \in Op
    BY <1>2, <1>4, SessionsConstants DEF BeginCut, Op
  <2>2. Asked(k.at, "unhanded") \in Call /\ Asked(k.at, "unhanded").op = "unhanded"
        /\ Asked(k.at, "unhanded").at = k.at
    BY <2>1, AskedType
  <2>3. Asks(asked)
    BY <1>1, <2>1, <2>2 DEF Asks, Call, Inboxes, CloseOp, Told
  <2>4. CallOK(Reading(asked))
    <3> HIDE DEF asked
    <3> QED BY <2>3, ReadingType DEF TypeOK
  <2>5. CallsOK'
    BY <2>4, BecomeType DEF TypeOK
  <2> QED BY <1>4, <2>5 DEF BeginCut, Fault, TypeOK, logVars, LogOK, WritersOK, InstancesOK, FaultsOK
<1> QED BY <1>3, <1>4

(* A writer and what it commits.                                             *)
LEMMA WriterInUse ==
  ASSUME TypeOK, NEW w \in WriterId
  PROVE  /\ WriterOK(writer[w]) /\ writer[w].rev \in Nat /\ writer[w].state \in State
         /\ w.turn \in Nat \ {0} /\ w.inc \in Nat
         /\ writer[w].phase \in Live => writer[w].inst \in Instance
         /\ writer[w].phase = "Ending" => writer[w].ending \in Reason
<1>1. writer[w] \in Writer /\ WritesFor(writer[w])
  BY DEF TypeOK, WritersOK
<1>2. w.turn \in Nat \ {0} /\ w.inc \in Nat
  BY LogBounds, SessionsConstants DEF WriterId
<1> QED BY <1>1, <1>2 DEF WriterOK, Writer, WritesFor, Live

(* A renewed lease changes nothing else of a state.                          *)
LEMMA RenewedShape ==
  ASSUME LogOK, NEW i, NEW s \in State, NEW always
  PROVE  Renewed(i, s, always) \in State /\ Renewed(i, s, always).turns = s.turns
         /\ Renewed(i, s, always).open.turn = s.open.turn /\ Renewed(i, s, always).open.run = s.open.run
<1>1. now + Ttl \in Nat
  BY SessionsConstants DEF LogOK
<1> QED BY <1>1 DEF Renewed, State, OpenTurn

(* A writer's commit keeps every variable typed.                             *)
LEMMA WriterCommitsType ==
  ASSUME TypeOK, NEW w \in WriterId, NEW events \in SUBSET Event, NEW next \in State, NEW rec,
         WriterOK(rec), WriterCommits(w, events, next, rec)
  PROVE  TypeOK'
<1>1. LogOK'
  BY StoreCommitType DEF WriterCommits, TypeOK
<1>2. WriterOK(At(rec, next))
  <2>1. head.rev + 1 \in Nat
    BY DEF TypeOK, LogOK, Head
  <2> QED BY <2>1 DEF At, WriterOK, Writer, WritesFor
<1>3. WritersOK'
  BY <1>2, WriterBecomesType DEF WriterCommits, TypeOK
<1> QED BY <1>1, <1>3 DEF WriterCommits, TypeOK, CallsOK, InstancesOK, FaultsOK

(* A step that changes one writer and nothing else.                          *)
LEMMA WriterChangesType ==
  ASSUME TypeOK, NEW w \in WriterId, NEW rec, WriterOK(rec), writer' = [writer EXCEPT ![w] = rec],
         UNCHANGED <<logVars, call, registered, released, stopping, alive, stalled, faults>>
  PROVE  TypeOK'
<1>1. WritersOK'
  BY WriterBecomesType DEF TypeOK
<1> QED BY <1>1 DEF TypeOK, logVars, LogOK, CallsOK, InstancesOK, FaultsOK

(* An end's event and state are typed.                                       *)
LEMMA EndShape ==
  ASSUME TypeOK, NEW w \in WriterId, writer[w].phase = "Ending"
  PROVE  EndEvents(w) \in SUBSET Event /\ EndState(w) \in State
<1>1. WriterOK(writer[w]) /\ writer[w].state \in State /\ writer[w].ending \in Reason /\ w.turn \in Nat
  BY WriterInUse
<1>2. EndState(w) \in State
  BY <1>1, ClosedStateType DEF EndState, WriterOK, Writer
<1>3. Ended(w.turn, writer[w].ending, "own", writer[w].held # "none",
            Dropped(writer[w].state, writer[w].ending, writer[w].tried)) \in EndEvent
  <2>1. Dropped(writer[w].state, writer[w].ending, writer[w].tried) \in SUBSET Notice
    BY DroppedType
  <2> QED BY <1>1, <2>1 DEF Ended, EndEvent, Code
<1> QED BY <1>2, <1>3 DEF EndEvents, Event

(* Every commit of a writer keeps every variable typed.                      *)
LEMMA WriterCommitSteps ==
  ASSUME TypeOK, NEW w \in WriterId
  PROVE  /\ Append(w) \/ KeepAlive(w) \/ SealCommit(w) \/ EndCommit(w) => TypeOK'
         /\ \A items \in SUBSET Steer : Take(w, items) => TypeOK'
<1> DEFINE me == writer[w]
<1>1. WriterOK(me) /\ me.state \in State /\ w.turn \in Nat /\ (me.phase \in Live => me.inst \in Instance)
  BY WriterInUse
<1>2. Wrote(w.turn) \in Event /\ \A items \in SUBSET Steer : Taken(w.turn, items) \in Event
  BY <1>1, EventTypes DEF Event
<1>3. \A i, always : Renewed(i, me.state, always) \in State
  BY <1>1, RenewedShape DEF TypeOK
<1>4. WriterOK([me EXCEPT !.tried = TRUE])
  BY <1>1 DEF WriterOK, Writer, WritesFor
<1>5. ASSUME Append(w) PROVE TypeOK'
  BY <1>2, <1>3, <1>4, <1>5, WriterCommitsType DEF Append
<1>6. ASSUME KeepAlive(w) PROVE TypeOK'
  BY <1>1, <1>3, <1>6, WriterCommitsType DEF KeepAlive
<1>7. ASSUME SealCommit(w) PROVE TypeOK'
  <2> DEFINE next == [Renewed(me.inst, me.state, FALSE) EXCEPT !.open.sealed = me.held]
             rec == [me EXCEPT !.sealing = me.held]
  <2>1. me.held \in Seal
    BY <1>1 DEF WriterOK, Writer
  <2>2. next \in State
    BY <1>3, <2>1 DEF State, OpenTurn
  <2>3. WriterOK(rec)
    BY <1>1, <2>1 DEF WriterOK, Writer, WritesFor
  <2>4. WriterCommits(w, {}, next, rec)
    BY <1>7 DEF SealCommit
  <2> HIDE DEF next, rec
  <2> QED BY <2>2, <2>3, <2>4, WriterCommitsType
<1>8. ASSUME EndCommit(w) PROVE TypeOK'
  <2>1. EndEvents(w) \in SUBSET Event /\ EndState(w) \in State
    BY <1>8, EndShape DEF EndCommit
  <2>2. WriterOK(Stop(me, "Ended", "none"))
    BY <1>1, <1>8, StoppedType DEF EndCommit, Live, WriterOK, WriterTold
  <2> QED BY <1>8, <2>1, <2>2, WriterCommitsType DEF EndCommit
<1>9. ASSUME NEW items \in SUBSET Steer, Take(w, items) PROVE TypeOK'
  <2> DEFINE s == WithoutItems(me.state, items)
  <2>1. Renewed(me.inst, s, FALSE) \in State
    <3>1. s \in State
      BY <1>1 DEF WithoutItems, State, Slot, NoSlot
    <3> HIDE DEF s
    <3> QED BY <3>1, RenewedShape DEF TypeOK
  <2>2. {Taken(w.turn, items)} \in SUBSET Event
    BY <1>2
  <2>3. WriterCommits(w, {Taken(w.turn, items)}, Renewed(me.inst, s, FALSE), [me EXCEPT !.tried = TRUE])
    BY <1>9 DEF Take
  <2> HIDE DEF s
  <2> QED BY <1>4, <2>1, <2>2, <2>3, WriterCommitsType
<1> QED BY <1>5, <1>6, <1>7, <1>8, <1>9

(* So do its steps beside the log.                                           *)
LEMMA WriterLocalSteps ==
  ASSUME TypeOK, NEW w \in WriterId
  PROVE  /\ SealApply(w) \/ Learns(w) \/ Contends(w) => TypeOK'
         /\ \A reply \in Replies : Hold(w, reply) => TypeOK'
         /\ \A ending \in Endings : End(w, ending) => TypeOK'
         /\ \A unended \in Unended : ScopeCloses(w, unended) => TypeOK'
<1> DEFINE me == writer[w]
<1>1. WriterOK(me) /\ (me.phase \in Live => me.inst \in Instance)
  BY WriterInUse
<1>2. head.rev \in Nat /\ head.state \in State
  BY DEF TypeOK, LogOK, Head
<1>3. me \in Writer /\ WritesFor(me)
  BY <1>1 DEF WriterOK
<1>4. \A told \in WriterTold : WriterOK(Stopped(me, told))
  BY <1>3, StoppedType
<1>5. ASSUME SealApply(w) PROVE TypeOK'
  <2> DEFINE rec == [me EXCEPT !.sealing = "none", !.sealed = IF me.phase = "Open" THEN me.sealing ELSE @]
  <2>1. WriterOK(rec)
    BY <1>3 DEF WriterOK, Writer, WritesFor, Seal
  <2>2. writer' = [writer EXCEPT ![w] = rec]
    BY <1>5, <1>3 DEF SealApply, TypeOK, WritersOK, Writer
  <2> HIDE DEF rec
  <2> QED BY <1>5, <2>1, <2>2, WriterChangesType DEF SealApply
<1>6. ASSUME Learns(w) PROVE TypeOK'
  <2>1. WriterOK([me EXCEPT !.rev = head.rev, !.state = head.state])
    BY <1>2, <1>3 DEF WriterOK, Writer, WritesFor
  <2>2. PICK rec : WriterOK(rec) /\ writer' = [writer EXCEPT ![w] = rec]
    BY <1>4, <1>6, <2>1 DEF Learns, WriterTold
  <2> QED BY <1>6, <2>2, WriterChangesType DEF Learns
<1>7. ASSUME Contends(w) PROVE TypeOK'
  <2>1. CASE Writing(w) /\ writer' = [writer EXCEPT ![w] = Stop(me, "Failed", "error")]
    <3>1. WriterOK(Stop(me, "Failed", "error"))
      BY <1>1, <1>3, <2>1, StoppedType DEF Writing, Live, WriterTold
    <3> QED BY <1>7, <2>1, <3>1, WriterChangesType DEF Contends
  <2> DEFINE rec == [me EXCEPT !.phase = "Open", !.attempted = me.ending,
                               !.rev = head.rev, !.state = head.state]
  <2>2. CASE me.phase = "Ending" /\ writer' = [writer EXCEPT ![w] = rec]
    <3>1. WriterOK(rec)
      BY <1>1, <1>2, <1>3, <2>2 DEF WriterOK, Writer, WritesFor, Phase, Live
    <3> HIDE DEF rec
    <3> QED BY <1>7, <2>2, <3>1, WriterChangesType DEF Contends
  <2> QED BY <1>7, <2>1, <2>2 DEF Contends
<1>8. ASSUME NEW reply \in Replies, Hold(w, reply) PROVE TypeOK'
  <2> DEFINE rec == [me EXCEPT !.held = reply, !.tried = TRUE]
  <2>1. WriterOK(rec)
    BY <1>3, SessionsConstants DEF WriterOK, Writer, WritesFor, Seal
  <2>2. writer' = [writer EXCEPT ![w] = rec]
    BY <1>8, <1>3 DEF Hold, TypeOK, WritersOK, Writer
  <2> HIDE DEF rec
  <2> QED BY <1>8, <2>1, <2>2, WriterChangesType DEF Hold
<1>9. ASSUME NEW ending \in Reason, NEW scope \in BOOLEAN, BeginEnd(w, ending, scope) PROVE TypeOK'
  <2> DEFINE as == IF me.sealed # "none" THEN me.sealed ELSE ending
             rec == [me EXCEPT !.phase = "Ending", !.scope = scope, !.ending = as]
  <2>1. as \in Reason /\ me.inst \in Instance
    BY <1>1, <1>3, <1>9 DEF BeginEnd, Live, Writer, Seal, Reason
  <2>2. WriterOK(rec)
    <3> HIDE DEF as
    <3> QED BY <1>3, <2>1 DEF WriterOK, Writer, WritesFor, Phase, Ending
  <2>3. writer' = [writer EXCEPT ![w] = rec]
    BY <1>9 DEF BeginEnd
  <2> HIDE DEF rec
  <2> QED BY <1>9, <2>2, <2>3, WriterChangesType DEF BeginEnd
<1>10. ASSUME NEW ending \in Endings, End(w, ending) PROVE TypeOK'
  BY <1>9, <1>10, SessionsConstants DEF End
<1>11. ASSUME NEW unended \in Unended, ScopeCloses(w, unended) PROVE TypeOK'
  <2> DEFINE ending == IF me.attempted # "none" THEN me.attempted
                       ELSE IF me.held # "none" THEN me.held ELSE unended
  <2>1. ending \in Reason
    BY <1>3, SessionsConstants DEF Writer, Ending, Seal, Reason
  <2>2. CASE BeginEnd(w, ending, TRUE)
    <3> HIDE DEF ending
    <3> QED BY <1>9, <2>1, <2>2
  <2>3. CASE me.phase = "Ending" /\ writer' = [writer EXCEPT ![w].scope = TRUE]
             /\ UNCHANGED <<logVars, call, registered, released, stopping, alive, stalled, faults>>
    <3>1. WriterOK([me EXCEPT !.scope = TRUE])
      BY <1>3 DEF WriterOK, Writer, WritesFor
    <3> QED BY <2>3, <3>1, WriterChangesType
  <2> QED BY <1>11, <2>2, <2>3 DEF ScopeCloses
<1> QED BY <1>5, <1>6, <1>7, <1>8, <1>10, <1>11

(* So do a write that fails and a scope that closed.                         *)
LEMMA WriterFaultSteps ==
  ASSUME TypeOK, NEW w \in WriterId
  PROVE  WriteFails(w) \/ ScopeDone(w) => TypeOK'
<1> DEFINE me == writer[w]
<1>1. WriterOK(me) /\ me \in Writer /\ me.rev \in Nat /\ me.state \in State /\ w.turn \in Nat /\ w.turn # 0
      /\ w.inc \in Nat /\ (me.phase \in Live => me.inst \in Instance)
  BY WriterInUse DEF WriterOK
<1>2. ASSUME WriteFails(w) PROVE TypeOK'
  <2>1. NotAfter(w) \in Nat
    BY <1>1 DEF NotAfter, NoExpiry, State, OpenTurn
  <2>2. faults' \in Nat /\ UNCHANGED <<logVars, call, registered, released, stopping, alive>>
    BY <1>2 DEF WriteFails, Fault, TypeOK, FaultsOK
  <2>3. ASSUME NEW events \in SUBSET Event, NEW next \in State, NEW rec, WriterOK(rec),
               Stall(me.rev, w.inc, NotAfter(w), events, next), writer' = [writer EXCEPT ![w] = rec]
        PROVE  TypeOK'
    <3>1. FaultsOK'
      BY <1>1, <2>1, <2>2, <2>3, StallType DEF TypeOK
    <3>2. WritersOK'
      BY <2>3, WriterBecomesType DEF TypeOK
    <3> QED BY <2>2, <3>1, <3>2 DEF TypeOK, logVars, LogOK, CallsOK, InstancesOK
  <2>4. {Wrote(w.turn)} \in SUBSET Event /\ {} \in SUBSET Event
    BY <1>1, EventTypes DEF Event
  <2>5. Renewed(me.inst, me.state, FALSE) \in State
    BY <1>1, RenewedShape DEF TypeOK
  <2>6. CASE /\ Writing(w) /\ Stall(me.rev, w.inc, NotAfter(w), {Wrote(w.turn)}, Renewed(me.inst, me.state, FALSE))
             /\ writer' = [writer EXCEPT ![w] = Stop(me, "Failed", "error")]
    <3>1. WriterOK(Stop(me, "Failed", "error"))
      BY <1>1, <2>6, StoppedType DEF Writing, Live, WriterOK, WriterTold
    <3> QED BY <2>3, <2>4, <2>5, <2>6, <3>1
  <2> DEFINE sealing == [Renewed(me.inst, me.state, FALSE) EXCEPT !.open.sealed = me.held]
  <2>7. CASE Stall(me.rev, w.inc, NotAfter(w), {}, sealing) /\ writer' = [writer EXCEPT ![w] = me]
    <3>1. sealing \in State
      BY <1>1, <2>5 DEF Writer, State, OpenTurn
    <3> HIDE DEF sealing
    <3> QED BY <1>1, <2>3, <2>4, <2>7, <3>1
  <2> DEFINE retried == [me EXCEPT !.phase = "Open", !.attempted = me.ending]
  <2>8. CASE /\ me.phase = "Ending" /\ Stall(me.rev, w.inc, NotAfter(w), EndEvents(w), EndState(w))
             /\ writer' = [writer EXCEPT ![w] = retried]
    <3>1. WriterOK(retried)
      BY <1>1, <2>8 DEF WriterOK, Writer, WritesFor, Phase, Live
    <3>2. EndEvents(w) \in SUBSET Event /\ EndState(w) \in State
      BY <2>8, EndShape
    <3> HIDE DEF retried
    <3> QED BY <2>3, <2>8, <3>1, <3>2
  <2> QED BY <1>2, <2>6, <2>7, <2>8 DEF WriteFails
<1>3. ASSUME ScopeDone(w) PROVE TypeOK'
  <2> DEFINE there == registered[me.inst]
  <2>1. me.inst \in Instance
    BY <1>1, <1>3 DEF ScopeDone, WriterOK, WritesFor
  <2>2. WritersOK'
    BY <1>3, NoHoldType, WriterBecomesType DEF ScopeDone, TypeOK
  <2>3. released' \in [Instance -> SUBSET (Nat \X RunOrNone)]
    <3>1. CASE there.turn = w.turn
      <4>1. there \in WriterId
        BY <1>1, <2>1, <3>1 DEF TypeOK, InstancesOK, NoWriter
      <4>2. writer[there].run \in RunOrNone
        BY <4>1 DEF TypeOK, WritersOK, Writer
      <4>3. released' \in {released, LetGo(me.inst, w.turn, writer[there].run)}
        BY <1>3 DEF ScopeDone
      <4> QED BY <1>1, <2>1, <4>2, <4>3, ReleasedType DEF TypeOK, InstancesOK
    <3>2. CASE there.turn # w.turn
      BY <1>3, <3>2 DEF ScopeDone, TypeOK, InstancesOK
    <3> QED BY <3>1, <3>2
  <2>4. InstancesOK'
    BY <1>3, <2>1, <2>3 DEF ScopeDone, TypeOK, InstancesOK
  <2> QED BY <1>3, <2>2, <2>4 DEF ScopeDone, TypeOK, logVars, LogOK, CallsOK, FaultsOK
<1> QED BY <1>2, <1>3

(* Shutdown, crashes, the session's own life, the store and the clock.       *)
LEMMA EnvironmentSteps ==
  ASSUME TypeOK
  PROVE  /\ \A i \in Instance : ShutdownRefuses(i) \/ ShutdownInterrupts(i) \/ Crash(i) \/ Remove(i) => TypeOK'
         /\ \A s \in stalled : Land(s) => TypeOK'
         /\ Create \/ Time => TypeOK'
<1>1. ASSUME NEW i \in Instance, ShutdownRefuses(i) \/ ShutdownInterrupts(i) PROVE TypeOK'
  <2>1. InstancesOK' /\ FaultsOK'
    BY <1>1 DEF ShutdownRefuses, ShutdownInterrupts, Fault, TypeOK, InstancesOK, FaultsOK
  <2> QED BY <1>1, <2>1 DEF ShutdownRefuses, ShutdownInterrupts, TypeOK, logVars, LogOK, CallsOK, WritersOK
<1>2. ASSUME NEW i \in Instance, Crash(i) PROVE TypeOK'
  <2>1. CallsOK'
    BY <1>2, CallTypes DEF Crash, TypeOK, CallsOK, CallOK
  <2>2. WritersOK'
    <3> DEFINE gone(w) == IF writer[w].inst = i THEN [NoHold EXCEPT !.phase = "Gone"] ELSE writer[w]
    <3>1. \A w \in WriterId : gone(w) \in Writer /\ WritesFor(gone(w))
      BY NoHoldType DEF TypeOK, WritersOK, WriterOK
    <3>2. writer' = [w \in WriterId |-> gone(w)]
      BY <1>2 DEF Crash
    <3> HIDE DEF gone
    <3> QED BY <3>1, <3>2 DEF WritersOK
  <2>3. InstancesOK' /\ FaultsOK'
    BY <1>2 DEF Crash, Fault, TypeOK, InstancesOK, FaultsOK
  <2> QED BY <1>2, <2>1, <2>2, <2>3 DEF Crash, TypeOK, logVars, LogOK
<1>3. ASSUME NEW i \in Instance, Remove(i) PROVE TypeOK'
  <2>1. LogOK'
    <3>1. head' \in Head
      BY <1>3, InitialTypes DEF Remove, RemoveSession, TypeOK, LogOK, Head
    <3> QED BY <1>3, <3>1 DEF Remove, RemoveSession, TypeOK, LogOK
  <2>2. WritersOK'
    <3>1. registered[i].turn \in Nat
      BY LogBounds, SessionsConstants DEF TypeOK, InstancesOK, NoWriter, WriterId
    <3> QED BY <1>3, <3>1, ClosedLocallyType DEF Remove, TypeOK, WritersOK, WriterTold
  <2>3. InstancesOK' /\ FaultsOK'
    BY <1>3 DEF Remove, Fault, TypeOK, InstancesOK, FaultsOK
  <2> QED BY <1>3, <2>1, <2>2, <2>3 DEF Remove, TypeOK, CallsOK
<1>4. ASSUME NEW s \in stalled, Land(s) PROVE TypeOK'
  <2>1. s.events \in SUBSET Event /\ s.next \in State
    BY DEF TypeOK, FaultsOK, Stalled
  <2>2. LogOK'
    BY <1>4, <2>1, StoreCommitType DEF Land, TypeOK
  <2> QED BY <1>4, <2>2 DEF Land, TypeOK, CallsOK, WritersOK, InstancesOK, FaultsOK
<1>5. ASSUME Create PROVE TypeOK'
  <2>1. LogOK'
    <3>1. head' \in Head
      BY <1>5, InitialTypes, LogBounds DEF Create, CreateSession, TypeOK, LogOK, Head
    <3> QED BY <1>5, <3>1 DEF Create, CreateSession, TypeOK, LogOK
  <2> QED BY <1>5, <2>1 DEF Create, local, TypeOK, CallsOK, WritersOK, InstancesOK, FaultsOK
<1>6. ASSUME Time PROVE TypeOK'
  BY <1>6 DEF Time, Tick, local, TypeOK, LogOK, CallsOK, WritersOK, InstancesOK, FaultsOK
<1> QED BY <1>1, <1>2, <1>3, <1>4, <1>5, <1>6

(* The variables are typed initially.                                        *)
LEMMA InitType == Init => TypeOK
<1> SUFFICES ASSUME Init PROVE TypeOK
  OBVIOUS
<1>1. LogOK
  BY InitialTypes, LogBounds DEF Init, LogOK, Head
<1>2. CallsOK
  BY CallTypes DEF Init, CallsOK, CallOK
<1>3. WritersOK
  BY NoHoldType DEF Init, WritersOK, WritesFor, NoHold
<1>4. InstancesOK /\ FaultsOK
  BY DEF Init, InstancesOK, FaultsOK
<1> QED BY <1>1, <1>2, <1>3, <1>4 DEF TypeOK

(* Every step keeps every variable typed.                                    *)
LEMMA NextType == TypeOK /\ [Next]_vars => TypeOK'
<1> SUFFICES ASSUME TypeOK, [Next]_vars PROVE TypeOK'
  OBVIOUS
<1>1. ASSUME NEW c \in Caller, CallStep(c) \/ StoreFailed(c) \/ BeginCut(c) PROVE TypeOK'
  BY <1>1, LocalSteps, CommittingSteps, FailingSteps, HandoverSteps DEF CallStep
<1>2. ASSUME NEW c \in Caller, NEW i \in Instance,
             \/ \E ask \in Ask : AskBegin(c, i, ask)
             \/ \E turn \in CancelTurns : AskCancel(c, i, turn)
             \/ \E item \in Delivers : AskDeliver(c, i, item)
             \/ \E tx \in Tx : AskTransact(c, i, tx)
             \/ ShutdownCloses(c, i)
      PROVE  TypeOK'
  BY <1>2, AskBeginType, AskInboxType, ClosesAskedType
<1>3. ASSUME NEW c \in Caller, NEW w \in WriterId, AskTimeLimit(c, w) PROVE TypeOK'
  BY <1>3, ClosesAskedType
<1>4. ASSUME NEW w \in WriterId, WriterStep(w) \/ WriteFails(w) PROVE TypeOK'
  BY <1>4, WriterCommitSteps, WriterLocalSteps, WriterFaultSteps DEF WriterStep
<1>5. ASSUME \/ \E i \in Instance : ShutdownRefuses(i) \/ ShutdownInterrupts(i) \/ Crash(i) \/ Remove(i)
             \/ \E s \in stalled : Land(s)
             \/ Create \/ Time
      PROVE  TypeOK'
  BY <1>5, EnvironmentSteps
<1>6. ASSUME UNCHANGED vars PROVE TypeOK'
  BY <1>6 DEF vars, TypeOK, LogOK, CallsOK, WritersOK, InstancesOK, FaultsOK
<1> QED BY <1>1, <1>2, <1>3, <1>4, <1>5, <1>6 DEF Next

(* Every variable is of its type in every reachable state.                   *)
THEOREM TypeCorrect == Spec => []TypeOK
  BY InitType, NextType, PTL DEF Spec
=============================================================================
