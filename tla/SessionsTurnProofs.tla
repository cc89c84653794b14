-------------------------- MODULE SessionsTurnProofs --------------------------
(***************************************************************************)
(* The turns of a session do not overlap, and nothing of a turn is stored  *)
(* after its end.  TurnInvariant is inductive together with the types: a   *)
(* commit is stored only at the revision it was planned from, so it was    *)
(* decided from the state it replaces, and a commit so decided keeps the   *)
(* journal and the head in agreement.                                      *)
(***************************************************************************)
EXTENDS SessionsProofs

-----------------------------------------------------------------------------
(* A commit decided from the head's state keeps the ledger.                  *)

(* The journal agrees with the head on the turns.                            *)
Ledger == LedgerOf(head.state, journal, head.rev)

(* What a commit adds to the journal was decided as its events were.         *)
LEMMA CommitAdds ==
  ASSUME LogOK, NEW events \in SUBSET Event, NEW next \in State,
         Decides(head.state, events, next), StoreCommit(events, next)
  PROVE  /\ head'.state = next /\ head'.rev = head.rev + 1 /\ head'.present = head.present
         /\ \E new \in SUBSET Event :
              /\ journal' = journal \cup new
              /\ \A f \in new : f.rev = head.rev + 1
              /\ Decides(head.state, new, next)
<1> DEFINE rev == head.rev + 1
           stamp(e) == [e EXCEPT !.rev = rev]
           new == {stamp(e) : e \in events}
<1>1. rev \in Nat
  BY DEF LogOK, Head
<1>2. head'.state = next /\ head'.rev = rev /\ head'.present = head.present /\ journal' = journal \cup new
  BY DEF StoreCommit, LogOK, Head
<1>3. \A e \in events : /\ stamp(e) \in Event /\ stamp(e).rev = rev /\ stamp(e).kind = e.kind
                        /\ e.kind \in OfTurn => stamp(e).turn = e.turn
                        /\ e.kind = "turn.started" => stamp(e).run = e.run
  BY <1>1, Restamped
<1>4. (\A e \in events : stamp(e) \in new) /\ \A f \in new : \E e \in events : f = stamp(e)
  OBVIOUS
<1> HIDE DEF new, stamp
<1>5. new \in SUBSET Event /\ \A f \in new : f.rev = rev
  BY <1>3, <1>4
<1>6. Decides(head.state, new, next)
  <2>1. \A f \in new : f.kind \in OfTurn \ {"turn.started"} => IsOpen(head.state) /\ f.turn = head.state.open.turn
    BY <1>3, <1>4 DEF Decides, OfTurn
  <2>2. \A f, g \in new : f.kind = g.kind /\ f.kind \in {"turn.started", "turn.ended"} => f = g
    BY <1>3, <1>4 DEF Decides
  <2>3. \A f \in new : f.kind = "turn.started" =>
          /\ f.turn = head.state.turns + 1
          /\ next.turns = head.state.turns + 1 /\ next.open.turn = head.state.turns + 1 /\ next.open.run = f.run
          /\ IsOpen(head.state) => \E g \in new : g.kind = "turn.ended"
    BY <1>3, <1>4 DEF Decides, OfTurn
  <2>4. (\A f \in new : f.kind # "turn.started") =>
          /\ next.turns = head.state.turns
          /\ IF \E f \in new : f.kind = "turn.ended" THEN ~IsOpen(next)
             ELSE next.open.turn = head.state.open.turn /\ next.open.run = head.state.open.run
    BY <1>3, <1>4 DEF Decides
  <2> QED BY <2>1, <2>2, <2>3, <2>4 DEF Decides
<1> QED BY <1>2, <1>5, <1>6

(* A commit decided from the head's state keeps them in agreement: it writes *)
(* of the open turn only, ends it at most, and begins one only when none is  *)
(* left open.                                                                *)
LEMMA CommitKeepsLedger ==
  ASSUME LogOK, Ledger, NEW events \in SUBSET Event, NEW next \in State,
         Decides(head.state, events, next), StoreCommit(events, next)
  PROVE  Ledger'
<1> DEFINE s == head.state
           rev == head.rev + 1
<1>1. rev \in Nat /\ head.rev \in Nat /\ s.turns \in Nat /\ s.open.turn \in Nat /\ s \in State
  BY DEF LogOK, Head, State, OpenTurn
<1>2. PICK new \in SUBSET Event :
        /\ head'.state = next /\ head'.rev = rev /\ journal' = journal \cup new
        /\ \A f \in new : f.rev = rev
        /\ Decides(s, new, next)
  BY CommitAdds
<1>3. \A f \in new : f.rev = rev
  BY <1>2
<1>4. \A f \in new : f.kind \in OfTurn \ {"turn.started"} => IsOpen(s) /\ f.turn = s.open.turn
  BY <1>2 DEF Decides
<1>5. \A f, g \in new : f.kind = g.kind /\ f.kind \in {"turn.started", "turn.ended"} => f = g
  BY <1>2 DEF Decides
<1>6. \A f \in new : f.kind = "turn.started" =>
        /\ f.turn = s.turns + 1 /\ next.turns = s.turns + 1 /\ next.open.turn = s.turns + 1
        /\ next.open.run = f.run /\ (IsOpen(s) => \E g \in new : g.kind = "turn.ended")
  BY <1>2 DEF Decides
<1>7. (\A f \in new : f.kind # "turn.started") =>
        /\ next.turns = s.turns
        /\ IF \E f \in new : f.kind = "turn.ended" THEN ~IsOpen(next)
           ELSE next.open.turn = s.open.turn /\ next.open.run = s.open.run
  BY <1>2 DEF Decides
<1> DEFINE J == journal
           starts == {e \in J : e.kind = "turn.started"}
           ends == {e \in J : e.kind = "turn.ended"}
           newStarts == {e \in new : e.kind = "turn.started"}
           newEnds == {e \in new : e.kind = "turn.ended"}
<1>8. /\ \A e \in J : e.rev <= head.rev
      /\ \A e \in starts : e.turn \in 1..s.turns
      /\ \A n \in 1..s.turns : \E e \in starts : e.turn = n
      /\ \A e, f \in starts : e.turn = f.turn => e = f
      /\ \A e, f \in ends : e.turn = f.turn => e = f
      /\ \A e \in J : e.kind \in OfTurn => \E f \in starts : f.turn = e.turn
      /\ \A e \in ends, f \in J : f.kind \in OfTurn /\ f.turn = e.turn => f.rev <= e.rev
      /\ \A e \in starts : e.turn = s.open.turn \/ \E f \in ends : f.turn = e.turn
      /\ IsOpen(s) => /\ s.open.turn = s.turns
                      /\ \E e \in starts : e.turn = s.open.turn /\ e.run = s.open.run
                      /\ \A e \in ends : e.turn # s.open.turn
  BY DEF Ledger, LedgerOf
<1>9. \A e \in J : e.rev \in Nat
  BY DEF LogOK, Event, StartEvent, EndEvent, TurnEvent, OtherEvent
<1>10. next.turns \in Nat /\ next.turns >= s.turns /\ next.open.turn \in Nat
  BY <1>1, <1>6, <1>7 DEF State, OpenTurn
<1>11. \A e \in ends : e.turn \in 1..s.turns
  BY <1>8 DEF OfTurn
<1>12. \A e \in newEnds : IsOpen(s) /\ e.turn = s.open.turn /\ e.turn \in 1..s.turns
  BY <1>4, <1>8 DEF OfTurn
<1> HIDE DEF J
<1> SUFFICES LedgerOf(next, J \cup new, rev)
  BY <1>2 DEF Ledger, J
<1>13. \A e \in J \cup new : e.rev <= rev
  BY <1>1, <1>3, <1>8, <1>9 DEF J
<1>14. \A e \in starts \cup newStarts : e.turn \in 1..next.turns
  BY <1>1, <1>6, <1>8, <1>10
<1>15. \A n \in 1..next.turns : \E e \in starts \cup newStarts : e.turn = n
  <2>1. CASE newStarts # {}
    BY <1>1, <1>6, <1>8, <2>1
  <2>2. CASE newStarts = {}
    BY <1>7, <1>8, <2>2
  <2> QED BY <2>1, <2>2
<1>16. \A e, f \in starts \cup newStarts : e.turn = f.turn => e = f
  BY <1>1, <1>5, <1>6, <1>8
<1>17. \A e, f \in ends \cup newEnds : e.turn = f.turn => e = f
  BY <1>5, <1>8, <1>12
<1>18. \A e \in J \cup new : e.kind \in OfTurn => \E f \in starts \cup newStarts : f.turn = e.turn
  <2> SUFFICES ASSUME NEW e \in new, e.kind \in OfTurn \ {"turn.started"}
               PROVE  \E f \in starts : f.turn = e.turn
    BY <1>8
  <2> QED BY <1>4, <1>8
<1>19. \A e \in ends \cup newEnds, f \in J \cup new : f.kind \in OfTurn /\ f.turn = e.turn => f.rev <= e.rev
  <2> SUFFICES ASSUME NEW e \in ends \cup newEnds, NEW f \in J \cup new, f.kind \in OfTurn, f.turn = e.turn
               PROVE  f.rev <= e.rev
    OBVIOUS
  <2>1. CASE e \in newEnds
    BY <1>1, <1>3, <1>13, <2>1
  <2>2. CASE e \in ends /\ f \in J
    BY <1>8, <2>2
  <2>3. CASE e \in ends /\ f \in newStarts
    BY <1>1, <1>6, <1>11, <2>3
  <2>4. CASE e \in ends /\ f \in new \ newStarts
    BY <1>4, <1>8, <2>4
  <2> QED BY <2>1, <2>2, <2>3, <2>4
<1>20. \A e \in starts \cup newStarts : e.turn = next.open.turn \/ \E f \in ends \cup newEnds : f.turn = e.turn
  <2>1. ASSUME NEW e \in starts, e.turn = s.open.turn
        PROVE  e.turn = next.open.turn \/ \E f \in newEnds : f.turn = e.turn
    <3>1. IsOpen(s)
      BY <1>8, <2>1 DEF IsOpen
    <3>2. CASE newEnds # {}
      BY <1>12, <2>1, <3>2
    <3>3. CASE newEnds = {}
      BY <1>6, <1>7, <2>1, <3>1, <3>3
    <3> QED BY <3>2, <3>3
  <2> QED BY <1>6, <1>8, <2>1
<1>21. IsOpen(next) => /\ next.open.turn = next.turns
                       /\ \E e \in starts \cup newStarts : e.turn = next.open.turn /\ e.run = next.open.run
                       /\ \A e \in ends \cup newEnds : e.turn # next.open.turn
  <2>1. CASE newStarts # {}
    BY <1>1, <1>6, <1>11, <1>12, <2>1
  <2>2. CASE newStarts = {} /\ IsOpen(next)
    <3>1. newEnds = {} /\ next.turns = s.turns /\ next.open.turn = s.open.turn /\ next.open.run = s.open.run
      BY <1>7, <2>2
    <3> QED BY <1>8, <2>2, <3>1 DEF IsOpen
  <2> QED BY <2>1, <2>2
<1>22. /\ starts \cup newStarts = {e \in J \cup new : e.kind = "turn.started"}
       /\ ends \cup newEnds = {e \in J \cup new : e.kind = "turn.ended"}
  OBVIOUS
<1> HIDE DEF starts, ends, newStarts, newEnds
<1> QED BY <1>13, <1>14, <1>15, <1>16, <1>17, <1>18, <1>19, <1>20, <1>21, <1>22 DEF LedgerOf

-----------------------------------------------------------------------------
(* Nobody who follows the head is left believing in a state it no longer has.*)

(* What a step may do to the head.                                           *)
LogMoves ==
  \/ UNCHANGED head
  \/ \E events \in SUBSET Event, next \in State : StoreCommit(events, next)
  \/ CreateSession(InitialState)
  \/ RemoveSession(InitialState)

(* The head of a typed log.                                                  *)
LEMMA HeadType ==
  ASSUME LogOK
  PROVE  /\ head.rev \in Nat /\ head.inc \in Nat /\ head.state \in State
         /\ head = [present |-> head.present, inc |-> head.inc, rev |-> head.rev, state |-> head.state]
  BY LogBounds DEF LogOK, Head

(* A revision that was not the head's before a step is not the head's after  *)
(* it: revisions and incarnations only grow, and a session created again is  *)
(* another incarnation.                                                      *)
LEMMA PastKept ==
  ASSUME LogOK, LogMoves, NEW inc \in Nat, NEW rev \in Nat, Past(head, inc, rev)
  PROVE  Past(head', inc, rev) /\ (IsHead(head', inc, rev) => IsHead(head, inc, rev) /\ UNCHANGED head)
<1>1. CASE UNCHANGED head
  BY <1>1
<1>2. CASE \E events \in SUBSET Event, next \in State : StoreCommit(events, next)
  <2>1. head'.rev = head.rev + 1 /\ head'.inc = head.inc /\ head'.present = head.present
    BY <1>2, HeadType DEF StoreCommit
  <2> QED BY HeadType, <2>1 DEF Past, IsHead
<1>3. CASE CreateSession(InitialState)
  BY HeadType, <1>3 DEF CreateSession, Past, IsHead
<1>4. CASE RemoveSession(InitialState)
  BY HeadType, <1>4 DEF RemoveSession, Past, IsHead
<1> QED BY <1>1, <1>2, <1>3, <1>4 DEF LogMoves

(* So whoever followed the head follows it still.                            *)
LEMMA FollowersKept ==
  ASSUME LogOK, LogMoves
  PROVE  /\ \A k \in Call : CallFollows(head, k) => CallFollows(head', k)
         /\ \A w \in WriterId, me \in Writer : WriterFollows(head, w, me) => WriterFollows(head', w, me)
         /\ \A s \in Stalled : StalledFollows(head, s) => StalledFollows(head', s)
<1>1. ASSUME NEW inc \in Nat, NEW rev \in Nat, NEW state, Snapshot(head, inc, rev, state)
      PROVE  Snapshot(head', inc, rev, state)
  BY <1>1, PastKept DEF Snapshot
<1>2. \A k \in Call : CallFollows(head, k) => CallFollows(head', k)
  BY <1>1 DEF CallFollows, Call
<1>3. \A w \in WriterId, me \in Writer : WriterFollows(head, w, me) => WriterFollows(head', w, me)
  BY <1>1, LogBounds DEF WriterFollows, Writer, WriterId
<1>4. \A s \in Stalled : StalledFollows(head, s) => StalledFollows(head', s)
  BY PastKept DEF StalledFollows, Stalled
<1> QED BY <1>2, <1>3, <1>4

(* Whoever commits, or reads the head, follows it afterwards.                *)
LEMMA HeadFollowed ==
  ASSUME LogOK
  PROVE  /\ head.present => Snapshot(head, head.inc, head.rev, head.state)
         /\ \A events, next : StoreCommit(events, next) => Snapshot(head', head.inc, head.rev + 1, next)
<1>1. head.present => Snapshot(head, head.inc, head.rev, head.state)
  BY HeadType DEF Snapshot, Past, IsHead
<1>2. ASSUME NEW events, NEW next, StoreCommit(events, next)
      PROVE  Snapshot(head', head.inc, head.rev + 1, next)
  <2>1. head'.rev = head.rev + 1 /\ head'.inc = head.inc /\ head'.state = next
    BY HeadType, <1>2 DEF StoreCommit
  <2> QED BY HeadType, <2>1 DEF Snapshot, Past, IsHead
<1> QED BY <1>1, <1>2

(* A call that reads the head follows it.                                    *)
LEMMA ReadingFollows ==
  ASSUME LogOK, NEW k \in Call
  PROVE  CallFollows(head, Reading(k))
<1>1. CASE ~head.present
  BY <1>1 DEF Reading, CallFollows, Call
<1>2. CASE head.present /\ k.op = "begin" /\ stopping[k.at] # "running"
  BY <1>2 DEF Reading, CallFollows, Call
<1>3. CASE head.present /\ ~(k.op = "begin" /\ stopping[k.at] # "running")
  <2>1. Reading(k) = [k EXCEPT !.step = "read", !.inc = head.inc, !.rev = head.rev, !.state = head.state, !.now = now]
    BY <1>3 DEF Reading
  <2> QED BY <1>3, <2>1, HeadFollowed DEF CallFollows, Call
<1> QED BY <1>1, <1>2, <1>3

(* A commit planned at the head's revision was decided from the head's state.*)
LEMMA StoredFromHead ==
  ASSUME NEW inc, NEW rev, NEW notAfter, NEW state,
         CommitAnswer(rev, inc, notAfter) = "stored", Snapshot(head, inc, rev, state)
  PROVE  IsHead(head, inc, rev) /\ state = head.state
  BY DEF CommitAnswer, Snapshot, IsHead

-----------------------------------------------------------------------------
(* Steps that leave the log alone, and steps that commit.                    *)

(* What a step may make of calls, writers and stalled commits.               *)
Followed ==
  /\ \A c \in Caller : call'[c] = call[c] \/ CallFollows(head', call'[c])
  /\ \A w \in WriterId : writer'[w] = writer[w] \/ WriterFollows(head', w, writer'[w])
  /\ \A s \in stalled' : s \in stalled \/ StalledFollows(head', s)

(* A step keeps the followers if whatever it changed follows the new head.   *)
LEMMA FollowStep ==
  ASSUME TypeOK, PlansFromTheHead, LogMoves, Followed
  PROVE  PlansFromTheHead'
<1>1. /\ \A c \in Caller : call[c] \in Call
      /\ \A w \in WriterId : writer[w] \in Writer
      /\ \A s \in stalled : s \in Stalled
  BY DEF TypeOK, CallsOK, WritersOK, FaultsOK
<1>2. /\ \A c \in Caller : CallFollows(head', call[c])
      /\ \A w \in WriterId : WriterFollows(head', w, writer[w])
      /\ \A s \in stalled : StalledFollows(head', s)
  BY <1>1, FollowersKept DEF TypeOK, PlansFromTheHead, CallsFollow, WritersFollow
<1> QED BY <1>2 DEF Followed, PlansFromTheHead, CallsFollow, WritersFollow

(* What a step may do to the log: nothing, a commit decided from the head's  *)
(* state, or create the session or remove it.                                *)
DecidedStep ==
  \/ UNCHANGED <<head, journal>>
  \/ \E events \in SUBSET Event, next \in State :
       Decides(head.state, events, next) /\ StoreCommit(events, next)
  \/ CreateSession(InitialState)
  \/ RemoveSession(InitialState)

(* Every step keeps the invariant, and changes the log only so.              *)
TurnsStep == TurnInvariant' /\ DecidedStep

(* A step that leaves the log alone keeps the invariant if what it changed   *)
(* follows.                                                                  *)
LEMMA QuietStep ==
  ASSUME TypeOK, TurnInvariant, UNCHANGED logVars, Followed
  PROVE  TurnsStep
<1>1. LogMoves /\ UNCHANGED <<head, journal>>
  BY DEF LogMoves, logVars
<1>2. PlansFromTheHead'
  BY <1>1, FollowStep DEF TurnInvariant
<1> QED BY <1>1, <1>2 DEF TurnInvariant, TurnsStep, DecidedStep

(* So does a commit decided from the head's state.                           *)
LEMMA CommitStep ==
  ASSUME TypeOK, TurnInvariant, NEW events \in SUBSET Event, NEW next \in State,
         head.present, StoreCommit(events, next), Decides(head.state, events, next), Followed
  PROVE  TurnsStep
<1>1. PlansFromTheHead'
  BY FollowStep DEF TurnInvariant, LogMoves
<1>2. Ledger'
  BY CommitKeepsLedger DEF TypeOK, TurnInvariant, Ledger
<1>3. head'.present
  BY HeadType DEF StoreCommit, TypeOK
<1> QED BY <1>1, <1>2, <1>3 DEF TurnInvariant, Ledger, TurnsStep, DecidedStep

(* One call changes, and writers only stop.                                  *)
LEMMA OnlyCall ==
  ASSUME TypeOK, NEW c \in Caller, NEW rec, Become(c, rec), CallFollows(head', rec),
         \A w \in WriterId : writer'[w] = writer[w] \/ writer'[w].phase \notin Live,
         \A s \in stalled' : s \in stalled \/ StalledFollows(head', s)
  PROVE  Followed
<1>1. \A d \in Caller : call'[d] = call[d] \/ call'[d] = rec
  BY DEF Become, TypeOK, CallsOK
<1> QED BY <1>1 DEF Followed, WriterFollows

(* One writer changes.                                                       *)
LEMMA OnlyWriter ==
  ASSUME TypeOK, NEW w \in WriterId, NEW rec, writer' = [writer EXCEPT ![w] = rec],
         WriterFollows(head', w, rec), UNCHANGED call,
         \A s \in stalled' : s \in stalled \/ StalledFollows(head', s)
  PROVE  Followed
<1>1. \A v \in WriterId : writer'[v] = writer[v] \/ (v = w /\ writer'[v] = rec)
  BY DEF TypeOK, WritersOK
<1> QED BY <1>1 DEF Followed

(* A caller with no call in flight follows anything.                         *)
LEMMA IdleFollows == CallFollows(head, Idle) /\ CallFollows(head', Idle)
  BY DEF CallFollows, Idle

(* Nor does a close that has only this instance's writer to close.           *)
LEMMA ClosingFollows == \A h, k : CallFollows(h, Closing(k))
  BY DEF Closing, Idle, CallFollows

(* A writer closed from here no longer writes.                               *)
LEMMA ClosedLocallyStops ==
  ASSUME TypeOK, NEW i, NEW turn, NEW told
  PROVE  \A w \in WriterId : ClosedLocally(i, turn, told)[w] = writer[w]
                              \/ ClosedLocally(i, turn, told)[w].phase \notin Live
<1>1. \A w \in WriterId : Stopped(writer[w], told).phase \notin Live
  BY DEF Stopped, Stop, NoHold, Live
<1> QED BY <1>1 DEF ClosedLocally, TypeOK, WritersOK

-----------------------------------------------------------------------------
(* Calls.                                                                    *)

(* Asking for a begin, a delivery, an enqueue or a transact keeps the        *)
(* invariant.                                                                *)
LEMMA CallInSteps ==
  ASSUME TypeOK, TurnInvariant, NEW c \in Caller, NEW i \in Instance
  PROVE  /\ \A ask \in Ask : AskBegin(c, i, ask) => TurnsStep
         /\ \A item \in Delivers : AskDeliver(c, i, item) => TurnsStep
         /\ \A tx \in Tx : AskTransact(c, i, tx) => TurnsStep
<1>1. ASSUME NEW rec, CallFollows(head, rec), CallIn(c, i, rec) PROVE TurnsStep
  <2>1. UNCHANGED logVars /\ UNCHANGED head /\ Become(c, rec) /\ UNCHANGED <<writer, stalled>>
    BY <1>1 DEF CallIn, local, logVars
  <2>2. Followed
    BY <1>1, <2>1, OnlyCall
  <2> QED BY <2>1, <2>2, QuietStep
<1>2. Idle \in Call
  BY CallTypes DEF CallOK
<1>3. ASSUME NEW ask \in Ask, AskBegin(c, i, ask) PROVE TurnsStep
  <2> DEFINE asked == [Asked(i, "begin") EXCEPT !.ask = ask, !.run = ask.run,
                           !.item = PreparedItem(ask), !.key = PreparedKey(ask)]
  <2>1. asked \in Call
    <3>1. "begin" \in Op
      BY DEF Op
    <3>2. Asked(i, "begin") \in Call
      BY <3>1, AskedType
    <3>3. PreparedItem(ask) \in Item \cup Tx \cup {NoItem} /\ PreparedKey(ask) \in Key /\ ask.run \in RunOrNone
      BY PreparedTypes, SessionsConstants DEF Item, RunOrNone, TypeOK
    <3> QED BY <3>2, <3>3 DEF Call
  <2>2. CallIn(c, i, IF ask.kind = "queued" \/ ask.resumes # 0
                     THEN [asked EXCEPT !.step = "prepared"] ELSE Reading(asked))
    BY <1>3 DEF AskBegin
  <2> HIDE DEF asked
  <2>3. CallFollows(head, [asked EXCEPT !.step = "prepared"])
    BY <2>1 DEF CallFollows, Call
  <2> QED BY <1>1, <2>1, <2>2, <2>3, ReadingFollows DEF TypeOK
<1>4. ASSUME NEW item \in Delivers, AskDeliver(c, i, item) PROVE TurnsStep
  <2> DEFINE op == IF item \in Notice THEN "deliver" ELSE "enqueue"
             asked == [Asked(i, op) EXCEPT !.item = item]
  <2>1. asked \in Call
    <3>1. op \in Op /\ item \in Item
      BY SessionsConstants DEF Op, Inboxes
    <3> HIDE DEF op
    <3> QED BY <3>1, AskedType DEF Call
  <2>2. CallIn(c, i, Reading(asked))
    BY <1>4 DEF AskDeliver
  <2> HIDE DEF asked
  <2> QED BY <1>1, <2>1, <2>2, ReadingFollows DEF TypeOK
<1>5. ASSUME NEW tx \in Tx, AskTransact(c, i, tx) PROVE TurnsStep
  <2> DEFINE asked == [Asked(i, "transact") EXCEPT !.item = tx]
  <2>1. asked \in Call
    <3>1. "transact" \in Op
      BY DEF Op
    <3> QED BY <3>1, AskedType DEF Call
  <2>2. CallIn(c, i, Reading(asked))
    BY <1>5 DEF AskTransact
  <2> HIDE DEF asked
  <2> QED BY <1>1, <2>1, <2>2, ReadingFollows DEF TypeOK
<1> QED BY <1>3, <1>4, <1>5

(* So does asking for a cancel, a time limit's close or a shutdown's.        *)
LEMMA CloseSteps ==
  ASSUME TypeOK, TurnInvariant, NEW c \in Caller
  PROVE  /\ \A i \in Instance, turn \in CancelTurns : AskCancel(c, i, turn) => TurnsStep
         /\ \A w \in WriterId : AskTimeLimit(c, w) => TurnsStep
         /\ \A i \in Instance : ShutdownCloses(c, i) => TurnsStep
<1>1. ASSUME NEW i \in Instance, NEW op \in CloseOp, NEW turn \in Nat, NEW run \in RunOrNone,
             AskClose(c, i, op, turn, run)
      PROVE  TurnsStep
  <2> DEFINE asked == [Asked(i, op) EXCEPT !.turn = turn, !.run = run]
             r == registered[i]
  <2>1. asked \in Call
    <3>1. op \in Op
      BY DEF Op
    <3>2. Asked(i, op) \in Call
      BY <3>1, AskedType
    <3> QED BY <3>2 DEF Call
  <2>2. UNCHANGED logVars /\ UNCHANGED head /\ UNCHANGED stalled
    BY <1>1 DEF AskClose, logVars
  <2>3. CASE SealedHere(i, turn)
    <3> DEFINE rec == [asked EXCEPT !.step = "await", !.inc = r.inc]
               me == [writer[r] EXCEPT !.phase = "Ending", !.ending = writer[r].sealed]
    <3>1. Become(c, rec) /\ writer' = [writer EXCEPT ![r] = me]
      BY <1>1, <2>3 DEF AskClose
    <3>2. CallFollows(head', rec)
      <4> HIDE DEF asked
      <4> QED BY <2>1 DEF CallFollows, Call
    <3>3. ASSUME r \in WriterId PROVE WriterFollows(head', r, me)
      <4>1. WriterFollows(head, r, writer[r]) /\ writer[r].phase \in Live /\ writer[r] \in Writer
        BY <2>3, <3>3 DEF SealedHere, TurnInvariant, PlansFromTheHead, WritersFollow, TypeOK, WritersOK
      <4> QED BY <2>2, <4>1 DEF WriterFollows, Writer
    <3>4. Followed
      <4> HIDE DEF rec, me
      <4>1. \A d \in Caller : call'[d] = call[d] \/ call'[d] = rec
        BY <3>1 DEF Become, TypeOK, CallsOK
      <4>2. \A v \in WriterId : writer'[v] = writer[v] \/ (v = r /\ writer'[v] = me)
        BY <3>1 DEF TypeOK, WritersOK
      <4> QED BY <2>2, <3>2, <3>3, <4>1, <4>2 DEF Followed
    <3> QED BY <2>2, <3>4, QuietStep
  <2>4. CASE ~SealedHere(i, turn)
    <3>1. Become(c, Reading(asked)) /\ UNCHANGED writer
      BY <1>1, <2>4 DEF AskClose
    <3> HIDE DEF asked
    <3>2. CallFollows(head', Reading(asked))
      BY <2>1, <2>2, ReadingFollows DEF TypeOK
    <3>3. Followed
      BY <2>2, <3>1, <3>2, OnlyCall
    <3> QED BY <2>2, <3>3, QuietStep
  <2> QED BY <2>3, <2>4
<1>2. ASSUME NEW i \in Instance, NEW turn \in CancelTurns, AskCancel(c, i, turn) PROVE TurnsStep
  BY <1>1, <1>2, SessionsConstants DEF AskCancel, CloseOp, RunOrNone
<1>3. ASSUME NEW w \in WriterId, AskTimeLimit(c, w) PROVE TurnsStep
  <2>1. writer[w].inst \in Instance /\ writer[w].run \in RunOrNone /\ w.turn \in Nat /\ "time-limit" \in CloseOp
    BY <1>3, WriterInUse DEF AskTimeLimit, WriterOK, Writer, CloseOp
  <2> QED BY <1>1, <1>3, <2>1 DEF AskTimeLimit
<1>4. ASSUME NEW i \in Instance, ShutdownCloses(c, i) PROVE TurnsStep
  <2>1. CASE registered[i] = NoWriter
    <3>1. UNCHANGED <<logVars, call, writer, stalled>>
      BY <1>4, <2>1 DEF ShutdownCloses
    <3> QED BY <3>1, QuietStep DEF Followed
  <2>2. CASE registered[i] # NoWriter
    <3> DEFINE w == registered[i]
    <3>1. w \in WriterId
      BY <2>2 DEF TypeOK, InstancesOK
    <3>2. writer[w].run \in RunOrNone /\ w.turn \in Nat /\ "shutdown" \in CloseOp
      BY <3>1, WriterInUse DEF WriterOK, Writer, CloseOp
    <3>3. AskClose(c, i, "shutdown", w.turn, writer[w].run)
      BY <1>4, <2>2 DEF ShutdownCloses
    <3> QED BY <1>1, <3>2, <3>3
  <2> QED BY <2>1, <2>2
<1> QED BY <1>2, <1>3, <1>4

(* So do a call's other steps beside the log.                                *)
LEMMA LocalCallSteps ==
  ASSUME TypeOK, TurnInvariant, NEW c \in Caller
  PROVE  ReadHead(c) \/ Refused(c) \/ Answered(c) \/ Handed(c) \/ AwaitOver(c) \/ CloseLocal(c) \/ BeginCut(c)
           => TurnsStep
<1> DEFINE k == call[c]
<1>1. k \in Call /\ k.turn \in Nat /\ k.run \in RunOrNone /\ (k.step # "idle" => k.at \in Instance)
  BY CallInFlight DEF CallOK
<1>2. ASSUME NEW rec, CallFollows(head, rec), Become(c, rec), UNCHANGED <<logVars, writer, stalled>>
      PROVE  TurnsStep
  <2>1. Followed
    BY <1>2, OnlyCall DEF logVars
  <2> QED BY <1>2, <2>1, QuietStep
<1>3. CallFollows(head, Reading(k))
  BY <1>1, ReadingFollows DEF TypeOK
<1>4. ASSUME NEW op \in Op, NEW told \in Told, k.at \in Instance
      PROVE  CallFollows(head, Reading([Asked(k.at, op) EXCEPT !.turn = k.turn, !.run = k.run, !.told = told]))
  <2> DEFINE asked == Asked(k.at, op)
             closing == [asked EXCEPT !.turn = k.turn, !.run = k.run, !.told = told]
  <2>1. asked \in Call
    BY <1>4, AskedType
  <2>2. closing \in Call
    <3> HIDE DEF asked
    <3> QED BY <1>1, <2>1 DEF Call
  <2> HIDE DEF closing
  <2>3. CallFollows(head, Reading(closing))
    BY <2>2, ReadingFollows DEF TypeOK
  <2> QED BY <2>3 DEF closing
<1>5. ASSUME Answer(c), UNCHANGED <<logVars, writer, stalled>> PROVE TurnsStep
  BY <1>2, <1>5, IdleFollows DEF Answer
<1>6. ASSUME ReadHead(c) \/ AwaitOver(c) PROVE TurnsStep
  BY <1>2, <1>3, <1>5, <1>6 DEF ReadHead, AwaitOver, local
<1>7. ASSUME Refused(c) PROVE TurnsStep
  <2>1. PICK told, turn, open : Become(c, RefusedCall(k, told, turn, open))
    BY <1>7 DEF Refused
  <2>2. CallFollows(head, RefusedCall(k, told, turn, open))
    BY IdleFollows DEF RefusedCall, Idle, CallFollows
  <2> QED BY <1>2, <1>7, <2>1, <2>2 DEF Refused, local
<1>8. ASSUME Answered(c) PROVE TurnsStep
  BY <1>5, <1>8 DEF Answered, local
<1>9. ASSUME Handed(c) PROVE TurnsStep
  <2> DEFINE base == Asked(k.at, "shutdown")
             asked == [base EXCEPT !.turn = k.turn, !.run = k.run]
  <2>1. "shutdown" \in Op /\ k.at \in Instance
    BY <1>1, <1>9 DEF Op, CloseOp, Handed
  <2>2. asked \in Call
    <3>1. base \in Call
      BY <2>1, AskedType
    <3> HIDE DEF base
    <3> QED BY <1>1, <3>1 DEF Call
  <2>3. CallFollows(head, Reading(asked))
    <3> HIDE DEF asked
    <3> QED BY <2>2, ReadingFollows DEF TypeOK
  <2> QED BY <1>2, <1>5, <1>9, <2>3 DEF Handed, local
<1>10. ASSUME BeginCut(c) PROVE TurnsStep
  <2>1. "unhanded" \in Op /\ {"none", "error"} \subseteq Told /\ k.at \in Instance
    BY <1>1, <1>10 DEF Op, Told, BeginCut
  <2> QED BY <1>2, <1>4, <1>10, <2>1 DEF BeginCut
<1>11. ASSUME CloseLocal(c) PROVE TurnsStep
  <2>1. \A w \in WriterId : writer'[w] = writer[w] \/ writer'[w].phase \notin Live
    BY <1>11, ClosedLocallyStops DEF CloseLocal
  <2>2. Followed
    BY <1>11, <2>1, IdleFollows, OnlyCall DEF CloseLocal, Answer, logVars
  <2> QED BY <1>11, <2>2, QuietStep DEF CloseLocal
<1> QED BY <1>6, <1>7, <1>8, <1>9, <1>10, <1>11

(* A call at its commit, when the store stores it, planned from the head.    *)
LEMMA PlannedCommit ==
  ASSUME TypeOK, TurnInvariant, NEW c \in Caller, Commits(call[c])
  PROVE  LET k == call[c] IN
         /\ PlanOf(k).events \in SUBSET Event /\ PlanOf(k).next \in State
         /\ Decides(k.state, PlanOf(k).events, PlanOf(k).next)
         /\ Snapshot(head, k.inc, k.rev, k.state)
<1> DEFINE k == call[c]
<1>1. CallOK(k) /\ k.step = "read" /\ ~Refuses(k) /\ PlanOf(k).commits
  BY CallInFlight DEF Commits
<1>2. PlannedFrom(k.state, PlanOf(k))
  BY <1>1, PlanShape DEF CallOK
<1>3. Snapshot(head, k.inc, k.rev, k.state)
  BY <1>1 DEF TurnInvariant, PlansFromTheHead, CallsFollow, CallFollows
<1> QED BY <1>1, <1>2, <1>3 DEF PlannedFrom

(* So do a call's commits.                                                   *)
LEMMA CommittingCallSteps ==
  ASSUME TypeOK, TurnInvariant, NEW c \in Caller
  PROVE  ReapSealed(c) \/ BeginStored(c) \/ CallStored(c) => TurnsStep
<1> DEFINE k == call[c]
<1>1. ASSUME NEW turn, NEW told, writer' \in {writer, ClosedLocally(k.at, turn, told)}
      PROVE  \A w \in WriterId : writer'[w] = writer[w] \/ writer'[w].phase \notin Live
  BY <1>1, ClosedLocallyStops
<1>2. ASSUME ReapSealed(c) PROVE TurnsStep
  <2> DEFINE r == Reaped(head.state, now, k.at, k.ask.over)
  <2>1. Answer(c) /\ UNCHANGED stalled /\ writer' \in {writer, ClosedLocally(k.at, r.closed, "interrupted")}
    BY <1>2 DEF ReapSealed
  <2>2. Followed
    BY <1>1, <2>1, IdleFollows, OnlyCall DEF Answer
  <2>3. CASE head.present /\ r.closed # 0 /\ StoreCommit(r.events, r.state)
    <3>1. Reaps(head.state, r)
      BY HeadType, ReapShape DEF TypeOK
    <3>2. Closes(head.state, r)
      BY <2>3, <3>1 DEF Reaps
    <3>3. r.events \in SUBSET Event /\ r.state \in State /\ Decides(head.state, r.events, r.state)
      BY <3>2 DEF Closes
    <3>4. StoreCommit(r.events, r.state)
      BY <1>2, <2>3 DEF ReapSealed
    <3> HIDE DEF r
    <3> QED BY <2>2, <2>3, <3>3, <3>4, CommitStep
  <2>4. CASE UNCHANGED logVars
    BY <1>2, <2>2, <2>4, QuietStep DEF ReapSealed
  <2>5. (head.present /\ r.closed # 0 /\ StoreCommit(r.events, r.state)) \/ UNCHANGED logVars
    BY <1>2 DEF ReapSealed, logVars
  <2> QED BY <2>3, <2>4, <2>5
<1>3. ASSUME BeginStored(c) PROVE TurnsStep
  <2> DEFINE plan == BeginPlan(k)
             rec == [k EXCEPT !.step = "opened", !.turn = plan.next.turns, !.rev = head.rev + 1,
                              !.state = plan.next, !.reaped = BeginReap(k).closed, !.ask = NoAsk,
                              !.item = NoItem, !.key = NoKey, !.now = 0, !.tries = 0]
  <2>1. Commits(k) /\ k.op = "begin" /\ k.step = "read" /\ ~Refuses(k) /\ StoreAnswers(k) = "stored"
        /\ StoreCommit(plan.events, plan.next) /\ Become(c, rec) /\ UNCHANGED <<writer, stalled>>
    BY <1>3 DEF BeginStored, Commits
  <2>2. PlanOf(k) = plan
    BY <2>1 DEF PlanOf, CloseOp
  <2>3. /\ plan.events \in SUBSET Event /\ plan.next \in State
        /\ Decides(k.state, plan.events, plan.next) /\ Snapshot(head, k.inc, k.rev, k.state)
    BY <2>1, <2>2, PlannedCommit
  <2>4. IsHead(head, k.inc, k.rev) /\ k.state = head.state
    BY <2>1, <2>3, StoredFromHead DEF StoreAnswers
  <2>5. k \in Call /\ plan.next.open.turn = plan.next.turns
    BY <2>1, CallInFlight, BeginPlanShape DEF CallOK
  <2>6. CallFollows(head', rec)
    <3>1. Snapshot(head', k.inc, head.rev + 1, plan.next)
      BY <2>1, <2>4, HeadFollowed DEF IsHead, TypeOK
    <3> HIDE DEF plan
    <3> QED BY <2>5, <3>1 DEF CallFollows, Call
  <2>7. Followed
    <3> HIDE DEF rec
    <3> QED BY <2>1, <2>6, OnlyCall
  <2> HIDE DEF plan
  <2> QED BY <2>1, <2>3, <2>4, <2>7, CommitStep DEF IsHead
<1>4. ASSUME CallStored(c) PROVE TurnsStep
  <2> DEFINE plan == PlanOf(k)
  <2>1. Commits(k) /\ StoreAnswers(k) = "stored" /\ StoreCommit(plan.events, plan.next)
        /\ (Become(c, Idle) \/ Become(c, Closing(k))) /\ UNCHANGED <<stalled, writer>>
    BY <1>4 DEF CallStored, Answer
  <2>2. /\ plan.events \in SUBSET Event /\ plan.next \in State
        /\ Decides(k.state, plan.events, plan.next) /\ Snapshot(head, k.inc, k.rev, k.state)
    BY <2>1, PlannedCommit
  <2>3. head.present /\ k.state = head.state
    BY <2>1, <2>2, StoredFromHead DEF StoreAnswers, IsHead
  <2>4. Followed
    BY <2>1, IdleFollows, ClosingFollows, OnlyCall
  <2> HIDE DEF plan
  <2> QED BY <2>1, <2>2, <2>3, <2>4, CommitStep
<1> QED BY <1>2, <1>3, <1>4

(* So does a call that conflicts, finds no session, or fails: a commit the   *)
(* store may still apply was decided from the head it was planned from.      *)
LEMMA FailingCallSteps ==
  ASSUME TypeOK, TurnInvariant, NEW c \in Caller
  PROVE  Conflicted(c) \/ Vanished(c) \/ StoreFailed(c) => TurnsStep
<1> DEFINE k == call[c]
<1>1. ASSUME NEW told, GivesUp(c, told), UNCHANGED logVars,
             \A s \in stalled' : s \in stalled \/ StalledFollows(head', s)
      PROVE  TurnsStep
  <2>1. PICK rec : Become(c, rec) /\ rec \in {Idle, Closing(k), RefusedCall(k, told, 0, FALSE)}
    BY <1>1 DEF GivesUp, Answer
  <2>2. CallFollows(head', rec)
    BY <2>1, IdleFollows, ClosingFollows DEF RefusedCall, Idle, CallFollows
  <2>3. UNCHANGED writer
    BY <1>1 DEF GivesUp
  <2>4. Followed
    BY <1>1, <2>1, <2>2, <2>3, OnlyCall
  <2> QED BY <1>1, <2>4, QuietStep
<1>2. ASSUME Conflicted(c) PROVE TurnsStep
  <2>1. CASE k.tries + 1 < Retries
    <3> DEFINE again == [k EXCEPT !.tries = @ + 1]
    <3>1. Become(c, Reading(again)) /\ UNCHANGED <<logVars, writer, stalled>>
      BY <1>2, <2>1 DEF Conflicted
    <3>2. again \in Call
      BY CallInFlight DEF CallOK, Call
    <3>3. CallFollows(head', Reading(again))
      <4> HIDE DEF again
      <4> QED BY <3>1, <3>2, ReadingFollows DEF TypeOK, logVars
    <3>4. Followed
      BY <3>1, <3>3, OnlyCall
    <3> QED BY <3>1, <3>4, QuietStep
  <2>2. CASE ~(k.tries + 1 < Retries)
    BY <1>1, <1>2, <2>2 DEF Conflicted
  <2> QED BY <2>1, <2>2
<1>3. ASSUME Vanished(c) PROVE TurnsStep
  BY <1>1, <1>3 DEF Vanished
<1>4. ASSUME StoreFailed(c) PROVE TurnsStep
  <2> DEFINE plan == PlanOf(k)
             s == [rev |-> k.rev, inc |-> k.inc, notAfter |-> NoExpiry, events |-> plan.events, next |-> plan.next]
  <2>1. Commits(k) /\ GivesUp(c, "error") /\ UNCHANGED logVars /\ stalled' = stalled \cup {s}
    BY <1>4 DEF StoreFailed, Stall
  <2>2. Decides(k.state, plan.events, plan.next) /\ Snapshot(head, k.inc, k.rev, k.state)
    BY <2>1, PlannedCommit
  <2>3. StalledFollows(head', s)
    BY <2>1, <2>2 DEF StalledFollows, Snapshot, logVars
  <2> HIDE DEF s
  <2> QED BY <1>1, <2>1, <2>3
<1> QED BY <1>2, <1>3, <1>4

(* A writer handed a turn follows the head the begin's commit left.          *)
LEMMA HandoverStep ==
  ASSUME TypeOK, TurnInvariant, NEW c \in Caller, Handover(c)
  PROVE  TurnsStep
<1> DEFINE k == call[c]
           w == [inc |-> k.inc, turn |-> k.turn]
           me == [NoHold EXCEPT !.inst = k.at, !.run = k.run, !.phase = "Open", !.rev = k.rev, !.state = k.state]
           rec == [Unread(k) EXCEPT !.step = "handed", !.reaped = 0]
           others == ClosedLocally(k.at, k.reaped, "interrupted")
<1>1. k.step = "opened" /\ k \in Call
  BY CallInFlight DEF Handover, CallOK
<1>2. CallFollows(head, k)
  BY DEF TurnInvariant, PlansFromTheHead, CallsFollow
<1>3. WriterFollows(head, w, me)
  BY <1>1, <1>2 DEF WriterFollows, CallFollows, NoHold
<1>4. CallFollows(head, rec)
  BY <1>1 DEF CallFollows, Unread, Call
<1>5. UNCHANGED logVars /\ UNCHANGED head /\ UNCHANGED stalled /\ Become(c, rec) /\ writer' = [others EXCEPT ![w] = me]
  BY DEF Handover, logVars
<1>6. others \in [WriterId -> Writer]
  BY CallInFlight, ClosedLocallyType, <1>1 DEF TypeOK, CallOK, Call, WriterTold, AskedWith
<1>7. Followed
  <2> HIDE DEF me, rec, w
  <2>1. \A d \in Caller : call'[d] = call[d] \/ call'[d] = rec
    BY <1>5 DEF Become, TypeOK, CallsOK
  <2>2. \A v \in WriterId : others[v] = writer[v] \/ others[v].phase \notin Live
    BY ClosedLocallyStops
  <2> HIDE DEF others
  <2>3. \A v \in WriterId : writer'[v] = others[v] \/ (v = w /\ writer'[v] = me)
    BY <1>5, <1>6
  <2>4. \A v \in WriterId : writer'[v] = writer[v] \/ WriterFollows(head', v, writer'[v])
    BY <1>3, <1>5, <2>2, <2>3 DEF WriterFollows
  <2> QED BY <1>4, <1>5, <2>1, <2>4 DEF Followed
<1> QED BY <1>5, <1>7, QuietStep

-----------------------------------------------------------------------------
(* Writers.                                                                  *)

(* What a turn writes of itself, its renewed lease and its seal are decided  *)
(* from the state it goes on from.                                           *)
LEMMA TurnWrites ==
  ASSUME NEW s \in State, NEW events, NEW next, IsOpen(s), next.turns = s.turns,
         next.open.turn = s.open.turn, next.open.run = s.open.run,
         \A e \in events : e.kind \in {"wrote", "inbox.taken"} /\ e.turn = s.open.turn
  PROVE  Decides(s, events, next)
  BY DEF Decides

(* A live writer decides its commits from its own turn, which it follows.    *)
LEMMA WriterDecides ==
  ASSUME TypeOK, TurnInvariant, NEW w \in WriterId, writer[w].phase \in Live
  PROVE  LET me == writer[w]
             renewed(always) == Renewed(me.inst, me.state, always)
             taken(items) == Renewed(me.inst, WithoutItems(me.state, items), FALSE)
             sealing == [renewed(FALSE) EXCEPT !.open.sealed = me.held]
         IN /\ Snapshot(head, w.inc, me.rev, me.state) /\ me.state.open.turn = w.turn
            /\ \A always : /\ renewed(always) \in State /\ renewed(always).open.turn = w.turn
                           /\ Decides(me.state, {}, renewed(always))
                           /\ Decides(me.state, {Wrote(w.turn)}, renewed(always))
            /\ \A items \in SUBSET Steer :
                 /\ taken(items) \in State /\ taken(items).open.turn = w.turn
                 /\ Decides(me.state, {Taken(w.turn, items)}, taken(items))
            /\ sealing \in State /\ sealing.open.turn = w.turn /\ Decides(me.state, {}, sealing)
            /\ me.phase = "Ending" => Decides(me.state, EndEvents(w), EndState(w))
<1> DEFINE me == writer[w]
           s == me.state
           renewed(always) == Renewed(me.inst, s, always)
           without(items) == WithoutItems(s, items)
           taken(items) == Renewed(me.inst, without(items), FALSE)
           sealing == [renewed(FALSE) EXCEPT !.open.sealed = me.held]
<1>1. Snapshot(head, w.inc, me.rev, s) /\ s.open.turn = w.turn
  BY DEF TurnInvariant, PlansFromTheHead, WritersFollow, WriterFollows
<1>2. s \in State /\ me \in Writer /\ w.turn \in Nat \ {0} /\ IsOpen(s)
  BY <1>1, WriterInUse DEF IsOpen, WriterOK
<1>3. \A always : /\ renewed(always) \in State /\ renewed(always).turns = s.turns
                 /\ renewed(always).open.turn = s.open.turn /\ renewed(always).open.run = s.open.run
  BY <1>2, RenewedShape DEF TypeOK
<1>4. /\ Wrote(w.turn).kind = "wrote" /\ Wrote(w.turn).turn = w.turn
      /\ \A items : Taken(w.turn, items).kind = "inbox.taken" /\ Taken(w.turn, items).turn = w.turn
  BY DEF Wrote, Taken
<1>5. \A items : /\ without(items) \in State /\ without(items).turns = s.turns /\ without(items).open = s.open
  BY <1>2 DEF WithoutItems, State, Slot, NoSlot
<1>6. \A items : /\ taken(items) \in State /\ taken(items).turns = s.turns
                /\ taken(items).open.turn = s.open.turn /\ taken(items).open.run = s.open.run
  <2> TAKE items
  <2> DEFINE u == without(items)
  <2>1. u \in State /\ u.turns = s.turns /\ u.open = s.open
    BY <1>5
  <2> HIDE DEF u
  <2>2. \A always : LET r == Renewed(me.inst, u, always) IN
          r \in State /\ r.turns = u.turns /\ r.open.turn = u.open.turn /\ r.open.run = u.open.run
    BY <2>1, RenewedShape DEF TypeOK
  <2> QED BY <2>1, <2>2 DEF u
<1>7. /\ sealing \in State /\ sealing.turns = s.turns
      /\ sealing.open.turn = s.open.turn /\ sealing.open.run = s.open.run
  <2> DEFINE r == renewed(FALSE)
  <2>1. r \in State /\ r.turns = s.turns /\ r.open.turn = s.open.turn /\ r.open.run = s.open.run
    BY <1>3
  <2> HIDE DEF r
  <2>2. sealing = [r EXCEPT !.open.sealed = me.held]
    BY DEF r
  <2>3. me.held \in Seal /\ r.open \in OpenTurn
    BY <1>2, <2>1 DEF Writer, State
  <2>4. sealing \in State /\ sealing.turns = r.turns /\ sealing.open = [r.open EXCEPT !.sealed = me.held]
    <3> HIDE DEF sealing
    <3> QED BY <2>1, <2>2, <2>3 DEF State, OpenTurn
  <2> HIDE DEF sealing
  <2> QED BY <2>1, <2>3, <2>4 DEF OpenTurn
<1>8. ASSUME me.phase = "Ending" PROVE Decides(s, EndEvents(w), EndState(w))
  <2>1. me.ending \in Reason /\ me.tried \in BOOLEAN /\ "own" \in Code /\ (me.held # "none") \in BOOLEAN
    BY <1>2, <1>8, WriterInUse DEF Writer, Code
  <2>2. Closes(s, ReapClosing(s, me.ending, "own", me.held # "none", me.tried))
    BY <1>2, <2>1, ReapClosingShape
  <2> QED BY <1>1, <2>2 DEF Closes, ReapClosing, EndEvents, EndState
<1> HIDE DEF s, renewed, taken, sealing, without
<1>9. /\ \A always : Decides(s, {}, renewed(always)) /\ Decides(s, {Wrote(w.turn)}, renewed(always))
      /\ \A items : Decides(s, {Taken(w.turn, items)}, taken(items))
      /\ Decides(s, {}, sealing)
  BY <1>1, <1>2, <1>3, <1>4, <1>6, <1>7, TurnWrites
<1> QED BY <1>1, <1>3, <1>6, <1>7, <1>8, <1>9 DEF s, renewed, taken, sealing, without

(* A writer's stored commit was decided from the head's state.               *)
LEMMA WriterStored ==
  ASSUME TypeOK, TurnInvariant, NEW w \in WriterId, NEW events \in SUBSET Event, NEW next \in State,
         NEW rec \in Writer, WriterCommits(w, events, next, rec), writer[w].phase \in Live,
         Decides(writer[w].state, events, next), rec.phase \in Live => next.open.turn = w.turn
  PROVE  TurnsStep
<1> DEFINE me == writer[w]
<1>1. Snapshot(head, w.inc, me.rev, me.state)
  BY DEF TurnInvariant, PlansFromTheHead, WritersFollow, WriterFollows
<1>2. IsHead(head, w.inc, me.rev) /\ me.state = head.state /\ StoreCommit(events, next)
  BY <1>1, StoredFromHead DEF WriterCommits, WriterAnswer
<1>3. Snapshot(head', w.inc, head.rev + 1, next)
  BY <1>2, HeadFollowed DEF IsHead, TypeOK
<1>4. WriterFollows(head', w, At(rec, next))
  BY <1>3 DEF At, WriterFollows, Writer
<1>5. Followed
  BY <1>4, OnlyWriter DEF WriterCommits
<1> QED BY <1>2, <1>5, CommitStep DEF IsHead

(* Every commit of a writer keeps the invariant.                             *)
LEMMA WriterCommitsFollow ==
  ASSUME TypeOK, TurnInvariant, NEW w \in WriterId
  PROVE  /\ Append(w) \/ KeepAlive(w) \/ SealCommit(w) \/ EndCommit(w) => TurnsStep
         /\ \A items \in SUBSET Steer : Take(w, items) => TurnsStep
<1> DEFINE me == writer[w]
           tried == [me EXCEPT !.tried = TRUE]
<1>1. me \in Writer /\ w.turn \in Nat /\ (Writing(w) => me.phase \in Live)
  BY WriterInUse DEF WriterOK, Writing, Live
<1>2. /\ tried \in Writer
      /\ {Wrote(w.turn)} \in SUBSET Event
      /\ \A items \in SUBSET Steer : {Taken(w.turn, items)} \in SUBSET Event
  <2>1. tried \in Writer
    BY <1>1 DEF Writer
  <2> HIDE DEF tried
  <2> QED BY <1>1, <2>1, EventTypes DEF Event
<1>3. ASSUME Append(w) PROVE TurnsStep
  <2> DEFINE next == Renewed(me.inst, me.state, FALSE)
  <2>1. /\ me.phase \in Live /\ WriterCommits(w, {Wrote(w.turn)}, next, tried)
        /\ next \in State /\ next.open.turn = w.turn /\ Decides(me.state, {Wrote(w.turn)}, next)
    BY <1>1, <1>3, WriterDecides DEF Append
  <2> HIDE DEF next, tried
  <2> QED BY <1>2, <2>1, WriterStored
<1>4. ASSUME KeepAlive(w) PROVE TurnsStep
  <2> DEFINE next == Renewed(me.inst, me.state, TRUE)
  <2>1. /\ me.phase \in Live /\ WriterCommits(w, {}, next, me)
        /\ next \in State /\ next.open.turn = w.turn /\ Decides(me.state, {}, next)
    BY <1>4, WriterDecides DEF KeepAlive, Live
  <2> HIDE DEF next
  <2> QED BY <1>1, <2>1, WriterStored
<1>5. ASSUME SealCommit(w) PROVE TurnsStep
  <2> DEFINE next == [Renewed(me.inst, me.state, FALSE) EXCEPT !.open.sealed = me.held]
             rec == [me EXCEPT !.sealing = me.held]
  <2>1. /\ me.phase \in Live /\ WriterCommits(w, {}, next, rec)
        /\ next \in State /\ next.open.turn = w.turn /\ Decides(me.state, {}, next)
    BY <1>1, <1>5, WriterDecides DEF SealCommit
  <2>2. rec \in Writer
    BY <1>1 DEF Writer
  <2> HIDE DEF next, rec
  <2> QED BY <2>1, <2>2, WriterStored
<1>6. ASSUME EndCommit(w) PROVE TurnsStep
  <2> DEFINE rec == Stop(me, "Ended", "none")
  <2>1. /\ me.phase \in Live /\ WriterCommits(w, EndEvents(w), EndState(w), rec)
        /\ Decides(me.state, EndEvents(w), EndState(w))
    BY <1>6, WriterDecides DEF EndCommit, Live
  <2>2. rec \in Writer /\ rec.phase \notin Live
    BY <1>1, NoHoldType DEF Stop, NoHold, Live, Writer, Phase
  <2>3. EndEvents(w) \in SUBSET Event /\ EndState(w) \in State
    BY <1>6, EndShape DEF EndCommit
  <2> HIDE DEF rec
  <2> QED BY <2>1, <2>2, <2>3, WriterStored
<1>7. ASSUME NEW items \in SUBSET Steer, Take(w, items) PROVE TurnsStep
  <2> DEFINE next == Renewed(me.inst, WithoutItems(me.state, items), FALSE)
  <2>1. /\ me.phase \in Live /\ WriterCommits(w, {Taken(w.turn, items)}, next, tried)
        /\ next \in State /\ next.open.turn = w.turn /\ Decides(me.state, {Taken(w.turn, items)}, next)
    BY <1>1, <1>7, WriterDecides DEF Take
  <2> HIDE DEF next, tried
  <2> QED BY <1>2, <2>1, WriterStored
<1> QED BY <1>3, <1>4, <1>5, <1>6, <1>7

(* A writer that changes beside the log stops, goes on from where it was, or *)
(* goes on from the head.                                                    *)
LEMMA WriterChanges ==
  ASSUME TypeOK, TurnInvariant, NEW w \in WriterId, NEW rec, writer' = [writer EXCEPT ![w] = rec],
         UNCHANGED <<logVars, call>>, \A s \in stalled' : s \in stalled \/ StalledFollows(head', s),
         \/ rec.phase \notin Live
         \/ writer[w].phase \in Live /\ rec.rev = writer[w].rev /\ rec.state = writer[w].state
         \/ IsHead(head, w.inc, head.rev) /\ rec.rev = head.rev /\ rec.state = head.state
            /\ head.state.open.turn = w.turn
  PROVE  TurnsStep
<1>1. WriterFollows(head, w, writer[w])
  BY DEF TurnInvariant, PlansFromTheHead, WritersFollow
<1>2. WriterFollows(head, w, rec)
  <2>1. CASE IsHead(head, w.inc, head.rev) /\ rec.rev = head.rev /\ rec.state = head.state
             /\ head.state.open.turn = w.turn
    BY <2>1, HeadFollowed DEF WriterFollows, IsHead, TypeOK
  <2> QED BY <1>1, <2>1 DEF WriterFollows
<1>3. Followed
  BY <1>2, OnlyWriter DEF logVars
<1> QED BY <1>3, QuietStep

(* So do its steps beside the log; it goes on from the head only while the   *)
(* turn is its own.                                                          *)
LEMMA WriterLocalFollow ==
  ASSUME TypeOK, TurnInvariant, NEW w \in WriterId
  PROVE  /\ SealApply(w) \/ Learns(w) \/ Contends(w) => TurnsStep
         /\ \A reply \in Replies : Hold(w, reply) => TurnsStep
         /\ \A ending \in Endings : End(w, ending) => TurnsStep
         /\ \A unended \in Unended : ScopeCloses(w, unended) => TurnsStep
<1> DEFINE me == writer[w]
           went == [me EXCEPT !.rev = head.rev, !.state = head.state]
<1>1. me \in Writer /\ writer \in [WriterId -> Writer]
  BY WriterInUse DEF WriterOK, TypeOK, WritersOK
<1>2. \A told : Stop(me, "Failed", told).phase \notin Live
  BY DEF Stop, NoHold, Live
<1>3. \A told : Stopped(me, told).phase \notin Live
  BY DEF Stopped, Stop, NoHold, Live
<1>4. WriterAnswer(w) = "conflict" => IsHead(head, w.inc, head.rev)
  BY DEF WriterAnswer, CommitAnswer, IsHead
<1>5. ASSUME NEW rec, writer' = [writer EXCEPT ![w] = rec], UNCHANGED <<logVars, call, stalled>>,
             me.phase \in Live, rec.rev = me.rev, rec.state = me.state
      PROVE  TurnsStep
  BY <1>5, WriterChanges
<1>6. ASSUME SealApply(w) PROVE TurnsStep
  <2> DEFINE rec == [me EXCEPT !.sealing = "none", !.sealed = IF me.phase = "Open" THEN me.sealing ELSE @]
  <2>1. writer' = [writer EXCEPT ![w] = rec] /\ UNCHANGED <<logVars, call, stalled>>
    BY <1>1, <1>6 DEF SealApply, Writer
  <2>2. rec.phase = me.phase /\ rec.rev = me.rev /\ rec.state = me.state
    BY <1>1 DEF Writer
  <2> HIDE DEF rec
  <2>3. CASE me.phase \in Live
    BY <1>5, <2>1, <2>2, <2>3
  <2>4. CASE me.phase \notin Live
    BY <2>1, <2>2, <2>4, WriterChanges
  <2> QED BY <2>3, <2>4
<1>7. ASSUME Learns(w) PROVE TurnsStep
  <2>1. UNCHANGED <<logVars, call, stalled>>
    BY <1>7 DEF Learns
  <2>2. CASE \E told : writer' = [writer EXCEPT ![w] = Stopped(me, told)]
    BY <1>3, <2>1, <2>2, WriterChanges
  <2>3. CASE WriterAnswer(w) = "conflict" /\ Ours(w) /\ writer' = [writer EXCEPT ![w] = went]
    <3>1. went.rev = head.rev /\ went.state = head.state
      BY <1>1 DEF Writer
    <3> HIDE DEF went
    <3> QED BY <1>4, <2>1, <2>3, <3>1, WriterChanges DEF Ours
  <2>4. \/ \E told : writer' = [writer EXCEPT ![w] = Stopped(me, told)]
        \/ WriterAnswer(w) = "conflict" /\ Ours(w) /\ writer' = [writer EXCEPT ![w] = went]
    <3> DEFINE told == IF {e \in Ends : e.turn = w.turn /\ e.reason = "cancelled"} # {} THEN "cancelled" ELSE "interrupted"
    <3>1. \/ writer' = [writer EXCEPT ![w] = Stopped(me, "interrupted")]
          \/ writer' = [writer EXCEPT ![w] = Stopped(me, "removed")]
          \/ WriterAnswer(w) = "conflict" /\ Ours(w) /\ writer' = [writer EXCEPT ![w] = went]
          \/ writer' = [writer EXCEPT ![w] = Stopped(me, told)]
      BY <1>1, <1>7 DEF Learns
    <3> HIDE DEF told, went
    <3> QED BY <3>1
  <2> QED BY <2>2, <2>3, <2>4
<1>8. ASSUME Contends(w) PROVE TurnsStep
  <2> DEFINE rec == [me EXCEPT !.phase = "Open", !.attempted = me.ending, !.rev = head.rev, !.state = head.state]
  <2>1. UNCHANGED <<logVars, call, stalled>> /\ WriterAnswer(w) = "conflict" /\ Ours(w)
    BY <1>8 DEF Contends
  <2>2. CASE writer' = [writer EXCEPT ![w] = Stop(me, "Failed", "error")]
    BY <1>2, <2>1, <2>2, WriterChanges
  <2>3. CASE writer' = [writer EXCEPT ![w] = rec]
    <3>1. rec.rev = head.rev /\ rec.state = head.state
      BY <1>1 DEF Writer
    <3> HIDE DEF rec
    <3> QED BY <1>4, <2>1, <2>3, <3>1, WriterChanges DEF Ours
  <2> QED BY <1>8, <2>2, <2>3 DEF Contends
<1>9. ASSUME NEW reply \in Replies, Hold(w, reply) PROVE TurnsStep
  <2> DEFINE rec == [me EXCEPT !.held = reply, !.tried = TRUE]
  <2>1. writer' = [writer EXCEPT ![w] = rec] /\ UNCHANGED <<logVars, call, stalled>> /\ me.phase \in Live
    BY <1>1, <1>9 DEF Hold, Writer, Writing, Live
  <2>2. rec.rev = me.rev /\ rec.state = me.state
    BY <1>1 DEF Writer
  <2> HIDE DEF rec
  <2> QED BY <1>5, <2>1, <2>2
<1>10. ASSUME NEW ending, NEW scope, BeginEnd(w, ending, scope) PROVE TurnsStep
  <2> DEFINE as == IF me.sealed # "none" THEN me.sealed ELSE ending
             rec == [me EXCEPT !.phase = "Ending", !.scope = scope, !.ending = as]
  <2>1. writer' = [writer EXCEPT ![w] = rec] /\ UNCHANGED <<logVars, call, stalled>> /\ me.phase \in Live
    BY <1>10 DEF BeginEnd, Live
  <2>2. rec.rev = me.rev /\ rec.state = me.state
    <3> HIDE DEF as
    <3> QED BY <1>1 DEF Writer
  <2> HIDE DEF rec
  <2> QED BY <1>5, <2>1, <2>2
<1>11. ASSUME NEW ending \in Endings, End(w, ending) PROVE TurnsStep
  BY <1>10, <1>11 DEF End
<1>12. ASSUME NEW unended \in Unended, ScopeCloses(w, unended) PROVE TurnsStep
  <2>1. CASE \E ending : BeginEnd(w, ending, TRUE)
    BY <1>10, <2>1
  <2>2. CASE me.phase = "Ending" /\ writer' = [writer EXCEPT ![w].scope = TRUE] /\ UNCHANGED <<logVars, call, stalled>>
    <3> DEFINE rec == [me EXCEPT !.scope = TRUE]
    <3>1. writer' = [writer EXCEPT ![w] = rec] /\ rec.rev = me.rev /\ rec.state = me.state /\ me.phase \in Live
      BY <1>1, <2>2 DEF Writer, Live
    <3> HIDE DEF rec
    <3> QED BY <1>5, <2>2, <3>1
  <2> QED BY <1>12, <2>1, <2>2 DEF ScopeCloses
<1> QED BY <1>6, <1>7, <1>8, <1>9, <1>11, <1>12

(* So do a write that fails and a scope that closed.                         *)
LEMMA WriterFaultsFollow ==
  ASSUME TypeOK, TurnInvariant, NEW w \in WriterId
  PROVE  WriteFails(w) \/ ScopeDone(w) => TurnsStep
<1> DEFINE me == writer[w]
<1>1. me \in Writer
  BY WriterInUse DEF WriterOK
<1>2. ASSUME WriteFails(w) PROVE TurnsStep
  <2>1. me.phase \in Live /\ UNCHANGED <<logVars, call>>
    BY <1>2 DEF WriteFails
  <2>2. Snapshot(head, w.inc, me.rev, me.state)
    BY <2>1, WriterDecides
  <2>3. ASSUME NEW events, NEW next, NEW rec, Decides(me.state, events, next),
               Stall(me.rev, w.inc, NotAfter(w), events, next), writer' = [writer EXCEPT ![w] = rec],
               rec.phase \notin Live \/ (rec.rev = me.rev /\ rec.state = me.state)
        PROVE  TurnsStep
    <3> DEFINE s == [rev |-> me.rev, inc |-> w.inc, notAfter |-> NotAfter(w), events |-> events, next |-> next]
    <3>1. StalledFollows(head', s)
      BY <2>1, <2>2, <2>3 DEF StalledFollows, Snapshot, logVars
    <3>2. stalled' = stalled \cup {s}
      BY <2>3 DEF Stall
    <3> HIDE DEF s
    <3> QED BY <2>1, <2>3, <3>1, <3>2, WriterChanges
  <2> DEFINE next == Renewed(me.inst, me.state, FALSE)
             sealing == [next EXCEPT !.open.sealed = me.held]
             failed == Stop(me, "Failed", "error")
             retried == [me EXCEPT !.phase = "Open", !.attempted = me.ending]
  <2>4. /\ Decides(me.state, {Wrote(w.turn)}, next) /\ Decides(me.state, {}, sealing)
        /\ me.phase = "Ending" => Decides(me.state, EndEvents(w), EndState(w))
    BY <2>1, WriterDecides
  <2>5. failed.phase \notin Live /\ retried.rev = me.rev /\ retried.state = me.state
    BY <1>1 DEF Stop, NoHold, Live, Writer
  <2>6. \/ Stall(me.rev, w.inc, NotAfter(w), {Wrote(w.turn)}, next) /\ writer' = [writer EXCEPT ![w] = failed]
        \/ Stall(me.rev, w.inc, NotAfter(w), {}, sealing) /\ writer' = [writer EXCEPT ![w] = me]
        \/ /\ me.phase = "Ending" /\ Stall(me.rev, w.inc, NotAfter(w), EndEvents(w), EndState(w))
           /\ writer' = [writer EXCEPT ![w] = retried]
    BY <1>2 DEF WriteFails
  <2> HIDE DEF next, sealing, failed, retried
  <2> QED BY <2>3, <2>4, <2>5, <2>6
<1>3. ASSUME ScopeDone(w) PROVE TurnsStep
  <2> DEFINE rec == [NoHold EXCEPT !.phase = "Gone"]
  <2>1. writer' = [writer EXCEPT ![w] = rec] /\ UNCHANGED <<logVars, call, stalled>> /\ rec.phase \notin Live
    BY <1>3 DEF ScopeDone, NoHold, Live
  <2> HIDE DEF rec
  <2> QED BY <2>1, WriterChanges
<1> QED BY <1>2, <1>3

-----------------------------------------------------------------------------
(* Shutdown, crashes, the session's own life, the store and the clock.       *)

(* A session with no events has no turns.                                    *)
LEMMA EmptyLedger == \A rev : LedgerOf(InitialState, {}, rev)
  BY DEF LedgerOf, InitialState, NoTurn, IsOpen

(* So do the rest of the steps; a removal forgets the journal with the head. *)
LEMMA EnvironmentFollows ==
  ASSUME TypeOK, TurnInvariant
  PROVE  /\ \A i \in Instance : ShutdownRefuses(i) \/ ShutdownInterrupts(i) \/ Crash(i) \/ Remove(i) => TurnsStep
         /\ \A s \in stalled : Land(s) => TurnsStep
         /\ Create \/ Time => TurnsStep
<1>1. ASSUME NEW i \in Instance, ShutdownRefuses(i) \/ ShutdownInterrupts(i) PROVE TurnsStep
  <2>1. UNCHANGED <<logVars, call, writer, stalled>>
    BY <1>1 DEF ShutdownRefuses, ShutdownInterrupts
  <2> QED BY <2>1, QuietStep DEF Followed
<1>2. ASSUME NEW i \in Instance, Crash(i) PROVE TurnsStep
  <2>1. UNCHANGED <<logVars, stalled>>
    BY <1>2 DEF Crash
  <2>2. \A c \in Caller : call'[c] = call[c] \/ CallFollows(head', call'[c])
    BY <1>2, IdleFollows DEF Crash
  <2>3. \A w \in WriterId : writer'[w] = writer[w] \/ WriterFollows(head', w, writer'[w])
    <3>1. \A w \in WriterId : writer'[w] = writer[w] \/ writer'[w] = [NoHold EXCEPT !.phase = "Gone"]
      BY <1>2 DEF Crash
    <3>2. [NoHold EXCEPT !.phase = "Gone"].phase \notin Live
      BY DEF NoHold, Live
    <3> QED BY <3>1, <3>2 DEF WriterFollows
  <2> QED BY <2>1, <2>2, <2>3, QuietStep DEF Followed
<1>3. ASSUME NEW i \in Instance, Remove(i) PROVE TurnsStep
  <2>1. RemoveSession(InitialState) /\ UNCHANGED <<call, stalled>>
        /\ writer' = ClosedLocally(i, registered[i].turn, "removed")
    BY <1>3 DEF Remove
  <2>2. Followed
    BY <2>1, ClosedLocallyStops DEF Followed, WriterFollows
  <2>3. PlansFromTheHead'
    BY <2>1, <2>2, FollowStep DEF LogMoves, TurnInvariant
  <2>4. head'.state = InitialState /\ journal' = {}
    BY <2>1, HeadType DEF RemoveSession, TypeOK
  <2> QED BY <2>1, <2>3, <2>4, EmptyLedger DEF TurnInvariant, TurnsStep, DecidedStep
<1>4. ASSUME NEW s \in stalled, Land(s) PROVE TurnsStep
  <2>1. /\ StoreCommit(s.events, s.next) /\ stalled' \subseteq stalled /\ UNCHANGED <<call, writer>>
        /\ IsHead(head, s.inc, s.rev)
    BY <1>4 DEF Land, CommitAnswer, IsHead
  <2>2. s.events \in SUBSET Event /\ s.next \in State
    BY DEF TypeOK, FaultsOK, Stalled
  <2>3. Decides(head.state, s.events, s.next)
    BY <2>1 DEF TurnInvariant, PlansFromTheHead, StalledFollows
  <2>4. Followed
    BY <2>1 DEF Followed
  <2> QED BY <2>1, <2>2, <2>3, <2>4, CommitStep DEF IsHead
<1>5. ASSUME Create PROVE TurnsStep
  <2>1. CreateSession(InitialState) /\ UNCHANGED <<call, writer, stalled>>
    BY <1>5 DEF Create, local
  <2>2. Followed
    BY <2>1 DEF Followed
  <2>3. PlansFromTheHead'
    BY <2>1, <2>2, FollowStep DEF LogMoves, TurnInvariant
  <2>4. head'.state = InitialState /\ journal' = {} /\ head'.present
    BY <2>1 DEF CreateSession, TurnInvariant
  <2> QED BY <2>1, <2>3, <2>4, EmptyLedger DEF TurnInvariant, TurnsStep, DecidedStep
<1>6. ASSUME Time PROVE TurnsStep
  <2>1. UNCHANGED <<head, journal, call, writer, stalled>>
    BY <1>6 DEF Time, Tick, local
  <2>2. Followed
    BY <2>1 DEF Followed
  <2>3. PlansFromTheHead'
    BY <2>1, <2>2, FollowStep DEF LogMoves, TurnInvariant
  <2> QED BY <2>1, <2>3 DEF TurnInvariant, TurnsStep, DecidedStep
<1> QED BY <1>1, <1>2, <1>3, <1>4, <1>5, <1>6

-----------------------------------------------------------------------------
(* The invariant holds, and the two properties follow from it.               *)

(* The invariant holds initially.                                            *)
LEMMA InitTurns == Init => TurnInvariant
<1> SUFFICES ASSUME Init PROVE TurnInvariant
  OBVIOUS
<1>1. LedgerOf(head.state, journal, head.rev) /\ head.present
  BY EmptyLedger DEF Init
<1>2. \A c \in Caller : CallFollows(head, call[c])
  BY IdleFollows DEF Init
<1>3. \A w \in WriterId : WriterFollows(head, w, writer[w])
  BY DEF Init, WriterFollows, NoHold, Live
<1> QED BY <1>1, <1>2, <1>3 DEF TurnInvariant, PlansFromTheHead, CallsFollow, WritersFollow, Init

(* Every step keeps the invariant, and changes the log as decided.          *)
LEMMA NextTurns == TypeOK /\ TurnInvariant /\ [Next]_vars => TurnsStep
<1> SUFFICES ASSUME TypeOK, TurnInvariant, [Next]_vars PROVE TurnsStep
  OBVIOUS
<1>1. ASSUME NEW c \in Caller, CallStep(c) \/ StoreFailed(c) \/ BeginCut(c) PROVE TurnsStep
  BY <1>1, LocalCallSteps, CommittingCallSteps, FailingCallSteps, HandoverStep DEF CallStep
<1>2. ASSUME NEW c \in Caller, NEW i \in Instance,
             \/ \E ask \in Ask : AskBegin(c, i, ask)
             \/ \E turn \in CancelTurns : AskCancel(c, i, turn)
             \/ \E item \in Delivers : AskDeliver(c, i, item)
             \/ \E tx \in Tx : AskTransact(c, i, tx)
             \/ ShutdownCloses(c, i)
      PROVE  TurnsStep
  BY <1>2, CallInSteps, CloseSteps
<1>3. ASSUME NEW c \in Caller, NEW w \in WriterId, AskTimeLimit(c, w) PROVE TurnsStep
  BY <1>3, CloseSteps
<1>4. ASSUME NEW w \in WriterId, WriterStep(w) \/ WriteFails(w) PROVE TurnsStep
  BY <1>4, WriterCommitsFollow, WriterLocalFollow, WriterFaultsFollow DEF WriterStep
<1>5. ASSUME \/ \E i \in Instance : ShutdownRefuses(i) \/ ShutdownInterrupts(i) \/ Crash(i) \/ Remove(i)
             \/ \E s \in stalled : Land(s)
             \/ Create \/ Time
      PROVE  TurnsStep
  BY <1>5, EnvironmentFollows
<1>6. CASE UNCHANGED vars
  <2>1. UNCHANGED <<logVars, call, writer, stalled>>
    BY <1>6 DEF vars, logVars
  <2> QED BY <2>1, QuietStep DEF Followed
<1> QED BY <1>1, <1>2, <1>3, <1>4, <1>5, <1>6 DEF Next

(* TurnInvariant holds of every session: whoever may still commit at the     *)
(* head's revision planned it from the head's state.                         *)
THEOREM TurnsFollowTheHead == Spec => []TurnInvariant
<1>1. Init => TypeOK /\ TurnInvariant
  BY InitType, InitTurns
<1>2. (TypeOK /\ TurnInvariant) /\ [Next]_vars => (TypeOK /\ TurnInvariant)'
  BY NextType, NextTurns DEF TurnsStep
<1> QED BY <1>1, <1>2, PTL DEF Spec

(* Turns do not overlap, whatever the instances, their clocks of the store,  *)
(* their faults and their bounds.                                            *)
THEOREM OneTurnAtATime == Spec => []TurnsDoNotOverlap
<1>1. TypeOK /\ TurnInvariant => TurnsDoNotOverlap
  <2> SUFFICES ASSUME TypeOK, TurnInvariant PROVE TurnsDoNotOverlap
    OBVIOUS
  <2> DEFINE s == head.state
  <2>1. s.open.turn \in Nat /\ s.turns \in Nat
    BY HeadType DEF TypeOK, State, OpenTurn
  <2>2. /\ \A e \in Starts : e.turn \in 1..s.turns
        /\ \A e, f \in Starts : e.turn = f.turn => e = f
        /\ \A e \in Starts : e.turn = s.open.turn \/ \E f \in Ends : f.turn = e.turn
        /\ IsOpen(s) => /\ \E e \in Starts : e.turn = s.open.turn /\ e.run = s.open.run
                        /\ \A e \in Ends : e.turn # s.open.turn
    BY DEF TurnInvariant, LedgerOf, Starts, Ends, Of
  <2>3. CASE IsOpen(s)
    BY <2>1, <2>2, <2>3 DEF TurnsDoNotOverlap, EndedTurns
  <2>4. CASE ~IsOpen(s)
    BY <2>1, <2>2, <2>4 DEF TurnsDoNotOverlap, EndedTurns, IsOpen
  <2> QED BY <2>3, <2>4
<1> QED BY <1>1, TypeCorrect, TurnsFollowTheHead, PTL

(* A turn ends once, and nothing of it is stored after its end.              *)
THEOREM EndsAreFinal == Spec => []NothingAfterTheEnd
<1>1. TurnInvariant => NothingAfterTheEnd
  <2> SUFFICES ASSUME TurnInvariant PROVE NothingAfterTheEnd
    OBVIOUS
  <2>1. /\ \A e, f \in Ends : e.turn = f.turn => e = f
        /\ \A e \in Ends, f \in journal : f.kind \in OfTurn /\ f.turn = e.turn => f.rev <= e.rev
    BY DEF TurnInvariant, LedgerOf, Ends, Of
  <2> QED BY <2>1 DEF NothingAfterTheEnd, Ends, Of, OfTurn
<1> QED BY <1>1, TurnsFollowTheHead, PTL

-----------------------------------------------------------------------------
(* Sessions implements the ledger its users see.  Every change of the log    *)
(* is a commit decided from the head's state, and such a commit is one step  *)
(* of the ledger: what it adds to the journal is of the open turn, its end,  *)
(* or the start of the next.                                                 *)

(* An end says why, and a start says whose.                                  *)
LEMMA EventsTell ==
  ASSUME NEW S \in SUBSET Event, S # {}
  PROVE  /\ (\A e \in S : e.kind = "turn.ended") => ReasonOf(S) \in Reason
         /\ (\A e \in S : e.kind = "turn.started") => RunOf(S) \in Run
<1> DEFINE e == CHOOSE f \in S : TRUE
<1>1. e \in S /\ e \in Event
  OBVIOUS
<1>2. ReasonOf(S) = e.reason /\ RunOf(S) = e.run
  BY DEF ReasonOf, RunOf
<1> HIDE DEF e
<1>3. /\ e.kind = "turn.ended" => e.reason \in Reason
      /\ e.kind = "turn.started" => e.run \in Run
  BY <1>1 DEF Event, StartEvent, EndEvent, TurnEvent, OtherEvent
<1> QED BY <1>1, <1>2, <1>3

(* A turn that has not ended is seen open, and no other.                     *)
LEMMA SeenOpen ==
  ASSUME journal \in SUBSET Event, NEW n
  PROVE  TurnSeen(n).reason = ReasonOf(EndsOf(n)) /\ (EndsOf(n) = {} <=> ReasonOf(EndsOf(n)) = "open")
<1>1. EndsOf(n) \in SUBSET Event /\ \A e \in EndsOf(n) : e.kind = "turn.ended"
  BY DEF EndsOf, Ends, Of
<1>2. EndsOf(n) # {} => ReasonOf(EndsOf(n)) \in Reason
  BY <1>1, EventsTell
<1>3. EndsOf(n) = {} => ReasonOf(EndsOf(n)) = "open"
  BY DEF ReasonOf
<1> QED BY <1>2, <1>3 DEF TurnSeen, Reason

(* The ledger's last turn is open as the head's state says.                  *)
LEMMA OpenIsLast ==
  ASSUME LogOK, Ledger
  PROVE  /\ AsSeen!IsOpen <=> IsOpen(head.state)
         /\ IsOpen(head.state) => head.state.open.turn = head.state.turns /\ EndsOf(head.state.turns) = {}
<1> DEFINE s == head.state
<1>1. s.turns \in Nat /\ journal \in SUBSET Event
  BY HeadType DEF State, LogOK
<1>2. /\ \A n \in 1..s.turns : \E e \in journal : e.kind = "turn.started" /\ e.turn = n
      /\ \A e \in journal : e.kind = "turn.started" =>
           e.turn \in 1..s.turns /\ (e.turn = s.open.turn \/ EndsOf(e.turn) # {})
      /\ IsOpen(s) => s.open.turn = s.turns /\ EndsOf(s.turns) = {}
  BY DEF Ledger, LedgerOf, EndsOf, Ends, Of
<1>3. s.turns # 0 => (IsOpen(s) <=> EndsOf(s.turns) = {})
  BY <1>1, <1>2 DEF IsOpen
<1>4. AsSeen!IsOpen <=> s.turns # 0 /\ EndsOf(s.turns) = {}
  BY <1>1, SeenOpen DEF AsSeen!IsOpen
<1>5. IsOpen(s) => s.turns # 0
  BY <1>2 DEF IsOpen
<1> QED BY <1>2, <1>3, <1>4, <1>5

-----------------------------------------------------------------------------
(* A commit decided from the head's state is one step of the ledger.         *)

(* What a commit decided from the head's state adds to the journal.          *)
Adds(new) ==
  /\ journal' = journal \cup new
  /\ Decides(head.state, new, head'.state)

(* Of the turns begun, only the open one is seen to change, and it keeps its *)
(* run and what it stored.                                                   *)
LEMMA SeenAcrossCommit ==
  ASSUME NEW new \in SUBSET Event, Adds(new), NEW n, n # head.state.turns + 1
  PROVE  /\ TurnSeen(n)'.run = TurnSeen(n).run
         /\ TurnSeen(n).stored \subseteq TurnSeen(n)'.stored
         /\ EndsOf(n)' = EndsOf(n) \cup {e \in new : e.kind = "turn.ended" /\ e.turn = n}
         /\ ~IsOpen(head.state) \/ n # head.state.open.turn => TurnSeen(n)' = TurnSeen(n)
<1>1. /\ StartsOf(n)' = StartsOf(n) \cup {e \in new : e.kind = "turn.started" /\ e.turn = n}
      /\ EndsOf(n)' = EndsOf(n) \cup {e \in new : e.kind = "turn.ended" /\ e.turn = n}
      /\ StoredOf(n)' = StoredOf(n) \cup {e \in new : e.kind \in {"wrote", "inbox.taken"} /\ e.turn = n}
  BY DEF Adds, StartsOf, EndsOf, StoredOf, Starts, Ends, Of
<1>2. StartsOf(n)' = StartsOf(n)
  BY <1>1 DEF Adds, Decides
<1>3. ~IsOpen(head.state) \/ n # head.state.open.turn =>
        EndsOf(n)' = EndsOf(n) /\ StoredOf(n)' = StoredOf(n)
  BY <1>1 DEF Adds, Decides, OfTurn
<1> QED BY <1>1, <1>2, <1>3 DEF TurnSeen

(* What begins in a commit is seen open, empty, and of the run that began it.*)
LEMMA BeginSeen ==
  ASSUME LogOK, LogOK', Ledger, Ledger', NEW new \in SUBSET Event, Adds(new),
         \E e \in new : e.kind = "turn.started",
         NEW n, n = head.state.turns + 1
  PROVE  /\ head'.state.turns = n
         /\ TurnSeen(n)'.run \in Run /\ TurnSeen(n)'.reason = "open" /\ TurnSeen(n)'.stored = {}
<1> DEFINE s == head.state
<1>1. s.turns \in Nat /\ s.open.turn \in Nat /\ journal' \in SUBSET Event
  BY HeadType DEF State, OpenTurn, LogOK
<1>2. PICK e \in new : e.kind = "turn.started"
  OBVIOUS
<1>3. e.turn = n /\ head'.state.turns = n /\ head'.state.open.turn = n
  BY <1>2 DEF Adds, Decides
<1>4. StartsOf(n)' \in SUBSET Event /\ StartsOf(n)' # {} /\ \A f \in StartsOf(n)' : f.kind = "turn.started"
  BY <1>1, <1>2, <1>3 DEF Adds, StartsOf, Starts, Of
<1>5. RunOf(StartsOf(n)') \in Run
  BY <1>4, EventsTell
<1>6. EndsOf(n)' = {}
  BY <1>1, <1>3 DEF Ledger, LedgerOf, EndsOf, Ends, Of, IsOpen
<1>7. StoredOf(n)' = {}
  <2>1. \A f \in journal : f.kind \in OfTurn => f.turn # n
    BY <1>1 DEF Ledger, LedgerOf
  <2>2. \A f \in new : f.kind \in OfTurn \ {"turn.started"} => f.turn # n
    BY <1>1 DEF Adds, Decides, Ledger, LedgerOf
  <2> QED BY <2>1, <2>2 DEF Adds, StoredOf, Of, OfTurn
<1> QED BY <1>3, <1>5, <1>6, <1>7 DEF TurnSeen, ReasonOf

(* So the commit begins a turn, ends one, does both, adds to the open one, or*)
(* is not seen.                                                              *)
LEMMA CommitAsSeen ==
  ASSUME LogOK, LogOK', Ledger, Ledger', NEW new \in SUBSET Event, Adds(new)
  PROVE  [AsSeen!Next]_(AsSeen!seen)
<1> DEFINE s == head.state
           begins == \E e \in new : e.kind = "turn.started"
           ends == \E e \in new : e.kind = "turn.ended"
<1> PICK last : last = s.turns
  OBVIOUS
<1>1. last \in Nat /\ journal' \in SUBSET Event
  BY HeadType DEF State, LogOK
<1>2. /\ AsSeen!IsOpen <=> IsOpen(s)
      /\ IsOpen(s) => s.open.turn = last /\ EndsOf(last) = {} /\ last # 0
  BY OpenIsLast DEF IsOpen
<1>3. \A n \in 1..last :
        /\ TurnSeen(n)'.run = TurnSeen(n).run
        /\ TurnSeen(n).stored \subseteq TurnSeen(n)'.stored
        /\ EndsOf(n)' = EndsOf(n) \cup {e \in new : e.kind = "turn.ended" /\ e.turn = n}
        /\ ~IsOpen(s) \/ n # last => TurnSeen(n)' = TurnSeen(n)
  BY <1>1, <1>2, SeenAcrossCommit
<1>4. ~begins => head'.state.turns = last
  BY DEF Adds, Decides
<1>5. begins => /\ head'.state.turns = last + 1
                /\ TurnSeen(last + 1)'.run \in Run
                /\ TurnSeen(last + 1)'.reason = "open"
                /\ TurnSeen(last + 1)'.stored = {}
                /\ IsOpen(s) => ends
  BY <1>1, BeginSeen DEF Adds, Decides
<1>6. /\ ends => IsOpen(s) /\ TurnSeen(last)'.reason \in Reason
      /\ ~ends /\ IsOpen(s) => TurnSeen(last)'.reason = "open"
  <2>1. ends => IsOpen(s) /\ \E e \in new : e.kind = "turn.ended" /\ e.turn = last
    BY <1>2 DEF Adds, Decides, OfTurn
  <2>2. EndsOf(last)' \in SUBSET Event /\ \A e \in EndsOf(last)' : e.kind = "turn.ended"
    BY <1>1 DEF EndsOf, Ends, Of
  <2>3. IsOpen(s) => last \in 1..last
    BY <1>1, <1>2
  <2>4. ends => EndsOf(last)' # {}
    BY <1>3, <2>1, <2>3
  <2>5. ~ends /\ IsOpen(s) => EndsOf(last)' = {}
    BY <1>2, <1>3, <2>3
  <2>6. TurnSeen(last)'.reason = ReasonOf(EndsOf(last)')
    BY DEF TurnSeen
  <2>7. EndsOf(last)' # {} => ReasonOf(EndsOf(last)') \in Reason
    BY <2>2, EventsTell
  <2> QED BY <2>1, <2>4, <2>5, <2>6, <2>7 DEF ReasonOf
<1> HIDE DEF s, begins, ends
<1>7. CASE begins /\ IsOpen(s)
  BY <1>1, <1>2, <1>3, <1>5, <1>6, <1>7
  DEF s, AsSeen!Next, AsSeen!TakesOver, AsSeen!NewTurn, AsSeen!KeepsOthers, AsSeen!KeepsLast
<1>8. CASE begins /\ ~IsOpen(s)
  BY <1>1, <1>2, <1>3, <1>5, <1>8
  DEF s, AsSeen!Next, AsSeen!Begins, AsSeen!NewTurn, AsSeen!KeepsOthers
<1>9. CASE ~begins /\ ends
  BY <1>1, <1>2, <1>3, <1>4, <1>6, <1>9
  DEF s, AsSeen!Next, AsSeen!Ends, AsSeen!KeepsOthers, AsSeen!KeepsLast
<1>10. CASE ~begins /\ ~ends /\ IsOpen(s)
  BY <1>1, <1>2, <1>3, <1>4, <1>6, <1>10
  DEF s, AsSeen!Next, AsSeen!Stores, AsSeen!KeepsOthers, AsSeen!KeepsLast
<1>11. CASE ~begins /\ ~ends /\ ~IsOpen(s)
  BY <1>1, <1>3, <1>4, <1>11 DEF s, AsSeen!seen
<1> QED BY <1>7, <1>8, <1>9, <1>10, <1>11

-----------------------------------------------------------------------------
(* Every step of Sessions is a step of the ledger, or is not seen.           *)

(* Nothing is seen of a session without turns.                               *)
LEMMA NoTurnsSeen == head.state = InitialState => AsSeen!Init
  BY DEF AsSeen!Init, InitialState

(* The log changes only by such commits, a creation and a removal.           *)
LEMMA StepAsSeen ==
  ASSUME TypeOK, TypeOK', TurnInvariant, TurnsStep
  PROVE  [AsSeen!Next]_(AsSeen!seen)
<1>1. LogOK /\ LogOK' /\ Ledger /\ Ledger'
  BY DEF TypeOK, TurnInvariant, TurnsStep, Ledger
<1>2. CASE UNCHANGED <<head, journal>>
  BY <1>2 DEF AsSeen!seen, TurnSeen, StartsOf, EndsOf, StoredOf, Starts, Ends, Of
<1>3. CASE \E events \in SUBSET Event, next \in State :
             Decides(head.state, events, next) /\ StoreCommit(events, next)
  <2>1. \E new \in SUBSET Event : Adds(new)
    BY <1>1, <1>3, CommitAdds DEF Adds
  <2> QED BY <1>1, <2>1, CommitAsSeen
<1>4. CASE CreateSession(InitialState) \/ RemoveSession(InitialState)
  <2>1. head'.state = InitialState
    <3>1. CASE CreateSession(InitialState)
      BY <3>1 DEF CreateSession
    <3>2. CASE RemoveSession(InitialState)
      BY <1>1, <3>2, HeadType DEF RemoveSession
    <3> QED BY <1>4, <3>1, <3>2
  <2> QED BY <2>1 DEF AsSeen!Next, AsSeen!Removed, InitialState
<1> QED BY <1>2, <1>3, <1>4 DEF TurnsStep, DecidedStep

(* The sessions module implements the ledger: for every number of instances, *)
(* callers, runs and faults, what users see of a session is a ledger of      *)
(* turns that do not overlap, end once, and keep what they stored.           *)
THEOREM SessionsKeepTheLedger == Spec => KeepsTheLedger
<1>1. Init => AsSeen!Init
  BY NoTurnsSeen DEF Init
<1>2. TypeOK /\ TypeOK' /\ TurnInvariant /\ [Next]_vars => [AsSeen!Next]_(AsSeen!seen)
  BY NextTurns, StepAsSeen
<1> QED BY <1>1, <1>2, TypeCorrect, TurnsFollowTheHead, PTL DEF Spec, KeepsTheLedger, AsSeen!Spec
=============================================================================
