------------------------- MODULE SessionsRecordProofs -------------------------
(***************************************************************************)
(* What a commit says of its holder, its lease, its key and the turn it    *)
(* reaps holds when it is stored, however long ago it was decided:         *)
(* RecordInvariant is inductive together with the types and TurnInvariant. *)
(* Then the inbox: what it keeps of an input is what the journal says of   *)
(* it, so InboxInvariant is inductive beside the same two.  At the end,    *)
(* what an instance keeps beside the log: HandoverInvariant is inductive   *)
(* where sessions are not removed and turns are handed over in order.  And *)
(* why a turn ends as it was sealed: SealInvariant is inductive where      *)
(* bodies end with the reply they hold.                                    *)
(***************************************************************************)
EXTENDS SessionsTurnProofs, FiniteSetTheorems

(* A writer's event is stored within its lease; a reap is of a turn nobody   *)
(* holds; a cancel that is answered is of a turn someone held.               *)
StoredInTime ==
  \A e \in NewEvents : WrittenByHolder(e) /\ head.state.open.holder \in Leased
    => now <= head.state.open.expiresAt
ReapsTheUnheld ==
  \A e \in NewEnds : e.code = "turn.lease" =>
    LET open == head.state.open IN
    /\ open.turn = e.turn
    /\ Unheld(open) \/ (stalled' # stalled /\ ~alive[open.holder])
CancelOfHeld ==
  LET open == head.state.open IN
  open.expiresAt = 0 \/ \E c \in Caller : call[c].op = "cancel" /\ call[c].now <= open.expiresAt
CancelsTheHeld ==
  \A e \in NewEnds : e.code = "cancelled" /\ stalled' = stalled => CancelOfHeld

(* What every step does.                                                     *)
RecordsStep == RecordInvariant' /\ StoredInTime /\ ReapsTheUnheld /\ CancelsTheHeld

-----------------------------------------------------------------------------
(* Steps that leave the log alone, and steps that commit.                    *)

(* What a step may do beside the log: time goes on, nobody comes back to     *)
(* life, and who let a turn go still has while the head stands, or died.     *)
Beside ==
  /\ now <= now'
  /\ \A i \in Instance : ~alive[i] => ~alive'[i]
  /\ UNCHANGED head => \A i \in Instance : released[i] \subseteq released'[i] \/ ~alive'[i]

(* What a step may make of calls, writers and stalled commits.               *)
Recorded ==
  /\ \A c \in Caller : call'[c] = call[c] \/ CallHolds(call'[c])
  /\ \A w \in WriterId : writer'[w] = writer[w] \/ WriterHolds(writer'[w])
  /\ \A s \in stalled' : s \in stalled \/ (StalledFollows(head, s) /\ StalledHolds(s))

(* A turn nobody holds is held by nobody while the head stands.              *)
LEMMA UnheldStays ==
  ASSUME TypeOK, TypeOK', Beside, UNCHANGED head, IsOpen(head.state), HasHolder(head.state)
  PROVE  Unheld(head.state.open) \/ ~alive[head.state.open.holder]
           => Unheld(head.state.open)' \/ ~alive'[head.state.open.holder]
<1> DEFINE open == head.state.open
<1>1. open.holder \in Instance /\ open.expiresAt \in Nat /\ now \in Nat /\ now' \in Nat
  BY HeadType DEF HasHolder, TypeOK, LogOK, State, OpenTurn
<1>2. alive \in [Instance -> BOOLEAN] /\ alive' \in [Instance -> BOOLEAN]
  BY DEF TypeOK, InstancesOK
<1>3. ~alive[open.holder] => ~alive'[open.holder]
  BY <1>1 DEF Beside
<1>4. released[open.holder] \subseteq released'[open.holder] \/ ~alive'[open.holder]
  BY <1>1 DEF Beside
<1>5. open.expiresAt # 0 /\ now > open.expiresAt => now' > open.expiresAt
  BY <1>1 DEF Beside
<1> QED BY <1>3, <1>4, <1>5 DEF Unheld

(* What may be stored now may be stored while the head stands.               *)
LEMMA MayStoreStays ==
  ASSUME TypeOK, TypeOK', Beside, UNCHANGED <<head, journal>>, HasHolder(head.state),
         NEW e, NEW notAfter, MayStore(e, notAfter),
         e.kind = "turn.ended" => IsOpen(head.state)
  PROVE  MayStore(e, notAfter)'
<1>1. Starts' = Starts /\ Of("transact.keyed")' = Of("transact.keyed")
  BY DEF Starts, Of
<1>2. e.kind = "turn.ended" /\ e.code = "turn.lease"
        => Unheld(head.state.open)' \/ ~alive'[head.state.open.holder]
  BY UnheldStays DEF MayStore
<1> QED BY <1>1, <1>2 DEF MayStore, WrittenByHolder

(* So whatever calls, writers and stalled commits held on to holds.          *)
LEMMA HoldsKept ==
  ASSUME TypeOK, TypeOK', TurnInvariant, RecordInvariant, LogMoves, Beside, Recorded,
         UNCHANGED head => UNCHANGED journal
  PROVE  /\ \A c \in Caller : CallHolds(call[c])'
         /\ \A w \in WriterId : WriterHolds(writer[w])'
         /\ \A s \in stalled' : StalledHolds(s)'
<1>1. ASSUME NEW c \in Caller PROVE CallHolds(call[c])'
  <2>1. CallHolds(call'[c])
    BY DEF Recorded, RecordInvariant
  <2>2. call'[c].now \in Nat /\ now \in Nat /\ now' \in Nat
    BY DEF TypeOK, CallsOK, Call, LogOK
  <2> QED BY <2>1, <2>2 DEF CallHolds, Beside
<1>2. ASSUME NEW w \in WriterId PROVE WriterHolds(writer[w])'
  BY DEF Recorded, RecordInvariant, WriterHolds
<1>3. ASSUME NEW s \in stalled' PROVE StalledHolds(s)'
  <2>1. StalledFollows(head, s) /\ StalledHolds(s)
    BY DEF Recorded, RecordInvariant, TurnInvariant, PlansFromTheHead
  <2>2. s \in Stalled
    BY DEF TypeOK, FaultsOK
  <2>3. ASSUME IsHead(head', s.inc, s.rev) PROVE \A e \in s.events : MayStore(e, s.notAfter)'
    <3>1. IsHead(head, s.inc, s.rev) /\ UNCHANGED head
      BY <2>1, <2>2, <2>3, PastKept DEF StalledFollows, Stalled, TypeOK
    <3>2. UNCHANGED <<head, journal>> /\ HasHolder(head.state)
      BY <3>1 DEF RecordInvariant
    <3>3. \A e \in s.events : MayStore(e, s.notAfter) /\ (e.kind = "turn.ended" => IsOpen(head.state))
      BY <2>1, <3>1 DEF StalledFollows, StalledHolds, Decides, OfTurn
    <3> QED BY <3>2, <3>3, MayStoreStays
  <2> QED BY <2>1, <2>3 DEF StalledHolds
<1> QED BY <1>1, <1>2, <1>3

(* A step that leaves the log alone records nothing.                         *)
LEMMA QuietRecords ==
  ASSUME TypeOK, TypeOK', TurnInvariant, RecordInvariant, UNCHANGED <<head, journal>>, Beside, Recorded
  PROVE  RecordsStep
<1>1. /\ \A c \in Caller : CallHolds(call[c])'
      /\ \A w \in WriterId : WriterHolds(writer[w])'
      /\ \A s \in stalled' : StalledHolds(s)'
  BY HoldsKept DEF LogMoves
<1>2. HasHolder(head.state)' /\ (\A s \in Starts : KeyFits(s.key, s.run))' /\ KeyNamesOneTurn' /\ TransactsRecordOnce'
  BY DEF RecordInvariant, Starts, Of, KeyNamesOneTurn, TransactsRecordOnce
<1>3. NewEvents = {}
  BY DEF NewEvents
<1> QED BY <1>1, <1>2, <1>3 DEF RecordsStep, RecordInvariant, StoredInTime, ReapsTheUnheld, CancelsTheHeld, NewEnds

(* A stored event keeps what it says.                                        *)
LEMMA StampKeeps ==
  ASSUME NEW e \in Event, NEW n \in Nat
  PROVE  LET f == [e EXCEPT !.rev = n] IN
         /\ f \in Event /\ f.rev = n /\ f.kind = e.kind
         /\ e.kind \in OfTurn => f.turn = e.turn
         /\ e.kind = "turn.ended" => f.code = e.code /\ f.reason = e.reason /\ f.replied = e.replied
         /\ e.kind = "turn.started" => f.key = e.key /\ f.run = e.run
         /\ e.kind = "transact.keyed" => f.tx = e.tx
<1>1. CASE e \in StartEvent
  BY <1>1 DEF StartEvent, Event, OfTurn
<1>2. CASE e \in EndEvent
  BY <1>2 DEF EndEvent, Event, OfTurn
<1>3. CASE e \in TurnEvent
  BY <1>3 DEF TurnEvent, Event, OfTurn
<1>4. CASE e \in OtherEvent
  BY <1>4 DEF OtherEvent, Event, OfTurn
<1> QED BY <1>1, <1>2, <1>3, <1>4 DEF Event

(* What a commit that closes a turn says of it when it is stored.            *)
ClosesRightly(e) ==
  /\ e.kind = "turn.ended" /\ e.code = "turn.lease" => Unheld(head.state.open) \/ stalled' # stalled
  /\ e.kind = "turn.ended" /\ e.code = "cancelled" /\ stalled' = stalled => CancelOfHeld

(* A commit whose events may be stored keeps the invariant.                  *)
LEMMA CommitRecords ==
  ASSUME TypeOK, TypeOK', TurnInvariant, RecordInvariant, NEW events \in SUBSET Event, NEW next \in State, NEW notAfter,
         StoreCommit(events, next), Decides(head.state, events, next), HasHolder(next),
         \A e \in events : MayStore(e, notAfter) /\ ClosesRightly(e),
         notAfter # NoExpiry => now <= notAfter,
         Beside, Recorded
  PROVE  RecordsStep
<1> DEFINE rev == head.rev + 1
           open == head.state.open
           stamp(e) == [e EXCEPT !.rev = rev]
           new == {stamp(e) : e \in events}
<1>1. rev \in Nat /\ head.rev \in Nat
  BY HeadType DEF TypeOK
<1>2. head'.state = next /\ head'.rev = rev /\ journal' = journal \cup new
  BY DEF StoreCommit, TypeOK, LogOK, Head
<1>3. \A e \in events : /\ stamp(e) \in Event /\ stamp(e).rev = rev /\ stamp(e).kind = e.kind
                        /\ e.kind \in OfTurn => stamp(e).turn = e.turn
                        /\ e.kind = "turn.ended" => stamp(e).code = e.code
                        /\ e.kind = "turn.started" => stamp(e).key = e.key /\ stamp(e).run = e.run
                        /\ e.kind = "transact.keyed" => stamp(e).tx = e.tx
  BY <1>1, StampKeeps
<1>4. \A f \in new : \E e \in events : f = stamp(e)
  OBVIOUS
<1> HIDE DEF new, stamp
<1>5. \A f \in new : f \in Event /\ f.rev = rev /\ MayStore(f, notAfter) /\ ClosesRightly(f)
  <2> SUFFICES ASSUME NEW e \in events
               PROVE  /\ stamp(e) \in Event /\ stamp(e).rev = rev
                      /\ MayStore(stamp(e), notAfter) /\ ClosesRightly(stamp(e))
    BY <1>4
  <2>1. MayStore(e, notAfter) /\ ClosesRightly(e)
    OBVIOUS
  <2>2. WrittenByHolder(stamp(e)) => WrittenByHolder(e)
    BY <1>3 DEF WrittenByHolder
  <2> QED BY <1>3, <2>1, <2>2 DEF MayStore, ClosesRightly
<1>6. \A f \in new : f.kind \in OfTurn \ {"turn.started"} => IsOpen(head.state) /\ f.turn = open.turn
  <2>1. \A e \in events : e.kind \in OfTurn \ {"turn.started"} => IsOpen(head.state) /\ e.turn = open.turn
    BY DEF Decides
  <2> QED BY <1>3, <1>4, <2>1
<1>7. \A e, f \in new : e.kind = "turn.started" /\ f.kind = "turn.started" => e = f
  <2>1. \A e, f \in events : e.kind = "turn.started" /\ f.kind = "turn.started" => e = f
    BY DEF Decides
  <2> QED BY <1>3, <1>4, <2>1
<1>8. NewEvents \subseteq new /\ NewEnds \subseteq {f \in new : f.kind = "turn.ended"}
  BY <1>2 DEF NewEvents, NewEnds
<1>9. StoredInTime
  <2> SUFFICES ASSUME NEW f \in new, WrittenByHolder(f), open.holder \in Leased
               PROVE  now <= open.expiresAt
    BY <1>8 DEF StoredInTime
  <2>1. IsOpen(head.state)
    BY <1>6 DEF WrittenByHolder, OfTurn
  <2>2. notAfter = open.expiresAt /\ open.expiresAt # 0
    BY <1>5, <2>1 DEF MayStore, RecordInvariant, HasHolder
  <2> QED BY <2>2 DEF NoExpiry
<1>10. ReapsTheUnheld
  <2> SUFFICES ASSUME NEW f \in new, f.kind = "turn.ended", f.code = "turn.lease"
               PROVE  open.turn = f.turn /\ (Unheld(open) \/ (stalled' # stalled /\ ~alive[open.holder]))
    BY <1>8 DEF ReapsTheUnheld
  <2> QED BY <1>5, <1>6 DEF MayStore, ClosesRightly, OfTurn
<1>11. CancelsTheHeld
  BY <1>5, <1>8 DEF ClosesRightly, CancelsTheHeld
<1>12. (\A s \in Starts : KeyFits(s.key, s.run))'
  BY <1>2, <1>5 DEF RecordInvariant, MayStore, Starts, Of
<1>13. KeyNamesOneTurn'
  <2>1. \A e \in new : e.kind = "turn.started" => \A s \in Starts : s.key # e.key /\ s.run # e.run
    BY <1>5 DEF MayStore
  <2>2. \A e \in Starts' : e \in Starts \/ (e \in new /\ e.kind = "turn.started")
    BY <1>2 DEF Starts, Of
  <2>3. \A s, t \in Starts : s.key = t.key \/ s.run = t.run => s.turn = t.turn
    BY DEF RecordInvariant, KeyNamesOneTurn
  <2>4. ASSUME NEW s \in Starts', NEW t \in Starts', s.key = t.key \/ s.run = t.run
        PROVE  s.turn = t.turn
    BY <1>7, <2>1, <2>2, <2>3, <2>4
  <2> QED BY <2>4 DEF KeyNamesOneTurn
<1>14. TransactsRecordOnce'
  <2>1. \A e \in new : e.kind = "transact.keyed" => \A f \in Of("transact.keyed") : f.tx # e.tx
    BY <1>5 DEF MayStore
  <2>2. \A e \in Of("transact.keyed")' : e \in Of("transact.keyed") \/ (e \in new /\ e.kind = "transact.keyed")
    BY <1>2 DEF Of
  <2>3. \A e, f \in new : e.kind = "transact.keyed" /\ f.kind = "transact.keyed" /\ e.tx = f.tx => e = f
    BY <1>5 DEF Event, StartEvent, EndEvent, TurnEvent, OtherEvent
  <2>4. \A e, f \in Of("transact.keyed") : e.tx = f.tx => e = f
    BY DEF RecordInvariant, TransactsRecordOnce
  <2>5. ASSUME NEW e \in Of("transact.keyed")', NEW f \in Of("transact.keyed")', e.tx = f.tx PROVE e = f
    BY <2>1, <2>2, <2>3, <2>4, <2>5
  <2> QED BY <2>5 DEF TransactsRecordOnce
<1>15. /\ \A c \in Caller : CallHolds(call[c])'
       /\ \A w \in WriterId : WriterHolds(writer[w])'
       /\ \A s \in stalled' : StalledHolds(s)'
  <2>1. head' # head
    BY <1>1, <1>2
  <2> QED BY <2>1, HoldsKept DEF LogMoves
<1> QED BY <1>2, <1>9, <1>10, <1>11, <1>12, <1>13, <1>14, <1>15 DEF RecordsStep, RecordInvariant

-----------------------------------------------------------------------------
(* What reaps and plans decide.                                              *)

(* Whom a reader finds not to hold an open turn does not hold it.            *)
LEMMA NotHeldIsUnheld ==
  ASSUME TypeOK, NEW s \in State, IsOpen(s), HasHolder(s), NEW at \in Nat, at <= now, NEW reader,
         ~IsHeld(s.open, at, reader)
  PROVE  Unheld(s.open)
<1>1. s.open.expiresAt \in Nat /\ now \in Nat
  BY DEF State, OpenTurn, TypeOK, LogOK
<1>2. CASE IsReleased(s.open, reader)
  BY <1>2 DEF IsReleased, Unheld
<1>3. CASE ~IsReleased(s.open, reader) /\ s.open.expiresAt # 0
  BY <1>1, <1>3 DEF IsHeld, Unheld
<1>4. CASE ~IsReleased(s.open, reader) /\ s.open.expiresAt = 0
  BY <1>4 DEF IsHeld, ProcessHolds, Unheld
<1> QED BY <1>2, <1>3, <1>4

(* An end r makes of the open turn of s: not its holder's own, nor a         *)
(* cancel's, and a reap only of a turn nobody holds.                         *)
ReapTells(s, r) ==
  /\ HasHolder(r.state)
  /\ \A e \in r.events : /\ e.kind = "turn.ended" /\ e.code \in {"sealed", "turn.takeover", "turn.lease"}
                         /\ e.code = "turn.lease" => Unheld(s.open)

(* So does every reap.                                                       *)
LEMMA ReapsTell ==
  ASSUME TypeOK, NEW s \in State, HasHolder(s), NEW at \in Nat, at <= now, NEW reader, NEW over
  PROVE  ReapTells(s, Reaped(s, at, reader, over))
<1> DEFINE held == IsHeld(s.open, at, reader)
           taken == TakesOver(over, s.open) /\ held
           code == IF taken THEN "turn.takeover" ELSE "turn.lease"
           r == Reaped(s, at, reader, over)
<1>1. CASE ~IsOpen(s) \/ (held /\ ~taken)
  <2>1. r = [closed |-> 0, reason |-> "none", events |-> {}, state |-> s]
    BY <1>1 DEF Reaped, Unreaped
  <2> QED BY <2>1 DEF ReapTells
<1>2. CASE IsOpen(s) /\ ~(held /\ ~taken)
  <2>1. ~taken => Unheld(s.open)
    BY <1>2, NotHeldIsUnheld
  <2>2. ASSUME NEW q, NEW reason, NEW as \in {"sealed", code}, NEW sealed, NEW tried,
               q = ReapClosing(s, reason, as, sealed, tried)
        PROVE  ReapTells(s, q)
    <3> DEFINE end == Ended(s.open.turn, reason, as, sealed, Dropped(s, reason, tried))
    <3>1. q.events = {end} /\ q.state = ClosedState(s, reason, tried)
      BY <2>2 DEF ReapClosing
    <3>2. HasHolder(q.state)
      BY <3>1 DEF ClosedState, HasHolder, IsOpen, NoTurn, State
    <3>3. as \in {"sealed", "turn.takeover", "turn.lease"} /\ (as = "turn.lease" => Unheld(s.open))
      BY <2>1, <2>2
    <3>4. end.kind = "turn.ended" /\ end.code = as
      BY DEF Ended
    <3> HIDE DEF taken, code, end
    <3> QED BY <3>1, <3>2, <3>3, <3>4 DEF ReapTells
  <2>3. \/ r = ReapClosing(s, s.open.sealed, "sealed", TRUE, ~taken)
        \/ r = ReapClosing(s, "interrupted", code, FALSE, ~taken)
    BY <1>2 DEF Reaped
  <2> HIDE DEF r, taken, code
  <2>4. ReapTells(s, r)
    BY <2>2, <2>3
  <2> QED BY <2>4 DEF r
<1> QED BY <1>1, <1>2

(* A set of turns that is not empty has its largest.                         *)
LEMMA LargestIsThere ==
  ASSUME NEW n \in Nat, NEW S \in SUBSET (1..n), S # {}
  PROVE  Largest(S) # 0
<1> DEFINE above(m) == {k \in S : k > m}
           family == {above(m) : m \in S}
<1>1. IsFiniteSet(S)
  BY FS_Interval, FS_Subset, 1 \in Int, n \in Int
<1>2. family \subseteq SUBSET S /\ family # {}
  OBVIOUS
<1>3. IsWellFoundedOn(StrictSubsetOrdering(S), FiniteSubsetsOf(S))
  BY FS_StrictSubsetOrderingWellFounded
<1>4. family \subseteq FiniteSubsetsOf(S)
  BY <1>1, <1>2, FS_Subset DEF FiniteSubsetsOf
<1>5. PICK least \in family : \A other \in family : ~(<<other, least>> \in StrictSubsetOrdering(S))
  <2> HIDE DEF family
  <2> QED BY <1>2, <1>3, <1>4, WFMin
<1>6. PICK m \in S : least = above(m)
  OBVIOUS
<1>7. \A k \in S : k <= m
  <2> SUFFICES ASSUME NEW k \in S, k > m PROVE FALSE
    OBVIOUS
  <2>1. above(k) \subseteq above(m) /\ k \in above(m) /\ k \notin above(k)
    <3>1. \A j \in S : j \in Int
      OBVIOUS
    <3>2. \A j \in S : j > k => j > m
      BY <3>1
    <3>3. ~(k > k)
      BY <3>1
    <3> QED BY <3>2, <3>3
  <2>2. <<above(k), above(m)>> \in StrictSubsetOrdering(S)
    BY <2>1 DEF StrictSubsetOrdering
  <2> QED BY <1>5, <1>6, <2>2
<1>8. \E k \in S : IsLargest(k, S)
  BY <1>7 DEF IsLargest
<1>9. Largest(S) \in S
  BY <1>8 DEF Largest
<1> QED BY <1>9

(* A turn the journal tells of by a key, or by a run, is found by it.        *)
LEMMA FoundByKeyAndRun ==
  ASSUME TypeOK, TurnInvariant
  PROVE  /\ \A key : KeyTurn(key) = 0 => \A s \in Starts : s.key # key
         /\ \A run : RunTurn(run) = 0 => \A s \in Starts : s.run # run
<1> DEFINE n == head.state.turns
<1>1. n \in Nat /\ \A s \in Starts : s.turn \in 1..n
  BY HeadType DEF TypeOK, TurnInvariant, LedgerOf, Starts, Of, State
<1>2. ASSUME NEW key, NEW s \in Starts, s.key = key PROVE KeyTurn(key) # 0
  <2> DEFINE S == {e.turn : e \in {t \in Starts : t.key = key}}
  <2>1. S \in SUBSET (1..n) /\ S # {}
    BY <1>1, <1>2
  <2> HIDE DEF S, n
  <2>2. Largest(S) # 0
    BY <1>1, <2>1, LargestIsThere
  <2> QED BY <2>2 DEF KeyTurn, S
<1>3. ASSUME NEW run, NEW s \in Starts, s.run = run PROVE RunTurn(run) # 0
  <2> DEFINE S == {e.turn : e \in {t \in Starts : t.run = run}}
  <2>1. S \in SUBSET (1..n) /\ S # {}
    BY <1>1, <1>3
  <2> HIDE DEF S, n
  <2>2. Largest(S) # 0
    BY <1>1, <2>1, LargestIsThere
  <2> QED BY <2>2 DEF RunTurn, S
<1> QED BY <1>2, <1>3

(* What p, a call's plan, says.                                              *)
PlanTells(k, p) ==
  LET open == k.state.open IN
  /\ HasHolder(p.next)
  /\ \A e \in p.events :
       /\ ~WrittenByHolder(e)
       /\ e.kind = "turn.ended" /\ e.code = "turn.lease" => Unheld(open)
       /\ e.kind = "turn.ended" /\ e.code = "cancelled" =>
            k.op = "cancel" /\ (open.expiresAt = 0 \/ k.now <= open.expiresAt)
       /\ e.kind = "turn.started" => /\ KeyFits(e.key, e.run)
                                     /\ \A s \in Starts : s.key # e.key /\ s.run # e.run
       /\ e.kind = "transact.keyed" => \A f \in Of("transact.keyed") : f.tx # e.tx

(* A plan that only answers says nothing; one that does what a reap does     *)
(* says what the reap does.                                                  *)
LEMMA SimplePlansTell ==
  ASSUME NEW k
  PROVE  /\ \A told : PlanTells(k, Only(told))
         /\ \A r, told : ReapTells(k.state, r) => PlanTells(k, Plan(r.events, r.state, told))
<1>1. \A told : Only(told).events = {} /\ HasHolder(Only(told).next)
  BY DEF Only, HasHolder, InitialState, NoTurn, IsOpen
<1>2. \A told : PlanTells(k, Only(told))
  BY <1>1 DEF PlanTells
<1>3. ASSUME NEW r, NEW told, ReapTells(k.state, r) PROVE PlanTells(k, Plan(r.events, r.state, told))
  <2>1. Plan(r.events, r.state, told).events = r.events /\ Plan(r.events, r.state, told).next = r.state
    BY DEF Plan
  <2> QED BY <1>3, <2>1 DEF ReapTells, PlanTells, WrittenByHolder
<1> QED BY <1>2, <1>3

(* The close of a turn says how it closes.                                   *)
LEMMA ClosingTells ==
  ASSUME NEW s \in State, NEW reason, NEW as, NEW sealed, NEW tried
  PROVE  LET q == ReapClosing(s, reason, as, sealed, tried) IN
         HasHolder(q.state) /\ \A e \in q.events : e.kind = "turn.ended" /\ e.code = as
<1> DEFINE q == ReapClosing(s, reason, as, sealed, tried)
           end == Ended(s.open.turn, reason, as, sealed, Dropped(s, reason, tried))
<1>1. q.events = {end} /\ q.state = ClosedState(s, reason, tried)
  BY DEF ReapClosing
<1>2. HasHolder(q.state)
  BY <1>1 DEF ClosedState, HasHolder, IsOpen, NoTurn, State
<1>3. end.kind = "turn.ended" /\ end.code = as
  BY DEF Ended
<1> HIDE DEF end
<1> QED BY <1>1, <1>2, <1>3

(* So do the plans of a cancel, a time limit, a shutdown and a cut begin: a  *)
(* turn is cancelled only where it was found held.                           *)
LEMMA ClosePlansTell ==
  ASSUME TypeOK, NEW k \in Call, AskedWith(k), k.step = "read", CallHolds(k),
         k.op \in CloseOp \cup {"unhanded"}
  PROVE  PlanTells(k, PlanOf(k))
<1> DEFINE r == Reaped(k.state, k.now, k.at, NotOver)
           s == k.state
           sealed == s.open.sealed # "none"
           closing == IF sealed THEN s.open.sealed
                      ELSE IF k.op = "cancel" THEN "cancelled" ELSE "interrupted"
           code == IF sealed THEN "sealed" ELSE CloseCode(k.op)
           close == ReapClosing(s, closing, code, sealed, k.op # "shutdown")
           no == FALSE
           cutAs == CutReason(k)
           cutCode == CutCode(k)
           cut == ReapClosing(s, cutAs, cutCode, no, no)
<1>1. s \in State /\ HasHolder(s) /\ k.now \in Nat /\ k.now <= now /\ k.turn # 0
  BY DEF Call, AskedWith, CallHolds
<1>2. ASSUME k.op \in CloseOp PROVE PlanTells(k, ClosingPlan(k))
  <2>1. CASE r.closed # 0
    <3>1. ClosingPlan(k) = Plan(r.events, r.state, "not open")
      BY <2>1 DEF ClosingPlan
    <3>2. ReapTells(s, r)
      BY <1>1, ReapsTell
    <3> HIDE DEF r
    <3> QED BY <3>1, <3>2, SimplePlansTell
  <2>2. CASE r.closed = 0 /\ s.open.turn # k.turn
    BY <2>2, SimplePlansTell DEF ClosingPlan
  <2>3. CASE r.closed = 0 /\ s.open.turn = k.turn
    <3>1. ClosingPlan(k) = Plan(close.events, close.state, "closed")
      BY <2>3 DEF ClosingPlan
    <3>2. IsHeld(s.open, k.now, k.at)
      BY <1>1, <2>3 DEF Reaped, ReapClosing, IsOpen, TakesOver, NotOver
    <3>3. s.open.expiresAt = 0 \/ k.now <= s.open.expiresAt
      BY <3>2 DEF IsHeld
    <3>4. code \in {"sealed", "cancelled", "turn.shutdown", "turn.time-limit"}
          /\ (code = "cancelled" => k.op = "cancel")
      BY <1>2 DEF CloseCode, CloseOp
    <3> HIDE DEF closing, code, sealed, s
    <3>5. HasHolder(close.state) /\ \A e \in close.events : e.kind = "turn.ended" /\ e.code = code
      BY <1>1, ClosingTells
    <3> HIDE DEF close
    <3>6. LET p == Plan(close.events, close.state, "closed") IN p.events = close.events /\ p.next = close.state
      BY DEF Plan
    <3> QED BY <3>1, <3>3, <3>4, <3>5, <3>6 DEF PlanTells, WrittenByHolder, s
  <2> QED BY <2>1, <2>2, <2>3
<1>3. ASSUME k.op = "unhanded" PROVE PlanTells(k, UnhandedPlan(k))
  <2>1. CASE s.open.turn # k.turn \/ s.open.holder # k.at
    BY <2>1, SimplePlansTell DEF UnhandedPlan
  <2>2. CASE ~(s.open.turn # k.turn \/ s.open.holder # k.at)
    <3>1. UnhandedPlan(k) = Plan(cut.events, cut.state, "cut")
      BY <2>2 DEF UnhandedPlan
    <3>4. cutCode \in {"turn.unended", "turn.interrupted"}
      BY DEF CutCode
    <3> HIDE DEF s, no, cutAs, cutCode
    <3>2. HasHolder(cut.state) /\ \A e \in cut.events : e.kind = "turn.ended" /\ e.code = cutCode
      BY <1>1, ClosingTells
    <3> HIDE DEF cut
    <3>3. LET p == Plan(cut.events, cut.state, "cut") IN p.events = cut.events /\ p.next = cut.state
      BY DEF Plan
    <3> QED BY <3>1, <3>2, <3>3, <3>4 DEF PlanTells, WrittenByHolder
  <2> QED BY <2>1, <2>2
<1>4. k.op \in CloseOp => PlanOf(k) = ClosingPlan(k)
  BY DEF PlanOf, ClosePlan, CloseOp
<1>5. k.op = "unhanded" => PlanOf(k) = UnhandedPlan(k)
  BY DEF PlanOf, CloseOp
<1> QED BY <1>2, <1>3, <1>4, <1>5

(* So do the plans of deliveries, enqueues and keyed transacts.              *)
LEMMA InboxPlansTell ==
  ASSUME TypeOK, NEW k \in Call, AskedWith(k), k.step = "read", CallHolds(k),
         k.op \in Inboxes \cup {"transact"}
  PROVE  PlanTells(k, PlanOf(k))
<1> DEFINE r == Reaped(k.state, k.now, k.at, NotOver)
           known == k.state.inbox[k.item].in \/ WasQueued(k.item)
           queued == Queued(k.item)
           next == QueuedState(r.state, k.item)
           keyed == Keyed(k.item)
<1>1. k.state \in State /\ HasHolder(k.state) /\ k.now \in Nat /\ k.now <= now
  BY DEF Call, CallHolds
<1>2. ReapTells(k.state, r)
  BY <1>1, ReapsTell
<1>3. CASE k.op \in Inboxes
  <2>1. CASE known /\ r.closed # 0
    <3>1. InboxPlan(k) = Plan(r.events, r.state, "already")
      BY <2>1 DEF InboxPlan
    <3> HIDE DEF r
    <3> QED BY <1>2, <1>3, <3>1, SimplePlansTell DEF PlanOf, Inboxes, CloseOp
  <2>2. CASE \/ known /\ r.closed = 0
             \/ ~known /\ Cardinality(PendingOf(r.state)) >= MaxPending
    <3>1. InboxPlan(k) \in {Only("already"), Only("full")}
      BY <2>2 DEF InboxPlan
    <3> QED BY <1>3, <3>1, SimplePlansTell DEF PlanOf, Inboxes, CloseOp
  <2>3. CASE ~known /\ ~(Cardinality(PendingOf(r.state)) >= MaxPending)
    <3>1. InboxPlan(k).events = r.events \cup {queued} /\ InboxPlan(k).next = next
      BY <2>3 DEF InboxPlan, Plan
    <3>2. queued.kind = "inbox.queued"
      BY DEF Queued
    <3>3. HasHolder(next)
      <4>1. r.state \in State
        BY <1>1, ReapShape DEF Reaps
      <4> HIDE DEF r
      <4>2. next.open = r.state.open
        BY <4>1 DEF QueuedState, State
      <4> HIDE DEF next
      <4> QED BY <1>2, <4>2 DEF ReapTells, HasHolder, IsOpen
    <3> HIDE DEF r, next, queued
    <3>4. PlanTells(k, InboxPlan(k))
      BY <1>2, <3>1, <3>2, <3>3 DEF ReapTells, PlanTells, WrittenByHolder
    <3> QED BY <1>3, <3>4 DEF PlanOf, Inboxes, CloseOp
  <2> QED BY <2>1, <2>2, <2>3
<1>4. CASE k.op = "transact"
  <2>1. PlanOf(k) = TransactPlan(k)
    BY <1>4 DEF PlanOf, CloseOp
  <2>2. CASE \E e \in Of("transact.keyed") : e.tx = k.item
    BY <2>1, <2>2, SimplePlansTell DEF TransactPlan
  <2>3. CASE ~\E e \in Of("transact.keyed") : e.tx = k.item
    <3>1. TransactPlan(k).events = {keyed} /\ TransactPlan(k).next = k.state
      BY <2>3 DEF TransactPlan, Plan
    <3>2. keyed.kind = "transact.keyed" /\ keyed.tx = k.item
      BY DEF Keyed
    <3> HIDE DEF keyed
    <3> QED BY <1>1, <2>1, <2>3, <3>1, <3>2 DEF PlanTells, WrittenByHolder
  <2> QED BY <2>2, <2>3
<1> QED BY <1>3, <1>4

(* A begin that is not refused begins a turn no key and no run has named.    *)
LEMMA BeginPlanTells ==
  ASSUME TypeOK, TurnInvariant, RecordInvariant, NEW k \in Call, AskedWith(k), k.step = "read", CallHolds(k),
         k.op = "begin", ~Refuses(k)
  PROVE  PlanTells(k, BeginPlan(k)) /\ BeginPlan(k).next.open.holder = k.at
<1> DEFINE r == BeginReap(k)
           s == r.state
           started == Started(s.turns + 1, k.run, k.key, Origin(k.ask.kind), k.item, k.ask.resumes,
                              Taking(k, s) \cap Notice)
           next == OpenedState(s, k.run, k.at, LeaseEnd(k.at, k.now), Taking(k, s))
<1>1. /\ k.state \in State /\ HasHolder(k.state) /\ k.now \in Nat /\ k.now <= now /\ KeyedAsAsked(k)
      /\ k.at \in Instance /\ k.ask \in Ask /\ k.run \in Run
  BY DEF Call, CallHolds, AskedWith
<1>2. ReapTells(k.state, r)
  BY <1>1, ReapsTell DEF BeginReap
<1>3. BeginPlan(k).events = r.events \cup {started} /\ BeginPlan(k).next = next
  BY DEF BeginPlan, Plan
<1>4. next.open.holder = k.at /\ next.open.expiresAt = LeaseEnd(k.at, k.now)
  BY DEF OpenedState
<1>5. HasHolder(next)
  <2>1. k.at \in Leased => LeaseEnd(k.at, k.now) # 0
    BY <1>1, SessionsConstants DEF LeaseEnd
  <2> HIDE DEF next
  <2> QED BY <1>1, <1>4, <2>1 DEF HasHolder
<1>6. started.kind = "turn.started" /\ started.key = k.key /\ started.run = k.run
  BY DEF Started
<1>7. RunTurn(k.run) = 0 /\ (k.ask.kind # "inbox" => KeyTurn(k.key) = 0)
  <2>1. k.run = k.ask.run
    BY <1>1 DEF KeyedAsAsked
  <2>2. BeginRefusal(k, r).told = "none"
    BY DEF Refuses
  <2> HIDE DEF r
  <2> QED BY <2>1, <2>2 DEF BeginRefusal, Refusal, Accepted
<1>8. ASSUME NEW t \in Starts PROVE t.key # k.key /\ t.run # k.run
  <2>1. t.run # k.run
    BY <1>7, FoundByKeyAndRun
  <2>2. k.ask.kind # "inbox" => t.key # k.key
    BY <1>7, FoundByKeyAndRun
  <2>3. k.ask.kind = "inbox" => t.key # k.key
    <3>1. KeyFits(t.key, t.run)
      BY DEF RecordInvariant
    <3>2. NoRun \notin Run
      BY StateConstants
    <3> QED BY <1>1, <2>1, <3>1, <3>2 DEF KeyedAsAsked, KeyFits
  <2> QED BY <2>1, <2>2, <2>3
<1>9. KeyFits(k.key, k.run)
  BY <1>1 DEF KeyedAsAsked
<1> HIDE DEF r, started, next
<1>10. PlanTells(k, BeginPlan(k))
  BY <1>2, <1>3, <1>5, <1>6, <1>8, <1>9 DEF PlanTells, ReapTells, WrittenByHolder
<1> QED BY <1>3, <1>4, <1>10

(* Whatever a call commits, it says so.                                      *)
LEMMA PlansTell ==
  ASSUME TypeOK, TurnInvariant, RecordInvariant, NEW c \in Caller, Commits(call[c])
  PROVE  PlanTells(call[c], PlanOf(call[c]))
<1> DEFINE k == call[c]
<1>1. k \in Call /\ AskedWith(k) /\ CallHolds(k) /\ k.step = "read" /\ ~Refuses(k)
  BY CallInFlight DEF CallOK, Commits, RecordInvariant
<1> SUFFICES PlanTells(k, PlanOf(k))
  OBVIOUS
<1> HIDE DEF k
<1>2. k.op \in CloseOp \cup Inboxes \cup {"unhanded", "transact", "begin"}
  BY <1>1 DEF Call, AskedWith, Op
<1>3. CASE k.op \in CloseOp \cup {"unhanded"}
  BY <1>1, <1>3, ClosePlansTell
<1>4. CASE k.op \in Inboxes \cup {"transact"}
  BY <1>1, <1>4, InboxPlansTell
<1>5. CASE k.op = "begin"
  <2>1. PlanOf(k) = BeginPlan(k)
    BY <1>5 DEF PlanOf, CloseOp
  <2> QED BY <1>1, <1>5, <2>1, BeginPlanTells
<1> QED BY <1>2, <1>3, <1>4, <1>5

-----------------------------------------------------------------------------
(* Calls.                                                                    *)

(* A step in which nothing is let go of but more, and no time passes.        *)
LEMMA BesideTheLog ==
  ASSUME TypeOK, UNCHANGED <<now, alive>>,
         UNCHANGED head => \A i \in Instance : released[i] \subseteq released'[i]
  PROVE  Beside
<1>1. now \in Nat
  BY DEF TypeOK, LogOK
<1> QED BY <1>1 DEF Beside

(* One call changes, and writers only stop.                                  *)
LEMMA OneCallRecorded ==
  ASSUME TypeOK, NEW c \in Caller, NEW rec, Become(c, rec), CallHolds(rec),
         \A w \in WriterId : writer'[w] = writer[w] \/ writer'[w].phase \notin Live,
         stalled' \subseteq stalled
  PROVE  Recorded
<1>1. \A d \in Caller : call'[d] = call[d] \/ call'[d] = rec
  BY DEF Become, TypeOK, CallsOK
<1> QED BY <1>1 DEF Recorded, WriterHolds

(* A call that becomes another beside the log records nothing.               *)
LEMMA QuietCall ==
  ASSUME TypeOK, TypeOK', TurnInvariant, RecordInvariant, NEW c \in Caller, NEW rec, Become(c, rec), CallHolds(rec),
         \A w \in WriterId : writer'[w] = writer[w] \/ writer'[w].phase \notin Live,
         UNCHANGED <<head, journal, now, alive, stalled>>,
         \A i \in Instance : released[i] \subseteq released'[i]
  PROVE  RecordsStep
BY OneCallRecorded, BesideTheLog, QuietRecords

(* A caller with no call in flight, a refused one, and a close with only its *)
(* own writer to close hold on to nothing.                                   *)
LEMMA IdleHolds ==
  /\ CallHolds(Idle)
  /\ \A k, told, turn, open : CallHolds(RefusedCall(k, told, turn, open))
  /\ \A k : CallHolds(Closing(k))
<1>1. CallHolds(Idle)
  BY DEF CallHolds, Idle
<1>2. \A k : CallHolds(Closing(k))
  BY DEF CallHolds, Closing, Idle
<1> QED BY <1>1, <1>2 DEF CallHolds, RefusedCall, Idle

(* A call that reads the head holds on to it.                                *)
LEMMA ReadingHolds ==
  ASSUME TypeOK, RecordInvariant, NEW k \in Call, k.op = "begin" => KeyedAsAsked(k)
  PROVE  CallHolds(Reading(k))
<1>0. now \in Nat
  BY DEF TypeOK, LogOK
<1>1. CASE ~head.present
  BY <1>1 DEF Reading, CallHolds, Call, KeyedAsAsked
<1>2. CASE head.present /\ k.op = "begin" /\ stopping[k.at] # "running"
  BY <1>2 DEF Reading, CallHolds, Call
<1>3. CASE head.present /\ ~(k.op = "begin" /\ stopping[k.at] # "running")
  <2>1. Reading(k) = [k EXCEPT !.step = "read", !.inc = head.inc, !.rev = head.rev, !.state = head.state, !.now = now]
    BY <1>3 DEF Reading
  <2>2. HasHolder(head.state)
    BY DEF RecordInvariant
  <2> QED BY <1>0, <2>1, <2>2 DEF CallHolds, Call, KeyedAsAsked
<1> QED BY <1>1, <1>2, <1>3

(* A begin is keyed as it was asked.                                         *)
LEMMA PreparedKeyFits ==
  ASSUME TypeOK, RecordInvariant, NEW ask \in Ask
  PROVE  LET key == PreparedKey(ask) IN
         KeyFits(key, ask.run) /\ (ask.kind = "inbox" => key[2] = 0 /\ key[3] = ask.run)
<1> DEFINE key == PreparedKey(ask)
           again == {s \in Starts : s.input = ask.input /\ s.run = ask.run}
           first == CHOOSE s \in again : TRUE
           attempt == AttemptKey(ask.input, LastInputTurn(ask.input), ask.run)
<1>1. ask.kind \in {"user", "inbox", "queued", "task"}
  BY SessionsConstants
<1>2. CASE ask.kind \in {"user", "task"}
  <2>1. key = <<ask.key, 0, NoRun>>
    BY <1>2 DEF PreparedKey
  <2> QED BY <1>2, <2>1 DEF KeyFits
<1>3. CASE ask.kind = "inbox"
  <2>1. key = <<NoItem, 0, ask.run>>
    BY <1>3 DEF PreparedKey
  <2> QED BY <1>3, <2>1 DEF KeyFits
<1>4. CASE ask.kind = "queued" /\ again # {}
  <2>1. key = first.key
    BY <1>4 DEF PreparedKey
  <2>2. first \in again
    BY <1>4
  <2>3. KeyFits(first.key, first.run) /\ first.run = ask.run
    BY <2>2 DEF RecordInvariant
  <2> HIDE DEF first
  <2> QED BY <1>4, <2>1, <2>3
<1>5. CASE ask.kind = "queued" /\ again = {}
  <2>1. key = attempt
    BY <1>5 DEF PreparedKey
  <2>2. KeyFits(attempt, ask.run)
    BY DEF AttemptKey, KeyFits
  <2> QED BY <1>5, <2>1, <2>2
<1> QED BY <1>1, <1>2, <1>3, <1>4, <1>5

(* Asking for a begin, a delivery, an enqueue or a transact records nothing. *)
LEMMA CallInRecords ==
  ASSUME TypeOK, TypeOK', TurnInvariant, RecordInvariant, NEW c \in Caller, NEW i \in Instance
  PROVE  /\ \A ask \in Ask : AskBegin(c, i, ask) => RecordsStep
         /\ \A item \in Delivers : AskDeliver(c, i, item) => RecordsStep
         /\ \A tx \in Tx : AskTransact(c, i, tx) => RecordsStep
<1>1. ASSUME NEW rec, CallHolds(rec), CallIn(c, i, rec) PROVE RecordsStep
  <2>1. Become(c, rec) /\ UNCHANGED <<head, journal, now, alive, stalled, writer, released>>
    BY <1>1 DEF CallIn, local, logVars
  <2> QED BY <1>1, <2>1, QuietCall
<1>2. ASSUME NEW ask \in Ask, AskBegin(c, i, ask) PROVE RecordsStep
  <2> DEFINE base == Asked(i, "begin")
             asked == [base EXCEPT !.ask = ask, !.run = ask.run, !.item = PreparedItem(ask), !.key = PreparedKey(ask)]
  <2>1. base \in Call /\ base.op = "begin" /\ "begin" \in Op
    <3>1. "begin" \in Op
      BY DEF Op
    <3> QED BY <3>1, AskedType
  <2>2. PreparedItem(ask) \in Item \cup Tx \cup {NoItem} /\ PreparedKey(ask) \in Key /\ ask.run \in RunOrNone
    BY PreparedTypes, SessionsConstants DEF Item, RunOrNone, TypeOK
  <2>3. CallIn(c, i, IF ask.kind = "queued" \/ ask.resumes # 0
                     THEN [asked EXCEPT !.step = "prepared"] ELSE Reading(asked))
    BY <1>2 DEF AskBegin
  <2> HIDE DEF base
  <2>4. asked \in Call /\ asked.ask = ask /\ asked.run = ask.run /\ asked.key = PreparedKey(ask)
    BY <2>1, <2>2 DEF Call
  <2> HIDE DEF asked
  <2>5. KeyedAsAsked(asked)
    BY <2>4, PreparedKeyFits DEF KeyedAsAsked
  <2>6. CallHolds([asked EXCEPT !.step = "prepared"])
    BY <2>4, <2>5 DEF CallHolds, KeyedAsAsked, Call
  <2>7. CallHolds(Reading(asked))
    BY <2>4, <2>5, ReadingHolds
  <2> QED BY <1>1, <2>3, <2>6, <2>7
<1>3. ASSUME NEW op \in Op \ {"begin"}, NEW item \in Item \cup Tx,
             CallIn(c, i, Reading([Asked(i, op) EXCEPT !.item = item]))
      PROVE  RecordsStep
  <2> DEFINE asked == [Asked(i, op) EXCEPT !.item = item]
  <2>1. asked \in Call /\ asked.op = op
    BY <1>3, AskedType DEF Call
  <2> HIDE DEF asked
  <2>2. CallHolds(Reading(asked))
    BY <1>3, <2>1, ReadingHolds
  <2> QED BY <1>1, <1>3, <2>2 DEF asked
<1>4. ASSUME NEW item \in Delivers, AskDeliver(c, i, item) PROVE RecordsStep
  <2> DEFINE op == IF item \in Notice THEN "deliver" ELSE "enqueue"
  <2>1. op \in Op \ {"begin"} /\ item \in Item /\ CallIn(c, i, Reading([Asked(i, op) EXCEPT !.item = item]))
    BY <1>4, SessionsConstants DEF Op, Inboxes, AskDeliver
  <2> HIDE DEF op
  <2> QED BY <1>3, <2>1
<1>5. ASSUME NEW tx \in Tx, AskTransact(c, i, tx) PROVE RecordsStep
  BY <1>3, <1>5 DEF Op, AskTransact
<1> QED BY <1>2, <1>4, <1>5

(* So does asking for a cancel, a time limit's close or a shutdown's.        *)
LEMMA CloseRecords ==
  ASSUME TypeOK, TypeOK', TurnInvariant, RecordInvariant, NEW c \in Caller
  PROVE  /\ \A i \in Instance, turn \in CancelTurns : AskCancel(c, i, turn) => RecordsStep
         /\ \A w \in WriterId : AskTimeLimit(c, w) => RecordsStep
         /\ \A i \in Instance : ShutdownCloses(c, i) => RecordsStep
<1>1. ASSUME NEW i \in Instance, NEW op \in CloseOp, NEW turn \in Nat, NEW run \in RunOrNone,
             AskClose(c, i, op, turn, run)
      PROVE  RecordsStep
  <2> DEFINE base == Asked(i, op)
             asked == [base EXCEPT !.turn = turn, !.run = run]
             r == registered[i]
  <2>1. base \in Call /\ base.op = op
    <3>1. op \in Op
      BY DEF Op
    <3> QED BY <3>1, AskedType
  <2>2. UNCHANGED <<head, journal, now, alive, stalled, released>>
    BY <1>1 DEF AskClose, logVars
  <2>3. /\ SealedHere(i, turn) =>
             /\ Become(c, [asked EXCEPT !.step = "await", !.inc = r.inc])
             /\ writer' = [writer EXCEPT ![r] = [@ EXCEPT !.phase = "Ending", !.ending = writer[r].sealed]]
        /\ ~SealedHere(i, turn) => Become(c, Reading(asked)) /\ UNCHANGED writer
    BY <1>1 DEF AskClose
  <2> HIDE DEF base
  <2>4. asked \in Call /\ asked.op # "begin"
    BY <2>1 DEF Call, CloseOp
  <2> HIDE DEF asked
  <2>5. CASE SealedHere(i, turn)
    <3> DEFINE rec == [asked EXCEPT !.step = "await", !.inc = r.inc]
               me == [writer[r] EXCEPT !.phase = "Ending", !.ending = writer[r].sealed]
    <3>1. Become(c, rec) /\ writer' = [writer EXCEPT ![r] = me]
      BY <2>3, <2>5
    <3>2. CallHolds(rec)
      BY <2>4 DEF CallHolds, Call
    <3>3. ASSUME r \in WriterId PROVE WriterHolds(me)
      <4>1. WriterHolds(writer[r]) /\ writer[r].phase \in Live /\ writer[r] \in Writer
        BY <2>5, <3>3 DEF SealedHere, RecordInvariant, TypeOK, WritersOK
      <4> QED BY <4>1 DEF WriterHolds, Writer
    <3>4. Recorded
      <4> HIDE DEF rec, me
      <4>1. \A d \in Caller : call'[d] = call[d] \/ call'[d] = rec
        BY <3>1 DEF Become, TypeOK, CallsOK
      <4>2. \A v \in WriterId : writer'[v] = writer[v] \/ (v = r /\ writer'[v] = me)
        BY <3>1 DEF TypeOK, WritersOK
      <4> QED BY <2>2, <3>2, <3>3, <4>1, <4>2 DEF Recorded
    <3> QED BY <2>2, <3>4, BesideTheLog, QuietRecords
  <2>6. CASE ~SealedHere(i, turn)
    <3>1. CallHolds(Reading(asked))
      BY <2>4, ReadingHolds
    <3> QED BY <2>2, <2>3, <2>6, <3>1, QuietCall
  <2> QED BY <2>5, <2>6
<1>2. ASSUME NEW i \in Instance, NEW turn \in CancelTurns, AskCancel(c, i, turn) PROVE RecordsStep
  BY <1>1, <1>2, SessionsConstants DEF AskCancel, CloseOp, RunOrNone
<1>3. ASSUME NEW w \in WriterId, AskTimeLimit(c, w) PROVE RecordsStep
  <2>1. writer[w].inst \in Instance /\ writer[w].run \in RunOrNone /\ w.turn \in Nat /\ "time-limit" \in CloseOp
    BY <1>3, WriterInUse DEF AskTimeLimit, WriterOK, Writer, CloseOp
  <2> QED BY <1>1, <1>3, <2>1 DEF AskTimeLimit
<1>4. ASSUME NEW i \in Instance, ShutdownCloses(c, i) PROVE RecordsStep
  <2>1. CASE registered[i] = NoWriter
    <3>1. UNCHANGED <<head, journal, now, call, writer, released, alive, stalled>>
      BY <1>4, <2>1 DEF ShutdownCloses, logVars
    <3>2. Recorded
      BY <3>1 DEF Recorded
    <3> QED BY <3>1, <3>2, BesideTheLog, QuietRecords
  <2>2. CASE registered[i] # NoWriter
    <3> DEFINE w == registered[i]
    <3>1. w \in WriterId
      BY <2>2 DEF TypeOK, InstancesOK
    <3>2. writer[w].run \in RunOrNone /\ w.turn \in Nat /\ "shutdown" \in CloseOp
      BY <3>1, WriterInUse DEF WriterOK, Writer, CloseOp
    <3>3. AskClose(c, i, "shutdown", w.turn, writer[w].run)
      BY <1>4, <2>2 DEF ShutdownCloses
    <3> QED BY <1>1, <3>2, <3>3
  <2> QED BY <2>1, <2>2
<1> QED BY <1>2, <1>3, <1>4

(* So do a call's other steps beside the log.                                *)
LEMMA LocalCallRecords ==
  ASSUME TypeOK, TypeOK', TurnInvariant, RecordInvariant, NEW c \in Caller
  PROVE  ReadHead(c) \/ Refused(c) \/ Answered(c) \/ Handed(c) \/ AwaitOver(c) \/ CloseLocal(c) \/ BeginCut(c)
           => RecordsStep
<1> DEFINE k == call[c]
<1>1. k \in Call /\ k.turn \in Nat /\ k.run \in RunOrNone /\ (k.step # "idle" => k.at \in Instance) /\ CallHolds(k)
      /\ (k.step = "await" => k.op \in CloseOp)
  BY CallInFlight DEF CallOK, RecordInvariant, AskedWith
<1>2. ASSUME NEW rec, CallHolds(rec), Become(c, rec), UNCHANGED <<head, journal, now, alive, stalled, writer, released>>
      PROVE  RecordsStep
  BY <1>2, QuietCall
<1>3. ASSUME NEW op \in Op \ {"begin"}, NEW told \in Told, k.at \in Instance
      PROVE  CallHolds(Reading([Asked(k.at, op) EXCEPT !.turn = k.turn, !.run = k.run, !.told = told]))
  <2> DEFINE base == Asked(k.at, op)
             asked == [base EXCEPT !.turn = k.turn, !.run = k.run, !.told = told]
  <2>1. base \in Call /\ base.op = op
    BY <1>3, AskedType
  <2> HIDE DEF base
  <2>2. asked \in Call /\ asked.op = op
    BY <1>1, <2>1 DEF Call
  <2> HIDE DEF asked
  <2>3. CallHolds(Reading(asked))
    BY <1>3, <2>2, ReadingHolds
  <2> QED BY <2>3 DEF asked, base
<1>4. ASSUME ReadHead(c) PROVE RecordsStep
  <2>1. CallHolds(Reading(k))
    BY <1>1, <1>4, ReadingHolds DEF ReadHead, CallHolds
  <2> QED BY <1>2, <1>4, <2>1 DEF ReadHead, local, logVars
<1>5. ASSUME AwaitOver(c) PROVE RecordsStep
  <2>1. CallHolds(Reading(k))
    BY <1>1, <1>5, ReadingHolds DEF AwaitOver, CloseOp
  <2>2. CallHolds(Idle)
    BY IdleHolds
  <2> QED BY <1>2, <1>5, <2>1, <2>2 DEF AwaitOver, Answer, local, logVars
<1>6. ASSUME Refused(c) PROVE RecordsStep
  <2>1. PICK told, turn, open : Become(c, RefusedCall(k, told, turn, open))
    BY <1>6 DEF Refused
  <2>2. CallHolds(RefusedCall(k, told, turn, open))
    BY IdleHolds
  <2> QED BY <1>2, <1>6, <2>1, <2>2 DEF Refused, local, logVars
<1>7. ASSUME Answered(c) PROVE RecordsStep
  <2>1. CallHolds(Idle)
    BY IdleHolds
  <2> QED BY <1>2, <1>7, <2>1 DEF Answered, Answer, local, logVars
<1>8. ASSUME Handed(c) PROVE RecordsStep
  <2>1. "shutdown" \in Op \ {"begin"} /\ k.at \in Instance /\ CallHolds(Idle)
    BY <1>1, <1>8, IdleHolds DEF Op, CloseOp, Handed
  <2> DEFINE base == Asked(k.at, "shutdown")
             asked == [base EXCEPT !.turn = k.turn, !.run = k.run]
  <2>2. asked \in Call /\ asked.op = "shutdown"
    <3>1. base \in Call /\ base.op = "shutdown"
      BY <2>1, AskedType
    <3> HIDE DEF base
    <3> QED BY <1>1, <3>1 DEF Call
  <2>3. CallHolds(Reading(asked))
    <3> HIDE DEF asked
    <3> QED BY <2>2, ReadingHolds
  <2> QED BY <1>2, <1>8, <2>1, <2>3 DEF Handed, Answer, local, logVars
<1>9. ASSUME BeginCut(c) PROVE RecordsStep
  <2>1. "unhanded" \in Op \ {"begin"} /\ k.at \in Instance /\ {"none", "error"} \subseteq Told
    BY <1>1, <1>9 DEF Op, BeginCut, Told
  <2> QED BY <1>2, <1>3, <1>9, <2>1 DEF BeginCut, logVars
<1>10. ASSUME CloseLocal(c) PROVE RecordsStep
  <2>1. \A w \in WriterId : writer'[w] = writer[w] \/ writer'[w].phase \notin Live
    BY <1>10, ClosedLocallyStops DEF CloseLocal
  <2> QED BY <1>10, <2>1, IdleHolds, QuietCall DEF CloseLocal, Answer, logVars
<1> QED BY <1>4, <1>5, <1>6, <1>7, <1>8, <1>9, <1>10

(* What a plan says may be stored while it still stands, and is right then.  *)
LEMMA PlanMayBeStored ==
  ASSUME TypeOK, TurnInvariant, RecordInvariant, NEW c \in Caller, call[c].state = head.state,
         NEW p, PlanTells(call[c], p)
  PROVE  HasHolder(p.next) /\ \A e \in p.events : MayStore(e, NoExpiry) /\ ClosesRightly(e)
<1> SUFFICES ASSUME NEW e \in p.events PROVE MayStore(e, NoExpiry) /\ ClosesRightly(e)
  BY DEF PlanTells
<1> DEFINE open == head.state.open
<1>1. /\ ~WrittenByHolder(e)
      /\ e.kind = "turn.ended" /\ e.code = "turn.lease" => Unheld(open)
      /\ e.kind = "turn.ended" /\ e.code = "cancelled" =>
           call[c].op = "cancel" /\ (open.expiresAt = 0 \/ call[c].now <= open.expiresAt)
      /\ e.kind = "turn.started" => /\ KeyFits(e.key, e.run)
                                    /\ \A s \in Starts : s.key # e.key /\ s.run # e.run
      /\ e.kind = "transact.keyed" => \A f \in Of("transact.keyed") : f.tx # e.tx
  BY DEF PlanTells
<1>2. MayStore(e, NoExpiry)
  BY <1>1 DEF MayStore
<1>3. ClosesRightly(e)
  BY <1>1 DEF ClosesRightly, CancelOfHeld
<1> QED BY <1>2, <1>3

(* Whatever a call commits may be stored.                                    *)
LEMMA CommittingCallRecords ==
  ASSUME TypeOK, TypeOK', TurnInvariant, RecordInvariant, NEW c \in Caller
  PROVE  ReapSealed(c) \/ BeginStored(c) \/ CallStored(c) => RecordsStep
<1> DEFINE k == call[c]
<1>1. ASSUME NEW turn, NEW told, writer' \in {writer, ClosedLocally(k.at, turn, told)}
      PROVE  \A w \in WriterId : writer'[w] = writer[w] \/ writer'[w].phase \notin Live
  BY <1>1, ClosedLocallyStops
<1>2. ASSUME NEW events \in SUBSET Event, NEW next \in State, StoreCommit(events, next), UNCHANGED alive
      PROVE  Beside
  <2>1. head'.rev = head.rev + 1 /\ head.rev \in Nat /\ UNCHANGED now
    BY <1>2, HeadType DEF StoreCommit, TypeOK
  <2>2. head' # head
    BY <2>1
  <2> QED BY <1>2, <2>1, <2>2, BesideTheLog
<1>3. ASSUME ReapSealed(c) PROVE RecordsStep
  <2> DEFINE r == Reaped(head.state, now, k.at, k.ask.over)
  <2>1. Answer(c) /\ UNCHANGED <<stalled, alive>> /\ writer' \in {writer, ClosedLocally(k.at, r.closed, "interrupted")}
    BY <1>3 DEF ReapSealed
  <2>2. Recorded
    BY <1>1, <2>1, IdleHolds, OneCallRecorded DEF Answer
  <2>3. CASE head.present /\ r.closed # 0 /\ StoreCommit(r.events, r.state)
    <3>1. Reaps(head.state, r)
      BY HeadType, ReapShape DEF TypeOK
    <3>2. Closes(head.state, r)
      BY <2>3, <3>1 DEF Reaps
    <3>3. r.events \in SUBSET Event /\ r.state \in State /\ Decides(head.state, r.events, r.state)
      BY <3>2 DEF Closes
    <3>4. ReapTells(head.state, r)
      <4>1. now \in Nat /\ now <= now /\ head.state \in State /\ HasHolder(head.state)
        BY HeadType DEF TypeOK, LogOK, RecordInvariant
      <4> QED BY <4>1, ReapsTell
    <3>5. StoreCommit(r.events, r.state)
      BY <2>3
    <3> HIDE DEF r
    <3>6. HasHolder(r.state) /\ \A e \in r.events : MayStore(e, NoExpiry) /\ ClosesRightly(e)
      BY <3>4 DEF ReapTells, MayStore, ClosesRightly, WrittenByHolder
    <3> QED BY <1>2, <2>1, <2>2, <3>3, <3>5, <3>6, CommitRecords
  <2>4. CASE UNCHANGED <<logVars, writer, released>>
    <3>1. UNCHANGED <<head, journal, now, alive, released>>
      BY <2>1, <2>4 DEF logVars
    <3> QED BY <2>2, <3>1, BesideTheLog, QuietRecords
  <2>5. (head.present /\ r.closed # 0 /\ StoreCommit(r.events, r.state)) \/ UNCHANGED <<logVars, writer, released>>
    BY <1>3 DEF ReapSealed
  <2> QED BY <2>3, <2>4, <2>5
<1>4. ASSUME BeginStored(c) PROVE RecordsStep
  <2> DEFINE plan == BeginPlan(k)
             rec == [k EXCEPT !.step = "opened", !.turn = plan.next.turns, !.rev = head.rev + 1,
                              !.state = plan.next, !.reaped = BeginReap(k).closed, !.ask = NoAsk,
                              !.item = NoItem, !.key = NoKey, !.now = 0, !.tries = 0]
  <2>1. Commits(k) /\ k.op = "begin" /\ k.step = "read" /\ ~Refuses(k) /\ StoreAnswers(k) = "stored"
        /\ StoreCommit(plan.events, plan.next) /\ Become(c, rec) /\ UNCHANGED <<writer, stalled, alive>>
    BY <1>4 DEF BeginStored, Commits
  <2>2. PlanOf(k) = plan
    BY <2>1 DEF PlanOf, CloseOp
  <2>3. /\ plan.events \in SUBSET Event /\ plan.next \in State
        /\ Decides(k.state, plan.events, plan.next) /\ Snapshot(head, k.inc, k.rev, k.state)
    BY <2>1, <2>2, PlannedCommit
  <2>4. k.state = head.state
    BY <2>1, <2>3, StoredFromHead DEF StoreAnswers
  <2>5. k \in Call /\ AskedWith(k) /\ CallHolds(k)
    BY CallInFlight DEF CallOK, RecordInvariant
  <2>6. PlanTells(k, plan) /\ plan.next.open.holder = k.at
    BY <2>1, <2>5, BeginPlanTells
  <2>7. HasHolder(plan.next) /\ \A e \in plan.events : MayStore(e, NoExpiry) /\ ClosesRightly(e)
    BY <2>4, <2>6, PlanMayBeStored
  <2>8. CallHolds(rec)
    <3> HIDE DEF plan
    <3> QED BY <2>5, <2>6, <2>7 DEF CallHolds, Call
  <2> HIDE DEF plan, rec
  <2>9. Recorded
    BY <2>1, <2>8, OneCallRecorded
  <2> QED BY <1>2, <2>1, <2>3, <2>4, <2>7, <2>9, CommitRecords
<1>5. ASSUME CallStored(c) PROVE RecordsStep
  <2> DEFINE plan == PlanOf(k)
  <2>1. Commits(k) /\ StoreAnswers(k) = "stored" /\ StoreCommit(plan.events, plan.next)
        /\ (Become(c, Idle) \/ Become(c, Closing(k))) /\ UNCHANGED <<stalled, alive, writer>>
    BY <1>5 DEF CallStored, Answer
  <2>2. /\ plan.events \in SUBSET Event /\ plan.next \in State
        /\ Decides(k.state, plan.events, plan.next) /\ Snapshot(head, k.inc, k.rev, k.state)
    BY <2>1, PlannedCommit
  <2>3. k.state = head.state
    BY <2>1, <2>2, StoredFromHead DEF StoreAnswers
  <2>4. PlanTells(k, plan)
    BY <2>1, PlansTell
  <2>5. HasHolder(plan.next) /\ \A e \in plan.events : MayStore(e, NoExpiry) /\ ClosesRightly(e)
    BY <2>3, <2>4, PlanMayBeStored
  <2>6. Recorded
    BY <2>1, IdleHolds, OneCallRecorded
  <2> HIDE DEF plan
  <2> QED BY <1>2, <2>1, <2>2, <2>3, <2>5, <2>6, CommitRecords
<1> QED BY <1>3, <1>4, <1>5

(* So does a call that conflicts, finds no session, or fails; a commit the   *)
(* store may still apply says what was planned.                              *)
LEMMA FailingCallRecords ==
  ASSUME TypeOK, TypeOK', TurnInvariant, RecordInvariant, NEW c \in Caller
  PROVE  Conflicted(c) \/ Vanished(c) \/ StoreFailed(c) => RecordsStep
<1> DEFINE k == call[c]
<1>1. ASSUME NEW told, GivesUp(c, told), UNCHANGED <<head, journal, now, alive>>,
             \A s \in stalled' : s \in stalled \/ (StalledFollows(head, s) /\ StalledHolds(s))
      PROVE  RecordsStep
  <2>1. PICK rec : Become(c, rec) /\ rec \in {Idle, Closing(k), RefusedCall(k, told, 0, FALSE)}
    BY <1>1 DEF GivesUp, Answer
  <2>2. CallHolds(rec)
    BY <2>1, IdleHolds
  <2>3. UNCHANGED writer
    BY <1>1 DEF GivesUp
  <2>4. \A d \in Caller : call'[d] = call[d] \/ call'[d] = rec
    BY <2>1 DEF Become, TypeOK, CallsOK
  <2>5. Recorded
    BY <1>1, <2>2, <2>3, <2>4 DEF Recorded, WriterHolds
  <2>6. \A i \in Instance : released[i] \subseteq released'[i]
    <3>1. \A turn, run : \A i \in Instance : released[i] \subseteq LetGo(k.at, turn, run)[i]
      BY DEF LetGo, TypeOK, InstancesOK
    <3> QED BY <1>1, <3>1 DEF GivesUp
  <2> QED BY <1>1, <2>5, <2>6, BesideTheLog, QuietRecords
<1>2. ASSUME Conflicted(c) PROVE RecordsStep
  <2>1. CASE k.tries + 1 < Retries
    <3> DEFINE again == [k EXCEPT !.tries = @ + 1]
    <3>1. Become(c, Reading(again)) /\ UNCHANGED <<head, journal, now, alive, stalled, writer, released>>
      BY <1>2, <2>1 DEF Conflicted, logVars
    <3>2. k \in Call /\ CallHolds(k) /\ k.step = "read"
      BY <1>2, CallInFlight DEF CallOK, RecordInvariant, Conflicted, Commits
    <3>3. again \in Call /\ again.op = k.op /\ (again.op = "begin" => KeyedAsAsked(again))
      BY <3>2 DEF Call, CallHolds, KeyedAsAsked
    <3> HIDE DEF again
    <3>4. CallHolds(Reading(again))
      BY <3>3, ReadingHolds
    <3> QED BY <3>1, <3>4, QuietCall
  <2>2. CASE ~(k.tries + 1 < Retries)
    BY <1>1, <1>2, <2>2 DEF Conflicted, logVars
  <2> QED BY <2>1, <2>2
<1>3. ASSUME Vanished(c) PROVE RecordsStep
  BY <1>1, <1>3 DEF Vanished, logVars
<1>4. ASSUME StoreFailed(c) PROVE RecordsStep
  <2> DEFINE plan == PlanOf(k)
             s == [rev |-> k.rev, inc |-> k.inc, notAfter |-> NoExpiry, events |-> plan.events, next |-> plan.next]
  <2>1. Commits(k) /\ GivesUp(c, "error") /\ UNCHANGED <<head, journal, now, alive>> /\ stalled' = stalled \cup {s}
    BY <1>4 DEF StoreFailed, Stall, logVars
  <2>2. Decides(k.state, plan.events, plan.next) /\ Snapshot(head, k.inc, k.rev, k.state)
    BY <2>1, PlannedCommit
  <2>3. StalledFollows(head, s)
    BY <2>2 DEF StalledFollows, Snapshot
  <2>4. PlanTells(k, plan)
    BY <2>1, PlansTell
  <2>5. StalledHolds(s)
    <3>1. HasHolder(s.next)
      BY <2>4 DEF PlanTells
    <3>2. ASSUME IsHead(head, s.inc, s.rev) PROVE \A e \in s.events : MayStore(e, s.notAfter)
      <4>1. k.state = head.state
        BY <2>2, <3>2 DEF Snapshot
      <4> HIDE DEF plan
      <4> QED BY <2>4, <4>1, PlanMayBeStored
    <3> HIDE DEF s
    <3> QED BY <3>1, <3>2 DEF StalledHolds
  <2> HIDE DEF s
  <2> QED BY <1>1, <2>1, <2>3, <2>5
<1> QED BY <1>2, <1>3, <1>4

(* A writer handed a turn holds it.                                          *)
LEMMA HandoverRecords ==
  ASSUME TypeOK, TypeOK', TurnInvariant, RecordInvariant, NEW c \in Caller, Handover(c)
  PROVE  RecordsStep
<1> DEFINE k == call[c]
           w == [inc |-> k.inc, turn |-> k.turn]
           me == [NoHold EXCEPT !.inst = k.at, !.run = k.run, !.phase = "Open", !.rev = k.rev, !.state = k.state]
           rec == [Unread(k) EXCEPT !.step = "handed", !.reaped = 0]
           others == ClosedLocally(k.at, k.reaped, "interrupted")
<1>1. k.step = "opened" /\ k \in Call /\ CallHolds(k)
  BY CallInFlight DEF Handover, CallOK, RecordInvariant
<1>2. WriterHolds(me)
  BY <1>1 DEF WriterHolds, CallHolds, NoHold
<1>3. CallHolds(rec)
  BY <1>1 DEF CallHolds, Unread, Call
<1>4. UNCHANGED <<head, journal, now, alive, stalled, released>> /\ Become(c, rec) /\ writer' = [others EXCEPT ![w] = me]
  BY DEF Handover, logVars
<1>5. others \in [WriterId -> Writer]
  BY CallInFlight, ClosedLocallyType, <1>1 DEF TypeOK, CallOK, Call, WriterTold, AskedWith
<1>6. Recorded
  <2> HIDE DEF me, rec, w
  <2>1. \A d \in Caller : call'[d] = call[d] \/ call'[d] = rec
    BY <1>4 DEF Become, TypeOK, CallsOK
  <2>2. \A v \in WriterId : others[v] = writer[v] \/ others[v].phase \notin Live
    BY ClosedLocallyStops
  <2> HIDE DEF others
  <2>3. \A v \in WriterId : writer'[v] = others[v] \/ (v = w /\ writer'[v] = me)
    BY <1>4, <1>5
  <2>4. \A v \in WriterId : writer'[v] = writer[v] \/ WriterHolds(writer'[v])
    BY <1>2, <2>2, <2>3 DEF WriterHolds
  <2> QED BY <1>3, <1>4, <2>1, <2>4 DEF Recorded
<1> QED BY <1>4, <1>6, BesideTheLog, QuietRecords

-----------------------------------------------------------------------------
(* Writers.                                                                  *)

(* A renewed lease and a seal leave a turn its holder.                       *)
LEMMA TurnKeepsHolder ==
  ASSUME TypeOK, NEW s \in State, HasHolder(s), NEW i, NEW always
  PROVE  /\ HasHolder(Renewed(i, s, always)) /\ Renewed(i, s, always).open.holder = s.open.holder
         /\ \A seal \in Seal : LET sealing == [Renewed(i, s, always) EXCEPT !.open.sealed = seal] IN
              HasHolder(sealing) /\ sealing.open.holder = s.open.holder
<1> DEFINE r == Renewed(i, s, always)
<1>1. now + Ttl \in Nat \ {0}
  BY SessionsConstants DEF TypeOK, LogOK
<1>2. r \in State /\ r.open.turn = s.open.turn
  BY RenewedShape DEF TypeOK
<1>3. r.open.holder = s.open.holder /\ (r.open.expiresAt = s.open.expiresAt \/ r.open.expiresAt # 0)
  BY <1>1 DEF Renewed, State, OpenTurn
<1> HIDE DEF r
<1>4. HasHolder(r)
  BY <1>2, <1>3 DEF HasHolder, IsOpen
<1>5. ASSUME NEW seal \in Seal
      PROVE  LET sealing == [r EXCEPT !.open.sealed = seal] IN HasHolder(sealing) /\ sealing.open.holder = r.open.holder
  <2> DEFINE sealing == [r EXCEPT !.open.sealed = seal]
  <2>1. sealing.open = [r.open EXCEPT !.sealed = seal] /\ r.open \in OpenTurn
    BY <1>2 DEF State
  <2> HIDE DEF sealing
  <2>2. /\ sealing.open.turn = r.open.turn /\ sealing.open.holder = r.open.holder
        /\ sealing.open.expiresAt = r.open.expiresAt
    BY <2>1 DEF OpenTurn
  <2>3. HasHolder(sealing) /\ sealing.open.holder = r.open.holder
    BY <1>4, <2>2 DEF HasHolder, IsOpen
  <2> QED BY <2>3 DEF sealing
<1> QED BY <1>3, <1>4, <1>5 DEF r

(* What a writer writes and seals leaves its turn to it; its end leaves none.*)
LEMMA WriterKeepsHolder ==
  ASSUME TypeOK, RecordInvariant, NEW w \in WriterId, writer[w].phase \in Live
  PROVE  LET me == writer[w]
             renewed(always) == Renewed(me.inst, me.state, always)
             taken(items) == Renewed(me.inst, WithoutItems(me.state, items), FALSE)
             sealing == [renewed(FALSE) EXCEPT !.open.sealed = me.held]
         IN /\ \A always : HasHolder(renewed(always)) /\ renewed(always).open.holder = me.inst
            /\ \A items : HasHolder(taken(items)) /\ taken(items).open.holder = me.inst
            /\ HasHolder(sealing) /\ sealing.open.holder = me.inst
            /\ HasHolder(EndState(w))
<1> DEFINE me == writer[w]
<1>1. me.state \in State /\ me.held \in Seal /\ HasHolder(me.state) /\ me.state.open.holder = me.inst
  BY WriterInUse DEF WriterOK, Writer, RecordInvariant, WriterHolds
<1>2. \A items : LET u == WithoutItems(me.state, items) IN u \in State /\ HasHolder(u) /\ u.open = me.state.open
  BY <1>1 DEF WithoutItems, State, Slot, NoSlot, HasHolder, IsOpen
<1>3. \A always : HasHolder(Renewed(me.inst, me.state, always)) /\ Renewed(me.inst, me.state, always).open.holder = me.inst
  BY <1>1, TurnKeepsHolder
<1>4. ASSUME NEW items
      PROVE  LET taken == Renewed(me.inst, WithoutItems(me.state, items), FALSE) IN
             HasHolder(taken) /\ taken.open.holder = me.inst
  <2> DEFINE u == WithoutItems(me.state, items)
  <2>1. u \in State /\ HasHolder(u) /\ u.open.holder = me.inst
    BY <1>1, <1>2
  <2> HIDE DEF u
  <2>2. \A always : HasHolder(Renewed(me.inst, u, always)) /\ Renewed(me.inst, u, always).open.holder = me.inst
    BY <2>1, TurnKeepsHolder
  <2> QED BY <2>2 DEF u
<1>5. \A always : LET sealing == [Renewed(me.inst, me.state, always) EXCEPT !.open.sealed = me.held] IN
        HasHolder(sealing) /\ sealing.open.holder = me.inst
  <2> DEFINE s == me.state
             i == me.inst
             held == me.held
  <2>1. s \in State /\ held \in Seal /\ HasHolder(s) /\ s.open.holder = i
    BY <1>1
  <2> HIDE DEF s, i, held
  <2>2. \A always : LET sealing == [Renewed(i, s, always) EXCEPT !.open.sealed = held] IN
          HasHolder(sealing) /\ sealing.open.holder = i
    BY <2>1, TurnKeepsHolder
  <2> QED BY <2>2 DEF s, i, held
<1>6. HasHolder(EndState(w))
  BY <1>1 DEF EndState, ClosedState, HasHolder, IsOpen, NoTurn, State
<1> QED BY <1>3, <1>4, <1>5, <1>6

(* What a writer writes of its own turn may be stored within its lease.      *)
LEMMA OwnMayBeStored ==
  ASSUME TypeOK, RecordInvariant, NEW w \in WriterId, writer[w].phase \in Live, writer[w].state = head.state,
         NEW e, WrittenByHolder(e)
  PROVE  MayStore(e, NotAfter(w)) /\ ClosesRightly(e)
<1>1. head.state.open.holder = writer[w].inst
  BY DEF RecordInvariant, WriterHolds
<1>2. e.kind \in {"wrote", "inbox.taken", "turn.ended"} /\ (e.kind = "turn.ended" => e.code = "own")
  BY DEF WrittenByHolder
<1> QED BY <1>1, <1>2 DEF MayStore, ClosesRightly, NotAfter

(* One writer changes.                                                       *)
LEMMA OneWriterRecorded ==
  ASSUME TypeOK, NEW w \in WriterId, NEW rec, writer' = [writer EXCEPT ![w] = rec], WriterHolds(rec),
         UNCHANGED call, \A s \in stalled' : s \in stalled \/ (StalledFollows(head, s) /\ StalledHolds(s))
  PROVE  Recorded
<1>1. \A v \in WriterId : writer'[v] = writer[v] \/ (v = w /\ writer'[v] = rec)
  BY DEF TypeOK, WritersOK
<1> QED BY <1>1 DEF Recorded

(* Whatever a writer commits may be stored.                                  *)
LEMMA WriterStoredRecords ==
  ASSUME TypeOK, TypeOK', TurnInvariant, RecordInvariant, NEW w \in WriterId,
         NEW events \in SUBSET Event, NEW next \in State, NEW rec \in Writer,
         WriterCommits(w, events, next, rec), writer[w].phase \in Live,
         Decides(writer[w].state, events, next), \A e \in events : WrittenByHolder(e),
         HasHolder(next), rec.phase \in Live => next.open.holder = rec.inst
  PROVE  RecordsStep
<1> DEFINE me == writer[w]
<1>1. Snapshot(head, w.inc, me.rev, me.state)
  BY DEF TurnInvariant, PlansFromTheHead, WritersFollow, WriterFollows
<1>2. me.state = head.state /\ StoreCommit(events, next) /\ UNCHANGED <<now, alive>>
  BY <1>1, StoredFromHead DEF WriterCommits, WriterAnswer, StoreCommit
<1>3. \A e \in events : MayStore(e, NotAfter(w)) /\ ClosesRightly(e)
  BY <1>2, OwnMayBeStored
<1>4. NotAfter(w) # NoExpiry => now <= NotAfter(w)
  <2>1. now \in Nat /\ (NotAfter(w) # NoExpiry => NotAfter(w) \in Nat)
    BY WriterInUse DEF TypeOK, LogOK, NotAfter, State, OpenTurn
  <2> QED BY <2>1 DEF WriterCommits, WriterAnswer, CommitAnswer
<1>5. WriterHolds(At(rec, next))
  BY DEF At, WriterHolds, Writer
<1>6. Recorded
  BY <1>5, OneWriterRecorded DEF WriterCommits
<1>7. Beside
  <2>1. head'.rev = head.rev + 1 /\ head.rev \in Nat
    BY <1>2, HeadType DEF StoreCommit, TypeOK
  <2>2. head' # head
    BY <2>1
  <2> QED BY <1>2, <2>2, BesideTheLog
<1> QED BY <1>2, <1>3, <1>4, <1>6, <1>7, CommitRecords

(* Every commit of a writer keeps the invariant.                             *)
LEMMA WriterCommitsRecord ==
  ASSUME TypeOK, TypeOK', TurnInvariant, RecordInvariant, NEW w \in WriterId
  PROVE  /\ Append(w) \/ KeepAlive(w) \/ SealCommit(w) \/ EndCommit(w) => RecordsStep
         /\ \A items \in SUBSET Steer : Take(w, items) => RecordsStep
<1> DEFINE me == writer[w]
           tried == [me EXCEPT !.tried = TRUE]
           wrote == Wrote(w.turn)
           taken(items) == Taken(w.turn, items)
           ended == Ended(w.turn, me.ending, "own", me.held # "none", Dropped(me.state, me.ending, me.tried))
<1>1. me \in Writer /\ w.turn \in Nat /\ (Writing(w) => me.phase \in Live)
  BY WriterInUse DEF WriterOK, Writing, Live
<1>2. tried \in Writer /\ tried.inst = me.inst
  BY <1>1 DEF Writer
<1>3. WrittenByHolder(wrote) /\ (\A items : WrittenByHolder(taken(items))) /\ WrittenByHolder(ended)
  BY DEF Wrote, Taken, Ended, WrittenByHolder
<1>4. {wrote} \in SUBSET Event /\ \A items \in SUBSET Steer : {taken(items)} \in SUBSET Event
  BY <1>1, EventTypes DEF Event
<1> HIDE DEF wrote, taken, ended, tried
<1>5. ASSUME Append(w) PROVE RecordsStep
  <2> DEFINE next == Renewed(me.inst, me.state, FALSE)
  <2>1. /\ me.phase \in Live /\ WriterCommits(w, {wrote}, next, tried)
        /\ next \in State /\ Decides(me.state, {wrote}, next)
    BY <1>1, <1>5, WriterDecides DEF Append, wrote, tried
  <2>2. HasHolder(next) /\ next.open.holder = me.inst
    BY <2>1, WriterKeepsHolder
  <2> HIDE DEF next
  <2> QED BY <1>2, <1>3, <1>4, <2>1, <2>2, WriterStoredRecords
<1>6. ASSUME KeepAlive(w) PROVE RecordsStep
  <2> DEFINE next == Renewed(me.inst, me.state, TRUE)
  <2>1. /\ me.phase \in Live /\ WriterCommits(w, {}, next, me)
        /\ next \in State /\ Decides(me.state, {}, next)
    BY <1>6, WriterDecides DEF KeepAlive, Live
  <2>2. HasHolder(next) /\ next.open.holder = me.inst
    BY <2>1, WriterKeepsHolder
  <2> HIDE DEF next
  <2> QED BY <1>1, <2>1, <2>2, WriterStoredRecords
<1>7. ASSUME SealCommit(w) PROVE RecordsStep
  <2> DEFINE next == [Renewed(me.inst, me.state, FALSE) EXCEPT !.open.sealed = me.held]
             rec == [me EXCEPT !.sealing = me.held]
  <2>1. /\ me.phase \in Live /\ WriterCommits(w, {}, next, rec)
        /\ next \in State /\ Decides(me.state, {}, next)
    BY <1>1, <1>7, WriterDecides DEF SealCommit
  <2>2. HasHolder(next) /\ next.open.holder = me.inst
    BY <2>1, WriterKeepsHolder
  <2>3. rec \in Writer /\ rec.inst = me.inst
    BY <1>1 DEF Writer
  <2> HIDE DEF next, rec
  <2> QED BY <2>1, <2>2, <2>3, WriterStoredRecords
<1>8. ASSUME EndCommit(w) PROVE RecordsStep
  <2> DEFINE rec == Stop(me, "Ended", "none")
  <2>1. /\ me.phase \in Live /\ WriterCommits(w, {ended}, EndState(w), rec)
        /\ Decides(me.state, {ended}, EndState(w))
    BY <1>8, WriterDecides DEF EndCommit, Live, EndEvents, ended
  <2>2. HasHolder(EndState(w))
    BY <2>1, WriterKeepsHolder
  <2>3. rec \in Writer /\ rec.phase \notin Live
    BY <1>1, NoHoldType DEF Stop, NoHold, Live, Writer, Phase
  <2>4. {ended} \in SUBSET Event /\ EndState(w) \in State
    BY <1>8, EndShape DEF EndCommit, EndEvents, ended
  <2> HIDE DEF rec
  <2> QED BY <1>3, <2>1, <2>2, <2>3, <2>4, WriterStoredRecords
<1>9. ASSUME NEW items \in SUBSET Steer, Take(w, items) PROVE RecordsStep
  <2> DEFINE next == Renewed(me.inst, WithoutItems(me.state, items), FALSE)
  <2>1. /\ me.phase \in Live /\ WriterCommits(w, {taken(items)}, next, tried)
        /\ next \in State /\ Decides(me.state, {taken(items)}, next)
    BY <1>1, <1>9, WriterDecides DEF Take, taken, tried
  <2>2. HasHolder(next) /\ next.open.holder = me.inst
    BY <2>1, WriterKeepsHolder
  <2> HIDE DEF next
  <2> QED BY <1>2, <1>3, <1>4, <2>1, <2>2, WriterStoredRecords
<1> QED BY <1>5, <1>6, <1>7, <1>8, <1>9

(* A writer that changes beside the log stops, goes on from where it was, or *)
(* goes on from the head while the turn is its own.                          *)
LEMMA WriterChangesRecord ==
  ASSUME TypeOK, TypeOK', TurnInvariant, RecordInvariant, NEW w \in WriterId, NEW rec,
         writer' = [writer EXCEPT ![w] = rec], UNCHANGED <<head, journal, now, alive, call>>,
         \A i \in Instance : released[i] \subseteq released'[i],
         \A s \in stalled' : s \in stalled \/ (StalledFollows(head, s) /\ StalledHolds(s)),
         \/ rec.phase \notin Live
         \/ writer[w].phase \in Live /\ rec.state = writer[w].state /\ rec.inst = writer[w].inst
         \/ Ours(w) /\ rec.state = head.state /\ rec.inst = writer[w].inst
  PROVE  RecordsStep
<1>1. WriterHolds(rec)
  BY DEF WriterHolds, RecordInvariant, Ours
<1>2. Recorded
  BY <1>1, OneWriterRecorded
<1> QED BY <1>2, BesideTheLog, QuietRecords

(* So do a writer's steps beside the log.                                    *)
LEMMA WriterLocalRecords ==
  ASSUME TypeOK, TypeOK', TurnInvariant, RecordInvariant, NEW w \in WriterId
  PROVE  /\ SealApply(w) \/ Learns(w) \/ Contends(w) => RecordsStep
         /\ \A reply \in Replies : Hold(w, reply) => RecordsStep
         /\ \A ending \in Endings : End(w, ending) => RecordsStep
         /\ \A unended \in Unended : ScopeCloses(w, unended) => RecordsStep
<1> DEFINE me == writer[w]
           went == [me EXCEPT !.rev = head.rev, !.state = head.state]
           same == UNCHANGED <<head, journal, now, alive, call, released, stalled>>
<1>1. me \in Writer /\ writer \in [WriterId -> Writer]
  BY WriterInUse DEF WriterOK, TypeOK, WritersOK
<1>2. \A told : Stop(me, "Failed", told).phase \notin Live
  BY DEF Stop, NoHold, Live
<1>3. \A told : Stopped(me, told).phase \notin Live
  BY DEF Stopped, Stop, NoHold, Live
<1>4. ASSUME NEW rec, writer' = [writer EXCEPT ![w] = rec], same,
             \/ rec.phase \notin Live
             \/ me.phase \in Live /\ rec.state = me.state /\ rec.inst = me.inst
             \/ Ours(w) /\ rec.state = head.state /\ rec.inst = me.inst
      PROVE  RecordsStep
  BY <1>4, WriterChangesRecord
<1>5. UNCHANGED <<logVars, call, registered, released, stopping, alive, stalled, faults>> => same
  BY DEF logVars
<1> HIDE DEF same
<1>6. ASSUME SealApply(w) PROVE RecordsStep
  <2> DEFINE rec == [me EXCEPT !.sealing = "none", !.sealed = IF me.phase = "Open" THEN me.sealing ELSE @]
  <2>1. writer' = [writer EXCEPT ![w] = rec] /\ same
    BY <1>1, <1>5, <1>6 DEF SealApply, Writer
  <2>2. rec.phase = me.phase /\ rec.state = me.state /\ rec.inst = me.inst
    BY <1>1 DEF Writer
  <2> HIDE DEF rec
  <2> QED BY <1>4, <2>1, <2>2
<1>7. ASSUME Learns(w) PROVE RecordsStep
  <2>1. same
    BY <1>5, <1>7 DEF Learns
  <2>2. CASE \E told : writer' = [writer EXCEPT ![w] = Stopped(me, told)]
    BY <1>3, <1>4, <2>1, <2>2
  <2>3. CASE Ours(w) /\ writer' = [writer EXCEPT ![w] = went]
    <3>1. went.state = head.state /\ went.inst = me.inst
      BY <1>1 DEF Writer
    <3> HIDE DEF went
    <3> QED BY <1>4, <2>1, <2>3, <3>1
  <2>4. \/ \E told : writer' = [writer EXCEPT ![w] = Stopped(me, told)]
        \/ Ours(w) /\ writer' = [writer EXCEPT ![w] = went]
    <3> DEFINE told == IF {e \in Ends : e.turn = w.turn /\ e.reason = "cancelled"} # {} THEN "cancelled" ELSE "interrupted"
    <3>1. \/ writer' = [writer EXCEPT ![w] = Stopped(me, "interrupted")]
          \/ writer' = [writer EXCEPT ![w] = Stopped(me, "removed")]
          \/ Ours(w) /\ writer' = [writer EXCEPT ![w] = went]
          \/ writer' = [writer EXCEPT ![w] = Stopped(me, told)]
      BY <1>1, <1>7 DEF Learns
    <3> HIDE DEF told, went
    <3> QED BY <3>1
  <2> QED BY <2>2, <2>3, <2>4
<1>8. ASSUME Contends(w) PROVE RecordsStep
  <2> DEFINE rec == [me EXCEPT !.phase = "Open", !.attempted = me.ending, !.rev = head.rev, !.state = head.state]
  <2>1. same /\ Ours(w)
    BY <1>5, <1>8 DEF Contends
  <2>2. CASE writer' = [writer EXCEPT ![w] = Stop(me, "Failed", "error")]
    BY <1>2, <1>4, <2>1, <2>2
  <2>3. CASE writer' = [writer EXCEPT ![w] = rec]
    <3>1. rec.state = head.state /\ rec.inst = me.inst
      BY <1>1 DEF Writer
    <3> HIDE DEF rec
    <3> QED BY <1>4, <2>1, <2>3, <3>1
  <2> QED BY <1>8, <2>2, <2>3 DEF Contends
<1>9. ASSUME NEW reply \in Replies, Hold(w, reply) PROVE RecordsStep
  <2> DEFINE rec == [me EXCEPT !.held = reply, !.tried = TRUE]
  <2>1. writer' = [writer EXCEPT ![w] = rec] /\ same /\ me.phase \in Live
    BY <1>1, <1>5, <1>9 DEF Hold, Writer, Writing, Live
  <2>2. rec.state = me.state /\ rec.inst = me.inst
    BY <1>1 DEF Writer
  <2> HIDE DEF rec
  <2> QED BY <1>4, <2>1, <2>2
<1>10. ASSUME NEW ending, NEW scope, BeginEnd(w, ending, scope) PROVE RecordsStep
  <2> DEFINE as == IF me.sealed # "none" THEN me.sealed ELSE ending
             rec == [me EXCEPT !.phase = "Ending", !.scope = scope, !.ending = as]
  <2>1. writer' = [writer EXCEPT ![w] = rec] /\ same /\ me.phase \in Live
    BY <1>5, <1>10 DEF BeginEnd, Live
  <2>2. rec.state = me.state /\ rec.inst = me.inst
    <3> HIDE DEF as
    <3> QED BY <1>1 DEF Writer
  <2> HIDE DEF rec
  <2> QED BY <1>4, <2>1, <2>2
<1>11. ASSUME NEW ending \in Endings, End(w, ending) PROVE RecordsStep
  BY <1>10, <1>11 DEF End
<1>12. ASSUME NEW unended \in Unended, ScopeCloses(w, unended) PROVE RecordsStep
  <2>1. CASE \E ending : BeginEnd(w, ending, TRUE)
    BY <1>10, <2>1
  <2>2. CASE me.phase = "Ending" /\ writer' = [writer EXCEPT ![w].scope = TRUE] /\ same
    <3> DEFINE rec == [me EXCEPT !.scope = TRUE]
    <3>1. writer' = [writer EXCEPT ![w] = rec] /\ rec.state = me.state /\ rec.inst = me.inst /\ me.phase \in Live
      BY <1>1, <2>2 DEF Writer, Live
    <3> HIDE DEF rec
    <3> QED BY <1>4, <2>2, <3>1
  <2> QED BY <1>5, <1>12, <2>1, <2>2 DEF ScopeCloses
<1> QED BY <1>6, <1>7, <1>8, <1>9, <1>11, <1>12

(* So do a write that fails, whose commit the store may still apply, and a   *)
(* scope that closed.                                                        *)
LEMMA WriterFaultsRecord ==
  ASSUME TypeOK, TypeOK', TurnInvariant, RecordInvariant, NEW w \in WriterId
  PROVE  WriteFails(w) \/ ScopeDone(w) => RecordsStep
<1> DEFINE me == writer[w]
<1>1. me \in Writer
  BY WriterInUse DEF WriterOK
<1>2. ASSUME WriteFails(w) PROVE RecordsStep
  <2> DEFINE next == Renewed(me.inst, me.state, FALSE)
             sealing == [next EXCEPT !.open.sealed = me.held]
             wrote == Wrote(w.turn)
             ended == Ended(w.turn, me.ending, "own", me.held # "none", Dropped(me.state, me.ending, me.tried))
             failed == Stop(me, "Failed", "error")
             retried == [me EXCEPT !.phase = "Open", !.attempted = me.ending]
  <2>1. me.phase \in Live /\ UNCHANGED <<head, journal, now, alive, call, released>>
    BY <1>2 DEF WriteFails, logVars
  <2>2. Snapshot(head, w.inc, me.rev, me.state)
    BY <2>1, WriterDecides
  <2>3. ASSUME NEW events, NEW after, NEW rec, Decides(me.state, events, after), HasHolder(after),
               \A e \in events : WrittenByHolder(e),
               Stall(me.rev, w.inc, NotAfter(w), events, after), writer' = [writer EXCEPT ![w] = rec],
               rec.phase \notin Live \/ (rec.state = me.state /\ rec.inst = me.inst)
        PROVE  RecordsStep
    <3> DEFINE s == [rev |-> me.rev, inc |-> w.inc, notAfter |-> NotAfter(w), events |-> events, next |-> after]
    <3>1. StalledFollows(head, s)
      BY <2>2, <2>3 DEF StalledFollows, Snapshot
    <3>2. StalledHolds(s)
      <4>1. IsHead(head, w.inc, me.rev) => me.state = head.state
        BY <2>2 DEF Snapshot
      <4>2. IsHead(head, w.inc, me.rev) => \A e \in events : MayStore(e, NotAfter(w))
        BY <2>1, <2>3, <4>1, OwnMayBeStored
      <4> QED BY <2>3, <4>2 DEF StalledHolds
    <3>3. stalled' = stalled \cup {s}
      BY <2>3 DEF Stall
    <3> HIDE DEF s
    <3> QED BY <2>1, <2>3, <3>1, <3>2, <3>3, WriterChangesRecord
  <2>4. /\ Decides(me.state, {wrote}, next) /\ Decides(me.state, {}, sealing)
        /\ me.phase = "Ending" => Decides(me.state, {ended}, EndState(w))
    BY <2>1, WriterDecides DEF EndEvents
  <2>5. HasHolder(next) /\ HasHolder(sealing) /\ HasHolder(EndState(w))
    BY <2>1, WriterKeepsHolder
  <2>6. WrittenByHolder(wrote) /\ WrittenByHolder(ended)
    BY DEF Wrote, Ended, WrittenByHolder
  <2>7. failed.phase \notin Live /\ retried.state = me.state /\ retried.inst = me.inst
    BY <1>1 DEF Stop, NoHold, Live, Writer
  <2>8. \/ Stall(me.rev, w.inc, NotAfter(w), {wrote}, next) /\ writer' = [writer EXCEPT ![w] = failed]
        \/ Stall(me.rev, w.inc, NotAfter(w), {}, sealing) /\ writer' = [writer EXCEPT ![w] = me]
        \/ /\ me.phase = "Ending" /\ Stall(me.rev, w.inc, NotAfter(w), {ended}, EndState(w))
           /\ writer' = [writer EXCEPT ![w] = retried]
    BY <1>2 DEF WriteFails, EndEvents
  <2> HIDE DEF next, sealing, wrote, ended, failed, retried
  <2> QED BY <2>3, <2>4, <2>5, <2>6, <2>7, <2>8
<1>3. ASSUME ScopeDone(w) PROVE RecordsStep
  <2> DEFINE rec == [NoHold EXCEPT !.phase = "Gone"]
  <2>1. writer' = [writer EXCEPT ![w] = rec] /\ UNCHANGED <<head, journal, now, alive, call, stalled>> /\ rec.phase \notin Live
    BY <1>3 DEF ScopeDone, NoHold, Live, logVars
  <2>2. \A i \in Instance : released[i] \subseteq released'[i]
    <3>1. \A j, turn, run : \A i \in Instance : released[i] \subseteq LetGo(j, turn, run)[i]
      BY DEF LetGo, TypeOK, InstancesOK
    <3> QED BY <1>3, <3>1 DEF ScopeDone
  <2> HIDE DEF rec
  <2> QED BY <2>1, <2>2, WriterChangesRecord
<1> QED BY <1>2, <1>3

-----------------------------------------------------------------------------
(* Shutdown, crashes, the session's own life, the store and the clock.       *)

(* A session that is created or removed holds no turn, and tells of none.    *)
LEMMA EmptyRecords ==
  ASSUME TypeOK, TypeOK', TurnInvariant, RecordInvariant, CreateSession(InitialState) \/ RemoveSession(InitialState),
         journal' = {}, UNCHANGED alive, Recorded
  PROVE  RecordsStep
<1>1. head' # head /\ head'.state = InitialState /\ UNCHANGED now
  <2>1. CASE CreateSession(InitialState)
    BY <2>1 DEF CreateSession
  <2>2. CASE RemoveSession(InitialState)
    <3>1. head'.present = FALSE /\ head'.state = InitialState
      BY <2>2, HeadType DEF RemoveSession, TypeOK
    <3> QED BY <2>2, <3>1 DEF RemoveSession
  <2> QED BY <2>1, <2>2
<1>2. Beside
  BY <1>1, BesideTheLog
<1>3. /\ \A c \in Caller : CallHolds(call[c])'
      /\ \A w \in WriterId : WriterHolds(writer[w])'
      /\ \A s \in stalled' : StalledHolds(s)'
  BY <1>1, <1>2, HoldsKept DEF LogMoves
<1>4. HasHolder(head.state)'
  BY <1>1 DEF HasHolder, InitialState, NoTurn, IsOpen
<1>5. Starts' = {} /\ Of("transact.keyed")' = {}
  BY DEF Starts, Of
<1>6. NewEvents = {}
  BY DEF NewEvents
<1> QED BY <1>3, <1>4, <1>5, <1>6 DEF RecordsStep, RecordInvariant, KeyNamesOneTurn, TransactsRecordOnce,
                                      StoredInTime, ReapsTheUnheld, CancelsTheHeld, NewEnds

(* A commit the store applies late may still be stored, or it is not applied.*)
LEMMA LandRecords ==
  ASSUME TypeOK, TypeOK', TurnInvariant, RecordInvariant, NEW s \in stalled, Land(s)
  PROVE  RecordsStep
<1>1. /\ StoreCommit(s.events, s.next) /\ stalled' = stalled \ {s} /\ UNCHANGED <<call, writer, alive, now>>
      /\ IsHead(head, s.inc, s.rev) /\ (s.notAfter # NoExpiry => ~(now > s.notAfter))
  BY DEF Land, CommitAnswer, IsHead, StoreCommit
<1>2. s.events \in SUBSET Event /\ s.next \in State /\ s.notAfter \in Nat /\ now \in Nat
  BY DEF TypeOK, FaultsOK, Stalled, LogOK
<1>3. Decides(head.state, s.events, s.next)
  BY <1>1 DEF TurnInvariant, PlansFromTheHead, StalledFollows
<1>4. HasHolder(s.next) /\ \A e \in s.events : MayStore(e, s.notAfter)
  BY <1>1 DEF RecordInvariant, StalledHolds
<1>5. stalled' # stalled
  BY <1>1
<1>6. \A e \in s.events : ClosesRightly(e)
  BY <1>5 DEF ClosesRightly
<1>7. Recorded
  BY <1>1 DEF Recorded
<1>8. Beside
  <2>1. head'.rev = head.rev + 1 /\ head.rev \in Nat
    BY <1>1, HeadType DEF StoreCommit, TypeOK
  <2>2. head' # head
    BY <2>1
  <2> QED BY <1>1, <2>2, BesideTheLog
<1>9. s.notAfter # NoExpiry => now <= s.notAfter
  BY <1>1, <1>2
<1> QED BY <1>1, <1>2, <1>3, <1>4, <1>6, <1>7, <1>8, <1>9, CommitRecords

(* So do the rest of the steps.                                              *)
LEMMA EnvironmentRecords ==
  ASSUME TypeOK, TypeOK', TurnInvariant, RecordInvariant
  PROVE  /\ \A i \in Instance : ShutdownRefuses(i) \/ ShutdownInterrupts(i) \/ Crash(i) \/ Remove(i) => RecordsStep
         /\ Create \/ Time => RecordsStep
<1>1. ASSUME NEW i \in Instance, ShutdownRefuses(i) \/ ShutdownInterrupts(i) PROVE RecordsStep
  <2>1. UNCHANGED <<head, journal, now, call, writer, released, alive, stalled>>
    BY <1>1 DEF ShutdownRefuses, ShutdownInterrupts, logVars
  <2>2. Recorded
    BY <2>1 DEF Recorded
  <2> QED BY <2>1, <2>2, BesideTheLog, QuietRecords
<1>2. ASSUME NEW i \in Instance, Crash(i) PROVE RecordsStep
  <2>1. UNCHANGED <<head, journal, now, stalled>> /\ alive' = [alive EXCEPT ![i] = FALSE]
        /\ released' = [released EXCEPT ![i] = {}]
    BY <1>2 DEF Crash, logVars
  <2>2. \A c \in Caller : call'[c] = call[c] \/ CallHolds(call'[c])
    BY <1>2, IdleHolds DEF Crash
  <2>3. \A w \in WriterId : writer'[w] = writer[w] \/ WriterHolds(writer'[w])
    <3>1. \A w \in WriterId : writer'[w] = writer[w] \/ writer'[w] = [NoHold EXCEPT !.phase = "Gone"]
      BY <1>2 DEF Crash
    <3>2. [NoHold EXCEPT !.phase = "Gone"].phase \notin Live
      BY DEF NoHold, Live
    <3> QED BY <3>1, <3>2 DEF WriterHolds
  <2>4. Beside
    <3>1. now \in Nat /\ alive \in [Instance -> BOOLEAN] /\ released \in [Instance -> SUBSET (Nat \X RunOrNone)]
      BY DEF TypeOK, LogOK, InstancesOK
    <3>2. \A j \in Instance : ~alive[j] => ~alive'[j]
      BY <2>1, <3>1
    <3>3. \A j \in Instance : released[j] \subseteq released'[j] \/ ~alive'[j]
      BY <2>1, <3>1
    <3> QED BY <2>1, <3>1, <3>2, <3>3 DEF Beside
  <2> QED BY <2>1, <2>2, <2>3, <2>4, QuietRecords DEF Recorded
<1>3. ASSUME NEW i \in Instance, Remove(i) PROVE RecordsStep
  <2>1. RemoveSession(InitialState) /\ UNCHANGED <<call, stalled, alive>>
        /\ writer' = ClosedLocally(i, registered[i].turn, "removed")
    BY <1>3 DEF Remove
  <2>2. Recorded
    BY <2>1, ClosedLocallyStops DEF Recorded, WriterHolds
  <2>3. journal' = {}
    BY <2>1 DEF RemoveSession
  <2> QED BY <2>1, <2>2, <2>3, EmptyRecords
<1>4. ASSUME Create PROVE RecordsStep
  <2>1. CreateSession(InitialState) /\ UNCHANGED <<call, writer, stalled, alive>>
    BY <1>4 DEF Create, local
  <2>2. Recorded
    BY <2>1 DEF Recorded
  <2>3. journal' = {}
    BY <2>1 DEF CreateSession, TurnInvariant
  <2> QED BY <2>1, <2>2, <2>3, EmptyRecords
<1>5. ASSUME Time PROVE RecordsStep
  <2>1. UNCHANGED <<head, journal, call, writer, stalled, alive, released>> /\ now' = now + 1
    BY <1>5 DEF Time, Tick, local
  <2>2. Recorded
    BY <2>1 DEF Recorded
  <2>3. Beside
    BY <2>1 DEF Beside, TypeOK, LogOK
  <2> QED BY <2>1, <2>2, <2>3, QuietRecords
<1> QED BY <1>1, <1>2, <1>3, <1>4, <1>5

-----------------------------------------------------------------------------
(* The invariant holds, and the five properties follow from it.              *)

(* The invariant holds initially.                                            *)
LEMMA InitRecords == Init => RecordInvariant
<1> SUFFICES ASSUME Init PROVE RecordInvariant
  OBVIOUS
<1>1. HasHolder(head.state)
  BY DEF Init, HasHolder, InitialState, NoTurn, IsOpen
<1>2. Starts = {} /\ Of("transact.keyed") = {}
  BY DEF Init, Starts, Of
<1>3. \A c \in Caller : CallHolds(call[c])
  BY IdleHolds DEF Init
<1>4. \A w \in WriterId : WriterHolds(writer[w])
  BY DEF Init, WriterHolds, NoHold, Live
<1>5. stalled = {}
  BY DEF Init
<1> QED BY <1>1, <1>2, <1>3, <1>4, <1>5 DEF RecordInvariant, KeyNamesOneTurn, TransactsRecordOnce

(* Every step keeps the invariant, and records what it says.                 *)
LEMMA NextRecords == TypeOK /\ TypeOK' /\ TurnInvariant /\ RecordInvariant /\ [Next]_vars => RecordsStep
<1> SUFFICES ASSUME TypeOK, TypeOK', TurnInvariant, RecordInvariant, [Next]_vars PROVE RecordsStep
  OBVIOUS
<1>1. ASSUME NEW c \in Caller, CallStep(c) \/ StoreFailed(c) \/ BeginCut(c) PROVE RecordsStep
  BY <1>1, LocalCallRecords, CommittingCallRecords, FailingCallRecords, HandoverRecords DEF CallStep
<1>2. ASSUME NEW c \in Caller, NEW i \in Instance,
             \/ \E ask \in Ask : AskBegin(c, i, ask)
             \/ \E turn \in CancelTurns : AskCancel(c, i, turn)
             \/ \E item \in Delivers : AskDeliver(c, i, item)
             \/ \E tx \in Tx : AskTransact(c, i, tx)
             \/ ShutdownCloses(c, i)
      PROVE  RecordsStep
  BY <1>2, CallInRecords, CloseRecords
<1>3. ASSUME NEW c \in Caller, NEW w \in WriterId, AskTimeLimit(c, w) PROVE RecordsStep
  BY <1>3, CloseRecords
<1>4. ASSUME NEW w \in WriterId, WriterStep(w) \/ WriteFails(w) PROVE RecordsStep
  BY <1>4, WriterCommitsRecord, WriterLocalRecords, WriterFaultsRecord DEF WriterStep
<1>5. ASSUME \/ \E i \in Instance : ShutdownRefuses(i) \/ ShutdownInterrupts(i) \/ Crash(i) \/ Remove(i)
             \/ \E s \in stalled : Land(s)
             \/ Create \/ Time
      PROVE  RecordsStep
  BY <1>5, EnvironmentRecords, LandRecords
<1>6. CASE UNCHANGED vars
  <2>1. UNCHANGED <<head, journal, now, call, writer, released, alive, stalled>>
    BY <1>6 DEF vars
  <2>2. Recorded
    BY <2>1 DEF Recorded
  <2> QED BY <2>1, <2>2, BesideTheLog, QuietRecords
<1> QED BY <1>1, <1>2, <1>3, <1>4, <1>5, <1>6 DEF Next

(* RecordInvariant holds of every session: what may still be stored says of  *)
(* its holder, its lease, its key and what it reaps only what is so.         *)
THEOREM RecordsHold == Spec => []RecordInvariant
<1>1. TypeOK /\ TypeOK' /\ TurnInvariant /\ RecordInvariant /\ [Next]_vars => RecordInvariant'
  BY NextRecords DEF RecordsStep
<1> QED BY <1>1, InitRecords, TypeCorrect, TurnsFollowTheHead, PTL DEF Spec

(* Nothing a holder writes of its turn is stored past its lease: neither its *)
(* own commit nor one the store applies after it reported a failure.         *)
THEOREM WritesAreInTime == Spec => LateWritesAreNotStored
<1>1. TypeOK /\ TypeOK' /\ TurnInvariant /\ RecordInvariant /\ [Next]_vars => StoredInTime
  BY NextRecords DEF RecordsStep
<1> QED BY <1>1, TypeCorrect, TurnsFollowTheHead, RecordsHold, PTL DEF Spec, LateWritesAreNotStored, StoredInTime

(* A turn is reaped only when nobody holds it, whoever reaps it and when.    *)
THEOREM ReapsAreOfTheUnheld == Spec => HeldTurnsAreNotReaped
<1>1. TypeOK /\ TypeOK' /\ TurnInvariant /\ RecordInvariant /\ [Next]_vars => ReapsTheUnheld
  BY NextRecords DEF RecordsStep
<1> QED BY <1>1, TypeCorrect, TurnsFollowTheHead, RecordsHold, PTL DEF Spec, HeldTurnsAreNotReaped, ReapsTheUnheld

(* A turn is ended as cancelled only while someone held it.                  *)
THEOREM CancelsAreOfTheHeld == Spec => OnlyHeldTurnsAreCancelled
<1>1. TypeOK /\ TypeOK' /\ TurnInvariant /\ RecordInvariant /\ [Next]_vars => CancelsTheHeld
  BY NextRecords DEF RecordsStep
<1> QED BY <1>1, TypeCorrect, TurnsFollowTheHead, RecordsHold, PTL
      DEF Spec, OnlyHeldTurnsAreCancelled, CancelsTheHeld, CancelOfHeld

(* A key names one turn, and so does a run id, however often a begin is      *)
(* asked again.                                                              *)
THEOREM KeysNameOneTurn == Spec => []KeyNamesOneTurn
<1>1. RecordInvariant => KeyNamesOneTurn
  BY DEF RecordInvariant
<1> QED BY <1>1, RecordsHold, PTL

(* A keyed transact is recorded once, however often it is repeated.          *)
THEOREM TransactsAreRecordedOnce == Spec => []TransactsRecordOnce
<1>1. RecordInvariant => TransactsRecordOnce
  BY DEF RecordInvariant
<1> QED BY <1>1, RecordsHold, PTL

-----------------------------------------------------------------------------
(* What a commit does to the inbox of a state s and its journal J.           *)

(* An inbox is that of a state with the same slots and the same open turn.   *)
LEMMA SameInbox ==
  ASSUME NEW s, NEW t, NEW J, InboxOf(s, J), t.inbox = s.inbox, t.open.turn = s.open.turn
  PROVE  InboxOf(t, J)
BY DEF InboxOf, ItemOf, WaitsUntilOver

(* What a turn writes of itself, and a key, say nothing of the inbox.        *)
LEMMA QuietEvents ==
  ASSUME NEW s, NEW J, InboxOf(s, J), NEW new, \A e \in new : e.kind \in {"wrote", "transact.keyed"}
  PROVE  InboxOf(s, J \cup new)
<1> DEFINE K == J \cup new
<1>1. StartsIn(K) = StartsIn(J) /\ EndsIn(K) = EndsIn(J)
  BY DEF StartsIn, EndsIn
<1>2. \A item : (QueuedIn(K, item) <=> QueuedIn(J, item)) /\ (TakenIn(K, item) <=> TakenIn(J, item))
  BY DEF QueuedIn, TakenIn
<1>3. \A turn, reasons : EndedSo(K, turn, reasons) <=> EndedSo(J, turn, reasons)
  BY <1>1 DEF EndedSo
<1>4. \A item : /\ Answers(K, item) = Answers(J, item) /\ Finishes(K, item) = Finishes(J, item)
                /\ (DroppedIn(K, item) <=> DroppedIn(J, item))
                /\ Tries(K, item) = Tries(J, item) /\ Claims(K, item) = Claims(J, item)
  BY <1>1, <1>3 DEF Answers, Finishes, DroppedIn, Tries, Claims
<1> HIDE DEF K
<1>5. \A item : ItemOf(s, J, item) => ItemOf(s, K, item)
  BY <1>2, <1>4 DEF ItemOf, WaitsUntilOver, IsOver, AnsweredOnce, DroppedLate
<1> QED BY <1>1, <1>5 DEF InboxOf, K

(* A set that grows keeps its size at least.                                 *)
LEMMA GrowsInSize ==
  ASSUME NEW S, NEW T, IsFiniteSet(T), S \subseteq T
  PROVE  /\ Cardinality(S) \in Nat /\ Cardinality(T) \in Nat /\ Cardinality(S) <= Cardinality(T)
         /\ \A e : e \in T /\ e \notin S => Cardinality(S) + 1 <= Cardinality(T)
<1>1. IsFiniteSet(S) /\ Cardinality(S) \in Nat /\ Cardinality(T) \in Nat /\ Cardinality(S) <= Cardinality(T)
  BY FS_Subset, FS_CardinalityType
<1>2. ASSUME NEW e, e \in T, e \notin S PROVE Cardinality(S) + 1 <= Cardinality(T)
  <2>1. Cardinality(S \cup {e}) = Cardinality(S) + 1
    BY <1>1, <1>2, FS_AddElement
  <2>2. S \cup {e} \subseteq T
    BY <1>2
  <2>3. Cardinality(S \cup {e}) <= Cardinality(T)
    BY <2>2, FS_Subset
  <2> QED BY <2>1, <2>3
<1> QED BY <1>1, <1>2

(* What a journal may say of the turns of state s, of those LedgerOf says.   *)
TurnsOf(s, J) ==
  /\ \A t \in StartsIn(J) : t.turn \in Nat \ {0} /\ t.turn <= s.turns
  /\ \A t, u \in StartsIn(J) : t.turn = u.turn => t = u
  /\ \A e \in EndsIn(J) : e.turn \in Nat \ {0} /\ e.turn <= s.turns /\ e.turn # s.open.turn
  /\ IsOpen(s) => s.open.turn = s.turns

(* What an event of the journal is.                                          *)
LEMMA JournalTypes ==
  ASSUME NEW J \in SUBSET Event
  PROVE  /\ \A t \in StartsIn(J) : t \in StartEvent /\ t.claimed \subseteq Notice /\ t.input \in Input \cup {NoItem}
                                   /\ t.turn \in Nat /\ t.resumes \in Nat
         /\ \A e \in EndsIn(J) : e \in EndEvent /\ e.dropped \subseteq Notice /\ e.turn \in Nat
BY DEF StartsIn, EndsIn, Event, StartEvent, EndEvent, TurnEvent, OtherEvent

(* The end of a turn beside the rest of the journal.                         *)
LEMMA EndAdded ==
  ASSUME NEW J, NEW e, e.kind = "turn.ended"
  PROVE  LET K == J \cup {e} IN
         /\ StartsIn(K) = StartsIn(J) /\ EndsIn(K) = EndsIn(J) \cup {e}
         /\ \A item : /\ QueuedIn(K, item) <=> QueuedIn(J, item)
                      /\ TakenIn(K, item) <=> TakenIn(J, item)
                      /\ DroppedIn(K, item) <=> DroppedIn(J, item) \/ item \in e.dropped
                      /\ Claims(K, item) = Claims(J, item)
                      /\ Tries(J, item) \subseteq Tries(K, item)
         /\ \A turn, reasons : EndedSo(K, turn, reasons) <=>
              EndedSo(J, turn, reasons) \/ (e.turn = turn /\ e.reason \in reasons)
<1> DEFINE K == J \cup {e}
<1>1. StartsIn(K) = StartsIn(J) /\ EndsIn(K) = EndsIn(J) \cup {e}
  BY DEF StartsIn, EndsIn
<1>2. \A item : /\ QueuedIn(K, item) <=> QueuedIn(J, item)
                /\ TakenIn(K, item) <=> TakenIn(J, item)
  BY DEF QueuedIn, TakenIn
<1> HIDE DEF K
<1>3. \A item : /\ DroppedIn(K, item) <=> DroppedIn(J, item) \/ item \in e.dropped
                /\ Claims(K, item) = Claims(J, item)
                /\ Tries(J, item) \subseteq Tries(K, item)
  BY <1>1 DEF DroppedIn, Claims, Tries
<1>4. \A turn, reasons : EndedSo(K, turn, reasons) <=>
        EndedSo(J, turn, reasons) \/ (e.turn = turn /\ e.reason \in reasons)
  BY <1>1 DEF EndedSo
<1> QED BY <1>1, <1>2, <1>3, <1>4 DEF K

(* When the open turn ends, an item it does not hold stays as it was.        *)
LEMMA EndLeavesOthers ==
  ASSUME NEW J \in SUBSET Event, NEW s \in State, IsOpen(s), TurnsOf(s, J), IsFiniteSet(EndsIn(J)),
         NEW e \in EndEvent, e.turn = s.open.turn,
         NEW item \in Item, ItemOf(s, J, item), item \notin TakenBy(s), item \notin e.dropped,
         NEW c, c.open.turn = 0, c.inbox[item] = s.inbox[item]
  PROVE  ItemOf(c, J \cup {e}, item)
<1> DEFINE K == J \cup {e}
           slot == s.inbox[item]
           n == s.open.turn
<1>0. e.kind = "turn.ended" /\ n # 0 /\ n \in Nat
  BY DEF EndEvent, IsOpen, State, OpenTurn
<1>1. /\ StartsIn(K) = StartsIn(J) /\ EndsIn(K) = EndsIn(J) \cup {e}
      /\ QueuedIn(K, item) <=> QueuedIn(J, item)
      /\ TakenIn(K, item) <=> TakenIn(J, item)
      /\ DroppedIn(K, item) <=> DroppedIn(J, item)
      /\ Claims(K, item) = Claims(J, item)
      /\ Tries(J, item) \subseteq Tries(K, item)
      /\ \A turn, reasons : EndedSo(K, turn, reasons) <=>
           EndedSo(J, turn, reasons) \/ (n = turn /\ e.reason \in reasons)
  BY <1>0, EndAdded
<1> HIDE DEF K
<1>2. slot.in => slot.by = 0
  BY DEF ItemOf, WaitsUntilOver, TakenBy
<1>3. \A t \in Claims(J, item) : t.turn = n => ~slot.in /\ t.resumes # 0
  BY <1>0, <1>2 DEF ItemOf
<1>4. /\ Answers(J, item) \subseteq Answers(K, item) /\ Finishes(J, item) \subseteq Finishes(K, item)
      /\ \A t \in Answers(K, item) : t \in Answers(J, item) \/ (t.turn = n /\ ~slot.in /\ t.resumes # 0)
      /\ \A t \in Finishes(K, item) : t \in Finishes(J, item) \/ (t.turn = n /\ ~slot.in)
      /\ Answers(K, item) \subseteq Claims(J, item) /\ Finishes(K, item) \subseteq Claims(J, item)
  BY <1>1, <1>3 DEF Answers, Finishes, Claims
<1>5. WaitsUntilOver(c, K, item)
  <2>1. slot.in => ~IsOver(K, item)
    BY <1>1, <1>4 DEF ItemOf, WaitsUntilOver, IsOver
  <2>2. IsOver(J, item) => IsOver(K, item)
    BY <1>1, <1>4 DEF IsOver
  <2> QED BY <1>1, <1>2, <2>1, <2>2 DEF ItemOf, WaitsUntilOver
<1>6. IsOver(K, item) => QueuedIn(K, item)
  BY <1>1, <1>4 DEF ItemOf, IsOver
<1>7. \A t \in Claims(K, item) : t.turn # 0
  BY <1>1 DEF TurnsOf, Claims
<1>8. AnsweredOnce(K, item)
  <2>1. \A t, u \in Answers(K, item) : t.turn < u.turn => u.resumes # 0
    <3> SUFFICES ASSUME NEW t \in Answers(K, item), NEW u \in Answers(K, item), t.turn < u.turn PROVE u.resumes # 0
      OBVIOUS
    <3>1. CASE u.turn = n /\ u.resumes # 0
      BY <3>1
    <3>2. CASE u \in Answers(J, item) /\ t \in Answers(J, item)
      BY <3>2 DEF ItemOf, AnsweredOnce
    <3>3. t.turn # n \/ u.turn = n
      <4>1. u.turn <= s.turns /\ n = s.turns /\ u.turn \in Nat /\ s.turns \in Nat
        BY <1>4 DEF TurnsOf, Claims, State
      <4> QED BY <4>1
    <3>4. u.turn = n => t.turn # n
      BY <1>0
    <3> QED BY <1>4, <3>1, <3>2, <3>3, <3>4
  <2>2. TakenIn(K, item) => \A t \in Answers(K, item) : t.resumes # 0
    BY <1>1, <1>4 DEF ItemOf, AnsweredOnce
  <2> QED BY <2>1, <2>2 DEF AnsweredOnce
<1>9. /\ Cardinality(Tries(J, item)) \in Nat /\ Cardinality(Tries(K, item)) \in Nat
      /\ Cardinality(Tries(J, item)) <= Cardinality(Tries(K, item))
  <2>1. IsFiniteSet(EndsIn(K))
    BY <1>1, FS_AddElement
  <2>2. IsFiniteSet(Tries(K, item))
    BY <2>1, FS_Subset DEF Tries
  <2> QED BY <1>1, <2>2, GrowsInSize
<1>10. DroppedLate(K, item) /\ (item \in Notice /\ slot.in => slot.attempts <= Cardinality(Tries(K, item)))
  <2>1. slot.attempts \in Nat /\ Attempts \in Nat
    BY StateConstants DEF State, Slot
  <2> QED BY <1>1, <1>9, <2>1 DEF ItemOf, DroppedLate
<1> QED BY <1>1, <1>2, <1>5, <1>6, <1>7, <1>8, <1>10 DEF ItemOf, K

(* An item the open turn holds is done with it, dropped, or waits again.     *)
LEMMA EndFreesItem ==
  ASSUME NEW J \in SUBSET Event, NEW s \in State, IsOpen(s), TurnsOf(s, J), IsFiniteSet(EndsIn(J)),
         NEW reason \in Reason, NEW tried \in BOOLEAN,
         NEW e \in EndEvent, e.turn = s.open.turn, e.reason = reason, e.dropped = Dropped(s, reason, tried),
         Counted(reason, tried) => e.code \notin Untried,
         NEW item \in Item, ItemOf(s, J, item), item \in TakenBy(s)
  PROVE  ItemOf(ClosedState(s, reason, tried), J \cup {e}, item)
<1> DEFINE K == J \cup {e}
           c == ClosedState(s, reason, tried)
           slot == s.inbox[item]
           left == c.inbox[item]
           n == s.open.turn
           count == Counted(reason, tried)
           done == DoneWith(item, reason)
           exhausted == Exhausted(s, item, reason, tried)
<1>0. e.kind = "turn.ended" /\ n # 0 /\ slot.in /\ slot.by = n /\ slot.attempts \in Nat /\ Attempts \in Nat \ {0}
  BY StateConstants DEF EndEvent, IsOpen, TakenBy, State, Slot
<1>1. /\ StartsIn(K) = StartsIn(J) /\ EndsIn(K) = EndsIn(J) \cup {e}
      /\ QueuedIn(K, item) <=> QueuedIn(J, item)
      /\ TakenIn(K, item) <=> TakenIn(J, item)
      /\ DroppedIn(K, item) <=> DroppedIn(J, item) \/ item \in e.dropped
      /\ Claims(K, item) = Claims(J, item)
      /\ Tries(J, item) \subseteq Tries(K, item)
      /\ \A turn, reasons : EndedSo(K, turn, reasons) <=>
           EndedSo(J, turn, reasons) \/ (n = turn /\ reason \in reasons)
  BY <1>0, EndAdded
<1> HIDE DEF K
<1>2. QueuedIn(J, item) /\ Answers(J, item) = {} /\ Finishes(J, item) = {} /\ ~TakenIn(J, item) /\ ~DroppedIn(J, item)
  BY <1>0 DEF ItemOf, WaitsUntilOver, IsOver
<1>3. PICK mine \in Claims(J, item) : mine.turn = n
  BY <1>0 DEF ItemOf
<1>4. mine \in StartsIn(J) /\ (mine.input = item \/ item \in mine.claimed)
      /\ mine.claimed \subseteq Notice /\ mine.input \in Input \cup {NoItem}
  BY JournalTypes DEF Claims
<1>5. Notice \cap Input = {} /\ NoItem \notin Item /\ item \in Notice \cup Input
  BY StateConstants DEF Item
<1>6. c.open.turn = 0 /\ left = IF done \/ exhausted THEN NoSlot
                                ELSE [in |-> TRUE, by |-> 0, attempts |-> slot.attempts + (IF count THEN 1 ELSE 0)]
  BY DEF ClosedState, NoTurn, State
<1>7. /\ \A t \in Answers(K, item) : t.turn = n /\ t.input = item /\ reason \in {"completed", "waiting", "cancelled"}
      /\ \A t \in Finishes(K, item) : t.turn = n /\ item \in Notice /\ reason \in {"completed", "partial", "waiting", "cancelled"}
      /\ Answers(K, item) \subseteq Claims(J, item)
  <2>1. \A t \in StartsIn(J) : t.claimed \subseteq Notice
    BY JournalTypes
  <2> QED BY <1>1, <1>2, <2>1 DEF Answers, Finishes, Claims
<1>8. done => Answers(K, item) # {} \/ Finishes(K, item) # {}
  <2>1. CASE mine.input = item
    <3>1. done => reason \in {"completed", "waiting", "cancelled"}
      BY <1>4, <1>5, <2>1 DEF DoneWith
    <3>2. done => mine \in Answers(K, item)
      BY <1>1, <1>3, <1>4, <2>1, <3>1 DEF Answers
    <3> QED BY <3>2
  <2>2. CASE item \in mine.claimed
    <3>1. done => reason \in {"completed", "partial", "waiting", "cancelled"}
      BY DEF DoneWith
    <3>2. done => mine \in Finishes(K, item)
      BY <1>1, <1>3, <1>4, <2>2, <3>1 DEF Finishes
    <3> QED BY <3>2
  <2> QED BY <1>4, <2>1, <2>2
<1>9. ~done => Answers(K, item) = {} /\ Finishes(K, item) = {}
  BY <1>5, <1>7 DEF DoneWith
<1>10. DroppedIn(K, item) <=> ~done /\ exhausted
  BY <1>1, <1>2 DEF Dropped
<1>11. IsOver(K, item) <=> done \/ exhausted
  BY <1>1, <1>2, <1>8, <1>9, <1>10 DEF IsOver
<1>12. WaitsUntilOver(c, K, item)
  <2> HIDE DEF done, exhausted, count
  <2>1. left.in <=> ~(done \/ exhausted)
    BY <1>6 DEF NoSlot
  <2>2. left.in => left.by = 0
    BY <1>6 DEF NoSlot
  <2> HIDE DEF c
  <2> QED BY <1>1, <1>2, <1>6, <1>11, <2>1, <2>2 DEF WaitsUntilOver
<1>13. AnsweredOnce(K, item)
  <2>1. ~TakenIn(K, item)
    BY <1>1, <1>2
  <2>2. \A t, u \in Answers(K, item) : ~(t.turn < u.turn)
    BY <1>7 DEF State, OpenTurn
  <2> QED BY <2>1, <2>2 DEF AnsweredOnce
<1>15. /\ Cardinality(Tries(J, item)) \in Nat /\ Cardinality(Tries(K, item)) \in Nat
       /\ Cardinality(Tries(J, item)) <= Cardinality(Tries(K, item))
       /\ item \in Notice /\ count => Cardinality(Tries(J, item)) + 1 <= Cardinality(Tries(K, item))
  <2>1. IsFiniteSet(EndsIn(K))
    BY <1>1, FS_AddElement
  <2>2. IsFiniteSet(Tries(K, item))
    BY <2>1, FS_Subset DEF Tries
  <2>3. e \notin Tries(J, item)
    BY DEF TurnsOf, Tries
  <2>4. item \in Notice /\ count => e \in Tries(K, item)
    <3>1. item \in Notice => item \in mine.claimed
      BY <1>4, <1>5
    <3> QED BY <1>1, <1>3, <1>4, <3>1 DEF Tries
  <2> HIDE DEF count
  <2> QED BY <1>1, <2>2, <2>3, <2>4, GrowsInSize
<1>16. item \in Notice => slot.attempts <= Cardinality(Tries(J, item))
  BY <1>0 DEF ItemOf
<1>14. DroppedLate(K, item)
  <2>1. exhausted => item \in Notice /\ count /\ slot.attempts + 1 >= Attempts
    BY DEF Exhausted
  <2> HIDE DEF exhausted, count, done
  <2> QED BY <1>0, <1>10, <1>15, <1>16, <2>1 DEF DroppedLate
<1>18. item \in Notice /\ left.in => left.attempts <= Cardinality(Tries(K, item))
  <2> HIDE DEF exhausted, count, done
  <2>1. left.in => left.attempts = slot.attempts + (IF count THEN 1 ELSE 0)
    BY <1>6 DEF NoSlot
  <2> HIDE DEF c
  <2> QED BY <1>0, <1>15, <1>16, <2>1
<1>19. \A t \in Claims(K, item) : t.turn # 0
  BY <1>1 DEF TurnsOf, Claims
<1>20. left.in => left.by = 0
  <2> HIDE DEF exhausted, count, done
  <2> QED BY <1>6 DEF NoSlot
<1>21. c.open.turn = 0 /\ QueuedIn(K, item)
  BY <1>1, <1>2, <1>6
<1> HIDE DEF done, exhausted, count, n
<1> QED BY <1>12, <1>13, <1>14, <1>18, <1>19, <1>20, <1>21 DEF ItemOf, K

(* The close of the open turn keeps the inbox and the journal together.      *)
LEMMA CloseKeepsInbox ==
  ASSUME NEW J \in SUBSET Event, NEW s \in State, IsOpen(s), TurnsOf(s, J), InboxOf(s, J),
         NEW reason \in Reason, NEW tried \in BOOLEAN,
         NEW e \in EndEvent, e.turn = s.open.turn, e.reason = reason, e.dropped = Dropped(s, reason, tried),
         Counted(reason, tried) => e.code \notin Untried
  PROVE  InboxOf(ClosedState(s, reason, tried), J \cup {e})
<1> DEFINE K == J \cup {e}
           c == ClosedState(s, reason, tried)
<1>1. c.open.turn = 0 /\ \A item \in Item : item \notin TakenBy(s) => c.inbox[item] = s.inbox[item]
  BY DEF ClosedState, NoTurn, State
<1>2. IsFiniteSet(EndsIn(K))
  <2>1. e.kind = "turn.ended"
    BY DEF EndEvent
  <2>2. EndsIn(K) = EndsIn(J) \cup {e}
    BY <2>1, EndAdded
  <2>3. IsFiniteSet(EndsIn(J))
    BY DEF InboxOf
  <2> HIDE DEF K
  <2> QED BY <2>2, <2>3, FS_AddElement
<1>3. ASSUME NEW item \in Item PROVE ItemOf(c, K, item)
  <2>1. CASE item \in TakenBy(s)
    BY <2>1, EndFreesItem DEF InboxOf
  <2>2. CASE item \notin TakenBy(s)
    <3>1. item \notin e.dropped
      BY <2>2 DEF Dropped
    <3> HIDE DEF c
    <3> QED BY <1>1, <2>2, <3>1, EndLeavesOthers DEF InboxOf
  <2> QED BY <2>1, <2>2
<1> QED BY <1>2, <1>3 DEF InboxOf

(* A turn that begins, when none is open, takes what it claims.              *)
LEMMA OpenKeepsInbox ==
  ASSUME NEW J \in SUBSET Event, NEW s \in State, ~IsOpen(s), TurnsOf(s, J), InboxOf(s, J),
         NEW run, NEW holder, NEW expiresAt, NEW taking, taking \subseteq PendingOf(s),
         NEW f \in StartEvent, f.turn = s.turns + 1, f.claimed = taking \cap Notice,
         \A item \in taking : item \in Notice \/ f.input = item,
         f.input # NoItem => QueuedIn(J, f.input) /\ (f.input \in PendingOf(s) \/ f.resumes = 0 => f.input \in taking)
  PROVE  InboxOf(OpenedState(s, run, holder, expiresAt, taking), J \cup {f})
<1> DEFINE K == J \cup {f}
           c == OpenedState(s, run, holder, expiresAt, taking)
           n == s.turns + 1
<1>0. f.kind = "turn.started" /\ n \in Nat \ {0} /\ s.open.turn = 0
  BY DEF StartEvent, IsOpen, State
<1>1. StartsIn(K) = StartsIn(J) \cup {f} /\ EndsIn(K) = EndsIn(J)
  BY <1>0 DEF StartsIn, EndsIn
<1>2. \A item : /\ QueuedIn(K, item) <=> QueuedIn(J, item)
                /\ TakenIn(K, item) <=> TakenIn(J, item)
  BY <1>0 DEF QueuedIn, TakenIn
<1> HIDE DEF K
<1>3. \A e \in EndsIn(J) : e.turn # n
  BY DEF TurnsOf, State
<1>4. \A reasons : ~EndedSo(J, n, reasons)
  BY <1>3 DEF EndedSo
<1>5. \A item : /\ Answers(K, item) = Answers(J, item) /\ Finishes(K, item) = Finishes(J, item)
                /\ (DroppedIn(K, item) <=> DroppedIn(J, item))
                /\ Tries(K, item) = Tries(J, item)
                /\ \A t \in Claims(K, item) : t \in Claims(J, item) \/ t = f
                /\ f.input = item \/ item \in f.claimed => f \in Claims(K, item)
                /\ f \in Claims(K, item) => f.input = item \/ item \in f.claimed \/ f \in StartsIn(J)
  <2>1. \A turn, reasons : EndedSo(K, turn, reasons) <=> EndedSo(J, turn, reasons)
    BY <1>1 DEF EndedSo
  <2>2. \A item : Answers(K, item) = Answers(J, item) /\ Finishes(K, item) = Finishes(J, item)
    BY <1>1, <1>4, <2>1 DEF Answers, Finishes
  <2>3. \A item : (DroppedIn(K, item) <=> DroppedIn(J, item)) /\ Tries(K, item) = Tries(J, item)
    BY <1>1, <1>3 DEF DroppedIn, Tries
  <2>4. \A item : /\ \A t \in Claims(K, item) : t \in Claims(J, item) \/ t = f
                  /\ f.input = item \/ item \in f.claimed => f \in Claims(K, item)
                  /\ f \in Claims(K, item) => f.input = item \/ item \in f.claimed
    BY <1>1 DEF Claims
  <2> QED BY <2>2, <2>3, <2>4
<1>6. \A item : \A t \in Claims(J, item) : t.turn # n
  BY DEF TurnsOf, Claims, State
<1>7. f \notin StartsIn(J)
  BY DEF TurnsOf, State
<1>8. ASSUME NEW item \in Item PROVE ItemOf(c, K, item)
  <2> DEFINE slot == s.inbox[item]
             left == c.inbox[item]
  <2>1. slot.in => slot.by = 0
    BY <1>0 DEF InboxOf, ItemOf, WaitsUntilOver
  <2>2. c.open.turn = n /\ left = IF item \in taking THEN [slot EXCEPT !.by = n] ELSE slot
    BY DEF OpenedState
  <2>3. slot \in Slot /\ (item \in taking => slot.in) /\ (slot.in => item \in PendingOf(s))
    BY <2>1 DEF State, PendingOf
  <2>4. /\ left.in = slot.in /\ left.attempts = slot.attempts
        /\ item \in taking => left.in /\ left.by = n
        /\ left.in /\ left.by # 0 => item \in taking
    BY <2>1, <2>2, <2>3 DEF Slot
  <2>5. ItemOf(s, J, item)
    BY DEF InboxOf
  <2>6. item \in taking => f \in Claims(K, item)
    BY <1>5
  <2>7. f \in Claims(K, item) =>
          QueuedIn(J, item) /\ (slot.in \/ f.resumes = 0 => item \in taking)
    <3>1. NoItem \notin Item
      BY StateConstants DEF Item
    <3>2. item \in taking => QueuedIn(J, item)
      BY <2>3, <2>5 DEF ItemOf, WaitsUntilOver
    <3>3. f \in Claims(K, item) => f.input = item \/ item \in taking
      BY <1>5, <1>7
    <3>4. f.input = item => QueuedIn(J, item) /\ (slot.in \/ f.resumes = 0 => item \in taking)
      BY <2>3, <3>1
    <3> QED BY <3>2, <3>3, <3>4
  <2> HIDE DEF c, slot, left
  <2>8. WaitsUntilOver(c, K, item) /\ (IsOver(K, item) => QueuedIn(K, item))
    <3>1. IsOver(K, item) <=> IsOver(J, item)
      BY <1>2, <1>5 DEF IsOver
    <3> QED BY <1>2, <2>2, <2>4, <2>5, <3>1 DEF ItemOf, WaitsUntilOver, slot, left
  <2>9. left.in /\ left.by # 0 => \E t \in Claims(K, item) : t.turn = left.by
    BY <2>4, <2>6
  <2>10. \A t \in Claims(K, item) :
            /\ QueuedIn(K, item)
            /\ t.turn = c.open.turn /\ (left.in \/ t.resumes = 0) => left.in /\ left.by = t.turn
    <3> SUFFICES ASSUME NEW t \in Claims(K, item)
                 PROVE  /\ QueuedIn(K, item)
                        /\ t.turn = n /\ (left.in \/ t.resumes = 0) => left.in /\ left.by = t.turn
      BY <2>2
    <3>1. CASE t \in Claims(J, item)
      BY <1>2, <1>6, <2>5, <3>1 DEF ItemOf
    <3>2. CASE t = f
      BY <1>2, <2>4, <2>7, <3>2
    <3> QED BY <1>5, <3>1, <3>2
  <2>11. /\ AnsweredOnce(K, item) /\ DroppedLate(K, item)
         /\ item \in Notice /\ left.in => left.attempts <= Cardinality(Tries(K, item))
    BY <1>2, <1>5, <2>4, <2>5 DEF ItemOf, AnsweredOnce, DroppedLate, slot
  <2> QED BY <2>8, <2>9, <2>10, <2>11 DEF ItemOf, left
<1>9. IsFiniteSet(EndsIn(K))
  BY <1>1 DEF InboxOf
<1> QED BY <1>8, <1>9 DEF InboxOf, K

(* An item that was never queued is: it waits, and nothing was said of it.   *)
LEMMA QueueKeepsInbox ==
  ASSUME NEW J \in SUBSET Event, NEW s \in State, InboxOf(s, J),
         NEW q, q.kind = "inbox.queued", q.item \in Item, ~QueuedIn(J, q.item)
  PROVE  InboxOf(QueuedState(s, q.item), J \cup {q})
<1> DEFINE K == J \cup {q}
           c == QueuedState(s, q.item)
<1>1. StartsIn(K) = StartsIn(J) /\ EndsIn(K) = EndsIn(J)
  BY DEF StartsIn, EndsIn
<1>2. \A item : /\ QueuedIn(K, item) <=> QueuedIn(J, item) \/ item = q.item
                /\ TakenIn(K, item) <=> TakenIn(J, item)
  BY DEF QueuedIn, TakenIn
<1> HIDE DEF K
<1>3. \A turn, reasons : EndedSo(K, turn, reasons) <=> EndedSo(J, turn, reasons)
  BY <1>1 DEF EndedSo
<1>4. \A item : /\ Answers(K, item) = Answers(J, item) /\ Finishes(K, item) = Finishes(J, item)
                /\ (DroppedIn(K, item) <=> DroppedIn(J, item))
                /\ Tries(K, item) = Tries(J, item) /\ Claims(K, item) = Claims(J, item)
  BY <1>1, <1>3 DEF Answers, Finishes, DroppedIn, Tries, Claims
<1>5. \A item : IsOver(K, item) <=> IsOver(J, item)
  BY <1>2, <1>4 DEF IsOver
<1>6. /\ c.open = s.open /\ c.inbox[q.item] = NewSlot
      /\ \A item \in Item : item # q.item => c.inbox[item] = s.inbox[item]
  BY DEF QueuedState, State
<1> HIDE DEF c
<1>7. ASSUME NEW item \in Item, item # q.item PROVE ItemOf(c, K, item)
  <2>1. ItemOf(s, J, item) /\ c.inbox[item] = s.inbox[item]
    BY <1>6, <1>7 DEF InboxOf
  <2> QED BY <1>2, <1>4, <1>5, <1>6, <1>7, <2>1 DEF ItemOf, WaitsUntilOver, AnsweredOnce, DroppedLate
<1>8. ItemOf(c, K, q.item)
  <2>1. ItemOf(s, J, q.item)
    BY DEF InboxOf
  <2>2. ~IsOver(J, q.item) /\ Claims(J, q.item) = {}
    BY <2>1 DEF ItemOf
  <2>3. c.inbox[q.item].in /\ c.inbox[q.item].by = 0 /\ c.inbox[q.item].attempts = 0
    BY <1>6 DEF NewSlot
  <2>4. Tries(J, q.item) \subseteq EndsIn(J) /\ IsFiniteSet(EndsIn(J))
    BY DEF Tries, InboxOf
  <2>5. Cardinality(Tries(J, q.item)) \in Nat
    BY <2>4, GrowsInSize
  <2> QED BY <1>2, <1>4, <1>5, <2>1, <2>2, <2>3, <2>5 DEF ItemOf, WaitsUntilOver, AnsweredOnce, DroppedLate
<1>9. IsFiniteSet(EndsIn(K))
  BY <1>1 DEF InboxOf
<1> QED BY <1>7, <1>8, <1>9 DEF InboxOf, K, c

(* The steers a running turn takes are over.                                 *)
LEMMA TakeKeepsInbox ==
  ASSUME NEW J \in SUBSET Event, NEW s \in State, IsOpen(s), InboxOf(s, J),
         NEW items, items \subseteq PendingOf(s), NEW q, q.kind = "inbox.taken", q.items = items
  PROVE  InboxOf(WithoutItems(s, items), J \cup {q})
<1> DEFINE K == J \cup {q}
           c == WithoutItems(s, items)
<1>1. StartsIn(K) = StartsIn(J) /\ EndsIn(K) = EndsIn(J)
  BY DEF StartsIn, EndsIn
<1>2. \A item : /\ QueuedIn(K, item) <=> QueuedIn(J, item)
                /\ TakenIn(K, item) <=> TakenIn(J, item) \/ item \in items
  BY DEF QueuedIn, TakenIn
<1> HIDE DEF K
<1>3. \A turn, reasons : EndedSo(K, turn, reasons) <=> EndedSo(J, turn, reasons)
  BY <1>1 DEF EndedSo
<1>4. \A item : /\ Answers(K, item) = Answers(J, item) /\ Finishes(K, item) = Finishes(J, item)
                /\ (DroppedIn(K, item) <=> DroppedIn(J, item))
                /\ Tries(K, item) = Tries(J, item) /\ Claims(K, item) = Claims(J, item)
  BY <1>1, <1>3 DEF Answers, Finishes, DroppedIn, Tries, Claims
<1>5. \A item : IsOver(K, item) <=> IsOver(J, item) \/ item \in items
  BY <1>2, <1>4 DEF IsOver
<1>6. /\ c.open = s.open
      /\ \A item \in Item : c.inbox[item] = IF item \in items THEN NoSlot ELSE s.inbox[item]
  BY DEF WithoutItems, State
<1> HIDE DEF c
<1>7. ASSUME NEW item \in Item PROVE ItemOf(c, K, item)
  <2>1. ItemOf(s, J, item)
    BY DEF InboxOf
  <2>2. CASE item \notin items
    <3>1. c.inbox[item] = s.inbox[item]
      BY <1>6, <2>2
    <3> QED BY <1>2, <1>4, <1>5, <1>6, <2>1, <2>2, <3>1 DEF ItemOf, WaitsUntilOver, AnsweredOnce, DroppedLate
  <2>3. CASE item \in items
    <3>1. ~c.inbox[item].in /\ s.inbox[item].in /\ s.inbox[item].by = 0
      BY <1>6, <2>3 DEF NoSlot, PendingOf
    <3>2. QueuedIn(J, item) /\ Answers(J, item) = {} /\ ~DroppedIn(J, item)
      BY <2>1, <3>1 DEF ItemOf, WaitsUntilOver, IsOver
    <3>3. \A t \in Claims(J, item) : t.turn = s.open.turn => t.resumes # 0
      BY <2>1, <3>1 DEF ItemOf, IsOpen
    <3> QED BY <1>2, <1>4, <1>5, <1>6, <2>1, <2>3, <3>1, <3>2, <3>3 DEF ItemOf, WaitsUntilOver, AnsweredOnce, DroppedLate
  <2> QED BY <2>2, <2>3
<1>8. IsFiniteSet(EndsIn(K))
  BY <1>1 DEF InboxOf
<1> QED BY <1>7, <1>8 DEF InboxOf, K, c

-----------------------------------------------------------------------------
(* What calls plan keeps the inbox and the journal together.                 *)

(* The journal says of the head's turns what the ledger says.                *)
LEMMA HeadTurns ==
  ASSUME TypeOK, TurnInvariant
  PROVE  journal \in SUBSET Event /\ head.state \in State /\ TurnsOf(head.state, journal)
<1>1. journal \in SUBSET Event /\ head.state \in State
  BY HeadType DEF TypeOK, LogOK
<1>2. LedgerOf(head.state, journal, head.rev)
  BY DEF TurnInvariant
<1>3. /\ \A t \in StartsIn(journal) : t.turn \in 1..head.state.turns
      /\ \A t, u \in StartsIn(journal) : t.turn = u.turn => t = u
      /\ \A e \in EndsIn(journal) : \E t \in StartsIn(journal) : t.turn = e.turn
      /\ IsOpen(head.state) => /\ head.state.open.turn = head.state.turns
                               /\ \A e \in EndsIn(journal) : e.turn # head.state.open.turn
  BY <1>2 DEF LedgerOf, StartsIn, EndsIn, OfTurn
<1>4. head.state.turns \in Nat /\ head.state.open.turn \in Nat
  BY <1>1 DEF State, OpenTurn
<1> QED BY <1>1, <1>3, <1>4 DEF TurnsOf, IsOpen

(* A stored event is the one decided, under the revision of its commit.      *)
LEMMA Stamped ==
  ASSUME NEW n \in Nat
  PROVE  /\ \A e \in StartEvent : LET f == [e EXCEPT !.rev = n] IN
              f \in StartEvent /\ f.turn = e.turn /\ f.input = e.input /\ f.resumes = e.resumes /\ f.claimed = e.claimed
         /\ \A e \in EndEvent : LET f == [e EXCEPT !.rev = n] IN
              f \in EndEvent /\ f.turn = e.turn /\ f.reason = e.reason /\ f.code = e.code /\ f.dropped = e.dropped
         /\ \A e \in TurnEvent : LET f == [e EXCEPT !.rev = n] IN
              f \in TurnEvent /\ f.kind = e.kind /\ (e.kind = "inbox.taken" => f.items = e.items)
         /\ \A e \in OtherEvent : LET f == [e EXCEPT !.rev = n] IN
              f \in OtherEvent /\ f.kind = e.kind /\ (e.kind = "inbox.queued" => f.item = e.item)
<1>1. \A e \in StartEvent : LET f == [e EXCEPT !.rev = n] IN
        f \in StartEvent /\ f.turn = e.turn /\ f.input = e.input /\ f.resumes = e.resumes /\ f.claimed = e.claimed
  BY DEF StartEvent
<1>2. \A e \in EndEvent : LET f == [e EXCEPT !.rev = n] IN
        f \in EndEvent /\ f.turn = e.turn /\ f.reason = e.reason /\ f.code = e.code /\ f.dropped = e.dropped
  BY DEF EndEvent
<1>3. \A e \in TurnEvent : LET f == [e EXCEPT !.rev = n] IN
        f \in TurnEvent /\ f.kind = e.kind /\ (e.kind = "inbox.taken" => f.items = e.items)
  BY DEF TurnEvent
<1>4. \A e \in OtherEvent : LET f == [e EXCEPT !.rev = n] IN
        f \in OtherEvent /\ f.kind = e.kind /\ (e.kind = "inbox.queued" => f.item = e.item)
  BY DEF OtherEvent
<1> QED BY <1>1, <1>2, <1>3, <1>4

(* The journal with no event, with one, and with some more.                  *)
LEMMA WithEvents ==
  /\ With({}) = journal
  /\ \A e : With({e}) = journal \cup {[e EXCEPT !.rev = head.rev + 1]}
  /\ \A E, e : With(E \cup {e}) = With(E) \cup {[e EXCEPT !.rev = head.rev + 1]}
BY DEF With

(* A close of the head's open turn.                                          *)
LEMMA ClosingFits ==
  ASSUME TypeOK, TurnInvariant, InboxOf(head.state, journal), IsOpen(head.state),
         NEW reason \in Reason, NEW code \in Code, NEW sealed \in BOOLEAN, NEW tried \in BOOLEAN,
         Counted(reason, tried) => code \notin Untried
  PROVE  LET q == ReapClosing(head.state, reason, code, sealed, tried)
             K == With(q.events)
         IN /\ InboxOf(q.state, K) /\ TurnsOf(q.state, K) /\ K \in SUBSET Event /\ q.state \in State
            /\ \A item : QueuedIn(K, item) <=> QueuedIn(journal, item)
<1> DEFINE s == head.state
           q == ReapClosing(s, reason, code, sealed, tried)
           end == Ended(s.open.turn, reason, code, sealed, Dropped(s, reason, tried))
           e == [end EXCEPT !.rev = head.rev + 1]
           c == ClosedState(s, reason, tried)
           K == journal \cup {e}
<1>1. journal \in SUBSET Event /\ s \in State /\ TurnsOf(s, journal) /\ head.rev + 1 \in Nat
      /\ s.open.turn \in Nat \ {0} /\ s.turns \in Nat
  BY HeadTurns, HeadType DEF TypeOK, State, OpenTurn, IsOpen
<1>2. end \in EndEvent
  BY <1>1, DroppedType, EventTypes
<1>3. /\ end.turn = s.open.turn /\ end.reason = reason /\ end.code = code
      /\ end.dropped = Dropped(s, reason, tried)
  BY DEF Ended
<1> HIDE DEF end, s
<1>4. /\ e \in EndEvent /\ e.turn = s.open.turn /\ e.reason = reason /\ e.code = code
      /\ e.dropped = Dropped(s, reason, tried)
  BY <1>1, <1>2, <1>3, Stamped
<1>5. q.events = {end} /\ q.state = c
  BY DEF ReapClosing, end
<1>6. With(q.events) = K
  BY <1>5, WithEvents
<1> HIDE DEF e, q
<1>7. InboxOf(c, K)
  BY <1>1, <1>4, CloseKeepsInbox DEF s
<1>8. e.kind = "turn.ended"
  BY <1>4 DEF EndEvent
<1>9. /\ StartsIn(K) = StartsIn(journal) /\ EndsIn(K) = EndsIn(journal) \cup {e}
      /\ \A item : QueuedIn(K, item) <=> QueuedIn(journal, item)
  BY <1>8, EndAdded
<1>10. c \in State /\ c.turns = s.turns /\ c.open.turn = 0
  <2>1. c \in State
    BY <1>1, ClosedStateType
  <2>2. c.turns = s.turns /\ c.open.turn = 0
    BY <1>1 DEF ClosedState, NoTurn, State
  <2> QED BY <2>1, <2>2
<1> HIDE DEF c, K
<1>11. TurnsOf(c, K)
  <2>1. s.open.turn <= s.turns
    BY <1>1 DEF TurnsOf, IsOpen
  <2> QED BY <1>1, <1>4, <1>9, <1>10, <2>1 DEF TurnsOf, IsOpen
<1>12. K \in SUBSET Event
  BY <1>1, <1>4 DEF K, Event
<1> QED BY <1>5, <1>6, <1>7, <1>9, <1>10, <1>11, <1>12 DEF q, s

(* A reap of the head's turn, if it is one.                                  *)
LEMMA ReapFits ==
  ASSUME TypeOK, TurnInvariant, InboxOf(head.state, journal), NEW at, NEW reader, NEW over
  PROVE  LET r == Reaped(head.state, at, reader, over)
             K == With(r.events)
         IN /\ InboxOf(r.state, K) /\ TurnsOf(r.state, K) /\ K \in SUBSET Event /\ r.state \in State
            /\ \A item : QueuedIn(K, item) <=> QueuedIn(journal, item)
<1> DEFINE s == head.state
           r == Reaped(s, at, reader, over)
           held == IsHeld(s.open, at, reader)
           taken == TakesOver(over, s.open) /\ held
           tried == ~taken
           code == IF taken THEN "turn.takeover" ELSE "turn.lease"
           no == FALSE
           yes == TRUE
<1>1. s.open.sealed \in Seal
  BY HeadTurns DEF State, OpenTurn
<1>2. tried \in BOOLEAN /\ no \in BOOLEAN /\ yes \in BOOLEAN /\ (Counted("interrupted", tried) => code \notin Untried)
      /\ "sealed" \notin Untried /\ code \in Code /\ "sealed" \in Code /\ "interrupted" \in Reason
  BY DEF Counted, Untried, Code, Reason
<1>3. CASE ~IsOpen(s) \/ (held /\ ~taken)
  <2>1. r = Unreaped(s)
    BY <1>3 DEF Reaped
  <2>2. r.events = {} /\ r.state = s
    BY <2>1 DEF Unreaped
  <2> HIDE DEF r
  <2> QED BY <2>2, HeadTurns, WithEvents DEF r
<1>4. CASE IsOpen(s) /\ ~(held /\ ~taken) /\ s.open.sealed # "none"
  <2>1. r = ReapClosing(s, s.open.sealed, "sealed", TRUE, tried)
    BY <1>4 DEF Reaped
  <2>2. s.open.sealed \in Reason
    BY <1>1, <1>4 DEF Seal, Reason
  <2> HIDE DEF tried, yes, r
  <2>3. r = ReapClosing(s, s.open.sealed, "sealed", yes, tried)
    BY <2>1 DEF yes
  <2> QED BY <1>2, <1>4, <2>2, <2>3, ClosingFits DEF r
<1>5. CASE IsOpen(s) /\ ~(held /\ ~taken) /\ s.open.sealed = "none"
  <2>1. r = ReapClosing(s, "interrupted", code, FALSE, tried)
    BY <1>5 DEF Reaped
  <2> HIDE DEF tried, no, code, r
  <2>2. r = ReapClosing(s, "interrupted", code, no, tried)
    BY <2>1 DEF no
  <2> QED BY <1>2, <1>5, <2>2, ClosingFits DEF r
<1> QED BY <1>3, <1>4, <1>5

(* A begin that is not refused begins its turn, on what waits.               *)
LEMMA BeginFits ==
  ASSUME TypeOK, TurnInvariant, InboxOf(head.state, journal),
         NEW k \in Call, AskedWith(k), k.step = "read", k.op = "begin", k.state = head.state,
         KnowsItem(k), ~Refuses(k)
  PROVE  InboxOf(BeginPlan(k).next, With(BeginPlan(k).events))
<1> DEFINE r == BeginReap(k)
           s == r.state
           J == With(r.events)
           taking == Taking(k, s)
           started == Started(s.turns + 1, k.run, k.key, Origin(k.ask.kind), k.item, k.ask.resumes, taking \cap Notice)
           f == [started EXCEPT !.rev = head.rev + 1]
           next == OpenedState(s, k.run, k.at, LeaseEnd(k.at, k.now), taking)
<1>1. BeginPlan(k).events = r.events \cup {started} /\ BeginPlan(k).next = next
  BY DEF BeginPlan, Plan
<1>2. /\ InboxOf(s, J) /\ TurnsOf(s, J) /\ J \in SUBSET Event /\ s \in State
      /\ \A item : QueuedIn(J, item) <=> QueuedIn(journal, item)
  BY ReapFits DEF BeginReap
<1>3. ~IsOpen(s) /\ (k.ask.kind = "queued" => k.ask.input \in PendingOf(s))
  <2>1. BeginRefusal(k, r).told = "none"
    BY DEF Refuses
  <2> HIDE DEF r
  <2> QED BY <2>1 DEF BeginRefusal, Refusal, Accepted, Waits
<1> HIDE DEF r
<1>4. k.ask \in Ask /\ k.item \in Input \cup {NoItem} /\ k.run \in Run /\ k.key \in Key
  BY DEF AskedWith, Call
<1>5. k.ask.resumes \in Nat /\ Origin(k.ask.kind) \in {"user", "inbox", "task"} /\ s.turns \in Nat
  BY <1>2, <1>4, SessionsConstants DEF Origin, State
<1> HIDE DEF s
<1>6. started \in StartEvent
  <2> HIDE DEF taking
  <2> QED BY <1>4, <1>5 DEF Started, StartEvent
<1>7. /\ started.turn = s.turns + 1 /\ started.input = k.item /\ started.resumes = k.ask.resumes
      /\ started.claimed = taking \cap Notice
  BY DEF Started
<1> HIDE DEF started
<1>8. f \in StartEvent /\ f.turn = s.turns + 1 /\ f.input = k.item /\ f.resumes = k.ask.resumes
      /\ f.claimed = taking \cap Notice
  <2>1. head.rev + 1 \in Nat
    BY HeadType DEF TypeOK
  <2> QED BY <1>6, <1>7, <2>1, Stamped
<1> HIDE DEF f
<1>9. /\ taking \subseteq PendingOf(s)
      /\ \A item \in taking : item \in Notice \/ item = k.item
      /\ k.item \in PendingOf(s) => k.item \in taking
  BY DEF Taking
<1>10. \A item \in PendingOf(s) : QueuedIn(J, item)
  BY <1>2 DEF PendingOf, InboxOf, ItemOf, WaitsUntilOver
<1>11. k.item # NoItem => /\ QueuedIn(J, k.item)
                          /\ k.item \in PendingOf(s) \/ k.ask.resumes = 0 => k.item \in taking
  <2>1. CASE k.ask.kind = "queued"
    BY <1>3, <1>9, <1>10, <2>1 DEF KnowsItem
  <2>2. CASE k.ask.kind # "queued"
    <3>1. k.item # NoItem => k.ask.resumes # 0 /\ QueuedIn(journal, k.item)
      BY <2>2 DEF KnowsItem, WasQueued, Of, QueuedIn
    <3> QED BY <1>2, <1>9, <3>1
  <2> QED BY <2>1, <2>2
<1> HIDE DEF taking, J
<1>12. InboxOf(next, J \cup {f})
  BY <1>2, <1>3, <1>8, <1>9, <1>11, OpenKeepsInbox
<1>13. With(r.events \cup {started}) = J \cup {f}
  BY WithEvents DEF J, f
<1> QED BY <1>1, <1>12, <1>13

(* A close ends the turn that is open, or reaps it.                          *)
LEMMA CloseFits ==
  ASSUME TypeOK, TurnInvariant, InboxOf(head.state, journal),
         NEW k \in Call, k.op \in CloseOp, k.turn # 0, k.state = head.state, ClosingPlan(k).commits
  PROVE  InboxOf(ClosingPlan(k).next, With(ClosingPlan(k).events))
<1> DEFINE s == head.state
           r == Reaped(s, k.now, k.at, NotOver)
           sealed == s.open.sealed # "none"
           closing == IF sealed THEN s.open.sealed
                      ELSE IF k.op = "cancel" THEN "cancelled" ELSE "interrupted"
           code == IF sealed THEN "sealed" ELSE CloseCode(k.op)
           tried == k.op # "shutdown"
           close == ReapClosing(s, closing, code, sealed, tried)
<1>1. CASE r.closed # 0
  <2>1. ClosingPlan(k).next = r.state /\ ClosingPlan(k).events = r.events
    BY <1>1 DEF ClosingPlan, Plan
  <2> HIDE DEF r
  <2> QED BY <2>1, ReapFits DEF r
<1>2. CASE r.closed = 0
  <2>1. s.open.turn = k.turn /\ ClosingPlan(k) = Plan(close.events, close.state, "closed")
    BY <1>2 DEF ClosingPlan, Only
  <2>2. ClosingPlan(k).next = close.state /\ ClosingPlan(k).events = close.events
    BY <2>1 DEF Plan
  <2>3. IsOpen(s)
    BY <2>1 DEF IsOpen
  <2>4. s.open.sealed \in Seal
    BY HeadTurns DEF State, OpenTurn
  <2>5. closing \in Reason /\ code \in Code /\ sealed \in BOOLEAN /\ tried \in BOOLEAN
    BY <2>4 DEF Seal, Reason, Code, CloseCode, CloseOp
  <2>6. Counted(closing, tried) => code \notin Untried
    BY DEF Counted, Untried, CloseCode, CloseOp
  <2> HIDE DEF closing, code, sealed, tried
  <2>7. InboxOf(close.state, With(close.events))
    BY <2>3, <2>5, <2>6, ClosingFits
  <2> HIDE DEF close
  <2> QED BY <2>2, <2>7
<1> QED BY <1>1, <1>2

(* A begin cut before its writer closes its turn, and an interruption counts *)
(* no attempt.                                                               *)
LEMMA UnhandedFits ==
  ASSUME TypeOK, TurnInvariant, InboxOf(head.state, journal),
         NEW k \in Call, k.turn # 0, k.state = head.state, UnhandedPlan(k).commits
  PROVE  InboxOf(UnhandedPlan(k).next, With(UnhandedPlan(k).events))
<1> DEFINE s == head.state
           no == FALSE
           reason == CutReason(k)
           code == CutCode(k)
           close == ReapClosing(s, reason, code, no, no)
<1>1. s.open.turn = k.turn /\ UnhandedPlan(k) = Plan(close.events, close.state, "cut")
  BY DEF UnhandedPlan, Only
<1>2. UnhandedPlan(k).next = close.state /\ UnhandedPlan(k).events = close.events
  BY <1>1 DEF Plan
<1>3. IsOpen(s) /\ no \in BOOLEAN /\ reason \in Reason /\ code \in Code
  BY <1>1 DEF IsOpen, Reason, Code, CutReason, CutCode
<1>4. Counted(reason, no) => code \notin Untried
  BY DEF Counted, CutReason, CutCode, Untried
<1> HIDE DEF no, reason, code
<1>5. InboxOf(close.state, With(close.events))
  BY <1>3, <1>4, ClosingFits
<1> HIDE DEF close
<1> QED BY <1>2, <1>5

(* A delivery or an enqueue reaps, and queues what never was.                *)
LEMMA DeliverFits ==
  ASSUME TypeOK, TurnInvariant, InboxOf(head.state, journal),
         NEW k \in Call, k.item \in Item, k.state = head.state, InboxPlan(k).commits
  PROVE  InboxOf(InboxPlan(k).next, With(InboxPlan(k).events))
<1> DEFINE s == head.state
           r == Reaped(s, k.now, k.at, NotOver)
           J == With(r.events)
           known == s.inbox[k.item].in \/ WasQueued(k.item)
           queued == Queued(k.item)
           q == [queued EXCEPT !.rev = head.rev + 1]
           next == QueuedState(r.state, k.item)
<1>1. /\ InboxOf(r.state, J) /\ J \in SUBSET Event /\ r.state \in State
      /\ \A item : QueuedIn(J, item) <=> QueuedIn(journal, item)
  BY ReapFits
<1>2. CASE known
  <2>1. InboxPlan(k).next = r.state /\ InboxPlan(k).events = r.events
    BY <1>2 DEF InboxPlan, Only, Plan
  <2> HIDE DEF r
  <2> QED BY <1>1, <2>1
<1>3. CASE ~known
  <2>1. InboxPlan(k).events = r.events \cup {queued} /\ InboxPlan(k).next = next
    BY <1>3 DEF InboxPlan, Only, Plan
  <2>2. queued.kind = "inbox.queued" /\ queued.item = k.item /\ queued \in OtherEvent
    BY EventTypes DEF Queued
  <2>3. ~QueuedIn(J, k.item)
    BY <1>1, <1>3 DEF WasQueued, Of, QueuedIn
  <2> HIDE DEF queued, r
  <2>4. q.kind = "inbox.queued" /\ q.item = k.item
    <3>1. head.rev + 1 \in Nat
      BY HeadType DEF TypeOK
    <3> QED BY <2>2, <3>1, Stamped
  <2>5. With(r.events \cup {queued}) = J \cup {q}
    BY WithEvents
  <2> HIDE DEF J, q, next
  <2>6. InboxOf(QueuedState(r.state, q.item), J \cup {q})
    BY <1>1, <2>3, <2>4, QueueKeepsInbox
  <2> QED BY <2>1, <2>4, <2>5, <2>6 DEF next
<1> QED BY <1>2, <1>3

(* A keyed transact leaves the inbox as it is.                               *)
LEMMA TransactFits ==
  ASSUME TypeOK, TurnInvariant, InboxOf(head.state, journal),
         NEW k \in Call, k.item \in Tx, k.state = head.state, TransactPlan(k).commits
  PROVE  InboxOf(TransactPlan(k).next, With(TransactPlan(k).events))
<1> DEFINE keyed == Keyed(k.item)
           f == [keyed EXCEPT !.rev = head.rev + 1]
<1>1. TransactPlan(k).events = {keyed} /\ TransactPlan(k).next = head.state
  BY DEF TransactPlan, Only, Plan
<1>2. keyed \in OtherEvent /\ keyed.kind = "transact.keyed"
  BY EventTypes DEF Keyed
<1> HIDE DEF keyed
<1>3. f.kind = "transact.keyed"
  <2>1. head.rev + 1 \in Nat
    BY HeadType DEF TypeOK
  <2> QED BY <1>2, <2>1, Stamped
<1>4. With({keyed}) = journal \cup {f}
  BY WithEvents
<1> HIDE DEF f
<1>5. InboxOf(head.state, journal \cup {f})
  BY <1>3, QuietEvents
<1> QED BY <1>1, <1>4, <1>5

(* Whatever a call commits to the head it read keeps the inbox.              *)
LEMMA PlanFits ==
  ASSUME TypeOK, TurnInvariant, InboxInvariant, NEW c \in Caller, Commits(call[c]), call[c].state = head.state
  PROVE  InboxOf(PlanOf(call[c]).next, With(PlanOf(call[c]).events))
<1> DEFINE k == call[c]
<1>1. /\ k \in Call /\ AskedWith(k) /\ k.step = "read" /\ ~Refuses(k) /\ PlanOf(k).commits
      /\ k.state = head.state /\ ItemFits(k) /\ InboxOf(head.state, journal)
  BY CallInFlight DEF CallOK, Commits, InboxInvariant
<1> SUFFICES InboxOf(PlanOf(k).next, With(PlanOf(k).events))
  OBVIOUS
<1> HIDE DEF k
<1>2. k.op \in CloseOp \cup Inboxes \cup {"unhanded", "transact", "begin"}
  BY <1>1 DEF Call, AskedWith, Op
<1>3. CASE k.op \in CloseOp
  <2>1. PlanOf(k) = ClosingPlan(k)
    BY <1>3 DEF PlanOf, ClosePlan, CloseOp
  <2>2. k.turn # 0
    BY <1>1, <1>3 DEF AskedWith
  <2> QED BY <1>1, <1>3, <2>1, <2>2, CloseFits
<1>4. CASE k.op = "unhanded"
  <2>1. PlanOf(k) = UnhandedPlan(k) /\ k.turn # 0
    BY <1>1, <1>4 DEF PlanOf, CloseOp, AskedWith
  <2> QED BY <1>1, <2>1, UnhandedFits
<1>5. CASE k.op \in Inboxes
  <2>1. PlanOf(k) = InboxPlan(k) /\ k.item \in Item
    BY <1>1, <1>5 DEF PlanOf, CloseOp, Inboxes, AskedWith
  <2> QED BY <1>1, <2>1, DeliverFits
<1>6. CASE k.op = "transact"
  <2>1. PlanOf(k) = TransactPlan(k) /\ k.item \in Tx
    BY <1>1, <1>6 DEF PlanOf, CloseOp, AskedWith
  <2> QED BY <1>1, <2>1, TransactFits
<1>7. CASE k.op = "begin"
  <2>1. PlanOf(k) = BeginPlan(k) /\ KnowsItem(k)
    BY <1>1, <1>7 DEF PlanOf, CloseOp, ItemFits
  <2> QED BY <1>1, <1>7, <2>1, BeginFits
<1> QED BY <1>2, <1>3, <1>4, <1>5, <1>6, <1>7

-----------------------------------------------------------------------------
(* What a writer writes of its turn keeps them together.                     *)

(* A renewed lease and a seal leave the inbox as it is.                      *)
LEMMA RenewedInbox ==
  ASSUME TypeOK, NEW s \in State, NEW J, InboxOf(s, J), NEW i, NEW always
  PROVE  /\ InboxOf(Renewed(i, s, always), J)
         /\ \A seal \in Seal : InboxOf([Renewed(i, s, always) EXCEPT !.open.sealed = seal], J)
<1> DEFINE r == Renewed(i, s, always)
<1>1. r \in State /\ r.open.turn = s.open.turn
  BY RenewedShape DEF TypeOK
<1>2. r.inbox = s.inbox
  BY DEF Renewed, State
<1> HIDE DEF r
<1>3. InboxOf(r, J)
  BY <1>1, <1>2, SameInbox
<1>4. ASSUME NEW seal \in Seal PROVE InboxOf([r EXCEPT !.open.sealed = seal], J)
  <2> DEFINE sealing == [r EXCEPT !.open.sealed = seal]
  <2>1. sealing.open = [r.open EXCEPT !.sealed = seal] /\ sealing.inbox = r.inbox /\ r.open \in OpenTurn
    BY <1>1 DEF State
  <2> HIDE DEF sealing
  <2>2. sealing.open.turn = r.open.turn
    BY <2>1 DEF OpenTurn
  <2>3. InboxOf(sealing, J)
    BY <1>3, <2>1, <2>2, SameInbox
  <2> QED BY <2>3 DEF sealing
<1> QED BY <1>3, <1>4 DEF r

(* So does whatever a writer commits to the head.                            *)
LEMMA OwnFits ==
  ASSUME TypeOK, TurnInvariant, InboxOf(head.state, journal),
         NEW w \in WriterId, writer[w].phase \in Live, writer[w].state = head.state
  PROVE  LET me == writer[w]
             renewed(always) == Renewed(me.inst, me.state, always)
             taken(items) == Renewed(me.inst, WithoutItems(me.state, items), FALSE)
             sealing == [renewed(FALSE) EXCEPT !.open.sealed = me.held]
         IN /\ InboxOf(renewed(FALSE), With({Wrote(w.turn)}))
            /\ \A always : InboxOf(renewed(always), With({}))
            /\ InboxOf(sealing, With({}))
            /\ \A items \in SUBSET (PendingOf(me.state) \cap Steer) :
                 InboxOf(taken(items), With({Taken(w.turn, items)}))
            /\ me.phase = "Ending" => InboxOf(EndState(w), With(EndEvents(w)))
<1> DEFINE me == writer[w]
           s == head.state
           wrote == Wrote(w.turn)
           taken(items) == Taken(w.turn, items)
           rev == head.rev + 1
           f == [wrote EXCEPT !.rev = rev]
           q(items) == [taken(items) EXCEPT !.rev = rev]
<1>1. /\ me \in Writer /\ s \in State /\ w.turn \in Nat \ {0} /\ rev \in Nat /\ s.open.turn = w.turn
      /\ me.held \in Seal /\ IsOpen(s)
  BY HeadTurns, HeadType, WriterInUse DEF TypeOK, WriterOK, Writer, TurnInvariant, PlansFromTheHead,
                                          WritersFollow, WriterFollows, IsOpen
<1>2. wrote \in TurnEvent /\ wrote.kind = "wrote"
  BY <1>1, EventTypes DEF Wrote
<1>3. \A items \in SUBSET Steer : taken(items) \in TurnEvent /\ taken(items).kind = "inbox.taken" /\ taken(items).items = items
  BY <1>1, EventTypes DEF Taken
<1> HIDE DEF wrote, taken, rev
<1>4. f.kind = "wrote"
  BY <1>1, <1>2, Stamped
<1>5. \A items \in SUBSET Steer : q(items).kind = "inbox.taken" /\ q(items).items = items
  BY <1>1, <1>3, Stamped
<1>6. /\ With({wrote}) = journal \cup {f} /\ With({}) = journal
      /\ \A items : With({taken(items)}) = journal \cup {q(items)}
  BY WithEvents DEF rev
<1> HIDE DEF f, q
<1>7. InboxOf(s, journal \cup {f})
  BY <1>4, QuietEvents
<1> HIDE DEF s
<1>8. InboxOf(Renewed(me.inst, s, FALSE), journal \cup {f})
  <2>1. \A always : InboxOf(Renewed(me.inst, s, always), journal \cup {f})
    BY <1>1, <1>7, RenewedInbox
  <2> QED BY <2>1
<1>9. \A always : /\ InboxOf(Renewed(me.inst, s, always), journal)
                  /\ InboxOf([Renewed(me.inst, s, always) EXCEPT !.open.sealed = me.held], journal)
  BY <1>1, RenewedInbox DEF s
<1>10. ASSUME NEW items \in SUBSET (PendingOf(s) \cap Steer)
       PROVE  InboxOf(Renewed(me.inst, WithoutItems(s, items), FALSE), With({taken(items)}))
  <2> DEFINE u == WithoutItems(s, items)
             e == q(items)
  <2>1. u \in State
    BY <1>1 DEF WithoutItems, State, Slot, NoSlot
  <2>2. items \subseteq PendingOf(s) /\ e.kind = "inbox.taken" /\ e.items = items
    BY <1>5
  <2>3. journal \in SUBSET Event /\ InboxOf(s, journal)
    BY HeadTurns DEF s
  <2> HIDE DEF e
  <2>4. InboxOf(WithoutItems(s, items), journal \cup {e})
    BY <1>1, <2>2, <2>3, TakeKeepsInbox
  <2>5. InboxOf(u, journal \cup {e})
    BY <2>4
  <2> HIDE DEF u
  <2>6. \A always : InboxOf(Renewed(me.inst, u, always), journal \cup {e})
    BY <2>1, <2>5, RenewedInbox
  <2>7. With({taken(items)}) = journal \cup {e}
    BY <1>6 DEF e
  <2> QED BY <2>6, <2>7 DEF u
<1>11. ASSUME me.phase = "Ending" PROVE InboxOf(EndState(w), With(EndEvents(w)))
  <2> DEFINE reason == me.ending
             tried == me.tried
             sealed == me.held # "none"
             close == ReapClosing(s, reason, "own", sealed, tried)
  <2>1. reason \in Reason /\ tried \in BOOLEAN /\ "own" \in Code /\ sealed \in BOOLEAN /\ "own" \notin Untried
    BY <1>1, <1>11, WriterInUse DEF Writer, Code, Untried
  <2>2. close.events = EndEvents(w) /\ close.state = EndState(w)
    BY <1>1 DEF ReapClosing, EndEvents, EndState, s
  <2> HIDE DEF reason, tried, sealed
  <2>3. InboxOf(close.state, With(close.events))
    BY <1>1, <2>1, ClosingFits DEF s
  <2> HIDE DEF close
  <2> QED BY <2>2, <2>3
<1> QED BY <1>6, <1>8, <1>9, <1>10, <1>11 DEF s, wrote, taken

-----------------------------------------------------------------------------
(* Steps that leave the log alone, and steps that commit.                    *)

StalledFits(s) == IsHead(head, s.inc, s.rev) => InboxOf(s.next, With(s.events))

(* What a step may make of calls and stalled commits.                        *)
Fitted ==
  /\ \A c \in Caller : call'[c] = call[c] \/ ItemFits(call'[c])
  /\ \A s \in stalled' : s \in stalled \/ (StalledFollows(head, s) /\ StalledFits(s))

(* So whatever calls and stalled commits fitted fits still.                  *)
LEMMA FitsKept ==
  ASSUME TypeOK, TypeOK', TurnInvariant, InboxInvariant, LogMoves, Fitted,
         UNCHANGED head => UNCHANGED journal,
         \A k \in Call : AskedWith(k) /\ ItemFits(k) => ItemFits(k)'
  PROVE  (\A c \in Caller : ItemFits(call[c]))' /\ (\A s \in stalled : StalledFits(s))'
<1>1. ASSUME NEW c \in Caller PROVE ItemFits(call[c])'
  <2>1. call'[c] \in Call /\ AskedWith(call'[c]) /\ ItemFits(call'[c])
    BY DEF Fitted, InboxInvariant, TypeOK, CallsOK
  <2> QED BY <2>1 DEF ItemFits, KnowsItem, WasQueued, Of
<1>2. ASSUME NEW s \in stalled' PROVE StalledFits(s)'
  <2>1. StalledFollows(head, s) /\ StalledFits(s)
    BY DEF Fitted, InboxInvariant, StalledFits, TurnInvariant, PlansFromTheHead
  <2>2. s \in Stalled
    BY DEF TypeOK, FaultsOK
  <2>3. ASSUME IsHead(head', s.inc, s.rev) PROVE InboxOf(s.next, With(s.events)')
    <3>1. IsHead(head, s.inc, s.rev) /\ UNCHANGED head
      BY <2>1, <2>2, <2>3, PastKept DEF StalledFollows, Stalled, TypeOK
    <3>2. With(s.events)' = With(s.events)
      BY <3>1 DEF With
    <3> QED BY <2>1, <3>1, <3>2 DEF StalledFits
  <2> QED BY <2>3 DEF StalledFits
<1> QED BY <1>1, <1>2

(* What was queued still was, so a begin knows its item still.               *)
LEMMA ItemsKept ==
  ASSUME journal \subseteq journal'
  PROVE  \A k : ItemFits(k) => ItemFits(k)'
<1>1. \A item : WasQueued(item) => WasQueued(item)'
  BY DEF WasQueued, Of
<1> QED BY <1>1 DEF ItemFits, KnowsItem

(* A step that leaves the log alone leaves the inbox and the journal alone.  *)
LEMMA QuietInbox ==
  ASSUME TypeOK, TypeOK', TurnInvariant, InboxInvariant, UNCHANGED <<head, journal>>, Fitted
  PROVE  InboxInvariant'
<1>1. \A k : ItemFits(k) => ItemFits(k)'
  BY ItemsKept
<1>2. (\A c \in Caller : ItemFits(call[c]))' /\ (\A s \in stalled : StalledFits(s))'
  BY <1>1, FitsKept DEF LogMoves
<1>3. InboxOf(head.state, journal)'
  <2>1. InboxOf(head.state, journal)
    BY DEF InboxInvariant
  <2> QED BY <2>1
<1> QED BY <1>2, <1>3 DEF InboxInvariant, StalledFits

(* A commit that fits the head and the journal keeps them together.          *)
LEMMA CommitInbox ==
  ASSUME TypeOK, TypeOK', TurnInvariant, InboxInvariant, NEW events \in SUBSET Event, NEW next \in State,
         StoreCommit(events, next), InboxOf(next, With(events)), Fitted
  PROVE  InboxInvariant'
<1>1. head'.state = next /\ head'.rev = head.rev + 1 /\ head.rev \in Nat /\ journal' = With(events)
  BY HeadType DEF StoreCommit, TypeOK, LogOK, With
<1>2. \A k : ItemFits(k) => ItemFits(k)'
  BY <1>1, ItemsKept DEF With
<1>3. head' # head
  BY <1>1
<1>4. (\A c \in Caller : ItemFits(call[c]))' /\ (\A s \in stalled : StalledFits(s))'
  BY <1>2, <1>3, FitsKept DEF LogMoves
<1>5. InboxOf(head.state, journal)'
  <2>1. InboxOf(head'.state, journal')
    BY <1>1
  <2> QED BY <2>1
<1> QED BY <1>4, <1>5 DEF InboxInvariant, StalledFits

(* An empty inbox and an empty journal agree.                                *)
LEMMA EmptyInbox == InboxOf(InitialState, {})
<1>1. StartsIn({}) = {} /\ EndsIn({}) = {} /\ IsFiniteSet({})
  BY FS_EmptySet DEF StartsIn, EndsIn
<1>2. \A item : /\ Answers({}, item) = {} /\ Finishes({}, item) = {} /\ Claims({}, item) = {} /\ ~DroppedIn({}, item)
                /\ ~QueuedIn({}, item) /\ ~TakenIn({}, item)
  BY <1>1 DEF Answers, Finishes, Claims, DroppedIn, QueuedIn, TakenIn
<1>3. \A item : ~IsOver({}, item)
  BY <1>2 DEF IsOver
<1>4. \A item \in Item : ~InitialState.inbox[item].in
  BY DEF InitialState, NoSlot
<1> QED BY <1>1, <1>2, <1>3, <1>4 DEF InboxOf, ItemOf, WaitsUntilOver, AnsweredOnce, DroppedLate

(* So do a session that is created, and one removed where no begin carries   *)
(* an item of it any further.                                                *)
LEMMA EmptiedInbox ==
  ASSUME TypeOK, TypeOK', TurnInvariant, InboxInvariant,
         CreateSession(InitialState) \/ RemoveSession(InitialState), journal' = {}, Fitted,
         journal = {} \/ \A ask \in Ask : ask.resumes = 0
  PROVE  InboxInvariant'
<1>1. head' # head /\ head'.state = InitialState
  <2>1. CASE CreateSession(InitialState)
    BY <2>1 DEF CreateSession
  <2>2. CASE RemoveSession(InitialState)
    <3>1. head'.present = FALSE /\ head'.state = InitialState
      BY <2>2, HeadType DEF RemoveSession, TypeOK
    <3> QED BY <2>2, <3>1 DEF RemoveSession
  <2> QED BY <2>1, <2>2
<1>2. ASSUME NEW k \in Call, AskedWith(k), ItemFits(k) PROVE ItemFits(k)'
  <2>1. CASE journal = {}
    BY <1>2, <2>1, ItemsKept
  <2>2. CASE \A ask \in Ask : ask.resumes = 0
    <3>1. k.op = "begin" /\ k.step \in {"prepared", "read"} => k.ask.resumes = 0
      BY <1>2, <2>2 DEF AskedWith
    <3> QED BY <1>2, <3>1 DEF ItemFits, KnowsItem
  <2> QED BY <2>1, <2>2
<1>3. (\A c \in Caller : ItemFits(call[c]))' /\ (\A s \in stalled : StalledFits(s))'
  BY <1>1, <1>2, FitsKept DEF LogMoves
<1>4. InboxOf(head.state, journal)'
  <2>1. InboxOf(head'.state, journal')
    BY <1>1, EmptyInbox
  <2> QED BY <2>1
<1> QED BY <1>3, <1>4 DEF InboxInvariant, StalledFits

-----------------------------------------------------------------------------
(* Calls.                                                                    *)

(* One call changes.                                                         *)
LEMMA OneCallFits ==
  ASSUME TypeOK, NEW c \in Caller, NEW rec, Become(c, rec), ItemFits(rec),
         \A s \in stalled' : s \in stalled \/ (StalledFollows(head, s) /\ StalledFits(s))
  PROVE  Fitted
<1>1. \A d \in Caller : call'[d] = call[d] \/ call'[d] = rec
  BY DEF Become, TypeOK, CallsOK
<1> QED BY <1>1 DEF Fitted

(* A call that becomes another beside the log.                               *)
LEMMA QuietCallFits ==
  ASSUME TypeOK, TypeOK', TurnInvariant, InboxInvariant, NEW c \in Caller, NEW rec, Become(c, rec), ItemFits(rec),
         UNCHANGED <<head, journal, stalled>>
  PROVE  InboxInvariant'
BY OneCallFits, QuietInbox

(* Only a begin knows an item, and it does until it has read the head.       *)
LEMMA ItemsKnown ==
  /\ ItemFits(Idle)
  /\ \A k, told, turn, open : ItemFits(RefusedCall(k, told, turn, open))
  /\ \A k : ItemFits(Closing(k))
  /\ \A k \in Call : (k.op = "begin" => KnowsItem(k)) => ItemFits(Reading(k))
<1>1. ItemFits(Idle)
  BY DEF ItemFits, Idle
<1>2. \A k, told, turn, open : ItemFits(RefusedCall(k, told, turn, open))
  BY <1>1 DEF ItemFits, RefusedCall, Idle
<1>3. ASSUME NEW k \in Call, k.op = "begin" => KnowsItem(k) PROVE ItemFits(Reading(k))
  <2> DEFINE r == Reading(k)
  <2>1. r.op = k.op /\ r.ask = k.ask /\ r.item = k.item
    BY DEF Reading, Call
  <2> HIDE DEF r
  <2>2. ItemFits(r)
    BY <1>3, <2>1 DEF ItemFits, KnowsItem
  <2> QED BY <2>2 DEF r
<1>4. \A k : ItemFits(Closing(k))
  BY DEF ItemFits, Closing, Idle
<1> QED BY <1>1, <1>2, <1>3, <1>4

(* A begin is asked for the queued input it answers, or looks up that of the *)
(* turn it resumes, which was queued if it is an item at all.                *)
LEMMA PreparedItemKnown ==
  ASSUME TypeOK, TurnInvariant, InboxInvariant, NEW ask \in Ask
  PROVE  LET item == PreparedItem(ask) IN
         IF ask.kind = "queued" THEN item = ask.input
         ELSE item # NoItem => ask.resumes # 0 /\ WasQueued(item)
<1> DEFINE item == PreparedItem(ask)
           target == {s \in Starts : s.turn = ask.resumes}
           first == CHOOSE s \in target : TRUE
<1>1. CASE ask.kind = "queued"
  BY <1>1 DEF PreparedItem
<1>2. CASE ask.kind # "queued" /\ target = {}
  BY <1>2 DEF PreparedItem
<1>3. CASE ask.kind # "queued" /\ target # {}
  <2>1. item = first.input /\ first \in target
    BY <1>3 DEF PreparedItem
  <2> HIDE DEF first
  <2>2. first \in StartsIn(journal) /\ first.turn = ask.resumes
    BY <2>1 DEF Starts, Of, StartsIn
  <2>3. first.turn # 0 /\ first.input \in Input \cup {NoItem}
    BY <2>2, HeadTurns, JournalTypes DEF TurnsOf
  <2>4. item # NoItem => item \in Item /\ first \in Claims(journal, item)
    BY <2>1, <2>2, <2>3 DEF Item, Claims
  <2>5. item # NoItem => QueuedIn(journal, item)
    BY <2>4 DEF InboxInvariant, InboxOf, ItemOf
  <2> HIDE DEF item
  <2> QED BY <1>3, <2>2, <2>3, <2>5 DEF QueuedIn, WasQueued, Of, item
<1> QED BY <1>1, <1>2, <1>3

(* Asking for a begin, a delivery, an enqueue or a transact keeps them.      *)
LEMMA CallInFits ==
  ASSUME TypeOK, TypeOK', TurnInvariant, InboxInvariant, NEW c \in Caller, NEW i \in Instance
  PROVE  /\ \A ask \in Ask : AskBegin(c, i, ask) => InboxInvariant'
         /\ \A item \in Delivers : AskDeliver(c, i, item) => InboxInvariant'
         /\ \A tx \in Tx : AskTransact(c, i, tx) => InboxInvariant'
<1>1. ASSUME NEW rec, ItemFits(rec), CallIn(c, i, rec) PROVE InboxInvariant'
  <2>1. Become(c, rec) /\ UNCHANGED <<head, journal, stalled>>
    BY <1>1 DEF CallIn, local, logVars
  <2> QED BY <1>1, <2>1, QuietCallFits
<1>2. ASSUME NEW ask \in Ask, AskBegin(c, i, ask) PROVE InboxInvariant'
  <2> DEFINE base == Asked(i, "begin")
             asked == [base EXCEPT !.ask = ask, !.run = ask.run, !.item = PreparedItem(ask), !.key = PreparedKey(ask)]
  <2>1. base \in Call /\ base.op = "begin"
    <3>1. "begin" \in Op
      BY DEF Op
    <3> QED BY <3>1, AskedType
  <2>2. PreparedItem(ask) \in Item \cup Tx \cup {NoItem} /\ PreparedKey(ask) \in Key /\ ask.run \in RunOrNone
    BY PreparedTypes, SessionsConstants DEF Item, RunOrNone, TypeOK
  <2>3. CallIn(c, i, IF ask.kind = "queued" \/ ask.resumes # 0
                     THEN [asked EXCEPT !.step = "prepared"] ELSE Reading(asked))
    BY <1>2 DEF AskBegin
  <2> HIDE DEF base
  <2>4. asked \in Call /\ asked.ask = ask /\ asked.item = PreparedItem(ask)
    BY <2>1, <2>2 DEF Call
  <2> HIDE DEF asked
  <2>5. KnowsItem(asked)
    BY <2>4, PreparedItemKnown DEF KnowsItem
  <2>6. ItemFits([asked EXCEPT !.step = "prepared"])
    BY <2>4, <2>5 DEF ItemFits, KnowsItem, Call
  <2>7. ItemFits(Reading(asked))
    BY <2>4, <2>5, ItemsKnown
  <2> QED BY <1>1, <2>3, <2>6, <2>7
<1>3. ASSUME NEW op \in Op \ {"begin"}, NEW item \in Item \cup Tx,
             CallIn(c, i, Reading([Asked(i, op) EXCEPT !.item = item]))
      PROVE  InboxInvariant'
  <2> DEFINE asked == [Asked(i, op) EXCEPT !.item = item]
  <2>1. asked \in Call /\ asked.op = op
    BY <1>3, AskedType DEF Call
  <2> HIDE DEF asked
  <2>2. ItemFits(Reading(asked))
    BY <1>3, <2>1, ItemsKnown
  <2> QED BY <1>1, <1>3, <2>2 DEF asked
<1>4. ASSUME NEW item \in Delivers, AskDeliver(c, i, item) PROVE InboxInvariant'
  <2> DEFINE op == IF item \in Notice THEN "deliver" ELSE "enqueue"
  <2>1. op \in Op \ {"begin"} /\ item \in Item /\ CallIn(c, i, Reading([Asked(i, op) EXCEPT !.item = item]))
    BY <1>4, SessionsConstants DEF Op, Inboxes, AskDeliver
  <2> HIDE DEF op
  <2> QED BY <1>3, <2>1
<1>5. ASSUME NEW tx \in Tx, AskTransact(c, i, tx) PROVE InboxInvariant'
  <2>1. "transact" \in Op \ {"begin"}
    BY DEF Op
  <2> QED BY <1>3, <1>5, <2>1 DEF AskTransact
<1> QED BY <1>2, <1>4, <1>5

(* So do asking for a close, and a shutdown's.                               *)
LEMMA CloseAskedFits ==
  ASSUME TypeOK, TypeOK', TurnInvariant, InboxInvariant, NEW c \in Caller
  PROVE  /\ \A i \in Instance, turn \in CancelTurns : AskCancel(c, i, turn) => InboxInvariant'
         /\ \A w \in WriterId : AskTimeLimit(c, w) => InboxInvariant'
         /\ \A i \in Instance : ShutdownCloses(c, i) => InboxInvariant'
<1>1. ASSUME NEW i \in Instance, NEW op \in CloseOp, NEW turn \in Nat, NEW run \in RunOrNone, AskClose(c, i, op, turn, run)
      PROVE  InboxInvariant'
  <2> DEFINE base == Asked(i, op)
             asked == [base EXCEPT !.turn = turn, !.run = run]
             awaits == [asked EXCEPT !.step = "await", !.inc = registered[i].inc]
  <2>1. base \in Call /\ base.op = op
    <3>1. op \in Op
      BY DEF Op
    <3> QED BY <3>1, AskedType
  <2>2. UNCHANGED <<head, journal, stalled>> /\ (Become(c, awaits) \/ Become(c, Reading(asked)))
    BY <1>1 DEF AskClose, logVars
  <2> HIDE DEF base
  <2>3. asked \in Call /\ asked.op # "begin"
    BY <2>1 DEF Call, CloseOp
  <2> HIDE DEF asked
  <2>4. ItemFits(awaits)
    BY <2>3 DEF ItemFits, Call
  <2>5. ItemFits(Reading(asked))
    BY <2>3, ItemsKnown
  <2> HIDE DEF awaits
  <2> QED BY <2>2, <2>4, <2>5, QuietCallFits
<1>2. ASSUME NEW i \in Instance, NEW turn \in CancelTurns, AskCancel(c, i, turn) PROVE InboxInvariant'
  BY <1>1, <1>2, SessionsConstants DEF AskCancel, CloseOp, RunOrNone
<1>3. ASSUME NEW w \in WriterId, AskTimeLimit(c, w) PROVE InboxInvariant'
  <2>1. writer[w].inst \in Instance /\ writer[w].run \in RunOrNone /\ w.turn \in Nat /\ "time-limit" \in CloseOp
    BY <1>3, WriterInUse DEF AskTimeLimit, WriterOK, Writer, CloseOp
  <2> QED BY <1>1, <1>3, <2>1 DEF AskTimeLimit
<1>4. ASSUME NEW i \in Instance, ShutdownCloses(c, i) PROVE InboxInvariant'
  <2>1. CASE registered[i] = NoWriter
    <3>1. UNCHANGED <<head, journal, call, stalled>>
      BY <1>4, <2>1 DEF ShutdownCloses, logVars
    <3>2. Fitted
      BY <3>1 DEF Fitted
    <3> QED BY <3>1, <3>2, QuietInbox
  <2>2. CASE registered[i] # NoWriter
    <3> DEFINE w == registered[i]
    <3>1. w \in WriterId
      BY <2>2 DEF TypeOK, InstancesOK
    <3>2. writer[w].run \in RunOrNone /\ w.turn \in Nat /\ "shutdown" \in CloseOp
      BY <3>1, WriterInUse DEF WriterOK, Writer, CloseOp
    <3>3. AskClose(c, i, "shutdown", w.turn, writer[w].run)
      BY <1>4, <2>2 DEF ShutdownCloses
    <3> QED BY <1>1, <3>2, <3>3
  <2> QED BY <2>1, <2>2
<1> QED BY <1>2, <1>3, <1>4

(* So do a call's other steps beside the log.                                *)
LEMMA LocalCallFits ==
  ASSUME TypeOK, TypeOK', TurnInvariant, InboxInvariant, NEW c \in Caller
  PROVE  ReadHead(c) \/ Refused(c) \/ Answered(c) \/ Handover(c) \/ Handed(c) \/ AwaitOver(c) \/ CloseLocal(c)
           \/ BeginCut(c) => InboxInvariant'
<1> DEFINE k == call[c]
<1>1. /\ k \in Call /\ k.turn \in Nat /\ k.run \in RunOrNone /\ (k.step # "idle" => k.at \in Instance) /\ ItemFits(k)
      /\ (k.step = "await" => k.op \in CloseOp)
  BY CallInFlight DEF CallOK, InboxInvariant, AskedWith
<1>2. ASSUME NEW rec, ItemFits(rec), Become(c, rec), UNCHANGED <<head, journal, stalled>>
      PROVE  InboxInvariant'
  BY <1>2, QuietCallFits
<1>3. ASSUME NEW op \in Op \ {"begin"}, NEW told \in Told, k.at \in Instance
      PROVE  ItemFits(Reading([Asked(k.at, op) EXCEPT !.turn = k.turn, !.run = k.run, !.told = told]))
  <2> DEFINE base == Asked(k.at, op)
             asked == [base EXCEPT !.turn = k.turn, !.run = k.run, !.told = told]
  <2>1. base \in Call /\ base.op = op
    BY <1>3, AskedType
  <2> HIDE DEF base
  <2>2. asked \in Call /\ asked.op = op
    BY <1>1, <2>1 DEF Call
  <2> HIDE DEF asked
  <2>3. ItemFits(Reading(asked))
    BY <1>3, <2>2, ItemsKnown
  <2> QED BY <2>3 DEF asked, base
<1>4. ASSUME ReadHead(c) PROVE InboxInvariant'
  <2>1. ItemFits(Reading(k))
    BY <1>1, <1>4, ItemsKnown DEF ReadHead, ItemFits
  <2> QED BY <1>2, <1>4, <2>1 DEF ReadHead, local, logVars
<1>5. ASSUME AwaitOver(c) PROVE InboxInvariant'
  <2>1. ItemFits(Reading(k)) /\ ItemFits(Idle)
    BY <1>1, <1>5, ItemsKnown DEF AwaitOver, CloseOp
  <2> QED BY <1>2, <1>5, <2>1 DEF AwaitOver, Answer, local, logVars
<1>6. ASSUME Refused(c) PROVE InboxInvariant'
  <2>1. PICK told, turn, open : Become(c, RefusedCall(k, told, turn, open))
    BY <1>6 DEF Refused
  <2>2. ItemFits(RefusedCall(k, told, turn, open))
    BY ItemsKnown
  <2> QED BY <1>2, <1>6, <2>1, <2>2 DEF Refused, local, logVars
<1>7. ASSUME Answered(c) PROVE InboxInvariant'
  BY <1>2, <1>7, ItemsKnown DEF Answered, Answer, local, logVars
<1>8. ASSUME Handed(c) PROVE InboxInvariant'
  <2>1. "shutdown" \in Op \ {"begin"} /\ k.at \in Instance /\ ItemFits(Idle)
    BY <1>1, <1>8, ItemsKnown DEF Op, CloseOp, Handed
  <2> DEFINE base == Asked(k.at, "shutdown")
             asked == [base EXCEPT !.turn = k.turn, !.run = k.run]
  <2>2. asked \in Call /\ asked.op = "shutdown"
    <3>1. base \in Call /\ base.op = "shutdown"
      BY <2>1, AskedType
    <3> HIDE DEF base
    <3> QED BY <1>1, <3>1 DEF Call
  <2>3. ItemFits(Reading(asked))
    <3> HIDE DEF asked
    <3> QED BY <2>2, ItemsKnown
  <2> QED BY <1>2, <1>8, <2>1, <2>3 DEF Handed, Answer, local, logVars
<1>9. ASSUME BeginCut(c) PROVE InboxInvariant'
  <2>1. "unhanded" \in Op \ {"begin"} /\ k.at \in Instance /\ {"none", "error"} \subseteq Told
    BY <1>1, <1>9 DEF Op, BeginCut, Told
  <2> QED BY <1>2, <1>3, <1>9, <2>1 DEF BeginCut, logVars
<1>10. ASSUME Handover(c) PROVE InboxInvariant'
  <2> DEFINE rec == [Unread(k) EXCEPT !.step = "handed", !.reaped = 0]
  <2>1. Become(c, rec) /\ UNCHANGED <<head, journal, stalled>>
    BY <1>10 DEF Handover, logVars
  <2>2. ItemFits(rec)
    BY <1>1 DEF ItemFits, Unread, Call
  <2> HIDE DEF rec
  <2> QED BY <1>2, <2>1, <2>2
<1>11. ASSUME CloseLocal(c) PROVE InboxInvariant'
  BY <1>2, <1>11, ItemsKnown DEF CloseLocal, Answer, logVars
<1> QED BY <1>4, <1>5, <1>6, <1>7, <1>8, <1>9, <1>10, <1>11

(* So does whatever a call commits.                                          *)
LEMMA CommittingCallFits ==
  ASSUME TypeOK, TypeOK', TurnInvariant, InboxInvariant, NEW c \in Caller
  PROVE  ReapSealed(c) \/ BeginStored(c) \/ CallStored(c) => InboxInvariant'
<1> DEFINE k == call[c]
<1>1. ASSUME Commits(k), StoreAnswers(k) = "stored", StoreCommit(PlanOf(k).events, PlanOf(k).next),
             UNCHANGED stalled, NEW rec, Become(c, rec), ItemFits(rec)
      PROVE  InboxInvariant'
  <2> DEFINE plan == PlanOf(k)
  <2>1. plan.events \in SUBSET Event /\ plan.next \in State /\ Snapshot(head, k.inc, k.rev, k.state)
    BY <1>1, PlannedCommit
  <2>2. k.state = head.state
    BY <1>1, <2>1, StoredFromHead DEF StoreAnswers
  <2>3. InboxOf(plan.next, With(plan.events))
    BY <1>1, <2>2, PlanFits
  <2>4. Fitted
    BY <1>1, OneCallFits
  <2> HIDE DEF plan
  <2> QED BY <1>1, <2>1, <2>3, <2>4, CommitInbox DEF plan
<1>2. ASSUME ReapSealed(c) PROVE InboxInvariant'
  <2> DEFINE r == Reaped(head.state, now, k.at, k.ask.over)
  <2>1. Become(c, Idle) /\ UNCHANGED stalled
    BY <1>2 DEF ReapSealed, Answer
  <2>2. Fitted
    BY <2>1, ItemsKnown, OneCallFits
  <2>3. CASE StoreCommit(r.events, r.state)
    <3>1. r.events \in SUBSET Event /\ r.state \in State
      BY HeadType, ReapShape DEF TypeOK, Reaps
    <3>2. InboxOf(r.state, With(r.events))
      BY ReapFits DEF InboxInvariant
    <3>3. StoreCommit(r.events, r.state)
      BY <2>3
    <3> HIDE DEF r
    <3> QED BY <2>2, <3>1, <3>2, <3>3, CommitInbox
  <2>4. CASE UNCHANGED <<head, journal>>
    BY <2>2, <2>4, QuietInbox
  <2>5. StoreCommit(r.events, r.state) \/ UNCHANGED <<head, journal>>
    BY <1>2 DEF ReapSealed, logVars
  <2> QED BY <2>3, <2>4, <2>5
<1>3. ASSUME BeginStored(c) PROVE InboxInvariant'
  <2> DEFINE plan == BeginPlan(k)
             rec == [k EXCEPT !.step = "opened", !.turn = plan.next.turns, !.rev = head.rev + 1,
                              !.state = plan.next, !.reaped = BeginReap(k).closed, !.ask = NoAsk,
                              !.item = NoItem, !.key = NoKey, !.now = 0, !.tries = 0]
  <2>1. /\ Commits(k) /\ k.op = "begin" /\ StoreAnswers(k) = "stored" /\ StoreCommit(plan.events, plan.next)
        /\ Become(c, rec) /\ UNCHANGED stalled
    BY <1>3 DEF BeginStored
  <2>2. PlanOf(k) = plan
    BY <2>1 DEF PlanOf, CloseOp
  <2>3. k \in Call
    BY CallInFlight DEF CallOK
  <2>4. ItemFits(rec)
    <3> HIDE DEF plan
    <3> QED BY <2>3 DEF ItemFits, Call
  <2> HIDE DEF plan, rec
  <2> QED BY <1>1, <2>1, <2>2, <2>4
<1>4. ASSUME CallStored(c) PROVE InboxInvariant'
  <2>1. /\ Commits(k) /\ StoreAnswers(k) = "stored" /\ StoreCommit(PlanOf(k).events, PlanOf(k).next)
        /\ (Become(c, Idle) \/ Become(c, Closing(k))) /\ UNCHANGED stalled
    BY <1>4 DEF CallStored, Answer
  <2> QED BY <1>1, <2>1, ItemsKnown
<1> QED BY <1>2, <1>3, <1>4

(* So does a call that conflicts, finds no session, or fails; a commit the   *)
(* store may still apply fits the head it was planned from.                  *)
LEMMA FailingCallFits ==
  ASSUME TypeOK, TypeOK', TurnInvariant, InboxInvariant, NEW c \in Caller
  PROVE  Conflicted(c) \/ Vanished(c) \/ StoreFailed(c) => InboxInvariant'
<1> DEFINE k == call[c]
<1>1. ASSUME NEW told, GivesUp(c, told), UNCHANGED <<head, journal>>,
             \A s \in stalled' : s \in stalled \/ (StalledFollows(head, s) /\ StalledFits(s))
      PROVE  InboxInvariant'
  <2>1. PICK rec : Become(c, rec) /\ rec \in {Idle, Closing(k), RefusedCall(k, told, 0, FALSE)}
    BY <1>1 DEF GivesUp, Answer
  <2>2. ItemFits(rec)
    BY <2>1, ItemsKnown
  <2>3. Fitted
    BY <1>1, <2>1, <2>2, OneCallFits
  <2> QED BY <1>1, <2>3, QuietInbox
<1>2. ASSUME Conflicted(c) PROVE InboxInvariant'
  <2>1. CASE k.tries + 1 < Retries
    <3> DEFINE again == [k EXCEPT !.tries = @ + 1]
    <3>1. Become(c, Reading(again)) /\ UNCHANGED <<head, journal, stalled>>
      BY <1>2, <2>1 DEF Conflicted, logVars
    <3>2. k \in Call /\ ItemFits(k) /\ k.step = "read"
      BY <1>2, CallInFlight DEF CallOK, InboxInvariant, Conflicted, Commits
    <3>3. again \in Call /\ again.op = k.op /\ again.ask = k.ask /\ again.item = k.item
      BY <3>2 DEF Call
    <3> HIDE DEF again
    <3>4. ItemFits(Reading(again))
      BY <3>2, <3>3, ItemsKnown DEF ItemFits, KnowsItem
    <3> QED BY <3>1, <3>4, QuietCallFits
  <2>2. CASE ~(k.tries + 1 < Retries)
    BY <1>1, <1>2, <2>2 DEF Conflicted, logVars
  <2> QED BY <2>1, <2>2
<1>3. ASSUME Vanished(c) PROVE InboxInvariant'
  BY <1>1, <1>3 DEF Vanished, logVars
<1>4. ASSUME StoreFailed(c) PROVE InboxInvariant'
  <2> DEFINE plan == PlanOf(k)
             s == [rev |-> k.rev, inc |-> k.inc, notAfter |-> NoExpiry, events |-> plan.events, next |-> plan.next]
  <2>1. Commits(k) /\ GivesUp(c, "error") /\ UNCHANGED <<head, journal>> /\ stalled' = stalled \cup {s}
    BY <1>4 DEF StoreFailed, Stall, logVars
  <2>2. Decides(k.state, plan.events, plan.next) /\ Snapshot(head, k.inc, k.rev, k.state)
    BY <2>1, PlannedCommit
  <2>3. StalledFollows(head, s)
    BY <2>2 DEF StalledFollows, Snapshot
  <2>4. StalledFits(s)
    <3>1. IsHead(head, k.inc, k.rev) => InboxOf(plan.next, With(plan.events))
      BY <2>1, <2>2, PlanFits DEF Snapshot
    <3> QED BY <3>1 DEF StalledFits
  <2> HIDE DEF s
  <2> QED BY <1>1, <2>1, <2>3, <2>4
<1> QED BY <1>2, <1>3, <1>4

-----------------------------------------------------------------------------
(* Writers.                                                                  *)

(* Whatever a writer commits keeps the inbox and the journal together.       *)
LEMMA WriterCommitFits ==
  ASSUME TypeOK, TypeOK', TurnInvariant, InboxInvariant, NEW w \in WriterId
  PROVE  /\ Append(w) \/ KeepAlive(w) \/ SealCommit(w) \/ EndCommit(w) => InboxInvariant'
         /\ \A items \in SUBSET Steer : Take(w, items) => InboxInvariant'
<1> DEFINE me == writer[w]
           wrote == Wrote(w.turn)
           taken(items) == Taken(w.turn, items)
<1>1. w.turn \in Nat /\ me.held \in Seal /\ (Writing(w) => me.phase \in Live)
  BY WriterInUse DEF WriterOK, Writer, Writing, Live
<1>2. ASSUME NEW events \in SUBSET Event, NEW next \in State, NEW rec, WriterCommits(w, events, next, rec),
             me.phase \in Live, me.state = head.state => InboxOf(next, With(events))
      PROVE  InboxInvariant'
  <2>1. Snapshot(head, w.inc, me.rev, me.state)
    BY <1>2, WriterDecides
  <2>2. me.state = head.state /\ StoreCommit(events, next) /\ UNCHANGED <<call, stalled>>
    BY <1>2, <2>1, StoredFromHead DEF WriterCommits, WriterAnswer
  <2>3. Fitted
    BY <2>2 DEF Fitted
  <2> QED BY <1>2, <2>2, <2>3, CommitInbox
<1>3. {wrote} \in SUBSET Event /\ \A items \in SUBSET Steer : {taken(items)} \in SUBSET Event
  BY <1>1, EventTypes DEF Event
<1>4. InboxOf(head.state, journal)
  BY DEF InboxInvariant
<1> HIDE DEF wrote, taken
<1>5. ASSUME Append(w) PROVE InboxInvariant'
  <2> DEFINE next == Renewed(me.inst, me.state, FALSE)
             rec == [me EXCEPT !.tried = TRUE]
  <2>1. me.phase \in Live /\ WriterCommits(w, {wrote}, next, rec) /\ next \in State
    BY <1>1, <1>5, WriterDecides DEF Append, wrote
  <2>2. me.state = head.state => InboxOf(next, With({wrote}))
    BY <1>4, <2>1, OwnFits DEF wrote
  <2> HIDE DEF next, rec
  <2> QED BY <1>2, <1>3, <2>1, <2>2
<1>6. ASSUME KeepAlive(w) PROVE InboxInvariant'
  <2> DEFINE next == Renewed(me.inst, me.state, TRUE)
  <2>1. me.phase \in Live /\ WriterCommits(w, {}, next, me) /\ next \in State
    BY <1>6, WriterDecides DEF KeepAlive, Live
  <2>2. me.state = head.state => InboxOf(next, With({}))
    BY <1>4, <2>1, OwnFits
  <2> HIDE DEF next
  <2> QED BY <1>2, <2>1, <2>2
<1>7. ASSUME SealCommit(w) PROVE InboxInvariant'
  <2> DEFINE next == [Renewed(me.inst, me.state, FALSE) EXCEPT !.open.sealed = me.held]
             rec == [me EXCEPT !.sealing = me.held]
  <2>1. me.phase \in Live /\ WriterCommits(w, {}, next, rec) /\ next \in State
    BY <1>1, <1>7, WriterDecides DEF SealCommit
  <2>2. me.state = head.state => InboxOf(next, With({}))
    BY <1>4, <2>1, OwnFits
  <2> HIDE DEF next, rec
  <2> QED BY <1>2, <2>1, <2>2
<1>8. ASSUME EndCommit(w) PROVE InboxInvariant'
  <2> DEFINE rec == Stop(me, "Ended", "none")
  <2>1. me.phase \in Live /\ WriterCommits(w, EndEvents(w), EndState(w), rec) /\ me.phase = "Ending"
    BY <1>8 DEF EndCommit, Live
  <2>2. EndEvents(w) \in SUBSET Event /\ EndState(w) \in State
    BY <2>1, EndShape
  <2>3. me.state = head.state => InboxOf(EndState(w), With(EndEvents(w)))
    BY <1>4, <2>1, OwnFits
  <2> HIDE DEF rec
  <2> QED BY <1>2, <2>1, <2>2, <2>3
<1>9. ASSUME NEW items \in SUBSET Steer, Take(w, items) PROVE InboxInvariant'
  <2> DEFINE next == Renewed(me.inst, WithoutItems(me.state, items), FALSE)
             rec == [me EXCEPT !.tried = TRUE]
  <2>1. me.phase \in Live /\ WriterCommits(w, {taken(items)}, next, rec) /\ next \in State
    BY <1>1, <1>9, WriterDecides DEF Take, taken
  <2>2. items \in SUBSET (PendingOf(me.state) \cap Steer)
    BY <1>9 DEF Take
  <2>3. me.state = head.state => InboxOf(next, With({taken(items)}))
    BY <1>4, <2>1, <2>2, OwnFits DEF taken
  <2> HIDE DEF next, rec
  <2> QED BY <1>2, <1>3, <2>1, <2>3
<1> QED BY <1>5, <1>6, <1>7, <1>8, <1>9

(* So does a write that fails, whose commit the store may still apply.       *)
LEMMA WriteFailsFits ==
  ASSUME TypeOK, TypeOK', TurnInvariant, InboxInvariant, NEW w \in WriterId, WriteFails(w)
  PROVE  InboxInvariant'
<1> DEFINE me == writer[w]
           next == Renewed(me.inst, me.state, FALSE)
           sealing == [next EXCEPT !.open.sealed = me.held]
           wrote == Wrote(w.turn)
<1>1. me.phase \in Live /\ UNCHANGED <<head, journal, call>>
  BY DEF WriteFails, logVars
<1>2. Snapshot(head, w.inc, me.rev, me.state)
  BY <1>1, WriterDecides
<1>3. ASSUME NEW events, NEW after, Decides(me.state, events, after), Stall(me.rev, w.inc, NotAfter(w), events, after),
             me.state = head.state => InboxOf(after, With(events))
      PROVE  InboxInvariant'
  <2> DEFINE s == [rev |-> me.rev, inc |-> w.inc, notAfter |-> NotAfter(w), events |-> events, next |-> after]
  <2>1. StalledFollows(head, s)
    BY <1>2, <1>3 DEF StalledFollows, Snapshot
  <2>2. StalledFits(s)
    BY <1>2, <1>3 DEF StalledFits, Snapshot
  <2>3. stalled' = stalled \cup {s}
    BY <1>3 DEF Stall
  <2> HIDE DEF s
  <2>4. Fitted
    BY <1>1, <2>1, <2>2, <2>3 DEF Fitted
  <2> QED BY <1>1, <2>4, QuietInbox
<1>4. /\ Decides(me.state, {wrote}, next) /\ Decides(me.state, {}, sealing)
      /\ me.phase = "Ending" => Decides(me.state, EndEvents(w), EndState(w))
  BY <1>1, WriterDecides
<1>5. me.state = head.state => /\ InboxOf(next, With({wrote})) /\ InboxOf(sealing, With({}))
                               /\ me.phase = "Ending" => InboxOf(EndState(w), With(EndEvents(w)))
  <2>1. InboxOf(head.state, journal)
    BY DEF InboxInvariant
  <2> QED BY <1>1, <2>1, OwnFits
<1>6. \/ Stall(me.rev, w.inc, NotAfter(w), {wrote}, next)
      \/ Stall(me.rev, w.inc, NotAfter(w), {}, sealing)
      \/ me.phase = "Ending" /\ Stall(me.rev, w.inc, NotAfter(w), EndEvents(w), EndState(w))
  BY DEF WriteFails
<1> HIDE DEF next, sealing, wrote
<1> QED BY <1>3, <1>4, <1>5, <1>6

(* A step that leaves the log, the calls and what stalled alone.             *)
LEMMA AsideFits ==
  ASSUME TypeOK, TypeOK', TurnInvariant, InboxInvariant, UNCHANGED <<head, journal, call, stalled>>
  PROVE  InboxInvariant'
<1>1. Fitted
  BY DEF Fitted
<1> QED BY <1>1, QuietInbox

(* So do a writer's steps beside the log.                                    *)
LEMMA WriterLocalFits ==
  ASSUME TypeOK, TypeOK', TurnInvariant, InboxInvariant, NEW w \in WriterId
  PROVE  /\ SealApply(w) \/ Learns(w) \/ Contends(w) \/ ScopeDone(w) => InboxInvariant'
         /\ \A reply \in Replies : Hold(w, reply) => InboxInvariant'
         /\ \A ending \in Endings : End(w, ending) => InboxInvariant'
         /\ \A unended \in Unended : ScopeCloses(w, unended) => InboxInvariant'
<1>1. SealApply(w) \/ Learns(w) \/ Contends(w) \/ ScopeDone(w) => UNCHANGED <<head, journal, call, stalled>>
  BY DEF SealApply, Learns, Contends, ScopeDone, logVars
<1>2. \A reply \in Replies : Hold(w, reply) => UNCHANGED <<head, journal, call, stalled>>
  BY DEF Hold, logVars
<1>3. \A ending, scope : BeginEnd(w, ending, scope) => UNCHANGED <<head, journal, call, stalled>>
  BY DEF BeginEnd, logVars
<1>4. \A unended \in Unended : ScopeCloses(w, unended) => UNCHANGED <<head, journal, call, stalled>>
  BY <1>3 DEF ScopeCloses, logVars
<1> QED BY <1>1, <1>2, <1>3, <1>4, AsideFits DEF End

-----------------------------------------------------------------------------
(* Shutdown, crashes, the session's own life, the store and the clock.       *)

(* A commit the store applies late fits the head, or it is not applied.      *)
LEMMA LandFits ==
  ASSUME TypeOK, TypeOK', TurnInvariant, InboxInvariant, NEW s \in stalled, Land(s)
  PROVE  InboxInvariant'
<1>1. StoreCommit(s.events, s.next) /\ stalled' \subseteq stalled /\ UNCHANGED call /\ IsHead(head, s.inc, s.rev)
  BY DEF Land, CommitAnswer, IsHead
<1>2. s.events \in SUBSET Event /\ s.next \in State
  BY DEF TypeOK, FaultsOK, Stalled
<1>3. InboxOf(s.next, With(s.events))
  BY <1>1 DEF InboxInvariant
<1>4. Fitted
  BY <1>1 DEF Fitted
<1> QED BY <1>1, <1>2, <1>3, <1>4, CommitInbox

(* So do the rest of the steps; a removal, where no begin carries an item    *)
(* across it.                                                                *)
LEMMA EnvironmentFits ==
  ASSUME ResumesStay, TypeOK, TypeOK', TurnInvariant, InboxInvariant
  PROVE  /\ \A i \in Instance : ShutdownRefuses(i) \/ ShutdownInterrupts(i) \/ Crash(i) \/ Remove(i) => InboxInvariant'
         /\ Create \/ Time => InboxInvariant'
<1>1. ASSUME NEW i \in Instance, ShutdownRefuses(i) \/ ShutdownInterrupts(i) PROVE InboxInvariant'
  <2>1. UNCHANGED <<head, journal, call, stalled>>
    BY <1>1 DEF ShutdownRefuses, ShutdownInterrupts, logVars
  <2> QED BY <2>1, AsideFits
<1>2. ASSUME NEW i \in Instance, Crash(i) PROVE InboxInvariant'
  <2>1. UNCHANGED <<head, journal, stalled>>
    BY <1>2 DEF Crash, logVars
  <2>2. Fitted
    BY <1>2, <2>1, ItemsKnown DEF Crash, Fitted
  <2> QED BY <2>1, <2>2, QuietInbox
<1>3. ASSUME NEW i \in Instance, Remove(i) PROVE InboxInvariant'
  <2>1. RemoveSession(InitialState) /\ UNCHANGED <<call, stalled>> /\ "remove" \in Faults
    BY <1>3 DEF Remove, Fault
  <2>2. Fitted /\ journal' = {} /\ \A ask \in Ask : ask.resumes = 0
    BY <2>1 DEF Fitted, RemoveSession, ResumesStay
  <2> QED BY <2>1, <2>2, EmptiedInbox
<1>4. ASSUME Create PROVE InboxInvariant'
  <2>1. CreateSession(InitialState) /\ UNCHANGED <<call, stalled>>
    BY <1>4 DEF Create, local
  <2>2. Fitted /\ journal = {} /\ journal' = {}
    BY <2>1 DEF Fitted, CreateSession, TurnInvariant
  <2> QED BY <2>1, <2>2, EmptiedInbox
<1>5. ASSUME Time PROVE InboxInvariant'
  <2>1. UNCHANGED <<head, journal, call, stalled>>
    BY <1>5 DEF Time, Tick, local
  <2> QED BY <2>1, AsideFits
<1> QED BY <1>1, <1>2, <1>3, <1>4, <1>5

-----------------------------------------------------------------------------
(* The inbox and the journal agree, and three properties follow.             *)

(* They agree initially.                                                     *)
LEMMA InitInbox == Init => InboxInvariant
<1> SUFFICES ASSUME Init PROVE InboxInvariant
  OBVIOUS
<1>1. head.state = InitialState /\ journal = {} /\ stalled = {}
  BY DEF Init
<1>2. \A c \in Caller : ItemFits(call[c])
  BY ItemsKnown DEF Init
<1> QED BY <1>1, <1>2, EmptyInbox DEF InboxInvariant

(* Every step keeps them so.                                                 *)
LEMMA NextInbox ==
  ASSUME ResumesStay
  PROVE  TypeOK /\ TypeOK' /\ TurnInvariant /\ InboxInvariant /\ [Next]_vars => InboxInvariant'
<1> SUFFICES ASSUME TypeOK, TypeOK', TurnInvariant, InboxInvariant, [Next]_vars PROVE InboxInvariant'
  OBVIOUS
<1>1. ASSUME NEW c \in Caller, CallStep(c) \/ StoreFailed(c) \/ BeginCut(c) PROVE InboxInvariant'
  BY <1>1, LocalCallFits, CommittingCallFits, FailingCallFits DEF CallStep
<1>2. ASSUME NEW c \in Caller, NEW i \in Instance,
             \/ \E ask \in Ask : AskBegin(c, i, ask)
             \/ \E turn \in CancelTurns : AskCancel(c, i, turn)
             \/ \E item \in Delivers : AskDeliver(c, i, item)
             \/ \E tx \in Tx : AskTransact(c, i, tx)
             \/ ShutdownCloses(c, i)
      PROVE  InboxInvariant'
  BY <1>2, CallInFits, CloseAskedFits
<1>3. ASSUME NEW c \in Caller, NEW w \in WriterId, AskTimeLimit(c, w) PROVE InboxInvariant'
  BY <1>3, CloseAskedFits
<1>4. ASSUME NEW w \in WriterId, WriterStep(w) \/ WriteFails(w) PROVE InboxInvariant'
  BY <1>4, WriterCommitFits, WriterLocalFits, WriteFailsFits DEF WriterStep
<1>5. ASSUME \/ \E i \in Instance : ShutdownRefuses(i) \/ ShutdownInterrupts(i) \/ Crash(i) \/ Remove(i)
             \/ \E s \in stalled : Land(s)
             \/ Create \/ Time
      PROVE  InboxInvariant'
  BY <1>5, EnvironmentFits, LandFits
<1>6. CASE UNCHANGED vars
  BY <1>6, AsideFits DEF vars
<1> QED BY <1>1, <1>2, <1>3, <1>4, <1>5, <1>6 DEF Next

(* InboxInvariant holds of every session whose begins carry no item across a *)
(* removal: the inbox of the head, and of every commit that may still be     *)
(* stored, says of each item what the journal with it says.                  *)
THEOREM InboxHolds ==
  ASSUME ResumesStay PROVE Spec => []InboxInvariant
<1>1. TypeOK /\ TypeOK' /\ TurnInvariant /\ InboxInvariant /\ [Next]_vars => InboxInvariant'
  BY NextInbox
<1> QED BY <1>1, InitInbox, TypeCorrect, TurnsFollowTheHead, PTL DEF Spec

(* No item is lost and none comes back: an item waits, or is the open turn's,*)
(* exactly until the journal says it was answered, taken or dropped.         *)
THEOREM InboxAgrees ==
  ASSUME ResumesStay PROVE Spec => []InboxAgreesWithJournal
<1>1. InboxInvariant => InboxAgreesWithJournal
  BY DEF InboxInvariant, InboxOf, ItemOf, InboxAgreesWithJournal
<1> QED BY <1>1, InboxHolds, PTL

(* An input is answered by one turn, but by a user who resumes.              *)
THEOREM InputsAreAnsweredOnce ==
  ASSUME ResumesStay PROVE Spec => []InputsAnsweredOnce
<1>1. InboxInvariant => InputsAnsweredOnce
  BY DEF InboxInvariant, InboxOf, ItemOf, InputsAnsweredOnce, Item
<1> QED BY <1>1, InboxHolds, PTL

(* A notice is dropped only after enough turns took it and stopped on it.    *)
THEOREM DropsAreLate ==
  ASSUME ResumesStay PROVE Spec => []DropsAreEarned
<1>1. InboxInvariant => DropsAreEarned
  BY DEF InboxInvariant, InboxOf, ItemOf, DropsAreEarned, Item
<1> QED BY <1>1, InboxHolds, PTL

-----------------------------------------------------------------------------
(* What an instance keeps beside the log: that it finds the writer of the    *)
(* open turn, and lets none go that it still has.                            *)

(* The open turn stays, closes, or the next one opens.                       *)
HeadMoves ==
  /\ OneLife'
  /\ head'.state.turns \in Nat /\ head.state.turns <= head'.state.turns
  /\ \/ OpenPair' = OpenPair
     \/ ~IsOpen(head'.state)
     \/ head'.state.open.turn = head.state.turns + 1 /\ head'.state.turns = head.state.turns + 1

(* Writers go on or stop; none begins.                                       *)
WritersCalm ==
  \A w \in WriterId :
    /\ writer[w].phase = "None" => writer'[w] = writer[w]
    /\ writer[w].phase # "None" => writer'[w].phase # "None"
    /\ writer'[w].phase \in Live => writer[w].phase \in Live /\ writer'[w].inst = writer[w].inst

(* An instance forgets no writer of the open turn, and lets that turn go     *)
(* only where none writes it.                                                *)
MapsCalm ==
  /\ \A i \in Instance : registered'[i] \in {registered[i], NoWriter}
  /\ \A w \in WriterId : WritesOpen(w)' => registered'[writer[w].inst] = registered[writer[w].inst]
  /\ \A i \in Instance : OpenPair' \in released'[i] => OpenPair' \in released[i] \/ NoneWrites(i)'

(* No sweep passes a writer of the open turn by.                             *)
SweepCalm ==
  \A w \in WriterId : WritesOpen(w)' /\ Swept(writer[w].inst)' =>
    Swept(writer'[w].inst) \/ \E c \in Caller : Covers(call'[c], writer'[w].inst, w.turn)

(* A call stays, or becomes one that has no turn to hand over but its own,   *)
(* covers what it covered as long as that is needed, and if it was closing   *)
(* its instance's writer of the open turn, has done so.                      *)
Leaves(c) ==
  /\ call[c].step = "closing"
  /\ \E w \in WriterId : WritesOpen(w)' /\ writer'[w].inst = call[c].at /\ w.turn = call[c].turn
CallCalm(c) ==
  \/ call'[c] = call[c]
  \/ /\ KnowsTurn(call[c])'
     /\ call'[c].step # "opened" /\ ~Leaves(c)
     /\ IsUnhanded(call'[c]) => IsUnhanded(call[c]) /\ call'[c].turn = call[c].turn
     /\ \A w \in WriterId :
          WritesOpen(w)' /\ Swept(writer[w].inst)' /\ Covers(call[c], writer'[w].inst, w.turn)
            => Covers(call'[c], writer'[w].inst, w.turn)

Calm == WritersCalm /\ MapsCalm /\ SweepCalm /\ \A c \in Caller : CallCalm(c)

(* Turns are numbers, and a writer's is not 0.                               *)
LEMMA TurnNumbers ==
  ASSUME TypeOK
  PROVE  /\ head.state.turns \in Nat /\ head.state.open.turn \in Nat
         /\ \A w \in WriterId : w.turn \in Nat \ {0} /\ w.inc \in Nat
         /\ \A c \in Caller : call[c].turn \in Nat
         /\ \A i \in Instance : registered[i] # NoWriter => registered[i] \in WriterId
<1>1. head.state \in State /\ \A w \in WriterId : w.turn \in Nat \ {0} /\ w.inc \in Nat
  BY HeadType, WriterInUse DEF TypeOK
<1>2. \A c \in Caller : call[c].turn \in Nat
  BY CallInFlight DEF CallOK, Call
<1> QED BY <1>1, <1>2 DEF State, OpenTurn, TypeOK, InstancesOK

(* What writers do calmly hands nothing over, and a writer of the open turn  *)
(* was its writer before.                                                    *)
LEMMA OpenWritersWere ==
  ASSUME TypeOK, WritersAreKnown, HeadMoves, WritersCalm
  PROVE  /\ \A n : HandedOver(n)' <=> HandedOver(n)
         /\ \A w \in WriterId : WritesOpen(w)' =>
              WritesOpen(w) /\ writer'[w].inst = writer[w].inst /\ OpenPair' = OpenPair
<1>1. \A n : HandedOver(n)' <=> HandedOver(n)
  BY DEF HandedOver, WritersCalm
<1>2. ASSUME NEW w \in WriterId, WritesOpen(w)'
      PROVE  WritesOpen(w) /\ writer'[w].inst = writer[w].inst /\ OpenPair' = OpenPair
  <2>1. writer[w].phase \in Live /\ writer'[w].inst = writer[w].inst /\ w.turn = head'.state.open.turn
    BY <1>2 DEF WritesOpen, WritersCalm
  <2>2. w.turn \in 1..head.state.turns
    BY <2>1 DEF WritersAreKnown, Live
  <2>3. OpenPair' = OpenPair
    BY <2>1, <2>2, TurnNumbers DEF HeadMoves, IsOpen
  <2> QED BY <2>1, <2>3 DEF OpenPair, WritesOpen
<1> QED BY <1>1, <1>2

(* A call that stays knows its turn still.                                   *)
LEMMA KnowsStill ==
  ASSUME TypeOK, WritersAreKnown, HeadMoves, WritersCalm, NEW c \in Caller,
         KnowsTurn(call[c]), call'[c] = call[c]
  PROVE  KnowsTurn(call[c])'
<1> DEFINE k == call[c]
<1>1. \A n : HandedOver(n)' <=> HandedOver(n)
  BY OpenWritersWere
<1>2. IsUnhanded(k) => k.turn \in 1..head'.state.turns /\ ~HandedOver(k.turn)'
  <2>1. k.turn \in 1..head.state.turns => k.turn \in 1..head'.state.turns
    BY TurnNumbers DEF HeadMoves
  <2> QED BY <1>1, <2>1 DEF KnowsTurn
<1>3. IsHanded(k) => k.turn \in 1..head'.state.turns /\ HandedOver(k.turn)'
  <2>1. k.turn \in 1..head.state.turns => k.turn \in 1..head'.state.turns
    BY TurnNumbers DEF HeadMoves
  <2> QED BY <1>1, <2>1 DEF KnowsTurn
<1>4. ClosesHanded(k) /\ k.step = "read" /\ k.state.open.turn # k.turn => head'.state.open.turn # k.turn
  <2> SUFFICES ASSUME ClosesHanded(k), k.step = "read", k.state.open.turn # k.turn PROVE head'.state.open.turn # k.turn
    OBVIOUS
  <2>1. k.turn \in 1..head.state.turns /\ head.state.open.turn # k.turn
    BY DEF KnowsTurn, IsHanded
  <2> QED BY <2>1, TurnNumbers DEF HeadMoves, IsOpen, OpenPair
<1> QED BY <1>2, <1>3, <1>4 DEF KnowsTurn, IsHanded, IsUnhanded, HandedOver, ClosesHanded

(* A calm step keeps the invariant.                                          *)
LEMMA CalmKeeps ==
  ASSUME TypeOK, HandoverInvariant, HeadMoves, Calm
  PROVE  HandoverInvariant'
<1>1. WritersAreKnown /\ CallsAreKnown /\ WritersCalm
  BY DEF HandoverInvariant, Calm
<1>2. \A w \in WriterId : WritesOpen(w)' =>
         WritesOpen(w) /\ writer'[w].inst = writer[w].inst /\ OpenPair' = OpenPair
  BY <1>1, OpenWritersWere
<1>3. WritersAreKnown'
  <2>1. ASSUME NEW w \in WriterId
        PROVE  IF writer'[w].phase = "None" THEN writer'[w] = NoHold
               ELSE w.inc = 1 /\ w.turn \in 1..head'.state.turns
    <3>1. CASE writer[w].phase = "None"
      <4>1. writer[w] = NoHold /\ writer'[w] = writer[w]
        BY <1>1, <3>1 DEF WritersAreKnown, WritersCalm
      <4> QED BY <3>1, <4>1
    <3>2. CASE writer[w].phase # "None"
      <4>1. w.inc = 1 /\ w.turn \in 1..head.state.turns /\ writer'[w].phase # "None"
        BY <1>1, <3>2 DEF WritersAreKnown, WritersCalm
      <4> QED BY <4>1, TurnNumbers DEF HeadMoves
    <3> QED BY <3>1, <3>2
  <2>2. ASSUME NEW i \in Instance, registered'[i] # NoWriter PROVE writer'[registered'[i]].phase # "None"
    <3>1. registered'[i] = registered[i] /\ registered[i] \in WriterId /\ writer[registered[i]].phase # "None"
      BY <1>1, <2>2, TurnNumbers DEF Calm, MapsCalm, WritersAreKnown
    <3> QED BY <1>1, <3>1 DEF WritersCalm
  <2> QED BY <2>1, <2>2 DEF WritersAreKnown
<1>4. CallsAreKnown'
  <2>1. \A c \in Caller : KnowsTurn(call[c])'
    BY <1>1, KnowsStill DEF CallsAreKnown, Calm, CallCalm
  <2>2. \A c \in Caller : IsUnhanded(call'[c]) => IsUnhanded(call[c]) /\ call'[c].turn = call[c].turn
    BY DEF Calm, CallCalm
  <2> QED BY <1>1, <2>1, <2>2 DEF CallsAreKnown, IsUnhanded
<1>5. LiveAreRegistered'
  BY <1>2 DEF HandoverInvariant, LiveAreRegistered, Calm, MapsCalm
<1>6. LetGoIsOver'
  <2> SUFFICES ASSUME NEW i \in Instance, OpenPair' \in released'[i], OpenPair' \in released[i] PROVE NoneWrites(i)'
    BY DEF LetGoIsOver, Calm, MapsCalm
  <2>1. OpenPair' = OpenPair => NoneWrites(i)
    BY DEF HandoverInvariant, LetGoIsOver
  <2>2. ASSUME NEW w \in WriterId, WritesOpen(w)', writer'[w].inst = i
        PROVE  \E c \in Caller : IsClosing(call[c], i)'
    <3>1. WritesOpen(w) /\ writer[w].inst = i /\ OpenPair' = OpenPair
      BY <1>2, <2>2
    <3>2. PICK c \in Caller : IsClosing(call[c], i)
      BY <2>1, <3>1 DEF NoneWrites
    <3>3. call[c].step = "closing" /\ call[c].at = i /\ call[c].turn = w.turn
      BY <3>1, <3>2 DEF IsClosing, WritesOpen
    <3>4. call'[c] = call[c]
      BY <2>2, <3>3 DEF Calm, CallCalm, Leaves
    <3>5. head'.state.open.turn = head.state.open.turn
      BY <3>1 DEF OpenPair
    <3> QED BY <3>2, <3>4, <3>5 DEF IsClosing
  <2>3. ASSUME NEW c \in Caller, call'[c].step = "opened", call'[c].at = i PROVE call'[c].turn # head'.state.open.turn
    <3>1. call'[c] = call[c]
      BY <2>3 DEF Calm, CallCalm
    <3>2. call[c].turn \in 1..head.state.turns
      BY <1>1, <2>3, <3>1 DEF CallsAreKnown, KnowsTurn, IsUnhanded
    <3>3. CASE OpenPair' = OpenPair
      BY <2>1, <2>3, <3>1, <3>3 DEF NoneWrites, OpenPair
    <3>4. CASE OpenPair' # OpenPair
      BY <3>1, <3>2, <3>4, TurnNumbers DEF HeadMoves, IsOpen
    <3> QED BY <3>3, <3>4
  <2> QED BY <2>2, <2>3 DEF NoneWrites
<1>7. SweptAreCovered'
  <2> SUFFICES ASSUME NEW w \in WriterId, WritesOpen(w)', Swept(writer[w].inst)'
               PROVE  \E c \in Caller : Covers(call'[c], writer'[w].inst, w.turn)
    BY DEF SweptAreCovered, Covers
  <2>1. WritesOpen(w) /\ writer'[w].inst = writer[w].inst
    BY <1>2
  <2>2. CASE Swept(writer'[w].inst)
    <3>1. PICK c \in Caller : Covers(call[c], writer[w].inst, w.turn)
      BY <2>1, <2>2 DEF HandoverInvariant, SweptAreCovered
    <3>2. Covers(call'[c], writer'[w].inst, w.turn)
      BY <2>1, <3>1 DEF Calm, CallCalm
    <3> QED BY <3>2
  <2> QED BY <2>2 DEF Calm, SweepCalm
<1> QED BY <1>3, <1>4, <1>5, <1>6, <1>7 DEF HandoverInvariant, HeadMoves

-----------------------------------------------------------------------------
(* What is calm.                                                             *)

(* A step that commits, or leaves the head, moves it so.                     *)
LEMMA HeadStays ==
  ASSUME TypeOK, TurnInvariant, TurnsStep, OneLife,
         UNCHANGED head \/ \E events, next : StoreCommit(events, next)
  PROVE  HeadMoves
<1>1. CASE UNCHANGED head
  BY <1>1, TurnNumbers DEF HeadMoves, OneLife, OpenPair
<1>2. CASE \E events, next : StoreCommit(events, next)
  <2>1. head'.present /\ head'.inc = 1 /\ head'.rev = head.rev + 1 /\ head.rev \in Nat
    BY <1>2, HeadType DEF StoreCommit, OneLife, TypeOK
  <2>2. PICK events \in SUBSET Event, next \in State : Decides(head.state, events, next) /\ StoreCommit(events, next)
    <3>1. head' # head
      BY <2>1
    <3>2. ~CreateSession(InitialState)
      BY DEF CreateSession, OneLife
    <3>3. ~RemoveSession(InitialState)
      BY <2>1, HeadType DEF RemoveSession, TypeOK
    <3> QED BY <3>1, <3>2, <3>3 DEF TurnsStep, DecidedStep
  <2>3. head'.state = next /\ next.turns \in Nat
    BY <2>2, HeadType DEF StoreCommit, TypeOK, State
  <2>4. CASE \E e \in events : e.kind = "turn.started"
    BY <2>1, <2>2, <2>3, <2>4, TurnNumbers DEF Decides, HeadMoves, OneLife
  <2>5. CASE \A e \in events : e.kind # "turn.started"
    BY <2>1, <2>2, <2>3, <2>5, TurnNumbers DEF Decides, HeadMoves, OneLife, OpenPair
  <2> QED BY <2>4, <2>5
<1> QED BY <1>1, <1>2

(* A writer that changes goes on or stops.                                   *)
LEMMA OneWriterCalm ==
  ASSUME TypeOK, NEW w \in WriterId, NEW rec, writer' = [writer EXCEPT ![w] = rec],
         writer[w].phase # "None", rec.phase # "None",
         rec.phase \in Live => writer[w].phase \in Live /\ rec.inst = writer[w].inst
  PROVE  WritersCalm
<1>1. \A v \in WriterId : writer'[v] = IF v = w THEN rec ELSE writer[v]
  BY DEF TypeOK, WritersOK
<1> QED BY <1>1 DEF WritersCalm

(* Closing a writer from its instance stops it, if it is in its map.         *)
LEMMA ClosedLocallyCalm ==
  ASSUME TypeOK, WritersAreKnown, NEW i \in Instance, NEW turn, NEW told, writer' = ClosedLocally(i, turn, told)
  PROVE  /\ WritersCalm
         /\ \A w \in WriterId : registered[i] = w /\ w.turn = turn => writer'[w].phase \notin Live
<1> DEFINE r == registered[i]
<1>1. \A w : Stopped(writer[w], told) = writer[w]
             \/ (writer[w].phase \in Live /\ Stopped(writer[w], told).phase = "Closed")
  BY DEF Stopped, Stop, NoHold
<1>2. \A w : Stopped(writer[w], told).phase \notin Live
  BY DEF Stopped, Stop, NoHold, Live
<1>3. CASE turn # 0 /\ r.turn = turn
  <2>1. \A w \in WriterId : writer'[w] = IF w = r THEN Stopped(writer[w], told) ELSE writer[w]
    BY <1>3 DEF ClosedLocally, TypeOK, WritersOK
  <2>2. WritersCalm
    <3> HIDE DEF r
    <3> QED BY <1>1, <2>1 DEF WritersCalm, Live
  <2> HIDE DEF r
  <2> QED BY <1>2, <2>1, <2>2 DEF r
<1>4. CASE ~(turn # 0 /\ r.turn = turn)
  <2>1. writer' = writer
    BY <1>4 DEF ClosedLocally
  <2>2. \A w \in WriterId : ~(r = w /\ w.turn = turn)
    BY <1>4, TurnNumbers
  <2> QED BY <2>1, <2>2 DEF WritersCalm
<1> QED BY <1>3, <1>4

(* What a call knows of its turn before it reads the head.                   *)
AsksKnown(k) ==
  /\ k.op = "unhanded" => k.turn \in 1..head.state.turns /\ ~HandedOver(k.turn)
  /\ ClosesHanded(k) => k.turn \in 1..head.state.turns /\ HandedOver(k.turn)

(* A call that has no turn to hand over and closes none but here.            *)
Plain(k) ==
  /\ k.op # "unhanded" /\ (k.op \in {"time-limit", "shutdown"} => k.step = "closing") /\ k.step \notin {"opened", "handed", "await"}
  /\ k.step = "idle" => k.op = "none"
  /\ k.step = "refused" => k.op = "begin"

LEMMA PlainCalls ==
  /\ \A k : Plain(k) => ~IsUnhanded(k) /\ KnowsTurn(k)
  /\ Plain(Idle)
  /\ \A k, told, turn, open : k.op = "begin" => Plain(RefusedCall(k, told, turn, open))
  /\ \A k : k.op \in CloseOp => Plain(Closing(k))
<1>1. \A k : Plain(k) => ~IsUnhanded(k) /\ KnowsTurn(k)
  BY DEF Plain, IsUnhanded, KnowsTurn, ClosesHanded, IsHanded
<1>2. Plain(Idle)
  BY DEF Plain, Idle
<1>3. \A k, told, turn, open : k.op = "begin" => Plain(RefusedCall(k, told, turn, open))
  BY DEF Plain, RefusedCall, Idle
<1>4. \A k : k.op \in CloseOp => Plain(Closing(k))
  BY DEF Plain, Closing, Idle, CloseOp
<1> QED BY <1>1, <1>2, <1>3, <1>4

(* A call that reads the head knows its turn as it did.                      *)
LEMMA ReadingKnows ==
  ASSUME OneLife, NEW k \in Call, AsksKnown(k), k.op \in {"time-limit", "shutdown"} => k.step # "closing"
  PROVE  /\ KnowsTurn(Reading(k)) /\ Reading(k).step \in {"read", "refused"}
         /\ Reading(k).op = k.op /\ Reading(k).turn = k.turn /\ Reading(k).at = k.at
         /\ Plain([k EXCEPT !.step = "read"]) => Plain(Reading(k))
<1>1. CASE k.op = "begin" /\ stopping[k.at] # "running"
  <2>1. Reading(k) = [k EXCEPT !.step = "refused", !.told = "stopping"]
    BY <1>1 DEF Reading, OneLife
  <2>2. /\ Reading(k).step = "refused" /\ Reading(k).op = k.op
        /\ Reading(k).turn = k.turn /\ Reading(k).at = k.at
    BY <2>1 DEF Call
  <2>3. Plain(Reading(k))
    BY <1>1, <2>2 DEF Plain
  <2> QED BY <2>2, <2>3, PlainCalls
<1>2. CASE ~(k.op = "begin" /\ stopping[k.at] # "running")
  <2>1. Reading(k) = [k EXCEPT !.step = "read", !.inc = head.inc, !.rev = head.rev, !.state = head.state, !.now = now]
    BY <1>2 DEF Reading, OneLife
  <2>2. /\ Reading(k).step = "read" /\ Reading(k).op = k.op /\ Reading(k).state = head.state
        /\ Reading(k).turn = k.turn /\ Reading(k).at = k.at /\ [k EXCEPT !.step = "read"].op = k.op
    BY <2>1 DEF Call
  <2>3. KnowsTurn(Reading(k))
    <3> DEFINE r == Reading(k)
    <3>1. (IsUnhanded(r) => k.op = "unhanded") /\ (IsHanded(r) => ClosesHanded(k))
      BY <2>2 DEF IsUnhanded, IsHanded, ClosesHanded
    <3> HIDE DEF r
    <3> QED BY <2>2, <3>1 DEF KnowsTurn, AsksKnown, r
  <2>4. Plain([k EXCEPT !.step = "read"]) => Plain(Reading(k))
    BY <2>2 DEF Plain
  <2> QED BY <2>2, <2>3, <2>4
<1> QED BY <1>1, <1>2

(* A call that becomes another knows its turn if that one does now.          *)
LEMMA KnowsAfter ==
  ASSUME NEW c \in Caller, NEW rec, call'[c] = rec, \A n : HandedOver(n)' <=> HandedOver(n),
         Plain(rec) \/ (KnowsTurn(rec) /\ UNCHANGED head)
  PROVE  KnowsTurn(call[c])'
<1>1. CASE Plain(rec)
  BY <1>1 DEF Plain, KnowsTurn, IsUnhanded, IsHanded, ClosesHanded
<1>2. CASE KnowsTurn(rec) /\ UNCHANGED head
  <2>1. HandedOver(rec.turn)' <=> HandedOver(rec.turn)
    OBVIOUS
  <2>2. HandedOver(call[c].turn)' <=> HandedOver(rec.turn)
    BY <2>1 DEF HandedOver
  <2> QED BY <1>2, <2>2 DEF KnowsTurn, IsUnhanded, IsHanded, ClosesHanded
<1> QED BY <1>1, <1>2

(* What a step makes of one call, calmly: it knows its turn, and covers what *)
(* it covered as long as that is needed.                                     *)
Needed(c) ==
  \E w \in WriterId : WritesOpen(w)' /\ Swept(writer[w].inst)' /\ Covers(call[c], writer'[w].inst, w.turn)

LEMMA OneCallCalm ==
  ASSUME TypeOK, NEW c \in Caller, NEW rec, Become(c, rec), \A n : HandedOver(n)' <=> HandedOver(n),
         Plain(rec) \/ (KnowsTurn(rec) /\ UNCHANGED head), rec.step # "opened",
         IsUnhanded(rec) => IsUnhanded(call[c]) /\ rec.turn = call[c].turn,
         ~Leaves(c),
         Needed(c) => rec.at = call[c].at /\ rec.turn = call[c].turn /\ (rec.step = "handed" \/ rec.op = "shutdown")
  PROVE  \A d \in Caller : CallCalm(d)
<1>1. call'[c] = rec /\ \A d \in Caller : d # c => call'[d] = call[d]
  BY DEF Become, TypeOK, CallsOK
<1>2. KnowsTurn(call[c])'
  BY <1>1, KnowsAfter
<1>3. CallCalm(c)
  <2>1. ASSUME NEW w \in WriterId, WritesOpen(w)', Swept(writer[w].inst)', Covers(call[c], writer'[w].inst, w.turn)
        PROVE  Covers(call'[c], writer'[w].inst, w.turn)
    <3>1. Needed(c)
      BY <2>1 DEF Needed
    <3> QED BY <1>1, <2>1, <3>1 DEF Covers
  <2> QED BY <1>1, <1>2, <2>1 DEF CallCalm
<1> QED BY <1>1, <1>3 DEF CallCalm

(* Calls and writers that change beside the head keep the invariant.         *)
LEMMA AsideKeeps ==
  ASSUME TypeOK, HandoverInvariant, UNCHANGED <<head, registered, released, stopping, alive>>, WritersCalm,
         \A c \in Caller : CallCalm(c)
  PROVE  HandoverInvariant'
<1>1. HeadMoves
  BY TurnNumbers DEF HeadMoves, OpenPair, HandoverInvariant, OneLife
<1>2. \A w \in WriterId : WritesOpen(w)' => writer'[w].inst = writer[w].inst
  BY DEF WritesOpen, WritersCalm
<1>3. MapsCalm
  BY <1>2 DEF MapsCalm, OpenPair
<1>4. SweepCalm
  BY DEF SweepCalm, Swept
<1> QED BY <1>1, <1>3, <1>4, CalmKeeps DEF Calm

(* So do writers that commit or stop.                                        *)
LEMMA WritersKeep ==
  ASSUME TypeOK, HandoverInvariant, HeadMoves, WritersCalm, UNCHANGED <<call, registered, released, stopping, alive>>
  PROVE  HandoverInvariant'
<1>1. \A w \in WriterId : WritesOpen(w)' => writer'[w].inst = writer[w].inst
  BY DEF WritesOpen, WritersCalm
<1>2. MapsCalm /\ SweepCalm /\ \A c \in Caller : CallCalm(c)
  BY <1>1 DEF MapsCalm, SweepCalm, Swept, CallCalm
<1> QED BY <1>2, CalmKeeps DEF Calm

-----------------------------------------------------------------------------
(* Calls.                                                                    *)

(* A step that leaves the writers hands nothing over.                        *)
LEMMA SameWriters ==
  ASSUME UNCHANGED writer
  PROVE  WritersCalm /\ \A n : HandedOver(n)' <=> HandedOver(n)
  BY DEF WritersCalm, HandedOver

(* Asking for a begin, a delivery, an enqueue or a transact keeps the        *)
(* invariant.                                                                *)
LEMMA AskedKeeps ==
  ASSUME TypeOK, HandoverInvariant, NEW c \in Caller, NEW i \in Instance
  PROVE  /\ \A ask \in Ask : AskBegin(c, i, ask) => HandoverInvariant'
         /\ \A item \in Delivers : AskDeliver(c, i, item) => HandoverInvariant'
         /\ \A tx \in Tx : AskTransact(c, i, tx) => HandoverInvariant'
<1>1. ASSUME NEW rec, Plain(rec), CallIn(c, i, rec) PROVE HandoverInvariant'
  <2>1. Become(c, rec) /\ UNCHANGED <<head, writer, registered, released, stopping, alive>> /\ call[c].step = "idle"
    BY <1>1 DEF CallIn, local, logVars, Free
  <2>2. call[c].op = "none"
    BY <2>1 DEF HandoverInvariant, CallsAreKnown, KnowsTurn
  <2>3. ~Needed(c) /\ ~Leaves(c)
    BY <2>1, <2>2 DEF Needed, Covers, Leaves
  <2>4. \A d \in Caller : CallCalm(d)
    BY <1>1, <2>1, <2>3, SameWriters, OneCallCalm, PlainCalls DEF Plain
  <2> QED BY <2>1, <2>4, SameWriters, AsideKeeps
<1>2. Idle \in Call
  BY CallTypes DEF CallOK
<1>3. ASSUME NEW asked \in Call, asked.op \notin {"none", "unhanded", "time-limit", "shutdown"}
      PROVE  Plain(Reading(asked))
  <2>1. [asked EXCEPT !.step = "read"].op = asked.op /\ [asked EXCEPT !.step = "read"].step = "read"
    BY <1>3 DEF Call
  <2>2. Plain([asked EXCEPT !.step = "read"])
    BY <1>3, <2>1 DEF Plain
  <2>3. AsksKnown(asked)
    BY <1>3 DEF AsksKnown, ClosesHanded
  <2>4. asked.op \notin {"time-limit", "shutdown"}
    BY <1>3
  <2> QED BY <2>2, <2>3, <2>4, ReadingKnows DEF HandoverInvariant
<1>4. ASSUME NEW ask \in Ask, AskBegin(c, i, ask) PROVE HandoverInvariant'
  <2> DEFINE asked == [Asked(i, "begin") EXCEPT !.ask = ask, !.run = ask.run,
                           !.item = PreparedItem(ask), !.key = PreparedKey(ask)]
             rec == IF ask.kind = "queued" \/ ask.resumes # 0
                    THEN [asked EXCEPT !.step = "prepared"] ELSE Reading(asked)
  <2>1. asked \in Call /\ asked.op = "begin"
    <3>1. "begin" \in Op
      BY DEF Op
    <3>2. Asked(i, "begin") \in Call /\ Asked(i, "begin").op = "begin"
      BY <1>2, <3>1, AskedType DEF Asked, Call
    <3>3. PreparedItem(ask) \in Item \cup Tx \cup {NoItem} /\ PreparedKey(ask) \in Key /\ ask.run \in RunOrNone
      BY PreparedTypes, SessionsConstants DEF Item, RunOrNone, TypeOK
    <3> QED BY <3>2, <3>3 DEF Call
  <2>2. CallIn(c, i, rec)
    BY <1>4 DEF AskBegin
  <2> HIDE DEF asked
  <2>3. Plain([asked EXCEPT !.step = "prepared"])
    BY <2>1 DEF Plain, Call
  <2>4. Plain(Reading(asked))
    BY <1>3, <2>1
  <2> QED BY <1>1, <2>2, <2>3, <2>4
<1>5. ASSUME NEW item \in Delivers, AskDeliver(c, i, item) PROVE HandoverInvariant'
  <2> DEFINE op == IF item \in Notice THEN "deliver" ELSE "enqueue"
             asked == [Asked(i, op) EXCEPT !.item = item]
  <2>1. op \in {"deliver", "enqueue"} /\ op \in Op /\ item \in Item
    BY SessionsConstants DEF Op, Inboxes
  <2>2. asked \in Call /\ asked.op = op
    <3> HIDE DEF op
    <3>1. Asked(i, op) \in Call /\ Asked(i, op).op = op
      BY <1>2, <2>1, AskedType DEF Asked, Call
    <3> QED BY <2>1, <3>1 DEF Call
  <2>3. CallIn(c, i, Reading(asked))
    BY <1>5 DEF AskDeliver
  <2> HIDE DEF asked, op
  <2>4. asked.op \notin {"none", "unhanded", "time-limit", "shutdown"}
    BY <2>1, <2>2
  <2> QED BY <1>1, <1>3, <2>2, <2>3, <2>4
<1>6. ASSUME NEW tx \in Tx, AskTransact(c, i, tx) PROVE HandoverInvariant'
  <2> DEFINE asked == [Asked(i, "transact") EXCEPT !.item = tx]
  <2>1. asked \in Call /\ asked.op = "transact"
    <3>1. "transact" \in Op
      BY DEF Op
    <3>2. Asked(i, "transact") \in Call /\ Asked(i, "transact").op = "transact"
      BY <1>2, <3>1, AskedType DEF Asked, Call
    <3> QED BY <3>2 DEF Call
  <2>2. CallIn(c, i, Reading(asked))
    BY <1>6 DEF AskTransact
  <2> HIDE DEF asked
  <2> QED BY <1>1, <1>3, <2>1, <2>2
<1> QED BY <1>4, <1>5, <1>6

(* A close asked for closes no writer by itself, and covers the turn.        *)
LEMMA CloseAskedCalm ==
  ASSUME TypeOK, HandoverInvariant, NEW c \in Caller, NEW i \in Instance, NEW op \in CloseOp,
         NEW turn \in Nat \ {0}, NEW run \in RunOrNone, AskClose(c, i, op, turn, run),
         op # "cancel" => turn \in 1..head.state.turns /\ HandedOver(turn)
  PROVE  /\ WritersCalm /\ (\A d \in Caller : CallCalm(d)) /\ UNCHANGED <<head, registered, released, alive>>
         /\ call'[c].op = op /\ call'[c].at = i /\ call'[c].turn = turn
<1> DEFINE base == Asked(i, op)
           asked == [base EXCEPT !.turn = turn, !.run = run]
           r == registered[i]
<1>1. asked \in Call /\ asked.op = op /\ asked.turn = turn /\ asked.at = i /\ asked.step = "idle"
  <2>1. op \in Op
    BY DEF Op
  <2>2. base \in Call /\ base.op = op /\ base.at = i /\ base.step = "idle"
    BY <2>1, AskedType DEF Asked, Idle
  <2> HIDE DEF base
  <2> QED BY <2>2 DEF Call
<1>2. UNCHANGED <<head, registered, released, alive>> /\ call[c].step = "idle"
  BY DEF AskClose, logVars, Free
<1>3. ~Needed(c) /\ ~Leaves(c)
  <2>1. call[c].op = "none"
    BY <1>2 DEF HandoverInvariant, CallsAreKnown, KnowsTurn
  <2> QED BY <1>2, <2>1 DEF Needed, Covers, Leaves
<1>4. op \notin {"none", "unhanded", "begin"}
  BY DEF CloseOp
<1>5. AsksKnown(asked)
  BY <1>1, <1>4 DEF AsksKnown, ClosesHanded
<1>6. CASE SealedHere(i, turn)
  <2> DEFINE rec == [asked EXCEPT !.step = "await", !.inc = r.inc]
             me == [writer[r] EXCEPT !.phase = "Ending", !.ending = writer[r].sealed]
  <2>1. Become(c, rec) /\ writer' = [writer EXCEPT ![r] = me]
    BY <1>6 DEF AskClose
  <2>2. r \in WriterId /\ writer[r].phase \in Live /\ writer[r].phase # "None"
    BY <1>6, TurnNumbers DEF SealedHere, NoWriter, Live
  <2>3. me.phase = "Ending" /\ me.inst = writer[r].inst
    BY <2>2, WriterInUse DEF WriterOK, Writer
  <2>4. r.inc = 1
    BY <2>2 DEF HandoverInvariant, WritersAreKnown
  <2>5. rec.step = "await" /\ rec.op = op /\ rec.turn = turn /\ rec.at = i /\ rec.inc = 1
    <3> HIDE DEF asked
    <3> QED BY <1>1, <2>4 DEF Call
  <2> HIDE DEF rec, me
  <2>6. WritersCalm
    <3> HIDE DEF r
    <3> QED BY <2>1, <2>2, <2>3, OneWriterCalm DEF Live
  <2>7. KnowsTurn(rec) /\ ~IsUnhanded(rec)
    BY <1>4, <2>5 DEF KnowsTurn, IsUnhanded, IsHanded, ClosesHanded, CloseOp
  <2>8. \A n : HandedOver(n)' <=> HandedOver(n)
    BY <2>6 DEF HandedOver, WritersCalm
  <2>9. \A d \in Caller : CallCalm(d)
    BY <1>2, <1>3, <2>1, <2>5, <2>7, <2>8, OneCallCalm
  <2>10. call'[c] = rec
    BY <2>1 DEF Become, TypeOK, CallsOK
  <2> QED BY <1>2, <2>5, <2>6, <2>9, <2>10
<1>7. CASE ~SealedHere(i, turn)
  <2>1. Become(c, Reading(asked)) /\ UNCHANGED writer
    BY <1>7 DEF AskClose
  <2> HIDE DEF asked
  <2>2. /\ KnowsTurn(Reading(asked)) /\ Reading(asked).step \in {"read", "refused"}
        /\ Reading(asked).op = op /\ Reading(asked).turn = turn /\ Reading(asked).at = i
    BY <1>1, <1>5, ReadingKnows DEF HandoverInvariant
  <2>3. ~IsUnhanded(Reading(asked)) /\ Reading(asked).step # "opened"
    BY <1>4, <2>2 DEF IsUnhanded
  <2>4. \A d \in Caller : CallCalm(d)
    BY <1>2, <1>3, <2>1, <2>2, <2>3, SameWriters, OneCallCalm
  <2>5. call'[c] = Reading(asked)
    BY <2>1 DEF Become, TypeOK, CallsOK
  <2> QED BY <1>2, <2>1, <2>2, <2>4, <2>5, SameWriters
<1> QED BY <1>6, <1>7

(* So do cancels, time limits, and the sweep of a shutdown: it covers the    *)
(* writer of the open turn, which is in the map.                             *)
LEMMA ClosesAskedKeep ==
  ASSUME TypeOK, HandoverInvariant, NEW c \in Caller
  PROVE  /\ \A i \in Instance, turn \in CancelTurns : AskCancel(c, i, turn) => HandoverInvariant'
         /\ \A w \in WriterId : AskTimeLimit(c, w) => HandoverInvariant'
         /\ \A i \in Instance : ShutdownCloses(c, i) => HandoverInvariant'
<1>1. ASSUME NEW i \in Instance, NEW turn \in CancelTurns, AskCancel(c, i, turn) PROVE HandoverInvariant'
  <2>1. "cancel" \in CloseOp /\ turn \in Nat \ {0} /\ NoRun \in RunOrNone
    BY SessionsConstants DEF CloseOp, RunOrNone
  <2>2. AskClose(c, i, "cancel", turn, NoRun) /\ UNCHANGED stopping
    BY <1>1 DEF AskCancel
  <2>3. WritersCalm /\ (\A d \in Caller : CallCalm(d)) /\ UNCHANGED <<head, registered, released, alive>>
    BY <2>1, <2>2, CloseAskedCalm
  <2> QED BY <2>2, <2>3, AsideKeeps
<1>2. ASSUME NEW w \in WriterId, writer[w].phase \in Live
      PROVE  writer[w].run \in RunOrNone /\ w.turn \in Nat \ {0} /\ w.turn \in 1..head.state.turns /\ HandedOver(w.turn)
  <2>1. writer[w].run \in RunOrNone /\ w.turn \in Nat \ {0}
    BY WriterInUse DEF WriterOK, Writer
  <2>2. writer[w].phase # "None"
    BY <1>2 DEF Live
  <2> QED BY <2>1, <2>2 DEF HandedOver, HandoverInvariant, WritersAreKnown
<1>3. ASSUME NEW w \in WriterId, AskTimeLimit(c, w) PROVE HandoverInvariant'
  <2>1. writer[w].phase \in Live /\ AskClose(c, writer[w].inst, "time-limit", w.turn, writer[w].run) /\ UNCHANGED stopping
    BY <1>3 DEF AskTimeLimit
  <2>2. writer[w].inst \in Instance /\ "time-limit" \in CloseOp
    BY <2>1, WriterInUse DEF CloseOp
  <2>3. WritersCalm /\ (\A d \in Caller : CallCalm(d)) /\ UNCHANGED <<head, registered, released, alive>>
    BY <1>2, <2>1, <2>2, CloseAskedCalm
  <2> QED BY <2>1, <2>3, AsideKeeps
<1>4. ASSUME NEW i \in Instance, ShutdownCloses(c, i) PROVE HandoverInvariant'
  <2> DEFINE r == registered[i]
  <2>1. stopping' = [stopping EXCEPT ![i] = "swept"]
    BY <1>4 DEF ShutdownCloses
  <2>2. ASSUME UNCHANGED <<head, registered, released, alive>>, WritersCalm, \A d \in Caller : CallCalm(d), SweepCalm
        PROVE  HandoverInvariant'
    <3>1. HeadMoves
      BY <2>2, TurnNumbers DEF HeadMoves, OpenPair, HandoverInvariant, OneLife
    <3>2. \A w \in WriterId : WritesOpen(w)' => writer'[w].inst = writer[w].inst
      BY <2>2 DEF WritesOpen, WritersCalm
    <3>3. MapsCalm
      BY <2>2, <3>2 DEF MapsCalm, OpenPair
    <3> QED BY <2>2, <3>1, <3>3, CalmKeeps DEF Calm
  <2>3. ASSUME UNCHANGED <<head, alive>>, WritersCalm,
               r # NoWriter => call'[c].op = "shutdown" /\ call'[c].at = i /\ call'[c].turn = r.turn
        PROVE  SweepCalm
    <3> SUFFICES ASSUME NEW w \in WriterId, WritesOpen(w)', Swept(writer[w].inst)'
                 PROVE  Swept(writer'[w].inst) \/ \E d \in Caller : Covers(call'[d], writer'[w].inst, w.turn)
      BY DEF SweepCalm
    <3>1. WritesOpen(w) /\ writer'[w].inst = writer[w].inst /\ writer[w].inst \in Instance
      BY <2>3, WriterInUse DEF WritesOpen, WritersCalm
    <3>2. CASE writer[w].inst = i
      <4>1. r = w /\ w # NoWriter
        BY <3>1, <3>2, TurnNumbers DEF HandoverInvariant, LiveAreRegistered, NoWriter
      <4> QED BY <2>3, <3>1, <3>2, <4>1 DEF Covers
    <3>3. CASE writer[w].inst # i
      <4>1. stopping'[writer[w].inst] = stopping[writer[w].inst]
        BY <2>1, <3>1, <3>3 DEF TypeOK, InstancesOK
      <4> QED BY <2>3, <3>1, <4>1 DEF Swept
    <3> QED BY <3>2, <3>3
  <2>4. CASE r = NoWriter
    <3>1. UNCHANGED <<head, call, writer, registered, released, alive>>
      BY <1>4, <2>4 DEF ShutdownCloses, logVars
    <3> QED BY <2>2, <2>3, <2>4, <3>1, SameWriters DEF CallCalm
  <2>5. CASE r # NoWriter
    <3>1. AskClose(c, i, "shutdown", r.turn, writer[r].run)
      BY <1>4, <2>5 DEF ShutdownCloses
    <3>2. r \in WriterId /\ writer[r].phase # "None"
      BY <2>5, TurnNumbers DEF HandoverInvariant, WritersAreKnown
    <3>3. /\ writer[r].run \in RunOrNone /\ r.turn \in Nat \ {0} /\ r.turn \in 1..head.state.turns
          /\ HandedOver(r.turn) /\ "shutdown" \in CloseOp
      <4> HIDE DEF r
      <4> QED BY <3>2, WriterInUse DEF WriterOK, Writer, HandedOver, HandoverInvariant, WritersAreKnown, CloseOp
    <3>4. /\ WritersCalm /\ (\A d \in Caller : CallCalm(d)) /\ UNCHANGED <<head, registered, released, alive>>
          /\ call'[c].op = "shutdown" /\ call'[c].at = i /\ call'[c].turn = r.turn
      <4> HIDE DEF r
      <4> QED BY <3>1, <3>3, CloseAskedCalm
    <3> QED BY <2>2, <2>3, <3>4
  <2> QED BY <2>4, <2>5
<1> QED BY <1>1, <1>3, <1>4

(* So do a call's other steps beside the log: a handed turn is looked after  *)
(* once the sweep has passed, and a close waits only for the end of its own  *)
(* writer.                                                                   *)
LEMMA LocalCallsKeep ==
  ASSUME TypeOK, HandoverInvariant, NEW c \in Caller
  PROVE  ReadHead(c) \/ Refused(c) \/ Answered(c) \/ Handed(c) \/ AwaitOver(c) \/ BeginCut(c) \/ CloseLocal(c)
           => HandoverInvariant'
<1> DEFINE k == call[c]
<1>1. k \in Call /\ k.turn \in Nat /\ k.run \in RunOrNone /\ (k.step # "idle" => k.at \in Instance)
  BY CallInFlight DEF CallOK
<1>2. KnowsTurn(k) /\ AsksKnown(k)
  BY DEF HandoverInvariant, CallsAreKnown, KnowsTurn, IsUnhanded, IsHanded, AsksKnown
<1>3. ASSUME NEW rec, Become(c, rec), UNCHANGED <<logVars, writer, registered, released, stopping, alive>>,
             KnowsTurn(rec), rec.step # "opened", k.step # "closing",
             IsUnhanded(rec) => IsUnhanded(k) /\ rec.turn = k.turn,
             Needed(c) => rec.at = k.at /\ rec.turn = k.turn /\ (rec.step = "handed" \/ rec.op = "shutdown")
      PROVE  HandoverInvariant'
  <2>1. UNCHANGED <<head, writer, registered, released, stopping, alive>>
    BY <1>3 DEF logVars
  <2>2. WritersCalm /\ \A n : HandedOver(n)' <=> HandedOver(n)
    BY <2>1, SameWriters
  <2>3. ~Leaves(c)
    BY <1>3 DEF Leaves
  <2>4. \A d \in Caller : CallCalm(d)
    <3> HIDE DEF k
    <3> QED BY <1>3, <2>1, <2>2, <2>3, OneCallCalm DEF k
  <2> QED BY <2>1, <2>2, <2>4, AsideKeeps
<1>4. ASSUME NEW rec, Become(c, rec), UNCHANGED <<logVars, writer, registered, released, stopping, alive>>,
             Plain(rec), ~Needed(c), k.step # "closing"
      PROVE  HandoverInvariant'
  <2>1. KnowsTurn(rec) /\ ~IsUnhanded(rec) /\ rec.step # "opened"
    BY <1>4, PlainCalls DEF Plain
  <2> HIDE DEF k
  <2> QED BY <1>3, <1>4, <2>1
<1>5. ASSUME Become(c, Reading(k)), UNCHANGED <<logVars, writer, registered, released, stopping, alive>>,
             k.step \in {"prepared", "await"}
      PROVE  HandoverInvariant'
  <2>1. /\ KnowsTurn(Reading(k)) /\ Reading(k).step \in {"read", "refused"}
        /\ Reading(k).op = k.op /\ Reading(k).turn = k.turn /\ Reading(k).at = k.at
    BY <1>1, <1>2, <1>5, ReadingKnows DEF HandoverInvariant
  <2>2. IsUnhanded(Reading(k)) => IsUnhanded(k)
    BY <2>1 DEF IsUnhanded
  <2>3. Needed(c) => Reading(k).op = "shutdown"
    BY <1>5, <2>1 DEF Needed, Covers
  <2>4. Reading(k).step # "opened"
    BY <2>1
  <2> HIDE DEF k
  <2> QED BY <1>3, <1>5, <2>1, <2>2, <2>3, <2>4
<1>6. k.step # "handed" /\ k.op # "shutdown" => ~Needed(c)
  BY DEF Needed, Covers
<1>7. ASSUME ReadHead(c) PROVE HandoverInvariant'
  BY <1>5, <1>7 DEF ReadHead, local
<1>8. ASSUME Refused(c) PROVE HandoverInvariant'
  <2>1. PICK told, turn, open : Become(c, RefusedCall(k, told, turn, open))
    BY <1>8 DEF Refused
  <2>2. k.op = "begin" /\ k.step = "read" /\ UNCHANGED <<logVars, writer, registered, released, stopping, alive>>
    BY <1>8 DEF Refused, Refuses, local
  <2>3. Plain(RefusedCall(k, told, turn, open))
    BY <2>2, PlainCalls
  <2> QED BY <1>4, <1>6, <2>1, <2>2, <2>3
<1>9. ASSUME Answered(c) PROVE HandoverInvariant'
  <2>1. Become(c, Idle) /\ k.step = "read" /\ UNCHANGED <<logVars, writer, registered, released, stopping, alive>>
        /\ ~PlanOf(k).commits
    BY <1>9 DEF Answered, Answer, local
  <2>2. ~Needed(c)
    <3> SUFFICES ASSUME NEW w \in WriterId, WritesOpen(w)', Covers(k, writer'[w].inst, w.turn) PROVE FALSE
      BY DEF Needed
    <3>1. k.op = "shutdown" /\ k.turn = w.turn
      BY <2>1 DEF Covers
    <3>2. k.state.open.turn # k.turn
      <4>1. PlanOf(k) = ClosingPlan(k)
        BY <3>1 DEF PlanOf, ClosePlan, CloseOp
      <4>2. CASE k.state.open.turn = k.turn
        <5>1. \E events, next, told : ClosingPlan(k) = Plan(events, next, told)
          BY <4>2 DEF ClosingPlan
        <5>2. ClosingPlan(k).commits
          BY <5>1 DEF Plan
        <5> QED BY <2>1, <4>1, <5>2
      <4> QED BY <4>2
    <3>3. head.state.open.turn # k.turn
      BY <1>2, <2>1, <3>1, <3>2 DEF KnowsTurn, ClosesHanded
    <3> QED BY <2>1, <3>1, <3>3 DEF WritesOpen, logVars
  <2> QED BY <1>4, <2>1, <2>2, PlainCalls
<1>10. ASSUME Handed(c) PROVE HandoverInvariant'
  <2>1. k.step = "handed" /\ k.op = "begin" /\ k.at \in Instance
        /\ UNCHANGED <<logVars, writer, registered, released, stopping, alive>>
    BY <1>1, <1>2, <1>10 DEF Handed, KnowsTurn, local
  <2>2. CASE stopping[k.at] \in {"interrupting", "swept"}
    <3> DEFINE base == Asked(k.at, "shutdown")
               asked == [base EXCEPT !.turn = k.turn, !.run = k.run]
    <3>1. Become(c, Reading(asked))
      BY <1>10, <2>2 DEF Handed
    <3>2. asked \in Call /\ asked.op = "shutdown" /\ asked.turn = k.turn /\ asked.at = k.at /\ asked.step = "idle"
      <4>1. "shutdown" \in Op
        BY DEF Op, CloseOp
      <4>2. base \in Call /\ base.op = "shutdown" /\ base.at = k.at /\ base.step = "idle"
        BY <2>1, <4>1, AskedType DEF Asked, Idle
      <4> HIDE DEF base, k
      <4> QED BY <1>1, <4>2 DEF Call
    <3> HIDE DEF asked
    <3>3. AsksKnown(asked)
      BY <1>2, <2>1, <3>2 DEF AsksKnown, KnowsTurn, IsHanded, ClosesHanded
    <3>4. /\ KnowsTurn(Reading(asked)) /\ Reading(asked).step \in {"read", "refused"}
          /\ Reading(asked).op = "shutdown" /\ Reading(asked).turn = k.turn /\ Reading(asked).at = k.at
      BY <3>2, <3>3, ReadingKnows DEF HandoverInvariant
    <3>5. ~IsUnhanded(Reading(asked)) /\ Reading(asked).step # "opened"
      BY <3>4 DEF IsUnhanded
    <3> HIDE DEF k
    <3> QED BY <1>3, <2>1, <3>1, <3>4, <3>5
  <2>3. CASE stopping[k.at] \notin {"interrupting", "swept"}
    <3>1. Become(c, Idle)
      BY <1>10, <2>3 DEF Handed, Answer
    <3>2. ~Needed(c)
      BY <2>1, <2>3 DEF Needed, Covers, Swept
    <3> QED BY <1>4, <2>1, <3>1, <3>2, PlainCalls
  <2> QED BY <2>2, <2>3
<1>11. ASSUME AwaitOver(c) PROVE HandoverInvariant'
  <2> DEFINE w == [inc |-> k.inc, turn |-> k.turn]
  <2>1. k.step = "await" /\ UNCHANGED <<logVars, writer, registered, released, stopping, alive>>
    BY <1>11 DEF AwaitOver, local
  <2>2. CASE writer[w].phase = "Ended"
    <3>1. Become(c, Idle)
      BY <1>11, <2>2 DEF AwaitOver, Answer
    <3>2. ~Needed(c)
      <4> SUFFICES ASSUME NEW v \in WriterId, WritesOpen(v)', Covers(k, writer'[v].inst, v.turn) PROVE FALSE
        BY DEF Needed
      <4>1. writer[v].phase \in Live /\ v.turn = k.turn
        BY <2>1 DEF Covers, WritesOpen
      <4>2. v.inc = 1
        BY <4>1 DEF HandoverInvariant, WritersAreKnown, Live
      <4>3. k.inc = 1
        BY <1>2, <2>1 DEF KnowsTurn
      <4>4. v = w
        BY <4>1, <4>2, <4>3 DEF WriterId
      <4> QED BY <2>2, <4>1, <4>4 DEF Live
    <3> QED BY <1>4, <2>1, <3>1, <3>2, PlainCalls
  <2>3. CASE writer[w].phase # "Ended"
    <3>1. Become(c, Reading(k))
      BY <1>11, <2>3 DEF AwaitOver
    <3> QED BY <1>5, <2>1, <3>1
  <2> QED BY <2>2, <2>3
<1>12. ASSUME BeginCut(c) PROVE HandoverInvariant'
  <2> PICK told \in {"none", "error"} :
         Become(c, Reading([Asked(k.at, "unhanded") EXCEPT !.turn = k.turn, !.run = k.run, !.told = told]))
    BY <1>12 DEF BeginCut
  <2> DEFINE base == Asked(k.at, "unhanded")
             asked == [base EXCEPT !.turn = k.turn, !.run = k.run, !.told = told]
  <2>1. k.step = "opened" /\ k.at \in Instance /\ k.op = "begin" /\ Become(c, Reading(asked))
        /\ UNCHANGED <<logVars, writer, registered, released, stopping, alive>>
    BY <1>1, <1>2, <1>12 DEF BeginCut, KnowsTurn
  <2>2. asked \in Call /\ asked.op = "unhanded" /\ asked.turn = k.turn /\ asked.at = k.at
    <3>1. "unhanded" \in Op
      BY DEF Op
    <3>2. base \in Call /\ base.op = "unhanded" /\ base.at = k.at
      BY <2>1, <3>1, AskedType
    <3>3. k \in Call /\ told \in Told
      BY <1>1 DEF Told
    <3> HIDE DEF base, k
    <3> QED BY <3>2, <3>3 DEF Call
  <2> HIDE DEF asked
  <2>3. AsksKnown(asked) /\ IsUnhanded(k)
    BY <1>2, <2>1, <2>2 DEF AsksKnown, KnowsTurn, IsUnhanded, ClosesHanded
  <2>4. /\ KnowsTurn(Reading(asked)) /\ Reading(asked).step \in {"read", "refused"}
        /\ Reading(asked).turn = k.turn /\ Reading(asked).at = k.at
    BY <2>2, <2>3, ReadingKnows DEF HandoverInvariant
  <2>5. Reading(asked).step # "opened" /\ ~Needed(c)
    BY <1>6, <2>1, <2>4
  <2> HIDE DEF k
  <2> QED BY <1>3, <2>1, <2>3, <2>4, <2>5
<1>13. ASSUME CloseLocal(c) PROVE HandoverInvariant'
  <2>1. /\ k.step = "closing" /\ k.at \in Instance /\ writer' = ClosedLocally(k.at, k.turn, CloseTold(k.op))
        /\ Become(c, Idle) /\ UNCHANGED <<head, registered, released, stopping, alive>>
    BY <1>1, <1>13 DEF CloseLocal, Answer, logVars
  <2>2. WritersAreKnown
    BY DEF HandoverInvariant
  <2>3. WritersCalm
    BY <2>1, <2>2, ClosedLocallyCalm
  <2>4. \A n : HandedOver(n)' <=> HandedOver(n)
    BY <2>3 DEF HandedOver, WritersCalm
  <2>5. ASSUME NEW w \in WriterId, WritesOpen(w)', writer'[w].inst = k.at, w.turn = k.turn PROVE FALSE
    <3>1. WritesOpen(w) /\ writer[w].inst = k.at
      BY <2>1, <2>3, <2>5 DEF WritesOpen, WritersCalm
    <3>2. registered[k.at] = w
      BY <3>1 DEF HandoverInvariant, LiveAreRegistered
    <3>3. writer'[w].phase \notin Live
      <4> HIDE DEF k
      <4> QED BY <2>1, <2>2, <2>5, <3>2, ClosedLocallyCalm
    <3> QED BY <2>5, <3>3 DEF WritesOpen
  <2>6. ~Needed(c) /\ ~Leaves(c)
    BY <2>5 DEF Needed, Covers, Leaves
  <2>7. \A d \in Caller : CallCalm(d)
    BY <2>1, <2>4, <2>6, PlainCalls, OneCallCalm DEF Plain
  <2> QED BY <2>1, <2>3, <2>7, AsideKeeps
<1> QED BY <1>7, <1>8, <1>9, <1>10, <1>11, <1>12, <1>13

(* Forgetting what was let go of lets go of nothing.                         *)
LEMMA ForgettingCalm ==
  ASSUME TypeOK, NEW i \in Instance, NEW next, released' \in {released, ForgetClosed(i, next)},
         UNCHANGED registered, WritersCalm
  PROVE  MapsCalm
<1>1. \A j \in Instance : released'[j] \subseteq released[j]
  BY DEF ForgetClosed, TypeOK, InstancesOK
<1>2. \A w \in WriterId : WritesOpen(w)' => writer'[w].inst = writer[w].inst
  BY DEF WritesOpen, WritersCalm
<1> QED BY <1>1, <1>2 DEF MapsCalm

(* What a step must show of a log it wrote to, or did not.                   *)
Stepped == TypeOK /\ TurnInvariant /\ TurnsStep /\ HandoverInvariant

LEMMA SteppedHead ==
  ASSUME Stepped, UNCHANGED logVars \/ \E events, next : StoreCommit(events, next)
  PROVE  HeadMoves
<1>1. UNCHANGED head \/ \E events, next : StoreCommit(events, next)
  BY DEF logVars
<1> QED BY <1>1, HeadStays DEF Stepped, HandoverInvariant

(* A close that commits leaves no turn open.                                 *)
LEMMA CloseLeavesNone ==
  ASSUME NEW k \in Call, k.op \in CloseOp, ClosingPlan(k).commits
  PROVE  ~IsOpen(ClosingPlan(k).next)
<1> DEFINE r == Reaped(k.state, k.now, k.at, NotOver)
           s == k.state
<1>1. \A reason, code, sealed, tried : ~IsOpen(ReapClosing(s, reason, code, sealed, tried).state)
  <2>1. s \in State
    BY DEF Call
  <2> QED BY <2>1 DEF ReapClosing, ClosedState, IsOpen, NoTurn, State
<1>2. r.closed # 0 => ~IsOpen(r.state)
  <2>1. Reaps(s, r)
    BY ReapShape DEF Call
  <2> HIDE DEF r
  <2> QED BY <2>1 DEF Reaps, Closes
<1>3. \E events, next, told : ClosingPlan(k) = Plan(events, next, told) /\ ~IsOpen(next)
  <2>1. CASE r.closed # 0
    BY <1>2, <2>1 DEF ClosingPlan
  <2>2. CASE r.closed = 0 /\ s.open.turn = k.turn
    BY <1>1, <2>2 DEF ClosingPlan
  <2>3. CASE r.closed = 0 /\ s.open.turn # k.turn
    <3>1. ClosingPlan(k) = Only("not open")
      BY <2>3 DEF ClosingPlan
    <3>2. ~Only("not open").commits
      BY DEF Only
    <3> QED BY <3>1, <3>2
  <2> QED BY <2>1, <2>2, <2>3
<1>4. \A events, next, told : Plan(events, next, told).next = next
  BY DEF Plan
<1> QED BY <1>3, <1>4

(* A begin's reap of a sealed turn, and any commit but a begin's, keep the   *)
(* invariant: a close's leaves no turn open, so none to cover.               *)
LEMMA CommitsKeep ==
  ASSUME Stepped, NEW c \in Caller
  PROVE  ReapSealed(c) \/ CallStored(c) => HandoverInvariant'
<1> DEFINE k == call[c]
<1>1. TypeOK /\ HandoverInvariant /\ WritersAreKnown /\ KnowsTurn(k) /\ k \in Call
      /\ (k.step # "idle" => k.at \in Instance)
  BY CallInFlight DEF Stepped, HandoverInvariant, CallsAreKnown, CallOK
<1>2. ASSUME HeadMoves, NEW rec, Become(c, rec), Plain(rec), ~Needed(c), ~Leaves(c), UNCHANGED <<registered, stopping, alive>>, k.at \in Instance,
             \E next : released' \in {released, ForgetClosed(k.at, next)},
             \E turn, told : writer' \in {writer, ClosedLocally(k.at, turn, told)}
      PROVE  HandoverInvariant'
  <2>1. WritersCalm
    BY <1>1, <1>2, SameWriters, ClosedLocallyCalm
  <2>2. \A n : HandedOver(n)' <=> HandedOver(n)
    BY <1>1, <1>2, <2>1, OpenWritersWere
  <2>3. MapsCalm
    BY <1>1, <1>2, <2>1, ForgettingCalm
  <2>4. SweepCalm
    BY <1>2 DEF SweepCalm, Swept
  <2>5. \A d \in Caller : CallCalm(d)
    BY <1>1, <1>2, <2>2, PlainCalls, OneCallCalm DEF Plain
  <2> QED BY <1>1, <1>2, <2>1, <2>3, <2>4, <2>5, CalmKeeps DEF Calm
<1>3. ASSUME ReapSealed(c) PROVE HandoverInvariant'
  <2>1. HeadMoves
    BY <1>3, SteppedHead DEF ReapSealed
  <2>2. k.step = "refused" /\ k.at \in Instance
    BY <1>1, <1>3 DEF ReapSealed
  <2>3. ~Needed(c) /\ ~Leaves(c)
    BY <1>1, <2>2 DEF Needed, Covers, KnowsTurn, Leaves
  <2>4. Become(c, Idle) /\ Plain(Idle) /\ UNCHANGED <<registered, stopping, alive>>
    BY <1>3, PlainCalls DEF ReapSealed, Answer
  <2>5. /\ \E next : released' \in {released, ForgetClosed(k.at, next)}
        /\ \E turn, told : writer' \in {writer, ClosedLocally(k.at, turn, told)}
    BY <1>3 DEF ReapSealed
  <2> HIDE DEF k
  <2> QED BY <1>2, <2>1, <2>2, <2>3, <2>4, <2>5
<1>4. ASSUME CallStored(c) PROVE HandoverInvariant'
  <2> DEFINE plan == PlanOf(k)
  <2>1. /\ k.op # "begin" /\ Commits(k) /\ k.step = "read" /\ plan.commits /\ k.at \in Instance
        /\ StoreAnswers(k) = "stored"
    BY <1>1, <1>4 DEF CallStored, Commits
  <2>2. StoreCommit(plan.events, plan.next) /\ UNCHANGED <<writer, registered, stopping, alive>>
    BY <1>4 DEF CallStored
  <2>3. HeadMoves
    BY <2>2, SteppedHead
  <2>4. ~Needed(c)
    <3> SUFFICES ASSUME NEW w \in WriterId, WritesOpen(w)', Covers(k, writer'[w].inst, w.turn) PROVE FALSE
      BY DEF Needed
    <3>1. k.op = "shutdown"
      BY <2>1 DEF Covers
    <3>2. plan = ClosingPlan(k) /\ k.op \in CloseOp
      BY <3>1 DEF PlanOf, ClosePlan, CloseOp
    <3>3. ~IsOpen(plan.next)
      BY <1>1, <2>1, <3>2, CloseLeavesNone
    <3>4. head'.state = plan.next
      BY <1>1, <2>2, HeadType DEF StoreCommit, TypeOK
    <3> QED BY <1>1, <3>3, <3>4, TurnNumbers DEF WritesOpen, IsOpen
  <2>5. \E next : released' \in {released, ForgetClosed(k.at, next)}
    BY <1>4 DEF CallStored
  <2>6. PICK rec : Become(c, rec) /\ Plain(rec)
    BY <1>4, PlainCalls DEF CallStored, Answer
  <2>7. ~Leaves(c)
    BY <2>1 DEF Leaves
  <2> HIDE DEF k, plan
  <2> QED BY <1>2, <2>1, <2>2, <2>3, <2>4, <2>5, <2>6, <2>7
<1> QED BY <1>3, <1>4

(* A call that gives up lets its turn go only where it goes on to close the  *)
(* writer of it, none was made, or (a begin whose commit may be stored) it   *)
(* is not open.                                                              *)
LEMMA GivesUpKeeps ==
  ASSUME TypeOK, TurnInvariant, RecordInvariant, HandoverInvariant, NEW c \in Caller, NEW told, GivesUp(c, told),
         call[c].step \in {"read", "lost"}, told = "error" => Commits(call[c]),
         UNCHANGED <<logVars, registered, stopping, alive>>
  PROVE  HandoverInvariant'
<1> DEFINE k == call[c]
           turn == IF k.op = "begin" THEN BeginPlan(k).next.turns ELSE k.turn
<1>1. /\ KnowsTurn(k) /\ k \in Call /\ k.at \in Instance /\ k.turn \in Nat /\ WritersAreKnown
      /\ UNCHANGED <<head, registered, stopping, alive>>
  BY CallInFlight DEF HandoverInvariant, CallsAreKnown, CallOK, logVars
<1>2. WritersCalm
  BY SameWriters DEF GivesUp
<1>3. \A n : HandedOver(n)' <=> HandedOver(n)
  BY <1>2 DEF HandedOver, WritersCalm
<1>4. PICK rec : /\ Become(c, rec) /\ Plain(rec)
                 /\ k.op \in {"time-limit", "shutdown"} => rec = Closing(k)
  <2>1. CASE k.op \in {"time-limit", "shutdown"}
    <3>1. Become(c, Closing(k)) /\ k.op \in CloseOp
      BY <2>1 DEF GivesUp, CloseOp
    <3>2. Plain(Closing(k))
      BY <3>1, PlainCalls
    <3> QED BY <3>1, <3>2
  <2>2. CASE k.op \notin {"time-limit", "shutdown"}
    BY <2>2, PlainCalls DEF GivesUp, Answer
  <2> QED BY <2>1, <2>2
<1>5. call'[c] = rec /\ \A d \in Caller : d # c => call'[d] = call[d]
  BY <1>4 DEF Become, TypeOK, CallsOK
<1>6. Closing(k).step = "closing" /\ Closing(k).op = k.op /\ Closing(k).at = k.at /\ Closing(k).turn = k.turn
  BY DEF Closing, Idle
<1>7. ~Leaves(c) /\ (Needed(c) => rec.at = k.at /\ rec.turn = k.turn /\ rec.op = "shutdown")
  BY <1>4, <1>6 DEF Needed, Covers, Leaves
<1>8. \A d \in Caller : CallCalm(d)
  BY <1>3, <1>4, <1>7, PlainCalls, OneCallCalm DEF Plain
<1>9. ASSUME NEW i \in Instance, OpenPair' \in released'[i], OpenPair' \notin released[i] PROVE NoneWrites(i)'
  <2>1. i = k.at /\ OpenPair' = <<turn, k.run>> /\ (k.op \in {"unhanded", "time-limit", "shutdown"} \/ (k.op = "begin" /\ told = "error"))
    <3> HIDE DEF turn
    <3>1. released' = released \/ released' = LetGo(k.at, turn, k.run)
      BY DEF GivesUp, turn
    <3>2. released' = released \/ k.op \in {"unhanded", "time-limit", "shutdown"} \/ (k.op = "begin" /\ told = "error")
      BY DEF GivesUp
    <3> QED BY <1>9, <3>1, <3>2 DEF LetGo, TypeOK, InstancesOK
  <2>2. head.state.open.turn = turn /\ head.state.open.run = k.run /\ head'.state.open.turn = turn
    BY <1>1, <2>1 DEF OpenPair
  <2>3. ASSUME NEW d \in Caller, call'[d].step = "opened" PROVE d # c /\ call'[d] = call[d] /\ IsUnhanded(call[d])
    BY <1>4, <1>5, <2>3 DEF Plain, IsUnhanded
  <2>4. CASE k.op = "begin"
    <3>1. Commits(k) /\ ~Refuses(k) /\ AskedWith(k) /\ CallHolds(k) /\ k.step = "read"
      BY <2>1, <2>4, CallInFlight DEF Commits, CallOK, RecordInvariant
    <3>2. PlanTells(k, BeginPlan(k)) /\ BeginPlan(k).next.turns \in Nat \ {0}
      BY <1>1, <2>4, <3>1, BeginPlanTells, BeginPlanShape
    <3>3. PICK e \in BeginPlan(k).events : e.kind = "turn.started" /\ e.run = k.run
      <4> DEFINE s == BeginReap(k).state
                 started == Started(s.turns + 1, k.run, k.key, Origin(k.ask.kind), k.item, k.ask.resumes,
                                    Taking(k, s) \cap Notice)
      <4>1. started \in BeginPlan(k).events
        BY DEF BeginPlan, Plan
      <4>2. started.kind = "turn.started" /\ started.run = k.run
        BY DEF Started
      <4> QED BY <4>1, <4>2
    <3>4. \A s \in Starts : s.run # k.run
      BY <3>2, <3>3 DEF PlanTells
    <3>5. IsOpen(head.state)
      BY <2>2, <2>4, <3>2 DEF IsOpen
    <3>6. \E s \in Starts : s.run = head.state.open.run
      BY <3>5 DEF TurnInvariant, LedgerOf, Starts, Of
    <3> QED BY <2>2, <3>4, <3>6
  <2>5. CASE k.op = "unhanded"
    <3>1. ~HandedOver(k.turn) /\ turn = k.turn /\ IsUnhanded(k)
      BY <1>1, <2>5 DEF KnowsTurn, IsUnhanded
    <3>2. PICK n : n = k.turn
      OBVIOUS
    <3>3. ~HandedOver(n)' /\ head'.state.open.turn = n
      BY <1>3, <2>2, <3>1, <3>2
    <3>4. \A w \in WriterId : ~WritesOpen(w)'
      BY <3>3 DEF WritesOpen, HandedOver, Live
    <3>5. \A d \in Caller : call'[d].step = "opened" => call'[d].turn # k.turn
      BY <2>3, <3>1 DEF HandoverInvariant, CallsAreKnown
    <3> QED BY <3>2, <3>3, <3>4, <3>5 DEF NoneWrites
  <2>6. CASE ClosesHanded(k)
    <3>1. HandedOver(k.turn) /\ turn = k.turn
      BY <1>1, <2>6 DEF KnowsTurn, IsHanded, ClosesHanded
    <3>2. IsClosing(call[c], i)'
      BY <1>4, <1>5, <1>6, <2>1, <2>2, <2>6, <3>1 DEF IsClosing, ClosesHanded
    <3>3. \A d \in Caller : call'[d].step = "opened" => call'[d].turn # k.turn
      BY <2>3, <3>1 DEF HandoverInvariant, CallsAreKnown, KnowsTurn
    <3> QED BY <2>2, <3>1, <3>2, <3>3 DEF NoneWrites
  <2> QED BY <2>1, <2>4, <2>5, <2>6 DEF ClosesHanded
<1>10. MapsCalm
  <2>1. \A w \in WriterId : WritesOpen(w)' => writer'[w].inst = writer[w].inst
    BY <1>2 DEF WritesOpen, WritersCalm
  <2> QED BY <1>1, <1>9, <2>1 DEF MapsCalm
<1>11. SweepCalm /\ HeadMoves
  BY <1>1, TurnNumbers DEF SweepCalm, Swept, HeadMoves, OpenPair, HandoverInvariant, OneLife
<1> QED BY <1>2, <1>8, <1>10, <1>11, CalmKeeps DEF Calm

(* So does a call that conflicts, finds no session, or fails.                *)
LEMMA FailingCallsKeep ==
  ASSUME TypeOK, TurnInvariant, RecordInvariant, HandoverInvariant, NEW c \in Caller
  PROVE  Conflicted(c) \/ Vanished(c) \/ StoreFailed(c) => HandoverInvariant'
<1> DEFINE k == call[c]
<1>1. k \in Call /\ KnowsTurn(k)
  BY CallInFlight DEF HandoverInvariant, CallsAreKnown, CallOK
<1>2. ASSUME Conflicted(c) PROVE HandoverInvariant'
  <2>1. k.step = "read" /\ UNCHANGED <<logVars, registered, stopping, alive>>
    BY <1>2 DEF Conflicted, Commits
  <2>2. CASE k.tries + 1 < Retries
    <3> DEFINE again == [k EXCEPT !.tries = @ + 1]
    <3>1. Become(c, Reading(again)) /\ UNCHANGED <<head, writer, registered, released, stopping, alive>>
      BY <1>2, <2>2 DEF Conflicted, logVars
    <3>2. again \in Call /\ again.op = k.op /\ again.turn = k.turn /\ again.at = k.at /\ again.step = "read"
      BY <1>1, <2>1 DEF Call
    <3>3. AsksKnown(again)
      BY <1>1, <3>2 DEF AsksKnown, KnowsTurn, IsUnhanded, IsHanded, ClosesHanded
    <3> HIDE DEF again
    <3>4. /\ KnowsTurn(Reading(again)) /\ Reading(again).step \in {"read", "refused"}
          /\ Reading(again).op = k.op /\ Reading(again).turn = k.turn /\ Reading(again).at = k.at
      BY <3>2, <3>3, ReadingKnows DEF HandoverInvariant
    <3>5. IsUnhanded(Reading(again)) => IsUnhanded(k)
      BY <3>4 DEF IsUnhanded
    <3>6. Needed(c) => Reading(again).op = "shutdown"
      BY <2>1, <3>4 DEF Needed, Covers
    <3>7. ~Leaves(c)
      BY <2>1 DEF Leaves
    <3>8. \A d \in Caller : CallCalm(d)
      <4> HIDE DEF k
      <4> QED BY <3>1, <3>4, <3>5, <3>6, <3>7, SameWriters, OneCallCalm DEF k
    <3> QED BY <3>1, <3>8, SameWriters, AsideKeeps
  <2>3. CASE ~(k.tries + 1 < Retries)
    <3>1. GivesUp(c, "contended")
      BY <1>2, <2>3 DEF Conflicted
    <3> QED BY <2>1, <3>1, GivesUpKeeps
  <2> QED BY <2>2, <2>3
<1>3. ASSUME Vanished(c) PROVE HandoverInvariant'
  <2>1. GivesUp(c, "missing") /\ k.step \in {"read", "lost"} /\ UNCHANGED <<logVars, registered, stopping, alive>>
    BY <1>3 DEF Vanished, Commits
  <2> QED BY <2>1, GivesUpKeeps
<1>4. ASSUME StoreFailed(c) PROVE HandoverInvariant'
  <2>1. GivesUp(c, "error") /\ Commits(k) /\ k.step = "read" /\ UNCHANGED <<logVars, registered, stopping, alive>>
    BY <1>4 DEF StoreFailed, Commits
  <2> QED BY <2>1, GivesUpKeeps
<1> QED BY <1>2, <1>3, <1>4

(* So does a begin that is stored: its turn is new, and the first of its     *)
(* number.                                                                   *)
LEMMA BeginStoredKeeps ==
  ASSUME TypeOK, TurnInvariant, HandoverInvariant, NEW c \in Caller, BeginStored(c)
  PROVE  HandoverInvariant'
<1> DEFINE k == call[c]
           plan == BeginPlan(k)
           n == head.state.turns
           rec == [k EXCEPT !.step = "opened", !.turn = plan.next.turns, !.rev = head.rev + 1,
                            !.state = plan.next, !.reaped = BeginReap(k).closed, !.ask = NoAsk,
                            !.item = NoItem, !.key = NoKey, !.now = 0, !.tries = 0]
<1>1. /\ Commits(k) /\ k.op = "begin" /\ k.step = "read" /\ ~Refuses(k) /\ StoreAnswers(k) = "stored"
      /\ StoreCommit(plan.events, plan.next) /\ Become(c, rec) /\ released' = [released EXCEPT ![k.at] = {}]
      /\ UNCHANGED <<writer, registered, stopping, alive>>
  BY DEF BeginStored, Commits
<1>2. PlanOf(k) = plan
  BY <1>1 DEF PlanOf, CloseOp
<1>3. plan.next \in State /\ Decides(k.state, plan.events, plan.next) /\ Snapshot(head, k.inc, k.rev, k.state)
  BY <1>1, <1>2, PlannedCommit
<1>4. k.state = head.state
  BY <1>1, <1>3, StoredFromHead DEF StoreAnswers
<1>5. k \in Call /\ k.at \in Instance /\ plan.next.open.turn = plan.next.turns
  BY <1>1, CallInFlight, BeginPlanShape DEF CallOK
<1>6. \E e \in plan.events : e.kind = "turn.started"
  <2> DEFINE s == BeginReap(k).state
             started == Started(s.turns + 1, k.run, k.key, Origin(k.ask.kind), k.item, k.ask.resumes,
                                Taking(k, s) \cap Notice)
  <2>1. started \in plan.events
    BY DEF BeginPlan, Plan
  <2>2. started.kind = "turn.started"
    BY DEF Started
  <2> QED BY <2>1, <2>2
<1>7. plan.next.turns = n + 1 /\ n \in Nat
  BY <1>3, <1>4, <1>6, TurnNumbers DEF Decides
<1>8. rec.step = "opened" /\ rec.op = "begin" /\ rec.turn = n + 1 /\ rec.at = k.at
  <2> HIDE DEF plan, n
  <2> QED BY <1>1, <1>5, <1>7 DEF Call
<1> HIDE DEF plan, rec
<1>9. head'.state = plan.next /\ OneLife'
  BY <1>1, HeadType DEF StoreCommit, TypeOK, HandoverInvariant, OneLife
<1>10. head'.state.turns = n + 1 /\ head'.state.open.turn = n + 1
  BY <1>5, <1>7, <1>9
<1>11. HeadMoves /\ WritersCalm
  BY <1>1, <1>7, <1>9, <1>10, SameWriters DEF HeadMoves
<1>12. call'[c] = rec /\ \A d \in Caller : d # c => call'[d] = call[d]
  BY <1>1 DEF Become, TypeOK, CallsOK
<1>13. WritersAreKnown /\ CallsAreKnown
  BY DEF HandoverInvariant
<1>14. ASSUME NEW w \in WriterId, writer[w].phase # "None" PROVE w.turn \in 1..n /\ w.turn \in 1..(n + 1) /\ w.turn # n + 1
  <2>1. w.turn \in 1..n
    BY <1>13, <1>14 DEF WritersAreKnown
  <2> QED BY <1>7, <2>1
<1>15. \A w \in WriterId : ~WritesOpen(w)'
  BY <1>1, <1>10, <1>14 DEF WritesOpen, Live
<1>16. ASSUME NEW d \in Caller, d # c, IsUnhanded(call'[d]) PROVE call'[d].turn \in 1..n /\ call'[d].turn # n + 1
  <2>1. call[d].turn \in 1..n
    BY <1>12, <1>13, <1>16 DEF CallsAreKnown, KnowsTurn
  <2> QED BY <1>7, <1>12, <1>16, <2>1
<1>17. WritersAreKnown'
  <2> HIDE DEF n
  <2> QED BY <1>1, <1>10, <1>13, <1>14 DEF WritersAreKnown
<1>18. CallsAreKnown'
  <2>1. ASSUME NEW d \in Caller, d # c PROVE KnowsTurn(call[d])'
    BY <1>11, <1>12, <1>13, <2>1, KnowsStill DEF CallsAreKnown
  <2>2. KnowsTurn(call[c])'
    <3>1. ~HandedOver(call[c].turn)'
      BY <1>1, <1>8, <1>12, <1>14 DEF HandedOver
    <3>2. rec.turn \in 1..head'.state.turns
      BY <1>7, <1>8, <1>10
    <3> QED BY <1>8, <1>12, <3>1, <3>2 DEF KnowsTurn, IsUnhanded, IsHanded, ClosesHanded
  <2>3. ASSUME NEW d \in Caller, NEW e \in Caller, IsUnhanded(call'[d]), IsUnhanded(call'[e]), call'[d].turn = call'[e].turn
        PROVE  d = e
    <3>1. CASE d # c /\ e # c
      BY <1>12, <1>13, <2>3, <3>1 DEF CallsAreKnown
    <3>2. CASE d = c \/ e = c
      BY <1>8, <1>12, <1>16, <2>3, <3>2
    <3> QED BY <3>1, <3>2
  <2> QED BY <2>1, <2>2, <2>3 DEF CallsAreKnown, IsUnhanded
<1>19. LetGoIsOver'
  <2> SUFFICES ASSUME NEW i \in Instance, OpenPair' \in released'[i] PROVE NoneWrites(i)'
    BY DEF LetGoIsOver
  <2>1. i # k.at
    BY <1>1, <1>5 DEF TypeOK, InstancesOK
  <2>2. ASSUME NEW d \in Caller, call'[d].step = "opened", call'[d].at = i PROVE call'[d].turn # head'.state.open.turn
    <3>1. d # c
      BY <1>8, <1>12, <2>1, <2>2
    <3> QED BY <1>10, <1>16, <2>2, <3>1 DEF IsUnhanded
  <2> QED BY <1>15, <2>2 DEF NoneWrites
<1>20. LiveAreRegistered' /\ SweptAreCovered'
  BY <1>15 DEF LiveAreRegistered, SweptAreCovered
<1> QED BY <1>9, <1>17, <1>18, <1>19, <1>20 DEF HandoverInvariant

(* So does a handover, if it comes in order: no writer of the open turn is   *)
(* put out of its instance's map, since its turn is the last.                *)
LEMMA HandoverKeeps ==
  ASSUME TypeOK, TurnInvariant, HandoverInvariant, NEW c \in Caller, Handover(c), HandedOverInOrder
  PROVE  HandoverInvariant'
<1> DEFINE k == call[c]
           w == [inc |-> k.inc, turn |-> k.turn]
           me == [NoHold EXCEPT !.inst = k.at, !.run = k.run, !.phase = "Open", !.rev = k.rev, !.state = k.state]
           rec == [Unread(k) EXCEPT !.step = "handed", !.reaped = 0]
           others == ClosedLocally(k.at, k.reaped, "interrupted")
           n == head.state.turns
<1>1. /\ k.step = "opened" /\ writer' = [others EXCEPT ![w] = me] /\ registered' = [registered EXCEPT ![k.at] = w]
      /\ Become(c, rec) /\ UNCHANGED <<head, released, stopping, alive>>
  BY DEF Handover, logVars
<1>2. k \in Call /\ k.at \in Instance /\ k.inc \in 1..MaxInc /\ k.turn \in 1..MaxTurn /\ KnowsTurn(k)
      /\ WritersAreKnown /\ CallsAreKnown /\ OneLife
  BY <1>1, CallInFlight DEF HandoverInvariant, CallsAreKnown, CallOK, AskedWith
<1>3. k.op = "begin" /\ k.turn \in 1..n /\ ~HandedOver(k.turn)
  BY <1>1, <1>2 DEF KnowsTurn, IsUnhanded
<1>4. w \in WriterId /\ w.turn = k.turn /\ w.inc = 1
  <2>1. k.inc <= 1
    BY <1>1, <1>2 DEF TurnInvariant, PlansFromTheHead, CallsFollow, CallFollows, Snapshot, Past, OneLife
  <2>2. k.inc = 1
    BY <1>2, <2>1
  <2> QED BY <1>2, <2>2 DEF WriterId
<1>5. me.inst = k.at /\ me.phase = "Open" /\ rec.step = "handed" /\ rec.op = "begin" /\ rec.at = k.at /\ rec.turn = k.turn
  BY <1>2, <1>3 DEF NoHold, Unread, Call
<1>6. writer[w].phase = "None"
  BY <1>3, <1>4 DEF HandedOver
<1>7. others \in [WriterId -> Writer] /\ \A v \in WriterId : others[v] = writer[v]
         \/ (writer[v].phase \in Live /\ others[v].phase = "Closed")
  <2>1. \A v : Stopped(v, "interrupted") = v \/ (v.phase \in Live /\ Stopped(v, "interrupted").phase = "Closed")
    BY DEF Stopped, Stop, NoHold
  <2>2. others \in [WriterId -> Writer]
    BY <1>2, ClosedLocallyType DEF TypeOK, Call, WriterTold
  <2>3. \A v \in WriterId : others[v] \in {writer[v], Stopped(writer[v], "interrupted")}
    BY DEF ClosedLocally, TypeOK, WritersOK
  <2> HIDE DEF others
  <2> QED BY <2>1, <2>2, <2>3
<1> HIDE DEF me, rec, others
<1>8. writer'[w] = me /\ \A v \in WriterId : v # w => writer'[v] = others[v]
  <2> HIDE DEF w
  <2> QED BY <1>1, <1>4, <1>7
<1>9. registered'[k.at] = w /\ \A i \in Instance : i # k.at => registered'[i] = registered[i]
  BY <1>1, <1>2 DEF TypeOK, InstancesOK
<1>10. call'[c] = rec /\ \A d \in Caller : d # c => call'[d] = call[d]
  BY <1>1 DEF Become, TypeOK, CallsOK
<1> HIDE DEF w, k, n
<1>11. \A v \in WriterId : v # w /\ writer[v].phase # "None" =>
          writer'[v].phase # "None" /\ (writer'[v].phase \in Live => writer'[v] = writer[v])
  BY <1>7, <1>8 DEF Live
<1>12. \A v \in WriterId : v # w /\ writer[v].phase = "None" => writer'[v] = writer[v]
  BY <1>7, <1>8 DEF Live
<1>13. \A m : HandedOver(m)' <=> HandedOver(m) \/ m = k.turn
  <2>1. \A v \in WriterId : writer'[v].phase # "None" <=> writer[v].phase # "None" \/ v = w
    BY <1>5, <1>6, <1>8, <1>11, <1>12
  <2> QED BY <1>4, <2>1 DEF HandedOver
<1>14. \A v \in WriterId : WritesOpen(v)' => v = w \/ (v # w /\ WritesOpen(v) /\ writer'[v].inst = writer[v].inst)
  BY <1>1, <1>11, <1>12 DEF WritesOpen, Live
<1>15. WritersAreKnown'
  <2>1. \A v \in WriterId : IF writer'[v].phase = "None" THEN writer'[v] = NoHold
                            ELSE v.inc = 1 /\ v.turn \in 1..head'.state.turns
    BY <1>1, <1>2, <1>3, <1>4, <1>5, <1>8, <1>11, <1>12 DEF WritersAreKnown, n
  <2>2. ASSUME NEW i \in Instance, registered'[i] # NoWriter PROVE writer'[registered'[i]].phase # "None"
    <3>1. CASE i = k.at
      BY <1>5, <1>8, <1>9, <3>1
    <3>2. CASE i # k.at
      <4>1. registered'[i] \in WriterId /\ writer[registered'[i]].phase # "None"
        BY <1>2, <1>9, <2>2, <3>2, TurnNumbers DEF WritersAreKnown
      <4> QED BY <1>6, <1>11, <4>1
    <3> QED BY <3>1, <3>2
  <2> QED BY <2>1, <2>2 DEF WritersAreKnown
<1>16. CallsAreKnown'
  <2>1. ASSUME NEW d \in Caller, d # c PROVE KnowsTurn(call[d])'
    <3> DEFINE l == call[d]
    <3>1. KnowsTurn(l) /\ (IsUnhanded(l) => l.turn # k.turn)
      BY <1>1, <1>2, <2>1 DEF CallsAreKnown, IsUnhanded, k
    <3>2. PICK m : m = l.turn
      OBVIOUS
    <3>3. IsUnhanded(l) => ~HandedOver(m)'
      BY <1>13, <3>1, <3>2 DEF KnowsTurn
    <3>4. IsHanded(l) => HandedOver(m)'
      BY <1>13, <3>1, <3>2 DEF KnowsTurn
    <3>5. HandedOver(call[d].turn)' <=> HandedOver(m)'
      BY <1>10, <2>1, <3>2 DEF HandedOver
    <3> QED BY <1>1, <1>10, <2>1, <3>1, <3>3, <3>4, <3>5 DEF KnowsTurn, IsUnhanded, IsHanded, ClosesHanded
  <2>2. KnowsTurn(call[c])'
    <3>1. HandedOver(call[c].turn)'
      <4>1. call'[c].turn = w.turn
        BY <1>4, <1>5, <1>10
      <4> QED BY <1>4, <1>5, <1>8, <4>1 DEF HandedOver
    <3>2. rec.turn \in 1..head'.state.turns
      BY <1>1, <1>3, <1>5 DEF n
    <3> QED BY <1>5, <1>10, <3>1, <3>2 DEF KnowsTurn, IsUnhanded, IsHanded, ClosesHanded
  <2>3. ~IsUnhanded(call'[c])
    BY <1>5, <1>10 DEF IsUnhanded
  <2>4. \A d, e \in Caller : IsUnhanded(call'[d]) /\ IsUnhanded(call'[e]) /\ call'[d].turn = call'[e].turn => d = e
    BY <1>2, <1>10, <2>3 DEF CallsAreKnown
  <2> QED BY <2>1, <2>2, <2>4 DEF CallsAreKnown, IsUnhanded
<1>17. LiveAreRegistered'
  <2> SUFFICES ASSUME NEW v \in WriterId, WritesOpen(v)' PROVE registered'[writer'[v].inst] = v
    BY DEF LiveAreRegistered
  <2>1. CASE v = w
    BY <1>5, <1>8, <1>9, <2>1
  <2>2. CASE v # w
    <3>1. WritesOpen(v) /\ writer'[v].inst = writer[v].inst /\ writer[v].inst \in Instance
      BY <1>14, <2>2, WriterInUse DEF WritesOpen
    <3>2. registered[writer[v].inst] = v
      BY <3>1 DEF HandoverInvariant, LiveAreRegistered
    <3>3. writer[v].inst # k.at
      <4> SUFFICES ASSUME writer[v].inst = k.at PROVE FALSE
        OBVIOUS
      <4>1. registered'[k.at] \notin {registered[k.at], NoWriter}
        BY <1>4, <1>9, <2>2, <3>2 DEF NoWriter
      <4>2. w.turn > v.turn
        BY <1>2, <1>9, <3>2, <4>1 DEF HandedOverInOrder
      <4>3. v.turn = n
        <5>1. IsOpen(head.state) /\ v.turn = head.state.open.turn
          BY <3>1, TurnNumbers DEF WritesOpen, IsOpen
        <5> QED BY <5>1 DEF TurnInvariant, LedgerOf, n
      <4> QED BY <1>3, <1>4, <4>2, <4>3, TurnNumbers DEF n
    <3> QED BY <1>9, <3>1, <3>2, <3>3
  <2> QED BY <2>1, <2>2
<1>18. LetGoIsOver'
  <2> SUFFICES ASSUME NEW i \in Instance, OpenPair' \in released'[i] PROVE NoneWrites(i)'
    BY DEF LetGoIsOver
  <2>1. NoneWrites(i)
    BY <1>1 DEF HandoverInvariant, LetGoIsOver, OpenPair
  <2>2. ASSUME NEW v \in WriterId, WritesOpen(v)', writer'[v].inst = i PROVE \E d \in Caller : IsClosing(call[d], i)'
    <3>1. CASE v = w
      <4>1. k.turn = head.state.open.turn
        BY <1>1, <1>4, <2>2, <3>1 DEF WritesOpen
      <4>2. k.at # i
        BY <1>1, <2>1, <4>1 DEF NoneWrites, k
      <4> QED BY <1>5, <1>8, <2>2, <3>1, <4>2
    <3>2. CASE v # w
      <4>1. PICK d \in Caller : IsClosing(call[d], i)
        BY <1>14, <2>1, <2>2, <3>2 DEF NoneWrites
      <4>2. d # c
        BY <1>1, <4>1 DEF IsClosing, k
      <4> QED BY <1>1, <1>10, <4>1, <4>2 DEF IsClosing
    <3> QED BY <3>1, <3>2
  <2>3. ASSUME NEW d \in Caller, call'[d].step = "opened", call'[d].at = i PROVE call'[d].turn # head'.state.open.turn
    <3>1. d # c
      BY <1>5, <1>10, <2>3
    <3> QED BY <1>1, <1>10, <2>1, <2>3, <3>1 DEF NoneWrites
  <2> QED BY <2>2, <2>3 DEF NoneWrites
<1>19. SweptAreCovered'
  <2> SUFFICES ASSUME NEW v \in WriterId, WritesOpen(v)', Swept(writer[v].inst)'
               PROVE  \E d \in Caller : Covers(call'[d], writer'[v].inst, v.turn)
    BY DEF SweptAreCovered, Covers
  <2>1. CASE v = w
    BY <1>4, <1>5, <1>8, <1>10, <2>1 DEF Covers
  <2>2. CASE v # w
    <3>1. WritesOpen(v) /\ writer'[v].inst = writer[v].inst /\ Swept(writer[v].inst)
      BY <1>1, <1>14, <2>2 DEF Swept
    <3>2. PICK d \in Caller : Covers(call[d], writer[v].inst, v.turn)
      BY <3>1 DEF HandoverInvariant, SweptAreCovered
    <3>3. d # c
      BY <1>1, <1>3, <3>2 DEF Covers, k
    <3> QED BY <1>10, <3>1, <3>2, <3>3
  <2> QED BY <2>1, <2>2
<1>20. OneLife'
  BY <1>1, <1>2 DEF OneLife
<1> QED BY <1>15, <1>16, <1>17, <1>18, <1>19, <1>20 DEF HandoverInvariant

-----------------------------------------------------------------------------
(* Writers.                                                                  *)

(* A writer that goes on or stops, and what it commits, keep the invariant.  *)
LEMMA OneWriterKeeps ==
  ASSUME Stepped, NEW w \in WriterId, NEW rec, writer' = [writer EXCEPT ![w] = rec],
         writer[w].phase # "None", rec.phase # "None",
         rec.phase \in Live => writer[w].phase \in Live /\ rec.inst = writer[w].inst,
         UNCHANGED logVars \/ \E events, next : StoreCommit(events, next),
         UNCHANGED <<call, registered, released, stopping, alive>>
  PROVE  HandoverInvariant'
<1>1. HeadMoves
  BY SteppedHead
<1>2. TypeOK /\ HandoverInvariant
  BY DEF Stepped
<1>3. WritersCalm
  BY <1>2, OneWriterCalm
<1> QED BY <1>1, <1>2, <1>3, WritersKeep

(* So does every commit of a writer.                                         *)
LEMMA WriterCommitsKeep ==
  ASSUME Stepped, NEW w \in WriterId
  PROVE  /\ Append(w) \/ KeepAlive(w) \/ SealCommit(w) \/ EndCommit(w) => HandoverInvariant'
         /\ \A items \in SUBSET Steer : Take(w, items) => HandoverInvariant'
<1> DEFINE me == writer[w]
           tried == [me EXCEPT !.tried = TRUE]
           sealing == [me EXCEPT !.sealing = me.held]
           ended == Stop(me, "Ended", "none")
<1>1. me \in Writer /\ (Writing(w) => me.phase \in Live)
  BY WriterInUse DEF Stepped, WriterOK, Writing, Live
<1>2. ASSUME NEW events, NEW next, NEW rec \in Writer, WriterCommits(w, events, next, rec), me.phase \in Live,
             rec.phase \in Live \cup {"Ended"}, rec.inst = me.inst
      PROVE  HandoverInvariant'
  <2>1. At(rec, next).phase = rec.phase /\ At(rec, next).inst = rec.inst
    BY DEF At, Writer
  <2>2. /\ writer' = [writer EXCEPT ![w] = At(rec, next)] /\ StoreCommit(events, next)
        /\ UNCHANGED <<call, registered, released, stopping, alive>>
    BY <1>2 DEF WriterCommits
  <2>3. me.phase # "None" /\ At(rec, next).phase # "None"
    BY <1>2, <2>1 DEF Live
  <2> HIDE DEF me
  <2> QED BY <1>2, <2>1, <2>2, <2>3, OneWriterKeeps DEF me
<1>3. tried \in Writer /\ tried.phase = me.phase /\ tried.inst = me.inst
  BY <1>1 DEF Writer
<1>4. SealCommit(w) => sealing \in Writer /\ sealing.phase = me.phase /\ sealing.inst = me.inst
  BY <1>1 DEF Writer
<1>5. ended \in Writer /\ ended.phase = "Ended" /\ ended.inst = me.inst
  BY <1>1, NoHoldType DEF Stop, NoHold, Writer, Phase
<1> HIDE DEF me, tried, sealing, ended
<1>6. ASSUME Append(w) PROVE HandoverInvariant'
  <2>1. \E next : WriterCommits(w, {Wrote(w.turn)}, next, tried) /\ me.phase \in Live
    BY <1>1, <1>6 DEF Append, me, tried
  <2> QED BY <1>2, <1>3, <2>1
<1>7. ASSUME KeepAlive(w) PROVE HandoverInvariant'
  <2>1. \E next : WriterCommits(w, {}, next, me) /\ me.phase \in Live
    BY <1>7 DEF KeepAlive, Live, me
  <2> QED BY <1>1, <1>2, <2>1
<1>8. ASSUME SealCommit(w) PROVE HandoverInvariant'
  <2>1. \E next : WriterCommits(w, {}, next, sealing) /\ me.phase \in Live
    BY <1>1, <1>8 DEF SealCommit, me, sealing
  <2> QED BY <1>2, <1>4, <1>8, <2>1
<1>9. ASSUME EndCommit(w) PROVE HandoverInvariant'
  <2>1. WriterCommits(w, EndEvents(w), EndState(w), ended) /\ me.phase \in Live
    BY <1>9 DEF EndCommit, Live, me, ended
  <2> QED BY <1>2, <1>5, <2>1
<1>10. ASSUME NEW items \in SUBSET Steer, Take(w, items) PROVE HandoverInvariant'
  <2>1. \E next : WriterCommits(w, {Taken(w.turn, items)}, next, tried) /\ me.phase \in Live
    BY <1>1, <1>10 DEF Take, me, tried
  <2> QED BY <1>2, <1>3, <2>1
<1> QED BY <1>6, <1>7, <1>8, <1>9, <1>10

(* So do its steps beside the log.                                           *)
LEMMA WriterLocalKeeps ==
  ASSUME Stepped, NEW w \in WriterId
  PROVE  /\ SealApply(w) \/ Learns(w) \/ Contends(w) \/ WriteFails(w) => HandoverInvariant'
         /\ \A reply \in Replies : Hold(w, reply) => HandoverInvariant'
         /\ \A ending \in Endings : End(w, ending) => HandoverInvariant'
         /\ \A unended \in Unended : ScopeCloses(w, unended) => HandoverInvariant'
<1> DEFINE me == writer[w]
           same == UNCHANGED <<logVars, call, registered, released, stopping, alive>>
           went == [me EXCEPT !.rev = head.rev, !.state = head.state]
           again == [me EXCEPT !.phase = "Open", !.attempted = me.ending]
           onward == [me EXCEPT !.phase = "Open", !.attempted = me.ending, !.rev = head.rev, !.state = head.state]
<1>1. me \in Writer /\ writer \in [WriterId -> Writer] /\ (Writing(w) => me.phase \in Live)
      /\ (me.phase = "None" => me = NoHold)
  BY WriterInUse DEF Stepped, WriterOK, TypeOK, WritersOK, Writing, Live, HandoverInvariant, WritersAreKnown
<1>2. \A phase, told : Stop(me, phase, told).phase = phase
  BY DEF Stop, NoHold
<1>3. \A told : me.phase \in Live => Stopped(me, told).phase = "Closed"
  BY DEF Stopped, Stop, NoHold
<1>4. ASSUME NEW rec, writer' = [writer EXCEPT ![w] = rec], same, me.phase # "None",
             rec.phase \in {"Closed", "Failed"} \/ (rec.phase \in Live /\ me.phase \in Live /\ rec.inst = me.inst)
                \/ (rec.phase = me.phase /\ rec.inst = me.inst)
      PROVE  HandoverInvariant'
  <2>1. rec.phase # "None" /\ (rec.phase \in Live => me.phase \in Live /\ rec.inst = me.inst)
    BY <1>4 DEF Live
  <2> HIDE DEF me
  <2> QED BY <1>4, <2>1, OneWriterKeeps DEF me
<1>5. went.phase = me.phase /\ went.inst = me.inst /\ again.phase = "Open" /\ again.inst = me.inst
      /\ onward.phase = "Open" /\ onward.inst = me.inst
  BY <1>1 DEF Writer
<1>6. me.phase \in Live => me.phase # "None"
  BY DEF Live
<1>7. UNCHANGED <<logVars, call, registered, released, stopping, alive, stalled, faults>> => same
  OBVIOUS
<1> HIDE DEF same
<1>8. ASSUME SealApply(w) PROVE HandoverInvariant'
  <2> DEFINE rec == [me EXCEPT !.sealing = "none", !.sealed = IF me.phase = "Open" THEN me.sealing ELSE @]
  <2>1. writer' = [writer EXCEPT ![w] = rec] /\ same
    BY <1>1, <1>7, <1>8 DEF SealApply, Writer
  <2>2. rec.phase = me.phase /\ rec.inst = me.inst
    BY <1>1 DEF Writer
  <2>3. me.phase # "None"
    BY <1>1, <1>8 DEF SealApply, NoHold
  <2> HIDE DEF rec
  <2> QED BY <1>4, <2>1, <2>2, <2>3
<1>9. ASSUME Learns(w) PROVE HandoverInvariant'
  <2>1. same /\ me.phase \in Live
    BY <1>7, <1>9 DEF Learns
  <2>2. CASE \E told : writer' = [writer EXCEPT ![w] = Stopped(me, told)]
    BY <1>3, <1>4, <1>6, <2>1, <2>2
  <2>3. CASE writer' = [writer EXCEPT ![w] = went]
    <3> HIDE DEF went, me
    <3> QED BY <1>4, <1>5, <1>6, <2>1, <2>3
  <2>4. \/ \E told : writer' = [writer EXCEPT ![w] = Stopped(me, told)]
        \/ writer' = [writer EXCEPT ![w] = went]
    <3> DEFINE told == IF {e \in Ends : e.turn = w.turn /\ e.reason = "cancelled"} # {} THEN "cancelled" ELSE "interrupted"
    <3>1. \/ writer' = [writer EXCEPT ![w] = Stopped(me, "interrupted")]
          \/ writer' = [writer EXCEPT ![w] = Stopped(me, "removed")]
          \/ writer' = [writer EXCEPT ![w] = went]
          \/ writer' = [writer EXCEPT ![w] = Stopped(me, told)]
      BY <1>1, <1>9 DEF Learns
    <3> HIDE DEF told, went
    <3> QED BY <3>1
  <2> QED BY <2>2, <2>3, <2>4
<1>10. ASSUME Contends(w) PROVE HandoverInvariant'
  <2>1. same
    BY <1>7, <1>10 DEF Contends
  <2>2. CASE me.phase \in Live /\ writer' = [writer EXCEPT ![w] = Stop(me, "Failed", "error")]
    BY <1>2, <1>4, <1>6, <2>1, <2>2
  <2>3. CASE me.phase \in Live /\ writer' = [writer EXCEPT ![w] = onward]
    <3> HIDE DEF onward, me
    <3> QED BY <1>4, <1>5, <1>6, <2>1, <2>3 DEF Live
  <2> QED BY <1>1, <1>10, <2>2, <2>3 DEF Contends, Live
<1>11. ASSUME WriteFails(w) PROVE HandoverInvariant'
  <2>1. same /\ me.phase \in Live
    BY <1>11 DEF WriteFails, same
  <2>2. \/ writer' = [writer EXCEPT ![w] = Stop(me, "Failed", "error")]
        \/ writer' = [writer EXCEPT ![w] = me]
        \/ writer' = [writer EXCEPT ![w] = again]
    BY <1>11 DEF WriteFails
  <2> HIDE DEF again, me
  <2> QED BY <1>2, <1>4, <1>5, <1>6, <2>1, <2>2 DEF Live
<1>12. ASSUME NEW reply \in Replies, Hold(w, reply) PROVE HandoverInvariant'
  <2> DEFINE rec == [me EXCEPT !.held = reply, !.tried = TRUE]
  <2>1. writer' = [writer EXCEPT ![w] = rec] /\ same /\ me.phase \in Live
    BY <1>1, <1>7, <1>12 DEF Hold, Writer
  <2>2. rec.phase = me.phase /\ rec.inst = me.inst
    BY <1>1 DEF Writer
  <2> HIDE DEF rec
  <2> QED BY <1>4, <1>6, <2>1, <2>2
<1>13. ASSUME NEW ending, NEW scope, BeginEnd(w, ending, scope) PROVE HandoverInvariant'
  <2> DEFINE as == IF me.sealed # "none" THEN me.sealed ELSE ending
             rec == [me EXCEPT !.phase = "Ending", !.scope = scope, !.ending = as]
  <2>1. writer' = [writer EXCEPT ![w] = rec] /\ same /\ me.phase \in Live
    BY <1>7, <1>13 DEF BeginEnd, Live
  <2>2. rec.phase = "Ending" /\ rec.inst = me.inst
    <3> HIDE DEF as
    <3> QED BY <1>1 DEF Writer
  <2> HIDE DEF rec
  <2> QED BY <1>4, <1>6, <2>1, <2>2 DEF Live
<1>14. ASSUME NEW ending \in Endings, End(w, ending) PROVE HandoverInvariant'
  BY <1>13, <1>14 DEF End
<1>15. ASSUME NEW unended \in Unended, ScopeCloses(w, unended) PROVE HandoverInvariant'
  <2>1. CASE \E ending : BeginEnd(w, ending, TRUE)
    BY <1>13, <2>1
  <2>2. CASE me.phase = "Ending" /\ writer' = [writer EXCEPT ![w].scope = TRUE] /\ same
    <3> DEFINE rec == [me EXCEPT !.scope = TRUE]
    <3>1. writer' = [writer EXCEPT ![w] = rec] /\ rec.phase = me.phase /\ rec.inst = me.inst /\ me.phase \in Live
      BY <1>1, <2>2 DEF Writer, Live
    <3> HIDE DEF rec
    <3> QED BY <1>4, <1>6, <2>2, <3>1
  <2> QED BY <1>7, <1>15, <2>1, <2>2 DEF ScopeCloses
<1> QED BY <1>8, <1>9, <1>10, <1>11, <1>12, <1>14, <1>15

(* So does a scope that closed: the instance forgets the writer of this turn *)
(* alone, and lets the turn go, which no begin hands over again.             *)
LEMMA ScopeDoneKeeps ==
  ASSUME TypeOK, HandoverInvariant, NEW w \in WriterId, ScopeDone(w)
  PROVE  HandoverInvariant'
<1> DEFINE me == writer[w]
           there == registered[me.inst]
           gone == [NoHold EXCEPT !.phase = "Gone"]
<1>1. /\ me.phase # "None" /\ writer' = [writer EXCEPT ![w] = gone]
      /\ released' = released \/ (there.turn = w.turn /\ \E run : released' = LetGo(me.inst, w.turn, run))
      /\ IF there.turn = w.turn THEN registered' = [registered EXCEPT ![me.inst] = NoWriter] ELSE registered' = registered
      /\ UNCHANGED <<head, call, stopping, alive>>
  BY DEF ScopeDone, logVars
<1>2. gone.phase = "Gone"
  BY DEF NoHold
<1>3. w.inc = 1 /\ HandedOver(w.turn)
  BY <1>1 DEF HandoverInvariant, WritersAreKnown, HandedOver
<1>4. writer'[w].phase = "Gone" /\ \A v \in WriterId : v # w => writer'[v] = writer[v]
  BY <1>1, <1>2 DEF TypeOK, WritersOK
<1>5. ASSUME NEW v \in WriterId, WritesOpen(v)' PROVE v # w /\ WritesOpen(v) /\ writer'[v] = writer[v] /\ v.turn # w.turn
  <2>1. v # w
    BY <1>4, <1>5 DEF WritesOpen, Live
  <2>2. writer'[v] = writer[v] /\ writer[v].phase \in Live
    BY <1>4, <1>5, <2>1 DEF WritesOpen
  <2>3. v.inc = 1
    BY <2>2 DEF HandoverInvariant, WritersAreKnown, Live
  <2>4. v.turn # w.turn
    BY <1>3, <2>1, <2>3 DEF WriterId
  <2> QED BY <1>1, <1>5, <2>1, <2>2, <2>4 DEF WritesOpen
<1>6. HeadMoves
  BY <1>1, TurnNumbers DEF HeadMoves, OpenPair, HandoverInvariant, OneLife
<1> HIDE DEF gone
<1>7. WritersCalm
  BY <1>1, <1>2, OneWriterCalm DEF Live
<1>8. MapsCalm
  <2>1. \A i \in Instance : registered'[i] \in {registered[i], NoWriter}
    BY <1>1 DEF TypeOK, InstancesOK
  <2>2. ASSUME NEW v \in WriterId, WritesOpen(v)' PROVE registered'[writer'[v].inst] = registered[writer[v].inst]
    <3>1. /\ writer'[v] = writer[v] /\ registered[writer[v].inst] = v /\ v.turn # w.turn
      BY <1>5, <2>2 DEF HandoverInvariant, LiveAreRegistered
    <3>2. there.turn = w.turn => writer[v].inst # me.inst
      BY <3>1
    <3>3. writer[v].inst \in Instance
      BY <1>5, <2>2, WriterInUse DEF WritesOpen
    <3> QED BY <1>1, <3>1, <3>2, <3>3 DEF TypeOK, InstancesOK
  <2>3. ASSUME NEW i \in Instance, OpenPair' \in released'[i], OpenPair' \notin released[i] PROVE NoneWrites(i)'
    <3>1. head'.state.open.turn = w.turn
      <4>1. PICK run : released' = LetGo(me.inst, w.turn, run)
        BY <1>1, <2>3
      <4>2. OpenPair' = <<w.turn, run>>
        BY <2>3, <4>1 DEF LetGo, TypeOK, InstancesOK
      <4> QED BY <4>2 DEF OpenPair
    <3>2. \A v \in WriterId : ~WritesOpen(v)'
      BY <1>5, <3>1 DEF WritesOpen
    <3>3. \A c \in Caller : call[c].step = "opened" => call[c].turn # w.turn
      BY <1>3 DEF HandoverInvariant, CallsAreKnown, KnowsTurn, IsUnhanded
    <3> QED BY <1>1, <3>1, <3>2, <3>3 DEF NoneWrites
  <2>4. \A v \in WriterId : WritesOpen(v)' => registered'[writer[v].inst] = registered[writer[v].inst]
    BY <1>5, <2>2
  <2> QED BY <2>1, <2>3, <2>4 DEF MapsCalm
<1>9. SweepCalm /\ \A c \in Caller : CallCalm(c)
  BY <1>1, <1>5 DEF SweepCalm, Swept, CallCalm
<1> QED BY <1>6, <1>7, <1>8, <1>9, CalmKeeps DEF Calm

-----------------------------------------------------------------------------
(* Shutdowns, crashes, and the session's own life.                           *)

(* So does a crash: what dies writes nothing.                                *)
LEMMA CrashKeeps ==
  ASSUME TypeOK, HandoverInvariant, NEW i \in Instance, Crash(i)
  PROVE  HandoverInvariant'
<1>1. /\ alive' = [alive EXCEPT ![i] = FALSE]
      /\ registered' = [registered EXCEPT ![i] = NoWriter] /\ released' = [released EXCEPT ![i] = {}]
      /\ \A c \in Caller : call'[c] = IF call[c].at = i THEN Idle ELSE call[c]
      /\ UNCHANGED <<head, stopping>>
  BY DEF Crash, logVars
<1>2. \A w \in WriterId : IF writer[w].inst = i THEN writer'[w].phase = "Gone" ELSE writer'[w] = writer[w]
  BY DEF Crash, NoHold
<1>3. \A w \in WriterId : writer[w].phase = "None" => writer[w].inst # i
  <2>1. \A w \in WriterId : writer[w].phase = "None" => writer[w].inst = NoInstance
    BY DEF HandoverInvariant, WritersAreKnown, NoHold
  <2> QED BY <2>1, StateConstants
<1>4. WritersCalm
  BY <1>2, <1>3 DEF WritersCalm, Live
<1>5. \A w \in WriterId : WritesOpen(w)' => writer'[w] = writer[w] /\ writer[w].inst # i /\ writer[w].inst \in Instance
  BY <1>2, WriterInUse DEF WritesOpen, Live
<1>6. HeadMoves
  BY <1>1, TurnNumbers DEF HeadMoves, OpenPair, HandoverInvariant, OneLife
<1>7. MapsCalm
  BY <1>1, <1>5 DEF MapsCalm, TypeOK, InstancesOK
<1>8. SweepCalm
  <2>1. \A j \in Instance : j # i => alive'[j] = alive[j]
    BY <1>1 DEF TypeOK, InstancesOK
  <2> QED BY <1>1, <1>5, <2>1 DEF SweepCalm, Swept
<1>9. ASSUME NEW c \in Caller PROVE CallCalm(c)
  <2>1. CASE call[c].at # i
    BY <1>1, <2>1 DEF CallCalm
  <2>2. CASE call[c].at = i
    <3>1. call'[c] = Idle
      BY <1>1, <2>2
    <3>2. \A n : HandedOver(n)' <=> HandedOver(n)
      BY <1>4 DEF HandedOver, WritersCalm
    <3>3. KnowsTurn(call[c])'
      BY <3>1, <3>2, PlainCalls, KnowsAfter
    <3>4. \A w \in WriterId : WritesOpen(w)' => ~Covers(call[c], writer'[w].inst, w.turn)
      BY <1>5, <2>2 DEF Covers
    <3>6. ~Leaves(c)
      BY <1>5, <2>2 DEF Leaves
    <3>5. ~IsUnhanded(Idle) /\ Idle.step # "opened"
      BY PlainCalls DEF Plain
    <3> QED BY <3>1, <3>3, <3>4, <3>5, <3>6 DEF CallCalm
  <2> QED BY <2>1, <2>2
<1> QED BY <1>4, <1>6, <1>7, <1>8, <1>9, CalmKeeps DEF Calm

(* So does the rest: no session is removed or made anew, and a shutdown has  *)
(* swept nothing before its sweep.                                           *)
LEMMA EnvironmentKeeps ==
  ASSUME "remove" \notin Faults, Stepped
  PROVE  /\ \A i \in Instance : ShutdownRefuses(i) \/ ShutdownInterrupts(i) \/ Crash(i) \/ Remove(i) => HandoverInvariant'
         /\ \A s \in stalled : Land(s) => HandoverInvariant'
         /\ Create \/ Time => HandoverInvariant'
<1>1. TypeOK /\ HandoverInvariant
  BY DEF Stepped
<1>2. ASSUME NEW i \in Instance, ShutdownRefuses(i) \/ ShutdownInterrupts(i) PROVE HandoverInvariant'
  <2>1. /\ UNCHANGED <<head, call, writer, registered, released, alive>>
        /\ \E stage \in {"refusing", "interrupting"} : stopping' = [stopping EXCEPT ![i] = stage]
    BY <1>2 DEF ShutdownRefuses, ShutdownInterrupts, logVars
  <2>2. \A j \in Instance : Swept(j)' => Swept(j)
    BY <1>1, <2>1 DEF Swept, TypeOK, InstancesOK
  <2>3. HeadMoves
    BY <1>1, <2>1, TurnNumbers DEF HeadMoves, OpenPair, HandoverInvariant, OneLife
  <2>4. WritersCalm
    BY <2>1, SameWriters
  <2>5. MapsCalm
    BY <2>1 DEF MapsCalm, OpenPair
  <2>6. SweepCalm
    <3> SUFFICES ASSUME NEW w \in WriterId, WritesOpen(w)', Swept(writer[w].inst)' PROVE Swept(writer'[w].inst)
      BY DEF SweepCalm
    <3>1. writer[w].inst \in Instance
      BY <1>1, <2>1, WriterInUse DEF WritesOpen
    <3>2. PICK j \in Instance : j = writer[w].inst
      BY <3>1
    <3>3. Swept(j)'
      BY <2>1, <3>2 DEF Swept
    <3> QED BY <2>1, <2>2, <3>2, <3>3
  <2>7. \A c \in Caller : CallCalm(c)
    BY <2>1 DEF CallCalm
  <2> QED BY <1>1, <2>3, <2>4, <2>5, <2>6, <2>7, CalmKeeps DEF Calm
<1>3. ASSUME NEW i \in Instance, Crash(i) PROVE HandoverInvariant'
  BY <1>1, <1>3, CrashKeeps
<1>4. \A i \in Instance : ~Remove(i)
  BY DEF Remove, Fault
<1>5. ASSUME NEW s \in stalled, Land(s) PROVE HandoverInvariant'
  <2>1. StoreCommit(s.events, s.next) /\ UNCHANGED <<call, writer, registered, released, stopping, alive>>
    BY <1>5 DEF Land
  <2>2. HeadMoves
    BY <2>1, SteppedHead
  <2> QED BY <1>1, <2>1, <2>2, SameWriters, WritersKeep
<1>6. ~Create
  BY <1>1 DEF Create, CreateSession, HandoverInvariant, OneLife
<1>7. ASSUME Time PROVE HandoverInvariant'
  <2>1. UNCHANGED <<head, call, writer, registered, released, stopping, alive>>
    BY <1>7 DEF Time, Tick, local
  <2>2. HeadMoves
    BY <1>1, <2>1, TurnNumbers DEF HeadMoves, OpenPair, HandoverInvariant, OneLife
  <2> QED BY <1>1, <2>1, <2>2, SameWriters, WritersKeep
<1> QED BY <1>2, <1>3, <1>4, <1>5, <1>6, <1>7

-----------------------------------------------------------------------------
(* The invariant holds, and the two properties follow from it.               *)

(* The invariant holds initially.                                            *)
LEMMA InitHandover == Init => HandoverInvariant
<1> SUFFICES ASSUME Init PROVE HandoverInvariant
  OBVIOUS
<1>1. OneLife
  BY DEF Init, OneLife
<1>2. \A w \in WriterId : writer[w] = NoHold /\ writer[w].phase = "None"
  BY DEF Init, NoHold
<1>3. \A w \in WriterId : ~WritesOpen(w)
  BY <1>2 DEF WritesOpen, Live
<1>4. \A c \in Caller : call[c] = Idle
  BY DEF Init
<1>5. WritersAreKnown /\ LetGoIsOver
  BY <1>2 DEF Init, WritersAreKnown, LetGoIsOver
<1>6. CallsAreKnown
  <2>1. \A c \in Caller : KnowsTurn(call[c]) /\ ~IsUnhanded(call[c])
    BY <1>4, PlainCalls
  <2> QED BY <2>1 DEF CallsAreKnown
<1> QED BY <1>1, <1>3, <1>5, <1>6 DEF HandoverInvariant, LiveAreRegistered, SweptAreCovered

(* Every step keeps it, where sessions are not removed and each instance     *)
(* hands its turns over in the order it stored them.                         *)
LEMMA NextHandover ==
  ASSUME "remove" \notin Faults
  PROVE  TypeOK /\ TurnInvariant /\ RecordInvariant /\ HandoverInvariant /\ [Next]_vars /\ [HandedOverInOrder]_vars
           => HandoverInvariant'
<1> SUFFICES ASSUME TypeOK, TurnInvariant, RecordInvariant, HandoverInvariant, [Next]_vars, [HandedOverInOrder]_vars
             PROVE  HandoverInvariant'
  OBVIOUS
<1>1. Stepped
  BY NextTurns DEF Stepped
<1>2. HandedOverInOrder
  BY DEF HandedOverInOrder, vars, local
<1>3. ASSUME NEW c \in Caller, CallStep(c) \/ StoreFailed(c) \/ BeginCut(c) PROVE HandoverInvariant'
  BY <1>1, <1>2, <1>3, LocalCallsKeep, CommitsKeep, BeginStoredKeeps, FailingCallsKeep, HandoverKeeps DEF CallStep
<1>4. ASSUME NEW c \in Caller, NEW i \in Instance,
             \/ \E ask \in Ask : AskBegin(c, i, ask)
             \/ \E turn \in CancelTurns : AskCancel(c, i, turn)
             \/ \E item \in Delivers : AskDeliver(c, i, item)
             \/ \E tx \in Tx : AskTransact(c, i, tx)
             \/ ShutdownCloses(c, i)
      PROVE  HandoverInvariant'
  BY <1>4, AskedKeeps, ClosesAskedKeep
<1>5. ASSUME NEW c \in Caller, NEW w \in WriterId, AskTimeLimit(c, w) PROVE HandoverInvariant'
  BY <1>5, ClosesAskedKeep
<1>6. ASSUME NEW w \in WriterId, WriterStep(w) \/ WriteFails(w) PROVE HandoverInvariant'
  BY <1>1, <1>6, WriterCommitsKeep, WriterLocalKeeps, ScopeDoneKeeps DEF WriterStep
<1>7. ASSUME \/ \E i \in Instance : ShutdownRefuses(i) \/ ShutdownInterrupts(i) \/ Crash(i) \/ Remove(i)
             \/ \E s \in stalled : Land(s)
             \/ Create \/ Time
      PROVE  HandoverInvariant'
  BY <1>1, <1>7, EnvironmentKeeps
<1>8. CASE UNCHANGED vars
  <2>1. UNCHANGED <<head, call, writer, registered, released, stopping, alive>>
    BY <1>8 DEF vars, logVars, local
  <2>2. HeadMoves
    BY <2>1, TurnNumbers DEF HeadMoves, OpenPair, HandoverInvariant, OneLife
  <2> QED BY <2>1, <2>2, SameWriters, WritersKeep
<1> QED BY <1>3, <1>4, <1>5, <1>6, <1>7, <1>8 DEF Next

(* HandoverInvariant holds of every session that is not removed while its    *)
(* instances hand their turns over in order: an instance finds the writer of *)
(* the open turn in its map, and knows every call that has one to hand over. *)
THEOREM HandoversHold ==
  ASSUME "remove" \notin Faults PROVE Spec /\ [][HandedOverInOrder]_vars => []HandoverInvariant
<1>1. TypeOK /\ TurnInvariant /\ RecordInvariant /\ HandoverInvariant /\ [Next]_vars /\ [HandedOverInOrder]_vars
        => HandoverInvariant'
  BY NextHandover
<1> QED BY <1>1, InitHandover, TypeCorrect, TurnsFollowTheHead, RecordsHold, PTL DEF Spec

(* A turn an instance let go of is one it no longer writes.                  *)
THEOREM LetGoTurnsAreOver ==
  ASSUME "remove" \notin Faults PROVE Spec /\ [][HandedOverInOrder]_vars => []LetGoTurnsHaveNoWriter
<1>1. HandoverInvariant => LetGoTurnsHaveNoWriter
  BY DEF HandoverInvariant, LetGoIsOver, NoneWrites, OpenPair, WritesOpen, LetGoTurnsHaveNoWriter, WritesOpenTurn
<1> QED BY <1>1, HandoversHold, PTL

(* A shutdown leaves no turn open here, once the begins it overlapped have   *)
(* looked for it and the closes are done.                                    *)
THEOREM ShutdownsCloseAll ==
  ASSUME "remove" \notin Faults PROVE Spec /\ [][HandedOverInOrder]_vars => []ShutdownLeavesNoWriter
<1>1. HandoverInvariant => ShutdownLeavesNoWriter
  <2> SUFFICES ASSUME HandoverInvariant, NEW i \in Instance, alive[i], stopping[i] = "swept",
                      \A c \in Caller : call[c].at = i => call[c].op \notin {"begin", "shutdown"},
                      NEW w \in WriterId, WritesOpen(w), writer[w].inst = i
               PROVE  FALSE
    BY DEF ShutdownLeavesNoWriter, WritesOpenTurn, WritesOpen
  <2>1. PICK c \in Caller : Covers(call[c], i, w.turn)
    BY DEF HandoverInvariant, SweptAreCovered, Swept
  <2>2. call[c].op \in {"begin", "shutdown"}
    BY <2>1 DEF Covers, HandoverInvariant, CallsAreKnown, KnowsTurn
  <2> QED BY <2>1, <2>2 DEF Covers
<1> QED BY <1>1, HandoversHold, PTL

-----------------------------------------------------------------------------
(* A sealed turn: that every end of it is the one that sealed it.            *)

EndsAsSealed == \A e \in NewEnds : EndsSealed(head.state, e)

(* What every step does.                                                     *)
SealStep == SealInvariant' /\ EndsAsSealed

(* Turns that began have begun.                                              *)
TurnsGrow ==
  /\ head.inc <= head'.inc
  /\ head'.present /\ head'.inc = head.inc => head.present /\ head.state.turns <= head'.state.turns

(* A writer of a turn that began goes by one reply, and by the one it went   *)
(* by; a call gets no turn to hand over but its own; a commit that may still *)
(* be stored ends the open turn as it was sealed.                            *)
WriterGoesOn(w) ==
  LET me == writer[w]
      rec == writer'[w]
  IN \/ rec = me
     \/ /\ rec.phase # "None" /\ OneReply(rec) /\ HasBegun(w)
        /\ rec.phase \in Live /\ me.phase # "None" => me.phase \in Live /\ me.held \in {"none", rec.held}
CallGoes(k, rec) ==
  \/ rec = k
  \/ IsUnhanded(rec) => /\ IsUnhanded(k) /\ TurnOf(rec) = TurnOf(k) /\ rec.step # "opened"
                        /\ rec.op = "unhanded" => "cut" \in Faults
WritersGoOn == \A w \in WriterId : WriterGoesOn(w)
CallsGoOn ==
  /\ \A c \in Caller : CallGoes(call[c], call'[c])
  /\ \A w \in WriterId : writer[w].phase = "None" => writer'[w].phase = "None"
StalledGoOn == \A s \in stalled' : s \in stalled \/ (StalledFollows(head, s) /\ StalledSeals(s))

(* What began has begun, and what was sealed is sealed.                      *)
LEMMA SealsStay ==
  ASSUME TypeOK, TypeOK', TurnsGrow, WritersGoOn
  PROVE  /\ \A w \in WriterId : HasBegun(w) => HasBegun(w)'
         /\ \A w, seal : seal # "none" /\ SealedBy(w, seal) => SealedBy(w, seal)'
         /\ \A inc, s : SealHolds(inc, s) => SealHolds(inc, s)'
<1>1. head.inc \in Nat /\ head'.inc \in Nat /\ head.state.turns \in Nat /\ head'.state.turns \in Nat
  BY DEF TypeOK, LogOK, Head, State
<1>2. ASSUME NEW w \in WriterId, HasBegun(w) PROVE HasBegun(w)'
  <2>1. w.inc \in Nat /\ w.turn \in Nat
    BY DEF WriterId
  <2> QED BY <1>1, <1>2, <2>1 DEF HasBegun, TurnsGrow
<1>3. \A w, seal : seal # "none" /\ SealedBy(w, seal) => SealedBy(w, seal)'
  BY DEF SealedBy, WritersGoOn, WriterGoesOn
<1>4. \A inc, s : SealHolds(inc, s) => SealHolds(inc, s)'
  BY <1>3 DEF SealHolds
<1> QED BY <1>2, <1>3, <1>4

(* So writers and stalled commits seal on.                                   *)
LEMMA WritersSeal ==
  ASSUME TypeOK, TypeOK', SealInvariant, TurnsGrow, WritersGoOn
  PROVE  \A w \in WriterId : WriterSeals(w)'
<1> SUFFICES ASSUME NEW w \in WriterId PROVE WriterSeals(w)'
  OBVIOUS
<1>1. WriterSeals(w) /\ WriterGoesOn(w)
  BY DEF SealInvariant, WritersGoOn
<1>2. HasBegun(w) => HasBegun(w)'
  BY SealsStay
<1>3. CASE writer'[w] = writer[w]
  BY <1>1, <1>2, <1>3 DEF WriterSeals
<1>4. CASE writer'[w].phase # "None" /\ OneReply(writer'[w]) /\ HasBegun(w)
  BY <1>2, <1>4 DEF WriterSeals
<1> QED BY <1>1, <1>3, <1>4 DEF WriterGoesOn

LEMMA StalledSeal ==
  ASSUME TypeOK, TypeOK', TurnInvariant, SealInvariant, LogMoves, TurnsGrow, WritersGoOn, StalledGoOn
  PROVE  \A s \in stalled' : StalledSeals(s)'
<1> SUFFICES ASSUME NEW s \in stalled', IsHead(head', s.inc, s.rev)
             PROVE  SealHolds(s.inc, s.next)' /\ \A e \in s.events : EndsSealed(head'.state, e)
  BY DEF StalledSeals
<1>1. StalledFollows(head, s) /\ StalledSeals(s)
  BY DEF StalledGoOn, SealInvariant, TurnInvariant, PlansFromTheHead
<1>2. s.inc \in Nat /\ s.rev \in Nat
  BY DEF TypeOK, FaultsOK, Stalled
<1>3. IsHead(head, s.inc, s.rev) /\ UNCHANGED head
  BY <1>1, <1>2, PastKept DEF StalledFollows, TypeOK
<1>4. SealHolds(s.inc, s.next) /\ \A e \in s.events : EndsSealed(head.state, e)
  BY <1>1, <1>3 DEF StalledSeals
<1> QED BY <1>3, <1>4, SealsStay

(* And calls keep what they have to hand over.                               *)
LEMMA CallsSeal ==
  ASSUME TypeOK, TypeOK', SealInvariant, TurnsGrow, WritersGoOn, CallsGoOn
  PROVE  (\A c \in Caller : CallSeals(call[c])') /\ UnhandedOnce'
<1>1. ASSUME NEW c \in Caller, IsUnhanded(call'[c]) PROVE IsUnhanded(call[c]) /\ TurnOf(call'[c]) = TurnOf(call[c])
  BY <1>1 DEF CallsGoOn, CallGoes
<1>2. ASSUME NEW c \in Caller PROVE CallSeals(call[c])'
  <2> SUFFICES ASSUME IsUnhanded(call'[c]), NEW w, w = TurnOf(call'[c])
               PROVE  /\ w \in WriterId /\ writer'[w].phase = "None" /\ HasBegun(w)'
                      /\ call'[c].step = "opened" => call'[c].op = "begin" /\ call'[c].state.open.sealed = "none"
                      /\ call'[c].op = "unhanded" => "cut" \in Faults
    BY DEF CallSeals, IsUnhanded, TurnOf, HasBegun
  <2>1. IsUnhanded(call[c]) /\ TurnOf(call[c]) = w /\ CallSeals(call[c])
    BY <1>1 DEF SealInvariant
  <2>2. w \in WriterId /\ writer[w].phase = "None" /\ HasBegun(w)
    BY <2>1 DEF CallSeals
  <2>3. writer'[w].phase = "None"
    BY <2>2 DEF CallsGoOn
  <2>4. HasBegun(w)'
    BY <2>2, SealsStay
  <2>5. /\ call'[c].step = "opened" => call'[c].op = "begin" /\ call'[c].state.open.sealed = "none"
        /\ call'[c].op = "unhanded" => "cut" \in Faults
    BY <2>1 DEF CallsGoOn, CallGoes, CallSeals
  <2> QED BY <2>2, <2>3, <2>4, <2>5
<1>3. UnhandedOnce'
  <2> SUFFICES ASSUME NEW c \in Caller, NEW d \in Caller, IsUnhanded(call'[c]), IsUnhanded(call'[d]),
                      TurnOf(call'[c]) = TurnOf(call'[d])
               PROVE  c = d
    BY DEF UnhandedOnce, IsUnhanded, TurnOf
  <2> QED BY <1>1 DEF SealInvariant, UnhandedOnce
<1> QED BY <1>2, <1>3

(* A step that keeps the parts keeps the invariant.                          *)
CallsSealed == (\A c \in Caller : CallSeals(call[c])) /\ UnhandedOnce

LEMMA SealsKept ==
  ASSUME TypeOK, TypeOK', TurnInvariant, SealInvariant, LogMoves, TurnsGrow, WritersGoOn, StalledGoOn,
         CallsGoOn \/ CallsSealed', "cut" \in Faults => OneLife', SealHolds(head'.inc, head'.state)
  PROVE  SealInvariant'
<1>1. CallsSealed'
  BY CallsSeal DEF CallsSealed
<1>2. SealHolds(head.inc, head.state)'
  <2> SUFFICES ASSUME NEW inc, NEW s, inc = head'.inc, s = head'.state PROVE SealHolds(inc, s)'
    BY DEF SealHolds, SealedBy
  <2> QED BY SealsStay
<1>3. (\A w \in WriterId : WriterSeals(w)') /\ (\A s \in stalled' : StalledSeals(s)')
  BY WritersSeal, StalledSeal
<1> QED BY <1>1, <1>2, <1>3 DEF SealInvariant, CallsSealed

LEMMA QuietSeals ==
  ASSUME TypeOK, TypeOK', TurnInvariant, SealInvariant, UNCHANGED <<head, journal>>,
         WritersGoOn, StalledGoOn, CallsGoOn \/ CallsSealed'
  PROVE  SealStep
<1>1. TurnsGrow
  BY DEF TurnsGrow, TypeOK, LogOK, Head, State
<1>2. SealHolds(head'.inc, head'.state) /\ ("cut" \in Faults => OneLife')
  BY DEF SealInvariant, OneLife
<1>3. SealInvariant'
  BY <1>1, <1>2, SealsKept DEF LogMoves
<1>4. NewEnds = {}
  BY DEF NewEnds, NewEvents
<1> QED BY <1>3, <1>4 DEF SealStep, EndsAsSealed

(* So does a commit that ends the open turn as it was sealed.                *)
LEMMA CommitGrows ==
  ASSUME TypeOK, NEW events \in SUBSET Event, NEW next \in State, head.present,
         StoreCommit(events, next), Decides(head.state, events, next)
  PROVE  /\ TurnsGrow /\ head'.inc = head.inc /\ head'.state = next /\ head'.present
         /\ head.state.turns <= next.turns
<1>1. head.state \in State /\ next.turns \in Nat /\ head.state.turns \in Nat /\ head.inc \in Nat
  BY HeadType DEF TypeOK, State
<1>2. head'.inc = head.inc /\ head'.state = next /\ head'.present
  BY HeadType DEF StoreCommit, TypeOK
<1>3. next.turns \in {head.state.turns, head.state.turns + 1}
  BY DEF Decides
<1> QED BY <1>1, <1>2, <1>3 DEF TurnsGrow

LEMMA CommitSeals ==
  ASSUME TypeOK, TypeOK', TurnInvariant, SealInvariant, NEW events \in SUBSET Event, NEW next \in State,
         head.present, StoreCommit(events, next), Decides(head.state, events, next),
         SealHolds(head.inc, next), \A e \in events : EndsSealed(head.state, e),
         WritersGoOn, StalledGoOn, CallsGoOn \/ CallsSealed'
  PROVE  SealStep
<1>1. TurnsGrow /\ head'.inc = head.inc /\ head'.state = next /\ head'.present
  BY CommitGrows
<1>2. SealInvariant'
  <2>1. LogMoves
    BY DEF LogMoves
  <2>2. SealHolds(head'.inc, head'.state) /\ ("cut" \in Faults => OneLife')
    BY <1>1 DEF SealInvariant, OneLife
  <2> QED BY <1>1, <2>1, <2>2, SealsKept
<1>3. EndsAsSealed
  <2> SUFFICES ASSUME NEW f \in NewEnds PROVE EndsSealed(head.state, f)
    BY DEF EndsAsSealed
  <2>1. PICK e \in events : f = [e EXCEPT !.rev = head.rev + 1]
    BY DEF NewEnds, NewEvents, StoreCommit
  <2>2. head.rev + 1 \in Nat
    BY HeadType DEF TypeOK
  <2>3. f.kind = "turn.ended"
    BY DEF NewEnds
  <2>4. e.kind = "turn.ended" /\ f.reason = e.reason /\ f.replied = e.replied
    BY <2>1, <2>2, <2>3, StampKeeps
  <2> QED BY <2>3, <2>4 DEF EndsSealed
<1> QED BY <1>2, <1>3 DEF SealStep

-----------------------------------------------------------------------------
(* What reaps and plans decide of a sealed turn.                             *)

(* A commit that leaves the open turn of s, or none that is sealed, and ends *)
(* it as it was sealed.                                                      *)
Seals(s, events, next) ==
  /\ next.open = s.open \/ next.open.sealed = "none"
  /\ \A e \in events : EndsSealed(s, e)

(* The close of a turn that is not sealed, or that closes as it was.         *)
LEMMA ClosingSeals ==
  ASSUME NEW s \in State, NEW reason, NEW code, NEW replied, NEW tried,
         s.open.sealed # "none" => reason = s.open.sealed /\ replied
  PROVE  LET q == ReapClosing(s, reason, code, replied, tried) IN Seals(s, q.events, q.state)
<1> DEFINE end == Ended(s.open.turn, reason, code, replied, Dropped(s, reason, tried))
           q == ReapClosing(s, reason, code, replied, tried)
<1>1. q.events = {end} /\ q.state = ClosedState(s, reason, tried)
  BY DEF ReapClosing
<1>2. end.reason = reason /\ end.replied = replied
  BY DEF Ended
<1>3. q.state.open.sealed = "none"
  BY <1>1 DEF ClosedState, NoTurn, State
<1> HIDE DEF end, q
<1>4. Seals(s, q.events, q.state)
  BY <1>1, <1>2, <1>3 DEF Seals, EndsSealed
<1> QED BY <1>4 DEF q
(* So does every reap.                                                       *)
LEMMA ReapsSeal ==
  ASSUME NEW s \in State, NEW at, NEW reader, NEW over
  PROVE  LET r == Reaped(s, at, reader, over) IN Seals(s, r.events, r.state)
<1> DEFINE r == Reaped(s, at, reader, over)
<1> DEFINE held == IsHeld(s.open, at, reader)
           taken == TakesOver(over, s.open) /\ held
           code == IF taken THEN "turn.takeover" ELSE "turn.lease"
<1>1. CASE ~IsOpen(s) \/ (held /\ ~taken)
  <2>1. r.events = {} /\ r.state = s
    BY <1>1 DEF Reaped, Unreaped
  <2> QED BY <2>1 DEF Seals
<1>2. CASE ~(~IsOpen(s) \/ (held /\ ~taken)) /\ s.open.sealed # "none"
  <2>1. r = ReapClosing(s, s.open.sealed, "sealed", TRUE, ~taken)
    BY <1>2 DEF Reaped
  <2> HIDE DEF r, taken
  <2>2. Seals(s, r.events, r.state)
    BY <1>2, <2>1, ClosingSeals
  <2> QED BY <2>2 DEF r
<1>3. CASE ~(~IsOpen(s) \/ (held /\ ~taken)) /\ s.open.sealed = "none"
  <2> DEFINE no == FALSE
  <2>1. r = ReapClosing(s, "interrupted", code, no, ~taken)
    BY <1>3 DEF Reaped
  <2> HIDE DEF r, taken, code, no
  <2>2. Seals(s, r.events, r.state)
    BY <1>3, <2>1, ClosingSeals
  <2> QED BY <2>2 DEF r
<1> QED BY <1>1, <1>2, <1>3


(* What is decided so leaves a sealed turn sealed, or none.                  *)
LEMMA SealsHoldOn ==
  \A inc, s, events, next : SealHolds(inc, s) /\ Seals(s, events, next) => SealHolds(inc, next)
BY DEF SealHolds, Seals

(* A plan that only answers seals nothing; one that does what a reap or a    *)
(* close does seals as it does.                                              *)
LEMMA SimplePlansSeal ==
  /\ \A s, told : Seals(s, Only(told).events, Only(told).next)
  /\ \A s, r, told : Seals(s, r.events, r.state) =>
       Seals(s, Plan(r.events, r.state, told).events, Plan(r.events, r.state, told).next)
<1>1. \A told : Only(told).events = {} /\ Only(told).next.open.sealed = "none"
  BY DEF Only, InitialState, NoTurn
<1>2. \A s, told : Seals(s, Only(told).events, Only(told).next)
  BY <1>1 DEF Seals
<1>3. \A r, told : Plan(r.events, r.state, told).events = r.events /\ Plan(r.events, r.state, told).next = r.state
  BY DEF Plan
<1> QED BY <1>2, <1>3 DEF Seals

(* A close ends a sealed turn as it was sealed.                              *)
LEMMA ClosePlansSeal ==
  ASSUME NEW k, k.state \in State
  PROVE  Seals(k.state, ClosingPlan(k).events, ClosingPlan(k).next)
<1> DEFINE r == Reaped(k.state, k.now, k.at, NotOver)
           s == k.state
           sealed == s.open.sealed # "none"
           closing == IF sealed THEN s.open.sealed
                      ELSE IF k.op = "cancel" THEN "cancelled" ELSE "interrupted"
           code == IF sealed THEN "sealed" ELSE CloseCode(k.op)
           close == ReapClosing(s, closing, code, sealed, k.op # "shutdown")
<1>1. CASE r.closed # 0
  <2>1. ClosingPlan(k) = Plan(r.events, r.state, "not open")
    BY <1>1 DEF ClosingPlan
  <2>2. Seals(s, r.events, r.state)
    BY ReapsSeal
  <2> HIDE DEF r
  <2> QED BY <2>1, <2>2, SimplePlansSeal
<1>2. CASE r.closed = 0 /\ s.open.turn # k.turn
  BY <1>2, SimplePlansSeal DEF ClosingPlan
<1>3. CASE r.closed = 0 /\ s.open.turn = k.turn
  <2>1. ClosingPlan(k) = Plan(close.events, close.state, "closed")
    BY <1>3 DEF ClosingPlan
  <2>2. s.open.sealed # "none" => closing = s.open.sealed /\ sealed
    OBVIOUS
  <2> HIDE DEF closing, code, sealed
  <2>3. Seals(s, close.events, close.state)
    BY <2>2, ClosingSeals
  <2> HIDE DEF close
  <2> QED BY <2>1, <2>3, SimplePlansSeal
<1> QED BY <1>1, <1>2, <1>3

(* A begin cut before its writer closes its turn, which nothing sealed.      *)
LEMMA UnhandedPlansSeal ==
  ASSUME TypeOK, SealInvariant, NEW c \in Caller, call[c].op = "unhanded", call[c].step = "read",
         call[c].state = head.state
  PROVE  LET p == UnhandedPlan(call[c]) IN Seals(head.state, p.events, p.next)
<1> DEFINE k == call[c]
           s == head.state
           no == FALSE
           reason == CutReason(k)
           code == CutCode(k)
           cut == ReapClosing(s, reason, code, no, no)
<1>1. CASE s.open.turn # k.turn \/ s.open.holder # k.at
  BY <1>1, SimplePlansSeal DEF UnhandedPlan
<1>2. CASE ~(s.open.turn # k.turn \/ s.open.holder # k.at)
  <2> DEFINE w == [inc |-> 1, turn |-> k.turn]
  <2>1. UnhandedPlan(k) = Plan(cut.events, cut.state, "cut")
    BY <1>2 DEF UnhandedPlan
  <2>2. writer[w].phase = "None" /\ head.inc = 1
    BY DEF SealInvariant, CallSeals, IsUnhanded, TurnOf, OneLife
  <2>3. s.open.sealed = "none"
    BY <1>2, <2>2 DEF SealInvariant, SealHolds, SealedBy
  <2>4. s \in State
    BY HeadType DEF TypeOK
  <2> HIDE DEF s, no, reason, code
  <2>5. Seals(s, cut.events, cut.state)
    BY <2>3, <2>4, ClosingSeals
  <2> HIDE DEF cut
  <2> QED BY <2>1, <2>5, SimplePlansSeal DEF s
<1> QED BY <1>1, <1>2

(* Deliveries, enqueues and transacts only reap, and begins reap before they *)
(* open a turn that is not sealed.                                           *)
LEMMA OtherPlansSeal ==
  ASSUME NEW k, k.state \in State, NEW p
  PROVE  /\ p \in {InboxPlan(k), TransactPlan(k), BeginPlan(k)} => Seals(k.state, p.events, p.next)
         /\ BeginPlan(k).next.open.sealed = "none"
<1> DEFINE s == k.state
<1>1. Seals(s, InboxPlan(k).events, InboxPlan(k).next)
  <2> DEFINE r == Reaped(s, k.now, k.at, NotOver)
             known == s.inbox[k.item].in \/ WasQueued(k.item)
             queued == Queued(k.item)
             next == QueuedState(r.state, k.item)
  <2>1. Seals(s, r.events, r.state) /\ r.state \in State
    BY ReapsSeal, ReapShape DEF Reaps
  <2>2. CASE known /\ r.closed # 0
    <3>1. InboxPlan(k) = Plan(r.events, r.state, "already")
      BY <2>2 DEF InboxPlan
    <3> HIDE DEF r
    <3> QED BY <2>1, <3>1, SimplePlansSeal
  <2>3. CASE \/ known /\ r.closed = 0
             \/ ~known /\ Cardinality(PendingOf(r.state)) >= MaxPending
    <3>1. InboxPlan(k) \in {Only("already"), Only("full")}
      BY <2>3 DEF InboxPlan
    <3> QED BY <3>1, SimplePlansSeal
  <2>4. CASE ~known /\ ~(Cardinality(PendingOf(r.state)) >= MaxPending)
    <3>1. InboxPlan(k).events = r.events \cup {queued} /\ InboxPlan(k).next = next
      BY <2>4 DEF InboxPlan, Plan
    <3>2. queued.kind = "inbox.queued"
      BY DEF Queued
    <3> HIDE DEF r, queued
    <3>3. next.open = r.state.open
      BY <2>1 DEF QueuedState, State
    <3> QED BY <2>1, <3>1, <3>2, <3>3 DEF Seals, EndsSealed
  <2> QED BY <2>2, <2>3, <2>4
<1>2. Seals(s, TransactPlan(k).events, TransactPlan(k).next)
  <2> DEFINE keyed == Keyed(k.item)
  <2>1. keyed.kind = "transact.keyed"
    BY DEF Keyed
  <2>2. \/ TransactPlan(k) = Only("repeated")
        \/ TransactPlan(k).events = {keyed} /\ TransactPlan(k).next = s
    BY DEF TransactPlan, Plan
  <2> HIDE DEF keyed
  <2>3. CASE TransactPlan(k) = Only("repeated")
    BY <2>3, SimplePlansSeal
  <2>4. CASE TransactPlan(k).events = {keyed} /\ TransactPlan(k).next = s
    BY <2>1, <2>4 DEF Seals, EndsSealed
  <2> QED BY <2>2, <2>3, <2>4
<1>3. Seals(s, BeginPlan(k).events, BeginPlan(k).next) /\ BeginPlan(k).next.open.sealed = "none"
  <2> DEFINE r == BeginReap(k)
             started == Started(r.state.turns + 1, k.run, k.key, Origin(k.ask.kind), k.item, k.ask.resumes,
                                Taking(k, r.state) \cap Notice)
             next == OpenedState(r.state, k.run, k.at, LeaseEnd(k.at, k.now), Taking(k, r.state))
  <2>1. Seals(s, r.events, r.state)
    BY ReapsSeal DEF BeginReap
  <2>2. BeginPlan(k).events = r.events \cup {started} /\ BeginPlan(k).next = next
    BY DEF BeginPlan, Plan
  <2>3. started.kind = "turn.started"
    BY DEF Started
  <2>4. next.open.sealed = "none"
    BY DEF OpenedState
  <2> HIDE DEF r, started, next
  <2> QED BY <2>1, <2>2, <2>3, <2>4 DEF Seals, EndsSealed
<1> QED BY <1>1, <1>2, <1>3

(* Whatever a call commits ends a sealed turn as it was sealed.              *)
LEMMA PlansSeal ==
  ASSUME TypeOK, TurnInvariant, SealInvariant, NEW c \in Caller, Commits(call[c]),
         IsHead(head, call[c].inc, call[c].rev)
  PROVE  /\ Seals(head.state, PlanOf(call[c]).events, PlanOf(call[c]).next)
         /\ SealHolds(head.inc, PlanOf(call[c]).next)
<1> DEFINE k == call[c]
           p == PlanOf(k)
<1>1. k \in Call /\ AskedWith(k) /\ k.step = "read" /\ ~Refuses(k)
  BY CallInFlight DEF CallOK, Commits
<1>2. k.state = head.state /\ k.state \in State
  BY <1>1, PlannedCommit DEF Snapshot, Call
<1>3. k.op \in CloseOp \cup Inboxes \cup {"unhanded", "transact", "begin"}
  BY <1>1 DEF Call, AskedWith, Op
<1>4. CASE k.op \in CloseOp
  <2>1. p = ClosingPlan(k)
    BY <1>4 DEF PlanOf, ClosePlan, CloseOp
  <2>2. Seals(k.state, ClosingPlan(k).events, ClosingPlan(k).next)
    BY <1>2, ClosePlansSeal
  <2>3. Seals(head.state, p.events, p.next)
    BY <1>2, <2>1, <2>2
  <2> QED BY <2>3, SealsHoldOn DEF SealInvariant
<1>5. CASE k.op = "unhanded"
  <2>1. p = UnhandedPlan(k)
    BY <1>5 DEF PlanOf, CloseOp
  <2>2. Seals(head.state, UnhandedPlan(k).events, UnhandedPlan(k).next)
    BY <1>1, <1>2, <1>5, UnhandedPlansSeal
  <2>3. Seals(head.state, p.events, p.next)
    BY <2>1, <2>2
  <2> QED BY <2>3, SealsHoldOn DEF SealInvariant
<1>6. CASE k.op \in Inboxes \cup {"transact", "begin"}
  <2>1. p \in {InboxPlan(k), TransactPlan(k), BeginPlan(k)}
    BY <1>6 DEF PlanOf, CloseOp, Inboxes
  <2>2. Seals(head.state, p.events, p.next)
    BY <1>2, <2>1, OtherPlansSeal
  <2> QED BY <2>2, SealsHoldOn DEF SealInvariant
<1> QED BY <1>3, <1>4, <1>5, <1>6

-----------------------------------------------------------------------------
(* Calls.                                                                    *)

(* A writer that stops goes on.                                             *)
LEMMA StoppingGoes ==
  ASSUME SealInvariant, NEW w \in WriterId, NEW told, writer'[w] \in {writer[w], Stopped(writer[w], told)}
  PROVE  WriterGoesOn(w) /\ (writer[w].phase = "None" => writer'[w].phase = "None")
<1> DEFINE me == writer[w]
<1>1. CASE writer'[w] = me
  BY <1>1 DEF WriterGoesOn
<1>2. CASE writer'[w] # me
  <2>1. me.phase \in Live /\ writer'[w] = Stop(me, "Closed", told)
    BY <1>2 DEF Stopped
  <2>2. writer'[w].phase = "Closed"
    BY <2>1 DEF Stop, NoHold
  <2>3. HasBegun(w)
    BY <2>1 DEF SealInvariant, WriterSeals, Live
  <2> QED BY <2>1, <2>2, <2>3 DEF WriterGoesOn, OneReply, Live
<1> QED BY <1>1, <1>2

LEMMA StoppedGoOn ==
  ASSUME TypeOK, SealInvariant, NEW i, NEW turn, NEW told, writer' \in {writer, ClosedLocally(i, turn, told)}
  PROVE  WritersGoOn /\ \A w \in WriterId : writer[w].phase = "None" => writer'[w].phase = "None"
<1>1. \A w \in WriterId : writer'[w] \in {writer[w], Stopped(writer[w], told)}
  BY DEF ClosedLocally, TypeOK, WritersOK
<1> QED BY <1>1, StoppingGoes DEF WritersGoOn

(* One call changes.                                                         *)
LEMMA OneCallGoesOn ==
  ASSUME TypeOK, NEW c \in Caller, NEW rec, Become(c, rec), CallGoes(call[c], rec),
         \A w \in WriterId : writer[w].phase = "None" => writer'[w].phase = "None"
  PROVE  CallsGoOn
<1>1. \A d \in Caller : call'[d] = call[d] \/ (d = c /\ call'[d] = rec)
  BY DEF Become, TypeOK, CallsOK
<1> QED BY <1>1 DEF CallsGoOn, CallGoes

(* A call that becomes another beside the log keeps the invariant.           *)
LEMMA QuietCallSeals ==
  ASSUME TypeOK, TypeOK', TurnInvariant, SealInvariant, NEW c \in Caller, NEW rec, Become(c, rec),
         CallGoes(call[c], rec), UNCHANGED <<head, journal, writer, stalled>>
  PROVE  SealStep
<1>1. WritersGoOn /\ StalledGoOn
  BY DEF WritersGoOn, WriterGoesOn, StalledGoOn
<1>2. CallsGoOn
  BY OneCallGoesOn
<1> QED BY <1>1, <1>2, QuietSeals

(* A caller with no call in flight, a refused one, and a close with only its *)
(* own writer to close hand nothing over.                                    *)
LEMMA IdleGoes ==
  /\ \A k : CallGoes(k, Idle)
  /\ \A k, l, told, turn, open : l.op # "unhanded" => CallGoes(k, RefusedCall(l, told, turn, open))
  /\ \A k, l : l.op # "unhanded" => CallGoes(k, Closing(l))
<1>1. ~IsUnhanded(Idle)
  BY DEF IsUnhanded, Idle
<1>2. \A l, told, turn, open : l.op # "unhanded" => ~IsUnhanded(RefusedCall(l, told, turn, open))
  BY DEF IsUnhanded, RefusedCall, Idle
<1>3. \A l : l.op # "unhanded" => ~IsUnhanded(Closing(l))
  BY DEF IsUnhanded, Closing, Idle
<1> QED BY <1>1, <1>2, <1>3 DEF CallGoes

(* A call that reads the head closes the turn that it was to close.          *)
LEMMA ReadingGoes ==
  ASSUME NEW k \in Call
  PROVE  /\ Reading(k).step # "opened" /\ Reading(k).op = k.op
         /\ IsUnhanded(Reading(k)) => k.op = "unhanded" /\ TurnOf(Reading(k)) = [inc |-> 1, turn |-> k.turn]
<1>1. Reading(k).step \in {"lost", "refused", "read"} /\ Reading(k).op = k.op /\ Reading(k).turn = k.turn
  BY DEF Reading, Call
<1> QED BY <1>1 DEF IsUnhanded, TurnOf

(* So a call that reads the head again goes on.                              *)
LEMMA RereadingGoes ==
  ASSUME TypeOK, SealInvariant, NEW c \in Caller, call[c].step # "opened",
         NEW k \in Call, k.op = call[c].op, k.turn = call[c].turn
  PROVE  CallGoes(call[c], Reading(k))
<1>1. ASSUME IsUnhanded(Reading(k))
      PROVE  IsUnhanded(call[c]) /\ TurnOf(Reading(k)) = TurnOf(call[c]) /\ "cut" \in Faults
  <2>1. call[c].op = "unhanded" /\ TurnOf(Reading(k)) = [inc |-> 1, turn |-> k.turn]
    BY <1>1, ReadingGoes
  <2>2. IsUnhanded(call[c]) /\ TurnOf(call[c]) = [inc |-> 1, turn |-> k.turn]
    BY <2>1 DEF IsUnhanded, TurnOf
  <2>3. "cut" \in Faults
    BY <2>1, <2>2 DEF SealInvariant, CallSeals
  <2> QED BY <2>1, <2>2, <2>3
<1> QED BY <1>1, ReadingGoes DEF CallGoes

(* Asking for a begin, a delivery, an enqueue or a transact seals nothing.   *)
LEMMA CallInSeals ==
  ASSUME TypeOK, TypeOK', TurnInvariant, SealInvariant, NEW c \in Caller, NEW i \in Instance
  PROVE  /\ \A ask \in Ask : AskBegin(c, i, ask) => SealStep
         /\ \A item \in Delivers : AskDeliver(c, i, item) => SealStep
         /\ \A tx \in Tx : AskTransact(c, i, tx) => SealStep
<1>1. ASSUME NEW rec, rec.op # "unhanded", rec.step # "opened", CallIn(c, i, rec) PROVE SealStep
  <2>1. Become(c, rec) /\ UNCHANGED <<head, journal, writer, stalled>>
    BY <1>1 DEF CallIn, local, logVars
  <2>2. CallGoes(call[c], rec)
    BY <1>1 DEF CallGoes, IsUnhanded
  <2> QED BY <2>1, <2>2, QuietCallSeals
<1>2. ASSUME NEW ask \in Ask, AskBegin(c, i, ask) PROVE SealStep
  <2> DEFINE base == Asked(i, "begin")
             asked == [base EXCEPT !.ask = ask, !.run = ask.run, !.item = PreparedItem(ask), !.key = PreparedKey(ask)]
  <2>1. base \in Call /\ base.op = "begin"
    <3>1. "begin" \in Op
      BY DEF Op
    <3> QED BY <3>1, AskedType
  <2>2. PreparedItem(ask) \in Item \cup Tx \cup {NoItem} /\ PreparedKey(ask) \in Key /\ ask.run \in RunOrNone
    BY PreparedTypes, SessionsConstants DEF Item, RunOrNone, TypeOK
  <2>3. CallIn(c, i, IF ask.kind = "queued" \/ ask.resumes # 0
                     THEN [asked EXCEPT !.step = "prepared"] ELSE Reading(asked))
    BY <1>2 DEF AskBegin
  <2> HIDE DEF base
  <2>4. asked \in Call /\ asked.op = "begin"
    BY <2>1, <2>2 DEF Call
  <2> HIDE DEF asked
  <2>5. [asked EXCEPT !.step = "prepared"].op = "begin" /\ [asked EXCEPT !.step = "prepared"].step = "prepared"
    BY <2>4 DEF Call
  <2>6. Reading(asked).op = "begin" /\ Reading(asked).step # "opened"
    BY <2>4, ReadingGoes
  <2> QED BY <1>1, <2>3, <2>5, <2>6
<1>3. ASSUME NEW op \in Op \ {"unhanded"}, NEW item \in Item \cup Tx,
             CallIn(c, i, Reading([Asked(i, op) EXCEPT !.item = item]))
      PROVE  SealStep
  <2> DEFINE asked == [Asked(i, op) EXCEPT !.item = item]
  <2>1. asked \in Call /\ asked.op = op
    BY <1>3, AskedType DEF Call
  <2> HIDE DEF asked
  <2>2. Reading(asked).op = op /\ Reading(asked).step # "opened"
    BY <2>1, ReadingGoes
  <2> QED BY <1>1, <1>3, <2>2 DEF asked
<1>4. ASSUME NEW item \in Delivers, AskDeliver(c, i, item) PROVE SealStep
  <2> DEFINE op == IF item \in Notice THEN "deliver" ELSE "enqueue"
  <2>1. op \in Op \ {"unhanded"} /\ item \in Item /\ CallIn(c, i, Reading([Asked(i, op) EXCEPT !.item = item]))
    BY <1>4, SessionsConstants DEF Op, Inboxes, AskDeliver
  <2> HIDE DEF op
  <2> QED BY <1>3, <2>1
<1>5. ASSUME NEW tx \in Tx, AskTransact(c, i, tx) PROVE SealStep
  BY <1>3, <1>5 DEF Op, AskTransact
<1> QED BY <1>2, <1>4, <1>5

(* One writer changes.                                                       *)
LEMMA OneWriterGoesOn ==
  ASSUME TypeOK, SealInvariant, NEW w, NEW rec, writer' = [writer EXCEPT ![w] = rec],
         w \in WriterId =>
           /\ writer[w].phase # "None" /\ rec.phase # "None" /\ OneReply(rec)
           /\ rec.phase \in Live => writer[w].phase \in Live /\ writer[w].held \in {"none", rec.held}
  PROVE  WritersGoOn /\ \A v \in WriterId : writer[v].phase = "None" => writer'[v].phase = "None"
<1>1. ASSUME NEW v \in WriterId PROVE writer'[v] = writer[v] \/ (v = w /\ writer'[v] = rec)
  BY DEF TypeOK, WritersOK
<1>2. ASSUME NEW v \in WriterId PROVE writer[v].phase # "None" => HasBegun(v)
  BY DEF SealInvariant, WriterSeals
<1>3. ASSUME NEW v \in WriterId PROVE WriterGoesOn(v)
  BY <1>1, <1>2 DEF WriterGoesOn
<1> QED BY <1>1, <1>3 DEF WritersGoOn

(* Asking for a cancel, a time limit's close or a shutdown's seals nothing:  *)
(* where the turn is sealed, its own end begins.                             *)
LEMMA CloseAskedSeals ==
  ASSUME TypeOK, TypeOK', TurnInvariant, SealInvariant, NEW c \in Caller
  PROVE  /\ \A i \in Instance, turn \in CancelTurns : AskCancel(c, i, turn) => SealStep
         /\ \A w \in WriterId : AskTimeLimit(c, w) => SealStep
         /\ \A i \in Instance : ShutdownCloses(c, i) => SealStep
<1>1. ASSUME NEW i \in Instance, NEW op \in CloseOp, NEW turn \in Nat, NEW run \in RunOrNone,
             AskClose(c, i, op, turn, run)
      PROVE  SealStep
  <2> DEFINE base == Asked(i, op)
             asked == [base EXCEPT !.turn = turn, !.run = run]
             r == registered[i]
  <2>1. base \in Call /\ base.op = op
    <3>1. op \in Op
      BY DEF Op
    <3> QED BY <3>1, AskedType
  <2>2. UNCHANGED <<head, journal, stalled>>
    BY <1>1 DEF AskClose, logVars
  <2>3. /\ SealedHere(i, turn) =>
             /\ Become(c, [asked EXCEPT !.step = "await", !.inc = r.inc])
             /\ writer' = [writer EXCEPT ![r] = [@ EXCEPT !.phase = "Ending", !.ending = writer[r].sealed]]
        /\ ~SealedHere(i, turn) => Become(c, Reading(asked)) /\ UNCHANGED writer
    BY <1>1 DEF AskClose
  <2> HIDE DEF base
  <2>4. asked \in Call /\ asked.op \in CloseOp
    BY <2>1 DEF Call
  <2> HIDE DEF asked
  <2>5. CASE SealedHere(i, turn)
    <3> DEFINE rec == [asked EXCEPT !.step = "await", !.inc = r.inc]
               me == [writer[r] EXCEPT !.phase = "Ending", !.ending = writer[r].sealed]
    <3>1. Become(c, rec) /\ writer' = [writer EXCEPT ![r] = me]
      BY <2>3, <2>5
    <3>2. CallGoes(call[c], rec)
      BY <2>4 DEF CallGoes, IsUnhanded, Call, CloseOp
    <3>3. ASSUME r \in WriterId
          PROVE  /\ writer[r].phase # "None" /\ me.phase # "None" /\ OneReply(me)
                 /\ me.phase \in Live => writer[r].phase \in Live /\ writer[r].held \in {"none", me.held}
      <4>1. writer[r].phase \in Live /\ writer[r].sealed # "none" /\ writer[r] \in Writer /\ OneReply(writer[r])
        BY <2>5, <3>3 DEF SealedHere, SealInvariant, WriterSeals, TypeOK, WritersOK
      <4>2. /\ me.phase = "Ending" /\ me.ending = writer[r].sealed /\ me.held = writer[r].held
            /\ me.state = writer[r].state /\ me.sealing = writer[r].sealing /\ me.sealed = writer[r].sealed
            /\ me.attempted = writer[r].attempted
        BY <4>1 DEF Writer
      <4> HIDE DEF me
      <4> QED BY <4>1, <4>2 DEF OneReply, Live
    <3> HIDE DEF rec, me
    <3>4. WritersGoOn /\ \A v \in WriterId : writer[v].phase = "None" => writer'[v].phase = "None"
      BY <3>1, <3>3, OneWriterGoesOn
    <3>5. CallsGoOn /\ StalledGoOn
      BY <2>2, <3>1, <3>2, <3>4, OneCallGoesOn DEF StalledGoOn
    <3> QED BY <2>2, <3>4, <3>5, QuietSeals
  <2>6. CASE ~SealedHere(i, turn)
    <3>1. CallGoes(call[c], Reading(asked))
      BY <2>4, ReadingGoes DEF CallGoes, CloseOp
    <3> QED BY <2>2, <2>3, <2>6, <3>1, QuietCallSeals
  <2> QED BY <2>5, <2>6
<1>2. ASSUME NEW i \in Instance, NEW turn \in CancelTurns, AskCancel(c, i, turn) PROVE SealStep
  BY <1>1, <1>2, SessionsConstants DEF AskCancel, CloseOp, RunOrNone
<1>3. ASSUME NEW w \in WriterId, AskTimeLimit(c, w) PROVE SealStep
  <2>1. writer[w].inst \in Instance /\ writer[w].run \in RunOrNone /\ w.turn \in Nat /\ "time-limit" \in CloseOp
    BY <1>3, WriterInUse DEF AskTimeLimit, WriterOK, Writer, CloseOp
  <2> QED BY <1>1, <1>3, <2>1 DEF AskTimeLimit
<1>4. ASSUME NEW i \in Instance, ShutdownCloses(c, i) PROVE SealStep
  <2>1. CASE registered[i] = NoWriter
    <3>1. UNCHANGED <<head, journal, call, writer, stalled>>
      BY <1>4, <2>1 DEF ShutdownCloses, logVars
    <3> QED BY <3>1, QuietSeals DEF WritersGoOn, WriterGoesOn, CallsGoOn, CallGoes, StalledGoOn
  <2>2. CASE registered[i] # NoWriter
    <3> DEFINE w == registered[i]
    <3>1. w \in WriterId
      BY <2>2 DEF TypeOK, InstancesOK
    <3>2. writer[w].run \in RunOrNone /\ w.turn \in Nat /\ "shutdown" \in CloseOp
      BY <3>1, WriterInUse DEF WriterOK, Writer, CloseOp
    <3>3. AskClose(c, i, "shutdown", w.turn, writer[w].run)
      BY <1>4, <2>2 DEF ShutdownCloses
    <3> QED BY <1>1, <3>2, <3>3
  <2> QED BY <2>1, <2>2
<1> QED BY <1>2, <1>3, <1>4

(* So do a call's other steps beside the log.                                *)
LEMMA LocalCallSeals ==
  ASSUME TypeOK, TypeOK', TurnInvariant, SealInvariant, NEW c \in Caller
  PROVE  ReadHead(c) \/ Refused(c) \/ Answered(c) \/ Handed(c) \/ AwaitOver(c) \/ BeginCut(c) \/ CloseLocal(c)
           => SealStep
<1> DEFINE k == call[c]
<1>1. k \in Call /\ k.turn \in Nat /\ k.run \in RunOrNone /\ (k.step # "idle" => k.at \in Instance) /\ AskedWith(k)
  BY CallInFlight DEF CallOK
<1>2. ASSUME NEW rec, CallGoes(k, rec), Become(c, rec), UNCHANGED <<head, journal, writer, stalled>> PROVE SealStep
  BY <1>2, QuietCallSeals
<1>3. CallGoes(k, Idle)
  BY IdleGoes
<1>4. ASSUME NEW op \in Op, NEW told \in Told, k.at \in Instance
      PROVE  LET asked == [Asked(k.at, op) EXCEPT !.turn = k.turn, !.run = k.run, !.told = told] IN
             asked \in Call /\ asked.op = op /\ asked.turn = k.turn
  <2> DEFINE base == Asked(k.at, op)
  <2>1. base \in Call /\ base.op = op
    BY <1>4, AskedType
  <2> HIDE DEF base
  <2>2. LET asked == [base EXCEPT !.turn = k.turn, !.run = k.run, !.told = told] IN
        asked \in Call /\ asked.op = op /\ asked.turn = k.turn
    BY <1>1, <2>1 DEF Call
  <2> QED BY <2>2 DEF base
<1>5. ASSUME ReadHead(c) PROVE SealStep
  <2>1. CallGoes(k, Reading(k))
    BY <1>1, <1>5, RereadingGoes DEF ReadHead
  <2> QED BY <1>2, <1>5, <2>1 DEF ReadHead, local, logVars
<1>6. ASSUME AwaitOver(c) PROVE SealStep
  <2>1. CallGoes(k, Reading(k))
    BY <1>1, <1>6, RereadingGoes DEF AwaitOver
  <2> QED BY <1>2, <1>3, <1>6, <2>1 DEF AwaitOver, Answer, local, logVars
<1>7. ASSUME Refused(c) PROVE SealStep
  <2>1. PICK told, turn, open : Become(c, RefusedCall(k, told, turn, open))
    BY <1>7 DEF Refused
  <2>2. CallGoes(k, RefusedCall(k, told, turn, open))
    BY <1>7, IdleGoes DEF Refused, Refuses
  <2> QED BY <1>2, <1>7, <2>1, <2>2 DEF Refused, local, logVars
<1>8. ASSUME Answered(c) PROVE SealStep
  BY <1>2, <1>3, <1>8 DEF Answered, Answer, local, logVars
<1>9. ASSUME Handed(c) PROVE SealStep
  <2> DEFINE base == Asked(k.at, "shutdown")
             asked == [base EXCEPT !.turn = k.turn, !.run = k.run]
  <2>1. "shutdown" \in Op /\ k.at \in Instance
    BY <1>1, <1>9 DEF Op, CloseOp, Handed
  <2>2. asked \in Call /\ asked.op = "shutdown"
    <3>1. base \in Call /\ base.op = "shutdown"
      BY <2>1, AskedType
    <3> HIDE DEF base
    <3> QED BY <1>1, <3>1 DEF Call
  <2>3. Become(c, Reading(asked)) \/ Become(c, Idle)
    BY <1>9 DEF Handed, Answer
  <2> HIDE DEF asked
  <2>4. CallGoes(k, Reading(asked))
    BY <2>2, ReadingGoes DEF CallGoes
  <2> QED BY <1>2, <1>3, <1>9, <2>3, <2>4 DEF Handed, local, logVars
<1>10. ASSUME BeginCut(c) PROVE SealStep
  <2> PICK told \in {"none", "error"} :
         Become(c, Reading([Asked(k.at, "unhanded") EXCEPT !.turn = k.turn, !.run = k.run, !.told = told]))
    BY <1>10 DEF BeginCut
  <2> DEFINE asked == [Asked(k.at, "unhanded") EXCEPT !.turn = k.turn, !.run = k.run, !.told = told]
  <2>1. "unhanded" \in Op /\ k.at \in Instance /\ k.step = "opened" /\ "cut" \in Faults /\ told \in Told
    BY <1>1, <1>10 DEF Op, BeginCut, Fault, Told
  <2>2. asked \in Call /\ asked.op = "unhanded" /\ asked.turn = k.turn
    BY <1>4, <2>1
  <2>3. Become(c, Reading(asked)) /\ UNCHANGED <<head, journal, writer, stalled>>
    BY <1>10 DEF BeginCut, logVars
  <2>4. IsUnhanded(k) /\ TurnOf(k) = [inc |-> 1, turn |-> k.turn]
    <3>1. IsUnhanded(k) /\ TurnOf(k) = [inc |-> k.inc, turn |-> k.turn]
      BY <2>1 DEF IsUnhanded, TurnOf
    <3>2. k.inc \in 1..MaxInc /\ HasBegun(TurnOf(k)) /\ head.inc = 1
      BY <1>1, <2>1, <3>1 DEF AskedWith, SealInvariant, CallSeals, OneLife
    <3>3. k.inc = 1
      BY <3>1, <3>2 DEF HasBegun
    <3> QED BY <3>1, <3>3
  <2> HIDE DEF asked
  <2>5. CallGoes(k, Reading(asked))
    BY <2>1, <2>2, <2>4, ReadingGoes DEF CallGoes
  <2> QED BY <1>2, <2>3, <2>5
<1>11. ASSUME CloseLocal(c) PROVE SealStep
  <2>1. writer' = ClosedLocally(k.at, k.turn, CloseTold(k.op)) /\ Become(c, Idle) /\ UNCHANGED <<head, journal, stalled>>
    BY <1>11 DEF CloseLocal, Answer, logVars
  <2>2. WritersGoOn /\ \A w \in WriterId : writer[w].phase = "None" => writer'[w].phase = "None"
    BY <2>1, StoppedGoOn
  <2>3. CallsGoOn /\ StalledGoOn
    BY <1>3, <2>1, <2>2, OneCallGoesOn DEF StalledGoOn
  <2> QED BY <2>1, <2>2, <2>3, QuietSeals
<1> QED BY <1>5, <1>6, <1>7, <1>8, <1>9, <1>10, <1>11

(* A begin that is stored opens a turn that no writer and no other call has. *)
LEMMA BeginSeals ==
  ASSUME TypeOK, TypeOK', TurnInvariant, SealInvariant, NEW c \in Caller, BeginStored(c)
  PROVE  SealStep
<1> DEFINE k == call[c]
           plan == BeginPlan(k)
           rec == [k EXCEPT !.step = "opened", !.turn = plan.next.turns, !.rev = head.rev + 1,
                            !.state = plan.next, !.reaped = BeginReap(k).closed, !.ask = NoAsk,
                            !.item = NoItem, !.key = NoKey, !.now = 0, !.tries = 0]
           w == [inc |-> head.inc, turn |-> plan.next.turns]
<1>1. /\ Commits(k) /\ k.op = "begin" /\ k.step = "read" /\ ~Refuses(k) /\ StoreAnswers(k) = "stored"
      /\ StoreCommit(plan.events, plan.next) /\ plan.next.turns <= MaxTurn /\ Become(c, rec)
      /\ UNCHANGED <<writer, stalled>>
  BY DEF BeginStored, Commits
<1>2. PlanOf(k) = plan
  BY <1>1 DEF PlanOf, CloseOp
<1>3. /\ plan.events \in SUBSET Event /\ plan.next \in State
      /\ Decides(k.state, plan.events, plan.next) /\ Snapshot(head, k.inc, k.rev, k.state)
  BY <1>1, <1>2, PlannedCommit
<1>4. k.state = head.state /\ IsHead(head, k.inc, k.rev)
  BY <1>1, <1>3, StoredFromHead DEF StoreAnswers
<1>5. k \in Call /\ plan.next.open.sealed = "none" /\ k.state \in State
  BY <1>1, CallInFlight, OtherPlansSeal DEF CallOK
<1>6. \E e \in plan.events : e.kind = "turn.started"
  <2> DEFINE s == BeginReap(k).state
             started == Started(s.turns + 1, k.run, k.key, Origin(k.ask.kind), k.item, k.ask.resumes,
                                Taking(k, s) \cap Notice)
  <2>1. started \in plan.events
    BY DEF BeginPlan, Plan
  <2>2. started.kind = "turn.started"
    BY DEF Started
  <2> QED BY <2>1, <2>2
<1>7. Seals(head.state, plan.events, plan.next) /\ SealHolds(head.inc, plan.next)
  BY <1>1, <1>2, <1>4, PlansSeal
<1> HIDE DEF plan
<1>8. plan.next.turns = head.state.turns + 1 /\ head.state.turns \in Nat /\ head.present
  BY <1>3, <1>4, <1>6, HeadType DEF Decides, IsHead, TypeOK, State
<1>9. rec.step = "opened" /\ rec.op = "begin" /\ rec.turn = w.turn /\ rec.inc = w.inc /\ rec.state = plan.next
  BY <1>1, <1>4, <1>5 DEF Call, IsHead
<1>10. w \in WriterId
  <2>1. head.inc \in 1..MaxInc /\ plan.next.turns \in 1..MaxTurn
    BY <1>1, <1>8, SessionsConstants DEF TypeOK, LogOK, Head
  <2> QED BY <2>1 DEF WriterId
<1>11. ~HasBegun(w)
  BY <1>8 DEF HasBegun
<1>12. call'[c] = rec /\ \A d \in Caller : d # c => call'[d] = call[d]
  BY <1>1 DEF Become, TypeOK, CallsOK
<1>13. WritersGoOn /\ StalledGoOn
  BY <1>1 DEF WritersGoOn, WriterGoesOn, StalledGoOn
<1>14. TurnsGrow /\ head'.inc = head.inc /\ head'.state = plan.next /\ head'.present
  BY <1>1, <1>3, <1>4, <1>8, CommitGrows
<1> HIDE DEF rec, w
<1>15. TurnOf(rec) = w /\ IsUnhanded(rec)
  BY <1>9, <1>10 DEF TurnOf, IsUnhanded, WriterId
<1>16. ASSUME NEW d \in Caller, d # c, IsUnhanded(call'[d])
       PROVE  /\ IsUnhanded(call[d]) /\ CallSeals(call[d]) /\ HasBegun(TurnOf(call[d])) /\ TurnOf(call[d]) # w
  BY <1>11, <1>12, <1>16 DEF SealInvariant, CallSeals
<1>17. ASSUME NEW d \in Caller PROVE CallSeals(call[d])'
  <2> SUFFICES ASSUME IsUnhanded(call'[d]), NEW v, v = TurnOf(call'[d])
               PROVE  /\ v \in WriterId /\ writer'[v].phase = "None" /\ HasBegun(v)'
                      /\ call'[d].step = "opened" => call'[d].op = "begin" /\ call'[d].state.open.sealed = "none"
                      /\ call'[d].op = "unhanded" => "cut" \in Faults
    BY DEF CallSeals, IsUnhanded, TurnOf, HasBegun
  <2>1. CASE d # c
    <3>1. CallSeals(call[d]) /\ IsUnhanded(call[d]) /\ call'[d] = call[d] /\ v = TurnOf(call[d])
      BY <1>12, <1>16, <2>1
    <3>2. v \in WriterId /\ writer[v].phase = "None" /\ HasBegun(v)
      BY <3>1 DEF CallSeals
    <3> QED BY <1>1, <1>13, <1>14, <3>1, <3>2, SealsStay DEF CallSeals
  <2>2. CASE d = c
    <3>1. v = w /\ call'[d] = rec
      BY <1>12, <1>15, <2>2
    <3>2. writer[w].phase = "None"
      BY <1>10, <1>11 DEF SealInvariant, WriterSeals
    <3>3. v.inc = head.inc /\ v.turn = plan.next.turns
      BY <3>1 DEF w
    <3>4. head'.inc = head.inc /\ head'.state.turns = plan.next.turns
      BY <1>14
    <3>5. plan.next.turns \in Nat /\ head.inc \in Nat
      BY <1>8, HeadType DEF TypeOK
    <3>6. HasBegun(v)'
      BY <3>3, <3>4, <3>5 DEF HasBegun
    <3> QED BY <1>1, <1>5, <1>9, <1>10, <3>1, <3>2, <3>6
  <2> QED BY <2>1, <2>2
<1>18. UnhandedOnce'
  <2> SUFFICES ASSUME NEW d \in Caller, NEW e \in Caller, IsUnhanded(call'[d]), IsUnhanded(call'[e]),
                      TurnOf(call'[d]) = TurnOf(call'[e])
               PROVE  d = e
    BY DEF UnhandedOnce, IsUnhanded, TurnOf
  <2> QED BY <1>12, <1>15, <1>16 DEF SealInvariant, UnhandedOnce
<1>19. CallsSealed'
  BY <1>17, <1>18 DEF CallsSealed
<1> QED BY <1>1, <1>3, <1>4, <1>7, <1>8, <1>13, <1>19, CommitSeals DEF Seals

(* So does every commit of a call.                                           *)
LEMMA CommittingCallSeals ==
  ASSUME TypeOK, TypeOK', TurnInvariant, SealInvariant, NEW c \in Caller
  PROVE  ReapSealed(c) \/ BeginStored(c) \/ CallStored(c) => SealStep
<1> DEFINE k == call[c]
<1>1. ASSUME NEW turn, NEW told, writer' \in {writer, ClosedLocally(k.at, turn, told)}, UNCHANGED stalled,
             NEW rec, Become(c, rec), CallGoes(k, rec)
      PROVE  WritersGoOn /\ StalledGoOn /\ CallsGoOn
  <2>1. WritersGoOn /\ \A w \in WriterId : writer[w].phase = "None" => writer'[w].phase = "None"
    BY <1>1, StoppedGoOn
  <2> QED BY <1>1, <2>1, OneCallGoesOn DEF StalledGoOn
<1>2. ASSUME ReapSealed(c) PROVE SealStep
  <2> DEFINE r == Reaped(head.state, now, k.at, k.ask.over)
  <2>1. CASE UNCHANGED <<logVars, writer, released>>
    BY <1>2, <2>1, IdleGoes, QuietCallSeals DEF ReapSealed, Answer, logVars
  <2>2. CASE ~UNCHANGED <<logVars, writer, released>>
    <3>1. head.present /\ r.closed # 0 /\ StoreCommit(r.events, r.state)
      BY <1>2, <2>2 DEF ReapSealed
    <3>2. WritersGoOn /\ StalledGoOn /\ CallsGoOn
      BY <1>1, <1>2, <2>2, IdleGoes DEF ReapSealed, Answer
    <3>3. head.state \in State
      BY HeadType DEF TypeOK
    <3>4. Reaps(head.state, r) /\ Seals(head.state, r.events, r.state)
      BY <3>3, ReapShape, ReapsSeal
    <3> HIDE DEF r
    <3>5. SealHolds(head.inc, r.state)
      BY <3>4, SealsHoldOn DEF SealInvariant
    <3>6. r.events \in SUBSET Event /\ r.state \in State /\ Decides(head.state, r.events, r.state)
      BY <3>1, <3>4 DEF Reaps, Closes
    <3> QED BY <3>1, <3>2, <3>4, <3>5, <3>6, CommitSeals DEF Seals
  <2> QED BY <2>1, <2>2
<1>3. ASSUME CallStored(c) PROVE SealStep
  <2> DEFINE plan == PlanOf(k)
  <2>1. /\ Commits(k) /\ StoreAnswers(k) = "stored" /\ StoreCommit(plan.events, plan.next)
        /\ UNCHANGED <<writer, stalled>>
    BY <1>3 DEF CallStored
  <2>2. /\ plan.events \in SUBSET Event /\ plan.next \in State
        /\ Decides(k.state, plan.events, plan.next) /\ Snapshot(head, k.inc, k.rev, k.state)
    BY <2>1, PlannedCommit
  <2>3. k.state = head.state /\ IsHead(head, k.inc, k.rev)
    BY <2>1, <2>2, StoredFromHead DEF StoreAnswers
  <2>4. Seals(head.state, plan.events, plan.next) /\ SealHolds(head.inc, plan.next)
    BY <2>1, <2>3, PlansSeal
  <2>5. PICK rec : Become(c, rec) /\ CallGoes(k, rec)
    BY <1>3, IdleGoes DEF CallStored, Answer, CloseOp
  <2>6. WritersGoOn /\ StalledGoOn /\ CallsGoOn
    BY <1>1, <2>1, <2>5
  <2> HIDE DEF plan
  <2> QED BY <2>1, <2>2, <2>3, <2>4, <2>6, CommitSeals DEF Seals, IsHead
<1> QED BY <1>2, <1>3, BeginSeals

(* So does a call that conflicts, finds no session, or fails; a commit the   *)
(* store may still apply ends the open turn as it was sealed.                *)
LEMMA FailingCallSeals ==
  ASSUME TypeOK, TypeOK', TurnInvariant, SealInvariant, NEW c \in Caller
  PROVE  Conflicted(c) \/ Vanished(c) \/ StoreFailed(c) => SealStep
<1> DEFINE k == call[c]
<1>1. ASSUME NEW told, GivesUp(c, told), UNCHANGED <<head, journal>>, StalledGoOn
      PROVE  SealStep
  <2>1. PICK rec : Become(c, rec) /\ rec \in {Idle, Closing(k), RefusedCall(k, told, 0, FALSE)}
                   /\ (rec = Idle \/ k.op \in {"begin", "time-limit", "shutdown"})
    BY <1>1 DEF GivesUp, Answer
  <2>2. CallGoes(k, rec)
    <3> DEFINE no == FALSE
    <3>1. k.op # "unhanded" => CallGoes(k, RefusedCall(k, told, 0, no))
      <4> HIDE DEF no
      <4> QED BY IdleGoes
    <3> QED BY <2>1, <3>1, IdleGoes
  <2>3. UNCHANGED writer
    BY <1>1 DEF GivesUp
  <2>4. WritersGoOn /\ CallsGoOn
    BY <2>1, <2>2, <2>3, OneCallGoesOn DEF WritersGoOn, WriterGoesOn
  <2> QED BY <1>1, <2>4, QuietSeals
<1>2. UNCHANGED stalled => StalledGoOn
  BY DEF StalledGoOn
<1>3. ASSUME Conflicted(c) PROVE SealStep
  <2>1. CASE k.tries + 1 < Retries
    <3> DEFINE again == [k EXCEPT !.tries = @ + 1]
    <3>1. Become(c, Reading(again)) /\ UNCHANGED <<head, journal, writer, stalled>>
      BY <1>3, <2>1 DEF Conflicted, logVars
    <3>2. k \in Call /\ k.step = "read"
      BY <1>3, CallInFlight DEF CallOK, Conflicted, Commits
    <3>3. again \in Call /\ again.op = k.op /\ again.turn = k.turn
      BY <3>2 DEF Call
    <3> HIDE DEF again
    <3>4. CallGoes(k, Reading(again))
      BY <3>2, <3>3, RereadingGoes
    <3> QED BY <3>1, <3>4, QuietCallSeals
  <2>2. CASE ~(k.tries + 1 < Retries)
    BY <1>1, <1>2, <1>3, <2>2 DEF Conflicted, logVars
  <2> QED BY <2>1, <2>2
<1>4. ASSUME Vanished(c) PROVE SealStep
  BY <1>1, <1>2, <1>4 DEF Vanished, logVars
<1>5. ASSUME StoreFailed(c) PROVE SealStep
  <2> DEFINE plan == PlanOf(k)
             s == [rev |-> k.rev, inc |-> k.inc, notAfter |-> NoExpiry, events |-> plan.events, next |-> plan.next]
  <2>1. Commits(k) /\ GivesUp(c, "error") /\ UNCHANGED <<head, journal>> /\ stalled' = stalled \cup {s}
    BY <1>5 DEF StoreFailed, Stall, logVars
  <2>2. Decides(k.state, plan.events, plan.next) /\ Snapshot(head, k.inc, k.rev, k.state)
    BY <2>1, PlannedCommit
  <2>3. StalledFollows(head, s)
    BY <2>2 DEF StalledFollows, Snapshot
  <2>4. StalledSeals(s)
    <3>1. IsHead(head, k.inc, k.rev) => /\ Seals(head.state, plan.events, plan.next)
                                        /\ SealHolds(k.inc, plan.next)
      BY <2>1, PlansSeal DEF IsHead
    <3> QED BY <3>1 DEF StalledSeals, Seals
  <2> HIDE DEF s
  <2>5. StalledGoOn
    BY <2>1, <2>3, <2>4 DEF StalledGoOn
  <2> QED BY <1>1, <2>1, <2>5
<1> QED BY <1>3, <1>4, <1>5

(* A handover gives the turn its writer, which holds no reply yet.           *)
LEMMA HandoverSeals ==
  ASSUME TypeOK, TypeOK', TurnInvariant, SealInvariant, NEW c \in Caller, Handover(c)
  PROVE  SealStep
<1> DEFINE k == call[c]
           w == [inc |-> k.inc, turn |-> k.turn]
           me == [NoHold EXCEPT !.inst = k.at, !.run = k.run, !.phase = "Open", !.rev = k.rev, !.state = k.state]
           rec == [Unread(k) EXCEPT !.step = "handed", !.reaped = 0]
           others == ClosedLocally(k.at, k.reaped, "interrupted")
<1>1. /\ k.step = "opened" /\ writer' = [others EXCEPT ![w] = me] /\ Become(c, rec)
      /\ UNCHANGED <<head, journal, stalled>>
  BY DEF Handover, logVars
<1>2. k \in Call /\ IsUnhanded(k) /\ TurnOf(k) = w
  BY <1>1, CallInFlight DEF CallOK, IsUnhanded, TurnOf
<1>3. w \in WriterId /\ writer[w].phase = "None" /\ HasBegun(w) /\ k.op = "begin" /\ k.state.open.sealed = "none"
  BY <1>1, <1>2 DEF SealInvariant, CallSeals
<1>4. me.phase = "Open" /\ me.held = "none" /\ me.sealing = "none" /\ me.sealed = "none" /\ me.state = k.state
  BY DEF NoHold
<1>5. rec.step = "handed" /\ rec.op = "begin"
  BY <1>2, <1>3 DEF Unread, Call
<1>6. \A v \in WriterId : others[v] \in {writer[v], Stopped(writer[v], "interrupted")}
  BY DEF ClosedLocally, TypeOK, WritersOK
<1>7. DOMAIN others = WriterId
  BY DEF ClosedLocally, TypeOK, WritersOK
<1> HIDE DEF me, rec, others
<1>8. writer'[w] = me /\ \A v \in WriterId : v # w => writer'[v] = others[v]
  BY <1>1, <1>3, <1>7
<1>9. OneReply(me)
  BY <1>3, <1>4 DEF OneReply
<1>10. \A v \in WriterId : v # w => WriterGoesOn(v) /\ (writer[v].phase = "None" => writer'[v].phase = "None")
  BY <1>6, <1>8, StoppingGoes
<1>11. WriterGoesOn(w)
  <2> SUFFICES ASSUME NEW v, v = w PROVE WriterGoesOn(v)
    OBVIOUS
  <2> QED BY <1>3, <1>4, <1>8, <1>9 DEF WriterGoesOn
<1>12. WritersGoOn /\ StalledGoOn
  BY <1>1, <1>10, <1>11 DEF WritersGoOn, StalledGoOn
<1>13. call'[c] = rec /\ \A d \in Caller : d # c => call'[d] = call[d]
  BY <1>1 DEF Become, TypeOK, CallsOK
<1>14. ASSUME NEW d \in Caller, IsUnhanded(call'[d])
       PROVE  /\ d # c /\ call'[d] = call[d] /\ IsUnhanded(call[d]) /\ CallSeals(call[d])
              /\ TurnOf(call[d]) \in WriterId /\ writer'[TurnOf(call[d])].phase = "None"
              /\ HasBegun(TurnOf(call[d]))
  <2>1. d # c
    BY <1>5, <1>13, <1>14 DEF IsUnhanded
  <2>2. call'[d] = call[d] /\ IsUnhanded(call[d]) /\ CallSeals(call[d])
    BY <1>13, <1>14, <2>1 DEF SealInvariant
  <2>3. TurnOf(call[d]) # w
    BY <1>2, <2>1, <2>2 DEF SealInvariant, UnhandedOnce
  <2> QED BY <1>10, <2>1, <2>2, <2>3 DEF CallSeals
<1>15. ASSUME NEW d \in Caller PROVE CallSeals(call[d])'
  <2> SUFFICES ASSUME IsUnhanded(call'[d]), NEW v, v = TurnOf(call'[d])
               PROVE  /\ v \in WriterId /\ writer'[v].phase = "None" /\ HasBegun(v)'
                      /\ call'[d].step = "opened" => call'[d].op = "begin" /\ call'[d].state.open.sealed = "none"
                      /\ call'[d].op = "unhanded" => "cut" \in Faults
    BY DEF CallSeals, IsUnhanded, TurnOf, HasBegun
  <2>1. call'[d] = call[d] /\ CallSeals(call[d]) /\ v \in WriterId /\ writer'[v].phase = "None" /\ HasBegun(v)
    BY <1>14
  <2>2. HasBegun(v)'
    BY <1>1, <2>1 DEF HasBegun
  <2> QED BY <2>1, <2>2 DEF CallSeals
<1>16. UnhandedOnce'
  <2> SUFFICES ASSUME NEW d \in Caller, NEW e \in Caller, IsUnhanded(call'[d]), IsUnhanded(call'[e]),
                      TurnOf(call'[d]) = TurnOf(call'[e])
               PROVE  d = e
    BY DEF UnhandedOnce, IsUnhanded, TurnOf
  <2> QED BY <1>14 DEF SealInvariant, UnhandedOnce
<1> QED BY <1>1, <1>12, <1>15, <1>16, QuietSeals DEF CallsSealed

-----------------------------------------------------------------------------
(* Writers.                                                                  *)

(* What a writer becomes: it stops, or goes on by the one reply it held, if  *)
(* it held one.                                                              *)
SealsOn(me, rec) ==
  /\ rec.phase # "None" /\ OneReply(rec)
  /\ rec.phase \in Live => me.phase \in Live /\ me.held \in {"none", rec.held}

(* One writer changes, and the calls do not.                                 *)
LEMMA WriterGoes ==
  ASSUME TypeOK, SealInvariant, NEW w \in WriterId, NEW rec, writer' = [writer EXCEPT ![w] = rec],
         writer[w].phase # "None", SealsOn(writer[w], rec), UNCHANGED call
  PROVE  WritersGoOn /\ CallsGoOn
<1>1. WritersGoOn /\ \A v \in WriterId : writer[v].phase = "None" => writer'[v].phase = "None"
  BY OneWriterGoesOn DEF SealsOn
<1> QED BY <1>1 DEF CallsGoOn, CallGoes

LEMMA WriterChangesSeals ==
  ASSUME TypeOK, TypeOK', TurnInvariant, SealInvariant, NEW w \in WriterId, NEW rec,
         writer' = [writer EXCEPT ![w] = rec], writer[w].phase # "None", SealsOn(writer[w], rec),
         UNCHANGED <<head, journal, call>>, StalledGoOn
  PROVE  SealStep
<1>1. WritersGoOn /\ CallsGoOn
  BY WriterGoes
<1> QED BY <1>1, QuietSeals

(* A renewed lease leaves a turn sealed as it was, and so do taken items.    *)
LEMMA RenewedSeals ==
  ASSUME NEW i, NEW s \in State
  PROVE  /\ \A always : Renewed(i, s, always).open.sealed = s.open.sealed
         /\ \A items, always : Renewed(i, WithoutItems(s, items), always).open.sealed = s.open.sealed
<1>1. ASSUME NEW t, DOMAIN t.open = DOMAIN NoTurn, DOMAIN t = DOMAIN InitialState, NEW always
      PROVE  LET r == Renewed(i, t, always) IN
             /\ r.open.sealed = t.open.sealed
             /\ DOMAIN r.open = DOMAIN NoTurn /\ DOMAIN r = DOMAIN InitialState
  BY <1>1 DEF Renewed, InitialState, NoTurn
<1>2. /\ DOMAIN s.open = DOMAIN NoTurn /\ DOMAIN s = DOMAIN InitialState
      /\ \A items : LET t == WithoutItems(s, items) IN
           t.open = s.open /\ DOMAIN t = DOMAIN InitialState
  BY DEF State, OpenTurn, InitialState, NoTurn, WithoutItems
<1>3. \A items, always : Renewed(i, WithoutItems(s, items), always).open.sealed = s.open.sealed
  <2> TAKE items, always
  <2> DEFINE t == WithoutItems(s, items)
  <2>1. t.open = s.open /\ DOMAIN t = DOMAIN InitialState /\ DOMAIN t.open = DOMAIN NoTurn
    BY <1>2
  <2> HIDE DEF t
  <2>2. Renewed(i, t, always).open.sealed = t.open.sealed
    BY <1>1, <2>1
  <2> QED BY <2>1, <2>2 DEF t
<1> QED BY <1>1, <1>2, <1>3

(* A live writer's states are sealed by the one reply, and its end is that's.*)
LEMMA OwnPlansSeal ==
  ASSUME TypeOK, TurnInvariant, SealInvariant, NEW w \in WriterId, writer[w].phase \in Live
  PROVE  LET me == writer[w]
             ours == {"none", me.held}
         IN /\ me.state.open.sealed \in ours
            /\ \A always : Renewed(me.inst, me.state, always).open.sealed \in ours
            /\ \A items : Renewed(me.inst, WithoutItems(me.state, items), FALSE).open.sealed \in ours
            /\ [Renewed(me.inst, me.state, FALSE) EXCEPT !.open.sealed = me.held].open.sealed \in ours
            /\ EndState(w).open.sealed = "none"
            /\ me.phase = "Ending" => \A e \in EndEvents(w) : EndsSealed(me.state, e)
            /\ \A next : next.open.turn = w.turn /\ next.open.sealed \in ours => SealHolds(w.inc, next)
<1> DEFINE me == writer[w]
           ours == {"none", me.held}
           no == FALSE
<1>1. me.state \in State /\ OneReply(me) /\ w = [inc |-> w.inc, turn |-> w.turn]
  BY WriterInUse DEF SealInvariant, WriterSeals, WriterId
<1>2. me.state.open.sealed \in ours
  BY <1>1 DEF OneReply
<1>3. /\ \A always : Renewed(me.inst, me.state, always).open.sealed = me.state.open.sealed
      /\ \A items : Renewed(me.inst, WithoutItems(me.state, items), no).open.sealed = me.state.open.sealed
      /\ [Renewed(me.inst, me.state, no) EXCEPT !.open.sealed = me.held].open.sealed = me.held
  <2> DEFINE r == Renewed(me.inst, me.state, no)
  <2>1. "open" \in DOMAIN r /\ "sealed" \in DOMAIN r.open
    BY <1>1 DEF Renewed, State, OpenTurn
  <2> HIDE DEF r
  <2>2. [r EXCEPT !.open.sealed = me.held].open.sealed = me.held
    BY <2>1
  <2> HIDE DEF no
  <2>3. \A always : Renewed(me.inst, me.state, always).open.sealed = me.state.open.sealed
    BY <1>1, RenewedSeals
  <2>4. \A items : Renewed(me.inst, WithoutItems(me.state, items), no).open.sealed = me.state.open.sealed
    BY <1>1, RenewedSeals
  <2> QED BY <2>2, <2>3, <2>4 DEF r
<1>4. EndState(w).open.sealed = "none"
  BY <1>1 DEF EndState, ClosedState, NoTurn, State
<1>5. ASSUME me.phase = "Ending", NEW e \in EndEvents(w), me.state.open.sealed # "none"
      PROVE  e.reason = me.state.open.sealed /\ e.replied
  <2>1. e.reason = me.ending /\ e.replied = (me.held # "none")
    BY <1>5 DEF EndEvents, Ended
  <2>2. me.held # "none" /\ me.held = me.state.open.sealed /\ me.ending = me.held
    BY <1>1, <1>2, <1>5 DEF OneReply
  <2> QED BY <2>1, <2>2
<1>6. ASSUME NEW next, next.open.turn = w.turn, next.open.sealed \in ours PROVE SealHolds(w.inc, next)
  BY <1>1, <1>6 DEF SealHolds, SealedBy, Live
<1> QED BY <1>2, <1>3, <1>4, <1>5, <1>6 DEF EndsSealed

(* So a writer's commit that is stored ends its turn as it was sealed.       *)
LEMMA WriterStoredSeals ==
  ASSUME TypeOK, TypeOK', TurnInvariant, SealInvariant, NEW w \in WriterId, writer[w].phase \in Live,
         NEW events \in SUBSET Event, NEW next \in State, NEW rec, WriterCommits(w, events, next, rec),
         Decides(writer[w].state, events, next), SealHolds(w.inc, next),
         \A e \in events : EndsSealed(writer[w].state, e), SealsOn(writer[w], At(rec, next))
  PROVE  SealStep
<1>1. Snapshot(head, w.inc, writer[w].rev, writer[w].state)
  BY WriterDecides
<1>2. /\ writer[w].state = head.state /\ IsHead(head, w.inc, writer[w].rev)
      /\ StoreCommit(events, next) /\ UNCHANGED <<call, stalled>>
  BY <1>1, StoredFromHead DEF WriterCommits, WriterAnswer
<1>3. writer' = [writer EXCEPT ![w] = At(rec, next)] /\ writer[w].phase # "None"
  BY DEF WriterCommits, Live
<1>4. WritersGoOn /\ CallsGoOn
  BY <1>2, <1>3, WriterGoes
<1>5. StalledGoOn
  BY <1>2 DEF StalledGoOn
<1>6. head.present /\ head.inc = w.inc
  BY <1>2 DEF IsHead
<1> QED BY <1>2, <1>4, <1>5, <1>6, CommitSeals

(* Every commit of a writer keeps the invariant.                             *)
LEMMA WriterCommitsSeal ==
  ASSUME TypeOK, TypeOK', TurnInvariant, SealInvariant, NEW w \in WriterId
  PROVE  /\ Append(w) \/ KeepAlive(w) \/ SealCommit(w) \/ EndCommit(w) => SealStep
         /\ \A items \in SUBSET Steer : Take(w, items) => SealStep
<1> DEFINE me == writer[w]
           ours == {"none", me.held}
           tried == [me EXCEPT !.tried = TRUE]
           wrote == Wrote(w.turn)
           taken(items) == Taken(w.turn, items)
           no == FALSE
<1>1. me \in Writer /\ w.turn \in Nat /\ OneReply(me) /\ (Writing(w) => me.phase \in Live)
  BY WriterInUse DEF WriterOK, Writing, Live, SealInvariant, WriterSeals
<1>2. /\ {wrote} \in SUBSET Event /\ \A s : EndsSealed(s, wrote)
      /\ \A items \in SUBSET Steer : {taken(items)} \in SUBSET Event
      /\ \A items, s : EndsSealed(s, taken(items))
  <2>1. {wrote} \in SUBSET Event /\ \A items \in SUBSET Steer : {taken(items)} \in SUBSET Event
    BY <1>1, EventTypes DEF Event
  <2>2. wrote.kind = "wrote" /\ \A items : taken(items).kind = "inbox.taken"
    BY DEF Wrote, Taken
  <2> QED BY <2>1, <2>2 DEF EndsSealed
<1> HIDE DEF wrote, taken
<1>3. ASSUME me.phase \in Live, NEW rec \in Writer, NEW next, next.open.sealed \in ours,
             rec.phase = me.phase, rec.held = me.held, rec.sealed = me.sealed, rec.sealing \in {me.sealing, me.held},
             rec.attempted = me.attempted, rec.ending = me.ending
      PROVE  SealsOn(me, At(rec, next))
  <2> DEFINE at == [rec EXCEPT !.rev = head.rev + 1, !.state = next]
  <2>1. At(rec, next) = at
    BY <1>3 DEF At
  <2>2. /\ at.phase = me.phase /\ at.held = me.held /\ at.sealed = me.sealed /\ at.sealing = rec.sealing
        /\ at.attempted = me.attempted /\ at.ending = me.ending /\ at.state = next
    BY <1>3 DEF Writer
  <2> HIDE DEF at
  <2>3. OneReply(at)
    BY <1>1, <1>3, <2>2 DEF OneReply
  <2> QED BY <1>3, <2>1, <2>2, <2>3 DEF SealsOn, Live
<1>4. /\ tried \in Writer /\ tried.phase = me.phase /\ tried.held = me.held /\ tried.sealed = me.sealed
      /\ tried.sealing = me.sealing /\ tried.attempted = me.attempted /\ tried.ending = me.ending
  BY <1>1 DEF Writer
<1> HIDE DEF tried
<1>5. ASSUME Append(w) PROVE SealStep
  <2> DEFINE next == Renewed(me.inst, me.state, no)
  <2>1. me.phase \in Live /\ WriterCommits(w, {wrote}, next, tried)
    BY <1>1, <1>5 DEF Append, wrote, tried
  <2>2. next \in State /\ next.open.turn = w.turn /\ Decides(me.state, {wrote}, next)
    BY <2>1, WriterDecides DEF wrote
  <2>3. next.open.sealed \in ours /\ SealHolds(w.inc, next)
    BY <2>1, <2>2, OwnPlansSeal
  <2> HIDE DEF next
  <2>4. SealsOn(me, At(tried, next))
    BY <1>3, <1>4, <2>1, <2>3
  <2> QED BY <1>2, <2>1, <2>2, <2>3, <2>4, WriterStoredSeals
<1>6. ASSUME KeepAlive(w) PROVE SealStep
  <2> DEFINE next == Renewed(me.inst, me.state, TRUE)
  <2>1. me.phase \in Live /\ WriterCommits(w, {}, next, me)
    BY <1>6 DEF KeepAlive, Live
  <2>2. next \in State /\ next.open.turn = w.turn /\ Decides(me.state, {}, next)
    BY <2>1, WriterDecides
  <2>3. next.open.sealed \in ours /\ SealHolds(w.inc, next)
    BY <2>1, <2>2, OwnPlansSeal
  <2> HIDE DEF next
  <2>4. SealsOn(me, At(me, next))
    BY <1>1, <1>3, <2>1, <2>3
  <2> QED BY <2>1, <2>2, <2>3, <2>4, WriterStoredSeals
<1>7. ASSUME SealCommit(w) PROVE SealStep
  <2> DEFINE next == [Renewed(me.inst, me.state, no) EXCEPT !.open.sealed = me.held]
             rec == [me EXCEPT !.sealing = me.held]
  <2>1. me.phase \in Live /\ WriterCommits(w, {}, next, rec)
    BY <1>1, <1>7 DEF SealCommit
  <2>2. next \in State /\ next.open.turn = w.turn /\ Decides(me.state, {}, next)
    BY <2>1, WriterDecides
  <2>3. next.open.sealed \in ours /\ SealHolds(w.inc, next)
    BY <2>1, <2>2, OwnPlansSeal
  <2>4. /\ rec \in Writer /\ rec.phase = me.phase /\ rec.held = me.held /\ rec.sealed = me.sealed
        /\ rec.sealing = me.held /\ rec.attempted = me.attempted /\ rec.ending = me.ending
    BY <1>1 DEF Writer
  <2> HIDE DEF next, rec
  <2>5. SealsOn(me, At(rec, next))
    BY <1>3, <2>1, <2>3, <2>4
  <2> QED BY <2>1, <2>2, <2>3, <2>5, WriterStoredSeals
<1>8. ASSUME EndCommit(w) PROVE SealStep
  <2> DEFINE rec == Stop(me, "Ended", "none")
  <2>1. me.phase = "Ending" /\ me.phase \in Live /\ WriterCommits(w, EndEvents(w), EndState(w), rec)
    BY <1>8 DEF EndCommit, Live
  <2>2. EndEvents(w) \in SUBSET Event /\ EndState(w) \in State /\ Decides(me.state, EndEvents(w), EndState(w))
    BY <2>1, EndShape, WriterDecides
  <2>3. EndState(w).open.sealed = "none" /\ \A e \in EndEvents(w) : EndsSealed(me.state, e)
    BY <2>1, OwnPlansSeal
  <2>4. SealHolds(w.inc, EndState(w))
    BY <2>3 DEF SealHolds
  <2>5. rec.phase = "Ended"
    BY DEF Stop, NoHold
  <2> HIDE DEF rec
  <2>6. SealsOn(me, At(rec, EndState(w)))
    BY <2>5 DEF SealsOn, At, OneReply, Live
  <2> QED BY <2>1, <2>2, <2>3, <2>4, <2>6, WriterStoredSeals
<1>9. ASSUME NEW items \in SUBSET Steer, Take(w, items) PROVE SealStep
  <2> DEFINE next == Renewed(me.inst, WithoutItems(me.state, items), no)
  <2>1. me.phase \in Live /\ WriterCommits(w, {taken(items)}, next, tried)
    BY <1>1, <1>9 DEF Take, taken, tried
  <2>2. next \in State /\ next.open.turn = w.turn /\ Decides(me.state, {taken(items)}, next)
    BY <2>1, WriterDecides DEF taken
  <2>3. next.open.sealed \in ours /\ SealHolds(w.inc, next)
    BY <2>1, <2>2, OwnPlansSeal
  <2> HIDE DEF next
  <2>4. SealsOn(me, At(tried, next))
    BY <1>3, <1>4, <2>1, <2>3
  <2> QED BY <1>2, <2>1, <2>2, <2>3, <2>4, WriterStoredSeals
<1> QED BY <1>5, <1>6, <1>7, <1>8, <1>9

(* A writer that goes on from the head goes on by the reply that sealed it.  *)
LEMMA HeadSealed ==
  ASSUME SealInvariant, NEW w \in WriterId, writer[w].phase \in Live, Ours(w), w.inc = head.inc
  PROVE  head.state.open.sealed \in {"none", writer[w].held}
<1>1. w = [inc |-> head.inc, turn |-> head.state.open.turn]
  BY DEF WriterId, Ours
<1> QED BY <1>1 DEF SealInvariant, SealHolds, SealedBy

(* A writer's steps beside the log keep the invariant: a body that has a     *)
(* reply held ends with it.                                                  *)
LEMMA WriterLocalSeals ==
  ASSUME TypeOK, TypeOK', TurnInvariant, SealInvariant, EndsAsHeld, NEW w \in WriterId
  PROVE  /\ SealApply(w) \/ Learns(w) \/ Contends(w) \/ ScopeDone(w) => SealStep
         /\ \A reply \in Replies : Hold(w, reply) => SealStep
         /\ \A ending \in Endings : End(w, ending) => SealStep
         /\ \A unended \in Unended : ScopeCloses(w, unended) => SealStep
<1> DEFINE me == writer[w]
           went == [me EXCEPT !.rev = head.rev, !.state = head.state]
           same == UNCHANGED <<head, journal, call, stalled>>
<1>1. me \in Writer /\ writer \in [WriterId -> Writer] /\ OneReply(me) /\ (me.phase = "None" => me = NoHold)
  BY WriterInUse DEF WriterOK, TypeOK, WritersOK, SealInvariant, WriterSeals
<1>2. ASSUME NEW rec, writer' = [writer EXCEPT ![w] = rec], same, me.phase # "None",
             rec.phase # "None", rec.phase \notin Live \/ (SealsOn(me, rec))
      PROVE  SealStep
  <2>1. SealsOn(me, rec)
    BY <1>2 DEF SealsOn, OneReply
  <2>2. StalledGoOn
    BY <1>2 DEF StalledGoOn
  <2> QED BY <1>2, <2>1, <2>2, WriterChangesSeals
<1>3. UNCHANGED <<logVars, call, registered, released, stopping, alive, stalled, faults>> => same
  BY DEF logVars
<1>4. ASSUME NEW told, me.phase # "None", writer' = [writer EXCEPT ![w] = Stopped(me, told)], same PROVE SealStep
  <2>1. Stopped(me, told).phase # "None" /\ Stopped(me, told).phase \notin Live
    BY <1>4 DEF Stopped, Stop, NoHold, Live
  <2> QED BY <1>2, <1>4, <2>1
<1>5. ASSUME me.phase \in Live, Ours(w), w.inc = head.inc
      PROVE  /\ SealsOn(me, went)
             /\ me.phase = "Ending" =>
                  SealsOn(me, [me EXCEPT !.phase = "Open", !.attempted = me.ending,
                                         !.rev = head.rev, !.state = head.state])
  <2> DEFINE rec == [me EXCEPT !.phase = "Open", !.attempted = me.ending, !.rev = head.rev, !.state = head.state]
  <2>1. head.state.open.sealed \in {"none", me.held}
    BY <1>5, HeadSealed
  <2>2. /\ went.phase = me.phase /\ went.held = me.held /\ went.sealed = me.sealed /\ went.sealing = me.sealing
        /\ went.attempted = me.attempted /\ went.ending = me.ending /\ went.state = head.state
        /\ rec.phase = "Open" /\ rec.held = me.held /\ rec.sealed = me.sealed /\ rec.sealing = me.sealing
        /\ rec.attempted = me.ending /\ rec.state = head.state
    BY <1>1 DEF Writer
  <2> HIDE DEF went, rec
  <2>3. OneReply(went) /\ (me.phase = "Ending" => OneReply(rec))
    BY <1>1, <1>5, <2>1, <2>2 DEF OneReply
  <2>4. SealsOn(me, went) /\ (me.phase = "Ending" => SealsOn(me, rec))
    BY <1>5, <2>2, <2>3 DEF SealsOn, Live
  <2> QED BY <2>4 DEF rec, went
<1> HIDE DEF same
<1>6. ASSUME SealApply(w) PROVE SealStep
  <2> DEFINE rec == [me EXCEPT !.sealing = "none", !.sealed = IF me.phase = "Open" THEN me.sealing ELSE @]
  <2>1. writer' = [writer EXCEPT ![w] = rec] /\ same
    BY <1>1, <1>3, <1>6 DEF SealApply, Writer
  <2>2. rec.phase = me.phase /\ rec.state = me.state /\ rec.held = me.held /\ rec.sealing = "none"
        /\ rec.sealed \in {me.sealed, me.sealing} /\ rec.attempted = me.attempted /\ rec.ending = me.ending
    BY <1>1 DEF Writer
  <2> HIDE DEF rec
  <2>3. me.phase # "None"
    BY <1>1, <1>6 DEF SealApply, NoHold
  <2>4. me.phase \in Live => SealsOn(me, rec)
    BY <1>1, <2>2, <2>3 DEF SealsOn, OneReply
  <2> QED BY <1>2, <2>1, <2>2, <2>3, <2>4
<1>7. ASSUME Learns(w) PROVE SealStep
  <2>1. same /\ me.phase # "None" /\ me.phase \in Live
    BY <1>3, <1>7 DEF Learns, Live
  <2>2. CASE \E told : writer' = [writer EXCEPT ![w] = Stopped(me, told)]
    BY <1>4, <2>1, <2>2
  <2>3. CASE Ours(w) /\ w.inc = head.inc /\ writer' = [writer EXCEPT ![w] = went]
    <3>1. SealsOn(me, went)
      BY <1>5, <2>1, <2>3
    <3> HIDE DEF went
    <3> QED BY <1>2, <2>1, <2>3, <3>1 DEF SealsOn
  <2>4. \/ \E told : writer' = [writer EXCEPT ![w] = Stopped(me, told)]
        \/ Ours(w) /\ w.inc = head.inc /\ writer' = [writer EXCEPT ![w] = went]
    <3> DEFINE told == IF {e \in Ends : e.turn = w.turn /\ e.reason = "cancelled"} # {} THEN "cancelled" ELSE "interrupted"
    <3>1. \/ writer' = [writer EXCEPT ![w] = Stopped(me, "interrupted")]
          \/ writer' = [writer EXCEPT ![w] = Stopped(me, "removed")]
          \/ Ours(w) /\ WriterAnswer(w) = "conflict" /\ writer' = [writer EXCEPT ![w] = went]
          \/ writer' = [writer EXCEPT ![w] = Stopped(me, told)]
      BY <1>1, <1>7 DEF Learns
    <3>2. WriterAnswer(w) = "conflict" => w.inc = head.inc
      BY DEF WriterAnswer, CommitAnswer
    <3> HIDE DEF told, went
    <3> QED BY <3>1, <3>2
  <2> QED BY <2>2, <2>3, <2>4
<1>8. ASSUME Contends(w) PROVE SealStep
  <2> DEFINE rec == [me EXCEPT !.phase = "Open", !.attempted = me.ending, !.rev = head.rev, !.state = head.state]
             failed == Stop(me, "Failed", "error")
  <2>1. same /\ Ours(w) /\ w.inc = head.inc /\ me.phase \in Live /\ me.phase # "None"
    BY <1>3, <1>8 DEF Contends, WriterAnswer, CommitAnswer, Writing, Live
  <2>2. CASE writer' = [writer EXCEPT ![w] = failed]
    <3>1. failed.phase = "Failed"
      BY DEF Stop, NoHold
    <3> HIDE DEF failed
    <3> QED BY <1>2, <2>1, <2>2, <3>1 DEF Live
  <2>3. CASE me.phase = "Ending" /\ writer' = [writer EXCEPT ![w] = rec]
    <3>1. SealsOn(me, rec)
      BY <1>5, <2>1, <2>3
    <3> HIDE DEF rec
    <3> QED BY <1>2, <2>1, <2>3, <3>1 DEF SealsOn
  <2> QED BY <1>8, <2>2, <2>3 DEF Contends
<1>9. ASSUME ScopeDone(w) PROVE SealStep
  <2> DEFINE rec == [NoHold EXCEPT !.phase = "Gone"]
  <2>1. writer' = [writer EXCEPT ![w] = rec] /\ same /\ rec.phase = "Gone" /\ me.phase # "None"
    BY <1>9 DEF ScopeDone, NoHold, logVars, same
  <2> HIDE DEF rec
  <2> QED BY <1>2, <2>1 DEF Live
<1>10. ASSUME NEW reply \in Replies, Hold(w, reply) PROVE SealStep
  <2> DEFINE rec == [me EXCEPT !.held = reply, !.tried = TRUE]
  <2>1. /\ writer' = [writer EXCEPT ![w] = rec] /\ same /\ me.phase = "Open" /\ me.phase \in Live
        /\ reply # "none"
    BY <1>1, <1>3, <1>10, SessionsConstants DEF Hold, Writer, Writing, Live
  <2>2. /\ rec.phase = me.phase /\ rec.state = me.state /\ rec.held = reply /\ rec.sealing = me.sealing
        /\ rec.sealed = me.sealed /\ rec.attempted = me.attempted
    BY <1>1 DEF Writer
  <2> HIDE DEF rec
  <2>3. IF me.held = "none" THEN me.attempted = "none" ELSE reply = me.held
    <3>1. writer'[w] = rec
      BY <1>1, <2>1
    <3> QED BY <2>1, <2>2, <3>1 DEF EndsAsHeld
  <2>4. SealsOn(me, rec)
    BY <1>1, <2>1, <2>2, <2>3 DEF SealsOn, OneReply
  <2> QED BY <1>2, <2>1, <2>2, <2>4
<1>11. ASSUME NEW ending, NEW scope \in BOOLEAN, BeginEnd(w, ending, scope),
              scope => me.held \in {"none", IF me.sealed # "none" THEN me.sealed ELSE ending}
       PROVE  SealStep
  <2> DEFINE as == IF me.sealed # "none" THEN me.sealed ELSE ending
             rec == [me EXCEPT !.phase = "Ending", !.scope = scope, !.ending = as]
  <2>1. writer' = [writer EXCEPT ![w] = rec] /\ same /\ me.phase = "Open"
    BY <1>3, <1>11 DEF BeginEnd
  <2>2. scope => me.held \in {"none", as}
    BY <1>11
  <2> HIDE DEF as
  <2>3. /\ rec.phase = "Ending" /\ rec.state = me.state /\ rec.held = me.held /\ rec.sealing = me.sealing
        /\ rec.sealed = me.sealed /\ rec.attempted = me.attempted /\ rec.ending = as /\ rec.scope = scope
    BY <1>1 DEF Writer
  <2> HIDE DEF rec
  <2>4. me.held \in {"none", as}
    <3>1. writer'[w] = rec
      BY <1>1, <2>1
    <3>2. ~scope => me.held \in {"none", as}
      BY <2>1, <2>3, <3>1 DEF EndsAsHeld
    <3> QED BY <2>2, <3>2
  <2>5. SealsOn(me, rec)
    BY <1>1, <2>1, <2>3, <2>4 DEF SealsOn, OneReply, Live
  <2> QED BY <1>2, <2>1, <2>3, <2>5
<1>12. ASSUME NEW ending \in Endings, End(w, ending) PROVE SealStep
  <2> DEFINE no == FALSE
  <2>1. BeginEnd(w, ending, no) /\ no \in BOOLEAN /\ ~no
    BY <1>12 DEF End
  <2> HIDE DEF no
  <2> QED BY <1>11, <2>1
<1>13. ASSUME NEW unended \in Unended, ScopeCloses(w, unended) PROVE SealStep
  <2> DEFINE ending == IF me.attempted # "none" THEN me.attempted
                       ELSE IF me.held # "none" THEN me.held ELSE unended
             yes == TRUE
  <2>1. CASE BeginEnd(w, ending, yes)
    <3>1. me.phase \in Live
      BY <2>1 DEF BeginEnd, Live
    <3>2. me.held \in {"none", IF me.sealed # "none" THEN me.sealed ELSE ending}
      BY <1>1, <3>1 DEF OneReply
    <3>3. yes \in BOOLEAN
      OBVIOUS
    <3> HIDE DEF ending, yes
    <3> QED BY <1>11, <2>1, <3>2, <3>3
  <2>2. CASE me.phase = "Ending" /\ writer' = [writer EXCEPT ![w].scope = TRUE] /\ same
    <3> DEFINE rec == [me EXCEPT !.scope = TRUE]
    <3>1. writer' = [writer EXCEPT ![w] = rec]
      BY <1>1, <2>2 DEF Writer
    <3>2. /\ rec.phase = me.phase /\ rec.state = me.state /\ rec.held = me.held /\ rec.sealing = me.sealing
          /\ rec.sealed = me.sealed /\ rec.attempted = me.attempted /\ rec.ending = me.ending
      BY <1>1 DEF Writer
    <3> HIDE DEF rec
    <3>3. SealsOn(me, rec)
      BY <1>1, <2>2, <3>2 DEF SealsOn, OneReply
    <3> QED BY <1>2, <2>2, <3>1, <3>2, <3>3
  <2> QED BY <1>3, <1>13, <2>1, <2>2 DEF ScopeCloses
<1> QED BY <1>6, <1>7, <1>8, <1>9, <1>10, <1>12, <1>13

(* So does a write that fails, whose commit the store may still apply.       *)
LEMMA WriterFaultsSeal ==
  ASSUME TypeOK, TypeOK', TurnInvariant, SealInvariant, NEW w \in WriterId, WriteFails(w)
  PROVE  SealStep
<1> DEFINE me == writer[w]
           ours == {"none", me.held}
           no == FALSE
           next == Renewed(me.inst, me.state, no)
           sealing == [next EXCEPT !.open.sealed = me.held]
           wrote == Wrote(w.turn)
           failed == Stop(me, "Failed", "error")
           retried == [me EXCEPT !.phase = "Open", !.attempted = me.ending]
<1>1. me.phase \in Live /\ me.phase # "None" /\ UNCHANGED <<head, journal, call>>
  BY DEF WriteFails, logVars, Live
<1>2. Snapshot(head, w.inc, me.rev, me.state) /\ me \in Writer /\ OneReply(me)
  BY <1>1, WriterDecides, WriterInUse DEF WriterOK, SealInvariant, WriterSeals
<1>3. ASSUME NEW events, NEW after, NEW rec, Decides(me.state, events, after), SealHolds(w.inc, after),
             \A e \in events : EndsSealed(me.state, e), SealsOn(me, rec),
             Stall(me.rev, w.inc, NotAfter(w), events, after), writer' = [writer EXCEPT ![w] = rec]
      PROVE  SealStep
  <2> DEFINE s == [rev |-> me.rev, inc |-> w.inc, notAfter |-> NotAfter(w), events |-> events, next |-> after]
  <2>1. StalledFollows(head, s)
    BY <1>2, <1>3 DEF StalledFollows, Snapshot
  <2>2. StalledSeals(s)
    BY <1>2, <1>3 DEF StalledSeals, Snapshot
  <2>3. stalled' = stalled \cup {s}
    BY <1>3 DEF Stall
  <2> HIDE DEF s
  <2>4. StalledGoOn
    BY <2>1, <2>2, <2>3 DEF StalledGoOn
  <2> QED BY <1>1, <1>3, <2>4, WriterChangesSeals
<1>4. /\ Decides(me.state, {wrote}, next) /\ Decides(me.state, {}, sealing)
      /\ next.open.turn = w.turn /\ sealing.open.turn = w.turn
      /\ me.phase = "Ending" => Decides(me.state, EndEvents(w), EndState(w))
  BY <1>1, WriterDecides
<1>5. SealHolds(w.inc, next) /\ SealHolds(w.inc, sealing) /\ SealHolds(w.inc, EndState(w))
  <2>1. next.open.sealed \in ours /\ sealing.open.sealed \in ours /\ EndState(w).open.sealed = "none"
    BY <1>1, OwnPlansSeal
  <2>2. SealHolds(w.inc, EndState(w))
    BY <2>1 DEF SealHolds
  <2> HIDE DEF next, sealing
  <2> QED BY <1>1, <1>4, <2>1, <2>2, OwnPlansSeal
<1>6. EndsSealed(me.state, wrote) /\ (me.phase = "Ending" => \A e \in EndEvents(w) : EndsSealed(me.state, e))
  <2>1. wrote.kind = "wrote"
    BY DEF Wrote
  <2> QED BY <1>1, <2>1, OwnPlansSeal DEF EndsSealed
<1>7. SealsOn(me, failed) /\ SealsOn(me, me) /\ (me.phase = "Ending" => SealsOn(me, retried))
  <2>1. /\ failed.phase = "Failed" /\ retried.phase = "Open" /\ retried.state = me.state /\ retried.held = me.held
        /\ retried.sealing = me.sealing /\ retried.sealed = me.sealed /\ retried.attempted = me.ending
    BY <1>2 DEF Stop, NoHold, Writer
  <2> HIDE DEF failed, retried
  <2> QED BY <1>1, <1>2, <2>1 DEF SealsOn, OneReply, Live
<1>8. \/ Stall(me.rev, w.inc, NotAfter(w), {wrote}, next) /\ writer' = [writer EXCEPT ![w] = failed]
      \/ Stall(me.rev, w.inc, NotAfter(w), {}, sealing) /\ writer' = [writer EXCEPT ![w] = me]
      \/ /\ me.phase = "Ending" /\ Stall(me.rev, w.inc, NotAfter(w), EndEvents(w), EndState(w))
         /\ writer' = [writer EXCEPT ![w] = retried]
  BY DEF WriteFails
<1> HIDE DEF next, sealing, wrote, failed, retried
<1> QED BY <1>3, <1>4, <1>5, <1>6, <1>7, <1>8

-----------------------------------------------------------------------------
(* Shutdown, crashes, the session's own life, the store and the clock.       *)

(* A session that is removed or created again has no turn that is sealed; a  *)
(* cut begin, which knows its turn by its number, is never of another life.  *)
LEMMA LifeSeals ==
  ASSUME TypeOK, TypeOK', TurnInvariant, SealInvariant, WritersGoOn, UNCHANGED <<call, stalled>>,
         \A w \in WriterId : writer[w].phase = "None" => writer'[w].phase = "None",
         CreateSession(InitialState) \/ (RemoveSession(InitialState) /\ "cut" \notin Faults)
  PROVE  SealStep
<1>1. head.inc \in Nat
  BY HeadType DEF TypeOK
<1>2. CASE CreateSession(InitialState)
  <2>1. ~head.present /\ head'.inc = head.inc + 1 /\ head'.state = InitialState /\ journal' = journal
    BY <1>2 DEF CreateSession
  <2>2. TurnsGrow /\ "cut" \notin Faults /\ NewEnds = {}
    BY <1>1, <2>1 DEF TurnsGrow, SealInvariant, OneLife, NewEnds, NewEvents
  <2>3. SealHolds(head'.inc, head'.state)
    BY <2>1 DEF SealHolds, InitialState, NoTurn
  <2>4. LogMoves /\ StalledGoOn /\ CallsGoOn
    BY <1>2 DEF LogMoves, StalledGoOn, CallsGoOn, CallGoes
  <2>5. SealInvariant'
    BY <2>2, <2>3, <2>4, SealsKept
  <2> QED BY <2>2, <2>5 DEF SealStep, EndsAsSealed
<1>3. CASE RemoveSession(InitialState) /\ "cut" \notin Faults
  <2>1. ~head'.present /\ head'.inc = head.inc /\ head'.state = InitialState /\ journal' = {}
    BY <1>3, HeadType DEF RemoveSession, TypeOK
  <2>2. TurnsGrow /\ NewEnds = {}
    BY <1>1, <2>1 DEF TurnsGrow, NewEnds, NewEvents
  <2>3. SealHolds(head'.inc, head'.state)
    BY <2>1 DEF SealHolds, InitialState, NoTurn
  <2>4. LogMoves /\ StalledGoOn /\ CallsGoOn
    BY <1>3 DEF LogMoves, StalledGoOn, CallsGoOn, CallGoes
  <2>5. SealInvariant'
    BY <1>3, <2>2, <2>3, <2>4, SealsKept
  <2> QED BY <2>2, <2>5 DEF SealStep, EndsAsSealed
<1> QED BY <1>2, <1>3

(* A process that ends takes its calls and its writers with it.              *)
LEMMA CrashSeals ==
  ASSUME TypeOK, TypeOK', TurnInvariant, SealInvariant, NEW i \in Instance, Crash(i)
  PROVE  SealStep
<1> DEFINE gone == [NoHold EXCEPT !.phase = "Gone"]
<1>1. /\ call' = [c \in Caller |-> IF call[c].at = i THEN Idle ELSE call[c]]
      /\ writer' = [w \in WriterId |-> IF writer[w].inst = i THEN gone ELSE writer[w]]
      /\ UNCHANGED <<head, journal, stalled>>
  BY DEF Crash, logVars
<1>2. gone.phase = "Gone"
  BY DEF NoHold
<1> HIDE DEF gone
<1>3. ASSUME NEW w \in WriterId PROVE WriterGoesOn(w) /\ (writer[w].phase = "None" => writer'[w].phase = "None")
  <2>1. CASE writer'[w] = writer[w]
    BY <2>1 DEF WriterGoesOn
  <2>2. CASE writer'[w] # writer[w]
    <3>1. writer[w].inst = i /\ writer'[w] = gone
      BY <1>1, <2>2
    <3>2. writer[w].phase # "None"
      <4>1. NoHold.inst # i
        BY StateConstants DEF NoHold
      <4> QED BY <3>1, <4>1 DEF SealInvariant, WriterSeals
    <3>3. HasBegun(w)
      BY <3>2 DEF SealInvariant, WriterSeals
    <3> QED BY <1>2, <3>1, <3>2, <3>3 DEF WriterGoesOn, OneReply, Live
  <2> QED BY <2>1, <2>2
<1>4. \A c \in Caller : CallGoes(call[c], call'[c])
  <2>1. \A c \in Caller : call'[c] \in {Idle, call[c]}
    BY <1>1
  <2> QED BY <2>1, IdleGoes DEF CallGoes
<1>5. WritersGoOn /\ CallsGoOn /\ StalledGoOn
  BY <1>1, <1>3, <1>4 DEF WritersGoOn, CallsGoOn, StalledGoOn
<1> QED BY <1>1, <1>5, QuietSeals

(* A commit the store applies late ends the open turn as it was sealed, or   *)
(* it is not applied.                                                        *)
LEMMA LandSeals ==
  ASSUME TypeOK, TypeOK', TurnInvariant, SealInvariant, NEW s \in stalled, Land(s)
  PROVE  SealStep
<1>1. /\ StoreCommit(s.events, s.next) /\ stalled' \subseteq stalled /\ UNCHANGED <<call, writer>>
      /\ IsHead(head, s.inc, s.rev)
  BY DEF Land, CommitAnswer, IsHead
<1>2. s.events \in SUBSET Event /\ s.next \in State
  BY DEF TypeOK, FaultsOK, Stalled
<1>3. Decides(head.state, s.events, s.next)
  BY <1>1 DEF TurnInvariant, PlansFromTheHead, StalledFollows
<1>4. SealHolds(head.inc, s.next) /\ \A e \in s.events : EndsSealed(head.state, e)
  BY <1>1 DEF SealInvariant, StalledSeals, IsHead
<1>5. WritersGoOn /\ CallsGoOn /\ StalledGoOn
  BY <1>1 DEF WritersGoOn, WriterGoesOn, CallsGoOn, CallGoes, StalledGoOn
<1> QED BY <1>1, <1>2, <1>3, <1>4, <1>5, CommitSeals DEF IsHead

LEMMA EnvironmentSeals ==
  ASSUME CutsStay, TypeOK, TypeOK', TurnInvariant, SealInvariant
  PROVE  /\ \A i \in Instance : ShutdownRefuses(i) \/ ShutdownInterrupts(i) \/ Crash(i) \/ Remove(i) => SealStep
         /\ \A s \in stalled : Land(s) => SealStep
         /\ Create \/ Time => SealStep
<1>1. ASSUME UNCHANGED <<head, journal, call, writer, stalled>> PROVE SealStep
  BY <1>1, QuietSeals DEF WritersGoOn, WriterGoesOn, CallsGoOn, CallGoes, StalledGoOn
<1>2. ASSUME NEW i \in Instance, ShutdownRefuses(i) \/ ShutdownInterrupts(i) PROVE SealStep
  BY <1>1, <1>2 DEF ShutdownRefuses, ShutdownInterrupts, logVars
<1>3. ASSUME NEW i \in Instance, Remove(i) PROVE SealStep
  <2>1. /\ RemoveSession(InitialState) /\ UNCHANGED <<call, stalled>> /\ "cut" \notin Faults
        /\ writer' = ClosedLocally(i, registered[i].turn, "removed")
    BY <1>3 DEF Remove, Fault, CutsStay
  <2>2. WritersGoOn /\ \A w \in WriterId : writer[w].phase = "None" => writer'[w].phase = "None"
    BY <2>1, StoppedGoOn
  <2> QED BY <2>1, <2>2, LifeSeals
<1>4. ASSUME Create PROVE SealStep
  <2>1. CreateSession(InitialState) /\ UNCHANGED <<call, stalled, writer>>
    BY <1>4 DEF Create, local
  <2>2. WritersGoOn
    BY <2>1 DEF WritersGoOn, WriterGoesOn
  <2> QED BY <2>1, <2>2, LifeSeals
<1>5. ASSUME Time PROVE SealStep
  BY <1>1, <1>5 DEF Time, Tick, local
<1> QED BY <1>2, <1>3, <1>4, <1>5, CrashSeals, LandSeals

-----------------------------------------------------------------------------
(* Sealed turns end as they were sealed.                                     *)

(* Nothing is sealed initially.                                              *)
LEMMA InitSeals == Init => SealInvariant
<1> SUFFICES ASSUME Init PROVE SealInvariant
  OBVIOUS
<1>1. OneLife /\ SealHolds(head.inc, head.state) /\ stalled = {}
  BY DEF Init, OneLife, SealHolds, InitialState, NoTurn
<1>2. \A c \in Caller : call[c] = Idle
  BY DEF Init
<1>3. ~IsUnhanded(Idle)
  BY DEF IsUnhanded, Idle
<1>4. (\A c \in Caller : CallSeals(call[c])) /\ UnhandedOnce
  BY <1>2, <1>3 DEF CallSeals, UnhandedOnce
<1>5. \A w \in WriterId : WriterSeals(w)
  BY DEF Init, WriterSeals, OneReply, NoHold, Live
<1> QED BY <1>1, <1>4, <1>5 DEF SealInvariant

(* Every step keeps the invariant, and ends a sealed turn as it was sealed.  *)
LEMMA NextSeals ==
  ASSUME CutsStay
  PROVE  TypeOK /\ TypeOK' /\ TurnInvariant /\ SealInvariant /\ [Next]_vars /\ [EndsAsHeld]_vars => SealStep
<1> SUFFICES ASSUME TypeOK, TypeOK', TurnInvariant, SealInvariant, [Next]_vars, [EndsAsHeld]_vars PROVE SealStep
  OBVIOUS
<1>1. CASE UNCHANGED vars
  <2>1. UNCHANGED <<head, journal, call, writer, stalled>>
    BY <1>1 DEF vars
  <2> QED BY <2>1, QuietSeals DEF WritersGoOn, WriterGoesOn, CallsGoOn, CallGoes, StalledGoOn
<1>2. CASE Next /\ EndsAsHeld
  <2>1. ASSUME NEW c \in Caller, CallStep(c) \/ StoreFailed(c) \/ BeginCut(c) PROVE SealStep
    BY <2>1, LocalCallSeals, CommittingCallSeals, FailingCallSeals, HandoverSeals DEF CallStep
  <2>2. ASSUME NEW c \in Caller, NEW i \in Instance,
               \/ \E ask \in Ask : AskBegin(c, i, ask)
               \/ \E turn \in CancelTurns : AskCancel(c, i, turn)
               \/ \E item \in Delivers : AskDeliver(c, i, item)
               \/ \E tx \in Tx : AskTransact(c, i, tx)
               \/ ShutdownCloses(c, i)
        PROVE  SealStep
    BY <2>2, CallInSeals, CloseAskedSeals
  <2>3. ASSUME NEW c \in Caller, NEW w \in WriterId, AskTimeLimit(c, w) PROVE SealStep
    BY <2>3, CloseAskedSeals
  <2>4. ASSUME NEW w \in WriterId, WriterStep(w) \/ WriteFails(w) PROVE SealStep
    BY <1>2, <2>4, WriterCommitsSeal, WriterLocalSeals, WriterFaultsSeal DEF WriterStep
  <2>5. ASSUME \/ \E i \in Instance : ShutdownRefuses(i) \/ ShutdownInterrupts(i) \/ Crash(i) \/ Remove(i)
               \/ \E s \in stalled : Land(s)
               \/ Create \/ Time
        PROVE  SealStep
    BY <2>5, EnvironmentSeals
  <2> QED BY <1>2, <2>1, <2>2, <2>3, <2>4, <2>5 DEF Next
<1> QED BY <1>1, <1>2

(* SealInvariant holds of every session whose bodies end with the reply they *)
(* hold, unless begins are cut and the session is removed too: the head says *)
(* a turn is sealed only by the reply its own writer holds, and whatever may *)
(* still be stored ends that turn as that reply does.                        *)
THEOREM SealsHold ==
  ASSUME CutsStay
  PROVE  Spec /\ [][EndsAsHeld]_vars => []SealInvariant
<1>1. TypeOK /\ TypeOK' /\ TurnInvariant /\ SealInvariant /\ [Next]_vars /\ [EndsAsHeld]_vars => SealInvariant'
  BY NextSeals DEF SealStep
<1> QED BY <1>1, InitSeals, TypeCorrect, TurnsFollowTheHead, PTL DEF Spec

(* A turn its final reply sealed ends as it sealed, with that reply stored,  *)
(* whoever ends it: its own end, a reap, a takeover, a cancel, a shutdown, a *)
(* commit the store applied late.                                            *)
THEOREM SealsAreKept ==
  ASSUME CutsStay
  PROVE  Spec /\ [][EndsAsHeld]_vars => SealedTurnsEndAsSealed
<1> DEFINE Kept == \A e \in NewEnds : head.state.open.sealed # "none" => e.reason = head.state.open.sealed /\ e.replied
<1>1. TypeOK /\ TypeOK' /\ TurnInvariant /\ SealInvariant /\ [Next]_vars /\ [EndsAsHeld]_vars => Kept
  <2>1. EndsAsSealed => Kept
    BY DEF EndsAsSealed, EndsSealed, NewEnds
  <2> QED BY <2>1, NextSeals DEF SealStep
<1> HIDE DEF Kept
<1>2. Spec /\ [][EndsAsHeld]_vars => [][Kept]_vars
  BY <1>1, SealsHold, TypeCorrect, TurnsFollowTheHead, PTL DEF Spec
<1> QED BY <1>2 DEF SealedTurnsEndAsSealed, Kept
=============================================================================
