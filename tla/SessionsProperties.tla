------------------------- MODULE SessionsProperties -------------------------
(***************************************************************************)
(* What Sessions promises of one session, whatever its instances, callers  *)
(* and writers do.                                                         *)
(***************************************************************************)
EXTENDS Sessions

EndedTurns == {e.turn : e \in Ends}
NewEvents == journal' \ journal
NewEnds == {e \in NewEvents : e.kind = "turn.ended"}

-----------------------------------------------------------------------------
(* The shape of every variable: what the journal, the head, a call in        *)
(* flight, a writer and a stalled commit may hold.                           *)
RunOrNone == Run \cup {NoRun}
KeyIds == {ask.key : ask \in Ask} \cup Item \cup {NoItem}
Key == KeyIds \X Nat \X RunOrNone
StartEvent ==
    [rev : Nat, kind : {"turn.started"}, turn : Nat, run : Run, key : Key, origin : {"user", "inbox", "task"},
     input : Input \cup {NoItem}, resumes : Nat, claimed : SUBSET Notice]
EndEvent ==
    [rev : Nat, kind : {"turn.ended"}, turn : Nat, reason : Reason, code : Code,
     replied : BOOLEAN, dropped : SUBSET Notice]
TurnEvent == [rev : Nat, kind : {"wrote"}, turn : Nat]
             \cup [rev : Nat, kind : {"inbox.taken"}, turn : Nat, items : SUBSET Steer]
OtherEvent == [rev : Nat, kind : {"inbox.queued"}, item : Item]
              \cup [rev : Nat, kind : {"transact.keyed"}, tx : Tx]
Event == StartEvent \cup EndEvent \cup TurnEvent \cup OtherEvent

Head == [present : BOOLEAN, inc : 1..MaxInc, rev : Nat, state : State]

Inboxes == {"deliver", "enqueue"}
Op == {"none", "begin", "unhanded", "transact"} \cup CloseOp \cup Inboxes
CallStepName == {"idle", "prepared", "read", "lost", "refused", "opened", "handed", "await", "closing"}
Told == {"none", "duplicate", "key conflict", "run reused", "busy", "nothing", "not resumable",
         "stopping", "contended", "missing", "error"}
Call == [op : Op, at : Instance \cup {NoInstance}, step : CallStepName, ask : Ask \cup {NoAsk},
         turn : Nat, run : RunOrNone, item : Item \cup Tx \cup {NoItem}, key : Key,
         rev : Nat, inc : Nat, state : State, now : Nat, tries : Nat, reaped : Nat,
         told : Told, open : BOOLEAN]

(* What each operation asks with.                                            *)
AskedWith(k) ==
    /\ k.step # "idle" => k.at \in Instance /\ k.op # "none"
    /\ k.step \in {"read", "opened"} => k.inc \in 1..MaxInc
    /\ k.step = "opened" => k.turn \in 1..MaxTurn
    /\ k.op = "begin" /\ k.step \in {"prepared", "read", "lost", "refused"} => k.ask \in Ask
    /\ k.op = "begin" /\ k.step # "refused" => k.item \in Input \cup {NoItem} /\ k.run \in Run
    /\ k.op \in Inboxes => k.item \in Item
    /\ k.op = "transact" => k.item \in Tx
    /\ k.step \in {"await", "closing"} => k.op \in CloseOp
    /\ k.op \in CloseOp \cup {"unhanded"} \/ k.step \in {"opened", "handed", "await"} => k.turn # 0

Phase == {"None", "Open", "Ending", "Failed", "Closed", "Ended", "Gone"}
Ending == Reason \cup {"none"}
Writer == [inst : Instance \cup {NoInstance}, run : RunOrNone, rev : Nat, state : State, phase : Phase,
           tried : BOOLEAN, held : Seal, sealed : Seal, sealing : Seal, ending : Ending,
           attempted : Ending, scope : BOOLEAN,
           told : {"none", "cancelled", "interrupted", "timed-out", "removed", "error"}]

(* A writer in use has its instance, and one that is ending, an ending.      *)
WritesFor(w) ==
    /\ w.phase \notin {"None", "Gone"} => w.inst \in Instance
    /\ w.phase = "Ending" => w.ending \in Reason

Stalled == [rev : Nat, inc : Nat, notAfter : Nat, events : SUBSET Event, next : State]

LogOK == head \in Head /\ journal \subseteq Event /\ now \in Nat
CallsOK == call \in [Caller -> Call] /\ \A c \in Caller : AskedWith(call[c])
WritersOK == writer \in [WriterId -> Writer] /\ \A w \in WriterId : WritesFor(writer[w])
InstancesOK ==
    /\ registered \in [Instance -> WriterId \cup {NoWriter}]
    /\ released \in [Instance -> SUBSET (Nat \X RunOrNone)]
    /\ stopping \in [Instance -> {"running", "refusing", "interrupting", "swept"}]
    /\ alive \in [Instance -> BOOLEAN]
FaultsOK == stalled \subseteq Stalled /\ faults \in Nat

TypeOK == LogOK /\ CallsOK /\ WritersOK /\ InstancesOK /\ FaultsOK

-----------------------------------------------------------------------------
(* Turns.                                                                    *)

(* Turns do not overlap: each number begins once, and the turns begun and    *)
(* not ended in the journal are exactly the one the head says is open, under *)
(* the run that began it.  Two begins, or a begin and a writer, that both    *)
(* plan from the same head would break it.                                   *)
TurnsDoNotOverlap ==
    /\ \A s, t \in Starts : s.turn = t.turn => s = t
    /\ {s.turn : s \in Starts} \ EndedTurns = IF IsOpen(head.state) THEN {head.state.open.turn} ELSE {}
    /\ \A s \in Starts : s.turn = head.state.open.turn => s.run = head.state.open.run

(* A turn ends once, and nothing of it is stored after its end: the holder   *)
(* of a turn that was reaped, taken over or cancelled under it cannot write  *)
(* beside whoever came next.                                                 *)
NothingAfterTheEnd ==
    \A e \in Ends, f \in journal :
        (f # e /\ f.kind \in {"turn.started", "turn.ended", "inbox.taken", "wrote"} /\ f.turn = e.turn)
            => f.kind # "turn.ended" /\ f.rev <= e.rev

(* A key names one turn, and so does a run id: however often a begin is      *)
(* asked again (after a conflict, an unknown outcome, with a new run), it    *)
(* does not open a second turn.                                              *)
KeyNamesOneTurn == \A s, t \in Starts : s.key = t.key \/ s.run = t.run => s.turn = t.turn

(* Nobody holds an open turn: its holder let it go, its lease ran out, or    *)
(* its process is gone or cannot be named.                                   *)
Unheld(open) ==
    \/ <<open.turn, open.run>> \in released[open.holder]
    \/ open.expiresAt # 0 /\ now > open.expiresAt
    \/ open.expiresAt = 0 /\ (~alive[open.holder] \/ HostOf[open.holder] = NoHost)

(* A turn is reaped only when nobody holds it.  (A reap the store applied    *)
(* late may be of a turn whose holder let it go and has died since.)         *)
HeldTurnsAreNotReaped ==
    [][\A e \in NewEnds : e.code = "turn.lease" =>
         LET open == head.state.open IN
         /\ open.turn = e.turn
         /\ Unheld(open) \/ (stalled' # stalled /\ ~alive[open.holder])]_vars

WrittenByHolder(e) == e.kind \in {"wrote", "inbox.taken"} \/ (e.kind = "turn.ended" /\ e.code = "own")

(* Nothing a holder writes of its turn is stored past its lease, whether or  *)
(* not someone has reaped the turn yet.                                      *)
LateWritesAreNotStored ==
    [][\A e \in NewEvents : WrittenByHolder(e) /\ head.state.open.holder \in Leased
         => now <= head.state.open.expiresAt]_vars

(* A keyed transact is recorded once, however often its caller repeats it.   *)
TransactsRecordOnce == \A e, f \in Of("transact.keyed") : e.tx = f.tx => e = f

(* A turn is ended as cancelled only while someone held it: where nobody     *)
(* does, the outcome is the reap's whichever comes first, the cancel or a    *)
(* begin.  (Of a cancel the store reported failed and applied later, its     *)
(* caller was told nothing.)                                                 *)
OnlyHeldTurnsAreCancelled ==
    [][\A e \in NewEnds : e.code = "cancelled" /\ stalled' = stalled =>
         LET open == head.state.open IN
         open.expiresAt = 0 \/ \E c \in Caller : call[c].op = "cancel" /\ call[c].now <= open.expiresAt]_vars

(* A turn its final reply sealed ends as it sealed, with that reply stored,  *)
(* whoever ends it: its own end, a reap, a takeover, a cancel, a shutdown.   *)
SealedTurnsEndAsSealed ==
    [][\A e \in NewEnds : head.state.open.sealed # "none" =>
         e.reason = head.state.open.sealed /\ e.replied]_vars

-----------------------------------------------------------------------------
(* Why turns do not overlap.                                                 *)

OfTurn == {"turn.started", "turn.ended", "inbox.taken", "wrote"}

(* What a journal J of revision rev says of the turns of state s.            *)
LedgerOf(s, J, rev) ==
    LET starts == {e \in J : e.kind = "turn.started"}
        ends == {e \in J : e.kind = "turn.ended"}
    IN /\ \A e \in J : e.rev <= rev
       /\ \A e \in starts : e.turn \in 1..s.turns
       /\ \A n \in 1..s.turns : \E e \in starts : e.turn = n
       /\ \A e, f \in starts : e.turn = f.turn => e = f
       /\ \A e, f \in ends : e.turn = f.turn => e = f
       /\ \A e \in J : e.kind \in OfTurn => \E f \in starts : f.turn = e.turn
       /\ \A e \in ends, f \in J : f.kind \in OfTurn /\ f.turn = e.turn => f.rev <= e.rev
       /\ \A e \in starts : e.turn = s.open.turn \/ \E f \in ends : f.turn = e.turn
       /\ IsOpen(s) => /\ s.open.turn = s.turns
                       /\ \E e \in starts : e.turn = s.open.turn /\ e.run = s.open.run
                       /\ \A e \in ends : e.turn # s.open.turn

(* A commit decided from state s: it ends the open turn at most, writes of   *)
(* no other, and begins the next turn only once none is open.                *)
Decides(s, events, next) ==
    /\ \A e \in events : e.kind \in OfTurn \ {"turn.started"} => IsOpen(s) /\ e.turn = s.open.turn
    /\ \A e, f \in events : e.kind = f.kind /\ e.kind \in {"turn.started", "turn.ended"} => e = f
    /\ \A e \in events : e.kind = "turn.started" =>
         /\ e.turn = s.turns + 1
         /\ next.turns = s.turns + 1 /\ next.open.turn = s.turns + 1 /\ next.open.run = e.run
         /\ IsOpen(s) => \E f \in events : f.kind = "turn.ended"
    /\ (\A e \in events : e.kind # "turn.started") =>
         /\ next.turns = s.turns
         /\ IF \E f \in events : f.kind = "turn.ended" THEN ~IsOpen(next)
            ELSE next.open.turn = s.open.turn /\ next.open.run = s.open.run

(* Whether a revision of an incarnation may still be that of head h.         *)
Past(h, inc, rev) == inc <= h.inc /\ (h.present /\ inc = h.inc => rev <= h.rev)
IsHead(h, inc, rev) == h.present /\ inc = h.inc /\ rev = h.rev

(* Whoever plans a commit of the head's revision plans it from the head's    *)
(* state: a call that read it, a begin that stored it, a writer that goes on *)
(* from its own commit, and a commit the store may still apply.              *)
Snapshot(h, inc, rev, state) == Past(h, inc, rev) /\ (IsHead(h, inc, rev) => state = h.state)

CallFollows(h, k) ==
    /\ k.step \in {"read", "opened"} => Snapshot(h, k.inc, k.rev, k.state)
    /\ k.step = "opened" => k.state.open.turn = k.turn
WriterFollows(h, w, me) ==
    me.phase \in Live => Snapshot(h, w.inc, me.rev, me.state) /\ me.state.open.turn = w.turn
StalledFollows(h, s) == Past(h, s.inc, s.rev) /\ (IsHead(h, s.inc, s.rev) => Decides(h.state, s.events, s.next))

CallsFollow == \A c \in Caller : CallFollows(head, call[c])
WritersFollow == \A w \in WriterId : WriterFollows(head, w, writer[w])
PlansFromTheHead == CallsFollow /\ WritersFollow /\ \A s \in stalled : StalledFollows(head, s)

(* The journal and the head agree on the turns, because every commit that    *)
(* can still be stored was decided from the state it replaces.               *)
TurnInvariant ==
    /\ LedgerOf(head.state, journal, head.rev)
    /\ ~head.present => journal = {}
    /\ PlansFromTheHead

-----------------------------------------------------------------------------
(* Why leases, holders, keys and reaps hold.                                 *)

(* An open turn has a holder, and one taken under a lease has its end.       *)
HasHolder(s) ==
    IsOpen(s) => s.open.holder \in Instance /\ (s.open.holder \in Leased => s.open.expiresAt # 0)

(* A key made from a run id names that run: an inbox turn's, or the first    *)
(* attempt of a run.                                                         *)
KeyFits(key, run) == key[2] = 0 /\ key[3] # NoRun => key[3] = run

(* What may be stored now of a commit no store takes past notAfter: its      *)
(* holder's writes within the lease, a reap of what nobody holds, a key and  *)
(* a run no turn has.                                                        *)
MayStore(e, notAfter) ==
    LET open == head.state.open IN
    /\ WrittenByHolder(e) /\ open.holder \in Leased => notAfter = open.expiresAt
    /\ e.kind = "turn.ended" /\ e.code = "turn.lease" => Unheld(open) \/ ~alive[open.holder]
    /\ e.kind = "turn.started" => /\ KeyFits(e.key, e.run)
                                  /\ \A s \in Starts : s.key # e.key /\ s.run # e.run
    /\ e.kind = "transact.keyed" => \A f \in Of("transact.keyed") : f.tx # e.tx

(* What a call, a writer and a stalled commit hold on to.                    *)
KeyedAsAsked(k) ==
    /\ k.run = k.ask.run /\ KeyFits(k.key, k.run)
    /\ k.ask.kind = "inbox" => k.key[2] = 0 /\ k.key[3] = k.run
CallHolds(k) ==
    /\ k.step \in {"read", "opened"} => HasHolder(k.state)
    /\ k.step = "read" => k.now <= now
    /\ k.step = "opened" => k.state.open.holder = k.at
    /\ k.op = "begin" /\ k.step \in {"prepared", "read", "lost"} => KeyedAsAsked(k)
WriterHolds(me) == me.phase \in Live => HasHolder(me.state) /\ me.state.open.holder = me.inst
StalledHolds(s) ==
    /\ HasHolder(s.next)
    /\ IsHead(head, s.inc, s.rev) => \A e \in s.events : MayStore(e, s.notAfter)

(* What is stored was decided from the head and the journal it was added to, *)
(* by whom the head says.                                                    *)
RecordInvariant ==
    /\ HasHolder(head.state)
    /\ \A s \in Starts : KeyFits(s.key, s.run)
    /\ KeyNamesOneTurn /\ TransactsRecordOnce
    /\ \A c \in Caller : CallHolds(call[c])
    /\ \A w \in WriterId : WriterHolds(writer[w])
    /\ \A s \in stalled : StalledHolds(s)

-----------------------------------------------------------------------------
(* What users see of a session's turns, as its journal tells it.             *)
StartsOf(n) == {e \in Starts : e.turn = n}
EndsOf(n) == {e \in Ends : e.turn = n}
StoredOf(n) == {e \in Of("wrote") \cup Of("inbox.taken") : e.turn = n}

RunOf(starts) == (CHOOSE e \in starts : TRUE).run
ReasonOf(ends) == IF ends = {} THEN "open" ELSE (CHOOSE e \in ends : TRUE).reason
TurnSeen(n) == [run |-> RunOf(StartsOf(n)), reason |-> ReasonOf(EndsOf(n)), stored |-> StoredOf(n)]

AsSeen == INSTANCE TurnLedger WITH begun <- head.state.turns,
                                   turns <- [n \in 1..head.state.turns |-> TurnSeen(n)]

(* However many instances, callers and writers there are, their users see    *)
(* one ledger: turns one after the other, each ended once and for good.      *)
(* Each stored commit, of whatever call or writer, is one step of it (a      *)
(* takeover ends a turn and begins the next in one), and all else is unseen. *)
KeepsTheLedger == AsSeen!Spec

-----------------------------------------------------------------------------
(* What an instance keeps beside the log.                                    *)

(* Whether instance i has a writer that may still write the open turn.       *)
WritesOpenTurn(i) ==
    \E w \in WriterId : /\ head.present /\ w.inc = head.inc /\ w.turn = head.state.open.turn
                        /\ writer[w].inst = i /\ writer[w].phase \in Live

(* An open turn an instance let go of is one it no longer writes, or is just *)
(* about to stop writing: it may be reaped here at once, before its lease    *)
(* runs out.                                                                 *)
IsClosing(k, i) == k.step = "closing" /\ k.at = i /\ k.turn = head.state.open.turn
LetGoTurnsHaveNoWriter ==
    \A i \in Instance :
        /\ <<head.state.open.turn, head.state.open.run>> \in released[i]
        /\ \A c \in Caller : ~IsClosing(call[c], i)
        => ~WritesOpenTurn(i)

(* Once a shutdown has swept the turns held here, and the begins and closes  *)
(* in progress are over, nothing here holds a turn that is still open: a     *)
(* begin that committed before the shutdown is closed by itself or by the    *)
(* sweep.                                                                    *)
ShutdownLeavesNoWriter ==
    \A i \in Instance :
        (/\ alive[i] /\ stopping[i] = "swept"
         /\ \A c \in Caller : call[c].at = i => call[c].op \notin {"begin", "shutdown"})
        => ~WritesOpenTurn(i)

-----------------------------------------------------------------------------
(* Why an instance finds the writer of the open turn.                        *)

(* An instance's map takes a writer only after those of earlier turns: two   *)
(* begins of one instance hand their turns over in the order they stored     *)
(* them.  (The code does not see to it: a begin that waits between its       *)
(* commit and its handover, while its turn is cancelled, reaped or taken     *)
(* over and the next one is begun there, would undo it.)                     *)
HandedOverInOrder ==
    \A i \in Instance : registered'[i] \notin {registered[i], NoWriter} => registered'[i].turn > registered[i].turn

(* A turn has, or had, a writer.  A call has yet to hand its turn over, or   *)
(* closes it instead; or its turn was handed over, and it closes that or     *)
(* looks whether it must.                                                    *)
HandedOver(n) == \E w \in WriterId : w.turn = n /\ writer[w].phase # "None"
IsUnhanded(k) == k.step = "opened" \/ k.op = "unhanded"
ClosesHanded(k) == k.op \in {"time-limit", "shutdown"} /\ k.step # "closing"
IsHanded(k) == k.step = "handed" \/ ClosesHanded(k)

(* The session is the one it was first, and whoever knows a turn knows one   *)
(* that began.                                                               *)
OneLife == head.present /\ head.inc = 1
KnowsTurn(k) ==
    /\ k.step = "idle" => k.op = "none"
    /\ k.step \in {"opened", "handed", "refused"} => k.op = "begin"
    /\ k.step = "await" => k.inc = 1
    /\ IsUnhanded(k) => k.turn \in 1..head.state.turns /\ ~HandedOver(k.turn)
    /\ IsHanded(k) => k.turn \in 1..head.state.turns /\ HandedOver(k.turn)
    /\ ClosesHanded(k) /\ k.step = "read" /\ k.state.open.turn # k.turn => head.state.open.turn # k.turn
WritersAreKnown ==
    /\ \A w \in WriterId : IF writer[w].phase = "None" THEN writer[w] = NoHold
                            ELSE w.inc = 1 /\ w.turn \in 1..head.state.turns
    /\ \A i \in Instance : registered[i] # NoWriter => writer[registered[i]].phase # "None"
CallsAreKnown ==
    /\ \A c \in Caller : KnowsTurn(call[c])
    /\ \A c, d \in Caller : IsUnhanded(call[c]) /\ IsUnhanded(call[d]) /\ call[c].turn = call[d].turn => c = d

(* A writer of the open turn is in its instance's map.                       *)
WritesOpen(w) == w.turn = head.state.open.turn /\ writer[w].phase \in Live
LiveAreRegistered == \A w \in WriterId : WritesOpen(w) => registered[writer[w].inst] = w

(* An open turn let go of has no writer where it was, or one about to be     *)
(* closed, and will have none.                                               *)
OpenPair == <<head.state.open.turn, head.state.open.run>>
NoneWrites(i) ==
    /\ \A w \in WriterId : WritesOpen(w) /\ writer[w].inst = i => \E c \in Caller : IsClosing(call[c], i)
    /\ \A c \in Caller : call[c].step = "opened" /\ call[c].at = i => call[c].turn # head.state.open.turn
LetGoIsOver == \A i \in Instance : OpenPair \in released[i] => NoneWrites(i)

(* A writer of the open turn that a shutdown's sweep did not see is of a     *)
(* begin that will look, or is being closed.                                 *)
Swept(i) == alive[i] /\ stopping[i] = "swept"
Covers(k, i, n) == k.at = i /\ k.turn = n /\ (k.step = "handed" \/ k.op = "shutdown")
SweptAreCovered ==
    \A w \in WriterId : WritesOpen(w) /\ Swept(writer[w].inst) =>
        \E c \in Caller : Covers(call[c], writer[w].inst, w.turn)

HandoverInvariant ==
    OneLife /\ WritersAreKnown /\ CallsAreKnown /\ LiveAreRegistered /\ LetGoIsOver /\ SweptAreCovered

-----------------------------------------------------------------------------
(* Why a sealed turn ends as it sealed.                                      *)

(* A body that has a reply held ends with it and holds no other, and holds   *)
(* none once an end was attempted.  (The writer does not see to it: until    *)
(* the seal is marked in it, it begins an end with whatever ending it is     *)
(* given, and holds another reply in the place of one being sealed.)         *)
EndsAsHeld ==
    \A w \in WriterId :
        /\ writer[w].phase = "Open" /\ writer'[w].phase = "Ending" /\ ~writer'[w].scope
             => writer[w].held \in {"none", writer'[w].ending}
        /\ writer[w].held = "none" /\ writer'[w].held # "none" => writer[w].attempted = "none"
        /\ writer[w].held # "none" => writer'[w].held \in {"none", writer[w].held}

(* Begins are not cut in a session that is removed.  (The close of a turn    *)
(* never handed over knows it by its number and holder only, and would take  *)
(* for it the one of that number of the session created again, sealed or     *)
(* not.)                                                                     *)
CutsStay == ~({"remove", "cut"} \subseteq Faults)

(* A turn has begun, in this incarnation or before; its writer held the      *)
(* reply that a state says sealed it.                                        *)
HasBegun(w) == w.inc <= head.inc /\ (head.present /\ w.inc = head.inc => w.turn <= head.state.turns)
SealedBy(w, seal) ==
    w \in WriterId /\ writer[w].phase # "None" /\ (writer[w].phase \in Live => writer[w].held = seal)
SealHolds(inc, s) ==
    s.open.sealed # "none" => SealedBy([inc |-> inc, turn |-> s.open.turn], s.open.sealed)

(* An end of the open turn of s is the one that sealed it.                   *)
EndsSealed(s, e) ==
    e.kind = "turn.ended" /\ s.open.sealed # "none" => e.reason = s.open.sealed /\ e.replied

(* A turn that is still to be handed over, or never will be, has no writer,  *)
(* so nothing seals it.                                                      *)
TurnOf(k) == [inc |-> IF k.step = "opened" THEN k.inc ELSE 1, turn |-> k.turn]
CallSeals(k) ==
    IsUnhanded(k) =>
        /\ TurnOf(k) \in WriterId /\ writer[TurnOf(k)].phase = "None" /\ HasBegun(TurnOf(k))
        /\ k.step = "opened" => k.op = "begin" /\ k.state.open.sealed = "none"
        /\ k.op = "unhanded" => "cut" \in Faults
UnhandedOnce ==
    \A c, d \in Caller :
        IsUnhanded(call[c]) /\ IsUnhanded(call[d]) /\ TurnOf(call[c]) = TurnOf(call[d]) => c = d

(* A writer goes by one reply, and its end is that reply's.                  *)
OneReply(me) ==
    me.phase \in Live =>
        /\ {me.state.open.sealed, me.sealing, me.sealed} \subseteq {"none", me.held}
        /\ me.held # "none" => /\ me.attempted \in {"none", me.held}
                               /\ me.phase = "Ending" => me.ending = me.held
WriterSeals(w) ==
    (IF writer[w].phase = "None" THEN writer[w] = NoHold ELSE HasBegun(w)) /\ OneReply(writer[w])
StalledSeals(s) ==
    IsHead(head, s.inc, s.rev) => SealHolds(s.inc, s.next) /\ \A e \in s.events : EndsSealed(head.state, e)

SealInvariant ==
    /\ "cut" \in Faults => OneLife
    /\ SealHolds(head.inc, head.state)
    /\ \A c \in Caller : CallSeals(call[c])
    /\ UnhandedOnce
    /\ \A w \in WriterId : WriterSeals(w)
    /\ \A s \in stalled : StalledSeals(s)

-----------------------------------------------------------------------------
(* The inbox.                                                                *)

(* What a journal J says became of an item.                                  *)
StartsIn(J) == {e \in J : e.kind = "turn.started"}
EndsIn(J) == {e \in J : e.kind = "turn.ended"}
EndedSo(J, turn, reasons) == \E e \in EndsIn(J) : e.turn = turn /\ e.reason \in reasons
QueuedIn(J, item) == \E e \in J : e.kind = "inbox.queued" /\ e.item = item
TakenIn(J, item) == \E e \in J : e.kind = "inbox.taken" /\ item \in e.items
DroppedIn(J, item) == \E e \in EndsIn(J) : item \in e.dropped
Answers(J, item) == {s \in StartsIn(J) : s.input = item /\ EndedSo(J, s.turn, {"completed", "waiting", "cancelled"})}
Finishes(J, item) ==
    {s \in StartsIn(J) : item \in s.claimed /\ EndedSo(J, s.turn, {"completed", "partial", "waiting", "cancelled"})}
IsOver(J, item) == Answers(J, item) # {} \/ Finishes(J, item) # {} \/ TakenIn(J, item) \/ DroppedIn(J, item)

(* The ends of turns that took an item and tried it: a turn taken over, shut *)
(* down or cut before it began is not one of them.                           *)
Untried == {"turn.takeover", "turn.shutdown", "turn.interrupted"}
Tries(J, item) ==
    {e \in EndsIn(J) : e.code \notin Untried /\ \E s \in StartsIn(J) : s.turn = e.turn /\ item \in s.claimed}

WaitsUntilOver(s, J, item) ==
    LET slot == s.inbox[item]
    IN /\ slot.in <=> QueuedIn(J, item) /\ ~IsOver(J, item)
       /\ slot.in /\ slot.by # 0 => slot.by = s.open.turn

AnsweredOnce(J, item) ==
    /\ \A s, t \in Answers(J, item) : s.turn < t.turn => t.resumes # 0
    /\ TakenIn(J, item) => \A s \in Answers(J, item) : s.resumes # 0

DroppedLate(J, item) == DroppedIn(J, item) => Cardinality(Tries(J, item)) >= Attempts

(* An item waits, or is some open turn's, exactly until the journal says it  *)
(* was answered, taken into a turn or dropped: none is lost, and none comes  *)
(* back.                                                                     *)
InboxAgreesWithJournal == \A item \in Item : WaitsUntilOver(head.state, journal, item)

(* An input is answered by one turn: it is not begun again once a turn       *)
(* finished it or took it as a steer, but by a user who resumes a turn of it *)
(* that was cancelled.                                                       *)
InputsAnsweredOnce == \A item \in Input : AnsweredOnce(journal, item)

(* A notice is dropped only after enough turns took it and stopped on it: a  *)
(* turn taken over, shut down or cut before it began is not one of them.     *)
DropsAreEarned == \A item \in Notice : DroppedLate(journal, item)

-----------------------------------------------------------------------------
(* Why the inbox agrees with the journal.                                    *)

Claims(J, item) == {s \in StartsIn(J) : s.input = item \/ item \in s.claimed}

(* What a turn took is the item it claimed; a claim is of a queued item, and *)
(* holds it while the turn is open unless it resumed a turn that was done    *)
(* with it; a notice counts no more attempts than turns tried it.            *)
ItemOf(s, J, item) ==
    LET slot == s.inbox[item]
    IN /\ WaitsUntilOver(s, J, item)
       /\ IsOver(J, item) => QueuedIn(J, item)
       /\ slot.in /\ slot.by # 0 => \E t \in Claims(J, item) : t.turn = slot.by
       /\ \A t \in Claims(J, item) :
            /\ QueuedIn(J, item)
            /\ t.turn = s.open.turn /\ (slot.in \/ t.resumes = 0) => slot.in /\ slot.by = t.turn
       /\ AnsweredOnce(J, item)
       /\ DroppedLate(J, item)
       /\ item \in Notice /\ slot.in => slot.attempts <= Cardinality(Tries(J, item))

InboxOf(s, J) == IsFiniteSet(EndsIn(J)) /\ \A item \in Item : ItemOf(s, J, item)

(* The journal with the events of a commit, as the store stamps them.        *)
With(events) == journal \cup {[e EXCEPT !.rev = head.rev + 1] : e \in events}

(* A begin knows which item it is for: the queued input it was asked to      *)
(* answer, or that of the turn it resumes.                                   *)
KnowsItem(k) ==
    IF k.ask.kind = "queued" THEN k.item = k.ask.input
    ELSE k.item # NoItem => k.ask.resumes # 0 /\ WasQueued(k.item)
ItemFits(k) == k.op = "begin" /\ k.step \in {"prepared", "read"} => KnowsItem(k)

(* No begin carries the item of a turn it resumes across a removal of the    *)
(* session (what it resumes is looked up before it is admitted, and is not   *)
(* bound to the incarnation it was found in): sessions are not removed, or   *)
(* no turn is resumed.                                                       *)
ResumesStay == "remove" \notin Faults \/ \A ask \in Ask : ask.resumes = 0

(* The inbox agrees with the journal, and so it will after any commit the    *)
(* store may still apply.                                                    *)
InboxInvariant ==
    /\ InboxOf(head.state, journal)
    /\ \A c \in Caller : ItemFits(call[c])
    /\ \A s \in stalled : IsHead(head, s.inc, s.rev) => InboxOf(s.next, With(s.events))
=============================================================================
