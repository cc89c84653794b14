------------------------------- MODULE Sessions -------------------------------
(***************************************************************************)
(* The sessions plugin over one session of a shared log.  Instances (each  *)
(* the one of its process) serve calls: begins, cancels, deliveries,       *)
(* enqueues, keyed transacts, a shutdown.  Each changes the session only   *)
(* by a guarded commit: read the head, decide from it and the journal, and *)
(* commit against the revision read.  A begin that is stored hands its     *)
(* turn to a writer, which commits from its own cursor until the turn      *)
(* ends, is closed from elsewhere, or its scope closes.                    *)
(*                                                                         *)
(* A guarded call is two steps: the head is read (Reading), and later      *)
(* everything decided from that head meets the store (Refused, Answered,   *)
(* *Stored, Conflicted, ...).  The journal is read between the two in the  *)
(* code; a stored commit proves it did not change since the head, and a    *)
(* refusal reads it as late as it can be read.  A call reads the head in   *)
(* the step that makes it go on to read it (it is asked, it lost a         *)
(* conflict, ...): nothing it does in between is seen by others.           *)
(***************************************************************************)
EXTENDS SessionLog, SessionsState

CONSTANTS Leased,      \* instances that take turns under a lease
          HostOf,      \* the host of each instance's process, NoHost for one that cannot be named
          NoHost,
          Renew,       \* when a lease is extended: "none", "commit" or "every"
          Ttl,         \* ownership.ttlMs, in ticks
          Caller,      \* calls in flight at once
          Ask, NoAsk,  \* the begins hosts ask for
          Tx,          \* keys of keyed transacts
          CancelTurns, \* turns hosts cancel
          Delivers,    \* items hosts deliver or enqueue
          Limited,     \* whether turns may run past their time limit
          Replies,     \* final replies a turn may hold: of "completed", "partial"
          Endings,     \* endings a turn's body may ask for
          Unended,     \* how a scope may close before its turn ended: "failed", "interrupted"
          MaxPending,  \* config.inbox.maxPending
          Retries,     \* config.retries
          MaxTurn,     \* bound: turns of one incarnation
          MaxWrites,   \* bound: appends of one turn
          Faults,      \* of "crash", "cut", "store", "remove", "shutdown"
          MaxFaults    \* bound: how many happen

ASSUME SessionsConstants ==
    /\ Leased \subseteq Instance
    /\ HostOf \in [Instance -> {HostOf[i] : i \in Instance}]
    /\ Renew \in {"none", "commit", "every"}
    /\ Ttl \in Nat \ {0}
    /\ \A ask \in Ask : /\ ask.kind \in {"user", "inbox", "queued", "task"}
                        /\ ask.run \in Run /\ ask.resumes \in Nat
                        /\ ask.input \in (IF ask.kind = "queued" THEN Input ELSE {NoItem})
    /\ NoAsk \notin Ask
    /\ Delivers \subseteq Item
    /\ CancelTurns \subseteq Nat \ {0}
    /\ Replies \subseteq {"completed", "partial"}
    /\ Endings \subseteq Reason /\ Unended \subseteq {"failed", "interrupted"}
    /\ {MaxPending, Retries, MaxTurn, MaxWrites, MaxFaults} \subseteq Nat

VARIABLES call,        \* per caller, the call it has in flight
          writer,      \* per incarnation and turn, the writer that turn was handed to
          registered,  \* per instance, the writer its map holds for the session
          released,    \* per instance, the turns it let go of
          stopping,    \* per instance, its shutdown
          alive,       \* per instance, whether its process runs
          stalled,     \* commits the store may still apply after it reported a failure
          faults       \* how many faults happened

vars == <<head, journal, now, call, writer, registered, released, stopping, alive, stalled, faults>>

-----------------------------------------------------------------------------
(* The journal: one record per event, `rev` the revision of its commit.      *)

Started(turn, run, key, origin, input, resumes, claimed) ==
    [rev |-> 0, kind |-> "turn.started", turn |-> turn, run |-> run, key |-> key,
     origin |-> origin, input |-> input, resumes |-> resumes, claimed |-> claimed]
Ended(turn, reason, code, replied, dropped) ==
    [rev |-> 0, kind |-> "turn.ended", turn |-> turn, reason |-> reason, code |-> code,
     replied |-> replied, dropped |-> dropped]
Queued(item) == [rev |-> 0, kind |-> "inbox.queued", item |-> item]
Taken(turn, items) == [rev |-> 0, kind |-> "inbox.taken", turn |-> turn, items |-> items]
Wrote(turn) == [rev |-> 0, kind |-> "wrote", turn |-> turn]
Keyed(tx) == [rev |-> 0, kind |-> "transact.keyed", tx |-> tx]

Of(kind) == {e \in journal : e.kind = kind}
Starts == Of("turn.started")
Ends == Of("turn.ended")
IsLargest(n, S) == n \in S /\ \A m \in S : m <= n
Largest(S) == IF \E n \in S : IsLargest(n, S) THEN CHOOSE n \in S : IsLargest(n, S) ELSE 0
KeyTurnOpen(key) == Largest({e.turn : e \in {s \in Starts : s.key = key /\ s.turn = head.state.open.turn}})
KeyTurn(key) == Largest({e.turn : e \in {s \in Starts : s.key = key}})
RunTurn(run) == Largest({e.turn : e \in {s \in Starts : s.run = run}})
LastInputTurn(item) == Largest({e.turn : e \in {s \in Starts : s.input = item}})
TakenInput(item, through) ==
    Largest({e.turn : e \in {t \in Of("inbox.taken") : item \in t.items /\ t.rev <= through}})
WasQueued(item) == \E e \in Of("inbox.queued") : e.item = item

-----------------------------------------------------------------------------
(* Who holds a turn.                                                         *)

(* A turn taken under process ownership is held while its process runs: one  *)
(* of this host is asked, one of another host cannot be.                     *)
ProcessHolds(open, reader) ==
    /\ HostOf[open.holder] # NoHost
    /\ HostOf[reader] = NoHost \/ HostOf[reader] # HostOf[open.holder] \/ alive[open.holder]

IsReleased(open, reader) == open.holder = reader /\ <<open.turn, open.run>> \in released[reader]

IsHeldStrictly(open, at, reader) ==
    /\ ~IsReleased(open, reader)
    /\ IF open.expiresAt # 0 THEN at < open.expiresAt
       ELSE open.holder = reader \/ ProcessHolds(open, reader)

IsHeldByOwnership(open, at, reader) ==
    /\ ~IsReleased(open, reader)
    /\ IF reader \in Leased THEN at <= open.expiresAt
       ELSE open.holder = reader \/ ProcessHolds(open, reader)

(* Judged by the turn's record, never by the reader's own ownership. *)
IsHeld(open, at, reader) ==
    /\ ~IsReleased(open, reader)
    /\ IF open.expiresAt # 0 THEN at <= open.expiresAt
       ELSE open.holder = reader \/ ProcessHolds(open, reader)

(* The close of a turn nobody holds, or one the host takes over.             *)
NotOver == [whom |-> "none", turn |-> 0, run |-> NoRun]
TakesOver(over, open) ==
    \/ over.whom = "any"
    \/ over.whom = "named" /\ over.turn = open.turn /\ over.run = open.run

Unreaped(s) == [closed |-> 0, reason |-> "none", events |-> {}, state |-> s]

ReapClosing(s, reason, code, sealed, tried) ==
    [closed |-> s.open.turn, reason |-> reason, state |-> ClosedState(s, reason, tried),
     events |-> {Ended(s.open.turn, reason, code, sealed, Dropped(s, reason, tried))}]

ReapedUnsealed(s, at, reader, over) ==
    LET held == IsHeld(s.open, at, reader)
        taken == TakesOver(over, s.open) /\ held
    IN IF ~IsOpen(s) \/ (held /\ ~taken) THEN Unreaped(s)
       ELSE ReapClosing(s, "interrupted", IF taken THEN "turn.takeover" ELSE "turn.lease", FALSE, ~taken)

Reaped(s, at, reader, over) ==
    LET held == IsHeld(s.open, at, reader)
        taken == TakesOver(over, s.open) /\ held
    IN IF ~IsOpen(s) \/ (held /\ ~taken) THEN Unreaped(s)
       ELSE IF s.open.sealed # "none" THEN ReapClosing(s, s.open.sealed, "sealed", TRUE, ~taken)
       ELSE ReapClosing(s, "interrupted", IF taken THEN "turn.takeover" ELSE "turn.lease", FALSE, ~taken)

-----------------------------------------------------------------------------
(* Writers and what an instance keeps beside the log.                        *)

WriterId == [inc : 1..MaxInc, turn : 1..MaxTurn]
NoWriter == [inc |-> 0, turn |-> 0]

(* phase is the writer's phase; "None" before a turn is handed over, "Gone"  *)
(* once its scope closed or its process died.  held is the reply held for    *)
(* the end, sealed the ending that sealed it, sealing the one whose commit   *)
(* is on its way; scope is set once the scope closes.                        *)
NoHold == [inst |-> NoInstance, run |-> NoRun, rev |-> 0, state |-> InitialState, phase |-> "None",
           tried |-> FALSE, held |-> "none", sealed |-> "none", sealing |-> "none",
           ending |-> "none", attempted |-> "none", told |-> "none", scope |-> FALSE]

Live == {"Open", "Ending"}

(* Nothing else a stopped writer held is read again.                         *)
Stop(w, phase, told) ==
    [NoHold EXCEPT !.phase = phase, !.told = told, !.inst = w.inst, !.run = w.run]
Stopped(w, told) == IF w.phase \in Live THEN Stop(w, "Closed", told) ELSE w

(* closeLocal: this instance's writer of the session, if it holds that turn. *)
ClosedLocally(i, turn, told) ==
    IF turn # 0 /\ registered[i].turn = turn
    THEN [writer EXCEPT ![registered[i]] = Stopped(@, told)] ELSE writer

LetGo(i, turn, run) == [released EXCEPT ![i] = @ \cup {<<turn, run>>}]
ForgetClosed(i, next) == [released EXCEPT ![i] = @ \cap {<<next.open.turn, next.open.run>>}]

NoKey == <<NoItem, 0, NoRun>>

Idle == [op |-> "none", at |-> NoInstance, step |-> "idle", ask |-> NoAsk, turn |-> 0, run |-> NoRun,
         item |-> NoItem, key |-> NoKey, rev |-> 0, inc |-> 0, state |-> InitialState, now |-> 0,
         tries |-> 0, reaped |-> 0, told |-> "none", open |-> FALSE]

Free(c) == call[c].step = "idle"
Become(c, rec) == call' = [call EXCEPT ![c] = rec]

(* A call is answered.  What it is told is left out: only a refused begin    *)
(* does anything after it.                                                   *)
Answer(c) == Become(c, Idle)

local == <<writer, registered, released, stopping, alive, stalled, faults>>

(* What goes wrong counts against MaxFaults.                                 *)
Fault(f) == f \in Faults /\ faults < MaxFaults /\ faults' = faults + 1

Init ==
    /\ head = [present |-> TRUE, inc |-> 1, rev |-> 0, state |-> InitialState]
    /\ journal = {}
    /\ now = 0
    /\ call = [c \in Caller |-> Idle]
    /\ writer = [w \in WriterId |-> NoHold]
    /\ registered = [i \in Instance |-> NoWriter]
    /\ released = [i \in Instance |-> {}]
    /\ stopping = [i \in Instance |-> "running"]
    /\ alive = [i \in Instance |-> TRUE]
    /\ stalled = {}
    /\ faults = 0

-----------------------------------------------------------------------------
(* Calls begin.                                                              *)

(* The head is read: a begin past the host's admission is refused again      *)
(* once a shutdown began.                                                    *)
Reading(k) ==
    IF ~head.present THEN [k EXCEPT !.step = "lost"]
    ELSE IF k.op = "begin" /\ stopping[k.at] # "running" THEN [k EXCEPT !.step = "refused", !.told = "stopping"]
    ELSE [k EXCEPT !.step = "read", !.inc = head.inc, !.rev = head.rev, !.state = head.state, !.now = now]

Asked(i, op) == [Idle EXCEPT !.op = op, !.at = i]
CallIn(c, i, rec) ==
    /\ Free(c) /\ alive[i]
    /\ Become(c, rec)
    /\ UNCHANGED <<logVars, local>>

(* A begin: refused while the instance stops; a queued input's attempt is    *)
(* keyed by the last turn it was begun in (or by the begin it repeats), and  *)
(* a resumed turn's input is looked up, before admission.                    *)
AttemptKey(item, last, run) == IF last = 0 THEN <<item, 0, NoRun>> ELSE <<item, last, run>>

PreparedKey(ask) ==
    LET again == {s \in Starts : s.input = ask.input /\ s.run = ask.run}
    IN CASE ask.kind \in {"user", "task"} -> <<ask.key, 0, NoRun>>
         [] ask.kind = "inbox" -> <<NoItem, 0, ask.run>>
         [] OTHER -> IF again # {} THEN (CHOOSE s \in again : TRUE).key
                     ELSE AttemptKey(ask.input, LastInputTurn(ask.input), ask.run)

PreparedItem(ask) ==
    LET target == {s \in Starts : s.turn = ask.resumes}
    IN IF ask.kind = "queued" THEN ask.input
       ELSE IF target = {} THEN NoItem ELSE (CHOOSE s \in target : TRUE).input

AskBegin(c, i, ask) ==
    /\ stopping[i] = "running"
    /\ ask.kind = "queued" => head.present /\ WasQueued(ask.input)
    /\ LET asked == [Asked(i, "begin") EXCEPT !.ask = ask, !.run = ask.run,
                         !.item = PreparedItem(ask), !.key = PreparedKey(ask)]
       IN CallIn(c, i, IF ask.kind = "queued" \/ ask.resumes # 0
                       THEN [asked EXCEPT !.step = "prepared"] ELSE Reading(asked))

(* A sealed turn held here is closed by its own writer's end (endSealed).    *)
SealedHere(i, turn) ==
    /\ registered[i].turn = turn
    /\ writer[registered[i]].phase \in Live
    /\ writer[registered[i]].sealed # "none"

CloseOp == {"cancel", "time-limit", "shutdown"}

AskClose(c, i, op, turn, run) ==
    LET asked == [Asked(i, op) EXCEPT !.turn = turn, !.run = run]
    IN /\ Free(c) /\ alive[i]
       /\ IF SealedHere(i, turn)
          THEN /\ writer' = [writer EXCEPT ![registered[i]] =
                               [@ EXCEPT !.phase = "Ending", !.ending = writer[registered[i]].sealed]]
               /\ Become(c, [asked EXCEPT !.step = "await", !.inc = registered[i].inc])
          ELSE /\ Become(c, Reading(asked))
               /\ UNCHANGED writer
       /\ UNCHANGED <<logVars, registered, released, alive, stalled>>

AskCancel(c, i, turn) ==
    /\ AskClose(c, i, "cancel", turn, NoRun)
    /\ UNCHANGED <<stopping, faults>>

(* The time limit of a turn handed over here, until its writer ended or was closed. *)
AskTimeLimit(c, w) ==
    /\ Limited /\ writer[w].phase \in Live /\ ~writer[w].scope
    /\ AskClose(c, writer[w].inst, "time-limit", w.turn, writer[w].run)
    /\ UNCHANGED <<stopping, faults>>

AskDeliver(c, i, item) ==
    CallIn(c, i, Reading([Asked(i, IF item \in Notice THEN "deliver" ELSE "enqueue") EXCEPT !.item = item]))

AskTransact(c, i, tx) == CallIn(c, i, Reading([Asked(i, "transact") EXCEPT !.item = tx]))

-----------------------------------------------------------------------------
(* The guarded commit.                                                       *)

(* A begin that looked up its input or its turn goes on.                     *)
ReadHead(c) ==
    /\ call[c].step = "prepared"
    /\ Become(c, Reading(call[c]))
    /\ UNCHANGED <<logVars, local>>

(* Why turn `target` cannot be resumed; a turn this commit reaps has ended.  *)
EndedAs(turn, reap) ==
    IF reap.closed = turn THEN reap.reason
    ELSE IF \E e \in Ends : e.turn = turn THEN (CHOOSE e \in Ends : e.turn = turn).reason
    ELSE "open"

Supersedes(s, target, reap) ==
    /\ s.turn > target /\ s.origin = "user"
    /\ ~(s.resumes = target /\ EndedAs(s.turn, reap) \in {"cancelled", "interrupted", "failed"})

Resumable(target, reap) ==
    /\ \E s \in Starts : s.turn = target /\ s.origin = "user"
    /\ ~\E s \in Starts : Supersedes(s, target, reap)
    /\ EndedAs(target, reap) \in {"cancelled", "interrupted"}

Origin(kind) == IF kind = "queued" THEN "user" ELSE kind

(* Whether a queued input still waits for a turn.                            *)
WaitsEver(item, s) == WasQueued(item)
Waits(item, s) == item \in PendingOf(s)

(* What a begin is told instead of opening a turn: [told, turn, open].       *)
Refusal(told, turn, open) == [told |-> told, turn |-> turn, open |-> open]
Accepted == Refusal("none", 0, FALSE)

BeginRefusal(k, reap) ==
    LET s == reap.state
        ask == k.ask
        begun == KeyTurn(k.key)
        same == \E e \in Starts : /\ e.turn = begun /\ e.resumes = ask.resumes
                                /\ e.input = k.item /\ e.origin = Origin(ask.kind)
        eaten == TakenInput(ask.input, k.rev)
        last == LastInputTurn(ask.input)
        stale == k.key # AttemptKey(ask.input, last, ask.run)
    IN CASE ask.kind = "queued" /\ eaten # 0 -> Refusal("duplicate", eaten, s.open.turn = eaten)
         [] ask.kind # "inbox" /\ begun # 0 /\ same -> Refusal("duplicate", begun, s.open.turn = begun)
         [] ask.kind # "inbox" /\ begun # 0 /\ ~same -> Refusal("key conflict", begun, FALSE)
         [] OTHER ->
            IF RunTurn(ask.run) # 0 THEN Refusal("run reused", RunTurn(ask.run), FALSE)
            ELSE IF IsOpen(s) THEN Refusal("busy", s.open.turn, FALSE)
            ELSE IF ask.kind = "queued" /\ (~Waits(ask.input, s) \/ stale)
            THEN IF last = 0 THEN Refusal("nothing", 0, FALSE) ELSE Refusal("duplicate", last, FALSE)
            ELSE IF ask.resumes # 0 /\ ~Resumable(ask.resumes, reap) THEN Refusal("not resumable", ask.resumes, FALSE)
            ELSE IF ask.kind = "inbox" /\ PendingOf(s) \cap Notice = {} THEN Refusal("nothing", 0, FALSE)
            ELSE Accepted

(* What a begin takes: every notice that waits (an inbox turn), and the      *)
(* queued input it answers, if that still waits.                             *)
Taking(k, s) ==
    (IF k.ask.kind = "inbox" THEN PendingOf(s) \cap Notice ELSE {}) \cup ({k.item} \cap PendingOf(s))

LeaseEnd(i, at) == IF i \in Leased THEN at + Ttl ELSE 0

(* What a call decides: the events and the state to commit (none when it     *)
(* only answers), and the answer.                                            *)
Plan(events, next, told) == [commits |-> TRUE, events |-> events, next |-> next, told |-> told]
Only(told) == [commits |-> FALSE, events |-> {}, next |-> InitialState, told |-> told]

BeginReap(k) == Reaped(k.state, k.now, k.at, k.ask.over)

BeginPlanUnended(k) ==
    LET s == BeginReap(k).state
    IN Plan({Started(s.turns + 1, k.run, k.key, Origin(k.ask.kind), k.item, k.ask.resumes,
                     Taking(k, s) \cap Notice)},
            OpenedState(s, k.run, k.at, LeaseEnd(k.at, k.now), Taking(k, s)),
            "began")

BeginPlan(k) ==
    LET reap == BeginReap(k)
        s == reap.state
        started == Started(s.turns + 1, k.run, k.key, Origin(k.ask.kind), k.item, k.ask.resumes,
                           Taking(k, s) \cap Notice)
    IN Plan(reap.events \cup {started},
            OpenedState(s, k.run, k.at, LeaseEnd(k.at, k.now), Taking(k, s)),
            "began")

(* Close the turn named, if it is still open; one nobody holds is reaped     *)
(* instead, and was not open to close.                                       *)
CloseCode(op) == CASE op = "cancel" -> "cancelled" [] op = "shutdown" -> "turn.shutdown"
                   [] op = "time-limit" -> "turn.time-limit"
CloseTold(op) == CASE op = "cancel" -> "cancelled" [] op = "shutdown" -> "interrupted"
                   [] op = "time-limit" -> "timed-out"

ClosingPlan(k) ==
    LET reap == Reaped(k.state, k.now, k.at, NotOver)
        s == k.state
        closing == IF s.open.sealed # "none" THEN s.open.sealed
                   ELSE IF k.op = "cancel" THEN "cancelled" ELSE "interrupted"
        close == ReapClosing(s, closing, IF s.open.sealed # "none" THEN "sealed" ELSE CloseCode(k.op),
                             s.open.sealed # "none", k.op # "shutdown")
    IN IF reap.closed # 0 THEN Plan(reap.events, reap.state, "not open")
       ELSE IF s.open.turn # k.turn THEN Only("not open")
       ELSE Plan(close.events, close.state, "closed")

(* A cancel that does not look whether the turn is still held.               *)
ClosingPlanUnreaped(k) ==
    LET s == k.state
        close == ReapClosing(s, IF k.op = "cancel" THEN "cancelled" ELSE "interrupted",
                             CloseCode(k.op), FALSE, k.op # "shutdown")
    IN IF s.open.turn # k.turn THEN Only("not open")
       ELSE Plan(close.events, close.state, "closed")

ClosePlan(k) == ClosingPlan(k)

(* A begin cut after its commit and before its writer closes its turn: as    *)
(* interrupted, or as failed when the host's admission failed around it.     *)
CutReason(k) == IF k.told = "error" THEN "failed" ELSE "interrupted"
CutCode(k) == IF k.told = "error" THEN "turn.unended" ELSE "turn.interrupted"

UnhandedPlan(k) ==
    LET close == ReapClosing(k.state, CutReason(k), CutCode(k), FALSE, FALSE)
    IN IF k.state.open.turn # k.turn \/ k.state.open.holder # k.at THEN Only("cut")
       ELSE Plan(close.events, close.state, "cut")

(* A delivery or an enqueue: an id ever queued is not added again.           *)
InboxPlan(k) ==
    LET reap == Reaped(k.state, k.now, k.at, NotOver)
        known == k.state.inbox[k.item].in \/ WasQueued(k.item)
    IN IF known THEN IF reap.closed = 0 THEN Only("already")
                     ELSE Plan(reap.events, reap.state, "already")
       ELSE IF Cardinality(PendingOf(reap.state)) >= MaxPending THEN Only("full")
       ELSE Plan(reap.events \cup {Queued(k.item)}, QueuedState(reap.state, k.item), "queued")

(* A keyed transact: a repeat of its key decides nothing.                    *)
TransactPlanTwice(k) == Plan({Keyed(k.item)}, k.state, "recorded")

TransactPlan(k) ==
    IF \E e \in Of("transact.keyed") : e.tx = k.item THEN Only("repeated")
    ELSE Plan({Keyed(k.item)}, k.state, "recorded")

PlanOf(k) == CASE k.op \in CloseOp -> ClosePlan(k)
               [] k.op \in {"deliver", "enqueue"} -> InboxPlan(k)
               [] k.op = "unhanded" -> UnhandedPlan(k)
               [] k.op = "transact" -> TransactPlan(k)
               [] k.op = "begin" -> BeginPlan(k)

Refuses(k) == k.op = "begin" /\ BeginRefusal(k, BeginReap(k)).told # "none"
Commits(k) == k.step = "read" /\ ~Refuses(k) /\ PlanOf(k).commits
StoreAnswers(k) == CommitAnswer(k.rev, k.inc, NoExpiry)

Unread(k) == [k EXCEPT !.rev = 0, !.inc = 0, !.now = 0, !.state = InitialState]

(* A close that has yet to close this instance's writer.                     *)
Closing(k) == [Idle EXCEPT !.op = k.op, !.at = k.at, !.step = "closing", !.turn = k.turn, !.run = k.run]

(* What is left of a refused begin: its answer, and the reap of a sealed     *)
(* turn (nothing is ever sealed where no reply is held).                     *)
RefusedCall(k, told, turn, open) ==
    IF Replies = {} THEN Idle
    ELSE [Idle EXCEPT !.op = k.op, !.at = k.at, !.step = "refused", !.ask = k.ask,
                      !.told = told, !.turn = turn, !.open = open]

(* A call whose commit was not stored.  A begin is refused; a close of a     *)
(* turn held here, and a begin cut before its writer, let the turn go (so    *)
(* does a begin whose commit may have been stored), and the first goes on to *)
(* close the writer all the same.                                            *)
GivesUpUnclosed(c, told) ==
    LET k == call[c]
        holds == k.op \in {"unhanded", "time-limit", "shutdown"}
    IN /\ IF k.op = "begin"
          THEN Become(c, RefusedCall(k, told, 0, FALSE))
          ELSE Answer(c)
       /\ released' = IF holds THEN LetGo(k.at, k.turn, k.run) ELSE released
       /\ UNCHANGED writer

GivesUp(c, told) ==
    LET k == call[c]
        holds == k.op \in {"unhanded", "time-limit", "shutdown"}
        turn == IF k.op = "begin" THEN BeginPlan(k).next.turns ELSE k.turn
    IN /\ IF k.op = "begin"
          THEN Become(c, RefusedCall(k, told, 0, FALSE))
          ELSE IF k.op \in {"time-limit", "shutdown"} THEN Become(c, Closing(k))
          ELSE Answer(c)
       /\ released' = IF holds \/ (k.op = "begin" /\ told = "error") THEN LetGo(k.at, turn, k.run) ELSE released
       /\ UNCHANGED writer

(* A begin the plan refuses.                                                 *)
Refused(c) ==
    LET k == call[c]
        refusal == BeginRefusal(k, BeginReap(k))
    IN /\ k.step = "read" /\ head.present /\ Refuses(k)
       /\ Become(c, RefusedCall(k, refusal.told, refusal.turn, refusal.open))
       /\ UNCHANGED <<logVars, local>>

(* A refused begin closes the sealed turn its holder left, in a commit of    *)
(* its own, unless others' commits leave it none.                            *)
ReapSealed(c) ==
    LET k == call[c]
        reap == Reaped(head.state, now, k.at, k.ask.over)
    IN /\ k.step = "refused"
       /\ Answer(c)
       /\ \/ /\ head.present /\ head.state.open.sealed # "none" /\ reap.closed # 0
             /\ StoreCommit(reap.events, reap.state)
             /\ writer' = ClosedLocally(k.at, reap.closed, "interrupted")
             /\ released' = ForgetClosed(k.at, reap.state)
          \/ UNCHANGED <<logVars, writer, released>>
       /\ UNCHANGED <<registered, stopping, alive, stalled, faults>>

(* A call that only answers; an enqueue first checks that what it read still *)
(* stands.                                                                   *)
Answered(c) ==
    LET k == call[c]
        plan == PlanOf(k)
    IN /\ k.step = "read" /\ head.present /\ ~Refuses(k) /\ ~plan.commits
       /\ k.op = "enqueue" /\ plan.told = "already" => head.rev = k.rev
       /\ Answer(c)
       /\ UNCHANGED <<logVars, local>>

(* A turn opens; its writer is handed over in a later step.  Nothing the     *)
(* session was let go of outlives a commit that opens another turn.          *)
BeginStored(c) ==
    LET k == call[c]
        plan == BeginPlan(k)
    IN /\ k.op = "begin" /\ Commits(k) /\ StoreAnswers(k) = "stored"
       /\ plan.next.turns <= MaxTurn
       /\ StoreCommit(plan.events, plan.next)
       /\ released' = [released EXCEPT ![k.at] = {}]
       /\ Become(c, [k EXCEPT !.step = "opened", !.turn = plan.next.turns, !.rev = head.rev + 1,
                              !.state = plan.next, !.reaped = BeginReap(k).closed, !.ask = NoAsk,
                              !.item = NoItem, !.key = NoKey, !.now = 0, !.tries = 0])
       /\ UNCHANGED <<writer, registered, stopping, alive, stalled, faults>>

(* Any other call's commit is stored; a close goes on to close the writer    *)
(* here.                                                                     *)
CallStored(c) ==
    LET k == call[c]
        plan == PlanOf(k)
    IN /\ k.op # "begin" /\ Commits(k) /\ StoreAnswers(k) = "stored"
       /\ StoreCommit(plan.events, plan.next)
       /\ released' = IF k.op = "transact" THEN released ELSE ForgetClosed(k.at, plan.next)
       /\ IF k.op \in CloseOp /\ plan.told = "closed" THEN Become(c, Closing(k)) ELSE Answer(c)
       /\ UNCHANGED <<writer, registered, stopping, alive, stalled, faults>>

(* The close's last step: this instance's writer of the turn stops.          *)
CloseLocal(c) ==
    LET k == call[c]
    IN /\ k.step = "closing"
       /\ writer' = ClosedLocally(k.at, k.turn, CloseTold(k.op))
       /\ Answer(c)
       /\ UNCHANGED <<logVars, registered, released, stopping, alive, stalled, faults>>

(* The head moved: plan again, or give up after the last attempt.            *)
Conflicted(c) ==
    LET k == call[c]
        moved == \/ Commits(k) /\ StoreAnswers(k) = "conflict"
                 \/ k.op = "enqueue" /\ k.step = "read" /\ head.present /\ ~PlanOf(k).commits
                    /\ PlanOf(k).told = "already" /\ head.rev # k.rev
    IN /\ moved
       /\ IF k.tries + 1 < Retries
          THEN Become(c, Reading([k EXCEPT !.tries = @ + 1])) /\ UNCHANGED <<writer, released>>
          ELSE GivesUp(c, "contended")
       /\ UNCHANGED <<logVars, registered, stopping, alive, stalled, faults>>

(* The session was removed meanwhile, and perhaps created again.             *)
Vanished(c) ==
    LET k == call[c]
    IN /\ \/ k.step = "lost"
          \/ k.step = "read" /\ ~head.present
          \/ Commits(k) /\ StoreAnswers(k) = "missing"
       /\ GivesUp(c, "missing")
       /\ UNCHANGED <<logVars, registered, stopping, alive, stalled, faults>>

(* The store fails, and may still apply the commit later.                    *)
Stall(rev, inc, notAfter, events, next) ==
    stalled' = stalled \cup {[rev |-> rev, inc |-> inc, notAfter |-> notAfter, events |-> events, next |-> next]}

StoreFailed(c) ==
    LET k == call[c]
        plan == PlanOf(k)
    IN /\ Commits(k) /\ Fault("store")
       /\ k.op = "begin" => plan.next.turns <= MaxTurn
       /\ Stall(k.rev, k.inc, NoExpiry, plan.events, plan.next)
       /\ GivesUp(c, "error")
       /\ UNCHANGED <<logVars, registered, stopping, alive>>

Land(s) ==
    /\ CommitAnswer(s.rev, s.inc, s.notAfter) = "stored"
    /\ StoreCommit(s.events, s.next)
    /\ stalled' = stalled \ {s}
    /\ UNCHANGED <<call, writer, registered, released, stopping, alive, faults>>

(* The writer exists and is registered: from now it can be closed from here. *)
Handover(c) ==
    LET k == call[c]
        w == [inc |-> k.inc, turn |-> k.turn]
    IN /\ k.step = "opened"
       /\ writer' = [ClosedLocally(k.at, k.reaped, "interrupted") EXCEPT
                       ![w] = [NoHold EXCEPT !.inst = k.at, !.run = k.run, !.phase = "Open",
                                             !.rev = k.rev, !.state = k.state]]
       /\ registered' = [registered EXCEPT ![k.at] = w]
       /\ Become(c, [Unread(k) EXCEPT !.step = "handed", !.reaped = 0])
       /\ UNCHANGED <<logVars, released, stopping, alive, stalled, faults>>

(* The begin is interrupted, or its admission fails, between its commit and  *)
(* its writer.                                                               *)
BeginCut(c) ==
    LET k == call[c]
    IN /\ k.step = "opened" /\ Fault("cut")
       /\ \E told \in {"none", "error"} :
            Become(c, Reading([Asked(k.at, "unhanded") EXCEPT !.turn = k.turn, !.run = k.run, !.told = told]))
       /\ UNCHANGED <<logVars, writer, registered, released, stopping, alive, stalled>>

(* A shutdown that interrupts by now closes the turn as it closed the others. *)
HandedUnlooked(c) ==
    LET k == call[c]
    IN /\ k.step = "handed"
       /\ Answer(c)
       /\ UNCHANGED <<logVars, local>>

Handed(c) ==
    LET k == call[c]
    IN /\ k.step = "handed"
       /\ IF stopping[k.at] \in {"interrupting", "swept"}
          THEN Become(c, Reading([Asked(k.at, "shutdown") EXCEPT !.turn = k.turn, !.run = k.run]))
          ELSE Answer(c)
       /\ UNCHANGED <<logVars, local>>

(* A close that waits for the sealed writer's own end.                       *)
AwaitOver(c) ==
    LET k == call[c]
        phase == writer[[inc |-> k.inc, turn |-> k.turn]].phase
    IN /\ k.step = "await" /\ phase # "Ending"
       /\ IF phase = "Ended" THEN Answer(c)
          ELSE Become(c, Reading(k))
       /\ UNCHANGED <<logVars, local>>

-----------------------------------------------------------------------------
(* A writer commits from its own cursor.                                     *)

NotAfter(w) == IF writer[w].inst \in Leased THEN writer[w].state.open.expiresAt ELSE NoExpiry
WriterAnswer(w) == CommitAnswer(writer[w].rev, w.inc, NotAfter(w))

(* The state with the turn's lease extended.                                 *)
Renewed(i, s, always) ==
    IF i \in Leased /\ (always \/ Renew # "none") THEN [s EXCEPT !.open.expiresAt = now + Ttl] ELSE s

At(rec, next) == IF rec.phase \in Live THEN [rec EXCEPT !.rev = head.rev + 1, !.state = next] ELSE rec

(* The consumer takes one item at a time: none while a seal is on its way.   *)
WriterCommits(w, events, next, rec) ==
    /\ writer[w].sealing = "none"
    /\ WriterAnswer(w) = "stored"
    /\ StoreCommit(events, next)
    /\ writer' = [writer EXCEPT ![w] = At(rec, next)]
    /\ UNCHANGED <<call, registered, released, stopping, alive, stalled, faults>>

Writing(w) == writer[w].phase = "Open" /\ ~writer[w].scope
Writes(turn) == Cardinality({e \in Of("wrote") : e.turn = turn})

Append(w) ==
    LET me == writer[w]
    IN /\ Writing(w) /\ Writes(w.turn) < MaxWrites
       /\ WriterCommits(w, {Wrote(w.turn)}, Renewed(me.inst, me.state, FALSE), [me EXCEPT !.tried = TRUE])

KeepAlive(w) ==
    LET me == writer[w]
        next == Renewed(me.inst, me.state, TRUE)
    IN /\ me.phase = "Open" /\ me.inst \in Leased /\ Renew = "every" /\ next # me.state
       /\ WriterCommits(w, {}, next, me)

(* The running turn takes queued steers into itself.                         *)
Take(w, items) ==
    LET me == writer[w]
    IN /\ Writing(w) /\ items # {} /\ items \subseteq PendingOf(me.state) \cap Steer
       /\ WriterCommits(w, {Taken(w.turn, items)},
                        Renewed(me.inst, WithoutItems(me.state, items), FALSE), [me EXCEPT !.tried = TRUE])

(* The final reply is held for the end, with its closing drafts, in place of *)
(* what was held.                                                            *)
Hold(w, reply) ==
    /\ Writing(w)
    /\ writer' = [writer EXCEPT ![w].held = reply, ![w].tried = TRUE]
    /\ UNCHANGED <<logVars, call, registered, released, stopping, alive, stalled, faults>>

(* The held reply seals the turn: first in the session's state, then here,   *)
(* unless an end began in between.                                           *)
SealCommit(w) ==
    LET me == writer[w]
    IN /\ Writing(w) /\ me.held # "none" /\ me.sealed = "none"
       /\ WriterCommits(w, {}, [Renewed(me.inst, me.state, FALSE) EXCEPT !.open.sealed = me.held],
                        [me EXCEPT !.sealing = me.held])

SealApply(w) ==
    LET me == writer[w]
    IN /\ me.sealing # "none"
       /\ writer' = [writer EXCEPT ![w].sealing = "none",
                                   ![w].sealed = IF me.phase = "Open" THEN me.sealing ELSE @]
       /\ UNCHANGED <<logVars, call, registered, released, stopping, alive, stalled, faults>>

(* An end begins: admission is closed, and a sealed turn ends as it sealed.  *)
BeginEnd(w, ending, scope) ==
    LET sealed == writer[w].sealed
    IN /\ writer[w].phase = "Open"
       /\ writer' = [writer EXCEPT ![w] = [@ EXCEPT !.phase = "Ending", !.scope = scope,
                                             !.ending = IF sealed # "none" THEN sealed ELSE ending]]
       /\ UNCHANGED <<logVars, call, registered, released, stopping, alive, stalled, faults>>

End(w, ending) == ~writer[w].scope /\ BeginEnd(w, ending, FALSE)

(* The scope closes: an ending not stored is stored again, else the one the  *)
(* held reply implies, else the turn never ended.                            *)
ScopeCloses(w, unended) ==
    LET me == writer[w]
    IN /\ ~me.scope
       /\ \/ BeginEnd(w, IF me.attempted # "none" THEN me.attempted
                         ELSE IF me.held # "none" THEN me.held ELSE unended, TRUE)
          \/ /\ me.phase = "Ending"
             /\ writer' = [writer EXCEPT ![w].scope = TRUE]
             /\ UNCHANGED <<logVars, call, registered, released, stopping, alive, stalled, faults>>

EndEvents(w) ==
    LET me == writer[w]
    IN {Ended(w.turn, me.ending, "own", me.held # "none", Dropped(me.state, me.ending, me.tried))}
EndState(w) == ClosedState(writer[w].state, writer[w].ending, writer[w].tried)

EndCommit(w) ==
    /\ writer[w].phase = "Ending"
    /\ WriterCommits(w, EndEvents(w), EndState(w), Stop(writer[w], "Ended", "none"))

(* A write is refused.  Past its lease or without its session, the writer    *)
(* closes; after a conflict it goes on from the head while the turn is its   *)
(* own, and otherwise closes as the turn was closed.                         *)
Ours(w) == /\ head.state.open.turn = w.turn
           /\ head.state.open.holder = writer[w].inst
           /\ head.state.open.run = writer[w].run

Learns(w) ==
    LET me == writer[w]
        ended == {e \in Ends : e.turn = w.turn /\ e.reason = "cancelled"}
    IN /\ me.phase \in Live /\ me.sealing = "none" /\ WriterAnswer(w) # "stored"
       /\ writer' = [writer EXCEPT ![w] =
             CASE WriterAnswer(w) = "expired" -> Stopped(@, "interrupted")
               [] WriterAnswer(w) = "missing" -> Stopped(@, "removed")
               [] WriterAnswer(w) = "conflict" /\ Ours(w) -> [@ EXCEPT !.rev = head.rev, !.state = head.state]
               [] OTHER -> Stopped(@, IF ended # {} THEN "cancelled" ELSE "interrupted")]
       /\ UNCHANGED <<logVars, call, registered, released, stopping, alive, stalled, faults>>

(* The last attempt met a conflict too: an append stops the writer, an end   *)
(* may be tried again.                                                       *)
Contends(w) ==
    LET me == writer[w]
    IN /\ me.sealing = "none" /\ WriterAnswer(w) = "conflict" /\ Ours(w)
       /\ \/ /\ Writing(w) /\ Writes(w.turn) < MaxWrites
             /\ writer' = [writer EXCEPT ![w] = Stop(me, "Failed", "error")]
          \/ /\ me.phase = "Ending"
             /\ writer' = [writer EXCEPT ![w] = [me EXCEPT !.phase = "Open", !.attempted = me.ending,
                                                           !.rev = head.rev, !.state = head.state]]
       /\ UNCHANGED <<logVars, call, registered, released, stopping, alive, stalled, faults>>

(* A write fails with its outcome unknown: an append stops the writer, a     *)
(* seal leaves the turn unsealed, an end may be tried again.                 *)
WriteFails(w) ==
    LET me == writer[w]
        Fails(events, next, rec) ==
            /\ Stall(me.rev, w.inc, NotAfter(w), events, next)
            /\ writer' = [writer EXCEPT ![w] = rec]
    IN /\ me.phase \in Live /\ me.sealing = "none" /\ Fault("store")
       /\ \/ /\ Writing(w) /\ Writes(w.turn) < MaxWrites
             /\ Fails({Wrote(w.turn)}, Renewed(me.inst, me.state, FALSE),
                      Stop(me, "Failed", "error"))
          \/ /\ Writing(w) /\ me.held # "none" /\ me.sealed = "none"
             /\ Fails({}, [Renewed(me.inst, me.state, FALSE) EXCEPT !.open.sealed = me.held], me)
          \/ /\ me.phase = "Ending"
             /\ Fails(EndEvents(w), EndState(w), [me EXCEPT !.phase = "Open", !.attempted = me.ending])
       /\ UNCHANGED <<logVars, call, registered, released, stopping, alive>>

(* The scope has closed.  The instance forgets the writer its map holds for  *)
(* the session if that one's turn has the same number, and lets that turn go *)
(* unless it ended.                                                          *)
ScopeDone(w) ==
    LET me == writer[w]
        there == registered[me.inst]
    IN /\ me.phase \in {"Ended", "Closed", "Failed"} \/ (me.phase = "Open" /\ me.scope)
       /\ writer' = [writer EXCEPT ![w] = [NoHold EXCEPT !.phase = "Gone"]]
       /\ released' = IF there.turn = w.turn /\ writer[there].phase # "Ended"
                      THEN LetGo(me.inst, w.turn, writer[there].run) ELSE released
       /\ registered' = IF there.turn = w.turn THEN [registered EXCEPT ![me.inst] = NoWriter] ELSE registered
       /\ UNCHANGED <<logVars, call, stopping, alive, stalled, faults>>

-----------------------------------------------------------------------------
(* Shutdown, crashes, and the session's own life.                            *)

ShutdownRefuses(i) ==
    /\ alive[i] /\ stopping[i] = "running" /\ Fault("shutdown")
    /\ stopping' = [stopping EXCEPT ![i] = "refusing"]
    /\ UNCHANGED <<logVars, call, writer, registered, released, alive, stalled>>

ShutdownInterrupts(i) ==
    /\ alive[i] /\ stopping[i] = "refusing"
    /\ stopping' = [stopping EXCEPT ![i] = "interrupting"]
    /\ UNCHANGED <<logVars, call, writer, registered, released, alive, stalled, faults>>

(* Every turn held now is closed.                                            *)
ShutdownCloses(c, i) ==
    /\ alive[i] /\ stopping[i] = "interrupting"
    /\ stopping' = [stopping EXCEPT ![i] = "swept"]
    /\ IF registered[i] = NoWriter THEN UNCHANGED <<logVars, call, writer, registered, released, alive, stalled>>
       ELSE AskClose(c, i, "shutdown", registered[i].turn, writer[registered[i]].run)
    /\ UNCHANGED faults

Crash(i) ==
    /\ alive[i] /\ Fault("crash")
    /\ alive' = [alive EXCEPT ![i] = FALSE]
    /\ call' = [c \in Caller |-> IF call[c].at = i THEN Idle ELSE call[c]]
    /\ writer' = [w \in WriterId |-> IF writer[w].inst = i THEN [NoHold EXCEPT !.phase = "Gone"] ELSE writer[w]]
    /\ registered' = [registered EXCEPT ![i] = NoWriter]
    /\ released' = [released EXCEPT ![i] = {}]
    /\ UNCHANGED <<logVars, stopping, stalled>>

Create ==
    /\ CreateSession(InitialState)
    /\ UNCHANGED <<call, local>>

Remove(i) ==
    /\ alive[i] /\ Fault("remove")
    /\ RemoveSession(InitialState)
    /\ released' = [released EXCEPT ![i] = {}]
    /\ writer' = ClosedLocally(i, registered[i].turn, "removed")
    /\ UNCHANGED <<call, registered, stopping, alive, stalled>>

Time == Tick /\ UNCHANGED <<call, local>>

CallStep(c) ==
    \/ ReadHead(c) \/ Refused(c) \/ ReapSealed(c) \/ Answered(c) \/ BeginStored(c) \/ CallStored(c)
    \/ CloseLocal(c) \/ Conflicted(c) \/ Vanished(c) \/ Handover(c) \/ Handed(c) \/ AwaitOver(c)

WriterStep(w) ==
    \/ Append(w) \/ KeepAlive(w) \/ SealCommit(w) \/ SealApply(w) \/ EndCommit(w)
    \/ Learns(w) \/ Contends(w) \/ ScopeDone(w)
    \/ \E items \in SUBSET Steer : Take(w, items)
    \/ \E reply \in Replies : Hold(w, reply)
    \/ \E ending \in Endings : End(w, ending)
    \/ \E ending \in Unended : ScopeCloses(w, ending)

Next ==
    \/ \E c \in Caller : CallStep(c) \/ StoreFailed(c) \/ BeginCut(c)
    \/ \E c \in Caller, i \in Instance :
         \/ \E ask \in Ask : AskBegin(c, i, ask)
         \/ \E turn \in CancelTurns : AskCancel(c, i, turn)
         \/ \E item \in Delivers : AskDeliver(c, i, item)
         \/ \E tx \in Tx : AskTransact(c, i, tx)
         \/ ShutdownCloses(c, i)
    \/ \E c \in Caller, w \in WriterId : AskTimeLimit(c, w)
    \/ \E w \in WriterId : WriterStep(w) \/ WriteFails(w)
    \/ \E i \in Instance : ShutdownRefuses(i) \/ ShutdownInterrupts(i) \/ Crash(i) \/ Remove(i)
    \/ \E s \in stalled : Land(s)
    \/ Create \/ Time

Spec == Init /\ [][Next]_vars
=============================================================================
