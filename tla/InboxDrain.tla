----------------------------- MODULE InboxDrain -----------------------------
(***************************************************************************)
(* The inbox drainer: the fixed workers of one process that run what waits *)
(* in its owners' sessions.  A scan reads every session, caches what it    *)
(* found and turns it into jobs; a worker claims a job, selects its work   *)
(* again, begins a turn through Sessions, runs it and finishes the job.    *)
(* Beside it, hosts enqueue, and this process and others begin and end     *)
(* turns of the same sessions; a process may die and a new one start.      *)
(*                                                                         *)
(* A commit of Sessions is one step here: that calls are atomic and        *)
(* fenced, that one turn is open and how the inbox changes is the subject  *)
(* of module Sessions, whose state operators are used.  Sealed turns and   *)
(* steers are left out; a wake only makes the next scan or claim sooner,   *)
(* so scans and claims may happen at any time.                             *)
(***************************************************************************)
EXTENDS SessionsState, Sequences, SequencesExt

CONSTANTS Session, Worker,
          here, elsewhere,  \* this process, and every other
          Resume,           \* config.resume: "Before" or "Never"
          DrainAttempts,    \* config.attempts
          TakeOver,         \* config.takeOver
          Backlog,          \* items queued, in this order, before the first process starts
          Endings,          \* how a drained turn's run may end
          Closes,           \* how a turn may be closed beside its run: codes
          MaxFailures,      \* bound: failures told apart (the backoff is constant past it)
          MaxEnqueued,      \* bound: items queued after it
          MaxForeign,       \* bound: user turns begun beside the drainer
          MaxCloses,        \* bound: turns closed beside their runs
          MaxErrors,        \* bound: storage failures
          MaxRestarts,      \* bound: processes started after the first
          MaxShutdowns,     \* bound: requests to shut down
          MaxEvents         \* bound: of all these together

ASSUME DrainConstants ==
    /\ Instance = {here, elsewhere} /\ here # elsewhere
    /\ Resume \in {"Before", "Never"} /\ TakeOver \in BOOLEAN
    /\ DrainAttempts \in Nat \ {0} /\ MaxFailures \in Nat \ {0}
    /\ Backlog \in Seq(Item) /\ IsInjective(Backlog)
    /\ Endings \subseteq Reason
    /\ Closes \subseteq {"cancelled", "turn.time-limit", "turn.interrupted"}
    /\ {MaxEnqueued, MaxForeign, MaxCloses, MaxErrors, MaxRestarts, MaxShutdowns, MaxEvents} \subseteq Nat

VARIABLES sess,     \* per session, its head and what its journal tells a drainer
          jobs,     \* the scheduler's jobs
          line,     \* the sessions that have a job, in the order of their tickets
          worker,   \* per worker, the job it runs and how far it got
          scan,     \* the scan in progress
          scanned,  \* per session, the mark and target of the last scan
          baseline, \* per session, the sequence number the first scan saw
          startup,  \* whether the next scan is this process's first
          halted,   \* a begin was refused for a shutdown
          stopping, \* the process shuts down
          counts,   \* how much of each bound was used
          drained,  \* history: per session, the turns drainers began
          sighted   \* history: per session, the turn open at this process's first scan

drainVars == <<jobs, line, worker, scan, scanned, baseline, startup, halted>>
ghosts == <<drained, sighted>>
vars == <<sess, drainVars, stopping, counts, ghosts>>

-----------------------------------------------------------------------------
(* What the journal tells a drainer.                                         *)

Enqueued(item, seq) == [tag |-> "Enqueued", id |-> item, seq |-> seq]
Removed(items) == [tag |-> "Removed", ids |-> items]
Started(turn, origin, claimed, input, resumes) ==
    [tag |-> "Started", turn |-> turn, origin |-> origin, claimed |-> claimed, input |-> input, resumes |-> resumes]
Ended(turn, reason, code, seq) == [tag |-> "Ended", turn |-> turn, reason |-> reason, code |-> code, seq |-> seq]

(* The slots in the order of the journal (at), and every turn.               *)
EmptyHistory == [slots |-> [item \in {} |-> [by |-> 0, at |-> 0]], turns |-> <<>>]
Has(h, item) == item \in DOMAIN h.slots
Claims(h, item, e) == h.slots[item].by = 0 /\ (item \in e.claimed \/ item = e.input)
AcknowledgesAnswered(item, reason) == reason \in {"completed", "cancelled", "waiting"}
Acknowledges(item, reason) ==
    reason \in {"completed", "cancelled", "waiting"} \/ (item \in Notice /\ reason = "partial")
Acknowledged(h, e) == {item \in DOMAIN h.slots : h.slots[item].by = e.turn /\ Acknowledges(item, e.reason)}

Apply(h, e) ==
    CASE e.tag = "Enqueued" ->
           [h EXCEPT !.slots = [item \in DOMAIN @ \cup {e.id} |->
                                  IF Has(h, item) THEN h.slots[item] ELSE [by |-> 0, at |-> e.seq]]]
      [] e.tag = "Removed" -> [h EXCEPT !.slots = Restrict(@, DOMAIN @ \ e.ids)]
      [] e.tag = "Started" ->
           [turns |-> Append(h.turns, [origin |-> e.origin, resumes |-> e.resumes, input |-> e.input,
                                       ended |-> "open", code |-> "own", endedAt |-> 0]),
            slots |-> [item \in DOMAIN h.slots |->
                         [h.slots[item] EXCEPT !.by = IF Claims(h, item, e) THEN e.turn ELSE @]]]
      [] e.tag = "Ended" ->
           [turns |-> [h.turns EXCEPT ![e.turn] = [@ EXCEPT !.ended = e.reason, !.code = e.code, !.endedAt = e.seq]],
            slots |-> [item \in DOMAIN h.slots \ Acknowledged(h, e) |->
                         [h.slots[item] EXCEPT !.by = IF @ = e.turn THEN 0 ELSE @]]]

UserTurns(h) == {t \in DOMAIN h.turns : h.turns[t].origin = "user"}
Largest(S) == CHOOSE n \in S : \A m \in S : m <= n
Smallest(S) == CHOOSE n \in S : \A m \in S : n <= m

(* How a turn stopped, for automatic recovery.                               *)
HolderGone == {"turn.lease", "turn.takeover", "turn.shutdown"}
StopOf(turn, base) ==
    CASE turn.ended = "open" -> "recoverable"
      [] turn.ended = "interrupted" ->
           IF turn.code \in HolderGone THEN "recoverable"
           ELSE IF turn.code = "turn.time-limit" THEN "deliberate"
           ELSE IF turn.endedAt <= base THEN "recoverable" ELSE "deliberate"
      [] turn.ended \in {"failed", "partial"} -> "failed"
      [] OTHER -> "done"

(* Whether turn t can be resumed, an open turn taken as interrupted.         *)
ReasonOf(h, t) == IF h.turns[t].ended = "open" THEN "interrupted" ELSE h.turns[t].ended
Supersedes(h, later, t) ==
    /\ later > t /\ later \in UserTurns(h)
    /\ ~(h.turns[later].resumes = t /\ ReasonOf(h, later) \in {"cancelled", "interrupted", "failed"})
Resumable(h, t) ==
    /\ t \in UserTurns(h)
    /\ ~\E later \in DOMAIN h.turns : Supersedes(h, later, t)
    /\ ReasonOf(h, t) \in {"cancelled", "interrupted"}

(* The interrupted user root the latest user turn allows to resume, 0 if     *)
(* none, and how often a resume of it failed.                                *)
LatestAllows(h, base) ==
    /\ Resume = "Before" /\ UserTurns(h) # {}
    /\ LET latest == h.turns[Largest(UserTurns(h))]
       IN \/ StopOf(latest, base) = "recoverable"
          \/ StopOf(latest, base) = "failed" /\ latest.resumes # 0
Roots(h) == {t \in UserTurns(h) : ReasonOf(h, t) = "interrupted" /\ Resumable(h, t)}
ResumeRoot(h, base) == IF LatestAllows(h, base) /\ Roots(h) # {} THEN Smallest(Roots(h)) ELSE 0
ResumeFailures(h, root, base) ==
    Cardinality({t \in DOMAIN h.turns : h.turns[t].resumes = root /\ StopOf(h.turns[t], base) = "failed"})

(* A queued input whose runs failed too often, or were stopped on purpose.   *)
ClaimsOf(h, item) == {t \in DOMAIN h.turns : h.turns[t].input = item}
FailedClaims(h, item, base) == {t \in ClaimsOf(h, item) : StopOf(h.turns[t], base) = "failed"}
InputParkedPast(h, item, base) ==
    /\ item \in Input
    /\ \/ Cardinality(FailedClaims(h, item, base)) > DrainAttempts
       \/ ClaimsOf(h, item) # {} /\ StopOf(h.turns[Largest(ClaimsOf(h, item))], base) = "deliberate"
InputParked(h, item, base) ==
    /\ item \in Input
    /\ \/ Cardinality(FailedClaims(h, item, base)) >= DrainAttempts
       \/ ClaimsOf(h, item) # {} /\ StopOf(h.turns[Largest(ClaimsOf(h, item))], base) = "deliberate"

-----------------------------------------------------------------------------
(* What a session has for the drainer.  A target is told from another by its *)
(* identity: the root it resumes, the input, or the first notice.            *)

NoTarget == [kind |-> "none", of |-> 0]
Resuming(root) == [kind |-> "resume", of |-> root]
Of(item) == [kind |-> IF item \in Input THEN "queued" ELSE "inbox", of |-> item]

(* open is the turn a session shows open, 0 if none.                         *)
Waiting(h, slot) == slot.by = 0 \/ h.turns[slot.by].ended = "open"
Oldest(h, items) == CHOOSE item \in items : \A other \in items : h.slots[item].at <= h.slots[other].at
TargetOf(h, open, base, takeOver) ==
    LET root == ResumeRoot(h, base)
        ready == {item \in DOMAIN h.slots : Waiting(h, h.slots[item]) /\ ~InputParked(h, item, base)}
    IN IF open # 0 /\ ~takeOver THEN NoTarget
       ELSE IF root # 0 /\ ResumeFailures(h, root, base) < DrainAttempts THEN Resuming(root)
       ELSE IF ready # {} THEN Of(Oldest(h, ready))
       ELSE NoTarget

TargetPending(h, target, base) ==
    CASE target.kind = "queued" -> Has(h, target.of) /\ ~InputParked(h, target.of, base)
      [] target.kind = "inbox" -> Has(h, target.of)
      [] target.kind = "resume" -> TargetOf(h, 0, base, FALSE) = target

-----------------------------------------------------------------------------
(* A session: each operator is one commit of Sessions.                       *)

Fresh == [head |-> InitialState, gone |-> FALSE, seq |-> 0, history |-> EmptyHistory, queued |-> {}]

(* The open turn as hosts see it: one nobody holds shows as closed.          *)
ViewOpen(s) == IF s.gone THEN 0 ELSE s.head.open.turn

Stored(s, event, state) ==
    [s EXCEPT !.head = state, !.gone = @ /\ IsOpen(state), !.seq = @ + 1, !.history = Apply(@, event)]

Queueing(s, item) == [Stored(s, Enqueued(item, s.seq + 1), QueuedState(s.head, item)) EXCEPT !.queued = @ \cup {item}]

(* An end, and an event for each item it drops.                              *)
Closing(s, reason, code, tried) ==
    LET dropped == Dropped(s.head, reason, tried)
        ended == Stored(s, Ended(s.head.open.turn, reason, code, s.seq + 1), ClosedState(s.head, reason, tried))
    IN [ended EXCEPT !.seq = @ + Cardinality(dropped), !.history = Apply(@, Removed(dropped))]

Opening(s, holder, origin, input, resumes, taking) ==
    Stored(s, Started(s.head.turns + 1, origin, taking \cap Notice, input, resumes),
           OpenedState(s.head, NoRun, holder, 0, taking))

(* A begin first closes a turn nobody holds, or the one its takeover names.  *)
ReapedFor(s, over) ==
    IF ~IsOpen(s.head) THEN s
    ELSE IF s.gone THEN Closing(s, "interrupted", "turn.lease", TRUE)
    ELSE IF s.head.open.turn = over THEN Closing(s, "interrupted", "turn.takeover", FALSE)
    ELSE s

BegunInput(h, target) ==
    CASE target.kind = "queued" -> target.of
      [] target.kind = "inbox" -> NoItem
      [] target.kind = "resume" -> h.turns[target.of].input

(* The items it takes: a resume takes the input of its root if that waits.   *)
TakenAsQueued(s, target, input) ==
    CASE target.kind = "inbox" -> PendingOf(s.head) \cap Notice
      [] target.kind = "queued" -> {input}
      [] target.kind = "resume" -> {}
Taken(s, target, input) ==
    IF target.kind = "inbox" THEN PendingOf(s.head) \cap Notice ELSE {input} \cap PendingOf(s.head)

Begun(s, target) ==
    LET input == BegunInput(s.history, target)
    IN Opening(s, here, IF target.kind = "inbox" THEN "inbox" ELSE "user", input,
               IF target.kind = "resume" THEN target.of ELSE 0,
               Taken(s, target, input))

(* What a begin is told over the reaped session.                             *)
BeginTold(s, target) ==
    IF stopping THEN "refused"
    ELSE IF IsOpen(s.head) THEN "busy"
    ELSE CASE target.kind = "queued" ->
                IF target.of \in PendingOf(s.head) THEN "begun"
                ELSE IF ClaimsOf(s.history, target.of) = {} THEN "nothing" ELSE "duplicate"
           [] target.kind = "inbox" -> IF PendingOf(s.head) \cap Notice = {} THEN "nothing" ELSE "begun"
           [] target.kind = "resume" -> IF Resumable(s.history, target.of) THEN "begun" ELSE "not resumable"

-----------------------------------------------------------------------------
(* The scheduler.                                                            *)

Job(tag, target, failures, takeOver) ==
    [tag |-> tag, target |-> target, failures |-> failures, takeOver |-> takeOver]
NoJob == Job("None", NoTarget, 0, 0)
HasJob(x) == jobs[x].tag # "None"

Without(seq, x) == SelectSeq(seq, LAMBDA y : y # x)
Ticketed(seq, x) == Append(Without(seq, x), x)

(* A scan's candidates: per session, its target and the takeover it has.     *)
SameJob(x, candidate) == HasJob(x) /\ jobs[x].target = candidate.target
ObservedAlways(x, candidate, first) ==
    IF candidate.target = NoTarget THEN jobs[x]
    ELSE IF SameJob(x, candidate) THEN jobs[x]
    ELSE Job("Ready", candidate.target, 0, IF ~HasJob(x) /\ first THEN candidate.takeOver ELSE 0)
Observed(x, candidate, first) ==
    IF jobs[x].tag = "Running" THEN jobs[x]
    ELSE IF candidate.target = NoTarget THEN IF jobs[x].tag = "Ready" THEN NoJob ELSE jobs[x]
    ELSE IF SameJob(x, candidate) THEN jobs[x]
    ELSE Job("Ready", candidate.target, 0, IF ~HasJob(x) /\ first THEN candidate.takeOver ELSE 0)

NewTicket(x, candidate) ==
    candidate.target # NoTarget /\ jobs[x].tag # "Running" /\ ~SameJob(x, candidate)

(* Candidates come in any order of the sessions found.                       *)
ObserveDrains(found, first) ==
    /\ jobs' = [x \in Session |-> Observed(x, found[x], first)]
    /\ \E fresh \in SetToSeqs({x \in Session : NewTicket(x, found[x])}) :
         line' = SelectSeq(line, LAMBDA x : jobs'[x] # NoJob /\ ~NewTicket(x, found[x])) \o fresh

(* The first ready job in line, or one of those before it whose delay is    *)
(* over: time is left out, so any may be.                                    *)
ClaimDrain(x) ==
    /\ jobs[x].tag \in {"Ready", "Delayed"}
    /\ \A i \in DOMAIN line : jobs[line[i]].tag = "Ready" => \E j \in 1..i : line[j] = x
    /\ jobs' = [jobs EXCEPT ![x] = Job("Running", @.target, @.failures, 0)]

NextFailures(job, target) ==
    IF job.target = target THEN IF job.failures < MaxFailures THEN job.failures + 1 ELSE MaxFailures ELSE 1
FinishDrain(x, job, result, target) ==
    IF result = "Retry"
    THEN /\ jobs' = [jobs EXCEPT ![x] = Job("Delayed", target, NextFailures(job, target), 0)]
         /\ line' = Ticketed(line, x)
    ELSE /\ jobs' = [jobs EXCEPT ![x] = NoJob]
         /\ line' = Without(line, x)

-----------------------------------------------------------------------------
(* State.                                                                    *)

NoMark == [seq |-> 0, open |-> 0]
MarkOf(s) == [seq |-> s.seq, open |-> ViewOpen(s)]
SameTurns(mark, other) == mark.open = other.open
SameMark(mark, other) == mark = other
Unscanned == [known |-> FALSE, mark |-> NoMark, target |-> NoTarget]

(* What a scan has of a session: the view it listed, then what it selected.  *)
Unlisted == [step |-> "none", mark |-> NoMark, target |-> NoTarget, takeOver |-> 0]
IdleScan == [on |-> FALSE, first |-> FALSE, of |-> [x \in Session |-> Unlisted]]

IdleWorker == [step |-> "idle", at |-> CHOOSE x \in Session : TRUE, job |-> NoJob, open |-> 0, over |-> 0,
               target |-> NoTarget, turn |-> 0, result |-> "none"]

NoEvents == [enqueued |-> 0, foreign |-> 0, closes |-> 0, errors |-> 0, restarts |-> 0, shutdowns |-> 0]

(* What waits when the process starts: the backlog, or an input of it whose  *)
(* turn an earlier process left open.                                        *)
Backlogged ==
    LET items == ToSet(Backlog)
    IN [Fresh EXCEPT !.head.inbox = [item \in Item |-> IF item \in items THEN NewSlot ELSE NoSlot],
                     !.seq = Len(Backlog), !.queued = items,
                     !.history.slots = [item \in items |-> [by |-> 0, at |-> CHOOSE at \in DOMAIN Backlog : Backlog[at] = item]]]
LeftOpen(item) == Opening(Queueing(Fresh, item), NoInstance, "user", item, 0, {item})

Init ==
    /\ sess \in [Session -> {Backlogged} \cup {LeftOpen(item) : item \in ToSet(Backlog) \cap Input}]
    /\ jobs = [x \in Session |-> NoJob]
    /\ line = <<>>
    /\ worker = [w \in Worker |-> IdleWorker]
    /\ scan = IdleScan
    /\ scanned = [x \in Session |-> Unscanned]
    /\ baseline = [x \in Session |-> 0]
    /\ startup = TRUE /\ halted = FALSE /\ stopping = FALSE
    /\ counts = NoEvents
    /\ drained = [x \in Session |-> {}]
    /\ sighted = [x \in Session |-> 0]

Change(x, s) == sess' = [sess EXCEPT ![x] = s]
Count(what, max) ==
    /\ counts[what] < max
    /\ counts.enqueued + counts.foreign + counts.closes + counts.errors + counts.restarts + counts.shutdowns < MaxEvents
    /\ counts' = [counts EXCEPT ![what] = @ + 1]
HeldHere(x, turn) ==
    IsOpen(sess[x].head) /\ ~sess[x].gone /\ sess[x].head.open.holder = here /\ sess[x].head.open.turn = turn

(* The takeover a select grants: the named turn, still open, not held here.  *)
GrantedSeen(x, open, named) == IF named # 0 /\ open = named THEN named ELSE 0
Granted(x, open, named) == IF named # 0 /\ open = named /\ ~HeldHere(x, open) THEN named ELSE 0

-----------------------------------------------------------------------------
(* The scan.                                                                 *)

ScanList ==
    /\ ~scan.on
    /\ scan' = [on |-> TRUE, first |-> startup,
                of |-> [x \in Session |-> [Unlisted EXCEPT !.step = "listed", !.mark = MarkOf(sess[x])]]]
    /\ startup' = FALSE
    /\ baseline' = IF startup THEN [x \in Session |-> sess[x].seq] ELSE baseline
    /\ sighted' = IF startup THEN [x \in Session |-> ViewOpen(sess[x])] ELSE sighted
    /\ UNCHANGED <<sess, jobs, line, worker, scanned, halted, stopping, counts, drained>>

(* An owner's scan that fails lists none of its sessions.                    *)
ScanListFails ==
    /\ ~scan.on
    /\ Count("errors", MaxErrors)
    /\ scan' = [IdleScan EXCEPT !.on = TRUE, !.first = startup]
    /\ startup' = FALSE
    /\ UNCHANGED <<sess, jobs, line, worker, scanned, baseline, halted, stopping, ghosts>>

Cached(x) == ~scan.first /\ scanned[x].known /\ SameMark(scanned[x].mark, scan.of[x].mark)

Selected(x) ==
    LET open == scan.of[x].mark.open
        over == Granted(x, open, IF scan.first /\ TakeOver THEN open ELSE 0)
    IN IF Cached(x) THEN [scan.of[x] EXCEPT !.step = "selected", !.target = scanned[x].target]
       ELSE [scan.of[x] EXCEPT !.step = "selected", !.takeOver = over,
                               !.target = TargetOf(sess[x].history, open, baseline[x], over # 0)]

ScanSelect(x) ==
    /\ scan.on /\ scan.of[x].step = "listed"
    /\ scan' = [scan EXCEPT !.of[x] = Selected(x)]
    /\ UNCHANGED <<sess, jobs, line, worker, scanned, baseline, startup, halted, stopping, counts, ghosts>>

(* A session whose scan fails is left out of this scan.                      *)
ScanSelectFails(x) ==
    /\ scan.on /\ scan.of[x].step = "listed" /\ ~Cached(x)
    /\ Count("errors", MaxErrors)
    /\ scan' = [scan EXCEPT !.of[x] = Unlisted]
    /\ UNCHANGED <<sess, jobs, line, worker, scanned, baseline, startup, halted, stopping, ghosts>>

ScanDone ==
    /\ scan.on /\ \A x \in Session : scan.of[x].step # "listed"
    /\ scanned' = [x \in Session |-> IF scan.of[x].step = "none" THEN Unscanned
                                     ELSE [known |-> TRUE, mark |-> scan.of[x].mark, target |-> scan.of[x].target]]
    /\ ObserveDrains(scan.of, scan.first /\ TakeOver)
    /\ scan' = IdleScan
    /\ UNCHANGED <<sess, worker, baseline, startup, halted, stopping, counts, ghosts>>

-----------------------------------------------------------------------------
(* A worker.                                                                 *)

Step(w, rec) == worker' = [worker EXCEPT ![w] = rec]
Result(w, result, target) == Step(w, [worker[w] EXCEPT !.step = "finish", !.result = result, !.target = target,
                                                       !.open = 0, !.over = 0, !.turn = 0])

(* A claim, and the attempt's read of the session that follows it; ...       *)
Claim(w, x) ==
    /\ worker[w].step = "idle" /\ ~halted /\ ~stopping
    /\ ClaimDrain(x)
    /\ Step(w, [IdleWorker EXCEPT !.step = "viewed", !.at = x, !.job = jobs[x],
                                  !.open = ViewOpen(sess[x])])
    /\ UNCHANGED <<sess, line, scan, scanned, baseline, startup, halted, stopping, counts, ghosts>>

(* ... then its journal, and selects again.                                  *)
Select(w) ==
    LET x == worker[w].at
        h == sess[x].history
        over == Granted(x, worker[w].open, worker[w].job.takeOver)
        target == TargetOf(h, worker[w].open, baseline[x], over # 0)
    IN /\ worker[w].step = "viewed"
       /\ IF target = NoTarget
          THEN Result(w, IF TargetPending(h, worker[w].job.target, baseline[x]) THEN "Retry" ELSE "Done",
                      worker[w].job.target)
          ELSE IF target # worker[w].job.target THEN Result(w, "Done", worker[w].job.target)
          ELSE Step(w, [worker[w] EXCEPT !.step = "selected", !.over = over, !.target = target, !.open = 0])
       /\ UNCHANGED <<sess, jobs, line, scan, scanned, baseline, startup, halted, stopping, counts, ghosts>>

TellOf(told) == CASE told \in {"nothing", "not resumable"} -> "Done"
                  [] told \in {"duplicate", "busy"} -> "Retry"
                  [] told = "refused" -> "Stopped"

Begin(w) ==
    LET x == worker[w].at
        reaped == ReapedFor(sess[x], worker[w].over)
        told == BeginTold(reaped, worker[w].target)
    IN /\ worker[w].step = "selected"
       /\ IF told = "begun"
          THEN /\ Change(x, Begun(reaped, worker[w].target))
               /\ Step(w, [worker[w] EXCEPT !.step = "running", !.turn = reaped.head.turns + 1, !.over = 0])
               /\ drained' = [drained EXCEPT ![x] = @ \cup {reaped.head.turns + 1}]
          ELSE /\ Result(w, TellOf(told), worker[w].job.target)
               /\ UNCHANGED <<sess, drained>>
       /\ UNCHANGED <<jobs, line, scan, scanned, baseline, startup, halted, stopping, counts, sighted>>

(* Reading the session or beginning the turn fails.                          *)
AttemptFails(w) ==
    /\ worker[w].step \in {"viewed", "selected"}
    /\ Count("errors", MaxErrors)
    /\ Result(w, "Retry", worker[w].job.target)
    /\ UNCHANGED <<sess, jobs, line, scan, scanned, baseline, startup, halted, stopping, ghosts>>

(* The run returns and its turn is ended; one closed beside it is not        *)
(* ended again, and its job is tried again.                                  *)
AfterEnd(w, reason) ==
    Result(w, IF reason \in {"completed", "cancelled", "waiting"} THEN "Done" ELSE "Retry", worker[w].target)

End(w, reason) ==
    LET x == worker[w].at
    IN /\ worker[w].step = "running"
       /\ IF HeldHere(x, worker[w].turn)
          THEN /\ reason \in Endings
               /\ Change(x, Closing(sess[x], reason, "own", TRUE))
               /\ AfterEnd(w, reason)
          ELSE /\ reason = "failed"
               /\ Result(w, "Retry", worker[w].job.target)
               /\ UNCHANGED sess
       /\ UNCHANGED <<jobs, line, scan, scanned, baseline, startup, halted, stopping, counts, ghosts>>

(* The end is not acknowledged: stored all the same, or the turn is let go.  *)
EndLost(w, reason) ==
    LET x == worker[w].at
    IN /\ worker[w].step = "running" /\ HeldHere(x, worker[w].turn) /\ reason \in Endings
       /\ Count("errors", MaxErrors)
       /\ \/ Change(x, Closing(sess[x], reason, "own", TRUE))
          \/ Change(x, [sess[x] EXCEPT !.gone = TRUE])
       /\ Result(w, "Retry", worker[w].job.target)
       /\ UNCHANGED <<jobs, line, scan, scanned, baseline, startup, halted, stopping, ghosts>>

Finish(w) ==
    /\ worker[w].step = "finish"
    /\ FinishDrain(worker[w].at, worker[w].job, worker[w].result, worker[w].target)
    /\ halted' = (halted \/ worker[w].result = "Stopped")
    /\ Step(w, IdleWorker)
    /\ UNCHANGED <<sess, scan, scanned, baseline, startup, stopping, counts, ghosts>>

-----------------------------------------------------------------------------
(* Beside the drainer: hosts of this process and of others.                  *)

outside == <<drainVars, stopping, ghosts>>

Enqueue(x, item) ==
    /\ item \notin sess[x].queued
    /\ Count("enqueued", MaxEnqueued)
    /\ Change(x, Queueing(sess[x], item))
    /\ UNCHANGED outside

(* A host begins a turn, here or elsewhere: with a user's message, or with a *)
(* queued input that waits.                                                  *)
ForeignBegin(x, i, item) ==
    LET reaped == ReapedFor(sess[x], 0)
    IN /\ Count("foreign", MaxForeign)
       /\ i = here => ~stopping
       /\ ~IsOpen(reaped.head) /\ item \in {NoItem} \cup (PendingOf(reaped.head) \cap Input)
       /\ Change(x, Opening(reaped, i, "user", item, 0, {item} \ {NoItem}))
       /\ UNCHANGED outside

Drains(x, turn) == \E w \in Worker : worker[w].step = "running" /\ worker[w].at = x /\ worker[w].turn = turn
HeldOpen(x) == IsOpen(sess[x].head) /\ ~sess[x].gone

(* A turn the drainer does not run ends by its own writer.                   *)
ForeignEnd(x, reason) ==
    /\ HeldOpen(x) /\ sess[x].head.open.holder # NoInstance /\ reason \in Endings
    /\ ~Drains(x, sess[x].head.open.turn)
    /\ Change(x, Closing(sess[x], reason, "own", TRUE))
    /\ UNCHANGED <<outside, counts>>

(* An open turn is cancelled, runs past its limit or is interrupted by its   *)
(* host.                                                                     *)
CloseBeside(x, code) ==
    /\ HeldOpen(x) /\ code \in Closes
    /\ Count("closes", MaxCloses)
    /\ Change(x, Closing(sess[x], IF code = "cancelled" THEN "cancelled" ELSE "interrupted", code, TRUE))
    /\ UNCHANGED outside

(* The holder of an open turn elsewhere is gone: its lease ran out, or its   *)
(* process died.  The next begin of anyone reaps it.                         *)
Lapse(x) ==
    /\ HeldOpen(x) /\ sess[x].head.open.holder # here
    /\ Change(x, [sess[x] EXCEPT !.gone = TRUE])
    /\ UNCHANGED <<outside, counts>>

(* The process is asked to stop: begins are refused, and it may interrupt    *)
(* the turns it holds.                                                       *)
Shutdown ==
    /\ ~stopping /\ Count("shutdowns", MaxShutdowns)
    /\ stopping' = TRUE
    /\ UNCHANGED <<sess, drainVars, ghosts>>

ShutdownCloses(x) ==
    /\ stopping /\ HeldOpen(x) /\ sess[x].head.open.holder = here
    /\ Change(x, Closing(sess[x], "interrupted", "turn.shutdown", FALSE))
    /\ UNCHANGED <<outside, counts>>

(* The process ends and another starts: nothing it kept in memory is left,   *)
(* and a turn it held is seen unheld, or counts as held until its lease ends. *)
Orphaned(s, gone) ==
    IF IsOpen(s.head) /\ s.head.open.holder = here
    THEN [s EXCEPT !.head.open.holder = NoInstance, !.gone = s.gone \/ gone] ELSE s

Restart ==
    /\ Count("restarts", MaxRestarts)
    /\ \E gone \in BOOLEAN : sess' = [x \in Session |-> Orphaned(sess[x], gone)]
    /\ jobs' = [x \in Session |-> NoJob] /\ line' = <<>>
    /\ worker' = [w \in Worker |-> IdleWorker]
    /\ scan' = IdleScan /\ scanned' = [x \in Session |-> Unscanned]
    /\ baseline' = [x \in Session |-> 0]
    /\ startup' = TRUE /\ halted' = FALSE /\ stopping' = FALSE
    /\ sighted' = [x \in Session |-> 0]
    /\ UNCHANGED drained

-----------------------------------------------------------------------------
Scans == ScanList \/ ScanDone \/ \E x \in Session : ScanSelect(x)
Works(w) ==
    \/ \E x \in Session : Claim(w, x)
    \/ Select(w) \/ Begin(w) \/ Finish(w)
    \/ \E reason \in Reason : End(w, reason)
Failures ==
    \/ ScanListFails
    \/ \E x \in Session : ScanSelectFails(x)
    \/ \E w \in Worker : AttemptFails(w) \/ \E reason \in Endings : EndLost(w, reason)
Beside ==
    \/ Shutdown \/ Restart
    \/ \E x \in Session :
         \/ \E item \in Item : Enqueue(x, item)
         \/ \E i \in Instance, item \in Input \cup {NoItem} : ForeignBegin(x, i, item)
         \/ \E reason \in Reason : ForeignEnd(x, reason)
         \/ \E code \in Closes : CloseBeside(x, code)
         \/ Lapse(x) \/ ShutdownCloses(x)

(* Scans and workers go on while the process runs, and delays end; a turn the *)
(* drainer does not run ends, or its holder is found gone, sooner or later.  *)
Settles(x) == Lapse(x) \/ \E reason \in Reason : ForeignEnd(x, reason)

Next == Scans \/ (\E w \in Worker : Works(w)) \/ Failures \/ Beside

Spec == Init /\ [][Next]_vars

Fairness ==
    /\ WF_vars(Scans)
    /\ \A w \in Worker : WF_vars(Works(w))
    /\ \A x \in Session : WF_vars(Settles(x))

FairSpec == Spec /\ Fairness
=============================================================================
