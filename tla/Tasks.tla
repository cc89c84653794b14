------------------------------- MODULE Tasks -------------------------------
(***************************************************************************)
(* Background tasks (plugin-tasks).  A task is a record in its parent's    *)
(* session and a child session of its own: the child holds its one         *)
(* outcome, its questions, their answers and its turns; the parent's inbox *)
(* is told of questions and of how the task ended.  Everything is decided  *)
(* from these two journals, by calls and background work that may stop     *)
(* between any two of their steps and be begun again by anyone.            *)
(*                                                                         *)
(* A fiber runs one call, or one piece of background work, of any process. *)
(* One commit of Sessions is one step; the inbox drainer appears as the    *)
(* follow-up turns it begins (modules Sessions and InboxDrain model both). *)
(***************************************************************************)
EXTENDS Integers, Sequences, FiniteSets, SequencesExt

CONSTANTS Task, Fiber,
          MaxRunning,     \* config.maxRunning
          MaxPending,     \* the inbox limit of a session
          DrainAttempts,  \* failed runs after which a drainer parks an input
          Endings,        \* how an executor's turn may end by itself
          MaxQuestions,   \* bound: questions of one task
          MaxSteers,      \* bound: steers accepted of one task, 0 or 1
          MaxCalls,       \* bound: starts, cancels and steers asked by hosts
          MaxCuts         \* bound: fibers and handed work that are lost, turns that fail

Outcomes == {"completed", "partial", "failed", "interrupted"}

ASSUME TasksConstants ==
    /\ Task # {}
    /\ Endings \subseteq Outcomes
    /\ {MaxRunning, MaxPending, DrainAttempts} \subseteq Nat \ {0}
    /\ {MaxQuestions, MaxCalls, MaxCuts} \subseteq Nat /\ MaxSteers \in {0, 1}

VARIABLES started,   \* the tasks recorded in the parent (task.started)
          noted,     \* the cancellations recorded in the parent (task.cancelled)
          child,     \* per task, its child session
          told,      \* per task, the status its notice tells, "none" if not delivered
          asked,     \* per task, the questions delivered to the parent
          unread,    \* how many notices wait in the parent's inbox
          handed,    \* tasks whose work was handed to a runner and not begun
          fiber,     \* per fiber, what it runs
          calls, cuts,
          worked     \* history: per task, the turns the executor was called in

vars == <<started, noted, child, told, asked, unread, handed, fiber, calls, cuts, worked>>
parent == <<started, noted, told, asked, unread>>

-----------------------------------------------------------------------------
(* A child session.  Question q is the q-th; its answer, and the input that  *)
(* carries it, have its number; 0 is the steer.                              *)

Steer == 0
NoInput == -1
InputId == 0..MaxQuestions

Absent == [exists |-> FALSE, ends |-> <<>>, turns |-> <<>>, open |-> 0, gone |-> FALSE,
           questions |-> <<>>, answered |-> {}, queued |-> {}, waiting |-> {}]

Turn(origin, input, key) == [origin |-> origin, input |-> input, key |-> key, ended |-> "open"]
InitialKey == <<0, 0>>
FollowUpKey(turn) == <<-1, turn>>
RecoveryKey(q, turn) == <<q, turn>>

HasOutcome(c) == c.ends # <<>>
Shown(c) == IF c.gone THEN 0 ELSE c.open    \* the open turn a view shows
Latest(c) == Len(c.questions)
Outstanding(c) == IF Latest(c) # 0 /\ Latest(c) \notin c.answered THEN Latest(c) ELSE 0
InitialStarted(c) == \E t \in DOMAIN c.turns : c.turns[t].origin = "task"

(* Where a task stands.                                                      *)
EndOfUnasked(c) ==
    IF ~c.exists THEN "cancelled"
    ELSE IF HasOutcome(c) THEN c.ends[1]
    ELSE IF Outstanding(c) # 0 THEN "waiting"
    ELSE IF Shown(c) # 0 THEN "running"
    ELSE IF c.waiting # {} \/ ~InitialStarted(c) THEN "pending"
    ELSE "interrupted"
EndOf(c) ==
    IF ~c.exists THEN "cancelled"
    ELSE IF HasOutcome(c) THEN c.ends[1]
    ELSE IF Outstanding(c) # 0 THEN "waiting"
    ELSE IF Shown(c) # 0 THEN "running"
    ELSE IF Latest(c) # 0 \/ c.waiting # {} \/ ~InitialStarted(c) THEN "pending"
    ELSE "interrupted"

IsActiveWorking(status) == status \in {"pending", "running"}
IsActive(status) == status \in {"pending", "running", "waiting"}
IsFinishedWork(status) == status \in Outcomes \ {"interrupted"}
IsFinished(status) == status \in Outcomes

Returns(c, reason) ==
    IF reason \in {"partial", "failed", "interrupted"} /\ c.turns[c.open].input # NoInput
    THEN {c.turns[c.open].input} ELSE {}
Closed(c, reason) ==
    [c EXCEPT !.turns[c.open].ended = reason, !.open = 0, !.gone = FALSE, !.waiting = @ \cup Returns(c, reason)]
Reaped(c) == IF c.open # 0 /\ c.gone THEN Closed(c, "interrupted") ELSE c
Opened(c, origin, input, key) ==
    [c EXCEPT !.turns = Append(@, Turn(origin, input, key)), !.open = Len(c.turns) + 1, !.waiting = @ \ {input}]
KeyUsed(c, key) == \E t \in DOMAIN c.turns : c.turns[t].key = key

(* An outcome is recorded unless there is one.                               *)
Outcome(c, status) == IF HasOutcome(c) THEN c ELSE [c EXCEPT !.ends = Append(@, status)]

(* Enqueueing an input under its id, or finding the inbox full.              *)
Enqueued(c, input) ==
    LET r == Reaped(c)
    IN IF input \in r.queued \/ Cardinality(r.waiting) >= MaxPending THEN r
       ELSE [r EXCEPT !.queued = @ \cup {input}, !.waiting = @ \cup {input}]

-----------------------------------------------------------------------------
(* Fibers.                                                                   *)

Idle == [op |-> "none", step |-> "idle", task |-> CHOOSE t \in Task : TRUE,
         turn |-> 0, open |-> 0, saw |-> FALSE, result |-> "none"]

Go(f, rec) == fiber' = [fiber EXCEPT ![f] = rec]
Step(f, step) == Go(f, [fiber[f] EXCEPT !.step = step])
Done(f) == Go(f, Idle)
Mine(f) == child[fiber[f].task]
SetChild(t, c) == child' = [child EXCEPT ![t] = c]
OnlyFiber == UNCHANGED <<parent, child, handed, calls, cuts, worked>>

(* Whether the fiber's turn is still open: else its writes are refused.      *)
HoldsTurn(f) == Mine(f).open = fiber[f].turn /\ ~Mine(f).gone

(* A start-up repair runs before anything else does.                         *)
Repairing == \E f \in Fiber : fiber[f].op = "recover"
(* Fibers are alike: whoever starts takes the first free one.                *)
Free(f) == ~Repairing /\ fiber[f] = Idle /\ f = CHOOSE g \in Fiber : fiber[g] = Idle
(* What a fiber does next, of a call or a piece of work on task t.           *)
At(f, op, step) == fiber[f].op = op /\ fiber[f].step = step
Does(f, op, step, t) == Go(f, [Idle EXCEPT !.op = op, !.step = step, !.task = t])
HostCalls(f) == Free(f) /\ calls < MaxCalls /\ calls' = calls + 1

Init ==
    /\ started = {} /\ noted = {} /\ handed = {}
    /\ child = [t \in Task |-> Absent]
    /\ told = [t \in Task |-> "none"]
    /\ asked = [t \in Task |-> {}]
    /\ unread = 0 /\ calls = 0 /\ cuts = 0
    /\ fiber = [f \in Fiber |-> Idle]
    /\ worked = [t \in Task |-> {}]

-----------------------------------------------------------------------------
(* start: the record is stored, then the child is created; a retry creates   *)
(* the child a start that stopped between the two left without one.          *)

Active == {t \in started : IsActive(EndOf(child[t]))}

CallStart(f, t) ==
    /\ HostCalls(f)
    /\ \/ t \in started \/ Cardinality(Active) < MaxRunning
    /\ Go(f, [Idle EXCEPT !.op = "start", !.step = "recorded", !.task = t, !.saw = t \notin started])
    /\ started' = started \cup {t}
    /\ UNCHANGED <<noted, child, told, asked, unread, handed, cuts, worked>>

StartForks(f) ==
    LET t == fiber[f].task
        created == ~child[t].exists
    IN /\ At(f, "start", "recorded")
       /\ SetChild(t, [child[t] EXCEPT !.exists = TRUE])
       /\ handed' = IF fiber[f].saw \/ created THEN handed \cup {t} ELSE handed
       /\ Done(f)
       /\ UNCHANGED <<parent, calls, cuts, worked>>

-----------------------------------------------------------------------------
(* The work of a task: its initial turn, if none began, then its settling.   *)

RunWork(f, t) ==
    /\ Free(f) /\ t \in handed
    /\ handed' = handed \ {t}
    /\ Does(f, "work", IF EndOf(child[t]) = "pending" /\ ~InitialStarted(child[t]) THEN "begin" ELSE "settle", t)
    /\ UNCHANGED <<parent, child, calls, cuts, worked>>

(* The child's turn is begun under the task's key: once.                     *)
InitialBegunHere(c) == c.open # 0 /\ c.turns[c.open].key = InitialKey
InitialBegun(c) == KeyUsed(c, InitialKey)

WorkBegins(f) ==
    LET c == Reaped(Mine(f))
    IN /\ At(f, "work", "begin")
       /\ IF c.open # 0 \/ InitialBegun(c)
          THEN /\ Step(f, "settle")
               /\ UNCHANGED child
          ELSE /\ SetChild(fiber[f].task, Opened(c, "task", NoInput, InitialKey))
               /\ Go(f, [fiber[f] EXCEPT !.step = "begun", !.turn = Len(c.turns) + 1])
       /\ UNCHANGED <<parent, handed, calls, cuts, worked>>

(* The host does not admit the turn: the task fails, by a commit of its own. *)
WorkRefused(f) ==
    /\ At(f, "work", "begin") /\ Mine(f).open = 0 /\ ~InitialBegun(Mine(f))
    /\ Step(f, "refused")
    /\ OnlyFiber

RecordEnd(f) ==
    /\ At(f, "work", "refused")
    /\ SetChild(fiber[f].task, Outcome(Mine(f), "failed"))
    /\ Step(f, "settle")
    /\ UNCHANGED <<parent, handed, calls, cuts, worked>>

-----------------------------------------------------------------------------
(* A turn of the child, begun by the work, by a drainer for a queued input   *)
(* or by a start-up repair, and executed on its writer.                      *)

(* A drainer begins the follow-up of a waiting input.                        *)
FailedRuns(c, input) == Cardinality({t \in DOMAIN c.turns : c.turns[t].input = input /\ c.turns[t].ended \in {"failed", "partial"}})
FollowUp(f, t) ==
    LET c == Reaped(child[t])
    IN /\ Free(f) /\ c.open = 0
       /\ \E input \in c.waiting :
            /\ FailedRuns(c, input) < DrainAttempts
            /\ SetChild(t, Opened(c, "user", input, FollowUpKey(Len(c.turns) + 1)))
       /\ Go(f, [Idle EXCEPT !.op = "followup", !.step = "begun", !.task = t, !.turn = Len(c.turns) + 1])
       /\ UNCHANGED <<parent, handed, calls, cuts, worked>>

(* What the child's records say of the turn: it asked, or a question before  *)
(* it with the same input did.                                               *)
AskedBy(c, turn) ==
    \E q \in DOMAIN c.questions : \/ c.questions[q].turn = turn
                                  \/ c.questions[q].input # NoInput /\ c.questions[q].input = c.turns[turn].input
EligibleAnswered(c, turn) == Latest(c) = 0 \/ Latest(c) \in c.answered
Eligible(c, turn) == Latest(c) = 0 \/ (Latest(c) \in c.answered /\ c.turns[turn].input = Latest(c))

(* execute: finished tasks, turns of others' bookkeeping and turns that may  *)
(* not run the helper end without the executor.                              *)
Verdict(f) ==
    LET c == Mine(f)
        turn == fiber[f].turn
    IN IF HasOutcome(c) THEN IF fiber[f].op = "work" /\ c.ends[1] = "cancelled" THEN "cancelled" ELSE "completed"
       ELSE IF c.turns[turn].origin # "task" /\ ~InitialStarted(c) THEN "waiting"
       ELSE IF AskedBy(c, turn) \/ ~Eligible(c, turn) THEN "waiting"
       ELSE "run"

Execute(f) ==
    /\ fiber[f].step = "begun"
    /\ IF Verdict(f) = "run"
       THEN /\ Step(f, "running")
            /\ worked' = [worked EXCEPT ![fiber[f].task] = @ \cup {fiber[f].turn}]
       ELSE /\ Go(f, [fiber[f] EXCEPT !.step = IF fiber[f].op = "work" /\ Verdict(f) = "completed" THEN "result" ELSE "end",
                                      !.result = Verdict(f)])
            /\ UNCHANGED worked
    /\ UNCHANGED <<parent, child, handed, calls, cuts>>

(* The helper asks its parent; the question is stored, then delivered if it  *)
(* is still the outstanding one.                                             *)
Ask(f) ==
    LET c == Mine(f)
        turn == fiber[f].turn
    IN /\ fiber[f].step = "running" /\ Shown(c) = turn
       /\ Latest(c) < MaxQuestions /\ ~HasOutcome(c) /\ Outstanding(c) = 0
       /\ \A q \in DOMAIN c.questions : c.questions[q].turn # turn
       /\ SetChild(fiber[f].task, [c EXCEPT !.questions = Append(@, [turn |-> turn, input |-> c.turns[turn].input])])
       /\ Step(f, "asking")
       /\ UNCHANGED <<parent, handed, calls, cuts, worked>>

SendQuestion(t) ==
    LET q == Outstanding(child[t])
    IN IF HasOutcome(child[t]) \/ q = 0 \/ q \in asked[t] \/ unread >= MaxPending
       THEN UNCHANGED <<asked, unread>>
       ELSE asked' = [asked EXCEPT ![t] = @ \cup {q}] /\ unread' = unread + 1

AskSends(f) ==
    /\ fiber[f].step = "asking"
    /\ SendQuestion(fiber[f].task)
    /\ Step(f, "running")
    /\ UNCHANGED <<started, noted, told, child, handed, calls, cuts, worked>>

(* A running turn takes the steer that waits.                                *)
TakeSteer(f) ==
    /\ fiber[f].step = "running" /\ HoldsTurn(f) /\ Steer \in Mine(f).waiting
    /\ SetChild(fiber[f].task, [Mine(f) EXCEPT !.waiting = @ \ {Steer}])
    /\ UNCHANGED <<parent, fiber, handed, calls, cuts, worked>>

(* The executor returns.  A question asked overrides a reply; a follow-up    *)
(* that did not complete keeps its input and records nothing.                *)
Returned(f, ending) ==
    IF ending # "failed" /\ AskedBy(Mine(f), fiber[f].turn) THEN "waiting" ELSE ending
ExecutorReturns(f, ending) ==
    LET result == Returned(f, ending)
    IN /\ fiber[f].step = "running"
       /\ IF ending = "failed" THEN cuts < MaxCuts /\ cuts' = cuts + 1 ELSE UNCHANGED cuts
       /\ Go(f, [fiber[f] EXCEPT !.result = result,
                   !.step = IF result # "waiting" /\ (fiber[f].op = "work" \/ result = "completed") THEN "result" ELSE "end"])
       /\ UNCHANGED <<parent, child, handed, calls, worked>>

(* The runner's deadline cuts the work's turn wherever it is, its recording  *)
(* of a result included; what is left is to record that it was interrupted.  *)
Cuttable(f) ==
    \/ fiber[f].step \in {"running", "asking"}
    \/ fiber[f].step \in {"result", "record"} /\ fiber[f].result # "interrupted"
    \/ fiber[f].step = "begun" /\ Verdict(f) # "cancelled"
DeadlinePasses(f) ==
    /\ fiber[f].op = "work" /\ Cuttable(f)
    /\ Go(f, [fiber[f] EXCEPT !.step = "result", !.result = "interrupted"])
    /\ OnlyFiber

(* recordResult: the records read before it, and those of others its commit  *)
(* is decided over, hold no outcome.                                         *)
ReadOutcome(f) ==
    /\ fiber[f].step = "result"
    /\ Go(f, [fiber[f] EXCEPT !.step = "record", !.saw = HasOutcome(Mine(f))])
    /\ OnlyFiber

RecordedBlind(f) == IF fiber[f].saw THEN Mine(f) ELSE [Mine(f) EXCEPT !.ends = Append(@, fiber[f].result)]
Recorded(f) == IF fiber[f].saw THEN Mine(f) ELSE Outcome(Mine(f), fiber[f].result)

(* What a fiber does once its turn is over.                                  *)
LeavesTurn(f) ==
    Go(f, [Idle EXCEPT !.op = fiber[f].op, !.task = fiber[f].task,
             !.step = CASE fiber[f].op = "work" -> "settle" [] fiber[f].op = "followup" -> "told" [] OTHER -> "stop"])

Record(f) ==
    /\ fiber[f].step = "record"
    /\ IF HoldsTurn(f)
       THEN SetChild(fiber[f].task, Recorded(f)) /\ Go(f, [fiber[f] EXCEPT !.step = "end", !.saw = FALSE])
       ELSE LeavesTurn(f) /\ UNCHANGED child
    /\ UNCHANGED <<parent, handed, calls, cuts, worked>>

EndTurn(f) ==
    /\ fiber[f].step = "end"
    /\ IF HoldsTurn(f) THEN SetChild(fiber[f].task, Closed(Mine(f), fiber[f].result)) ELSE UNCHANGED child
    /\ LeavesTurn(f)
    /\ UNCHANGED <<parent, handed, calls, cuts, worked>>

-----------------------------------------------------------------------------
(* settle and reconcile: the task's status is read, then its notice, or its  *)
(* question and its answers, are delivered; a task that never began is run.  *)

Delivers(f, op, t) ==
    LET status == EndOf(child[t])
    IN IF IsFinished(status) /\ told[t] = "none"
       THEN Go(f, [Idle EXCEPT !.op = op, !.step = "notice", !.task = t, !.result = status])
       ELSE IF IsActive(status) THEN Does(f, op, "controls", t)
       ELSE Done(f)

(* Bound: a host asks for one reconcile at a time, beside those that follow  *)
(* a turn.                                                                   *)
Reconcile(f, t) ==
    /\ Free(f) /\ t \in started
    /\ \A g \in Fiber : fiber[g].op # "reconcile"
    /\ Delivers(f, "reconcile", t)
    /\ OnlyFiber

Settle(f) ==
    /\ fiber[f].step \in {"settle", "told"}
    /\ Delivers(f, IF fiber[f].step = "told" THEN "reconcile" ELSE "work", fiber[f].task)
    /\ OnlyFiber

DeliverNotice(f) ==
    LET t == fiber[f].task
    IN /\ fiber[f].step = "notice"
       /\ IF told[t] = "none" /\ unread < MaxPending
          THEN told' = [told EXCEPT ![t] = fiber[f].result] /\ unread' = unread + 1
          ELSE UNCHANGED <<told, unread>>
       /\ Done(f)
       /\ UNCHANGED <<started, noted, asked, child, handed, calls, cuts, worked>>

DeliverControls(f) ==
    /\ fiber[f].step = "controls"
    /\ SendQuestion(fiber[f].task)
    /\ IF HasOutcome(Mine(f)) THEN Step(f, "run")
       ELSE Step(f, "answers")
    /\ UNCHANGED <<started, noted, told, child, handed, calls, cuts, worked>>

(* The stored answers are enqueued again, in order, as far as there is room. *)
EnqueuedAll(c, answers) ==
    LET r == Reaped(c)
        missing == answers \ r.queued
        fitting == {q \in missing : Cardinality({p \in missing : p <= q}) <= MaxPending - Cardinality(r.waiting)}
    IN IF answers = {} THEN c ELSE [r EXCEPT !.queued = @ \cup fitting, !.waiting = @ \cup fitting]
ResentTaken(c) == EnqueuedAll(c, c.answered \cap c.queued)
Resent(c) == EnqueuedAll(c, c.answered)
SendAnswers(f) ==
    /\ fiber[f].step = "answers"
    /\ SetChild(fiber[f].task, Resent(Mine(f)))
    /\ Step(f, "run")
    /\ UNCHANGED <<parent, handed, calls, cuts, worked>>

RunPending(f) ==
    LET t == fiber[f].task
    IN /\ fiber[f].step = "run"
       /\ handed' = IF fiber[f].op = "reconcile" /\ EndOf(child[t]) = "pending" /\ ~InitialStarted(child[t])
                    THEN handed \cup {t} ELSE handed
       /\ Done(f)
       /\ UNCHANGED <<parent, child, calls, cuts, worked>>

(* At start-up, an asking turn that a dead process left is ended waiting by  *)
(* a turn that takes it over; keyed by the turn it repairs.                  *)
Recoverable(c) ==
    /\ Outstanding(c) # 0 /\ ~HasOutcome(c)
    /\ c.turns # <<>> /\ Last(c.turns).ended # "waiting"
    /\ ~KeyUsed(c, RecoveryKey(Latest(c), Len(c.turns)))

Recover(f, t) ==
    LET c == child[t]
        closed == IF c.open # 0 THEN Closed(c, "interrupted") ELSE c
    IN /\ \A g \in Fiber : fiber[g] = Idle
       /\ handed = {} /\ Recoverable(c)
       /\ SetChild(t, Opened(closed, "task", NoInput, RecoveryKey(Latest(c), Len(c.turns))))
       /\ Go(f, [Idle EXCEPT !.op = "recover", !.step = "begun", !.task = t, !.turn = Len(c.turns) + 1])
       /\ UNCHANGED <<parent, handed, calls, cuts, worked>>

Stop(f) ==
    /\ At(f, "recover", "stop")
    /\ Done(f)
    /\ OnlyFiber

-----------------------------------------------------------------------------
(* cancel: the child's record, the child's turn, the parent's record.        *)

CallCancel(f, t) ==
    /\ HostCalls(f) /\ IsActive(EndOf(child[t]))
    /\ t \in started
    /\ Go(f, [Idle EXCEPT !.op = "cancel", !.step = "child", !.task = t, !.open = Shown(child[t])])
    /\ UNCHANGED <<parent, child, handed, cuts, worked>>

CancelledEarly(f) == fiber[f].open
CancelledTurn(f) == Shown(Mine(f))
CancelChild(f) ==
    /\ At(f, "cancel", "child")
    /\ IF IsActive(EndOf(Mine(f)))
       THEN /\ SetChild(fiber[f].task, Outcome(Mine(f), "cancelled"))
            /\ Go(f, [fiber[f] EXCEPT !.step = "turn", !.open = CancelledTurn(f)])
       ELSE Done(f) /\ UNCHANGED child
    /\ UNCHANGED <<parent, handed, calls, cuts, worked>>

CancelTurn(f) ==
    /\ At(f, "cancel", "turn")
    /\ IF fiber[f].open # 0 /\ Shown(Mine(f)) = fiber[f].open
       THEN SetChild(fiber[f].task, Closed(Mine(f), "cancelled")) ELSE UNCHANGED child
    /\ Step(f, "parent")
    /\ UNCHANGED <<parent, handed, calls, cuts, worked>>

CancelParent(f) ==
    /\ At(f, "cancel", "parent")
    /\ noted' = noted \cup {fiber[f].task}
    /\ Done(f)
    /\ UNCHANGED <<started, told, asked, unread, child, handed, calls, cuts, worked>>

-----------------------------------------------------------------------------
(* answer: stored in the child, then enqueued; a repeat enqueues it again.   *)

Accepts(c, q) == ~HasOutcome(c) /\ (q \in c.answered \/ Outstanding(c) = q)
CallAnswer(f, t, q) ==
    /\ Free(f) /\ Accepts(child[t], q)
    /\ SetChild(t, [child[t] EXCEPT !.answered = @ \cup {q}])
    /\ Go(f, [Idle EXCEPT !.op = "answer", !.step = "send", !.task = t, !.turn = q])
    /\ UNCHANGED <<parent, handed, calls, cuts, worked>>

AnswerSends(f) ==
    /\ At(f, "answer", "send")
    /\ SetChild(fiber[f].task, Enqueued(Mine(f), fiber[f].turn))
    /\ Done(f)
    /\ UNCHANGED <<parent, handed, calls, cuts, worked>>

-----------------------------------------------------------------------------
(* steer: the status is read, then the steer is enqueued.                    *)

CallSteer(f, t) ==
    /\ MaxSteers = 1 /\ HostCalls(f) /\ t \in started
    /\ EndOf(child[t]) \in {"pending", "running"}
    /\ Does(f, "steer", "send", t)
    /\ UNCHANGED <<parent, child, handed, cuts, worked>>

SteerSends(f) ==
    /\ At(f, "steer", "send")
    /\ SetChild(fiber[f].task, Enqueued(Mine(f), Steer))
    /\ Done(f)
    /\ UNCHANGED <<parent, handed, calls, cuts, worked>>

-----------------------------------------------------------------------------
(* The parent's own turns, and what goes wrong.                              *)

ParentReads ==
    /\ unread > 0
    /\ unread' = 0
    /\ UNCHANGED <<started, noted, told, asked, child, handed, fiber, calls, cuts, worked>>

(* A fiber stops for good: its process died, it was interrupted, or its      *)
(* store failed.  Its turn is closed by its scope, or nobody holds it.       *)
HasTurn(f) == fiber[f].op \in {"work", "followup", "recover"} /\ fiber[f].turn # 0 /\ HoldsTurn(f)
Cut(f) ==
    /\ fiber[f] # Idle /\ cuts < MaxCuts /\ cuts' = cuts + 1
    /\ IF HasTurn(f)
       THEN \/ SetChild(fiber[f].task, Closed(Mine(f), "interrupted"))
            \/ SetChild(fiber[f].task, [Mine(f) EXCEPT !.gone = TRUE])
       ELSE UNCHANGED child
    /\ Done(f)
    /\ UNCHANGED <<parent, handed, calls, worked>>

LoseWork(t) ==
    /\ t \in handed /\ cuts < MaxCuts /\ cuts' = cuts + 1
    /\ handed' = handed \ {t}
    /\ UNCHANGED <<parent, child, fiber, calls, worked>>

-----------------------------------------------------------------------------
Hosts ==
    \E f \in Fiber, t \in Task :
      \/ CallStart(f, t) \/ CallCancel(f, t) \/ CallSteer(f, t)
      \/ \E q \in 1..MaxQuestions : CallAnswer(f, t, q)

Begins(t) == \E f \in Fiber : RunWork(f, t)
Follows(t) == \E f \in Fiber : FollowUp(f, t)
Reconciles(t) == \E f \in Fiber : Reconcile(f, t)

Steps(f) ==
    \/ StartForks(f) \/ WorkBegins(f) \/ RecordEnd(f)
    \/ Execute(f) \/ AskSends(f) \/ ReadOutcome(f) \/ Record(f) \/ EndTurn(f)
    \/ \E ending \in Endings : ExecutorReturns(f, ending)
    \/ Settle(f) \/ DeliverNotice(f) \/ DeliverControls(f) \/ SendAnswers(f) \/ RunPending(f) \/ Stop(f)
    \/ CancelChild(f) \/ CancelTurn(f) \/ CancelParent(f)
    \/ AnswerSends(f) \/ SteerSends(f)

Chances ==
    \/ \E f \in Fiber : Ask(f) \/ TakeSteer(f) \/ WorkRefused(f) \/ DeadlinePasses(f) \/ Cut(f) \/ \E t \in Task : Recover(f, t)
    \/ \E t \in Task : LoseWork(t)

Next ==
    \/ Hosts \/ Chances \/ ParentReads
    \/ \E f \in Fiber : Steps(f)
    \/ \E t \in Task : Begins(t) \/ Follows(t) \/ Reconciles(t)

Spec == Init /\ [][Next]_vars

(* Calls and work go on; runners run what they were handed; the parent's     *)
(* inbox is drained; hosts reconcile, and drainers follow up, again and      *)
(* again.                                                                    *)
Fairness ==
    /\ \A f \in Fiber : WF_vars(Steps(f))
    /\ WF_vars(ParentReads)
    /\ \A t \in Task : SF_vars(Begins(t)) /\ SF_vars(Follows(t)) /\ SF_vars(Reconciles(t))

FairSpec == Spec /\ Fairness
=============================================================================
