-------------------------- MODULE TasksProperties --------------------------
(***************************************************************************)
(* What background tasks promise, over the calls and the background work   *)
(* of module Tasks: one outcome, told to the parent as it is; no work      *)
(* twice, none after a cancel; and, as long as hosts reconcile, outcomes,  *)
(* questions and answers that arrive.                                      *)
(***************************************************************************)
EXTENDS Tasks

-----------------------------------------------------------------------------
(* A task has one outcome, whoever decides it: its executor, its refusal,    *)
(* its deadline, a follow-up, or a cancel that reads and commits beside them *)
(* (recordResult, recordEnd, cancel).                                        *)
OneOutcome == \A t \in Task : Len(child[t].ends) <= 1

(* The initial work of a task is done once, however often its start is       *)
(* retried, reconciled, or handed over again after its process was lost      *)
(* (runChild's key).                                                         *)
InitialWorkRunsOnce ==
    \A t \in Task : Cardinality({n \in worked[t] : child[t].turns[n].key = InitialKey}) <= 1

(* What the parent is told is how the task ended: it is not told that a task *)
(* ended that still goes on, waits for an answer or was accepted one, nor    *)
(* another ending than the one recorded (endOf, deliverNotice).  A task      *)
(* whose turn was lost is told interrupted, with two exceptions: a steer     *)
(* that came back from the lost turn may yet run it, and a fiber whose begin *)
(* of it was refused may yet record that it failed (recordEnd).              *)
NoticeTellsTheOutcome ==
    \A t \in Task : told[t] # "none" =>
      \/ told[t] = EndOf(child[t])
      \/ told[t] = "interrupted" /\ (Steer \in child[t].queued \/ child[t].ends = <<"failed">>)

(* A cancelled task is over: once a cancel has answered, nothing of the task *)
(* runs, neither the turn open when it was asked nor one begun while it was  *)
(* (cancel, and execute's first reads).                                      *)
CancelledMeansStopped ==
    \A t \in noted :
      /\ child[t].ends = <<"cancelled">>
      /\ Shown(child[t]) \notin worked[t]

(* Once a question is asked, the task goes on with its answer and nothing    *)
(* else: no retry of the work that asked, no steer queued before it, works   *)
(* beside or ahead of the answer, whoever begins the turn (execute's         *)
(* eligibility, askedByWriter).                                              *)
WorkGoesOnWithTheAnswer ==
    \A t \in Task : \A q \in DOMAIN child[t].questions : \A n \in worked[t] :
      n > child[t].questions[q].turn =>
        child[t].turns[n].input >= q /\ child[t].turns[n].input \in child[t].answered

-----------------------------------------------------------------------------
(* The parent is told of every task that finished, though its inbox is full, *)
(* its notifier stops, or the task's process is lost (settle, reconcile).    *)
OutcomesAreTold == \A t \in Task : EndOf(child[t]) \in Outcomes ~> (told[t] # "none" \/ IsActive(EndOf(child[t])))

(* A question that stays outstanding reaches the parent (ask, deliverControls). *)
QuestionsReachTheParent ==
    \A t \in Task : \A q \in 1..MaxQuestions :
      (Outstanding(child[t]) = q /\ ~HasOutcome(child[t])) ~> (q \in asked[t] \/ HasOutcome(child[t]) \/ Outstanding(child[t]) # q)

(* An accepted answer continues the task: a turn works on it, unless the     *)
(* task ends first, or the child's inbox is full of inputs the drainer has   *)
(* parked (answer stores it and then enqueues it; deliverControls).          *)
FullOfParked(c) ==
    Cardinality({input \in c.waiting : FailedRuns(c, input) >= DrainAttempts}) >= MaxPending
AnswersContinueTheTask ==
    \A t \in Task : \A q \in 1..MaxQuestions :
      (q \in child[t].answered) ~> (\/ HasOutcome(child[t]) \/ FullOfParked(child[t])
                                 \/ \E n \in worked[t] : child[t].turns[n].input = q)
=============================================================================
