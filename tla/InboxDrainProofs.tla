-------------------------- MODULE InboxDrainProofs --------------------------
(***************************************************************************)
(* The inbox drainer, for any number of sessions, workers and processes    *)
(* and any bounds: who works on what, and why a drainer may decide by the  *)
(* journal it read, whatever the scans find, hosts do beside it and fails. *)
(*                                                                         *)
(* Jobs: a worker leaves idleness only by claiming a job that is not       *)
(* Running, which makes it Running, and returns only by finishing it,      *)
(* which makes it another; a scan never touches a Running job and never    *)
(* makes one.                                                              *)
(*                                                                         *)
(* The journal: a session goes from commit to commit, each of which keeps  *)
(* SessionInvariant: the head and the fold of its journal agree on the     *)
(* turns and the inbox, and what waits was not answered.  Whatever the     *)
(* step, a session only goes on (Goes): ended turns stay as they are, no   *)
(* turn comes to be held here but a begun one, and only the turn that a    *)
(* begin names is taken over.  A takeover's name was handed on from the    *)
(* scan that sighted it, and this process, which did not hold that turn    *)
(* when the name was granted, does not come to hold it.                    *)
(*                                                                         *)
(* Failures: a drained turn that is held is run by the worker that began   *)
(* it, so nothing but that run makes it fail (Quietly); the worker         *)
(* selected it while one more of its runs might fail, and no other worker  *)
(* is at that session in between.                                          *)
(***************************************************************************)
EXTENDS InboxDrainProperties, FiniteSetTheorems, WellFoundedInduction, TLAPS

Working(w) == worker[w].step # "idle"
IsRunning(x) == jobs[x].tag = "Running"

(* A worker that is not idle runs the Running job of its session, alone, and *)
(* a Running job has a worker.                                               *)
WorkersHaveJobs ==
    /\ \A w \in Worker : Working(w) => worker[w].at \in Session /\ IsRunning(worker[w].at)
    /\ \A v, w \in Worker : Working(v) /\ Working(w) /\ worker[v].at = worker[w].at => v = w
    /\ \A x \in Session : IsRunning(x) => \E w \in Worker : Working(w) /\ worker[w].at = x

(* The worker's record, of which only the step and the session matter here.  *)
WorkerShape(rec) == DOMAIN rec = {"step", "at", "job", "open", "over", "target", "turn", "result"}
DrainInvariant ==
    /\ worker = [w \in Worker |-> worker[w]]
    /\ jobs = [x \in Session |-> jobs[x]]
    /\ \A w \in Worker : WorkerShape(worker[w])
    /\ WorkersHaveJobs

-----------------------------------------------------------------------------
(* A step of a worker within its attempt.                                    *)
LEMMA AttemptGoesOn ==
    ASSUME DrainInvariant, jobs' = jobs, NEW w \in Worker, Working(w),
           NEW rec, WorkerShape(rec), rec.step # "idle", rec.at = worker[w].at, Step(w, rec)
    PROVE  DrainInvariant'
  <1>1. /\ worker' = [v \in Worker |-> worker'[v]] /\ worker'[w] = rec
        /\ \A v \in Worker : v # w => worker'[v] = worker[v]
    BY DEF DrainInvariant, Step
  <1>2. \A v \in Worker : WorkerShape(worker'[v]) /\ (worker'[v].step # "idle" <=> Working(v)) /\ worker'[v].at = worker[v].at
    BY <1>1 DEF DrainInvariant, Working
  <1>3. WorkersHaveJobs'
    BY <1>2 DEF DrainInvariant, WorkersHaveJobs, Working, IsRunning
  <1> QED BY <1>1, <1>2, <1>3 DEF DrainInvariant

(* A step that leaves the workers alone and neither makes nor ends a Running *)
(* job.                                                                      *)
LEMMA JobsStay ==
    ASSUME DrainInvariant, worker' = worker, jobs' = [x \in Session |-> jobs'[x]],
           \A x \in Session : jobs'[x].tag = "Running" <=> IsRunning(x)
    PROVE  DrainInvariant'
  <1>1. WorkersHaveJobs'
    BY DEF DrainInvariant, WorkersHaveJobs, Working, IsRunning
  <1> QED BY <1>1 DEF DrainInvariant

LEMMA NothingChanges ==
    ASSUME DrainInvariant, worker' = worker, jobs' = jobs PROVE DrainInvariant'
  BY JobsStay DEF DrainInvariant, IsRunning

LEMMA ResultGoesOn ==
    ASSUME DrainInvariant, jobs' = jobs, NEW w \in Worker, Working(w), NEW result, NEW target, Result(w, result, target)
    PROVE  DrainInvariant'
  <1> DEFINE rec == [worker[w] EXCEPT !.step = "finish", !.result = result, !.target = target, !.open = 0, !.over = 0, !.turn = 0]
  <1>1. WorkerShape(worker[w])
    BY DEF DrainInvariant
  <1>2. WorkerShape(rec) /\ rec.step = "finish" /\ rec.at = worker[w].at
    BY <1>1 DEF WorkerShape
  <1>3. Step(w, rec)
    BY DEF Result
  <1> HIDE DEF rec
  <1> QED BY <1>2, <1>3, AttemptGoesOn

LEMMA IdleShape == WorkerShape(IdleWorker) /\ IdleWorker.step = "idle"
  BY DEF IdleWorker, WorkerShape

LEMMA JobTag == ASSUME NEW tag, NEW target, NEW failures, NEW over PROVE Job(tag, target, failures, over).tag = tag
  BY DEF Job

-----------------------------------------------------------------------------
(* Every step keeps the invariant.                                           *)

LEMMA ClaimKeeps ==
    ASSUME DrainInvariant, NEW w \in Worker, NEW x \in Session, Claim(w, x) PROVE DrainInvariant'
  <1> DEFINE open == ViewOpen(sess[x])
             job == jobs[x]
             rec == [IdleWorker EXCEPT !.step = "viewed", !.at = x, !.job = job, !.open = open]
  <1>1. Step(w, rec) /\ ~Working(w) /\ ~IsRunning(x)
    BY DEF Claim, ClaimDrain, Working, IsRunning
  <1>2. jobs' = [jobs EXCEPT ![x] = Job("Running", jobs[x].target, jobs[x].failures, 0)]
    BY DEF Claim, ClaimDrain
  <1> HIDE DEF open, job
  <1>3. WorkerShape(rec) /\ rec.step = "viewed" /\ rec.at = x
    BY IdleShape DEF WorkerShape
  <1> HIDE DEF rec
  <1>4. /\ worker' = [v \in Worker |-> worker'[v]] /\ worker'[w] = rec
        /\ \A v \in Worker : v # w => worker'[v] = worker[v]
    BY <1>1 DEF DrainInvariant, Step
  <1>5. /\ jobs' = [y \in Session |-> jobs'[y]] /\ jobs'[x].tag = "Running"
        /\ \A y \in Session : y # x => jobs'[y] = jobs[y]
    BY <1>2, JobTag DEF DrainInvariant
  <1>6. \A v \in Worker : WorkerShape(worker'[v])
    BY <1>3, <1>4 DEF DrainInvariant
  <1>7. \A v \in Worker : v # w /\ Working(v) => worker[v].at # x
    BY <1>1 DEF DrainInvariant, WorkersHaveJobs
  <1>8. WorkersHaveJobs'
    <2>1. \A v \in Worker : Working(v)' => worker'[v].at \in Session /\ jobs'[worker'[v].at].tag = "Running"
      BY <1>3, <1>4, <1>5 DEF DrainInvariant, WorkersHaveJobs, Working, IsRunning
    <2>2. \A u, v \in Worker : Working(u)' /\ Working(v)' /\ worker'[u].at = worker'[v].at => u = v
      <3> SUFFICES ASSUME NEW u \in Worker, NEW v \in Worker, worker'[u].step # "idle", worker'[v].step # "idle",
                          worker'[u].at = worker'[v].at
                   PROVE  u = v
        BY DEF Working
      <3>1. CASE u = w
        BY <3>1, <1>3, <1>4, <1>7 DEF Working
      <3>2. CASE v = w
        BY <3>2, <1>3, <1>4, <1>7 DEF Working
      <3>3. CASE u # w /\ v # w
        BY <3>3, <1>4 DEF DrainInvariant, WorkersHaveJobs, Working
      <3> QED BY <3>1, <3>2, <3>3
    <2>3. \A y \in Session : jobs'[y].tag = "Running" => \E v \in Worker : worker'[v].step # "idle" /\ worker'[v].at = y
      <3> SUFFICES ASSUME NEW y \in Session, jobs'[y].tag = "Running" PROVE \E v \in Worker : worker'[v].step # "idle" /\ worker'[v].at = y
        OBVIOUS
      <3>1. CASE y = x
        BY <3>1, <1>3, <1>4
      <3>2. CASE y # x
        <4>1. PICK v \in Worker : Working(v) /\ worker[v].at = y
          BY <3>2, <1>5 DEF DrainInvariant, WorkersHaveJobs, IsRunning
        <4> QED BY <4>1, <1>1, <1>4 DEF Working
      <3> QED BY <3>1, <3>2
    <2> QED BY <2>1, <2>2, <2>3 DEF WorkersHaveJobs, Working, IsRunning
  <1> QED BY <1>4, <1>5, <1>6, <1>8 DEF DrainInvariant

LEMMA FinishKeeps ==
    ASSUME DrainInvariant, NEW w \in Worker, Finish(w) PROVE DrainInvariant'
  <1> DEFINE x == worker[w].at
  <1>1. Step(w, IdleWorker) /\ Working(w) /\ FinishDrain(x, worker[w].job, worker[w].result, worker[w].target)
    BY DEF Finish, Working
  <1>2. x \in Session
    BY <1>1 DEF DrainInvariant, WorkersHaveJobs
  <1>3. PICK job : jobs' = [jobs EXCEPT ![x] = job] /\ job.tag # "Running"
    BY <1>1, JobTag DEF FinishDrain, NoJob
  <1> HIDE DEF x
  <1>4. /\ worker' = [v \in Worker |-> worker'[v]] /\ worker'[w] = IdleWorker
        /\ \A v \in Worker : v # w => worker'[v] = worker[v]
    BY <1>1 DEF DrainInvariant, Step
  <1>5. /\ jobs' = [y \in Session |-> jobs'[y]] /\ jobs'[x].tag # "Running"
        /\ \A y \in Session : y # x => jobs'[y] = jobs[y]
    BY <1>2, <1>3 DEF DrainInvariant
  <1>6. \A v \in Worker : WorkerShape(worker'[v])
    BY <1>4, IdleShape DEF DrainInvariant
  <1>7. \A v \in Worker : v # w /\ Working(v) => worker[v].at # x
    BY <1>1 DEF DrainInvariant, WorkersHaveJobs, x
  <1>a. \A v \in Worker : worker'[v].step # "idle" <=> (v # w /\ Working(v))
    BY <1>4, IdleShape DEF Working
  <1>8. WorkersHaveJobs'
    <2>1. \A v \in Worker : worker'[v].step # "idle" => worker'[v].at \in Session /\ jobs'[worker'[v].at].tag = "Running"
      BY <1>4, <1>5, <1>7, <1>a DEF DrainInvariant, WorkersHaveJobs, IsRunning
    <2>2. \A u, v \in Worker : worker'[u].step # "idle" /\ worker'[v].step # "idle" /\ worker'[u].at = worker'[v].at => u = v
      BY <1>4, <1>a DEF DrainInvariant, WorkersHaveJobs
    <2>3. \A y \in Session : jobs'[y].tag = "Running" => \E v \in Worker : worker'[v].step # "idle" /\ worker'[v].at = y
      <3> SUFFICES ASSUME NEW y \in Session, jobs'[y].tag = "Running" PROVE \E v \in Worker : worker'[v].step # "idle" /\ worker'[v].at = y
        OBVIOUS
      <3>1. y # x
        BY <1>5
      <3>2. PICK v \in Worker : Working(v) /\ worker[v].at = y
        BY <3>1, <1>5 DEF DrainInvariant, WorkersHaveJobs, IsRunning
      <3>3. v # w
        BY <3>1, <3>2 DEF x
      <3> QED BY <3>2, <3>3, <1>4, <1>a
    <2> QED BY <2>1, <2>2, <2>3 DEF WorkersHaveJobs, Working, IsRunning
  <1> QED BY <1>4, <1>5, <1>6, <1>8 DEF DrainInvariant

LEMMA WorksKeep ==
    ASSUME DrainInvariant, NEW w \in Worker,
           Select(w) \/ Begin(w) \/ AttemptFails(w) \/ \E reason \in Reason : End(w, reason) \/ EndLost(w, reason)
    PROVE  DrainInvariant'
  <1>s. WorkerShape(worker[w])
    BY DEF DrainInvariant
  <1>1. CASE Select(w)
    <2>1. jobs' = jobs /\ Working(w)
      BY <1>1 DEF Select, Working
    <2>2. (\E result, target : Result(w, result, target))
          \/ \E over, target : Step(w, [worker[w] EXCEPT !.step = "selected", !.over = over, !.target = target, !.open = 0])
      BY <1>1 DEF Select
    <2>3. ASSUME NEW over, NEW target, Step(w, [worker[w] EXCEPT !.step = "selected", !.over = over, !.target = target, !.open = 0])
          PROVE  DrainInvariant'
      <3> DEFINE rec == [worker[w] EXCEPT !.step = "selected", !.over = over, !.target = target, !.open = 0]
      <3>1. WorkerShape(rec) /\ rec.step = "selected" /\ rec.at = worker[w].at /\ Step(w, rec)
        BY <1>s, <2>3 DEF WorkerShape
      <3> HIDE DEF rec
      <3> QED BY <2>1, <3>1, AttemptGoesOn
    <2> QED BY <2>1, <2>2, <2>3, ResultGoesOn
  <1>2. CASE Begin(w)
    <2>1. jobs' = jobs /\ Working(w)
      BY <1>2 DEF Begin, Working
    <2>2. (\E result, target : Result(w, result, target))
          \/ \E turn : Step(w, [worker[w] EXCEPT !.step = "running", !.turn = turn, !.over = 0])
      BY <1>2 DEF Begin
    <2>3. ASSUME NEW turn, Step(w, [worker[w] EXCEPT !.step = "running", !.turn = turn, !.over = 0])
          PROVE  DrainInvariant'
      <3> DEFINE rec == [worker[w] EXCEPT !.step = "running", !.turn = turn, !.over = 0]
      <3>1. WorkerShape(rec) /\ rec.step = "running" /\ rec.at = worker[w].at /\ Step(w, rec)
        BY <1>s, <2>3 DEF WorkerShape
      <3> HIDE DEF rec
      <3> QED BY <2>1, <3>1, AttemptGoesOn
    <2> QED BY <2>1, <2>2, <2>3, ResultGoesOn
  <1>3. CASE AttemptFails(w)
    BY <1>3, ResultGoesOn DEF AttemptFails, Working
  <1>4. ASSUME NEW reason \in Reason, End(w, reason) PROVE DrainInvariant'
    BY <1>4, ResultGoesOn DEF End, AfterEnd, Working
  <1>5. ASSUME NEW reason \in Reason, EndLost(w, reason) PROVE DrainInvariant'
    BY <1>5, ResultGoesOn DEF EndLost, Working
  <1> QED BY <1>1, <1>2, <1>3, <1>4, <1>5

LEMMA ScansKeep ==
    ASSUME DrainInvariant, Scans PROVE DrainInvariant'
  <1>1. CASE ScanList \/ \E x \in Session : ScanSelect(x)
    BY <1>1, NothingChanges DEF ScanList, ScanSelect
  <1>2. CASE ScanDone
    <2>1. worker' = worker /\ jobs' = [x \in Session |-> Observed(x, scan.of[x], scan.first /\ TakeOver)]
      BY <1>2 DEF ScanDone, ObserveDrains
    <2>2. ASSUME NEW x \in Session, NEW candidate, NEW first
          PROVE  Observed(x, candidate, first).tag = "Running" <=> IsRunning(x)
      BY JobTag DEF Observed, IsRunning, NoJob
    <2>3. jobs' = [x \in Session |-> jobs'[x]] /\ \A x \in Session : jobs'[x].tag = "Running" <=> IsRunning(x)
      BY <2>1, <2>2
    <2> QED BY <2>1, <2>3, JobsStay
  <1> QED BY <1>1, <1>2 DEF Scans

LEMMA BesideKeeps ==
    ASSUME DrainInvariant, Beside PROVE DrainInvariant'
  <1>1. CASE Restart
    <2>1. \A w \in Worker : worker'[w] = IdleWorker
      BY <1>1 DEF Restart
    <2>2. \A x \in Session : jobs'[x].tag # "Running"
      BY <1>1, JobTag DEF Restart, NoJob
    <2>3. worker' = [w \in Worker |-> worker'[w]] /\ jobs' = [x \in Session |-> jobs'[x]]
      BY <1>1 DEF Restart
    <2>4. WorkersHaveJobs'
      BY <2>1, <2>2, IdleShape DEF WorkersHaveJobs, Working, IsRunning
    <2> QED BY <2>1, <2>3, <2>4, IdleShape DEF DrainInvariant
  <1>2. CASE Shutdown
    BY <1>2, NothingChanges DEF Shutdown, drainVars
  <1>3. ASSUME NEW x \in Session,
               \/ \E item \in Item : Enqueue(x, item)
               \/ \E i \in Instance, item \in Input \cup {NoItem} : ForeignBegin(x, i, item)
               \/ \E reason \in Reason : ForeignEnd(x, reason)
               \/ \E code \in Closes : CloseBeside(x, code)
               \/ Lapse(x) \/ ShutdownCloses(x)
        PROVE  DrainInvariant'
    <2>1. worker' = worker /\ jobs' = jobs
      BY <1>3 DEF Enqueue, ForeignBegin, ForeignEnd, CloseBeside, Lapse, ShutdownCloses, outside, drainVars
    <2> QED BY <2>1, NothingChanges
  <1> QED BY <1>1, <1>2, <1>3 DEF Beside

LEMMA DrainInit == Init => DrainInvariant
  <1> SUFFICES ASSUME Init PROVE DrainInvariant
    OBVIOUS
  <1>1. \A w \in Worker : worker[w] = IdleWorker
    BY DEF Init
  <1>2. \A x \in Session : jobs[x].tag # "Running"
    BY JobTag DEF Init, NoJob
  <1>3. worker = [w \in Worker |-> worker[w]] /\ jobs = [x \in Session |-> jobs[x]]
    BY DEF Init
  <1>4. WorkersHaveJobs
    BY <1>1, <1>2, IdleShape DEF WorkersHaveJobs, Working, IsRunning
  <1> QED BY <1>1, <1>3, <1>4, IdleShape DEF DrainInvariant

LEMMA DrainNext == ASSUME DrainInvariant, [Next]_vars PROVE DrainInvariant'
  <1>1. CASE Scans
    BY <1>1, ScansKeep
  <1>2. ASSUME NEW w \in Worker, Works(w) PROVE DrainInvariant'
    BY <1>2, ClaimKeeps, WorksKeep, FinishKeeps DEF Works
  <1>3. CASE Failures
    <2>1. CASE ScanListFails \/ \E x \in Session : ScanSelectFails(x)
      BY <2>1, NothingChanges DEF ScanListFails, ScanSelectFails
    <2>2. ASSUME NEW w \in Worker, AttemptFails(w) \/ \E reason \in Endings : EndLost(w, reason) PROVE DrainInvariant'
      BY <2>2, WorksKeep, DrainConstants
    <2> QED BY <1>3, <2>1, <2>2 DEF Failures
  <1>4. CASE Beside
    BY <1>4, BesideKeeps
  <1>5. CASE UNCHANGED vars
    BY <1>5, NothingChanges DEF vars, drainVars
  <1> QED BY <1>1, <1>2, <1>3, <1>4, <1>5 DEF Next

(* A session is worked on by one worker while its job runs, and no job is    *)
(* left Running by nobody (claimDrain, finishDrain, observeDrains).          *)
THEOREM JobsHaveOneWorker == Spec => []RunningJobsHaveOneWorker
  <1>1. DrainInvariant => RunningJobsHaveOneWorker
    <2> SUFFICES ASSUME DrainInvariant, NEW x \in Session
                 PROVE  Cardinality({w \in Worker : worker[w].step # "idle" /\ worker[w].at = x})
                          = IF jobs[x].tag = "Running" THEN 1 ELSE 0
      BY DEF RunningJobsHaveOneWorker
    <2> DEFINE S == {w \in Worker : worker[w].step # "idle" /\ worker[w].at = x}
    <2>1. jobs[x].tag = "Running" => \E w \in S : S = {w}
      BY DEF DrainInvariant, WorkersHaveJobs, Working, IsRunning
    <2>2. jobs[x].tag # "Running" => S = {}
      BY DEF DrainInvariant, WorkersHaveJobs, Working, IsRunning
    <2> HIDE DEF S
    <2>3. Cardinality(S) = IF jobs[x].tag = "Running" THEN 1 ELSE 0
      BY <2>1, <2>2, FS_EmptySet, FS_Singleton
    <2> QED BY <2>3 DEF S
  <1> QED BY <1>1, DrainInit, DrainNext, PTL DEF Spec

-----------------------------------------------------------------------------
(* A set of numbers has a least.                                             *)
LEMMA LeastExists == ASSUME NEW S, S \subseteq Nat, S # {} PROVE \E n \in S : \A m \in S : n <= m
  <1>1. PICK n \in S : \A m \in S : ~(<<m, n>> \in OpToRel(<, Nat))
    BY NatLessThanWellFounded, WFMin
  <1>2. \A m \in S : ~(m < n)
    BY <1>1 DEF OpToRel
  <1>3. \A m \in S : m \in Nat /\ n \in Nat
    BY <1>1
  <1>4. \A m \in S : n <= m
    BY <1>2, <1>3
  <1> QED BY <1>4

-----------------------------------------------------------------------------
(* One commit of a session.                                                  *)

LEMMA SessionFields ==
    ASSUME NEW s, SessionType(s)
    PROVE  /\ s.head \in State /\ s.gone \in BOOLEAN /\ s.seq \in Nat /\ s.queued \in SUBSET Item
           /\ HistoryType(s.history)
           /\ s.history.turns \in Seq(TurnRecord)
           /\ \A t \in DOMAIN s.history.turns : s.history.turns[t] \in TurnRecord
           /\ \A item \in DOMAIN s.history.slots : s.history.slots[item] \in [by : Nat, at : Nat]
  <1>1. HistoryType(s.history) /\ s.history.turns \in Seq(TurnRecord)
    BY DEF SessionType, HistoryType
  <1>2. \A t \in DOMAIN s.history.turns : s.history.turns[t] \in TurnRecord
    BY <1>1
  <1> QED BY <1>1, <1>2 DEF SessionType, HistoryType

(* What a commit makes of a session.                                         *)
LEMMA StoredFields ==
    ASSUME NEW s, SessionType(s), NEW event, NEW state \in State, HistoryType(Apply(s.history, event))
    PROVE  LET t == Stored(s, event, state) IN
           /\ SessionType(t)
           /\ t.head = state /\ (t.gone <=> s.gone /\ IsOpen(state)) /\ t.seq = s.seq + 1 /\ t.queued = s.queued
           /\ t.history = Apply(s.history, event)
  <1> DEFINE h == Apply(s.history, event)
             open == IsOpen(state)
             t == Stored(s, event, state)
             old == s.history
  <1>1. t = [s EXCEPT !.head = state, !.gone = @ /\ open, !.seq = @ + 1, !.history = h]
    BY DEF Stored
  <1>2. open \in BOOLEAN
    BY DEF IsOpen
  <1>3. s \in [head : State, gone : BOOLEAN, seq : Nat, queued : SUBSET Item, history : {old}]
    BY DEF SessionType
  <1> HIDE DEF h, open, t, old
  <1>4. /\ t \in [head : State, gone : BOOLEAN, seq : Nat, queued : SUBSET Item, history : {h}]
        /\ t.head = state /\ (t.gone <=> s.gone /\ open) /\ t.seq = s.seq + 1 /\ t.queued = s.queued /\ t.history = h
    <2>1. t = [head |-> state, gone |-> s.gone /\ open, seq |-> s.seq + 1, queued |-> s.queued, history |-> h]
      BY <1>1, <1>2, <1>3
    <2>2. s.gone \in BOOLEAN /\ s.seq + 1 \in Nat /\ s.queued \in SUBSET Item
      BY <1>3
    <2> QED BY <2>1, <2>2, <1>2
  <1>5. HistoryType(h)
    BY DEF h
  <1>6. SessionType(t)
    BY <1>4, <1>5 DEF SessionType
  <1> QED BY <1>4, <1>6 DEF h, open, t

(* What an event makes of the journal's fold.                                *)
EndFolded(h, g, turn, reason, code, seq) ==
    /\ HistoryType(g)
    /\ DOMAIN g.turns = DOMAIN h.turns
    /\ \A t \in DOMAIN h.turns : t # turn => g.turns[t] = h.turns[t]
    /\ g.turns[turn] = [h.turns[turn] EXCEPT !.ended = reason, !.code = code, !.endedAt = seq]
    /\ DOMAIN g.slots = {item \in DOMAIN h.slots : ~(h.slots[item].by = turn /\ Acknowledges(item, reason))}
    /\ \A item \in DOMAIN g.slots : g.slots[item].by = IF h.slots[item].by = turn THEN 0 ELSE h.slots[item].by

LEMMA AppliedEnd ==
    ASSUME NEW h, HistoryType(h), NEW turn \in DOMAIN h.turns, NEW reason \in Reason, NEW code \in Code, NEW seq \in Nat
    PROVE  EndFolded(h, Apply(h, Ended(turn, reason, code, seq)), turn, reason, code, seq)
  <1> DEFINE e == Ended(turn, reason, code, seq)
             g == Apply(h, e)
             record == [h.turns[turn] EXCEPT !.ended = reason, !.code = code, !.endedAt = seq]
             kept == DOMAIN h.slots \ Acknowledged(h, e)
             slots == [item \in kept |-> [h.slots[item] EXCEPT !.by = IF @ = turn THEN 0 ELSE @]]
             turns == [h.turns EXCEPT ![turn] = record]
  <1>1. e.tag = "Ended" /\ e.turn = turn /\ e.reason = reason /\ e.code = code /\ e.seq = seq
    BY DEF Ended
  <1>2. kept = {item \in DOMAIN h.slots : ~(h.slots[item].by = turn /\ Acknowledges(item, reason))}
    BY <1>1 DEF Acknowledged
  <1> HIDE DEF e
  <1>3. g = [turns |-> [h.turns EXCEPT ![e.turn] = [@ EXCEPT !.ended = e.reason, !.code = e.code, !.endedAt = e.seq]],
             slots |-> [item \in DOMAIN h.slots \ Acknowledged(h, e) |->
                         [h.slots[item] EXCEPT !.by = IF @ = e.turn THEN 0 ELSE @]]]
    BY <1>1 DEF Apply
  <1>4. g = [turns |-> turns, slots |-> slots]
    BY <1>1, <1>3
  <1>5. h.turns[turn] \in TurnRecord /\ h.turns \in Seq(TurnRecord)
    BY DEF HistoryType
  <1>6. record \in TurnRecord
    BY <1>5 DEF TurnRecord
  <1> HIDE DEF record
  <1>7. /\ turns \in Seq(TurnRecord) /\ DOMAIN turns = DOMAIN h.turns /\ turns[turn] = record
        /\ \A t \in DOMAIN h.turns : t # turn => turns[t] = h.turns[t]
    BY <1>5, <1>6
  <1>8. \A item \in DOMAIN h.slots : h.slots[item] \in [by : Nat, at : Nat]
    BY DEF HistoryType
  <1> HIDE DEF kept, turns
  <1>9. DOMAIN slots = kept /\ slots = [item \in DOMAIN slots |-> slots[item]]
    OBVIOUS
  <1>a. \A item \in kept : /\ slots[item] \in [by : Nat, at : Nat]
                           /\ slots[item].by = IF h.slots[item].by = turn THEN 0 ELSE h.slots[item].by
    BY <1>8, <1>2
  <1> HIDE DEF slots
  <1>b. slots \in [DOMAIN slots -> [by : Nat, at : Nat]]
    BY <1>9, <1>a
  <1> HIDE DEF g
  <1>c. HistoryType(g) /\ g.turns = turns /\ g.slots = slots
    BY <1>4, <1>7, <1>b DEF HistoryType
  <1> QED BY <1>2, <1>7, <1>9, <1>a, <1>c DEF EndFolded, g, e, record

LEMMA AppliedRemoval ==
    ASSUME NEW h, HistoryType(h), NEW items
    PROVE  LET g == Apply(h, Removed(items)) IN
           /\ HistoryType(g) /\ g.turns = h.turns
           /\ DOMAIN g.slots = DOMAIN h.slots \ items
           /\ \A item \in DOMAIN g.slots : g.slots[item] = h.slots[item]
  <1> DEFINE e == Removed(items)
             g == Apply(h, e)
             left == DOMAIN h.slots \ items
             old == h.slots
             slots == [item \in left |-> old[item]]
  <1>1. e.tag = "Removed" /\ e.ids = items
    BY DEF Removed
  <1> HIDE DEF e
  <1>2. g = [h EXCEPT !.slots = Restrict(@, DOMAIN @ \ e.ids)]
    BY <1>1 DEF Apply
  <1>3. g = [h EXCEPT !.slots = slots]
    BY <1>1, <1>2 DEF Restrict
  <1>4. h \in [slots : {old}, turns : Seq(TurnRecord)] /\ \A item \in DOMAIN old : old[item] \in [by : Nat, at : Nat]
    BY DEF HistoryType
  <1>5. DOMAIN slots = left /\ (\A item \in left : slots[item] = old[item]) /\ slots \in [left -> [by : Nat, at : Nat]]
    BY <1>4
  <1> HIDE DEF g, left, slots, old
  <1>6. g \in [slots : {slots}, turns : Seq(TurnRecord)] /\ g.slots = slots /\ g.turns = h.turns
    BY <1>3, <1>4
  <1> QED BY <1>5, <1>6 DEF HistoryType, g, e, left, old

StartFolded(h, g, turn, claimed, input, record) ==
    /\ HistoryType(g) /\ g.turns = Append(h.turns, record)
    /\ DOMAIN g.slots = DOMAIN h.slots
    /\ \A item \in DOMAIN h.slots :
         g.slots[item].by = IF h.slots[item].by = 0 /\ (item \in claimed \/ item = input) THEN turn ELSE h.slots[item].by

LEMMA AppliedStart ==
    ASSUME NEW h, HistoryType(h), NEW turn \in Nat, NEW origin \in {"user", "inbox"}, NEW claimed,
           NEW input \in Item \cup {NoItem}, NEW resumes \in Nat
    PROVE  StartFolded(h, Apply(h, Started(turn, origin, claimed, input, resumes)), turn, claimed, input,
                       [origin |-> origin, resumes |-> resumes, input |-> input,
                        ended |-> "open", code |-> "own", endedAt |-> 0])
  <1> DEFINE e == Started(turn, origin, claimed, input, resumes)
             g == Apply(h, e)
             record == [origin |-> origin, resumes |-> resumes, input |-> input,
                        ended |-> "open", code |-> "own", endedAt |-> 0]
             all == DOMAIN h.slots
             slots == [item \in all |-> [h.slots[item] EXCEPT !.by = IF Claims(h, item, e) THEN turn ELSE @]]
             turns == Append(h.turns, record)
  <1>1. /\ e.tag = "Started" /\ e.turn = turn /\ e.origin = origin /\ e.claimed = claimed
        /\ e.input = input /\ e.resumes = resumes
    BY DEF Started
  <1> HIDE DEF e
  <1>2. \A item : Claims(h, item, e) <=> h.slots[item].by = 0 /\ (item \in claimed \/ item = input)
    BY <1>1 DEF Claims
  <1>3. g = [turns |-> turns, slots |-> slots]
    BY <1>1 DEF Apply
  <1>4. record \in TurnRecord
    BY DEF TurnRecord, Code
  <1> HIDE DEF record
  <1>5. turns \in Seq(TurnRecord)
    BY <1>4 DEF HistoryType
  <1>6. \A item \in all : h.slots[item] \in [by : Nat, at : Nat]
    BY DEF HistoryType
  <1> HIDE DEF all, turns
  <1>7. /\ DOMAIN slots = all
        /\ \A item \in all : /\ slots[item] \in [by : Nat, at : Nat]
                             /\ slots[item].by = IF Claims(h, item, e) THEN turn ELSE h.slots[item].by
    BY <1>6
  <1>8. slots \in [DOMAIN slots -> [by : Nat, at : Nat]]
    BY <1>7
  <1> HIDE DEF slots, g
  <1>9. HistoryType(g) /\ g.turns = turns /\ g.slots = slots
    BY <1>3, <1>5, <1>8 DEF HistoryType
  <1> QED BY <1>2, <1>7, <1>9 DEF StartFolded, g, e, all, turns, record

LEMMA AppliedQueued ==
    ASSUME NEW h, HistoryType(h), NEW id, ~Has(h, id), NEW seq \in Nat
    PROVE  LET g == Apply(h, Enqueued(id, seq)) IN
           /\ HistoryType(g) /\ g.turns = h.turns
           /\ DOMAIN g.slots = DOMAIN h.slots \cup {id} /\ g.slots[id].by = 0
           /\ \A item \in DOMAIN h.slots : g.slots[item] = h.slots[item]
  <1> DEFINE e == Enqueued(id, seq)
             g == Apply(h, e)
             old == h.slots
             all == DOMAIN h.slots \cup {id}
             slots == [item \in all |-> IF Has(h, item) THEN old[item] ELSE [by |-> 0, at |-> seq]]
  <1>1. e.tag = "Enqueued" /\ e.id = id /\ e.seq = seq
    BY DEF Enqueued
  <1> HIDE DEF e
  <1>2. g = [h EXCEPT !.slots = [item \in DOMAIN @ \cup {e.id} |->
                                  IF Has(h, item) THEN h.slots[item] ELSE [by |-> 0, at |-> e.seq]]]
    BY <1>1 DEF Apply
  <1>3. g = [h EXCEPT !.slots = slots]
    BY <1>1, <1>2
  <1>4. h \in [slots : {old}, turns : Seq(TurnRecord)] /\ \A item \in DOMAIN old : old[item] \in [by : Nat, at : Nat]
    BY DEF HistoryType
  <1>5. /\ DOMAIN slots = all /\ slots[id] = [by |-> 0, at |-> seq] /\ (\A item \in DOMAIN old : slots[item] = old[item])
        /\ slots \in [all -> [by : Nat, at : Nat]]
    BY <1>4 DEF Has
  <1> HIDE DEF g, all, slots, old
  <1>6. g \in [slots : {slots}, turns : Seq(TurnRecord)] /\ g.slots = slots /\ g.turns = h.turns
    BY <1>3, <1>4
  <1> QED BY <1>5, <1>6 DEF HistoryType, g, e, all, old

-----------------------------------------------------------------------------
(* A turn ends.                                                              *)

LEMMA ClosedTyped ==
    ASSUME NEW s \in State, NEW reason, NEW tried
    PROVE  /\ ClosedState(s, reason, tried) \in State
           /\ ClosedState(s, reason, tried).turns = s.turns /\ ClosedState(s, reason, tried).open = NoTurn
           /\ \A item \in Item :
                LET slot == ClosedState(s, reason, tried).inbox[item] IN
                IF item \notin TakenBy(s) THEN slot = s.inbox[item]
                ELSE /\ slot.in <=> ~(DoneWith(item, reason) \/ Exhausted(s, item, reason, tried))
                     /\ slot.by = 0
  <1> DEFINE inbox == [i \in Item |->
                 IF i \notin TakenBy(s) THEN s.inbox[i]
                 ELSE IF DoneWith(i, reason) \/ Exhausted(s, i, reason, tried) THEN NoSlot
                 ELSE [in |-> TRUE, by |-> 0,
                       attempts |-> s.inbox[i].attempts + (IF Counted(reason, tried) THEN 1 ELSE 0)]]
  <1>1. ClosedState(s, reason, tried) = [s EXCEPT !.open = NoTurn, !.inbox = inbox]
    BY DEF ClosedState
  <1>2. ASSUME NEW i \in Item PROVE inbox[i] \in Slot
    <2>1. s.inbox[i] \in Slot /\ s.inbox[i].attempts + (IF Counted(reason, tried) THEN 1 ELSE 0) \in Nat
      BY DEF State, Slot
    <2> QED BY <2>1 DEF Slot, NoSlot
  <1>3. inbox \in [Item -> Slot]
    BY <1>2
  <1>4. NoTurn \in OpenTurn
    BY DEF NoTurn, OpenTurn, Seal
  <1>5. \A item \in Item :
                IF item \notin TakenBy(s) THEN inbox[item] = s.inbox[item]
                ELSE /\ inbox[item].in <=> ~(DoneWith(item, reason) \/ Exhausted(s, item, reason, tried))
                     /\ inbox[item].by = 0
    BY DEF NoSlot
  <1> HIDE DEF inbox
  <1>6. /\ ClosedState(s, reason, tried) \in State
        /\ ClosedState(s, reason, tried).turns = s.turns /\ ClosedState(s, reason, tried).open = NoTurn
        /\ ClosedState(s, reason, tried).inbox = inbox
    BY <1>1, <1>3, <1>4 DEF State
  <1> QED BY <1>5, <1>6

LEMMA DroppedFinite ==
    ASSUME NEW s, SessionInvariant(s), NEW reason, NEW tried
    PROVE  Dropped(s.head, reason, tried) \subseteq DOMAIN s.history.slots /\ Cardinality(Dropped(s.head, reason, tried)) \in Nat
  <1>1. Dropped(s.head, reason, tried) \subseteq DOMAIN s.history.slots
    BY DEF SessionInvariant, InboxAgrees, Dropped, TakenBy
  <1>2. DOMAIN s.history.slots \subseteq s.queued /\ IsFiniteSet(s.queued)
    BY DEF SessionInvariant
  <1> QED BY <1>1, <1>2, FS_Subset, FS_CardinalityType

(* What an end makes of a session.                                           *)
ClosesTo(s, c, reason, code, tried) ==
    LET h == s.history
        turn == s.head.open.turn
    IN /\ SessionType(c)
       /\ c.head = ClosedState(s.head, reason, tried) /\ c.gone = FALSE /\ c.queued = s.queued
       /\ DOMAIN c.history.turns = DOMAIN h.turns /\ turn \in DOMAIN h.turns
       /\ \A t \in DOMAIN h.turns : t # turn => c.history.turns[t] = h.turns[t]
       /\ \E seq : c.history.turns[turn] = [h.turns[turn] EXCEPT !.ended = reason, !.code = code, !.endedAt = seq]
       /\ DOMAIN c.history.slots = {item \in DOMAIN h.slots :
            /\ ~(h.slots[item].by = turn /\ Acknowledges(item, reason))
            /\ item \notin Dropped(s.head, reason, tried)}
       /\ \A item \in DOMAIN c.history.slots :
            c.history.slots[item].by = IF h.slots[item].by = turn THEN 0 ELSE h.slots[item].by

LEMMA ClosingFields ==
    ASSUME NEW s, SessionInvariant(s), IsOpen(s.head), NEW reason \in Reason, NEW code \in Code, NEW tried
    PROVE  ClosesTo(s, Closing(s, reason, code, tried), reason, code, tried)
  <1> DEFINE h == s.history
             turn == s.head.open.turn
             seq == s.seq + 1
             e == Ended(turn, reason, code, seq)
             state == ClosedState(s.head, reason, tried)
             dropped == Dropped(s.head, reason, tried)
             count == Cardinality(dropped)
             ended == Stored(s, e, state)
             middle == ended.history
             removal == Apply(middle, Removed(dropped))
             c == Closing(s, reason, code, tried)
  <1>1. SessionType(s) /\ turn \in DOMAIN h.turns /\ seq \in Nat /\ s.head \in State
    <2>1. SessionType(s) /\ TurnsAgree(s)
      BY DEF SessionInvariant
    <2>2. s.head \in State /\ s.seq \in Nat /\ h.turns \in Seq(TurnRecord)
      BY <2>1, SessionFields
    <2>3. turn = s.head.turns /\ turn # 0 /\ turn \in Nat
      BY <2>1, <2>2 DEF TurnsAgree, IsOpen, State
    <2> QED BY <2>1, <2>2, <2>3 DEF TurnsAgree
  <1>2. state \in State /\ state.open = NoTurn /\ ~IsOpen(state)
    BY <1>1, ClosedTyped DEF IsOpen, NoTurn
  <1>3. HistoryType(h)
    BY <1>1, SessionFields
  <1> DEFINE g == Apply(h, e)
  <1>4. EndFolded(h, g, turn, reason, code, seq)
    <2> HIDE DEF h, turn, seq
    <2> QED BY <1>1, <1>3, AppliedEnd
  <1> HIDE DEF state, g
  <1>5. SessionType(ended) /\ ended.head = state /\ ended.gone = FALSE /\ ended.queued = s.queued /\ middle = g /\ ended.seq \in Nat
    <2>1. SessionType(ended) /\ ended.head = state /\ (ended.gone <=> s.gone /\ IsOpen(state)) /\ ended.queued = s.queued /\ middle = g
      BY <1>1, <1>2, <1>4, StoredFields DEF g, EndFolded
    <2>2. ended.gone \in BOOLEAN /\ ended.seq \in Nat
      BY <2>1, SessionFields
    <2> QED BY <2>1, <2>2, <1>2
  <1>6. count \in Nat
    BY DroppedFinite
  <1>7. /\ HistoryType(removal) /\ removal.turns = g.turns
        /\ DOMAIN removal.slots = DOMAIN g.slots \ dropped
        /\ \A item \in DOMAIN removal.slots : removal.slots[item] = g.slots[item]
    BY <1>4, <1>5, AppliedRemoval DEF EndFolded
  <1>8. c = [ended EXCEPT !.seq = @ + count, !.history = removal]
    BY DEF Closing, state
  <1> HIDE DEF ended, removal, count, c, dropped
  <1>9. ended \in [head : State, gone : BOOLEAN, seq : Nat, queued : SUBSET Item, history : {middle}]
    BY <1>5 DEF SessionType
  <1> HIDE DEF middle
  <1>a. /\ c \in [head : State, gone : BOOLEAN, seq : Nat, queued : SUBSET Item, history : {removal}]
        /\ c.head = ended.head /\ c.gone = ended.gone /\ c.queued = ended.queued /\ c.history = removal
    <2>1. c = [head |-> ended.head, gone |-> ended.gone, seq |-> ended.seq + count, queued |-> ended.queued, history |-> removal]
      BY <1>8, <1>9
    <2>2. /\ ended.head \in State /\ ended.gone \in BOOLEAN /\ ended.queued \in SUBSET Item
          /\ ended.seq + count \in Nat
      BY <1>6, <1>9
    <2> QED BY <2>1, <2>2
  <1>b. SessionType(c)
    BY <1>7, <1>a DEF SessionType
  <1>c. DOMAIN c.history.slots = {item \in DOMAIN h.slots :
                   /\ ~(h.slots[item].by = turn /\ Acknowledges(item, reason))
                   /\ item \notin dropped}
    BY <1>4, <1>7, <1>a DEF EndFolded
  <1>d. \A item \in DOMAIN c.history.slots :
                   c.history.slots[item].by = IF h.slots[item].by = turn THEN 0 ELSE h.slots[item].by
    BY <1>4, <1>7, <1>a DEF EndFolded
  <1>e. /\ DOMAIN c.history.turns = DOMAIN h.turns
        /\ \A t \in DOMAIN h.turns : t # turn => c.history.turns[t] = h.turns[t]
        /\ c.history.turns[turn] = [h.turns[turn] EXCEPT !.ended = reason, !.code = code, !.endedAt = seq]
    BY <1>4, <1>7, <1>a DEF EndFolded
  <1>f. c.head = state /\ c.gone = FALSE /\ c.queued = s.queued
    BY <1>5, <1>a
  <1> HIDE DEF h, turn, seq
  <1> QED BY <1>1, <1>b, <1>c, <1>d, <1>e, <1>f DEF ClosesTo, c, state, dropped, h, turn

(* How a session's turns go on: those that ended stay as they are.           *)
TurnsGoOn(s, t) ==
    /\ s.head.turns \in Nat /\ t.head.turns \in Nat /\ s.head.turns <= t.head.turns
    /\ DOMAIN s.history.turns = 1..s.head.turns /\ DOMAIN t.history.turns = 1..t.head.turns
    /\ \A n \in 1..s.head.turns :
         /\ t.history.turns[n].input = s.history.turns[n].input
         /\ t.history.turns[n].resumes = s.history.turns[n].resumes
         /\ s.history.turns[n].ended # "open" => t.history.turns[n] = s.history.turns[n]

LEMMA SessionTurns ==
    ASSUME NEW s, SessionInvariant(s)
    PROVE  /\ SessionType(s) /\ s.head \in State /\ s.head.turns \in Nat
           /\ s.head.open.turn \in {0, s.head.turns}
           /\ s.history.turns \in Seq(TurnRecord) /\ DOMAIN s.history.turns = 1..s.head.turns
           /\ \A n \in 1..s.head.turns : s.history.turns[n] \in TurnRecord
           /\ \A n \in 1..s.head.turns : s.history.turns[n].ended = "open" <=> n = s.head.open.turn
           /\ \A n \in 1..s.head.turns : s.history.turns[n].resumes < n
  <1>1. SessionType(s) /\ TurnsAgree(s)
    BY DEF SessionInvariant
  <1>2. s.head \in State /\ s.history.turns \in Seq(TurnRecord)
    BY <1>1, SessionFields
  <1>3. s.head.turns \in Nat
    BY <1>2 DEF State
  <1> QED BY <1>1, <1>2, <1>3, SessionFields DEF TurnsAgree

KeptClosed(s, c, reason, code) ==
    /\ SessionInvariant(c) /\ TurnsGoOn(s, c) /\ c.head.turns = s.head.turns /\ c.queued = s.queued
    /\ c.head.open = NoTurn /\ c.gone = FALSE
    /\ c.history.turns[s.head.open.turn].ended = reason /\ c.history.turns[s.head.open.turn].code = code
    /\ \A n \in 1..s.head.turns : n # s.head.open.turn => c.history.turns[n] = s.history.turns[n]

LEMMA ClosingKeeps ==
    ASSUME NEW s, SessionInvariant(s), IsOpen(s.head), NEW reason \in Reason, NEW code \in Code, NEW tried
    PROVE  KeptClosed(s, Closing(s, reason, code, tried), reason, code)
  <1> DEFINE c == Closing(s, reason, code, tried)
             h == s.history
             turn == s.head.open.turn
             g == c.history
  <1>1. /\ SessionType(c)
        /\ c.head = ClosedState(s.head, reason, tried) /\ c.gone = FALSE /\ c.queued = s.queued
        /\ DOMAIN g.turns = DOMAIN h.turns /\ turn \in DOMAIN h.turns
        /\ \A t \in DOMAIN h.turns : t # turn => g.turns[t] = h.turns[t]
        /\ \E seq : g.turns[turn] = [h.turns[turn] EXCEPT !.ended = reason, !.code = code, !.endedAt = seq]
        /\ DOMAIN g.slots = {item \in DOMAIN h.slots :
                   /\ ~(h.slots[item].by = turn /\ Acknowledges(item, reason))
                   /\ item \notin Dropped(s.head, reason, tried)}
        /\ \A item \in DOMAIN g.slots : g.slots[item].by = IF h.slots[item].by = turn THEN 0 ELSE h.slots[item].by
    <2>1. ClosesTo(s, c, reason, code, tried)
      BY ClosingFields
    <2> HIDE DEF c
    <2> QED BY <2>1 DEF ClosesTo
  <1>2. /\ SessionType(s) /\ s.head \in State /\ s.head.turns \in Nat /\ turn = s.head.turns
        /\ h.turns \in Seq(TurnRecord) /\ DOMAIN h.turns = 1..s.head.turns
        /\ \A n \in 1..s.head.turns : h.turns[n] \in TurnRecord
        /\ \A n \in 1..s.head.turns : h.turns[n].ended = "open" <=> n = turn
        /\ \A n \in 1..s.head.turns : h.turns[n].resumes < n
    BY SessionTurns DEF IsOpen
  <1> HIDE DEF c
  <1>3. /\ c.head.turns = s.head.turns /\ c.head.open = NoTurn
        /\ \A item \in Item :
                LET slot == c.head.inbox[item] IN
                IF item \notin TakenBy(s.head) THEN slot = s.head.inbox[item]
                ELSE /\ slot.in <=> ~(DoneWith(item, reason) \/ Exhausted(s.head, item, reason, tried))
                     /\ slot.by = 0
    BY <1>1, <1>2, ClosedTyped
  <1>4. /\ g.turns[turn].ended = reason /\ g.turns[turn].code = code
        /\ g.turns[turn].input = h.turns[turn].input /\ g.turns[turn].resumes = h.turns[turn].resumes
        /\ g.turns[turn].origin = h.turns[turn].origin
    <2>1. PICK seq : g.turns[turn] = [h.turns[turn] EXCEPT !.ended = reason, !.code = code, !.endedAt = seq]
      BY <1>1
    <2>2. h.turns[turn] \in TurnRecord
      BY <1>1, <1>2
    <2> QED BY <2>1, <2>2 DEF TurnRecord
  <1>5. TurnsGoOn(s, c)
    <2>1. ASSUME NEW n \in 1..s.head.turns
          PROVE  /\ g.turns[n].input = h.turns[n].input /\ g.turns[n].resumes = h.turns[n].resumes
                 /\ h.turns[n].ended # "open" => g.turns[n] = h.turns[n]
      <3>1. CASE n = turn
        BY <3>1, <1>2, <1>4
      <3>2. CASE n # turn
        BY <3>2, <1>1, <1>2
      <3> QED BY <3>1, <3>2
    <2> QED BY <2>1, <1>1, <1>2, <1>3 DEF TurnsGoOn
  <1>6. TurnsAgree(c)
    <2>1. g.turns \in Seq(TurnRecord)
      BY <1>1, SessionFields
    <2>2. Len(g.turns) = s.head.turns
      BY <2>1, <1>1, <1>2
    <2>3. ASSUME NEW t \in 1..s.head.turns PROVE g.turns[t].ended # "open"
      <3>1. CASE t = turn
        <4>1. reason # "open"
          BY DEF Reason
        <4> QED BY <3>1, <4>1, <1>4
      <3>2. CASE t # turn
        <4>1. g.turns[t] = h.turns[t]
          BY <3>2, <1>1, <1>2
        <4> QED BY <3>2, <4>1, <1>2
      <3> QED BY <3>1, <3>2
    <2>4. \A t \in 1..s.head.turns : g.turns[t].resumes < t
      BY <1>2, <1>5 DEF TurnsGoOn
    <2> QED BY <2>2, <2>3, <2>4, <1>3 DEF TurnsAgree, NoTurn
  <1>7. /\ DOMAIN h.slots = {item \in Item : s.head.inbox[item].in}
        /\ \A item \in DOMAIN h.slots : h.slots[item].by = s.head.inbox[item].by /\ h.slots[item].by \in {0, turn}
    BY DEF SessionInvariant, InboxAgrees
  <1>8. InboxAgrees(c)
    <2>1. turn # 0
      BY DEF IsOpen
    <2>2. ASSUME NEW item \in Item
          PROVE  /\ c.head.inbox[item].in <=> item \in DOMAIN g.slots
                 /\ item \in DOMAIN g.slots => g.slots[item].by = c.head.inbox[item].by /\ g.slots[item].by = 0
      <3>1. CASE item \notin TakenBy(s.head)
        <4>1. c.head.inbox[item] = s.head.inbox[item] /\ item \notin Dropped(s.head, reason, tried)
          BY <1>3, <3>1 DEF Dropped
        <4>2. item \in DOMAIN h.slots => h.slots[item].by = 0
          BY <1>7, <3>1, <2>1 DEF TakenBy
        <4> QED BY <4>1, <4>2, <1>1, <1>7, <2>1
      <3>2. CASE item \in TakenBy(s.head)
        <4>1. item \in DOMAIN h.slots /\ h.slots[item].by = turn
          BY <3>2, <1>7 DEF TakenBy
        <4>2. c.head.inbox[item].by = 0 /\ (c.head.inbox[item].in <=> ~(DoneWith(item, reason) \/ Exhausted(s.head, item, reason, tried)))
          BY <1>3, <3>2
        <4>3. item \in Dropped(s.head, reason, tried) <=> ~DoneWith(item, reason) /\ Exhausted(s.head, item, reason, tried)
          BY <3>2 DEF Dropped
        <4>4. Acknowledges(item, reason) <=> DoneWith(item, reason)
          BY DEF Acknowledges, DoneWith
        <4> QED BY <4>1, <4>2, <4>3, <4>4, <1>1
      <3> QED BY <3>1, <3>2
    <2>3. DOMAIN g.slots \subseteq Item
      BY <1>1, <1>7
    <2> QED BY <2>2, <2>3 DEF InboxAgrees
  <1>9. InputsAreOpen(c)
    <2> SUFFICES ASSUME NEW t \in DOMAIN g.turns, g.turns[t].input # NoItem
                 PROVE  LET input == g.turns[t].input IN
                        /\ g.turns[t].origin = "user" /\ input \in c.queued
                        /\ Answered(g, t) => ~Has(g, input)
                        /\ \A u \in ClaimsOf(g, input) : u < t => ~Answered(g, u)
                        /\ t = c.head.open.turn /\ Has(g, input) => g.slots[input].by = t
      BY DEF InputsAreOpen
    <2> DEFINE input == g.turns[t].input
    <2>1. t \in 1..s.head.turns /\ h.turns[t].input = input /\ g.turns[t].origin = h.turns[t].origin
      BY <1>1, <1>2, <1>4
    <2>2. /\ h.turns[t].origin = "user" /\ input \in s.queued
          /\ Answered(h, t) => ~Has(h, input)
          /\ \A u \in ClaimsOf(h, input) : u < t => ~Answered(h, u)
          /\ t = turn /\ Has(h, input) => h.slots[input].by = t
      BY <2>1, <1>2 DEF SessionInvariant, InputsAreOpen
    <2>3. Answered(g, t) => ~Has(g, input)
      <3>1. CASE t # turn
        BY <3>1, <2>1, <2>2, <1>1 DEF Answered, Has
      <3>2. CASE t = turn
        BY <3>2, <2>2, <1>1, <1>4 DEF Answered, Has, Acknowledges
      <3> QED BY <3>1, <3>2
    <2>4. ASSUME NEW u \in ClaimsOf(g, input), u < t PROVE ~Answered(g, u)
      <3>1. u \in 1..s.head.turns /\ u # turn
        BY <2>1, <2>4, <1>1, <1>2 DEF ClaimsOf
      <3>2. g.turns[u] = h.turns[u]
        BY <3>1, <1>1, <1>2
      <3>3. u \in ClaimsOf(h, input)
        BY <3>1, <3>2, <2>4, <1>1 DEF ClaimsOf
      <3> QED BY <3>2, <3>3, <2>2, <2>4 DEF Answered
    <2>5. t # c.head.open.turn
      BY <1>3, <2>1 DEF NoTurn
    <2> QED BY <2>1, <2>2, <2>3, <2>4, <2>5, <1>1
  <1>a. DOMAIN g.slots \subseteq c.queued /\ IsFiniteSet(c.queued)
    BY <1>1 DEF SessionInvariant
  <1>b. SessionInvariant(c)
    BY <1>1, <1>6, <1>8, <1>9, <1>a DEF SessionInvariant
  <1>c. KeptClosed(s, c, reason, code)
    BY <1>1, <1>2, <1>3, <1>4, <1>5, <1>b DEF KeptClosed
  <1> QED BY <1>c DEF c

-----------------------------------------------------------------------------
(* A turn begins, an item is queued, a holder is gone.                       *)

OpensTo(s, o, holder, taking) ==
    /\ o \in State /\ o.turns = s.turns + 1 /\ o.open.turn = s.turns + 1 /\ o.open.holder = holder
    /\ \A item \in Item : o.inbox[item].in = s.inbox[item].in
    /\ \A item \in Item : o.inbox[item].by = IF item \in taking THEN s.turns + 1 ELSE s.inbox[item].by

LEMMA OpenedTyped ==
    ASSUME NEW s \in State, NEW holder \in Instance \cup {NoInstance}, NEW taking
    PROVE  OpensTo(s, OpenedState(s, NoRun, holder, 0, taking), holder, taking)
  <1> DEFINE inbox == [i \in Item |-> IF i \in taking THEN [s.inbox[i] EXCEPT !.by = s.turns + 1] ELSE s.inbox[i]]
             open == [turn |-> s.turns + 1, run |-> NoRun, holder |-> holder, expiresAt |-> 0, sealed |-> "none"]
  <1>1. OpenedState(s, NoRun, holder, 0, taking) = [turns |-> s.turns + 1, open |-> open, inbox |-> inbox]
    BY DEF OpenedState
  <1>2. s.turns \in Nat /\ \A i \in Item : s.inbox[i] \in Slot
    BY DEF State
  <1>3. open \in OpenTurn
    BY <1>2 DEF OpenTurn, Seal
  <1>4. \A i \in Item : /\ inbox[i] \in Slot /\ inbox[i].in = s.inbox[i].in
                        /\ inbox[i].by = IF i \in taking THEN s.turns + 1 ELSE s.inbox[i].by
    BY <1>2 DEF Slot
  <1>5. inbox \in [Item -> Slot]
    BY <1>4
  <1>6. open.turn = s.turns + 1 /\ open.holder = holder
    OBVIOUS
  <1> HIDE DEF inbox, open
  <1> QED BY <1>1, <1>2, <1>3, <1>4, <1>5, <1>6 DEF OpensTo, State

(* A begin may be stored: it takes, of what waits, the notices it claims and *)
(* its input, which no turn answered.                                        *)
MayOpen(s, holder, origin, input, resumes, taking) ==
    /\ ~IsOpen(s.head) /\ holder \in Instance \cup {NoInstance} /\ resumes \in 0..s.head.turns
    /\ origin \in {"user", "inbox"} /\ input \in Item \cup {NoItem}
    /\ \A item \in DOMAIN s.history.slots : item \in taking <=> item \in taking \cap Notice \/ item = input
    /\ input # NoItem => /\ origin = "user" /\ input \in s.queued
                         /\ \A u \in ClaimsOf(s.history, input) : ~Answered(s.history, u)

LEMMA OpeningKeeps ==
    ASSUME NEW s, SessionInvariant(s), NEW holder, NEW origin, NEW input, NEW resumes, NEW taking,
           MayOpen(s, holder, origin, input, resumes, taking)
    PROVE  LET c == Opening(s, holder, origin, input, resumes, taking)
               turn == s.head.turns + 1
           IN /\ SessionInvariant(c) /\ TurnsGoOn(s, c) /\ c.queued = s.queued
              /\ c.head.turns = turn /\ c.head.open.turn = turn /\ c.head.open.holder = holder
              /\ c.history.turns[turn].input = input /\ c.history.turns[turn].resumes = resumes
              /\ c.history.turns[turn].ended = "open"
              /\ \A n \in 1..s.head.turns : c.history.turns[n] = s.history.turns[n]
  <1> DEFINE c == Opening(s, holder, origin, input, resumes, taking)
             h == s.history
             turn == s.head.turns + 1
             claimed == taking \cap Notice
             e == Started(turn, origin, claimed, input, resumes)
             g == Apply(h, e)
             state == OpenedState(s.head, NoRun, holder, 0, taking)
             record == [origin |-> origin, resumes |-> resumes, input |-> input,
                        ended |-> "open", code |-> "own", endedAt |-> 0]
  <1>1. /\ SessionType(s) /\ s.head \in State /\ s.head.turns \in Nat
        /\ h.turns \in Seq(TurnRecord) /\ DOMAIN h.turns = 1..s.head.turns
        /\ \A n \in 1..s.head.turns : h.turns[n] \in TurnRecord
        /\ \A n \in 1..s.head.turns : h.turns[n].ended # "open" /\ h.turns[n].resumes < n
    BY SessionTurns DEF MayOpen, IsOpen
  <1>2. HistoryType(h) /\ turn \in Nat
    BY <1>1, SessionFields
  <1>3. /\ HistoryType(g) /\ g.turns = Append(h.turns, record)
        /\ DOMAIN g.slots = DOMAIN h.slots
        /\ \A item \in DOMAIN h.slots :
             g.slots[item].by = IF h.slots[item].by = 0 /\ (item \in claimed \/ item = input) THEN turn ELSE h.slots[item].by
    <2>1. StartFolded(h, g, turn, claimed, input, record)
      <3> HIDE DEF h, turn, claimed
      <3> QED BY <1>2, AppliedStart DEF MayOpen
    <2> QED BY <2>1 DEF StartFolded
  <1>4. /\ state \in State /\ state.turns = turn /\ state.open.turn = turn /\ state.open.holder = holder
        /\ \A item \in Item : state.inbox[item].in = s.head.inbox[item].in
        /\ \A item \in Item : state.inbox[item].by = IF item \in taking THEN turn ELSE s.head.inbox[item].by
    <2>1. OpensTo(s.head, state, holder, taking)
      BY <1>1, OpenedTyped DEF MayOpen
    <2> QED BY <2>1 DEF OpensTo
  <1> HIDE DEF g, state
  <1>5. SessionType(c) /\ c.head = state /\ c.queued = s.queued /\ c.history = g
    <2>1. c = Stored(s, e, state)
      BY DEF Opening, state
    <2> HIDE DEF c, e
    <2>2. g = Apply(s.history, e)
      BY DEF g, e
    <2> QED BY <2>1, <2>2, <1>1, <1>3, <1>4, StoredFields
  <1> HIDE DEF c, e
  <1>6. /\ Len(g.turns) = turn /\ DOMAIN g.turns = 1..turn /\ g.turns[turn] = record
        /\ \A n \in 1..s.head.turns : g.turns[n] = h.turns[n]
    <2>1. Len(h.turns) = s.head.turns
      BY <1>1
    <2> HIDE DEF record, h
    <2> QED BY <1>1, <1>3, <2>1
  <1>7. record.origin = origin /\ record.resumes = resumes /\ record.input = input /\ record.ended = "open"
    OBVIOUS
  <1> HIDE DEF record
  <1>8. TurnsGoOn(s, c)
    BY <1>1, <1>4, <1>5, <1>6 DEF TurnsGoOn
  <1>9. TurnsAgree(c)
    <2>1. ASSUME NEW t \in 1..turn PROVE (g.turns[t].ended = "open" <=> t = turn) /\ g.turns[t].resumes < t
      <3>1. CASE t = turn
        BY <3>1, <1>1, <1>6, <1>7 DEF MayOpen
      <3>2. CASE t # turn
        <4>1. t \in 1..s.head.turns
          BY <3>2, <1>1
        <4> QED BY <3>2, <4>1, <1>1, <1>6
      <3> QED BY <3>1, <3>2
    <2> QED BY <2>1, <1>4, <1>5, <1>6 DEF TurnsAgree
  <1>a. /\ DOMAIN h.slots = {item \in Item : s.head.inbox[item].in}
        /\ \A item \in DOMAIN h.slots : h.slots[item].by = s.head.inbox[item].by /\ h.slots[item].by = 0
    BY DEF SessionInvariant, InboxAgrees, MayOpen, IsOpen
  <1>b. \A item \in DOMAIN h.slots : item \in taking <=> item \in claimed \/ item = input
    BY DEF MayOpen
  <1>c. \A item \in DOMAIN h.slots : g.slots[item].by = IF item \in taking THEN turn ELSE 0
    BY <1>3, <1>a, <1>b
  <1>d. InboxAgrees(c)
    <2>1. DOMAIN g.slots = {item \in Item : state.inbox[item].in}
      BY <1>3, <1>4, <1>a
    <2>2. \A item \in DOMAIN g.slots : g.slots[item].by = state.inbox[item].by /\ g.slots[item].by \in {0, turn}
      BY <1>3, <1>4, <1>a, <1>c
    <2> QED BY <2>1, <2>2, <1>4, <1>5 DEF InboxAgrees
  <1>e. InputsAreOpen(c)
    <2> SUFFICES ASSUME NEW t \in DOMAIN g.turns, g.turns[t].input # NoItem
                 PROVE  /\ g.turns[t].origin = "user" /\ g.turns[t].input \in c.queued
                        /\ Answered(g, t) => ~Has(g, g.turns[t].input)
                        /\ \A u \in ClaimsOf(g, g.turns[t].input) : u < t => ~Answered(g, u)
                        /\ t = c.head.open.turn /\ Has(g, g.turns[t].input) => g.slots[g.turns[t].input].by = t
      BY <1>5 DEF InputsAreOpen
    <2>1. CASE t = turn
      <3>1. g.turns[t].input = input /\ g.turns[t].origin = origin /\ ~Answered(g, t) /\ input # NoItem
        BY <2>1, <1>6, <1>7 DEF Answered
      <3>2. origin = "user" /\ input \in s.queued /\ \A u \in ClaimsOf(h, input) : ~Answered(h, u)
        BY <3>1 DEF MayOpen
      <3>3. ASSUME NEW u \in ClaimsOf(g, input), u < t PROVE ~Answered(g, u)
        <4>1. u \in 1..s.head.turns
          BY <3>3, <2>1, <1>1, <1>6 DEF ClaimsOf
        <4>2. g.turns[u] = h.turns[u] /\ u \in ClaimsOf(h, input)
          BY <4>1, <3>3, <1>1, <1>6 DEF ClaimsOf
        <4> QED BY <4>2, <3>2 DEF Answered
      <3>4. Has(g, input) => g.slots[input].by = t
        BY <1>3, <1>b, <1>c, <2>1 DEF Has
      <3> QED BY <3>1, <3>2, <3>3, <3>4, <1>5
    <2>2. CASE t # turn
      <3>1. t \in 1..s.head.turns /\ g.turns[t] = h.turns[t] /\ t \in DOMAIN h.turns
        BY <2>2, <1>1, <1>6
      <3>2. /\ h.turns[t].origin = "user" /\ h.turns[t].input \in s.queued
            /\ Answered(h, t) => ~Has(h, h.turns[t].input)
            /\ \A u \in ClaimsOf(h, h.turns[t].input) : u < t => ~Answered(h, u)
        BY <3>1 DEF SessionInvariant, InputsAreOpen
      <3>3. Answered(g, t) => ~Has(g, g.turns[t].input)
        BY <3>1, <3>2, <1>3 DEF Answered, Has
      <3>4. ASSUME NEW u \in ClaimsOf(g, g.turns[t].input), u < t PROVE ~Answered(g, u)
        <4>1. u \in 1..s.head.turns
          BY <3>1, <3>4, <1>1, <1>6 DEF ClaimsOf
        <4>2. g.turns[u] = h.turns[u] /\ u \in ClaimsOf(h, h.turns[t].input)
          BY <4>1, <3>1, <3>4, <1>1, <1>6 DEF ClaimsOf
        <4> QED BY <4>2, <3>2, <3>4 DEF Answered
      <3> QED BY <3>1, <3>2, <3>3, <3>4, <2>2, <1>4, <1>5
    <2> QED BY <2>1, <2>2
  <1>f. DOMAIN g.slots \subseteq c.queued /\ IsFiniteSet(c.queued)
    BY <1>3, <1>5 DEF SessionInvariant
  <1>g. SessionInvariant(c)
    BY <1>5, <1>9, <1>d, <1>e, <1>f DEF SessionInvariant
  <1> QED BY <1>4, <1>5, <1>6, <1>7, <1>8, <1>g DEF c

LEMMA QueueingKeeps ==
    ASSUME NEW s, SessionInvariant(s), NEW item \in Item, item \notin s.queued
    PROVE  LET c == Queueing(s, item) IN
           /\ SessionInvariant(c) /\ TurnsGoOn(s, c) /\ c.head.open = s.head.open /\ c.head.turns = s.head.turns
           /\ (c.gone <=> s.gone /\ IsOpen(s.head)) /\ c.gone \in BOOLEAN /\ c.history.turns = s.history.turns
           /\ c.queued = s.queued \cup {item}
  <1> DEFINE c == Queueing(s, item)
             h == s.history
             seq == s.seq + 1
             e == Enqueued(item, seq)
             g == Apply(h, e)
             state == QueuedState(s.head, item)
             stored == Stored(s, e, state)
  <1>1. /\ SessionType(s) /\ s.head \in State /\ s.head.turns \in Nat
        /\ h.turns \in Seq(TurnRecord) /\ DOMAIN h.turns = 1..s.head.turns
        /\ seq \in Nat /\ HistoryType(h) /\ s.queued \in SUBSET Item
    BY SessionTurns, SessionFields
  <1>2. ~Has(h, item)
    BY DEF SessionInvariant, Has
  <1>3. /\ HistoryType(g) /\ g.turns = h.turns
        /\ DOMAIN g.slots = DOMAIN h.slots \cup {item} /\ g.slots[item].by = 0
        /\ \A other \in DOMAIN h.slots : g.slots[other] = h.slots[other]
    <2> HIDE DEF h, seq
    <2> QED BY <1>1, <1>2, AppliedQueued
  <1>4. /\ state \in State /\ state.turns = s.head.turns /\ state.open = s.head.open
        /\ state.inbox[item].in /\ state.inbox[item].by = 0
        /\ \A other \in Item : other # item => state.inbox[other] = s.head.inbox[other]
    <2>1. state = [s.head EXCEPT !.inbox = [@ EXCEPT ![item] = NewSlot]]
      BY DEF QueuedState
    <2>2. NewSlot \in Slot /\ NewSlot.in /\ NewSlot.by = 0
      BY DEF NewSlot, Slot
    <2> HIDE DEF state
    <2> QED BY <2>1, <2>2, <1>1 DEF State
  <1> HIDE DEF g, state
  <1>5. /\ SessionType(stored) /\ stored.head = state /\ (stored.gone <=> s.gone /\ IsOpen(state))
        /\ stored.queued = s.queued /\ stored.history = g
    <2> HIDE DEF e, h, stored
    <2>1. stored = Stored(s, e, state) /\ g = Apply(s.history, e)
      BY DEF stored, g, h
    <2> QED BY <1>1, <1>3, <1>4, <2>1, StoredFields
  <1>6. c = [stored EXCEPT !.queued = @ \cup {item}]
    BY DEF Queueing, state
  <1> HIDE DEF stored, c
  <1>7. /\ SessionType(c) /\ c.head = state /\ c.gone = stored.gone /\ c.gone \in BOOLEAN
        /\ c.queued = s.queued \cup {item} /\ c.history = g
    <2>1. stored \in [head : State, gone : BOOLEAN, seq : Nat, queued : SUBSET Item, history : {g}]
      BY <1>5 DEF SessionType
    <2>2. /\ c \in [head : State, gone : BOOLEAN, seq : Nat, queued : SUBSET Item, history : {g}]
          /\ c.head = stored.head /\ c.gone = stored.gone /\ c.queued = stored.queued \cup {item} /\ c.history = g
      BY <1>6, <2>1
    <2> QED BY <2>2, <1>3, <1>5 DEF SessionType
  <1>8. TurnsGoOn(s, c)
    BY <1>1, <1>3, <1>4, <1>7 DEF TurnsGoOn
  <1>9. TurnsAgree(c)
    BY <1>3, <1>4, <1>7 DEF SessionInvariant, TurnsAgree
  <1>a. InboxAgrees(c)
    <2>1. /\ DOMAIN h.slots = {other \in Item : s.head.inbox[other].in}
          /\ \A other \in DOMAIN h.slots : h.slots[other].by = s.head.inbox[other].by /\ h.slots[other].by \in {0, s.head.open.turn}
      BY DEF SessionInvariant, InboxAgrees
    <2>2. item \notin DOMAIN h.slots
      BY <1>2 DEF Has
    <2>3. DOMAIN g.slots = {other \in Item : state.inbox[other].in}
      BY <2>1, <2>2, <1>3, <1>4
    <2>4. ASSUME NEW other \in DOMAIN g.slots
          PROVE  g.slots[other].by = state.inbox[other].by /\ g.slots[other].by \in {0, s.head.open.turn}
      BY <2>1, <2>2, <1>3, <1>4
    <2> QED BY <2>3, <2>4, <1>4, <1>7 DEF InboxAgrees
  <1>b. InputsAreOpen(c)
    <2> SUFFICES ASSUME NEW t \in DOMAIN g.turns, g.turns[t].input # NoItem
                 PROVE  /\ g.turns[t].origin = "user" /\ g.turns[t].input \in c.queued
                        /\ Answered(g, t) => ~Has(g, g.turns[t].input)
                        /\ \A u \in ClaimsOf(g, g.turns[t].input) : u < t => ~Answered(g, u)
                        /\ t = c.head.open.turn /\ Has(g, g.turns[t].input) => g.slots[g.turns[t].input].by = t
      BY <1>7 DEF InputsAreOpen
    <2> DEFINE input == h.turns[t].input
    <2>1. /\ h.turns[t].origin = "user" /\ input \in s.queued
          /\ Answered(h, t) => ~Has(h, input)
          /\ \A u \in ClaimsOf(h, input) : u < t => ~Answered(h, u)
          /\ t = s.head.open.turn /\ Has(h, input) => h.slots[input].by = t
      BY <1>3 DEF SessionInvariant, InputsAreOpen
    <2>2. input # item
      BY <2>1
    <2>3. Has(g, input) <=> Has(h, input)
      BY <2>2, <1>3 DEF Has
    <2>4. ClaimsOf(g, input) = ClaimsOf(h, input) /\ \A u : Answered(g, u) <=> Answered(h, u)
      BY <1>3 DEF ClaimsOf, Answered
    <2> HIDE DEF input
    <2>5. input = g.turns[t].input
      BY <1>3 DEF input
    <2>6. Has(h, input) => g.slots[input].by = h.slots[input].by
      BY <1>3 DEF Has
    <2>7. c.queued = s.queued \cup {item} /\ c.head.open = s.head.open
      BY <1>4, <1>7
    <2>8. g.turns[t].origin = h.turns[t].origin
      BY <1>3
    <2> HIDE DEF h
    <2> QED BY <2>1, <2>3, <2>4, <2>5, <2>6, <2>7, <2>8
  <1>c. DOMAIN g.slots \subseteq c.queued /\ IsFiniteSet(c.queued)
    <2>1. IsFiniteSet(s.queued) /\ DOMAIN h.slots \subseteq s.queued
      BY DEF SessionInvariant
    <2> QED BY <2>1, <1>3, <1>7, FS_AddElement
  <1>d. SessionInvariant(c)
    BY <1>7, <1>9, <1>a, <1>b, <1>c DEF SessionInvariant
  <1> QED BY <1>3, <1>4, <1>5, <1>7, <1>8, <1>d DEF c, IsOpen

(* Who holds a turn says nothing of its journal.                             *)
LEMMA SameJournalKeeps ==
    ASSUME NEW s, SessionInvariant(s), NEW c, SessionType(c), c.history = s.history, c.queued = s.queued,
           c.head.turns = s.head.turns, c.head.open.turn = s.head.open.turn, c.head.inbox = s.head.inbox
    PROVE  SessionInvariant(c) /\ TurnsGoOn(s, c)
  <1>1. TurnsAgree(c) /\ InboxAgrees(c) /\ InputsAreOpen(c) /\ DOMAIN c.history.slots \subseteq c.queued /\ IsFiniteSet(c.queued)
    BY DEF SessionInvariant, TurnsAgree, InboxAgrees, InputsAreOpen
  <1>2. TurnsGoOn(s, c)
    BY SessionTurns DEF TurnsGoOn
  <1> QED BY <1>1, <1>2 DEF SessionInvariant

KeptGone(s, c, d, gone) ==
    /\ SessionInvariant(c) /\ TurnsGoOn(s, c) /\ c.head = s.head /\ c.history = s.history /\ (c.gone <=> s.gone \/ gone)
    /\ c.gone \in BOOLEAN
    /\ SessionInvariant(d) /\ TurnsGoOn(s, d) /\ d.history = s.history /\ (d.gone <=> s.gone \/ gone)
    /\ d.gone \in BOOLEAN
    /\ d.head.open.turn = s.head.open.turn /\ d.head.turns = s.head.turns /\ d.head.open.holder = NoInstance

LEMMA GoneKeeps ==
    ASSUME NEW s, SessionInvariant(s), NEW gone \in BOOLEAN
    PROVE  KeptGone(s, [s EXCEPT !.gone = s.gone \/ gone],
                       [s EXCEPT !.head.open.holder = NoInstance, !.gone = s.gone \/ gone], gone)
  <1> DEFINE c == [s EXCEPT !.gone = s.gone \/ gone]
             open == [s.head.open EXCEPT !.holder = NoInstance]
             head == [s.head EXCEPT !.open = open]
             d == [s EXCEPT !.head = head, !.gone = s.gone \/ gone]
             h == s.history
  <1>1. s \in [head : State, gone : BOOLEAN, seq : Nat, queued : SUBSET Item, history : {h}] /\ HistoryType(h)
    BY DEF SessionInvariant, SessionType
  <1>2. open \in OpenTurn /\ open.turn = s.head.open.turn /\ open.holder = NoInstance
    BY <1>1 DEF State, OpenTurn
  <1> HIDE DEF open
  <1>3. head \in State /\ head.open = open /\ head.turns = s.head.turns /\ head.inbox = s.head.inbox
    BY <1>1, <1>2 DEF State
  <1> HIDE DEF head, h
  <1>4. /\ c \in [head : State, gone : BOOLEAN, seq : Nat, queued : SUBSET Item, history : {h}]
        /\ c.head = s.head /\ c.history = h /\ c.queued = s.queued /\ (c.gone <=> s.gone \/ gone) /\ c.gone \in BOOLEAN
    BY <1>1
  <1>5. /\ d \in [head : State, gone : BOOLEAN, seq : Nat, queued : SUBSET Item, history : {h}]
        /\ d.head = head /\ d.history = h /\ d.queued = s.queued /\ (d.gone <=> s.gone \/ gone) /\ d.gone \in BOOLEAN
    BY <1>1, <1>3
  <1>6. d = [s EXCEPT !.head.open.holder = NoInstance, !.gone = s.gone \/ gone]
    BY DEF head, open
  <1> HIDE DEF c, d
  <1>7. SessionType(c) /\ SessionType(d)
    BY <1>1, <1>4, <1>5 DEF SessionType
  <1>8. SessionInvariant(c) /\ TurnsGoOn(s, c)
    BY <1>4, <1>7, SameJournalKeeps DEF h
  <1>9. SessionInvariant(d) /\ TurnsGoOn(s, d)
    BY <1>2, <1>3, <1>5, <1>7, SameJournalKeeps DEF h
  <1>a. KeptGone(s, c, d, gone)
    BY <1>2, <1>3, <1>4, <1>5, <1>8, <1>9 DEF KeptGone, h
  <1> QED BY <1>6, <1>a DEF c

-----------------------------------------------------------------------------
(* How a session may go on in one step, of a drainer or beside it.           *)

Held(s, t) == IsOpen(s.head) /\ ~s.gone /\ s.head.open.holder = here /\ s.head.open.turn = t
EndedIn(c, t) == c.history.turns[t].ended # "open"
FailedIn(c, t) == c.history.turns[t].ended \in {"failed", "partial"}

(* No turn comes to be held here, and only turn over is taken over.          *)
Goes(s, c, over) ==
    /\ SessionInvariant(c) /\ TurnsGoOn(s, c)
    /\ \A t \in 1..s.head.turns :
         /\ Held(c, t) => Held(s, t)
         /\ ~EndedIn(s, t) /\ EndedIn(c, t) /\ c.history.turns[t].code = "turn.takeover" => t = over

(* None of these turns fails or changes hands.                               *)
Quietly(s, c, turns) ==
    /\ \A t \in turns : FailedIn(c, t) => FailedIn(s, t)
    /\ c.head.open.turn \in turns =>
         c.head.open.turn = s.head.open.turn /\ c.head.open.holder \in {s.head.open.holder, NoInstance}

LEMMA StaysGoes ==
    ASSUME NEW s, SessionInvariant(s), NEW over, NEW turns PROVE Goes(s, s, over) /\ Quietly(s, s, turns)
  <1>1. TurnsGoOn(s, s)
    BY SessionTurns DEF TurnsGoOn
  <1> QED BY <1>1 DEF Goes, Quietly

LEMMA GoesOn ==
    ASSUME NEW s, NEW r, NEW c, NEW over, Goes(s, r, over), Goes(r, c, 0),
           NEW turns, turns \subseteq 1..s.head.turns, Quietly(s, r, turns), Quietly(r, c, turns)
    PROVE  Goes(s, c, over) /\ Quietly(s, c, turns)
  <1>1. TurnsGoOn(s, r) /\ TurnsGoOn(r, c)
    BY DEF Goes
  <1>2. TurnsGoOn(s, c)
    BY <1>1 DEF TurnsGoOn
  <1>3. ASSUME NEW t \in 1..s.head.turns
        PROVE  /\ Held(c, t) => Held(s, t)
               /\ ~EndedIn(s, t) /\ EndedIn(c, t) /\ c.history.turns[t].code = "turn.takeover" => t = over
    <2>1. t \in 1..r.head.turns /\ t # 0
      BY <1>1 DEF TurnsGoOn
    <2>2. CASE EndedIn(r, t)
      <3>1. c.history.turns[t] = r.history.turns[t]
        BY <2>1, <2>2, <1>1 DEF TurnsGoOn, EndedIn
      <3> QED BY <2>1, <3>1 DEF Goes, EndedIn
    <2>3. CASE ~EndedIn(r, t)
      BY <2>1, <2>3 DEF Goes
    <2> QED BY <2>2, <2>3
  <1>4. Goes(s, c, over)
    BY <1>2, <1>3 DEF Goes
  <1>5. Quietly(s, c, turns)
    BY DEF Quietly
  <1> QED BY <1>4, <1>5

GoesClosed(s, c, reason, over) ==
    /\ Goes(s, c, over) /\ c.head.turns = s.head.turns /\ c.queued = s.queued
    /\ ~IsOpen(c.head) /\ c.head.open = NoTurn /\ c.history.turns[s.head.open.turn].ended = reason
    /\ \A t \in 1..s.head.turns : t # s.head.open.turn => c.history.turns[t] = s.history.turns[t]
    /\ \A turns : turns \subseteq 1..s.head.turns /\ (s.head.open.turn \in turns => reason \notin {"failed", "partial"})
         => Quietly(s, c, turns)

LEMMA ClosingGoes ==
    ASSUME NEW s, SessionInvariant(s), IsOpen(s.head), NEW reason \in Reason, NEW code \in Code, NEW tried,
           NEW over, code = "turn.takeover" => s.head.open.turn = over
    PROVE  GoesClosed(s, Closing(s, reason, code, tried), reason, over)
  <1> DEFINE c == Closing(s, reason, code, tried)
             turn == s.head.open.turn
  <1>1. /\ SessionInvariant(c) /\ TurnsGoOn(s, c) /\ c.head.turns = s.head.turns /\ c.queued = s.queued
        /\ c.head.open = NoTurn /\ c.gone = FALSE
        /\ c.history.turns[turn].ended = reason /\ c.history.turns[turn].code = code
        /\ \A n \in 1..s.head.turns : n # turn => c.history.turns[n] = s.history.turns[n]
    <2>1. KeptClosed(s, c, reason, code)
      BY ClosingKeeps
    <2> HIDE DEF c
    <2> QED BY <2>1 DEF KeptClosed
  <1>2. s.head.turns \in Nat
    BY SessionTurns
  <1> HIDE DEF c
  <1>3. ~IsOpen(c.head) /\ c.head.open.turn = 0
    BY <1>1 DEF IsOpen, NoTurn
  <1>4. ASSUME NEW t \in 1..s.head.turns
        PROVE  /\ Held(c, t) => Held(s, t)
               /\ ~EndedIn(s, t) /\ EndedIn(c, t) /\ c.history.turns[t].code = "turn.takeover" => t = over
    BY <1>1, <1>3 DEF Held, EndedIn
  <1>5. Goes(s, c, over)
    BY <1>1, <1>4 DEF Goes
  <1>6. ASSUME NEW turns, turns \subseteq 1..s.head.turns, turn \in turns => reason \notin {"failed", "partial"}
        PROVE  Quietly(s, c, turns)
    <2>1. 0 \notin turns
      BY <1>2, <1>6
    <2>2. ASSUME NEW t \in turns PROVE FailedIn(c, t) => FailedIn(s, t)
      <3>1. CASE t = turn
        BY <3>1, <1>1, <1>6 DEF FailedIn
      <3>2. CASE t # turn
        BY <3>2, <1>1, <1>6 DEF FailedIn
      <3> QED BY <3>1, <3>2
    <2> QED BY <2>1, <2>2, <1>3 DEF Quietly
  <1> HIDE DEF turn
  <1>7. GoesClosed(s, c, reason, over)
    BY <1>1, <1>3, <1>5, <1>6 DEF GoesClosed, turn
  <1> QED BY <1>7 DEF c

(* A begin that finds a turn nobody holds, or the one it takes over.         *)
GoesReaped(s, r, over) ==
    /\ Goes(s, r, over) /\ r.head.turns = s.head.turns /\ r.queued = s.queued
    /\ \A turns : turns \subseteq 1..s.head.turns => Quietly(s, r, turns)

LEMMA ReapedGoes ==
    ASSUME NEW s, SessionInvariant(s), NEW over PROVE GoesReaped(s, ReapedFor(s, over), over)
  <1> DEFINE r == ReapedFor(s, over)
             lapsed == Closing(s, "interrupted", "turn.lease", TRUE)
             taken == Closing(s, "interrupted", "turn.takeover", FALSE)
  <1>1. "interrupted" \in Reason /\ "turn.lease" \in Code /\ "turn.takeover" \in Code
    BY DEF Reason, Code
  <1>2. IsOpen(s.head) => GoesClosed(s, lapsed, "interrupted", over)
    BY <1>1, ClosingGoes, Zenon
  <1>3. IsOpen(s.head) /\ s.head.open.turn = over => GoesClosed(s, taken, "interrupted", over)
    BY <1>1, ClosingGoes, Zenon
  <1>4. \/ r = s
        \/ IsOpen(s.head) /\ r = lapsed
        \/ IsOpen(s.head) /\ s.head.open.turn = over /\ r = taken
    BY DEF ReapedFor
  <1> HIDE DEF r, lapsed, taken
  <1>5. GoesReaped(s, s, over)
    BY StaysGoes DEF GoesReaped
  <1>6. GoesReaped(s, r, over)
    BY <1>2, <1>3, <1>4, <1>5 DEF GoesReaped, GoesClosed
  <1> QED BY <1>6 DEF r

LEMMA OpeningGoes ==
    ASSUME NEW s, SessionInvariant(s), NEW holder, NEW origin, NEW input, NEW resumes, NEW taking,
           MayOpen(s, holder, origin, input, resumes, taking)
    PROVE  LET c == Opening(s, holder, origin, input, resumes, taking) IN
           /\ Goes(s, c, 0) /\ \A turns : turns \subseteq 1..s.head.turns => Quietly(s, c, turns)
  <1> DEFINE c == Opening(s, holder, origin, input, resumes, taking)
  <1>1. /\ SessionInvariant(c) /\ TurnsGoOn(s, c)
        /\ c.head.turns = s.head.turns + 1 /\ c.head.open.turn = s.head.turns + 1
        /\ \A n \in 1..s.head.turns : c.history.turns[n] = s.history.turns[n]
    BY OpeningKeeps
  <1>2. s.head.turns \in Nat
    BY SessionTurns
  <1> HIDE DEF c
  <1>3. \A t \in 1..s.head.turns : ~Held(c, t) /\ (EndedIn(c, t) <=> EndedIn(s, t)) /\ (FailedIn(c, t) <=> FailedIn(s, t))
    BY <1>1, <1>2 DEF Held, EndedIn, FailedIn
  <1>4. Goes(s, c, 0)
    BY <1>1, <1>3 DEF Goes
  <1>5. ASSUME NEW turns, turns \subseteq 1..s.head.turns PROVE Quietly(s, c, turns)
    <2>1. c.head.open.turn \notin turns
      BY <1>1, <1>2, <1>5
    <2> QED BY <2>1, <1>3, <1>5 DEF Quietly
  <1> QED BY <1>4, <1>5 DEF c

-----------------------------------------------------------------------------
(* What a begin finds.                                                       *)

(* What waits was queued, and no turn begun on it answered it.               *)
LEMMA WaitingIsOpen ==
    ASSUME NEW s, SessionInvariant(s), NEW item \in PendingOf(s.head)
    PROVE  /\ item \in Item /\ item # NoItem /\ item \in s.queued
           /\ \A u \in ClaimsOf(s.history, item) : ~Answered(s.history, u)
  <1>1. item \in Item /\ item # NoItem
    BY StateConstants DEF PendingOf, Item
  <1>2. item \in DOMAIN s.history.slots
    BY DEF SessionInvariant, InboxAgrees, PendingOf
  <1>3. ASSUME NEW u \in ClaimsOf(s.history, item) PROVE ~Answered(s.history, u)
    <2>1. u \in DOMAIN s.history.turns /\ s.history.turns[u].input = item
      BY DEF ClaimsOf
    <2>2. Answered(s.history, u) => ~Has(s.history, item)
      BY <2>1, <1>1 DEF SessionInvariant, InputsAreOpen
    <2> QED BY <2>2, <1>2 DEF Has
  <1> QED BY <1>1, <1>2, <1>3 DEF SessionInvariant

(* With no turn open, all the journal's slots wait.                          *)
LEMMA SlotsWait ==
    ASSUME NEW s, SessionInvariant(s), ~IsOpen(s.head), NEW item \in DOMAIN s.history.slots
    PROVE  item \in PendingOf(s.head) /\ item # NoItem
  <1>1. item \in Item /\ s.head.inbox[item].in /\ s.head.inbox[item].by = 0
    BY DEF SessionInvariant, InboxAgrees, IsOpen
  <1> QED BY <1>1, StateConstants DEF PendingOf, Item

(* A turn with a queued input, or with none.                                 *)
LEMMA InputMayOpen ==
    ASSUME NEW s, SessionInvariant(s), ~IsOpen(s.head), NEW holder \in Instance \cup {NoInstance},
           NEW item, item = NoItem \/ item \in PendingOf(s.head) \cap Input
    PROVE  MayOpen(s, holder, "user", item, 0, {item} \ {NoItem})
  <1>1. item \in Item \cup {NoItem}
    BY DEF Item
  <1>2. item # NoItem => item \in s.queued /\ \A u \in ClaimsOf(s.history, item) : ~Answered(s.history, u)
    BY WaitingIsOpen
  <1>3. \A other \in DOMAIN s.history.slots : other # NoItem
    BY SlotsWait
  <1>4. 0 \in 0..s.head.turns
    BY SessionTurns
  <1> QED BY <1>1, <1>2, <1>3, <1>4 DEF MayOpen

LEMMA NoticesMayOpen ==
    ASSUME NEW s, SessionInvariant(s), ~IsOpen(s.head), NEW holder \in Instance \cup {NoInstance}
    PROVE  MayOpen(s, holder, "inbox", NoItem, 0, PendingOf(s.head) \cap Notice)
  <1>1. \A other \in DOMAIN s.history.slots : other # NoItem
    BY SlotsWait
  <1>2. 0 \in 0..s.head.turns
    BY SessionTurns
  <1> QED BY <1>1, <1>2 DEF MayOpen

(* A resume takes up its root's input, which no turn answered: the root did  *)
(* not, an earlier turn would have kept it from beginning, and a later one   *)
(* stands in the way of the resume.                                          *)
LEMMA RootMayOpen ==
    ASSUME NEW s, SessionInvariant(s), ~IsOpen(s.head), NEW root, Resumable(s.history, root)
    PROVE  LET input == s.history.turns[root].input IN
           MayOpen(s, here, "user", input, root, {input} \cap PendingOf(s.head))
  <1> DEFINE h == s.history
             input == h.turns[root].input
             taking == {input} \cap PendingOf(s.head)
  <1>1. /\ s.head.turns \in Nat /\ DOMAIN h.turns = 1..s.head.turns
        /\ \A n \in 1..s.head.turns : h.turns[n] \in TurnRecord /\ h.turns[n].ended # "open"
    BY SessionTurns DEF IsOpen
  <1>2. root \in 1..s.head.turns /\ ReasonOf(h, root) \in {"cancelled", "interrupted"}
    BY <1>1 DEF Resumable, UserTurns
  <1>3. root \in 0..s.head.turns /\ input \in Item \cup {NoItem}
    BY <1>1, <1>2 DEF TurnRecord
  <1>4. \A item \in DOMAIN h.slots : item \in taking <=> item \in taking \cap Notice \/ item = input
    BY SlotsWait
  <1>5. \A n \in 1..s.head.turns : ReasonOf(h, n) = h.turns[n].ended
    BY <1>1 DEF ReasonOf
  <1>6. ASSUME input # NoItem
        PROVE  input \in s.queued /\ \A u \in ClaimsOf(h, input) : ~Answered(h, u)
    <2>1. /\ input \in s.queued
          /\ \A u \in ClaimsOf(h, input) : u < root => ~Answered(h, u)
      BY <1>1, <1>2, <1>6 DEF SessionInvariant, InputsAreOpen
    <2>2. ASSUME NEW u \in ClaimsOf(h, input) PROVE ~Answered(h, u)
      <3>1. u \in 1..s.head.turns /\ h.turns[u].input = input
        BY <1>1 DEF ClaimsOf
      <3>2. CASE u < root
        BY <3>2, <2>1
      <3>3. CASE u = root
        BY <3>3, <1>2, <1>5 DEF Answered
      <3>4. CASE u > root
        <4>1. h.turns[u].origin = "user"
          BY <3>1, <1>1, <1>6 DEF SessionInvariant, InputsAreOpen
        <4>2. u \in UserTurns(h) /\ ~Supersedes(h, u, root)
          BY <4>1, <3>1, <1>1 DEF UserTurns, Resumable
        <4>3. ReasonOf(h, u) \in {"cancelled", "interrupted", "failed"}
          BY <4>2, <3>4 DEF Supersedes
        <4> QED BY <4>3, <3>1, <1>5 DEF Answered
      <3> QED BY <3>1, <3>2, <3>3, <3>4, <1>1, <1>2
    <2> QED BY <2>1, <2>2
  <1>7. here \in Instance
    BY DrainConstants
  <1> HIDE DEF input, h, taking
  <1>8. MayOpen(s, here, "user", input, root, taking)
    BY <1>3, <1>4, <1>6, <1>7 DEF MayOpen, h
  <1> QED BY <1>8 DEF input, h, taking

(* A worker begins: what it told, and what of.                               *)
IsTarget(target) ==
    \/ target.kind = "queued" /\ target.of \in Input
    \/ target.kind \in {"inbox", "resume"}

GoesBegun(s, c, target) ==
    /\ Goes(s, c, 0) /\ \A turns : turns \subseteq 1..s.head.turns => Quietly(s, c, turns)
    /\ c.head.turns = s.head.turns + 1 /\ c.head.open.turn = s.head.turns + 1 /\ c.head.open.holder = here
    /\ c.history.turns[s.head.turns + 1].ended = "open"
    /\ RunsWith(c.history, s.head.turns + 1) = TargetRuns(c.history, target)

LEMMA BegunGoes ==
    ASSUME NEW s, SessionInvariant(s), NEW target, IsTarget(target), BeginTold(s, target) = "begun"
    PROVE  GoesBegun(s, Begun(s, target), target)
  <1>1. ~IsOpen(s.head)
    BY DEF BeginTold
  <1>2. here \in Instance \cup {NoInstance}
    BY DrainConstants
  <1>3. ASSUME NEW origin, NEW input, NEW resumes, NEW taking, MayOpen(s, here, origin, input, resumes, taking),
               Begun(s, target) = Opening(s, here, origin, input, resumes, taking),
               resumes # 0 => target.kind = "resume" /\ target.of = resumes,
               resumes = 0 /\ input # NoItem => target.kind = "queued" /\ target.of = input,
               resumes = 0 /\ input = NoItem => target.kind = "inbox"
        PROVE  GoesBegun(s, Begun(s, target), target)
    <2> DEFINE c == Opening(s, here, origin, input, resumes, taking)
               turn == s.head.turns + 1
    <2>1. /\ c.head.turns = turn /\ c.head.open.turn = turn /\ c.head.open.holder = here
          /\ c.history.turns[turn].input = input /\ c.history.turns[turn].resumes = resumes
          /\ c.history.turns[turn].ended = "open"
      BY <1>3, OpeningKeeps
    <2>2. Goes(s, c, 0) /\ \A turns : turns \subseteq 1..s.head.turns => Quietly(s, c, turns)
      BY <1>3, OpeningGoes
    <2> HIDE DEF c
    <2>3. RunsWith(c.history, turn) = TargetRuns(c.history, target)
      BY <1>3, <2>1 DEF RunsWith, TargetRuns
    <2>4. GoesBegun(s, c, target)
      BY <2>1, <2>2, <2>3 DEF GoesBegun
    <2> QED BY <2>4, <1>3 DEF c
  <1>4. CASE target.kind = "queued"
    <2>1. target.of \in PendingOf(s.head) \cap Input
      BY <1>4 DEF BeginTold, IsTarget
    <2>2. MayOpen(s, here, "user", target.of, 0, {target.of} \ {NoItem}) /\ target.of # NoItem
      BY <1>1, <1>2, <2>1, InputMayOpen, WaitingIsOpen
    <2>3. {target.of} \ {NoItem} = {target.of} \cap PendingOf(s.head)
      BY <2>1, <2>2
    <2>4. Begun(s, target) = Opening(s, here, "user", target.of, 0, {target.of} \ {NoItem})
      BY <1>4, <2>3 DEF Begun, BegunInput, Taken
    <2> QED BY <2>2, <2>4, <1>3, <1>4
  <1>5. CASE target.kind = "inbox"
    <2>1. MayOpen(s, here, "inbox", NoItem, 0, PendingOf(s.head) \cap Notice)
      BY <1>1, <1>2, NoticesMayOpen
    <2>2. Begun(s, target) = Opening(s, here, "inbox", NoItem, 0, PendingOf(s.head) \cap Notice)
      BY <1>5 DEF Begun, BegunInput, Taken
    <2> QED BY <2>1, <2>2, <1>3, <1>5
  <1>6. CASE target.kind = "resume"
    <2> DEFINE root == target.of
               input == s.history.turns[root].input
    <2>1. Resumable(s.history, root)
      BY <1>6 DEF BeginTold
    <2>2. root # 0
      BY <2>1, SessionTurns DEF Resumable, UserTurns
    <2>3. MayOpen(s, here, "user", input, root, {input} \cap PendingOf(s.head))
      BY <1>1, <2>1, RootMayOpen
    <2>4. Begun(s, target) = Opening(s, here, "user", input, root, {input} \cap PendingOf(s.head))
      BY <1>6 DEF Begun, BegunInput, Taken
    <2> HIDE DEF input, root
    <2>5. root = target.of
      BY DEF root
    <2> QED BY <2>2, <2>3, <2>4, <2>5, <1>3, <1>6
  <1> QED BY <1>4, <1>5, <1>6 DEF IsTarget

-----------------------------------------------------------------------------
(* The sessions a process may start with.                                    *)

LEMMA FreshHolds == SessionInvariant(Fresh) /\ ~IsOpen(Fresh.head) /\ Fresh.queued = {} /\ Fresh.head.turns = 0
  <1>1. InitialState \in State /\ InitialState.turns = 0 /\ InitialState.open.turn = 0
        /\ \A item \in Item : ~InitialState.inbox[item].in
    <2>1. NoTurn \in OpenTurn /\ NoTurn.turn = 0
      BY DEF NoTurn, OpenTurn, Seal
    <2>2. [i \in Item |-> NoSlot] \in [Item -> Slot] /\ ~NoSlot.in
      BY DEF NoSlot, Slot
    <2> QED BY <2>1, <2>2 DEF InitialState, State
  <1>2. EmptyHistory.turns = <<>> /\ EmptyHistory.slots = [item \in {} |-> [by |-> 0, at |-> 0]] /\ DOMAIN EmptyHistory.slots = {}
    BY DEF EmptyHistory
  <1>3. EmptyHistory \in [slots : {EmptyHistory.slots}, turns : Seq(TurnRecord)]
    BY DEF EmptyHistory
  <1>4. HistoryType(EmptyHistory)
    <2>1. EmptyHistory.slots \in [DOMAIN EmptyHistory.slots -> [by : Nat, at : Nat]]
      BY <1>2
    <2> QED BY <2>1, <1>3 DEF HistoryType
  <1>5. /\ Fresh.head = InitialState /\ Fresh.history = EmptyHistory /\ Fresh.queued = {}
        /\ Fresh \in [head : State, gone : BOOLEAN, seq : Nat, queued : SUBSET Item, history : {Fresh.history}]
    BY <1>1 DEF Fresh
  <1>6. SessionType(Fresh)
    BY <1>4, <1>5 DEF SessionType
  <1>7. TurnsAgree(Fresh) /\ InboxAgrees(Fresh)
    BY <1>1, <1>2, <1>5 DEF TurnsAgree, InboxAgrees
  <1>8. InputsAreOpen(Fresh)
    BY <1>2, <1>5 DEF InputsAreOpen
  <1>9. DOMAIN Fresh.history.slots \subseteq Fresh.queued /\ IsFiniteSet(Fresh.queued)
    BY <1>2, <1>5, FS_EmptySet
  <1> QED BY <1>1, <1>5, <1>6, <1>7, <1>8, <1>9 DEF SessionInvariant, IsOpen

LEMMA BackloggedHolds == SessionInvariant(Backlogged)
  <1> DEFINE items == ToSet(Backlog)
             old == Fresh.history
             inbox == [item \in Item |-> IF item \in items THEN NewSlot ELSE NoSlot]
             slots == [item \in items |-> [by |-> 0, at |-> CHOOSE at \in DOMAIN Backlog : Backlog[at] = item]]
             head == [Fresh.head EXCEPT !.inbox = inbox]
             history == [old EXCEPT !.slots = slots]
             length == Len(Backlog)
             s == Backlogged
  <1>1. Backlog \in Seq(Item) /\ length \in Nat /\ DOMAIN Backlog = 1..length
    BY DrainConstants
  <1>2. items \subseteq Item /\ items = {Backlog[i] : i \in DOMAIN Backlog}
    BY <1>1 DEF ToSet
  <1>3. IsFiniteSet(items)
    <2>1. Backlog \in [1..length -> items]
      BY <1>1, <1>2
    <2>2. Backlog \in Surjection(1..length, items)
      BY <2>1, <1>1, <1>2 DEF Surjection
    <2>3. IsFiniteSet(1..length)
      BY <1>1, FS_Interval
    <2> QED BY <2>2, <2>3, FS_Surjection
  <1>4. \A item \in items : slots[item].by = 0 /\ slots[item] \in [by : Nat, at : Nat]
    <2> SUFFICES ASSUME NEW item \in items PROVE (CHOOSE at \in DOMAIN Backlog : Backlog[at] = item) \in Nat
      OBVIOUS
    <2>1. \E at \in DOMAIN Backlog : Backlog[at] = item
      BY <1>2
    <2> QED BY <2>1, <1>1
  <1>5. DOMAIN slots = items /\ slots \in [items -> [by : Nat, at : Nat]]
    BY <1>4
  <1>6. inbox \in [Item -> Slot] /\ \A item \in Item : (inbox[item].in <=> item \in items) /\ inbox[item].by = 0
    BY DEF NewSlot, NoSlot, Slot
  <1>7. s = [Fresh EXCEPT !.head = head, !.seq = length, !.queued = items, !.history = history]
    BY DEF Backlogged
  <1> HIDE DEF s, inbox, slots, items, length
  <1>8. SessionType(Fresh) /\ TurnsAgree(Fresh) /\ ~IsOpen(Fresh.head) /\ Fresh.head.turns = 0
    BY FreshHolds DEF SessionInvariant
  <1>9. Fresh.head \in State /\ HistoryType(old) /\ old.turns \in Seq(TurnRecord)
    BY <1>8, SessionFields
  <1>a. head \in State /\ head.turns = 0 /\ head.open = Fresh.head.open /\ head.inbox = inbox
    BY <1>6, <1>8, <1>9 DEF State
  <1>b. history \in [slots : {slots}, turns : Seq(TurnRecord)] /\ history.turns = old.turns /\ history.slots = slots
    BY <1>9 DEF HistoryType
  <1>c. HistoryType(history)
    BY <1>5, <1>b DEF HistoryType
  <1> HIDE DEF head, history
  <1>d. /\ s \in [head : State, gone : BOOLEAN, seq : Nat, queued : SUBSET Item, history : {history}]
        /\ s.head = head /\ s.history = history /\ s.queued = items
    <2>1. Fresh \in [head : State, gone : BOOLEAN, seq : Nat, queued : SUBSET Item, history : {old}]
      BY <1>8 DEF SessionType
    <2> HIDE DEF old
    <2> QED BY <2>1, <1>1, <1>2, <1>7, <1>a
  <1>e. SessionType(s)
    BY <1>c, <1>d DEF SessionType
  <1>f. Len(history.turns) = 0 /\ DOMAIN history.turns = {} /\ head.open.turn = 0
    <2>1. Len(old.turns) = 0 /\ head.open.turn = 0
      BY <1>8, <1>a DEF TurnsAgree, IsOpen
    <2> HIDE DEF old
    <2> QED BY <2>1, <1>9, <1>b
  <1>g. TurnsAgree(s) /\ InboxAgrees(s) /\ InputsAreOpen(s)
    <2>1. TurnsAgree(s)
      BY <1>d, <1>f, <1>a DEF TurnsAgree
    <2>2. InboxAgrees(s)
      BY <1>2, <1>4, <1>5, <1>6, <1>a, <1>b, <1>d, <1>f DEF InboxAgrees
    <2>3. InputsAreOpen(s)
      BY <1>d, <1>f DEF InputsAreOpen
    <2> QED BY <2>1, <2>2, <2>3
  <1>h. SessionInvariant(s)
    BY <1>3, <1>5, <1>b, <1>d, <1>e, <1>g DEF SessionInvariant
  <1> QED BY <1>h DEF s

LEMMA LeftOpenHolds ==
    ASSUME NEW item \in Item \cap Input PROVE SessionInvariant(LeftOpen(item))
  <1> DEFINE q == Queueing(Fresh, item)
  <1>1. /\ SessionInvariant(q) /\ q.head.open = Fresh.head.open /\ q.head.turns = 0
        /\ q.history.turns = Fresh.history.turns /\ q.queued = {item}
    BY FreshHolds, QueueingKeeps
  <1>2. ~IsOpen(q.head)
    BY <1>1, FreshHolds DEF IsOpen
  <1>3. ClaimsOf(q.history, item) = {}
    BY <1>1 DEF ClaimsOf, Fresh, EmptyHistory
  <1>4. item # NoItem
    BY StateConstants
  <1> HIDE DEF q
  <1>5. MayOpen(q, NoInstance, "user", item, 0, {item})
    BY <1>1, <1>2, <1>3, <1>4 DEF MayOpen
  <1>6. SessionInvariant(Opening(q, NoInstance, "user", item, 0, {item}))
    BY <1>1, <1>5, OpeningKeeps
  <1> QED BY <1>6 DEF LeftOpen, q

-----------------------------------------------------------------------------
(* What every step makes of the sessions.                                    *)

SessionsHold == \A x \in Session : SessionInvariant(sess[x])

(* The shape of the records that steps update.                               *)
JournalShape ==
    /\ sess = [x \in Session |-> sess[x]]
    /\ drained = [x \in Session |-> drained[x]]
    /\ scan = [on |-> scan.on, first |-> scan.first, of |-> [x \in Session |-> scan.of[x]]]
    /\ \A x \in Session : DOMAIN scan.of[x] = {"step", "mark", "target", "takeOver"}
    /\ \A w \in Worker : worker[w].step = "selected" => IsTarget(worker[w].target)

SessionsGo ==
    /\ sess' = [x \in Session |-> sess'[x]]
    /\ \A x \in Session : \E over : Goes(sess[x], sess'[x], over) /\ (over # 0 => over = sighted[x] /\ ~HeldHere(x, over))
GoQuietly == \A x \in Session : Quietly(sess[x], sess'[x], drained[x])

LEMMA UnchangedGoes ==
    ASSUME SessionsHold, JournalShape, sess' = sess PROVE SessionsGo /\ GoQuietly
  <1>1. \A x \in Session : Goes(sess[x], sess[x], 0) /\ Quietly(sess[x], sess[x], drained[x])
    BY StaysGoes DEF SessionsHold
  <1> QED BY <1>1 DEF SessionsGo, GoQuietly, JournalShape

LEMMA ChangeGoes ==
    ASSUME SessionsHold, JournalShape, NEW x \in Session, NEW c, Change(x, c),
           NEW over, Goes(sess[x], c, over), over # 0 => over = sighted[x] /\ ~HeldHere(x, over)
    PROVE  /\ SessionsGo /\ sess'[x] = c /\ \A y \in Session : y # x => sess'[y] = sess[y]
           /\ Quietly(sess[x], c, drained[x]) => GoQuietly
  <1>1. /\ sess' = [y \in Session |-> sess'[y]] /\ sess'[x] = c
        /\ \A y \in Session : y # x => sess'[y] = sess[y]
    BY DEF Change, JournalShape
  <1>2. \A y \in Session : Goes(sess[y], sess[y], 0) /\ Quietly(sess[y], sess[y], drained[y])
    BY StaysGoes DEF SessionsHold
  <1>3. SessionsGo
    BY <1>1, <1>2 DEF SessionsGo
  <1>4. Quietly(sess[x], c, drained[x]) => GoQuietly
    BY <1>1, <1>2 DEF GoQuietly
  <1> QED BY <1>1, <1>3, <1>4

LEMMA QueueingGoes ==
    ASSUME NEW s, SessionInvariant(s), NEW item \in Item, item \notin s.queued, NEW turns, turns \subseteq 1..s.head.turns
    PROVE  Goes(s, Queueing(s, item), 0) /\ Quietly(s, Queueing(s, item), turns)
  <1> DEFINE c == Queueing(s, item)
  <1>1. /\ SessionInvariant(c) /\ TurnsGoOn(s, c) /\ c.head.open = s.head.open /\ c.head.turns = s.head.turns
        /\ (c.gone <=> s.gone /\ IsOpen(s.head)) /\ c.gone \in BOOLEAN /\ c.history.turns = s.history.turns
    BY QueueingKeeps
  <1> HIDE DEF c
  <1>2. \A t : (Held(c, t) => Held(s, t)) /\ (EndedIn(c, t) <=> EndedIn(s, t)) /\ (FailedIn(c, t) <=> FailedIn(s, t))
    BY <1>1 DEF Held, EndedIn, FailedIn, IsOpen
  <1>3. Goes(s, c, 0) /\ Quietly(s, c, turns)
    BY <1>1, <1>2 DEF Goes, Quietly
  <1> QED BY <1>3 DEF c

LEMMA GoneGoes ==
    ASSUME NEW s, SessionInvariant(s), NEW gone \in BOOLEAN, NEW turns
    PROVE  /\ Goes(s, [s EXCEPT !.gone = s.gone \/ gone], 0) /\ Quietly(s, [s EXCEPT !.gone = s.gone \/ gone], turns)
           /\ Goes(s, Orphaned(s, gone), 0) /\ Quietly(s, Orphaned(s, gone), turns)
           /\ \A t : ~Held(Orphaned(s, gone), t)
  <1> DEFINE c == [s EXCEPT !.gone = s.gone \/ gone]
             d == [s EXCEPT !.head.open.holder = NoInstance, !.gone = s.gone \/ gone]
  <1>1. /\ SessionInvariant(c) /\ TurnsGoOn(s, c) /\ c.head = s.head /\ c.history = s.history /\ (c.gone <=> s.gone \/ gone)
        /\ c.gone \in BOOLEAN
        /\ SessionInvariant(d) /\ TurnsGoOn(s, d) /\ d.history = s.history /\ (d.gone <=> s.gone \/ gone)
        /\ d.gone \in BOOLEAN
        /\ d.head.open.turn = s.head.open.turn /\ d.head.turns = s.head.turns /\ d.head.open.holder = NoInstance
    <2>1. KeptGone(s, c, d, gone)
      BY GoneKeeps
    <2> HIDE DEF c, d
    <2> QED BY <2>1 DEF KeptGone
  <1>2. Orphaned(s, gone) = IF IsOpen(s.head) /\ s.head.open.holder = here THEN d ELSE s
    BY DEF Orphaned
  <1>3. NoInstance # here
    BY StateConstants, DrainConstants
  <1> HIDE DEF c, d
  <1>4. \A t : (Held(c, t) => Held(s, t)) /\ ~Held(d, t) /\ (EndedIn(c, t) <=> EndedIn(s, t)) /\ (FailedIn(c, t) <=> FailedIn(s, t))
               /\ (EndedIn(d, t) <=> EndedIn(s, t)) /\ (FailedIn(d, t) <=> FailedIn(s, t))
    BY <1>1, <1>3 DEF Held, EndedIn, FailedIn
  <1>5. Goes(s, c, 0) /\ Quietly(s, c, turns) /\ Goes(s, d, 0) /\ Quietly(s, d, turns)
    BY <1>1, <1>4 DEF Goes, Quietly
  <1>6. Goes(s, s, 0) /\ Quietly(s, s, turns)
    BY StaysGoes
  <1>7. Goes(s, Orphaned(s, gone), 0) /\ Quietly(s, Orphaned(s, gone), turns) /\ \A t : ~Held(Orphaned(s, gone), t)
    BY <1>2, <1>4, <1>5, <1>6 DEF Held
  <1> QED BY <1>5, <1>7 DEF c

SessionsKnown == SessionsHold /\ JournalShape /\ \A x \in Session : DrainsOwn(x)

(* A turn ends, by whoever.                                                  *)
EndsTo(x, reason) ==
    /\ SessionsGo
    /\ (sess[x].head.open.turn \in drained[x] => reason \notin {"failed", "partial"}) => GoQuietly
    /\ GoesClosed(sess[x], sess'[x], reason, 0)
    /\ \A y \in Session : y # x => sess'[y] = sess[y]

LEMMA EndGoes ==
    ASSUME SessionsKnown, NEW x \in Session, IsOpen(sess[x].head), NEW reason \in Reason,
           NEW code \in Code \ {"turn.takeover"}, NEW tried, Change(x, Closing(sess[x], reason, code, tried))
    PROVE  EndsTo(x, reason)
  <1> DEFINE s == sess[x]
             c == Closing(s, reason, code, tried)
  <1>1. SessionInvariant(s) /\ drained[x] \subseteq 1..s.head.turns /\ code \in Code /\ code # "turn.takeover"
    BY DEF SessionsKnown, SessionsHold, DrainsOwn
  <1> HIDE DEF s
  <1>2. IsOpen(s.head) /\ Change(x, c)
    BY DEF s
  <1>3. GoesClosed(s, c, reason, 0)
    BY <1>1, <1>2, ClosingGoes
  <1> HIDE DEF c
  <1>4. Goes(s, c, 0) /\ ((s.head.open.turn \in drained[x] => reason \notin {"failed", "partial"}) => Quietly(s, c, drained[x]))
    BY <1>1, <1>3 DEF GoesClosed
  <1>5. /\ SessionsGo /\ sess'[x] = c /\ (\A y \in Session : y # x => sess'[y] = sess[y])
        /\ Quietly(s, c, drained[x]) => GoQuietly
    BY <1>2, <1>4, ChangeGoes DEF SessionsKnown, s
  <1> QED BY <1>3, <1>4, <1>5 DEF s, EndsTo

LEMMA EnqueueGoes ==
    ASSUME SessionsKnown, NEW x \in Session, NEW item \in Item, Enqueue(x, item) PROVE SessionsGo /\ GoQuietly
  <1>1. SessionInvariant(sess[x]) /\ drained[x] \subseteq 1..sess[x].head.turns
    BY DEF SessionsKnown, SessionsHold, DrainsOwn
  <1>2. item \notin sess[x].queued /\ Change(x, Queueing(sess[x], item))
    BY DEF Enqueue
  <1>3. Goes(sess[x], Queueing(sess[x], item), 0) /\ Quietly(sess[x], Queueing(sess[x], item), drained[x])
    BY <1>1, <1>2, QueueingGoes
  <1> QED BY <1>2, <1>3, ChangeGoes DEF SessionsKnown

LEMMA ForeignBeginGoes ==
    ASSUME SessionsKnown, NEW x \in Session, NEW i \in Instance, NEW item \in Input \cup {NoItem}, ForeignBegin(x, i, item)
    PROVE  SessionsGo /\ GoQuietly
  <1> DEFINE s == sess[x]
             r == ReapedFor(s, 0)
             c == Opening(r, i, "user", item, 0, {item} \ {NoItem})
  <1>1. SessionInvariant(s) /\ drained[x] \subseteq 1..s.head.turns
    BY DEF SessionsKnown, SessionsHold, DrainsOwn
  <1>2. ~IsOpen(r.head) /\ item \in {NoItem} \cup (PendingOf(r.head) \cap Input) /\ Change(x, c)
    BY DEF ForeignBegin
  <1> HIDE DEF s
  <1>3. GoesReaped(s, r, 0)
    BY <1>1, ReapedGoes
  <1> HIDE DEF r
  <1>4. SessionInvariant(r) /\ Goes(s, r, 0) /\ Quietly(s, r, drained[x]) /\ drained[x] \subseteq 1..r.head.turns
    BY <1>1, <1>3 DEF GoesReaped, Goes
  <1>5. MayOpen(r, i, "user", item, 0, {item} \ {NoItem})
    BY <1>2, <1>4, InputMayOpen
  <1>6. Goes(r, c, 0) /\ Quietly(r, c, drained[x])
    BY <1>4, <1>5, OpeningGoes
  <1> HIDE DEF c
  <1>7. Goes(s, c, 0) /\ Quietly(s, c, drained[x])
    BY <1>1, <1>4, <1>6, GoesOn
  <1> QED BY <1>2, <1>7, ChangeGoes DEF SessionsKnown, s

(* The drainer's own turns end by its worker: what ends beside it is another *)
(* turn, or does not fail.                                                   *)
LEMMA BesideEndsQuietly ==
    ASSUME SessionsKnown, NEW x \in Session,
           \/ \E reason \in Reason : ForeignEnd(x, reason)
           \/ \E code \in Closes : CloseBeside(x, code)
           \/ ShutdownCloses(x)
    PROVE  SessionsGo /\ GoQuietly
  <1>1. ASSUME NEW reason \in Reason, ForeignEnd(x, reason) PROVE SessionsGo /\ GoQuietly
    <2>1. /\ HeldOpen(x) /\ sess[x].head.open.holder # NoInstance /\ ~Drains(x, sess[x].head.open.turn)
          /\ Change(x, Closing(sess[x], reason, "own", TRUE))
      BY <1>1 DEF ForeignEnd
    <2>2. IsOpen(sess[x].head) /\ ~sess[x].gone /\ "own" \in Code \ {"turn.takeover"}
      BY <2>1 DEF HeldOpen, Code
    <2>3. sess[x].head.open.holder \in {here, elsewhere}
      <3>1. sess[x].head.open.holder \in Instance \cup {NoInstance}
        BY SessionTurns DEF SessionsKnown, SessionsHold, State, OpenTurn
      <3> QED BY <2>1, <3>1, DrainConstants
    <2>4. sess[x].head.open.turn \notin drained[x]
      BY <2>1, <2>2, <2>3 DEF SessionsKnown, DrainsOwn, HeldHere
    <2>5. EndsTo(x, reason)
      BY <2>1, <2>2, EndGoes, Zenon
    <2> QED BY <2>2, <2>5, <2>4 DEF EndsTo
  <1>2. ASSUME NEW code \in Closes, CloseBeside(x, code) PROVE SessionsGo /\ GoQuietly
    <2> DEFINE reason == IF code = "cancelled" THEN "cancelled" ELSE "interrupted"
    <2>1. IsOpen(sess[x].head) /\ Change(x, Closing(sess[x], reason, code, TRUE))
      BY <1>2 DEF CloseBeside, HeldOpen
    <2>2. reason \in Reason /\ reason \notin {"failed", "partial"} /\ code \in Code \ {"turn.takeover"}
      BY DrainConstants DEF Reason, Code
    <2> HIDE DEF reason
    <2>3. EndsTo(x, reason)
      BY <2>1, <2>2, EndGoes, Zenon
    <2> QED BY <2>2, <2>3 DEF EndsTo
  <1>3. CASE ShutdownCloses(x)
    <2>1. IsOpen(sess[x].head) /\ Change(x, Closing(sess[x], "interrupted", "turn.shutdown", FALSE))
      BY <1>3 DEF ShutdownCloses, HeldOpen
    <2>2. "interrupted" \in Reason /\ "interrupted" \notin {"failed", "partial"} /\ "turn.shutdown" \in Code \ {"turn.takeover"}
      BY DEF Reason, Code
    <2>3. EndsTo(x, "interrupted")
      BY <2>1, <2>2, EndGoes, Zenon
    <2> QED BY <2>2, <2>3 DEF EndsTo
  <1> QED BY <1>1, <1>2, <1>3

LEMMA LapseGoes ==
    ASSUME SessionsKnown, NEW x \in Session, Change(x, [sess[x] EXCEPT !.gone = TRUE])
    PROVE  /\ SessionsGo /\ GoQuietly /\ sess'[x] = [sess[x] EXCEPT !.gone = sess[x].gone \/ TRUE]
           /\ \A y \in Session : y # x => sess'[y] = sess[y]
  <1> DEFINE s == sess[x]
             c == [s EXCEPT !.gone = s.gone \/ TRUE]
  <1>1. SessionInvariant(s)
    BY DEF SessionsKnown, SessionsHold
  <1>2. Change(x, c)
    BY Zenon
  <1>3. Goes(s, c, 0) /\ Quietly(s, c, drained[x])
    BY <1>1, GoneGoes, Zenon
  <1> HIDE DEF c
  <1> QED BY <1>2, <1>3, ChangeGoes DEF SessionsKnown, c

LEMMA RestartGoes ==
    ASSUME SessionsKnown, Restart PROVE SessionsGo /\ GoQuietly /\ \A x \in Session : \A t : ~Held(sess'[x], t)
  <1>1. PICK gone \in BOOLEAN : sess' = [x \in Session |-> Orphaned(sess[x], gone)]
    BY DEF Restart
  <1>2. \A x \in Session : /\ Goes(sess[x], Orphaned(sess[x], gone), 0)
                           /\ Quietly(sess[x], Orphaned(sess[x], gone), drained[x])
                           /\ \A t : ~Held(Orphaned(sess[x], gone), t)
    BY GoneGoes DEF SessionsKnown, SessionsHold
  <1> QED BY <1>1, <1>2 DEF SessionsGo, GoQuietly

(* A worker begins.                                                          *)
BeginsTo(s, c, target, turns) ==
    /\ Quietly(s, c, turns) /\ c.head.turns = s.head.turns + 1
    /\ c.head.open.turn = s.head.turns + 1 /\ c.head.open.holder = here
    /\ c.history.turns[s.head.turns + 1].ended = "open"
    /\ RunsWith(c.history, s.head.turns + 1) = TargetRuns(c.history, target)

LEMMA BeginGoes ==
    ASSUME SessionsKnown, NEW x \in Session, NEW over, over # 0 => over = sighted[x] /\ ~HeldHere(x, over),
           NEW target, IsTarget(target), BeginTold(ReapedFor(sess[x], over), target) = "begun",
           Change(x, Begun(ReapedFor(sess[x], over), target))
    PROVE  /\ SessionsGo /\ BeginsTo(sess[x], sess'[x], target, drained[x])
           /\ \A y \in Session : y # x => sess'[y] = sess[y]
           /\ ReapedFor(sess[x], over).head.turns = sess[x].head.turns
  <1> DEFINE s == sess[x]
             r == ReapedFor(s, over)
             c == Begun(r, target)
  <1>1. SessionInvariant(s) /\ drained[x] \subseteq 1..s.head.turns
    BY DEF SessionsKnown, SessionsHold, DrainsOwn
  <1>2. BeginTold(r, target) = "begun" /\ Change(x, c)
    OBVIOUS
  <1> HIDE DEF s
  <1>3. GoesReaped(s, r, over)
    BY <1>1, ReapedGoes
  <1> HIDE DEF r
  <1>4. /\ SessionInvariant(r) /\ Goes(s, r, over) /\ Quietly(s, r, drained[x]) /\ drained[x] \subseteq 1..r.head.turns
        /\ r.head.turns = s.head.turns
    BY <1>1, <1>3 DEF GoesReaped, Goes
  <1>5. GoesBegun(r, c, target)
    BY <1>2, <1>4, BegunGoes
  <1> HIDE DEF c
  <1>6. Goes(s, c, over) /\ Quietly(s, c, drained[x])
    BY <1>1, <1>4, <1>5, GoesOn DEF GoesBegun
  <1>7. BeginsTo(s, c, target, drained[x])
    BY <1>4, <1>5, <1>6 DEF GoesBegun, BeginsTo
  <1>8. SessionsGo /\ sess'[x] = c /\ \A y \in Session : y # x => sess'[y] = sess[y]
    BY <1>2, <1>6, ChangeGoes DEF SessionsKnown, s
  <1> QED BY <1>4, <1>7, <1>8 DEF s, r

-----------------------------------------------------------------------------
(* What a drainer may go by.                                                 *)

(* A begun turn's input was not answered; a closed turn is what it was.      *)
LEMMA GoneOnAnswers ==
    ASSUME SessionsHold, SessionsGo
    PROVE  /\ SessionsHold'
           /\ \A x \in Session : \A t \in 1..sess[x].head.turns :
                ClosedBy(x, t, "turn.takeover") => t = sighted[x] /\ ~HeldHere(x, t)
           /\ \A x \in Session : \A t \in (1..sess'[x].head.turns) \ (1..sess[x].head.turns) :
                LET input == sess'[x].history.turns[t].input
                IN input # NoItem => ~\E u \in ClaimsOf(sess[x].history, input) :
                     sess[x].history.turns[u].ended \in {"completed", "waiting"}
  <1>1. SessionsHold'
    BY DEF SessionsGo, SessionsHold, Goes
  <1>2. ASSUME NEW x \in Session, NEW t \in 1..sess[x].head.turns, ClosedBy(x, t, "turn.takeover")
        PROVE  t = sighted[x] /\ ~HeldHere(x, t)
    <2>1. PICK over : Goes(sess[x], sess'[x], over) /\ (over # 0 => over = sighted[x] /\ ~HeldHere(x, over))
      BY DEF SessionsGo
    <2>2. t = over
      BY <1>2, <2>1 DEF Goes, ClosedBy, EndedIn
    <2>3. t # 0
      OBVIOUS
    <2> QED BY <2>1, <2>2, <2>3
  <1>3. ASSUME NEW x \in Session, NEW t \in (1..sess'[x].head.turns) \ (1..sess[x].head.turns),
               sess'[x].history.turns[t].input # NoItem,
               NEW u \in ClaimsOf(sess[x].history, sess'[x].history.turns[t].input),
               sess[x].history.turns[u].ended \in {"completed", "waiting"}
        PROVE  FALSE
    <2> DEFINE s == sess[x]
               c == sess'[x]
               input == c.history.turns[t].input
    <2>1. TurnsGoOn(s, c) /\ SessionInvariant(c)
      BY DEF SessionsGo, Goes
    <2> HIDE DEF s, c
    <2>2. /\ s.head.turns \in Nat /\ c.head.turns \in Nat /\ s.head.turns <= c.head.turns
          /\ DOMAIN s.history.turns = 1..s.head.turns /\ DOMAIN c.history.turns = 1..c.head.turns
      BY <2>1 DEF TurnsGoOn
    <2>3. u \in 1..s.head.turns /\ s.history.turns[u].input = input
      BY <2>2 DEF ClaimsOf, s, c
    <2>4. t \in 1..c.head.turns /\ t \notin 1..s.head.turns
      BY DEF s, c
    <2>5. u < t /\ u \in 1..c.head.turns
      BY <2>2, <2>3, <2>4
    <2>6. c.history.turns[u] = s.history.turns[u] /\ s.history.turns[u].ended \in {"completed", "waiting"}
      BY <1>3, <2>1, <2>3 DEF TurnsGoOn, s
    <2>7. u \in ClaimsOf(c.history, input) /\ Answered(c.history, u)
      BY <2>2, <2>3, <2>5, <2>6 DEF ClaimsOf, Answered
    <2>8. input # NoItem
      BY <1>3 DEF c
    <2>9. ~Answered(c.history, u)
      BY <2>1, <2>2, <2>4, <2>5, <2>7, <2>8 DEF SessionInvariant, InputsAreOpen
    <2> QED BY <2>7, <2>9
  <1> QED BY <1>1, <1>2, <1>3

-----------------------------------------------------------------------------
(* What a takeover may name.                                                 *)

Known == DrainInvariant /\ SessionsKnown /\ SightInvariant

LEMMA SightedIsPast ==
    ASSUME SessionsHold, SightInvariant, SessionsGo, NEW x \in Session
    PROVE  /\ sighted[x] \in 0..sess'[x].head.turns /\ sess[x].head.turns \in Nat
           /\ sess[x].head.turns <= sess'[x].head.turns /\ sess'[x].head.turns \in Nat
           /\ \A t \in 1..sess[x].head.turns : Held(sess'[x], t) => Held(sess[x], t)
           /\ sighted[x] # 0 => sighted[x] \in 1..sess[x].head.turns
  <1>1. PICK over : Goes(sess[x], sess'[x], over)
    BY DEF SessionsGo
  <1>2. \A t \in 1..sess[x].head.turns : Held(sess'[x], t) => Held(sess[x], t)
    BY <1>1 DEF Goes
  <1>3. sess[x].head.turns \in Nat /\ sess'[x].head.turns \in Nat /\ sess[x].head.turns <= sess'[x].head.turns
    BY <1>1 DEF Goes, TurnsGoOn
  <1>4. sighted[x] \in 0..sess[x].head.turns
    BY DEF SightInvariant
  <1> QED BY <1>2, <1>3, <1>4

LEMMA NamesGoOn ==
    ASSUME Known, SessionsGo, sighted' = sighted, NEW w \in Worker, worker'[w] = worker[w] PROVE WorkerNames(w)'
  <1> SUFFICES ASSUME worker[w].step # "idle" PROVE WorkerNames(w)'
    BY DEF WorkerNames
  <1>1. PICK x \in Session : x = worker[w].at
    BY DEF Known, DrainInvariant, WorkersHaveJobs, Working
  <1>2. PICK over : over = worker[w].over
    OBVIOUS
  <1>3. /\ Names(x, worker[w].job.takeOver) /\ Names(x, over)
        /\ worker[w].open \in 0..sess[x].head.turns
        /\ over # 0 => ~Held(sess[x], over)
    BY <1>1, <1>2 DEF Known, SightInvariant, WorkerNames, HeldHere, Held
  <1>4. /\ sess[x].head.turns \in Nat /\ sess[x].head.turns <= sess'[x].head.turns /\ sess'[x].head.turns \in Nat
        /\ \A t \in 1..sess[x].head.turns : Held(sess'[x], t) => Held(sess[x], t)
        /\ sighted[x] # 0 => sighted[x] \in 1..sess[x].head.turns
    BY SightedIsPast DEF Known, SessionsKnown
  <1>5. over # 0 => ~Held(sess'[x], over)
    BY <1>3, <1>4 DEF Names
  <1>6. worker[w].open \in 0..sess'[x].head.turns
    BY <1>3, <1>4
  <1> QED BY <1>1, <1>2, <1>3, <1>5, <1>6 DEF WorkerNames, Names, HeldHere, Held

(* A step that leaves the scan alone.                                        *)
LEMMA SightGoesOn ==
    ASSUME Known, SessionsGo, sighted' = sighted, scan' = scan, startup' = startup,
           \A x \in Session : jobs'[x] = jobs[x] \/ (~startup /\ Names(x, jobs'[x].takeOver)),
           \/ worker' = worker
           \/ ~startup /\ \E w \in Worker : WorkerNames(w)' /\ \A v \in Worker : v # w => worker'[v] = worker[v]
    PROVE  SightInvariant'
  <1>1. \A x \in Session : /\ sighted'[x] \in 0..sess'[x].head.turns
                           /\ Names(x, jobs[x].takeOver)' /\ ScanNames(x)'
    <2> SUFFICES ASSUME NEW x \in Session
                 PROVE  /\ sighted'[x] \in 0..sess'[x].head.turns
                        /\ jobs'[x].takeOver \in {0, sighted[x]} /\ ScanNames(x)'
      BY DEF Names
    <2>1. sighted'[x] \in 0..sess'[x].head.turns
      BY SightedIsPast DEF Known, SessionsKnown
    <2>2. Names(x, jobs[x].takeOver) /\ ScanNames(x)
      BY DEF Known, SightInvariant
    <2>3. ScanNames(x)' /\ jobs'[x].takeOver \in {0, sighted[x]}
      BY <2>2 DEF ScanNames, Names
    <2> QED BY <2>1, <2>3
  <1>2. ASSUME NEW v \in Worker PROVE WorkerNames(v)'
    <2>1. CASE worker'[v] = worker[v]
      BY <2>1, NamesGoOn
    <2>2. CASE worker'[v] # worker[v]
      <3>1. PICK w \in Worker : WorkerNames(w)' /\ \A u \in Worker : u # w => worker'[u] = worker[u]
        BY <2>2
      <3>2. v = w
        BY <2>2, <3>1
      <3> QED BY <3>1, <3>2 DEF WorkerNames, Names, HeldHere
    <2> QED BY <2>1, <2>2
  <1>3. (~scan.on => scan = IdleScan)'
    BY DEF Known, SightInvariant
  <1>4. (startup => ~scan.on /\ (\A x \in Session : jobs[x] = NoJob) /\ \A w \in Worker : worker[w].step = "idle")'
    BY DEF Known, SightInvariant
  <1> QED BY <1>1, <1>2, <1>3, <1>4 DEF SightInvariant

(* What happens beside the drainer, but for a restart.                       *)
LEMMA SightStays ==
    ASSUME Known, SessionsGo, UNCHANGED <<drainVars, ghosts>> PROVE SightInvariant'
  <1>1. sighted' = sighted /\ scan' = scan /\ startup' = startup /\ jobs' = jobs /\ worker' = worker
    BY DEF drainVars, ghosts
  <1> QED BY <1>1, SightGoesOn

LEMMA IdleNames == ASSUME NEW w \in Worker, worker'[w] = IdleWorker PROVE WorkerNames(w)'
  BY IdleShape DEF WorkerNames

LEMMA WorkingStarted == ASSUME Known, NEW w \in Worker, Working(w) PROVE ~startup /\ worker[w].at \in Session /\ WorkerNames(w)
  BY DEF Known, SightInvariant, Working, DrainInvariant, WorkersHaveJobs

(* A worker goes on with its job.                                            *)
LEMMA AttemptNames ==
    ASSUME Known, SessionsGo, sighted' = sighted, scan' = scan, startup' = startup, jobs' = jobs,
           NEW w \in Worker, Working(w), NEW rec, Step(w, rec), rec.at = worker[w].at, rec.job = worker[w].job,
           rec.open \in {0, worker[w].open}, rec.over # 0 => rec.over = sighted[worker[w].at] /\ ~Held(sess'[worker[w].at], rec.over)
    PROVE  SightInvariant'
  <1>1. worker'[w] = rec /\ \A v \in Worker : v # w => worker'[v] = worker[v]
    BY DEF Step, Known, DrainInvariant
  <1>2. PICK x \in Session : x = worker[w].at
    BY WorkingStarted
  <1>3. ~startup /\ Names(x, rec.job.takeOver) /\ Names(x, rec.over)
    BY <1>2, WorkingStarted DEF WorkerNames, Working, Names
  <1>4. rec.open \in 0..sess'[x].head.turns
    <2>1. worker[w].open \in 0..sess[x].head.turns
      BY <1>2, WorkingStarted DEF WorkerNames, Working
    <2> QED BY <2>1, SightedIsPast DEF Known, SessionsKnown
  <1>5. WorkerNames(w)'
    BY <1>1, <1>2, <1>3, <1>4 DEF WorkerNames, Names, HeldHere, Held
  <1> QED BY <1>1, <1>3, <1>5, SightGoesOn

LEMMA ResultNames ==
    ASSUME Known, SessionsGo, sighted' = sighted, scan' = scan, startup' = startup, jobs' = jobs,
           NEW w \in Worker, Working(w), NEW result, NEW target, Result(w, result, target)
    PROVE  SightInvariant'
  <1> DEFINE rec == [worker[w] EXCEPT !.step = "finish", !.result = result, !.target = target, !.open = 0, !.over = 0, !.turn = 0]
  <1>1. WorkerShape(worker[w])
    BY DEF Known, DrainInvariant
  <1>2. rec.at = worker[w].at /\ rec.job = worker[w].job /\ rec.open = 0 /\ rec.over = 0
    BY <1>1 DEF WorkerShape
  <1>3. Step(w, rec)
    BY DEF Result
  <1> HIDE DEF rec
  <1> QED BY <1>2, <1>3, AttemptNames

LEMMA ClaimNames ==
    ASSUME Known, SessionsGo, sess' = sess, NEW w \in Worker, NEW x \in Session, Claim(w, x) PROVE SightInvariant'
  <1> DEFINE open == ViewOpen(sess[x])
             job == jobs[x]
             rec == [IdleWorker EXCEPT !.step = "viewed", !.at = x, !.job = job, !.open = open]
  <1>1. jobs[x].tag # "None" /\ job \in {jobs[x]}
    BY DEF Claim, ClaimDrain
  <1>2. jobs[x] # NoJob
    BY <1>1, JobTag DEF NoJob
  <1>3. ~startup
    BY <1>2 DEF Known, SightInvariant
  <1>4. jobs' = [jobs EXCEPT ![x] = Job("Running", jobs[x].target, jobs[x].failures, 0)] /\ Step(w, rec)
        /\ sighted' = sighted /\ scan' = scan /\ startup' = startup
    BY DEF Claim, ClaimDrain, ghosts
  <1>5. Names(x, job.takeOver)
    BY DEF Known, SightInvariant
  <1>6. open \in 0..sess[x].head.turns
    <2>1. sess[x].head.turns \in Nat /\ sess[x].head.open.turn \in {0, sess[x].head.turns}
      BY SessionTurns DEF Known, SessionsKnown, SessionsHold
    <2> QED BY <2>1 DEF ViewOpen
  <1> HIDE DEF open, job
  <1>7. rec.at = x /\ rec.job = job /\ rec.open = open /\ rec.over = 0
    BY DEF IdleWorker
  <1> HIDE DEF rec
  <1>8. worker'[w] = rec /\ \A v \in Worker : v # w => worker'[v] = worker[v]
    BY <1>4 DEF Step, Known, DrainInvariant
  <1>9. WorkerNames(w)'
    BY <1>4, <1>5, <1>6, <1>7, <1>8 DEF WorkerNames, Names
  <1>a. \A y \in Session : jobs'[y] = jobs[y] \/ (~startup /\ Names(y, jobs'[y].takeOver))
    <2>1. Job("Running", jobs[x].target, jobs[x].failures, 0).takeOver = 0
      BY DEF Job
    <2> QED BY <1>3, <1>4, <2>1 DEF Known, DrainInvariant, Names
  <1> QED BY <1>3, <1>4, <1>8, <1>9, <1>a, SightGoesOn

LEMMA SelectNames ==
    ASSUME Known, SessionsGo, sess' = sess, NEW w \in Worker, Select(w) PROVE SightInvariant'
  <1>1. Working(w) /\ jobs' = jobs /\ sighted' = sighted /\ scan' = scan /\ startup' = startup
    BY DEF Select, Working, ghosts
  <1>2. ASSUME NEW target, Step(w, [worker[w] EXCEPT !.step = "selected", !.over = Granted(worker[w].at, worker[w].open, worker[w].job.takeOver),
                                                     !.target = target, !.open = 0])
        PROVE  SightInvariant'
    <2> DEFINE over == Granted(worker[w].at, worker[w].open, worker[w].job.takeOver)
               rec == [worker[w] EXCEPT !.step = "selected", !.over = over, !.target = target, !.open = 0]
    <2>1. WorkerShape(worker[w])
      BY DEF Known, DrainInvariant
    <2>2. over # 0 => over = sighted[worker[w].at] /\ ~Held(sess[worker[w].at], over)
      BY <1>1, WorkingStarted DEF Granted, WorkerNames, Names, Working, HeldHere, Held
    <2>3. Step(w, rec)
      BY <1>2
    <2> HIDE DEF over
    <2>4. rec.at = worker[w].at /\ rec.job = worker[w].job /\ rec.open = 0 /\ rec.over = over
      BY <2>1 DEF WorkerShape
    <2> HIDE DEF rec
    <2> QED BY <1>1, <2>2, <2>3, <2>4, AttemptNames
  <1>3. \/ \E result, target : Result(w, result, target)
        \/ \E target : Step(w, [worker[w] EXCEPT !.step = "selected", !.over = Granted(worker[w].at, worker[w].open, worker[w].job.takeOver),
                                                 !.target = target, !.open = 0])
    BY DEF Select
  <1> QED BY <1>1, <1>2, <1>3, ResultNames

LEMMA BeginNames ==
    ASSUME Known, SessionsGo, NEW w \in Worker, Begin(w) PROVE SightInvariant'
  <1>1. Working(w) /\ jobs' = jobs /\ sighted' = sighted /\ scan' = scan /\ startup' = startup
    BY DEF Begin, Working
  <1>2. \/ \E result, target : Result(w, result, target)
        \/ \E turn : Step(w, [worker[w] EXCEPT !.step = "running", !.turn = turn, !.over = 0])
    BY DEF Begin
  <1>3. ASSUME NEW turn, Step(w, [worker[w] EXCEPT !.step = "running", !.turn = turn, !.over = 0])
        PROVE  SightInvariant'
    <2> DEFINE rec == [worker[w] EXCEPT !.step = "running", !.turn = turn, !.over = 0]
    <2>1. WorkerShape(worker[w])
      BY DEF Known, DrainInvariant
    <2>2. Step(w, rec) /\ rec.at = worker[w].at /\ rec.job = worker[w].job /\ rec.open = worker[w].open /\ rec.over = 0
      BY <1>3, <2>1 DEF WorkerShape
    <2> HIDE DEF rec
    <2> QED BY <1>1, <2>2, AttemptNames
  <1> QED BY <1>1, <1>2, <1>3, ResultNames

LEMMA FinishNames ==
    ASSUME Known, SessionsGo, NEW w \in Worker, Finish(w) PROVE SightInvariant'
  <1>1. PICK x \in Session : x = worker[w].at
    BY WorkingStarted DEF Finish, Working
  <1>2. ~startup /\ sighted' = sighted /\ scan' = scan /\ startup' = startup /\ Step(w, IdleWorker)
    BY WorkingStarted DEF Finish, Working, ghosts
  <1>3. PICK job : jobs' = [jobs EXCEPT ![x] = job] /\ job.takeOver = 0
    BY <1>1 DEF Finish, FinishDrain, NoJob, Job
  <1>4. \A y \in Session : jobs'[y] = jobs[y] \/ (~startup /\ Names(y, jobs'[y].takeOver))
    BY <1>2, <1>3 DEF Known, DrainInvariant, Names
  <1>5. worker'[w] = IdleWorker /\ \A v \in Worker : v # w => worker'[v] = worker[v]
    BY <1>2 DEF Step, Known, DrainInvariant
  <1>6. WorkerNames(w)'
    BY <1>5, IdleNames
  <1> QED BY <1>2, <1>4, <1>5, <1>6, SightGoesOn

(* A scan lists, reads and hands on.                                         *)
LEMMA ScanListNames ==
    ASSUME Known, SessionsGo, sess' = sess, ScanList \/ ScanListFails PROVE SightInvariant' /\ JournalShape'
  <1> DEFINE entry(x) == scan'.of[x]
  <1>1. /\ startup' = FALSE /\ jobs' = jobs /\ worker' = worker /\ drained' = drained
        /\ scan'.on = TRUE /\ scan'.first = startup
        /\ scan' = [on |-> scan'.on, first |-> scan'.first, of |-> [x \in Session |-> scan'.of[x]]]
        /\ \A x \in Session : DOMAIN entry(x) = {"step", "mark", "target", "takeOver"} /\ entry(x).takeOver = 0
    <2>1. DOMAIN Unlisted = {"step", "mark", "target", "takeOver"} /\ Unlisted.takeOver = 0
      BY DEF Unlisted
    <2>2. CASE ScanList
      <3>1. /\ startup' = FALSE /\ jobs' = jobs /\ worker' = worker /\ drained' = drained
            /\ scan' = [on |-> TRUE, first |-> startup,
                        of |-> [x \in Session |-> [Unlisted EXCEPT !.step = "listed", !.mark = MarkOf(sess[x])]]]
        BY <2>2 DEF ScanList
      <3> QED BY <2>1, <3>1
    <2>3. CASE ScanListFails
      <3>1. /\ startup' = FALSE /\ jobs' = jobs /\ worker' = worker /\ drained' = drained
            /\ scan' = [on |-> TRUE, first |-> startup, of |-> [x \in Session |-> Unlisted]]
        BY <2>3 DEF ScanListFails, IdleScan, ghosts
      <3> QED BY <2>1, <3>1
    <2> QED BY <2>2, <2>3
  <1>2. \/ sighted' = sighted
        \/ startup /\ \A x \in Session : sighted'[x] = ViewOpen(sess[x])
    BY DEF ScanList, ScanListFails, ghosts
  <1>3. startup => (\A x \in Session : jobs[x] = NoJob) /\ \A w \in Worker : worker[w].step = "idle"
    BY DEF Known, SightInvariant
  <1>4. NoJob.takeOver = 0
    BY DEF NoJob, Job
  <1>5. ASSUME NEW x \in Session
        PROVE  sighted'[x] \in 0..sess'[x].head.turns /\ Names(x, jobs[x].takeOver)' /\ ScanNames(x)'
    <2>1. sess[x].head.turns \in Nat /\ sess[x].head.open.turn \in {0, sess[x].head.turns}
      BY SessionTurns DEF Known, SessionsKnown, SessionsHold
    <2>2. ViewOpen(sess[x]) \in 0..sess[x].head.turns
      BY <2>1 DEF ViewOpen
    <2>3. sighted'[x] \in 0..sess'[x].head.turns
      BY <1>2, <2>2 DEF Known, SightInvariant
    <2>4. jobs'[x].takeOver \in {0, sighted'[x]}
      <3>1. CASE sighted' = sighted
        BY <3>1, <1>1 DEF Known, SightInvariant, Names
      <3>2. CASE startup
        BY <3>2, <1>1, <1>3, <1>4
      <3> QED BY <3>1, <3>2, <1>2
    <2>5. entry(x).step = "listed" /\ startup => entry(x).mark.open = sighted'[x]
      <3>1. CASE ScanList
        BY <3>1 DEF ScanList, Unlisted, MarkOf
      <3>2. CASE ScanListFails
        BY <3>2 DEF ScanListFails, IdleScan, Unlisted
      <3> QED BY <3>1, <3>2
    <2> QED BY <2>3, <2>4, <2>5, <1>1 DEF ScanNames, Names
  <1>6. ASSUME NEW w \in Worker PROVE WorkerNames(w)'
    <2>1. CASE sighted' = sighted
      BY <2>1, <1>1, NamesGoOn
    <2>2. CASE startup
      BY <2>2, <1>1, <1>3 DEF WorkerNames
    <2> QED BY <2>1, <2>2, <1>2
  <1>7. SightInvariant'
    BY <1>1, <1>5, <1>6 DEF SightInvariant
  <1> QED BY <1>1, <1>7 DEF JournalShape, Known, SessionsKnown

LEMMA ScanSelectNames ==
    ASSUME Known, SessionsGo, sess' = sess, NEW x \in Session, ScanSelect(x) \/ ScanSelectFails(x)
    PROVE  SightInvariant' /\ JournalShape'
  <1>1. /\ scan.on /\ scan.of[x].step = "listed" /\ startup' = startup /\ jobs' = jobs /\ worker' = worker
        /\ drained' = drained /\ sighted' = sighted
        /\ scan' = [scan EXCEPT !.of[x] = Selected(x)] \/ scan' = [scan EXCEPT !.of[x] = Unlisted]
    BY DEF ScanSelect, ScanSelectFails, ghosts
  <1>2. PICK entry : entry \in {Selected(x), Unlisted} /\ scan' = [scan EXCEPT !.of[x] = entry]
    BY <1>1
  <1>3. ~startup /\ Names(x, scan.of[x].takeOver) /\ (scan.first => scan.of[x].mark.open = sighted[x])
        /\ DOMAIN scan.of[x] = {"step", "mark", "target", "takeOver"}
    BY <1>1 DEF Known, SightInvariant, ScanNames, SessionsKnown, JournalShape
  <1>4. /\ DOMAIN entry = {"step", "mark", "target", "takeOver"} /\ entry.step # "listed"
        /\ entry.takeOver \in {0, sighted[x]}
    <2>1. CASE entry = Unlisted
      BY <2>1 DEF Unlisted
    <2>2. CASE entry = Selected(x) /\ Cached(x)
      <3>1. entry = [scan.of[x] EXCEPT !.step = "selected", !.target = scanned[x].target]
        BY <2>2 DEF Selected
      <3> QED BY <3>1, <1>3 DEF Names
    <2>3. CASE entry = Selected(x) /\ ~Cached(x)
      <3> DEFINE open == scan.of[x].mark.open
                 over == Granted(x, open, IF scan.first /\ TakeOver THEN open ELSE 0)
                 target == TargetOf(sess[x].history, open, baseline[x], over # 0)
      <3>1. entry = [scan.of[x] EXCEPT !.step = "selected", !.takeOver = over, !.target = target]
        BY <2>3 DEF Selected
      <3>2. over \in {0, sighted[x]}
        BY <1>3 DEF Granted
      <3> HIDE DEF over, target
      <3> QED BY <3>1, <3>2, <1>3
    <2> QED BY <1>2, <2>1, <2>2, <2>3
  <1>5. /\ scan'.on = scan.on /\ scan'.first = scan.first
        /\ scan' = [on |-> scan'.on, first |-> scan'.first, of |-> [y \in Session |-> scan'.of[y]]]
        /\ scan'.of[x] = entry /\ \A y \in Session : y # x => scan'.of[y] = scan.of[y]
    <2>1. scan = [on |-> scan.on, first |-> scan.first, of |-> [y \in Session |-> scan.of[y]]]
      BY DEF Known, SessionsKnown, JournalShape
    <2> HIDE DEF Known
    <2>2. scan' = [on |-> scan.on, first |-> scan.first, of |-> [y \in Session |-> IF y = x THEN entry ELSE scan.of[y]]]
      BY <1>2, <2>1
    <2> QED BY <2>2
  <1>6. \A y \in Session : DOMAIN scan'.of[y] = {"step", "mark", "target", "takeOver"} /\ ScanNames(y)'
    <2> SUFFICES ASSUME NEW y \in Session
                 PROVE  DOMAIN scan'.of[y] = {"step", "mark", "target", "takeOver"} /\ ScanNames(y)'
      OBVIOUS
    <2>1. CASE y = x
      BY <2>1, <1>1, <1>4, <1>5 DEF ScanNames, Names
    <2>2. CASE y # x
      BY <2>2, <1>1, <1>5 DEF ScanNames, Names, Known, SightInvariant, SessionsKnown, JournalShape
    <2> QED BY <2>1, <2>2
  <1>7. \A w \in Worker : WorkerNames(w)'
    BY <1>1, NamesGoOn
  <1>8. \A y \in Session : sighted'[y] \in 0..sess'[y].head.turns /\ Names(y, jobs[y].takeOver)'
    BY <1>1 DEF Known, SightInvariant, Names
  <1>9. SightInvariant'
    BY <1>1, <1>3, <1>5, <1>6, <1>7, <1>8 DEF SightInvariant
  <1> QED BY <1>1, <1>5, <1>6, <1>9 DEF JournalShape, Known, SessionsKnown

LEMMA IdleScanNames ==
    ASSUME scan' = IdleScan
    PROVE  /\ ~scan'.on /\ \A x \in Session : ScanNames(x)'
           /\ scan' = [on |-> scan'.on, first |-> scan'.first, of |-> [x \in Session |-> scan'.of[x]]]
           /\ \A x \in Session : DOMAIN scan'.of[x] = {"step", "mark", "target", "takeOver"}
  <1>1. DOMAIN Unlisted = {"step", "mark", "target", "takeOver"} /\ Unlisted.takeOver = 0
    BY DEF Unlisted
  <1>2. scan' = [on |-> FALSE, first |-> FALSE, of |-> [x \in Session |-> Unlisted]]
    BY DEF IdleScan
  <1>3. scan'.on = FALSE /\ scan'.first = FALSE /\ scan'.of = [x \in Session |-> Unlisted]
    BY <1>2
  <1>4. scan' = [on |-> scan'.on, first |-> scan'.first, of |-> [x \in Session |-> scan'.of[x]]]
    BY <1>2, <1>3
  <1> QED BY <1>1, <1>3, <1>4 DEF ScanNames, Names

LEMMA ScanDoneNames ==
    ASSUME Known, SessionsGo, sess' = sess, ScanDone PROVE SightInvariant' /\ JournalShape'
  <1>1. /\ scan.on /\ scan' = IdleScan /\ startup' = startup /\ worker' = worker /\ drained' = drained /\ sighted' = sighted
        /\ jobs' = [x \in Session |-> Observed(x, scan.of[x], scan.first /\ TakeOver)]
    BY DEF ScanDone, ObserveDrains, ghosts
  <1>2. ~startup
    BY <1>1 DEF Known, SightInvariant
  <1>3. \A x \in Session : Names(x, jobs[x].takeOver) /\ Names(x, scan.of[x].takeOver) /\ sighted[x] \in 0..sess[x].head.turns
    BY DEF Known, SightInvariant, ScanNames
  <1>4. \A x \in Session : Names(x, jobs[x].takeOver)'
    <2> SUFFICES ASSUME NEW x \in Session PROVE jobs'[x].takeOver \in {0, sighted[x]}
      BY <1>1 DEF Names
    <2>1. Observed(x, scan.of[x], scan.first /\ TakeOver).takeOver \in {0, sighted[x]}
      BY <1>3 DEF Observed, Job, NoJob, Names
    <2> QED BY <2>1, <1>1
  <1>5. \A w \in Worker : WorkerNames(w)'
    BY <1>1, NamesGoOn
  <1>6. SightInvariant'
    BY <1>1, <1>2, <1>3, <1>4, <1>5, IdleScanNames DEF SightInvariant
  <1>7. JournalShape'
    BY <1>1, IdleScanNames DEF JournalShape, Known, SessionsKnown
  <1> QED BY <1>6, <1>7

LEMMA RestartNames ==
    ASSUME SessionsHold, JournalShape, SessionsGo, Restart PROVE SightInvariant' /\ JournalShape'
  <1>1. /\ \A x \in Session : jobs'[x] = NoJob /\ sighted'[x] = 0
        /\ \A w \in Worker : worker'[w] = IdleWorker
        /\ scan' = IdleScan /\ drained' = drained
    BY DEF Restart
  <1>2. NoJob.takeOver = 0
    BY DEF NoJob, Job
  <1>3. \A x \in Session : 0 \in 0..sess'[x].head.turns
    BY GoneOnAnswers, SessionTurns DEF SessionsHold
  <1>4. \A w \in Worker : worker'[w].step = "idle" /\ WorkerNames(w)'
    BY <1>1, IdleShape DEF WorkerNames
  <1>5. \A x \in Session : Names(x, jobs[x].takeOver)'
    BY <1>1, <1>2 DEF Names
  <1>6. SightInvariant'
    BY <1>1, <1>3, <1>4, <1>5, IdleScanNames DEF SightInvariant
  <1>7. JournalShape'
    BY <1>1, <1>4, IdleScanNames DEF JournalShape, SessionsGo
  <1> QED BY <1>6, <1>7

LEMMA SightInit == ASSUME Init, SessionsHold PROVE SightInvariant /\ JournalShape
  <1>1. /\ \A x \in Session : jobs[x] = NoJob /\ sighted[x] = 0
        /\ \A w \in Worker : worker[w] = IdleWorker
        /\ scan = IdleScan /\ drained = [x \in Session |-> {}] /\ sess = [x \in Session |-> sess[x]]
    BY DEF Init
  <1>2. NoJob.takeOver = 0
    BY DEF NoJob, Job
  <1>3. \A x \in Session : 0 \in 0..sess[x].head.turns
    BY SessionTurns DEF SessionsHold
  <1>4. \A w \in Worker : worker[w].step = "idle" /\ WorkerNames(w)
    BY <1>1, IdleShape DEF WorkerNames
  <1>5. \A x \in Session : Names(x, jobs[x].takeOver)
    BY <1>1, <1>2 DEF Names
  <1>6. DOMAIN Unlisted = {"step", "mark", "target", "takeOver"} /\ Unlisted.takeOver = 0
    BY DEF Unlisted
  <1>7. scan = [on |-> FALSE, first |-> FALSE, of |-> [x \in Session |-> Unlisted]]
    BY <1>1 DEF IdleScan
  <1>8. scan.on = FALSE /\ scan.first = FALSE /\ scan.of = [x \in Session |-> Unlisted]
    BY <1>7
  <1>9. SightInvariant
    BY <1>1, <1>3, <1>4, <1>5, <1>6, <1>8 DEF SightInvariant, ScanNames, Names
  <1>a. scan = [on |-> scan.on, first |-> scan.first, of |-> [x \in Session |-> scan.of[x]]]
    BY <1>7, <1>8
  <1> QED BY <1>1, <1>4, <1>6, <1>8, <1>9, <1>a DEF JournalShape

LEMMA ShapeGoesOn ==
    ASSUME JournalShape, SessionsGo, drained' = [x \in Session |-> drained'[x]], scan' = scan,
           \A w \in Worker : worker'[w] = worker[w] \/ (worker'[w].step = "selected" => IsTarget(worker'[w].target))
    PROVE  JournalShape'
  BY DEF JournalShape, SessionsGo

LEMMA TargetsAre ==
    ASSUME NEW h, NEW open, NEW base, NEW takeOver, TargetOf(h, open, base, takeOver) # NoTarget
    PROVE  IsTarget(TargetOf(h, open, base, takeOver))
  <1>1. \A root : IsTarget(Resuming(root))
    BY DEF IsTarget, Resuming
  <1>2. \A item : IsTarget(Of(item))
    BY DEF IsTarget, Of
  <1> QED BY <1>1, <1>2 DEF TargetOf

-----------------------------------------------------------------------------
(* How often a run may fail.                                                 *)

FailedOf(s, turns, runs) == {t \in turns \cap runs : FailedIn(s, t)}
Few(s, turns, runs) == Cardinality(FailedOf(s, turns, runs)) < DrainAttempts
FewEver(s, turns) ==
    /\ \A item \in Input : Cardinality(FailedOf(s, turns, RunsOf(s.history, item))) <= DrainAttempts
    /\ \A root \in DOMAIN s.history.turns : Cardinality(FailedOf(s, turns, ResumesOf(s.history, root))) <= DrainAttempts

LEMMA FailedFinite ==
    ASSUME NEW s, SessionInvariant(s), NEW turns, turns \subseteq 1..s.head.turns, NEW runs
    PROVE  IsFiniteSet(FailedOf(s, turns, runs)) /\ Cardinality(FailedOf(s, turns, runs)) \in Nat
  <1>1. IsFiniteSet(1..s.head.turns)
    BY SessionTurns, FS_Interval
  <1>2. FailedOf(s, turns, runs) \subseteq 1..s.head.turns
    BY DEF FailedOf
  <1> QED BY <1>1, <1>2, FS_Subset, FS_CardinalityType

(* The same turns failed, or fewer.                                          *)
LEMMA CountsStay ==
    ASSUME NEW s, SessionInvariant(s), NEW c, SessionInvariant(c), TurnsGoOn(s, c),
           NEW turns, turns \subseteq 1..s.head.turns, NEW later,
           \A t \in later : FailedIn(c, t) => t \in turns /\ FailedIn(s, t)
    PROVE  /\ \A target : Few(s, turns, TargetRuns(s.history, target)) => Few(c, later, TargetRuns(c.history, target))
           /\ \A t \in 1..s.head.turns :
                Few(s, turns, RunsWith(s.history, t)) => Few(c, later, RunsWith(c.history, t))
           /\ FewEver(s, turns) => FewEver(c, later)
  <1>1. /\ s.head.turns \in Nat /\ c.head.turns \in Nat /\ s.head.turns <= c.head.turns
        /\ DOMAIN s.history.turns = 1..s.head.turns /\ DOMAIN c.history.turns = 1..c.head.turns
        /\ \A n \in 1..s.head.turns : c.history.turns[n].input = s.history.turns[n].input
                                      /\ c.history.turns[n].resumes = s.history.turns[n].resumes
    BY DEF TurnsGoOn
  <1>2. ASSUME NEW item PROVE FailedOf(c, later, RunsOf(c.history, item)) \subseteq FailedOf(s, turns, RunsOf(s.history, item))
    BY <1>1 DEF FailedOf, RunsOf, ClaimsOf
  <1>3. ASSUME NEW root PROVE FailedOf(c, later, ResumesOf(c.history, root)) \subseteq FailedOf(s, turns, ResumesOf(s.history, root))
    BY <1>1 DEF FailedOf, ResumesOf
  <1>4. FailedOf(c, later, {}) \subseteq FailedOf(s, turns, {})
    BY DEF FailedOf
  <1>5. ASSUME NEW now, NEW then, FailedOf(c, later, now) \subseteq FailedOf(s, turns, then)
        PROVE  /\ Cardinality(FailedOf(c, later, now)) \in Nat /\ Cardinality(FailedOf(s, turns, then)) \in Nat
               /\ Cardinality(FailedOf(c, later, now)) <= Cardinality(FailedOf(s, turns, then))
               /\ Few(s, turns, then) => Few(c, later, now)
    <2>1. IsFiniteSet(FailedOf(s, turns, then)) /\ Cardinality(FailedOf(s, turns, then)) \in Nat
      BY FailedFinite
    <2>2. IsFiniteSet(FailedOf(c, later, now)) /\ Cardinality(FailedOf(c, later, now)) <= Cardinality(FailedOf(s, turns, then))
      BY <1>5, <2>1, FS_Subset
    <2>3. Cardinality(FailedOf(c, later, now)) \in Nat
      BY <2>2, FS_CardinalityType
    <2> QED BY <2>1, <2>2, <2>3, DrainConstants DEF Few
  <1>6. ASSUME NEW target, Few(s, turns, TargetRuns(s.history, target)) PROVE Few(c, later, TargetRuns(c.history, target))
    <2>1. CASE target.kind = "queued"
      BY <2>1, <1>2, <1>5, <1>6 DEF TargetRuns
    <2>2. CASE target.kind = "resume"
      BY <2>2, <1>3, <1>5, <1>6 DEF TargetRuns
    <2>3. CASE target.kind \notin {"queued", "resume"}
      BY <2>3, <1>4, <1>5, <1>6 DEF TargetRuns
    <2> QED BY <2>1, <2>2, <2>3
  <1>7. ASSUME NEW t \in 1..s.head.turns, Few(s, turns, RunsWith(s.history, t)) PROVE Few(c, later, RunsWith(c.history, t))
    <2> DEFINE root == s.history.turns[t].resumes
               item == s.history.turns[t].input
    <2>1. c.history.turns[t].resumes = root /\ c.history.turns[t].input = item
      BY <1>1
    <2> HIDE DEF root, item
    <2>2. RunsWith(s.history, t) = IF root # 0 THEN ResumesOf(s.history, root)
                                   ELSE IF item # NoItem THEN RunsOf(s.history, item) ELSE {}
      BY DEF RunsWith, root, item
    <2>3. RunsWith(c.history, t) = IF root # 0 THEN ResumesOf(c.history, root)
                                   ELSE IF item # NoItem THEN RunsOf(c.history, item) ELSE {}
      BY <2>1 DEF RunsWith
    <2> QED BY <2>2, <2>3, <1>2, <1>3, <1>4, <1>5, <1>7
  <1>8. ASSUME FewEver(s, turns) PROVE FewEver(c, later)
    <2>1. ASSUME NEW item \in Input PROVE Cardinality(FailedOf(c, later, RunsOf(c.history, item))) <= DrainAttempts
      <3>1. Cardinality(FailedOf(s, turns, RunsOf(s.history, item))) <= DrainAttempts
        BY <1>8 DEF FewEver
      <3>2. FailedOf(c, later, RunsOf(c.history, item)) \subseteq FailedOf(s, turns, RunsOf(s.history, item))
        BY <1>2
      <3> HIDE DEF FailedOf
      <3> QED BY <3>1, <3>2, <1>5, DrainConstants
    <2>2. ASSUME NEW root \in DOMAIN c.history.turns PROVE Cardinality(FailedOf(c, later, ResumesOf(c.history, root))) <= DrainAttempts
      <3>1. FailedOf(c, later, ResumesOf(c.history, root)) \subseteq FailedOf(s, turns, ResumesOf(s.history, root))
        BY <1>3
      <3>2. CASE root \in DOMAIN s.history.turns
        <4>1. Cardinality(FailedOf(s, turns, ResumesOf(s.history, root))) <= DrainAttempts
          BY <1>8, <3>2 DEF FewEver
        <4> QED BY <3>1, <4>1, <1>5, DrainConstants
      <3>3. CASE root \notin DOMAIN s.history.turns
        <4>1. \A t \in 1..s.head.turns : s.history.turns[t].resumes < t /\ s.history.turns[t].resumes \in Nat
          BY SessionTurns DEF TurnRecord
        <4>2. FailedOf(s, turns, ResumesOf(s.history, root)) = {}
          BY <3>3, <4>1, <1>1 DEF FailedOf, ResumesOf
        <4>3. FailedOf(c, later, ResumesOf(c.history, root)) = {}
          BY <3>1, <4>2
        <4> QED BY <4>3, FS_EmptySet, DrainConstants
      <3> QED BY <3>2, <3>3
    <2> QED BY <2>1, <2>2 DEF FewEver
  <1> QED BY <1>6, <1>7, <1>8

(* One more run fails, of those one more of which may.                       *)
LEMMA OneMoreFails ==
    ASSUME NEW s, SessionInvariant(s), IsOpen(s.head), NEW c, NEW reason, GoesClosed(s, c, reason, 0),
           NEW turns, turns \subseteq 1..s.head.turns, FewEver(s, turns),
           Few(s, turns, RunsWith(s.history, s.head.open.turn))
    PROVE  FewEver(c, turns)
  <1> DEFINE t == s.head.open.turn
             h == s.history
             g == c.history
  <1>1. /\ SessionInvariant(c) /\ TurnsGoOn(s, c) /\ c.head.turns = s.head.turns
        /\ \A n \in 1..s.head.turns : n # t => g.turns[n] = h.turns[n]
    BY DEF GoesClosed, Goes
  <1>2. /\ s.head.turns \in Nat /\ DOMAIN h.turns = 1..s.head.turns /\ DOMAIN g.turns = 1..s.head.turns
        /\ \A n \in 1..s.head.turns : g.turns[n].input = h.turns[n].input /\ g.turns[n].resumes = h.turns[n].resumes
    BY <1>1 DEF TurnsGoOn
  <1>3. t \in 1..s.head.turns
    BY <1>2, SessionTurns DEF IsOpen
  <1> HIDE DEF t
  <1>4. ASSUME NEW now, NEW then, now = then, t \in then => then = RunsWith(h, t),
               Cardinality(FailedOf(s, turns, then)) <= DrainAttempts
        PROVE  Cardinality(FailedOf(c, turns, now)) <= DrainAttempts
    <2>1. IsFiniteSet(FailedOf(s, turns, then)) /\ Cardinality(FailedOf(s, turns, then)) \in Nat
      BY FailedFinite
    <2>2. CASE t \notin then
      <3>1. FailedOf(c, turns, now) = FailedOf(s, turns, then)
        BY <1>1, <1>2, <1>4, <2>2 DEF FailedOf, FailedIn
      <3> QED BY <3>1, <1>4
    <2>3. CASE t \in then
      <3> DEFINE F == FailedOf(s, turns, then)
      <3>1. Cardinality(F) < DrainAttempts
        BY <2>3, <1>4 DEF Few, t, h
      <3>2. FailedOf(c, turns, now) \subseteq F \cup {t}
        BY <1>1, <1>2, <1>4 DEF FailedOf, FailedIn
      <3> HIDE DEF F
      <3>3. IsFiniteSet(F) /\ Cardinality(F) \in Nat
        BY <2>1 DEF F
      <3>8. /\ IsFiniteSet(F \cup {t})
            /\ Cardinality(F \cup {t}) = IF t \in F THEN Cardinality(F) ELSE Cardinality(F) + 1
        BY <3>3, FS_AddElement
      <3>4. IsFiniteSet(F \cup {t}) /\ Cardinality(F \cup {t}) <= Cardinality(F) + 1
        BY <3>3, <3>8
      <3>5. Cardinality(F \cup {t}) \in Nat
        BY <3>4, FS_CardinalityType
      <3>6. IsFiniteSet(FailedOf(c, turns, now)) /\ Cardinality(FailedOf(c, turns, now)) <= Cardinality(F \cup {t})
        BY <3>2, <3>4, FS_Subset
      <3>7. Cardinality(FailedOf(c, turns, now)) \in Nat
        BY <3>6, FS_CardinalityType
      <3> QED BY <3>1, <3>3, <3>4, <3>5, <3>6, <3>7, DrainConstants
    <2> QED BY <2>2, <2>3
  <1>5. ASSUME NEW item \in Input PROVE Cardinality(FailedOf(c, turns, RunsOf(g, item))) <= DrainAttempts
    <2>1. RunsOf(g, item) = RunsOf(h, item)
      BY <1>2 DEF RunsOf, ClaimsOf
    <2>2. t \in RunsOf(h, item) => RunsOf(h, item) = RunsWith(h, t)
      BY StateConstants DEF RunsOf, ClaimsOf, RunsWith
    <2>3. Cardinality(FailedOf(s, turns, RunsOf(h, item))) <= DrainAttempts
      BY DEF FewEver
    <2> HIDE DEF g, h
    <2> QED BY <2>1, <2>2, <2>3, <1>4
  <1>6. ASSUME NEW root \in DOMAIN g.turns PROVE Cardinality(FailedOf(c, turns, ResumesOf(g, root))) <= DrainAttempts
    <2>1. ResumesOf(g, root) = ResumesOf(h, root) /\ root # 0 /\ root \in DOMAIN h.turns
      BY <1>2 DEF ResumesOf
    <2>2. t \in ResumesOf(h, root) => ResumesOf(h, root) = RunsWith(h, t)
      BY <2>1 DEF ResumesOf, RunsWith
    <2>3. Cardinality(FailedOf(s, turns, ResumesOf(h, root))) <= DrainAttempts
      BY <2>1 DEF FewEver
    <2> HIDE DEF g, h
    <2> QED BY <2>1, <2>2, <2>3, <1>4
  <1> QED BY <1>5, <1>6 DEF FewEver

(* What a drainer selects may fail once more.                                *)
LEMMA SelectsFew ==
    ASSUME NEW s, SessionInvariant(s), NEW turns, turns \subseteq 1..s.head.turns,
           NEW open, NEW base, NEW takeOver, TargetOf(s.history, open, base, takeOver) # NoTarget
    PROVE  Few(s, turns, TargetRuns(s.history, TargetOf(s.history, open, base, takeOver)))
  <1> DEFINE h == s.history
             target == TargetOf(h, open, base, takeOver)
             ready == {item \in DOMAIN h.slots : Waiting(h, h.slots[item]) /\ ~InputParked(h, item, base)}
  <1>6. DOMAIN h.turns = 1..s.head.turns /\ s.head.turns \in Nat
    BY SessionTurns
  <1>1. DOMAIN h.turns = 1..s.head.turns /\ IsFiniteSet(1..s.head.turns)
    BY <1>6, FS_Interval
  <1>2. \A t \in DOMAIN h.turns : FailedIn(s, t) => StopOf(h.turns[t], base) = "failed"
    BY DEF FailedIn, StopOf
  <1>3. ASSUME NEW runs, NEW failures, failures \subseteq DOMAIN h.turns, Cardinality(failures) < DrainAttempts,
               FailedOf(s, turns, runs) \subseteq failures
        PROVE  Few(s, turns, runs)
    <2>1. IsFiniteSet(failures) /\ Cardinality(failures) \in Nat
      BY <1>1, <1>3, FS_Subset, FS_CardinalityType
    <2>2. Cardinality(FailedOf(s, turns, runs)) \in Nat /\ Cardinality(FailedOf(s, turns, runs)) <= Cardinality(failures)
      BY <1>3, <2>1, FS_Subset, FailedFinite
    <2> QED BY <1>3, <2>1, <2>2, DrainConstants DEF Few
  <1>4. CASE target = Resuming(ResumeRoot(h, base)) /\ ResumeFailures(h, ResumeRoot(h, base), base) < DrainAttempts
    <2> DEFINE root == ResumeRoot(h, base)
               failures == {t \in DOMAIN h.turns : h.turns[t].resumes = root /\ StopOf(h.turns[t], base) = "failed"}
    <2>1. Cardinality(failures) < DrainAttempts
      BY <1>4 DEF ResumeFailures
    <2>2. TargetRuns(h, target) = ResumesOf(h, root)
      BY <1>4 DEF TargetRuns, Resuming
    <2>3. FailedOf(s, turns, ResumesOf(h, root)) \subseteq failures
      BY <1>1, <1>2 DEF FailedOf, ResumesOf
    <2> HIDE DEF root, failures, target
    <2>4. failures \subseteq DOMAIN h.turns
      BY DEF failures
    <2> HIDE DEF h
    <2>5. Few(s, turns, TargetRuns(h, target))
      BY <2>1, <2>2, <2>3, <2>4, <1>3
    <2> QED BY <2>5 DEF target, h
  <1>5. CASE target = Of(Oldest(h, ready)) /\ ready # {}
    <2> DEFINE item == Oldest(h, ready)
               failures == FailedClaims(h, item, base)
    <2>1. item \in ready
      <3> DEFINE ats == {h.slots[other].at : other \in ready}
      <3>1. \A other \in DOMAIN h.slots : h.slots[other].at \in Nat
        BY SessionFields DEF SessionInvariant
      <3>2. ats \subseteq Nat /\ ats # {}
        BY <1>5, <3>1
      <3>3. PICK at \in ats : \A later \in ats : at <= later
        BY <3>2, LeastExists
      <3>4. PICK oldest \in ready : h.slots[oldest].at = at
        BY <3>3
      <3>5. \A other \in ready : h.slots[oldest].at <= h.slots[other].at
        BY <3>3, <3>4
      <3> HIDE DEF ready
      <3> QED BY <3>5 DEF Oldest
    <2>2. item \in Input => Cardinality(failures) < DrainAttempts
      <3>1. Cardinality(failures) \in Nat
        <4>1. failures \subseteq DOMAIN h.turns
          BY DEF FailedClaims, ClaimsOf
        <4> QED BY <4>1, <1>1, FS_Subset, FS_CardinalityType
      <3>2. item \in Input => ~(Cardinality(failures) >= DrainAttempts)
        BY <2>1 DEF InputParked
      <3> HIDE DEF failures, item
      <3> QED BY <3>1, <3>2, DrainConstants
    <2>3. CASE item \in Input
      <3>1. TargetRuns(h, target) = RunsOf(h, item)
        BY <1>5, <2>3 DEF TargetRuns, Of
      <3>2. FailedOf(s, turns, RunsOf(h, item)) \subseteq failures /\ failures \subseteq DOMAIN h.turns
        BY <1>1, <1>2 DEF FailedOf, RunsOf, FailedClaims, ClaimsOf
      <3> HIDE DEF item, failures, target, h
      <3>3. Few(s, turns, TargetRuns(h, target))
        BY <2>2, <2>3, <3>1, <3>2, <1>3
      <3> QED BY <3>3 DEF target, h
    <2>4. CASE item \notin Input
      <3>1. TargetRuns(h, target) = {}
        BY <1>5, <2>4 DEF TargetRuns, Of
      <3>2. FailedOf(s, turns, {}) \subseteq {}
        BY DEF FailedOf
      <3>5. Cardinality({}) = 0 /\ DrainAttempts > 0
        BY FS_EmptySet, DrainConstants
      <3>3. Few(s, turns, {})
        BY <1>3, <3>2, <3>5
      <3> HIDE DEF target, h
      <3>4. Few(s, turns, TargetRuns(h, target))
        BY <3>1, <3>3
      <3> QED BY <3>4 DEF target, h
    <2> QED BY <2>3, <2>4
  <1> QED BY <1>4, <1>5 DEF TargetOf

(* What is counted, session by session and record by record.                 *)
RecordCounts(rec, s, turns) ==
    /\ rec.step = "selected" => Few(s, turns, TargetRuns(s.history, rec.target))
    /\ rec.step = "running" => rec.turn \in turns /\ (Held(s, rec.turn) => Few(s, turns, RunsWith(s.history, rec.turn)))
AllCounts ==
    /\ \A x \in Session : FewEver(sess[x], drained[x])
    /\ \A x \in Session : DrainsOwn(x)
    /\ \A w \in Worker : RecordCounts(worker[w], sess[worker[w].at], drained[worker[w].at])

LEMMA FewAre ==
    /\ FailedRunsAreBounded <=> \A x \in Session : FewEver(sess[x], drained[x])
    /\ FailedRunsAreBounded' <=> \A x \in Session : FewEver(sess'[x], drained'[x])
  BY DEF FailedRunsAreBounded, FewEver, FailedOf, FailedIn, FailedRuns

LEMMA RecordsAre ==
    ASSUME NEW w
    PROVE  /\ WorkerCounts(w) <=> RecordCounts(worker[w], sess[worker[w].at], drained[worker[w].at])
           /\ WorkerCounts(w)' <=> RecordCounts(worker'[w], sess'[worker'[w].at], drained'[worker'[w].at])
  BY DEF WorkerCounts, RecordCounts, MayFail, Few, FailedOf, FailedIn, FailedRuns, HeldHere, Held

LEMMA CountsAre == (CountInvariant <=> AllCounts) /\ (CountInvariant' <=> AllCounts')
  BY FewAre, RecordsAre DEF CountInvariant, AllCounts

(* A step after which none more of a drainer's turns has failed, and of      *)
(* which no other worker knows.                                              *)
LEMMA CountsGoOn ==
    ASSUME Known, CountInvariant, SessionsGo, GoQuietly, drained' = drained,
           \A w \in Worker : \/ worker'[w] = worker[w]
                             \/ /\ worker'[w].step # "running"
                                /\ worker'[w].step = "selected" =>
                                     Few(sess'[worker'[w].at], drained[worker'[w].at],
                                         TargetRuns(sess'[worker'[w].at].history, worker'[w].target))
                                /\ worker[w].step = "running" => ~Held(sess'[worker[w].at], worker[w].turn)
    PROVE  CountInvariant'
  <1>1. ASSUME NEW x \in Session
        PROVE  /\ \A target : Few(sess[x], drained[x], TargetRuns(sess[x].history, target))
                                => Few(sess'[x], drained[x], TargetRuns(sess'[x].history, target))
               /\ \A t \in 1..sess[x].head.turns : Few(sess[x], drained[x], RunsWith(sess[x].history, t))
                                                     => Few(sess'[x], drained[x], RunsWith(sess'[x].history, t))
               /\ FewEver(sess[x], drained[x]) => FewEver(sess'[x], drained[x])
    <2>1. SessionInvariant(sess[x]) /\ drained[x] \subseteq 1..sess[x].head.turns
      BY DEF Known, SessionsKnown, SessionsHold, DrainsOwn
    <2>2. SessionInvariant(sess'[x]) /\ TurnsGoOn(sess[x], sess'[x])
      BY DEF SessionsGo, Goes
    <2>3. \A t \in drained[x] : FailedIn(sess'[x], t) => t \in drained[x] /\ FailedIn(sess[x], t)
      BY DEF GoQuietly, Quietly
    <2> QED BY <2>1, <2>2, <2>3, CountsStay
  <1>2. AllCounts
    BY CountsAre
  <1>3. \A x \in Session : FewEver(sess'[x], drained'[x])
    BY <1>1, <1>2 DEF AllCounts
  <1>4. ASSUME NEW x \in Session, NEW t \in 1..sess[x].head.turns, Held(sess'[x], t) PROVE Held(sess[x], t)
    BY <1>4 DEF SessionsGo, Goes
  <1>5. ASSUME NEW w \in Worker PROVE RecordCounts(worker'[w], sess'[worker'[w].at], drained'[worker'[w].at])
    <2>1. CASE worker'[w] = worker[w] /\ worker[w].step \in {"selected", "running"}
      <3>1. PICK x \in Session : x = worker[w].at
        BY <2>1 DEF Known, DrainInvariant, WorkersHaveJobs, Working
      <3>2. RecordCounts(worker[w], sess[x], drained[x])
        BY <1>2, <3>1 DEF AllCounts
      <3>3. drained[x] \subseteq 1..sess[x].head.turns
        BY DEF Known, SessionsKnown, DrainsOwn
      <3>4. RecordCounts(worker[w], sess'[x], drained[x])
        BY <1>1, <1>4, <3>2, <3>3 DEF RecordCounts
      <3> QED BY <2>1, <3>1, <3>4
    <2>2. CASE worker'[w].step \notin {"selected", "running"}
      BY <2>2 DEF RecordCounts
    <2>3. CASE worker'[w] # worker[w]
      BY <2>3 DEF RecordCounts
    <2> QED BY <2>1, <2>2, <2>3
  <1>6. ASSUME NEW x \in Session PROVE DrainsOwn(x)'
    <2>1. DrainsOwn(x) /\ TurnsGoOn(sess[x], sess'[x])
      BY DEF SessionsGo, Goes, Known, SessionsKnown
    <2>2. drained'[x] \subseteq 1..sess'[x].head.turns
      BY <2>1 DEF DrainsOwn, TurnsGoOn
    <2>3. ASSUME sess'[x].head.open.turn \in drained[x]
          PROVE  /\ sess'[x].head.open.holder # elsewhere
                 /\ Held(sess'[x], sess'[x].head.open.turn) =>
                      \E w \in Worker : /\ worker'[w].step = "running" /\ worker'[w].at = x
                                        /\ worker'[w].turn = sess'[x].head.open.turn
      <3>1. /\ sess'[x].head.open.turn = sess[x].head.open.turn
            /\ sess'[x].head.open.holder \in {sess[x].head.open.holder, NoInstance}
        BY <2>3 DEF GoQuietly, Quietly
      <3>2. PICK t \in 1..sess[x].head.turns : t = sess[x].head.open.turn
        BY <2>1, <2>3, <3>1 DEF DrainsOwn
      <3>3. sess'[x].head.open.holder # elsewhere
        BY <2>1, <2>3, <3>1, DrainConstants, StateConstants DEF DrainsOwn
      <3>4. ASSUME Held(sess'[x], t) PROVE \E w \in Worker : worker'[w].step = "running" /\ worker'[w].at = x /\ worker'[w].turn = t
        <4>1. Held(sess[x], t)
          BY <1>4, <3>4
        <4>2. Drains(x, t)
          BY <2>1, <2>3, <3>1, <3>2, <4>1 DEF DrainsOwn, HeldHere, Held
        <4>3. PICK w \in Worker : worker[w].step = "running" /\ worker[w].at = x /\ worker[w].turn = t
          BY <4>2 DEF Drains
        <4>4. worker'[w] = worker[w]
          BY <3>4, <4>3
        <4> QED BY <4>3, <4>4
      <3> QED BY <3>1, <3>2, <3>3, <3>4
    <2> QED BY <2>2, <2>3 DEF DrainsOwn, HeldHere, Held, Drains
  <1>7. AllCounts'
    BY <1>3, <1>5, <1>6 DEF AllCounts
  <1> QED BY <1>7, CountsAre

(* Only a worker's own session and record change.                            *)
LEMMA CountsElsewhere ==
    ASSUME Known, CountInvariant, NEW w \in Worker, NEW x \in Session, Working(w), x = worker[w].at,
           \A y \in Session : y # x => sess'[y] = sess[y] /\ drained'[y] = drained[y],
           NEW rec, Step(w, rec), rec.at = x,
           FewEver(sess'[x], drained'[x]), RecordCounts(rec, sess'[x], drained'[x]), DrainsOwn(x)'
    PROVE  CountInvariant'
  <1>1. worker'[w] = rec /\ \A v \in Worker : v # w => worker'[v] = worker[v]
    BY DEF Step, Known, DrainInvariant
  <1>2. AllCounts
    BY CountsAre
  <1>3. \A y \in Session : FewEver(sess'[y], drained'[y])
    BY <1>2 DEF AllCounts
  <1>4. ASSUME NEW v \in Worker PROVE RecordCounts(worker'[v], sess'[worker'[v].at], drained'[worker'[v].at])
    <2>1. CASE v = w
      BY <2>1, <1>1
    <2>2. CASE v # w /\ Working(v)
      <3>1. worker[v].at \in Session /\ worker[v].at # x
        BY <2>2 DEF Known, DrainInvariant, WorkersHaveJobs
      <3>2. RecordCounts(worker[v], sess[worker[v].at], drained[worker[v].at])
        BY <1>2 DEF AllCounts
      <3> QED BY <1>1, <2>2, <3>1, <3>2
    <2>3. CASE v # w /\ ~Working(v)
      BY <1>1, <2>3 DEF RecordCounts, Working
    <2> QED BY <2>1, <2>2, <2>3
  <1>5. ASSUME NEW y \in Session PROVE DrainsOwn(y)'
    <2>1. CASE y = x
      BY <2>1 DEF DrainsOwn, Drains, HeldHere
    <2>2. CASE y # x
      <3>1. DrainsOwn(y) /\ sess'[y] = sess[y] /\ drained'[y] = drained[y]
        BY <2>2 DEF Known, SessionsKnown
      <3>2. ASSUME NEW v \in Worker, worker[v].step = "running", worker[v].at = y PROVE worker'[v] = worker[v]
        BY <1>1, <2>2, <3>2
      <3>3. ASSUME NEW t, Drains(y, t) PROVE \E v \in Worker : worker'[v].step = "running" /\ worker'[v].at = y /\ worker'[v].turn = t
        <4>1. PICK v \in Worker : worker[v].step = "running" /\ worker[v].at = y /\ worker[v].turn = t
          BY <3>3 DEF Drains
        <4>2. worker'[v] = worker[v]
          BY <4>1, <3>2
        <4> QED BY <4>1, <4>2
      <3>4. PICK t : t = sess[y].head.open.turn
        OBVIOUS
      <3> QED BY <3>1, <3>3, <3>4 DEF DrainsOwn, HeldHere, Drains
    <2> QED BY <2>1, <2>2
  <1>6. AllCounts'
    BY <1>3, <1>4, <1>5 DEF AllCounts
  <1> QED BY <1>6, CountsAre

(* The run of a worker ends: its turn may have failed.                       *)
LEMMA CountsEnd ==
    ASSUME Known, CountInvariant, NEW w \in Worker, NEW x \in Session, worker[w].step = "running", x = worker[w].at,
           Held(sess[x], worker[w].turn), NEW reason, EndsTo(x, reason), drained' = drained,
           NEW result, NEW target, Result(w, result, target)
    PROVE  CountInvariant'
  <1> DEFINE rec == [worker[w] EXCEPT !.step = "finish", !.result = result, !.target = target, !.open = 0, !.over = 0, !.turn = 0]
  <1>1. WorkerShape(worker[w])
    BY DEF Known, DrainInvariant
  <1>2. Step(w, rec) /\ rec.at = x /\ rec.step = "finish" /\ Working(w)
    BY <1>1 DEF Result, WorkerShape, Working
  <1> HIDE DEF rec
  <1>3. SessionInvariant(sess[x]) /\ drained[x] \subseteq 1..sess[x].head.turns /\ sess[x].head.turns \in Nat
    BY SessionTurns DEF Known, SessionsKnown, SessionsHold, DrainsOwn
  <1>4. FewEver(sess[x], drained[x]) /\ RecordCounts(worker[w], sess[x], drained[x])
    BY CountsAre DEF AllCounts
  <1>5. IsOpen(sess[x].head) /\ sess[x].head.open.turn = worker[w].turn
    BY DEF Held
  <1>6. GoesClosed(sess[x], sess'[x], reason, 0) /\ \A y \in Session : y # x => sess'[y] = sess[y]
    BY DEF EndsTo
  <1>7. Few(sess[x], drained[x], RunsWith(sess[x].history, sess[x].head.open.turn))
    BY <1>4, <1>5 DEF RecordCounts
  <1>8. FewEver(sess'[x], drained[x])
    BY <1>3, <1>4, <1>5, <1>6, <1>7, OneMoreFails
  <1>9. DrainsOwn(x)'
    <2>3. sess'[x].head.turns = sess[x].head.turns /\ sess'[x].head.open = NoTurn
      BY <1>6 DEF GoesClosed
    <2>1. sess'[x].head.turns = sess[x].head.turns /\ sess'[x].head.open.turn = 0
      BY <2>3 DEF NoTurn
    <2>2. 0 \notin drained[x]
      BY <1>3
    <2> QED BY <1>3, <2>1, <2>2 DEF DrainsOwn
  <1>a. RecordCounts(rec, sess'[x], drained'[x])
    BY <1>2 DEF RecordCounts
  <1> QED BY <1>2, <1>6, <1>8, <1>9, <1>a, CountsElsewhere

(* A worker begins a run that may fail.                                      *)
LEMMA CountsBegin ==
    ASSUME Known, CountInvariant, NEW w \in Worker, NEW x \in Session, worker[w].step = "selected", x = worker[w].at,
           SessionsGo, BeginsTo(sess[x], sess'[x], worker[w].target, drained[x]), \A y \in Session : y # x => sess'[y] = sess[y],
           NEW turn, turn = sess[x].head.turns + 1, drained' = [drained EXCEPT ![x] = @ \cup {turn}],
           Step(w, [worker[w] EXCEPT !.step = "running", !.turn = turn, !.over = 0])
    PROVE  CountInvariant'
  <1> DEFINE rec == [worker[w] EXCEPT !.step = "running", !.turn = turn, !.over = 0]
             later == drained[x] \cup {turn}
             target == worker[w].target
  <1>1. WorkerShape(worker[w])
    BY DEF Known, DrainInvariant
  <1>2. Step(w, rec) /\ rec.at = x /\ rec.step = "running" /\ rec.turn = turn /\ Working(w)
    BY <1>1 DEF WorkerShape, Working
  <1> HIDE DEF rec, target
  <1>3. SessionInvariant(sess[x]) /\ drained[x] \subseteq 1..sess[x].head.turns /\ sess[x].head.turns \in Nat
    BY SessionTurns DEF Known, SessionsKnown, SessionsHold, DrainsOwn
  <1>4. FewEver(sess[x], drained[x]) /\ Few(sess[x], drained[x], TargetRuns(sess[x].history, target))
    BY CountsAre DEF AllCounts, RecordCounts, target
  <1>5. SessionInvariant(sess'[x]) /\ TurnsGoOn(sess[x], sess'[x])
    BY DEF SessionsGo, Goes
  <1>6. /\ Quietly(sess[x], sess'[x], drained[x]) /\ sess'[x].head.turns = turn
        /\ sess'[x].head.open.turn = turn /\ sess'[x].head.open.holder = here
        /\ sess'[x].history.turns[turn].ended = "open"
        /\ RunsWith(sess'[x].history, turn) = TargetRuns(sess'[x].history, target)
    BY DEF BeginsTo, target
  <1>7. drained'[x] = later /\ \A y \in Session : y # x => drained'[y] = drained[y]
    BY DEF Known, SessionsKnown, JournalShape
  <1>8. \A t \in later : FailedIn(sess'[x], t) => t \in drained[x] /\ FailedIn(sess[x], t)
    BY <1>6 DEF FailedIn, Quietly
  <1> HIDE DEF later
  <1>9. FewEver(sess'[x], later) /\ Few(sess'[x], later, TargetRuns(sess'[x].history, target))
    BY <1>3, <1>4, <1>5, <1>8, CountsStay
  <1>a. RecordCounts(rec, sess'[x], later)
    BY <1>2, <1>6, <1>9 DEF RecordCounts, later
  <1>b. DrainsOwn(x)'
    <2>3. later \subseteq 1..turn
      BY <1>3 DEF later
    <2>1. later \subseteq 1..sess'[x].head.turns
      BY <1>6, <2>3
    <2>2. worker'[w] = rec
      BY <1>2 DEF Step, Known, DrainInvariant
    <2> QED BY <1>2, <1>6, <1>7, <2>1, <2>2, DrainConstants DEF DrainsOwn, Drains
  <1> QED BY <1>2, <1>7, <1>9, <1>a, <1>b, CountsElsewhere

-----------------------------------------------------------------------------
(* Every step keeps the invariant.                                           *)

Holding == DrainInvariant /\ JournalShape /\ JournalInvariant
Holds == SessionsGo /\ JournalShape' /\ SightInvariant' /\ CountInvariant'

LEMMA HoldingKnown == ASSUME Holding PROVE Known /\ CountInvariant /\ SessionsKnown /\ SessionsHold
  BY DEF Holding, JournalInvariant, Known, SessionsKnown, SessionsHold, CountInvariant

LEMMA DrainedShape == ASSUME JournalShape, drained' = drained PROVE drained' = [x \in Session |-> drained'[x]]
  BY DEF JournalShape

(* A worker is done with its attempt.                                        *)
LEMMA ResultHolds ==
    ASSUME Holding, SessionsGo, GoQuietly, drained' = drained, sighted' = sighted, scan' = scan, startup' = startup, jobs' = jobs,
           NEW w \in Worker, Working(w), NEW result, NEW target, Result(w, result, target),
           worker[w].step = "running" => ~Held(sess'[worker[w].at], worker[w].turn)
    PROVE  Holds
  <1>1. Known /\ CountInvariant /\ JournalShape
    BY HoldingKnown DEF Holding
  <1>2. worker'[w].step = "finish" /\ \A v \in Worker : v # w => worker'[v] = worker[v]
    <2>1. WorkerShape(worker[w]) /\ worker = [v \in Worker |-> worker[v]]
      BY DEF Holding, DrainInvariant
    <2> QED BY <2>1 DEF Result, Step, WorkerShape
  <1>3. SightInvariant'
    BY <1>1, ResultNames
  <1>4. \A v \in Worker : worker'[v] = worker[v] \/ (worker'[v].step = "selected" => IsTarget(worker'[v].target))
    BY <1>2
  <1>5. JournalShape'
    BY <1>1, <1>4, DrainedShape, ShapeGoesOn
  <1>6. CountInvariant'
    BY <1>1, <1>2, CountsGoOn
  <1> QED BY <1>3, <1>5, <1>6 DEF Holds

LEMMA ClaimHolds ==
    ASSUME Holding, NEW w \in Worker, NEW x \in Session, Claim(w, x) PROVE Holds
  <1>1. Known /\ CountInvariant /\ JournalShape /\ SessionsHold
    BY HoldingKnown DEF Holding
  <1>2. sess' = sess /\ drained' = drained /\ scan' = scan /\ worker[w].step = "idle"
    BY DEF Claim, ghosts
  <1>3. SessionsGo /\ GoQuietly
    BY <1>1, <1>2, UnchangedGoes
  <1>4. worker'[w].step = "viewed" /\ \A v \in Worker : v # w => worker'[v] = worker[v]
    <2>1. WorkerShape(IdleWorker) /\ worker = [v \in Worker |-> worker[v]]
      BY IdleShape DEF Holding, DrainInvariant
    <2>2. Step(w, [IdleWorker EXCEPT !.step = "viewed", !.at = x, !.job = jobs[x], !.open = ViewOpen(sess[x])])
      BY DEF Claim
    <2> QED BY <2>1, <2>2 DEF Step, WorkerShape
  <1>5. SightInvariant'
    BY <1>1, <1>2, <1>3, ClaimNames
  <1>6. JournalShape'
    BY <1>1, <1>2, <1>3, <1>4, DrainedShape, ShapeGoesOn
  <1>7. CountInvariant'
    BY <1>1, <1>2, <1>3, <1>4, CountsGoOn
  <1> QED BY <1>3, <1>5, <1>6, <1>7 DEF Holds

LEMMA SelectHolds ==
    ASSUME Holding, NEW w \in Worker, Select(w) PROVE Holds
  <1>1. Known /\ CountInvariant /\ JournalShape /\ SessionsHold /\ SessionsKnown
    BY HoldingKnown DEF Holding
  <1>2. /\ sess' = sess /\ drained' = drained /\ sighted' = sighted /\ scan' = scan /\ startup' = startup /\ jobs' = jobs
        /\ worker[w].step = "viewed" /\ Working(w)
    BY DEF Select, ghosts, Working
  <1>3. SessionsGo /\ GoQuietly
    BY <1>1, <1>2, UnchangedGoes
  <1>4. ASSUME NEW result, NEW target, Result(w, result, target) PROVE Holds
    BY <1>2, <1>3, <1>4, ResultHolds
  <1>5. PICK x \in Session : x = worker[w].at
    BY <1>1, <1>2 DEF Known, DrainInvariant, WorkersHaveJobs
  <1>6. ASSUME NEW over, NEW target, target = TargetOf(sess[x].history, worker[w].open, baseline[x], over # 0), target # NoTarget,
               Step(w, [worker[w] EXCEPT !.step = "selected", !.over = over, !.target = target, !.open = 0])
        PROVE  Holds
    <2>1. IsTarget(target)
      BY <1>6, TargetsAre, Zenon
    <2>2. SessionInvariant(sess[x]) /\ drained[x] \subseteq 1..sess[x].head.turns
      BY <1>1 DEF SessionsKnown, SessionsHold, DrainsOwn
    <2>3. Few(sess[x], drained[x], TargetRuns(sess[x].history, target))
      BY <1>6, <2>2, SelectsFew, Zenon
    <2>4. /\ worker'[w].step = "selected" /\ worker'[w].at = x /\ worker'[w].target = target
          /\ \A v \in Worker : v # w => worker'[v] = worker[v]
      <3>1. WorkerShape(worker[w]) /\ worker = [v \in Worker |-> worker[v]]
        BY DEF Holding, DrainInvariant
      <3> QED BY <1>5, <1>6, <3>1 DEF Step, WorkerShape
    <2>5. SightInvariant'
      BY <1>1, <1>2, <1>3, SelectNames
    <2>6. JournalShape'
      BY <1>1, <1>2, <1>3, <2>1, <2>4, DrainedShape, ShapeGoesOn
    <2>7. CountInvariant'
      BY <1>1, <1>2, <1>3, <2>3, <2>4, CountsGoOn
    <2> QED BY <1>3, <2>5, <2>6, <2>7 DEF Holds
  <1> DEFINE over == Granted(x, worker[w].open, worker[w].job.takeOver)
             target == TargetOf(sess[x].history, worker[w].open, baseline[x], over # 0)
  <1>7. \/ \E result, now : Result(w, result, now)
        \/ target # NoTarget /\ Step(w, [worker[w] EXCEPT !.step = "selected", !.over = over, !.target = target, !.open = 0])
    BY <1>5 DEF Select
  <1>8. target = TargetOf(sess[x].history, worker[w].open, baseline[x], over # 0)
    BY Zenon
  <1> HIDE DEF over, target
  <1> QED BY <1>4, <1>6, <1>7, <1>8

LEMMA BeginHolds ==
    ASSUME Holding, NEW w \in Worker, Begin(w) PROVE Holds
  <1>1. Known /\ CountInvariant /\ JournalShape /\ SessionsHold /\ SessionsKnown
    BY HoldingKnown DEF Holding
  <1>2. /\ sighted' = sighted /\ scan' = scan /\ startup' = startup /\ jobs' = jobs
        /\ worker[w].step = "selected" /\ Working(w)
    BY DEF Begin, Working
  <1>3. PICK x \in Session : x = worker[w].at
    BY <1>1, <1>2 DEF Known, DrainInvariant, WorkersHaveJobs
  <1> DEFINE over == worker[w].over
             target == worker[w].target
             r == ReapedFor(sess[x], over)
             turn == r.head.turns + 1
  <1>4. over # 0 => over = sighted[x] /\ ~HeldHere(x, over)
    BY <1>1, <1>2, <1>3, WorkingStarted DEF WorkerNames, Names, Working
  <1>5. IsTarget(target)
    BY <1>1, <1>2 DEF JournalShape
  <1>6. \/ /\ BeginTold(r, target) = "begun" /\ Change(x, Begun(r, target))
           /\ Step(w, [worker[w] EXCEPT !.step = "running", !.turn = turn, !.over = 0])
           /\ drained' = [drained EXCEPT ![x] = @ \cup {turn}]
        \/ (\E result, now : Result(w, result, now)) /\ sess' = sess /\ drained' = drained
    BY <1>3 DEF Begin
  <1>7. CASE (\E result, now : Result(w, result, now)) /\ sess' = sess /\ drained' = drained
    <2>1. SessionsGo /\ GoQuietly
      BY <1>1, <1>7, UnchangedGoes
    <2> QED BY <1>2, <1>7, <2>1, ResultHolds
  <1>8. CASE /\ BeginTold(r, target) = "begun" /\ Change(x, Begun(r, target))
             /\ Step(w, [worker[w] EXCEPT !.step = "running", !.turn = turn, !.over = 0])
             /\ drained' = [drained EXCEPT ![x] = @ \cup {turn}]
    <2>1. /\ SessionsGo /\ BeginsTo(sess[x], sess'[x], target, drained[x])
          /\ \A y \in Session : y # x => sess'[y] = sess[y]
          /\ r.head.turns = sess[x].head.turns
      <3> HIDE DEF over, target
      <3> QED BY <1>1, <1>4, <1>5, <1>8, BeginGoes
    <2>2. turn = sess[x].head.turns + 1
      BY <2>1
    <2> HIDE DEF r, turn
    <2>3. SightInvariant'
      BY <1>1, <2>1, BeginNames
    <2>4. worker'[w].step = "running" /\ \A v \in Worker : v # w => worker'[v] = worker[v]
      <3>1. WorkerShape(worker[w]) /\ worker = [v \in Worker |-> worker[v]]
        BY DEF Holding, DrainInvariant
      <3> QED BY <1>8, <3>1 DEF Step, WorkerShape
    <2>5. drained' = [y \in Session |-> drained'[y]]
      BY <1>1, <1>8 DEF JournalShape
    <2>6. JournalShape'
      BY <1>1, <1>2, <2>1, <2>4, <2>5, ShapeGoesOn
    <2>7. CountInvariant'
      BY <1>1, <1>2, <1>3, <1>8, <2>1, <2>2, CountsBegin
    <2> QED BY <2>1, <2>3, <2>6, <2>7 DEF Holds
  <1> QED BY <1>6, <1>7, <1>8

(* The turn of a worker ends, acknowledged or not.                           *)
LEMMA EndedHolds ==
    ASSUME Holding, drained' = drained, sighted' = sighted, scan' = scan, startup' = startup, jobs' = jobs,
           NEW w \in Worker, worker[w].step = "running", NEW x \in Session, x = worker[w].at, Held(sess[x], worker[w].turn),
           NEW reason \in Reason, Change(x, Closing(sess[x], reason, "own", TRUE)),
           NEW result, NEW target, Result(w, result, target)
    PROVE  Holds
  <1>1. Known /\ CountInvariant /\ JournalShape /\ SessionsKnown
    BY HoldingKnown DEF Holding
  <1>2. IsOpen(sess[x].head) /\ "own" \in Code \ {"turn.takeover"} /\ Working(w)
    BY DEF Held, Code, Working
  <1>3. EndsTo(x, reason)
    BY <1>1, <1>2, EndGoes, Zenon
  <1>4. SessionsGo
    BY <1>3 DEF EndsTo
  <1>5. SightInvariant'
    BY <1>1, <1>2, <1>4, ResultNames
  <1>6. worker'[w].step = "finish" /\ \A v \in Worker : v # w => worker'[v] = worker[v]
    <2>1. WorkerShape(worker[w]) /\ worker = [v \in Worker |-> worker[v]]
      BY DEF Holding, DrainInvariant
    <2> QED BY <2>1 DEF Result, Step, WorkerShape
  <1>7. JournalShape'
    BY <1>1, <1>4, <1>6, DrainedShape, ShapeGoesOn
  <1>8. CountInvariant'
    BY <1>1, <1>3, CountsEnd
  <1> QED BY <1>4, <1>5, <1>7, <1>8 DEF Holds

LEMMA EndHolds ==
    ASSUME Holding, NEW w \in Worker, NEW reason \in Reason, End(w, reason) \/ (reason \in Endings /\ EndLost(w, reason))
    PROVE  Holds
  <1>1. Known /\ CountInvariant /\ JournalShape /\ SessionsKnown /\ SessionsHold
    BY HoldingKnown DEF Holding
  <1>2. /\ drained' = drained /\ sighted' = sighted /\ scan' = scan /\ startup' = startup /\ jobs' = jobs
        /\ worker[w].step = "running" /\ Working(w)
    BY DEF End, EndLost, Working, ghosts
  <1>3. PICK x \in Session : x = worker[w].at
    BY <1>1, <1>2 DEF Known, DrainInvariant, WorkersHaveJobs
  <1>4. \/ /\ Held(sess[x], worker[w].turn) /\ Change(x, Closing(sess[x], reason, "own", TRUE))
           /\ \E result, target : Result(w, result, target)
        \/ /\ ~Held(sess[x], worker[w].turn) /\ sess' = sess /\ \E result, target : Result(w, result, target)
        \/ /\ Change(x, [sess[x] EXCEPT !.gone = TRUE]) /\ \E result, target : Result(w, result, target)
    BY <1>3 DEF End, EndLost, AfterEnd, HeldHere, Held
  <1>5. CASE /\ Held(sess[x], worker[w].turn) /\ Change(x, Closing(sess[x], reason, "own", TRUE))
             /\ \E result, target : Result(w, result, target)
    BY <1>2, <1>3, <1>5, EndedHolds, Zenon
  <1>6. CASE /\ ~Held(sess[x], worker[w].turn) /\ sess' = sess /\ \E result, target : Result(w, result, target)
    <2>1. SessionsGo /\ GoQuietly
      BY <1>1, <1>6, UnchangedGoes
    <2>2. ~Held(sess'[worker[w].at], worker[w].turn)
      BY <1>3, <1>6
    <2> QED BY <1>2, <1>6, <2>1, <2>2, ResultHolds
  <1>7. CASE /\ Change(x, [sess[x] EXCEPT !.gone = TRUE]) /\ \E result, target : Result(w, result, target)
    <2>1. SessionsGo /\ GoQuietly /\ sess'[x] = [sess[x] EXCEPT !.gone = sess[x].gone \/ TRUE]
      BY <1>1, <1>7, LapseGoes
    <2>2. sess'[x].gone = TRUE
      <3>1. sess' = [sess EXCEPT ![x] = [sess[x] EXCEPT !.gone = TRUE]] /\ sess = [y \in Session |-> sess[y]]
        BY <1>1, <1>7 DEF Change, JournalShape
      <3>2. "gone" \in DOMAIN sess[x]
        BY <1>1, SessionTurns DEF SessionsHold, SessionType
      <3> QED BY <3>1, <3>2
    <2>3. ~Held(sess'[worker[w].at], worker[w].turn)
      BY <1>3, <2>2 DEF Held
    <2> QED BY <1>2, <1>7, <2>1, <2>3, ResultHolds
  <1> QED BY <1>4, <1>5, <1>6, <1>7

LEMMA FinishHolds ==
    ASSUME Holding, NEW w \in Worker, Finish(w) PROVE Holds
  <1>1. Known /\ CountInvariant /\ JournalShape /\ SessionsHold
    BY HoldingKnown DEF Holding
  <1>2. sess' = sess /\ drained' = drained /\ scan' = scan /\ worker[w].step = "finish" /\ Step(w, IdleWorker)
    BY DEF Finish, ghosts
  <1>3. SessionsGo /\ GoQuietly
    BY <1>1, <1>2, UnchangedGoes
  <1>4. worker'[w].step = "idle" /\ \A v \in Worker : v # w => worker'[v] = worker[v]
    BY <1>2, IdleShape DEF Step, Holding, DrainInvariant
  <1>5. SightInvariant'
    BY <1>1, <1>3, FinishNames
  <1>6. JournalShape'
    BY <1>1, <1>2, <1>3, <1>4, DrainedShape, ShapeGoesOn
  <1>7. CountInvariant'
    BY <1>1, <1>2, <1>3, <1>4, CountsGoOn
  <1> QED BY <1>3, <1>5, <1>6, <1>7 DEF Holds

LEMMA AttemptFailsHolds ==
    ASSUME Holding, NEW w \in Worker, AttemptFails(w) PROVE Holds
  <1>1. /\ drained' = drained /\ sighted' = sighted /\ scan' = scan /\ startup' = startup /\ jobs' = jobs /\ sess' = sess
        /\ worker[w].step \in {"viewed", "selected"} /\ Working(w)
        /\ Result(w, "Retry", worker[w].job.target)
    BY DEF AttemptFails, Working, ghosts
  <1>2. SessionsGo /\ GoQuietly
    BY <1>1, HoldingKnown, UnchangedGoes DEF Holding
  <1> QED BY <1>1, <1>2, ResultHolds

LEMMA ScansHold ==
    ASSUME Holding, Scans \/ ScanListFails \/ \E x \in Session : ScanSelectFails(x) PROVE Holds
  <1>1. Known /\ CountInvariant /\ JournalShape /\ SessionsHold
    BY HoldingKnown DEF Holding
  <1>2. sess' = sess /\ drained' = drained /\ worker' = worker
    BY DEF Scans, ScanList, ScanSelect, ScanDone, ScanListFails, ScanSelectFails, ghosts
  <1>3. SessionsGo /\ GoQuietly
    BY <1>1, <1>2, UnchangedGoes
  <1>4. CountInvariant'
    BY <1>1, <1>2, <1>3, CountsGoOn
  <1>5. SightInvariant' /\ JournalShape'
    BY <1>1, <1>2, <1>3, ScanListNames, ScanSelectNames, ScanDoneNames DEF Scans
  <1> QED BY <1>3, <1>4, <1>5 DEF Holds

(* What happens beside the drainer.                                          *)
LEMMA BesideHolds ==
    ASSUME Holding, Beside PROVE Holds
  <1>1. Known /\ CountInvariant /\ JournalShape /\ SessionsHold /\ SessionsKnown
    BY HoldingKnown DEF Holding
  <1>2. ASSUME SessionsGo, GoQuietly, UNCHANGED <<drainVars, ghosts>> PROVE Holds
    <2>1. worker' = worker /\ scan' = scan /\ drained' = drained
      BY <1>2 DEF drainVars, ghosts
    <2>2. SightInvariant'
      BY <1>1, <1>2, SightStays
    <2>3. JournalShape'
      BY <1>1, <1>2, <2>1, DrainedShape, ShapeGoesOn
    <2>4. CountInvariant'
      BY <1>1, <1>2, <2>1, CountsGoOn
    <2> QED BY <1>2, <2>2, <2>3, <2>4 DEF Holds
  <1>3. CASE Restart
    <2>1. SessionsGo /\ GoQuietly /\ \A x \in Session : \A t : ~Held(sess'[x], t)
      BY <1>1, <1>3, RestartGoes
    <2>2. drained' = drained /\ \A w \in Worker : worker'[w].step = "idle"
      BY <1>3, IdleShape DEF Restart
    <2>3. SightInvariant' /\ JournalShape'
      BY <1>1, <1>3, <2>1, RestartNames
    <2>4. \A w \in Worker : worker[w].step = "running" => ~Held(sess'[worker[w].at], worker[w].turn)
      BY <2>1 DEF Holding, DrainInvariant, WorkersHaveJobs, Working
    <2>5. CountInvariant'
      BY <1>1, <2>1, <2>2, <2>4, CountsGoOn
    <2> QED BY <2>1, <2>3, <2>5 DEF Holds
  <1>4. CASE Shutdown
    <2>1. sess' = sess /\ UNCHANGED <<drainVars, ghosts>>
      BY <1>4 DEF Shutdown
    <2> QED BY <1>1, <1>2, <2>1, UnchangedGoes
  <1>5. ASSUME NEW x \in Session, NEW item \in Item, Enqueue(x, item) PROVE Holds
    <2>1. UNCHANGED <<drainVars, ghosts>>
      BY <1>5 DEF Enqueue, outside
    <2> QED BY <1>1, <1>2, <1>5, <2>1, EnqueueGoes
  <1>6. ASSUME NEW x \in Session, NEW i \in Instance, NEW item \in Input \cup {NoItem}, ForeignBegin(x, i, item) PROVE Holds
    <2>1. UNCHANGED <<drainVars, ghosts>>
      BY <1>6 DEF ForeignBegin, outside
    <2> QED BY <1>1, <1>2, <1>6, <2>1, ForeignBeginGoes
  <1>7. ASSUME NEW x \in Session,
               \/ \E reason \in Reason : ForeignEnd(x, reason)
               \/ \E code \in Closes : CloseBeside(x, code)
               \/ ShutdownCloses(x)
        PROVE  Holds
    <2>1. UNCHANGED <<drainVars, ghosts>>
      BY <1>7 DEF ForeignEnd, CloseBeside, ShutdownCloses, outside
    <2>2. SessionsGo /\ GoQuietly
      BY <1>1, <1>7, BesideEndsQuietly
    <2> QED BY <1>2, <2>1, <2>2
  <1>8. ASSUME NEW x \in Session, Lapse(x) PROVE Holds
    <2>1. UNCHANGED <<drainVars, ghosts>> /\ Change(x, [sess[x] EXCEPT !.gone = TRUE])
      BY <1>8 DEF Lapse, outside
    <2>2. SessionsGo /\ GoQuietly
      BY <1>1, <2>1, LapseGoes
    <2> QED BY <1>2, <2>1, <2>2
  <1> QED BY <1>3, <1>4, <1>5, <1>6, <1>7, <1>8 DEF Beside

LEMMA HoldingNext ==
    ASSUME Holding, [Next]_vars PROVE Holding' /\ SessionsGo
  <1>1. DrainInvariant'
    BY DrainNext DEF Holding
  <1>2. Holds
    <2>1. CASE Scans
      BY <2>1, ScansHold
    <2>2. ASSUME NEW w \in Worker, Works(w) PROVE Holds
      BY <2>2, ClaimHolds, SelectHolds, BeginHolds, EndHolds, FinishHolds DEF Works
    <2>3. CASE Failures
      BY <2>3, ScansHold, AttemptFailsHolds, EndHolds, DrainConstants DEF Failures
    <2>4. CASE Beside
      BY <2>4, BesideHolds
    <2>5. CASE UNCHANGED vars
      <3>1. sess' = sess /\ worker' = worker /\ scan' = scan /\ drained' = drained /\ UNCHANGED <<drainVars, ghosts>>
        BY <2>5 DEF vars, drainVars, ghosts
      <3>2. Known /\ CountInvariant /\ JournalShape /\ SessionsHold
        BY HoldingKnown DEF Holding
      <3>3. SessionsGo /\ GoQuietly
        BY <3>1, <3>2, UnchangedGoes
      <3>4. SightInvariant'
        BY <3>1, <3>2, <3>3, SightStays
      <3>5. JournalShape'
        BY <3>1, <3>2, <3>3, DrainedShape, ShapeGoesOn
      <3>6. CountInvariant'
        BY <3>1, <3>2, <3>3, CountsGoOn
      <3> QED BY <3>3, <3>4, <3>5, <3>6 DEF Holds
    <2> QED BY <2>1, <2>2, <2>3, <2>4, <2>5 DEF Next
  <1>3. SessionsHold'
    BY <1>2, HoldingKnown, GoneOnAnswers DEF Holds
  <1> QED BY <1>1, <1>2, <1>3 DEF Holds, Holding, JournalInvariant, SessionsHold

LEMMA HoldingInit ==
    ASSUME Init PROVE Holding
  <1>1. SessionsHold
    <2>1. ToSet(Backlog) \subseteq Item
      BY DrainConstants DEF ToSet
    <2>2. ASSUME NEW x \in Session PROVE SessionInvariant(sess[x])
      <3>1. \/ sess[x] = Backlogged
            \/ \E item \in ToSet(Backlog) \cap Input : sess[x] = LeftOpen(item)
        BY DEF Init
      <3> QED BY <3>1, <2>1, BackloggedHolds, LeftOpenHolds
    <2> QED BY <2>2 DEF SessionsHold
  <1>2. SightInvariant /\ JournalShape
    BY <1>1, SightInit
  <1>3. DrainInvariant
    BY DrainInit
  <1>4. \A x \in Session : drained[x] = {}
    BY DEF Init
  <1>5. ASSUME NEW x \in Session PROVE FewEver(sess[x], drained[x]) /\ DrainsOwn(x)
    <2>1. \A runs : FailedOf(sess[x], drained[x], runs) = {}
      BY <1>4 DEF FailedOf
    <2>2. Cardinality({}) = 0 /\ 0 <= DrainAttempts
      BY FS_EmptySet, DrainConstants
    <2>3. FewEver(sess[x], drained[x])
      BY <2>1, <2>2 DEF FewEver
    <2>4. DrainsOwn(x)
      BY <1>4 DEF DrainsOwn
    <2> QED BY <2>3, <2>4
  <1>6. \A w \in Worker : worker[w].step = "idle"
    BY IdleShape DEF Init
  <1>7. AllCounts
    BY <1>5, <1>6 DEF AllCounts, RecordCounts
  <1>8. CountInvariant
    BY <1>7, CountsAre
  <1> QED BY <1>1, <1>2, <1>3, <1>8 DEF Holding, JournalInvariant, SessionsHold

(* The journal a drainer reads and the sessions it reads it of agree, a      *)
(* takeover names what this process's first scan saw, and a drainer's runs   *)
(* are counted: why observeDrains, runDrain and the begin it asks for may    *)
(* decide by what they read.                                                 *)
THEOREM JournalHolds == Spec => []JournalInvariant
  <1>1. Init => Holding
    BY HoldingInit
  <1>2. Holding /\ [Next]_vars => Holding'
    BY HoldingNext
  <1>3. Holding => JournalInvariant
    BY DEF Holding
  <1> QED BY <1>1, <1>2, <1>3, PTL DEF Spec

(* What drainHistoryOf folds from the journal is the inbox in the head: the  *)
(* same items, taken by the same turn.                                       *)
THEOREM TheJournalIsTheInbox == Spec => []HistoryAgreesWithHead
  <1>1. JournalInvariant => HistoryAgreesWithHead
    BY DEF JournalInvariant, SessionInvariant, InboxAgrees, HistoryAgreesWithHead
  <1> QED BY <1>1, JournalHolds, PTL

(* However often processes restart and whoever else runs it, at most         *)
(* config.attempts of the runs drainers begin with an input fail, and as     *)
(* many of the resumes of a turn (queuedCandidate, resumeCandidate).         *)
THEOREM DrainersGiveUp == Spec => []FailedRunsAreBounded
  <1>1. JournalInvariant => FailedRunsAreBounded
    BY DEF JournalInvariant, CountInvariant
  <1> QED BY <1>1, JournalHolds, PTL

(* A takeover closes the turn this process's first scan saw open, which this *)
(* process does not hold, and no other (grantTakeOver, reap).                *)
THEOREM TakeoversHitTheSighted == Spec => TakeoversAreSighted
  <1>1. Init => Holding
    BY HoldingInit
  <1>2. Holding /\ [Next]_vars => Holding'
    BY HoldingNext
  <1>3. Holding /\ [Next]_vars =>
          [\A x \in Session : \A t \in 1..sess[x].head.turns :
             ClosedBy(x, t, "turn.takeover") => t = sighted[x] /\ ~HeldHere(x, t)]_vars
    BY HoldingNext, HoldingKnown, GoneOnAnswers
  <1> QED BY <1>1, <1>2, <1>3, PTL DEF Spec, TakeoversAreSighted

(* Neither a drainer's queued turn or resume nor a host's turn begins again  *)
(* an input that a turn answered (closedState, admit, resumable).            *)
THEOREM AnsweredInputsRest == Spec => AnsweredInputsAreNotBegun
  <1>1. Init => Holding
    BY HoldingInit
  <1>2. Holding /\ [Next]_vars => Holding'
    BY HoldingNext
  <1>3. Holding /\ [Next]_vars =>
          [\A x \in Session : \A t \in (1..sess'[x].head.turns) \ (1..sess[x].head.turns) :
             LET input == sess'[x].history.turns[t].input
             IN input # NoItem => ~\E u \in ClaimsOf(sess[x].history, input) :
                  sess[x].history.turns[u].ended \in {"completed", "waiting"}]_vars
    BY HoldingNext, HoldingKnown, GoneOnAnswers
  <1> QED BY <1>1, <1>2, <1>3, PTL DEF Spec, AnsweredInputsAreNotBegun
=============================================================================
