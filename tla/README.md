# A verification project for efferent's sessions and what runs on them

efferent is an agent harness: a host composes an agent out of plugins, and the
agent's conversations live in *sessions*, stored in a log that several
processes may share. This directory holds TLA+ modules that model its core
(the sessions plugin over the session log, the drainer that works off what
waits in sessions, background tasks, the process host and the agent loop), the
TLC configurations that check them on small instances, and theorems about them
whose proofs TLAPS checks.

## 1. Inventory

### 1.1 The system's parts

| Part | Where | State it keeps | Operations | Talks to |
|---|---|---|---|---|
| Session log | `core/src/ports/session-log.port.ts`, `core/src/session/session-log.memory.adapter.ts`, `plugin-session-files`, `plugin-session-sqlite` | per session a head (incarnation, revision, plugin state) and a journal of events | create, head, read, list, `commit` against a revision (and `notAfter`), remove | every instance of every process |
| Sessions | `plugin-sessions/src/sessions.adapter.ts`, `sessions-state.entity*.ts` | in the head: turns begun, the open turn, the inbox; in the process: writers, let-go turns, its shutdown | begin, cancel, deliver, enqueue, transact, drain, remove, fork, shutdown | the log; turn writers |
| TurnWriter | `plugin-sessions/src/turn-writer.*.ts` | phase (open, ending, ended, closed, failed), cursor, held drafts, queue of writes | append, write, transact, take, hold, seal, end, keep-alive, scope close | the log; the turn's body |
| Inbox drainer | `plugin-sessions/src/inbox-drain.*.ts` | jobs per session and their line, scan cache, baselines, start-up authority | scan, claim, select, begin, run, finish | Sessions, the inbox runner |
| Background tasks | `plugin-tasks/src/*.ts` | records in the parent's and the child's journals | start, ask, answer, steer, cancel, execute, settle, reconcile, recover | two sessions each, the drainer |
| Process host, stdio peer | `process-host/src/*.ts` | dispatch state, outstanding requests and lanes, the first failure; output slots, the latched failure | hello, dispatch, stop, shutdown, report; send, flush | Sessions, the agent, pipes |
| Agent loop | `plugin-agent-loop/src/*.ts` | one run's messages, tail, progress, streaks, attempt | step, model call, tools, settle, decide | models, tools, a turn's writer |
| Agent, turn engine | `sdk/src/*.ts` | one turn's life | turn, budgets, shutdown | the loop, a turn's writer, memory |
| Memory, retrieval, render, models, telemetry, tools, evaluations, foundry, website | the other packages | content | | |

All paths above are under `src/packages/`. `PROJECT.json` lists every part
with what is modelled of it.

### 1.2 How they interact, and what is hard

Instances of Sessions, in one process or many, share nothing but the log. Each
guarded call reads the head, decides from it and from the journal, and commits
against the revision it read; a conflict makes it decide again, at most
`config.retries` times. A begin whose commit is stored hands its turn to a
writer, which then commits from its own cursor. The drainer, tasks and the
process host are users of these calls; the loop runs inside a turn. What is
hard:

* **Interleaving and stale reads.** Everything is decided from a head that may
  be old. Writers are cut off by a reap, a takeover, a cancel or a removal they
  have not heard of.
* **Leases and ownership.** A turn is held under a lease (until a time of the
  store's clock) or by its process; the reader that judges it may work under
  the other kind. A holder may wake up past its lease.
* **Unknown outcomes.** The store may report a failure of a commit and apply it
  later.
* **Seals.** A turn whose final reply is stored as sealed must end with that
  reply, whoever ends it, and the seal takes two steps.
* **Shutdown.** A sweep of the turns held here races begins that are stored and
  not yet registered.
* **Incarnations.** A session removed and created again has the same id, the
  same revisions and the same turn numbers.
* **The inbox.** Items are claimed, tried, dropped, taken as steers, or wait
  again, over several turns; none may be lost or answered twice.
* **Background work.** The drainer acts on what a scan saw some time ago, with
  a cache, a one-time authority to take turns over, and jobs that must neither
  run twice nor be left to nobody; a process may die at any point.
* **Two journals.** A task's calls store first in one session, then in the
  other, and may stop in between; whoever comes later finishes or repeats them.
* **Stopping a host.** A stop may come from the client, its input, a signal or
  any failure, while setup, requests, events and a blocked output go on.
* **Recovery inside a step.** A model call may be sent again after an image
  was refused, an overflow or a failed stream; a reply may be cut, malformed or
  paused; every callback may fail between what is stored and what is decided.

### 1.3 What makes each part correct

* Session log: a commit is stored only against the revision and incarnation it
  expects, not past `notAfter`; its events get one revision.
* Sessions (turns): one turn open at a time; one end per turn and nothing after
  it; no held turn is reaped; a key names one turn; a sealed turn ends as
  sealed; a shutdown leaves nothing held here.
* Sessions (inbox): an item waits, or is one open turn's, exactly until the
  journal says what became of it; one answer per input; drops are earned.
* TurnWriter: nothing late is stored; a refused writer stops for the right
  reason; an end not stored is tried again; what is stored has no hole and
  nothing behind its end; a caller is told what is stored; nobody waits for
  ever once the scope closes.
* Inbox drainer: what it folds from the journal is the inbox; a session is
  worked on by one worker, and never by none; a cached target strands nothing;
  failed runs are bounded; takeovers close only what the first scan saw;
  answered inputs are not run again; the backlog is worked off.
* Tasks: one outcome; the first work once; the notice tells the outcome; a
  cancelled task stops; the work after a question is its answer's; outcomes and
  questions reach the parent, answers the child.
* Process host: nothing admitted after the stop; the report is the last word of
  what was asked; a clean exit answered everything; every stop returns.
* Agent loop: a well-formed buffer; the journal is what the run returns;
  nothing stored under a settled step; nothing shown is sent again; the run's
  text is its last reply.

The hazards this project aims at, each at its line with the properties that
cover it, are in `PROJECT.json` under `hazards`.

## 2. Modules

| Module | Models | State |
|---|---|---|
| `SessionLog` | one session as a log stores it | `head` (present, inc, rev, state), `journal`, `now` (the store's clock) |
| `SessionsState` | the plugin's state in the head and the pure decisions over it (`sessions-state.entity*.ts`) | none: operators on state records |
| `Sessions` | calls, writers and instances over one session (`sessions.adapter.ts`, `turn-writer.*`) | `call`, `writer`, `registered`, `released`, `stopping`, `alive`, `stalled`, `faults` |
| `TurnWriter` | the queue of a turn's writer: admission, batches, the end and the scope's finalizer (`turn-writer.*`) | `phase`, `last`, `holder`, `step`, `awaits`, `result`, `waiting`, `line`, `taken`, `settled`, `upTo`, `shut`, `scope`, `stored` |
| `TurnLedger` | a session as its users see it, whoever serves it: the abstract specification `Sessions` implements | `begun`, `turns` |
| `InboxDrain` | the drainer of one process beside its hosts (`inbox-drain.*`), over the state operators of `SessionsState` | `sess`, `jobs`, `line`, `worker`, `scan`, `scanned`, `baseline`, `startup`, `halted`, `stopping` |
| `Tasks` | background tasks over their parent's and child's journals (`plugin-tasks`) | `started`, `noted`, `told`, `asked`, `unread` (parent); `child`; `handed`, `fiber` |
| `ProcessPeer` | the output side of the stdio peer | `phase`, `accepted`, `written`, `acked`, `sending` |
| `ProcessHost` | one connection of `serveProcess`, over `ProcessPeer` | `state`, `lane`, `worker`, `bound`, `failure`, `ending`, `hook`, `reader`, `refused`, `main`, `report`, `result` |
| `AgentLoop` | one run of the loop (`plugin-agent-loop/src/loop.ts`) | `pc`, `step`, `messages`, `tail`, `log`, the text, streaks and progress, the attempt, `calls`, `status` |
| `*Properties` | per component: its properties (for Sessions also the type invariant and the inductive invariants) | |
| `MC*` | per component: small sets, symmetry and inputs for TLC | |
| `SessionsProofs`, `SessionsTurnProofs`, `SessionsRecordProofs`, `TurnWriterProofs`, `InboxDrainProofs`, `TasksProofs`, `ProcessHostProofs`, `AgentLoopProofs` | theorems and their proofs (section 4) | |

`Sessions` extends `SessionsState` and `SessionLog`: the log's operators
`CommitAnswer` and `StoreCommit` are the only way an action changes the head or
the journal, as the port is in the code. `InboxDrain` extends the same
`SessionsState`: there a commit of Sessions is one step that applies the same
operators to the head. `ProcessHost` extends `ProcessPeer`; its senders are the
reader, the end, and a worker per request. `PROJECT.json` maps each definition
to its lines. (Definitions named like another with a suffix or a twist,
`CommitAnswerBlind`, `ObservedAlways`, `WithdrawnNot` and so on, are the
plausible mistakes each property is tested against; nothing uses them.)

### 2.1 Sessions: calls

A guarded call (`transact` and its users in `sessions.adapter.ts`) is two
steps. `Reading` takes the head with its revision, incarnation and the time;
what is decided from that head, and what the store answers, is one later step:

* `Refused`: a begin the plan refuses (`BeginRefusal`: duplicate key, reused
  run, busy, nothing pending, not resumable, ...).
* `BeginStored`, `CallStored`: the commit is stored. A stored begin is
  `"opened"`; `Handover` makes its writer and registers it, `Handed` looks at
  the shutdown once more, `BeginCut` interrupts it in between.
* `Conflicted`: the revision moved; decide again or give up.
* `Vanished`: the session or its incarnation is gone.
* `StoreFailed`: the store fails; the commit stays in `stalled` and `Land` may
  store it later, if its revision still stands.
* `GivesUp`: what a call whose commit was not stored does after it: it lets the
  turn go, and a begin goes on to `ReapSealed`, the reap of a sealed turn in a
  commit of its own.
* `CloseLocal`: a close whose commit is stored, or which gave its turn up, is
  not over: it is `"closing"` until it has closed this instance's writer of the
  turn (`closeLocal`), in a step of its own.

The journal is read between the head and the commit in the code. The model
reads it in the deciding step. For a stored commit that is exact: nothing was
committed since the head was read. For a refusal it is the latest reading the
code allows, which is the one that can disagree with the head. A begin that
looks its input up before admission (`prepareAsked`) is
`"prepared"` first, and reads the head in a step of its own.

A call's record holds what the fiber holds and nothing else; a call that is
answered becomes `Idle`, except for a begin that still owes a reap.

### 2.2 Sessions: writers

`writer[w]`, for an incarnation and a turn number, is the phase machine of
`turn-writer.entity.functions.ts` with the cursor (`rev`, `state`) and the
held reply. Its actions: `Append` (a write or a transact), `Take` (steers into
the running turn), `Hold` (a reply for the end), `SealCommit` and `SealApply`
(the two steps of a seal), `KeepAlive`, `End`, `EndCommit`, `ScopeCloses`,
`ScopeDone` (the finalizer of `sessions.adapter.ts` that unregisters and lets
go), and what a refused write does: `Learns` (expired, removed, still ours, or
closed elsewhere), `Contends` (its last attempt met a conflict), `WriteFails`
(the outcome unknown). Closing from elsewhere on the same instance
(`closeLocal`, `endSealed`) is a step of the call that does it. A closing reply
held later replaces the one held before, as long as the writer is open; what is
sealed stays sealed. The runs' bodies hold one kind of reply (`Replies`).

### 2.3 The writer's queue

`Sessions` decides what a writer's commit stores in which state of the session;
`TurnWriter` decides whose item becomes one, and is checked for one turn beside
any outcome of the store. `Call` are the calls that may be made, each with its
kind; `After` says which call of its fiber must have been answered first. A
call waits for the permit (`Admits`, `Refuses`, an end may also be one that
`Shares`), keeps it while the bounded queue is full, and then `Queues`, or is
refused by a queue shut down (`OfferRefused`), or is interrupted: before its
item is queued (`Leaves`) or just as it is (`LeavesQueued`, the moment
`onInterrupt` cannot tell apart). The consumer `Takes` a chunk, groups its
appends, and for each item begins it, refuses it, or settles it; a commit is
stored, fails, or finds the turn closed. `ClosedHere` is `OpenWriter.close`.
The finalizer is `ScopeCloses`, `ScopeTimesOut`, `Seals`, `ShutsDown`,
`RefusesWaiting`, with the consumer still running beside them.

`line` holds every item ever queued, and `taken` and `settled` are indices into
it, so that what is stored is a set of positions and "before" and "behind" are
orders of positions. An append's caller awaits only its queueing. Takes, seals,
steers and the keep-alive are queued as a transact is (`inOrder`) and are
transacts here.

### 2.4 The inbox drainer

`sess[x]` is a session: its head (the same record as in `Sessions`), whether
its open turn has no holder any more (`gone`), its sequence number, and the
history `drainHistoryOf` folds from its journal, by `Apply`. `Init` starts from
a backlog, or from a turn an earlier process left open on a queued input.

* The scan: `ScanList` lists every session's mark (and, once per process, the
  baselines and what its takeover may close), `ScanSelect` reads one session
  and selects its target unless the cache has it, `ScanDone` hands what it
  found to the scheduler (`observeDrains`). `ScanListFails` and
  `ScanSelectFails` are its two failures.
* A worker: `Claim` (with the view its attempt reads first), `Select` (the
  journal; the target again), `Begin` (reap, refusal, or the turn), `End` and
  `EndLost`, `AttemptFails`, `Finish`.
* Beside it: `Enqueue`, `ForeignBegin` and `ForeignEnd` (hosts, here or
  elsewhere), `CloseBeside` (a cancel, a limit, an interruption), `Lapse` (a
  holder elsewhere is gone), `Shutdown`, `ShutdownCloses`, `Restart`.

Time is not modelled: a delayed job may be claimed at any time. A wake is not
modelled: it only makes sooner what may happen anyway.

### 2.5 Background tasks

A fiber runs one call or one piece of background work, in any process, and
each of its commits or reads is a step: a start records the task in the parent
(`CallStart`) and then makes the child (`StartForks`); a cancel stores in the
child, cancels its turn, and stores in the parent; an answer is stored and
then enqueued; the work begins its turn under the task's key, executes it
(`execute` decides from the child's records whether the executor runs at all),
reads for an outcome and records its own, ends the turn and settles; a drainer
follows up waiting inputs; a host reconciles; a start-up repairs an asking turn
that a dead process left. `Cut` stops a fiber for good between any two of its
steps (`LoseWork` loses handed work before it begins): its turn is closed by
its scope, or left to be reaped.

### 2.6 The process host

`ProcessPeer` is `send` with its slots, the serial writer, acknowledgement and
the latch. `ProcessHost` adds: the reader (`FirstCommand`, `Admit`, `Refuse`,
`Duplicate`, `SetUp`, the input's end and failure), a worker per admitted
request (`Observe`, `Answer`, `WorkFails`, `Leave`), `Stop` and `Fatal` by
whoever runs them, with the hook as a step of its own that blocks its runner,
and the end: `Wake`, `ShutDown`, the bounded wait for workers, the report, the
failure, the flush. What a request does to sessions is left to the modules
above, with two exceptions an end has to reckon with. A worker is now and then
in a commit of a session that no interruption cuts (`Stores`, `StoreAnswers`:
`guarded`, `sessions.adapter.ts:308`), and sends its lifecycle events from within
it. And the observers of setup send the events of *every* turn of the process
(`process-host.adapter.ts:96-127`), those of the drainer, of tasks, of recovery
and of detached closings included, which no worker runs and the end does not
wait for: these are the senders `Background` (`Note`, `Noted`). A worker that
never returns is one that takes no step.

The end is as asynchronous as in the code. `Wake` has the reader interrupted
and does not wait for it: `ReaderInterrupted` comes later, and a setup it
interrupts may still be in something uninterruptible (`SetupCut`). Nothing
waits for that before the wait for the workers. When that wait is over in time
(`DrainTimesOut`) each worker is interrupted by a step of its own, only where it
is not within a commit (`Interrupted`), and the end goes on once none is left
(`Cleared`): `FiberSet.clear` awaits them.

### 2.7 The agent loop

One action per wait of the loop: the probe, the step's steers, the model call
(streamed or settled, its parts, its fallback and its two recoveries), the
response and its record, each tool's start and result, the settling, and the
decision that follows (`Recover`, `Recut`, `Yield`, `Decide`). `Breaks` fails
or interrupts the run anywhere. A reply is a finish reason, its calls and
whether it says anything; a text is known by the step it was said in, so that
`final` says which steps' texts the run returns, in which order. A broken loop
that said nothing has the loop's own text (`StopText`, the
`DEGENERATE_LOOP_STOP` of `loop.ts:1165`).

What a model is sent is the loop's buffer only when the host gives no
`options.render` (`loop.ts:665`). The repository's own step loop
(`step-loop.adapter.ts`) gives it: there the request is made from what the step
returns, by code outside the loop. What is modelled, checked and proved of the
buffer (`BufferIsWellFormed`) is about the buffer, which the loop keeps in either
case, and is about requests only in the first.

A result is a record of its own in the model's tail and journal. In the code the
results of a step are one tool message of the tail and one event each in the
journal: `JournalIsTheTail` compares them result by result. A reply without any
part, for which the code stores no message, is left out; one of reasoning only
is in.

### 2.8 Abstractions

* Sessions: one session, as instances keep per-session state only. An event is
  a record of its kind, turn and what the decisions read; the text of messages
  and replies is left out (`wrote` stands for any event a turn's body stores).
  The order of the inbox is left out there: what a turn takes may be any
  waiting item (the drainer, whose choice depends on the order, keeps it). A
  `drain` is its begins and its ends. Time is the store's clock, in ticks, and
  moves at any step.
* In `Sessions` a writer's queue is one commit at a time in any order the
  guards admit (what the queue does is in `TurnWriter`), and the ten-second
  limit of a scope's end is a choice: the end is stored before it or the scope
  done without it.
* In `TurnWriter` a commit's outcome is a choice, an ending has no content (the
  attempted and the sealed ending are in `Sessions`), a caller interrupted
  while it awaits a result leaves its item as it is, and so is no step.
* A reap after a refused begin is stored or not; its own failure with an
  unknown outcome is not modelled, and the `closeLocal` after it is the same
  step. A cancel's own interruption between its commit and its `closeLocal` is
  not modelled: there the writer lives until its next commit is refused.
* `alive` answers for process liveness where the reader's host can ask;
  `HostOf` says where it can.
* Drainer: a commit of Sessions is atomic (that this is so is what `Sessions`
  shows); sealed turns and steers are left out; the probe whether a turn is
  held here is present.
* Tasks: the drainer is the follow-up turns it begins; the parent's inbox is
  the number of notices that wait in it, read all at once. A status is read in
  one step (`EndOf`); the code reads the child's view and then its records
  (`tasks.adapter.ts:90-92`). An outcome, a question or a start only comes to be
  recorded, so newer records say more and never less than the view beside
  them. A begin that a shutdown refuses leaves the task as it is and is no step.
* Host: the failure's frame carries the id of a shutdown asked for, and no other
  request's. Wakes and the order in which the scheduler runs fibers are left out.
* Loop: a decision's callbacks are one step; their failure is `Breaks` before
  it.

## 3. Runs

Bounds are guards in the actions (`MaxRev`, `MaxTurn`, `MaxNow`, `MaxWrites`,
`MaxInc`, `MaxFaults` of Sessions; `MaxEvents` and one bound per kind of the
drainer; `MaxCalls`, `MaxCuts` of tasks; `MaxReads`, `MaxEvents`, `MaxFaults`
of the host; `MaxSteps`, `MaxHosted` of the loop; the set of calls of the
writer's queue). A Sessions, queue, host or loop instance stops when it reaches them or is done, so deadlock is not checked
there; the drainer and tasks never stop, and deadlock is checked.

| Run | Instance | Question |
|---|---|---|
| `sessions_turns` | 2 leased instances with keep-alive, cancel, crash, held and sealed replies, clock to 2, 2 turns | do turns overlap, is anything stored past a lease, does a sealed turn end as sealed, is a cancel told only of what is held, and is every step one of `TurnLedger`? |
| `turn_writer` | capacity 1, chunks of 2, 7 calls in 4 fibers | the five properties of the queue |
| `sessions_inbox` | a notice and a steer, 2 attempts, 3 turns, 8 commits | do inbox and journal agree, is an input answered once, is a drop earned? |
| `sessions_stop` | 1 instance, 2 callers, shutdown, time limits, unknown outcomes, cut begins, a message retried under a new run | does a shutdown leave a live writer, is a let-go turn still written when nothing is about to close it, does a key name one turn? |
| `sessions_removed` | one leased instance and one not, removal and re-creation, late commits, a keyed transact, 2 turns | does the inductive invariant hold across incarnations, is a transact recorded once, is a turn held by its process reaped by a leased reader? |
| `inbox_drain` | 2 workers, a backlog of a notice and an input, one event of any kind beside them | the six properties of the drainer |
| `tasks` | 1 task, 2 fibers, a question, a steer, 2 calls, one cut | the eight properties of tasks |
| `host` | 2 request ids, one background turn, lanes of one, one output slot, 4 commands, 3 read, one event, one fault | the three properties of a connection |
| `loop` | 3 steps, 6 kinds of reply, 2 tools at once, one steer, one act of the host | the four properties of a run |
| `seal_race`, `exhausted_notice`, `host_id_reuse` | smaller instances of the same | violations: section 3.3 |

Why these bounds. Overlapping or late writes need two turns and a holder that
stalls beside another instance that closes its turn and begins the next, which
two instances with a caller and one writer per turn give (two callers race on
one instance in `sessions_stop`, and the theorems are about any number);
a lease of one tick
that may be renewed needs two ticks to run out under a holder that renewed it
once; a drop after two attempts needs three turns; an item that comes back
needs a fourth event after its last turn; two incarnations are where one can be
taken for the other. One fault of each kind is where the code's recovery
differs from its ordinary path, and two where one recovery meets another
(`sessions_stop`). The drainer's hazards are races of one event with a scan and
a worker, over an input and a notice that compete for one session; two workers
are needed for a job to be worked on twice; sessions meet only in the
scheduler's line, so one is checked here and any number is proved about. A task meets its
hazards alone: two calls beside its work, a question with its answer and a
steer, and one loss between two commits. A connection needs two ids for one
request to be cut or answered while another is refused, and a queue of one slot
to be full. Three steps of the loop are a continuation, the step that ends it
and one after; two malformed replies end a run, one cut is corrected, two
repeated results break it.
A queue of one slot with chunks of two is full behind a chunk being worked on,
and has appends that group and appends that do not; the seven calls are one of
each kind, a second append for a group or a hole, and a second end (the
scope's), in fibers that let any of the others stand before or behind an end.
Instances, callers and ids are symmetric only where nothing names them; no
liveness run uses symmetry.

Each property of a passing run is also run against a mutant of a mapped
definition (listed in `PROJECT.json`) and is violated by it, under the same
configuration.

### 3.1 Fairness

Sessions and the loop state safety only: their specifications may stop
anywhere. Four modules state fairness, and each part of it is what the code's
scheduling does:

* `InboxDrain`: weak fairness of the scan (a loop with a delay and a wake,
  `inbox-drain.adapter.ts`), of each worker (a loop over claims, whose delays
  end) and of the end of a turn the drainer does not run: its own writer ends
  it, its holder is found gone, or its lease runs out. The process goes on
  (restarts are bounded); a failed read or commit is bounded, so that the
  liveness claimed is that of a store that works again. A process told to stop
  is let off: so say the properties.
* `TurnWriter`: weak fairness of the callers' going on at the permit and at the
  queue, of the ten seconds' passing, and of each step of the finalizer that
  began. Nothing is asked of the store or of the consumer, whose commit or
  write may hang for ever, nor that the scope ever closes.
* `Tasks`: weak fairness of each fiber's next step and of the parent reading
  its inbox; strong fairness of running handed work, following up and
  reconciling per task, because a fiber that is free now may be busy the next
  moment: runners, drainers and hosts come back again and again. Nothing is
  asked of calls, questions, executors' failures or repairs.
* `ProcessHost`: weak fairness of the output's acknowledgement or its timeout,
  of a sender that can go on, of the hook, and of the end (the host's shutdown
  returns; the wait for workers ends with them or in time). Of workers and setup
  one thing is asked, that a store which holds one in an uninterruptible commit
  answers (weak fairness of that, strong fairness of each `Interrupted`, as a
  worker may begin one commit after the other before an interruption finds it
  between two). It is an assumption about the store, and `StopsReturn` fails
  without it: `docs/process-protocol.md:202` keeps a native timer for that case.
  Nothing is asked of clients, the input, background turns or the report's
  reader.

### 3.2 What the properties say

The `*Properties` modules state each in words. In short:

* `TurnsDoNotOverlap`, `KeyNamesOneTurn`: the ledger of turns. They relate the
  whole journal to the head.
* `KeepsTheLedger`: `Sessions` implements `TurnLedger`. The mapping reads the
  ledger from the log: as many turns as the head counts, and of each turn its
  run, why it ended (`"open"` until it has) and what was stored of it, from the
  journal, so that nothing is stored of a turn that ended. A takeover is the
  one step that ends a turn and begins the next.
* `HeldTurnsAreNotReaped`, `LateWritesAreNotStored`,
  `OnlyHeldTurnsAreCancelled`, `SealedTurnsEndAsSealed`: what a commit may
  never do, judged against the truth (the store's clock, who is alive), not
  against what the reader believed.
* `LetGoTurnsHaveNoWriter`, `ShutdownLeavesNoWriter`: what an instance keeps
  beside the log agrees with it. A turn let go of is written by nobody, unless
  the close that let it go is just about to stop its writer.
* `InboxAgreesWithJournal`, `InputsAnsweredOnce`, `DropsAreEarned`,
  `TransactsRecordOnce`: what the head keeps of an item is what the whole
  journal says became of it, over several turns and whoever closed them.
* Drainer: `HistoryAgreesWithHead` compares two codes that compute the inbox
  (the fold of the journal and the head's state); `RunningJobsHaveOneWorker`, `FailedRunsAreBounded`, `TakeoversAreSighted`,
  `AnsweredInputsAreNotBegun`; and `BacklogIsWorkedOffOrDropped`: again and
  again there is nothing the drainer should run, or only what the next reap
  drops (section 3.3). A cache that is stale breaks the last one.
* Queue: `StoredWithoutHoles` and `EndIsTheLastWord` are about the positions
  stored, whoever waited, grouped, failed or withdrew; `AnswersTellTheStore`
  compares what callers heard with them; `EndingHasAnEnd` says that a writer
  that refuses everything has an end to come; and `ClosedScopeAnswersAll`,
  under fairness, that a closing scope leaves nobody waiting. They except what
  stands behind an end withdrawn just as it was queued (section 3.4).
* Tasks: `OneOutcome`, `InitialWorkRunsOnce`, `NoticeTellsTheOutcome`,
  `CancelledMeansStopped`, `WorkGoesOnWithTheAnswer`; and, as leads-to,
  `OutcomesAreTold`, `QuestionsReachTheParent`, `AnswersContinueTheTask`.
* Host: `ReportIsTheLastWord`: no answer, refusal or event of a command comes
  after the report; events of background turns, which the report deliberately
  leaves going, may. `CleanExitAnsweredAll`: a clean exit wrote every frame
  accepted, but for background turns' that came after its last flush began, and
  answered each command once. And `StopsReturn`, under fairness.
* Loop: `BufferIsWellFormed`, `JournalIsTheTail`,
  `ShownStepsAreNotResent`, `FinalTextIsTheLastReply`.

### 3.3 Findings

Three runs expect a violation: the code does something a comment, a port or a
protocol document of the repository says it does not. Each is a real
interleaving.

1. `seal_race` (`turn-writer.adapter.ts:552`). The port says a sealed turn ends
   as it sealed "its own `end` whatever ending it is given". An end that begins
   between the seal's commit and its mark in the writer stores its own ending.
   `sessions_turns` therefore lets bodies end only by their scope closing: there
   an end begins as interrupted or as the held reply implies, and the property
   holds.
2. `exhausted_notice` (`sessions.adapter.ts:683`). A notice whose last attempt
   was cut with its process is selected by every scan; the begin reaps that
   turn in its plan, which drops the notice, finds nothing pending, and the
   refusal drops the reap. The queued input behind it never runs until a host
   begins a turn. `inbox_drain` checks the same liveness without this case.
3. `host_id_reuse` (`process-host.adapter.ts:163`). The protocol says a request
   id can be reused after its response; a client that does so as soon as it
   read it may find the id outstanding, as the worker is resumed only by the
   write's acknowledgement, and the duplicate ends the connection.

### 3.4 What modelling also showed

Behaviours met while writing the modules that contradict no stated promise (or
only a test's assumption), kept here for a maintainer; no run claims them.

* Sessions. A retry can be told that the turn it repeats is over while it is
  open: it reads the journal after the head (`sessions.adapter.ts:661`, against
  the expectation of `sessions.conformance.ts:388`). The scope of a removed
  session's writer lets go of the same-numbered turn of its successor
  (`sessions.adapter.ts:743-747`), for which reason `sessions_removed` does not
  check `LetGoTurnsHaveNoWriter`. Registrations in the other order than their
  commits hide the newer writer from a shutdown (`sessions.adapter.ts:765`),
  for which reason `sessions_stop` uses begins that take nothing over. A resume
  looks up the input of the turn it resumes before it is admitted, and its begin
  is not bound to the incarnation it looked in (`sessions.adapter.ts:558-563`): if
  the session is removed and created again in between, and has a turn of that
  number, the new session's turn is begun on an input that was never queued
  there. `InboxAgreesWithJournal` is violated by it, and is therefore proved,
  and checked, for sessions that are not both removed and resumed. The close of
  a turn whose begin was interrupted after its commit knows that turn by its
  number and holder (`sessions.adapter.ts:578`): if the session is removed and
  created again first, and this instance has begun and sealed the turn of that
  number there, the close ends that one as interrupted. `SealedTurnsEndAsSealed`
  is therefore proved of sessions in which begins are not cut, or which are not
  removed.
* Queue. An end whose caller is interrupted just as its item was queued is
  withdrawn although it will be stored (`turn-writer.adapter.ts:426`; the
  comment of `endSettled` knows the case). Admission is open again until then:
  a write, or a second end, queued behind it is stored after `turn.ended` if
  it was admitted before the end's commit settled. `EndIsTheLastWord` without
  its exception is violated by it.
* Drainer. A turn cancelled while the start-up takeover closes it can be ended
  as taken over, and is then resumed. An input that was parked can be run again
  by a resume of its turn (`inbox-drain.entity.ts:20-26`). A first scan that
  fails loses the baselines and the takeover of that process.
* Tasks. A begin of a task's turn that the host refuses records the failure in a
  commit of its own (`tasks.adapter.ts:309-313`), whatever became of the task
  meanwhile: if it was handed to two fibers and the other's turn was begun, lost
  and told interrupted first, the task told interrupted is then recorded
  failed (`NoticeTellsTheOutcome` excepts it). A task started again without a child counts as cancelled, so that it
  is not counted against `maxRunning`. A steered follow-up whose process dies
  is told as interrupted; a later input may run the task to its end, which is
  not told. A cancel that stops after the child's record is not finished by its
  repeat, which finds the task cancelled. Parked inputs may fill the child's
  inbox, and an accepted answer is then not enqueued
  (`AnswersContinueTheTask` excepts it).
* Loop. A nudge or corrective stored for the next step stays stored when that
  step never runs (the probe says `waiting`, or a later callback fails).

## 4. Proofs

Proved by TLAPS, for every value of the constants that satisfies the stated
assumptions (`LogBounds`, `StateConstants`, `SessionsConstants`,
`WriterConstants`, `DrainConstants`, `TasksConstants`, `PeerConstants`, `HostConstants`,
`LoopConstants`):

| Module | Theorem | States |
|---|---|---|
| `SessionsProofs` | `TypeCorrect` | `Spec => []TypeOK` |
| `SessionsTurnProofs` | `TurnsFollowTheHead` | `Spec => []TurnInvariant` |
| | `OneTurnAtATime` | `Spec => []TurnsDoNotOverlap` |
| | `EndsAreFinal` | `Spec => []NothingAfterTheEnd` |
| | `SessionsKeepTheLedger` | `Spec => KeepsTheLedger`, the refinement of `TurnLedger` |
| `SessionsRecordProofs` | `RecordsHold` | `Spec => []RecordInvariant` |
| | `WritesAreInTime`, `ReapsAreOfTheUnheld`, `CancelsAreOfTheHeld` | `Spec => LateWritesAreNotStored`, `HeldTurnsAreNotReaped`, `OnlyHeldTurnsAreCancelled` |
| | `KeysNameOneTurn`, `TransactsAreRecordedOnce` | `Spec => []KeyNamesOneTurn`, `Spec => []TransactsRecordOnce` |
| | `InboxHolds` | `ResumesStay` implies `Spec => []InboxInvariant` |
| | `InboxAgrees`, `InputsAreAnsweredOnce`, `DropsAreLate` | `ResumesStay` implies `Spec => []InboxAgreesWithJournal`, `[]InputsAnsweredOnce`, `[]DropsAreEarned` |
| | `HandoversHold` | `"remove" \notin Faults` implies `Spec /\ [][HandedOverInOrder]_vars => []HandoverInvariant` |
| | `LetGoTurnsAreOver`, `ShutdownsCloseAll` | the same of `[]LetGoTurnsHaveNoWriter`, `[]ShutdownLeavesNoWriter` |
| | `SealsHold`, `SealsAreKept` | `CutsStay` implies `Spec /\ [][EndsAsHeld]_vars => []SealInvariant`, and the same of `SealedTurnsEndAsSealed` |
| `TurnWriterProofs` | `WriterTypeCorrect` | `Spec => []TypeOK` |
| | `NoHoles`, `EndsAreLast`, `AnswersAreTrue`, `EndsAreUnderWay` | the four safety invariants of the queue |
| `InboxDrainProofs` | `JobsHaveOneWorker` | `Spec => []RunningJobsHaveOneWorker` |
| | `JournalHolds` | `Spec => []JournalInvariant` |
| | `TheJournalIsTheInbox`, `DrainersGiveUp` | `Spec => []HistoryAgreesWithHead`, `Spec => []FailedRunsAreBounded` |
| | `TakeoversHitTheSighted`, `AnsweredInputsRest` | `Spec => TakeoversAreSighted`, `Spec => AnsweredInputsAreNotBegun` |
| `TasksProofs` | `TasksKeepTheirRecords` | `Spec => []TasksInvariant` |
| | `OutcomesAreFinal`, `FirstWorkIsDoneOnce`, `NoticesTellTheOutcome`, `CancelsStopTheWork`, `AnswersCarryTheWork` | the five safety invariants of tasks |
| `ProcessHostProofs` | `HostTypeCorrect` | every variable keeps its shape |
| | `StoppedHostsAdmitNothing` | `Spec => NothingIsAdmittedAfterStopping` |
| | `ReportsAreTheLastWord` | `Spec => []ReportIsTheLastWord`, background turns' events excepted |
| | `CleanExitsAnswerAll` | `Spec => []CleanExitAnsweredAll` |
| `AgentLoopProofs` | `BufferStaysWellFormed` | `Spec => []BufferIsWellFormed` |
| | `SettledStepsStayClosed` | `Spec => SettledStepsAreClosed` |
| | `ShownStepsStay` | `Spec => ShownStepsAreNotResent` |
| | `TheTailIsTheJournal` | `Spec => []JournalIsTheTail` |
| | `TheTextIsTheLastReply` | `Spec => []FinalTextIsTheLastReply` |

**Sessions.** `TurnsDoNotOverlap` is not inductive: it says nothing of plans
made from old heads. `TurnInvariant` adds what makes the revision guard
enough. `LedgerOf` relates the journal to the head's state: every turn begun
has ended or is the open one, each once, and nothing of it is later than its
end. `PlansFromTheHead` says of everyone who may still commit (a call that
read, a begin about to hand its turn over, a writer at its cursor, a stalled
commit) that if its revision is the head's, in the same incarnation, then it
holds the head's state, or, for a stalled commit, decides from it. Then every
commit that can be stored is one `Decides` describes: it ends at most the open
turn, writes of no other, and begins the next turn only when none is open. Two
lemmas carry the proof: a decided commit keeps the ledger, and a commit moves
the head past every other plan's revision, so that nobody else's obligation is
disturbed. A plan goes stale rather than wrong. Removal and re-creation raise
the incarnation, which `Past` orders before revisions. The refinement follows
from the same proof: each step lemma also concludes `DecidedStep`, and
`CommitAsSeen` shows that such a commit is one step of the ledger or is not
seen. `TypeCorrect` is proved first, one lemma per action.

What the commits *say* is a second invariant over the first. A commit may be
stored long after it was decided, and by the time it is, a lease has run out, a
holder has died, or another turn has the key. `RecordInvariant` says that each
commit still to come is right about all of it whenever its revision is the
head's: `MayStore` asks of a holder's write that it carries its lease as
`notAfter` (the store refuses it later, which is `LateWritesAreNotStored`), of
a reap that the turn is held by nobody (which stays so while the head stands:
`UnheldStays`), of a start and of a keyed transact that nothing stored has the
key or the run. It has to be said of the head's own state too (`HasHolder`) and
of what calls and writers keep of one. Of a commit the store applies late it
also shows where the plain reading ends: the holder of a turn may let it go
and die afterwards, after which nothing in any process tells that it did, so
`HeldTurnsAreNotReaped` excepts a late reap of a dead holder's turn.

What becomes of an *item* is a third invariant beside it. `InboxAgreesWithJournal`
relates the slot in the head to everything the journal says of the item, and
`InboxInvariant` says the same of every commit that may still be stored, with
its own events counted in. It is inductive because of what else a slot knows:
that a slot with a claim has a start of that turn which claimed it, that a
claim is of a queued item and holds it while its turn is open, and that a slot
counts no more attempts than turns tried it (so the last of them earns the
drop). The proof reads each pure decision of `SessionsState` once (queueing,
taking, a start's claim, an end's release) as a lemma on states and journals;
who commits, and when, is what `TurnInvariant` already says. Its hypothesis,
`ResumesStay`, is that the session is not removed or no turn is resumed: with
both, the invariant fails, and so does the property (section 3.4).

What an *instance* keeps beside the log, the writers it knows, the turns it let
go of, and how far its shutdown is, is a fourth invariant. A close, a sweep and
a probe go by the map and not by the writers, so `HandoverInvariant` says that
the map has the writer of the open turn (`LiveAreRegistered`). A turn that was
let go of while it is open has no writer there, nor a begin about to hand it
over (`LetGoIsOver`). A writer of the open turn that a sweep missed is one whose
begin has yet to look at `stopping`, or one being closed (`SweptAreCovered`).
What makes this inductive is that a turn is handed over once: the calls that
have one to hand over (`IsUnhanded`) have turns nobody else has and no writer
is of, and whoever closes a turn closes one that has been handed over
(`CallsAreKnown`). Most steps change none of this, which is said once
(`CalmKeeps`); what is left are the handover, the sweep, the looks after it and
the closes. Two hypotheses are needed, and both are limits of the code and not
of the proof (section 3.4). The session is not removed, as a removed session's
scope lets go of its successor's turn. And an instance hands its turns over in
the order it stored them, `[][HandedOverInOrder]_vars`: the code does not see to
it, and a begin that waits between its commit and its handover while its turn
is ended elsewhere and the next one is begun beside it would put the older
writer over the newer one. `sessions_stop` checks both properties without the
second hypothesis, on begins that cannot overtake each other.

Why a *sealed* turn ends as it sealed is a fifth invariant. Whoever ends a turn
reads its seal from the state it decides from, so every close but the turn's
own end obeys it by its plan being the head's (`TurnInvariant`). The turn's own
end goes by what its writer holds, and the two must be related: `SealInvariant`
says that what the head, a writer's own state, or a commit that may still be
stored calls the seal of a turn is the reply that turn's writer holds
(`SealHolds`, `OneReply`), so that a writer has one reply, and its end, once
begun, is that reply's. A turn whose begin has not handed it over, or was cut
before it could, has no writer and hence no seal (`CallSeals`), and nobody else
has it to hand over (`UnhandedOnce`). A writer that stopped may leave a sealed
turn behind; nothing of it is stored any more, and those who close it read the
seal. Two hypotheses are needed, and again both are limits of the code. A body
that holds a reply ends with it, holds no other after it, and none after an end
was attempted, `[][EndsAsHeld]_vars`: the writer does not see to it between the
seal's commit and its mark, which is finding 1 of section 3.3 (a hold in that
moment replaces the reply just sealed, as an end in it stores its own). Every
behaviour of `sessions_turns`, where bodies hold one reply and end by their
scope, satisfies it. And begins are
not cut in a session that is removed (`CutsStay`, section 3.4).

**Queue.** `QueueInv` adds to the four invariants what each rests on. A call is
in the line at most once (`QueuedOnce`), so that an end that settles is never
one still offered. An end stored or yet to be, unless withdrawn, seals what is
behind it (`EndsSeal`): behind it there are only flushes, whoever holds the
permit offers one, and the phase is not Open; the one step that could reopen it
is the settling of that very end. A writer that `Ended` has an end in the store
(`EndedIsStored`), and every append the consumer is done with is stored or the
writer has stopped for good (`AppendsKept`): a commit that fails latches,
except in an ended writer, where `EndsSeal` says there is no append to fail
but behind a withdrawn end. The order of steps in the code is what each needs:
admission is sealed before the offer, the phase moves before callers are told.

**Drainer.** The invariant counts: a worker is not idle exactly for a Running
job of its session (`WorkersHaveJobs`), and no two are for one. A worker leaves
idle only by claiming a job that was not Running, a scan never touches a
Running job (that is what `Observed` tests first), and a worker comes back to
idle only by finishing its own job, or by a restart that drops all jobs.

The other four properties rest on `JournalInvariant`, in three parts. Of a
*session*, `SessionInvariant` says that its head and the history folded from its
journal agree on the turns and the inbox (`TurnsAgree`, `InboxAgrees`), and
that an input that waits, or with which a later turn began, was not answered
(`InputsAreOpen`): that is what lets a resume of a turn have the turn's input.
One lemma per commit shows that it keeps it. What every step makes of a session
is then said once (`Goes`): turns that ended stay as they are, no turn comes to
be held here but one begun here, and only the turn a begin names is taken over;
two of the properties are read off it. A *takeover* names a turn through four
hands (the scan's view, the job, the attempt, the begin), and `SightInvariant`
says of each that it names nothing or the turn the first scan saw, and of the
name an attempt was granted that this process does not hold that turn, which no
step can change back.
*Failures* are counted when work is selected and grow when a run ends, and a
begin may come long after. `CountInvariant` closes the gap: a worker that
selected, or runs, may let one more of those runs fail (`WorkerCounts`), and a
drained turn that this process holds is run by the worker that began it
(`DrainsOwn`), so that no other step makes a drained turn fail (`Quietly`). That
no second worker is at the session is `WorkersHaveJobs` again. The history is
modelled as functions over items and turns and each event is one update of
them, so none of this needs an induction over the journal. `JournalInvariant`
was model-checked on the instance of `inbox_drain` (525,707 states) before it was proved.

**Tasks.** Nothing a fiber goes by is current when it acts, so the invariant
is about what cannot be taken back. `Advances` orders the states of a child's
session: an outcome stays, turns keep their key and input, questions and
answers stay, what was queued once stays so, and a view shows the same turn,
none, or a newer one. Every action advances each child (one lemma per way of
writing to it), and each fact a fiber carries (`saw`, the turn it cancels, the
status it will tell), a notice told and a cancel noted is such that it survives
every advance. The five properties follow from these facts; each action then
has to establish only the one new fact it creates.

**Host.** `StopOK`: once the hook is told, the dispatch state is Stopping, and
no step leaves it (a setup that returns late stays stopping), so admission,
which needs Open, is over. `EndOK` gives for each stage of the end what still
may send: once the wait for the workers is over neither the reader nor a worker
does, so that only the end itself and background turns send after the report
(`SendersOK`, `WorkersOK`, `WordOK`). `CountsOK` keeps the books of each request id: what is answered and
what is still due, by a worker or by the report, is what was asked. An answer
is due until its frame is accepted, also while it waits for a slot; a send that
failed is lost only until its sender reports it, which is a failure, and a
worker interrupted is in `cut`. So when the end is done without a failure
nothing is due. What the last flush does not await came after it began, and
can only be a background turn's (`AwaitedOK`, `FramesOK`). `DoneIsDone` shows
why it stays so: after the end nobody but the output and background turns is
left to take a step.

**Loop.** A buffer is `Good` when every assistant's message is followed by its
results and every result stands in such a run, seen from both ends; `Good` is
kept by appending a whole step's tail or a message that is neither, and by
folding away a prefix that ends before an assistant's message (`Folded`'s
boundary). `RunOK` adds that as many steps have settled as the step's index
says, and one more while it is decided on, which is what dates each record.
`UnseenOK` says that an attempt that is about to be sent, or has seen no part
yet, has shown nothing. `TailOK` splits the journal in two: what was stored
before this step is the run's tail but for the order of one reply's results
(`SameRun`), and what this step stored (`Stored`) is its reply and, each once,
the results that came back. When all came back and the step settles, its tail
lists them in the calls' order, so both have the same length and the same
messages, and `SameRun` joins what is joined. `TextInvariant` tells what the
loop's two texts are between steps: `carried` is what was said by the steps
that may yet be continued, `final` the last reply among those that are not; a
step that does not continue closes the one into the other (`TextCloses`).

Three theorems state what no run checks by itself, as what the runs check
covers it: `EndsAreFinal` (a ledger step stores only in an open turn),
`StoppedHostsAdmitNothing` and `SettledStepsStayClosed`.

Only model-checked:

* Liveness under fairness (the prover does not reach it, nor ENABLED).

Every safety property that a passing run checks, invariant or action property, is
a theorem; some of those of `Sessions` under the hypotheses named above.

## 5. Not modelled, and why

`PROJECT.json` gives each part's reason. The modules stand for about three
percent of the repository's lines: most of it is adapters to providers,
databases, files and terminals, conversions and schemas, prompts, content
(memory, retrieval, rendering), test suites (`*.conformance.ts`), evaluations,
release tooling and the website, in which little is decided by the order of
things. This project takes the parts in which it is.

Of the parts modelled: forks, metadata, titles, checkpoints, listing and
following of sessions; wake signals and activity probes; memory snapshots (a
cache); the checks of stored formats; messages and replies as text; framing and
decoding of the host's input, its disposal and its interruption from outside;
a loop's planned first batch, provider-executed calls, usage and traces.

That `TurnWriter` stores what a writer of `Sessions` may store is not shown as
a refinement: they meet in the writer's phase, and `Sessions` allows a commit
wherever the queue would make one. The file and database stores are represented by the port they implement. The sdk's turn lifecycle
(budgets, the order of an agent's shutdown) appears only as the calls it makes
to a turn's writer.

## 6. Plan

1. **Done.** `SessionLog`, `SessionsState`, `Sessions`; type correctness and
   the turn invariant proved; `TurnLedger` and its refinement.
2. **Done.** `InboxDrain` with liveness of the backlog; one worker per job
   proved.
3. **Done.** `Tasks` with crashes between its commits; its safety invariants
   proved, its liveness checked.
4. **Done.** `ProcessPeer` and `ProcessHost`; stop, admission, the report and
   the clean exit proved, the end of every stop checked.
5. **Done.** `AgentLoop`; its five properties of safety proved.
6. **Done.** `TurnWriter`; its safety invariants proved, the closing of a scope
   checked.
7. The files store (locks, temporary files, a torn tail) as a refinement of
   `SessionLog`.
8. The sdk's turn lifecycle between the loop and the writer: budgets, the seal
   of a reply, an agent's shutdown.
9. Proofs: **done** for leases, reaps, cancels, keys and transacts of Sessions
   (`RecordInvariant`), for the inbox (`InboxInvariant`), for what an instance
   keeps (`HandoverInvariant`), for seals (`SealInvariant`), and for what a
   drainer decides by (`JournalInvariant`). Left: that `TurnWriter` stores what a
   writer of `Sessions` may, as a refinement.
