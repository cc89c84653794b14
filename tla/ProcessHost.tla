---------------------------- MODULE ProcessHost ----------------------------
(***************************************************************************)
(* serveProcess (process-host): one connection.  A reader takes commands   *)
(* and gives each admitted one to a worker; turns report their events,     *)
(* also those no worker runs (the drainer's, tasks', recovery's, closings  *)
(* left detached: background fibers); the first stop (a shutdown command,  *)
(* a signal, the end of the input or a fatal failure) tells the host once, *)
(* then one shutdown runs, the workers are awaited, and a report and a     *)
(* failure are written.                                                    *)
(*                                                                         *)
(* What a command does to sessions and tasks is in modules Sessions and    *)
(* Tasks: here a worker is running, waits for its store (which nothing     *)
(* interrupts), or answers.  A command whose address is not of the host's  *)
(* owners is "foreign", a shutdown whose deadline exceeds the host's is    *)
(* "overlong".                                                             *)
(***************************************************************************)
EXTENDS ProcessPeer

CONSTANTS Id,                             \* request ids
          NoId,
          Background,                     \* fibers that run turns beside the workers
          Command,                        \* what the client asks
          MaxBegins, MaxShort, MaxControl, \* the lanes' capacities
          MaxReads, MaxEvents, MaxFaults  \* bounds: commands read, events, faults

Reader == "reader"
Main == "main"

ASSUME HostConstants ==
    /\ Sender = Id \cup Background \cup {Reader, Main} /\ NoId \notin Sender
    /\ {Reader, Main} \cap (Id \cup Background) = {} /\ Id \cap Background = {}
    /\ Command \subseteq {"hello", "begin", "send", "ping", "foreign", "shutdown", "overlong"}
    /\ {MaxBegins, MaxShort, MaxControl} \subseteq Nat \ {0}
    /\ {MaxReads, MaxEvents, MaxFaults} \subseteq Nat

VARIABLES state,     \* ProcessDispatchState: its tag
          lane,      \* its requests: per id, the lane of the outstanding one
          worker,    \* per id, what the request's worker does
          bound,     \* whether setup's binding is set
          failure,   \* the first failure: its code
          ending,    \* the request that asked the stop, if one did
          hook,      \* who runs onStopping: its sender, "untold" or "told"
          reader,    \* what the reader does
          refused,   \* the admitted request it refuses
          main,      \* how far the end has come
          awaited,   \* how many frames its flush awaits
          report,    \* whether there is a shutdown report
          result,    \* how serveProcess returned
          reads, events, faults,
          asked,     \* history: per id, the requests given to a worker
          cut        \* history: the workers that were interrupted

hostVars == <<state, lane, worker, bound, failure, ending, hook, reader, refused, main, awaited, report, result, asked, cut>>
stopVars == <<state, failure, ending, hook>>
endVars == <<main, awaited, report, result>>
bounds == <<reads, events, faults>>
vars == <<peerVars, hostVars, bounds>>

Frame(what, id) == [what |-> what, id |-> id, from |-> Main]
LaneOf(command) ==
    CASE command = "begin" -> "begin"
      [] command \in {"ping", "shutdown", "overlong"} -> "control"
      [] OTHER -> "short"
Capacity == [begin |-> MaxBegins, short |-> MaxShort, control |-> MaxControl]
Outstanding == {id \in Id : lane[id] # "free"}
Full(l) == Cardinality({id \in Id : lane[id] = l}) >= Capacity[l]

Init ==
    /\ PeerInit
    /\ state = "AwaitingHello" /\ lane = [id \in Id |-> "free"] /\ worker = [id \in Id |-> "none"]
    /\ bound = FALSE /\ failure = "none" /\ ending = NoId /\ hook = "untold"
    /\ reader = "reading" /\ refused = NoId
    /\ main = "waiting" /\ awaited = 0 /\ report = FALSE /\ result = "none"
    /\ reads = 0 /\ events = 0 /\ faults = 0
    /\ asked = [id \in Id |-> 0] /\ cut = {}

-----------------------------------------------------------------------------
(* stop and fatal, by whoever runs them; stop runs the hook before it wakes  *)
(* the end, and whoever runs it goes on when the hook has returned.          *)

Stopped == hook = "told"
Blocked(s) == hook = s
First(code) == IF failure = "none" THEN code ELSE failure

Stop(s, id) ==
    IF state = "Stopping" THEN UNCHANGED <<state, ending, hook>>
    ELSE state' = "Stopping" /\ hook' = s /\ ending' = id
Fatal(s, code) == failure' = First(code) /\ Stop(s, NoId)

HookEnds ==
    /\ hook \notin {"untold", "told"}
    /\ hook' = "told"
    /\ UNCHANGED <<peerVars, state, lane, worker, bound, failure, ending, reader, refused, endVars, asked, cut, bounds>>
HookFails ==
    /\ hook \notin {"untold", "told"} /\ faults < MaxFaults
    /\ hook' = "told" /\ failure' = First("runtime") /\ faults' = faults + 1
    /\ UNCHANGED <<peerVars, state, lane, worker, bound, ending, reader, refused, endVars, asked, cut, reads, events>>

(* A send has returned: a failed one was fatal.                              *)
Sent(s) == sending[s].step = "acked" /\ ~Blocked(s)
Returns(s) == sending' = [sending EXCEPT ![s] = Quiet] /\ UNCHANGED <<phase, accepted, written, acked>>
SendFailed(s) ==
    /\ sending[s].step = "failed"
    /\ sending' = [sending EXCEPT ![s] = Sending("acked", NoFrame)]
    /\ Fatal(s, "peer")
    /\ UNCHANGED <<phase, accepted, written, acked, lane, worker, bound, reader, refused, endVars, asked, cut, bounds>>

-----------------------------------------------------------------------------
(* The reader (accept, dispatch).                                            *)

Reading == reader = "reading" /\ ~Blocked(Reader)
Reads == Reading /\ reads < MaxReads /\ reads' = reads + 1 /\ UNCHANGED <<events, faults>>
Serving == bound /\ state \in {"Open", "Stopping"}

FirstCommand(command) ==
    /\ Reads /\ state = "AwaitingHello"
    /\ IF command = "hello"
       THEN /\ state' = "Starting" /\ reader' = "greeting"
            /\ Send(Reader, Frame("hello", NoId))
            /\ UNCHANGED <<failure, ending, hook>>
       ELSE Fatal(Reader, "handshake") /\ UNCHANGED <<peerVars, reader>>
    /\ UNCHANGED <<lane, worker, bound, refused, endVars, asked, cut>>

Greeted ==
    /\ reader = "greeting" /\ Sent(Reader) /\ Returns(Reader)
    /\ reader' = IF state = "Stopping" THEN "reading" ELSE "setup"
    /\ UNCHANGED <<stopVars, lane, worker, bound, refused, endVars, asked, cut, bounds>>

(* Setup may return after the host was stopped: it stays so.                 *)
Opened == IF state = "Stopping" THEN "Stopping" ELSE "Open"
SetUp ==
    /\ reader = "setup"
    /\ bound' = TRUE /\ state' = Opened /\ reader' = "reading"
    /\ UNCHANGED <<peerVars, lane, worker, failure, ending, hook, refused, endVars, asked, cut, bounds>>
SetupFails ==
    /\ reader = "setup" /\ faults < MaxFaults /\ faults' = faults + 1
    /\ reader' = "reading" /\ Fatal(Reader, "setup")
    /\ UNCHANGED <<peerVars, lane, worker, bound, refused, endVars, asked, cut, reads, events>>

(* admitProcessRequest, in its order.                                        *)
Admission(id, command) ==
    IF id \in Outstanding THEN "Duplicate"
    ELSE IF state # "Open" THEN "Stopping"
    ELSE IF Full(LaneOf(command)) THEN "Busy"
    ELSE "Admitted"

Duplicate(id, command) ==
    /\ Reads /\ Serving /\ Admission(id, command) = "Duplicate"
    /\ Fatal(Reader, "duplicate")
    /\ UNCHANGED <<peerVars, lane, worker, bound, reader, refused, endVars, asked, cut>>

Refuse(id, command) ==
    /\ Reads /\ Serving
    /\ \/ Admission(id, command) \in {"Stopping", "Busy"} /\ UNCHANGED <<lane, refused>>
       \/ /\ Admission(id, command) = "Admitted" /\ command \in {"foreign", "overlong"}
          /\ lane' = [lane EXCEPT ![id] = LaneOf(command)] /\ refused' = id
    /\ Send(Reader, Frame("refusal", id)) /\ reader' = "refusing"
    /\ UNCHANGED <<stopVars, worker, bound, endVars, asked, cut>>

Release(ids) == lane' = [id \in Id |-> IF id \in ids THEN "free" ELSE lane[id]]
Refused ==
    /\ reader = "refusing" /\ Sent(Reader) /\ Returns(Reader)
    /\ reader' = "reading" /\ Release({refused}) /\ refused' = NoId
    /\ UNCHANGED <<stopVars, worker, bound, endVars, asked, cut, bounds>>

Admit(id, command) ==
    /\ Reads /\ Serving /\ Admission(id, command) = "Admitted" /\ command \notin {"foreign", "overlong"}
    /\ lane' = [lane EXCEPT ![id] = LaneOf(command)]
    /\ asked' = [asked EXCEPT ![id] = @ + 1]
    /\ CASE command = "shutdown" -> Stop(Reader, id) /\ UNCHANGED <<worker, failure>>
         [] command = "hello" -> worker' = [worker EXCEPT ![id] = "misplaced"] /\ UNCHANGED stopVars
         [] OTHER -> worker' = [worker EXCEPT ![id] = "running"] /\ UNCHANGED stopVars
    /\ UNCHANGED <<peerVars, bound, reader, refused, endVars, cut>>

(* The commands end, or cannot be read (an invalid frame; the peer failed).  *)
InputEnds ==
    /\ Reading /\ phase = "Open" /\ reader' = "ended"
    /\ IF state = "AwaitingHello" THEN Fatal(Reader, "handshake")
       ELSE Stop(Reader, NoId) /\ UNCHANGED failure
    /\ UNCHANGED <<peerVars, lane, worker, bound, refused, endVars, asked, cut, bounds>>
InputFails ==
    /\ Reading /\ reader' = "ended" /\ Fatal(Reader, "peer")
    /\ IF phase = "Failed" THEN UNCHANGED faults ELSE faults < MaxFaults /\ faults' = faults + 1
    /\ UNCHANGED <<peerVars, lane, worker, bound, refused, endVars, asked, cut, reads, events>>

HandshakeExpires ==
    /\ state = "AwaitingHello" /\ Fatal(NoId, "handshake")
    /\ UNCHANGED <<peerVars, lane, worker, bound, reader, refused, endVars, asked, cut, bounds>>
Signal ==
    /\ state # "Stopping" /\ Stop(NoId, NoId)
    /\ UNCHANGED <<peerVars, lane, worker, bound, failure, reader, refused, endVars, asked, cut, bounds>>

-----------------------------------------------------------------------------
(* Workers (runCommand, and the observers of the turns they run).  A worker  *)
(* runs its command, now and then in a commit that no interruption cuts      *)
(* ("storing", guarded); a lifecycle event is sent within its commit         *)
(* ("noting"), another one between two ("observing").                        *)

WorkerGoes(id, step) == worker' = [worker EXCEPT ![id] = step]
OnlyWorker == UNCHANGED <<state, bound, failure, ending, hook, reader, refused, endVars, asked, cut>>
Runs(id) == worker[id] = "running" /\ ~Blocked(id)

Stores(id) ==
    /\ Runs(id) /\ WorkerGoes(id, "storing")
    /\ OnlyWorker /\ UNCHANGED <<peerVars, lane, bounds>>
StoreAnswers(id) ==
    /\ worker[id] = "storing" /\ ~Blocked(id) /\ WorkerGoes(id, "running")
    /\ OnlyWorker /\ UNCHANGED <<peerVars, lane, bounds>>
Observe(id) ==
    /\ worker[id] \in {"running", "storing"} /\ ~Blocked(id) /\ events < MaxEvents
    /\ Send(id, Frame("event", id)) /\ WorkerGoes(id, IF worker[id] = "running" THEN "observing" ELSE "noting")
    /\ events' = events + 1
    /\ OnlyWorker /\ UNCHANGED <<lane, reads, faults>>
Observed(id) ==
    /\ worker[id] \in {"observing", "noting"} /\ Sent(id) /\ Returns(id)
    /\ WorkerGoes(id, IF worker[id] = "observing" THEN "running" ELSE "storing")
    /\ OnlyWorker /\ UNCHANGED <<lane, bounds>>
Answer(id) ==
    /\ Runs(id) /\ Send(id, Frame("answer", id)) /\ WorkerGoes(id, "answering")
    /\ OnlyWorker /\ UNCHANGED <<lane, bounds>>

(* The command fails, or was a hello after the first.                        *)
WorkFails(id) ==
    /\ \/ Runs(id) /\ faults < MaxFaults /\ faults' = faults + 1 /\ Fatal(id, "runtime")
       \/ worker[id] = "misplaced" /\ Fatal(id, "sequence") /\ UNCHANGED faults
    /\ WorkerGoes(id, "leaving")
    /\ UNCHANGED <<peerVars, lane, bound, reader, refused, endVars, asked, cut, reads, events>>
Leave(id) ==
    /\ \/ worker[id] = "answering" /\ Sent(id) /\ Returns(id)
       \/ worker[id] = "leaving" /\ ~Blocked(id) /\ UNCHANGED peerVars
    /\ WorkerGoes(id, "none") /\ Release({id})
    /\ OnlyWorker /\ UNCHANGED bounds

(* Clearing the workers interrupts one where nothing keeps it.               *)
Interrupted(id) ==
    /\ main = "cutting" /\ worker[id] \in {"misplaced", "running", "observing", "answering", "leaving"}
    /\ WorkerGoes(id, "none") /\ Release({id}) /\ cut' = cut \cup {id}
    /\ SendsNoMore({id}) /\ UNCHANGED <<phase, accepted, written, acked>>
    /\ UNCHANGED <<state, bound, failure, ending, hook, reader, refused, endVars, asked, bounds>>

-----------------------------------------------------------------------------
(* Turns that no worker runs: setup's observers report them too, while the   *)
(* host serves, while it ends and afterwards.                                *)

Watched == bound \/ reader \in {"setup", "cutting"}
Idle(b) == sending[b] = Quiet /\ ~Blocked(b)

Note(b) ==
    /\ Watched /\ Idle(b) /\ events < MaxEvents /\ events' = events + 1
    /\ Send(b, Frame("event", NoId))
    /\ UNCHANGED <<hostVars, reads, faults>>
Noted(b) ==
    /\ Sent(b) /\ Returns(b)
    /\ UNCHANGED <<hostVars, bounds>>

(* An event of a turn, a worker's or another's, cannot be observed.          *)
ObservationFails(s) ==
    /\ \/ s \in Background /\ Watched /\ Idle(s)
       \/ s \in Id /\ worker[s] \in {"running", "storing"} /\ ~Blocked(s)
    /\ faults < MaxFaults /\ faults' = faults + 1 /\ Fatal(s, "runtime")
    /\ UNCHANGED <<peerVars, lane, worker, bound, reader, refused, endVars, asked, cut, reads, events>>

-----------------------------------------------------------------------------
(* The end (from Deferred.await(stopped) on).                                *)

MainGoes(step) == main' = step /\ awaited' = IF step = "flushing" THEN Len(accepted) ELSE awaited
MainStays == UNCHANGED <<main, awaited>>
OnlyMain == UNCHANGED <<bound, asked, bounds>>

(* It has the reader interrupted, without waiting, and reads the binding.    *)
Wake ==
    /\ main = "waiting" /\ Stopped
    /\ MainGoes(IF bound THEN "shutting" ELSE "draining")
    /\ OnlyMain /\ UNCHANGED <<peerVars, stopVars, lane, worker, reader, refused, report, result, cut>>

(* The interruption of the reader, whatever it waits for; setup ends where   *)
(* it is in nothing uninterruptible.                                         *)
ReaderInterrupted ==
    /\ main # "waiting" /\ reader \notin {"cutting", "ended"}
    /\ reader' = IF reader = "setup" THEN "cutting" ELSE "ended"
    /\ Release({refused}) /\ refused' = NoId
    /\ SendsNoMore({Reader}) /\ UNCHANGED <<phase, accepted, written, acked>>
    /\ UNCHANGED <<stopVars, worker, bound, endVars, asked, cut, bounds>>
SetupCut ==
    /\ reader = "cutting" /\ reader' = "ended"
    /\ UNCHANGED <<peerVars, stopVars, lane, worker, bound, refused, endVars, asked, cut, bounds>>

ShutDown ==
    /\ main = "shutting" /\ report' = TRUE /\ MainGoes("draining")
    /\ OnlyMain /\ UNCHANGED <<peerVars, stopVars, lane, worker, reader, refused, result, cut>>
ShutdownDies ==
    /\ main = "shutting" /\ faults < MaxFaults /\ faults' = faults + 1
    /\ failure' = First("runtime") /\ MainGoes("draining")
    /\ UNCHANGED <<peerVars, state, ending, hook, lane, worker, bound, reader, refused, report, result, asked, cut, reads, events>>

(* The wait for the workers lets the reader's interruption run; workers left *)
(* when it is over are interrupted, and that is awaited (FiberSet.clear).    *)
Busy == {id \in Id : worker[id] # "none"}
Draining == main = "draining" /\ reader \in {"cutting", "ended"}
WorkersDone ==
    /\ Draining /\ Busy = {} /\ MainGoes("reporting")
    /\ OnlyMain /\ UNCHANGED <<peerVars, stopVars, lane, worker, reader, refused, report, result, cut>>
DrainUnbounded == FALSE
DrainTimesOut ==
    /\ Draining /\ Busy # {} /\ MainGoes("cutting")
    /\ OnlyMain /\ UNCHANGED <<peerVars, stopVars, lane, worker, reader, refused, report, result, cut>>
ClearedAtOnce ==
    /\ main = "cutting" /\ MainGoes("reporting")
    /\ OnlyMain /\ UNCHANGED <<peerVars, stopVars, lane, worker, reader, refused, report, result, cut>>
Cleared ==
    /\ main = "cutting" /\ Busy = {} /\ MainGoes("reporting")
    /\ OnlyMain /\ UNCHANGED <<peerVars, stopVars, lane, worker, reader, refused, report, result, cut>>

Report ==
    /\ main = "reporting" /\ sending[Main] = Quiet
    /\ IF report THEN Send(Main, Frame("report", ending)) /\ MainStays
       ELSE MainGoes("telling") /\ UNCHANGED peerVars
    /\ OnlyMain /\ UNCHANGED <<stopVars, lane, worker, reader, refused, report, result, cut>>
Reported ==
    /\ main = "reporting" /\ Sent(Main) /\ Returns(Main) /\ MainGoes("telling")
    /\ OnlyMain /\ UNCHANGED <<stopVars, lane, worker, reader, refused, report, result, cut>>
TellFailure ==
    /\ main = "telling" /\ sending[Main] = Quiet
    /\ IF failure # "none" THEN Send(Main, Frame("fatal", ending)) /\ MainStays
       ELSE MainGoes("flushing") /\ UNCHANGED peerVars
    /\ OnlyMain /\ UNCHANGED <<stopVars, lane, worker, reader, refused, report, result, cut>>
FailureTold ==
    /\ main = "telling" /\ Sent(Main) /\ Returns(Main) /\ MainGoes("flushing")
    /\ OnlyMain /\ UNCHANGED <<stopVars, lane, worker, reader, refused, report, result, cut>>

(* flush waits for every frame accepted before it, and fails with the output.*)
FlushedAtOnce == TRUE
Flushed == acked >= awaited
Flush ==
    /\ main = "flushing" /\ (phase = "Failed" \/ Flushed)
    /\ failure' = IF phase = "Failed" THEN First("peer") ELSE failure
    /\ result' = IF failure' = "none" THEN "ok" ELSE "failed"
    /\ MainGoes("done")
    /\ OnlyMain /\ UNCHANGED <<peerVars, state, ending, hook, lane, worker, reader, refused, report, cut>>

-----------------------------------------------------------------------------
OnlyPeer == UNCHANGED <<hostVars, reads, events>>
PeerSteps == (Writes \/ Acknowledges \/ WriteTimesOut) /\ OnlyPeer /\ UNCHANGED faults
PeerFails == OutputFails /\ faults < MaxFaults /\ faults' = faults + 1 /\ OnlyPeer
SenderSteps(s) ==
    \/ Reserves(s) /\ OnlyPeer /\ UNCHANGED faults
    \/ CapacityPasses(s) /\ OnlyPeer /\ UNCHANGED faults
    \/ SendFailed(s)

ReaderSteps ==
    \/ Greeted \/ SetUp \/ SetupFails \/ Refused \/ InputEnds \/ InputFails
    \/ \E command \in Command : FirstCommand(command) \/ \E id \in Id : Duplicate(id, command) \/ Refuse(id, command) \/ Admit(id, command)
WorkerSteps(id) ==
    \/ Stores(id) \/ StoreAnswers(id) \/ Observe(id) \/ Observed(id) \/ Answer(id)
    \/ WorkFails(id) \/ Leave(id) \/ Interrupted(id)
BackgroundSteps(b) == Note(b) \/ Noted(b)
MainSteps ==
    \/ Wake \/ ShutDown \/ ShutdownDies \/ WorkersDone \/ DrainTimesOut \/ Cleared
    \/ Report \/ Reported \/ TellFailure \/ FailureTold \/ Flush

Next ==
    \/ PeerSteps \/ PeerFails \/ HookEnds \/ HookFails \/ HandshakeExpires \/ Signal
    \/ ReaderSteps \/ ReaderInterrupted \/ SetupCut \/ MainSteps
    \/ \E s \in Sender : SenderSteps(s)
    \/ \E id \in Id : WorkerSteps(id)
    \/ \E b \in Background : BackgroundSteps(b)
    \/ \E s \in Id \cup Background : ObservationFails(s)

Spec == Init /\ [][Next]_vars

(* The output acknowledges a write or the write times out; senders, the hook *)
(* and the end go on; the host's shutdown returns, and the wait for workers  *)
(* ends with them or in time.  Of clients nothing is asked, of workers and   *)
(* setup only what an interruption waits for: that the store they are in     *)
(* answers, and that an interruption cuts a worker it often finds between    *)
(* two such waits.                                                           *)
Fairness ==
    /\ WF_vars(PeerSteps) /\ WF_vars(\E s \in Sender : SenderSteps(s))
    /\ WF_vars(HookEnds) /\ WF_vars(MainSteps) /\ WF_vars(ReaderInterrupted \/ SetupCut)
    /\ \A id \in Id : WF_vars(StoreAnswers(id) \/ Observed(id)) /\ SF_vars(Interrupted(id))

FairSpec == Spec /\ Fairness
=============================================================================
