------------------------- MODULE ProcessHostProofs -------------------------
(***************************************************************************)
(* Proofs about one connection of the process host, for any request ids,   *)
(* lanes, slots and bounds.                                                *)
(***************************************************************************)
EXTENDS ProcessHostProperties, FiniteSetTheorems, TLAPS

Frames == [what : {"hello", "refusal", "event", "answer", "report", "fatal"}, id : Id \cup {NoId}, from : Sender]

Step == {"idle", "reserving", "accepted", "acked", "failed"}

(* The output: what is acknowledged was written, what was written accepted.  *)
PeerOK ==
    /\ phase \in {"Open", "Failed"}
    /\ accepted \in Seq(Frames)
    /\ acked \in Nat /\ written \in Nat /\ acked <= written /\ written <= Len(accepted)
    /\ sending \in [Sender -> [step : Step, frame : Frames \cup {NoFrame}]]
    /\ \A s \in Sender : sending[s].step = "reserving" => sending[s].frame \in Frames

Working == {"none", "misplaced", "running", "storing", "observing", "noting", "answering", "leaving"}
Ending == {"waiting", "shutting", "draining", "cutting", "reporting", "telling", "flushing", "done"}
HostOK ==
    /\ state \in {"AwaitingHello", "Starting", "Open", "Stopping"}
    /\ lane \in [Id -> {"free", "begin", "short", "control"}]
    /\ worker \in [Id -> Working]
    /\ bound \in BOOLEAN /\ report \in BOOLEAN
    /\ result \in {"none", "ok", "failed"}
    /\ ending \in Id \cup {NoId}
    /\ reader \in {"reading", "greeting", "setup", "refusing", "cutting", "ended"}
    /\ refused \in Id \cup {NoId}
    /\ main \in Ending /\ awaited \in Nat
    /\ asked \in [Id -> Nat] /\ cut \in SUBSET Id
HostTypeOK == PeerOK /\ HostOK

-----------------------------------------------------------------------------
(* Who sends: every fiber has one send of its own.                           *)
LEMMA Senders ==
    /\ Reader \in Sender /\ Main \in Sender /\ Reader # Main /\ NoId \notin Id
    /\ \A id \in Id : id \in Sender /\ id # Reader /\ id # Main /\ id \notin Background
    /\ \A b \in Background : b \in Sender /\ b # Reader /\ b # Main /\ b \notin Id
    /\ Reader \notin Id /\ Main \notin Id /\ Reader \notin Background /\ Main \notin Background
    /\ \A s \in Sender : s \in Id \/ s \in Background \/ s = Reader \/ s = Main
<1>1. Reader # Main
  BY DEF Reader, Main
<1> QED BY <1>1, HostConstants

(* The output's operations keep its shape.                                   *)

LEMMA FramesMade ==
    ASSUME NEW what \in {"hello", "refusal", "event", "answer", "report", "fatal"}, NEW id \in Id \cup {NoId}
    PROVE  Frame(what, id) \in Frames
BY Senders DEF Frame, Frames

LEMMA SendsKeepShape ==
    ASSUME PeerOK, NEW s \in Sender, NEW frame \in Frames, Send(s, frame)
    PROVE  PeerOK'
<1>1. [frame EXCEPT !.from = s] \in Frames
  BY DEF Frames
<1>2. accepted' \in Seq(Frames) /\ Len(accepted) <= Len(accepted')
  <2>1. CASE phase = "Open" /\ Room
    BY <2>1, <1>1 DEF Send, PeerOK
  <2>2. CASE ~(phase = "Open" /\ Room)
    BY <2>2 DEF Send, PeerOK
  <2> QED BY <2>1, <2>2
<1>3. \A step \in Step, f \in Frames \cup {NoFrame} : Sending(step, f) \in [step : Step, frame : Frames \cup {NoFrame}]
  BY DEF Sending
<1>4. sending' = [sending EXCEPT ![s] = sending'[s]]
         /\ sending'[s] \in {Sending("failed", NoFrame), Sending("accepted", NoFrame), Sending("reserving", frame)}
  BY DEF Send, PeerOK
<1>5. sending' \in [Sender -> [step : Step, frame : Frames \cup {NoFrame}]]
  BY <1>3, <1>4 DEF PeerOK, Step
<1>6. \A t \in Sender : sending'[t].step = "reserving" => sending'[t].frame \in Frames
  BY <1>4 DEF PeerOK, Sending
<1> QED BY <1>2, <1>5, <1>6 DEF PeerOK, Send

LEMMA QuietShape == \A step \in Step : Sending(step, NoFrame) \in [step : Step, frame : Frames \cup {NoFrame}]
BY DEF Sending

LEMMA ReturnsKeepShape ==
    ASSUME PeerOK, NEW s \in Sender, Returns(s)
    PROVE  PeerOK'
BY QuietShape DEF Returns, PeerOK, Quiet, Sending, Step

LEMMA NoMoreKeepsShape ==
    ASSUME PeerOK, NEW senders, SendsNoMore(senders), UNCHANGED <<phase, accepted, written, acked>>
    PROVE  PeerOK'
BY QuietShape DEF SendsNoMore, PeerOK, Quiet, Sending, Step

LEMMA PeerKeepsShape ==
    ASSUME PeerOK
    PROVE  /\ Writes => PeerOK'
           /\ Acknowledges => PeerOK'
           /\ Latch => PeerOK'
           /\ \A s \in Sender : Reserves(s) \/ CapacityPasses(s) => PeerOK'
<1>1. ASSUME Writes PROVE PeerOK'
  BY <1>1 DEF Writes, PeerOK
<1>2. ASSUME Acknowledges PROVE PeerOK'
  <2>1. accepted[acked + 1].from \in Sender
    <3>1. acked + 1 \in 1..Len(accepted)
      BY <1>2 DEF Acknowledges, PeerOK
    <3>2. accepted[acked + 1] \in Frames
      BY <3>1 DEF PeerOK
    <3> QED BY <3>2 DEF Frames
  <2>2. sending' = sending \/ \E s \in Sender : sending' = [sending EXCEPT ![s] = Sending("acked", NoFrame)]
    BY <1>2, <2>1 DEF Acknowledges, AcknowledgedTo
  <2>3. Sending("acked", NoFrame) \in [step : Step, frame : Frames \cup {NoFrame}] /\ Sending("acked", NoFrame).step = "acked"
    BY DEF Sending, Step
  <2>4. /\ sending' \in [Sender -> [step : Step, frame : Frames \cup {NoFrame}]]
        /\ \A s \in Sender : sending'[s].step = "reserving" => sending'[s].frame \in Frames
    BY <2>2, <2>3 DEF PeerOK
  <2> QED BY <1>2, <2>4 DEF Acknowledges, PeerOK
<1>3. ASSUME Latch PROVE PeerOK'
  BY <1>3, QuietShape DEF Latch, PeerOK, Sending, Step
<1>4. ASSUME NEW s \in Sender, Reserves(s) PROVE PeerOK'
  BY <1>4, SendsKeepShape DEF Reserves, PeerOK
<1>5. ASSUME NEW s \in Sender, CapacityPasses(s) PROVE PeerOK'
  BY <1>5, QuietShape DEF CapacityPasses, PeerOK, Sending, Step
<1> QED BY <1>1, <1>2, <1>3, <1>4, <1>5


LEMMA StopKeepsShape ==
    ASSUME HostOK, NEW s, NEW id \in Id \cup {NoId}, Stop(s, id)
    PROVE  state' \in {"AwaitingHello", "Starting", "Open", "Stopping"} /\ ending' \in Id \cup {NoId}
BY DEF Stop, HostOK

LEMMA FatalKeepsShape ==
    ASSUME HostOK, NEW s, NEW code, Fatal(s, code)
    PROVE  /\ state' \in {"AwaitingHello", "Starting", "Open", "Stopping"} /\ ending' \in Id \cup {NoId}
BY StopKeepsShape DEF Fatal

LEMMA ReleaseKeepsShape ==
    ASSUME HostOK, NEW ids, Release(ids)
    PROVE  lane' \in [Id -> {"free", "begin", "short", "control"}]
BY DEF Release, HostOK

LEMMA LanesAreLanes == \A command : LaneOf(command) \in {"free", "begin", "short", "control"}
BY DEF LaneOf

(* Every step keeps the shape of every variable.                             *)
LEMMA TypesKept ==
    ASSUME HostTypeOK, [Next]_vars
    PROVE  HostTypeOK'
<1> USE DEF HostTypeOK
<1> DEFINE Kept == HostTypeOK'
<1>0. Reader \in Sender /\ Main \in Sender /\ (\A id \in Id : id \in Sender) /\ (\A b \in Background : b \in Sender)
  BY Senders
<1>1. ASSUME UNCHANGED vars PROVE Kept
  BY <1>1 DEF vars, hostVars, peerVars, bounds, PeerOK, HostOK, HostTypeOK
<1>2. ASSUME PeerSteps PROVE Kept
  BY <1>0, <1>2, PeerKeepsShape DEF PeerSteps, OnlyPeer, WriteTimesOut, HostOK, peerVars, hostVars, stopVars, endVars, bounds
<1>3. ASSUME PeerFails PROVE Kept
  BY <1>0, <1>3, PeerKeepsShape DEF PeerFails, OutputFails, OnlyPeer, HostOK, peerVars, hostVars, stopVars, endVars, bounds
<1>4. ASSUME HookEnds PROVE Kept
  BY <1>0, <1>4 DEF HookEnds, HostOK, peerVars, hostVars, stopVars, endVars, bounds, PeerOK
<1>5. ASSUME HookFails PROVE Kept
  BY <1>0, <1>5 DEF HookFails, First, HostOK, peerVars, hostVars, stopVars, endVars, bounds, PeerOK
<1>6. ASSUME HandshakeExpires PROVE Kept
  BY <1>0, <1>6, FatalKeepsShape DEF HandshakeExpires, HostOK, peerVars, hostVars, stopVars, endVars, bounds, PeerOK
<1>7. ASSUME Signal PROVE Kept
  BY <1>0, <1>7, StopKeepsShape DEF Signal, HostOK, peerVars, hostVars, stopVars, endVars, bounds, PeerOK
<1>8. ASSUME Greeted PROVE Kept
  BY <1>0, <1>8, ReturnsKeepShape DEF Greeted, HostOK, peerVars, hostVars, stopVars, endVars, bounds
<1>9. ASSUME SetUp PROVE Kept
  BY <1>0, <1>9 DEF SetUp, Opened, HostOK, peerVars, hostVars, stopVars, endVars, bounds, PeerOK
<1>10. ASSUME SetupFails PROVE Kept
  BY <1>0, <1>10, FatalKeepsShape DEF SetupFails, HostOK, peerVars, hostVars, stopVars, endVars, bounds, PeerOK
<1>11. ASSUME Refused PROVE Kept
  BY <1>0, <1>11, ReturnsKeepShape, ReleaseKeepsShape DEF Refused, HostOK, peerVars, hostVars, stopVars, endVars, bounds
<1>12. ASSUME InputEnds PROVE Kept
  BY <1>0, <1>12, FatalKeepsShape, StopKeepsShape DEF InputEnds, HostOK, peerVars, hostVars, stopVars, endVars, bounds, PeerOK
<1>13. ASSUME InputFails PROVE Kept
  BY <1>0, <1>13, FatalKeepsShape DEF InputFails, HostOK, peerVars, hostVars, stopVars, endVars, bounds, PeerOK
<1>14. ASSUME NEW command \in Command, FirstCommand(command) PROVE Kept
  BY <1>0, <1>14, FatalKeepsShape, SendsKeepShape, FramesMade DEF FirstCommand, Reads, HostOK, peerVars, hostVars, stopVars, endVars, bounds, PeerOK
<1>15. ASSUME NEW id \in Id, NEW command \in Command, Duplicate(id, command) PROVE Kept
  BY <1>0, <1>15, FatalKeepsShape DEF Duplicate, HostOK, peerVars, hostVars, stopVars, endVars, bounds, PeerOK
<1>16. ASSUME NEW id \in Id, NEW command \in Command, Refuse(id, command) PROVE Kept
  BY <1>0, <1>16, SendsKeepShape, FramesMade, LanesAreLanes DEF Refuse, Reads, Serving, HostOK, peerVars, hostVars, stopVars, endVars, bounds
<1>17. ASSUME NEW id \in Id, NEW command \in Command, Admit(id, command) PROVE Kept
  <2>1. PeerOK' /\ asked' \in [Id -> Nat] /\ lane' \in [Id -> {"free", "begin", "short", "control"}]
    BY <1>17, LanesAreLanes DEF Admit, Reads, HostOK, PeerOK, peerVars
  <2>2. CASE command = "shutdown"
    BY <1>17, <2>1, <2>2, StopKeepsShape DEF Admit, HostOK, endVars
  <2>3. CASE command # "shutdown"
    <3>1. worker' \in [Id -> Working] /\ UNCHANGED stopVars
      BY <1>17, <2>3 DEF Admit, HostOK, Working
    <3> QED BY <1>17, <2>1, <3>1 DEF Admit, HostOK, endVars, stopVars
  <2> QED BY <2>2, <2>3
<1>18. ASSUME Wake PROVE Kept
  BY <1>0, <1>18 DEF Wake, MainGoes, OnlyMain, Ending, HostOK, peerVars, hostVars, stopVars, endVars, bounds, PeerOK
<1>19. ASSUME ShutDown PROVE Kept
  BY <1>0, <1>19 DEF ShutDown, MainGoes, OnlyMain, Ending, HostOK, peerVars, hostVars, stopVars, endVars, bounds, PeerOK
<1>20. ASSUME ShutdownDies PROVE Kept
  BY <1>0, <1>20 DEF ShutdownDies, MainGoes, First, Ending, HostOK, peerVars, hostVars, stopVars, endVars, bounds, PeerOK
<1>21. ASSUME WorkersDone PROVE Kept
  BY <1>0, <1>21 DEF WorkersDone, Draining, MainGoes, OnlyMain, Ending, HostOK, peerVars, hostVars, stopVars, endVars, bounds, PeerOK
<1>22. ASSUME DrainTimesOut \/ Cleared PROVE Kept
  BY <1>0, <1>22 DEF DrainTimesOut, Draining, Cleared, MainGoes, OnlyMain, Ending, HostOK, peerVars, hostVars, stopVars, endVars, bounds, PeerOK
<1>23. ASSUME Report PROVE Kept
  BY <1>0, <1>23, SendsKeepShape, FramesMade DEF Report, MainStays, MainGoes, OnlyMain, Ending, HostOK, peerVars, hostVars, stopVars, endVars, bounds, PeerOK
<1>24. ASSUME Reported PROVE Kept
  BY <1>0, <1>24, ReturnsKeepShape DEF Reported, MainGoes, OnlyMain, Ending, HostOK, peerVars, hostVars, stopVars, endVars, bounds
<1>25. ASSUME TellFailure PROVE Kept
  BY <1>0, <1>25, SendsKeepShape, FramesMade DEF TellFailure, MainStays, MainGoes, OnlyMain, Ending, HostOK, peerVars, hostVars, stopVars, endVars, bounds, PeerOK
<1>26. ASSUME FailureTold PROVE Kept
  BY <1>0, <1>26, ReturnsKeepShape DEF FailureTold, MainGoes, OnlyMain, Ending, HostOK, peerVars, hostVars, stopVars, endVars, bounds
<1>27. ASSUME Flush PROVE Kept
  BY <1>0, <1>27 DEF Flush, First, MainGoes, OnlyMain, Ending, HostOK, peerVars, hostVars, stopVars, endVars, bounds, PeerOK
<1>28. ASSUME NEW s \in Sender, SenderSteps(s) PROVE Kept
  <2>1. CASE Reserves(s) \/ CapacityPasses(s)
    <3>1. UNCHANGED hostVars
      BY <1>28, <2>1 DEF SenderSteps, OnlyPeer, SendFailed, Reserves, CapacityPasses
    <3> QED BY <2>1, <3>1, PeerKeepsShape DEF HostOK, hostVars
  <2>2. CASE SendFailed(s)
    <3>1. PeerOK'
      BY <2>2, QuietShape DEF SendFailed, PeerOK, Step, Sending
    <3>2. HostOK'
      BY <2>2, FatalKeepsShape DEF SendFailed, HostOK, endVars
    <3> QED BY <3>1, <3>2
  <2> QED BY <1>28, <2>1, <2>2 DEF SenderSteps
<1>29. ASSUME NEW id \in Id, Observe(id) PROVE Kept
  BY <1>0, <1>29, SendsKeepShape, FramesMade DEF Observe, WorkerGoes, OnlyWorker, Working, HostOK, peerVars, hostVars, stopVars, endVars, bounds
<1>30. ASSUME NEW id \in Id, Observed(id) PROVE Kept
  BY <1>0, <1>30, ReturnsKeepShape DEF Observed, WorkerGoes, OnlyWorker, Working, HostOK, peerVars, hostVars, stopVars, endVars, bounds
<1>31. ASSUME NEW id \in Id, Answer(id) PROVE Kept
  BY <1>0, <1>31, SendsKeepShape, FramesMade DEF Answer, WorkerGoes, OnlyWorker, Working, HostOK, peerVars, hostVars, stopVars, endVars, bounds
<1>32. ASSUME NEW id \in Id, WorkFails(id) PROVE Kept
  BY <1>0, <1>32, FatalKeepsShape DEF WorkFails, WorkerGoes, Working, HostOK, peerVars, hostVars, stopVars, endVars, bounds, PeerOK
<1>33. ASSUME NEW id \in Id, Leave(id) PROVE Kept
  BY <1>0, <1>33, ReturnsKeepShape, ReleaseKeepsShape DEF Leave, WorkerGoes, OnlyWorker, Working, HostOK, peerVars, hostVars, stopVars, endVars, bounds, PeerOK
<1>34. ASSUME NEW id \in Id, Stores(id) \/ StoreAnswers(id) PROVE Kept
  <2>1. \E step \in Working : worker' = [worker EXCEPT ![id] = step]
    BY <1>34 DEF Stores, StoreAnswers, WorkerGoes, Working
  <2>2. UNCHANGED <<peerVars, state, lane, bound, ending, reader, refused, main, awaited, report, result, asked, cut>>
    BY <1>34 DEF Stores, StoreAnswers, OnlyWorker, endVars
  <2>3. PeerOK'
    BY <2>2 DEF PeerOK, peerVars
  <2>4. worker' \in [Id -> Working]
    BY <2>1 DEF HostOK
  <2> QED BY <2>2, <2>3, <2>4 DEF HostOK
<1>35. ASSUME NEW id \in Id, Interrupted(id) PROVE Kept
  BY <1>0, <1>35, NoMoreKeepsShape, ReleaseKeepsShape DEF Interrupted, WorkerGoes, Working, HostOK, endVars
<1>36. ASSUME NEW b \in Background, BackgroundSteps(b) PROVE Kept
  BY <1>0, <1>36, SendsKeepShape, ReturnsKeepShape, FramesMade DEF BackgroundSteps, Note, Noted, HostOK, hostVars
<1>37. ASSUME NEW s \in Id \cup Background, ObservationFails(s) PROVE Kept
  BY <1>37, FatalKeepsShape DEF ObservationFails, HostOK, peerVars, endVars, PeerOK
<1>38. ASSUME ReaderInterrupted PROVE Kept
  BY <1>0, <1>38, NoMoreKeepsShape, ReleaseKeepsShape DEF ReaderInterrupted, HostOK, stopVars, endVars
<1>39. ASSUME SetupCut PROVE Kept
  BY <1>0, <1>39 DEF SetupCut, HostOK, peerVars, stopVars, endVars, PeerOK
<1>40. ASSUME ReaderSteps PROVE Kept
  BY <1>8, <1>9, <1>10, <1>11, <1>12, <1>13, <1>14, <1>15, <1>16, <1>17, <1>40 DEF ReaderSteps
<1>41. ASSUME MainSteps PROVE Kept
  BY <1>18, <1>19, <1>20, <1>21, <1>22, <1>23, <1>24, <1>25, <1>26, <1>27, <1>41 DEF MainSteps
<1>42. ASSUME NEW id \in Id, WorkerSteps(id) PROVE Kept
  BY <1>29, <1>30, <1>31, <1>32, <1>33, <1>34, <1>35, <1>42 DEF WorkerSteps
<1> QED
  BY <1>1, <1>2, <1>3, <1>4, <1>5, <1>6, <1>7, <1>28, <1>36, <1>37, <1>38, <1>39, <1>40, <1>41, <1>42 DEF Next

(* One connection's output and dispatcher keep their shape.                  *)
THEOREM HostTypeCorrect == Spec => []HostTypeOK
<1>1. Init => HostTypeOK
  <2>1. Init => PeerOK
    BY QuietShape DEF Init, PeerInit, PeerOK, Quiet, Sending, Step
  <2>2. Init => HostOK
    <3>1. Init => /\ lane \in [Id -> {"free", "begin", "short", "control"}] /\ worker \in [Id -> Working] /\ asked \in [Id -> Nat]
                  /\ cut \in SUBSET Id /\ ending \in Id \cup {NoId} /\ refused \in Id \cup {NoId}
      BY DEF Init, Working
    <3>2. Init => bound \in BOOLEAN /\ report \in BOOLEAN
      BY DEF Init
    <3> QED BY <3>1, <3>2 DEF Init, HostOK, Ending
  <2> QED BY <2>1, <2>2 DEF HostTypeOK
<1>2. HostTypeOK /\ [Next]_vars => HostTypeOK'
  BY TypesKept
<1> QED BY <1>1, <1>2, PTL DEF Spec

-----------------------------------------------------------------------------
(* Once the stop is told the dispatcher is Stopping for good, so setup does  *)
(* not open it again and no command is admitted.                             *)

StopOK == hook # "untold" => state = "Stopping"

LEMMA StopKept ==
    ASSUME StopOK, [Next]_vars
    PROVE  StopOK'
<1>1. ASSUME NEW s, NEW code, NEW id, Fatal(s, code) \/ Stop(s, id) PROVE StopOK'
  BY <1>1 DEF Fatal, Stop, StopOK
<1>2. ASSUME UNCHANGED <<state, hook>> PROVE StopOK'
  BY <1>2 DEF StopOK
<1>3. CASE UNCHANGED vars
  BY <1>2, <1>3 DEF vars, hostVars
<1>4. CASE PeerSteps \/ PeerFails \/ MainSteps \/ ReaderInterrupted \/ SetupCut
  BY <1>2, <1>4 DEF PeerSteps, PeerFails, OnlyPeer, hostVars, MainSteps, stopVars, Wake, ShutDown, ShutdownDies, WorkersDone,
                   ReaderInterrupted, SetupCut, DrainTimesOut, Cleared, Report, Reported, TellFailure, FailureTold, Flush
<1>5. CASE HookEnds \/ HookFails
  BY <1>5 DEF HookEnds, HookFails, StopOK
<1>6. CASE HandshakeExpires \/ Signal
  BY <1>1, <1>6 DEF HandshakeExpires, Signal
<1>7. CASE Greeted \/ SetUp \/ SetupFails \/ Refused \/ InputEnds \/ InputFails
  BY <1>1, <1>2, <1>7 DEF Greeted, SetUp, Opened, SetupFails, Refused, InputEnds, InputFails, stopVars, StopOK
<1>8. ASSUME NEW command \in Command, FirstCommand(command) PROVE StopOK'
  BY <1>1, <1>8 DEF FirstCommand, StopOK
<1>9. ASSUME NEW command \in Command, NEW id \in Id, Duplicate(id, command) \/ Refuse(id, command) \/ Admit(id, command) PROVE StopOK'
  BY <1>1, <1>2, <1>9 DEF Duplicate, Refuse, Admit, stopVars
<1>10. ASSUME NEW s \in Sender, SenderSteps(s) PROVE StopOK'
  BY <1>1, <1>2, <1>10 DEF SenderSteps, OnlyPeer, hostVars, SendFailed
<1>11. ASSUME NEW id \in Id, WorkerSteps(id) PROVE StopOK'
  BY <1>1, <1>2, <1>11 DEF WorkerSteps, Stores, StoreAnswers, Observe, Observed, Answer, WorkFails, Leave, Interrupted, OnlyWorker
<1>12. ASSUME NEW b \in Background, BackgroundSteps(b) PROVE StopOK'
  BY <1>2, <1>12 DEF BackgroundSteps, Note, Noted, hostVars
<1>13. ASSUME NEW s \in Id \cup Background, ObservationFails(s) PROVE StopOK'
  BY <1>1, <1>13 DEF ObservationFails
<1> QED BY <1>3, <1>4, <1>5, <1>6, <1>7, <1>8, <1>9, <1>10, <1>11, <1>12, <1>13 DEF Next, ReaderSteps

LEMMA OnlyAdmitsAsk ==
    ASSUME StopOK, [Next]_vars, hook # "untold"
    PROVE  asked' = asked
<1>1. CASE UNCHANGED vars
  BY <1>1 DEF vars, hostVars
<1>2. CASE PeerSteps \/ PeerFails \/ MainSteps \/ ReaderInterrupted \/ SetupCut
  BY <1>2 DEF PeerSteps, PeerFails, OnlyPeer, hostVars, MainSteps, Wake, ShutDown, ShutdownDies, WorkersDone, OnlyMain,
              ReaderInterrupted, SetupCut, DrainTimesOut, Cleared, Report, Reported, TellFailure, FailureTold, Flush
<1>3. CASE HookEnds \/ HookFails \/ HandshakeExpires \/ Signal
  BY <1>3 DEF HookEnds, HookFails, HandshakeExpires, Signal
<1>4. CASE Greeted \/ SetUp \/ SetupFails \/ Refused \/ InputEnds \/ InputFails
  BY <1>4 DEF Greeted, SetUp, SetupFails, Refused, InputEnds, InputFails
<1>5. ASSUME NEW command \in Command, FirstCommand(command) PROVE asked' = asked
  BY <1>5 DEF FirstCommand
<1>6. ASSUME NEW command \in Command, NEW id \in Id, Duplicate(id, command) \/ Refuse(id, command) \/ Admit(id, command) PROVE asked' = asked
  BY <1>6 DEF Duplicate, Refuse, Admit, Admission, StopOK
<1>7. ASSUME NEW s \in Sender, SenderSteps(s) PROVE asked' = asked
  BY <1>7 DEF SenderSteps, OnlyPeer, hostVars, SendFailed
<1>8. ASSUME NEW id \in Id, WorkerSteps(id) PROVE asked' = asked
  BY <1>8 DEF WorkerSteps, Stores, StoreAnswers, Observe, Observed, Answer, WorkFails, Leave, Interrupted, OnlyWorker
<1>9. ASSUME NEW b \in Background, BackgroundSteps(b) PROVE asked' = asked
  BY <1>9 DEF BackgroundSteps, Note, Noted, hostVars
<1>10. ASSUME NEW s \in Id \cup Background, ObservationFails(s) PROVE asked' = asked
  BY <1>10 DEF ObservationFails
<1> QED BY <1>1, <1>2, <1>3, <1>4, <1>5, <1>6, <1>7, <1>8, <1>9, <1>10 DEF Next, ReaderSteps

(* However late setup returns, whatever stopped the host: no command is      *)
(* given to a worker once the stop was told.                                 *)
THEOREM StoppedHostsAdmitNothing == Spec => NothingIsAdmittedAfterStopping
<1>1. Init => StopOK
  BY DEF Init, StopOK
<1>2. StopOK /\ [Next]_vars => StopOK' /\ (hook # "untold" => asked' = asked)
  BY StopKept, OnlyAdmitsAsk
<1>3. StopOK /\ [Next]_vars => [hook # "untold" => asked' = asked]_vars
  BY <1>2
<1> QED BY <1>1, <1>2, <1>3, PTL DEF Spec, NothingIsAdmittedAfterStopping

-----------------------------------------------------------------------------
(* The report is the last word.  Who may still send when the end reports:    *)
(* not the reader, which was interrupted before, nor a worker, which is done *)
(* or was interrupted with its send; only fibers that no end waits for.  And *)
(* a frame that waits for a slot is the report's only while the end reports. *)

Over == main \in {"reporting", "telling", "flushing", "done"}
Silent == \A i \in DOMAIN accepted : accepted[i].what # "report"

SendersOK ==
    /\ \A id \in Id : worker[id] \notin {"observing", "noting", "answering"} => sending[id] = Quiet
    /\ reader \notin {"greeting", "refusing"} => sending[Reader] = Quiet
    /\ \A s \in Sender \ {Main} : sending[s].step = "reserving" => sending[s].frame.what \notin {"report", "fatal"}
    /\ main \notin {"reporting", "telling"} => sending[Main] = Quiet
    /\ sending[Main].step = "reserving" => sending[Main].frame.what = IF main = "reporting" THEN "report" ELSE "fatal"
WorkersOK ==
    /\ \A id \in Id : worker[id] # "none" => lane[id] # "free"
    /\ refused \in Id => worker[refused] = "none" /\ reader = "refusing"
    /\ Over \/ main = "cutting" => reader \in {"cutting", "ended"}
    /\ Over => \A id \in Id : worker[id] = "none"
WordOK ==
    /\ Over \/ Silent
    /\ main = "reporting" /\ sending[Main].step \in {"idle", "reserving"} => Silent
    /\ ReportIsTheLastWord
EndOK == SendersOK /\ WorkersOK /\ WordOK

(* What a send does, until its first wait.                                   *)
LEMMA SendDoes ==
    ASSUME HostTypeOK, NEW s \in Sender, NEW frame \in Frames, Send(s, frame)
    PROVE  /\ \A t \in Sender : t # s => sending'[t] = sending[t]
           /\ sending'[s] \in {Sending("failed", NoFrame), Sending("accepted", NoFrame), Sending("reserving", frame)}
           /\ accepted' # accepted => sending'[s].step = "accepted"
           /\ \/ accepted' = accepted
              \/ accepted' = Append(accepted, [frame EXCEPT !.from = s])
BY DEF Send, HostTypeOK, PeerOK, Sending

LEMMA AppendDoes ==
    ASSUME HostTypeOK, NEW frame \in Frames, NEW s \in Sender, accepted' = Append(accepted, [frame EXCEPT !.from = s])
    PROVE  /\ Len(accepted') = Len(accepted) + 1 /\ DOMAIN accepted = 1..Len(accepted) /\ DOMAIN accepted' = 1..Len(accepted')
           /\ Len(accepted) \in Nat
           /\ \A i \in DOMAIN accepted : accepted'[i] = accepted[i]
           /\ accepted'[Len(accepted')].what = frame.what /\ accepted'[Len(accepted')].id = frame.id
           /\ accepted'[Len(accepted')].from = s
BY DEF HostTypeOK, PeerOK, Frames

(* A frame may follow a report only if it tells the failure or is of a turn  *)
(* no worker runs; a report may be accepted only when there is none.         *)
LEMMA WordsKept ==
    ASSUME HostTypeOK, ReportIsTheLastWord, NEW s \in Sender, NEW frame \in Frames, Send(s, frame),
           Silent \/ frame.what = "fatal" \/ s \in Background
    PROVE  /\ ReportIsTheLastWord'
           /\ Silent /\ frame.what # "report" => Silent'
<1>1. CASE accepted' = accepted
  BY <1>1 DEF ReportIsTheLastWord, Silent
<1>2. CASE accepted' = Append(accepted, [frame EXCEPT !.from = s])
  BY <1>2, AppendDoes DEF ReportIsTheLastWord, Silent
<1> QED BY <1>1, <1>2, SendDoes

(* Steps of the dispatcher that send nothing and leave the workers alone.    *)
LEMMA EndKeptBeside ==
    ASSUME EndOK, UNCHANGED <<peerVars, worker, lane, refused, main>>,
           \/ reader' = reader
           \/ reader \notin {"greeting", "refusing"} /\ (reader' = "ended" \/ reader \notin {"cutting", "ended"})
    PROVE  EndOK'
<1>1. SendersOK'
  BY DEF EndOK, SendersOK, peerVars
<1>2. WorkersOK'
  BY DEF EndOK, WorkersOK, Over
<1>3. WordOK'
  BY DEF EndOK, WordOK, Over, Silent, ReportIsTheLastWord, peerVars
<1> QED BY <1>1, <1>2, <1>3 DEF EndOK

(* Steps of the output that move sends on.                                   *)
LEMMA EndKeptByOutput ==
    ASSUME HostTypeOK, EndOK, UNCHANGED <<accepted, worker, lane, reader, refused, main>>,
           \A s \in Sender : \/ sending'[s] = sending[s]
                             \/ sending[s] # Quiet /\ sending'[s].step \in {"acked", "failed"}
    PROVE  EndOK'
<1>1. SendersOK'
  BY Senders DEF EndOK, SendersOK
<1>2. WorkersOK'
  BY DEF EndOK, WorkersOK, Over
<1>3. WordOK'
  BY Senders DEF EndOK, WordOK, Over, Silent, ReportIsTheLastWord
<1> QED BY <1>1, <1>2, <1>3 DEF EndOK

(* A send by the reader or a worker, while the end has not reported, or by a *)
(* background fiber.                                                         *)
LEMMA EndKeptBySend ==
    ASSUME HostTypeOK, EndOK, NEW s \in Sender \ {Main}, NEW frame \in Frames, Send(s, frame),
           frame.what \notin {"report", "fatal"}, ~Over \/ s \in Background, main' = main,
           s \in Id => worker'[s] \in {"observing", "noting", "answering"},
           s = Reader => reader' \in {"greeting", "refusing"}, s # Reader => reader' = reader,
           WorkersOK', \A id \in Id : id # s => worker'[id] = worker[id]
    PROVE  EndOK'
<1>1. /\ \A t \in Sender : t # s => sending'[t] = sending[t]
      /\ sending'[s] \in {Sending("failed", NoFrame), Sending("accepted", NoFrame), Sending("reserving", frame)}
  BY SendDoes
<1>2. SendersOK'
  <2>1. \A id \in Id : worker'[id] \notin {"observing", "noting", "answering"} => sending'[id] = Quiet
    BY <1>1, Senders DEF EndOK, SendersOK
  <2>2. ASSUME NEW t \in Sender \ {Main}, sending'[t].step = "reserving" PROVE sending'[t].frame.what \notin {"report", "fatal"}
    <3>1. CASE t = s
      <4>1. sending'[s] = Sending("reserving", frame)
        BY <1>1, <2>2, <3>1 DEF Sending
      <4> QED BY <3>1, <4>1 DEF Sending
    <3>2. CASE t # s
      BY <1>1, <2>2, <3>2 DEF EndOK, SendersOK
    <3> QED BY <3>1, <3>2
  <2>3. sending'[Main] = sending[Main]
    BY <1>1, Senders
  <2>4. reader' \notin {"greeting", "refusing"} => sending'[Reader] = Quiet
    BY <1>1, Senders DEF EndOK, SendersOK
  <2> QED BY <2>1, <2>2, <2>3, <2>4 DEF EndOK, SendersOK
<1>3. ReportIsTheLastWord' /\ (Silent => Silent')
  BY WordsKept DEF EndOK, WordOK
<1>4. sending'[Main] = sending[Main]
  BY <1>1, Senders
<1> QED BY <1>2, <1>3, <1>4 DEF EndOK, WordOK, Over

(* A send by the end: of the report while there is none, or of the failure.  *)
LEMMA EndKeptByLastWords ==
    ASSUME HostTypeOK, EndOK, NEW frame \in Frames, Send(Main, frame), UNCHANGED <<worker, lane, reader, refused, main>>,
           (main = "reporting" /\ frame.what = "report" /\ Silent) \/ (main = "telling" /\ frame.what = "fatal")
    PROVE  EndOK'
<1>1. /\ \A t \in Sender : t # Main => sending'[t] = sending[t]
      /\ sending'[Main] \in {Sending("failed", NoFrame), Sending("accepted", NoFrame), Sending("reserving", frame)}
      /\ accepted' # accepted => sending'[Main].step = "accepted"
  BY Senders, SendDoes
<1>2. SendersOK'
  <2>1. sending'[Main].step = "reserving" => sending'[Main].frame = frame
    BY <1>1 DEF Sending
  <2> QED BY <1>1, <2>1, Senders DEF EndOK, SendersOK
<1>3. WorkersOK'
  BY DEF EndOK, WorkersOK, Over
<1>4. WordOK'
  <2>1. ReportIsTheLastWord'
    BY Senders, WordsKept DEF EndOK, WordOK
  <2>2. main = "reporting" /\ sending'[Main].step \in {"idle", "reserving"} => Silent'
    <3>1. main = "reporting" /\ sending'[Main].step \in {"idle", "reserving"} => accepted' = accepted /\ Silent
      BY <1>1
    <3> QED BY <3>1 DEF Silent
  <2> QED BY <2>1, <2>2 DEF WordOK, Over
<1> QED BY <1>2, <1>3, <1>4 DEF EndOK

(* A sender but the end, whose send has returned.                            *)
LEMMA EndKeptByReturn ==
    ASSUME HostTypeOK, EndOK, NEW s \in Sender \ {Main}, Returns(s), main' = main,
           \A id \in Id : id # s => worker'[id] = worker[id], s # Reader => reader' = reader,
           WorkersOK'
    PROVE  EndOK'
<1>1. sending'[s] = Quiet /\ \A t \in Sender : t # s => sending'[t] = sending[t]
  BY DEF Returns, HostTypeOK, PeerOK
<1>2. SendersOK'
  <2>1. \A t \in Sender \ {Main} : sending'[t].step = "reserving" => sending'[t].frame.what \notin {"report", "fatal"}
    BY <1>1 DEF EndOK, SendersOK, Quiet, Sending
  <2> QED BY <1>1, <2>1, Senders DEF EndOK, SendersOK
<1>3. WordOK'
  BY <1>1, Senders DEF EndOK, WordOK, Returns, Over, Silent, ReportIsTheLastWord
<1> QED BY <1>2, <1>3 DEF EndOK

LEMMA EndKeptByReserve ==
    ASSUME HostTypeOK, EndOK, NEW s \in Sender, Reserves(s), UNCHANGED hostVars
    PROVE  EndOK'
<1>1. sending[s].step = "reserving" /\ Send(s, sending[s].frame)
  BY DEF Reserves
<1>2. PICK frame \in Frames : frame = sending[s].frame
  BY <1>1 DEF HostTypeOK, PeerOK
<1>3. Send(s, frame) /\ sending[s] # Quiet
  BY <1>1, <1>2 DEF Quiet, Sending
<1>4. UNCHANGED <<worker, lane, reader, refused, main>>
  BY DEF hostVars
<1>5. CASE s = Main
  <2>1. (main = "reporting" /\ frame.what = "report" /\ Silent) \/ (main = "telling" /\ frame.what = "fatal")
    <3>1. sending[Main].step = "reserving" /\ sending[Main] # Quiet /\ frame = sending[Main].frame
      BY <1>1, <1>2, <1>3, <1>5
    <3>2. main \in {"reporting", "telling"}
      BY <3>1 DEF EndOK, SendersOK
    <3>3. frame.what = IF main = "reporting" THEN "report" ELSE "fatal"
      BY <3>1 DEF EndOK, SendersOK
    <3>4. main = "reporting" => Silent
      BY <3>1 DEF EndOK, WordOK
    <3>5. CASE main = "reporting"
      <4>1. frame.what = "report"
        BY <3>3, <3>5
      <4> QED BY <3>4, <3>5, <4>1
    <3>6. CASE main = "telling"
      <4>1. frame.what = "fatal"
        BY <3>3, <3>6
      <4> QED BY <3>6, <4>1
    <3> QED BY <3>2, <3>5, <3>6
  <2> QED BY <1>3, <1>4, <1>5, <2>1, EndKeptByLastWords
<1>6. CASE s \in Id
  <2>1. worker[s] \in {"observing", "noting", "answering"}
    BY <1>3, <1>6 DEF EndOK, SendersOK
  <2>2. ~Over
    BY <1>6, <2>1 DEF EndOK, WorkersOK
  <2>3. frame.what \notin {"report", "fatal"} /\ s \in Sender \ {Main} /\ s # Reader
    BY <1>1, <1>2, <1>6, Senders DEF EndOK, SendersOK
  <2>4. WorkersOK'
    BY <1>4 DEF EndOK, WorkersOK, Over
  <2> QED BY <1>3, <1>4, <2>1, <2>2, <2>3, <2>4, EndKeptBySend
<1>7. CASE s = Reader
  <2>1. reader \in {"greeting", "refusing"}
    BY <1>3, <1>7 DEF EndOK, SendersOK
  <2>2. ~Over
    BY <2>1 DEF EndOK, WorkersOK
  <2>3. frame.what \notin {"report", "fatal"} /\ s \in Sender \ {Main} /\ s \notin Id
    BY <1>1, <1>2, <1>7, Senders DEF EndOK, SendersOK
  <2>4. WorkersOK'
    BY <1>4 DEF EndOK, WorkersOK, Over
  <2> QED BY <1>3, <1>4, <1>7, <2>1, <2>2, <2>3, <2>4, EndKeptBySend
<1>8. CASE s \in Background
  <2>1. frame.what \notin {"report", "fatal"} /\ s \in Sender \ {Main} /\ s \notin Id /\ s # Reader
    BY <1>1, <1>2, <1>8, Senders DEF EndOK, SendersOK
  <2>2. WorkersOK'
    BY <1>4 DEF EndOK, WorkersOK, Over
  <2> QED BY <1>3, <1>4, <1>8, <2>1, <2>2, EndKeptBySend
<1> QED BY <1>5, <1>6, <1>7, <1>8, Senders

(* Every step keeps who may still send at the end.                           *)
LEMMA EndKept ==
    ASSUME HostTypeOK, EndOK, [Next]_vars
    PROVE  EndOK'
<1>0. /\ Reader \in Sender \ {Main} /\ \A id \in Id : id \in Sender \ {Main}
      /\ \A b \in Background : b \in Sender \ {Main}
  BY Senders
<1>1. CASE UNCHANGED vars
  BY <1>1, EndKeptBeside DEF vars, hostVars
<1>2. CASE HookEnds \/ HookFails \/ HandshakeExpires \/ Signal
  BY <1>2, EndKeptBeside DEF HookEnds, HookFails, HandshakeExpires, Signal, endVars
<1>3. CASE SetUp \/ SetupFails \/ InputEnds \/ InputFails \/ SetupCut
  <2>1. /\ reader \notin {"greeting", "refusing"} /\ (reader' = "ended" \/ reader \notin {"cutting", "ended"})
        /\ UNCHANGED <<peerVars, worker, lane, refused, main>>
    BY <1>3 DEF SetUp, SetupFails, InputEnds, InputFails, SetupCut, Reading, endVars
  <2> QED BY <2>1, EndKeptBeside
<1>4. CASE PeerSteps \/ PeerFails
  <2>1. UNCHANGED <<worker, lane, reader, refused, main>>
    BY <1>4 DEF PeerSteps, PeerFails, OnlyPeer, hostVars
  <2>2. CASE Writes
    BY <2>1, <2>2, EndKeptByOutput DEF Writes
  <2>3. CASE Acknowledges
    <3>1. accepted' = accepted
      BY <2>3 DEF Acknowledges
    <3>2. PICK from : sending' = AcknowledgedTo(from)
      BY <2>3 DEF Acknowledges
    <3>3. \A s \in Sender : sending'[s] = sending[s] \/ (sending[s] # Quiet /\ sending'[s].step \in {"acked", "failed"})
      BY <3>2 DEF AcknowledgedTo, HostTypeOK, PeerOK, Quiet, Sending
    <3> QED BY <2>1, <3>1, <3>3, EndKeptByOutput
  <2>4. CASE Latch
    <3>1. accepted' = accepted
      BY <2>4 DEF Latch
    <3>2. \A s \in Sender : sending'[s] = sending[s] \/ (sending[s] # Quiet /\ sending'[s].step \in {"acked", "failed"})
      BY <2>4 DEF Latch, Quiet, Sending
    <3> QED BY <2>1, <3>1, <3>2, EndKeptByOutput
  <2> QED BY <1>4, <2>2, <2>3, <2>4 DEF PeerSteps, PeerFails, OutputFails, WriteTimesOut
<1>5. ASSUME NEW s \in Sender, SenderSteps(s) PROVE EndOK'
  <2>1. CASE Reserves(s) /\ OnlyPeer /\ UNCHANGED faults
    BY <2>1, EndKeptByReserve DEF OnlyPeer
  <2>2. CASE CapacityPasses(s) /\ OnlyPeer /\ UNCHANGED faults
    BY <2>2, EndKeptByOutput DEF CapacityPasses, OnlyPeer, hostVars, HostTypeOK, PeerOK, Quiet, Sending
  <2>3. CASE SendFailed(s)
    BY <2>3, EndKeptByOutput DEF SendFailed, endVars, HostTypeOK, PeerOK, Quiet, Sending
  <2> QED BY <1>5, <2>1, <2>2, <2>3 DEF SenderSteps
<1>6. CASE Greeted \/ Refused
  <2>1. reader \in {"greeting", "refusing"} /\ ~Over /\ main # "cutting" /\ Returns(Reader) /\ UNCHANGED <<worker, main>>
    BY <1>6 DEF EndOK, WorkersOK, Greeted, Refused, endVars
  <2>2. WorkersOK'
    <3>1. CASE Greeted
      BY <2>1, <3>1 DEF EndOK, WorkersOK, Over, Greeted
    <3>2. CASE Refused
      <4>1. \A id \in Id : worker[id] # "none" => lane'[id] # "free"
        BY <3>2 DEF EndOK, WorkersOK, Refused, Release
      <4> QED BY <2>1, <3>2, <4>1, Senders DEF WorkersOK, Over, Refused
    <3> QED BY <1>6, <3>1, <3>2
  <2> QED BY <1>0, <2>1, <2>2, EndKeptByReturn
<1>7. ASSUME NEW command \in Command, FirstCommand(command) PROVE EndOK'
  <2>1. ~Over /\ main # "cutting" /\ reader = "reading" /\ UNCHANGED <<worker, lane, refused, main>>
    BY <1>7 DEF FirstCommand, Reads, Reading, EndOK, WorkersOK, endVars
  <2>2. CASE command = "hello"
    <3>1. WorkersOK'
      BY <1>7, <2>1, <2>2 DEF EndOK, WorkersOK, Over, FirstCommand
    <3>2. Frame("hello", NoId) \in Frames /\ Frame("hello", NoId).what = "hello" /\ Send(Reader, Frame("hello", NoId))
      BY <1>7, <2>2, FramesMade DEF FirstCommand, Frame
    <3>3. reader' = "greeting"
      BY <1>7, <2>2 DEF FirstCommand
    <3> QED BY <1>0, <2>1, <3>1, <3>2, <3>3, EndKeptBySend, Senders
  <2>3. CASE command # "hello"
    BY <1>7, <2>1, <2>3, EndKeptBeside DEF FirstCommand
  <2> QED BY <2>2, <2>3
<1>8. ASSUME NEW command \in Command, NEW id \in Id, Duplicate(id, command) PROVE EndOK'
  BY <1>8, EndKeptBeside DEF Duplicate, endVars
<1>9. ASSUME NEW command \in Command, NEW id \in Id, Refuse(id, command) PROVE EndOK'
  <2>1. ~Over /\ main # "cutting" /\ reader = "reading" /\ UNCHANGED <<worker, main>> /\ reader' = "refusing"
    BY <1>9 DEF Refuse, Reads, Reading, EndOK, WorkersOK, endVars
  <2>2. WorkersOK'
    <3>1. refused \notin Id
      BY <2>1 DEF EndOK, WorkersOK
    <3>2. CASE UNCHANGED <<lane, refused>>
      BY <2>1, <3>1, <3>2 DEF EndOK, WorkersOK, Over
    <3>3. CASE Admission(id, command) = "Admitted" /\ lane' = [lane EXCEPT ![id] = LaneOf(command)] /\ refused' = id
      <4>1. lane[id] = "free"
        BY <3>3 DEF Admission, Outstanding
      <4>2. worker[id] = "none"
        BY <4>1 DEF EndOK, WorkersOK
      <4>3. \A i \in Id : worker[i] # "none" => lane'[i] # "free"
        BY <3>3, <4>2 DEF EndOK, WorkersOK, HostTypeOK, HostOK
      <4> QED BY <2>1, <3>3, <4>2, <4>3 DEF WorkersOK, Over
    <3> QED BY <1>9, <3>2, <3>3 DEF Refuse
  <2>3. Frame("refusal", id) \in Frames /\ Frame("refusal", id).what = "refusal" /\ Send(Reader, Frame("refusal", id))
    BY <1>9, FramesMade DEF Refuse, Frame
  <2> QED BY <1>0, <2>1, <2>2, <2>3, EndKeptBySend, Senders
<1>10. ASSUME NEW command \in Command, NEW id \in Id, Admit(id, command) PROVE EndOK'
  <2>1. lane[id] = "free" /\ ~Over /\ main # "cutting" /\ reader = "reading"
    BY <1>10 DEF Admit, Admission, Outstanding, Reads, Reading, EndOK, WorkersOK
  <2>2. worker[id] = "none" /\ sending[id] = Quiet /\ refused \notin Id
    BY <2>1 DEF EndOK, WorkersOK, SendersOK
  <2>3. UNCHANGED <<peerVars, reader, refused, main>> /\ lane' = [lane EXCEPT ![id] = LaneOf(command)]
    BY <1>10 DEF Admit, endVars
  <2>4. \E step \in {"none", "running", "misplaced"} : worker' = [worker EXCEPT ![id] = step]
    <3>1. CASE command = "shutdown"
      BY <1>10, <2>2, <3>1 DEF Admit, HostTypeOK, HostOK
    <3>2. CASE command = "hello"
      BY <1>10, <3>2 DEF Admit
    <3>3. CASE command \notin {"hello", "shutdown"}
      BY <1>10, <3>3 DEF Admit
    <3> QED BY <3>1, <3>2, <3>3
  <2>5. LaneOf(command) # "free"
    BY DEF LaneOf
  <2>6. SendersOK'
    BY <2>2, <2>3, <2>4 DEF EndOK, SendersOK, HostTypeOK, HostOK, peerVars
  <2>7. WorkersOK'
    BY <2>1, <2>2, <2>3, <2>4, <2>5 DEF EndOK, WorkersOK, Over, HostTypeOK, HostOK, peerVars
  <2>8. WordOK'
    BY <2>3 DEF EndOK, WordOK, Over, Silent, ReportIsTheLastWord, peerVars
  <2> QED BY <2>6, <2>7, <2>8 DEF EndOK
<1>11. ASSUME NEW id \in Id, WorkerSteps(id) PROVE EndOK'
  <2>0. worker[id] # "none" /\ UNCHANGED <<refused, reader, main>>
    BY <1>11 DEF WorkerSteps, Stores, StoreAnswers, Runs, Observe, Observed, Answer, WorkFails, Leave, Interrupted, OnlyWorker, endVars
  <2>1. ~Over /\ refused # id
    BY <2>0 DEF EndOK, WorkersOK
  <2>2. CASE Observe(id) \/ Answer(id)
    <3>1. PICK what \in {"event", "answer"} : Send(id, Frame(what, id))
      BY <2>2 DEF Observe, Answer
    <3>2. \E step \in {"observing", "noting", "answering"} : worker' = [worker EXCEPT ![id] = step]
      BY <2>2 DEF Observe, Answer, WorkerGoes
    <3>3. lane' = lane
      BY <2>2 DEF Observe, Answer
    <3>4. WorkersOK'
      BY <2>0, <2>1, <3>2, <3>3 DEF EndOK, WorkersOK, Over, HostTypeOK, HostOK
    <3>5. Frame(what, id) \in Frames /\ Frame(what, id).what = what
      BY FramesMade DEF Frame
    <3>6. worker'[id] \in {"observing", "noting", "answering"} /\ \A i \in Id : i # id => worker'[i] = worker[i]
      BY <3>2 DEF HostTypeOK, HostOK
    <3> QED BY <1>0, <2>0, <2>1, <3>1, <3>4, <3>5, <3>6, EndKeptBySend, Senders
  <2>3. CASE Observed(id)
    <3>1. Returns(id) /\ lane' = lane /\ \E step \in {"running", "storing"} : worker' = [worker EXCEPT ![id] = step]
      BY <2>3 DEF Observed, WorkerGoes
    <3>2. WorkersOK'
      BY <2>0, <2>1, <3>1 DEF EndOK, WorkersOK, Over, HostTypeOK, HostOK
    <3> QED BY <1>0, <2>0, <2>1, <3>1, <3>2, EndKeptByReturn DEF HostTypeOK, HostOK
  <2>4. CASE Stores(id) \/ StoreAnswers(id) \/ WorkFails(id)
    <3>1. /\ worker[id] \in {"misplaced", "running", "storing"} /\ UNCHANGED <<peerVars, lane>>
          /\ \E step \in {"running", "storing", "leaving"} : worker' = [worker EXCEPT ![id] = step]
      BY <2>4 DEF Stores, StoreAnswers, Runs, WorkFails, WorkerGoes
    <3>2. SendersOK'
      BY <2>0, <3>1 DEF EndOK, SendersOK, HostTypeOK, HostOK, peerVars
    <3>3. WorkersOK'
      BY <2>0, <2>1, <3>1 DEF EndOK, WorkersOK, Over, HostTypeOK, HostOK
    <3>4. WordOK'
      BY <2>0, <3>1 DEF EndOK, WordOK, Over, Silent, ReportIsTheLastWord, peerVars
    <3> QED BY <3>2, <3>3, <3>4 DEF EndOK
  <2>5. CASE Leave(id) \/ Interrupted(id)
    <3>1. worker' = [worker EXCEPT ![id] = "none"] /\ Release({id}) /\ accepted' = accepted
      BY <2>5 DEF Leave, Interrupted, WorkerGoes, Returns, peerVars
    <3>2. \A i \in Id : worker'[i] # "none" => lane'[i] # "free"
      BY <3>1 DEF Release, EndOK, WorkersOK, HostTypeOK, HostOK
    <3>3. WorkersOK'
      BY <2>0, <2>1, <3>1, <3>2 DEF EndOK, WorkersOK, Over, HostTypeOK, HostOK
    <3>4. CASE Returns(id)
      BY <1>0, <2>0, <2>1, <3>1, <3>3, <3>4, EndKeptByReturn DEF HostTypeOK, HostOK
    <3>5. CASE (worker[id] = "leaving" /\ UNCHANGED peerVars) \/ SendsNoMore({id})
      <4>1. sending'[id] = Quiet /\ \A s \in Sender \ {id} : sending'[s] = sending[s]
        BY <1>0, <3>5 DEF EndOK, SendersOK, SendsNoMore, peerVars
      <4>2. SendersOK'
        <5>1. \A s \in Sender \ {Main} : sending'[s].step = "reserving" => sending'[s].frame.what \notin {"report", "fatal"}
          BY <4>1 DEF EndOK, SendersOK, Quiet, Sending
        <5> QED BY <2>0, <3>1, <4>1, <5>1, Senders DEF EndOK, SendersOK, HostTypeOK, HostOK
      <4>3. WordOK'
        BY <2>0, <3>1, <4>1, Senders DEF EndOK, WordOK, Over, Silent, ReportIsTheLastWord
      <4> QED BY <3>3, <4>2, <4>3 DEF EndOK
    <3> QED BY <2>5, <3>4, <3>5 DEF Leave, Interrupted
  <2> QED BY <1>11, <2>2, <2>3, <2>4, <2>5 DEF WorkerSteps
<1>12. ASSUME NEW b \in Background, BackgroundSteps(b) PROVE EndOK'
  <2>1. UNCHANGED hostVars
    BY <1>12 DEF BackgroundSteps, Note, Noted
  <2>2. WorkersOK' /\ UNCHANGED <<worker, reader, main>>
    BY <2>1 DEF EndOK, WorkersOK, Over, hostVars
  <2>3. CASE Note(b)
    <3>1. Send(b, Frame("event", NoId)) /\ Frame("event", NoId) \in Frames /\ Frame("event", NoId).what = "event"
      BY <2>3, FramesMade DEF Note, Frame
    <3> QED BY <1>0, <2>2, <3>1, EndKeptBySend, Senders
  <2>4. CASE Noted(b)
    BY <1>0, <2>2, <2>4, EndKeptByReturn, Senders DEF Noted
  <2> QED BY <1>12, <2>3, <2>4 DEF BackgroundSteps
<1>13. ASSUME NEW s \in Id \cup Background, ObservationFails(s) PROVE EndOK'
  BY <1>13, EndKeptBeside DEF ObservationFails, endVars
<1>14. CASE ReaderInterrupted
  <2>1. reader' \in {"cutting", "ended"} /\ refused' = NoId /\ UNCHANGED <<accepted, worker, main>>
    BY <1>14 DEF ReaderInterrupted, endVars
  <2>2. sending'[Reader] = Quiet /\ \A s \in Sender \ {Reader} : sending'[s] = sending[s]
    BY <1>0, <1>14 DEF ReaderInterrupted, SendsNoMore
  <2>3. SendersOK'
    <3>1. \A s \in Sender \ {Main} : sending'[s].step = "reserving" => sending'[s].frame.what \notin {"report", "fatal"}
      BY <2>2 DEF EndOK, SendersOK, Quiet, Sending
    <3> QED BY <2>1, <2>2, <3>1, Senders DEF EndOK, SendersOK
  <2>4. WorkersOK'
    <3>1. \A id \in Id : worker[id] # "none" => lane'[id] # "free"
      BY <1>14 DEF ReaderInterrupted, Release, EndOK, WorkersOK
    <3> QED BY <2>1, <3>1, Senders DEF EndOK, WorkersOK, Over
  <2>5. WordOK'
    BY <2>1, <2>2, Senders DEF EndOK, WordOK, Over, Silent, ReportIsTheLastWord
  <2> QED BY <2>3, <2>4, <2>5 DEF EndOK
<1>15. CASE MainSteps
  <2>1. CASE Wake \/ ShutDown \/ ShutdownDies \/ DrainTimesOut
    <3>1. main \in {"waiting", "shutting", "draining"} /\ main' \in {"shutting", "draining", "cutting"}
          /\ UNCHANGED <<peerVars, lane, worker, reader, refused>>
          /\ (main' = "cutting" => reader \in {"cutting", "ended"})
      BY <2>1 DEF Wake, ShutDown, ShutdownDies, DrainTimesOut, Draining, MainGoes
    <3> QED BY <3>1 DEF EndOK, SendersOK, WorkersOK, WordOK, Over, Silent, ReportIsTheLastWord, peerVars, Quiet, Sending
  <2>2. CASE WorkersDone \/ Cleared
    <3>1. main \in {"draining", "cutting"} /\ main' = "reporting" /\ UNCHANGED <<peerVars, lane, worker, reader, refused>>
          /\ \A id \in Id : worker[id] = "none"
      BY <2>2 DEF WorkersDone, Cleared, Draining, MainGoes, Busy
    <3>2. reader \in {"cutting", "ended"}
      BY <2>2, <3>1 DEF WorkersDone, Cleared, Draining, EndOK, WorkersOK
    <3> QED BY <3>1, <3>2 DEF EndOK, SendersOK, WorkersOK, WordOK, Over, Silent, ReportIsTheLastWord, peerVars, Quiet, Sending
  <2>3. CASE Report \/ TellFailure
    <3>1. main \in {"reporting", "telling"} /\ sending[Main] = Quiet /\ UNCHANGED <<lane, worker, reader, refused>>
      BY <2>3 DEF Report, MainStays, TellFailure
    <3>2. ASSUME UNCHANGED peerVars, main' \in {"telling", "flushing"} PROVE EndOK'
      BY <3>1, <3>2 DEF EndOK, SendersOK, WorkersOK, WordOK, Over, Silent, ReportIsTheLastWord, peerVars, Quiet, Sending
    <3>3. ASSUME main = "reporting", Send(Main, Frame("report", ending)), main' = main PROVE EndOK'
      <4>1. Silent
        BY <3>1, <3>3 DEF EndOK, WordOK, Quiet, Sending
      <4>2. Frame("report", ending) \in Frames /\ Frame("report", ending).what = "report"
        BY FramesMade DEF Frame, HostTypeOK, HostOK
      <4> QED BY <3>1, <3>3, <4>1, <4>2, EndKeptByLastWords
    <3>4. ASSUME main = "telling", Send(Main, Frame("fatal", ending)), main' = main PROVE EndOK'
      <4>1. Frame("fatal", ending) \in Frames /\ Frame("fatal", ending).what = "fatal"
        BY FramesMade DEF Frame, HostTypeOK, HostOK
      <4> QED BY <3>1, <3>4, <4>1, EndKeptByLastWords
    <3> QED BY <2>3, <3>2, <3>3, <3>4 DEF Report, MainStays, TellFailure, MainGoes
  <2>4. CASE Reported \/ FailureTold
    <3>1. main \in {"reporting", "telling"} /\ main' \in {"telling", "flushing"}
          /\ UNCHANGED <<accepted, lane, worker, reader, refused>>
      BY <2>4 DEF Reported, FailureTold, MainGoes, Returns
    <3>2. sending'[Main] = Quiet /\ \A s \in Sender : s # Main => sending'[s] = sending[s]
      BY <2>4, Senders DEF Reported, FailureTold, Returns, HostTypeOK, PeerOK
    <3>3. SendersOK'
      BY <3>1, <3>2, Senders DEF EndOK, SendersOK, Quiet, Sending
    <3>4. WorkersOK'
      BY <3>1 DEF EndOK, WorkersOK, Over
    <3>5. WordOK'
      BY <3>1 DEF EndOK, WordOK, Over, Silent, ReportIsTheLastWord
    <3> QED BY <3>3, <3>4, <3>5 DEF EndOK
  <2>5. CASE Flush
    <3>1. main = "flushing" /\ main' = "done" /\ UNCHANGED <<peerVars, lane, worker, reader, refused>>
      BY <2>5 DEF Flush, MainGoes
    <3> QED BY <3>1 DEF EndOK, SendersOK, WorkersOK, WordOK, Over, Silent, ReportIsTheLastWord, peerVars
  <2> QED BY <1>15, <2>1, <2>2, <2>3, <2>4, <2>5 DEF MainSteps
<1> QED
  BY <1>1, <1>2, <1>3, <1>4, <1>5, <1>6, <1>7, <1>8, <1>9, <1>10, <1>11, <1>12, <1>13, <1>14, <1>15 DEF Next, ReaderSteps

(* However the workers, the reader, the background's turns and the output    *)
(* interleave with the end, for any lanes and slots: after the shutdown      *)
(* report there is only the failure, and events of turns no worker runs.     *)
THEOREM ReportsAreTheLastWord == Spec => []ReportIsTheLastWord
<1>1. Init => EndOK
  BY HostConstants DEF Init, PeerInit, EndOK, SendersOK, WorkersOK, WordOK, Over, Silent, ReportIsTheLastWord, Quiet, Sending
<1>2. HostTypeOK /\ EndOK /\ [Next]_vars => EndOK'
  BY EndKept
<1>3. EndOK => ReportIsTheLastWord
  BY DEF EndOK, WordOK
<1> QED BY <1>1, <1>2, <1>3, HostTypeCorrect, PTL DEF Spec
-----------------------------------------------------------------------------
(* A clean exit answered everything.  For each request id, what is answered  *)
(* and what is still due are what was asked, until a worker is interrupted   *)
(* or something fails; a send that failed is lost until its sender says so.  *)

AnswerDue(id) ==
    \/ worker[id] \in {"misplaced", "running", "storing", "observing", "noting"}
    \/ worker[id] = "answering" /\ sending[id].step = "reserving"
ReportDue(id) ==
    /\ ending = id
    /\ \/ main \in {"waiting", "shutting", "draining", "cutting"}
       \/ main = "reporting" /\ sending[Main].step \in {"idle", "reserving"}
Due(id) == (IF AnswerDue(id) THEN 1 ELSE 0) + (IF ReportDue(id) THEN 1 ELSE 0)
Lost(id) ==
    \/ worker[id] = "answering" /\ sending[id].step = "failed"
    \/ ending = id /\ main = "reporting" /\ sending[Main].step = "failed"
CountsOK == failure = "none" => \A id \in Id \ cut : Lost(id) \/ Answers(id) + Due(id) = asked[id]

(* Who asked the stop is known once, and to a host that has a binding; what  *)
(* the end knows of itself; whose frames its flush does not await.           *)
NamesOK ==
    /\ state # "Stopping" => ending = NoId
    /\ ending \in Id => bound
    /\ main # "waiting" => hook = "told"
ResultOK ==
    /\ main \notin {"waiting", "shutting"} /\ ending \in Id => report \/ failure # "none"
    /\ result # "none" => main = "done"
    /\ result = "ok" => awaited <= written /\ \A id \in Id \ cut : Answers(id) = asked[id]
AwaitedOK ==
    main \in {"flushing", "done"} => \A i \in DOMAIN accepted : i > awaited => accepted[i].from \in Background

(* A frame that waits for a slot is of its sender, for its request.          *)
FramesOK ==
    \A s \in Sender : sending[s].step = "reserving" =>
      /\ s = Reader => sending[s].frame.what \in {"hello", "refusal"}
      /\ s = Main => sending[s].frame.id = ending
      /\ s \in Background => sending[s].frame.what = "event"
      /\ s \in Id => sending[s].frame.id = s /\ sending[s].frame.what = IF worker[s] \in {"observing", "noting"} THEN "event" ELSE "answer"

CleanOK == NamesOK /\ ResultOK /\ FramesOK /\ CountsOK

LEMMA AnswersCounted ==
    ASSUME HostTypeOK, NEW id \in Id
    PROVE  /\ Answers(id) \in Nat
           /\ accepted' = accepted => Answers(id)' = Answers(id)
           /\ \A s \in Sender, frame \in Frames : accepted' = Append(accepted, [frame EXCEPT !.from = s]) =>
                Answers(id)' = Answers(id) + IF frame.id = id /\ frame.what \in {"answer", "report"} THEN 1 ELSE 0
<1>1. PICK I : I = {i \in DOMAIN accepted : accepted[i].id = id /\ accepted[i].what \in {"answer", "report"}}
  OBVIOUS
<1>2. IsFiniteSet(I)
  <2>1. DOMAIN accepted = 1..Len(accepted) /\ Len(accepted) \in Nat
    BY DEF HostTypeOK, PeerOK
  <2>2. IsFiniteSet(1..Len(accepted)) /\ I \subseteq 1..Len(accepted)
    BY <1>1, <2>1, FS_Interval
  <2> QED BY <2>2, FS_Subset
<1>3. Answers(id) = Cardinality(I) /\ Cardinality(I) \in Nat
  BY <1>1, <1>2, FS_CardinalityType DEF Answers
<1>4. accepted' = accepted => Answers(id)' = Answers(id)
  BY DEF Answers
<1>5. ASSUME NEW s \in Sender, NEW frame \in Frames, accepted' = Append(accepted, [frame EXCEPT !.from = s])
      PROVE  Answers(id)' = Answers(id) + IF frame.id = id /\ frame.what \in {"answer", "report"} THEN 1 ELSE 0
  <2>1. PICK n \in Nat : n = Len(accepted)
    BY DEF HostTypeOK, PeerOK
  <2>2. /\ DOMAIN accepted = 1..n /\ DOMAIN accepted' = 1..n + 1
        /\ \A i \in 1..n : accepted'[i] = accepted[i]
        /\ accepted'[n + 1].what = frame.what /\ accepted'[n + 1].id = frame.id
    BY <1>5, <2>1, AppendDoes
  <2>3. PICK J : J = {i \in DOMAIN accepted' : accepted'[i].id = id /\ accepted'[i].what \in {"answer", "report"}}
    OBVIOUS
  <2>4. Answers(id)' = Cardinality(J)
    BY <2>3 DEF Answers
  <2>5. n + 1 \notin I
    BY <1>1, <2>2
  <2>6. CASE frame.id = id /\ frame.what \in {"answer", "report"}
    <3>1. J = I \cup {n + 1}
      BY <1>1, <2>2, <2>3, <2>6
    <3>2. Cardinality(J) = Cardinality(I) + 1
      BY <1>2, <2>5, <3>1, FS_AddElement
    <3> QED BY <1>3, <2>4, <2>6, <3>2
  <2>7. CASE ~(frame.id = id /\ frame.what \in {"answer", "report"})
    <3>1. J = I
      BY <1>1, <2>2, <2>3, <2>7
    <3> QED BY <1>3, <2>4, <2>7, <3>1
  <2> QED BY <2>6, <2>7
<1> QED BY <1>3, <1>4, <1>5

LEMMA SendEnds ==
    ASSUME HostTypeOK, NEW s \in Sender, NEW frame \in Frames, Send(s, frame)
    PROVE  /\ \A t \in Sender : t # s => sending'[t] = sending[t]
           /\ \/ sending'[s].step = "accepted" /\ accepted' = Append(accepted, [frame EXCEPT !.from = s])
              \/ sending'[s].step = "failed" /\ accepted' = accepted
              \/ sending'[s] = Sending("reserving", frame) /\ sending'[s].step = "reserving" /\ accepted' = accepted
           /\ sending'[s].step = "reserving" => sending'[s].frame = frame
           /\ UNCHANGED written
BY DEF Send, HostTypeOK, PeerOK, Sending

-----------------------------------------------------------------------------
(* Stops that no request asked leave the name of the ending alone.           *)
LEMMA StopNames ==
    ASSUME StopOK, NamesOK, NEW s, Stop(s, NoId), UNCHANGED <<bound, main>>
    PROVE  NamesOK' /\ ending' = ending
BY DEF Stop, NamesOK, StopOK

LEMMA FatalNames ==
    ASSUME StopOK, NamesOK, NEW s, NEW code, Fatal(s, code), code # "none", UNCHANGED <<bound, main>>
    PROVE  NamesOK' /\ ending' = ending /\ failure' # "none"
BY StopNames DEF Fatal, First

(* Sends that go on, and steps that send nothing.                            *)
LEMMA FramesKeptBeside ==
    ASSUME FramesOK, ending' = ending \/ sending[Main].step # "reserving",
           \A s \in Sender : sending'[s] = sending[s] \/ sending'[s].step # "reserving",
           \A id \in Id : sending[id].step = "reserving" => worker'[id] = worker[id] \/ sending'[id].step # "reserving"
    PROVE  FramesOK'
BY Senders DEF FramesOK

LEMMA FramesKeptBySend ==
    ASSUME HostTypeOK, FramesOK, NEW s \in Sender, NEW frame \in Frames, Send(s, frame), ending' = ending,
           \A id \in Id : id # s /\ sending[id].step = "reserving" => worker'[id] = worker[id],
           s = Reader => frame.what \in {"hello", "refusal"},
           s = Main => frame.id = ending,
           s \in Background => frame.what = "event",
           s \in Id => frame.id = s /\ frame.what = IF worker'[s] \in {"observing", "noting"} THEN "event" ELSE "answer"
    PROVE  FramesOK'
<1>1. /\ \A t \in Sender : t # s => sending'[t] = sending[t]
      /\ sending'[s].step = "reserving" => sending'[s].frame = frame
  BY SendEnds
<1>2. ASSUME NEW t \in Sender, t # s, sending'[t].step = "reserving"
      PROVE  /\ t = Reader => sending'[t].frame.what \in {"hello", "refusal"}
             /\ t = Main => sending'[t].frame.id = ending'
             /\ t \in Background => sending'[t].frame.what = "event"
             /\ t \in Id => /\ sending'[t].frame.id = t
                            /\ sending'[t].frame.what = IF worker'[t] \in {"observing", "noting"} THEN "event" ELSE "answer"
  BY <1>1, <1>2, Senders DEF FramesOK
<1> QED BY <1>1, <1>2 DEF FramesOK

-----------------------------------------------------------------------------
(* The counts, for steps that answer nothing and for sends.                  *)
LEMMA CountsKeptBeside ==
    ASSUME HostTypeOK, CountsOK, UNCHANGED <<accepted, asked>>, cut \subseteq cut', failure' = "none" => failure = "none",
           \A id \in Id \ cut' : Lost(id)' \/ (~Lost(id) /\ Due(id)' = Due(id))
    PROVE  CountsOK'
<1>1. \A id \in Id : Answers(id)' = Answers(id)
  BY AnswersCounted
<1> QED BY <1>1 DEF CountsOK

LEMMA CountsKeptByOthers ==
    ASSUME HostTypeOK, CountsOK, NEW s \in Sender, s \notin Id, s # Main,
           NEW frame \in Frames, Send(s, frame), frame.what \in {"hello", "refusal", "event"},
           UNCHANGED <<asked, cut, failure, worker, main>>, ending' = ending
    PROVE  CountsOK' /\ \A id \in Id : Answers(id)' = Answers(id)
<1>1. \A t \in Sender : t # s => sending'[t] = sending[t]
  BY SendEnds
<1>2. sending'[Main] = sending[Main] /\ \A id \in Id : sending'[id] = sending[id]
  BY <1>1, Senders
<1>3. \A id \in Id : (Lost(id)' <=> Lost(id)) /\ Due(id)' = Due(id)
  BY <1>2 DEF Lost, Due, AnswerDue, ReportDue
<1>4. \A id \in Id : Answers(id)' = Answers(id)
  <2>1. accepted' = accepted \/ accepted' = Append(accepted, [frame EXCEPT !.from = s])
    BY SendEnds
  <2>2. \A id \in Id : Answers(id) \in Nat
    BY AnswersCounted
  <2> QED BY <2>1, <2>2, AnswersCounted
<1> QED BY <1>3, <1>4 DEF CountsOK

LEMMA CountsKeptByWorker ==
    ASSUME HostTypeOK, CountsOK, NEW id \in Id, NEW frame \in Frames, Send(id, frame), frame.id = id, AnswerDue(id),
           \/ frame.what = "event" /\ worker'[id] \in {"observing", "noting"}
           \/ frame.what = "answer" /\ worker'[id] = "answering",
           \A i \in Id : i # id => worker'[i] = worker[i],
           UNCHANGED <<asked, cut, failure, main, ending>>
    PROVE  CountsOK'
<1>0. id \in Sender /\ id # Main /\ \A i \in Id : i \in Sender
  BY Senders
<1>1. \A t \in Sender : t # id => sending'[t] = sending[t]
  BY <1>0, SendEnds
<1>2. sending'[Main] = sending[Main] /\ (ReportDue(id)' <=> ReportDue(id))
  BY <1>0, <1>1, Senders DEF ReportDue
<1>3. ASSUME NEW i \in Id, i # id PROVE (Lost(i)' <=> Lost(i)) /\ Due(i)' = Due(i) /\ Answers(i)' = Answers(i)
  <2>1. Lost(i)' <=> Lost(i)
    BY <1>0, <1>1, <1>2, <1>3 DEF Lost
  <2>2. Due(i)' = Due(i)
    BY <1>0, <1>1, <1>2, <1>3 DEF Due, AnswerDue, ReportDue
  <2>3. accepted' = accepted \/ accepted' = Append(accepted, [frame EXCEPT !.from = id])
    BY <1>0, SendEnds
  <2>4. Answers(i) \in Nat
    BY AnswersCounted
  <2>5. Answers(i)' = Answers(i)
    BY <1>0, <1>3, <2>3, <2>4, AnswersCounted
  <2> QED BY <2>1, <2>2, <2>5
<1>4. Lost(id) => Lost(id)'
  BY <1>2 DEF Lost, AnswerDue
<1>5. Lost(id)' \/ Answers(id)' + Due(id)' = Answers(id) + Due(id)
  <2>1. Answers(id) \in Nat
    BY AnswersCounted
  <2>2. CASE frame.what = "event" /\ worker'[id] \in {"observing", "noting"}
    <3>1. AnswerDue(id)' /\ Due(id)' = Due(id)
      BY <1>2, <2>2 DEF Due, AnswerDue
    <3>2. accepted' = accepted \/ accepted' = Append(accepted, [frame EXCEPT !.from = id])
      BY <1>0, SendEnds
    <3>3. Answers(id)' = Answers(id)
      BY <1>0, <2>1, <2>2, <3>2, AnswersCounted
    <3> QED BY <3>1, <3>3
  <2>3. CASE frame.what = "answer" /\ worker'[id] = "answering"
    <3>1. CASE sending'[id].step = "accepted" /\ accepted' = Append(accepted, [frame EXCEPT !.from = id])
      <4>1. ~AnswerDue(id)'
        BY <2>3, <3>1 DEF AnswerDue
      <4>2. Due(id)' + 1 = Due(id) /\ Due(id)' \in Nat
        BY <1>2, <4>1 DEF Due
      <4>3. Answers(id)' = Answers(id) + 1
        BY <1>0, <2>3, <3>1, AnswersCounted
      <4> QED BY <2>1, <4>2, <4>3
    <3>2. CASE sending'[id].step = "failed"
      BY <2>3, <3>2 DEF Lost
    <3>3. CASE sending'[id].step = "reserving" /\ accepted' = accepted
      <4>1. AnswerDue(id)' /\ Due(id)' = Due(id)
        BY <1>2, <2>3, <3>3 DEF Due, AnswerDue
      <4>2. Answers(id)' = Answers(id)
        BY <3>3, AnswersCounted
      <4> QED BY <4>1, <4>2
    <3> QED BY <1>0, <3>1, <3>2, <3>3, SendEnds
  <2> QED BY <2>2, <2>3
<1> QED BY <1>3, <1>4, <1>5 DEF CountsOK

LEMMA CountsKeptByEnd ==
    ASSUME HostTypeOK, CountsOK, NEW frame \in Frames, Send(Main, frame), frame.id = ending,
           \/ main = "reporting" /\ frame.what = "report" /\ sending[Main].step \in {"idle", "reserving"}
           \/ main = "telling" /\ frame.what = "fatal",
           UNCHANGED <<asked, cut, failure, main, ending, worker>>
    PROVE  CountsOK'
<1>0. Main \in Sender /\ \A i \in Id : i \in Sender /\ i # Main
  BY Senders
<1>1. \A i \in Id : sending'[i] = sending[i]
  BY <1>0, SendEnds
<1>2. \A i \in Id : AnswerDue(i)' <=> AnswerDue(i)
  BY <1>1 DEF AnswerDue
<1>3. \A i \in Id : Answers(i) \in Nat
  BY AnswersCounted
<1>4. \/ sending'[Main].step = "accepted" /\ accepted' = Append(accepted, [frame EXCEPT !.from = Main])
      \/ sending'[Main].step = "failed" /\ accepted' = accepted
      \/ sending'[Main].step = "reserving" /\ accepted' = accepted
  BY <1>0, SendEnds
<1>5. ASSUME NEW i \in Id, ending # i \/ main = "telling"
      PROVE  (Lost(i)' <=> Lost(i)) /\ Due(i)' = Due(i) /\ Answers(i)' = Answers(i)
  <2>1. Lost(i)' <=> Lost(i)
    BY <1>1, <1>5 DEF Lost
  <2>2. Due(i)' = Due(i)
    BY <1>2, <1>5 DEF Due, ReportDue
  <2>3. Answers(i)' = Answers(i)
    BY <1>0, <1>3, <1>4, <1>5, AnswersCounted
  <2> QED BY <2>1, <2>2, <2>3
<1>6. ASSUME NEW i \in Id, ending = i, main = "reporting"
      PROVE  (Lost(i) => Lost(i)') /\ (Lost(i)' \/ Answers(i)' + Due(i)' = Answers(i) + Due(i))
  <2>1. ReportDue(i)
    BY <1>6 DEF ReportDue
  <2>2. Lost(i) => Lost(i)'
    BY <1>1, <1>6 DEF Lost
  <2>3. CASE sending'[Main].step = "accepted" /\ accepted' = Append(accepted, [frame EXCEPT !.from = Main])
    <3>1. ~ReportDue(i)'
      BY <1>6, <2>3 DEF ReportDue
    <3>2. Due(i)' + 1 = Due(i) /\ Due(i)' \in Nat
      BY <1>2, <2>1, <3>1 DEF Due
    <3>3. Answers(i)' = Answers(i) + 1
      BY <1>0, <1>6, <2>3, AnswersCounted
    <3> QED BY <1>3, <2>2, <3>2, <3>3
  <2>4. CASE sending'[Main].step = "failed"
    BY <1>6, <2>4 DEF Lost
  <2>5. CASE sending'[Main].step = "reserving" /\ accepted' = accepted
    <3>1. ReportDue(i)' /\ Due(i)' = Due(i)
      BY <1>2, <1>6, <2>1, <2>5 DEF Due, ReportDue
    <3>2. Answers(i)' = Answers(i)
      BY <2>5, AnswersCounted
    <3> QED BY <2>2, <3>1, <3>2
  <2> QED BY <1>4, <2>3, <2>4, <2>5
<1> QED BY <1>5, <1>6 DEF CountsOK

-----------------------------------------------------------------------------
LEMMA SameDue ==
    ASSUME NEW id \in Id, sending'[id] = sending[id], sending'[Main] = sending[Main], worker'[id] = worker[id],
           main' = main, ending' = ending
    PROVE  (Lost(id)' <=> Lost(id)) /\ Due(id)' = Due(id)
BY DEF Lost, Due, AnswerDue, ReportDue

(* Sends that the output moves on.                                           *)
LEMMA DueByOutput ==
    ASSUME NEW id \in Id, UNCHANGED <<worker, main, ending>>,
           \A s \in Sender : \/ sending'[s] = sending[s]
                             \/ sending[s].step \in {"accepted", "reserving"} /\ sending'[s].step = "failed"
                             \/ sending[s].step = "accepted" /\ sending'[s].step = "acked"
    PROVE  Lost(id)' \/ (~Lost(id) /\ Due(id)' = Due(id))
<1>1. id \in Sender /\ Main \in Sender
  BY Senders
<1>2. Lost(id) => Lost(id)'
  BY <1>1 DEF Lost
<1>3. ASSUME ~Lost(id)' PROVE (AnswerDue(id)' <=> AnswerDue(id)) /\ (ReportDue(id)' <=> ReportDue(id))
  <2>1. AnswerDue(id)' <=> AnswerDue(id)
    BY <1>1, <1>3 DEF Lost, AnswerDue
  <2>2. ReportDue(id)' <=> ReportDue(id)
    BY <1>1, <1>3 DEF Lost, ReportDue
  <2> QED BY <2>1, <2>2
<1> QED BY <1>2, <1>3 DEF Due

(* Steps before the end is done that accept nothing.                         *)
LEMMA CleanKeptBeside ==
    ASSUME HostTypeOK, CleanOK, main # "done", NamesOK', FramesOK', ending' = ending,
           UNCHANGED <<accepted, asked, main, report, result>>, cut \subseteq cut', failure' = "none" => failure = "none",
           failure' = "none" => \A id \in Id \ cut' : Lost(id)' \/ (~Lost(id) /\ Due(id)' = Due(id))
    PROVE  CleanOK'
<1>1. ResultOK'
  BY DEF CleanOK, ResultOK, Over
<1>2. CountsOK'
  <2>1. CASE failure' = "none"
    BY <2>1, CountsKeptBeside DEF CleanOK
  <2>2. CASE failure' # "none"
    BY <2>2 DEF CountsOK
  <2> QED BY <2>1, <2>2
<1> QED BY <1>1, <1>2 DEF CleanOK

LEMMA CleanKeptBySend ==
    ASSUME CleanOK, main # "done", UNCHANGED <<main, report, result, cut, failure>>, ending' = ending,
           NamesOK', FramesOK', CountsOK'
    PROVE  CleanOK'
BY DEF CleanOK, ResultOK, Over

(* Steps of the dispatcher that send nothing and ask nothing.                *)
LEMMA CleanKeptByDispatcher ==
    ASSUME HostTypeOK, CleanOK, main # "done", NamesOK', ending' = ending,
           UNCHANGED <<peerVars, worker, asked, cut, main, report, result>>, failure' = "none" => failure = "none"
    PROVE  CleanOK'
<1>1. UNCHANGED <<sending, accepted>>
  BY DEF peerVars
<1>2. FramesOK'
  BY <1>1, FramesKeptBeside DEF CleanOK
<1>3. \A id \in Id : Lost(id)' \/ (~Lost(id) /\ Due(id)' = Due(id))
  BY <1>1, SameDue
<1> QED BY <1>1, <1>2, <1>3, CleanKeptBeside

(* A sender that returns, or whose step the output took.                     *)
LEMMA CleanKeptByReader ==
    ASSUME HostTypeOK, EndOK, StopOK, CleanOK, main # "done", ReaderSteps
    PROVE  CleanOK'
<1>0. /\ Reader \in Sender /\ Main \in Sender /\ Reader # Main /\ Reader \notin Id /\ Reader \notin Background
      /\ \A id \in Id : id \in Sender /\ id # Reader /\ id # Main
  BY Senders
<1>1. CASE SetUp \/ SetupFails \/ InputEnds \/ InputFails
  <2>0. UNCHANGED <<peerVars, worker, asked, cut, main, report, result>>
    BY <1>1 DEF SetUp, SetupFails, InputEnds, InputFails, endVars
  <2>1. NamesOK' /\ ending' = ending /\ (failure' = "none" => failure = "none")
    <3>1. CASE SetUp
      BY <3>1 DEF SetUp, Opened, CleanOK, NamesOK, endVars
    <3>2. CASE SetupFails
      BY <3>2, FatalNames DEF SetupFails, CleanOK, endVars
    <3>3. CASE InputEnds
      <4>1. UNCHANGED <<bound, main>>
        BY <3>3 DEF InputEnds, endVars
      <4>2. CASE state = "AwaitingHello"
        BY <3>3, <4>1, <4>2, FatalNames DEF InputEnds, CleanOK
      <4>3. CASE state # "AwaitingHello"
        BY <3>3, <4>1, <4>3, StopNames DEF InputEnds, CleanOK
      <4> QED BY <4>2, <4>3
    <3>4. CASE InputFails
      BY <3>4, FatalNames DEF InputFails, CleanOK, endVars
    <3> QED BY <1>1, <3>1, <3>2, <3>3, <3>4
  <2> QED BY <2>0, <2>1, CleanKeptByDispatcher
<1>2. CASE Greeted \/ Refused
  <2>1. Returns(Reader) /\ UNCHANGED <<state, failure, ending, hook, worker, bound, main, report, result, asked, cut>>
    BY <1>2 DEF Greeted, Refused, stopVars, endVars
  <2>2. sending'[Reader].step = "idle" /\ accepted' = accepted /\ \A t \in Sender : t # Reader => sending'[t] = sending[t]
    BY <1>0, <2>1 DEF Returns, HostTypeOK, PeerOK, Quiet, Sending
  <2>3. FramesOK'
    BY <1>0, <2>1, <2>2, FramesKeptBeside DEF CleanOK
  <2>4. \A id \in Id : Lost(id)' \/ (~Lost(id) /\ Due(id)' = Due(id))
    BY <1>0, <2>1, <2>2, SameDue
  <2>5. NamesOK'
    BY <2>1 DEF CleanOK, NamesOK
  <2> QED BY <2>1, <2>2, <2>3, <2>4, <2>5, CleanKeptBeside
<1>3. ASSUME NEW command \in Command, FirstCommand(command) PROVE CleanOK'
  <2>1. state = "AwaitingHello" /\ UNCHANGED <<worker, bound, main, report, result, asked, cut>>
    BY <1>3 DEF FirstCommand, endVars
  <2>2. CASE command = "hello"
    <3>1. Send(Reader, Frame("hello", NoId)) /\ UNCHANGED <<failure, ending, hook>> /\ state' = "Starting"
      BY <1>3, <2>2 DEF FirstCommand
    <3>2. Frame("hello", NoId) \in Frames /\ Frame("hello", NoId).what = "hello"
      BY FramesMade DEF Frame
    <3>3. NamesOK'
      BY <2>1, <3>1 DEF CleanOK, NamesOK
    <3>4. FramesOK'
      BY <1>0, <2>1, <3>1, <3>2, FramesKeptBySend DEF CleanOK
    <3>5. CountsOK'
      BY <1>0, <2>1, <3>1, <3>2, CountsKeptByOthers DEF CleanOK
    <3> QED BY <2>1, <3>1, <3>3, <3>4, <3>5, CleanKeptBySend
  <2>3. CASE command # "hello"
    <3>1. Fatal(Reader, "handshake") /\ UNCHANGED peerVars
      BY <1>3, <2>3 DEF FirstCommand
    <3>2. NamesOK' /\ ending' = ending /\ failure' # "none"
      BY <2>1, <3>1, FatalNames DEF CleanOK
    <3> QED BY <2>1, <3>1, <3>2, CleanKeptByDispatcher
  <2> QED BY <2>2, <2>3
<1>4. ASSUME NEW command \in Command, NEW id \in Id, Duplicate(id, command) PROVE CleanOK'
  <2>1. Fatal(Reader, "duplicate") /\ UNCHANGED <<peerVars, worker, bound, asked, cut, main, report, result>>
    BY <1>4 DEF Duplicate, endVars
  <2>2. NamesOK' /\ ending' = ending /\ failure' # "none"
    BY <2>1, FatalNames DEF CleanOK
  <2> QED BY <2>1, <2>2, CleanKeptByDispatcher
<1>5. ASSUME NEW command \in Command, NEW id \in Id, Refuse(id, command) PROVE CleanOK'
  <2>1. /\ Send(Reader, Frame("refusal", id))
        /\ UNCHANGED <<state, failure, ending, hook, worker, bound, main, report, result, asked, cut>>
    BY <1>5 DEF Refuse, stopVars, endVars
  <2>2. Frame("refusal", id) \in Frames /\ Frame("refusal", id).what = "refusal"
    BY FramesMade DEF Frame
  <2>3. NamesOK'
    BY <2>1 DEF CleanOK, NamesOK
  <2>4. FramesOK'
    BY <1>0, <2>1, <2>2, FramesKeptBySend DEF CleanOK
  <2>5. CountsOK'
    BY <1>0, <2>1, <2>2, CountsKeptByOthers DEF CleanOK
  <2> QED BY <2>1, <2>3, <2>4, <2>5, CleanKeptBySend
<1>6. ASSUME NEW command \in Command, NEW id \in Id, Admit(id, command) PROVE CleanOK'
  <2>1. /\ state = "Open" /\ bound /\ lane[id] = "free" /\ main = "waiting" /\ result = "none"
        /\ worker[id] = "none" /\ sending[id] = Quiet /\ sending[Main] = Quiet
    <3>1. state = "Open" /\ lane[id] = "free" /\ reader = "reading" /\ bound
      BY <1>6 DEF Admit, Admission, Outstanding, Reads, Reading, Serving
    <3>2. main = "waiting" /\ worker[id] = "none"
      BY <3>1 DEF EndOK, WorkersOK, StopOK, CleanOK, NamesOK
    <3> QED BY <3>1, <3>2 DEF EndOK, SendersOK, CleanOK, ResultOK
  <2>2. /\ UNCHANGED <<sending, accepted, written, bound, main, report, result, cut>>
        /\ asked' = [asked EXCEPT ![id] = @ + 1]
    BY <1>6 DEF Admit, endVars, peerVars
  <2>3. /\ asked'[id] = asked[id] + 1 /\ asked[id] \in Nat /\ \A i \in Id : i # id => asked'[i] = asked[i]
    BY <2>2 DEF HostTypeOK, HostOK
  <2>4. \A i \in Id : Answers(i) \in Nat /\ Answers(i)' = Answers(i)
    BY <2>2, AnswersCounted
  <2>5. Quiet.step = "idle" /\ NoId \notin Id /\ ending = NoId
    BY <2>1, Senders DEF Quiet, Sending, CleanOK, NamesOK
  <2>6. ~AnswerDue(id) /\ ~ReportDue(id) /\ ~Lost(id)
    BY <2>1, <2>5 DEF AnswerDue, ReportDue, Lost
  <2>7. ResultOK'
    BY <2>1, <2>2 DEF ResultOK, Over, CleanOK
  <2>8. CASE command = "shutdown"
    <3>1. UNCHANGED <<worker, failure>> /\ state' = "Stopping" /\ hook' = Reader /\ ending' = id
      BY <1>6, <2>1, <2>8 DEF Admit, Stop
    <3>2. NamesOK'
      BY <2>1, <2>2, <3>1 DEF NamesOK
    <3>3. FramesOK'
      BY <2>1, <2>2, <2>5, <3>1, FramesKeptBeside DEF CleanOK
    <3>4. ~AnswerDue(id)' /\ ReportDue(id)'
      BY <2>1, <2>2, <2>6, <3>1 DEF AnswerDue, ReportDue
    <3>5. Due(id)' = Due(id) + 1 /\ Due(id) = 0
      BY <2>6, <3>4 DEF Due
    <3>6. ASSUME NEW i \in Id, i # id PROVE (Lost(i)' <=> Lost(i)) /\ Due(i)' = Due(i)
      BY <2>1, <2>2, <2>5, <3>1, <3>6 DEF Lost, Due, AnswerDue, ReportDue
    <3>7. CountsOK'
      BY <2>2, <2>3, <2>4, <2>6, <3>1, <3>5, <3>6 DEF CountsOK, CleanOK
    <3> QED BY <2>7, <3>2, <3>3, <3>7 DEF CleanOK
  <2>9. CASE command # "shutdown"
    <3>1. UNCHANGED <<state, failure, ending, hook>> /\ \E step \in {"running", "misplaced"} : worker' = [worker EXCEPT ![id] = step]
      BY <1>6, <2>9 DEF Admit, stopVars
    <3>2. NamesOK'
      BY <2>2, <3>1 DEF CleanOK, NamesOK
    <3>3. FramesOK'
      BY <2>1, <2>2, <2>5, <3>1, FramesKeptBeside DEF CleanOK, HostTypeOK, HostOK
    <3>4. worker'[id] \in {"running", "misplaced"} /\ \A i \in Id : i # id => worker'[i] = worker[i]
      BY <3>1 DEF HostTypeOK, HostOK
    <3>5. AnswerDue(id)' /\ ~ReportDue(id)'
      BY <2>5, <3>1, <3>4 DEF AnswerDue, ReportDue
    <3>6. Due(id)' = Due(id) + 1 /\ Due(id) = 0
      BY <2>6, <3>5 DEF Due
    <3>7. \A i \in Id : i # id => (Lost(i)' <=> Lost(i)) /\ Due(i)' = Due(i)
      BY <2>2, <3>1, <3>4, SameDue
    <3>8. CountsOK'
      BY <2>2, <2>3, <2>4, <2>6, <3>1, <3>6, <3>7 DEF CountsOK, CleanOK
    <3> QED BY <2>7, <3>2, <3>3, <3>8 DEF CleanOK
  <2> QED BY <2>8, <2>9
<1> QED BY <1>1, <1>2, <1>3, <1>4, <1>5, <1>6 DEF ReaderSteps

(* The output's steps, and senders'.                                         *)
LEMMA CleanKeptByOutput ==
    ASSUME HostTypeOK, CleanOK, main # "done", UNCHANGED <<accepted, hostVars>>,
           \A s \in Sender : \/ sending'[s] = sending[s]
                             \/ sending[s].step \in {"accepted", "reserving"} /\ sending'[s].step = "failed"
                             \/ sending[s].step = "accepted" /\ sending'[s].step = "acked"
    PROVE  CleanOK'
<1>1. UNCHANGED <<state, worker, bound, failure, ending, hook, main, report, result, asked, cut>>
  BY DEF hostVars
<1>2. FramesOK'
  BY <1>1, FramesKeptBeside DEF CleanOK
<1>3. \A id \in Id : Lost(id)' \/ (~Lost(id) /\ Due(id)' = Due(id))
  BY <1>1, DueByOutput
<1>4. NamesOK'
  BY <1>1 DEF CleanOK, NamesOK
<1> QED BY <1>1, <1>2, <1>3, <1>4, CleanKeptBeside

LEMMA CleanKeptByPeer ==
    ASSUME HostTypeOK, CleanOK, main # "done", PeerSteps \/ PeerFails
    PROVE  CleanOK'
<1>0. UNCHANGED hostVars
  BY DEF PeerSteps, PeerFails, OnlyPeer
<1>1. CASE Writes
  BY <1>0, <1>1, CleanKeptByOutput DEF Writes
<1>2. CASE Acknowledges
  <2>1. accepted' = accepted
    BY <1>2 DEF Acknowledges
  <2>2. PICK from : sending' = AcknowledgedTo(from)
    BY <1>2 DEF Acknowledges
  <2>3. \A s \in Sender : sending'[s] = sending[s] \/ (sending[s].step = "accepted" /\ sending'[s].step = "acked")
    BY <2>2 DEF AcknowledgedTo, HostTypeOK, PeerOK, Sending
  <2> QED BY <1>0, <2>1, <2>3, CleanKeptByOutput
<1>3. CASE Latch
  <2>1. accepted' = accepted
    BY <1>3 DEF Latch
  <2>2. \A s \in Sender : sending'[s] = sending[s] \/ (sending[s].step = "accepted" /\ sending'[s].step = "failed")
    BY <1>3 DEF Latch, Sending
  <2> QED BY <1>0, <2>1, <2>2, CleanKeptByOutput
<1> QED BY <1>1, <1>2, <1>3 DEF PeerSteps, PeerFails, OutputFails, WriteTimesOut

LEMMA CleanKeptBySender ==
    ASSUME HostTypeOK, EndOK, StopOK, CleanOK, main # "done", NEW s \in Sender, SenderSteps(s)
    PROVE  CleanOK'
<1>0. Main \in Sender /\ Reader # Main /\ \A id \in Id : id \in Sender /\ id # Reader /\ id # Main
  BY Senders
<1>1. CASE Reserves(s) /\ OnlyPeer
  <2>0. /\ UNCHANGED <<state, worker, bound, failure, ending, hook, main, report, result, asked, cut>>
        /\ sending[s].step = "reserving"
    BY <1>1 DEF OnlyPeer, hostVars, Reserves
  <2>1. PICK frame \in Frames : frame = sending[s].frame /\ Send(s, frame)
    BY <1>1 DEF Reserves, HostTypeOK, PeerOK
  <2>2. /\ s = Reader => frame.what \in {"hello", "refusal"}
        /\ s = Main => frame.id = ending
        /\ s \in Background => frame.what = "event"
        /\ s \in Id => frame.id = s /\ frame.what = IF worker[s] \in {"observing", "noting"} THEN "event" ELSE "answer"
    BY <2>0, <2>1 DEF CleanOK, FramesOK
  <2>3. NamesOK'
    BY <2>0 DEF CleanOK, NamesOK
  <2>4. FramesOK'
    BY <2>0, <2>1, <2>2, FramesKeptBySend DEF CleanOK
  <2>5. Quiet.step = "idle" /\ sending[s] # Quiet
    BY <2>0 DEF Quiet, Sending
  <2>6. CASE s = Reader \/ s \in Background
    <3>1. CountsOK'
      BY <2>0, <2>1, <2>2, <2>6, CountsKeptByOthers, Senders DEF CleanOK
    <3> QED BY <2>0, <2>3, <2>4, <3>1, CleanKeptBySend
  <2>7. CASE s = Main
    <3>1. main \in {"reporting", "telling"} /\ frame.what = IF main = "reporting" THEN "report" ELSE "fatal"
      BY <2>0, <2>1, <2>5, <2>7 DEF EndOK, SendersOK
    <3>2. (main = "reporting" /\ frame.what = "report") \/ (main = "telling" /\ frame.what = "fatal")
      BY <3>1
    <3>3. CountsOK'
      BY <2>0, <2>1, <2>2, <2>7, <3>2, CountsKeptByEnd DEF CleanOK
    <3> QED BY <2>0, <2>3, <2>4, <3>3, CleanKeptBySend
  <2>8. CASE s \in Id
    <3>1. worker[s] \in {"observing", "noting", "answering"}
      BY <2>5, <2>8 DEF EndOK, SendersOK, HostTypeOK, HostOK, Working
    <3>2. AnswerDue(s)
      BY <2>0, <3>1 DEF AnswerDue
    <3>3. CountsOK'
      BY <2>0, <2>1, <2>2, <2>8, <3>1, <3>2, CountsKeptByWorker DEF CleanOK
    <3> QED BY <2>0, <2>3, <2>4, <3>3, CleanKeptBySend
  <2> QED BY <2>6, <2>7, <2>8, Senders
<1>2. CASE CapacityPasses(s) /\ OnlyPeer
  <2>1. UNCHANGED <<accepted, hostVars>>
    BY <1>2 DEF CapacityPasses, OnlyPeer
  <2>2. \A t \in Sender : sending'[t] = sending[t] \/ (sending[t].step = "reserving" /\ sending'[t].step = "failed")
    BY <1>2 DEF CapacityPasses, HostTypeOK, PeerOK, Sending
  <2> QED BY <2>1, <2>2, CleanKeptByOutput
<1>3. CASE SendFailed(s)
  <2>1. Fatal(s, "peer") /\ UNCHANGED <<accepted, worker, bound, main, report, result, asked, cut>>
    BY <1>3 DEF SendFailed, endVars
  <2>2. NamesOK' /\ ending' = ending /\ failure' # "none"
    BY <2>1, FatalNames DEF CleanOK
  <2>3. \A t \in Sender : sending'[t] = sending[t] \/ sending'[t].step # "reserving"
    BY <1>3 DEF SendFailed, HostTypeOK, PeerOK, Sending
  <2>4. FramesOK'
    BY <2>1, <2>2, <2>3, FramesKeptBeside DEF CleanOK
  <2> QED BY <2>1, <2>2, <2>4, CleanKeptBeside
<1> QED BY <1>1, <1>2, <1>3 DEF SenderSteps

LEMMA CleanKeptByWorker ==
    ASSUME HostTypeOK, EndOK, StopOK, CleanOK, main # "done", NEW id \in Id, WorkerSteps(id)
    PROVE  CleanOK'
<1>0. id \in Sender /\ Main \in Sender /\ id # Main /\ id # Reader /\ id \notin Background /\ \A i \in Id : i \in Sender
  BY Senders
<1>1. CASE Observe(id) \/ Answer(id)
  <2>1. PICK what \in {"event", "answer"} :
          /\ Send(id, Frame(what, id))
          /\ \E step \in {"observing", "noting", "answering"} :
               worker' = [worker EXCEPT ![id] = step] /\ (what = "event" <=> step # "answering")
    BY <1>1 DEF Observe, Answer, WorkerGoes
  <2>2. worker[id] \in {"running", "storing"} /\ UNCHANGED <<state, bound, failure, ending, hook, main, report, result, asked, cut>>
    BY <1>1 DEF Observe, Answer, Runs, OnlyWorker, endVars
  <2>3. PICK frame \in Frames : frame = Frame(what, id)
    BY FramesMade
  <2>4. frame.what = what /\ frame.id = id /\ Send(id, frame)
    BY <2>1, <2>3 DEF Frame
  <2>5. /\ (frame.what = "event" /\ worker'[id] \in {"observing", "noting"}) \/ (frame.what = "answer" /\ worker'[id] = "answering")
        /\ \A i \in Id : i # id => worker'[i] = worker[i]
    BY <2>1, <2>4 DEF HostTypeOK, HostOK
  <2>6. NamesOK'
    BY <2>2 DEF CleanOK, NamesOK
  <2>7. frame.what = IF worker'[id] \in {"observing", "noting"} THEN "event" ELSE "answer"
    BY <2>5
  <2>8. FramesOK'
    BY <1>0, <2>2, <2>4, <2>5, <2>7, FramesKeptBySend DEF CleanOK
  <2>9. AnswerDue(id)
    BY <2>2 DEF AnswerDue
  <2>10. CountsOK'
    BY <2>2, <2>4, <2>5, <2>9, CountsKeptByWorker DEF CleanOK
  <2> QED BY <2>2, <2>6, <2>8, <2>10, CleanKeptBySend
<1>2. CASE Stores(id) \/ StoreAnswers(id) \/ Observed(id) \/ Leave(id)
  <2>1. /\ UNCHANGED <<accepted, state, bound, failure, ending, hook, main, report, result, asked, cut>>
        /\ \A i \in Id : i # id => worker'[i] = worker[i]
    BY <1>2 DEF Stores, StoreAnswers, Observed, Leave, Returns, peerVars, WorkerGoes, OnlyWorker, endVars, HostTypeOK, HostOK
  <2>2. Quiet.step = "idle"
    BY DEF Quiet, Sending
  <2>3. /\ \A t \in Sender : t # id => sending'[t] = sending[t]
        /\ sending'[id].step = "idle"
        /\ \/ worker[id] \in {"running", "storing", "observing", "noting"} /\ worker'[id] \in {"running", "storing"}
           \/ worker[id] = "answering" /\ sending[id].step = "acked" /\ worker'[id] = "none"
           \/ worker[id] = "leaving" /\ worker'[id] = "none"
    <3>1. CASE Observed(id)
      BY <1>0, <2>2, <3>1 DEF Observed, Returns, WorkerGoes, HostTypeOK, HostOK, PeerOK
    <3>2. CASE worker[id] = "answering" /\ Sent(id) /\ Returns(id) /\ WorkerGoes(id, "none")
      BY <1>0, <2>2, <3>2 DEF Sent, Returns, WorkerGoes, HostTypeOK, HostOK, PeerOK
    <3>3. CASE worker[id] = "leaving" /\ UNCHANGED peerVars /\ WorkerGoes(id, "none")
      BY <1>0, <2>2, <3>3 DEF peerVars, WorkerGoes, HostTypeOK, HostOK, EndOK, SendersOK
    <3>4. CASE Stores(id) \/ StoreAnswers(id)
      BY <1>0, <2>2, <3>4 DEF Stores, StoreAnswers, Runs, peerVars, WorkerGoes, HostTypeOK, HostOK, EndOK, SendersOK
    <3> QED BY <1>2, <3>1, <3>2, <3>3, <3>4 DEF Leave
  <2>4. FramesOK'
    BY <1>0, <2>1, <2>3, FramesKeptBeside DEF CleanOK
  <2>5. sending'[Main] = sending[Main] /\ (ReportDue(id)' <=> ReportDue(id))
    BY <1>0, <2>1, <2>3 DEF ReportDue
  <2>6. AnswerDue(id)' <=> AnswerDue(id)
    BY <2>3 DEF AnswerDue
  <2>7. Lost(id)' <=> Lost(id)
    BY <2>1, <2>3, <2>5 DEF Lost
  <2>8. \A i \in Id : i # id => (Lost(i)' <=> Lost(i)) /\ Due(i)' = Due(i)
    BY <1>0, <2>1, <2>3, <2>5, SameDue
  <2>9. \A i \in Id : Lost(i)' \/ (~Lost(i) /\ Due(i)' = Due(i))
    BY <2>5, <2>6, <2>7, <2>8 DEF Due
  <2>10. NamesOK'
    BY <2>1 DEF CleanOK, NamesOK
  <2> QED BY <2>1, <2>4, <2>9, <2>10, CleanKeptBeside
<1>3. CASE WorkFails(id)
  <2>1. /\ UNCHANGED <<sending, accepted, bound, main, report, result, asked, cut>>
        /\ worker[id] \in {"misplaced", "running"} /\ worker' = [worker EXCEPT ![id] = "leaving"]
    BY <1>3 DEF WorkFails, Runs, WorkerGoes, peerVars, endVars
  <2>2. Fatal(id, "runtime") \/ Fatal(id, "sequence")
    BY <1>3 DEF WorkFails
  <2>3. NamesOK' /\ ending' = ending /\ failure' # "none"
    BY <2>1, <2>2, FatalNames DEF CleanOK
  <2>4. sending[id].step = "idle"
    BY <2>1 DEF EndOK, SendersOK, Quiet, Sending
  <2>5. FramesOK'
    BY <2>1, <2>3, <2>4, FramesKeptBeside DEF CleanOK, HostTypeOK, HostOK
  <2> QED BY <2>1, <2>3, <2>5, CleanKeptBeside
<1>4. CASE Interrupted(id)
  <2>1. /\ UNCHANGED <<accepted, state, bound, failure, ending, hook, main, report, result, asked>>
        /\ cut' = cut \cup {id} /\ \A i \in Id : i # id => worker'[i] = worker[i]
    BY <1>4 DEF Interrupted, WorkerGoes, endVars, HostTypeOK, HostOK
  <2>2. sending'[id].step = "idle" /\ \A t \in Sender : t # id => sending'[t] = sending[t]
    BY <1>0, <1>4 DEF Interrupted, SendsNoMore, Quiet, Sending
  <2>3. FramesOK'
    BY <1>0, <2>1, <2>2, FramesKeptBeside DEF CleanOK
  <2>4. \A i \in Id \ cut' : (Lost(i)' <=> Lost(i)) /\ Due(i)' = Due(i)
    BY <1>0, <2>1, <2>2, SameDue
  <2>5. NamesOK'
    BY <2>1 DEF CleanOK, NamesOK
  <2> QED BY <2>1, <2>3, <2>4, <2>5, CleanKeptBeside
<1> QED BY <1>1, <1>2, <1>3, <1>4 DEF WorkerSteps

(* Turns that no worker runs, and the reader's interruption.                 *)
LEMMA CleanKeptByBackground ==
    ASSUME HostTypeOK, EndOK, CleanOK, main # "done", NEW b \in Background, BackgroundSteps(b)
    PROVE  CleanOK'
<1>0. b \in Sender /\ b \notin Id /\ b # Main /\ b # Reader /\ Main \in Sender /\ \A i \in Id : i \in Sender
  BY Senders
<1>1. UNCHANGED <<state, worker, bound, failure, ending, hook, main, report, result, asked, cut>>
  BY DEF BackgroundSteps, Note, Noted, hostVars
<1>2. NamesOK'
  BY <1>1 DEF CleanOK, NamesOK
<1>3. CASE Note(b)
  <2>1. PICK frame \in Frames : frame = Frame("event", NoId)
    BY FramesMade
  <2>2. frame.what = "event" /\ Send(b, frame)
    BY <1>3, <2>1 DEF Note, Frame
  <2>3. FramesOK'
    BY <1>0, <1>1, <2>2, FramesKeptBySend DEF CleanOK
  <2>4. CountsOK'
    BY <1>0, <1>1, <2>2, CountsKeptByOthers DEF CleanOK
  <2> QED BY <1>1, <1>2, <2>3, <2>4, CleanKeptBySend
<1>4. CASE Noted(b)
  <2>1. accepted' = accepted /\ sending'[b].step = "idle" /\ \A t \in Sender : t # b => sending'[t] = sending[t]
    BY <1>0, <1>4 DEF Noted, Returns, HostTypeOK, PeerOK, Quiet, Sending
  <2>2. FramesOK'
    BY <1>0, <1>1, <2>1, FramesKeptBeside DEF CleanOK
  <2>3. \A id \in Id : Lost(id)' \/ (~Lost(id) /\ Due(id)' = Due(id))
    BY <1>0, <1>1, <2>1, SameDue
  <2> QED BY <1>1, <1>2, <2>1, <2>2, <2>3, CleanKeptBeside
<1> QED BY <1>3, <1>4 DEF BackgroundSteps

LEMMA CleanKeptByInterruption ==
    ASSUME HostTypeOK, CleanOK, main # "done", ReaderInterrupted \/ SetupCut
    PROVE  CleanOK'
<1>0. Reader \in Sender /\ Reader # Main /\ Main \in Sender /\ \A id \in Id : id \in Sender /\ id # Reader
  BY Senders
<1>1. UNCHANGED <<accepted, state, worker, bound, failure, ending, hook, main, report, result, asked, cut>>
  BY DEF ReaderInterrupted, SetupCut, peerVars, stopVars, endVars
<1>2. sending'[Reader].step # "reserving" \/ sending' = sending
  BY <1>0 DEF ReaderInterrupted, SetupCut, SendsNoMore, peerVars, Quiet, Sending
<1>3. \A s \in Sender : s # Reader => sending'[s] = sending[s]
  BY DEF ReaderInterrupted, SetupCut, SendsNoMore, peerVars
<1>4. FramesOK'
  BY <1>0, <1>1, <1>2, <1>3, FramesKeptBeside DEF CleanOK
<1>5. \A id \in Id : Lost(id)' \/ (~Lost(id) /\ Due(id)' = Due(id))
  BY <1>0, <1>1, <1>3, SameDue
<1>6. NamesOK'
  BY <1>1 DEF CleanOK, NamesOK
<1> QED BY <1>1, <1>4, <1>5, <1>6, CleanKeptBeside

LEMMA CleanKeptByMain ==
    ASSUME HostTypeOK, EndOK, StopOK, CleanOK, main # "done", MainSteps
    PROVE  CleanOK'
<1>0. /\ Reader \in Sender /\ Main \in Sender /\ Reader # Main /\ \A id \in Id : id \in Sender /\ id # Reader /\ id # Main
      /\ NoId \notin Id /\ Main \notin Background /\ Quiet.step = "idle"
  BY Senders DEF Quiet, Sending
<1>1. UNCHANGED <<state, bound, ending, hook, asked>> /\ result = "none"
  BY DEF MainSteps, Wake, ShutDown, ShutdownDies, WorkersDone, DrainTimesOut, Cleared, Report, Reported, TellFailure,
         FailureTold, Flush, stopVars, OnlyMain, CleanOK, ResultOK
<1>2. ASSUME main # "waiting" \/ main' = main \/ hook = "told" PROVE NamesOK'
  BY <1>1, <1>2 DEF CleanOK, NamesOK
<1>3. CASE Wake
  <2>1. /\ main = "waiting" /\ main' = (IF bound THEN "shutting" ELSE "draining") /\ hook = "told"
        /\ UNCHANGED <<failure, worker, report, result, cut, accepted, sending>>
    BY <1>3 DEF Wake, Stopped, MainGoes, stopVars, peerVars
  <2>2. FramesOK'
    BY <1>1, <2>1, FramesKeptBeside DEF CleanOK
  <2>3. \A id \in Id : (Lost(id)' <=> Lost(id)) /\ Due(id)' = Due(id)
    BY <1>1, <2>1 DEF Lost, Due, AnswerDue, ReportDue
  <2>4. CountsOK'
    BY <1>1, <2>1, <2>3, CountsKeptBeside DEF CleanOK
  <2>5. ResultOK'
    BY <1>1, <2>1 DEF CleanOK, NamesOK, ResultOK
  <2> QED BY <1>2, <2>1, <2>2, <2>4, <2>5 DEF CleanOK
<1>4. CASE ShutDown \/ ShutdownDies
  <2>1. /\ main = "shutting" /\ main' = "draining" /\ UNCHANGED <<sending, accepted, worker, result, cut>>
        /\ (report' = TRUE /\ failure' = failure) \/ (report' = report /\ failure' # "none")
    BY <1>4 DEF ShutDown, ShutdownDies, MainGoes, First, peerVars, stopVars
  <2>2. FramesOK'
    BY <1>1, <2>1, FramesKeptBeside DEF CleanOK
  <2>3. \A id \in Id : (Lost(id)' <=> Lost(id)) /\ Due(id)' = Due(id)
    BY <1>1, <2>1 DEF Lost, Due, AnswerDue, ReportDue
  <2>4. CountsOK'
    <3>1. CASE failure' = failure
      BY <1>1, <2>1, <2>3, <3>1, CountsKeptBeside DEF CleanOK
    <3>2. CASE failure' # "none"
      BY <3>2 DEF CountsOK
    <3> QED BY <2>1, <3>1, <3>2
  <2>5. ResultOK'
    BY <1>1, <2>1 DEF CleanOK, ResultOK, Over
  <2> QED BY <1>2, <2>1, <2>2, <2>4, <2>5 DEF CleanOK
<1>5. CASE WorkersDone \/ DrainTimesOut \/ Cleared
  <2>1. /\ main \in {"draining", "cutting"} /\ main' \in {"cutting", "reporting"}
        /\ UNCHANGED <<sending, accepted, worker, failure, report, result, cut>>
    BY <1>5 DEF WorkersDone, DrainTimesOut, Cleared, Draining, MainGoes, peerVars, stopVars
  <2>2. sending[Main] = Quiet
    BY <2>1 DEF EndOK, SendersOK
  <2>3. FramesOK'
    BY <1>1, <2>1, FramesKeptBeside DEF CleanOK
  <2>4. \A id \in Id : (Lost(id)' <=> Lost(id)) /\ Due(id)' = Due(id)
    BY <1>0, <1>1, <2>1, <2>2 DEF Lost, Due, AnswerDue, ReportDue
  <2>5. CountsOK'
    BY <1>1, <2>1, <2>4, CountsKeptBeside DEF CleanOK
  <2>6. ResultOK'
    BY <1>1, <2>1 DEF CleanOK, ResultOK
  <2> QED BY <1>2, <2>1, <2>3, <2>5, <2>6 DEF CleanOK
<1>6. CASE Report \/ TellFailure
  <2>1. /\ main \in {"reporting", "telling"} /\ sending[Main] = Quiet /\ UNCHANGED <<failure, worker, report, result, cut>>
    BY <1>6 DEF Report, MainStays, TellFailure, OnlyMain, stopVars
  <2>2. CASE Send(Main, Frame("report", ending)) /\ main = "reporting" /\ main' = main
    <3>1. PICK frame \in Frames : frame = Frame("report", ending)
      BY FramesMade DEF HostTypeOK, HostOK
    <3>2. frame.what = "report" /\ frame.id = ending /\ Send(Main, frame)
      BY <2>2, <3>1 DEF Frame
    <3>3. FramesOK'
      BY <1>0, <1>1, <2>1, <3>2, FramesKeptBySend DEF CleanOK
    <3>4. CountsOK'
      BY <1>0, <1>1, <2>1, <2>2, <3>2, CountsKeptByEnd DEF CleanOK
    <3> QED BY <1>1, <1>2, <2>1, <2>2, <3>3, <3>4, CleanKeptBySend
  <2>3. CASE Send(Main, Frame("fatal", ending)) /\ main = "telling" /\ main' = main
    <3>1. PICK frame \in Frames : frame = Frame("fatal", ending)
      BY FramesMade DEF HostTypeOK, HostOK
    <3>2. frame.what = "fatal" /\ frame.id = ending /\ Send(Main, frame)
      BY <2>3, <3>1 DEF Frame
    <3>3. FramesOK'
      BY <1>0, <1>1, <2>1, <3>2, FramesKeptBySend DEF CleanOK
    <3>4. CountsOK'
      BY <1>0, <1>1, <2>1, <2>3, <3>2, CountsKeptByEnd DEF CleanOK
    <3> QED BY <1>1, <1>2, <2>1, <2>3, <3>3, <3>4, CleanKeptBySend
  <2>4. CASE UNCHANGED peerVars /\ ((main = "reporting" /\ ~report /\ main' = "telling") \/ (main = "telling" /\ main' = "flushing"))
    <3>1. UNCHANGED <<sending, accepted>>
      BY <2>4 DEF peerVars
    <3>2. FramesOK'
      BY <1>1, <2>1, <3>1, FramesKeptBeside DEF CleanOK
    <3>3. main = "reporting" /\ failure = "none" => ending \notin Id
      BY <2>4 DEF CleanOK, ResultOK
    <3>4. failure = "none" => \A id \in Id : (Lost(id)' <=> Lost(id)) /\ Due(id)' = Due(id)
      BY <1>0, <1>1, <2>1, <2>4, <3>1, <3>3 DEF Lost, Due, AnswerDue, ReportDue
    <3>5. CountsOK'
      <4>1. CASE failure = "none"
        BY <1>1, <2>1, <3>1, <3>4, <4>1, CountsKeptBeside DEF CleanOK
      <4>2. CASE failure # "none"
        BY <2>1, <4>2 DEF CountsOK
      <4> QED BY <4>1, <4>2
    <3>6. ResultOK'
      BY <1>1, <2>1, <2>4 DEF CleanOK, ResultOK, Over
    <3> QED BY <1>2, <2>4, <3>2, <3>5, <3>6 DEF CleanOK
  <2> QED BY <1>6, <2>2, <2>3, <2>4 DEF Report, MainStays, TellFailure, MainGoes
<1>7. CASE Reported \/ FailureTold
  <2>1. /\ (main = "reporting" /\ main' = "telling") \/ (main = "telling" /\ main' = "flushing")
        /\ sending[Main].step = "acked" /\ UNCHANGED <<accepted, failure, worker, report, result, cut>>
    BY <1>7 DEF Reported, FailureTold, MainGoes, Sent, Returns, OnlyMain, stopVars
  <2>2. sending'[Main] = Quiet /\ \A s \in Sender : s # Main => sending'[s] = sending[s]
    BY <1>0, <1>7 DEF Reported, FailureTold, Returns, HostTypeOK, PeerOK
  <2>3. FramesOK'
    BY <1>0, <1>1, <2>1, <2>2, FramesKeptBeside DEF CleanOK
  <2>4. \A id \in Id : (Lost(id)' <=> Lost(id)) /\ Due(id)' = Due(id)
    BY <1>0, <1>1, <2>1, <2>2 DEF Lost, Due, AnswerDue, ReportDue
  <2>5. CountsOK'
    BY <1>1, <2>1, <2>4, CountsKeptBeside DEF CleanOK
  <2>6. ResultOK'
    BY <1>1, <2>1 DEF CleanOK, ResultOK, Over
  <2> QED BY <1>2, <2>1, <2>3, <2>5, <2>6 DEF CleanOK
<1>8. CASE Flush
  <2>1. /\ main = "flushing" /\ main' = "done" /\ UNCHANGED <<sending, accepted, written, awaited, worker, report, cut>>
        /\ phase = "Failed" \/ awaited <= acked
        /\ failure' = IF phase = "Failed" THEN First("peer") ELSE failure
        /\ result' = IF failure' = "none" THEN "ok" ELSE "failed"
    BY <1>8 DEF Flush, Flushed, MainGoes, peerVars, HostTypeOK, PeerOK, HostOK
  <2>2. failure' = "none" => failure = "none" /\ phase # "Failed"
    BY <2>1 DEF First
  <2>3. FramesOK'
    BY <1>1, <2>1, FramesKeptBeside DEF CleanOK
  <2>4. \A id \in Id : (Lost(id)' <=> Lost(id)) /\ Due(id)' = Due(id)
    BY <1>1, <2>1 DEF Lost, Due, AnswerDue, ReportDue
  <2>5. CountsOK'
    BY <1>1, <2>1, <2>2, <2>4, CountsKeptBeside DEF CountsOK, CleanOK
  <2>6. result' = "ok" => awaited' <= written'
    BY <2>1, <2>2 DEF HostTypeOK, PeerOK, HostOK
  <2>7. ASSUME result' = "ok", NEW id \in Id \ cut' PROVE Answers(id)' = asked'[id]
    <3>1. failure = "none" /\ worker[id] = "none" /\ id \notin cut
      BY <2>1, <2>2, <2>7 DEF EndOK, WorkersOK, Over
    <3>2. ~Lost(id) /\ Due(id) = 0
      BY <2>1, <3>1 DEF Lost, Due, AnswerDue, ReportDue
    <3>3. Answers(id) = asked[id]
      BY <3>1, <3>2, AnswersCounted DEF CleanOK, CountsOK
    <3> QED BY <1>1, <2>1, <3>3, AnswersCounted
  <2>8. ResultOK'
    BY <1>1, <2>1, <2>2, <2>6, <2>7 DEF CleanOK, ResultOK
  <2> QED BY <1>2, <2>1, <2>3, <2>5, <2>8 DEF CleanOK
<1> QED BY <1>3, <1>4, <1>5, <1>6, <1>7, <1>8 DEF MainSteps

(* Once the end is done only the output and turns that no worker runs go on, *)
(* whose frames answer nothing; setup's interruption may come to its end.    *)
LEMMA DoneKeptBeside ==
    ASSUME HostTypeOK, CleanOK, main = "done",
           UNCHANGED <<state, worker, bound, ending, hook, main, awaited, report, result, asked, cut>>,
           failure' = "none" => failure = "none", FramesOK', CountsOK', written <= written', written' \in Nat,
           \A id \in Id : Answers(id)' = Answers(id)
    PROVE  CleanOK'
<1>1. NamesOK'
  BY DEF CleanOK, NamesOK
<1>2. ResultOK'
  BY DEF CleanOK, ResultOK, HostTypeOK, PeerOK, HostOK
<1> QED BY <1>1, <1>2 DEF CleanOK

LEMMA DoneIsDone ==
    ASSUME HostTypeOK, EndOK, StopOK, CleanOK, main = "done", [Next]_vars
    PROVE  CleanOK'
<1>0. /\ Reader \in Sender /\ Main \in Sender /\ Reader # Main /\ Quiet.step = "idle"
      /\ \A id \in Id : id \in Sender
  BY Senders DEF Quiet, Sending
<1>1. /\ \A id \in Id : worker[id] = "none" /\ sending[id].step = "idle"
      /\ sending[Reader].step = "idle" /\ sending[Main].step = "idle"
      /\ reader \in {"cutting", "ended"} /\ hook = "told" /\ state = "Stopping"
  BY <1>0 DEF EndOK, WorkersOK, SendersOK, Over, CleanOK, NamesOK, StopOK
<1>2. written \in Nat /\ \A id \in Id : accepted' = accepted => Answers(id)' = Answers(id)
  BY AnswersCounted DEF HostTypeOK, PeerOK
<1>3. ASSUME accepted' = accepted, written' \in {written, written + 1},
             UNCHANGED <<state, worker, bound, ending, hook, main, awaited, report, result, asked, cut>>,
             failure' = "none" => failure = "none",
             \A s \in Sender : sending'[s] = sending[s] \/ (s \in Background /\ sending'[s].step # "reserving")
      PROVE  CleanOK'
  <2>1. sending'[Main] = sending[Main] /\ \A id \in Id : sending'[id] = sending[id]
    BY <1>3, Senders
  <2>2. FramesOK'
    BY <1>3, FramesKeptBeside DEF CleanOK
  <2>3. \A id \in Id : (Lost(id)' <=> Lost(id)) /\ Due(id)' = Due(id)
    BY <1>3, <2>1, SameDue
  <2>4. CountsOK'
    BY <1>3, <2>3, CountsKeptBeside DEF CleanOK
  <2> QED BY <1>2, <1>3, <2>2, <2>4, DoneKeptBeside
<1>4. ASSUME NEW b \in Background, NEW frame \in Frames, Send(b, frame), frame.what = "event", UNCHANGED hostVars
      PROVE  CleanOK'
  <2>1. UNCHANGED <<state, worker, bound, failure, ending, hook, main, awaited, report, result, asked, cut>>
    BY <1>4 DEF hostVars
  <2>2. b \in Sender /\ b \notin Id /\ b # Main /\ b # Reader
    BY Senders
  <2>3. FramesOK'
    BY <1>4, <2>1, <2>2, FramesKeptBySend DEF CleanOK
  <2>4. CountsOK' /\ \A id \in Id : Answers(id)' = Answers(id)
    BY <1>4, <2>1, <2>2, CountsKeptByOthers DEF CleanOK
  <2>5. written' = written
    BY <1>4 DEF Send
  <2> QED BY <1>2, <2>1, <2>3, <2>4, <2>5, DoneKeptBeside
<1>5. CASE UNCHANGED vars
  BY <1>2, <1>3, <1>5 DEF vars, hostVars, peerVars
<1>6. CASE PeerSteps \/ PeerFails
  <2>1. UNCHANGED <<state, worker, bound, failure, ending, hook, main, awaited, report, result, asked, cut>>
    BY <1>6 DEF PeerSteps, PeerFails, OnlyPeer, hostVars
  <2>2. accepted' = accepted /\ written' \in {written, written + 1}
    BY <1>6 DEF PeerSteps, PeerFails, Writes, Acknowledges, OutputFails, WriteTimesOut, Latch
  <2>3. CASE Writes
    BY <1>3, <2>1, <2>2, <2>3 DEF Writes
  <2>4. CASE Acknowledges
    <3>1. PICK from : sending' = AcknowledgedTo(from)
      BY <2>4 DEF Acknowledges
    <3>2. \A s \in Sender : sending'[s] = sending[s] \/ (sending[s].step = "accepted" /\ sending'[s].step = "acked")
      BY <3>1 DEF AcknowledgedTo, HostTypeOK, PeerOK, Sending
    <3>3. \A s \in Sender : sending'[s] = sending[s] \/ (s \in Background /\ sending'[s].step # "reserving")
      BY <1>1, <3>2, Senders
    <3> QED BY <1>3, <2>1, <2>2, <3>3
  <2>5. CASE Latch
    <3>1. \A s \in Sender : sending'[s] = sending[s] \/ (sending[s].step = "accepted" /\ sending'[s].step = "failed")
      BY <2>5 DEF Latch, Sending
    <3>2. \A s \in Sender : sending'[s] = sending[s] \/ (s \in Background /\ sending'[s].step # "reserving")
      BY <1>1, <3>1, Senders
    <3> QED BY <1>3, <2>1, <2>2, <3>2
  <2> QED BY <1>6, <2>3, <2>4, <2>5 DEF PeerSteps, PeerFails, OutputFails, WriteTimesOut
<1>7. ASSUME NEW s \in Sender, SenderSteps(s) PROVE CleanOK'
  <2>1. s \in Background
    BY <1>1, <1>7, Senders DEF SenderSteps, Reserves, CapacityPasses, SendFailed
  <2>2. CASE Reserves(s) /\ OnlyPeer /\ UNCHANGED faults
    <3>1. PICK frame \in Frames : frame = sending[s].frame /\ Send(s, frame)
      BY <2>2 DEF Reserves, HostTypeOK, PeerOK
    <3>2. frame.what = "event" /\ UNCHANGED hostVars
      BY <2>1, <2>2, <3>1 DEF Reserves, OnlyPeer, CleanOK, FramesOK
    <3> QED BY <1>4, <2>1, <3>1, <3>2
  <2>3. CASE (CapacityPasses(s) /\ OnlyPeer /\ UNCHANGED faults) \/ SendFailed(s)
    <3>1. UNCHANGED <<accepted, written, state, worker, bound, ending, hook, main, awaited, report, result, asked, cut>>
      BY <1>1, <2>3 DEF CapacityPasses, OnlyPeer, hostVars, SendFailed, Fatal, Stop, endVars
    <3>2. failure' = "none" => failure = "none"
      BY <2>3 DEF CapacityPasses, OnlyPeer, hostVars, SendFailed, Fatal, First
    <3>3. \A t \in Sender : sending'[t] = sending[t] \/ (t \in Background /\ sending'[t].step # "reserving")
      BY <2>1, <2>3 DEF CapacityPasses, SendFailed, HostTypeOK, PeerOK, Sending
    <3> QED BY <1>3, <3>1, <3>2, <3>3
  <2> QED BY <1>7, <2>2, <2>3 DEF SenderSteps
<1>8. ASSUME NEW b \in Background, BackgroundSteps(b) PROVE CleanOK'
  <2>1. CASE Note(b)
    <3>1. PICK frame \in Frames : frame = Frame("event", NoId)
      BY FramesMade
    <3>2. frame.what = "event" /\ Send(b, frame) /\ UNCHANGED hostVars
      BY <2>1, <3>1 DEF Note, Frame
    <3> QED BY <1>4, <3>1, <3>2
  <2>2. CASE Noted(b)
    <3>1. UNCHANGED <<accepted, written, state, worker, bound, failure, ending, hook, main, awaited, report, result, asked, cut>>
      BY <2>2 DEF Noted, Returns, hostVars
    <3>2. \A t \in Sender : sending'[t] = sending[t] \/ (t \in Background /\ sending'[t].step # "reserving")
      BY <1>0, <2>2 DEF Noted, Returns, HostTypeOK, PeerOK
    <3> QED BY <1>3, <3>1, <3>2
  <2> QED BY <1>8, <2>1, <2>2 DEF BackgroundSteps
<1>9. ASSUME NEW s \in Id \cup Background, ObservationFails(s) PROVE CleanOK'
  <2>1. UNCHANGED <<accepted, written, sending, state, worker, bound, ending, hook, main, awaited, report, result, asked, cut>>
    BY <1>1, <1>9 DEF ObservationFails, Fatal, Stop, peerVars, endVars
  <2>2. failure' = "none" => failure = "none"
    BY <1>9 DEF ObservationFails, Fatal, First
  <2> QED BY <1>3, <2>1, <2>2
<1>10. CASE SetupCut
  BY <1>3, <1>10 DEF SetupCut, peerVars, stopVars, endVars
<1>11. ~(HookEnds \/ HookFails \/ HandshakeExpires \/ Signal \/ ReaderInterrupted)
  BY <1>1 DEF HookEnds, HookFails, HandshakeExpires, Signal, ReaderInterrupted
<1>12. ~ReaderSteps
  BY <1>1 DEF ReaderSteps, Greeted, SetUp, SetupFails, Refused, InputEnds, InputFails, FirstCommand, Duplicate, Refuse, Admit, Reads, Reading
<1>13. ~MainSteps
  BY DEF MainSteps, Wake, ShutDown, ShutdownDies, WorkersDone, DrainTimesOut, Draining, Cleared, Report, Reported, TellFailure, FailureTold, Flush
<1>14. \A id \in Id : ~WorkerSteps(id)
  BY <1>1 DEF WorkerSteps, Stores, StoreAnswers, Runs, Observe, Observed, Answer, WorkFails, Leave, Interrupted
<1> QED BY <1>5, <1>6, <1>7, <1>8, <1>9, <1>10, <1>11, <1>12, <1>13, <1>14 DEF Next

LEMMA CleanKept ==
    ASSUME HostTypeOK, EndOK, StopOK, CleanOK, [Next]_vars
    PROVE  CleanOK'
<1>1. CASE main = "done"
  BY <1>1, DoneIsDone
<1>2. CASE main # "done"
  <2>1. CASE UNCHANGED vars
    <3>1. NamesOK' /\ ending' = ending
      BY <2>1 DEF vars, hostVars, CleanOK, NamesOK
    <3> QED BY <1>2, <2>1, <3>1, CleanKeptByDispatcher DEF vars, hostVars
  <2>2. CASE HookEnds \/ HookFails
    <3>1. UNCHANGED <<peerVars, state, bound, ending, worker, asked, cut, main, report, result>> /\ hook' = "told"
      BY <2>2 DEF HookEnds, HookFails, endVars
    <3>2. NamesOK' /\ (failure' = "none" => failure = "none")
      BY <2>2, <3>1 DEF HookEnds, HookFails, First, CleanOK, NamesOK
    <3> QED BY <1>2, <3>1, <3>2, CleanKeptByDispatcher
  <2>3. CASE HandshakeExpires \/ Signal
    <3>1. UNCHANGED <<peerVars, bound, worker, asked, cut, main, report, result>>
      BY <2>3 DEF HandshakeExpires, Signal, endVars
    <3>2. NamesOK' /\ ending' = ending /\ (failure' = "none" => failure = "none")
      BY <2>3, <3>1, FatalNames, StopNames DEF HandshakeExpires, Signal, CleanOK
    <3> QED BY <1>2, <3>1, <3>2, CleanKeptByDispatcher
  <2>4. ASSUME NEW s \in Id \cup Background, ObservationFails(s) PROVE CleanOK'
    <3>1. UNCHANGED <<peerVars, bound, worker, asked, cut, main, report, result>>
      BY <2>4 DEF ObservationFails, endVars
    <3>2. NamesOK' /\ ending' = ending /\ failure' # "none"
      BY <2>4, <3>1, FatalNames DEF ObservationFails, CleanOK
    <3> QED BY <1>2, <3>1, <3>2, CleanKeptByDispatcher
  <2> QED
    BY <1>2, <2>1, <2>2, <2>3, <2>4, CleanKeptByPeer, CleanKeptByReader, CleanKeptByInterruption, CleanKeptByMain, CleanKeptBySender,
       CleanKeptByWorker, CleanKeptByBackground DEF Next
<1> QED BY <1>1, <1>2

(* When the end flushes, only turns that no worker runs can still send, so   *)
(* what it does not await is theirs.                                         *)
LEMMA AwaitedKeptBySend ==
    ASSUME HostTypeOK, AwaitedOK, NEW s \in Sender, NEW frame \in Frames, Send(s, frame), UNCHANGED <<main, awaited>>,
           s \in Background \/ main \notin {"flushing", "done"}
    PROVE  AwaitedOK'
<1>1. CASE accepted' = accepted
  BY <1>1 DEF AwaitedOK
<1>2. CASE accepted' = Append(accepted, [frame EXCEPT !.from = s])
  BY <1>2, AppendDoes DEF AwaitedOK
<1> QED BY <1>1, <1>2, SendDoes

LEMMA AwaitedKept ==
    ASSUME HostTypeOK, EndOK, AwaitedOK, [Next]_vars
    PROVE  AwaitedOK'
<1>1. ASSUME UNCHANGED <<accepted, main, awaited>> PROVE AwaitedOK'
  BY <1>1 DEF AwaitedOK
<1>2. CASE UNCHANGED vars
  BY <1>1, <1>2 DEF vars, hostVars, peerVars
<1>3. CASE PeerSteps \/ PeerFails
  BY <1>1, <1>3 DEF PeerSteps, PeerFails, OnlyPeer, hostVars, Writes, Acknowledges, OutputFails, WriteTimesOut, Latch
<1>4. CASE HookEnds \/ HookFails \/ HandshakeExpires \/ Signal \/ ReaderInterrupted \/ SetupCut
  BY <1>1, <1>4 DEF HookEnds, HookFails, HandshakeExpires, Signal, ReaderInterrupted, SetupCut, peerVars, endVars
<1>5. CASE ReaderSteps
  <2>1. CASE Greeted \/ SetUp \/ SetupFails \/ Refused \/ InputEnds \/ InputFails
    BY <1>1, <2>1 DEF Greeted, SetUp, SetupFails, Refused, InputEnds, InputFails, Returns, peerVars, endVars
  <2>2. ASSUME NEW command \in Command, FirstCommand(command) PROVE AwaitedOK'
    <3>1. ~Over /\ UNCHANGED <<main, awaited>>
      BY <2>2 DEF FirstCommand, Reads, Reading, EndOK, WorkersOK, endVars
    <3>2. UNCHANGED peerVars \/ Send(Reader, Frame("hello", NoId))
      BY <2>2 DEF FirstCommand
    <3> QED BY <1>1, <3>1, <3>2, AwaitedKeptBySend, FramesMade, Senders DEF Over, peerVars
  <2>3. ASSUME NEW command \in Command, NEW id \in Id, Duplicate(id, command) \/ Admit(id, command) PROVE AwaitedOK'
    BY <1>1, <2>3 DEF Duplicate, Admit, peerVars, endVars
  <2>4. ASSUME NEW command \in Command, NEW id \in Id, Refuse(id, command) PROVE AwaitedOK'
    <3>1. ~Over /\ UNCHANGED <<main, awaited>> /\ Send(Reader, Frame("refusal", id))
      BY <2>4 DEF Refuse, Reads, Reading, EndOK, WorkersOK, endVars
    <3> QED BY <3>1, AwaitedKeptBySend, FramesMade, Senders DEF Over
  <2> QED BY <1>5, <2>1, <2>2, <2>3, <2>4 DEF ReaderSteps
<1>6. ASSUME NEW id \in Id, WorkerSteps(id) PROVE AwaitedOK'
  <2>1. ~Over /\ UNCHANGED <<main, awaited>>
    BY <1>6 DEF WorkerSteps, Stores, StoreAnswers, Runs, Observe, Observed, Answer, WorkFails, Leave, Interrupted, OnlyWorker, endVars,
                EndOK, WorkersOK
  <2>2. accepted' = accepted \/ \E what \in {"event", "answer"} : Send(id, Frame(what, id))
    BY <1>6 DEF WorkerSteps, Stores, StoreAnswers, Observe, Observed, Answer, WorkFails, Leave, Interrupted, Returns, peerVars
  <2> QED BY <1>1, <2>1, <2>2, AwaitedKeptBySend, FramesMade, Senders DEF Over
<1>7. ASSUME NEW b \in Background, BackgroundSteps(b) PROVE AwaitedOK'
  <2>1. UNCHANGED <<main, awaited>>
    BY <1>7 DEF BackgroundSteps, Note, Noted, hostVars
  <2>2. accepted' = accepted \/ Send(b, Frame("event", NoId))
    BY <1>7 DEF BackgroundSteps, Note, Noted, Returns
  <2> QED BY <1>1, <2>1, <2>2, AwaitedKeptBySend, FramesMade, Senders
<1>8. ASSUME NEW s \in Id \cup Background, ObservationFails(s) PROVE AwaitedOK'
  BY <1>1, <1>8 DEF ObservationFails, peerVars, endVars
<1>9. ASSUME NEW s \in Sender, SenderSteps(s) PROVE AwaitedOK'
  <2>1. CASE Reserves(s) /\ OnlyPeer /\ UNCHANGED faults
    <3>1. UNCHANGED <<main, awaited>> /\ sending[s].step = "reserving"
      BY <2>1 DEF OnlyPeer, hostVars, Reserves
    <3>2. PICK frame \in Frames : frame = sending[s].frame /\ Send(s, frame)
      BY <2>1 DEF Reserves, HostTypeOK, PeerOK
    <3>3. s \in Background \/ main \notin {"flushing", "done"}
      <4>1. Quiet.step # "reserving"
        BY DEF Quiet, Sending
      <4>2. CASE s \in Id \/ s = Reader \/ s = Main
        BY <3>1, <4>1, <4>2 DEF EndOK, SendersOK, WorkersOK, Over
      <4> QED BY <4>2, Senders
    <3> QED BY <3>1, <3>2, <3>3, AwaitedKeptBySend
  <2>2. CASE (CapacityPasses(s) /\ OnlyPeer /\ UNCHANGED faults) \/ SendFailed(s)
    BY <1>1, <2>2 DEF CapacityPasses, OnlyPeer, hostVars, SendFailed, endVars
  <2> QED BY <1>9, <2>1, <2>2 DEF SenderSteps
<1>10. CASE MainSteps
  <2>1. CASE main' \notin {"flushing", "done"}
    BY <2>1 DEF AwaitedOK
  <2>2. CASE main' = "flushing"
    <3>1. accepted' = accepted /\ awaited' = Len(accepted)
      BY <1>10, <2>2, Senders DEF MainSteps, Wake, ShutDown, ShutdownDies, WorkersDone, DrainTimesOut, Cleared, Report, Reported,
         TellFailure, FailureTold, Flush, MainGoes, MainStays, Returns, peerVars
    <3>2. \A i \in DOMAIN accepted : i <= Len(accepted)
      BY DEF HostTypeOK, PeerOK
    <3>3. \A i \in DOMAIN accepted : ~(i > Len(accepted))
      BY <3>2 DEF HostTypeOK, PeerOK
    <3> QED BY <3>1, <3>3 DEF AwaitedOK
  <2>3. CASE main' = "done"
    <3>1. main = "flushing" /\ UNCHANGED <<accepted, awaited>>
      BY <1>10, <2>3 DEF MainSteps, Wake, ShutDown, ShutdownDies, WorkersDone, DrainTimesOut, Cleared, Report, Reported,
         TellFailure, FailureTold, Flush, MainGoes, MainStays, peerVars
    <3> QED BY <3>1 DEF AwaitedOK
  <2> QED BY <2>1, <2>2, <2>3
<1> QED BY <1>2, <1>3, <1>4, <1>5, <1>6, <1>7, <1>8, <1>9, <1>10 DEF Next

(* serveProcess that returns its result wrote every frame that was accepted  *)
(* when its last flush began, and later ones are of turns no worker runs;    *)
(* each command it gave to a worker, but those it interrupted, has one       *)
(* answer, a shutdown the report: whatever the output, the reader, the       *)
(* workers, the hook and the background's turns did meanwhile.               *)
THEOREM CleanExitsAnswerAll == Spec => []CleanExitAnsweredAll
<1>1. Init => CleanOK
  <2> SUFFICES ASSUME Init PROVE CleanOK
    OBVIOUS
  <2>1. NamesOK /\ ResultOK /\ FramesOK
    BY Senders DEF Init, PeerInit, NamesOK, ResultOK, FramesOK, Quiet, Sending
  <2>2. ASSUME NEW id \in Id PROVE Answers(id) = 0 /\ Due(id) = 0 /\ asked[id] = 0
    <3>1. Due(id) = 0 /\ asked[id] = 0
      BY Senders DEF Init, Due, AnswerDue, ReportDue
    <3>2. {i \in DOMAIN accepted : accepted[i].id = id /\ accepted[i].what \in {"answer", "report"}} = {}
      BY DEF Init, PeerInit
    <3>3. Answers(id) = 0
      BY <3>2, FS_EmptySet DEF Answers
    <3> QED BY <3>1, <3>3
  <2> QED BY <2>1, <2>2 DEF CleanOK, CountsOK
<1>2. Init => EndOK /\ StopOK /\ AwaitedOK
  BY Senders DEF Init, PeerInit, EndOK, SendersOK, WorkersOK, WordOK, Over, Silent, ReportIsTheLastWord, Quiet, Sending, StopOK, AwaitedOK
<1>3. HostTypeOK /\ EndOK /\ StopOK /\ CleanOK /\ AwaitedOK /\ [Next]_vars => EndOK' /\ StopOK' /\ CleanOK' /\ AwaitedOK'
  BY EndKept, StopKept, CleanKept, AwaitedKept
<1>4. HostTypeOK /\ CleanOK /\ AwaitedOK => CleanExitAnsweredAll
  <2> SUFFICES ASSUME HostTypeOK, CleanOK, AwaitedOK, result = "ok"
               PROVE  /\ \A i \in written + 1..Len(accepted) : accepted[i].from \in Background /\ i > awaited
                      /\ \A id \in Id \ cut : Answers(id) = asked[id]
    BY DEF CleanExitAnsweredAll
  <2>1. main = "done" /\ awaited <= written /\ \A id \in Id \ cut : Answers(id) = asked[id]
    BY DEF CleanOK, ResultOK
  <2>2. ASSUME NEW i \in written + 1..Len(accepted) PROVE i \in DOMAIN accepted /\ i > awaited
    BY <2>1 DEF HostTypeOK, PeerOK, HostOK
  <2> QED BY <2>1, <2>2 DEF AwaitedOK
<1> QED BY <1>1, <1>2, <1>3, <1>4, HostTypeCorrect, PTL DEF Spec
=============================================================================
