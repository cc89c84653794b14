----------------------- MODULE ProcessHostProperties -----------------------
(***************************************************************************)
(* What one connection promises while its reader, its workers, its output  *)
(* and its end go on beside one another.                                   *)
(***************************************************************************)
EXTENDS ProcessHost

(* Once the host was told it stops, no command is given to a worker any      *)
(* more, also when setup, begun before, returns after it (openProcessDispatch). *)
NothingIsAdmittedAfterStopping == [][hook # "untold" => asked' = asked]_vars

(* The shutdown report is the last word of what was asked: no answer,        *)
(* refusal or event of a command comes after it, whatever still ran when the *)
(* shutdown began.  Only the failure does, and events of turns that no       *)
(* worker runs, which the report may leave going (shutdownGracefully).       *)
ReportIsTheLastWord ==
    \A i \in DOMAIN accepted : accepted[i].what = "report" =>
      \A j \in i + 1..Len(accepted) : accepted[j].what = "fatal" \/ accepted[j].from \in Background

Answers(id) == Cardinality({i \in DOMAIN accepted : accepted[i].id = id /\ accepted[i].what \in {"answer", "report"}})

(* serveProcess that returns its result wrote every frame it had accepted,   *)
(* but those of background turns that came after its last flush began, and   *)
(* answered every admitted command once, a shutdown by the report, but those *)
(* it had to interrupt.                                                      *)
CleanExitAnsweredAll ==
    result = "ok" => /\ \A i \in written + 1..Len(accepted) : accepted[i].from \in Background /\ i > awaited
                     /\ \A id \in Id \ cut : Answers(id) = asked[id]

(* A stop ends: whatever the client, a worker or the output does, the        *)
(* connection returns, provided a store that a worker or setup waits for     *)
(* uninterruptibly answers.  (Where it does not, runProcessHost's native     *)
(* timer ends the process: process-protocol.md:202.)                         *)
StopsReturn == (state = "Stopping") ~> (result # "none" /\ reader = "ended")

-----------------------------------------------------------------------------
OnTheWire(id) == Cardinality({i \in 1..written : accepted[i].id = id /\ accepted[i].what = "answer"})

(* A request id can be reused after its response (process-protocol.md:103):  *)
(* a duplicate was sent before the response was.                             *)
AnsweredIdsAreFree ==
    [][failure = "none" /\ failure' = "duplicate" => \E id \in Outstanding : OnTheWire(id) < asked[id]]_vars
=============================================================================
