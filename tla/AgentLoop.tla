----------------------------- MODULE AgentLoop -----------------------------
(***************************************************************************)
(* The agent loop (plugin-agent-loop): one run of steps.  A step takes the *)
(* steers that wait, calls the model (streamed or not, with one recovery   *)
(* for refused images and one for an overflowing context), records the     *)
(* response, runs its tool calls beside one another, records each result   *)
(* and settles; then the loop decides what follows.  Any callback may      *)
(* fail, and the run may be interrupted while it waits.                    *)
(*                                                                         *)
(* A model's reply is a finish reason, its calls (each "good", "bad": no   *)
(* such tool or parameters, or "twin": an earlier call's id), and whether  *)
(* it says anything; a text is the step it was said in.  A reply that says *)
(* and calls nothing is one of reasoning only: a reply without any part,   *)
(* for which no message is stored, is not modelled.                        *)
(***************************************************************************)
EXTENDS Integers, Sequences, FiniteSets, SequencesExt

CONSTANTS Reply,               \* the replies a model may give
          Streaming,           \* options.streaming
          AnswersBad,          \* policy.invalidCalls is "answer"
          RequireCompletion,   \* options.requireCompletion
          MalformedLimit,      \* policy.malformedLimit
          MaxCutCorrectives,   \* MAX_CUT_CORRECTIVES
          NudgeAfter, BreakAfter, \* policy.degenerate
          MaxSteps,            \* options.maxSteps
          ToolConcurrency,
          Steer,               \* inputs that may be queued while the run goes on
          Signature,           \* what tools may answer, as progress tells it apart
          MaxHosted            \* bound: the boundaries at which the host compacts or steers

Finishes == {"stop", "tool-calls", "pause", "length", "error", "unknown"}
ASSUME LoopConstants ==
    /\ \A r \in Reply : r.finish \in Finishes /\ r.calls \in Seq({"good", "bad", "twin"}) /\ r.says \in BOOLEAN
    /\ {Streaming, AnswersBad, RequireCompletion} \subseteq BOOLEAN
    /\ {MalformedLimit, NudgeAfter, BreakAfter, MaxSteps, ToolConcurrency} \subseteq Nat \ {0}
    /\ {MaxCutCorrectives, MaxHosted} \subseteq Nat

VARIABLES pc,         \* where the run stands
          step,       \* turnIndex
          messages,   \* the buffer the next request is made from
          tail,       \* newTail: what the run returns it appended
          log,        \* what onTail and take stored, in order
          carried, final, \* the text a continuation has not finished, and the run's text
          malformed, cuts, \* malformedStreak, cutStreak
          seen, stale, \* progress
          healthy,    \* streamingHealthy
          attempt,    \* the step's RequestAttempt
          part,       \* partSeen, of the attempt
          reply,      \* the step's response
          calls,      \* per call of it, "answered", "todo", "running" or "done"
          status,     \* the step's status, while it settles
          ended,      \* how the run ended
          waiting,    \* what the waiting probe finds
          queued,     \* the steers that wait in the session
          hosted,     \* how often the host compacted or steered
          settled,    \* history: the status of each settled step
          said        \* history: per settled step that said something, whether the next one continues it

state == <<messages, tail, log, carried, final, malformed, cuts, seen, stale>>
model == <<healthy, attempt, part, reply, calls, status>>
world == <<waiting, queued>>
bounds == <<hosted>>
history == <<settled, said>>
vars == <<pc, step, state, model, ended, world, bounds, history>>

-----------------------------------------------------------------------------
(* Messages: the assistant's names its calls, a result the call it answers.  *)

Message(what, of) == [what |-> what, step |-> step, of |-> of]
ForNext(what) == [what |-> what, step |-> step + 1, of |-> 0]
NoReply == [finish |-> "none", calls |-> <<>>, says |-> FALSE]
Fresh == [tag |-> "Streamable", visible |-> FALSE, media |-> TRUE, overflow |-> TRUE]

Assistant == Message("assistant", Len(reply.calls))
Result(i) == Message("result", i)
Results(those) == [n \in 1..Cardinality(those) |-> Result(CHOOSE i \in those : Cardinality({j \in those : j <= i}) = n)]

(* verdictOf, and which calls the loop answers instead of running.           *)
CutShort == reply.finish \notin {"stop", "tool-calls", "pause"} /\ ~(reply.finish = "unknown" /\ reply.calls = <<>>)
CallsOf(kinds) == {i \in DOMAIN reply.calls : reply.calls[i] \in kinds}
Misformed == ~CutShort /\ CallsOf({"twin"} \cup IF AnswersBad THEN {} ELSE {"bad"}) # {}
Answered == IF CutShort THEN DOMAIN reply.calls ELSE CallsOf({"bad"})

(* The step's tail, in the order of its calls.  A result stands for itself,  *)
(* not for a message: a step's tail has its results in one, and each is      *)
(* stored in one of its own.                                                 *)
StepTail == <<Assistant>> \o Results(DOMAIN reply.calls)

Init ==
    /\ pc = "probe" /\ step = 0
    /\ messages = <<[what |-> "input", step |-> 0, of |-> 0]>> /\ tail = <<>> /\ log = <<>>
    /\ carried = <<>> /\ final = <<>> /\ malformed = 0 /\ cuts = 0 /\ seen = {} /\ stale = 0
    /\ healthy = TRUE /\ attempt = Fresh /\ part = FALSE /\ reply = NoReply /\ calls = <<>> /\ status = "none"
    /\ ended = "no" /\ waiting = FALSE /\ queued = {}
    /\ hosted = 0 /\ settled = <<>> /\ said = <<>>

At(point) == pc = point
Go(point) == pc' = point
Ends(how) == ended' = how /\ pc' = "done"

-----------------------------------------------------------------------------
(* The world beside the run.                                                 *)

Enqueue(s) ==
    /\ s \notin queued /\ \A i \in DOMAIN log : log[i].of # s
    /\ queued' = queued \cup {s}
    /\ UNCHANGED <<pc, step, state, model, ended, waiting, bounds, history>>
Waits ==
    /\ ~waiting /\ waiting' = TRUE
    /\ UNCHANGED <<pc, step, state, model, ended, queued, bounds, history>>

-----------------------------------------------------------------------------
(* runSteps and beginStep.                                                   *)

Probe ==
    /\ At("probe")
    /\ IF waiting THEN Ends("waiting") /\ final' = <<>> ELSE Go("begin") /\ UNCHANGED <<ended, final>>
    /\ UNCHANGED <<step, messages, tail, log, carried, malformed, cuts, seen, stale, model, world, bounds, history>>

Taken == LET s == SetToSeq(queued) IN [n \in 1..Cardinality(queued) |-> Message("steer", s[n])]
TailOfTaken(before) == before
TailWithTaken(before) == before \o Taken
BeginStep ==
    /\ At("begin") /\ Go("call")
    /\ messages' = messages \o Taken /\ tail' = TailWithTaken(tail) /\ log' = log \o Taken /\ queued' = {}
    /\ attempt' = [Fresh EXCEPT !.tag = IF healthy THEN "Streamable" ELSE "SettledOnly"]
    /\ part' = FALSE /\ reply' = NoReply /\ calls' = <<>>
    /\ UNCHANGED <<step, carried, final, malformed, cuts, seen, stale, healthy, status, ended, waiting, bounds, history>>

-----------------------------------------------------------------------------
(* The model call (attempt, send).                                           *)

OnlyModel == UNCHANGED <<step, state, ended, world, bounds, history>>
Streams == Streaming /\ attempt.tag = "Streamable"
Calling == At("streaming") \/ At("generating")

(* What is sent is the buffer, unless the host renders the request itself    *)
(* (options.render): the buffer is then kept as well, and not sent.          *)
Dispatch ==
    /\ At("call") /\ Go(IF Streams THEN "streaming" ELSE "generating") /\ part' = FALSE
    /\ OnlyModel /\ UNCHANGED <<healthy, attempt, reply, calls, status>>
PartArrives(delta) ==
    /\ At("streaming") /\ part' = TRUE
    /\ attempt' = [attempt EXCEPT !.visible = @ \/ delta]
    /\ OnlyModel /\ UNCHANGED <<pc, healthy, reply, calls, status>>
(* A stream that fails before its first part: the rest is not streamed.      *)
FallBack ==
    /\ At("streaming") /\ ~part /\ Go("generating")
    /\ attempt' = [attempt EXCEPT !.tag = "SettledOnly"]
    /\ OnlyModel /\ UNCHANGED <<healthy, part, reply, calls, status>>
Replies(r) ==
    /\ Calling /\ Go("answered")
    /\ reply' = r
    /\ OnlyModel /\ UNCHANGED <<healthy, attempt, part, calls, status>>

(* A refusal over an image, an overflow: each is dealt with once, and the    *)
(* step is sent again if the host dealt with it (claimRecovery).             *)
ClaimOverflowUnseen == attempt.overflow
ClaimOverflow == attempt.overflow /\ ~attempt.visible
ImageRefused ==
    /\ Calling /\ ~part /\ attempt.media /\ Go("call")
    /\ attempt' = [attempt EXCEPT !.media = FALSE]
    /\ OnlyModel /\ UNCHANGED <<healthy, part, reply, calls, status>>
Overflows ==
    /\ Calling /\ ClaimOverflow /\ Go("call")
    /\ attempt' = [attempt EXCEPT !.overflow = FALSE]
    /\ OnlyModel /\ UNCHANGED <<healthy, part, reply, calls, status>>

(* The provider could not decode the model's output.                         *)
Undecodable ==
    /\ At("generating") \/ (At("streaming") /\ part)
    /\ Go("settling") /\ status' = "malformed"
    /\ OnlyModel /\ UNCHANGED <<healthy, attempt, part, reply, calls>>

-----------------------------------------------------------------------------
(* The response and its calls.                                               *)

RefuseReply ==
    /\ At("answered") /\ Misformed /\ Go("settling") /\ status' = "malformed"
    /\ OnlyModel /\ UNCHANGED <<healthy, attempt, part, reply, calls>>
RecordReply ==
    /\ At("answered") /\ ~Misformed
    /\ log' = log \o <<Assistant>> \o Results(Answered)
    /\ healthy' = (attempt.tag = "Streamable")
    /\ calls' = [i \in DOMAIN reply.calls |-> IF i \in Answered THEN "answered" ELSE "todo"]
    /\ IF Answered = DOMAIN reply.calls
       THEN Go("settling") /\ status' = IF CutShort THEN "truncated" ELSE "completed"
       ELSE Go("tools") /\ UNCHANGED status
    /\ UNCHANGED <<step, messages, tail, carried, final, malformed, cuts, seen, stale, attempt, part, reply, ended, world, bounds, history>>

StartCall(i) ==
    /\ At("tools") /\ i \in DOMAIN calls /\ calls[i] = "todo" /\ \A j \in 1..i - 1 : calls[j] # "todo"
    /\ Cardinality({j \in DOMAIN calls : calls[j] = "running"}) < ToolConcurrency
    /\ calls' = [calls EXCEPT ![i] = "running"]
    /\ OnlyModel /\ UNCHANGED <<pc, healthy, attempt, part, reply, status>>
CallReturns(i) ==
    /\ At("tools") /\ i \in DOMAIN calls /\ calls[i] = "running"
    /\ log' = Append(log, Result(i))
    /\ calls' = [calls EXCEPT ![i] = "done"]
    /\ IF \A j \in DOMAIN calls : calls'[j] \in {"answered", "done"}
       THEN Go("settling") /\ status' = "completed"
       ELSE UNCHANGED <<pc, status>>
    /\ UNCHANGED <<step, messages, tail, carried, final, malformed, cuts, seen, stale, healthy, attempt, part, reply, ended, world, bounds, history>>

-----------------------------------------------------------------------------
(* The step settles once, with the exit of its own call, tools and tail.     *)

Settle ==
    /\ At("settling")
    /\ settled' = Append(settled, status)
    /\ Go("deciding")
    /\ UNCHANGED <<step, state, model, ended, world, bounds, said>>

(* A callback or the provider fails, or the run is interrupted.  Once a step *)
(* has its status it settles with it, or with the break if that is earlier   *)
(* than the exit: the event of a reply without calls fails.                  *)
InStep == pc \in {"begin", "call", "streaming", "generating", "answered", "tools"}
Settling == IF At("settling") THEN {status} ELSE {}
Breaks(how) ==
    /\ pc # "done" /\ Ends(how)
    /\ IF InStep \/ At("settling") THEN \E s \in {how} \cup Settling : settled' = Append(settled, s)
       ELSE settled' = settled
    /\ UNCHANGED <<step, state, model, world, bounds, said>>

-----------------------------------------------------------------------------
(* What follows a settled step.                                              *)

(* The text of a step that ends a continuation, and of one that does not.    *)
Says == IF reply.says THEN <<step>> ELSE <<>>
SettledTextAlone(text) == final' = (IF text # <<>> THEN text ELSE final) /\ carried' = <<>>
SettledText(text) == final' = (IF carried \o text # <<>> THEN carried \o text ELSE final) /\ carried' = <<>>
(* A broken loop in which nothing was said has a text of the loop's own.     *)
StopText == <<-1>>
BrokenText(text) ==
    IF final = <<>> /\ carried = <<>> /\ text = <<>> THEN final' = StopText /\ carried' = <<>> ELSE SettledText(text)
CarriedText(text) == final' = final /\ carried' = carried \o text
Said(continues) == said' = Append(said, [says |-> reply.says, continues |-> continues])
SaidNothing == said' = Append(said, [says |-> FALSE, continues |-> TRUE])

(* nextInput: the plan is applied if it keeps from an assistant's message.   *)
BoundaryAnywhere(next, keep) == keep > 1 /\ keep <= Len(next)
Boundary(next, keep) == keep > 1 /\ keep <= Len(next) /\ next[keep].what = "assistant"
Folded(next, keep) ==
    IF Boundary(next, keep) THEN <<[what |-> "summary", step |-> step, of |-> 0]>> \o SubSeq(next, keep, Len(next)) ELSE next
NextInput(stepTail, appended) ==
    LET next == messages \o stepTail \o appended
    IN \E keep \in 0..Len(next), noted \in BOOLEAN :
         LET acts == keep > 0 \/ noted
             note == IF noted THEN <<ForNext("note")>> ELSE <<>>
         IN /\ acts => hosted < MaxHosted
            /\ hosted' = IF acts THEN hosted + 1 ELSE hosted
            /\ messages' = Folded(next, keep) \o note
            /\ tail' = tail \o stepTail \o appended \o note
            /\ log' = log \o appended \o note
Appends(stepTail) ==
    messages' = messages \o stepTail /\ tail' = tail \o stepTail /\ UNCHANGED <<log, bounds>>
NextStep == step' = step + 1
Continues == Go("probe") /\ UNCHANGED ended

Recover ==
    /\ At("deciding") /\ status = "malformed"
    /\ IF malformed + 1 >= MalformedLimit
       THEN Ends("failed") /\ UNCHANGED <<step, state, bounds, said>>
       ELSE /\ NextStep /\ malformed' = malformed + 1 /\ cuts' = 0 /\ SaidNothing
            /\ IF step + 1 >= MaxSteps
               THEN Ends("step-cap") /\ SettledText(<<>>) /\ UNCHANGED <<messages, tail, log, bounds>>
               ELSE /\ Continues /\ UNCHANGED <<carried, final, bounds>>
                    /\ messages' = Append(messages, ForNext("corrective"))
                    /\ tail' = Append(tail, ForNext("corrective")) /\ log' = Append(log, ForNext("corrective"))
            /\ UNCHANGED <<seen, stale>>
    /\ UNCHANGED <<model, world, settled>>

Recut ==
    /\ At("deciding") /\ status = "truncated"
    /\ IF reply.finish # "length" \/ cuts + 1 > MaxCutCorrectives
       THEN Ends("failed") /\ UNCHANGED <<step, state, bounds, said>>
       ELSE /\ NextStep /\ malformed' = 0 /\ cuts' = cuts + 1
            /\ IF step + 1 >= MaxSteps
               THEN Ends("step-cap") /\ SettledText(Says) /\ Said(FALSE) /\ Appends(StepTail)
               ELSE /\ Continues /\ NextInput(StepTail, <<ForNext("corrective")>>)
                    /\ IF reply.calls # <<>> THEN SettledText(Says) /\ Said(FALSE) ELSE CarriedText(Says) /\ Said(TRUE)
            /\ UNCHANGED <<seen, stale>>
    /\ UNCHANGED <<model, world, settled>>

(* foldProgress and nextPhase.                                               *)
Progress(sig) == IF sig = "none" THEN stale ELSE IF sig \in seen THEN stale + 1 ELSE 0
Nudges(sig) == sig # "none" /\ Progress(sig) = NudgeAfter
Broke(sig) == sig # "none" /\ Progress(sig) >= BreakAfter
WantsMore(completed) ==
    \/ queued # {}
    \/ ~completed /\ (RequireCompletion \/ (reply.finish = "tool-calls" /\ reply.calls # <<>>) \/ reply.finish = "pause")
Phase(sig, completed) ==
    IF Broke(sig) THEN "degenerate-loop"
    ELSE IF ~WantsMore(completed) THEN "completed"
    ELSE IF step + 1 >= MaxSteps THEN "step-cap" ELSE "continue"

Yield ==
    /\ At("deciding") /\ status = "completed" /\ waiting
    /\ Ends("waiting") /\ NextStep
    /\ messages' = messages \o StepTail /\ tail' = tail \o StepTail /\ final' = <<>> /\ carried' = <<>>
    /\ UNCHANGED <<log, malformed, cuts, seen, stale, model, world, bounds, history>>

(* Correctives for the next step: after a repeated result, and after a stop  *)
(* that left required work undone.                                           *)
Due(sig, completed) ==
    (IF Nudges(sig) THEN <<ForNext("nudge")>> ELSE <<>>)
      \o (IF ~completed /\ RequireCompletion /\ reply.calls = <<>> /\ reply.finish # "pause" THEN <<ForNext("incomplete")>> ELSE <<>>)
Decide(sig, completed) ==
    /\ At("deciding") /\ status = "completed" /\ ~waiting
    /\ sig = "none" \/ reply.calls # <<>>
    /\ NextStep /\ malformed' = 0 /\ cuts' = 0
    /\ stale' = Progress(sig) /\ seen' = seen \cup ({sig} \ {"none"})
    /\ IF Phase(sig, completed) = "continue"
       THEN /\ Continues /\ NextInput(StepTail, Due(sig, completed))
            /\ IF reply.finish = "pause" THEN CarriedText(Says) /\ Said(TRUE) ELSE SettledText(Says) /\ Said(FALSE)
       ELSE /\ Ends(Phase(sig, completed)) /\ Appends(StepTail) /\ Said(FALSE)
            /\ IF Broke(sig) THEN BrokenText(Says) ELSE SettledText(Says)
    /\ UNCHANGED <<model, world, settled>>

-----------------------------------------------------------------------------
Runs ==
    \/ Probe \/ BeginStep \/ Dispatch \/ FallBack \/ ImageRefused \/ Overflows \/ Undecodable
    \/ \E delta \in BOOLEAN : PartArrives(delta)
    \/ \E r \in Reply : Replies(r)
    \/ RefuseReply \/ RecordReply \/ Settle \/ Recover \/ Recut \/ Yield
    \/ \E i \in 1..Len(calls) : StartCall(i) \/ CallReturns(i)
    \/ \E sig \in Signature \cup {"none"}, completed \in BOOLEAN : Decide(sig, completed)

Next ==
    \/ Runs
    \/ \E how \in {"failed", "cancelled"} : Breaks(how)
    \/ \E s \in Steer : Enqueue(s)
    \/ Waits

Spec == Init /\ [][Next]_vars
=============================================================================
