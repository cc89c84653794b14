------------------------ MODULE AgentLoopProperties ------------------------
(***************************************************************************)
(* What a run of the agent loop promises.                                  *)
(***************************************************************************)
EXTENDS AgentLoop

(* The buffer the loop makes its request from is well formed at each call of *)
(* a model, however replies were cut, refused, answered or folded away: each *)
(* call of a reply is answered once, right after it and in order, and no     *)
(* result stands without its call.  A model is sent this buffer when the     *)
(* host gives no options.render (loop.ts:665); with it, as the step loop     *)
(* has it, the request is the host's and nothing is said of it here.         *)
ResultBeside(m, n) == [what |-> "result", step |-> m.step, of |-> n]
CallsAnswered(ms, i) ==
    ms[i].what = "assistant" =>
      \A n \in 1..ms[i].of : i + n <= Len(ms) /\ ms[i + n] = ResultBeside(ms[i], n)
ResultPlaced(ms, i) ==
    ms[i].what = "result" => i > 1 /\
      IF ms[i].of = 1 THEN ms[i - 1].what = "assistant" /\ ms[i - 1].step = ms[i].step
      ELSE ms[i - 1] = ResultBeside(ms[i], ms[i].of - 1)
WellFormed(ms) == \A i \in DOMAIN ms : CallsAnswered(ms, i) /\ ResultPlaced(ms, i)
BufferIsWellFormed == Calling => WellFormed(messages)

(* The journal and what the run returns tell the same run: between steps     *)
(* they hold the same messages in the same places, but for the results of    *)
(* one reply, which are stored as they return, each in a message of its own: *)
(* the run's tail has them in one, so the places are those of the results.   *)
IsResult(m) == m.what = "result"
SameButOrder(m, n) == m = n \/ (IsResult(m) /\ IsResult(n) /\ m.step = n.step)
SameRun(a, b) ==
    /\ Len(a) = Len(b) /\ {a[i] : i \in 1..Len(a)} = {b[i] : i \in 1..Len(b)}
    /\ \A i \in 1..Len(a) : SameButOrder(a[i], b[i])
JournalIsTheTail ==
    (pc = "probe" \/ ended \in {"completed", "step-cap", "degenerate-loop", "waiting"}) => SameRun(log, tail)

(* Nothing is stored under a step that has settled, nor under a later one    *)
(* than the next; each step settles once, when all its calls have ended.     *)
SettledStepsAreClosed ==
    [][\A i \in Len(log) + 1..Len(log') : log'[i].step = Len(settled)]_vars

(* What a step showed is not taken back: once a delta of it went out the     *)
(* step is not sent again, by no recovery.                                   *)
ShownStepsAreNotResent == [][pc' \in {"streaming", "generating"} /\ pc' # pc => ~attempt.visible]_vars

(* The run's text is its last reply with all that it continues, and only it: *)
(* of the last step that said anything, and of the steps before it that are  *)
(* continued up to it, what they said, in order.  Step n is the n-th said.   *)
(* A run that said nothing has no text, but for a broken loop: it has the    *)
(* loop's own (DEGENERATE_LOOP_STOP), and only if nothing was said.          *)
Spoke(q) == {n \in DOMAIN q : q[n].says}
Continued(q, m, n) == \A e \in m..n - 1 : q[e].continues
LastReply(q, spoke) == {m \in spoke : \E n \in spoke : (\A o \in spoke : o <= n) /\ Continued(q, m, n)}
TextOf(text, steps) ==
    /\ {text[i] + 1 : i \in DOMAIN text} = steps
    /\ \A i, j \in DOMAIN text : i < j => text[i] < text[j]
FinalTextIsTheLastReply ==
    ended \in {"completed", "step-cap", "degenerate-loop"} =>
      IF ended = "degenerate-loop" /\ Spoke(said) = {} THEN final = StopText
      ELSE TextOf(final, LastReply(said, Spoke(said)))

(* Why it is: while the run goes on, carried is what was said by the steps   *)
(* that may yet be continued, and final the last reply of those that are not.*)
OpenSpoke(q) == {m \in Spoke(q) : Continued(q, m, Len(q) + 1)}
TextInvariant ==
    /\ pc # "done" => /\ Spoke(said) = {} <=> (final = <<>> /\ carried = <<>>)
                      /\ Len(said) = step /\ ended = "no"
                      /\ TextOf(carried, OpenSpoke(said))
                      /\ TextOf(final, LastReply(said, Spoke(said) \ OpenSpoke(said)))
    /\ FinalTextIsTheLastReply

=============================================================================
