------------------------ MODULE InboxDrainProperties ------------------------
(***************************************************************************)
(* What the inbox drainer promises.                                        *)
(***************************************************************************)
EXTENDS InboxDrain

(* What the drainer folds from the journal is the inbox in the head, whose   *)
(* commits wrote that journal: the same items, taken by the same turn.  The  *)
(* two are computed by different code (drainHistoryOf and closedState).      *)
HistoryAgreesWithHead ==
    \A x \in Session :
      LET s == sess[x]
      IN /\ DOMAIN s.history.slots = {item \in Item : s.head.inbox[item].in}
         /\ \A item \in DOMAIN s.history.slots : s.history.slots[item].by = s.head.inbox[item].by

(* A job runs exactly while one worker works on its session: no session is   *)
(* worked on twice at once, and none is left Running by nobody (nothing      *)
(* would ever claim it again).                                               *)
RunningJobsHaveOneWorker ==
    \A x \in Session :
      Cardinality({w \in Worker : worker[w].step # "idle" /\ worker[w].at = x})
        = IF jobs[x].tag = "Running" THEN 1 ELSE 0

(* A takeover closes only the turn this process's first scan saw open, and   *)
(* never one this process holds: a turn begun since, here or elsewhere, is   *)
(* left alone.                                                               *)
ClosedBy(x, t, code) ==
    /\ t \in DOMAIN sess[x].history.turns /\ sess[x].history.turns[t].ended = "open"
    /\ sess'[x].history.turns[t].ended # "open" /\ sess'[x].history.turns[t].code = code
TakeoversAreSighted ==
    [][\A x \in Session : \A t \in 1..sess[x].head.turns :
         ClosedBy(x, t, "turn.takeover") => t = sighted[x] /\ ~HeldHere(x, t)]_vars

(* An input the drainer runs fails at most config.attempts of its runs, and  *)
(* so do the resumes of one turn, whoever else runs it and however often the *)
(* process restarts.                                                         *)
FailedRuns(x, turns) == {t \in drained[x] \cap turns : sess[x].history.turns[t].ended \in {"failed", "partial"}}
RunsOf(h, item) == {t \in ClaimsOf(h, item) : h.turns[t].resumes = 0}
ResumesOf(h, root) == {t \in DOMAIN h.turns : h.turns[t].resumes = root}
FailedRunsAreBounded ==
    \A x \in Session : LET h == sess[x].history IN
      /\ \A item \in Input : Cardinality(FailedRuns(x, RunsOf(h, item))) <= DrainAttempts
      /\ \A root \in DOMAIN h.turns : Cardinality(FailedRuns(x, ResumesOf(h, root))) <= DrainAttempts

(* An input a turn answered is never begun again, by the drainer's queued    *)
(* turn, its resumes or a host's turn.                                       *)
AnsweredInputsAreNotBegun ==
    [][\A x \in Session : \A t \in (1..sess'[x].head.turns) \ (1..sess[x].head.turns) :
         LET input == sess'[x].history.turns[t].input
         IN input # NoItem => ~\E u \in ClaimsOf(sess[x].history, input) :
              sess[x].history.turns[u].ended \in {"completed", "waiting"}]_vars

(* Whatever waits in a session is worked off while the process goes on:      *)
(* again and again there is nothing left that the drainer should run, each   *)
(* input and notice answered, dropped or parked, each recoverable turn       *)
(* resumed or given up.                                                      *)
WorkOf(x) == TargetOf(sess[x].history, 0, baseline[x], FALSE)
WorkedOff(x) == WorkOf(x) = NoTarget \/ stopping \/ halted
BacklogIsWorkedOff == \A x \in Session : []<>WorkedOff(x)

(* The same but for a notice whose last turn nobody holds any more: its reap *)
(* will drop it (see BacklogIsWorkedOff).                                    *)
DropsWhenReaped(x) == sess[x].gone /\ Dropped(sess[x].head, "interrupted", TRUE) # {}
BacklogIsWorkedOffOrDropped == \A x \in Session : []<>(WorkedOff(x) \/ DropsWhenReaped(x))

-----------------------------------------------------------------------------
(* Why a drainer may go by the journal.                                      *)

(* What a session is, and the head and the journal of one: as many turns, of *)
(* which only the open one has not ended, and the same inbox; a resume comes *)
(* after its root.                                                           *)
TurnRecord == [origin : {"user", "inbox"}, resumes : Nat, input : Item \cup {NoItem},
               ended : Reason \cup {"open"}, code : Code, endedAt : Nat]
HistoryType(h) ==
    /\ h \in [slots : {h.slots}, turns : Seq(TurnRecord)]
    /\ h.slots \in [DOMAIN h.slots -> [by : Nat, at : Nat]]
SessionType(s) ==
    /\ s \in [head : State, gone : BOOLEAN, seq : Nat, queued : SUBSET Item, history : {s.history}]
    /\ HistoryType(s.history)

TurnsAgree(s) ==
    /\ Len(s.history.turns) = s.head.turns
    /\ s.head.open.turn \in {0, s.head.turns}
    /\ \A t \in 1..s.head.turns :
         /\ s.history.turns[t].ended = "open" <=> t = s.head.open.turn
         /\ s.history.turns[t].resumes < t
InboxAgrees(s) ==
    /\ DOMAIN s.history.slots = {item \in Item : s.head.inbox[item].in}
    /\ \A item \in DOMAIN s.history.slots :
         /\ s.history.slots[item].by = s.head.inbox[item].by
         /\ s.history.slots[item].by \in {0, s.head.open.turn}

(* An input that waits was not answered, nor was one a later turn began on;  *)
(* the open turn has its input.  Only the user's turns have one.             *)
Answered(h, t) == h.turns[t].ended \in {"completed", "waiting"}
InputsAreOpen(s) ==
    LET h == s.history IN
    \A t \in DOMAIN h.turns : LET input == h.turns[t].input IN
      input # NoItem =>
        /\ h.turns[t].origin = "user" /\ input \in s.queued
        /\ Answered(h, t) => ~Has(h, input)
        /\ \A u \in ClaimsOf(h, input) : u < t => ~Answered(h, u)
        /\ t = s.head.open.turn /\ Has(h, input) => h.slots[input].by = t
SessionInvariant(s) ==
    /\ SessionType(s) /\ TurnsAgree(s) /\ InboxAgrees(s) /\ InputsAreOpen(s)
    /\ DOMAIN s.history.slots \subseteq s.queued /\ IsFiniteSet(s.queued)

(* A takeover names the turn the first scan saw, which this process does not *)
(* hold; before that scan there is nothing that could name one.              *)
Names(x, over) == over \in {0, sighted[x]}
ScanNames(x) ==
    /\ Names(x, scan.of[x].takeOver)
    /\ scan.on /\ scan.first /\ scan.of[x].step = "listed" => scan.of[x].mark.open = sighted[x]
WorkerNames(w) ==
    worker[w].step # "idle" =>
      LET x == worker[w].at IN
      /\ Names(x, worker[w].job.takeOver) /\ Names(x, worker[w].over)
      /\ worker[w].open \in 0..sess[x].head.turns
      /\ worker[w].over # 0 => ~HeldHere(x, worker[w].over)
SightInvariant ==
    /\ ~scan.on => scan = IdleScan
    /\ startup => ~scan.on /\ (\A x \in Session : jobs[x] = NoJob) /\ \A w \in Worker : worker[w].step = "idle"
    /\ \A x \in Session : sighted[x] \in 0..sess[x].head.turns /\ Names(x, jobs[x].takeOver) /\ ScanNames(x)
    /\ \A w \in Worker : WorkerNames(w)

(* The turns a run counts with, begun or to be begun.                        *)
TargetRuns(h, target) ==
    CASE target.kind = "queued" -> RunsOf(h, target.of)
      [] target.kind = "resume" -> ResumesOf(h, target.of)
      [] OTHER -> {}
RunsWith(h, t) ==
    IF h.turns[t].resumes # 0 THEN ResumesOf(h, h.turns[t].resumes)
    ELSE IF h.turns[t].input # NoItem THEN RunsOf(h, h.turns[t].input) ELSE {}
MayFail(x, turns) == Cardinality(FailedRuns(x, turns)) < DrainAttempts

(* A drained turn that may still fail is the one its worker runs, and one    *)
(* more of its runs may.                                                     *)
DrainsOwn(x) ==
    /\ drained[x] \subseteq 1..sess[x].head.turns
    /\ sess[x].head.open.turn \in drained[x] =>
         /\ sess[x].head.open.holder # elsewhere
         /\ HeldHere(x, sess[x].head.open.turn) => Drains(x, sess[x].head.open.turn)
WorkerCounts(w) ==
    LET x == worker[w].at
        h == sess[x].history
    IN /\ worker[w].step = "selected" => MayFail(x, TargetRuns(h, worker[w].target))
       /\ worker[w].step = "running" =>
            /\ worker[w].turn \in drained[x]
            /\ HeldHere(x, worker[w].turn) => MayFail(x, RunsWith(h, worker[w].turn))
CountInvariant ==
    /\ FailedRunsAreBounded
    /\ \A x \in Session : DrainsOwn(x)
    /\ \A w \in Worker : WorkerCounts(w)

JournalInvariant == (\A x \in Session : SessionInvariant(sess[x])) /\ SightInvariant /\ CountInvariant
=============================================================================
