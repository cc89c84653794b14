----------------------------- MODULE TurnWriter -----------------------------
(***************************************************************************)
(* The queue of an open turn's writer (plugin-sessions): callers admit     *)
(* items under one permit into a bounded queue, one consumer stores them   *)
(* in queue order, and the writer's phase says who is refused.  The turn   *)
(* may be closed by this instance or found closed by a commit, a store may *)
(* refuse, a caller may be interrupted before its item is queued, and the  *)
(* turn's scope closes once, ending the turn itself.                       *)
(*                                                                         *)
(* A call waits for the permit as soon as its fiber may make it, and is    *)
(* given it at any moment.  Sessions models what an end stores and in      *)
(* which state of the session; this module who is admitted, what reaches   *)
(* the store and what each caller is told.  A caller interrupted while it  *)
(* awaits its result is not modelled: its item stays as it is.             *)
(***************************************************************************)
EXTENDS Integers, Sequences, FiniteSets

CONSTANTS Call,      \* the calls that may be made of the writer
          KindOf,    \* what each of them asks
          After,     \* the call its fiber makes before it, or NoCall
          ScopeEnd,  \* the end the turn's scope makes when it closes
          NoCall,
          Capacity,  \* config.writer.capacity
          Batch      \* config.writer.batch

ASSUME WriterConstants ==
    /\ KindOf \in [Call -> {"append", "transact", "write", "flush", "end"}]
    /\ ScopeEnd \in Call /\ KindOf[ScopeEnd] = "end" /\ NoCall \notin Call
    /\ After \in [Call -> Call \cup {NoCall}]
    /\ Capacity \in Nat \ {0} /\ Batch \in Nat \ {0}

VARIABLES phase,      \* WriterPhase
          last,       \* the end begun last
          holder,     \* who holds the admission permit, offering its item
          step,       \* per call, where it stands
          awaits,     \* per call, whose result it awaits (its own, or a shared end's)
          result,     \* per call, its Deferred
          waiting,    \* the calls a close refuses
          line,       \* every item queued, in order
          taken,      \* how many of them the consumer took
          settled,    \* how many of them it is done with
          upTo,       \* the last item of the one it is at (a group of appends is one)
          shut,       \* the queue was shut down
          scope,      \* how far the closing of the turn's scope is
          stored,     \* the positions in line whose events are in the store
          withdrawn   \* history: ends withdrawn just as they were queued

callVars == <<holder, step, awaits>>
queueVars == <<line, taken, settled, upTo, shut>>
vars == <<phase, last, callVars, result, waiting, queueVars, scope, stored, withdrawn>>

Init ==
    /\ phase = "Open" /\ last = NoCall /\ holder = NoCall
    /\ step = [c \in Call |-> IF c = ScopeEnd THEN "idle" ELSE "called"] /\ awaits = [c \in Call |-> c]
    /\ result = [c \in Call |-> "none"] /\ waiting = {}
    /\ line = <<>> /\ taken = 0 /\ settled = 0 /\ upTo = 0
    /\ shut = FALSE /\ scope = "open"
    /\ stored = {} /\ withdrawn = {}

-----------------------------------------------------------------------------
(* The phase's transitions.                                                  *)

Live(p) == p \in {"Open", "Ending"}
Stopped(p) == p \in {"Failed", "Closed"}

Latched(p, stop) == IF Live(p) THEN stop ELSE p

(* An end's commit settled; only the end begun last moves the phase.  One    *)
(* refused as closed finds the phase closed already.                         *)
EndSettled(p, end, ok) ==
    IF end # last THEN p
    ELSE IF ok THEN (IF Live(p) THEN "Ended" ELSE p)
    ELSE IF p = "Ending" THEN "Open" ELSE p

WithdrawnNot(p, c) == p
Withdrawn(p, c) == IF c = last /\ p = "Ending" THEN "Open" ELSE p

(* The results of the calls in cs, those that have none yet.                 *)
Told(cs, answer) == [c \in Call |-> IF c \in cs /\ result[c] = "none" THEN answer ELSE result[c]]

-----------------------------------------------------------------------------
(* A call: it waits for the permit, is admitted or not, and is queued once   *)
(* there is room; it has its answer once the result it awaits is there.      *)
Answered(c) == step[c] = "gone" \/ (step[c] = "awaiting" /\ result[awaits[c]] # "none")

Made(c) == step[c] # "idle" /\ (After[c] # NoCall => Answered(After[c]))
AtPermit(c) == step[c] = "called" /\ Made(c) /\ holder = NoCall

(* admit, beginEnd, and flush's own check: a flush is admitted behind an end. *)
AdmissibleAnyway(c) == ~Stopped(phase)
Admissible(c) == IF KindOf[c] = "flush" THEN ~Stopped(phase) ELSE phase = "Open"

(* The end admitted seals admission; an append's result nobody awaits.       *)
Admits(c) ==
    /\ AtPermit(c) /\ Admissible(c)
    /\ holder' = c
    /\ step' = [step EXCEPT ![c] = "offering"]
    /\ IF KindOf[c] = "end" THEN phase' = "Ending" /\ last' = c ELSE UNCHANGED <<phase, last>>
    /\ waiting' = IF KindOf[c] = "append" THEN waiting ELSE waiting \cup {c}
    /\ UNCHANGED <<awaits, result, queueVars, scope, stored, withdrawn>>

(* Every end while one runs awaits that one.                                 *)
Shares(c) ==
    /\ AtPermit(c)
    /\ KindOf[c] = "end" /\ phase = "Ending"
    /\ step' = [step EXCEPT ![c] = "awaiting"]
    /\ awaits' = [awaits EXCEPT ![c] = last]
    /\ UNCHANGED <<phase, last, holder, result, waiting, queueVars, scope, stored, withdrawn>>

(* Not admitted: refused, but an end already stored answers an end.          *)
Refuses(c) ==
    /\ AtPermit(c)
    /\ ~Admissible(c) /\ ~(KindOf[c] = "end" /\ phase = "Ending")
    /\ step' = [step EXCEPT ![c] = "awaiting"]
    /\ result' = Told({c}, IF KindOf[c] = "end" /\ phase = "Ended" THEN "ok" ELSE "refused")
    /\ UNCHANGED <<phase, last, holder, awaits, waiting, queueVars, scope, stored, withdrawn>>

Room == Len(line) - taken < Capacity

(* There is room: the item is queued and the permit released.                *)
Queues(c) ==
    /\ holder = c /\ ~shut /\ Room
    /\ line' = Append(line, c)
    /\ holder' = NoCall
    /\ step' = [step EXCEPT ![c] = "awaiting"]
    /\ result' = IF KindOf[c] = "append" THEN Told({c}, "ok") ELSE result
    /\ UNCHANGED <<phase, last, awaits, waiting, taken, settled, upTo, shut, scope, stored, withdrawn>>

(* The queue was shut down: the offer is not accepted.                       *)
OfferRefused(c) ==
    /\ holder = c /\ shut
    /\ holder' = NoCall
    /\ step' = [step EXCEPT ![c] = "awaiting"]
    /\ result' = Told({c}, "refused") /\ waiting' = waiting \ {c}
    /\ UNCHANGED <<phase, last, awaits, queueVars, scope, stored, withdrawn>>

(* An end's caller is interrupted while it waits for room (any other caller  *)
(* interrupted there leaves the writer as if it had not called) ...          *)
Leaves(c) ==
    /\ holder = c /\ KindOf[c] = "end"
    /\ holder' = NoCall
    /\ step' = [step EXCEPT ![c] = "gone"]
    /\ waiting' = waiting \ {c}
    /\ phase' = Withdrawn(phase, c)
    /\ UNCHANGED <<last, awaits, result, queueVars, scope, stored, withdrawn>>

(* ... or just as its item was queued: an end is withdrawn all the same.     *)
LeavesQueued(c) ==
    /\ holder = c /\ ~shut /\ Room /\ KindOf[c] = "end"
    /\ line' = Append(line, c)
    /\ holder' = NoCall
    /\ step' = [step EXCEPT ![c] = "gone"]
    /\ waiting' = waiting \ {c}
    /\ phase' = Withdrawn(phase, c)
    /\ withdrawn' = withdrawn \cup {c}
    /\ UNCHANGED <<last, awaits, result, taken, settled, upTo, shut, scope, stored>>

-----------------------------------------------------------------------------
(* The turn closed from outside the writer.                                  *)

(* closeBy: every caller waiting is refused, unless the end is stored.       *)
CloseBy(refused) ==
    /\ phase' = Latched(phase, "Closed")
    /\ result' = Told(IF phase = "Ended" THEN refused ELSE waiting \cup refused, "refused")

ClosedHere ==
    /\ CloseBy({})
    /\ UNCHANGED <<last, callVars, waiting, queueVars, scope, stored, withdrawn>>

-----------------------------------------------------------------------------
(* The consumer: it takes a chunk and goes through it in order.              *)

Working == upTo > settled
Item == line[settled + 1]
Smaller(m, n) == IF m < n THEN m ELSE n

Takes ==
    /\ ~shut /\ settled = taken /\ taken < Len(line)
    /\ taken' = Smaller(taken + Batch, Len(line))
    /\ UNCHANGED <<phase, last, callVars, result, waiting, line, settled, upTo, shut, scope, stored, withdrawn>>

(* The consecutive appends of the chunk are one commit.                      *)
Group(k) ==
    /\ k \in (settled + 1)..taken
    /\ \A i \in (settled + 1)..k : KindOf[line[i]] = "append"
    /\ k < taken => KindOf[line[k + 1]] # "append"

AtItem(kinds) == ~Working /\ settled < taken /\ KindOf[Item] \in kinds

(* A stopped writer drops appends.                                           *)
BeginsAppends ==
    /\ AtItem({"append"})
    /\ \E k \in (settled + 1)..taken :
         /\ Group(k) /\ upTo' = k
         /\ settled' = IF Stopped(phase) THEN k ELSE settled
    /\ UNCHANGED <<phase, last, callVars, result, waiting, line, taken, shut, scope, stored, withdrawn>>

(* What the consumer does not begin: the stop refuses it, or a stored end    *)
(* refuses an end.                                                           *)
NotBegun == Stopped(phase) \/ (KindOf[Item] = "end" /\ phase = "Ended")

Begins ==
    /\ AtItem({"transact", "write", "end"}) /\ ~NotBegun
    /\ upTo' = settled + 1
    /\ UNCHANGED <<phase, last, callVars, result, waiting, line, taken, settled, shut, scope, stored, withdrawn>>

(* The item at hand is done: its caller is told and no longer waiting.       *)
Settles(answer) ==
    /\ result' = Told({Item}, answer) /\ waiting' = waiting \ {Item}
    /\ settled' = settled + 1 /\ upTo' = settled + 1
    /\ UNCHANGED <<last, callVars, line, taken, shut, scope, withdrawn>>

RefusesItem ==
    /\ AtItem({"transact", "write", "end"}) /\ NotBegun
    /\ Settles("refused")
    /\ UNCHANGED <<phase, stored>>

AnswersFlushBlind ==
    /\ AtItem({"flush"})
    /\ Settles("ok")
    /\ UNCHANGED <<phase, stored>>

AnswersFlush ==
    /\ AtItem({"flush"})
    /\ Settles(IF Stopped(phase) THEN "refused" ELSE "ok")
    /\ UNCHANGED <<phase, stored>>

(* A write's own effect ends; one that a close ended was refused then.       *)
RunEnds ==
    /\ Working /\ KindOf[Item] = "write"
    /\ Settles("ok")
    /\ UNCHANGED <<phase, stored>>

Committing == Working /\ KindOf[Item] # "write"

CommitStored ==
    /\ Committing
    /\ stored' = stored \cup ((settled + 1)..upTo)
    /\ result' = Told({Item}, "ok") /\ waiting' = waiting \ {Item}
    /\ phase' = IF KindOf[Item] = "end" THEN EndSettled(phase, Item, TRUE) ELSE phase
    /\ settled' = upTo
    /\ UNCHANGED <<last, callVars, line, taken, upTo, shut, scope, withdrawn>>

(* What a commit that failed leaves: only an append's failure stops the      *)
(* writer, the others tell their callers.                                    *)
AfterFailureTold == IF KindOf[Item] = "end" THEN EndSettled(phase, Item, FALSE) ELSE phase

AfterFailure ==
    CASE KindOf[Item] = "append" -> Latched(phase, "Failed")
      [] KindOf[Item] = "end"    -> EndSettled(phase, Item, FALSE)
      [] OTHER                   -> phase

(* The store refused, or conflicts outlasted the retries, or it died.        *)
CommitFails ==
    /\ Committing
    /\ result' = Told({Item}, "refused") /\ waiting' = waiting \ {Item}
    /\ phase' = AfterFailure
    /\ settled' = upTo
    /\ UNCHANGED <<last, callVars, line, taken, upTo, shut, scope, stored, withdrawn>>

(* Another instance took the turn, its lease ran out or the session was      *)
(* removed: the commit finds it.                                             *)
FoundClosed ==
    /\ Committing
    /\ CloseBy({Item}) /\ waiting' = waiting \ {Item}
    /\ settled' = upTo
    /\ UNCHANGED <<last, callVars, line, taken, upTo, shut, scope, stored, withdrawn>>

-----------------------------------------------------------------------------
(* The turn's scope closes: its own end, within a time limit, then the       *)
(* writer is stopped, its queue shut down and every caller waiting refused.  *)
(* The consumer's fiber is stopped last: it then takes no more steps, as it  *)
(* may here at any time.                                                     *)

ScopeCloses ==
    /\ scope = "open"
    /\ IF phase = "Ended" THEN scope' = "shutting" /\ UNCHANGED step
       ELSE scope' = "ending" /\ step' = [step EXCEPT ![ScopeEnd] = "called"]
    /\ UNCHANGED <<phase, last, holder, awaits, result, waiting, queueVars, stored, withdrawn>>

(* The end's time is up while it waits for the permit or its result; one     *)
(* that waits for room leaves as any caller does.                            *)
ScopeTimesOut ==
    /\ scope = "ending" /\ step[ScopeEnd] \in {"called", "awaiting"}
    /\ step' = [step EXCEPT ![ScopeEnd] = "gone"]
    /\ UNCHANGED <<phase, last, holder, awaits, result, waiting, queueVars, scope, stored, withdrawn>>

Seals ==
    /\ scope = "ending" /\ Answered(ScopeEnd)
    /\ scope' = "shutting"
    /\ phase' = Latched(phase, "Closed")
    /\ UNCHANGED <<last, callVars, result, waiting, queueVars, stored, withdrawn>>

ShutsDown ==
    /\ scope = "shutting" /\ scope' = "refusing"
    /\ shut' = TRUE
    /\ UNCHANGED <<phase, last, callVars, result, waiting, line, taken, settled, upTo, stored, withdrawn>>

RefusesQueued ==
    /\ scope = "refusing" /\ scope' = "closed"
    /\ result' = Told(waiting \ {line[p] : p \in 1..taken}, "refused")
    /\ UNCHANGED <<phase, last, callVars, waiting, queueVars, stored, withdrawn>>

RefusesWaiting ==
    /\ scope = "refusing" /\ scope' = "closed"
    /\ result' = Told(waiting, "refused")
    /\ UNCHANGED <<phase, last, callVars, waiting, queueVars, stored, withdrawn>>

-----------------------------------------------------------------------------
GoesOn(c) == Admits(c) \/ Shares(c) \/ Refuses(c)
Offers(c) == Queues(c) \/ OfferRefused(c)
Calls(c) == GoesOn(c) \/ Offers(c) \/ Leaves(c) \/ LeavesQueued(c)

Consumes ==
    \/ Takes \/ BeginsAppends \/ Begins \/ RefusesItem \/ AnswersFlush \/ RunEnds
    \/ CommitStored \/ CommitFails \/ FoundClosed

Scope == ScopeCloses \/ ScopeTimesOut \/ Seals \/ ShutsDown \/ RefusesWaiting

Next == (\E c \in Call : Calls(c)) \/ ClosedHere \/ Consumes \/ Scope

(* A caller that may go on does, the time limit passes and the scope goes on *)
(* closing once it began.  Nothing is asked of the store or of the consumer, *)
(* whose commit or write may hang, nor that the scope ever closes.           *)
TimeIsUp == ScopeTimesOut \/ Leaves(ScopeEnd)
Fairness ==
    /\ WF_vars(\E c \in Call : GoesOn(c)) /\ WF_vars(\E c \in Call : Offers(c))
    /\ WF_vars(TimeIsUp) /\ WF_vars(Seals) /\ WF_vars(ShutsDown) /\ WF_vars(RefusesWaiting)

Spec == Init /\ [][Next]_vars /\ Fairness
=============================================================================
