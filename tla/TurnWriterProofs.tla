------------------------- MODULE TurnWriterProofs --------------------------
(***************************************************************************)
(* Proofs about the queue of a turn's writer, for any calls, fibers, queue *)
(* capacity and batch.                                                     *)
(***************************************************************************)
EXTENDS TurnWriterProperties, TLAPS

Phase == {"Open", "Ending", "Failed", "Closed", "Ended"}
Step == {"idle", "called", "offering", "awaiting", "gone"}
CommitKind == {"append", "transact", "end"}
Over == {"shutting", "refusing", "closed"}

CallsOK ==
    /\ phase \in Phase
    /\ last \in Call \cup {NoCall} /\ holder \in Call \cup {NoCall}
    /\ step \in [Call -> Step] /\ awaits \in [Call -> Call \cup {NoCall}]
    /\ result \in [Call -> {"none", "ok", "refused"}]
    /\ waiting \in SUBSET Call /\ withdrawn \in SUBSET Call
    /\ shut \in BOOLEAN /\ scope \in {"open", "ending"} \cup Over

(* The consumer is within the line, and its commit is appends alone or one   *)
(* other item.                                                               *)
LineOK ==
    /\ line \in Seq(Call) /\ taken \in Nat /\ settled \in Nat /\ upTo \in Nat
    /\ settled <= upTo /\ upTo <= taken /\ taken <= Len(line)
    /\ stored \in SUBSET (1..settled)
    /\ Working => IF Kinds(settled + 1) = "append" THEN \A p \in (settled + 1)..upTo : Kinds(p) = "append"
                  ELSE upTo = settled + 1 /\ Kinds(settled + 1) \in {"transact", "write", "end"}
    /\ \A p \in stored : Kinds(p) \in CommitKind

TypeOK == CallsOK /\ LineOK

(* A call is queued at most once, by its own offer.                          *)
QueuedOnce ==
    /\ \A p \in 1..Len(line) : step[line[p]] \in {"awaiting", "gone"}
    /\ \A p, q \in 1..Len(line) : line[p] = line[q] => p = q
    /\ holder # NoCall => step[holder] = "offering"
    /\ \A c \in Call : step[c] \in {"idle", "called", "offering"} => result[c] # "ok"
    /\ scope = "open" => step[ScopeEnd] = "idle"

(* The end begun last; whoever offers one sealed admission.                  *)
EndsBegun ==
    /\ last # NoCall => KindOf[last] = "end"
    /\ (holder # NoCall /\ KindOf[holder] = "end") => last = holder /\ phase # "Open"
    /\ phase = "Ending" => last # NoCall
    /\ scope \in Over => ~Live(phase)
    /\ shut => scope \in Over

(* An end that is stored or may yet be, and was not withdrawn.               *)
Standing(p) == Kinds(p) = "end" /\ line[p] \notin withdrawn /\ (p \in stored \/ p > settled)

(* It seals admission: behind it there are flushes only.                     *)
EndsSeal ==
    \A p \in 1..Len(line) : Standing(p) =>
        /\ phase # "Open"
        /\ phase = "Ending" => p > settled /\ last = line[p]
        /\ \A q \in (p + 1)..Len(line) : Kinds(q) = "flush"
        /\ holder # NoCall => KindOf[holder] = "flush"

EndedIsStored == phase = "Ended" => \E p \in stored : Kinds(p) = "end"

(* Every append the consumer is done with is stored, or the writer stopped.  *)
Kept(q) == Kinds(q) = "append" => q \in stored \/ BehindWithdrawnEnd(q)
AppendsKept ==
    /\ \A q \in 1..settled : Kept(q) \/ Stopped(phase)
    /\ Working => \A q \in 1..settled : Kept(q)

-----------------------------------------------------------------------------
(* Types.                                                                    *)

LEMMA ToldType ==
    ASSUME CallsOK, NEW cs, NEW answer \in {"ok", "refused"}
    PROVE  /\ Told(cs, answer) \in [Call -> {"none", "ok", "refused"}]
           /\ \A c \in Call : Told(cs, answer)[c] # result[c] => c \in cs /\ Told(cs, answer)[c] = answer
BY DEF CallsOK, Told

LEMMA Queued ==
    ASSUME line \in Seq(Call), NEW c \in Call, line' = Append(line, c)
    PROVE  /\ line' \in Seq(Call) /\ Len(line') = Len(line) + 1
           /\ line'[Len(line) + 1] = c
           /\ \A p \in 1..Len(line) : line'[p] = line[p]
OBVIOUS

LEMMA ItemType ==
    ASSUME TypeOK
    PROVE  /\ \A p \in 1..Len(line) : line[p] \in Call /\ Kinds(p) \in {"append", "transact", "write", "flush", "end"}
           /\ (Working \/ settled < taken) => settled + 1 \in 1..Len(line) /\ Item \in Call /\ Kinds(settled + 1) = KindOf[Item]
<1>1. \A p \in 1..Len(line) : line[p] \in Call
  BY DEF TypeOK, LineOK
<1>2. (Working \/ settled < taken) => settled + 1 \in 1..Len(line)
  BY DEF TypeOK, LineOK, Working
<1> QED BY <1>1, <1>2, WriterConstants DEF Item, Kinds

(* The phases a transition gives.                                            *)
LEMMA PhaseType ==
    ASSUME CallsOK
    PROVE  /\ \A stop \in {"Failed", "Closed"} : Latched(phase, stop) \in Phase
           /\ \A c, ok : EndSettled(phase, c, ok) \in Phase
           /\ \A c : Withdrawn(phase, c) \in Phase
           /\ AfterFailure \in Phase
<1>1. \A stop \in {"Failed", "Closed"} : Latched(phase, stop) \in Phase
  BY DEF CallsOK, Latched, Phase
<1>2. \A c, ok : EndSettled(phase, c, ok) \in Phase
  BY DEF CallsOK, EndSettled, Phase
<1>3. \A c : Withdrawn(phase, c) \in Phase
  BY DEF CallsOK, Withdrawn, Phase
<1>4. AfterFailure \in Phase
  BY <1>1, <1>2 DEF AfterFailure, CallsOK
<1> QED BY <1>1, <1>2, <1>3, <1>4

LEMMA CallsType == TypeOK /\ [Next]_vars => CallsOK'
<1> SUFFICES ASSUME TypeOK, [Next]_vars PROVE CallsOK'
  OBVIOUS
<1> USE WriterConstants, ToldType, PhaseType, ItemType DEF TypeOK
<1>1. ASSUME NEW c \in Call, Calls(c) PROVE CallsOK'
  <2>1. CASE Admits(c)
    BY <2>1 DEF Admits, CallsOK, Step, Phase, queueVars
  <2>2. CASE Shares(c)
    BY <2>2 DEF Shares, CallsOK, Step, queueVars
  <2>3. CASE Refuses(c)
    BY <2>3 DEF Refuses, CallsOK, Step, queueVars
  <2>4. CASE Queues(c)
    BY <2>4 DEF Queues, CallsOK, Step
  <2>5. CASE OfferRefused(c)
    BY <2>5 DEF OfferRefused, CallsOK, Step, queueVars
  <2>6. CASE Leaves(c) \/ LeavesQueued(c)
    BY <2>6 DEF Leaves, LeavesQueued, CallsOK, Step, queueVars
  <2> QED BY <1>1, <2>1, <2>2, <2>3, <2>4, <2>5, <2>6 DEF Calls, GoesOn, Offers
<1>2. CASE ClosedHere
  BY <1>2 DEF ClosedHere, CloseBy, CallsOK, callVars, queueVars
<1>3. CASE Takes \/ BeginsAppends \/ Begins
  BY <1>3 DEF Takes, BeginsAppends, Begins, CallsOK, callVars
<1>4. CASE RefusesItem \/ AnswersFlush \/ RunEnds
  BY <1>4 DEF RefusesItem, AnswersFlush, RunEnds, Settles, AtItem, CallsOK, callVars
<1>5. CASE CommitStored \/ CommitFails \/ FoundClosed
  <2>1. CASE CommitStored
    BY <2>1 DEF CommitStored, CallsOK, callVars
  <2>2. CASE CommitFails
    BY <2>2 DEF CommitFails, CallsOK, callVars
  <2>3. CASE FoundClosed
    BY <2>3 DEF FoundClosed, CloseBy, CallsOK, callVars
  <2> QED BY <1>5, <2>1, <2>2, <2>3
<1>6. CASE ScopeCloses \/ ScopeTimesOut
  BY <1>6 DEF ScopeCloses, ScopeTimesOut, CallsOK, Step, Over, queueVars
<1>7. CASE Seals \/ ShutsDown \/ RefusesWaiting
  <2>1. CASE Seals
    BY <2>1 DEF Seals, CallsOK, Over, callVars, queueVars
  <2>2. CASE ShutsDown
    BY <2>2 DEF ShutsDown, CallsOK, Over, callVars
  <2>3. CASE RefusesWaiting
    BY <2>3 DEF RefusesWaiting, CallsOK, Over, callVars, queueVars
  <2> QED BY <1>7, <2>1, <2>2, <2>3
<1>8. CASE UNCHANGED vars
  BY <1>8 DEF vars, CallsOK, callVars, queueVars
<1> QED BY <1>1, <1>2, <1>3, <1>4, <1>5, <1>6, <1>7, <1>8 DEF Next, Consumes, Scope

LEMMA LineType == TypeOK /\ [Next]_vars => LineOK'
<1> SUFFICES ASSUME TypeOK, [Next]_vars PROVE LineOK'
  OBVIOUS
<1> USE DEF TypeOK
<1>1. ASSUME UNCHANGED <<line, taken, settled, upTo, stored>> PROVE LineOK'
  BY <1>1 DEF LineOK, Working, Kinds
<1>2. ASSUME NEW c \in Call, line' = Append(line, c), UNCHANGED <<taken, settled, upTo, stored>> PROVE LineOK'
  <2>1. /\ line' \in Seq(Call) /\ Len(line') = Len(line) + 1
        /\ \A p \in 1..Len(line) : line'[p] = line[p]
    BY <1>2, Queued DEF LineOK
  <2>2. \A p \in 1..Len(line) : Kinds(p)' = Kinds(p)
    BY <2>1 DEF Kinds
  <2> QED BY <1>2, <2>1, <2>2 DEF LineOK, Working
<1>3. CASE Takes
  <2>1. taken' \in Nat /\ taken <= taken' /\ taken' <= Len(line)
    BY <1>3, WriterConstants DEF Takes, Smaller, LineOK
  <2> QED BY <1>3, <2>1 DEF Takes, LineOK, Working, Kinds
<1>4. CASE BeginsAppends
  <2>1. PICK k \in (settled + 1)..taken : Group(k) /\ upTo' = k /\ settled' = IF Stopped(phase) THEN k ELSE settled
    BY <1>4 DEF BeginsAppends
  <2>2. Kinds(settled + 1) = "append" /\ \A p \in (settled + 1)..k : Kinds(p) = "append"
    BY <2>1 DEF Group, Kinds, LineOK
  <2> QED BY <1>4, <2>1, <2>2 DEF BeginsAppends, LineOK, Working, Kinds
<1>5. CASE Begins
  BY <1>5, ItemType DEF Begins, AtItem, LineOK, Working, Kinds, Item
<1>6. CASE RefusesItem \/ AnswersFlush \/ RunEnds
  <2>1. settled + 1 <= taken
    BY <1>6 DEF RefusesItem, AnswersFlush, RunEnds, AtItem, Working, LineOK
  <2>2. settled' = settled + 1 /\ upTo' = settled + 1 /\ UNCHANGED <<line, taken, stored>>
    BY <1>6 DEF RefusesItem, AnswersFlush, RunEnds, Settles
  <2> QED BY <2>1, <2>2 DEF LineOK, Working, Kinds
<1>7. CASE CommitStored
  <2>1. \A p \in (settled + 1)..upTo : Kinds(p) \in CommitKind
    BY <1>7 DEF CommitStored, Committing, LineOK, CommitKind, Kinds, Item
  <2>2. settled' = upTo /\ stored' = stored \cup ((settled + 1)..upTo) /\ UNCHANGED <<line, taken, upTo>>
    BY <1>7 DEF CommitStored
  <2>3. stored' \in SUBSET (1..settled')
    BY <2>2 DEF LineOK
  <2>4. ~Working'
    BY <2>2 DEF LineOK, Working
  <2> QED BY <2>1, <2>2, <2>3, <2>4 DEF LineOK, Kinds
<1>8. CASE CommitFails \/ FoundClosed
  <2>1. settled' = upTo /\ UNCHANGED <<line, taken, upTo, stored>>
    BY <1>8 DEF CommitFails, FoundClosed
  <2>2. ~Working'
    BY <2>1 DEF LineOK, Working
  <2>3. stored' \in SUBSET (1..settled')
    BY <2>1 DEF LineOK
  <2> QED BY <2>1, <2>2, <2>3 DEF LineOK, Kinds
<1>9. ASSUME NEW c \in Call, Calls(c) PROVE LineOK'
  <2>1. CASE Queues(c) \/ LeavesQueued(c)
    BY <2>1, <1>2 DEF Queues, LeavesQueued
  <2>2. CASE ~(Queues(c) \/ LeavesQueued(c))
    BY <2>2, <1>1, <1>9 DEF Calls, GoesOn, Offers, Admits, Shares, Refuses, OfferRefused, Leaves, queueVars
  <2> QED BY <2>1, <2>2
<1>10. CASE ClosedHere \/ Scope \/ UNCHANGED vars
  BY <1>10, <1>1 DEF ClosedHere, Scope, ScopeCloses, ScopeTimesOut, Seals, ShutsDown, RefusesWaiting, vars, queueVars
<1> QED BY <1>3, <1>4, <1>5, <1>6, <1>7, <1>8, <1>9, <1>10 DEF Next, Consumes

(* The writer's calls, its line and the consumer keep their types.           *)
THEOREM WriterTypeCorrect == Spec => []TypeOK
<1>1. Init => TypeOK
  <2>1. Init => CallsOK
    BY WriterConstants DEF Init, CallsOK, Phase, Step, Over
  <2>2. Init => LineOK
    BY DEF Init, LineOK, Working
  <2> QED BY <2>1, <2>2 DEF TypeOK
<1>2. TypeOK /\ [Next]_vars => TypeOK'
  BY CallsType, LineType DEF TypeOK
<1> QED BY <1>1, <1>2, PTL DEF Spec

-----------------------------------------------------------------------------
(* The line only grows, at its end, by the permit's holder.                  *)

LEMMA LineGrows ==
    ASSUME TypeOK, [Next]_vars
    PROVE  /\ Len(line) <= Len(line')
           /\ \A p \in 1..Len(line) : line'[p] = line[p] /\ Kinds(p)' = Kinds(p)
           /\ line' # line => /\ holder \in Call /\ holder' = NoCall
                             /\ Len(line') = Len(line) + 1 /\ line'[Len(line) + 1] = holder
                             /\ UNCHANGED <<last, settled, upTo, stored>>
<1>1. ASSUME UNCHANGED line
      PROVE  Len(line) <= Len(line') /\ \A p \in 1..Len(line) : line'[p] = line[p] /\ Kinds(p)' = Kinds(p)
  BY <1>1 DEF Kinds, TypeOK, LineOK
<1>2. ASSUME NEW c \in Call, Queues(c) \/ LeavesQueued(c)
      PROVE  /\ holder = c /\ holder' = NoCall /\ UNCHANGED <<last, settled, upTo, stored>>
             /\ Len(line') = Len(line) + 1 /\ line'[Len(line) + 1] = c
             /\ \A p \in 1..Len(line) : line'[p] = line[p] /\ Kinds(p)' = Kinds(p)
  <2>1. line' = Append(line, c) /\ holder = c /\ holder' = NoCall /\ UNCHANGED <<last, settled, upTo, stored>>
    BY <1>2 DEF Queues, LeavesQueued
  <2> QED BY <2>1, Queued DEF TypeOK, LineOK, Kinds
<1>3. (\E c \in Call : Queues(c) \/ LeavesQueued(c)) \/ UNCHANGED line
  BY DEF Next, Calls, GoesOn, Offers, Admits, Shares, Refuses, OfferRefused, Leaves, ClosedHere, Consumes, Takes, BeginsAppends,
         Begins, RefusesItem, AnswersFlush, RunEnds, Settles, CommitStored, CommitFails, FoundClosed,
         Scope, ScopeCloses, ScopeTimesOut, Seals, ShutsDown, RefusesWaiting, vars, queueVars
<1>4. Len(line) \in Nat
  BY DEF TypeOK, LineOK
<1> QED BY <1>1, <1>2, <1>3, <1>4

LEMMA OnceKept == TypeOK /\ QueuedOnce /\ [Next]_vars => QueuedOnce'
<1> SUFFICES ASSUME TypeOK, QueuedOnce, [Next]_vars PROVE QueuedOnce'
  OBVIOUS
<1> USE WriterConstants
(* Steps that leave the line, and those of the calls that are in it.         *)
<1>1. ASSUME UNCHANGED line, \A p \in 1..Len(line) : step'[line[p]] = step[line[p]]
      PROVE  /\ \A p \in 1..Len(line') : step'[line'[p]] \in {"awaiting", "gone"}
             /\ \A p, q \in 1..Len(line') : line'[p] = line'[q] => p = q
  BY <1>1 DEF QueuedOnce
<1>2. ASSUME NEW c \in Call, Calls(c) PROVE QueuedOnce'
  <2>1. CASE Admits(c)
    <3>1. \A p \in 1..Len(line) : step'[line[p]] = step[line[p]]
      BY <2>1, ItemType DEF Admits, AtPermit, QueuedOnce, TypeOK, CallsOK
    <3> QED BY <2>1, <3>1, <1>1 DEF Admits, AtPermit, QueuedOnce, TypeOK, CallsOK, queueVars
  <2>2. CASE Shares(c) \/ Refuses(c)
    <3>1. step[c] = "called" /\ step' = [step EXCEPT ![c] = "awaiting"] /\ UNCHANGED <<holder, line, scope>>
      BY <2>2 DEF Shares, Refuses, AtPermit, queueVars
    <3>2. \A p \in 1..Len(line) : step'[line[p]] = step[line[p]]
      BY <3>1, ItemType DEF QueuedOnce, TypeOK, CallsOK
    <3>3. \A d \in Call : d # c => result'[d] = result[d]
      BY <2>2, ToldType DEF Shares, Refuses, TypeOK
    <3>4. \A d \in Call : step'[d] \in {"idle", "called", "offering"} => result'[d] # "ok"
      BY <3>1, <3>3 DEF QueuedOnce, TypeOK, CallsOK
    <3> QED BY <3>1, <3>2, <3>4, <1>1 DEF QueuedOnce, TypeOK, CallsOK
  <2>3. CASE Queues(c) \/ LeavesQueued(c)
    <3>1. /\ holder = c /\ holder' = NoCall /\ line' = Append(line, c) /\ scope' = scope
          /\ step' = [step EXCEPT ![c] = step'[c]] /\ step'[c] \in {"awaiting", "gone"}
      BY <2>3 DEF Queues, LeavesQueued, TypeOK, CallsOK
    <3>2. \A p \in 1..Len(line) : line[p] # c
      BY <3>1 DEF QueuedOnce
    <3>3. \A p \in 1..Len(line') : step'[line'[p]] \in {"awaiting", "gone"}
      BY <3>1, <3>2, Queued, ItemType DEF QueuedOnce, TypeOK, CallsOK, LineOK
    <3>4. \A p, q \in 1..Len(line') : line'[p] = line'[q] => p = q
      BY <3>1, <3>2, Queued DEF QueuedOnce, TypeOK, LineOK
    <3>5. \A d \in Call : d # c => result'[d] = result[d]
      BY <2>3, ToldType DEF Queues, LeavesQueued, TypeOK
    <3>6. \A d \in Call : step'[d] \in {"idle", "called", "offering"} => result'[d] # "ok"
      BY <3>1, <3>5 DEF QueuedOnce, TypeOK, CallsOK
    <3> QED BY <3>1, <3>3, <3>4, <3>6 DEF QueuedOnce, TypeOK, CallsOK
  <2>4. CASE OfferRefused(c) \/ Leaves(c)
    <3>1. /\ holder = c /\ holder' = NoCall /\ UNCHANGED <<line, scope>>
          /\ step' = [step EXCEPT ![c] = step'[c]] /\ step'[c] \in {"awaiting", "gone"}
      BY <2>4 DEF OfferRefused, Leaves, queueVars, TypeOK, CallsOK
    <3>2. \A p \in 1..Len(line) : step'[line[p]] = step[line[p]]
      BY <3>1, ItemType DEF QueuedOnce, TypeOK, CallsOK
    <3>3. \A d \in Call : d # c => result'[d] = result[d]
      BY <2>4, ToldType DEF OfferRefused, Leaves, TypeOK
    <3>4. \A d \in Call : step'[d] \in {"idle", "called", "offering"} => result'[d] # "ok"
      BY <3>1, <3>3 DEF QueuedOnce, TypeOK, CallsOK
    <3> QED BY <3>1, <3>2, <3>4, <1>1 DEF QueuedOnce, TypeOK, CallsOK
  <2> QED BY <1>2, <2>1, <2>2, <2>3, <2>4 DEF Calls, GoesOn, Offers
(* Steps that only tell callers: those refused, and the item's own.          *)
<1>3. ASSUME UNCHANGED <<line, holder, step, scope>>,
             \A c \in Call : result'[c] = "ok" => result[c] = "ok" \/ \E p \in 1..Len(line) : line[p] = c
      PROVE  QueuedOnce'
  BY <1>3, <1>1 DEF QueuedOnce
<1>4. CASE ClosedHere \/ RefusesWaiting \/ Seals \/ ShutsDown
  <2>1. \A c \in Call : result'[c] = "ok" => result[c] = "ok"
    BY <1>4, ToldType DEF ClosedHere, CloseBy, RefusesWaiting, Seals, ShutsDown, TypeOK
  <2>2. UNCHANGED <<line, holder, step>> /\ (scope' = "open" => scope = "open")
    BY <1>4 DEF ClosedHere, RefusesWaiting, Seals, ShutsDown, queueVars, callVars
  <2> QED BY <2>1, <2>2, <1>1 DEF QueuedOnce
<1>5. CASE Consumes
  <2>1. UNCHANGED <<line, holder, step, scope>>
    BY <1>5 DEF Consumes, Takes, BeginsAppends, Begins, RefusesItem, AnswersFlush, RunEnds, Settles, CommitStored, CommitFails, FoundClosed, callVars
  <2>2. ASSUME NEW c \in Call, result'[c] = "ok", result[c] # "ok" PROVE \E p \in 1..Len(line) : line[p] = c
    <3>1. CASE Takes \/ BeginsAppends \/ Begins
      BY <2>2, <3>1 DEF Takes, BeginsAppends, Begins
    <3>2. CASE RefusesItem \/ AnswersFlush \/ RunEnds
      <4>1. (Working \/ settled < taken) /\ \E answer \in {"ok", "refused"} : result' = Told({Item}, answer)
        BY <3>2 DEF RefusesItem, AnswersFlush, RunEnds, Settles, AtItem
      <4> QED BY <2>2, <4>1, ToldType, ItemType DEF Item, TypeOK
    <3>3. CASE CommitStored \/ CommitFails
      <4>1. Working /\ \E answer \in {"ok", "refused"} : result' = Told({Item}, answer)
        BY <3>3 DEF CommitStored, CommitFails, Committing
      <4> QED BY <2>2, <4>1, ToldType, ItemType DEF Item, TypeOK
    <3>4. CASE FoundClosed
      <4>1. \E cs : result' = Told(cs, "refused")
        BY <3>4 DEF FoundClosed, CloseBy
      <4> QED BY <2>2, <4>1, ToldType DEF TypeOK
    <3> QED BY <1>5, <3>1, <3>2, <3>3, <3>4 DEF Consumes
  <2> QED BY <2>1, <2>2, <1>3
<1>6. CASE ScopeCloses \/ ScopeTimesOut
  <2>1. /\ step' = [step EXCEPT ![ScopeEnd] = step'[ScopeEnd]] /\ step'[ScopeEnd] \in {step[ScopeEnd], "called", "gone"}
        /\ step'[ScopeEnd] # step[ScopeEnd] => step[ScopeEnd] # "offering" /\ (step[ScopeEnd] = "idle" \/ step'[ScopeEnd] = "gone")
        /\ UNCHANGED <<line, holder, result>> /\ scope' # "open"
    BY <1>6 DEF ScopeCloses, ScopeTimesOut, queueVars, TypeOK, CallsOK, QueuedOnce
  <2>2. \A p \in 1..Len(line) : step'[line[p]] \in {"awaiting", "gone"}
    BY <2>1, ItemType DEF QueuedOnce, TypeOK, CallsOK
  <2>3. \A c \in Call : step'[c] \in {"idle", "called", "offering"} => result'[c] # "ok"
    BY <2>1 DEF QueuedOnce, TypeOK, CallsOK
  <2> QED BY <2>1, <2>2, <2>3 DEF QueuedOnce, TypeOK, CallsOK
<1>7. CASE UNCHANGED vars
  BY <1>7, <1>1 DEF QueuedOnce, vars, callVars, queueVars
<1> QED BY <1>2, <1>4, <1>5, <1>6, <1>7 DEF Next, Scope
-----------------------------------------------------------------------------
(* What a step of the consumer's, and of the phase, may be.                  *)

(* The consumer goes forward and stores no more than what it is done with.   *)
LEMMA Forward ==
    ASSUME TypeOK, [Next]_vars
    PROVE  /\ settled' \in Nat /\ settled <= settled' /\ settled' <= Len(line)
           /\ stored \subseteq stored' /\ stored' \subseteq stored \cup ((settled + 1)..settled')
           /\ withdrawn \subseteq withdrawn'
           /\ Stopped(phase) => Stopped(phase')
<1> USE WriterConstants DEF TypeOK, LineOK
<1>1. CASE \E c \in Call : Calls(c)
  BY <1>1 DEF Calls, GoesOn, Offers, Admits, Shares, Refuses, Queues, OfferRefused, Leaves, LeavesQueued, Withdrawn, Admissible, Stopped, queueVars
<1>2. CASE ClosedHere \/ Scope \/ UNCHANGED vars
  BY <1>2 DEF ClosedHere, CloseBy, Latched, Live, Scope, ScopeCloses, ScopeTimesOut, Seals, ShutsDown, RefusesWaiting, Stopped, vars, queueVars
<1>3. CASE Takes \/ BeginsAppends \/ Begins
  BY <1>3 DEF Takes, BeginsAppends, Begins
<1>4. CASE RefusesItem \/ AnswersFlush \/ RunEnds
  BY <1>4 DEF RefusesItem, AnswersFlush, RunEnds, Settles, AtItem, Working
<1>5. CASE CommitStored
  BY <1>5 DEF CommitStored, EndSettled, Stopped, Live
<1>6. CASE CommitFails \/ FoundClosed
  BY <1>6 DEF CommitFails, AfterFailure, FoundClosed, CloseBy, Latched, EndSettled, Stopped, Live
<1> QED BY <1>1, <1>2, <1>3, <1>4, <1>5, <1>6 DEF Next, Consumes

(* Who seals admission, reopens it or ends the turn.                         *)
LEMMA PhaseMoves ==
    ASSUME TypeOK, [Next]_vars
    PROVE  /\ phase' = "Ending" /\ phase # "Ending" => \E c \in Call : Admits(c) /\ KindOf[c] = "end"
           /\ phase' = "Open" /\ phase # "Open" =>
                \/ phase = "Ending" /\ \E c \in Call : KindOf[c] = "end" /\ (Leaves(c) \/ LeavesQueued(c))
                \/ phase = "Ending" /\ CommitFails /\ Item = last /\ KindOf[Item] = "end"
           /\ phase' = "Ended" /\ phase # "Ended" => CommitStored /\ KindOf[Item] = "end"
           /\ last' # last => \E c \in Call : Admits(c) /\ KindOf[c] = "end"
<1>1. ASSUME NEW c \in Call, Calls(c)
      PROVE  /\ phase' = "Ending" /\ phase # "Ending" => Admits(c) /\ KindOf[c] = "end"
             /\ phase' = "Open" /\ phase # "Open" => phase = "Ending" /\ KindOf[c] = "end" /\ (Leaves(c) \/ LeavesQueued(c))
             /\ phase' = "Ended" => phase = "Ended"
             /\ last' # last => Admits(c) /\ KindOf[c] = "end"
  BY <1>1 DEF Calls, GoesOn, Offers, Admits, Shares, Refuses, Queues, OfferRefused, Leaves, LeavesQueued, Withdrawn
<1>2. CASE ClosedHere \/ Scope \/ UNCHANGED vars
  BY <1>2 DEF ClosedHere, CloseBy, Latched, Live, Scope, ScopeCloses, ScopeTimesOut, Seals, ShutsDown, RefusesWaiting, vars
<1>3. CASE Takes \/ BeginsAppends \/ Begins \/ RefusesItem \/ AnswersFlush \/ RunEnds
  BY <1>3 DEF Takes, BeginsAppends, Begins, RefusesItem, AnswersFlush, RunEnds, Settles
<1>4. CASE CommitStored
  BY <1>4 DEF CommitStored, EndSettled
<1>5. CASE CommitFails \/ FoundClosed
  BY <1>5 DEF CommitFails, AfterFailure, FoundClosed, CloseBy, Latched, EndSettled, Live
<1> QED BY <1>1, <1>2, <1>3, <1>4, <1>5 DEF Next, Consumes

(* While the writer stays Ending, the end begun last is not settled.         *)
LEMMA EndNotPassed ==
    ASSUME TypeOK, EndsBegun, [Next]_vars, phase = "Ending", phase' = "Ending", last' = last,
           NEW p \in (settled + 1)..settled'
    PROVE  line[p] # last
<1> USE DEF TypeOK, LineOK
<1>1. KindOf[last] = "end"
  BY DEF EndsBegun
<1>2. CASE \E c \in Call : Calls(c)
  BY <1>2 DEF Calls, GoesOn, Offers, Admits, Shares, Refuses, Queues, OfferRefused, Leaves, LeavesQueued, queueVars
<1>3. CASE ClosedHere \/ Scope \/ UNCHANGED vars \/ Takes \/ Begins \/ BeginsAppends
  BY <1>3 DEF ClosedHere, CloseBy, Scope, ScopeCloses, ScopeTimesOut, Seals, ShutsDown, RefusesWaiting, Takes, Begins,
              BeginsAppends, Stopped, vars, queueVars
<1>4. CASE RefusesItem \/ AnswersFlush \/ RunEnds
  <2>1. p = settled + 1
    BY <1>4 DEF RefusesItem, AnswersFlush, RunEnds, Settles
  <2>2. KindOf[Item] # "end"
    BY <1>4 DEF RefusesItem, NotBegun, AnswersFlush, RunEnds, AtItem, Stopped
  <2> QED BY <1>1, <2>1, <2>2 DEF Item
<1>5. CASE CommitStored \/ CommitFails \/ FoundClosed
  <2>1. Working /\ settled' = upTo /\ ~FoundClosed
    BY <1>5 DEF CommitStored, CommitFails, FoundClosed, Committing, CloseBy, Latched, Live
  <2>2. CASE KindOf[Item] = "append"
    <3>1. Kinds(p) = "append"
      BY <2>1, <2>2, ItemType DEF Item, Kinds
    <3> QED BY <3>1, <1>1 DEF Kinds
  <2>3. CASE KindOf[Item] # "append"
    <3>1. p = settled + 1
      BY <2>1, <2>3 DEF Item, Kinds
    <3>2. Item # last
      BY <1>1, <1>5, <2>1 DEF CommitStored, CommitFails, AfterFailure, EndSettled, Live
    <3> QED BY <3>1, <3>2 DEF Item
  <2> QED BY <2>2, <2>3
<1> QED BY <1>2, <1>3, <1>4, <1>5 DEF Next, Consumes
-----------------------------------------------------------------------------
(* Admission and the end.                                                    *)

LEMMA EndsBegunKept == TypeOK /\ QueuedOnce /\ EndsBegun /\ [Next]_vars => EndsBegun'
<1> SUFFICES ASSUME TypeOK, QueuedOnce, EndsBegun, [Next]_vars PROVE EndsBegun'
  OBVIOUS
<1> USE WriterConstants DEF EndsBegun
<1>1. ASSUME NEW c \in Call, Calls(c) PROVE EndsBegun'
  <2>1. CASE Admits(c)
    BY <2>1 DEF Admits, Admissible, Live, queueVars
  <2>2. CASE Shares(c) \/ Refuses(c)
    BY <2>2 DEF Shares, Refuses, queueVars
  <2>3. CASE Queues(c) \/ OfferRefused(c)
    BY <2>3 DEF Queues, OfferRefused, queueVars
  <2>4. CASE Leaves(c) \/ LeavesQueued(c)
    BY <2>4 DEF Leaves, LeavesQueued, Withdrawn, Live, queueVars
  <2> QED BY <1>1, <2>1, <2>2, <2>3, <2>4 DEF Calls, GoesOn, Offers
<1>2. CASE ClosedHere \/ RefusesWaiting \/ UNCHANGED vars
  BY <1>2 DEF ClosedHere, CloseBy, Latched, Live, RefusesWaiting, Over, vars, callVars, queueVars
<1>3. CASE ScopeCloses \/ ScopeTimesOut \/ Seals \/ ShutsDown
  BY <1>3 DEF ScopeCloses, ScopeTimesOut, Seals, ShutsDown, Latched, Live, Over, callVars, queueVars
<1>4. CASE Takes \/ BeginsAppends \/ Begins \/ RefusesItem \/ AnswersFlush \/ RunEnds
  BY <1>4 DEF Takes, BeginsAppends, Begins, RefusesItem, AnswersFlush, RunEnds, Settles, callVars
<1>5. CASE CommitStored \/ CommitFails \/ FoundClosed
  <2>1. UNCHANGED <<last, holder, scope, shut>>
    BY <1>5 DEF CommitStored, CommitFails, FoundClosed, callVars
  <2>2. Live(phase') => Live(phase)
    BY <1>5 DEF CommitStored, CommitFails, AfterFailure, FoundClosed, CloseBy, Latched, EndSettled, Live
  <2>3. phase' = "Ending" => phase = "Ending"
    BY <2>1, PhaseMoves, <1>5 DEF CommitStored, CommitFails, AfterFailure, FoundClosed, CloseBy, Latched, EndSettled, Live
  <2>4. ASSUME holder # NoCall, KindOf[holder] = "end" PROVE phase' # "Open"
    <3>1. step[holder] = "offering" /\ holder = last /\ phase # "Open"
      BY <2>4 DEF QueuedOnce
    <3>2. settled + 1 \in 1..Len(line)
      BY <1>5, ItemType DEF CommitStored, CommitFails, FoundClosed, Committing
    <3>3. Item # last
      BY <3>1, <3>2 DEF QueuedOnce, Item
    <3>4. CASE CommitStored \/ FoundClosed
      BY <3>1, <3>3, <3>4 DEF CommitStored, FoundClosed, CloseBy, Latched, EndSettled
    <3>5. CASE CommitFails
      BY <3>1, <3>3, <3>5 DEF CommitFails, AfterFailure, Latched, EndSettled
    <3> QED BY <1>5, <3>4, <3>5
  <2> QED BY <2>1, <2>2, <2>3, <2>4
<1> QED BY <1>1, <1>2, <1>3, <1>4, <1>5 DEF Next, Consumes, Scope

(* An item stored has the kind of a commit; what is behind an end that seals *)
(* is not one.                                                               *)
LEMMA EndsSealKept == TypeOK /\ QueuedOnce /\ EndsBegun /\ EndsSeal /\ [Next]_vars => EndsSeal'
<1> SUFFICES ASSUME TypeOK, QueuedOnce, EndsBegun, EndsSeal, [Next]_vars,
                    NEW p \in 1..Len(line'), Standing(p)'
             PROVE  /\ phase' # "Open"
                    /\ phase' = "Ending" => p > settled' /\ last' = line'[p]
                    /\ \A q \in (p + 1)..Len(line') : Kinds(q)' = "flush"
                    /\ holder' # NoCall => KindOf[holder'] = "flush"
  BY DEF EndsSeal
<1> USE WriterConstants
<1>1. CASE p > Len(line)
  <2>1. /\ p = Len(line') /\ line' # line
        /\ holder \in Call /\ holder' = NoCall /\ line'[p] = holder /\ UNCHANGED <<last, settled, upTo, stored>>
    BY <1>1, LineGrows DEF TypeOK, LineOK
  <2>2. KindOf[holder] = "end" /\ last = holder /\ phase # "Open"
    BY <2>1 DEF Standing, Kinds, EndsBegun
  <2>3. PICK c \in Call : Queues(c) \/ LeavesQueued(c)
    BY <2>1 DEF Next, Calls, GoesOn, Offers, Admits, Shares, Refuses, OfferRefused, Leaves, ClosedHere, Consumes, Takes, BeginsAppends,
         Begins, RefusesItem, AnswersFlush, RunEnds, Settles, CommitStored, CommitFails, FoundClosed,
         Scope, ScopeCloses, ScopeTimesOut, Seals, ShutsDown, RefusesWaiting, vars, queueVars
  <2>4. Queues(c)
    BY <2>1, <2>3 DEF LeavesQueued, Standing
  <2>5. phase' = phase
    BY <2>4 DEF Queues
  <2>6. settled' < p
    BY <2>1, <1>1 DEF TypeOK, LineOK
  <2>7. (p + 1)..Len(line') = {}
    BY <2>1 DEF TypeOK, LineOK
  <2> QED BY <2>1, <2>2, <2>5, <2>6, <2>7
<1>2. CASE p <= Len(line)
  <2>1. p \in 1..Len(line) /\ line'[p] = line[p] /\ Kinds(p)' = Kinds(p)
    BY <1>2, LineGrows DEF TypeOK, LineOK
  <2>2. Standing(p)
    <3>1. Kinds(p) = "end" /\ line[p] \notin withdrawn /\ (p \in stored' \/ p > settled')
      BY <2>1, Forward DEF Standing
    <3>2. p \in stored \/ p > settled
      BY <3>1, Forward DEF TypeOK, LineOK
    <3> QED BY <3>1, <3>2 DEF Standing
  <2>3. /\ phase # "Open"
        /\ phase = "Ending" => p > settled /\ last = line[p]
        /\ \A q \in (p + 1)..Len(line) : Kinds(q) = "flush"
        /\ holder # NoCall => KindOf[holder] = "flush"
    BY <2>1, <2>2 DEF EndsSeal
  <2>4. \A c \in Call : ~(Admits(c) /\ KindOf[c] = "end")
    BY <2>3 DEF Admits, Admissible
  <2>5. phase' # "Open"
    <3>1. ASSUME CommitFails, phase = "Ending", Item = last PROVE FALSE
      <4>1. settled + 1 \in 1..Len(line) /\ line[settled + 1] = line[p]
        BY <3>1, <2>3, ItemType DEF CommitFails, Committing, Item
      <4>2. p = settled + 1
        BY <4>1, <2>1 DEF QueuedOnce
      <4>3. settled' >= p /\ stored' = stored /\ p \notin stored
        BY <3>1, <4>2 DEF CommitFails, Committing, Working, TypeOK, LineOK
      <4> QED BY <4>3, Forward DEF Standing, TypeOK, LineOK
    <3>2. \A c \in Call : ~(KindOf[c] = "end" /\ (Leaves(c) \/ LeavesQueued(c)))
      BY <2>3 DEF Leaves, LeavesQueued
    <3> QED BY <2>3, <3>1, <3>2, PhaseMoves
  <2>6. ASSUME phase' = "Ending" PROVE p > settled' /\ last' = line'[p]
    <3>1. phase = "Ending" /\ last' = last
      BY <2>4, <2>6, PhaseMoves
    <3>2. p > settled /\ last = line[p]
      BY <2>3, <3>1
    <3>3. p \notin (settled + 1)..settled'
      BY <2>6, <3>1, <3>2, EndNotPassed
    <3> QED BY <2>1, <3>1, <3>2, <3>3, Forward DEF TypeOK, LineOK
  <2>7. ASSUME NEW q \in (p + 1)..Len(line') PROVE Kinds(q)' = "flush"
    <3>1. CASE q \in 1..Len(line)
      BY <3>1, <2>3, LineGrows DEF TypeOK, LineOK
    <3>2. CASE q \notin 1..Len(line)
      <4>1. line' # line /\ q = Len(line) + 1
        BY <3>2, LineGrows DEF TypeOK, LineOK
      <4> QED BY <4>1, <2>3, LineGrows DEF Kinds
    <3> QED BY <3>1, <3>2
  <2>8. ASSUME holder' # NoCall PROVE KindOf[holder'] = "flush"
    <3>1. CASE \E c \in Call : Admits(c)
      BY <3>1, <2>3 DEF Admits, Admissible
    <3>2. CASE ~\E c \in Call : Admits(c)
      <4>1. holder' = holder \/ holder' = NoCall
        BY <3>2 DEF Next, Calls, GoesOn, Offers, Shares, Refuses, Queues, LeavesQueued, OfferRefused, Leaves, ClosedHere, Consumes, Takes,
             BeginsAppends, Begins, RefusesItem, AnswersFlush, RunEnds, Settles, CommitStored, CommitFails, FoundClosed,
             Scope, ScopeCloses, ScopeTimesOut, Seals, ShutsDown, RefusesWaiting, vars, callVars
      <4> QED BY <4>1, <2>3, <2>8
    <3> QED BY <3>1, <3>2
  <2> QED BY <2>5, <2>6, <2>7, <2>8
<1> QED BY <1>1, <1>2 DEF TypeOK, LineOK

LEMMA EndedIsStoredKept == TypeOK /\ EndedIsStored /\ [Next]_vars => EndedIsStored'
<1> SUFFICES ASSUME TypeOK, EndedIsStored, [Next]_vars, phase' = "Ended"
             PROVE  \E p \in stored' : Kinds(p)' = "end"
  BY DEF EndedIsStored
<1>1. CASE phase = "Ended"
  <2>1. PICK p \in stored : Kinds(p) = "end"
    BY <1>1 DEF EndedIsStored
  <2>2. p \in 1..Len(line)
    BY DEF TypeOK, LineOK
  <2> QED BY <2>1, <2>2, LineGrows, Forward
<1>2. CASE phase # "Ended"
  <2>1. CommitStored /\ KindOf[Item] = "end"
    BY <1>2, PhaseMoves
  <2>2. settled + 1 \in stored' /\ line' = line
    BY <2>1 DEF CommitStored, Committing, Working, TypeOK, LineOK
  <2> QED BY <2>1, <2>2 DEF Kinds, Item
<1> QED BY <1>1, <1>2
-----------------------------------------------------------------------------
(* What the store holds.                                                     *)

LEMMA KeptStays ==
    ASSUME TypeOK, [Next]_vars, NEW q \in 1..Len(line)
    PROVE  /\ Kept(q) => Kept(q)'
           /\ BehindWithdrawnEnd(q) => BehindWithdrawnEnd(q)'
<1>1. ASSUME BehindWithdrawnEnd(q) PROVE BehindWithdrawnEnd(q)'
  <2>1. PICK e \in stored : e < q /\ line[e] \in withdrawn
    BY <1>1 DEF BehindWithdrawnEnd
  <2>2. e \in 1..Len(line)
    BY DEF TypeOK, LineOK
  <2>3. e \in stored' /\ line'[e] \in withdrawn'
    BY <2>1, <2>2, LineGrows, Forward
  <2> QED BY <2>1, <2>3 DEF BehindWithdrawnEnd
<1>2. Kinds(q)' = Kinds(q) /\ stored \subseteq stored'
  BY LineGrows, Forward
<1> QED BY <1>1, <1>2 DEF Kept

(* Behind a stored end there is no append at hand, unless the end was        *)
(* withdrawn.                                                                *)
LEMMA EndedExcuses ==
    ASSUME TypeOK, EndsSeal, EndedIsStored, phase = "Ended", NEW q \in (settled + 1)..Len(line)
    PROVE  Kept(q)
<1>1. PICK e \in stored : Kinds(e) = "end"
  BY DEF EndedIsStored
<1>2. e \in 1..Len(line) /\ e < q /\ q \in 1..Len(line) /\ q \in (e + 1)..Len(line)
  BY DEF TypeOK, LineOK
<1>3. CASE line[e] \in withdrawn
  BY <1>1, <1>2, <1>3 DEF Kept, BehindWithdrawnEnd
<1>4. CASE line[e] \notin withdrawn
  <2>1. Kinds(q) = "flush"
    BY <1>1, <1>2, <1>4 DEF EndsSeal, Standing
  <2> QED BY <2>1 DEF Kept
<1> QED BY <1>3, <1>4

LEMMA AppendsKeptKept == TypeOK /\ EndsSeal /\ EndedIsStored /\ AppendsKept /\ [Next]_vars => AppendsKept'
<1> SUFFICES ASSUME TypeOK, EndsSeal, EndedIsStored, AppendsKept, [Next]_vars PROVE AppendsKept'
  OBVIOUS
<1> USE WriterConstants
<1>1. \A q \in 1..settled : q \in 1..Len(line) /\ (Kept(q) => Kept(q)')
  BY KeptStays DEF TypeOK, LineOK
<1>2. ASSUME settled' = settled, Working' => Working PROVE AppendsKept'
  BY <1>1, <1>2, Forward DEF AppendsKept
<1>3. CASE (\E c \in Call : Calls(c)) \/ ClosedHere \/ Scope \/ UNCHANGED vars \/ Takes
  BY <1>2, <1>3 DEF Calls, GoesOn, Offers, Admits, Shares, Refuses, Queues, OfferRefused, Leaves, LeavesQueued, ClosedHere, Takes,
                    Scope, ScopeCloses, ScopeTimesOut, Seals, ShutsDown, RefusesWaiting, Working, vars, queueVars
<1>4. CASE BeginsAppends
  <2>1. phase' = phase /\ settled' = (IF Stopped(phase) THEN upTo' ELSE settled)
    BY <1>4 DEF BeginsAppends
  <2>2. CASE Stopped(phase)
    <3>1. settled' = upTo' /\ upTo' \in Nat /\ Stopped(phase')
      BY <1>4, <2>1, <2>2, Forward
    <3> QED BY <3>1 DEF AppendsKept, Working
  <2>3. CASE ~Stopped(phase)
    BY <2>1, <2>3, <1>1 DEF AppendsKept
  <2> QED BY <2>2, <2>3
<1>5. CASE Begins
  <2>1. phase' = phase /\ settled' = settled /\ ~Stopped(phase)
    BY <1>5 DEF Begins, NotBegun
  <2> QED BY <2>1, <1>1 DEF AppendsKept
<1>6. CASE RefusesItem \/ AnswersFlush \/ RunEnds
  <2>1. settled' = settled + 1 /\ upTo' = settled + 1 /\ line' = line /\ phase' = phase
    BY <1>6 DEF RefusesItem, AnswersFlush, RunEnds, Settles
  <2>2. Kinds(settled + 1) # "append"
    BY <1>6 DEF RefusesItem, AnswersFlush, RunEnds, AtItem, Kinds, Item
  <2>3. \A q \in 1..Len(line) : q = settled + 1 => Kept(q)'
    BY <2>1, <2>2 DEF Kept, Kinds
  <2>4. settled + 1 \in 1..Len(line)
    BY <2>1, Forward DEF TypeOK, LineOK
  <2> QED BY <2>1, <2>3, <2>4, <1>1 DEF AppendsKept, Working, TypeOK, LineOK
<1>7. CASE CommitStored \/ CommitFails \/ FoundClosed
  <2>1. Working /\ settled' = upTo /\ upTo' = upTo /\ line' = line
    BY <1>7 DEF CommitStored, CommitFails, FoundClosed, Committing
  <2>2. ~Working'
    BY <2>1 DEF Working, TypeOK, LineOK
  <2>3. \A q \in 1..settled : Kept(q)'
    BY <2>1, <1>1 DEF AppendsKept
  <2>4. ASSUME NEW q \in (settled + 1)..upTo PROVE Kept(q)' \/ Stopped(phase')
    <3>1. q \in 1..Len(line) /\ q \in (settled + 1)..Len(line)
      BY DEF TypeOK, LineOK
    <3>2. CASE CommitStored
      BY <3>2, <2>4 DEF CommitStored, Kept
    <3>3. CASE Kinds(q) # "append"
      BY <3>1, <3>3, <2>1 DEF Kept, Kinds
    <3>4. CASE (CommitFails \/ FoundClosed) /\ Kinds(q) = "append"
      <4>1. KindOf[Item] = "append"
        BY <3>4, <2>1, <2>4 DEF TypeOK, LineOK, Kinds, Item
      <4>2. phase' = Latched(phase, "Failed") \/ phase' = Latched(phase, "Closed")
        BY <3>4, <4>1 DEF CommitFails, AfterFailure, FoundClosed, CloseBy
      <4>3. Stopped(phase') \/ phase = "Ended"
        BY <4>2 DEF Latched, Live, Stopped, TypeOK, CallsOK, Phase
      <4> QED BY <4>3, <3>1, EndedExcuses, KeptStays
    <3> QED BY <1>7, <3>2, <3>3, <3>4
  <2> QED BY <2>1, <2>2, <2>3, <2>4 DEF AppendsKept, TypeOK, LineOK
<1> QED BY <1>3, <1>4, <1>5, <1>6, <1>7 DEF Next, Consumes

(* Only what a commit stores is new in the store.                            *)
LEMMA NewlyStored ==
    ASSUME TypeOK, [Next]_vars, NEW p \in stored'
    PROVE  /\ p \in 1..Len(line)
           /\ p \notin stored => CommitStored /\ p \in (settled + 1)..upTo /\ Kinds(p) \in CommitKind
<1>1. CommitStored \/ stored' = stored
  BY DEF Next, Calls, GoesOn, Offers, Admits, Shares, Refuses, Queues, LeavesQueued, OfferRefused, Leaves, ClosedHere, Consumes, Takes,
         BeginsAppends, Begins, RefusesItem, AnswersFlush, RunEnds, Settles, CommitFails, FoundClosed,
         Scope, ScopeCloses, ScopeTimesOut, Seals, ShutsDown, RefusesWaiting, vars
<1>2. p \in 1..Len(line)
  <2>1. p \in stored \/ p \in (settled + 1)..settled'
    BY Forward
  <2>2. stored \subseteq 1..settled /\ settled \in Nat /\ Len(line) \in Nat
    BY DEF TypeOK, LineOK
  <2>3. settled' \in Nat /\ settled <= settled' /\ settled' <= Len(line)
    BY Forward
  <2>4. CASE p \in stored
    BY <2>2, <2>3, <2>4
  <2>5. CASE p \in (settled + 1)..settled'
    BY <2>2, <2>3, <2>5
  <2> QED BY <2>1, <2>4, <2>5
<1>3. ASSUME CommitStored, p \notin stored PROVE p \in (settled + 1)..upTo /\ Kinds(p) \in CommitKind
  <2>1. Working /\ KindOf[Item] # "write" /\ stored' = stored \cup ((settled + 1)..upTo)
    BY <1>3 DEF CommitStored, Committing
  <2>2. Kinds(settled + 1) # "write" /\ p \in (settled + 1)..upTo
    BY <1>3, <2>1 DEF Kinds, Item
  <2> QED BY <2>1, <2>2 DEF TypeOK, LineOK, CommitKind
<1> QED BY <1>1, <1>2, <1>3

LEMMA HolesKept == TypeOK /\ AppendsKept /\ StoredWithoutHoles /\ [Next]_vars => StoredWithoutHoles'
<1> SUFFICES ASSUME TypeOK, AppendsKept, StoredWithoutHoles, [Next]_vars, NEW p \in stored', NEW q \in 1..(p - 1)
             PROVE  Kept(q)'
  BY DEF StoredWithoutHoles, Kept
<1>1. p \in 1..Len(line) /\ q \in 1..Len(line)
  BY NewlyStored DEF TypeOK, LineOK
<1>2. CASE p \in stored
  BY <1>1, <1>2, KeptStays DEF StoredWithoutHoles, Kept
<1>3. CASE p \notin stored
  <2>1. CommitStored /\ p \in (settled + 1)..upTo
    BY <1>3, NewlyStored
  <2>2. CASE q \in 1..settled
    BY <2>1, <2>2, <1>1, KeptStays DEF AppendsKept, CommitStored, Committing
  <2>3. CASE q \in (settled + 1)..upTo
    BY <2>1, <2>3 DEF CommitStored, Kept
  <2> QED BY <2>1, <2>2, <2>3 DEF TypeOK, LineOK
<1> QED BY <1>2, <1>3

LEMMA LastWordKept == TypeOK /\ EndsSeal /\ EndIsTheLastWord /\ [Next]_vars => EndIsTheLastWord'
<1> SUFFICES ASSUME TypeOK, EndsSeal, EndIsTheLastWord, [Next]_vars,
                    NEW e \in stored', NEW p \in stored', Kinds(e)' = "end", e < p
             PROVE  line'[e] \in withdrawn'
  BY DEF EndIsTheLastWord
<1>1. e \in 1..Len(line) /\ p \in 1..Len(line) /\ line'[e] = line[e] /\ Kinds(e) = "end"
  BY NewlyStored, LineGrows
<1>2. withdrawn \subseteq withdrawn'
  BY Forward
<1>3. CASE e \in stored /\ p \in stored
  BY <1>1, <1>2, <1>3 DEF EndIsTheLastWord
<1>4. CASE e \in stored /\ p \notin stored
  <2>1. Kinds(p) \in CommitKind
    BY <1>4, NewlyStored
  <2>2. p \in (e + 1)..Len(line)
    BY <1>1 DEF TypeOK, LineOK
  <2>3. ~Standing(e)
    BY <1>1, <2>1, <2>2 DEF EndsSeal, CommitKind
  <2> QED BY <1>1, <1>2, <1>4, <2>3 DEF Standing
<1>5. CASE e \notin stored
  <2>1. CommitStored /\ e \in (settled + 1)..upTo
    BY <1>5, NewlyStored
  <2>2. e = settled + 1 /\ upTo = settled + 1
    BY <2>1, <1>1 DEF TypeOK, LineOK, CommitStored, Committing
  <2>3. p \in 1..upTo
    BY <2>1, NewlyStored DEF TypeOK, LineOK
  <2> QED BY <2>2, <2>3 DEF TypeOK, LineOK
<1> QED BY <1>3, <1>4, <1>5
-----------------------------------------------------------------------------
(* What callers are told.                                                    *)

LEMMA ToldOk ==
    ASSUME TypeOK, [Next]_vars, NEW c \in Call, result'[c] = "ok", result[c] # "ok"
    PROVE  \/ step[c] = "called" /\ holder = NoCall /\ KindOf[c] = "end" /\ phase = "Ended" /\ UNCHANGED line
           \/ holder = c /\ KindOf[c] = "append"
           \/ /\ c = Item /\ settled + 1 \in 1..Len(line) /\ UNCHANGED line
              /\ \/ KindOf[c] = "flush" /\ ~Stopped(phase)
                 \/ KindOf[c] = "write"
                 \/ settled + 1 \in stored' /\ KindOf[c] # "flush"
<1> USE WriterConstants, ToldType DEF TypeOK
<1>1. CASE \E d \in Call : Calls(d)
  <2>1. PICK d \in Call : Calls(d)
    BY <1>1
  <2>2. CASE Refuses(d)
    BY <2>2 DEF Refuses, AtPermit, queueVars
  <2>3. CASE Queues(d)
    BY <2>3 DEF Queues
  <2>4. CASE OfferRefused(d)
    BY <2>4 DEF OfferRefused
  <2>5. ~(Admits(d) \/ Shares(d) \/ Leaves(d) \/ LeavesQueued(d))
    BY DEF Admits, Shares, Leaves, LeavesQueued
  <2> QED BY <2>1, <2>2, <2>3, <2>4, <2>5 DEF Calls, GoesOn, Offers
<1>2. CASE ClosedHere \/ Scope \/ UNCHANGED vars \/ Takes \/ BeginsAppends \/ Begins \/ RefusesItem \/ CommitFails \/ FoundClosed
  <2>1. (\E cs : result' = Told(cs, "refused")) \/ result' = result
    BY <1>2 DEF ClosedHere, CloseBy, Scope, ScopeCloses, ScopeTimesOut, Seals, ShutsDown, RefusesWaiting, Takes, BeginsAppends, Begins,
                RefusesItem, Settles, CommitFails, FoundClosed, vars
  <2> QED BY <2>1
<1>3. CASE AnswersFlush
  <2>1. \E answer \in {"ok", "refused"} : result' = Told({Item}, answer) /\ (Stopped(phase) => answer = "refused")
    BY <1>3 DEF AnswersFlush, Settles
  <2>2. settled < taken /\ KindOf[Item] = "flush" /\ UNCHANGED line
    BY <1>3 DEF AnswersFlush, AtItem, Settles
  <2> QED BY <2>1, <2>2, ItemType
<1>4. CASE RunEnds
  <2>1. result' = Told({Item}, "ok") /\ Working /\ KindOf[Item] = "write" /\ UNCHANGED line
    BY <1>4 DEF RunEnds, Settles
  <2> QED BY <2>1, ItemType
<1>5. CASE CommitStored
  <2>1. result' = Told({Item}, "ok") /\ Working /\ UNCHANGED line /\ stored' = stored \cup ((settled + 1)..upTo)
    BY <1>5 DEF CommitStored, Committing
  <2>2. settled + 1 \in stored'
    BY <2>1 DEF Working, LineOK
  <2>3. KindOf[Item] # "flush"
    BY <2>1 DEF LineOK, Item, Kinds
  <2> QED BY <2>1, <2>2, <2>3, ItemType
<1> QED BY <1>1, <1>2, <1>3, <1>4, <1>5 DEF Next, Consumes

LEMMA AnswersKept ==
    TypeOK /\ QueuedOnce /\ AppendsKept /\ EndedIsStored /\ AnswersTellTheStore /\ [Next]_vars => AnswersTellTheStore'
<1> SUFFICES ASSUME TypeOK, QueuedOnce, AppendsKept, EndedIsStored, AnswersTellTheStore, [Next]_vars
             PROVE  AnswersTellTheStore'
  OBVIOUS
<1> USE WriterConstants
<1>1. ASSUME NEW p \in 1..Len(line'), result'[line'[p]] = "ok"
      PROVE  /\ Kinds(p)' = "flush" => \A q \in 1..(p - 1) : Kept(q)'
             /\ Kinds(p)' = "transact" => p \in stored'
  <2>1. CASE p \notin 1..Len(line)
    <3>1. holder \in Call /\ line'[p] = holder /\ line' # line
      BY <2>1, LineGrows DEF TypeOK, LineOK
    <3>2. step[holder] = "offering" /\ result[holder] # "ok" /\ holder # NoCall
      BY <3>1 DEF QueuedOnce
    <3>3. KindOf[holder] = "append"
      BY <1>1, <3>1, <3>2, ToldOk
    <3> QED BY <3>1, <3>3 DEF Kinds
  <2>2. CASE p \in 1..Len(line)
    <3>1. line'[p] = line[p] /\ line[p] \in Call /\ Kinds(p)' = Kinds(p)
      BY <2>2, LineGrows, ItemType
    <3>2. \A q \in 1..(p - 1) : q \in 1..Len(line) /\ (Kept(q) => Kept(q)')
      BY <2>2, KeptStays DEF TypeOK, LineOK
    <3>3. CASE result[line[p]] = "ok"
      <4>1. /\ Kinds(p) = "flush" => \A q \in 1..(p - 1) : Kept(q)
            /\ Kinds(p) = "transact" => p \in stored
        BY <2>2, <3>3 DEF AnswersTellTheStore, Kept
      <4> QED BY <3>1, <3>2, <4>1, Forward
    <3>4. CASE result[line[p]] # "ok"
      <4>1. step[line[p]] \in {"awaiting", "gone"} /\ (holder # NoCall => step[holder] = "offering")
        BY <2>2 DEF QueuedOnce
      <4>2. holder # line[p]
        BY <4>1, <3>1
      <4>3. /\ line[p] = Item /\ settled + 1 \in 1..Len(line)
            /\ \/ Kinds(p) = "flush" /\ ~Stopped(phase)
               \/ Kinds(p) = "write"
               \/ settled + 1 \in stored' /\ Kinds(p) # "flush"
        BY <1>1, <3>1, <3>4, <4>1, <4>2, ToldOk DEF Kinds
      <4>4. p = settled + 1
        BY <2>2, <4>3 DEF QueuedOnce, Item
      <4>5. ~Stopped(phase) => \A q \in 1..(p - 1) : Kept(q)
        BY <4>4 DEF AppendsKept, TypeOK, LineOK
      <4> QED BY <3>1, <3>2, <4>3, <4>4, <4>5
    <3> QED BY <3>3, <3>4
  <2> QED BY <2>1, <2>2
<1>2. ASSUME NEW c \in Call, KindOf[c] = "end", result'[c] = "ok" PROVE \E p \in stored' : Kinds(p)' = "end"
  <2>1. ASSUME NEW p \in stored, Kinds(p) = "end" PROVE \E e \in stored' : Kinds(e)' = "end"
    <3>1. p \in 1..Len(line)
      BY DEF TypeOK, LineOK
    <3> QED BY <2>1, <3>1, LineGrows, Forward
  <2>2. CASE result[c] = "ok"
    BY <1>2, <2>1, <2>2 DEF AnswersTellTheStore
  <2>3. CASE result[c] # "ok" /\ phase = "Ended"
    BY <2>1, <2>3 DEF EndedIsStored
  <2>4. CASE result[c] # "ok" /\ phase # "Ended"
    <3>1. c = Item /\ UNCHANGED line /\ settled + 1 \in stored'
      BY <1>2, <2>4, ToldOk
    <3> QED BY <1>2, <3>1 DEF Kinds, Item
  <2> QED BY <2>2, <2>3, <2>4
<1> QED BY <1>1, <1>2 DEF AnswersTellTheStore, Kept

LEMMA EndingKept == TypeOK /\ EndsBegun /\ EndingHasAnEnd /\ [Next]_vars => EndingHasAnEnd'
<1> SUFFICES ASSUME TypeOK, EndsBegun, EndingHasAnEnd, [Next]_vars, phase' = "Ending"
             PROVE  holder' = last' \/ \E p \in (settled' + 1)..Len(line') : line'[p] = last'
  BY DEF EndingHasAnEnd
<1>1. CASE \E c \in Call : Admits(c) /\ KindOf[c] = "end"
  BY <1>1 DEF Admits
<1>2. CASE ~\E c \in Call : Admits(c) /\ KindOf[c] = "end"
  <2>1. phase = "Ending" /\ last' = last /\ last # NoCall
    BY <1>2, PhaseMoves DEF EndsBegun
  <2>2. ASSUME NEW p \in (settled + 1)..Len(line), line[p] = last
        PROVE  \E q \in (settled' + 1)..Len(line') : line'[q] = last'
    <3>1. p \notin (settled + 1)..settled'
      BY <2>1, <2>2, EndNotPassed
    <3>2. p \in 1..Len(line) /\ p \in (settled' + 1)..Len(line')
      BY <3>1, Forward, LineGrows DEF TypeOK, LineOK
    <3> QED BY <2>1, <2>2, <3>2, LineGrows
  <2>3. CASE holder = last /\ line' # line
    <3>1. line'[Len(line) + 1] = last' /\ Len(line') = Len(line) + 1 /\ settled' = settled
      BY <2>1, <2>3, LineGrows
    <3> QED BY <3>1 DEF TypeOK, LineOK
  <2>4. CASE holder = last /\ line' = line
    <3>1. ASSUME NEW c \in Call, Calls(c) PROVE holder' = holder
      <4>1. ~Leaves(c)
        BY <2>1, <2>4 DEF Leaves, Withdrawn
      <4>2. ~OfferRefused(c)
        BY <2>1 DEF OfferRefused, EndsBegun, Live
      <4>3. ~(Queues(c) \/ LeavesQueued(c))
        BY <2>4 DEF Queues, LeavesQueued, TypeOK, LineOK
      <4>4. ~Admits(c)
        BY <2>1, <2>4 DEF Admits, AtPermit
      <4> QED BY <3>1, <4>1, <4>2, <4>3, <4>4 DEF Calls, GoesOn, Offers, Shares, Refuses
    <3>2. holder' = holder
      BY <3>1 DEF Next, ClosedHere, Consumes, Takes, BeginsAppends, Begins, RefusesItem, AnswersFlush, RunEnds, Settles, CommitStored,
           CommitFails, FoundClosed, Scope, ScopeCloses, ScopeTimesOut, Seals, ShutsDown, RefusesWaiting, vars, callVars
    <3> QED BY <2>1, <2>4, <3>2
  <2> QED BY <2>1, <2>2, <2>3, <2>4 DEF EndingHasAnEnd
<1> QED BY <1>1, <1>2
-----------------------------------------------------------------------------
(* The inductive invariant, and what it gives for every behaviour.           *)

QueueInv ==
    /\ TypeOK /\ QueuedOnce /\ EndsBegun /\ EndsSeal /\ EndedIsStored /\ AppendsKept
    /\ StoredWithoutHoles /\ EndIsTheLastWord /\ AnswersTellTheStore /\ EndingHasAnEnd

LEMMA QueueInductive == Spec => []QueueInv
<1>1. Init => QueueInv
  <2>1. Init => CallsOK
    BY WriterConstants DEF Init, CallsOK, Phase, Step, Over
  <2>2. Init => LineOK
    BY DEF Init, LineOK, Working
  <2>3. Init => QueuedOnce /\ EndsBegun
    BY WriterConstants DEF Init, QueuedOnce, EndsBegun, Live, Over
  <2>4. Init => EndsSeal /\ EndedIsStored /\ AppendsKept
    BY DEF Init, EndsSeal, EndedIsStored, AppendsKept, Working
  <2>5. Init => StoredWithoutHoles /\ EndIsTheLastWord /\ AnswersTellTheStore /\ EndingHasAnEnd
    BY DEF Init, StoredWithoutHoles, EndIsTheLastWord, AnswersTellTheStore, EndingHasAnEnd
  <2> QED BY <2>1, <2>2, <2>3, <2>4, <2>5 DEF QueueInv, TypeOK
<1>2. QueueInv /\ [Next]_vars => QueueInv'
  BY CallsType, LineType, OnceKept, EndsBegunKept, EndsSealKept, EndedIsStoredKept, AppendsKeptKept, HolesKept, LastWordKept,
     AnswersKept, EndingKept DEF QueueInv, TypeOK
<1> QED BY <1>1, <1>2, PTL DEF Spec

(* What the writer stored has every append queued before it stored too.      *)
THEOREM NoHoles == Spec => []StoredWithoutHoles
<1>1. QueueInv => StoredWithoutHoles
  BY DEF QueueInv
<1> QED BY <1>1, QueueInductive, PTL

(* Nothing is stored behind a stored end that was not withdrawn.             *)
THEOREM EndsAreLast == Spec => []EndIsTheLastWord
<1>1. QueueInv => EndIsTheLastWord
  BY DEF QueueInv
<1> QED BY <1>1, QueueInductive, PTL

(* A call answered as done was done.                                         *)
THEOREM AnswersAreTrue == Spec => []AnswersTellTheStore
<1>1. QueueInv => AnswersTellTheStore
  BY DEF QueueInv
<1> QED BY <1>1, QueueInductive, PTL

(* A writer that refuses everything for an end has that end to settle.       *)
THEOREM EndsAreUnderWay == Spec => []EndingHasAnEnd
<1>1. QueueInv => EndingHasAnEnd
  BY DEF QueueInv
<1> QED BY <1>1, QueueInductive, PTL
=============================================================================
