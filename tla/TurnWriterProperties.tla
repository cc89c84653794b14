------------------------ MODULE TurnWriterProperties ------------------------
(***************************************************************************)
(* What the queue of a turn's writer promises.                             *)
(***************************************************************************)
EXTENDS TurnWriter

Kinds(p) == KindOf[line[p]]

(* Position p is queued behind a stored end that was withdrawn just as it    *)
(* was queued: admission had reopened, and the writer wrote on although its  *)
(* end was about to be stored.                                               *)
BehindWithdrawnEnd(p) == \E e \in stored : e < p /\ line[e] \in withdrawn

(* makeTurnWriter: "Items are stored strictly in queue order", and a failed  *)
(* store write latches.  What is stored has every append queued before it    *)
(* stored too, however appends were grouped, refused or dropped: an end, a   *)
(* transact or a later append never stands behind a hole.                    *)
StoredWithoutHoles ==
    \A p \in stored : \A q \in 1..(p - 1) :
        Kinds(q) = "append" => q \in stored \/ BehindWithdrawnEnd(q)

(* admit, beginEnd, settleEnd: once an end is stored nothing is stored       *)
(* behind it, not even another end, whether callers were blocked on a full   *)
(* queue, shared the end or tried it again.                                  *)
EndIsTheLastWord ==
    \A e, p \in stored : Kinds(e) = "end" /\ e < p => line[e] \in withdrawn

(* A call answered as done was: a flush has every append queued before it    *)
(* stored, a transact its own commit, and an end, its own, shared or met as  *)
(* stored, means an end is in the store.                                     *)
AnswersTellTheStore ==
    /\ \A p \in 1..Len(line) : result[line[p]] = "ok" =>
         CASE Kinds(p) = "flush"    -> \A q \in 1..(p - 1) : Kinds(q) = "append" => q \in stored \/ BehindWithdrawnEnd(q)
           [] Kinds(p) = "transact" -> p \in stored
           [] OTHER                 -> TRUE
    /\ \A c \in Call : KindOf[c] = "end" /\ result[c] = "ok" => \E p \in stored : Kinds(p) = "end"

(* An Ending writer refuses every write and shares its end: the end begun    *)
(* last is then still to be settled, offered, queued or with the consumer,   *)
(* or the turn could never end.                                              *)
EndingHasAnEnd ==
    phase = "Ending" =>
        \/ holder = last
        \/ \E p \in (settled + 1)..Len(line) : line[p] = last

(* The finalizer of the turn's scope and refuseWaiting: once the scope began *)
(* to close, every call made of the writer, before or since, is answered or  *)
(* its caller gone, though the store, a running write or the consumer hangs.            *)
AllAnswered == \A c \in Call : step[c] # "idle" => Answered(c)
ClosedScopeAnswersAll == scope # "open" ~> AllAnswered
=============================================================================
