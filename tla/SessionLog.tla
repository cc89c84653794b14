----------------------------- MODULE SessionLog -----------------------------
(***************************************************************************)
(* One session as a SessionLog stores it: a head (the incarnation minted   *)
(* when the session was created, a revision, and the sessions plugin's     *)
(* state) and the journal, here a set of commit records, each stamped with *)
(* the revision that stored it.  All the events of one commit are one      *)
(* record, which is how the store stores them.  The store is the only      *)
(* thing instances share, and its clock (now) the only one leases are read *)
(* against.                                                                *)
(***************************************************************************)
EXTENDS Integers, FiniteSets

CONSTANTS MaxNow,   \* bound: the storage clock stops here
          MaxRev,   \* bound: commits of one incarnation
          MaxInc    \* bound: how often the session may be created

ASSUME LogBounds == MaxNow \in Nat /\ MaxRev \in Nat /\ MaxInc \in Nat \ {0}

VARIABLES head,     \* [present, inc, rev, state]
          journal,  \* the commits of the present incarnation that stored events
          now       \* the storage clock

logVars == <<head, journal, now>>

NoExpiry == 0

(* What the store answers a commit that expects revision `expect` of        *)
(* incarnation `inc`, refused once the clock is past `notAfter`.            *)
CommitAnswerLate(expect, inc, notAfter) ==
    IF ~head.present \/ inc # head.inc THEN "missing"
    ELSE IF expect # head.rev THEN "conflict" ELSE "stored"

CommitAnswerBlind(expect, inc, notAfter) ==
    IF ~head.present \/ inc # head.inc THEN "missing"
    ELSE IF notAfter # NoExpiry /\ now > notAfter THEN "expired" ELSE "stored"

CommitAnswerById(expect, inc, notAfter) ==
    IF ~head.present THEN "missing"
    ELSE IF expect # head.rev THEN "conflict"
    ELSE IF notAfter # NoExpiry /\ now > notAfter THEN "expired" ELSE "stored"

CommitAnswer(expect, inc, notAfter) ==
    IF ~head.present \/ inc # head.inc THEN "missing"
    ELSE IF expect # head.rev THEN "conflict"
    ELSE IF notAfter # NoExpiry /\ now > notAfter THEN "expired"
    ELSE "stored"

(* A stored commit: its events (none for a state-only commit) under the     *)
(* next revision, and the state that replaces the head's.                   *)
StoreCommit(events, next) ==
    /\ head.rev < MaxRev
    /\ head' = [head EXCEPT !.rev = @ + 1, !.state = next]
    /\ journal' = journal \cup {[e EXCEPT !.rev = head.rev + 1] : e \in events}
    /\ UNCHANGED now

(* A session is created under an id that names none, with a new incarnation. *)
CreateSession(initial) ==
    /\ ~head.present
    /\ head.inc < MaxInc
    /\ head' = [present |-> TRUE, inc |-> head.inc + 1, rev |-> 0, state |-> initial]
    /\ UNCHANGED <<journal, now>>

(* A removal forgets the head and every event.                               *)
RemoveSession(initial) ==
    /\ head.present
    /\ head' = [head EXCEPT !.present = FALSE, !.rev = 0, !.state = initial]
    /\ journal' = {}
    /\ UNCHANGED now

Tick ==
    /\ now < MaxNow
    /\ now' = now + 1
    /\ UNCHANGED <<head, journal>>
=============================================================================
