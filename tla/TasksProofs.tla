---------------------------- MODULE TasksProofs ----------------------------
(***************************************************************************)
(* What background tasks keep whatever the calls, the work and the cuts,   *)
(* for any number of tasks, fibers and turns.                              *)
(*                                                                         *)
(* The argument: whoever commits to a child, its session only ever         *)
(* advances (Advances): an outcome stays, turns keep their key and input,  *)
(* a view shows the same turn, none, or a newer one, and a task that was   *)
(* lost stays lost unless a steer was queued.  What a fiber goes by, what  *)
(* was recorded in the parent and what the parent was told survive every   *)
(* advance, because they only speak of what cannot be taken back.          *)
(***************************************************************************)
EXTENDS TasksProperties, FiniteSetTheorems, TLAPS

-----------------------------------------------------------------------------
(* A child's session.                                                        *)

Words == Outcomes \cup {"none", "open", "waiting", "cancelled"}
TurnType == [origin : {"task", "user"}, input : Int, key : Int \X Int, ended : Words]
QuestionType == [turn : Nat, input : Int]
ChildType ==
    [exists : BOOLEAN, ends : Seq(Outcomes \cup {"cancelled"}), turns : Seq(TurnType), open : Nat,
     gone : BOOLEAN, questions : Seq(QuestionType),
     answered : SUBSET Int, queued : SUBSET Int, waiting : SUBSET Int]

(* One turn has the task's key, a turn of the task's own is that one or      *)
(* repairs a question, and inputs are the steer or answers.                  *)
ChildOK(c) ==
    /\ c \in ChildType
    /\ c.open \in {0, Len(c.turns)}
    /\ Len(c.ends) <= 1
    /\ \A m, n \in 1..Len(c.turns) : c.turns[m].key = InitialKey /\ c.turns[n].key = InitialKey => m = n
    /\ \A n \in 1..Len(c.turns) : c.turns[n].origin = "task" => c.turns[n].key = InitialKey \/ Latest(c) # 0
    /\ \A n \in 1..Len(c.turns) : c.turns[n].input = NoInput \/ c.turns[n].input \in c.queued
    /\ c.waiting \subseteq c.queued
    /\ c.queued \subseteq {Steer} \cup c.answered
    /\ c.answered \subseteq 1..Latest(c)

(* A task told interrupted without a record of it: its turn was lost and     *)
(* nothing waits.                                                            *)
Lost(c) ==
    /\ c.exists /\ ~HasOutcome(c) /\ Latest(c) = 0 /\ Shown(c) = 0
    /\ c.waiting = {} /\ InitialStarted(c)

(* What a commit may do to a child's session.                                *)
Advances(c, d) ==
    /\ c.exists => d.exists
    /\ HasOutcome(c) => d.ends = c.ends
    /\ Len(c.turns) <= Len(d.turns)
    /\ \A n \in 1..Len(c.turns) : d.turns[n].key = c.turns[n].key /\ d.turns[n].input = c.turns[n].input
    /\ Shown(d) \in {0, Shown(c)} \/ Shown(d) > Len(c.turns)
    /\ Latest(c) <= Latest(d)
    /\ \A q \in 1..Latest(c) : d.questions[q] = c.questions[q]
    /\ \A q \in 1..Latest(d) : q > Latest(c) => d.questions[q].turn >= Len(c.turns)
    /\ c.answered \subseteq d.answered
    /\ c.queued \subseteq d.queued
    /\ Lost(c) => Lost(d) \/ Steer \in d.queued \/ d.ends = <<"failed">>

Commits(c, d) == ChildOK(d) /\ Advances(c, d)

LEMMA CommitsNothing == ASSUME NEW c, ChildOK(c) PROVE Commits(c, c)
  BY DEF Commits, Advances, ChildOK, ChildType, Latest, Shown, Steer, HasOutcome

LEMMA CommitsInTurn ==
    ASSUME NEW c, NEW d, NEW e, ChildOK(c), Commits(c, d), Commits(d, e) PROVE Commits(c, e)
  <1>1. ChildOK(d) /\ ChildOK(e) /\ Advances(c, d) /\ Advances(d, e)
    BY DEF Commits
  <1>2. /\ Len(c.turns) \in Nat /\ Len(d.turns) \in Nat /\ Len(e.turns) \in Nat
        /\ Latest(c) \in Nat /\ Latest(d) \in Nat /\ Latest(e) \in Nat
        /\ Shown(c) \in Nat /\ Shown(d) \in Nat /\ Shown(e) \in Nat
        /\ Shown(c) <= Len(c.turns) /\ Shown(d) <= Len(d.turns) /\ Shown(e) <= Len(e.turns)
    BY <1>1 DEF ChildOK, ChildType, Latest, Shown
  <1>3. Shown(e) \in {0, Shown(c)} \/ Shown(e) > Len(c.turns)
    BY <1>1, <1>2 DEF Advances
  <1>4. \A q \in 1..Latest(c) : e.questions[q] = c.questions[q]
    BY <1>1, <1>2 DEF Advances
  <1>5. \A q \in 1..Latest(e) : q > Latest(c) => e.questions[q].turn >= Len(c.turns)
    <2> SUFFICES ASSUME NEW q \in 1..Latest(e), q > Latest(c) PROVE e.questions[q].turn >= Len(c.turns)
      OBVIOUS
    <2>0. e.questions \in Seq(QuestionType) /\ q \in 1..Len(e.questions)
      BY <1>1 DEF ChildOK, ChildType, Latest
    <2>a. e.questions[q] \in QuestionType
      BY <2>0
    <2>1. e.questions[q].turn \in Nat
      BY <2>a DEF QuestionType
    <2>2. CASE q > Latest(d)
      <3>1. e.questions[q].turn >= Len(d.turns) /\ Len(c.turns) <= Len(d.turns)
        BY <2>2, <1>1 DEF Advances
      <3> QED BY <3>1, <2>1, <1>2
    <2>3. CASE q <= Latest(d)
      BY <2>3, <1>1, <1>2 DEF Advances
    <2> QED BY <2>2, <2>3, <1>2
  <1>6. \A n \in 1..Len(c.turns) : e.turns[n].key = c.turns[n].key /\ e.turns[n].input = c.turns[n].input
    BY <1>1, <1>2 DEF Advances
  <1>7. (HasOutcome(c) => e.ends = c.ends) /\ (Lost(c) => Lost(e) \/ Steer \in e.queued \/ e.ends = <<"failed">>)
    BY <1>1 DEF Advances, HasOutcome
  <1> QED BY <1>1, <1>2, <1>3, <1>4, <1>5, <1>6, <1>7 DEF Commits, Advances

-----------------------------------------------------------------------------
(* The commits a child's session is made of.                                 *)

LEMMA ClosesItsTurn ==
    ASSUME NEW c, ChildOK(c), c.open # 0, NEW reason \in Words
    PROVE  /\ ChildOK(Closed(c, reason))
           /\ Closed(c, reason).open = 0
           /\ Closed(c, reason).queued = c.queued
           /\ Closed(c, reason).ends = c.ends
           /\ Closed(c, reason).answered = c.answered
           /\ Closed(c, reason).questions = c.questions
           /\ Closed(c, reason).exists = c.exists
           /\ Len(Closed(c, reason).turns) = Len(c.turns)
           /\ \A n \in 1..Len(c.turns) : /\ Closed(c, reason).turns[n].key = c.turns[n].key
                                         /\ Closed(c, reason).turns[n].input = c.turns[n].input
                                         /\ Closed(c, reason).turns[n].origin = c.turns[n].origin
           /\ Closed(c, reason).waiting = c.waiting \cup Returns(c, reason)
           /\ Returns(c, reason) \subseteq {c.turns[c.open].input} \ {NoInput}
  <1> DEFINE turn == [c.turns[c.open] EXCEPT !.ended = reason]
             closed == [c.turns EXCEPT ![c.open] = turn]
             waiting == c.waiting \cup Returns(c, reason)
             d == [c EXCEPT !.turns = closed, !.open = 0, !.gone = FALSE, !.waiting = waiting]
  <1>1. c.open \in 1..Len(c.turns) /\ c.turns \in Seq(TurnType) /\ c \in ChildType /\ c.queued \in SUBSET Int /\ c.waiting \in SUBSET Int
    BY DEF ChildOK, ChildType
  <1>2. c.turns[c.open] \in TurnType
    BY <1>1
  <1>3. turn \in TurnType /\ turn.key = c.turns[c.open].key /\ turn.input = c.turns[c.open].input /\ turn.origin = c.turns[c.open].origin
    BY <1>2 DEF TurnType
  <1>4. Returns(c, reason) \subseteq {c.turns[c.open].input} \ {NoInput}
    BY DEF Returns
  <1>5. Returns(c, reason) \subseteq c.queued /\ Returns(c, reason) \subseteq Int
    BY <1>1, <1>2, <1>4 DEF ChildOK, TurnType
  <1>6. Closed(c, reason) = d
    BY DEF Closed
  <1> HIDE DEF turn
  <1>7. /\ closed \in Seq(TurnType) /\ Len(closed) = Len(c.turns)
        /\ \A n \in 1..Len(c.turns) : closed[n].key = c.turns[n].key /\ closed[n].input = c.turns[n].input /\ closed[n].origin = c.turns[n].origin
    BY <1>1, <1>3
  <1>8. waiting \in SUBSET Int /\ waiting \subseteq c.queued
    BY <1>1, <1>5 DEF ChildOK
  <1> HIDE DEF closed, waiting
  <1>9. /\ d.open = 0 /\ d.turns = closed /\ d.queued = c.queued /\ d.ends = c.ends /\ d.answered = c.answered
        /\ d.questions = c.questions /\ d.exists = c.exists /\ d.waiting = waiting
    BY <1>1 DEF ChildType
  <1>10. d \in ChildType
    BY <1>1, <1>7, <1>8 DEF ChildType
  <1> HIDE DEF d
  <1>11. ChildOK(d)
    <2>1. Latest(d) = Latest(c)
      BY <1>9 DEF Latest
    <2>2. Len(d.turns) = Len(c.turns) /\ \A n \in 1..Len(c.turns) : d.turns[n].key = c.turns[n].key /\ d.turns[n].input = c.turns[n].input /\ d.turns[n].origin = c.turns[n].origin
      BY <1>7, <1>9
    <2>3. d.waiting \subseteq d.queued /\ d.queued \subseteq {Steer} \cup d.answered /\ d.answered \subseteq 1..Latest(d)
      BY <1>8, <1>9, <2>1 DEF ChildOK
    <2>4. Len(d.ends) <= 1 /\ d.open = 0
      BY <1>9 DEF ChildOK
    <2> QED BY <1>10, <1>9, <2>1, <2>2, <2>3, <2>4 DEF ChildOK
  <1>12. waiting = c.waiting \cup Returns(c, reason)
    BY DEF waiting
  <1> QED BY <1>4, <1>6, <1>7, <1>9, <1>11, <1>12

LEMMA CommitsClosed ==
    ASSUME NEW c, ChildOK(c), c.open # 0, NEW reason \in Words PROVE Commits(c, Closed(c, reason))
  <1> DEFINE d == Closed(c, reason)
  <1>1. /\ ChildOK(d) /\ d.open = 0 /\ d.queued = c.queued /\ d.ends = c.ends /\ d.answered = c.answered
        /\ d.questions = c.questions /\ d.exists = c.exists /\ Len(d.turns) = Len(c.turns)
        /\ \A n \in 1..Len(c.turns) : /\ d.turns[n].key = c.turns[n].key /\ d.turns[n].input = c.turns[n].input
                                      /\ d.turns[n].origin = c.turns[n].origin
        /\ d.waiting = c.waiting \cup Returns(c, reason)
        /\ Returns(c, reason) \subseteq {c.turns[c.open].input} \ {NoInput}
    BY ClosesItsTurn
  <1> HIDE DEF d
  <1>2. Latest(d) = Latest(c) /\ Shown(d) = 0 /\ (HasOutcome(d) <=> HasOutcome(c)) /\ Len(c.turns) \in Nat /\ Latest(c) \in Nat
    BY <1>1 DEF Latest, Shown, HasOutcome, ChildOK, ChildType
  <1>3. Lost(c) => Lost(d) \/ Steer \in d.queued
    <2> SUFFICES ASSUME Lost(c) PROVE Lost(d) \/ Steer \in d.queued
      OBVIOUS
    <2>1. InitialStarted(d)
      <3>1. DOMAIN c.turns = 1..Len(c.turns) /\ DOMAIN d.turns = 1..Len(d.turns)
        BY <1>1 DEF ChildOK, ChildType
      <3> QED BY <3>1, <1>1 DEF Lost, InitialStarted
    <2>2. CASE Returns(c, reason) = {}
      BY <2>1, <2>2, <1>1, <1>2 DEF Lost
    <2>3. CASE Returns(c, reason) # {}
      <3>1. c.turns[c.open].input # NoInput /\ c.open \in 1..Len(c.turns)
        BY <2>3, <1>1 DEF ChildOK, ChildType
      <3>2. c.turns[c.open].input \in c.queued
        BY <3>1 DEF ChildOK
      <3>3. c.queued \subseteq {Steer}
        BY DEF ChildOK, Lost
      <3> QED BY <3>2, <3>3, <1>1
    <2> QED BY <2>2, <2>3
  <1> QED BY <1>1, <1>2, <1>3 DEF Commits, Advances, d

LEMMA CommitsReaped ==
    ASSUME NEW c, ChildOK(c) PROVE Commits(c, Reaped(c))
  BY CommitsClosed, CommitsNothing DEF Reaped, Words, Outcomes

LEMMA CommitsOpened ==
    ASSUME NEW c, ChildOK(c), c.open = 0, ~Lost(c),
           NEW origin \in {"task", "user"}, NEW input \in c.waiting \cup {NoInput}, NEW key \in Int \X Int,
           key = InitialKey => ~KeyUsed(c, InitialKey),
           origin = "task" => key = InitialKey \/ Latest(c) # 0
    PROVE  /\ Commits(c, Opened(c, origin, input, key))
           /\ Len(Opened(c, origin, input, key).turns) = Len(c.turns) + 1
  <1> DEFINE turn == Turn(origin, input, key)
             turns == Append(c.turns, turn)
             waiting == c.waiting \ {input}
             d == [c EXCEPT !.turns = turns, !.open = Len(c.turns) + 1, !.waiting = waiting]
  <1>1. c.turns \in Seq(TurnType) /\ c \in ChildType /\ c.waiting \in SUBSET Int /\ Len(c.turns) \in Nat /\ c.queued \in SUBSET Int
    BY DEF ChildOK, ChildType
  <1>2. turn \in TurnType /\ turn.key = key /\ turn.input = input /\ turn.origin = origin
    BY <1>1 DEF Turn, TurnType, Words, NoInput
  <1> HIDE DEF turn
  <1>3. /\ turns \in Seq(TurnType) /\ Len(turns) = Len(c.turns) + 1
        /\ \A n \in 1..Len(c.turns) : turns[n] = c.turns[n]
        /\ turns[Len(c.turns) + 1] = turn
    BY <1>1, <1>2
  <1>4. waiting \in SUBSET Int /\ waiting \subseteq c.waiting
    BY <1>1
  <1> HIDE DEF turns, waiting
  <1>a. /\ d.open = Len(c.turns) + 1 /\ d.turns = turns /\ d.queued = c.queued /\ d.ends = c.ends /\ d.answered = c.answered
        /\ d.questions = c.questions /\ d.exists = c.exists /\ d.waiting = waiting
    BY <1>1 DEF ChildType
  <1>b. Len(c.turns) + 1 \in Nat
    BY <1>1
  <1>5. /\ d \in ChildType
        /\ d.open = Len(c.turns) + 1 /\ d.turns = turns /\ d.queued = c.queued /\ d.ends = c.ends /\ d.answered = c.answered
        /\ d.questions = c.questions /\ d.exists = c.exists /\ d.waiting = waiting
    BY <1>1, <1>3, <1>4, <1>a, <1>b DEF ChildType
  <1>6. Opened(c, origin, input, key) = d
    BY DEF Opened, turns, waiting, turn
  <1> HIDE DEF d
  <1>7. Latest(d) = Latest(c) /\ Latest(c) \in Nat /\ Len(d.turns) = Len(c.turns) + 1
    BY <1>1, <1>3, <1>5 DEF Latest, ChildType
  <1>8. ChildOK(d)
    <2>1. \A n \in 1..Len(c.turns) : key = InitialKey => c.turns[n].key # InitialKey
      BY <1>1 DEF KeyUsed
    <2>2. \A m, n \in 1..Len(d.turns) : d.turns[m].key = InitialKey /\ d.turns[n].key = InitialKey => m = n
      <3> SUFFICES ASSUME NEW m \in 1..Len(d.turns), NEW n \in 1..Len(d.turns), d.turns[m].key = InitialKey, d.turns[n].key = InitialKey
                   PROVE m = n
        OBVIOUS
      <3>1. CASE m = Len(c.turns) + 1 /\ n = Len(c.turns) + 1
        BY <3>1
      <3>2. CASE m = Len(c.turns) + 1 /\ n \in 1..Len(c.turns)
        BY <3>2, <2>1, <1>2, <1>3, <1>5
      <3>3. CASE n = Len(c.turns) + 1 /\ m \in 1..Len(c.turns)
        BY <3>3, <2>1, <1>2, <1>3, <1>5
      <3>4. CASE m \in 1..Len(c.turns) /\ n \in 1..Len(c.turns)
        BY <3>4, <1>3, <1>5 DEF ChildOK
      <3> QED BY <3>1, <3>2, <3>3, <3>4, <1>1, <1>7
    <2>a. \A n \in 1..Len(d.turns) : n = Len(c.turns) + 1 \/ n \in 1..Len(c.turns)
      BY <1>1, <1>7
    <2>b. \A n \in 1..Len(c.turns) : d.turns[n] = c.turns[n]
      BY <1>3, <1>5
    <2>c. d.turns[Len(c.turns) + 1] = turn /\ input \in c.queued \cup {NoInput}
      BY <1>3, <1>5 DEF ChildOK
    <2>3. \A n \in 1..Len(d.turns) : d.turns[n].origin = "task" => d.turns[n].key = InitialKey \/ Latest(d) # 0
      BY <1>2, <1>7, <2>a, <2>b, <2>c DEF ChildOK
    <2>4. \A n \in 1..Len(d.turns) : d.turns[n].input = NoInput \/ d.turns[n].input \in d.queued
      BY <1>2, <1>5, <2>a, <2>b, <2>c DEF ChildOK
    <2>5. d.waiting \subseteq d.queued /\ d.queued \subseteq {Steer} \cup d.answered /\ d.answered \subseteq 1..Latest(d)
      BY <1>4, <1>5, <1>7 DEF ChildOK
    <2>6. Len(d.ends) <= 1 /\ d.open = Len(d.turns)
      BY <1>5, <1>7 DEF ChildOK
    <2> QED BY <1>5, <2>2, <2>3, <2>4, <2>5, <2>6 DEF ChildOK
  <1>9. Advances(c, d)
    <2>1. Shown(d) \in {0, Shown(c)} \/ Shown(d) > Len(c.turns)
      BY <1>1, <1>5 DEF Shown
    <2>2. Len(c.turns) <= Len(d.turns)
      BY <1>1, <1>7
    <2>3. \A n \in 1..Len(c.turns) : d.turns[n].key = c.turns[n].key /\ d.turns[n].input = c.turns[n].input
      BY <1>3, <1>5
    <2>4. Latest(c) <= Latest(d) /\ \A q \in 1..Latest(d) : q > Latest(c) => d.questions[q].turn >= Len(c.turns)
      BY <1>7
    <2> QED BY <2>1, <2>2, <2>3, <2>4, <1>5 DEF Advances
  <1> QED BY <1>6, <1>7, <1>8, <1>9 DEF Commits

LEMMA CommitsOutcome ==
    ASSUME NEW c, ChildOK(c), NEW status \in Outcomes \cup {"cancelled"}, ~Lost(c) \/ status = "failed"
    PROVE  /\ Commits(c, Outcome(c, status))
           /\ ~HasOutcome(c) => Outcome(c, status).ends = <<status>>
           /\ Shown(Outcome(c, status)) = Shown(c)
           /\ Len(Outcome(c, status).turns) = Len(c.turns)
  <1>1. CASE HasOutcome(c)
    BY <1>1, CommitsNothing DEF Outcome
  <1>2. CASE ~HasOutcome(c)
    <2> DEFINE ends == Append(c.ends, status)
               d == [c EXCEPT !.ends = ends]
    <2>1. Outcome(c, status) = d
      BY <1>2 DEF Outcome
    <2>2. c \in ChildType /\ c.ends \in Seq(Outcomes \cup {"cancelled"}) /\ c.ends = <<>>
      BY <1>2 DEF ChildOK, ChildType, HasOutcome
    <2>3. ends \in Seq(Outcomes \cup {"cancelled"}) /\ Len(ends) = 1 /\ ends = <<status>>
      BY <2>2
    <2> HIDE DEF ends
    <2>4. /\ d.ends = ends /\ d.open = c.open /\ d.turns = c.turns /\ d.queued = c.queued /\ d.answered = c.answered
          /\ d.questions = c.questions /\ d.exists = c.exists /\ d.waiting = c.waiting /\ d.gone = c.gone
      BY <2>2 DEF ChildType
    <2>5. d \in ChildType
      BY <2>2, <2>3 DEF ChildType
    <2> HIDE DEF d
    <2>6. Latest(d) = Latest(c) /\ Shown(d) = Shown(c) /\ Latest(c) \in Nat /\ Len(c.turns) \in Nat
      BY <2>2, <2>4 DEF Latest, Shown, ChildType
    <2>7. ChildOK(d)
      BY <2>3, <2>4, <2>5, <2>6 DEF ChildOK
    <2>8. Advances(c, d)
      BY <1>2, <2>3, <2>4, <2>6 DEF Advances
    <2> QED BY <2>1, <2>3, <2>4, <2>6, <2>7, <2>8 DEF Commits
  <1> QED BY <1>1, <1>2

(* Inputs that are queued: the steer, or answers.                            *)
LEMMA CommitsQueued ==
    ASSUME NEW c, ChildOK(c), NEW inputs \in SUBSET ({Steer} \cup c.answered)
    PROVE  Commits(c, [c EXCEPT !.queued = @ \cup inputs, !.waiting = @ \cup inputs])
  <1> DEFINE queued == c.queued \cup inputs
             waiting == c.waiting \cup inputs
             d == [c EXCEPT !.queued = queued, !.waiting = waiting]
  <1>1. c \in ChildType /\ c.answered \in SUBSET Int /\ c.queued \in SUBSET Int /\ c.waiting \in SUBSET Int
    BY DEF ChildOK, ChildType
  <1>a. c.waiting \subseteq c.queued /\ c.queued \subseteq {Steer} \cup c.answered
    BY DEF ChildOK
  <1>2. queued \in SUBSET Int /\ waiting \in SUBSET Int /\ c.queued \subseteq queued /\ waiting \subseteq queued
        /\ queued \subseteq {Steer} \cup c.answered
    <2>1. inputs \subseteq {Steer} \cup c.answered /\ inputs \subseteq Int
      BY <1>1 DEF Steer
    <2>2. queued \subseteq Int /\ waiting \subseteq Int
      BY <2>1, <1>1
    <2>3. waiting \subseteq queued /\ c.queued \subseteq queued
      BY <1>a
    <2>4. queued \subseteq {Steer} \cup c.answered
      BY <1>a, <2>1
    <2> QED BY <2>2, <2>3, <2>4
  <1>3. Lost(c) => (waiting = c.waiting \/ Steer \in queued)
    <2> SUFFICES ASSUME Lost(c), inputs # {} PROVE Steer \in inputs
      OBVIOUS
    <2>1. c.answered = {}
      BY DEF ChildOK, Lost
    <2> QED BY <2>1
  <1>4. [c EXCEPT !.queued = @ \cup inputs, !.waiting = @ \cup inputs] = d
    OBVIOUS
  <1> HIDE DEF queued, waiting
  <1>5. /\ d.ends = c.ends /\ d.open = c.open /\ d.turns = c.turns /\ d.queued = queued /\ d.answered = c.answered
        /\ d.questions = c.questions /\ d.exists = c.exists /\ d.waiting = waiting /\ d.gone = c.gone
    BY <1>1 DEF ChildType
  <1>6. d \in ChildType
    BY <1>1, <1>2 DEF ChildType
  <1> HIDE DEF d
  <1>7. Latest(d) = Latest(c) /\ Shown(d) = Shown(c) /\ Latest(c) \in Nat /\ Len(c.turns) \in Nat
        /\ (HasOutcome(d) <=> HasOutcome(c)) /\ (InitialStarted(d) <=> InitialStarted(c))
    BY <1>1, <1>5 DEF Latest, Shown, ChildType, HasOutcome, InitialStarted
  <1>8. ChildOK(d)
    BY <1>2, <1>5, <1>6, <1>7 DEF ChildOK
  <1>9. Advances(c, d)
    BY <1>2, <1>3, <1>5, <1>7 DEF Advances, Lost
  <1> QED BY <1>4, <1>8, <1>9 DEF Commits

LEMMA CommitsEnqueued ==
    ASSUME NEW c, ChildOK(c), NEW input \in {Steer} \cup c.answered PROVE Commits(c, Enqueued(c, input))
  <1> DEFINE r == Reaped(c)
  <1>1. Commits(c, r)
    BY CommitsReaped
  <1> HIDE DEF r
  <1>2. ChildOK(r) /\ input \in {Steer} \cup r.answered
    BY <1>1 DEF Commits, Advances
  <1>3. Commits(r, [r EXCEPT !.queued = @ \cup {input}, !.waiting = @ \cup {input}])
    BY <1>2, CommitsQueued
  <1>4. Commits(r, r)
    BY <1>2, CommitsNothing
  <1>5. Commits(r, Enqueued(c, input))
    BY <1>3, <1>4 DEF Enqueued, r
  <1> QED BY <1>1, <1>5, CommitsInTurn

LEMMA CommitsResent ==
    ASSUME NEW c, ChildOK(c) PROVE Commits(c, Resent(c))
  <1> DEFINE r == Reaped(c)
             missing == c.answered \ r.queued
             fitting == {q \in missing : Cardinality({p \in missing : p <= q}) <= MaxPending - Cardinality(r.waiting)}
  <1>1. Commits(c, r)
    BY CommitsReaped
  <1>2. fitting \subseteq c.answered
    OBVIOUS
  <1>3. Resent(c) = IF c.answered = {} THEN c ELSE [r EXCEPT !.queued = @ \cup fitting, !.waiting = @ \cup fitting]
    BY DEF Resent, EnqueuedAll
  <1> HIDE DEF r, fitting
  <1>4. ChildOK(r) /\ fitting \in SUBSET ({Steer} \cup r.answered)
    BY <1>1, <1>2 DEF Commits, Advances
  <1>5. Commits(r, [r EXCEPT !.queued = @ \cup fitting, !.waiting = @ \cup fitting])
    BY <1>4, CommitsQueued
  <1>6. Commits(c, [r EXCEPT !.queued = @ \cup fitting, !.waiting = @ \cup fitting])
    BY <1>1, <1>5, CommitsInTurn
  <1> QED BY <1>3, <1>6, CommitsNothing

LEMMA CommitsTaken ==
    ASSUME NEW c, ChildOK(c) PROVE Commits(c, [c EXCEPT !.waiting = @ \ {Steer}])
  <1> DEFINE waiting == c.waiting \ {Steer}
             d == [c EXCEPT !.waiting = waiting]
  <1>1. c \in ChildType /\ waiting \in SUBSET Int /\ waiting \subseteq c.waiting
    BY DEF ChildOK, ChildType
  <1>2. [c EXCEPT !.waiting = @ \ {Steer}] = d
    OBVIOUS
  <1> HIDE DEF waiting
  <1>5. /\ d.ends = c.ends /\ d.open = c.open /\ d.turns = c.turns /\ d.queued = c.queued /\ d.answered = c.answered
        /\ d.questions = c.questions /\ d.exists = c.exists /\ d.waiting = waiting /\ d.gone = c.gone
    BY <1>1 DEF ChildType
  <1>6. d \in ChildType
    BY <1>1 DEF ChildType
  <1> HIDE DEF d
  <1>7. Latest(d) = Latest(c) /\ Shown(d) = Shown(c) /\ Latest(c) \in Nat /\ Len(c.turns) \in Nat
        /\ (HasOutcome(d) <=> HasOutcome(c)) /\ (InitialStarted(d) <=> InitialStarted(c))
    BY <1>1, <1>5 DEF Latest, Shown, ChildType, HasOutcome, InitialStarted
  <1>a. d.waiting \subseteq d.queued
    BY <1>1, <1>5 DEF ChildOK
  <1>8. ChildOK(d)
    BY <1>a, <1>5, <1>6, <1>7 DEF ChildOK
  <1>9. Advances(c, d)
    <2>1. Lost(c) => Lost(d)
      BY <1>1, <1>5, <1>7 DEF Lost
    <2> QED BY <2>1, <1>5, <1>7 DEF Advances
  <1> QED BY <1>2, <1>8, <1>9 DEF Commits

LEMMA CommitsCreated ==
    ASSUME NEW c, ChildOK(c) PROVE Commits(c, [c EXCEPT !.exists = TRUE])
  <1> DEFINE d == [c EXCEPT !.exists = TRUE]
  <1>1. c \in ChildType
    BY DEF ChildOK
  <1>5. /\ d.ends = c.ends /\ d.open = c.open /\ d.turns = c.turns /\ d.queued = c.queued /\ d.answered = c.answered
        /\ d.questions = c.questions /\ d.exists = TRUE /\ d.waiting = c.waiting /\ d.gone = c.gone
    BY <1>1 DEF ChildType
  <1>6. d \in ChildType
    BY <1>1 DEF ChildType
  <1> HIDE DEF d
  <1>7. Latest(d) = Latest(c) /\ Shown(d) = Shown(c) /\ Latest(c) \in Nat /\ Len(c.turns) \in Nat
        /\ (HasOutcome(d) <=> HasOutcome(c)) /\ (InitialStarted(d) <=> InitialStarted(c))
    BY <1>1, <1>5 DEF Latest, Shown, ChildType, HasOutcome, InitialStarted
  <1>8. ChildOK(d)
    BY <1>5, <1>6, <1>7 DEF ChildOK
  <1>9. Advances(c, d)
    BY <1>5, <1>7 DEF Advances, Lost
  <1> QED BY <1>8, <1>9 DEF Commits, d

LEMMA CommitsGone ==
    ASSUME NEW c, ChildOK(c) PROVE Commits(c, [c EXCEPT !.gone = TRUE])
  <1> DEFINE d == [c EXCEPT !.gone = TRUE]
  <1>1. c \in ChildType
    BY DEF ChildOK
  <1>5. /\ d.ends = c.ends /\ d.open = c.open /\ d.turns = c.turns /\ d.queued = c.queued /\ d.answered = c.answered
        /\ d.questions = c.questions /\ d.exists = c.exists /\ d.waiting = c.waiting /\ d.gone = TRUE
    BY <1>1 DEF ChildType
  <1>6. d \in ChildType
    BY <1>1 DEF ChildType
  <1> HIDE DEF d
  <1>7. Latest(d) = Latest(c) /\ Shown(d) = 0 /\ Latest(c) \in Nat /\ Len(c.turns) \in Nat
        /\ (HasOutcome(d) <=> HasOutcome(c)) /\ (InitialStarted(d) <=> InitialStarted(c))
    BY <1>1, <1>5 DEF Latest, Shown, ChildType, HasOutcome, InitialStarted
  <1>8. ChildOK(d)
    BY <1>5, <1>6, <1>7 DEF ChildOK
  <1>9. Advances(c, d)
    BY <1>5, <1>7 DEF Advances, Lost
  <1> QED BY <1>8, <1>9 DEF Commits, d

LEMMA CommitsAnswered ==
    ASSUME NEW c, ChildOK(c), NEW q \in 1..MaxQuestions, Accepts(c, q)
    PROVE  /\ Commits(c, [c EXCEPT !.answered = @ \cup {q}])
           /\ q \in [c EXCEPT !.answered = @ \cup {q}].answered
  <1> DEFINE answered == c.answered \cup {q}
             d == [c EXCEPT !.answered = answered]
  <1>1. c \in ChildType /\ c.answered \in SUBSET Int /\ Latest(c) \in Nat
    BY DEF ChildOK, ChildType, Latest
  <1>2. q \in 1..Latest(c)
    BY <1>1, TasksConstants DEF Accepts, Outstanding, ChildOK
  <1>3. answered \in SUBSET Int /\ answered \subseteq 1..Latest(c) /\ c.answered \subseteq answered /\ q \in answered
    BY <1>1, <1>2 DEF ChildOK
  <1>4. [c EXCEPT !.answered = @ \cup {q}] = d
    OBVIOUS
  <1> HIDE DEF answered
  <1>5. /\ d.ends = c.ends /\ d.open = c.open /\ d.turns = c.turns /\ d.queued = c.queued /\ d.answered = answered
        /\ d.questions = c.questions /\ d.exists = c.exists /\ d.waiting = c.waiting /\ d.gone = c.gone
    BY <1>1 DEF ChildType
  <1>6. d \in ChildType
    BY <1>1, <1>3 DEF ChildType
  <1> HIDE DEF d
  <1>7. Latest(d) = Latest(c) /\ Shown(d) = Shown(c) /\ Latest(c) \in Nat /\ Len(c.turns) \in Nat
        /\ (HasOutcome(d) <=> HasOutcome(c)) /\ (InitialStarted(d) <=> InitialStarted(c))
    BY <1>1, <1>5 DEF Latest, Shown, ChildType, HasOutcome, InitialStarted
  <1>8. ChildOK(d)
    <2>1. d.queued \subseteq {Steer} \cup d.answered /\ d.answered \subseteq 1..Latest(d)
      BY <1>3, <1>5, <1>7 DEF ChildOK
    <2> QED BY <2>1, <1>5, <1>6, <1>7 DEF ChildOK
  <1>9. Advances(c, d)
    BY <1>3, <1>5, <1>7 DEF Advances, Lost
  <1> QED BY <1>3, <1>4, <1>5, <1>8, <1>9 DEF Commits

LEMMA CommitsAsked ==
    ASSUME NEW c, ChildOK(c), NEW turn, Shown(c) = turn, turn # 0, NEW input \in Int
    PROVE  Commits(c, [c EXCEPT !.questions = Append(@, [turn |-> turn, input |-> input])])
  <1> DEFINE question == [turn |-> turn, input |-> input]
             questions == Append(c.questions, question)
             d == [c EXCEPT !.questions = questions]
  <1>1. c \in ChildType /\ c.questions \in Seq(QuestionType) /\ c.answered \in SUBSET Int /\ Latest(c) = Len(c.questions)
        /\ Latest(c) \in Nat /\ Len(c.turns) \in Nat
    BY DEF ChildOK, ChildType, Latest
  <1>2. turn = Len(c.turns)
    BY DEF Shown, ChildOK
  <1>3. question \in QuestionType /\ question.turn = turn
    BY <1>1, <1>2 DEF QuestionType
  <1> HIDE DEF question
  <1>4. /\ questions \in Seq(QuestionType) /\ Len(questions) = Latest(c) + 1
        /\ \A q \in 1..Latest(c) : questions[q] = c.questions[q]
        /\ questions[Latest(c) + 1] = question
    BY <1>1, <1>3
  <1>a. [c EXCEPT !.questions = Append(@, [turn |-> turn, input |-> input])] = d
    BY DEF question
  <1> HIDE DEF questions
  <1>5. /\ d.ends = c.ends /\ d.open = c.open /\ d.turns = c.turns /\ d.queued = c.queued /\ d.answered = c.answered
        /\ d.questions = questions /\ d.exists = c.exists /\ d.waiting = c.waiting /\ d.gone = c.gone
    BY <1>1 DEF ChildType
  <1>6. d \in ChildType
    BY <1>1, <1>4 DEF ChildType
  <1> HIDE DEF d
  <1>7. Latest(d) = Latest(c) + 1 /\ Shown(d) = Shown(c) /\ (HasOutcome(d) <=> HasOutcome(c))
    BY <1>4, <1>5 DEF Latest, Shown, HasOutcome
  <1>8. ChildOK(d)
    <2>1. d.answered \subseteq 1..Latest(d)
      BY <1>1, <1>5, <1>7 DEF ChildOK
    <2>2. Latest(d) # 0
      BY <1>1, <1>7
    <2> QED BY <2>1, <2>2, <1>5, <1>6 DEF ChildOK
  <1>9. Advances(c, d)
    <2>1. \A q \in 1..Latest(d) : q > Latest(c) => d.questions[q].turn >= Len(c.turns)
      BY <1>1, <1>2, <1>3, <1>4, <1>5, <1>7
    <2>2. \A q \in 1..Latest(c) : d.questions[q] = c.questions[q]
      BY <1>4, <1>5
    <2>3. ~Lost(c)
      BY DEF Lost
    <2> QED BY <2>1, <2>2, <2>3, <1>1, <1>5, <1>7 DEF Advances
  <1> QED BY <1>a, <1>8, <1>9 DEF Commits

-----------------------------------------------------------------------------
(* What is known of a task besides its child, and what survives commits.     *)

(* The turns the executor was called in are the child's, one of a question's *)
(* later turns works on its answer or a later one.                           *)
WorkOK(c, w) ==
    /\ w \subseteq 1..Len(c.turns)
    /\ \A q \in 1..Latest(c) : \A n \in w :
         n > c.questions[q].turn => c.turns[n].input >= q /\ c.turns[n].input \in c.answered

(* A cancelled task, none of whose work shows as open.                       *)
Stopped(c, w) == c.ends = <<"cancelled">> /\ Shown(c) \notin w

(* What a notice may tell.                                                   *)
Tells(c, status) ==
    \/ status = EndOf(c) /\ status \in Outcomes
    \/ status = "interrupted" /\ (Steer \in c.queued \/ c.ends = <<"failed">>)

Ops == {"none", "start", "work", "followup", "recover", "reconcile", "cancel", "answer", "steer"}
TurnSteps == {"begun", "running", "asking", "result", "record", "end"}
FiberType ==
    [op : Ops,
     step : TurnSteps \cup {"idle", "recorded", "begin", "settle", "told", "notice", "controls", "answers", "run",
                            "stop", "child", "turn", "parent", "send", "refused"},
     task : Task, turn : Int, open : Nat, saw : BOOLEAN, result : Words]

FiberOK(r, c, w) ==
    /\ r \in FiberType
    /\ r.step \in TurnSteps => r.turn \in 1..Len(c.turns) /\ r.op \in {"work", "followup", "recover"}
    /\ r.step \in {"result", "record"} => r.result \in Outcomes
    /\ r.step = "notice" => Tells(c, r.result)
    /\ r.op = "answer" => r.turn \in c.answered
    /\ r.op = "cancel" /\ r.step = "turn" => c.ends = <<"cancelled">> /\ (Shown(c) \in w => Shown(c) = r.open)
    /\ r.op = "cancel" /\ r.step = "parent" => Stopped(c, w)

TasksInvariant ==
    /\ child \in [Task -> ChildType] /\ worked \in [Task -> SUBSET Nat]
    /\ fiber \in [Fiber -> FiberType] /\ noted \subseteq Task
    /\ told \in [Task -> Words]
    /\ \A t \in Task : ChildOK(child[t]) /\ WorkOK(child[t], worked[t])
    /\ \A f \in Fiber : FiberOK(fiber[f], child[fiber[f].task], worked[fiber[f].task])
    /\ \A t \in noted : Stopped(child[t], worked[t])
    /\ \A t \in Task : told[t] = "none" \/ Tells(child[t], told[t])

LEMMA TellsLasts ==
    ASSUME NEW c, NEW d, ChildOK(c), Commits(c, d), NEW status, Tells(c, status) PROVE Tells(d, status)
  <1>1. CASE status = "interrupted" /\ (Steer \in c.queued \/ c.ends = <<"failed">>)
    BY <1>1 DEF Commits, Advances, Tells, HasOutcome
  <1>2. CASE status = EndOf(c) /\ status \in Outcomes
    <2>1. c.exists
      BY <1>2 DEF EndOf, Outcomes
    <2>2. CASE HasOutcome(c)
      BY <2>1, <2>2, <1>2 DEF EndOf, Tells, Commits, Advances, HasOutcome
    <2>3. CASE ~HasOutcome(c)
      <3>1. Lost(c) /\ status = "interrupted"
        BY <2>1, <2>3, <1>2 DEF EndOf, Lost, Outcomes
      <3>2. Lost(d) \/ Steer \in d.queued \/ d.ends = <<"failed">>
        BY <3>1 DEF Commits, Advances
      <3>3. Lost(d) => EndOf(d) = "interrupted"
        BY DEF Lost, EndOf, Outstanding
      <3> QED BY <3>1, <3>2, <3>3 DEF Tells, Outcomes
    <2> QED BY <2>2, <2>3
  <1> QED BY <1>1, <1>2 DEF Tells

LEMMA StoppedLasts ==
    ASSUME NEW c, NEW d, NEW w, ChildOK(c), WorkOK(c, w), Commits(c, d), Stopped(c, w) PROVE Stopped(d, w)
  <1>1. Len(c.turns) \in Nat /\ Shown(d) \in Nat
    BY DEF Commits, ChildOK, ChildType, Shown
  <1>2. d.ends = <<"cancelled">>
    BY DEF Stopped, Commits, Advances, HasOutcome
  <1>3. Shown(d) \notin w
    BY <1>1 DEF Stopped, Commits, Advances, WorkOK
  <1> QED BY <1>2, <1>3 DEF Stopped

LEMMA WorkLasts ==
    ASSUME NEW c, NEW d, NEW w, ChildOK(c), WorkOK(c, w), Commits(c, d) PROVE WorkOK(d, w)
  <1>1. Len(c.turns) \in Nat /\ Len(d.turns) \in Nat /\ Len(c.turns) <= Len(d.turns)
        /\ Latest(c) \in Nat /\ Latest(d) \in Nat
    BY DEF Commits, Advances, ChildOK, ChildType, Latest
  <1>2. w \subseteq 1..Len(c.turns) /\ w \subseteq 1..Len(d.turns)
    BY <1>1 DEF WorkOK
  <1>3. ASSUME NEW q \in 1..Latest(d), NEW n \in w, n > d.questions[q].turn
        PROVE  d.turns[n].input >= q /\ d.turns[n].input \in d.answered
    <2>1. CASE q <= Latest(c)
      <3>1. q \in 1..Latest(c) /\ d.questions[q] = c.questions[q]
        BY <2>1, <1>1 DEF Commits, Advances
      <3>2. c.turns[n].input >= q /\ c.turns[n].input \in c.answered
        BY <3>1, <1>3 DEF WorkOK
      <3>3. d.turns[n].input = c.turns[n].input /\ c.answered \subseteq d.answered
        BY <1>2 DEF Commits, Advances
      <3> QED BY <3>2, <3>3
    <2>2. CASE q > Latest(c)
      <3>1. d.questions[q].turn >= Len(c.turns)
        BY <2>2 DEF Commits, Advances
      <3>2. d.questions[q] \in QuestionType
        BY <1>1 DEF Commits, ChildOK, ChildType, Latest
      <3>3. d.questions[q].turn \in Nat
        BY <3>2 DEF QuestionType
      <3> QED BY <3>1, <3>3, <1>1, <1>2, <1>3
    <2> QED BY <2>1, <2>2, <1>1
  <1> QED BY <1>2, <1>3 DEF WorkOK

LEMMA FiberLasts ==
    ASSUME NEW r, NEW c, NEW d, NEW w, ChildOK(c), WorkOK(c, w), Commits(c, d), FiberOK(r, c, w)
    PROVE  FiberOK(r, d, w)
  <1>1. Len(c.turns) \in Nat /\ Len(d.turns) \in Nat /\ Len(c.turns) <= Len(d.turns) /\ Shown(d) \in Nat
    BY DEF Commits, Advances, ChildOK, ChildType, Shown
  <1>2. r.step \in TurnSteps => r.turn \in 1..Len(d.turns) /\ r.op \in {"work", "followup", "recover"}
    BY <1>1 DEF FiberOK
  <1>3. r.step = "notice" => Tells(d, r.result)
    BY TellsLasts DEF FiberOK
  <1>4. r.op = "answer" => r.turn \in d.answered
    BY DEF FiberOK, Commits, Advances
  <1>5. r.op = "cancel" /\ r.step = "turn" => d.ends = <<"cancelled">> /\ (Shown(d) \in w => Shown(d) = r.open)
    <2> SUFFICES ASSUME r.op = "cancel" /\ r.step = "turn" PROVE d.ends = <<"cancelled">> /\ (Shown(d) \in w => Shown(d) = r.open)
      OBVIOUS
    <2>1. c.ends = <<"cancelled">> /\ (Shown(c) \in w => Shown(c) = r.open)
      BY DEF FiberOK
    <2>2. d.ends = <<"cancelled">>
      BY <2>1 DEF Commits, Advances, HasOutcome
    <2>3. Shown(d) \in w => Shown(d) = Shown(c)
      BY <1>1 DEF Commits, Advances, WorkOK
    <2> QED BY <2>1, <2>2, <2>3
  <1>6. r.op = "cancel" /\ r.step = "parent" => Stopped(d, w)
    BY StoppedLasts DEF FiberOK
  <1> QED BY <1>2, <1>3, <1>4, <1>5, <1>6 DEF FiberOK

LEMMA IdleIsOK == Idle \in FiberType /\ Idle.task \in Task /\ \A c, w : FiberOK(Idle, c, w)
  <1>1. (CHOOSE t \in Task : TRUE) \in Task
    BY TasksConstants
  <1> DEFINE first == CHOOSE t \in Task : TRUE
  <1> HIDE DEF first
  <1>2. first \in Task
    BY <1>1 DEF first
  <1>3. Idle = [op |-> "none", step |-> "idle", task |-> first, turn |-> 0, open |-> 0, saw |-> FALSE, result |-> "none"]
    BY DEF Idle, first
  <1>4. Idle \in FiberType /\ Idle.op = "none" /\ Idle.step = "idle" /\ Idle.task = first
    BY <1>2, <1>3 DEF FiberType, Ops, TurnSteps, Words
  <1> QED BY <1>2, <1>4 DEF FiberOK, TurnSteps

(* A step of one fiber that commits to one child.                            *)
LEMMA ChildStep ==
    ASSUME TasksInvariant, NEW f \in Fiber, NEW t \in Task,
           NEW d, Commits(child[t], d), child' = [child EXCEPT ![t] = d],
           NEW r, fiber' = [fiber EXCEPT ![f] = r], FiberOK(r, child'[r.task], worked[r.task]),
           worked' = worked, noted' = noted, told' = told
    PROVE  TasksInvariant'
  <1>1. child[t] \in ChildType /\ d \in ChildType /\ ChildOK(child[t]) /\ ChildOK(d)
    BY DEF TasksInvariant, Commits, ChildOK
  <1>2. r \in FiberType
    BY DEF FiberOK
  <1>3. /\ child' \in [Task -> ChildType] /\ fiber' \in [Fiber -> FiberType] /\ noted' \subseteq Task
        /\ worked' \in [Task -> SUBSET Nat] /\ told' \in [Task -> Words]
    BY <1>1, <1>2 DEF TasksInvariant
  <1>4. \A s \in Task : ChildOK(child[s]) /\ WorkOK(child[s], worked[s]) /\ Commits(child[s], child'[s])
    <2>1. ASSUME NEW s \in Task, s = t PROVE Commits(child[s], child'[s])
      BY <2>1, <1>3 DEF TasksInvariant
    <2>2. ASSUME NEW s \in Task, s # t PROVE Commits(child[s], child'[s])
      <3>1. child'[s] = child[s] /\ ChildOK(child[s])
        BY <2>2 DEF TasksInvariant
      <3> QED BY <3>1, CommitsNothing
    <2>3. \A s \in Task : ChildOK(child[s]) /\ WorkOK(child[s], worked[s])
      BY DEF TasksInvariant
    <2> QED BY <2>1, <2>2, <2>3
  <1>5. \A s \in Task : ChildOK(child'[s]) /\ WorkOK(child'[s], worked'[s])
    <2> SUFFICES ASSUME NEW s \in Task PROVE ChildOK(child'[s]) /\ WorkOK(child'[s], worked[s])
      OBVIOUS
    <2>1. ChildOK(child[s]) /\ WorkOK(child[s], worked[s]) /\ Commits(child[s], child'[s])
      BY <1>4
    <2>2. WorkOK(child'[s], worked[s])
      BY <2>1, WorkLasts
    <2> QED BY <2>1, <2>2 DEF Commits
  <1>6. \A g \in Fiber : FiberOK(fiber'[g], child'[fiber'[g].task], worked'[fiber'[g].task])
    <2> SUFFICES ASSUME NEW g \in Fiber PROVE FiberOK(fiber'[g], child'[fiber'[g].task], worked[fiber'[g].task])
      OBVIOUS
    <2>1. CASE g = f
      <3>1. fiber'[g] = r
        BY <2>1 DEF TasksInvariant
      <3> QED BY <3>1
    <2>2. CASE g # f
      <3>1. fiber'[g] = fiber[g] /\ fiber[g] \in FiberType /\ FiberOK(fiber[g], child[fiber[g].task], worked[fiber[g].task])
        BY <2>2 DEF TasksInvariant
      <3>2. fiber[g].task \in Task
        BY <3>1 DEF FiberType
      <3>3. FiberOK(fiber[g], child'[fiber[g].task], worked[fiber[g].task])
        BY <3>1, <3>2, <1>4, FiberLasts
      <3> QED BY <3>1, <3>3
    <2> QED BY <2>1, <2>2
  <1>7. \A s \in noted' : Stopped(child'[s], worked'[s])
    <2> SUFFICES ASSUME NEW s \in noted PROVE Stopped(child'[s], worked[s])
      OBVIOUS
    <2>1. s \in Task /\ Stopped(child[s], worked[s])
      BY DEF TasksInvariant
    <2> QED BY <2>1, <1>4, StoppedLasts
  <1>8. \A s \in Task : told'[s] = "none" \/ Tells(child'[s], told'[s])
    <2> SUFFICES ASSUME NEW s \in Task, told[s] # "none" PROVE Tells(child'[s], told[s])
      OBVIOUS
    <2>1. Tells(child[s], told[s])
      BY DEF TasksInvariant
    <2> QED BY <2>1, <1>4, TellsLasts
  <1> QED BY <1>3, <1>5, <1>6, <1>7, <1>8 DEF TasksInvariant

(* A step of one fiber that commits to no child.                             *)
LEMMA FiberStep ==
    ASSUME TasksInvariant, NEW f \in Fiber, child' = child,
           NEW r, fiber' = [fiber EXCEPT ![f] = r], FiberOK(r, child[r.task], worked[r.task]),
           worked' = worked, noted' = noted, told' = told
    PROVE  TasksInvariant'
  <1>1. PICK t \in Task : TRUE
    BY TasksConstants
  <1> DEFINE d == child[t]
  <1>2. Commits(child[t], d)
    BY CommitsNothing DEF TasksInvariant
  <1>3. child' = [child EXCEPT ![t] = d]
    BY DEF TasksInvariant
  <1>4. FiberOK(r, child'[r.task], worked[r.task])
    OBVIOUS
  <1> HIDE DEF d
  <1> QED BY <1>2, <1>3, <1>4, ChildStep

(* A step of no fiber that commits to one child.                             *)
LEMMA OwnStep ==
    ASSUME TasksInvariant, NEW f \in Fiber, NEW d, Commits(child[fiber[f].task], d),
           child' = [child EXCEPT ![fiber[f].task] = d], fiber' = fiber,
           worked' = worked, noted' = noted, told' = told
    PROVE  TasksInvariant'
  <1> DEFINE r == fiber[f]
             t == r.task
  <1>1. fiber' = [fiber EXCEPT ![f] = r] /\ r \in FiberType /\ FiberOK(r, child[t], worked[t])
    BY DEF TasksInvariant
  <1>2. t \in Task
    BY <1>1 DEF FiberType
  <1>3. child'[t] = d /\ ChildOK(child[t]) /\ WorkOK(child[t], worked[t])
    BY <1>2 DEF TasksInvariant
  <1>4. FiberOK(r, child'[r.task], worked[r.task])
    BY <1>1, <1>3, FiberLasts
  <1>5. Commits(child[t], d) /\ child' = [child EXCEPT ![t] = d]
    OBVIOUS
  <1> HIDE DEF r, t
  <1> QED BY <1>1, <1>2, <1>4, <1>5, ChildStep

(* A step in which nothing the invariant speaks of changes.                  *)
LEMMA NoStep ==
    ASSUME TasksInvariant, child' = child, fiber' = fiber, worked' = worked, noted' = noted, told' = told
    PROVE  TasksInvariant'
  BY DEF TasksInvariant

(* What a fiber knows.                                                       *)
LEMMA Knows ==
    ASSUME TasksInvariant, NEW f \in Fiber
    PROVE  /\ fiber[f] \in FiberType /\ fiber[f].task \in Task
           /\ FiberOK(fiber[f], Mine(f), worked[fiber[f].task])
           /\ ChildOK(Mine(f)) /\ WorkOK(Mine(f), worked[fiber[f].task])
  <1>1. fiber[f] \in FiberType /\ FiberOK(fiber[f], Mine(f), worked[fiber[f].task])
    BY DEF TasksInvariant, Mine
  <1>2. fiber[f].task \in Task
    BY <1>1 DEF FiberType
  <1> QED BY <1>1, <1>2 DEF TasksInvariant, Mine

(* Steps of a fiber on its own task, or on the task it was called for.       *)
LEMMA TaskStep ==
    ASSUME TasksInvariant, NEW f \in Fiber, NEW t \in Task, NEW d, Commits(child[t], d), SetChild(t, d),
           NEW r, Go(f, r), r = Idle \/ (r.task = t /\ FiberOK(r, d, worked[t])),
           worked' = worked, noted' = noted, told' = told
    PROVE  TasksInvariant'
  <1>1. child'[t] = d
    BY DEF TasksInvariant, SetChild
  <1>2. FiberOK(r, child'[r.task], worked[r.task])
    BY <1>1, IdleIsOK
  <1> QED BY <1>2, ChildStep DEF SetChild, Go

LEMMA MyStep ==
    ASSUME TasksInvariant, NEW f \in Fiber, NEW d, Commits(Mine(f), d), SetChild(fiber[f].task, d),
           NEW r, Go(f, r), r = Idle \/ (r.task = fiber[f].task /\ FiberOK(r, d, worked[fiber[f].task])),
           worked' = worked, noted' = noted, told' = told
    PROVE  TasksInvariant'
  BY Knows, TaskStep DEF Mine

LEMMA QuietStep ==
    ASSUME TasksInvariant, NEW f \in Fiber, child' = child,
           NEW r, Go(f, r), r = Idle \/ FiberOK(r, child[r.task], worked[r.task]),
           worked' = worked, noted' = noted, told' = told
    PROVE  TasksInvariant'
  BY FiberStep, IdleIsOK DEF Go

(* What a fiber may do next without knowing more.                            *)
LEMMA FreshOK ==
    ASSUME NEW r \in FiberType, NEW c, NEW w, r.op \notin {"cancel", "answer"}, r.step \notin TurnSteps \cup {"notice"}
    PROVE  FiberOK(r, c, w)
  BY DEF FiberOK, TurnSteps

LEMMA NextOK ==
    ASSUME NEW r, NEW c, NEW w, FiberOK(r, c, w),
           NEW step \in TurnSteps \cup {"idle", "recorded", "begin", "settle", "told", "controls", "answers", "run", "stop", "send", "refused"},
           step \in TurnSteps => r.step \in TurnSteps,
           step \in {"result", "record"} => r.result \in Outcomes
    PROVE  FiberOK([r EXCEPT !.step = step], c, w) /\ [r EXCEPT !.step = step].task = r.task
  <1> DEFINE s == [r EXCEPT !.step = step]
  <1>1. r \in FiberType
    BY DEF FiberOK
  <1>2. s.op = r.op /\ s.step = step /\ s.turn = r.turn /\ s.result = r.result /\ s.task = r.task /\ s.open = r.open
    BY <1>1 DEF FiberType
  <1>3. s \in FiberType
    BY <1>1 DEF FiberType
  <1> HIDE DEF s
  <1>4. FiberOK(s, c, w)
    BY <1>2, <1>3 DEF FiberOK, TurnSteps
  <1> QED BY <1>2, <1>4 DEF s

LEMMA DoesOK ==
    ASSUME NEW t \in Task, NEW op \in Ops \ {"cancel", "answer"},
           NEW step \in {"recorded", "begin", "settle", "told", "controls", "answers", "run", "stop", "send"},
           NEW c, NEW w
    PROVE  FiberOK([Idle EXCEPT !.op = op, !.step = step, !.task = t], c, w)
  <1> DEFINE r == [Idle EXCEPT !.op = op, !.step = step, !.task = t]
  <1>1. r \in FiberType /\ r.op = op /\ r.step = step
    BY IdleIsOK DEF FiberType
  <1> HIDE DEF r
  <1>2. FiberOK(r, c, w)
    BY <1>1, FreshOK DEF TurnSteps
  <1> QED BY <1>2 DEF r

-----------------------------------------------------------------------------
(* Every step keeps the invariant.                                           *)

LEMMA StartsKeep ==
    ASSUME TasksInvariant, NEW f \in Fiber, NEW t \in Task,
           CallStart(f, t) \/ CallSteer(f, t) \/ RunWork(f, t)
    PROVE  TasksInvariant'
  <1>1. CASE CallStart(f, t)
    <2> DEFINE r == [Idle EXCEPT !.op = "start", !.step = "recorded", !.task = t, !.saw = t \notin started]
    <2>1. r \in FiberType /\ r.op = "start" /\ r.step = "recorded"
      BY IdleIsOK DEF FiberType, Ops
    <2>2. Go(f, r) /\ child' = child /\ worked' = worked /\ noted' = noted /\ told' = told
      BY <1>1 DEF CallStart
    <2> HIDE DEF r
    <2>3. FiberOK(r, child[r.task], worked[r.task])
      BY <2>1, FreshOK DEF TurnSteps
    <2> QED BY <2>2, <2>3, QuietStep
  <1>2. CASE CallSteer(f, t)
    <2> DEFINE r == [Idle EXCEPT !.op = "steer", !.step = "send", !.task = t]
    <2>1. Go(f, r) /\ child' = child /\ worked' = worked /\ noted' = noted /\ told' = told
      BY <1>2 DEF CallSteer, Does, parent
    <2>2. \A c, w : FiberOK(r, c, w)
      BY DoesOK DEF Ops
    <2> HIDE DEF r
    <2> QED BY <2>1, <2>2, QuietStep
  <1>3. CASE RunWork(f, t)
    <2> DEFINE step == IF EndOf(child[t]) = "pending" /\ ~InitialStarted(child[t]) THEN "begin" ELSE "settle"
               r == [Idle EXCEPT !.op = "work", !.step = step, !.task = t]
    <2>1. Go(f, r) /\ child' = child /\ worked' = worked /\ noted' = noted /\ told' = told
      BY <1>3 DEF RunWork, Does, parent
    <2>2. step \in {"begin", "settle"}
      OBVIOUS
    <2> HIDE DEF step
    <2>3. \A c, w : FiberOK(r, c, w)
      BY <2>2, DoesOK DEF Ops
    <2> HIDE DEF r
    <2> QED BY <2>1, <2>3, QuietStep
  <1> QED BY <1>1, <1>2, <1>3

LEMMA CancelsKeep ==
    ASSUME TasksInvariant, NEW f \in Fiber, NEW t \in Task, CallCancel(f, t)
    PROVE  TasksInvariant'
  <1> DEFINE open == Shown(child[t])
             r == [Idle EXCEPT !.op = "cancel", !.step = "child", !.task = t, !.open = open]
  <1>1. Go(f, r) /\ child' = child /\ worked' = worked /\ noted' = noted /\ told' = told
    BY DEF CallCancel, parent
  <1>2. open \in Nat
    BY DEF TasksInvariant, ChildOK, ChildType, Shown
  <1> HIDE DEF open
  <1>3. r \in FiberType /\ r.op = "cancel" /\ r.step = "child"
    BY <1>2, IdleIsOK DEF FiberType, Ops
  <1> HIDE DEF r
  <1>4. \A c, w : FiberOK(r, c, w)
    BY <1>3 DEF FiberOK, TurnSteps
  <1> QED BY <1>1, <1>4, QuietStep

LEMMA AnswersKeep ==
    ASSUME TasksInvariant, NEW f \in Fiber, NEW t \in Task, NEW q \in 1..MaxQuestions, CallAnswer(f, t, q)
    PROVE  TasksInvariant'
  <1> DEFINE d == [child[t] EXCEPT !.answered = @ \cup {q}]
             r == [Idle EXCEPT !.op = "answer", !.step = "send", !.task = t, !.turn = q]
  <1>1. Go(f, r) /\ SetChild(t, d) /\ Accepts(child[t], q) /\ worked' = worked /\ noted' = noted /\ told' = told
    BY DEF CallAnswer, parent
  <1>2. ChildOK(child[t]) /\ q \in Int
    BY TasksConstants DEF TasksInvariant
  <1>3. Commits(child[t], d) /\ q \in d.answered
    BY <1>1, <1>2, CommitsAnswered
  <1>4. r \in FiberType /\ r.op = "answer" /\ r.step = "send" /\ r.turn = q /\ r.task = t
    BY <1>2, IdleIsOK DEF FiberType, Ops
  <1> HIDE DEF d, r
  <1>5. FiberOK(r, d, worked[t])
    BY <1>3, <1>4 DEF FiberOK, TurnSteps
  <1> QED BY <1>1, <1>3, <1>4, <1>5, TaskStep

LEMMA StartForksKeeps ==
    ASSUME TasksInvariant, NEW f \in Fiber, StartForks(f) PROVE TasksInvariant'
  <1> DEFINE d == [Mine(f) EXCEPT !.exists = TRUE]
  <1>1. Go(f, Idle) /\ SetChild(fiber[f].task, d) /\ worked' = worked /\ noted' = noted /\ told' = told
    BY DEF StartForks, Done, parent, Mine
  <1>2. Commits(Mine(f), d)
    BY Knows, CommitsCreated
  <1> HIDE DEF d
  <1> QED BY <1>1, <1>2, MyStep

(* A turn that is begun: its number is in the fiber's hand.                  *)
LEMMA BegunOK ==
    ASSUME NEW r \in FiberType, NEW c, NEW w, r.op \in {"work", "followup", "recover"}, r.step = "begun",
           r.turn \in 1..Len(c.turns)
    PROVE  FiberOK(r, c, w)
  BY DEF FiberOK, TurnSteps

LEMMA WorkBeginsKeeps ==
    ASSUME TasksInvariant, NEW f \in Fiber, WorkBegins(f) PROVE TasksInvariant'
  <1> DEFINE c == Reaped(Mine(f))
  <1>r. Commits(Mine(f), c) /\ ChildOK(c)
    BY Knows, CommitsReaped DEF Commits
  <1>0. Commits(Mine(f), c) /\ ChildOK(c) /\ Len(c.turns) \in Nat
    BY <1>r DEF ChildOK, ChildType
  <1>k. fiber[f] \in FiberType /\ FiberOK(fiber[f], Mine(f), worked[fiber[f].task]) /\ ChildOK(Mine(f))
    BY Knows
  <1>w. worked' = worked /\ noted' = noted /\ told' = told /\ fiber[f].op = "work" /\ fiber[f].step = "begin"
    BY DEF WorkBegins, parent, At
  <1>1. CASE c.open # 0 \/ InitialBegun(c)
    <2>1. Go(f, [fiber[f] EXCEPT !.step = "settle"]) /\ child' = child
      BY <1>1 DEF WorkBegins, Step
    <2>2. FiberOK([fiber[f] EXCEPT !.step = "settle"], Mine(f), worked[fiber[f].task])
          /\ [fiber[f] EXCEPT !.step = "settle"].task = fiber[f].task
      BY <1>k, NextOK DEF TurnSteps
    <2> QED BY <2>1, <2>2, <1>w, QuietStep DEF Mine
  <1>2. CASE c.open = 0 /\ ~InitialBegun(c)
    <2> DEFINE d == Opened(c, "task", NoInput, InitialKey)
               n == Len(c.turns) + 1
               r == [fiber[f] EXCEPT !.step = "begun", !.turn = n]
    <2>1. SetChild(fiber[f].task, d) /\ Go(f, r)
      BY <1>2 DEF WorkBegins
    <2>2. ~Lost(c)
      <3>1. ASSUME Lost(c) PROVE FALSE
        <4>1. Latest(c) = 0 /\ \E k \in DOMAIN c.turns : c.turns[k].origin = "task"
          BY <3>1 DEF Lost, InitialStarted
        <4>2. \E k \in DOMAIN c.turns : c.turns[k].key = InitialKey
          BY <4>1, <1>0 DEF ChildOK, ChildType
        <4> QED BY <4>2, <1>2 DEF InitialBegun, KeyUsed
      <3> QED BY <3>1
    <2>3. InitialKey \in Int \X Int
      BY DEF InitialKey
    <2>4. Commits(c, d) /\ Len(d.turns) = n
      BY <1>0, <1>2, <2>2, <2>3, CommitsOpened DEF InitialBegun
    <2>5. Commits(Mine(f), d)
      BY <1>0, <1>k, <2>4, CommitsInTurn
    <2>6. n \in 1..n /\ n \in Int
      BY <1>0
    <2> HIDE DEF d, n, c
    <2>7. r \in FiberType /\ r.op = "work" /\ r.step = "begun" /\ r.turn = n /\ r.task = fiber[f].task
      BY <1>k, <1>w, <2>6 DEF FiberType, TurnSteps
    <2> HIDE DEF r
    <2>8. FiberOK(r, d, worked[fiber[f].task])
      BY <2>4, <2>6, <2>7, BegunOK
    <2> QED BY <2>1, <2>5, <2>7, <2>8, <1>w, MyStep
  <1> QED BY <1>1, <1>2

LEMMA RefusalsKeep ==
    ASSUME TasksInvariant, NEW f \in Fiber, WorkRefused(f) \/ RecordEnd(f) PROVE TasksInvariant'
  <1>1. CASE WorkRefused(f)
    <2> DEFINE r == [fiber[f] EXCEPT !.step = "refused"]
    <2>1. Go(f, r) /\ child' = child /\ worked' = worked /\ noted' = noted /\ told' = told
      BY <1>1 DEF WorkRefused, Step, OnlyFiber, parent
    <2>2. FiberOK(fiber[f], Mine(f), worked[fiber[f].task])
      BY Knows
    <2>3. FiberOK(r, Mine(f), worked[fiber[f].task]) /\ r.task = fiber[f].task
      BY <2>2, NextOK DEF TurnSteps
    <2> HIDE DEF r
    <2> QED BY <2>1, <2>3, QuietStep DEF Mine
  <1>2. CASE RecordEnd(f)
    <2> DEFINE c == Mine(f)
               d == Outcome(c, "failed")
               r == [fiber[f] EXCEPT !.step = "settle"]
    <2>1. SetChild(fiber[f].task, d) /\ Go(f, r) /\ worked' = worked /\ noted' = noted /\ told' = told
      BY <1>2 DEF RecordEnd, Step, parent
    <2>2. ChildOK(c) /\ FiberOK(fiber[f], c, worked[fiber[f].task]) /\ WorkOK(c, worked[fiber[f].task])
      BY Knows
    <2>3. Commits(c, d)
      BY <2>2, CommitsOutcome DEF Outcomes
    <2>4. FiberOK(fiber[f], d, worked[fiber[f].task])
      BY <2>2, <2>3, FiberLasts
    <2>5. FiberOK(r, d, worked[fiber[f].task]) /\ r.task = fiber[f].task
      BY <2>4, NextOK DEF TurnSteps
    <2> HIDE DEF c, d, r
    <2> QED BY <2>1, <2>3, <2>5, MyStep DEF c
  <1> QED BY <1>1, <1>2

LEMMA FollowUpKeeps ==
    ASSUME TasksInvariant, NEW f \in Fiber, NEW t \in Task, FollowUp(f, t) PROVE TasksInvariant'
  <1> DEFINE c == Reaped(child[t])
             n == Len(c.turns) + 1
             r == [Idle EXCEPT !.op = "followup", !.step = "begun", !.task = t, !.turn = n]
  <1>1. PICK input \in c.waiting : SetChild(t, Opened(c, "user", input, FollowUpKey(n)))
    BY DEF FollowUp
  <1> DEFINE d == Opened(c, "user", input, FollowUpKey(n))
  <1>2. c.open = 0 /\ Go(f, r) /\ worked' = worked /\ noted' = noted /\ told' = told
    BY DEF FollowUp, parent
  <1>3. ChildOK(child[t]) /\ Commits(child[t], c) /\ ChildOK(c)
    BY CommitsReaped DEF TasksInvariant, Commits
  <1>4. n \in 1..n /\ n \in Int
    BY <1>3 DEF ChildOK, ChildType
  <1>5. ~Lost(c)
    BY DEF Lost
  <1>6. FollowUpKey(n) \in Int \X Int /\ FollowUpKey(n) # InitialKey
    BY <1>4 DEF FollowUpKey, InitialKey
  <1>7. Commits(c, d) /\ Len(d.turns) = n
    BY <1>2, <1>3, <1>5, <1>6, CommitsOpened
  <1>8. Commits(child[t], d)
    BY <1>3, <1>7, CommitsInTurn
  <1> HIDE DEF d, n, c
  <1>9. r \in FiberType /\ r.op = "followup" /\ r.step = "begun" /\ r.turn = n /\ r.task = t
    BY <1>4, IdleIsOK DEF FiberType, TurnSteps, Ops
  <1> HIDE DEF r
  <1>10. FiberOK(r, d, worked[t])
    BY <1>4, <1>7, <1>9, BegunOK
  <1>11. SetChild(t, d)
    BY <1>1 DEF d
  <1> QED BY <1>2, <1>8, <1>9, <1>10, <1>11, TaskStep

LEMMA RecoverKeeps ==
    ASSUME TasksInvariant, NEW f \in Fiber, NEW t \in Task, Recover(f, t) PROVE TasksInvariant'
  <1> DEFINE b == child[t]
             c == IF b.open # 0 THEN Closed(b, "interrupted") ELSE b
             n == Len(b.turns) + 1
             key == RecoveryKey(Latest(b), Len(b.turns))
             d == Opened(c, "task", NoInput, key)
             r == [Idle EXCEPT !.op = "recover", !.step = "begun", !.task = t, !.turn = n]
  <1>1. SetChild(t, d) /\ Go(f, r) /\ worked' = worked /\ noted' = noted /\ told' = told
    BY DEF Recover, parent
  <1>a. Outstanding(b) # 0
    BY DEF Recover, Recoverable
  <1>2. ChildOK(b) /\ Latest(b) \in Nat /\ Len(b.turns) \in Nat /\ Latest(b) # 0
    BY <1>a DEF TasksInvariant, ChildOK, ChildType, Latest, Outstanding
  <1>3. /\ Commits(b, c) /\ ChildOK(c) /\ c.open = 0 /\ Len(c.turns) = Len(b.turns) /\ c.questions = b.questions
    <2>1. CASE b.open # 0
      <3>1. c = Closed(b, "interrupted") /\ "interrupted" \in Words
        BY <2>1 DEF Words, Outcomes
      <3> HIDE DEF c
      <3>2. Commits(b, c)
        BY <2>1, <3>1, <1>2, CommitsClosed
      <3>3. ChildOK(c) /\ c.open = 0 /\ Len(c.turns) = Len(b.turns) /\ c.questions = b.questions
        BY <2>1, <3>1, <1>2, ClosesItsTurn
      <3> QED BY <3>2, <3>3
    <2>2. CASE b.open = 0
      BY <2>2, <1>2, CommitsNothing
    <2> QED BY <2>1, <2>2
  <1>4. n \in 1..n /\ n \in Int
    BY <1>2
  <1>5. ~Lost(c) /\ Latest(c) # 0
    BY <1>2, <1>3 DEF Lost, Latest
  <1>6. key \in Int \X Int /\ key # InitialKey
    BY <1>2 DEF RecoveryKey, InitialKey
  <1> HIDE DEF key
  <1>7. Commits(c, d) /\ Len(d.turns) = n
    BY <1>3, <1>5, <1>6, CommitsOpened
  <1>8. Commits(b, d)
    BY <1>2, <1>3, <1>7, CommitsInTurn
  <1> HIDE DEF d, n, c
  <1>9. r \in FiberType /\ r.op = "recover" /\ r.step = "begun" /\ r.turn = n /\ r.task = t
    BY <1>4, IdleIsOK DEF FiberType, TurnSteps, Ops
  <1> HIDE DEF r
  <1>10. FiberOK(r, d, worked[t])
    BY <1>4, <1>7, <1>9, BegunOK
  <1> QED BY <1>1, <1>8, <1>9, <1>10, TaskStep

LEMMA CancelledIsOutcome == ASSUME NEW c, c.ends = <<"cancelled">> PROVE HasOutcome(c)
  <1>1. Len(<<"cancelled">>) = 1 /\ Len(<<>>) = 0
    OBVIOUS
  <1> QED BY <1>1 DEF HasOutcome

(* The executor is called in a turn: its work is noted.                      *)
LEMMA ExecuteKeeps ==
    ASSUME TasksInvariant, NEW f \in Fiber, Execute(f) PROVE TasksInvariant'
  <1> DEFINE c == Mine(f)
             t == fiber[f].task
             n == fiber[f].turn
             w == worked[t]
  <1>k. fiber[f] \in FiberType /\ t \in Task /\ FiberOK(fiber[f], c, w) /\ ChildOK(c) /\ WorkOK(c, w)
    BY Knows
  <1>w. child' = child /\ noted' = noted /\ told' = told /\ fiber[f].step = "begun"
    BY DEF Execute, parent
  <1>n. n \in 1..Len(c.turns) /\ fiber[f].op \in {"work", "followup", "recover"} /\ Len(c.turns) \in Nat
    BY <1>k, <1>w DEF FiberOK, TurnSteps, ChildOK, ChildType
  <1>1. CASE Verdict(f) # "run"
    <2> DEFINE step == IF fiber[f].op = "work" /\ Verdict(f) = "completed" THEN "result" ELSE "end"
               verdict == Verdict(f)
               r == [fiber[f] EXCEPT !.step = step, !.result = verdict]
    <2>1. Go(f, r) /\ worked' = worked
      BY <1>1 DEF Execute
    <2>2. verdict \in {"cancelled", "completed", "waiting"} /\ step \in {"result", "end"}
          /\ (step = "result" => verdict = "completed")
      BY <1>1 DEF Verdict
    <2> HIDE DEF verdict, step
    <2>3. r \in FiberType /\ r.op = fiber[f].op /\ r.step = step /\ r.result = verdict /\ r.turn = n /\ r.task = t
      BY <1>k, <2>2 DEF FiberType, TurnSteps, Words, Outcomes
    <2> HIDE DEF r
    <2>4. FiberOK(r, c, w)
      BY <1>n, <2>2, <2>3 DEF FiberOK, TurnSteps, Outcomes
    <2> QED BY <1>w, <2>1, <2>3, <2>4, QuietStep DEF Mine
  <1>2. CASE Verdict(f) = "run"
    <2> DEFINE r == [fiber[f] EXCEPT !.step = "running"]
               v == w \cup {n}
    <2>1. Go(f, r) /\ worked' = [worked EXCEPT ![t] = @ \cup {n}]
      BY <1>2 DEF Execute, Step
    <2>2. ~HasOutcome(c) /\ (Latest(c) = 0 \/ (Latest(c) \in c.answered /\ c.turns[n].input = Latest(c)))
      BY <1>2 DEF Verdict, Eligible
    <2>3. r \in FiberType /\ FiberOK(r, c, w) /\ r.task = t
      BY <1>k, <1>w, NextOK DEF TurnSteps, FiberOK
    <2>4. WorkOK(c, v)
      <3>1. Latest(c) \in Nat
        BY <1>k DEF ChildOK, ChildType, Latest
      <3>2. v \subseteq 1..Len(c.turns)
        BY <1>k, <1>n DEF WorkOK
      <3>3. \A q \in 1..Latest(c) : c.turns[n].input >= q /\ c.turns[n].input \in c.answered
        BY <2>2, <3>1
      <3> QED BY <1>k, <3>2, <3>3 DEF WorkOK
    <2>5. ASSUME NEW s, FiberOK(s, c, w) PROVE FiberOK(s, c, v)
      <3>1. ~(s.op = "cancel" /\ s.step \in {"turn", "parent"})
        BY <2>2, <2>5, CancelledIsOutcome DEF FiberOK, Stopped
      <3> QED BY <2>5, <3>1 DEF FiberOK
    <2>6. worked' \in [Task -> SUBSET Nat] /\ worked'[t] = v /\ \A s \in Task : s # t => worked'[s] = worked[s]
      <3>1. n \in Nat /\ worked \in [Task -> SUBSET Nat]
        BY <1>n DEF TasksInvariant
      <3> QED BY <1>k, <2>1, <3>1
    <2>7. fiber' \in [Fiber -> FiberType] /\ fiber'[f] = r /\ \A g \in Fiber : g # f => fiber'[g] = fiber[g]
      BY <2>1, <2>3 DEF Go, TasksInvariant
    <2>8. \A g \in Fiber : FiberOK(fiber'[g], child'[fiber'[g].task], worked'[fiber'[g].task])
      <3> SUFFICES ASSUME NEW g \in Fiber PROVE FiberOK(fiber'[g], child[fiber'[g].task], worked'[fiber'[g].task])
        BY <1>w
      <3>1. fiber'[g] \in FiberType /\ FiberOK(fiber'[g], child[fiber'[g].task], worked[fiber'[g].task])
        BY <2>3, <2>7 DEF TasksInvariant, Mine
      <3>2. fiber'[g].task \in Task
        BY <3>1 DEF FiberType
      <3>3. CASE fiber'[g].task = t
        BY <3>1, <3>3, <2>5, <2>6 DEF Mine
      <3>4. CASE fiber'[g].task # t
        BY <3>1, <3>2, <3>4, <2>6
      <3> QED BY <3>3, <3>4
    <2>9. \A s \in Task : ChildOK(child'[s]) /\ WorkOK(child'[s], worked'[s])
      BY <1>w, <2>4, <2>6 DEF TasksInvariant, Mine
    <2>10. \A s \in noted' : Stopped(child'[s], worked'[s])
      <3>1. t \notin noted
        BY <2>2, CancelledIsOutcome DEF TasksInvariant, Stopped, Mine
      <3> QED BY <1>w, <2>6, <3>1 DEF TasksInvariant
    <2> QED BY <1>w, <2>6, <2>7, <2>8, <2>9, <2>10 DEF TasksInvariant
  <1> QED BY <1>1, <1>2

LEMMA AsksKeep ==
    ASSUME TasksInvariant, NEW f \in Fiber, Ask(f) PROVE TasksInvariant'
  <1> DEFINE c == Mine(f)
             n == fiber[f].turn
             input == c.turns[n].input
             d == [c EXCEPT !.questions = Append(@, [turn |-> n, input |-> input])]
             r == [fiber[f] EXCEPT !.step = "asking"]
  <1>1. SetChild(fiber[f].task, d) /\ Go(f, r) /\ worked' = worked /\ noted' = noted /\ told' = told
        /\ Shown(c) = n /\ fiber[f].step = "running"
    BY DEF Ask, Step, parent
  <1>2. ChildOK(c) /\ FiberOK(fiber[f], c, worked[fiber[f].task]) /\ WorkOK(c, worked[fiber[f].task])
    BY Knows
  <1>3. n \in 1..Len(c.turns) /\ c.turns \in Seq(TurnType) /\ n # 0
    BY <1>1, <1>2 DEF FiberOK, TurnSteps, ChildOK, ChildType
  <1>4. c.turns[n] \in TurnType
    BY <1>3
  <1>5. input \in Int
    BY <1>4 DEF TurnType
  <1> HIDE DEF input
  <1>6. Commits(c, d)
    BY <1>1, <1>2, <1>3, <1>5, CommitsAsked
  <1> HIDE DEF d
  <1>7. FiberOK(fiber[f], d, worked[fiber[f].task])
    BY <1>2, <1>6, FiberLasts
  <1>8. FiberOK(r, d, worked[fiber[f].task]) /\ r.task = fiber[f].task
    BY <1>1, <1>7, NextOK DEF TurnSteps
  <1> HIDE DEF r
  <1> QED BY <1>1, <1>6, <1>8, MyStep

LEMMA TakesKeep ==
    ASSUME TasksInvariant, NEW f \in Fiber, TakeSteer(f) PROVE TasksInvariant'
  <1> DEFINE d == [Mine(f) EXCEPT !.waiting = @ \ {Steer}]
  <1>1. SetChild(fiber[f].task, d) /\ worked' = worked /\ noted' = noted /\ told' = told /\ fiber' = fiber
    BY DEF TakeSteer, parent
  <1>2. Commits(Mine(f), d)
    BY Knows, CommitsTaken
  <1> HIDE DEF d
  <1> QED BY <1>1, <1>2, OwnStep DEF SetChild, Mine

(* Steps of a turn's fiber that only change what it does next.               *)
LEMMA ReturnsKeep ==
    ASSUME TasksInvariant, NEW f \in Fiber,
           (\E ending \in Endings : ExecutorReturns(f, ending)) \/ DeadlinePasses(f) \/ ReadOutcome(f) \/ AskSends(f)
    PROVE  TasksInvariant'
  <1> DEFINE c == Mine(f)
             t == fiber[f].task
             w == worked[t]
  <1>k. fiber[f] \in FiberType /\ t \in Task /\ FiberOK(fiber[f], c, w)
    BY Knows
  <1>n. fiber[f].step \in TurnSteps => fiber[f].turn \in 1..Len(c.turns) /\ fiber[f].op \in {"work", "followup", "recover"}
    BY <1>k DEF FiberOK
  <1>1. ASSUME NEW ending \in Endings, ExecutorReturns(f, ending) PROVE TasksInvariant'
    <2> DEFINE result == Returned(f, ending)
               step == IF result # "waiting" /\ (fiber[f].op = "work" \/ result = "completed") THEN "result" ELSE "end"
               r == [fiber[f] EXCEPT !.result = result, !.step = step]
    <2>1. Go(f, r) /\ child' = child /\ worked' = worked /\ noted' = noted /\ told' = told /\ fiber[f].step = "running"
      BY <1>1 DEF ExecutorReturns, parent
    <2>2. result \in Outcomes \cup {"waiting"} /\ step \in {"result", "end"} /\ (step = "result" => result \in Outcomes)
      BY TasksConstants DEF Returned
    <2> HIDE DEF result, step
    <2>3. r \in FiberType /\ r.op = fiber[f].op /\ r.step = step /\ r.result = result /\ r.turn = fiber[f].turn /\ r.task = t
      BY <1>k, <2>2 DEF FiberType, TurnSteps, Words
    <2> HIDE DEF r
    <2>4. FiberOK(r, c, w)
      BY <1>n, <2>1, <2>2, <2>3 DEF FiberOK, TurnSteps
    <2> QED BY <2>1, <2>3, <2>4, QuietStep DEF Mine
  <1>2. CASE DeadlinePasses(f)
    <2> DEFINE r == [fiber[f] EXCEPT !.step = "result", !.result = "interrupted"]
    <2>1. Go(f, r) /\ child' = child /\ worked' = worked /\ noted' = noted /\ told' = told /\ fiber[f].step \in TurnSteps
      BY <1>2 DEF DeadlinePasses, Cuttable, OnlyFiber, parent, TurnSteps
    <2>3. r \in FiberType /\ r.op = fiber[f].op /\ r.step = "result" /\ r.result = "interrupted" /\ r.turn = fiber[f].turn /\ r.task = t
      BY <1>k DEF FiberType, TurnSteps, Words, Outcomes
    <2> HIDE DEF r
    <2>4. FiberOK(r, c, w)
      BY <1>n, <2>1, <2>3 DEF FiberOK, TurnSteps, Outcomes
    <2> QED BY <2>1, <2>3, <2>4, QuietStep DEF Mine
  <1>3. CASE ReadOutcome(f)
    <2> DEFINE saw == HasOutcome(Mine(f))
               r == [fiber[f] EXCEPT !.step = "record", !.saw = saw]
    <2>1. Go(f, r) /\ child' = child /\ worked' = worked /\ noted' = noted /\ told' = told /\ fiber[f].step = "result"
      BY <1>3 DEF ReadOutcome, OnlyFiber, parent
    <2>2. saw \in BOOLEAN
      BY DEF HasOutcome
    <2> HIDE DEF saw
    <2>3. r \in FiberType /\ r.op = fiber[f].op /\ r.step = "record" /\ r.result = fiber[f].result /\ r.turn = fiber[f].turn /\ r.task = t
      BY <1>k, <2>2 DEF FiberType, TurnSteps
    <2> HIDE DEF r
    <2>4. FiberOK(r, c, w)
      BY <1>k, <1>n, <2>1, <2>3 DEF FiberOK, TurnSteps
    <2> QED BY <2>1, <2>3, <2>4, QuietStep DEF Mine
  <1>4. CASE AskSends(f)
    <2> DEFINE r == [fiber[f] EXCEPT !.step = "running"]
    <2>1. Go(f, r) /\ child' = child /\ worked' = worked /\ noted' = noted /\ told' = told /\ fiber[f].step = "asking"
      BY <1>4 DEF AskSends, Step
    <2>2. FiberOK(r, c, w) /\ r.task = t
      BY <1>k, <2>1, NextOK DEF TurnSteps
    <2> HIDE DEF r
    <2> QED BY <2>1, <2>2, QuietStep DEF Mine
  <1> QED BY <1>1, <1>2, <1>3, <1>4

LEMMA LeavesOK ==
    ASSUME NEW f \in Fiber, fiber[f] \in FiberType, fiber[f].op \in {"work", "followup", "recover"}, LeavesTurn(f)
    PROVE  \E r : /\ Go(f, r) /\ r.task = fiber[f].task
                  /\ \A c, w : FiberOK(r, c, w)
  <1> DEFINE step == CASE fiber[f].op = "work" -> "settle" [] fiber[f].op = "followup" -> "told" [] OTHER -> "stop"
             op == fiber[f].op
             t == fiber[f].task
             r == [Idle EXCEPT !.op = op, !.task = t, !.step = step]
  <1>1. step \in {"settle", "told", "stop"} /\ op \in Ops /\ op \in {"work", "followup", "recover"} /\ t \in Task
    BY DEF Ops, FiberType
  <1>2. Go(f, r)
    BY DEF LeavesTurn
  <1> HIDE DEF step, op
  <1>3. r \in FiberType /\ r.op = op /\ r.step = step /\ r.task = t
    BY <1>1, IdleIsOK DEF FiberType
  <1> HIDE DEF r
  <1>4. \A c, w : FiberOK(r, c, w)
    BY <1>1, <1>3, FreshOK DEF TurnSteps
  <1> QED BY <1>2, <1>3, <1>4

LEMMA RecordKeeps ==
    ASSUME TasksInvariant, NEW f \in Fiber, Record(f) PROVE TasksInvariant'
  <1> DEFINE c == Mine(f)
             t == fiber[f].task
             w == worked[t]
  <1>k. fiber[f] \in FiberType /\ t \in Task /\ FiberOK(fiber[f], c, w) /\ ChildOK(c) /\ WorkOK(c, w)
    BY Knows
  <1>w. worked' = worked /\ noted' = noted /\ told' = told /\ fiber[f].step = "record"
    BY DEF Record, parent
  <1>n. fiber[f].turn \in 1..Len(c.turns) /\ fiber[f].op \in {"work", "followup", "recover"} /\ fiber[f].result \in Outcomes
    BY <1>k, <1>w DEF FiberOK, TurnSteps
  <1>1. CASE HoldsTurn(f)
    <2> DEFINE d == Recorded(f)
               r == [fiber[f] EXCEPT !.step = "end", !.saw = FALSE]
    <2>1. SetChild(t, d) /\ Go(f, r)
      BY <1>1 DEF Record
    <2>2. ~Lost(c)
      BY <1>1, <1>n DEF HoldsTurn, Lost, Shown
    <2>3. Commits(c, Outcome(c, fiber[f].result)) /\ Commits(c, c)
      BY <1>k, <1>n, <2>2, CommitsOutcome, CommitsNothing
    <2>4. Commits(c, d)
      BY <2>3 DEF Recorded
    <2> HIDE DEF d
    <2>5. FiberOK(fiber[f], d, w)
      BY <1>k, <2>4, FiberLasts
    <2>6. r \in FiberType /\ r.op = fiber[f].op /\ r.step = "end" /\ r.turn = fiber[f].turn /\ r.task = t
      BY <1>k DEF FiberType, TurnSteps
    <2> HIDE DEF r
    <2>7. FiberOK(r, d, w)
      BY <1>n, <1>w, <2>5, <2>6 DEF FiberOK, TurnSteps
    <2> QED BY <1>w, <2>1, <2>4, <2>6, <2>7, MyStep
  <1>2. CASE ~HoldsTurn(f)
    <2>1. LeavesTurn(f) /\ child' = child
      BY <1>2 DEF Record
    <2>2. PICK r : Go(f, r) /\ r.task = fiber[f].task /\ \A b, v : FiberOK(r, b, v)
      BY <1>k, <1>n, <2>1, LeavesOK
    <2> QED BY <1>w, <2>1, <2>2, QuietStep
  <1> QED BY <1>1, <1>2

LEMMA EndTurnKeeps ==
    ASSUME TasksInvariant, NEW f \in Fiber, EndTurn(f) PROVE TasksInvariant'
  <1> DEFINE c == Mine(f)
             t == fiber[f].task
             w == worked[t]
  <1>k. fiber[f] \in FiberType /\ t \in Task /\ FiberOK(fiber[f], c, w) /\ ChildOK(c) /\ WorkOK(c, w)
    BY Knows
  <1>w. worked' = worked /\ noted' = noted /\ told' = told /\ fiber[f].step = "end" /\ LeavesTurn(f)
    BY DEF EndTurn, parent
  <1>n. fiber[f].turn \in 1..Len(c.turns) /\ fiber[f].op \in {"work", "followup", "recover"} /\ fiber[f].result \in Words
    BY <1>k, <1>w DEF FiberOK, TurnSteps, FiberType
  <1>r. PICK r : Go(f, r) /\ r.task = fiber[f].task /\ \A b, v : FiberOK(r, b, v)
    BY <1>k, <1>n, <1>w, LeavesOK
  <1>1. CASE HoldsTurn(f)
    <2> DEFINE d == Closed(c, fiber[f].result)
    <2>1. SetChild(t, d)
      BY <1>1 DEF EndTurn
    <2>2. c.open # 0
      BY <1>1, <1>n DEF HoldsTurn
    <2>3. Commits(c, d)
      BY <1>k, <1>n, <2>2, CommitsClosed
    <2> HIDE DEF d
    <2> QED BY <1>w, <1>r, <2>1, <2>3, MyStep
  <1>2. CASE ~HoldsTurn(f)
    <2>1. child' = child
      BY <1>2 DEF EndTurn
    <2> QED BY <1>w, <1>r, <2>1, QuietStep
  <1> QED BY <1>1, <1>2

-----------------------------------------------------------------------------
(* Notices, controls and calls.                                              *)

LEMMA DeliversKeep ==
    ASSUME TasksInvariant, NEW f \in Fiber, NEW t \in Task, NEW op \in {"work", "reconcile"}, Delivers(f, op, t),
           child' = child, worked' = worked, noted' = noted, told' = told
    PROVE  TasksInvariant'
  <1> DEFINE status == EndOf(child[t])
  <1>1. CASE IsFinished(status) /\ told[t] = "none"
    <2> DEFINE r == [Idle EXCEPT !.op = op, !.step = "notice", !.task = t, !.result = status]
    <2>1. Go(f, r)
      BY <1>1 DEF Delivers
    <2>2. status \in Words /\ op \in Ops /\ Tells(child[t], status)
      BY <1>1 DEF IsFinished, Words, Ops, Tells
    <2> HIDE DEF status
    <2>3. r \in FiberType /\ r.op = op /\ r.step = "notice" /\ r.task = t /\ r.result = status
      BY <2>2, IdleIsOK DEF FiberType
    <2> HIDE DEF r
    <2>4. FiberOK(r, child[t], worked[t])
      BY <2>2, <2>3 DEF FiberOK, TurnSteps
    <2> QED BY <2>1, <2>3, <2>4, QuietStep
  <1>2. CASE Go(f, [Idle EXCEPT !.op = op, !.step = "controls", !.task = t])
    <2> DEFINE r == [Idle EXCEPT !.op = op, !.step = "controls", !.task = t]
    <2>1. \A c, w : FiberOK(r, c, w)
      BY DoesOK DEF Ops
    <2> HIDE DEF r
    <2>2. Go(f, r)
      BY <1>2 DEF r
    <2> QED BY <2>1, <2>2, QuietStep
  <1>3. CASE Go(f, Idle)
    BY <1>3, QuietStep
  <1> QED BY <1>1, <1>2, <1>3 DEF Delivers, Does, Done

LEMMA SettlesKeep ==
    ASSUME TasksInvariant, NEW f \in Fiber, Settle(f) \/ \E t \in Task : Reconcile(f, t) PROVE TasksInvariant'
  <1>1. CASE Settle(f)
    <2> DEFINE op == IF fiber[f].step = "told" THEN "reconcile" ELSE "work"
    <2>1. Delivers(f, op, fiber[f].task) /\ child' = child /\ worked' = worked /\ noted' = noted /\ told' = told
      BY <1>1 DEF Settle, OnlyFiber, parent
    <2>2. op \in {"work", "reconcile"}
      OBVIOUS
    <2> HIDE DEF op
    <2> QED BY <2>1, <2>2, Knows, DeliversKeep
  <1>2. ASSUME NEW t \in Task, Reconcile(f, t) PROVE TasksInvariant'
    <2>1. Delivers(f, "reconcile", t) /\ child' = child /\ worked' = worked /\ noted' = noted /\ told' = told
      BY <1>2 DEF Reconcile, OnlyFiber, parent
    <2> QED BY <2>1, DeliversKeep
  <1> QED BY <1>1, <1>2

LEMMA DeliverNoticeKeeps ==
    ASSUME TasksInvariant, NEW f \in Fiber, DeliverNotice(f) PROVE TasksInvariant'
  <1> DEFINE t == fiber[f].task
  <1>1. child' = child /\ worked' = worked /\ noted' = noted /\ Go(f, Idle) /\ fiber[f].step = "notice"
    BY DEF DeliverNotice, Done
  <1>2. fiber[f] \in FiberType /\ t \in Task /\ Tells(child[t], fiber[f].result)
    BY <1>1, Knows DEF FiberOK, Mine
  <1>3. fiber[f].result \in Words
    BY <1>2 DEF FiberType
  <1>4. told' \in [Task -> Words] /\ \A s \in Task : told'[s] = "none" \/ Tells(child[s], told'[s])
    <2>1. CASE told' = told
      BY <2>1 DEF TasksInvariant
    <2>2. CASE told' = [told EXCEPT ![t] = fiber[f].result]
      BY <1>2, <1>3, <2>2 DEF TasksInvariant
    <2> QED BY <2>1, <2>2 DEF DeliverNotice
  <1>5. fiber' \in [Fiber -> FiberType] /\ \A g \in Fiber : FiberOK(fiber'[g], child[fiber'[g].task], worked[fiber'[g].task])
    <2>1. fiber' = [fiber EXCEPT ![f] = Idle]
      BY <1>1 DEF Go
    <2> QED BY <2>1, IdleIsOK DEF TasksInvariant
  <1> QED BY <1>1, <1>4, <1>5 DEF TasksInvariant

LEMMA ControlsKeep ==
    ASSUME TasksInvariant, NEW f \in Fiber,
           DeliverControls(f) \/ SendAnswers(f) \/ RunPending(f) \/ Stop(f) \/ AnswerSends(f) \/ SteerSends(f)
    PROVE  TasksInvariant'
  <1> DEFINE c == Mine(f)
             t == fiber[f].task
             w == worked[t]
  <1>k. fiber[f] \in FiberType /\ t \in Task /\ FiberOK(fiber[f], c, w) /\ ChildOK(c) /\ WorkOK(c, w)
    BY Knows
  <1>1. CASE DeliverControls(f)
    <2>1. child' = child /\ worked' = worked /\ noted' = noted /\ told' = told
      BY <1>1 DEF DeliverControls
    <2>2. PICK step \in {"run", "answers"} : Go(f, [fiber[f] EXCEPT !.step = step])
      BY <1>1 DEF DeliverControls, Step
    <2> DEFINE r == [fiber[f] EXCEPT !.step = step]
    <2>3. FiberOK(r, c, w) /\ r.task = t
      BY <1>k, NextOK DEF TurnSteps
    <2> HIDE DEF r
    <2>4. Go(f, r)
      BY <2>2 DEF r
    <2> QED BY <2>1, <2>3, <2>4, QuietStep DEF Mine
  <1>2. CASE SendAnswers(f)
    <2> DEFINE d == Resent(c)
               r == [fiber[f] EXCEPT !.step = "run"]
    <2>1. SetChild(t, d) /\ Go(f, r) /\ worked' = worked /\ noted' = noted /\ told' = told
      BY <1>2 DEF SendAnswers, Step, parent
    <2>2. Commits(c, d)
      BY <1>k, CommitsResent
    <2> HIDE DEF d
    <2>3. FiberOK(fiber[f], d, w)
      BY <1>k, <2>2, FiberLasts
    <2>4. FiberOK(r, d, w) /\ r.task = t
      BY <2>3, NextOK DEF TurnSteps
    <2> HIDE DEF r
    <2> QED BY <2>1, <2>2, <2>4, MyStep
  <1>3. CASE RunPending(f) \/ Stop(f)
    <2>1. Go(f, Idle) /\ child' = child /\ worked' = worked /\ noted' = noted /\ told' = told
      BY <1>3 DEF RunPending, Stop, Done, OnlyFiber, parent
    <2> QED BY <2>1, QuietStep
  <1>4. CASE AnswerSends(f)
    <2> DEFINE d == Enqueued(c, fiber[f].turn)
    <2>1. SetChild(t, d) /\ Go(f, Idle) /\ worked' = worked /\ noted' = noted /\ told' = told /\ fiber[f].op = "answer"
      BY <1>4 DEF AnswerSends, Done, parent, At
    <2>2. Commits(c, d)
      BY <1>k, <2>1, CommitsEnqueued DEF FiberOK
    <2> HIDE DEF d
    <2> QED BY <2>1, <2>2, MyStep
  <1>5. CASE SteerSends(f)
    <2> DEFINE d == Enqueued(c, Steer)
    <2>1. SetChild(t, d) /\ Go(f, Idle) /\ worked' = worked /\ noted' = noted /\ told' = told
      BY <1>5 DEF SteerSends, Done, parent
    <2>2. Commits(c, d)
      BY <1>k, CommitsEnqueued
    <2> HIDE DEF d
    <2> QED BY <2>1, <2>2, MyStep
  <1> QED BY <1>1, <1>2, <1>3, <1>4, <1>5

LEMMA CancelChildKeeps ==
    ASSUME TasksInvariant, NEW f \in Fiber, CancelChild(f) PROVE TasksInvariant'
  <1> DEFINE c == Mine(f)
             t == fiber[f].task
             w == worked[t]
  <1>k. fiber[f] \in FiberType /\ t \in Task /\ FiberOK(fiber[f], c, w) /\ ChildOK(c) /\ WorkOK(c, w)
    BY Knows
  <1>w. worked' = worked /\ noted' = noted /\ told' = told /\ fiber[f].op = "cancel"
    BY DEF CancelChild, parent, At
  <1>1. CASE ~IsActive(EndOf(c))
    <2>1. Go(f, Idle) /\ child' = child
      BY <1>1 DEF CancelChild, Done
    <2> QED BY <1>w, <2>1, QuietStep
  <1>2. CASE IsActive(EndOf(c))
    <2> DEFINE d == Outcome(c, "cancelled")
               open == Shown(c)
               r == [fiber[f] EXCEPT !.step = "turn", !.open = open]
    <2>1. SetChild(t, d) /\ Go(f, r)
      BY <1>2 DEF CancelChild, CancelledTurn
    <2>2. ~HasOutcome(c)
      <3>1. ASSUME HasOutcome(c) PROVE FALSE
        <4>1. c.ends \in Seq(Outcomes \cup {"cancelled"}) /\ Len(c.ends) \in Nat /\ Len(c.ends) # 0
          BY <1>k, <3>1 DEF ChildOK, ChildType, HasOutcome
        <4>2. c.ends[1] \in Outcomes \cup {"cancelled"}
          BY <4>1
        <4> QED BY <3>1, <4>2, <1>2 DEF EndOf, IsActive, Outcomes
      <3> QED BY <3>1
    <2>3. ~Lost(c)
      BY <1>2 DEF Lost, EndOf, IsActive, Outstanding
    <2>4. Commits(c, d) /\ d.ends = <<"cancelled">> /\ Shown(d) = open
      BY <1>k, <2>2, <2>3, CommitsOutcome
    <2>5. open \in Nat
      BY <1>k DEF ChildOK, ChildType, Shown
    <2> HIDE DEF d, open
    <2>6. r \in FiberType /\ r.op = "cancel" /\ r.step = "turn" /\ r.open = open /\ r.task = t
      BY <1>k, <1>w, <2>5 DEF FiberType
    <2> HIDE DEF r
    <2>7. FiberOK(r, d, w)
      BY <2>4, <2>6 DEF FiberOK, TurnSteps
    <2> QED BY <1>w, <2>1, <2>4, <2>6, <2>7, MyStep
  <1> QED BY <1>1, <1>2

LEMMA CancelTurnKeeps ==
    ASSUME TasksInvariant, NEW f \in Fiber, CancelTurn(f) PROVE TasksInvariant'
  <1> DEFINE c == Mine(f)
             t == fiber[f].task
             w == worked[t]
             r == [fiber[f] EXCEPT !.step = "parent"]
  <1>k. fiber[f] \in FiberType /\ t \in Task /\ FiberOK(fiber[f], c, w) /\ ChildOK(c) /\ WorkOK(c, w)
    BY Knows
  <1>w. worked' = worked /\ noted' = noted /\ told' = told /\ fiber[f].op = "cancel" /\ fiber[f].step = "turn" /\ Go(f, r)
    BY DEF CancelTurn, parent, At, Step
  <1>e. c.ends = <<"cancelled">> /\ (Shown(c) \in w => Shown(c) = fiber[f].open)
    BY <1>k, <1>w DEF FiberOK
  <1>o. 0 \notin w
    BY <1>k DEF WorkOK, ChildOK, ChildType
  <1>r. r \in FiberType /\ r.op = "cancel" /\ r.step = "parent" /\ r.task = t
    BY <1>k, <1>w DEF FiberType
  <1> HIDE DEF r
  <1>1. CASE fiber[f].open # 0 /\ Shown(c) = fiber[f].open
    <2> DEFINE d == Closed(c, "cancelled")
    <2>1. SetChild(t, d)
      BY <1>1 DEF CancelTurn
    <2>2. c.open # 0 /\ "cancelled" \in Words
      BY <1>1 DEF Shown, Words
    <2>3. Commits(c, d) /\ d.ends = c.ends /\ d.open = 0
      BY <1>k, <2>2, CommitsClosed, ClosesItsTurn
    <2> HIDE DEF d
    <2>4. Stopped(d, w)
      BY <1>e, <1>o, <2>3 DEF Stopped, Shown
    <2>5. FiberOK(r, d, w)
      BY <1>r, <2>4 DEF FiberOK, TurnSteps
    <2> QED BY <1>w, <1>r, <2>1, <2>3, <2>5, MyStep
  <1>2. CASE ~(fiber[f].open # 0 /\ Shown(c) = fiber[f].open)
    <2>1. child' = child
      BY <1>2 DEF CancelTurn
    <2>2. Stopped(c, w)
      BY <1>e, <1>o, <1>2 DEF Stopped
    <2>3. FiberOK(r, c, w)
      BY <1>r, <2>2 DEF FiberOK, TurnSteps
    <2> QED BY <1>w, <1>r, <2>1, <2>3, QuietStep DEF Mine
  <1> QED BY <1>1, <1>2

LEMMA CancelParentKeeps ==
    ASSUME TasksInvariant, NEW f \in Fiber, CancelParent(f) PROVE TasksInvariant'
  <1> DEFINE t == fiber[f].task
  <1>1. child' = child /\ worked' = worked /\ told' = told /\ Go(f, Idle) /\ noted' = noted \cup {t} /\ At(f, "cancel", "parent")
    BY DEF CancelParent, Done
  <1>2. t \in Task /\ Stopped(child[t], worked[t])
    BY <1>1, Knows DEF FiberOK, Mine, At
  <1>3. noted' \subseteq Task /\ \A s \in noted' : Stopped(child[s], worked[s])
    BY <1>1, <1>2 DEF TasksInvariant
  <1>4. fiber' \in [Fiber -> FiberType] /\ \A g \in Fiber : FiberOK(fiber'[g], child[fiber'[g].task], worked[fiber'[g].task])
    <2>1. fiber' = [fiber EXCEPT ![f] = Idle]
      BY <1>1 DEF Go
    <2> QED BY <2>1, IdleIsOK DEF TasksInvariant
  <1> QED BY <1>1, <1>3, <1>4 DEF TasksInvariant

LEMMA CutsKeep ==
    ASSUME TasksInvariant, NEW f \in Fiber, Cut(f) PROVE TasksInvariant'
  <1> DEFINE c == Mine(f)
             t == fiber[f].task
             lost == [c EXCEPT !.gone = TRUE]
             closed == Closed(c, "interrupted")
  <1>1. worked' = worked /\ noted' = noted /\ told' = told /\ Go(f, Idle)
    BY DEF Cut, Done, parent
  <1>k. ChildOK(c)
    BY Knows
  <1>2. CASE SetChild(t, lost)
    <2>1. Commits(c, lost)
      BY <1>k, CommitsGone
    <2> HIDE DEF lost
    <2> QED BY <1>1, <1>2, <2>1, MyStep
  <1>3. CASE SetChild(t, closed) /\ HasTurn(f)
    <2>1. c.open # 0 /\ "interrupted" \in Words
      BY <1>3 DEF HasTurn, HoldsTurn, Words, Outcomes
    <2>2. Commits(c, closed)
      BY <1>k, <2>1, CommitsClosed
    <2> HIDE DEF closed
    <2> QED BY <1>1, <1>3, <2>2, MyStep
  <1>4. CASE child' = child
    BY <1>1, <1>4, QuietStep
  <1> QED BY <1>2, <1>3, <1>4 DEF Cut

LEMMA StepsKeep ==
    ASSUME TasksInvariant, NEW f \in Fiber, Steps(f) PROVE TasksInvariant'
  BY StartForksKeeps, WorkBeginsKeeps, ExecuteKeeps, ReturnsKeep, RefusalsKeep, RecordKeeps, EndTurnKeeps, SettlesKeep,
     DeliverNoticeKeeps, ControlsKeep, CancelChildKeeps, CancelTurnKeeps, CancelParentKeeps DEF Steps

LEMMA ChancesKeep ==
    ASSUME TasksInvariant, Chances PROVE TasksInvariant'
  <1>1. ASSUME NEW t \in Task, LoseWork(t) PROVE TasksInvariant'
    BY <1>1, NoStep DEF LoseWork, parent
  <1> QED BY <1>1, AsksKeep, TakesKeep, RefusalsKeep, ReturnsKeep, CutsKeep, RecoverKeeps DEF Chances

LEMMA TasksInit == Init => TasksInvariant
  <1> SUFFICES ASSUME Init PROVE TasksInvariant
    OBVIOUS
  <1>1. Absent \in ChildType /\ Absent.turns = <<>> /\ Absent.questions = <<>> /\ Absent.ends = <<>> /\ Absent.open = 0
        /\ Absent.answered = {} /\ Absent.queued = {} /\ Absent.waiting = {}
    BY DEF Absent, ChildType
  <1>2. Len(<<>>) = 0 /\ 1..0 = {}
    OBVIOUS
  <1>3. ChildOK(Absent) /\ WorkOK(Absent, {})
    BY <1>1, <1>2 DEF ChildOK, WorkOK, Latest
  <1>4. child \in [Task -> ChildType] /\ worked \in [Task -> SUBSET Nat] /\ told \in [Task -> Words]
        /\ fiber \in [Fiber -> FiberType] /\ noted = {}
    BY <1>1, IdleIsOK DEF Init, Words
  <1>5. \A f \in Fiber : FiberOK(fiber[f], child[fiber[f].task], worked[fiber[f].task])
    BY IdleIsOK DEF Init
  <1>6. \A t \in Task : ChildOK(child[t]) /\ WorkOK(child[t], worked[t]) /\ told[t] = "none"
    BY <1>3 DEF Init
  <1> QED BY <1>4, <1>5, <1>6 DEF TasksInvariant

LEMMA NextKeeps ==
    ASSUME TasksInvariant, [Next]_vars PROVE TasksInvariant'
  <1>1. CASE Hosts
    BY <1>1, StartsKeep, CancelsKeep, AnswersKeep DEF Hosts
  <1>2. CASE Chances
    BY <1>2, ChancesKeep
  <1>3. CASE ParentReads
    BY <1>3, NoStep DEF ParentReads
  <1>4. ASSUME NEW f \in Fiber, Steps(f) PROVE TasksInvariant'
    BY <1>4, StepsKeep
  <1>5. ASSUME NEW t \in Task, Begins(t) \/ Follows(t) \/ Reconciles(t) PROVE TasksInvariant'
    BY <1>5, StartsKeep, FollowUpKeeps, SettlesKeep DEF Begins, Follows, Reconciles
  <1>6. CASE UNCHANGED vars
    BY <1>6, NoStep DEF vars
  <1> QED BY <1>1, <1>2, <1>3, <1>4, <1>5, <1>6 DEF Next

(* The inductive invariant: what every call, turn and piece of background    *)
(* work of the tasks plugin leaves behind (tasks.adapter.ts).                *)
THEOREM TasksKeepTheirRecords == Spec => []TasksInvariant
  <1>1. TasksInvariant /\ [Next]_vars => TasksInvariant'
    BY NextKeeps
  <1> QED BY <1>1, TasksInit, PTL DEF Spec

-----------------------------------------------------------------------------
(* A task has one outcome whoever records it (recordResult, recordEnd,       *)
(* cancel).                                                                  *)
THEOREM OutcomesAreFinal == Spec => []OneOutcome
  <1>1. TasksInvariant => OneOutcome
    BY DEF TasksInvariant, ChildOK, OneOutcome
  <1> QED BY <1>1, TasksKeepTheirRecords, PTL

(* The task's first turn is begun under its key, so its work is done once    *)
(* (runChild).                                                               *)
THEOREM FirstWorkIsDoneOnce == Spec => []InitialWorkRunsOnce
  <1>1. TasksInvariant => InitialWorkRunsOnce
    <2> SUFFICES ASSUME TasksInvariant, NEW t \in Task
                 PROVE  Cardinality({n \in worked[t] : child[t].turns[n].key = InitialKey}) <= 1
      BY DEF InitialWorkRunsOnce
    <2> DEFINE S == {n \in worked[t] : child[t].turns[n].key = InitialKey}
    <2>1. \A m, n \in S : m = n
      BY DEF TasksInvariant, ChildOK, WorkOK
    <2> HIDE DEF S
    <2>2. ASSUME S = {} PROVE Cardinality(S) = 0
      BY <2>2, FS_EmptySet
    <2>3. ASSUME S # {} PROVE Cardinality(S) = 1
      <3>1. PICK n \in S : TRUE
        BY <2>3
      <3>2. S = {n}
        BY <2>1, <3>1
      <3>3. Cardinality({n}) = 1
        BY FS_Singleton
      <3> QED BY <3>2, <3>3
    <2>4. Cardinality(S) <= 1
      BY <2>2, <2>3
    <2> QED BY <2>4 DEF S
  <1> QED BY <1>1, TasksKeepTheirRecords, PTL

(* What the parent is told of a task is how it ended (settle, reconcile,     *)
(* deliverNotice).                                                           *)
THEOREM NoticesTellTheOutcome == Spec => []NoticeTellsTheOutcome
  <1>1. TasksInvariant => NoticeTellsTheOutcome
    BY DEF TasksInvariant, NoticeTellsTheOutcome, Tells
  <1> QED BY <1>1, TasksKeepTheirRecords, PTL

(* Nothing of a task runs once its cancel has answered (cancel, execute).    *)
THEOREM CancelsStopTheWork == Spec => []CancelledMeansStopped
  <1>1. TasksInvariant => CancelledMeansStopped
    BY DEF TasksInvariant, CancelledMeansStopped, Stopped
  <1> QED BY <1>1, TasksKeepTheirRecords, PTL

(* After a question, only turns that carry its answer or a later one work    *)
(* (execute, askedByWriter).                                                 *)
THEOREM AnswersCarryTheWork == Spec => []WorkGoesOnWithTheAnswer
  <1>1. TasksInvariant => WorkGoesOnWithTheAnswer
    <2> SUFFICES ASSUME TasksInvariant, NEW t \in Task, NEW q \in DOMAIN child[t].questions, NEW n \in worked[t],
                        n > child[t].questions[q].turn
                 PROVE  child[t].turns[n].input >= q /\ child[t].turns[n].input \in child[t].answered
      BY DEF WorkGoesOnWithTheAnswer
    <2>1. q \in 1..Latest(child[t])
      BY DEF TasksInvariant, ChildType, Latest
    <2> QED BY <2>1 DEF TasksInvariant, WorkOK
  <1> QED BY <1>1, TasksKeepTheirRecords, PTL

=============================================================================
