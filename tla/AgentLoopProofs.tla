-------------------------- MODULE AgentLoopProofs --------------------------
(***************************************************************************)
(* Proofs about a run of the agent loop, for any replies, limits, steers   *)
(* and whatever the host folds away.                                       *)
(***************************************************************************)
EXTENDS AgentLoopProperties, FiniteSetTheorems, SequenceTheorems, TLAPS

Attempts == [tag : {"Streamable", "SettledOnly"}, visible : BOOLEAN, media : BOOLEAN, overflow : BOOLEAN]
Points == {"probe", "begin", "call", "streaming", "generating", "answered", "tools", "settling", "deciding", "done"}

-----------------------------------------------------------------------------
(* What a step showed is not sent again: the attempt that comes to a call    *)
(* showed nothing, and neither did one that has no part yet.                 *)

UnseenOK ==
    /\ attempt \in Attempts
    /\ pc = "call" => ~attempt.visible
    /\ pc \in {"streaming", "generating"} /\ ~part => ~attempt.visible

ShowsOnce == pc' \in {"streaming", "generating"} /\ pc' # pc => ~attempt.visible

LEMMA UnseenKept ==
    ASSUME UnseenOK, [Next]_vars
    PROVE  UnseenOK' /\ ShowsOnce
<1> USE DEF UnseenOK, ShowsOnce, Attempts
<1>1. CASE UNCHANGED vars
  BY <1>1 DEF vars, model
<1>2. CASE Probe
  BY <1>2 DEF Probe, At, Go, Ends, model
<1>3. CASE BeginStep
  BY <1>3 DEF BeginStep, Go, Fresh
<1>4. CASE Dispatch
  BY <1>4 DEF Dispatch, At, Go
<1>5. ASSUME NEW delta \in BOOLEAN, PartArrives(delta) PROVE UnseenOK' /\ ShowsOnce
  BY <1>5 DEF PartArrives, At
<1>6. CASE FallBack
  BY <1>6 DEF FallBack, At, Go
<1>7. CASE ImageRefused
  BY <1>7 DEF ImageRefused, Calling, At, Go
<1>8. CASE Overflows
  BY <1>8 DEF Overflows, ClaimOverflow, Go
<1>9. ASSUME NEW r \in Reply, Replies(r) PROVE UnseenOK' /\ ShowsOnce
  BY <1>9 DEF Replies, Go
<1>10. CASE Undecodable \/ RefuseReply
  BY <1>10 DEF Undecodable, RefuseReply, Go
<1>11. CASE RecordReply
  BY <1>11 DEF RecordReply, Go
<1>12. ASSUME NEW i \in 1..Len(calls), StartCall(i) \/ CallReturns(i) PROVE UnseenOK' /\ ShowsOnce
  BY <1>12 DEF StartCall, CallReturns, At, Go
<1>13. CASE Settle \/ Recover \/ Recut \/ Yield
  BY <1>13 DEF Settle, Recover, Recut, Yield, Continues, Go, Ends, model
<1>14. ASSUME NEW sig \in Signature \cup {"none"}, NEW completed \in BOOLEAN, Decide(sig, completed) PROVE UnseenOK' /\ ShowsOnce
  <2>1. pc' = "probe" \/ pc' = "done"
    BY <1>14 DEF Decide, Continues, Go, Ends
  <2> QED BY <1>14, <2>1 DEF Decide, model
<1>15. ASSUME NEW how, Breaks(how) PROVE UnseenOK' /\ ShowsOnce
  BY <1>15 DEF Breaks, Ends, model
<1>16. CASE Waits \/ \E s \in Steer : Enqueue(s)
  BY <1>16 DEF Waits, Enqueue, model
<1> QED
  BY <1>1, <1>2, <1>3, <1>4, <1>5, <1>6, <1>7, <1>8, <1>9, <1>10, <1>11, <1>12, <1>13, <1>14, <1>15, <1>16 DEF Next, Runs

(* Whatever fails, is refused or overflows: a step of which a delta went out *)
(* is not sent again (claimRecovery, fallback).                              *)
THEOREM ShownStepsStay == Spec => ShownStepsAreNotResent
<1>1. Init => UnseenOK
  BY DEF Init, UnseenOK, Fresh, Attempts
<1>2. UnseenOK /\ [Next]_vars => UnseenOK' /\ ShowsOnce
  BY UnseenKept
<1>3. UnseenOK /\ [Next]_vars => [ShowsOnce]_vars
  BY <1>2
<1> QED BY <1>1, <1>2, <1>3, PTL DEF Spec, ShownStepsAreNotResent, ShowsOnce

-----------------------------------------------------------------------------
(* Sequences of messages, of whatever kind.                                  *)

IsSeq(q) == \E S : q \in Seq(S)

LEMMA SeqShape ==
    ASSUME NEW q, IsSeq(q)
    PROVE  Len(q) \in Nat /\ DOMAIN q = 1..Len(q)
BY DEF IsSeq

LEMMA Joined ==
    ASSUME NEW a, NEW b, IsSeq(a), IsSeq(b)
    PROVE  /\ IsSeq(a \o b) /\ Len(a \o b) = Len(a) + Len(b)
           /\ \A i \in 1..Len(a) : (a \o b)[i] = a[i]
           /\ \A i \in Len(a) + 1..Len(a) + Len(b) : (a \o b)[i] = b[i - Len(a)]
<1>1. PICK A, B : a \in Seq(A) /\ b \in Seq(B)
  BY DEF IsSeq
<1>2. a \in Seq(A \cup B) /\ b \in Seq(A \cup B)
  BY <1>1, SeqMonotonic
<1>3. Len(a) \in Nat /\ Len(b) \in Nat
  BY <1>2
<1> QED BY <1>2, <1>3, ConcatProperties DEF IsSeq

LEMMA OneMessage ==
    ASSUME NEW m
    PROVE  IsSeq(<<m>>) /\ Len(<<m>>) = 1 /\ <<m>>[1] = m
<1>1. <<m>> \in Seq({m})
  OBVIOUS
<1> QED BY <1>1 DEF IsSeq

LEMMA NoMessage == IsSeq(<<>>) /\ Len(<<>>) = 0
<1>1. <<>> \in Seq({})
  OBVIOUS
<1> QED BY <1>1 DEF IsSeq

LEMMA Family ==
    ASSUME NEW k \in Nat, NEW q, q = [n \in 1..k |-> q[n]]
    PROVE  IsSeq(q) /\ Len(q) = k
<1> DEFINE S == {q[n] : n \in 1..k}
<1>1. q \in [1..k -> S]
  OBVIOUS
<1>2. q \in Seq(S)
  BY <1>1, SeqDef
<1> HIDE DEF S
<1>3. Len(q) \in Nat /\ DOMAIN q = 1..Len(q) /\ DOMAIN q = 1..k
  BY <1>1, <1>2, LenProperties
<1>4. Len(q) = k
  BY <1>3
<1> QED BY <1>2, <1>4 DEF IsSeq

LEMMA AppendJoins ==
    ASSUME NEW a, NEW m, IsSeq(a)
    PROVE  Append(a, m) = a \o <<m>>
<1>1. PICK A : a \in Seq(A)
  BY DEF IsSeq
<1>2. a \in Seq(A \cup {m}) /\ <<m>> \in Seq(A \cup {m})
  BY <1>1, SeqMonotonic
<1> QED BY <1>2

LEMMA TailOfMessages ==
    ASSUME NEW a, IsSeq(a), NEW k \in 1..Len(a)
    PROVE  /\ IsSeq(SubSeq(a, k, Len(a))) /\ Len(SubSeq(a, k, Len(a))) = Len(a) - k + 1
           /\ \A i \in 1..Len(a) - k + 1 : SubSeq(a, k, Len(a))[i] = a[k + i - 1]
<1>1. PICK A : a \in Seq(A)
  BY DEF IsSeq
<1>2. Len(a) \in Nat
  BY <1>1
<1>3. k \in Int /\ \A i \in k..Len(a) : a[i] \in A
  <2>1. k \in Nat /\ k > 0
    BY <1>2
  <2>2. ASSUME NEW i \in k..Len(a) PROVE a[i] \in A
    <3>1. i \in 1..Len(a)
      BY <1>2, <2>1
    <3> QED BY <1>1, <3>1
  <2> QED BY <2>1, <2>2
<1>4. PICK n \in Nat : n = Len(a)
  BY <1>2
<1>5. /\ SubSeq(a, k, n) \in Seq(A)
      /\ Len(SubSeq(a, k, n)) = IF k <= n THEN n - k + 1 ELSE 0
      /\ \A i \in 1..n - k + 1 : SubSeq(a, k, n)[i] = a[k + i - 1]
  <2>1. n \in Int /\ k \in Int /\ \A i \in k..n : a[i] \in A
    BY <1>3, <1>4
  <2> QED BY <2>1, SubSeqProperties
<1>6. k <= n
  BY <1>4
<1> QED BY <1>4, <1>5, <1>6 DEF IsSeq

-----------------------------------------------------------------------------
(* Well-formed sequences of messages can be joined, and folded from an       *)
(* assistant's message on.                                                   *)

Good(q) ==
    /\ IsSeq(q) /\ WellFormed(q)
    /\ \A i \in 1..Len(q) : q[i].what = "assistant" => q[i].of \in Nat
Plain(m) == m.what \notin {"assistant", "result"}

LEMMA PlainIsGood ==
    ASSUME NEW q, IsSeq(q), \A i \in 1..Len(q) : Plain(q[i])
    PROVE  Good(q)
BY SeqShape DEF Good, WellFormed, CallsAnswered, ResultPlaced, Plain

LEMMA OneIsGood ==
    ASSUME NEW m, Plain(m)
    PROVE  Good(<<m>>)
<1>1. \A i \in 1..Len(<<m>>) : <<m>>[i] = m
  BY OneMessage
<1> QED BY <1>1, OneMessage, PlainIsGood

LEMMA NoneIsGood == Good(<<>>)
<1>1. \A i \in 1..Len(<<>>) : Plain(<<>>[i])
  BY NoMessage
<1> QED BY <1>1, NoMessage, PlainIsGood

LEMMA GoodJoins ==
    ASSUME NEW a, NEW b, Good(a), Good(b)
    PROVE  Good(a \o b)
<1> DEFINE q == a \o b
<1>1. /\ IsSeq(q) /\ Len(q) = Len(a) + Len(b) /\ Len(a) \in Nat /\ Len(b) \in Nat
      /\ DOMAIN q = 1..Len(a) + Len(b) /\ DOMAIN a = 1..Len(a) /\ DOMAIN b = 1..Len(b)
      /\ \A i \in 1..Len(a) : q[i] = a[i]
      /\ \A i \in Len(a) + 1..Len(a) + Len(b) : q[i] = b[i - Len(a)]
  BY Joined, SeqShape DEF Good
<1> HIDE DEF q
<1>2. ASSUME NEW i \in DOMAIN q PROVE CallsAnswered(q, i) /\ ResultPlaced(q, i)
  <2>1. CASE i <= Len(a)
    <3>1. q[i] = a[i] /\ CallsAnswered(a, i) /\ ResultPlaced(a, i)
      BY <1>1, <2>1 DEF Good, WellFormed
    <3>2. i > 1 => q[i - 1] = a[i - 1]
      BY <1>1, <2>1
    <3>3. ResultPlaced(q, i)
      BY <3>1, <3>2 DEF ResultPlaced
    <3>4. ASSUME q[i].what = "assistant", NEW n \in 1..q[i].of
          PROVE  i + n <= Len(q) /\ q[i + n] = ResultBeside(q[i], n)
      <4>1. n \in 1..a[i].of /\ n \in Nat /\ n > 0
        BY <3>1, <3>4
      <4>2. i + n <= Len(a) /\ a[i + n] = ResultBeside(a[i], n)
        BY <3>1, <3>4, <4>1 DEF CallsAnswered
      <4>3. i + n \in 1..Len(a)
        BY <1>1, <2>1, <4>1, <4>2
      <4> QED BY <1>1, <3>1, <4>2, <4>3
    <3> QED BY <3>3, <3>4 DEF CallsAnswered
  <2>2. CASE i > Len(a)
    <3>1. PICK j \in 1..Len(b) : j = i - Len(a)
      BY <1>1, <2>2
    <3>2. q[i] = b[j] /\ CallsAnswered(b, j) /\ ResultPlaced(b, j)
      BY <1>1, <2>2, <3>1 DEF Good, WellFormed
    <3>3. j > 1 => q[i - 1] = b[j - 1]
      BY <1>1, <2>2, <3>1
    <3>4. ResultPlaced(q, i)
      BY <1>1, <3>1, <3>2, <3>3 DEF ResultPlaced
    <3>5. ASSUME q[i].what = "assistant", NEW n \in 1..q[i].of
          PROVE  i + n <= Len(q) /\ q[i + n] = ResultBeside(q[i], n)
      <4>1. n \in 1..b[j].of /\ n \in Nat /\ n > 0
        BY <3>2, <3>5
      <4>2. j + n <= Len(b) /\ b[j + n] = ResultBeside(b[j], n)
        BY <3>2, <3>5, <4>1 DEF CallsAnswered
      <4>3. i + n \in Len(a) + 1..Len(a) + Len(b) /\ i + n - Len(a) = j + n
        BY <1>1, <3>1, <4>1, <4>2
      <4> QED BY <1>1, <3>2, <4>2, <4>3
    <3> QED BY <3>4, <3>5 DEF CallsAnswered
  <2> QED BY <1>1, <2>1, <2>2
<1>3. WellFormed(q)
  BY <1>2 DEF WellFormed
<1>4. ASSUME NEW i \in 1..Len(q), q[i].what = "assistant" PROVE q[i].of \in Nat
  <2>1. CASE i <= Len(a)
    BY <1>1, <1>4, <2>1 DEF Good
  <2>2. CASE i > Len(a)
    <3>1. i \in Len(a) + 1..Len(a) + Len(b) /\ i - Len(a) \in 1..Len(b)
      BY <1>1, <2>2
    <3> QED BY <1>1, <1>4, <3>1 DEF Good
  <2> QED BY <1>1, <2>1, <2>2
<1> QED BY <1>1, <1>3, <1>4 DEF Good, q

(* A reply with its results.                                                 *)
LEMMA UpToIsAsMany ==
    ASSUME NEW k \in Nat, NEW n \in 1..k
    PROVE  Cardinality({j \in 1..k : j <= n}) = n
<1>1. {j \in 1..k : j <= n} = 1..n
  OBVIOUS
<1>2. Cardinality(1..n) = n
  BY FS_Interval
<1> QED BY <1>1, <1>2, Zenon

LEMMA ResultsInOrder ==
    ASSUME NEW k \in Nat
    PROVE  Results(1..k) = [n \in 1..k |-> Result(n)]
<1> DEFINE UpTo(i) == Cardinality({j \in 1..k : j <= i})
           Nth(n) == CHOOSE i \in 1..k : UpTo(i) = n
<1>1. Cardinality(1..k) = k
  BY FS_Interval
<1>2. \A i \in 1..k : UpTo(i) = i
  BY UpToIsAsMany
<1>3. Results(1..k) = [n \in 1..Cardinality(1..k) |-> Result(Nth(n))]
  BY Zenon DEF Results
<1> HIDE DEF UpTo
<1>4. \A n \in 1..k : Nth(n) = n
  BY <1>2
<1> HIDE DEF Nth
<1>5. Results(1..k) = [n \in 1..k |-> Result(Nth(n))]
  BY <1>1, <1>3, Zenon
<1> QED BY <1>4, <1>5

LEMMA StepTailIsGood ==
    ASSUME Len(reply.calls) \in Nat, DOMAIN reply.calls = 1..Len(reply.calls)
    PROVE  Good(StepTail)
<1>0. PICK k \in Nat : k = Len(reply.calls)
  OBVIOUS
<1>1. PICK rs : rs = Results(1..k)
  OBVIOUS
<1>2. rs = [n \in 1..k |-> Result(n)]
  BY <1>1, ResultsInOrder
<1>3. IsSeq(rs) /\ Len(rs) = k /\ \A n \in 1..k : rs[n] = Result(n)
  BY <1>2, Family
<1>4. StepTail = <<Assistant>> \o rs
  BY <1>0, <1>1 DEF StepTail
<1> DEFINE q == StepTail
<1>5. /\ IsSeq(q) /\ Len(q) = k + 1 /\ DOMAIN q = 1..k + 1 /\ q[1] = Assistant
      /\ \A i \in 2..k + 1 : q[i] = Result(i - 1)
  BY <1>3, <1>4, OneMessage, Joined, SeqShape
<1> HIDE DEF q
<1>6. Assistant.what = "assistant" /\ Assistant.step = step /\ Assistant.of = k
  BY <1>0 DEF Assistant, Message
<1>7. ASSUME NEW n, NEW m
      PROVE  /\ Result(n).what = "result" /\ Result(n).step = step /\ Result(n).of = n
             /\ ResultBeside(Assistant, n) = Result(n) /\ ResultBeside(Result(n), m) = Result(m)
  <2>1. Result(n).what = "result" /\ Result(n).step = step /\ Result(n).of = n
    BY DEF Result, Message
  <2>2. ResultBeside(Assistant, n) = Result(n)
    BY DEF Assistant, Result, Message, ResultBeside
  <2>3. ResultBeside(Result(n), m) = Result(m)
    BY DEF Result, Message, ResultBeside
  <2> QED BY <2>1, <2>2, <2>3
<1>8. ASSUME NEW i \in DOMAIN q PROVE CallsAnswered(q, i) /\ ResultPlaced(q, i)
  <2>1. CASE i = 1
    <3>1. \A n \in 1..k : 1 + n <= Len(q) /\ q[1 + n] = Result(n)
      BY <1>5
    <3>2. q[1] = Assistant /\ q[1].what = "assistant"
      BY <1>5, <1>6
    <3>3. \A n \in 1..k : 1 + n <= Len(q) /\ q[1 + n] = ResultBeside(q[1], n)
      BY <1>7, <3>1, <3>2
    <3>4. CallsAnswered(q, 1)
      BY <1>6, <3>2, <3>3 DEF CallsAnswered
    <3> QED BY <2>1, <3>2, <3>4 DEF ResultPlaced
  <2>2. CASE i > 1
    <3>1. PICK n \in 1..k : i = n + 1
      BY <1>5, <1>8, <2>2
    <3>2. q[i] = Result(n) /\ q[i].what = "result" /\ q[i].step = step /\ q[i].of = n
      <4>1. i \in 2..k + 1 /\ i - 1 = n
        BY <2>2, <3>1
      <4>2. q[i] = Result(n)
        BY <1>5, <4>1
      <4> QED BY <1>7, <4>2
    <3>3. CASE n = 1
      BY <1>5, <1>6, <2>2, <3>1, <3>2, <3>3 DEF CallsAnswered, ResultPlaced
    <3>4. CASE n > 1
      <4>1. q[i - 1] = Result(n - 1)
        BY <1>5, <3>1, <3>4
      <4>3. q[i - 1] = ResultBeside(q[i], q[i].of - 1)
        BY <1>7, <3>2, <4>1
      <4> QED BY <2>2, <3>2, <3>4, <4>3 DEF CallsAnswered, ResultPlaced
    <3> QED BY <3>3, <3>4
  <2> QED BY <1>5, <1>8, <2>1, <2>2
<1>9. WellFormed(q)
  BY <1>8 DEF WellFormed
<1>10. \A i \in 1..Len(q) : q[i].what = "assistant" => q[i].of \in Nat
  <2>1. \A i \in 2..Len(q) : q[i].what = "result"
    <3>1. \A n : Result(n).what = "result"
      BY <1>7
    <3> QED BY <1>5, <3>1
  <2> QED BY <1>5, <1>6, <2>1
<1> QED BY <1>5, <1>9, <1>10 DEF Good, q

(* What is kept of a sequence from an assistant's message on.                *)
LEMMA KeptIsGood ==
    ASSUME NEW a, Good(a), NEW k \in 1..Len(a), a[k].what = "assistant"
    PROVE  Good(SubSeq(a, k, Len(a)))
<1> DEFINE q == SubSeq(a, k, Len(a))
<1>1. /\ IsSeq(q) /\ Len(q) = Len(a) - k + 1 /\ Len(a) \in Nat /\ k \in Nat /\ k > 0
      /\ DOMAIN q = 1..Len(a) - k + 1 /\ DOMAIN a = 1..Len(a)
      /\ \A i \in 1..Len(a) - k + 1 : q[i] = a[k + i - 1]
  BY TailOfMessages, SeqShape DEF Good
<1> HIDE DEF q
<1>2. ASSUME NEW i \in DOMAIN q PROVE CallsAnswered(q, i) /\ ResultPlaced(q, i)
  <2>1. PICK j \in 1..Len(a) : j = k + i - 1
    BY <1>1, <1>2
  <2>2. q[i] = a[j] /\ CallsAnswered(a, j) /\ ResultPlaced(a, j)
    BY <1>1, <1>2, <2>1 DEF Good, WellFormed
  <2>3. i > 1 => q[i - 1] = a[j - 1]
    BY <1>1, <1>2, <2>1
  <2>4. q[i].what = "result" => i > 1
    BY <1>1, <1>2, <2>1, <2>2
  <2>5. ResultPlaced(q, i)
    BY <1>1, <2>1, <2>2, <2>3, <2>4 DEF ResultPlaced
  <2>6. ASSUME q[i].what = "assistant", NEW n \in 1..q[i].of
        PROVE  i + n <= Len(q) /\ q[i + n] = ResultBeside(q[i], n)
    <3>1. n \in 1..a[j].of /\ n \in Nat /\ n > 0
      BY <2>2, <2>6
    <3>2. j + n <= Len(a) /\ a[j + n] = ResultBeside(a[j], n)
      BY <2>2, <2>6, <3>1 DEF CallsAnswered
    <3>3. i + n \in 1..Len(a) - k + 1 /\ k + (i + n) - 1 = j + n
      BY <1>1, <1>2, <2>1, <3>1, <3>2
    <3> QED BY <1>1, <2>2, <3>2, <3>3
  <2> QED BY <2>5, <2>6 DEF CallsAnswered
<1>3. WellFormed(q)
  BY <1>2 DEF WellFormed
<1>4. ASSUME NEW i \in 1..Len(q), q[i].what = "assistant" PROVE q[i].of \in Nat
  <2>1. k + i - 1 \in 1..Len(a) /\ q[i] = a[k + i - 1]
    BY <1>1
  <2> QED BY <1>4, <2>1 DEF Good
<1> QED BY <1>1, <1>3, <1>4 DEF Good, q

-----------------------------------------------------------------------------
(* Messages stored under one step.                                           *)

Under(q, k) == IsSeq(q) /\ \A j \in 1..Len(q) : q[j].step = k

LEMMA UnderJoins ==
    ASSUME NEW a, NEW b, NEW k, Under(a, k), Under(b, k)
    PROVE  Under(a \o b, k)
<1>1. /\ IsSeq(a \o b) /\ Len(a \o b) = Len(a) + Len(b) /\ Len(a) \in Nat /\ Len(b) \in Nat
      /\ \A i \in 1..Len(a) : (a \o b)[i] = a[i]
      /\ \A i \in Len(a) + 1..Len(a) + Len(b) : (a \o b)[i] = b[i - Len(a)]
  BY Joined, SeqShape DEF Under
<1>2. ASSUME NEW i \in 1..Len(a \o b) PROVE (a \o b)[i].step = k
  <2>1. CASE i <= Len(a)
    BY <1>1, <2>1 DEF Under
  <2>2. CASE i > Len(a)
    <3>1. i \in Len(a) + 1..Len(a) + Len(b) /\ i - Len(a) \in 1..Len(b)
      BY <1>1, <2>2
    <3> QED BY <1>1, <3>1 DEF Under
  <2> QED BY <1>1, <2>1, <2>2
<1> QED BY <1>1, <1>2 DEF Under

LEMMA OneIsUnder ==
    ASSUME NEW m
    PROVE  Under(<<m>>, m.step)
<1>1. \A j \in 1..Len(<<m>>) : <<m>>[j] = m
  BY OneMessage
<1> QED BY <1>1, OneMessage DEF Under

LEMMA NoneIsUnder ==
    ASSUME NEW k
    PROVE  Under(<<>>, k)
<1>1. \A j \in 1..Len(<<>>) : FALSE
  BY NoMessage
<1> QED BY <1>1, NoMessage DEF Under

(* A log that grew by what is stored under one step.                         *)
GrewUnder(k) == \A i \in Len(log) + 1..Len(log') : log'[i].step = k

LEMMA LogGrows ==
    ASSUME IsSeq(log), NEW g, NEW k, Under(g, k), log' = log \o g
    PROVE  IsSeq(log') /\ GrewUnder(k)
<1>1. /\ IsSeq(log') /\ Len(log') = Len(log) + Len(g) /\ Len(log) \in Nat /\ Len(g) \in Nat
      /\ \A i \in Len(log) + 1..Len(log) + Len(g) : log'[i] = g[i - Len(log)]
  BY Joined, SeqShape DEF Under
<1>2. ASSUME NEW i \in Len(log) + 1..Len(log') PROVE log'[i].step = k
  <2>1. i - Len(log) \in 1..Len(g) /\ log'[i] = g[i - Len(log)]
    BY <1>1
  <2> QED BY <2>1 DEF Under
<1> QED BY <1>1, <1>2 DEF GrewUnder

LEMMA LogStays ==
    ASSUME IsSeq(log), NEW k, UNCHANGED log
    PROVE  IsSeq(log') /\ GrewUnder(k)
BY SeqShape DEF GrewUnder

LEMMA JoinsInARow ==
    ASSUME NEW a, NEW b, NEW c, IsSeq(a), IsSeq(b), IsSeq(c)
    PROVE  (a \o b) \o c = a \o (b \o c)
<1>1. PICK A, B, C : a \in Seq(A) /\ b \in Seq(B) /\ c \in Seq(C)
  BY DEF IsSeq
<1>2. PICK S : S = A \cup B \cup C
  OBVIOUS
<1>3. a \in Seq(S) /\ b \in Seq(S) /\ c \in Seq(S)
  BY <1>1, <1>2, SeqMonotonic
<1> QED BY <1>3, ConcatAssociative

-----------------------------------------------------------------------------
(* What the host and the loop add is neither a reply nor a result, and what  *)
(* it folds away ends before a reply.                                        *)

LEMMA TakenIsPlain ==
    ASSUME IsFiniteSet(queued)
    PROVE  Good(Taken) /\ Under(Taken, step)
<1>1. PICK k \in Nat : k = Cardinality(queued)
  BY FS_CardinalityType
<1>2. PICK f : f = SetToSeq(queued)
  OBVIOUS
<1>3. Taken = [n \in 1..k |-> Message("steer", f[n])]
  BY <1>1, <1>2 DEF Taken
<1>4. IsSeq(Taken) /\ Len(Taken) = k /\ \A n \in 1..k : Taken[n] = Message("steer", f[n])
  BY <1>3, Family
<1>5. \A of : Plain(Message("steer", of)) /\ Message("steer", of).step = step
  BY DEF Plain, Message
<1> QED BY <1>4, <1>5, PlainIsGood DEF Under

Notes == {"note", "corrective", "nudge", "incomplete"}
LEMMA NotesArePlain ==
    ASSUME NEW what \in Notes
    PROVE  Good(<<ForNext(what)>>) /\ Under(<<ForNext(what)>>, step + 1)
<1>1. Plain(ForNext(what)) /\ ForNext(what).step = step + 1
  BY DEF Plain, ForNext, Notes
<1> QED BY <1>1, OneIsGood, OneIsUnder

LEMMA DueIsPlain ==
    ASSUME NEW sig, NEW completed
    PROVE  Good(Due(sig, completed)) /\ Under(Due(sig, completed), step + 1)
<1>1. PICK a \in {<<ForNext("nudge")>>, <<>>}, b \in {<<ForNext("incomplete")>>, <<>>} : Due(sig, completed) = a \o b
  BY DEF Due
<1>2. Good(a) /\ Good(b) /\ Under(a, step + 1) /\ Under(b, step + 1)
  BY <1>1, NotesArePlain, NoneIsGood, NoneIsUnder DEF Notes
<1> QED BY <1>1, <1>2, GoodJoins, UnderJoins

LEMMA FoldedIsGood ==
    ASSUME NEW next, Good(next), NEW keep \in 0..Len(next)
    PROVE  Good(Folded(next, keep))
<1>1. CASE Boundary(next, keep)
  <2>1. PICK summary : summary = [what |-> "summary", step |-> step, of |-> 0]
    OBVIOUS
  <2>2. Good(<<summary>>)
    BY <2>1, OneIsGood DEF Plain
  <2>3. keep \in 1..Len(next) /\ next[keep].what = "assistant"
    BY <1>1 DEF Boundary
  <2>4. Folded(next, keep) = <<summary>> \o SubSeq(next, keep, Len(next))
    BY <1>1, <2>1 DEF Folded
  <2> QED BY <2>2, <2>3, <2>4, KeptIsGood, GoodJoins
<1>2. CASE ~Boundary(next, keep)
  BY <1>2 DEF Folded
<1> QED BY <1>1, <1>2

LEMMA NextInputIsGood ==
    ASSUME Good(messages), IsSeq(log), NEW stepTail, NEW appended, Good(stepTail), Good(appended), Under(appended, step + 1),
           NextInput(stepTail, appended)
    PROVE  Good(messages') /\ IsSeq(log') /\ GrewUnder(step + 1)
<1>1. PICK next : next = messages \o stepTail \o appended
  OBVIOUS
<1>2. Good(next)
  <2>1. Good(messages \o stepTail)
    BY GoodJoins
  <2> QED BY <1>1, <2>1, GoodJoins
<1>3. PICK keep \in 0..Len(next), note \in {<<ForNext("note")>>, <<>>} :
        messages' = Folded(next, keep) \o note /\ log' = log \o appended \o note
  BY <1>1 DEF NextInput
<1>4. Good(note) /\ Under(note, step + 1)
  BY <1>3, NotesArePlain, NoneIsGood, NoneIsUnder DEF Notes
<1>5. Good(messages')
  BY <1>2, <1>3, <1>4, FoldedIsGood, GoodJoins
<1>6. log' = log \o (appended \o note)
  BY <1>3, <1>4, JoinsInARow DEF Good
<1> QED BY <1>4, <1>5, <1>6, UnderJoins, LogGrows

-----------------------------------------------------------------------------
(* Between steps as many have settled as the turn index says, and while one  *)
(* is decided on, one more.                                                  *)

BeforeDeciding == {"probe", "begin", "call", "streaming", "generating", "answered", "tools", "settling"}
RunOK ==
    /\ step \in Nat /\ reply \in Reply \cup {NoReply} /\ IsFiniteSet(queued)
    /\ Good(messages) /\ IsSeq(log) /\ IsSeq(settled)
    /\ pc \in BeforeDeciding => Len(settled) = step
    /\ pc = "deciding" => Len(settled) = step + 1
RunStep == RunOK' /\ GrewUnder(Len(settled))

LEMMA CallsAreSeq ==
    ASSUME RunOK
    PROVE  Len(reply.calls) \in Nat /\ DOMAIN reply.calls = 1..Len(reply.calls)
<1>1. CASE reply = NoReply
  BY <1>1 DEF NoReply
<1>2. CASE reply \in Reply
  BY <1>2, LoopConstants
<1> QED BY <1>1, <1>2 DEF RunOK

LEMMA AnsweredIsUnder ==
    ASSUME RunOK
    PROVE  IsSeq(Results(Answered)) /\ Under(<<Assistant>> \o Results(Answered), step)
<1>1. Assistant.step = step /\ \A i : Result(i).step = step
  BY DEF Assistant, Result, Message
<1>3. PICK k \in Nat : k = Cardinality(Answered)
  <2>1. Answered \subseteq 1..Len(reply.calls)
    BY CallsAreSeq DEF Answered, CallsOf
  <2>2. IsFiniteSet(1..Len(reply.calls))
    BY CallsAreSeq, FS_Interval
  <2> QED BY <2>1, <2>2, FS_Subset, FS_CardinalityType
<1> DEFINE Nth(n) == CHOOSE i \in Answered : Cardinality({j \in Answered : j <= i}) = n
           rs == Results(Answered)
<1>4. rs = [n \in 1..k |-> Result(Nth(n))]
  BY <1>3, Zenon DEF Results
<1> HIDE DEF Nth, rs
<1>5. IsSeq(rs) /\ Len(rs) = k /\ \A n \in 1..k : rs[n] = Result(Nth(n))
  BY <1>4, Family
<1>6. Under(rs, step)
  BY <1>1, <1>5 DEF Under
<1>7. Under(<<Assistant>>, step)
  BY <1>1, OneIsUnder
<1> QED BY <1>5, <1>6, <1>7, UnderJoins DEF rs

LEMMA SettlesOne ==
    ASSUME NEW q, NEW m, IsSeq(q)
    PROVE  IsSeq(Append(q, m)) /\ Len(Append(q, m)) = Len(q) + 1
<1>1. Append(q, m) = q \o <<m>> /\ IsSeq(<<m>>) /\ Len(<<m>>) = 1
  BY AppendJoins, OneMessage
<1> QED BY <1>1, Joined

(* What follows a settled step.                                              *)
LEMMA DecidedRuns ==
    ASSUME RunOK, pc = "deciding", pc' # "deciding", UNCHANGED <<model, queued, settled>>,
           \/ step' = step + 1
           \/ step' = step /\ pc' = "done",
           Good(messages'), IsSeq(log'), GrewUnder(step + 1)
    PROVE  RunStep
<1>1. Len(settled) = step + 1
  BY DEF RunOK
<1> QED BY <1>1 DEF RunOK, RunStep, model, BeforeDeciding

LEMMA RunKept ==
    ASSUME RunOK, [Next]_vars
    PROVE  RunStep
<1>0. Good(messages) /\ IsSeq(log) /\ step \in Nat /\ Len(settled) \in Nat
  BY SeqShape DEF RunOK
<1>a. ASSUME UNCHANGED log PROVE IsSeq(log') /\ GrewUnder(Len(settled))
  BY <1>0, <1>a, LogStays
<1>1. CASE UNCHANGED vars
  BY <1>1, <1>a DEF vars, state, model, world, history, RunOK, RunStep
<1>2. CASE Probe
  BY <1>2, <1>a DEF Probe, At, Go, Ends, model, world, history, RunOK, RunStep, BeforeDeciding
<1>3. CASE BeginStep
  <2>1. Good(Taken) /\ Under(Taken, step) /\ Len(settled) = step
    BY <1>3, TakenIsPlain DEF BeginStep, At, RunOK, BeforeDeciding
  <2>2. Good(messages')
    BY <1>0, <1>3, <2>1, GoodJoins DEF BeginStep
  <2>3. IsSeq(log') /\ GrewUnder(Len(settled))
    BY <1>0, <1>3, <2>1, LogGrows DEF BeginStep
  <2>4. IsFiniteSet(queued')
    BY <1>3, FS_EmptySet DEF BeginStep
  <2> QED BY <1>3, <2>1, <2>2, <2>3, <2>4 DEF BeginStep, Go, history, RunOK, RunStep, BeforeDeciding
<1>4. CASE OnlyModel /\ pc \in BeforeDeciding /\ pc' \in BeforeDeciding /\ reply' \in Reply \cup {NoReply}
  BY <1>4, <1>a DEF OnlyModel, state, world, history, RunOK, RunStep, BeforeDeciding
<1>5. CASE Dispatch \/ FallBack \/ ImageRefused \/ Overflows \/ Undecodable \/ RefuseReply
  <2>1. OnlyModel /\ pc \in BeforeDeciding /\ pc' \in BeforeDeciding /\ UNCHANGED reply
    BY <1>5 DEF Dispatch, FallBack, ImageRefused, Overflows, Undecodable, RefuseReply, Calling, At, Go, BeforeDeciding
  <2> QED BY <1>4, <2>1 DEF RunOK
<1>6. ASSUME NEW delta \in BOOLEAN, PartArrives(delta) PROVE RunStep
  BY <1>4, <1>6 DEF PartArrives, At, BeforeDeciding, RunOK
<1>7. ASSUME NEW r \in Reply, Replies(r) PROVE RunStep
  BY <1>4, <1>7 DEF Replies, Calling, At, Go, BeforeDeciding
<1>8. CASE RecordReply
  <2>1. Len(settled) = step /\ pc' \in BeforeDeciding
    BY <1>8 DEF RecordReply, At, Go, RunOK, BeforeDeciding
  <2>2. log' = log \o (<<Assistant>> \o Results(Answered))
    <3>1. IsSeq(Results(Answered)) /\ IsSeq(<<Assistant>>)
      BY AnsweredIsUnder, OneMessage
    <3>2. log' = log \o <<Assistant>> \o Results(Answered)
      BY <1>8 DEF RecordReply
    <3> QED BY <1>0, <3>1, <3>2, JoinsInARow
  <2>3. IsSeq(log') /\ GrewUnder(Len(settled))
    BY <1>0, <2>1, <2>2, AnsweredIsUnder, LogGrows
  <2> QED BY <1>8, <2>1, <2>3 DEF RecordReply, world, history, RunOK, RunStep, BeforeDeciding
<1>9. ASSUME NEW i \in 1..Len(calls), StartCall(i) PROVE RunStep
  BY <1>4, <1>9 DEF StartCall, At, BeforeDeciding, RunOK
<1>10. ASSUME NEW i \in 1..Len(calls), CallReturns(i) PROVE RunStep
  <2>1. Len(settled) = step /\ pc' \in BeforeDeciding
    BY <1>10 DEF CallReturns, At, Go, RunOK, BeforeDeciding
  <2>2. log' = log \o <<Result(i)>>
    BY <1>0, <1>10, AppendJoins DEF CallReturns
  <2>3. Under(<<Result(i)>>, step)
    <3>1. Result(i).step = step
      BY DEF Result, Message
    <3> QED BY <3>1, OneIsUnder
  <2>4. IsSeq(log') /\ GrewUnder(Len(settled))
    BY <1>0, <2>1, <2>2, <2>3, LogGrows
  <2> QED BY <1>10, <2>1, <2>4 DEF CallReturns, world, history, RunOK, RunStep, BeforeDeciding
<1>11. CASE Settle
  <2>1. IsSeq(settled') /\ Len(settled') = Len(settled) + 1 /\ Len(settled) = step
    BY <1>11, SettlesOne DEF Settle, At, RunOK, BeforeDeciding
  <2> QED BY <1>11, <1>a, <2>1 DEF Settle, Go, state, model, world, RunOK, RunStep, BeforeDeciding
<1>12. ASSUME NEW how, Breaks(how) PROVE RunStep
  <2>1. IsSeq(settled')
    BY <1>12, SettlesOne DEF Breaks, RunOK
  <2> QED BY <1>12, <1>a, <2>1 DEF Breaks, Ends, state, model, world, RunOK, RunStep, BeforeDeciding
<1>13. CASE Recover
  <2>1. pc = "deciding" /\ pc' # "deciding" /\ UNCHANGED <<model, queued, settled>> /\ (step' = step + 1 \/ (step' = step /\ pc' = "done"))
    BY <1>13 DEF Recover, At, Go, Ends, Continues, NextStep, world
  <2>2. Good(messages') /\ IsSeq(log') /\ GrewUnder(step + 1)
    <3>1. CASE UNCHANGED <<messages, log>>
      BY <1>0, <3>1, LogStays
    <3>2. CASE messages' = Append(messages, ForNext("corrective")) /\ log' = Append(log, ForNext("corrective"))
      <4>1. messages' = messages \o <<ForNext("corrective")>> /\ log' = log \o <<ForNext("corrective")>>
        BY <1>0, <3>2, AppendJoins DEF Good
      <4> QED BY <1>0, <4>1, NotesArePlain, GoodJoins, LogGrows DEF Notes
    <3> QED BY <1>13, <3>1, <3>2 DEF Recover, state
  <2> QED BY <2>1, <2>2, DecidedRuns
<1>14. CASE Recut
  <2>1. pc = "deciding" /\ pc' # "deciding" /\ UNCHANGED <<model, queued, settled>> /\ (step' = step + 1 \/ (step' = step /\ pc' = "done"))
    BY <1>14 DEF Recut, At, Go, Ends, Continues, NextStep, world
  <2>2. Good(messages') /\ IsSeq(log') /\ GrewUnder(step + 1)
    <3>0. Good(StepTail)
      BY CallsAreSeq, StepTailIsGood
    <3>1. CASE UNCHANGED <<messages, log>>
      BY <1>0, <3>1, LogStays
    <3>2. CASE Appends(StepTail)
      BY <1>0, <3>0, <3>2, GoodJoins, LogStays DEF Appends
    <3>3. CASE NextInput(StepTail, <<ForNext("corrective")>>)
      BY <1>0, <3>0, <3>3, NotesArePlain, NextInputIsGood DEF Notes
    <3> QED BY <1>14, <3>1, <3>2, <3>3 DEF Recut, state
  <2> QED BY <2>1, <2>2, DecidedRuns
<1>15. CASE Yield
  <2>1. pc = "deciding" /\ pc' # "deciding" /\ UNCHANGED <<model, queued, settled>> /\ step' = step + 1
    BY <1>15 DEF Yield, At, Ends, NextStep, world, history
  <2>2. Good(messages') /\ IsSeq(log') /\ GrewUnder(step + 1)
    BY <1>0, <1>15, CallsAreSeq, StepTailIsGood, GoodJoins, LogStays DEF Yield
  <2> QED BY <2>1, <2>2, DecidedRuns
<1>16. ASSUME NEW sig, NEW completed, Decide(sig, completed) PROVE RunStep
  <2>1. pc = "deciding" /\ pc' # "deciding" /\ UNCHANGED <<model, queued, settled>> /\ step' = step + 1
    BY <1>16 DEF Decide, At, Go, Ends, Continues, NextStep, world
  <2>2. Good(messages') /\ IsSeq(log') /\ GrewUnder(step + 1)
    <3>0. Good(StepTail)
      BY CallsAreSeq, StepTailIsGood
    <3>1. CASE Appends(StepTail)
      BY <1>0, <3>0, <3>1, GoodJoins, LogStays DEF Appends
    <3>2. CASE NextInput(StepTail, Due(sig, completed))
      BY <1>0, <3>0, <3>2, DueIsPlain, NextInputIsGood
    <3> QED BY <1>16, <3>1, <3>2 DEF Decide
  <2> QED BY <2>1, <2>2, DecidedRuns
<1>17. CASE Waits
  BY <1>17, <1>a DEF Waits, state, model, history, RunOK, RunStep
<1>18. ASSUME NEW s \in Steer, Enqueue(s) PROVE RunStep
  <2>1. IsFiniteSet(queued')
    BY <1>18, FS_AddElement DEF Enqueue, RunOK
  <2> QED BY <1>18, <1>a, <2>1 DEF Enqueue, state, model, history, RunOK, RunStep
<1> QED
  BY <1>1, <1>2, <1>3, <1>5, <1>6, <1>7, <1>8, <1>9, <1>10, <1>11, <1>12, <1>13, <1>14, <1>15, <1>16, <1>17, <1>18 DEF Next, Runs

LEMMA RunStarts == Init => RunOK
<1> SUFFICES ASSUME Init PROVE RunOK
  OBVIOUS
<1>1. PICK input : input = [what |-> "input", step |-> 0, of |-> 0] /\ messages = <<input>>
  BY DEF Init
<1>2. Good(messages)
  BY <1>1, OneIsGood DEF Plain
<1> QED BY <1>2, NoMessage, FS_EmptySet DEF Init, RunOK, BeforeDeciding

(* Whatever replies are cut, refused or answered by the loop, and from       *)
(* wherever the host folds: at each model call the loop's buffer has each    *)
(* call with its result.  It is the request of a run whose host gives no     *)
(* options.render; of what a host renders instead nothing is said.           *)
THEOREM BufferStaysWellFormed == Spec => []BufferIsWellFormed
<1>1. RunOK /\ [Next]_vars => RunOK'
  BY RunKept DEF RunStep
<1>2. RunOK => BufferIsWellFormed
  BY DEF RunOK, Good, BufferIsWellFormed
<1> QED BY <1>1, <1>2, RunStarts, PTL DEF Spec

(* Whatever fails and whenever the run is interrupted: what is stored is     *)
(* stored under the step that has not settled yet.                           *)
THEOREM SettledStepsStayClosed == Spec => SettledStepsAreClosed
<1>1. RunOK /\ [Next]_vars => RunOK' /\ GrewUnder(Len(settled))
  BY RunKept DEF RunStep
<1>2. RunOK /\ [Next]_vars => [\A i \in Len(log) + 1..Len(log') : log'[i].step = Len(settled)]_vars
  BY <1>1 DEF GrewUnder
<1> QED BY <1>1, <1>2, RunStarts, PTL DEF Spec, SettledStepsAreClosed

-----------------------------------------------------------------------------
(* The journal and the run's tail.  Runs that are the same joined to runs    *)
(* that are the same are the same.                                           *)

Values(q) == {q[i] : i \in 1..Len(q)}

LEMMA JoinedValues ==
    ASSUME NEW a, NEW b, IsSeq(a), IsSeq(b)
    PROVE  Values(a \o b) = Values(a) \cup Values(b)
<1> DEFINE q == a \o b
<1>1. /\ Len(q) = Len(a) + Len(b) /\ Len(a) \in Nat /\ Len(b) \in Nat
      /\ \A i \in 1..Len(a) : q[i] = a[i]
      /\ \A i \in Len(a) + 1..Len(a) + Len(b) : q[i] = b[i - Len(a)]
  BY Joined, SeqShape
<1> HIDE DEF q
<1>2. ASSUME NEW i \in 1..Len(q) PROVE q[i] \in Values(a) \cup Values(b)
  <2>1. CASE i <= Len(a)
    BY <1>1, <2>1 DEF Values
  <2>2. CASE i > Len(a)
    <3>1. i \in Len(a) + 1..Len(a) + Len(b) /\ i - Len(a) \in 1..Len(b)
      BY <1>1, <2>2
    <3> QED BY <1>1, <3>1 DEF Values
  <2> QED BY <1>1, <2>1, <2>2
<1>3. ASSUME NEW i \in 1..Len(a) PROVE a[i] \in Values(q)
  <2>1. i \in 1..Len(q) /\ q[i] = a[i]
    BY <1>1
  <2> QED BY <2>1 DEF Values
<1>4. ASSUME NEW i \in 1..Len(b) PROVE b[i] \in Values(q)
  <2>1. i + Len(a) \in 1..Len(q) /\ i + Len(a) \in Len(a) + 1..Len(a) + Len(b) /\ i + Len(a) - Len(a) = i
    BY <1>1
  <2>2. q[i + Len(a)] = b[i]
    BY <1>1, <2>1
  <2> QED BY <2>1, <2>2 DEF Values
<1> QED BY <1>2, <1>3, <1>4 DEF Values, q

LEMMA SameRunItself ==
    ASSUME NEW a
    PROVE  SameRun(a, a)
BY DEF SameRun, SameButOrder

LEMMA SameRunJoins ==
    ASSUME NEW a, NEW b, NEW c, NEW d, IsSeq(a), IsSeq(b), IsSeq(c), IsSeq(d), SameRun(a, b), SameRun(c, d)
    PROVE  SameRun(a \o c, b \o d)
<1> DEFINE p == a \o c  q == b \o d
<1>1. /\ Len(p) = Len(a) + Len(c) /\ Len(q) = Len(a) + Len(c) /\ Len(a) \in Nat /\ Len(c) \in Nat
      /\ \A i \in 1..Len(a) : p[i] = a[i] /\ q[i] = b[i]
      /\ \A i \in Len(a) + 1..Len(a) + Len(c) : p[i] = c[i - Len(a)] /\ q[i] = d[i - Len(a)]
  BY Joined, SeqShape DEF SameRun
<1>2. Values(p) = Values(a) \cup Values(c) /\ Values(q) = Values(b) \cup Values(d)
  BY JoinedValues
<1> HIDE DEF p, q
<1>3. ASSUME NEW i \in 1..Len(p) PROVE SameButOrder(p[i], q[i])
  <2>1. CASE i <= Len(a)
    BY <1>1, <2>1 DEF SameRun
  <2>2. CASE i > Len(a)
    <3>1. i \in Len(a) + 1..Len(a) + Len(c) /\ i - Len(a) \in 1..Len(c)
      BY <1>1, <2>2
    <3> QED BY <1>1, <3>1 DEF SameRun
  <2> QED BY <1>1, <2>1, <2>2
<1>4. Values(p) = Values(q)
  BY <1>2 DEF SameRun, Values
<1> QED BY <1>1, <1>3, <1>4 DEF SameRun, Values, p, q

LEMMA SameRunGrows ==
    ASSUME NEW a, NEW b, NEW c, IsSeq(a), IsSeq(b), IsSeq(c), SameRun(a, b)
    PROVE  IsSeq(a \o c) /\ IsSeq(b \o c) /\ SameRun(a \o c, b \o c)
BY SameRunItself, SameRunJoins, Joined

(* The results of some calls are as many, and of those calls.                *)
LEMMA RankedOnce ==
    ASSUME NEW k \in Nat, NEW those \in SUBSET (1..k)
    PROVE  /\ IsFiniteSet(those) /\ Cardinality(those) \in Nat
           /\ \A i \in those : Cardinality({j \in those : j <= i}) \in 1..Cardinality(those)
           /\ \A n \in 1..Cardinality(those) : \E i \in those : Cardinality({j \in those : j <= i}) = n
           /\ \A h, i \in those : Cardinality({j \in those : j <= h}) = Cardinality({j \in those : j <= i}) => h = i
<1> DEFINE UpTo(i) == {j \in those : j <= i}
           Rank(i) == Cardinality(UpTo(i))
<1>0. those \subseteq Nat
  OBVIOUS
<1>1. IsFiniteSet(those)
  <2>1. IsFiniteSet(1..k)
    BY FS_Interval
  <2> QED BY <2>1, FS_Subset
<1>2. PICK c \in Nat : c = Cardinality(those)
  BY <1>1, FS_CardinalityType
<1>3. ASSUME NEW i \in those
      PROVE  /\ IsFiniteSet(UpTo(i)) /\ Rank(i) \in 1..c
  <2>1. IsFiniteSet(UpTo(i)) /\ Rank(i) <= c /\ Rank(i) \in Nat
    BY <1>1, <1>2, FS_Subset, FS_CardinalityType
  <2>2. i \in UpTo(i)
    OBVIOUS
  <2>3. Rank(i) # 0
    BY <2>1, <2>2, FS_EmptySet
  <2> QED BY <2>1, <2>3
<1>4. ASSUME NEW i \in those, NEW j \in those, i < j PROVE Rank(i) < Rank(j)
  <2>1. i \in Nat /\ j \in Nat /\ i < j /\ i \in those /\ j \in those
    BY <1>0, <1>4
  <2>2. ~(j <= i) /\ j <= j
    BY <2>1
  <2>3. ASSUME NEW h \in those, h <= i PROVE h <= j
    <3>1. h \in Nat
      BY <1>0
    <3> QED BY <2>1, <2>3, <3>1
  <2>4. j \notin UpTo(i)
    BY <2>2
  <2>5. UpTo(i) \cup {j} \subseteq UpTo(j)
    BY <2>1, <2>2, <2>3
  <2>6. Cardinality(UpTo(i) \cup {j}) = Rank(i) + 1
    BY <1>3, <2>4, FS_AddElement
  <2>7. Cardinality(UpTo(i) \cup {j}) <= Rank(j)
    BY <1>3, <2>5, FS_Subset
  <2> QED BY <1>3, <2>6, <2>7
<1>5. ASSUME NEW h \in those, NEW i \in those, Rank(h) = Rank(i) PROVE h = i
  <2>1. Rank(h) \in Nat /\ h \in Nat /\ i \in Nat
    BY <1>3
  <2>2. ~(h < i) /\ ~(i < h)
    BY <1>4, <1>5, <2>1
  <2> QED BY <2>1, <2>2
<1> HIDE DEF UpTo, Rank
<1> DEFINE f == [i \in those |-> Rank(i)]
<1>6. f \in Injection(those, 1..c)
  <2>1. f \in [those -> 1..c]
    BY <1>3
  <2>2. ASSUME NEW i \in those, NEW j \in those, f[i] = f[j] PROVE i = j
    BY <1>5, <2>2
  <2> QED BY <2>1, <2>2 DEF Injection, IsInjective
<1>7. IsFiniteSet(1..c) /\ Cardinality(1..c) = c
  BY FS_Interval
<1>8. f \in Surjection(those, 1..c)
  BY <1>2, <1>6, <1>7, FS_Injection
<1>9. ASSUME NEW n \in 1..c PROVE \E i \in those : Rank(i) = n
  <2>1. \E i \in those : f[i] = n
    BY <1>8 DEF Surjection
  <2> QED BY <2>1
<1> QED BY <1>1, <1>2, <1>3, <1>9, <1>5 DEF UpTo, Rank

LEMMA ResultsOfThose ==
    ASSUME NEW k \in Nat, NEW those \in SUBSET (1..k)
    PROVE  /\ IsSeq(Results(those)) /\ Len(Results(those)) = Cardinality(those)
           /\ Values(Results(those)) = {Result(i) : i \in those}
<1>1. PICK c \in Nat : c = Cardinality(those)
  BY RankedOnce
<1> DEFINE Rank(i) == Cardinality({j \in those : j <= i})
           Nth(n) == CHOOSE i \in those : Rank(i) = n
           rs == Results(those)
<1>2. rs = [n \in 1..c |-> Result(Nth(n))]
  BY <1>1, Zenon DEF Results
<1>3. /\ \A i \in those : Rank(i) \in 1..c
      /\ \A n \in 1..c : \E i \in those : Rank(i) = n
  BY <1>1, RankedOnce
<1>4. \A i, j \in those : Rank(i) = Rank(j) => i = j
  BY RankedOnce
<1> HIDE DEF Rank
<1>5. \A n \in 1..c : Nth(n) \in those /\ Rank(Nth(n)) = n
  BY <1>3
<1>6. \A i \in those : Nth(Rank(i)) = i
  BY <1>3, <1>4, <1>5
<1> HIDE DEF Nth, rs
<1>7. IsSeq(rs) /\ Len(rs) = c /\ \A n \in 1..c : rs[n] = Result(Nth(n))
  BY <1>2, Family
<1>8. Values(rs) \subseteq {Result(i) : i \in those}
  BY <1>5, <1>7 DEF Values
<1>9. ASSUME NEW i \in those PROVE Result(i) \in Values(rs)
  <2>1. Rank(i) \in 1..Len(rs) /\ rs[Rank(i)] = Result(i)
    BY <1>3, <1>6, <1>7
  <2> QED BY <2>1 DEF Values
<1> QED BY <1>1, <1>7, <1>8, <1>9 DEF rs

(* What a step stored, once it stored its reply: the reply, and the results  *)
(* that have come back.                                                      *)
Reported == pc = "tools" \/ (pc \in {"settling", "deciding"} /\ status # "malformed")
Returned == {i \in DOMAIN calls : calls[i] \in {"answered", "done"}}
Stored(rest) ==
    /\ DOMAIN calls = DOMAIN reply.calls
    /\ pc \in {"settling", "deciding"} => Returned = DOMAIN calls
    /\ \E rs : /\ rest = <<Assistant>> \o rs /\ IsSeq(rs)
               /\ Len(rs) = Cardinality(Returned) /\ Values(rs) = {Result(i) : i \in Returned}

(* The journal is what the run has appended, and what the step has stored.   *)
TailOK ==
    pc # "done" => ended = "no" /\ \E before, rest :
      /\ IsSeq(before) /\ IsSeq(tail) /\ log = before \o rest /\ SameRun(before, tail)
      /\ IF Reported THEN Stored(rest) ELSE rest = <<>>
TailStep == TailOK' /\ JournalIsTheTail'

(* All results of a reply, as they returned and as the step appends them.    *)
LEMMA StoredIsTheStep ==
    ASSUME RunOK, NEW rest, Stored(rest), Returned = DOMAIN calls
    PROVE  IsSeq(rest) /\ SameRun(rest, StepTail)
<1>1. PICK rs : /\ rest = <<Assistant>> \o rs /\ IsSeq(rs)
                /\ Len(rs) = Cardinality(Returned) /\ Values(rs) = {Result(i) : i \in Returned}
  BY DEF Stored
<1>2. PICK k \in Nat : k = Len(reply.calls) /\ DOMAIN reply.calls = 1..k
  BY CallsAreSeq
<1>3. Returned = 1..k /\ Cardinality(Returned) = k
  <2>1. Returned = 1..k
    BY <1>2 DEF Stored
  <2> QED BY <2>1, FS_Interval
<1>4. PICK all : all = Results(1..k)
  OBVIOUS
<1>5. IsSeq(all) /\ Len(all) = k /\ Values(all) = {Result(i) : i \in 1..k}
  BY <1>3, <1>4, ResultsOfThose
<1>6. \A i : IsResult(Result(i)) /\ Result(i).step = step
  BY DEF IsResult, Result, Message
<1>7. ASSUME NEW n \in 1..k PROVE SameButOrder(rs[n], all[n])
  <2>1. rs[n] \in Values(rs) /\ all[n] \in Values(all)
    BY <1>1, <1>3, <1>5 DEF Values
  <2>2. PICK i, j : rs[n] = Result(i) /\ all[n] = Result(j)
    BY <1>1, <1>5, <2>1
  <2> QED BY <1>6, <2>2 DEF SameButOrder
<1>8. SameRun(rs, all)
  BY <1>1, <1>3, <1>5, <1>7 DEF SameRun, Values
<1>9. StepTail = <<Assistant>> \o all
  BY <1>2, <1>4 DEF StepTail
<1> QED BY <1>1, <1>5, <1>8, <1>9, OneMessage, SameRunItself, SameRunJoins, Joined

(* Between steps, and while a step has stored nothing.                       *)
LEMMA NothingStored ==
    ASSUME IsSeq(log), IsSeq(tail), SameRun(log, tail), ~Reported, pc = "done" \/ ended = "no"
    PROVE  TailOK /\ JournalIsTheTail
<1>1. log = log \o <<>>
  BY DEF IsSeq
<1> QED BY <1>1 DEF TailOK, JournalIsTheTail

LEMMA NothingYet ==
    ASSUME RunOK, TailOK, pc # "done", ~Reported
    PROVE  IsSeq(tail) /\ SameRun(log, tail)
<1>1. PICK before : IsSeq(before) /\ IsSeq(tail) /\ log = before \o <<>> /\ SameRun(before, tail)
  BY DEF TailOK
<1>2. before \o <<>> = before
  BY <1>1 DEF IsSeq
<1> QED BY <1>1, <1>2

LEMMA DecidedTail ==
    ASSUME RunOK, TailOK, pc = "deciding", status # "malformed"
    PROVE  IsSeq(tail \o StepTail) /\ IsSeq(tail) /\ IsSeq(StepTail) /\ SameRun(log, tail \o StepTail)
<1>1. PICK before, rest :
        IsSeq(before) /\ IsSeq(tail) /\ log = before \o rest /\ SameRun(before, tail) /\ Stored(rest)
  BY DEF TailOK, Reported
<1>2. IsSeq(rest) /\ SameRun(rest, StepTail)
  BY <1>1, StoredIsTheStep DEF Stored
<1>3. IsSeq(StepTail)
  BY CallsAreSeq, StepTailIsGood DEF Good
<1> QED BY <1>1, <1>2, <1>3, SameRunJoins, Joined

(* A step that stores nothing goes on, with what it stored so far.           *)
LEMMA TailUnmoved ==
    ASSUME RunOK, TailOK, UNCHANGED <<log, tail>>,
           \/ pc # "done" /\ ~Reported /\ ~Reported' /\ UNCHANGED ended
           \/ /\ pc # "done" /\ Reported /\ Reported' /\ UNCHANGED <<reply, calls, step, ended>>
              /\ pc' \in {"settling", "deciding"} => Returned = DOMAIN calls
           \/ pc' = "done"
    PROVE  TailOK'
<1>1. CASE pc # "done" /\ ~Reported /\ ~Reported' /\ UNCHANGED ended
  BY <1>1 DEF TailOK
<1>2. CASE /\ pc # "done" /\ Reported /\ Reported' /\ UNCHANGED <<reply, calls, step, ended>>
           /\ pc' \in {"settling", "deciding"} => Returned = DOMAIN calls
  <2>1. PICK before, rest :
          IsSeq(before) /\ IsSeq(tail) /\ log = before \o rest /\ SameRun(before, tail) /\ Stored(rest)
    BY <1>2 DEF TailOK
  <2>2. UNCHANGED Returned /\ UNCHANGED Assistant /\ \A i : UNCHANGED Result(i)
    BY <1>2 DEF Returned, Assistant, Result, Message
  <2>3. Stored(rest)'
    BY <1>2, <2>1, <2>2 DEF Stored
  <2> QED BY <1>2, <2>1, <2>3 DEF TailOK
<1> QED BY <1>1, <1>2 DEF TailOK

(* The reply is stored with the results of the calls that are answered.      *)
LEMMA ReplyStored ==
    ASSUME RunOK, RunOK', TailOK, RecordReply
    PROVE  TailOK' /\ pc' # "probe" /\ ended' = "no"
<1>1. /\ IsSeq(tail) /\ SameRun(log, tail) /\ pc' \in {"tools", "settling"}
      /\ ended = "no" /\ UNCHANGED <<tail, reply, step, ended>>
  <2>1. pc = "answered" /\ pc' \in {"tools", "settling"} /\ UNCHANGED <<tail, reply, step, ended>>
    BY DEF RecordReply, At, Go
  <2> QED BY <2>1, NothingYet DEF Reported, TailOK
<1>2. PICK k \in Nat : DOMAIN reply.calls = 1..k
  BY CallsAreSeq
<1>3. Answered \subseteq 1..k
  BY <1>2 DEF Answered, CallsOf
<1>4. Returned' = Answered /\ DOMAIN calls' = 1..k
  BY <1>2, <1>3 DEF Returned, RecordReply
<1>5. PICK rs : rs = Results(Answered)
  OBVIOUS
<1>6. IsSeq(rs) /\ Len(rs) = Cardinality(Answered) /\ Values(rs) = {Result(i) : i \in Answered}
  BY <1>3, <1>5, ResultsOfThose
<1>7. Assistant' = Assistant /\ \A i : Result(i)' = Result(i)
  BY <1>1 DEF Assistant, Result, Message
<1>8. PICK rest : rest = <<Assistant>> \o rs
  OBVIOUS
<1>9. log' = log \o rest
  <2>1. log' = (log \o <<Assistant>>) \o rs
    BY <1>5 DEF RecordReply
  <2>2. IsSeq(log) /\ IsSeq(<<Assistant>>) /\ IsSeq(rs)
    BY <1>6, OneMessage DEF RunOK
  <2> QED BY <1>8, <2>1, <2>2, JoinsInARow
<1>10. pc' = "settling" => Answered = DOMAIN reply.calls /\ status' # "malformed"
  BY DEF RecordReply, Go
<1>11. Stored(rest)'
  <2>1. DOMAIN calls' = DOMAIN reply'.calls /\ (pc' \in {"settling", "deciding"} => Returned' = DOMAIN calls')
    BY <1>1, <1>2, <1>4, <1>10
  <2>2. rest = <<Assistant'>> \o rs
    BY <1>7, <1>8
  <2>3. {Result(i) : i \in Answered} = {Result(i)' : i \in Returned'}
    BY <1>4, <1>7
  <2>4. IsSeq(rs) /\ Len(rs) = Cardinality(Returned') /\ Values(rs) = {Result(i)' : i \in Returned'}
    BY <1>4, <1>6, <2>3
  <2> QED BY <2>1, <2>2, <2>4 DEF Stored
<1>12. Reported'
  BY <1>1, <1>10 DEF Reported
<1> QED BY <1>1, <1>9, <1>11, <1>12 DEF TailOK, RunOK

(* A result is stored as its call returns.                                   *)
LEMMA ResultStored ==
    ASSUME RunOK, TailOK, NEW i, CallReturns(i)
    PROVE  TailOK' /\ pc' # "probe" /\ ended' = "no"
<1>1. PICK before, rest :
        ended = "no" /\ IsSeq(before) /\ IsSeq(tail) /\ log = before \o rest /\ SameRun(before, tail) /\ Stored(rest)
  BY DEF TailOK, CallReturns, At, Reported
<1>2. PICK rs : /\ rest = <<Assistant>> \o rs /\ IsSeq(rs)
                /\ Len(rs) = Cardinality(Returned) /\ Values(rs) = {Result(j) : j \in Returned}
  BY <1>1 DEF Stored
<1>3. PICK k \in Nat : DOMAIN calls = 1..k
  BY <1>1, CallsAreSeq DEF Stored
<1>4. i \in 1..k /\ i \notin Returned /\ Returned' = Returned \cup {i} /\ DOMAIN calls' = DOMAIN calls
  BY <1>3 DEF CallReturns, Returned
<1>5. Cardinality(Returned') = Cardinality(Returned) + 1
  <2>1. IsFiniteSet(1..k) /\ Returned \subseteq 1..k
    BY <1>3, FS_Interval DEF Returned
  <2>2. IsFiniteSet(Returned)
    BY <2>1, FS_Subset
  <2> QED BY <1>4, <2>2, FS_AddElement
<1>6. UNCHANGED <<tail, reply, step, ended>> /\ pc' \in {"tools", "settling"} /\ pc # "done"
      /\ (pc' = "settling" => status' # "malformed" /\ Returned' = DOMAIN calls')
  BY <1>3, <1>4 DEF CallReturns, At, Go, Returned
<1>7. Assistant' = Assistant /\ \A j : Result(j)' = Result(j)
  BY <1>6 DEF Assistant, Result, Message
<1>8. PICK more : more = rs \o <<Result(i)>>
  OBVIOUS
<1>9. IsSeq(more) /\ Len(more) = Len(rs) + 1 /\ Values(more) = Values(rs) \cup {Result(i)}
  <2>1. Values(<<Result(i)>>) = {Result(i)}
    BY OneMessage DEF Values
  <2>2. IsSeq(<<Result(i)>>) /\ Len(<<Result(i)>>) = 1
    BY OneMessage
  <2>3. IsSeq(more) /\ Len(more) = Len(rs) + 1
    BY <1>2, <1>8, <2>2, Joined
  <2> QED BY <1>2, <1>8, <2>1, <2>2, <2>3, JoinedValues
<1>10. log' = before \o (<<Assistant>> \o more)
  <2>1. log' = log \o <<Result(i)>>
    BY AppendJoins DEF CallReturns, RunOK
  <2>2. IsSeq(<<Assistant>>) /\ IsSeq(<<Result(i)>>) /\ IsSeq(rest)
    BY <1>2, OneMessage, Joined
  <2>3. log' = before \o (rest \o <<Result(i)>>)
    BY <1>1, <2>1, <2>2, JoinsInARow
  <2>4. rest \o <<Result(i)>> = <<Assistant>> \o more
    BY <1>2, <1>8, <2>2, JoinsInARow
  <2> QED BY <2>3, <2>4
<1>11. Values(more) = {Result(j) : j \in Returned'}
  BY <1>2, <1>4, <1>9
<1>12. PICK now : now = <<Assistant>> \o more
  OBVIOUS
<1>13. Stored(now)'
  <2>1. DOMAIN calls' = DOMAIN reply'.calls /\ (pc' \in {"settling", "deciding"} => Returned' = DOMAIN calls')
    BY <1>1, <1>4, <1>6 DEF Stored
  <2>2. now = <<Assistant'>> \o more
    BY <1>7, <1>12
  <2>3. Len(more) = Cardinality(Returned')
    BY <1>2, <1>5, <1>9
  <2>4. {Result(j) : j \in Returned'} = {Result(j)' : j \in Returned'}
    BY <1>7
  <2>5. IsSeq(more) /\ Values(more) = {Result(j)' : j \in Returned'}
    BY <1>9, <1>11, <2>4
  <2> QED BY <2>1, <2>2, <2>3, <2>5 DEF Stored
<1>14. Reported'
  BY <1>6 DEF Reported
<1> QED BY <1>1, <1>6, <1>10, <1>12, <1>13, <1>14 DEF TailOK

(* What follows a settled step: the step's own tail, and what is stored for  *)
(* the next.                                                                 *)
LEMMA NextInputTail ==
    ASSUME NEW stepTail, NEW appended, IsSeq(log), IsSeq(tail), IsSeq(stepTail), IsSeq(appended),
           SameRun(log, tail \o stepTail), NextInput(stepTail, appended)
    PROVE  IsSeq(log') /\ IsSeq(tail') /\ SameRun(log', tail')
<1>1. PICK note \in {<<ForNext("note")>>, <<>>} :
        log' = log \o appended \o note /\ tail' = tail \o stepTail \o appended \o note
  BY DEF NextInput
<1>2. IsSeq(note) /\ IsSeq(tail \o stepTail)
  BY <1>1, OneMessage, NoMessage, Joined
<1>3. IsSeq(log \o appended) /\ IsSeq(tail \o stepTail \o appended) /\ SameRun(log \o appended, tail \o stepTail \o appended)
  BY <1>2, SameRunGrows
<1> QED BY <1>1, <1>2, <1>3, SameRunGrows

LEMMA TailKept ==
    ASSUME RunOK, RunOK', TailOK, JournalIsTheTail, [Next]_vars
    PROVE  TailStep
<1>0. IsSeq(log) /\ IsSeq(log')
  BY DEF RunOK
<1>a. ASSUME IsSeq(tail'), SameRun(log', tail'), ~Reported', pc' = "done" \/ ended' = "no" PROVE TailStep
  <2>1. log' = log' \o <<>>
    BY <1>0 DEF IsSeq
  <2>2. TailOK'
    BY <1>0, <1>a, <2>1 DEF TailOK, Reported
  <2> QED BY <1>a, <2>2 DEF TailStep, JournalIsTheTail
<1>b. ASSUME TailOK', pc' # "probe", pc' # "done" \/ ended' \in {"failed", "cancelled"} PROVE TailStep
  BY <1>b DEF TailStep, TailOK, JournalIsTheTail
<1>c. ASSUME pc # "done" PROVE ended = "no"
  BY <1>c DEF TailOK
<1>1. CASE UNCHANGED vars
  <2>1. UNCHANGED <<pc, step, tail, log, reply, calls, status, ended>>
    BY <1>1 DEF vars, state, model
  <2>2. TailOK' /\ JournalIsTheTail'
    BY <2>1 DEF TailOK, JournalIsTheTail, Reported, Stored, Returned, Assistant, Result, Message
  <2> QED BY <2>2 DEF TailStep
<1>2. CASE Waits \/ \E s \in Steer : Enqueue(s)
  <2>1. UNCHANGED <<pc, step, tail, log, reply, calls, status, ended>>
    BY <1>2 DEF Waits, Enqueue, state, model
  <2>2. TailOK' /\ JournalIsTheTail'
    BY <2>1 DEF TailOK, JournalIsTheTail, Reported, Stored, Returned, Assistant, Result, Message
  <2> QED BY <2>2 DEF TailStep
<1>3. CASE Probe
  <2>1. pc = "probe" /\ pc' \in {"begin", "done"} /\ UNCHANGED <<tail, log>> /\ (pc' = "done" \/ UNCHANGED ended)
    BY <1>3 DEF Probe, At, Go, Ends
  <2>2. IsSeq(tail) /\ SameRun(log, tail)
    BY <2>1, NothingYet DEF Reported
  <2> QED BY <1>a, <1>c, <2>1, <2>2 DEF Reported
<1>4. CASE BeginStep
  <2>1. pc = "begin" /\ pc' = "call" /\ log' = log \o Taken /\ tail' = tail \o Taken /\ UNCHANGED ended
    BY <1>4 DEF BeginStep, TailWithTaken, At, Go
  <2>2. IsSeq(Taken) /\ IsSeq(tail) /\ SameRun(log, tail)
    BY <2>1, NothingYet, TakenIsPlain DEF Reported, RunOK, Under
  <2>3. IsSeq(tail') /\ SameRun(log', tail')
    BY <1>0, <2>1, <2>2, SameRunGrows
  <2> QED BY <1>a, <1>c, <2>1, <2>3 DEF Reported
<1>5. ASSUME OnlyModel, ~Reported, ~Reported', pc # "done", pc' \notin {"done", "probe"} PROVE TailStep
  BY <1>5, <1>b, <1>c, TailUnmoved DEF OnlyModel, state
<1>6. CASE Dispatch \/ FallBack \/ ImageRefused \/ Overflows \/ Undecodable \/ RefuseReply
  <2>1. /\ OnlyModel /\ pc \in {"call", "streaming", "generating", "answered"}
        /\ pc' \in {"streaming", "generating", "call"} \/ (pc' = "settling" /\ status' = "malformed")
    BY <1>6 DEF Dispatch, FallBack, ImageRefused, Overflows, Undecodable, RefuseReply, Calling, At, Go
  <2> QED BY <1>5, <2>1 DEF Reported
<1>7. ASSUME NEW delta \in BOOLEAN, PartArrives(delta) PROVE TailStep
  BY <1>5, <1>7 DEF PartArrives, At, Reported
<1>8. ASSUME NEW r \in Reply, Replies(r) PROVE TailStep
  BY <1>5, <1>8 DEF Replies, Calling, At, Go, Reported
<1>9. CASE RecordReply
  <2>1. pc' # "done"
    BY <1>9 DEF RecordReply, Go
  <2> QED BY <1>9, <1>b, <2>1, ReplyStored
<1>10. ASSUME NEW i \in 1..Len(calls), StartCall(i) PROVE TailStep
  <2>1. /\ pc = "tools" /\ pc' = "tools" /\ UNCHANGED <<tail, log, reply, step, ended>>
    BY <1>10 DEF StartCall, At, OnlyModel, state
  <2>2. DOMAIN calls' = DOMAIN calls /\ Returned' = Returned
    BY <1>10 DEF StartCall, Returned
  <2>3. PICK before, rest :
          IsSeq(before) /\ IsSeq(tail) /\ log = before \o rest /\ SameRun(before, tail) /\ Stored(rest)
    BY <2>1 DEF TailOK, Reported
  <2>4. Stored(rest)'
    BY <2>1, <2>2, <2>3 DEF Stored, Assistant, Result, Message
  <2>5. TailOK'
    BY <1>c, <2>1, <2>3, <2>4 DEF TailOK, Reported
  <2> QED BY <1>b, <2>1, <2>5
<1>11. ASSUME NEW i \in 1..Len(calls), CallReturns(i) PROVE TailStep
  <2>1. pc' # "done"
    BY <1>11 DEF CallReturns, At, Go
  <2> QED BY <1>11, <1>b, <2>1, ResultStored
<1>12. CASE Settle
  <2>1. pc = "settling" /\ pc' = "deciding" /\ UNCHANGED <<tail, log, reply, calls, step, status, ended>>
    BY <1>12 DEF Settle, At, Go, state, model
  <2>2. Reported => Returned = DOMAIN calls
    BY <2>1 DEF TailOK, Stored
  <2> QED BY <1>b, <2>1, <2>2, TailUnmoved DEF Reported
<1>13. ASSUME NEW how \in {"failed", "cancelled"}, Breaks(how) PROVE TailStep
  BY <1>13, <1>b DEF Breaks, Ends, TailOK
<1>14. CASE Recover
  <2>1. pc = "deciding" /\ status = "malformed" /\ (pc' = "done" \/ (pc' = "probe" /\ UNCHANGED ended))
    BY <1>14 DEF Recover, At, Ends, Continues, Go
  <2>2. IsSeq(tail) /\ SameRun(log, tail)
    BY <2>1, NothingYet DEF Reported
  <2>3. CASE UNCHANGED <<log, tail>>
    BY <1>a, <1>c, <2>1, <2>2, <2>3 DEF Reported
  <2>4. CASE tail' = Append(tail, ForNext("corrective")) /\ log' = Append(log, ForNext("corrective"))
    <3>1. tail' = tail \o <<ForNext("corrective")>> /\ log' = log \o <<ForNext("corrective")>>
      BY <1>0, <2>2, <2>4, AppendJoins
    <3>2. IsSeq(tail') /\ SameRun(log', tail')
      BY <1>0, <2>2, <3>1, OneMessage, SameRunGrows
    <3> QED BY <1>a, <1>c, <2>1, <3>2 DEF Reported
  <2> QED BY <1>14, <2>3, <2>4 DEF Recover, state
<1>15. CASE Recut
  <2>1. pc = "deciding" /\ status = "truncated" /\ (pc' = "done" \/ (pc' = "probe" /\ UNCHANGED ended))
    BY <1>15 DEF Recut, At, Ends, Continues, Go
  <2>2. IsSeq(tail) /\ IsSeq(StepTail) /\ SameRun(log, tail \o StepTail) /\ IsSeq(tail \o StepTail)
    BY <2>1, DecidedTail
  <2>3. CASE Ends("failed")
    BY <1>b, <2>3 DEF Ends, TailOK
  <2>4. CASE Appends(StepTail)
    BY <1>a, <1>c, <2>1, <2>2, <2>4 DEF Reported, Appends
  <2>5. CASE NextInput(StepTail, <<ForNext("corrective")>>)
    BY <1>0, <1>a, <1>c, <2>1, <2>2, <2>5, OneMessage, NextInputTail DEF Reported
  <2> QED BY <1>15, <2>3, <2>4, <2>5 DEF Recut
<1>16. CASE Yield
  <2>1. pc = "deciding" /\ status = "completed" /\ pc' = "done" /\ log' = log /\ tail' = tail \o StepTail
    BY <1>16 DEF Yield, At, Ends
  <2>2. IsSeq(tail \o StepTail) /\ SameRun(log, tail \o StepTail)
    BY <2>1, DecidedTail
  <2> QED BY <1>a, <2>1, <2>2 DEF Reported
<1>17. ASSUME NEW sig, NEW completed, Decide(sig, completed) PROVE TailStep
  <2>1. pc = "deciding" /\ status = "completed" /\ (pc' = "done" \/ (pc' = "probe" /\ UNCHANGED ended))
    BY <1>17 DEF Decide, At, Ends, Continues, Go
  <2>2. IsSeq(tail) /\ IsSeq(StepTail) /\ SameRun(log, tail \o StepTail) /\ IsSeq(tail \o StepTail)
    BY <2>1, DecidedTail
  <2>3. CASE Appends(StepTail)
    BY <1>a, <1>c, <2>1, <2>2, <2>3 DEF Reported, Appends
  <2>4. CASE NextInput(StepTail, Due(sig, completed))
    <3>1. IsSeq(Due(sig, completed))
      BY DueIsPlain DEF Under
    <3> QED BY <1>0, <1>a, <1>c, <2>1, <2>2, <2>4, <3>1, NextInputTail DEF Reported
  <2> QED BY <1>17, <2>3, <2>4 DEF Decide
<1> QED
  BY <1>1, <1>2, <1>3, <1>4, <1>6, <1>7, <1>8, <1>9, <1>10, <1>11, <1>12, <1>13, <1>14, <1>15, <1>16, <1>17 DEF Next, Runs

(* What the run returns is what it stored (onTail, take), however calls      *)
(* return beside one another and whatever the host and the loop put between  *)
(* steps.                                                                    *)
THEOREM TheTailIsTheJournal == Spec => []JournalIsTheTail
<1>1. Init => TailOK /\ JournalIsTheTail
  BY NoMessage, SameRunItself, NothingStored DEF Init, Reported
<1>2. RunOK /\ RunOK' /\ TailOK /\ JournalIsTheTail /\ [Next]_vars => TailOK' /\ JournalIsTheTail'
  BY TailKept DEF TailStep
<1>3. RunOK /\ [Next]_vars => RunOK'
  BY RunKept DEF RunStep
<1> QED BY <1>1, <1>2, <1>3, RunStarts, PTL DEF Spec

-----------------------------------------------------------------------------
(* The run's text.  What is carried, when it is all that may be continued,   *)
(* is the last reply if it says anything; else the text that was is.         *)

Sayings == [says : BOOLEAN, continues : BOOLEAN]

LEMMA TextCloses ==
    ASSUME NEW q, NEW N \in Nat, NEW S \in SUBSET (1..N), NEW open, open = {m \in S : Continued(q, m, N)},
           NEW c \in Seq(Nat), NEW f, TextOf(c, open), TextOf(f, LastReply(q, S \ open))
    PROVE  TextOf(IF c # <<>> THEN c ELSE f, LastReply(q, S))
<1>1. CASE c = <<>>
  <2>1. open = {}
    BY <1>1 DEF TextOf
  <2> QED BY <1>1, <2>1
<1>2. CASE c # <<>>
  <2>1. PICK k \in Nat : k = Len(c) /\ DOMAIN c = 1..k /\ k > 0
    BY <1>2
  <2>2. PICK last : last = c[k] + 1
    OBVIOUS
  <2>3. last \in open /\ last \in S /\ last \in Nat
    BY <2>1, <2>2 DEF TextOf
  <2>4. ASSUME NEW o \in open PROVE o <= last
    <3>1. PICK i \in 1..k : o = c[i] + 1
      BY <2>1 DEF TextOf
    <3>2. i < k => c[i] < c[k]
      BY <2>1 DEF TextOf
    <3> QED BY <2>1, <2>2, <3>1, <3>2
  <2>5. ASSUME NEW o \in S PROVE o <= last
    <3>1. ASSUME o > last PROVE FALSE
      <4>1. Continued(q, last, N)
        BY <2>3
      <4>2. Continued(q, o, N)
        BY <2>3, <3>1, <4>1 DEF Continued
      <4> QED BY <2>3, <2>4, <3>1, <4>2
    <3> QED BY <2>3, <3>1
  <2>6. ASSUME NEW m \in S PROVE Continued(q, m, last) <=> Continued(q, m, N)
    <3>1. Continued(q, last, N) /\ m <= last /\ m \in Nat /\ last <= N
      BY <2>3, <2>5
    <3> QED BY <2>3, <3>1 DEF Continued
  <2>7. ASSUME NEW n \in S, \A o \in S : o <= n PROVE n = last
    BY <2>3, <2>5, <2>7
  <2>8. LastReply(q, S) = open
    BY <2>3, <2>5, <2>6, <2>7 DEF LastReply
  <2> QED BY <1>2, <2>8
<1> QED BY <1>1, <1>2

(* One more step has said what it says.                                      *)
Grown(q, r, says, continues, N) ==
    /\ r \in Seq(Sayings) /\ Len(r) = N + 1
    /\ Spoke(q) \in SUBSET (1..N)
    /\ Spoke(r) = Spoke(q) \cup (IF says THEN {N + 1} ELSE {})
    /\ {m \in Spoke(r) : Continued(r, m, N + 1)} = OpenSpoke(q) \cup (IF says THEN {N + 1} ELSE {})
    /\ OpenSpoke(r) = IF continues THEN {m \in Spoke(r) : Continued(r, m, N + 1)} ELSE {}
    /\ \A spoke \in SUBSET (1..N) : LastReply(r, spoke) = LastReply(q, spoke)

LEMMA SaidGrows ==
    ASSUME NEW q \in Seq(Sayings), NEW says \in BOOLEAN, NEW continues \in BOOLEAN, NEW r, NEW N, N = Len(q),
           r = Append(q, [says |-> says, continues |-> continues])
    PROVE  Grown(q, r, says, continues, N)
<1>1. /\ r \in Seq(Sayings) /\ Len(r) = N + 1 /\ N \in Nat /\ DOMAIN q = 1..N /\ DOMAIN r = 1..N + 1
      /\ \A n \in 1..N : r[n] = q[n]
      /\ r[N + 1] = [says |-> says, continues |-> continues]
  BY DEF Sayings
<1>2. Spoke(q) \in SUBSET (1..N) /\ Spoke(r) = Spoke(q) \cup (IF says THEN {N + 1} ELSE {})
  BY <1>1 DEF Spoke
<1>3. ASSUME NEW m \in Nat, m > 0, NEW n \in Nat, n <= N + 1 PROVE Continued(r, m, n) <=> Continued(q, m, n)
  <2>1. \A e \in m..n - 1 : e \in 1..N
    BY <1>1, <1>3
  <2> QED BY <1>1, <2>1 DEF Continued
<1>4. {m \in Spoke(r) : Continued(r, m, N + 1)} = OpenSpoke(q) \cup (IF says THEN {N + 1} ELSE {})
  <2>1. Continued(r, N + 1, N + 1)
    BY <1>1 DEF Continued
  <2>2. \A m \in Spoke(q) : Continued(r, m, N + 1) <=> Continued(q, m, N + 1)
    BY <1>1, <1>2, <1>3
  <2> QED BY <1>2, <2>1, <2>2 DEF OpenSpoke
<1>5. ASSUME NEW m \in Spoke(r) PROVE Continued(r, m, Len(r) + 1) <=> Continued(r, m, N + 1) /\ continues
  <2>1. m \in 1..N + 1
    BY <1>1, <1>2
  <2>2. PICK A, B : A = m..(Len(r) + 1) - 1 /\ B = m..(N + 1) - 1
    OBVIOUS
  <2>3. A = B \cup {N + 1}
    BY <1>1, <2>1, <2>2
  <2>4. r[N + 1].continues = continues
    BY <1>1
  <2>5. (\A e \in A : r[e].continues) <=> (\A e \in B : r[e].continues) /\ continues
    BY <2>3, <2>4, Zenon
  <2>6. Continued(r, m, Len(r) + 1) <=> \A e \in A : r[e].continues
    BY <2>2 DEF Continued
  <2>7. Continued(r, m, N + 1) <=> \A e \in B : r[e].continues
    BY <2>2 DEF Continued
  <2> QED BY <2>5, <2>6, <2>7, Zenon
<1>6. OpenSpoke(r) = IF continues THEN {m \in Spoke(r) : Continued(r, m, N + 1)} ELSE {}
  BY <1>5 DEF OpenSpoke
<1>7. ASSUME NEW spoke \in SUBSET (1..N) PROVE LastReply(r, spoke) = LastReply(q, spoke)
  <2>1. \A m, n \in spoke : Continued(r, m, n) <=> Continued(q, m, n)
    BY <1>1, <1>3
  <2> QED BY <2>1 DEF LastReply
<1> QED BY <1>1, <1>2, <1>4, <1>6, <1>7 DEF Grown

(* What is carried with what the step said.                                  *)
LEMMA TextGrows ==
    ASSUME NEW c \in Seq(Nat), NEW N \in Nat, NEW open \in SUBSET (1..N), TextOf(c, open)
    PROVE  c \o <<N>> \in Seq(Nat) /\ TextOf(c \o <<N>>, open \cup {N + 1})
<1> DEFINE t == c \o <<N>>
<1>1. PICK k \in Nat : k = Len(c) /\ DOMAIN c = 1..k
  OBVIOUS
<1>2. /\ t \in Seq(Nat) /\ DOMAIN t = 1..k + 1 /\ t[k + 1] = N
      /\ \A i \in 1..k : t[i] = c[i] /\ c[i] \in Nat
  BY <1>1
<1>3. ASSUME NEW i \in 1..k PROVE c[i] < N
  <2>1. c[i] + 1 \in 1..N /\ c[i] \in Nat
    BY <1>1, <1>2 DEF TextOf
  <2> QED BY <2>1
<1> HIDE DEF t
<1>4. {t[i] + 1 : i \in DOMAIN t} = {c[i] + 1 : i \in 1..k} \cup {N + 1}
  <2>1. DOMAIN t = (1..k) \cup {k + 1}
    BY <1>2
  <2> QED BY <1>2, <2>1
<1>5. \A i, j \in DOMAIN t : i < j => t[i] < t[j]
  <2> SUFFICES ASSUME NEW i \in 1..k + 1, NEW j \in 1..k + 1, i < j PROVE t[i] < t[j]
    BY <1>2
  <2>1. i \in 1..k /\ (j \in 1..k \/ j = k + 1)
    OBVIOUS
  <2> QED BY <1>1, <1>2, <1>3, <2>1 DEF TextOf
<1> QED BY <1>1, <1>2, <1>4, <1>5 DEF TextOf, t

TextTyped ==
    /\ said \in Seq(Sayings) /\ carried \in Seq(Nat) /\ (final \in Seq(Nat) \/ pc = "done")
    /\ ended \notin {"completed", "step-cap", "degenerate-loop"} \/ pc = "done"
TextOK == TextTyped /\ TextInvariant

(* A step that said something is decided on: its text ends a reply, or is    *)
(* carried on.                                                               *)
LEMMA TextDecided ==
    ASSUME TextOK, RunOK, pc # "done", NEW says \in BOOLEAN, NEW continues \in BOOLEAN, NEW text,
           text = (IF says THEN <<step>> ELSE <<>>),
           said' = Append(said, [says |-> says, continues |-> continues]), step' = step + 1,
           ended' = "no" \/ (pc' = "done" /\ ended' # "no"),
           \/ SettledText(text) /\ (continues => pc' = "done") /\ ended' # "degenerate-loop"
           \/ BrokenText(text) /\ ~continues /\ pc' = "done" /\ ended' = "degenerate-loop"
           \/ CarriedText(text) /\ continues /\ ended' = "no"
    PROVE  TextOK'
<1> DEFINE N == step
           open == OpenSpoke(said) \cup (IF says THEN {N + 1} ELSE {})
           joined == carried \o text
<1>1. N \in Nat /\ Len(said) = N /\ said \in Seq(Sayings) /\ carried \in Seq(Nat) /\ final \in Seq(Nat)
  BY DEF TextOK, TextTyped, TextInvariant, RunOK
<1>0. PICK r : r = said' /\ r = Append(said, [says |-> says, continues |-> continues])
  OBVIOUS
<1>2. /\ said' \in Seq(Sayings) /\ Len(said') = N + 1
      /\ Spoke(said) \in SUBSET (1..N)
      /\ Spoke(said') = Spoke(said) \cup (IF says THEN {N + 1} ELSE {})
      /\ {m \in Spoke(said') : Continued(said', m, N + 1)} = open
      /\ OpenSpoke(said') = IF continues THEN {m \in Spoke(said') : Continued(said', m, N + 1)} ELSE {}
      /\ \A spoke \in SUBSET (1..N) : LastReply(said', spoke) = LastReply(said, spoke)
  <2>1. PICK q : q = said
    OBVIOUS
  <2>2. q \in Seq(Sayings) /\ N = Len(q) /\ r = Append(q, [says |-> says, continues |-> continues])
    BY <1>0, <1>1, <2>1
  <2> HIDE DEF N
  <2>3. Grown(q, r, says, continues, N)
    BY <2>2, SaidGrows
  <2> QED BY <1>0, <2>1, <2>3, Zenon DEF Grown
<1>3. OpenSpoke(said) \in SUBSET (1..N)
  BY <1>2 DEF OpenSpoke
<1>4. joined \in Seq(Nat) /\ TextOf(joined, open)
  <2>1. TextOf(carried, OpenSpoke(said))
    BY DEF TextOK, TextInvariant
  <2>2. CASE says
    BY <1>1, <1>3, <2>1, <2>2, TextGrows
  <2>3. CASE ~says
    <3>1. joined = carried /\ open = OpenSpoke(said)
      BY <1>1, <2>3
    <3> QED BY <1>1, <2>1, <3>1
  <2> QED BY <2>2, <2>3
<1>5. Spoke(said') \ open = Spoke(said) \ OpenSpoke(said)
  <2>1. N + 1 \notin Spoke(said)
    BY <1>1, <1>2
  <2> QED BY <1>2, <2>1
<1>6. TextOf(final, LastReply(said', Spoke(said') \ open))
  <2>1. TextOf(final, LastReply(said, Spoke(said) \ OpenSpoke(said)))
    BY DEF TextOK, TextInvariant
  <2> QED BY <1>2, <1>5, <2>1
<1>9. Spoke(said') = {} <=> (final = <<>> /\ joined = <<>>)
  <2>1. Spoke(said) = {} <=> (final = <<>> /\ carried = <<>>)
    BY DEF TextOK, TextInvariant
  <2>2. joined = <<>> <=> (carried = <<>> /\ ~says)
    BY <1>1
  <2> QED BY <1>2, <2>1, <2>2
<1>10. (final = <<>> /\ carried = <<>> /\ text = <<>>) <=> (final = <<>> /\ joined = <<>>)
  BY <1>1
<1>11. CASE BrokenText(text) /\ ~continues /\ pc' = "done" /\ ended' = "degenerate-loop" /\ Spoke(said') = {}
  <2>1. final' = StopText /\ carried' = <<>>
    BY <1>9, <1>10, <1>11, Zenon DEF BrokenText
  <2> QED BY <1>2, <1>11, <2>1 DEF TextOK, TextTyped, TextInvariant, FinalTextIsTheLastReply
<1> HIDE DEF joined, open
<1>7. ASSUME SettledText(text), continues => pc' = "done", ended' = "degenerate-loop" => Spoke(said') # {}
      PROVE  TextOK'
  <2>1. Spoke(said') \in SUBSET (1..N + 1)
    BY <1>1, <1>2
  <2>2. final' = (IF joined # <<>> THEN joined ELSE final) /\ carried' = <<>>
    BY <1>7 DEF SettledText, joined
  <2>3. TextOf(final', LastReply(said', Spoke(said')))
    <3>1. N + 1 \in Nat /\ open = {m \in Spoke(said') : Continued(said', m, N + 1)}
      BY <1>1, <1>2
    <3>2. TextOf(IF joined # <<>> THEN joined ELSE final, LastReply(said', Spoke(said')))
      BY <1>4, <1>6, <2>1, <3>1, TextCloses
    <3> QED BY <2>2, <3>2
  <2>4. ~continues => OpenSpoke(said') = {} /\ TextOf(carried', {})
    BY <1>2, <2>2 DEF TextOf
  <2>5. TextTyped'
    BY <1>1, <1>2, <1>4, <2>2 DEF TextTyped
  <2>6. ~continues => Spoke(said') \ OpenSpoke(said') = Spoke(said')
    BY <2>4
  <2>7. Spoke(said') = {} <=> (final' = <<>> /\ carried' = <<>>)
    BY <1>9, <2>2
  <2> QED BY <1>1, <1>2, <1>7, <2>3, <2>4, <2>5, <2>6, <2>7 DEF TextOK, TextInvariant, FinalTextIsTheLastReply
<1>8. CASE CarriedText(text) /\ continues /\ ended' = "no"
  <2>1. final' = final /\ carried' = joined
    BY <1>8 DEF CarriedText, joined
  <2>2. OpenSpoke(said') = open
    BY <1>2, <1>8
  <2>3. TextTyped'
    BY <1>1, <1>2, <1>4, <1>8, <2>1 DEF TextTyped
  <2>4. Spoke(said') = {} <=> (final' = <<>> /\ carried' = <<>>)
    BY <1>9, <2>1
  <2> QED BY <1>1, <1>2, <1>4, <1>6, <1>8, <2>1, <2>2, <2>3, <2>4 DEF TextOK, TextInvariant, FinalTextIsTheLastReply
<1>12. BrokenText(text) /\ Spoke(said') # {} => SettledText(text)
  BY <1>9, <1>10, Zenon DEF BrokenText
<1> QED BY <1>7, <1>8, <1>11, <1>12

LEMMA TextKept ==
    ASSUME RunOK, RunOK', TextOK, [Next]_vars
    PROVE  TextOK'
<1>1. ASSUME UNCHANGED <<step, said, carried, final, ended>>, pc' # "done" => pc # "done", pc' = "done" => pc = "done"
      PROVE  TextOK'
  BY <1>1 DEF TextOK, TextTyped, TextInvariant, FinalTextIsTheLastReply
<1>2. CASE UNCHANGED vars
  BY <1>1, <1>2 DEF vars, state, history
<1>3. CASE Waits \/ \E s \in Steer : Enqueue(s)
  BY <1>1, <1>3 DEF Waits, Enqueue, state, history
<1>4. CASE OnlyModel /\ pc # "done" /\ pc' # "done"
  BY <1>1, <1>4 DEF OnlyModel, state, history
<1>5. CASE Dispatch \/ FallBack \/ ImageRefused \/ Overflows \/ Undecodable \/ RefuseReply
  BY <1>4, <1>5 DEF Dispatch, FallBack, ImageRefused, Overflows, Undecodable, RefuseReply, Calling, At, Go
<1>6. ASSUME NEW delta \in BOOLEAN, PartArrives(delta) PROVE TextOK'
  BY <1>4, <1>6 DEF PartArrives, At
<1>7. ASSUME NEW r \in Reply, Replies(r) PROVE TextOK'
  BY <1>4, <1>7 DEF Replies, Calling, At, Go
<1>8. ASSUME NEW i \in 1..Len(calls), StartCall(i) \/ CallReturns(i) PROVE TextOK'
  BY <1>1, <1>8 DEF StartCall, CallReturns, OnlyModel, At, Go, state, history
<1>9. CASE BeginStep \/ RecordReply \/ Settle
  BY <1>1, <1>9 DEF BeginStep, RecordReply, Settle, At, Go, state, history
<1>10. CASE Probe
  <2>1. CASE waiting
    BY <1>10, <2>1 DEF Probe, At, Ends, history, TextOK, TextTyped, TextInvariant, FinalTextIsTheLastReply
  <2>2. CASE ~waiting
    BY <1>1, <1>10, <2>2 DEF Probe, At, Go, history
  <2> QED BY <2>1, <2>2
<1>11. ASSUME UNCHANGED <<said, carried, final>> \/ (UNCHANGED said /\ carried' = <<>> /\ final' = <<>>),
              pc' = "done", ended' \in {"failed", "cancelled", "waiting"}
       PROVE  TextOK'
  <2>1. said' \in Seq(Sayings) /\ carried' \in Seq(Nat)
    <3>1. <<>> \in Seq(Nat)
      OBVIOUS
    <3>2. said \in Seq(Sayings) /\ carried \in Seq(Nat)
      BY DEF TextOK, TextTyped
    <3> QED BY <1>11, <3>1, <3>2, Zenon
  <2>2. ended' \notin {"completed", "step-cap", "degenerate-loop"}
    BY <1>11
  <2> QED BY <1>11, <2>1, <2>2 DEF TextOK, TextTyped, TextInvariant, FinalTextIsTheLastReply
<1>12. ASSUME NEW how \in {"failed", "cancelled"}, Breaks(how) PROVE TextOK'
  BY <1>11, <1>12 DEF Breaks, Ends, state
<1>13. CASE Yield
  BY <1>11, <1>13 DEF Yield, Ends, history
<1>14. ASSUME pc = "deciding" PROVE pc # "done" /\ ended = "no" /\ reply.says \in BOOLEAN
  <2>1. reply.says \in BOOLEAN
    <3>1. CASE reply = NoReply
      <4>1. NoReply.says = FALSE
        BY DEF NoReply
      <4> QED BY <3>1, <4>1
    <3>2. CASE reply \in Reply
      BY <3>2, LoopConstants
    <3> QED BY <3>1, <3>2 DEF RunOK
  <2> QED BY <1>14, <2>1 DEF TextOK, TextInvariant
<1>15. CASE Recover
  <2>1. CASE malformed + 1 >= MalformedLimit
    BY <1>11, <1>15, <2>1 DEF Recover, Ends, state
  <2>2. CASE ~(malformed + 1 >= MalformedLimit)
    <3>1. pc = "deciding" /\ step' = step + 1 /\ said' = Append(said, [says |-> FALSE, continues |-> TRUE])
      BY <1>15, <2>2 DEF Recover, At, NextStep, SaidNothing
    <3>2. CASE step + 1 >= MaxSteps
      <4>1. SettledText(<<>>) /\ pc' = "done" /\ ended' = "step-cap"
        BY <1>15, <2>2, <3>2 DEF Recover, Ends
      <4> QED BY <1>14, <3>1, <4>1, TextDecided
    <3>3. CASE ~(step + 1 >= MaxSteps)
      <4>1. UNCHANGED <<carried, final, ended>>
        BY <1>15, <2>2, <3>3 DEF Recover, Continues
      <4>2. CarriedText(<<>>)
        BY <4>1 DEF CarriedText, TextOK, TextTyped
      <4> QED BY <1>14, <3>1, <4>1, <4>2, TextDecided
    <3> QED BY <3>2, <3>3
  <2> QED BY <2>1, <2>2
<1>16. CASE Recut
  <2>1. CASE reply.finish # "length" \/ cuts + 1 > MaxCutCorrectives
    BY <1>11, <1>16, <2>1 DEF Recut, Ends, state
  <2>2. CASE ~(reply.finish # "length" \/ cuts + 1 > MaxCutCorrectives)
    <3>1. pc = "deciding" /\ step' = step + 1
      BY <1>16, <2>2 DEF Recut, At, NextStep
    <3>2. CASE step + 1 >= MaxSteps
      <4>1. SettledText(Says) /\ Said(FALSE) /\ pc' = "done" /\ ended' = "step-cap"
        BY <1>16, <2>2, <3>2 DEF Recut, Ends
      <4> QED BY <1>14, <3>1, <4>1, TextDecided DEF Says, Said
    <3>3. CASE ~(step + 1 >= MaxSteps)
      <4>1. /\ Continues
            /\ IF reply.calls # <<>> THEN SettledText(Says) /\ Said(FALSE) ELSE CarriedText(Says) /\ Said(TRUE)
        BY <1>16, <2>2, <3>3, Zenon DEF Recut
      <4>2. ended' = "no"
        BY <1>14, <3>1, <4>1 DEF Continues
      <4> QED BY <1>14, <3>1, <4>1, <4>2, TextDecided DEF Says, Said
    <3> QED BY <3>2, <3>3
  <2> QED BY <2>1, <2>2
<1>17. ASSUME NEW sig, NEW completed, Decide(sig, completed) PROVE TextOK'
  <2>1. pc = "deciding" /\ step' = step + 1
    BY <1>17 DEF Decide, At, NextStep
  <2>2. CASE Phase(sig, completed) = "continue"
    <3>1. /\ Continues
          /\ IF reply.finish = "pause" THEN CarriedText(Says) /\ Said(TRUE) ELSE SettledText(Says) /\ Said(FALSE)
      BY <1>17, <2>2, Zenon DEF Decide
    <3>2. ended' = "no"
      BY <1>14, <2>1, <3>1 DEF Continues
    <3> QED BY <1>14, <2>1, <3>1, <3>2, TextDecided DEF Says, Said
  <2>3. CASE Phase(sig, completed) # "continue"
    <3>1. /\ Said(FALSE) /\ pc' = "done" /\ ended' = Phase(sig, completed)
          /\ IF Broke(sig) THEN BrokenText(Says) ELSE SettledText(Says)
      BY <1>17, <2>3, Zenon DEF Decide, Ends
    <3>2. ended' # "no" /\ (ended' = "degenerate-loop" <=> Broke(sig))
      BY <3>1 DEF Phase
    <3> QED BY <1>14, <2>1, <3>1, <3>2, TextDecided DEF Says, Said
  <2> QED BY <2>2, <2>3
<1> QED
  BY <1>2, <1>3, <1>5, <1>6, <1>7, <1>8, <1>9, <1>10, <1>12, <1>13, <1>15, <1>16, <1>17 DEF Next, Runs

(* The run's text is its last reply with all that it continues, over any     *)
(* pauses, cuts, malformed replies and steps that say nothing (settledText,  *)
(* carriedText); only a broken loop that said nothing has the loop's own.    *)
THEOREM TheTextIsTheLastReply == Spec => []FinalTextIsTheLastReply
<1>1. Init => TextOK
  <2> SUFFICES ASSUME Init PROVE TextOK
    OBVIOUS
  <2>1. said = <<>> /\ carried = <<>> /\ final = <<>> /\ ended = "no" /\ step = 0 /\ Len(<<>>) = 0 /\ DOMAIN said = {}
    BY DEF Init
  <2>2. Spoke(said) = {} /\ OpenSpoke(said) = {} /\ LastReply(said, {} \ {}) = {}
    BY <2>1 DEF Spoke, OpenSpoke, LastReply
  <2>3. TextOf(carried, {}) /\ TextOf(final, {})
    BY <2>1 DEF TextOf
  <2>4. TextTyped
    BY <2>1 DEF TextTyped
  <2>5. Len(said) = step
    BY <2>1
  <2> QED BY <2>1, <2>2, <2>3, <2>4, <2>5 DEF TextOK, TextInvariant, FinalTextIsTheLastReply
<1>2. RunOK /\ RunOK' /\ TextOK /\ [Next]_vars => TextOK'
  BY TextKept
<1>3. RunOK /\ [Next]_vars => RunOK'
  BY RunKept DEF RunStep
<1>4. TextOK => FinalTextIsTheLastReply
  BY DEF TextOK, TextInvariant
<1> QED BY <1>1, <1>2, <1>3, <1>4, RunStarts, PTL DEF Spec

=============================================================================
