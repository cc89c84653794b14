----------------------------- MODULE MCSessions -----------------------------
(***************************************************************************)
(* Small instances of Sessions for TLC.  Each set of asks aims at one      *)
(* question; model values are named in the .cfg files.                     *)
(***************************************************************************)
EXTENDS SessionsProperties, TLC

CONSTANTS a, b,            \* two instances
          c1, c2,          \* two callers
          h,               \* a host
          k1, k2,          \* begin keys
          r1, r2, r3,      \* run ids
          n1, u1, s1       \* a notice, a queued input, a steer

User(key, run, resumes, over) ==
    [kind |-> "user", key |-> key, run |-> run, resumes |-> resumes, input |-> NoItem, over |-> over]
InboxTurn(run, over) == [kind |-> "inbox", key |-> NoItem, run |-> run, resumes |-> 0, input |-> NoItem, over |-> over]
QueuedTurn(run, item) == [kind |-> "queued", key |-> NoItem, run |-> run, resumes |-> 0, input |-> item, over |-> NotOver]
Whoever == [whom |-> "any", turn |-> 0, run |-> NoRun]

TwoHosts == [i \in Instance |-> i]
OneHost == [i \in Instance |-> h]
Alike == Permutations({a, b}) \cup Permutations({c1, c2})
Callers == Permutations({c1, c2})

(* Two users' messages, the second taking the session over, and a repeat.   *)
TurnAsks == {User(k1, r1, 0, NotOver), User(k2, r2, 0, Whoever)}

(* Drains of notices, one taking the session over, and of an input.          *)
InboxAsks == {InboxTurn(r1, NotOver), InboxTurn(r2, Whoever), QueuedTurn(r2, s1), QueuedTurn(r3, s1)}

(* A message, its retry under a new run, and another user's message.       *)
RepeatedAsks == {User(k1, r1, 0, NotOver), User(k1, r2, 0, NotOver), User(k2, r3, 0, NotOver)}

(* Two messages, neither taking the session over.                            *)
PlainAsks == {User(k1, r1, 0, NotOver), User(k2, r2, 0, NotOver)}
=============================================================================
