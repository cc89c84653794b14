---------------------------- MODULE ProcessPeer ----------------------------
(***************************************************************************)
(* The output side of the stdio peer (process-host): senders hand frames   *)
(* to one serial writer through a bounded set of slots and wait for their  *)
(* write to be acknowledged; the first failure of the output is latched    *)
(* and ends every accepted write and every later one.                      *)
(*                                                                         *)
(* Between two waits a handler runs alone: what it does until then is one  *)
(* step.  A frame that is written can be read at the other end before its  *)
(* acknowledgement resumes the sender.                                     *)
(***************************************************************************)
EXTENDS Integers, Sequences, FiniteSets

CONSTANTS Sender, MaxPendingWrites

ASSUME PeerConstants == MaxPendingWrites \in Nat \ {0}

VARIABLES phase,      \* ProcessPeerPhase: "Open" or "Failed"
          accepted,   \* the frames accepted, in order
          written,    \* how many of them are on the wire
          acked,      \* how many of them were acknowledged
          sending     \* per sender, where its send stands

peerVars == <<phase, accepted, written, acked, sending>>

NoFrame == [what |-> "none"]
Sending(step, frame) == [step |-> step, frame |-> frame]
Quiet == Sending("idle", NoFrame)

PeerInit ==
    /\ phase = "Open" /\ accepted = <<>> /\ written = 0 /\ acked = 0
    /\ sending = [s \in Sender |-> Quiet]

(* The slots not released yet.                                               *)
Unacknowledged == Len(accepted) - acked
Room == Unacknowledged < MaxPendingWrites

(* send, up to its first wait: it fails, is accepted, or waits for a slot.   *)
Send(s, frame) ==
    /\ sending' = [sending EXCEPT ![s] =
         IF phase = "Failed" THEN Sending("failed", NoFrame)
         ELSE IF Room THEN Sending("accepted", NoFrame)
         ELSE Sending("reserving", frame)]
    /\ accepted' = IF phase = "Open" /\ Room THEN Append(accepted, [frame EXCEPT !.from = s]) ELSE accepted
    /\ UNCHANGED <<phase, written, acked>>

(* A slot is free: the frame is accepted, unless the output failed since.    *)
Reserves(s) ==
    /\ sending[s].step = "reserving" /\ (phase = "Failed" \/ Room)
    /\ Send(s, sending[s].frame)

(* No slot came free within the write timeout.                               *)
CapacityPasses(s) ==
    /\ sending[s].step = "reserving"
    /\ sending' = [sending EXCEPT ![s] = Sending("failed", NoFrame)]
    /\ UNCHANGED <<phase, accepted, written, acked>>

(* The writer, one frame at a time: the frame goes out, then the callback    *)
(* (and a drain) acknowledges it and its slot is released.                   *)
Writes ==
    /\ phase = "Open" /\ written = acked /\ written < Len(accepted)
    /\ written' = written + 1
    /\ UNCHANGED <<phase, accepted, acked, sending>>

AcknowledgedTo(s) == IF sending[s].step = "accepted" THEN [sending EXCEPT ![s] = Sending("acked", NoFrame)] ELSE sending
Acknowledges ==
    /\ phase = "Open" /\ acked < written
    /\ acked' = acked + 1
    /\ sending' = AcknowledgedTo(accepted[acked + 1].from)
    /\ UNCHANGED <<phase, accepted, written>>

(* latch: every accepted write fails with the output.                        *)
Latch ==
    /\ phase' = "Failed"
    /\ sending' = [s \in Sender |-> IF sending[s].step = "accepted" THEN Sending("failed", NoFrame) ELSE sending[s]]
    /\ UNCHANGED <<accepted, written, acked>>

OutputFails == phase = "Open" /\ Latch
WriteTimesOut == phase = "Open" /\ acked < Len(accepted) /\ Latch

(* A sender that stops waiting leaves its accepted frame with the writer.    *)
SendsNoMore(senders) == sending' = [s \in Sender |-> IF s \in senders THEN Quiet ELSE sending[s]]
=============================================================================
