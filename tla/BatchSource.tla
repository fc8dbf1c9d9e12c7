------------------------------- MODULE BatchSource -------------------------------
(***************************************************************************)
(* What the comparison of src/diff.rs expects of the thread behind each of *)
(* its two channels: it sends a fixed stream of batches in order, ignoring *)
(* that the receiver may be gone, and returns once all of it was sent, with *)
(* an error exactly if a reader failed.                                    *)
(***************************************************************************)
EXTENDS Naturals, Sequences

CONSTANT ChannelBound

VARIABLES
  stream,  \* the batches to send
  fails,   \* whether the thread returns an error
  out,     \* the batches sent
  recvd,   \* how many of them the comparison received
  rxOpen,  \* the comparison holds its receiver
  status   \* what the thread returned

vars == <<stream, fails, out, recvd, rxOpen, status>>

Init ==
  /\ fails \in BOOLEAN
  /\ out = << >> /\ recvd = 0 /\ rxOpen = TRUE /\ status = "running"

Send ==
  /\ status = "running" /\ Len(out) < Len(stream)
  /\ rxOpen => Len(out) - recvd < ChannelBound
  /\ out' = Append(out, stream[Len(out) + 1])
  /\ UNCHANGED <<stream, fails, recvd, rxOpen, status>>

Return ==
  /\ status = "running" /\ out = stream
  /\ status' = IF fails THEN "err" ELSE "ok"
  /\ UNCHANGED <<stream, fails, out, recvd, rxOpen>>

Receive ==
  /\ rxOpen /\ recvd < Len(out)
  /\ recvd' = recvd + 1
  /\ UNCHANGED <<stream, fails, out, rxOpen, status>>

DropReceiver ==
  /\ rxOpen /\ rxOpen' = FALSE
  /\ UNCHANGED <<stream, fails, out, recvd, status>>

Source == Send \/ Return
Next == Source \/ Receive \/ DropReceiver
Spec == Init /\ [][Next]_vars /\ WF_vars(Source)
=============================================================================
