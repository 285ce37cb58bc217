---------------------------- MODULE FileTransfer ----------------------------
(***************************************************************************)
(* What an X/YMODEM transfer promises: the receiver's file grows as a      *)
(* prefix of the file sent; the receiver reports success only of all of    *)
(* it, and the sender only after the receiver.                             *)
(***************************************************************************)
EXTENDS Naturals, Sequences

CONSTANT Size     \* of the file, in units of 128 bytes

VARIABLES
  file,      \* what the receiver has written
  received,  \* the receiver's verdict: "open", "success" or "failure"
  sent       \* the sender's

Source == [i \in 1..Size |-> i]

Init == file = <<>> /\ received = "open" /\ sent = "open"

Append128s ==
  /\ received = "open"
  /\ \E n \in Len(file) + 1..Size : file' = SubSeq(Source, 1, n)
  /\ UNCHANGED <<received, sent>>

ReceiverEnds(verdict) ==
  /\ received = "open" /\ received' = verdict
  /\ verdict = "success" => file = Source
  /\ UNCHANGED <<file, sent>>

SenderEnds(verdict) ==
  /\ sent = "open" /\ sent' = verdict
  /\ verdict = "success" => received = "success"
  /\ UNCHANGED <<file, received>>

Next ==
  \/ Append128s
  \/ \E verdict \in {"success", "failure"} : ReceiverEnds(verdict) \/ SenderEnds(verdict)

Spec == Init /\ [][Next]_<<file, received, sent>>
=============================================================================
