------------------------------- MODULE Xmodem -------------------------------
(***************************************************************************)
(* The data phase of an XMODEM or YMODEM transfer of one file: the sender  *)
(* xmodem_send_file() with xmodem_get_mode(), xmodem_get_ack() and         *)
(* xmodem_put_eot(), the receiver's loop in receive_files() with           *)
(* xmodem_get_block() and xmodem_put_nak(), and the line between them.     *)
(*                                                                         *)
(* A file is a sequence of units of 128 bytes, 1 to Size.  What is on the  *)
(* line is a whole block or a control character.  An error check finds     *)
(* every damaged block.  X/YMODEM-G and the YMODEM header are left out.    *)
(***************************************************************************)
EXTENDS Naturals, Sequences, SequencesExt

CONSTANTS
  Size,          \* of the file, in units of 128 bytes
  BlockSize,     \* the sender's block size, in units: 1, or 8 in the program
  Announced,     \* the file size was announced in a YMODEM header
  MaxErrors,     \* xm.max_errors
  AckTries,      \* the tries of xmodem_get_ack(): 5
  FallbackAt,    \* the errors on block 1 before the sender tries blocks of one unit: 3
  ChecksumAfter, \* the errors on block 1 the receiver bears in CRC mode: xm.max_errors/3
  Modulus,       \* of the block number on the line: 256
  EotNumber,     \* the block number that reads as EOT: 4
  Slips,         \* noise may take the SOH off such a block
  MaxNoise       \* bound on what the line damages

ASSUME XmodemAssumption ==
  /\ Size \in Nat /\ BlockSize \in Nat \ {0} /\ MaxErrors \in Nat /\ AckTries \in Nat \ {0}
  /\ FallbackAt \in Nat /\ ChecksumAfter \in Nat
  /\ Modulus \in Nat /\ Modulus >= 2 /\ EotNumber \in Nat /\ MaxNoise \in Nat
  /\ Slips \in BOOLEAN /\ Announced \in BOOLEAN

VARIABLES
  s,       \* the sender: its place, block number, position, block size, errors, mode
  r,       \* the receiver: its place, the number it expects, its errors, its file
  toRecv,  \* blocks and characters on the line to the receiver
  toSend,  \* characters on the line to the sender
  line     \* patient: nobody times out before the line is silent; damage done so far

vars == <<s, r, toRecv, toSend, line>>

Char(c) == [kind |-> c, num |-> 0, at |-> 0, len |-> 0, crc |-> FALSE]

\* put_block(): the block at the sender's position.
BlockOf(t) == [kind |-> "block", num |-> t.num, at |-> t.at, len |-> t.size, crc |-> t.crc]

Init ==
  /\ s = [pc |-> "mode", num |-> 1, at |-> 0, size |-> BlockSize, errors |-> 0, tries |-> 0,
          crc |-> FALSE, ok |-> FALSE]
  /\ r \in [pc : {"wait"}, num : {1}, errors : {0}, tries : {0}, eot : {FALSE},
            crc : BOOLEAN, file : {<<>>}, ok : {FALSE}]
  /\ toRecv = <<>>
  /\ toSend = IF r.crc THEN <<"C">> ELSE <<"NAK">>
  /\ line \in [patient : BOOLEAN, noise : {0}, answers : {FALSE}]

\* getcom() waits in vain.  Nothing says how long the other end takes.
Silence(channel) ==
  /\ channel = <<>>
  /\ line.patient => toRecv = <<>> \/ r.pc = "done"
  /\ line.patient => toSend = <<>> \/ s.pc = "done"

---------------------------------------------------------------------------
(* The sender *)

SenderEnds(ok) ==
  /\ s' = [s EXCEPT !.pc = "done", !.ok = ok]
  /\ toRecv' = IF ok THEN toRecv ELSE Append(toRecv, Char("CAN"))

\* Near the end of a file that was not announced, blocks of one unit.
SizeAt(at, size) ==
  IF ~Announced /\ at + size > Size THEN 1 ELSE size

\* The next block, or the end of the file.
Proceed(t) ==
  LET b == [t EXCEPT !.pc = "ack", !.size = SizeAt(t.at, t.size), !.tries = 0] IN
  IF t.at < Size
  THEN s' = b /\ toRecv' = Append(toRecv, BlockOf(b))
  ELSE s' = [t EXCEPT !.pc = "eot", !.tries = 0] /\ toRecv' = Append(toRecv, Char("EOT"))

\* xmodem_put_eot() throws out what has come in before.
Rest(t) == IF t.at < Size THEN {Tail(toSend)} ELSE Suffixes(Tail(toSend))

\* Mistake: the mode asked for is ignored.
GetMode_Crc ==
  /\ s.pc = "mode" /\ toSend # <<>> /\ Head(toSend) \in {"C", "NAK"}
  /\ Proceed([s EXCEPT !.crc = TRUE])
  /\ toSend' \in Rest(s)
  /\ UNCHANGED <<r, line>>

\* xmodem_get_mode()
GetMode ==
  /\ s.pc = "mode" /\ toSend # <<>> /\ Head(toSend) \in {"C", "NAK"}
  /\ Proceed([s EXCEPT !.crc = (Head(toSend) = "C")])
  /\ toSend' \in Rest(s)
  /\ UNCHANGED <<r, line>>

\* Something else, or nothing in time.
NoMode ==
  /\ s.pc = "mode"
  /\ \/ toSend # <<>> /\ Head(toSend) \notin {"C", "NAK", "CAN"} /\ toSend' = Tail(toSend)
     \/ Silence(toSend) /\ UNCHANGED toSend
  /\ IF s.tries < MaxErrors
     THEN s' = [s EXCEPT !.tries = @ + 1] /\ UNCHANGED toRecv
     ELSE SenderEnds(FALSE)
  /\ UNCHANGED <<r, line>>

\* xmodem_get_ack(): the block was received.
AckCame ==
  /\ s.pc = "ack" /\ toSend # <<>> /\ Head(toSend) = "ACK"
  /\ LET t == [s EXCEPT !.num = @ + 1, !.at = IF @ + s.size > Size THEN Size ELSE @ + s.size] IN
     Proceed(t) /\ toSend' \in Rest(t)
  /\ UNCHANGED <<r, line>>

\* The block is sent again, in blocks of one unit after a number of errors on block 1.
SendAgain ==
  LET t == [s EXCEPT !.errors = @ + 1,
              !.size = IF s.errors + 1 = FallbackAt /\ s.num = 1 THEN 1 ELSE @] IN
  IF t.errors > MaxErrors
  THEN SenderEnds(FALSE)
  ELSE Proceed(t)

\* Any other answer but a cancellation.
NakCame ==
  /\ s.pc = "ack" /\ toSend # <<>> /\ Head(toSend) \notin {"ACK", "CAN"}
  /\ SendAgain
  /\ toSend' = Tail(toSend)
  /\ UNCHANGED <<r, line>>

NoAck ==
  /\ s.pc = "ack" /\ Silence(toSend)
  /\ IF s.tries + 1 < AckTries
     THEN s' = [s EXCEPT !.tries = @ + 1] /\ UNCHANGED toRecv
     ELSE SendAgain
  /\ UNCHANGED <<r, toSend, line>>

\* Cancelled by the receiver.
Cancelled ==
  /\ s.pc \in {"mode", "ack", "eot"} /\ toSend # <<>> /\ Head(toSend) = "CAN"
  /\ SenderEnds(FALSE)
  /\ toSend' = Tail(toSend)
  /\ UNCHANGED <<r, line>>

\* xmodem_put_eot(): the receiver has it all.
EotAcked ==
  /\ s.pc = "eot" /\ toSend # <<>> /\ Head(toSend) = "ACK"
  /\ SenderEnds(TRUE)
  /\ toSend' = Tail(toSend)
  /\ UNCHANGED <<r, line>>

EotAgain ==
  /\ s.pc = "eot"
  /\ \/ toSend # <<>> /\ Head(toSend) # "ACK" /\ toSend' \in Suffixes(Tail(toSend))
     \/ Silence(toSend) /\ UNCHANGED toSend
  /\ IF s.tries < MaxErrors
     THEN s' = [s EXCEPT !.tries = @ + 1] /\ toRecv' = Append(toRecv, Char("EOT"))
     ELSE SenderEnds(FALSE)
  /\ UNCHANGED <<r, line>>

---------------------------------------------------------------------------
(* The receiver *)

\* put_nak(): asks for the mode again while nothing has been received.
NakFor(t) == IF t.num = 1 /\ t.crc THEN "C" ELSE "NAK"

ReceiverEnds(ok) == r' = [r EXCEPT !.pc = "done", !.ok = ok]

\* receive_files(): xmodem_get_block() failed, having sent the answers given.
Error(answers) ==
  LET t == [r EXCEPT !.errors = @ + 1, !.tries = 0, !.eot = FALSE,
              !.crc = @ /\ ~(r.num = 1 /\ r.errors + 1 > ChecksumAfter)] IN
  IF t.errors > MaxErrors
  THEN ReceiverEnds(FALSE) /\ toSend' = Append(toSend \o answers, "CAN")
  ELSE r' = t /\ toSend' = Append(toSend \o answers, NakFor(t))

\* Mistake: once too often.
GoOn_TooOften(eot, answers) ==
  IF r.tries <= MaxErrors
  THEN r' = [r EXCEPT !.tries = @ + 1, !.eot = eot] /\ toSend' = toSend \o answers
  ELSE Error(answers)

\* xmodem_get_block(): on with its loop, or it gives up.
GoOn(eot, answers) ==
  IF r.tries < MaxErrors
  THEN r' = [r EXCEPT !.tries = @ + 1, !.eot = eot] /\ toSend' = toSend \o answers
  ELSE Error(answers)

Arrived == r.pc = "wait" /\ toRecv # <<>>

\* A block that passes the error check in the receiver's mode.
Good == Arrived /\ Head(toRecv).kind = "block" /\ Head(toRecv).crc = r.crc

Numbered(n) == Head(toRecv).num % Modulus = n % Modulus

\* The units of a block, filled up at the end of the file.
Units(b) == [i \in 1..b.len |-> IF b.at + i <= Size THEN b.at + i ELSE 0]

\* What of a block goes to a file of a known size.
Wanted(b) ==
  IF Announced /\ Len(r.file) + b.len > Size THEN SubSeq(Units(b), 1, Size - Len(r.file))
  ELSE Units(b)

\* Mistake: any good block is taken.
Expected_Any == Good

Expected == Good /\ Numbered(r.num)

\* The block expected is acknowledged and written; more than was announced ends it.
Receive ==
  /\ Expected
  /\ r' = IF Announced /\ Len(r.file) >= Size
          THEN [r EXCEPT !.pc = "done"]
          ELSE [r EXCEPT !.file = @ \o Wanted(Head(toRecv)), !.num = @ + 1,
                         !.tries = 0, !.eot = FALSE]
  /\ toSend' = Append(toSend, "ACK")
  /\ toRecv' = Tail(toRecv)
  /\ UNCHANGED <<s, line>>

\* The block before it is discarded without an answer.
Repeated == Good /\ ~Expected /\ r.num > 1 /\ Numbered(r.num - 1)

DiscardRepeated ==
  /\ Repeated
  /\ GoOn(FALSE, <<>>)
  /\ toRecv' = Tail(toRecv)
  /\ UNCHANGED <<s, line>>

\* A damaged block, one in another mode, or one that is neither.  What has come in
\* by then is thrown out before the answer.
Reject ==
  /\ Arrived /\ Head(toRecv).kind \in {"block", "junk"}
  /\ ~Expected /\ ~Repeated
  /\ Error(<<>>)
  /\ toRecv' \in Suffixes(Tail(toRecv))
  /\ UNCHANGED <<s, line>>

\* The first EOT is answered with a NAK, ...
FirstEot ==
  /\ Arrived /\ Head(toRecv).kind = "EOT" /\ ~r.eot
  /\ GoOn(TRUE, <<NakFor(r)>>)
  /\ toRecv' \in Suffixes(Tail(toRecv))
  /\ UNCHANGED <<s, line>>

\* ... and a second one, or silence, believed.
SecondEot ==
  /\ r.pc = "wait" /\ r.eot
  /\ \/ Arrived /\ Head(toRecv).kind = "EOT" /\ toRecv' \in Suffixes(Tail(toRecv))
     \/ Silence(toRecv) /\ UNCHANGED toRecv
  /\ ReceiverEnds(TRUE) /\ toSend' = Append(toSend, "ACK")
  /\ UNCHANGED <<s, line>>

\* Mistake: the receiver waits for ever once it has a block.
NoBlock_FirstOnly ==
  /\ r.pc = "wait" /\ ~r.eot /\ r.num = 1 /\ Silence(toRecv)
  /\ Error(<<>>)
  /\ UNCHANGED <<s, toRecv, line>>

NoBlock ==
  /\ r.pc = "wait" /\ ~r.eot /\ Silence(toRecv)
  /\ Error(<<>>)
  /\ UNCHANGED <<s, toRecv, line>>

CancelledBySender ==
  /\ Arrived /\ Head(toRecv).kind = "CAN"
  /\ ReceiverEnds(FALSE)
  /\ toRecv' = Tail(toRecv)
  /\ UNCHANGED <<s, toSend, line>>

---------------------------------------------------------------------------
(* The line *)

Damaged(channel, i, by) == [channel EXCEPT ![i] = by]

\* A block or a character is lost, or arrives as something else.
NoiseToRecv ==
  /\ line.noise < MaxNoise
  /\ \E i \in 1..Len(toRecv) :
       \/ toRecv' = RemoveAt(toRecv, i)
       \/ toRecv' = Damaged(toRecv, i, Char("junk"))
       \/ /\ Slips /\ toRecv[i].kind = "block" /\ toRecv[i].num % Modulus = EotNumber
          /\ toRecv' = Damaged(toRecv, i, Char("EOT"))
  /\ line' = [line EXCEPT !.noise = @ + 1]
  /\ UNCHANGED <<s, r, toSend>>

NoiseToSend ==
  /\ line.noise < MaxNoise
  /\ \E i \in 1..Len(toSend) :
       toSend' = RemoveAt(toSend, i) \/ toSend' = Damaged(toSend, i, "junk")
  /\ line' = [line EXCEPT !.noise = @ + 1, !.answers = TRUE]
  /\ UNCHANGED <<s, r, toRecv>>

---------------------------------------------------------------------------

Sender ==
  \/ GetMode \/ NoMode \/ AckCame \/ NakCame \/ NoAck \/ Cancelled \/ EotAcked \/ EotAgain

Receiver ==
  \/ Receive \/ DiscardRepeated \/ Reject \/ FirstEot \/ SecondEot \/ NoBlock
  \/ CancelledBySender

Next == Sender \/ Receiver \/ NoiseToRecv \/ NoiseToSend

Spec == Init /\ [][Next]_vars

\* Both programs run; a wait for a character ends.
FairSpec == Spec /\ WF_vars(Sender) /\ WF_vars(Receiver)

---------------------------------------------------------------------------
(* Properties *)

Blocks == [kind : {"block"}, num : Nat, at : 0..Size, len : 1..BlockSize, crc : BOOLEAN]

Answers == {"ACK", "NAK", "C", "CAN", "junk"}

\* The two ends and what is on the line are well formed.
TypeOK ==
  /\ s \in [pc : {"mode", "ack", "eot", "done"}, num : Nat \ {0}, at : 0..Size,
            size : 1..BlockSize, errors : 0..MaxErrors, tries : 0..(MaxErrors + AckTries),
            crc : BOOLEAN, ok : BOOLEAN]
  /\ r \in [pc : {"wait", "done"}, num : Nat \ {0}, errors : 0..MaxErrors, tries : 0..MaxErrors,
            eot : BOOLEAN, crc : BOOLEAN, file : Seq(0..Size), ok : BOOLEAN]
  /\ toRecv \in Seq(Blocks \union {Char(c) : c \in {"EOT", "CAN", "junk"}})
  /\ toSend \in Seq(Answers)
  /\ line \in [patient : BOOLEAN, noise : 0..MaxNoise, answers : BOOLEAN]

\* What the receiver has written is the beginning of the file sent: no block is
\* missing, doubled or taken for another one.
Intact == Len(r.file) <= Size /\ \A i \in 1..Len(r.file) : r.file[i] = i

Verdict(e) == IF e.pc # "done" THEN "open" ELSE IF e.ok THEN "success" ELSE "failure"

FT == INSTANCE FileTransfer WITH file <- r.file, received <- Verdict(r), sent <- Verdict(s)

\* The protocol is a file transfer.
Transfers == FT!Spec

\* A block discarded as repeated is one the file ends with.
DiscardsRepeats ==
  [][DiscardRepeated =>
       LET b == Head(toRecv) IN b.at + b.len = Len(r.file) \/ Len(r.file) = Size]_vars

\* Both programs end.
Ends == <>(s.pc = "done" /\ r.pc = "done")

\* On a line that only damages blocks, less often than the errors allowed, while
\* nobody gives up waiting early, the file arrives.
Recovers == <>[](line.patient /\ ~line.answers => s.ok /\ r.ok)

\* The same of a line that damages answers too.
RecoversAll == <>[](line.patient => s.ok /\ r.ok)
=============================================================================
