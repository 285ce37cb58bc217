---------------------------- MODULE Xmodem_proofs ----------------------------
(* An XMODEM or YMODEM transfer is a file transfer, for every file, block  *)
(* size, limit of errors and amount of noise, as long as the sender does   *)
(* not fall back to smaller blocks and noise makes no EOT of a block.      *)
EXTENDS Xmodem, SequenceTheorems, TLAPS

---------------------------------------------------------------------------
(* Sequences *)

\* t is what is left of q, in its order, after some of it was lost or damaged.
LeftOf(t, q, junk) ==
  \E f \in [1..Len(t) -> 1..Len(q)] :
    /\ \A i, j \in 1..Len(t) : i < j => f[i] < f[j]
    /\ \A i \in 1..Len(t) : t[i] = q[f[i]] \/ t[i] = junk

LEMMA Slice ==
  ASSUME NEW H, NEW q \in Seq(H), NEW m \in Nat, NEW n \in Nat, 1 <= m, n <= Len(q), m <= n + 1
  PROVE  /\ SubSeq(q, m, n) \in Seq(H) /\ Len(SubSeq(q, m, n)) = n - m + 1
         /\ \A i \in 1..(n - m + 1) : SubSeq(q, m, n)[i] = q[m + i - 1]
<1>1. SubSeq(q, m, n) \in Seq(H) OBVIOUS
<1>2. Len(SubSeq(q, m, n)) = n - m + 1 OBVIOUS
<1>3. ASSUME NEW i \in 1..(n - m + 1) PROVE SubSeq(q, m, n)[i] = q[m + i - 1] OBVIOUS
<1> QED BY <1>1, <1>2, <1>3

LEMMA Joined ==
  ASSUME NEW H, NEW a \in Seq(H), NEW b \in Seq(H)
  PROVE  /\ a \o b \in Seq(H) /\ Len(a \o b) = Len(a) + Len(b)
         /\ \A i \in 1..Len(a) : (a \o b)[i] = a[i]
         /\ \A i \in (Len(a) + 1)..(Len(a) + Len(b)) : (a \o b)[i] = b[i - Len(a)]
<1>1. a \o b \in Seq(H) /\ Len(a \o b) = Len(a) + Len(b) OBVIOUS
<1>2. \A i \in 1..Len(a) : (a \o b)[i] = a[i] OBVIOUS
<1>3. \A i \in (Len(a) + 1)..(Len(a) + Len(b)) : (a \o b)[i] = b[i - Len(a)] OBVIOUS
<1> QED BY <1>1, <1>2, <1>3

LEMMA TailLeft ==
  ASSUME NEW H, NEW q \in Seq(H), q # <<>>, NEW junk
  PROVE  Tail(q) \in Seq(H) /\ LeftOf(Tail(q), q, junk)
         /\ Len(Tail(q)) = Len(q) - 1 /\ \A i \in 1..Len(Tail(q)) : Tail(q)[i] = q[i + 1]
<1>1. /\ Len(q) \in Nat \ {0} /\ Tail(q) \in Seq(H) /\ Len(Tail(q)) = Len(q) - 1
      /\ \A i \in 1..Len(Tail(q)) : Tail(q)[i] = q[i + 1]
  OBVIOUS
<1> DEFINE f == [i \in 1..Len(Tail(q)) |-> i + 1]
<1>2. f \in [1..Len(Tail(q)) -> 1..Len(q)] BY <1>1
<1>3. /\ \A i, j \in 1..Len(Tail(q)) : i < j => f[i] < f[j]
      /\ \A i \in 1..Len(Tail(q)) : Tail(q)[i] = q[f[i]]
  BY <1>1
<1> QED BY <1>1, <1>2, <1>3 DEF LeftOf

LEMMA SuffixLeft ==
  ASSUME NEW H, NEW q \in Seq(H), NEW t \in Suffixes(q), NEW junk
  PROVE  t \in Seq(H) /\ LeftOf(t, q, junk)
<1>1. CASE t = <<>>
  <2>1. t \in Seq(H) /\ Len(t) = 0 BY <1>1
  <2>2. 1..Len(t) = {} BY <2>1
  <2> DEFINE f == [i \in 1..Len(t) |-> i]
  <2>3. f \in [1..Len(t) -> 1..Len(q)] BY <2>2
  <2> QED BY <2>1, <2>2, <2>3 DEF LeftOf
<1>2. ASSUME NEW l \in 1..Len(q), t = SubSeq(q, l, Len(q)) PROVE t \in Seq(H) /\ LeftOf(t, q, junk)
  <2>1. /\ Len(q) \in Nat /\ t \in Seq(H) /\ Len(t) = Len(q) - l + 1
        /\ \A i \in 1..Len(t) : t[i] = q[l + i - 1]
    BY <1>2
  <2> DEFINE f == [i \in 1..Len(t) |-> l + i - 1]
  <2>2. f \in [1..Len(t) -> 1..Len(q)] BY <2>1
  <2>3. /\ \A i, j \in 1..Len(t) : i < j => f[i] < f[j]
        /\ \A i \in 1..Len(t) : t[i] = q[f[i]]
    BY <2>1
  <2> QED BY <2>1, <2>2, <2>3 DEF LeftOf
<1> QED BY <1>1, <1>2 DEF Suffixes

LEMMA LeftOfTail ==
  ASSUME NEW H, NEW q \in Seq(H), q # <<>>, NEW t \in Suffixes(Tail(q)), NEW junk
  PROVE  t \in Seq(H) /\ LeftOf(t, q, junk)
<1>1. /\ Len(q) \in Nat \ {0} /\ Tail(q) \in Seq(H) /\ Len(Tail(q)) = Len(q) - 1
      /\ \A i \in 1..Len(Tail(q)) : Tail(q)[i] = q[i + 1]
  BY TailLeft
<1>2. t \in Seq(H) /\ LeftOf(t, Tail(q), junk) BY <1>1, SuffixLeft
<1>3. PICK f \in [1..Len(t) -> 1..Len(Tail(q))] :
        /\ \A i, j \in 1..Len(t) : i < j => f[i] < f[j]
        /\ \A i \in 1..Len(t) : t[i] = Tail(q)[f[i]] \/ t[i] = junk
  BY <1>2 DEF LeftOf
<1> DEFINE g == [i \in 1..Len(t) |-> f[i] + 1]
<1>4. g \in [1..Len(t) -> 1..Len(q)] BY <1>1, <1>3
<1>5. \A i, j \in 1..Len(t) : i < j => g[i] < g[j] BY <1>1, <1>3
<1>6. \A i \in 1..Len(t) : t[i] = q[g[i]] \/ t[i] = junk BY <1>1, <1>3
<1> QED BY <1>2, <1>4, <1>5, <1>6 DEF LeftOf

LEMMA DamagedLeft ==
  ASSUME NEW H, NEW q \in Seq(H), NEW k \in 1..Len(q), NEW junk \in H
  PROVE  Damaged(q, k, junk) \in Seq(H) /\ LeftOf(Damaged(q, k, junk), q, junk)
<1> DEFINE t == Damaged(q, k, junk)
           f == [i \in 1..Len(t) |-> i]
<1>1. /\ Len(q) \in Nat /\ t \in Seq(H) /\ Len(t) = Len(q)
      /\ \A i \in 1..Len(q) : t[i] = IF i = k THEN junk ELSE q[i]
  BY DEF Damaged
<1> HIDE DEF t
<1>2. f \in [1..Len(t) -> 1..Len(q)] BY <1>1
<1>3. /\ \A i, j \in 1..Len(t) : i < j => f[i] < f[j]
      /\ \A i \in 1..Len(t) : t[i] = q[f[i]] \/ t[i] = junk
  BY <1>1
<1>4. LeftOf(t, q, junk) BY <1>2, <1>3 DEF LeftOf
<1> QED BY <1>1, <1>4 DEF t

LEMMA RemovedLeft ==
  ASSUME NEW H, NEW q \in Seq(H), NEW k \in 1..Len(q), NEW junk
  PROVE  RemoveAt(q, k) \in Seq(H) /\ LeftOf(RemoveAt(q, k), q, junk)
<1> DEFINE a == SubSeq(q, 1, k - 1)
           b == SubSeq(q, k + 1, Len(q))
           t == a \o b
           f == [i \in 1..Len(t) |-> IF i < k THEN i ELSE i + 1]
<1>1. Len(q) \in Nat OBVIOUS
<1> DEFINE m == k - 1
           n == k + 1
<1>2. m \in Nat /\ n \in Nat \ {0} /\ m <= Len(q) /\ n <= Len(q) + 1
      /\ a = SubSeq(q, 1, m) /\ b = SubSeq(q, n, Len(q))
  BY <1>1
<1> HIDE DEF m, n, a, b
<1>3. a \in Seq(H) /\ Len(a) = m /\ \A i \in 1..m : a[i] = q[i] BY <1>1, <1>2, Slice
<1>4. b \in Seq(H) /\ Len(b) = Len(q) - n + 1
      /\ \A i \in 1..(Len(q) - n + 1) : b[i] = q[n + i - 1]
  BY <1>1, <1>2, Slice
<1>a. /\ t \in Seq(H) /\ Len(t) = Len(a) + Len(b)
      /\ \A i \in 1..Len(a) : t[i] = a[i]
      /\ \A i \in (Len(a) + 1)..(Len(a) + Len(b)) : t[i] = b[i - Len(a)]
  BY <1>3, <1>4, Joined
<1> HIDE DEF t
<1>5. /\ Len(t) = Len(q) - 1
      /\ \A i \in 1..Len(t) : t[i] = IF i < k THEN q[i] ELSE q[i + 1]
  BY <1>1, <1>3, <1>4, <1>a DEF m, n
<1>6. f \in [1..Len(t) -> 1..Len(q)] BY <1>1, <1>5
<1>7. /\ \A i, j \in 1..Len(t) : i < j => f[i] < f[j]
      /\ \A i \in 1..Len(t) : t[i] = q[f[i]]
  BY <1>1, <1>5
<1>8. LeftOf(t, q, junk) BY <1>6, <1>7 DEF LeftOf
<1> QED BY <1>a, <1>8 DEF t, a, b, RemoveAt

---------------------------------------------------------------------------
(* Types *)

Chars == {Char(c) : c \in {"EOT", "CAN", "junk"}}
Messages == Blocks \union Chars

SenderTypes ==
  [pc : {"mode", "ack", "eot", "done"}, num : Nat \ {0}, at : 0..Size, size : 1..BlockSize,
   errors : 0..MaxErrors, tries : 0..(MaxErrors + AckTries), crc : BOOLEAN, ok : BOOLEAN]
ReceiverTypes ==
  [pc : {"wait", "done"}, num : Nat \ {0}, errors : 0..MaxErrors, tries : 0..MaxErrors,
   eot : BOOLEAN, crc : BOOLEAN, file : Seq(0..Size), ok : BOOLEAN]
LineTypes == [patient : BOOLEAN, noise : 0..MaxNoise, answers : BOOLEAN]

LEMMA Types ==
  TypeOK <=> /\ s \in SenderTypes /\ r \in ReceiverTypes /\ line \in LineTypes
             /\ toRecv \in Seq(Messages) /\ toSend \in Seq(Answers)
BY DEF TypeOK, SenderTypes, ReceiverTypes, LineTypes, Messages, Chars

LEMMA TypesNext ==
  TypeOK' <=> /\ s' \in SenderTypes /\ r' \in ReceiverTypes /\ line' \in LineTypes
              /\ toRecv' \in Seq(Messages) /\ toSend' \in Seq(Answers)
BY DEF TypeOK, SenderTypes, ReceiverTypes, LineTypes, Messages, Chars

LEMMA CharTypes ==
  /\ Char("EOT") \in Messages /\ Char("CAN") \in Messages /\ Char("junk") \in Messages
  /\ {"ACK", "NAK", "C", "CAN", "junk"} = Answers
BY DEF Messages, Chars, Answers

\* The bounds of the counters.
LEMMA Ranges ==
  /\ 0 \in 0..Size /\ 0 \in 0..MaxErrors /\ 0 \in 0..MaxNoise /\ 0 \in 0..(MaxErrors + AckTries)
  /\ BlockSize \in 1..BlockSize /\ 1 \in 1..BlockSize /\ 1 \in Nat \ {0}
  /\ \A i \in 0..MaxErrors : i < MaxErrors =>
       i + 1 \in 0..MaxErrors
  /\ \A i \in 0..(MaxErrors + AckTries) : i < MaxErrors \/ i + 1 < AckTries =>
       i + 1 \in 0..(MaxErrors + AckTries)
  /\ \A i \in 0..MaxErrors : ~(i + 1 > MaxErrors) => i + 1 \in 0..MaxErrors
  /\ \A i \in 0..MaxNoise : i < MaxNoise => i + 1 \in 0..MaxNoise
  /\ \A i \in Nat \ {0} : i + 1 \in Nat \ {0}
BY XmodemAssumption

LEMMA TypeInit == Init => TypeOK
<1> SUFFICES ASSUME Init PROVE TypeOK OBVIOUS
<1>1. s \in SenderTypes
  <2>1. s = [pc |-> "mode", num |-> 1, at |-> 0, size |-> BlockSize, errors |-> 0, tries |-> 0,
             crc |-> FALSE, ok |-> FALSE]
    BY DEF Init
  <2> QED BY <2>1, Ranges DEF SenderTypes
<1>2. r \in ReceiverTypes
  <2> DEFINE e == <<>>
  <2>1. e \in Seq(0..Size) OBVIOUS
  <2> HIDE DEF e
  <2>2. r \in [pc : {"wait"}, num : {1}, errors : {0}, tries : {0}, eot : {FALSE},
               crc : BOOLEAN, file : {e}, ok : {FALSE}]
    BY DEF Init, e
  <2> QED BY <2>1, <2>2, Ranges DEF ReceiverTypes
<1>3. line \in LineTypes BY Ranges DEF Init, LineTypes
<1>4. toRecv \in Seq(Messages) /\ toSend \in Seq(Answers)
  <2>1. "C" \in Answers /\ "NAK" \in Answers BY DEF Answers
  <2>2. <<"C">> \in Seq(Answers) /\ <<"NAK">> \in Seq(Answers) BY <2>1
  <2> QED BY <2>2 DEF Init
<1> QED BY <1>1, <1>2, <1>3, <1>4, Types

\* The next block, of a sender that has counted its tries and errors.
LEMMA ProceedTypes ==
  ASSUME TypeOK, NEW t \in SenderTypes, Proceed(t)
  PROVE  s' \in SenderTypes /\ toRecv' \in Seq(Messages)
<1> DEFINE n == SizeAt(t.at, t.size)
           b == [t EXCEPT !.pc = "ack", !.size = n, !.tries = 0]
           e == [t EXCEPT !.pc = "eot", !.tries = 0]
<1>1. n \in 1..BlockSize BY Ranges DEF SizeAt, SenderTypes
<1>2. b \in SenderTypes
  <2> HIDE DEF n
  <2> QED BY <1>1, Ranges DEF SenderTypes
<1>7. e \in SenderTypes BY Ranges DEF SenderTypes
<1>3. BlockOf(b) \in Messages
  <2> HIDE DEF b
  <2>1. b.num \in Nat /\ b.at \in 0..Size /\ b.size \in 1..BlockSize /\ b.crc \in BOOLEAN
    BY <1>2 DEF SenderTypes
  <2> QED BY <2>1 DEF BlockOf, Blocks, Messages
<1>4. toRecv \in Seq(Messages) BY Types
<1>5. CASE t.at < Size
  <2>1. s' = b /\ toRecv' = Append(toRecv, BlockOf(b)) BY <1>5 DEF Proceed
  <2> HIDE DEF b
  <2> QED BY <1>2, <1>3, <1>4, <2>1
<1>6. CASE ~(t.at < Size)
  <2>1. s' = e /\ toRecv' = Append(toRecv, Char("EOT")) BY <1>6 DEF Proceed
  <2> HIDE DEF e
  <2> QED BY <1>4, <1>7, <2>1, CharTypes
<1> QED BY <1>5, <1>6

LEMMA SenderEndsTypes ==
  ASSUME TypeOK, NEW ok \in BOOLEAN, SenderEnds(ok)
  PROVE  s' \in SenderTypes /\ toRecv' \in Seq(Messages)
<1>1. s \in SenderTypes /\ toRecv \in Seq(Messages) BY Types
<1>2. s' = [s EXCEPT !.pc = "done", !.ok = ok] BY DEF SenderEnds
<1>3. s' \in SenderTypes BY <1>1, <1>2 DEF SenderTypes
<1>4. toRecv' \in Seq(Messages)
  <2>1. Append(toRecv, Char("CAN")) \in Seq(Messages) BY <1>1, CharTypes
  <2> QED BY <1>1, <2>1 DEF SenderEnds
<1> QED BY <1>3, <1>4

LEMMA SenderFields ==
  ASSUME NEW t \in SenderTypes
  PROVE  /\ t.pc \in {"mode", "ack", "eot", "done"} /\ t.num \in Nat \ {0} /\ t.at \in 0..Size
         /\ t.size \in 1..BlockSize /\ t.errors \in 0..MaxErrors
         /\ t.tries \in 0..(MaxErrors + AckTries) /\ t.crc \in BOOLEAN /\ t.ok \in BOOLEAN
BY DEF SenderTypes

LEMMA TryTypes ==
  ASSUME NEW t \in SenderTypes, t.tries < MaxErrors \/ t.tries + 1 < AckTries
  PROVE  [t EXCEPT !.tries = @ + 1] \in SenderTypes
<1> DEFINE n == t.tries + 1
<1>1. n \in 0..(MaxErrors + AckTries) BY SenderFields, Ranges
<1> HIDE DEF n
<1>2. [t EXCEPT !.tries = n] \in SenderTypes BY <1>1 DEF SenderTypes
<1>3. [t EXCEPT !.tries = t.tries + 1] \in SenderTypes BY <1>2 DEF n
<1> QED BY <1>3

LEMMA SenderTypesStep ==
  ASSUME TypeOK, Sender
  PROVE  TypeOK'
<1>1. /\ s \in SenderTypes /\ toRecv \in Seq(Messages) /\ toSend \in Seq(Answers)
      /\ r \in ReceiverTypes /\ line \in LineTypes
  BY Types
<1>2. UNCHANGED <<r, line>>
  BY DEF Sender, GetMode, NoMode, AckCame, NakCame, NoAck, Cancelled, EotAcked, EotAgain
<1>3. toSend' \in Seq(Answers)
  <2>1. ASSUME toSend # <<>>
        PROVE  Tail(toSend) \in Seq(Answers) /\ Suffixes(Tail(toSend)) \subseteq Seq(Answers)
    BY <1>1, <2>1, TailLeft, LeftOfTail
  <2>2. \A t : Rest(t) \subseteq {Tail(toSend)} \union Suffixes(Tail(toSend)) BY DEF Rest
  <2> QED BY <1>1, <2>1, <2>2
        DEF Sender, GetMode, NoMode, AckCame, NakCame, NoAck, Cancelled, EotAcked, EotAgain
<1>4. s' \in SenderTypes /\ toRecv' \in Seq(Messages)
  <2>1. CASE GetMode
    <3>1. [s EXCEPT !.crc = (Head(toSend) = "C")] \in SenderTypes BY <1>1 DEF SenderTypes
    <3> QED BY <2>1, <3>1, ProceedTypes DEF GetMode
  <2>2. CASE NoMode
    <3>1. CASE s.tries < MaxErrors
      <4>1. s' = [s EXCEPT !.tries = @ + 1] /\ toRecv' = toRecv BY <2>2, <3>1 DEF NoMode
      <4> QED BY <1>1, <3>1, <4>1, TryTypes
    <3>2. CASE ~(s.tries < MaxErrors) BY <2>2, <3>2, SenderEndsTypes DEF NoMode
    <3> QED BY <3>1, <3>2
  <2>3. CASE AckCame
    <3> DEFINE at == IF s.at + s.size > Size THEN Size ELSE s.at + s.size
               t == [s EXCEPT !.num = @ + 1,
                       !.at = IF @ + s.size > Size THEN Size ELSE @ + s.size]
               n == s.num + 1
               u == [s EXCEPT !.num = n, !.at = at]
    <3>1. at \in 0..Size /\ n \in Nat \ {0} BY <1>1, SenderFields, XmodemAssumption
    <3>2. u \in SenderTypes
      <4> HIDE DEF at, n
      <4> QED BY <1>1, <3>1 DEF SenderTypes
    <3>3. t \in SenderTypes BY <3>2
    <3>4. Proceed(t) BY <2>3 DEF AckCame
    <3> QED BY <3>3, <3>4, ProceedTypes
  <2>4. ASSUME SendAgain PROVE s' \in SenderTypes /\ toRecv' \in Seq(Messages)
    <3> DEFINE n == s.errors + 1
               size == IF n = FallbackAt /\ s.num = 1 THEN 1 ELSE s.size
               t == [s EXCEPT !.errors = n, !.size = size]
               u == [s EXCEPT !.errors = @ + 1,
                       !.size = IF s.errors + 1 = FallbackAt /\ s.num = 1 THEN 1 ELSE @]
    <3>1. u = t OBVIOUS
    <3>2. t.errors = n BY <1>1 DEF SenderTypes
    <3>3. CASE n > MaxErrors
      <4>1. SenderEnds(FALSE) BY <2>4, <3>1, <3>2, <3>3 DEF SendAgain
      <4> QED BY <4>1, SenderEndsTypes
    <3>4. CASE ~(n > MaxErrors)
      <4>1. Proceed(t) BY <2>4, <3>1, <3>2, <3>4 DEF SendAgain
      <4>2. size \in 1..BlockSize BY <1>1, SenderFields, Ranges
      <4>3. n \in 0..MaxErrors BY <1>1, <3>4, SenderFields, Ranges
      <4>4. t \in SenderTypes
        <5> HIDE DEF size, n
        <5> QED BY <1>1, <4>2, <4>3 DEF SenderTypes
      <4> QED BY <4>1, <4>4, ProceedTypes
    <3> QED BY <3>3, <3>4
  <2>5. CASE NakCame BY <2>4, <2>5 DEF NakCame
  <2>6. CASE NoAck
    <3>1. CASE s.tries + 1 < AckTries
      <4>1. s' = [s EXCEPT !.tries = @ + 1] /\ toRecv' = toRecv BY <2>6, <3>1 DEF NoAck
      <4> QED BY <1>1, <3>1, <4>1, TryTypes
    <3>2. CASE ~(s.tries + 1 < AckTries) BY <2>4, <2>6, <3>2 DEF NoAck
    <3> QED BY <3>1, <3>2
  <2>7. CASE Cancelled \/ EotAcked BY <2>7, SenderEndsTypes DEF Cancelled, EotAcked
  <2>8. CASE EotAgain
    <3>1. CASE s.tries < MaxErrors
      <4>1. s' = [s EXCEPT !.tries = @ + 1] /\ toRecv' = Append(toRecv, Char("EOT"))
        BY <2>8, <3>1 DEF EotAgain
      <4>2. Append(toRecv, Char("EOT")) \in Seq(Messages) BY <1>1, CharTypes
      <4> QED BY <1>1, <3>1, <4>1, <4>2, TryTypes
    <3>2. CASE ~(s.tries < MaxErrors) BY <2>8, <3>2, SenderEndsTypes DEF EotAgain
    <3> QED BY <3>1, <3>2
  <2> QED BY <2>1, <2>2, <2>3, <2>5, <2>6, <2>7, <2>8 DEF Sender
<1> QED BY <1>1, <1>2, <1>3, <1>4, TypesNext

LEMMA ReceiverFields ==
  ASSUME NEW t \in ReceiverTypes
  PROVE  /\ t.pc \in {"wait", "done"} /\ t.num \in Nat \ {0} /\ t.errors \in 0..MaxErrors
         /\ t.tries \in 0..MaxErrors /\ t.eot \in BOOLEAN /\ t.crc \in BOOLEAN
         /\ t.file \in Seq(0..Size) /\ t.ok \in BOOLEAN
BY DEF ReceiverTypes

LEMMA NakForTypes == \A t : NakFor(t) \in Answers
BY DEF NakFor, Answers

LEMMA ReceiverEndsTypes ==
  ASSUME TypeOK, NEW ok \in BOOLEAN, ReceiverEnds(ok)
  PROVE  r' \in ReceiverTypes
<1>1. r \in ReceiverTypes BY Types
<1> QED BY <1>1 DEF ReceiverEnds, ReceiverTypes

LEMMA ErrorTypes ==
  ASSUME TypeOK, NEW answers \in Seq(Answers), Error(answers)
  PROVE  r' \in ReceiverTypes /\ toSend' \in Seq(Answers)
<1>1. r \in ReceiverTypes /\ toSend \in Seq(Answers) BY Types
<1> DEFINE n == r.errors + 1
           crc == r.crc /\ ~(r.num = 1 /\ n > ChecksumAfter)
           t == [r EXCEPT !.errors = n, !.tries = 0, !.eot = FALSE, !.crc = crc]
           u == [r EXCEPT !.errors = @ + 1, !.tries = 0, !.eot = FALSE,
                   !.crc = @ /\ ~(r.num = 1 /\ r.errors + 1 > ChecksumAfter)]
<1>2. u = t OBVIOUS
<1>3. t.errors = n BY <1>1 DEF ReceiverTypes
<1>4. toSend \o answers \in Seq(Answers) BY <1>1, Joined
<1>5. ASSUME NEW c \in Answers PROVE Append(toSend \o answers, c) \in Seq(Answers)
  <2> DEFINE q == toSend \o answers
  <2>1. q \in Seq(Answers) BY <1>4
  <2> HIDE DEF q
  <2>2. Append(q, c) \in Seq(Answers) BY <2>1
  <2> QED BY <2>2 DEF q
<1>6. CASE n > MaxErrors
  <2>1. ReceiverEnds(FALSE) /\ toSend' = Append(toSend \o answers, "CAN")
    BY <1>2, <1>3, <1>6 DEF Error
  <2> QED BY <1>5, <2>1, CharTypes, ReceiverEndsTypes
<1>7. CASE ~(n > MaxErrors)
  <2>1. r' = t /\ toSend' = Append(toSend \o answers, NakFor(t)) BY <1>2, <1>3, <1>7 DEF Error
  <2>2. n \in 0..MaxErrors /\ crc \in BOOLEAN BY <1>1, <1>7, ReceiverFields, Ranges
  <2>3. t \in ReceiverTypes
    <3> HIDE DEF n, crc
    <3> QED BY <1>1, <2>2, Ranges DEF ReceiverTypes
  <2>4. toSend' \in Seq(Answers) BY <1>5, <2>1, NakForTypes
  <2> QED BY <2>1, <2>3, <2>4
<1> QED BY <1>6, <1>7

LEMMA GoOnTypes ==
  ASSUME TypeOK, NEW eot \in BOOLEAN, NEW answers \in Seq(Answers), GoOn(eot, answers)
  PROVE  r' \in ReceiverTypes /\ toSend' \in Seq(Answers)
<1>1. r \in ReceiverTypes /\ toSend \in Seq(Answers) BY Types
<1>2. CASE r.tries < MaxErrors
  <2> DEFINE n == r.tries + 1
  <2>1. r' = [r EXCEPT !.tries = n, !.eot = eot] /\ toSend' = toSend \o answers
    BY <1>2 DEF GoOn
  <2>2. n \in 0..MaxErrors BY <1>1, <1>2, ReceiverFields, Ranges
  <2>3. r' \in ReceiverTypes
    <3> HIDE DEF n
    <3> QED BY <1>1, <2>1, <2>2 DEF ReceiverTypes
  <2> QED BY <1>1, <2>1, <2>3, Joined
<1>3. CASE ~(r.tries < MaxErrors)
  <2>1. Error(answers) BY <1>3 DEF GoOn
  <2> QED BY <2>1, ErrorTypes
<1> QED BY <1>2, <1>3

LEMMA MessageKinds ==
  ASSUME NEW m \in Messages, m.kind = "block"
  PROVE  m \in Blocks
BY DEF Messages, Chars, Char, Blocks

LEMMA WantedTypes ==
  ASSUME NEW b \in Blocks, TypeOK
  PROVE  Wanted(b) \in Seq(0..Size)
<1>1. b.at \in 0..Size /\ b.len \in 1..BlockSize /\ b.len \in Nat
  BY XmodemAssumption DEF Blocks
<1>2. \A i \in 1..b.len : (IF b.at + i <= Size THEN b.at + i ELSE 0) \in 0..Size
  BY <1>1, XmodemAssumption
<1>3. Units(b) \in [1..b.len -> 0..Size] BY <1>2 DEF Units
<1>4. Units(b) \in Seq(0..Size) BY <1>1, <1>3, SeqDef
<1>5. Len(r.file) \in Nat
  <2>1. r.file \in Seq(0..Size) BY Types, ReceiverFields
  <2> QED BY <2>1
<1>6. CASE Announced /\ Len(r.file) + b.len > Size
  <2> DEFINE n == Size - Len(r.file)
             q == Units(b)
  <2>1. Wanted(b) = SubSeq(q, 1, n) BY <1>6 DEF Wanted
  <2>2. n \in Int /\ \A i \in 1..n : i \in 1..b.len BY <1>1, <1>5, <1>6, XmodemAssumption
  <2>3. \A i \in 1..n : q[i] \in 0..Size
    <3> HIDE DEF n
    <3> QED BY <1>3, <2>2
  <2> HIDE DEF n, q
  <2>4. SubSeq(q, 1, n) \in Seq(0..Size) BY <2>2, <2>3, SubSeqProperties
  <2> QED BY <2>1, <2>4
<1> QED BY <1>4, <1>6 DEF Wanted

LEMMA ReceiverTypesStep ==
  ASSUME TypeOK, Receiver
  PROVE  TypeOK'
<1>1. /\ s \in SenderTypes /\ toRecv \in Seq(Messages) /\ toSend \in Seq(Answers)
      /\ r \in ReceiverTypes /\ line \in LineTypes
  BY Types
<1>2. UNCHANGED <<s, line>>
  BY DEF Receiver, Receive, DiscardRepeated, Reject, FirstEot, SecondEot, NoBlock,
         CancelledBySender
<1>3. toRecv' \in Seq(Messages)
  <2>1. ASSUME toRecv # <<>>
        PROVE  Tail(toRecv) \in Seq(Messages) /\ Suffixes(Tail(toRecv)) \subseteq Seq(Messages)
    BY <1>1, <2>1, TailLeft, LeftOfTail
  <2> QED BY <1>1, <2>1
        DEF Receiver, Receive, DiscardRepeated, Reject, FirstEot, SecondEot, NoBlock,
            CancelledBySender, Arrived, Expected, Repeated, Good
<1>4. <<>> \in Seq(Answers) /\ <<NakFor(r)>> \in Seq(Answers)
      /\ Append(toSend, "ACK") \in Seq(Answers)
  BY <1>1, NakForTypes, CharTypes
<1>5. r' \in ReceiverTypes /\ toSend' \in Seq(Answers)
  <2>1. CASE Receive
    <3>1. toSend' \in Seq(Answers) BY <1>4, <2>1 DEF Receive
    <3>2. CASE Announced /\ Len(r.file) >= Size
      <4>1. r' = [r EXCEPT !.pc = "done"] BY <2>1, <3>2 DEF Receive
      <4> QED BY <1>1, <3>1, <4>1 DEF ReceiverTypes
    <3>3. CASE ~(Announced /\ Len(r.file) >= Size)
      <4> DEFINE file == r.file \o Wanted(Head(toRecv))
                 n == r.num + 1
      <4>1. r' = [r EXCEPT !.file = file, !.num = n, !.tries = 0, !.eot = FALSE]
        BY <2>1, <3>3 DEF Receive
      <4>2. Head(toRecv) \in Messages /\ Head(toRecv).kind = "block"
        BY <1>1, <2>1 DEF Receive, Expected, Good, Arrived
      <4>3. file \in Seq(0..Size)
        <5>1. r.file \in Seq(0..Size) BY <1>1, ReceiverFields
        <5>2. Wanted(Head(toRecv)) \in Seq(0..Size) BY <4>2, MessageKinds, WantedTypes
        <5> QED BY <5>1, <5>2, Joined
      <4>4. n \in Nat \ {0} BY <1>1, ReceiverFields
      <4>5. r' \in ReceiverTypes
        <5> HIDE DEF file, n
        <5> QED BY <1>1, <4>1, <4>3, <4>4, Ranges DEF ReceiverTypes
      <4> QED BY <3>1, <4>5
    <3> QED BY <3>2, <3>3
  <2>2. CASE DiscardRepeated BY <1>4, <2>2, GoOnTypes DEF DiscardRepeated
  <2>3. CASE Reject BY <1>4, <2>3, ErrorTypes DEF Reject
  <2>4. CASE FirstEot BY <1>4, <2>4, GoOnTypes DEF FirstEot
  <2>5. CASE SecondEot BY <1>4, <2>5, ReceiverEndsTypes DEF SecondEot
  <2>6. CASE NoBlock BY <1>4, <2>6, ErrorTypes DEF NoBlock
  <2>7. CASE CancelledBySender BY <1>1, <2>7, ReceiverEndsTypes DEF CancelledBySender
  <2> QED BY <2>1, <2>2, <2>3, <2>4, <2>5, <2>6, <2>7 DEF Receiver
<1> QED BY <1>1, <1>2, <1>3, <1>5, TypesNext

LEMMA NoiseTypes ==
  ASSUME TypeOK, NoiseToRecv \/ NoiseToSend
  PROVE  TypeOK'
<1>1. /\ s \in SenderTypes /\ toRecv \in Seq(Messages) /\ toSend \in Seq(Answers)
      /\ r \in ReceiverTypes /\ line \in LineTypes
  BY Types
<1>2. line' \in LineTypes
  <2> DEFINE n == line.noise + 1
  <2>1. line.noise < MaxNoise
        /\ (line' = [line EXCEPT !.noise = n] \/ line' = [line EXCEPT !.noise = n, !.answers = TRUE])
    BY DEF NoiseToRecv, NoiseToSend
  <2>2. line.noise \in 0..MaxNoise BY <1>1 DEF LineTypes
  <2>3. n \in 0..MaxNoise BY <2>1, <2>2, Ranges
  <2> HIDE DEF n
  <2> QED BY <1>1, <2>1, <2>3 DEF LineTypes
<1>3. CASE NoiseToRecv
  <2>1. toRecv' \in Seq(Messages)
    BY <1>1, <1>3, RemovedLeft, DamagedLeft, CharTypes DEF NoiseToRecv
  <2> QED BY <1>1, <1>2, <1>3, <2>1, TypesNext DEF NoiseToRecv
<1>4. CASE NoiseToSend
  <2>1. toSend' \in Seq(Answers)
    BY <1>1, <1>4, RemovedLeft, DamagedLeft, CharTypes DEF NoiseToSend
  <2> QED BY <1>1, <1>2, <1>4, <2>1, TypesNext DEF NoiseToSend
<1> QED BY <1>3, <1>4

\* The two ends and what is on the line stay well formed, whatever the line does
\* (xmodem.c): in particular no counter of errors or tries goes past its limit.
THEOREM TypeCorrect == Spec => []TypeOK
<1>1. Init => TypeOK BY TypeInit
<1>2. TypeOK /\ [Next]_vars => TypeOK'
  <2>1. ASSUME TypeOK, UNCHANGED vars PROVE TypeOK' BY <2>1, Types, TypesNext DEF vars
  <2> QED BY <2>1, SenderTypesStep, ReceiverTypesStep, NoiseTypes DEF Next
<1> QED BY <1>1, <1>2, PTL DEF Spec

---------------------------------------------------------------------------
(* What keeps the two ends in step *)

NoFallback == FallbackAt > MaxErrors \/ BlockSize = 1

End(t) == IF t.at + t.size > Size THEN Size ELSE t.at + t.size

\* The sender has a block to send, which does not go past the end of the file
\* unless the receiver can tell.
HasBlock(t) == t.at < Size /\ (Announced \/ t.at + t.size <= Size)

\* The receiver v has what comes before the block of the sender t, or that too.
Behind(t, v) == v.num = t.num /\ Len(v.file) = t.at
Ahead(t, v) == v.num = t.num + 1 /\ HasBlock(t) /\ Len(v.file) = End(t)

Sending(t) == t.pc \in {"ack", "done"} /\ HasBlock(t)
AtEnd(t, v) == t.pc \in {"eot", "done"} /\ t.at = Size /\ Behind(t, v)

\* What may be on the line: the sender's block, or repeats of the one before it.
Current(m, t) == Sending(t) /\ m.num = t.num /\ m.at = t.at /\ m.len = t.size
Previous(m, t, v) == m.num = t.num - 1 /\ Behind(t, v)

Fine(m, t, v) ==
  /\ m.kind = "EOT" => AtEnd(t, v)
  /\ m.kind = "block" => Current(m, t) \/ Previous(m, t, v)

InOrder(q) ==
  \A i, j \in 1..Len(q) :
    i < j /\ q[i].kind = "block" /\ q[j].kind = "block" => q[i].num <= q[j].num

Sound(q, t, v) == (\A i \in 1..Len(q) : Fine(q[i], t, v)) /\ InOrder(q)

\* An ACK is for the block the receiver has just got, or for all of them.
Answered(t, v) == (Sending(t) /\ Ahead(t, v)) \/ v.ok

AckedOnce(q) == \A i, j \in 1..Len(q) : i < j => ~(q[i] = "ACK" /\ q[j] = "ACK")

Honest(q, t, v) ==
  /\ \A i \in 1..Len(q) : q[i] = "ACK" => Answered(t, v)
  /\ t.pc = "ack" => AckedOnce(q)

InStep(t, v) ==
  /\ Behind(t, v) \/ (Sending(t) /\ Ahead(t, v))
  /\ t.pc = "mode" => Behind(t, v)
  /\ t.pc = "ack" => HasBlock(t)
  /\ t.pc = "eot" => AtEnd(t, v)

Ended(t, v) ==
  /\ v.eot \/ v.ok => AtEnd(t, v)
  /\ v.ok => v.pc = "done"
  /\ t.ok => t.pc = "done" /\ v.ok

Part(t, v, q, a) == InStep(t, v) /\ Ended(t, v) /\ Sound(q, t, v) /\ Honest(a, t, v)

TransferInv == TypeOK /\ Intact /\ Part(s, r, toRecv, toSend)

LEMMA CharKinds == \A c : Char(c).kind = c
BY DEF Char

LEMMA MessageNum == \A m \in Messages : m.num \in Nat
BY DEF Messages, Blocks, Chars, Char

LEMMA SeqElements ==
  ASSUME NEW H, NEW q \in Seq(H)
  PROVE  Len(q) \in Nat /\ \A i \in 1..Len(q) : q[i] \in H
OBVIOUS

\* Losses and damage do not disturb the invariant.
LEMMA LossKeepsSound ==
  ASSUME NEW t, NEW v, NEW q \in Seq(Messages), NEW x \in Seq(Messages),
         LeftOf(x, q, Char("junk")), Sound(q, t, v)
  PROVE  Sound(x, t, v)
<1>1. PICK f \in [1..Len(x) -> 1..Len(q)] :
        /\ \A i, j \in 1..Len(x) : i < j => f[i] < f[j]
        /\ \A i \in 1..Len(x) : x[i] = q[f[i]] \/ x[i] = Char("junk")
  BY DEF LeftOf
<1>2. \A i \in 1..Len(x) : Fine(x[i], t, v)
  BY <1>1, CharKinds DEF Sound, Fine
<1>3. InOrder(x)
  <2> SUFFICES ASSUME NEW i \in 1..Len(x), NEW j \in 1..Len(x), i < j,
                      x[i].kind = "block", x[j].kind = "block"
               PROVE  x[i].num <= x[j].num
    BY DEF InOrder
  <2>1. x[i] = q[f[i]] /\ x[j] = q[f[j]] /\ f[i] < f[j] /\ f[i] \in 1..Len(q) /\ f[j] \in 1..Len(q)
    BY <1>1, CharKinds
  <2> QED BY <2>1 DEF Sound, InOrder
<1> QED BY <1>2, <1>3 DEF Sound

LEMMA LossKeepsHonest ==
  ASSUME NEW t, NEW v, NEW a \in Seq(Answers), NEW x \in Seq(Answers),
         LeftOf(x, a, "junk"), Honest(a, t, v)
  PROVE  Honest(x, t, v)
<1>1. PICK f \in [1..Len(x) -> 1..Len(a)] :
        /\ \A i, j \in 1..Len(x) : i < j => f[i] < f[j]
        /\ \A i \in 1..Len(x) : x[i] = a[f[i]] \/ x[i] = "junk"
  BY DEF LeftOf
<1>2. \A i \in 1..Len(x) : x[i] = "ACK" => Answered(t, v)
  BY <1>1 DEF Honest
<1>3. ASSUME t.pc = "ack" PROVE AckedOnce(x)
  <2> SUFFICES ASSUME NEW i \in 1..Len(x), NEW j \in 1..Len(x), i < j,
                      x[i] = "ACK", x[j] = "ACK"
               PROVE  FALSE
    BY DEF AckedOnce
  <2>1. a[f[i]] = "ACK" /\ a[f[j]] = "ACK" /\ f[i] < f[j] /\ f[i] \in 1..Len(a) /\ f[j] \in 1..Len(a)
    BY <1>1
  <2> QED BY <1>3, <2>1 DEF Honest, AckedOnce
<1> QED BY <1>2, <1>3 DEF Honest

LEMMA SendKeeps ==
  ASSUME NEW t \in SenderTypes, NEW v, NEW q \in Seq(Messages), NEW m \in Messages,
         Sound(q, t, v), Fine(m, t, v), m.kind = "block" => m.num = t.num
  PROVE  Sound(Append(q, m), t, v)
<1> DEFINE x == Append(q, m)
<1>1. /\ Len(q) \in Nat /\ Len(x) = Len(q) + 1 /\ x[Len(q) + 1] = m
      /\ \A i \in 1..Len(q) : x[i] = q[i] /\ q[i] \in Messages
  BY SeqElements, AppendProperties
<1> HIDE DEF x
<1>2. \A i \in 1..Len(x) : Fine(x[i], t, v) BY <1>1 DEF Sound
<1>3. \A i \in 1..Len(q) : q[i].kind = "block" => q[i].num <= t.num
  <2>1. t.num \in Nat BY SenderFields
  <2> QED BY <1>1, <2>1, MessageNum DEF Sound, Fine, Current, Previous
<1>4. InOrder(x)
  <2> SUFFICES ASSUME NEW i \in 1..Len(x), NEW j \in 1..Len(x), i < j,
                      x[i].kind = "block", x[j].kind = "block"
               PROVE  x[i].num <= x[j].num
    BY DEF InOrder
  <2>1. CASE j = Len(q) + 1 BY <1>1, <1>3, <2>1
  <2>2. CASE j # Len(q) + 1
    <3>1. i \in 1..Len(q) /\ j \in 1..Len(q) BY <1>1, <2>2
    <3> QED BY <1>1, <3>1 DEF Sound, InOrder
  <2> QED BY <2>1, <2>2
<1>5. Sound(x, t, v) BY <1>2, <1>4 DEF Sound
<1> QED BY <1>5 DEF x

\* An answer that is no ACK, or the only one while the sender waits for it.
LEMMA AnswerKeeps ==
  ASSUME NEW t, NEW v, NEW a \in Seq(Answers), NEW c \in Answers, Honest(a, t, v),
         c = "ACK" => /\ Answered(t, v)
                      /\ t.pc = "ack" => \A i \in 1..Len(a) : a[i] # "ACK"
  PROVE  Honest(Append(a, c), t, v)
<1> DEFINE x == Append(a, c)
<1>1. /\ Len(a) \in Nat /\ Len(x) = Len(a) + 1 /\ x[Len(a) + 1] = c
      /\ \A i \in 1..Len(a) : x[i] = a[i]
  BY SeqElements, AppendProperties
<1> HIDE DEF x
<1>2. \A i \in 1..Len(x) : x[i] = "ACK" => Answered(t, v) BY <1>1 DEF Honest
<1>3. ASSUME t.pc = "ack" PROVE AckedOnce(x)
  <2> SUFFICES ASSUME NEW i \in 1..Len(x), NEW j \in 1..Len(x), i < j,
                      x[i] = "ACK", x[j] = "ACK"
               PROVE  FALSE
    BY DEF AckedOnce
  <2>1. i \in 1..Len(a) /\ a[i] = "ACK" BY <1>1
  <2>2. CASE j = Len(a) + 1 BY <1>1, <1>3, <2>1, <2>2
  <2>3. CASE j # Len(a) + 1
    <3>1. j \in 1..Len(a) /\ a[j] = "ACK" BY <1>1, <2>3
    <3> QED BY <1>3, <2>1, <3>1 DEF Honest, AckedOnce
  <2> QED BY <2>2, <2>3
<1>4. Honest(x, t, v) BY <1>2, <1>3 DEF Honest
<1> QED BY <1>4 DEF x

\* A sender that stays with its block, or ends.
LEMMA SameBlock ==
  ASSUME NEW t \in SenderTypes, NEW u \in SenderTypes, NEW v \in ReceiverTypes,
         u.num = t.num, u.at = t.at, u.size = t.size, u.pc = t.pc \/ u.pc = "done",
         u.ok => u.pc = "done" /\ v.ok, NEW q, NEW a, Part(t, v, q, a)
  PROVE  Part(u, v, q, a)
<1>1. /\ HasBlock(t) <=> HasBlock(u)
      /\ Behind(t, v) <=> Behind(u, v)
      /\ Ahead(t, v) <=> Ahead(u, v)
  BY DEF HasBlock, Behind, Ahead, End
<1>2. Sending(t) => Sending(u) BY <1>1 DEF Sending
<1>3. AtEnd(t, v) => AtEnd(u, v) BY <1>1 DEF AtEnd
<1>4. InStep(u, v) BY <1>1, <1>2, <1>3 DEF Part, InStep
<1>5. Ended(u, v) BY <1>3 DEF Part, Ended
<1>6. \A m : Fine(m, t, v) => Fine(m, u, v) BY <1>1, <1>2, <1>3 DEF Fine, Current, Previous
<1>7. Sound(q, u, v) BY <1>6 DEF Part, Sound
<1>8. Honest(a, u, v) BY <1>1, <1>2 DEF Part, Honest, Answered
<1> QED BY <1>4, <1>5, <1>7, <1>8 DEF Part

\* A receiver that gets no further, or ends.
LEMMA SameFile ==
  ASSUME NEW t \in SenderTypes, NEW v \in ReceiverTypes, NEW w \in ReceiverTypes,
         w.num = v.num, w.file = v.file, v.ok => w.ok,
         w.eot \/ w.ok => AtEnd(t, v), w.ok => w.pc = "done",
         NEW q, NEW a, Part(t, v, q, a)
  PROVE  Part(t, w, q, a)
<1>1. (Behind(t, v) <=> Behind(t, w)) /\ (Ahead(t, v) <=> Ahead(t, w))
  BY DEF Behind, Ahead
<1>2. AtEnd(t, v) <=> AtEnd(t, w) BY <1>1 DEF AtEnd
<1>3. InStep(t, w) BY <1>1, <1>2 DEF Part, InStep
<1>4. Ended(t, w) BY <1>2 DEF Part, Ended
<1>5. \A m : Fine(m, t, v) => Fine(m, t, w) BY <1>1, <1>2 DEF Fine, Previous
<1>6. Sound(q, t, w) BY <1>5 DEF Part, Sound
<1>7. Honest(a, t, w) BY <1>1 DEF Part, Honest, Answered
<1> QED BY <1>3, <1>4, <1>6, <1>7 DEF Part

LEMMA Proceeds ==
  ASSUME NEW t \in SenderTypes, Proceed(t)
  PROVE  /\ s'.num = t.num /\ s'.at = t.at /\ s'.ok = t.ok
         /\ \/ /\ t.at < Size /\ s'.pc = "ack" /\ HasBlock(s') /\ s'.size = SizeAt(t.at, t.size)
               /\ \E m \in Messages :
                    m.kind = "block" /\ Current(m, s') /\ toRecv' = Append(toRecv, m)
            \/ t.at = Size /\ s'.pc = "eot" /\ s'.size = t.size
               /\ toRecv' = Append(toRecv, Char("EOT"))
<1> DEFINE n == SizeAt(t.at, t.size)
           b == [t EXCEPT !.pc = "ack", !.size = n, !.tries = 0]
           e == [t EXCEPT !.pc = "eot", !.tries = 0]
<1>1. CASE t.at < Size
  <2>1. s' = b /\ toRecv' = Append(toRecv, BlockOf(b)) BY <1>1 DEF Proceed
  <2>2. n \in 1..BlockSize /\ (Announced \/ t.at + n <= Size)
    BY <1>1, SenderFields, Ranges, XmodemAssumption DEF SizeAt
  <2>3. /\ b.num = t.num /\ b.at = t.at /\ b.ok = t.ok /\ b.pc = "ack" /\ b.size = n
        /\ b.crc = t.crc
    <3> HIDE DEF n
    <3> QED BY DEF SenderTypes
  <2> HIDE DEF b
  <2>4. HasBlock(b) BY <1>1, <2>2, <2>3 DEF HasBlock
  <2> DEFINE m == BlockOf(b)
  <2>5. /\ m.kind = "block" /\ m.num = b.num /\ m.at = b.at /\ m.len = b.size /\ m \in Messages
    <3>1. b.num \in Nat /\ b.at \in 0..Size /\ b.size \in 1..BlockSize /\ b.crc \in BOOLEAN
      BY <2>2, <2>3, SenderFields
    <3> QED BY <3>1 DEF BlockOf, Blocks, Messages
  <2>6. Current(m, b)
    <3> HIDE DEF m
    <3> QED BY <2>3, <2>4, <2>5 DEF Current, Sending
  <2> HIDE DEF m
  <2>7. toRecv' = Append(toRecv, m) BY <2>1 DEF m
  <2> QED BY <1>1, <2>1, <2>3, <2>4, <2>5, <2>6, <2>7
<1>2. CASE ~(t.at < Size)
  <2>1. s' = e /\ toRecv' = Append(toRecv, Char("EOT")) BY <1>2 DEF Proceed
  <2>2. e.num = t.num /\ e.at = t.at /\ e.ok = t.ok /\ e.pc = "eot" /\ e.size = t.size
    BY DEF SenderTypes
  <2>3. t.at = Size BY <1>2, SenderFields, XmodemAssumption
  <2> HIDE DEF e
  <2> QED BY <2>1, <2>2, <2>3
<1> QED BY <1>1, <1>2

\* The first block, or the one after an ACK: nothing but repeats is on the line.
LEMMA NewBlock ==
  ASSUME TypeOK, s' \in SenderTypes, NEW t \in SenderTypes, Proceed(t),
         Behind(t, r), ~t.ok, ~r.eot, ~r.ok,
         \A i \in 1..Len(toRecv) :
           toRecv[i].kind # "EOT" /\ (toRecv[i].kind = "block" => toRecv[i].num = t.num - 1),
         NEW a, \A i \in 1..Len(a) : a[i] # "ACK"
  PROVE  Part(s', r, toRecv', a)
<1>1. s'.num = t.num /\ s'.at = t.at /\ s'.ok = t.ok BY Proceeds
<1>2. Behind(s', r) BY <1>1 DEF Behind
<1>3. Honest(a, s', r) BY DEF Honest, AckedOnce
<1>4. Ended(s', r) BY <1>1 DEF Ended
<1>5. InStep(s', r) BY <1>2, Proceeds DEF InStep, AtEnd
<1>6. toRecv \in Seq(Messages) BY Types
<1>7. Sound(toRecv, s', r)
  <2>1. \A i \in 1..Len(toRecv) : Fine(toRecv[i], s', r)
    BY <1>1, <1>2 DEF Fine, Previous
  <2>2. InOrder(toRecv)
    <3>1. t.num - 1 \in Int BY SenderFields
    <3> QED BY <3>1 DEF InOrder
  <2> QED BY <2>1, <2>2 DEF Sound
<1>8. Sound(toRecv', s', r)
  <2>1. ASSUME NEW m \in Messages, m.kind = "block", Current(m, s'), toRecv' = Append(toRecv, m)
        PROVE  Sound(toRecv', s', r)
    <3>1. Fine(m, s', r) /\ m.num = s'.num BY <2>1 DEF Fine, Current
    <3> QED BY <1>6, <1>7, <2>1, <3>1, SendKeeps
  <2>2. ASSUME t.at = Size, s'.pc = "eot", toRecv' = Append(toRecv, Char("EOT"))
        PROVE  Sound(toRecv', s', r)
    <3>1. Fine(Char("EOT"), s', r) BY <1>1, <1>2, <2>2, CharKinds DEF Fine, AtEnd
    <3> QED BY <1>6, <1>7, <2>2, <3>1, CharKinds, CharTypes, SendKeeps
  <2> QED BY <2>1, <2>2, Proceeds
<1> QED BY <1>3, <1>4, <1>5, <1>8 DEF Part

LEMMA EndKeeps ==
  ASSUME TransferInv, s' \in SenderTypes, NEW ok \in BOOLEAN, SenderEnds(ok), ok => r.ok
  PROVE  Part(s', r, toRecv', toSend)
<1>1. s \in SenderTypes /\ r \in ReceiverTypes /\ toRecv \in Seq(Messages)
  BY Types DEF TransferInv
<1>2. s' = [s EXCEPT !.pc = "done", !.ok = ok] BY DEF SenderEnds
<1>3. s'.num = s.num /\ s'.at = s.at /\ s'.size = s.size /\ s'.pc = "done" /\ s'.ok = ok
  BY <1>1, <1>2 DEF SenderTypes
<1>4. Part(s', r, toRecv, toSend) BY <1>1, <1>3, SameBlock DEF TransferInv
<1>5. Sound(Append(toRecv, Char("CAN")), s', r)
  BY <1>1, <1>4, CharKinds, CharTypes, SendKeeps DEF Part, Fine
<1> QED BY <1>4, <1>5 DEF SenderEnds, Part

\* Only the block that is on its way is sent again.
LEMMA SendAgainKeeps ==
  ASSUME TransferInv, NoFallback, s' \in SenderTypes, s.pc = "ack", SendAgain
  PROVE  Part(s', r, toRecv', toSend)
<1>1. s \in SenderTypes /\ r \in ReceiverTypes /\ toRecv \in Seq(Messages)
  BY Types DEF TransferInv
<1> DEFINE n == s.errors + 1
           size == IF n = FallbackAt /\ s.num = 1 THEN 1 ELSE s.size
           t == [s EXCEPT !.errors = n, !.size = size]
           u == [s EXCEPT !.errors = @ + 1,
                   !.size = IF s.errors + 1 = FallbackAt /\ s.num = 1 THEN 1 ELSE @]
<1>2. u = t OBVIOUS
<1>3. t.errors = n BY <1>1 DEF SenderTypes
<1>4. CASE n > MaxErrors
  <2>1. SenderEnds(FALSE) BY <1>2, <1>3, <1>4 DEF SendAgain
  <2> QED BY <2>1, EndKeeps
<1>5. CASE ~(n > MaxErrors)
  <2>1. Proceed(t) BY <1>2, <1>3, <1>5 DEF SendAgain
  <2>2. size = s.size
    <3>1. s.size \in 1..BlockSize /\ n \in Nat BY <1>1, SenderFields
    <3>2. BlockSize = 1 => s.size = 1 BY <3>1
    <3> QED BY <1>5, <3>1, <3>2, XmodemAssumption DEF NoFallback
  <2>3. /\ t \in SenderTypes /\ t.num = s.num /\ t.at = s.at /\ t.size = s.size
        /\ t.pc = s.pc /\ t.ok = s.ok
    <3>1. n \in 0..MaxErrors BY <1>1, <1>5, SenderFields, Ranges
    <3>2. t = [s EXCEPT !.errors = n, !.size = s.size] BY <2>2
    <3> HIDE DEF n, t
    <3> QED BY <1>1, <3>1, <3>2 DEF SenderTypes
  <2> HIDE DEF t
  <2>4. HasBlock(s) BY DEF TransferInv, Part, InStep
  <2>5. PICK m \in Messages : m.kind = "block" /\ Current(m, s') /\ toRecv' = Append(toRecv, m)
    BY <2>1, <2>3, <2>4, Proceeds, XmodemAssumption DEF HasBlock
  <2>6. s'.pc = "ack" /\ s'.size = SizeAt(t.at, t.size) /\ s'.num = s.num /\ s'.at = s.at /\ s'.ok = s.ok
    BY <2>1, <2>3, <2>4, Proceeds, XmodemAssumption DEF HasBlock
  <2>7. s'.size = s.size
    <3>1. s.size \in 1..BlockSize /\ s.at \in 0..Size BY <1>1, SenderFields
    <3>2. BlockSize \in Nat /\ Size \in Nat BY XmodemAssumption
    <3> QED BY <2>3, <2>4, <2>6, <3>1, <3>2 DEF SizeAt, HasBlock
  <2>8. ~s.ok BY DEF TransferInv, Part, Ended
  <2>9. Part(s', r, toRecv, toSend) BY <1>1, <2>6, <2>7, <2>8, SameBlock DEF TransferInv
  <2>10. Sound(toRecv', s', r)
    <3>1. Fine(m, s', r) /\ m.num = s'.num BY <2>5 DEF Fine, Current
    <3> QED BY <1>1, <2>5, <2>9, <3>1, SendKeeps DEF Part
  <2> QED BY <2>9, <2>10 DEF Part
<1> QED BY <1>4, <1>5

LEMMA SenderKeeps ==
  ASSUME TransferInv, NoFallback, Sender
  PROVE  TransferInv'
<1>1. /\ s \in SenderTypes /\ r \in ReceiverTypes
      /\ toRecv \in Seq(Messages) /\ toSend \in Seq(Answers)
  BY Types DEF TransferInv
<1>2. TypeOK' BY SenderTypesStep DEF TransferInv
<1>3. s' \in SenderTypes /\ toSend' \in Seq(Answers) BY <1>2, TypesNext
<1>4. r' = r
  BY DEF Sender, GetMode, NoMode, AckCame, NakCame, NoAck, Cancelled, EotAcked, EotAgain
<1>5. Intact' BY <1>4 DEF TransferInv, Intact
<1>6. Part(s, r, toRecv, toSend) BY DEF TransferInv
<1>7. ASSUME toSend # <<>>
      PROVE  /\ Tail(toSend) \in Seq(Answers) /\ LeftOf(Tail(toSend), toSend, "junk")
             /\ Len(Tail(toSend)) = Len(toSend) - 1
             /\ \A i \in 1..Len(Tail(toSend)) : Tail(toSend)[i] = toSend[i + 1]
             /\ Len(toSend) \in Nat \ {0} /\ toSend[1] = Head(toSend)
             /\ \A x \in Suffixes(Tail(toSend)) : x \in Seq(Answers)
                  /\ LeftOf(x, toSend, "junk") /\ LeftOf(x, Tail(toSend), "junk")
  <2>1. /\ Tail(toSend) \in Seq(Answers) /\ LeftOf(Tail(toSend), toSend, "junk")
        /\ Len(Tail(toSend)) = Len(toSend) - 1
        /\ \A i \in 1..Len(Tail(toSend)) : Tail(toSend)[i] = toSend[i + 1]
    BY <1>1, <1>7, TailLeft
  <2>2. Len(toSend) \in Nat \ {0} /\ toSend[1] = Head(toSend) BY <1>1, <1>7
  <2> QED BY <1>1, <1>7, <2>1, <2>2, LeftOfTail, SuffixLeft
<1>8. ASSUME LeftOf(toSend', toSend, "junk"), Part(s', r, toRecv', toSend)
      PROVE  Part(s', r', toRecv', toSend')
  BY <1>1, <1>3, <1>4, <1>8, LossKeepsHonest DEF Part
<1>9. Part(s', r', toRecv', toSend')
  <2>1. CASE GetMode
    <3> DEFINE t == [s EXCEPT !.crc = (Head(toSend) = "C")]
    <3>1. s.pc = "mode" /\ toSend # <<>> /\ Proceed(t) /\ toSend' \in Rest(s) BY <2>1 DEF GetMode
    <3>2. t \in SenderTypes /\ t.num = s.num /\ t.at = s.at /\ t.ok = s.ok BY <1>1 DEF SenderTypes
    <3> HIDE DEF t
    <3>3. Behind(t, r) /\ ~t.ok /\ ~r.eot /\ ~r.ok
      BY <1>6, <3>1, <3>2 DEF Part, InStep, Behind, Ended, AtEnd
    <3>4. \A i \in 1..Len(toRecv) :
            toRecv[i].kind # "EOT" /\ (toRecv[i].kind = "block" => toRecv[i].num = t.num - 1)
      BY <1>6, <3>1, <3>2 DEF Part, Sound, Fine, AtEnd, Current, Sending, Previous
    <3>5. \A i \in 1..Len(toSend) : toSend[i] # "ACK"
      BY <1>6, <3>1, <3>3 DEF Part, Honest, Answered, Sending
    <3>6. LeftOf(toSend', toSend, "junk") BY <1>7, <3>1 DEF Rest
    <3>7. \A i \in 1..Len(toSend') : toSend'[i] # "ACK" BY <3>5, <3>6 DEF LeftOf
    <3> QED BY <1>3, <1>4, <3>1, <3>2, <3>3, <3>4, <3>7, NewBlock DEF TransferInv
  <2>2. CASE NoMode
    <3>1. LeftOf(toSend', toSend, "junk") \/ toSend' = toSend BY <1>7, <2>2 DEF NoMode
    <3>2. CASE s.tries < MaxErrors
      <4>1. s' = [s EXCEPT !.tries = s.tries + 1] /\ toRecv' = toRecv BY <2>2, <3>2 DEF NoMode
      <4>2. s'.num = s.num /\ s'.at = s.at /\ s'.size = s.size /\ s'.pc = s.pc /\ s'.ok = s.ok
        BY <1>1, <4>1 DEF SenderTypes
      <4>3. s'.ok => s'.pc = "done" /\ r.ok BY <1>6, <4>2 DEF Part, Ended
      <4>4. Part(s', r, toRecv', toSend) BY <1>1, <1>3, <1>6, <4>1, <4>2, <4>3, SameBlock
      <4> QED BY <1>4, <1>8, <3>1, <4>4
    <3>3. CASE ~(s.tries < MaxErrors)
      <4>1. Part(s', r, toRecv', toSend) BY <1>3, <2>2, <3>3, EndKeeps DEF NoMode
      <4> QED BY <1>4, <1>8, <3>1, <4>1
    <3> QED BY <3>2, <3>3
  <2>3. CASE AckCame
    <3> DEFINE at == IF s.at + s.size > Size THEN Size ELSE s.at + s.size
               n == s.num + 1
               t == [s EXCEPT !.num = n, !.at = at]
               u == [s EXCEPT !.num = @ + 1,
                       !.at = IF @ + s.size > Size THEN Size ELSE @ + s.size]
    <3>1. /\ s.pc = "ack" /\ toSend # <<>> /\ Head(toSend) = "ACK"
          /\ Proceed(u) /\ toSend' \in Rest(u)
      BY <2>3 DEF AckCame
    <3>2. u = t OBVIOUS
    <3>3. at \in 0..Size /\ n \in Nat \ {0} BY <1>1, SenderFields, XmodemAssumption
    <3>4. t \in SenderTypes /\ t.num = n /\ t.at = at /\ t.ok = s.ok
      <4> HIDE DEF at, n
      <4> QED BY <1>1, <3>3 DEF SenderTypes
    <3>5. Proceed(t) /\ toSend' \in Rest(t) BY <3>1, <3>2
    <3> HIDE DEF t, u
    <3>6. ~r.eot /\ ~r.ok /\ ~s.ok BY <1>6, <3>1 DEF Part, Ended, AtEnd
    <3>7. Sending(s) /\ Ahead(s, r)
      BY <1>6, <1>7, <3>1, <3>6 DEF Part, Honest, Answered
    <3>8. Behind(t, r) BY <3>4, <3>7 DEF Behind, Ahead, End
    <3>9. ~Behind(s, r)
      <4>1. s.num \in Nat BY <1>1, SenderFields
      <4> QED BY <3>7, <4>1 DEF Behind, Ahead
    <3>10. \A i \in 1..Len(toRecv) :
             toRecv[i].kind # "EOT" /\ (toRecv[i].kind = "block" => toRecv[i].num = t.num - 1)
      <4>1. s.num = t.num - 1 BY <1>1, <3>4, SenderFields
      <4> QED BY <1>6, <3>1, <3>9, <4>1 DEF Part, Sound, Fine, AtEnd, Current, Previous
    <3>11. \A i \in 1..Len(Tail(toSend)) : Tail(toSend)[i] # "ACK"
      <4> SUFFICES ASSUME NEW i \in 1..Len(Tail(toSend)), Tail(toSend)[i] = "ACK" PROVE FALSE
        OBVIOUS
      <4>1. /\ 1 \in 1..Len(toSend) /\ i + 1 \in 1..Len(toSend) /\ 1 < i + 1
            /\ toSend[1] = "ACK" /\ toSend[i + 1] = "ACK"
        BY <1>7, <3>1
      <4> QED BY <1>6, <3>1, <4>1 DEF Part, Honest, AckedOnce
    <3>12. \A i \in 1..Len(toSend') : toSend'[i] # "ACK"
      <4>1. toSend' = Tail(toSend) \/ LeftOf(toSend', Tail(toSend), "junk")
        BY <1>7, <3>1, <3>5 DEF Rest
      <4> QED BY <3>11, <4>1 DEF LeftOf
    <3> QED BY <1>3, <1>4, <3>4, <3>5, <3>6, <3>8, <3>10, <3>12, NewBlock DEF TransferInv
  <2>4. CASE NakCame
    <3>1. LeftOf(toSend', toSend, "junk") BY <1>7, <2>4 DEF NakCame
    <3>2. Part(s', r, toRecv', toSend) BY <1>3, <2>4, SendAgainKeeps DEF NakCame
    <3> QED BY <1>8, <3>1, <3>2
  <2>5. CASE NoAck
    <3>1. toSend' = toSend BY <2>5 DEF NoAck
    <3>2. CASE s.tries + 1 < AckTries
      <4>1. s' = [s EXCEPT !.tries = s.tries + 1] /\ toRecv' = toRecv BY <2>5, <3>2 DEF NoAck
      <4>2. s'.num = s.num /\ s'.at = s.at /\ s'.size = s.size /\ s'.pc = s.pc /\ s'.ok = s.ok
        BY <1>1, <4>1 DEF SenderTypes
      <4>3. s'.ok => s'.pc = "done" /\ r.ok BY <1>6, <4>2 DEF Part, Ended
      <4> QED BY <1>1, <1>3, <1>4, <1>6, <3>1, <4>1, <4>2, <4>3, SameBlock
    <3>3. CASE ~(s.tries + 1 < AckTries)
      <4>1. Part(s', r, toRecv', toSend) BY <1>3, <2>5, <3>3, SendAgainKeeps DEF NoAck
      <4> QED BY <1>4, <3>1, <4>1
    <3> QED BY <3>2, <3>3
  <2>6. CASE Cancelled
    <3>1. LeftOf(toSend', toSend, "junk") BY <1>7, <2>6 DEF Cancelled
    <3>2. Part(s', r, toRecv', toSend) BY <1>3, <2>6, EndKeeps DEF Cancelled
    <3> QED BY <1>8, <3>1, <3>2
  <2>7. CASE EotAcked
    <3>1. LeftOf(toSend', toSend, "junk") BY <1>7, <2>7 DEF EotAcked
    <3>2. r.ok BY <1>6, <1>7, <2>7 DEF EotAcked, Part, Honest, Answered, Sending
    <3>3. Part(s', r, toRecv', toSend) BY <1>3, <2>7, <3>2, EndKeeps DEF EotAcked
    <3> QED BY <1>8, <3>1, <3>3
  <2>8. CASE EotAgain
    <3>1. LeftOf(toSend', toSend, "junk") \/ toSend' = toSend BY <1>7, <2>8 DEF EotAgain
    <3>2. CASE s.tries < MaxErrors
      <4>1. s' = [s EXCEPT !.tries = s.tries + 1] /\ toRecv' = Append(toRecv, Char("EOT"))
        BY <2>8, <3>2 DEF EotAgain
      <4>2. s'.num = s.num /\ s'.at = s.at /\ s'.size = s.size /\ s'.pc = s.pc /\ s'.ok = s.ok
        BY <1>1, <4>1 DEF SenderTypes
      <4>3. s'.ok => s'.pc = "done" /\ r.ok BY <1>6, <4>2 DEF Part, Ended
      <4>4. Part(s', r, toRecv, toSend) BY <1>1, <1>3, <1>6, <4>2, <4>3, SameBlock
      <4>5. AtEnd(s', r) BY <2>8, <4>2, <4>4 DEF EotAgain, Part, InStep
      <4>6. Sound(toRecv', s', r)
        BY <1>1, <1>3, <4>1, <4>4, <4>5, CharKinds, CharTypes, SendKeeps DEF Part, Fine
      <4>7. Part(s', r, toRecv', toSend) BY <4>4, <4>6 DEF Part
      <4> QED BY <1>4, <1>8, <3>1, <4>7
    <3>3. CASE ~(s.tries < MaxErrors)
      <4>1. Part(s', r, toRecv', toSend) BY <1>3, <2>8, <3>3, EndKeeps DEF EotAgain
      <4> QED BY <1>4, <1>8, <3>1, <4>1
    <3> QED BY <3>2, <3>3
  <2> QED BY <2>1, <2>2, <2>3, <2>4, <2>5, <2>6, <2>7, <2>8 DEF Sender
<1> QED BY <1>2, <1>5, <1>9 DEF TransferInv

LEMMA NextNumber ==
  ASSUME NEW M \in Nat, M >= 2, NEW k \in Nat \ {0}
  PROVE  k % M # (k - 1) % M
<1> SUFFICES ASSUME k % M = (k - 1) % M PROVE FALSE OBVIOUS
<1> DEFINE a == k \div M
           b == (k - 1) \div M
<1>1. a \in Int /\ b \in Int /\ k = M * a + (k % M) /\ k - 1 = M * b + ((k - 1) % M)
  OBVIOUS
<1> HIDE DEF a, b
<1>2. M * a - M * b = 1 BY <1>1
<1>3. CASE a <= b
  <2>1. M * a <= M * b BY <1>1, <1>3
  <2> QED BY <1>1, <1>2, <2>1
<1>4. CASE a >= b + 1
  <2>1. M * a >= M * (b + 1) BY <1>1, <1>4
  <2>2. M * (b + 1) = M * b + M BY <1>1
  <2> QED BY <1>1, <1>2, <2>1, <2>2
<1> QED BY <1>1, <1>3, <1>4

\* Answers of the receiver but an ACK.
Refusals == {<<>>} \union {<<c>> : c \in Answers \ {"ACK"}}

LEMMA RefusalKeeps ==
  ASSUME NEW t, NEW v, NEW a \in Seq(Answers), NEW e \in Refusals, Honest(a, t, v)
  PROVE  e \in Seq(Answers) /\ a \o e \in Seq(Answers) /\ Honest(a \o e, t, v)
<1>1. CASE e = <<>>
  <2>1. a \o e = a BY <1>1, ConcatEmptySeq
  <2> QED BY <1>1, <2>1
<1>2. ASSUME NEW c \in Answers \ {"ACK"}, e = <<c>> PROVE
        e \in Seq(Answers) /\ a \o e \in Seq(Answers) /\ Honest(a \o e, t, v)
  <2>1. Append(a, c) = a \o e BY <1>2, AppendIsConcat
  <2>2. Honest(Append(a, c), t, v) BY <1>2, AnswerKeeps
  <2>3. e \in Seq(Answers) BY <1>2
  <2>4. Append(a, c) \in Seq(Answers) BY <1>2, AppendProperties
  <2> QED BY <2>1, <2>2, <2>3, <2>4
<1> QED BY <1>1, <1>2 DEF Refusals

LEMMA NakIsRefusal == \A v : NakFor(v) \in Answers \ {"ACK"} /\ <<NakFor(v)>> \in Refusals
BY DEF NakFor, Answers, Refusals

LEMMA ReceiverEndKeeps ==
  ASSUME TransferInv, r.pc = "wait", NEW ok \in BOOLEAN, ReceiverEnds(ok), ok => AtEnd(s, r)
  PROVE  r'.file = r.file /\ r'.ok = ok /\ r'.pc = "done" /\ Part(s, r', toRecv, toSend)
<1>1. s \in SenderTypes /\ r \in ReceiverTypes BY Types DEF TransferInv
<1>2. r' \in ReceiverTypes BY ReceiverEndsTypes DEF TransferInv
<1>3. r' = [r EXCEPT !.pc = "done", !.ok = ok] BY DEF ReceiverEnds
<1>4. r'.num = r.num /\ r'.file = r.file /\ r'.eot = r.eot /\ r'.pc = "done" /\ r'.ok = ok
  BY <1>1, <1>3 DEF ReceiverTypes
<1>5. ~r.ok /\ (r.eot => AtEnd(s, r)) BY DEF TransferInv, Part, Ended
<1> QED BY <1>1, <1>2, <1>4, <1>5, SameFile DEF TransferInv

LEMMA ErrorKeeps ==
  ASSUME TransferInv, r.pc = "wait", NEW e \in Refusals, Error(e)
  PROVE  r'.file = r.file /\ Part(s, r', toRecv, toSend')
<1>1. s \in SenderTypes /\ r \in ReceiverTypes /\ toSend \in Seq(Answers)
  BY Types DEF TransferInv
<1>2. Part(s, r, toRecv, toSend) BY DEF TransferInv
<1>3. e \in Seq(Answers) /\ toSend \o e \in Seq(Answers) /\ Honest(toSend \o e, s, r)
  BY <1>1, <1>2, RefusalKeeps DEF Part
<1>4. r' \in ReceiverTypes BY <1>3, ErrorTypes DEF TransferInv
<1> DEFINE n == r.errors + 1
           crc == r.crc /\ ~(r.num = 1 /\ n > ChecksumAfter)
           t == [r EXCEPT !.errors = n, !.tries = 0, !.eot = FALSE, !.crc = crc]
           u == [r EXCEPT !.errors = @ + 1, !.tries = 0, !.eot = FALSE,
                   !.crc = @ /\ ~(r.num = 1 /\ r.errors + 1 > ChecksumAfter)]
<1>5. u = t OBVIOUS
<1>6. t.errors = n BY <1>1 DEF ReceiverTypes
<1>7. ASSUME NEW v, NEW c \in Answers \ {"ACK"}, Honest(toSend, s, v)
      PROVE  Honest(Append(toSend \o e, c), s, v)
  <2> DEFINE q == toSend \o e
  <2>1. q \in Seq(Answers) /\ Honest(q, s, v) BY <1>1, <1>7, RefusalKeeps
  <2> HIDE DEF q
  <2>2. Honest(Append(q, c), s, v) BY <1>7, <2>1, AnswerKeeps
  <2> QED BY <2>2 DEF q
<1>8. CASE n > MaxErrors
  <2>1. ReceiverEnds(FALSE) /\ toSend' = Append(toSend \o e, "CAN") BY <1>5, <1>6, <1>8 DEF Error
  <2>2. r'.file = r.file /\ Part(s, r', toRecv, toSend) BY <2>1, ReceiverEndKeeps
  <2>3. Honest(toSend', s, r') BY <1>7, <2>1, <2>2, CharTypes DEF Part
  <2> QED BY <2>2, <2>3 DEF Part
<1>9. CASE ~(n > MaxErrors)
  <2>1. r' = t /\ toSend' = Append(toSend \o e, NakFor(t)) BY <1>5, <1>6, <1>9 DEF Error
  <2>2. /\ r'.num = r.num /\ r'.file = r.file /\ r'.eot = FALSE /\ r'.ok = r.ok /\ r'.pc = r.pc
    <3> HIDE DEF n, crc
    <3> QED BY <1>1, <2>1 DEF ReceiverTypes
  <2>3. r'.ok => AtEnd(s, r) /\ r'.pc = "done" BY <1>2, <2>2 DEF Part, Ended
  <2>4. Part(s, r', toRecv, toSend) BY <1>1, <1>2, <1>4, <2>2, <2>3, SameFile
  <2>5. Honest(toSend', s, r')
    <3> HIDE DEF t
    <3> QED BY <1>7, <2>1, <2>4, NakIsRefusal DEF Part
  <2> QED BY <2>2, <2>4, <2>5 DEF Part
<1> QED BY <1>8, <1>9

LEMMA GoOnKeeps ==
  ASSUME TransferInv, r.pc = "wait", NEW e \in Refusals, NEW eot \in BOOLEAN, GoOn(eot, e),
         eot => AtEnd(s, r)
  PROVE  r'.file = r.file /\ Part(s, r', toRecv, toSend')
<1>1. s \in SenderTypes /\ r \in ReceiverTypes /\ toSend \in Seq(Answers)
  BY Types DEF TransferInv
<1>2. Part(s, r, toRecv, toSend) BY DEF TransferInv
<1>3. CASE r.tries < MaxErrors
  <2> DEFINE n == r.tries + 1
  <2>1. r' = [r EXCEPT !.tries = n, !.eot = eot] /\ toSend' = toSend \o e
    BY <1>3 DEF GoOn
  <2>2. e \in Seq(Answers) BY <1>1, <1>2, RefusalKeeps DEF Part
  <2>3. r' \in ReceiverTypes BY <2>2, GoOnTypes DEF TransferInv
  <2>4. r'.num = r.num /\ r'.file = r.file /\ r'.eot = eot /\ r'.ok = r.ok /\ r'.pc = r.pc
    <3> HIDE DEF n
    <3> QED BY <1>1, <2>1 DEF ReceiverTypes
  <2>5. ~r.ok BY <1>2 DEF Part, Ended
  <2>6. Part(s, r', toRecv, toSend) BY <1>1, <1>2, <2>3, <2>4, <2>5, SameFile
  <2>7. Honest(toSend', s, r') BY <1>1, <2>1, <2>6, RefusalKeeps DEF Part
  <2> QED BY <2>4, <2>6, <2>7 DEF Part
<1>4. CASE ~(r.tries < MaxErrors)
  <2>1. Error(e) BY <1>4 DEF GoOn
  <2> QED BY <2>1, ErrorKeeps
<1> QED BY <1>3, <1>4

\* The block expected is the sender's, and the receiver has all that is before it.
LEMMA ExpectedIsCurrent ==
  ASSUME TransferInv, Expected
  PROVE  /\ Head(toRecv) \in Blocks /\ Current(Head(toRecv), s) /\ Behind(s, r)
         /\ toRecv # <<>> /\ Head(toRecv) = toRecv[1]
<1>1. s \in SenderTypes /\ r \in ReceiverTypes /\ toRecv \in Seq(Messages)
  BY Types DEF TransferInv
<1> DEFINE b == Head(toRecv)
<1>2. toRecv # <<>> /\ b.kind = "block" BY DEF Expected, Good, Arrived
<1>3. b = toRecv[1] /\ 1 \in 1..Len(toRecv) /\ b \in Messages BY <1>1, <1>2
<1>4. b \in Blocks BY <1>2, <1>3, MessageKinds
<1>5. Fine(b, s, r) BY <1>3 DEF TransferInv, Part, Sound
<1>6. b.num % Modulus = r.num % Modulus BY DEF Expected, Numbered
<1> HIDE DEF b
<1>7. s.num \in Nat \ {0} /\ r.num \in Nat \ {0} BY <1>1, SenderFields, ReceiverFields
<1>8. r.num % Modulus # (r.num - 1) % Modulus BY <1>7, NextNumber, XmodemAssumption
<1>9. ~Previous(b, s, r) BY <1>6, <1>8 DEF Previous, Behind
<1>10. Current(b, s) BY <1>2, <1>5, <1>9 DEF Fine
<1>11. ~Ahead(s, r)
  <2> SUFFICES ASSUME Ahead(s, r) PROVE FALSE OBVIOUS
  <2>1. b.num = r.num - 1 BY <1>7, <1>10 DEF Ahead, Current
  <2> QED BY <1>6, <1>8, <2>1
<1>12. Behind(s, r) BY <1>11 DEF TransferInv, Part, InStep
<1> QED BY <1>2, <1>3, <1>4, <1>10, <1>12 DEF b

LEMMA WantedUnits ==
  ASSUME TransferInv, NEW b \in Blocks, Current(b, s), Behind(s, r)
  PROVE  /\ Wanted(b) \in Seq(0..Size) /\ Len(Wanted(b)) = End(s) - s.at
         /\ \A i \in 1..Len(Wanted(b)) : Wanted(b)[i] = s.at + i
<1>1. s \in SenderTypes /\ r \in ReceiverTypes BY Types DEF TransferInv
<1>2. /\ b.at = s.at /\ b.len = s.size /\ s.size \in Nat \ {0} /\ s.at \in 0..Size /\ s.at < Size
      /\ s.at \in Nat /\ Size \in Nat /\ Len(r.file) = s.at
      /\ (Announced \/ s.at + s.size <= Size)
  BY <1>1, SenderFields, XmodemAssumption DEF Current, Sending, HasBlock, Behind
<1>3. Wanted(b) \in Seq(0..Size) BY WantedTypes DEF TransferInv
<1> DEFINE q == Units(b)
<1>4. \A i \in 1..s.size : q[i] = IF s.at + i <= Size THEN s.at + i ELSE 0 BY <1>2 DEF Units
<1>5. q \in Seq(0..Size) /\ Len(q) = s.size
  <2>1. \A i \in 1..b.len : (IF b.at + i <= Size THEN b.at + i ELSE 0) \in 0..Size
    BY <1>2
  <2>2. q \in [1..b.len -> 0..Size] /\ DOMAIN q = 1..s.size BY <1>2, <2>1 DEF Units
  <2> HIDE DEF q
  <2>3. q \in Seq(0..Size) BY <1>2, <2>2, SeqDef
  <2>4. 1..Len(q) = 1..s.size /\ Len(q) \in Nat BY <2>2, <2>3, LenProperties
  <2>5. Len(q) = s.size
    <3>1. Len(q) <= s.size BY <1>2, <2>4
    <3>2. s.size <= Len(q) BY <1>2, <2>4
    <3> QED BY <1>2, <2>4, <3>1, <3>2
  <2> QED BY <2>3, <2>5
<1> HIDE DEF q
<1>6. CASE Announced /\ s.at + s.size > Size
  <2> DEFINE n == Size - s.at
  <2>1. Wanted(b) = SubSeq(q, 1, n) BY <1>2, <1>6 DEF Wanted, q
  <2>2. n \in Nat \ {0} /\ n <= Len(q) /\ n = End(s) - s.at BY <1>2, <1>5, <1>6 DEF End
  <2>3. \A i \in 1..n : i \in 1..s.size /\ s.at + i <= Size BY <1>2, <1>6
  <2> HIDE DEF n
  <2>4. /\ Len(SubSeq(q, 1, n)) = n - 1 + 1
        /\ \A i \in 1..(n - 1 + 1) : SubSeq(q, 1, n)[i] = q[1 + i - 1]
    BY <1>5, <2>2, Slice
  <2>5. Len(Wanted(b)) = n /\ \A i \in 1..n : Wanted(b)[i] = q[i] BY <2>1, <2>2, <2>4
  <2> QED BY <1>3, <1>4, <2>2, <2>3, <2>5
<1>7. CASE ~(Announced /\ s.at + s.size > Size)
  <2>1. Wanted(b) = q BY <1>2, <1>7 DEF Wanted, q
  <2>2. s.at + s.size <= Size BY <1>2, <1>7
  <2>3. s.size = End(s) - s.at BY <1>2, <2>2 DEF End
  <2> QED BY <1>2, <1>3, <1>4, <1>5, <2>1, <2>2, <2>3
<1> QED BY <1>6, <1>7

\* The file grows by the units of the sender's block.
LEMMA ReceiveKeeps ==
  ASSUME TransferInv, Receive
  PROVE  /\ r'.pc = r.pc /\ Len(r'.file) > Len(r.file) /\ Intact'
         /\ Part(s, r', toRecv, toSend')
<1>1. s \in SenderTypes /\ r \in ReceiverTypes /\ toRecv \in Seq(Messages)
      /\ toSend \in Seq(Answers)
  BY Types DEF TransferInv
<1> DEFINE b == Head(toRecv)
<1>2. b \in Blocks /\ Current(b, s) /\ Behind(s, r) BY ExpectedIsCurrent DEF Receive
<1>3. /\ r.file \in Seq(0..Size) /\ Len(r.file) = s.at /\ s.at < Size /\ s.at \in Nat
      /\ s.size \in Nat \ {0} /\ Size \in Nat /\ s.num \in Nat
  BY <1>1, <1>2, SenderFields, ReceiverFields, XmodemAssumption
     DEF Behind, Current, Sending, HasBlock
<1>4. /\ Wanted(b) \in Seq(0..Size) /\ Len(Wanted(b)) = End(s) - s.at
      /\ \A i \in 1..Len(Wanted(b)) : Wanted(b)[i] = s.at + i
  BY <1>2, WantedUnits
<1> DEFINE file == r.file \o Wanted(b)
           n == r.num + 1
<1>5. r' = [r EXCEPT !.file = file, !.num = n, !.tries = 0, !.eot = FALSE]
      /\ toSend' = Append(toSend, "ACK") /\ r.pc = "wait"
  BY <1>3 DEF Receive, Expected, Good, Arrived
<1>6. r'.file = file /\ r'.num = n /\ r'.eot = FALSE /\ r'.pc = r.pc /\ r'.ok = r.ok
  <2> HIDE DEF file, n
  <2> QED BY <1>1, <1>5 DEF ReceiverTypes
<1>7. /\ file \in Seq(0..Size) /\ Len(file) = End(s)
      /\ \A i \in 1..Len(r.file) : file[i] = r.file[i]
      /\ \A i \in (Len(r.file) + 1)..Len(file) : file[i] = Wanted(b)[i - Len(r.file)]
  <2> DEFINE w == Wanted(b)
  <2>1. w \in Seq(0..Size) /\ Len(w) = End(s) - s.at BY <1>4
  <2>2. End(s) \in Nat BY <1>3 DEF End
  <2> HIDE DEF w
  <2>3. /\ r.file \o w \in Seq(0..Size) /\ Len(r.file \o w) = Len(r.file) + Len(w)
        /\ \A i \in 1..Len(r.file) : (r.file \o w)[i] = r.file[i]
        /\ \A i \in (Len(r.file) + 1)..(Len(r.file) + Len(w)) : (r.file \o w)[i] = w[i - Len(r.file)]
    BY <1>3, <2>1, Joined
  <2>4. Len(r.file \o w) = End(s) BY <1>3, <2>1, <2>2, <2>3
  <2> QED BY <2>1, <2>2, <2>3, <2>4, <1>3 DEF w
<1> HIDE DEF file, b
<1>8. End(s) > s.at /\ End(s) <= Size /\ End(s) \in Nat BY <1>3 DEF End
<1>9. Intact'
  <2>1. \A i \in 1..Len(r.file) : file[i] = i BY <1>7 DEF TransferInv, Intact
  <2>2. \A i \in (Len(r.file) + 1)..Len(file) : file[i] = i
    <3> SUFFICES ASSUME NEW i \in (Len(r.file) + 1)..Len(file) PROVE file[i] = i OBVIOUS
    <3>1. i - s.at \in 1..(End(s) - s.at) /\ s.at + (i - s.at) = i BY <1>3, <1>7, <1>8
    <3>2. Wanted(b)[i - s.at] = s.at + (i - s.at) BY <1>4, <3>1
    <3> QED BY <1>3, <1>7, <3>1, <3>2
  <2>3. \A i \in 1..Len(file) : file[i] = i BY <1>3, <1>7, <1>8, <2>1, <2>2
  <2> QED BY <1>6, <1>7, <1>8, <2>3 DEF Intact
<1>10. Part(s, r, toRecv, toSend) BY DEF TransferInv
<1>11. Sending(s) /\ HasBlock(s) BY <1>2 DEF Current, Sending
<1>12. Ahead(s, r') BY <1>2, <1>6, <1>7, <1>11 DEF Ahead, Behind
<1>13. ~r.ok /\ ~AtEnd(s, r) BY <1>3, <1>5, <1>10 DEF Part, Ended, AtEnd
<1>14. InStep(s, r')
  BY <1>3, <1>10, <1>11, <1>12 DEF Part, InStep, Sending, AtEnd
<1>15. Ended(s, r') BY <1>6, <1>10, <1>13 DEF Part, Ended
<1>16. \A i \in 1..Len(toSend) : toSend[i] # "ACK"
  <2>1. ~Ahead(s, r) BY <1>2, <1>3 DEF Behind, Ahead
  <2> QED BY <1>10, <1>13, <2>1 DEF Part, Honest, Answered
<1>17. Honest(toSend', s, r')
  <2>1. Honest(toSend, s, r') BY <1>16 DEF Honest, AckedOnce
  <2> QED BY <1>1, <1>5, <1>11, <1>12, <1>16, <2>1, AnswerKeeps, CharTypes DEF Answered
<1>18. Sound(toRecv, s, r')
  <2>1. b = toRecv[1] /\ b.kind = "block" /\ b.num = s.num /\ Len(toRecv) \in Nat \ {0}
    BY <1>1, <1>2, ExpectedIsCurrent DEF Receive, Expected, Good, b, Current
  <2>2. ASSUME NEW i \in 1..Len(toRecv), toRecv[i].kind = "block" PROVE Current(toRecv[i], s)
    <3>1. toRecv[1].num <= toRecv[i].num
      <4>1. 1 \in 1..Len(toRecv) /\ (i = 1 \/ 1 < i) BY <2>1
      <4>2. toRecv[1].num \in Nat BY <2>1, <1>3
      <4> QED BY <1>10, <2>1, <2>2, <4>1, <4>2 DEF Part, Sound, InOrder
    <3>2. ~Previous(toRecv[i], s, r) BY <1>3, <2>1, <3>1 DEF Previous
    <3> QED BY <1>10, <2>2, <3>2 DEF Part, Sound, Fine
  <2>3. \A i \in 1..Len(toRecv) : Fine(toRecv[i], s, r')
    BY <1>10, <1>13, <2>2 DEF Part, Sound, Fine
  <2> QED BY <1>10, <2>3 DEF Part, Sound
<1>19. Part(s, r', toRecv, toSend') BY <1>14, <1>15, <1>17, <1>18 DEF Part
<1> QED BY <1>3, <1>6, <1>7, <1>8, <1>9, <1>19

LEMMA ReceiverKeeps ==
  ASSUME TransferInv, Receiver
  PROVE  /\ TransferInv' /\ s' = s /\ r.pc = "wait"
         /\ r'.file = r.file \/ (r'.pc = "wait" /\ Len(r'.file) > Len(r.file))
<1>1. /\ s \in SenderTypes /\ r \in ReceiverTypes
      /\ toRecv \in Seq(Messages) /\ toSend \in Seq(Answers)
  BY Types DEF TransferInv
<1>2. TypeOK' BY ReceiverTypesStep DEF TransferInv
<1>3. toRecv' \in Seq(Messages) BY <1>2, TypesNext
<1>4. s' = s /\ r.pc = "wait"
  BY DEF Receiver, Receive, DiscardRepeated, Reject, FirstEot, SecondEot, NoBlock,
         CancelledBySender, Expected, Repeated, Good, Arrived
<1>5. Part(s, r, toRecv, toSend) BY DEF TransferInv
<1>6. ASSUME toRecv # <<>>
      PROVE  /\ LeftOf(Tail(toRecv), toRecv, Char("junk"))
             /\ \A x \in Suffixes(Tail(toRecv)) : LeftOf(x, toRecv, Char("junk"))
             /\ Head(toRecv) = toRecv[1] /\ 1 \in 1..Len(toRecv)
  <2>1. Head(toRecv) = toRecv[1] /\ 1 \in 1..Len(toRecv) BY <1>1, <1>6
  <2> QED BY <1>1, <1>6, <2>1, TailLeft, LeftOfTail
<1>7. toRecv' = toRecv \/ LeftOf(toRecv', toRecv, Char("junk"))
  BY <1>6
     DEF Receiver, Receive, DiscardRepeated, Reject, FirstEot, SecondEot, NoBlock,
         CancelledBySender, Expected, Repeated, Good, Arrived
<1>8. ASSUME toRecv # <<>>, Head(toRecv).kind = "EOT" PROVE AtEnd(s, r)
  BY <1>5, <1>6, <1>8 DEF Part, Sound, Fine
<1>9. <<>> \in Refusals /\ <<NakFor(r)>> \in Refusals BY NakIsRefusal DEF Refusals
<1>10. /\ Part(s, r', toRecv, toSend')
       /\ (r'.file = r.file \/ (r'.pc = "wait" /\ Len(r'.file) > Len(r.file) /\ Intact'))
  <2>1. CASE Receive BY <1>4, <2>1, ReceiveKeeps
  <2>2. CASE DiscardRepeated BY <1>4, <1>9, <2>2, GoOnKeeps DEF DiscardRepeated
  <2>3. CASE Reject BY <1>4, <1>9, <2>3, ErrorKeeps DEF Reject
  <2>4. CASE FirstEot BY <1>4, <1>8, <1>9, <2>4, GoOnKeeps DEF FirstEot, Arrived
  <2>5. CASE SecondEot
    <3>1. AtEnd(s, r) BY <1>5, <2>5 DEF SecondEot, Part, Ended
    <3>2. ReceiverEnds(TRUE) /\ toSend' = Append(toSend, "ACK") BY <2>5 DEF SecondEot
    <3>3. r'.file = r.file /\ r'.ok = TRUE /\ Part(s, r', toRecv, toSend)
      BY <1>4, <3>1, <3>2, ReceiverEndKeeps
    <3>4. s.pc # "ack" BY <3>1 DEF AtEnd
    <3>5. Honest(toSend', s, r')
      BY <1>1, <3>2, <3>3, <3>4, AnswerKeeps, CharTypes DEF Part, Answered
    <3> QED BY <3>3, <3>5 DEF Part
  <2>6. CASE NoBlock BY <1>4, <1>9, <2>6, ErrorKeeps DEF NoBlock
  <2>7. CASE CancelledBySender BY <1>4, <2>7, ReceiverEndKeeps DEF CancelledBySender
  <2> QED BY <2>1, <2>2, <2>3, <2>4, <2>5, <2>6, <2>7 DEF Receiver
<1>11. Intact' BY <1>10 DEF TransferInv, Intact
<1>12. Sound(toRecv', s, r') BY <1>1, <1>3, <1>7, <1>10, LossKeepsSound DEF Part
<1>13. Part(s', r', toRecv', toSend') BY <1>4, <1>10, <1>12 DEF Part
<1> QED BY <1>2, <1>4, <1>10, <1>11, <1>13 DEF TransferInv

LEMMA NoiseKeeps ==
  ASSUME TransferInv, ~Slips, NoiseToRecv \/ NoiseToSend
  PROVE  TransferInv' /\ s' = s /\ r' = r
<1>1. toRecv \in Seq(Messages) /\ toSend \in Seq(Answers) BY Types DEF TransferInv
<1>2. TypeOK' BY NoiseTypes DEF TransferInv
<1>3. s' = s /\ r' = r BY DEF NoiseToRecv, NoiseToSend
<1>4. Intact' BY <1>3 DEF TransferInv, Intact
<1>5. Part(s, r, toRecv, toSend) BY DEF TransferInv
<1>6. CASE NoiseToRecv
  <2>1. LeftOf(toRecv', toRecv, Char("junk")) /\ toRecv' \in Seq(Messages) /\ toSend' = toSend
    BY <1>1, <1>6, RemovedLeft, DamagedLeft, CharTypes DEF NoiseToRecv
  <2>2. Part(s, r, toRecv', toSend') BY <1>1, <1>5, <2>1, LossKeepsSound DEF Part
  <2> QED BY <1>2, <1>3, <1>4, <2>2 DEF TransferInv
<1>7. CASE NoiseToSend
  <2>1. PICK i \in 1..Len(toSend) :
          toSend' = RemoveAt(toSend, i) \/ toSend' = Damaged(toSend, i, "junk")
    BY <1>7 DEF NoiseToSend
  <2>3. "junk" \in Answers BY DEF Answers
  <2>4. LeftOf(toSend', toSend, "junk") /\ toSend' \in Seq(Answers)
    BY <1>1, <2>1, <2>3, RemovedLeft, DamagedLeft
  <2>5. toRecv' = toRecv BY <1>7 DEF NoiseToSend
  <2>2. Part(s, r, toRecv', toSend') BY <1>1, <1>5, <2>4, <2>5, LossKeepsHonest DEF Part
  <2> QED BY <1>2, <1>3, <1>4, <2>2 DEF TransferInv
<1> QED BY <1>6, <1>7

LEMMA TransferInit == Init => TransferInv
<1> SUFFICES ASSUME Init PROVE TransferInv OBVIOUS
<1>1. TypeOK BY TypeInit
<1>2. /\ s.pc = "mode" /\ s.num = 1 /\ s.at = 0 /\ s.ok = FALSE BY DEF Init
<1>3. r.num = 1 /\ r.eot = FALSE /\ r.ok = FALSE /\ r.file = <<>> BY DEF Init
<1>4. Len(r.file) = 0 /\ Size \in Nat BY <1>3, XmodemAssumption
<1>5. Intact BY <1>4 DEF Intact
<1>6. Behind(s, r) BY <1>2, <1>3, <1>4 DEF Behind
<1>7. InStep(s, r) /\ Ended(s, r) BY <1>2, <1>3, <1>6 DEF InStep, Ended
<1>8. Sound(toRecv, s, r)
  <2>1. toRecv = <<>> BY DEF Init
  <2>2. Len(toRecv) = 0 BY <2>1
  <2> QED BY <2>2 DEF Sound, InOrder
<1>9. Honest(toSend, s, r)
  <2>1. toSend = <<"C">> \/ toSend = <<"NAK">> BY DEF Init
  <2>2. \A i \in 1..Len(toSend) : toSend[i] # "ACK" BY <2>1
  <2> QED BY <2>2, <1>2 DEF Honest
<1> QED BY <1>1, <1>5, <1>7, <1>8, <1>9 DEF TransferInv, Part

LEMMA TransferStep ==
  ASSUME TransferInv, ~Slips, NoFallback, [Next]_vars
  PROVE  TransferInv'
<1>1. ASSUME UNCHANGED vars PROVE TransferInv'
  <2>1. s' = s /\ r' = r /\ toRecv' = toRecv /\ toSend' = toSend /\ line' = line
    BY <1>1 DEF vars
  <2>2. TypeOK' BY <2>1, Types, TypesNext DEF TransferInv
  <2> QED BY <2>1, <2>2 DEF TransferInv, Intact
<1> QED BY <1>1, SenderKeeps, ReceiverKeeps, NoiseKeeps DEF Next

---------------------------------------------------------------------------
(* The refinement *)

\* A file that is a beginning of 1, 2, 3, ... is a beginning of the file sent.
LEMMA Beginning ==
  ASSUME NEW q \in Seq(0..Size), Len(q) <= Size, \A i \in 1..Len(q) : q[i] = i
  PROVE  q = SubSeq(FT!Source, 1, Len(q)) /\ (Len(q) = Size => q = FT!Source)
<1>1. FT!Source = [i \in 1..Size |-> i] BY DEF FT!Source
<1> DEFINE c == FT!Source
<1>2. c \in Seq(0..Size) /\ Len(c) = Size /\ \A i \in 1..Size : c[i] = i
  <2>1. Size \in Nat BY XmodemAssumption
  <2>2. c \in [1..Size -> 0..Size] /\ DOMAIN c = 1..Size BY <1>1
  <2>3. \A i \in 1..Size : c[i] = i BY <1>1
  <2> HIDE DEF c
  <2>4. c \in Seq(0..Size) BY <2>1, <2>2, SeqDef
  <2>5. 1..Len(c) = 1..Size /\ Len(c) \in Nat BY <2>2, <2>4, LenProperties
  <2>6. Len(c) <= Size BY <2>1, <2>5
  <2>7. Size <= Len(c) BY <2>1, <2>5
  <2> QED BY <2>1, <2>3, <2>4, <2>5, <2>6, <2>7
<1> HIDE DEF c
<1>3. q = SubSeq(c, 1, Len(q))
  <2> DEFINE n == Len(q)
             d == SubSeq(c, 1, n)
  <2>1. n \in Nat /\ n <= Len(c) BY <1>2
  <2>2. d \in Seq(0..Size) /\ Len(d) = n - 1 + 1 /\ \A i \in 1..(n - 1 + 1) : d[i] = c[1 + i - 1]
    <3> HIDE DEF n
    <3> QED BY <1>2, <2>1, Slice
  <2>3. Len(d) = Len(q) /\ \A i \in 1..Len(q) : q[i] = d[i] BY <1>2, <2>1, <2>2
  <2> HIDE DEF d
  <2>4. q = d BY <2>2, <2>3, SeqEqual
  <2> QED BY <2>4 DEF d
<1>4. Len(q) = Size => q = c BY <1>2, SeqEqual
<1> QED BY <1>3, <1>4 DEF c

LEMMA Verdicts ==
  ASSUME NEW e
  PROVE  /\ Verdict(e) \in {"open", "success", "failure"}
         /\ (Verdict(e) = "open" <=> e.pc # "done")
         /\ Verdict(e) = "success" => e.ok
BY DEF Verdict

LEMMA TransferSteps ==
  ASSUME TransferInv, TransferInv', [Next]_vars
  PROVE  [FT!Next]_<<r.file, Verdict(r), Verdict(s)>>
<1>1. CASE Sender
  <2>1. r' = r /\ s.pc # "done"
    BY <1>1 DEF Sender, GetMode, NoMode, AckCame, NakCame, NoAck, Cancelled, EotAcked, EotAgain
  <2>2. Verdict(s) = "open" BY <2>1, Verdicts
  <2>3. Verdict(s') = "success" => Verdict(r) = "success"
    BY <2>1, Verdicts DEF TransferInv, Part, Ended, Verdict
  <2>4. CASE Verdict(s') = "open" BY <2>1, <2>2, <2>4
  <2>5. CASE Verdict(s') # "open"
    <3>1. FT!SenderEnds(Verdict(s')) BY <2>1, <2>2, <2>3 DEF FT!SenderEnds
    <3> QED BY <2>5, <3>1, Verdicts DEF FT!Next
  <2> QED BY <2>4, <2>5
<1>2. CASE Receiver
  <2>1. /\ s' = s /\ r.pc = "wait"
        /\ r'.file = r.file \/ (r'.pc = "wait" /\ Len(r'.file) > Len(r.file))
    BY <1>2, ReceiverKeeps
  <2>2. Verdict(r) = "open" BY <2>1, Verdicts
  <2>3. /\ r'.file \in Seq(0..Size) /\ Len(r'.file) <= Size
        /\ \A i \in 1..Len(r'.file) : r'.file[i] = i
    <3>1. r' \in ReceiverTypes BY TypesNext DEF TransferInv
    <3>2. r'.file \in Seq(0..Size) BY <3>1, ReceiverFields
    <3> QED BY <3>2 DEF TransferInv, Intact
  <2>4. CASE r'.file # r.file
    <3>1. Verdict(r') = "open" /\ Len(r'.file) > Len(r.file) BY <2>1, <2>4, Verdicts
    <3>2. r'.file = SubSeq(FT!Source, 1, Len(r'.file)) BY <2>3, Beginning
    <3>3. Len(r'.file) \in Len(r.file) + 1..Size
      <4>1. r \in ReceiverTypes BY Types DEF TransferInv
      <4>2. r.file \in Seq(0..Size) BY <4>1, ReceiverFields
      <4>3. Len(r.file) \in Nat /\ Len(r'.file) \in Nat BY <2>3, <4>2
      <4> QED BY <2>3, <3>1, <4>3, XmodemAssumption
    <3>4. FT!Append128s BY <2>1, <2>2, <3>1, <3>2, <3>3 DEF FT!Append128s
    <3> QED BY <3>4 DEF FT!Next
  <2>5. CASE r'.file = r.file /\ Verdict(r') = "open" BY <2>1, <2>2, <2>5
  <2>6. CASE r'.file = r.file /\ Verdict(r') # "open"
    <3>1. Verdict(r') = "success" => r.file = FT!Source
      <4> SUFFICES ASSUME Verdict(r') = "success" PROVE r.file = FT!Source OBVIOUS
      <4>1. AtEnd(s', r') BY Verdicts DEF TransferInv, Part, Ended
      <4>2. Len(r'.file) = Size BY <4>1 DEF AtEnd, Behind
      <4> QED BY <2>3, <2>6, <4>2, Beginning
    <3>2. FT!ReceiverEnds(Verdict(r')) BY <2>1, <2>2, <2>6, <3>1 DEF FT!ReceiverEnds
    <3> QED BY <2>6, <3>2, Verdicts DEF FT!Next
  <2> QED BY <2>4, <2>5, <2>6
<1>3. CASE NoiseToRecv \/ NoiseToSend
  <2>1. s' = s /\ r' = r BY <1>3 DEF NoiseToRecv, NoiseToSend
  <2> QED BY <2>1
<1>4. CASE UNCHANGED vars
  <2>1. s' = s /\ r' = r BY <1>4 DEF vars
  <2> QED BY <2>1
<1> QED BY <1>1, <1>2, <1>3, <1>4 DEF Next

\* For a file of any length, blocks of any size, and whatever the line loses or
\* damages, receive_files() and xmodem_send_file() transfer the file: what is
\* written is a beginning of it, the receiver reports success only of all of it,
\* and the sender only after the receiver; as long as the sender does not fall
\* back to blocks of 128 bytes and noise makes no EOT of a block.
THEOREM IsFileTransfer ==
  ASSUME ~Slips, NoFallback
  PROVE  Spec => Transfers
<1>1. Init => TransferInv BY TransferInit
<1>2. TransferInv /\ [Next]_vars => TransferInv' BY TransferStep
<1>3. Init => FT!Init
  <2> SUFFICES ASSUME Init PROVE FT!Init OBVIOUS
  <2>1. r.file = <<>> /\ Verdict(r) = "open" /\ Verdict(s) = "open" BY DEF Init, Verdict
  <2> QED BY <2>1 DEF FT!Init
<1>4. TransferInv /\ TransferInv' /\ [Next]_vars => [FT!Next]_<<r.file, Verdict(r), Verdict(s)>>
  BY TransferSteps
<1> QED BY <1>1, <1>2, <1>3, <1>4, PTL DEF Spec, Transfers, FT!Spec
=============================================================================
