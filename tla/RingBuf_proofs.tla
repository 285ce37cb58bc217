--------------------------- MODULE RingBuf_proofs ---------------------------
(***************************************************************************)
(* Proofs about the ring buffer, for every capacity, alphabet and          *)
(* highwater mark, when at most one writer uses the buffer and it asks for *)
(* the free space before it writes; and that the buffer implements         *)
(* ByteQueue if, moreover, a peeking program is written what was peeked,   *)
(* unexpanded: every operation of ringbuf.c is one of the queue, or no     *)
(* step of it.                                                             *)
(***************************************************************************)
EXTENDS RingBuf, SequenceTheorems, TLAPS

OneChecks == Checking = Writers /\ \A v, w \in Writers : v = w

---------------------------------------------------------------------------
(* Positions *)

LEMMA WrappedType ==
  ASSUME NEW p \in 0..(2 * Size + 1)
  PROVE  Wrapped(p) \in Places
BY RingBufAssumption, SMT DEF Wrapped, Places

LEMMA FillType ==
  ASSUME NEW h \in Places, NEW t \in Places
  PROVE  Fill(h, t) \in 0..Size
BY RingBufAssumption, SMT DEF Fill, Places

\* Moving the head on by n bytes that there is room for adds n to the level.
LEMMA FillWrite ==
  ASSUME NEW h \in Places, NEW t \in Places, NEW n \in Nat,
         Fill(h, t) + n <= Size
  PROVE  /\ Wrapped(h + n) \in Places
         /\ Fill(Wrapped(h + n), t) = Fill(h, t) + n
BY RingBufAssumption, SMT DEF Fill, Places, Wrapped

\* Moving the tail on by n bytes that are there takes n from the level.
LEMMA FillRead ==
  ASSUME NEW h \in Places, NEW t \in Places, NEW n \in 0..Fill(h, t)
  PROVE  /\ Wrapped(t + n) \in Places
         /\ Fill(h, Wrapped(t + n)) = Fill(h, t) - n
BY RingBufAssumption, SMT DEF Fill, Places, Wrapped

LEMMA CopiedType ==
  ASSUME buf \in [Places -> Bytes], NEW t \in Places, NEW n \in 0..Size
  PROVE  Copied(t, n) \in [1..n -> Bytes] /\ Copied(t, n) \in Seq(Bytes) /\ Len(Copied(t, n)) = n
<1>1. \A k \in 1..n : Wrapped(t + k - 1) \in Places
  BY RingBufAssumption, SMT DEF Wrapped, Places
<1>2. Copied(t, n) \in [1..n -> Bytes]
  BY <1>1 DEF Copied
<1>3. n \in Nat
  BY RingBufAssumption, SMT
<1> QED  BY <1>2, <1>3, SMT DEF Copied

LEMMA SourceType ==
  ASSUME NEW src \in Sources
  PROVE  src \in Seq(Bytes) /\ Len(src) \in 1..MaxWrite /\ src \in [1..Len(src) -> Bytes]
<1>1. PICK n \in 1..MaxWrite : src \in [1..n -> Bytes]
  BY DEF Sources
<1>2. n \in Nat
  BY RingBufAssumption, SMT
<1> QED  BY <1>1, <1>2, SMT

---------------------------------------------------------------------------
(* What the functions of ringbuf.c do to the fill level *)

LEMMA FullType ==
  ASSUME TypeOK
  PROVE  Full \in 0..Size /\ Free \in 0..Size /\ Free = Size - Full
<1>1. Full \in 0..Size
  BY FillType DEF TypeOK, Full
<1> QED  BY <1>1, RingBufAssumption, SMT DEF Free

LEMMA WriteEffect ==
  ASSUME TypeOK, RoomStays, OneChecks,
         NEW w \in Writers, NEW src \in Sources, Write(w, src)
  PROVE  /\ Full + Len(src) <= Size
         /\ head' \in Places /\ Full' = Full + Len(src)
<1>1. Len(src) \in Nat /\ Len(src) <= Free
  <2>1. w \in Checking /\ Len(src) <= room[w]
    BY DEF OneChecks, Write
  <2>2. room[w] <= Free /\ room[w] \in 0..Size
    BY <2>1 DEF RoomStays, TypeOK
  <2>3. Len(src) \in 1..MaxWrite /\ MaxWrite \in Nat
    BY SourceType, RingBufAssumption
  <2> QED  BY <2>1, <2>2, <2>3, FullType, SMT
<1>2. Full + Len(src) <= Size
  BY <1>1, FullType, RingBufAssumption, SMT
<1>3. head' = Wrapped(head + Len(src)) /\ tail' = tail
  BY DEF Write
<1>4. Wrapped(head + Len(src)) \in Places
      /\ Fill(Wrapped(head + Len(src)), tail) = Full + Len(src)
  BY <1>1, <1>2, FillWrite DEF TypeOK, Full
<1> QED  BY <1>2, <1>3, <1>4 DEF Full

LEMMA ReadEffect ==
  ASSUME TypeOK, NEW cnt \in Nat, Moved(cnt)
  PROVE  /\ Min2(cnt, Full) \in 0..Full
         /\ head' = head /\ buf' = buf /\ tail' \in Places
         /\ tail' = Wrapped(tail + Min2(cnt, Full))
         /\ Full' = Full - Min2(cnt, Full)
         /\ sem' = IF Full' = 0 THEN 0 ELSE sem
         /\ highwater_sem' = IF Full' < Mark THEN 0 ELSE highwater_sem
<1>1. Min2(cnt, Full) \in 0..Full
  BY FullType, SMT DEF Min2
<1>2. head' = head /\ buf' = buf /\ tail' = Wrapped(tail + Min2(cnt, Full))
  BY DEF Moved
<1>3. Wrapped(tail + Min2(cnt, Full)) \in Places
      /\ Fill(head, Wrapped(tail + Min2(cnt, Full))) = Full - Min2(cnt, Full)
  BY <1>1, FillRead DEF TypeOK, Full
<1>4. Full' = Fill(head, tail')
  BY <1>2 DEF Full
<1> QED  BY <1>1, <1>2, <1>3, <1>4 DEF Moved, Reset

---------------------------------------------------------------------------
(* The invariant *)

LEMMA InvInit == Init => BufferInv
<1> SUFFICES ASSUME Init PROVE BufferInv
  OBVIOUS
<1> USE RingBufAssumption
<1>1. Full = 0 /\ Free = Size
  BY SMT DEF Init, Full, Free, Fill
<1>2. TypeOK
  <2>1. PICK b \in Bytes : buf = [p \in Places |-> b]
    BY DEF Init
  <2>2. <<>> \in Seq(Bytes)
    OBVIOUS
  <2> QED  BY <2>1, <2>2, SMT DEF Init, TypeOK, Places
<1>3. RoomStays
  BY <1>1, SMT DEF Init, RoomStays
<1> QED
  BY <1>1, <1>2, <1>3, SMT DEF Init, BufferInv, NoLostWakeup, LevelSeen, PeekStays

LEMMA InvWriters ==
  ASSUME OneChecks, BufferInv, NEW w \in Writers,
         \/ AskFree(w) \/ WriteNothing(w) \/ \E src \in Sources : Write(w, src)
  PROVE  BufferInv'
<1> USE RingBufAssumption DEF BufferInv
<1>1. CASE AskFree(w)
  <2>1. Full' = Full /\ Free' = Free
    BY <1>1 DEF AskFree, store, Full, Free
  <2>2. TypeOK'
    BY <1>1, FullType DEF AskFree, TypeOK, store, sems, reader, told
  <2>3. RoomStays'
    BY <1>1, <2>1, FullType DEF AskFree, RoomStays, TypeOK, OneChecks
  <2> QED
    BY <1>1, <2>1, <2>2, <2>3
    DEF AskFree, store, sems, reader, told, NoLostWakeup, LevelSeen, PeekStays
<1>2. CASE WriteNothing(w)
  <2>1. Full' = Full /\ Free' = Free
    BY <1>2 DEF WriteNothing, store, Full, Free
  <2>2. TypeOK'
    BY <1>2, SMT DEF WriteNothing, TypeOK, store, sems, reader, told
  <2>3. RoomStays'
    <3>1. 0 <= Free
      BY FullType, SMT
    <3> QED  BY <1>2, <2>1, <3>1 DEF WriteNothing, RoomStays, TypeOK, OneChecks
  <2> QED
    BY <1>2, <2>1, <2>2, <2>3
    DEF WriteNothing, store, sems, reader, told, NoLostWakeup, LevelSeen, PeekStays
<1>3. ASSUME NEW src \in Sources, Write(w, src) PROVE BufferInv'
  <2>1. head' \in Places /\ Full' = Full + Len(src) /\ Full + Len(src) <= Size
    BY <1>3, WriteEffect
  <2>2. src \in Seq(Bytes) /\ Len(src) \in Nat \ {0} /\ src \in [1..Len(src) -> Bytes]
    BY SourceType, SMT
  <2>3. Full \in 0..Size /\ Full' \in 0..Size /\ Free' = Size - Full'
    BY <2>1, <2>2, FullType, SMT DEF Free
  <2>4. buf' \in [Places -> Bytes]
    <3>1. ASSUME NEW p \in Places PROVE Stored(src, p) \in Bytes
      <4>1. buf[p] \in Bytes
        BY DEF TypeOK
      <4>2. head \in Places
        BY DEF TypeOK
      <4> QED  BY <2>2, <4>1, <4>2, SMT DEF Stored, Places
    <3> QED  BY <1>3, <3>1 DEF Write
  <2>5. sem' = sem + 1 /\ sem' \in 0..MaxSem
    BY <1>3, SMT DEF Write, DataPost, TypeOK
  <2>6. /\ highwater_sem' \in 0..MaxSem
        /\ highwater_sem' > 0 => Full' >= Mark
        /\ Full' >= Mark /\ Mark # 0 => highwater_sem' > 0
    <3>1. highwater_sem' = IF Mark # 0 /\ Full' >= Mark THEN highwater_sem + 1
                           ELSE highwater_sem
      BY <1>3 DEF Write, HighwaterPost, Full
    <3>2. highwater_sem < MaxSem
      BY <1>3 DEF Write
    <3> QED  BY <2>1, <2>2, <2>3, <3>1, <3>2, SMT DEF TypeOK, LevelSeen
  <2>7. tail' = tail /\ pc' = pc /\ avail' = avail /\ got' = got
        /\ look' = look
        /\ room' = [room EXCEPT ![w] = 0]
    BY <1>3 DEF Write, reader, told
  <2>8. TypeOK'
    BY <2>1, <2>4, <2>5, <2>6, <2>7, SMT DEF TypeOK
  <2>9. RoomStays'
    BY <2>3, <2>7, SMT DEF RoomStays, TypeOK, OneChecks
  <2>10. NoLostWakeup'
    BY <2>5, <2>7, SMT DEF NoLostWakeup, TypeOK
  <2>11. LevelSeen'
    BY <2>3, <2>6, <2>7, SMT DEF LevelSeen, TypeOK
  <2>12. PeekStays'
    BY <2>1, <2>2, <2>3, <2>7, SMT DEF PeekStays, TypeOK
  <2> QED  BY <2>8, <2>9, <2>10, <2>11, <2>12
<1> QED  BY <1>1, <1>2, <1>3

\* A read, or the discarding of what was peeked at, of at most cnt bytes.
LEMMA InvMoved ==
  ASSUME BufferInv, NEW cnt \in Nat, Moved(cnt),
         UNCHANGED <<room, avail>>, look' = "none",
         got' \in Seq(Bytes),
         pc' \in {"idle", "wait_byte"},
         pc' = "wait_byte" => Full = 0
  PROVE  BufferInv'
<1> USE RingBufAssumption DEF BufferInv
<1> DEFINE n == Min2(cnt, Full)
<1>1. /\ n \in 0..Full /\ head' = head /\ buf' = buf /\ tail' \in Places
      /\ Full' = Full - n
      /\ sem' = IF Full' = 0 THEN 0 ELSE sem
      /\ highwater_sem' = IF Full' < Mark THEN 0 ELSE highwater_sem
  BY ReadEffect
<1> HIDE DEF n
<1>2. Full \in 0..Size /\ Full' \in 0..Full /\ Free = Size - Full /\ Free' = Size - Full'
  BY <1>1, FullType, SMT DEF Free
<1>3. TypeOK'
  BY <1>1, SMT DEF TypeOK
<1>4. RoomStays'
  <2>1. room' = room /\ \A w \in Checking : room[w] \in 0..Size /\ room[w] <= Free
    BY DEF RoomStays, TypeOK
  <2>2. Free <= Free' /\ Free \in Nat /\ Free' \in Nat
    <3>1. \A f \in 0..Size : \A g \in 0..f :
            Size - f <= Size - g /\ Size - f \in Nat /\ Size - g \in Nat
      BY SMT
    <3>2. Size - Full <= Size - Full' /\ Size - Full \in Nat /\ Size - Full' \in Nat
      BY <1>2, <3>1
    <3> QED  BY <1>2, <3>2
  <2> QED  BY <2>1, <2>2, SMT DEF RoomStays
<1>5. NoLostWakeup'
  BY <1>1, <1>2, SMT DEF NoLostWakeup
<1>6. LevelSeen'
  BY <1>1, <1>2, SMT DEF LevelSeen, TypeOK
<1>7. PeekStays'
  BY SMT DEF PeekStays
<1> QED  BY <1>3, <1>4, <1>5, <1>6, <1>7

LEMMA InvReader ==
  ASSUME BufferInv, Reader
  PROVE  BufferInv'
<1> USE RingBufAssumption DEF BufferInv
<1>1. Full \in 0..Size /\ tail \in Places /\ buf \in [Places -> Bytes]
  BY FullType DEF TypeOK
\* Steps that read.
<1>2. ASSUME NEW cnt \in Nat, Read(cnt) PROVE Moved(cnt) /\ got' \in Seq(Bytes)
  <2>1. Min2(cnt, Full) \in 0..Size
    BY <1>1, SMT DEF Min2
  <2> QED  BY <1>1, <1>2, <2>1, CopiedType DEF Read
<1>3. CASE ReadByte
  <2>1. look' = "none" /\ UNCHANGED <<room, avail>>
    BY <1>3 DEF ReadByte, told, PeekStays
  <2> QED  BY <1>2, <1>3, <2>1, InvMoved, SMT DEF ReadByte, Go
<1>4. CASE ReadWoken
  <2>1. look' = "none" /\ UNCHANGED <<room, avail>>
    BY <1>4 DEF ReadWoken, told, PeekStays
  <2> QED  BY <1>2, <1>4, <2>1, InvMoved, SMT DEF ReadWoken, Go
<1>5. CASE Drain
  <2>1. Min2(avail, MaxRead) \in Nat
    BY SMT DEF Min2, TypeOK
  <2>2. look' = "none" /\ UNCHANGED <<room, avail>>
    BY <1>5 DEF Drain, told, PeekStays
  <2> QED  BY <1>2, <1>5, <2>1, <2>2, InvMoved DEF Drain, Go
<1>6. CASE PeekDone
  <2>1. ASSUME NEW len \in 0..Written, Moved(len) PROVE BufferInv'
    <3>1. len \in Nat
      BY SMT DEF TypeOK, Written
    <3> QED  BY <1>6, <2>1, <3>1, InvMoved DEF PeekDone, Go, TypeOK
  <2>2. CASE UNCHANGED <<store, sems>>
    <3>1. Full' = Full /\ Free' = Free
      BY <2>2 DEF store, Full, Free
    <3> QED
      BY <1>6, <2>2, <3>1
      DEF PeekDone, Go, store, sems, TypeOK, RoomStays, NoLostWakeup, LevelSeen, PeekStays
  <2> QED  BY <1>6, <2>1, <2>2 DEF PeekDone
\* Steps that only look: the buffer stays as it is.
<1>7. ASSUME UNCHANGED <<store, room>> PROVE Full' = Full /\ RoomStays'
  BY <1>7 DEF store, Full, Free, RoomStays
<1>8. CASE DrainBegin \/ DrainWoken \/ LevelAgain \/ PeekBegin
  <2>1. UNCHANGED <<store, room, sems, got>> /\ avail' = Full
        /\ (look' = "none" <=> pc' # "peek") /\ look' \in {"none", "valid"}
    BY <1>8 DEF DrainBegin, DrainWoken, LevelAgain, PeekBegin, Go, PeekStays
  <2>2. TypeOK' /\ RoomStays' /\ Full' = Full
    BY <1>1, <1>7, <2>1 DEF TypeOK, store, sems
  <2>3. pc' # "wait_byte" /\ pc' # "wait_highwater" /\ pc' # "peeked"
        /\ (pc' = "wait_drain" => Full = 0) /\ (pc' = "peek" => Full # 0)
    BY <1>8 DEF DrainBegin, DrainWoken, LevelAgain, PeekBegin, Go
  <2> QED
    BY <1>1, <2>1, <2>2, <2>3, SMT DEF sems, NoLostWakeup, LevelSeen, PeekStays
<1>9. CASE TryWait \/ Wake \/ WaitTimesOut
  <2>1. UNCHANGED <<store, room, highwater_sem, avail, got>> /\ look' = "none"
    BY <1>9 DEF TryWait, Wake, WaitTimesOut, sems, told, PeekStays
  <2>2. sem' \in 0..MaxSem
    BY <1>9, SMT DEF TryWait, Wake, WaitTimesOut, sems, TypeOK
  <2>3. TypeOK' /\ RoomStays' /\ Full' = Full
    BY <1>7, <2>1, <2>2 DEF TypeOK, store
  <2>4. pc' \in {"idle", "level", "woken_byte", "woken_drain"}
        /\ (pc' = "level" => pc = "trywait")
    BY <1>9 DEF TryWait, Wake, WaitTimesOut, Go
  <2> QED
    BY <2>1, <2>3, <2>4 DEF NoLostWakeup, LevelSeen, PeekStays
<1>10. CASE Level
  <2>1. UNCHANGED <<store, room, sem, avail, got>> /\ look' = "none"
    BY <1>10 DEF Level, told, PeekStays
  <2>2. highwater_sem' \in 0..highwater_sem
        /\ (avail < Mark => pc' = "wait_highwater" /\ highwater_sem' = highwater_sem)
        /\ (pc' = "wait_highwater" => avail < Mark /\ highwater_sem' = highwater_sem)
        /\ pc' \in {"wait_highwater", "drain"} /\ pc = "level"
    BY <1>10, SMT DEF Level, Go, TypeOK
  <2>3. TypeOK' /\ RoomStays' /\ Full' = Full
    BY <1>7, <2>1, <2>2, SMT DEF TypeOK, store
  <2> QED
    BY <1>1, <2>1, <2>2, <2>3, SMT DEF NoLostWakeup, LevelSeen, PeekStays, TypeOK
<1>11. CASE Highwater
  <2>1. UNCHANGED <<store, room, sem, avail, got>> /\ pc' = "level_again"
        /\ highwater_sem' \in 0..highwater_sem /\ look' = "none"
    BY <1>11, SMT DEF Highwater, Go, TypeOK, told, PeekStays
  <2>2. TypeOK' /\ RoomStays' /\ Full' = Full
    BY <1>7, <2>1, SMT DEF TypeOK, store
  <2> QED
    BY <1>1, <2>1, <2>2, SMT DEF NoLostWakeup, LevelSeen, PeekStays, TypeOK
<1>12. CASE PeekCopy
  <2>1. UNCHANGED <<store, room, sems, avail, look>> /\ pc = "peek" /\ pc' = "peeked"
        /\ got' = Copied(tail, Min2(avail, MaxRead))
    BY <1>12 DEF PeekCopy, Go, told
  <2>2. Min2(avail, MaxRead) \in 0..Size /\ Min2(avail, MaxRead) <= avail
    BY SMT DEF Min2, TypeOK
  <2>3. got' \in Seq(Bytes) /\ Len(got') = Min2(avail, MaxRead)
    BY <1>1, <2>1, <2>2, CopiedType
  <2>4. TypeOK' /\ RoomStays' /\ Full' = Full
    BY <1>7, <2>1, <2>3 DEF TypeOK, store, sems
  <2>5. PeekStays'
    BY <1>1, <2>1, <2>2, <2>3, <2>4, SMT DEF PeekStays, TypeOK
  <2> QED
    BY <2>1, <2>4, <2>5 DEF sems, NoLostWakeup, LevelSeen
<1> QED
  BY <1>3, <1>4, <1>5, <1>6, <1>8, <1>9, <1>10, <1>11, <1>12 DEF Reader

LEMMA InvStep ==
  ASSUME OneChecks, BufferInv, [Next]_vars
  PROVE  BufferInv'
<1> USE RingBufAssumption
<1>1. CASE Purge
  <2>1. Full' = 0 /\ Free' = Size
    BY <1>1, SMT DEF Purge, Full, Free, Fill
  <2>2. TypeOK' /\ RoomStays'
    BY <1>1, <2>1, SMT DEF Purge, reader, told, BufferInv, TypeOK, RoomStays, Places
  <2> QED
    BY <1>1, <2>1, <2>2, SMT
    DEF Purge, reader, told, BufferInv, TypeOK, NoLostWakeup, LevelSeen, PeekStays
<1>2. CASE Post
  <2>1. Full' = Full /\ Free' = Free /\ sem' = sem + 1
    BY <1>2 DEF Post, store, Full, Free
  <2>2. TypeOK' /\ RoomStays'
    BY <1>2, <2>1, SMT DEF Post, store, reader, told, BufferInv, TypeOK, RoomStays
  <2> QED
    BY <1>2, <2>1, <2>2, SMT
    DEF Post, reader, told, BufferInv, TypeOK, NoLostWakeup, LevelSeen, PeekStays
<1>3. CASE UNCHANGED vars
  BY <1>3
  DEF vars, store, sems, reader, told, BufferInv, TypeOK, RoomStays, NoLostWakeup,
      LevelSeen, PeekStays, Full, Free
<1> QED  BY <1>1, <1>2, <1>3, InvWriters, InvReader DEF Next

LEMMA Invariant == ASSUME OneChecks PROVE Spec => []BufferInv
BY InvInit, InvStep, PTL DEF Spec

---------------------------------------------------------------------------
(* What follows for the properties *)

\* The positions stay within the buffer, and the counts within their ranges:
\* pHead and pTail of ringbuf.c never run past pEnd.
THEOREM TypeCorrect == ASSUME OneChecks PROVE Spec => []TypeOK
<1>1. BufferInv => TypeOK
  BY DEF BufferInv
<1> QED  BY <1>1, Invariant, PTL

\* The free space RingBufFree() told the writer is still there when it calls
\* RingBufWrite(), which relies on it.
THEOREM RoomNeverShrinks == ASSUME OneChecks PROVE Spec => []RoomStays
<1>1. BufferInv => RoomStays
  BY DEF BufferInv
<1> QED  BY <1>1, Invariant, PTL

\* The reader never waits for the semaphore of RingBufWrite() while there is
\* data and the semaphore is at zero.
THEOREM NoWakeupLost == ASSUME OneChecks PROVE Spec => []NoLostWakeup
<1>1. BufferInv => NoLostWakeup
  BY DEF BufferInv
<1> QED  BY <1>1, Invariant, PTL

\* The highwater semaphore stands for the mark being reached, also when the
\* level was asked for before the post that the reader then waits for.
THEOREM HighwaterCorrect == ASSUME OneChecks PROVE Spec => []HighwaterRight
<1>1. BufferInv => HighwaterRight
  BY Zenon DEF BufferInv, LevelSeen, HighwaterRight
<1> QED  BY <1>1, Invariant, PTL

---------------------------------------------------------------------------
(* The buffer implements the queue *)

\* The refinement mapping of RingBuf's Queue.
queue == Copied(tail, Full)
seen == IF pc = "peeked" /\ look = "valid" THEN "seen" ELSE look

NothingExpanded == "expand" \notin Reads

RefinementInv == BufferInv /\ LookStays

QueueTyped == queue \in Seq(Bytes) /\ Len(queue) = Full /\ Full \in 0..Size

LEMMA QueueType == TypeOK => QueueTyped
BY FullType, CopiedType DEF TypeOK, queue, QueueTyped

LEMMA QueueTypeNext == TypeOK' => QueueTyped'
BY QueueType, PTL

\* A part of what is copied from position t on is what is copied from where
\* that part begins.
LEMMA SubCopied ==
  ASSUME buf \in [Places -> Bytes], NEW t \in Places, NEW n \in 0..Size,
         NEW a \in 0..n, NEW b \in a..n
  PROVE  SubSeq(Copied(t, n), a + 1, b) = Copied(Wrapped(t + a), b - a)
<1> USE RingBufAssumption
<1> DEFINE c == Copied(t, n)
           s == SubSeq(c, a + 1, b)
           u == Copied(Wrapped(t + a), b - a)
<1>1. n \in Nat /\ a \in Nat /\ b \in Nat /\ b - a \in 0..Size /\ a <= b /\ b <= n
  BY SMT
<1>2. c \in [1..n -> Bytes] /\ \A k \in 1..n : c[k] = buf[Wrapped(t + k - 1)]
  BY CopiedType DEF Copied
<1>3. Wrapped(t + a) \in Places
  BY <1>1, SMT DEF Wrapped, Places
<1>4. /\ u \in Seq(Bytes) /\ Len(u) = b - a
      /\ \A k \in 1..(b - a) : u[k] = buf[Wrapped(Wrapped(t + a) + k - 1)]
  BY <1>1, <1>3, CopiedType DEF Copied
<1>5. /\ s \in Seq(Bytes) /\ Len(s) = b - a
      /\ \A i \in 1..(b - a) : s[i] = c[a + i]
  <2>1. \A i \in a + 1 .. b : c[i] \in Bytes
    BY <1>1, <1>2, SMT
  <2>2. a + 1 \in Int /\ b \in Int
    BY <1>1, SMT
  <2>3. /\ s \in Seq(Bytes)
        /\ Len(s) = IF a + 1 <= b THEN b - (a + 1) + 1 ELSE 0
        /\ \A i \in 1 .. b - (a + 1) + 1 : s[i] = c[a + 1 + i - 1]
    BY <2>1, <2>2, SubSeqProperties
  <2>4. b - (a + 1) + 1 = b - a /\ \A i \in Int : a + 1 + i - 1 = a + i
    BY <1>1, SMT
  <2>5. Len(s) = b - a
    BY <1>1, <2>3, SMT
  <2>6. ASSUME NEW i \in 1..(b - a) PROVE s[i] = c[a + i]
    <3>1. i \in Int
      BY <1>1, SMT
    <3> QED  BY <2>3, <2>4, <3>1
  <2> QED  BY <2>3, <2>5, <2>6
<1>6. ASSUME NEW i \in 1..(b - a) PROVE s[i] = u[i]
  <2>1. a + i \in 1..n
    BY <1>1, SMT
  <2>2. Wrapped(t + (a + i) - 1) = Wrapped(Wrapped(t + a) + i - 1)
    BY <1>1, <2>1, SMT DEF Wrapped, Places
  <2> QED  BY <1>2, <1>4, <1>5, <2>1, <2>2
<1> HIDE DEF c, s, u
<1>7. s = u
  BY <1>4, <1>5, <1>6, SeqEqual
<1> QED  BY <1>7 DEF s, c, u

\* Reading n bytes: the first n of the queue, and the rest of it.
LEMMA QueueParts ==
  ASSUME TypeOK, NEW n \in 0..Full
  PROVE  /\ SubSeq(queue, 1, n) = Copied(tail, n)
         /\ SubSeq(queue, n + 1, Len(queue)) = Copied(Wrapped(tail + n), Full - n)
<1> USE RingBufAssumption
<1>1. Full \in 0..Size /\ Len(queue) = Full /\ tail \in Places /\ buf \in [Places -> Bytes]
  BY QueueType DEF TypeOK, QueueTyped
<1>2. /\ 0 \in 0..Full /\ n \in 0..Full /\ Full \in n..Full
      /\ Wrapped(tail + 0) = tail /\ n - 0 = n /\ 0 + 1 = 1
  BY <1>1, SMT DEF Wrapped, Places
<1>3. SubSeq(queue, 0 + 1, n) = Copied(Wrapped(tail + 0), n - 0)
  BY <1>1, <1>2, SubCopied DEF queue
<1>4. SubSeq(queue, n + 1, Full) = Copied(Wrapped(tail + n), Full - n)
  BY <1>1, <1>2, SubCopied DEF queue
<1> QED  BY <1>1, <1>2, <1>3, <1>4

---------------------------------------------------------------------------
(* Every step *)

\* Steps that leave the bytes in the buffer where they are.
LEMMA SameQueue ==
  ASSUME UNCHANGED store
  PROVE  queue' = queue /\ Full' = Full
BY DEF store, queue, Copied, Full, Wrapped

\* RingBufWrite() leaves the bytes that wait as they are.
LEMMA WriteKeeps ==
  ASSUME OneChecks, BufferInv, BufferInv', NEW w \in Writers, NEW src \in Sources,
         Write(w, src), NEW k \in 1..Full
  PROVE  buf'[Wrapped(tail + k - 1)] = buf[Wrapped(tail + k - 1)]
<1> USE RingBufAssumption DEF BufferInv
<1> DEFINE p == Wrapped(tail + k - 1)
           i == IF p >= head THEN p - head + 1 ELSE p - head + Size + 2
<1>1. Full + Len(src) <= Size /\ Len(src) \in Nat \ {0}
  <2>1. Len(src) \in 1..MaxWrite
    BY SourceType
  <2> QED  BY <2>1, WriteEffect, SMT
<1>2. /\ Full \in 0..Size /\ head \in 0..Size /\ tail \in 0..Size
      /\ Size \in Nat /\ k \in Nat \ {0}
      /\ buf' = [q \in Places |-> Stored(src, q)]
  BY FullType, SMT DEF Write, TypeOK, Places
<1>3. p \in Places
  BY <1>2, SMT DEF Wrapped, Places
<1>4. i > Len(src)
  <2>1. Fill(head, tail) \in k..Size /\ Fill(head, tail) + Len(src) <= Size
    BY <1>1, <1>2, SMT DEF Full
  <2>2. Len(src) \in Nat
    BY <1>1
  <2>3. CASE head >= tail
    BY <1>2, <2>1, <2>2, <2>3, SMT DEF Wrapped, Fill
  <2>4. CASE head < tail
    BY <1>2, <2>1, <2>2, <2>4, SMT DEF Wrapped, Fill
  <2> QED  BY <1>2, <2>3, <2>4, SMT
<1>5. Stored(src, p) = buf[p]
  BY <1>1, <1>2, <1>3, <1>4, SMT DEF Stored, Places
<1> QED  BY <1>2, <1>3, <1>5

\* RingBufWrite() puts its bytes behind those that wait.
LEMMA WriteIsPut ==
  ASSUME OneChecks, BufferInv, BufferInv', NEW w \in Writers, NEW src \in Sources,
         Write(w, src)
  PROVE  Queue!Put
<1> USE RingBufAssumption DEF BufferInv
<1>1. Full + Len(src) <= Size /\ Full' = Full + Len(src) /\ Len(src) \in Nat \ {0}
  <2>1. Len(src) \in 1..MaxWrite
    BY SourceType
  <2> QED  BY <2>1, WriteEffect, SMT
<1>2. queue \in Seq(Bytes) /\ Len(queue) = Full /\ Full \in 0..Size
  BY QueueType DEF QueueTyped
<1>3. queue' \in Seq(Bytes) /\ Len(queue') = Full' /\ Full' \in 0..Size
  BY QueueTypeNext DEF QueueTyped
<1>4. /\ tail' = tail /\ tail \in Places /\ head \in Places
      /\ buf' \in [Places -> Bytes] /\ buf' = [p \in Places |-> Stored(src, p)]
  BY DEF Write, TypeOK
<1>5. ASSUME NEW k \in 1..Full PROVE buf'[Wrapped(tail + k - 1)] = buf[Wrapped(tail + k - 1)]
  BY <1>5, WriteKeeps
<1>6. SubSeq(queue', 1, Full) = queue
  <2>1. \A k \in 1..Full : queue'[k] = queue[k]
    <3>1. ASSUME NEW k \in 1..Full PROVE queue'[k] = queue[k]
      <4>1. k \in 1..Full'
        BY <1>1, <1>2, SMT
      <4>2. queue'[k] = buf'[Wrapped(tail' + k - 1)] /\ queue[k] = buf[Wrapped(tail + k - 1)]
        BY <4>1 DEF queue, Copied, Wrapped
      <4> QED  BY <1>4, <1>5, <4>2
    <3> QED  BY <3>1
  <2> DEFINE s == SubSeq(queue', 1, Full)
  <2>2. \A k \in 1..Full : queue'[k] \in Bytes
    <3>1. \A k \in 1..Full : queue[k] \in Bytes
      BY <1>2, ElementOfSeq
    <3> QED  BY <2>1, <3>1
  <2>3. s \in Seq(Bytes) /\ Len(s) = Full /\ \A i \in 1..Full : s[i] = queue'[i]
    <3>1. /\ s \in Seq(Bytes)
          /\ Len(s) = IF 1 <= Full THEN Full - 1 + 1 ELSE 0
          /\ \A i \in 1 .. Full - 1 + 1 : s[i] = queue'[1 + i - 1]
      <4>1. 1 \in Int /\ Full \in Int
        BY <1>2, SMT
      <4> QED  BY <2>2, <4>1, SubSeqProperties
    <3>2. Full - 1 + 1 = Full /\ \A i \in 1..Full : 1 + i - 1 = i
      BY <1>2, SMT
    <3>3. Len(s) = Full
      BY <1>2, <3>1, SMT
    <3> QED  BY <3>1, <3>2, <3>3
  <2> HIDE DEF s
  <2>4. s = queue
    BY <1>2, <2>1, <2>3, SeqEqual
  <2> QED  BY <2>4 DEF s
<1>7. got' = got /\ seen' = seen
  BY DEF Write, reader, told, seen
<1>8. Len(queue') <= Size /\ Len(queue) < Len(queue')
  BY <1>1, <1>2, <1>3, SMT
<1> QED  BY <1>2, <1>3, <1>6, <1>7, <1>8 DEF Queue!Put, queue, seen

\* RingBufRead() takes bytes from the front.
LEMMA MovedTakes ==
  ASSUME TypeOK, NEW cnt \in Nat, Moved(cnt)
  PROVE  /\ Min2(cnt, Full) \in 0..Len(queue)
         /\ SubSeq(queue, 1, Min2(cnt, Full)) = Copied(tail, Min2(cnt, Full))
         /\ queue' = SubSeq(queue, Min2(cnt, Full) + 1, Len(queue))
<1> DEFINE n == Min2(cnt, Full)
<1>1. n \in 0..Full /\ buf' = buf /\ tail' = Wrapped(tail + n) /\ Full' = Full - n
  BY ReadEffect
<1>2. Len(queue) = Full
  BY QueueType DEF QueueTyped
<1> HIDE DEF n
<1>3. queue' = Copied(tail, Full)'
  BY DEF queue
<1>4. queue' = Copied(Wrapped(tail + n), Full - n)
  BY <1>1, <1>3 DEF Copied, Wrapped
<1>5. /\ SubSeq(queue, 1, n) = Copied(tail, n)
      /\ SubSeq(queue, n + 1, Len(queue)) = queue'
  BY <1>1, <1>4, QueueParts
<1> QED  BY <1>1, <1>2, <1>5 DEF n

\* It gives them out, ...
LEMMA MovedIsTake ==
  ASSUME TypeOK, NEW cnt \in Nat, Moved(cnt), got' = Copied(tail, Min2(cnt, Full)),
         seen = "none", seen' = "none"
  PROVE  Queue!Take
BY MovedTakes DEF Queue!Take, queue, seen

\* ... or discards them, after a peek that gave out at least as many.
LEMMA PeekDoneIsDiscard ==
  ASSUME NothingExpanded, RefinementInv, PeekDone
  PROVE  Queue!Discard
<1> USE RingBufAssumption DEF RefinementInv, BufferInv
<1>1. /\ got' = got /\ seen' = "none" /\ seen \in {"seen", "stale"}
      /\ seen = "seen" => look = "valid" /\ pc = "peeked"
      /\ got \in Seq(Bytes)
  BY DEF PeekDone, Go, seen, PeekStays, TypeOK
<1>2. queue \in Seq(Bytes) /\ Len(queue) = Full /\ Full \in 0..Size
  BY QueueType DEF QueueTyped
<1>3. SUFFICES \E n \in 0..Len(queue) :
        /\ seen = "seen" => n <= Len(got) /\ SubSeq(got, 1, n) = SubSeq(queue, 1, n)
        /\ queue' = SubSeq(queue, n + 1, Len(queue))
  BY <1>1 DEF Queue!Discard, queue, seen
<1>4. ASSUME NEW n \in 0..Full, seen = "seen", n <= Len(got)
      PROVE  SubSeq(got, 1, n) = SubSeq(queue, 1, n)
  <2> DEFINE m == Len(got)
  <2>1. m \in 0..Full /\ got = Copied(tail, m)
    BY <1>1, <1>2, <1>4, SMT DEF LookStays, PeekStays
  <2>2. /\ m \in 0..Size /\ 0 \in 0..m /\ n \in 0..m /\ n - 0 = n /\ 0 + 1 = 1
        /\ tail \in Places /\ Wrapped(tail + 0) = tail /\ buf \in [Places -> Bytes]
    BY <1>2, <1>4, <2>1, SMT DEF TypeOK, Places, Wrapped
  <2> HIDE DEF m
  <2>3. SubSeq(Copied(tail, m), 0 + 1, n) = Copied(Wrapped(tail + 0), n - 0)
    BY <2>2, SubCopied
  <2>4. SubSeq(queue, 1, n) = Copied(tail, n)
    BY <1>4, QueueParts
  <2> QED  BY <2>1, <2>2, <2>3, <2>4
<1>5. ASSUME NEW len \in 0..Written, Moved(len)
      PROVE  \E n \in 0..Len(queue) :
               /\ seen = "seen" => n <= Len(got) /\ SubSeq(got, 1, n) = SubSeq(queue, 1, n)
               /\ queue' = SubSeq(queue, n + 1, Len(queue))
  <2> DEFINE n == Min2(len, Full)
  <2>1. len \in 0..Len(got)
    BY DEF NothingExpanded, Written
  <2>2. len \in Nat /\ n \in 0..Full /\ n <= Len(got)
    BY <1>1, <1>2, <2>1, SMT DEF Min2
  <2>3. n \in 0..Len(queue) /\ queue' = SubSeq(queue, n + 1, Len(queue))
    BY <1>5, <2>2, MovedTakes
  <2> HIDE DEF n
  <2> QED  BY <1>4, <2>2, <2>3
<1>6. CASE UNCHANGED store
  <2>1. queue' = queue /\ 0 \in 0..Full /\ 0 <= Len(got)
    BY <1>1, <1>2, <1>6, SameQueue, SMT
  <2>2. SubSeq(queue, 0 + 1, Len(queue)) = queue
    BY <1>2, SMT
  <2> QED  BY <1>2, <1>4, <2>1, <2>2
<1> QED  BY <1>5, <1>6 DEF PeekDone

QueueVars == <<queue, got, seen>>

\* Looking takes two steps: the level first, then the bytes.
LEMMA PeekIsLook ==
  ASSUME BufferInv, BufferInv', PeekBegin \/ PeekCopy
  PROVE  Queue!Next \/ UNCHANGED QueueVars
<1> USE RingBufAssumption DEF BufferInv
<1>1. queue \in Seq(Bytes) /\ Len(queue) = Full /\ Full \in 0..Size
  BY QueueType DEF QueueTyped
<1>2. queue' = queue
  BY SameQueue DEF PeekBegin, PeekCopy
<1>3. CASE PeekBegin
  <2>1. seen = "none" /\ got' = got
    BY <1>3 DEF PeekBegin, seen, PeekStays
  <2>2. CASE Full = 0
    BY <1>2, <1>3, <2>1, <2>2 DEF PeekBegin, Go, seen, QueueVars
  <2>3. CASE Full # 0
    <3>1. queue # <<>> /\ seen' = "valid"
      <4>1. Len(<<>>) = 0
        OBVIOUS
      <4> QED  BY <1>1, <1>3, <2>3, <4>1 DEF PeekBegin, Go, seen
    <3>2. Queue!LookBegin
      BY <1>2, <2>1, <3>1 DEF Queue!LookBegin, queue, seen
    <3> QED  BY <3>2 DEF Queue!Next
  <2> QED  BY <2>2, <2>3
<1>4. CASE PeekCopy
  <2> DEFINE n == Min2(avail, MaxRead)
  <2>1. /\ pc = "peek" /\ pc' = "peeked" /\ got' = Copied(tail, n)
        /\ seen = look /\ look' = look /\ look \in {"valid", "stale"}
        /\ seen' = IF look = "valid" THEN "seen" ELSE look
    BY <1>4 DEF PeekCopy, Go, seen, told, TypeOK, PeekStays
  <2>2. n \in 0..Size
    BY SMT DEF Min2, TypeOK
  <2>3. CASE look = "stale"
    <3>1. got' \in Seq(Bytes) /\ Len(got') <= Size
      <4>1. Copied(tail, n) \in Seq(Bytes) /\ Len(Copied(tail, n)) = n
        BY <2>2, CopiedType DEF TypeOK
      <4> HIDE DEF n
      <4> QED  BY <2>1, <2>2, <4>1, SMT
    <3>2. Queue!LookOvertaken
      BY <1>2, <2>1, <2>3, <3>1 DEF Queue!LookOvertaken, queue, seen
    <3> QED  BY <3>2 DEF Queue!Next
  <2>4. CASE look = "valid"
    <3>1. avail \in 1..Full
      BY <2>1, <2>4 DEF PeekStays
    <3>2. n \in 1..Full
      BY <1>1, <3>1, SMT DEF Min2
    <3> HIDE DEF n
    <3>3. n \in 0..Full
      BY <1>1, <3>2, SMT
    <3>4. got' = SubSeq(queue, 1, n) /\ n \in 1..Len(queue)
      BY <1>1, <2>1, <3>2, <3>3, QueueParts
    <3>5. Queue!Look
      BY <1>2, <2>1, <2>4, <3>4 DEF Queue!Look, queue, seen
    <3> QED  BY <3>5 DEF Queue!Next
  <2> QED  BY <2>1, <2>3, <2>4
<1> QED  BY <1>3, <1>4

LEMMA ReaderStep ==
  ASSUME NothingExpanded, RefinementInv, BufferInv', Reader
  PROVE  Queue!Next \/ UNCHANGED QueueVars
<1> USE DEF RefinementInv, BufferInv
<1>1. CASE ReadByte \/ ReadWoken
  <2>1. Moved(1) /\ got' = Copied(tail, Min2(1, Full)) /\ seen = "none" /\ seen' = "none"
    BY <1>1 DEF ReadByte, ReadWoken, Read, Go, seen, told, PeekStays
  <2> QED  BY <2>1, MovedIsTake DEF Queue!Next
<1>2. CASE Drain
  <2>1. Min2(avail, MaxRead) \in Nat
    BY RingBufAssumption, SMT DEF Min2, TypeOK
  <2>2. /\ Moved(Min2(avail, MaxRead)) /\ got' = Copied(tail, Min2(Min2(avail, MaxRead), Full))
        /\ seen = "none" /\ seen' = "none"
    BY <1>2 DEF Drain, Read, Go, seen, told, PeekStays
  <2> QED  BY <2>1, <2>2, MovedIsTake DEF Queue!Next
<1>3. CASE PeekDone
  BY <1>3, PeekDoneIsDiscard DEF Queue!Next
<1>4. CASE PeekBegin \/ PeekCopy
  BY <1>4, PeekIsLook
<1>5. CASE DrainBegin \/ DrainWoken \/ LevelAgain \/ TryWait \/ Wake \/ WaitTimesOut
           \/ Level \/ Highwater
  <2>1. UNCHANGED store /\ got' = got /\ look' = look /\ pc # "peeked" /\ pc' # "peeked"
    BY <1>5 DEF DrainBegin, DrainWoken, LevelAgain, TryWait, Wake, WaitTimesOut,
                Level, Highwater, Go, told
  <2> QED  BY <2>1, SameQueue DEF seen, QueueVars
<1> QED  BY <1>1, <1>2, <1>3, <1>4, <1>5 DEF Reader

LEMMA RefinementStep ==
  ASSUME OneChecks, NothingExpanded, RefinementInv, BufferInv', [Next]_vars
  PROVE  Queue!Next \/ UNCHANGED QueueVars
<1> USE RingBufAssumption DEF RefinementInv, BufferInv
<1>1. ASSUME NEW w \in Writers, NEW src \in Sources, Write(w, src)
      PROVE  Queue!Next
  BY <1>1, WriteIsPut DEF Queue!Next
<1>2. CASE Reader
  BY <1>2, ReaderStep
<1>3. CASE Purge
  <2>1. Full' = 0
    BY <1>3, SMT DEF Purge, Full, Fill
  <2>2. queue' = <<>>
    <3>1. queue' \in Seq(Bytes) /\ Len(queue') = 0
      BY <2>1, QueueTypeNext DEF QueueTyped
    <3> QED  BY <3>1, EmptySeq
  <2>3. got' = got /\ seen' = IF seen = "none" THEN "none" ELSE "stale"
    BY <1>3 DEF Purge, seen, PeekStays
  <2>4. Queue!Purge
    BY <2>2, <2>3 DEF Queue!Purge, queue, seen
  <2> QED  BY <2>4 DEF Queue!Next
<1>4. ASSUME NEW w \in Writers, AskFree(w) \/ WriteNothing(w)
      PROVE  UNCHANGED QueueVars
  BY <1>4, SameQueue DEF AskFree, WriteNothing, reader, told, seen, QueueVars
<1>5. CASE Post \/ UNCHANGED vars
  BY <1>5, SameQueue DEF Post, vars, reader, told, seen, QueueVars
<1> QED  BY <1>1, <1>2, <1>3, <1>4, <1>5 DEF Next

\* What a peek copied stays at the front of the buffer until it is read or purged.
LEMMA LookStep ==
  ASSUME OneChecks, RefinementInv, BufferInv', [Next]_vars
  PROVE  LookStays'
<1> USE RingBufAssumption DEF RefinementInv, BufferInv
<1>1. SUFFICES ASSUME pc' = "peeked", look' = "valid"
               PROVE  got' = Copied(tail, Len(got))'
  BY DEF LookStays
<1>2. ASSUME NEW w \in Writers, NEW src \in Sources, Write(w, src)
      PROVE  got' = Copied(tail, Len(got))'
  <2>1. /\ got' = got /\ tail' = tail /\ got = Copied(tail, Len(got))
        /\ Len(got) \in 0..Full
    BY <1>1, <1>2, SMT DEF Write, reader, told, LookStays, PeekStays, TypeOK
  <2>2. ASSUME NEW k \in 1..Len(got)
        PROVE  buf'[Wrapped(tail + k - 1)] = buf[Wrapped(tail + k - 1)]
    <3>1. k \in 1..Full
      BY <2>1, FullType, SMT
    <3> QED  BY <1>2, <3>1, WriteKeeps
  <2>3. Copied(tail, Len(got))' = Copied(tail, Len(got))
    BY <2>1, <2>2 DEF Copied, Wrapped
  <2> QED  BY <2>1, <2>3
<1>3. CASE Reader
  <2>1. PeekCopy
    BY <1>1, <1>3 DEF Reader, ReadByte, ReadWoken, DrainBegin, TryWait, Wake, WaitTimesOut,
       DrainWoken, Level, Highwater, LevelAgain, Drain, PeekBegin, PeekDone, Go
  <2>2. UNCHANGED store /\ got' = Copied(tail, Min2(avail, MaxRead))
    BY <2>1 DEF PeekCopy
  <2>3. Min2(avail, MaxRead) \in 0..Size
    BY SMT DEF Min2, TypeOK
  <2>4. Len(got') = Min2(avail, MaxRead)
    BY <2>2, <2>3, CopiedType DEF TypeOK
  <2> QED  BY <2>2, <2>4 DEF store, Copied, Wrapped
<1>4. CASE Purge
  BY <1>1, <1>4 DEF Purge
<1>5. CASE UNCHANGED <<store, pc, got, look>>
  BY <1>1, <1>5 DEF store, LookStays, Copied, Wrapped
<1>6. ASSUME NEW w \in Writers, AskFree(w) \/ WriteNothing(w)
      PROVE  UNCHANGED <<store, pc, got, look>>
  BY <1>6 DEF AskFree, WriteNothing, reader, told
<1>7. CASE Post \/ UNCHANGED vars
  BY <1>5, <1>7 DEF Post, vars, reader, told
<1> QED  BY <1>2, <1>3, <1>4, <1>5, <1>6, <1>7 DEF Next

LEMMA RefinementInvariant == ASSUME OneChecks PROVE Spec => []RefinementInv
<1>1. Init => LookStays
  BY DEF Init, LookStays
<1>2. RefinementInv /\ BufferInv' /\ [Next]_vars => LookStays'
  BY LookStep
<1> QED  BY <1>1, <1>2, Invariant, PTL DEF Spec, RefinementInv

\* The buffer between a socket and a session is a queue: ringbuf.c gives out
\* every byte once and in order, whatever its two ends, the purges and the peeks
\* of a program do in between, if its writer asks for the free space first, and
\* no more is discarded after a peek than was peeked.
THEOREM ImplementsQueue == ASSUME OneChecks, NothingExpanded PROVE Spec => IsQueue
<1>1. Init => Queue!Init
  <2> SUFFICES ASSUME Init PROVE Queue!Init
    OBVIOUS
  <2>1. TypeOK /\ Full = 0
    BY InvInit, RingBufAssumption, SMT DEF BufferInv, Init, Full, Fill
  <2>2. queue \in Seq(Bytes) /\ Len(queue) = 0
    BY <2>1, QueueType DEF QueueTyped
  <2>3. queue = <<>>
    BY <2>2, EmptySeq
  <2> QED  BY <2>3 DEF Init, Queue!Init, queue
<1>2. RefinementInv /\ RefinementInv' /\ [Next]_vars => [Queue!Next]_QueueVars
  BY RefinementStep DEF RefinementInv
<1>3. Spec => []RefinementInv
  BY RefinementInvariant
<1> QED  BY <1>1, <1>2, <1>3, PTL DEF Spec, IsQueue, Queue!Spec, QueueVars, queue, seen
=============================================================================
