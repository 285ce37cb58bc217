------------------------------ MODULE RingBuf ------------------------------
(***************************************************************************)
(* The ring buffer between a node's socket and its session (ringbuf.c):    *)
(* inbuf, filled by input_thread() and emptied by sbbs_t::incom(), and     *)
(* outbuf, filled by sbbs_t::outcom() and emptied by output_thread().      *)
(* Programs run by a node peek into inbuf (sbbs_t::external).              *)
(*                                                                         *)
(* Every function of ringbuf.c holds the buffer's mutex for what it does,  *)
(* and is one action; a caller that asks for the free space or the fill    *)
(* level first, and writes or reads then, is two.  The semaphores are      *)
(* waited for outside the mutex.                                           *)
(***************************************************************************)
EXTENDS Integers, Sequences

CONSTANTS
  Bytes,
  Size,          \* capacity; the buffer has one byte more
  Writers,
  Checking,      \* the writers that ask for the free space first
  MaxWrite,      \* bound on the bytes of one write
  MaxRead,       \* bound on the bytes of one read: the linear buffer, or the MSS
  Mark,          \* highwater_mark, or 0
  Reads,         \* what the reader does: "byte", "drain", "peek", and "expand"
                 \* if what it peeks at is expanded
  MaxSem         \* bound on a semaphore's count

ASSUME RingBufAssumption ==
  /\ Size \in Nat \ {0}
  /\ Checking \subseteq Writers
  /\ MaxWrite \in 1..Size /\ MaxRead \in Nat \ {0}
  /\ Mark \in 0..Size /\ MaxSem \in Nat

VARIABLES
  buf,             \* pStart .. pEnd
  head,            \* pHead - pStart: where the next byte is written
  tail,            \* pTail - pStart: where the next byte is read
  sem,             \* data is waiting
  highwater_sem,   \* the highwater mark is reached
  room,            \* the free space a writer has been told, or 0
  pc,              \* where the reader is
  avail,           \* the fill level the reader has been told
  got,             \* the bytes the last read gave it
  look             \* history: a look is under way ("valid"), overtaken by a
                   \* purge ("stale"), or "none"

store == <<buf, head, tail>>
sems == <<sem, highwater_sem>>
told == <<avail, look>>
reader == <<pc, told, got>>
vars == <<store, sems, room, reader>>

Places == 0..Size

\* RINGBUF_FILL_LEVEL
Fill(h, t) == IF h >= t THEN h - t ELSE Size - (t - (h + 1))

Full == Fill(head, tail)
Free == Size - Full

\* Mistake: the wrap comes one byte early.
Wrapped_Early(p) == IF p >= Size THEN p - Size ELSE p

\* A position that runs past pEnd goes on at pStart.
Wrapped(p) == IF p > Size THEN p - (Size + 1) ELSE p

\* The n bytes from position p on.
Copied(p, n) == [k \in 1..n |-> buf[Wrapped(p + k - 1)]]

Init ==
  /\ buf \in {[p \in Places |-> b] : b \in Bytes}
  /\ head = 0 /\ tail = 0
  /\ sem = 0 /\ highwater_sem = 0
  /\ room = [w \in Writers |-> 0]
  /\ pc = "idle" /\ avail = 0 /\ got = <<>> /\ look = "none"

---------------------------------------------------------------------------
(* Writing *)

\* RingBufFree()
AskFree(w) ==
  /\ w \in Checking /\ room[w] = 0
  /\ room' = [room EXCEPT ![w] = Free]
  /\ UNCHANGED <<store, sems, reader>>

\* Mistake: the level is compared before the bytes are in.
HighwaterPost_Before(h) ==
  IF Mark # 0 /\ Full >= Mark THEN highwater_sem + 1 ELSE highwater_sem

\* The post of highwater_sem when head has moved to h.
HighwaterPost(h) ==
  IF Mark # 0 /\ Fill(h, tail) >= Mark THEN highwater_sem + 1 ELSE highwater_sem

\* Mistake: a single byte is not announced.
DataPost_PastOne(h) == IF Fill(h, tail) > 1 THEN sem + 1 ELSE sem

\* The post of sem.
DataPost(h) == sem + 1

\* What position p holds when src has been written from head on.
Stored(src, p) ==
  LET k == IF p >= head THEN p - head + 1 ELSE p - head + Size + 2
  IN  IF k <= Len(src) THEN src[k] ELSE buf[p]

\* RingBufWrite(): it assumes that there is room.
Write(w, src) ==
  /\ w \in Checking => Len(src) <= room[w]
  /\ sem < MaxSem /\ highwater_sem < MaxSem
  /\ buf' = [p \in Places |-> Stored(src, p)]
  /\ head' = Wrapped(head + Len(src))
  /\ sem' = DataPost(head')
  /\ highwater_sem' = HighwaterPost(head')
  /\ room' = [room EXCEPT ![w] = 0]
  /\ UNCHANGED <<tail, reader>>

\* The writer has nothing to write, after all.
WriteNothing(w) ==
  /\ room[w] > 0
  /\ room' = [room EXCEPT ![w] = 0]
  /\ UNCHANGED <<store, sems, reader>>

---------------------------------------------------------------------------
(* Reading *)

Min2(m, n) == IF m < n THEN m ELSE n

\* sem_reset() of the semaphores whose condition does not hold any more.
Reset(level) ==
  /\ sem' = IF level = 0 THEN 0 ELSE sem
  /\ highwater_sem' = IF level < Mark THEN 0 ELSE highwater_sem

\* RingBufRead() of at most cnt bytes.
Moved(cnt) ==
  /\ tail' = Wrapped(tail + Min2(cnt, Full))
  /\ Reset(Fill(head, tail'))
  /\ UNCHANGED <<buf, head>>

Read(cnt) == Moved(cnt) /\ got' = Copied(tail, Min2(cnt, Full))

Go(place) == pc' = place

\* incom(): a byte, if there is one; it waits for one otherwise.
ReadByte ==
  /\ "byte" \in Reads /\ pc = "idle"
  /\ Read(1)
  /\ Go(IF Full = 0 THEN "wait_byte" ELSE "idle")
  /\ UNCHANGED <<room, told>>

\* output_thread(): whatever there is.
DrainBegin ==
  /\ "drain" \in Reads /\ pc = "idle"
  /\ avail' = Full /\ UNCHANGED look
  /\ Go(IF Full = 0 THEN "wait_drain" ELSE "trywait")
  /\ UNCHANGED <<store, sems, room, got>>

TryWait ==
  /\ pc = "trywait"
  /\ sem' = IF sem > 0 THEN sem - 1 ELSE 0
  /\ Go("level")
  /\ UNCHANGED <<store, highwater_sem, room, told, got>>

\* sem_trywait_block() returns with the semaphore ...
Wake ==
  /\ sem > 0
  /\ \/ pc = "wait_byte" /\ Go("woken_byte")
     \/ pc = "wait_drain" /\ Go("woken_drain")
  /\ sem' = sem - 1
  /\ UNCHANGED <<store, highwater_sem, room, told, got>>

\* ... or without it: NOINP, or another turn of the loop.
WaitTimesOut ==
  /\ pc \in {"wait_byte", "wait_drain"}
  /\ Go("idle")
  /\ UNCHANGED <<store, sems, room, told, got>>

ReadWoken ==
  /\ pc = "woken_byte"
  /\ Read(1)
  /\ Go("idle")
  /\ UNCHANGED <<room, told>>

DrainWoken ==
  /\ pc = "woken_drain"
  /\ avail' = Full /\ UNCHANGED look
  /\ Go(IF Full = 0 THEN "idle" ELSE "level")
  /\ UNCHANGED <<store, sems, room, got>>

\* The reader waits for the highwater mark, or goes on if it is reached.
Level ==
  /\ pc = "level"
  /\ \/ Mark # 0 /\ avail < Mark /\ Go("wait_highwater") /\ UNCHANGED highwater_sem
     \/ /\ Mark # 0 /\ avail >= Mark /\ Go("drain")
        /\ highwater_sem' = IF highwater_sem > 0 THEN highwater_sem - 1 ELSE 0
     \/ Mark = 0 /\ Go("drain") /\ UNCHANGED highwater_sem
  /\ UNCHANGED <<store, sem, room, told, got>>

\* Mistake: there is no timeout.
Highwater_Forever ==
  /\ pc = "wait_highwater"
  /\ highwater_sem > 0 /\ highwater_sem' = highwater_sem - 1
  /\ Go("level_again")
  /\ UNCHANGED <<store, sem, room, told, got>>

\* sem_trywait_block() of highwater_sem, with the drain timeout.
Highwater ==
  /\ pc = "wait_highwater"
  /\ \/ highwater_sem > 0 /\ highwater_sem' = highwater_sem - 1
     \/ UNCHANGED highwater_sem
  /\ Go("level_again")
  /\ UNCHANGED <<store, sem, room, told, got>>

LevelAgain ==
  /\ pc = "level_again"
  /\ avail' = Full /\ UNCHANGED look
  /\ Go("drain")
  /\ UNCHANGED <<store, sems, room, got>>

Drain ==
  /\ pc = "drain"
  /\ Read(Min2(avail, MaxRead))
  /\ Go("idle")
  /\ UNCHANGED <<room, told>>

\* RingBufPeek() takes the fill level, gives the mutex up, takes it again and
\* copies.
PeekBegin ==
  /\ "peek" \in Reads /\ pc = "idle"
  /\ avail' = Full
  /\ look' = IF Full = 0 THEN "none" ELSE "valid"
  /\ Go(IF Full = 0 THEN "idle" ELSE "peek")
  /\ UNCHANGED <<store, sems, room, got>>

PeekCopy ==
  /\ pc = "peek"
  /\ got' = Copied(tail, Min2(avail, MaxRead))
  /\ Go("peeked")
  /\ UNCHANGED <<store, sems, room, told>>

\* The most the program may be written for what it was given: cr_expand() adds a
\* line feed to a carriage return, for programs that use pipes.
Written == IF "expand" \in Reads THEN 2 * Len(got) ELSE Len(got)

\* RingBufRead(NULL) of the bytes written to the program, if the write succeeded.
PeekDone ==
  /\ pc = "peeked"
  /\ \/ \E len \in 0..Written : Moved(len)
     \/ UNCHANGED <<store, sems>>
  /\ Go("idle")
  /\ look' = "none"
  /\ UNCHANGED <<room, avail, got>>

---------------------------------------------------------------------------
(* Other threads *)

\* RingBufReInit(): Ctrl-C, or the session, purges the buffer.
Purge ==
  /\ head' = 0 /\ tail' = 0
  /\ sem' = 0 /\ highwater_sem' = 0
  /\ look' = IF look = "none" THEN "none" ELSE "stale"
  /\ UNCHANGED <<buf, room, pc, avail, got>>

\* sem_post() by hangup(), and by input_thread() after a Ctrl-C: no data.
Post ==
  /\ sem < MaxSem
  /\ sem' = sem + 1
  /\ UNCHANGED <<store, highwater_sem, room, reader>>

Sources == UNION {[1..n -> Bytes] : n \in 1..MaxWrite}

Reader ==
  \/ ReadByte \/ ReadWoken \/ DrainBegin \/ TryWait \/ Wake \/ WaitTimesOut
  \/ DrainWoken \/ Level \/ Highwater \/ LevelAgain \/ Drain
  \/ PeekBegin \/ PeekCopy \/ PeekDone

Next ==
  \/ \E w \in Writers :
       AskFree(w) \/ WriteNothing(w) \/ \E src \in Sources : Write(w, src)
  \/ Reader \/ Purge \/ Post

Spec == Init /\ [][Next]_vars

\* The reader's thread keeps running, and its waits have a time limit.
FairSpec == Spec /\ WF_vars(Reader)

---------------------------------------------------------------------------
(* Properties *)

\* The positions stay within the buffer, the counts and levels within the bounds.
TypeOK ==
  /\ buf \in [Places -> Bytes]
  /\ head \in Places /\ tail \in Places
  /\ sem \in 0..MaxSem /\ highwater_sem \in 0..MaxSem
  /\ room \in [Writers -> 0..Size]
  /\ avail \in 0..Size /\ got \in Seq(Bytes) /\ look \in {"none", "valid", "stale"}

\* A writer that was told of free space still finds it when it writes, whatever
\* the reader and the purges do in between.
RoomStays == \A w \in Checking : room[w] <= Free

\* A reader that waits for data does not miss it: whenever there is some, the
\* semaphore is posted, and stays so.
NoLostWakeup ==
  pc \in {"wait_byte", "wait_drain"} /\ Full > 0 => sem > 0

\* The highwater semaphore is posted only while the buffer is filled to the
\* mark, and is posted if the reader waits for it and the mark is reached.
HighwaterRight ==
  /\ highwater_sem > 0 => Full >= Mark
  /\ pc = "wait_highwater" /\ Full >= Mark => highwater_sem > 0

\* The buffer implements the queue.
Queue == INSTANCE ByteQueue
  WITH queue <- Copied(tail, Full),
       look  <- IF pc = "peeked" /\ look = "valid" THEN "seen" ELSE look

IsQueue == Queue!Spec

\* What is in the buffer is read or purged, below the highwater mark as well,
\* by a reader that does not look at it for ever without taking it.
Moves ==
  <>[](pc # "peek") =>
    \A t \in Places : (Full > 0 /\ tail = t) ~> (tail # t \/ Full = 0)

---------------------------------------------------------------------------
(* The inductive invariant behind the safety properties *)

\* A reader that found the level below the mark does not miss the post that
\* follows when the mark is reached, also while it is not waiting yet.
LevelSeen ==
  /\ highwater_sem > 0 => Full >= Mark
  /\ pc = "wait_highwater" => avail < Mark
  /\ pc \in {"trywait", "level", "wait_highwater"} /\ avail < Mark /\ Full >= Mark
       => highwater_sem > 0

\* What a peek counted, and what it copied, is still in the buffer, unless a
\* purge came in between.
PeekStays ==
  /\ look = "none" <=> pc \notin {"peek", "peeked"}
  /\ pc = "peek" /\ look = "valid" => avail \in 1..Full
  /\ pc = "peeked" /\ look = "valid" => Len(got) <= Full

\* What a peek copied is what a read would give, until something is read.
LookStays == pc = "peeked" /\ look = "valid" => got = Copied(tail, Len(got))

BufferInv == TypeOK /\ RoomStays /\ NoLostWakeup /\ LevelSeen /\ PeekStays
=============================================================================
