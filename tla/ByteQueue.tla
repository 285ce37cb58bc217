----------------------------- MODULE ByteQueue -----------------------------
(***************************************************************************)
(* What the input and output buffers of a node promise: bytes come out in  *)
(* the order they went in, each one once, and none is lost unless the      *)
(* buffer is purged.  Looking at what is waiting takes two steps, and what *)
(* is discarded after it was looked at; if the buffer is purged meanwhile, *)
(* the look is worth nothing.                                              *)
(***************************************************************************)
EXTENDS Naturals, Sequences

CONSTANTS
  Bytes,
  Size      \* the most bytes it holds

VARIABLES
  queue,    \* the bytes waiting
  got,      \* the bytes the last read or look returned
  look      \* "none"; a look is under way ("valid"), done ("seen"), or was
            \* overtaken by a purge ("stale")

Init == queue = <<>> /\ got = <<>> /\ look = "none"

Put ==
  /\ queue' \in Seq(Bytes) /\ Len(queue') <= Size
  /\ Len(queue) < Len(queue') /\ SubSeq(queue', 1, Len(queue)) = queue
  /\ UNCHANGED <<got, look>>

Take ==
  /\ look = "none"
  /\ \E n \in 0..Len(queue) :
       /\ got' = SubSeq(queue, 1, n)
       /\ queue' = SubSeq(queue, n + 1, Len(queue))
  /\ UNCHANGED look

LookBegin ==
  /\ look = "none" /\ queue # <<>>
  /\ look' = "valid"
  /\ UNCHANGED <<queue, got>>

Look ==
  /\ look = "valid" /\ \E n \in 1..Len(queue) : got' = SubSeq(queue, 1, n)
  /\ look' = "seen"
  /\ UNCHANGED queue

LookOvertaken ==
  /\ look = "stale" /\ got' \in Seq(Bytes) /\ Len(got') <= Size
  /\ UNCHANGED <<queue, look>>

\* Of what was looked at, and of nothing else, unless the look was overtaken.
Discard ==
  /\ look \in {"seen", "stale"}
  /\ \E n \in 0..Len(queue) :
       /\ look = "seen" => n <= Len(got) /\ SubSeq(got, 1, n) = SubSeq(queue, 1, n)
       /\ queue' = SubSeq(queue, n + 1, Len(queue))
  /\ look' = "none"
  /\ UNCHANGED got

Purge ==
  /\ queue' = <<>>
  /\ look' = IF look = "none" THEN "none" ELSE "stale"
  /\ UNCHANGED got

Next == Put \/ Take \/ LookBegin \/ Look \/ LookOvertaken \/ Discard \/ Purge

Spec == Init /\ [][Next]_<<queue, got, look>>
=============================================================================
