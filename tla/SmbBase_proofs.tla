--------------------------- MODULE SmbBase_proofs ---------------------------
(***************************************************************************)
(* Proofs about a message base in use by several sessions: types; exclusion*)
(* by the base lock and the header locks; numbers given once; the records  *)
(* of the index, the headers they lead to and the messages they stand for; *)
(* the links of the threads of messages.                                   *)
(***************************************************************************)
EXTENDS SmbBase, FiniteSetTheorems, SequenceTheorems, TLAPS

---------------------------------------------------------------------------
(* Records picked from the index *)

\* f lists the places in ascending order.
Lists(f, places) ==
  /\ f \in [1..Cardinality(places) -> places]
  /\ \A j, k \in 1..Cardinality(places) : j < k => f[j] < f[k]
  /\ \A i \in places : \E j \in 1..Cardinality(places) : f[j] = i

LEMMA PlacesListed ==
  ASSUME NEW n \in Nat, NEW places \in SUBSET (1..n)
  PROVE  /\ Cardinality(places) \in Nat
         /\ Lists([j \in 1..Cardinality(places) |-> Place(places, j)], places)
<1> DEFINE N == Cardinality(places)
           UpTo(i) == {k \in places : k <= i}
           rank == [i \in places |-> Cardinality(UpTo(i))]
           f == [j \in 1..N |-> Place(places, j)]
<1>1. IsFiniteSet(places) /\ N \in Nat
  <2>1. IsFiniteSet(1..n) BY FS_Interval
  <2>2. IsFiniteSet(places) BY <2>1, FS_Subset
  <2> QED BY <2>2, FS_CardinalityType
<1>2. ASSUME NEW i \in places
      PROVE  IsFiniteSet(UpTo(i)) /\ Cardinality(UpTo(i)) \in 1..N
  <2>1. UpTo(i) \in SUBSET places /\ UpTo(i) # {} OBVIOUS
  <2>2. IsFiniteSet(UpTo(i)) /\ Cardinality(UpTo(i)) <= N BY <1>1, <2>1, FS_Subset
  <2>3. Cardinality(UpTo(i)) \in Nat /\ Cardinality(UpTo(i)) # 0
    BY <2>1, <2>2, FS_CardinalityType, FS_EmptySet
  <2> QED BY <1>1, <2>2, <2>3
<1>3. ASSUME NEW i \in places, NEW k \in places, i < k PROVE rank[i] < rank[k]
  <2>1. UpTo(i) \in SUBSET UpTo(k) /\ UpTo(i) # UpTo(k)
    <3>1. ASSUME NEW x \in UpTo(i) PROVE x \in UpTo(k)
      <4>1. x \in 1..n /\ i \in 1..n /\ k \in 1..n /\ x <= i BY <3>1
      <4> QED BY <3>1, <4>1, <1>3
    <3>2. k \in UpTo(k) /\ k \notin UpTo(i) BY <1>3
    <3> QED BY <3>1, <3>2
  <2>2. Cardinality(UpTo(i)) <= Cardinality(UpTo(k)) /\ Cardinality(UpTo(i)) # Cardinality(UpTo(k))
    <3> HIDE DEF UpTo
    <3> QED BY <1>2, <2>1, FS_Subset
  <2> QED BY <1>2, <2>2
<1>4. rank \in Injection(places, 1..N)
  <2>1. rank \in [places -> 1..N] BY <1>2
  <2>2. ASSUME NEW i \in places, NEW k \in places, i # k PROVE rank[i] # rank[k]
    <3> HIDE DEF rank
    <3>1. rank[i] \in Nat /\ rank[k] \in Nat BY <2>1
    <3>2. i < k \/ k < i BY <2>2
    <3> QED BY <1>3, <3>1, <3>2
  <2> HIDE DEF rank
  <2> QED BY <2>1, <2>2 DEF Injection, IsInjective
<1>5. rank \in Surjection(places, 1..N)
  <2>1. IsFiniteSet(1..N) /\ Cardinality(1..N) = N
    BY <1>1, FS_Interval
  <2> HIDE DEF rank, N
  <2>2. Cardinality(places) = Cardinality(1..N) BY <2>1 DEF N
  <2> QED BY <1>4, <2>1, <2>2, FS_Injection
<1>6. ASSUME NEW j \in 1..N PROVE f[j] \in places /\ rank[f[j]] = j
  <2>1. \E i \in places : rank[i] = j BY <1>5 DEF Surjection
  <2>2. Place(places, j) \in places /\ Cardinality(UpTo(Place(places, j))) = j
    BY <2>1 DEF Place
  <2> QED BY <2>2
<1> HIDE DEF rank
<1>7. f \in [1..N -> places] BY <1>6
<1>8. ASSUME NEW j \in 1..N, NEW k \in 1..N, j < k PROVE f[j] < f[k]
  <2> HIDE DEF f
  <2>1. f[j] \in 1..n /\ f[k] \in 1..n /\ rank[f[j]] = j /\ rank[f[k]] = k BY <1>6
  <2>2. f[j] # f[k] BY <2>1, <1>8
  <2>3. ~(f[k] < f[j])
    <3> SUFFICES ASSUME f[k] < f[j] PROVE FALSE OBVIOUS
    <3>1. rank[f[k]] < rank[f[j]] BY <1>3, <1>6
    <3> QED BY <2>1, <3>1, <1>8
  <2> QED BY <2>1, <2>2, <2>3
<1>9. ASSUME NEW i \in places PROVE \E j \in 1..N : f[j] = i
  <2> HIDE DEF f
  <2>1. rank[i] \in 1..N BY <1>4 DEF Injection
  <2>2. f[rank[i]] \in places /\ rank[f[rank[i]]] = rank[i] BY <1>6, <2>1
  <2>3. f[rank[i]] = i BY <1>4, <2>2 DEF Injection, IsInjective
  <2> QED BY <2>1, <2>3
<1> HIDE DEF f, N
<1>10. Lists(f, places) BY <1>7, <1>8, <1>9 DEF Lists, N
<1> QED BY <1>1, <1>10 DEF f, N

\* What is picked are the records at the places, in order.
Picks(recs, f, places, S) ==
  /\ recs \in Seq(S) /\ Len(recs) = Cardinality(places) /\ Len(recs) \in Nat
  /\ Lists(f, places)
  /\ \A j \in 1..Len(recs) : recs[j] = sid[f[j]]

LEMMA RecordsPicked ==
  ASSUME NEW S, sid \in Seq(S), NEW places \in SUBSET (DOMAIN sid)
  PROVE  \E f : Picks(RecordsAt(places), f, places, S)
<1>1. Len(sid) \in Nat /\ DOMAIN sid = 1..Len(sid) OBVIOUS
<1> DEFINE N == Cardinality(places)
           f == [j \in 1..N |-> Place(places, j)]
<1>2. N \in Nat /\ Lists(f, places) BY <1>1, PlacesListed
<1>3. \A j \in 1..N : f[j] \in DOMAIN sid BY <1>2 DEF Lists
<1>4. \A j \in 1..N : sid[f[j]] \in S BY <1>1, <1>3
<1>5. RecordsAt(places) = [j \in 1..N |-> sid[f[j]]] BY DEF RecordsAt
<1> HIDE DEF N, f
<1>6. RecordsAt(places) \in [1..N -> S] BY <1>4, <1>5
<1>7. RecordsAt(places) \in Seq(S) /\ Len(RecordsAt(places)) = N BY <1>2, <1>5, <1>6
<1> QED BY <1>2, <1>5, <1>7 DEF Picks, N


---------------------------------------------------------------------------
(* Types *)

OpNames == {None, "post", "reply", "update", "load", "put_header", "purge", "kill"}

MemType == [op : OpNames, wanted : 0..MaxNumber, slot : 0..(MaxNumber + 1), offset : 0..MaxHdrs,
            hdr : Header, script : Header, status : Status,
            kept : Seq(IdxRec), dead : Seq(IdxRec)]

\* Where a session is in an operation, and in which.
Replying == {"thread", "link", "linked"}
Adding   == {"alloc", "index", "commit"}
Editing  == {"find", "found", "read", "written"}
Purging  == {"free", "truncated", "rewritten", "counted"}

PcOf(s) ==
  \/ pc[s] = "idle"
  \/ mem[s].op = "reply" /\ pc[s] \in Replying
  \/ mem[s].op \in {"post", "reply"} /\ pc[s] \in {"post"} \union Adding
  \/ mem[s].op \in {"update", "load", "put_header", "kill"} /\ pc[s] \in Editing
  \/ mem[s].op = "purge" /\ pc[s] = "purge"
  \/ mem[s].op = "kill" /\ pc[s] = "kill"
  \/ mem[s].op \in {"purge", "kill"} /\ pc[s] \in Purging

\* A header has been written there: its number is never 0 again.
Written(o) == o \in Offsets /\ shd[o].number # 0

SessionOK(s) ==
  LET m == mem[s] IN
  /\ PcOf(s) /\ (pc[s] # "idle" => m.op \in Ops)
  /\ pc[s] \in Replying => m.status.last_msg < MaxNumber
  /\ pc[s] \in {"link", "linked"} => m.offset \in Offsets
  /\ pc[s] \in Adding => m.hdr.number \in Numbers /\ m.slot \in 1..m.hdr.number
  /\ pc[s] \in {"index", "commit"} => Written(m.offset)
  /\ pc[s] \in {"found", "read", "written"} => Written(m.offset) /\ m.slot \in Numbers
  /\ pc[s] \in {"read", "written"} => m.hdr.number # 0
  /\ pc[s] \in Purging =>
       /\ Len(m.kept) <= m.status.total_msgs /\ m.status.total_msgs <= m.status.last_msg
       /\ \A i \in DOMAIN m.kept : Written(m.kept[i].offset)

FilesOK ==
  /\ status \in Status /\ status.total_msgs <= status.last_msg
  /\ sid \in Seq(IdxRec) /\ Len(sid) <= MaxNumber
  /\ \A i \in DOMAIN sid : Written(sid[i].offset)
  /\ shd \in [Offsets -> Header] /\ sha \subseteq Offsets
  /\ posted \subseteq Numbers /\ purged \subseteq Numbers /\ torn \in BOOLEAN

LocksOK ==
  /\ fcntl \in [Regions -> {Proc[s] : s \in Sessions} \union {None}]
  /\ flock \in Sessions \union {None}

TypeInv ==
  /\ scene \in Scenes /\ FilesOK /\ LocksOK
  /\ mem \in [Sessions -> MemType] /\ pc = [s \in Sessions |-> pc[s]]
  /\ \A s \in Sessions : SessionOK(s)

\* The invariant has the types the property states.
LEMMA TypesFollow == TypeInv => TypeOK
<1> SUFFICES ASSUME TypeInv PROVE TypeOK OBVIOUS
<1>1. \A s \in Sessions : mem[s] \in MemType BY DEF TypeInv
<1>2. \A s \in Sessions : mem[s].slot \in 0..(MaxNumber + 1) /\ mem[s].status \in Status
  BY <1>1 DEF MemType
<1> QED BY <1>2 DEF TypeInv, TypeOK, FilesOK, LocksOK

LEMMA SceneTypes ==
  ASSUME TypeInv
  PROVE  MaxHdrs \in Nat /\ MaxNumber \in Nat /\ \A s \in Sessions : Proc[s] # None
BY SmbBaseAssumption DEF TypeInv, MaxHdrs, Proc

LEMMA NoMemTyped == ASSUME TypeInv PROVE NoMem \in MemType /\ NoHeader \in Header
BY SceneTypes DEF NoMem, NoHeader, MemType, Header, Status, OpNames

---------------------------------------------------------------------------
(* Steps of a session *)

\* The session is at another place, or remembers something else; no other one is touched.
Moved(s, place, m) ==
  /\ pc' = [t \in Sessions |-> IF t = s THEN place ELSE pc[t]]
  /\ mem' = [t \in Sessions |-> IF t = s THEN m ELSE mem[t]]

LEMMA Moves ==
  ASSUME TypeInv, NEW s \in Sessions, NEW place, NEW m
  PROVE  /\ Go(s, place) /\ Remember(s, m) => Moved(s, place, m)
         /\ Go(s, place) /\ UNCHANGED mem => Moved(s, place, mem[s])
         /\ UNCHANGED pc /\ Remember(s, m) => Moved(s, pc[s], m)
         /\ Done(s) => Moved(s, "idle", NoMem)
         /\ UNCHANGED <<pc, mem>> => Moved(s, pc[s], mem[s])
BY DEF TypeInv, Go, Remember, Done, Moved

\* No header written becomes unwritten.
WrittenStay == \A o \in Offsets : shd[o].number # 0 => shd'[o].number # 0

LEMMA OthersOK ==
  ASSUME TypeInv, scene' = scene, WrittenStay, NEW t \in Sessions, SessionOK(t),
         pc'[t] = pc[t], mem'[t] = mem[t]
  PROVE  SessionOK(t)'
<1>1. Offsets' = Offsets /\ Ops' = Ops /\ Numbers' = Numbers BY DEF Offsets, MaxHdrs, Ops
<1>2. \A o : Written(o) => Written(o)' BY <1>1 DEF Written, WrittenStay
<1>3. PcOf(t)' BY DEF SessionOK, PcOf
<1> QED BY <1>1, <1>2, <1>3 DEF SessionOK

LEMMA TypeStep ==
  ASSUME TypeInv, scene' = scene, FilesOK', LocksOK', WrittenStay,
         NEW s \in Sessions, NEW place, NEW m \in MemType, Moved(s, place, m), SessionOK(s)'
  PROVE  TypeInv'
<1>1. pc' = [t \in Sessions |-> pc'[t]] BY DEF Moved
<1>2. mem' \in [Sessions -> MemType'] BY DEF TypeInv, Moved, MemType, MaxHdrs, IdxRec, Offsets
<1>3. ASSUME NEW t \in Sessions PROVE SessionOK(t)'
  <2>1. CASE t = s BY <2>1
  <2>2. CASE t # s
    <3>1. pc'[t] = pc[t] /\ mem'[t] = mem[t] BY <2>2 DEF Moved
    <3> QED BY <3>1, OthersOK DEF TypeInv
  <2> QED BY <2>1, <2>2
<1> QED BY <1>1, <1>2, <1>3 DEF TypeInv

\* Nothing is written to the files.
LEMMA FilesSame ==
  ASSUME TypeInv, UNCHANGED <<files, history>>
  PROVE  scene' = scene /\ FilesOK' /\ WrittenStay
<1>1. UNCHANGED <<status, sid, shd, sha, posted, purged, torn, scene>> BY DEF files, history
<1> QED BY <1>1 DEF TypeInv, FilesOK, WrittenStay, Written, Offsets, MaxHdrs, IdxRec, Header, Status

---------------------------------------------------------------------------
(* Locks *)

LEMMA LocksTyped ==
  ASSUME TypeInv, scene' = scene, NEW s \in Sessions
  PROVE  /\ \A r \in Regions : Lock(s, r) => LocksOK'
         /\ \A rs : Unlock(s, rs) => LocksOK'
         /\ UNCHANGED locks => LocksOK'
<1> USE DEF TypeInv, LocksOK
<1>1. UNCHANGED <<Regions, Proc>> BY DEF Regions, MaxHdrs, Proc
<1>2. ASSUME NEW r \in Regions, Lock(s, r) PROVE LocksOK' BY <1>1, <1>2 DEF Lock
<1>3. ASSUME NEW rs, Unlock(s, rs) PROVE LocksOK' BY <1>1, <1>3 DEF Unlock
<1>4. ASSUME UNCHANGED locks PROVE LocksOK' BY <1>1, <1>4 DEF locks
<1> QED BY <1>2, <1>3, <1>4

---------------------------------------------------------------------------
(* Each action keeps the types *)

LEMMA FilesKept ==
  ASSUME TypeInv, UNCHANGED <<files, history>>, LocksOK',
         NEW s \in Sessions, NEW place, NEW m \in MemType, Moved(s, place, m), SessionOK(s)'
  PROVE  TypeInv'
BY FilesSame, TypeStep

\* What the session's place asks of what it remembers, when the files stay the same.
Fits(s, place, m) ==
  /\ place # "idle" => m.op \in Ops
  /\ \/ place = "idle"
     \/ m.op = "reply" /\ place \in Replying
     \/ m.op \in {"post", "reply"} /\ place \in {"post"} \union Adding
     \/ m.op \in {"update", "load", "put_header", "kill"} /\ place \in Editing
     \/ m.op = "purge" /\ place = "purge"
     \/ m.op = "kill" /\ place = "kill"
     \/ m.op \in {"purge", "kill"} /\ place \in Purging
  /\ place \in Replying => m.status.last_msg < MaxNumber
  /\ place \in {"link", "linked"} => m.offset \in Offsets
  /\ place \in Adding => m.hdr.number \in Numbers /\ m.slot \in 1..m.hdr.number
  /\ place \in {"index", "commit"} => Written(m.offset)
  /\ place \in {"found", "read", "written"} => Written(m.offset) /\ m.slot \in Numbers
  /\ place \in {"read", "written"} => m.hdr.number # 0
  /\ place \in Purging =>
       /\ Len(m.kept) <= m.status.total_msgs /\ m.status.total_msgs <= m.status.last_msg
       /\ \A i \in DOMAIN m.kept : Written(m.kept[i].offset)

LEMMA Fitting ==
  ASSUME TypeInv, scene' = scene, WrittenStay,
         NEW s \in Sessions, NEW place, NEW m, Moved(s, place, m), Fits(s, place, m)
  PROVE  SessionOK(s)'
<1>1. pc'[s] = place /\ mem'[s] = m BY DEF Moved
<1>2. Offsets' = Offsets /\ Ops' = Ops /\ Numbers' = Numbers BY DEF Offsets, MaxHdrs, Ops
<1>3. \A o : Written(o) => Written(o)' BY <1>2 DEF Written, WrittenStay
<1> QED BY <1>1, <1>2, <1>3 DEF SessionOK, PcOf, Fits

LEMMA FitsNow == ASSUME TypeInv, NEW s \in Sessions PROVE Fits(s, pc[s], mem[s])
BY DEF TypeInv, SessionOK, PcOf, Fits

LEMMA FitsIdle == ASSUME NEW s, NEW m PROVE Fits(s, "idle", m)
BY DEF Fits, Replying, Adding, Editing, Purging

\* The files stay, and the session goes where it fits.
LEMMA FilesStay ==
  ASSUME TypeInv, UNCHANGED <<files, history>>, LocksOK',
         NEW s \in Sessions, NEW place, NEW m \in MemType, Moved(s, place, m), Fits(s, place, m)
  PROVE  TypeInv'
<1>1. scene' = scene /\ WrittenStay BY FilesSame
<1>2. SessionOK(s)' BY <1>1, Fitting
<1> QED BY <1>2, FilesKept

LEMMA DoneTyped ==
  ASSUME TypeInv, UNCHANGED <<files, history>>, LocksOK', NEW s \in Sessions, Done(s)
  PROVE  TypeInv'
<1>1. Moved(s, "idle", NoMem) /\ NoMem \in MemType BY Moves, NoMemTyped
<1> QED BY <1>1, FilesStay, FitsIdle

LEMMA RegionsTyped == ASSUME TypeInv PROVE 0 \in Regions /\ Offsets \subseteq Regions
BY SceneTypes DEF Regions, Offsets

LEMMA UnchangedTyped ==
  ASSUME TypeInv, NEW s \in Sessions, UNCHANGED history
  PROVE  /\ \A r \in Regions : Lock(s, r) => LocksOK'
         /\ \A rs : Unlock(s, rs) => LocksOK'
         /\ UNCHANGED locks => LocksOK'
BY LocksTyped DEF history

LEMMA MemTyped == ASSUME TypeInv, NEW s \in Sessions PROVE mem[s] \in MemType
BY DEF TypeInv

\* A session remembers something else.
LEMMA MemChanged ==
  ASSUME TypeInv, NEW m \in MemType
  PROVE  /\ \A o \in Offsets : [m EXCEPT !.offset = o] \in MemType
         /\ \A h \in Header : [m EXCEPT !.hdr = h] \in MemType
         /\ \A op \in OpNames, st \in Status, n \in 0..MaxNumber, h \in Header :
              [m EXCEPT !.op = op, !.status = st, !.wanted = n, !.hdr = h] \in MemType
<1>1. \A o \in Offsets : o \in 0..MaxHdrs BY SceneTypes DEF Offsets
<1>2. ASSUME NEW o \in Offsets PROVE [m EXCEPT !.offset = o] \in MemType
  BY <1>1 DEF MemType
<1>3. ASSUME NEW h \in Header PROVE [m EXCEPT !.hdr = h] \in MemType
  BY DEF MemType
<1>4. ASSUME NEW op \in OpNames, NEW st \in Status, NEW n \in 0..MaxNumber, NEW h \in Header
      PROVE  [m EXCEPT !.op = op, !.status = st, !.wanted = n, !.hdr = h] \in MemType
  BY DEF MemType
<1> QED BY <1>2, <1>3, <1>4

LEMMA PostLockTyped ==
  ASSUME TypeInv, NEW s \in Sessions, NEW op \in {"post", "reply"}, NEW back \in 0..MaxNumber,
         PostLock(s, op, back)
  PROVE  TypeInv'
<1> DEFINE m == [NoMem EXCEPT !.op = op, !.status = status, !.wanted = back,
                               !.hdr = [NoHeader EXCEPT !.thread_back = back]]
           place == IF op = "reply" THEN "thread" ELSE "post"
<1>1. op \in Ops /\ UNCHANGED <<files, history>> /\ Moved(s, place, m) /\ status.last_msg < MaxNumber
  BY Moves DEF PostLock
<1>2. LocksOK' BY <1>1, UnchangedTyped, RegionsTyped DEF PostLock
<1>3. m \in MemType
  <2>1. status \in Status BY DEF TypeInv, FilesOK
  <2>2. [NoHeader EXCEPT !.thread_back = back] \in Header BY NoMemTyped DEF Header
  <2>3. op \in OpNames /\ NoMem \in MemType BY NoMemTyped DEF OpNames
  <2> QED BY <2>1, <2>2, <2>3, MemChanged
<1>4. m.op = op /\ m.status = status BY DEF NoMem
<1>5. Fits(s, place, m)
  <2> HIDE DEF m
  <2> QED BY <1>1, <1>4 DEF Fits, Replying, Adding, Editing, Purging
<1> HIDE DEF m, place
<1> QED BY <1>1, <1>2, <1>3, <1>5, FilesStay

LEMMA RecordTyped ==
  ASSUME TypeInv, NEW i \in DOMAIN sid
  PROVE  /\ sid[i] \in IdxRec /\ i \in Numbers /\ Written(sid[i].offset)
         /\ sid[i].offset \in Offsets /\ sid[i].number \in Numbers
         /\ shd[sid[i].offset] \in Header
<1>1. sid \in Seq(IdxRec) /\ Len(sid) <= MaxNumber /\ Written(sid[i].offset)
  BY DEF TypeInv, FilesOK
<1>2. sid[i] \in IdxRec /\ i \in Numbers BY <1>1, SceneTypes DEF Numbers
<1> QED BY <1>1, <1>2 DEF IdxRec, TypeInv, FilesOK

LEMMA ThreadFindTyped ==
  ASSUME TypeInv, NEW s \in Sessions, ThreadFind(s)
  PROVE  TypeInv'
<1>1. UNCHANGED <<files, history, locks>> /\ pc[s] = "thread" BY DEF ThreadFind
<1>2. LocksOK' BY <1>1, UnchangedTyped
<1>3. mem[s].op = "reply" /\ mem[s].op \in Ops /\ mem[s].status.last_msg < MaxNumber
  BY <1>1, FitsNow DEF Fits, Replying, Adding, Editing, Purging
<1>4. CASE Remember(s, mem[s]) /\ Go(s, "post")
  <2>1. Moved(s, "post", mem[s]) BY <1>4, Moves
  <2>2. Fits(s, "post", mem[s]) BY <1>3 DEF Fits, Replying, Adding, Editing, Purging
  <2> QED BY <1>1, <1>2, <2>1, <2>2, MemTyped, FilesStay
<1>5. ASSUME NEW i \in DOMAIN sid, Remember(s, [mem[s] EXCEPT !.offset = sid[i].offset]), Go(s, "link")
      PROVE  TypeInv'
  <2> DEFINE m == [mem[s] EXCEPT !.offset = sid[i].offset]
  <2>1. Moved(s, "link", m) BY <1>5, Moves
  <2>2. sid[i].offset \in Offsets BY RecordTyped
  <2>3. m \in MemType BY <2>2, MemTyped, MemChanged
  <2>4. m.op = "reply" /\ m.status = mem[s].status /\ m.offset = sid[i].offset
    BY <1>3, MemTyped DEF MemType
  <2> HIDE DEF m
  <2>5. Fits(s, "link", m)
    BY <1>3, <2>2, <2>4 DEF Fits, Replying, Adding, Editing, Purging
  <2> QED BY <1>1, <1>2, <2>1, <2>3, <2>5, FilesStay
<1>6. ASSUME NEW n, NEW i \in Record(n), Remember(s, [mem[s] EXCEPT !.offset = sid[i].offset]),
             Go(s, "link")
      PROVE  TypeInv'
  BY <1>5, <1>6 DEF Record
<1>7. \/ Remember(s, mem[s]) /\ Go(s, "post")
      \/ \E n : \E i \in Record(n) :
           Remember(s, [mem[s] EXCEPT !.offset = sid[i].offset]) /\ Go(s, "link")
  BY DEF ThreadFind
<1> QED BY <1>4, <1>6, <1>7

LEMMA HeaderWritten ==
  ASSUME TypeInv, NEW o \in Offsets, NEW h \in Header, h.number = 0 => shd[o].number = 0,
         shd' = [shd EXCEPT ![o] = h], UNCHANGED <<status, sid, history>>, sha' \subseteq Offsets
  PROVE  FilesOK' /\ WrittenStay /\ scene' = scene
<1>1. shd \in [Offsets -> Header] BY DEF TypeInv, FilesOK
<1>2. UNCHANGED <<posted, purged, torn, scene>> BY DEF history
<1>3. UNCHANGED <<Offsets, Numbers, Header, IdxRec, Status>>
  BY <1>2 DEF Offsets, MaxHdrs, Header, IdxRec
<1>4. shd' \in [Offsets -> Header] BY <1>1
<1>5. WrittenStay BY <1>1, SceneTypes DEF WrittenStay, Header
<1>6. \A p : Written(p) => Written(p)' BY <1>3, <1>5 DEF Written, WrittenStay
<1> QED BY <1>2, <1>3, <1>4, <1>5, <1>6 DEF TypeInv, FilesOK

LEMMA ThreadLockTyped ==
  ASSUME TypeInv, NEW s \in Sessions, ThreadLock(s)
  PROVE  TypeInv'
<1>1. pc[s] = "link" /\ Lock(s, mem[s].offset) /\ UNCHANGED <<files, history>>
  /\ Moved(s, "linked", mem[s])
  BY Moves DEF ThreadLock
<1>2. Fits(s, "link", mem[s]) BY <1>1, FitsNow
<1>3. mem[s].offset \in Offsets BY <1>2 DEF Fits
<1>4. LocksOK' BY <1>1, <1>3, RegionsTyped, UnchangedTyped
<1>5. Fits(s, "linked", mem[s])
  BY <1>2 DEF Fits, Replying, Adding, Editing, Purging
<1> QED BY <1>1, <1>4, <1>5, MemTyped, FilesStay

\* The header a session links from, with the link.
Linked(s) ==
  LET h == shd[mem[s].offset]
      n == mem[s].status.last_msg + 1
  IN  IF h.number = mem[s].wanted THEN [h EXCEPT !.thread_first = n]
      ELSE [h EXCEPT !.thread_next = n]

LEMMA ThreadLinkTyped ==
  ASSUME TypeInv, NEW s \in Sessions, ThreadLink(s)
  PROVE  /\ TypeInv'
         /\ mem[s].offset \in Offsets /\ Linked(s) \in Header
         /\ Linked(s).number = shd[mem[s].offset].number
         /\ Linked(s).deleted = shd[mem[s].offset].deleted
         /\ shd' = [shd EXCEPT ![mem[s].offset] = Linked(s)]
<1> DEFINE o == mem[s].offset
<1>1. pc[s] = "linked" /\ Unlock(s, {o}) /\ UNCHANGED <<status, sid, sha, history>>
  /\ Moved(s, "post", mem[s])
  BY Moves DEF ThreadLink
<1>2. Fits(s, "linked", mem[s]) BY <1>1, FitsNow
<1>3. o \in Offsets /\ mem[s].status.last_msg < MaxNumber
  BY <1>2 DEF Fits, Replying
<1>4. shd \in [Offsets -> Header] /\ sha \subseteq Offsets BY DEF TypeInv, FilesOK
<1>5. mem[s].status.last_msg + 1 \in 0..MaxNumber
  BY <1>3, MemTyped, SceneTypes DEF MemType, Status
<1>6. Linked(s) \in Header /\ Linked(s).number = shd[o].number
      /\ Linked(s).deleted = shd[o].deleted
  <2> DEFINE h == shd[o]
  <2>1. h \in Header BY <1>3, <1>4
  <2> HIDE DEF h
  <2>2. ASSUME NEW n \in 0..MaxNumber
        PROVE  /\ [h EXCEPT !.thread_first = n] \in Header /\ [h EXCEPT !.thread_next = n] \in Header
               /\ [h EXCEPT !.thread_first = n].number = h.number
               /\ [h EXCEPT !.thread_next = n].number = h.number
               /\ [h EXCEPT !.thread_first = n].deleted = h.deleted
               /\ [h EXCEPT !.thread_next = n].deleted = h.deleted
    BY <2>1 DEF Header
  <2>3. Linked(s) = IF h.number = mem[s].wanted
                    THEN [h EXCEPT !.thread_first = mem[s].status.last_msg + 1]
                    ELSE [h EXCEPT !.thread_next = mem[s].status.last_msg + 1]
    BY DEF Linked, h
  <2> QED BY <1>5, <2>2, <2>3 DEF h
<1>7. shd' = [shd EXCEPT ![o] = Linked(s)] BY DEF ThreadLink, Linked
<1>8. FilesOK' /\ WrittenStay /\ scene' = scene BY <1>1, <1>3, <1>4, <1>6, <1>7, HeaderWritten
<1>9. LocksOK' BY <1>1, UnchangedTyped
<1>10. Fits(s, "post", mem[s])
  BY <1>2 DEF Fits, Replying, Adding, Editing, Purging
<1>11. SessionOK(s)' BY <1>1, <1>8, <1>10, Fitting
<1>12. TypeInv' BY <1>1, <1>8, <1>9, <1>11, MemTyped, TypeStep
<1> QED BY <1>3, <1>6, <1>7, <1>12

LEMMA FailsTyped ==
  ASSUME TypeInv, NEW s \in Sessions, PostFails(s) \/ PostIndexFails(s)
  PROVE  TypeInv'
<1>1. Unlock(s, {0}) /\ UNCHANGED <<files, history>> /\ Done(s) BY DEF PostFails, PostIndexFails
<1>2. LocksOK' BY <1>1, UnchangedTyped
<1> QED BY <1>1, <1>2, DoneTyped

LEMMA PostStatusIs ==
  ASSUME TypeInv, NEW s \in Sessions, PostStatus(s)
  PROVE  /\ pc[s] = "post" /\ UNCHANGED <<files, locks, history>> /\ status.last_msg < MaxNumber
         /\ Moved(s, "alloc", mem'[s]) /\ mem'[s] \in MemType /\ mem'[s].op = mem[s].op
         /\ mem'[s].slot = status.total_msgs + 1 /\ mem'[s].hdr.number = status.last_msg + 1
         /\ mem'[s].slot \in 1..mem'[s].hdr.number /\ mem'[s].hdr.number \in Numbers
<1> DEFINE k == mem[s]
           slot == status.total_msgs + 1
           n == status.last_msg + 1
           m == [k EXCEPT !.status = status, !.slot = slot, !.hdr.number = n]
<1>1. pc[s] = "post" /\ UNCHANGED <<files, locks, history>> /\ Moved(s, "alloc", m)
      /\ status.last_msg < MaxNumber
  BY Moves DEF PostStatus
<1>2. mem'[s] = m BY <1>1 DEF Moved
<1>3. status \in Status /\ status.total_msgs <= status.last_msg BY DEF TypeInv, FilesOK
<1>4. n \in Numbers /\ slot \in 1..n /\ slot \in 0..(MaxNumber + 1) /\ n \in 0..MaxNumber
  BY <1>1, <1>3, SceneTypes DEF Status, Numbers
<1>5. k \in MemType BY MemTyped
<1> HIDE DEF k, slot, n
<1>6. m \in MemType /\ m.op = k.op /\ m.slot = slot /\ m.hdr.number = n
  BY <1>3, <1>4, <1>5 DEF MemType, Header
<1> HIDE DEF m
<1> QED BY <1>1, <1>2, <1>4, <1>6 DEF k, slot, n

LEMMA PostStatusTyped ==
  ASSUME TypeInv, NEW s \in Sessions, PostStatus(s)
  PROVE  TypeInv'
<1>1. pc[s] = "post" /\ UNCHANGED <<files, locks, history>> BY PostStatusIs
<1>2. LocksOK' BY <1>1, UnchangedTyped
<1>3. Fits(s, "post", mem[s]) BY <1>1, FitsNow
<1> DEFINE m == mem'[s]
<1>4. /\ Moved(s, "alloc", m) /\ m \in MemType /\ m.op = mem[s].op
      /\ m.slot \in 1..m.hdr.number /\ m.hdr.number \in Numbers
  BY PostStatusIs
<1> HIDE DEF m
<1>5. Fits(s, "alloc", m)
  BY <1>3, <1>4 DEF Fits, Replying, Adding, Editing, Purging
<1> QED BY <1>1, <1>2, <1>4, <1>5, FilesStay

LEMMA PostHeaderIs ==
  ASSUME TypeInv, NEW s \in Sessions, PostHeader(s)
  PROVE  /\ pc[s] = "alloc" /\ UNCHANGED <<status, sid, locks, history>>
         /\ Moved(s, "index", mem'[s]) /\ mem'[s] \in MemType /\ mem'[s].op = mem[s].op
         /\ mem'[s].slot = mem[s].slot /\ mem'[s].hdr = mem[s].hdr
         /\ mem'[s].offset \in Offsets \ sha /\ sha' = sha \union {mem'[s].offset}
         /\ shd' = [shd EXCEPT ![mem'[s].offset] = mem[s].hdr]
         /\ mem[s].hdr \in Header
<1>1. PICK o \in Offsets \ sha :
        /\ sha' = sha \union {o}
        /\ shd' = [shd EXCEPT ![o] = mem[s].hdr]
        /\ Remember(s, [mem[s] EXCEPT !.offset = o])
  BY DEF PostHeader
<1> DEFINE m == [mem[s] EXCEPT !.offset = o]
<1>2. pc[s] = "alloc" /\ UNCHANGED <<status, sid, locks, history>> /\ Moved(s, "index", m)
  BY <1>1, Moves DEF PostHeader
<1>3. mem'[s] = m BY <1>2 DEF Moved
<1>4. m \in MemType BY MemTyped, MemChanged
<1>5. m.op = mem[s].op /\ m.slot = mem[s].slot /\ m.hdr = mem[s].hdr /\ m.offset = o
      /\ mem[s].hdr \in Header
  BY MemTyped DEF MemType
<1> HIDE DEF m
<1> QED BY <1>1, <1>2, <1>3, <1>4, <1>5

LEMMA PostHeaderTyped ==
  ASSUME TypeInv, NEW s \in Sessions, PostHeader(s)
  PROVE  TypeInv'
<1> DEFINE m == mem'[s]
           o == m.offset
<1>1. /\ pc[s] = "alloc" /\ UNCHANGED <<status, sid, locks, history>>
      /\ Moved(s, "index", m) /\ m \in MemType /\ m.op = mem[s].op
      /\ m.slot = mem[s].slot /\ m.hdr = mem[s].hdr /\ mem[s].hdr \in Header
  BY PostHeaderIs
<1>2. o \in Offsets \ sha /\ sha' = sha \union {o} /\ shd' = [shd EXCEPT ![o] = mem[s].hdr]
  BY PostHeaderIs
<1>3. pc'[s] = "index" BY <1>1 DEF Moved
<1> HIDE DEF o
<1>4. Fits(s, "alloc", mem[s]) BY <1>1, FitsNow
<1>5. mem[s].hdr.number \in Numbers /\ mem[s].slot \in 1..mem[s].hdr.number
  BY <1>4 DEF Fits, Adding
<1>6. mem[s].hdr.number # 0 BY <1>5 DEF Numbers
<1>7. sha' \subseteq Offsets BY <1>2 DEF TypeInv, FilesOK
<1>8. FilesOK' /\ WrittenStay /\ scene' = scene BY <1>1, <1>2, <1>6, <1>7, HeaderWritten
<1>9. LocksOK' BY <1>1, UnchangedTyped
<1>10. o \in Offsets /\ shd'[o].number # 0
  <2>1. shd \in [Offsets -> Header] BY DEF TypeInv, FilesOK
  <2> QED BY <1>2, <1>6, <2>1
<1>11. SessionOK(s)'
  <2>1. UNCHANGED <<Ops, Offsets, Numbers>> BY <1>8 DEF Ops, Offsets, MaxHdrs
  <2>2. m.op \in Ops /\ m.op \in {"post", "reply"}
    BY <1>1, <1>4 DEF Fits, Replying, Adding, Editing, Purging
  <2>3. Written(mem[s].offset)' BY <1>10, <2>1 DEF Written, o
  <2>4. m = mem'[s] OBVIOUS
  <2> HIDE DEF m
  <2> QED BY <1>1, <1>3, <1>5, <2>1, <2>2, <2>3, <2>4
      DEF SessionOK, PcOf, Replying, Adding, Editing, Purging
<1> QED BY <1>1, <1>8, <1>9, <1>11, TypeStep

\* A record put in its slot, or at the end.
LEMMA PutIs ==
  ASSUME TypeInv, NEW i \in Numbers, NEW rec \in IdxRec, Put(i, rec)
  PROVE  /\ sid' \in Seq(IdxRec) /\ i \in DOMAIN sid'
         /\ Len(sid') = (IF i <= Len(sid) THEN Len(sid) ELSE Len(sid) + 1)
         /\ Len(sid') <= MaxNumber /\ i <= Len(sid) + 1
         /\ \A j \in DOMAIN sid' : sid'[j] = IF j = i THEN rec ELSE sid[j]
         /\ \A j \in DOMAIN sid' : j # i => j \in DOMAIN sid
         /\ \A j \in DOMAIN sid : j \in DOMAIN sid'
<1>1. sid \in Seq(IdxRec) /\ Len(sid) <= MaxNumber BY DEF TypeInv, FilesOK
<1>2. i \in 1..MaxNumber /\ i <= Len(sid) + 1 BY DEF Numbers, Put
<1>3. CASE i <= Len(sid)
  <2>1. sid' = [sid EXCEPT ![i] = rec] BY <1>3 DEF Put
  <2> QED BY <1>1, <1>2, <1>3, <2>1
<1>4. CASE ~(i <= Len(sid))
  <2>1. sid' = Append(sid, rec) /\ i = Len(sid) + 1 BY <1>1, <1>2, <1>4 DEF Put
  <2> QED BY <1>1, <1>2, <2>1, SceneTypes
<1> QED BY <1>3, <1>4

LEMMA IndexTyped ==
  ASSUME TypeInv, sid' \in Seq(IdxRec), Len(sid') <= MaxNumber,
         \A i \in DOMAIN sid' : Written(sid'[i].offset), UNCHANGED <<status, shd, sha, history>>
  PROVE  FilesOK' /\ WrittenStay /\ scene' = scene
<1>1. UNCHANGED <<posted, purged, torn, scene>> BY DEF history
<1>2. UNCHANGED <<Offsets, Numbers, Header, IdxRec, Status>>
  BY <1>1 DEF Offsets, MaxHdrs, Header, IdxRec
<1>3. \A p : Written(p)' <=> Written(p) BY <1>2 DEF Written
<1> QED BY <1>1, <1>2, <1>3 DEF TypeInv, FilesOK, WrittenStay

LEMMA PutTyped ==
  ASSUME TypeInv, NEW i \in Numbers, NEW rec \in IdxRec, Written(rec.offset), Put(i, rec),
         UNCHANGED <<status, shd, sha, history>>
  PROVE  FilesOK' /\ WrittenStay /\ scene' = scene
<1>1. \A j \in DOMAIN sid' : Written(sid'[j].offset)
  <2> TAKE j \in DOMAIN sid'
  <2>1. CASE j = i BY <2>1, PutIs
  <2>2. CASE j # i
    <3>1. sid'[j] = sid[j] /\ j \in DOMAIN sid BY <2>2, PutIs
    <3> QED BY <3>1, RecordTyped
  <2> QED BY <2>1, <2>2
<1>2. sid' \in Seq(IdxRec) /\ Len(sid') <= MaxNumber BY PutIs
<1> QED BY <1>1, <1>2, IndexTyped

LEMMA RecordForTyped ==
  ASSUME TypeInv, NEW s \in Sessions, mem[s].hdr.number # 0, Written(mem[s].offset)
  PROVE  /\ RecordFor(mem[s]) \in IdxRec /\ Written(RecordFor(mem[s]).offset)
         /\ RecordFor(mem[s]).number = mem[s].hdr.number
         /\ RecordFor(mem[s]).offset = mem[s].offset
         /\ RecordFor(mem[s]).deleted = mem[s].hdr.deleted
<1>1. mem[s].hdr \in Header BY MemTyped DEF MemType
<1>2. mem[s].hdr.number \in Numbers /\ mem[s].hdr.deleted \in BOOLEAN
  BY <1>1, SceneTypes DEF Header, Numbers
<1> QED BY <1>2 DEF RecordFor, IdxRec, Written

LEMMA PostIndexTyped ==
  ASSUME TypeInv, NEW s \in Sessions, PostIndex(s)
  PROVE  TypeInv'
<1>1. pc[s] = "index" /\ Put(mem[s].slot, RecordFor(mem[s]))
      /\ UNCHANGED <<status, shd, sha, locks, history>> /\ Moved(s, "commit", mem[s])
  BY Moves DEF PostIndex
<1>2. Fits(s, "index", mem[s]) BY <1>1, FitsNow
<1>3. mem[s].slot \in Numbers /\ mem[s].hdr.number # 0 /\ Written(mem[s].offset)
  BY <1>2, SceneTypes DEF Fits, Adding, Numbers
<1>4. RecordFor(mem[s]) \in IdxRec /\ Written(RecordFor(mem[s]).offset) BY <1>3, RecordForTyped
<1>5. FilesOK' /\ WrittenStay /\ scene' = scene BY <1>1, <1>3, <1>4, PutTyped
<1>6. LocksOK' BY <1>1, UnchangedTyped
<1>7. Fits(s, "commit", mem[s]) BY <1>2 DEF Fits, Replying, Adding, Editing, Purging
<1>8. SessionOK(s)' BY <1>1, <1>5, <1>7, Fitting
<1> QED BY <1>1, <1>5, <1>6, <1>8, MemTyped, TypeStep

LEMMA PostCommitTyped ==
  ASSUME TypeInv, NEW s \in Sessions, PostCommit(s)
  PROVE  TypeInv'
<1>1. pc[s] = "commit" /\ Unlock(s, {0}) /\ Moved(s, "idle", NoMem)
      /\ status' = [last_msg |-> mem[s].hdr.number, total_msgs |-> mem[s].slot]
      /\ posted' = posted \union {mem[s].hdr.number}
      /\ UNCHANGED <<sid, shd, sha, purged, torn, scene>>
  BY Moves DEF PostCommit
<1>2. Fits(s, "commit", mem[s]) BY <1>1, FitsNow
<1>3. mem[s].hdr.number \in Numbers /\ mem[s].slot \in 1..mem[s].hdr.number
  BY <1>2 DEF Fits, Adding
<1>4. status' \in Status /\ status'.total_msgs <= status'.last_msg
  BY <1>1, <1>3, SceneTypes DEF Status, Numbers
<1>5. posted' \subseteq Numbers BY <1>1, <1>3 DEF TypeInv, FilesOK
<1>6. UNCHANGED <<Offsets, Numbers, Header, IdxRec, Status>>
  BY <1>1 DEF Offsets, MaxHdrs, Header, IdxRec
<1>7. FilesOK' BY <1>1, <1>4, <1>5, <1>6 DEF TypeInv, FilesOK, Written
<1>8. WrittenStay BY <1>1 DEF WrittenStay
<1>9. LocksOK' BY <1>1, LocksTyped
<1>10. SessionOK(s)' BY <1>1, <1>8, FitsIdle, Fitting
<1> QED BY <1>1, <1>7, <1>8, <1>9, <1>10, NoMemTyped, TypeStep

\* A session begins an operation, the base locked or not.
LEMMA BeginTyped ==
  ASSUME TypeInv, NEW s \in Sessions, NEW place, NEW m \in MemType, m.op \in Ops,
         \/ m.op \in {"update", "load", "put_header", "kill"} /\ place = "find"
         \/ m.op \in {"purge", "kill"} /\ place = m.op,
         Moved(s, place, m), LocksOK', UNCHANGED <<files, history>>
  PROVE  TypeInv'
<1>1. Fits(s, place, m) BY DEF Fits, Replying, Adding, Editing, Purging
<1> QED BY <1>1, FilesStay

LEMMA BeginForms ==
  ASSUME TypeInv, NEW op \in OpNames, NEW n \in 0..MaxNumber, NEW h \in Header
  PROVE  /\ [NoMem EXCEPT !.op = op] \in MemType /\ [NoMem EXCEPT !.op = op].op = op
         /\ [NoMem EXCEPT !.op = op, !.wanted = n] \in MemType
         /\ [NoMem EXCEPT !.op = op, !.wanted = n].op = op
         /\ [NoMem EXCEPT !.op = op, !.wanted = n, !.script = h] \in MemType
         /\ [NoMem EXCEPT !.op = op, !.wanted = n, !.script = h].op = op
<1>1. NoMem \in MemType BY NoMemTyped
<1>2. /\ [NoMem EXCEPT !.op = op] \in MemType /\ [NoMem EXCEPT !.op = op].op = op
  BY <1>1 DEF MemType
<1>3. /\ [NoMem EXCEPT !.op = op, !.wanted = n] \in MemType
      /\ [NoMem EXCEPT !.op = op, !.wanted = n].op = op
  BY <1>1 DEF MemType
<1>4. /\ [NoMem EXCEPT !.op = op, !.wanted = n, !.script = h] \in MemType
      /\ [NoMem EXCEPT !.op = op, !.wanted = n, !.script = h].op = op
  BY <1>1 DEF MemType
<1> QED BY <1>2, <1>3, <1>4

LEMMA LockersTyped ==
  ASSUME TypeInv, NEW s \in Sessions,
         (\E n \in posted : UpdateLock(s, n)) \/ PurgeLock(s) \/ KillLock(s)
  PROVE  TypeInv'
<1>1. Lock(s, 0) /\ UNCHANGED <<files, history>> BY DEF UpdateLock, PurgeLock, KillLock
<1>2. LocksOK' BY <1>1, RegionsTyped, UnchangedTyped
<1>3. posted \subseteq 0..MaxNumber BY SceneTypes DEF TypeInv, FilesOK, Numbers
<1>4. 0 \in 0..MaxNumber BY SceneTypes
<1>5. ASSUME NEW n \in posted, UpdateLock(s, n) PROVE TypeInv'
  <2> DEFINE m == [NoMem EXCEPT !.op = "update", !.wanted = n]
  <2>1. Moved(s, "find", m) /\ "update" \in OpNames /\ "update" \in Ops
    BY <1>5, Moves DEF UpdateLock, OpNames
  <2>2. m \in MemType /\ m.op = "update" BY <1>3, <1>4, <2>1, NoMemTyped, BeginForms
  <2> HIDE DEF m
  <2> QED BY <1>1, <1>2, <2>1, <2>2, BeginTyped
<1>6. ASSUME PurgeLock(s) PROVE TypeInv'
  <2> DEFINE m == [NoMem EXCEPT !.op = "purge"]
  <2>1. Moved(s, "purge", m) /\ "purge" \in OpNames /\ "purge" \in Ops
    BY <1>6, Moves DEF PurgeLock, OpNames
  <2>2. m \in MemType /\ m.op = "purge" BY <1>3, <1>4, <2>1, NoMemTyped, BeginForms
  <2> HIDE DEF m
  <2> QED BY <1>1, <1>2, <2>1, <2>2, BeginTyped
<1>7. ASSUME KillLock(s) PROVE TypeInv'
  <2> DEFINE m == [NoMem EXCEPT !.op = "kill"]
  <2>1. Moved(s, "kill", m) /\ "kill" \in OpNames /\ "kill" \in Ops
    BY <1>7, Moves DEF KillLock, OpNames
  <2>2. m \in MemType /\ m.op = "kill" BY <1>3, <1>4, <2>1, NoMemTyped, BeginForms
  <2> HIDE DEF m
  <2> QED BY <1>1, <1>2, <2>1, <2>2, BeginTyped
<1> QED BY <1>5, <1>6, <1>7

LEMMA HeaderOfTyped == ASSUME TypeInv, NEW number PROVE HeaderOf(number) \in Header
<1>1. CASE Record(number) = {} BY <1>1, NoMemTyped DEF HeaderOf
<1>2. CASE Record(number) # {}
  <2>1. (CHOOSE i \in Record(number) : TRUE) \in DOMAIN sid BY <1>2 DEF Record
  <2> QED BY <1>2, <2>1, RecordTyped DEF HeaderOf
<1> QED BY <1>1, <1>2

LEMMA FindBeginTyped ==
  ASSUME TypeInv, NEW s \in Sessions, NEW op \in {"load", "put_header"}, NEW n \in posted,
         FindBegin(s, op, n)
  PROVE  TypeInv'
<1> DEFINE h == IF op = "put_header" THEN HeaderOf(n) ELSE NoHeader
           m == [NoMem EXCEPT !.op = op, !.wanted = n, !.script = h]
<1>1. UNCHANGED <<files, locks, history>> /\ op \in Ops
      /\ Moved(s, "find", m)
  BY Moves DEF FindBegin
<1>2. h \in Header BY HeaderOfTyped, NoMemTyped
<1> HIDE DEF h
<1>3. LocksOK' BY <1>1, UnchangedTyped
<1>4. n \in 0..MaxNumber BY SceneTypes DEF TypeInv, FilesOK, Numbers
<1>5. op \in OpNames BY DEF OpNames
<1>6. m \in MemType /\ m.op = op BY <1>2, <1>4, <1>5, BeginForms
<1> HIDE DEF m
<1> QED BY <1>1, <1>3, <1>6, BeginTyped

LEMMA KillNextTyped ==
  ASSUME TypeInv, NEW s \in Sessions, NEW n \in posted, KillNext(s, n)
  PROVE  TypeInv'
<1> DEFINE m == [NoMem EXCEPT !.op = "kill", !.wanted = n]
<1>1. UNCHANGED <<files, locks, history>> /\ pc[s] = "kill" /\ Moved(s, "find", m)
  BY Moves DEF KillNext
<1>2. LocksOK' BY <1>1, UnchangedTyped
<1>3. n \in 0..MaxNumber BY SceneTypes DEF TypeInv, FilesOK, Numbers
<1>4. Fits(s, "kill", mem[s]) BY <1>1, FitsNow
<1>5. "kill" \in OpNames /\ "kill" \in Ops
  BY <1>4 DEF OpNames, Fits, Replying, Adding, Editing, Purging
<1>6. m \in MemType /\ m.op = "kill" BY <1>3, <1>5, NoMemTyped, BeginForms
<1> HIDE DEF m
<1> QED BY <1>1, <1>2, <1>5, <1>6, BeginTyped

LEMMA FindIs ==
  ASSUME TypeInv, NEW s \in Sessions, Find(s)
  PROVE  /\ pc[s] = "find" /\ UNCHANGED <<files, locks, history>>
         /\ Moved(s, "found", mem'[s]) /\ mem'[s] \in MemType /\ mem'[s].op = mem[s].op
         /\ mem'[s].slot \in DOMAIN sid /\ mem'[s].wanted = mem[s].wanted
         /\ mem'[s].offset = sid[mem'[s].slot].offset
         /\ sid[mem'[s].slot].number = mem[s].wanted
<1>1. PICK i \in DOMAIN sid :
        /\ sid[i].number = mem[s].wanted
        /\ Remember(s, [mem[s] EXCEPT !.slot = i, !.offset = sid[i].offset])
  BY DEF Find, Record
<1> DEFINE k == mem[s]
           o == sid[i].offset
           m == [k EXCEPT !.slot = i, !.offset = o]
<1>2. UNCHANGED <<files, locks, history>> /\ pc[s] = "find" /\ Moved(s, "found", m)
  BY <1>1, Moves DEF Find
<1>3. mem'[s] = m BY <1>2 DEF Moved
<1>4. k \in MemType /\ i \in 0..(MaxNumber + 1) /\ o \in 0..MaxHdrs
  BY MemTyped, RecordTyped, SceneTypes DEF Numbers, Offsets
<1> HIDE DEF k, o
<1>5. m \in MemType /\ m.op = k.op /\ m.slot = i /\ m.offset = o /\ m.wanted = k.wanted
  BY <1>4 DEF MemType
<1> HIDE DEF m
<1> QED BY <1>1, <1>2, <1>3, <1>5 DEF k, o

LEMMA FindTyped ==
  ASSUME TypeInv, NEW s \in Sessions, Find(s)
  PROVE  TypeInv'
<1> DEFINE m == mem'[s]
<1>1. /\ pc[s] = "find" /\ UNCHANGED <<files, locks, history>>
      /\ Moved(s, "found", m) /\ m \in MemType /\ m.op = mem[s].op
      /\ m.slot \in DOMAIN sid /\ m.offset = sid[m.slot].offset
  BY FindIs
<1> HIDE DEF m
<1>2. LocksOK' BY <1>1, UnchangedTyped
<1>3. Fits(s, "find", mem[s]) BY <1>1, FitsNow
<1>4. Written(m.offset) /\ m.slot \in Numbers BY <1>1, RecordTyped
<1>5. Fits(s, "found", m)
  BY <1>1, <1>3, <1>4 DEF Fits, Replying, Adding, Editing, Purging
<1> QED BY <1>1, <1>2, <1>5, FilesStay

LEMMA FindNothingTyped ==
  ASSUME TypeInv, NEW s \in Sessions, FindNothing(s)
  PROVE  TypeInv'
<1>1. UNCHANGED <<files, history>> /\ pc[s] = "find" BY DEF FindNothing
<1>2. CASE mem[s].op = "kill" /\ Go(s, "kill") /\ UNCHANGED <<locks, mem>>
  <2>1. Moved(s, "kill", mem[s]) /\ LocksOK' BY <1>1, <1>2, Moves, UnchangedTyped
  <2>2. Fits(s, "find", mem[s]) BY <1>1, FitsNow
  <2>3. Fits(s, "kill", mem[s])
    BY <1>2, <2>2 DEF Fits, Replying, Adding, Editing, Purging
  <2> QED BY <1>1, <2>1, <2>3, MemTyped, FilesStay
<1>3. CASE Unlock(s, {0}) /\ Done(s)
  <2>1. LocksOK' BY <1>1, <1>3, UnchangedTyped
  <2> QED BY <1>1, <1>3, <2>1, DoneTyped
<1>4. CASE Done(s) /\ UNCHANGED locks
  <2>1. LocksOK' BY <1>1, <1>4, UnchangedTyped
  <2> QED BY <1>1, <1>4, <2>1, DoneTyped
<1> QED BY <1>2, <1>3, <1>4 DEF FindNothing

LEMMA ReadHeaderIs ==
  ASSUME TypeInv, NEW s \in Sessions, ReadHeader(s)
  PROVE  /\ pc[s] = "found" /\ UNCHANGED <<files, history>> /\ Lock(s, mem[s].offset)
         /\ Written(mem[s].offset)
         /\ Moved(s, "read", mem'[s]) /\ mem'[s] \in MemType /\ mem'[s].op = mem[s].op
         /\ mem'[s].slot = mem[s].slot /\ mem'[s].offset = mem[s].offset
         /\ mem'[s].hdr = shd[mem[s].offset]
<1> DEFINE h == shd[mem[s].offset]
           m == [mem[s] EXCEPT !.hdr = h]
<1>1. UNCHANGED <<files, history>> /\ pc[s] = "found" /\ Moved(s, "read", m)
      /\ Lock(s, mem[s].offset)
  BY Moves DEF ReadHeader
<1>2. Fits(s, "found", mem[s]) BY <1>1, FitsNow
<1>3. Written(mem[s].offset) BY <1>2 DEF Fits
<1>4. h \in Header BY <1>3 DEF Written, TypeInv, FilesOK
<1> HIDE DEF h
<1>5. mem'[s] = m BY <1>1 DEF Moved
<1>6. m \in MemType BY <1>4, MemTyped, MemChanged
<1>7. m.op = mem[s].op /\ m.slot = mem[s].slot /\ m.offset = mem[s].offset /\ m.hdr = h
  BY MemTyped DEF MemType
<1> HIDE DEF m
<1> QED BY <1>1, <1>3, <1>5, <1>6, <1>7 DEF h

LEMMA ReadHeaderTyped ==
  ASSUME TypeInv, NEW s \in Sessions, ReadHeader(s)
  PROVE  TypeInv'
<1> DEFINE m == mem'[s]
<1>1. /\ pc[s] = "found" /\ UNCHANGED <<files, history>> /\ Lock(s, mem[s].offset)
      /\ Moved(s, "read", m) /\ m \in MemType /\ m.op = mem[s].op /\ m.slot = mem[s].slot
      /\ m.offset = mem[s].offset /\ m.hdr = shd[mem[s].offset] /\ Written(mem[s].offset)
  BY ReadHeaderIs
<1> HIDE DEF m
<1>2. Fits(s, "found", mem[s]) BY <1>1, FitsNow
<1>3. mem[s].offset \in Offsets /\ m.hdr.number # 0 BY <1>1 DEF Written
<1>4. LocksOK' BY <1>1, <1>3, RegionsTyped, UnchangedTyped
<1>5. Fits(s, "read", m)
  BY <1>1, <1>2, <1>3 DEF Fits, Replying, Adding, Editing, Purging
<1> QED BY <1>1, <1>4, <1>5, FilesStay

LEMMA LoadDoneTyped ==
  ASSUME TypeInv, NEW s \in Sessions, LoadDone(s)
  PROVE  TypeInv'
<1>1. Unlock(s, {mem[s].offset}) /\ UNCHANGED <<files, history>> /\ Done(s) BY DEF LoadDone
<1>2. LocksOK' BY <1>1, UnchangedTyped
<1> QED BY <1>1, <1>2, DoneTyped

LEMMA WriteHeaderIs ==
  ASSUME TypeInv, NEW s \in Sessions, NEW deleted \in BOOLEAN, WriteHeader(s, deleted)
  PROVE  /\ pc[s] = "read" /\ UNCHANGED <<status, sid, sha, locks, history>> /\ mem[s].op # "load"
         /\ mem[s].offset \in Offsets /\ mem'[s].hdr \in Header
         /\ shd' = [shd EXCEPT ![mem[s].offset] = mem'[s].hdr]
         /\ Moved(s, "written", mem'[s]) /\ mem'[s] \in MemType /\ mem'[s].op = mem[s].op
         /\ mem'[s].slot = mem[s].slot /\ mem'[s].offset = mem[s].offset
         /\ mem'[s].hdr.number = mem[s].hdr.number /\ mem[s].hdr.number # 0
<1> DEFINE o == mem[s].offset
           h == [Changed(mem[s]) EXCEPT !.deleted = deleted]
           m == [mem[s] EXCEPT !.hdr = h]
<1>1. pc[s] = "read" /\ shd' = [shd EXCEPT ![o] = h] /\ Moved(s, "written", m)
      /\ UNCHANGED <<status, sid, sha, locks, history>> /\ mem[s].op # "load"
  BY Moves DEF WriteHeader
<1>2. mem'[s] = m BY <1>1 DEF Moved
<1>3. Fits(s, "read", mem[s]) BY <1>1, FitsNow
<1>4. o \in Offsets /\ mem[s].hdr.number # 0 BY <1>3 DEF Fits, Written
<1>5. h \in Header /\ h.number = mem[s].hdr.number
  <2> DEFINE k == mem[s]
  <2>1. k.hdr \in Header /\ k.script \in Header BY MemTyped DEF MemType
  <2>2. Changed(k) \in Header /\ Changed(k).number = k.hdr.number
    BY <2>1 DEF Changed, Header
  <2> HIDE DEF k
  <2> QED BY <2>2 DEF Header, k
<1> HIDE DEF h
<1>6. m \in MemType BY <1>5, MemTyped, MemChanged
<1>7. m.op = mem[s].op /\ m.slot = mem[s].slot /\ m.offset = o /\ m.hdr = h
  BY MemTyped DEF MemType
<1> HIDE DEF m
<1> QED BY <1>1, <1>2, <1>4, <1>5, <1>6, <1>7

LEMMA WriteHeaderTyped ==
  ASSUME TypeInv, NEW s \in Sessions, NEW deleted \in BOOLEAN, WriteHeader(s, deleted)
  PROVE  TypeInv'
<1> DEFINE m == mem'[s]
           h == m.hdr
<1>1. /\ pc[s] = "read" /\ UNCHANGED <<status, sid, sha, locks, history>>
      /\ mem[s].offset \in Offsets /\ h \in Header /\ shd' = [shd EXCEPT ![mem[s].offset] = h]
      /\ Moved(s, "written", m) /\ m \in MemType /\ m.op = mem[s].op
      /\ m.slot = mem[s].slot /\ m.offset = mem[s].offset
      /\ h.number = mem[s].hdr.number /\ mem[s].hdr.number # 0
  BY WriteHeaderIs
<1>2. sha' \subseteq Offsets BY <1>1 DEF TypeInv, FilesOK
<1> HIDE DEF h
<1>3. FilesOK' /\ WrittenStay /\ scene' = scene BY <1>1, <1>2, HeaderWritten
<1>4. m.hdr.number # 0 BY <1>1 DEF h
<1> HIDE DEF m
<1>5. LocksOK' BY <1>1, UnchangedTyped
<1>6. Fits(s, "read", mem[s]) BY <1>1, FitsNow
<1>7. Fits(s, "written", m)
  BY <1>1, <1>4, <1>6 DEF Fits, Replying, Adding, Editing, Purging
<1>8. SessionOK(s)' BY <1>1, <1>3, <1>7, Fitting
<1> QED BY <1>1, <1>3, <1>5, <1>8, TypeStep

LEMMA WriteIndexTyped ==
  ASSUME TypeInv, NEW s \in Sessions, WriteIndex(s)
  PROVE  TypeInv'
<1>1. pc[s] = "written" /\ UNCHANGED <<status, shd, sha, history>> BY DEF WriteIndex
<1>2. Put(mem[s].slot, RecordFor(mem[s])) \/ UNCHANGED sid BY DEF WriteIndex
<1>3. Fits(s, "written", mem[s]) BY <1>1, FitsNow
<1>4. Written(mem[s].offset) /\ mem[s].slot \in Numbers /\ mem[s].hdr.number # 0
  BY <1>3 DEF Fits
<1>5. FilesOK' /\ WrittenStay /\ scene' = scene
  <2>1. CASE Put(mem[s].slot, RecordFor(mem[s]))
    BY <1>1, <1>4, <2>1, RecordForTyped, PutTyped
  <2>2. CASE UNCHANGED sid
    <3>1. UNCHANGED <<files, history>> BY <1>1, <2>2 DEF files
    <3> QED BY <3>1, FilesSame
  <2> QED BY <1>2, <2>1, <2>2
<1>6. CASE mem[s].op = "kill"
  <2>1. Unlock(s, {mem[s].offset}) /\ Moved(s, "kill", mem[s]) BY <1>6, Moves DEF WriteIndex
  <2>2. LocksOK' BY <1>5, <2>1, LocksTyped
  <2>3. Fits(s, "kill", mem[s]) BY <1>3, <1>6 DEF Fits, Replying, Adding, Editing, Purging
  <2>4. SessionOK(s)' BY <1>5, <2>1, <2>3, Fitting
  <2> QED BY <1>5, <2>1, <2>2, <2>4, MemTyped, TypeStep
<1>7. CASE mem[s].op # "kill"
  <2>1. \E rs : Unlock(s, rs) BY <1>7 DEF WriteIndex
  <2>2. LocksOK' BY <1>5, <2>1, LocksTyped
  <2>3. Moved(s, "idle", NoMem) BY <1>7, Moves DEF WriteIndex
  <2>4. SessionOK(s)' BY <1>5, <2>3, FitsIdle, Fitting
  <2> QED BY <1>5, <2>2, <2>3, <2>4, NoMemTyped, TypeStep
<1> QED BY <1>6, <1>7

LEMMA PurgeNothingTyped ==
  ASSUME TypeInv, NEW s \in Sessions, PurgeNothing(s) \/ KillDone(s)
  PROVE  TypeInv'
<1>1. Unlock(s, {0}) /\ UNCHANGED <<files, history>> /\ Done(s) BY DEF PurgeNothing, KillDone
<1>2. LocksOK' BY <1>1, UnchangedTyped
<1> QED BY <1>1, <1>2, DoneTyped

KeptPlaces == {i \in Scanned : ~sid[i].deleted}
DeadPlaces == {i \in Scanned : sid[i].deleted}

\* delmail() keeps no more records than its buffer of total_msgs holds.
LEMMA KeptFits ==
  ASSUME TypeInv
  PROVE  Cardinality(KeptPlaces) \in Nat /\ Cardinality(KeptPlaces) <= status.total_msgs
<1> DEFINE K == KeptPlaces
           N == Cardinality(K)
           n == Len(sid)
           f == [j \in 1..N |-> Place(K, j)]
<1>1. n \in Nat /\ DOMAIN sid = 1..n /\ status.total_msgs \in Nat
  BY SceneTypes DEF TypeInv, FilesOK, Status
<1>2. K \in SUBSET (1..n) BY <1>1 DEF KeptPlaces, Scanned
<1> HIDE DEF n
<1>3. N \in Nat /\ Lists(f, K) BY <1>1, <1>2, PlacesListed
<1> HIDE DEF f, N
<1>4. CASE N = 0 BY <1>1, <1>4 DEF N
<1>5. CASE N # 0
  <2> DEFINE l == f[N]
             B == {k \in 1..(l - 1) : ~sid[k].deleted}
  <2>1. N \in 1..N BY <1>3, <1>5
  <2>2. l \in K BY <1>3, <2>1 DEF Lists, N
  <2>3. l \in 1..n /\ l \in Scanned BY <1>2, <2>2 DEF KeptPlaces
  <2>4. ASSUME NEW i \in K, i # l PROVE i \in 1..n /\ i < l
    <3>1. PICK j \in 1..N : f[j] = i BY <1>3, <2>4 DEF Lists, N
    <3>2. j # N BY <2>4, <3>1
    <3>3. j < N BY <1>3, <3>1, <3>2
    <3>4. f[j] < f[N] BY <1>3, <2>1, <3>1, <3>3 DEF Lists, N
    <3> QED BY <1>2, <3>1, <3>4
  <2> HIDE DEF l
  <2>5. K \ {l} \in SUBSET B
    <3>1. ASSUME NEW i \in K, i # l PROVE i \in B
      <4>1. i \in 1..n /\ i < l /\ l \in 1..n BY <2>3, <2>4, <3>1
      <4>2. i \in 1..(l - 1) BY <1>1, <4>1
      <4>3. ~sid[i].deleted BY <3>1 DEF KeptPlaces
      <4> QED BY <4>2, <4>3
    <3> QED BY <3>1
  <2>6. IsFiniteSet(B)
    <3>1. l - 1 \in Nat BY <1>1, <2>3
    <3>2. IsFiniteSet(1..(l - 1)) BY <3>1, FS_Interval
    <3>3. B \in SUBSET (1..(l - 1)) OBVIOUS
    <3> QED BY <3>2, <3>3, FS_Subset
  <2>7. Cardinality(B) = KeptBefore(l) BY DEF KeptBefore
  <2>8. KeptBefore(l) < status.total_msgs BY <2>3 DEF Scanned
  <2>9. IsFiniteSet(K)
    <3>1. IsFiniteSet(1..n) BY <1>1, FS_Interval
    <3> QED BY <1>2, <3>1, FS_Subset
  <2> HIDE DEF B, K
  <2>10. Cardinality(K \ {l}) <= Cardinality(B) /\ Cardinality(B) \in Nat
    BY <2>5, <2>6, FS_Subset, FS_CardinalityType
  <2>11. Cardinality(K \ {l}) = N - 1 BY <2>2, <2>9, FS_RemoveElement DEF N
  <2>12. N - 1 < status.total_msgs BY <1>1, <1>3, <2>7, <2>8, <2>10, <2>11
  <2> QED BY <1>1, <1>3, <2>12 DEF N, K
<1> QED BY <1>4, <1>5

\* What delmail() has read is of the index.
LEMMA ReadTyped ==
  ASSUME TypeInv
  PROVE  /\ RecordsAt(KeptPlaces) \in Seq(IdxRec) /\ RecordsAt(DeadPlaces) \in Seq(IdxRec)
         /\ Len(RecordsAt(KeptPlaces)) <= status.total_msgs
         /\ \A i \in DOMAIN RecordsAt(KeptPlaces) : Written(RecordsAt(KeptPlaces)[i].offset)
<1>1. sid \in Seq(IdxRec) BY DEF TypeInv, FilesOK
<1>2. KeptPlaces \in SUBSET DOMAIN sid /\ DeadPlaces \in SUBSET DOMAIN sid
  BY DEF KeptPlaces, DeadPlaces, Scanned
<1>3. PICK f : Picks(RecordsAt(KeptPlaces), f, KeptPlaces, IdxRec) BY <1>1, <1>2, RecordsPicked
<1>4. PICK g : Picks(RecordsAt(DeadPlaces), g, DeadPlaces, IdxRec) BY <1>1, <1>2, RecordsPicked
<1> DEFINE R == RecordsAt(KeptPlaces)
<1>5. R \in Seq(IdxRec) /\ Len(R) = Cardinality(KeptPlaces) BY <1>3 DEF Picks
<1>6. \A i \in DOMAIN R : f[i] \in DOMAIN sid /\ R[i] = sid[f[i]]
  <2> HIDE DEF R
  <2>1. Picks(R, f, KeptPlaces, IdxRec) BY <1>3 DEF R
  <2> QED BY <1>2, <2>1 DEF Picks, Lists
<1>7. \A i \in DOMAIN R : Written(R[i].offset) BY <1>6, RecordTyped
<1> HIDE DEF R
<1>8. RecordsAt(DeadPlaces) \in Seq(IdxRec) BY <1>4 DEF Picks
<1> QED BY <1>5, <1>7, <1>8, KeptFits DEF R

LEMMA PurgeReadIs ==
  ASSUME TypeInv, NEW s \in Sessions, PurgeRead(s)
  PROVE  /\ pc[s] \in {"purge", "kill"} /\ UNCHANGED <<files, locks, history>>
         /\ Moved(s, "free", mem'[s]) /\ mem'[s] \in MemType /\ mem'[s].op = mem[s].op
         /\ mem'[s].status = status /\ mem'[s].kept = RecordsAt(KeptPlaces)
         /\ mem'[s].dead = RecordsAt(DeadPlaces)
<1> DEFINE kept == RecordsAt(KeptPlaces)
           dead == RecordsAt(DeadPlaces)
           m == [mem[s] EXCEPT !.status = status, !.kept = kept, !.dead = dead]
<1>1. pc[s] \in {"purge", "kill"} /\ UNCHANGED <<files, locks, history>> /\ Moved(s, "free", m)
  BY Moves DEF PurgeRead, KeptPlaces, DeadPlaces
<1>2. mem'[s] = m BY <1>1 DEF Moved
<1>3. kept \in Seq(IdxRec) /\ dead \in Seq(IdxRec) BY ReadTyped
<1>4. status \in Status BY DEF TypeInv, FilesOK
<1> HIDE DEF kept, dead
<1>5. m \in MemType /\ m.op = mem[s].op /\ m.status = status /\ m.kept = kept /\ m.dead = dead
  BY <1>3, <1>4, MemTyped DEF MemType
<1> HIDE DEF m
<1> QED BY <1>1, <1>2, <1>5 DEF kept, dead

LEMMA PurgeReadTyped ==
  ASSUME TypeInv, NEW s \in Sessions, PurgeRead(s)
  PROVE  TypeInv'
<1> DEFINE m == mem'[s]
           kept == RecordsAt(KeptPlaces)
<1>1. /\ pc[s] \in {"purge", "kill"} /\ UNCHANGED <<files, locks, history>>
      /\ Moved(s, "free", m) /\ m \in MemType /\ m.op = mem[s].op
      /\ m.status = status /\ m.kept = kept
  BY PurgeReadIs
<1>2. Len(kept) <= status.total_msgs /\ \A i \in DOMAIN kept : Written(kept[i].offset)
  BY ReadTyped
<1>3. status.total_msgs <= status.last_msg BY DEF TypeInv, FilesOK
<1>4. LocksOK' BY <1>1, UnchangedTyped
<1> HIDE DEF kept, m
<1>5. Fits(s, pc[s], mem[s]) BY FitsNow
<1>6. m.op \in Ops /\ m.op \in {"purge", "kill"}
  BY <1>1, <1>5 DEF Fits, Replying, Adding, Editing, Purging
<1>7. Fits(s, "free", m)
  BY <1>1, <1>2, <1>3, <1>6 DEF Fits, Replying, Adding, Editing, Purging
<1> QED BY <1>1, <1>4, <1>7, FilesStay

LEMMA PurgeFreeIs ==
  ASSUME TypeInv, NEW s \in Sessions, PurgeFree(s)
  PROVE  /\ pc[s] = "free" /\ UNCHANGED <<status, sid, shd, locks, posted, torn, scene>>
         /\ mem[s].dead \in Seq(IdxRec) /\ mem[s].dead # <<>>
         /\ sha' = sha \ {Head(mem[s].dead).offset}
         /\ purged' = purged \union {Head(mem[s].dead).number}
         /\ Moved(s, "free", mem'[s]) /\ mem'[s] \in MemType /\ mem'[s].op = mem[s].op
         /\ mem'[s].status = mem[s].status /\ mem'[s].kept = mem[s].kept
         /\ mem'[s].dead = Tail(mem[s].dead)
<1> DEFINE k == mem[s]
           d == Tail(k.dead)
           m == [k EXCEPT !.dead = d]
<1>1. /\ pc[s] = "free" /\ UNCHANGED <<status, sid, shd, locks, posted, torn, scene>>
      /\ k.dead # <<>> /\ sha' = sha \ {Head(k.dead).offset}
      /\ purged' = purged \union {Head(k.dead).number} /\ Moved(s, "free", m)
  BY Moves DEF PurgeFree
<1>2. mem'[s] = m BY <1>1 DEF Moved
<1>3. k \in MemType /\ k.dead \in Seq(IdxRec) BY MemTyped DEF MemType
<1>4. d \in Seq(IdxRec) BY <1>1, <1>3
<1> HIDE DEF k, d
<1>5. m \in MemType /\ m.op = k.op /\ m.status = k.status /\ m.kept = k.kept /\ m.dead = d
  BY <1>3, <1>4 DEF MemType
<1> HIDE DEF m
<1> QED BY <1>1, <1>2, <1>3, <1>5 DEF k, d

LEMMA PurgeFreeTyped ==
  ASSUME TypeInv, NEW s \in Sessions, PurgeFree(s)
  PROVE  TypeInv'
<1> DEFINE m == mem'[s]
           dead == mem[s].dead
<1>1. /\ pc[s] = "free" /\ UNCHANGED <<status, sid, shd, locks, posted, torn, scene>>
      /\ dead \in Seq(IdxRec) /\ dead # <<>> /\ sha' = sha \ {Head(dead).offset}
      /\ purged' = purged \union {Head(dead).number}
      /\ Moved(s, "free", m) /\ m \in MemType /\ m.op = mem[s].op
      /\ m.status = mem[s].status /\ m.kept = mem[s].kept
  BY PurgeFreeIs
<1> HIDE DEF m, dead
<1>2. Head(dead) \in IdxRec BY <1>1
<1>3. UNCHANGED <<Offsets, Numbers, Header, IdxRec, Status>>
  BY <1>1 DEF Offsets, MaxHdrs, Header, IdxRec
<1>4. purged' \subseteq Numbers /\ sha' \subseteq Offsets BY <1>1, <1>2 DEF IdxRec, TypeInv, FilesOK
<1>5. FilesOK' /\ WrittenStay BY <1>1, <1>3, <1>4 DEF TypeInv, FilesOK, Written, WrittenStay
<1>6. LocksOK' BY <1>1, LocksTyped
<1>7. Fits(s, "free", mem[s]) BY <1>1, FitsNow
<1>8. Fits(s, "free", m) BY <1>1, <1>7 DEF Fits, Replying, Adding, Editing, Purging
<1>9. SessionOK(s)' BY <1>1, <1>5, <1>8, Fitting
<1> QED BY <1>1, <1>5, <1>6, <1>9, TypeStep

LEMMA PurgeTruncateTyped ==
  ASSUME TypeInv, NEW s \in Sessions, PurgeTruncate(s)
  PROVE  TypeInv'
<1>1. pc[s] = "free" /\ sid' = <<>> /\ UNCHANGED <<status, shd, sha, locks, history>>
      /\ Moved(s, "truncated", mem[s])
  BY Moves DEF PurgeTruncate
<1>2. sid' \in Seq(IdxRec) /\ Len(sid') <= MaxNumber /\ DOMAIN sid' = {} BY <1>1, SceneTypes
<1>3. FilesOK' /\ WrittenStay /\ scene' = scene BY <1>1, <1>2, IndexTyped
<1>4. LocksOK' BY <1>1, UnchangedTyped
<1>5. Fits(s, "free", mem[s]) BY <1>1, FitsNow
<1>6. Fits(s, "truncated", mem[s]) BY <1>5 DEF Fits, Replying, Adding, Editing, Purging
<1>7. SessionOK(s)' BY <1>1, <1>3, <1>6, Fitting
<1> QED BY <1>1, <1>3, <1>4, <1>7, MemTyped, TypeStep

\* The start of t written over with k.
LEMMA Overwritten ==
  ASSUME NEW S, NEW k \in Seq(S), NEW t \in Seq(S)
  PROVE  LET r == k \o SubSeq(t, Len(k) + 1, Len(t)) IN
         /\ r \in Seq(S)
         /\ Len(r) = IF Len(k) <= Len(t) THEN Len(t) ELSE Len(k)
         /\ \A i \in DOMAIN r : r[i] = IF i <= Len(k) THEN k[i] ELSE t[i]
<1> DEFINE u == SubSeq(t, Len(k) + 1, Len(t))
           r == k \o u
<1>1. Len(k) \in Nat /\ Len(t) \in Nat OBVIOUS
<1>2. u \in Seq(S) /\ Len(u) = IF Len(k) <= Len(t) THEN Len(t) - Len(k) ELSE 0
  <2>1. CASE Len(k) + 1 <= Len(t) BY <1>1, <2>1
  <2>2. CASE ~(Len(k) + 1 <= Len(t)) BY <1>1, <2>2
  <2> QED BY <1>1, <2>1, <2>2
<1>3. \A i \in 1..Len(u) : u[i] = t[Len(k) + i] BY <1>1, <1>2
<1> HIDE DEF u
<1>4. r \in Seq(S) /\ Len(r) = Len(k) + Len(u) BY <1>2
<1>5. Len(r) = IF Len(k) <= Len(t) THEN Len(t) ELSE Len(k) BY <1>1, <1>2, <1>4
<1>6. ASSUME NEW i \in DOMAIN r PROVE r[i] = IF i <= Len(k) THEN k[i] ELSE t[i]
  <2>1. i \in 1..(Len(k) + Len(u)) BY <1>4, <1>6
  <2>2. CASE i <= Len(k) BY <1>1, <1>2, <2>1, <2>2
  <2>3. CASE ~(i <= Len(k))
    <3>1. r[i] = u[i - Len(k)] BY <1>1, <1>2, <2>1, <2>3
    <3>2. i - Len(k) \in 1..Len(u) /\ Len(k) + (i - Len(k)) = i BY <1>1, <1>2, <2>1, <2>3
    <3> QED BY <1>3, <2>3, <3>1, <3>2
  <2> QED BY <2>2, <2>3
<1> QED BY <1>4, <1>5, <1>6 DEF u

\* A session that purges goes on, or is done.
LEMMA ThenTyped ==
  ASSUME TypeInv, NEW s \in Sessions, pc[s] \in Purging, FilesOK', WrittenStay, scene' = scene,
         NEW place \in Purging, Then(s, place)
  PROVE  TypeInv'
<1>1. CASE Go(s, place) /\ UNCHANGED <<locks, mem>>
  <2>1. Moved(s, place, mem[s]) /\ LocksOK' BY <1>1, Moves, LocksTyped
  <2>2. Fits(s, pc[s], mem[s]) BY FitsNow
  <2>3. Fits(s, place, mem[s]) BY <2>2 DEF Fits, Replying, Adding, Editing, Purging
  <2>4. SessionOK(s)' BY <2>1, <2>3, Fitting
  <2> QED BY <2>1, <2>4, MemTyped, TypeStep
<1>2. CASE Unlock(s, {0}) /\ Done(s)
  <2>1. Moved(s, "idle", NoMem) /\ LocksOK' BY <1>2, Moves, LocksTyped
  <2>2. SessionOK(s)' BY <2>1, FitsIdle, Fitting
  <2> QED BY <2>1, <2>2, NoMemTyped, TypeStep
<1> QED BY <1>1, <1>2 DEF Then

LEMMA PurgeWriteTyped ==
  ASSUME TypeInv, NEW s \in Sessions, PurgeWrite(s)
  PROVE  TypeInv'
<1> DEFINE k == mem[s].kept
           r == k \o SubSeq(sid, Len(k) + 1, Len(sid))
<1>1. pc[s] \in {"truncated", "counted"} /\ sid' = r /\ UNCHANGED <<status, shd, sha, history>>
      /\ Then(s, "rewritten")
  BY DEF PurgeWrite
<1>2. pc[s] \in Purging /\ "rewritten" \in Purging BY <1>1 DEF Purging
<1>3. Fits(s, pc[s], mem[s]) BY FitsNow
<1>4. k \in Seq(IdxRec) /\ mem[s].status \in Status /\ sid \in Seq(IdxRec) /\ Len(sid) <= MaxNumber
  BY MemTyped DEF MemType, TypeInv, FilesOK
<1>5. /\ Len(k) <= mem[s].status.total_msgs
      /\ \A i \in DOMAIN k : Written(k[i].offset)
  BY <1>2, <1>3 DEF Fits
<1>6. Len(k) <= MaxNumber BY <1>4, <1>5, SceneTypes DEF Status
<1> HIDE DEF k, r
<1>7. /\ r \in Seq(IdxRec)
      /\ Len(r) = IF Len(k) <= Len(sid) THEN Len(sid) ELSE Len(k)
      /\ \A i \in DOMAIN r : r[i] = IF i <= Len(k) THEN k[i] ELSE sid[i]
  BY <1>4, Overwritten DEF r
<1>8. Len(r) <= MaxNumber BY <1>4, <1>6, <1>7
<1>9. ASSUME NEW i \in DOMAIN r PROVE Written(r[i].offset)
  <2>1. i \in 1..Len(r) BY <1>7
  <2>2. CASE i <= Len(k)
    <3>1. i \in DOMAIN k BY <1>4, <2>1, <2>2
    <3> QED BY <1>5, <1>7, <2>2, <3>1
  <2>3. CASE ~(i <= Len(k))
    <3>1. i \in DOMAIN sid BY <1>4, <1>7, <2>1, <2>3
    <3> QED BY <1>7, <2>3, <3>1, RecordTyped
  <2> QED BY <2>2, <2>3
<1>10. FilesOK' /\ WrittenStay /\ scene' = scene BY <1>1, <1>7, <1>8, <1>9, IndexTyped
<1> QED BY <1>1, <1>2, <1>10, ThenTyped

LEMMA PurgeStatusTyped ==
  ASSUME TypeInv, NEW s \in Sessions, PurgeStatus(s)
  PROVE  TypeInv'
<1> DEFINE k == mem[s].kept
           st == mem[s].status
<1>1. pc[s] \in {"truncated", "rewritten"} /\ status' = [st EXCEPT !.total_msgs = Len(k)]
      /\ UNCHANGED <<sid, shd, sha, history>> /\ Then(s, "counted")
  BY DEF PurgeStatus
<1>2. pc[s] \in Purging /\ "counted" \in Purging BY <1>1 DEF Purging
<1>3. Fits(s, pc[s], mem[s]) BY FitsNow
<1>4. st \in Status /\ Len(k) \in Nat BY MemTyped DEF MemType
<1>5. Len(k) <= st.total_msgs /\ st.total_msgs <= st.last_msg BY <1>2, <1>3 DEF Fits
<1> HIDE DEF k, st
<1>6. status' \in Status /\ status'.total_msgs <= status'.last_msg
  BY <1>1, <1>4, <1>5, SceneTypes DEF Status
<1>7. UNCHANGED <<posted, purged, torn, scene>> BY <1>1 DEF history
<1>8. UNCHANGED <<Offsets, Numbers, Header, IdxRec, Status>>
  BY <1>7 DEF Offsets, MaxHdrs, Header, IdxRec
<1>9. FilesOK' /\ WrittenStay
  BY <1>1, <1>6, <1>7, <1>8 DEF TypeInv, FilesOK, Written, WrittenStay
<1> QED BY <1>1, <1>2, <1>7, <1>9, ThenTyped

LEMMA LockRefusedTyped ==
  ASSUME TypeInv, NEW s \in Sessions, LockRefused(s)
  PROVE  TypeInv'
<1>1. UNCHANGED <<files, history, flock, pc, mem>>
      /\ \E r \in Wanted(s) : fcntl' = [fcntl EXCEPT ![r] = None]
  BY DEF LockRefused
<1>2. FilesOK' /\ WrittenStay /\ scene' = scene BY <1>1, FilesSame
<1>3. LocksOK'
  <2>1. PICK r \in Wanted(s) : fcntl' = [fcntl EXCEPT ![r] = None] BY <1>1
  <2>2. UNCHANGED <<Regions, Proc>> BY <1>2 DEF Regions, MaxHdrs, Proc
  <2> DEFINE procs == {Proc[t] : t \in Sessions} \union {None}
  <2>3. fcntl \in [Regions -> procs] /\ flock \in Sessions \union {None} /\ None \in procs
    BY DEF TypeInv, LocksOK
  <2>4. {Proc[t] : t \in Sessions}' \union {None} = procs BY <2>2
  <2> HIDE DEF procs
  <2>5. fcntl' \in [Regions -> procs] BY <2>1, <2>3
  <2> QED BY <1>1, <2>2, <2>3, <2>4, <2>5 DEF LocksOK
<1>4. Moved(s, pc[s], mem[s]) BY <1>1, Moves
<1>5. SessionOK(s)' BY <1>2, <1>4, FitsNow, Fitting
<1> QED BY <1>2, <1>3, <1>4, <1>5, MemTyped, TypeStep

LEMMA CrashTyped ==
  ASSUME TypeInv, NEW p, Crash(p)
  PROVE  TypeInv'
<1>1. UNCHANGED <<status, sid, shd, sha, posted, purged, scene>> /\ torn' \in BOOLEAN
  BY DEF Crash, files, TypeInv, FilesOK
<1>2. UNCHANGED <<Offsets, Numbers, Header, IdxRec, Status, Regions, Proc, MemType>>
  BY <1>1 DEF Offsets, MaxHdrs, Header, IdxRec, Regions, Proc, MemType
<1>3. FilesOK' BY <1>1, <1>2 DEF TypeInv, FilesOK, Written
<1>4. LocksOK' BY <1>1, <1>2 DEF TypeInv, LocksOK, Crash
<1>5. mem' \in [Sessions -> MemType'] BY <1>2, NoMemTyped DEF TypeInv, Crash
<1>6. pc' = [s \in Sessions |-> pc'[s]] BY DEF Crash
<1>7. WrittenStay BY <1>1 DEF WrittenStay
<1>8. ASSUME NEW s \in Sessions PROVE SessionOK(s)'
  <2>1. CASE Proc[s] = p
    <3>1. pc'[s] = "idle" BY <2>1 DEF Crash
    <3> QED BY <3>1 DEF SessionOK, PcOf, Replying, Adding, Editing, Purging
  <2>2. CASE Proc[s] # p
    <3>1. pc'[s] = pc[s] /\ mem'[s] = mem[s] BY <2>2 DEF Crash
    <3> QED BY <1>1, <1>7, <3>1, OthersOK DEF TypeInv
  <2> QED BY <2>1, <2>2
<1> QED BY <1>1, <1>3, <1>4, <1>5, <1>6, <1>8 DEF TypeInv

LEMMA StepTyped ==
  ASSUME TypeInv, [Next]_vars
  PROVE  TypeInv'
<1>1. posted \subseteq 0..MaxNumber /\ 0 \in 0..MaxNumber
  BY SceneTypes DEF TypeInv, FilesOK, Numbers
<1>2. ASSUME NEW s \in Sessions, PostLock(s, "post", 0) \/ \E n \in posted : PostLock(s, "reply", n)
      PROVE  TypeInv'
  BY <1>1, <1>2, PostLockTyped
<1>3. ASSUME NEW s \in Sessions, ThreadFind(s) \/ ThreadLock(s) \/ ThreadLink(s)
      PROVE  TypeInv'
  BY <1>3, ThreadFindTyped, ThreadLockTyped, ThreadLinkTyped
<1>4. ASSUME NEW s \in Sessions,
             \/ PostFails(s) \/ PostStatus(s) \/ PostHeader(s)
             \/ PostIndexFails(s) \/ PostIndex(s) \/ PostCommit(s)
      PROVE  TypeInv'
  BY <1>4, FailsTyped, PostStatusTyped, PostHeaderTyped, PostIndexTyped, PostCommitTyped
<1>5. ASSUME NEW s \in Sessions,
             \/ \E n \in posted : UpdateLock(s, n) \/ KillNext(s, n)
             \/ \E n \in posted, op \in {"load", "put_header"} : FindBegin(s, op, n)
             \/ PurgeLock(s) \/ KillLock(s)
      PROVE  TypeInv'
  BY <1>5, LockersTyped, KillNextTyped, FindBeginTyped
<1>6. ASSUME NEW s \in Sessions,
             \/ Find(s) \/ FindNothing(s) \/ ReadHeader(s) \/ LoadDone(s)
             \/ \E deleted \in BOOLEAN : WriteHeader(s, deleted)
             \/ WriteIndex(s)
      PROVE  TypeInv'
  BY <1>6, FindTyped, FindNothingTyped, ReadHeaderTyped, LoadDoneTyped, WriteHeaderTyped,
     WriteIndexTyped
<1>7. ASSUME NEW s \in Sessions,
             \/ PurgeNothing(s) \/ KillDone(s) \/ PurgeRead(s) \/ PurgeFree(s)
             \/ PurgeTruncate(s) \/ PurgeWrite(s) \/ PurgeStatus(s)
             \/ LockRefused(s)
      PROVE  TypeInv'
  BY <1>7, PurgeNothingTyped, PurgeReadTyped, PurgeFreeTyped, PurgeTruncateTyped,
     PurgeWriteTyped, PurgeStatusTyped, LockRefusedTyped
<1>8. ASSUME NEW s \in Sessions, Crash(Proc[s]) PROVE TypeInv' BY <1>8, CrashTyped
<1>9. CASE UNCHANGED vars
  <2>1. UNCHANGED <<files, history, locks, pc, mem>> BY <1>9 DEF vars
  <2>2. FilesOK' /\ WrittenStay /\ scene' = scene BY <2>1, FilesSame
  <2>3. LocksOK' BY <2>1, <2>2 DEF TypeInv, LocksOK, locks, Regions, MaxHdrs, Proc
  <2>4. UNCHANGED MemType BY <2>2 DEF MemType, MaxHdrs, IdxRec, Offsets
  <2>5. \A s \in Sessions : SessionOK(s)' BY <2>1, <2>2, OthersOK DEF TypeInv
  <2> QED BY <2>1, <2>2, <2>3, <2>4, <2>5 DEF TypeInv
<1> QED BY <1>2, <1>3, <1>4, <1>5, <1>6, <1>7, <1>8, <1>9 DEF Next

LEMMA InitTyped == Init => TypeInv
<1> SUFFICES ASSUME Init PROVE TypeInv OBVIOUS
<1>1. MaxHdrs \in Nat /\ MaxNumber \in Nat /\ scene \in Scenes
  BY SmbBaseAssumption DEF Init, MaxHdrs
<1>2. NoHeader \in Header /\ status \in Status /\ status.total_msgs <= status.last_msg
  BY <1>1 DEF Init, NoHeader, Header, Status
<1>3. sid \in Seq(IdxRec) /\ Len(sid) = 0 /\ DOMAIN sid = {} BY DEF Init
<1>4. FilesOK
  <2>1. shd \in [Offsets -> Header] /\ sha \subseteq Offsets BY <1>2 DEF Init
  <2>2. posted \subseteq Numbers /\ purged \subseteq Numbers /\ torn \in BOOLEAN BY DEF Init
  <2> QED BY <1>1, <1>2, <1>3, <2>1, <2>2 DEF FilesOK
<1>5. LocksOK BY DEF Init, LocksOK
<1>6. NoMem \in MemType
  BY <1>1, <1>2 DEF NoMem, MemType, Status, OpNames
<1>7. \A s \in Sessions : pc[s] = "idle" BY DEF Init
<1>8. \A s \in Sessions : SessionOK(s)
  BY <1>7 DEF SessionOK, PcOf, Replying, Adding, Editing, Purging
<1> QED BY <1>1, <1>4, <1>5, <1>6, <1>8 DEF TypeInv, Init

LEMMA TypeInvariant == Spec => []TypeInv
<1> QED BY InitTyped, StepTyped, PTL DEF Spec

\* The files hold well-formed records whatever the sessions do, as threads or as
\* programs, and whatever fails; a slot is one of the index or the next.
THEOREM TypeCorrect == Spec => []TypeOK
BY TypeInvariant, TypesFollow, PTL

---------------------------------------------------------------------------
(* Exclusion: one session at a time has the base locked, and each header *)

\* Every session is a process of its own.
Apart == \A s, t \in Sessions : Proc[s] = Proc[t] => s = t

\* Threads of one process are kept apart by the flock alone, so none of them may give it
\* up, with a header's lock, while it has the base locked: as a reply and delallmail() do.
Guarded(c) ==
  \/ \A s, t \in Sessions : c.proc[s] = c.proc[t] => s = t
  \/ c.ops \intersect {"reply", "kill"} = {}

Holds(s, r) == IF Apart THEN fcntl[r] = Proc[s] ELSE flock = s

InBaseAt(place, op) ==
  \/ place \in Replying \union {"post"} \union Adding
  \/ place \in {"purge", "kill"} \union Purging
  \/ place \in Editing /\ op \in {"update", "kill"}

HasHeaderAt(place) == place \in {"linked", "read", "written"}

InBase(s) == InBaseAt(pc[s], mem[s].op)
HasHeader(s) == HasHeaderAt(pc[s])

LockInv ==
  \A s \in Sessions :
    /\ InBase(s) => Holds(s, 0)
    /\ HasHeader(s) => Holds(s, mem[s].offset)

\* What the locks are for.
LEMMA Excluded ==
  ASSUME TypeInv, LockInv, NEW s \in Sessions, NEW t \in Sessions,
         \/ InBase(s) /\ InBase(t)
         \/ HasHeader(s) /\ HasHeader(t) /\ mem[s].offset = mem[t].offset
  PROVE  s = t
BY DEF LockInv, Holds, Apart

LEMMA GuardedNow == ASSUME TypeInv, \A c \in Scenes : Guarded(c)
                    PROVE  Apart \/ Ops \intersect {"reply", "kill"} = {}
BY DEF TypeInv, Guarded, Apart, Proc, Ops

LEMMA LockKeeps ==
  ASSUME TypeInv, scene' = scene, NEW s \in Sessions, NEW r \in Regions, Lock(s, r)
  PROVE  /\ Holds(s, r)'
         /\ \A t \in Sessions : \A q : Holds(t, q) => Holds(t, q)'
<1>1. Proc' = Proc /\ Apart' = Apart BY DEF Proc, Apart
<1>2. DOMAIN fcntl = Regions BY DEF TypeInv, LocksOK
<1>3. \A t \in Sessions : Proc[t] # None BY SceneTypes
<1>4. None \notin Sessions BY SmbBaseAssumption
<1>5. CASE Apart
  <2>1. fcntl'[r] = Proc[s] BY <1>2 DEF Lock
  <2>2. ASSUME NEW t \in Sessions, NEW q, fcntl[q] = Proc[t] PROVE fcntl'[q] = Proc[t]
    BY <1>2, <1>3, <2>2 DEF Lock
  <2> QED BY <1>1, <1>5, <2>1, <2>2 DEF Holds
<1>6. CASE ~Apart BY <1>1, <1>4, <1>6 DEF Holds, Lock
<1> QED BY <1>5, <1>6

LEMMA UnlockKeeps ==
  ASSUME TypeInv, scene' = scene, NEW s \in Sessions, NEW rs, Unlock(s, rs)
  PROVE  /\ \A t \in Sessions, q \in Regions : t # s /\ Holds(t, q) => Holds(t, q)'
         /\ Apart => \A q \in Regions : q \notin rs /\ Holds(s, q) => Holds(s, q)'
<1>1. Proc' = Proc /\ Apart' = Apart BY DEF Proc, Apart
<1>2. CASE Apart
  <2>1. ASSUME NEW t \in Sessions, NEW q \in Regions, t # s \/ q \notin rs, fcntl[q] = Proc[t]
        PROVE  fcntl'[q] = Proc[t]
    <3>1. t # s => Proc[t] # Proc[s] BY <1>2 DEF Apart
    <3> QED BY <2>1, <3>1 DEF Unlock
  <2> QED BY <1>1, <1>2, <2>1 DEF Holds
<1>3. CASE ~Apart BY <1>1, <1>3 DEF Holds, Unlock
<1> QED BY <1>2, <1>3

LEMMA SameHolds ==
  ASSUME UNCHANGED locks, scene' = scene
  PROVE  \A t, q : Holds(t, q) => Holds(t, q)'
BY DEF locks, Holds, Apart, Proc

\* The header a session has locked, or waits for.
LEMMA OffsetTyped ==
  ASSUME TypeInv, NEW s \in Sessions, HasHeader(s) \/ pc[s] \in {"found", "link"}
  PROVE  mem[s].offset \in Offsets /\ mem[s].offset \in Regions /\ mem[s].offset # 0
<1>1. Fits(s, pc[s], mem[s]) BY FitsNow
<1>2. mem[s].offset \in Offsets
  BY <1>1 DEF HasHeader, HasHeaderAt, Fits, Written
<1> QED BY <1>2, RegionsTyped, SceneTypes DEF Offsets

LEMMA LockStep ==
  ASSUME TypeInv, LockInv, scene' = scene, NEW s \in Sessions, NEW place, NEW m, Moved(s, place, m),
         \A t \in Sessions, q \in Regions : t # s /\ Holds(t, q) => Holds(t, q)',
         InBaseAt(place, m.op) => Holds(s, 0)',
         HasHeaderAt(place) => Holds(s, m.offset)'
  PROVE  LockInv'
<1>1. ASSUME NEW t \in Sessions
      PROVE  /\ InBase(t)' => Holds(t, 0)'
             /\ HasHeader(t)' => Holds(t, mem[t].offset)'
  <2>1. CASE t = s
    <3>1. pc'[s] = place /\ mem'[s] = m BY DEF Moved
    <3> QED BY <2>1, <3>1 DEF InBase, HasHeader, Holds
  <2>2. CASE t # s
    <3>1. pc'[t] = pc[t] /\ mem'[t] = mem[t] BY <2>2 DEF Moved
    <3>2. InBase(t)' => Holds(t, 0)' BY <2>2, <3>1, RegionsTyped DEF LockInv, InBase
    <3>3. HasHeader(t)' => Holds(t, mem[t].offset)'
      <4>1. SUFFICES ASSUME HasHeader(t)' PROVE Holds(t, mem[t].offset)' OBVIOUS
      <4>2. HasHeader(t) BY <3>1, <4>1 DEF HasHeader
      <4>3. PICK o \in Regions : o = mem[t].offset /\ Holds(t, o)
        BY <4>2, OffsetTyped DEF LockInv
      <4>4. Holds(t, o)' BY <2>2, <4>3
      <4> QED BY <3>1, <4>3, <4>4 DEF Holds
    <3> QED BY <3>2, <3>3
  <2> QED BY <2>1, <2>2
<1> QED BY <1>1 DEF LockInv

LEMMA LocksStay ==
  ASSUME TypeInv, LockInv, scene' = scene, UNCHANGED locks,
         NEW s \in Sessions, NEW place, NEW m, Moved(s, place, m),
         InBaseAt(place, m.op) => InBase(s),
         HasHeaderAt(place) => HasHeader(s) /\ m.offset = mem[s].offset
  PROVE  LockInv'
<1>1. \A t \in Sessions : \A q : Holds(t, q) => Holds(t, q)' BY SameHolds
<1>2. InBaseAt(place, m.op) => Holds(s, 0)' BY <1>1 DEF LockInv
<1>3. HasHeaderAt(place) => Holds(s, m.offset)' BY <1>1 DEF LockInv
<1> QED BY <1>1, <1>2, <1>3, LockStep

LEMMA LockTaken ==
  ASSUME TypeInv, LockInv, scene' = scene,
         NEW s \in Sessions, NEW place, NEW m, Moved(s, place, m), NEW r \in Regions, Lock(s, r),
         InBaseAt(place, m.op) => InBase(s) \/ r = 0,
         HasHeaderAt(place) => m.offset = r
  PROVE  LockInv'
<1>1. Holds(s, r)' /\ \A t \in Sessions : \A q : Holds(t, q) => Holds(t, q)' BY LockKeeps
<1>2. InBaseAt(place, m.op) => Holds(s, 0)' BY <1>1 DEF LockInv
<1>3. HasHeaderAt(place) => Holds(s, m.offset)' BY <1>1
<1> QED BY <1>1, <1>2, <1>3, LockStep

LEMMA LockLeft ==
  ASSUME TypeInv, LockInv, scene' = scene, NEW s \in Sessions, Done(s), NEW rs, Unlock(s, rs)
  PROVE  LockInv'
<1>1. Moved(s, "idle", NoMem) BY Moves
<1>2. ~InBaseAt("idle", NoMem.op) /\ ~HasHeaderAt("idle")
  BY DEF InBaseAt, HasHeaderAt, Replying, Adding, Editing, Purging
<1>3. \A t \in Sessions, q \in Regions : t # s /\ Holds(t, q) => Holds(t, q)' BY UnlockKeeps
<1> QED BY <1>1, <1>2, <1>3, LockStep

LEMMA HeaderLeft ==
  ASSUME TypeInv, LockInv, scene' = scene, Apart,
         NEW s \in Sessions, NEW place, NEW m, Moved(s, place, m), InBase(s), HasHeader(s),
         Unlock(s, {mem[s].offset}), ~HasHeaderAt(place)
  PROVE  LockInv'
<1>1. mem[s].offset # 0 BY OffsetTyped
<1>2. Holds(s, 0) BY DEF LockInv
<1>3. Holds(s, 0)' BY <1>1, <1>2, UnlockKeeps, RegionsTyped
<1>4. \A t \in Sessions, q \in Regions : t # s /\ Holds(t, q) => Holds(t, q)' BY UnlockKeeps
<1> QED BY <1>3, <1>4, LockStep

LEMMA LockRefusedKeeps ==
  ASSUME TypeInv, LockInv, NEW s \in Sessions, LockRefused(s)
  PROVE  LockInv'
<1>1. scene' = scene /\ UNCHANGED <<flock, pc, mem>> BY DEF LockRefused, history
<1>2. PICK r \in Wanted(s) : fcntl[r] = Proc[s] /\ fcntl' = [fcntl EXCEPT ![r] = None]
  BY DEF LockRefused
<1>3. Proc' = Proc /\ Apart' = Apart BY <1>1 DEF Proc, Apart
<1>4. Moved(s, pc[s], mem[s]) BY <1>1, Moves
<1>5. \A t \in Sessions, q \in Regions : q # r \/ t # s => (Holds(t, q) => Holds(t, q)')
  <2>1. CASE Apart
    <3>1. ASSUME NEW t \in Sessions, NEW q \in Regions, q # r \/ t # s, fcntl[q] = Proc[t]
          PROVE  fcntl'[q] = Proc[t]
      <4>1. q # r BY <1>2, <2>1, <3>1 DEF Apart
      <4> QED BY <1>2, <3>1, <4>1 DEF TypeInv, LocksOK
    <3> QED BY <1>3, <2>1, <3>1 DEF Holds
  <2>2. CASE ~Apart BY <1>1, <1>3, <2>2 DEF Holds
  <2> QED BY <2>1, <2>2
<1>6. InBaseAt(pc[s], mem[s].op) => Holds(s, 0)'
  <2> SUFFICES ASSUME InBase(s) PROVE Holds(s, 0)' BY DEF InBase
  <2>1. pc[s] # "idle" BY DEF InBase, InBaseAt, Replying, Adding, Editing, Purging
  <2>2. pc[s] \in {"found", "link"} /\ r = mem[s].offset BY <1>2, <2>1 DEF Wanted
  <2>3. r # 0 BY <2>2, OffsetTyped
  <2> QED BY <1>5, <2>3, RegionsTyped DEF LockInv
<1>7. ~HasHeaderAt(pc[s]) BY <1>2 DEF Wanted, HasHeaderAt
<1> QED BY <1>1, <1>4, <1>5, <1>6, <1>7, LockStep

LEMMA CrashKeepsLocks ==
  ASSUME TypeInv, LockInv, NEW p, Crash(p)
  PROVE  LockInv'
<1>1. scene' = scene /\ Proc' = Proc /\ Apart' = Apart BY DEF Crash, Proc, Apart
<1>2. ASSUME NEW t \in Sessions, Proc[t] # p
      PROVE  /\ InBase(t)' => Holds(t, 0)'
             /\ HasHeader(t)' => Holds(t, mem[t].offset)'
  <2>1. pc'[t] = pc[t] /\ mem'[t] = mem[t] BY <1>2 DEF Crash
  <2>2. \A q \in Regions : fcntl[q] = Proc[t] => fcntl'[q] = Proc[t] BY <1>2 DEF Crash
  <2>3. flock = t => flock' = t BY <1>2 DEF Crash
  <2>4. \A q \in Regions : Holds(t, q) => Holds(t, q)' BY <1>1, <2>2, <2>3 DEF Holds
  <2>5. InBase(t)' => Holds(t, 0)' BY <2>1, <2>4, RegionsTyped DEF LockInv, InBase
  <2>6. HasHeader(t)' => Holds(t, mem[t].offset)'
    <3>1. SUFFICES ASSUME HasHeader(t)' PROVE Holds(t, mem[t].offset)' OBVIOUS
    <3>2. HasHeader(t) BY <2>1, <3>1 DEF HasHeader
    <3>3. PICK o \in Regions : o = mem[t].offset /\ Holds(t, o)
      BY <3>2, OffsetTyped DEF LockInv
    <3>4. Holds(t, o)' BY <2>4, <3>3
    <3> QED BY <2>1, <3>3, <3>4 DEF Holds
  <2> QED BY <2>5, <2>6
<1>3. ASSUME NEW t \in Sessions, Proc[t] = p
      PROVE  ~InBase(t)' /\ ~HasHeader(t)'
  <2>1. pc'[t] = "idle" BY <1>3 DEF Crash
  <2> QED BY <2>1 DEF InBase, InBaseAt, HasHeader, HasHeaderAt, Replying, Adding, Editing, Purging
<1> QED BY <1>2, <1>3 DEF LockInv

LEMMA LocksAdding ==
  ASSUME TypeInv, LockInv, \A c \in Scenes : Guarded(c), NEW s \in Sessions,
         \/ \E op \in {"post", "reply"}, n \in 0..MaxNumber : PostLock(s, op, n)
         \/ ThreadFind(s) \/ ThreadLock(s) \/ ThreadLink(s)
         \/ PostFails(s) \/ PostStatus(s) \/ PostHeader(s)
         \/ PostIndexFails(s) \/ PostIndex(s) \/ PostCommit(s)
  PROVE  LockInv'
<1> USE DEF InBaseAt, HasHeaderAt, Replying, Adding, Editing, Purging
<1>1. ASSUME NEW op \in {"post", "reply"}, NEW n \in 0..MaxNumber, PostLock(s, op, n)
      PROVE LockInv'
  <2>1. Lock(s, 0) /\ UNCHANGED history BY <1>1 DEF PostLock
  <2>2. scene' = scene BY <2>1 DEF history
  <2>3. \E place \in {"post", "thread"} : \E m : Moved(s, place, m) BY <1>1, Moves DEF PostLock
  <2>4. PICK place \in {"post", "thread"} : Moved(s, place, mem'[s]) BY <2>3 DEF Moved
  <2> QED BY <2>1, <2>2, <2>4, RegionsTyped, LockTaken
<1>2. ASSUME ThreadFind(s) PROVE LockInv'
  <2>1. UNCHANGED locks /\ UNCHANGED history /\ pc[s] = "thread" BY <1>2 DEF ThreadFind
  <2>2. scene' = scene BY <2>1 DEF history
  <2>3. \E place \in {"link", "post"} : \E m : Moved(s, place, m) BY <1>2, Moves DEF ThreadFind
  <2>4. PICK place \in {"link", "post"} : Moved(s, place, mem'[s]) BY <2>3 DEF Moved
  <2>5. InBase(s) BY <2>1 DEF InBase
  <2> QED BY <2>1, <2>2, <2>4, <2>5, LocksStay
<1>3. ASSUME ThreadLock(s) PROVE LockInv'
  <2>1. Lock(s, mem[s].offset) /\ UNCHANGED history /\ Moved(s, "linked", mem[s]) /\ pc[s] = "link"
    BY <1>3, Moves DEF ThreadLock
  <2>2. scene' = scene BY <2>1 DEF history
  <2>3. InBase(s) BY <2>1 DEF InBase
  <2>4. mem[s].offset \in Regions BY <2>1, OffsetTyped
  <2> QED BY <2>1, <2>2, <2>3, <2>4, LockTaken
<1>4. ASSUME ThreadLink(s) PROVE LockInv'
  <2>1. Unlock(s, {mem[s].offset}) /\ UNCHANGED history /\ Moved(s, "post", mem[s]) /\ pc[s] = "linked"
    BY <1>4, Moves DEF ThreadLink
  <2>2. scene' = scene BY <2>1 DEF history
  <2>3. InBase(s) /\ HasHeader(s) BY <2>1 DEF InBase, HasHeader
  <2>4. Fits(s, "linked", mem[s]) BY <2>1, FitsNow
  <2>5. mem[s].op = "reply" /\ mem[s].op \in Ops BY <2>4 DEF Fits
  <2>6. Apart BY <2>5, GuardedNow
  <2> QED BY <2>1, <2>2, <2>3, <2>6, HeaderLeft
<1>5. ASSUME PostFails(s) \/ PostIndexFails(s) \/ PostCommit(s) PROVE LockInv'
  <2>1. Unlock(s, {0}) /\ Done(s) BY <1>5 DEF PostFails, PostIndexFails, PostCommit
  <2>2. scene' = scene BY <1>5 DEF PostFails, PostIndexFails, PostCommit, history
  <2> QED BY <2>1, <2>2, LockLeft
<1>6. ASSUME PostStatus(s) \/ PostHeader(s) \/ PostIndex(s) PROVE LockInv'
  <2>1. UNCHANGED locks /\ UNCHANGED history /\ pc[s] \in {"post", "alloc", "index"}
    BY <1>6 DEF PostStatus, PostHeader, PostIndex
  <2>2. scene' = scene BY <2>1 DEF history
  <2>3. PICK place \in {"alloc", "index", "commit"} : Moved(s, place, mem'[s])
    <3>1. ASSUME PostStatus(s) PROVE Moved(s, "alloc", mem'[s]) BY <3>1, PostStatusIs
    <3>2. ASSUME PostHeader(s) PROVE Moved(s, "index", mem'[s]) BY <3>2, PostHeaderIs
    <3>3. ASSUME PostIndex(s) PROVE Moved(s, "commit", mem'[s])
      <4>1. Moved(s, "commit", mem[s]) BY <3>3, Moves DEF PostIndex
      <4> QED BY <4>1 DEF Moved
    <3> QED BY <1>6, <3>1, <3>2, <3>3
  <2>4. InBase(s) BY <2>1 DEF InBase
  <2> QED BY <2>1, <2>2, <2>3, <2>4, LocksStay
<1> QED BY <1>1, <1>2, <1>3, <1>4, <1>5, <1>6

LEMMA LocksBegin ==
  ASSUME TypeInv, LockInv, NEW s \in Sessions,
         \/ \E n \in posted : UpdateLock(s, n) \/ KillNext(s, n)
         \/ \E n \in posted, op \in {"load", "put_header"} : FindBegin(s, op, n)
         \/ PurgeLock(s) \/ KillLock(s)
  PROVE  LockInv'
<1> USE DEF InBaseAt, HasHeaderAt, Replying, Adding, Editing, Purging
<1>1. ASSUME (\E n \in posted : UpdateLock(s, n)) \/ PurgeLock(s) \/ KillLock(s)
      PROVE  LockInv'
  <2>1. Lock(s, 0) /\ UNCHANGED history BY <1>1 DEF UpdateLock, PurgeLock, KillLock
  <2>2. scene' = scene BY <2>1 DEF history
  <2>3. \E place \in {"find", "purge", "kill"} : \E m : Moved(s, place, m)
    BY <1>1, Moves DEF UpdateLock, PurgeLock, KillLock
  <2>4. PICK place \in {"find", "purge", "kill"} : Moved(s, place, mem'[s]) BY <2>3 DEF Moved
  <2> QED BY <2>1, <2>2, <2>4, RegionsTyped, LockTaken
<1>2. ASSUME NEW n \in posted, KillNext(s, n) PROVE LockInv'
  <2>1. UNCHANGED locks /\ UNCHANGED history /\ pc[s] = "kill" BY <1>2 DEF KillNext
  <2>2. scene' = scene BY <2>1 DEF history
  <2>3. Moved(s, "find", mem'[s])
    <3>1. \E m : Moved(s, "find", m) BY <1>2, Moves DEF KillNext
    <3> QED BY <3>1 DEF Moved
  <2>4. InBase(s) BY <2>1 DEF InBase
  <2> QED BY <2>1, <2>2, <2>3, <2>4, LocksStay
<1>3. ASSUME NEW op \in {"load", "put_header"}, NEW n \in posted, FindBegin(s, op, n)
      PROVE  LockInv'
  <2> DEFINE m == [NoMem EXCEPT !.op = op, !.wanted = n,
                                !.script = IF op = "put_header" THEN HeaderOf(n) ELSE NoHeader]
  <2>1. UNCHANGED locks /\ UNCHANGED history /\ Moved(s, "find", m)
    BY <1>3, Moves DEF FindBegin
  <2>2. scene' = scene BY <2>1 DEF history
  <2>3. m.op = op BY DEF NoMem
  <2> HIDE DEF m
  <2> QED BY <2>1, <2>2, <2>3, LocksStay
<1> QED BY <1>1, <1>2, <1>3

LEMMA LocksEditing ==
  ASSUME TypeInv, LockInv, \A c \in Scenes : Guarded(c), NEW s \in Sessions,
         \/ Find(s) \/ FindNothing(s) \/ ReadHeader(s) \/ LoadDone(s)
         \/ \E deleted \in BOOLEAN : WriteHeader(s, deleted)
         \/ WriteIndex(s)
  PROVE  LockInv'
<1> USE DEF InBaseAt, HasHeaderAt, Replying, Adding, Editing, Purging
<1>1. ASSUME Find(s) PROVE LockInv'
  <2>1. /\ pc[s] = "find" /\ UNCHANGED locks /\ UNCHANGED history
        /\ Moved(s, "found", mem'[s]) /\ mem'[s].op = mem[s].op
    BY <1>1, FindIs
  <2>2. scene' = scene BY <2>1 DEF history
  <2> QED BY <2>1, <2>2, LocksStay DEF InBase
<1>2. ASSUME FindNothing(s) PROVE LockInv'
  <2>1. UNCHANGED history /\ pc[s] = "find" BY <1>2 DEF FindNothing
  <2>2. scene' = scene BY <2>1 DEF history
  <2>3. CASE mem[s].op = "kill" /\ Go(s, "kill") /\ UNCHANGED <<locks, mem>>
    <3>1. Moved(s, "kill", mem[s]) /\ UNCHANGED locks BY <2>3, Moves
    <3>2. InBase(s) BY <2>1, <2>3 DEF InBase
    <3> QED BY <2>2, <3>1, <3>2, LocksStay
  <2>4. CASE Unlock(s, {0}) /\ Done(s) BY <2>2, <2>4, LockLeft
  <2>5. CASE Done(s) /\ UNCHANGED locks
    <3>1. Moved(s, "idle", NoMem) BY <2>5, Moves
    <3> QED BY <2>2, <2>5, <3>1, LocksStay
  <2> QED BY <1>2, <2>3, <2>4, <2>5 DEF FindNothing
<1>3. ASSUME ReadHeader(s) PROVE LockInv'
  <2>1. /\ pc[s] = "found" /\ UNCHANGED history /\ Lock(s, mem[s].offset)
        /\ Moved(s, "read", mem'[s]) /\ mem'[s].op = mem[s].op /\ mem'[s].offset = mem[s].offset
    BY <1>3, ReadHeaderIs
  <2>2. scene' = scene BY <2>1 DEF history
  <2>3. mem[s].offset \in Regions BY <2>1, OffsetTyped
  <2> QED BY <2>1, <2>2, <2>3, LockTaken DEF InBase
<1>4. ASSUME LoadDone(s) PROVE LockInv'
  <2>1. Unlock(s, {mem[s].offset}) /\ Done(s) /\ UNCHANGED history BY <1>4 DEF LoadDone
  <2>2. scene' = scene BY <2>1 DEF history
  <2> QED BY <2>1, <2>2, LockLeft
<1>5. ASSUME NEW deleted \in BOOLEAN, WriteHeader(s, deleted) PROVE LockInv'
  <2>1. /\ pc[s] = "read" /\ UNCHANGED locks /\ UNCHANGED history
        /\ Moved(s, "written", mem'[s]) /\ mem'[s].op = mem[s].op /\ mem'[s].offset = mem[s].offset
    BY <1>5, WriteHeaderIs
  <2>2. scene' = scene BY <2>1 DEF history
  <2> QED BY <2>1, <2>2, LocksStay DEF InBase, HasHeader
<1>6. ASSUME WriteIndex(s) PROVE LockInv'
  <2>1. UNCHANGED history /\ pc[s] = "written" BY <1>6 DEF WriteIndex
  <2>2. scene' = scene BY <2>1 DEF history
  <2>3. CASE mem[s].op = "kill"
    <3>1. Unlock(s, {mem[s].offset}) /\ Moved(s, "kill", mem[s])
      BY <1>6, <2>3, Moves DEF WriteIndex
    <3>2. InBase(s) /\ HasHeader(s) BY <2>1, <2>3 DEF InBase, HasHeader
    <3>3. Fits(s, "written", mem[s]) BY <2>1, FitsNow
    <3>4. mem[s].op \in Ops BY <3>3 DEF Fits
    <3>5. Apart BY <2>3, <3>4, GuardedNow
    <3> QED BY <2>2, <3>1, <3>2, <3>5, HeaderLeft
  <2>4. CASE mem[s].op # "kill"
    <3>1. Done(s) /\ \E rs : Unlock(s, rs) BY <1>6, <2>4 DEF WriteIndex
    <3> QED BY <2>2, <3>1, LockLeft
  <2> QED BY <2>3, <2>4
<1> QED BY <1>1, <1>2, <1>3, <1>4, <1>5, <1>6

LEMMA LocksPurging ==
  ASSUME TypeInv, LockInv, NEW s \in Sessions,
         \/ PurgeNothing(s) \/ KillDone(s) \/ PurgeRead(s) \/ PurgeFree(s)
         \/ PurgeTruncate(s) \/ PurgeWrite(s) \/ PurgeStatus(s)
  PROVE  LockInv'
<1> USE DEF InBaseAt, HasHeaderAt, Replying, Adding, Editing, Purging
<1>1. scene' = scene
  BY PurgeFreeIs DEF PurgeNothing, KillDone, PurgeRead, PurgeTruncate, PurgeWrite, PurgeStatus, history
<1>2. ASSUME PurgeNothing(s) \/ KillDone(s) PROVE LockInv'
  <2>1. Unlock(s, {0}) /\ Done(s) BY <1>2 DEF PurgeNothing, KillDone
  <2> QED BY <1>1, <2>1, LockLeft
<1>3. ASSUME PurgeRead(s) \/ PurgeFree(s) \/ PurgeTruncate(s) PROVE LockInv'
  <2>1. UNCHANGED locks /\ pc[s] \in {"purge", "kill", "free"}
    BY <1>3 DEF PurgeRead, PurgeFree, PurgeTruncate
  <2>2. \E place \in {"free", "truncated"} : Moved(s, place, mem'[s])
    <3>1. ASSUME PurgeTruncate(s) PROVE Moved(s, "truncated", mem'[s])
      <4>1. Moved(s, "truncated", mem[s]) BY <3>1, Moves DEF PurgeTruncate
      <4> QED BY <4>1 DEF Moved
    <3>2. ASSUME PurgeRead(s) PROVE Moved(s, "free", mem'[s]) BY <3>2, PurgeReadIs
    <3>3. ASSUME PurgeFree(s) PROVE Moved(s, "free", mem'[s]) BY <3>3, PurgeFreeIs
    <3> QED BY <1>3, <3>1, <3>2, <3>3
  <2>3. InBase(s) BY <2>1 DEF InBase
  <2> QED BY <1>1, <2>1, <2>2, <2>3, LocksStay
<1>4. ASSUME NEW place \in {"rewritten", "counted"}, Then(s, place), pc[s] \in Purging PROVE LockInv'
  <2>1. CASE Go(s, place) /\ UNCHANGED <<locks, mem>>
    <3>1. Moved(s, place, mem[s]) /\ UNCHANGED locks BY <2>1, Moves
    <3>2. InBase(s) BY <1>4 DEF InBase
    <3> QED BY <1>1, <3>1, <3>2, LocksStay
  <2>2. CASE Unlock(s, {0}) /\ Done(s) BY <1>1, <2>2, LockLeft
  <2> QED BY <1>4, <2>1, <2>2 DEF Then
<1> QED BY <1>2, <1>3, <1>4 DEF PurgeWrite, PurgeStatus

LEMMA LocksUnchanged == ASSUME TypeInv, LockInv, UNCHANGED vars PROVE LockInv'
<1>1. UNCHANGED <<locks, history, pc, mem>> BY DEF vars
<1>2. scene' = scene BY <1>1 DEF history
<1>3. \A t \in Sessions : \A q : Holds(t, q) => Holds(t, q)' BY <1>1, <1>2, SameHolds
<1>4. ASSUME NEW s \in Sessions PROVE LockInv'
  <2>1. Moved(s, pc[s], mem[s]) BY <1>1, Moves
  <2> QED BY <1>1, <1>2, <2>1, LocksStay DEF InBase, HasHeader
<1>5. CASE Sessions = {} BY <1>5 DEF LockInv
<1> QED BY <1>4, <1>5

LEMMA StepKeepsLocks ==
  ASSUME TypeInv, LockInv, \A c \in Scenes : Guarded(c), [Next]_vars
  PROVE  LockInv'
<1>1. posted \subseteq 0..MaxNumber /\ 0 \in 0..MaxNumber
  BY SceneTypes DEF TypeInv, FilesOK, Numbers
<1>2. ASSUME NEW s \in Sessions,
             \/ PostLock(s, "post", 0) \/ \E n \in posted : PostLock(s, "reply", n)
             \/ ThreadFind(s) \/ ThreadLock(s) \/ ThreadLink(s)
             \/ PostFails(s) \/ PostStatus(s) \/ PostHeader(s)
             \/ PostIndexFails(s) \/ PostIndex(s) \/ PostCommit(s)
      PROVE  LockInv'
  <2>1. (PostLock(s, "post", 0) \/ \E n \in posted : PostLock(s, "reply", n))
          => \E op \in {"post", "reply"}, n \in 0..MaxNumber : PostLock(s, op, n)
    BY <1>1
  <2> QED BY <1>2, <2>1, LocksAdding
<1>3. ASSUME NEW s \in Sessions,
             \/ \E n \in posted : UpdateLock(s, n) \/ KillNext(s, n)
             \/ \E n \in posted, op \in {"load", "put_header"} : FindBegin(s, op, n)
             \/ PurgeLock(s) \/ KillLock(s)
      PROVE  LockInv'
  BY <1>3, LocksBegin
<1>4. ASSUME NEW s \in Sessions,
             \/ Find(s) \/ FindNothing(s) \/ ReadHeader(s) \/ LoadDone(s)
             \/ \E deleted \in BOOLEAN : WriteHeader(s, deleted)
             \/ WriteIndex(s)
      PROVE  LockInv'
  BY <1>4, LocksEditing
<1>5. ASSUME NEW s \in Sessions,
             \/ PurgeNothing(s) \/ KillDone(s) \/ PurgeRead(s) \/ PurgeFree(s)
             \/ PurgeTruncate(s) \/ PurgeWrite(s) \/ PurgeStatus(s)
      PROVE  LockInv'
  BY <1>5, LocksPurging
<1>6. ASSUME NEW s \in Sessions, LockRefused(s) PROVE LockInv' BY <1>6, LockRefusedKeeps
<1>7. ASSUME NEW s \in Sessions, Crash(Proc[s]) PROVE LockInv' BY <1>7, CrashKeepsLocks
<1>8. CASE UNCHANGED vars BY <1>8, LocksUnchanged
<1> QED BY <1>2, <1>3, <1>4, <1>5, <1>6, <1>7, <1>8 DEF Next

---------------------------------------------------------------------------
(* Numbers *)

\* The number taken from the status is the one after the last, until it is written back;
\* a purge writes back the last number it has read.
NumberInv ==
  /\ posted \subseteq 1..status.last_msg
  /\ \A s \in Sessions :
       /\ pc[s] \in Adding => mem[s].hdr.number = status.last_msg + 1
       /\ pc[s] \in Purging => mem[s].status.last_msg = status.last_msg

LEMMA NumberStep ==
  ASSUME NumberInv, NEW s \in Sessions, NEW place, NEW m, Moved(s, place, m),
         UNCHANGED posted, status'.last_msg = status.last_msg,
         place \in Adding => m.hdr.number = status.last_msg + 1,
         place \in Purging => m.status.last_msg = status.last_msg
  PROVE  NumberInv'
<1>1. ASSUME NEW t \in Sessions
      PROVE  /\ pc'[t] \in Adding => mem'[t].hdr.number = status'.last_msg + 1
             /\ pc'[t] \in Purging => mem'[t].status.last_msg = status'.last_msg
  <2>1. CASE t = s BY <2>1 DEF Moved
  <2>2. CASE t # s
    <3>1. pc'[t] = pc[t] /\ mem'[t] = mem[t] BY <2>2 DEF Moved
    <3> QED BY <3>1 DEF NumberInv
  <2> QED BY <2>1, <2>2
<1> QED BY <1>1 DEF NumberInv

\* The session goes where no number is at stake.
LEMMA NumberAside ==
  ASSUME NumberInv, NEW s \in Sessions, NEW place, NEW m, Moved(s, place, m),
         UNCHANGED <<posted, status>>, place \notin Adding \union Purging
  PROVE  NumberInv'
BY NumberStep

LEMMA PlacesAside ==
  {"idle", "thread", "link", "linked", "post", "find", "found", "read", "written", "purge", "kill"}
    \intersect (Adding \union Purging) = {}
BY DEF Adding, Purging

LEMMA NumberAdding ==
  ASSUME TypeInv, LockInv, NumberInv, NEW s \in Sessions,
         \/ \E op \in {"post", "reply"}, n \in 0..MaxNumber : PostLock(s, op, n)
         \/ ThreadFind(s) \/ ThreadLock(s) \/ ThreadLink(s)
         \/ PostFails(s) \/ PostStatus(s) \/ PostHeader(s)
         \/ PostIndexFails(s) \/ PostIndex(s)
  PROVE  NumberInv'
<1>1. ASSUME \/ \E op \in {"post", "reply"}, n \in 0..MaxNumber : PostLock(s, op, n)
             \/ ThreadFind(s) \/ ThreadLock(s) \/ ThreadLink(s) \/ PostFails(s) \/ PostIndexFails(s)
      PROVE  NumberInv'
  <2>1. UNCHANGED <<posted, status>>
    BY <1>1 DEF PostLock, ThreadFind, ThreadLock, ThreadLink, PostFails, PostIndexFails, files, history
  <2>2. \E place \in {"idle", "thread", "link", "linked", "post"} : \E m : Moved(s, place, m)
    <3>1. ASSUME NEW op \in {"post", "reply"}, NEW n \in 0..MaxNumber, PostLock(s, op, n)
          PROVE  \E place \in {"thread", "post"} : \E m : Moved(s, place, m)
      BY <3>1, Moves DEF PostLock
    <3>2. ASSUME ThreadFind(s) PROVE \E place \in {"link", "post"} : \E m : Moved(s, place, m)
      BY <3>2, Moves DEF ThreadFind
    <3>3. ASSUME ThreadLock(s) PROVE Moved(s, "linked", mem[s]) BY <3>3, Moves DEF ThreadLock
    <3>4. ASSUME ThreadLink(s) PROVE Moved(s, "post", mem[s]) BY <3>4, Moves DEF ThreadLink
    <3>5. ASSUME PostFails(s) \/ PostIndexFails(s) PROVE Moved(s, "idle", NoMem)
      BY <3>5, Moves DEF PostFails, PostIndexFails
    <3> QED BY <1>1, <3>1, <3>2, <3>3, <3>4, <3>5
  <2> QED BY <2>1, <2>2, PlacesAside, NumberAside
<1>2. ASSUME PostStatus(s) PROVE NumberInv'
  <2>1. UNCHANGED <<files, history>> /\ Moved(s, "alloc", mem'[s])
        /\ mem'[s].hdr.number = status.last_msg + 1
    BY <1>2, PostStatusIs
  <2>2. UNCHANGED <<posted, status>> /\ "alloc" \notin Purging BY <2>1 DEF files, history, Purging
  <2> QED BY <2>1, <2>2, NumberStep
<1>3. ASSUME PostHeader(s) \/ PostIndex(s) PROVE NumberInv'
  <2>1. /\ UNCHANGED <<status, history>> /\ pc[s] \in {"alloc", "index"}
        /\ mem'[s].hdr = mem[s].hdr
        /\ \E place \in {"index", "commit"} : Moved(s, place, mem'[s])
    <3>1. CASE PostHeader(s) BY <3>1, PostHeaderIs
    <3>2. CASE PostIndex(s)
      <4>1. Moved(s, "commit", mem[s]) BY <3>2, Moves DEF PostIndex
      <4>2. Moved(s, "commit", mem'[s]) /\ mem'[s] = mem[s] BY <4>1 DEF Moved
      <4> QED BY <3>2, <4>2 DEF PostIndex
    <3> QED BY <1>3, <3>1, <3>2
  <2>2. mem[s].hdr.number = status.last_msg + 1 BY <2>1 DEF NumberInv, Adding
  <2>3. UNCHANGED <<posted, status>> /\ "index" \notin Purging /\ "commit" \notin Purging
    BY <2>1 DEF history, Purging
  <2> QED BY <2>1, <2>2, <2>3, NumberStep
<1> QED BY <1>1, <1>2, <1>3

\* The number is given out: no other session has taken one, or read the status to purge.
LEMMA NumberCommit ==
  ASSUME TypeInv, LockInv, NumberInv, NEW s \in Sessions, PostCommit(s)
  PROVE  NumberInv' /\ mem[s].hdr.number \notin posted
<1>1. pc[s] = "commit" /\ Moved(s, "idle", NoMem)
      /\ status' = [last_msg |-> mem[s].hdr.number, total_msgs |-> mem[s].slot]
      /\ posted' = posted \union {mem[s].hdr.number}
  BY Moves DEF PostCommit
<1>2. InBase(s) BY <1>1 DEF InBase, InBaseAt, Adding
<1>3. mem[s].hdr.number = status.last_msg + 1 BY <1>1 DEF NumberInv, Adding
<1>4. status.last_msg \in Nat BY SceneTypes DEF TypeInv, FilesOK, Status
<1>5. posted' \subseteq 1..status'.last_msg /\ mem[s].hdr.number \notin posted
  <2>1. status'.last_msg = status.last_msg + 1 BY <1>1, <1>3
  <2>2. posted \subseteq 1..status.last_msg BY DEF NumberInv
  <2>3. 1..(status.last_msg + 1) = (1..status.last_msg) \union {status.last_msg + 1}
    BY <1>4
  <2>4. mem[s].hdr.number \notin 1..status.last_msg BY <1>3, <1>4
  <2> QED BY <1>1, <1>3, <2>1, <2>2, <2>3, <2>4
<1>6. ASSUME NEW t \in Sessions PROVE pc'[t] \notin Adding \union Purging
  <2>1. CASE t = s BY <1>1, <2>1, PlacesAside DEF Moved
  <2>2. CASE t # s
    <3>1. ~InBase(t) BY <1>2, <2>2, Excluded
    <3> QED BY <1>1, <2>2, <3>1 DEF Moved, InBase, InBaseAt
  <2> QED BY <2>1, <2>2
<1> QED BY <1>5, <1>6 DEF NumberInv

LEMMA NumberBegin ==
  ASSUME NumberInv, TypeInv, NEW s \in Sessions,
         \/ \E n \in posted : UpdateLock(s, n) \/ KillNext(s, n)
         \/ \E n \in posted, op \in {"load", "put_header"} : FindBegin(s, op, n)
         \/ PurgeLock(s) \/ KillLock(s)
  PROVE  NumberInv'
<1>1. UNCHANGED <<posted, status>>
  BY DEF UpdateLock, KillNext, FindBegin, PurgeLock, KillLock, files, history
<1>2. \E place \in {"find", "purge", "kill"} : \E m : Moved(s, place, m)
  BY Moves DEF UpdateLock, KillNext, FindBegin, PurgeLock, KillLock
<1> QED BY <1>1, <1>2, PlacesAside, NumberAside

LEMMA NumberEditing ==
  ASSUME NumberInv, TypeInv, NEW s \in Sessions,
         \/ Find(s) \/ FindNothing(s) \/ ReadHeader(s) \/ LoadDone(s)
         \/ \E deleted \in BOOLEAN : WriteHeader(s, deleted)
         \/ WriteIndex(s)
  PROVE  NumberInv'
<1>1. UNCHANGED <<posted, status>>
  BY DEF Find, FindNothing, ReadHeader, LoadDone, WriteHeader, WriteIndex, files, history
<1>2. \E place \in {"idle", "found", "read", "written", "kill"} : \E m : Moved(s, place, m)
  BY Moves DEF Find, FindNothing, ReadHeader, LoadDone, WriteHeader, WriteIndex
<1> QED BY <1>1, <1>2, PlacesAside, NumberAside

LEMMA NumberPurging ==
  ASSUME NumberInv, TypeInv, NEW s \in Sessions,
         \/ PurgeNothing(s) \/ KillDone(s) \/ PurgeRead(s) \/ PurgeFree(s)
         \/ PurgeTruncate(s) \/ PurgeWrite(s) \/ PurgeStatus(s)
  PROVE  NumberInv'
<1>1. ASSUME PurgeNothing(s) \/ KillDone(s) PROVE NumberInv'
  <2>1. UNCHANGED <<posted, status>> /\ Moved(s, "idle", NoMem)
    BY <1>1, Moves DEF PurgeNothing, KillDone, files, history
  <2> QED BY <2>1, PlacesAside, NumberAside
<1>2. ASSUME PurgeRead(s) PROVE NumberInv'
  <2>1. UNCHANGED <<files, history>> /\ Moved(s, "free", mem'[s]) /\ mem'[s].status = status
    BY <1>2, PurgeReadIs
  <2>2. UNCHANGED <<posted, status>> /\ "free" \notin Adding BY <2>1 DEF files, history, Adding
  <2> QED BY <2>1, <2>2, NumberStep
<1>3. ASSUME PurgeFree(s) PROVE NumberInv'
  <2>1. /\ UNCHANGED <<status, posted>> /\ Moved(s, "free", mem'[s]) /\ pc[s] = "free"
        /\ mem'[s].status = mem[s].status
    BY <1>3, PurgeFreeIs
  <2>2. "free" \notin Adding /\ mem[s].status.last_msg = status.last_msg
    BY <2>1 DEF Adding, Purging, NumberInv
  <2> QED BY <2>1, <2>2, NumberStep
<1>4. ASSUME PurgeTruncate(s) PROVE NumberInv'
  <2>1. /\ UNCHANGED <<status, history>> /\ Moved(s, "truncated", mem[s]) /\ pc[s] = "free"
    BY <1>4, Moves DEF PurgeTruncate
  <2>2. UNCHANGED posted /\ "truncated" \notin Adding /\ mem[s].status.last_msg = status.last_msg
    BY <2>1 DEF history, Adding, Purging, NumberInv
  <2> QED BY <2>1, <2>2, NumberStep
<1>5. ASSUME PurgeWrite(s) \/ PurgeStatus(s) PROVE NumberInv'
  <2>1. mem[s].status.last_msg = status.last_msg
    BY <1>5 DEF PurgeWrite, PurgeStatus, Purging, NumberInv
  <2>2. mem[s].status \in Status BY MemTyped DEF MemType
  <2>3. UNCHANGED posted /\ status'.last_msg = status.last_msg
    BY <1>5, <2>1, <2>2 DEF PurgeWrite, PurgeStatus, history, Status
  <2>4. ASSUME NEW place \in {"rewritten", "counted"}, Then(s, place) PROVE NumberInv'
    <3>1. "idle" \notin Adding \union Purging /\ place \notin Adding BY PlacesAside DEF Adding
    <3>2. Moved(s, place, mem[s]) \/ Moved(s, "idle", NoMem) BY <2>4, Moves DEF Then
    <3> QED BY <2>1, <2>3, <3>1, <3>2, NumberStep
  <2> QED BY <1>5, <2>4 DEF PurgeWrite, PurgeStatus
<1> QED BY <1>1, <1>2, <1>3, <1>4, <1>5

LEMMA NumberCrash ==
  ASSUME NumberInv, NEW p, Crash(p)
  PROVE  NumberInv'
<1>1. UNCHANGED <<posted, status>> BY DEF Crash, files
<1>2. ASSUME NEW t \in Sessions PROVE pc'[t] = "idle" \/ (pc'[t] = pc[t] /\ mem'[t] = mem[t])
  BY DEF Crash
<1> QED BY <1>1, <1>2, PlacesAside DEF NumberInv

LEMMA StepKeepsNumbers ==
  ASSUME TypeInv, LockInv, NumberInv, [Next]_vars
  PROVE  NumberInv' /\ \A s \in Sessions : PostCommit(s) => mem[s].hdr.number \notin posted
<1>1. ASSUME NEW s \in Sessions, PostCommit(s)
      PROVE  NumberInv' /\ mem[s].hdr.number \notin posted
  BY <1>1, NumberCommit
<1>2. posted \subseteq 0..MaxNumber /\ 0 \in 0..MaxNumber
  BY SceneTypes DEF TypeInv, FilesOK, Numbers
<1>3. ASSUME NEW s \in Sessions,
             \/ PostLock(s, "post", 0) \/ \E n \in posted : PostLock(s, "reply", n)
             \/ ThreadFind(s) \/ ThreadLock(s) \/ ThreadLink(s)
             \/ PostFails(s) \/ PostStatus(s) \/ PostHeader(s)
             \/ PostIndexFails(s) \/ PostIndex(s)
      PROVE  NumberInv'
  <2>1. (PostLock(s, "post", 0) \/ \E n \in posted : PostLock(s, "reply", n))
          => \E op \in {"post", "reply"}, n \in 0..MaxNumber : PostLock(s, op, n)
    BY <1>2
  <2> QED BY <1>3, <2>1, NumberAdding
<1>4. ASSUME NEW s \in Sessions,
             \/ \E n \in posted : UpdateLock(s, n) \/ KillNext(s, n)
             \/ \E n \in posted, op \in {"load", "put_header"} : FindBegin(s, op, n)
             \/ PurgeLock(s) \/ KillLock(s)
      PROVE  NumberInv'
  BY <1>4, NumberBegin
<1>5. ASSUME NEW s \in Sessions,
             \/ Find(s) \/ FindNothing(s) \/ ReadHeader(s) \/ LoadDone(s)
             \/ \E deleted \in BOOLEAN : WriteHeader(s, deleted)
             \/ WriteIndex(s)
      PROVE  NumberInv'
  BY <1>5, NumberEditing
<1>6. ASSUME NEW s \in Sessions,
             \/ PurgeNothing(s) \/ KillDone(s) \/ PurgeRead(s) \/ PurgeFree(s)
             \/ PurgeTruncate(s) \/ PurgeWrite(s) \/ PurgeStatus(s)
      PROVE  NumberInv'
  BY <1>6, NumberPurging
<1>7. ASSUME NEW s \in Sessions, LockRefused(s) PROVE NumberInv'
  <2>1. UNCHANGED <<posted, status, pc, mem>> BY <1>7 DEF LockRefused, files, history
  <2> QED BY <2>1 DEF NumberInv
<1>8. ASSUME NEW s \in Sessions, Crash(Proc[s]) PROVE NumberInv' BY <1>8, NumberCrash
<1>9. ASSUME UNCHANGED vars PROVE NumberInv'
  <2>1. UNCHANGED <<posted, status, pc, mem>> BY <1>9 DEF vars, files, history
  <2> QED BY <2>1 DEF NumberInv
<1>10. NumberInv' BY <1>1, <1>3, <1>4, <1>5, <1>6, <1>7, <1>8, <1>9 DEF Next
<1>11. \A s \in Sessions : PostCommit(s) => mem[s].hdr.number \notin posted
  <2> SUFFICES ASSUME NEW s \in Sessions, PostCommit(s) PROVE mem[s].hdr.number \notin posted
    OBVIOUS
  <2> QED BY NumberCommit
<1> QED BY <1>10, <1>11

LEMMA InitNumbers == Init => LockInv /\ NumberInv
BY DEF Init, LockInv, NumberInv, InBase, InBaseAt, HasHeader, HasHeaderAt,
       Replying, Adding, Editing, Purging

LEMMA NumberInvariant ==
  ASSUME \A c \in Scenes : Guarded(c)
  PROVE  Spec => [](TypeInv /\ LockInv /\ NumberInv)
<1>1. Init => TypeInv /\ LockInv /\ NumberInv BY InitTyped, InitNumbers
<1>2. TypeInv /\ LockInv /\ NumberInv /\ [Next]_vars => (TypeInv /\ LockInv /\ NumberInv)'
  BY StepTyped, StepKeepsLocks, StepKeepsNumbers
<1> QED BY <1>1, <1>2, PTL DEF Spec

\* No number is given to a second message: whatever the sessions do, whichever process
\* ends and whenever, if the sessions are programs of their own or do not reply and
\* do not delete all mail.
THEOREM NumbersFreshCorrect ==
  ASSUME \A c \in Scenes : Guarded(c)
  PROVE  Spec => NumbersFresh
<1>1. Spec => [](TypeInv /\ LockInv /\ NumberInv) BY NumberInvariant
<1>2. TypeInv /\ LockInv /\ NumberInv /\ [Next]_vars
        => [\A s \in Sessions : PostCommit(s) => mem[s].hdr.number \notin posted]_vars
  BY StepKeepsNumbers
<1> QED BY <1>1, <1>2, PTL DEF Spec, NumbersFresh

---------------------------------------------------------------------------
(* The index and the headers *)

Purges == Ops \intersect {"purge", "kill"} # {}

\* Messages are not purged where scripts write headers without the base lock.
NoScriptPurge(c) == "put_header" \notin c.ops \/ c.ops \intersect {"purge", "kill"} = {}

\* No process ends in the middle of an operation.
Safe == "crash" \notin Faults

Nobody(places) == \A s \in Sessions : pc[s] \notin places

\* Each record leads to a header of its own, of the message with its number.
Placed(recs) ==
  /\ \A i \in DOMAIN recs : recs[i].offset \in sha /\ shd[recs[i].offset].number = recs[i].number
  /\ \A i, j \in DOMAIN recs : recs[i].offset = recs[j].offset => i = j

NumbersIn(recs) == {recs[i].number : i \in DOMAIN recs}

\* The session that adds a message: it goes to the slot after the last one counted.
AddingInv(s) ==
  LET m == mem[s] IN
  /\ pc[s] \in Adding => m.slot = status.total_msgs + 1
  /\ pc[s] = "index" =>
       /\ m.offset \in sha /\ shd[m.offset].number = m.hdr.number
       /\ \A i \in DOMAIN sid : sid[i].offset # m.offset
       /\ Safe => shd[m.offset].deleted = m.hdr.deleted
  /\ pc[s] = "commit" =>
       /\ m.slot \in DOMAIN sid /\ sid[m.slot].number = m.hdr.number
       /\ Safe => Len(sid) = m.slot

\* A session that changes a header and its record: the record stays where it was found.
EditInv(s) ==
  LET m == mem[s] IN
  /\ pc[s] = "find" /\ m.op = "put_header" => m.wanted \in posted
  /\ pc[s] \in {"found", "read", "written"} /\ m.op # "load" =>
       /\ m.slot \in DOMAIN sid /\ sid[m.slot].offset = m.offset
       /\ m.op = "put_header" => m.slot <= status.total_msgs
  /\ pc[s] \in {"read", "written"} /\ m.op # "load" => m.hdr.number = sid[m.slot].number
  /\ pc[s] = "written" => m.op # "load" /\ (Safe => shd[m.offset].deleted = m.hdr.deleted)

\* What the kept records are, as long as no process ends.
Orderly(recs) ==
  /\ \A i, j \in DOMAIN recs : i < j => recs[i].number < recs[j].number
  /\ \A i \in DOMAIN recs : recs[i].number <= status.last_msg
  /\ \A i \in DOMAIN recs : shd[recs[i].offset].deleted = recs[i].deleted

\* The session that purges: the messages in the base are those it has kept.
PurgeInv(s) ==
  LET m == mem[s] IN
  /\ pc[s] \in Purging => Placed(m.kept) /\ (Safe => Orderly(m.kept))
  /\ pc[s] = "free" =>
       /\ posted \ purged \subseteq NumbersIn(m.kept) \union NumbersIn(m.dead)
       /\ \A i \in DOMAIN m.kept, j \in DOMAIN m.dead : m.kept[i].offset # m.dead[j].offset
  /\ pc[s] \in Purging \ {"free"} => posted \ purged \subseteq NumbersIn(m.kept)
  /\ pc[s] \in {"free", "truncated", "rewritten"} => m.status = status
  /\ pc[s] \in {"truncated", "counted"} => sid = <<>>
  /\ pc[s] = "rewritten" => sid = m.kept
  /\ pc[s] = "counted" => status.total_msgs = Len(m.kept)

SessionInv(s) == AddingInv(s) /\ EditInv(s) /\ PurgeInv(s)

\* The records and headers agree, unless headers are being freed.
PlacedInv == Nobody({"free"}) => Placed(sid)

\* Without purges, the slot is the number.
NumberedInv ==
  ~Purges => status.total_msgs = status.last_msg /\ \A i \in DOMAIN sid : sid[i].number = i

\* The messages added and not purged are among the records counted.
PostedInv ==
  Nobody(Purging) =>
    \A n \in posted \ purged : \E i \in DOMAIN sid : i <= status.total_msgs /\ sid[i].number = n

OrderInv ==
  Safe =>
    /\ Ascending
    /\ \A i \in DOMAIN sid : i <= status.total_msgs => sid[i].number <= status.last_msg
    /\ Nobody({"commit"} \union (Purging \ {"free"})) => Len(sid) = status.total_msgs

\* The session that has written this record's header, and will write the record.
Writing(i) == \E s \in Sessions : pc[s] = "written" /\ mem[s].slot = i

MarkInv ==
  Safe => \A i \in DOMAIN sid : shd[sid[i].offset].deleted = sid[i].deleted \/ Writing(i)

IndexInv == PlacedInv /\ NumberedInv /\ PostedInv /\ OrderInv /\ MarkInv

\* Nothing is said of a base left in the middle of a purge.
StoreInv ==
  /\ torn => Purges /\ ~Safe
  /\ torn \/ (IndexInv /\ \A s \in Sessions : SessionInv(s))

---------------------------------------------------------------------------
(* Who else is there *)

\* Where the operation of a session may be.
LEMMA PlaceOf ==
  ASSUME TypeInv, NEW s \in Sessions
  PROVE  /\ pc[s] \in {"purge", "kill"} \union Purging => Purges
         /\ pc[s] # "idle" /\ mem[s].op = "put_header" => "put_header" \in Ops
         /\ InBase(s) \/ pc[s] = "idle" \/ (pc[s] \in Editing /\ mem[s].op \in {"load", "put_header"})
<1>1. Fits(s, pc[s], mem[s]) BY FitsNow
<1> QED
  BY <1>1 DEF Fits, Purges, InBase, InBaseAt, Replying, Adding, Editing, Purging

\* A session that has the base locked is alone with those that load, or write a
\* header from a script.
LEMMA Bystander ==
  ASSUME TypeInv, LockInv, NEW s \in Sessions, InBase(s), NEW t \in Sessions, t # s
  PROVE  pc[t] = "idle" \/ (pc[t] \in Editing /\ mem[t].op \in {"load", "put_header"})
BY Excluded, PlaceOf

LEMMA ScriptsAlone ==
  ASSUME TypeInv, \A c \in Scenes : NoScriptPurge(c), NEW s \in Sessions,
         pc[s] # "idle", mem[s].op = "put_header"
  PROVE  ~Purges /\ Nobody({"purge", "kill"} \union Purging)
<1>1. "put_header" \in Ops BY PlaceOf
<1>2. ~Purges BY <1>1 DEF TypeInv, NoScriptPurge, Purges, Ops
<1> QED BY <1>2, PlaceOf DEF Nobody

\* Nobody purges while another session has the base locked, or while a script writes.
LEMMA NobodyPurges ==
  ASSUME TypeInv, LockInv, \A c \in Scenes : NoScriptPurge(c), NEW s \in Sessions,
         pc[s] \notin Purging,
         InBase(s) \/ (pc[s] # "idle" /\ mem[s].op = "put_header")
  PROVE  Nobody(Purging)
<1>1. CASE InBase(s)
  <2>1. \A t \in Sessions : t # s => pc[t] \notin Purging
    BY <1>1, Bystander DEF Editing, Purging
  <2> QED BY <2>1 DEF Nobody
<1>2. CASE pc[s] # "idle" /\ mem[s].op = "put_header" BY <1>2, ScriptsAlone DEF Nobody
<1> QED BY <1>1, <1>2

LEMMA NobodyMore == \A p, q : p \subseteq q /\ Nobody(q) => Nobody(p)
BY DEF Nobody

LEMMA EditorsPlace ==
  ASSUME TypeInv, NEW s \in Sessions, pc[s] \in {"found", "read", "written"}, mem[s].op # "load"
  PROVE  /\ InBase(s) \/ mem[s].op = "put_header"
         /\ pc[s] \notin Purging /\ pc[s] # "idle"
BY PlaceOf DEF Purging

\* What is said of a session is said of the files and of what it remembers.
LEMMA SceneSame == ASSUME scene' = scene PROVE Purges' = Purges /\ Safe' = Safe /\ Ops' = Ops
BY DEF Purges, Safe, Ops, Faults

LEMMA StoreNow ==
  ASSUME StoreInv, ~torn
  PROVE  /\ PlacedInv /\ NumberedInv /\ PostedInv /\ OrderInv /\ MarkInv
         /\ \A s \in Sessions : AddingInv(s) /\ EditInv(s) /\ PurgeInv(s)
BY DEF StoreInv, IndexInv, SessionInv

LEMMA StoreStep ==
  ASSUME StoreInv, scene' = scene, torn' = torn,
         ~torn => IndexInv' /\ \A s \in Sessions : SessionInv(s)'
  PROVE  StoreInv'
BY SceneSame DEF StoreInv

\* The session is at a place nothing is said about.
LEMMA AsideInv ==
  ASSUME NEW s \in Sessions, NEW place, NEW m, Moved(s, place, m),
         place \notin Adding \union Purging \union {"found", "read", "written"},
         place = "find" /\ m.op = "put_header" => m.wanted \in posted'
  PROVE  SessionInv(s)'
<1>1. pc'[s] = place /\ mem'[s] = m BY DEF Moved
<1> QED BY <1>1 DEF SessionInv, AddingInv, EditInv, PurgeInv, Adding, Purging

LEMMA SessionSame ==
  ASSUME UNCHANGED <<files, history>>, NEW t \in Sessions, SessionInv(t),
         pc'[t] = pc[t], mem'[t] = mem[t]
  PROVE  SessionInv(t)'
<1>1. UNCHANGED <<status, sid, shd, sha, posted, purged, scene>> BY DEF files, history
<1>2. Safe' = Safe BY <1>1, SceneSame
<1>3. AddingInv(t)' BY <1>1, <1>2 DEF SessionInv, AddingInv
<1>4. EditInv(t)' BY <1>1, <1>2 DEF SessionInv, EditInv
<1>5. PurgeInv(t)' BY <1>1, <1>2 DEF SessionInv, PurgeInv, Placed, Orderly, NumbersIn
<1> QED BY <1>3, <1>4, <1>5 DEF SessionInv

LEMMA CalmIndex ==
  ASSUME IndexInv, UNCHANGED <<files, history>>, NEW s \in Sessions, NEW place, NEW m,
         Moved(s, place, m), pc[s] \notin Purging \union {"commit", "written"}
  PROVE  IndexInv'
<1>1. UNCHANGED <<status, sid, shd, sha, posted, purged, scene>> BY DEF files, history
<1>2. Safe' = Safe /\ Purges' = Purges BY <1>1, SceneSame
<1>3. \A t \in Sessions : t # s => pc'[t] = pc[t] /\ mem'[t] = mem[t] BY DEF Moved
<1>4. \A p : s \in Sessions /\ pc[s] \notin p /\ Nobody(p)' => Nobody(p) BY <1>3 DEF Nobody
<1>5. PlacedInv'
  <2>1. Nobody({"free"})' => Nobody({"free"}) BY <1>4 DEF Purging
  <2> QED BY <1>1, <2>1 DEF IndexInv, PlacedInv, Placed
<1>6. NumberedInv' BY <1>1, <1>2 DEF IndexInv, NumberedInv
<1>7. PostedInv'
  <2>1. Nobody(Purging)' => Nobody(Purging) BY <1>4 DEF Purging
  <2> QED BY <1>1, <2>1 DEF IndexInv, PostedInv
<1>8. OrderInv'
  <2> DEFINE p == {"commit"} \union (Purging \ {"free"})
  <2>1. Nobody(p)' => Nobody(p)
    <3>1. pc[s] \notin p OBVIOUS
    <3>2. \A t \in Sessions : t # s => pc'[t] = pc[t] BY <1>3
    <3> QED BY <3>1, <3>2 DEF Nobody, Purging
  <2> QED BY <1>1, <1>2, <2>1 DEF IndexInv, OrderInv, Ascending
<1>9. MarkInv'
  <2>1. \A i : Writing(i) => Writing(i)' BY <1>3 DEF Writing
  <2> QED BY <1>1, <1>2, <2>1 DEF IndexInv, MarkInv
<1> QED BY <1>5, <1>6, <1>7, <1>8, <1>9 DEF IndexInv

\* A step that writes nothing to the files.
LEMMA CalmStep ==
  ASSUME StoreInv, UNCHANGED <<files, history>>, NEW s \in Sessions, NEW place, NEW m,
         Moved(s, place, m), pc[s] \notin Purging \union {"commit", "written"},
         ~torn => SessionInv(s)'
  PROVE  StoreInv'
<1>1. scene' = scene /\ torn' = torn BY DEF history
<1>2. ASSUME ~torn PROVE IndexInv' BY <1>2, CalmIndex DEF StoreInv
<1>3. ASSUME ~torn, NEW t \in Sessions PROVE SessionInv(t)'
  <2>1. CASE t = s BY <1>3, <2>1
  <2>2. CASE t # s
    <3>1. pc'[t] = pc[t] /\ mem'[t] = mem[t] BY <2>2 DEF Moved
    <3> QED BY <1>3, <3>1, SessionSame DEF StoreInv
  <2> QED BY <2>1, <2>2
<1> QED BY <1>1, <1>2, <1>3, StoreStep

LEMMA AsideStep ==
  ASSUME StoreInv, UNCHANGED <<files, history>>, NEW s \in Sessions, NEW place, NEW m,
         Moved(s, place, m), pc[s] \notin Purging \union {"commit", "written"},
         place \notin Adding \union Purging \union {"found", "read", "written"},
         place = "find" /\ m.op = "put_header" => m.wanted \in posted
  PROVE  StoreInv'
<1>1. UNCHANGED posted BY DEF history
<1>2. SessionInv(s)' BY <1>1, AsideInv
<1> QED BY <1>2, CalmStep

LEMMA AsideSteps ==
  ASSUME TypeInv, StoreInv, NEW s \in Sessions,
         \/ \E op \in {"post", "reply"}, n \in 0..MaxNumber : PostLock(s, op, n)
         \/ ThreadFind(s) \/ ThreadLock(s) \/ PostFails(s) \/ PostIndexFails(s)
         \/ \E n \in posted : UpdateLock(s, n) \/ KillNext(s, n)
         \/ \E n \in posted, op \in {"load", "put_header"} : FindBegin(s, op, n)
         \/ FindNothing(s) \/ LoadDone(s)
         \/ PurgeLock(s) \/ KillLock(s) \/ PurgeNothing(s) \/ KillDone(s)
  PROVE  StoreInv'
<1> DEFINE Aside(place, m) ==
      /\ UNCHANGED <<files, history>> /\ Moved(s, place, m)
      /\ pc[s] \notin Purging \union {"commit", "written"}
      /\ place \notin Adding \union Purging \union {"found", "read", "written"}
      /\ place = "find" /\ m.op = "put_header" => m.wanted \in posted
<1> USE DEF Adding, Purging
<1>1. ASSUME NEW op \in {"post", "reply"}, NEW n \in 0..MaxNumber, PostLock(s, op, n)
      PROVE  \E place, m : Aside(place, m)
  <2>1. UNCHANGED <<files, history>> /\ pc[s] = "idle" BY <1>1 DEF PostLock
  <2>2. PICK place \in {"thread", "post"} : Go(s, place) /\ \E m : Remember(s, m)
    BY <1>1 DEF PostLock
  <2>3. PICK m : Remember(s, m) BY <2>2
  <2>4. Moved(s, place, m) BY <2>2, <2>3, Moves
  <2>5. Aside(place, m) BY <2>1, <2>4
  <2> HIDE DEF Aside
  <2> QED BY <2>5
<1>2. ASSUME ThreadFind(s) PROVE \E place, m : Aside(place, m)
  <2>1. UNCHANGED <<files, history>> /\ pc[s] = "thread" BY <1>2 DEF ThreadFind
  <2>2. PICK place \in {"link", "post"} : Go(s, place) /\ \E m : Remember(s, m)
    BY <1>2 DEF ThreadFind
  <2>3. PICK m : Remember(s, m) BY <2>2
  <2>4. Moved(s, place, m) BY <2>2, <2>3, Moves
  <2>5. Aside(place, m) BY <2>1, <2>4
  <2> HIDE DEF Aside
  <2> QED BY <2>5
<1>3. ASSUME ThreadLock(s) \/ PostFails(s) \/ PostIndexFails(s)
      PROVE  \E place, m : Aside(place, m)
  <2>1. UNCHANGED <<files, history>> /\ pc[s] \in {"link", "post", "index"}
    BY <1>3 DEF ThreadLock, PostFails, PostIndexFails
  <2>2. (Go(s, "linked") /\ UNCHANGED mem) \/ Done(s)
    BY <1>3 DEF ThreadLock, PostFails, PostIndexFails
  <2>3. Moved(s, "linked", mem[s]) \/ Moved(s, "idle", NoMem) BY <2>2, Moves
  <2>4. Aside("linked", mem[s]) \/ Aside("idle", NoMem) BY <2>1, <2>3
  <2> HIDE DEF Aside
  <2> QED BY <2>4
<1>4. ASSUME NEW n \in posted, UpdateLock(s, n) \/ KillNext(s, n)
      PROVE  \E place, m : Aside(place, m)
  <2>1. PICK op \in {"update", "kill"} : Remember(s, [NoMem EXCEPT !.op = op, !.wanted = n])
    BY <1>4 DEF UpdateLock, KillNext
  <2>2. [NoMem EXCEPT !.op = op, !.wanted = n].op = op BY DEF NoMem
  <2>3. \E m : m.op \in {"update", "kill"} /\ Remember(s, m)
    <3> DEFINE k == [NoMem EXCEPT !.op = op, !.wanted = n]
    <3>1. k.op = op /\ Remember(s, k) BY <2>1, <2>2
    <3> HIDE DEF k
    <3> QED BY <3>1
  <2>4. UNCHANGED <<files, history>> /\ pc[s] \in {"idle", "kill"} /\ Go(s, "find")
    BY <1>4 DEF UpdateLock, KillNext
  <2>5. PICK m : m.op \in {"update", "kill"} /\ Remember(s, m) BY <2>3
  <2>6. Moved(s, "find", m) BY <2>4, <2>5, Moves
  <2>7. Aside("find", m) BY <2>4, <2>5, <2>6
  <2> HIDE DEF Aside
  <2> QED BY <2>7
<1>5. ASSUME NEW n \in posted, NEW op \in {"load", "put_header"}, FindBegin(s, op, n)
      PROVE  \E place, m : Aside(place, m)
  <2>1. PICK h : Remember(s, [NoMem EXCEPT !.op = op, !.wanted = n, !.script = h])
    BY <1>5 DEF FindBegin
  <2> DEFINE m == [NoMem EXCEPT !.op = op, !.wanted = n, !.script = h]
  <2>2. m.wanted = n BY DEF NoMem
  <2>3. UNCHANGED <<files, history>> /\ pc[s] = "idle" /\ Go(s, "find") BY <1>5 DEF FindBegin
  <2> HIDE DEF m
  <2>4. Moved(s, "find", m) BY <2>1, <2>3, Moves DEF m
  <2>5. Aside("find", m) BY <2>2, <2>3, <2>4
  <2> HIDE DEF Aside
  <2> QED BY <2>5
<1>6. ASSUME FindNothing(s) PROVE \E place, m : Aside(place, m)
  <2>1. UNCHANGED <<files, history>> /\ pc[s] = "find" BY <1>6 DEF FindNothing
  <2>2. (Go(s, "kill") /\ UNCHANGED mem) \/ Done(s) BY <1>6 DEF FindNothing
  <2>3. Moved(s, "kill", mem[s]) \/ Moved(s, "idle", NoMem) BY <2>2, Moves
  <2>4. Aside("kill", mem[s]) \/ Aside("idle", NoMem) BY <2>1, <2>3
  <2> HIDE DEF Aside
  <2> QED BY <2>4
<1>7. ASSUME LoadDone(s) \/ PurgeLock(s) \/ KillLock(s) \/ PurgeNothing(s) \/ KillDone(s)
      PROVE  \E place, m : Aside(place, m)
  <2>1. UNCHANGED <<files, history>> /\ pc[s] \in {"read", "idle", "purge", "kill"}
    BY <1>7 DEF LoadDone, PurgeLock, KillLock, PurgeNothing, KillDone
  <2>2. Done(s) \/ \E place \in {"purge", "kill"} : Go(s, place) /\ \E m : Remember(s, m)
    BY <1>7 DEF LoadDone, PurgeLock, KillLock, PurgeNothing, KillDone
  <2>3. PICK place \in {"idle", "purge", "kill"} : \E m : Moved(s, place, m)
    BY <2>2, Moves
  <2>4. PICK m : Moved(s, place, m) BY <2>3
  <2>5. Aside(place, m) BY <2>1, <2>4
  <2> HIDE DEF Aside
  <2> QED BY <2>5
<1>8. \E place, m : Aside(place, m) BY <1>1, <1>2, <1>3, <1>4, <1>5, <1>6, <1>7
<1> QED BY <1>8, AsideStep

LEMMA RefusedStep ==
  ASSUME TypeInv, StoreInv, NEW s \in Sessions, LockRefused(s)
  PROVE  StoreInv'
<1>1. UNCHANGED <<files, history, pc, mem>> BY DEF LockRefused
<1>2. Moved(s, pc[s], mem[s]) BY <1>1, Moves
<1>3. pc[s] \notin Purging \union {"commit", "written"}
  BY DEF LockRefused, Wanted, Purging
<1>4. ASSUME ~torn PROVE SessionInv(s)' BY <1>1, <1>4, SessionSame DEF StoreInv
<1> QED BY <1>1, <1>2, <1>3, <1>4, CalmStep

LEMMA UnchangedStep == ASSUME StoreInv, UNCHANGED vars PROVE StoreInv'
<1>1. UNCHANGED <<files, history, pc, mem>> BY DEF vars
<1>2. UNCHANGED <<status, sid, shd, sha, posted, purged, torn, scene>>
  BY <1>1 DEF files, history
<1>3. ASSUME ~torn, NEW t \in Sessions PROVE SessionInv(t)'
  BY <1>1, <1>3, SessionSame DEF StoreInv
<1>4. ASSUME ~torn PROVE IndexInv'
  BY <1>1, <1>2, <1>4, SceneSame
  DEF StoreInv, IndexInv, PlacedInv, Placed, NumberedInv, PostedInv, OrderInv, Ascending,
      MarkInv, Writing, Nobody
<1> QED BY <1>2, <1>3, <1>4, StoreStep

---------------------------------------------------------------------------
(* Finding a message, and what the session learns of it *)

LEMMA StatusStep ==
  ASSUME TypeInv, LockInv, StoreInv, NEW s \in Sessions, PostStatus(s)
  PROVE  StoreInv'
<1> DEFINE m == mem'[s]
<1>1. /\ pc[s] = "post" /\ UNCHANGED <<files, history>>
      /\ Moved(s, "alloc", m) /\ m.slot = status.total_msgs + 1
  BY PostStatusIs
<1> HIDE DEF m
<1>2. SessionInv(s)'
  <2>1. pc'[s] = "alloc" /\ mem'[s] = m BY <1>1 DEF Moved
  <2>2. status' = status BY <1>1 DEF files
  <2> QED BY <1>1, <2>1, <2>2 DEF SessionInv, AddingInv, EditInv, PurgeInv, Purging, Adding
<1> QED BY <1>1, <1>2, CalmStep DEF Purging

LEMMA FindStep ==
  ASSUME TypeInv, LockInv, NumberInv, StoreInv, \A c \in Scenes : NoScriptPurge(c),
         NEW s \in Sessions, Find(s)
  PROVE  StoreInv'
<1> DEFINE m == mem'[s]
<1>1. /\ pc[s] = "find" /\ UNCHANGED <<files, locks, history>>
      /\ Moved(s, "found", m) /\ m.op = mem[s].op
      /\ m.slot \in DOMAIN sid /\ m.offset = sid[m.slot].offset /\ sid[m.slot].number = mem[s].wanted
  BY FindIs
<1> HIDE DEF m
<1>2. ASSUME ~torn, m.op = "put_header" PROVE m.slot <= status.total_msgs
  <2>1. ~Purges BY <1>1, <1>2, ScriptsAlone
  <2>2. status.total_msgs = status.last_msg /\ sid[m.slot].number = m.slot
    BY <1>1, <1>2, <2>1 DEF StoreInv, IndexInv, NumberedInv
  <2>3. mem[s].wanted \in posted BY <1>1, <1>2 DEF StoreInv, SessionInv, EditInv
  <2>4. m.slot \in 1..status.last_msg BY <1>1, <2>2, <2>3 DEF NumberInv
  <2>5. status.last_msg \in Nat BY DEF TypeInv, FilesOK, Status
  <2> QED BY <2>2, <2>4, <2>5
<1>3. ASSUME ~torn PROVE SessionInv(s)'
  <2>1. pc'[s] = "found" /\ mem'[s] = m /\ sid' = sid /\ status' = status
    BY <1>1 DEF Moved, files
  <2> QED BY <1>1, <1>2, <1>3, <2>1 DEF SessionInv, AddingInv, EditInv, PurgeInv, Purging, Adding
<1> QED BY <1>1, <1>3, CalmStep DEF Purging

\* The record an editor has found is of the header it has found.
LEMMA RecordFound ==
  ASSUME TypeInv, LockInv, StoreInv, ~torn, \A c \in Scenes : NoScriptPurge(c),
         NEW s \in Sessions, pc[s] \in {"found", "read", "written"}, mem[s].op # "load"
  PROVE  /\ mem[s].slot \in DOMAIN sid /\ sid[mem[s].slot].offset = mem[s].offset
         /\ Nobody(Purging) /\ Placed(sid)
         /\ shd[mem[s].offset].number = sid[mem[s].slot].number
<1>1. mem[s].slot \in DOMAIN sid /\ sid[mem[s].slot].offset = mem[s].offset
  BY DEF StoreInv, SessionInv, EditInv
<1>2. Nobody(Purging) BY EditorsPlace, NobodyPurges
<1>3. Nobody({"free"}) BY <1>2, NobodyMore DEF Purging
<1>4. Placed(sid) BY <1>3 DEF StoreInv, IndexInv, PlacedInv
<1> QED BY <1>1, <1>2, <1>4 DEF Placed

LEMMA ReadStep ==
  ASSUME TypeInv, LockInv, StoreInv, \A c \in Scenes : NoScriptPurge(c),
         NEW s \in Sessions, ReadHeader(s)
  PROVE  StoreInv'
<1> DEFINE m == mem'[s]
<1>1. /\ pc[s] = "found" /\ UNCHANGED <<files, history>>
      /\ Moved(s, "read", m) /\ m.op = mem[s].op
      /\ m.slot = mem[s].slot /\ m.offset = mem[s].offset /\ m.hdr = shd[mem[s].offset]
  BY ReadHeaderIs
<1> HIDE DEF m
<1>2. ASSUME ~torn PROVE SessionInv(s)'
  <2>1. pc'[s] = "read" /\ mem'[s] = m /\ sid' = sid /\ status' = status
    BY <1>1 DEF Moved, files
  <2>2. m.op # "load" => /\ m.slot \in DOMAIN sid /\ sid[m.slot].offset = m.offset
                         /\ m.op = "put_header" => m.slot <= status.total_msgs
    BY <1>1, <1>2 DEF StoreInv, SessionInv, EditInv
  <2>3. m.op # "load" => m.hdr.number = sid[m.slot].number BY <1>1, <1>2, RecordFound
  <2> QED BY <2>1, <2>2, <2>3 DEF SessionInv, AddingInv, EditInv, PurgeInv, Purging, Adding
<1> QED BY <1>1, <1>2, CalmStep DEF Purging

---------------------------------------------------------------------------
(* The index is read: what is kept and what is freed *)

\* Each record picked is that of a place of its own, and each place has its record.
Picked(recs, f, places) ==
  /\ \A j \in DOMAIN recs : f[j] \in places /\ f[j] \in DOMAIN sid /\ recs[j] = sid[f[j]]
  /\ \A i, j \in DOMAIN recs : i < j => f[i] < f[j]
  /\ \A i, j \in DOMAIN recs : f[i] = f[j] => i = j
  /\ \A i \in places : \E j \in DOMAIN recs : f[j] = i

LEMMA PickedAre ==
  ASSUME TypeInv, NEW places \in SUBSET (DOMAIN sid), NEW recs, NEW f,
         Picks(recs, f, places, IdxRec)
  PROVE  Picked(recs, f, places)
<1>1. DOMAIN recs = 1..Len(recs) /\ Len(recs) = Cardinality(places) /\ Len(recs) \in Nat
  BY DEF Picks
<1>2. \A j \in DOMAIN recs : f[j] \in places /\ f[j] \in DOMAIN sid /\ recs[j] = sid[f[j]]
  BY <1>1 DEF Picks, Lists
<1>3. \A i, j \in DOMAIN recs : i < j => f[i] < f[j] BY <1>1 DEF Picks, Lists
<1>4. \A i \in places : \E j \in DOMAIN recs : f[j] = i BY <1>1 DEF Picks, Lists
<1>5. ASSUME NEW i \in DOMAIN recs, NEW j \in DOMAIN recs, f[i] = f[j] PROVE i = j
  <2>1. i \in Nat /\ j \in Nat BY <1>1
  <2>2. DOMAIN sid = 1..Len(sid) /\ Len(sid) \in Nat BY DEF TypeInv, FilesOK
  <2>3. f[i] \in Nat /\ f[j] \in Nat BY <1>2, <2>2
  <2>4. i < j \/ j < i \/ i = j BY <2>1
  <2>5. ~(i < j) /\ ~(j < i) BY <1>3, <1>5, <2>3
  <2> QED BY <2>4, <2>5
<1> QED BY <1>2, <1>3, <1>4, <1>5 DEF Picked

LEMMA PickedPlaced ==
  ASSUME TypeInv, NEW places \in SUBSET (DOMAIN sid), NEW recs, NEW f,
         Picked(recs, f, places), Placed(sid)
  PROVE  Placed(recs)
<1>1. ASSUME NEW i \in DOMAIN recs
      PROVE  recs[i].offset \in sha /\ shd[recs[i].offset].number = recs[i].number
  BY DEF Placed, Picked
<1>2. ASSUME NEW i \in DOMAIN recs, NEW j \in DOMAIN recs, recs[i].offset = recs[j].offset
      PROVE  i = j
  <2>1. f[i] \in DOMAIN sid /\ f[j] \in DOMAIN sid /\ sid[f[i]].offset = sid[f[j]].offset
    BY <1>2 DEF Picked
  <2>2. f[i] = f[j] BY <2>1 DEF Placed
  <2> QED BY <2>2 DEF Picked
<1> QED BY <1>1, <1>2 DEF Placed

\* What the session that reads the index for a purge finds, in an order that is sound.
LEMMA KeptOrderly ==
  ASSUME TypeInv, NEW places \in SUBSET (DOMAIN sid), NEW recs, NEW f,
         Picked(recs, f, places), Ascending,
         \A i \in DOMAIN sid : sid[i].number <= status.last_msg,
         \A i \in DOMAIN sid : shd[sid[i].offset].deleted = sid[i].deleted
  PROVE  Orderly(recs)
<1>1. \A i, j \in DOMAIN recs : i < j => recs[i].number < recs[j].number
  <2> SUFFICES ASSUME NEW i \in DOMAIN recs, NEW j \in DOMAIN recs, i < j
               PROVE  recs[i].number < recs[j].number
    OBVIOUS
  <2>1. f[i] \in DOMAIN sid /\ f[j] \in DOMAIN sid /\ f[i] < f[j] BY DEF Picked
  <2>2. sid[f[i]].number < sid[f[j]].number BY <2>1 DEF Ascending
  <2> QED BY <2>2 DEF Picked
<1>2. ASSUME NEW i \in DOMAIN recs
      PROVE  recs[i].number <= status.last_msg /\ shd[recs[i].offset].deleted = recs[i].deleted
  BY DEF Picked
<1> QED BY <1>1, <1>2 DEF Orderly

\* The records counted are all read.
LEMMA AllScanned ==
  ASSUME TypeInv, NEW i \in DOMAIN sid, i <= status.total_msgs
  PROVE  i \in Scanned
<1> DEFINE K == {k \in 1..(i - 1) : ~sid[k].deleted}
<1>1. i \in Nat /\ i >= 1 /\ status.total_msgs \in Nat BY DEF TypeInv, FilesOK, Status
<1>2. i - 1 \in Nat BY <1>1
<1>3. IsFiniteSet(1..(i - 1)) /\ Cardinality(1..(i - 1)) = i - 1
  BY <1>1, <1>2, FS_Interval
<1>4. Cardinality(K) \in Nat /\ Cardinality(K) <= i - 1
  <2>1. K \in SUBSET (1..(i - 1)) OBVIOUS
  <2>2. IsFiniteSet(K) /\ Cardinality(K) <= Cardinality(1..(i - 1)) BY <1>3, <2>1, FS_Subset
  <2> QED BY <1>3, <2>2, FS_CardinalityType
<1>5. KeptBefore(i) = Cardinality(K) BY DEF KeptBefore
<1> HIDE DEF K
<1>6. KeptBefore(i) < status.total_msgs BY <1>1, <1>4, <1>5
<1> QED BY <1>6 DEF Scanned

LEMMA PurgeReadStep ==
  ASSUME TypeInv, LockInv, StoreInv, \A c \in Scenes : NoScriptPurge(c),
         NEW s \in Sessions, PurgeRead(s)
  PROVE  StoreInv'
<1> DEFINE m == mem'[s]
           K == RecordsAt(KeptPlaces)
           D == RecordsAt(DeadPlaces)
<1>1. /\ pc[s] \in {"purge", "kill"} /\ UNCHANGED <<files, history>>
      /\ Moved(s, "free", m) /\ m.status = status /\ m.kept = K /\ m.dead = D
  BY PurgeReadIs
<1> HIDE DEF m, K, D
<1>2. KeptPlaces \in SUBSET (DOMAIN sid) /\ DeadPlaces \in SUBSET (DOMAIN sid)
  BY DEF KeptPlaces, DeadPlaces, Scanned
<1>3. sid \in Seq(IdxRec) BY DEF TypeInv, FilesOK
<1>4. PICK f : Picked(K, f, KeptPlaces) BY <1>2, <1>3, RecordsPicked, PickedAre DEF K
<1>5. PICK g : Picked(D, g, DeadPlaces) BY <1>2, <1>3, RecordsPicked, PickedAre DEF D
<1>6. ASSUME ~torn
      PROVE  Nobody({"free", "truncated", "rewritten", "counted", "commit", "written"})
  <2>1. InBase(s) BY <1>1 DEF InBase, InBaseAt
  <2>2. ASSUME NEW t \in Sessions
        PROVE  pc[t] \notin {"free", "truncated", "rewritten", "counted", "commit", "written"}
    <3>1. CASE t = s BY <1>1, <3>1
    <3>2. CASE t # s
      <4>1. pc[t] = "idle" \/ (pc[t] \in Editing /\ mem[t].op \in {"load", "put_header"})
        BY <2>1, <3>2, Bystander
      <4>2. ~Nobody({"purge", "kill"} \union Purging) BY <1>1 DEF Nobody
      <4>3. pc[t] # "idle" => mem[t].op # "put_header" BY <4>2, ScriptsAlone
      <4>4. ~(pc[t] = "written" /\ mem[t].op = "load")
        BY <1>6 DEF StoreInv, SessionInv, EditInv
      <4> QED BY <4>1, <4>3, <4>4 DEF Editing
    <3> QED BY <3>1, <3>2
  <2> QED BY <2>2 DEF Nobody
<1>7. ASSUME ~torn PROVE SessionInv(s)'
  <2>1. Placed(sid)
    <3>1. Nobody({"free"}) BY <1>6, <1>7 DEF Nobody
    <3> QED BY <1>7, <3>1 DEF StoreInv, IndexInv, PlacedInv
  <2>2. Placed(K) BY <1>2, <1>4, <2>1, PickedPlaced
  <2>3. ASSUME Safe PROVE Orderly(K)
    <3>1. OrderInv /\ MarkInv BY <1>7 DEF StoreInv, IndexInv
    <3>2. Nobody({"commit"} \union (Purging \ {"free"})) BY <1>6, <1>7 DEF Nobody, Purging
    <3>3. Ascending /\ Len(sid) = status.total_msgs BY <2>3, <3>1, <3>2 DEF OrderInv
    <3>4. \A i \in DOMAIN sid : i <= status.total_msgs BY <1>3, <3>3
    <3>5. \A i \in DOMAIN sid : sid[i].number <= status.last_msg BY <2>3, <3>1, <3>4 DEF OrderInv
    <3>6. \A i : ~Writing(i) BY <1>6, <1>7 DEF Nobody, Writing
    <3>7. \A i \in DOMAIN sid : shd[sid[i].offset].deleted = sid[i].deleted
      BY <2>3, <3>1, <3>6 DEF MarkInv
    <3> QED BY <1>2, <1>4, <3>3, <3>5, <3>7, KeptOrderly
  <2>4. ASSUME NEW n \in posted \ purged PROVE n \in NumbersIn(K) \union NumbersIn(D)
    <3>1. Nobody(Purging) BY <1>6, <1>7 DEF Nobody, Purging
    <3>2. PICK i \in DOMAIN sid : i <= status.total_msgs /\ sid[i].number = n
      BY <1>7, <2>4, <3>1 DEF StoreInv, IndexInv, PostedInv
    <3>3. i \in KeptPlaces \/ i \in DeadPlaces BY <3>2, AllScanned DEF KeptPlaces, DeadPlaces
    <3>4. CASE i \in KeptPlaces
      <4>1. \E j \in DOMAIN K : f[j] = i /\ K[j] = sid[i] BY <1>4, <3>4 DEF Picked
      <4> QED BY <3>2, <4>1 DEF NumbersIn
    <3>5. CASE i \in DeadPlaces
      <4>1. \E j \in DOMAIN D : g[j] = i /\ D[j] = sid[i] BY <1>5, <3>5 DEF Picked
      <4> QED BY <3>2, <4>1 DEF NumbersIn
    <3> QED BY <3>3, <3>4, <3>5
  <2>5. ASSUME NEW i \in DOMAIN K, NEW j \in DOMAIN D PROVE K[i].offset # D[j].offset
    <3>1. f[i] \in KeptPlaces /\ f[i] \in DOMAIN sid /\ K[i] = sid[f[i]]
      BY <1>4 DEF Picked
    <3>2. g[j] \in DeadPlaces /\ g[j] \in DOMAIN sid /\ D[j] = sid[g[j]]
      BY <1>5 DEF Picked
    <3>3. f[i] # g[j] BY <3>1, <3>2 DEF KeptPlaces, DeadPlaces
    <3> QED BY <2>1, <3>1, <3>2, <3>3 DEF Placed
  <2>6. pc'[s] = "free" /\ mem'[s] = m BY <1>1 DEF Moved
  <2>7. UNCHANGED <<status, sid, shd, sha, posted, purged, scene>> BY <1>1 DEF files, history
  <2>9. PurgeInv(s)'
    BY <1>1, <2>2, <2>3, <2>4, <2>5, <2>6, <2>7, SceneSame
    DEF PurgeInv, Placed, Orderly, NumbersIn, Purging
  <2>10. AddingInv(s)' /\ EditInv(s)' BY <2>6 DEF AddingInv, EditInv, Adding
  <2> QED BY <2>9, <2>10 DEF SessionInv
<1> QED BY <1>1, <1>7, CalmStep DEF Purging

---------------------------------------------------------------------------
(* Headers are written *)

\* While a session has the base locked, nobody purges, and nobody else adds a message.
LEMMA OthersEdit ==
  ASSUME TypeInv, LockInv, \A c \in Scenes : NoScriptPurge(c), NEW s \in Sessions, InBase(s),
         pc[s] \notin Purging
  PROVE  Nobody(Purging) /\ \A t \in Sessions : t # s => pc[t] \notin Adding
<1>1. Nobody(Purging) BY NobodyPurges
<1>2. \A t \in Sessions : t # s => pc[t] \notin Adding BY Bystander DEF Editing, Adding
<1> QED BY <1>1, <1>2

\* The numbers and marks of the headers that records lead to stay as they are.
HeadersStay ==
  \A i \in DOMAIN sid :
    /\ shd'[sid[i].offset].number = shd[sid[i].offset].number
    /\ shd'[sid[i].offset].deleted = shd[sid[i].offset].deleted

LEMMA HeaderStep ==
  ASSUME TypeInv, LockInv, StoreInv, \A c \in Scenes : NoScriptPurge(c),
         NEW s \in Sessions, NEW place, NEW m, Moved(s, place, m),
         InBase(s), pc[s] \notin Purging \union {"commit", "written"},
         place \notin Purging \union {"commit", "written"},
         UNCHANGED <<status, sid, history>>, sha \subseteq sha',
         ~torn => HeadersStay /\ SessionInv(s)'
  PROVE  StoreInv'
<1>1. scene' = scene /\ torn' = torn /\ UNCHANGED <<posted, purged>> BY DEF history
<1>2. Safe' = Safe /\ Purges' = Purges BY <1>1, SceneSame
<1>3. Nobody(Purging) /\ \A t \in Sessions : t # s => pc[t] \notin Adding BY OthersEdit
<1>4. \A t \in Sessions : t # s => pc'[t] = pc[t] /\ mem'[t] = mem[t] BY DEF Moved
<1>5. pc'[s] = place BY DEF Moved
<1>6. ASSUME ~torn PROVE IndexInv'
  <2>1. Placed(sid)
    <3>1. Nobody({"free"}) BY <1>3, NobodyMore DEF Purging
    <3> QED BY <1>6, <3>1 DEF StoreInv, IndexInv, PlacedInv
  <2>2. Placed(sid)' BY <1>6, <2>1 DEF Placed, HeadersStay
  <2>3. NumberedInv' BY <1>2, <1>6 DEF StoreInv, IndexInv, NumberedInv
  <2>4. PostedInv' BY <1>1, <1>3, <1>6 DEF StoreInv, IndexInv, PostedInv
  <2>5. OrderInv'
    <3> DEFINE p == {"commit"} \union (Purging \ {"free"})
    <3>1. Nobody(p)' => Nobody(p)
      <4>1. pc[s] \notin p OBVIOUS
      <4> QED BY <4>1, <1>4 DEF Nobody, Purging
    <3> QED BY <1>2, <1>6, <3>1 DEF StoreInv, IndexInv, OrderInv, Ascending
  <2>6. MarkInv'
    <3>1. \A i : Writing(i) => Writing(i)' BY <1>4 DEF Writing
    <3> QED BY <1>2, <1>6, <3>1 DEF StoreInv, IndexInv, MarkInv, HeadersStay
  <2> QED BY <2>2, <2>3, <2>4, <2>5, <2>6 DEF IndexInv, PlacedInv
<1>7. ASSUME ~torn, NEW t \in Sessions PROVE SessionInv(t)'
  <2>1. CASE t = s BY <1>7, <2>1
  <2>2. CASE t # s
    <3>1. pc'[t] = pc[t] /\ mem'[t] = mem[t] /\ pc[t] \notin Adding /\ pc[t] \notin Purging
      BY <1>3, <1>4, <2>2 DEF Nobody
    <3>2. AddingInv(t)' BY <3>1 DEF AddingInv, Adding
    <3>3. PurgeInv(t)' BY <3>1 DEF PurgeInv, Purging
    <3>4. EditInv(t)
      BY <1>7 DEF StoreInv, SessionInv
    <3>5. pc[t] = "written" => shd'[mem[t].offset].deleted = shd[mem[t].offset].deleted
      BY <1>7, <3>4 DEF EditInv, HeadersStay
    <3>6. EditInv(t)' BY <1>1, <1>2, <3>1, <3>4, <3>5 DEF EditInv
    <3> QED BY <3>2, <3>3, <3>6 DEF SessionInv
  <2> QED BY <2>1, <2>2
<1> QED BY <1>1, <1>6, <1>7, StoreStep

LEMMA PostHeaderStep ==
  ASSUME TypeInv, LockInv, StoreInv, \A c \in Scenes : NoScriptPurge(c),
         NEW s \in Sessions, PostHeader(s)
  PROVE  StoreInv'
<1> DEFINE m == mem'[s]
           o == m.offset
<1>1. /\ pc[s] = "alloc" /\ UNCHANGED <<status, sid, history>>
      /\ Moved(s, "index", m)
      /\ m.slot = mem[s].slot /\ m.hdr = mem[s].hdr
      /\ o \in Offsets /\ o \notin sha /\ sha' = sha \union {o}
      /\ shd' = [shd EXCEPT ![o] = mem[s].hdr]
  BY PostHeaderIs
<1> HIDE DEF m, o
<1>2. InBase(s) /\ pc[s] \notin Purging BY <1>1 DEF InBase, InBaseAt, Adding, Purging
<1>3. shd'[o] = mem[s].hdr /\ \A p : p # o => shd'[p] = shd[p]
  BY <1>1 DEF TypeInv, FilesOK
<1>4. ASSUME ~torn PROVE \A i \in DOMAIN sid : sid[i].offset # o
  <2>1. Nobody({"free"}) BY <1>2, OthersEdit, NobodyMore DEF Purging
  <2> QED BY <1>1, <1>4, <2>1 DEF StoreInv, IndexInv, PlacedInv, Placed
<1>5. ASSUME ~torn PROVE HeadersStay BY <1>3, <1>4, <1>5 DEF HeadersStay
<1>6. ASSUME ~torn PROVE SessionInv(s)'
  <2>1. pc'[s] = "index" /\ mem'[s] = m BY <1>1 DEF Moved
  <2>2. m.slot = status.total_msgs + 1
    BY <1>1, <1>6 DEF StoreInv, SessionInv, AddingInv, Adding
  <2>3. o \in sha' /\ shd'[o].number = m.hdr.number /\ shd'[o].deleted = m.hdr.deleted
    BY <1>1, <1>3
  <2>4. AddingInv(s)' BY <1>1, <1>4, <1>6, <2>1, <2>2, <2>3 DEF AddingInv, Adding, o
  <2>5. EditInv(s)' /\ PurgeInv(s)' BY <2>1 DEF EditInv, PurgeInv, Purging
  <2> QED BY <2>4, <2>5 DEF SessionInv
<1> QED BY <1>1, <1>2, <1>5, <1>6, HeaderStep DEF Purging

LEMMA LinkStep ==
  ASSUME TypeInv, LockInv, StoreInv, \A c \in Scenes : NoScriptPurge(c),
         NEW s \in Sessions, ThreadLink(s)
  PROVE  StoreInv'
<1>1. /\ pc[s] = "linked" /\ UNCHANGED <<status, sid, sha, history>> /\ Moved(s, "post", mem[s])
  BY Moves DEF ThreadLink
<1>2. InBase(s) BY <1>1 DEF InBase, InBaseAt, Replying
<1>3. HeadersStay
  <2>1. /\ mem[s].offset \in Offsets
        /\ Linked(s).number = shd[mem[s].offset].number
        /\ Linked(s).deleted = shd[mem[s].offset].deleted
        /\ shd' = [shd EXCEPT ![mem[s].offset] = Linked(s)]
    BY ThreadLinkTyped
  <2>2. DOMAIN shd = Offsets BY DEF TypeInv, FilesOK
  <2>3. ASSUME NEW o PROVE shd'[o].number = shd[o].number /\ shd'[o].deleted = shd[o].deleted
    <3>1. CASE o = mem[s].offset BY <2>1, <2>2, <3>1
    <3>2. CASE o # mem[s].offset BY <2>1, <2>2, <3>2
    <3> QED BY <3>1, <3>2
  <2> QED BY <2>3 DEF HeadersStay
<1>4. SessionInv(s)' BY <1>1, AsideInv DEF Adding, Purging
<1> QED BY <1>1, <1>2, <1>3, <1>4, HeaderStep DEF Purging

\* A session that is not purging moves within its operation: what the index relies on.
LEMMA NobodyStays ==
  ASSUME NEW s \in Sessions, NEW place, NEW m, Moved(s, place, m)
  PROVE  /\ \A p : pc[s] \notin p /\ Nobody(p)' => Nobody(p)
         /\ \A p : place \notin p /\ Nobody(p) => Nobody(p)'
         /\ \A i : pc[s] # "written" \/ mem[s].slot # i => (Writing(i) => Writing(i)')
<1>1. \A t \in Sessions : t # s => pc'[t] = pc[t] /\ mem'[t] = mem[t] BY DEF Moved
<1>2. pc'[s] = place BY DEF Moved
<1>3. \A p : pc[s] \notin p /\ Nobody(p)' => Nobody(p) BY <1>1 DEF Nobody
<1>4. \A p : place \notin p /\ Nobody(p) => Nobody(p)' BY <1>1, <1>2 DEF Nobody
<1>5. \A i : pc[s] # "written" \/ mem[s].slot # i => (Writing(i) => Writing(i)')
  BY <1>1 DEF Writing
<1> QED BY <1>3, <1>4, <1>5

LEMMA WriteHeaderStep ==
  ASSUME TypeInv, LockInv, StoreInv, \A c \in Scenes : NoScriptPurge(c),
         NEW s \in Sessions, NEW deleted \in BOOLEAN, WriteHeader(s, deleted)
  PROVE  StoreInv'
<1> DEFINE m == mem'[s]
           o == mem[s].offset
           i0 == mem[s].slot
<1>1. /\ pc[s] = "read" /\ UNCHANGED <<status, sid, sha, history>> /\ mem[s].op # "load"
      /\ o \in Offsets /\ shd' = [shd EXCEPT ![o] = m.hdr]
      /\ Moved(s, "written", m) /\ m.op = mem[s].op
      /\ m.slot = i0 /\ m.offset = o /\ m.hdr.number = mem[s].hdr.number
  BY WriteHeaderIs
<1> HIDE DEF m
<1>2. UNCHANGED <<posted, purged, torn, scene>> BY <1>1 DEF history
<1>3. Safe' = Safe /\ Purges' = Purges BY <1>2, SceneSame
<1>4. shd'[o] = m.hdr /\ \A p : p # o => shd'[p] = shd[p]
  BY <1>1 DEF TypeInv, FilesOK
<1>5. pc'[s] = "written" /\ mem'[s] = m
      /\ \A t \in Sessions : t # s => pc'[t] = pc[t] /\ mem'[t] = mem[t]
  BY <1>1 DEF Moved
<1>6. ASSUME ~torn
      PROVE  /\ i0 \in DOMAIN sid /\ sid[i0].offset = o /\ Nobody(Purging) /\ Placed(sid)
             /\ m.hdr.number = shd[o].number /\ m.hdr.number = sid[i0].number
  <2>1. /\ i0 \in DOMAIN sid /\ sid[i0].offset = o /\ Nobody(Purging) /\ Placed(sid)
        /\ shd[o].number = sid[i0].number
    BY <1>1, <1>6, RecordFound
  <2>2. mem[s].hdr.number = sid[i0].number
    BY <1>1, <1>6 DEF StoreInv, SessionInv, EditInv
  <2> QED BY <1>1, <2>1, <2>2
<1> HIDE DEF i0, o
<1>7. ASSUME ~torn PROVE IndexInv'
  <2>1. PlacedInv' BY <1>1, <1>4, <1>6, <1>7 DEF PlacedInv, Placed
  <2>2. NumberedInv' BY <1>1, <1>3, <1>7 DEF StoreInv, IndexInv, NumberedInv
  <2>3. PostedInv' BY <1>1, <1>2, <1>6, <1>7 DEF StoreInv, IndexInv, PostedInv
  <2>4. OrderInv'
    <3> DEFINE p == {"commit"} \union (Purging \ {"free"})
    <3>1. Nobody(p)' => Nobody(p) BY <1>1, NobodyStays DEF Purging
    <3> QED BY <1>1, <1>3, <1>7, <3>1 DEF StoreInv, IndexInv, OrderInv, Ascending
  <2>5. ASSUME Safe', NEW i \in DOMAIN sid
        PROVE  shd'[sid[i].offset].deleted = sid[i].deleted \/ Writing(i)'
    <3>1. CASE i = i0 BY <1>1, <1>5, <3>1 DEF Writing
    <3>2. CASE i # i0
      <4>1. sid[i].offset # o BY <1>6, <1>7, <3>2 DEF Placed
      <4>2. shd'[sid[i].offset].deleted = shd[sid[i].offset].deleted BY <1>4, <4>1
      <4>3. Writing(i) => Writing(i)' BY <1>1, NobodyStays
      <4> QED BY <1>3, <1>7, <2>5, <4>2, <4>3 DEF StoreInv, IndexInv, MarkInv
    <3> QED BY <3>1, <3>2
  <2>6. MarkInv' BY <1>1, <2>5 DEF MarkInv
  <2> QED BY <2>1, <2>2, <2>3, <2>4, <2>6 DEF IndexInv
<1>8. ASSUME ~torn, NEW t \in Sessions PROVE SessionInv(t)'
  <2>1. CASE t = s
    <3>1. EditInv(s) BY <1>8 DEF StoreInv, SessionInv
    <3>2. m.op = "put_header" => i0 <= status.total_msgs BY <1>1, <3>1 DEF EditInv, i0
    <3>3. EditInv(s)'
      BY <1>1, <1>3, <1>4, <1>5, <1>6, <1>8, <3>2 DEF EditInv
    <3>4. AddingInv(s)' /\ PurgeInv(s)' BY <1>5 DEF AddingInv, PurgeInv, Adding, Purging
    <3> QED BY <2>1, <3>3, <3>4 DEF SessionInv
  <2>2. CASE t # s
    <3>1. pc'[t] = pc[t] /\ mem'[t] = mem[t] /\ pc[t] \notin Purging
      BY <1>5, <1>6, <1>8, <2>2 DEF Nobody
    <3>2. AddingInv(t) /\ EditInv(t) BY <1>8 DEF StoreInv, SessionInv
    <3>3. PurgeInv(t)' BY <3>1 DEF PurgeInv, Purging
    <3>4. AddingInv(t)'
      <4>1. pc[t] = "index" => mem[t].offset # o BY <1>6, <1>8, <3>2 DEF AddingInv
      <4> QED BY <1>1, <1>3, <1>4, <3>1, <3>2, <4>1 DEF AddingInv
    <3>5. EditInv(t)'
      <4>1. pc[t] = "written" => mem[t].offset # o
        BY <1>1, <2>2, Excluded DEF HasHeader, HasHeaderAt, o
      <4> QED BY <1>1, <1>2, <1>3, <1>4, <3>1, <3>2, <4>1 DEF EditInv
    <3> QED BY <3>3, <3>4, <3>5 DEF SessionInv
  <2> QED BY <2>1, <2>2
<1> QED BY <1>2, <1>7, <1>8, StoreStep

---------------------------------------------------------------------------
(* The index is written *)

\* The record is written where it was found: its number and its offset stay.
LEMMA WriteIndexIs ==
  ASSUME TypeInv, LockInv, StoreInv, ~torn, \A c \in Scenes : NoScriptPurge(c),
         NEW s \in Sessions, WriteIndex(s)
  PROVE  /\ mem[s].slot \in DOMAIN sid /\ sid[mem[s].slot].offset = mem[s].offset
         /\ Nobody(Purging) /\ Placed(sid)
         /\ mem[s].hdr.number = sid[mem[s].slot].number
         /\ Safe => shd[sid[mem[s].slot].offset].deleted = mem[s].hdr.deleted
         /\ DOMAIN sid' = DOMAIN sid /\ Len(sid') = Len(sid)
         /\ \A i \in DOMAIN sid : /\ sid'[i].offset = sid[i].offset
                                  /\ sid'[i].number = sid[i].number
                                  /\ i # mem[s].slot => sid'[i] = sid[i]
         /\ sid'[mem[s].slot].deleted = mem[s].hdr.deleted
<1> DEFINE i0 == mem[s].slot
           rec == RecordFor(mem[s])
<1>1. pc[s] = "written" BY DEF WriteIndex
<1>2. /\ i0 \in DOMAIN sid /\ sid[i0].offset = mem[s].offset
      /\ Nobody(Purging) /\ Placed(sid)
      /\ mem[s].hdr.number = sid[i0].number
      /\ Safe => shd[sid[i0].offset].deleted = mem[s].hdr.deleted
  <2>1. mem[s].op # "load" /\ EditInv(s) BY <1>1 DEF StoreInv, SessionInv, EditInv
  <2>2. /\ i0 \in DOMAIN sid /\ sid[i0].offset = mem[s].offset /\ Nobody(Purging) /\ Placed(sid)
    BY <1>1, <2>1, RecordFound
  <2>3. /\ mem[s].hdr.number = sid[i0].number
        /\ Safe => shd[mem[s].offset].deleted = mem[s].hdr.deleted
    BY <1>1, <2>1 DEF EditInv
  <2> QED BY <2>2, <2>3
<1>3. /\ DOMAIN sid' = DOMAIN sid /\ Len(sid') = Len(sid)
      /\ \A i \in DOMAIN sid : /\ sid'[i].offset = sid[i].offset
                               /\ sid'[i].number = sid[i].number
                               /\ i # i0 => sid'[i] = sid[i]
      /\ sid'[i0].deleted = mem[s].hdr.deleted
  <2>1. sid \in Seq(IdxRec) /\ i0 \in 1..Len(sid) /\ Len(sid) \in Nat
    BY <1>2 DEF TypeInv, FilesOK
  <2>2. Put(i0, rec)
    <3>1. ~(i0 > Len(sid) + 1) BY <2>1
    <3> QED BY <3>1 DEF WriteIndex
  <2>3. sid' = [sid EXCEPT ![i0] = rec] BY <2>1, <2>2 DEF Put
  <2>4. rec.number = sid[i0].number /\ rec.offset = sid[i0].offset /\ rec.deleted = mem[s].hdr.deleted
    BY <1>2 DEF RecordFor
  <2> HIDE DEF rec, i0
  <2>5. DOMAIN sid' = DOMAIN sid /\ Len(sid') = Len(sid) BY <2>1, <2>3
  <2>6. ASSUME NEW i \in DOMAIN sid
        PROVE  /\ sid'[i].offset = sid[i].offset /\ sid'[i].number = sid[i].number
               /\ i # i0 => sid'[i] = sid[i]
    BY <2>1, <2>3, <2>4
  <2>7. sid'[i0].deleted = mem[s].hdr.deleted BY <2>1, <2>3, <2>4
  <2> QED BY <2>5, <2>6, <2>7
<1> QED BY <1>2, <1>3

LEMMA WriteIndexStep ==
  ASSUME TypeInv, LockInv, StoreInv, \A c \in Scenes : NoScriptPurge(c),
         NEW s \in Sessions, WriteIndex(s)
  PROVE  StoreInv'
<1> DEFINE i0 == mem[s].slot
<1>1. pc[s] = "written" /\ UNCHANGED <<status, shd, sha, history>> BY DEF WriteIndex
<1>2. UNCHANGED <<posted, purged, torn, scene>> BY <1>1 DEF history
<1>3. Safe' = Safe /\ Purges' = Purges BY <1>2, SceneSame
<1>4. PICK place \in {"idle", "kill"}, m \in {NoMem, mem[s]} : Moved(s, place, m)
  <2>1. (Go(s, "kill") /\ UNCHANGED mem) \/ Done(s) BY DEF WriteIndex
  <2>2. Moved(s, "kill", mem[s]) \/ Moved(s, "idle", NoMem) BY <2>1, Moves
  <2> QED BY <2>2
<1>5. pc'[s] = place /\ \A t \in Sessions : t # s => pc'[t] = pc[t] /\ mem'[t] = mem[t]
  BY <1>4 DEF Moved
<1>6. ASSUME ~torn
      PROVE  /\ i0 \in DOMAIN sid /\ sid[i0].offset = mem[s].offset
             /\ Nobody(Purging) /\ Placed(sid)
             /\ mem[s].hdr.number = sid[i0].number
             /\ Safe => shd[sid[i0].offset].deleted = mem[s].hdr.deleted
  BY <1>6, WriteIndexIs
<1>7. ASSUME ~torn
      PROVE  /\ DOMAIN sid' = DOMAIN sid /\ Len(sid') = Len(sid)
             /\ \A i \in DOMAIN sid : /\ sid'[i].offset = sid[i].offset
                                      /\ sid'[i].number = sid[i].number
                                      /\ i # i0 => sid'[i] = sid[i]
             /\ sid'[i0].deleted = mem[s].hdr.deleted
  BY <1>7, WriteIndexIs
<1> HIDE DEF i0
<1>8. ASSUME ~torn PROVE IndexInv'
  <2>1. PlacedInv' BY <1>1, <1>6, <1>7, <1>8 DEF PlacedInv, Placed
  <2>2. NumberedInv' BY <1>1, <1>3, <1>7, <1>8 DEF StoreInv, IndexInv, NumberedInv
  <2>3. PostedInv' BY <1>1, <1>2, <1>6, <1>7, <1>8 DEF StoreInv, IndexInv, PostedInv
  <2>4. OrderInv'
    <3> DEFINE p == {"commit"} \union (Purging \ {"free"})
    <3>1. Nobody(p)' => Nobody(p) BY <1>1, <1>4, NobodyStays DEF Purging
    <3> QED BY <1>1, <1>3, <1>7, <1>8, <3>1 DEF StoreInv, IndexInv, OrderInv, Ascending
  <2>5. ASSUME Safe', NEW i \in DOMAIN sid'
        PROVE  shd'[sid'[i].offset].deleted = sid'[i].deleted \/ Writing(i)'
    <3>1. CASE i = i0 BY <1>1, <1>3, <1>6, <1>7, <1>8, <2>5, <3>1
    <3>2. CASE i # i0
      <4>1. Writing(i) => Writing(i)' BY <1>4, <3>2, NobodyStays DEF i0
      <4>2. shd[sid[i].offset].deleted = sid[i].deleted \/ Writing(i)
        BY <1>3, <1>7, <1>8, <2>5 DEF StoreInv, IndexInv, MarkInv
      <4> QED BY <1>1, <1>7, <1>8, <2>5, <3>2, <4>1, <4>2
    <3> QED BY <3>1, <3>2
  <2>6. MarkInv' BY <2>5 DEF MarkInv
  <2> QED BY <2>1, <2>2, <2>3, <2>4, <2>6 DEF IndexInv
<1>9. ASSUME ~torn, NEW t \in Sessions PROVE SessionInv(t)'
  <2>1. CASE t = s BY <1>4, <2>1, AsideInv DEF Adding, Purging
  <2>2. CASE t # s
    <3>1. pc'[t] = pc[t] /\ mem'[t] = mem[t] /\ pc[t] \notin Purging
      BY <1>5, <1>6, <1>9, <2>2 DEF Nobody
    <3>2. AddingInv(t) /\ EditInv(t) BY <1>9 DEF StoreInv, SessionInv
    <3>3. PurgeInv(t)' BY <3>1 DEF PurgeInv, Purging
    <3>4. AddingInv(t)' BY <1>1, <1>3, <1>7, <1>9, <3>1, <3>2 DEF AddingInv
    <3>5. EditInv(t)' BY <1>1, <1>2, <1>3, <1>7, <1>9, <3>1, <3>2 DEF EditInv
    <3> QED BY <3>3, <3>4, <3>5 DEF SessionInv
  <2> QED BY <2>1, <2>2
<1> QED BY <1>2, <1>8, <1>9, StoreStep

\* The session that adds a message: the files as it found them.
LEMMA AddingFound ==
  ASSUME TypeInv, LockInv, NumberInv, StoreInv, ~torn, \A c \in Scenes : NoScriptPurge(c),
         NEW s \in Sessions, pc[s] \in {"index", "commit"}
  PROVE  /\ Nobody(Purging) /\ \A t \in Sessions : t # s => pc[t] \notin Adding
         /\ mem[s].slot = status.total_msgs + 1 /\ mem[s].hdr.number = status.last_msg + 1
         /\ Placed(sid) /\ status.total_msgs \in Nat /\ status.last_msg \in Nat
         /\ status.total_msgs <= status.last_msg
<1>1. InBase(s) /\ pc[s] \notin Purging BY DEF InBase, InBaseAt, Adding, Purging
<1>2. Nobody(Purging) /\ \A t \in Sessions : t # s => pc[t] \notin Adding BY <1>1, OthersEdit
<1>3. mem[s].slot = status.total_msgs + 1 BY DEF StoreInv, SessionInv, AddingInv, Adding
<1>4. mem[s].hdr.number = status.last_msg + 1 BY DEF NumberInv, Adding
<1>5. Nobody({"free"}) BY <1>2, NobodyMore DEF Purging
<1>6. Placed(sid) BY <1>5 DEF StoreInv, IndexInv, PlacedInv
<1>7. status.total_msgs \in Nat /\ status.last_msg \in Nat /\ status.total_msgs <= status.last_msg
  BY DEF TypeInv, FilesOK, Status
<1> QED BY <1>2, <1>3, <1>4, <1>6, <1>7

LEMMA PostIndexStep ==
  ASSUME TypeInv, LockInv, NumberInv, StoreInv, \A c \in Scenes : NoScriptPurge(c),
         NEW s \in Sessions, PostIndex(s)
  PROVE  StoreInv'
<1> DEFINE slot == mem[s].slot
           rec == RecordFor(mem[s])
           o == mem[s].offset
           n == mem[s].hdr.number
<1>1. /\ pc[s] = "index" /\ UNCHANGED <<status, shd, sha, history>> /\ Put(slot, rec)
      /\ Moved(s, "commit", mem[s])
  BY Moves DEF PostIndex
<1>2. UNCHANGED <<posted, purged, torn, scene>> BY <1>1 DEF history
<1>3. Safe' = Safe /\ Purges' = Purges BY <1>2, SceneSame
<1>4. pc'[s] = "commit" /\ mem'[s] = mem[s]
      /\ \A t \in Sessions : t # s => pc'[t] = pc[t] /\ mem'[t] = mem[t]
  BY <1>1 DEF Moved
<1>5. rec.number = n /\ rec.offset = o /\ rec.deleted = mem[s].hdr.deleted BY DEF RecordFor
<1>6. ASSUME ~torn
      PROVE  /\ Nobody(Purging) /\ \A t \in Sessions : t # s => pc[t] \notin Adding
             /\ slot = status.total_msgs + 1 /\ n = status.last_msg + 1
             /\ Placed(sid) /\ status.total_msgs \in Nat /\ status.last_msg \in Nat
  BY <1>1, <1>6, AddingFound
<1>7. ASSUME ~torn
      PROVE  /\ o \in sha /\ shd[o].number = n /\ \A i \in DOMAIN sid : sid[i].offset # o
             /\ Safe => shd[o].deleted = mem[s].hdr.deleted
  BY <1>1, <1>7 DEF StoreInv, SessionInv, AddingInv
<1>8. /\ slot \in DOMAIN sid' /\ sid'[slot] = rec
      /\ \A j \in DOMAIN sid' : j # slot => j \in DOMAIN sid /\ sid'[j] = sid[j]
      /\ \A j \in DOMAIN sid : j \in DOMAIN sid'
      /\ Len(sid') = (IF slot <= Len(sid) THEN Len(sid) ELSE Len(sid) + 1)
      /\ Len(sid) \in Nat /\ DOMAIN sid = 1..Len(sid)
  <2>1. Fits(s, pc[s], mem[s]) BY FitsNow
  <2>2. mem[s].hdr.number # 0 /\ Written(mem[s].offset) /\ slot \in Numbers
    <3>1. mem[s].hdr.number \in Numbers /\ slot \in 1..mem[s].hdr.number /\ Written(mem[s].offset)
      BY <1>1, <2>1 DEF Fits, Adding
    <3> QED BY <3>1, SceneTypes DEF Numbers
  <2>3. rec \in IdxRec BY <2>2, RecordForTyped
  <2>4. sid \in Seq(IdxRec) BY DEF TypeInv, FilesOK
  <2> HIDE DEF rec, slot
  <2> QED BY <1>1, <2>2, <2>3, <2>4, PutIs
<1> HIDE DEF slot, rec, o, n
<1>9. ASSUME ~torn PROVE IndexInv'
  <2>1. PlacedInv'
    <3>1. ASSUME NEW i \in DOMAIN sid'
          PROVE  sid'[i].offset \in sha /\ shd[sid'[i].offset].number = sid'[i].number
      BY <1>5, <1>6, <1>7, <1>8, <1>9 DEF Placed
    <3>2. ASSUME NEW i \in DOMAIN sid', NEW j \in DOMAIN sid', sid'[i].offset = sid'[j].offset
          PROVE  i = j
      BY <1>5, <1>6, <1>7, <1>8, <1>9, <3>2 DEF Placed
    <3> QED BY <1>1, <3>1, <3>2 DEF PlacedInv, Placed
  <2>2. NumberedInv'
    <3> SUFFICES ASSUME ~Purges
                 PROVE  /\ status.total_msgs = status.last_msg
                        /\ \A i \in DOMAIN sid' : sid'[i].number = i
      BY <1>1, <1>3 DEF NumberedInv
    <3>1. status.total_msgs = status.last_msg /\ \A i \in DOMAIN sid : sid[i].number = i
      BY <1>9 DEF StoreInv, IndexInv, NumberedInv
    <3> QED BY <1>5, <1>6, <1>8, <1>9, <3>1
  <2>3. PostedInv'
    <3>1. ASSUME NEW k \in posted \ purged
          PROVE  \E i \in DOMAIN sid' : i <= status.total_msgs /\ sid'[i].number = k
      <4>1. PICK i \in DOMAIN sid : i <= status.total_msgs /\ sid[i].number = k
        BY <1>6, <1>9, <3>1 DEF StoreInv, IndexInv, PostedInv
      <4>2. i # slot BY <1>6, <1>8, <1>9, <4>1
      <4> QED BY <1>8, <4>1, <4>2
    <3> QED BY <1>1, <1>2, <3>1 DEF PostedInv
  <2>4. OrderInv'
    <3> SUFFICES ASSUME Safe
                 PROVE  /\ Ascending'
                        /\ \A i \in DOMAIN sid' : i <= status.total_msgs => sid'[i].number <= status.last_msg
      BY <1>1, <1>3, <1>4 DEF OrderInv, Nobody
    <3>1. Ascending
          /\ \A i \in DOMAIN sid : i <= status.total_msgs => sid[i].number <= status.last_msg
      BY <1>9 DEF StoreInv, IndexInv, OrderInv
    <3>2. Len(sid) = status.total_msgs
      <4>1. Nobody({"commit"} \union (Purging \ {"free"}))
        BY <1>1, <1>6, <1>9 DEF Nobody, Adding
      <4> QED BY <1>9, <4>1 DEF StoreInv, IndexInv, OrderInv
    <3>3. \A i \in DOMAIN sid : i < slot /\ sid[i].number <= status.last_msg
      BY <1>6, <1>8, <1>9, <3>1, <3>2
    <3>4. \A i \in DOMAIN sid : sid[i].number \in Nat
      BY RecordTyped DEF Numbers
    <3>5. ASSUME NEW i \in DOMAIN sid', NEW j \in DOMAIN sid', i < j
          PROVE  sid'[i].number < sid'[j].number
      <4>1. DOMAIN sid' \subseteq 1..(Len(sid) + 1) /\ slot = Len(sid) + 1
        BY <1>6, <1>8, <1>9, <3>2
      <4>2. i # slot BY <1>8, <3>5, <4>1
      <4>3. i \in DOMAIN sid /\ sid'[i] = sid[i] BY <1>8, <4>2
      <4>4. CASE j = slot BY <1>5, <1>6, <1>8, <1>9, <3>3, <3>4, <4>3, <4>4
      <4>5. CASE j # slot BY <1>8, <3>1, <3>5, <4>3, <4>5 DEF Ascending
      <4> QED BY <4>4, <4>5
    <3>6. ASSUME NEW i \in DOMAIN sid', i <= status.total_msgs
          PROVE  sid'[i].number <= status.last_msg
      <4>1. i # slot BY <1>6, <1>9, <3>6
      <4> QED BY <1>8, <3>1, <3>6, <4>1
    <3> QED BY <3>5, <3>6 DEF Ascending
  <2>5. ASSUME Safe', NEW i \in DOMAIN sid'
        PROVE  shd'[sid'[i].offset].deleted = sid'[i].deleted \/ Writing(i)'
    <3>1. CASE i = slot BY <1>1, <1>3, <1>5, <1>7, <1>8, <1>9, <2>5, <3>1
    <3>2. CASE i # slot
      <4>1. Writing(i) => Writing(i)' BY <1>1, NobodyStays
      <4>2. i \in DOMAIN sid /\ sid'[i] = sid[i] BY <1>8, <3>2
      <4>3. shd[sid[i].offset].deleted = sid[i].deleted \/ Writing(i)
        BY <1>3, <1>9, <2>5, <4>2 DEF StoreInv, IndexInv, MarkInv
      <4> QED BY <1>1, <4>1, <4>2, <4>3
    <3> QED BY <3>1, <3>2
  <2>6. MarkInv' BY <2>5 DEF MarkInv
  <2> QED BY <2>1, <2>2, <2>3, <2>4, <2>6 DEF IndexInv
<1>10. ASSUME ~torn, NEW t \in Sessions PROVE SessionInv(t)'
  <2>1. CASE t = s
    <3>1. AddingInv(s)'
      <4>1. sid'[slot].number = n BY <1>5, <1>8
      <4>2. Safe => Len(sid') = slot
        <5>1. Nobody({"commit"} \union (Purging \ {"free"}))
          BY <1>1, <1>6, <1>10 DEF Nobody, Adding
        <5>2. Safe => Len(sid) = status.total_msgs BY <1>10, <5>1 DEF StoreInv, IndexInv, OrderInv
        <5> QED BY <1>6, <1>8, <1>10, <5>2
      <4> QED BY <1>1, <1>3, <1>4, <1>6, <1>8, <1>10, <4>1, <4>2 DEF AddingInv, slot, n
    <3>2. EditInv(s)' /\ PurgeInv(s)' BY <1>4 DEF EditInv, PurgeInv, Purging
    <3> QED BY <2>1, <3>1, <3>2 DEF SessionInv
  <2>2. CASE t # s
    <3>1. pc'[t] = pc[t] /\ mem'[t] = mem[t] /\ pc[t] \notin Purging /\ pc[t] \notin Adding
      BY <1>4, <1>6, <1>10, <2>2 DEF Nobody
    <3>2. EditInv(t) BY <1>10 DEF StoreInv, SessionInv
    <3>3. PurgeInv(t)' /\ AddingInv(t)' BY <3>1 DEF PurgeInv, Purging, AddingInv, Adding
    <3>4. pc[t] \in {"found", "read", "written"} /\ mem[t].op # "load"
            => /\ mem[t].slot \in DOMAIN sid /\ mem[t].slot \in DOMAIN sid'
               /\ sid'[mem[t].slot] = sid[mem[t].slot]
      <4> SUFFICES ASSUME pc[t] \in {"found", "read", "written"}, mem[t].op # "load"
                   PROVE  /\ mem[t].slot \in DOMAIN sid /\ mem[t].slot \in DOMAIN sid'
                          /\ sid'[mem[t].slot] = sid[mem[t].slot]
        OBVIOUS
      <4>1. InBase(s) BY <1>1 DEF InBase, InBaseAt, Adding
      <4>2. mem[t].op = "put_header" BY <2>2, <4>1, Bystander
      <4>3. mem[t].slot \in DOMAIN sid /\ mem[t].slot <= status.total_msgs BY <3>2, <4>2 DEF EditInv
      <4>4. mem[t].slot # slot BY <1>6, <1>8, <1>10, <4>3
      <4> QED BY <1>8, <4>3, <4>4
    <3>5. EditInv(t)' BY <1>1, <1>2, <1>3, <3>1, <3>2, <3>4 DEF EditInv
    <3> QED BY <3>3, <3>5 DEF SessionInv
  <2> QED BY <2>1, <2>2
<1> QED BY <1>2, <1>9, <1>10, StoreStep

LEMMA PostCommitStep ==
  ASSUME TypeInv, LockInv, NumberInv, StoreInv, \A c \in Scenes : NoScriptPurge(c),
         NEW s \in Sessions, PostCommit(s)
  PROVE  StoreInv'
<1> DEFINE slot == mem[s].slot
           n == mem[s].hdr.number
<1>1. /\ pc[s] = "commit" /\ status' = [last_msg |-> n, total_msgs |-> slot]
      /\ posted' = posted \union {n} /\ UNCHANGED <<sid, shd, sha, purged, torn, scene>>
      /\ Moved(s, "idle", NoMem)
  BY Moves DEF PostCommit
<1>2. status'.last_msg = n /\ status'.total_msgs = slot BY <1>1
<1>3. Safe' = Safe /\ Purges' = Purges BY <1>1, SceneSame
<1>4. pc'[s] = "idle" /\ \A t \in Sessions : t # s => pc'[t] = pc[t] /\ mem'[t] = mem[t]
  BY <1>1 DEF Moved
<1>5. ASSUME ~torn
      PROVE  /\ Nobody(Purging) /\ \A t \in Sessions : t # s => pc[t] \notin Adding
             /\ slot = status.total_msgs + 1 /\ n = status.last_msg + 1
             /\ Placed(sid) /\ status.total_msgs \in Nat /\ status.last_msg \in Nat
  BY <1>1, <1>5, AddingFound
<1>6. ASSUME ~torn
      PROVE  slot \in DOMAIN sid /\ sid[slot].number = n /\ (Safe => Len(sid) = slot)
  BY <1>1, <1>6 DEF StoreInv, SessionInv, AddingInv
<1> HIDE DEF slot, n
<1>7. ASSUME ~torn PROVE IndexInv'
  <2>1. PlacedInv' BY <1>1, <1>5, <1>7 DEF PlacedInv, Placed
  <2>2. NumberedInv'
    BY <1>1, <1>2, <1>3, <1>5, <1>7 DEF StoreInv, IndexInv, NumberedInv
  <2>3. PostedInv'
    <3>1. ASSUME NEW k \in posted' \ purged'
          PROVE  \E i \in DOMAIN sid : i <= slot /\ sid[i].number = k
      <4>1. CASE k = n
        <5>1. slot \in Nat BY <1>5, <1>7
        <5> QED BY <1>6, <1>7, <4>1, <5>1
      <4>2. CASE k # n
        <5>1. k \in posted \ purged BY <1>1, <3>1, <4>2
        <5>2. PICK i \in DOMAIN sid : i <= status.total_msgs /\ sid[i].number = k
          BY <1>5, <1>7, <5>1 DEF StoreInv, IndexInv, PostedInv
        <5>3. i \in Nat BY DEF TypeInv, FilesOK
        <5> QED BY <1>5, <1>7, <5>2, <5>3
      <4> QED BY <4>1, <4>2
    <3> QED BY <1>1, <1>2, <3>1 DEF PostedInv
  <2>4. OrderInv'
    <3> SUFFICES ASSUME Safe
                 PROVE  /\ Ascending
                        /\ \A i \in DOMAIN sid : i <= slot => sid[i].number <= n
                        /\ Len(sid) = slot
      BY <1>1, <1>2, <1>3 DEF OrderInv, Ascending
    <3>1. Ascending
          /\ \A i \in DOMAIN sid : i <= status.total_msgs => sid[i].number <= status.last_msg
      BY <1>7 DEF StoreInv, IndexInv, OrderInv
    <3>2. \A i \in DOMAIN sid : i \in Nat /\ sid[i].number \in Nat
      <4>1. \A i \in DOMAIN sid : i \in Numbers /\ sid[i].number \in Numbers BY RecordTyped
      <4> QED BY <4>1 DEF Numbers
    <3>3. ASSUME NEW i \in DOMAIN sid, i <= slot PROVE sid[i].number <= n
      <4>1. i \in Nat /\ sid[i].number \in Nat BY <3>2
      <4>2. CASE i = slot BY <1>5, <1>6, <1>7, <4>2
      <4>3. CASE i # slot
        <5>1. i <= status.total_msgs BY <1>5, <1>7, <3>3, <4>1, <4>3
        <5> QED BY <1>5, <1>7, <3>1, <4>1, <5>1
      <4> QED BY <4>2, <4>3
    <3> QED BY <1>6, <1>7, <3>1, <3>3
  <2>5. MarkInv'
    <3>1. \A i : Writing(i) => Writing(i)' BY <1>1, NobodyStays
    <3> QED BY <1>1, <1>3, <1>7, <3>1 DEF StoreInv, IndexInv, MarkInv
  <2> QED BY <2>1, <2>2, <2>3, <2>4, <2>5 DEF IndexInv
<1>8. ASSUME ~torn, NEW t \in Sessions PROVE SessionInv(t)'
  <2>1. CASE t = s BY <1>1, <2>1, AsideInv DEF Adding, Purging
  <2>2. CASE t # s
    <3>1. pc'[t] = pc[t] /\ mem'[t] = mem[t] /\ pc[t] \notin Purging /\ pc[t] \notin Adding
      BY <1>4, <1>5, <1>8, <2>2 DEF Nobody
    <3>2. EditInv(t) BY <1>8 DEF StoreInv, SessionInv
    <3>3. PurgeInv(t)' /\ AddingInv(t)' BY <3>1 DEF PurgeInv, Purging, AddingInv, Adding
    <3>4. mem[t].slot \in Nat
      <4>1. mem[t] \in MemType BY MemTyped
      <4> QED BY <4>1, SceneTypes DEF MemType
    <3>5. mem[t].slot <= status.total_msgs => mem[t].slot <= status'.total_msgs
      BY <1>2, <1>5, <1>8, <3>4
    <3>6. EditInv(t)' BY <1>1, <1>3, <3>1, <3>2, <3>5 DEF EditInv
    <3> QED BY <3>3, <3>6 DEF SessionInv
  <2> QED BY <2>1, <2>2
<1> QED BY <1>1, <1>7, <1>8, StoreStep

---------------------------------------------------------------------------
(* The index is purged *)

\* Nobody but sessions that load a message is there while one purges.
LEMMA PurgingAlone ==
  ASSUME TypeInv, LockInv, StoreInv, ~torn, \A c \in Scenes : NoScriptPurge(c),
         NEW s \in Sessions, pc[s] \in Purging
  PROVE  /\ Purges
         /\ \A t \in Sessions : t # s =>
              pc[t] = "idle" \/ (pc[t] \in {"find", "found", "read"} /\ mem[t].op = "load")
<1>1. InBase(s) BY DEF InBase, InBaseAt
<1>2. ~Nobody({"purge", "kill"} \union Purging) BY DEF Nobody
<1>3. ASSUME NEW t \in Sessions, t # s
      PROVE  pc[t] = "idle" \/ (pc[t] \in {"find", "found", "read"} /\ mem[t].op = "load")
  <2>1. pc[t] = "idle" \/ (pc[t] \in Editing /\ mem[t].op \in {"load", "put_header"})
    BY <1>1, <1>3, Bystander
  <2>2. pc[t] # "idle" => mem[t].op # "put_header" BY <1>2, ScriptsAlone
  <2>3. ~(pc[t] = "written" /\ mem[t].op = "load") BY DEF StoreInv, SessionInv, EditInv
  <2> QED BY <2>1, <2>2, <2>3 DEF Editing
<1> QED BY <1>3, PlaceOf

\* A session that purges takes a step, and leaves the base as it should.
LEMMA PurgingStep ==
  ASSUME TypeInv, LockInv, StoreInv, \A c \in Scenes : NoScriptPurge(c),
         NEW s \in Sessions, pc[s] \in Purging, NEW place, NEW m, Moved(s, place, m),
         UNCHANGED <<torn, scene>>,
         ~torn => IndexInv' /\ SessionInv(s)'
  PROVE  StoreInv'
<1>1. ASSUME ~torn, NEW t \in Sessions PROVE SessionInv(t)'
  <2>1. CASE t = s BY <1>1, <2>1
  <2>2. CASE t # s
    <3>1. pc'[t] = pc[t] /\ mem'[t] = mem[t] BY <2>2 DEF Moved
    <3>2. pc[t] = "idle" \/ (pc[t] \in {"find", "found", "read"} /\ mem[t].op = "load")
      BY <1>1, <2>2, PurgingAlone
    <3> QED BY <3>1, <3>2 DEF SessionInv, AddingInv, EditInv, PurgeInv, Adding, Purging
  <2> QED BY <2>1, <2>2
<1> QED BY <1>1, StoreStep


\* The index holds these records, and, unless the purge goes on, as many are counted.
KeptIs(recs) ==
  /\ Purges /\ recs \in Seq(IdxRec) /\ sid = recs
  /\ Placed(recs) /\ (Safe => Orderly(recs))
  /\ Nobody(Purging) => status.total_msgs = Len(recs) /\ posted \ purged \subseteq NumbersIn(recs)
  /\ Nobody({"commit"} \union (Purging \ {"free"})) => Len(recs) = status.total_msgs

LEMMA KeptIndex == \A recs : KeptIs(recs) => IndexInv
<1> SUFFICES ASSUME NEW recs, KeptIs(recs) PROVE IndexInv OBVIOUS
<1>1. PlacedInv /\ NumberedInv BY DEF KeptIs, PlacedInv, NumberedInv
<1>2. PostedInv
  <2> SUFFICES ASSUME Nobody(Purging), NEW n \in posted \ purged
               PROVE  \E i \in DOMAIN sid : i <= status.total_msgs /\ sid[i].number = n
    BY DEF PostedInv
  <2>1. status.total_msgs = Len(sid) /\ n \in NumbersIn(sid) BY DEF KeptIs
  <2>2. PICK i \in DOMAIN sid : sid[i].number = n BY <2>1 DEF NumbersIn
  <2>3. i <= Len(sid) BY <2>2 DEF KeptIs
  <2> QED BY <2>1, <2>2, <2>3
<1>3. OrderInv BY DEF KeptIs, OrderInv, Orderly, Ascending
<1>4. MarkInv BY DEF KeptIs, MarkInv, Orderly
<1> QED BY <1>1, <1>2, <1>3, <1>4 DEF IndexInv

LEMMA KeptIndexNext == \A recs : KeptIs(recs)' => IndexInv'
<1>1. (\A recs : KeptIs(recs) => IndexInv)' BY KeptIndex, PTL
<1> QED BY <1>1

LEMMA EmptyKept == Placed(<<>>) /\ Orderly(<<>>) BY DEF Placed, Orderly

LEMMA PurgeFreeStep ==
  ASSUME TypeInv, LockInv, StoreInv, \A c \in Scenes : NoScriptPurge(c),
         NEW s \in Sessions, PurgeFree(s)
  PROVE  StoreInv'
<1>0. PICK K, D, m : K = mem[s].kept /\ D = mem[s].dead /\ m = mem'[s] OBVIOUS
<1>1. /\ pc[s] = "free" /\ D # <<>> /\ sha' = sha \ {Head(D).offset}
      /\ purged' = purged \union {Head(D).number}
      /\ UNCHANGED <<status, sid, shd, posted, torn, scene>>
      /\ Moved(s, "free", m)
  BY <1>0, PurgeFreeIs
<1>2. K \in Seq(IdxRec) /\ D \in Seq(IdxRec)
      /\ m.kept = K /\ m.dead = Tail(D) /\ m.status = mem[s].status
  <2>1. mem[s] \in MemType BY MemTyped
  <2> QED BY <1>0, <2>1, PurgeFreeIs DEF MemType
<1>3. Safe' = Safe /\ Purges' = Purges BY <1>1, SceneSame
<1>4. pc'[s] = "free" /\ mem'[s] = m
      /\ \A t \in Sessions : t # s => pc'[t] = pc[t] /\ mem'[t] = mem[t]
  BY <1>1 DEF Moved
<1>5. ~Nobody({"free"})' /\ ~Nobody(Purging)' BY <1>4 DEF Nobody, Purging
<1>6. ASSUME ~torn PROVE IndexInv'
  <2>1. PlacedInv' /\ PostedInv' BY <1>5 DEF PlacedInv, PostedInv
  <2>2. NumberedInv' BY <1>1, <1>3, <1>6 DEF StoreInv, IndexInv, NumberedInv
  <2>3. OrderInv'
    <3> DEFINE p == {"commit"} \union (Purging \ {"free"})
    <3>1. Nobody(p)' => Nobody(p) BY <1>1, NobodyStays DEF Purging
    <3> QED BY <1>1, <1>3, <1>6, <3>1 DEF StoreInv, IndexInv, OrderInv, Ascending
  <2>4. MarkInv'
    <3>1. \A i : Writing(i) => Writing(i)' BY <1>1, NobodyStays
    <3> QED BY <1>1, <1>3, <1>6, <3>1 DEF StoreInv, IndexInv, MarkInv
  <2> QED BY <2>1, <2>2, <2>3, <2>4 DEF IndexInv
<1>7. DOMAIN D = 1..Len(D) /\ Len(D) \in Nat /\ Len(D) > 0 /\ Head(D) = D[1]
      /\ DOMAIN Tail(D) = 1..(Len(D) - 1)
      /\ \A j \in DOMAIN Tail(D) : Tail(D)[j] = D[j + 1] /\ j + 1 \in DOMAIN D
  BY <1>1, <1>2
<1>8. ASSUME ~torn PROVE SessionInv(s)'
  <2>1. /\ Placed(K) /\ (Safe => Orderly(K)) /\ mem[s].status = status
        /\ posted \ purged \subseteq NumbersIn(K) \union NumbersIn(D)
        /\ \A i \in DOMAIN K, j \in DOMAIN D : K[i].offset # D[j].offset
    BY <1>0, <1>1, <1>8 DEF StoreInv, SessionInv, PurgeInv, Purging
  <2>2. Placed(K)' BY <1>1, <1>7, <2>1 DEF Placed
  <2>3. Safe' => Orderly(K)' BY <1>1, <1>3, <2>1 DEF Orderly
  <2>4. ASSUME NEW n \in posted' \ purged' PROVE n \in NumbersIn(K) \union NumbersIn(Tail(D))
    <3>1. n \in posted \ purged /\ n # D[1].number BY <1>1, <1>7, <2>4
    <3>2. CASE n \in NumbersIn(K) BY <3>2
    <3>3. CASE n \in NumbersIn(D)
      <4>1. PICK j \in DOMAIN D : D[j].number = n BY <3>3 DEF NumbersIn
      <4>2. j # 1 /\ j \in 1..Len(D) BY <1>7, <3>1, <4>1
      <4>3. j - 1 \in DOMAIN Tail(D) /\ (j - 1) + 1 = j BY <1>7, <4>2
      <4>4. Tail(D)[j - 1].number = n BY <1>7, <4>1, <4>3
      <4> QED BY <4>3, <4>4 DEF NumbersIn
    <3> QED BY <2>1, <3>1, <3>2, <3>3
  <2>5. \A i \in DOMAIN K, j \in DOMAIN Tail(D) : K[i].offset # Tail(D)[j].offset
    BY <1>7, <2>1
  <2>6. PurgeInv(s)'
    <3>1. /\ mem'[s].kept = K /\ mem'[s].dead = Tail(D) /\ mem'[s].status = status'
          /\ pc'[s] = "free"
      BY <1>1, <1>2, <1>4, <2>1
    <3>2. Placed(mem[s].kept)' BY <2>2, <3>1 DEF Placed
    <3>3. (Safe => Orderly(mem[s].kept))' BY <2>3, <3>1 DEF Orderly
    <3>4. (posted \ purged \subseteq NumbersIn(mem[s].kept) \union NumbersIn(mem[s].dead))'
      BY <2>4, <3>1 DEF NumbersIn
    <3>5. \A i \in DOMAIN mem'[s].kept, j \in DOMAIN mem'[s].dead :
            mem'[s].kept[i].offset # mem'[s].dead[j].offset
      BY <2>5, <3>1
    <3> QED BY <3>1, <3>2, <3>3, <3>4, <3>5 DEF PurgeInv, Purging
  <2>7. AddingInv(s)' /\ EditInv(s)' BY <1>4 DEF AddingInv, EditInv, Adding
  <2> QED BY <2>6, <2>7 DEF SessionInv
<1> QED BY <1>1, <1>6, <1>8, PurgingStep DEF Purging

\* The session that purges, past the headers it frees.
LEMMA PurgingNext ==
  ASSUME NEW s \in Sessions, NEW place \in {"truncated", "rewritten", "counted"}, NEW K,
         pc'[s] = place, mem'[s].kept = K,
         Placed(K)', (Safe => Orderly(K))', (posted \ purged \subseteq NumbersIn(K))',
         place \in {"truncated", "rewritten"} => (mem[s].status = status)',
         place \in {"truncated", "counted"} => sid' = <<>>,
         place = "rewritten" => sid' = K,
         place = "counted" => status'.total_msgs = Len(K)
  PROVE  SessionInv(s)'
<1>1. Placed(mem[s].kept)' BY DEF Placed
<1>2. (Safe => Orderly(mem[s].kept))' BY DEF Orderly
<1>3. (posted \ purged \subseteq NumbersIn(mem[s].kept))' BY DEF NumbersIn
<1>4. PurgeInv(s)' BY <1>1, <1>2, <1>3 DEF PurgeInv, Purging
<1>5. AddingInv(s)' /\ EditInv(s)' BY DEF AddingInv, EditInv, Adding
<1> QED BY <1>4, <1>5 DEF SessionInv

\* What is kept, past the headers it frees, stays so while nothing else is written.
LEMMA KeptStays ==
  ASSUME UNCHANGED <<shd, sha, posted, purged, scene>>, status'.last_msg = status.last_msg, NEW K
  PROVE  /\ Placed(K) => Placed(K)'
         /\ (Safe => Orderly(K)) => (Safe => Orderly(K))'
         /\ posted \ purged \subseteq NumbersIn(K) => (posted \ purged \subseteq NumbersIn(K))'
<1>1. Safe' = Safe BY SceneSame
<1>2. Placed(K) => Placed(K)' BY DEF Placed
<1>3. Orderly(K) => Orderly(K)' BY DEF Orderly
<1> QED BY <1>1, <1>2, <1>3 DEF NumbersIn

\* The records of a session that purges.
LEMMA KeptNow ==
  ASSUME TypeInv, LockInv, StoreInv, ~torn, \A c \in Scenes : NoScriptPurge(c),
         NEW s \in Sessions, pc[s] \in Purging
  PROVE  /\ Purges /\ mem[s].kept \in Seq(IdxRec) /\ Len(mem[s].kept) \in Nat
         /\ Placed(mem[s].kept) /\ (Safe => Orderly(mem[s].kept))
         /\ pc[s] # "free" \/ mem[s].dead = <<>> => posted \ purged \subseteq NumbersIn(mem[s].kept)
<1>1. PurgeInv(s) BY DEF StoreInv, SessionInv
<1>2. mem[s] \in MemType BY MemTyped
<1>3. mem[s].kept \in Seq(IdxRec) /\ Len(mem[s].kept) \in Nat BY <1>2 DEF MemType
<1>4. Placed(mem[s].kept) /\ (Safe => Orderly(mem[s].kept)) BY <1>1 DEF PurgeInv
<1>5. pc[s] # "free" => posted \ purged \subseteq NumbersIn(mem[s].kept) BY <1>1 DEF PurgeInv
<1>6. pc[s] = "free" /\ mem[s].dead = <<>> => posted \ purged \subseteq NumbersIn(mem[s].kept)
  BY <1>1 DEF PurgeInv, NumbersIn
<1> QED BY <1>3, <1>4, <1>5, <1>6, PlaceOf

LEMMA PurgeTruncateStep ==
  ASSUME TypeInv, LockInv, StoreInv, \A c \in Scenes : NoScriptPurge(c),
         NEW s \in Sessions, PurgeTruncate(s)
  PROVE  StoreInv'
<1>1. /\ pc[s] = "free" /\ mem[s].dead = <<>> /\ sid' = <<>>
      /\ UNCHANGED <<status, shd, sha, history>> /\ Moved(s, "truncated", mem[s])
  BY Moves DEF PurgeTruncate
<1>2. UNCHANGED <<posted, purged, torn, scene>> BY <1>1 DEF history
<1>3. pc'[s] = "truncated" /\ mem'[s] = mem[s] BY <1>1 DEF Moved
<1>4. PICK K : K = mem[s].kept OBVIOUS
<1>5. ASSUME ~torn
      PROVE  /\ Purges' /\ Placed(K)' /\ (Safe => Orderly(K))'
             /\ (posted \ purged \subseteq NumbersIn(K))'
             /\ mem[s].status = status
  <2>1. /\ Purges /\ Placed(K) /\ (Safe => Orderly(K)) /\ posted \ purged \subseteq NumbersIn(K)
    BY <1>1, <1>4, <1>5, KeptNow DEF Purging
  <2>2. /\ Placed(K)' /\ (Safe => Orderly(K))' /\ (posted \ purged \subseteq NumbersIn(K))'
    BY <1>1, <1>2, <2>1, KeptStays
  <2>3. mem[s].status = status BY <1>1, <1>5 DEF StoreInv, SessionInv, PurgeInv
  <2> QED BY <1>2, <2>1, <2>2, <2>3, SceneSame
<1>6. ASSUME ~torn PROVE SessionInv(s)'
  BY <1>1, <1>3, <1>4, <1>5, <1>6, PurgingNext
<1>7. ASSUME ~torn PROVE IndexInv'
  <2>1. ~Nobody(Purging)' /\ ~Nobody({"commit"} \union (Purging \ {"free"}))'
    BY <1>3 DEF Nobody, Purging
  <2>2. (Placed(<<>>) /\ Orderly(<<>>))' BY EmptyKept, PTL
  <2>3. KeptIs(<<>>)' BY <1>1, <1>5, <1>7, <2>1, <2>2 DEF KeptIs
  <2> QED BY <2>3, KeptIndexNext
<1> QED BY <1>1, <1>2, <1>6, <1>7, PurgingStep DEF Purging

\* A write of the purge goes on with it, or is the last one.
LEMMA ThenIs ==
  ASSUME TypeInv, NEW s \in Sessions, NEW place, Then(s, place)
  PROVE  \/ pc[s] = "truncated" /\ Moved(s, place, mem[s]) /\ pc'[s] = place /\ mem'[s] = mem[s]
         \/ pc[s] \in {"rewritten", "counted"} /\ Moved(s, "idle", NoMem)
<1>1. CASE pc[s] = "truncated" /\ Go(s, place) /\ UNCHANGED mem
  <2>1. Moved(s, place, mem[s]) BY <1>1, Moves
  <2> QED BY <1>1, <2>1 DEF Moved
<1>2. CASE pc[s] \in {"rewritten", "counted"} /\ Done(s) BY <1>2, Moves
<1> QED BY <1>1, <1>2 DEF Then

\* The index was empty: now it holds what was kept.
LEMMA PurgeWriteIs ==
  ASSUME TypeInv, LockInv, StoreInv, ~torn, \A c \in Scenes : NoScriptPurge(c),
         NEW s \in Sessions, PurgeWrite(s)
  PROVE  sid' = mem[s].kept
<1>1. /\ pc[s] \in {"truncated", "counted"}
      /\ sid' = mem[s].kept \o SubSeq(sid, Len(mem[s].kept) + 1, Len(sid))
  BY DEF PurgeWrite
<1>2. PICK K : K = mem[s].kept OBVIOUS
<1>3. K \in Seq(IdxRec) /\ Len(K) \in Nat BY <1>1, <1>2, KeptNow DEF Purging
<1>4. sid = <<>> BY <1>1 DEF StoreInv, SessionInv, PurgeInv
<1>5. sid \in Seq(IdxRec) /\ Len(sid) = 0 BY <1>4
<1>6. /\ sid' \in Seq(IdxRec) /\ Len(sid') = Len(K)
      /\ \A i \in DOMAIN sid' : sid'[i] = K[i]
  <2> DEFINE r == K \o SubSeq(sid, Len(K) + 1, Len(sid))
  <2>1. /\ r \in Seq(IdxRec) /\ Len(r) = (IF Len(K) <= Len(sid) THEN Len(sid) ELSE Len(K))
        /\ \A i \in DOMAIN r : r[i] = IF i <= Len(K) THEN K[i] ELSE sid[i]
    BY <1>3, <1>5, Overwritten
  <2>2. sid' = r BY <1>1, <1>2
  <2> HIDE DEF r
  <2>3. Len(r) = Len(K) BY <1>3, <1>5, <2>1
  <2>4. DOMAIN r = 1..Len(r) BY <2>1
  <2> QED BY <1>3, <2>1, <2>2, <2>3, <2>4
<1> QED BY <1>2, <1>3, <1>6

LEMMA PurgeWriteStep ==
  ASSUME TypeInv, LockInv, StoreInv, \A c \in Scenes : NoScriptPurge(c),
         NEW s \in Sessions, PurgeWrite(s)
  PROVE  StoreInv'
<1>1. /\ pc[s] \in {"truncated", "counted"} /\ UNCHANGED <<status, shd, sha, history>>
      /\ sid' = mem[s].kept \o SubSeq(sid, Len(mem[s].kept) + 1, Len(sid))
      /\ Then(s, "rewritten")
  BY DEF PurgeWrite
<1>2. UNCHANGED <<posted, purged, torn, scene>> BY <1>1 DEF history
<1>3. \/ /\ pc[s] = "truncated" /\ Moved(s, "rewritten", mem[s])
         /\ pc'[s] = "rewritten" /\ mem'[s] = mem[s]
      \/ pc[s] = "counted" /\ Moved(s, "idle", NoMem)
  BY <1>1, ThenIs
<1>4. PICK K : K = mem[s].kept OBVIOUS
<1>5. ASSUME ~torn
      PROVE  /\ Purges' /\ Placed(K)' /\ (Safe => Orderly(K))'
             /\ (posted \ purged \subseteq NumbersIn(K))'
             /\ K \in Seq(IdxRec) /\ Len(K) \in Nat /\ sid' = K
             /\ pc[s] = "truncated" => mem[s].status = status
             /\ pc[s] = "counted" => status.total_msgs = Len(K)
  <2>1. /\ Purges /\ K \in Seq(IdxRec) /\ Len(K) \in Nat
        /\ Placed(K) /\ (Safe => Orderly(K)) /\ posted \ purged \subseteq NumbersIn(K)
    BY <1>1, <1>4, <1>5, KeptNow DEF Purging
  <2>2. /\ Placed(K)' /\ (Safe => Orderly(K))' /\ (posted \ purged \subseteq NumbersIn(K))'
    BY <1>1, <1>2, <2>1, KeptStays
  <2>3. /\ sid = <<>>
        /\ pc[s] = "truncated" => mem[s].status = status
        /\ pc[s] = "counted" => status.total_msgs = Len(K)
    BY <1>1, <1>4, <1>5 DEF StoreInv, SessionInv, PurgeInv
  <2>4. sid' = K BY <1>4, <1>5, PurgeWriteIs
  <2> QED BY <1>2, <2>1, <2>2, <2>3, <2>4, SceneSame
<1>6. ASSUME ~torn PROVE SessionInv(s)'
  <2>1. CASE pc[s] = "truncated"
    <3>1. (mem[s].status = status)' BY <1>1, <1>3, <1>5, <1>6, <2>1
    <3> QED BY <1>3, <1>4, <1>5, <1>6, <2>1, <3>1, PurgingNext
  <2>2. CASE pc[s] = "counted" BY <1>3, <2>2, AsideInv DEF Adding, Purging
  <2> QED BY <1>1, <2>1, <2>2
<1>7. ASSUME ~torn PROVE IndexInv'
  <2>1. (IdxRec)' = IdxRec BY <1>2 DEF IdxRec, Offsets, MaxHdrs
  <2>2. CASE pc[s] = "truncated"
    <3>1. ~Nobody(Purging)' /\ ~Nobody({"commit"} \union (Purging \ {"free"}))'
      BY <1>3, <2>2 DEF Nobody, Purging
    <3>2. KeptIs(K)' BY <1>5, <1>7, <2>1, <3>1 DEF KeptIs
    <3> QED BY <3>2, KeptIndexNext
  <2>3. CASE pc[s] = "counted"
    <3>1. KeptIs(K)' BY <1>1, <1>5, <1>7, <2>1, <2>3 DEF KeptIs
    <3> QED BY <3>1, KeptIndexNext
  <2> QED BY <1>1, <2>2, <2>3
<1>8. \E place, m : Moved(s, place, m) BY <1>3
<1> QED BY <1>1, <1>2, <1>6, <1>7, <1>8, PurgingStep DEF Purging

LEMMA PurgeStatusStep ==
  ASSUME TypeInv, LockInv, NumberInv, StoreInv, \A c \in Scenes : NoScriptPurge(c),
         NEW s \in Sessions, PurgeStatus(s)
  PROVE  StoreInv'
<1>1. /\ pc[s] \in {"truncated", "rewritten"} /\ UNCHANGED <<sid, shd, sha, history>>
      /\ status' = [mem[s].status EXCEPT !.total_msgs = Len(mem[s].kept)]
      /\ Then(s, "counted")
  BY DEF PurgeStatus
<1>2. UNCHANGED <<posted, purged, torn, scene>> BY <1>1 DEF history
<1>3. \/ /\ pc[s] = "truncated" /\ Moved(s, "counted", mem[s])
         /\ pc'[s] = "counted" /\ mem'[s] = mem[s]
      \/ pc[s] = "rewritten" /\ Moved(s, "idle", NoMem)
  BY <1>1, ThenIs
<1>4. PICK K : K = mem[s].kept OBVIOUS
<1>5. status'.last_msg = status.last_msg /\ status'.total_msgs = Len(K)
  <2>1. mem[s].status \in Status BY MemTyped DEF MemType
  <2>2. mem[s].status.last_msg = status.last_msg BY <1>1 DEF NumberInv, Purging
  <2> QED BY <1>1, <1>4, <2>1, <2>2 DEF Status
<1>6. ASSUME ~torn
      PROVE  /\ Purges' /\ Placed(K)' /\ (Safe => Orderly(K))'
             /\ (posted \ purged \subseteq NumbersIn(K))'
             /\ K \in Seq(IdxRec)
             /\ pc[s] = "truncated" => sid' = <<>>
             /\ pc[s] = "rewritten" => sid' = K
  <2>1. /\ Purges /\ K \in Seq(IdxRec)
        /\ Placed(K) /\ (Safe => Orderly(K)) /\ posted \ purged \subseteq NumbersIn(K)
    BY <1>1, <1>4, <1>6, KeptNow DEF Purging
  <2>2. /\ Placed(K)' /\ (Safe => Orderly(K))' /\ (posted \ purged \subseteq NumbersIn(K))'
    BY <1>1, <1>2, <1>5, <2>1, KeptStays
  <2>3. /\ pc[s] = "truncated" => sid = <<>>
        /\ pc[s] = "rewritten" => sid = K
    BY <1>1, <1>4, <1>6 DEF StoreInv, SessionInv, PurgeInv
  <2> QED BY <1>1, <1>2, <2>1, <2>2, <2>3, SceneSame
<1>7. ASSUME ~torn PROVE SessionInv(s)'
  <2>1. CASE pc[s] = "truncated"
    BY <1>3, <1>4, <1>5, <1>6, <1>7, <2>1, PurgingNext
  <2>2. CASE pc[s] = "rewritten" BY <1>3, <2>2, AsideInv DEF Adding, Purging
  <2> QED BY <1>1, <2>1, <2>2
<1>8. ASSUME ~torn PROVE IndexInv'
  <2>1. (IdxRec)' = IdxRec BY <1>2 DEF IdxRec, Offsets, MaxHdrs
  <2>2. CASE pc[s] = "truncated"
    <3>1. ~Nobody(Purging)' /\ ~Nobody({"commit"} \union (Purging \ {"free"}))'
      BY <1>3, <2>2 DEF Nobody, Purging
    <3>2. (Placed(<<>>) /\ Orderly(<<>>))' BY EmptyKept, PTL
    <3>3. KeptIs(<<>>)' BY <1>6, <1>8, <2>2, <3>1, <3>2 DEF KeptIs
    <3> QED BY <3>3, KeptIndexNext
  <2>3. CASE pc[s] = "rewritten"
    <3>1. KeptIs(K)' BY <1>5, <1>6, <1>8, <2>1, <2>3 DEF KeptIs
    <3> QED BY <3>1, KeptIndexNext
  <2> QED BY <1>1, <2>2, <2>3
<1>9. \E place, m : Moved(s, place, m) BY <1>3
<1> QED BY <1>1, <1>2, <1>7, <1>8, <1>9, PurgingStep DEF Purging

---------------------------------------------------------------------------
(* A process ends *)

LEMMA CrashStep ==
  ASSUME TypeInv, LockInv, StoreInv, \A c \in Scenes : NoScriptPurge(c),
         NEW p, Crash(p)
  PROVE  StoreInv'
<1>1. UNCHANGED <<status, sid, shd, sha, posted, purged, scene>> BY DEF Crash, files
<1>2. Safe' = Safe /\ Purges' = Purges /\ ~Safe BY <1>1, SceneSame DEF Crash, Safe
<1>3. \A t \in Sessions : \/ Proc[t] = p /\ pc'[t] = "idle"
                          \/ Proc[t] # p /\ pc'[t] = pc[t] /\ mem'[t] = mem[t]
  BY DEF Crash
<1>4. torn' <=> torn \/ \E t \in Sessions : Proc[t] = p /\ pc[t] \in {"free", "truncated", "counted"}
  BY DEF Crash
<1>5. torn' => Purges
  <2>1. \A t \in Sessions : pc[t] \in Purging => Purges BY PlaceOf
  <2> QED BY <1>4, <2>1 DEF StoreInv, Purging
<1>6. ASSUME ~torn' PROVE IndexInv'
  <2>1. ~torn /\ \A t \in Sessions : Proc[t] = p => pc[t] \notin {"free", "truncated", "counted"}
    BY <1>4, <1>6
  <2>2. PlacedInv'
    <3>1. Nobody({"free"})' => Nobody({"free"}) BY <1>3, <2>1 DEF Nobody
    <3> QED BY <1>1, <2>1, <3>1 DEF StoreInv, IndexInv, PlacedInv, Placed
  <2>3. NumberedInv' BY <1>1, <1>2, <2>1 DEF StoreInv, IndexInv, NumberedInv
  <2>4. PostedInv'
    <3> SUFFICES ASSUME Nobody(Purging)', NEW n \in posted \ purged
                 PROVE  \E i \in DOMAIN sid : i <= status.total_msgs /\ sid[i].number = n
      BY <1>1 DEF PostedInv
    <3>1. CASE Nobody(Purging) BY <2>1, <3>1 DEF StoreInv, IndexInv, PostedInv
    <3>2. CASE ~Nobody(Purging)
      <4>1. PICK t \in Sessions : pc[t] \in Purging BY <3>2 DEF Nobody
      <4>2. pc[t] = "rewritten"
        <5>1. pc'[t] \notin Purging BY DEF Nobody
        <5>2. Proc[t] = p BY <1>3, <4>1, <5>1
        <5> QED BY <2>1, <4>1, <5>2 DEF Purging
      <4>3. PurgeInv(t) BY <2>1 DEF StoreInv, SessionInv
      <4>4. sid = mem[t].kept /\ mem[t].status = status /\ posted \ purged \subseteq NumbersIn(mem[t].kept)
        BY <4>2, <4>3 DEF PurgeInv, Purging
      <4>5. Len(mem[t].kept) <= mem[t].status.total_msgs
        BY <4>1 DEF TypeInv, SessionOK
      <4>6. PICK i \in DOMAIN sid : sid[i].number = n BY <4>4 DEF NumbersIn
      <4>7. i <= Len(sid) /\ i \in Nat /\ Len(sid) \in Nat BY <4>6 DEF TypeInv, FilesOK
      <4>8. status.total_msgs \in Nat BY DEF TypeInv, FilesOK, Status
      <4>9. i <= status.total_msgs BY <4>4, <4>5, <4>7, <4>8
      <4> QED BY <4>6, <4>9
    <3> QED BY <3>1, <3>2
  <2>5. OrderInv' /\ MarkInv' BY <1>2 DEF OrderInv, MarkInv
  <2> QED BY <2>2, <2>3, <2>4, <2>5 DEF IndexInv
<1>7. ASSUME ~torn', NEW t \in Sessions PROVE SessionInv(t)'
  <2>1. ~torn BY <1>4, <1>7
  <2>2. CASE pc'[t] = "idle"
    BY <2>2 DEF SessionInv, AddingInv, EditInv, PurgeInv, Adding, Purging
  <2>3. CASE pc'[t] = pc[t] /\ mem'[t] = mem[t]
    <3>1. AddingInv(t) /\ EditInv(t) /\ PurgeInv(t) BY <2>1 DEF StoreInv, SessionInv
    <3>2. AddingInv(t)' BY <1>1, <1>2, <2>3, <3>1 DEF AddingInv
    <3>3. EditInv(t)' BY <1>1, <1>2, <2>3, <3>1 DEF EditInv
    <3>4. PurgeInv(t)' BY <1>1, <1>2, <2>3, <3>1 DEF PurgeInv, Placed, Orderly, NumbersIn
    <3> QED BY <3>2, <3>3, <3>4 DEF SessionInv
  <2> QED BY <1>3, <2>2, <2>3
<1> QED BY <1>2, <1>5, <1>6, <1>7 DEF StoreInv

---------------------------------------------------------------------------
(* The index and the headers, and what follows *)

LEMMA InitStore == Init => StoreInv
<1> SUFFICES ASSUME Init PROVE StoreInv OBVIOUS
<1>1. /\ sid = <<>> /\ posted = {} /\ status.total_msgs = 0 /\ status.last_msg = 0 /\ ~torn
      /\ \A s \in Sessions : pc[s] = "idle"
  BY DEF Init
<1>2. IndexInv
  BY <1>1 DEF IndexInv, PlacedInv, Placed, NumberedInv, PostedInv, OrderInv, Ascending, MarkInv
<1>3. \A s \in Sessions : SessionInv(s)
  BY <1>1 DEF SessionInv, AddingInv, EditInv, PurgeInv, Adding, Purging
<1> QED BY <1>1, <1>2, <1>3 DEF StoreInv

LEMMA StepKeepsStore ==
  ASSUME TypeInv, LockInv, NumberInv, StoreInv, \A c \in Scenes : NoScriptPurge(c), [Next]_vars
  PROVE  StoreInv'
<1>1. posted \subseteq 0..MaxNumber /\ 0 \in 0..MaxNumber
  BY SceneTypes DEF TypeInv, FilesOK, Numbers
<1>2. ASSUME NEW s \in Sessions, PostLock(s, "post", 0) \/ \E n \in posted : PostLock(s, "reply", n)
      PROVE  StoreInv'
  <2>1. \E op \in {"post", "reply"}, n \in 0..MaxNumber : PostLock(s, op, n) BY <1>1, <1>2
  <2> QED BY <2>1, AsideSteps
<1>3. ASSUME NEW s \in Sessions,
             \/ ThreadFind(s) \/ ThreadLock(s) \/ PostFails(s) \/ PostIndexFails(s)
             \/ \E n \in posted : UpdateLock(s, n) \/ KillNext(s, n)
             \/ \E n \in posted, op \in {"load", "put_header"} : FindBegin(s, op, n)
             \/ FindNothing(s) \/ LoadDone(s)
             \/ PurgeLock(s) \/ KillLock(s) \/ PurgeNothing(s) \/ KillDone(s)
      PROVE  StoreInv'
  BY <1>3, AsideSteps
<1>4. ASSUME NEW s \in Sessions,
             \/ ThreadLink(s) \/ PostStatus(s) \/ PostHeader(s) \/ PostIndex(s) \/ PostCommit(s)
      PROVE  StoreInv'
  BY <1>4, LinkStep, StatusStep, PostHeaderStep, PostIndexStep, PostCommitStep
<1>5. ASSUME NEW s \in Sessions,
             \/ Find(s) \/ ReadHeader(s) \/ WriteIndex(s)
             \/ \E deleted \in BOOLEAN : WriteHeader(s, deleted)
      PROVE  StoreInv'
  BY <1>5, FindStep, ReadStep, WriteIndexStep, WriteHeaderStep
<1>6. ASSUME NEW s \in Sessions,
             \/ PurgeRead(s) \/ PurgeFree(s) \/ PurgeTruncate(s) \/ PurgeWrite(s) \/ PurgeStatus(s)
      PROVE  StoreInv'
  BY <1>6, PurgeReadStep, PurgeFreeStep, PurgeTruncateStep, PurgeWriteStep, PurgeStatusStep
<1>7. ASSUME NEW s \in Sessions, LockRefused(s) PROVE StoreInv' BY <1>7, RefusedStep
<1>8. ASSUME NEW s \in Sessions, Crash(Proc[s]) PROVE StoreInv' BY <1>8, CrashStep
<1>9. ASSUME UNCHANGED vars PROVE StoreInv' BY <1>9, UnchangedStep
<1> QED BY <1>2, <1>3, <1>4, <1>5, <1>6, <1>7, <1>8, <1>9 DEF Next

\* The base is kept as it should be where nothing breaks the exclusion of those that
\* change it: see Guarded and NoScriptPurge.
WellUsed(c) == Guarded(c) /\ NoScriptPurge(c)

LEMMA StoreInvariant ==
  ASSUME \A c \in Scenes : WellUsed(c)
  PROVE  Spec => [](TypeInv /\ StoreInv)
<1>1. (\A c \in Scenes : Guarded(c)) /\ \A c \in Scenes : NoScriptPurge(c) BY DEF WellUsed
<1>2. Spec => [](TypeInv /\ LockInv /\ NumberInv) BY <1>1, NumberInvariant
<1>3. TypeInv /\ LockInv /\ NumberInv /\ StoreInv /\ [Next]_vars => StoreInv'
  BY <1>1, StepKeepsStore
<1> QED BY <1>2, <1>3, InitStore, PTL DEF Spec

LEMMA NoneLostFollows == TypeInv /\ StoreInv => NoneLost
<1> SUFFICES ASSUME TypeInv, StoreInv, Quiet, ~torn, NEW n \in posted \ purged
             PROVE  Record(n) # {}
  BY DEF NoneLost
<1>1. Nobody(Purging) BY DEF Quiet, Nobody, Purging
<1>2. \E i \in DOMAIN sid : sid[i].number = n BY <1>1 DEF StoreInv, IndexInv, PostedInv
<1> QED BY <1>2 DEF Record

\* No message that was added and not purged is lost, whichever process ends and whenever,
\* unless it ends between the truncation of the index and its last write.
THEOREM NoneLostCorrect ==
  ASSUME \A c \in Scenes : WellUsed(c)
  PROVE  Spec => []NoneLost
BY StoreInvariant, NoneLostFollows, PTL

LEMMA AscendFollows == TypeInv /\ StoreInv => NumbersAscend
<1> SUFFICES ASSUME TypeInv, StoreInv, Ops \intersect {"purge", "kill"} = {} \/ "crash" \notin Faults
             PROVE  Ascending
  BY DEF NumbersAscend
<1>1. ~torn BY DEF StoreInv, Purges, Safe
<1>2. CASE Safe BY <1>1, <1>2 DEF StoreInv, IndexInv, OrderInv
<1>3. CASE ~Purges
  <2>1. \A i \in DOMAIN sid : sid[i].number = i
    BY <1>1, <1>3 DEF StoreInv, IndexInv, NumberedInv
  <2> QED BY <2>1 DEF Ascending
<1> QED BY <1>2, <1>3 DEF Purges, Safe

\* The search by number finds what there is: the index is in number order, also after a
\* crash in the middle of a post, if messages are not purged as well.
THEOREM NumbersAscendCorrect ==
  ASSUME \A c \in Scenes : WellUsed(c)
  PROVE  Spec => []NumbersAscend
BY StoreInvariant, AscendFollows, PTL

LEMMA AgreeFollows == TypeInv /\ StoreInv => FilesAgree
<1> SUFFICES ASSUME TypeInv, StoreInv, Quiet, Faults = {} PROVE FilesAgree
  BY DEF FilesAgree, StatusMatches, HeadersMatch
<1>1. Safe /\ ~torn BY DEF StoreInv, Safe
<1>2. PlacedInv /\ OrderInv /\ MarkInv BY <1>1 DEF StoreInv, IndexInv
<1>3. \A places : "idle" \notin places => Nobody(places) BY DEF Quiet, Nobody
<1>4. Placed(sid) BY <1>2, <1>3 DEF PlacedInv
<1>5. Len(sid) = status.total_msgs BY <1>1, <1>2, <1>3 DEF OrderInv, Purging
<1>6. \A i \in DOMAIN sid : i <= status.total_msgs BY <1>5 DEF TypeInv, FilesOK
<1>7. \A i \in DOMAIN sid : sid[i].number <= status.last_msg BY <1>1, <1>2, <1>6 DEF OrderInv
<1>8. \A i : ~Writing(i) BY DEF Quiet, Writing
<1>9. \A i \in DOMAIN sid : shd[sid[i].offset].deleted = sid[i].deleted
  BY <1>1, <1>2, <1>8 DEF MarkInv
<1>10. StatusMatches BY <1>5, <1>7 DEF StatusMatches
<1>11. HeadersMatch BY <1>4, <1>9 DEF HeadersMatch, Placed
<1> QED BY <1>10, <1>11 DEF FilesAgree

\* Between operations the status counts the records, and each record leads to a header of
\* its own with its number and attributes, as long as nothing fails.
THEOREM FilesAgreeCorrect ==
  ASSUME \A c \in Scenes : WellUsed(c)
  PROVE  Spec => []FilesAgree
BY StoreInvariant, AgreeFollows, PTL

---------------------------------------------------------------------------
(* Threads of messages, in a base where nothing fails *)

\* The only one who changes links is the one who adds a reply.
Unscripted == "put_header" \notin Ops

Headers(recs) == {shd[recs[i].offset] : i \in DOMAIN recs}

\* If a header leads to this one, that is as it should be.
Leads(h, to) ==
  /\ h.thread_first = to.number => to.thread_back = h.number
  /\ h.thread_next = to.number => to.thread_back = h.thread_back

\* The header leads to the reply n to message back.
Links(h, n, back) ==
  \/ h.number = back /\ h.thread_first = n
  \/ h.thread_back = back /\ h.thread_next = n

\* A reply to back will be added with number n.
Coming(n, back) ==
  n = status.last_msg + 1 /\ \E s \in Sessions :
    pc[s] \in {"post"} \union Adding /\ mem[s].op = "reply" /\ mem[s].hdr.thread_back = back

\* The replies there have been or will be, each with the message it is to.
Promised ==
  {r \in Numbers \X (0..MaxNumber) : r[1] \in posted \/ Coming(r[1], r[2])}

\* The header leads to later messages, that were or will be in the base.
Ahead(h) ==
  /\ h.thread_first # 0 => h.thread_first > h.number /\ <<h.thread_first, h.number>> \in Promised
  /\ h.thread_next # 0 => h.thread_next > h.number /\ <<h.thread_next, h.thread_back>> \in Promised

\* The header leads to replies, if they are among these.
Right(h, hs) == Ahead(h) /\ \A to \in hs : Leads(h, to)

AllRight(hs) == \A h \in hs : Right(h, hs)

Reached(hs) ==
  \A r \in hs : r.thread_back # 0 => \E h \in hs : Links(h, r.number, r.thread_back)

\* Where a reply to back can be linked.
Open(h, back) ==
  \/ h.number = back /\ (Unscripted => h.thread_first = 0)
  \/ h.number > back /\ h.thread_back = back /\ (Unscripted => h.thread_next = 0)

\* The session that adds a message, and has found where to link it.
ReplyAt(place, m) ==
  /\ place \in Replying \union {"post"} => m.status.last_msg = status.last_msg
  /\ place \in Replying \union {"post"} \union Adding =>
       /\ m.hdr.thread_first = 0 /\ m.hdr.thread_next = 0 /\ m.hdr.thread_back = m.wanted
       /\ m.wanted # 0 <=> m.op = "reply"
       /\ m.wanted \in posted \union {0}
  /\ place \in {"link", "linked"} =>
       (\E i \in DOMAIN sid : sid[i].offset = m.offset) /\ Open(shd[m.offset], m.wanted)
  /\ place \in {"post"} \union Adding /\ m.op = "reply" /\ purged = {} /\ Unscripted =>
       \E h \in Headers(sid) : Links(h, status.last_msg + 1, m.wanted)
  /\ place = "index" => shd[m.offset] = m.hdr

\* The session that changes a header: what it has read is there, under the header's
\* lock.  What a script has read may be old, but leads to replies.
ChangeAt(place, m) ==
  /\ place = "read" /\ m.op # "load" => m.hdr = shd[m.offset]
  /\ place \in {"find", "found", "read"} /\ m.op = "put_header" =>
       /\ Right(m.script, Headers(sid)) /\ m.script.number = m.wanted
       /\ \A h \in Headers(sid) : h.number = m.wanted => h.thread_back = m.script.thread_back
  /\ place \in {"found", "read"} /\ m.op = "put_header" =>
       m.slot \in DOMAIN sid /\ sid[m.slot].number = m.wanted

\* The session that purges: what it keeps is linked as it was.
KeepAt(place, m) ==
  place \in Purging =>
    /\ AllRight(Headers(m.kept))
    /\ place # "free" => m.dead = <<>>
    /\ Unscripted /\ purged = {} /\ m.dead = <<>> => Reached(Headers(m.kept))

ThreadAt(place, m) == ReplyAt(place, m) /\ ChangeAt(place, m) /\ KeepAt(place, m)

ThreadsRight ==
  /\ Purges \/ purged = {}
  /\ AllRight(Headers(sid))
  /\ Unscripted /\ purged = {} => Reached(Headers(sid))
  /\ \A s \in Sessions : ThreadAt(pc[s], mem[s])

ThreadInv == Faults = {} => ThreadsRight

LEMMA Faultless ==
  ASSUME TypeInv, StoreInv, Faults = {}
  PROVE  /\ Safe /\ ~torn /\ Ascending
         /\ PlacedInv /\ NumberedInv /\ PostedInv /\ OrderInv
         /\ \A s \in Sessions : AddingInv(s) /\ EditInv(s) /\ PurgeInv(s)
<1>1. Safe /\ ~torn BY DEF StoreInv, Safe
<1> QED BY <1>1 DEF StoreInv, IndexInv, SessionInv, OrderInv

LEMMA HeadersTyped ==
  ASSUME TypeInv
  PROVE  /\ \A h \in Headers(sid) : h \in Header /\ h.number \in Numbers
         /\ MaxNumber \in Nat
<1>1. ASSUME NEW i \in DOMAIN sid PROVE shd[sid[i].offset] \in Header /\ shd[sid[i].offset].number \in Numbers
  <2>1. shd[sid[i].offset] \in Header /\ shd[sid[i].offset].number # 0
    BY RecordTyped DEF Written
  <2>2. shd[sid[i].offset].number \in 0..MaxNumber BY <2>1 DEF Header
  <2> QED BY <2>1, <2>2, SceneTypes DEF Numbers
<1> QED BY <1>1, SceneTypes DEF Headers

LEMMA NumbersApart ==
  ASSUME TypeInv, Ascending, NEW i \in DOMAIN sid, NEW j \in DOMAIN sid,
         sid[i].number = sid[j].number
  PROVE  i = j
<1>1. i \in Nat /\ j \in Nat BY DEF TypeInv, FilesOK
<1>2. sid[i].number \in Nat BY RecordTyped DEF Numbers
<1>3. i < j \/ j < i \/ i = j BY <1>1
<1> QED BY <1>2, <1>3 DEF Ascending

\* The search by number finds the record with that number.
LEMMA HeaderFound ==
  ASSUME TypeInv, Ascending, NEW i \in DOMAIN sid
  PROVE  HeaderOf(sid[i].number) = shd[sid[i].offset]
<1>1. i \in Record(sid[i].number) BY DEF Record
<1>2. \A j \in Record(sid[i].number) : j = i BY NumbersApart DEF Record
<1>3. (CHOOSE j \in Record(sid[i].number) : TRUE) = i BY <1>1, <1>2
<1> QED BY <1>1, <1>3 DEF HeaderOf

\* What is promised stays so, as long as the one who adds the reply goes on.
LEMMA PromisedStays ==
  ASSUME scene' = scene, posted \subseteq posted', status'.last_msg = status.last_msg,
         NEW s \in Sessions, NEW place, NEW m, Moved(s, place, m),
         pc[s] \in {"post"} \union Adding =>
           /\ place \in {"post"} \union Adding /\ m.op = mem[s].op
           /\ m.hdr.thread_back = mem[s].hdr.thread_back
  PROVE  Promised \subseteq Promised'
<1>1. ASSUME NEW n, NEW back, Coming(n, back) PROVE Coming(n, back)'
  <2>1. n = status'.last_msg + 1 BY <1>1 DEF Coming
  <2>2. PICK t \in Sessions : /\ pc[t] \in {"post"} \union Adding /\ mem[t].op = "reply"
                              /\ mem[t].hdr.thread_back = back
    BY <1>1 DEF Coming
  <2>3. pc'[t] \in {"post"} \union Adding /\ mem'[t].op = "reply" /\ mem'[t].hdr.thread_back = back
    BY <2>2 DEF Moved
  <2> QED BY <2>1, <2>3 DEF Coming
<1>2. Numbers' = Numbers BY DEF Numbers
<1>3. ASSUME NEW r \in Promised PROVE r \in Promised'
  <2>1. r \in Numbers \X (0..MaxNumber) /\ (r[1] \in posted \/ Coming(r[1], r[2]))
    BY DEF Promised
  <2>2. r[1] \in posted' \/ Coming(r[1], r[2])' BY <1>1, <2>1
  <2> QED BY <1>2, <2>1, <2>2 DEF Promised
<1> QED BY <1>3

\* The index leads to headers with the same numbers, that are replies to the same
\* messages, and lead to whatever they led to unless scripts write them.
Alike ==
  /\ DOMAIN sid' = DOMAIN sid
  /\ \A i \in DOMAIN sid :
       /\ sid'[i].offset = sid[i].offset /\ sid'[i].number = sid[i].number
       /\ LET h == shd[sid[i].offset]
              k == shd'[sid[i].offset]
          IN  /\ k.number = h.number /\ k.thread_back = h.thread_back
              /\ Unscripted => \A n, back : n # 0 /\ Links(h, n, back) => Links(k, n, back)

LEMMA AlikeHeaders ==
  ASSUME Alike
  PROVE  /\ \A k \in Headers(sid)' : \E h \in Headers(sid) :
              k.number = h.number /\ k.thread_back = h.thread_back
         /\ \A h \in Headers(sid) : \E k \in Headers(sid)' :
              /\ k.number = h.number /\ k.thread_back = h.thread_back
              /\ Unscripted => \A n, back : n # 0 /\ Links(h, n, back) => Links(k, n, back)
<1>1. Headers(sid)' = {shd'[sid'[i].offset] : i \in DOMAIN sid'} BY DEF Headers
<1>2. ASSUME NEW k \in Headers(sid)'
      PROVE  \E h \in Headers(sid) : k.number = h.number /\ k.thread_back = h.thread_back
  <2>1. PICK i \in DOMAIN sid' : k = shd'[sid'[i].offset] BY <1>1
  <2>2. i \in DOMAIN sid /\ sid'[i].offset = sid[i].offset BY <2>1 DEF Alike
  <2> QED BY <2>1, <2>2 DEF Alike, Headers
<1>3. ASSUME NEW h \in Headers(sid)
      PROVE  \E k \in Headers(sid)' :
              /\ k.number = h.number /\ k.thread_back = h.thread_back
              /\ Unscripted => \A n, back : n # 0 /\ Links(h, n, back) => Links(k, n, back)
  <2>1. PICK i \in DOMAIN sid : h = shd[sid[i].offset] BY DEF Headers
  <2>2. shd'[sid[i].offset] \in Headers(sid)' BY <1>1, <2>1 DEF Alike
  <2>3. LET k == shd'[sid[i].offset] IN
          /\ k.number = h.number /\ k.thread_back = h.thread_back
          /\ Unscripted => \A n, back : n # 0 /\ Links(h, n, back) => Links(k, n, back)
    BY <2>1 DEF Alike
  <2> QED BY <2>2, <2>3
<1> QED BY <1>2, <1>3

LEMMA RightStays ==
  ASSUME Alike, Promised \subseteq Promised'
  PROVE  \A h : Right(h, Headers(sid)) => Ahead(h)' /\ \A to \in Headers(sid)' : Leads(h, to)
<1> SUFFICES ASSUME NEW h, Right(h, Headers(sid))
             PROVE  Ahead(h)' /\ \A to \in Headers(sid)' : Leads(h, to)
  OBVIOUS
<1>1. Ahead(h)' BY DEF Right, Ahead
<1>2. ASSUME NEW to \in Headers(sid)' PROVE Leads(h, to)
  <2>1. PICK k \in Headers(sid) : to.number = k.number /\ to.thread_back = k.thread_back
    BY AlikeHeaders
  <2> QED BY <2>1 DEF Right, Leads
<1> QED BY <1>1, <1>2

\* The headers stay right if those that change lead to replies.
LEMMA AllRightStays ==
  ASSUME Alike, Promised \subseteq Promised', AllRight(Headers(sid)),
         \A i \in DOMAIN sid : \A k : k = shd'[sid[i].offset] /\ k # shd[sid[i].offset] =>
           Ahead(k)' /\ \A to \in Headers(sid) : Leads(k, to)
  PROVE  AllRight(Headers(sid))'
<1> SUFFICES ASSUME NEW k \in Headers(sid)', NEW to \in Headers(sid)'
             PROVE  Ahead(k)' /\ Leads(k, to)
  <2>1. ASSUME \A k \in Headers(sid)' : \A to \in Headers(sid)' : Ahead(k)' /\ Leads(k, to)
        PROVE  AllRight(Headers(sid))'
    BY <2>1 DEF AllRight, Right
  <2> QED BY <2>1
<1>1. PICK i \in DOMAIN sid : k = shd'[sid[i].offset]
  <2>1. Headers(sid)' = {shd'[sid'[i].offset] : i \in DOMAIN sid'} BY DEF Headers
  <2> QED BY <2>1 DEF Alike
<1>2. PICK h \in Headers(sid) : to.number = h.number /\ to.thread_back = h.thread_back
  BY AlikeHeaders
<1>3. CASE k = shd[sid[i].offset]
  <2>1. Right(k, Headers(sid)) BY <1>3 DEF AllRight, Headers
  <2> QED BY <2>1, RightStays
<1>4. CASE k # shd[sid[i].offset]
  <2>1. Leads(k, h) BY <1>1, <1>4
  <2>2. Leads(k, to) BY <1>2, <2>1 DEF Leads
  <2> QED BY <1>1, <1>4, <2>2
<1> QED BY <1>3, <1>4

LEMMA ReachedStays ==
  ASSUME TypeInv, Alike, Unscripted, Reached(Headers(sid))
  PROVE  Reached(Headers(sid))'
<1> SUFFICES ASSUME NEW r \in Headers(sid)', r.thread_back # 0
             PROVE  \E k \in Headers(sid)' : Links(k, r.number, r.thread_back)
  BY DEF Reached
<1>1. PICK q \in Headers(sid) : r.number = q.number /\ r.thread_back = q.thread_back
  BY AlikeHeaders
<1>2. q.number # 0 BY HeadersTyped DEF Numbers
<1>3. PICK h \in Headers(sid) : Links(h, q.number, q.thread_back) BY <1>1 DEF Reached
<1> QED BY <1>1, <1>2, <1>3, AlikeHeaders

---------------------------------------------------------------------------
(* A step, and what it leaves as it is *)

\* What the place of a session relies on is not touched.
Steady(place, m) ==
  /\ place \in Replying \union {"post"} \union Adding => status'.last_msg = status.last_msg
  /\ place \in {"link", "linked"} /\ Unscripted => shd'[m.offset] = shd[m.offset]
  /\ place = "index" \/ (place = "read" /\ m.op # "load") => shd'[m.offset] = shd[m.offset]
  /\ place \in Purging => shd' = shd

LEMMA KeepStays ==
  ASSUME UNCHANGED shd, scene' = scene, Promised \subseteq Promised', purged \subseteq purged',
         NEW place, NEW m, KeepAt(place, m)
  PROVE  KeepAt(place, m)'
<1> SUFFICES ASSUME place \in Purging PROVE KeepAt(place, m)' BY DEF KeepAt
<1>1. Unscripted' = Unscripted BY DEF Unscripted, Ops
<1>2. Headers(m.kept)' = Headers(m.kept) BY DEF Headers
<1>3. \A h : Ahead(h) => Ahead(h)' BY DEF Ahead
<1>4. AllRight(Headers(m.kept))' BY <1>2, <1>3 DEF KeepAt, AllRight, Right
<1> QED BY <1>1, <1>2, <1>4 DEF KeepAt, Reached

LEMMA ReplyStays ==
  ASSUME Alike, scene' = scene, posted \subseteq posted', purged \subseteq purged',
         NEW place, NEW m, Steady(place, m), ReplyAt(place, m),
         place \in Adding \union {"post"} /\ m.op = "reply" => status.last_msg \in Nat
  PROVE  ReplyAt(place, m)'
<1>1. Unscripted' = Unscripted BY DEF Unscripted, Ops
<1>2. place \in Replying \union {"post"} => m.status.last_msg = status'.last_msg
  BY DEF ReplyAt, Steady
<1>3. place \in Replying \union {"post"} \union Adding =>
        /\ m.hdr.thread_first = 0 /\ m.hdr.thread_next = 0 /\ m.hdr.thread_back = m.wanted
        /\ m.wanted # 0 <=> m.op = "reply"
        /\ m.wanted \in posted' \union {0}
  BY DEF ReplyAt
<1>4. ASSUME place \in {"link", "linked"}
      PROVE  (\E i \in DOMAIN sid' : sid'[i].offset = m.offset) /\ Open(shd[m.offset], m.wanted)'
  <2>1. PICK i \in DOMAIN sid : sid[i].offset = m.offset BY <1>4 DEF ReplyAt
  <2>2. i \in DOMAIN sid' /\ sid'[i].offset = m.offset BY <2>1 DEF Alike
  <2>3. shd'[m.offset].number = shd[m.offset].number
        /\ shd'[m.offset].thread_back = shd[m.offset].thread_back
    BY <2>1 DEF Alike
  <2>4. Unscripted => shd'[m.offset] = shd[m.offset] BY <1>4 DEF Steady
  <2>5. Open(shd[m.offset], m.wanted) BY <1>4 DEF ReplyAt
  <2> QED BY <1>1, <2>2, <2>3, <2>4, <2>5 DEF Open
<1>5. ASSUME place \in {"post"} \union Adding, m.op = "reply", purged' = {}, Unscripted
      PROVE  \E k \in Headers(sid)' : Links(k, status'.last_msg + 1, m.wanted)
  <2>1. purged = {} /\ status'.last_msg = status.last_msg BY <1>5 DEF Steady
  <2>2. PICK h \in Headers(sid) : Links(h, status.last_msg + 1, m.wanted)
    BY <1>5, <2>1 DEF ReplyAt
  <2>3. status.last_msg + 1 # 0 BY <1>5
  <2> QED BY <1>5, <2>1, <2>2, <2>3, AlikeHeaders
<1>6. place = "index" => shd'[m.offset] = m.hdr BY DEF ReplyAt, Steady
<1> QED BY <1>1, <1>2, <1>3, <1>4, <1>5, <1>6 DEF ReplyAt

LEMMA ChangeStays ==
  ASSUME Alike, scene' = scene, Promised \subseteq Promised',
         NEW place, NEW m, Steady(place, m), ChangeAt(place, m)
  PROVE  ChangeAt(place, m)'
<1>1. place = "read" /\ m.op # "load" => m.hdr = shd'[m.offset] BY DEF ChangeAt, Steady
<1>2. ASSUME place \in {"find", "found", "read"}, m.op = "put_header"
      PROVE  /\ Right(m.script, Headers(sid))' /\ m.script.number = m.wanted
             /\ \A k \in Headers(sid)' : k.number = m.wanted => k.thread_back = m.script.thread_back
  <2>1. /\ Right(m.script, Headers(sid)) /\ m.script.number = m.wanted
        /\ \A h \in Headers(sid) : h.number = m.wanted => h.thread_back = m.script.thread_back
    BY <1>2 DEF ChangeAt
  <2>2. Ahead(m.script)' /\ \A to \in Headers(sid)' : Leads(m.script, to) BY <2>1, RightStays
  <2>3. Right(m.script, Headers(sid))' BY <2>2 DEF Right
  <2> QED BY <2>1, <2>3, AlikeHeaders
<1>3. place \in {"found", "read"} /\ m.op = "put_header" =>
        m.slot \in DOMAIN sid' /\ sid'[m.slot].number = m.wanted
  BY DEF ChangeAt, Alike
<1> QED BY <1>1, <1>2, <1>3 DEF ChangeAt

LEMMA LastNumber == ASSUME TypeInv PROVE status.last_msg \in Nat
BY SceneTypes DEF TypeInv, FilesOK, Status

LEMMA PlaceStays ==
  ASSUME TypeInv, Alike, scene' = scene, Promised \subseteq Promised',
         posted \subseteq posted', purged \subseteq purged',
         NEW place, NEW m, Steady(place, m), ThreadAt(place, m)
  PROVE  ThreadAt(place, m)'
<1>1. ReplyAt(place, m)' BY LastNumber, ReplyStays DEF ThreadAt
<1>2. ChangeAt(place, m)' BY ChangeStays DEF ThreadAt
<1>3. KeepAt(place, m)'
  <2>1. CASE place \in Purging BY <2>1, KeepStays DEF ThreadAt, Steady
  <2>2. CASE place \notin Purging BY <2>2 DEF KeepAt
  <2> QED BY <2>1, <2>2
<1> QED BY <1>1, <1>2, <1>3 DEF ThreadAt

\* A step of a session that leaves the index as it is.
LEMMA ThreadStep ==
  ASSUME TypeInv, ThreadsRight, Alike, scene' = scene, Promised \subseteq Promised',
         posted \subseteq posted', purged \subseteq purged', Purges \/ purged' = {},
         NEW s \in Sessions, NEW place, NEW m, Moved(s, place, m),
         \A t \in Sessions : t # s => Steady(pc[t], mem[t]),
         \A i \in DOMAIN sid : \A k : k = shd'[sid[i].offset] /\ k # shd[sid[i].offset] =>
           Ahead(k)' /\ \A to \in Headers(sid) : Leads(k, to),
         ThreadAt(pc[s], mem[s])'
  PROVE  ThreadsRight'
<1>1. (Purges \/ purged = {})' BY SceneSame
<1>2. AllRight(Headers(sid))' BY AllRightStays DEF ThreadsRight
<1>3. (Unscripted /\ purged = {} => Reached(Headers(sid)))'
  <2>1. Unscripted' = Unscripted /\ (purged' = {} => purged = {}) BY DEF Unscripted, Ops
  <2> QED BY <2>1, ReachedStays DEF ThreadsRight
<1>4. ASSUME NEW t \in Sessions PROVE ThreadAt(pc[t], mem[t])'
  <2>1. CASE t = s BY <2>1
  <2>2. CASE t # s
    <3>1. PICK p, k : p = pc[t] /\ k = mem[t] OBVIOUS
    <3>2. pc'[t] = p /\ mem'[t] = k BY <2>2, <3>1 DEF Moved
    <3>3. Steady(p, k) /\ ThreadAt(p, k) BY <2>2, <3>1 DEF ThreadsRight
    <3>4. ThreadAt(p, k)' BY <3>3, PlaceStays
    <3> QED BY <3>2, <3>4
  <2> QED BY <2>1, <2>2
<1> QED BY <1>1, <1>2, <1>3, <1>4 DEF ThreadsRight

\* A step that writes no header, and gives no number.
LEMMA ThreadsCalm ==
  ASSUME TypeInv, ThreadsRight, UNCHANGED <<shd, posted, scene>>,
         status'.last_msg = status.last_msg,
         purged \subseteq purged', Purges \/ purged' = {}, DOMAIN sid' = DOMAIN sid,
         \A i \in DOMAIN sid : sid'[i].offset = sid[i].offset /\ sid'[i].number = sid[i].number,
         NEW s \in Sessions, NEW place, NEW m, Moved(s, place, m),
         pc[s] \in {"post"} \union Adding =>
           /\ place \in {"post"} \union Adding /\ m.op = mem[s].op
           /\ m.hdr.thread_back = mem[s].hdr.thread_back,
         ThreadAt(place, m)
  PROVE  ThreadsRight'
<1>1. Alike BY DEF Alike
<1>2. Promised \subseteq Promised' BY PromisedStays
<1>3. \A p, k : Steady(p, k) BY DEF Steady
<1>4. ThreadAt(pc[s], mem[s])'
  <2>1. PICK p, k : p = place /\ k = m OBVIOUS
  <2>2. pc'[s] = p /\ mem'[s] = k BY <2>1 DEF Moved
  <2>3. ThreadAt(p, k) BY <2>1
  <2>4. ThreadAt(p, k)' BY <1>1, <1>2, <1>3, <2>3, PlaceStays
  <2> QED BY <2>2, <2>4
<1> QED BY <1>1, <1>2, <1>3, <1>4, ThreadStep

\* Places where nothing is said of threads.
LEMMA AsideThread ==
  ASSUME NEW place, NEW m,
         place \notin Replying \union {"post"} \union Adding \union Purging,
         place = "read" => m.op = "load",
         place \in {"find", "found"} => m.op # "put_header"
  PROVE  ThreadAt(place, m)
BY DEF ThreadAt, ReplyAt, ChangeAt, KeepAt, Replying, Adding, Purging

---------------------------------------------------------------------------
(* Steps that write no header *)

LEMMA ThreadsAlone ==
  ASSUME TypeInv, ThreadsRight, UNCHANGED <<files, history>>,
         NEW s \in Sessions, NEW place, NEW m, Moved(s, place, m),
         pc[s] \in {"post"} \union Adding =>
           /\ place \in {"post"} \union Adding /\ m.op = mem[s].op
           /\ m.hdr.thread_back = mem[s].hdr.thread_back,
         ThreadAt(place, m)
  PROVE  ThreadsRight'
<1>1. UNCHANGED <<status, sid, shd, posted, purged, scene>> BY DEF files, history
<1>2. Purges \/ purged' = {} BY <1>1 DEF ThreadsRight
<1> QED BY <1>1, <1>2, ThreadsCalm

LEMMA ThreadsAside ==
  ASSUME TypeInv, ThreadsRight, NEW s \in Sessions,
         \/ \E n \in posted : UpdateLock(s, n) \/ KillNext(s, n)
         \/ \E n \in posted : FindBegin(s, "load", n)
         \/ FindNothing(s) \/ LoadDone(s)
         \/ PurgeLock(s) \/ KillLock(s) \/ PurgeNothing(s) \/ KillDone(s)
  PROVE  ThreadsRight'
<1> DEFINE Aside(place, m) ==
      /\ UNCHANGED <<files, history>> /\ Moved(s, place, m)
      /\ pc[s] \notin {"post"} \union Adding
      /\ place \in {"idle", "find", "purge", "kill"} /\ (place = "find" => m.op # "put_header")
<1>1. ASSUME NEW n \in posted, UpdateLock(s, n) \/ KillNext(s, n) PROVE \E place, m : Aside(place, m)
  <2>1. PICK op \in {"update", "kill"} : Remember(s, [NoMem EXCEPT !.op = op, !.wanted = n])
    BY <1>1 DEF UpdateLock, KillNext
  <2> DEFINE m == [NoMem EXCEPT !.op = op, !.wanted = n]
  <2>2. m.op # "put_header" BY DEF NoMem
  <2>3. UNCHANGED <<files, history>> /\ pc[s] \in {"idle", "kill"} /\ Go(s, "find")
    BY <1>1 DEF UpdateLock, KillNext
  <2> HIDE DEF m
  <2>4. Moved(s, "find", m) BY <2>1, <2>3, Moves DEF m
  <2>5. Aside("find", m) BY <2>2, <2>3, <2>4 DEF Adding
  <2> HIDE DEF Aside
  <2> QED BY <2>5
<1>2. ASSUME NEW n \in posted, FindBegin(s, "load", n) PROVE \E place, m : Aside(place, m)
  <2>1. PICK h : Remember(s, [NoMem EXCEPT !.op = "load", !.wanted = n, !.script = h])
    BY <1>2 DEF FindBegin
  <2> DEFINE m == [NoMem EXCEPT !.op = "load", !.wanted = n, !.script = h]
  <2>2. m.op # "put_header" BY DEF NoMem
  <2>3. UNCHANGED <<files, history>> /\ pc[s] = "idle" /\ Go(s, "find") BY <1>2 DEF FindBegin
  <2> HIDE DEF m
  <2>4. Moved(s, "find", m) BY <2>1, <2>3, Moves DEF m
  <2>5. Aside("find", m) BY <2>2, <2>3, <2>4 DEF Adding
  <2> HIDE DEF Aside
  <2> QED BY <2>5
<1>3. ASSUME FindNothing(s) \/ LoadDone(s) \/ PurgeLock(s) \/ KillLock(s) \/ PurgeNothing(s) \/ KillDone(s)
      PROVE  \E place, m : Aside(place, m)
  <2>1. UNCHANGED <<files, history>> /\ pc[s] \in {"find", "read", "idle", "purge", "kill"}
    BY <1>3 DEF FindNothing, LoadDone, PurgeLock, KillLock, PurgeNothing, KillDone
  <2>2. \/ Done(s)
        \/ Go(s, "kill") /\ UNCHANGED mem
        \/ \E place \in {"purge", "kill"} : Go(s, place) /\ \E m : Remember(s, m)
    BY <1>3 DEF FindNothing, LoadDone, PurgeLock, KillLock, PurgeNothing, KillDone
  <2>3. PICK place \in {"idle", "purge", "kill"} : \E m : Moved(s, place, m)
    BY <2>2, Moves
  <2>4. PICK m : Moved(s, place, m) BY <2>3
  <2>5. Aside(place, m) BY <2>1, <2>4 DEF Adding
  <2> HIDE DEF Aside
  <2> QED BY <2>5
<1>4. PICK place, m : Aside(place, m) BY <1>1, <1>2, <1>3
<1>5. ThreadAt(place, m) BY <1>4, AsideThread DEF Replying, Adding, Purging
<1> QED BY <1>4, <1>5, ThreadsAlone

LEMMA ThreadsUnchanged ==
  ASSUME TypeInv, ThreadsRight, NEW s \in Sessions, LockRefused(s) \/ UNCHANGED vars
  PROVE  ThreadsRight'
<1>1. UNCHANGED <<files, history>> /\ UNCHANGED <<pc, mem>> BY DEF LockRefused, vars
<1>2. Moved(s, pc[s], mem[s]) BY <1>1, Moves
<1>3. ThreadAt(pc[s], mem[s]) BY DEF ThreadsRight
<1> QED BY <1>1, <1>2, <1>3, ThreadsAlone

\* What a reply will be.
LEMMA PostLockThread ==
  ASSUME TypeInv, ThreadsRight, NEW s \in Sessions, NEW op \in {"post", "reply"},
         NEW back \in posted \union {0}, PostLock(s, op, back)
  PROVE  ThreadsRight'
<1> DEFINE h == [NoHeader EXCEPT !.thread_back = back]
           m == [NoMem EXCEPT !.op = op, !.status = status, !.wanted = back, !.hdr = h]
<1>1. /\ h.thread_first = 0 /\ h.thread_next = 0 /\ h.thread_back = back BY DEF NoHeader
<1>2. m.op = op /\ m.status = status /\ m.wanted = back /\ m.hdr = h BY DEF NoMem
<1>3. PICK place \in {"thread", "post"} : Go(s, place) /\ (place = "post" => op # "reply")
  BY DEF PostLock
<1>4. Remember(s, m) /\ UNCHANGED <<files, history>> /\ pc[s] = "idle" /\ (op = "reply" <=> back # 0)
  BY DEF PostLock
<1> HIDE DEF h, m
<1>5. Moved(s, place, m) BY <1>3, <1>4, Moves
<1>6. ThreadAt(place, m)
  BY <1>1, <1>2, <1>3, <1>4 DEF ThreadAt, ReplyAt, ChangeAt, KeepAt, Replying, Adding, Purging
<1> QED BY <1>4, <1>5, <1>6, ThreadsAlone DEF Adding

\* Nobody else adds a message, or purges, while a session has the base locked.
LEMMA NobodyComing ==
  ASSUME TypeInv, LockInv, NEW s \in Sessions, InBase(s), pc[s] \notin {"post"} \union Adding
  PROVE  \A r \in Promised : r[1] \in posted
<1>1. \A t \in Sessions : t # s => pc[t] \notin {"post"} \union Adding
  BY Bystander DEF Editing, Adding
<1> QED BY <1>1 DEF Promised, Coming

\* Messages that are gone were purged.
LEMMA Present ==
  ASSUME TypeInv, StoreInv, Faults = {}, Nobody(Purging), NEW n \in posted, n \notin purged
  PROVE  Record(n) # {}
BY Faultless DEF PostedInv, Record

LEMMA HeaderPlaced ==
  ASSUME TypeInv, StoreInv, Faults = {}, Nobody(Purging)
  PROVE  /\ Placed(sid)
         /\ \A n : Record(n) # {} => HeaderOf(n) \in Headers(sid) /\ HeaderOf(n).number = n
         /\ \A n : \A i \in Record(n) : HeaderOf(n) = shd[sid[i].offset]
<1>1. Placed(sid)
  <2>1. Nobody({"free"}) BY NobodyMore DEF Purging
  <2> QED BY <2>1, Faultless DEF PlacedInv
<1>2. ASSUME NEW n, NEW i \in Record(n)
      PROVE  /\ HeaderOf(n) = shd[sid[i].offset] /\ HeaderOf(n) \in Headers(sid)
             /\ HeaderOf(n).number = n
  <2>1. i \in DOMAIN sid /\ sid[i].number = n BY DEF Record
  <2>2. HeaderOf(n) = shd[sid[i].offset] BY <2>1, Faultless, HeaderFound
  <2> QED BY <1>1, <2>1, <2>2 DEF Headers, Placed
<1> QED BY <1>1, <1>2

\* Where the walk along the replies to a message leads: to replies to it, that were in
\* the base.
LEMMA RepliesRight ==
  ASSUME TypeInv, LockInv, StoreInv, Faults = {}, ThreadsRight, \A c \in Scenes : NoScriptPurge(c),
         NEW s \in Sessions, pc[s] = "thread",
         NEW back \in Numbers, Record(back) # {}, HeaderOf(back).thread_first # 0,
         NEW n \in Replies(back)
  PROVE  /\ n \in posted
         /\ Record(n) # {} => HeaderOf(n).thread_back = back /\ HeaderOf(n).number > back
<1>1. InBase(s) /\ pc[s] \notin Purging BY DEF InBase, InBaseAt, Replying, Purging
<1>2. Nobody(Purging) BY <1>1, NobodyPurges
<1>3. \A r \in Promised : r[1] \in posted BY <1>1, NobodyComing DEF Adding
<1> DEFINE Reply(k) ==
      /\ k \in posted
      /\ Record(k) # {} => HeaderOf(k).thread_back = back /\ HeaderOf(k).number > back
           S == {k \in 0..MaxNumber : Reply(k)}
<1>4. ASSUME NEW k, Record(k) # {}
      PROVE  /\ HeaderOf(k) \in Headers(sid) /\ HeaderOf(k) \in Header /\ HeaderOf(k).number = k
             /\ Right(HeaderOf(k), Headers(sid))
  BY <1>2, <1>4, HeaderPlaced, HeadersTyped DEF ThreadsRight, AllRight
<1>5. HeaderOf(back).thread_first \in S
  <2> DEFINE f == HeaderOf(back).thread_first
  <2>1. /\ Right(HeaderOf(back), Headers(sid)) /\ HeaderOf(back).number = back /\ f \in 0..MaxNumber
    BY <1>4 DEF Header
  <2>2. f > back /\ <<f, back>> \in Promised BY <2>1 DEF Right, Ahead
  <2>3. f \in posted BY <1>3, <2>2
  <2>4. ASSUME Record(f) # {} PROVE HeaderOf(f).thread_back = back /\ HeaderOf(f).number > back
    BY <1>4, <2>1, <2>2, <2>4 DEF Right, Leads
  <2> QED BY <2>1, <2>3, <2>4
<1>6. ASSUME NEW k \in S PROVE NextReply(k) \in S \union {0}
  <2> DEFINE f == HeaderOf(k).thread_next
  <2>1. CASE Record(k) = {}
    <3>1. HeaderOf(k).thread_next = 0 BY <2>1 DEF HeaderOf, NoHeader
    <3> QED BY <3>1 DEF NextReply
  <2>2. CASE Record(k) # {} /\ f # 0
    <3>1. /\ Right(HeaderOf(k), Headers(sid)) /\ HeaderOf(k).number = k /\ f \in 0..MaxNumber
      BY <1>4, <2>2 DEF Header
    <3>2. HeaderOf(k).thread_back = back /\ k > back BY <1>6, <2>2, <3>1
    <3>3. f > k /\ <<f, back>> \in Promised BY <2>2, <3>1, <3>2 DEF Right, Ahead
    <3>4. f \in posted BY <1>3, <3>3
    <3>5. f > back
      <4>1. f \in Nat /\ k \in Nat /\ back \in Nat BY <3>1 DEF Numbers
      <4> QED BY <3>2, <3>3, <4>1
    <3>6. ASSUME Record(f) # {} PROVE HeaderOf(f).thread_back = back /\ HeaderOf(f).number > back
      BY <1>4, <3>1, <3>2, <3>5, <3>6 DEF Right, Leads
    <3> QED BY <3>1, <3>4, <3>6 DEF NextReply
  <2>3. CASE f = 0 BY <2>3 DEF NextReply
  <2> QED BY <2>1, <2>2, <2>3
<1>7. S \in SUBSET (0..MaxNumber) OBVIOUS
<1> HIDE DEF S
<1>8. n \in S BY <1>5, <1>6, <1>7 DEF Replies
<1> QED BY <1>8 DEF S

LEMMA ThreadFindThread ==
  ASSUME TypeInv, LockInv, StoreInv, Faults = {}, ThreadsRight, \A c \in Scenes : NoScriptPurge(c),
         NEW s \in Sessions, ThreadFind(s)
  PROVE  ThreadsRight'
<1>1. pc[s] = "thread" /\ UNCHANGED <<files, locks, history>> BY DEF ThreadFind
<1>2. InBase(s) /\ pc[s] \notin Purging BY <1>1 DEF InBase, InBaseAt, Replying, Purging
<1>3. Nobody(Purging) BY <1>2, NobodyPurges
<1>4. PICK back : back = mem[s].wanted OBVIOUS
<1>5. ReplyAt("thread", mem[s]) BY <1>1 DEF ThreadsRight, ThreadAt
<1>6. mem[s].op = "reply" BY <1>1 DEF TypeInv, SessionOK, PcOf, Replying, Adding, Editing, Purging
<1>7. back \in posted /\ back \in Numbers
  <2>1. back \in posted BY <1>4, <1>5, <1>6 DEF ReplyAt, Replying
  <2> QED BY <2>1 DEF TypeInv, FilesOK
<1>8. mem[s] \in MemType BY MemTyped
<1>9. PICK n \in LinkFrom(back) :
        \/ /\ Record(back) # {} /\ Go(s, "link")
           /\ \E i \in Record(n) : Remember(s, [mem[s] EXCEPT !.offset = sid[i].offset])
        \/ (Record(back) = {} \/ Record(n) = {}) /\ Remember(s, mem[s]) /\ Go(s, "post")
  BY <1>4 DEF ThreadFind
<1>10. ASSUME Record(back) # {}
       PROVE  /\ n \in posted
              /\ Record(n) # {} => HeaderOf(n) \in Headers(sid) /\ Open(HeaderOf(n), back)
  <2>1. CASE HeaderOf(back).thread_first = 0
    <3>1. n = back BY <1>9, <2>1 DEF LinkFrom
    <3> QED BY <1>3, <1>7, <1>10, <2>1, <3>1, HeaderPlaced DEF Open
  <2>2. CASE HeaderOf(back).thread_first # 0
    <3>1. n \in Replies(back) /\ NextReply(n) \in {0, n} BY <1>9, <2>2 DEF LinkFrom, LastReply
    <3>2. /\ n \in posted
          /\ Record(n) # {} => HeaderOf(n).thread_back = back /\ HeaderOf(n).number > back
      BY <1>1, <1>7, <1>10, <2>2, <3>1, RepliesRight
    <3>3. ASSUME Record(n) # {} PROVE HeaderOf(n) \in Headers(sid) /\ HeaderOf(n).thread_next = 0
      <4>1. HeaderOf(n) \in Headers(sid) /\ HeaderOf(n).number = n BY <1>3, <3>3, HeaderPlaced
      <4>2. Ahead(HeaderOf(n)) BY <4>1 DEF ThreadsRight, AllRight, Right
      <4>3. n \in Nat BY <3>2 DEF TypeInv, FilesOK, Numbers
      <4>4. ~(n > n) BY <4>3
      <4> QED BY <3>1, <4>1, <4>2, <4>4 DEF Ahead, NextReply
    <3> QED BY <3>2, <3>3 DEF Open
  <2> QED BY <2>1, <2>2
<1>11. CASE /\ Record(back) # {} /\ Go(s, "link")
            /\ \E i \in Record(n) : Remember(s, [mem[s] EXCEPT !.offset = sid[i].offset])
  <2>1. PICK i \in Record(n) : Remember(s, [mem[s] EXCEPT !.offset = sid[i].offset]) BY <1>11
  <2> DEFINE m == [mem[s] EXCEPT !.offset = sid[i].offset]
  <2>2. /\ m.offset = sid[i].offset /\ m.wanted = back /\ m.op = mem[s].op
        /\ m.hdr = mem[s].hdr /\ m.status = mem[s].status
    BY <1>4, <1>8 DEF MemType
  <2>3. Moved(s, "link", m) BY <1>11, <2>1, Moves
  <2> HIDE DEF m
  <2>4. i \in DOMAIN sid /\ HeaderOf(n) = shd[sid[i].offset] /\ Record(n) # {}
    BY <1>3, HeaderPlaced DEF Record
  <2>5. Open(shd[m.offset], m.wanted) BY <1>10, <1>11, <2>2, <2>4
  <2>6. ReplyAt("link", m) BY <1>4, <1>5, <2>2, <2>4, <2>5 DEF ReplyAt, Replying, Adding
  <2>7. ThreadAt("link", m) BY <2>6 DEF ThreadAt, ChangeAt, KeepAt, Purging
  <2> QED BY <1>1, <2>3, <2>7, ThreadsAlone DEF Adding
<1>12. CASE (Record(back) = {} \/ Record(n) = {}) /\ Remember(s, mem[s]) /\ Go(s, "post")
  <2>1. Moved(s, "post", mem[s]) BY <1>12, Moves
  <2>2. purged # {}
    <3>1. CASE Record(back) = {} BY <1>3, <1>7, <3>1, Present
    <3>2. CASE Record(back) # {} BY <1>3, <1>10, <1>12, <3>2, Present
    <3> QED BY <3>1, <3>2
  <2>3. ReplyAt("post", mem[s]) BY <1>5, <2>2 DEF ReplyAt, Replying, Adding
  <2>4. ThreadAt("post", mem[s]) BY <2>3 DEF ThreadAt, ChangeAt, KeepAt, Purging
  <2> QED BY <1>1, <2>1, <2>4, ThreadsAlone DEF Adding
<1> QED BY <1>9, <1>11, <1>12

LEMMA ThreadLockThread ==
  ASSUME TypeInv, ThreadsRight, NEW s \in Sessions, ThreadLock(s)
  PROVE  ThreadsRight'
<1>1. pc[s] = "link" /\ UNCHANGED <<files, history>> /\ Moved(s, "linked", mem[s])
  BY Moves DEF ThreadLock
<1>2. ReplyAt("link", mem[s]) BY <1>1 DEF ThreadsRight, ThreadAt
<1>3. ReplyAt("linked", mem[s]) BY <1>2 DEF ReplyAt, Replying, Adding
<1>4. ThreadAt("linked", mem[s]) BY <1>3 DEF ThreadAt, ChangeAt, KeepAt, Purging
<1> QED BY <1>1, <1>4, ThreadsAlone DEF Adding

LEMMA PostStatusThread ==
  ASSUME TypeInv, ThreadsRight, NEW s \in Sessions, PostStatus(s)
  PROVE  ThreadsRight'
<1> DEFINE m == mem'[s]
<1>1. /\ pc[s] = "post" /\ UNCHANGED <<files, history>> /\ Moved(s, "alloc", m)
      /\ m.op = mem[s].op
  BY PostStatusIs
<1>2. /\ m.wanted = mem[s].wanted
      /\ m.hdr.thread_first = mem[s].hdr.thread_first /\ m.hdr.thread_next = mem[s].hdr.thread_next
      /\ m.hdr.thread_back = mem[s].hdr.thread_back
  <2>1. mem[s] \in MemType BY MemTyped
  <2>2. mem'[s] = [mem[s] EXCEPT !.status = status, !.slot = status.total_msgs + 1,
                                 !.hdr.number = status.last_msg + 1]
    BY DEF PostStatus, Remember, TypeInv
  <2> QED BY <2>1, <2>2 DEF MemType, Header
<1> HIDE DEF m
<1>3. ReplyAt("post", mem[s]) BY <1>1 DEF ThreadsRight, ThreadAt
<1>4. ReplyAt("alloc", m) BY <1>1, <1>2, <1>3 DEF ReplyAt, Replying, Adding
<1>5. ThreadAt("alloc", m) BY <1>4 DEF ThreadAt, ChangeAt, KeepAt, Purging
<1> QED BY <1>1, <1>2, <1>5, ThreadsAlone DEF Adding

\* A script has read the header, or found that there is none.
LEMMA FindBeginThread ==
  ASSUME TypeInv, LockInv, StoreInv, Faults = {}, ThreadsRight, \A c \in Scenes : NoScriptPurge(c),
         NEW s \in Sessions, NEW n \in posted, FindBegin(s, "put_header", n)
  PROVE  ThreadsRight'
<1> DEFINE m == [NoMem EXCEPT !.op = "put_header", !.wanted = n, !.script = HeaderOf(n)]
<1>1. m.op = "put_header" /\ m.wanted = n /\ m.script = HeaderOf(n) BY DEF NoMem
<1>2. pc[s] = "idle" /\ UNCHANGED <<files, history>> /\ "put_header" \in Ops
      /\ Go(s, "find") /\ Remember(s, m)
  BY DEF FindBegin
<1> HIDE DEF m
<1>3. Moved(s, "find", m) BY <1>2, Moves
<1>4. ~Purges BY <1>2 DEF TypeInv, NoScriptPurge, Purges, Ops
<1>5. purged = {} BY <1>4 DEF ThreadsRight
<1>6. Nobody(Purging) BY <1>4, PlaceOf DEF Nobody
<1>7. Record(n) # {} BY <1>5, <1>6, Present
<1>8. HeaderOf(n) \in Headers(sid) /\ HeaderOf(n).number = n BY <1>6, <1>7, HeaderPlaced
<1>9. \A h \in Headers(sid) : h.number = n => h.thread_back = HeaderOf(n).thread_back
  <2> SUFFICES ASSUME NEW i \in DOMAIN sid, shd[sid[i].offset].number = n
               PROVE  shd[sid[i].offset] = HeaderOf(n)
    BY DEF Headers
  <2>1. sid[i].number = n BY <1>6, HeaderPlaced DEF Placed
  <2>2. i \in Record(n) BY <2>1 DEF Record
  <2> QED BY <1>6, <2>2, HeaderPlaced
<1>10. ChangeAt("find", m) BY <1>1, <1>8, <1>9 DEF ChangeAt, ThreadsRight, AllRight
<1>11. ThreadAt("find", m) BY <1>10 DEF ThreadAt, ReplyAt, KeepAt, Replying, Adding, Purging
<1> QED BY <1>2, <1>3, <1>11, ThreadsAlone DEF Adding

LEMMA FindThread ==
  ASSUME TypeInv, ThreadsRight, NEW s \in Sessions, Find(s)
  PROVE  ThreadsRight'
<1> DEFINE m == mem'[s]
<1>1. /\ pc[s] = "find" /\ UNCHANGED <<files, history>> /\ Moved(s, "found", m)
      /\ m.op = mem[s].op /\ m.wanted = mem[s].wanted
      /\ m.slot \in DOMAIN sid /\ sid[m.slot].number = mem[s].wanted
  BY FindIs
<1>2. m.script = mem[s].script
  <2>1. PICK i : mem'[s] = [mem[s] EXCEPT !.slot = i, !.offset = sid[i].offset]
    BY DEF Find, Remember, TypeInv
  <2>2. mem[s] \in MemType BY MemTyped
  <2> QED BY <2>1, <2>2 DEF MemType
<1> HIDE DEF m
<1>3. ChangeAt("find", mem[s]) BY <1>1 DEF ThreadsRight, ThreadAt
<1>4. ChangeAt("found", m) BY <1>1, <1>2, <1>3 DEF ChangeAt
<1>5. ThreadAt("found", m) BY <1>4 DEF ThreadAt, ReplyAt, KeepAt, Replying, Adding, Purging
<1> QED BY <1>1, <1>5, ThreadsAlone DEF Adding

LEMMA ReadHeaderThread ==
  ASSUME TypeInv, ThreadsRight, NEW s \in Sessions, ReadHeader(s)
  PROVE  ThreadsRight'
<1> DEFINE m == mem'[s]
<1>1. /\ pc[s] = "found" /\ UNCHANGED <<files, history>> /\ Moved(s, "read", m)
      /\ m.op = mem[s].op /\ m.slot = mem[s].slot /\ m.offset = mem[s].offset
      /\ m.hdr = shd[mem[s].offset]
  BY ReadHeaderIs
<1>2. m.script = mem[s].script /\ m.wanted = mem[s].wanted
  <2>1. mem'[s] = [mem[s] EXCEPT !.hdr = shd[mem[s].offset]]
    BY DEF ReadHeader, Remember, TypeInv
  <2>2. mem[s] \in MemType BY MemTyped
  <2> QED BY <2>1, <2>2 DEF MemType
<1> HIDE DEF m
<1>3. ChangeAt("found", mem[s]) BY <1>1 DEF ThreadsRight, ThreadAt
<1>4. ChangeAt("read", m) BY <1>1, <1>2, <1>3 DEF ChangeAt
<1>5. ThreadAt("read", m) BY <1>4 DEF ThreadAt, ReplyAt, KeepAt, Replying, Adding, Purging
<1> QED BY <1>1, <1>5, ThreadsAlone DEF Adding

LEMMA WriteIndexThread ==
  ASSUME TypeInv, LockInv, StoreInv, Faults = {}, ThreadsRight, \A c \in Scenes : NoScriptPurge(c),
         NEW s \in Sessions, WriteIndex(s)
  PROVE  ThreadsRight'
<1>1. pc[s] = "written" /\ UNCHANGED <<status, shd, sha, history>> BY DEF WriteIndex
<1>2. UNCHANGED <<posted, purged, scene>> /\ status'.last_msg = status.last_msg
  BY <1>1 DEF history
<1>3. PICK place, m : place \in {"idle", "kill"} /\ Moved(s, place, m)
  <2>1. (Go(s, "kill") /\ UNCHANGED mem) \/ Done(s) BY DEF WriteIndex
  <2> QED BY <2>1, Moves
<1>4. DOMAIN sid' = DOMAIN sid
      /\ \A i \in DOMAIN sid : sid'[i].offset = sid[i].offset /\ sid'[i].number = sid[i].number
  BY Faultless, WriteIndexIs
<1>5. ThreadAt(place, m) BY <1>3, AsideThread DEF Replying, Adding, Purging
<1>6. Purges \/ purged' = {} BY <1>2 DEF ThreadsRight
<1> QED BY <1>1, <1>2, <1>3, <1>4, <1>5, <1>6, ThreadsCalm DEF Adding

\* What is kept is linked as what was there, and is all of it if nothing is freed.
LEMMA PurgeReadThread ==
  ASSUME TypeInv, LockInv, StoreInv, Faults = {}, ThreadsRight, NEW s \in Sessions, PurgeRead(s)
  PROVE  ThreadsRight'
<1> DEFINE m == mem'[s]
           K == RecordsAt(KeptPlaces)
           D == RecordsAt(DeadPlaces)
<1>1. /\ pc[s] \in {"purge", "kill"} /\ UNCHANGED <<files, history>>
      /\ Moved(s, "free", m) /\ m.kept = K /\ m.dead = D
  BY PurgeReadIs
<1> HIDE DEF m, K, D
<1>2. KeptPlaces \in SUBSET (DOMAIN sid) /\ DeadPlaces \in SUBSET (DOMAIN sid)
  BY DEF KeptPlaces, DeadPlaces, Scanned
<1>3. sid \in Seq(IdxRec) BY DEF TypeInv, FilesOK
<1>4. PICK f : Picked(K, f, KeptPlaces) BY <1>2, <1>3, RecordsPicked, PickedAre DEF K
<1>5. PICK g : Picked(D, g, DeadPlaces) BY <1>2, <1>3, RecordsPicked, PickedAre DEF D
<1>6. Headers(K) \subseteq Headers(sid)
  <2>1. \A j \in DOMAIN K : f[j] \in DOMAIN sid /\ K[j] = sid[f[j]] BY <1>4 DEF Picked
  <2> QED BY <2>1 DEF Headers
<1>7. AllRight(Headers(K)) BY <1>6 DEF ThreadsRight, AllRight, Right
<1>8. ASSUME D = <<>> PROVE Headers(sid) \subseteq Headers(K)
  <2>1. InBase(s) BY <1>1 DEF InBase, InBaseAt
  <2>2. ASSUME NEW t \in Sessions PROVE pc[t] \notin {"commit"} \union (Purging \ {"free"})
    <3>1. CASE t = s BY <1>1, <3>1 DEF Purging
    <3>2. CASE t # s
      <4>1. pc[t] = "idle" \/ pc[t] \in Editing BY <2>1, <3>2, Bystander
      <4> QED BY <4>1 DEF Editing, Purging
    <3> QED BY <3>1, <3>2
  <2>3. Len(sid) = status.total_msgs BY <2>2, Faultless DEF OrderInv, Nobody
  <2>4. DeadPlaces = {}
    <3>1. DOMAIN D = {} BY <1>8
    <3> QED BY <1>5, <3>1 DEF Picked
  <2>5. ASSUME NEW i \in DOMAIN sid PROVE \E j \in DOMAIN K : K[j] = sid[i]
    <3>1. i <= status.total_msgs BY <1>3, <2>3
    <3>2. i \in Scanned BY <3>1, AllScanned
    <3>3. i \in KeptPlaces BY <2>4, <3>2 DEF KeptPlaces, DeadPlaces
    <3> QED BY <1>4, <3>3 DEF Picked
  <2> QED BY <2>5 DEF Headers
<1>9. ASSUME Unscripted, purged = {}, D = <<>> PROVE Reached(Headers(K))
  <2>1. Headers(K) = Headers(sid) BY <1>6, <1>8, <1>9
  <2> QED BY <1>9, <2>1 DEF ThreadsRight
<1>10. KeepAt("free", m) BY <1>1, <1>7, <1>9 DEF KeepAt
<1>11. ThreadAt("free", m) BY <1>10 DEF ThreadAt, ReplyAt, ChangeAt, Replying, Adding
<1> QED BY <1>1, <1>11, ThreadsAlone DEF Adding

LEMMA PurgeFreeThread ==
  ASSUME TypeInv, ThreadsRight, NEW s \in Sessions, PurgeFree(s)
  PROVE  ThreadsRight'
<1>1. /\ pc[s] = "free" /\ UNCHANGED <<status, sid, shd, posted, scene>>
      /\ purged' = purged \union {Head(mem[s].dead).number}
      /\ Moved(s, "free", mem'[s]) /\ mem'[s].kept = mem[s].kept
  BY PurgeFreeIs
<1>2. PICK m, K : m = mem'[s] /\ K = mem[s].kept OBVIOUS
<1>3. m.kept = K /\ Moved(s, "free", m) BY <1>1, <1>2
<1>4. pc'[s] = "free" /\ mem'[s] = m BY <1>3 DEF Moved
<1>5. Alike BY <1>1 DEF Alike
<1>6. Promised \subseteq Promised' BY <1>1, <1>3, PromisedStays DEF Adding
<1>7. Purges BY <1>1, PlaceOf DEF Purging
<1>8. ThreadAt("free", m)'
  <2>1. KeepAt("free", mem[s]) BY <1>1 DEF ThreadsRight, ThreadAt
  <2>2. AllRight(Headers(K)) BY <1>2, <2>1 DEF KeepAt, Purging
  <2>3. Headers(K)' = Headers(K) /\ \A h : Ahead(h) => Ahead(h)' BY <1>1, <1>6 DEF Headers, Ahead
  <2>4. AllRight(Headers(K))' BY <2>2, <2>3 DEF AllRight, Right
  <2>5. KeepAt("free", m)' BY <1>1, <1>3, <2>4 DEF KeepAt
  <2> QED BY <2>5 DEF ThreadAt, ReplyAt, ChangeAt, Replying, Adding
<1>9. \A p, k : Steady(p, k) BY <1>1 DEF Steady
<1>10. ThreadAt(pc[s], mem[s])' BY <1>4, <1>8
<1> QED BY <1>1, <1>3, <1>5, <1>6, <1>7, <1>9, <1>10, ThreadStep

LEMMA PurgeStatusThread ==
  ASSUME TypeInv, NumberInv, ThreadsRight, NEW s \in Sessions, PurgeStatus(s)
  PROVE  ThreadsRight'
<1>1. /\ pc[s] \in {"truncated", "rewritten"} /\ UNCHANGED <<sid, shd, sha, history>>
      /\ status' = [mem[s].status EXCEPT !.total_msgs = Len(mem[s].kept)]
      /\ Then(s, "counted")
  BY DEF PurgeStatus
<1>2. UNCHANGED <<posted, purged, scene>> BY <1>1 DEF history
<1>3. status'.last_msg = status.last_msg
  <2>1. mem[s].status \in Status BY MemTyped DEF MemType
  <2>2. mem[s].status.last_msg = status.last_msg BY <1>1 DEF NumberInv, Purging
  <2> QED BY <1>1, <2>1, <2>2 DEF Status
<1>4. Purges \/ purged' = {} BY <1>2 DEF ThreadsRight
<1>5. CASE pc[s] = "truncated" /\ Moved(s, "counted", mem[s])
  <2>1. KeepAt("truncated", mem[s]) BY <1>5 DEF ThreadsRight, ThreadAt
  <2>2. KeepAt("counted", mem[s]) BY <2>1 DEF KeepAt, Purging
  <2>3. ThreadAt("counted", mem[s]) BY <2>2 DEF ThreadAt, ReplyAt, ChangeAt, Replying, Adding
  <2> QED BY <1>1, <1>2, <1>3, <1>4, <1>5, <2>3, ThreadsCalm DEF Adding
<1>6. CASE Moved(s, "idle", NoMem)
  <2>1. ThreadAt("idle", NoMem) BY AsideThread DEF Replying, Adding, Purging
  <2> QED BY <1>1, <1>2, <1>3, <1>4, <1>6, <2>1, ThreadsCalm DEF Adding
<1> QED BY <1>1, <1>5, <1>6, ThenIs

---------------------------------------------------------------------------
(* Steps that write headers *)

\* Who has the base locked sees the status and the index agree, but for a record that
\* it has written itself.
LEMMA Counted ==
  ASSUME TypeInv, LockInv, StoreInv, Faults = {}, \A c \in Scenes : NoScriptPurge(c),
         NEW s \in Sessions, InBase(s), pc[s] \notin Purging \union {"commit"}
  PROVE  /\ Len(sid) = status.total_msgs
         /\ \A i \in DOMAIN sid : sid[i].number <= status.last_msg
<1>1. Nobody(Purging) /\ \A t \in Sessions : t # s => pc[t] \notin Adding BY OthersEdit
<1>2. Nobody({"commit"} \union (Purging \ {"free"})) BY <1>1 DEF Nobody, Adding
<1>3. Len(sid) = status.total_msgs BY <1>2, Faultless DEF OrderInv
<1>4. \A i \in DOMAIN sid : i <= status.total_msgs BY <1>3 DEF TypeInv, FilesOK
<1> QED BY <1>3, <1>4, Faultless DEF OrderInv

LEMMA PostHeaderThread ==
  ASSUME TypeInv, LockInv, StoreInv, Faults = {}, ThreadsRight, \A c \in Scenes : NoScriptPurge(c),
         NEW s \in Sessions, PostHeader(s)
  PROVE  ThreadsRight'
<1>0. PICK m, m0, o : m = mem'[s] /\ m0 = mem[s] /\ o = m.offset OBVIOUS
<1>1. /\ pc[s] = "alloc" /\ UNCHANGED <<status, sid, history>> /\ Moved(s, "index", m)
      /\ m.op = m0.op /\ m.hdr = m0.hdr /\ o \in Offsets /\ o \notin sha
      /\ shd' = [shd EXCEPT ![o] = m0.hdr]
  BY <1>0, PostHeaderIs
<1>2. m.wanted = m0.wanted
  <2>1. PICK p : mem'[s] = [mem[s] EXCEPT !.offset = p] BY DEF PostHeader, Remember, TypeInv
  <2>2. mem[s] \in MemType BY MemTyped
  <2> QED BY <1>0, <2>1, <2>2 DEF MemType
<1>3. UNCHANGED <<posted, purged, scene>> BY <1>1 DEF history
<1>4. pc'[s] = "index" /\ mem'[s] = m BY <1>1 DEF Moved
<1>5. InBase(s) /\ pc[s] \notin Purging BY <1>1 DEF InBase, InBaseAt, Adding, Purging
<1>6. Nobody(Purging) BY <1>5, NobodyPurges
<1>7. shd'[o] = m0.hdr /\ \A p : p # o => shd'[p] = shd[p] BY <1>1 DEF TypeInv, FilesOK
<1>8. \A i \in DOMAIN sid : sid[i].offset # o BY <1>1, <1>6, HeaderPlaced DEF Placed
<1>9. Alike BY <1>1, <1>7, <1>8 DEF Alike
<1>10. Promised \subseteq Promised' BY <1>0, <1>1, <1>3, PromisedStays DEF Adding
<1>11. ASSUME NEW t \in Sessions, t # s PROVE Steady(pc[t], mem[t])
  <2>1. pc[t] = "idle" \/ (pc[t] \in Editing /\ mem[t].op \in {"load", "put_header"})
    BY <1>5, <1>11, Bystander
  <2>2. pc[t] = "read" /\ mem[t].op # "load" => mem[t].offset # o
    BY <1>8, Faultless DEF EditInv
  <2> QED BY <1>1, <1>7, <2>1, <2>2 DEF Steady, Editing, Purging, Replying, Adding
<1>12. ThreadAt(pc[s], mem[s])'
  <2>1. ThreadAt("alloc", m0) BY <1>0, <1>1 DEF ThreadsRight
  <2>2. Steady("alloc", m0) BY <1>1 DEF Steady, Purging
  <2>3. ThreadAt("alloc", m0)' BY <1>3, <1>9, <1>10, <2>1, <2>2, PlaceStays
  <2>4. ReplyAt("alloc", m0)' BY <2>3 DEF ThreadAt
  <2>5. ReplyAt("index", m)' BY <1>0, <1>1, <1>2, <1>7, <2>4 DEF ReplyAt, Replying, Adding
  <2>6. ThreadAt("index", m)' BY <2>5 DEF ThreadAt, ChangeAt, KeepAt, Purging
  <2> QED BY <1>4, <2>6
<1>13. \A i \in DOMAIN sid : shd'[sid[i].offset] = shd[sid[i].offset] BY <1>7, <1>8
<1>14. Purges \/ purged' = {} BY <1>3 DEF ThreadsRight
<1> QED BY <1>1, <1>3, <1>9, <1>10, <1>11, <1>12, <1>13, <1>14, ThreadStep

\* The link is written before the reply it leads to.
LEMMA ThreadLinkThread ==
  ASSUME TypeInv, LockInv, StoreInv, Faults = {}, ThreadsRight, \A c \in Scenes : NoScriptPurge(c),
         NEW s \in Sessions, ThreadLink(s)
  PROVE  ThreadsRight'
<1>0. PICK m, o, n, back, h, k : /\ m = mem[s] /\ o = m.offset /\ n = status.last_msg + 1
                                 /\ back = m.wanted /\ h = shd[o] /\ k = Linked(s)
  OBVIOUS
<1>1. /\ pc[s] = "linked" /\ UNCHANGED <<status, sid, history>> /\ Moved(s, "post", m)
  BY <1>0, Moves DEF ThreadLink
<1>2. UNCHANGED <<posted, purged, scene>> BY <1>1 DEF history
<1>3. pc'[s] = "post" /\ mem'[s] = m BY <1>0, <1>1 DEF Moved
<1>4. /\ o \in Offsets /\ k \in Header /\ k.number = h.number /\ shd' = [shd EXCEPT ![o] = k]
  BY <1>0, ThreadLinkTyped
<1>5. shd'[o] = k /\ \A p : p # o => shd'[p] = shd[p] BY <1>4 DEF TypeInv, FilesOK
<1>6. InBase(s) /\ pc[s] \notin Purging BY <1>1 DEF InBase, InBaseAt, Replying, Purging
<1>7. ReplyAt("linked", m) BY <1>0, <1>1 DEF ThreadsRight, ThreadAt
<1>8. PICK i0 \in DOMAIN sid : sid[i0].offset = o BY <1>0, <1>7 DEF ReplyAt
<1>9. h \in Headers(sid) /\ h \in Header /\ h.number \in Numbers BY <1>0, <1>8, HeadersTyped DEF Headers
<1>10. m \in MemType /\ m.op = "reply" /\ m.status.last_msg < MaxNumber
  BY <1>0, <1>1, MemTyped
     DEF TypeInv, SessionOK, PcOf, Replying, Adding, Editing, Purging
<1>11. /\ m.status.last_msg = status.last_msg
       /\ m.hdr.thread_first = 0 /\ m.hdr.thread_next = 0 /\ m.hdr.thread_back = back
       /\ back \in posted \union {0} /\ back # 0
       /\ Open(h, back)
  BY <1>0, <1>7, <1>10 DEF ReplyAt, Replying
<1>12. n \in Numbers /\ back \in Numbers /\ status.last_msg \in Nat
  BY <1>0, <1>10, <1>11, LastNumber, SceneTypes DEF Numbers, TypeInv, FilesOK
<1>13. h.number <= status.last_msg /\ \A to \in Headers(sid) : to.number <= status.last_msg
  <2>1. Nobody(Purging) BY <1>6, NobodyPurges
  <2>2. \A i \in DOMAIN sid : shd[sid[i].offset].number <= status.last_msg
    <3>1. \A i \in DOMAIN sid : sid[i].number <= status.last_msg
      <4>1. pc[s] # "commit" BY <1>1
      <4> QED BY <1>6, <4>1, Counted
    <3> QED BY <2>1, <3>1, HeaderPlaced DEF Placed
  <2> QED BY <1>9, <2>2 DEF Headers
<1>14. n > h.number /\ \A to \in Headers(sid) : to.number # n
  <2>1. \A to \in Headers(sid) : to.number \in Nat BY HeadersTyped DEF Numbers
  <2>2. n = status.last_msg + 1 /\ h.number \in Nat BY <1>0, <1>9 DEF Numbers
  <2> QED BY <1>12, <1>13, <2>1, <2>2
<1>15. \/ /\ h.number = back /\ (Unscripted => h.thread_first = 0)
          /\ k = [h EXCEPT !.thread_first = n]
       \/ /\ h.number # back /\ h.thread_back = back /\ (Unscripted => h.thread_next = 0)
          /\ k = [h EXCEPT !.thread_next = n]
  <2>1. k = IF h.number = back THEN [h EXCEPT !.thread_first = n] ELSE [h EXCEPT !.thread_next = n]
    BY <1>0, <1>11 DEF Linked
  <2>2. h.number > back => h.number # back BY <1>9, <1>12 DEF Numbers
  <2> QED BY <1>11, <2>1, <2>2 DEF Open
<1>16. /\ k.thread_back = h.thread_back
       /\ \/ /\ h.number = back /\ (Unscripted => h.thread_first = 0)
             /\ k.thread_first = n /\ k.thread_next = h.thread_next
          \/ /\ h.number # back /\ h.thread_back = back /\ (Unscripted => h.thread_next = 0)
             /\ k.thread_next = n /\ k.thread_first = h.thread_first
  BY <1>9, <1>15 DEF Header
<1>17. Alike
  <2>1. Unscripted => \A q, b : q # 0 /\ Links(h, q, b) => Links(k, q, b)
    BY <1>4, <1>16 DEF Links
  <2>2. ASSUME NEW i \in DOMAIN sid
        PROVE  LET g == shd[sid[i].offset]
                   l == shd'[sid[i].offset]
               IN  /\ l.number = g.number /\ l.thread_back = g.thread_back
                   /\ Unscripted => \A q, b : q # 0 /\ Links(g, q, b) => Links(l, q, b)
    <3>1. CASE sid[i].offset = o BY <1>0, <1>4, <1>5, <1>16, <2>1, <3>1
    <3>2. CASE sid[i].offset # o BY <1>5, <3>2
    <3> QED BY <3>1, <3>2
  <2> QED BY <1>1, <2>2 DEF Alike
<1>18. Promised \subseteq Promised' BY <1>1, <1>2, PromisedStays DEF Adding
<1>19. <<n, back>> \in Promised'
  <2>1. Coming(n, back)' BY <1>0, <1>1, <1>3, <1>10, <1>11 DEF Coming
  <2>2. Numbers' = Numbers BY DEF Numbers
  <2> QED BY <1>12, <2>1, <2>2 DEF Promised, Numbers
<1>20. Right(h, Headers(sid)) BY <1>9 DEF ThreadsRight, AllRight
<1>21. Ahead(k)' /\ \A to \in Headers(sid) : Leads(k, to)
  <2>1. \A r : r \in Promised => r \in Promised' BY <1>18
  <2>2. Ahead(k)' BY <1>4, <1>14, <1>16, <1>19, <1>20, <2>1 DEF Right, Ahead
  <2>3. \A to \in Headers(sid) : Leads(k, to) BY <1>4, <1>14, <1>16, <1>20 DEF Right, Leads
  <2> QED BY <2>2, <2>3
<1>22. ASSUME NEW t \in Sessions, t # s PROVE Steady(pc[t], mem[t])
  <2>1. pc[t] = "idle" \/ (pc[t] \in Editing /\ mem[t].op \in {"load", "put_header"})
    BY <1>6, <1>22, Bystander
  <2>2. pc[t] = "read" => mem[t].offset # o
    BY <1>0, <1>1, <1>22, Excluded DEF HasHeader, HasHeaderAt
  <2> QED BY <1>1, <1>5, <2>1, <2>2 DEF Steady, Editing, Purging, Replying, Adding
<1>23. ThreadAt(pc[s], mem[s])'
  <2>1. k \in Headers(sid)'
    <3>1. Headers(sid)' = {shd'[sid'[i].offset] : i \in DOMAIN sid'} BY DEF Headers
    <3> QED BY <1>1, <1>5, <1>8, <3>1
  <2>2. Links(k, n, back) BY <1>4, <1>16 DEF Links
  <2>3. \E l \in Headers(sid)' : Links(l, status'.last_msg + 1, m.wanted)
    BY <1>0, <1>1, <2>1, <2>2
  <2>4. ReplyAt("post", m)' BY <1>0, <1>1, <1>2, <1>10, <1>11, <2>3 DEF ReplyAt, Replying, Adding
  <2>5. ThreadAt("post", m)' BY <2>4 DEF ThreadAt, ChangeAt, KeepAt, Purging
  <2> QED BY <1>3, <2>5
<1>24. ASSUME NEW i \in DOMAIN sid, NEW l, l = shd'[sid[i].offset] /\ l # shd[sid[i].offset]
       PROVE  Ahead(l)' /\ \A to \in Headers(sid) : Leads(l, to)
  <2>1. sid[i].offset = o BY <1>5, <1>24
  <2>2. l = k BY <1>5, <1>24, <2>1
  <2> QED BY <1>21, <2>2
<1>25. Purges \/ purged' = {} BY <1>2 DEF ThreadsRight
<1> QED BY <1>1, <1>2, <1>17, <1>18, <1>22, <1>23, <1>24, <1>25, ThreadStep

\* A script's header leads to replies, and is a reply to the same message as the one it
\* takes the place of.
LEMMA WriteHeaderThread ==
  ASSUME TypeInv, LockInv, StoreInv, Faults = {}, ThreadsRight, \A c \in Scenes : NoScriptPurge(c),
         NEW s \in Sessions, NEW deleted \in BOOLEAN, WriteHeader(s, deleted)
  PROVE  ThreadsRight'
<1>0. PICK m, m0, o, h, k : /\ m = mem'[s] /\ m0 = mem[s] /\ o = m0.offset
                            /\ h = shd[o] /\ k = m.hdr
  OBVIOUS
<1>1. /\ pc[s] = "read" /\ UNCHANGED <<status, sid, history>> /\ m0.op # "load"
      /\ o \in Offsets /\ shd' = [shd EXCEPT ![o] = k] /\ Moved(s, "written", m)
      /\ k.number = m0.hdr.number
  BY <1>0, WriteHeaderIs
<1>2. UNCHANGED <<posted, purged, scene>> BY <1>1 DEF history
<1>3. pc'[s] = "written" /\ mem'[s] = m BY <1>1 DEF Moved
<1>4. shd'[o] = k /\ \A p : p # o => shd'[p] = shd[p] BY <1>1 DEF TypeInv, FilesOK
<1>5. /\ m0.slot \in DOMAIN sid /\ sid[m0.slot].offset = o /\ Nobody(Purging)
      /\ h.number = sid[m0.slot].number
  BY <1>0, <1>1, RecordFound, Faultless
<1>6. h \in Headers(sid) /\ Right(h, Headers(sid))
  BY <1>0, <1>5 DEF Headers, ThreadsRight, AllRight
<1>7. ChangeAt("read", m0) BY <1>0, <1>1 DEF ThreadsRight, ThreadAt
<1>8. m0.hdr = h BY <1>0, <1>1, <1>7 DEF ChangeAt
<1>9. m0 \in MemType BY <1>0, MemTyped
<1>10. m0.op = "put_header" => ~Unscripted BY <1>0, <1>1, PlaceOf DEF Unscripted
<1>11. \/ /\ m0.op # "put_header"
          /\ k.thread_first = h.thread_first /\ k.thread_next = h.thread_next
          /\ k.thread_back = h.thread_back
       \/ /\ m0.op = "put_header"
          /\ k.thread_first = m0.script.thread_first /\ k.thread_next = m0.script.thread_next
          /\ k.thread_back = m0.script.thread_back
  <2>1. k = [Changed(m0) EXCEPT !.deleted = deleted]
    <3>1. mem'[s] = [mem[s] EXCEPT !.hdr = [Changed(mem[s]) EXCEPT !.deleted = deleted]]
      BY DEF WriteHeader, Remember, TypeInv
    <3> QED BY <1>0, <1>9, <3>1 DEF MemType
  <2>2. m0.hdr \in Header /\ m0.script \in Header BY <1>9 DEF MemType
  <2>3. Changed(m0) = IF m0.op # "put_header" THEN m0.hdr
                      ELSE [m0.script EXCEPT !.number = m0.hdr.number, !.deleted = m0.hdr.deleted]
    BY DEF Changed
  <2> QED BY <1>8, <2>1, <2>2, <2>3 DEF Header
<1>12. /\ k.number = h.number /\ k.thread_back = h.thread_back /\ Right(k, Headers(sid))
       /\ Unscripted => k.thread_first = h.thread_first /\ k.thread_next = h.thread_next
  <2>1. CASE m0.op # "put_header" BY <1>1, <1>6, <1>8, <1>11, <2>1 DEF Right, Ahead, Leads
  <2>2. CASE m0.op = "put_header"
    <3>1. /\ Right(m0.script, Headers(sid)) /\ m0.script.number = m0.wanted
          /\ h.number = m0.wanted => h.thread_back = m0.script.thread_back
          /\ sid[m0.slot].number = m0.wanted
      BY <1>6, <1>7, <2>2 DEF ChangeAt
    <3> QED BY <1>1, <1>5, <1>8, <1>10, <1>11, <2>2, <3>1 DEF Right, Ahead, Leads
  <2> QED BY <2>1, <2>2
<1>13. Alike
  <2>1. Unscripted => \A q, b : q # 0 /\ Links(h, q, b) => Links(k, q, b) BY <1>12 DEF Links
  <2>2. ASSUME NEW i \in DOMAIN sid
        PROVE  LET g == shd[sid[i].offset]
                   l == shd'[sid[i].offset]
               IN  /\ l.number = g.number /\ l.thread_back = g.thread_back
                   /\ Unscripted => \A q, b : q # 0 /\ Links(g, q, b) => Links(l, q, b)
    <3>1. CASE sid[i].offset = o BY <1>0, <1>4, <1>12, <2>1, <3>1
    <3>2. CASE sid[i].offset # o BY <1>4, <3>2
    <3> QED BY <3>1, <3>2
  <2> QED BY <1>1, <2>2 DEF Alike
<1>14. Promised \subseteq Promised' BY <1>1, <1>2, PromisedStays DEF Adding
<1>15. ASSUME NEW t \in Sessions, t # s PROVE Steady(pc[t], mem[t])
  <2>1. pc[t] \notin Purging BY <1>5 DEF Nobody
  <2>2. pc[t] = "read" => mem[t].offset # o
    BY <1>0, <1>1, <1>15, Excluded DEF HasHeader, HasHeaderAt
  <2>3. pc[t] = "index" => mem[t].offset # o BY <1>5, Faultless DEF AddingInv
  <2>4. pc[t] \in {"link", "linked"} => ~Unscripted
    <3>1. InBase(s) \/ m0.op = "put_header" BY <1>0, <1>1, EditorsPlace
    <3>2. InBase(s) => pc[t] \notin {"link", "linked"} BY <1>15, Bystander DEF Editing
    <3> QED BY <1>10, <3>1, <3>2
  <2> QED BY <1>1, <1>4, <2>1, <2>2, <2>3, <2>4 DEF Steady
<1>16. ThreadAt(pc[s], mem[s])'
  <2>1. ThreadAt("written", m)' BY DEF ThreadAt, ReplyAt, ChangeAt, KeepAt, Replying, Adding, Purging
  <2> QED BY <1>3, <2>1
<1>17. Ahead(k)' BY <1>12, <1>14 DEF Right, Ahead
<1>18. ASSUME NEW i \in DOMAIN sid, NEW l, l = shd'[sid[i].offset] /\ l # shd[sid[i].offset]
       PROVE  Ahead(l)' /\ \A to \in Headers(sid) : Leads(l, to)
  <2>1. sid[i].offset = o BY <1>4, <1>18
  <2>2. l = k BY <1>4, <1>18, <2>1
  <2> QED BY <1>12, <1>17, <2>2 DEF Right
<1>19. Purges \/ purged' = {} BY <1>2 DEF ThreadsRight
<1> QED BY <1>1, <1>2, <1>13, <1>14, <1>15, <1>16, <1>18, <1>19, ThreadStep

\* The reply that was promised is there.
LEMMA PostCommitThread ==
  ASSUME TypeInv, LockInv, NumberInv, StoreInv, Faults = {}, ThreadsRight,
         \A c \in Scenes : NoScriptPurge(c), NEW s \in Sessions, PostCommit(s)
  PROVE  ThreadsRight'
<1>1. /\ pc[s] = "commit" /\ UNCHANGED <<sid, shd, purged, scene>>
      /\ posted' = posted \union {mem[s].hdr.number} /\ Moved(s, "idle", NoMem)
  BY Moves DEF PostCommit
<1>2. mem[s].hdr.number = status.last_msg + 1 BY <1>1, AddingFound, Faultless
<1>3. InBase(s) BY <1>1 DEF InBase, InBaseAt, Adding
<1>4. pc'[s] = "idle" BY <1>1 DEF Moved
<1>5. Alike BY <1>1 DEF Alike
<1>6. Promised \subseteq Promised'
  <2>1. \A n, back : Coming(n, back) => n \in posted' BY <1>1, <1>2 DEF Coming
  <2>2. \A r \in Promised : /\ r \in Numbers \X (0..MaxNumber)
                            /\ r[1] \in posted \/ Coming(r[1], r[2])
    BY DEF Promised
  <2>3. Numbers' = Numbers BY DEF Numbers
  <2>4. \A r \in Promised : r \in Numbers \X (0..MaxNumber) /\ r[1] \in posted' BY <1>1, <2>1, <2>2
  <2> QED BY <2>3, <2>4 DEF Promised
<1>7. ASSUME NEW t \in Sessions, t # s PROVE Steady(pc[t], mem[t])
  <2>1. pc[t] = "idle" \/ pc[t] \in Editing BY <1>3, <1>7, Bystander
  <2> QED BY <1>1, <2>1 DEF Steady, Editing, Purging, Replying, Adding
<1>8. ThreadAt(pc[s], mem[s])'
  <2>1. PICK m : m = mem'[s] OBVIOUS
  <2>2. ThreadAt("idle", m)' BY DEF ThreadAt, ReplyAt, ChangeAt, KeepAt, Replying, Adding, Purging
  <2> QED BY <1>4, <2>1, <2>2
<1>9. Purges \/ purged' = {} BY <1>1 DEF ThreadsRight
<1> QED BY <1>1, <1>5, <1>6, <1>7, <1>8, <1>9, ThreadStep

---------------------------------------------------------------------------
(* Steps that write the index *)

\* If a header leads to the message that is being added, it is to the reply it is.
LEMMA LeadsToNew ==
  ASSUME TypeInv, LockInv, NumberInv, NEW s \in Sessions, pc[s] \in Adding,
         NEW h, Ahead(h), mem[s].hdr.number = status.last_msg + 1
  PROVE  Leads(h, mem[s].hdr)
<1>1. PICK n, g : n = status.last_msg + 1 /\ g = mem[s].hdr OBVIOUS
<1>2. InBase(s) BY DEF InBase, InBaseAt
<1>3. n # 0 /\ n \notin posted
  <2>1. n > status.last_msg /\ n # 0 BY <1>1, LastNumber
  <2>2. posted \subseteq 1..status.last_msg BY DEF NumberInv
  <2>3. \A k \in 1..status.last_msg : k <= status.last_msg /\ k \in Nat BY LastNumber
  <2>4. n \notin 1..status.last_msg BY <1>1, <2>1, <2>3, LastNumber
  <2> QED BY <2>1, <2>2, <2>4
<1>4. ASSUME NEW back, <<n, back>> \in Promised PROVE g.thread_back = back
  <2>1. Coming(n, back) BY <1>3, <1>4 DEF Promised
  <2>2. PICK t \in Sessions : pc[t] \in {"post"} \union Adding /\ mem[t].hdr.thread_back = back
    BY <2>1 DEF Coming
  <2>3. t = s BY <1>2, <2>2, Bystander DEF Editing, Adding
  <2> QED BY <1>1, <2>2, <2>3
<1>5. h.thread_first = n => g.thread_back = h.number BY <1>3, <1>4 DEF Ahead
<1>6. h.thread_next = n => g.thread_back = h.thread_back BY <1>3, <1>4 DEF Ahead
<1> QED BY <1>1, <1>5, <1>6 DEF Leads

LEMMA PostIndexThread ==
  ASSUME TypeInv, LockInv, NumberInv, StoreInv, Faults = {}, ThreadsRight,
         \A c \in Scenes : NoScriptPurge(c), NEW s \in Sessions, PostIndex(s)
  PROVE  ThreadsRight'
<1>0. PICK m, g, n, slot, hs : /\ m = mem[s] /\ g = m.hdr /\ n = status.last_msg + 1
                               /\ slot = m.slot /\ hs = Headers(sid)
  OBVIOUS
<1>1. /\ pc[s] = "index" /\ UNCHANGED <<status, shd, history>> /\ Put(slot, RecordFor(m))
      /\ Moved(s, "commit", m)
  BY <1>0, Moves DEF PostIndex
<1>2. UNCHANGED <<posted, purged, scene>> BY <1>1 DEF history
<1>3. /\ pc'[s] = "commit" /\ mem'[s] = m
      /\ \A t \in Sessions : t # s => pc'[t] = pc[t] /\ mem'[t] = mem[t]
  BY <1>1 DEF Moved
<1>4. InBase(s) BY <1>1 DEF InBase, InBaseAt, Adding
<1>5. /\ slot = status.total_msgs + 1 /\ g.number = n
  BY <1>0, <1>1, AddingFound, Faultless
<1>6. /\ Len(sid) = status.total_msgs
      /\ \A i \in DOMAIN sid : sid[i].number <= status.last_msg
  BY <1>1, <1>4, Counted DEF Purging
<1>7. /\ slot \in DOMAIN sid' /\ sid'[slot] = RecordFor(m)
      /\ \A j \in DOMAIN sid' : j # slot => j \in DOMAIN sid /\ sid'[j] = sid[j]
      /\ \A j \in DOMAIN sid : j \in DOMAIN sid' /\ j # slot
  <2>1. Fits(s, pc[s], mem[s]) BY FitsNow
  <2>2. mem[s].hdr.number # 0 /\ Written(mem[s].offset) /\ slot \in Numbers
    <3>1. mem[s].hdr.number \in Numbers /\ mem[s].slot \in 1..mem[s].hdr.number /\ Written(mem[s].offset)
      BY <1>1, <2>1 DEF Fits, Adding
    <3> QED BY <1>0, <3>1, SceneTypes DEF Numbers
  <2>3. PICK rec \in IdxRec : rec = RecordFor(m) BY <1>0, <2>2, RecordForTyped
  <2>4. sid \in Seq(IdxRec) /\ Len(sid) \in Nat /\ DOMAIN sid = 1..Len(sid) BY DEF TypeInv, FilesOK
  <2>5. slot = Len(sid) + 1 BY <1>5, <1>6
  <2> QED BY <1>1, <2>2, <2>3, <2>4, <2>5, PutIs
<1>8. ReplyAt("index", m) BY <1>0, <1>1 DEF ThreadsRight, ThreadAt
<1>9. /\ g = shd[m.offset] /\ g.thread_first = 0 /\ g.thread_next = 0 /\ g.thread_back = m.wanted
      /\ m.wanted # 0 <=> m.op = "reply"
  BY <1>0, <1>8 DEF ReplyAt, Adding
<1>10. Headers(sid)' = hs \union {g}
  <2>1. Headers(sid)' = {shd[sid'[i].offset] : i \in DOMAIN sid'} BY <1>1 DEF Headers
  <2>2. shd[sid'[slot].offset] = g BY <1>7, <1>9 DEF RecordFor
  <2>3. hs = {shd[sid[i].offset] : i \in DOMAIN sid} BY <1>0 DEF Headers
  <2> QED BY <1>7, <2>1, <2>2, <2>3
<1>11. Promised \subseteq Promised'
  <2>1. m.op = mem[s].op /\ m.hdr.thread_back = mem[s].hdr.thread_back BY <1>0
  <2> QED BY <1>1, <1>2, <2>1, PromisedStays DEF Adding
<1>12. n \in Nat /\ n # 0 /\ n > status.last_msg /\ status.last_msg \in Nat BY <1>0, LastNumber
<1>13. \A to \in hs \union {g} : to.number # 0 BY <1>0, <1>5, <1>12, HeadersTyped DEF Numbers
<1>14. ASSUME NEW h, Right(h, hs) PROVE Ahead(h)' /\ \A to \in hs \union {g} : Leads(h, to)
  <2>1. Ahead(h)' BY <1>11, <1>14 DEF Right, Ahead
  <2>2. Leads(h, g) BY <1>0, <1>1, <1>5, <1>14, LeadsToNew DEF Right, Adding
  <2> QED BY <1>14, <2>1, <2>2 DEF Right
<1>15. Ahead(g)' /\ \A to \in hs \union {g} : Leads(g, to)
  <2>1. Ahead(g)' BY <1>9 DEF Ahead
  <2> QED BY <1>9, <1>13, <2>1 DEF Leads
<1>16. AllRight(Headers(sid))'
  <2>1. \A h \in hs : Right(h, hs) BY <1>0 DEF ThreadsRight, AllRight
  <2>2. \A h \in hs \union {g} : Ahead(h)' /\ \A to \in hs \union {g} : Leads(h, to)
    BY <1>14, <1>15, <2>1
  <2> QED BY <1>10, <2>2 DEF AllRight, Right
<1>17. Unscripted' = Unscripted BY <1>2 DEF Unscripted, Ops
<1>18. ASSUME Unscripted, purged = {} PROVE Reached(Headers(sid))'
  <2>1. ASSUME NEW r \in hs, r.thread_back # 0 PROVE \E h \in hs : Links(h, r.number, r.thread_back)
    BY <1>0, <1>18, <2>1 DEF ThreadsRight, Reached
  <2>2. ASSUME g.thread_back # 0 PROVE \E h \in hs : Links(h, g.number, g.thread_back)
    BY <1>0, <1>5, <1>8, <1>9, <1>18, <2>2 DEF ReplyAt, Adding
  <2> QED BY <1>10, <2>1, <2>2 DEF Reached
<1>19. ThreadAt(pc[s], mem[s])'
  <2>1. hs \subseteq Headers(sid)' BY <1>10
  <2>2. ReplyAt("commit", m)' BY <1>0, <1>1, <1>2, <1>8, <1>17, <2>1 DEF ReplyAt, Replying, Adding
  <2>3. ThreadAt("commit", m)' BY <2>2 DEF ThreadAt, ChangeAt, KeepAt, Purging
  <2> QED BY <1>3, <2>3
<1>20. ASSUME NEW t \in Sessions, t # s PROVE ThreadAt(pc[t], mem[t])'
  <2>1. PICK p, q : p = pc[t] /\ q = mem[t] OBVIOUS
  <2>2. pc'[t] = p /\ mem'[t] = q BY <1>3, <1>20, <2>1
  <2>3. p = "idle" \/ (p \in Editing /\ q.op \in {"load", "put_header"})
    BY <1>4, <1>20, <2>1, Bystander
  <2>4. ChangeAt(p, q) BY <2>1 DEF ThreadsRight, ThreadAt
  <2>5. ASSUME p \in {"find", "found", "read"}, q.op = "put_header"
        PROVE  q.wanted # n
    <3>1. CASE p = "find"
      <4>1. q.wanted \in posted BY <2>1, <2>5, <3>1, Faultless DEF EditInv
      <4>2. posted \subseteq 1..status.last_msg BY DEF NumberInv
      <4>3. q.wanted \in 1..status.last_msg BY <4>1, <4>2
      <4> QED BY <1>12, <4>3
    <3>2. CASE p \in {"found", "read"}
      <4>1. q.slot \in DOMAIN sid /\ sid[q.slot].number = q.wanted BY <2>4, <2>5, <3>2 DEF ChangeAt
      <4>2. q.wanted \in Nat /\ q.wanted <= status.last_msg
        BY <1>6, <4>1, RecordTyped DEF Numbers
      <4> QED BY <1>12, <4>2
    <3> QED BY <2>5, <3>1, <3>2
  <2>6. ASSUME p \in {"find", "found", "read"}, q.op = "put_header"
        PROVE  /\ Right(q.script, Headers(sid))' /\ q.script.number = q.wanted
               /\ \A h \in Headers(sid)' : h.number = q.wanted => h.thread_back = q.script.thread_back
    <3>1. /\ Right(q.script, hs) /\ q.script.number = q.wanted
          /\ \A h \in hs : h.number = q.wanted => h.thread_back = q.script.thread_back
      BY <1>0, <2>4, <2>6 DEF ChangeAt
    <3>2. Right(q.script, Headers(sid))' BY <1>10, <1>14, <3>1 DEF Right
    <3> QED BY <1>5, <1>10, <2>5, <2>6, <3>1, <3>2
  <2>7. ChangeAt(p, q)' BY <1>1, <1>7, <2>4, <2>6 DEF ChangeAt
  <2>8. ThreadAt(p, q)' BY <2>3, <2>7 DEF ThreadAt, ReplyAt, KeepAt, Editing, Replying, Adding, Purging
  <2> QED BY <2>2, <2>8
<1>21. (Purges \/ purged = {})' BY <1>2, SceneSame DEF ThreadsRight
<1> QED BY <1>2, <1>16, <1>17, <1>18, <1>19, <1>20, <1>21 DEF ThreadsRight

\* Those who load messages while one purges.
LEMMA LoadersThread ==
  ASSUME TypeInv, LockInv, StoreInv, Faults = {}, \A c \in Scenes : NoScriptPurge(c),
         NEW s \in Sessions, pc[s] \in Purging, NEW place, NEW m, Moved(s, place, m),
         NEW t \in Sessions, t # s
  PROVE  ThreadAt(pc[t], mem[t])'
<1>1. pc[t] = "idle" \/ (pc[t] \in {"find", "found", "read"} /\ mem[t].op = "load")
  BY PurgingAlone, Faultless
<1>2. PICK p, q : p = pc[t] /\ q = mem[t] OBVIOUS
<1>3. pc'[t] = p /\ mem'[t] = q BY <1>2 DEF Moved
<1>4. ThreadAt(p, q)'
  BY <1>1, <1>2 DEF ThreadAt, ReplyAt, ChangeAt, KeepAt, Replying, Adding, Purging
<1> QED BY <1>3, <1>4

LEMMA PurgeTruncateThread ==
  ASSUME TypeInv, LockInv, StoreInv, Faults = {}, ThreadsRight, \A c \in Scenes : NoScriptPurge(c),
         NEW s \in Sessions, PurgeTruncate(s)
  PROVE  ThreadsRight'
<1>0. PICK m : m = mem[s] OBVIOUS
<1>1. /\ pc[s] = "free" /\ m.dead = <<>> /\ sid' = <<>>
      /\ UNCHANGED <<status, shd, history>> /\ Moved(s, "truncated", m)
  BY <1>0, Moves DEF PurgeTruncate
<1>2. UNCHANGED <<posted, purged, scene>> BY <1>1 DEF history
<1>3. pc'[s] = "truncated" /\ mem'[s] = m BY <1>1 DEF Moved
<1>4. Promised \subseteq Promised' BY <1>1, <1>2, PromisedStays DEF Adding
<1>5. Headers(sid)' = {} BY <1>1 DEF Headers
<1>6. AllRight(Headers(sid))' /\ Reached(Headers(sid))' BY <1>5 DEF AllRight, Reached
<1>7. ThreadAt(pc[s], mem[s])'
  <2>1. KeepAt("free", m) BY <1>0, <1>1 DEF ThreadsRight, ThreadAt
  <2>2. KeepAt("free", m)' BY <1>1, <1>2, <1>4, <2>1, KeepStays
  <2>3. KeepAt("truncated", m)' BY <1>1, <2>2 DEF KeepAt, Purging
  <2>4. ThreadAt("truncated", m)' BY <2>3 DEF ThreadAt, ReplyAt, ChangeAt, Replying, Adding
  <2> QED BY <1>3, <2>4
<1>8. \A t \in Sessions : t # s => ThreadAt(pc[t], mem[t])' BY <1>1, LoadersThread DEF Purging
<1>9. (Purges \/ purged = {})' BY <1>2, SceneSame DEF ThreadsRight
<1> QED BY <1>6, <1>7, <1>8, <1>9 DEF ThreadsRight

LEMMA PurgeWriteThread ==
  ASSUME TypeInv, LockInv, StoreInv, Faults = {}, ThreadsRight, \A c \in Scenes : NoScriptPurge(c),
         NEW s \in Sessions, PurgeWrite(s)
  PROVE  ThreadsRight'
<1>0. PICK m, K, p0 : m = mem[s] /\ K = m.kept /\ p0 = pc[s] OBVIOUS
<1>1. p0 \in {"truncated", "counted"} /\ UNCHANGED <<status, shd, history>> /\ Then(s, "rewritten")
  BY <1>0 DEF PurgeWrite
<1>2. UNCHANGED <<posted, purged, scene>> BY <1>1 DEF history
<1>3. sid' = K BY <1>0, PurgeWriteIs, Faultless
<1>4. PICK place, q : /\ Moved(s, place, q)
                      /\ (place = "rewritten" /\ q = m) \/ place = "idle"
  BY <1>0, <1>1, ThenIs
<1>5. pc'[s] = place /\ mem'[s] = q BY <1>4 DEF Moved
<1>6. Promised \subseteq Promised' BY <1>0, <1>1, <1>2, <1>4, PromisedStays DEF Adding
<1>7. KeepAt(p0, m)'
  <2>1. KeepAt(p0, m) BY <1>0 DEF ThreadsRight, ThreadAt
  <2> QED BY <1>1, <1>2, <1>6, <2>1, KeepStays
<1>8. Headers(sid)' = Headers(K)' BY <1>3 DEF Headers
<1>9. AllRight(Headers(sid))' /\ (Unscripted /\ purged = {} => Reached(Headers(sid)))'
  <2>1. m.dead = <<>> /\ AllRight(Headers(K))' /\ (Unscripted /\ purged = {} => Reached(Headers(K)))'
    BY <1>0, <1>1, <1>7 DEF KeepAt, Purging
  <2> QED BY <1>8, <2>1 DEF AllRight, Right, Reached
<1>10. ThreadAt(pc[s], mem[s])'
  <2>1. ThreadAt("idle", q)' BY DEF ThreadAt, ReplyAt, ChangeAt, KeepAt, Replying, Adding, Purging
  <2>2. KeepAt("rewritten", m)' BY <1>1, <1>7 DEF KeepAt, Purging
  <2>3. ThreadAt("rewritten", m)' BY <2>2 DEF ThreadAt, ReplyAt, ChangeAt, Replying, Adding
  <2> QED BY <1>4, <1>5, <2>1, <2>3
<1>11. \A t \in Sessions : t # s => ThreadAt(pc[t], mem[t])'
  BY <1>0, <1>1, <1>4, LoadersThread DEF Purging
<1>12. (Purges \/ purged = {})' BY <1>2, SceneSame DEF ThreadsRight
<1> QED BY <1>9, <1>10, <1>11, <1>12 DEF ThreadsRight

---------------------------------------------------------------------------
(* Every step *)

LEMMA SceneStays ==
  ASSUME [Next]_vars
  PROVE  scene' = scene
<1>1. ASSUME NEW s \in Sessions,
             \/ PostLock(s, "post", 0) \/ \E n \in posted : PostLock(s, "reply", n)
             \/ ThreadFind(s) \/ ThreadLock(s) \/ ThreadLink(s)
             \/ PostFails(s) \/ PostStatus(s) \/ PostHeader(s)
             \/ PostIndexFails(s) \/ PostIndex(s) \/ PostCommit(s)
      PROVE  scene' = scene
  BY <1>1 DEF history, PostLock, ThreadFind, ThreadLock, ThreadLink, PostFails, PostStatus,
              PostHeader, PostIndexFails, PostIndex, PostCommit
<1>2. ASSUME NEW s \in Sessions,
             \/ \E n \in posted : UpdateLock(s, n) \/ KillNext(s, n)
             \/ \E n \in posted, op \in {"load", "put_header"} : FindBegin(s, op, n)
             \/ Find(s) \/ FindNothing(s) \/ ReadHeader(s) \/ LoadDone(s)
             \/ \E deleted \in BOOLEAN : WriteHeader(s, deleted)
             \/ WriteIndex(s)
      PROVE  scene' = scene
  BY <1>2 DEF history, UpdateLock, KillNext, FindBegin, Find, FindNothing, ReadHeader, LoadDone,
              WriteHeader, WriteIndex
<1>3. ASSUME NEW s \in Sessions,
             \/ PurgeLock(s) \/ KillLock(s) \/ KillDone(s)
             \/ PurgeNothing(s) \/ PurgeRead(s) \/ PurgeFree(s)
             \/ PurgeTruncate(s) \/ PurgeWrite(s) \/ PurgeStatus(s)
             \/ LockRefused(s) \/ Crash(Proc[s])
      PROVE  scene' = scene
  BY <1>3 DEF history, PurgeLock, KillLock, KillDone, PurgeNothing, PurgeRead, PurgeFree,
              PurgeTruncate, PurgeWrite, PurgeStatus, LockRefused, Crash
<1>4. ASSUME UNCHANGED vars PROVE scene' = scene BY <1>4 DEF vars, history
<1> QED BY <1>1, <1>2, <1>3, <1>4 DEF Next

\* Nothing fails: the status and the index agree when a message is added.
LEMMA NothingFails ==
  ASSUME TypeInv, LockInv, NumberInv, StoreInv, Faults = {}, \A c \in Scenes : NoScriptPurge(c),
         NEW s \in Sessions
  PROVE  ~PostFails(s) /\ ~PostIndexFails(s) /\ ~Crash(Proc[s])
<1>1. ~PostFails(s) /\ ~Crash(Proc[s]) BY DEF PostFails, Crash
<1>2. ASSUME PostIndexFails(s) PROVE FALSE
  <2>1. pc[s] = "index" /\ mem[s].slot > Len(sid) + 1 BY <1>2 DEF PostIndexFails
  <2>2. InBase(s) BY <2>1 DEF InBase, InBaseAt, Adding
  <2>3. Len(sid) = status.total_msgs BY <2>1, <2>2, Counted DEF Purging
  <2>4. mem[s].slot = status.total_msgs + 1 /\ status.total_msgs \in Nat
    BY <2>1, AddingFound, Faultless
  <2> QED BY <2>1, <2>3, <2>4
<1> QED BY <1>1, <1>2

LEMMA ThreadsSame ==
  ASSUME TypeInv, ThreadsRight, UNCHANGED vars
  PROVE  ThreadsRight'
<1>1. CASE \E s \in Sessions : TRUE BY <1>1, ThreadsUnchanged
<1>2. CASE Sessions = {}
  <2>1. UNCHANGED <<status, sid, shd, scene, posted, purged>> BY DEF vars, files, history
  <2>2. Headers(sid)' = Headers(sid) BY <2>1 DEF Headers
  <2>3. \A n, back : ~Coming(n, back) BY <1>2 DEF Coming
  <2>4. Numbers' = Numbers BY DEF Numbers
  <2>5. Promised \subseteq Promised' BY <2>1, <2>3, <2>4 DEF Promised
  <2>6. \A h : Ahead(h) => Ahead(h)' BY <2>5 DEF Ahead
  <2>7. AllRight(Headers(sid))' BY <2>2, <2>6 DEF ThreadsRight, AllRight, Right
  <2>8. (Unscripted /\ purged = {} => Reached(Headers(sid)))'
    BY <2>1, <2>2 DEF ThreadsRight, Reached, Unscripted, Ops
  <2>9. (Purges \/ purged = {})' BY <2>1, SceneSame DEF ThreadsRight
  <2> QED BY <1>2, <2>7, <2>8, <2>9 DEF ThreadsRight
<1> QED BY <1>1, <1>2

LEMMA StepKeepsThreads ==
  ASSUME TypeInv, LockInv, NumberInv, StoreInv, ThreadInv, \A c \in Scenes : NoScriptPurge(c),
         [Next]_vars
  PROVE  ThreadInv'
<1>1. Faults' = Faults BY SceneStays DEF Faults
<1> SUFFICES ASSUME Faults = {} PROVE ThreadsRight' BY <1>1 DEF ThreadInv
<1>2. ThreadsRight BY DEF ThreadInv
<1>3. ASSUME NEW s \in Sessions,
             PostLock(s, "post", 0) \/ \E n \in posted : PostLock(s, "reply", n)
      PROVE  ThreadsRight'
  BY <1>2, <1>3, PostLockThread
<1>4. ASSUME NEW s \in Sessions,
             \/ ThreadFind(s) \/ ThreadLock(s) \/ ThreadLink(s)
             \/ PostStatus(s) \/ PostHeader(s) \/ PostIndex(s) \/ PostCommit(s)
      PROVE  ThreadsRight'
  BY <1>2, <1>4, ThreadFindThread, ThreadLockThread, ThreadLinkThread, PostStatusThread,
     PostHeaderThread, PostIndexThread, PostCommitThread
<1>5. ASSUME NEW s \in Sessions,
             \/ \E n \in posted : UpdateLock(s, n) \/ KillNext(s, n)
             \/ \E n \in posted, op \in {"load", "put_header"} : FindBegin(s, op, n)
             \/ FindNothing(s) \/ LoadDone(s)
             \/ PurgeLock(s) \/ KillLock(s) \/ PurgeNothing(s) \/ KillDone(s)
      PROVE  ThreadsRight'
  BY <1>2, <1>5, ThreadsAside, FindBeginThread
<1>6. ASSUME NEW s \in Sessions,
             \/ Find(s) \/ ReadHeader(s) \/ WriteIndex(s)
             \/ \E deleted \in BOOLEAN : WriteHeader(s, deleted)
      PROVE  ThreadsRight'
  BY <1>2, <1>6, FindThread, ReadHeaderThread, WriteIndexThread, WriteHeaderThread
<1>7. ASSUME NEW s \in Sessions,
             \/ PurgeRead(s) \/ PurgeFree(s) \/ PurgeTruncate(s) \/ PurgeWrite(s) \/ PurgeStatus(s)
      PROVE  ThreadsRight'
  BY <1>2, <1>7, PurgeReadThread, PurgeFreeThread, PurgeTruncateThread, PurgeWriteThread,
     PurgeStatusThread
<1>8. ASSUME NEW s \in Sessions, LockRefused(s) PROVE ThreadsRight' BY <1>2, <1>8, ThreadsUnchanged
<1>9. ASSUME UNCHANGED vars PROVE ThreadsRight' BY <1>2, <1>9, ThreadsSame
<1>10. \A s \in Sessions : ~PostFails(s) /\ ~PostIndexFails(s) /\ ~Crash(Proc[s]) BY NothingFails
<1> QED BY <1>3, <1>4, <1>5, <1>6, <1>7, <1>8, <1>9, <1>10 DEF Next

LEMMA InitThreads == Init => ThreadInv
<1> SUFFICES ASSUME Init PROVE ThreadsRight BY DEF ThreadInv
<1>1. sid = <<>> /\ purged = {} /\ \A s \in Sessions : pc[s] = "idle" BY DEF Init
<1>2. Headers(sid) = {} BY <1>1 DEF Headers
<1>3. \A s \in Sessions : ThreadAt(pc[s], mem[s])
  BY <1>1, AsideThread DEF Replying, Adding, Purging
<1> QED BY <1>1, <1>2, <1>3 DEF ThreadsRight, AllRight, Reached

LEMMA ThreadInvariant ==
  ASSUME \A c \in Scenes : WellUsed(c)
  PROVE  Spec => [](TypeInv /\ StoreInv /\ ThreadInv)
<1>1. (\A c \in Scenes : Guarded(c)) /\ \A c \in Scenes : NoScriptPurge(c) BY DEF WellUsed
<1>2. Spec => [](TypeInv /\ LockInv /\ NumberInv) BY <1>1, NumberInvariant
<1>3. Spec => [](TypeInv /\ StoreInv) BY StoreInvariant
<1>4. TypeInv /\ LockInv /\ NumberInv /\ StoreInv /\ ThreadInv /\ [Next]_vars => ThreadInv'
  BY <1>1, StepKeepsThreads
<1> QED BY <1>2, <1>3, <1>4, InitThreads, PTL DEF Spec

LEMMA LinksFollow == TypeInv /\ StoreInv /\ ThreadInv => LinksAreReplies
<1> SUFFICES ASSUME TypeInv, StoreInv, ThreadsRight, Faults = {} PROVE LinksRight
  BY DEF LinksAreReplies, ThreadInv
<1> SUFFICES ASSUME NEW i \in DOMAIN sid, NEW j \in DOMAIN sid
             PROVE  Leads(HeaderOf(sid[i].number), HeaderOf(sid[j].number))
  BY DEF LinksRight, Leads
<1>1. /\ HeaderOf(sid[i].number) = shd[sid[i].offset]
      /\ HeaderOf(sid[j].number) = shd[sid[j].offset]
  BY Faultless, HeaderFound
<1>2. shd[sid[i].offset] \in Headers(sid) /\ shd[sid[j].offset] \in Headers(sid) BY DEF Headers
<1> QED BY <1>1, <1>2 DEF ThreadsRight, AllRight, Right

\* The links of a thread lead to replies: the first reply to a message is a reply to it, and
\* the next reply to the same message is one, whoever posts, purges or writes headers, as
\* long as nothing fails between the link and the reply.
THEOREM LinksAreRepliesCorrect ==
  ASSUME \A c \in Scenes : WellUsed(c)
  PROVE  Spec => []LinksAreReplies
BY ThreadInvariant, LinksFollow, PTL

LEMMA LinkedFollow == TypeInv /\ StoreInv /\ ThreadInv => RepliesLinked
<1> SUFFICES ASSUME TypeInv, StoreInv, ThreadsRight, Faults = {}, Unscripted, purged = {},
                    NEW i \in DOMAIN sid, HeaderOf(sid[i].number).thread_back # 0
             PROVE  \E j \in DOMAIN sid :
                      LET from == HeaderOf(sid[j].number)
                          r == HeaderOf(sid[i].number)
                      IN  \/ from.number = r.thread_back /\ from.thread_first = r.number
                          \/ from.thread_back = r.thread_back /\ from.thread_next = r.number
  BY DEF RepliesLinked, AllLinked, ThreadInv, Unscripted
<1>1. \A j \in DOMAIN sid : HeaderOf(sid[j].number) = shd[sid[j].offset] BY Faultless, HeaderFound
<1>2. PICK r : r = shd[sid[i].offset] /\ r \in Headers(sid) BY DEF Headers
<1>3. PICK h \in Headers(sid) : Links(h, r.number, r.thread_back)
  BY <1>1, <1>2 DEF ThreadsRight, Reached
<1>4. PICK j \in DOMAIN sid : h = shd[sid[j].offset] BY DEF Headers
<1> QED BY <1>1, <1>2, <1>3, <1>4 DEF Links

\* Every reply is reached along its thread, from the message it replies to or from an earlier
\* reply to that one: no two replies posted at the same time take each other's place.
THEOREM RepliesLinkedCorrect ==
  ASSUME \A c \in Scenes : WellUsed(c)
  PROVE  Spec => []RepliesLinked
BY ThreadInvariant, LinkedFollow, PTL
=============================================================================
