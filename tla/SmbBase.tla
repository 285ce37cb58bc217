------------------------------ MODULE SmbBase ------------------------------
(***************************************************************************)
(* A message base in use by several sessions: threads of the BBS, its mail *)
(* and script servers, other programs.  The index (.sid) is a sequence of  *)
(* records in number order; the header file (.shd) holds the base's status *)
(* and the message headers, allocated in the table .sha.                   *)
(*                                                                         *)
(* A session posts a message or a reply (smb_addmsg), updates one under    *)
(* the base lock (readmail, scanposts, POP3), loads one (loadmsg), writes  *)
(* a header from a script (js_put_msg_header), or purges what is marked    *)
(* deleted (delmail, delallmail).  Each action is one file operation.      *)
(*                                                                         *)
(* A lock is an fcntl() lock of a region, held by a process, and a flock() *)
(* of the whole file, held by one open file: FileLock has their details.   *)
(* Here a lock is taken in one step or not at all, and giving one up       *)
(* releases the flock whatever else the session has locked.                *)
(***************************************************************************)
EXTENDS Naturals, Sequences, FiniteSets

CONSTANTS
  Sessions,
  MaxNumber,    \* bound on message numbers
  Scenes,       \* who uses the base, and how: see Proc, Ops, Faults, MaxHdrs
  None

ASSUME SmbBaseAssumption ==
  /\ None \notin Sessions
  /\ \A c \in Scenes : DOMAIN c.proc = Sessions /\ \A s \in Sessions : None # c.proc[s]
  /\ MaxNumber \in Nat /\ \A c \in Scenes : c.hdrs \in Nat

VARIABLES
  scene,    \* the sessions' processes, what the sessions do, what may go wrong
  status,   \* the status record in the header file: last_msg, total_msgs
  sid,      \* the index
  shd,      \* block -> the header last written there
  sha,      \* the allocated blocks
  fcntl,    \* region -> the process that has it locked; region 0 is the base's
  flock,    \* the session whose file is flock()ed
  pc,
  mem,      \* what a session has read or is about to write
  posted,   \* history: the numbers of the messages added
  purged,   \* history: the numbers of the messages purged, marked deleted
  torn      \* history: a process ended in the middle of a purge

files == <<status, sid, shd, sha>>
locks == <<fcntl, flock>>
history == <<posted, purged, torn, scene>>
vars == <<files, locks, pc, mem, history>>

\* The process of each session; the operations "post", "reply", "update", "put_header",
\* "load", "purge", "kill"; "header", smb_addmsghdr() may fail, and "crash"; and a bound
\* on the blocks of the header file, of which a header is one.
Proc == scene.proc
Ops == scene.ops
Faults == scene.faults
MaxHdrs == scene.hdrs

Numbers == 1..MaxNumber
Offsets == 1..MaxHdrs
Regions == 0..MaxHdrs

\* An index record, and a message header.  The number 0 stands for no message.
IdxRec == [number : Numbers, offset : Offsets, deleted : BOOLEAN]

Header == [number : 0..MaxNumber, deleted : BOOLEAN, thread_back : 0..MaxNumber,
           thread_first : 0..MaxNumber, thread_next : 0..MaxNumber]

NoHeader == [number |-> 0, deleted |-> FALSE, thread_back |-> 0,
             thread_first |-> 0, thread_next |-> 0]

Status == [last_msg : 0..MaxNumber, total_msgs : 0..MaxNumber]

NoMem == [op |-> None, wanted |-> 0, slot |-> 0, offset |-> 0,
          hdr |-> NoHeader, script |-> NoHeader,
          status |-> [last_msg |-> 0, total_msgs |-> 0], kept |-> <<>>, dead |-> <<>>]

Init ==
  /\ scene \in Scenes
  /\ status = [last_msg |-> 0, total_msgs |-> 0]
  /\ sid = <<>>
  /\ shd = [o \in Offsets |-> NoHeader]
  /\ sha = {}
  /\ fcntl = [r \in Regions |-> None] /\ flock = None
  /\ pc = [s \in Sessions |-> "idle"]
  /\ mem = [s \in Sessions |-> NoMem]
  /\ posted = {} /\ purged = {} /\ torn = FALSE

---------------------------------------------------------------------------
(* Locks *)

\* Mistake: the file is not flock()ed, and threads of a process share the lock.
Lock_FcntlOnly(s, r) ==
  /\ fcntl[r] \in {None, Proc[s]}
  /\ fcntl' = [fcntl EXCEPT ![r] = Proc[s]]
  /\ flock' = s

\* lock(): both locks, or neither for good.
Lock(s, r) ==
  /\ fcntl[r] \in {None, Proc[s]} /\ flock \in {None, s}
  /\ fcntl' = [fcntl EXCEPT ![r] = Proc[s]]
  /\ flock' = s

\* unlock() of the regions rs, one after the other.
Unlock(s, rs) ==
  /\ fcntl' = [r \in Regions |-> IF r \in rs /\ fcntl[r] = Proc[s] THEN None ELSE fcntl[r]]
  /\ flock' = IF flock = s THEN None ELSE flock

Go(s, place) == pc' = [pc EXCEPT ![s] = place]

Remember(s, m) == mem' = [mem EXCEPT ![s] = m]

Done(s) == Go(s, "idle") /\ Remember(s, NoMem)

\* The region a session waits for.
Wanted(s) ==
  CASE pc[s] = "idle"  -> {0}
    [] pc[s] = "found" -> {mem[s].offset}
    [] pc[s] = "link"  -> {mem[s].offset}
    [] OTHER           -> {}

\* A lock() refused by another session's flock leaves the process with the
\* fcntl lock, and the unlock() before the next attempt gives that up: also the
\* one a thread of the same process has.
LockRefused(s) ==
  \E r \in Wanted(s) :
    /\ flock \notin {None, s} /\ fcntl[r] = Proc[s]
    /\ fcntl' = [fcntl EXCEPT ![r] = None]
    /\ UNCHANGED <<files, flock, pc, mem, history>>

---------------------------------------------------------------------------
(* Posting a message: smb_addmsg() and smb_addmsghdr() *)

\* The base is locked and the status read: the number the message will have.
PostLock(s, op, back) ==
  /\ op \in Ops /\ pc[s] = "idle" /\ status.last_msg < MaxNumber
  /\ op = "reply" <=> back # 0
  /\ Lock(s, 0)
  /\ Remember(s, [NoMem EXCEPT !.op = op, !.status = status, !.wanted = back,
                               !.hdr = [NoHeader EXCEPT !.thread_back = back]])
  /\ Go(s, IF op = "reply" THEN "thread" ELSE "post")
  /\ UNCHANGED <<files, history>>

\* smb_getmsgidx(): the record with that number.  SmbGetMsgIdx has the search.
Record(number) == {i \in DOMAIN sid : sid[i].number = number}

\* The header of the message, if it is in the base.
HeaderOf(number) ==
  IF Record(number) = {} THEN NoHeader
  ELSE shd[sid[CHOOSE i \in Record(number) : TRUE].offset]

NextReply(number) == HeaderOf(number).thread_next

\* The messages that the links lead to, from the first reply on.
Replies(number) ==
  {n \in 0..MaxNumber : \A ns \in SUBSET (0..MaxNumber) :
     /\ HeaderOf(number).thread_first \in ns
     /\ \A k \in ns : NextReply(k) \in ns \union {0}
     => n \in ns}

\* The one where the walk stops; it may be one that is gone.
LastReply(number) == {n \in Replies(number) : NextReply(n) \in {0, n}}

\* Mistake: each reply is linked as the first one.
LinkFrom_First(back) == {back}

\* Where the link to a new reply belongs: the message replied to, or, if it has replies,
\* the last of them.
LinkFrom(back) ==
  IF HeaderOf(back).thread_first = 0 THEN {back} ELSE LastReply(back)

\* The header to link from is found, or is gone: smb_updatethread() fails and
\* the message is posted all the same.
ThreadFind(s) ==
  /\ pc[s] = "thread"
  /\ \E n \in LinkFrom(mem[s].wanted) :
     \/ /\ Record(mem[s].wanted) # {}
        /\ \E i \in Record(n) : Remember(s, [mem[s] EXCEPT !.offset = sid[i].offset])
        /\ Go(s, "link")
     \/ /\ Record(mem[s].wanted) = {} \/ Record(n) = {}
        /\ Remember(s, mem[s])
        /\ Go(s, "post")
  /\ UNCHANGED <<files, locks, history>>

ThreadLock(s) ==
  /\ pc[s] = "link"
  /\ Lock(s, mem[s].offset)
  /\ Go(s, "linked")
  /\ UNCHANGED <<files, mem, history>>

\* Mistakes: the first reply is linked as the next reply to the same message,
\* or with a number one too high.
ThreadLink_AlwaysNext(s) ==
  /\ pc[s] = "linked"
  /\ shd' = [shd EXCEPT ![mem[s].offset].thread_next = mem[s].status.last_msg + 1]
  /\ Unlock(s, {mem[s].offset})
  /\ Go(s, "post")
  /\ UNCHANGED <<status, sid, sha, mem, history>>

ThreadLink_OneTooHigh(s) ==
  /\ pc[s] = "linked"
  /\ shd' = [shd EXCEPT ![mem[s].offset].thread_first = mem[s].status.last_msg + 2]
  /\ Unlock(s, {mem[s].offset})
  /\ Go(s, "post")
  /\ UNCHANGED <<status, sid, sha, mem, history>>

\* smb_putmsghdr() and smb_unlockmsghdr(): the file's flock goes with it.
ThreadLink(s) ==
  /\ pc[s] = "linked"
  /\ LET o == mem[s].offset
         n == mem[s].status.last_msg + 1
     IN  shd' = [shd EXCEPT ![o] =
           IF @.number = mem[s].wanted THEN [@ EXCEPT !.thread_first = n]
           ELSE [@ EXCEPT !.thread_next = n]]
  /\ Unlock(s, {mem[s].offset})
  /\ Go(s, "post")
  /\ UNCHANGED <<status, sid, sha, mem, history>>

\* smb_addmsghdr() fails: the message is not added.
PostFails(s) ==
  /\ "header" \in Faults /\ pc[s] = "post"
  /\ Unlock(s, {0})
  /\ Done(s)
  /\ UNCHANGED <<files, history>>

\* smb_addmsghdr() reads the status again and takes the number from it.
PostStatus(s) ==
  /\ pc[s] = "post"
  /\ status.last_msg < MaxNumber
  /\ Remember(s, [mem[s] EXCEPT !.status = status, !.slot = status.total_msgs + 1,
                                !.hdr.number = status.last_msg + 1])
  /\ Go(s, "alloc")
  /\ UNCHANGED <<files, locks, history>>

\* The first free block is allocated and the header written to it.
PostHeader(s) ==
  /\ pc[s] = "alloc"
  /\ \E o \in Offsets \ sha :
       /\ \A p \in Offsets \ sha : o <= p
       /\ sha' = sha \union {o}
       /\ shd' = [shd EXCEPT ![o] = mem[s].hdr]
       /\ Remember(s, [mem[s] EXCEPT !.offset = o])
  /\ Go(s, "index")
  /\ UNCHANGED <<status, sid, locks, history>>

\* Mistake: the record goes to the end of the file, not to its slot.
Put_Appends(i, rec) ==
  /\ i <= Len(sid) + 1
  /\ sid' = Append(sid, rec)

\* smb_putmsgidx() at slot i: over the record there, or at the end of the file.
Put(i, rec) ==
  /\ i <= Len(sid) + 1
  /\ sid' = IF i <= Len(sid) THEN [sid EXCEPT ![i] = rec] ELSE Append(sid, rec)

\* Mistake: the record is not brought in line with the header.
RecordFor_Unmarked(m) == [number |-> m.hdr.number, offset |-> m.offset, deleted |-> FALSE]

\* smb_init_idx()
RecordFor(m) == [number |-> m.hdr.number, offset |-> m.offset, deleted |-> m.hdr.deleted]

\* The slot lies beyond the end of the index: the message is not added.
PostIndexFails(s) ==
  /\ pc[s] = "index" /\ mem[s].slot > Len(sid) + 1
  /\ Unlock(s, {0})
  /\ Done(s)
  /\ UNCHANGED <<files, history>>

PostIndex(s) ==
  /\ pc[s] = "index"
  /\ Put(mem[s].slot, RecordFor(mem[s]))
  /\ Go(s, "commit")
  /\ UNCHANGED <<status, shd, sha, locks, mem, history>>

\* Mistake: the message is counted, the number is not.
PostCommit_NoNumber(s) ==
  /\ pc[s] = "commit"
  /\ status' = [last_msg |-> mem[s].status.last_msg, total_msgs |-> mem[s].slot]
  /\ posted' = posted \union {mem[s].hdr.number}
  /\ Unlock(s, {0})
  /\ Done(s)
  /\ UNCHANGED <<sid, shd, sha, purged, torn, scene>>

PostCommit(s) ==
  /\ pc[s] = "commit"
  /\ status' = [last_msg |-> mem[s].hdr.number, total_msgs |-> mem[s].slot]
  /\ posted' = posted \union {mem[s].hdr.number}
  /\ Unlock(s, {0})
  /\ Done(s)
  /\ UNCHANGED <<sid, shd, sha, purged, torn, scene>>

---------------------------------------------------------------------------
(* Reading or changing a message: loadmsg() by number, readmail() and the  *)
(* other updates under the base lock, js_put_msg_header() without it       *)

UpdateLock(s, number) ==
  /\ "update" \in Ops /\ pc[s] = "idle"
  /\ Lock(s, 0)
  /\ Remember(s, [NoMem EXCEPT !.op = "update", !.wanted = number])
  /\ Go(s, "find")
  /\ UNCHANGED <<files, history>>

\* A script that writes a header has read it before, and passes that object on.
FindBegin(s, op, number) ==
  /\ op \in Ops /\ pc[s] = "idle"
  /\ Remember(s, [NoMem EXCEPT !.op = op, !.wanted = number,
       !.script = IF op = "put_header" THEN HeaderOf(number) ELSE NoHeader])
  /\ Go(s, "find")
  /\ UNCHANGED <<files, locks, history>>

BaseLocked(s) == mem[s].op \in {"update", "kill"}

\* smb_getmsgidx(): the record's slot and the header's offset.
Find(s) ==
  /\ pc[s] = "find"
  /\ \E i \in Record(mem[s].wanted) :
       Remember(s, [mem[s] EXCEPT !.slot = i, !.offset = sid[i].offset])
  /\ Go(s, "found")
  /\ UNCHANGED <<files, locks, history>>

\* "Message is deleted": delallmail() goes on, the others are done.
FindNothing(s) ==
  /\ pc[s] = "find" /\ Record(mem[s].wanted) = {}
  /\ \/ /\ mem[s].op = "kill"
        /\ Go(s, "kill") /\ UNCHANGED <<locks, mem>>
     \/ /\ mem[s].op = "update"
        /\ Unlock(s, {0}) /\ Done(s)
     \/ /\ mem[s].op \in {"load", "put_header"}
        /\ Done(s) /\ UNCHANGED locks
  /\ UNCHANGED <<files, history>>

\* smb_lockmsghdr() and smb_getmsghdr(): the header at that offset now.
ReadHeader(s) ==
  /\ pc[s] = "found"
  /\ Lock(s, mem[s].offset)
  /\ Remember(s, [mem[s] EXCEPT !.hdr = shd[mem[s].offset]])
  /\ Go(s, "read")
  /\ UNCHANGED <<files, history>>

LoadDone(s) ==
  /\ pc[s] = "read" /\ mem[s].op = "load"
  /\ Unlock(s, {mem[s].offset})
  /\ Done(s)
  /\ UNCHANGED <<files, history>>

\* parse_header_object(): the script's header has thread links of its own.
Changed(m) ==
  IF m.op # "put_header" THEN m.hdr
  ELSE [m.script EXCEPT !.number = m.hdr.number, !.deleted = m.hdr.deleted]

\* smb_putmsg(), the header: its attributes are changed, delallmail() marks it.
WriteHeader(s, deleted) ==
  /\ pc[s] = "read" /\ mem[s].op # "load"
  /\ mem[s].op = "kill" => deleted
  /\ LET hdr == [Changed(mem[s]) EXCEPT !.deleted = deleted] IN
     /\ shd' = [shd EXCEPT ![mem[s].offset] = hdr]
     /\ Remember(s, [mem[s] EXCEPT !.hdr = hdr])
  /\ Go(s, "written")
  /\ UNCHANGED <<status, sid, sha, locks, history>>

\* smb_putmsg(), the index record at the slot it was found in; then the header
\* is unlocked, and the base if it was locked for this.
WriteIndex(s) ==
  /\ pc[s] = "written"
  /\ LET slot == mem[s].slot IN
     \/ Put(slot, RecordFor(mem[s]))
     \/ slot > Len(sid) + 1 /\ UNCHANGED sid
  /\ IF mem[s].op = "kill"
     THEN Unlock(s, {mem[s].offset}) /\ Go(s, "kill") /\ UNCHANGED mem
     ELSE Unlock(s, {mem[s].offset} \union IF BaseLocked(s) THEN {0} ELSE {}) /\ Done(s)
  /\ UNCHANGED <<status, shd, sha, history>>

---------------------------------------------------------------------------
(* Purging: delmail(), called with the base locked, and delallmail()       *)

PurgeLock(s) ==
  /\ "purge" \in Ops /\ pc[s] = "idle"
  /\ Lock(s, 0)
  /\ Remember(s, [NoMem EXCEPT !.op = "purge"])
  /\ Go(s, "purge")
  /\ UNCHANGED <<files, history>>

KillLock(s) ==
  /\ "kill" \in Ops /\ pc[s] = "idle"
  /\ Lock(s, 0)
  /\ Remember(s, [NoMem EXCEPT !.op = "kill"])
  /\ Go(s, "kill")
  /\ UNCHANGED <<files, history>>

KillNext(s, number) ==
  /\ pc[s] = "kill"
  /\ Remember(s, [NoMem EXCEPT !.op = "kill", !.wanted = number])
  /\ Go(s, "find")
  /\ UNCHANGED <<files, locks, history>>

\* delallmail() purges only if it was told to, and has marked a message.
KillDone(s) ==
  /\ pc[s] = "kill"
  /\ Unlock(s, {0})
  /\ Done(s)
  /\ UNCHANGED <<files, history>>

\* The base is empty: delmail() leaves it as it is.
PurgeNothing(s) ==
  /\ pc[s] \in {"purge", "kill"} /\ status.total_msgs = 0
  /\ Unlock(s, {0})
  /\ Done(s)
  /\ UNCHANGED <<files, history>>

\* The records delmail() reads: as long as it has kept fewer than total_msgs, so on
\* past total_msgs if records were deleted and the file is longer.
KeptBefore(i) == Cardinality({k \in 1..(i - 1) : ~sid[k].deleted})

Scanned == {i \in DOMAIN sid : KeptBefore(i) < status.total_msgs}

\* The records at these places of the index, in order.
Place(places, j) == CHOOSE i \in places : Cardinality({k \in places : k <= i}) = j

RecordsAt(places) == [j \in 1..Cardinality(places) |-> sid[Place(places, j)]]

\* smb_getstatus(), and the index is read.
PurgeRead(s) ==
  /\ pc[s] \in {"purge", "kill"} /\ status.total_msgs # 0
  /\ Remember(s, [mem[s] EXCEPT !.status = status,
                                !.kept = RecordsAt({i \in Scanned : ~sid[i].deleted}),
                                !.dead = RecordsAt({i \in Scanned : sid[i].deleted})])
  /\ Go(s, "free")
  /\ UNCHANGED <<files, locks, history>>

\* smb_freemsg() of the messages marked deleted, one after the other.
PurgeFree(s) ==
  /\ pc[s] = "free" /\ mem[s].dead # <<>>
  /\ sha' = sha \ {Head(mem[s].dead).offset}
  /\ purged' = purged \union {Head(mem[s].dead).number}
  /\ Remember(s, [mem[s] EXCEPT !.dead = Tail(@)])
  /\ UNCHANGED <<status, sid, shd, locks, pc, posted, torn, scene>>

PurgeTruncate(s) ==
  /\ pc[s] = "free" /\ mem[s].dead = <<>>
  /\ sid' = <<>>
  /\ Go(s, "truncated")
  /\ UNCHANGED <<status, shd, sha, locks, mem, history>>

\* The records go through a stdio buffer: they reach the file when the buffer is
\* full, or with the fflush() after the status has been written.
Then(s, place) ==
  \/ pc[s] = "truncated" /\ Go(s, place) /\ UNCHANGED <<locks, mem>>
  \/ pc[s] \in {"rewritten", "counted"} /\ Unlock(s, {0}) /\ Done(s)

\* The kept records are written from the start of the file.
PurgeWrite(s) ==
  /\ pc[s] \in {"truncated", "counted"}
  /\ sid' = mem[s].kept \o SubSeq(sid, Len(mem[s].kept) + 1, Len(sid))
  /\ Then(s, "rewritten")
  /\ UNCHANGED <<status, shd, sha, history>>

\* The whole status record is written, with the last number as it was read.
PurgeStatus(s) ==
  /\ pc[s] \in {"truncated", "rewritten"}
  /\ status' = [mem[s].status EXCEPT !.total_msgs = Len(mem[s].kept)]
  /\ Then(s, "counted")
  /\ UNCHANGED <<sid, shd, sha, history>>

---------------------------------------------------------------------------
(* The end of a process: its sessions are gone, and so are their locks *)

Crash(p) ==
  LET died == {s \in Sessions : Proc[s] = p} IN
  /\ "crash" \in Faults
  /\ \E s \in died : pc[s] # "idle"
  /\ pc' = [s \in Sessions |-> IF s \in died THEN "idle" ELSE pc[s]]
  /\ mem' = [s \in Sessions |-> IF s \in died THEN NoMem ELSE mem[s]]
  /\ fcntl' = [r \in Regions |-> IF fcntl[r] = p THEN None ELSE fcntl[r]]
  /\ flock' = IF flock \in died THEN None ELSE flock
  /\ torn' = (torn \/ \E s \in died : pc[s] \in {"free", "truncated", "counted"})
  /\ UNCHANGED <<files, posted, purged, scene>>

Next ==
  \/ \E s \in Sessions :
       \/ PostLock(s, "post", 0) \/ \E n \in posted : PostLock(s, "reply", n)
       \/ ThreadFind(s) \/ ThreadLock(s) \/ ThreadLink(s)
       \/ PostFails(s) \/ PostStatus(s) \/ PostHeader(s)
       \/ PostIndexFails(s) \/ PostIndex(s) \/ PostCommit(s)
       \/ \E n \in posted : UpdateLock(s, n) \/ KillNext(s, n)
       \/ \E n \in posted, op \in {"load", "put_header"} : FindBegin(s, op, n)
       \/ Find(s) \/ FindNothing(s) \/ ReadHeader(s) \/ LoadDone(s)
       \/ \E deleted \in BOOLEAN : WriteHeader(s, deleted)
       \/ WriteIndex(s)
       \/ PurgeLock(s) \/ KillLock(s) \/ KillDone(s)
       \/ PurgeNothing(s) \/ PurgeRead(s) \/ PurgeFree(s)
       \/ PurgeTruncate(s) \/ PurgeWrite(s) \/ PurgeStatus(s)
       \/ LockRefused(s)
  \/ \E s \in Sessions : Crash(Proc[s])

Spec == Init /\ [][Next]_vars

---------------------------------------------------------------------------
(* Properties *)

\* The files hold well-formed records, and a slot is one of the index or the next.
TypeOK ==
  /\ status \in Status
  /\ sid \in Seq(IdxRec) /\ Len(sid) <= MaxNumber
  /\ shd \in [Offsets -> Header] /\ sha \subseteq Offsets
  /\ fcntl \in [Regions -> {Proc[s] : s \in Sessions} \union {None}]
  /\ flock \in Sessions \union {None}
  /\ \A s \in Sessions : mem[s].slot \in 0..(MaxNumber + 1) /\ mem[s].status \in Status
  /\ posted \subseteq Numbers /\ purged \subseteq Numbers /\ torn \in BOOLEAN

\* No operation is under way.
Quiet == \A s \in Sessions : pc[s] = "idle"

\* No two records of the index have the same number, and numbers ascend: the
\* search by number relies on it ...
Ascending == \A i, j \in DOMAIN sid : i < j => sid[i].number < sid[j].number

\* ... also after a crash, unless messages are purged as well: the record of a post
\* that was not finished then counts as a message's.
NumbersAscend == (Ops \intersect {"purge", "kill"} # {} /\ "crash" \in Faults) \/ Ascending

\* A number is never given to a second message.
NumbersFresh ==
  [][\A s \in Sessions : PostCommit(s) => mem[s].hdr.number \notin posted]_vars

\* As long as nothing can fail: the status counts the records of the index, and no
\* message in the index has the number the next one will get ...
StatusMatches ==
  Quiet /\ Faults = {} =>
    /\ status.total_msgs = Len(sid)
    /\ \A i \in DOMAIN sid : sid[i].number <= status.last_msg

\* ... and every index record leads to a header of its own, with the same number and
\* the same attributes.
HeadersMatch ==
  Quiet /\ Faults = {} => \A i \in DOMAIN sid :
    /\ sid[i].offset \in sha
    /\ shd[sid[i].offset].number = sid[i].number
    /\ shd[sid[i].offset].deleted = sid[i].deleted
    /\ \A j \in DOMAIN sid : sid[i].offset = sid[j].offset => i = j

\* Status, index and headers agree whenever no operation is under way.
FilesAgree == StatusMatches /\ HeadersMatch

\* A message that was added is in the index until it is purged, whatever process
\* ends, unless it ends in the middle of a purge, before the index is written.
NoneLost ==
  Quiet /\ ~torn => \A n \in posted \ purged : Record(n) # {}

\* What a message is linked to as a reply was posted as one: the first reply to
\* it, and the next reply to the message it replies to ...
LinksRight ==
  Quiet => \A i, j \in DOMAIN sid :
    LET from == HeaderOf(sid[i].number)
        to   == HeaderOf(sid[j].number)
    IN  /\ from.thread_first = to.number => to.thread_back = from.number
        /\ from.thread_next = to.number => to.thread_back = from.thread_back

\* ... as long as nothing can fail: the link is written before the reply.
LinksAreReplies == Faults = {} => LinksRight

\* As long as nothing was purged, every reply is linked from the message it
\* replies to or from another reply to that one ...
AllLinked ==
  Quiet /\ purged = {} => \A i \in DOMAIN sid :
    LET r == HeaderOf(sid[i].number) IN
    r.thread_back # 0 =>
      \E j \in DOMAIN sid :
        LET from == HeaderOf(sid[j].number) IN
        \/ from.number = r.thread_back /\ from.thread_first = r.number
        \/ from.thread_back = r.thread_back /\ from.thread_next = r.number

\* ... unless a post may fail or a script writes a header it has read before.
RepliesLinked == Faults = {} /\ "put_header" \notin Ops => AllLinked

\* The header loaded by number is the one asked for.
LoadsItsMessage ==
  \A s \in Sessions :
    pc[s] = "read" /\ mem[s].op = "load" => mem[s].hdr.number = mem[s].wanted

\* A message that is not found is not in the base.
NotFoundIsGone ==
  [][\A s \in Sessions : FindNothing(s) => mem[s].wanted \in purged]_vars
=============================================================================
