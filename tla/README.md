# Synchronet in TLA+: message base, mail, node I/O, nodes, file transfer

Synchronet is a bulletin board system: servers (terminal, mail, FTP, web), the
stand-alone programs around them, and a message base library, smblib, that
all of them use on the same files at the same time. This directory holds
TLA+ models of the parts of it that are hard to test, the TLC configurations
that check them on small instances, and proofs, checked by TLAPS, of the
properties that hold for every instance.

1. [The system](#1-the-system) · 2. [Modules and code](#2-modules-and-code) ·
3. [Runs](#3-runs) · 4. [Divergences](#4-where-code-and-documentation-disagree) ·
5. [Bounds and fairness](#5-bounds-and-fairness) · 6. [Proofs](#6-proofs) ·
7. [Limits](#7-what-is-left-out) · 8. [Plan](#8-plan)

Paths are relative to `src/`; `smblib/`, `sbbs3/` and `xpdev/` stand for
`src/smblib/`, `src/sbbs3/` and `src/xpdev/` below that.

## 1. The system

| Component | State it keeps | Operations | What is hard | What makes it correct |
|---|---|---|---|---|
| Index search, `smblib/smblib.c` `smb_getmsgidx` | the index file `.sid`; the bounds of a search | search by number, access by offset | the file grows or is rewritten between probes | finds what is there; gives the slot that may be overwritten; ends |
| File and record locks, `xpdev/filewrap.c`, `smblib/smblib.c` | fcntl locks of processes, flock locks of open files | `lock`, `unlock`, retry loops, `smb_close` | two locks with two owners; retries that unlock; crashes | exclusion; others are kept out of a region only for somebody |
| Message base records, `smblib/smblib.c`, `smbadd.c`, `sbbs3/mail.cpp`, `getmsg.cpp`, `js_msgbase.c` | status record, index, headers, thread links | post, reply, update, load, script write, purge | several sessions; an update spans files; crashes | index, status and headers agree; numbers are unique; nothing is lost; links are right |
| Block allocation, `smblib/smballoc.c`, `sbbs3/bulkmail.cpp`, `writemsg.cpp` | reference counts `.sda`, flags `.sha` | allocate, free, add references | shared text, failures half-way, shared blocks | no block has two owners while it is counted; none leaks |
| Message base stack, `smblib/smblib.c` `smb_stack` | a static array of saved bases | push, pop | limits; threads without a lock | each session gets its own base back |
| Ring buffers and I/O threads, `sbbs3/ringbuf.c`, `main.cpp` | buffer, head, tail, two semaphores | write, read, peek, purge, waits | check-then-act, wakeups, timeouts | a queue; no lost wakeup; output moves |
| Duplicate detection, `smblib/smbhash.c` | CRC history `.sch`, hash file | add, find | recorded before the message is | refuses duplicates only |
| Base maintenance, `sbbs3/smbutil.c`, `fixsmb.c`, `chksmb.c` | the whole base, `.lock` file | create, truncate, pack, repair | a rewrite of all files | nothing live is lost |
| Header fields, `smblib/smbstr.c` and others | in-memory message | build, format | none: sequential | |
| LZH, `smblib/lzh.c` | a codec | encode, decode | none: sequential | round trip |
| Node records, `sbbs3/getnode.cpp`, `putnode.cpp` | `node.dab`: status and flags of every node | lock, read, write | several servers and a sysop write them; some reads take no lock | a node has one caller; an update is not lost |
| User records, `sbbs3/userdat.c` | `user.dat` and lists | field updates, login attempts | record locks, retries | an update is not lost |
| Thread primitives, `xpdev/msg_queue.c`, `link_list.c`, `xpsem.c`, `xpevent.c` | lists, counts, events | send, receive, attach, detach | reference counts, timeouts | order, no use after free |
| Terminal server, `sbbs3/main.cpp`, `logon.cpp` | sessions, the event thread, `time.dab` | answer, serve, run daily and exclusive events, shut down, start | an event waits until nodes are free, over several servers; stale reads; restarts | an exclusive event runs alone, and runs; nodes return to service |
| Mail server, `sbbs3/mailsrvr.c`, `getmail.c` | mail in a base, in-transit marks, attempts | send, retry, bounce, purge; POP3 list, retrieve, delete | headers written back late; lost acknowledgements; refusals | each message is sent once or its sender told |
| FTP, web and services servers | sessions | protocol handling | sockets | |
| FidoNet echomail, `sbbs3/sbbsecho.c` | packets, `.bsy` files | toss, scan, pack | programs on one outbound | no packet is lost or doubled |
| QWK networking, `sbbs3/*qwk*.cpp` | packets | pack, unpack | nested locks | each message once |
| File bases, `sbbs3/filedat.c` | `.ixb`, `.dat` | add, remove, update | `nopen` retries | index matches data |
| Transfer protocols, `sbbs3/xmodem.c`, `sexyz.c`, `zmodem.c` | a transfer | send, receive, acknowledge, repeat | noise, timeouts on both sides, block numbers that wrap | the file arrives whole, and success is reported of nothing less |
| Scripting, `sbbs3/exec.cpp`, `js_*` | interpreters | bindings | long-lived objects | as the component bound |
| Configuration, menus, text | configuration | load, edit | none: sequential | |
| Console, serial and UI libraries | terminals | input, output | stand-alone | |
| JavaScript applications, `default_config/` | data and scripts | | run by the BBS | |

Modelled are the first six and, as far as section 7 says, node records, the
terminal server, the mail server and transfer protocols. They interact like this. A session opens a message
base (an `smb_t`, saved on the **stack** if another one is open), takes the base
**lock** (region 0 of the header file), reads the status, **allocates** blocks
for text and header, writes the header and an **index** record, writes the
status, and unlocks. Reading **searches** the index without a lock, locks the
header, and reads it. The threads of one server share a process, and so its
fcntl locks; what tells them apart is the flock of each one's open file, and
`unlock()` gives that up whatever region it is called for. A node's session
and its socket are joined by two **ring buffers**, each with a thread at either
end and a semaphore between. The **mail server** is another user of a message
base: it marks a queued message in its header while it sends it, and a purge may
move index records meanwhile. The **terminal servers** of a system share the
**node records**: a session holds a node by its status there, the sysop's tools
change it, and each server's event thread takes nodes out of service for its
events and waits for those of the others. A **transfer** runs inside a session,
between its buffers and the caller's terminal program; both ends of it are modelled with
the line between them, not with the buffers.

## 2. Modules and code

`PROJECT.json` maps every definition to the lines it stands for. Names are the
source's where it has them. A definition named `X_Mistake`, with a comment that
begins "Mistake:", is a plausible bug in `X`; no specification uses it, and a
property that fails with it in place of `X` is shown to say something.

| Module | Models | State | Actions |
|---|---|---|---|
| `SmbGetMsgIdx` | `smb_getmsgidx()` probe by probe, against other sessions | `sid`; the call's `total`, `bot`, `top`, `l`; `ret`, `offset` | `BeginSearch`, `ReadByOffset`, one action per branch of the loop (`Probe…`); others: `AppendRecord`, `PurgeTruncate`, `PurgeRewrite` |
| `FileLock` | `lock()`, `unlock()` as pairs of system calls; the loops of `smb_locksmbhdr`, `smb_lockmsghdr` | `fcntl` (region to process), `flock` (file to handle), `pc`, `want`, `failedOnce` (the clock runs), `holds` (what the caller was told), `left` (history: fcntl locks that a timed-out call left) | `LockCall`, `FcntlLock`, `FlockLock`, `RetryFcntlUnlock`, `RetryFlockUnlock`, `TimeOut`, `UnlockFcntl`, `UnlockFlock`, `Open`, `Close`, `Crash` |
| `FileLock_proofs` | its theorems | | |
| `SmbStack` | `smb_stack()` and its callers' push, open, close, pop | `stack`, `stack_idx` (static), `smb` (per thread), `open`, `partial` (of those, the ones a failed `smb_open()` left open), `idx` (loaded in the call) | one per load, copy and store: `PushBegin`, `PushCopy`, `PushCount`, `PopBegin`, `PopCopy`, …; `Open`, `OpenFails`, `OpenFailsPartly`, `Close` |
| `SmbLib_proofs` | the theorems of `SmbGetMsgIdx` and `SmbStack` | | |
| `SmbAlloc` | `smballoc.c`, `smb_addmsg`, `bulkmail`, `forwardmail`, `smb_freemsg` | `sda`, `sha` (the tables), `sdt`, `shd` (what the blocks hold), `live`, and the operation under way: `pend`, `bulk`, `fwd`; `history` (which references were not counted, or counted too often) | `PostData`, `PostHeader`, their failures and `PostCrash`; `BulkData`, `BulkHeader`, `BulkNoUser`, and the ends `BulkEnd`, `BulkOpenFails`, `BulkCrash`; `Forward…`, with `ForwardFails`, `ForwardOpenFails`, `ForwardLost`; `Purge` |
| `SmbAlloc_proofs` | its theorems, and the proof that it implements `MsgStore` | | |
| `MsgStore` | what a base promises about text: a map from message to text | `store` | `Add`, `Purge` |
| `SmbBase` | the records of a base under all sessions | `status`, `sid`, `shd`, `sha`, `fcntl`, `flock`, and per session `pc`, `mem` | one per file operation: `Post…`, `Thread…`, `Find`, `ReadHeader`, `WriteHeader`, `WriteIndex`, `Purge…`, `Kill…`, `LockRefused`, `Crash` |
| `SmbBase_proofs` | its theorems | | |
| `RingBuf` | `ringbuf.c`, and the loops of `incom()` and `output_thread()` | `buf`, `head`, `tail`, `sem`, `highwater_sem`, `room` (free space told to a writer), `pc`, `avail`, `got` | `AskFree`, `Write`, `ReadByte`, `Wake`, `WaitTimesOut`, `TryWait`, `Level`, `Highwater`, `Drain`, `Peek…`, `Purge`, `Post` |
| `RingBuf_proofs` | its theorems, and the proof that it implements `ByteQueue` | | |
| `ByteQueue` | what a node's buffer promises: a queue that can be looked at and purged | `queue`, `got`, `look` | `Put`, `Take`, `LookBegin`, `Look`, `LookOvertaken`, `Discard`, `Purge` |
| `MailServer` | `sendmail_thread`, `bounce`, `remove_msg_intransit`, POP3's `LIST`, `RETR`, `DELE`, `RSET`, `QUIT`, `loadmail`; users and purges | `last_msg`, `index`, `shd`, `sha`, `purging` (the base); `pc`, `mem` (per thread: place, and the header it read); `remote` (what other hosts have taken), `log` (history) | `Submit`, `UserDeletes`, `PurgeBegin`, `PurgeEnd`; `Send(t)`: one action per step of the thread's loop; `Pop(c)`: one per command; `Crash` |
| `MailServer_proofs` | its theorems | | |
| `Nodes` | `bbs_thread`, `node_thread`, `event_thread` where they use `getnodedat`, `putnodedat` and `time.dab` | `status`, `misc` (the records), `timedab`, `last`, `new`, `online`, `main`, `ev` (places of the threads), `calls`, `faults` | `Answer`, `StartNode`, `Session(n)`, `Down`, `EventThread(i)` (`Mark`, `Check`, `RunEvent`, `Reset`, `WaitMark`, `WaitCheck`, `Daily…`), `Tick`, `NewDay`, `Shutdown`, `Closed`, `Crash`, `Start` |
| `Nodes_proofs` | its theorems | | |
| `Xmodem` | `xmodem_send_file`, `receive_files` and the calls under them; the line | `s`, `r` (each end: place, block number, counters; the receiver's file), `toRecv`, `toSend` (what is on the line), `line` (patience, damage done) | sender: `GetMode`, `NoMode`, `AckCame`, `NakCame`, `NoAck`, `Cancelled`, `EotAcked`, `EotAgain`; receiver: `Receive`, `DiscardRepeated`, `Reject`, `FirstEot`, `SecondEot`, `NoBlock`, `CancelledBySender`; `NoiseToRecv`, `NoiseToSend` |
| `Xmodem_proofs` | its theorems, and the proof that it implements `FileTransfer` | | |
| `FileTransfer` | what a transfer promises: the file grows as a prefix of the one sent; success is of all of it, and the sender's after the receiver's | `file`, `received`, `sent` | `Append128s`, `ReceiverEnds`, `SenderEnds` |

How the modules rest on one another: `SmbGetMsgIdx` assumes an ascending index
(`IndexFilesAssumption`), which `SmbBase` checks (`NumbersAscend`), and `SmbBase`
takes the search as one step, `Record`, for a session with the base lock or
without it; what a search without the lock may see between its steps is
`SmbGetMsgIdx`. `FileLock` has every system call of a lock, `SmbBase` the effects
on callers: taken whole or not at all, released by any `unlock()`, the record
lock of a sibling thread dropped by a retry (`LockRefused`). `SmbAlloc` has the
blocks in detail with the base lock taken for granted, `SmbBase` the header
blocks alone, with the lock. `MailServer` takes what happens under the base lock
as one step, but for the purge, whose two ends are what a search without the
lock can fall between. `Nodes` takes a locked read and write of a record as one
step, which is `FileLock`'s exclusion.

Choices worth knowing:

- `FileLock`: which process has which handle (`procOf`) and whether callers nest
  regions (`calling`) are chosen at the start, so one run covers both ways of use.
- `scene` in `SmbAlloc` and `SmbBase` is chosen at the start and never changes: who
  the sessions are, what they do, what may fail. One run covers several ways
  of using a base, and the properties that hold only in some say which.
- `SmbAlloc` keeps in `sdt`/`shd` what a block holds, so that a block with two
  owners shows as a text that is not the message's.
- `SmbBase`: histories `posted`, `purged` and `torn` (a process ended in the
  middle of a purge) are written and never read by the code's actions.
- `SmbBase`, `KillDone` and `PurgeNothing` are the two ways out before a purge begins:
  nothing marked, or nothing there.
- `SmbBase`, `PurgeWrite` and `PurgeStatus`: the index is written through a stdio
  buffer, so its records may reach the file before or after the status.
- `MailServer`: `log` and `remote` are histories: whose notices were sent, which
  acknowledgements were lost. `Submit` stands for users and for SMTP reception.
- `Nodes`: `faults` says what has happened so far (a new day, a wait that timed out, a
  shutdown, a crash). `OneCaller` and `ExclusiveAlone` are of the time before any,
  since each of them alone breaks both; see section 4.
- `Xmodem`: a file is a sequence of units of 128 bytes, numbered, so that a missing, doubled or
  misplaced block shows. `line.patient` is chosen at the start: whether the ends
  stop waiting only when nothing is under way, or at any time.
- `RingBuf`: each function holds the mutex throughout and is one action; a
  caller that asks and then acts is two. `Post` is a post without data, as
  `hangup()` makes. Peeking is the Windows branch of `sbbs_t::external()`: it
  peeks, writes to the program, and discards as many bytes as were written, which
  may be fewer than were peeked.

## 3. Runs

| Run | Question | Holds |
|---|---|---|
| `getmsgidx` | Does a search, with appends and purges between any two probes, find what is there and end? | `NotFoundIsRight`: "not found" is right about the records that were there at the start, if the file was not rewritten. `OffsetAddressesMessage`: the offset returned is the record's. `SearchReturns`: the call returns. |
| `lock` | Do the two locks exclude, with retries that unlock, nesting, time limits, crashes? | `FileExclusion`: callers of one region at a time exclude one another on the file, threads of one process too. `RegionExclusion`: programs that nest exclude one another on each region. `StraysFromTimeOut`: a process keeps others out of a region only for a thread that holds it or asks for it, or after a `lock()` that timed out on the flock. |
| `stack_one` | Does one thread get its bases back, beyond the stack's size? | `RestoresOwn`, also if an `smb_open()` fails at any file; `NoLostBase`: no base that was opened is forgotten, but for the files of an `smb_open()` that failed half-way. |
| `alloc` | Can a failure, a crash or a second header for one text give a block to two messages? | `Intact` (texts and headers are their messages'), `FreeBlocksUnused` (a count of zero is nobody's), `StoresText` (the base implements `MsgStore`): all until a message of a mailing whose references were never added is purged (`Spoiled`), and headers for ever. `CountIsHeaders` (without tails, when only headers fail). |
| `base` | Do programs, and threads of one server, keep a base consistent, with failures and crashes? | `NumbersAscend`, `FilesAgree` (index, status, headers), `NoneLost`, `LinksAreReplies`, `RepliesLinked`, `NumbersFresh`. |
| `ring` | Is the buffer a queue, and is everything sent? | `NoLostWakeup`, `HighwaterRight`, `IsQueue` (implements `ByteQueue`), `Moves`. |
| `mail` | Is queued mail sent once, or its sender told, with retries, lost acknowledgements, refusals, a crash, a POP3 client and purges? | `EachItsHeader`: an index record leads to its own header. `NothingVanishes`: no queued message goes unsent and untold. `SentOnce`: none is sent again that was acknowledged. `TransitOwned`: a mark has a thread, but for ends and refused logins. `Settles`: what is queued is sent or given up. |
| `xmodem` | Does a file survive noise, and waits that end early? | `Transfers` (implements `FileTransfer`); `Ends`: both programs stop; `Recovers`: on a line that damages no answers, while nobody stops waiting early, the file arrives. |
| `nodes` | Do callers, events and the sysop share the nodes? | `OneCaller`, `ExclusiveAlone` until a fault; `EventRuns`: an exclusive event that is due runs; `NodesReturn`: a node out of service for one comes back. |
| `base_reply_threads`, `mail_threads`, `xmodem_fallback` | Divergences, below | violated |

`TypeOK` (`StackTypeOK` in `SmbStack`) is checked in one run of each module, except
the three whose types are proved and were checked with their proofs' invariants
(`SmbGetMsgIdx`, `FileLock`, `RingBuf`). `LoopInv`, `LockInv`, `BufferInv`, `LookStays`, `StackInv`, `QuietInv`,
`TransferInv`, `ThreadInv` and `MailInv`, the inductive invariants of the proofs, were
checked with the constants of these runs before they were proved; `MailInv` also with
a single attempt and with a message from the net.

The further configurations in the next section are kept to be run by hand
with `tlc -config`.

## 4. Where code and documentation disagree

Recorded in `PROJECT.json` as findings, each with its run:

- **`base_reply_threads`**, `NumbersFresh`. `docs/smb.html:640-642`: "No two index
  records in the same message base may have the same message number".
  `smb_addmsg()` (`smblib/smbadd.c:296`) locks and unlocks the header replied to
  while the base is locked, and that gives up the flock, which is all that
  excludes threads of one process.
- **`mail_threads`**, `SentOnce`. `sbbs3/mailsrvr.c:4475` says of the in-transit
  mark "Prevent another sendmail thread from sending this msg". A thread whose
  attempt failed takes its mark off (`:4278-4296`) and then counts the attempt
  with the header it read before (`:4166-4180`): a mark set by another thread
  in between is overwritten, and the message is sent twice.
- **`xmodem_fallback`**, `DiscardsRepeats`. `sbbs3/xmodem.c:296`: "silently discard
  repeated packets"; `docs/sexyz.txt:345-347`: the sender falls back from blocks of 1024 "if
  the receiver does not appear to support 1024-byte blocks". It does so after
  three errors on block 1 (`xmodem.c:578-581`), also if the receiver has taken that
  block and its ACK was late or lost; then the shorter block 1 is discarded although it
  is no repetition, and the two ends' positions in the file differ from there on.

Further configurations, beside the runs:

| Configuration | Property | Shows |
|---|---|---|
| `MCFileLockSteal.cfg` | `RetryReleasesOwn` violated | the `unlock()` "In case we've already locked it" (`smblib.c:349`, `:474`) releases the record lock of another thread of the process |
| `MCSmbStackTwo.cfg` | `RestoresOwn` violated | two threads get one another's base: the stack is static (`smblib.c:254`); `smblib.c:242-243` promises the base "previously saved" |
| `MCSmbAllocTailCount.cfg` | `CountRight` violated | `docs/smb.html:1009-1011` says a count is a number of headers; a block shared by body and tail is counted once per field |
| `MCSmbAllocTailLeak.cfg` | `NoLeak` violated | a tail from the middle of a block into the next: the last block stays allocated, though `smballoc.c:314` says all are freed |
| `MCSmbAllocBulkRace.cfg` | `ZeroIsFree` violated | a recipient's copy purged before `bulkmail()` adds the references (`bulkmail.cpp:152-158`) frees the text of all |
| `MCSmbAllocOpenFails.cfg` | `ZeroIsFree` violated | `docs/smb.html:1009-1011`: a count of "0 indicates a free block". `bulkmail()` adds the references after the headers, if `smb_open_da()` succeeds (`bulkmail.cpp:152-159`); if it fails, that is reported and all headers stay on a count of one, as they do when the process ends before. The first purge of one makes the others' blocks free |
| `MCSmbBaseLoadMoved.cfg` | `LoadsItsMessage` violated | `loadmsg()` (`getmsg.cpp:45-46`) loads "first by offset, and if that's the wrong message, then by number"; after the search by number it does not compare the number again |
| `MCSmbBaseScriptPurge.cfg` | `HeadersMatch` violated | `docs/smb.html:677-678` "exactly one active message header record for every index record": a script writes the index without the base lock, at a slot that a purge has given to another message |
| `MCSmbBaseLoadGone.cfg` | `NotFoundIsGone` violated | `getmsg.cpp:75` takes "not found" for "Message is deleted"; it also happens while `delmail()` rewrites the index |
| `MCSmbBaseScriptLinks.cfg` | `AllLinked` violated | a script writes back thread links it read before a reply came (`js_msgbase.c:746-765`; `docs/smb.html:945-948`) |
| `MCSmbBaseKillThreads.cfg` | `NoneLost` violated | `delallmail()` unlocks each header (`mail.cpp:212`) and with it the base, "so nobody messes with the index" (`mail.cpp:191-196`) |
| `MCSmbBaseOrphan.cfg` | `Ascending` violated | a purge takes over the orphan record of a crashed post (`mail.cpp:74-108`), and the next post has its number |
| `MCSmbBaseReplyFails.cfg` | `LinksRight` violated | the link is written before the reply (`smbadd.c:292`, `:307`) and stays if that fails |
| `MCRingBufUnchecked.cfg` | `IsQueue` violated | "we assume the caller has checked that there is enough room" (`ringbuf.c:184-185`); `str.cpp:1117`, `getkey.cpp:530` and others do not |
| `MCRingBufTwo.cfg` | `IsQueue` violated | two writers of one `outbuf` that each check first (`main.cpp:3753`) are both told of the same room |
| `MCRingBufExpand.cfg` | `IsQueue` violated | `NULL` is "to just foward pointer (after Peek)" (`ringbuf.c:226`), but with pipes the bytes are counted after `cr_expand()` (`xtrn.cpp:853`, `:870`): input that came in since the peek is discarded unseen |
| `MCNodesFrequent.cfg` | `ExclusiveAlone` violated | a server takes another's event for "done" when its last run is less than an hour ago (`main.cpp:2779-2790`), which an event that runs more often (`docs/external_programs.html:86`, `scfg/scfgxtrn.c:637`) always is |

Another property or other constants, in the configuration of a run, show where what it
checks ends:

- `lock`: `NoStrays`, the invariant without `left`, is violated: a `lock()` that times out on the
  flock leaves its record lock (`filewrap.c:116-117`, `smblib.c:347-348`), and its process keeps
  others out of the region until one of its threads locks and unlocks it, or closes the file.
- `stack_one`: `NoLostFile`, of what `NoLostBase` leaves out, is violated: `smb_open()` that cannot
  open the data or index file returns with those before it open (`smblib.c:148-152`), and
  the caller's pop overwrites the file pointers (`mail.cpp:179-182`).
- `mail`: `Deleting = {"net"}` breaks `EachItsHeader`, as `remove_msg_intransit()`
  writes a header where it was before a purge (`mailsrvr.c:4292`); after a relay's
  refusal of the login (`:4723-4780`) a message stays marked in transit and is not tried
  again, which `TransitOwned` and `Settles` except.
- `nodes`: `AlwaysOneCaller` and `AlwaysAlone`, the two properties without the condition
  on `faults`, are violated with each of `newday`, `timeout`, `shutdown` and `crash` alone. A
  daily event takes a node by a status read earlier (`main.cpp:2516`), a wait that times
  out runs the event with callers online, and a start sets nodes to wait for calls
  that another server's event has taken (`main.cpp:4779`). `DownStaysDown` is violated: the
  end of an event puts a node back into service that the sysop took down (`main.cpp:2920`).
- `xmodem`: `Slips = TRUE` (noise takes the first byte off block 4, whose number reads
  as EOT) breaks `Transfers`, and a lost answer breaks `RecoversAll`.

The passing runs leave out exactly the combinations shown here, and their
configurations say so by their constants: `Scenes` in `SmbBase` and `SmbAlloc`,
`Checking` and `Reads` in `RingBuf`, `Callings` in `FileLock`, `Threads` and `Deleting`
in `MailServer`, `Frequent` in `Nodes`, `FallbackAt` and `Slips` in `Xmodem`.

## 5. Bounds and fairness

- `getmsgidx`: all ascending indexes of at most five records over five numbers,
  targets one beyond. Halving five records passes through every shape of interval
  (one, two, odd, even), and the theorems do without the bound.
- `lock`: three handles, as two threads and a program or as three programs; two
  regions, base and a header. A third party is what a retry can steal from.
- `stack_one`: four slots as in the code, six bases, so that there are more than
  slots even while one is open in part, nesting to six, so that both limits are
  met. Bases are only compared for equality: symmetry.
- `alloc`: blocks of two bytes, bodies of one and three, tails of none and two:
  aligned, sharing a block, and crossing one. Three blocks and two messages are
  enough for reuse, a gap too small, and extension. Three scenes: tails, with headers,
  texts, users and the opening of the count table failing; tails, with headers and texts
  failing and processes ending; and no tails, where only headers fail and counts must be
  exact. Two recipients (`MaxSent`) are the least that can be left on too low a count, and
  `MaxStray` bounds the forwardings whose reference is never taken back. `CONSTRAINT Sound`
  stops where a message of an uncounted mailing has been purged: the properties except
  what follows, but for the headers, whose theorem (`HeadersIntactCorrect`) covers it.
  `MaxRefs` is 15, the type of the count; no run reaches the wrap of the code's
  16 bits.
- `base`: two sessions, three numbers (`MaxNumber`), three headers (two for
  threads): a message, a reply and a second reply, or a purge that moves one
  record while another is posted. `MaxNumber` bounds posts and the scene's `hdrs` the
  header file by guards. Four scenes: programs that do everything but script writes;
  programs with script writes but no purges; programs that crash; threads that crash
  and do not reply.
- `mail`: one sendmail thread, one POP3 client, two messages submitted (and a
  notice for each), two attempts, one trouble: enough for a first attempt that
  fails, a second that gives up, a notice that fails to be delivered, and a purge
  between any two steps. `MaxTroubles` bounds what the server does not count.
- `xmodem`: five units in blocks of two, so that the last is short; numbers modulo
  two, the smallest that can tell a repetition; three errors and two tries, so
  that each loop ends inside the other; one piece of noise, and any number of early
  time-outs. `FallbackAt` 4 is out of reach; the run with a fallback has its own
  configuration. The theorem does without these bounds.
- `nodes`: two servers with two nodes and one, the event at the first, two calls,
  one node the sysop takes down, one fault of any kind. A second server is what an
  exclusive event has to wait for; two calls are what can meet on one node.
- `ring`: capacity three, writes and reads of at most two bytes, mark two: every
  wrap, full and empty. `MaxSem` bounds the semaphores by the writer's guard.

Deadlock is checked where the system never stops (`lock`, `ring`, `stack_one`,
`getmsgidx`); in `SmbAlloc`, `SmbBase`, `MailServer` and `Nodes` the bounds on numbers,
blocks, messages and calls may leave nothing to do, and a transfer of `Xmodem`
ends: their configurations say `CHECK_DEADLOCK FALSE`.

Fairness: `SmbGetMsgIdx` has weak fairness of the search's own next probe, since
nothing blocks the caller's thread; other sessions have none. `RingBuf` has weak
fairness of the reader: its thread keeps running, and both its waits have a time
limit (`incom`'s timeout, `outbuf_drain_timeout`), modelled as always possible
outcomes. Neither assumes anything of the writer. `Moves` leaves out a reader
that looks at the input for ever and takes nothing, as a program run by a node
may. `MailServer` has weak fairness of each sendmail thread, which runs in a loop
with a wait, and of the end of a purge; users, POP3 clients and other hosts may stop at any
time. `Xmodem` has weak fairness of both ends: each program runs, and every wait for a
character has a time limit, so that `Silence` is enabled whenever nothing else is. `Nodes` has
weak fairness of the event threads, and of sessions, since a user's time is
limited and so is an event's; nothing makes people call, time pass, or faults happen.

## 6. Proofs

All theorems are for every value of the constants that meets the named
assumptions. They follow one pattern: an invariant `Inv` with `Init => Inv` and
`Inv /\ [Next]_vars => Inv'`, a lemma per group of actions, and a temporal step.

- **`SmbLib_proofs`**, the search (from `IndexFilesAssumption`, `TargetsAssumption`):
  `TypeCorrect`, `LoopInvariant`, `NotFoundCorrect`, `OffsetCorrect`, `SearchAlwaysShrinks`.
  `NotFoundIsRight` is not inductive: it says nothing while the search runs.
  `LoopInv` adds that the record sought, if it was there, lies between `bot` and
  `top`, and that appended records are greater than all before. When the
  interval is down to its probe (`NothingLeft`), nothing is left to find.
  The stack (from `SmbStackAssumption`): `StackTypeCorrect` for any number of threads;
  `RestoresOwnCorrect` and `NoLostBaseCorrect` under `OneThread`, since the stack takes
  no lock. A base that a failed `smb_open()` left open in part counts as none for a push
  (`OpenBase`), is never on the stack, and is what `NoLostBase` leaves out (`partial`). `StackInv` adds what a push or pop has loaded but not yet stored: the slots
  hold the thread's saved bases in order (`Saved`), and what it is in the middle of is
  the session's own (`Current`).
- **`FileLock_proofs`** (from `FileLockAssumption`): `LockTypes`,
  `ThreadsExclude` (`FileExclusion`), `ProcessesExclude` (`RegionExclusion`),
  `StraysExplained` (`StraysFromTimeOut`).
  Exclusion of threads rests on the flock: whoever holds a region has it and is
  in no call that gives it back (`OwnFlock`). Exclusion of programs cannot: with
  nesting the flock comes and goes. It rests on the fcntl lock, which only the
  process that has it gives back (`OwnFcntl`), also between its two locks. The
  two conditions are separate for a reason: with nesting callers and threads of
  one process neither lock is enough, since the flock is given away and the
  sibling's retry gives up the fcntl lock. `StraysFromTimeOut` is inductive, with the types:
  an fcntl lock is taken in a call for its region (`Claimed`), the call ends by holding the
  region, or by a time-out, which puts it among those `left`. An
  `unlock()`, or a close, of the process that has the lock frees it, and nothing is left to
  explain; one of another process leaves the lock and its claim alone (`ClaimKept`).
- **`RingBuf_proofs`** (from `RingBufAssumption`, and `OneChecks`: one writer,
  which asks first): `TypeCorrect`, `RoomNeverShrinks`, `NoWakeupLost`,
  `HighwaterCorrect`. `BufferInv` adds what the reader found on its way to the
  wait: it waits for the mark only after it found the level below it, and then a
  level at the mark has a post waiting (`LevelSeen`); and what a peek counted is
  still there, unless purged (`PeekStays`).
  The arithmetic of the wrap is in `FillWrite`, `FillRead` and `WrappedType`.
  `ImplementsQueue` (`IsQueue`) adds `NothingExpanded`: a peeking program
  is written what was peeked. Under `BufferInv`,
  and `LookStays` (what a peek copied stays at the front until it is read or
  purged), every step maps to a step of `ByteQueue` or to none: a write keeps
  what waits (`WriteKeeps`) and puts bytes behind it (`WriteIsPut`), a read takes
  a prefix (`MovedIsTake`), looking is two steps, worth nothing if a purge comes
  between (`PeekIsLook`), and what is discarded afterwards was seen
  (`PeekDoneIsDiscard`). `SubCopied` is the one fact about positions: a part of what is
  copied from `tail` on is what is copied from where that part begins.
- **`SmbAlloc_proofs`** (from `SmbAllocAssumption`): `TypeCorrect` and
  `HeadersIntactCorrect` for every way of using a base; `IntactCorrect`,
  `FreeBlocksUnusedCorrect`, `CountIsHeadersCorrect`, `NothingLeaks` and
  `ImplementsStore` (`StoresText`, the refinement of `MsgStore`) under `OneAtATime`,
  which says two things. No purge runs while a bulk mailing or a forwarding is under way
  (`~Concurrent`): `MCSmbAllocBulkRace` shows why. And a count cannot wrap (`CountsFit`):
  every message number and every recipient, counted twice where body and tail share a
  block, stays below `MaxRefs`, which is 65536 for the code's 16 bits; the code does not look.
  `AllocInv` relates the tables to what is live and to what is under way: each text in use
  is in the blocks its header names, and nobody else has that text (`DataInv`); each
  header has its blocks (`HeaderInv`); a count is never zero, nor less than what is due to live
  messages and reservations unless a mailing was not counted (`Enough`), nor more than
  recipients not found and forwardings given up can have left over
  (`Limited`), which is what keeps it from wrapping (`CountInv`); and it is exact where
  there are no tails and only headers fail (`ExactInv`). `FreeBlocksUnused` alone is not
  inductive: a purge that takes one from a count needs to know that the count was enough.
  `AllocInv` holds until a message of an uncounted mailing is purged, which the theorems
  except: `CountedInv` is `AllocInv` or `Spoiled`, and `Spoiled` stays (`SpoiledStep`). Where only
  headers fail no reference is ever left out (`QuietInv`), so `CountIsHeaders` and
  `NothingLeaks` need no exception.
- **`SmbBase_proofs`** (from `SmbBaseAssumption`): `TypeCorrect` for every scene;
  `NumbersFreshCorrect` for scenes that are `Guarded`; `NoneLostCorrect`,
  `NumbersAscendCorrect`, `FilesAgreeCorrect`, `LinksAreRepliesCorrect` and
  `RepliesLinkedCorrect` for those that are `WellUsed`; for any
  number of sessions, messages and header blocks. `Guarded`: each session is a process of its own, or
  none gives up a header's lock, and with it the base's, while threads count on it, as replies
  and `delallmail()` do (`MCSmbBaseReplyThreads`, `MCSmbBaseKillThreads`). `WellUsed`
  also asks that nothing is purged where scripts write headers without the base lock
  (`MCSmbBaseScriptPurge`). The argument has five layers, each on those before:
  types (`TypeInv`); who is in the part of an operation that needs a lock has it
  (`LockInv`), by the fcntl lock among processes and by the flock among threads; a number
  taken from the status is the next until it is written back (`NumberInv`); and what the
  files hold at each step of each operation (`StoreInv`). `IndexInv` has the part about the
  files: each record leads to a header of its own, what was posted and not purged is among
  the records counted, in order, marked as its header is. `AddingInv`, `EditInv` and `PurgeInv` have
  what a session in the middle of an operation knows that the files do not show yet, such
  as the records a purge has read and truncated. `StoreInv` says nothing of a base left by a process that ended
  between the truncation of the index and its last write (`torn`): those
  messages are gone. What a purge keeps is picked out by `RecordsPicked` and `PlacesListed`: a
  subset of places, listed in order.
  The fifth layer, `ThreadInv`, is for scenes in which nothing fails. A header in the index
  leads only to later messages that are replies to the right one (`Leads`,
  `AllRight`) and were posted, or will be: the number a session that is adding a reply is
  about to get (`Promised`). Where nothing was purged and no script writes headers, every reply is
  reached from what it replies to (`Reached`). A session in the middle of an operation knows more:
  the reply it links has no reply linked behind it (`ReplyAt`); what a script has read may be
  old, but still leads to replies (`ChangeAt`); what a purge keeps is linked as
  it was (`KeepAt`). The walk along a thread is the least set closed under the next reply
  (`Replies`), so what it reaches needs no induction.
- **`Nodes_proofs`** (from `NodesAssumption`): `TypeCorrect` unconditionally;
  `OneCallerCorrect` and `ExclusiveAloneCorrect` for an event that runs at most once an
  hour (`~Frequent`), for any servers and nodes. The two properties speak of the time before
  any fault. The argument (`QuietInv`) is that until then a caller is on a node whose
  record says so (`CallersMarked`), and a loop of the event thread that looks at the
  nodes one by one leaves behind it nodes that nobody can take any more: marked
  for the event, or offline (`Cleared`), which answering respects.
- **`Xmodem_proofs`** (from `XmodemAssumption`): `TypeCorrect` unconditionally, so no
  counter passes its limit; `IsFileTransfer` (`Transfers`), for every file, block size,
  modulus of at least two, limit of errors and amount of noise, under `NoFallback` and
  `~Slips`. `TransferInv` says that the receiver has what comes before the
  sender's block or that block too (`Behind`, `Ahead`); that what is on the line is the
  sender's block or repetitions of the one before, in that order (`Sound`), so that a
  number modulo two is enough; that an ACK is for the block the receiver has just got and
  there is one at most (`Honest`); and that EOT is on the line, or believed, only at the end of
  the file (`Ended`). Loss, damage and flushing only leave a subsequence with junk in it
  (`LeftOf`), which keeps all of it (`LossKeepsSound`, `LossKeepsHonest`).

- **`MailServer_proofs`** (from `MailServerAssumption`, under `Alone`: one sendmail thread, one
  POP3 session, and no other session deletes queued mail or what is in that session's
  mailbox): `TypeCorrect`, `EachItsHeaderCorrect`, `NothingVanishesCorrect`,
  `TransitOwnedCorrect`, `RetrievesOwnCorrect`; and `SentOnceCorrect` unless the server is
  configured to send what is marked in transit already (`SendInTransit`). The purge, the
  users and a crash at any point are there. `Alone` is needed: two threads send a
  message twice (`mail_threads`), and two sessions that read one header write
  back each other's changes. `MailInv` holds of every reachable state:
  notices number as many as the log says were told, so that numbers never run out
  (`Counted`) and the types follow; the sendmail thread's copy of the index
  and header is what the base has wherever its next step relies on it (`SenderAt`), and so is
  the POP3 client's (`ClientAt`); attempts stay bounded (`TriesAt`); a mark of
  transit has its thread (`OwnedAt`); a queued message waits until a host took it, its
  sender was told, or the notice failed or was cut off by a crash (`StaysAt`);
  what a host acknowledged is not queued again (`OnceAt`). Each step is split into
  what it does to the base (`PutIs`, `AddIs`, `PurgeIs`, `ResetIs`, `WriteIs`) and what it leaves
  as it was for the other threads (`OwnStep`, `OthersStep`).

Model-checked only: liveness (`SearchReturns`, `Moves`, `Settles`, `Ends`, `Recovers`,
`EventRuns`, `NodesReturn`), since liveness under fairness is beyond the proof
system. No module declares a recursive operator.

## 7. What is left out

- `SmbGetMsgIdx`, `SmbBase`: reads are of the file itself. The code reads through
  stdio buffers that it rewinds; what another program writes in between is seen
  late. Messages with number 0, and indexes damaged by hand, are not states.
- `SmbBase`: the walk along a reply chain (`smb_updatethread`) finds the last
  reply in one step; a header is one block; message ids, hashes and CRCs are left
  out; any record may be marked, where the code chooses by user, age and count.
- `SmbAlloc`: hyper-allocation keeps no table. Disk errors and ends of a process
  inside one walk over a table, or inside a purge, are not modelled; failures of the
  calls around them are, and ends of a process between them. What follows once a
  message of an uncounted mailing is purged (`Spoiled`) is not looked at: its blocks are
  given away and freed again by the next purge, whoever has them.
- `SmbStack`: exchanging (`SMB_STACK_XCHNG`), which nobody calls.
- `RingBuf`: `RingBufDispose()` at the end of a session, the sending of the
  linear buffer after `Drain`, and spy buffers.
- `FileLock`: the Windows, OS/2 and BSD branches. The kernel's part of closing
  and ending (`Released`, `Crash`) is external, from how Linux documents it.
- `MailServer`: SMTP reception (an external arrival), DNS blacklists, mail processors, relaying,
  the schedule of rescans; the texts of the protocols.
- `Xmodem`: the YMODEM header, batches and the G modes; ZMODEM. Damage that an error check
  does not find. A line has no delays other than what time-outs show.
- `Nodes`: node messages and the other fields; quiet nodes (they are in use); the
  lock flag `NODE_LOCK` at logon; QWK events; failures to read or lock a record; event
  threads that end by a time limit at shutdown (`Closed` waits for all sessions).
- The 14 other components of section 1, for the reasons `PROJECT.json` gives: they
  are planned, or sequential, or protocol text over sockets.

## 8. Plan

Order of the work, the most important behaviour first. Done: 1 to 9.

1. `SmbGetMsgIdx`, with proofs. 2. `FileLock`, with proofs. 3. `SmbAlloc`
   refining `MsgStore`, with proofs. 4. `SmbStack`, with proofs. 5. `SmbBase`, composing
   locks, index, headers and status, with proofs. 6. `RingBuf` refining `ByteQueue`, with proofs.
   7. `MailServer`, with proofs. 8. `Xmodem` refining `FileTransfer`, with proofs. 9. `Nodes`, with
   proofs.
10. `SmbHash`: CRC history and hashes with the failure of a post after they are
    recorded; composed with posting. Run: two posts of one text, one fails.
11. `UserDat`: field updates over `FileLock`'s locks; `getnodedat` with the unlock of
    a caller that had the record locked.
12. `MsgQueue` over `LinkList`, `XpSem` and `XpEvent`: reference counts, timed
    waits; refining a channel.
13. `Nopen`: shared opening with retries (`nopen`, `sopen`), then file bases.
14. `SmbPack`: packing and truncating a base against sessions (`smbutil.c`).
15. `.bsy` files of `sbbsecho`; ZMODEM as a second refinement of `FileTransfer`.

Abstract specifications worth stating: a lossless channel (12), a mutual
exclusion (2, 11, 13), a set of messages (14), a queue of mail with one delivery each (7).
