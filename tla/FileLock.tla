------------------------------ MODULE FileLock ------------------------------
(***************************************************************************)
(* Record locks on one shared file as xpdev implements them on Linux       *)
(* (filewrap.c), and the retry loops smblib puts around them               *)
(* (smb_locksmbhdr, smb_lockmsghdr, smb_unlockmsghdr, smb_close).          *)
(*                                                                         *)
(* lock() takes two locks, one system call after the other: a fcntl() lock *)
(* on the byte range, which belongs to the PROCESS, and a flock() lock on  *)
(* the WHOLE FILE, which belongs to the open descriptor.  unlock() gives   *)
(* both back, whichever range it is called for.  A handle is an open       *)
(* descriptor used by one thread (an smb_t); a server process has many.    *)
(***************************************************************************)
EXTENDS Naturals, FiniteSets

CONSTANTS
  Handles,    \* open descriptors, each used by one thread
  Procs,      \* processes
  Openers,    \* the ways the handles may belong to processes
  Regions,    \* disjoint byte ranges: the base header, message headers
  Callings,   \* "single": a caller locks one range at a time; "nested"
  NoOne

ASSUME FileLockAssumption ==
  /\ Openers \subseteq [Handles -> Procs]
  /\ NoOne \notin Handles /\ NoOne \notin Procs /\ NoOne \notin Regions
  /\ Callings \subseteq {"single", "nested"}

VARIABLES
  procOf,   \* the process of each handle
  calling,  \* how the callers lock ranges
  opened,   \* the handles that are open
  fcntl,    \* the process that has the fcntl lock of each region
  flock,    \* the handle that has the flock lock of the file
  pc,       \* where each handle's thread is inside lock(), unlock() or a loop
  want,     \* the region it is called for
  failedOnce, \* the loop has failed before: its clock is running
  holds,    \* the regions each caller was told it has locked
  left      \* history: the regions whose fcntl lock a call that timed out has left

setting == <<procOf, calling>>
vars == <<setting, opened, fcntl, flock, pc, want, failedOnce, holds, left>>

Places == {"idle", "fcntl", "flock", "failed", "retry", "unlock"}

Init ==
  /\ procOf \in Openers /\ calling \in Callings
  /\ opened = {}
  /\ fcntl = [r \in Regions |-> NoOne]
  /\ flock = NoOne
  /\ pc = [h \in Handles |-> "idle"]
  /\ want = [h \in Handles |-> NoOne]
  /\ failedOnce = [h \in Handles |-> FALSE]
  /\ holds = [h \in Handles |-> {}]
  /\ left = {}

\* The thread is back in its caller.
Leave(h) ==
  /\ pc' = [pc EXCEPT ![h] = "idle"]
  /\ want' = [want EXCEPT ![h] = NoOne]
  /\ failedOnce' = [failedOnce EXCEPT ![h] = FALSE]

Goto(h, place) ==
  /\ pc' = [pc EXCEPT ![h] = place]
  /\ UNCHANGED want

---------------------------------------------------------------------------
(* smb_locksmbhdr(), smb_lockmsghdr(): lock() in a loop, with a time limit *)

\* smb_open_fp(fp, SH_DENYNO): no lock is taken.
Open(h) ==
  /\ h \notin opened
  /\ opened' = opened \union {h}
  /\ UNCHANGED <<fcntl, flock, pc, want, failedOnce, holds, left>>

LockCall(h, r) ==
  /\ h \in opened /\ pc[h] = "idle"
  /\ calling = "nested" \/ holds[h] = {}
  /\ pc' = [pc EXCEPT ![h] = "fcntl"]
  /\ want' = [want EXCEPT ![h] = r]
  /\ UNCHANGED <<opened, fcntl, flock, failedOnce, holds, left>>

\* Mistake: a refusal of fcntl() is not noticed.
FcntlLock_IgnoresRefusal(h) ==
  /\ pc[h] = "fcntl"
  /\ fcntl' = [fcntl EXCEPT ![want[h]] = IF @ = NoOne THEN procOf[h] ELSE @]
  /\ Goto(h, "flock")
  /\ UNCHANGED <<opened, flock, failedOnce, holds, left>>

\* fcntl(F_SETLK): refused only to another process.
FcntlLock(h) ==
  LET r == want[h] IN
  /\ pc[h] = "fcntl"
  /\ \/ /\ fcntl[r] \in {NoOne, procOf[h]}
        /\ fcntl' = [fcntl EXCEPT ![r] = procOf[h]]
        /\ Goto(h, "flock")
     \/ /\ fcntl[r] \notin {NoOne, procOf[h]}
        /\ Goto(h, "failed")
        /\ UNCHANGED fcntl
  /\ UNCHANGED <<opened, flock, failedOnce, holds, left>>

\* The regions still left behind when h is told that it has its own.
Unclaimed(h) == IF fcntl[want[h]] = procOf[h] THEN left \ {want[h]} ELSE left

\* Mistake: threads of one process share the flock lock too.
FlockLock_PerProcess(h) ==
  /\ pc[h] = "flock"
  /\ flock \in {NoOne} \union {g \in Handles : procOf[g] = procOf[h]}
  /\ flock' = h
  /\ holds' = [holds EXCEPT ![h] = @ \union {want[h]}]
  /\ left' = Unclaimed(h)
  /\ Leave(h)
  /\ UNCHANGED <<opened, fcntl>>

\* flock(LOCK_EX|LOCK_NB): refused to every other descriptor.  lock() then
\* fails and leaves the fcntl lock where it is.
FlockLock(h) ==
  /\ pc[h] = "flock"
  /\ \/ /\ flock \in {NoOne, h}
        /\ flock' = h
        /\ holds' = [holds EXCEPT ![h] = @ \union {want[h]}]
        /\ left' = Unclaimed(h)
        /\ Leave(h)
     \/ /\ flock \notin {NoOne, h}
        /\ Goto(h, "failed")
        /\ UNCHANGED <<flock, failedOnce, holds, left>>
  /\ UNCHANGED <<opened, fcntl>>

\* The first failure starts the clock; from the second on the time may be up.  The loop
\* is left without an unlock(): if it was the flock() that failed, the fcntl lock stays.
TimeOut(h) ==
  /\ pc[h] = "failed" /\ failedOnce[h]
  /\ left' = IF fcntl[want[h]] = procOf[h] THEN left \union {want[h]} ELSE left
  /\ Leave(h)
  /\ UNCHANGED <<opened, fcntl, flock, holds>>

\* What unlock() leaves of the two locks.
AfterFcntlUnlock(h, r) ==
  IF fcntl[r] = procOf[h] THEN [fcntl EXCEPT ![r] = NoOne] ELSE fcntl

\* Nothing is left behind of what is given back.
StillLeft == {r \in left : fcntl'[r] # NoOne}

AfterFlockUnlock(h) == IF flock = h THEN NoOne ELSE flock

\* Otherwise the loop calls unlock() "in case we've already locked it", and
\* tries again.  First its fcntl() ...
RetryFcntlUnlock(h) ==
  LET r == want[h] IN
  /\ pc[h] = "failed"
  /\ failedOnce' = [failedOnce EXCEPT ![h] = TRUE]
  /\ fcntl' = AfterFcntlUnlock(h, r) /\ left' = StillLeft
  /\ holds' = [holds EXCEPT ![h] = @ \ {r}]
  /\ Goto(h, "retry")
  /\ UNCHANGED <<opened, flock>>

\* ... and then its flock().
RetryFlockUnlock(h) ==
  /\ pc[h] = "retry"
  /\ flock' = AfterFlockUnlock(h)
  /\ Goto(h, "fcntl")
  /\ UNCHANGED <<opened, fcntl, failedOnce, holds, left>>

---------------------------------------------------------------------------
(* smb_unlocksmbhdr(), smb_unlockmsghdr() *)

\* Mistake: a range is given back only together with the flock lock.
UnlockFcntl_WithFlock(h, r) ==
  /\ pc[h] = "idle" /\ r \in holds[h]
  /\ holds' = [holds EXCEPT ![h] = @ \ {r}]
  /\ fcntl' = IF flock = h THEN AfterFcntlUnlock(h, r) ELSE fcntl
  /\ left' = StillLeft
  /\ want' = [want EXCEPT ![h] = r]
  /\ pc' = [pc EXCEPT ![h] = "unlock"]
  /\ UNCHANGED <<opened, flock, failedOnce>>

UnlockFcntl(h, r) ==
  /\ pc[h] = "idle" /\ r \in holds[h]
  /\ holds' = [holds EXCEPT ![h] = @ \ {r}]
  /\ fcntl' = AfterFcntlUnlock(h, r) /\ left' = StillLeft
  /\ want' = [want EXCEPT ![h] = r]
  /\ pc' = [pc EXCEPT ![h] = "unlock"]
  /\ UNCHANGED <<opened, flock, failedOnce>>

UnlockFlock(h) ==
  /\ pc[h] = "unlock"
  /\ flock' = AfterFlockUnlock(h)
  /\ Leave(h)
  /\ UNCHANGED <<opened, fcntl, holds, left>>

---------------------------------------------------------------------------
(* Closing *)

\* What the kernel takes back when the descriptors in hs are closed: their
\* flock lock, and every fcntl lock of their processes on this file, those
\* acquired through other descriptors included.
Released(hs) ==
  /\ fcntl' = [r \in Regions |->
                 IF fcntl[r] \in {procOf[h] : h \in hs} THEN NoOne ELSE fcntl[r]]
  /\ left' = StillLeft
  /\ flock' = IF flock \in hs THEN NoOne ELSE flock

\* The handles' threads are back outside every call, holding nothing.
Reset(hs) ==
  /\ opened' = opened \ hs
  /\ pc' = [g \in Handles |-> IF g \in hs THEN "idle" ELSE pc[g]]
  /\ want' = [g \in Handles |-> IF g \in hs THEN NoOne ELSE want[g]]
  /\ failedOnce' = [g \in Handles |-> IF g \in hs THEN FALSE ELSE failedOnce[g]]
  /\ holds' = [g \in Handles |-> IF g \in hs THEN {} ELSE holds[g]]

\* smb_close() by a thread that is in no other call.
Close(h) ==
  /\ h \in opened /\ pc[h] = "idle"
  /\ Released({h})
  /\ Reset({h})

\* The process ends, at any point: the kernel closes all its descriptors.
Crash(p) ==
  LET hs == {h \in opened : procOf[h] = p} IN
  /\ hs # {}
  /\ Released(hs)
  /\ Reset(hs)

Next ==
  /\ UNCHANGED setting
  /\ \/ \E h \in Handles :
          \/ Open(h) \/ Close(h)
          \/ \E r \in Regions : LockCall(h, r) \/ UnlockFcntl(h, r)
          \/ FcntlLock(h) \/ FlockLock(h) \/ TimeOut(h)
          \/ RetryFcntlUnlock(h) \/ RetryFlockUnlock(h) \/ UnlockFlock(h)
     \/ \E p \in Procs : Crash(p)

Spec == Init /\ [][Next]_vars

---------------------------------------------------------------------------
(* Properties *)

\* The types of the lock state.
TypeOK ==
  /\ procOf \in Openers /\ calling \in Callings
  /\ opened \subseteq Handles
  /\ fcntl \in [Regions -> Procs \union {NoOne}]
  /\ flock \in Handles \union {NoOne}
  /\ pc \in [Handles -> Places]
  /\ want \in [Handles -> Regions \union {NoOne}]
  /\ failedOnce \in [Handles -> BOOLEAN]
  /\ holds \in [Handles -> SUBSET Regions]
  /\ left \subseteq Regions

\* Callers that never hold two ranges at a time exclude one another on the
\* whole file, threads of one process included, whatever the retry loops of
\* the others unlock and whoever crashes.
FileExclusion ==
  calling = "single" =>
    \A g, h \in Handles : g # h => holds[g] = {} \/ holds[h] = {}

\* Every process has the file open once.
OneEach == \A g, h \in Handles : procOf[g] = procOf[h] => g = h

\* Of processes that open the file once, no two have been told they locked the
\* same range, although they nest: unlocking a message header gives up the flock
\* that was taken with the base header.
RegionExclusion ==
  OneEach => \A g, h \in Handles : g # h => holds[g] \intersect holds[h] = {}

\* A thread of the process that has the fcntl lock of region r holds r, or is inside
\* lock() for it.
Claimed(r) ==
  \E h \in Handles :
    /\ procOf[h] = fcntl[r]
    /\ r \in holds[h] \/ (want[h] = r /\ pc[h] \in {"flock", "failed"})

\* A process keeps others out of a region only for a thread that holds it or asks for it,
\* whatever the others of its threads unlock, retry or close, or after a lock() that timed
\* out on the flock: "timeout locking", and the fcntl lock stays with the process until
\* one of its threads locks and unlocks the region, or closes a descriptor of the file.
StraysFromTimeOut == \A r \in Regions : fcntl[r] # NoOne => Claimed(r) \/ r \in left

\* So it would be if the loops unlocked before they give up.
NoStrays == \A r \in Regions : fcntl[r] # NoOne => Claimed(r)

\* What the retry loops unlock is a lock of their own caller ("In case we've
\* already locked it"): while no descriptor is closed, a caller keeps the range
\* lock it was told it has.
RetryReleasesOwn ==
  [][opened' = opened =>
       \A h \in Handles, r \in Regions :
         r \in holds[h] /\ r \in holds'[h] /\ fcntl[r] = procOf[h]
           => fcntl'[r] = procOf[h]]_vars
---------------------------------------------------------------------------
(* The inductive invariants behind the two exclusion properties *)

Wants == \A h \in Handles : pc[h] # "idle" => want[h] \in Regions

\* Without nesting, whoever holds a range has the flock lock, and is not inside
\* a call that could give it back.
OwnFlock ==
  calling = "single" => \A h \in Handles :
    holds[h] # {} =>
      pc[h] = "idle" /\ flock = h /\ \A r, s \in holds[h] : r = s

\* With one handle to a process, whoever holds a range, or is about to, has its
\* fcntl lock, however often the flock lock came and went.
OwnFcntl ==
  OneEach => \A h \in Handles :
    /\ \A r \in holds[h] : fcntl[r] = procOf[h]
    /\ pc[h] = "flock" => fcntl[want[h]] = procOf[h]

LockInv == TypeOK /\ Wants /\ OwnFlock /\ OwnFcntl
=============================================================================
