--------------------------- MODULE FileLock_proofs ---------------------------
(* Who excludes whom under filewrap.c's locks, for any processes, threads  *)
(* and byte ranges.                                                        *)
EXTENDS FileLock, TLAPS

TypeInv == TypeOK /\ Wants

LEMMA TypeInit == Init => TypeInv
BY DEF Init, TypeInv, TypeOK, Wants, Places

LEMMA TypeStep == TypeInv /\ [Next]_vars => TypeInv'
<1> SUFFICES ASSUME TypeInv, [Next]_vars PROVE TypeInv' OBVIOUS
<1>0. procOf' = procOf /\ calling' = calling BY DEF Next, vars, setting
<1> USE FileLockAssumption DEF TypeInv, TypeOK, Wants, Places, Unclaimed, StillLeft
<1>1. ASSUME NEW h \in Handles, Open(h) PROVE TypeInv'
  BY <1>0, <1>1 DEF Open
<1>2. ASSUME NEW h \in Handles, Close(h) PROVE TypeInv'
  BY <1>0, <1>2 DEF Close, Released, Reset
<1>3. ASSUME NEW h \in Handles, NEW r \in Regions, LockCall(h, r) PROVE TypeInv'
  BY <1>0, <1>3 DEF LockCall
<1>4. ASSUME NEW h \in Handles, NEW r \in Regions, UnlockFcntl(h, r) PROVE TypeInv'
  BY <1>0, <1>4 DEF UnlockFcntl, AfterFcntlUnlock
<1>5. ASSUME NEW h \in Handles, FcntlLock(h) PROVE TypeInv'
  <2>1. want[h] \in Regions /\ procOf[h] \in Procs BY <1>5 DEF FcntlLock
  <2> QED BY <1>0, <1>5, <2>1 DEF FcntlLock, Goto
<1>6. ASSUME NEW h \in Handles, FlockLock(h) PROVE TypeInv'
  <2>1. holds[h] \union {want[h]} \subseteq Regions BY <1>6 DEF FlockLock
  <2>2. CASE /\ flock' = h
             /\ holds' = [holds EXCEPT ![h] = holds[h] \union {want[h]}]
             /\ Leave(h)
    BY <1>0, <1>6, <2>1, <2>2 DEF FlockLock, Leave
  <2>3. CASE Goto(h, "failed") /\ UNCHANGED <<flock, failedOnce, holds>>
    BY <1>0, <1>6, <2>3 DEF FlockLock, Goto
  <2> QED BY <1>6, <2>2, <2>3 DEF FlockLock
<1>7. ASSUME NEW h \in Handles, TimeOut(h) PROVE TypeInv'
  BY <1>0, <1>7 DEF TimeOut, Leave
<1>8. ASSUME NEW h \in Handles, RetryFcntlUnlock(h) PROVE TypeInv'
  BY <1>0, <1>8 DEF RetryFcntlUnlock, AfterFcntlUnlock, Goto
<1>9. ASSUME NEW h \in Handles, RetryFlockUnlock(h) \/ UnlockFlock(h) PROVE TypeInv'
  <2>1. CASE RetryFlockUnlock(h) BY <1>0, <2>1 DEF RetryFlockUnlock, AfterFlockUnlock, Goto
  <2>2. CASE UnlockFlock(h) BY <1>0, <2>2 DEF UnlockFlock, AfterFlockUnlock, Leave
  <2> QED BY <1>9, <2>1, <2>2
<1>10. ASSUME NEW p \in Procs, Crash(p) PROVE TypeInv'
  BY <1>0, <1>10 DEF Crash, Released, Reset
<1>11. CASE UNCHANGED vars BY <1>11 DEF vars, setting
<1> QED
  BY <1>1, <1>2, <1>3, <1>4, <1>5, <1>6, <1>7, <1>8, <1>9, <1>10, <1>11 DEF Next

\* The lock state of any number of handles and processes stays well typed, and
\* every thread inside a call has a region to lock or unlock.
THEOREM LockTypes == Spec => [](TypeOK /\ Wants)
<1>1. Spec => []TypeInv BY TypeInit, TypeStep, PTL DEF Spec
<1> QED BY <1>1, PTL DEF TypeInv

---------------------------------------------------------------------------
(* Callers that do not nest: the flock lock excludes everybody *)

LEMMA OwnFlockStep ==
  ASSUME TypeInv, OwnFlock, [Next]_vars
  PROVE  OwnFlock'
<1> SUFFICES ASSUME calling = "single" PROVE OwnFlock'
  BY DEF Next, vars, setting, OwnFlock
<1> USE FileLockAssumption DEF TypeInv, TypeOK, OwnFlock
<1>1. ASSUME NEW h \in Handles, Open(h) PROVE OwnFlock'
  BY <1>1 DEF Open
<1>2. ASSUME NEW h \in Handles, Close(h) PROVE OwnFlock'
  BY <1>2 DEF Close, Released, Reset
<1>3. ASSUME NEW h \in Handles, NEW r \in Regions, LockCall(h, r) PROVE OwnFlock'
  BY <1>3 DEF LockCall
<1>4. ASSUME NEW h \in Handles, NEW r \in Regions, UnlockFcntl(h, r) PROVE OwnFlock'
  <2>1. holds[h] = {r} BY <1>4 DEF UnlockFcntl
  <2>2. holds'[h] = {} BY <1>4, <2>1 DEF UnlockFcntl
  <2> QED BY <1>4, <2>2 DEF UnlockFcntl
<1>5. ASSUME NEW h \in Handles, FcntlLock(h) PROVE OwnFlock'
  BY <1>5 DEF FcntlLock, Goto
<1>6. ASSUME NEW h \in Handles, FlockLock(h) PROVE OwnFlock'
  <2>1. holds[h] = {} BY <1>6 DEF FlockLock
  <2>2. \A g \in Handles : g # h /\ flock \in {NoOne, h} => holds[g] = {} OBVIOUS
  <2> QED BY <1>6, <2>1, <2>2 DEF FlockLock, Goto, Leave
<1>7. ASSUME NEW h \in Handles, TimeOut(h) PROVE OwnFlock'
  BY <1>7 DEF TimeOut, Leave
<1>8. ASSUME NEW h \in Handles, RetryFcntlUnlock(h) PROVE OwnFlock'
  <2>1. holds[h] = {} /\ holds' = holds BY <1>8 DEF RetryFcntlUnlock
  <2> QED BY <1>8, <2>1 DEF RetryFcntlUnlock, Goto
<1>9. ASSUME NEW h \in Handles, RetryFlockUnlock(h) \/ UnlockFlock(h) PROVE OwnFlock'
  BY <1>9 DEF RetryFlockUnlock, UnlockFlock, AfterFlockUnlock, Goto, Leave
<1>10. ASSUME NEW p \in Procs, Crash(p) PROVE OwnFlock'
  BY <1>10 DEF Crash, Released, Reset
<1>11. CASE UNCHANGED vars BY <1>11 DEF vars, setting
<1> QED
  BY <1>1, <1>2, <1>3, <1>4, <1>5, <1>6, <1>7, <1>8, <1>9, <1>10, <1>11 DEF Next

\* Any number of threads in any number of processes, none of which locks a
\* range while it holds another: at most one of them holds anything, although
\* the retry loops release the range locks of their process's other threads.
THEOREM ThreadsExclude == Spec => []FileExclusion
<1>1. Init => OwnFlock BY DEF Init, OwnFlock
<1>2. TypeInv /\ OwnFlock /\ [Next]_vars => OwnFlock' BY OwnFlockStep
<1>3. OwnFlock => FileExclusion BY DEF OwnFlock, FileExclusion
<1> QED BY <1>1, <1>2, <1>3, TypeInit, TypeStep, PTL DEF Spec

---------------------------------------------------------------------------
(* One handle to a process: the fcntl locks exclude range by range *)

LEMMA OwnFcntlStep ==
  ASSUME TypeInv, OwnFcntl, [Next]_vars
  PROVE  OwnFcntl'
<1>0. procOf' = procOf BY DEF Next, vars, setting
<1> SUFFICES ASSUME \A g, h \in Handles : procOf[g] = procOf[h] => g = h
             PROVE  OwnFcntl'
  BY <1>0 DEF OneEach, OwnFcntl
<1> USE FileLockAssumption DEF TypeInv, TypeOK, Wants, OwnFcntl, OneEach
<1>1. ASSUME NEW h \in Handles, Open(h) PROVE OwnFcntl'
  BY <1>0, <1>1 DEF Open
<1>2. ASSUME NEW h \in Handles, Close(h) PROVE OwnFcntl'
  BY <1>0, <1>2 DEF Close, Released, Reset
<1>3. ASSUME NEW h \in Handles, NEW r \in Regions, LockCall(h, r) PROVE OwnFcntl'
  BY <1>0, <1>3 DEF LockCall
<1>4. ASSUME NEW h \in Handles, NEW r \in Regions, UnlockFcntl(h, r) PROVE OwnFcntl'
  BY <1>0, <1>4 DEF UnlockFcntl, AfterFcntlUnlock
<1>5. ASSUME NEW h \in Handles, FcntlLock(h) PROVE OwnFcntl'
  <2>1. want[h] \in Regions /\ procOf[h] \in Procs BY <1>5 DEF FcntlLock
  <2> QED BY <1>0, <1>5, <2>1 DEF FcntlLock, Goto
<1>6. ASSUME NEW h \in Handles, FlockLock(h) PROVE OwnFcntl'
  <2>1. want[h] \in Regions /\ fcntl[want[h]] = procOf[h] BY <1>6 DEF FlockLock
  <2> QED BY <1>0, <1>6, <2>1 DEF FlockLock, Goto, Leave
<1>7. ASSUME NEW h \in Handles, TimeOut(h) PROVE OwnFcntl'
  BY <1>0, <1>7 DEF TimeOut, Leave
<1>8. ASSUME NEW h \in Handles, RetryFcntlUnlock(h) PROVE OwnFcntl'
  BY <1>0, <1>8 DEF RetryFcntlUnlock, AfterFcntlUnlock, Goto
<1>9. ASSUME NEW h \in Handles, RetryFlockUnlock(h) \/ UnlockFlock(h) PROVE OwnFcntl'
  BY <1>0, <1>9 DEF RetryFlockUnlock, UnlockFlock, AfterFlockUnlock, Goto, Leave
<1>10. ASSUME NEW p \in Procs, Crash(p) PROVE OwnFcntl'
  <2> DEFINE hs == {h \in opened : procOf[h] = p}
  <2>1. \A h \in Handles \ hs : \A g \in hs : procOf[g] # procOf[h] OBVIOUS
  <2> QED BY <1>0, <1>10, <2>1 DEF Crash, Released, Reset
<1>11. CASE UNCHANGED vars BY <1>11 DEF vars, setting
<1> QED
  BY <1>1, <1>2, <1>3, <1>4, <1>5, <1>6, <1>7, <1>8, <1>9, <1>10, <1>11 DEF Next

\* Processes that open the file once exclude one another range by range even
\* when they nest locks, as smb_addmsg of a reply and delallmail do: the inner
\* unlock gives away the flock lock, and the fcntl lock of the outer range
\* still keeps the other processes out.
THEOREM ProcessesExclude == Spec => []RegionExclusion
<1>1. Init => OwnFcntl BY DEF Init, OwnFcntl
<1>2. TypeInv /\ OwnFcntl /\ [Next]_vars => OwnFcntl' BY OwnFcntlStep
<1>3. TypeInv /\ OwnFcntl => RegionExclusion
  BY FileLockAssumption DEF TypeInv, TypeOK, OneEach, OwnFcntl, RegionExclusion
<1> QED BY <1>1, <1>2, <1>3, TypeInit, TypeStep, PTL DEF Spec

---------------------------------------------------------------------------
(* The range locks that nobody claims *)

\* A claim on a region that a step does not touch stays.
LEMMA ClaimKept ==
  ASSUME TypeInv, procOf' = procOf, NEW r \in Regions, NEW h \in Handles, Claimed(r),
         fcntl'[r] = fcntl[r], procOf[h] # fcntl[r],
         \A g \in Handles \ {h} :
           holds'[g] = holds[g] /\ want'[g] = want[g] /\ pc'[g] = pc[g]
  PROVE  Claimed(r)'
<1>1. PICK g \in Handles :
        /\ procOf[g] = fcntl[r]
        /\ r \in holds[g] \/ (want[g] = r /\ pc[g] \in {"flock", "failed"})
  BY DEF Claimed
<1>2. g # h BY <1>1
<1> QED BY <1>1, <1>2 DEF Claimed

LEMMA StrayStep ==
  ASSUME TypeInv, StraysFromTimeOut, [Next]_vars
  PROVE  StraysFromTimeOut'
<1>0. procOf' = procOf BY DEF Next, vars, setting
<1> USE FileLockAssumption DEF TypeInv, TypeOK, Wants, StraysFromTimeOut
\* Steps that change no claim.
<1>1. ASSUME UNCHANGED <<fcntl, holds, left>>,
             \A g \in Handles : \/ want'[g] = want[g] /\ pc'[g] = pc[g]
                               \/ pc[g] \notin {"flock", "failed"}
      PROVE  StraysFromTimeOut'
  BY <1>0, <1>1 DEF Claimed
<1>2. ASSUME NEW h \in Handles, Open(h) PROVE StraysFromTimeOut'
  BY <1>1, <1>2 DEF Open
<1>3. ASSUME NEW h \in Handles, NEW r \in Regions, LockCall(h, r) PROVE StraysFromTimeOut'
  BY <1>1, <1>3 DEF LockCall
<1>4. ASSUME NEW h \in Handles, RetryFlockUnlock(h) \/ UnlockFlock(h)
      PROVE  StraysFromTimeOut'
  BY <1>1, <1>4 DEF RetryFlockUnlock, UnlockFlock, Goto, Leave
\* Inside lock() the claim goes from the call to the caller, or is given up.
<1>5. ASSUME NEW h \in Handles, FcntlLock(h) PROVE StraysFromTimeOut'
  BY <1>0, <1>5 DEF FcntlLock, Goto, Claimed
<1>6. ASSUME NEW h \in Handles, FlockLock(h) \/ TimeOut(h) PROVE StraysFromTimeOut'
  <2>1. want[h] \in Regions /\ fcntl' = fcntl BY <1>6 DEF FlockLock, TimeOut
  <2> SUFFICES ASSUME NEW r \in Regions, fcntl[r] # NoOne
               PROVE  Claimed(r)' \/ r \in left'
    BY <2>1
  <2>2. \A g \in Handles \ {h} :
          holds'[g] = holds[g] /\ want'[g] = want[g] /\ pc'[g] = pc[g]
    BY <1>6 DEF FlockLock, TimeOut, Goto, Leave
  <2>3. CASE r = want[h] /\ fcntl[r] = procOf[h]
    BY <1>0, <1>6, <2>1, <2>3 DEF FlockLock, TimeOut, Goto, Leave, Unclaimed, Claimed
  <2>4. CASE r = want[h] /\ fcntl[r] # procOf[h]
    <3>1. r \in left => r \in left' BY <1>6, <2>4 DEF FlockLock, TimeOut, Unclaimed
    <3> QED BY <1>0, <2>1, <2>2, <2>4, <3>1, ClaimKept
  <2>5. CASE r # want[h]
    <3>1. r \in left => r \in left' BY <1>6, <2>5 DEF FlockLock, TimeOut, Unclaimed
    <3>2. r \in holds[h] => r \in holds'[h] BY <1>6 DEF FlockLock, TimeOut
    <3> QED BY <1>0, <2>1, <2>2, <2>5, <3>1, <3>2 DEF Claimed
  <2> QED BY <2>3, <2>4, <2>5
\* unlock(): what the caller gives up is the lock of its own process.
<1>7. ASSUME NEW h \in Handles, NEW r \in Regions,
             UnlockFcntl(h, r) \/ (RetryFcntlUnlock(h) /\ r = want[h])
      PROVE  StraysFromTimeOut'
  <2>1. /\ fcntl' = AfterFcntlUnlock(h, r) /\ left' = StillLeft
        /\ holds' = [holds EXCEPT ![h] = @ \ {r}]
        /\ pc[h] = "idle" \/ want[h] = r
        /\ \A g \in Handles \ {h} : want'[g] = want[g] /\ pc'[g] = pc[g]
    BY <1>7 DEF UnlockFcntl, RetryFcntlUnlock, Goto
  <2> SUFFICES ASSUME NEW s \in Regions, fcntl'[s] # NoOne
               PROVE  Claimed(s)' \/ s \in left'
    OBVIOUS
  <2>2. fcntl'[s] = fcntl[s] /\ (s \in left => s \in left')
    BY <2>1 DEF AfterFcntlUnlock, StillLeft
  <2>3. CASE s = r
    <3>1. procOf[h] # fcntl[s] BY <2>1, <2>3 DEF AfterFcntlUnlock
    <3> QED BY <1>0, <2>1, <2>2, <3>1, ClaimKept
  <2>4. CASE s # r
    <3>1. /\ \A g \in Handles : s \in holds[g] => s \in holds'[g]
          /\ ~(want[h] = s /\ pc[h] \in {"flock", "failed"})
      BY <2>1, <2>4
    <3> QED BY <1>0, <2>1, <2>2, <3>1 DEF Claimed
  <2> QED BY <2>3, <2>4
\* Closing: a lock that stays belongs to another process.
<1>8. ASSUME NEW hs \in SUBSET Handles, Released(hs), Reset(hs) PROVE StraysFromTimeOut'
  <2> SUFFICES ASSUME NEW r \in Regions, fcntl'[r] # NoOne
               PROVE  Claimed(r)' \/ r \in left'
    OBVIOUS
  <2>1. /\ fcntl'[r] = fcntl[r] /\ \A h \in hs : procOf[h] # fcntl[r]
        /\ r \in left => r \in left'
    BY <1>8 DEF Released, StillLeft
  <2> QED BY <1>0, <1>8, <2>1 DEF Reset, Claimed
<1>9. ASSUME NEW h \in Handles, Close(h) PROVE StraysFromTimeOut'
  BY <1>8, <1>9 DEF Close
<1>10. ASSUME NEW p \in Procs, Crash(p) PROVE StraysFromTimeOut'
  BY <1>8, <1>10 DEF Crash
<1>11. CASE UNCHANGED vars BY <1>1, <1>11 DEF vars, setting
<1>12. ASSUME NEW h \in Handles, RetryFcntlUnlock(h) PROVE StraysFromTimeOut'
  <2>1. want[h] \in Regions BY <1>12 DEF RetryFcntlUnlock
  <2> QED BY <1>7, <1>12, <2>1
<1> QED
  BY <1>2, <1>3, <1>4, <1>5, <1>6, <1>7, <1>9, <1>10, <1>11, <1>12 DEF Next

\* Any number of processes and threads: a process keeps a region from the others only for
\* a thread that holds it or asks for it, or after a lock() that timed out on the flock,
\* whatever its threads take from one another by retrying, unlocking and closing.
THEOREM StraysExplained == Spec => []StraysFromTimeOut
<1>1. Init => StraysFromTimeOut BY DEF Init, StraysFromTimeOut
<1>2. TypeInv /\ StraysFromTimeOut /\ [Next]_vars => StraysFromTimeOut' BY StrayStep
<1> QED BY <1>1, <1>2, TypeInit, TypeStep, PTL DEF Spec
=============================================================================
