--------------------------- MODULE SmbLib_proofs ----------------------------
(* Two functions of smblib.c.  smb_getmsgidx(): what it guarantees for     *)
(* index files of any length.  smb_stack(): the stack's index and slots    *)
(* stay in their bounds for any number of threads; one thread gets its own *)
(* bases back and loses none.                                              *)
EXTENDS SmbGetMsgIdx, SmbStack, TLAPS

---------------------------------------------------------------------------
(* The search *)

\* The index files a state holds are ascending sequences of positive numbers.
LEMMA IndexFileFacts ==
  ASSUME NEW s \in IndexFiles
  PROVE  /\ s \in Seq(Nat \ {0})
         /\ Len(s) \in Nat
         /\ \A i \in 1..Len(s) : s[i] \in Nat \ {0}
         /\ \A i, j \in 1..Len(s) : i < j => s[i] < s[j]
BY IndexFilesAssumption DEF Ascending

LEMMA InitInv == Init => LoopInv
<1> SUFFICES ASSUME Init PROVE LoopInv OBVIOUS
<1>1. <<>> \in IndexFiles BY IndexFilesAssumption
<1>2. TypeOK BY <1>1 DEF Init, TypeOK, Returns
<1>3. Bounds /\ Narrowed /\ Counted /\ Unrewritten
  BY DEF Init, Bounds, Narrowed, Counted, Unrewritten
<1> QED BY <1>2, <1>3 DEF LoopInv

LEMMA BeginInv ==
  ASSUME LoopInv, NEW n \in Targets, NEW lk \in BOOLEAN, BeginSearch(n, lk)
  PROVE  LoopInv'
<1> USE DEF BeginSearch, file, Return
<1>1. n \in Nat BY TargetsAssumption
<1>2. Len(sid) \in Nat BY IndexFileFacts DEF LoopInv, TypeOK
<1>3. TypeOK' BY <1>1, <1>2 DEF LoopInv, TypeOK, Returns
<1>4. sid # <<>> => Len(sid) > 0
  BY IndexFileFacts DEF LoopInv, TypeOK
<1>5. Bounds' BY <1>2, <1>4 DEF Bounds
<1>6. Narrowed' BY <1>2, <1>4 DEF Narrowed
<1>7. Counted' /\ Unrewritten' BY <1>2 DEF Counted, Unrewritten
<1> QED BY <1>3, <1>5, <1>6, <1>7 DEF LoopInv

LEMMA ByOffsetInv ==
  ASSUME LoopInv, NEW o \in Int, NEW lk \in BOOLEAN, ReadByOffset(o, lk)
  PROVE  LoopInv'
<1> USE DEF ReadByOffset, file, Return
<1>1. Len(sid) \in Nat /\ \A i \in 1..Len(sid) : sid[i] \in Nat
  BY IndexFileFacts DEF LoopInv, TypeOK
<1> DEFINE b == IF o < 0 THEN Len(sid) + o ELSE o
<1>2. /\ total' = Len(sid) /\ locked' = lk /\ purged' = purging
      /\ bot' = 0 /\ top' = 0 /\ l' = 0 /\ pc' = "idle"
      /\ UNCHANGED <<sid, kept, purging>>
  OBVIOUS
<1>3. number' \in Nat /\ offset' \in Nat /\ ret' \in Returns
  <2>1. CASE number' = 0 /\ offset' = 0 /\ ret' \in Returns BY <2>1
  <2>2. CASE /\ b \in 0..(Len(sid) - 1) /\ ret' = "SUCCESS"
             /\ number' = sid[b + 1] /\ offset' = b
    BY <2>2, <1>1 DEF Returns
  <2> QED BY <2>1, <2>2 DEF Returns
<1>4. TypeOK' BY <1>1, <1>2, <1>3 DEF LoopInv, TypeOK
<1>5. Bounds' /\ Narrowed' /\ Counted' /\ Unrewritten'
  BY <1>1, <1>2 DEF Bounds, Narrowed, Counted, Unrewritten
<1> QED BY <1>4, <1>5 DEF LoopInv

LEMMA ProbeInv ==
  ASSUME LoopInv, Probe
  PROVE  LoopInv'
<1> USE DEF LoopInv, file
<1>1. CASE ProbePastEnd
  BY <1>1 DEF ProbePastEnd, Return, TypeOK, Bounds, Narrowed, Counted, Unrewritten, Returns
<1>2. CASE ProbeReadError
  BY <1>2 DEF ProbeReadError, Return, TypeOK, Bounds, Narrowed, Counted, Unrewritten, Returns
<1>3. CASE ProbeNotFound
  BY <1>3 DEF ProbeNotFound, Reading, Return, TypeOK, Bounds, Narrowed, Counted, Unrewritten,
              Returns
<1>4. CASE ProbeLower
  <2> USE <1>4 DEF ProbeLower, Reading
  <2>1. Bounds' BY DEF Bounds, TypeOK
  <2>2. TypeOK' BY <2>1 DEF TypeOK, Bounds
  <2>3. Narrowed' BY DEF Narrowed, Bounds, TypeOK
  <2> QED BY <2>1, <2>2, <2>3 DEF Counted, Unrewritten
<1>5. CASE ProbeHigher
  <2> USE <1>5 DEF ProbeHigher, Reading
  <2>1. Bounds' BY DEF Bounds, TypeOK
  <2>2. TypeOK' BY <2>1 DEF TypeOK, Bounds
  <2>3. Narrowed' BY DEF Narrowed, Bounds, TypeOK
  <2> QED BY <2>1, <2>2, <2>3 DEF Counted, Unrewritten
<1>6. CASE ProbeFound
  BY <1>6 DEF ProbeFound, Return, TypeOK, Bounds, Narrowed, Counted, Unrewritten, Returns
<1> QED BY <1>1, <1>2, <1>3, <1>4, <1>5, <1>6 DEF Probe

LEMMA OthersInv ==
  ASSUME LoopInv, AppendRecord \/ PurgeTruncate \/ PurgeRewrite
  PROVE  LoopInv'
<1> USE DEF LoopInv, call
<1>1. CASE AppendRecord
  <2>1. PICK s \in IndexFiles :
          /\ Len(s) = Len(sid) + 1
          /\ \A i \in DOMAIN sid : s[i] = sid[i]
          /\ sid' = s
    BY <1>1 DEF AppendRecord
  <2>2. TypeOK' BY <1>1, <2>1 DEF AppendRecord, TypeOK
  <2>3. sid \in Seq(Nat \ {0}) /\ Len(sid) \in Nat /\ DOMAIN sid = 1..Len(sid)
    BY IndexFileFacts DEF TypeOK
  <2>4. Len(sid') = Len(sid) + 1 /\ \A i \in 1..Len(sid) : sid'[i] = sid[i]
    BY <2>1, <2>3
  <2>5. Counted' BY <1>1, <2>3, <2>4 DEF AppendRecord, Counted, TypeOK
  <2>6. Narrowed'
    <3> SUFFICES ASSUME pc = "probe", ~purged PROVE Narrowed'
      BY <1>1 DEF AppendRecord, Narrowed
    <3>1. /\ total \in Nat /\ bot \in Nat /\ top \in Nat /\ l \in Nat
          /\ total <= Len(sid) /\ bot < top /\ top <= total
      BY DEF TypeOK, Bounds, Counted
    <3>2. sid'[bot + 1] = sid[bot + 1] BY <2>3, <2>4, <3>1
    <3>3. top < total => sid'[top + 1] = sid[top + 1] BY <2>3, <2>4, <3>1
    <3> QED BY <1>1, <3>2, <3>3 DEF AppendRecord, Narrowed
  <2> QED BY <1>1, <2>2, <2>5, <2>6 DEF AppendRecord, Bounds, Unrewritten
<1>2. CASE PurgeTruncate
  BY <1>2, IndexFilesAssumption
  DEF PurgeTruncate, TypeOK, Bounds, Narrowed, Counted, Unrewritten
<1>3. CASE PurgeRewrite
  BY <1>3, IndexFilesAssumption
  DEF PurgeRewrite, TypeOK, Bounds, Narrowed, Counted, Unrewritten
<1> QED BY <1>1, <1>2, <1>3

LEMMA StepInv == LoopInv /\ [Next]_vars => LoopInv'
<1> SUFFICES ASSUME LoopInv, [Next]_vars PROVE LoopInv' OBVIOUS
<1>1. CASE \E n \in Targets, lk \in BOOLEAN : BeginSearch(n, lk)
  BY <1>1, BeginInv
<1>2. CASE \E n \in Targets, lk \in BOOLEAN : ReadByOffset(-n, lk) \/ ReadByOffset(n - 1, lk)
  <2>1. \A n \in Targets : -n \in Int /\ n - 1 \in Int BY TargetsAssumption
  <2> QED BY <1>2, <2>1, ByOffsetInv
<1>3. CASE Probe BY <1>3, ProbeInv
<1>4. CASE AppendRecord \/ PurgeTruncate \/ PurgeRewrite BY <1>4, OthersInv
<1>5. CASE UNCHANGED vars
  BY <1>5 DEF vars, file, call, LoopInv, TypeOK, Bounds, Narrowed, Counted, Unrewritten
<1> QED BY <1>1, <1>2, <1>3, <1>4, <1>5 DEF Next

---------------------------------------------------------------------------
\* In every reachable state of the search, for index files of any length and
\* any interleaving of appends and purges, the types hold, the interval is a
\* proper one, and everything outside it has been ruled out.
THEOREM LoopInvariant == Spec => []LoopInv
BY InitInv, StepInv, PTL DEF Spec

\* The types of the search's state.
THEOREM TypeCorrect == Spec => []TypeOK
<1>1. LoopInv => TypeOK BY DEF LoopInv
<1> QED BY <1>1, LoopInvariant, PTL

\* A search that has ruled out both sides of its last probe has ruled out the
\* whole file.
LEMMA NothingLeft ==
  ASSUME LoopInv, pc = "probe", ~purged, ProbePastEnd \/ ProbeNotFound,
         NEW i \in 1..total, i \in DOMAIN sid
  PROVE  sid[i] # number
<1>1. /\ total \in Nat /\ bot \in Nat /\ top \in Nat /\ l \in Nat /\ number \in Nat
      /\ bot < top /\ top <= total /\ total <= Len(sid)
      /\ bot <= l /\ l <= top
      /\ bot < top - 1 => bot < l /\ l < top
  BY DEF LoopInv, TypeOK, Bounds, Counted
<1>2. /\ Len(sid) \in Nat /\ DOMAIN sid = 1..Len(sid)
      /\ \A j \in 1..Len(sid) : sid[j] \in Nat
      /\ \A j, k \in 1..Len(sid) : j < k => sid[j] < sid[k]
  BY IndexFileFacts DEF LoopInv, TypeOK
<1>3. /\ bot > 0 => sid[bot + 1] < number
      /\ top < total => sid[top + 1] > number
      /\ l = top => sid[bot + 1] < number
  BY DEF LoopInv, Narrowed
<1>4. bot = top - 1 /\ sid[bot + 1] # number
  <2>1. CASE ProbePastEnd
    <3>1. l = top /\ bot = top - 1 BY <1>1, <2>1 DEF ProbePastEnd
    <3> QED BY <1>1, <1>2, <1>3, <3>1
  <2>2. CASE ProbeNotFound
    <3>1. bot = top - 1 /\ sid[l + 1] # number
      BY <2>2 DEF ProbeNotFound, Reading
    <3>2. CASE l = bot BY <3>1, <3>2
    <3>3. CASE l = top BY <1>1, <1>2, <1>3, <3>1, <3>3
    <3> QED BY <1>1, <3>1, <3>2, <3>3
  <2> QED BY <2>1, <2>2
<1>5. CASE i < bot + 1
  <2>1. bot > 0 /\ sid[i] < sid[bot + 1] BY <1>1, <1>2, <1>5
  <2> QED BY <1>1, <1>2, <1>3, <2>1
<1>6. CASE i = bot + 1 BY <1>4, <1>6
<1>7. CASE i > bot + 1
  <2>1. top < total /\ (i = top + 1 \/ sid[top + 1] < sid[i])
    BY <1>1, <1>2, <1>4, <1>7
  <2>2. sid[top + 1] > number /\ sid[top + 1] \in Nat /\ sid[i] \in Nat
    BY <1>1, <1>2, <1>3, <2>1
  <2> QED BY <1>1, <2>1, <2>2
<1> QED BY <1>1, <1>5, <1>6, <1>7

\* smb_getmsgidx() says "not found" only of a message that was not in the
\* index when it was called, however many sessions append while it searches.
THEOREM NotFoundCorrect == Spec => []NotFoundIsRight
<1>1. Init => NotFoundIsRight BY DEF Init, NotFoundIsRight
<1>2. LoopInv /\ NotFoundIsRight /\ [Next]_vars => NotFoundIsRight'
  <2> SUFFICES ASSUME LoopInv, NotFoundIsRight, [Next]_vars,
                      (ret = "NOT_FOUND" /\ ~purged)'
               PROVE  (\A i \in 1..total : i \in DOMAIN sid => sid[i] # number)'
    BY DEF NotFoundIsRight
  <2>1. CASE \E n \in Targets, lk \in BOOLEAN : BeginSearch(n, lk)
    BY <2>1 DEF BeginSearch, Return
  <2>2. CASE \E n \in Targets, lk \in BOOLEAN : ReadByOffset(-n, lk) \/ ReadByOffset(n - 1, lk)
    BY <2>2 DEF ReadByOffset, Return
  <2>3. CASE ProbePastEnd \/ ProbeNotFound
    <3>1. /\ UNCHANGED <<sid, total, number, purged>>
          /\ pc = "probe" /\ ~purged
      BY <2>3 DEF ProbePastEnd, ProbeNotFound, Reading, file
    <3> QED BY <2>3, <3>1, NothingLeft
  <2>4. CASE ProbeReadError \/ ProbeFound
    BY <2>4 DEF ProbeReadError, ProbeFound, Return
  <2>5. CASE ProbeLower \/ ProbeHigher
    BY <2>5 DEF ProbeLower, ProbeHigher, NotFoundIsRight, file
  <2>6. CASE AppendRecord
    <3>1. PICK s \in IndexFiles :
            /\ Len(s) = Len(sid) + 1
            /\ \A i \in DOMAIN sid : s[i] = sid[i]
            /\ sid' = s
      BY <2>6 DEF AppendRecord
    <3>2. /\ Len(sid) \in Nat /\ DOMAIN sid = 1..Len(sid)
          /\ total \in Nat /\ total <= Len(sid)
      BY <2>6, IndexFileFacts DEF AppendRecord, LoopInv, TypeOK, Counted
    <3> QED BY <2>6, <3>1, <3>2 DEF AppendRecord, NotFoundIsRight, call
  <2>7. CASE PurgeTruncate \/ PurgeRewrite
    BY <2>7 DEF PurgeTruncate, PurgeRewrite
  <2>8. CASE UNCHANGED vars
    BY <2>8 DEF vars, file, call, NotFoundIsRight
  <2> QED BY <2>1, <2>2, <2>3, <2>4, <2>5, <2>6, <2>7, <2>8 DEF Next, Probe
<1> QED BY <1>1, <1>2, LoopInvariant, PTL DEF Spec

\* Every turn of the loop that does not return narrows the interval, whatever
\* the other sessions do to the file between two probes: the search ends.
THEOREM SearchAlwaysShrinks == Spec => SearchShrinks
<1>1. LoopInv /\ [Next]_vars =>
        [pc = "probe" /\ pc' = "probe" /\ <<bot, top, l>>' # <<bot, top, l>>
           => top' - bot' < top - bot]_vars
  <2> SUFFICES ASSUME LoopInv, Next, pc = "probe", pc' = "probe",
                      <<bot, top, l>>' # <<bot, top, l>>
               PROVE  top' - bot' < top - bot
    OBVIOUS
  <2>1. CASE ProbeLower \/ ProbeHigher
    BY <2>1 DEF ProbeLower, ProbeHigher, Reading, LoopInv, TypeOK, Bounds
  <2>2. CASE Next /\ ~(ProbeLower \/ ProbeHigher)
    BY <2>2 DEF Next, Probe, BeginSearch, ReadByOffset, ProbePastEnd, ProbeReadError,
       ProbeNotFound, ProbeFound, AppendRecord, PurgeTruncate, PurgeRewrite, call
  <2> QED BY <2>1, <2>2
<1> QED BY <1>1, LoopInvariant, PTL DEF Spec, SearchShrinks

\* The offset smb_getmsgidx() returns stays the message's own while nobody rewrites the
\* index, however many records are appended: smb_putmsgidx() may write there.
THEOREM OffsetCorrect == Spec => []OffsetAddressesMessage
<1>1. Init => OffsetAddressesMessage BY DEF Init, OffsetAddressesMessage
<1>2. LoopInv /\ OffsetAddressesMessage /\ [Next]_vars => OffsetAddressesMessage'
  <2> SUFFICES ASSUME LoopInv, OffsetAddressesMessage, [Next]_vars,
                      (ret = "SUCCESS" /\ ~purged)'
               PROVE  (offset + 1 \in DOMAIN sid /\ sid[offset + 1] = number)'
    BY DEF OffsetAddressesMessage
  <2>0. Len(sid) \in Nat /\ DOMAIN sid = 1..Len(sid)
    BY IndexFileFacts DEF LoopInv, TypeOK
  <2>1. CASE \E n \in Targets, lk \in BOOLEAN : BeginSearch(n, lk)
    BY <2>1 DEF BeginSearch, Return
  <2>2. CASE \E n \in Targets, lk \in BOOLEAN : ReadByOffset(-n, lk) \/ ReadByOffset(n - 1, lk)
    <3>1. PICK o \in Int, lk \in BOOLEAN : ReadByOffset(o, lk)
      <4>1. \A n \in Targets : -n \in Int /\ n - 1 \in Int BY TargetsAssumption
      <4> QED BY <2>2, <4>1
    <3> DEFINE b == IF o < 0 THEN Len(sid) + o ELSE o
    <3>2. /\ b \in 0..(Len(sid) - 1) /\ number' = sid[b + 1] /\ offset' = b
          /\ sid' = sid
      BY <3>1 DEF ReadByOffset, Return, file
    <3> HIDE DEF b
    <3> QED BY <2>0, <3>2
  <2>3. CASE ProbePastEnd \/ ProbeReadError \/ ProbeNotFound
    BY <2>3 DEF ProbePastEnd, ProbeReadError, ProbeNotFound, Return
  <2>4. CASE ProbeFound
    <3>1. sid[l + 1] = number /\ l < Len(sid) /\ offset' = l
          /\ UNCHANGED <<sid, number>> /\ l \in Nat
      BY <2>4 DEF ProbeFound, Reading, file, LoopInv, TypeOK
    <3> QED BY <2>0, <3>1
  <2>5. CASE ProbeLower \/ ProbeHigher
    BY <2>5 DEF ProbeLower, ProbeHigher, OffsetAddressesMessage, file
  <2>6. CASE AppendRecord
    <3>1. PICK s \in IndexFiles :
            /\ Len(s) = Len(sid) + 1
            /\ \A i \in DOMAIN sid : s[i] = sid[i]
            /\ sid' = s
      BY <2>6 DEF AppendRecord
    <3>2. DOMAIN s = 1..Len(s) BY IndexFileFacts
    <3>3. offset + 1 \in DOMAIN sid /\ sid[offset + 1] = number
          /\ UNCHANGED <<offset, number>>
      BY <2>6 DEF AppendRecord, OffsetAddressesMessage, call
    <3> QED BY <2>0, <3>1, <3>2, <3>3
  <2>7. CASE PurgeTruncate \/ PurgeRewrite
    BY <2>7 DEF PurgeTruncate, PurgeRewrite
  <2>8. CASE UNCHANGED vars
    BY <2>8 DEF vars, file, call, OffsetAddressesMessage
  <2> QED BY <2>1, <2>2, <2>3, <2>4, <2>5, <2>6, <2>7, <2>8 DEF Next, Probe
<1> QED BY <1>1, <1>2, LoopInvariant, PTL DEF Spec

---------------------------------------------------------------------------
(* The stack *)

\* A call that copies has found room, and a session that ends was begun.
InCall ==
  \A t \in Threads :
    /\ place[t] \in {"copy_in", "count_in", "copy_out"} => idx[t] \in Slots
    /\ place[t] # "work" => session[t] # <<>>

TypeInv == StackTypeOK /\ InCall

LEMMA TypeInit == StackInit => TypeInv
BY SmbStackAssumption DEF StackInit, TypeInv, StackTypeOK, InCall, At, Slots

Bases == Handles \union {None}

LEMMA Prefix ==
  ASSUME NEW H, NEW q \in Seq(H), NEW k \in 0..Len(q)
  PROVE  /\ SubSeq(q, 1, k) \in Seq(H) /\ Len(SubSeq(q, 1, k)) = k
         /\ \A i \in 1..k : SubSeq(q, 1, k)[i] = q[i]
OBVIOUS

\* Beginning a session.
LEMMA Begun ==
  ASSUME NEW q \in Seq(Bases), NEW h \in Bases
  PROVE  /\ Append(q, h) \in Seq(Bases) /\ Append(q, h) # <<>>
         /\ Len(Append(q, h)) = Len(q) + 1 /\ Append(q, h)[Len(q) + 1] = h
         /\ \A i \in 1..Len(q) : Append(q, h)[i] = q[i]
<1>1. Len(Append(q, h)) = Len(q) + 1 /\ Len(q) \in Nat OBVIOUS
<1>2. Append(q, h) # <<>> BY <1>1
<1> QED BY <1>1, <1>2

\* Ending it.
LEMMA Ended ==
  ASSUME NEW q \in Seq(Bases), q # <<>>
  PROVE  /\ Len(q) \in Nat \ {0} /\ Front(q) \in Seq(Bases) /\ Len(Front(q)) = Len(q) - 1
         /\ \A i \in 1..(Len(q) - 1) : Front(q)[i] = q[i]
         /\ Last(q) = q[Len(q)]
<1>1. Len(q) \in Nat \ {0} OBVIOUS
<1> DEFINE k == Len(q) - 1
<1>2. k \in 0..Len(q) BY <1>1
<1>3. Front(q) = SubSeq(q, 1, k) BY DEF Front
<1> HIDE DEF k
<1>4. /\ Front(q) \in Seq(Bases) /\ Len(Front(q)) = k
      /\ \A i \in 1..k : Front(q)[i] = q[i]
  BY <1>2, <1>3, Prefix
<1> QED BY <1>1, <1>4 DEF k, Last

LEMMA TypeStep == TypeInv /\ [StackNext]_stack_vars => TypeInv'
<1> SUFFICES ASSUME TypeInv, [StackNext]_stack_vars PROVE TypeInv' OBVIOUS
<1> USE SmbStackAssumption DEF TypeInv, StackTypeOK, InCall, At, GoTo, Slots
<1>1. ASSUME NEW t \in Threads, PushClosed(t) PROVE TypeInv'
  <2>1. Append(session[t], None) \in Seq(Bases) /\ Append(session[t], None) # <<>>
    BY Begun, session[t] \in Seq(Bases), None \in Bases DEF Bases
  <2> QED BY <1>1, <2>1 DEF PushClosed, Bases
<1>2. ASSUME NEW t \in Threads, PushBegin(t) PROVE TypeInv'
  <2>1. Append(session[t], smb[t]) \in Seq(Bases) /\ Append(session[t], smb[t]) # <<>>
    BY Begun, session[t] \in Seq(Bases), smb[t] \in Bases DEF Bases
  <2> QED BY <1>2, <2>1 DEF PushBegin, Bases
<1>3. ASSUME NEW t \in Threads, PushCopy(t) PROVE TypeInv'
  BY <1>3 DEF PushCopy
<1>4. ASSUME NEW t \in Threads, PushCount(t) PROVE TypeInv'
  BY <1>4 DEF PushCount
<1>5. ASSUME NEW t \in Threads, NEW h \in Handles, Open(t, h) \/ OpenFailsPartly(t, h)
      PROVE  TypeInv'
  <2>1. CASE Open(t, h) BY <2>1 DEF Open
  <2>2. CASE OpenFailsPartly(t, h) BY <2>2 DEF OpenFailsPartly
  <2> QED BY <1>5, <2>1, <2>2
<1>6. ASSUME NEW t \in Threads, OpenFails(t) \/ Close(t) PROVE TypeInv'
  BY <1>6 DEF OpenFails, Close
<1>7. ASSUME NEW t \in Threads, PopNothing(t) PROVE TypeInv'
  <2>1. session[t] \in Seq(Bases) /\ session[t] # <<>> BY <1>7 DEF PopNothing, Bases
  <2>2. Front(session[t]) \in Seq(Bases) BY <2>1, Ended
  <2> QED BY <1>7, <2>2 DEF PopNothing, Bases
<1>8. ASSUME NEW t \in Threads, PopBegin(t) PROVE TypeInv'
  BY <1>8 DEF PopBegin
<1>9. ASSUME NEW t \in Threads, PopCopy(t) PROVE TypeInv'
  <2>1. session[t] \in Seq(Bases) /\ session[t] # <<>> BY <1>9 DEF PopCopy, Bases
  <2>2. Front(session[t]) \in Seq(Bases) BY <2>1, Ended
  <2>3. stack[idx[t]] \in Handles \union {None} BY <1>9 DEF PopCopy
  <2> QED BY <1>9, <2>2, <2>3 DEF PopCopy, Bases
<1>10. CASE UNCHANGED stack_vars BY <1>10 DEF stack_vars
<1> QED BY <1>1, <1>2, <1>3, <1>4, <1>5, <1>6, <1>7, <1>8, <1>9, <1>10 DEF StackNext

\* The stack's index and slots stay in their bounds, for any number of threads that
\* push and pop without a lock.
THEOREM StackTypeCorrect == StackSpec => []StackTypeOK
<1>1. StackSpec => []TypeInv BY TypeInit, TypeStep, PTL DEF StackSpec
<1> QED BY <1>1, PTL DEF TypeInv

---------------------------------------------------------------------------
(* One thread *)

OneThread == \A a, b \in Threads : a = b

Copying(t) == place[t] \in {"copy_in", "count_in", "copy_out"}

\* The bases that the sessions but the first have to come back to are those on the
\* stack, except the one that is being copied.
Saved(t) ==
  /\ session[t] # <<>> => session[t][1] = None
  /\ \A i \in 2..Len(session[t]) : session[t][i] \in open \ partial
  /\ \A i, j \in 2..Len(session[t]) : session[t][i] = session[t][j] => i = j
  /\ Copying(t) => Len(session[t]) > 1 /\ idx[t] = stack_idx
  /\ stack_idx = IF session[t] = <<>> THEN 0
                 ELSE IF Copying(t) THEN Len(session[t]) - 2 ELSE Len(session[t]) - 1
  /\ \A i \in 0..(stack_idx - 1) : stack[i] = session[t][i + 2]

\* Where the thread's base is, and that no session saved it.
Current(t) ==
  /\ place[t] = "work" => (OpenBase(t) = None <=> session[t] = <<>>)
  /\ place[t] = "work" /\ OpenBase(t) # None =>
       smb[t] \in open /\ \A i \in 2..Len(session[t]) : session[t][i] # smb[t]
  /\ place[t] \in {"copy_in", "count_in"} => smb[t] = session[t][Len(session[t])]
  /\ place[t] \in {"count_in", "copy_out"} => stack[idx[t]] = session[t][Len(session[t])]
  /\ place[t] = "opening" =>
       OpenBase(t) = None \/ (stack_idx > 0 /\ smb[t] = stack[stack_idx - 1])
  /\ place[t] \in {"popping", "copy_out"} => OpenBase(t) = None

StackInv == TypeInv /\ NoLostBase /\ \A t \in Threads : Saved(t) /\ Current(t)

LEMMA StackInvInit == StackInit => StackInv
<1> SUFFICES ASSUME StackInit PROVE StackInv OBVIOUS
<1>1. TypeInv BY TypeInit
<1>2. ASSUME NEW t \in Threads PROVE Saved(t) /\ Current(t)
  <2>1. /\ session[t] = <<>> /\ Len(<<>>) = 0 /\ place[t] = "work"
        /\ stack_idx = 0 /\ smb[t] = None
    BY DEF StackInit
  <2> QED BY <2>1 DEF Saved, Current, Copying, OpenBase
<1>3. NoLostBase BY DEF StackInit, NoLostBase
<1> QED BY <1>1, <1>2, <1>3 DEF StackInv

\* What is the same for every step of the only thread.
LEMMA OneStep ==
  ASSUME OneThread, NEW t \in Threads, TypeInv', NoLostBase', Saved(t)', Current(t)'
  PROVE  StackInv'
BY DEF OneThread, StackInv

LEMMA PushStep ==
  ASSUME OneThread, StackInv, TypeInv', NEW t \in Threads,
         PushClosed(t) \/ PushBegin(t)
  PROVE  StackInv'
<1> USE SmbStackAssumption DEF At, GoTo
<1>1. /\ session[t] \in Seq(Bases) /\ OpenBase(t) \in Bases /\ stack_idx \in Nat
      /\ place[t] = "work" /\ Saved(t) /\ Current(t)
      /\ session'[t] = Append(session[t], OpenBase(t))
      /\ OpenBase(t) # None => smb[t] = OpenBase(t) /\ smb[t] \in Handles \ partial
      /\ UNCHANGED <<stack, stack_idx, smb, open, partial>>
  BY DEF StackInv, TypeInv, StackTypeOK, PushClosed, PushBegin, Bases, OpenBase
<1>2. /\ session'[t] # <<>> /\ Len(session'[t]) = Len(session[t]) + 1
      /\ session'[t][Len(session[t]) + 1] = OpenBase(t)
      /\ \A i \in 1..Len(session[t]) : session'[t][i] = session[t][i]
      /\ Len(session[t]) \in Nat /\ (Len(session[t]) = 0 <=> session[t] = <<>>)
  BY <1>1, Begun
<1>3. NoLostBase'
  BY <1>1 DEF StackInv, NoLostBase, TypeInv, StackTypeOK, PushClosed, PushBegin
<1>4. CASE OpenBase(t) = None
  <2>1. place'[t] = "opening" /\ session[t] = <<>> /\ stack_idx = 0
    BY <1>1, <1>4 DEF PushClosed, PushBegin, StackInv, TypeInv, StackTypeOK, Current, Saved
  <2>2. Saved(t)' BY <1>1, <1>2, <1>4, <2>1 DEF Saved, Copying
  <2>3. OpenBase(t)' = None BY <1>1, <1>4 DEF OpenBase
  <2>4. Current(t)' BY <2>1, <2>3 DEF Current
  <2> QED BY <1>3, <2>2, <2>4, OneStep
<1>5. CASE OpenBase(t) # None
  <2>1. /\ place'[t] = "copy_in" /\ idx'[t] = stack_idx /\ session[t] # <<>>
        /\ smb[t] \in open \ partial
        /\ \A i \in 2..Len(session[t]) : session[t][i] # smb[t]
    BY <1>1, <1>5 DEF PushClosed, PushBegin, StackInv, TypeInv, StackTypeOK, Current, Bases
  <2>2. stack_idx = Len(session[t]) - 1 BY <1>1, <2>1 DEF Saved, Copying
  <2>3. Saved(t)'
    <3>1. /\ \A i \in 2..Len(session'[t]) : session'[t][i] \in open \ partial
          /\ \A i, j \in 2..Len(session'[t]) : session'[t][i] = session'[t][j] => i = j
      <4>1. \A i \in 2..Len(session'[t]) :
              \/ i = Len(session[t]) + 1 /\ session'[t][i] = smb[t]
              \/ i \in 2..Len(session[t]) /\ session'[t][i] = session[t][i]
        BY <1>1, <1>2, <1>5
      <4>2. /\ \A i \in 2..Len(session[t]) : session[t][i] \in open \ partial
            /\ \A i, j \in 2..Len(session[t]) : session[t][i] = session[t][j] => i = j
        BY <1>1 DEF Saved
      <4> QED BY <1>1, <2>1, <4>1, <4>2
    <3>2. session'[t][1] = None /\ \A i \in 0..(stack_idx - 1) : stack[i] = session'[t][i + 2]
      BY <1>1, <1>2, <2>1, <2>2 DEF Saved
    <3> QED BY <1>1, <1>2, <2>1, <2>2, <3>1, <3>2 DEF Saved, Copying
  <2>4. Current(t)' BY <1>1, <1>2, <1>5, <2>1 DEF Current
  <2> QED BY <1>3, <2>3, <2>4, OneStep
<1> QED BY <1>4, <1>5

LEMMA CopyStep ==
  ASSUME OneThread, StackInv, TypeInv', NEW t \in Threads,
         PushCopy(t) \/ PushCount(t)
  PROVE  StackInv'
<1> USE SmbStackAssumption DEF At, GoTo
<1>1. /\ session[t] \in Seq(Bases)
      /\ stack_idx \in Nat /\ idx[t] = stack_idx /\ idx[t] \in Slots
      /\ Copying(t) /\ Saved(t) /\ Current(t)
      /\ UNCHANGED <<smb, open, partial, session, idx>>
  BY DEF StackInv, TypeInv, StackTypeOK, InCall, Saved, Copying, PushCopy, PushCount, Bases
<1>2. Len(session[t]) \in Nat /\ Len(session[t]) > 1 /\ stack_idx = Len(session[t]) - 2
  BY <1>1 DEF Saved
<1>3. CASE PushCopy(t)
  <2>1. /\ place[t] = "copy_in" /\ place'[t] = "count_in" /\ stack_idx' = stack_idx
        /\ stack'[idx[t]] = smb[t] /\ \A i \in 0..(stack_idx - 1) : stack'[i] = stack[i]
    BY <1>1, <1>3 DEF PushCopy, StackInv, TypeInv, StackTypeOK, Slots
  <2>2. Saved(t)' BY <1>1, <1>2, <2>1 DEF Saved, Copying
  <2>3. Current(t)' BY <1>1, <2>1 DEF Current
  <2>4. NoLostBase' BY <1>1, <2>1 DEF StackInv, NoLostBase, OneThread, At
  <2> QED BY <2>2, <2>3, <2>4, OneStep
<1>4. CASE PushCount(t)
  <2>1. /\ place[t] = "count_in" /\ place'[t] = "opening"
        /\ stack_idx' = stack_idx + 1 /\ stack' = stack
    BY <1>1, <1>4 DEF PushCount, StackInv, TypeInv, StackTypeOK
  <2>2. stack[stack_idx] = session[t][Len(session[t])] /\ smb[t] = stack[stack_idx]
    BY <1>1, <2>1 DEF Current
  <2>3. Saved(t)'
    <3>1. \A i \in 0..(stack_idx' - 1) : stack[i] = session[t][i + 2]
      <4>1. \A i \in 0..(stack_idx - 1) : stack[i] = session[t][i + 2] BY <1>1 DEF Saved
      <4>2. \A i \in 0..(stack_idx' - 1) : i \in 0..(stack_idx - 1) \/ i = stack_idx
        BY <1>1, <2>1
      <4> QED BY <1>2, <2>2, <4>1, <4>2
    <3>2. stack_idx' = Len(session[t]) - 1 BY <1>2, <2>1
    <3>3. ~Copying(t)' BY <2>1 DEF Copying
    <3>4. session[t] # <<>> BY <1>1, <1>2
    <3>5. /\ session'[t][1] = None
          /\ \A i \in 2..Len(session'[t]) : session'[t][i] \in open' \ partial'
          /\ \A i, j \in 2..Len(session'[t]) : session'[t][i] = session'[t][j] => i = j
      BY <1>1, <3>4 DEF Saved
    <3>6. \A i \in 0..(stack_idx' - 1) : stack'[i] = session'[t][i + 2]
      BY <1>1, <2>1, <3>1
    <3> QED BY <1>1, <3>2, <3>3, <3>4, <3>5, <3>6 DEF Saved
  <2>4. Current(t)' BY <1>1, <2>1, <2>2 DEF Current
  <2>5. NoLostBase' BY <1>1, <2>1 DEF StackInv, NoLostBase, OneThread, At
  <2> QED BY <2>3, <2>4, <2>5, OneStep
<1> QED BY <1>3, <1>4

\* What the thread had open before is saved, or its pointers are lost.
LEMMA SessionStep ==
  ASSUME OneThread, StackInv, TypeInv', NEW t \in Threads,
         \/ OpenFails(t) \/ Close(t)
         \/ \E h \in Handles : Open(t, h) \/ OpenFailsPartly(t, h)
  PROVE  StackInv'
<1> USE SmbStackAssumption DEF At, GoTo
<1>1. /\ session[t] \in Seq(Bases) /\ stack_idx \in Nat /\ session[t] # <<>> /\ ~Copying(t)
      /\ Saved(t) /\ Current(t) /\ UNCHANGED <<stack, stack_idx, session, idx>>
  BY DEF StackInv, TypeInv, StackTypeOK, InCall, Copying, OpenFails, OpenFailsPartly, Close,
     Open, Bases
<1>2. /\ place'[t] \in {"work", "popping"}
      /\ place'[t] = "work" => smb'[t] \in open' \ partial' /\ smb'[t] \notin open
      /\ place'[t] = "popping" => OpenBase(t)' = None
  BY DEF StackInv, TypeInv, StackTypeOK, OpenFails, OpenFailsPartly, Close, Open, OpenBase
<1>3. \A i \in 2..Len(session[t]) : session[t][i] \in open' \ partial'
  <2>1. \A i \in 2..Len(session[t]) : session[t][i] \in open \ partial BY <1>1 DEF Saved
  <2>2. CASE Close(t)
    <3>1. \A i \in 2..Len(session[t]) : session[t][i] # smb[t]
      <4>1. place[t] = "work" BY <2>2 DEF Close
      <4>2. CASE smb[t] \in partial BY <2>1, <4>2
      <4>3. CASE smb[t] \notin partial BY <1>1, <4>1, <4>3 DEF Current, OpenBase
      <4> QED BY <4>2, <4>3
    <3> QED BY <2>1, <2>2, <3>1 DEF Close
  <2>3. CASE ~Close(t) BY <2>1, <2>3 DEF OpenFails, OpenFailsPartly, Open
  <2> QED BY <2>2, <2>3
<1>4. Saved(t)' BY <1>1, <1>2, <1>3 DEF Saved, Copying
<1>5. Current(t)'
  <2>1. place'[t] = "work" =>
          /\ OpenBase(t)' # None
          /\ smb'[t] \in open' /\ \A i \in 2..Len(session[t]) : session[t][i] # smb'[t]
    BY <1>1, <1>2 DEF Saved, OpenBase, StackInv, TypeInv, StackTypeOK
  <2> QED BY <1>1, <1>2, <2>1 DEF Current
<1>6. \A h \in open \ partial : h = smb[t] \/ \E i \in 0..(stack_idx - 1) : stack[i] = h
  BY <1>1 DEF StackInv, NoLostBase, OneThread, Copying
<1>7. NoLostBase'
  <2>1. /\ open' \ partial' \subseteq (open \ partial) \union {smb'[t]}
        /\ smb[t] \in open' \ partial' => ~Close(t)
    BY DEF OpenFails, OpenFailsPartly, Close, Open, StackInv, TypeInv, StackTypeOK
  <2>2. smb[t] \in (open' \ partial') \intersect (open \ partial)
          => \E i \in 0..(stack_idx - 1) : stack[i] = smb[t]
    <3> SUFFICES ASSUME smb[t] \in open' \ partial', smb[t] \in open \ partial
                 PROVE  \E i \in 0..(stack_idx - 1) : stack[i] = smb[t]
      OBVIOUS
    <3>1. place[t] = "opening" BY <2>1 DEF OpenFails, OpenFailsPartly, Open
    <3>2. OpenBase(t) # None BY DEF OpenBase, StackInv, TypeInv, StackTypeOK
    <3> QED BY <1>1, <3>1, <3>2 DEF Current
  <2> QED BY <1>1, <1>6, <2>1, <2>2 DEF NoLostBase
<1> QED BY <1>4, <1>5, <1>7, OneStep

LEMMA PopStep ==
  ASSUME OneThread, StackInv, TypeInv', NEW t \in Threads,
         PopNothing(t) \/ PopBegin(t) \/ PopCopy(t)
  PROVE  /\ StackInv'
         /\ Len(session'[t]) < Len(session[t]) => OpenBase(t)' = Last(session[t])
<1> USE SmbStackAssumption DEF At, GoTo
<1>1. /\ session[t] \in Seq(Bases) /\ stack_idx \in Nat /\ session[t] # <<>>
      /\ OpenBase(t) = None /\ Saved(t) /\ Current(t)
      /\ UNCHANGED <<stack, open, partial>>
  BY DEF StackInv, TypeInv, StackTypeOK, InCall, Current, PopNothing, PopBegin, PopCopy, Bases
<1>2. /\ Len(session[t]) \in Nat \ {0} /\ Len(Front(session[t])) = Len(session[t]) - 1
      /\ Front(session[t]) \in Seq(Bases)
      /\ \A i \in 1..(Len(session[t]) - 1) : Front(session[t])[i] = session[t][i]
      /\ Last(session[t]) = session[t][Len(session[t])]
  BY <1>1, Ended
<1>3. CASE PopNothing(t)
  <2>1. /\ place[t] = "popping" /\ place'[t] = "work" /\ session'[t] = Front(session[t])
        /\ stack_idx = 0 /\ UNCHANGED <<smb, stack_idx>>
    BY <1>3 DEF PopNothing, StackInv, TypeInv, StackTypeOK
  <2>2. Len(session[t]) = 1 BY <1>1, <1>2, <2>1 DEF Saved, Copying
  <2>3. Last(session[t]) = None BY <1>1, <1>2, <2>2 DEF Saved
  <2>4. session'[t] = <<>> BY <1>2, <2>1, <2>2
  <2>5. Saved(t)' BY <2>1, <2>4 DEF Saved, Copying
  <2>6. OpenBase(t)' = None BY <1>1, <2>1 DEF OpenBase
  <2>7. Current(t)' BY <2>1, <2>4, <2>6 DEF Current
  <2>8. NoLostBase' BY <1>1, <2>1 DEF StackInv, NoLostBase, OneThread
  <2> QED BY <2>3, <2>5, <2>6, <2>7, <2>8, OneStep
<1>4. CASE PopBegin(t)
  <2>1. /\ place[t] = "popping" /\ place'[t] = "copy_out" /\ stack_idx > 0
        /\ stack_idx' = stack_idx - 1 /\ idx'[t] = stack_idx - 1
        /\ UNCHANGED <<smb, session>>
    BY <1>4 DEF PopBegin, StackInv, TypeInv, StackTypeOK
  <2>2. stack_idx = Len(session[t]) - 1 BY <1>1, <2>1 DEF Saved, Copying
  <2>3. stack[stack_idx - 1] = session[t][Len(session[t])]
    <3>1. stack_idx - 1 \in 0..(stack_idx - 1) BY <1>1, <2>1
    <3>2. stack[stack_idx - 1] = session[t][(stack_idx - 1) + 2] BY <1>1, <3>1 DEF Saved
    <3> QED BY <1>2, <2>2, <3>2
  <2>4. Saved(t)'
    <3>1. stack_idx' = Len(session'[t]) - 2 /\ stack_idx' \in Nat BY <1>1, <1>2, <2>1, <2>2
    <3>2. \A i \in 0..(stack_idx' - 1) : i \in 0..(stack_idx - 1) BY <1>1, <2>1
    <3>3. \A i \in 0..(stack_idx' - 1) : stack'[i] = session'[t][i + 2]
      BY <1>1, <2>1, <3>2 DEF Saved
    <3>4. Len(session[t]) > 1 /\ idx'[t] = stack_idx' BY <1>1, <1>2, <2>1, <2>2
    <3> QED BY <1>1, <2>1, <3>1, <3>3, <3>4 DEF Saved, Copying
  <2>5. Current(t)' BY <1>1, <2>1, <2>3 DEF Current, OpenBase
  <2>6. NoLostBase' BY <1>1, <2>1 DEF StackInv, NoLostBase, OneThread
  <2> QED BY <1>1, <1>2, <2>1, <2>4, <2>5, <2>6, OneStep
<1>5. CASE PopCopy(t)
  <2>1. /\ place[t] = "copy_out" /\ place'[t] = "work" /\ session'[t] = Front(session[t])
        /\ smb'[t] = stack[idx[t]] /\ UNCHANGED stack_idx
    BY <1>5 DEF PopCopy, StackInv, TypeInv, StackTypeOK
  <2>2. /\ Len(session[t]) > 1 /\ stack_idx = Len(session[t]) - 2
        /\ smb'[t] = session[t][Len(session[t])]
    BY <1>1, <2>1 DEF Saved, Current, Copying
  <2>3. smb'[t] \in open \ partial /\ OpenBase(t)' = session[t][Len(session[t])]
        /\ smb'[t] # None
    <3>1. session[t][Len(session[t])] \in open \ partial BY <1>1, <1>2, <2>2 DEF Saved
    <3> QED BY <1>1, <2>2, <3>1 DEF OpenBase, StackInv, TypeInv, StackTypeOK
  <2>4. session'[t] # <<>> BY <1>2, <2>1, <2>2
  <2>5. Saved(t)'
    <3>1. Len(session'[t]) = Len(session[t]) - 1
          /\ \A i \in 1..Len(session'[t]) : session'[t][i] = session[t][i]
      BY <1>2, <2>1
    <3>2. /\ session'[t][1] = None
          /\ \A i \in 2..Len(session'[t]) : session'[t][i] \in open \ partial
          /\ \A i, j \in 2..Len(session'[t]) : session'[t][i] = session'[t][j] => i = j
      <4>1. /\ session[t][1] = None
            /\ \A i \in 2..Len(session[t]) : session[t][i] \in open \ partial
            /\ \A i, j \in 2..Len(session[t]) : session[t][i] = session[t][j] => i = j
        BY <1>1 DEF Saved
      <4>2. 1 \in 1..Len(session'[t]) BY <1>2, <2>2, <3>1
      <4>3. \A i \in 2..Len(session'[t]) : i \in 1..Len(session'[t]) /\ i \in 2..Len(session[t])
        BY <1>2, <2>2, <3>1
      <4> QED BY <3>1, <4>1, <4>2, <4>3
    <3>3. \A i \in 0..(stack_idx - 1) : stack[i] = session'[t][i + 2]
      BY <1>1, <1>2, <2>2, <3>1 DEF Saved
    <3>4. stack_idx' = Len(session'[t]) - 1 BY <1>2, <2>1, <2>2, <3>1
    <3> QED BY <1>1, <2>1, <2>4, <3>2, <3>3, <3>4 DEF Saved, Copying
  <2>6. Current(t)'
    <3>1. \A i \in 2..Len(session'[t]) : session'[t][i] # smb'[t]
      <4> SUFFICES ASSUME NEW i \in 2..Len(session'[t]) PROVE session'[t][i] # smb'[t]
        OBVIOUS
      <4>1. /\ i \in 2..Len(session[t]) /\ Len(session[t]) \in 2..Len(session[t])
            /\ i # Len(session[t]) /\ session'[t][i] = session[t][i]
        BY <1>2, <2>1, <2>2
      <4> QED BY <1>1, <2>2, <4>1 DEF Saved
    <3>2. OpenBase(t)' # None BY <1>1, <2>3 DEF OpenBase
    <3>3. smb'[t] \in open' BY <1>1, <2>3
    <3> QED BY <2>1, <2>4, <3>1, <3>2, <3>3 DEF Current
  <2>7. NoLostBase'
    <3>1. \A h \in open \ partial : h # None /\ smb[t] # h
      BY <1>1 DEF OpenBase, StackInv, TypeInv, StackTypeOK
    <3> QED BY <1>1, <2>1, <3>1 DEF StackInv, NoLostBase, OneThread
  <2> QED BY <1>2, <2>2, <2>3, <2>5, <2>6, <2>7, OneStep
<1> QED BY <1>3, <1>4, <1>5

LEMMA StackStep ==
  ASSUME OneThread, StackInv, [StackNext]_stack_vars
  PROVE  /\ StackInv'
         /\ \A t \in Threads : Len(session'[t]) < Len(session[t]) => OpenBase(t)' = Last(session[t])
<1>1. TypeInv' BY TypeStep DEF StackInv
<1>2. ASSUME NEW t \in Threads, PopNothing(t) \/ PopBegin(t) \/ PopCopy(t)
      PROVE  /\ StackInv'
             /\ \A u \in Threads :
                  Len(session'[u]) < Len(session[u]) => OpenBase(u)' = Last(session[u])
  <2>1. \A u \in Threads : u = t BY DEF OneThread
  <2> QED BY <1>1, <1>2, <2>1, PopStep
<1>3. ASSUME NEW t \in Threads,
             \/ PushClosed(t) \/ PushBegin(t) \/ PushCopy(t) \/ PushCount(t)
             \/ OpenFails(t) \/ \E h \in Handles : Open(t, h) \/ OpenFailsPartly(t, h)
             \/ Close(t)
      PROVE  /\ StackInv'
             /\ ~(Len(session'[t]) < Len(session[t]))
  <2>1. StackInv' BY <1>1, <1>3, PushStep, CopyStep, SessionStep
  <2>2. session[t] \in Seq(Bases) /\ smb[t] \in Bases /\ None \in Bases
        /\ session \in [Threads -> Seq(Bases)]
    BY DEF StackInv, TypeInv, StackTypeOK, Bases
  <2>3. CASE PushClosed(t) \/ PushBegin(t)
    <3>1. PICK h \in Bases : session'[t] = Append(session[t], h)
      BY <2>2, <2>3 DEF PushClosed, PushBegin
    <3>2. Len(session'[t]) = Len(session[t]) + 1 BY <2>2, <3>1, Begun
    <3> QED BY <2>1, <2>2, <3>2
  <2>4. CASE UNCHANGED session BY <2>1, <2>2, <2>4
  <2> QED BY <1>3, <2>3, <2>4 DEF PushCopy, PushCount, OpenFails, OpenFailsPartly, Close,
    Open
<1>4. CASE UNCHANGED stack_vars
  <2>1. StackInv'
    BY <1>1, <1>4 DEF stack_vars, StackInv, NoLostBase, Saved, Current, Copying, At, OpenBase
  <2>2. \A t \in Threads : Len(session[t]) \in Nat BY DEF StackInv, TypeInv, StackTypeOK
  <2> QED BY <1>4, <2>1, <2>2 DEF stack_vars
<1>5. \A t, u \in Threads : t = u BY DEF OneThread
<1> QED BY <1>2, <1>3, <1>4, <1>5 DEF StackNext

\* A session that ends gives its thread back the base it had open before, with a stack
\* and sessions of any depth, as long as only one thread uses the stack.
THEOREM RestoresOwnCorrect == ASSUME OneThread PROVE StackSpec => RestoresOwn
<1>1. StackInv /\ [StackNext]_stack_vars => StackInv' BY StackStep
<1>2. StackInv /\ [StackNext]_stack_vars
        => [\A t \in Threads :
              Len(session'[t]) < Len(session[t]) => OpenBase(t)' = Last(session[t])]_stack_vars
  BY StackStep
<1> QED BY StackInvInit, <1>1, <1>2, PTL DEF StackSpec, RestoresOwn

\* Every base that the only thread has opened is in use or on the stack, sessions of any
\* depth and opens that fail among them.  The files that a failing smb_open() has opened
\* itself are the exception: the caller pops over their pointers.
THEOREM NoLostBaseCorrect == ASSUME OneThread PROVE StackSpec => []NoLostBase
<1>1. StackInv /\ [StackNext]_stack_vars => StackInv' BY StackStep
<1>2. StackInv => NoLostBase BY DEF StackInv
<1> QED BY StackInvInit, <1>1, <1>2, PTL DEF StackSpec
=============================================================================
