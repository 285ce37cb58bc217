------------------------------ MODULE SmbStack ------------------------------
(***************************************************************************)
(* smb_stack() (smblib.c): a function that opens another message base      *)
(* first saves the one its thread has open on a stack, and restores it     *)
(* when it is done.  The stack and its index are static variables, one     *)
(* for all the threads of the process, and no lock protects them.          *)
(*                                                                         *)
(* A session is what the callers do (sbbs_t::email, netmail, readmail,     *)
(* scanposts, delallmail ...): push, smb_open, the work, smb_close, pop;   *)
(* sessions nest.  The index is loaded once in a call, as the compiled     *)
(* function does: memcpy() cannot change it.                               *)
(*                                                                         *)
(* Init, Next, Spec and the like have the stack in their names: the proofs *)
(* are in one module with those of SmbGetMsgIdx, the search of smblib.c.   *)
(***************************************************************************)
EXTENDS Naturals, Sequences, SequencesExt

CONSTANTS
  Threads,
  Handles,        \* open message bases: the FILE pointers of an smb_t
  SMB_STACK_LEN,
  MaxNesting,     \* bound on the sessions a thread nests
  None            \* an smb_t that is not open

ASSUME SmbStackAssumption ==
  /\ SMB_STACK_LEN \in Nat \ {0} /\ MaxNesting \in Nat
  /\ None \notin Handles

VARIABLES
  stack,      \* slot -> the saved base
  stack_idx,
  smb,        \* the current base of each thread
  open,       \* the bases whose files are open
  partial,    \* those of them that smb_open() left with a file or two open, not all three
  place,      \* where each thread is
  idx,        \* stack_idx as a thread loaded it
  session     \* history: the base each session of the thread has to come back to

stack_vars == <<stack, stack_idx, smb, open, partial, place, idx, session>>

Slots == 0..(SMB_STACK_LEN - 1)

\* The index stays within the stack, and every slot holds a base or none.
StackTypeOK ==
  /\ stack \in [Slots -> Handles \union {None}]
  /\ stack_idx \in 0..SMB_STACK_LEN
  /\ smb \in [Threads -> Handles \union {None}]
  /\ open \subseteq Handles /\ partial \subseteq open
  /\ place \in [Threads -> {"work", "copy_in", "count_in", "opening", "popping", "copy_out"}]
  /\ idx \in [Threads -> 0..SMB_STACK_LEN]
  /\ session \in [Threads -> Seq(Handles \union {None})]

StackInit ==
  /\ stack = [i \in Slots |-> None] /\ stack_idx = 0
  /\ smb = [t \in Threads |-> None] /\ open = {} /\ partial = {}
  /\ place = [t \in Threads |-> "work"]
  /\ idx = [t \in Threads |-> 0]
  /\ session = [t \in Threads |-> <<>>]

At(t, where) == place[t] = where
GoTo(t, where) == place' = [place EXCEPT ![t] = where]

\* The base a thread has open: one that is open in part does not count.
OpenBase(t) == IF smb[t] \in partial THEN None ELSE smb[t]

---------------------------------------------------------------------------
(* SMB_STACK_PUSH: a full stack refuses, and the session is not begun *)

PushClosed(t) ==
  /\ At(t, "work") /\ Len(session[t]) < MaxNesting
  /\ stack_idx < SMB_STACK_LEN /\ OpenBase(t) = None
  /\ session' = [session EXCEPT ![t] = Append(@, None)]
  /\ GoTo(t, "opening")
  /\ UNCHANGED <<stack, stack_idx, smb, open, partial, idx>>

\* Mistake: a full stack is not noticed.
PushBegin_NoLimit(t) ==
  /\ At(t, "work") /\ Len(session[t]) < MaxNesting
  /\ OpenBase(t) # None
  /\ idx' = [idx EXCEPT ![t] = stack_idx]
  /\ session' = [session EXCEPT ![t] = Append(@, smb[t])]
  /\ GoTo(t, "copy_in")
  /\ UNCHANGED <<stack, stack_idx, smb, open, partial>>

PushBegin(t) ==
  /\ At(t, "work") /\ Len(session[t]) < MaxNesting
  /\ stack_idx < SMB_STACK_LEN /\ OpenBase(t) # None
  /\ idx' = [idx EXCEPT ![t] = stack_idx]
  /\ session' = [session EXCEPT ![t] = Append(@, smb[t])]
  /\ GoTo(t, "copy_in")
  /\ UNCHANGED <<stack, stack_idx, smb, open, partial>>

PushCopy(t) ==
  /\ At(t, "copy_in")
  /\ stack' = [stack EXCEPT ![idx[t]] = smb[t]]
  /\ GoTo(t, "count_in")
  /\ UNCHANGED <<stack_idx, smb, open, partial, idx, session>>

\* Mistake: the index is not advanced.
PushCount_Forgotten(t) ==
  /\ At(t, "count_in")
  /\ GoTo(t, "opening")
  /\ UNCHANGED <<stack, stack_idx, smb, open, partial, idx, session>>

PushCount(t) ==
  /\ At(t, "count_in")
  /\ stack_idx' = idx[t] + 1
  /\ GoTo(t, "opening")
  /\ UNCHANGED <<stack, smb, open, partial, idx, session>>

---------------------------------------------------------------------------
(* The session *)

Open(t, h) ==
  /\ At(t, "opening") /\ h \notin open
  /\ smb' = [smb EXCEPT ![t] = h]
  /\ open' = open \union {h}
  /\ GoTo(t, "work")
  /\ UNCHANGED <<stack, stack_idx, partial, idx, session>>

\* smb_open() fails before it opens a file, or after it has closed the first one again:
\* it has reset the file pointers, and the caller pops.
OpenFails(t) ==
  /\ At(t, "opening")
  /\ smb' = [smb EXCEPT ![t] = None]
  /\ GoTo(t, "popping")
  /\ UNCHANGED <<stack, stack_idx, open, partial, idx, session>>

\* The data or the index file cannot be opened: smb_open() returns with the files before
\* it open, and the caller pops, and does not close.
OpenFailsPartly(t, h) ==
  /\ At(t, "opening") /\ h \notin open
  /\ smb' = [smb EXCEPT ![t] = h]
  /\ open' = open \union {h} /\ partial' = partial \union {h}
  /\ GoTo(t, "popping")
  /\ UNCHANGED <<stack, stack_idx, idx, session>>

\* smb_close() of a base that is open, or of one that is not.
Close(t) ==
  /\ At(t, "work") /\ session[t] # <<>>
  /\ open' = open \ {smb[t]} /\ partial' = partial \ {smb[t]}
  /\ smb' = [smb EXCEPT ![t] = None]
  /\ GoTo(t, "popping")
  /\ UNCHANGED <<stack, stack_idx, idx, session>>

---------------------------------------------------------------------------
(* SMB_STACK_POP *)

PopNothing(t) ==
  /\ At(t, "popping") /\ stack_idx = 0
  /\ session' = [session EXCEPT ![t] = Front(@)]
  /\ GoTo(t, "work")
  /\ UNCHANGED <<stack, stack_idx, smb, open, partial, idx>>

\* Mistake: the slot is read with the index from before the decrement.
PopBegin_OldIndex(t) ==
  /\ At(t, "popping") /\ stack_idx > 0
  /\ stack_idx' = stack_idx - 1
  /\ idx' = [idx EXCEPT ![t] = stack_idx % SMB_STACK_LEN]
  /\ GoTo(t, "copy_out")
  /\ UNCHANGED <<stack, smb, open, partial, session>>

PopBegin(t) ==
  /\ At(t, "popping") /\ stack_idx > 0
  /\ stack_idx' = stack_idx - 1
  /\ idx' = [idx EXCEPT ![t] = stack_idx - 1]
  /\ GoTo(t, "copy_out")
  /\ UNCHANGED <<stack, smb, open, partial, session>>

PopCopy(t) ==
  /\ At(t, "copy_out")
  /\ smb' = [smb EXCEPT ![t] = stack[idx[t]]]
  /\ session' = [session EXCEPT ![t] = Front(@)]
  /\ GoTo(t, "work")
  /\ UNCHANGED <<stack, stack_idx, open, partial, idx>>

StackNext ==
  \E t \in Threads :
    \/ PushClosed(t) \/ PushBegin(t) \/ PushCopy(t) \/ PushCount(t)
    \/ OpenFails(t) \/ \E h \in Handles : Open(t, h) \/ OpenFailsPartly(t, h)
    \/ Close(t)
    \/ PopNothing(t) \/ PopBegin(t) \/ PopCopy(t)

StackSpec == StackInit /\ [][StackNext]_stack_vars

---------------------------------------------------------------------------
(* Properties *)

\* A session that ends gives its thread back the base it had open before, or none.
RestoresOwn ==
  [][\A t \in Threads :
       Len(session'[t]) < Len(session[t]) => OpenBase(t)' = Last(session[t])]_stack_vars

\* Every open base is in use or on the stack, to be closed by someone: no file pointer
\* is lost, but those of an smb_open() that failed with a file open.
NoLostBase ==
  \A h \in open \ partial :
    \/ \E t \in Threads : smb[t] = h
    \/ \E i \in 0..(stack_idx - 1) : stack[i] = h
    \/ \E t \in Threads : At(t, "copy_out") /\ stack[idx[t]] = h

\* Those would be in use, too.
NoLostFile ==
  \A h \in partial : \E t \in Threads : smb[t] = h
=============================================================================
