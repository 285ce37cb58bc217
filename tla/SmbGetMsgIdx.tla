---------------------------- MODULE SmbGetMsgIdx ----------------------------
(***************************************************************************)
(* The search of a message base's index file (.sid) by message number:     *)
(* smb_getmsgidx() of smblib.c.  The index is a file of fixed-length       *)
(* records in ascending order of message number.  The caller either holds  *)
(* the message base lock (smb_locksmbhdr) or does not; while it does not,  *)
(* other sessions append records (smb_addmsghdr) and rewrite the file      *)
(* without the records of deleted messages (sbbs_t::delmail).              *)
(*                                                                         *)
(* A record is its message number.  Record offsets are the code's: the     *)
(* record at offset o is sid[o + 1].                                       *)
(***************************************************************************)
EXTENDS Integers, Sequences

CONSTANTS
  IndexFiles,   \* the contents an index file may have
  Targets       \* the message numbers a caller may look for

\* The records of an index file ascend strictly (SmbBase shows they do).
Ascending(s) == \A i, j \in DOMAIN s : i < j => s[i] < s[j]

ASSUME IndexFilesAssumption ==
  /\ <<>> \in IndexFiles
  /\ \A s \in IndexFiles : s \in Seq(Nat \ {0}) /\ Ascending(s)

ASSUME TargetsAssumption == Targets \subseteq Nat \ {0}

VARIABLES
  sid,      \* the index file
  kept,     \* the records a purge is about to write back
  purging,  \* the file is truncated and not yet rewritten
  pc,       \* "idle", or "probe" in the search loop
  locked,   \* the caller holds the message base lock
  number,   \* msg->hdr.number, the number sought
  total,    \* the record count taken when the search began
  bot, top, l,
  ret,      \* the value returned by the last call
  offset,   \* msg->offset: the offset of the record found
  purged    \* history: the file was rewritten during this search

file == <<sid, kept, purging>>
call == <<pc, locked, number, total, bot, top, l, ret, offset>>
vars == <<file, call, purged>>

Returns == {"none", "SUCCESS", "NOT_FOUND", "ERR_FILE_LEN", "ERR_READ",
            "ERR_HDR_OFFSET", "ERR_SEEK"}

Numbers(s) == {s[i] : i \in DOMAIN s}

Init ==
  /\ sid \in IndexFiles
  /\ kept = <<>>
  /\ purging = FALSE
  /\ pc = "idle"
  /\ locked = FALSE
  /\ number = 0
  /\ total = 0 /\ bot = 0 /\ top = 0 /\ l = 0
  /\ ret = "none"
  /\ offset = 0
  /\ purged = FALSE

---------------------------------------------------------------------------
(* The search *)

Return(code) ==
  /\ pc' = "idle"
  /\ ret' = code

\* The call: the length of the file is taken once, and the search starts in
\* the middle.
BeginSearch(n, lk) ==
  /\ pc = "idle"
  /\ lk => ~purging
  /\ number' = n
  /\ locked' = lk
  /\ purged' = purging
  /\ total' = Len(sid)
  /\ offset' = 0
  /\ bot' = 0
  /\ top' = Len(sid)
  /\ l' = Len(sid) \div 2
  /\ \/ sid = <<>> /\ Return("ERR_FILE_LEN")
     \/ sid # <<>> /\ pc' = "probe" /\ ret' = "none"
  /\ UNCHANGED file

\* The call with hdr.number zero: the record is chosen by its offset, counted
\* from the end of the file when negative.
ReadByOffset(o, lk) ==
  LET byte_offset == IF o < 0 THEN Len(sid) + o ELSE o
  IN
  /\ pc = "idle"
  /\ lk => ~purging
  /\ locked' = lk
  /\ purged' = purging
  /\ total' = Len(sid)
  /\ bot' = 0 /\ top' = 0 /\ l' = 0
  /\ \/ /\ sid = <<>>
        /\ Return("ERR_FILE_LEN") /\ number' = 0 /\ offset' = 0
     \/ /\ sid # <<>> /\ byte_offset >= Len(sid)
        /\ Return("ERR_HDR_OFFSET") /\ number' = 0 /\ offset' = 0
     \/ /\ sid # <<>> /\ byte_offset < 0
        /\ Return("ERR_SEEK") /\ number' = 0 /\ offset' = 0
     \/ /\ byte_offset \in 0..(Len(sid) - 1)
        /\ Return("SUCCESS")
        /\ number' = sid[byte_offset + 1] /\ offset' = byte_offset
  /\ UNCHANGED file

\* One turn of the loop: seek to record l, read it, compare.
ProbePastEnd ==
  /\ pc = "probe" /\ l >= total
  /\ Return("NOT_FOUND")
  /\ UNCHANGED <<file, locked, number, total, bot, top, l, offset, purged>>

ProbeReadError ==
  /\ pc = "probe" /\ l < total
  /\ l >= Len(sid)
  /\ Return("ERR_READ")
  /\ UNCHANGED <<file, locked, number, total, bot, top, l, offset, purged>>

Reading == pc = "probe" /\ l < total /\ l < Len(sid)

\* Mistake: the search gives up one record early.
ProbeNotFound_Early ==
  /\ Reading
  /\ bot >= top - 2 /\ sid[l + 1] # number
  /\ Return("NOT_FOUND")
  /\ UNCHANGED <<file, locked, number, total, bot, top, l, offset, purged>>

ProbeNotFound ==
  /\ Reading
  /\ bot = top - 1 /\ sid[l + 1] # number
  /\ Return("NOT_FOUND")
  /\ UNCHANGED <<file, locked, number, total, bot, top, l, offset, purged>>

ProbeLower ==
  /\ Reading
  /\ bot # top - 1
  /\ sid[l + 1] > number
  /\ top' = l
  /\ l' = bot + ((l - bot) \div 2)
  /\ UNCHANGED <<file, pc, locked, number, total, bot, ret, offset, purged>>

\* Mistake: the lower end is not moved up.
ProbeHigher_KeepsBot ==
  /\ Reading
  /\ bot # top - 1
  /\ sid[l + 1] < number
  /\ l' = top - ((top - bot) \div 2)
  /\ UNCHANGED <<file, pc, locked, number, total, bot, top, ret, offset, purged>>

ProbeHigher ==
  /\ Reading
  /\ bot # top - 1
  /\ sid[l + 1] < number
  /\ bot' = l
  /\ l' = top - ((top - l) \div 2)
  /\ UNCHANGED <<file, pc, locked, number, total, top, ret, offset, purged>>

\* Mistake: the number found is returned without its offset.
ProbeFound_NoOffset ==
  /\ Reading
  /\ sid[l + 1] = number
  /\ Return("SUCCESS")
  /\ UNCHANGED <<file, locked, number, total, bot, top, l, offset, purged>>

ProbeFound ==
  /\ Reading
  /\ sid[l + 1] = number
  /\ offset' = l
  /\ Return("SUCCESS")
  /\ UNCHANGED <<file, locked, number, total, bot, top, l, purged>>

Probe ==
  \/ ProbePastEnd \/ ProbeReadError \/ ProbeNotFound
  \/ ProbeLower \/ ProbeHigher \/ ProbeFound

---------------------------------------------------------------------------
(* The other sessions, which need the message base lock to change the file *)

BaseFree == ~(pc = "probe" /\ locked) /\ ~purging

\* smb_addmsghdr() writes one record at the end of the file.
AppendRecord ==
  /\ BaseFree
  /\ \E s \in IndexFiles :
       /\ Len(s) = Len(sid) + 1
       /\ \A i \in DOMAIN sid : s[i] = sid[i]
       /\ sid' = s
  /\ UNCHANGED <<kept, purging, call, purged>>

\* delmail() sets the file's length to zero ...
PurgeTruncate ==
  /\ BaseFree
  /\ \E s \in IndexFiles : Numbers(s) \subseteq Numbers(sid) /\ kept' = s
  /\ sid' = <<>>
  /\ purging' = TRUE
  /\ purged' = TRUE
  /\ UNCHANGED call

\* ... and writes the records it keeps back.
PurgeRewrite ==
  /\ purging
  /\ sid' = kept
  /\ kept' = <<>>
  /\ purging' = FALSE
  /\ purged' = TRUE
  /\ UNCHANGED call

Next ==
  \/ \E n \in Targets, lk \in BOOLEAN : BeginSearch(n, lk)
  \/ \E n \in Targets, lk \in BOOLEAN : ReadByOffset(-n, lk) \/ ReadByOffset(n - 1, lk)
  \/ Probe
  \/ AppendRecord
  \/ PurgeTruncate
  \/ PurgeRewrite

Spec == Init /\ [][Next]_vars

\* The caller's thread keeps running; nothing is assumed of the others.
FairSpec == Spec /\ WF_vars(Probe)

---------------------------------------------------------------------------
(* Properties *)

\* The bounds and the count of the search are record positions, whatever was read.
TypeOK ==
  /\ sid \in IndexFiles /\ kept \in IndexFiles
  /\ purging \in BOOLEAN /\ locked \in BOOLEAN /\ purged \in BOOLEAN
  /\ pc \in {"idle", "probe"}
  /\ number \in Nat /\ total \in Nat
  /\ bot \in Nat /\ top \in Nat /\ l \in Nat /\ offset \in Nat
  /\ ret \in Returns

\* A search that ends "not found" is right about the records that were there
\* when it began, unless the file was rewritten while it ran: sessions that
\* only append never make smb_getmsgidx miss a message.
NotFoundIsRight ==
  ret = "NOT_FOUND" /\ ~purged =>
    \A i \in 1..total : i \in DOMAIN sid => sid[i] # number

\* While nobody has rewritten the file since the call, the offset returned
\* addresses the record of the message: smb_putmsgidx() may overwrite it.
OffsetAddressesMessage ==
  ret = "SUCCESS" /\ ~purged =>
    offset + 1 \in DOMAIN sid /\ sid[offset + 1] = number

\* The loop makes progress: every turn that does not return halves in on the
\* message, so the search ends whatever the other sessions do to the file.
SearchShrinks ==
  [][pc = "probe" /\ pc' = "probe" /\ <<bot, top, l>>' # <<bot, top, l>>
       => top' - bot' < top - bot]_vars

\* Every call returns.
SearchReturns == pc = "probe" ~> pc = "idle"

---------------------------------------------------------------------------
(* The loop invariant behind the properties *)

Bounds ==
  pc = "probe" =>
    /\ 0 <= bot /\ bot < top /\ top <= total
    /\ bot <= l /\ l <= top
    /\ bot < top - 1 => bot < l /\ l < top

\* Everything below bot has been ruled out, and everything from top on.
Narrowed ==
  pc = "probe" /\ ~purged =>
    /\ bot > 0 => sid[bot + 1] < number
    /\ top < total => sid[top + 1] > number
    /\ l = top => sid[bot + 1] < number

\* The records counted by the call are still there.
Counted == ~purged => total <= Len(sid)

Unrewritten == purging => purged

LoopInv == TypeOK /\ Bounds /\ Narrowed /\ Counted /\ Unrewritten
=============================================================================
