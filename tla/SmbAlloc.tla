------------------------------ MODULE SmbAlloc ------------------------------
(***************************************************************************)
(* Block allocation in a message base (smballoc.c): the tables .sda, a     *)
(* reference count for every block of the data file, and .sha, a flag for  *)
(* every block of the header file; and the operations that use them: a     *)
(* message added (smb_addmsg), one text mailed to many users               *)
(* (sbbs_t::bulkmail), a message forwarded (sbbs_t::forwardmail), deleted  *)
(* messages purged (sbbs_t::delmail).                                      *)
(*                                                                         *)
(* Each action holds the table it changes: the files are opened            *)
(* non-shareable.  The base itself is locked while a post is under way.    *)
(* Block b of a file is element b + 1 of the sequence that stands for it.  *)
(***************************************************************************)
EXTENDS Integers, Sequences, FiniteSets

CONSTANTS
  Nums,         \* message numbers (one is free again once its message is purged)
  Texts,        \* message texts
  BodyLens,     \* lengths of a text's body, in bytes
  HdrLens,      \* lengths of a header, in blocks
  BlockLen,     \* SDT_BLOCK_LEN
  MaxRefs,      \* the largest value of a reference count: 65535
  MaxBlocks,    \* bound on the length of a table
  MaxSent,      \* bound on the recipients of one bulk mailing
  MaxStray,     \* bound on the forwardings whose reference is never taken back
  Storages,     \* "SELFPACK", "FASTALLOC"
  Tasks,        \* "bulk", "forward"
  Scenes,       \* lengths of a tail, and what may fail: see TailLens, Faults
  Concurrent,   \* purges run while a bulk mailing or a forwarding is under way
  None

ASSUME SmbAllocAssumption ==
  /\ BodyLens \subseteq Nat /\ HdrLens \subseteq Nat \ {0}
  /\ \A c \in Scenes : c.tails \subseteq Nat
  /\ BlockLen \in Nat \ {0} /\ MaxRefs \in Nat \ {0}
  /\ MaxBlocks \in Nat /\ MaxSent \in Nat /\ MaxStray \in Nat
  /\ Storages \subseteq {"SELFPACK", "FASTALLOC"}
  /\ Concurrent \in BOOLEAN
  /\ None \notin Texts /\ None \notin Nums
  /\ LET D == [text : Texts, at : Nat, body : Nat, tail : Nat] IN
     /\ None \notin [data : D, storage : Storages]
     /\ None \notin [data : D, sent : 0..MaxSent]
     /\ None \notin [data : D, counted : BOOLEAN]

VARIABLES
  scene,  \* the kind of tails, and what may go wrong
  sda,    \* reference count of each data block
  sdt,    \* the text each data block holds
  sha,    \* allocation flag of each header block
  shd,    \* the message whose header is in each header block
  live,   \* the headers the index leads to
  pend,   \* the data of the message being added, base locked; or None
  bulk,   \* the bulk mailing under way, or None
  fwd,    \* the forwarding under way, or None
  history \* which references were not counted, or counted too often

vars == <<scene, sda, sdt, sha, shd, live, pend, bulk, fwd, history>>

\* The lengths of a tail, and "header", "tail", "user", "open", "crash".
TailLens == scene.tails
Faults == scene.faults

---------------------------------------------------------------------------
(* Blocks and data fields *)

\* smb_datblocks(): the blocks a length takes.
DatBlocks(length) == (length + BlockLen - 1) \div BlockLen

\* The data of a message is its body, then its tail, stored together from a
\* block boundary on.
Data == [text : Texts, at : Nat, body : BodyLens, tail : TailLens]

Span(d) == d.at .. d.at + DatBlocks(d.body + d.tail) - 1

\* The blocks allocation and release take a data field to be in: as many as
\* its length needs, from the one its first byte is in.
BodyBlocks(d) == d.at .. d.at + DatBlocks(d.body) - 1

TailBlocks(d) ==
  LET first == d.at + d.body \div BlockLen
  IN  first .. first + DatBlocks(d.tail) - 1

Fields(d) == {BodyBlocks(d), TailBlocks(d)} \ {{}}

\* How often a walk over the recorded data fields visits block b.  A body and a
\* tail of one block each may share it.
Visits(d, b) ==
  (IF b \in BodyBlocks(d) THEN 1 ELSE 0) + (IF b \in TailBlocks(d) THEN 1 ELSE 0)

---------------------------------------------------------------------------
(* The allocation tables *)

\* Mistake: the search stops one block short of a fit.
Fits_Short(table, p, n) ==
  p + n <= Len(table) /\ \A i \in 1..(n - 1) : table[p + i] = 0

\* A run of n unused blocks at p.
Fits(table, p, n) == p + n <= Len(table) /\ \A i \in 1..n : table[p + i] = 0

\* Where smb_allocdat() and smb_allochdr() find n consecutive unused blocks:
\* the first fit, or the end of the file.
FirstFit(table, p, n) ==
  \/ Fits(table, p, n) /\ \A q \in 0..(p - 1) : ~Fits(table, q, n)
  \/ p = Len(table) /\ \A q \in 0..p : ~Fits(table, q, n)

\* smb_fallocdat(), smb_fallochdr(): no search.
Found(storage, table, p, n) ==
  CASE storage = "SELFPACK"  -> FirstFit(table, p, n)
    [] storage = "FASTALLOC" -> p = Len(table)

\* n elements from p on set to v, the file extended if need be.
Filled(file, p, n, v) ==
  [i \in 1..(IF p + n > Len(file) THEN p + n ELSE Len(file)) |->
     IF i \in p + 1 .. p + n THEN v ELSE file[i]]

\* Mistake: nothing keeps a count from going negative.
FreedDat_GoesNegative(d) == [i \in DOMAIN sda |-> sda[i] - Visits(d, i - 1)]

\* Mistake: the blocks are freed whoever else refers to them.
FreedDat_AllRefs(d) ==
  [i \in DOMAIN sda |-> IF Visits(d, i - 1) > 0 THEN 0 ELSE sda[i]]

\* smb_freemsg_dfields(refs = 1): one reference less, "don't want to go
\* negative".
FreedDat(d) ==
  [i \in DOMAIN sda |->
     IF sda[i] > Visits(d, i - 1) THEN sda[i] - Visits(d, i - 1) ELSE 0]

\* smb_freemsg_dfields(SMB_ALL_REFS)
FreedAll(d) ==
  [i \in DOMAIN sda |-> IF Visits(d, i - 1) > 0 THEN 0 ELSE sda[i]]

\* smb_incmsg_dfields(refs): a 16-bit addition for every visit.
IncDat(d, refs) ==
  [i \in DOMAIN sda |-> (sda[i] + refs * Visits(d, i - 1)) % (MaxRefs + 1)]

\* smb_open_da() fails for the body, or for the tail: each is freed by itself.
StoppedShort(d) == sda' \in {sda, FreedDat([d EXCEPT !.tail = 0])}

\* The references are given back, as far as smb_open_da() succeeds.
GivenBack(d) == sda' = FreedDat(d) \/ ("open" \in Faults /\ StoppedShort(d))

---------------------------------------------------------------------------
(* Adding a message *)

Init ==
  /\ scene \in Scenes
  /\ sda = <<>> /\ sdt = <<>> /\ sha = <<>> /\ shd = <<>>
  /\ live = {}
  /\ pend = None /\ bulk = None /\ fwd = None
  /\ history = [short |-> {}, spoiled |-> FALSE, stray |-> 0]

BaseFree == pend = None

TextInUse(t) ==
  \/ \E m \in live : m.data.text = t
  \/ bulk # None /\ bulk.data.text = t
  \/ fwd # None /\ fwd.data.text = t

\* The data blocks are allocated with one reference and the text is written.
StoreText(d, storage) ==
  LET n == DatBlocks(d.body + d.tail) IN
  /\ ~TextInUse(d.text)
  /\ \/ /\ n = 0 /\ d.at = 0
        /\ UNCHANGED <<sda, sdt>>
     \/ /\ n > 0 /\ d.at + n <= MaxBlocks
        /\ Found(storage, sda, d.at, n)
        /\ sda' = Filled(sda, d.at, n, 1)
        /\ sdt' = Filled(sdt, d.at, n, d.text)

PostData(d, storage) ==
  /\ BaseFree
  /\ StoreText(d, storage)
  /\ pend' = [data |-> d, storage |-> storage]
  /\ UNCHANGED <<sha, shd, live, bulk, fwd, scene, history>>

\* smb_addmsghdr(): the header blocks are allocated and written; putting the
\* message in the index makes it live.
AddHeader(d, storage, num, p, n) ==
  /\ num \notin {m.num : m \in live}
  /\ p + n <= MaxBlocks /\ Found(storage, sha, p, n)
  /\ sha' = Filled(sha, p, n, 1)
  /\ shd' = Filled(shd, p, n, num)
  /\ live' = live \union {[num |-> num, data |-> d, at |-> p, blocks |-> n]}

PostHeader(num, p, n) ==
  /\ pend # None
  /\ AddHeader(pend.data, pend.storage, num, p, n)
  /\ pend' = None
  /\ UNCHANGED <<sda, sdt, bulk, fwd, scene, history>>

\* smb_addmsghdr() fails: smb_addmsg() frees the data fields.
PostHeaderFails ==
  /\ "header" \in Faults /\ pend # None
  /\ GivenBack(pend.data)
  /\ pend' = None
  /\ UNCHANGED <<sdt, sha, shd, live, bulk, fwd, scene, history>>

\* Writing the body fails after its data field was recorded and before the
\* tail's was: only the body's blocks are freed.
PostTextFails ==
  /\ "tail" \in Faults /\ pend # None /\ pend.data.body > 0
  /\ GivenBack([pend.data EXCEPT !.tail = 0])
  /\ pend' = None
  /\ UNCHANGED <<sdt, sha, shd, live, bulk, fwd, scene, history>>

\* A process ends with a header allocated and written, but not in the index.
HeaderAbandoned(storage) ==
  \E n \in HdrLens, p \in 0..Len(sha), num \in Nums :
    /\ num \notin {m.num : m \in live}
    /\ p + n <= MaxBlocks /\ Found(storage, sha, p, n)
    /\ sha' = Filled(sha, p, n, 1)
    /\ shd' = Filled(shd, p, n, num)

\* The process ends before the header is allocated, or before the message is
\* in the index.
PostCrash ==
  /\ "crash" \in Faults /\ pend # None
  /\ pend' = None
  /\ UNCHANGED <<sha, shd>> \/ HeaderAbandoned(pend.storage)
  /\ UNCHANGED <<sda, sdt, live, bulk, fwd, scene, history>>

---------------------------------------------------------------------------
(* Bulk mail: one text, a header for every recipient, the references of    *)
(* all but the first recipient added at the end                            *)

BulkData(d, storage) ==
  /\ "bulk" \in Tasks /\ BaseFree /\ bulk = None
  /\ StoreText(d, storage)
  /\ bulk' = [data |-> d, sent |-> 0]
  /\ UNCHANGED <<sha, shd, live, pend, fwd, scene, history>>

BulkHeader(num, p, n) ==
  /\ bulk # None /\ bulk.sent < MaxSent /\ BaseFree
  /\ AddHeader(bulk.data, "SELFPACK", num, p, n)
  /\ bulk' = [bulk EXCEPT !.sent = @ + 1]
  /\ UNCHANGED <<sda, sdt, pend, fwd, scene, history>>

\* bulkmailhdr() returns success when getuserdat() fails: the recipient counts.
BulkNoUser ==
  /\ "user" \in Faults /\ bulk # None /\ bulk.sent < MaxSent
  /\ bulk' = [bulk EXCEPT !.sent = @ + 1]
  /\ UNCHANGED <<sda, sdt, sha, shd, live, pend, fwd, scene, history>>

\* Mistake: every recipient's reference is added, the first one's too.
BulkEnd_CountsFirst ==
  /\ bulk # None
  /\ sda' = IF bulk.sent = 0 THEN FreedAll(bulk.data) ELSE IncDat(bulk.data, bulk.sent)
  /\ bulk' = None
  /\ UNCHANGED <<sdt, sha, shd, live, pend, fwd, scene, history>>

BulkEnd ==
  /\ bulk # None
  /\ \/ bulk.sent = 0 /\ sda' = FreedAll(bulk.data)
     \/ bulk.sent > 0 /\ sda' = IncDat(bulk.data, bulk.sent - 1)
  /\ bulk' = None
  /\ UNCHANGED <<sdt, sha, shd, live, pend, fwd, scene, history>>

\* The mailing is over with nothing added or freed: its headers, however many,
\* stay on a count of one.
BulkUncounted ==
  /\ bulk # None /\ bulk' = None
  /\ history' = IF bulk.sent > 1 THEN [history EXCEPT !.short = @ \union {bulk.data}]
                                ELSE history
  /\ UNCHANGED <<sda, sdt, live, pend, fwd, scene>>

\* smb_open_da() fails: bulkmail() reports it and leaves the references.
BulkOpenFails ==
  /\ "open" \in Faults
  /\ BulkUncounted
  /\ UNCHANGED <<sha, shd>>

\* The process ends between the recipients, or in the header of one.
BulkCrash ==
  /\ "crash" \in Faults
  /\ BulkUncounted
  /\ UNCHANGED <<sha, shd>> \/ (BaseFree /\ HeaderAbandoned("SELFPACK"))

---------------------------------------------------------------------------
(* Forwarding: a second header for the data of a message read before *)

ForwardLoad(m) ==
  /\ "forward" \in Tasks /\ fwd = None
  /\ fwd' = [data |-> m.data, counted |-> FALSE]
  /\ UNCHANGED <<sda, sdt, sha, shd, live, pend, bulk, scene, history>>

\* smb_open_da() fails, or the process ends, before anything was counted.
ForwardOpenFails ==
  /\ Faults \intersect {"open", "crash"} # {} /\ fwd # None /\ ~fwd.counted
  /\ fwd' = None
  /\ UNCHANGED <<sda, sdt, sha, shd, live, pend, bulk, scene, history>>

ForwardInc ==
  /\ fwd # None /\ ~fwd.counted
  /\ sda' = IncDat(fwd.data, 1)
  /\ fwd' = [fwd EXCEPT !.counted = TRUE]
  /\ UNCHANGED <<sdt, sha, shd, live, pend, bulk, scene, history>>

ForwardHeader(num, p, n) ==
  /\ fwd # None /\ fwd.counted /\ BaseFree
  /\ AddHeader(fwd.data, "SELFPACK", num, p, n)
  /\ fwd' = None
  /\ UNCHANGED <<sda, sdt, pend, bulk, scene, history>>

\* smb_addmsghdr() fails: forwardmail() takes the reference back.
ForwardFails ==
  /\ "header" \in Faults /\ fwd # None /\ fwd.counted
  /\ sda' = FreedDat(fwd.data)
  /\ fwd' = None
  /\ UNCHANGED <<sdt, sha, shd, live, pend, bulk, scene, history>>

\* The reference stays counted: the process ends before the header is in the
\* index, or smb_freemsg_dfields() cannot take it back.
ForwardLost ==
  /\ fwd # None /\ fwd.counted /\ history.stray < MaxStray
  /\ \/ {"header", "open"} \subseteq Faults /\ StoppedShort(fwd.data) /\ UNCHANGED <<sha, shd>>
     \/ "crash" \in Faults /\ UNCHANGED <<sda, sha, shd>>
     \/ "crash" \in Faults /\ BaseFree /\ HeaderAbandoned("SELFPACK") /\ UNCHANGED sda
  /\ fwd' = None
  /\ history' = [history EXCEPT !.stray = @ + 1]
  /\ UNCHANGED <<sdt, live, pend, bulk, scene>>

---------------------------------------------------------------------------
(* Purging *)

\* Mistake: the header blocks are freed from the block after the first.
FreedHdr_OffByOne(m) == Filled(sha, m.at + 1, m.blocks, 0)

\* smb_freemsghdr()
FreedHdr(m) == Filled(sha, m.at, m.blocks, 0)

\* smb_freemsg() of a message marked for deletion, the base locked.
Purge(m) ==
  /\ BaseFree
  /\ Concurrent \/ (bulk = None /\ fwd = None)
  /\ sda' = FreedDat(m.data)
  /\ sha' = FreedHdr(m)
  /\ live' = live \ {m}
  /\ history' = [history EXCEPT !.spoiled = @ \/ m.data \in history.short]
  /\ UNCHANGED <<sdt, shd, pend, bulk, fwd, scene>>

NewData == [text : Texts, at : 0..Len(sda), body : BodyLens, tail : TailLens]

Next ==
  \/ \E d \in NewData, s \in Storages : PostData(d, s) \/ BulkData(d, s)
  \/ \E num \in Nums, n \in HdrLens, p \in 0..Len(sha) :
       PostHeader(num, p, n) \/ BulkHeader(num, p, n) \/ ForwardHeader(num, p, n)
  \/ PostHeaderFails \/ PostTextFails \/ PostCrash
  \/ BulkNoUser \/ BulkEnd \/ BulkOpenFails \/ BulkCrash
  \/ \E m \in live : ForwardLoad(m) \/ Purge(m)
  \/ ForwardInc \/ ForwardFails \/ ForwardOpenFails \/ ForwardLost

Spec == Init /\ [][Next]_vars

---------------------------------------------------------------------------
(* Properties *)

\* The tables and what is under way have their types: no count leaves 16 bits.
TypeOK ==
  /\ sda \in Seq(0..MaxRefs) /\ sdt \in Seq(Texts) /\ Len(sda) = Len(sdt)
  /\ sha \in Seq({0, 1}) /\ shd \in Seq(Nums) /\ Len(sha) = Len(shd)
  /\ live \subseteq [num : Nums, data : Data, at : Nat, blocks : HdrLens]
  /\ pend = None \/ pend \in [data : Data, storage : Storages]
  /\ bulk = None \/ bulk \in [data : Data, sent : 0..MaxSent]
  /\ fwd = None \/ fwd \in [data : Data, counted : BOOLEAN]
  /\ history \in [short : SUBSET Data, spoiled : BOOLEAN, stray : 0..MaxStray]

\* A message of a mailing whose references were not added has been purged, and so
\* has freed the text of the others.  What follows from that has no bounds: their
\* blocks are given away, and freed again by the next purge, whoever has them.
Spoiled == history.spoiled

\* The data file holds the text of every message in the base: no block of a live
\* message was given to another one.
DataIntact == \A m \in live : \A b \in Span(m.data) : sdt[b + 1] = m.data.text

\* No two live headers share a block of the header file.
HeadersIntact ==
  \A m \in live : \A b \in m.at .. m.at + m.blocks - 1 :
    shd[b + 1] = m.num /\ sha[b + 1] = 1

\* Nothing of a message in the base is overwritten: its header never, its text not
\* before a message of an uncounted mailing is purged.
Intact == HeadersIntact /\ (~Spoiled => DataIntact)

\* A block whose count is zero belongs to no message in the base: the next post may
\* have it.
ZeroIsFree == \A m \in live : \A b \in Span(m.data) : sda[b + 1] > 0

\* So it is until a message of an uncounted mailing is purged, whatever else failed:
\* one reference is left while none of its messages is purged.
FreeBlocksUnused == ~Spoiled => ZeroIsFree

\* The messages, and what is on its way to be one, that use data block b.
Users(b) == {m \in live : b \in Span(m.data)}

InProgress == {x \in {pend, bulk, fwd} : x # None}

\* Purging a message gives back every block it alone uses.
NoLeak ==
  \A b \in 0..(Len(sda) - 1) :
    sda[b + 1] > 0 => Users(b) # {} \/ \E x \in InProgress : b \in Span(x.data)

\* The count of a block is the number of headers that refer to it, so that what nobody
\* uses is free ...
CountRight ==
  InProgress = {} =>
    \A b \in 0..(Len(sda) - 1) : sda[b + 1] = Cardinality(Users(b))

\* ... for messages without a tail, when nothing but the adding of a header fails.
CountIsHeaders == TailLens = {0} /\ Faults \subseteq {"header"} => CountRight

\* What the base reads back for each message number.
Header(n) == CHOOSE m \in live : m.num = n

TextOf(m) ==
  IF \A b \in Span(m.data) : sdt[b + 1] = m.data.text THEN m.data.text ELSE None

Stores == [n \in {m.num : m \in live} |-> TextOf(Header(n))]

Store == INSTANCE MsgStore WITH store <- Stores

\* The base implements the abstract store: every message reads back the text it was
\* added with, and adding or purging one changes no other; until a message of an
\* uncounted mailing is purged.
StoresText == Store!Init /\ [][Store!Next \/ Spoiled']_Stores
=============================================================================
