-------------------------- MODULE MailServer_proofs --------------------------
(* The mail server's use of the mail base, for any mail, any number of     *)
(* messages, attempts and failures.                                        *)
EXTENDS MailServer, FiniteSetTheorems, TLAPS

---------------------------------------------------------------------------
(* The inductive invariant *)

\* The header of a message in the index.
Msg(n) == shd[index[n].offset]

\* A message of the queue, not deleted.
Waits(n) == n \in InIndex /\ ~Msg(n).deleted /\ Msg(n).to = "net"

Mem == [list : SUBSET Numbers, number : Numbers \union {0}, offset : Offsets \union {0},
        hdr : Header, bounce : BOOLEAN, immediate : BOOLEAN]

SendPlaces == {"idle", "list", "found", "sending", "untransit", "bounce", "giveup",
               "notice", "sent", "next"}
PopPlaces == {"idle", "transaction", "retr", "text"}

FilesOK ==
  /\ last_msg \in Numbers \union {0} /\ purging \in BOOLEAN
  /\ InIndex \subseteq 1..last_msg
  /\ index \in [InIndex -> [offset : Offsets, deleted : BOOLEAN]]
  /\ shd \in [Offsets -> Header] /\ sha \subseteq Offsets

Files == FilesOK /\ EachItsHeader

MemOK ==
  /\ DOMAIN pc = Threads \union Clients
  /\ \A t \in Threads : pc[t] \in SendPlaces
  /\ \A c \in Clients : pc[c] \in PopPlaces
  /\ mem \in [Threads \union Clients -> Mem]

LogOK ==
  /\ log \in Log /\ remote \in [Numbers -> 0..(MaxAttempts + 1)]
  /\ \A n \in Numbers : log.unacked[n] <= remote[n] /\ (remote[n] > 0 => n <= last_msg)

\* What is known of the messages that were queued, and of those with a notice.
Known ==
  /\ \A n \in log.queued : n <= last_msg /\ (n \in InIndex =>
       Msg(n).to = "net" /\ Bounceable(Msg(n)))
  /\ \A n \in log.told : n <= last_msg /\ (n \in InIndex =>
       Msg(n).to = "net" /\ Msg(n).deleted)

\* These are the notices that were ever added: one for each message told.
AreNotices(ns) ==
  /\ ns \intersect log.told = {} /\ Cardinality(ns) = Cardinality(log.told)
  /\ \A n \in ns \intersect InIndex : Msg(n).about # 0
  /\ \A t \in Threads : pc[t] = "notice" => mem[t].number \notin ns

Counted ==
  /\ last_msg <= MaxSubmits + Cardinality(log.told)
  /\ \E ns \in SUBSET (1..last_msg) : AreNotices(ns)

Working == {"sending", "untransit", "bounce", "giveup", "sent"}

\* The thread that sends is the only one to change what waits: what it listed is still
\* there, and what it has read of the message it works on is what the base has.
SenderAt(place, m) ==
  /\ \A n \in m.list : Waits(n) \/ (n = m.number /\ place \in {"notice", "next"})
  /\ place \in {"found"} \union Working => Waits(m.number) /\ index[m.number].offset = m.offset
  /\ place \in Working => m.hdr = Msg(m.number)
  /\ m.hdr.transit => m.hdr.number # 0
  /\ place \in {"sending", "untransit", "sent"} => m.hdr.transit
  /\ place = "sent" => remote[m.number] > log.unacked[m.number]
  /\ place \in {"bounce", "giveup", "notice"} /\ m.hdr.transit =>
       m.number \in log.left \union log.refused
  /\ place = "giveup" => m.hdr.attempts <= MaxAttempts + log.troubles + 1
  /\ place = "notice" =>
       /\ m.hdr.number = m.number /\ m.number \in 1..last_msg
       /\ Bounceable(m.hdr) /\ m.number \notin log.told
       /\ m.number \in InIndex => Msg(m.number).to = "net" /\ Msg(m.number).deleted

\* The client is the only one to change its mailbox.
ClientAt(place, m) ==
  /\ \A n \in m.list : n <= last_msg /\ (n \in InIndex => Msg(n).to = "box")
  /\ place = "retr" =>
       /\ m.number \in m.list \intersect InIndex /\ ~Msg(m.number).deleted
       /\ index[m.number].offset = m.offset
  /\ place = "text" =>
       /\ m.hdr.number \in m.list \intersect InIndex /\ ~m.hdr.deleted
       /\ m.hdr = Msg(m.hdr.number)

\* Failures that are not counted as attempts are the only reason for more of them.
TriesAt(n) ==
  Waits(n) =>
    \/ Msg(n).attempts <= MaxAttempts + log.troubles
    \/ \E t \in Threads : pc[t] = "giveup" /\ mem[t].number = n

\* TransitOwned of one message, and NothingVanishes.
OwnedAt(n) ==
  Waits(n) /\ Msg(n).transit =>
    \/ \E t \in Threads : pc[t] \in Working /\ mem[t].number = n
    \/ n \in log.left \union log.refused
    \/ Msg(n).about \in log.left \union log.refused

StaysAt(n) ==
  n \in log.queued =>
    \/ Waits(n) \/ remote[n] > 0 \/ n \in log.told \union log.untold
    \/ \E t \in Threads : pc[t] = "notice" /\ mem[t].number = n

\* What was taken and acknowledged is not sent again: it is in transit, or gone.
OnceAt(n) ==
  ~SendInTransit =>
    /\ remote[n] <= log.unacked[n] + 1
    /\ Waits(n) /\ remote[n] > log.unacked[n] =>
         /\ Msg(n).transit
         /\ \A t \in Threads : pc[t] \in Working /\ mem[t].number = n => pc[t] = "sent"

MessageInv(n) == TriesAt(n) /\ OwnedAt(n) /\ StaysAt(n) /\ OnceAt(n)

MailInv ==
  /\ Files /\ MemOK /\ LogOK /\ Known /\ Counted
  /\ \A t \in Threads : SenderAt(pc[t], mem[t])
  /\ \A c \in Clients : ClientAt(pc[c], mem[c])
  /\ \A n \in Numbers : MessageInv(n)

\* One thread sends, one client has the mailbox open, and neither what is queued nor what is
\* in that mailbox is deleted in another session meanwhile.
Alone ==
  /\ \A t, u \in Threads : t = u
  /\ \A c, d \in Clients : c = d
  /\ Deleting \subseteq {"other"}

---------------------------------------------------------------------------
(* What the operations on the base do to its messages *)

\* The message is there as it was.
Kept(n) ==
  /\ n \in InIndex' /\ index'[n].offset = index[n].offset
  /\ shd'[index'[n].offset] = Msg(n)

LEMMA HeaderFacts ==
  ASSUME Files, NEW n \in InIndex
  PROVE  /\ index[n].offset \in Offsets /\ Msg(n) \in Header /\ Msg(n).number = n
         /\ index[n].deleted = Msg(n).deleted /\ n \in Numbers /\ n \in 1..last_msg
         /\ index[n].offset \in sha
BY MailServerAssumption DEF Files, FilesOK, EachItsHeader, Msg, Numbers, Offsets

LEMMA OwnBlock ==
  ASSUME Files, NEW n \in InIndex, NEW k \in InIndex, index[n].offset = index[k].offset
  PROVE  n = k
BY HeaderFacts DEF Msg

LEMMA UndeletedIs ==
  ASSUME Files, NEW to, NEW n
  PROVE  n \in Undeleted(to) <=> n \in InIndex /\ ~Msg(n).deleted /\ Msg(n).to = to
BY HeaderFacts DEF Undeleted, Msg

\* A header written in place.
LEMMA WriteIs ==
  ASSUME Files, NEW n \in InIndex, NEW h \in Header, h.number = n,
         shd' = [shd EXCEPT ![index[n].offset] = h],
         index' \in [InIndex -> [offset : Offsets, deleted : BOOLEAN]],
         \A k \in InIndex : /\ index'[k].offset = index[k].offset
                           /\ index'[k].deleted = IF k = n THEN h.deleted ELSE index[k].deleted,
         UNCHANGED <<last_msg, purging, sha>>
  PROVE  /\ Files' /\ InIndex' = InIndex
         /\ shd'[index'[n].offset] = h /\ index'[n].offset = index[n].offset
         /\ \A k \in InIndex \ {n} : Kept(k)
<1>1. DOMAIN index' = InIndex OBVIOUS
<1>2. \A k \in InIndex : index[k].offset \in Offsets BY HeaderFacts
<1>3. shd \in [Offsets -> Header] /\ shd' \in [Offsets -> Header]
  BY <1>2 DEF Files, FilesOK
<1>4. shd'[index'[n].offset] = h BY <1>2, <1>3
<1>5. \A k \in InIndex \ {n} : Kept(k)
  BY <1>1, <1>2, <1>3, OwnBlock DEF Kept, Msg, InIndex
<1>6. FilesOK' BY <1>1, <1>3 DEF Files, FilesOK, InIndex
<1>7. EachItsHeader'
  <2> SUFFICES ASSUME NEW k \in InIndex
               PROVE  /\ index'[k].offset \in sha'
                      /\ shd'[index'[k].offset].number = k
                      /\ shd'[index'[k].offset].deleted = index'[k].deleted
    BY <1>1 DEF EachItsHeader, InIndex
  <2> QED BY <1>4, <1>5, HeaderFacts DEF Kept
<1> QED BY <1>1, <1>4, <1>5, <1>6, <1>7 DEF Files, InIndex

LEMMA PutIs ==
  ASSUME Files, NEW h \in Header, h.number \in InIndex, Put(h)
  PROVE  /\ Files' /\ InIndex' = InIndex /\ last_msg' = last_msg
         /\ shd'[index'[h.number].offset] = h
         /\ index'[h.number].offset = index[h.number].offset
         /\ \A k \in InIndex \ {h.number} : Kept(k)
<1> DEFINE n == h.number
<1>1. /\ shd' = [shd EXCEPT ![index[n].offset] = h]
      /\ index' = [index EXCEPT ![n].deleted = h.deleted]
      /\ UNCHANGED <<last_msg, purging, sha>>
  BY DEF Put
<1>2. index \in [InIndex -> [offset : Offsets, deleted : BOOLEAN]] /\ h.deleted \in BOOLEAN
  BY DEF Files, FilesOK, Header
<1>3. /\ index' \in [InIndex -> [offset : Offsets, deleted : BOOLEAN]]
      /\ \A k \in InIndex :
           /\ index'[k].offset = index[k].offset
           /\ index'[k].deleted = IF k = n THEN h.deleted ELSE index[k].deleted
  BY <1>1, <1>2
<1> QED BY <1>1, <1>3, WriteIs

LEMMA AddIs ==
  ASSUME Files, NEW h \in Header, AddHeader(h), last_msg + 1 \in Numbers,
         NEW k, k = last_msg + 1
  PROVE  /\ Files' /\ last_msg' = k /\ InIndex' = InIndex \union {k} /\ k \notin InIndex
         /\ shd'[index'[k].offset] = [h EXCEPT !.number = k]
         /\ \A n \in InIndex : Kept(n)
<1>1. PICK o \in Offsets \ sha :
        /\ shd' = [shd EXCEPT ![o] = [h EXCEPT !.number = k]]
        /\ index' = [n \in InIndex \union {k} |->
             IF n \in InIndex THEN index[n] ELSE [offset |-> o, deleted |-> h.deleted]]
        /\ sha' = sha \union {o}
  BY DEF AddHeader
<1>2. last_msg' = k /\ purging' = purging BY DEF AddHeader
<1>3. last_msg \in Nat /\ InIndex \subseteq 1..last_msg /\ k \notin InIndex
  BY MailServerAssumption DEF Files, FilesOK, Numbers
<1>4. DOMAIN index' = InIndex \union {k} BY <1>1
<1>5. [h EXCEPT !.number = k] \in Header /\ h.deleted \in BOOLEAN
      /\ [h EXCEPT !.number = k].deleted = h.deleted /\ [h EXCEPT !.number = k].number = k
  BY DEF Header
<1>6. shd \in [Offsets -> Header] /\ shd' \in [Offsets -> Header]
      /\ \A p \in Offsets \ {o} : shd'[p] = shd[p]
  BY <1>1, <1>5 DEF Files, FilesOK
<1>7. index'[k] = [offset |-> o, deleted |-> h.deleted] /\ \A n \in InIndex : index'[n] = index[n]
  BY <1>1, <1>3
<1>8. shd'[index'[k].offset] = [h EXCEPT !.number = k] BY <1>1, <1>6, <1>7
<1>9. ASSUME NEW n \in InIndex PROVE Kept(n)
  <2>1. index[n].offset \in sha /\ index[n].offset \in Offsets BY HeaderFacts
  <2> QED BY <1>4, <1>6, <1>7, <2>1 DEF Kept, Msg, InIndex
<1>10. FilesOK'
  <2>1. InIndex' \subseteq 1..last_msg' BY <1>2, <1>3, <1>4 DEF InIndex
  <2>2. index' \in [InIndex' -> [offset : Offsets, deleted : BOOLEAN]]
    <3>1. index \in [InIndex -> [offset : Offsets, deleted : BOOLEAN]] BY DEF Files, FilesOK
    <3>2. \A n \in InIndex \union {k} : index'[n] \in [offset : Offsets, deleted : BOOLEAN]
      BY <1>5, <1>7, <3>1
    <3> QED BY <1>1, <1>4, <3>2 DEF InIndex
  <2> QED BY <1>1, <1>2, <1>6, <2>1, <2>2 DEF Files, FilesOK
<1>11. EachItsHeader'
  <2> SUFFICES ASSUME NEW n \in InIndex \union {k}
               PROVE  /\ index'[n].offset \in sha'
                      /\ shd'[index'[n].offset].number = n
                      /\ shd'[index'[n].offset].deleted = index'[n].deleted
    BY <1>4 DEF EachItsHeader, InIndex
  <2>1. CASE n = k
    <3>1. index'[k].offset = o /\ index'[k].deleted = h.deleted /\ o \in sha' BY <1>1, <1>7
    <3> QED BY <1>5, <1>8, <2>1, <3>1
  <2>2. CASE n \in InIndex BY <1>1, <1>7, <1>9, <2>2, HeaderFacts DEF Kept
  <2> QED BY <2>1, <2>2
<1> QED BY <1>2, <1>3, <1>4, <1>8, <1>9, <1>10, <1>11 DEF Files, InIndex

LEMMA PurgeIs ==
  ASSUME Files, PurgeBegin
  PROVE  /\ Files' /\ last_msg' = last_msg /\ InIndex' \subseteq InIndex
         /\ \A n \in InIndex : Kept(n) \/ (n \notin InIndex' /\ Msg(n).deleted)
<1> DEFINE dead == {n \in InIndex : index[n].deleted}
<1>1. /\ sha' = sha \ {index[n].offset : n \in dead}
      /\ index' = [n \in InIndex \ dead |-> index[n]]
      /\ shd' = shd /\ last_msg' = last_msg /\ purging' = TRUE
  BY DEF PurgeBegin
<1>2. DOMAIN index' = InIndex \ dead /\ \A n \in InIndex \ dead : index'[n] = index[n]
  BY <1>1
<1>3. ASSUME NEW n \in InIndex \ dead PROVE index[n].offset \in sha'
  BY <1>1, HeaderFacts, OwnBlock
<1>4. FilesOK'
  BY <1>1, <1>2 DEF Files, FilesOK, InIndex
<1>5. EachItsHeader'
  BY <1>1, <1>2, <1>3, HeaderFacts DEF EachItsHeader, InIndex, Msg
<1> QED BY <1>1, <1>2, <1>4, <1>5, HeaderFacts DEF Files, InIndex, Kept, Msg

\* RSET changes nothing but what was listed, and of that only the mark.
LEMMA ResetIs ==
  ASSUME Files, NEW c, mem[c].list \subseteq Numbers, PopReset(c)
  PROVE  /\ Files' /\ InIndex' = InIndex /\ last_msg' = last_msg
         /\ \A n \in InIndex : Kept(n) \/
              /\ n \in mem[c].list /\ index'[n].offset = index[n].offset
              /\ shd'[index'[n].offset] = [Msg(n) EXCEPT !.deleted = FALSE]
<1> DEFINE there == {n \in mem[c].list : \A k \in mem[c].list : k <= n => k \in InIndex}
           blocks == {index[n].offset : n \in there}
<1>1. /\ shd' = [o \in Offsets |->
           IF o \in blocks THEN [shd[o] EXCEPT !.deleted = FALSE] ELSE shd[o]]
      /\ index' = [n \in InIndex |->
           IF n \in there THEN [index[n] EXCEPT !.deleted = FALSE] ELSE index[n]]
      /\ UNCHANGED <<last_msg, purging, sha>>
  BY DEF PopReset
<1> HIDE DEF there
<1>2. there \subseteq mem[c].list BY DEF there
<1>3. DOMAIN index' = InIndex BY <1>1
<1>4. \A n \in InIndex : index[n] \in [offset : Offsets, deleted : BOOLEAN]
  BY DEF Files, FilesOK
<1>5. \A n \in InIndex : /\ index'[n] \in [offset : Offsets, deleted : BOOLEAN]
                         /\ index'[n].offset = index[n].offset
                         /\ index'[n].deleted = IF n \in there THEN FALSE ELSE index[n].deleted
  BY <1>1, <1>4
<1>6. shd' \in [Offsets -> Header]
  <2>1. ASSUME NEW o \in Offsets PROVE shd'[o] \in Header
    <3>1. shd[o] \in Header BY DEF Files, FilesOK
    <3>2. [shd[o] EXCEPT !.deleted = FALSE] \in Header BY <3>1 DEF Header
    <3> QED BY <1>1, <3>1, <3>2
  <2> QED BY <1>1, <2>1
<1>7. ASSUME NEW n \in InIndex
      PROVE  shd'[index'[n].offset] =
               IF n \in there THEN [Msg(n) EXCEPT !.deleted = FALSE] ELSE Msg(n)
  <2>1. there \subseteq InIndex
    <3>1. \A k \in Numbers : k <= k BY MailServerAssumption DEF Numbers
    <3> QED BY <3>1 DEF there
  <2>2. index[n].offset \in blocks <=> n \in there BY <2>1, OwnBlock
  <2> QED BY <1>1, <1>4, <1>5, <2>2 DEF Msg
<1>8. FilesOK'
  <2>1. index' \in [InIndex -> [offset : Offsets, deleted : BOOLEAN]] BY <1>1, <1>5
  <2> QED BY <1>1, <1>3, <1>6, <2>1 DEF Files, FilesOK, InIndex
<1>9. EachItsHeader'
  <2> SUFFICES ASSUME NEW n \in InIndex
               PROVE  /\ index'[n].offset \in sha'
                      /\ shd'[index'[n].offset].number = n
                      /\ shd'[index'[n].offset].deleted = index'[n].deleted
    BY <1>3 DEF EachItsHeader, InIndex
  <2>1. Msg(n) \in Header /\ Msg(n).number = n /\ Msg(n).deleted = index[n].deleted
        /\ index[n].offset \in sha
    BY HeaderFacts
  <2>2. index'[n].offset \in sha' BY <1>1, <1>5, <2>1
  <2>3. CASE n \in there
    <3>1. shd'[index'[n].offset] = [Msg(n) EXCEPT !.deleted = FALSE] BY <1>7, <2>3
    <3> QED BY <1>5, <2>1, <2>2, <2>3, <3>1 DEF Header
  <2>4. CASE n \notin there BY <1>5, <1>7, <2>1, <2>2, <2>4
  <2> QED BY <2>3, <2>4
<1> QED BY <1>1, <1>2, <1>3, <1>5, <1>7, <1>8, <1>9 DEF Files, InIndex, Kept

---------------------------------------------------------------------------
(* What a step of one leaves to the others *)

\* The messages of the queue, or of a mailbox, stay as they are or are purged.
Stay(to) ==
  /\ last_msg' \in Nat /\ last_msg <= last_msg'
  /\ \A n \in InIndex : Msg(n).to = to => Kept(n) \/ (Msg(n).deleted /\ n \notin InIndex')
  /\ \A n \in InIndex' : n \in InIndex \/ n > last_msg

LEMMA SenderKept ==
  ASSUME Files, Stay("net"), remote' = remote, log'.unacked = log.unacked,
         log'.told = log.told, log'.left = log.left, log'.refused = log.refused,
         log'.troubles = log.troubles,
         NEW place, NEW m \in Mem, SenderAt(place, m)
  PROVE  SenderAt(place, m)'
<1>1. \A n : Waits(n) => Waits(n)' /\ Kept(n)
  BY DEF Stay, Waits, Kept, Msg
<1>2. m.number \in 1..last_msg => last_msg \in Nat /\ m.number \in 1..last_msg'
  BY MailServerAssumption DEF Files, FilesOK, Numbers, Stay
<1>3. m.number \in 1..last_msg /\ m.number \in InIndex' => m.number \in InIndex
  BY <1>2 DEF Stay
<1>4. place = "notice" /\ m.number \in InIndex' =>
        (Msg(m.number).to = "net" /\ Msg(m.number).deleted)'
  BY <1>3 DEF SenderAt, Stay, Kept, Msg
<1> QED BY <1>1, <1>2, <1>4 DEF SenderAt, Kept, Msg, Working

LEMMA ClientKept ==
  ASSUME Files, Stay("box"), NEW place, NEW m \in Mem, ClientAt(place, m)
  PROVE  ClientAt(place, m)'
<1>1. last_msg \in Nat /\ m.list \subseteq Nat /\ last_msg' >= last_msg
  BY MailServerAssumption DEF Files, FilesOK, Numbers, Stay, Mem
<1>2. \A n \in m.list : n <= last_msg' /\ (n \in InIndex' => Kept(n) /\ Msg(n).to = "box")
  BY <1>1 DEF ClientAt, Stay, Kept
<1>3. \A n \in m.list \intersect InIndex : ~Msg(n).deleted => Kept(n)
  BY DEF ClientAt, Stay
<1> QED BY <1>2, <1>3 DEF ClientAt, Kept, Msg

\* A step of the thread that sends, at work on message n if on any.
LEMMA OwnStep ==
  ASSUME MailInv, Alone, NEW t \in Threads, NEW n, NEW place, NEW m,
         \* It changes no other message, and of this one not what is constant.
         Files', InIndex' = InIndex, last_msg' = last_msg,
         \A k \in InIndex : Kept(k) \/
           /\ k = n /\ Waits(n) /\ (Msg(n).to = "net")'
           /\ Msg(n)'.from = Msg(n).from /\ Msg(n)'.about = Msg(n).about,
         \* It goes from one place to another.
         MemOK', pc'[t] = place, mem'[t] = m,
         \A u \in (Threads \union Clients) \ {t} : pc'[u] = pc[u] /\ mem'[u] = mem[u],
         pc[t] \in Working \union {"notice"} => mem[t].number = n,
         place \in Working \union {"notice"} => m.number = n,
         place = "notice" => n \in InIndex /\ Msg(n).about = 0,
         SenderAt(place, m)',
         \* It adds to the history.
         LogOK', log'.queued = log.queued, log'.told = log.told,
         log.untold \subseteq log'.untold, log.left \subseteq log'.left,
         log.refused \subseteq log'.refused, log.troubles <= log'.troubles,
         \A k \in Numbers \ {n} : remote'[k] = remote[k] /\ log'.unacked[k] = log.unacked[k],
         n \in Numbers => MessageInv(n)'
  PROVE  MailInv'
<1>0. Files /\ MemOK /\ LogOK /\ InIndex \subseteq Numbers
  BY HeaderFacts DEF MailInv
<1>1. Known'
  BY <1>0 DEF MailInv, Known, Kept, Msg, Waits, Bounceable
<1>2. Counted'
  <2>1. PICK ns \in SUBSET (1..last_msg) : AreNotices(ns) BY DEF MailInv, Counted
  <2>2. \A k \in InIndex : Msg(k)'.about = Msg(k).about BY DEF Kept, Msg
  <2>3. \A u \in Threads : u = t BY DEF Alone
  <2>4. place = "notice" => m.number \notin ns BY <2>1 DEF AreNotices
  <2>5. (\A u \in Threads : pc[u] = "notice" => mem[u].number \notin ns)' BY <2>3, <2>4
  <2>6. (\A k \in ns \intersect InIndex : Msg(k).about # 0)' BY <2>1, <2>2 DEF AreNotices
  <2>7. AreNotices(ns)' BY <2>1, <2>5, <2>6 DEF AreNotices
  <2> QED BY <2>1, <2>7 DEF MailInv, Counted
<1>3. \A u \in Threads : SenderAt(pc[u], mem[u])'
  BY DEF Alone
<1>4. ASSUME NEW c \in Clients PROVE ClientAt(pc[c], mem[c])'
  <2>1. Stay("box") BY <1>0 DEF Stay, Waits, Files, FilesOK, Numbers
  <2>2. pc'[c] = pc[c] /\ mem'[c] = mem[c] BY MailServerAssumption
  <2>3. SUFFICES ASSUME NEW p, NEW x, p = pc[c], x = mem[c] PROVE ClientAt(p, x)'
    BY <2>2
  <2> QED BY <1>0, <2>1, <2>3, ClientKept DEF MailInv, MemOK
<1>5. ASSUME NEW k \in Numbers \ {n} PROVE MessageInv(k)'
  <2>1. /\ Waits(k)' <=> Waits(k)
        /\ Waits(k) => Msg(k)' = Msg(k)
        /\ remote'[k] = remote[k] /\ log'.unacked[k] = log.unacked[k]
    BY <1>0 DEF Waits, Kept, Msg
  <2>2. \A u \in Threads : pc[u] \in Working \union {"notice"} => mem[u].number # k
    BY DEF Alone
  <2>3. \A u \in Threads : pc'[u] \in Working \union {"notice"} => mem'[u].number # k
    BY DEF Alone
  <2>4. TriesAt(k)'
    <3> SUFFICES ASSUME Waits(k) PROVE (Msg(k).attempts <= MaxAttempts + log.troubles)'
      BY <2>1 DEF TriesAt
    <3>1. Msg(k).attempts <= MaxAttempts + log.troubles
      BY <2>2 DEF MailInv, MessageInv, TriesAt, Working
    <3>2. Msg(k).attempts \in Nat /\ log.troubles \in Nat /\ log'.troubles \in Nat
      BY <1>0, HeaderFacts, MailServerAssumption
      DEF LogOK, Log, Waits, Header, Attempts
    <3> QED BY <2>1, <3>1, <3>2, MailServerAssumption
  <2>5. OwnedAt(k)' BY <2>1, <2>2 DEF MailInv, MessageInv, OwnedAt
  <2>6. StaysAt(k)' BY <2>1, <2>2 DEF MailInv, MessageInv, StaysAt
  <2>7. OnceAt(k)' BY <2>1, <2>3 DEF MailInv, MessageInv, OnceAt
  <2> QED BY <2>4, <2>5, <2>6, <2>7 DEF MessageInv
<1> QED BY <1>0, <1>1, <1>2, <1>3, <1>4, <1>5 DEF MailInv

\* A step of anybody else, which may add a message.
LEMMA OthersStep ==
  ASSUME MailInv, Alone, Files', Stay("net"), MemOK', log' \in Log, remote' = remote,
         \A t \in Threads : pc'[t] = pc[t] /\ mem'[t] = mem[t],
         \A c \in Clients : ClientAt(pc[c], mem[c])',
         \A n \in InIndex \intersect InIndex' :
           Msg(n)'.to = Msg(n).to /\ Msg(n)'.about = Msg(n).about,
         \A n \in InIndex' \ InIndex : Waits(n)' => Msg(n)'.attempts = 0 /\ ~Msg(n)'.transit,
         last_msg' <= MaxSubmits + Cardinality(log.told),
         \A n \in log'.queued : n \in log.queued \/
           (n \in InIndex' \ InIndex /\ n <= last_msg' /\ Waits(n)' /\ Bounceable(Msg(n))'),
         log'.told = log.told, log'.untold = log.untold, log'.left = log.left,
         log'.refused = log.refused, log'.unacked = log.unacked, log'.troubles = log.troubles
  PROVE  MailInv'
<1>0. /\ Files /\ MemOK /\ LogOK /\ InIndex \subseteq Numbers /\ InIndex' \subseteq Numbers
      /\ last_msg \in Nat /\ last_msg' \in Nat /\ last_msg <= last_msg' /\ Numbers \subseteq Nat
      /\ log \in Log
  BY MailServerAssumption
  DEF MailInv, Files, FilesOK, Numbers, Stay, LogOK
<1>1. \A n \in Numbers : n <= last_msg => n <= last_msg' /\ (n \in InIndex' => n \in InIndex)
  <2>1. \A n \in InIndex' : n \in InIndex \/ n > last_msg BY DEF Stay
  <2>2. \A n \in Numbers : n <= last_msg => n <= last_msg' /\ ~(n > last_msg) BY <1>0
  <2> QED BY <2>1, <2>2
<1>2. \A n \in InIndex : Msg(n).to = "net" =>
        \/ n \in InIndex' /\ Msg(n)' = Msg(n)
        \/ Msg(n).deleted /\ n \notin InIndex'
  BY DEF Stay, Kept, Msg
<1>3. LogOK'
  <2>1. \A n \in Numbers : log.unacked[n] <= remote[n] /\ (remote[n] > 0 => n <= last_msg)
    BY <1>0 DEF LogOK
  <2> QED BY <1>0, <1>1, <2>1 DEF LogOK
<1>4. Known'
  <2>1. log.queued \subseteq Numbers /\ log.told \subseteq Numbers BY <1>0 DEF Log
  <2>2. ASSUME NEW n \in log'.queued
        PROVE  (n <= last_msg /\ (n \in InIndex => Msg(n).to = "net" /\ Bounceable(Msg(n))))'
    <3>1. CASE n \in log.queued
      <4>1. n <= last_msg /\ (n \in InIndex => Msg(n).to = "net" /\ Bounceable(Msg(n)))
        BY <3>1 DEF MailInv, Known
      <4> QED BY <1>1, <1>2, <2>1, <3>1, <4>1 DEF Bounceable
    <3>2. CASE n \notin log.queued BY <3>2 DEF Waits
    <3> QED BY <3>1, <3>2
  <2>3. ASSUME NEW n \in log'.told
        PROVE  (n <= last_msg /\ (n \in InIndex => Msg(n).to = "net" /\ Msg(n).deleted))'
    <3>1. n <= last_msg /\ (n \in InIndex => Msg(n).to = "net" /\ Msg(n).deleted)
      BY DEF MailInv, Known
    <3> QED BY <1>1, <1>2, <2>1, <3>1
  <2> QED BY <2>2, <2>3 DEF Known
<1>5. Counted'
  <2>1. PICK ns \in SUBSET (1..last_msg) : AreNotices(ns) BY DEF MailInv, Counted
  <2>2. ns \in SUBSET (1..last_msg') BY <1>0
  <2>3. \A k \in ns : k \in InIndex' => k \in InIndex
    BY <1>0 DEF Stay
  <2>4. AreNotices(ns)' BY <2>1, <2>3 DEF AreNotices
  <2> QED BY <2>2, <2>4 DEF Counted
<1>6. ASSUME NEW t \in Threads PROVE SenderAt(pc[t], mem[t])'
  <2> SUFFICES ASSUME NEW p, NEW x, p = pc[t], x = mem[t] PROVE SenderAt(p, x)'
    OBVIOUS
  <2> QED BY <1>0, SenderKept DEF MailInv, MemOK
<1>7. ASSUME NEW n \in Numbers PROVE MessageInv(n)'
  <2>0. MessageInv(n) BY DEF MailInv
  <2>1. CASE n \in InIndex' \ InIndex
    <3>1. ~(n <= last_msg) BY <1>1, <2>1
    <3>2. n \notin log.queued \/ Waits(n)' BY <1>0, <3>1 DEF MailInv, Known
    <3>3. remote[n] = 0 /\ log.unacked[n] \in Nat
      BY <1>0, <3>1, MailServerAssumption DEF LogOK, Log
    <3>4. TriesAt(n)'
      BY <1>0, <2>1, MailServerAssumption DEF TriesAt, Log
    <3>5. OwnedAt(n)' BY <2>1 DEF OwnedAt
    <3>6. StaysAt(n)' BY <3>2 DEF StaysAt
    <3>7. OnceAt(n)' BY <3>3 DEF OnceAt
    <3> QED BY <3>4, <3>5, <3>6, <3>7 DEF MessageInv
  <2>2. CASE ~(n \in InIndex' \ InIndex)
    <3>1. Waits(n)' <=> Waits(n) BY <1>2, <2>2 DEF Waits
    <3>2. Waits(n) => Msg(n)' = Msg(n) BY <1>2 DEF Waits
    <3>3. n \in log'.queued => n \in log.queued BY <2>2
    <3>4. TriesAt(n)' BY <2>0, <3>1, <3>2 DEF MessageInv, TriesAt
    <3>5. OwnedAt(n)' BY <2>0, <3>1, <3>2 DEF MessageInv, OwnedAt
    <3>6. StaysAt(n)' BY <2>0, <3>1, <3>3 DEF MessageInv, StaysAt
    <3>7. OnceAt(n)' BY <2>0, <3>1, <3>2 DEF MessageInv, OnceAt
    <3> QED BY <3>4, <3>5, <3>6, <3>7 DEF MessageInv
  <2> QED BY <2>1, <2>2
<1> QED BY <1>3, <1>4, <1>5, <1>6, <1>7 DEF MailInv

---------------------------------------------------------------------------
(* Users, other hosts, the purge *)

\* Two sets of numbers that have none in common.
LEMMA Apart ==
  ASSUME NEW last \in Nat, NEW S \in SUBSET (1..last), NEW T \in SUBSET (1..last),
         S \intersect T = {}
  PROVE  /\ IsFiniteSet(S) /\ Cardinality(S) \in Nat /\ Cardinality(T) \in Nat
         /\ Cardinality(S) + Cardinality(T) <= last
<1>1. IsFiniteSet(1..last) /\ Cardinality(1..last) = last BY FS_Interval
<1>2. IsFiniteSet(S) /\ IsFiniteSet(T) /\ S \union T \in SUBSET (1..last) BY <1>1, FS_Subset
<1>3. IsFiniteSet(S \union T) /\ Cardinality(S \union T) <= last BY <1>1, <1>2, FS_Subset
<1>4. Cardinality(S \union T) = Cardinality(S) + Cardinality(T) - Cardinality(S \intersect T)
  BY <1>2, FS_Union
<1>5. Cardinality(S \intersect T) = 0 BY FS_EmptySet
<1>6. Cardinality(S) \in Nat /\ Cardinality(T) \in Nat BY <1>2, FS_CardinalityType
<1> QED BY <1>2, <1>3, <1>4, <1>5, <1>6

LEMMA Numbered ==
  ASSUME MailInv
  PROVE  /\ last_msg \in Nat /\ log.told \in SUBSET (1..last_msg)
         /\ log.queued \in SUBSET (1..last_msg) /\ log \in Log
  BY MailServerAssumption DEF MailInv, Files, FilesOK, LogOK, Log, Known, Numbers

\* There is a number for every message that may be added.
LEMMA ToldBound ==
  ASSUME MailInv
  PROVE  /\ IsFiniteSet(log.told) /\ Cardinality(log.told) \in Nat
         /\ Cardinality(log.told) <= MaxSubmits
<1>1. PICK ns \in SUBSET (1..last_msg) : AreNotices(ns) BY DEF MailInv, Counted
<1>2. ns \intersect log.told = {} /\ Cardinality(ns) = Cardinality(log.told)
  BY <1>1 DEF AreNotices
<1>3. IsFiniteSet(log.told) /\ Cardinality(log.told) \in Nat
      /\ Cardinality(log.told) + Cardinality(ns) <= last_msg
  BY <1>2, Numbered, Apart
<1> QED BY <1>2, <1>3, Numbered, MailServerAssumption DEF MailInv, Counted

LEMMA BlankIs ==
  /\ Blank \in Header /\ Blank.number = 0 /\ Blank.about = 0 /\ Blank.attempts = 0
  /\ Blank.transit = FALSE /\ Blank.deleted = FALSE
<1>1. 0 \in Attempts BY MailServerAssumption DEF Attempts
<1> QED BY <1>1 DEF Blank, Header, Places

LEMMA SubmitStep ==
  ASSUME MailInv, Alone, NEW to, NEW from, <<to, from>> \in Mail, Submit(to, from)
  PROVE  MailInv'
<1> DEFINE h == [Blank EXCEPT !.to = to, !.from = from]
<1>1. PICK k : k = last_msg + 1 OBVIOUS
<1>2. to \in Places /\ from \in {"net", "box", "none"} BY MailServerAssumption
<1>3. h \in Header /\ h.to = to /\ h.from = from /\ h.about = 0 /\ h.attempts = 0
      /\ h.transit = FALSE /\ h.deleted = FALSE
  <2>1. Blank \in Header /\ Blank.about = 0 /\ Blank.attempts = 0 /\ Blank.transit = FALSE
        /\ Blank.deleted = FALSE
    BY BlankIs
  <2>2. \A b \in Header : LET x == [b EXCEPT !.to = to, !.from = from] IN
          /\ x \in Header /\ x.to = to /\ x.from = from /\ x.about = b.about
          /\ x.attempts = b.attempts /\ x.transit = b.transit /\ x.deleted = b.deleted
    BY <1>2 DEF Header
  <2> QED BY <2>1, <2>2
<1>4. AddHeader(h) /\ UNCHANGED <<pc, mem, remote>> /\ last_msg - Cardinality(log.told) < MaxSubmits
  BY DEF Submit
<1>5. /\ k <= MaxSubmits + Cardinality(log.told) /\ k \in Numbers
      /\ last_msg \in Nat /\ k \in Nat /\ k > last_msg /\ Files
  BY <1>1, <1>4, ToldBound, Numbered, MailServerAssumption DEF Numbers, MailInv
<1> HIDE DEF h
<1>6. /\ Files' /\ last_msg' = k /\ InIndex' = InIndex \union {k} /\ k \notin InIndex
      /\ shd'[index'[k].offset] = [h EXCEPT !.number = k]
      /\ \A n \in InIndex : Kept(n)
  BY <1>1, <1>3, <1>4, <1>5, AddIs
<1>7. /\ Msg(k)'.to = to /\ Msg(k)'.from = from /\ Msg(k)'.about = 0 /\ Msg(k)'.attempts = 0
      /\ Msg(k)'.transit = FALSE /\ Msg(k)'.deleted = FALSE
  BY <1>3, <1>6 DEF Msg, Header
<1>8. Stay("net") /\ Stay("box") BY <1>5, <1>6 DEF Stay
<1>9. \A c \in Clients : ClientAt(pc[c], mem[c])'
  <2> SUFFICES ASSUME NEW c \in Clients, NEW p, NEW x, p = pc[c], x = mem[c] PROVE ClientAt(p, x)'
    BY <1>4
  <2> QED BY <1>5, <1>8, ClientKept DEF MailInv, MemOK
<1>10. \A n \in InIndex \intersect InIndex' : Msg(n)' = Msg(n) BY <1>6 DEF Kept, Msg
<1>11. /\ log' = IF to = "net" /\ from # "none" THEN [log EXCEPT !.queued = @ \union {k}] ELSE log
  BY <1>1 DEF Submit
<1>12. /\ log' \in Log
       /\ \A n \in log'.queued : n \in log.queued \/ (n = k /\ to = "net" /\ from # "none")
       /\ log'.told = log.told /\ log'.untold = log.untold /\ log'.left = log.left
       /\ log'.refused = log.refused /\ log'.unacked = log.unacked /\ log'.troubles = log.troubles
  <2>1. CASE to = "net" /\ from # "none" BY <1>5, <1>11, <2>1, Numbered DEF Log
  <2>2. CASE ~(to = "net" /\ from # "none") BY <1>11, <2>2, Numbered
  <2> QED BY <2>1, <2>2
<1>13. to = "net" => Waits(k)' BY <1>6, <1>7 DEF Waits
<1>14. from # "none" => Bounceable(Msg(k))' BY <1>7 DEF Bounceable
<1>15. MemOK' BY <1>4 DEF MailInv, MemOK
<1>16. \A n \in log'.queued : n \in log.queued \/
         (n \in InIndex' \ InIndex /\ n <= last_msg' /\ Waits(n)' /\ Bounceable(Msg(n))')
  BY <1>5, <1>6, <1>12, <1>13, <1>14
<1>17. \A n \in InIndex' \ InIndex : Msg(n)'.attempts = 0 /\ ~Msg(n)'.transit BY <1>6, <1>7
<1> QED BY <1>4, <1>5, <1>6, <1>8, <1>9, <1>10, <1>12, <1>15, <1>16, <1>17, OthersStep

LEMMA UserDeletesStep ==
  ASSUME MailInv, Alone, NEW n \in InIndex, NEW to \in Places, UserDeletes(n, to)
  PROVE  MailInv'
<1> DEFINE h == [Msg(n) EXCEPT !.deleted = TRUE]
<1>1. Files /\ last_msg \in Nat BY Numbered DEF MailInv
<1>2. Msg(n) \in Header /\ Msg(n).number = n BY <1>1, HeaderFacts
<1>3. h \in Header /\ h.number = n /\ h.to = Msg(n).to /\ h.about = Msg(n).about
  BY <1>2 DEF Header
<1>4. Put(h) /\ UNCHANGED <<pc, mem, remote, log>> /\ Msg(n).to = "other"
  BY <1>1, UndeletedIs DEF UserDeletes, Msg, Alone
<1> HIDE DEF h
<1>5. /\ Files' /\ InIndex' = InIndex /\ last_msg' = last_msg
      /\ shd'[index'[n].offset] = h /\ \A k \in InIndex \ {n} : Kept(k)
  BY <1>1, <1>3, <1>4, PutIs
<1>6. Stay("net") /\ Stay("box") BY <1>1, <1>4, <1>5 DEF Stay
<1>7. \A c \in Clients : ClientAt(pc[c], mem[c])'
  <2> SUFFICES ASSUME NEW c \in Clients, NEW p, NEW x, p = pc[c], x = mem[c] PROVE ClientAt(p, x)'
    BY <1>4
  <2> QED BY <1>1, <1>6, ClientKept DEF MailInv, MemOK
<1>8. \A k \in InIndex \intersect InIndex' : Msg(k)'.to = Msg(k).to /\ Msg(k)'.about = Msg(k).about
  BY <1>3, <1>5 DEF Kept, Msg
<1>9. MemOK' BY <1>4 DEF MailInv, MemOK
<1>10. last_msg' <= MaxSubmits + Cardinality(log.told) BY <1>5 DEF MailInv, Counted
<1> QED BY <1>4, <1>5, <1>6, <1>7, <1>8, <1>9, <1>10, Numbered, OthersStep

LEMMA PurgeStep ==
  ASSUME MailInv, Alone, PurgeBegin \/ PurgeEnd
  PROVE  MailInv'
<1>1. Files /\ last_msg \in Nat BY Numbered DEF MailInv
<1>2. UNCHANGED <<pc, mem, remote, log>> BY DEF PurgeBegin, PurgeEnd
<1>3. /\ Files' /\ last_msg' = last_msg /\ InIndex' \subseteq InIndex
      /\ \A n \in InIndex : Kept(n) \/ (n \notin InIndex' /\ Msg(n).deleted)
  <2>1. CASE PurgeBegin BY <1>1, <2>1, PurgeIs
  <2>2. CASE PurgeEnd
    BY <1>1, <2>2 DEF PurgeEnd, Files, FilesOK, EachItsHeader, Kept, Msg, InIndex
  <2> QED BY <2>1, <2>2
<1>4. Stay("net") /\ Stay("box") BY <1>1, <1>3 DEF Stay
<1>5. \A c \in Clients : ClientAt(pc[c], mem[c])'
  <2> SUFFICES ASSUME NEW c \in Clients, NEW p, NEW x, p = pc[c], x = mem[c] PROVE ClientAt(p, x)'
    BY <1>2
  <2> QED BY <1>1, <1>4, ClientKept DEF MailInv, MemOK
<1>6. \A k \in InIndex \intersect InIndex' : Msg(k)' = Msg(k) BY <1>3 DEF Kept, Msg
<1>7. MemOK' BY <1>2 DEF MailInv, MemOK
<1>8. last_msg' <= MaxSubmits + Cardinality(log.told) BY <1>3 DEF MailInv, Counted
<1> QED BY <1>2, <1>3, <1>4, <1>5, <1>6, <1>7, <1>8, Numbered, OthersStep

---------------------------------------------------------------------------
(* pop3_thread() *)

LEMMA Lists ==
  /\ NoMem \in Mem
  /\ \A list \in SUBSET Numbers : LET m == [NoMem EXCEPT !.list = list] IN
       m \in Mem /\ m.list = list /\ m.hdr = Blank
<1>1. NoMem \in Mem BY BlankIs DEF NoMem, Mem
<1> QED BY <1>1 DEF NoMem, Mem

LEMMA PopKeeps ==
  ASSUME MailInv, Alone, NEW c \in Clients, NEW place \in PopPlaces, NEW m \in Mem,
         Files', InIndex' = InIndex, last_msg' = last_msg,
         \A n \in InIndex : Kept(n) \/
           (Msg(n).to = "box" /\ Msg(n)'.to = "box" /\ Msg(n)'.about = Msg(n).about),
         pc' = [pc EXCEPT ![c] = place], mem' = [mem EXCEPT ![c] = m],
         UNCHANGED <<remote, log>>, ClientAt(place, m)'
  PROVE  MailInv'
<1>1. MemOK /\ last_msg \in Nat BY Numbered DEF MailInv
<1>2. Stay("net") BY <1>1 DEF Stay
<1>3. pc'[c] = place /\ mem'[c] = m /\ \A t \in Threads : pc'[t] = pc[t] /\ mem'[t] = mem[t]
  BY <1>1, MailServerAssumption DEF MemOK
<1>4. \A d \in Clients : ClientAt(pc[d], mem[d])' BY <1>3 DEF Alone
<1>5. MemOK'
  <2>1. mem' \in [Threads \union Clients -> Mem] /\ DOMAIN pc' = Threads \union Clients
    BY <1>1 DEF MemOK
  <2>2. \A d \in Clients : d = c BY DEF Alone
  <2> QED BY <1>1, <1>3, <2>1, <2>2 DEF MemOK
<1>6. \A n \in InIndex \intersect InIndex' : Msg(n)'.to = Msg(n).to /\ Msg(n)'.about = Msg(n).about
  BY DEF Kept, Msg
<1>7. last_msg' <= MaxSubmits + Cardinality(log.told) BY DEF MailInv, Counted
<1> QED BY <1>2, <1>3, <1>4, <1>5, <1>6, <1>7, Numbered, OthersStep

\* Where nothing in the base changes.
LEMMA BaseKept ==
  ASSUME MailInv, UNCHANGED base
  PROVE  Files' /\ InIndex' = InIndex /\ last_msg' = last_msg /\ \A n \in InIndex : Kept(n)
BY DEF MailInv, Files, FilesOK, EachItsHeader, InIndex, Kept, Msg, base

LEMMA PopLooks ==
  ASSUME MailInv, Alone, NEW c \in Clients, NEW place \in PopPlaces, NEW m \in Mem,
         UNCHANGED <<base, remote, log>>,
         pc' = [pc EXCEPT ![c] = place], mem' = [mem EXCEPT ![c] = m], ClientAt(place, m)
  PROVE  MailInv'
<1>1. ClientAt(place, m)' BY DEF ClientAt, Msg, InIndex, base
<1> QED BY <1>1, BaseKept, PopKeeps

\* A client that is ready for the next command.
LEMMA PopIsReady ==
  ASSUME MailInv, Alone, NEW c \in Clients, PopReady(c), ClientAt(pc[c], mem[c]),
         Files', InIndex' = InIndex, last_msg' = last_msg,
         \A n \in InIndex : Kept(n) \/
           (Msg(n).to = "box" /\ Msg(n)'.to = "box" /\ Msg(n)'.about = Msg(n).about)
  PROVE  MailInv'
<1> SUFFICES ASSUME NEW list, list = mem[c].list PROVE MailInv' OBVIOUS
<1> DEFINE m == [NoMem EXCEPT !.list = list]
<1>1. mem[c] \in Mem /\ list \in SUBSET Numbers BY DEF MailInv, MemOK, Mem
<1>2. m \in Mem /\ m.list = list BY <1>1, Lists
<1>3. mem' = [mem EXCEPT ![c] = m] /\ pc' = [pc EXCEPT ![c] = "transaction"]
      /\ UNCHANGED <<remote, log>>
  BY DEF PopReady, Remember, Go
<1> HIDE DEF m
<1>4. \A n \in list : n <= last_msg /\ (n \in InIndex => Msg(n).to = "box") BY DEF ClientAt
<1>5. (\A n \in list : n <= last_msg /\ (n \in InIndex => Msg(n).to = "box"))'
  BY <1>4 DEF Kept, Msg
<1>6. ClientAt("transaction", m)' BY <1>2, <1>5 DEF ClientAt
<1> QED BY <1>2, <1>3, <1>6, PopKeeps DEF PopPlaces

LEMMA PopStep ==
  ASSUME MailInv, Alone, NEW c \in Clients, Pop(c)
  PROVE  MailInv'
<1>1. /\ Files /\ mem[c] \in Mem /\ ClientAt(pc[c], mem[c]) /\ last_msg \in Nat
      /\ mem[c].list \subseteq Numbers
  BY Numbered DEF MailInv, MemOK, Mem
<1>2. CASE PopLogin(c)
  <2> SUFFICES ASSUME NEW list, list = Undeleted("box") PROVE MailInv' OBVIOUS
  <2> DEFINE m == [NoMem EXCEPT !.list = list]
  <2>1. list \in SUBSET Numbers /\ \A n \in list : n \in 1..last_msg /\ Msg(n).to = "box"
    BY <1>1, UndeletedIs, HeaderFacts DEF Undeleted
  <2>2. m \in Mem /\ m.list = list BY <2>1, Lists
  <2>3. /\ mem' = [mem EXCEPT ![c] = m] /\ pc' = [pc EXCEPT ![c] = "transaction"]
        /\ UNCHANGED <<base, remote, log>>
    BY <1>2 DEF PopLogin, Remember, Go
  <2>4. ClientAt("transaction", m) BY <1>1, <2>1, <2>2 DEF ClientAt
  <2> QED BY <2>2, <2>3, <2>4, PopLooks DEF PopPlaces
<1>3. ASSUME NEW n \in Numbers, PopFind(c, n) PROVE MailInv'
  <2> SUFFICES ASSUME NEW x \in Mem, x = mem[c], NEW o, o = index[n].offset PROVE MailInv'
    BY <1>1
  <2> DEFINE m == [x EXCEPT !.number = n, !.offset = o]
  <2>1. n \in x.list /\ n \in InIndex /\ ~index[n].deleted BY <1>3 DEF PopFind
  <2>2. o \in Offsets /\ ~Msg(n).deleted BY <1>1, <2>1, HeaderFacts
  <2>3. m \in Mem /\ m.list = x.list /\ m.number = n /\ m.offset = o BY <2>2 DEF Mem
  <2>4. /\ mem' = [mem EXCEPT ![c] = m] /\ pc' = [pc EXCEPT ![c] = "retr"]
        /\ UNCHANGED <<base, remote, log>>
    BY <1>3 DEF PopFind, Remember, Go
  <2> HIDE DEF m
  <2>5. ClientAt("retr", m) BY <1>1, <2>1, <2>2, <2>3 DEF ClientAt
  <2> QED BY <2>3, <2>4, <2>5, PopLooks DEF PopPlaces
<1>4. CASE PopRead(c)
  <2> SUFFICES ASSUME NEW x \in Mem, x = mem[c], NEW h, h = shd[x.offset] PROVE MailInv'
    BY <1>1
  <2> DEFINE m == [x EXCEPT !.number = 0, !.hdr = h]
  <2>1. /\ pc[c] = "retr" /\ pc' = [pc EXCEPT ![c] = "text"] /\ mem' = [mem EXCEPT ![c] = m]
        /\ UNCHANGED <<base, remote, log>>
    BY <1>4 DEF PopRead, Remember, Go
  <2>2. /\ x.number \in x.list \intersect InIndex /\ ~Msg(x.number).deleted /\ h = Msg(x.number)
    BY <1>1, <2>1 DEF ClientAt, Msg
  <2>3. h \in Header /\ h.number = x.number BY <1>1, <2>2, HeaderFacts
  <2>4. m \in Mem /\ m.list = x.list /\ m.hdr = h BY <2>3 DEF Mem
  <2> HIDE DEF m
  <2>5. ClientAt("text", m) BY <1>1, <2>2, <2>3, <2>4 DEF ClientAt
  <2> QED BY <2>1, <2>4, <2>5, PopLooks DEF PopPlaces
<1>5. CASE PopMark(c)
  <2> SUFFICES ASSUME NEW h, h = mem[c].hdr PROVE MailInv' OBVIOUS
  <2>1. pc[c] = "text" /\ Put(h) /\ PopReady(c) BY <1>5 DEF PopMark, Update
  <2>2. h.number \in InIndex /\ h = Msg(h.number) BY <1>1, <2>1 DEF ClientAt
  <2>3. h \in Header BY <1>1, <2>2, HeaderFacts
  <2>4. /\ Files' /\ InIndex' = InIndex /\ last_msg' = last_msg
        /\ shd'[index'[h.number].offset] = h
        /\ index'[h.number].offset = index[h.number].offset
        /\ \A k \in InIndex \ {h.number} : Kept(k)
    BY <1>1, <2>1, <2>2, <2>3, PutIs
  <2>5. Kept(h.number) BY <2>2, <2>4 DEF Kept
  <2> QED BY <1>1, <2>1, <2>4, <2>5, PopIsReady
<1>6. CASE PopMarkFails(c)
  BY <1>1, <1>6, BaseKept, PopIsReady DEF PopMarkFails
<1>7. ASSUME NEW n \in Numbers, PopDelete(c, n) PROVE MailInv'
  <2>1. n \in mem[c].list /\ n \in InIndex /\ PopReady(c) BY <1>7 DEF PopDelete
  <2>2. Msg(n) \in Header /\ Msg(n).number = n /\ Msg(n).to = "box"
    BY <1>1, <2>1, HeaderFacts DEF ClientAt
  <2> SUFFICES ASSUME NEW h, h = [Msg(n) EXCEPT !.deleted = TRUE] PROVE MailInv' OBVIOUS
  <2>3. h \in Header /\ h.number = n /\ h.to = "box" /\ h.about = Msg(n).about
    BY <2>2 DEF Header
  <2>4. Put(h) BY <1>7 DEF PopDelete, Msg
  <2>5. /\ Files' /\ InIndex' = InIndex /\ last_msg' = last_msg
        /\ shd'[index'[n].offset] = h /\ \A k \in InIndex \ {n} : Kept(k)
    BY <1>1, <2>1, <2>3, <2>4, PutIs
  <2>6. \A k \in InIndex : Kept(k) \/
          (Msg(k).to = "box" /\ Msg(k)'.to = "box" /\ Msg(k)'.about = Msg(k).about)
    BY <2>2, <2>3, <2>5 DEF Msg
  <2> QED BY <1>1, <2>1, <2>5, <2>6, PopIsReady
<1>8. CASE PopReset(c)
  <2>1. /\ Files' /\ InIndex' = InIndex /\ last_msg' = last_msg
        /\ \A n \in InIndex : Kept(n) \/
              /\ n \in mem[c].list
              /\ shd'[index'[n].offset] = [Msg(n) EXCEPT !.deleted = FALSE]
    BY <1>1, <1>8, ResetIs
  <2>2. \A h \in Header : LET x == [h EXCEPT !.deleted = FALSE] IN x.to = h.to /\ x.about = h.about
    BY DEF Header
  <2>3. \A n \in InIndex : Msg(n) \in Header /\ (n \in mem[c].list => Msg(n).to = "box")
    BY <1>1, HeaderFacts DEF ClientAt
  <2>4. \A n \in InIndex : Kept(n) \/
          (Msg(n).to = "box" /\ Msg(n)'.to = "box" /\ Msg(n)'.about = Msg(n).about)
    <3> SUFFICES ASSUME NEW n \in InIndex, ~Kept(n), NEW h, h = Msg(n)
                 PROVE  h.to = "box" /\ Msg(n)'.to = "box" /\ Msg(n)'.about = h.about
      OBVIOUS
    <3>1. n \in mem[c].list /\ Msg(n)' = [h EXCEPT !.deleted = FALSE] BY <2>1 DEF Msg
    <3>2. h \in Header /\ h.to = "box" BY <2>3, <3>1
    <3> QED BY <2>2, <3>1, <3>2
  <2>5. PopReady(c) BY <1>8 DEF PopReset
  <2>6. Files' /\ InIndex' = InIndex /\ last_msg' = last_msg BY <2>1
  <2> QED BY <1>1, <2>4, <2>5, <2>6, PopIsReady
<1>9. CASE PopQuit(c)
  <2>1. /\ mem' = [mem EXCEPT ![c] = NoMem] /\ pc' = [pc EXCEPT ![c] = "idle"]
        /\ UNCHANGED <<base, remote, log>>
    BY <1>9 DEF PopQuit, Remember, Go
  <2>2. NoMem \in Mem /\ ClientAt("idle", NoMem) BY Lists DEF NoMem, ClientAt
  <2> QED BY <2>1, <2>2, PopLooks DEF PopPlaces
<1> QED BY <1>2, <1>3, <1>4, <1>5, <1>6, <1>7, <1>8, <1>9 DEF Pop
---------------------------------------------------------------------------
(* sendmail_thread(), where it does not change the base *)

LEMMA Placed ==
  ASSUME MemOK, Alone, NEW t \in Threads, NEW place \in SendPlaces, NEW m \in Mem,
         pc' = [pc EXCEPT ![t] = place], mem' = [mem EXCEPT ![t] = m]
  PROVE  /\ MemOK' /\ pc'[t] = place /\ mem'[t] = m
         /\ \A u \in (Threads \union Clients) \ {t} : pc'[u] = pc[u] /\ mem'[u] = mem[u]
<1>1. /\ pc'[t] = place /\ mem'[t] = m
      /\ \A u \in (Threads \union Clients) \ {t} : pc'[u] = pc[u] /\ mem'[u] = mem[u]
  BY DEF MemOK
<1>2. mem' \in [Threads \union Clients -> Mem] /\ DOMAIN pc' = Threads \union Clients
  BY DEF MemOK
<1>3. \A c \in Clients : pc'[c] = pc[c] BY <1>1, MailServerAssumption
<1> QED BY <1>1, <1>2, <1>3 DEF MemOK, Alone

\* The message a thread is at work on.
LEMMA WorksOn ==
  ASSUME MailInv, NEW t \in Threads, NEW x, x = mem[t], pc[t] \in Working
  PROVE  /\ x \in Mem /\ x.number \in Numbers /\ x.number <= last_msg /\ Waits(x.number)
         /\ x.hdr \in Header /\ x.hdr = Msg(x.number) /\ x.hdr.number = x.number
         /\ ~x.hdr.deleted /\ x.hdr.to = "net" /\ index[x.number].offset = x.offset
         /\ SenderAt(pc[t], x)
<1>1. x \in Mem /\ SenderAt(pc[t], x) /\ Files BY DEF MailInv, MemOK
<1>2. Waits(x.number) /\ x.hdr = Msg(x.number) /\ index[x.number].offset = x.offset
  BY <1>1 DEF SenderAt
<1> QED BY <1>1, <1>2, HeaderFacts DEF Waits

\* A step at work on no message.
LEMMA ListStep ==
  ASSUME MailInv, Alone, NEW t \in Threads, NEW m \in Mem,
         NEW place \in SendPlaces \ (Working \union {"notice"}),
         pc[t] \notin Working \union {"notice"}, UNCHANGED <<base, remote>>,
         pc' = [pc EXCEPT ![t] = place], mem' = [mem EXCEPT ![t] = m], SenderAt(place, m)',
         log' \in Log, log'.queued = log.queued, log'.told = log.told,
         log.untold \subseteq log'.untold, log.left \subseteq log'.left,
         log'.refused = log.refused, log.troubles <= log'.troubles,
         log'.unacked = log.unacked
  PROVE  MailInv'
<1>1. /\ MemOK' /\ pc'[t] = place /\ mem'[t] = m
      /\ \A u \in (Threads \union Clients) \ {t} : pc'[u] = pc[u] /\ mem'[u] = mem[u]
  BY Placed DEF MailInv
<1>2. Files' /\ InIndex' = InIndex /\ last_msg' = last_msg /\ \A n \in InIndex : Kept(n)
  BY BaseKept
<1>3. LogOK' BY <1>2 DEF MailInv, LogOK
<1>4. 0 \notin Numbers BY MailServerAssumption DEF Numbers
<1> QED BY <1>1, <1>2, <1>3, <1>4, OwnStep

\* A step at work on message n, which may be the last.
LEMMA WorkStep ==
  ASSUME MailInv, Alone, NEW t \in Threads, NEW m \in Mem, NEW n \in Numbers, n = mem[t].number,
         NEW place \in SendPlaces \ {"notice"}, pc[t] \in Working \union {"notice"},
         UNCHANGED base, pc' = [pc EXCEPT ![t] = place], mem' = [mem EXCEPT ![t] = m],
         SenderAt(place, m)', place \in Working \ {"giveup"} => pc[t] \in Working /\ m.number = n,
         place # "giveup",
         log' \in Log, remote' \in [Numbers -> 0..(MaxAttempts + 1)],
         log'.queued = log.queued, log'.told = log.told,
         log.untold \subseteq log'.untold, log.left \subseteq log'.left,
         log.refused \subseteq log'.refused, log.troubles <= log'.troubles,
         \A k \in Numbers \ {n} : remote'[k] = remote[k] /\ log'.unacked[k] = log.unacked[k],
         remote[n] <= remote'[n], log'.unacked[n] <= remote'[n],
         pc[t] = "giveup" => log'.troubles = log.troubles + 1,
         place \notin Working /\ Msg(n).transit /\ Waits(n) => n \in log'.left \union log'.refused,
         pc[t] = "notice" => n \in log'.untold,
         OnceAt(n)'
  PROVE  MailInv'
<1>1. /\ MemOK' /\ pc'[t] = place /\ mem'[t] = m
      /\ \A u \in (Threads \union Clients) \ {t} : pc'[u] = pc[u] /\ mem'[u] = mem[u]
  BY Placed DEF MailInv
<1>2. Files' /\ InIndex' = InIndex /\ last_msg' = last_msg /\ \A k \in InIndex : Kept(k)
  BY BaseKept
<1>3. /\ Waits(n)' <=> Waits(n)
      /\ Msg(n)' = Msg(n)
  BY DEF Waits, Msg, InIndex, base
<1>4. n <= last_msg /\ SenderAt(pc[t], mem[t]) /\ LogOK /\ MessageInv(n)
  BY WorksOn, Numbered DEF MailInv, SenderAt
<1>5. LogOK' BY <1>2, <1>4 DEF LogOK
<1>6. TriesAt(n)'
  <2> SUFFICES ASSUME Waits(n) PROVE (Msg(n).attempts <= MaxAttempts + log.troubles)'
    BY <1>3 DEF TriesAt
  <2>1. /\ Msg(n).attempts \in Nat /\ log.troubles \in Nat /\ log'.troubles \in Nat
        /\ MaxAttempts \in Nat
    BY <1>4, HeaderFacts, MailServerAssumption DEF MailInv, Waits, LogOK, Log, Header, Attempts
  <2>2. CASE pc[t] = "giveup"
    <3>1. mem[t].hdr.attempts <= MaxAttempts + log.troubles + 1 /\ mem[t].hdr = Msg(n)
      BY <1>4, <2>2 DEF SenderAt, Working
    <3> QED BY <1>3, <2>1, <2>2, <3>1
  <2>3. CASE pc[t] # "giveup"
    <3>1. Msg(n).attempts <= MaxAttempts + log.troubles
      BY <1>4, <2>3 DEF MessageInv, TriesAt, Alone
    <3> QED BY <1>3, <2>1, <3>1
  <2> QED BY <2>2, <2>3
<1>7. OwnedAt(n)' BY <1>1, <1>3 DEF OwnedAt
<1>8. StaysAt(n)'
  <2>1. remote[n] > 0 => remote'[n] > 0
    BY <1>4, MailServerAssumption DEF LogOK
  <2> QED BY <1>3, <1>4, <2>1 DEF MessageInv, StaysAt, Alone
<1> QED BY <1>1, <1>2, <1>4, <1>5, <1>6, <1>7, <1>8, OwnStep DEF MessageInv
LEMMA SenderMoves ==
  ASSUME MailInv, NEW t \in Threads, NEW x, x = mem[t], pc[t] \in Working, UNCHANGED base,
         NEW m \in Mem, m.list = x.list, m.number = x.number, m.offset = x.offset, m.hdr = x.hdr,
         NEW place \in {"untransit", "bounce", "sent", "next"},
         place \in {"untransit", "sent"} => pc[t] = "sending",
         place = "bounce" /\ x.hdr.transit => x.number \in log'.left \union log'.refused,
         place = "sent" => remote'[x.number] > log'.unacked[x.number]
  PROVE  SenderAt(place, m)'
<1>1. SenderAt(pc[t], x) /\ x.hdr = Msg(x.number) /\ Waits(x.number)
  BY WorksOn
<1>2. \A n : (Waits(n)' <=> Waits(n)) /\ Msg(n)' = Msg(n) /\ index'[n].offset = index[n].offset
  BY DEF Waits, Msg, InIndex, base
<1> QED BY <1>1, <1>2 DEF SenderAt, Working

\* Before it was accepted, it has not been taken, or was not acknowledged.
LEMMA NotYet ==
  ASSUME MailInv, Alone, NEW t \in Threads, pc[t] \in Working \ {"sent"}, NEW n, n = mem[t].number
  PROVE  /\ remote[n] \in Nat /\ log.unacked[n] \in Nat /\ log.unacked[n] <= remote[n]
         /\ pc[t] \in {"sending", "untransit"} => Msg(n).transit
         /\ ~SendInTransit => remote[n] <= log.unacked[n]
<1>1. /\ n \in Numbers /\ Waits(n) /\ mem[t].hdr = Msg(n) /\ OnceAt(n)
      /\ pc[t] \in {"sending", "untransit"} => mem[t].hdr.transit
  BY WorksOn DEF SenderAt, MailInv, MessageInv
<1>2. remote[n] \in Nat /\ log.unacked[n] \in Nat /\ log.unacked[n] <= remote[n]
  BY <1>1, MailServerAssumption DEF MailInv, LogOK, Log
<1> QED BY <1>1, <1>2 DEF OnceAt

LEMMA TroubleStep ==
  ASSUME MailInv, Alone, NEW t \in Threads, SendTrouble(t)
  PROVE  MailInv'
<1> SUFFICES ASSUME NEW x \in Mem, x = mem[t], NEW n \in Numbers, n = x.number PROVE MailInv'
  BY WorksOn DEF SendTrouble, Working
<1>1. /\ pc[t] = "sending" /\ pc' = [pc EXCEPT ![t] = "untransit"]
      /\ mem' = [mem EXCEPT ![t] = x] /\ UNCHANGED <<base, remote>>
  BY DEF SendTrouble, Go, MailInv, MemOK
<1>2. /\ log' \in Log /\ log'.troubles = log.troubles + 1 /\ log'.queued = log.queued
      /\ log'.told = log.told /\ log'.untold = log.untold /\ log'.left = log.left
      /\ log'.refused = log.refused /\ log'.unacked = log.unacked /\ log.troubles <= log'.troubles
  BY Numbered, MailServerAssumption DEF SendTrouble, Trouble, Log
<1>3. SenderAt("untransit", x)' BY <1>1, SenderMoves DEF Working
<1>4. OnceAt(n)' BY <1>1, <1>2, NotYet DEF OnceAt, Working
<1>5. remote \in [Numbers -> 0..(MaxAttempts + 1)] /\ remote[n] <= remote'[n]
      /\ log'.unacked[n] <= remote'[n]
  BY <1>1, <1>2, NotYet DEF MailInv, LogOK, Working
<1> QED BY <1>1, <1>2, <1>3, <1>4, <1>5, WorkStep DEF SendPlaces, Working
\* A thread that bounces the message: what it remembers.
LEMMA Bouncing ==
  ASSUME NEW x \in Mem, NEW immediate \in BOOLEAN, NEW m,
         m = [x EXCEPT !.bounce = TRUE, !.immediate = immediate]
  PROVE  m \in Mem /\ m.list = x.list /\ m.number = x.number /\ m.offset = x.offset /\ m.hdr = x.hdr
BY DEF Mem

LEMMA RefusedStep ==
  ASSUME MailInv, Alone, NEW t \in Threads, NEW immediate \in BOOLEAN, SendRefused(t, immediate)
  PROVE  MailInv'
<1> SUFFICES ASSUME NEW x \in Mem, x = mem[t], NEW n \in Numbers, n = x.number,
                    NEW m, m = [x EXCEPT !.bounce = TRUE, !.immediate = immediate]
             PROVE  MailInv'
  BY WorksOn DEF SendRefused, Working
<1>1. /\ pc[t] = "sending" /\ pc' = [pc EXCEPT ![t] = "untransit"]
      /\ mem' = [mem EXCEPT ![t] = m] /\ UNCHANGED <<base, remote, log>>
  BY DEF SendRefused, Go, Remember
<1>2. m \in Mem /\ m.list = x.list /\ m.number = n /\ m.offset = x.offset /\ m.hdr = x.hdr
  BY Bouncing
<1>3. SenderAt("untransit", m)' BY <1>1, <1>2, SenderMoves DEF Working
<1>4. OnceAt(n)' BY <1>1, NotYet DEF OnceAt, Working
<1>5. /\ log \in Log /\ remote \in [Numbers -> 0..(MaxAttempts + 1)] /\ remote[n] <= remote'[n]
      /\ log'.unacked[n] <= remote'[n] /\ log.troubles <= log'.troubles
  BY <1>1, NotYet, MailServerAssumption DEF MailInv, LogOK, Log, Working
<1> QED BY <1>1, <1>2, <1>3, <1>4, <1>5, WorkStep DEF SendPlaces, Working

LEMMA AuthFailsStep ==
  ASSUME MailInv, Alone, NEW t \in Threads, NEW immediate \in BOOLEAN, SendAuthFails(t, immediate)
  PROVE  MailInv'
<1> SUFFICES ASSUME NEW x \in Mem, x = mem[t], NEW n \in Numbers, n = x.number,
                    NEW m, m = [x EXCEPT !.bounce = TRUE, !.immediate = immediate]
             PROVE  MailInv'
  BY WorksOn DEF SendAuthFails, Working
<1>1. /\ pc[t] = "sending" /\ pc' = [pc EXCEPT ![t] = "bounce"]
      /\ mem' = [mem EXCEPT ![t] = m] /\ UNCHANGED <<base, remote>>
      /\ log' = [log EXCEPT !.refused = @ \union {n}]
  BY WorksOn DEF SendAuthFails, Go, Remember, Working
<1>2. m \in Mem /\ m.list = x.list /\ m.number = n /\ m.offset = x.offset /\ m.hdr = x.hdr
  BY Bouncing
<1>3. /\ log' \in Log /\ log'.troubles = log.troubles /\ log'.queued = log.queued
      /\ log'.told = log.told /\ log'.untold = log.untold /\ log'.left = log.left
      /\ log'.refused = log.refused \union {n} /\ log'.unacked = log.unacked
      /\ log.troubles <= log'.troubles
  BY <1>1, Numbered, MailServerAssumption DEF Log
<1>4. SenderAt("bounce", m)' BY <1>1, <1>2, <1>3, SenderMoves DEF Working
<1>5. OnceAt(n)' BY <1>1, <1>3, NotYet DEF OnceAt, Working
<1>6. remote \in [Numbers -> 0..(MaxAttempts + 1)] /\ remote[n] <= remote'[n]
      /\ log'.unacked[n] <= remote'[n]
  BY <1>1, <1>3, NotYet DEF MailInv, LogOK, Working
<1> QED BY <1>1, <1>2, <1>3, <1>4, <1>5, <1>6, WorkStep DEF SendPlaces, Working

\* Another host takes a copy.
LEMMA TakenIs ==
  ASSUME MailInv, Alone, NEW t \in Threads, pc[t] = "sending", NEW n, n = mem[t].number, Taken(t)
  PROVE  /\ remote' \in [Numbers -> 0..(MaxAttempts + 1)]
         /\ remote'[n] = remote[n] + 1 /\ remote[n] <= MaxAttempts
         /\ \A k \in Numbers \ {n} : remote'[k] = remote[k]
<1>1. n \in Numbers /\ mem[t].hdr.number = n BY WorksOn DEF Working
<1>2. remote \in [Numbers -> 0..(MaxAttempts + 1)] BY DEF MailInv, LogOK
<1>3. remote[n] <= MaxAttempts /\ remote' = [remote EXCEPT ![n] = @ + 1] BY <1>1 DEF Taken
<1> QED BY <1>1, <1>2, <1>3, MailServerAssumption

LEMMA AcceptedStep ==
  ASSUME MailInv, Alone, NEW t \in Threads, SendAccepted(t)
  PROVE  MailInv'
<1> SUFFICES ASSUME NEW x \in Mem, x = mem[t], NEW n \in Numbers, n = x.number PROVE MailInv'
  BY WorksOn DEF SendAccepted, Working
<1>1. /\ pc[t] = "sending" /\ pc' = [pc EXCEPT ![t] = "sent"]
      /\ mem' = [mem EXCEPT ![t] = x] /\ UNCHANGED <<base, log>>
  BY DEF SendAccepted, Go, MailInv, MemOK
<1>2. /\ remote' \in [Numbers -> 0..(MaxAttempts + 1)] /\ remote'[n] = remote[n] + 1
      /\ \A k \in Numbers \ {n} : remote'[k] = remote[k]
  BY <1>1, TakenIs DEF SendAccepted
<1>3. /\ remote[n] \in Nat /\ log.unacked[n] \in Nat /\ log.unacked[n] <= remote[n]
      /\ Msg(n).transit
      /\ ~SendInTransit => remote[n] <= log.unacked[n]
  BY <1>1, NotYet DEF Working
<1>4. SenderAt("sent", x)' BY <1>1, <1>2, <1>3, SenderMoves DEF Working
<1>5. OnceAt(n)'
  <2>1. Msg(n)' = Msg(n) BY <1>1 DEF Msg, base
  <2>2. \A u \in Threads : pc'[u] = "sent" BY <1>1 DEF MailInv, MemOK, Alone
  <2> QED BY <1>1, <1>2, <1>3, <2>1, <2>2 DEF OnceAt
<1>6. log \in Log /\ log.troubles <= log.troubles BY MailServerAssumption DEF MailInv, LogOK, Log
<1>7. remote[n] <= remote'[n] /\ log'.unacked[n] <= remote'[n] BY <1>1, <1>2, <1>3
<1> QED BY <1>1, <1>2, <1>4, <1>5, <1>6, <1>7, WorkStep DEF SendPlaces, Working

LEMMA AckLostStep ==
  ASSUME MailInv, Alone, NEW t \in Threads, SendAckLost(t)
  PROVE  MailInv'
<1> SUFFICES ASSUME NEW x \in Mem, x = mem[t], NEW n \in Numbers, n = x.number,
                    NEW m, m = [x EXCEPT !.bounce = TRUE, !.immediate = FALSE]
             PROVE  MailInv'
  BY WorksOn DEF SendAckLost, Working
<1>1. /\ pc[t] = "sending" /\ pc' = [pc EXCEPT ![t] = "untransit"]
      /\ mem' = [mem EXCEPT ![t] = m] /\ UNCHANGED base
      /\ log' = [log EXCEPT !.unacked[n] = @ + 1]
  BY WorksOn DEF SendAckLost, Go, Remember, Working
<1>2. m \in Mem /\ m.list = x.list /\ m.number = n /\ m.offset = x.offset /\ m.hdr = x.hdr
  BY Bouncing
<1>3. /\ remote' \in [Numbers -> 0..(MaxAttempts + 1)] /\ remote'[n] = remote[n] + 1
      /\ remote[n] <= MaxAttempts /\ \A k \in Numbers \ {n} : remote'[k] = remote[k]
  BY <1>1, TakenIs DEF SendAckLost
<1>4. /\ remote[n] \in Nat /\ log.unacked[n] \in Nat /\ log.unacked[n] <= remote[n]
      /\ Msg(n).transit
  BY <1>1, NotYet DEF Working
<1>5. /\ log' \in Log /\ log'.troubles = log.troubles /\ log'.queued = log.queued
      /\ log'.told = log.told /\ log'.untold = log.untold /\ log'.left = log.left
      /\ log'.refused = log.refused /\ log.troubles <= log'.troubles
      /\ log'.unacked[n] = log.unacked[n] + 1
      /\ \A k \in Numbers \ {n} : log'.unacked[k] = log.unacked[k]
  <2>1. log \in Log /\ log.unacked \in [Numbers -> 0..(MaxAttempts + 1)] BY Numbered DEF Log
  <2>2. log.unacked[n] + 1 \in 0..(MaxAttempts + 1) BY <1>3, <1>4, MailServerAssumption
  <2> QED BY <1>1, <2>1, <2>2, MailServerAssumption DEF Log
<1>6. SenderAt("untransit", m)' BY <1>1, <1>2, SenderMoves DEF Working
<1>7. OnceAt(n)'
  <2>1. ~SendInTransit => remote[n] <= log.unacked[n] BY <1>1, NotYet DEF Working
  <2> QED BY <1>3, <1>4, <1>5, <2>1 DEF OnceAt
<1>8. remote[n] <= remote'[n] /\ log'.unacked[n] <= remote'[n] BY <1>3, <1>4, <1>5
<1> QED BY <1>1, <1>2, <1>3, <1>5, <1>6, <1>7, <1>8, WorkStep DEF SendPlaces, Working
LEMMA UntransitFailsStep ==
  ASSUME MailInv, Alone, NEW t \in Threads, UntransitFails(t)
  PROVE  MailInv'
<1> SUFFICES ASSUME NEW x \in Mem, x = mem[t], NEW n \in Numbers, n = x.number,
                    NEW place, place = IF x.bounce THEN "bounce" ELSE "next"
             PROVE  MailInv'
  BY WorksOn DEF UntransitFails, Working
<1>1. /\ pc[t] = "untransit" /\ pc' = [pc EXCEPT ![t] = place]
      /\ mem' = [mem EXCEPT ![t] = x] /\ UNCHANGED <<base, remote>>
      /\ log' = [log EXCEPT !.troubles = @ + 1, !.left = @ \union {n}] /\ Trouble
  BY WorksOn DEF UntransitFails, AfterUntransit, Go, MailInv, MemOK, Working
<1>2. /\ log' \in Log /\ log'.troubles = log.troubles + 1 /\ log'.queued = log.queued
      /\ log'.told = log.told /\ log'.untold = log.untold /\ log'.left = log.left \union {n}
      /\ log'.refused = log.refused /\ log'.unacked = log.unacked /\ log.troubles <= log'.troubles
  <2>1. /\ log \in Log /\ log.troubles + 1 \in 0..MaxTroubles /\ log.troubles <= log.troubles + 1
        /\ log.left \union {n} \in SUBSET Numbers
    BY <1>1, Numbered, MailServerAssumption DEF Trouble, Log
  <2> QED BY <1>1, <2>1 DEF Log
<1>3. SenderAt(place, x)' BY <1>1, <1>2, SenderMoves DEF Working
<1>4. OnceAt(n)' BY <1>1, <1>2, NotYet DEF OnceAt, Working
<1>5. remote \in [Numbers -> 0..(MaxAttempts + 1)] /\ remote[n] <= remote'[n]
      /\ log'.unacked[n] <= remote'[n]
  BY <1>1, <1>2, NotYet DEF MailInv, LogOK, Working
<1> QED BY <1>1, <1>2, <1>3, <1>4, <1>5, WorkStep DEF SendPlaces, Working

LEMMA BounceFailsStep ==
  ASSUME MailInv, Alone, NEW t \in Threads, BounceFails(t)
  PROVE  MailInv'
<1> SUFFICES ASSUME NEW x \in Mem, x = mem[t], NEW n \in Numbers, n = x.number PROVE MailInv'
  BY WorksOn DEF BounceFails, Working
<1>1. /\ pc[t] \in {"bounce", "giveup"} /\ pc' = [pc EXCEPT ![t] = "next"]
      /\ mem' = [mem EXCEPT ![t] = x] /\ UNCHANGED <<base, remote>>
  BY DEF BounceFails, Go, MailInv, MemOK
<1>2. /\ Waits(n) /\ x.hdr.number = n /\ x.hdr = Msg(n) /\ SenderAt(pc[t], x)
  BY <1>1, WorksOn DEF Working
<1>3. log' = [log EXCEPT !.troubles = @ + 1] /\ Trouble
  BY <1>2 DEF BounceFails, NotInBase, Waits
<1>4. /\ log' \in Log /\ log'.troubles = log.troubles + 1 /\ log'.queued = log.queued
      /\ log'.told = log.told /\ log'.untold = log.untold /\ log'.left = log.left
      /\ log'.refused = log.refused /\ log'.unacked = log.unacked /\ log.troubles <= log'.troubles
  BY <1>3, Numbered, MailServerAssumption DEF Trouble, Log
<1>5. SenderAt("next", x)' BY <1>1, SenderMoves DEF Working
<1>6. OnceAt(n)' BY <1>1, <1>4, NotYet DEF OnceAt, Working
<1>7. remote \in [Numbers -> 0..(MaxAttempts + 1)] /\ remote[n] <= remote'[n]
      /\ log'.unacked[n] <= remote'[n]
  BY <1>1, <1>4, NotYet DEF MailInv, LogOK, Working
<1>8. Msg(n).transit => n \in log'.left \union log'.refused
  <2>1. pc[t] = "giveup" \/ pc[t] = "bounce" BY <1>1
  <2> QED BY <1>2, <1>4, <2>1 DEF SenderAt
<1> QED BY <1>1, <1>4, <1>5, <1>6, <1>7, <1>8, WorkStep DEF SendPlaces, Working

LEMMA NoticeFailsStep ==
  ASSUME MailInv, Alone, NEW t \in Threads, NoticeFails(t)
  PROVE  MailInv'
<1>0. /\ pc[t] = "notice" /\ SenderAt("notice", mem[t]) /\ mem[t] \in Mem
      /\ last_msg \in Nat /\ Files
  BY Numbered DEF NoticeFails, MailInv, MemOK
<1>1. mem[t].number \in Numbers
  BY <1>0, MailServerAssumption DEF SenderAt, Mem, Numbers
<1> SUFFICES ASSUME NEW x \in Mem, x = mem[t], NEW n \in Numbers, n = x.number PROVE MailInv'
  BY <1>0, <1>1
<1>2. /\ pc' = [pc EXCEPT ![t] = "next"] /\ mem' = [mem EXCEPT ![t] = x]
      /\ UNCHANGED <<base, remote>> /\ x.hdr.number = n /\ ~Waits(n)
  BY <1>0 DEF NoticeFails, Go, MailInv, MemOK, SenderAt, Waits
<1>3. /\ log' \in Log /\ log'.troubles = log.troubles + 1 /\ log'.queued = log.queued
      /\ log'.told = log.told /\ log'.untold = log.untold \union {n} /\ log'.left = log.left
      /\ log'.refused = log.refused /\ log'.unacked = log.unacked /\ log.troubles <= log'.troubles
  <2>1. /\ log \in Log /\ log.troubles + 1 \in 0..MaxTroubles /\ log.troubles <= log.troubles + 1
        /\ log.untold \union {n} \in SUBSET Numbers
    BY Numbered, MailServerAssumption DEF NoticeFails, Trouble, Log
  <2>2. log' = [log EXCEPT !.troubles = @ + 1, !.untold = @ \union {n}] BY <1>2 DEF NoticeFails
  <2> QED BY <2>1, <2>2 DEF Log
<1>4. SenderAt("next", x)'
  <2>1. \A k : Waits(k)' <=> Waits(k) BY <1>2 DEF Waits, Msg, InIndex, base
  <2> QED BY <1>0, <2>1 DEF SenderAt, Working
<1>5. OnceAt(n)'
  <2>1. OnceAt(n) /\ ~Waits(n)' BY <1>2 DEF MailInv, MessageInv, Waits, Msg, InIndex, base
  <2> QED BY <1>2, <1>3, <2>1 DEF OnceAt
<1>6. remote \in [Numbers -> 0..(MaxAttempts + 1)] /\ log.unacked[n] <= remote[n]
      /\ remote[n] <= remote[n]
  BY MailServerAssumption DEF MailInv, LogOK
<1> QED BY <1>0, <1>2, <1>3, <1>4, <1>5, <1>6, WorkStep DEF SendPlaces, Working

LEMMA DoneFailsStep ==
  ASSUME MailInv, Alone, NEW t \in Threads, SendDoneFails(t)
  PROVE  MailInv'
<1> SUFFICES ASSUME NEW x \in Mem, x = mem[t], NEW n \in Numbers, n = x.number PROVE MailInv'
  BY WorksOn DEF SendDoneFails, Working
<1>1. /\ pc[t] = "sent" /\ pc' = [pc EXCEPT ![t] = "next"]
      /\ mem' = [mem EXCEPT ![t] = x] /\ UNCHANGED <<base, remote>>
  BY DEF SendDoneFails, Go, MailInv, MemOK
<1>2. /\ Waits(n) /\ x.hdr.number = n /\ x.hdr = Msg(n) /\ x.hdr.transit
  BY <1>1, WorksOn DEF Working, SenderAt
<1>3. log' = [log EXCEPT !.troubles = @ + 1, !.left = @ \union {n}] /\ Trouble
  BY <1>2 DEF SendDoneFails, NotInBase, Waits
<1>4. /\ log' \in Log /\ log'.troubles = log.troubles + 1 /\ log'.queued = log.queued
      /\ log'.told = log.told /\ log'.untold = log.untold /\ log'.left = log.left \union {n}
      /\ log'.refused = log.refused /\ log'.unacked = log.unacked /\ log.troubles <= log'.troubles
  <2>1. /\ log \in Log /\ log.troubles + 1 \in 0..MaxTroubles /\ log.troubles <= log.troubles + 1
        /\ log.left \union {n} \in SUBSET Numbers
    BY <1>3, Numbered, MailServerAssumption DEF Trouble, Log
  <2> QED BY <1>3, <2>1 DEF Log
<1>5. SenderAt("next", x)' BY <1>1, SenderMoves DEF Working
<1>6. OnceAt(n)'
  <2>1. OnceAt(n) /\ (Waits(n)' => Msg(n)'.transit)
    BY <1>1, <1>2 DEF MailInv, MessageInv, Msg, base
  <2>2. \A u \in Threads : pc'[u] \notin Working BY <1>1 DEF MailInv, MemOK, Alone, Working
  <2> QED BY <1>1, <1>4, <2>1, <2>2 DEF OnceAt
<1>7. remote \in [Numbers -> 0..(MaxAttempts + 1)] /\ log.unacked[n] <= remote[n]
      /\ remote[n] <= remote[n]
  BY MailServerAssumption DEF MailInv, LogOK
<1> QED BY <1>1, <1>4, <1>5, <1>6, <1>7, WorkStep DEF SendPlaces, Working
\* The server ends; the history says of which message, if of any.
LEMMA CrashStep ==
  ASSUME MailInv, Alone, NEW t \in Threads, Crash(t)
  PROVE  MailInv'
<1> SUFFICES ASSUME NEW x \in Mem, x = mem[t], NEW n, n = x.hdr.number PROVE MailInv'
  BY DEF MailInv, MemOK
<1> DEFINE left == IF x.hdr.transit THEN log.left \union {n} ELSE log.left
           untold == IF pc[t] = "notice" THEN log.untold \union {n} ELSE log.untold
<1>1. /\ pc' = [pc EXCEPT ![t] = "idle"] /\ mem' = [mem EXCEPT ![t] = NoMem]
      /\ UNCHANGED <<base, remote>> /\ Trouble
      /\ log' = [log EXCEPT !.troubles = @ + 1, !.left = left, !.untold = untold]
  BY DEF Crash, Remember, Go
<1>2. SenderAt(pc[t], x) /\ LogOK /\ Files BY DEF MailInv
<1>3. pc[t] = "notice" => n = x.number /\ n \in Numbers /\ ~Waits(n)
  BY <1>2, Numbered, MailServerAssumption DEF SenderAt, Mem, Numbers, Waits
<1>4. left \in SUBSET Numbers /\ untold \in SUBSET Numbers
  <2>1. x.hdr.transit => n \in Numbers BY <1>2 DEF SenderAt, Mem, Header
  <2> QED BY <1>2, <1>3, <2>1 DEF LogOK, Log
<1> HIDE DEF left, untold
<1>5. /\ log' \in Log /\ log'.troubles = log.troubles + 1 /\ log'.queued = log.queued
      /\ log'.told = log.told /\ log'.untold = untold /\ log'.left = left
      /\ log'.refused = log.refused /\ log'.unacked = log.unacked /\ log.troubles <= log'.troubles
  <2>1. /\ log \in Log /\ log.troubles + 1 \in 0..MaxTroubles /\ log.troubles <= log.troubles + 1
    BY <1>1, Numbered, MailServerAssumption DEF Trouble, Log
  <2> QED BY <1>1, <1>4, <2>1 DEF Log
<1>6. log.left \subseteq left /\ log.untold \subseteq untold BY DEF left, untold
<1>7. NoMem \in Mem /\ SenderAt("idle", NoMem)'
  BY Lists, BlankIs DEF NoMem, SenderAt, Working
<1>8. CASE pc[t] \notin Working \union {"notice"}
  BY <1>1, <1>5, <1>6, <1>7, <1>8, ListStep DEF SendPlaces, Working
<1>9. CASE pc[t] \in Working \union {"notice"}
  <2>1. n \in Numbers /\ n = x.number BY <1>3, <1>9, WorksOn
  <2>2. pc[t] = "notice" => n \in untold BY DEF untold
  <2>3. Waits(n) /\ Msg(n).transit => n \in left
    <3>1. Waits(n) => x.hdr = Msg(n) BY <1>3, <1>9, <2>1, WorksOn
    <3> QED BY <3>1 DEF left
  <2>4. OnceAt(n)'
    <3>1. OnceAt(n) /\ (Waits(n)' <=> Waits(n)) /\ Msg(n)' = Msg(n)
      BY <1>1, <2>1 DEF MailInv, MessageInv, Waits, Msg, InIndex, base
    <3>2. \A u \in Threads : pc'[u] \notin Working BY <1>1 DEF MailInv, MemOK, Alone, Working
    <3> QED BY <1>1, <1>5, <3>1, <3>2 DEF OnceAt
  <2>5. /\ remote \in [Numbers -> 0..(MaxAttempts + 1)] /\ remote[n] <= remote[n]
        /\ log.unacked[n] <= remote[n]
    BY <1>2, <2>1, MailServerAssumption DEF LogOK
  <2> QED BY <1>1, <1>5, <1>6, <1>7, <1>9, <2>1, <2>2, <2>3, <2>4, <2>5, WorkStep
          DEF SendPlaces, Working
<1> QED BY <1>8, <1>9

LEMMA BeginStep ==
  ASSUME MailInv, Alone, NEW t \in Threads, SendBegin(t)
  PROVE  MailInv'
<1> SUFFICES ASSUME NEW list, list = Undeleted("net"),
                    NEW m, m = [NoMem EXCEPT !.list = list]
             PROVE  MailInv'
  OBVIOUS
<1>1. /\ pc[t] = "idle" /\ pc' = [pc EXCEPT ![t] = "list"] /\ mem' = [mem EXCEPT ![t] = m]
      /\ UNCHANGED <<base, remote, log>>
  BY DEF SendBegin, Remember, Go
<1>2. list \in SUBSET Numbers /\ \A n \in list : Waits(n)
  <2>1. Files BY DEF MailInv
  <2> QED BY <2>1, UndeletedIs, HeaderFacts DEF Waits, Undeleted
<1>3. m \in Mem /\ m.list = list /\ ~m.hdr.transit BY <1>2, Lists, BlankIs
<1>4. SenderAt("list", m)'
  <2>1. \A n : Waits(n)' <=> Waits(n) BY <1>1 DEF Waits, Msg, InIndex, base
  <2> QED BY <1>2, <1>3, <2>1 DEF SenderAt, Working
<1>5. log \in Log /\ log.troubles <= log.troubles
  BY Numbered, MailServerAssumption DEF Log
<1> QED BY <1>1, <1>3, <1>4, <1>5, ListStep DEF SendPlaces, Working

LEMMA FindStep ==
  ASSUME MailInv, Alone, NEW t \in Threads, SendFind(t)
  PROVE  MailInv'
<1> SUFFICES ASSUME NEW x \in Mem, x = mem[t] PROVE MailInv'
  BY DEF MailInv, MemOK
<1>1. PICK n \in InIndex : FirstOf(x.list, n)
        /\ mem' = [mem EXCEPT ![t] = [x EXCEPT !.number = n, !.offset = index[n].offset]]
  BY DEF SendFind, Remember
<1> SUFFICES ASSUME NEW o, o = index[n].offset,
                    NEW m, m = [x EXCEPT !.number = n, !.offset = o]
             PROVE  MailInv'
  OBVIOUS
<1>2. /\ pc[t] = "list" /\ pc' = [pc EXCEPT ![t] = "found"] /\ mem' = [mem EXCEPT ![t] = m]
      /\ UNCHANGED <<base, remote, log>>
  BY <1>1 DEF SendFind, Go
<1>3. /\ n \in x.list /\ n \in Numbers /\ o \in Offsets /\ SenderAt("list", x)
  BY <1>1, <1>2, HeaderFacts DEF FirstOf, MailInv
<1>4. m \in Mem /\ m.list = x.list /\ m.number = n /\ m.offset = o /\ m.hdr = x.hdr
  BY <1>3 DEF Mem
<1>5. SenderAt("found", m)'
  <2>1. \A k : (Waits(k)' <=> Waits(k)) /\ index'[k].offset = index[k].offset
    BY <1>2 DEF Waits, Msg, InIndex, base
  <2> QED BY <1>3, <1>4, <2>1 DEF SenderAt, Working
<1>6. log \in Log /\ log.troubles <= log.troubles
  BY Numbered, MailServerAssumption DEF Log
<1> QED BY <1>2, <1>4, <1>5, <1>6, ListStep DEF SendPlaces, Working

LEMMA FindNothingStep ==
  ASSUME MailInv, Alone, NEW t \in Threads, SendFindNothing(t)
  PROVE  MailInv'
<1>1. /\ pc[t] = "list" /\ pc' = [pc EXCEPT ![t] = "idle"] /\ mem' = [mem EXCEPT ![t] = NoMem]
      /\ UNCHANGED <<base, remote, log>>
  BY DEF SendFindNothing, Remember, Go
<1>2. NoMem \in Mem /\ SenderAt("idle", NoMem)' BY Lists, BlankIs DEF NoMem, SenderAt, Working
<1>3. log \in Log /\ log.troubles <= log.troubles
  BY Numbered, MailServerAssumption DEF Log
<1> QED BY <1>1, <1>2, <1>3, ListStep DEF SendPlaces, Working

\* On to the next message.
LEMMA ContinueStep ==
  ASSUME MailInv, Alone, NEW t \in Threads, pc[t] \in {"found", "next"}, Continue(t),
         UNCHANGED <<base, remote>>,
         log' = log \/ (Trouble /\ log' = [log EXCEPT !.troubles = @ + 1])
  PROVE  MailInv'
<1> SUFFICES ASSUME NEW x \in Mem, x = mem[t], NEW rest, rest = x.list \ {x.number},
                    NEW m, m = [NoMem EXCEPT !.list = rest],
                    NEW place, place = IF rest = {} THEN "idle" ELSE "list"
             PROVE  MailInv'
  BY DEF MailInv, MemOK
<1>1. pc' = [pc EXCEPT ![t] = place] /\ mem' = [mem EXCEPT ![t] = m]
  BY DEF Continue, Remember, Go
<1>2. rest \in SUBSET Numbers /\ \A n \in rest : Waits(n)
  <2>1. SenderAt(pc[t], x) BY DEF MailInv
  <2> QED BY <2>1 DEF SenderAt, Mem
<1>3. m \in Mem /\ m.list = rest /\ ~m.hdr.transit BY <1>2, Lists, BlankIs
<1>4. SenderAt(place, m)'
  <2>1. \A n : Waits(n)' <=> Waits(n) BY DEF Waits, Msg, InIndex, base
  <2> QED BY <1>2, <1>3, <2>1 DEF SenderAt, Working
<1>5. /\ log' \in Log /\ log'.queued = log.queued
      /\ log'.told = log.told /\ log'.untold = log.untold /\ log'.left = log.left
      /\ log'.refused = log.refused /\ log'.unacked = log.unacked /\ log.troubles <= log'.troubles
  BY Numbered, MailServerAssumption DEF Trouble, Log
<1> QED BY <1>1, <1>3, <1>4, <1>5, ListStep DEF SendPlaces, Working
---------------------------------------------------------------------------
(* sendmail_thread(), where it writes the header of its message *)

LEMMA HeaderStep ==
  ASSUME MailInv, Alone, NEW t \in Threads, NEW n \in InIndex, Waits(n), n = mem[t].number,
         pc[t] \in Working \union {"found"},
         NEW place \in {"sending", "bounce", "giveup", "notice", "next"}, NEW m \in Mem,
         pc' = [pc EXCEPT ![t] = place], mem' = [mem EXCEPT ![t] = m], UNCHANGED <<remote, log>>,
         m.list = mem[t].list, m.number = n, m.offset = index[n].offset, m.hdr.number = n,
         \* The header is h now.
         NEW h, h.to = "net", h.from = Msg(n).from, h.about = Msg(n).about,
         Files', InIndex' = InIndex, last_msg' = last_msg, shd'[index'[n].offset] = h,
         index'[n].offset = index[n].offset, \A k \in InIndex \ {n} : Kept(k),
         \* What it leads to.
         place \in Working => m.hdr = h /\ ~h.deleted,
         place = "sending" => h.transit,
         place \in {"bounce", "giveup", "notice"} /\ m.hdr.transit =>
           n \in log.left \union log.refused,
         place = "giveup" => h.attempts <= MaxAttempts + log.troubles + 1,
         place = "notice" => h.deleted /\ h.about = 0 /\ Bounceable(m.hdr),
         ~h.deleted /\ place # "giveup" => h.attempts <= MaxAttempts + log.troubles,
         ~h.deleted /\ h.transit /\ place \notin Working => n \in log.left \union log.refused,
         n \in log.queued /\ h.deleted => place = "notice" \/ remote[n] > 0,
         ~SendInTransit /\ ~h.deleted => remote[n] <= log.unacked[n]
  PROVE  MailInv'
<1>1. /\ MemOK' /\ pc'[t] = place /\ mem'[t] = m
      /\ \A u \in (Threads \union Clients) \ {t} : pc'[u] = pc[u] /\ mem'[u] = mem[u]
  <2>1. MemOK /\ place \in SendPlaces BY DEF MailInv, SendPlaces
  <2> QED BY <2>1, Placed
<1>2. /\ Files /\ LogOK /\ SenderAt(pc[t], mem[t]) /\ n \in Numbers /\ n \in 1..last_msg
      /\ last_msg \in Nat /\ MessageInv(n) /\ Known
  BY Numbered, HeaderFacts DEF MailInv
<1>3. Msg(n)' = h /\ (Waits(n)' <=> ~h.deleted) BY DEF Msg, Waits
<1>4. \A k \in InIndex : Kept(k) \/
        (k = n /\ Waits(n) /\ (Msg(n).to = "net")'
         /\ Msg(n)'.from = Msg(n).from /\ Msg(n)'.about = Msg(n).about)
  BY <1>3
<1>5. SenderAt(place, m)'
  <2>1. \A k \in m.list : Waits(k)' \/ (k = n /\ place \in {"notice", "next"})
    <3>1. \A k \in m.list : k = n \/ Waits(k) BY <1>2 DEF SenderAt
    <3>2. \A k \in InIndex \ {n} : Waits(k) => Waits(k)' BY DEF Waits, Kept, Msg
    <3>3. \A k : Waits(k) => k \in InIndex BY DEF Waits
    <3>4. Waits(n)' \/ place \in {"notice", "next"} BY <1>3 DEF Working
    <3> QED BY <3>1, <3>2, <3>3, <3>4
  <2>2. m.hdr.number # 0 BY <1>2
  <2>3. n \notin log.told BY <1>2 DEF Known, Waits
  <2> QED BY <1>2, <1>3, <2>1, <2>2, <2>3 DEF SenderAt, Working
<1>6. LogOK' BY <1>2 DEF LogOK
<1>7. TriesAt(n)' BY <1>1, <1>3 DEF TriesAt
<1>8. OwnedAt(n)' BY <1>1, <1>3 DEF OwnedAt
<1>9. StaysAt(n)' BY <1>1, <1>3 DEF StaysAt
<1>10. OnceAt(n)'
  <2>1. remote[n] \in Nat /\ log.unacked[n] \in Nat
    BY <1>2, MailServerAssumption DEF LogOK, Log
  <2> QED BY <1>2, <1>3, <2>1 DEF MessageInv, OnceAt
<1>11. log \in Log /\ log.troubles <= log.troubles
  BY Numbered, MailServerAssumption DEF Log
<1> QED BY <1>1, <1>2, <1>4, <1>5, <1>6, <1>7, <1>8, <1>9, <1>10, <1>11, OwnStep
        DEF MessageInv, Working
\* A header written where it was read, by a thread that has not searched the index again.
LEMMA WriteInPlace ==
  ASSUME Files, NEW n \in InIndex, NEW h \in Header, h.number = n, h.deleted = Msg(n).deleted,
         shd' = [shd EXCEPT ![index[n].offset] = h], UNCHANGED <<last_msg, index, purging, sha>>
  PROVE  /\ Files' /\ InIndex' = InIndex /\ last_msg' = last_msg
         /\ shd'[index'[n].offset] = h /\ index'[n].offset = index[n].offset
         /\ \A k \in InIndex \ {n} : Kept(k)
<1>1. index \in [InIndex -> [offset : Offsets, deleted : BOOLEAN]] BY DEF Files, FilesOK
<1>2. index[n].deleted = h.deleted BY HeaderFacts
<1>3. index = [index EXCEPT ![n].deleted = h.deleted] BY <1>1, <1>2
<1>4. Put(h) BY <1>3 DEF Put
<1> QED BY <1>4, PutIs

LEMMA ClaimStep ==
  ASSUME MailInv, Alone, NEW t \in Threads, SendClaim(t)
  PROVE  MailInv'
<1>0. SUFFICES ASSUME NEW x \in Mem, x = mem[t], NEW n, n = x.number,
                    NEW h, h = [shd[x.offset] EXCEPT !.transit = TRUE],
                    NEW m, m = [x EXCEPT !.hdr = h]
             PROVE  MailInv'
  BY DEF MailInv, MemOK
<1>1. /\ pc[t] = "found" /\ Claimable(shd[x.offset]) /\ pc' = [pc EXCEPT ![t] = "sending"]
      /\ mem' = [mem EXCEPT ![t] = m] /\ shd' = [shd EXCEPT ![x.offset] = h]
      /\ UNCHANGED <<last_msg, index, purging, sha, remote, log>>
  BY <1>0 DEF SendClaim, Go, Remember
<1>2. Waits(n) /\ x.offset = index[n].offset /\ n \in InIndex
  BY <1>0, <1>1 DEF MailInv, SenderAt, Waits
<1>3. Files /\ Msg(n) \in Header /\ Msg(n).number = n /\ n \in Numbers /\ MessageInv(n)
  BY <1>2, HeaderFacts DEF MailInv
<1>4. h = [Msg(n) EXCEPT !.transit = TRUE] BY <1>0, <1>2 DEF Msg
<1>5. /\ h \in Header /\ h.number = n /\ h.to = Msg(n).to /\ h.from = Msg(n).from
      /\ h.about = Msg(n).about /\ h.deleted = Msg(n).deleted /\ h.transit
      /\ h.attempts = Msg(n).attempts
  BY <1>3, <1>4 DEF Header
<1>6. m \in Mem /\ m.list = x.list /\ m.number = n /\ m.offset = index[n].offset /\ m.hdr = h
  BY <1>0, <1>2, <1>5 DEF Mem
<1>7. /\ Files' /\ InIndex' = InIndex /\ last_msg' = last_msg
      /\ shd'[index'[n].offset] = h /\ index'[n].offset = index[n].offset
      /\ \A k \in InIndex \ {n} : Kept(k)
  BY <1>1, <1>2, <1>3, <1>5, WriteInPlace
<1>8. h.to = "net" /\ ~h.deleted BY <1>2, <1>5 DEF Waits
<1>9. h.attempts <= MaxAttempts + log.troubles
  BY <1>0, <1>1, <1>2, <1>3, <1>5 DEF MessageInv, TriesAt, Alone
<1>10. ~SendInTransit => remote[n] <= log.unacked[n]
  <2>1. ~SendInTransit => ~Msg(n).transit BY <1>1, <1>2 DEF Claimable, Msg
  <2>2. remote[n] \in Nat /\ log.unacked[n] \in Nat
    BY <1>3, MailServerAssumption DEF MailInv, LogOK, Log
  <2> QED BY <1>2, <1>3, <2>1, <2>2 DEF MessageInv, OnceAt
<1>11. /\ x = mem[t] /\ m.hdr.number = n /\ n = mem[t].number /\ m.list = mem[t].list
       /\ pc[t] \in Working \union {"found"} /\ pc' = [pc EXCEPT ![t] = "sending"]
       /\ mem' = [mem EXCEPT ![t] = m] /\ UNCHANGED <<remote, log>>
  BY <1>0, <1>1, <1>5, <1>6
<1> QED BY <1>2, <1>5, <1>6, <1>7, <1>8, <1>9, <1>10, <1>11, HeaderStep DEF Working

LEMMA UntransitStep ==
  ASSUME MailInv, Alone, NEW t \in Threads, Untransit(t)
  PROVE  MailInv'
<1>0. SUFFICES ASSUME NEW x \in Mem, x = mem[t], NEW n \in Numbers, n = x.number,
                    NEW h, h = [x.hdr EXCEPT !.transit = FALSE],
                    NEW m, m = [x EXCEPT !.hdr.transit = FALSE],
                    NEW place, place = IF x.bounce THEN "bounce" ELSE "next"
             PROVE  MailInv'
  BY WorksOn DEF Untransit, Working
<1>1. /\ pc[t] = "untransit" /\ pc' = [pc EXCEPT ![t] = place]
      /\ mem' = [mem EXCEPT ![t] = m] /\ shd' = [shd EXCEPT ![x.offset] = h]
      /\ UNCHANGED <<last_msg, index, purging, sha, remote, log>>
  BY <1>0 DEF Untransit, AfterUntransit, Go, Remember
<1>2. /\ Waits(n) /\ x.offset = index[n].offset /\ n \in InIndex
      /\ x.hdr = Msg(n) /\ x.hdr \in Header /\ x.hdr.number = n
  BY <1>0, <1>1, WorksOn DEF Working, Waits
<1>3. Files /\ MessageInv(n) BY DEF MailInv
<1>4. /\ h \in Header /\ h.number = n /\ h.to = Msg(n).to /\ h.from = Msg(n).from
      /\ h.about = Msg(n).about /\ h.deleted = Msg(n).deleted /\ ~h.transit
      /\ h.attempts = Msg(n).attempts
  BY <1>0, <1>2 DEF Header
<1>5. m \in Mem /\ m.list = x.list /\ m.number = n /\ m.offset = index[n].offset /\ m.hdr = h
  <2>1. m = [x EXCEPT !.hdr = h] BY <1>0 DEF Mem
  <2> QED BY <1>0, <1>2, <1>4, <2>1 DEF Mem
<1>6. /\ Files' /\ InIndex' = InIndex /\ last_msg' = last_msg
      /\ shd'[index'[n].offset] = h /\ index'[n].offset = index[n].offset
      /\ \A k \in InIndex \ {n} : Kept(k)
  BY <1>1, <1>2, <1>3, <1>4, WriteInPlace
<1>7. /\ h.to = "net" /\ h.from = Msg(n).from /\ h.about = Msg(n).about
      /\ ~h.deleted /\ ~h.transit /\ ~m.hdr.transit /\ m.hdr.number = n
  BY <1>2, <1>4, <1>5 DEF Waits
<1>8. h.attempts <= MaxAttempts + log.troubles
  BY <1>0, <1>1, <1>2, <1>3, <1>4 DEF MessageInv, TriesAt, Alone
<1>9. ~SendInTransit => remote[n] <= log.unacked[n] BY <1>0, <1>1, NotYet DEF Working
<1>10. /\ place \in {"bounce", "next"} /\ n = mem[t].number /\ m.list = mem[t].list
       /\ pc[t] \in Working \union {"found"}
  BY <1>0, <1>1, <1>5 DEF Working
<1>11. pc' = [pc EXCEPT ![t] = place] /\ mem' = [mem EXCEPT ![t] = m] /\ UNCHANGED <<remote, log>>
  BY <1>1
<1>12. m \in Mem /\ m.number = n /\ m.offset = index[n].offset /\ m.hdr = h BY <1>5
<1>13. /\ place \in {"sending", "bounce", "giveup", "notice", "next"}
       /\ place \in Working => m.hdr = h /\ ~h.deleted
       /\ place = "sending" => h.transit
       /\ place \in {"bounce", "giveup", "notice"} /\ m.hdr.transit =>
            n \in log.left \union log.refused
       /\ place = "giveup" => h.attempts <= MaxAttempts + log.troubles + 1
       /\ place = "notice" => h.deleted /\ h.about = 0 /\ Bounceable(m.hdr)
       /\ ~h.deleted /\ place # "giveup" => h.attempts <= MaxAttempts + log.troubles
       /\ ~h.deleted /\ h.transit /\ place \notin Working => n \in log.left \union log.refused
       /\ n \in log.queued /\ h.deleted => place = "notice" \/ remote[n] > 0
       /\ ~SendInTransit /\ ~h.deleted => remote[n] <= log.unacked[n]
  BY <1>7, <1>8, <1>9, <1>10, <1>12
<1> QED BY <1>2, <1>6, <1>7, <1>10, <1>11, <1>12, <1>13, HeaderStep, ZenonT(90)

\* A thread at work on a message finds it in the base.
LEMMA UpdateIs ==
  ASSUME MailInv, NEW t \in Threads, pc[t] \in Working, NEW n, n = mem[t].number,
         NEW h \in Header, h.number = n, Update(h)
  PROVE  /\ Files' /\ InIndex' = InIndex /\ last_msg' = last_msg
         /\ shd'[index'[n].offset] = h /\ index'[n].offset = index[n].offset
         /\ \A k \in InIndex \ {n} : Kept(k)
<1>1. Files BY DEF MailInv
<1> QED BY <1>1, PutIs DEF Update
LEMMA CountStep ==
  ASSUME MailInv, Alone, NEW t \in Threads, BounceCount(t)
  PROVE  MailInv'
<1>0. SUFFICES ASSUME NEW x \in Mem, x = mem[t], NEW n \in Numbers, n = x.number,
                      NEW h, h = [x.hdr EXCEPT !.attempts = @ + 1],
                      NEW m, m = [x EXCEPT !.hdr = h],
                      NEW place,
                      place = IF x.immediate \/ h.attempts >= MaxAttempts THEN "giveup" ELSE "next"
               PROVE  MailInv'
  BY WorksOn DEF BounceCount, Working
<1>1. /\ pc[t] = "bounce" /\ Update(h) /\ pc' = [pc EXCEPT ![t] = place]
      /\ mem' = [mem EXCEPT ![t] = m] /\ UNCHANGED <<remote, log>>
  BY <1>0 DEF BounceCount, Go, Remember
<1>2. /\ Waits(n) /\ x.offset = index[n].offset /\ n \in InIndex
      /\ x.hdr = Msg(n) /\ x.hdr \in Header /\ x.hdr.number = n /\ SenderAt("bounce", x)
  BY <1>0, <1>1, WorksOn DEF Working, Waits
<1>3. /\ x.hdr.attempts <= MaxAttempts + log.troubles /\ log.troubles \in 0..MaxTroubles
      /\ x.hdr.attempts \in Nat
  <2>1. MessageInv(n) /\ log.troubles \in 0..MaxTroubles BY Numbered DEF MailInv, Log
  <2>2. x.hdr.attempts <= MaxAttempts + log.troubles
    BY <1>0, <1>1, <1>2, <2>1 DEF MessageInv, TriesAt, Alone
  <2> QED BY <1>2, <2>1, <2>2, MailServerAssumption DEF Header, Attempts
<1>4. /\ h \in Header /\ h.number = n /\ h.to = Msg(n).to /\ h.from = Msg(n).from
      /\ h.about = Msg(n).about /\ h.deleted = Msg(n).deleted /\ h.transit = x.hdr.transit
      /\ h.attempts = x.hdr.attempts + 1
  <2>1. x.hdr.attempts + 1 \in Attempts BY <1>3, MailServerAssumption DEF Attempts
  <2> QED BY <1>0, <1>2, <2>1 DEF Header
<1>5. m \in Mem /\ m.list = x.list /\ m.number = n /\ m.offset = index[n].offset /\ m.hdr = h
  BY <1>0, <1>2, <1>4 DEF Mem
<1>6. /\ Files' /\ InIndex' = InIndex /\ last_msg' = last_msg
      /\ shd'[index'[n].offset] = h /\ index'[n].offset = index[n].offset
      /\ \A k \in InIndex \ {n} : Kept(k)
  <2>1. n = mem[t].number /\ pc[t] \in Working BY <1>0, <1>1 DEF Working
  <2> QED BY <1>1, <1>4, <2>1, UpdateIs
<1>7. /\ h.to = "net" /\ h.from = Msg(n).from /\ h.about = Msg(n).about
      /\ ~h.deleted /\ m.hdr.number = n
  BY <1>2, <1>4, <1>5 DEF Waits
<1>8. ~SendInTransit => remote[n] <= log.unacked[n] BY <1>0, <1>1, NotYet DEF Working
<1>9. (h.transit => n \in log.left \union log.refused)
      /\ (m.hdr.transit => n \in log.left \union log.refused)
  BY <1>0, <1>2, <1>4, <1>5 DEF SenderAt
<1>10. /\ h.attempts <= MaxAttempts + log.troubles + 1
       /\ place = "next" => h.attempts <= MaxAttempts + log.troubles
  BY <1>0, <1>3, <1>4, MailServerAssumption
<1>11. /\ place \in {"giveup", "next"} /\ n = mem[t].number /\ m.list = mem[t].list
       /\ pc[t] \in Working \union {"found"}
  BY <1>0, <1>1, <1>5 DEF Working
<1>12. pc' = [pc EXCEPT ![t] = place] /\ mem' = [mem EXCEPT ![t] = m] /\ UNCHANGED <<remote, log>>
  BY <1>1
<1>13. m \in Mem /\ m.number = n /\ m.offset = index[n].offset /\ m.hdr = h BY <1>5
<1>14. /\ place \in {"sending", "bounce", "giveup", "notice", "next"}
       /\ place \in Working => m.hdr = h /\ ~h.deleted
       /\ place = "sending" => h.transit
       /\ place \in {"bounce", "giveup", "notice"} /\ m.hdr.transit =>
            n \in log.left \union log.refused
       /\ place = "giveup" => h.attempts <= MaxAttempts + log.troubles + 1
       /\ place = "notice" => h.deleted /\ h.about = 0 /\ Bounceable(m.hdr)
       /\ ~h.deleted /\ place # "giveup" => h.attempts <= MaxAttempts + log.troubles
       /\ ~h.deleted /\ h.transit /\ place \notin Working => n \in log.left \union log.refused
       /\ n \in log.queued /\ h.deleted => place = "notice" \/ remote[n] > 0
       /\ ~SendInTransit /\ ~h.deleted => remote[n] <= log.unacked[n]
  BY <1>7, <1>8, <1>9, <1>10, <1>11, <1>13 DEF Working
<1> QED BY <1>2, <1>6, <1>7, <1>11, <1>12, <1>13, <1>14, HeaderStep, ZenonT(90)

LEMMA GiveUpStep ==
  ASSUME MailInv, Alone, NEW t \in Threads, GiveUp(t)
  PROVE  MailInv'
<1>0. SUFFICES ASSUME NEW x \in Mem, x = mem[t], NEW n \in Numbers, n = x.number,
                      NEW h, h = [x.hdr EXCEPT !.deleted = TRUE],
                      NEW place, place = IF Bounceable(x.hdr) THEN "notice" ELSE "next"
               PROVE  MailInv'
  BY WorksOn DEF GiveUp, Working
<1>1. /\ pc[t] = "giveup" /\ Update(h) /\ pc' = [pc EXCEPT ![t] = place]
      /\ mem' = [mem EXCEPT ![t] = x] /\ UNCHANGED <<remote, log>>
  BY <1>0 DEF GiveUp, Go, MailInv, MemOK
<1>2. /\ Waits(n) /\ x.offset = index[n].offset /\ n \in InIndex
      /\ x.hdr = Msg(n) /\ x.hdr \in Header /\ x.hdr.number = n /\ SenderAt("giveup", x)
  BY <1>0, <1>1, WorksOn DEF Working, Waits
<1>3. /\ h \in Header /\ h.number = n /\ h.to = "net" /\ h.from = Msg(n).from
      /\ h.about = Msg(n).about /\ h.deleted
  BY <1>0, <1>2 DEF Header, Waits
<1>4. /\ Files' /\ InIndex' = InIndex /\ last_msg' = last_msg
      /\ shd'[index'[n].offset] = h /\ index'[n].offset = index[n].offset
      /\ \A k \in InIndex \ {n} : Kept(k)
  <2>1. n = mem[t].number /\ pc[t] \in Working BY <1>0, <1>1 DEF Working
  <2> QED BY <1>1, <1>3, <2>1, UpdateIs
<1>5. x.hdr.transit => n \in log.left \union log.refused BY <1>0, <1>2 DEF SenderAt
<1>6. place = "notice" => h.about = 0 /\ Bounceable(x.hdr)
  BY <1>0, <1>2, <1>3 DEF Bounceable
<1>7. n \in log.queued => place = "notice"
  BY <1>0, <1>2 DEF MailInv, Known
<1>8. /\ place \in {"notice", "next"} /\ x.number = n /\ x.offset = index[n].offset
      /\ x.hdr.number = n /\ n = mem[t].number /\ x.list = mem[t].list
      /\ pc[t] \in Working \union {"found"}
  BY <1>0, <1>1, <1>2 DEF Working
<1>9. pc' = [pc EXCEPT ![t] = place] /\ mem' = [mem EXCEPT ![t] = x] /\ UNCHANGED <<remote, log>>
  BY <1>1
<1> QED BY <1>2, <1>3, <1>4, <1>5, <1>6, <1>7, <1>8, <1>9, HeaderStep DEF Working

LEMMA DoneStep ==
  ASSUME MailInv, Alone, NEW t \in Threads, SendDone(t)
  PROVE  MailInv'
<1>0. SUFFICES ASSUME NEW x \in Mem, x = mem[t], NEW n \in Numbers, n = x.number,
                      NEW h, h = [x.hdr EXCEPT !.deleted = TRUE, !.transit = FALSE]
               PROVE  MailInv'
  BY WorksOn DEF SendDone, Working
<1>1. /\ pc[t] = "sent" /\ Update(h) /\ pc' = [pc EXCEPT ![t] = "next"]
      /\ mem' = [mem EXCEPT ![t] = x] /\ UNCHANGED <<remote, log>>
  BY <1>0 DEF SendDone, Go, MailInv, MemOK
<1>2. /\ Waits(n) /\ x.offset = index[n].offset /\ n \in InIndex
      /\ x.hdr = Msg(n) /\ x.hdr \in Header /\ x.hdr.number = n /\ SenderAt("sent", x)
  BY <1>0, <1>1, WorksOn DEF Working, Waits
<1>3. /\ h \in Header /\ h.number = n /\ h.to = "net" /\ h.from = Msg(n).from
      /\ h.about = Msg(n).about /\ h.deleted
  BY <1>0, <1>2 DEF Header, Waits
<1>4. /\ Files' /\ InIndex' = InIndex /\ last_msg' = last_msg
      /\ shd'[index'[n].offset] = h /\ index'[n].offset = index[n].offset
      /\ \A k \in InIndex \ {n} : Kept(k)
  <2>1. n = mem[t].number /\ pc[t] \in Working BY <1>0, <1>1 DEF Working
  <2> QED BY <1>1, <1>3, <2>1, UpdateIs
<1>5. remote[n] > 0
  <2>1. log.unacked[n] \in Nat /\ remote[n] \in Nat
    BY MailServerAssumption DEF MailInv, LogOK, Log
  <2> QED BY <1>0, <1>2, <2>1 DEF SenderAt
<1>6. /\ x.number = n /\ x.offset = index[n].offset
      /\ x.hdr.number = n /\ n = mem[t].number /\ x.list = mem[t].list
      /\ pc[t] \in Working \union {"found"}
  BY <1>0, <1>1, <1>2 DEF Working
<1>7. pc' = [pc EXCEPT ![t] = "next"] /\ mem' = [mem EXCEPT ![t] = x] /\ UNCHANGED <<remote, log>>
  BY <1>1
<1> QED BY <1>2, <1>3, <1>4, <1>5, <1>6, <1>7, HeaderStep DEF Working
---------------------------------------------------------------------------
(* The notice *)

\* There is a number for it, and the notices are one more, as the messages told are.
LEMMA OneMore ==
  ASSUME MailInv, NEW t \in Threads, pc[t] = "notice", NEW n, n = mem[t].number,
         NEW k, k = last_msg + 1,
         NEW ns \in SUBSET (1..last_msg), AreNotices(ns)
  PROVE  /\ n \in 1..last_msg /\ n \in Numbers /\ n \notin log.told
         /\ k \in Numbers /\ k \in Nat /\ last_msg < k
         /\ k <= MaxSubmits + Cardinality(log.told \union {n})
         /\ (ns \union {k}) \intersect (log.told \union {n}) = {}
         /\ Cardinality(ns \union {k}) = Cardinality(log.told \union {n})
<1>1. n \in 1..last_msg /\ n \notin log.told BY DEF MailInv, SenderAt
<1>2. /\ ns \intersect log.told = {} /\ Cardinality(ns) = Cardinality(log.told) /\ n \notin ns
  BY DEF AreNotices
<1>3. last_msg \in Nat /\ log.told \in SUBSET (1..last_msg) BY Numbered
<1>4. /\ IsFiniteSet(log.told) /\ Cardinality(log.told) \in Nat
  BY ToldBound
<1>5. IsFiniteSet(ns) BY <1>2, <1>3, Apart
<1>6. Cardinality(log.told \union {n}) = Cardinality(log.told) + 1 BY <1>1, <1>4, FS_AddElement
<1>7. Cardinality(log.told \union {n}) + Cardinality(ns) <= last_msg
  <2>1. /\ log.told \union {n} \in SUBSET (1..last_msg)
        /\ (log.told \union {n}) \intersect ns = {}
    BY <1>1, <1>2, <1>3
  <2> QED BY <1>3, <2>1, Apart
<1>8. last_msg <= MaxSubmits + Cardinality(log.told) BY DEF MailInv, Counted
<1>9. k \in 1..(2 * MaxSubmits) /\ last_msg < k /\ k <= MaxSubmits + Cardinality(log.told) + 1
  BY <1>2, <1>3, <1>4, <1>6, <1>7, <1>8, MailServerAssumption
<1>10. \A j \in 1..last_msg : j # k BY <1>3
<1>11. Cardinality(ns \union {k}) = Cardinality(ns) + 1 BY <1>5, <1>10, FS_AddElement
<1>12. (ns \union {k}) \intersect (log.told \union {n}) = {} BY <1>1, <1>2, <1>3, <1>10
<1>13. n \in Numbers BY <1>1, <1>3, <1>9, MailServerAssumption DEF Numbers
<1> QED BY <1>1, <1>2, <1>4, <1>6, <1>9, <1>11, <1>12, <1>13, MailServerAssumption DEF Numbers

LEMMA NoticeStep ==
  ASSUME MailInv, Alone, NEW t \in Threads, Notice(t)
  PROVE  MailInv'
<1>0. SUFFICES ASSUME NEW x \in Mem, x = mem[t], NEW n, n = x.number, NEW k, k = last_msg + 1,
                      NEW ns \in SUBSET (1..last_msg), AreNotices(ns)
               PROVE  MailInv'
  BY DEF MailInv, MemOK, Counted
<1>1. /\ pc[t] = "notice" /\ pc' = [pc EXCEPT ![t] = "next"] /\ UNCHANGED <<mem, remote>>
      /\ mem' = [mem EXCEPT ![t] = x]
  BY <1>0 DEF Notice, Go, MailInv, MemOK
<1>2. /\ SenderAt("notice", x) /\ Files /\ MemOK /\ LogOK /\ Known /\ last_msg \in Nat
  BY <1>0, <1>1, Numbered DEF MailInv
<1>3. /\ n \in 1..last_msg /\ n \in Numbers /\ n \notin log.told
      /\ k \in Numbers /\ k \in Nat /\ last_msg < k
      /\ k <= MaxSubmits + Cardinality(log.told \union {n})
      /\ (ns \union {k}) \intersect (log.told \union {n}) = {}
      /\ Cardinality(ns \union {k}) = Cardinality(log.told \union {n})
  BY <1>0, <1>1, OneMore
<1>4. /\ x.hdr \in Header /\ x.hdr.number = n /\ x.hdr.from \in {"net", "box"}
      /\ x.hdr.transit => n \in log.left \union log.refused
      /\ n \in InIndex => Msg(n).to = "net" /\ Msg(n).deleted
  BY <1>0, <1>2 DEF SenderAt, Mem, Header, Bounceable
<1>5. PICK from, transit, h :
        /\ from = x.hdr.from /\ transit = x.hdr.transit
        /\ h = [Blank EXCEPT !.to = from, !.about = n, !.transit = transit]
  OBVIOUS
<1>6. /\ h \in Header /\ h.about = n /\ h.transit = x.hdr.transit /\ ~h.deleted
      /\ h.attempts = 0
  <2>1. from \in Places /\ n \in Numbers \union {0} /\ transit \in BOOLEAN
    BY <1>3, <1>4, <1>5 DEF Places, Header
  <2>2. h = [Blank EXCEPT !.to = from, !.about = n, !.transit = transit] BY <1>5
  <2>3. /\ h \in Header /\ h.about = n /\ h.transit = transit /\ ~h.deleted
        /\ h.attempts = 0
    <3>1. Blank \in Header BY BlankIs
    <3>2. h \in Header BY <2>1, <2>2, <3>1 DEF Header
    <3>3. h.about = n /\ h.attempts = Blank.attempts /\ h.deleted = Blank.deleted
      BY <2>1, <2>2, <3>1 DEF Header
    <3>4. h.transit = transit BY <2>1, <2>2, <3>1 DEF Header
    <3> QED BY <3>2, <3>3, <3>4, BlankIs
  <2> QED BY <1>5, <2>3
<1>7. AddHeader(h) /\ log' = [log EXCEPT !.told = @ \union {n}]
  BY <1>0, <1>4, <1>5 DEF Notice
<1>8. /\ Files' /\ last_msg' = k /\ InIndex' = InIndex \union {k} /\ k \notin InIndex
      /\ shd'[index'[k].offset] = [h EXCEPT !.number = k]
      /\ \A j \in InIndex : Kept(j)
  BY <1>0, <1>2, <1>3, <1>6, <1>7, AddIs
<1>9. /\ Msg(k)'.about = n /\ Msg(k)'.attempts = 0
      /\ Msg(k)'.transit => n \in log.left \union log.refused
  <2>1. Msg(k)' = [h EXCEPT !.number = k] BY <1>8 DEF Msg
  <2>2. \A b \in Header : LET y == [b EXCEPT !.number = k] IN
          y.about = b.about /\ y.attempts = b.attempts /\ y.transit = b.transit
    BY DEF Header
  <2> QED BY <1>4, <1>6, <2>1, <2>2
<1>10. /\ log' \in Log /\ log'.told = log.told \union {n} /\ log'.queued = log.queued
       /\ log'.untold = log.untold /\ log'.left = log.left /\ log'.refused = log.refused
       /\ log'.unacked = log.unacked /\ log'.troubles = log.troubles
  BY <1>3, <1>7, Numbered DEF Log
<1>11. \A j \in InIndex : j # k /\ j <= last_msg /\ Msg(j)' = Msg(j)
  BY <1>2, <1>8, HeaderFacts DEF Kept, Msg
<1>12. \A j : j # k => (Waits(j)' <=> Waits(j)) /\ (j \in InIndex' <=> j \in InIndex)
  BY <1>8, <1>11 DEF Waits
<1>13. /\ MemOK' /\ pc'[t] = "next" /\ mem'[t] = x
       /\ \A u \in (Threads \union Clients) \ {t} : pc'[u] = pc[u] /\ mem'[u] = mem[u]
  <2>1. "next" \in SendPlaces BY DEF SendPlaces
  <2> QED BY <1>1, <1>2, <2>1, Placed
<1>14. LogOK'
  <2>1. \A j \in Numbers : j <= last_msg => j <= k
    BY <1>2, <1>3, MailServerAssumption DEF Numbers
  <2>2. remote' = remote BY <1>1
  <2> QED BY <1>2, <1>8, <1>10, <2>1, <2>2 DEF LogOK
<1>15. Known'
  <2>1. \A j \in Numbers : j <= last_msg => j <= k /\ j # k
    BY <1>2, <1>3, MailServerAssumption DEF Numbers
  <2>2. log.queued \subseteq Numbers /\ log.told \subseteq Numbers BY Numbered DEF Log
  <2>3. ASSUME NEW j \in log.queued
        PROVE  (j <= last_msg /\ (j \in InIndex => Msg(j).to = "net" /\ Bounceable(Msg(j))))'
    BY <1>2, <1>8, <1>11, <1>12, <2>1, <2>2 DEF Known, Bounceable
  <2>4. ASSUME NEW j \in log.told \union {n}
        PROVE  (j <= last_msg /\ (j \in InIndex => Msg(j).to = "net" /\ Msg(j).deleted))'
    <3>1. j \in Numbers /\ j <= last_msg /\ (j \in InIndex => Msg(j).to = "net" /\ Msg(j).deleted)
      BY <1>2, <1>3, <1>4, <2>2 DEF Known
    <3> QED BY <1>8, <1>11, <1>12, <2>1, <3>1
  <2> QED BY <1>10, <2>3, <2>4 DEF Known
<1>16. Counted'
  <2>1. ns \union {k} \in SUBSET (1..last_msg') BY <1>2, <1>3, <1>8
  <2>2. ASSUME NEW j \in (ns \union {k}) \intersect InIndex' PROVE Msg(j)'.about # 0
    <3>1. CASE j = k BY <1>2, <1>3, <1>9, <3>1
    <3>2. CASE j # k BY <1>0, <1>11, <1>12, <3>2 DEF AreNotices
    <3> QED BY <3>1, <3>2
  <2>3. \A u \in Threads : pc'[u] # "notice" BY <1>13 DEF Alone
  <2>4. AreNotices(ns \union {k})' BY <1>3, <1>10, <2>2, <2>3 DEF AreNotices
  <2> QED BY <1>3, <1>8, <1>10, <2>1, <2>4 DEF Counted
<1>17. \A u \in Threads : SenderAt(pc[u], mem[u])'
  <2>1. \A j \in x.list : Waits(j) \/ j = n BY <1>0, <1>2 DEF SenderAt
  <2>2. \A j \in InIndex : Waits(j) => Waits(j)' BY <1>11, <1>12
  <2>3. \A j : Waits(j) => j \in InIndex BY DEF Waits
  <2>4. SenderAt("next", x)' BY <1>0, <1>2, <2>1, <2>2, <2>3 DEF SenderAt, Working
  <2> QED BY <1>13, <2>4 DEF Alone
<1>18. \A c \in Clients : ClientAt(pc[c], mem[c])'
  <2>1. Stay("box") BY <1>2, <1>3, <1>8 DEF Stay
  <2>2. SUFFICES ASSUME NEW c \in Clients, NEW p, NEW y, p = pc[c], y = mem[c]
                 PROVE  ClientAt(p, y)'
    BY <1>13, MailServerAssumption
  <2> QED BY <1>2, <2>1, <2>2, ClientKept DEF MailInv, MemOK
<1>19. ASSUME NEW j \in Numbers PROVE MessageInv(j)'
  <2>1. /\ MessageInv(j) /\ remote[j] \in Nat /\ log.unacked[j] \in Nat
        /\ (remote[j] > 0 => j <= last_msg) /\ log.troubles \in Nat /\ j \in Nat
    BY <1>2, MailServerAssumption DEF MailInv, LogOK, Log, Numbers
  <2>2. remote' = remote BY <1>1
  <2>3. CASE j = k
    <3>1. j \notin log.queued /\ remote[j] = 0
      BY <1>2, <1>3, <2>1, <2>3, Numbered
    <3>2. TriesAt(j)' BY <1>9, <1>10, <2>1, <2>3, MailServerAssumption DEF TriesAt
    <3>3. OwnedAt(j)' BY <1>9, <1>10, <2>3 DEF OwnedAt
    <3>4. StaysAt(j)' BY <1>10, <3>1 DEF StaysAt
    <3>5. OnceAt(j)' BY <1>10, <2>1, <2>2, <3>1 DEF OnceAt
    <3> QED BY <3>2, <3>3, <3>4, <3>5 DEF MessageInv
  <2>4. CASE j # k
    <3>1. (Waits(j)' <=> Waits(j)) /\ (Waits(j) => Msg(j)' = Msg(j))
      BY <1>11, <1>12, <2>4 DEF Waits
    <3>2. \A u \in Threads : u = t /\ pc[u] = "notice" /\ pc'[u] = "next"
      BY <1>1, <1>13 DEF Alone
    <3>3. TriesAt(j)' BY <1>10, <2>1, <3>1, <3>2 DEF MessageInv, TriesAt
    <3>4. OwnedAt(j)' BY <1>10, <2>1, <3>1, <3>2 DEF MessageInv, OwnedAt, Working
    <3>5. StaysAt(j)' BY <1>0, <1>10, <2>1, <2>2, <3>1, <3>2 DEF MessageInv, StaysAt
    <3>6. OnceAt(j)' BY <1>10, <2>1, <2>2, <3>1, <3>2 DEF MessageInv, OnceAt, Working
    <3> QED BY <3>3, <3>4, <3>5, <3>6 DEF MessageInv
  <2> QED BY <2>3, <2>4
<1> QED BY <1>8, <1>13, <1>14, <1>15, <1>16, <1>17, <1>18, <1>19 DEF MailInv
---------------------------------------------------------------------------
(* The inductive invariant holds *)

LEMMA SendStep ==
  ASSUME MailInv, Alone, NEW t \in Threads, Send(t) \/ Crash(t)
  PROVE  MailInv'
<1>1. CASE SendBegin(t) \/ SendFind(t) \/ SendFindNothing(t)
  BY <1>1, BeginStep, FindStep, FindNothingStep
<1>2. CASE SendSkip(t) BY <1>2, ContinueStep DEF SendSkip
<1>3. CASE SendNext(t) BY <1>3, ContinueStep DEF SendNext
<1>4. CASE SendClaim(t) \/ Untransit(t) \/ UntransitFails(t)
  BY <1>4, ClaimStep, UntransitStep, UntransitFailsStep
<1>5. CASE SendTrouble(t) \/ SendAccepted(t) \/ SendAckLost(t)
  BY <1>5, TroubleStep, AcceptedStep, AckLostStep
<1>6. ASSUME NEW immediate \in BOOLEAN,
             SendRefused(t, immediate) \/ SendAuthFails(t, immediate)
      PROVE  MailInv'
  BY <1>6, RefusedStep, AuthFailsStep
<1>7. CASE BounceCount(t) \/ GiveUp(t) \/ BounceFails(t)
  BY <1>7, CountStep, GiveUpStep, BounceFailsStep
<1>8. CASE Notice(t) \/ NoticeFails(t) BY <1>8, NoticeStep, NoticeFailsStep
<1>9. CASE SendDone(t) \/ SendDoneFails(t) BY <1>9, DoneStep, DoneFailsStep
<1>10. CASE Crash(t) BY <1>10, CrashStep
<1> QED BY <1>1, <1>2, <1>3, <1>4, <1>5, <1>6, <1>7, <1>8, <1>9, <1>10 DEF Send

LEMMA MailInit ==
  ASSUME Init
  PROVE  MailInv
<1>1. /\ InIndex = {} /\ last_msg = 0 /\ log.queued = {} /\ log.told = {} /\ log.untold = {}
      /\ remote = [n \in Numbers |-> 0] /\ log.unacked = remote
  BY DEF Init, InIndex
<1>2. Files
  <2>1. shd \in [Offsets -> Header] BY BlankIs DEF Init
  <2>2. index \in [InIndex -> [offset : Offsets, deleted : BOOLEAN]] BY DEF Init, InIndex
  <2> QED BY <1>1, <2>1, <2>2 DEF Init, Files, FilesOK, EachItsHeader
<1>3. MemOK BY Lists DEF Init, MemOK, SendPlaces, PopPlaces
<1>4. LogOK
  <2>1. remote \in [Numbers -> 0..(MaxAttempts + 1)] BY <1>1, MailServerAssumption
  <2>2. log \in Log BY <1>1, <2>1, MailServerAssumption DEF Init, Log
  <2> QED BY <1>1, <2>1, <2>2 DEF LogOK
<1>5. Known BY <1>1 DEF Known
<1>6. Counted
  <2>1. AreNotices({}) BY <1>1 DEF AreNotices, Init
  <2>2. Cardinality(log.told) = 0 BY <1>1, FS_EmptySet
  <2> QED BY <1>1, <2>1, <2>2, MailServerAssumption DEF Counted
<1>7. \A t \in Threads \union Clients : pc[t] = "idle" /\ mem[t] = NoMem BY DEF Init
<1>8. \A t \in Threads : SenderAt(pc[t], mem[t])
  BY <1>7 DEF SenderAt, NoMem, Blank, Working
<1>9. \A c \in Clients : ClientAt(pc[c], mem[c]) BY <1>7 DEF ClientAt, NoMem
<1>10. \A n \in Numbers : MessageInv(n)
  BY <1>1 DEF MessageInv, TriesAt, OwnedAt, StaysAt, OnceAt, Waits
<1> QED BY <1>2, <1>3, <1>4, <1>5, <1>6, <1>8, <1>9, <1>10 DEF MailInv

LEMMA MailStutter ==
  ASSUME MailInv, UNCHANGED vars
  PROVE  MailInv'
BY DEF vars, base, MailInv, Files, FilesOK, EachItsHeader, MemOK, LogOK, Known, Counted, AreNotices,
       SenderAt, ClientAt, MessageInv, TriesAt, OwnedAt, StaysAt, OnceAt, Waits, Msg, InIndex

LEMMA MailNext ==
  ASSUME MailInv, Alone, [Next]_vars
  PROVE  MailInv'
<1>1. ASSUME NEW m \in Mail, Submit(m[1], m[2]) PROVE MailInv'
  <2>1. <<m[1], m[2]>> \in Mail BY MailServerAssumption
  <2> QED BY <1>1, <2>1, SubmitStep
<1>2. ASSUME NEW n \in InIndex, NEW to \in Places, UserDeletes(n, to) PROVE MailInv'
  BY <1>2, UserDeletesStep
<1>3. CASE PurgeBegin \/ PurgeEnd BY <1>3, PurgeStep
<1>4. ASSUME NEW t \in Threads, Send(t) \/ Crash(t) PROVE MailInv' BY <1>4, SendStep
<1>5. ASSUME NEW c \in Clients, Pop(c) PROVE MailInv' BY <1>5, PopStep
<1>6. CASE UNCHANGED vars BY <1>6, MailStutter
<1> QED BY <1>1, <1>2, <1>3, <1>4, <1>5, <1>6 DEF Next

\* The invariant from which the others follow: the only thread that sends knows what
\* waits in the queue, and each message there has been tried as often as its header says.
THEOREM MailInvariant ==
  ASSUME Alone
  PROVE  Spec => []MailInv
<1>1. Init => MailInv BY MailInit
<1>2. MailInv /\ [Next]_vars => MailInv' BY MailNext
<1> QED BY <1>1, <1>2, PTL DEF Spec

---------------------------------------------------------------------------
(* What follows *)

LEMMA TypeFollows == MailInv => TypeOK
<1> SUFFICES ASSUME MailInv PROVE TypeOK OBVIOUS
<1>1. Files /\ MemOK /\ LogOK BY DEF MailInv
<1>2. InIndex \subseteq Numbers BY <1>1, HeaderFacts
<1>3. \A t \in Threads \union Clients :
        /\ mem[t].list \subseteq Numbers /\ mem[t].number \in Numbers \union {0}
        /\ mem[t].hdr \in Header
  BY <1>1 DEF MemOK, Mem
<1> QED BY <1>1, <1>2, <1>3 DEF TypeOK, Files, FilesOK, LogOK

LEMMA StaysFollows == MailInv => NothingVanishes
<1> SUFFICES ASSUME MailInv, NEW n \in log.queued
             PROVE  \/ n \in Undeleted("net")
                    \/ remote[n] > 0
                    \/ n \in log.told \union log.untold
                    \/ \E t \in Threads : pc[t] = "notice" /\ mem[t].hdr.number = n
  BY DEF NothingVanishes
<1>1. Files /\ n \in Numbers BY Numbered DEF MailInv, Log
<1>2. StaysAt(n) BY <1>1 DEF MailInv, MessageInv
<1>3. Waits(n) => n \in Undeleted("net") BY <1>1, UndeletedIs DEF Waits
<1>4. ASSUME NEW t \in Threads, pc[t] = "notice" PROVE mem[t].hdr.number = mem[t].number
  BY <1>4 DEF MailInv, SenderAt
<1> QED BY <1>2, <1>3, <1>4 DEF StaysAt

LEMMA OwnedFollows == MailInv => TransitOwned
<1> SUFFICES ASSUME MailInv, NEW n \in Undeleted("net"), shd[index[n].offset].transit
             PROVE  \/ \E t \in Threads : AtWork(t, n)
                    \/ n \in log.left \union log.refused
                    \/ shd[index[n].offset].about \in log.left \union log.refused
  BY DEF TransitOwned
<1>1. Files BY DEF MailInv
<1>2. Waits(n) /\ Msg(n).transit BY <1>1, UndeletedIs DEF Waits, Msg
<1>3. OwnedAt(n) BY <1>1, <1>2, HeaderFacts DEF MailInv, MessageInv, Waits
<1>4. ASSUME NEW t \in Threads, pc[t] \in Working, mem[t].number = n PROVE AtWork(t, n)
  BY <1>4, WorksOn DEF AtWork, Working
<1> QED BY <1>2, <1>3, <1>4 DEF OwnedAt, Msg

\* The files hold well-formed records: a notice is added at most once for a message, so
\* their numbers do not run out, and no header counts more attempts than were made.
THEOREM TypeCorrect ==
  ASSUME Alone
  PROVE  Spec => []TypeOK
BY MailInvariant, TypeFollows, PTL

\* The copies of a header kept while the message is sent, or its text is read, are
\* written back to that message: whatever was purged and added meanwhile, an index
\* record leads to its own message, marked as the index says.
THEOREM EachItsHeaderCorrect ==
  ASSUME Alone
  PROVE  Spec => []EachItsHeader
<1>1. MailInv => EachItsHeader BY DEF MailInv, Files
<1> QED BY <1>1, MailInvariant, PTL

\* A message queued by somebody who can be told does not disappear: it waits, another
\* host has it, or its sender was told, unless the notice failed.
THEOREM NothingVanishesCorrect ==
  ASSUME Alone
  PROVE  Spec => []NothingVanishes
BY MailInvariant, StaysFollows, PTL

\* The mark "in transit" is left on a message only by a thread that ended or could not
\* lock the header, or after a login that the relay refused.
THEOREM TransitOwnedCorrect ==
  ASSUME Alone
  PROVE  Spec => []TransitOwned
BY MailInvariant, OwnedFollows, PTL

\* Where messages in transit are passed over, another host gets a message again only if
\* the acknowledgement of it was lost.
THEOREM SentOnceCorrect ==
  ASSUME Alone, ~SendInTransit
  PROVE  Spec => []SentOnce
<1>1. MailInv => SentOnce BY DEF MailInv, MessageInv, OnceAt, SentOnce
<1> QED BY <1>1, MailInvariant, PTL

\* RETR sends the text of a message that was in the mailbox at the login, though the
\* index is searched without a lock and the header is read later.
THEOREM RetrievesOwnCorrect ==
  ASSUME Alone
  PROVE  Spec => []RetrievesOwn
<1>1. MailInv => RetrievesOwn BY DEF MailInv, ClientAt, RetrievesOwn
<1> QED BY <1>1, MailInvariant, PTL
=============================================================================
