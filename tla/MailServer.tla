----------------------------- MODULE MailServer -----------------------------
(***************************************************************************)
(* The mail server's use of the mail base: the thread that sends queued    *)
(* Internet mail (sendmail_thread, bounce), POP3 sessions on a mailbox,    *)
(* users who delete mail, and the purge of what is marked deleted.         *)
(*                                                                         *)
(* What happens under the base lock is one step here: SmbBase has its file *)
(* operations.  The purge is two, since the index is searched without a    *)
(* lock and finds nothing while it is written again.  A queued message     *)
(* stays in the base, marked in transit, while it is sent; everything done *)
(* to it afterwards is done with the copy of its header read before.       *)
(***************************************************************************)
EXTENDS Naturals, FiniteSets

CONSTANTS
  Threads,      \* sendmail threads: of this server, and of others on the base
  Clients,      \* POP3 sessions of one user
  Mail,         \* where mail goes and where its sender can be told, e.g. <<"net", "box">>
  MaxSubmits,   \* bound on the messages that users and other hosts send
  MaxAttempts,  \* startup->max_delivery_attempts
  MaxTroubles,  \* bound on the failures that the server does not count as attempts
  SendInTransit,\* MAIL_OPT_SEND_INTRANSIT
  Deleting      \* what users delete in a terminal session: "net", "box", "other"

\* Queued for the net, in the POP3 user's mailbox, in another one.
Places == {"net", "box", "other"}

ASSUME MailServerAssumption ==
  /\ MaxSubmits \in Nat /\ MaxAttempts \in Nat /\ MaxTroubles \in Nat
  /\ Mail \subseteq Places \X {"net", "box", "none"}
  /\ SendInTransit \in BOOLEAN /\ Deleting \subseteq Places
  /\ Threads \intersect Clients = {}

VARIABLES
  last_msg,  \* status.last_msg
  index,     \* the index: number -> the header's offset, and the attributes
  purging,   \* delmail() has the base locked and is writing the index again
  shd,       \* offset -> the header last written there
  sha,       \* the allocated headers
  pc, mem,   \* a thread's or session's place, and what it has in memory
  remote,    \* number -> copies another host has taken
  log        \* history, see Log

base == <<last_msg, index, purging, shd, sha>>
vars == <<base, pc, mem, remote, log>>

\* Each message submitted may give a notice.
Numbers == 1..(2 * MaxSubmits)
Offsets == Numbers
Attempts == 0..(MaxAttempts + MaxTroubles + 1)

\* A header: where it belongs; where a notice to its sender would, if anywhere; for a
\* notice, which message it is about.
Header == [number : Numbers \union {0}, to : Places, from : {"net", "box", "none"},
           about : Numbers \union {0}, deleted : BOOLEAN, transit : BOOLEAN, attempts : Attempts]

Blank == [number |-> 0, to |-> "box", from |-> "none", about |-> 0,
          deleted |-> FALSE, transit |-> FALSE, attempts |-> 0]

NoMem == [list |-> {}, number |-> 0, offset |-> 0, hdr |-> Blank,
          bounce |-> FALSE, immediate |-> FALSE]

\* Messages queued whose sender can be told; of which a notice was added, or could
\* not be; for which the relay refused the login; left in transit by a thread that
\* ended or could not lock the header; lost acknowledgements of each.
Log == [queued : SUBSET Numbers, told : SUBSET Numbers, untold : SUBSET Numbers,
        refused : SUBSET Numbers, left : SUBSET Numbers,
        unacked : [Numbers -> 0..(MaxAttempts + 1)], troubles : 0..MaxTroubles]

Init ==
  /\ last_msg = 0 /\ index = [n \in {} |-> [offset |-> 0, deleted |-> FALSE]]
  /\ purging = FALSE /\ shd = [o \in Offsets |-> Blank] /\ sha = {}
  /\ pc = [t \in Threads \union Clients |-> "idle"]
  /\ mem = [t \in Threads \union Clients |-> NoMem]
  /\ remote = [n \in Numbers |-> 0]
  /\ log = [queued |-> {}, told |-> {}, untold |-> {}, refused |-> {}, left |-> {},
            unacked |-> remote, troubles |-> 0]

---------------------------------------------------------------------------
(* The message base *)

InIndex == DOMAIN index

\* loadmail(): what the index has for the net, or for a user.
Undeleted(to) == {n \in InIndex : ~index[n].deleted /\ shd[index[n].offset].to = to}

Go(t, place) == pc' = [pc EXCEPT ![t] = place]

Remember(t, m) == mem' = [mem EXCEPT ![t] = m]

\* smb_addmsghdr(): the next number, the first free block.
AddHeader(h) ==
  /\ ~purging
  /\ \E o \in Offsets \ sha :
       /\ \A p \in Offsets \ sha : o <= p
       /\ shd' = [shd EXCEPT ![o] = [h EXCEPT !.number = last_msg + 1]]
       /\ index' = [n \in InIndex \union {last_msg + 1} |->
            IF n \in InIndex THEN index[n] ELSE [offset |-> o, deleted |-> h.deleted]]
       /\ sha' = sha \union {o}
  /\ last_msg' = last_msg + 1
  /\ UNCHANGED purging

\* smb_putmsg() under the base lock, of the message as it is in memory: where the
\* index has it now.
Put(h) ==
  /\ shd' = [shd EXCEPT ![index[h.number].offset] = h]
  /\ index' = [index EXCEPT ![h.number].deleted = h.deleted]
  /\ UNCHANGED <<last_msg, purging, sha>>

\* smb_updatemsg() finds the message ...
Update(h) == ~purging /\ h.number \in InIndex /\ Put(h)

\* ... or does not.
NotInBase(h) == ~purging /\ h.number \notin InIndex

Trouble == log.troubles < MaxTroubles

\* A message from a user or another host, queued or for the mailbox.
Submit(to, from) ==
  /\ last_msg - Cardinality(log.told) < MaxSubmits
  /\ AddHeader([Blank EXCEPT !.to = to, !.from = from])
  /\ log' = IF to = "net" /\ from # "none"
            THEN [log EXCEPT !.queued = @ \union {last_msg + 1}] ELSE log
  /\ UNCHANGED <<pc, mem, remote>>

\* A user deletes mail he has queued or received, as readmail() does.
UserDeletes(n, to) ==
  /\ to \in Deleting /\ ~purging /\ n \in Undeleted(to)
  /\ Put([shd[index[n].offset] EXCEPT !.deleted = TRUE])
  /\ UNCHANGED <<pc, mem, remote, log>>

\* delmail(): the headers marked deleted are freed and the index truncated ...
PurgeBegin ==
  LET dead == {n \in InIndex : index[n].deleted} IN
  /\ ~purging /\ dead # {}
  /\ purging' = TRUE
  /\ sha' = sha \ {index[n].offset : n \in dead}
  /\ index' = [n \in InIndex \ dead |-> index[n]]
  /\ UNCHANGED <<last_msg, shd, pc, mem, remote, log>>

\* ... and the records kept are written.
PurgeEnd ==
  /\ purging /\ purging' = FALSE
  /\ UNCHANGED <<last_msg, index, shd, sha, pc, mem, remote, log>>

---------------------------------------------------------------------------
(* sendmail_thread() *)

\* A cycle begins: the queued mail is listed under the base lock.
SendBegin(t) ==
  /\ pc[t] = "idle" /\ ~purging /\ Undeleted("net") # {}
  /\ Remember(t, [NoMem EXCEPT !.list = Undeleted("net")])
  /\ Go(t, "list")
  /\ UNCHANGED <<base, remote, log>>

\* On to the next message of the list, or to the next cycle.
Continue(t) ==
  LET rest == mem[t].list \ {mem[t].number} IN
  /\ Remember(t, [NoMem EXCEPT !.list = rest])
  /\ Go(t, IF rest = {} THEN "idle" ELSE "list")

FirstOf(list, n) == n \in list /\ \A k \in list : n <= k

\* smb_getmsgidx(), without a lock.
SendFind(t) ==
  /\ pc[t] = "list"
  /\ \E n \in InIndex :
       /\ FirstOf(mem[t].list, n)
       /\ Remember(t, [mem[t] EXCEPT !.number = n, !.offset = index[n].offset])
  /\ Go(t, "found")
  /\ UNCHANGED <<base, remote, log>>

\* It is not there, or the index is being written: the cycle ends.
SendFindNothing(t) ==
  /\ pc[t] = "list"
  /\ \E n \in Numbers : FirstOf(mem[t].list, n) /\ (purging \/ n \notin InIndex)
  /\ Remember(t, NoMem) /\ Go(t, "idle")
  /\ UNCHANGED <<base, remote, log>>

\* Mistake: nobody looks whether the message is in transit.
Claimable_Always(h) == ~h.deleted /\ h.to = "net"

Claimable(h) == ~h.deleted /\ h.to = "net" /\ (h.transit => SendInTransit)

\* Under the header lock the header is read, marked in transit, and written.
SendClaim(t) ==
  /\ pc[t] = "found" /\ Claimable(shd[mem[t].offset])
  /\ LET h == [shd[mem[t].offset] EXCEPT !.transit = TRUE] IN
     /\ shd' = [shd EXCEPT ![mem[t].offset] = h]
     /\ Remember(t, [mem[t] EXCEPT !.hdr = h])
  /\ Go(t, "sending")
  /\ UNCHANGED <<last_msg, index, purging, sha, remote, log>>

\* Deleted, not for the net, in transit, or the header cannot be locked.
SendSkip(t) ==
  /\ pc[t] = "found"
  /\ \/ ~Claimable(shd[mem[t].offset]) /\ UNCHANGED log
     \/ Trouble /\ log' = [log EXCEPT !.troubles = @ + 1]
  /\ Continue(t)
  /\ UNCHANGED <<base, remote>>

\* No text, no DNS server, no socket: no attempt is counted.
SendTrouble(t) ==
  /\ pc[t] = "sending" /\ Trouble
  /\ log' = [log EXCEPT !.troubles = @ + 1]
  /\ Go(t, "untransit")
  /\ UNCHANGED <<base, mem, remote>>

\* No connection, or not the reply expected: 5xx is for good.
SendRefused(t, immediate) ==
  /\ pc[t] = "sending"
  /\ Remember(t, [mem[t] EXCEPT !.bounce = TRUE, !.immediate = immediate])
  /\ Go(t, "untransit")
  /\ UNCHANGED <<base, remote, log>>

\* The relay server refuses the login: the message is bounced as it is.
SendAuthFails(t, immediate) ==
  /\ pc[t] = "sending"
  /\ Remember(t, [mem[t] EXCEPT !.bounce = TRUE, !.immediate = immediate])
  /\ log' = [log EXCEPT !.refused = @ \union {mem[t].hdr.number}]
  /\ Go(t, "bounce")
  /\ UNCHANGED <<base, remote>>

\* The other host takes the message; no more than MaxAttempts + 1 copies of it.
Taken(t) ==
  /\ remote[mem[t].hdr.number] <= MaxAttempts
  /\ remote' = [remote EXCEPT ![mem[t].hdr.number] = @ + 1]

SendAccepted(t) ==
  /\ pc[t] = "sending" /\ Taken(t)
  /\ Go(t, "sent")
  /\ UNCHANGED <<base, mem, log>>

\* ... but its "250" does not come within two timeouts.
SendAckLost(t) ==
  /\ pc[t] = "sending" /\ Taken(t)
  /\ log' = [log EXCEPT !.unacked[mem[t].hdr.number] = @ + 1]
  /\ Remember(t, [mem[t] EXCEPT !.bounce = TRUE, !.immediate = FALSE])
  /\ Go(t, "untransit")
  /\ UNCHANGED base

AfterUntransit(t) == Go(t, IF mem[t].bounce THEN "bounce" ELSE "next")

\* Mistake: the mark is taken off in memory only.
Untransit_MemoryOnly(t) ==
  /\ pc[t] = "untransit"
  /\ Remember(t, [mem[t] EXCEPT !.hdr.transit = FALSE])
  /\ AfterUntransit(t)
  /\ UNCHANGED <<base, remote, log>>

\* remove_msg_intransit(): the header as it was read, to where it was read.
Untransit(t) ==
  /\ pc[t] = "untransit"
  /\ shd' = [shd EXCEPT ![mem[t].offset] = [mem[t].hdr EXCEPT !.transit = FALSE]]
  /\ Remember(t, [mem[t] EXCEPT !.hdr.transit = FALSE])
  /\ AfterUntransit(t)
  /\ UNCHANGED <<last_msg, index, purging, sha, remote, log>>

\* The header cannot be locked: it stays in transit, in memory too.
UntransitFails(t) ==
  /\ pc[t] = "untransit" /\ Trouble
  /\ log' = [log EXCEPT !.troubles = @ + 1, !.left = @ \union {mem[t].hdr.number}]
  /\ AfterUntransit(t)
  /\ UNCHANGED <<base, mem, remote>>

\* Mistake: the attempt is counted in memory, and the header written before.
BounceCount_MemoryOnly(t) ==
  LET h == [mem[t].hdr EXCEPT !.attempts = @ + 1] IN
  /\ pc[t] = "bounce" /\ Update(mem[t].hdr)
  /\ Remember(t, [mem[t] EXCEPT !.hdr = h])
  /\ Go(t, IF mem[t].immediate \/ h.attempts >= MaxAttempts THEN "giveup" ELSE "next")
  /\ UNCHANGED <<remote, log>>

\* bounce(): the attempt is counted in the header, and may be the last.
BounceCount(t) ==
  LET h == [mem[t].hdr EXCEPT !.attempts = @ + 1] IN
  /\ pc[t] = "bounce" /\ Update(h)
  /\ Remember(t, [mem[t] EXCEPT !.hdr = h])
  /\ Go(t, IF mem[t].immediate \/ h.attempts >= MaxAttempts THEN "giveup" ELSE "next")
  /\ UNCHANGED <<remote, log>>

\* Mistake: only a sender on the net is told.
Bounceable_NetOnly(h) == h.about = 0 /\ h.from = "net"

\* Mistake: a notice is made also if its address is not known.
Bounceable_Always(h) == h.about = 0

\* No notice of a notice, nor to a sender that is not known.
Bounceable(h) == h.about = 0 /\ h.from # "none"

\* bounce(): the message is marked deleted.
GiveUp(t) ==
  /\ pc[t] = "giveup" /\ Update([mem[t].hdr EXCEPT !.deleted = TRUE])
  /\ Go(t, IF Bounceable(mem[t].hdr) THEN "notice" ELSE "next")
  /\ UNCHANGED <<mem, remote, log>>

\* bounce(): smb_updatemsg() fails.
BounceFails(t) ==
  /\ pc[t] \in {"bounce", "giveup"}
  /\ \/ NotInBase(mem[t].hdr) /\ UNCHANGED log
     \/ Trouble /\ log' = [log EXCEPT !.troubles = @ + 1]
  /\ Go(t, "next")
  /\ UNCHANGED <<base, mem, remote>>

\* bounce(): a notice is made from a copy of the header, its network attributes
\* included.
Notice(t) ==
  LET h == mem[t].hdr IN
  /\ pc[t] = "notice"
  /\ AddHeader([Blank EXCEPT !.to = h.from, !.about = h.number, !.transit = h.transit])
  /\ log' = [log EXCEPT !.told = @ \union {h.number}]
  /\ Go(t, "next")
  /\ UNCHANGED <<mem, remote>>

NoticeFails(t) ==
  /\ pc[t] = "notice" /\ Trouble
  /\ log' = [log EXCEPT !.troubles = @ + 1, !.untold = @ \union {mem[t].hdr.number}]
  /\ Go(t, "next")
  /\ UNCHANGED <<base, mem, remote>>

\* The message was sent: marked deleted, no longer in transit.
SendDone(t) ==
  /\ pc[t] = "sent" /\ Update([mem[t].hdr EXCEPT !.deleted = TRUE, !.transit = FALSE])
  /\ Go(t, "next")
  /\ UNCHANGED <<mem, remote, log>>

SendDoneFails(t) ==
  /\ pc[t] = "sent"
  /\ \/ NotInBase(mem[t].hdr) /\ UNCHANGED log
     \/ Trouble /\ log' = [log EXCEPT !.troubles = @ + 1, !.left = @ \union {mem[t].hdr.number}]
  /\ Go(t, "next")
  /\ UNCHANGED <<base, mem, remote>>

SendNext(t) ==
  /\ pc[t] = "next"
  /\ Continue(t)
  /\ UNCHANGED <<base, remote, log>>

\* The server ends, wherever the thread is.
Crash(t) ==
  LET n == mem[t].hdr.number IN
  /\ pc[t] # "idle" /\ Trouble
  /\ log' = [log EXCEPT !.troubles = @ + 1,
       !.left = IF mem[t].hdr.transit THEN @ \union {n} ELSE @,
       !.untold = IF pc[t] = "notice" THEN @ \union {n} ELSE @]
  /\ Remember(t, NoMem) /\ Go(t, "idle")
  /\ UNCHANGED <<base, remote>>

---------------------------------------------------------------------------
(* pop3_thread() *)

\* After the login the mailbox is listed.
PopLogin(c) ==
  /\ pc[c] = "idle" /\ ~purging /\ Undeleted("box") # {}
  /\ Remember(c, [NoMem EXCEPT !.list = Undeleted("box")])
  /\ Go(c, "transaction")
  /\ UNCHANGED <<base, remote, log>>

\* RETR: the index is searched without a lock ...
PopFind(c, n) ==
  /\ pc[c] = "transaction" /\ n \in mem[c].list \intersect InIndex
  /\ ~index[n].deleted
  /\ Remember(c, [mem[c] EXCEPT !.number = n, !.offset = index[n].offset])
  /\ Go(c, "retr")
  /\ UNCHANGED <<base, remote, log>>

\* ... the header is read under its lock, and the text is sent.
PopRead(c) ==
  /\ pc[c] = "retr"
  /\ Remember(c, [mem[c] EXCEPT !.number = 0, !.hdr = shd[mem[c].offset]])
  /\ Go(c, "text")
  /\ UNCHANGED <<base, remote, log>>

PopReady(c) ==
  /\ Remember(c, [NoMem EXCEPT !.list = mem[c].list])
  /\ Go(c, "transaction")
  /\ UNCHANGED <<remote, log>>

\* The message is marked as read, with the header that was read.
PopMark(c) ==
  /\ pc[c] = "text" /\ Update(mem[c].hdr)
  /\ PopReady(c)

\* The text was not sent whole, or the message is not there any more.
PopMarkFails(c) ==
  /\ pc[c] = "text"
  /\ UNCHANGED base
  /\ PopReady(c)

\* Mistake: only the header is marked.
PopDelete_HeaderOnly(c, n) ==
  /\ pc[c] = "transaction" /\ ~purging /\ n \in mem[c].list \intersect InIndex
  /\ shd' = [shd EXCEPT ![index[n].offset].deleted = TRUE]
  /\ UNCHANGED <<last_msg, index, purging, sha>>
  /\ PopReady(c)

\* DELE: the message is marked deleted at once.
PopDelete(c, n) ==
  /\ pc[c] = "transaction" /\ ~purging /\ n \in mem[c].list \intersect InIndex
  /\ Put([shd[index[n].offset] EXCEPT !.deleted = TRUE])
  /\ PopReady(c)

\* RSET: the messages listed get their attributes of then back, up to the first
\* one that is gone.
PopReset(c) ==
  LET there == {n \in mem[c].list : \A k \in mem[c].list : k <= n => k \in InIndex}
      blocks == {index[n].offset : n \in there}
  IN
  /\ pc[c] = "transaction" /\ ~purging
  /\ shd' = [o \in Offsets |-> IF o \in blocks THEN [shd[o] EXCEPT !.deleted = FALSE] ELSE shd[o]]
  /\ index' = [n \in InIndex |-> IF n \in there THEN [index[n] EXCEPT !.deleted = FALSE] ELSE index[n]]
  /\ UNCHANGED <<last_msg, purging, sha>>
  /\ PopReady(c)

\* QUIT, or the connection ends.
PopQuit(c) ==
  /\ pc[c] # "idle"
  /\ Remember(c, NoMem) /\ Go(c, "idle")
  /\ UNCHANGED <<base, remote, log>>

---------------------------------------------------------------------------

Send(t) ==
  \/ SendBegin(t) \/ SendFind(t) \/ SendFindNothing(t) \/ SendClaim(t) \/ SendSkip(t)
  \/ SendTrouble(t) \/ SendAccepted(t) \/ SendAckLost(t)
  \/ \E immediate \in BOOLEAN : SendRefused(t, immediate) \/ SendAuthFails(t, immediate)
  \/ Untransit(t) \/ UntransitFails(t)
  \/ BounceCount(t) \/ GiveUp(t) \/ BounceFails(t) \/ Notice(t) \/ NoticeFails(t)
  \/ SendDone(t) \/ SendDoneFails(t) \/ SendNext(t)

Pop(c) ==
  \/ PopLogin(c) \/ PopRead(c) \/ PopMark(c) \/ PopMarkFails(c) \/ PopReset(c) \/ PopQuit(c)
  \/ \E n \in Numbers : PopFind(c, n) \/ PopDelete(c, n)

Next ==
  \/ \E m \in Mail : Submit(m[1], m[2])
  \/ \E n \in InIndex, to \in Places : UserDeletes(n, to)
  \/ PurgeBegin \/ PurgeEnd
  \/ \E t \in Threads : Send(t) \/ Crash(t)
  \/ \E c \in Clients : Pop(c)

Spec == Init /\ [][Next]_vars

\* The threads keep running, and a purge goes on.
FairSpec == Spec /\ WF_vars(PurgeEnd) /\ \A t \in Threads : WF_vars(Send(t))

---------------------------------------------------------------------------
(* Properties *)

\* The files hold well-formed records, and every thread a well-formed header.
TypeOK ==
  /\ last_msg \in Numbers \union {0} /\ purging \in BOOLEAN
  /\ InIndex \subseteq Numbers /\ index \in [InIndex -> [offset : Offsets, deleted : BOOLEAN]]
  /\ shd \in [Offsets -> Header] /\ sha \subseteq Offsets
  /\ \A t \in Threads \union Clients :
       mem[t].list \subseteq Numbers /\ mem[t].number \in Numbers \union {0} /\ mem[t].hdr \in Header
  /\ remote \in [Numbers -> 0..(MaxAttempts + 1)] /\ log \in Log

\* Whoever wrote it last, the header an index record leads to is that message's,
\* allocated, and marked as the index says.
EachItsHeader ==
  \A n \in InIndex :
    LET h == shd[index[n].offset] IN
    index[n].offset \in sha /\ h.number = n /\ h.deleted = index[n].deleted

\* The thread that is at work on a message.
AtWork(t, n) ==
  mem[t].hdr.number = n /\ pc[t] \in {"sending", "untransit", "bounce", "giveup", "sent"}

\* A message queued by somebody who can be told waits, has been taken by another
\* host, or has been returned, unless the notice itself failed: none disappears
\* between the retries, the marks and the purges.
NothingVanishes ==
  \A n \in log.queued :
    \/ n \in Undeleted("net")
    \/ remote[n] > 0
    \/ n \in log.told \union log.untold
    \/ \E t \in Threads : pc[t] = "notice" /\ mem[t].hdr.number = n

\* Another host gets a message again only if its acknowledgement was lost.
SentOnce == \A n \in Numbers : remote[n] <= log.unacked[n] + 1

\* A message is in transit only while a thread works on it, unless a thread ended
\* or could not lock the header, or the relay refused the login.
TransitOwned ==
  \A n \in Undeleted("net") :
    shd[index[n].offset].transit =>
      \/ \E t \in Threads : AtWork(t, n)
      \/ n \in log.left \union log.refused
      \/ shd[index[n].offset].about \in log.left \union log.refused

\* The same of a relay that refuses the login: the message is tried again later.
RefusedIsRetried ==
  \A n \in Undeleted("net") :
    shd[index[n].offset].transit => n \in log.left \/ \E t \in Threads : AtWork(t, n)

\* A client gets the text of a message in its own mailbox.
RetrievesOwn ==
  \A c \in Clients : pc[c] = "text" => mem[c].hdr.number \in mem[c].list

\* A message of the mailbox that was deleted stays so, unless it is reset.
DeletedStays ==
  [][\A n \in InIndex \intersect DOMAIN index' :
       index[n].deleted /\ ~index'[n].deleted => \E c \in Clients : PopReset(c)]_vars

\* What was queued is sent or given up some day, unless it was left in transit:
\* mail stops coming after MaxSubmits messages, and then no more than these wait.
Settles ==
  <>[](log.queued \intersect Undeleted("net") \subseteq log.left \union log.refused)
=============================================================================
