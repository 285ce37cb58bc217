-------------------------------- MODULE Nodes --------------------------------
(***************************************************************************)
(* The node records (node.dab) of one or more terminal servers and what    *)
(* they are for: a caller gets a node that is waiting for a call, a node's *)
(* daily event runs on a free node, and an exclusive timed event runs when *)
(* every node is inactive.  bbs_thread() answers, node_thread() serves a   *)
(* caller, event_thread() runs the events and waits for those of other     *)
(* servers; time.dab says when an event ran last.                          *)
(*                                                                         *)
(* getnodedat() with lockit, a change, and putnodedat() are one step; a    *)
(* read without it is a step of its own.  Quiet nodes are in use; failures *)
(* to read or lock a record are left out.                                  *)
(***************************************************************************)
EXTENDS Naturals, FiniteSets

CONSTANTS
  Nodes,      \* all nodes, a set of numbers
  Servers,    \* terminal servers
  NodesOf,    \* server -> its nodes, first_node to last_node
  EventNode,  \* where the exclusive event is to run
  Frequent,   \* the event runs more than once an hour
  Downs,      \* nodes the sysop may take down
  Faults,     \* what may happen: "newday", "timeout", "shutdown", "crash"
  MaxFaults,  \* bound on how many of them do
  MaxCalls    \* bound on the callers

ASSUME NodesAssumption ==
  /\ Nodes \subseteq Nat /\ EventNode \in Nodes /\ Downs \subseteq Nodes
  /\ NodesOf \in [Servers -> SUBSET Nodes] /\ UNION {NodesOf[i] : i \in Servers} = Nodes
  /\ \A i, j \in Servers : i # j => NodesOf[i] \intersect NodesOf[j] = {}
  /\ Frequent \in BOOLEAN /\ Faults \subseteq {"newday", "timeout", "shutdown", "crash"}
  /\ MaxFaults \in Nat /\ MaxCalls \in Nat

VARIABLES
  status,    \* node.dab: a node's status ...
  misc,      \* ... and its NODE_EVENT and NODE_DOWN flags
  timedab,   \* time.dab: the event ran within the hour, "recent", or is due, "old"
  last,      \* a server's own last time of the event: "recent" or "due"
  new,       \* callers given a node whose session is being set up
  online,    \* callers in a session
  main,      \* bbs_thread(): its place, and the nodes it has yet to set up
  ev,        \* event_thread(): its place, and the nodes left in its loop
  calls,     \* calls answered so far
  faults     \* what has happened

vars == <<status, misc, timedab, last, new, online, main, ev, calls, faults>>

Statuses == {"wfc", "logon", "inuse", "offline", "waiting", "running", "limbo"}

\* Places of event_thread(): its main loop; waiting for all nodes; setting the status,
\* running the event, freeing the nodes; waiting for another server; a daily event.
EvPlaces == {"idle", "mark", "check", "start", "run", "reset", "waitmark", "waitcheck",
             "daily", "dailyrun", "ended"}

Init ==
  /\ status = [n \in Nodes |-> "wfc"]
  /\ misc = [n \in Nodes |-> {}]
  /\ timedab = "recent" /\ last = [i \in Servers |-> "recent"]
  /\ new = [n \in Nodes |-> 0] /\ online = new
  /\ main = [i \in Servers |-> [pc |-> "up", todo |-> {}]]
  /\ ev = [i \in Servers |-> [pc |-> "idle", todo |-> {}]]
  /\ calls = 0 /\ faults = {}

Runs(i) == EventNode \in NodesOf[i]

SetStatus(n, s) == status' = [status EXCEPT ![n] = s]

Go(i, place, todo) == ev' = [ev EXCEPT ![i] = [pc |-> place, todo |-> todo]]

\* The loops go through the nodes by number.
IsNext(i, n) == n \in ev[i].todo /\ \A k \in ev[i].todo : n <= k

\* On in a loop, or to the place after it.
Step(i, n, place, todo) ==
  IF ev[i].todo = {n} THEN Go(i, place, todo) ELSE Go(i, ev[i].pc, ev[i].todo \ {n})

Happens(fault) ==
  /\ fault \in Faults \ faults /\ Cardinality(faults) < MaxFaults
  /\ faults' = faults \union {fault}

records == <<status, misc>>
sessions == <<new, online, calls>>
clock == <<timedab, last>>

---------------------------------------------------------------------------
(* Callers, and the sysop *)

\* bbs_thread(): a node that waits for a call is given to the caller.
Answer(i, n) ==
  /\ main[i].pc = "up" /\ n \in NodesOf[i] /\ status[n] = "wfc" /\ calls < MaxCalls
  /\ SetStatus(n, "logon")
  /\ new' = [new EXCEPT ![n] = @ + 1] /\ calls' = calls + 1
  /\ UNCHANGED <<misc, clock, online, main, ev, faults>>

\* bbs_thread(): the session could not be set up.
InitFails(n) ==
  /\ new[n] > 0
  /\ SetStatus(n, "wfc")
  /\ new' = [new EXCEPT ![n] = @ - 1]
  /\ UNCHANGED <<misc, clock, online, calls, main, ev, faults>>

\* logon()
Logon(n) ==
  /\ new[n] > 0
  /\ SetStatus(n, "inuse")
  /\ new' = [new EXCEPT ![n] = @ - 1] /\ online' = [online EXCEPT ![n] = @ + 1]
  /\ UNCHANGED <<misc, clock, calls, main, ev, faults>>

\* The end of node_thread().
Logoff(n) ==
  /\ online[n] > 0
  /\ SetStatus(n, IF "DOWN" \in misc[n] THEN "offline" ELSE "wfc")
  /\ misc' = [misc EXCEPT ![n] = @ \ {"DOWN"}]
  /\ online' = [online EXCEPT ![n] = @ - 1]
  /\ UNCHANGED <<clock, new, calls, main, ev, faults>>

\* The node utility, "down".
Down(n) ==
  /\ n \in Downs /\ status[n] # "offline"
  /\ IF status[n] = "wfc"
     THEN SetStatus(n, "offline") /\ UNCHANGED misc
     ELSE misc' = [misc EXCEPT ![n] = @ \union {"DOWN"}] /\ UNCHANGED status
  /\ UNCHANGED <<clock, sessions, main, ev, faults>>

\* logonstats() finds a new day: every node is to run its daily event.
NewDay ==
  /\ Happens("newday")
  /\ misc' = [n \in Nodes |-> misc[n] \union {"EVENT"}]
  /\ UNCHANGED <<status, clock, sessions, main, ev>>

\* Time passes: the event is due.
Tick ==
  /\ \A i \in Servers : last[i] = "recent" /\ ev[i].pc \in {"idle", "ended"}
  /\ last' = [i \in Servers |-> "due"]
  /\ timedab' = IF Frequent THEN "recent" ELSE "old"
  /\ UNCHANGED <<records, sessions, main, ev, faults>>

---------------------------------------------------------------------------
(* event_thread(): the exclusive event *)

\* The event is due.
EventDue(i) ==
  /\ ev[i].pc = "idle" /\ last[i] = "due" /\ main[i].pc # "closing"
  /\ Go(i, IF Runs(i) THEN "mark" ELSE "waitmark", NodesOf[i])
  /\ UNCHANGED <<records, clock, sessions, main, faults>>

\* Mistake: every node is marked.
MarkAs_Always(i, n) ==
  IF n = EventNode THEN "waiting" ELSE "limbo"

\* What a node is marked as: one that waits for a call is taken out of service.
MarkAs(i, n) ==
  IF status[n] # "wfc" THEN status[n] ELSE IF n = EventNode THEN "waiting" ELSE "limbo"

\* The server that runs it marks its nodes, ...
Mark(i, n) ==
  /\ ev[i].pc = "mark" /\ IsNext(i, n)
  /\ SetStatus(n, MarkAs(i, n))
  /\ Step(i, n, "check", Nodes)
  /\ UNCHANGED <<misc, clock, sessions, main, faults>>

\* Mistake: a node that is offline makes the event wait.
Inactive_NotOffline(i, n) == status[n] = IF n = EventNode THEN "waiting" ELSE "limbo"

Inactive(i, n) ==
  IF n = EventNode THEN status[n] = "waiting" ELSE status[n] \in {"offline", "limbo"}

\* ... and looks at all nodes, without a lock; one that is active makes it wait.
Check(i, n) ==
  /\ ev[i].pc = "check" /\ IsNext(i, n)
  /\ IF Inactive(i, n) THEN Step(i, n, "start", {}) ELSE Go(i, "mark", NodesOf[i])
  /\ UNCHANGED <<records, clock, sessions, main, faults>>

\* It runs the event all the same after 90 minutes, or when the server terminates.
StopsWaiting(i) ==
  /\ ev[i].pc = "mark" /\ ev[i].todo = NodesOf[i]
  /\ \/ Happens("timeout")
     \/ main[i].pc = "closing" /\ UNCHANGED faults
  /\ Go(i, "start", {})
  /\ UNCHANGED <<records, clock, sessions, main>>

RunEvent(i) ==
  /\ ev[i].pc = "start"
  /\ SetStatus(EventNode, "running")
  /\ Go(i, "run", {})
  /\ UNCHANGED <<misc, clock, sessions, main, faults>>

\* The event has run: time.dab is written.
EventEnds(i) ==
  /\ ev[i].pc = "run"
  /\ timedab' = "recent" /\ last' = [last EXCEPT ![i] = "recent"]
  /\ Go(i, "reset", NodesOf[i])
  /\ UNCHANGED <<records, sessions, main, faults>>

\* Mistake: the status a record is given before it is read is written back.
Reset_Invalid(i, n) ==
  /\ ev[i].pc = "reset" /\ IsNext(i, n)
  /\ SetStatus(n, "invalid")
  /\ Step(i, n, "idle", {})
  /\ UNCHANGED <<misc, clock, sessions, main, faults>>

\* Mistake: only nodes that wait are set free.
Reset_WaitingOnly(i, n) ==
  /\ ev[i].pc = "reset" /\ IsNext(i, n)
  /\ SetStatus(n, IF status[n] = "waiting" THEN "wfc" ELSE status[n])
  /\ Step(i, n, "idle", {})
  /\ UNCHANGED <<misc, clock, sessions, main, faults>>

\* All nodes of the server are set to wait for calls again, whatever their status.
Reset(i, n) ==
  /\ ev[i].pc = "reset" /\ IsNext(i, n)
  /\ SetStatus(n, "wfc")
  /\ Step(i, n, "idle", {})
  /\ UNCHANGED <<misc, clock, sessions, main, faults>>

\* Another server marks its nodes ...
WaitMark(i, n) ==
  /\ ev[i].pc = "waitmark" /\ IsNext(i, n)
  /\ SetStatus(n, IF status[n] = "wfc" THEN "limbo" ELSE status[n])
  /\ Step(i, n, "waitcheck", {})
  /\ UNCHANGED <<misc, clock, sessions, main, faults>>

\* Mistake: the event is over once it has begun.
IsDone_Begun == \E i \in Servers : ev[i].pc = "run"

\* The last run was less than an hour ago.
IsDone == timedab = "recent"

\* ... until the event has been run, 90 minutes have passed, or the server terminates.
WaitCheck(i) ==
  /\ ev[i].pc = "waitcheck"
  /\ \/ /\ ~IsDone /\ main[i].pc # "closing"
        /\ Go(i, "waitmark", NodesOf[i]) /\ UNCHANGED <<last, faults>>
     \/ /\ \/ IsDone /\ UNCHANGED faults
           \/ ~IsDone /\ Happens("timeout")
           \/ ~IsDone /\ main[i].pc = "closing" /\ UNCHANGED faults
        /\ Go(i, "reset", NodesOf[i]) /\ last' = [last EXCEPT ![i] = "recent"]
  /\ UNCHANGED <<records, timedab, sessions, main>>

---------------------------------------------------------------------------
(* event_thread(): a node's daily event *)

\* A free node whose daily event is to run is found, without a lock ...
DailyFound(i, n) ==
  /\ ev[i].pc = "idle" /\ n \in NodesOf[i] /\ "EVENT" \in misc[n] /\ status[n] = "wfc"
  /\ Go(i, "daily", {n})
  /\ UNCHANGED <<records, clock, sessions, main, faults>>

\* ... and its status set, whatever it is by then.
DailyStarts(i, n) ==
  /\ ev[i].pc = "daily" /\ IsNext(i, n)
  /\ SetStatus(n, "running")
  /\ Go(i, "dailyrun", {n})
  /\ UNCHANGED <<misc, clock, sessions, main, faults>>

DailyEnds(i, n) ==
  /\ ev[i].pc = "dailyrun" /\ IsNext(i, n)
  /\ SetStatus(n, "wfc")
  /\ misc' = [misc EXCEPT ![n] = @ \ {"EVENT"}]
  /\ Go(i, "idle", {})
  /\ UNCHANGED <<clock, sessions, main, faults>>

---------------------------------------------------------------------------
(* A terminal server ends and starts *)

\* No more calls are answered, and the sessions' sockets are closed.
Shutdown(i) ==
  /\ main[i].pc = "up" /\ Happens("shutdown")
  /\ main' = [main EXCEPT ![i].pc = "closing"]
  /\ UNCHANGED <<records, clock, sessions, ev>>

EventThreadEnds(i) ==
  /\ ev[i].pc = "idle" /\ main[i].pc = "closing"
  /\ Go(i, "ended", {})
  /\ UNCHANGED <<records, clock, sessions, main, faults>>

\* When its sessions and its event thread have ended, its nodes are offline.
Closed(i) ==
  /\ main[i].pc = "closing" /\ ev[i].pc = "ended"
  /\ \A n \in NodesOf[i] : new[n] + online[n] = 0
  /\ status' = [n \in Nodes |-> IF n \in NodesOf[i] THEN "offline" ELSE status[n]]
  /\ main' = [main EXCEPT ![i].pc = "down"]
  /\ UNCHANGED <<misc, clock, sessions, ev, faults>>

\* It ends without notice: the records stay as they are.
Crash(i) ==
  /\ main[i].pc = "up" /\ Happens("crash")
  /\ main' = [main EXCEPT ![i].pc = "down"]
  /\ Go(i, "ended", {})
  /\ new' = [n \in Nodes |-> IF n \in NodesOf[i] THEN 0 ELSE new[n]]
  /\ online' = [n \in Nodes |-> IF n \in NodesOf[i] THEN 0 ELSE online[n]]
  /\ UNCHANGED <<records, clock, calls>>

\* The event thread is started, which reads time.dab, ...
Start(i) ==
  /\ main[i].pc = "down"
  /\ main' = [main EXCEPT ![i] = [pc |-> "starting", todo |-> NodesOf[i]]]
  /\ Go(i, "idle", {})
  /\ last' = [last EXCEPT ![i] = IF timedab = "old" THEN "due" ELSE "recent"]
  /\ UNCHANGED <<records, timedab, sessions, faults>>

\* ... and the nodes are set to wait for calls.
StartNode(i, n) ==
  /\ main[i].pc = "starting" /\ n \in main[i].todo
  /\ SetStatus(n, "wfc")
  /\ misc' = [misc EXCEPT ![n] = @ \ {"DOWN"}]
  /\ main' = [main EXCEPT ![i] = [pc |-> IF @.todo = {n} THEN "up" ELSE "starting",
                                  todo |-> @.todo \ {n}]]
  /\ UNCHANGED <<clock, sessions, ev, faults>>

---------------------------------------------------------------------------

EventThread(i) ==
  \/ EventDue(i) \/ StopsWaiting(i) \/ RunEvent(i) \/ EventEnds(i) \/ WaitCheck(i)
  \/ EventThreadEnds(i)
  \/ \E n \in Nodes :
       \/ Mark(i, n) \/ Check(i, n) \/ Reset(i, n) \/ WaitMark(i, n)
       \/ DailyFound(i, n) \/ DailyStarts(i, n) \/ DailyEnds(i, n)

Session(n) == InitFails(n) \/ Logon(n) \/ Logoff(n)

Next ==
  \/ \E i \in Servers, n \in Nodes : Answer(i, n) \/ StartNode(i, n)
  \/ \E n \in Nodes : Session(n) \/ Down(n)
  \/ NewDay \/ Tick
  \/ \E i \in Servers : EventThread(i) \/ Shutdown(i) \/ Closed(i) \/ Crash(i) \/ Start(i)

Spec == Init /\ [][Next]_vars

\* The event threads run, an event ends, and so does every session (its user's time is
\* limited); nothing makes people call, time pass or faults happen.
FairSpec ==
  /\ Spec
  /\ \A i \in Servers : WF_vars(EventThread(i))
  /\ \A n \in Nodes : WF_vars(Session(n))

---------------------------------------------------------------------------
(* Properties *)

\* The records and the threads are well formed.
TypeOK ==
  /\ status \in [Nodes -> Statuses] /\ misc \in [Nodes -> SUBSET {"EVENT", "DOWN"}]
  /\ timedab \in {"recent", "old"} /\ last \in [Servers -> {"recent", "due"}]
  /\ new \in [Nodes -> 0..MaxCalls] /\ online \in [Nodes -> 0..MaxCalls]
  /\ main \in [Servers -> [pc : {"up", "closing", "down", "starting"}, todo : SUBSET Nodes]]
  /\ ev \in [Servers -> [pc : EvPlaces, todo : SUBSET Nodes]]
  /\ calls \in 0..MaxCalls /\ faults \subseteq {"newday", "timeout", "shutdown", "crash"}

Busy(n) == new[n] + online[n] > 0

\* No two callers are given the same node, unless a wait for an exclusive event times
\* out, a daily event is due, or a server ends or is started again: the status that is
\* set then says nothing of a caller the node may have.
OneCaller == faults = {} => \A n \in Nodes : new[n] + online[n] <= 1

Running == \E i \in Servers : ev[i].pc = "run"

\* While an exclusive event runs no node has a caller, unless a wait timed out, a
\* daily event was due, or a server ended.
ExclusiveAlone == faults = {} /\ Running => \A n \in Nodes : ~Busy(n)

\* The same, whatever happens.
AlwaysAlone == Running => \A n \in Nodes : ~Busy(n)

AlwaysOneCaller == \A n \in Nodes : new[n] + online[n] <= 1

\* A node that was taken down is not put back into service by an event.
DownStaysDown ==
  [][\A n \in Nodes : status[n] = "offline" /\ status'[n] = "wfc"
       => \E i \in Servers : StartNode(i, n)]_vars

\* An event that is due is run, once callers stop coming, if all servers keep running
\* and no node that it needs is down.
EventRuns ==
  (\E i \in Servers : Runs(i) /\ last[i] = "due") ~> Running \/ faults # {}

\* The nodes that were taken out of service for an event are all put back.
NodesReturn ==
  []<>(faults # {} \/ \A n \in Nodes : status[n] \notin {"limbo", "waiting", "running"})
=============================================================================
