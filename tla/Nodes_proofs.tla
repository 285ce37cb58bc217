----------------------------- MODULE Nodes_proofs -----------------------------
(* Callers and an exclusive event keep out of one another's way, for any   *)
(* servers, nodes and calls, as long as no wait times out, no daily event  *)
(* is due and no server ends, and the event runs at most once an hour.     *)
EXTENDS Nodes, TLAPS

\* No more callers have a node than calls were answered.
Counted == \A n \in Nodes : new[n] + online[n] <= calls

TypeInv == TypeOK /\ Counted

LEMMA TypeInit == Init => TypeInv
BY NodesAssumption DEF Init, TypeInv, TypeOK, Counted, Statuses, EvPlaces

LEMMA SetTypes ==
  ASSUME NEW n, NEW s \in Statuses, TypeOK, SetStatus(n, s)
  PROVE  status' \in [Nodes -> Statuses]
BY DEF TypeOK, SetStatus

LEMMA StepTypes ==
  ASSUME NEW i \in Servers, NEW n, NEW place \in EvPlaces, NEW todo \in SUBSET Nodes,
         TypeOK, Step(i, n, place, todo)
  PROVE  ev' \in [Servers -> [pc : EvPlaces, todo : SUBSET Nodes]]
<1>1. ev[i] \in [pc : EvPlaces, todo : SUBSET Nodes] BY DEF TypeOK
<1>2. ev[i].todo \ {n} \in SUBSET Nodes BY <1>1
<1>3. CASE ev[i].todo = {n}
  <2>1. Go(i, place, todo) BY <1>3 DEF Step
  <2> QED BY <2>1 DEF TypeOK, Go
<1>4. CASE ev[i].todo # {n}
  <2>1. Go(i, ev[i].pc, ev[i].todo \ {n}) BY <1>4 DEF Step
  <2> QED BY <1>1, <1>2, <2>1 DEF TypeOK, Go
<1> QED BY <1>3, <1>4

MainTypes == [Servers -> [pc : {"up", "closing", "down", "starting"}, todo : SUBSET Nodes]]

LEMMA PlaceTypes ==
  ASSUME NEW i \in Servers, NEW place \in {"closing", "down"}, TypeOK,
         main' = [main EXCEPT ![i].pc = place]
  PROVE  main' \in MainTypes
<1>1. main[i] \in [pc : {"up", "closing", "down", "starting"}, todo : SUBSET Nodes] BY DEF TypeOK
<1>2. [main[i] EXCEPT !.pc = place] \in [pc : {"up", "closing", "down", "starting"}, todo : SUBSET Nodes]
  BY <1>1
<1> QED BY <1>2 DEF TypeOK, MainTypes

LEMMA TypeStep == TypeInv /\ [Next]_vars => TypeInv'
<1> SUFFICES ASSUME TypeInv, [Next]_vars PROVE TypeInv' OBVIOUS
<1> USE NodesAssumption DEF TypeInv, TypeOK, Counted, records, sessions, clock
<1>a. \A i \in Servers : NodesOf[i] \in SUBSET Nodes OBVIOUS
<1>1. ASSUME NEW i \in Servers, NEW n \in Nodes, Answer(i, n) PROVE TypeInv'
  BY <1>1 DEF Answer, SetStatus, Statuses
<1>2. ASSUME NEW n \in Nodes, Session(n) PROVE TypeInv'
  <2>1. CASE InitFails(n)
    <3>0. new[n] \in 0..MaxCalls /\ new[n] > 0 BY <2>1 DEF InitFails
    <3>1. new[n] - 1 \in 0..MaxCalls BY <3>0
    <3>2. new' \in [Nodes -> 0..MaxCalls] /\ new'[n] = new[n] - 1 BY <2>1, <3>1 DEF InitFails
    <3> QED BY <2>1, <3>1, <3>2 DEF InitFails, SetStatus, Statuses
  <2>2. CASE Logon(n) BY <2>2 DEF Logon, SetStatus, Statuses
  <2>3. CASE Logoff(n) BY <2>3 DEF Logoff, SetStatus, Statuses
  <2> QED BY <1>2, <2>1, <2>2, <2>3 DEF Session
<1>3. ASSUME NEW n \in Nodes, Down(n) PROVE TypeInv'
  <2>1. CASE status[n] = "wfc" BY <1>3, <2>1 DEF Down, SetStatus, Statuses
  <2>2. CASE status[n] # "wfc"
    <3>1. misc[n] \union {"DOWN"} \in SUBSET {"EVENT", "DOWN"} OBVIOUS
    <3>2. misc' \in [Nodes -> SUBSET {"EVENT", "DOWN"}] BY <1>3, <2>2, <3>1 DEF Down
    <3> QED BY <1>3, <2>2, <3>2 DEF Down
  <2> QED BY <2>1, <2>2
<1>4. CASE NewDay BY <1>4 DEF NewDay, Happens
<1>5. CASE Tick BY <1>5 DEF Tick
<1>6. ASSUME NEW i \in Servers, EventThread(i) PROVE TypeInv'
  <2>1. CASE EventDue(i) BY <1>a, <2>1 DEF EventDue, Go, EvPlaces
  <2>2. CASE StopsWaiting(i) BY <2>2 DEF StopsWaiting, Happens, Go, EvPlaces
  <2>3. CASE RunEvent(i) BY <2>3 DEF RunEvent, SetStatus, Go, EvPlaces, Statuses
  <2>4. CASE EventEnds(i) BY <1>a, <2>4 DEF EventEnds, Go, EvPlaces
  <2>5. CASE WaitCheck(i)
    <3>1. faults' \subseteq {"newday", "timeout", "shutdown", "crash"}
      BY <2>5 DEF WaitCheck, Happens
    <3>2. last' \in [Servers -> {"recent", "due"}] BY <2>5 DEF WaitCheck
    <3>3. ev' \in [Servers -> [pc : EvPlaces, todo : SUBSET Nodes]]
      BY <1>a, <2>5 DEF WaitCheck, Go, EvPlaces
    <3> QED BY <2>5, <3>1, <3>2, <3>3 DEF WaitCheck
  <2>6. CASE EventThreadEnds(i) BY <2>6 DEF EventThreadEnds, Go, EvPlaces
  <2>7. ASSUME NEW n \in Nodes, Mark(i, n) PROVE TypeInv'
    <3>1. MarkAs(i, n) \in Statuses BY DEF MarkAs, Statuses
    <3>2. status' \in [Nodes -> Statuses] BY <2>7, <3>1, SetTypes DEF Mark
    <3>3. ev' \in [Servers -> [pc : EvPlaces, todo : SUBSET Nodes]]
      <4>1. "check" \in EvPlaces /\ Nodes \in SUBSET Nodes BY DEF EvPlaces
      <4>2. Step(i, n, "check", Nodes) BY <2>7 DEF Mark
      <4> HIDE DEF TypeInv, TypeOK, Counted
      <4> QED BY <4>1, <4>2, StepTypes DEF TypeInv
    <3> QED BY <2>7, <3>2, <3>3 DEF Mark
  <2>8. ASSUME NEW n \in Nodes, Check(i, n) PROVE TypeInv'
    <3>1. ev' \in [Servers -> [pc : EvPlaces, todo : SUBSET Nodes]]
      <4>1. CASE Inactive(i, n) BY <2>8, <4>1, StepTypes DEF Check, EvPlaces
      <4>2. CASE ~Inactive(i, n) BY <1>a, <2>8, <4>2 DEF Check, Go, EvPlaces
      <4> QED BY <4>1, <4>2
    <3> QED BY <2>8, <3>1 DEF Check
  <2>9. ASSUME NEW n \in Nodes, Reset(i, n) PROVE TypeInv'
    BY <2>9, SetTypes, StepTypes DEF Reset, EvPlaces, Statuses
  <2>10. ASSUME NEW n \in Nodes, WaitMark(i, n) PROVE TypeInv'
    <3>1. (IF status[n] = "wfc" THEN "limbo" ELSE status[n]) \in Statuses BY DEF Statuses
    <3> QED BY <2>10, <3>1, SetTypes, StepTypes DEF WaitMark, EvPlaces
  <2>11. ASSUME NEW n \in Nodes, DailyFound(i, n) \/ DailyStarts(i, n) \/ DailyEnds(i, n)
         PROVE TypeInv'
    <3>1. CASE DailyFound(i, n) BY <3>1 DEF DailyFound, Go, EvPlaces
    <3>2. CASE DailyStarts(i, n) BY <3>2 DEF DailyStarts, SetStatus, Go, EvPlaces, Statuses
    <3>3. CASE DailyEnds(i, n) BY <3>3 DEF DailyEnds, SetStatus, Go, EvPlaces, Statuses
    <3> QED BY <2>11, <3>1, <3>2, <3>3
  <2> QED
    BY <1>6, <2>1, <2>2, <2>3, <2>4, <2>5, <2>6, <2>7, <2>8, <2>9, <2>10, <2>11
    DEF EventThread
<1>7. ASSUME NEW i \in Servers, Shutdown(i) PROVE TypeInv'
  <2>1. main' \in MainTypes BY <1>7, PlaceTypes DEF Shutdown
  <2> QED BY <1>7, <2>1 DEF Shutdown, Happens, MainTypes
<1>8. ASSUME NEW i \in Servers, Closed(i) PROVE TypeInv'
  <2>1. main' \in MainTypes BY <1>8, PlaceTypes DEF Closed
  <2>2. status' \in [Nodes -> Statuses] BY <1>8 DEF Closed, Statuses
  <2> QED BY <1>8, <2>1, <2>2 DEF Closed, MainTypes
<1>9. ASSUME NEW i \in Servers, Crash(i) PROVE TypeInv'
  <2>1. main' \in MainTypes BY <1>9, PlaceTypes DEF Crash
  <2>2. ev' \in [Servers -> [pc : EvPlaces, todo : SUBSET Nodes]]
    BY <1>9 DEF Crash, Go, EvPlaces
  <2>3. /\ new' \in [Nodes -> 0..MaxCalls] /\ online' \in [Nodes -> 0..MaxCalls]
        /\ \A n \in Nodes : new'[n] + online'[n] <= calls
    BY <1>9 DEF Crash
  <2> QED BY <1>9, <2>1, <2>2, <2>3 DEF Crash, Happens, MainTypes
<1>10. ASSUME NEW i \in Servers, Start(i) PROVE TypeInv'
  BY <1>a, <1>10 DEF Start, Go, EvPlaces
<1>11. ASSUME NEW i \in Servers, NEW n \in Nodes, StartNode(i, n) PROVE TypeInv'
  BY <1>11 DEF StartNode, SetStatus, Statuses
<1>12. CASE UNCHANGED vars BY <1>12 DEF vars
<1> QED
  BY <1>1, <1>2, <1>3, <1>4, <1>5, <1>6, <1>7, <1>8, <1>9, <1>10, <1>11, <1>12 DEF Next

\* The node records, the sessions and the threads stay well formed, whatever times
\* out, ends or is started again, for any number of servers, nodes and callers.
THEOREM TypeCorrect == Spec => []TypeOK
<1>1. Spec => []TypeInv BY TypeInit, TypeStep, PTL DEF Spec
<1> QED BY <1>1, PTL DEF TypeInv

---------------------------------------------------------------------------
(* A day without faults *)

OutOfService == {"offline", "limbo", "waiting", "running"}

\* All servers are up, and no daily event is due.
Uneventful ==
  /\ \A i \in Servers : main[i].pc = "up" /\ ev[i].pc \notin {"daily", "dailyrun", "ended"}
  /\ \A n \in Nodes : "EVENT" \notin misc[n]

\* A node with a caller has one, and a status that says so.
CallersMarked ==
  \A n \in Nodes : new[n] + online[n] <= 1 /\ (Busy(n) => status[n] \in {"logon", "inuse"})

\* The server of the event's node waits for the nodes and runs the event, another one
\* waits for the event; each works on its own nodes.
WellPlaced(i) ==
  /\ ev[i].pc \in IF Runs(i) THEN {"idle", "mark", "check", "start", "run", "reset"}
                             ELSE {"idle", "waitmark", "waitcheck", "reset"}
  /\ ev[i].pc \notin {"idle", "reset"} => last[i] = "due"
  /\ ev[i].pc = "reset" => last[i] = "recent"
  /\ ev[i].pc \in {"mark", "waitmark", "reset"} => ev[i].todo \subseteq NodesOf[i]

Places == \A i \in Servers : WellPlaced(i)

\* While the event is due nobody frees nodes.
NotYet ==
  \A i \in Servers : Runs(i) /\ last[i] = "due"
    => timedab = "old" /\ \A j \in Servers : ev[j].pc # "reset"

\* The nodes that were looked at stay out of service until the event has run, ...
ClearedFor(i) ==
  /\ ev[i].pc = "check" => \A n \in Nodes \ ev[i].todo : Inactive(i, n)
  /\ ev[i].pc = "start" => \A n \in Nodes : Inactive(i, n)
  /\ ev[i].pc = "run" =>
       /\ status[EventNode] = "running"
       /\ \A n \in Nodes \ {EventNode} : Inactive(i, n)

Cleared == \A i \in Servers : ClearedFor(i)

\* ... and another server's until it has seen that, and frees them itself.
Freed ==
  \A i \in Servers :
    /\ ev[i].pc = "reset" => \A n \in ev[i].todo : status[n] \in OutOfService
    /\ ~Runs(i) /\ last[i] = "due" /\ timedab = "recent"
         => \A n \in NodesOf[i] : status[n] \in OutOfService

Quiet == Uneventful /\ CallersMarked /\ Places /\ NotYet /\ Cleared /\ Freed

QuietInv == faults = {} => Quiet

LEMMA QuietInit == Init => QuietInv
BY NodesAssumption
DEF Init, QuietInv, Quiet, Uneventful, CallersMarked, Busy, Places, WellPlaced, NotYet,
    Cleared, ClearedFor, Freed

LEMMA FaultsStay == [Next]_vars /\ faults' = {} => faults = {}
<1> SUFFICES ASSUME [Next]_vars, faults' = {} PROVE faults = {} OBVIOUS
<1> USE DEF Happens
<1>1. ASSUME NEW i \in Servers, NEW n \in Nodes, Answer(i, n) \/ StartNode(i, n) PROVE faults = {}
  BY <1>1 DEF Answer, StartNode
<1>2. ASSUME NEW n \in Nodes, Session(n) \/ Down(n) PROVE faults = {}
  BY <1>2 DEF Session, InitFails, Logon, Logoff, Down
<1>3. CASE NewDay \/ Tick BY <1>3 DEF NewDay, Tick
<1>4. ASSUME NEW i \in Servers, EventThread(i) PROVE faults = {}
  <2>1. CASE EventDue(i) \/ StopsWaiting(i) \/ RunEvent(i) \/ EventEnds(i) \/ EventThreadEnds(i)
    BY <2>1 DEF EventDue, StopsWaiting, RunEvent, EventEnds, EventThreadEnds
  <2>2. CASE WaitCheck(i) BY <2>2 DEF WaitCheck
  <2>3. ASSUME NEW n \in Nodes, Mark(i, n) \/ Check(i, n) \/ Reset(i, n) \/ WaitMark(i, n)
        PROVE faults = {}
    BY <2>3 DEF Mark, Check, Reset, WaitMark
  <2>4. ASSUME NEW n \in Nodes, DailyFound(i, n) \/ DailyStarts(i, n) \/ DailyEnds(i, n)
        PROVE faults = {}
    BY <2>4 DEF DailyFound, DailyStarts, DailyEnds
  <2> QED BY <1>4, <2>1, <2>2, <2>3, <2>4 DEF EventThread
<1>5. ASSUME NEW i \in Servers, Shutdown(i) \/ Closed(i) \/ Crash(i) \/ Start(i) PROVE faults = {}
  BY <1>5 DEF Shutdown, Closed, Crash, Start
<1>6. CASE UNCHANGED vars BY <1>6 DEF vars
<1> QED BY <1>1, <1>2, <1>3, <1>4, <1>5, <1>6 DEF Next

\* A node out of service stays as it is.
Stays == \A n \in Nodes : status[n] \in OutOfService => status'[n] = status[n]

\* A step of a caller or the sysop.
LEMMA CallersStep ==
  ASSUME Quiet, Stays, Uneventful', CallersMarked', UNCHANGED <<clock, main, ev>>
  PROVE  Quiet'
<1> USE NodesAssumption DEF Quiet, Stays, OutOfService, clock
<1>1. Places' /\ NotYet' BY DEF Places, WellPlaced, NotYet, Runs
<1>2. \A i \in Servers, n \in Nodes : Inactive(i, n) => Inactive(i, n)' BY DEF Inactive
<1>3. Cleared' BY <1>2 DEF Cleared, ClearedFor
<1>4. Freed' BY DEF Freed, Runs, Places, WellPlaced
<1> QED BY <1>1, <1>3, <1>4

LEMMA AnswerStep ==
  ASSUME Quiet, TypeInv, NEW i \in Servers, NEW n \in Nodes, Answer(i, n)
  PROVE  Quiet'
<1> USE DEF TypeInv, TypeOK
<1>1. Uneventful' BY DEF Quiet, Uneventful, Answer
<1>2. CallersMarked'
  BY DEF Quiet, CallersMarked, Busy, Answer, SetStatus
<1>3. Stays BY DEF Stays, OutOfService, Answer, SetStatus
<1> QED BY <1>1, <1>2, <1>3, CallersStep DEF Answer

LEMMA SessionStep ==
  ASSUME Quiet, TypeInv, NEW n \in Nodes, Session(n) \/ Down(n)
  PROVE  Quiet'
<1> USE DEF TypeInv, TypeOK, SetStatus
<1>1. Uneventful'
  BY DEF Quiet, Uneventful, Session, Down, InitFails, Logon, Logoff
<1>2. CASE InitFails(n)
  <2>1. status[n] \in {"logon", "inuse"} BY <1>2 DEF Quiet, CallersMarked, Busy, InitFails
  <2>2. CallersMarked' BY <1>2 DEF Quiet, CallersMarked, Busy, InitFails
  <2>3. Stays BY <1>2, <2>1 DEF Stays, OutOfService, InitFails
  <2> QED BY <1>1, <1>2, <2>2, <2>3, CallersStep DEF InitFails
<1>3. CASE Logon(n)
  <2>1. status[n] \in {"logon", "inuse"} BY <1>3 DEF Quiet, CallersMarked, Busy, Logon
  <2>2. CallersMarked' BY <1>3 DEF Quiet, CallersMarked, Busy, Logon
  <2>3. Stays BY <1>3, <2>1 DEF Stays, OutOfService, Logon
  <2> QED BY <1>1, <1>3, <2>2, <2>3, CallersStep DEF Logon
<1>4. CASE Logoff(n)
  <2>1. status[n] \in {"logon", "inuse"} BY <1>4 DEF Quiet, CallersMarked, Busy, Logoff
  <2>2. CallersMarked' BY <1>4 DEF Quiet, CallersMarked, Busy, Logoff
  <2>3. Stays BY <1>4, <2>1 DEF Stays, OutOfService, Logoff
  <2> QED BY <1>1, <1>4, <2>2, <2>3, CallersStep DEF Logoff
<1>5. CASE Down(n)
  <2>1. CallersMarked' BY <1>5 DEF Quiet, CallersMarked, Busy, Down, sessions
  <2>2. Stays BY <1>5 DEF Stays, OutOfService, Down
  <2> QED BY <1>1, <1>5, <2>1, <2>2, CallersStep DEF Down
<1> QED BY <1>2, <1>3, <1>4, <1>5 DEF Session

\* Only one server has the event's node.
LEMMA OneRuns == \A i, j \in Servers : Runs(i) /\ Runs(j) => i = j
BY NodesAssumption DEF Runs

LEMMA TickStep ==
  ASSUME ~Frequent, Quiet, TypeInv, Tick
  PROVE  Quiet'
<1> USE NodesAssumption DEF TypeInv, TypeOK
<1>1. UNCHANGED <<status, misc, new, online, main, ev, faults>>
  BY DEF Tick, records, sessions
<1>2. timedab' = "old" /\ last' = [i \in Servers |-> "due"] BY DEF Tick
<1>3. \A i \in Servers : ev[i].pc = "idle" BY DEF Tick, Quiet, Uneventful
<1>4. Uneventful' /\ CallersMarked'
  BY <1>1 DEF Quiet, Uneventful, CallersMarked, Busy
<1>5. Places' BY <1>1, <1>2, <1>3 DEF Places, WellPlaced, Quiet, Runs
<1>6. NotYet' /\ Cleared' /\ Freed'
  BY <1>1, <1>2, <1>3 DEF NotYet, Cleared, ClearedFor, Freed
<1> QED BY <1>4, <1>5, <1>6 DEF Quiet

\* The other threads do not notice a step of one that leaves nodes out of service alone.
LEMMA Others ==
  ASSUME Quiet, NEW i \in Servers, \A j \in Servers \ {i} : ev'[j] = ev[j] /\ last'[j] = last[j]
  PROVE  /\ WellPlaced(i)' => Places'
         /\ Stays /\ ClearedFor(i)' => Cleared'
<1> USE NodesAssumption
<1>1. \A j \in Servers \ {i} : WellPlaced(j)' BY DEF Quiet, Places, WellPlaced, Runs
<1>2. ASSUME Stays, NEW j \in Servers \ {i} PROVE ClearedFor(j)'
  <2>1. ClearedFor(j) /\ ev'[j] = ev[j] BY DEF Quiet, Cleared
  <2>2. \A n \in Nodes : Inactive(j, n) => Inactive(j, n)'
    BY <1>2 DEF Stays, OutOfService, Inactive
  <2>3. status[EventNode] = "running" => status'[EventNode] = "running"
    BY <1>2 DEF Stays, OutOfService
  <2> QED BY <2>1, <2>2, <2>3 DEF ClearedFor
<1> QED BY <1>1, <1>2 DEF Places, Cleared

\* A step of an event thread that leaves the records alone, except nodes that wait for a
\* call, and does not set the clock.
LEMMA ThreadStep ==
  ASSUME Quiet, TypeInv, NEW i \in Servers, Stays, UNCHANGED <<misc, clock, sessions, main>>,
         \A n \in Nodes : status'[n] # status[n] => status[n] = "wfc",
         \A j \in Servers \ {i} : ev'[j] = ev[j],
         ev'[i].pc \notin {"daily", "dailyrun", "ended", "reset"},
         WellPlaced(i)', ClearedFor(i)'
  PROVE  Quiet'
<1> USE NodesAssumption DEF clock, sessions
<1>1. Uneventful' BY DEF Quiet, Uneventful
<1>2. CallersMarked' BY DEF Quiet, CallersMarked, Busy
<1>3. NotYet' BY DEF Quiet, NotYet, Runs
<1>4. Places' /\ Cleared' BY Others
<1>5. \A n \in Nodes : status[n] \in OutOfService => status'[n] \in OutOfService BY DEF Stays
<1>6. Freed' BY <1>5 DEF Quiet, Freed, Runs, TypeInv, TypeOK
<1> QED BY <1>1, <1>2, <1>3, <1>4, <1>6 DEF Quiet

\* What the steps of the loops make of a thread.
LEMMA StepsTo ==
  ASSUME TypeInv, NEW i \in Servers, NEW n, NEW place, NEW todo, Step(i, n, place, todo)
  PROVE  /\ \A j \in Servers \ {i} : ev'[j] = ev[j]
         /\ \/ ev[i].todo = {n} /\ ev'[i] = [pc |-> place, todo |-> todo]
            \/ ev'[i] = [pc |-> ev[i].pc, todo |-> ev[i].todo \ {n}]
BY DEF TypeInv, TypeOK, Step, Go

LEMMA EventDueStep ==
  ASSUME Quiet, TypeInv, NEW i \in Servers, EventDue(i)
  PROVE  Quiet'
<1>1. /\ ev'[i] = [pc |-> IF Runs(i) THEN "mark" ELSE "waitmark", todo |-> NodesOf[i]]
      /\ \A j \in Servers \ {i} : ev'[j] = ev[j]
      /\ UNCHANGED <<status, misc, clock, sessions, main>>
  BY DEF EventDue, Go, TypeInv, TypeOK, records
<1>2. last'[i] = "due" BY DEF EventDue, clock
<1>3. WellPlaced(i)' /\ ClearedFor(i)' BY <1>1, <1>2 DEF WellPlaced, ClearedFor, Runs
<1> QED BY <1>1, <1>3, ThreadStep DEF Stays

LEMMA MarkStep ==
  ASSUME Quiet, TypeInv, NEW i \in Servers, NEW n \in Nodes, Mark(i, n) \/ WaitMark(i, n)
  PROVE  Quiet'
<1> DEFINE next == IF ev[i].pc = "mark" THEN "check" ELSE "waitcheck"
           s == IF status[n] # "wfc" THEN status[n]
                ELSE IF ev[i].pc = "mark" THEN MarkAs(i, n) ELSE "limbo"
<1>1. /\ ev[i].pc \in {"mark", "waitmark"} /\ SetStatus(n, s)
      /\ UNCHANGED <<misc, clock, sessions, main>>
  BY DEF Mark, WaitMark, MarkAs
<1>2. \A k \in Nodes : status'[k] # status[k] => status[k] = "wfc"
  <2> HIDE DEF s
  <2>1. status[n] # "wfc" => s = status[n] BY DEF s
  <2> QED BY <1>1, <2>1 DEF SetStatus, TypeInv, TypeOK
<1>3. Stays BY <1>2 DEF Stays, OutOfService
<1>4. /\ \A j \in Servers \ {i} : ev'[j] = ev[j]
      /\ \/ ev[i].pc = "mark" /\ ev'[i] = [pc |-> "check", todo |-> Nodes]
         \/ ev[i].pc = "waitmark" /\ ev'[i] = [pc |-> "waitcheck", todo |-> {}]
         \/ ev'[i] = [pc |-> ev[i].pc, todo |-> ev[i].todo \ {n}]
  BY StepsTo DEF Mark, WaitMark
<1>5. WellPlaced(i) /\ UNCHANGED last BY <1>1 DEF Quiet, Places, clock
<1>6. WellPlaced(i)' BY <1>1, <1>4, <1>5 DEF WellPlaced, Runs
<1>7. ClearedFor(i)' BY <1>1, <1>4 DEF ClearedFor
<1> QED BY <1>1, <1>2, <1>3, <1>4, <1>6, <1>7, ThreadStep

LEMMA CheckStep ==
  ASSUME Quiet, TypeInv, NEW i \in Servers, NEW n \in Nodes, Check(i, n)
  PROVE  Quiet'
<1> USE NodesAssumption
<1>1. /\ ev[i].pc = "check" /\ n \in ev[i].todo
      /\ UNCHANGED <<status, misc, clock, sessions, main>>
  BY DEF Check, IsNext, records
<1>2. WellPlaced(i) /\ ClearedFor(i) /\ UNCHANGED last BY <1>1 DEF Quiet, Places, Cleared, clock
<1>3. Runs(i) BY <1>1, <1>2 DEF WellPlaced
<1>4. /\ \A j \in Servers \ {i} : ev'[j] = ev[j]
      /\ WellPlaced(i)' /\ ClearedFor(i)' /\ ev'[i].pc \in {"check", "start", "mark"}
  <2>1. CASE Inactive(i, n)
    <3>1. /\ \A j \in Servers \ {i} : ev'[j] = ev[j]
          /\ \/ ev[i].todo = {n} /\ ev'[i] = [pc |-> "start", todo |-> {}]
             \/ ev'[i] = [pc |-> "check", todo |-> ev[i].todo \ {n}]
      <4>1. Step(i, n, "start", {}) BY <2>1 DEF Check
      <4>2. CASE ev[i].todo = {n}
        <5>1. Go(i, "start", {}) BY <4>1, <4>2 DEF Step
        <5> QED BY <4>2, <5>1 DEF Go, TypeInv, TypeOK
      <4>3. CASE ev[i].todo # {n}
        <5>1. Go(i, "check", ev[i].todo \ {n}) BY <1>1, <4>1, <4>3 DEF Step
        <5> QED BY <5>1 DEF Go, TypeInv, TypeOK
      <4> QED BY <4>2, <4>3
    <3>2. WellPlaced(i)' BY <1>1, <1>2, <1>3, <3>1 DEF WellPlaced, Runs
    <3>3. \A k \in Nodes : Inactive(i, k)' <=> Inactive(i, k) BY <1>1 DEF Inactive
    <3>4. \A k \in Nodes \ (ev[i].todo \ {n}) : Inactive(i, k) BY <1>1, <1>2, <2>1 DEF ClearedFor
    <3>5. ClearedFor(i)' BY <3>1, <3>3, <3>4 DEF ClearedFor
    <3> QED BY <3>1, <3>2, <3>5
  <2>2. CASE ~Inactive(i, n)
    <3>1. ev' = [ev EXCEPT ![i] = [pc |-> "mark", todo |-> NodesOf[i]]]
      BY <2>2 DEF Check, Go
    <3>2. ev'[i] = [pc |-> "mark", todo |-> NodesOf[i]] /\ \A j \in Servers \ {i} : ev'[j] = ev[j]
      BY <3>1 DEF TypeInv, TypeOK
    <3> QED BY <1>1, <1>2, <1>3, <3>2 DEF WellPlaced, ClearedFor, Runs
  <2> QED BY <2>1, <2>2
<1> QED BY <1>1, <1>4, ThreadStep DEF Stays

\* Every node is out of service when the event starts.
LEMMA RunEventStep ==
  ASSUME Quiet, TypeInv, NEW i \in Servers, RunEvent(i)
  PROVE  Quiet'
<1> USE NodesAssumption
<1>1. /\ ev[i].pc = "start" /\ ev'[i] = [pc |-> "run", todo |-> {}]
      /\ \A j \in Servers \ {i} : ev'[j] = ev[j]
      /\ status' = [status EXCEPT ![EventNode] = "running"]
      /\ UNCHANGED <<misc, timedab, last, new, online, calls, main>>
  BY DEF RunEvent, SetStatus, Go, clock, sessions, TypeInv, TypeOK
<1>2. WellPlaced(i) /\ Runs(i) BY <1>1 DEF Quiet, Places, WellPlaced
<1>3. \A n \in Nodes : Inactive(i, n) BY <1>1 DEF Quiet, Cleared, ClearedFor
<1>4. /\ status[EventNode] = "waiting" /\ status'[EventNode] = "running"
      /\ \A n \in Nodes \ {EventNode} : status'[n] = status[n]
  BY <1>1, <1>3 DEF Inactive, TypeInv, TypeOK
<1>5. Uneventful' BY <1>1 DEF Quiet, Uneventful
<1>6. CallersMarked' BY <1>1, <1>4 DEF Quiet, CallersMarked, Busy
<1>7. WellPlaced(i)' BY <1>1, <1>2 DEF WellPlaced, Runs
<1>8. Places' BY <1>1, <1>7, Others
<1>9. NotYet' BY <1>1 DEF Quiet, NotYet, Runs
<1>10. ClearedFor(i)' BY <1>1, <1>3, <1>4 DEF ClearedFor, Inactive
<1>11. \A j \in Servers \ {i} : ev[j].pc \notin {"check", "start", "run"}
  BY <1>2, OneRuns DEF Quiet, Places, WellPlaced
<1>12. Cleared' BY <1>1, <1>10, <1>11 DEF Cleared, ClearedFor
<1>13. \A n \in Nodes : status[n] \in OutOfService => status'[n] \in OutOfService
  BY <1>4 DEF OutOfService
<1>14. \A j \in Servers : ev'[j].pc = "reset"
         => ev[j].pc = "reset" /\ ev'[j].todo = ev[j].todo /\ ev[j].todo \subseteq Nodes
  BY <1>1, <1>8 DEF Places, WellPlaced
<1>15. Freed' BY <1>1, <1>13, <1>14 DEF Quiet, Freed, Runs
<1> QED BY <1>5, <1>6, <1>8, <1>9, <1>12, <1>15 DEF Quiet

\* Every node is out of service still when it ends, and no event is due any more.
LEMMA EventEndsStep ==
  ASSUME Quiet, TypeInv, NEW i \in Servers, EventEnds(i)
  PROVE  Quiet'
<1> USE NodesAssumption
<1>1. /\ ev[i].pc = "run" /\ ev'[i] = [pc |-> "reset", todo |-> NodesOf[i]]
      /\ last'[i] = "recent"
      /\ \A j \in Servers \ {i} : ev'[j] = ev[j] /\ last'[j] = last[j]
      /\ UNCHANGED <<status, misc, new, online, calls, main>>
  BY DEF EventEnds, Go, records, sessions, TypeInv, TypeOK
<1>2. Runs(i) BY <1>1 DEF Quiet, Places, WellPlaced
<1>3. \A n \in Nodes : status[n] \in OutOfService
  BY <1>1 DEF Quiet, Cleared, ClearedFor, Inactive, OutOfService
<1>4. Uneventful' /\ CallersMarked' BY <1>1 DEF Quiet, Uneventful, CallersMarked, Busy
<1>5. WellPlaced(i)' BY <1>1, <1>2 DEF WellPlaced, Runs
<1>6. Places' BY <1>1, <1>5, Others
<1>7. NotYet' BY <1>1, <1>2, OneRuns DEF NotYet, Runs
<1>8. ClearedFor(i)' /\ Stays BY <1>1 DEF ClearedFor, Stays
<1>9. Cleared' BY <1>1, <1>8, Others
<1>10. \A j \in Servers : ev'[j].pc = "reset" => ev'[j].todo \subseteq Nodes
  BY <1>1, <1>6 DEF Places, WellPlaced
<1>11. Freed' BY <1>1, <1>3, <1>10 DEF Freed
<1> QED BY <1>4, <1>6, <1>7, <1>9, <1>11 DEF Quiet

\* Another server goes on to wait, or sees that the event has run: its nodes are still
\* out of service, and no event is due.
LEMMA WaitCheckStep ==
  ASSUME Quiet, TypeInv, NEW i \in Servers, WaitCheck(i), faults' = {}
  PROVE  Quiet'
<1> USE NodesAssumption
<1>1. /\ ev[i].pc = "waitcheck" /\ UNCHANGED <<status, misc, timedab, new, online, calls, main>>
      /\ main[i].pc = "up"
  BY DEF WaitCheck, records, sessions, Quiet, Uneventful
<1>2. WellPlaced(i) /\ ~Runs(i) /\ last[i] = "due" BY <1>1 DEF Quiet, Places, WellPlaced
<1>3. CASE ~IsDone
  <2>1. Go(i, "waitmark", NodesOf[i]) /\ UNCHANGED last
    BY <1>1, <1>3 DEF WaitCheck, Happens
  <2>2. /\ ev'[i] = [pc |-> "waitmark", todo |-> NodesOf[i]]
        /\ \A j \in Servers \ {i} : ev'[j] = ev[j]
    BY <2>1 DEF Go, TypeInv, TypeOK
  <2>3. WellPlaced(i)' /\ ClearedFor(i)' BY <1>2, <2>1, <2>2 DEF WellPlaced, ClearedFor, Runs
  <2> QED BY <1>1, <2>1, <2>2, <2>3, ThreadStep DEF Stays, clock, sessions
<1>4. CASE IsDone
  <2>1. /\ ev'[i] = [pc |-> "reset", todo |-> NodesOf[i]] /\ last'[i] = "recent"
        /\ \A j \in Servers \ {i} : ev'[j] = ev[j] /\ last'[j] = last[j]
    BY <1>4 DEF WaitCheck, Go, TypeInv, TypeOK
  <2>2. timedab = "recent" BY <1>4 DEF IsDone
  <2>3. \A n \in NodesOf[i] : status[n] \in OutOfService BY <1>2, <2>2 DEF Quiet, Freed
  <2>4. Uneventful' /\ CallersMarked'
    BY <1>1, <2>1 DEF Quiet, Uneventful, CallersMarked, Busy
  <2>5. WellPlaced(i)' BY <1>2, <2>1 DEF WellPlaced, Runs
  <2>6. Places' BY <2>1, <2>5, Others
  <2>7. NotYet' BY <1>2, <2>1, <2>2 DEF Quiet, NotYet, Runs
  <2>8. ClearedFor(i)' /\ Stays BY <1>1, <2>1 DEF ClearedFor, Stays
  <2>9. Cleared' BY <2>1, <2>8, Others
  <2>10. Freed' BY <1>1, <2>1, <2>3 DEF Quiet, Freed, Runs
  <2> QED BY <2>4, <2>6, <2>7, <2>9, <2>10 DEF Quiet
<1> QED BY <1>3, <1>4

\* No server waits for nodes or runs the event while another frees its nodes.
LEMMA ResetStep ==
  ASSUME Quiet, TypeInv, NEW i \in Servers, NEW n \in Nodes, Reset(i, n)
  PROVE  Quiet'
<1> USE NodesAssumption
<1>1. /\ ev[i].pc = "reset" /\ n \in ev[i].todo
      /\ status' = [status EXCEPT ![n] = "wfc"]
      /\ UNCHANGED <<misc, timedab, last, new, online, calls, main>>
      /\ Step(i, n, "idle", {})
  BY DEF Reset, IsNext, SetStatus, clock, sessions
<1>2. /\ \A j \in Servers \ {i} : ev'[j] = ev[j]
      /\ \/ ev'[i] = [pc |-> "idle", todo |-> {}]
         \/ ev'[i] = [pc |-> "reset", todo |-> ev[i].todo \ {n}]
  <2>1. CASE ev[i].todo = {n}
    <3>1. Go(i, "idle", {}) BY <1>1, <2>1 DEF Step
    <3> QED BY <3>1 DEF Go, TypeInv, TypeOK
  <2>2. CASE ev[i].todo # {n}
    <3>1. Go(i, "reset", ev[i].todo \ {n}) BY <1>1, <2>2 DEF Step
    <3> QED BY <3>1 DEF Go, TypeInv, TypeOK
  <2> QED BY <2>1, <2>2
<1>3. WellPlaced(i) /\ n \in NodesOf[i] /\ last[i] = "recent"
  BY <1>1 DEF Quiet, Places, WellPlaced
<1>4. status[n] \in OutOfService /\ status'[n] = "wfc"
      /\ \A k \in Nodes \ {n} : status'[k] = status[k]
  BY <1>1 DEF Quiet, Freed, TypeInv, TypeOK
<1>5. Uneventful' BY <1>1, <1>2 DEF Quiet, Uneventful
<1>6. CallersMarked' BY <1>1, <1>4 DEF Quiet, CallersMarked, Busy, OutOfService
<1>7. WellPlaced(i)' BY <1>1, <1>2, <1>3 DEF WellPlaced, Runs
<1>8. Places' BY <1>1, <1>2, <1>7, Others
<1>9. \A j \in Servers : Runs(j) => last[j] # "due" BY <1>1 DEF Quiet, NotYet
<1>10. NotYet' BY <1>1, <1>9 DEF NotYet, Runs
<1>11. \A j \in Servers : ev[j].pc \notin {"check", "start", "run"}
  BY <1>9 DEF Quiet, Places, WellPlaced
<1>12. Cleared' BY <1>2, <1>11 DEF Cleared, ClearedFor
<1>13. \A j \in Servers \ {i} : n \notin NodesOf[j] BY <1>3
<1>14. \A j \in Servers : ev'[j].pc = "reset"
         => ev'[j].todo \subseteq Nodes \ {n} /\ ev[j].pc = "reset" /\ ev'[j].todo \subseteq ev[j].todo
  BY <1>1, <1>2, <1>8, <1>13 DEF Places, WellPlaced
<1>15. Freed' BY <1>1, <1>3, <1>4, <1>13, <1>14 DEF Quiet, Freed, Runs
<1> QED BY <1>5, <1>6, <1>8, <1>10, <1>12, <1>15 DEF Quiet

LEMMA EventThreadStep ==
  ASSUME Quiet, TypeInv, NEW i \in Servers, EventThread(i), faults' = {}
  PROVE  Quiet'
<1>1. main[i].pc = "up" /\ ev[i].pc \notin {"daily", "dailyrun"}
      /\ \A n \in Nodes : "EVENT" \notin misc[n]
  BY DEF Quiet, Uneventful
<1>2. ~StopsWaiting(i) /\ ~EventThreadEnds(i)
  BY <1>1 DEF StopsWaiting, EventThreadEnds, Happens
<1>3. \A n \in Nodes : ~DailyFound(i, n) /\ ~DailyStarts(i, n) /\ ~DailyEnds(i, n)
  BY <1>1 DEF DailyFound, DailyStarts, DailyEnds
<1> QED
  BY <1>2, <1>3, EventDueStep, MarkStep, CheckStep, RunEventStep, EventEndsStep, WaitCheckStep,
     ResetStep
  DEF EventThread

LEMMA QuietStep ==
  ASSUME ~Frequent, TypeInv, QuietInv, [Next]_vars
  PROVE  QuietInv'
<1> SUFFICES ASSUME faults' = {} PROVE Quiet' BY DEF QuietInv
<1>0. Quiet BY FaultsStay DEF QuietInv
<1>1. ASSUME NEW i \in Servers, NEW n \in Nodes, Answer(i, n) \/ StartNode(i, n) PROVE Quiet'
  <2>1. ~StartNode(i, n) BY <1>0 DEF StartNode, Quiet, Uneventful
  <2> QED BY <1>0, <1>1, <2>1, AnswerStep
<1>2. ASSUME NEW n \in Nodes, Session(n) \/ Down(n) PROVE Quiet'
  BY <1>0, <1>2, SessionStep
<1>3. ~NewDay BY DEF NewDay, Happens
<1>4. CASE Tick BY <1>0, <1>4, TickStep
<1>5. ASSUME NEW i \in Servers, EventThread(i) PROVE Quiet'
  BY <1>0, <1>5, EventThreadStep
<1>6. \A i \in Servers : ~Shutdown(i) /\ ~Closed(i) /\ ~Crash(i) /\ ~Start(i)
  BY <1>0 DEF Shutdown, Closed, Crash, Start, Happens, Quiet, Uneventful
<1>7. CASE UNCHANGED vars
  <2> QED BY <1>0, <1>7
    DEF vars, Quiet, Uneventful, CallersMarked, Busy, Places, WellPlaced, NotYet, Cleared,
        ClearedFor, Freed, Inactive, Runs
<1> QED BY <1>1, <1>2, <1>3, <1>4, <1>5, <1>6, <1>7 DEF Next

LEMMA QuietCorrect == ASSUME ~Frequent PROVE Spec => []QuietInv
<1>1. TypeInv /\ QuietInv /\ [Next]_vars => QuietInv' BY QuietStep
<1> QED BY QuietInit, TypeInit, TypeStep, <1>1, PTL DEF Spec

\* No two callers are given the same node while no wait times out, no daily event is
\* due and no server ends, for any number of servers, nodes and callers.
THEOREM OneCallerCorrect == ASSUME ~Frequent PROVE Spec => []OneCaller
<1>1. QuietInv => OneCaller BY DEF QuietInv, Quiet, CallersMarked, OneCaller
<1> QED BY <1>1, QuietCorrect, PTL

\* While an exclusive event that runs at most once an hour runs, no node of any server
\* has a caller, if no wait has timed out, no daily event was due and no server ended.
THEOREM ExclusiveAloneCorrect == ASSUME ~Frequent PROVE Spec => []ExclusiveAlone
<1>1. QuietInv => ExclusiveAlone
  <2> SUFFICES ASSUME Quiet, NEW i \in Servers, ev[i].pc = "run", NEW n \in Nodes PROVE ~Busy(n)
    BY DEF QuietInv, ExclusiveAlone, Running
  <2>1. status[n] \in {"running", "waiting", "offline", "limbo"}
    BY DEF Quiet, Cleared, ClearedFor, Inactive
  <2> QED BY <2>1 DEF Quiet, CallersMarked
<1> QED BY <1>1, QuietCorrect, PTL
=============================================================================
