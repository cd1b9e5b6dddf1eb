----------------------- MODULE ServerLifecycleProofs -----------------------
(***************************************************************************)
(* Theorems about ServerLifecycle, for any messages, tables and refusals:  *)
(* its types for any prefetch, what a create may count on when the creates *)
(* in hand concern different instances, and what an acknowledged message   *)
(* has done: a delete has removed its servers, a resize has changed them,  *)
(* a create has left its server ready or in error.                         *)
(***************************************************************************)
EXTENDS ServerLifecycle, TLAPS, FiniteSetTheorems, FunctionTheorems

-----------------------------------------------------------------------------
(* Types                                                                   *)

\* The calls at which create has its row.
Late == {"write batch", "write price", "write flavor", "insert card", "reselect card",
         "find prefix", "insert address", "reselect address", "write state"}

\* The calls at which nothing is known of the rows.
Early == {"look up", "select servers", "resize price", "resize flavor"}

LEMMA CallsAre == Calls = Early \cup Late \cup {"delete server", "insert server", "reselect server"}
BY DEF Calls, Early, Late

LEMMA FirstCalls ==
    ASSUME NEW t \in Tasks
    PROVE  FirstCall(t) \in Early \cup {"acked"}
BY DEF FirstCall, Early

LEMMA NextCalls == \A w : NextCall(w) \in Late
BY DEF NextCall, Late

LEMMA AgainCalls ==
    ASSUME NEW call \in Calls
    PROVE  /\ Again(call) \in Calls
           /\ call \in Early => Again(call) \in Early
           /\ call \in Late => Again(call) \in Late
           /\ call = "delete server" => Again(call) = "delete server"
           /\ call \in {"insert server", "reselect server"} => Again(call) = "reselect server"
BY DEF Again, Calls, Early, Late

\* How a step moves its task, and what it may not do to the counters.
TaskTypes ==
    /\ pc' \in [Tasks -> Calls \cup Ended]
    /\ run' \in [Tasks -> 1 .. MaxRetries]
    /\ faults' \in 0 .. Faults

LEMMA MoveTypes ==
    ASSUME TypeOK, NEW t \in Tasks, NEW next \in Calls \cup Ended, GoTo(t, next),
           UNCHANGED run, Fault \/ UNCHANGED faults
    PROVE  TaskTypes
<1>1. faults' \in 0 .. Faults
  BY TasksAssumption DEF TypeOK, Fault
<1>2. QED
  BY <1>1 DEF TypeOK, GoTo, TaskTypes

LEMMA RerunTypes ==
    ASSUME TypeOK, NEW t \in Tasks, NEW first \in Calls \cup Ended, Rerun(t, first), Fault
    PROVE  TaskTypes
<1>1. faults' \in 0 .. Faults
  BY TasksAssumption DEF TypeOK, Fault
<1>2. pc' \in [Tasks -> Calls \cup Ended]
  BY DEF TypeOK, Rerun, GoTo, Ended
<1>3. run' \in [Tasks -> 1 .. MaxRetries]
  BY TasksAssumption DEF TypeOK, Rerun
<1>4. QED
  BY <1>1, <1>2, <1>3 DEF TaskTypes

\* Where Report leads.
LEMMA ReportMoves ==
    ASSUME NEW t \in Tasks, Report(t)
    PROVE  /\ UNCHANGED run
           /\ \E next \in Late \cup {"acked", "dead"} : GoTo(t, next)
BY NextCalls DEF Report, Continue, SkipCard, SkipAddress, StopCreate, Late

LEMMA NoReplyTypes ==
    ASSUME TypeOK, NEW t \in Tasks, pc[t] \in Calls, NoReply(t)
    PROVE  TaskTypes
<1>1. Again(pc[t]) \in Calls
  BY AgainCalls
<1>2. FirstCall(t) \in Calls \cup Ended
  BY FirstCalls, CallsAre DEF Ended
<1>3. CASE Interrupted(t, Again(pc[t]), FirstCall(t))
  <2>1. CASE GoTo(t, Again(pc[t])) /\ UNCHANGED run
    BY <1>1, <1>3, <2>1, MoveTypes DEF Interrupted
  <2>2. CASE Rerun(t, FirstCall(t))
    BY <1>2, <1>3, <2>2, RerunTypes DEF Interrupted
  <2>3. CASE Refused(t)
    BY <1>3, <2>3, MoveTypes DEF Interrupted, Refused, Ended
  <2>4. QED
    BY <1>3, <2>1, <2>2, <2>3 DEF Interrupted
<1>4. CASE Fault /\ Report(t)
  <2>1. PICK next \in Late \cup {"acked", "dead"} : GoTo(t, next)
    BY <1>4, ReportMoves
  <2>2. next \in Calls \cup Ended
    BY CallsAre DEF Ended
  <2>3. QED
    BY <1>4, <2>1, <2>2, ReportMoves, MoveTypes
<1>5. QED
  BY <1>3, <1>4 DEF NoReply

LEMMA ConflictTypes ==
    ASSUME TypeOK, NEW t \in Tasks, Conflict(t)
    PROVE  TaskTypes
<1>1. PICK next \in Late \cup {"acked", "dead"} : GoTo(t, next)
  BY ReportMoves DEF Conflict
<1>2. next \in Calls \cup Ended
  BY CallsAre DEF Ended
<1>3. QED
  BY <1>1, <1>2, ReportMoves, MoveTypes DEF Conflict

LEMMA ReplyTypes ==
    ASSUME TypeOK, NEW t \in Tasks, NEW next \in Calls \cup Ended, Reply(t, next)
    PROVE  TaskTypes
BY MoveTypes DEF Reply

LEMMA ContinueTypes ==
    ASSUME TypeOK, NEW t \in Tasks, NEW w, Continue(t, w), Answered
    PROVE  TaskTypes
<1>1. NextCall(w) \in Calls \cup Ended
  BY NextCalls, CallsAre
<1>2. QED
  BY <1>1, MoveTypes DEF Continue, Answered

\* The steps of one task.
Step(t) == Create(t) \/ Removal(t) \/ Resize(t) \/ NotApplied(t)

LEMMA StepTypes ==
    ASSUME TypeOK, NEW t \in Tasks, Step(t)
    PROVE  TaskTypes
<1> USE DEF Calls, Ended
<1>1. CASE LookUp(t)
  BY <1>1, ReplyTypes DEF LookUp
<1>2. CASE CreateServer(t)
  BY <1>2, ReplyTypes, NoReplyTypes, ConflictTypes DEF CreateServer
<1>3. CASE ReselectServer(t)
  BY <1>3, ReplyTypes DEF ReselectServer
<1>4. CASE WriteBatch(t)
  BY <1>4, ContinueTypes, NoReplyTypes DEF WriteBatch
<1>5. CASE WritePrice(t)
  BY <1>5, ReplyTypes, NoReplyTypes DEF WritePrice
<1>6. CASE WriteFlavor(t)
  BY <1>6, ContinueTypes, NoReplyTypes DEF WriteFlavor
<1>7. CASE CreateCard(t)
  BY <1>7, ContinueTypes, NoReplyTypes, ConflictTypes DEF CreateCard, CardWritten
<1>8. CASE ReselectCard(t)
  BY <1>8, ContinueTypes, ReplyTypes DEF ReselectCard, CardWritten
<1>9. CASE FindPrefix(t)
  BY <1>9, ContinueTypes, ReplyTypes DEF FindPrefix, SkipAddress
<1>10. CASE CreateAddress(t)
  BY <1>10, ContinueTypes, NoReplyTypes, ConflictTypes DEF CreateAddress, AddressWritten
<1>11. CASE ReselectAddress(t)
  BY <1>11, ContinueTypes, ReplyTypes DEF ReselectAddress, AddressWritten
<1>12. CASE WriteState(t)
  BY <1>12, ReplyTypes, NoReplyTypes DEF WriteState
<1>13. CASE Removal(t)
  <2>1. \A v : AfterRemoval(t, v) \in Calls \cup Ended
    BY DEF AfterRemoval
  <2>2. QED
    BY <1>13, <2>1, ReplyTypes, NoReplyTypes DEF Removal, SelectServers, DeleteVictim
<1>14. CASE Resize(t)
  BY <1>14, ReplyTypes, NoReplyTypes DEF Resize, ResizePrice, ResizeFlavor
<1>15. CASE NotApplied(t)
  BY <1>15, NoReplyTypes DEF NotApplied, Busy, TypeOK
<1>16. QED
  BY <1>1, <1>2, <1>3, <1>4, <1>5, <1>6, <1>7, <1>8, <1>9, <1>10, <1>11, <1>12, <1>13,
     <1>14, <1>15 DEF Step, Create

-----------------------------------------------------------------------------
\* The rows of the tables, apart from what tasks do.
RowsOK ==
    /\ serial \in Nat \ {0}
    /\ \A s \in servers : s.id \in 1 .. serial - 1
    /\ \A e \in endpoints : e.id \in 1 .. serial - 1
    /\ \A i \in ips : i.id \in 1 .. serial - 1 /\ i.endpoint \in 1 .. serial - 1

IsServer(s) ==
    s = [id |-> s.id, uuid |-> s.uuid, hostname |-> s.hostname, raw_info |-> s.raw_info,
         state |-> s.state, fields |-> s.fields]

ServersOK ==
    /\ \A s \in servers : IsServer(s)
    /\ \A r, s \in servers : r.id = s.id => r = s

SameRow(r, s) ==
    r.id = s.id /\ r.uuid = s.uuid /\ r.hostname = s.hostname /\ r.raw_info = s.raw_info

\* An update: some rows give way to others that are the same row.
Update(old, new) ==
    /\ old \subseteq servers /\ DOMAIN new = old
    /\ servers' = (servers \ old) \cup {new[s] : s \in old}
    /\ \A s \in old : IsServer(new[s]) /\ SameRow(new[s], s)

LEMMA FieldsKept ==
    ASSUME NEW s, IsServer(s)
    PROVE  /\ \A f : LET r == [s EXCEPT !.fields = f] IN IsServer(r) /\ SameRow(r, s)
           /\ \A f : LET r == [s EXCEPT !.state = f] IN IsServer(r) /\ SameRow(r, s)
<1>1. PICK a, b, c, d, e, f :
         s = [id |-> a, uuid |-> b, hostname |-> c, raw_info |-> d, state |-> e, fields |-> f]
  BY DEF IsServer
<1>2. QED
  BY <1>1 DEF IsServer, SameRow

LEMMA WriteUpdates ==
    ASSUME ServersOK, NEW t \in Tasks
    PROVE  /\ \A fields : Write(t, fields) => \E new : Update(Where(t), new)
           /\ WriteState(t) => \E new : Update(Where(t), new)
<1>1. Where(t) \subseteq servers /\ \A s \in Where(t) : IsServer(s)
  BY DEF Where, ServersOK
<1>2. ASSUME NEW fields, Write(t, fields) PROVE \E new : Update(Where(t), new)
  <2> DEFINE of(s) == [f \in Fields |-> IF f \in fields THEN t ELSE s.fields[f]]
             new == [s \in Where(t) |-> [s EXCEPT !.fields = of(s)]]
  <2>1. servers' = (servers \ Where(t)) \cup {[s EXCEPT !.fields = of(s)] : s \in Where(t)}
    BY <1>2 DEF Write
  <2>2. \A s \in Where(t) : IsServer(new[s]) /\ SameRow(new[s], s)
    BY <1>1, FieldsKept
  <2>3. servers' = (servers \ Where(t)) \cup {new[s] : s \in Where(t)}
    BY <2>1
  <2>4. DOMAIN new = Where(t)
    OBVIOUS
  <2> HIDE DEF new
  <2>5. QED
    BY <1>1, <2>2, <2>3, <2>4 DEF Update
<1>3. ASSUME WriteState(t) PROVE \E new : Update(Where(t), new)
  <2> DEFINE state == IF work[t].failed THEN "error" ELSE "ready"
             new == [s \in Where(t) |-> [s EXCEPT !.state = state]]
  <2>1. servers' = (servers \ Where(t)) \cup {[s EXCEPT !.state = state] : s \in Where(t)}
    BY <1>3 DEF WriteState
  <2>2. \A s \in Where(t) : IsServer(new[s]) /\ SameRow(new[s], s)
    BY <1>1, FieldsKept
  <2>3. servers' = (servers \ Where(t)) \cup {new[s] : s \in Where(t)}
    BY <2>1
  <2>4. DOMAIN new = Where(t)
    OBVIOUS
  <2> HIDE DEF new
  <2>5. QED
    BY <1>1, <2>2, <2>3, <2>4 DEF Update
<1>4. QED
  BY <1>2, <1>3

LEMMA UpdateKeepsRows ==
    ASSUME RowsOK, ServersOK, NEW old, NEW new, Update(old, new),
           UNCHANGED <<endpoints, ips, serial>>
    PROVE  RowsOK' /\ ServersOK'
<1>1. \A s \in servers' : \E o \in servers :
         /\ SameRow(s, o) /\ IsServer(s)
         /\ s = IF o \in old THEN new[o] ELSE o
  BY DEF Update, SameRow, ServersOK
<1>2. RowsOK'
  BY <1>1 DEF RowsOK, SameRow
<1>3. \A r, s \in servers' : r.id = s.id => r = s
  BY <1>1 DEF SameRow, ServersOK
<1>4. QED
  BY <1>1, <1>2, <1>3 DEF ServersOK

\* The row create inserts.
NewServer(t) ==
    [id |-> serial, uuid |-> Body[t].uuid, hostname |-> Body[t].hostname, raw_info |-> t,
     state |-> "setup", fields |-> [f \in Fields |-> None]]

\* What a step does to the tables.
LEMMA StepTables ==
    ASSUME ServersOK, NEW t \in Tasks, Step(t)
    PROVE  \/ UNCHANGED cmdb
           \/ /\ pc[t] = "insert server" /\ CanInsertServer(Body[t].hostname)
              /\ servers' = servers \cup {NewServer(t)} /\ serial' = serial + 1
              /\ UNCHANGED <<endpoints, ips>>
           \/ /\ pc[t] = "delete server" /\ UNCHANGED serial
              /\ \E v \in work[t].victims : DeleteServer(v)
           \/ /\ pc[t] \in {"write batch", "write price", "write flavor", "write state",
                            "resize price", "resize flavor"}
              /\ \E new : Update(Where(t), new)
              /\ UNCHANGED <<endpoints, ips, serial>>
           \/ /\ pc[t] \in {"insert card", "insert address"} /\ UNCHANGED servers
              /\ \/ \E server, name, mac : InsertEndpoint(server, name, mac) /\ UNCHANGED ips
                 \/ \E ip, endpoint, prefix, type :
                       /\ CanInsertIp(ip, endpoint, prefix)
                       /\ InsertIp(ip, endpoint, prefix, type) /\ UNCHANGED endpoints
<1>1. CASE LookUp(t) \/ ReselectServer(t) \/ ReselectCard(t) \/ FindPrefix(t)
             \/ ReselectAddress(t) \/ SelectServers(t) \/ NotApplied(t)
  BY <1>1 DEF LookUp, ReselectServer, ReselectCard, FindPrefix, ReselectAddress, SelectServers,
              NotApplied
<1>2. CASE CreateServer(t)
  BY <1>2 DEF CreateServer, Conflict, NewServer, cmdb
<1>3. CASE DeleteVictim(t)
  BY <1>3 DEF DeleteVictim
<1>4. CASE WriteBatch(t) \/ WritePrice(t) \/ WriteFlavor(t) \/ Resize(t)
  <2>1. \E fields : Write(t, fields)
    BY <1>4 DEF WriteBatch, WritePrice, WriteFlavor, Resize, ResizePrice, ResizeFlavor
  <2>2. \E new : Update(Where(t), new)
    BY <2>1, WriteUpdates
  <2>3. UNCHANGED <<endpoints, ips, serial>>
    BY <2>1 DEF Write
  <2>4. QED
    BY <1>4, <2>2, <2>3
    DEF WriteBatch, WritePrice, WriteFlavor, Resize, ResizePrice, ResizeFlavor
<1>5. CASE WriteState(t)
  BY <1>5, WriteUpdates DEF WriteState
<1>6. CASE CreateCard(t)
  BY <1>6 DEF CreateCard, Conflict
<1>7. CASE CreateAddress(t)
  BY <1>7 DEF CreateAddress, Conflict
<1>8. QED
  BY <1>1, <1>2, <1>3, <1>4, <1>5, <1>6, <1>7 DEF Step, Create, Removal

LEMMA StepRows ==
    ASSUME RowsOK, ServersOK, NEW t \in Tasks, Step(t)
    PROVE  RowsOK' /\ ServersOK'
<1>1. CASE UNCHANGED cmdb
  BY <1>1 DEF cmdb, RowsOK, ServersOK
<1>2. CASE /\ servers' = servers \cup {NewServer(t)} /\ serial' = serial + 1
           /\ UNCHANGED <<endpoints, ips>>
  <2>1. IsServer(NewServer(t)) /\ NewServer(t).id = serial
    BY DEF NewServer, IsServer
  <2>2. \A s \in servers : s.id # serial
    BY DEF RowsOK
  <2>3. RowsOK'
    BY <1>2, <2>1 DEF RowsOK
  <2>4. ServersOK'
    BY <1>2, <2>1, <2>2 DEF ServersOK
  <2>5. QED
    BY <2>3, <2>4
<1>3. ASSUME NEW v, DeleteServer(v), UNCHANGED serial PROVE RowsOK' /\ ServersOK'
  BY <1>3 DEF DeleteServer, RowsOK, ServersOK
<1>4. CASE (\E new : Update(Where(t), new)) /\ UNCHANGED <<endpoints, ips, serial>>
  BY <1>4, UpdateKeepsRows
<1>5. ASSUME NEW server, NEW name, NEW mac, InsertEndpoint(server, name, mac),
             UNCHANGED <<servers, ips>>
      PROVE  RowsOK' /\ ServersOK'
  <2>1. serial' = serial + 1 /\ \A e \in endpoints' : e \in endpoints \/ e.id = serial
    BY <1>5 DEF InsertEndpoint
  <2>2. QED
    BY <1>5, <2>1 DEF RowsOK, ServersOK
<1>6. ASSUME NEW ip, NEW endpoint, NEW prefix, NEW type, CanInsertIp(ip, endpoint, prefix),
             InsertIp(ip, endpoint, prefix, type), UNCHANGED <<servers, endpoints>>
      PROVE  RowsOK' /\ ServersOK'
  <2>1. /\ serial' = serial + 1
        /\ \A i \in ips' : i \in ips \/ (i.id = serial /\ i.endpoint = endpoint)
    BY <1>6 DEF InsertIp
  <2>2. endpoint \in 1 .. serial - 1
    BY <1>6 DEF CanInsertIp, RowsOK
  <2>3. QED
    BY <1>6, <2>1, <2>2 DEF RowsOK, ServersOK
<1>7. QED
  BY <1>1, <1>2, <1>3, <1>4, <1>5, <1>6, StepTables

\* Next, apart from the steps of a task at work.
LEMMA NextIs ==
    ASSUME Next
    PROVE  \/ \E t \in Tasks : Step(t) \/ Start(t) \/ (AckLost(t) /\ UNCHANGED work)
           \/ Crash /\ UNCHANGED work
BY DEF Next, Step

LEMMA OthersRows ==
    ASSUME \/ UNCHANGED vars
           \/ \E t \in Tasks : Start(t) \/ AckLost(t)
           \/ Crash
    PROVE  UNCHANGED cmdb
BY DEF vars, Start, Begin, AckLost, Crash

LEMMA OthersTypes ==
    ASSUME TypeOK,
           \/ UNCHANGED vars
           \/ \E t \in Tasks : Start(t) \/ AckLost(t)
           \/ Crash
    PROVE  TaskTypes
<1>1. CASE UNCHANGED vars
  BY <1>1 DEF vars, tasks, TypeOK, TaskTypes
<1>2. ASSUME NEW t \in Tasks, Start(t) PROVE TaskTypes
  <2>1. FirstCall(t) \in Calls \cup Ended
    BY FirstCalls, CallsAre DEF Ended
  <2>2. pc' \in [Tasks -> Calls \cup Ended] /\ faults' \in 0 .. Faults
    BY <1>2, <2>1 DEF TypeOK, Start, Begin, GoTo
  <2>3. run' \in [Tasks -> 1 .. MaxRetries]
    BY <1>2, TasksAssumption DEF TypeOK, Start, Begin
  <2>4. QED
    BY <2>2, <2>3 DEF TaskTypes
<1>3. ASSUME NEW t \in Tasks, AckLost(t) PROVE TaskTypes
  BY <1>3, MoveTypes DEF AckLost, Ended
<1>4. CASE Crash
  <2>1. faults' \in 0 .. Faults
    BY <1>4, TasksAssumption DEF TypeOK, Crash, Fault
  <2>2. pc' \in [Tasks -> Calls \cup Ended]
    BY <1>4 DEF TypeOK, Crash, Ended
  <2>3. QED
    BY <1>4, <2>1, <2>2 DEF TypeOK, Crash, TaskTypes
<1>5. QED
  BY <1>1, <1>2, <1>3, <1>4

\* Each server row is there under one id.
TypeInv == TypeOK /\ ServersOK

LEMMA TypesStep == TypeInv /\ [Next]_vars => TypeInv'
<1> SUFFICES ASSUME TypeOK, ServersOK, [Next]_vars PROVE TypeInv'
  BY DEF TypeInv
<1>1. RowsOK
  BY DEF TypeOK, RowsOK
<1>2. TaskTypes /\ RowsOK' /\ ServersOK'
  <2>1. CASE \E t \in Tasks : Step(t)
    BY <1>1, <2>1, StepTypes, StepRows
  <2>2. CASE \/ UNCHANGED vars
             \/ \E t \in Tasks : Start(t) \/ AckLost(t)
             \/ Crash
    <3>1. UNCHANGED cmdb
      BY <2>2, OthersRows
    <3>2. RowsOK' /\ ServersOK'
      BY <1>1, <3>1 DEF cmdb, RowsOK, ServersOK
    <3>3. QED
      BY <2>2, <3>2, OthersTypes
  <2>3. QED
    BY <2>1, <2>2, NextIs
<1>3. QED
  BY <1>2 DEF TypeInv, TypeOK, TaskTypes, RowsOK

LEMMA TypesInit == Init => TypeInv
<1> SUFFICES ASSUME Init PROVE TypeInv
  OBVIOUS
<1>1. PICK n \in Tables : /\ servers = n.servers /\ endpoints = n.endpoints
                          /\ ips = n.ips /\ serial = n.serial
  BY DEF Init
<1>2. ServersOK
  BY <1>1, LifecycleAssumption DEF ServersOK, IsServer
<1>3. RowsOK
  BY <1>1, LifecycleAssumption DEF RowsOK
<1>4. pc \in [Tasks -> Calls \cup Ended] /\ run \in [Tasks -> 1 .. MaxRetries]
      /\ faults \in 0 .. Faults
  BY TasksAssumption DEF Init, Ended
<1>5. QED
  BY <1>2, <1>3, <1>4 DEF TypeInv, TypeOK, RowsOK

(* The tables and tasks keep their types, for any messages, tables,        *)
(* refusals and prefetch.                                                  *)
THEOREM TypeCorrectness == Spec => []TypeOK
<1>1. TypeInv => TypeOK
  BY DEF TypeInv
<1>2. QED
  BY TypesInit, TypesStep, <1>1, PTL DEF Spec

-----------------------------------------------------------------------------
(* What a create carries                                                   *)

IsWork(w) ==
    w = [failed |-> w.failed, victims |-> w.victims, server |-> w.server, cards |-> w.cards,
         addresses |-> w.addresses, endpoint |-> w.endpoint, used |-> w.used, type |-> w.type]

WorkOK == work = [t \in Tasks |-> work[t]] /\ \A t \in Tasks : IsWork(work[t])

LEMMA Carried ==
    ASSUME WorkOK, NEW t \in Tasks, NEW w, IsWork(w), Carry(t, w)
    PROVE  WorkOK' /\ work'[t] = w
<1>1. /\ work' = [u \in Tasks |-> IF u = t THEN w ELSE work[u]]
  BY DEF WorkOK, Carry
<1>2. QED
  BY <1>1 DEF WorkOK

LEMMA WorkKept == WorkOK /\ UNCHANGED work => WorkOK'
BY DEF WorkOK

\* v is w with parts other than the server set.
SameServer(v, w) == IsWork(v) /\ v.server = w.server

\* One part at a time.
LEMMA WorkPart ==
    ASSUME NEW w, IsWork(w), NEW a
    PROVE  /\ SameServer([w EXCEPT !.failed = a], w)
           /\ SameServer([w EXCEPT !.cards = a], w)
           /\ SameServer([w EXCEPT !.addresses = a], w)
           /\ SameServer([w EXCEPT !.endpoint = a], w)
           /\ SameServer([w EXCEPT !.type = a], w)
           /\ SameServer([w EXCEPT !.used = a], w)
           /\ LET v == [w EXCEPT !.victims = a] IN IsWork(v) /\ v.victims = a
           /\ LET v == [w EXCEPT !.server = a] IN IsWork(v) /\ v.server = a
<1>1. PICK p, q, r, s, x, y, z, k :
         w = [failed |-> p, victims |-> q, server |-> r, cards |-> s, addresses |-> x,
              endpoint |-> y, used |-> z, type |-> k]
  BY DEF IsWork
<1>2. SameServer([w EXCEPT !.failed = a], w)
  BY <1>1 DEF IsWork, SameServer
<1>3. SameServer([w EXCEPT !.cards = a], w)
  BY <1>1 DEF IsWork, SameServer
<1>4. SameServer([w EXCEPT !.addresses = a], w)
  BY <1>1 DEF IsWork, SameServer
<1>5. SameServer([w EXCEPT !.endpoint = a], w)
  BY <1>1 DEF IsWork, SameServer
<1>6. SameServer([w EXCEPT !.type = a], w)
  BY <1>1 DEF IsWork, SameServer
<1>7. SameServer([w EXCEPT !.used = a], w)
  BY <1>1 DEF IsWork, SameServer
<1>8. LET v == [w EXCEPT !.victims = a] IN IsWork(v) /\ v.victims = a
  BY <1>1 DEF IsWork
<1>9. LET v == [w EXCEPT !.server = a] IN IsWork(v) /\ v.server = a
  BY <1>1 DEF IsWork
<1>10. QED
  BY <1>2, <1>3, <1>4, <1>5, <1>6, <1>7, <1>8, <1>9

\* The parts of the work that a step sets leave the others alone.
LEMMA WorkParts ==
    ASSUME NEW w, IsWork(w)
    PROVE  /\ \A a : SameServer([w EXCEPT !.failed = a], w)
           /\ \A a, b : SameServer([w EXCEPT !.failed = a, !.cards = b], w)
           /\ \A a, b : SameServer([w EXCEPT !.failed = a, !.addresses = b], w)
           /\ \A a, b, c : SameServer([w EXCEPT !.endpoint = a, !.cards = b, !.addresses = c], w)
           /\ \A a, b : SameServer([w EXCEPT !.type = a, !.used = b], w)
           /\ \A a : SameServer([w EXCEPT !.addresses = a], w)
           /\ \A a : LET v == [w EXCEPT !.victims = a] IN IsWork(v) /\ v.victims = a
           /\ \A a : LET v == [w EXCEPT !.server = a] IN IsWork(v) /\ v.server = a
<1>1. ASSUME NEW a, NEW b, NEW c
      PROVE  /\ SameServer([w EXCEPT !.failed = a, !.cards = b], w)
             /\ SameServer([w EXCEPT !.failed = a, !.addresses = b], w)
             /\ SameServer([w EXCEPT !.type = a, !.used = b], w)
             /\ SameServer([w EXCEPT !.endpoint = a, !.cards = b, !.addresses = c], w)
  <2> DEFINE f == [w EXCEPT !.failed = a]
             y == [w EXCEPT !.type = a]
             e == [w EXCEPT !.endpoint = a]
             d == [e EXCEPT !.cards = b]
  <2>1. SameServer(f, w) /\ SameServer(y, w) /\ SameServer(e, w)
    BY WorkPart
  <2>2. SameServer(d, e)
    BY <2>1, WorkPart DEF SameServer
  <2> HIDE DEF f, y, e, d
  <2>3. \A u, v : SameServer(v, u) /\ SameServer(u, w) => SameServer(v, w)
    BY DEF SameServer
  <2>4. IsWork(f) /\ IsWork(y) /\ IsWork(d)
    BY <2>1, <2>2 DEF SameServer
  <2>5. SameServer([f EXCEPT !.cards = b], f) /\ SameServer([f EXCEPT !.addresses = b], f)
    BY <2>4, WorkPart
  <2>6. SameServer([y EXCEPT !.used = b], y)
    BY <2>4, WorkPart
  <2>7. SameServer([d EXCEPT !.addresses = c], d)
    BY <2>4, WorkPart
  <2>8. /\ SameServer([f EXCEPT !.cards = b], w) /\ SameServer([f EXCEPT !.addresses = b], w)
        /\ SameServer([y EXCEPT !.used = b], w) /\ SameServer([d EXCEPT !.addresses = c], w)
    BY <2>1, <2>2, <2>3, <2>5, <2>6, <2>7
  <2>9. QED
    BY <2>8 DEF f, y, e, d
<1>2. QED
  BY <1>1, WorkPart

LEMMA NoWorkIsWork ==
    /\ IsWork(NoWork)
    /\ \A a, b : IsWork([NoWork EXCEPT !.failed = a, !.cards = b])
<1>1. IsWork(NoWork)
  BY DEF NoWork, IsWork
<1>2. QED
  BY <1>1, WorkParts DEF SameServer

\* Create goes on with its row.
OnItsRow(t) == pc'[t] \in Late /\ work'[t].server = work[t].server

Gone(t) == pc'[t] \in {FirstCall(t), "acked", "dead"}

LEMMA Going ==
    ASSUME TypeOK, NEW t \in Tasks, NEW next, GoTo(t, next)
    PROVE  pc'[t] = next /\ \A u \in Tasks \ {t} : pc'[u] = pc[u]
BY DEF TypeOK, GoTo

LEMMA ContinueMoves ==
    ASSUME TypeOK, WorkOK, NEW t \in Tasks, NEW w, SameServer(w, work[t]), Continue(t, w)
    PROVE  WorkOK' /\ OnItsRow(t)
<1>1. pc'[t] \in Late
  BY Going, NextCalls DEF Continue
<1>2. QED
  BY <1>1, Carried DEF Continue, OnItsRow, SameServer

LEMMA ReportWork ==
    ASSUME TypeOK, WorkOK, NEW t \in Tasks, Report(t)
    PROVE  WorkOK' /\ (pc'[t] \in {"acked", "dead"} \/ (pc[t] \in Late /\ OnItsRow(t)))
<1> DEFINE w == work[t]
<1>0. IsWork(w)
  BY DEF WorkOK
<1>1. CASE UNCHANGED work /\ (GoTo(t, "dead") \/ GoTo(t, "acked"))
  BY <1>1, Going, WorkKept
<1>2. CASE pc[t] = "write batch" /\ GoTo(t, "write price") /\ UNCHANGED work
  BY <1>2, Going, WorkKept DEF Late, OnItsRow
<1>3. CASE /\ pc[t] = "write price" /\ GoTo(t, "write flavor")
           /\ Carry(t, [w EXCEPT !.failed = TRUE])
  <2> DEFINE v == [w EXCEPT !.failed = TRUE]
  <2>1. SameServer(v, w)
    BY <1>0, WorkParts
  <2>2. Carry(t, v)
    BY <1>3
  <2> HIDE DEF v
  <2>3. QED
    BY <1>3, <2>1, <2>2, Going, Carried DEF Late, OnItsRow, SameServer
<1>4. CASE pc[t] = "write flavor" /\ Continue(t, w)
  BY <1>0, <1>4, ContinueMoves DEF Late, SameServer
<1>5. CASE pc[t] = "insert card" /\ SkipCard(t)
  <2> DEFINE v == [w EXCEPT !.failed = TRUE, !.cards = Tail(@)]
  <2>1. SameServer(v, w)
    BY <1>0, WorkParts
  <2>2. Continue(t, v)
    BY <1>5 DEF SkipCard
  <2>3. QED
    BY <1>5, <2>1, <2>2, ContinueMoves DEF Late
<1>6. CASE pc[t] \in {"find prefix", "insert address"} /\ SkipAddress(t)
  <2> DEFINE v == [w EXCEPT !.failed = TRUE, !.addresses = Tail(@)]
  <2>1. SameServer(v, w)
    BY <1>0, WorkParts
  <2>2. Continue(t, v)
    BY <1>6 DEF SkipAddress
  <2>3. QED
    BY <1>6, <2>1, <2>2, ContinueMoves DEF Late
<1>7. QED
  BY <1>1, <1>2, <1>3, <1>4, <1>5, <1>6 DEF Report, StopCreate

LEMMA NoReplyWork ==
    ASSUME TypeOK, WorkOK, NEW t \in Tasks, NoReply(t)
    PROVE  /\ WorkOK'
           /\ \/ Gone(t)
              \/ pc'[t] = Again(pc[t]) /\ UNCHANGED work
              \/ pc[t] \in Late /\ OnItsRow(t)
<1>1. CASE Interrupted(t, Again(pc[t]), FirstCall(t)) /\ UNCHANGED work
  <2>1. GoTo(t, Again(pc[t])) \/ GoTo(t, FirstCall(t)) \/ GoTo(t, "dead")
    BY <1>1 DEF Interrupted, Rerun, Refused
  <2>2. QED
    BY <1>1, <2>1, Going, WorkKept DEF Gone
<1>2. CASE Report(t)
  BY <1>2, ReportWork DEF Gone
<1>3. QED
  BY <1>1, <1>2 DEF NoReply

\* A create that has its row keeps to it, or ends its run.
LEMMA LateWork ==
    ASSUME TypeOK, WorkOK, NEW t \in Tasks, Step(t), pc[t] \in Late
    PROVE  WorkOK' /\ (Gone(t) \/ OnItsRow(t))
<1> DEFINE w == work[t]
<1>0. IsWork(w)
  BY DEF WorkOK
<1>1. ASSUME NoReply(t) PROVE WorkOK' /\ (Gone(t) \/ OnItsRow(t))
  <2>1. Again(pc[t]) \in Late
    BY AgainCalls, CallsAre
  <2>2. QED
    BY <1>1, <2>1, NoReplyWork DEF OnItsRow
<1>2. ASSUME Report(t) PROVE WorkOK' /\ (Gone(t) \/ OnItsRow(t))
  BY <1>2, ReportWork DEF Gone
<1>3. ASSUME NEW next \in Late \cup {"acked"}, Reply(t, next), UNCHANGED work
      PROVE  WorkOK' /\ (Gone(t) \/ OnItsRow(t))
  BY <1>3, Going, WorkKept DEF Reply, Gone, OnItsRow
<1>4. CASE WriteBatch(t) \/ WriteFlavor(t)
  BY <1>0, <1>1, <1>4, ContinueMoves DEF WriteBatch, WriteFlavor, SameServer
<1>5. CASE WritePrice(t) \/ WriteState(t)
  BY <1>1, <1>3, <1>5 DEF WritePrice, WriteState, Late
<1>6. CASE CreateCard(t) \/ ReselectCard(t)
  <2>1. ASSUME NEW e, CardWritten(t, e) PROVE WorkOK' /\ OnItsRow(t)
    <3> DEFINE v == [w EXCEPT !.endpoint = e, !.cards = Tail(@),
                              !.addresses = Card(t).addresses]
    <3>1. SameServer(v, w)
      BY <1>0, WorkParts
    <3>2. Continue(t, v)
      BY <2>1 DEF CardWritten
    <3>3. QED
      BY <3>1, <3>2, ContinueMoves
  <2>2. QED
    BY <1>1, <1>2, <1>3, <1>6, <2>1 DEF CreateCard, ReselectCard, Conflict, Late
<1>7. CASE CreateAddress(t) \/ ReselectAddress(t)
  <2>1. ASSUME AddressWritten(t) PROVE WorkOK' /\ OnItsRow(t)
    <3> DEFINE v == [w EXCEPT !.addresses = Tail(@)]
    <3>1. SameServer(v, w)
      BY <1>0, WorkParts
    <3>2. Continue(t, v)
      BY <2>1 DEF AddressWritten
    <3>3. QED
      BY <3>1, <3>2, ContinueMoves
  <2>2. QED
    BY <1>1, <1>2, <1>3, <1>7, <2>1 DEF CreateAddress, ReselectAddress, Conflict, Late
<1>8. CASE FindPrefix(t)
  <2> DEFINE type == resolve_ip_type(PrefixOf[Address(t)], w.used)
             v == [w EXCEPT !.failed = TRUE, !.addresses = Tail(@)]
             x == [w EXCEPT !.type = type, !.used = w.used \cup {type}]
  <2>1. SameServer(v, w)
    BY <1>0, WorkParts
  <2> HIDE DEF type
  <2>2. SameServer(x, w)
    BY <1>0, WorkParts
  <2>3. Continue(t, v) \/ (Reply(t, "insert address") /\ Carry(t, x))
    BY <1>8 DEF FindPrefix, SkipAddress, type
  <2>4. CASE Continue(t, v)
    BY <2>1, <2>4, ContinueMoves
  <2> HIDE DEF x
  <2>5. CASE Reply(t, "insert address") /\ Carry(t, x)
    BY <2>2, <2>5, Going, Carried DEF Reply, Late, OnItsRow, SameServer
  <2>6. QED
    BY <2>3, <2>4, <2>5
<1>9. CASE NotApplied(t)
  BY <1>1, <1>9 DEF NotApplied
<1>10. CASE LookUp(t) \/ CreateServer(t) \/ ReselectServer(t) \/ Removal(t) \/ Resize(t)
  BY <1>10 DEF LookUp, CreateServer, ReselectServer, Removal, SelectServers, DeleteVictim,
               Resize, ResizePrice, ResizeFlavor, Late
<1>11. QED
  BY <1>4, <1>5, <1>6, <1>7, <1>8, <1>9, <1>10 DEF Step, Create

-----------------------------------------------------------------------------
(* Rows of one instance                                                    *)

Concerns(t, s) == s.uuid = Body[t].uuid \/ s.hostname = Body[t].hostname

Mine(t, s) == s.raw_info = t /\ s.uuid = Body[t].uuid /\ s.hostname = Body[t].hostname

\* What a task may count on: until the removal is done the rows of its uuid
\* or hostname are victims, and from then on its own.
OwnsAt(t) ==
    /\ pc[t] \in {"look up", "insert server", "reselect server"} \cup Late =>
          Body[t].kind = "create"
    /\ Body[t].kind = "create" => \A s \in servers :
          /\ pc[t] = "delete server" /\ Concerns(t, s) => s.id \in work[t].victims
          /\ pc[t] \in {"insert server", "reselect server"} /\ Concerns(t, s) => Mine(t, s)
          /\ pc[t] \in Late /\ s.id = work[t].server => Mine(t, s)
    /\ pc[t] \in Late => work[t].server \in 1 .. serial - 1

OwnInv ==
    /\ TypeInv
    /\ WorkOK
    /\ \A t \in Tasks : OwnsAt(t)
    /\ OneServerPerInstance

LEMMA EndedOwns ==
    ASSUME NEW t \in Tasks, pc'[t] \in Ended \cup {"select servers"}
    PROVE  OwnsAt(t)'
BY DEF OwnsAt, Ended, Late

LEMMA GoneOwns ==
    ASSUME NEW t \in Tasks, Gone(t)
    PROVE  OwnsAt(t)'
<1>1. FirstCall(t) \in Early \cup {"acked"} /\ (FirstCall(t) = "look up" => Body[t].kind = "create")
  BY FirstCalls DEF FirstCall
<1>2. QED
  BY <1>1 DEF Gone, OwnsAt, Early, Late

\* The three parts of OwnsAt, one for each stretch of a create.
LEMMA OwnsParts ==
    ASSUME NEW t \in Tasks
    PROVE  /\ /\ pc'[t] = "delete server"
              /\ Body[t].kind = "create" =>
                    \A s \in servers' : Concerns(t, s) => s.id \in work'[t].victims
              => OwnsAt(t)'
           /\ /\ pc'[t] \in {"insert server", "reselect server"} /\ Body[t].kind = "create"
              /\ \A s \in servers' : Concerns(t, s) => Mine(t, s)
              => OwnsAt(t)'
           /\ /\ pc'[t] \in Late /\ Body[t].kind = "create"
              /\ work'[t].server \in 1 .. serial' - 1
              /\ \A s \in servers' : s.id = work'[t].server => Mine(t, s)
              => OwnsAt(t)'
<1>1. "delete server" \notin Late /\ "insert server" \notin Late /\ "reselect server" \notin Late
  BY DEF Late
<1>2. ASSUME pc'[t] = "delete server",
             Body[t].kind = "create" =>
                \A s \in servers' : Concerns(t, s) => s.id \in work'[t].victims
      PROVE  OwnsAt(t)'
  BY <1>1, <1>2 DEF OwnsAt, Concerns
<1>3. ASSUME pc'[t] \in {"insert server", "reselect server"}, Body[t].kind = "create",
             \A s \in servers' : Concerns(t, s) => Mine(t, s)
      PROVE  OwnsAt(t)'
  BY <1>1, <1>3 DEF OwnsAt, Concerns, Mine
<1>4. ASSUME pc'[t] \in Late, Body[t].kind = "create", work'[t].server \in 1 .. serial' - 1,
             \A s \in servers' : s.id = work'[t].server => Mine(t, s)
      PROVE  OwnsAt(t)'
  BY <1>1, <1>4 DEF OwnsAt, Mine
<1>5. QED
  BY <1>2, <1>3, <1>4

LEMMA KeptOwns ==
    ASSUME NEW t \in Tasks, OwnsAt(t), pc'[t] = pc[t], work'[t] = work[t],
           UNCHANGED <<servers, serial>>
    PROVE  OwnsAt(t)'
BY DEF OwnsAt, Concerns, Mine

\* The removal has found what it is to remove.
LEMMA SelectOwns ==
    ASSUME TypeOK, WorkOK, NEW t \in Tasks, SelectServers(t)
    PROVE  WorkOK' /\ OwnsAt(t)'
<1> DEFINE v == [work[t] EXCEPT !.victims = Victims(t)]
<1>1. IsWork(v) /\ v.victims = Victims(t)
  BY WorkParts DEF WorkOK
<1>2. Carry(t, v) /\ GoTo(t, AfterRemoval(t, Victims(t))) /\ UNCHANGED servers
  BY DEF SelectServers, Reply, cmdb
<1> HIDE DEF v
<1>3. WorkOK' /\ work'[t].victims = Victims(t)
  BY <1>1, <1>2, Carried
<1>4. pc'[t] = AfterRemoval(t, Victims(t))
  BY <1>2, Going
<1>5. Body[t].kind = "create" =>
         \A s \in servers : Concerns(t, s) => s.id \in Victims(t)
  BY DEF Victims, Concerns
<1>6. OwnsAt(t)'
  BY <1>2, <1>3, <1>4, <1>5 DEF OwnsAt, AfterRemoval, Concerns, Late
<1>7. QED
  BY <1>3, <1>6

LEMMA DeleteOwns ==
    ASSUME TypeOK, WorkOK, NEW t \in Tasks, OwnsAt(t), DeleteVictim(t)
    PROVE  WorkOK' /\ OwnsAt(t)'
<1>1. PICK v \in work[t].victims :
         /\ DeleteServer(v)
         /\ \/ LET left == work[t].victims \ {v} IN
                 /\ Reply(t, AfterRemoval(t, left))
                 /\ Carry(t, [work[t] EXCEPT !.victims = left])
            \/ NoReply(t)
  BY DEF DeleteVictim
<1>2. servers' \subseteq servers /\ \A s \in servers' : s.id # v
  BY <1>1 DEF DeleteServer
<1>3. Body[t].kind = "create" =>
         \A s \in servers' : Concerns(t, s) => s.id \in work[t].victims \ {v}
  BY <1>2 DEF OwnsAt, DeleteVictim
<1> DEFINE left == work[t].victims \ {v}
<1>4. CASE Reply(t, AfterRemoval(t, left)) /\ Carry(t, [work[t] EXCEPT !.victims = left])
  <2> DEFINE w == [work[t] EXCEPT !.victims = left]
  <2>1. IsWork(w) /\ w.victims = left
    BY WorkParts DEF WorkOK
  <2>2. Carry(t, w)
    BY <1>4
  <2> HIDE DEF w
  <2>3. WorkOK' /\ work'[t].victims = left
    BY <2>1, <2>2, Carried
  <2>4. pc'[t] = AfterRemoval(t, left)
    BY <1>4, Going DEF Reply
  <2>5. OwnsAt(t)'
    BY <1>3, <2>3, <2>4 DEF OwnsAt, AfterRemoval, Concerns, Late
  <2>6. QED
    BY <2>3, <2>5
<1>5. CASE NoReply(t)
  <2>1. pc[t] = "delete server" /\ Again(pc[t]) = "delete server"
    BY DEF DeleteVictim, Again
  <2>2. WorkOK' /\ (Gone(t) \/ (pc'[t] = "delete server" /\ UNCHANGED work))
    BY <1>5, <2>1, NoReplyWork DEF Late
  <2>3. CASE pc'[t] = "delete server" /\ UNCHANGED work
    <3>1. Body[t].kind = "create" =>
             \A s \in servers' : Concerns(t, s) => s.id \in work'[t].victims
      BY <1>3, <2>3
    <3>2. QED
      BY <2>2, <2>3, <3>1, OwnsParts
  <2>4. QED
    BY <2>2, <2>3, GoneOwns
<1>6. QED
  BY <1>1, <1>4, <1>5

LEMMA UpToIt ==
    ASSUME NEW n \in Nat
    PROVE  /\ n # 0 => n \in 1 .. (n + 1) - 1
           /\ \A id \in 1 .. n - 1 : id # n /\ id \in 1 .. (n + 1) - 1
OBVIOUS

\* The insert: the new row is its own, reached or not.
LEMMA CreateOwns ==
    ASSUME TypeOK, WorkOK, NEW t \in Tasks, OwnsAt(t), CreateServer(t)
    PROVE  WorkOK' /\ OwnsAt(t)'
<1>1. pc[t] = "insert server" /\ Body[t].kind = "create"
  BY DEF CreateServer, OwnsAt
<1>2. CASE Conflict(t)
  BY <1>1, <1>2, ReportWork, EndedOwns DEF Conflict, Late, Ended
<1>3. CASE ~Conflict(t)
  <2>1. /\ servers' = servers \cup {NewServer(t)} /\ serial' = serial + 1
        /\ \/ Reply(t, "write batch") /\ Carry(t, [work[t] EXCEPT !.server = serial])
           \/ NoReply(t)
    BY <1>3 DEF CreateServer, NewServer
  <2>2. Mine(t, NewServer(t)) /\ NewServer(t).id = serial
    BY DEF Mine, NewServer
  <2>3. CASE Reply(t, "write batch") /\ Carry(t, [work[t] EXCEPT !.server = serial])
    <3> DEFINE w == [work[t] EXCEPT !.server = serial]
    <3>1. IsWork(w) /\ w.server = serial
      BY WorkParts DEF WorkOK
    <3>2. Carry(t, w)
      BY <2>3
    <3> HIDE DEF w
    <3>3. WorkOK' /\ work'[t].server = serial
      BY <3>1, <3>2, Carried
    <3>4. pc'[t] = "write batch"
      BY <2>3, Going DEF Reply
    <3> serial \in 1 .. serial' - 1
      <4>1. serial \in Nat \ {0}
        BY DEF TypeOK
      <4>2. QED
        BY <2>1, <4>1, UpToIt
    <3> \A s \in servers : s.id # serial
      BY DEF TypeOK
    <3>5. \A s \in servers' : s.id = serial => Mine(t, s)
      BY <2>1, <2>2
    <3>6. OwnsAt(t)'
      BY <1>1, <3>3, <3>4, <3>5, OwnsParts DEF Late
    <3>7. QED
      BY <3>3, <3>6
  <2>4. CASE NoReply(t)
    <3>1. WorkOK' /\ (Gone(t) \/ pc'[t] = "reselect server")
      BY <1>1, <2>4, NoReplyWork DEF Again, Late
    <3>2. \A s \in servers' : Concerns(t, s) => Mine(t, s)
      BY <1>1, <2>1, <2>2 DEF OwnsAt
    <3>3. CASE pc'[t] = "reselect server"
      BY <1>1, <3>1, <3>2, <3>3, OwnsParts
    <3>4. QED
      BY <3>1, <3>3, GoneOwns
  <2>5. QED
    BY <2>1, <2>3, <2>4
<1>4. QED
  BY <1>2, <1>3

\* A row found by its hostname is its own, since no other is left.
LEMMA ReselectOwns ==
    ASSUME TypeOK, ServersOK, WorkOK, NEW t \in Tasks, OwnsAt(t), ReselectServer(t)
    PROVE  WorkOK' /\ OwnsAt(t)'
<1>1. /\ pc[t] = "reselect server" /\ Body[t].kind = "create" /\ UNCHANGED <<servers, serial>>
      /\ \A s \in servers : Concerns(t, s) => Mine(t, s)
  BY DEF ReselectServer, OwnsAt, cmdb
<1>2. ASSUME NEW s \in servers, s.hostname = Body[t].hostname, Reply(t, "write batch"),
             Carry(t, [work[t] EXCEPT !.server = s.id])
      PROVE  WorkOK' /\ OwnsAt(t)'
  <2> DEFINE w == [work[t] EXCEPT !.server = s.id]
  <2>1. IsWork(w) /\ w.server = s.id
    BY WorkParts DEF WorkOK
  <2>2. Carry(t, w)
    BY <1>2
  <2> HIDE DEF w
  <2>3. WorkOK' /\ work'[t].server = s.id
    BY <2>1, <2>2, Carried
  <2>4. pc'[t] = "write batch"
    BY <1>2, Going DEF Reply
  <2>5. s.id \in 1 .. serial - 1 /\ \A r \in servers : r.id = s.id => Mine(t, r)
    BY <1>1, <1>2 DEF ServersOK, Concerns, TypeOK
  <2>6. OwnsAt(t)'
    BY <1>1, <2>3, <2>4, <2>5, OwnsParts DEF Late
  <2>7. QED
    BY <2>3, <2>6
<1>3. ASSUME Reply(t, "insert server"), UNCHANGED work PROVE WorkOK' /\ OwnsAt(t)'
  <2>1. pc'[t] = "insert server"
    BY <1>3, Going DEF Reply
  <2>2. QED
    BY <1>1, <1>3, <2>1, WorkKept, OwnsParts
<1>4. QED
  BY <1>2, <1>3 DEF ReselectServer

LEMMA SerialGrows ==
    ASSUME TypeOK, ServersOK, NEW t \in Tasks, Step(t), NEW id \in 1 .. serial - 1
    PROVE  id # serial /\ id \in 1 .. serial' - 1
<1>1. serial' \in {serial, serial + 1}
  BY StepTables DEF cmdb, InsertEndpoint, InsertIp
<1>2. serial \in Nat
  BY DEF TypeOK
<1>3. QED
  BY <1>1, <1>2, UpToIt

\* Once it has its row, what a task writes leaves rows where they are.
LEMMA LateOwns ==
    ASSUME TypeOK, ServersOK, WorkOK, NEW t \in Tasks, OwnsAt(t), Step(t), pc[t] \in Late
    PROVE  WorkOK' /\ OwnsAt(t)'
<1>1. WorkOK' /\ (Gone(t) \/ OnItsRow(t))
  BY LateWork
<1>2. \A s \in servers' : \E r \in servers : SameRow(s, r)
  <2>1. UNCHANGED servers \/ \E new : Update(Where(t), new)
    BY StepTables DEF Late, cmdb
  <2>2. QED
    BY <2>1 DEF Update, SameRow
<1>3. CASE OnItsRow(t)
  <2>1. pc'[t] \in Late /\ work'[t].server = work[t].server /\ Body[t].kind = "create"
    BY <1>3 DEF OnItsRow, OwnsAt
  <2>2. \A s \in servers : s.id = work[t].server => Mine(t, s)
    BY <2>1 DEF OwnsAt
  <2>3. \A s \in servers' : s.id = work'[t].server => Mine(t, s)
    BY <1>2, <2>1, <2>2 DEF SameRow, Mine
  <2>4. work'[t].server \in 1 .. serial' - 1
    <3>1. work[t].server \in 1 .. serial - 1
      BY DEF OwnsAt
    <3>2. QED
      BY <2>1, <3>1, SerialGrows
  <2>5. QED
    BY <1>1, <2>1, <2>3, <2>4, OwnsParts
<1>4. QED
  BY <1>1, <1>3, GoneOwns

LEMMA StepOwns ==
    ASSUME TypeOK, ServersOK, WorkOK, NEW t \in Tasks, OwnsAt(t), Step(t)
    PROVE  WorkOK' /\ OwnsAt(t)'
<1>1. CASE pc[t] \in Late
  BY <1>1, LateOwns
<1>2. CASE SelectServers(t) \/ DeleteVictim(t) \/ CreateServer(t) \/ ReselectServer(t)
  BY <1>2, SelectOwns, DeleteOwns, CreateOwns, ReselectOwns
<1>3. CASE LookUp(t)
  <2>1. PICK failed \in {FALSE, Body[t].tagged} :
           Carry(t, [NoWork EXCEPT !.failed = failed, !.cards = Body[t].cards])
    BY <1>3 DEF LookUp
  <2>2. IsWork([NoWork EXCEPT !.failed = failed, !.cards = Body[t].cards])
    BY NoWorkIsWork
  <2>3. WorkOK'
    BY <2>1, <2>2, Carried
  <2>4. pc'[t] = "select servers"
    BY <1>3, Going DEF LookUp, Reply
  <2>5. QED
    BY <2>3, <2>4, EndedOwns
<1>4. CASE Resize(t)
  <2>1. /\ pc[t] \in {"resize price", "resize flavor"} /\ pc[t] \notin Late
        /\ Again(pc[t]) = pc[t]
    BY <1>4 DEF Resize, ResizePrice, ResizeFlavor, Again, Late
  <2>2. \/ WorkOK' /\ Gone(t)
        \/ WorkOK' /\ pc'[t] \in {"resize price", "resize flavor", "acked"}
    <3>1. CASE NoReply(t)
      BY <2>1, <3>1, NoReplyWork
    <3>2. CASE ~NoReply(t)
      BY <1>4, <3>2, Going, WorkKept DEF Resize, ResizePrice, ResizeFlavor, Reply
    <3>3. QED
      BY <3>1, <3>2
  <2>3. CASE pc'[t] \in {"resize price", "resize flavor", "acked"}
    BY <2>2, <2>3 DEF OwnsAt, Late, Gone
  <2>4. QED
    BY <2>2, <2>3, GoneOwns
<1>5. CASE NotApplied(t) /\ pc[t] \notin Late
  <2>1. NoReply(t) /\ UNCHANGED <<servers, serial>> /\ pc[t] \in Calls
    BY <1>5 DEF NotApplied, cmdb, Busy, TypeOK
  <2>2. WorkOK' /\ (Gone(t) \/ (pc'[t] = Again(pc[t]) /\ UNCHANGED work))
    BY <1>5, <2>1, NoReplyWork
  <2>3. CASE pc'[t] = pc[t] /\ UNCHANGED work
    BY <2>1, <2>2, <2>3, KeptOwns
  <2>4. CASE pc[t] = "insert server" /\ pc'[t] = "reselect server" /\ UNCHANGED work
    <3>1. Body[t].kind = "create" /\ \A s \in servers' : Concerns(t, s) => Mine(t, s)
      BY <2>1, <2>4 DEF OwnsAt
    <3>2. QED
      BY <2>2, <2>4, <3>1, OwnsParts
  <2>5. Again(pc[t]) = pc[t] \/ (pc[t] = "insert server" /\ Again(pc[t]) = "reselect server")
    BY <1>5 DEF Again, Late
  <2>6. QED
    BY <2>2, <2>3, <2>4, <2>5, GoneOwns
<1>6. pc[t] \in Late \/ ~(\/ WriteBatch(t) \/ WritePrice(t) \/ WriteFlavor(t)
                          \/ CreateCard(t) \/ ReselectCard(t) \/ FindPrefix(t)
                          \/ CreateAddress(t) \/ ReselectAddress(t) \/ WriteState(t))
  BY DEF WriteBatch, WritePrice, WriteFlavor, CreateCard, ReselectCard, FindPrefix,
         CreateAddress, ReselectAddress, WriteState, Late
<1>7. QED
  BY <1>1, <1>2, <1>3, <1>4, <1>5, <1>6 DEF Step, Create, Removal

\* A step keeps rows apart: the row it inserts has a uuid no other row has.
LEMMA StepOneServer ==
    ASSUME TypeOK, ServersOK, NEW t \in Tasks, OwnsAt(t), Step(t), OneServerPerInstance
    PROVE  OneServerPerInstance'
<1>1. CASE UNCHANGED servers
  BY <1>1 DEF OneServerPerInstance
<1>2. CASE /\ pc[t] = "insert server" /\ CanInsertServer(Body[t].hostname)
           /\ servers' = servers \cup {NewServer(t)}
  <2>1. \A s \in servers : s.uuid # Body[t].uuid
    BY <1>2 DEF OwnsAt, Concerns, Mine, CanInsertServer
  <2>2. NewServer(t).uuid = Body[t].uuid
    BY DEF NewServer
  <2>3. QED
    BY <1>2, <2>1, <2>2 DEF OneServerPerInstance
<1>3. ASSUME NEW v, DeleteServer(v) PROVE OneServerPerInstance'
  BY <1>3 DEF DeleteServer, OneServerPerInstance
<1>4. ASSUME NEW new, Update(Where(t), new) PROVE OneServerPerInstance'
  <2>1. \A s \in servers' : \E r \in servers :
           SameRow(s, r) /\ s = IF r \in Where(t) THEN new[r] ELSE r
    BY <1>4 DEF Update, SameRow
  <2>2. QED
    BY <2>1 DEF SameRow, OneServerPerInstance
<1>5. QED
  BY <1>1, <1>2, <1>3, <1>4, StepTables DEF cmdb

-----------------------------------------------------------------------------
LEMMA StepIsBusy ==
    ASSUME NEW t \in Tasks, Step(t)
    PROVE  t \in Busy
<1> USE DEF Busy, Ended
<1>1. CASE Removal(t) \/ Resize(t) \/ NotApplied(t)
  BY <1>1 DEF Removal, SelectServers, DeleteVictim, Resize, ResizePrice, ResizeFlavor, NotApplied
<1>2. CASE Create(t)
  BY <1>2 DEF Create, LookUp, CreateServer, ReselectServer, WriteBatch, WritePrice, WriteFlavor,
              CreateCard, ReselectCard, FindPrefix, CreateAddress, ReselectAddress, WriteState
<1>3. QED
  BY <1>1, <1>2 DEF Step

\* A step touches the state of its own task only.
Alone(t) == \A u \in Tasks \ {t} : pc'[u] = pc[u] /\ work'[u] = work[u]

LEMMA StepAlone ==
    ASSUME TypeOK, WorkOK, NEW t \in Tasks, Step(t)
    PROVE  Alone(t)
<1> DEFINE Moved == \A u \in Tasks \ {t} : pc'[u] = pc[u]
           Carries == \A u \in Tasks \ {t} : work'[u] = work[u]
<1>1. \A next : GoTo(t, next) => Moved
  BY Going
<1>2. (\A w : Carry(t, w) => Carries) /\ (UNCHANGED work => Carries)
  BY DEF Carry, WorkOK
<1> HIDE DEF Moved, Carries
<1>3. Report(t) => Moved /\ Carries
  BY <1>1, <1>2 DEF Report, StopCreate, Continue, SkipCard, SkipAddress
<1>4. NoReply(t) => Moved /\ Carries
  BY <1>1, <1>2, <1>3 DEF NoReply, Interrupted, Rerun, Refused
<1>5. ASSUME Removal(t) \/ Resize(t) \/ NotApplied(t) PROVE Moved /\ Carries
  BY <1>1, <1>2, <1>4, <1>5 DEF Removal, SelectServers, DeleteVictim, Resize, ResizePrice,
                                ResizeFlavor, NotApplied, Reply
<1>6. ASSUME \/ LookUp(t) \/ CreateServer(t) \/ ReselectServer(t)
             \/ WriteBatch(t) \/ WritePrice(t) \/ WriteFlavor(t)
      PROVE  Moved /\ Carries
  BY <1>1, <1>2, <1>3, <1>4, <1>6 DEF LookUp, CreateServer, ReselectServer, WriteBatch,
         WritePrice, WriteFlavor, Reply, Continue, Conflict
<1>7. ASSUME \/ CreateCard(t) \/ ReselectCard(t) \/ FindPrefix(t)
             \/ CreateAddress(t) \/ ReselectAddress(t) \/ WriteState(t)
      PROVE  Moved /\ Carries
  BY <1>1, <1>2, <1>3, <1>4, <1>7 DEF CreateCard, ReselectCard, CardWritten, FindPrefix,
         SkipAddress, CreateAddress, ReselectAddress, AddressWritten, WriteState, Reply,
         Continue, Conflict
<1>8. Moved /\ Carries
  BY <1>5, <1>6, <1>7 DEF Step, Create
<1>9. QED
  BY <1>8 DEF Moved, Carries, Alone

\* Creates in hand at the same time concern different instances.
Creates == {t \in Tasks : Body[t].kind = "create"}

Apart ==
    \A t, u \in Busy \cap Creates : t # u =>
        Body[t].uuid # Body[u].uuid /\ Body[t].hostname # Body[u].hostname

\* What a create counts on is not touched: other handlers make no rows.
LEMMA OthersOwn ==
    ASSUME TypeOK, ServersOK, NEW t \in Tasks, Step(t), Alone(t),
           NEW u \in Tasks \ {t}, pc[t] = "insert server" => t \in Creates, OwnsAt(u),
           t \in Creates /\ u \in Creates =>
               Body[t].uuid # Body[u].uuid /\ Body[t].hostname # Body[u].hostname
    PROVE  OwnsAt(u)'
<1>1. pc'[u] = pc[u] /\ work'[u] = work[u]
  BY DEF Alone
<1>2. pc[u] \in Late => work[u].server # serial /\ work[u].server \in 1 .. serial' - 1
  <2>1. pc[u] \in Late => work[u].server \in 1 .. serial - 1
    BY DEF OwnsAt
  <2>2. QED
    BY <2>1, SerialGrows
<1>3. \A s \in servers' :
         \/ \E r \in servers : SameRow(s, r)
         \/ s.id = serial /\ (u \in Creates => ~Concerns(u, s))
  <2>1. CASE UNCHANGED servers
    BY <2>1 DEF SameRow
  <2>2. CASE pc[t] = "insert server" /\ servers' = servers \cup {NewServer(t)}
    <3>1. t \in Creates
      BY <2>2
    <3>2. NewServer(t).id = serial /\ (u \in Creates => ~Concerns(u, NewServer(t)))
      BY <3>1 DEF NewServer, Concerns
    <3>3. \A s \in servers : SameRow(s, s)
      BY DEF SameRow
    <3>4. QED
      BY <2>2, <3>2, <3>3
  <2>3. ASSUME NEW v, DeleteServer(v) PROVE servers' \subseteq servers
    BY <2>3 DEF DeleteServer
  <2>4. ASSUME NEW new, Update(Where(t), new)
        PROVE  \A s \in servers' : \E r \in servers : SameRow(s, r)
    <3>1. \A s \in servers : SameRow(s, s)
      BY DEF SameRow
    <3>2. QED
      BY <2>4, <3>1 DEF Update
  <2>5. QED
    BY <2>1, <2>2, <2>3, <2>4, StepTables DEF cmdb, SameRow
<1>4. ASSUME NEW s \in servers', Body[u].kind = "create"
      PROVE  /\ pc[u] = "delete server" /\ Concerns(u, s) => s.id \in work[u].victims
             /\ pc[u] \in {"insert server", "reselect server"} /\ Concerns(u, s) => Mine(u, s)
             /\ pc[u] \in Late /\ s.id = work[u].server => Mine(u, s)
  <2>1. CASE s.id = serial /\ (u \in Creates => ~Concerns(u, s))
    <3>1. pc[u] \in {"insert server", "reselect server", "delete server"} => ~Concerns(u, s)
      BY <1>4, <2>1 DEF Creates
    <3>2. pc[u] \in Late => s.id # work[u].server
      BY <1>2, <2>1
    <3>3. QED
      BY <3>1, <3>2
  <2>2. ASSUME NEW r \in servers, SameRow(s, r)
        PROVE  (Concerns(u, s) => Concerns(u, r)) /\ (Mine(u, r) => Mine(u, s)) /\ s.id = r.id
    BY <2>2 DEF SameRow, Concerns, Mine
  <2>3. ASSUME NEW r \in servers
        PROVE  /\ pc[u] = "delete server" /\ Concerns(u, r) => r.id \in work[u].victims
               /\ pc[u] \in {"insert server", "reselect server"} /\ Concerns(u, r) => Mine(u, r)
               /\ pc[u] \in Late /\ r.id = work[u].server => Mine(u, r)
    BY <1>4 DEF OwnsAt
  <2>4. QED
    BY <1>3, <2>1, <2>2, <2>3
<1>5. QED
  BY <1>1, <1>2, <1>4 DEF OwnsAt, Concerns, Mine

LEMMA OwnStep ==
    ASSUME OwnInv, Apart, [Next]_vars
    PROVE  OwnInv'
<1> USE DEF OwnInv
<1>1. TypeInv'
  BY TypesStep
<1>2. TypeOK /\ ServersOK
  BY DEF TypeInv
<1>3. ASSUME NEW t \in Tasks, Step(t) PROVE OwnInv'
  <2>1. t \in Busy /\ Alone(t)
    BY <1>2, <1>3, StepIsBusy, StepAlone
  <2>2. ASSUME NEW u \in Tasks \ {t} PROVE OwnsAt(u)'
    <3>1. CASE u \in Busy
      <4>1. t \in Creates /\ u \in Creates =>
                Body[t].uuid # Body[u].uuid /\ Body[t].hostname # Body[u].hostname
        BY <2>1, <3>1 DEF Apart
      <4>2. pc[t] = "insert server" => t \in Creates
        BY DEF OwnsAt, Creates
      <4>3. QED
        BY <1>2, <1>3, <2>1, <4>1, <4>2, OthersOwn
    <3>2. CASE u \notin Busy
      BY <2>1, <3>2, EndedOwns DEF Alone, Busy
    <3>3. QED
      BY <3>1, <3>2
  <2>3. WorkOK' /\ OwnsAt(t)'
    BY <1>2, <1>3, StepOwns
  <2>4. OneServerPerInstance'
    BY <1>2, <1>3, StepOneServer
  <2>5. QED
    BY <1>1, <2>2, <2>3, <2>4
<1>4. ASSUME NEW t \in Tasks, Start(t) PROVE OwnInv'
  <2>1. pc'[t] = FirstCall(t) /\ Alone(t) /\ UNCHANGED cmdb
    BY <1>2, <1>4, Going DEF Start, Begin, Carry, WorkOK, Alone
  <2>2. OwnsAt(t)'
    BY <2>1, GoneOwns DEF Gone
  <2>3. \A u \in Tasks \ {t} : OwnsAt(u)'
    BY <2>1, KeptOwns DEF Alone, cmdb
  <2>4. WorkOK'
    BY <1>4, NoWorkIsWork, Carried DEF Start
  <2>5. OneServerPerInstance'
    BY <2>1 DEF cmdb, OneServerPerInstance
  <2>6. QED
    BY <1>1, <2>2, <2>3, <2>4, <2>5
<1>5. ASSUME UNCHANGED <<cmdb, work>>,
             \A u \in Tasks : pc'[u] = pc[u] \/ pc'[u] \in Ended
      PROVE  OwnInv'
  <2>1. \A u \in Tasks : OwnsAt(u)'
    BY <1>5, KeptOwns, EndedOwns DEF cmdb
  <2>2. WorkOK' /\ OneServerPerInstance'
    BY <1>5, WorkKept DEF cmdb, OneServerPerInstance
  <2>3. QED
    BY <1>1, <2>1, <2>2
<1>6. ASSUME NEW t \in Tasks, AckLost(t), UNCHANGED work PROVE OwnInv'
  <2>1. UNCHANGED <<cmdb, work>> /\ \A u \in Tasks : pc'[u] = pc[u] \/ pc'[u] \in Ended
    BY <1>2, <1>6, Going DEF AckLost, Ended
  <2>2. QED
    BY <1>5, <2>1
<1>7. CASE Crash /\ UNCHANGED work
  <2>1. UNCHANGED <<cmdb, work>> /\ \A u \in Tasks : pc'[u] = pc[u] \/ pc'[u] \in Ended
    BY <1>7 DEF Crash, Ended
  <2>2. QED
    BY <1>5, <2>1
<1>8. CASE UNCHANGED vars
  <2>1. UNCHANGED <<cmdb, work>> /\ \A u \in Tasks : pc'[u] = pc[u] \/ pc'[u] \in Ended
    BY <1>8 DEF vars, tasks
  <2>2. QED
    BY <1>5, <2>1
<1>9. QED
  BY <1>3, <1>4, <1>6, <1>7, <1>8, NextIs

LEMMA OwnInit == Init => OwnInv
<1> SUFFICES ASSUME Init PROVE OwnInv
  OBVIOUS
<1>1. TypeInv
  BY TypesInit
<1>2. \A t \in Tasks : pc[t] = "queued"
  BY DEF Init
<1>3. WorkOK
  BY NoWorkIsWork DEF Init, WorkOK
<1>4. \A t \in Tasks : OwnsAt(t)
  BY <1>2 DEF OwnsAt, Late
<1>5. OneServerPerInstance
  <2>1. PICK n \in Tables : servers = n.servers
    BY DEF Init
  <2>2. \A s \in servers : s.raw_info \notin Tasks
    BY <2>1, LifecycleAssumption
  <2>3. QED
    BY <2>2 DEF OneServerPerInstance
<1>6. QED
  BY <1>1, <1>3, <1>4, <1>5 DEF OwnInv

(* As long as the creates in hand at the same time concern different       *)
(* instances, a server a create has inserted is the only one with its      *)
(* uuid, and a create builds on the row its own message inserted: for any  *)
(* prefetch, number of messages, retries, faults, refusals, crashes and    *)
(* redeliveries, and with any deletes and resizes running beside it.       *)
THEOREM OneServer == Spec /\ []Apart => [](OneServerPerInstance /\ BuildsOnItsOwnRow)
<1>1. OwnInv => OneServerPerInstance /\ BuildsOnItsOwnRow
  <2>1. SUFFICES ASSUME OwnInv PROVE BuildsOnItsOwnRow
    BY DEF OwnInv
  <2>2. \A t \in Tasks : pc[t] \in Late =>
           \A s \in servers : s.id = work[t].server => Mine(t, s)
    BY <2>1 DEF OwnInv, OwnsAt
  <2>3. QED
    BY <2>2 DEF BuildsOnItsOwnRow, Mine, Late
<1>2. OwnInv /\ Apart /\ [Next]_vars => OwnInv'
  BY OwnStep
<1>3. QED
  BY OwnInit, <1>1, <1>2, PTL DEF Spec

(* So a create builds only on a row of its own instance, also when another *)
(* instance took over the hostname or its own row was made by an earlier   *)
(* run.                                                                    *)
THEOREM OwnRow == Spec /\ []Apart => []BuildsOnItsOwnRow
  BY OneServer, PTL

-----------------------------------------------------------------------------
(* Which handler a task is in                                              *)

\* The calls of the handler a message is routed to.
CallsOf(t) ==
    IF Body[t].kind = "create" THEN Calls \ {"resize price", "resize flavor"}
    ELSE IF Body[t].kind = "delete" THEN {"select servers", "delete server"}
    ELSE {"resize price", "resize flavor"}

Routed(t) == pc[t] \in CallsOf(t) \cup Ended

LEMMA LateIsCreate ==
    ASSUME NEW t \in Tasks
    PROVE  /\ Body[t].kind = "create" =>
                 Late \cup {"look up", "select servers", "delete server", "insert server",
                            "reselect server"} = CallsOf(t)
           /\ Body[t].kind # "create" => CallsOf(t) \cap Late = {}
BY DEF CallsOf, Calls, Late

LEMMA FirstCallRouted ==
    ASSUME NEW t \in Tasks
    PROVE  FirstCall(t) \in CallsOf(t) \cup Ended
BY DEF FirstCall, CallsOf, Calls, Ended

LEMMA AgainRouted ==
    ASSUME NEW t \in Tasks, pc[t] \in CallsOf(t)
    PROVE  Again(pc[t]) \in CallsOf(t)
BY DEF Again, CallsOf, Calls

\* What a step of a task does before its create has a row.
EarlyMove(t) ==
    \/ Gone(t)
    \/ pc'[t] = Again(pc[t]) /\ UNCHANGED work
    \/ pc[t] = "look up" /\ pc'[t] = "select servers"
    \/ /\ pc[t] = "select servers" /\ work'[t].victims = Victims(t)
       /\ pc'[t] = AfterRemoval(t, Victims(t)) /\ UNCHANGED cmdb
    \/ /\ pc[t] = "delete server" /\ pc'[t] = AfterRemoval(t, work'[t].victims)
       /\ \E v : DeleteServer(v) /\ work'[t].victims = work[t].victims \ {v}
    \/ pc[t] \in {"insert server", "reselect server"} /\ pc'[t] = "write batch"
    \/ pc[t] = "reselect server" /\ pc'[t] = "insert server"
    \/ pc[t] = "resize price" /\ pc'[t] = "resize flavor"

LEMMA NoReplyMoves ==
    ASSUME TypeOK, WorkOK, NEW t \in Tasks, NoReply(t), pc[t] \notin Late
    PROVE  WorkOK' /\ (Gone(t) \/ (pc'[t] = Again(pc[t]) /\ UNCHANGED work))
BY NoReplyWork

\* A step whose reply sets one part of the work.
LEMMA SetsVictims ==
    ASSUME TypeOK, WorkOK, NEW t \in Tasks, NEW a, NEW next, GoTo(t, next),
           Carry(t, [work[t] EXCEPT !.victims = a])
    PROVE  WorkOK' /\ work'[t].victims = a /\ pc'[t] = next
<1> DEFINE w == [work[t] EXCEPT !.victims = a]
<1>1. IsWork(w) /\ w.victims = a
  BY WorkParts DEF WorkOK
<1>2. Carry(t, w)
  OBVIOUS
<1> HIDE DEF w
<1>3. QED
  BY <1>1, <1>2, Carried, Going

LEMMA SetsServer ==
    ASSUME TypeOK, WorkOK, NEW t \in Tasks, NEW a, NEW next, GoTo(t, next),
           Carry(t, [work[t] EXCEPT !.server = a])
    PROVE  WorkOK' /\ work'[t].server = a /\ pc'[t] = next
<1> DEFINE w == [work[t] EXCEPT !.server = a]
<1>1. IsWork(w) /\ w.server = a
  BY WorkParts DEF WorkOK
<1>2. Carry(t, w)
  OBVIOUS
<1> HIDE DEF w
<1>3. QED
  BY <1>1, <1>2, Carried, Going

LEMMA EarlyStep ==
    ASSUME TypeOK, WorkOK, NEW t \in Tasks, Step(t), pc[t] \notin Late
    PROVE  WorkOK' /\ EarlyMove(t)
<1>1. NoReply(t) => WorkOK' /\ EarlyMove(t)
  BY NoReplyMoves DEF EarlyMove
<1>2. Conflict(t) => WorkOK' /\ EarlyMove(t)
  BY ReportWork DEF Conflict, EarlyMove, Gone
<1>3. CASE NotApplied(t)
  BY <1>1, <1>3 DEF NotApplied
<1>4. CASE LookUp(t)
  <2>1. PICK failed \in {FALSE, Body[t].tagged} :
           Carry(t, [NoWork EXCEPT !.failed = failed, !.cards = Body[t].cards])
    BY <1>4 DEF LookUp
  <2>2. WorkOK'
    BY <2>1, NoWorkIsWork, Carried
  <2>3. pc[t] = "look up" /\ pc'[t] = "select servers"
    BY <1>4, Going DEF LookUp, Reply
  <2>4. QED
    BY <2>2, <2>3 DEF EarlyMove
<1>5. CASE SelectServers(t)
  BY <1>5, SetsVictims DEF SelectServers, Reply, EarlyMove
<1>6. CASE DeleteVictim(t)
  <2>1. PICK v \in work[t].victims :
          /\ DeleteServer(v)
          /\ \/ /\ GoTo(t, AfterRemoval(t, work[t].victims \ {v}))
                /\ Carry(t, [work[t] EXCEPT !.victims = work[t].victims \ {v}])
             \/ NoReply(t)
    BY <1>6 DEF DeleteVictim, Reply
  <2>2. CASE /\ GoTo(t, AfterRemoval(t, work[t].victims \ {v}))
             /\ Carry(t, [work[t] EXCEPT !.victims = work[t].victims \ {v}])
    <3>1. /\ WorkOK' /\ work'[t].victims = work[t].victims \ {v}
          /\ pc'[t] = AfterRemoval(t, work[t].victims \ {v})
      BY <2>2, SetsVictims
    <3>2. QED
      BY <1>6, <2>1, <3>1 DEF DeleteVictim, EarlyMove
  <2>3. QED
    BY <1>1, <2>1, <2>2
<1>7. CASE CreateServer(t)
  <2>1. \/ Conflict(t) \/ NoReply(t)
        \/ GoTo(t, "write batch") /\ Carry(t, [work[t] EXCEPT !.server = serial])
    BY <1>7 DEF CreateServer, Reply
  <2>2. QED
    BY <1>1, <1>2, <1>7, <2>1, SetsServer DEF CreateServer, EarlyMove
<1>8. CASE ReselectServer(t)
  <2>1. \/ \E a : GoTo(t, "write batch") /\ Carry(t, [work[t] EXCEPT !.server = a])
        \/ GoTo(t, "insert server") /\ UNCHANGED work
    BY <1>8 DEF ReselectServer, Reply
  <2>2. QED
    BY <1>8, <2>1, SetsServer, Going, WorkKept DEF ReselectServer, EarlyMove
<1>9. CASE Resize(t)
  <2>1. \/ NoReply(t)
        \/ UNCHANGED work /\ (\/ GoTo(t, "acked")
                              \/ pc[t] = "resize price" /\ GoTo(t, "resize flavor"))
    BY <1>9 DEF Resize, ResizePrice, ResizeFlavor, Reply
  <2>2. QED
    BY <1>1, <2>1, Going, WorkKept DEF EarlyMove, Gone
<1>10. ~(\/ WriteBatch(t) \/ WritePrice(t) \/ WriteFlavor(t)
         \/ CreateCard(t) \/ ReselectCard(t) \/ FindPrefix(t)
         \/ CreateAddress(t) \/ ReselectAddress(t) \/ WriteState(t))
  BY DEF WriteBatch, WritePrice, WriteFlavor, CreateCard, ReselectCard, FindPrefix,
         CreateAddress, ReselectAddress, WriteState, Late
<1>11. QED
  BY <1>3, <1>4, <1>5, <1>6, <1>7, <1>8, <1>9, <1>10 DEF Step, Create, Removal

LEMMA StepRoutes ==
    ASSUME TypeOK, WorkOK, NEW t \in Tasks, Routed(t), Step(t)
    PROVE  WorkOK' /\ Routed(t)'
<1>0. pc[t] \in CallsOf(t)
  BY StepIsBusy DEF Routed, Busy
<1>1. Gone(t) => Routed(t)'
  BY FirstCallRouted DEF Gone, Routed, Ended, CallsOf
<1>2. CASE pc[t] \in Late
  <2>1. Body[t].kind = "create"
    BY <1>0, <1>2, LateIsCreate
  <2>2. WorkOK' /\ (Gone(t) \/ pc'[t] \in Late)
    BY <1>2, LateWork DEF OnItsRow
  <2>3. pc'[t] \in Late => Routed(t)'
    BY <2>1, LateIsCreate DEF Routed, CallsOf
  <2>4. QED
    BY <1>1, <2>2, <2>3
<1>3. CASE pc[t] \notin Late
  <2>1. WorkOK' /\ EarlyMove(t)
    BY <1>3, EarlyStep
  <2>2. CASE pc'[t] = Again(pc[t])
    BY <1>0, <2>1, <2>2, AgainRouted DEF Routed, CallsOf
  <2>3. CASE pc[t] \in {"select servers", "delete server"} /\ \E v : pc'[t] = AfterRemoval(t, v)
    <3>1. pc'[t] \in {"delete server", "acked"} \/ (Body[t].kind = "create" /\ pc'[t] = "insert server")
      BY <2>3 DEF AfterRemoval
    <3>2. QED
      BY <1>0, <2>1, <2>3, <3>1 DEF Routed, CallsOf, Calls, Ended
  <2>4. CASE \/ pc[t] = "look up" /\ pc'[t] = "select servers"
             \/ pc[t] \in {"insert server", "reselect server"} /\ pc'[t] = "write batch"
             \/ pc[t] = "reselect server" /\ pc'[t] = "insert server"
             \/ pc[t] = "resize price" /\ pc'[t] = "resize flavor"
    BY <1>0, <2>1, <2>4 DEF Routed, CallsOf, Calls
  <2>5. QED
    BY <1>1, <2>1, <2>2, <2>3, <2>4 DEF EarlyMove
<1>4. QED
  BY <1>2, <1>3

-----------------------------------------------------------------------------
(* What a removal removes                                                  *)

\* The rows the removal of a task is for.
Removes(t, s) ==
    s.uuid = Body[t].uuid \/ (Body[t].kind = "create" /\ s.hostname = Body[t].hostname)

\* Its victims are such rows, until they are gone: no id is given twice.
VictimsOK(t) ==
    pc[t] = "delete server" => \A v \in work[t].victims :
        v \in 1 .. serial - 1 /\ \A s \in servers : s.id = v => Removes(t, s)

LEMMA RowsAfter ==
    ASSUME ServersOK, NEW t \in Tasks, Step(t), NEW s \in servers'
    PROVE  \/ \E r \in servers : SameRow(s, r)
           \/ pc[t] = "insert server" /\ s = NewServer(t)
<1>1. \A r \in servers : SameRow(r, r)
  BY DEF SameRow
<1>2. (\E new : Update(Where(t), new)) => \E r \in servers : SameRow(s, r)
  BY <1>1 DEF Update
<1>3. (\E v : DeleteServer(v)) => s \in servers
  BY DEF DeleteServer
<1>4. QED
  BY <1>1, <1>2, <1>3, StepTables DEF cmdb

\* A step of any task leaves the victims of another as they are.
LEMMA VictimsStay ==
    ASSUME TypeOK, ServersOK, NEW t \in Tasks, Step(t), NEW u \in Tasks, VictimsOK(u),
           pc[u] = "delete server", pc'[u] = "delete server",
           work'[u].victims \subseteq work[u].victims
    PROVE  VictimsOK(u)'
<1> SUFFICES ASSUME NEW v \in work'[u].victims
             PROVE  v \in 1 .. serial' - 1 /\ \A s \in servers' : s.id = v => Removes(u, s)
  BY DEF VictimsOK, Removes
<1>1. v \in 1 .. serial - 1 /\ \A s \in servers : s.id = v => Removes(u, s)
  BY DEF VictimsOK
<1>2. v # serial /\ v \in 1 .. serial' - 1
  BY <1>1, SerialGrows
<1>3. \A s \in servers' : s.id = v => \E r \in servers : SameRow(s, r)
  <2>1. NewServer(t).id = serial
    BY DEF NewServer
  <2>2. \A s \in servers' : (\E r \in servers : SameRow(s, r)) \/ s = NewServer(t)
    BY RowsAfter
  <2>3. QED
    BY <1>2, <2>1, <2>2
<1>4. QED
  BY <1>1, <1>2, <1>3 DEF SameRow, Removes

LEMMA VictimsFound ==
    ASSUME TypeOK, NEW t \in Tasks, work'[t].victims = Victims(t), ServersOK,
           UNCHANGED <<servers, serial>>
    PROVE  VictimsOK(t)'
<1>1. \A v \in Victims(t) : \E r \in servers : r.id = v /\ Removes(t, r)
  BY DEF Victims, Removes
<1>2. \A v \in Victims(t) : v \in 1 .. serial - 1
  BY <1>1 DEF TypeOK
<1>3. \A v \in Victims(t), s \in servers : s.id = v => Removes(t, s)
  BY <1>1 DEF ServersOK
<1>4. QED
  BY <1>2, <1>3 DEF VictimsOK, Removes

LEMMA StepVictims ==
    ASSUME TypeOK, ServersOK, WorkOK, NEW t \in Tasks, VictimsOK(t), Step(t)
    PROVE  VictimsOK(t)'
<1>1. CASE pc'[t] # "delete server"
  BY <1>1 DEF VictimsOK
<1>2. CASE pc'[t] = "delete server"
  <2>1. ~Gone(t) /\ pc'[t] \notin Late
    BY <1>2, FirstCalls DEF Gone, Early, Late
  <2>2. pc[t] \notin Late /\ EarlyMove(t)
    BY <2>1, LateWork, EarlyStep DEF OnItsRow
  <2>3. CASE pc'[t] = Again(pc[t]) /\ UNCHANGED work
    <3>1. pc[t] = "delete server"
      BY <1>2, <2>3 DEF Again
    <3>2. QED
      BY <1>2, <2>3, <3>1, VictimsStay
  <2>4. CASE work'[t].victims = Victims(t) /\ UNCHANGED cmdb
    BY <2>4, VictimsFound DEF cmdb
  <2>5. CASE pc[t] = "delete server" /\ \E v : work'[t].victims = work[t].victims \ {v}
    BY <1>2, <2>5, VictimsStay
  <2>6. QED
    BY <1>2, <2>1, <2>2, <2>3, <2>4, <2>5 DEF EarlyMove
<1>3. QED
  BY <1>1, <1>2

-----------------------------------------------------------------------------
(* The invariant of every task, whatever runs beside it                    *)

BaseInv ==
    /\ TypeInv
    /\ WorkOK
    /\ \A t \in Tasks : Routed(t) /\ VictimsOK(t)

\* A message is started, one is delivered again, or the process dies: at most
\* pc changes, and to a call at which nothing is known yet.
Restarts ==
    /\ UNCHANGED cmdb
    /\ \A u \in Tasks :
          \/ pc'[u] = pc[u] /\ work'[u] = work[u]
          \/ pc'[u] \in {"queued", FirstCall(u)}
    /\ \A u \in Tasks : pc'[u] = "acked" => pc[u] = "acked" \/ FirstCall(u) = "acked"
    /\ WorkOK'

LEMMA NextMoves ==
    ASSUME TypeOK, WorkOK, [Next]_vars
    PROVE  Restarts \/ \E t \in Tasks : Step(t)
<1>1. CASE UNCHANGED vars
  BY <1>1, WorkKept DEF vars, tasks, Restarts
<1>2. ASSUME NEW t \in Tasks, Start(t) PROVE Restarts
  <2>1. /\ UNCHANGED cmdb /\ pc'[t] = FirstCall(t)
        /\ \A u \in Tasks \ {t} : pc'[u] = pc[u] /\ work'[u] = work[u]
    BY <1>2, Going DEF Start, Begin, Carry, WorkOK
  <2>2. WorkOK'
    BY <1>2, NoWorkIsWork, Carried DEF Start
  <2>3. QED
    BY <2>1, <2>2 DEF Restarts
<1>3. ASSUME NEW t \in Tasks, AckLost(t), UNCHANGED work PROVE Restarts
  <2>1. pc'[t] = "queued" /\ UNCHANGED cmdb /\ \A u \in Tasks \ {t} : pc'[u] = pc[u]
    BY <1>3, Going DEF AckLost
  <2>2. QED
    BY <1>3, <2>1, WorkKept DEF Restarts
<1>4. CASE Crash /\ UNCHANGED work
  BY <1>4, WorkKept DEF Crash, Restarts
<1>5. QED
  BY <1>1, <1>2, <1>3, <1>4, NextIs

LEMMA BaseStep == BaseInv /\ [Next]_vars => BaseInv'
<1> SUFFICES ASSUME BaseInv, [Next]_vars PROVE BaseInv'
  OBVIOUS
<1>1. TypeOK /\ ServersOK /\ WorkOK
  BY DEF BaseInv, TypeInv
<1>2. TypeInv'
  BY TypesStep DEF BaseInv
<1>3. ASSUME NEW t \in Tasks, Step(t) PROVE BaseInv'
  <2>1. WorkOK' /\ Routed(t)' /\ VictimsOK(t)' /\ Alone(t)
    BY <1>1, <1>3, StepRoutes, StepVictims, StepAlone DEF BaseInv
  <2>2. ASSUME NEW u \in Tasks \ {t} PROVE Routed(u)' /\ VictimsOK(u)'
    <3>1. pc'[u] = pc[u] /\ work'[u] = work[u]
      BY <2>1 DEF Alone
    <3>2. Routed(u)'
      BY <3>1 DEF BaseInv, Routed, CallsOf, Calls, Ended
    <3>3. VictimsOK(u)'
      <4>1. CASE pc[u] = "delete server"
        BY <1>1, <1>3, <3>1, <4>1, VictimsStay DEF BaseInv
      <4>2. CASE pc[u] # "delete server"
        BY <3>1, <4>2 DEF VictimsOK
      <4>3. QED
        BY <4>1, <4>2
    <3>4. QED
      BY <3>2, <3>3
  <2>3. QED
    BY <1>2, <2>1, <2>2 DEF BaseInv
<1>4. CASE Restarts
  <2>1. ASSUME NEW u \in Tasks PROVE Routed(u)' /\ VictimsOK(u)'
    <3>1. CASE pc'[u] = pc[u] /\ work'[u] = work[u]
      BY <1>4, <3>1 DEF BaseInv, Restarts, cmdb, Routed, CallsOf, Calls, Ended, VictimsOK, Removes
    <3>2. CASE pc'[u] \in {"queued", FirstCall(u)}
      <4>1. pc'[u] # "delete server"
        BY <3>2, FirstCalls DEF Early
      <4>2. Routed(u)'
        BY <3>2, FirstCallRouted DEF Routed, CallsOf, Calls, Ended
      <4>3. QED
        BY <4>1, <4>2 DEF VictimsOK
    <3>3. QED
      BY <1>4, <3>1, <3>2 DEF Restarts
  <2>2. QED
    BY <1>2, <1>4, <2>1 DEF BaseInv, Restarts
<1>5. QED
  BY <1>1, <1>3, <1>4, NextMoves

LEMMA BaseInit == Init => BaseInv
<1> SUFFICES ASSUME Init PROVE BaseInv
  OBVIOUS
<1>1. TypeInv
  BY TypesInit
<1>2. WorkOK /\ \A t \in Tasks : pc[t] = "queued"
  BY NoWorkIsWork DEF Init, WorkOK
<1>3. QED
  BY <1>1, <1>2 DEF BaseInv, Routed, Ended, VictimsOK

-----------------------------------------------------------------------------
(* Deletes and resizes                                                     *)

\* No other message writes the rows of the same uuid, but to delete them.
Undisturbed(t) ==
    \A u \in Tasks \ {t} : Body[u].uuid = Body[t].uuid => Body[u].kind = "delete"

\* A delete has all rows of its uuid among its victims, and none is left when
\* it is acknowledged.
DeleteAt(t) ==
    Body[t].kind = "delete" => \A s \in ServersOf(Body[t].uuid) :
        /\ pc[t] = "delete server" => s.id \in work[t].victims
        /\ pc[t] # "acked"

\* A resize has written the price before it writes the flavor, and all fields
\* it sets when it is acknowledged.
ResizeAt(t) ==
    Body[t].kind = "resize" => \A s \in ServersOf(Body[t].uuid) :
        /\ pc[t] = "resize flavor" /\ "price" \in Body[t].sets => s.fields["price"] = t
        /\ pc[t] = "acked" => \A f \in Body[t].sets : s.fields[f] = t

\* The other tasks make no row of that uuid and change none.
LEMMA OthersLeave ==
    ASSUME ServersOK, NEW u \in Tasks, Routed(u), Step(u), NEW x,
           Body[u].kind = "delete" \/ Body[u].uuid # x,
           NEW s \in servers', s.uuid = x
    PROVE  s \in servers
<1>1. Body[u].kind = "delete" =>
         pc[u] \in {"select servers", "delete server", "queued", "acked", "dead"}
  BY DEF Routed, CallsOf, Ended
<1>2. CASE pc[u] = "insert server" /\ servers' = servers \cup {NewServer(u)}
  <2>1. NewServer(u).uuid # x
    BY <1>1, <1>2 DEF NewServer
  <2>2. QED
    BY <1>2, <2>1
<1>3. ASSUME NEW new, Update(Where(u), new),
             pc[u] \notin {"select servers", "delete server", "queued", "acked", "dead"}
      PROVE  s \in servers
  <2>1. \A r \in Where(u) : new[r].uuid # x
    BY <1>1, <1>3 DEF Update, SameRow, Where
  <2>2. QED
    BY <1>3, <2>1 DEF Update
<1>4. QED
  BY <1>2, <1>3, StepTables DEF cmdb, DeleteServer

\* A delete or a resize that gets no reply tries again, starts over or is dead.
LEMMA NoReplyElse ==
    ASSUME TypeOK, NEW t \in Tasks, pc[t] \in CallsOf(t), Body[t].kind # "create", NoReply(t)
    PROVE  \/ pc'[t] \in {FirstCall(t), "dead"}
           \/ pc'[t] = pc[t] /\ UNCHANGED work
<1>1. pc[t] \in {"select servers", "delete server", "resize price", "resize flavor"}
  BY DEF CallsOf
<1>2. Again(pc[t]) = pc[t]
  BY <1>1 DEF Again
<1>3. Report(t) => GoTo(t, "dead")
  BY <1>1 DEF Report
<1>4. Interrupted(t, Again(pc[t]), FirstCall(t)) =>
         GoTo(t, pc[t]) \/ GoTo(t, FirstCall(t)) \/ GoTo(t, "dead")
  BY <1>2 DEF Interrupted, Rerun, Refused
<1>5. QED
  BY <1>3, <1>4, Going DEF NoReply

LEMMA DeleteStep ==
    ASSUME TypeOK, WorkOK, NEW t \in Tasks, Routed(t), DeleteAt(t), Step(t),
           Body[t].kind = "delete"
    PROVE  DeleteAt(t)'
<1>0. pc[t] \in {"select servers", "delete server"} /\ pc[t] \in CallsOf(t)
  BY StepIsBusy DEF Routed, CallsOf, Busy
<1>1. FirstCall(t) = "select servers"
  BY DEF FirstCall
<1>2. ASSUME NoReply(t), servers' \subseteq servers,
             \A s \in servers' : s.uuid = Body[t].uuid /\ pc[t] = "delete server" =>
                 s.id \in work[t].victims
      PROVE  DeleteAt(t)'
  BY <1>0, <1>1, <1>2, NoReplyElse DEF DeleteAt, ServersOf
<1>3. CASE NotApplied(t)
  <2>1. UNCHANGED servers /\ NoReply(t)
    BY <1>3 DEF NotApplied, cmdb
  <2>2. QED
    BY <1>2, <2>1 DEF DeleteAt, ServersOf
<1>4. CASE SelectServers(t)
  <2>1. /\ UNCHANGED servers /\ work'[t].victims = Victims(t)
        /\ pc'[t] = AfterRemoval(t, Victims(t))
    BY <1>4, SetsVictims DEF SelectServers, Reply, cmdb
  <2>2. \A s \in ServersOf(Body[t].uuid) : s.id \in Victims(t)
    BY DEF ServersOf, Victims
  <2>3. QED
    BY <2>1, <2>2 DEF DeleteAt, AfterRemoval, ServersOf
<1>5. CASE DeleteVictim(t)
  <2>1. PICK v \in work[t].victims :
          /\ DeleteServer(v) /\ pc[t] = "delete server"
          /\ \/ /\ GoTo(t, AfterRemoval(t, work[t].victims \ {v}))
                /\ Carry(t, [work[t] EXCEPT !.victims = work[t].victims \ {v}])
             \/ NoReply(t)
    BY <1>5 DEF DeleteVictim, Reply
  <2>2. servers' \subseteq servers /\ \A s \in servers' : s.id # v
    BY <2>1 DEF DeleteServer
  <2>3. \A s \in servers' : s.uuid = Body[t].uuid => s.id \in work[t].victims \ {v}
    BY <2>1, <2>2 DEF DeleteAt, ServersOf
  <2>4. CASE /\ GoTo(t, AfterRemoval(t, work[t].victims \ {v}))
             /\ Carry(t, [work[t] EXCEPT !.victims = work[t].victims \ {v}])
    <3>1. /\ work'[t].victims = work[t].victims \ {v}
          /\ pc'[t] = AfterRemoval(t, work[t].victims \ {v})
      BY <2>4, SetsVictims
    <3>2. QED
      BY <2>3, <3>1 DEF DeleteAt, AfterRemoval, ServersOf
  <2>5. QED
    BY <1>2, <2>1, <2>2, <2>3, <2>4
<1>6. QED
  BY <1>0, <1>3, <1>4, <1>5
  DEF Step, Create, Removal, Resize, LookUp, CreateServer, ReselectServer, WriteBatch, WritePrice,
      WriteFlavor, CreateCard, ReselectCard, FindPrefix, CreateAddress, ReselectAddress,
      WriteState, ResizePrice, ResizeFlavor

\* What an update leaves in the rows it is for.
LEMMA WriteWrites ==
    ASSUME ServersOK, NEW t \in Tasks, NEW fields, Write(t, fields), Body[t].kind # "create"
    PROVE  \A s \in ServersOf(Body[t].uuid)' : \E r \in ServersOf(Body[t].uuid) :
               \A f \in Fields : s.fields[f] = IF f \in fields THEN t ELSE r.fields[f]
<1> SUFFICES ASSUME NEW s \in ServersOf(Body[t].uuid)'
             PROVE  \E r \in ServersOf(Body[t].uuid) : \A f \in Fields :
                        s.fields[f] = IF f \in fields THEN t ELSE r.fields[f]
  OBVIOUS
<1>1. PICK r \in Where(t) :
         s = [r EXCEPT !.fields = [f \in Fields |-> IF f \in fields THEN t ELSE r.fields[f]]]
  BY DEF Write, Where, ServersOf
<1>2. IsServer(r) /\ r \in ServersOf(Body[t].uuid)
  BY DEF ServersOK, Where, ServersOf
<1>3. PICK a, b, c, d, e, g :
         r = [id |-> a, uuid |-> b, hostname |-> c, raw_info |-> d, state |-> e, fields |-> g]
  BY <1>2 DEF IsServer
<1>4. s.fields = [f \in Fields |-> IF f \in fields THEN t ELSE r.fields[f]]
  BY <1>1, <1>3
<1>5. QED
  BY <1>2, <1>4

LEMMA ResizeStep ==
    ASSUME TypeOK, ServersOK, WorkOK, NEW t \in Tasks, Routed(t), ResizeAt(t), Step(t),
           Body[t].kind = "resize"
    PROVE  ResizeAt(t)'
<1>0. pc[t] \in {"resize price", "resize flavor"} /\ pc[t] \in CallsOf(t)
  BY StepIsBusy DEF Routed, CallsOf, Busy
<1>1. Body[t].sets \subseteq {"price", "flavor"}
  BY LifecycleAssumption DEF Fields
<1>2. /\ FirstCall(t) = "resize flavor" => "price" \notin Body[t].sets
      /\ FirstCall(t) = "acked" => Body[t].sets = {}
  BY <1>1 DEF FirstCall
<1>3. ASSUME NoReply(t),
             \A s \in ServersOf(Body[t].uuid)' :
                 pc[t] = "resize flavor" /\ "price" \in Body[t].sets => s.fields["price"] = t
      PROVE  ResizeAt(t)'
  BY <1>0, <1>2, <1>3, NoReplyElse DEF ResizeAt
<1>4. CASE NotApplied(t)
  <2>1. UNCHANGED servers /\ NoReply(t)
    BY <1>4 DEF NotApplied, cmdb
  <2>2. QED
    BY <1>3, <2>1 DEF ResizeAt, ServersOf
<1>5. CASE ResizePrice(t)
  <2>1. /\ pc[t] = "resize price" /\ Write(t, {"price"})
        /\ \/ GoTo(t, IF "flavor" \in Body[t].sets THEN "resize flavor" ELSE "acked")
           \/ NoReply(t)
    BY <1>5 DEF ResizePrice, Reply
  <2>2. \A s \in ServersOf(Body[t].uuid)' : s.fields["price"] = t
    BY <2>1, WriteWrites DEF Fields
  <2>3. CASE GoTo(t, IF "flavor" \in Body[t].sets THEN "resize flavor" ELSE "acked")
    <3>1. pc'[t] = IF "flavor" \in Body[t].sets THEN "resize flavor" ELSE "acked"
      BY <2>3, Going
    <3>2. QED
      BY <1>1, <2>2, <3>1 DEF ResizeAt
  <2>4. QED
    BY <1>3, <2>1, <2>2, <2>3
<1>6. CASE ResizeFlavor(t)
  <2>1. /\ pc[t] = "resize flavor" /\ Write(t, {"flavor"})
        /\ GoTo(t, "acked") \/ NoReply(t)
    BY <1>6 DEF ResizeFlavor, Reply
  <2>2. \A s \in ServersOf(Body[t].uuid)' :
           s.fields["flavor"] = t /\ ("price" \in Body[t].sets => s.fields["price"] = t)
    <3>1. \A s \in ServersOf(Body[t].uuid)' : \E r \in ServersOf(Body[t].uuid) :
             \A f \in Fields : s.fields[f] = IF f \in {"flavor"} THEN t ELSE r.fields[f]
      BY <2>1, WriteWrites
    <3> QED
      BY <2>1, <3>1 DEF ResizeAt, Fields
  <2>3. CASE GoTo(t, "acked")
    <3>1. pc'[t] = "acked"
      BY <2>3, Going
    <3>2. QED
      BY <1>1, <2>2, <3>1 DEF ResizeAt
  <2>4. QED
    BY <1>3, <2>1, <2>2, <2>3
<1>7. QED
  BY <1>0, <1>4, <1>5, <1>6
  DEF Step, Create, Removal, Resize, LookUp, CreateServer, ReselectServer, WriteBatch, WritePrice,
      WriteFlavor, CreateCard, ReselectCard, FindPrefix, CreateAddress, ReselectAddress,
      WriteState, SelectServers, DeleteVictim

LandInv == BaseInv /\ \A t \in Tasks : Undisturbed(t) => DeleteAt(t) /\ ResizeAt(t)

LEMMA LandStep == LandInv /\ [Next]_vars => LandInv'
<1> SUFFICES ASSUME LandInv, [Next]_vars PROVE LandInv'
  OBVIOUS
<1>1. TypeOK /\ ServersOK /\ WorkOK /\ BaseInv'
  BY BaseStep DEF LandInv, BaseInv, TypeInv
<1>2. ASSUME NEW t \in Tasks, Undisturbed(t), NEW u \in Tasks, Step(u)
      PROVE  DeleteAt(t)' /\ ResizeAt(t)'
  <2>1. Routed(u) /\ DeleteAt(t) /\ ResizeAt(t)
    BY <1>2 DEF LandInv, BaseInv
  <2>2. CASE u = t
    <3>1. Body[t].kind = "delete" => DeleteAt(t)'
      BY <1>1, <1>2, <2>1, <2>2, DeleteStep
    <3>2. Body[t].kind = "resize" => ResizeAt(t)'
      BY <1>1, <1>2, <2>1, <2>2, ResizeStep
    <3>3. QED
      BY <3>1, <3>2 DEF DeleteAt, ResizeAt
  <2>3. CASE u # t
    <3>1. pc'[t] = pc[t] /\ work'[t] = work[t]
      BY <1>1, <1>2, <2>3, StepAlone DEF Alone
    <3>2. Body[u].kind = "delete" \/ Body[u].uuid # Body[t].uuid
      BY <1>2, <2>3 DEF Undisturbed
    <3>3. \A s \in servers' : s.uuid = Body[t].uuid => s \in servers
      BY <1>1, <1>2, <2>1, <3>2, OthersLeave
    <3>4. \A s \in ServersOf(Body[t].uuid)' : s \in ServersOf(Body[t].uuid)
      BY <3>3 DEF ServersOf
    <3>5. QED
      BY <2>1, <3>1, <3>4 DEF DeleteAt, ResizeAt
  <2>4. QED
    BY <2>2, <2>3
<1>3. ASSUME NEW t \in Tasks, Undisturbed(t), Restarts
      PROVE  DeleteAt(t)' /\ ResizeAt(t)'
  <2>1. DeleteAt(t) /\ ResizeAt(t) /\ UNCHANGED servers
    BY <1>3 DEF LandInv, Restarts, cmdb
  <2>2. CASE pc'[t] = pc[t] /\ work'[t] = work[t]
    BY <2>1, <2>2 DEF DeleteAt, ResizeAt, ServersOf
  <2>3. CASE pc'[t] \in {"queued", FirstCall(t)}
    <3>1. DeleteAt(t)'
      BY <2>3 DEF DeleteAt, FirstCall
    <3>2. Body[t].kind = "resize" => Body[t].sets \subseteq {"price", "flavor"}
      BY LifecycleAssumption DEF Fields
    <3>3. ResizeAt(t)'
      BY <2>3, <3>2 DEF ResizeAt, FirstCall
    <3>4. QED
      BY <3>1, <3>3
  <2>4. QED
    BY <1>3, <2>2, <2>3 DEF Restarts
<1>4. \A t \in Tasks : Undisturbed(t)' => Undisturbed(t)
  BY DEF Undisturbed
<1>5. QED
  BY <1>1, <1>2, <1>3, <1>4, NextMoves DEF LandInv

(* An acknowledged delete has removed every server of its uuid, and an     *)
(* acknowledged resize has set what it sets in all of them: for any        *)
(* messages, tables, refusals, prefetch and faults, unless another message *)
(* writes rows of the same uuid.                                           *)
THEOREM DeletesAndResizesLand == Spec => []DeleteAndResizeLand
<1>1. Init => LandInv
  BY BaseInit DEF Init, LandInv, DeleteAt, ResizeAt
<1>2. LandInv => DeleteAndResizeLand
  BY DEF LandInv, Undisturbed, DeleteAt, ResizeAt, DeleteAndResizeLand
<1>3. QED
  BY <1>1, <1>2, LandStep, PTL DEF Spec

-----------------------------------------------------------------------------
(* Creates                                                                 *)

\* The calls of create a refusal of which ends the message as if done.
Quiet == {"select servers", "delete server", "insert server", "write state"}

Settled(s) == s.state \in {"ready", "error"}

\* A create no other message contends with: nothing hinders the insert, its
\* row stays, and the row is settled when the message is acknowledged.
SettlesAt(t) ==
    /\ pc[t] = "insert server" => \A s \in servers : ~Concerns(t, s)
    /\ pc[t] \in Late => \E s \in servers : s.id = work[t].server
    /\ pc[t] = "acked" => \E s \in Where(t) : Settled(s)

\* What becomes of a row.
LEMMA RowStays ==
    ASSUME ServersOK, NEW t \in Tasks, Step(t), NEW s \in servers
    PROVE  \/ \E r \in servers' : SameRow(r, s) /\ r.state = s.state
           \/ pc[t] = "write state" /\ s \in Where(t) /\ \E r \in servers' : SameRow(r, s)
           \/ pc[t] = "delete server" /\ s.id \in work[t].victims
<1> DEFINE Stays == \E r \in servers' : SameRow(r, s) /\ r.state = s.state
<1>0. SameRow(s, s) /\ IsServer(s)
  BY DEF SameRow, ServersOK
<1>1. CASE s \in servers'
  BY <1>0, <1>1
<1>2. CASE \E fields : Write(t, fields)
  <2>1. PICK fields : Write(t, fields)
    BY <1>2
  <2> DEFINE r == [s EXCEPT !.fields = [f \in Fields |-> IF f \in fields THEN t ELSE s.fields[f]]]
  <2>2. s \in Where(t) => r \in servers'
    BY <2>1 DEF Write
  <2>3. SameRow(r, s) /\ r.state = s.state
    <3>1. PICK a, b, c, d, e, g :
             s = [id |-> a, uuid |-> b, hostname |-> c, raw_info |-> d, state |-> e, fields |-> g]
      BY <1>0 DEF IsServer
    <3>2. QED
      BY <3>1 DEF SameRow
  <2>4. s \notin Where(t) => s \in servers'
    BY <2>1 DEF Write
  <2>5. QED
    BY <1>1, <2>2, <2>3, <2>4
<1>3. CASE pc[t] = "write state" /\ \E new : Update(Where(t), new)
  BY <1>1, <1>3 DEF Update
<1>4. CASE pc[t] = "delete server" /\ \E v \in work[t].victims : DeleteServer(v)
  BY <1>1, <1>4 DEF DeleteServer
<1>5. pc[t] \in {"write batch", "write price", "write flavor", "resize price", "resize flavor"} =>
         UNCHANGED cmdb \/ \E fields : Write(t, fields)
  BY DEF Step, Create, Removal, Resize, NotApplied, LookUp, CreateServer, ReselectServer,
         WriteBatch, WritePrice, WriteFlavor, CreateCard, ReselectCard, FindPrefix, CreateAddress,
         ReselectAddress, WriteState, SelectServers, DeleteVictim, ResizePrice, ResizeFlavor
<1>6. QED
  BY <1>1, <1>2, <1>3, <1>4, <1>5, StepTables DEF cmdb

\* How a create comes to be acknowledged.
LEMMA CreateAcked ==
    ASSUME TypeOK, WorkOK, NEW t \in Tasks, Step(t), Body[t].kind = "create",
           Routed(t), pc'[t] = "acked", Quiet \cap Refusals = {}
    PROVE  \/ WriteState(t)
           \/ pc[t] = "insert server" /\ ~CanInsertServer(Body[t].hostname)
<1>0. \A next : GoTo(t, next) => next = "acked"
  BY Going
<1>1. FirstCall(t) # "acked" /\ \A w : NextCall(w) # "acked"
  BY NextCalls DEF FirstCall, Late
<1>2. Report(t) => pc[t] \in Quiet
  <2>1. SkipCard(t) \/ SkipAddress(t) => FALSE
    BY <1>0, <1>1 DEF SkipCard, SkipAddress, Continue
  <2>2. QED
    BY <1>0, <1>1, <2>1 DEF Report, Quiet, Continue
<1>3. ~NoReply(t)
  <2>1. Again(pc[t]) # "acked"
    BY StepIsBusy DEF Again, Busy, Ended
  <2>2. ~Interrupted(t, Again(pc[t]), FirstCall(t))
    BY <1>0, <1>1, <2>1 DEF Interrupted, Rerun, Refused
  <2>3. QED
    BY <1>2, <2>2 DEF NoReply
<1>4. ASSUME NEW w, Continue(t, w) PROVE FALSE
  BY <1>0, <1>1, <1>4 DEF Continue
<1>5. ~(SelectServers(t) \/ DeleteVictim(t) \/ Resize(t))
  <2>1. \A v : AfterRemoval(t, v) # "acked"
    BY DEF AfterRemoval
  <2>2. pc[t] \notin {"resize price", "resize flavor"}
    BY DEF Routed, CallsOf, Ended
  <2>3. QED
    BY <1>0, <1>3, <2>1, <2>2
    DEF SelectServers, DeleteVictim, Resize, ResizePrice, ResizeFlavor, Reply
<1>6. ~(\/ LookUp(t) \/ ReselectServer(t) \/ WriteBatch(t) \/ WritePrice(t) \/ WriteFlavor(t)
        \/ NotApplied(t))
  BY <1>0, <1>3, <1>4
  DEF LookUp, ReselectServer, WriteBatch, WritePrice, WriteFlavor, NotApplied, Reply
<1>7. ~(ReselectCard(t) \/ FindPrefix(t) \/ ReselectAddress(t))
  BY <1>0, <1>4
  DEF ReselectCard, FindPrefix, ReselectAddress, CardWritten, AddressWritten, SkipAddress, Reply
<1>8. ~(CreateCard(t) \/ CreateAddress(t))
  BY <1>2, <1>3, <1>4
  DEF CreateCard, CreateAddress, CardWritten, AddressWritten, Conflict, Quiet
<1>9. CreateServer(t) => pc[t] = "insert server" /\ ~CanInsertServer(Body[t].hostname)
  BY <1>0, <1>3 DEF CreateServer, Reply
<1>10. QED
  BY <1>5, <1>6, <1>7, <1>8, <1>9 DEF Step, Create, Removal

\* A row of the message that WriteState finds is settled by it.
LEMMA StateWritten ==
    ASSUME ServersOK, NEW t \in Tasks, WriteState(t), NEW s \in Where(t)
    PROVE  \E r \in Where(t)' : Settled(r)
<1> DEFINE state == IF work[t].failed THEN "error" ELSE "ready"
           r == [s EXCEPT !.state = state]
<1>1. r \in servers'
  BY DEF WriteState
<1>2. SameRow(r, s)
  BY FieldsKept DEF ServersOK, Where
<1>3. r.state = state
  <2>1. IsServer(s)
    BY DEF ServersOK, Where
  <2>2. PICK a, b, c, d, e, g :
           s = [id |-> a, uuid |-> b, hostname |-> c, raw_info |-> d, state |-> e, fields |-> g]
    BY <2>1 DEF IsServer
  <2>3. QED
    BY <2>2
<1> HIDE DEF r
<1>4. QED
  BY <1>1, <1>2, <1>3 DEF Where, SameRow, Settled

\* At the insert, the row the create gets is there.
LEMMA RowGot ==
    ASSUME TypeOK, WorkOK, NEW t \in Tasks, Step(t), pc[t] \notin Late, pc'[t] \in Late,
           Body[t].kind = "create"
    PROVE  \E s \in servers' : s.id = work'[t].server
<1>0. \A next : GoTo(t, next) => next \in Late
  BY Going
<1>1. ~NoReply(t) /\ ~Conflict(t)
  <2>1. FirstCall(t) \notin Late /\ "dead" \notin Late /\ Again(pc[t]) \notin Late
    BY DEF FirstCall, Late, Again
  <2>2. ~Report(t)
    BY ReportWork DEF Late
  <2>3. QED
    BY <1>0, <2>1, <2>2 DEF NoReply, Interrupted, Rerun, Refused, Conflict
<1>2. CASE CreateServer(t)
  <2>1. NewServer(t) \in servers' /\ Carry(t, [work[t] EXCEPT !.server = serial])
    BY <1>1, <1>2 DEF CreateServer, NewServer
  <2>2. work'[t].server = serial
    BY <1>1, <1>2, SetsServer DEF CreateServer, Reply
  <2>3. NewServer(t).id = serial
    BY DEF NewServer
  <2>4. QED
    BY <2>1, <2>2, <2>3
<1>3. CASE ReselectServer(t)
  <2>1. "insert server" \notin Late
    BY DEF Late
  <2>2. PICK s \in servers : /\ GoTo(t, "write batch") /\ UNCHANGED servers
                             /\ Carry(t, [work[t] EXCEPT !.server = s.id])
    BY <1>0, <1>3, <2>1 DEF ReselectServer, Reply, cmdb
  <2>3. QED
    BY <2>2, SetsServer
<1>4. ~(\/ WriteBatch(t) \/ WritePrice(t) \/ WriteFlavor(t)
        \/ CreateCard(t) \/ ReselectCard(t) \/ FindPrefix(t)
        \/ CreateAddress(t) \/ ReselectAddress(t) \/ WriteState(t))
  BY DEF WriteBatch, WritePrice, WriteFlavor, CreateCard, ReselectCard, FindPrefix,
         CreateAddress, ReselectAddress, WriteState, Late
<1>5. ~(LookUp(t) \/ SelectServers(t) \/ DeleteVictim(t) \/ Resize(t) \/ NotApplied(t))
  <2>1. \A v : AfterRemoval(t, v) \notin Late
    BY DEF AfterRemoval, Late
  <2>2. "select servers" \notin Late /\ "resize flavor" \notin Late /\ "acked" \notin Late
    BY DEF Late
  <2>3. QED
    BY <1>0, <1>1, <2>1, <2>2 DEF LookUp, SelectServers, DeleteVictim, Resize, ResizePrice,
                                  ResizeFlavor, NotApplied, Reply
<1>6. QED
  BY <1>2, <1>3, <1>4, <1>5 DEF Step, Create, Removal

\* Once there is nothing left to remove, no row concerns the create.
LEMMA InsertClear ==
    ASSUME TypeOK, ServersOK, WorkOK, NEW t \in Tasks, OwnsAt(t), Step(t),
           Body[t].kind = "create", pc'[t] = "insert server"
    PROVE  \A s \in servers' : ~Concerns(t, s)'
<1>1. pc[t] \notin Late /\ EarlyMove(t) /\ ~Gone(t) /\ Again(pc[t]) # "insert server"
  BY LateWork, EarlyStep, FirstCalls DEF OnItsRow, Gone, Early, Late, Again
<1>2. CASE /\ pc[t] = "select servers" /\ work'[t].victims = Victims(t)
           /\ pc'[t] = AfterRemoval(t, Victims(t)) /\ UNCHANGED cmdb
  <2>1. Victims(t) = {}
    BY <1>2 DEF AfterRemoval
  <2>2. \A s \in servers : Concerns(t, s) => s.id \in Victims(t)
    BY DEF Victims, Concerns
  <2>3. QED
    BY <1>2, <2>1, <2>2 DEF cmdb, Concerns
<1>3. CASE /\ pc[t] = "delete server" /\ pc'[t] = AfterRemoval(t, work'[t].victims)
           /\ \E v : DeleteServer(v) /\ work'[t].victims = work[t].victims \ {v}
  <2>1. work'[t].victims = {}
    BY <1>3 DEF AfterRemoval
  <2>2. PICK v : DeleteServer(v) /\ work'[t].victims = work[t].victims \ {v}
    BY <1>3
  <2>3. \A s \in servers' : s \in servers /\ s.id # v
    BY <2>2 DEF DeleteServer
  <2>4. \A s \in servers : Concerns(t, s) => s.id \in work[t].victims
    BY <1>3 DEF OwnsAt
  <2>5. QED
    BY <2>1, <2>2, <2>3, <2>4 DEF Concerns
<1>4. CASE pc[t] = "reselect server" /\ pc'[t] = "insert server"
  <2>1. ReselectServer(t) \/ NotApplied(t)
    BY <1>4
    DEF Step, Create, Removal, Resize, LookUp, CreateServer, WriteBatch, WritePrice,
        WriteFlavor, CreateCard, ReselectCard, FindPrefix, CreateAddress, ReselectAddress,
        WriteState, SelectServers, DeleteVictim, ResizePrice, ResizeFlavor
  <2>2. ~NotApplied(t)
    <3>1. ~NoReply(t)
      BY <1>1, <1>4, NoReplyWork
    <3>2. QED
      BY <3>1 DEF NotApplied
  <2>3. UNCHANGED servers /\ \A s \in servers : s.hostname # Body[t].hostname
    BY <1>4, <2>1, <2>2, Going DEF ReselectServer, Reply, cmdb
  <2>4. \A s \in servers : Concerns(t, s) => Mine(t, s)
    BY <1>4 DEF OwnsAt
  <2>5. QED
    BY <2>3, <2>4 DEF Mine, Concerns
<1>5. QED
  BY <1>1, <1>2, <1>3, <1>4 DEF EarlyMove

LEMMA StepSettles ==
    ASSUME TypeOK, ServersOK, WorkOK, NEW t \in Tasks, Routed(t), OwnsAt(t), SettlesAt(t),
           Step(t), Body[t].kind = "create", Quiet \cap Refusals = {}
    PROVE  SettlesAt(t)'
<1>1. ASSUME pc'[t] = "acked" PROVE \E s \in Where(t)' : Settled(s)
  <2>1. ~(pc[t] = "insert server" /\ ~CanInsertServer(Body[t].hostname))
    BY DEF SettlesAt, Concerns, CanInsertServer
  <2>2. WriteState(t)
    BY <1>1, <2>1, CreateAcked
  <2>3. \E s \in Where(t) : TRUE
    <3>1. pc[t] \in Late
      BY <2>2 DEF WriteState, Late
    <3>2. PICK s \in servers : s.id = work[t].server
      BY <3>1 DEF SettlesAt
    <3>3. Mine(t, s)
      BY <3>1, <3>2 DEF OwnsAt
    <3>4. QED
      BY <3>2, <3>3 DEF Where, Mine
  <2>4. QED
    BY <2>2, <2>3, StateWritten
<1>2. ASSUME pc'[t] \in Late PROVE \E s \in servers' : s.id = work'[t].server
  <2>1. CASE pc[t] \notin Late
    BY <1>2, <2>1, RowGot
  <2>2. CASE pc[t] \in Late
    <3>1. PICK s \in servers : s.id = work[t].server
      BY <2>2 DEF SettlesAt
    <3>2. "delete server" \notin Late /\ FirstCall(t) \notin Late /\ "acked" \notin Late
          /\ "dead" \notin Late
      BY DEF Late, FirstCall
    <3>3. \E r \in servers' : SameRow(r, s)
      BY <2>2, <3>2, RowStays
    <3>4. work'[t].server = work[t].server
      BY <1>2, <2>2, <3>2, LateWork DEF Gone, OnItsRow
    <3>5. QED
      BY <3>1, <3>3, <3>4 DEF SameRow
  <2>3. QED
    BY <2>1, <2>2
<1>3. pc'[t] = "insert server" => \A s \in servers' : ~Concerns(t, s)'
  BY InsertClear
<1>4. QED
  BY <1>1, <1>2, <1>3 DEF SettlesAt

\* Other tasks leave the row of an uncontended create in place and in state.
LEMMA OthersSettle ==
    ASSUME TypeOK, ServersOK, NEW t \in Tasks, Body[t].kind = "create", Rivals(t) = {},
           OwnsAt(t), SettlesAt(t), NEW u \in Tasks \ {t}, Routed(u), VictimsOK(u), Step(u),
           Alone(u)
    PROVE  OwnsAt(t)' /\ SettlesAt(t)'
<1>0. pc'[t] = pc[t] /\ work'[t] = work[t]
  BY DEF Alone
<1>1. Body[u].kind \in {"create", "delete"} =>
         Body[u].uuid # Body[t].uuid /\ Body[u].hostname # Body[t].hostname
  BY DEF Rivals
<1>2. pc[u] \in {"insert server", "write state"} => Body[u].kind = "create"
  BY DEF Routed, CallsOf, Ended
<1>3. pc[u] = "delete server" => Body[u].kind \in {"create", "delete"}
  BY DEF Routed, CallsOf, Ended
<1>4. OwnsAt(t)'
  <2>1. pc[u] = "insert server" => u \in Creates
    BY <1>2 DEF Creates
  <2>2. u \in Creates => Body[u].uuid # Body[t].uuid /\ Body[u].hostname # Body[t].hostname
    BY <1>1 DEF Creates
  <2>3. QED
    BY <2>1, <2>2, OthersOwn
<1>5. ASSUME NEW s \in servers, Mine(t, s)
      PROVE  \E r \in servers' : SameRow(r, s) /\ r.state = s.state
  <2>1. s \notin Where(u) \/ pc[u] # "write state"
    BY <1>1, <1>2, <1>5 DEF Where, Mine
  <2>2. ~(pc[u] = "delete server" /\ s.id \in work[u].victims)
    BY <1>1, <1>3, <1>5 DEF VictimsOK, Removes, Mine
  <2>3. QED
    BY <2>1, <2>2, RowStays
<1>6. ASSUME NEW s \in servers, s \in Where(t)
      PROVE  \E r \in servers' : SameRow(r, s) /\ r.state = s.state
  <2>1. s \notin Where(u) \/ pc[u] # "write state"
    BY <1>1, <1>2, <1>6 DEF Where
  <2>2. ~(pc[u] = "delete server" /\ s.id \in work[u].victims)
    BY <1>1, <1>3, <1>6 DEF VictimsOK, Removes, Where
  <2>3. QED
    BY <2>1, <2>2, RowStays
<1>7. ASSUME pc[t] = "insert server", NEW s \in servers' PROVE ~Concerns(t, s)
  <2>1. CASE pc[u] = "insert server" /\ s = NewServer(u)
    BY <1>1, <1>2, <2>1 DEF NewServer, Concerns
  <2>2. CASE \E r \in servers : SameRow(s, r)
    BY <1>7, <2>2 DEF SettlesAt, SameRow, Concerns
  <2>3. QED
    BY <2>1, <2>2, RowsAfter
<1>8. pc[t] \in Late => \E s \in servers' : s.id = work'[t].server
  <2>1. SUFFICES ASSUME pc[t] \in Late PROVE \E s \in servers' : s.id = work'[t].server
    OBVIOUS
  <2>2. PICK s \in servers : s.id = work[t].server
    BY <2>1 DEF SettlesAt
  <2>3. Mine(t, s)
    BY <2>1, <2>2 DEF OwnsAt
  <2>4. QED
    BY <1>0, <1>5, <2>2, <2>3 DEF SameRow
<1>9. pc[t] = "acked" => \E s \in Where(t)' : Settled(s)
  BY <1>6 DEF SettlesAt, Where, SameRow, Settled
<1>10. QED
  BY <1>0, <1>4, <1>7, <1>8, <1>9 DEF SettlesAt, Concerns

SettleInv ==
    /\ BaseInv
    /\ \A t \in Tasks : Body[t].kind = "create" /\ Rivals(t) = {} => OwnsAt(t) /\ SettlesAt(t)

LEMMA SettleStep ==
    ASSUME Quiet \cap Refusals = {}, SettleInv, [Next]_vars
    PROVE  SettleInv'
<1>1. TypeOK /\ ServersOK /\ WorkOK /\ BaseInv'
  BY BaseStep DEF SettleInv, BaseInv, TypeInv
<1>2. ASSUME NEW t \in Tasks, Body[t].kind = "create", Rivals(t) = {}
      PROVE  OwnsAt(t)' /\ SettlesAt(t)'
  <2>1. OwnsAt(t) /\ SettlesAt(t) /\ \A u \in Tasks : Routed(u) /\ VictimsOK(u)
    BY <1>2 DEF SettleInv, BaseInv
  <2>2. ASSUME Step(t) PROVE OwnsAt(t)' /\ SettlesAt(t)'
    BY <1>1, <1>2, <2>1, <2>2, StepOwns, StepSettles
  <2>3. ASSUME NEW u \in Tasks \ {t}, Step(u) PROVE OwnsAt(t)' /\ SettlesAt(t)'
    BY <1>1, <1>2, <2>1, <2>3, StepAlone, OthersSettle
  <2>4. ASSUME Restarts PROVE OwnsAt(t)' /\ SettlesAt(t)'
    <3>1. UNCHANGED <<servers, serial>>
      BY <2>4 DEF Restarts, cmdb
    <3>2. CASE pc'[t] = pc[t] /\ work'[t] = work[t]
      BY <2>1, <3>1, <3>2, KeptOwns DEF SettlesAt, Concerns, Where
    <3>3. CASE pc'[t] \in {"queued", FirstCall(t)}
      <4>1. pc'[t] \in {"queued", "look up"}
        BY <1>2, <3>3 DEF FirstCall
      <4>2. OwnsAt(t)'
        BY <1>2, <4>1 DEF OwnsAt, Late
      <4>3. QED
        BY <4>1, <4>2 DEF SettlesAt, Late
    <3>4. QED
      BY <2>4, <3>2, <3>3 DEF Restarts
  <2>5. QED
    BY <1>1, <2>2, <2>3, <2>4, NextMoves
<1>3. \A t \in Tasks : (Rivals(t) = {})' => Rivals(t) = {}
  BY DEF Rivals
<1>4. QED
  BY <1>1, <1>2, <1>3 DEF SettleInv

(* A create whose uuid and hostname no other create or delete has is       *)
(* acknowledged only with its server in the CMDB, ready or in error: for   *)
(* any tables, prefetch, faults and redeliveries, as long as the CMDB does *)
(* not refuse one of the four calls whose refusal ends create quietly.     *)
THEOREM CreatesSettle ==
    ASSUME Quiet \cap Refusals = {}
    PROVE  Spec => []AckedCreateSettles
<1>1. Init => SettleInv
  <2>1. Init => BaseInv /\ OwnInv
    BY BaseInit, OwnInit
  <2>2. Init => \A t \in Tasks : pc[t] = "queued"
    BY DEF Init
  <2>3. QED
    BY <2>1, <2>2 DEF SettleInv, OwnInv, SettlesAt, Late
<1>2. SettleInv => AckedCreateSettles
  BY DEF SettleInv, SettlesAt, AckedCreateSettles, Settled
<1>3. SettleInv /\ [Next]_vars => SettleInv'
  BY SettleStep
<1>4. QED
  BY <1>1, <1>2, <1>3, PTL DEF Spec

=============================================================================
