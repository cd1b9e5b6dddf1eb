------------------------- MODULE AttachDetachProofs -------------------------
(***************************************************************************)
(* Theorems about AttachDetach, for any messages, tables and prefetch.     *)
(***************************************************************************)
EXTENDS AttachDetach, TLAPS

\* The calls at which an attach counts on its address not being there.
Absent == {"find prefix", "update endpoint", "insert endpoint", "reselect name", "insert ip"}

(* An attach is about to insert only what is not there: since it looked, or *)
(* since its insert was lost and it looked again, nothing but itself can    *)
(* have put its address on the server.                                      *)
LooksFirst ==
    \A t \in Tasks : Body[t].kind = "attach" /\ pc[t] \in Absent => AttachedNow(t) = {}

-----------------------------------------------------------------------------
\* Where a step of the transport failure path can lead.
LEMMA InterruptedStep ==
    ASSUME TypeOK, NEW t \in Tasks, NEW again \in Calls, Interrupted(t, again, FirstCall(t))
    PROVE  /\ pc' \in [Tasks -> Calls \cup Ended]
           /\ run' \in [Tasks -> 1 .. MaxRetries]
           /\ faults' \in 0 .. Faults
<1> USE TasksAssumption DEF TypeOK, Interrupted, Fault
<1>1. FirstCall(t) \in Calls
  BY DEF FirstCall, Calls
<1>2. CASE GoTo(t, again) /\ UNCHANGED run
  BY <1>2 DEF GoTo
<1>3. CASE Rerun(t, FirstCall(t))
  BY <1>1, <1>3 DEF Rerun, GoTo, Ended
<1>4. CASE Refused(t)
  BY <1>4 DEF Refused, GoTo, Ended
<1>5. QED
  BY <1>2, <1>3, <1>4

\* An attach or detach step: how it moves its task, and what rows it leaves.
TaskTypes ==
    /\ pc' \in [Tasks -> Calls \cup Ended]
    /\ run' \in [Tasks -> 1 .. MaxRetries]
    /\ faults' \in 0 .. Faults

LEMMA ReplyTypes ==
    ASSUME TypeOK, NEW t \in Tasks, NEW next \in Calls \cup Ended,
           \/ Reply(t, next)
           \/ GoTo(t, next) /\ UNCHANGED run /\ (Fault \/ UNCHANGED faults)
    PROVE  TaskTypes
BY TasksAssumption DEF TypeOK, Reply, GoTo, Fault, TaskTypes

LEMMA LostTypes ==
    ASSUME TypeOK, NEW t \in Tasks, pc[t] \in Calls, NoReply(t)
    PROVE  TaskTypes
<1>1. Again(pc[t]) \in Calls
  BY DEF Again, Calls
<1>2. QED
  BY <1>1, InterruptedStep DEF NoReply, TaskTypes

\* The rows of the tables, apart from what tasks do.
RowsOK ==
    /\ serial \in Nat \ {0}
    /\ \A e \in endpoints : e.id \in 1 .. serial - 1
    /\ \A i \in ips : i.id \in 1 .. serial - 1 /\ i.endpoint \in 1 .. serial - 1

LEMMA AttachTypes ==
    ASSUME TypeOK, NEW t \in Tasks, Attach(t)
    PROVE  TaskTypes
<1> USE DEF Calls, Ended
<1>1. CASE SelectServer(t)
  BY <1>1, ReplyTypes DEF SelectServer
<1>2. CASE FindAttachedIp(t)
  BY <1>2, ReplyTypes DEF FindAttachedIp, LookupRefused
<1>3. CASE FindPrefix(t)
  BY <1>3, ReplyTypes DEF FindPrefix, LookupRefused
<1>4. CASE UpdateEndpoint(t)
  BY <1>4, ReplyTypes, LostTypes DEF UpdateEndpoint
<1>5. CASE CreateEndpoint(t)
  BY <1>5, ReplyTypes, LostTypes DEF CreateEndpoint, Refused
<1>6. CASE ReselectAttached(t)
  BY <1>6, ReplyTypes DEF ReselectAttached, LookupRefused
<1>7. CASE ReselectName(t)
  BY <1>7, ReplyTypes DEF ReselectName
<1>8. CASE CreateIp(t)
  BY <1>8, ReplyTypes, LostTypes DEF CreateIp, Refused
<1>9. CASE ReselectIp(t)
  BY <1>9, ReplyTypes DEF ReselectIp, LookupRefused
<1>10. QED
  BY <1>1, <1>2, <1>3, <1>4, <1>5, <1>6, <1>7, <1>8, <1>9 DEF Attach

LEMMA InsertRows ==
    ASSUME RowsOK
    PROVE  /\ \A server, name, mac :
                 InsertEndpoint(server, name, mac) /\ UNCHANGED ips => RowsOK'
           /\ \A ip, endpoint, prefix, type :
                 CanInsertIp(ip, endpoint, prefix) /\ InsertIp(ip, endpoint, prefix, type)
                     /\ UNCHANGED endpoints => RowsOK'
<1> USE DEF RowsOK
<1>1. ASSUME NEW server, NEW name, NEW mac, InsertEndpoint(server, name, mac), UNCHANGED ips
      PROVE  RowsOK'
  <2>1. serial' = serial + 1 /\ ips' = ips
    BY <1>1 DEF InsertEndpoint
  <2>2. \A e \in endpoints' : e \in endpoints \/ e.id = serial
    BY <1>1 DEF InsertEndpoint
  <2>3. QED
    BY <2>1, <2>2
<1>2. ASSUME NEW ip, NEW endpoint, NEW prefix, NEW type, CanInsertIp(ip, endpoint, prefix),
             InsertIp(ip, endpoint, prefix, type), UNCHANGED endpoints
      PROVE  RowsOK'
  <2>1. serial' = serial + 1 /\ endpoints' = endpoints
    BY <1>2 DEF InsertIp
  <2>2. endpoint \in 1 .. serial - 1
    BY <1>2 DEF CanInsertIp
  <2>3. \A i \in ips' : i \in ips \/ (i.id = serial /\ i.endpoint = endpoint)
    BY <1>2 DEF InsertIp
  <2>4. QED
    BY <2>1, <2>2, <2>3
<1>3. QED
  BY <1>1, <1>2

LEMMA RowsStep ==
    ASSUME TypeOK, [Next]_vars
    PROVE  RowsOK'
<1>0. RowsOK
  BY DEF TypeOK, RowsOK
<1>1. ASSUME NEW t \in Tasks, CreateEndpoint(t) PROVE RowsOK'
  BY <1>0, <1>1, InsertRows DEF CreateEndpoint, cmdb, RowsOK
<1>2. ASSUME NEW t \in Tasks, CreateIp(t) PROVE RowsOK'
  BY <1>0, <1>2, InsertRows DEF CreateIp, cmdb, RowsOK
<1>3. ASSUME NEW t \in Tasks, UpdateEndpoint(t) PROVE RowsOK'
  <2>1. \A e \in endpoints' : \E f \in endpoints : e.id = f.id
    <3>1. CASE SetMac(plan[t].endpoint, Body[t].mac)
      BY <3>1 DEF SetMac
    <3>2. CASE UNCHANGED endpoints
      BY <3>2
    <3>3. QED
      BY <1>3, <3>1, <3>2 DEF UpdateEndpoint
  <2>2. UNCHANGED <<ips, serial>>
    BY <1>3 DEF UpdateEndpoint
  <2>3. QED
    BY <1>0, <2>1, <2>2 DEF RowsOK
<1>4. ASSUME NEW t \in Tasks, Detach(t) PROVE RowsOK'
  <2>1. endpoints' \subseteq endpoints /\ ips' \subseteq ips /\ serial' = serial
    BY <1>4 DEF Detach, DeleteIp, DeleteEndpoints
  <2>2. QED
    BY <1>0, <2>1 DEF RowsOK
<1>5. CASE UNCHANGED cmdb
  BY <1>0, <1>5 DEF cmdb, RowsOK
<1>6. QED
  BY <1>1, <1>2, <1>3, <1>4, <1>5
     DEF Next, vars, Start, Begin, Attach, SelectServer, FindAttachedIp, FindPrefix,
         ReselectAttached, ReselectName, ReselectIp, Unreachable, Refuses, AckLost, Crash

LEMMA TypeStep ==
    ASSUME TypeOK, [Next]_vars
    PROVE  TypeOK'
<1>1. ASSUME NEW t \in Tasks, Start(t) PROVE TaskTypes
  <2>1. FirstCall(t) \in Calls
    BY DEF FirstCall, Calls
  <2>2. 1 \in 1 .. MaxRetries
    BY TasksAssumption
  <2>3. QED
    BY <1>1, <2>1, <2>2 DEF TypeOK, Start, Begin, GoTo, TaskTypes
<1>2. ASSUME NEW t \in Tasks, Detach(t) PROVE TaskTypes
  BY <1>2, ReplyTypes, LostTypes DEF Detach, DeleteIp, DeleteEndpoints, Calls, Ended
<1>3. ASSUME NEW t \in Tasks, Unreachable(t) PROVE TaskTypes
  BY <1>3, LostTypes DEF Unreachable, Busy, TypeOK
<1>4. ASSUME NEW t \in Tasks, Refuses(t) PROVE TaskTypes
  BY <1>4, ReplyTypes DEF Refuses, Refused, Ended
<1>5. ASSUME NEW t \in Tasks, AckLost(t) PROVE TaskTypes
  BY <1>5, ReplyTypes DEF AckLost, Ended
<1>6. Crash => TaskTypes
  BY TasksAssumption DEF TypeOK, Crash, Fault, Ended, TaskTypes
<1>7. UNCHANGED vars => TaskTypes
  BY DEF TypeOK, vars, tasks, TaskTypes
<1>8. TaskTypes
  BY <1>1, <1>2, <1>3, <1>4, <1>5, <1>6, <1>7, AttachTypes DEF Next
<1>9. QED
  BY <1>8, RowsStep DEF TaskTypes, RowsOK, TypeOK

LEMMA TypeInductive == Spec => []TypeOK
<1>1. Init => TypeOK
  BY TasksAssumption, AttachDetachAssumption DEF Init, TypeOK, Ended
<1>2. TypeOK /\ [Next]_vars => TypeOK'
  BY TypeStep
<1>3. QED
  BY <1>1, <1>2, PTL DEF Spec

(* Every task is at a call or has ended, within its budget of runs, and no *)
(* row refers to an id that was never given.                               *)
THEOREM TypeCorrect == Spec => []TypeOK
BY TypeInductive

-----------------------------------------------------------------------------
\* No step takes an endpoint from one server to another.
LEMMA EndpointsStay ==
    ASSUME TypeOK, [Next]_vars
    PROVE  /\ UNCHANGED servers
           /\ \A e \in endpoints' : e.id = serial \/ \E f \in endpoints :
                                        f.id = e.id /\ f.server = e.server
<1>1. ASSUME NEW t \in Tasks, CreateEndpoint(t)
      PROVE  \A e \in endpoints' : e.id = serial \/ e \in endpoints
  <2>1. CASE InsertEndpoint(plan[t].server, plan[t].name, Body[t].mac)
    BY <2>1 DEF InsertEndpoint
  <2>2. CASE UNCHANGED cmdb
    BY <2>2 DEF cmdb
  <2>3. QED
    BY <1>1, <2>1, <2>2 DEF CreateEndpoint
<1>2. ASSUME NEW t \in Tasks, UpdateEndpoint(t)
      PROVE  \A e \in endpoints' : \E f \in endpoints : f.id = e.id /\ f.server = e.server
  <2>1. CASE SetMac(plan[t].endpoint, Body[t].mac)
    BY <2>1 DEF SetMac
  <2>2. CASE UNCHANGED endpoints
    BY <2>2
  <2>3. QED
    BY <1>2, <2>1, <2>2 DEF UpdateEndpoint
<1>3. ASSUME NEW t \in Tasks, CreateIp(t) \/ Detach(t) PROVE endpoints' \subseteq endpoints
  BY <1>3 DEF CreateIp, cmdb, Detach, DeleteIp, DeleteEndpoints
<1>4. CASE UNCHANGED cmdb
  BY <1>4 DEF cmdb
<1>5. (\E t \in Tasks : CreateEndpoint(t) \/ UpdateEndpoint(t) \/ CreateIp(t) \/ Detach(t))
        \/ UNCHANGED cmdb
  BY DEF Next, vars, Start, Begin, Attach, SelectServer, FindAttachedIp, FindPrefix,
         ReselectAttached, ReselectName, ReselectIp, Unreachable, Refuses, AckLost, Crash
<1>6. UNCHANGED servers
  <2>1. ASSUME NEW t \in Tasks, CreateEndpoint(t) PROVE servers' = servers
    BY <2>1 DEF CreateEndpoint, cmdb
  <2>0. ASSUME NEW t \in Tasks, UpdateEndpoint(t) PROVE servers' = servers
    BY <2>0 DEF UpdateEndpoint
  <2>2. ASSUME NEW t \in Tasks, CreateIp(t) PROVE servers' = servers
    BY <2>2 DEF CreateIp, cmdb
  <2>3. ASSUME NEW t \in Tasks, Detach(t) PROVE servers' = servers
    BY <2>3 DEF Detach, DeleteIp, DeleteEndpoints
  <2>4. QED
    BY <1>4, <1>5, <2>0, <2>1, <2>2, <2>3 DEF cmdb
<1>7. QED
  BY <1>1, <1>2, <1>3, <1>4, <1>5, <1>6

\* Unless an ip is inserted, no address comes onto a server.
LEMMA NothingAttached ==
    ASSUME TypeOK, [Next]_vars, ips' \subseteq ips, NEW t \in Tasks
    PROVE  AttachedNow(t)' \subseteq AttachedNow(t)
<1>1. \A i \in ips, e \in endpoints' : i.endpoint = e.id =>
          \E f \in endpoints : f.id = e.id /\ f.server = e.server
  BY EndpointsStay DEF TypeOK
<1>2. QED
  BY <1>1, EndpointsStay DEF AttachedNow, Attached, ServersOf

\* The steps that may add an ip row are those of CreateIp.
LEMMA IpsGrow ==
    ASSUME [Next]_vars, ~(\E t \in Tasks : CreateIp(t))
    PROVE  ips' \subseteq ips
<1>1. ASSUME NEW t \in Tasks, CreateEndpoint(t) \/ UpdateEndpoint(t) PROVE ips' \subseteq ips
  BY <1>1 DEF CreateEndpoint, UpdateEndpoint, cmdb
<1>2. ASSUME NEW t \in Tasks, Detach(t) PROVE ips' \subseteq ips
  BY <1>2 DEF Detach, DeleteIp, DeleteEndpoints
<1>3. CASE UNCHANGED cmdb
  BY <1>3 DEF cmdb
<1>4. QED
  BY <1>1, <1>2, <1>3
     DEF Next, vars, Start, Begin, Attach, SelectServer, FindAttachedIp, FindPrefix,
         ReselectAttached, ReselectName, ReselectIp, Unreachable, Refuses, AckLost, Crash

\* An inserted ip comes onto no server but by its own attach.
LEMMA OnlyOwnAddress ==
    ASSUME TypeOK, NEW t \in Tasks, CreateIp(t), NEW u \in Tasks, Body[u].ip # Body[t].ip
    PROVE  AttachedNow(u)' = AttachedNow(u)
<1>1. UNCHANGED <<servers, endpoints>>
  BY DEF CreateIp, cmdb
<1>2. \A i : i.ip = Body[u].ip => (i \in ips' <=> i \in ips)
  <2>1. CASE UNCHANGED ips
    BY <2>1
  <2>2. CASE InsertIp(Body[t].ip, plan[t].endpoint, plan[t].prefix,
                      IF plan[t].prefix = None THEN None
                      ELSE resolve_ip_type(plan[t].prefix, plan[t].used))
    BY <2>2 DEF InsertIp
  <2>3. QED
    BY <2>1, <2>2 DEF CreateIp, cmdb
<1>3. QED
  BY <1>1, <1>2 DEF AttachedNow, Attached, ServersOf

-----------------------------------------------------------------------------
Routed ==
    \A t \in Tasks : Body[t].kind # "attach" =>
                         pc[t] \in {"delete ip", "delete endpoints"} \cup Ended

\* The steps of one task, apart from crashes.
Step(t) ==
    \/ Start(t) \/ Attach(t) \/ Detach(t) \/ Unreachable(t) \/ Refuses(t)
    \/ AckLost(t) /\ UNCHANGED plan

\* Where a failing call leads: to itself or its re-select, to the first call
\* of the handler, or to the dead-letter queue.
LEMMA LostStep ==
    ASSUME TypeOK, NEW t \in Tasks, NoReply(t)
    PROVE  /\ pc'[t] \in {Again(pc[t]), FirstCall(t), "dead"}
           /\ \A u \in Tasks \ {t} : pc'[u] = pc[u]
BY DEF TypeOK, NoReply, Interrupted, Rerun, Refused, GoTo

\* A step moves its own task only.
LEMMA OthersStay ==
    ASSUME TypeOK, NEW t \in Tasks, Step(t), NEW u \in Tasks \ {t}
    PROVE  pc'[u] = pc[u]
<1> USE DEF TypeOK, Reply, GoTo
<1>1. CASE Start(t)
  BY <1>1 DEF Start, Begin
<1>2. CASE SelectServer(t)
  BY <1>2 DEF SelectServer
<1>3. CASE FindAttachedIp(t)
  BY <1>3 DEF FindAttachedIp
<1>4. CASE FindPrefix(t)
  BY <1>4 DEF FindPrefix
<1>5. CASE UpdateEndpoint(t)
  BY <1>5, LostStep DEF UpdateEndpoint
<1>6. CASE CreateEndpoint(t)
  BY <1>6, LostStep DEF CreateEndpoint, Refused
<1>7. CASE ReselectAttached(t)
  BY <1>7 DEF ReselectAttached
<1>8. CASE ReselectName(t)
  BY <1>8 DEF ReselectName
<1>9. CASE CreateIp(t)
  BY <1>9, LostStep DEF CreateIp, Refused
<1>10. CASE ReselectIp(t)
  BY <1>10 DEF ReselectIp
<1>11. CASE Detach(t)
  BY <1>11, LostStep DEF Detach, DeleteIp, DeleteEndpoints
<1>12. CASE Unreachable(t) \/ Refuses(t) \/ AckLost(t)
  BY <1>12, LostStep DEF Unreachable, Refuses, Refused, AckLost
<1>13. QED
  BY <1>1, <1>2, <1>3, <1>4, <1>5, <1>6, <1>7, <1>8, <1>9, <1>10, <1>11, <1>12
     DEF Step, Attach

\* An attach gets into Absent only by a look that found nothing, provided
\* lookups are answered, and leaves it with the step that inserts.
LEMMA OwnStep ==
    ASSUME TypeOK, ~LookupErrors, NEW t \in Tasks, Step(t), pc'[t] \in Absent
    PROVE  /\ pc[t] \in Absent \/ (AttachedNow(t) = {} /\ UNCHANGED ips)
           /\ ~CreateIp(t)
<1> USE DEF TypeOK, Reply, GoTo, Absent
<1>1. CASE Start(t)
  BY <1>1 DEF Start, Begin, FirstCall, CreateIp, Ended
<1>2. CASE SelectServer(t)
  BY <1>2 DEF SelectServer
<1>3. CASE FindAttachedIp(t)
  BY <1>3 DEF FindAttachedIp, LookupRefused, cmdb, CreateIp
<1>4. CASE FindPrefix(t) \/ ReselectName(t)
  BY <1>4 DEF FindPrefix, ReselectName, CreateIp
<1>5. CASE UpdateEndpoint(t) \/ CreateEndpoint(t)
  BY <1>5 DEF UpdateEndpoint, CreateEndpoint, CreateIp
<1>6. CASE ReselectAttached(t) \/ ReselectIp(t)
  BY <1>6 DEF ReselectAttached, ReselectIp, LookupRefused, cmdb, CreateIp
<1>7. CASE CreateIp(t)
  BY <1>7, LostStep DEF CreateIp, Again, FirstCall, Refused
<1>8. CASE Detach(t)
  BY <1>8, LostStep DEF Detach, DeleteIp, DeleteEndpoints, Again, FirstCall
<1>9. CASE Unreachable(t)
  BY <1>9, LostStep DEF Unreachable, Again, FirstCall, CreateIp
<1>10. CASE Refuses(t) \/ AckLost(t)
  BY <1>10 DEF Refuses, Refused, AckLost
<1>11. QED
  BY <1>1, <1>2, <1>3, <1>4, <1>5, <1>6, <1>7, <1>8, <1>9, <1>10 DEF Step, Attach

LEMMA NextCases ==
    ASSUME [Next]_vars
    PROVE  (\E t \in Tasks : Step(t)) \/ (Crash /\ UNCHANGED plan) \/ UNCHANGED vars
BY DEF Next, Step

\* A detach stays at its own calls.
LEMMA RoutedStep ==
    ASSUME TypeOK, Routed, [Next]_vars
    PROVE  Routed'
<1> SUFFICES ASSUME NEW t \in Tasks, Body[t].kind # "attach"
             PROVE  pc'[t] \in {"delete ip", "delete endpoints"} \cup Ended
  BY DEF Routed
<1>1. pc[t] \in {"delete ip", "delete endpoints"} \cup Ended
  BY DEF Routed
<1>2. CASE Step(t)
  <2> USE DEF TypeOK, Reply, GoTo, Ended
  <2>1. ~Attach(t)
    BY <1>1 DEF Attach, SelectServer, FindAttachedIp, FindPrefix, UpdateEndpoint,
                CreateEndpoint, ReselectAttached, ReselectName, CreateIp, ReselectIp
  <2>2. CASE Start(t)
    BY <2>2 DEF Start, Begin, FirstCall
  <2>3. CASE Detach(t)
    BY <2>3, LostStep DEF Detach, DeleteIp, DeleteEndpoints, Again, FirstCall
  <2>4. CASE Unreachable(t)
    BY <1>1, <2>4, LostStep DEF Unreachable, Again, FirstCall, Busy
  <2>5. CASE Refuses(t) \/ AckLost(t)
    BY <2>5 DEF Refuses, Refused, AckLost
  <2>6. QED
    BY <1>2, <2>1, <2>2, <2>3, <2>4, <2>5 DEF Step
<1>3. ASSUME NEW u \in Tasks \ {t}, Step(u) PROVE pc'[t] = pc[t]
  BY <1>3, OthersStay
<1>4. CASE Crash
  BY <1>1, <1>4 DEF Crash, Ended, TypeOK
<1>5. CASE UNCHANGED vars
  BY <1>1, <1>5 DEF vars, tasks
<1>6. QED
  BY <1>1, <1>2, <1>3, <1>4, <1>5, NextCases

\* An attach past a step into Absent counts on a look that still holds.
LEMMA StillAbsent ==
    ASSUME TypeOK, ~LookupErrors, LooksFirst, [Next]_vars, NEW u \in Tasks,
           Body[u].kind = "attach", pc'[u] \in Absent
    PROVE  AttachedNow(u) = {} /\ ~CreateIp(u)
<1>1. ~CreateIp(u)
  BY OwnStep DEF Step, Attach
<1>2. CASE Step(u)
  BY <1>1, <1>2, OwnStep DEF LooksFirst
<1>3. CASE pc'[u] = pc[u]
  BY <1>1, <1>3 DEF LooksFirst
<1>4. CASE Crash
  <2>1. pc'[u] = pc[u]
    BY <1>4 DEF Crash, Absent
  <2>2. QED
    BY <1>3, <2>1
<1>5. UNCHANGED vars => pc'[u] = pc[u]
  BY DEF vars, tasks
<1>6. QED
  BY <1>2, <1>3, <1>4, <1>5, NextCases, OthersStay

\* What the tables hold for an attach after a step of another task.
LEMMA OthersAttachElsewhere ==
    ASSUME TypeOK, Routed, OneTaskPerAddress, [Next]_vars, NEW u \in Tasks,
           Body[u].kind = "attach", ~CreateIp(u)
    PROVE  AttachedNow(u)' \subseteq AttachedNow(u)
<1>1. ASSUME NEW t \in Tasks, CreateIp(t) PROVE AttachedNow(u)' = AttachedNow(u)
  <2>1. Body[t].kind = "attach"
    BY <1>1 DEF Routed, CreateIp, Ended
  <2>2. Body[t].ip # Body[u].ip
    BY <1>1, <2>1 DEF OneTaskPerAddress
  <2>3. QED
    BY <1>1, <2>2, OnlyOwnAddress
<1>2. CASE ~(\E t \in Tasks : CreateIp(t))
  BY <1>2, IpsGrow, NothingAttached
<1>3. QED
  BY <1>1, <1>2

\* The attach's own insert puts its address where it was not.
LEMMA OwnInsert ==
    ASSUME TypeOK, LooksFirst, NEW t \in Tasks, Body[t].kind = "attach", CreateIp(t)
    PROVE  \A i, j \in AttachedNow(t)' : i = j
<1>1. AttachedNow(t) = {}
  BY DEF LooksFirst, CreateIp, Absent
<1>2. UNCHANGED <<servers, endpoints>>
  BY DEF CreateIp, cmdb
<1>3. \E new : ips' \subseteq ips \cup {new}
  <2>1. CASE UNCHANGED ips
    BY <2>1
  <2>2. CASE InsertIp(Body[t].ip, plan[t].endpoint, plan[t].prefix,
                      IF plan[t].prefix = None THEN None
                      ELSE resolve_ip_type(plan[t].prefix, plan[t].used))
    BY <2>2 DEF InsertIp
  <2>3. QED
    BY <2>1, <2>2 DEF CreateIp, cmdb
<1>4. PICK new : ips' \subseteq ips \cup {new}
  BY <1>3
<1>5. AttachedNow(t)' \subseteq AttachedNow(t) \cup {new}
  BY <1>2, <1>4 DEF AttachedNow, Attached, ServersOf
<1>6. QED
  BY <1>1, <1>5

\* What AttachedOnce needs to be inductive.
AttachInv == Routed /\ LooksFirst /\ AttachedOnce

LEMMA AttachInvInit == AddressesOnce /\ Init => AttachInv
BY DEF AddressesOnce, Init, AttachInv, Routed, LooksFirst, AttachedOnce, Absent, Ended,
       AttachedNow, Attached

LEMMA AttachInvStep ==
    ASSUME TypeOK, ~LookupErrors, OneTaskPerAddress, AttachInv, [Next]_vars
    PROVE  AttachInv'
<1> USE DEF AttachInv
<1>1. Routed'
  BY RoutedStep
<1>2. LooksFirst'
  <2> SUFFICES ASSUME NEW u \in Tasks, Body[u].kind = "attach", pc'[u] \in Absent
               PROVE  AttachedNow(u)' = {}
    BY DEF LooksFirst
  <2>1. QED
    BY StillAbsent, OthersAttachElsewhere
<1>3. AttachedOnce'
  <2> SUFFICES ASSUME NEW u \in Tasks, Body[u].kind = "attach"
               PROVE  \A i, j \in AttachedNow(u)' : i = j
    BY DEF AttachedOnce
  <2>1. CASE CreateIp(u)
    BY <2>1, OwnInsert
  <2>2. CASE ~CreateIp(u)
    BY <2>2, OthersAttachElsewhere DEF AttachedOnce
  <2>3. QED
    BY <2>1, <2>2
<1>4. QED
  BY <1>1, <1>2, <1>3

(* Attach is idempotent: whatever is retried, crashes, is delivered again  *)
(* or runs at the same time, it puts its address on the server once; as    *)
(* long as the CMDB answers lookups and no two messages attach one address. *)
THEOREM AttachIsIdempotent ==
    ASSUME ~LookupErrors, OneTaskPerAddress, AddressesOnce
    PROVE  Spec => []AttachedOnce
<1>1. TypeOK /\ AttachInv /\ [Next]_vars => AttachInv'
  BY AttachInvStep
<1>2. Init => AttachInv
  BY AttachInvInit
<1>3. QED
  BY TypeInductive, <1>1, <1>2, PTL DEF Spec, AttachInv

-----------------------------------------------------------------------------
(* What an acknowledged message did, and what attach carries to do it      *)

IsPlan(p) ==
    \E s, e, f, n, u, x : p = [server |-> s, endpoint |-> e, fill |-> f, name |-> n,
                               used |-> u, prefix |-> x]

PlansOK == plan = [t \in Tasks |-> plan[t]] /\ \A t \in Tasks : IsPlan(plan[t])

IdsApart ==
    /\ \A r, s \in servers : r.id = s.id => r = s
    /\ \A d, e \in endpoints : d.id = e.id => d = e

\* The calls of an attach that has read its server.
Planned == {"find ip", "find prefix", "update endpoint", "insert endpoint",
            "reselect endpoint", "reselect name", "insert ip", "reselect ip"}

(* An attach that has read its server works on that server: the endpoint it *)
(* chose, made or found again by its name is the server's, if it is there.  *)
OnServer(t) ==
    /\ \E s \in ServersOf(Body[t].uuid) : s.id = plan[t].server
    /\ plan[t].endpoint \in 0 .. serial - 1
    /\ \A e \in endpoints : e.id = plan[t].endpoint => e.server = plan[t].server

PlansHold == \A t \in Tasks : pc[t] \in Planned => OnServer(t)

(* An attach is acknowledged for an address that is there; a detach is past *)
(* its first call when the address is gone.                                 *)
Lands(t) ==
    /\ Body[t].kind = "attach" /\ pc[t] = "acked" /\ ServersOf(Body[t].uuid) # {}
           => AttachedNow(t) # {}
    /\ Body[t].kind # "attach" /\ pc[t] \in {"delete endpoints", "acked"}
           => AttachedNow(t) = {}

\* An attach stays away from the calls of detach.
AttachRouted ==
    \A t \in Tasks : Body[t].kind = "attach" => pc[t] \notin {"delete ip", "delete endpoints"}

EffectInv ==
    /\ PlansOK /\ IdsApart /\ Routed /\ AttachRouted /\ PlansHold
    /\ \A t \in Tasks : ~Opposed(t) => Lands(t)

\* One field of a plan changes, and no other plan.
LEMMA PlanFields ==
    ASSUME PlansOK, NEW t \in Tasks, NEW x
    PROVE  LET p == [plan EXCEPT ![t].endpoint = x]
               q == [plan EXCEPT ![t].prefix = x]
           IN /\ p = [u \in Tasks |-> p[u]] /\ q = [u \in Tasks |-> q[u]]
              /\ IsPlan(p[t]) /\ p[t].server = plan[t].server /\ p[t].endpoint = x
              /\ p[t].fill = plan[t].fill /\ p[t].name = plan[t].name
              /\ IsPlan(q[t]) /\ q[t].server = plan[t].server
              /\ q[t].endpoint = plan[t].endpoint
              /\ q[t].fill = plan[t].fill /\ q[t].name = plan[t].name
              /\ \A u \in Tasks \ {t} : p[u] = plan[u] /\ q[u] = plan[u]
<1>1. PICK s, e, f, n, u, y : plan[t] = [server |-> s, endpoint |-> e, fill |-> f, name |-> n,
                                         used |-> u, prefix |-> y]
  BY DEF PlansOK, IsPlan
<1>2. plan = [v \in Tasks |-> plan[v]]
  BY DEF PlansOK
<1>3. [plan EXCEPT ![t].endpoint = x][t]
          = [server |-> s, endpoint |-> x, fill |-> f, name |-> n, used |-> u, prefix |-> y]
  BY <1>1, <1>2
<1>4. [plan EXCEPT ![t].prefix = x][t]
          = [server |-> s, endpoint |-> e, fill |-> f, name |-> n, used |-> u, prefix |-> x]
  BY <1>1, <1>2
<1>5. /\ \A v \in Tasks \ {t} : /\ [plan EXCEPT ![t].endpoint = x][v] = plan[v]
                                /\ [plan EXCEPT ![t].prefix = x][v] = plan[v]
  BY <1>2
<1>6. /\ [plan EXCEPT ![t].endpoint = x] = [v \in Tasks |-> [plan EXCEPT ![t].endpoint = x][v]]
      /\ [plan EXCEPT ![t].prefix = x] = [v \in Tasks |-> [plan EXCEPT ![t].prefix = x][v]]
  BY <1>2
<1>7. /\ IsPlan([server |-> s, endpoint |-> x, fill |-> f, name |-> n, used |-> u, prefix |-> y])
      /\ IsPlan([server |-> s, endpoint |-> e, fill |-> f, name |-> n, used |-> u, prefix |-> x])
  BY DEF IsPlan
<1>8. QED
  BY <1>1, <1>3, <1>4, <1>5, <1>6, <1>7

\* A plan made anew.
LEMMA NewPlan ==
    ASSUME PlansOK, NEW t \in Tasks, NEW s, NEW e, NEW f, NEW n, NEW u, NEW x
    PROVE  LET new == [server |-> s, endpoint |-> e, fill |-> f, name |-> n, used |-> u,
                       prefix |-> x]
               p == [plan EXCEPT ![t] = new]
           IN /\ p = [v \in Tasks |-> p[v]] /\ IsPlan(p[t])
              /\ p[t].server = s /\ p[t].endpoint = e /\ p[t].fill = f /\ p[t].name = n
              /\ \A v \in Tasks \ {t} : p[v] = plan[v]
<1> DEFINE new == [server |-> s, endpoint |-> e, fill |-> f, name |-> n, used |-> u, prefix |-> x]
<1>1. IsPlan(new) /\ new.server = s /\ new.endpoint = e /\ new.fill = f /\ new.name = n
  BY DEF IsPlan
<1> HIDE DEF new
<1>2. plan = [v \in Tasks |-> plan[v]]
  BY DEF PlansOK
<1>3. [plan EXCEPT ![t] = new][t] = new
  BY <1>2
<1>4. /\ \A v \in Tasks \ {t} : [plan EXCEPT ![t] = new][v] = plan[v]
      /\ [plan EXCEPT ![t] = new] = [v \in Tasks |-> [plan EXCEPT ![t] = new][v]]
  BY <1>2
<1>5. QED
  BY <1>1, <1>3, <1>4 DEF new

\* What a step of t does to plans.
LEMMA PlanStep ==
    ASSUME PlansOK, TypeOK, NEW t \in Tasks, Step(t)
    PROVE  PlansOK' /\ \A u \in Tasks \ {t} : plan'[u] = plan[u]
<1>1. ASSUME NEW x, plan' = [plan EXCEPT ![t].endpoint = x] \/ plan' = [plan EXCEPT ![t].prefix = x]
      PROVE  PlansOK' /\ \A u \in Tasks \ {t} : plan'[u] = plan[u]
  <2>1. CASE plan' = [plan EXCEPT ![t].endpoint = x]
    BY <2>1, PlanFields DEF PlansOK
  <2>2. CASE plan' = [plan EXCEPT ![t].prefix = x]
    BY <2>2, PlanFields DEF PlansOK
  <2>3. QED
    BY <1>1, <2>1, <2>2
<1>2. ASSUME NEW s, NEW e, NEW f, NEW n, NEW u, NEW x,
             plan' = [plan EXCEPT ![t] = [server |-> s, endpoint |-> e, fill |-> f, name |-> n,
                                          used |-> u, prefix |-> x]]
      PROVE  PlansOK' /\ \A v \in Tasks \ {t} : plan'[v] = plan[v]
  BY <1>2, NewPlan DEF PlansOK
<1>3. CASE UNCHANGED plan
  BY <1>3 DEF PlansOK
<1>4. CASE Start(t)
  BY <1>2, <1>4 DEF Start, NoPlan
<1>5. CASE SelectServer(t)
  <2>1. CASE UNCHANGED plan
    BY <1>3, <2>1
  <2>2. ASSUME NEW s, Plan(t, s) PROVE PlansOK' /\ \A u \in Tasks \ {t} : plan'[u] = plan[u]
    <3>1. PICK e, f, n, u : plan' = [plan EXCEPT ![t] = [server |-> s, endpoint |-> e, fill |-> f,
                                                     name |-> n, used |-> u, prefix |-> None]]
      BY <2>2 DEF Plan
    <3>2. QED
      BY <1>2, <3>1
  <2>3. QED
    BY <1>5, <2>1, <2>2 DEF SelectServer
<1>6. CASE FindPrefix(t)
  BY <1>1, <1>3, <1>6 DEF FindPrefix
<1>7. CASE CreateEndpoint(t)
  BY <1>1, <1>3, <1>7 DEF CreateEndpoint, NoReply
<1>8. CASE ReselectName(t)
  BY <1>1, <1>3, <1>8 DEF ReselectName
<1>9. CASE FindAttachedIp(t) \/ UpdateEndpoint(t) \/ ReselectAttached(t) \/ CreateIp(t) \/ ReselectIp(t)
  BY <1>3, <1>9 DEF FindAttachedIp, UpdateEndpoint, ReselectAttached, CreateIp, ReselectIp, NoReply
<1>10. CASE Detach(t) \/ Unreachable(t) \/ Refuses(t) \/ UNCHANGED plan
  BY <1>3, <1>10 DEF Detach, DeleteIp, DeleteEndpoints, Unreachable, NoReply, Refuses
<1>11. QED
  BY <1>4, <1>5, <1>6, <1>7, <1>8, <1>9, <1>10 DEF Step, Attach

-----------------------------------------------------------------------------
LEMMA IdsStep ==
    ASSUME TypeOK, IdsApart, [Next]_vars
    PROVE  IdsApart' /\ serial' \in {serial, serial + 1}
<1> USE DEF IdsApart
<1>1. ASSUME NEW t \in Tasks, CreateEndpoint(t)
      PROVE  IdsApart' /\ serial' \in {serial, serial + 1}
  <2>1. CASE UNCHANGED cmdb
    BY <2>1 DEF cmdb
  <2>2. CASE InsertEndpoint(plan[t].server, plan[t].name, Body[t].mac) /\ UNCHANGED <<servers, ips>>
    <3>1. PICK new : new.id = serial /\ endpoints' = endpoints \cup {new}
      BY <2>2 DEF InsertEndpoint
    <3>2. \A e \in endpoints : e.id # serial
      BY DEF TypeOK
    <3>3. \A d, e \in endpoints' : d.id = e.id => d = e
      BY <3>1, <3>2
    <3>4. QED
      BY <2>2, <3>3 DEF InsertEndpoint
  <2>3. QED
    BY <1>1, <2>1, <2>2 DEF CreateEndpoint
<1>2. ASSUME NEW t \in Tasks, UpdateEndpoint(t)
      PROVE  IdsApart' /\ serial' \in {serial, serial + 1}
  <2>1. UNCHANGED <<servers, serial>>
    BY <1>2 DEF UpdateEndpoint
  <2>2. CASE UNCHANGED endpoints
    BY <2>1, <2>2
  <2>3. CASE SetMac(plan[t].endpoint, Body[t].mac)
    <3>1. \A d, e \in endpoints' : d.id = e.id => d = e
      BY <2>3 DEF SetMac
    <3>2. QED
      BY <2>1, <3>1
  <2>4. QED
    BY <1>2, <2>2, <2>3 DEF UpdateEndpoint
<1>3. ASSUME NEW t \in Tasks, CreateIp(t)
      PROVE  IdsApart' /\ serial' \in {serial, serial + 1}
  BY <1>3 DEF CreateIp, cmdb, InsertIp
<1>4. ASSUME NEW t \in Tasks, Detach(t)
      PROVE  IdsApart' /\ serial' \in {serial, serial + 1}
  <2>1. UNCHANGED <<servers, serial>> /\ endpoints' \subseteq endpoints
    BY <1>4 DEF Detach, DeleteIp, DeleteEndpoints
  <2>2. QED
    BY <2>1
<1>5. UNCHANGED cmdb => IdsApart' /\ serial' \in {serial, serial + 1}
  BY DEF cmdb
<1>6. QED
  BY <1>1, <1>2, <1>3, <1>4, <1>5
     DEF Next, vars, Start, Begin, Attach, SelectServer, FindAttachedIp, FindPrefix,
         ReselectAttached, ReselectName, ReselectIp, Unreachable, Refuses, AckLost, Crash

\* Ids lie below the next one.
LEMMA IdsBelow ==
    ASSUME TypeOK
    PROVE  /\ serial \in Nat /\ serial \in 0 .. (serial + 1) - 1
           /\ \A e \in endpoints : e.id # serial /\ e.id \in 0 .. serial - 1
<1>1. serial \in Nat
  BY DEF TypeOK
<1>2. \A e \in endpoints : e.id \in 1 .. serial - 1
  BY DEF TypeOK
<1>3. QED
  BY <1>1, <1>2

\* A plan that is carried on stays one for its server.
LEMMA PlanCarried ==
    ASSUME TypeOK, IdsApart, [Next]_vars, NEW t \in Tasks, OnServer(t),
           plan'[t].server = plan[t].server, plan'[t].endpoint = plan[t].endpoint
    PROVE  OnServer(t)'
<1>1. plan[t].endpoint \in 0 .. serial - 1 /\ serial \in Nat
  BY DEF OnServer, TypeOK
<1>2. plan[t].endpoint # serial /\ plan[t].endpoint \in 0 .. serial' - 1
  BY <1>1, IdsStep
<1>3. \A e \in endpoints' : e.id = plan[t].endpoint => e.server = plan[t].server
  BY <1>2, EndpointsStay DEF OnServer
<1>4. \E s \in ServersOf(Body[t].uuid)' : s.id = plan[t].server
  BY EndpointsStay DEF OnServer, ServersOf
<1>5. QED
  BY <1>2, <1>3, <1>4 DEF OnServer

\* What attach concludes from its server is about that server.
LEMMA PlanMade ==
    ASSUME TypeOK, IdsApart, NEW t \in Tasks, PlansOK, UNCHANGED cmdb,
           NEW s \in ServersOf(Body[t].uuid), Plan(t, s.id)
    PROVE  OnServer(t)'
<1>1. PICK e, f, n, u :
          /\ e \in (IF Usable(Body[t].mac, EndpointsOf(s.id)) # {}
                   THEN {d.id : d \in Usable(Body[t].mac, EndpointsOf(s.id))} ELSE {NoRow})
          /\ plan' = [plan EXCEPT ![t] = [server |-> s.id, endpoint |-> e, fill |-> f,
                                          name |-> n, used |-> u, prefix |-> None]]
  BY DEF Plan
<1>2. plan'[t].server = s.id /\ plan'[t].endpoint = e
  BY <1>1, NewPlan
<1>3. Usable(Body[t].mac, EndpointsOf(s.id)) \subseteq EndpointsOf(s.id)
  BY DEF Usable
<1>4. e = 0 \/ \E c \in endpoints : c.id = e /\ c.server = s.id
  BY <1>1, <1>3 DEF NoRow, EndpointsOf
<1>5. e \in 0 .. serial - 1
  BY <1>4 DEF TypeOK
<1>6. \A c \in endpoints : c.id = e => c.server = s.id
  BY <1>4 DEF IdsApart, TypeOK
<1>7. servers' = servers /\ endpoints' = endpoints /\ serial' = serial
  BY DEF cmdb
<1>8. s \in ServersOf(Body[t].uuid)'
  BY <1>7 DEF ServersOf
<1>9. QED
  BY <1>2, <1>5, <1>6, <1>7, <1>8 DEF OnServer

\* An attach's own step into a planned call leaves it with a plan that holds.
LEMMA OwnPlan ==
    ASSUME TypeOK, PlansOK, IdsApart, PlansHold, [Next]_vars, NEW t \in Tasks, Step(t),
           pc'[t] \in Planned
    PROVE  OnServer(t)'
<1>1. CASE pc[t] \in Planned /\ UNCHANGED plan
  BY <1>1, PlanCarried DEF PlansHold
<1> USE DEF TypeOK, Reply, GoTo, Planned, Ended
<1>2. CASE Start(t)
  BY <1>2 DEF Start, Begin, FirstCall
<1>3. CASE SelectServer(t)
  <2>1. PICK s \in ServersOf(Body[t].uuid) : Plan(t, s.id)
    BY <1>3 DEF SelectServer
  <2>2. QED
    BY <1>3, <2>1, PlanMade DEF SelectServer
<1>4. CASE FindPrefix(t)
  <2>1. pc[t] \in Planned
    BY <1>4 DEF FindPrefix
  <2>2. plan'[t].server = plan[t].server /\ plan'[t].endpoint = plan[t].endpoint
    <3>1. CASE UNCHANGED plan
      BY <3>1
    <3>2. CASE plan' = [plan EXCEPT ![t].prefix = PrefixOf[Body[t].ip]]
      BY <3>2, PlanFields
    <3>3. QED
      BY <1>4, <3>1, <3>2 DEF FindPrefix
  <2>3. QED
    BY <2>1, <2>2, PlanCarried DEF PlansHold
<1>5. CASE CreateEndpoint(t)
  <2>1. pc[t] \in Planned
    BY <1>5 DEF CreateEndpoint
  <2>2. CASE UNCHANGED plan
    BY <1>1, <2>1, <2>2
  <2>3. CASE plan' = [plan EXCEPT ![t].endpoint = serial] /\ UNCHANGED servers
             /\ InsertEndpoint(plan[t].server, plan[t].name, Body[t].mac)
    <3>1. plan'[t].server = plan[t].server /\ plan'[t].endpoint = serial
      BY <2>3, PlanFields
    <3>2. serial' = serial + 1
      BY <2>3 DEF InsertEndpoint
    <3>0. \A e \in endpoints : e.id # serial
      BY IdsBelow
    <3>3. \A e \in endpoints' : e.id = serial => e.server = plan[t].server
      <4>1. PICK new : /\ new.server = plan[t].server
                       /\ endpoints' = endpoints \cup {new}
        BY <2>3 DEF InsertEndpoint
      <4>2. QED
        BY <3>0, <4>1
    <3>4. \E s \in ServersOf(Body[t].uuid)' : s.id = plan[t].server
      BY <2>1, <2>3 DEF PlansHold, OnServer, ServersOf
    <3>5. plan'[t].endpoint \in 0 .. serial' - 1
      BY <3>1, <3>2, IdsBelow
    <3>6. QED
      BY <3>1, <3>3, <3>4, <3>5 DEF OnServer
  <2>4. QED
    BY <1>5, <2>2, <2>3 DEF CreateEndpoint, NoReply
<1>6. CASE ReselectName(t)
  <2>1. pc[t] \in Planned
    BY <1>6 DEF ReselectName
  <2>2. CASE UNCHANGED plan
    BY <1>1, <2>1, <2>2
  <2>3. ASSUME NEW e \in EndpointsOf(plan[t].server), plan' = [plan EXCEPT ![t].endpoint = e.id]
        PROVE  OnServer(t)'
    <3>1. plan'[t].server = plan[t].server /\ plan'[t].endpoint = e.id
      BY <2>3, PlanFields
    <3>2. UNCHANGED <<servers, endpoints, serial>>
      BY <1>6 DEF ReselectName, cmdb
    <3>3. e \in endpoints /\ e.server = plan[t].server
      BY DEF EndpointsOf
    <3>8. e.id \in 0 .. serial - 1
      BY <3>3, IdsBelow
    <3>4. \A c \in endpoints : c.id = e.id => c.server = plan[t].server
      BY <3>3 DEF IdsApart
    <3>5. \E s \in ServersOf(Body[t].uuid) : s.id = plan[t].server
      BY <2>1 DEF PlansHold, OnServer
    <3>6. QED
      BY <3>1, <3>2, <3>4, <3>5, <3>8 DEF OnServer, ServersOf
  <2>4. QED
    BY <1>6, <2>2, <2>3 DEF ReselectName
<1>7. CASE FindAttachedIp(t) \/ UpdateEndpoint(t) \/ ReselectAttached(t) \/ CreateIp(t) \/ ReselectIp(t)
  BY <1>1, <1>7 DEF FindAttachedIp, UpdateEndpoint, ReselectAttached, CreateIp, ReselectIp, NoReply
<1>8. CASE Detach(t)
  BY <1>8, LostStep DEF Detach, DeleteIp, DeleteEndpoints, Again, FirstCall
<1>9. CASE Unreachable(t)
  <2>1. pc[t] \in Planned /\ UNCHANGED plan
    BY <1>9, LostStep DEF Unreachable, Again, FirstCall, NoReply
  <2>2. QED
    BY <1>1, <2>1
<1>10. CASE Refuses(t) \/ AckLost(t)
  BY <1>10 DEF Refuses, Refused, AckLost
<1>11. QED
  BY <1>2, <1>3, <1>4, <1>5, <1>6, <1>7, <1>8, <1>9, <1>10 DEF Step, Attach

LEMMA PlansHoldStep ==
    ASSUME TypeOK, PlansOK, IdsApart, PlansHold, [Next]_vars
    PROVE  PlansOK' /\ PlansHold'
<1>1. ASSUME NEW t \in Tasks, Step(t) PROVE PlansOK' /\ PlansHold'
  <2>1. PlansOK'
    BY <1>1, PlanStep
  <2>2. ASSUME NEW u \in Tasks, pc'[u] \in Planned PROVE OnServer(u)'
    <3>1. CASE u = t
      BY <1>1, <2>2, <3>1, OwnPlan
    <3>2. CASE u # t
      <4>1. pc'[u] = pc[u] /\ plan'[u] = plan[u]
        BY <1>1, <3>2, OthersStay, PlanStep
      <4>2. QED
        BY <2>2, <4>1, PlanCarried DEF PlansHold
    <3>3. QED
      BY <3>1, <3>2
  <2>3. QED
    BY <2>1, <2>2 DEF PlansHold
<1>2. ASSUME UNCHANGED plan, \A u \in Tasks : pc'[u] \in Planned => pc[u] \in Planned
      PROVE  PlansOK' /\ PlansHold'
  BY <1>2, PlanCarried DEF PlansHold, PlansOK
<1>3. CASE Crash /\ UNCHANGED plan
  BY <1>2, <1>3 DEF Crash, Planned
<1>4. CASE UNCHANGED vars
  BY <1>2, <1>4 DEF vars, tasks
<1>5. QED
  BY <1>1, <1>3, <1>4, NextCases

-----------------------------------------------------------------------------
\* What an insert of an address puts in.
LEMMA InsertedRow ==
    ASSUME NEW ip, NEW endpoint, NEW prefix, NEW type, InsertIp(ip, endpoint, prefix, type)
    PROVE  \E new : new.ip = ip /\ new.endpoint = endpoint /\ ips' = ips \cup {new}
BY DEF InsertIp

LEMMA CreateIpRow ==
    ASSUME NEW t \in Tasks, CreateIp(t)
    PROVE  \/ /\ \E e \in endpoints : e.id = plan[t].endpoint
              /\ \E new : /\ new.ip = Body[t].ip /\ new.endpoint = plan[t].endpoint
                          /\ ips' = ips \cup {new}
           \/ ips' = ips /\ Refused(t)
<1> DEFINE type == IF plan[t].prefix = None THEN None
                   ELSE resolve_ip_type(plan[t].prefix, plan[t].used)
<1>1. CASE /\ CanInsertIp(Body[t].ip, plan[t].endpoint, plan[t].prefix)
           /\ InsertIp(Body[t].ip, plan[t].endpoint, plan[t].prefix, type)
  <2> HIDE DEF type
  <2>1. \E e \in endpoints : e.id = plan[t].endpoint
    BY <1>1 DEF CanInsertIp
  <2>2. QED
    BY <1>1, <2>1, InsertedRow
<1>2. CASE UNCHANGED ips /\ Refused(t)
  BY <1>2
<1>3. QED
  BY <1>1, <1>2 DEF CreateIp, cmdb

\* An address stays on a server until a detach of it from there is carried out.
LEMMA AttachedStays ==
    ASSUME TypeOK, IdsApart, [Next]_vars, NEW u \in Tasks,
           \A t \in Tasks : DeleteIp(t) => ~(Body[t].uuid = Body[u].uuid /\ Body[t].ip = Body[u].ip)
    PROVE  AttachedNow(u) \subseteq AttachedNow(u)'
<1> SUFFICES ASSUME NEW i \in AttachedNow(u) PROVE i \in AttachedNow(u)'
  OBVIOUS
<1>1. PICK e \in endpoints, s \in ServersOf(Body[u].uuid) :
          i \in ips /\ i.ip = Body[u].ip /\ e.id = i.endpoint /\ s.id = e.server
  BY DEF AttachedNow, Attached
<1>2. s \in servers /\ s.uuid = Body[u].uuid
  BY DEF ServersOf
<1>3. UNCHANGED servers
  BY EndpointsStay
<1>4. ASSUME i \in ips', NEW d \in endpoints', d.id = e.id, d.server = e.server
      PROVE  i \in AttachedNow(u)'
  BY <1>1, <1>2, <1>3, <1>4 DEF AttachedNow, Attached, ServersOf
<1>5. ASSUME ips \subseteq ips', endpoints \subseteq endpoints' PROVE i \in AttachedNow(u)'
  BY <1>1, <1>4, <1>5
<1>6. ASSUME NEW t \in Tasks, CreateEndpoint(t) \/ CreateIp(t)
      PROVE  ips \subseteq ips' /\ endpoints \subseteq endpoints'
  BY <1>6 DEF CreateEndpoint, CreateIp, InsertEndpoint, InsertIp, cmdb
<1>7. ASSUME NEW t \in Tasks, UpdateEndpoint(t) PROVE i \in AttachedNow(u)'
  <2>1. \E d \in endpoints' : d.id = e.id /\ d.server = e.server
    <3>1. CASE endpoints' = endpoints
      BY <3>1
    <3>2. CASE SetMac(plan[t].endpoint, Body[t].mac)
      <4>1. PICK d : /\ d = [id |-> e.id, server |-> e.server, name |-> e.name,
                             mac |-> IF e.id = plan[t].endpoint THEN Body[t].mac ELSE e.mac]
        OBVIOUS
      <4>2. d \in endpoints'
        BY <3>2, <4>1 DEF SetMac
      <4>3. QED
        BY <4>1, <4>2
    <3>3. QED
      BY <1>7, <3>1, <3>2 DEF UpdateEndpoint
  <2>2. QED
    BY <1>1, <1>4, <1>7, <2>1 DEF UpdateEndpoint
<1>8. ASSUME NEW t \in Tasks, DeleteIp(t) PROVE i \in AttachedNow(u)'
  <2>1. ips' = ips \ AttachedNow(t) /\ endpoints' = endpoints
    BY <1>8 DEF DeleteIp
  <2>2. i \notin AttachedNow(t)
    <3>1. SUFFICES ASSUME i \in AttachedNow(t) PROVE FALSE
      OBVIOUS
    <3>2. PICK d \in endpoints, r \in servers : /\ i.ip = Body[t].ip /\ d.id = i.endpoint
                                                /\ r.id = d.server /\ r.uuid = Body[t].uuid
      BY <3>1 DEF AttachedNow, Attached, ServersOf
    <3>3. d = e /\ r = s
      BY <1>1, <1>2, <3>2 DEF IdsApart
    <3>4. QED
      BY <1>1, <1>2, <1>8, <3>2, <3>3
  <2>3. QED
    BY <1>1, <1>4, <2>1, <2>2
<1>9. ASSUME NEW t \in Tasks, DeleteEndpoints(t) PROVE i \in AttachedNow(u)'
  <2>1. ips' = ips /\ endpoints' = endpoints \ EmptyEndpoints(Body[t].uuid)
    BY <1>9 DEF DeleteEndpoints
  <2>2. e \notin EmptyEndpoints(Body[t].uuid)
    BY <1>1 DEF EmptyEndpoints, IpsOn
  <2>3. QED
    BY <1>1, <1>4, <2>1, <2>2
<1>10. UNCHANGED cmdb => ips \subseteq ips' /\ endpoints \subseteq endpoints'
  BY DEF cmdb
<1>11. QED
  BY <1>5, <1>6, <1>7, <1>8, <1>9, <1>10
     DEF Next, vars, Start, Begin, Attach, SelectServer, FindAttachedIp, FindPrefix, Detach,
         ReselectAttached, ReselectName, ReselectIp, Unreachable, Refuses, AckLost, Crash

\* An address comes onto a server by an attach to that server only.
LEMMA AttachedGrows ==
    ASSUME TypeOK, IdsApart, PlansHold, [Next]_vars, NEW u \in Tasks,
           \A t \in Tasks : CreateIp(t) => ~(Body[t].uuid = Body[u].uuid /\ Body[t].ip = Body[u].ip)
    PROVE  AttachedNow(u)' \subseteq AttachedNow(u)
<1>1. ASSUME NEW t \in Tasks, CreateIp(t), Body[t].uuid # Body[u].uuid
      PROVE  AttachedNow(u)' \subseteq AttachedNow(u)
  <2>1. OnServer(t)
    BY <1>1 DEF PlansHold, Planned, CreateIp
  <2>2. UNCHANGED <<servers, endpoints>>
    BY <1>1 DEF CreateIp, cmdb
  <2>3. \A i \in ips' : i \in ips \/ i.endpoint = plan[t].endpoint
    BY <1>1, CreateIpRow
  <2>4. ASSUME NEW i, i.endpoint = plan[t].endpoint PROVE i \notin AttachedNow(u)'
    <3>1. SUFFICES ASSUME i \in AttachedNow(u)' PROVE FALSE
      OBVIOUS
    <3>2. PICK e \in endpoints, s \in servers :
              e.id = i.endpoint /\ s.id = e.server /\ s.uuid = Body[u].uuid
      BY <2>2, <3>1 DEF AttachedNow, Attached, ServersOf
    <3>3. PICK r \in servers : r.uuid = Body[t].uuid /\ r.id = plan[t].server
      BY <2>1 DEF OnServer, ServersOf
    <3>4. e.server = plan[t].server
      BY <2>1, <2>4, <3>2 DEF OnServer
    <3>5. r = s
      BY <3>2, <3>3, <3>4 DEF IdsApart
    <3>6. QED
      BY <1>1, <3>2, <3>3, <3>5
  <2>5. ASSUME NEW i \in AttachedNow(u)', i \in ips PROVE i \in AttachedNow(u)
    BY <2>2, <2>5 DEF AttachedNow, Attached, ServersOf
  <2>6. AttachedNow(u)' \subseteq ips'
    BY DEF AttachedNow, Attached
  <2>7. QED
    BY <2>3, <2>4, <2>5, <2>6
<1>2. ASSUME NEW t \in Tasks, CreateIp(t), Body[t].ip # Body[u].ip
      PROVE  AttachedNow(u)' \subseteq AttachedNow(u)
  BY <1>2, OnlyOwnAddress
<1>3. CASE ~(\E t \in Tasks : CreateIp(t))
  BY <1>3, IpsGrow, NothingAttached
<1>4. QED
  BY <1>1, <1>2, <1>3

\* An attach is acknowledged for what it finds or for what it inserts.
LEMMA OwnAttach ==
    ASSUME TypeOK, IdsApart, PlansHold, AttachRouted, [Next]_vars, NEW t \in Tasks, Step(t),
           Body[t].kind = "attach", pc'[t] = "acked", ServersOf(Body[t].uuid) # {}
    PROVE  AttachedNow(t)' # {}
<1> USE DEF TypeOK, Reply, GoTo, Ended
<1>1. ASSUME UNCHANGED cmdb, AttachedNow(t) # {} PROVE AttachedNow(t)' # {}
  BY <1>1 DEF cmdb, AttachedNow, Attached, ServersOf
<1>2. CASE CreateIp(t)
  <2>1. OnServer(t)
    BY <1>2 DEF PlansHold, Planned, CreateIp
  <2>2. /\ \E e \in endpoints : e.id = plan[t].endpoint
        /\ \E i \in ips' : i.ip = Body[t].ip /\ i.endpoint = plan[t].endpoint
        /\ UNCHANGED <<servers, endpoints>>
    <3>1. ~Refused(t)
      BY <1>2 DEF Refused
    <3>2. UNCHANGED <<servers, endpoints>>
      BY <1>2 DEF CreateIp, cmdb
    <3>3. QED
      BY <1>2, <3>1, <3>2, CreateIpRow
  <2>3. PICK e \in endpoints : e.id = plan[t].endpoint
    BY <2>2
  <2>4. PICK s \in ServersOf(Body[t].uuid) : s.id = e.server
    BY <2>1, <2>3 DEF OnServer
  <2>5. QED
    BY <2>2, <2>3, <2>4 DEF AttachedNow, Attached, ServersOf
<1>3. CASE FindAttachedIp(t) \/ ReselectAttached(t) \/ ReselectIp(t)
  BY <1>1, <1>3 DEF FindAttachedIp, ReselectAttached, ReselectIp
<1>4. CASE SelectServer(t)
  BY <1>4 DEF SelectServer
<1>5. CASE FindPrefix(t) \/ ReselectName(t) \/ Start(t)
  BY <1>5 DEF FindPrefix, ReselectName, Start, Begin, FirstCall
<1>6. CASE UpdateEndpoint(t) \/ CreateEndpoint(t)
  BY <1>6, LostStep DEF UpdateEndpoint, CreateEndpoint, Again, FirstCall, Refused
<1>7. CASE Detach(t)
  BY <1>7 DEF Detach, DeleteIp, DeleteEndpoints, AttachRouted
<1>8. CASE Unreachable(t)
  BY <1>8, LostStep DEF Unreachable, Again, FirstCall, Busy
<1>9. CASE Refuses(t) \/ AckLost(t)
  BY <1>9 DEF Refuses, Refused, AckLost
<1>10. QED
  BY <1>2, <1>3, <1>4, <1>5, <1>6, <1>7, <1>8, <1>9 DEF Step, Attach

\* A detach goes past its first call with the address gone.
LEMMA OwnDetach ==
    ASSUME TypeOK, IdsApart, Routed, [Next]_vars, NEW t \in Tasks, Step(t),
           Body[t].kind # "attach", pc'[t] \in {"delete endpoints", "acked"},
           pc[t] \in {"delete endpoints", "acked"} => AttachedNow(t) = {}
    PROVE  AttachedNow(t)' = {}
<1>0. pc[t] \in {"delete ip", "delete endpoints"} \cup Ended
  BY DEF Routed
<1> USE DEF TypeOK, Reply, GoTo, Ended
<1>1. CASE DeleteIp(t)
  <2>1. ips' = ips \ AttachedNow(t) /\ UNCHANGED <<servers, endpoints>>
    BY <1>1 DEF DeleteIp
  <2>2. QED
    BY <2>1 DEF AttachedNow, Attached, ServersOf
<1>2. CASE DeleteEndpoints(t)
  <2>1. AttachedNow(t) = {} /\ ips' \subseteq ips
    BY <1>2 DEF DeleteEndpoints
  <2>2. QED
    BY <2>1, NothingAttached
<1>3. ~Attach(t)
  BY <1>0 DEF Attach, SelectServer, FindAttachedIp, FindPrefix, UpdateEndpoint,
              CreateEndpoint, ReselectAttached, ReselectName, CreateIp, ReselectIp
<1>4. CASE Unreachable(t)
  <2>1. pc[t] = "delete endpoints"
    BY <1>0, <1>4, LostStep DEF Unreachable, Again, FirstCall, Busy
  <2>2. AttachedNow(t) = {} /\ ips' \subseteq ips
    BY <1>4, <2>1 DEF Unreachable, cmdb
  <2>3. QED
    BY <2>2, NothingAttached
<1>5. ~Start(t) /\ ~Refuses(t) /\ ~AckLost(t)
  BY DEF Start, Begin, FirstCall, Refuses, Refused, AckLost
<1>6. QED
  BY <1>1, <1>2, <1>3, <1>4, <1>5 DEF Step, Detach

LEMMA AttachRoutedStep ==
    ASSUME TypeOK, AttachRouted, [Next]_vars
    PROVE  AttachRouted'
<1> SUFFICES ASSUME NEW t \in Tasks, Body[t].kind = "attach"
             PROVE  pc'[t] \notin {"delete ip", "delete endpoints"}
  BY DEF AttachRouted
<1>1. pc[t] \notin {"delete ip", "delete endpoints"}
  BY DEF AttachRouted
<1>2. CASE Step(t)
  <2> USE DEF TypeOK, Reply, GoTo
  <2>1. CASE Start(t)
    BY <2>1 DEF Start, Begin, FirstCall
  <2>2. CASE SelectServer(t) \/ FindAttachedIp(t) \/ ReselectAttached(t) \/ ReselectName(t) \/ ReselectIp(t)
    BY <2>2 DEF SelectServer, FindAttachedIp, ReselectAttached, ReselectName, ReselectIp
  <2>3. CASE FindPrefix(t)
    BY <2>3 DEF FindPrefix
  <2>4. CASE UpdateEndpoint(t) \/ CreateEndpoint(t) \/ CreateIp(t)
    BY <2>4, LostStep DEF UpdateEndpoint, CreateEndpoint, CreateIp, Again, FirstCall, Refused
  <2>5. ~Detach(t)
    BY <1>1 DEF Detach, DeleteIp, DeleteEndpoints
  <2>6. CASE Unreachable(t)
    BY <1>1, <2>6, LostStep DEF Unreachable, Again, FirstCall
  <2>7. CASE Refuses(t) \/ AckLost(t)
    BY <2>7 DEF Refuses, Refused, AckLost
  <2>8. QED
    BY <1>2, <2>1, <2>2, <2>3, <2>4, <2>5, <2>6, <2>7 DEF Step, Attach
<1>3. ASSUME NEW u \in Tasks \ {t}, Step(u) PROVE pc'[t] = pc[t]
  BY <1>3, OthersStay
<1>4. CASE Crash
  BY <1>1, <1>4 DEF Crash, TypeOK
<1>5. CASE UNCHANGED vars
  BY <1>1, <1>5 DEF vars, tasks
<1>6. QED
  BY <1>1, <1>2, <1>3, <1>4, <1>5, NextCases

\* A task that no other is opposed to keeps what it landed while others move.
LEMMA LandsKept ==
    ASSUME TypeOK, EffectInv, [Next]_vars, NEW u \in Tasks, ~Opposed(u), ~Step(u)
    PROVE  Lands(u)'
<1> USE DEF EffectInv
<1>0. Lands(u) /\ UNCHANGED servers
  BY EndpointsStay
<1>1. pc'[u] = pc[u] \/ pc'[u] = "queued"
  <2>1. CASE Crash
    BY <2>1 DEF Crash, TypeOK
  <2>2. CASE UNCHANGED vars
    BY <2>2 DEF vars, tasks
  <2>3. QED
    BY <2>1, <2>2, NextCases, OthersStay
<1>2. CASE Body[u].kind = "attach"
  <2>1. ASSUME NEW t \in Tasks, DeleteIp(t)
        PROVE  ~(Body[t].uuid = Body[u].uuid /\ Body[t].ip = Body[u].ip)
    <3>1. Body[t].kind # "attach"
      BY <2>1 DEF AttachRouted, DeleteIp
    <3>2. QED
      BY <1>2, <3>1 DEF Opposed
  <2>2. AttachedNow(u) \subseteq AttachedNow(u)'
    BY <2>1, AttachedStays
  <2>3. QED
    BY <1>0, <1>1, <1>2, <2>2 DEF Lands, ServersOf
<1>3. CASE Body[u].kind # "attach"
  <2>1. ASSUME NEW t \in Tasks, CreateIp(t)
        PROVE  ~(Body[t].uuid = Body[u].uuid /\ Body[t].ip = Body[u].ip)
    <3>1. Body[t].kind = "attach"
      BY <2>1 DEF Routed, CreateIp, Ended
    <3>2. QED
      BY <1>3, <3>1 DEF Opposed
  <2>2. AttachedNow(u)' \subseteq AttachedNow(u)
    BY <2>1, AttachedGrows
  <2>3. QED
    BY <1>0, <1>1, <1>3, <2>2 DEF Lands
<1>4. QED
  BY <1>2, <1>3

LEMMA EffectInvStep ==
    ASSUME TypeOK, EffectInv, [Next]_vars
    PROVE  EffectInv'
<1> USE DEF EffectInv
<1>1. PlansOK' /\ PlansHold' /\ IdsApart' /\ Routed' /\ AttachRouted'
  BY PlansHoldStep, IdsStep, RoutedStep, AttachRoutedStep
<1>2. ASSUME NEW u \in Tasks, ~Opposed(u) PROVE Lands(u)'
  <2>1. CASE Step(u)
    <3>1. Lands(u) /\ UNCHANGED servers
      BY <1>2, EndpointsStay
    <3>2. Body[u].kind = "attach" /\ pc'[u] = "acked" /\ ServersOf(Body[u].uuid)' # {}
              => AttachedNow(u)' # {}
      BY <2>1, <3>1, OwnAttach DEF ServersOf
    <3>3. Body[u].kind # "attach" /\ pc'[u] \in {"delete endpoints", "acked"}
              => AttachedNow(u)' = {}
      BY <2>1, <3>1, OwnDetach DEF Lands
    <3>4. QED
      BY <3>2, <3>3 DEF Lands
  <2>2. CASE ~Step(u)
    BY <1>2, <2>2, LandsKept
  <2>3. QED
    BY <2>1, <2>2
<1>3. QED
  BY <1>1, <1>2 DEF Opposed

(* An acknowledged attach has its address on the server, and an acknowledged *)
(* detach has it gone, until a message that asks for the opposite comes in:  *)
(* whatever is retried, refused, cut off or delivered again, however many    *)
(* tasks run, and whether or not two of them attach one address.             *)
THEOREM AckedIsDone == Spec => []AckedTakesEffect
<1>1. Init => EffectInv
  <2>1. ASSUME Init PROVE PlansOK /\ PlansHold /\ Routed /\ AttachRouted /\ \A t \in Tasks : Lands(t)
    BY <2>1 DEF Init, NoPlan, PlansOK, IsPlan, PlansHold, Planned, Routed, AttachRouted, Lands, Ended
  <2>2. Init => IdsApart
    BY AttachDetachAssumption DEF Init, IdsApart
  <2>3. QED
    BY <2>1, <2>2 DEF EffectInv
<1>2. TypeOK /\ EffectInv /\ [Next]_vars => EffectInv'
  BY EffectInvStep
<1>3. EffectInv => AckedTakesEffect
  BY DEF EffectInv, Lands, AckedTakesEffect
<1>4. QED
  BY TypeInductive, <1>1, <1>2, <1>3, PTL DEF Spec

-----------------------------------------------------------------------------
(* What becomes of an endpoint whose address was not put on it             *)

Attaches == {t \in Tasks : Body[t].kind = "attach"}

\* The ports of one server have macs of their own; at most one has none.
PortsApart ==
    \A t, u \in Attaches : t # u /\ Body[t].uuid = Body[u].uuid => Body[t].mac # Body[u].mac

\* The CMDB allows two servers of one uuid; the tables at the start have none.
UuidsApart == \A n \in Networks : \A r, s \in n.servers : r.uuid = s.uuid => r = s

OneRow == \A r, s \in servers : r.uuid = s.uuid => r = s

NamesApart == \A d, e \in endpoints : d.server = e.server /\ d.name = e.name => d = e

\* A detach of that server has yet to remove its empty endpoints.
Sweeping(uuid) == \E u \in Tasks \ Attaches : Body[u].uuid = uuid /\ pc[u] # "acked"

\* The endpoints of a server the port of t could go on as its own.
Owned(t, server) ==
    {e \in EndpointsOf(server) : e.mac = Body[t].mac /\ (e.mac = None => IpsOn(e.id) = {})}

\* Placeholders come and go until the sweep is over.
Exempt(t) == Body[t].mac = None /\ Sweeping(Body[t].uuid)

\* The endpoint t is about to use, once it has found it again if need be.
Target(t, e) ==
    \/ e.id = plan[t].endpoint
    \/ pc[t] \in {"reselect endpoint", "reselect name"} /\ e.name = plan[t].name

\* An attach under way means to use the endpoint that was made for its port.
Aims(t) ==
    /\ pc[t] \in {"insert endpoint", "reselect endpoint", "reselect name"}
           => plan[t].endpoint = NoRow
    /\ pc[t] = "update endpoint" => plan[t].endpoint # NoRow
    /\ plan[t].fill => Body[t].mac # None
    /\ Exempt(t) \/ \A e \in Owned(t, plan[t].server) :
          plan[t].fill \/ plan[t].endpoint = NoRow \/ Inserted(e) => Target(t, e)

\* An endpoint made for a port is the only one the port could go on.
Alone(t) ==
    Exempt(t) \/ \A s \in ServersOf(Body[t].uuid) : \A d, e \in Owned(t, s.id) :
                    Inserted(e) => d = e

\* Something is still to come that will use the endpoint or remove it.
Covered(e) ==
    \/ \E t \in Tasks : pc[t] = "dead"
    \/ \E s \in servers :
          /\ s.id = e.server
          /\ \/ Sweeping(s.uuid)
             \/ \E t \in Attaches : /\ Body[t].uuid = s.uuid /\ Body[t].mac = e.mac
                                    /\ pc[t] # "acked" /\ AttachedNow(t) = {}

StrayInv ==
    /\ PlansOK /\ IdsApart /\ Routed /\ AttachRouted /\ PlansHold
    /\ LooksFirst /\ OneRow /\ NamesApart
    /\ \A t \in Attaches : (pc[t] \in Planned => Aims(t)) /\ Alone(t)
    /\ \A e \in endpoints : Inserted(e) /\ IpsOn(e.id) = {} => Covered(e)

\* Which endpoints there are after a step.
SameEnd(d, e) == d.id = e.id /\ d.server = e.server /\ d.name = e.name

Made(t, e) ==
    /\ CreateEndpoint(t) /\ ips' = ips
    /\ CanInsertEndpoint(plan[t].server, plan[t].name)
    /\ e.id = serial /\ e.server = plan[t].server /\ e.name = plan[t].name
    /\ e.mac = Body[t].mac

Filled(t, e) ==
    /\ UpdateEndpoint(t) /\ plan[t].fill
    /\ e.id = plan[t].endpoint /\ e.mac = Body[t].mac
    /\ \E f \in endpoints : SameEnd(e, f)

LEMMA MadeEndpoint ==
    ASSUME NEW server, NEW name, NEW mac, InsertEndpoint(server, name, mac)
    PROVE  \E new : /\ new.id = serial /\ new.server = server /\ new.name = name
                    /\ new.mac = mac /\ endpoints' = endpoints \cup {new}
BY DEF InsertEndpoint

LEMMA SetEndpoints ==
    ASSUME NEW id, NEW mac, SetMac(id, mac), NEW e \in endpoints'
    PROVE  \E f \in endpoints : /\ SameEnd(e, f)
                                /\ e.mac = IF f.id = id THEN mac ELSE f.mac
<1>1. PICK f \in endpoints : e = [id |-> f.id, server |-> f.server, name |-> f.name,
                                  mac |-> IF f.id = id THEN mac ELSE f.mac]
  BY DEF SetMac
<1>2. QED
  BY <1>1 DEF SameEnd

LEMMA EndpointMoves ==
    ASSUME [Next]_vars, NEW e \in endpoints'
    PROVE  \/ \E f \in endpoints : SameEnd(e, f) /\ e.mac = f.mac
           \/ \E t \in Tasks : Made(t, e) \/ Filled(t, e)
<1>0. e \in endpoints => \E f \in endpoints : SameEnd(e, f) /\ e.mac = f.mac
  BY DEF SameEnd
<1>1. ASSUME NEW t \in Tasks, CreateEndpoint(t), e \notin endpoints PROVE Made(t, e)
  <2>1. /\ CanInsertEndpoint(plan[t].server, plan[t].name) /\ ips' = ips
        /\ InsertEndpoint(plan[t].server, plan[t].name, Body[t].mac)
    BY <1>1 DEF CreateEndpoint, cmdb
  <2>2. PICK new : /\ new.id = serial /\ new.server = plan[t].server /\ new.name = plan[t].name
                   /\ new.mac = Body[t].mac /\ endpoints' = endpoints \cup {new}
    BY <2>1, MadeEndpoint
  <2>3. e = new
    BY <1>1, <2>2
  <2>4. QED
    BY <1>1, <2>1, <2>2, <2>3 DEF Made
<1>2. ASSUME NEW t \in Tasks, UpdateEndpoint(t)
      PROVE  \/ \E f \in endpoints : SameEnd(e, f) /\ e.mac = f.mac
             \/ Filled(t, e)
  <2>1. CASE endpoints' = endpoints
    BY <1>0, <2>1
  <2>2. CASE plan[t].fill /\ SetMac(plan[t].endpoint, Body[t].mac)
    <3>1. PICK f \in endpoints : /\ SameEnd(e, f)
                                 /\ e.mac = IF f.id = plan[t].endpoint THEN Body[t].mac ELSE f.mac
      BY <2>2, SetEndpoints
    <3>2. CASE f.id = plan[t].endpoint
      BY <1>2, <2>2, <3>1, <3>2 DEF Filled, SameEnd
    <3>3. CASE f.id # plan[t].endpoint
      BY <3>1, <3>3
    <3>4. QED
      BY <3>2, <3>3
  <2>3. QED
    BY <1>2, <2>1, <2>2 DEF UpdateEndpoint
<1>3. ASSUME NEW t \in Tasks, CreateIp(t) \/ Detach(t) PROVE e \in endpoints
  BY <1>3 DEF CreateIp, cmdb, Detach, DeleteIp, DeleteEndpoints
<1>4. CASE UNCHANGED cmdb
  BY <1>0, <1>4 DEF cmdb
<1>5. QED
  BY <1>0, <1>1, <1>2, <1>3, <1>4
     DEF Next, vars, Start, Begin, Attach, SelectServer, FindAttachedIp, FindPrefix,
         ReselectAttached, ReselectName, ReselectIp, Unreachable, Refuses, AckLost, Crash

\* An address goes only by a detach of it.
LEMMA IpsLeave ==
    ASSUME [Next]_vars, NEW i \in ips, i \notin ips'
    PROVE  \E t \in Tasks : DeleteIp(t) /\ i \in AttachedNow(t)
<1>1. ASSUME NEW t \in Tasks, CreateEndpoint(t) \/ UpdateEndpoint(t) \/ CreateIp(t) PROVE ips \subseteq ips'
  BY <1>1 DEF CreateEndpoint, UpdateEndpoint, CreateIp, InsertIp, cmdb
<1>2. ASSUME NEW t \in Tasks, DeleteEndpoints(t) PROVE ips' = ips
  BY <1>2 DEF DeleteEndpoints
<1>3. ASSUME NEW t \in Tasks, DeleteIp(t) PROVE i \in AttachedNow(t)
  BY <1>3 DEF DeleteIp
<1>4. UNCHANGED cmdb => ips' = ips
  BY DEF cmdb
<1>5. QED
  BY <1>1, <1>2, <1>3, <1>4
     DEF Next, vars, Start, Begin, Attach, SelectServer, FindAttachedIp, FindPrefix, Detach,
         ReselectAttached, ReselectName, ReselectIp, Unreachable, Refuses, AckLost, Crash

LEMMA OldOrMade ==
    ASSUME [Next]_vars, NEW e \in endpoints'
    PROVE  (\E f \in endpoints : SameEnd(e, f)) \/ \E t \in Tasks : Made(t, e)
BY EndpointMoves DEF Filled

LEMMA NamesStep ==
    ASSUME TypeOK, IdsApart, NamesApart, [Next]_vars
    PROVE  NamesApart'
<1> SUFFICES ASSUME NEW d \in endpoints', NEW e \in endpoints', d.server = e.server, d.name = e.name
             PROVE  d.id = e.id
  BY IdsStep DEF NamesApart, IdsApart
<1>1. ASSUME NEW t \in Tasks, NEW c \in endpoints', Made(t, c),
             NEW f \in endpoints, f.server = c.server
      PROVE  f.name # c.name
  BY <1>1 DEF Made, CanInsertEndpoint, EndpointsOf
<1>2. ASSUME NEW f \in endpoints, NEW g \in endpoints, SameEnd(d, f), SameEnd(e, g)
      PROVE  d.id = e.id
  BY <1>2 DEF SameEnd, NamesApart
<1>3. ASSUME NEW t \in Tasks, NEW u \in Tasks, Made(t, d), Made(u, e)
      PROVE  d.id = e.id
  BY <1>3 DEF Made
<1>4. QED
  BY <1>1, <1>2, <1>3, OldOrMade DEF SameEnd

LEMMA OneRowStep ==
    ASSUME TypeOK, OneRow, [Next]_vars
    PROVE  OneRow'
BY EndpointsStay DEF OneRow

\* What a step leaves of the progress of tasks.
LEMMA PcMoves ==
    ASSUME TypeOK, [Next]_vars, NEW u \in Tasks, pc'[u] # pc[u]
    PROVE  \/ Step(u) /\ \A t \in Tasks \ {u} : pc'[t] = pc[t]
           \/ /\ Crash /\ UNCHANGED plan /\ u \in Busy /\ pc'[u] = "queued"
              /\ \A t \in Tasks : pc'[t] # pc[t] => t \in Busy
<1>1. CASE Crash /\ UNCHANGED plan
  BY <1>1 DEF Crash
<1>2. ASSUME NEW t \in Tasks, Step(t) PROVE t = u /\ \A v \in Tasks \ {t} : pc'[v] = pc[v]
  BY <1>2, OthersStay
<1>3. CASE UNCHANGED vars
  BY <1>3 DEF vars, tasks
<1>4. QED
  BY <1>1, <1>2, <1>3, NextCases

LEMMA DeadStays ==
    ASSUME TypeOK, [Next]_vars, NEW u \in Tasks, pc[u] = "dead"
    PROVE  pc'[u] = "dead"
<1>1. ~Step(u)
  BY DEF Step, Start, Begin, Attach, SelectServer, FindAttachedIp, FindPrefix, UpdateEndpoint,
         CreateEndpoint, ReselectAttached, ReselectName, CreateIp, ReselectIp, Detach, DeleteIp,
         DeleteEndpoints, Unreachable, Busy, Ended, Refuses, AckLost
<1>2. QED
  BY <1>1, PcMoves DEF Busy, Ended

\* The sweep of a server is over with a deletion of all its empty endpoints.
LEMMA SweepEnds ==
    ASSUME TypeOK, Routed, [Next]_vars, NEW x, Sweeping(x), ~(Sweeping(x)')
    PROVE  endpoints' = endpoints \ EmptyEndpoints(x) /\ ips' = ips /\ servers' = servers
<1>1. PICK u \in Tasks : u \notin Attaches /\ Body[u].uuid = x /\ pc[u] # "acked"
  BY DEF Sweeping
<1>2. pc'[u] = "acked"
  BY <1>1 DEF Sweeping, Attaches
<1>3. Step(u)
  BY <1>1, <1>2, PcMoves
<1>4. pc[u] \in {"delete ip", "delete endpoints"} \cup Ended
  BY <1>1 DEF Routed, Attaches
<1> USE DEF TypeOK, Reply, GoTo, Ended
<1>5. ~Attach(u)
  BY <1>4 DEF Attach, SelectServer, FindAttachedIp, FindPrefix, UpdateEndpoint,
              CreateEndpoint, ReselectAttached, ReselectName, CreateIp, ReselectIp
<1>6. ~Start(u) /\ ~Refuses(u) /\ ~AckLost(u)
  BY <1>2 DEF Start, Begin, FirstCall, Refuses, Refused, AckLost
<1>7. ~Unreachable(u)
  BY <1>2, <1>4, LostStep DEF Unreachable, Again, FirstCall, Busy
<1>8. ~DeleteIp(u)
  BY <1>2, LostStep DEF DeleteIp, Again, FirstCall
<1>9. QED
  BY <1>1, <1>3, <1>5, <1>6, <1>7, <1>8 DEF Step, Detach, DeleteEndpoints

\* The server of an attach.
LEMMA ItsServer ==
    ASSUME IdsApart, OneRow, NEW t \in Tasks, OnServer(t), NEW s \in servers
    PROVE  s.id = plan[t].server <=> s.uuid = Body[t].uuid
BY DEF OnServer, ServersOf, IdsApart, OneRow

\* A step in which u makes and fills no endpoint.
Leaves(u) == UNCHANGED cmdb \/ ~(CreateEndpoint(u) \/ UpdateEndpoint(u))

\* What such a step leaves of the endpoints an attach could go on.
LEMMA OwnedBefore ==
    ASSUME TypeOK, PortsApart, StrayInv, [Next]_vars,
           NEW u \in Attaches, NEW s \in ServersOf(Body[u].uuid),
           NEW d \in Owned(u, s.id)', Leaves(u), ~(Exempt(u)')
    PROVE  \E e \in Owned(u, s.id) : d.id = e.id /\ d.name = e.name
<1> USE DEF StrayInv
<1>0. /\ u \in Tasks /\ s \in servers /\ s.uuid = Body[u].uuid
      /\ d \in endpoints' /\ d.server = s.id /\ d.mac = Body[u].mac
      /\ d.mac = None => IpsOn(d.id)' = {}
  BY DEF Owned, EndpointsOf, Attaches, ServersOf
<1>1. CASE UNCHANGED cmdb
  BY <1>0, <1>1 DEF cmdb, Owned, EndpointsOf, IpsOn
<1>2. CASE ~(CreateEndpoint(u) \/ UpdateEndpoint(u))
  <2>1. ASSUME NEW t \in Tasks, t # u, Body[t].mac = Body[u].mac, plan[t].server = s.id,
               pc[t] \in Planned
        PROVE  FALSE
    <3>1. OnServer(t) /\ t \in Attaches
      BY <2>1 DEF PlansHold, Routed, Attaches, Planned, Ended
    <3>2. Body[t].uuid = Body[u].uuid
      BY <1>0, <2>1, <3>1, ItsServer
    <3>3. QED
      BY <2>1, <3>1, <3>2 DEF PortsApart
  <2>2. ASSUME NEW t \in Tasks, Made(t, d) PROVE FALSE
    BY <1>0, <1>2, <2>1, <2>2 DEF Made, CreateEndpoint, Planned
  <2>3. ASSUME NEW t \in Tasks, Filled(t, d) PROVE FALSE
    <3>1. PICK f \in endpoints : SameEnd(d, f)
      BY <2>3 DEF Filled
    <3>2. OnServer(t)
      BY <2>3 DEF Filled, UpdateEndpoint, PlansHold, Planned
    <3>3. plan[t].server = s.id
      BY <1>0, <2>3, <3>1, <3>2 DEF SameEnd, Filled, OnServer
    <3>4. QED
      BY <1>0, <1>2, <2>1, <2>3, <3>3 DEF Filled, UpdateEndpoint, Planned
  <2>4. PICK f \in endpoints : SameEnd(d, f) /\ d.mac = f.mac
    BY <1>0, <2>2, <2>3, EndpointMoves
  <2>5. ASSUME d.mac = None, NEW i \in IpsOn(f.id) PROVE FALSE
    <3>1. i \in ips /\ i \notin ips' /\ i.endpoint = f.id
      BY <1>0, <2>4, <2>5 DEF IpsOn, SameEnd
    <3>2. PICK t \in Tasks : DeleteIp(t) /\ i \in AttachedNow(t)
      BY <3>1, IpsLeave
    <3>3. PICK e \in endpoints, r \in servers : e.id = i.endpoint /\ r.id = e.server /\ r.uuid = Body[t].uuid
      BY <3>2 DEF AttachedNow, Attached, ServersOf
    <3>4. e = f /\ r = s
      BY <1>0, <2>4, <3>1, <3>3 DEF IdsApart, SameEnd
    <3>5. t \notin Attaches
      BY <3>2 DEF DeleteIp, AttachRouted, Attaches
    <3>6. pc'[t] # "acked"
      BY <3>2, LostStep DEF DeleteIp, Reply, GoTo, TypeOK, Again, FirstCall
    <3>7. QED
      BY <1>0, <2>5, <3>3, <3>4, <3>5, <3>6 DEF Exempt, Sweeping, Attaches
  <2>6. f \in Owned(u, s.id)
    BY <1>0, <2>4, <2>5 DEF Owned, EndpointsOf, SameEnd
  <2>7. QED
    BY <2>4, <2>6 DEF SameEnd
<1>3. QED
  BY <1>1, <1>2 DEF Leaves

\* Once the sweep is over no placeholder is left.
LEMMA SweptClean ==
    ASSUME TypeOK, StrayInv, [Next]_vars,
           NEW u \in Attaches, NEW s \in ServersOf(Body[u].uuid), Exempt(u), ~(Exempt(u)')
    PROVE  Owned(u, s.id)' = {}
<1>1. /\ endpoints' = endpoints \ EmptyEndpoints(Body[u].uuid) /\ ips' = ips
      /\ Body[u].mac = None
  BY SweepEnds DEF Exempt, StrayInv
<1>2. \A e : e \in Owned(u, s.id)' => e \in EmptyEndpoints(Body[u].uuid) /\ e \in endpoints'
  BY <1>1 DEF Owned, EndpointsOf, EmptyEndpoints, IpsOn
<1>3. QED
  BY <1>1, <1>2

LEMMA AloneKept ==
    ASSUME TypeOK, PortsApart, StrayInv, [Next]_vars,
           NEW u \in Attaches, Leaves(u)
    PROVE  Alone(u)'
<1> SUFFICES ASSUME ~(Exempt(u)'), NEW s \in ServersOf(Body[u].uuid)',
                    NEW d \in Owned(u, s.id)', NEW e \in Owned(u, s.id)', Inserted(e)
             PROVE  d = e
  BY DEF Alone, Inserted
<1>1. s \in ServersOf(Body[u].uuid)
  BY EndpointsStay DEF ServersOf
<1>2. ~Exempt(u)
  BY <1>1, SweptClean
<1>3. PICK f \in Owned(u, s.id), g \in Owned(u, s.id) : d.id = f.id /\ e.id = g.id
  BY <1>1, OwnedBefore
<1>4. Inserted(g)
  BY <1>3 DEF Inserted
<1>5. f = g
  BY <1>1, <1>2, <1>3, <1>4 DEF StrayInv, Alone
<1>6. d \in endpoints' /\ e \in endpoints' /\ IdsApart'
  BY IdsStep DEF Owned, EndpointsOf, StrayInv
<1>7. QED
  BY <1>3, <1>5, <1>6 DEF IdsApart

\* The part of Aims that speaks of endpoints.
OnTarget(t) ==
    Exempt(t) \/ \A e \in Owned(t, plan[t].server) :
        plan[t].fill \/ plan[t].endpoint = NoRow \/ Inserted(e) => Target(t, e)

\* A plan that is carried on, towards endpoints neither made nor filled by it.
LEMMA TargetKept ==
    ASSUME TypeOK, PortsApart, StrayInv, [Next]_vars, NEW t \in Attaches, pc[t] \in Planned,
           Leaves(t),
           plan'[t].server = plan[t].server, plan'[t].endpoint = plan[t].endpoint,
           plan'[t].fill = plan[t].fill, plan'[t].name = plan[t].name,
           pc[t] \in {"reselect endpoint", "reselect name"}
               => pc'[t] \in {"reselect endpoint", "reselect name"}
    PROVE  OnTarget(t)'
<1> SUFFICES ASSUME ~(Exempt(t)'), NEW d \in Owned(t, plan[t].server)',
                    plan[t].fill \/ plan[t].endpoint = NoRow \/ Inserted(d)
             PROVE  Target(t, d)'
  BY DEF OnTarget, Owned, EndpointsOf, Inserted
<1>1. OnServer(t) /\ Aims(t)
  BY DEF StrayInv, PlansHold, Attaches
<1>2. PICK s \in ServersOf(Body[t].uuid) : s.id = plan[t].server
  BY <1>1 DEF OnServer
<1>3. d \in Owned(t, s.id)'
  BY <1>2 DEF Owned, EndpointsOf
<1>4. ~Exempt(t)
  BY <1>3, SweptClean
<1>5. PICK e \in Owned(t, s.id) : d.id = e.id /\ d.name = e.name
  BY <1>3, OwnedBefore
<1>6. Inserted(d) => Inserted(e)
  BY <1>5 DEF Inserted
<1>7. Target(t, e)
  BY <1>1, <1>2, <1>4, <1>5, <1>6 DEF Aims
<1>8. QED
  BY <1>5, <1>7 DEF Target

LEMMA AimsKept ==
    ASSUME TypeOK, PortsApart, StrayInv, [Next]_vars, NEW t \in Attaches, ~Step(t),
           pc'[t] \in Planned
    PROVE  Aims(t)'
<1>1. pc'[t] = pc[t]
  BY PcMoves DEF Planned, Attaches
<1>2. plan'[t] = plan[t]
  <2>1. ASSUME NEW u \in Tasks, Step(u) PROVE plan'[t] = plan[t]
    BY <2>1, PlanStep DEF StrayInv, Attaches
  <2>2. UNCHANGED vars => plan'[t] = plan[t]
    BY DEF vars
  <2>3. QED
    BY <2>1, <2>2, NextCases
<1>3. Leaves(t)
  BY DEF Step, Attach, Leaves
<1>4. Aims(t)
  BY <1>1 DEF StrayInv
<1>5. OnTarget(t)'
  BY <1>1, <1>2, <1>3, TargetKept
<1>6. QED
  BY <1>1, <1>2, <1>4, <1>5 DEF Aims, OnTarget

LEMMA GivenIds ==
    ASSUME TypeOK, NEW e \in endpoints
    PROVE  e.id # NoRow
BY DEF TypeOK, NoRow

\* The plan made from a server aims at what was made for the port.
LEMMA AimsMade ==
    ASSUME TypeOK, PortsApart, StrayInv, [Next]_vars, NEW t \in Attaches, SelectServer(t),
           pc'[t] = "find ip"
    PROVE  Aims(t)'
<1>1. PICK s \in ServersOf(Body[t].uuid) : Plan(t, s.id)
  BY DEF SelectServer, Reply, GoTo, TypeOK, Attaches
<1> DEFINE mac == Body[t].mac
           cards == EndpointsOf(s.id)
           fill == mac # None /\ \A c \in cards : c.mac # mac
<1>2. PICK e, n, u :
          /\ e \in (IF Usable(mac, cards) # {} THEN {d.id : d \in Usable(mac, cards)} ELSE {NoRow})
          /\ plan' = [plan EXCEPT ![t] = [server |-> s.id, endpoint |-> e, fill |-> fill,
                                          name |-> n, used |-> u, prefix |-> None]]
  <2>1. PICK e \in IF Usable(mac, cards) # {} THEN {d.id : d \in Usable(mac, cards)} ELSE {NoRow} :
          plan' = [plan EXCEPT ![t] =
              [server |-> s.id, endpoint |-> e, fill |-> fill,
               name |-> next_bond_name({c.name : c \in cards}),
               used |-> {i.type : i \in {j \in ips : \E c \in cards : j.endpoint = c.id}},
               prefix |-> None]]
    BY <1>1, Zenon DEF Plan
  <2>2. QED
    BY <2>1
<1>3. plan'[t].server = s.id /\ plan'[t].endpoint = e /\ plan'[t].fill = fill
  <2> PICK f : f = fill
    OBVIOUS
  <2> HIDE DEF fill
  <2>1. plan' = [plan EXCEPT ![t] = [server |-> s.id, endpoint |-> e, fill |-> f,
                                     name |-> n, used |-> u, prefix |-> None]]
    BY <1>2
  <2>2. QED
    BY <2>1, NewPlan DEF StrayInv, Attaches
<1>4. UNCHANGED cmdb /\ UNCHANGED servers /\ UNCHANGED endpoints /\ UNCHANGED ips
  BY DEF SelectServer, cmdb
<1>5. Owned(t, s.id) = IF mac # None THEN {c \in cards : c.mac = mac}
                       ELSE {c \in cards : c.mac = None /\ IpsOn(c.id) = {}}
  BY DEF Owned
<1>6. CASE Owned(t, s.id) = {}
  <2>1. Owned(t, plan[t].server)' = {}
    BY <1>3, <1>4, <1>6 DEF Owned, EndpointsOf, IpsOn
  <2>2. plan'[t].fill => mac # None
    BY <1>2, <1>3
  <2>3. QED
    BY <2>1, <2>2 DEF Aims
<1>7. CASE Owned(t, s.id) # {}
  <2>1. Usable(mac, cards) = Owned(t, s.id)
    BY <1>5, <1>7 DEF Usable
  <2>2. PICK d \in Owned(t, s.id) : e = d.id
    BY <1>2, <1>7, <2>1
  <2>3. ~fill
    BY <1>2, <1>5, <1>7
  <2>4. d.id # NoRow
    BY GivenIds DEF Owned, EndpointsOf
  <2>5. Exempt(t) => Exempt(t)'
    <3>1. \A v \in Tasks \ Attaches : pc'[v] = pc[v]
      BY DEF SelectServer, Reply, GoTo, TypeOK, Attaches
    <3>2. QED
      BY <3>1 DEF Exempt, Sweeping
  <2>6. ASSUME ~(Exempt(t)'), NEW c \in Owned(t, plan[t].server)', Inserted(c) PROVE Target(t, c)'
    <3>1. c \in Owned(t, s.id)
      BY <1>3, <1>4, <2>6 DEF Owned, EndpointsOf, IpsOn
    <3>2. c = d
      BY <2>5, <2>6, <3>1 DEF StrayInv, Alone
    <3>3. QED
      BY <1>3, <2>2, <3>2 DEF Target
  <2>7. QED
    BY <1>3, <2>2, <2>3, <2>4, <2>6 DEF Aims, Inserted
<1>8. QED
  BY <1>6, <1>7

\* An endpoint is filled that becomes the only one for the port.
LEMMA FillOne ==
    ASSUME TypeOK, StrayInv, NEW t \in Attaches, UpdateEndpoint(t), plan[t].fill,
           NEW x, x = plan[t].server, NEW d \in Owned(t, x)'
    PROVE  d.id = plan[t].endpoint
<1>1. /\ pc[t] = "update endpoint" /\ SetMac(plan[t].endpoint, Body[t].mac)
  BY DEF UpdateEndpoint
<1>2. Aims(t) /\ Body[t].mac # None
  BY <1>1 DEF StrayInv, Planned, Aims
<1>3. d \in endpoints' /\ d.server = x /\ d.mac = Body[t].mac
  BY DEF Owned, EndpointsOf
<1>4. PICK f \in endpoints : /\ SameEnd(d, f)
                             /\ d.mac = IF f.id = plan[t].endpoint THEN Body[t].mac ELSE f.mac
  <2>1. d \in endpoints' /\ SetMac(plan[t].endpoint, Body[t].mac)
    BY <1>1, <1>3
  <2>2. QED
    BY <2>1, SetEndpoints
<1>5. ASSUME f.id # plan[t].endpoint PROVE FALSE
  <2>1. f \in Owned(t, plan[t].server)
    BY <1>2, <1>3, <1>4, <1>5 DEF Owned, EndpointsOf, SameEnd
  <2>2. Target(t, f)
    BY <1>2, <2>1 DEF Aims, Exempt
  <2>3. QED
    BY <1>1, <1>5, <2>2 DEF Target
<1>6. QED
  BY <1>4, <1>5 DEF SameEnd

\* An endpoint is inserted where there is none for the port.
LEMMA MakeOne ==
    ASSUME TypeOK, StrayInv, NEW t \in Attaches, CreateEndpoint(t),
           InsertEndpoint(plan[t].server, plan[t].name, Body[t].mac), ips' = ips, ~Exempt(t),
           NEW x, x = plan[t].server, NEW d \in Owned(t, x)'
    PROVE  d.id = serial /\ d.name = plan[t].name
<1>1. pc[t] = "insert endpoint"
  BY DEF CreateEndpoint
<1>2. Aims(t) /\ plan[t].endpoint = NoRow
  BY <1>1 DEF StrayInv, Planned, Aims
<1>3. PICK new : /\ new.id = serial /\ new.server = plan[t].server /\ new.name = plan[t].name
                 /\ new.mac = Body[t].mac /\ endpoints' = endpoints \cup {new}
  BY MadeEndpoint
<1>4. ASSUME d \in endpoints PROVE FALSE
  <2>1. d \in Owned(t, x)
    BY <1>4 DEF Owned, EndpointsOf, IpsOn
  <2>2. Target(t, d)
    BY <1>2, <2>1 DEF Aims
  <2>3. QED
    BY <1>1, <1>2, <1>4, <2>2, GivenIds DEF Target
<1>5. d \in endpoints'
  BY DEF Owned, EndpointsOf
<1>6. QED
  BY <1>3, <1>4, <1>5

\* Whether others sweep does not change while an attach moves.
LEMMA SweepsOn ==
    ASSUME TypeOK, NEW t \in Attaches, Step(t), NEW x
    PROVE  Sweeping(x)' <=> Sweeping(x)
<1>1. \A u \in Tasks \ Attaches : pc'[u] = pc[u]
  BY OthersStay DEF Attaches
<1>2. QED
  BY <1>1 DEF Sweeping, Attaches

LEMMA AloneStep ==
    ASSUME TypeOK, PortsApart, StrayInv, [Next]_vars, NEW u \in Attaches
    PROVE  Alone(u)'
<1>1. CASE Leaves(u)
  BY <1>1, AloneKept
<1>2. CASE ~Leaves(u)
  <2> SUFFICES ASSUME ~(Exempt(u)'), NEW s \in ServersOf(Body[u].uuid)',
                      NEW d \in Owned(u, s.id)', NEW e \in Owned(u, s.id)', Inserted(e)
               PROVE  d = e
    BY DEF Alone, Inserted
  <2>1. ~UNCHANGED cmdb /\ (CreateEndpoint(u) \/ UpdateEndpoint(u))
    BY <1>2 DEF Leaves
  <2>2. pc[u] \in Planned /\ Step(u) /\ OnServer(u)
    BY <2>1 DEF CreateEndpoint, UpdateEndpoint, Planned, Step, Attach, StrayInv, PlansHold, Attaches
  <2>3. s \in servers /\ s.uuid = Body[u].uuid
    BY EndpointsStay DEF ServersOf
  <2>4. s.id = plan[u].server
    BY <2>2, <2>3, ItsServer DEF StrayInv, Attaches
  <2>5. ~Exempt(u)
    BY <2>2, SweepsOn DEF Exempt
  <2>6. CASE CreateEndpoint(u)
    <3>1. InsertEndpoint(plan[u].server, plan[u].name, Body[u].mac) /\ ips' = ips
      BY <2>1, <2>6 DEF CreateEndpoint
    <3>2. d.id = serial /\ e.id = serial
      BY <2>4, <2>5, <2>6, <3>1, MakeOne
    <3>3. QED
      BY <3>2, IdsStep DEF IdsApart, StrayInv, Owned, EndpointsOf
  <2>7. CASE UpdateEndpoint(u)
    <3>1. plan[u].fill
      BY <2>1, <2>7 DEF UpdateEndpoint, cmdb
    <3>2. d.id = plan[u].endpoint /\ e.id = plan[u].endpoint
      BY <2>4, <2>7, <3>1, FillOne
    <3>3. QED
      BY <3>2, IdsStep DEF IdsApart, StrayInv, Owned, EndpointsOf
  <2>8. QED
    BY <2>1, <2>6, <2>7
<1>3. QED
  BY <1>1, <1>2

\* An attach's own step leaves it aiming at what was made for its port.
LEMMA OwnAims ==
    ASSUME TypeOK, PortsApart, StrayInv, [Next]_vars, NEW t \in Attaches, Step(t),
           pc'[t] \in Planned
    PROVE  Aims(t)'
<1>0. /\ PlansOK /\ t \in Tasks /\ Body[t].kind = "attach"
      /\ Exempt(t)' <=> Exempt(t)
      /\ pc[t] \in Planned => Aims(t) /\ OnServer(t)
  BY SweepsOn DEF StrayInv, Attaches, Exempt, PlansHold
<1>1. ASSUME pc[t] \in Planned, Leaves(t),
             plan'[t].server = plan[t].server, plan'[t].endpoint = plan[t].endpoint,
             plan'[t].fill = plan[t].fill, plan'[t].name = plan[t].name,
             pc[t] \in {"reselect endpoint", "reselect name"}
                 => pc'[t] \in {"reselect endpoint", "reselect name"},
             pc'[t] \in {"insert endpoint", "reselect endpoint", "reselect name"}
                 => plan[t].endpoint = NoRow,
             pc'[t] = "update endpoint" => plan[t].endpoint # NoRow
      PROVE  Aims(t)'
  <2>1. OnTarget(t)'
    BY <1>1, TargetKept
  <2>2. plan[t].fill => Body[t].mac # None
    BY <1>0, <1>1 DEF Aims
  <2>3. QED
    BY <1>1, <2>1, <2>2 DEF Aims, OnTarget
<1> USE DEF Reply, GoTo
<1>2. CASE Start(t)
  BY <1>2 DEF Start, Begin, FirstCall, Planned, TypeOK, Attaches
<1>3. CASE SelectServer(t)
  <2>1. pc'[t] = "find ip"
    BY <1>3 DEF SelectServer, Planned, TypeOK, Attaches
  <2>2. QED
    BY <1>3, <2>1, AimsMade
<1>4. CASE FindAttachedIp(t)
  <2>1. pc[t] = "find ip" /\ pc'[t] = "find prefix" /\ UNCHANGED plan /\ UNCHANGED cmdb
    BY <1>4 DEF FindAttachedIp, Planned, TypeOK, Attaches
  <2>2. QED
    BY <1>1, <2>1 DEF Planned, Leaves
<1>5. CASE FindPrefix(t)
  <2>1. /\ pc[t] = "find prefix" /\ UNCHANGED cmdb
        /\ pc'[t] \in {"insert endpoint", "update endpoint", "insert ip"}
        /\ pc'[t] = "insert endpoint" => plan[t].endpoint = NoRow
        /\ pc'[t] = "update endpoint" => plan[t].endpoint # NoRow
    BY <1>0, <1>5 DEF FindPrefix, TypeOK
  <2>2. /\ plan'[t].server = plan[t].server /\ plan'[t].endpoint = plan[t].endpoint
        /\ plan'[t].fill = plan[t].fill /\ plan'[t].name = plan[t].name
    <3>1. CASE UNCHANGED plan
      BY <3>1
    <3>2. CASE plan' = [plan EXCEPT ![t].prefix = PrefixOf[Body[t].ip]]
      BY <1>0, <3>2, PlanFields
    <3>3. QED
      BY <1>5, <3>1, <3>2 DEF FindPrefix
  <2>3. QED
    BY <1>1, <2>1, <2>2 DEF Planned, Leaves
<1>6. CASE UpdateEndpoint(t)
  <2>1. /\ pc[t] = "update endpoint" /\ pc'[t] \in {"insert ip", "update endpoint"}
        /\ UNCHANGED plan
    BY <1>0, <1>6, LostStep DEF UpdateEndpoint, NoReply, Again, FirstCall, Planned, TypeOK
  <2>2. plan[t].endpoint # NoRow
    BY <1>0, <2>1 DEF Planned, Aims
  <2>3. CASE plan[t].fill
    <3>1. \A d \in Owned(t, plan[t].server)' : d.id = plan[t].endpoint
      <4>1. PICK x : x = plan[t].server
        OBVIOUS
      <4>2. \A d \in Owned(t, x)' : d.id = plan[t].endpoint
        BY <1>6, <2>3, <4>1, FillOne
      <4>3. QED
        BY <2>1, <4>1, <4>2
    <3>2. plan[t].fill => Body[t].mac # None
      BY <1>0, <2>1 DEF Planned, Aims
    <3>3. QED
      BY <2>1, <2>2, <3>1, <3>2 DEF Aims, Target
  <2>4. CASE ~plan[t].fill
    <3>1. UNCHANGED cmdb
      BY <1>6, <2>4 DEF UpdateEndpoint, cmdb
    <3>2. QED
      BY <1>1, <2>1, <2>2, <3>1 DEF Planned, Leaves
  <2>5. QED
    BY <2>3, <2>4
<1>7. CASE CreateEndpoint(t)
  <2>1. pc[t] = "insert endpoint" /\ plan[t].endpoint = NoRow /\ Aims(t)
    BY <1>0, <1>7 DEF CreateEndpoint, Planned, Aims
  <2>2. /\ InsertEndpoint(plan[t].server, plan[t].name, Body[t].mac) /\ ips' = ips
        /\ \/ pc'[t] = "insert ip" /\ plan' = [plan EXCEPT ![t].endpoint = serial]
           \/ pc'[t] = "reselect endpoint" /\ UNCHANGED plan
    BY <1>0, <1>7, LostStep DEF CreateEndpoint, NoReply, Again, FirstCall, Refused, Planned, TypeOK
  <2>3. /\ plan'[t].server = plan[t].server /\ plan'[t].fill = plan[t].fill
        /\ plan'[t].name = plan[t].name
        /\ \/ pc'[t] = "insert ip" /\ plan'[t].endpoint = serial
           \/ pc'[t] = "reselect endpoint" /\ plan'[t].endpoint = NoRow
    <3>1. CASE pc'[t] = "reselect endpoint" /\ UNCHANGED plan
      BY <2>1, <3>1
    <3>2. CASE pc'[t] = "insert ip" /\ plan' = [plan EXCEPT ![t].endpoint = serial]
      BY <1>0, <3>2, PlanFields
    <3>3. QED
      BY <2>2, <3>1, <3>2
  <2>4. ASSUME ~Exempt(t), NEW d \in Owned(t, plan[t].server)' PROVE Target(t, d)'
    <3>1. PICK x : x = plan[t].server
      OBVIOUS
    <3>2. d \in Owned(t, x)'
      BY <2>3, <2>4, <3>1
    <3>3. d.id = serial /\ d.name = plan[t].name
      BY <1>7, <2>2, <2>4, <3>1, <3>2, MakeOne
    <3>4. QED
      BY <2>3, <3>3 DEF Target
  <2>5. QED
    BY <1>0, <2>1, <2>3, <2>4 DEF Aims
<1>8. CASE ReselectAttached(t)
  <2>1. pc[t] = "reselect endpoint" /\ pc'[t] = "reselect name" /\ UNCHANGED plan /\ UNCHANGED cmdb
    BY <1>8 DEF ReselectAttached, Planned, TypeOK, Attaches
  <2>2. plan[t].endpoint = NoRow
    BY <1>0, <2>1 DEF Planned, Aims
  <2>3. QED
    BY <1>1, <2>1, <2>2 DEF Planned, Leaves
<1>9. CASE ReselectName(t)
  <2> DEFINE named == {e \in EndpointsOf(plan[t].server) : e.name = plan[t].name}
  <2>1. pc[t] = "reselect name" /\ UNCHANGED cmdb
    BY <1>9 DEF ReselectName
  <2>2. Aims(t) /\ plan[t].endpoint = NoRow
    BY <1>0, <2>1 DEF Planned, Aims
  <2>3. ASSUME ~Exempt(t), plan'[t].server = plan[t].server, NEW d \in Owned(t, plan[t].server)'
        PROVE  d \in named
    <3>1. d \in Owned(t, plan[t].server) /\ d \in EndpointsOf(plan[t].server)
      BY <2>1, <2>3 DEF Owned, EndpointsOf, IpsOn, cmdb
    <3>2. Target(t, d)
      BY <2>2, <2>3, <3>1 DEF Aims
    <3>3. d.id # NoRow
      BY <3>1, GivenIds DEF EndpointsOf
    <3>4. QED
      BY <2>2, <3>1, <3>2, <3>3 DEF Target
  <2>4. CASE named = {} /\ pc'[t] = "insert endpoint" /\ UNCHANGED plan
    <3>1. Exempt(t) \/ Owned(t, plan[t].server)' = {}
      BY <2>3, <2>4
    <3>2. QED
      BY <1>0, <2>2, <2>4, <3>1 DEF Aims
  <2>5. ASSUME NEW e \in named, pc'[t] = "insert ip", plan' = [plan EXCEPT ![t].endpoint = e.id]
        PROVE  Aims(t)'
    <3>1. /\ plan'[t].server = plan[t].server /\ plan'[t].fill = plan[t].fill
          /\ plan'[t].endpoint = e.id
      BY <1>0, <2>5, PlanFields
    <3>2. \A d \in named : d = e
      BY DEF StrayInv, NamesApart, EndpointsOf
    <3>3. ~Exempt(t) => \A d \in Owned(t, plan[t].server)' : Target(t, d)'
      BY <2>3, <3>1, <3>2 DEF Target
    <3>4. QED
      BY <1>0, <2>2, <2>5, <3>1, <3>3 DEF Aims
  <2>6. QED
    BY <1>0, <1>9, <2>4, <2>5 DEF ReselectName, TypeOK
<1>10. CASE CreateIp(t)
  <2>1. pc[t] = "insert ip" /\ pc'[t] = "reselect ip" /\ UNCHANGED plan
    BY <1>0, <1>10, LostStep DEF CreateIp, NoReply, Again, FirstCall, Refused, Planned, TypeOK
  <2>2. QED
    BY <1>1, <2>1 DEF Planned, Leaves, CreateEndpoint, UpdateEndpoint
<1>11. CASE ReselectIp(t)
  <2>1. pc[t] = "reselect ip" /\ pc'[t] = "insert ip" /\ UNCHANGED plan /\ UNCHANGED cmdb
    BY <1>11 DEF ReselectIp, Planned, TypeOK, Attaches
  <2>2. QED
    BY <1>1, <2>1 DEF Planned, Leaves
<1>12. CASE Detach(t)
  BY <1>0, <1>12 DEF Detach, DeleteIp, DeleteEndpoints, StrayInv, AttachRouted
<1>13. CASE Unreachable(t)
  <2>1. pc'[t] = Again(pc[t]) /\ pc[t] \in Planned /\ UNCHANGED plan /\ UNCHANGED cmdb
    BY <1>0, <1>13, LostStep DEF Unreachable, NoReply, Again, FirstCall, Planned
  <2>2. Aims(t)
    BY <1>0, <2>1
  <2>3. QED
    BY <1>1, <2>1, <2>2 DEF Aims, Planned, Leaves, Again
<1>14. CASE Refuses(t) \/ AckLost(t)
  BY <1>0, <1>14 DEF Refuses, Refused, AckLost, Planned, TypeOK
<1>15. QED
  BY <1>2, <1>3, <1>4, <1>5, <1>6, <1>7, <1>8, <1>9, <1>10, <1>11, <1>12, <1>13, <1>14
     DEF Step, Attach

LEMMA LooksStep ==
    ASSUME TypeOK, ~LookupErrors, OneTaskPerAddress, Routed, LooksFirst, [Next]_vars
    PROVE  LooksFirst'
<1> SUFFICES ASSUME NEW u \in Tasks, Body[u].kind = "attach", pc'[u] \in Absent
             PROVE  AttachedNow(u)' = {}
  BY DEF LooksFirst
<1>1. QED
  BY StillAbsent, OthersAttachElsewhere

\* An attach whose address is not there is not done until it inserts it.
LEMMA NotDone ==
    ASSUME TypeOK, OneTaskPerAddress, Routed, AttachRouted, [Next]_vars, NEW u \in Attaches,
           AttachedNow(u) = {}, ServersOf(Body[u].uuid) # {}, pc[u] # "acked", ~CreateIp(u)
    PROVE  AttachedNow(u)' = {} /\ pc'[u] # "acked"
<1>0. u \in Tasks /\ Body[u].kind = "attach"
  BY DEF Attaches
<1>1. AttachedNow(u)' = {}
  BY <1>0, OthersAttachElsewhere
<1>2. ASSUME pc'[u] = "acked" PROVE FALSE
  <2>1. Step(u)
    BY <1>0, <1>2, PcMoves
  <2> USE DEF TypeOK, Reply, GoTo
  <2>2. ~SelectServer(u) /\ ~FindAttachedIp(u) /\ ~FindPrefix(u) /\ ~ReselectAttached(u)
        /\ ~ReselectName(u) /\ ~ReselectIp(u)
    BY <1>0, <1>2 DEF SelectServer, FindAttachedIp, FindPrefix, ReselectAttached, ReselectName,
                      ReselectIp
  <2>3. ~UpdateEndpoint(u) /\ ~CreateEndpoint(u)
    BY <1>0, <1>2, LostStep DEF UpdateEndpoint, CreateEndpoint, Again, FirstCall, Refused
  <2>4. ~Detach(u)
    BY <1>0 DEF Detach, DeleteIp, DeleteEndpoints, AttachRouted
  <2>5. ~Unreachable(u)
    BY <1>0, <1>2, LostStep DEF Unreachable, Again, FirstCall, Busy, Ended
  <2>6. ~Start(u) /\ ~Refuses(u) /\ ~AckLost(u)
    BY <1>0, <1>2 DEF Start, Begin, FirstCall, Refuses, Refused, AckLost
  <2>7. QED
    BY <2>1, <2>2, <2>3, <2>4, <2>5, <2>6 DEF Step, Attach
<1>3. QED
  BY <1>1, <1>2

\* An attach that makes or fills an endpoint covers it.
LEMMA CoveredByMaker ==
    ASSUME TypeOK, ~LookupErrors, OneTaskPerAddress, StrayInv, [Next]_vars,
           NEW t \in Tasks, NEW e \in endpoints', Made(t, e) \/ Filled(t, e)
    PROVE  Covered(e)'
<1>1. /\ t \in Attaches /\ pc[t] \in {"insert endpoint", "update endpoint"}
      /\ Body[t].mac = e.mac /\ ~CreateIp(t)
  BY DEF Made, Filled, CreateEndpoint, UpdateEndpoint, CreateIp, Attaches, StrayInv, Routed, Ended
<1>2. OnServer(t) /\ AttachedNow(t) = {}
  BY <1>1 DEF StrayInv, PlansHold, Planned, LooksFirst, Absent, Attaches
<1>3. PICK s \in servers : s.uuid = Body[t].uuid /\ s.id = plan[t].server
  BY <1>2 DEF OnServer, ServersOf
<1>4. s.id = e.server
  BY <1>2, <1>3 DEF Made, Filled, SameEnd, OnServer
<1>5. AttachedNow(t)' = {} /\ pc'[t] # "acked"
  BY <1>1, <1>2, <1>3, NotDone DEF StrayInv, ServersOf
<1>6. QED
  BY <1>1, <1>3, <1>4, <1>5, EndpointsStay DEF Covered

LEMMA CoveredStep ==
    ASSUME TypeOK, ~LookupErrors, OneTaskPerAddress, PortsApart, StrayInv, [Next]_vars,
           NEW d \in endpoints', Inserted(d), IpsOn(d.id)' = {}
    PROVE  Covered(d)'
<1> USE DEF StrayInv
<1>1. CASE \E t \in Tasks : Made(t, d) \/ Filled(t, d)
  BY <1>1, CoveredByMaker
<1>2. CASE ~\E t \in Tasks : Made(t, d) \/ Filled(t, d)
  <2>1. PICK e \in endpoints : SameEnd(d, e) /\ d.mac = e.mac
    BY <1>2, EndpointMoves
  <2>2. servers' = servers
    BY EndpointsStay
  <2>3. CASE IpsOn(e.id) # {}
    <3>1. PICK i \in ips : i.endpoint = e.id /\ i \notin ips'
      BY <2>1, <2>3 DEF IpsOn, SameEnd
    <3>2. PICK t \in Tasks : DeleteIp(t) /\ i \in AttachedNow(t)
      BY <3>1, IpsLeave
    <3>3. PICK c \in endpoints, s \in servers : c.id = i.endpoint /\ s.id = c.server /\ s.uuid = Body[t].uuid
      BY <3>2 DEF AttachedNow, Attached, ServersOf
    <3>4. s.id = d.server
      BY <2>1, <3>1, <3>3 DEF IdsApart, SameEnd
    <3>5. t \notin Attaches /\ pc'[t] # "acked"
      BY <3>2, LostStep DEF DeleteIp, Reply, GoTo, TypeOK, Again, FirstCall, AttachRouted, Attaches
    <3>6. QED
      BY <2>2, <3>3, <3>4, <3>5 DEF Covered, Sweeping, Attaches
  <2>4. CASE IpsOn(e.id) = {}
    <3>1. Covered(e)
      BY <2>1, <2>4 DEF SameEnd, Inserted
    <3>2. CASE \E t \in Tasks : pc[t] = "dead"
      BY <3>2, DeadStays DEF Covered
    <3>3. ASSUME NEW s \in servers, s.id = e.server, Sweeping(s.uuid) PROVE Covered(d)'
      <4>1. CASE Sweeping(s.uuid)'
        BY <2>1, <2>2, <3>3, <4>1 DEF Covered, SameEnd
      <4>2. CASE ~(Sweeping(s.uuid)')
        <5>1. PICK x : x = s.uuid
          OBVIOUS
        <5>2. endpoints' = endpoints \ EmptyEndpoints(x) /\ ips' = ips
          BY <3>3, <4>2, <5>1, SweepEnds
        <5>3. d \in EmptyEndpoints(x)
          BY <2>1, <2>4, <3>3, <5>1, <5>2 DEF EmptyEndpoints, SameEnd, IpsOn, ServersOf
        <5>4. QED
          BY <5>2, <5>3
      <4>3. QED
        BY <4>1, <4>2
    <3>4. ASSUME NEW s \in servers, s.id = e.server, NEW u \in Attaches, Body[u].uuid = s.uuid,
                 Body[u].mac = e.mac, pc[u] # "acked", AttachedNow(u) = {}
          PROVE  Covered(d)'
      <4>1. CASE ~CreateIp(u)
        <5>1. AttachedNow(u)' = {} /\ pc'[u] # "acked"
          BY <3>4, <4>1, NotDone DEF ServersOf
        <5>2. QED
          BY <2>1, <2>2, <3>4, <5>1 DEF Covered, SameEnd
      <4>2. CASE CreateIp(u)
        <5>1. pc[u] = "insert ip" /\ OnServer(u) /\ Aims(u) /\ u \in Tasks
          BY <4>2 DEF CreateIp, PlansHold, Planned, Attaches
        <5>2. CASE Refused(u)
          BY <5>1, <5>2 DEF Refused, GoTo, TypeOK, Covered
        <5>3. CASE \E i : i.endpoint = plan[u].endpoint /\ i \in ips'
          <6>1. d.id # plan[u].endpoint
            BY <5>3 DEF IpsOn
          <6>2. e \in Owned(u, plan[u].server)
            BY <2>4, <3>4, <5>1, ItsServer DEF Owned, EndpointsOf
          <6>3. Inserted(e) /\ ~Target(u, e)
            BY <2>1, <5>1, <6>1 DEF Target, SameEnd, Inserted
          <6>4. Exempt(u)
            BY <5>1, <6>2, <6>3 DEF Aims
          <6>5. QED
            BY <3>3, <3>4, <6>4 DEF Exempt
        <5>4. QED
          BY <4>2, <5>1, <5>2, <5>3, CreateIpRow
      <4>3. QED
        BY <4>1, <4>2
    <3>5. QED
      BY <3>1, <3>2, <3>3, <3>4 DEF Covered
  <2>5. QED
    BY <2>3, <2>4
<1>3. QED
  BY <1>1, <1>2

LEMMA StrayInvStep ==
    ASSUME TypeOK, ~LookupErrors, OneTaskPerAddress, PortsApart, StrayInv, [Next]_vars
    PROVE  StrayInv'
<1>1. /\ PlansOK' /\ PlansHold' /\ IdsApart' /\ Routed' /\ AttachRouted'
      /\ LooksFirst' /\ OneRow' /\ NamesApart'
  BY PlansHoldStep, IdsStep, RoutedStep, AttachRoutedStep, LooksStep, OneRowStep, NamesStep
     DEF StrayInv
<1>2. \A t \in Attaches : pc'[t] \in Planned => Aims(t)'
  BY OwnAims, AimsKept
<1>3. \A t \in Attaches : Alone(t)'
  BY AloneStep
<1>4. \A e \in endpoints' : Inserted(e) /\ IpsOn(e.id)' = {} => Covered(e)'
  BY CoveredStep
<1>5. QED
  BY <1>1, <1>2, <1>3, <1>4 DEF StrayInv, Inserted, Attaches

LEMMA StrayInvInit == UuidsApart /\ Init => StrayInv
<1> SUFFICES ASSUME UuidsApart, Init PROVE StrayInv
  OBVIOUS
<1>1. PICK n \in Networks : /\ servers = n.servers /\ endpoints = n.endpoints
                            /\ ips = n.ips /\ serial = n.serial
  BY DEF Init
<1>2. \A e \in endpoints : ~Inserted(e)
  <2> SUFFICES ASSUME NEW e \in endpoints, e.id >= n.serial PROVE FALSE
    BY <1>1 DEF Inserted
  <2>1. n.serial \in Nat /\ e.id \in 1 .. n.serial - 1
    BY <1>1, AttachDetachAssumption
  <2>2. QED
    BY <2>1
<1>3. OneRow /\ NamesApart /\ IdsApart
  BY <1>1, AttachDetachAssumption DEF UuidsApart, OneRow, NamesApart, IdsApart
<1>4. PlansOK /\ PlansHold /\ Routed /\ AttachRouted /\ LooksFirst
  BY DEF Init, NoPlan, PlansOK, IsPlan, PlansHold, Planned, Routed, AttachRouted, LooksFirst,
         Absent, Ended
<1>5. \A t \in Attaches : pc[t] \notin Planned /\ Alone(t)
  BY <1>2 DEF Init, Attaches, Planned, Alone, Owned, EndpointsOf
<1>6. QED
  BY <1>2, <1>3, <1>4, <1>5 DEF StrayInv

(* No endpoint inserted for a port is left without an address once every   *)
(* message is acknowledged: for any number of messages, faults, crashes    *)
(* and redeliveries and any prefetch, as long as the CMDB answers lookups, *)
(* a uuid has one server, no two attaches have one address, and those to   *)
(* one server differ in their macs.                                        *)
THEOREM NothingLeftOver ==
    ASSUME ~LookupErrors, OneTaskPerAddress, PortsApart, UuidsApart
    PROVE  Spec => []NoStrayEndpoint
<1>1. TypeOK /\ StrayInv /\ [Next]_vars => StrayInv'
  BY StrayInvStep
<1>2. Init => StrayInv
  BY StrayInvInit
<1>3. StrayInv => NoStrayEndpoint
  BY DEF StrayInv, NoStrayEndpoint, Covered, Sweeping, Attaches
<1>4. QED
  BY TypeInductive, <1>1, <1>2, <1>3, PTL DEF Spec
=============================================================================
