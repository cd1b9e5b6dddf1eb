---------------------------- MODULE AttachDetach ----------------------------
(***************************************************************************)
(* attach_to_instances and detach_from_instances, run by concurrent tasks  *)
(* on the servers' network endpoints and addresses.  A step is one CMDB    *)
(* call with the code up to the next.  What attach concludes from its      *)
(* first select (the endpoint to use or the name of a new one, the types   *)
(* taken) it concludes there, and may find stale when it comes to write.   *)
(***************************************************************************)
EXTENDS HandlerTasks, HandlerUtils

CONSTANTS PrefixOf,       \* the prefix each address lies in, by its type, or None
          Networks,       \* the tables the handlers may find at the start
          LookupErrors    \* whether the CMDB may refuse a lookup

\* A row has an id of its own below the next one to be given, an endpoint a
\* name of its own on its server, an ip an endpoint's id.
ASSUME AttachDetachAssumption ==
    /\ LookupErrors \in BOOLEAN
    /\ \A n \in Networks :
          /\ n.serial \in Nat \ {0}
          /\ \A r, s \in n.servers : r.id = s.id => r = s
          /\ \A d, e \in n.endpoints :
                d.id = e.id \/ (d.server = e.server /\ d.name = e.name) => d = e
          /\ \A e \in n.endpoints : e.id \in 1 .. n.serial - 1
          /\ \A i \in n.ips : i.id \in 1 .. n.serial - 1 /\ i.endpoint \in 1 .. n.serial - 1

VARIABLE plan    \* what each attach carries from call to call

vars == <<cmdb, tasks, plan>>

\* server: id of its row; endpoint: id of the one to use, or NoRow; fill: it
\* gets the mac; name: for a new one; used: ip types taken; prefix: found.
NoRow == 0
NoPlan == [server |-> NoRow, endpoint |-> NoRow, fill |-> FALSE, name |-> 0,
           used |-> {}, prefix |-> None]

Init ==
    /\ \E n \in Networks : /\ servers = n.servers /\ endpoints = n.endpoints
                           /\ ips = n.ips /\ serial = n.serial
    /\ pc = [t \in Tasks |-> "queued"] /\ run = [t \in Tasks |-> 1]
    /\ faults = Faults
    /\ plan = [t \in Tasks |-> NoPlan]

\* process_message routes on action_type to a handler's first call.
FirstCall(t) == IF Body[t].kind = "attach" THEN "select server" ELSE "delete ip"

\* Mutation of Again: the ip is inserted again without looking first.
RepeatIpInsert(call) == IF call = "insert endpoint" THEN "reselect endpoint" ELSE call

\* Where _cmdb_call goes on after a transport failure: an insert looks first.
Again(call) ==
    IF call = "insert endpoint" THEN "reselect endpoint"
    ELSE IF call = "insert ip" THEN "reselect ip"
    ELSE call

\* The present call gets no usable reply, whether it was applied or not.
NoReply(t) == Interrupted(t, Again(pc[t]), FirstCall(t)) /\ UNCHANGED plan

Start(t) == Begin(t, FirstCall(t)) /\ plan' = [plan EXCEPT ![t] = NoPlan]

\* The request never reaches the CMDB.
Unreachable(t) ==
    /\ t \in Busy
    /\ NoReply(t)
    /\ UNCHANGED cmdb

\* The CMDB refuses a call made with raise_on_data_error, whatever its reason.
Refuses(t) ==
    /\ pc[t] \in {"select server", "update endpoint", "insert endpoint", "insert ip",
                  "delete ip", "delete endpoints"}
    /\ Fault
    /\ Refused(t)
    /\ UNCHANGED <<cmdb, plan>>

\* A refused lookup answers None; only a bound keeps it from happening.
LookupRefused == LookupErrors /\ Fault

-----------------------------------------------------------------------------
(* attach                                                                  *)

\* Mutations of Usable: a placeholder counts as unused whatever addresses it
\* holds; a placeholder is never taken.
ReuseHeldBlank(mac, cards) ==
    LET mine == {e \in cards : mac # None /\ e.mac = mac}
    IN IF mine # {} THEN mine ELSE {e \in cards : e.mac = None}

ReuseByMacOnly(mac, cards) == {e \in cards : mac # None /\ e.mac = mac}

\* The endpoint with the port's mac, else any that has neither mac nor ip.
Usable(mac, cards) ==
    LET mine == {e \in cards : mac # None /\ e.mac = mac}
    IN IF mine # {} THEN mine ELSE {e \in cards : e.mac = None /\ IpsOn(e.id) = {}}

\* What attach concludes from the row of its server.
Plan(t, server) ==
    LET mac == Body[t].mac
        cards == EndpointsOf(server)
        usable == Usable(mac, cards)
    IN \E e \in IF usable # {} THEN {u.id : u \in usable} ELSE {NoRow} :
          plan' = [plan EXCEPT ![t] =
              [server |-> server, endpoint |-> e,
               fill |-> mac # None /\ \A c \in cards : c.mac # mac,
               name |-> next_bond_name({c.name : c \in cards}),
               used |-> {i.type : i \in {j \in ips : \E c \in cards : j.endpoint = c.id}},
               prefix |-> None]]

SelectServer(t) ==
    /\ pc[t] = "select server"
    /\ \/ ServersOf(Body[t].uuid) = {} /\ Reply(t, "acked") /\ UNCHANGED plan
       \/ \E s \in ServersOf(Body[t].uuid) : Plan(t, s.id) /\ Reply(t, "find ip")
    /\ UNCHANGED cmdb

AttachedNow(t) == Attached(Body[t].ip, Body[t].uuid)

\* Already attached: an idempotent success.
FindAttachedIp(t) ==
    /\ pc[t] = "find ip"
    /\ \/ AttachedNow(t) # {} /\ Reply(t, "acked")
       \/ AttachedNow(t) = {} /\ Reply(t, "find prefix")
       \/ LookupRefused /\ GoTo(t, "find prefix") /\ UNCHANGED run
    /\ UNCHANGED <<cmdb, plan>>

\* The datacenter and its prefixes; a miss or a refusal costs the prefix.
\* An update may also be due for the notes alone, which are not modelled.
FindPrefix(t) ==
    LET next == IF plan[t].endpoint = NoRow THEN {"insert endpoint"}
                ELSE IF plan[t].fill THEN {"update endpoint"}
                ELSE {"update endpoint", "insert ip"}
    IN /\ pc[t] = "find prefix"
       /\ \E call \in next : GoTo(t, call) /\ UNCHANGED run
       /\ \/ plan' = [plan EXCEPT ![t].prefix = PrefixOf[Body[t].ip]] /\ UNCHANGED faults
          \/ LookupRefused /\ UNCHANGED plan
       /\ UNCHANGED cmdb

\* Zero rows matched is not an error.
UpdateEndpoint(t) ==
    /\ pc[t] = "update endpoint"
    /\ IF plan[t].fill THEN SetMac(plan[t].endpoint, Body[t].mac) ELSE UNCHANGED endpoints
    /\ (Reply(t, "insert ip") /\ UNCHANGED plan) \/ NoReply(t)
    /\ UNCHANGED <<servers, ips, serial>>

CreateEndpoint(t) ==
    /\ pc[t] = "insert endpoint"
    /\ \/ /\ CanInsertEndpoint(plan[t].server, plan[t].name)
          /\ InsertEndpoint(plan[t].server, plan[t].name, Body[t].mac)
          /\ UNCHANGED <<servers, ips>>
          /\ \/ Reply(t, "insert ip") /\ plan' = [plan EXCEPT ![t].endpoint = serial]
             \/ NoReply(t)
       \/ /\ ~CanInsertEndpoint(plan[t].server, plan[t].name)
          /\ Refused(t) /\ UNCHANGED <<cmdb, faults, plan>>

\* _attach_endpoint_selector, first probe: the ip is there, all is done.
ReselectAttached(t) ==
    /\ pc[t] = "reselect endpoint"
    /\ \/ AttachedNow(t) # {} /\ Reply(t, "acked")
       \/ AttachedNow(t) = {} /\ Reply(t, "reselect name")
       \/ LookupRefused /\ GoTo(t, "reselect name") /\ UNCHANGED run
    /\ UNCHANGED <<cmdb, plan>>

\* Mutation of ReselectName: an endpoint recovered counts as an ip recovered.
StopAtEndpoint(t) ==
    LET named == {e \in EndpointsOf(plan[t].server) : e.name = plan[t].name} IN
    /\ pc[t] = "reselect name"
    /\ \/ named # {} /\ Reply(t, "acked")
       \/ named = {} /\ Reply(t, "insert endpoint")
    /\ UNCHANGED <<cmdb, plan>>

\* Second probe: an endpoint of that name, or the insert is repeated.
ReselectName(t) ==
    LET named == {e \in EndpointsOf(plan[t].server) : e.name = plan[t].name} IN
    /\ pc[t] = "reselect name"
    /\ \/ \E e \in named : /\ Reply(t, "insert ip")
                           /\ plan' = [plan EXCEPT ![t].endpoint = e.id]
       \/ named = {} /\ Reply(t, "insert endpoint") /\ UNCHANGED plan
    /\ UNCHANGED cmdb

CreateIp(t) ==
    LET ip == Body[t].ip
        prefix == plan[t].prefix
        type == IF prefix = None THEN None ELSE resolve_ip_type(prefix, plan[t].used)
    IN /\ pc[t] = "insert ip"
       /\ \/ /\ CanInsertIp(ip, plan[t].endpoint, prefix)
             /\ InsertIp(ip, plan[t].endpoint, prefix, type)
             /\ UNCHANGED <<servers, endpoints>>
             /\ (Reply(t, "acked") /\ UNCHANGED plan) \/ NoReply(t)
          \/ /\ ~CanInsertIp(ip, plan[t].endpoint, prefix)
             /\ Refused(t) /\ UNCHANGED <<cmdb, faults, plan>>

\* _attach_ip_selector: the ip is there, or the insert is repeated.
ReselectIp(t) ==
    /\ pc[t] = "reselect ip"
    /\ \/ AttachedNow(t) # {} /\ Reply(t, "acked")
       \/ AttachedNow(t) = {} /\ Reply(t, "insert ip")
       \/ LookupRefused /\ GoTo(t, "insert ip") /\ UNCHANGED run
    /\ UNCHANGED <<cmdb, plan>>

-----------------------------------------------------------------------------
(* detach                                                                  *)

DeleteIp(t) ==
    /\ pc[t] = "delete ip"
    /\ ips' = ips \ AttachedNow(t)
    /\ (Reply(t, "delete endpoints") /\ UNCHANGED plan) \/ NoReply(t)
    /\ UNCHANGED <<servers, endpoints, serial>>

DeleteEndpoints(t) ==
    /\ pc[t] = "delete endpoints"
    /\ endpoints' = endpoints \ EmptyEndpoints(Body[t].uuid)
    /\ (Reply(t, "acked") /\ UNCHANGED plan) \/ NoReply(t)
    /\ UNCHANGED <<servers, ips, serial>>

-----------------------------------------------------------------------------
Attach(t) ==
    \/ SelectServer(t) \/ FindAttachedIp(t) \/ FindPrefix(t) \/ UpdateEndpoint(t)
    \/ CreateEndpoint(t) \/ ReselectAttached(t) \/ ReselectName(t)
    \/ CreateIp(t) \/ ReselectIp(t)

Detach(t) == DeleteIp(t) \/ DeleteEndpoints(t)

Next ==
    \/ \E t \in Tasks :
          \/ Start(t)
          \/ Attach(t)
          \/ Detach(t)
          \/ Unreachable(t)
          \/ Refuses(t)
          \/ AckLost(t) /\ UNCHANGED plan
    \/ Crash /\ UNCHANGED plan

Spec == Init /\ [][Next]_vars

-----------------------------------------------------------------------------
Calls == {"select server", "find ip", "find prefix", "update endpoint", "insert endpoint",
          "reselect endpoint", "reselect name", "insert ip", "reselect ip",
          "delete ip", "delete endpoints"}

TypeOK ==
    /\ pc \in [Tasks -> Calls \cup Ended]
    /\ run \in [Tasks -> 1 .. MaxRetries]
    /\ faults \in 0 .. Faults
    /\ serial \in Nat \ {0}
    /\ \A e \in endpoints : e.id \in 1 .. serial - 1
    /\ \A i \in ips : i.id \in 1 .. serial - 1 /\ i.endpoint \in 1 .. serial - 1

(* Attach is idempotent: however its runs are retried, cut off by a crash  *)
(* or delivered again, an address is on a server at most once.             *)
AttachedOnce ==
    \A t \in Tasks : Body[t].kind = "attach" => \A i, j \in AttachedNow(t) : i = j

\* What AttachedOnce rests on: no two messages at hand attach one address,
\* the tables held each address once, and no lookup is answered by None for
\* an error.
OneTaskPerAddress ==
    \A t, u \in Tasks : Body[t].kind = "attach" /\ Body[u].kind = "attach" /\ t # u
                           => Body[t].ip # Body[u].ip
AddressesOnce == \A n \in Networks : \A i, j \in n.ips : i.ip = j.ip => i = j

Opposed(t) == \E u \in Tasks : /\ Body[u].kind # Body[t].kind
                               /\ Body[u].uuid = Body[t].uuid /\ Body[u].ip = Body[t].ip

(* An acknowledged message has had its effect, and no other task undoes it *)
(* but one told to: detach of one address spares the endpoint of another.  *)
AckedTakesEffect ==
    \A t \in Tasks : pc[t] = "acked" /\ ServersOf(Body[t].uuid) # {} /\ ~Opposed(t) =>
        (Body[t].kind = "attach" <=> AttachedNow(t) # {})

\* Rows the tasks put in, rather than found.
Inserted(row) == \A n \in Networks : row.id >= n.serial

(* "reusing an existing endpoint by mac (or an unused placeholder)": the   *)
(* address of a port goes on the endpoint with the port's mac, and never   *)
(* on one that holds the address of another port.                          *)
PortOnItsCard ==
    \A t, u \in {v \in Tasks : Body[v].kind = "attach"} : \A i \in AttachedNow(t), j \in AttachedNow(u), e \in endpoints :
        /\ pc[t] = "acked" /\ Inserted(i) /\ i.endpoint = e.id
        /\ pc[u] = "acked" /\ Inserted(j) /\ j.endpoint = e.id
        => /\ Body[t].mac # None => e.mac = Body[t].mac
           /\ i # j => Body[t].mac # None /\ Body[t].mac = Body[u].mac

(* An endpoint whose insert was cut off from the address it was made for   *)
(* is taken up again by the retry, whichever of the two picked its name:   *)
(* once every message is acknowledged, none is left without an address.    *)
NoStrayEndpoint ==
    (\A t \in Tasks : pc[t] = "acked") =>
        \A e \in endpoints : Inserted(e) => IpsOn(e.id) # {}

\* A server has one address of type be and one of type fe at most.
OneOfEachType ==
    \A s \in servers, type \in {"be", "fe"} :
        Cardinality({i \in ips : i.type = type /\ \E e \in EndpointsOf(s.id) : e.id = i.endpoint}) <= 1

(* PermanentError is for a defect "in the message itself, not in the CMDB  *)
(* or the network": with neither failing, a message that can be carried    *)
(* out alone is not dead-lettered for what other messages are doing.       *)
GoodMessagesSucceed == Faults = 0 => \A t \in Tasks : pc[t] # "dead"
=============================================================================
