--------------------------- MODULE ServerLifecycle ---------------------------
(***************************************************************************)
(* create_instances, delete_instances and resize_instances: the messages   *)
(* that put a server row in the CMDB with its fields and network, remove   *)
(* it, and change it.  A step is one CMDB call with the code up to the     *)
(* next.  Permanent failures are where the handlers differ: some abort the *)
(* message, some end it as if done, and some are recorded and leave the    *)
(* server in error.                                                        *)
(***************************************************************************)
EXTENDS HandlerTasks, HandlerUtils, Sequences, Functions

CONSTANTS PrefixOf,     \* the prefix each address lies in, by its type, or None
          Tables,       \* the tables the handlers may find at the start
          Refusals      \* the calls the CMDB may refuse, or fail in an unknown way

\* The fields of the row: price stands for those whose failure makes the
\* state error, flavor for those with mark_state_error=False.
Fields == {"price", "flavor"}

\* A resize sets fields of the row.  Rows have ids below the next one to be
\* given, each its own, and were not put in by a task.
ASSUME LifecycleAssumption ==
    /\ None \notin Tasks
    /\ \A t \in Tasks : Body[t].kind = "resize" => Body[t].sets \subseteq Fields
    /\ \A n \in Tables :
        /\ n.serial \in Nat \ {0}
        /\ \A s \in n.servers :
              /\ s = [id |-> s.id, uuid |-> s.uuid, hostname |-> s.hostname,
                      raw_info |-> s.raw_info, state |-> s.state, fields |-> s.fields]
              /\ s.id \in 1 .. n.serial - 1 /\ s.raw_info \notin Tasks
        /\ \A r, s \in n.servers : r.id = s.id => r = s
        /\ \A e \in n.endpoints : e.id \in 1 .. n.serial - 1 /\ e.server \in 1 .. n.serial - 1
        /\ \A d, e \in n.endpoints : d.id = e.id => d = e
        /\ \A i \in n.ips : i.id \in 1 .. n.serial - 1 /\ i.endpoint \in 1 .. n.serial - 1

VARIABLE work    \* what each task carries from call to call

vars == <<cmdb, tasks, work>>

\* failed: FieldErrors.failed; victims: servers still to delete; server: id of
\* the new row; cards and addresses: those still to write; endpoint: the card
\* being written; used and type: ip types taken, and the one for this address.
NoWork == [failed |-> FALSE, victims |-> {}, server |-> 0, cards |-> <<>>,
           addresses |-> <<>>, endpoint |-> 0, used |-> {}, type |-> None]

Init ==
    /\ \E n \in Tables : /\ servers = n.servers /\ endpoints = n.endpoints
                         /\ ips = n.ips /\ serial = n.serial
    /\ pc = [t \in Tasks |-> "queued"] /\ run = [t \in Tasks |-> 1]
    /\ faults = Faults
    /\ work = [t \in Tasks |-> NoWork]

\* process_message routes on action_type; resize writes what the message sets.
FirstCall(t) ==
    IF Body[t].kind = "create" THEN "look up"
    ELSE IF Body[t].kind = "delete" THEN "select servers"
    ELSE IF "price" \in Body[t].sets THEN "resize price"
    ELSE IF "flavor" \in Body[t].sets THEN "resize flavor"
    ELSE "acked"

\* Where _cmdb_call goes on after a transport failure: an insert looks first.
Again(call) ==
    CASE call = "insert server" -> "reselect server"
      [] call = "insert card" -> "reselect card"
      [] call = "insert address" -> "reselect address"
      [] OTHER -> call

Carry(t, w) == work' = [work EXCEPT ![t] = w]

Start(t) == Begin(t, FirstCall(t)) /\ Carry(t, NoWork)

-----------------------------------------------------------------------------
(* Permanent failures                                                      *)

\* The next call of _persist_net_endpoints, or the write of the state.
NextCall(w) ==
    IF w.addresses # <<>> THEN "find prefix"
    ELSE IF w.cards # <<>> THEN "insert card"
    ELSE "write state"

Continue(t, w) == GoTo(t, NextCall(w)) /\ Carry(t, w)

\* Mutations of SkipCard: the failure is not recorded; it ends the handler.
SkipSilently(t) == Continue(t, [work[t] EXCEPT !.cards = Tail(@)])

StopAtCard(t) == GoTo(t, "acked") /\ UNCHANGED work

\* A card or an address that cannot be written is recorded and left out.
SkipCard(t) == Continue(t, [work[t] EXCEPT !.failed = TRUE, !.cards = Tail(@)])

SkipAddress(t) == Continue(t, [work[t] EXCEPT !.failed = TRUE, !.addresses = Tail(@)])

\* The except clause of create_instances: the handler returns.
StopCreate(t) == GoTo(t, "acked") /\ UNCHANGED work

\* What a data or unknown error at the present call leads to.
Report(t) ==
    LET create == Body[t].kind = "create"
        call == pc[t]
    IN /\ UNCHANGED run
       /\ \/ /\ \/ call \in {"look up", "resize price", "resize flavor"}
                \/ call \in {"select servers", "delete server"} /\ ~create
             /\ GoTo(t, "dead") /\ UNCHANGED work
          \/ /\ call \in {"select servers", "delete server", "insert server"} /\ create
             /\ StopCreate(t)
          \/ call = "write batch" /\ GoTo(t, "write price") /\ UNCHANGED work
          \/ call = "write price" /\ GoTo(t, "write flavor") /\ Carry(t, [work[t] EXCEPT !.failed = TRUE])
          \/ call = "write flavor" /\ Continue(t, work[t])
          \/ call = "insert card" /\ SkipCard(t)
          \/ call \in {"find prefix", "insert address"} /\ SkipAddress(t)
          \/ call = "write state" /\ GoTo(t, "acked") /\ UNCHANGED work

\* The present call gets no usable reply, whether it was applied or not.
NoReply(t) ==
    \/ Interrupted(t, Again(pc[t]), FirstCall(t)) /\ UNCHANGED work
    \/ pc[t] \in Refusals /\ Fault /\ Report(t)

\* The call changes nothing: it does not reach the CMDB, or is refused.
NotApplied(t) ==
    /\ t \in Busy
    /\ NoReply(t)
    /\ UNCHANGED cmdb

\* A constraint of the CMDB refuses the present insert.
Conflict(t) == Report(t) /\ UNCHANGED <<cmdb, faults>>

\* The call's reply arrives.
Answered == UNCHANGED <<run, faults>>

-----------------------------------------------------------------------------
(* create: the row                                                         *)

\* resource_cloud and cap_tenant, which no handler writes, in one step; a tag
\* that names no tenant is recorded.
LookUp(t) ==
    /\ pc[t] = "look up"
    /\ Reply(t, "select servers")
    /\ \E failed \in {FALSE, Body[t].tagged} :
          Carry(t, [NoWork EXCEPT !.failed = failed, !.cards = Body[t].cards])
    /\ UNCHANGED cmdb

\* Mutations of Victims: create looks for its hostname only, or for its uuid
\* only; one row is taken.
VictimsByHostname(t) ==
    {s.id : s \in {r \in servers :
        IF Body[t].kind = "create" THEN r.hostname = Body[t].hostname
        ELSE r.uuid = Body[t].uuid}}

VictimsByUuid(t) == {s.id : s \in ServersOf(Body[t].uuid)}

FirstVictim(t) ==
    LET found == {r \in servers : r.uuid = Body[t].uuid}
    IN IF found = {} THEN {} ELSE {(CHOOSE r \in found : TRUE).id}

\* create removes by uuid or hostname, delete by uuid.
Victims(t) ==
    {s.id : s \in {r \in servers :
        \/ r.uuid = Body[t].uuid
        \/ Body[t].kind = "create" /\ r.hostname = Body[t].hostname}}

\* Where _remove_server goes on with victims left.
AfterRemoval(t, victims) ==
    IF victims # {} THEN "delete server"
    ELSE IF Body[t].kind = "create" THEN "insert server" ELSE "acked"

SelectServers(t) ==
    /\ pc[t] = "select servers"
    /\ Reply(t, AfterRemoval(t, Victims(t)))
    /\ Carry(t, [work[t] EXCEPT !.victims = Victims(t)])
    /\ UNCHANGED cmdb

\* The rails of a server are deleted before it, by calls that fail as this one.
DeleteVictim(t) ==
    /\ pc[t] = "delete server"
    /\ \E v \in work[t].victims :
          /\ DeleteServer(v)
          /\ \/ LET left == work[t].victims \ {v} IN
                  /\ Reply(t, AfterRemoval(t, left))
                  /\ Carry(t, [work[t] EXCEPT !.victims = left])
             \/ NoReply(t)
    /\ UNCHANGED serial

\* The row is inserted in state setup, with its message as raw_info.
CreateServer(t) ==
    LET body == Body[t] IN
    /\ pc[t] = "insert server"
    /\ IF CanInsertServer(body.hostname)
       THEN /\ servers' = servers \cup
                   {[id |-> serial, uuid |-> body.uuid, hostname |-> body.hostname,
                     raw_info |-> t, state |-> "setup", fields |-> [f \in Fields |-> None]]}
            /\ serial' = serial + 1
            /\ UNCHANGED <<endpoints, ips>>
            /\ \/ Reply(t, "write batch") /\ Carry(t, [work[t] EXCEPT !.server = serial])
               \/ NoReply(t)
       ELSE Conflict(t)

\* by_hostname.
ReselectServer(t) ==
    LET found == {s \in servers : s.hostname = Body[t].hostname} IN
    /\ pc[t] = "reselect server"
    /\ \/ \E s \in found : /\ Reply(t, "write batch")
                           /\ Carry(t, [work[t] EXCEPT !.server = s.id])
       \/ found = {} /\ Reply(t, "insert server") /\ UNCHANGED work
    /\ UNCHANGED cmdb

\* The rows an update of this message is for: create's where has the hostname.
Where(t) ==
    {s \in servers : /\ s.uuid = Body[t].uuid
                     /\ Body[t].kind = "create" => s.hostname = Body[t].hostname}

\* _update_server: zero rows matched is only logged.
Write(t, fields) ==
    /\ servers' = (servers \ Where(t)) \cup
           {[s EXCEPT !.fields = [f \in Fields |-> IF f \in fields THEN t ELSE s.fields[f]]]
               : s \in Where(t)}
    /\ UNCHANGED <<endpoints, ips, serial>>

\* One batched update, then field by field if the batch is refused.
WriteBatch(t) ==
    /\ pc[t] = "write batch"
    /\ Write(t, Fields)
    /\ (Continue(t, work[t]) /\ Answered) \/ NoReply(t)

WritePrice(t) ==
    /\ pc[t] = "write price"
    /\ Write(t, {"price"})
    /\ (Reply(t, "write flavor") /\ UNCHANGED work) \/ NoReply(t)

WriteFlavor(t) ==
    /\ pc[t] = "write flavor"
    /\ Write(t, {"flavor"})
    /\ (Continue(t, work[t]) /\ Answered) \/ NoReply(t)

-----------------------------------------------------------------------------
(* create: the network                                                     *)

Card(t) == Head(work[t].cards)

\* The card has its endpoint: its addresses are next.
CardWritten(t, endpoint) ==
    /\ Continue(t, [work[t] EXCEPT !.endpoint = endpoint, !.cards = Tail(@),
                                   !.addresses = Card(t).addresses])
    /\ Answered

CreateCard(t) ==
    LET server == work[t].server IN
    /\ pc[t] = "insert card"
    /\ IF CanInsertEndpoint(server, Card(t).name)
       THEN /\ InsertEndpoint(server, Card(t).name, Card(t).mac)
            /\ UNCHANGED <<servers, ips>>
            /\ CardWritten(t, serial) \/ NoReply(t)
       ELSE Conflict(t)

\* _endpoint_selector: by name, or for a placeholder by mac.
ReselectCard(t) ==
    LET found == {e \in EndpointsOf(work[t].server) :
                     IF Card(t).placeholder THEN e.mac = Card(t).mac
                     ELSE e.name = Card(t).name}
    IN /\ pc[t] = "reselect card"
       /\ \/ \E e \in found : CardWritten(t, e.id)
          \/ found = {} /\ Reply(t, "insert card") /\ UNCHANGED work
       /\ UNCHANGED cmdb

Address(t) == Head(work[t].addresses)

\* Without a prefix the address is recorded as failed; with one its type is
\* settled, and counts as used whether or not the insert succeeds.
FindPrefix(t) ==
    LET prefix == PrefixOf[Address(t)]
        type == resolve_ip_type(prefix, work[t].used)
    IN /\ pc[t] = "find prefix"
       /\ IF prefix = None
          THEN SkipAddress(t) /\ Answered
          ELSE /\ Reply(t, "insert address")
               /\ Carry(t, [work[t] EXCEPT !.type = type, !.used = @ \cup {type}])
       /\ UNCHANGED cmdb

AddressWritten(t) ==
    Continue(t, [work[t] EXCEPT !.addresses = Tail(@)]) /\ Answered

CreateAddress(t) ==
    LET w == work[t]
        prefix == PrefixOf[Address(t)]
    IN /\ pc[t] = "insert address"
       /\ IF CanInsertIp(Address(t), w.endpoint, prefix)
          THEN /\ InsertIp(Address(t), w.endpoint, prefix, w.type)
               /\ UNCHANGED <<servers, endpoints>>
               /\ AddressWritten(t) \/ NoReply(t)
          ELSE Conflict(t)

\* _ip_selector.
ReselectAddress(t) ==
    LET there == \E i \in IpsOn(work[t].endpoint) :
                     i.ip = Address(t) /\ i.prefix = PrefixOf[Address(t)]
    IN /\ pc[t] = "reselect address"
       /\ \/ there /\ AddressWritten(t)
          \/ ~there /\ Reply(t, "insert address") /\ UNCHANGED work
       /\ UNCHANGED cmdb

WriteState(t) ==
    LET state == IF work[t].failed THEN "error" ELSE "ready" IN
    /\ pc[t] = "write state"
    /\ servers' = (servers \ Where(t)) \cup {[s EXCEPT !.state = state] : s \in Where(t)}
    /\ UNCHANGED <<endpoints, ips, serial>>
    /\ (Reply(t, "acked") /\ UNCHANGED work) \/ NoReply(t)

-----------------------------------------------------------------------------
(* resize                                                                  *)

ResizePrice(t) ==
    /\ pc[t] = "resize price"
    /\ Write(t, {"price"})
    /\ \/ /\ Reply(t, IF "flavor" \in Body[t].sets THEN "resize flavor" ELSE "acked")
          /\ UNCHANGED work
       \/ NoReply(t)

ResizeFlavor(t) ==
    /\ pc[t] = "resize flavor"
    /\ Write(t, {"flavor"})
    /\ (Reply(t, "acked") /\ UNCHANGED work) \/ NoReply(t)

-----------------------------------------------------------------------------
Create(t) ==
    \/ LookUp(t) \/ CreateServer(t) \/ ReselectServer(t)
    \/ WriteBatch(t) \/ WritePrice(t) \/ WriteFlavor(t)
    \/ CreateCard(t) \/ ReselectCard(t) \/ FindPrefix(t)
    \/ CreateAddress(t) \/ ReselectAddress(t) \/ WriteState(t)

Removal(t) == SelectServers(t) \/ DeleteVictim(t)

Resize(t) == ResizePrice(t) \/ ResizeFlavor(t)

Next ==
    \/ \E t \in Tasks :
          \/ Start(t)
          \/ Create(t)
          \/ Removal(t)
          \/ Resize(t)
          \/ NotApplied(t)
          \/ AckLost(t) /\ UNCHANGED work
    \/ Crash /\ UNCHANGED work

Spec == Init /\ [][Next]_vars

-----------------------------------------------------------------------------
Calls == {"look up", "select servers", "delete server", "insert server", "reselect server",
          "write batch", "write price", "write flavor", "insert card", "reselect card",
          "find prefix", "insert address", "reselect address", "write state",
          "resize price", "resize flavor"}

TypeOK ==
    /\ pc \in [Tasks -> Calls \cup Ended]
    /\ run \in [Tasks -> 1 .. MaxRetries]
    /\ faults \in 0 .. Faults
    /\ serial \in Nat \ {0}
    /\ \A s \in servers : s.id \in 1 .. serial - 1
    /\ \A e \in endpoints : e.id \in 1 .. serial - 1
    /\ \A i \in ips : i.id \in 1 .. serial - 1 /\ i.endpoint \in 1 .. serial - 1

\* The network of a server is the one its message describes, each row once.
NetworkIs(server, cards) ==
    /\ Cardinality(EndpointsOf(server)) = Len(cards)
    /\ \A card \in Range(cards) : \E e \in EndpointsOf(server) :
          /\ e.name = card.name /\ e.mac = card.mac
          /\ Cardinality(IpsOn(e.id)) = Len(card.addresses)
          /\ {i.ip : i \in IpsOn(e.id)} = Range(card.addresses)

(* Failures "leave the server in error state" (create_instances): a server *)
(* its create declares ready has the fields that count and exactly the     *)
(* cards and addresses of its message, whatever was retried, replayed,     *)
(* interrupted or delivered again on the way.                              *)
ReadyMeansComplete ==
    \A s \in servers : s.state = "ready" /\ s.raw_info \in Tasks =>
        s.fields["price"] # None /\ NetworkIs(s.id, Body[s.raw_info].cards)

Rivals(t) == {u \in Tasks \ {t} :
    /\ Body[u].kind \in {"create", "delete"}
    /\ Body[u].uuid = Body[t].uuid \/ Body[u].hostname = Body[t].hostname}

(* "Messages that still fail are rejected" (README.md): a create that is   *)
(* acknowledged has left its server in the CMDB, ready or in error.        *)
AckedCreateSettles ==
    \A t \in Tasks : pc[t] = "acked" /\ Body[t].kind = "create" /\ Rivals(t) = {} =>
        \E s \in Where(t) : s.state \in {"ready", "error"}

(* "The old one was never removed" must not happen: a server a create has  *)
(* inserted is the only one with its uuid, and with its hostname, although *)
(* the CMDB would let a uuid repeat.                                       *)
OneServerPerInstance ==
    \A r, s \in servers : r.raw_info \in Tasks /\ r.uuid = s.uuid => r = s

(* by_hostname finds a row again by its hostname alone: once the removal   *)
(* is done, that row is the one its own message inserted, and the cards    *)
(* and addresses it goes on to write are not put on another's server.      *)
BuildsOnItsOwnRow ==
    \A t \in Tasks : pc[t] \in {"write batch", "write price", "write flavor", "insert card",
                               "reselect card", "find prefix", "insert address",
                               "reselect address", "write state"} =>
        \A s \in servers : s.id = work[t].server => s.raw_info = t /\ s.uuid = Body[t].uuid

(* An acknowledged delete has removed every server of its uuid, and an     *)
(* acknowledged resize has changed them, however often they were cut off,  *)
(* unless a message that writes the same rows comes between.               *)
DeleteAndResizeLand ==
    \A t \in Tasks :
        /\ pc[t] = "acked"
        /\ \A u \in Tasks \ {t} : Body[u].uuid = Body[t].uuid => Body[u].kind = "delete"
        => /\ Body[t].kind = "delete" => ServersOf(Body[t].uuid) = {}
           /\ Body[t].kind = "resize" =>
                 \A s \in ServersOf(Body[t].uuid), f \in Body[t].sets : s.fields[f] = t

(* "The delete-then-insert is also what makes a whole-message retry safe"  *)
(* (_recreate_server_row): with a CMDB that never fails, a create that is  *)
(* delivered again, every run of it acknowledged, ends ready and complete. *)
WholeMessageRetrySafe ==
    Faults = 0 /\ (\A t \in Tasks : pc[t] = "acked" /\ ~Body[t].tagged) =>
        \A t \in Tasks : \E s \in Where(t) :
            s.state = "ready" /\ NetworkIs(s.id, Body[t].cards)
=============================================================================
