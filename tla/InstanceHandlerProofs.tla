----------------------- MODULE InstanceHandlerProofs -----------------------
(***************************************************************************)
(* Theorems about all the handlers of InstanceHandler working on one CMDB, *)
(* for any prefetch: while no message in hand undoes another's effect      *)
(* (NoneUndone), what an acknowledged message did stands until one that    *)
(* asks for something else is started; while no two put rows on one        *)
(* instance (WritersApart), no server gets two addresses of one type and   *)
(* the address of a port is on its card.                                   *)
(***************************************************************************)
EXTENDS InstanceHandler, Sequences, TLAPS, FiniteSetTheorems

\* A hostname belongs to one instance: create removes by hostname too.
HostnamesOwned ==
    \A t \in Tasks : Body[t].kind = "create" =>
        /\ \A u \in Tasks : Body[u].kind = "create" /\ Body[u].hostname = Body[t].hostname
                               => Body[u].uuid = Body[t].uuid
        /\ \A n \in Tables : \A s \in n.servers :
              s.hostname = Body[t].hostname => s.uuid = Body[t].uuid

\* No refusal ends a create as if done.
QuietNotRefused ==
    {"select servers", "delete server", "insert server", "write state"} \cap Refusals = {}

-----------------------------------------------------------------------------
(* The invariant                                                           *)

\* The calls of each handler; at Late ones create has its row.
Late == {"write batch", "write price", "write flavor", "insert card", "reselect card",
         "find prefix", "insert address", "reselect address", "write state"}

Removing == {"select servers", "delete server"}

Attaching == {"find ip", "find prefix", "update endpoint", "insert endpoint",
              "reselect endpoint", "reselect name", "insert ip", "reselect ip"}

CallsOf(t) ==
    CASE Body[t].kind = "create" -> {"look up", "insert server", "reselect server"} \cup Removing \cup Late
      [] Body[t].kind = "delete" -> Removing
      [] Body[t].kind = "attach" -> {"select server"} \cup Attaching
      [] Body[t].kind = "detach" -> {"delete ip", "delete endpoints"}
      [] OTHER -> {"resize price", "resize flavor"}

Routed == \A t \in Tasks : pc[t] \in CallsOf(t) \cup Ended

\* What the tasks carry has its parts.
IsPlan(p) ==
    p = [server |-> p.server, endpoint |-> p.endpoint, fill |-> p.fill, name |-> p.name,
         used |-> p.used, prefix |-> p.prefix]

IsWork(w) ==
    w = [failed |-> w.failed, victims |-> w.victims, server |-> w.server, cards |-> w.cards,
         addresses |-> w.addresses, endpoint |-> w.endpoint, used |-> w.used, type |-> w.type]

CarriedOK ==
    /\ pc = [t \in Tasks |-> pc[t]]
    /\ plan = [t \in Tasks |-> plan[t]] /\ \A t \in Tasks : IsPlan(plan[t])
    /\ work = [t \in Tasks |-> work[t]] /\ \A t \in Tasks : IsWork(work[t])

\* Rows are told apart by ids below the next one, and so are the rows they hang off.
IsServer(s) ==
    s = [id |-> s.id, uuid |-> s.uuid, hostname |-> s.hostname,
         raw_info |-> s.raw_info, state |-> s.state, fields |-> s.fields]

RowsOK ==
    /\ serial \in Nat \ {0}
    /\ \A s \in servers : IsServer(s) /\ s.id \in 1 .. serial - 1
    /\ \A r, s \in servers : r.id = s.id => r = s
    /\ \A e \in endpoints : e.id \in 1 .. serial - 1 /\ e.server \in 1 .. serial - 1
    /\ \A d, e \in endpoints : d.id = e.id => d = e
    /\ \A i \in ips : i.id \in 1 .. serial - 1 /\ i.endpoint \in 1 .. serial - 1

\* The server a create would remove by its hostname is of its own instance.
HostsOK ==
    \A t \in Tasks, s \in servers :
        Body[t].kind = "create" /\ s.hostname = Body[t].hostname => s.uuid = Body[t].uuid

\* A resize that sets nothing has no effect to undo.
Idle(t) == Body[t].kind = "resize" /\ Body[t].sets = {}

OverridesKnown == \A t \in Busy, u \in Tasks : Overrides(t, u) => u \in overridden \/ Idle(u)

\* The server with that id, if it is still there, is of the instance of t, and
\* so is the one the endpoint with that id is on.
OwnServer(t, server) ==
    server \in 0 .. serial - 1 /\ \A s \in servers : s.id = server => s.uuid = Body[t].uuid

OwnEndpoint(t, endpoint) ==
    /\ endpoint \in 0 .. serial - 1
    /\ \A e \in endpoints, s \in servers :
          e.id = endpoint /\ s.id = e.server => s.uuid = Body[t].uuid

\* What t has to find, and what it carries, at its present call.
PlanHolds(t) ==
    /\ plan[t].endpoint \in 0 .. serial - 1
    /\ \E s \in ServersOf(Body[t].uuid) : s.id = plan[t].server
    /\ \A e \in endpoints : e.id = plan[t].endpoint => e.server = plan[t].server

AttachAt(t) == pc[t] \in Attaching => PlanHolds(t)

DetachAt(t) == pc[t] = "delete endpoints" => Attached(Body[t].ip, Body[t].uuid) = {}

VictimsHold(t) ==
    /\ work[t].victims \subseteq 1 .. serial - 1
    /\ \A s \in servers : s.id \in work[t].victims => s.uuid = Body[t].uuid
    /\ \A s \in ServersOf(Body[t].uuid) : s.id \in work[t].victims
    /\ Body[t].kind = "create" =>
          \A s \in servers : s.hostname = Body[t].hostname => s.id \in work[t].victims

RemovalAt(t, call) == call = "delete server" => VictimsHold(t)

HasRow(t) == \E s \in servers : s.uuid = Body[t].uuid /\ s.hostname = Body[t].hostname

CreateAt(t, call) ==
    /\ call = "insert server" => CanInsertServer(Body[t].hostname)
    /\ call # "look up" => OwnEndpoint(t, work[t].endpoint)
    /\ call \in Late => HasRow(t) /\ OwnServer(t, work[t].server)

ResizeAt(t, call) ==
    /\ call = "resize price" => "price" \in Body[t].sets
    /\ call = "resize flavor" =>
          /\ "flavor" \in Body[t].sets
          /\ "price" \in Body[t].sets =>
                \A s \in ServersOf(Body[t].uuid) : s.fields["price"] = t

RowAt(t, call) ==
    CASE Body[t].kind = "create" -> RemovalAt(t, call) /\ CreateAt(t, call)
      [] Body[t].kind = "delete" -> RemovalAt(t, call)
      [] OTHER -> ResizeAt(t, call)

At(t) ==
    CASE Body[t].kind = "attach" -> AttachAt(t)
      [] Body[t].kind = "detach" -> DetachAt(t)
      [] OTHER -> RowAt(t, pc[t])

EffectInv ==
    /\ Routed /\ CarriedOK /\ RowsOK /\ HostsOK /\ OverridesKnown
    /\ \A t \in Busy : At(t)
    /\ EffectStands

-----------------------------------------------------------------------------
(* What one call may do to the tables                                      *)

\* What an update of t to the fields F may make of a row.
Renews(t, F, r, s) ==
    /\ IsServer(s) /\ s.id = r.id /\ s.uuid = r.uuid /\ s.hostname = r.hostname
    /\ r.uuid # Body[t].uuid => s = r
    /\ \A f \in {"price", "flavor"} \ F : s.fields[f] = r.fields[f]
    /\ Body[t].kind = "resize" => s.state = r.state

Updates(t, F) ==
    /\ \E new : servers' = {new[s] : s \in servers} /\ \A s \in servers : Renews(t, F, s, new[s])
    /\ UNCHANGED <<endpoints, ips, serial>>

PutsServer(t) ==
    \E s : /\ IsServer(s) /\ s.id = serial
           /\ s.uuid = Body[t].uuid /\ s.hostname = Body[t].hostname
           /\ servers' = servers \cup {s} /\ serial' = serial + 1
           /\ UNCHANGED <<endpoints, ips>>

PutsEndpoint(t) ==
    \E server, name, mac :
        /\ OwnServer(t, server) /\ \E s \in servers : s.id = server
        /\ InsertEndpoint(server, name, mac) /\ UNCHANGED <<servers, ips>>

PutsIp(t) ==
    \E ip, endpoint, prefix, type :
        /\ OwnEndpoint(t, endpoint) /\ \E e \in endpoints : e.id = endpoint
        /\ Body[t].kind = "attach" => ip = Body[t].ip
        /\ InsertIp(ip, endpoint, prefix, type) /\ UNCHANGED <<servers, endpoints>>

SetsMac == (\E endpoint, mac : SetMac(endpoint, mac)) /\ UNCHANGED <<servers, ips, serial>>

DropsIp(t) ==
    ips' = ips \ Attached(Body[t].ip, Body[t].uuid) /\ UNCHANGED <<servers, endpoints, serial>>

DropsEndpoints(t) ==
    endpoints' = endpoints \ EmptyEndpoints(Body[t].uuid) /\ UNCHANGED <<servers, ips, serial>>

DropsServer(t) ==
    \E server : /\ \A s \in servers : s.id = server => s.uuid = Body[t].uuid
                /\ DeleteServer(server) /\ UNCHANGED serial

Touches(t) ==
    \/ UNCHANGED cmdb
    \/ Body[t].kind = "attach" /\ SetsMac
    \/ Body[t].kind \in {"attach", "create"} /\ (PutsEndpoint(t) \/ PutsIp(t))
    \/ Body[t].kind = "detach" /\ (DropsIp(t) \/ DropsEndpoints(t))
    \/ Body[t].kind \in {"create", "delete"} /\ DropsServer(t)
    \/ Body[t].kind = "create" /\ (PutsServer(t) \/ Updates(t, {"price", "flavor"}))
    \/ Body[t].kind = "resize" /\ Updates(t, Body[t].sets)

\* Rows stay apart, and their servers with the instance that owns the hostname.
LEMMA UpdatesKeepRows ==
    ASSUME RowsOK, NEW t \in Tasks, NEW F, Updates(t, F)
    PROVE  RowsOK' /\ (HostsOK => HostsOK')
<1>1. PICK new : servers' = {new[s] : s \in servers} /\ \A s \in servers : Renews(t, F, s, new[s])
  BY DEF Updates
<1>2. \A r, s \in servers' : r.id = s.id => r = s
  BY <1>1 DEF Renews, RowsOK
<1>3. \A s \in servers' : IsServer(s) /\ s.id \in 1 .. serial - 1
  BY <1>1 DEF Renews, RowsOK
<1>4. HostsOK => HostsOK'
  BY <1>1 DEF Renews, HostsOK
<1>5. QED
  BY <1>2, <1>3, <1>4 DEF RowsOK, Updates

LEMMA PutsServerKeepsRows ==
    ASSUME RowsOK, HostsOK, HostnamesOwned, NEW t \in Tasks, Body[t].kind = "create", PutsServer(t)
    PROVE  RowsOK' /\ HostsOK'
<1>1. PICK s : /\ IsServer(s) /\ s.id = serial
               /\ s.uuid = Body[t].uuid /\ s.hostname = Body[t].hostname
               /\ servers' = servers \cup {s} /\ serial' = serial + 1
               /\ UNCHANGED <<endpoints, ips>>
  BY DEF PutsServer
<1>2. RowsOK'
  BY <1>1 DEF RowsOK
<1>3. HostsOK'
  BY <1>1 DEF HostsOK, HostnamesOwned
<1>4. QED
  BY <1>2, <1>3

LEMMA PutsEndpointKeepsRows ==
    ASSUME RowsOK, NEW t \in Tasks, PutsEndpoint(t)
    PROVE  RowsOK'
<1>1. PICK server, name, mac :
          /\ \E s \in servers : s.id = server
          /\ InsertEndpoint(server, name, mac) /\ UNCHANGED <<servers, ips>>
  BY DEF PutsEndpoint
<1>2. PICK e : /\ e.id = serial /\ e.server = server /\ endpoints' = endpoints \cup {e}
  BY <1>1 DEF InsertEndpoint
<1>3. server \in 1 .. serial - 1 /\ serial' = serial + 1
  BY <1>1 DEF RowsOK, InsertEndpoint
<1>4. QED
  BY <1>1, <1>2, <1>3 DEF RowsOK

LEMMA PutsIpKeepsRows ==
    ASSUME RowsOK, NEW t \in Tasks, PutsIp(t)
    PROVE  RowsOK'
<1>1. PICK ip, endpoint, prefix, type :
          /\ \E e \in endpoints : e.id = endpoint
          /\ InsertIp(ip, endpoint, prefix, type) /\ UNCHANGED <<servers, endpoints>>
  BY DEF PutsIp
<1>2. PICK i : i.id = serial /\ i.endpoint = endpoint /\ ips' = ips \cup {i}
  BY <1>1 DEF InsertIp
<1>3. endpoint \in 1 .. serial - 1 /\ serial' = serial + 1
  BY <1>1 DEF RowsOK, InsertIp
<1>4. QED
  BY <1>1, <1>2, <1>3 DEF RowsOK

LEMMA SetsMacKeepsRows ==
    ASSUME RowsOK, SetsMac
    PROVE  RowsOK'
<1>1. PICK endpoint, mac : SetMac(endpoint, mac)
  BY DEF SetsMac
<1>2. DEFINE new == [e \in endpoints |->
                        [id |-> e.id, server |-> e.server, name |-> e.name,
                         mac |-> IF e.id = endpoint THEN mac ELSE e.mac]]
<1>3. /\ endpoints' = {new[e] : e \in endpoints}
      /\ \A e \in endpoints : new[e].id = e.id /\ new[e].server = e.server
  BY <1>1 DEF SetMac
<1>4. HIDE DEF new
<1>5. QED
  BY <1>3 DEF RowsOK, SetsMac

LEMMA RowsStayOK ==
    ASSUME RowsOK, HostsOK, HostnamesOwned, NEW t \in Tasks, Touches(t)
    PROVE  RowsOK' /\ HostsOK'
<1>1. CASE UNCHANGED cmdb
  BY <1>1 DEF RowsOK, HostsOK, cmdb
<1>2. CASE SetsMac
  BY <1>2, SetsMacKeepsRows DEF HostsOK, SetsMac
<1>3. CASE PutsEndpoint(t)
  BY <1>3, PutsEndpointKeepsRows DEF HostsOK, PutsEndpoint
<1>4. CASE PutsIp(t)
  BY <1>4, PutsIpKeepsRows DEF HostsOK, PutsIp
<1>5. CASE DropsIp(t)
  BY <1>5 DEF RowsOK, HostsOK, DropsIp
<1>6. CASE DropsEndpoints(t)
  BY <1>6 DEF RowsOK, HostsOK, DropsEndpoints
<1>7. CASE DropsServer(t)
  BY <1>7 DEF RowsOK, HostsOK, DropsServer, DeleteServer
<1>8. CASE Body[t].kind = "create" /\ PutsServer(t)
  BY <1>8, PutsServerKeepsRows
<1>9. CASE \E F : Updates(t, F)
  BY <1>9, UpdatesKeepRows
<1>10. QED
  BY <1>1, <1>2, <1>3, <1>4, <1>5, <1>6, <1>7, <1>8, <1>9 DEF Touches

-----------------------------------------------------------------------------
(* What a call leaves alone                                                *)

LEMMA SparesServers ==
    ASSUME RowsOK, NEW t \in Tasks, Touches(t), NEW uuid, uuid # Body[t].uuid
    PROVE  ServersOf(uuid)' = ServersOf(uuid)
<1>1. CASE UNCHANGED servers
  BY <1>1 DEF ServersOf
<1>2. CASE DropsServer(t)
  BY <1>2 DEF ServersOf, DropsServer, DeleteServer
<1>3. CASE PutsServer(t)
  BY <1>3 DEF ServersOf, PutsServer
<1>4. ASSUME NEW F, Updates(t, F)
      PROVE  ServersOf(uuid)' = ServersOf(uuid)
  <2>1. PICK new : servers' = {new[s] : s \in servers} /\ \A s \in servers : Renews(t, F, s, new[s])
    BY <1>4 DEF Updates
  <2>2. QED
    BY <2>1 DEF ServersOf, Renews
<1>5. QED
  BY <1>1, <1>2, <1>3, <1>4
     DEF Touches, cmdb, SetsMac, PutsEndpoint, PutsIp, DropsIp, DropsEndpoints

\* The addresses of a server, by the call that is made.
LEMMA SetsMacSpares ==
    ASSUME NEW ip, NEW uuid, SetsMac
    PROVE  Attached(ip, uuid)' = Attached(ip, uuid)
<1>1. PICK endpoint, mac : SetMac(endpoint, mac)
  BY DEF SetsMac
<1>2. DEFINE new == [e \in endpoints |->
                        [id |-> e.id, server |-> e.server, name |-> e.name,
                         mac |-> IF e.id = endpoint THEN mac ELSE e.mac]]
<1>3. /\ endpoints' = {new[e] : e \in endpoints}
      /\ \A e \in endpoints : new[e].id = e.id /\ new[e].server = e.server
  BY <1>1 DEF SetMac
<1>4. HIDE DEF new
<1>5. QED
  BY <1>3 DEF SetsMac, Attached, ServersOf

LEMMA PutsEndpointSpares ==
    ASSUME RowsOK, NEW t \in Tasks, PutsEndpoint(t), NEW ip, NEW uuid
    PROVE  Attached(ip, uuid)' = Attached(ip, uuid)
<1>1. PICK e : e.id = serial /\ endpoints' = endpoints \cup {e} /\ UNCHANGED <<servers, ips>>
  BY DEF PutsEndpoint, InsertEndpoint
<1>2. \A i \in ips : i.endpoint # serial
  BY DEF RowsOK
<1>3. QED
  BY <1>1, <1>2 DEF Attached, ServersOf

\* An address row on an endpoint of another instance, or of another address.
LEMMA PutsIpSpares ==
    ASSUME NEW t \in Tasks, PutsIp(t), NEW ip, NEW uuid,
           uuid # Body[t].uuid \/ (Body[t].kind = "attach" /\ ip # Body[t].ip)
    PROVE  Attached(ip, uuid)' = Attached(ip, uuid)
<1>1. PICK a, endpoint, prefix, type :
          /\ OwnEndpoint(t, endpoint)
          /\ Body[t].kind = "attach" => a = Body[t].ip
          /\ InsertIp(a, endpoint, prefix, type) /\ UNCHANGED <<servers, endpoints>>
  BY DEF PutsIp
<1>2. PICK i : i.ip = a /\ i.endpoint = endpoint /\ ips' = ips \cup {i}
  BY <1>1 DEF InsertIp
<1>3. i.ip = ip => ~\E e \in endpoints, s \in servers :
                       s.uuid = uuid /\ e.id = i.endpoint /\ s.id = e.server
  BY <1>1, <1>2 DEF OwnEndpoint
<1>4. QED
  BY <1>1, <1>2, <1>3 DEF Attached, ServersOf

LEMMA DropsIpSpares ==
    ASSUME RowsOK, NEW t \in Tasks, DropsIp(t), NEW ip, NEW uuid,
           uuid # Body[t].uuid \/ ip # Body[t].ip
    PROVE  Attached(ip, uuid)' = Attached(ip, uuid)
<1>1. \A i \in Attached(Body[t].ip, Body[t].uuid) : i \notin Attached(ip, uuid)
  BY DEF RowsOK, Attached, ServersOf
<1>2. QED
  BY <1>1 DEF DropsIp, Attached, ServersOf

LEMMA DropsEndpointsSpares ==
    ASSUME NEW t \in Tasks, DropsEndpoints(t), NEW ip, NEW uuid
    PROVE  Attached(ip, uuid)' = Attached(ip, uuid)
BY DEF DropsEndpoints, EmptyEndpoints, IpsOn, Attached, ServersOf

LEMMA DropsServerSpares ==
    ASSUME RowsOK, NEW t \in Tasks, DropsServer(t), NEW ip, NEW uuid, uuid # Body[t].uuid
    PROVE  Attached(ip, uuid)' = Attached(ip, uuid)
<1>1. PICK server : /\ \A s \in servers : s.id = server => s.uuid = Body[t].uuid
                    /\ DeleteServer(server)
  BY DEF DropsServer
<1>2. Attached(ip, uuid)' \subseteq Attached(ip, uuid)
  BY <1>1 DEF DeleteServer, EndpointsOf, Attached, ServersOf
<1>3. ASSUME NEW i \in Attached(ip, uuid)
      PROVE  i \in Attached(ip, uuid)'
  <2>1. PICK e \in endpoints, s \in servers : s.uuid = uuid /\ e.id = i.endpoint /\ s.id = e.server
    BY <1>3 DEF Attached, ServersOf
  <2>2. e.server # server
    BY <1>1, <2>1
  <2>3. e \in endpoints' /\ s \in servers'
    BY <1>1, <2>1, <2>2 DEF DeleteServer, EndpointsOf
  <2>4. i \in ips'
    BY <1>1, <1>3, <2>1, <2>2 DEF DeleteServer, EndpointsOf, Attached, RowsOK
  <2>5. QED
    BY <1>3, <2>1, <2>3, <2>4 DEF Attached, ServersOf
<1>4. QED
  BY <1>2, <1>3

LEMMA PutsServerSpares ==
    ASSUME RowsOK, NEW t \in Tasks, PutsServer(t), NEW ip, NEW uuid
    PROVE  Attached(ip, uuid)' = Attached(ip, uuid)
<1>1. PICK s : s.id = serial /\ servers' = servers \cup {s} /\ UNCHANGED <<endpoints, ips>>
  BY DEF PutsServer
<1>2. \A e \in endpoints : e.server # serial
  BY DEF RowsOK
<1>3. QED
  BY <1>1, <1>2 DEF Attached, ServersOf

LEMMA UpdatesSpares ==
    ASSUME NEW t \in Tasks, NEW F, Updates(t, F), NEW ip, NEW uuid
    PROVE  Attached(ip, uuid)' = Attached(ip, uuid)
<1>1. PICK new : servers' = {new[s] : s \in servers} /\ \A s \in servers : Renews(t, F, s, new[s])
  BY DEF Updates
<1>2. QED
  BY <1>1 DEF Updates, Renews, Attached, ServersOf

LEMMA SparesAddresses ==
    ASSUME RowsOK, NEW t \in Tasks, Touches(t), NEW ip, NEW uuid,
           \/ uuid # Body[t].uuid \/ Body[t].kind = "resize"
           \/ Body[t].kind \in {"attach", "detach"} /\ ip # Body[t].ip
    PROVE  Attached(ip, uuid)' = Attached(ip, uuid)
<1>1. CASE UNCHANGED cmdb
  BY <1>1 DEF cmdb, Attached, ServersOf
<1>2. CASE Body[t].kind \in {"attach", "create"} /\ PutsIp(t)
  BY <1>2, PutsIpSpares
<1>3. CASE Body[t].kind = "detach" /\ DropsIp(t)
  BY <1>3, DropsIpSpares
<1>4. CASE Body[t].kind \in {"create", "delete"} /\ DropsServer(t)
  BY <1>4, DropsServerSpares
<1>5. QED
  BY <1>1, <1>2, <1>3, <1>4, SetsMacSpares, PutsEndpointSpares, DropsEndpointsSpares,
     PutsServerSpares, UpdatesSpares DEF Touches

\* Attaching takes no address away, and detaching puts none.
LEMMA SameKindSpares ==
    ASSUME RowsOK, NEW t \in Tasks, Touches(t), NEW ip, NEW uuid
    PROVE  /\ Body[t].kind = "attach" => Attached(ip, uuid) \subseteq Attached(ip, uuid)'
           /\ Body[t].kind = "detach" => Attached(ip, uuid)' \subseteq Attached(ip, uuid)
<1>1. CASE UNCHANGED cmdb
  BY <1>1 DEF cmdb, Attached, ServersOf
<1>2. CASE Body[t].kind = "attach" /\ PutsIp(t)
  <2>1. ips \subseteq ips' /\ UNCHANGED <<servers, endpoints>>
    BY <1>2 DEF PutsIp, InsertIp
  <2>2. QED
    BY <1>2, <2>1 DEF Attached, ServersOf
<1>3. CASE Body[t].kind = "detach" /\ DropsIp(t)
  <2>1. ips' \subseteq ips /\ UNCHANGED <<servers, endpoints>>
    BY <1>3 DEF DropsIp
  <2>2. QED
    BY <1>3, <2>1 DEF Attached, ServersOf
<1>4. CASE SetsMac
  BY <1>4, SetsMacSpares
<1>5. CASE PutsEndpoint(t)
  BY <1>5, PutsEndpointSpares
<1>6. CASE DropsEndpoints(t)
  BY <1>6, DropsEndpointsSpares
<1>7. CASE Body[t].kind \notin {"attach", "detach"}
  BY <1>7
<1>8. QED
  BY <1>1, <1>2, <1>3, <1>4, <1>5, <1>6, <1>7 DEF Touches

\* An effect stands whatever a task that may not undo it does.
LEMMA EffectKept ==
    ASSUME RowsOK, NEW t \in Tasks, NEW u \in Tasks, Touches(t), u # t, ~Overrides(t, u),
           HasEffect(u)
    PROVE  HasEffect(u)'
<1>1. CASE Body[t].uuid # Body[u].uuid
  <2>1. ServersOf(Body[u].uuid)' = ServersOf(Body[u].uuid)
    BY <1>1, SparesServers
  <2>2. Attached(Body[u].ip, Body[u].uuid)' = Attached(Body[u].ip, Body[u].uuid)
    BY <1>1, SparesAddresses
  <2>3. QED
    BY <2>1, <2>2 DEF HasEffect
<1>2. CASE Body[t].uuid = Body[u].uuid
  <2>1. Body[t].kind \in {"attach", "detach", "resize"}
    BY <1>2, InstanceAssumption DEF Overrides
  <2>2. CASE Body[u].kind = "attach"
    <3>1. Attached(Body[u].ip, Body[u].uuid) # {} => Attached(Body[u].ip, Body[u].uuid)' # {}
      <4>1. CASE Body[t].kind = "attach"
        BY <4>1, SameKindSpares
      <4>2. CASE Body[t].kind # "attach"
        <5>1. Body[t].kind = "detach" => Body[t].ip # Body[u].ip
          BY <1>2, <2>2 DEF Overrides, IsPort
        <5>2. QED
          BY <2>1, <4>2, <5>1, SparesAddresses
      <4>3. QED
        BY <4>1, <4>2
    <3>2. ServersOf(Body[u].uuid)' # {} => ServersOf(Body[u].uuid) # {}
      <4>1. CASE UNCHANGED servers
        BY <4>1 DEF ServersOf
      <4>2. CASE Updates(t, Body[t].sets)
        BY <4>2 DEF Updates, Renews, ServersOf
      <4>3. QED
        BY <2>1, <4>1, <4>2 DEF Touches, cmdb, SetsMac, PutsEndpoint, PutsIp, DropsIp, DropsEndpoints
    <3>3. QED
      BY <2>2, <3>1, <3>2 DEF HasEffect
  <2>3. CASE Body[u].kind = "detach"
    <3>1. CASE Body[t].kind = "detach"
      BY <2>3, <3>1, SameKindSpares DEF HasEffect
    <3>2. CASE Body[t].kind # "detach"
      <4>1. Body[t].kind = "attach" => Body[t].ip # Body[u].ip
        BY <1>2, <2>3 DEF Overrides, IsPort
      <4>2. Attached(Body[u].ip, Body[u].uuid)' = Attached(Body[u].ip, Body[u].uuid)
        BY <2>1, <3>2, <4>1, SparesAddresses
      <4>3. QED
        BY <2>3, <4>2 DEF HasEffect
    <3>3. QED
      BY <3>1, <3>2
  <2>4. CASE Body[u].kind \in {"create", "delete", "resize"} /\ UNCHANGED servers
    BY <2>4 DEF HasEffect, ServersOf
  <2>5. CASE Body[u].kind \in {"create", "delete", "resize"} /\ Body[t].kind = "resize"
    <3>1. CASE Updates(t, Body[t].sets)
      <4>1. PICK new : /\ servers' = {new[s] : s \in servers}
                       /\ \A s \in servers : Renews(t, Body[t].sets, s, new[s])
        BY <3>1 DEF Updates
      <4>2. Body[u].kind = "create" => HasEffect(u)'
        <5>1. SUFFICES ASSUME Body[u].kind = "create" PROVE HasEffect(u)'
          OBVIOUS
        <5>2. PICK s \in ServersOf(Body[u].uuid) : s.state \in {"ready", "error"}
          BY <5>1 DEF HasEffect
        <5>3. new[s] \in ServersOf(Body[u].uuid)' /\ new[s].state = s.state
          BY <2>5, <4>1, <5>2 DEF Renews, ServersOf
        <5>4. QED
          BY <5>1, <5>2, <5>3 DEF HasEffect
      <4>3. Body[u].kind = "delete" => HasEffect(u)'
        BY <4>1 DEF Renews, ServersOf, HasEffect
      <4>4. Body[u].kind = "resize" => HasEffect(u)'
        <5>1. SUFFICES ASSUME Body[u].kind = "resize", NEW s \in ServersOf(Body[u].uuid)',
                              NEW f \in Body[u].sets
                       PROVE  s.fields[f] = u
          BY DEF HasEffect
        <5>2. PICK r \in ServersOf(Body[u].uuid) : Renews(t, Body[t].sets, r, s)
          BY <4>1 DEF ServersOf, Renews
        <5>3. f \in {"price", "flavor"} \ Body[t].sets
          BY <1>2, <2>5, <5>1, InstanceAssumption DEF Overrides
        <5>4. r.fields[f] = u
          BY <5>1, <5>2 DEF HasEffect
        <5>5. QED
          BY <5>2, <5>3, <5>4 DEF Renews
      <4>5. QED
        BY <2>5, <4>2, <4>3, <4>4
    <3>2. CASE UNCHANGED cmdb
      BY <2>4, <2>5, <3>2 DEF cmdb
    <3>3. QED
      BY <2>5, <3>1, <3>2 DEF Touches
  <2>6. QED
    <3>1. Body[t].kind # "resize" => UNCHANGED servers
      BY <2>1 DEF Touches, cmdb, SetsMac, PutsEndpoint, PutsIp, DropsIp, DropsEndpoints
    <3>2. QED
      BY <2>1, <2>2, <2>3, <2>4, <2>5, <3>1, InstanceAssumption
<1>3. QED
  BY <1>1, <1>2

-----------------------------------------------------------------------------
(* attach and detach                                                       *)

\* What is known when t makes its call, and what is to be shown of the step.
Working(t) ==
    CarriedOK /\ RowsOK /\ HostsOK /\ pc[t] \in CallsOf(t) /\ At(t)

Lands(t) ==
    /\ Touches(t) /\ CarriedOK' /\ UNCHANGED overridden
    /\ \A u \in Tasks \ {t} : pc'[u] = pc[u]
    /\ pc'[t] \in CallsOf(t) \cup Ended
    /\ pc'[t] \notin Ended => At(t)'
    /\ pc'[t] = "acked" => HasEffect(t)'

LEMMA Going ==
    ASSUME CarriedOK, NEW t \in Tasks, NEW p, GoTo(t, p)
    PROVE  /\ pc' = [u \in Tasks |-> pc'[u]] /\ pc'[t] = p
           /\ \A u \in Tasks \ {t} : pc'[u] = pc[u]
BY DEF CarriedOK, GoTo

PlansOK == plan = [u \in Tasks |-> plan[u]] /\ \A u \in Tasks : IsPlan(plan[u])

LEMMA PlanCarried ==
    ASSUME CarriedOK, NEW t \in Tasks, NEW new, IsPlan(new), plan' = [plan EXCEPT ![t] = new]
    PROVE  PlansOK' /\ plan'[t] = new
<1>1. plan = [u \in Tasks |-> plan[u]] /\ \A u \in Tasks : IsPlan(plan[u])
  BY DEF CarriedOK
<1>2. /\ plan' = [u \in Tasks |-> plan'[u]] /\ plan'[t] = new
      /\ \A u \in Tasks \ {t} : plan'[u] = plan[u]
  BY <1>1
<1>3. QED
  BY <1>1, <1>2 DEF PlansOK

\* A plan with one part of it changed.
LEMMA PlanParts ==
    ASSUME NEW p, IsPlan(p), NEW x, NEW q
    PROVE  /\ q = [p EXCEPT !.endpoint = x] =>
                 /\ IsPlan(q) /\ q.server = p.server /\ q.endpoint = x /\ q.fill = p.fill
                 /\ q.name = p.name /\ q.used = p.used /\ q.prefix = p.prefix
           /\ q = [p EXCEPT !.prefix = x] =>
                 /\ IsPlan(q) /\ q.server = p.server /\ q.endpoint = p.endpoint
                 /\ q.fill = p.fill /\ q.name = p.name /\ q.used = p.used /\ q.prefix = x
<1>1. PICK f : f = p.fill
  OBVIOUS
<1>2. p = [server |-> p.server, endpoint |-> p.endpoint, fill |-> f, name |-> p.name,
           used |-> p.used, prefix |-> p.prefix]
  BY <1>1 DEF IsPlan
<1>3. [p EXCEPT !.endpoint = x] =
          [server |-> p.server, endpoint |-> x, fill |-> f, name |-> p.name,
           used |-> p.used, prefix |-> p.prefix]
  BY <1>2
<1>4. [p EXCEPT !.prefix = x] =
          [server |-> p.server, endpoint |-> p.endpoint, fill |-> f, name |-> p.name,
           used |-> p.used, prefix |-> x]
  BY <1>2
<1>5. QED
  BY <1>1, <1>3, <1>4 DEF IsPlan

LEMMA EndpointPlanned ==
    ASSUME CarriedOK, NEW t \in Tasks, NEW x, plan' = [plan EXCEPT ![t].endpoint = x]
    PROVE  /\ PlansOK' /\ plan'[t].endpoint = x /\ plan'[t].server = plan[t].server
           /\ plan'[t].fill = plan[t].fill /\ plan'[t].name = plan[t].name
           /\ plan'[t].used = plan[t].used /\ plan'[t].prefix = plan[t].prefix
<1>1. PICK new : new = [plan[t] EXCEPT !.endpoint = x] /\ plan' = [plan EXCEPT ![t] = new]
  OBVIOUS
<1>2. IsPlan(plan[t])
  BY DEF CarriedOK
<1>3. /\ IsPlan(new) /\ new.endpoint = x /\ new.server = plan[t].server
      /\ new.fill = plan[t].fill /\ new.name = plan[t].name
      /\ new.used = plan[t].used /\ new.prefix = plan[t].prefix
  BY <1>1, <1>2, PlanParts
<1>4. QED
  BY <1>1, <1>3, PlanCarried

LEMMA PrefixPlanned ==
    ASSUME CarriedOK, NEW t \in Tasks, NEW x, plan' = [plan EXCEPT ![t].prefix = x]
    PROVE  /\ PlansOK' /\ plan'[t].endpoint = plan[t].endpoint /\ plan'[t].server = plan[t].server
           /\ plan'[t].fill = plan[t].fill /\ plan'[t].name = plan[t].name
           /\ plan'[t].used = plan[t].used /\ plan'[t].prefix = x
<1>1. PICK new : new = [plan[t] EXCEPT !.prefix = x] /\ plan' = [plan EXCEPT ![t] = new]
  OBVIOUS
<1>2. IsPlan(plan[t])
  BY DEF CarriedOK
<1>3. /\ IsPlan(new) /\ new.endpoint = plan[t].endpoint /\ new.server = plan[t].server
      /\ new.fill = plan[t].fill /\ new.name = plan[t].name
      /\ new.used = plan[t].used /\ new.prefix = x
  BY <1>1, <1>2, PlanParts
<1>4. QED
  BY <1>1, <1>3, PlanCarried

LEMMA PlansKept == CarriedOK /\ UNCHANGED plan => PlansOK'
BY DEF CarriedOK, PlansOK

LEMMA PortLands ==
    ASSUME NEW t \in Tasks, Working(t), IsPort(t), NEW p \in CallsOf(t) \cup Ended, GoTo(t, p),
           Touches(t), PlansOK', UNCHANGED <<work, overridden>>,
           Body[t].kind = "attach" /\ p \in Attaching => PlanHolds(t)',
           Body[t].kind = "detach" /\ p = "delete endpoints"
               => Attached(Body[t].ip, Body[t].uuid)' = {},
           p = "acked" => HasEffect(t)'
    PROVE  Lands(t)
<1>1. /\ pc' = [u \in Tasks |-> pc'[u]] /\ pc'[t] = p
      /\ \A u \in Tasks \ {t} : pc'[u] = pc[u]
  BY Going DEF Working
<1>2. CarriedOK'
  BY <1>1 DEF CarriedOK, PlansOK, Working
<1>3. At(t)'
  BY <1>1 DEF At, AttachAt, DetachAt, IsPort
<1>4. QED
  BY <1>1, <1>2, <1>3 DEF Lands

\* The calls of a port message without an answer go on, start over or end.
LEMMA PortUnanswered ==
    ASSUME NEW t \in Tasks, Ports!NoReply(t)
    PROVE  /\ UNCHANGED plan
           /\ \E p \in {Ports!Again(pc[t]), Ports!FirstCall(t), "dead"} : GoTo(t, p)
BY DEF Ports!NoReply, Ports!Interrupted, Ports!Rerun, Ports!Refused, Ports!GoTo, GoTo

LEMMA PortCalls ==
    ASSUME NEW t \in Tasks, pc[t] \in CallsOf(t)
    PROVE  /\ Body[t].kind = "attach" =>
                 /\ Ports!FirstCall(t) = "select server"
                 /\ Ports!Again(pc[t]) \in CallsOf(t)
                 /\ Ports!Again(pc[t]) \in Attaching => pc[t] \in Attaching
           /\ Body[t].kind = "detach" =>
                 Ports!FirstCall(t) = "delete ip" /\ Ports!Again(pc[t]) = pc[t]
BY DEF Ports!FirstCall, Ports!Again, CallsOf, Attaching

\* The tables may have changed or not, as long as the plan holds in them.
LEMMA UnansweredLands ==
    ASSUME NEW t \in Tasks, Working(t), IsPort(t), Ports!NoReply(t),
           Touches(t), UNCHANGED <<work, overridden>>,
           Body[t].kind = "attach" /\ pc[t] \in Attaching => PlanHolds(t)',
           Body[t].kind = "detach" /\ pc[t] = "delete endpoints"
               => Attached(Body[t].ip, Body[t].uuid)' = {}
    PROVE  Lands(t)
<1>1. UNCHANGED plan /\ PlansOK'
  BY PortUnanswered, PlansKept DEF Working
<1>2. PICK p \in {Ports!Again(pc[t]), Ports!FirstCall(t), "dead"} : GoTo(t, p)
  BY PortUnanswered
<1>3. pc[t] \in CallsOf(t)
  BY DEF Working
<1>4. CASE Body[t].kind = "attach"
  <2>1. /\ p \in CallsOf(t) \cup Ended /\ p # "acked"
        /\ p \in Attaching => pc[t] \in Attaching
    BY <1>2, <1>3, <1>4, PortCalls DEF CallsOf, Attaching, Ended
  <2>2. QED
    BY <1>1, <1>2, <1>4, <2>1, PortLands
<1>5. CASE Body[t].kind = "detach"
  <2>1. p \in {"delete ip", pc[t], "dead"} /\ p # "acked" /\ p \in CallsOf(t) \cup Ended
    BY <1>2, <1>3, <1>5, PortCalls DEF CallsOf, Ended
  <2>2. QED
    BY <1>1, <1>2, <1>5, <2>1, PortLands
<1>6. QED
  BY <1>4, <1>5 DEF IsPort

LEMMA AttachCalls ==
    ASSUME NEW t \in Tasks, Body[t].kind = "attach"
    PROVE  IsPort(t) /\ CallsOf(t) = {"select server"} \cup Attaching
BY DEF CallsOf, IsPort

LEMMA PlanHoldsStill ==
    ASSUME NEW t \in Tasks, PlanHolds(t), UNCHANGED <<servers, endpoints, serial>>,
           plan'[t].endpoint = plan[t].endpoint, plan'[t].server = plan[t].server
    PROVE  PlanHolds(t)'
BY DEF PlanHolds, ServersOf

\* So it does in tables with new rows.
LEMMA PlanHoldsOn ==
    ASSUME RowsOK, NEW t \in Tasks, PlanHolds(t), UNCHANGED <<servers, plan>>,
           serial' \in {serial, serial + 1},
           \A e \in endpoints' :
              e.id = serial \/ \E d \in endpoints : d.id = e.id /\ d.server = e.server
    PROVE  PlanHolds(t)'
<1>1. serial \in Nat /\ plan[t].endpoint \in 0 .. serial - 1
  BY DEF RowsOK, PlanHolds
<1>2. plan[t].endpoint \in 0 .. serial' - 1 /\ plan[t].endpoint # serial
  BY <1>1
<1>3. \A e \in endpoints' : e.id = plan[t].endpoint => e.server = plan[t].server
  BY <1>2 DEF PlanHolds
<1>4. QED
  BY <1>2, <1>3 DEF PlanHolds, ServersOf

\* What is written there is of the instance of t.
LEMMA PlanIsOwn ==
    ASSUME RowsOK, NEW t \in Tasks, PlanHolds(t)
    PROVE  OwnServer(t, plan[t].server) /\ OwnEndpoint(t, plan[t].endpoint)
<1>1. PICK s \in servers : s.uuid = Body[t].uuid /\ s.id = plan[t].server
  BY DEF PlanHolds, ServersOf
<1>2. s.id \in 0 .. serial - 1 /\ \A r \in servers : r.id = s.id => r = s
  BY DEF RowsOK
<1>3. QED
  BY <1>1, <1>2 DEF PlanHolds, OwnServer, OwnEndpoint

\* A lookup goes on with the plan as it is, or finds the address there.
LEMMA LookupLands ==
    ASSUME NEW t \in Tasks, Working(t), Body[t].kind = "attach", pc[t] \in Attaching,
           NEW p \in Attaching \cup {"acked"}, GoTo(t, p),
           p = "acked" => Attached(Body[t].ip, Body[t].uuid) # {},
           UNCHANGED <<cmdb, plan, work, overridden>>
    PROVE  Lands(t)
<1>1. PlanHolds(t)'
  BY PlanHoldsStill DEF Working, At, AttachAt, cmdb
<1>2. p = "acked" => HasEffect(t)'
  BY DEF HasEffect, Attached, ServersOf, cmdb
<1>3. Touches(t) /\ PlansOK'
  BY PlansKept DEF Touches, Working
<1>4. p \in CallsOf(t) \cup Ended
  BY AttachCalls DEF Ended
<1>5. QED
  BY <1>1, <1>2, <1>3, <1>4, PortLands, AttachCalls

LEMMA SelectServerLands ==
    ASSUME NEW t \in Tasks, Working(t), Body[t].kind = "attach", Ports!SelectServer(t),
           UNCHANGED <<work, overridden>>
    PROVE  Lands(t)
<1>1. Touches(t)
  BY DEF Touches, Ports!SelectServer, Ports!cmdb, cmdb
<1>2. CASE ServersOf(Body[t].uuid) = {} /\ GoTo(t, "acked") /\ UNCHANGED plan
  <2>1. HasEffect(t)'
    BY <1>2 DEF HasEffect, ServersOf, Ports!SelectServer, Ports!cmdb
  <2>2. PlansOK'
    BY <1>2, PlansKept DEF Working
  <2>3. QED
    BY <1>1, <1>2, <2>1, <2>2, PortLands, AttachCalls DEF Ended, Attaching
<1>3. ASSUME NEW s \in ServersOf(Body[t].uuid), Ports!Plan(t, s.id), GoTo(t, "find ip")
      PROVE  Lands(t)
  <2>1. PICK e, f, n, u :
           /\ e = 0 \/ \E c \in endpoints : c.server = s.id /\ c.id = e
           /\ plan' = [plan EXCEPT ![t] = [server |-> s.id, endpoint |-> e, fill |-> f,
                                           name |-> n, used |-> u, prefix |-> None]]
    <3> DEFINE cards == Ports!EndpointsOf(s.id)
               usable == Ports!Usable(Body[t].mac, cards)
               f == Body[t].mac # Ports!None /\ \A c \in cards : c.mac # Body[t].mac
               n == Ports!next_bond_name({c.name : c \in cards})
               u == {i.type : i \in {j \in ips : \E c \in cards : j.endpoint = c.id}}
    <3>1. PICK e \in IF usable # {} THEN {c.id : c \in usable} ELSE {Ports!NoRow} :
             plan' = [plan EXCEPT ![t] = [server |-> s.id, endpoint |-> e, fill |-> f,
                                          name |-> n, used |-> u, prefix |-> Ports!None]]
      BY <1>3 DEF Ports!Plan
    <3>2. e = 0 \/ \E c \in endpoints : c.server = s.id /\ c.id = e
      BY DEF Ports!Usable, Ports!EndpointsOf, Ports!NoRow
    <3>3. QED
      BY <3>1, <3>2 DEF Ports!None, None
  <2>2. PICK new : new = [server |-> s.id, endpoint |-> e, fill |-> f,
                          name |-> n, used |-> u, prefix |-> None]
    OBVIOUS
  <2>3. IsPlan(new) /\ new.server = s.id /\ new.endpoint = e
    BY <2>2 DEF IsPlan
  <2>4. PlansOK' /\ plan'[t] = new
    BY <2>1, <2>2, <2>3, PlanCarried DEF Working
  <2>5. PlanHolds(t)'
    <3>1. UNCHANGED cmdb
      BY DEF Ports!SelectServer, Ports!cmdb, cmdb
    <3>2. e \in 0 .. serial - 1
      BY <2>1 DEF Working, RowsOK
    <3>3. \A d \in endpoints : d.id = e => d.server = s.id
      BY <2>1 DEF Working, RowsOK
    <3>4. QED
      BY <2>3, <2>4, <3>1, <3>2, <3>3 DEF PlanHolds, cmdb, ServersOf
  <2>6. QED
    BY <1>1, <1>3, <2>4, <2>5, PortLands, AttachCalls DEF Ended, Attaching
<1>4. QED
  BY <1>2, <1>3 DEF Ports!SelectServer, Ports!Reply, Ports!ServersOf, ServersOf, Ports!GoTo, GoTo

LEMMA FindAttachedIpLands ==
    ASSUME NEW t \in Tasks, Working(t), Body[t].kind = "attach", Ports!FindAttachedIp(t),
           UNCHANGED <<work, overridden>>
    PROVE  Lands(t)
<1>1. PICK p \in {"acked", "find prefix"} :
         GoTo(t, p) /\ (p = "acked" => Attached(Body[t].ip, Body[t].uuid) # {})
  BY DEF Ports!FindAttachedIp, Ports!Reply, Ports!AttachedNow, Ports!Attached, Ports!ServersOf,
         Attached, ServersOf, Ports!GoTo, GoTo
<1>2. UNCHANGED <<cmdb, plan>> /\ pc[t] \in Attaching
  BY DEF Ports!FindAttachedIp, Ports!cmdb, cmdb, Attaching
<1>3. QED
  BY <1>1, <1>2, LookupLands DEF Attaching

LEMMA ReselectAttachedLands ==
    ASSUME NEW t \in Tasks, Working(t), Body[t].kind = "attach", Ports!ReselectAttached(t),
           UNCHANGED <<work, overridden>>
    PROVE  Lands(t)
<1>1. PICK p \in {"acked", "reselect name"} :
         GoTo(t, p) /\ (p = "acked" => Attached(Body[t].ip, Body[t].uuid) # {})
  BY DEF Ports!ReselectAttached, Ports!Reply, Ports!AttachedNow, Ports!Attached, Ports!ServersOf,
         Attached, ServersOf, Ports!GoTo, GoTo
<1>2. UNCHANGED <<cmdb, plan>> /\ pc[t] \in Attaching
  BY DEF Ports!ReselectAttached, Ports!cmdb, cmdb, Attaching
<1>3. QED
  BY <1>1, <1>2, LookupLands DEF Attaching

LEMMA ReselectIpLands ==
    ASSUME NEW t \in Tasks, Working(t), Body[t].kind = "attach", Ports!ReselectIp(t),
           UNCHANGED <<work, overridden>>
    PROVE  Lands(t)
<1>1. PICK p \in {"acked", "insert ip"} :
         GoTo(t, p) /\ (p = "acked" => Attached(Body[t].ip, Body[t].uuid) # {})
  BY DEF Ports!ReselectIp, Ports!Reply, Ports!AttachedNow, Ports!Attached, Ports!ServersOf,
         Attached, ServersOf, Ports!GoTo, GoTo
<1>2. UNCHANGED <<cmdb, plan>> /\ pc[t] \in Attaching
  BY DEF Ports!ReselectIp, Ports!cmdb, cmdb, Attaching
<1>3. QED
  BY <1>1, <1>2, LookupLands DEF Attaching

\* The plan keeps its server and endpoint, and so does the table.
LEMMA PlannedOnLands ==
    ASSUME NEW t \in Tasks, Working(t), Body[t].kind = "attach", pc[t] \in Attaching,
           NEW p \in Attaching, GoTo(t, p), Touches(t), PlansOK', UNCHANGED <<work, overridden>>,
           PlanHolds(t)'
    PROVE  Lands(t)
BY PortLands, AttachCalls DEF Attaching

LEMMA AttachFindPrefixLands ==
    ASSUME NEW t \in Tasks, Working(t), Body[t].kind = "attach", Ports!FindPrefix(t),
           UNCHANGED <<work, overridden>>
    PROVE  Lands(t)
<1>1. PICK p \in {"insert endpoint", "update endpoint", "insert ip"} : GoTo(t, p)
  BY DEF Ports!FindPrefix, Ports!GoTo, GoTo
<1>2. pc[t] = "find prefix" /\ UNCHANGED cmdb
  BY DEF Ports!FindPrefix, Ports!cmdb, cmdb
<1>3. /\ PlansOK' /\ plan'[t].endpoint = plan[t].endpoint
      /\ plan'[t].server = plan[t].server
  <2>1. CASE UNCHANGED plan
    BY <2>1, PlansKept DEF Working
  <2>2. CASE plan' = [plan EXCEPT ![t].prefix = PrefixOf[Body[t].ip]]
    BY <2>2, PrefixPlanned DEF Working
  <2>3. QED
    BY <2>1, <2>2 DEF Ports!FindPrefix
<1>4. PlanHolds(t)'
  BY <1>2, <1>3, PlanHoldsStill DEF Working, At, AttachAt, cmdb, Attaching
<1>5. QED
  BY <1>1, <1>2, <1>3, <1>4, PlannedOnLands DEF Touches, Attaching

LEMMA UpdateEndpointLands ==
    ASSUME NEW t \in Tasks, Working(t), Body[t].kind = "attach", Ports!UpdateEndpoint(t),
           UNCHANGED <<work, overridden>>
    PROVE  Lands(t)
<1>1. pc[t] = "update endpoint" /\ UNCHANGED <<servers, ips, serial>>
  BY DEF Ports!UpdateEndpoint
<1>2. CASE UNCHANGED endpoints
  <2>1. Touches(t)
    BY <1>1, <1>2 DEF Touches, cmdb
  <2>2. PlanHolds(t) /\ (UNCHANGED plan => PlanHolds(t)')
    BY <1>1, <1>2, PlanHoldsStill DEF Working, At, AttachAt, Attaching
  <2>3. CASE Ports!NoReply(t)
    BY <1>1, <2>1, <2>2, <2>3, UnansweredLands, PortUnanswered, AttachCalls DEF Attaching
  <2>4. CASE Ports!Reply(t, "insert ip") /\ UNCHANGED plan
    <3>1. GoTo(t, "insert ip") /\ PlansOK'
      BY <2>4, PlansKept DEF Ports!Reply, Ports!GoTo, GoTo, Working
    <3>2. QED
      BY <1>1, <2>1, <2>2, <2>4, <3>1, PlannedOnLands DEF Attaching
  <2>5. QED
    BY <2>3, <2>4 DEF Ports!UpdateEndpoint
<1>3. CASE \E endpoint, mac : SetMac(endpoint, mac)
  <2>1. Touches(t)
    BY <1>1, <1>3 DEF Touches, SetsMac
  <2>2. UNCHANGED plan => PlanHolds(t)'
    <3>1. PICK endpoint, mac : SetMac(endpoint, mac)
      BY <1>3
    <3>2. DEFINE new == [e \in endpoints |->
                            [id |-> e.id, server |-> e.server, name |-> e.name,
                             mac |-> IF e.id = endpoint THEN mac ELSE e.mac]]
    <3>3. /\ endpoints' = {new[e] : e \in endpoints}
          /\ \A e \in endpoints : new[e].id = e.id /\ new[e].server = e.server
      BY <3>1 DEF SetMac
    <3>4. HIDE DEF new
    <3>5. PlanHolds(t)
      BY <1>1 DEF Working, At, AttachAt, Attaching
    <3>6. QED
      BY <1>1, <3>3, <3>5, PlanHoldsOn DEF Working
  <2>3. CASE Ports!NoReply(t)
    BY <1>1, <2>1, <2>2, <2>3, UnansweredLands, PortUnanswered, AttachCalls DEF Attaching
  <2>4. CASE Ports!Reply(t, "insert ip") /\ UNCHANGED plan
    <3>1. GoTo(t, "insert ip") /\ PlansOK'
      BY <2>4, PlansKept DEF Ports!Reply, Ports!GoTo, GoTo, Working
    <3>2. QED
      BY <1>1, <2>1, <2>2, <2>4, <3>1, PlannedOnLands DEF Attaching
  <2>5. QED
    BY <2>3, <2>4 DEF Ports!UpdateEndpoint
<1>4. \A endpoint, mac : Ports!SetMac(endpoint, mac) <=> SetMac(endpoint, mac)
  BY DEF Ports!SetMac, SetMac
<1>5. CASE plan[t].fill
  BY <1>3, <1>4, <1>5 DEF Ports!UpdateEndpoint
<1>6. CASE ~plan[t].fill
  BY <1>2, <1>6 DEF Ports!UpdateEndpoint
<1>7. QED
  BY <1>5, <1>6

LEMMA CreateEndpointLands ==
    ASSUME NEW t \in Tasks, Working(t), Body[t].kind = "attach", Ports!CreateEndpoint(t),
           UNCHANGED <<work, overridden>>
    PROVE  Lands(t)
<1>1. pc[t] = "insert endpoint" /\ PlanHolds(t)
  BY DEF Ports!CreateEndpoint, Working, At, AttachAt, Attaching
<1>2. CASE Ports!Refused(t) /\ UNCHANGED <<cmdb, plan>>
  BY <1>2, PortLands, PlansKept, AttachCalls
     DEF Ports!Refused, Ports!GoTo, GoTo, Touches, Working, Ended, Attaching
<1>3. CASE /\ CanInsertEndpoint(plan[t].server, plan[t].name)
           /\ InsertEndpoint(plan[t].server, plan[t].name, Body[t].mac)
           /\ UNCHANGED <<servers, ips>>
  <2>1. PutsEndpoint(t)
    BY <1>1, <1>3, PlanIsOwn DEF PutsEndpoint, CanInsertEndpoint, Working
  <2>2. PICK e : /\ e.id = serial /\ e.server = plan[t].server
                 /\ endpoints' = endpoints \cup {e} /\ serial' = serial + 1
    BY <1>3 DEF InsertEndpoint
  <2>3. Touches(t)
    BY <2>1 DEF Touches
  <2>4. CASE Ports!NoReply(t)
    <3>1. PlanHolds(t)'
      BY <1>1, <1>3, <2>2, <2>4, PortUnanswered, PlanHoldsOn DEF Working
    <3>2. QED
      BY <2>3, <2>4, <3>1, UnansweredLands, AttachCalls
  <2>5. CASE GoTo(t, "insert ip") /\ plan' = [plan EXCEPT ![t].endpoint = serial]
    <3>1. PlansOK' /\ plan'[t].endpoint = serial /\ plan'[t].server = plan[t].server
      BY <2>5, EndpointPlanned DEF Working
    <3>2. \A d \in endpoints : d.id # serial
      BY DEF Working, RowsOK
    <3>3. PlanHolds(t)'
      <4>1. serial \in 0 .. serial' - 1
        BY <2>2 DEF Working, RowsOK
      <4>2. \A d \in endpoints' : d.id = serial => d.server = plan[t].server
        BY <2>2, <3>2
      <4>3. \E s \in ServersOf(Body[t].uuid)' : s.id = plan[t].server
        BY <1>1, <1>3 DEF PlanHolds, ServersOf
      <4>4. QED
        BY <3>1, <4>1, <4>2, <4>3 DEF PlanHolds
    <3>4. QED
      BY <1>1, <2>3, <2>5, <3>1, <3>3, PlannedOnLands DEF Attaching
  <2>6. QED
    BY <1>3, <2>4, <2>5
       DEF Ports!CreateEndpoint, Ports!Reply, Ports!GoTo, GoTo, Ports!CanInsertEndpoint,
           CanInsertEndpoint, Ports!EndpointsOf, EndpointsOf
<1>4. QED
  BY <1>2, <1>3
     DEF Ports!CreateEndpoint, Ports!CanInsertEndpoint, CanInsertEndpoint, Ports!EndpointsOf,
         EndpointsOf, Ports!InsertEndpoint, InsertEndpoint, Ports!cmdb, cmdb

LEMMA ReselectNameLands ==
    ASSUME NEW t \in Tasks, Working(t), Body[t].kind = "attach", Ports!ReselectName(t),
           UNCHANGED <<work, overridden>>
    PROVE  Lands(t)
<1>1. pc[t] = "reselect name" /\ PlanHolds(t) /\ UNCHANGED cmdb
  BY DEF Ports!ReselectName, Working, At, AttachAt, Attaching, Ports!cmdb, cmdb
<1>2. CASE GoTo(t, "insert endpoint") /\ UNCHANGED plan
  BY <1>1, <1>2, LookupLands DEF Attaching
<1>3. ASSUME NEW e \in endpoints, e.server = plan[t].server, GoTo(t, "insert ip"),
             plan' = [plan EXCEPT ![t].endpoint = e.id]
      PROVE  Lands(t)
  <2>1. PlansOK' /\ plan'[t].endpoint = e.id /\ plan'[t].server = plan[t].server
    BY <1>3, EndpointPlanned DEF Working
  <2>2. PlanHolds(t)'
    <3>1. e.id \in 0 .. serial - 1 /\ \A d \in endpoints : d.id = e.id => d = e
      BY DEF Working, RowsOK
    <3>2. QED
      BY <1>1, <1>3, <2>1, <3>1 DEF PlanHolds, ServersOf, cmdb
  <2>3. QED
    BY <1>1, <1>3, <2>1, <2>2, PlannedOnLands DEF Attaching, Touches
<1>4. QED
  BY <1>2, <1>3 DEF Ports!ReselectName, Ports!Reply, Ports!GoTo, GoTo, Ports!EndpointsOf

LEMMA CreateIpLands ==
    ASSUME NEW t \in Tasks, Working(t), Body[t].kind = "attach", Ports!CreateIp(t),
           UNCHANGED <<work, overridden>>
    PROVE  Lands(t)
<1>1. pc[t] = "insert ip" /\ PlanHolds(t)
  BY DEF Ports!CreateIp, Working, At, AttachAt, Attaching
<1>2. CASE Ports!Refused(t) /\ UNCHANGED <<cmdb, plan>>
  BY <1>2, PortLands, PlansKept, AttachCalls
     DEF Ports!Refused, Ports!GoTo, GoTo, Touches, Working, Ended, Attaching
<1>3. ASSUME NEW prefix, NEW type,
             CanInsertIp(Body[t].ip, plan[t].endpoint, prefix),
             InsertIp(Body[t].ip, plan[t].endpoint, prefix, type),
             UNCHANGED <<servers, endpoints>>,
             (GoTo(t, "acked") /\ UNCHANGED plan) \/ Ports!NoReply(t)
      PROVE  Lands(t)
  <2>1. PICK e \in endpoints : e.id = plan[t].endpoint
    BY <1>3 DEF CanInsertIp
  <2>2. PICK s \in ServersOf(Body[t].uuid) : s.id = e.server
    BY <1>1, <2>1 DEF PlanHolds
  <2>3. Touches(t)
    <3>1. OwnEndpoint(t, plan[t].endpoint)
      BY <1>1, PlanIsOwn DEF Working
    <3>2. PutsIp(t)
      BY <1>3, <2>1, <3>1 DEF PutsIp
    <3>3. QED
      BY <3>2 DEF Touches
  <2>4. PICK i : i.ip = Body[t].ip /\ i.endpoint = plan[t].endpoint /\ ips' = ips \cup {i}
    BY <1>3 DEF InsertIp
  <2>5. i \in Attached(Body[t].ip, Body[t].uuid)'
    BY <1>3, <2>1, <2>2, <2>4 DEF Attached, ServersOf
  <2>6. UNCHANGED plan => PlanHolds(t)'
    BY <1>1, <1>3, PlanHoldsOn DEF InsertIp, Working
  <2>7. CASE Ports!NoReply(t)
    BY <2>3, <2>6, <2>7, UnansweredLands, PortUnanswered, AttachCalls
  <2>8. CASE GoTo(t, "acked") /\ UNCHANGED plan
    <3>1. HasEffect(t)'
      BY <2>5 DEF HasEffect
    <3>2. QED
      BY <2>3, <2>8, <3>1, PortLands, PlansKept, AttachCalls DEF Working, Ended, Attaching
  <2>9. QED
    BY <1>3, <2>7, <2>8
<1>4. QED
  BY <1>2, <1>3
     DEF Ports!CreateIp, Ports!CanInsertIp, CanInsertIp, Ports!InsertIp, InsertIp, Ports!IpsOn,
         IpsOn, Ports!None, None, Ports!Reply, Ports!GoTo, GoTo, Ports!cmdb, cmdb

LEMMA DeleteIpLands ==
    ASSUME NEW t \in Tasks, Working(t), Body[t].kind = "detach", Ports!DeleteIp(t),
           UNCHANGED <<work, overridden>>
    PROVE  Lands(t)
<1>1. pc[t] = "delete ip" /\ DropsIp(t)
  BY DEF Ports!DeleteIp, DropsIp, Ports!AttachedNow, Ports!Attached, Ports!ServersOf,
         Attached, ServersOf
<1>2. Touches(t) /\ IsPort(t)
  BY <1>1 DEF Touches, IsPort
<1>3. Attached(Body[t].ip, Body[t].uuid)' = {}
  BY <1>1 DEF DropsIp, Attached, ServersOf
<1>4. CASE Ports!NoReply(t)
  BY <1>1, <1>2, <1>3, <1>4, UnansweredLands
<1>5. CASE GoTo(t, "delete endpoints") /\ UNCHANGED plan
  BY <1>2, <1>3, <1>5, PortLands, PlansKept DEF Working, CallsOf, Ended
<1>6. QED
  BY <1>4, <1>5 DEF Ports!DeleteIp, Ports!Reply, Ports!GoTo, GoTo

LEMMA DeleteEndpointsLands ==
    ASSUME NEW t \in Tasks, Working(t), Body[t].kind = "detach", Ports!DeleteEndpoints(t),
           UNCHANGED <<work, overridden>>
    PROVE  Lands(t)
<1>1. pc[t] = "delete endpoints" /\ DropsEndpoints(t)
  BY DEF Ports!DeleteEndpoints, DropsEndpoints, Ports!EmptyEndpoints, Ports!IpsOn,
         Ports!ServersOf, EmptyEndpoints, IpsOn, ServersOf
<1>2. Touches(t) /\ IsPort(t)
  BY <1>1 DEF Touches, IsPort
<1>3. Attached(Body[t].ip, Body[t].uuid)' = {}
  BY <1>1, DropsEndpointsSpares DEF Working, At, DetachAt
<1>4. CASE Ports!NoReply(t)
  BY <1>1, <1>2, <1>3, <1>4, UnansweredLands
<1>5. CASE GoTo(t, "acked") /\ UNCHANGED plan
  <2>1. HasEffect(t)'
    BY <1>3 DEF HasEffect
  <2>2. QED
    BY <1>2, <1>3, <1>5, <2>1, PortLands, PlansKept DEF Working, CallsOf, Ended
<1>6. QED
  BY <1>4, <1>5 DEF Ports!DeleteEndpoints, Ports!Reply, Ports!GoTo, GoTo

LEMMA KindsAre ==
    \A t \in Tasks : Body[t].kind \in {"create", "delete", "attach", "detach", "resize"}
BY InstanceAssumption

\* Each call belongs to one kind of port message.
LEMMA PortStepLands ==
    ASSUME NEW t \in Tasks, Working(t), PortStep(t)
    PROVE  Lands(t)
<1>1. IsPort(t) /\ UNCHANGED <<work, overridden>> /\ pc[t] \in CallsOf(t)
  BY DEF PortStep, Working
<1>2. ASSUME UNCHANGED cmdb
      PROVE  /\ Touches(t)
             /\ Body[t].kind = "attach" /\ pc[t] \in Attaching /\ UNCHANGED plan => PlanHolds(t)'
             /\ Body[t].kind = "detach" /\ pc[t] = "delete endpoints"
                   => Attached(Body[t].ip, Body[t].uuid)' = {}
  BY <1>2, PlanHoldsStill
     DEF Touches, cmdb, Working, At, AttachAt, DetachAt, Attached, ServersOf
<1>3. CASE Ports!Unreachable(t)
  <2>1. UNCHANGED cmdb /\ Ports!NoReply(t)
    BY <1>3 DEF Ports!Unreachable, Ports!cmdb, cmdb
  <2>2. QED
    BY <1>1, <1>2, <2>1, UnansweredLands, PortUnanswered
<1>4. CASE Ports!Refuses(t)
  <2>1. UNCHANGED <<cmdb, plan>> /\ GoTo(t, "dead")
    BY <1>4 DEF Ports!Refuses, Ports!cmdb, cmdb, Ports!Refused, Ports!GoTo, GoTo
  <2>2. QED
    BY <1>1, <1>2, <2>1, PortLands, PlansKept DEF Working, Ended, Attaching
<1>5. CASE Ports!Attach(t)
  <2>1. Body[t].kind = "attach"
    BY <1>1, <1>5
       DEF Ports!Attach, CallsOf, IsPort, Ports!SelectServer, Ports!FindAttachedIp,
           Ports!FindPrefix, Ports!UpdateEndpoint, Ports!CreateEndpoint,
           Ports!ReselectAttached, Ports!ReselectName, Ports!CreateIp, Ports!ReselectIp
  <2>2. QED
    BY <1>1, <1>5, <2>1, SelectServerLands, FindAttachedIpLands, AttachFindPrefixLands,
       UpdateEndpointLands, CreateEndpointLands, ReselectAttachedLands, ReselectNameLands,
       CreateIpLands, ReselectIpLands DEF Ports!Attach
<1>6. CASE Ports!Detach(t)
  <2>1. Body[t].kind = "detach"
    BY <1>1, <1>6
       DEF Ports!Detach, CallsOf, Attaching, IsPort, Ports!DeleteIp, Ports!DeleteEndpoints
  <2>2. QED
    BY <1>1, <1>6, <2>1, DeleteIpLands, DeleteEndpointsLands DEF Ports!Detach
<1>7. QED
  BY <1>3, <1>4, <1>5, <1>6 DEF PortStep

-----------------------------------------------------------------------------
(* How create, delete and resize go from call to call                      *)

WorksOK == work = [u \in Tasks |-> work[u]] /\ \A u \in Tasks : IsWork(work[u])

LEMMA WorkCarried ==
    ASSUME CarriedOK, NEW t \in Tasks, NEW w, IsWork(w), work' = [work EXCEPT ![t] = w]
    PROVE  WorksOK' /\ work'[t] = w
<1>1. work = [u \in Tasks |-> work[u]] /\ \A u \in Tasks : IsWork(work[u])
  BY DEF CarriedOK
<1>2. /\ work' = [u \in Tasks |-> work'[u]] /\ work'[t] = w
      /\ \A u \in Tasks \ {t} : work'[u] = work[u]
  BY <1>1
<1>3. QED
  BY <1>1, <1>2 DEF WorksOK

\* The parts of the work that say where create writes.
OnRow(w, server, endpoint, used) ==
    IsWork(w) /\ w.server = server /\ w.endpoint = endpoint /\ w.used = used

\* v is w but for what it records as failed, the victims, and what is left to write.
SameRow(v, w) == OnRow(v, w.server, w.endpoint, w.used)

\* The address being written, and its type.
Writes(w, addresses, type) == w.addresses = addresses /\ w.type = type

\* One part at a time.
LEMMA WorkPart ==
    ASSUME NEW w, IsWork(w), NEW a
    PROVE  /\ SameRow([w EXCEPT !.failed = a], w)
           /\ SameRow([w EXCEPT !.cards = a], w)
           /\ SameRow([w EXCEPT !.addresses = a], w)
           /\ SameRow([w EXCEPT !.victims = a], w) /\ [w EXCEPT !.victims = a].victims = a
           /\ OnRow([w EXCEPT !.server = a], a, w.endpoint, w.used)
           /\ OnRow([w EXCEPT !.endpoint = a], w.server, a, w.used)
           /\ SameRow([w EXCEPT !.type = a], w)
           /\ Writes([w EXCEPT !.type = a], w.addresses, a)
           /\ OnRow([w EXCEPT !.used = a], w.server, w.endpoint, a)
           /\ Writes([w EXCEPT !.used = a], w.addresses, w.type)
<1>1. PICK p, q, r, s, x, y, z, k :
         w = [failed |-> p, victims |-> q, server |-> r, cards |-> s, addresses |-> x,
              endpoint |-> y, used |-> z, type |-> k]
  BY DEF IsWork
<1>2. SameRow([w EXCEPT !.failed = a], w)
  BY <1>1 DEF IsWork, SameRow, OnRow
<1>3. SameRow([w EXCEPT !.cards = a], w)
  BY <1>1 DEF IsWork, SameRow, OnRow
<1>4. SameRow([w EXCEPT !.addresses = a], w)
  BY <1>1 DEF IsWork, SameRow, OnRow
<1>5. SameRow([w EXCEPT !.victims = a], w) /\ [w EXCEPT !.victims = a].victims = a
  BY <1>1 DEF IsWork, SameRow, OnRow
<1>6. OnRow([w EXCEPT !.server = a], a, w.endpoint, w.used)
  BY <1>1 DEF IsWork, OnRow
<1>7. OnRow([w EXCEPT !.endpoint = a], w.server, a, w.used)
  BY <1>1 DEF IsWork, OnRow
<1>8. SameRow([w EXCEPT !.type = a], w) /\ Writes([w EXCEPT !.type = a], w.addresses, a)
  BY <1>1 DEF IsWork, SameRow, OnRow, Writes
<1>9. /\ OnRow([w EXCEPT !.used = a], w.server, w.endpoint, a)
      /\ Writes([w EXCEPT !.used = a], w.addresses, w.type)
  BY <1>1 DEF IsWork, OnRow, Writes
<1>10. QED
  BY <1>2, <1>3, <1>4, <1>5, <1>6, <1>7, <1>8, <1>9

\* Two or three parts.
LEMMA WorkParts ==
    ASSUME NEW w, IsWork(w), NEW a, NEW b, NEW c
    PROVE  /\ SameRow([w EXCEPT !.failed = a, !.cards = b], w)
           /\ SameRow([w EXCEPT !.failed = a, !.addresses = b], w)
           /\ OnRow([w EXCEPT !.type = a, !.used = b], w.server, w.endpoint, b)
           /\ Writes([w EXCEPT !.type = a, !.used = b], w.addresses, a)
           /\ OnRow([w EXCEPT !.endpoint = a, !.cards = b, !.addresses = c], w.server, a, w.used)
<1> DEFINE f == [w EXCEPT !.failed = a]
           y == [w EXCEPT !.type = a]
           e == [w EXCEPT !.endpoint = a]
           d == [e EXCEPT !.cards = b]
           g == [d EXCEPT !.addresses = c]
           u == [y EXCEPT !.used = b]
<1>1. SameRow(f, w) /\ SameRow(y, w) /\ Writes(y, w.addresses, a) /\ OnRow(e, w.server, a, w.used)
  BY WorkPart
<1> HIDE DEF f, y, e
<1>2. SameRow(d, e)
  BY <1>1, WorkPart DEF OnRow
<1> HIDE DEF d
<1>3. SameRow(g, d)
  BY <1>2, WorkPart DEF SameRow, OnRow
<1>4. IsWork(f) /\ IsWork(y)
  BY <1>1 DEF SameRow, OnRow
<1>5. SameRow([f EXCEPT !.cards = b], f) /\ SameRow([f EXCEPT !.addresses = b], f)
  BY <1>4, WorkPart
<1>6. OnRow(u, y.server, y.endpoint, b) /\ Writes(u, y.addresses, y.type)
  BY <1>4, WorkPart
<1> HIDE DEF g, u
<1>7. SameRow([f EXCEPT !.cards = b], w) /\ SameRow([f EXCEPT !.addresses = b], w)
  BY <1>1, <1>5 DEF SameRow, OnRow
<1>8. OnRow(u, w.server, w.endpoint, b) /\ Writes(u, w.addresses, a)
  BY <1>1, <1>6 DEF SameRow, OnRow, Writes
<1>9. OnRow(g, w.server, a, w.used)
  BY <1>1, <1>2, <1>3 DEF SameRow, OnRow
<1>10. QED
  BY <1>7, <1>8, <1>9 DEF f, y, e, d, g, u

\* Calls that a refusal ends with an ack, and those that _persist_net_endpoints
\* and the replay of the fields go on to.
Quiet == {"select servers", "delete server", "insert server", "write state"}

Plain == {"write batch", "write price", "write flavor", "find prefix", "insert card",
          "write state"}

\* Create goes on with its row.
GoesOn(t) ==
    /\ WorksOK' /\ SameRow(work'[t], work[t])
    /\ \E p \in Plain : GoTo(t, p)

\* What Report and NoReply of ServerLifecycle lead to.
Reported(t) ==
    \/ GoTo(t, "dead") /\ UNCHANGED work
    \/ pc[t] \in Quiet /\ GoTo(t, "acked") /\ UNCHANGED work
    \/ pc[t] \in Plain \cup {"insert address"} /\ GoesOn(t)

NoAnswer(t) ==
    \/ /\ \E p \in {Rows!Again(pc[t]), Rows!FirstCall(t), "dead"} : GoTo(t, p)
       /\ UNCHANGED work
    \/ pc[t] \in Refusals /\ Reported(t)

LEMMA WorksKept == CarriedOK /\ UNCHANGED work => WorksOK'
BY DEF CarriedOK, WorksOK

LEMMA WorkIs ==
    ASSUME CarriedOK, NEW t \in Tasks
    PROVE  IsWork(work[t]) /\ SameRow(work[t], work[t])
BY DEF CarriedOK, SameRow, OnRow

LEMMA Continues ==
    ASSUME CarriedOK, NEW t \in Tasks, NEW w, IsWork(w), Rows!Continue(t, w)
    PROVE  WorksOK' /\ work'[t] = w /\ \E p \in Plain : GoTo(t, p)
<1>1. work' = [work EXCEPT ![t] = w]
  BY DEF Rows!Continue, Rows!Carry
<1>2. \E p \in Plain : GoTo(t, p)
  BY DEF Rows!Continue, Rows!NextCall, Rows!GoTo, GoTo, Plain
<1>3. QED
  BY <1>1, <1>2, WorkCarried

LEMMA ContinuesOnRow ==
    ASSUME CarriedOK, NEW t \in Tasks, NEW w, SameRow(w, work[t]), Rows!Continue(t, w)
    PROVE  GoesOn(t)
<1>1. IsWork(w)
  BY DEF SameRow, OnRow
<1>2. QED
  BY <1>1, Continues DEF GoesOn

LEMMA Skips ==
    ASSUME CarriedOK, NEW t \in Tasks
    PROVE  /\ Rows!SkipCard(t) => GoesOn(t)
           /\ Rows!SkipAddress(t) => GoesOn(t)
<1>1. IsWork(work[t])
  BY WorkIs
<1>2. ASSUME Rows!SkipCard(t) PROVE GoesOn(t)
  <2>1. PICK w : /\ w = [work[t] EXCEPT !.failed = TRUE, !.cards = Tail(work[t].cards)]
                 /\ Rows!Continue(t, w)
    BY <1>2 DEF Rows!SkipCard
  <2>2. SameRow(w, work[t])
    BY <1>1, <2>1, WorkParts
  <2>3. QED
    BY <2>1, <2>2, ContinuesOnRow
<1>3. ASSUME Rows!SkipAddress(t) PROVE GoesOn(t)
  <2>1. PICK w : /\ w = [work[t] EXCEPT !.failed = TRUE, !.addresses = Tail(work[t].addresses)]
                 /\ Rows!Continue(t, w)
    BY <1>3 DEF Rows!SkipAddress
  <2>2. SameRow(w, work[t])
    BY <1>1, <2>1, WorkParts
  <2>3. QED
    BY <2>1, <2>2, ContinuesOnRow
<1>4. QED
  BY <1>2, <1>3

LEMMA ReportMoves ==
    ASSUME CarriedOK, NEW t \in Tasks, Rows!Report(t)
    PROVE  Reported(t)
<1>1. IsWork(work[t]) /\ SameRow(work[t], work[t])
  BY WorkIs
<1>2. CASE /\ \/ pc[t] \in {"look up", "resize price", "resize flavor"}
              \/ pc[t] \in {"select servers", "delete server"} /\ ~(Body[t].kind = "create")
           /\ Rows!GoTo(t, "dead") /\ UNCHANGED work
  BY <1>2 DEF Reported, Rows!GoTo, GoTo
<1>3. CASE /\ pc[t] \in {"select servers", "delete server", "insert server"}
           /\ Rows!StopCreate(t)
  BY <1>3 DEF Reported, Rows!StopCreate, Rows!GoTo, GoTo, Quiet
<1>4. CASE pc[t] = "write batch" /\ Rows!GoTo(t, "write price") /\ UNCHANGED work
  BY <1>1, <1>4, WorksKept DEF Reported, GoesOn, Rows!GoTo, GoTo, Plain
<1>5. CASE /\ pc[t] = "write price" /\ Rows!GoTo(t, "write flavor")
           /\ Rows!Carry(t, [work[t] EXCEPT !.failed = TRUE])
  <2>1. PICK w : w = [work[t] EXCEPT !.failed = TRUE] /\ work' = [work EXCEPT ![t] = w]
    BY <1>5 DEF Rows!Carry
  <2>2. SameRow(w, work[t]) /\ IsWork(w)
    <3>1. \A a : SameRow([work[t] EXCEPT !.failed = a], work[t])
      BY <1>1, WorkPart
    <3>2. SameRow(w, work[t])
      BY <2>1, <3>1
    <3>3. QED
      BY <3>2 DEF SameRow, OnRow
  <2>3. WorksOK' /\ work'[t] = w
    BY <2>1, <2>2, WorkCarried
  <2>4. QED
    BY <1>5, <2>2, <2>3 DEF Reported, GoesOn, Rows!GoTo, GoTo, Plain
<1>6. CASE pc[t] = "write flavor" /\ Rows!Continue(t, work[t])
  BY <1>1, <1>6, ContinuesOnRow DEF Reported, Plain
<1>7. CASE pc[t] = "insert card" /\ Rows!SkipCard(t)
  BY <1>7, Skips DEF Reported, Plain
<1>8. CASE pc[t] \in {"find prefix", "insert address"} /\ Rows!SkipAddress(t)
  BY <1>8, Skips DEF Reported, Plain
<1>9. CASE pc[t] = "write state" /\ Rows!GoTo(t, "acked") /\ UNCHANGED work
  BY <1>9 DEF Reported, Rows!GoTo, GoTo, Quiet
<1>10. QED
  BY <1>2, <1>3, <1>4, <1>5, <1>6, <1>7, <1>8, <1>9 DEF Rows!Report

LEMMA NoReplyMoves ==
    ASSUME CarriedOK, NEW t \in Tasks, Rows!NoReply(t)
    PROVE  NoAnswer(t) /\ WorksOK'
<1>1. CASE Rows!Interrupted(t, Rows!Again(pc[t]), Rows!FirstCall(t)) /\ UNCHANGED work
  <2>1. \E p \in {Rows!Again(pc[t]), Rows!FirstCall(t), "dead"} : GoTo(t, p)
    BY <1>1 DEF Rows!Interrupted, Rows!Rerun, Rows!Refused, Rows!GoTo, GoTo
  <2>2. QED
    BY <1>1, <2>1, WorksKept DEF NoAnswer
<1>2. CASE pc[t] \in Refusals /\ Rows!Report(t)
  BY <1>2, ReportMoves, WorksKept DEF NoAnswer, Reported, GoesOn
<1>3. QED
  BY <1>1, <1>2 DEF Rows!NoReply

\* A row of create or resize after a write to its fields, and to its state.
LEMMA WriteUpdates ==
    ASSUME RowsOK, NEW t \in Tasks, NEW F \in SUBSET {"price", "flavor"}, Rows!Write(t, F)
    PROVE  /\ Updates(t, F)
           /\ Body[t].kind # "create" =>
                 \A s \in ServersOf(Body[t].uuid)', f \in F : s.fields[f] = t
<1> DEFINE after(s) == [s EXCEPT !.fields = [f \in Rows!Fields |-> IF f \in F THEN t ELSE s.fields[f]]]
           new == [s \in servers |-> IF s \in Rows!Where(t) THEN after(s) ELSE s]
<1>1. Rows!Where(t) \subseteq servers
  BY DEF Rows!Where
<1>2. /\ servers' = (servers \ Rows!Where(t)) \cup {after(s) : s \in Rows!Where(t)}
      /\ UNCHANGED <<endpoints, ips, serial>>
  BY DEF Rows!Write
<1>3. ASSUME NEW s \in servers
      PROVE  /\ after(s) = [id |-> s.id, uuid |-> s.uuid, hostname |-> s.hostname,
                            raw_info |-> s.raw_info, state |-> s.state,
                            fields |-> [f \in Rows!Fields |-> IF f \in F THEN t ELSE s.fields[f]]]
             /\ s = [id |-> s.id, uuid |-> s.uuid, hostname |-> s.hostname,
                     raw_info |-> s.raw_info, state |-> s.state, fields |-> s.fields]
  BY DEF RowsOK, IsServer
<1>4. ASSUME NEW s \in servers
      PROVE  /\ IsServer(after(s)) /\ after(s).id = s.id /\ after(s).uuid = s.uuid
             /\ after(s).hostname = s.hostname /\ after(s).state = s.state
             /\ \A f \in {"price", "flavor"} : after(s).fields[f] = IF f \in F THEN t ELSE s.fields[f]
  <2> DEFINE g == [f \in Rows!Fields |-> IF f \in F THEN t ELSE s.fields[f]]
  <2>1. \A f \in {"price", "flavor"} : g[f] = IF f \in F THEN t ELSE s.fields[f]
    BY DEF Rows!Fields
  <2>2. after(s) = [id |-> s.id, uuid |-> s.uuid, hostname |-> s.hostname,
                    raw_info |-> s.raw_info, state |-> s.state, fields |-> g]
    BY <1>3
  <2> HIDE DEF g, after
  <2>3. QED
    BY <2>1, <2>2 DEF IsServer
<1> HIDE DEF after
<1>5. servers' = {new[s] : s \in servers}
  BY <1>1, <1>2
<1>6. \A s \in servers : Renews(t, F, s, new[s])
  BY <1>4 DEF Renews, Rows!Where, RowsOK
<1>7. ASSUME Body[t].kind # "create", NEW s \in ServersOf(Body[t].uuid)', NEW f \in F
      PROVE  s.fields[f] = t
  <2>1. PICK r \in servers : s = new[r]
    BY <1>5 DEF ServersOf
  <2>2. s = after(r)
    BY <1>4, <1>7, <2>1 DEF ServersOf, Rows!Where
  <2>3. QED
    BY <1>4, <1>7, <2>2
<1>8. QED
  BY <1>2, <1>5, <1>6, <1>7 DEF Updates

LEMMA StateUpdates ==
    ASSUME RowsOK, NEW t \in Tasks, Body[t].kind = "create", Rows!WriteState(t)
    PROVE  /\ Updates(t, {"price", "flavor"})
           /\ \A s \in servers' : s.uuid = Body[t].uuid /\ s.hostname = Body[t].hostname
                                     => s.state \in {"ready", "error"}
<1> DEFINE state == IF work[t].failed THEN "error" ELSE "ready"
           after(s) == [s EXCEPT !.state = state]
           new == [s \in servers |-> IF s \in Rows!Where(t) THEN after(s) ELSE s]
<1>1. Rows!Where(t) \subseteq servers
  BY DEF Rows!Where
<1>2. /\ servers' = (servers \ Rows!Where(t)) \cup {after(s) : s \in Rows!Where(t)}
      /\ UNCHANGED <<endpoints, ips, serial>>
  BY DEF Rows!WriteState
<1>3. state \in {"ready", "error"}
  OBVIOUS
<1> HIDE DEF state
<1>4. ASSUME NEW s \in servers
      PROVE  /\ IsServer(after(s)) /\ after(s).id = s.id /\ after(s).uuid = s.uuid
             /\ after(s).hostname = s.hostname /\ after(s).state = state
  <2>1. s = [id |-> s.id, uuid |-> s.uuid, hostname |-> s.hostname,
             raw_info |-> s.raw_info, state |-> s.state, fields |-> s.fields]
    BY DEF RowsOK, IsServer
  <2>2. after(s) = [id |-> s.id, uuid |-> s.uuid, hostname |-> s.hostname,
                    raw_info |-> s.raw_info, state |-> state, fields |-> s.fields]
    BY <2>1
  <2> HIDE DEF after
  <2>3. QED
    BY <2>2 DEF IsServer
<1> HIDE DEF after
<1>5. servers' = {new[s] : s \in servers}
  BY <1>1, <1>2
<1>6. \A s \in servers : Renews(t, {"price", "flavor"}, s, new[s])
  BY <1>4 DEF Renews, Rows!Where, RowsOK
<1>7. ASSUME NEW s \in servers', s.uuid = Body[t].uuid, s.hostname = Body[t].hostname
      PROVE  s.state \in {"ready", "error"}
  <2>1. PICK r \in servers : s = new[r]
    BY <1>5
  <2>2. r \in Rows!Where(t)
    BY <1>4, <1>7, <2>1 DEF Rows!Where
  <2>3. QED
    BY <1>3, <1>4, <2>1, <2>2
<1>8. QED
  BY <1>2, <1>5, <1>6, <1>7 DEF Updates

LEMMA RowLands ==
    ASSUME NEW t \in Tasks, Working(t), ~IsPort(t), NEW p \in CallsOf(t) \cup Ended, GoTo(t, p),
           Touches(t), WorksOK', UNCHANGED <<plan, overridden>>,
           p \notin Ended => RowAt(t, p)', p = "acked" => HasEffect(t)'
    PROVE  Lands(t)
<1>1. /\ pc' = [u \in Tasks |-> pc'[u]] /\ pc'[t] = p
      /\ \A u \in Tasks \ {t} : pc'[u] = pc[u]
  BY Going DEF Working
<1>2. CarriedOK'
  BY <1>1 DEF CarriedOK, WorksOK, Working
<1>3. p \notin Ended => At(t)'
  BY <1>1 DEF At, IsPort
<1>4. QED
  BY <1>1, <1>2, <1>3 DEF Lands

\* What create owns it keeps owning, whatever its call does.
LEMMA OwnKept ==
    ASSUME RowsOK, NEW t \in Tasks, Touches(t), NEW x
    PROVE  /\ OwnServer(t, x) => OwnServer(t, x)'
           /\ OwnEndpoint(t, x) => OwnEndpoint(t, x)'
<1>1. CASE UNCHANGED cmdb
  BY <1>1 DEF cmdb, OwnServer, OwnEndpoint
<1>2. CASE SetsMac
  <2>1. PICK endpoint, mac : SetMac(endpoint, mac)
    BY <1>2 DEF SetsMac
  <2>2. DEFINE new == [e \in endpoints |->
                          [id |-> e.id, server |-> e.server, name |-> e.name,
                           mac |-> IF e.id = endpoint THEN mac ELSE e.mac]]
  <2>3. /\ endpoints' = {new[e] : e \in endpoints}
        /\ \A e \in endpoints : new[e].id = e.id /\ new[e].server = e.server
    BY <2>1 DEF SetMac
  <2>4. HIDE DEF new
  <2>5. QED
    BY <1>2, <2>3 DEF SetsMac, OwnServer, OwnEndpoint
<1>3. CASE PutsEndpoint(t)
  <2>1. PICK e : /\ e.id = serial /\ endpoints' = endpoints \cup {e} /\ serial' = serial + 1
                 /\ UNCHANGED <<servers, ips>>
    BY <1>3 DEF PutsEndpoint, InsertEndpoint
  <2>2. serial \in Nat
    BY DEF RowsOK
  <2>3. QED
    BY <2>1, <2>2 DEF OwnServer, OwnEndpoint
<1>4. CASE PutsIp(t)
  <2>1. UNCHANGED <<servers, endpoints>> /\ serial' = serial + 1 /\ serial \in Nat
    BY <1>4 DEF PutsIp, InsertIp, RowsOK
  <2>2. QED
    BY <2>1 DEF OwnServer, OwnEndpoint
<1>5. CASE DropsIp(t) \/ DropsEndpoints(t) \/ DropsServer(t)
  <2>1. servers' \subseteq servers /\ endpoints' \subseteq endpoints /\ UNCHANGED serial
    BY <1>5 DEF DropsIp, DropsEndpoints, DropsServer, DeleteServer
  <2>2. QED
    BY <2>1 DEF OwnServer, OwnEndpoint
<1>6. CASE PutsServer(t)
  <2>1. PICK s : /\ s.id = serial /\ s.uuid = Body[t].uuid /\ servers' = servers \cup {s}
                 /\ serial' = serial + 1 /\ UNCHANGED <<endpoints, ips>>
    BY <1>6 DEF PutsServer
  <2>2. serial \in Nat
    BY DEF RowsOK
  <2>3. QED
    BY <2>1, <2>2 DEF OwnServer, OwnEndpoint
<1>7. ASSUME NEW F, Updates(t, F)
      PROVE  /\ OwnServer(t, x) => OwnServer(t, x)'
             /\ OwnEndpoint(t, x) => OwnEndpoint(t, x)'
  <2>1. PICK new : servers' = {new[s] : s \in servers} /\ \A s \in servers : Renews(t, F, s, new[s])
    BY <1>7 DEF Updates
  <2>2. UNCHANGED <<endpoints, ips, serial>>
    BY <1>7 DEF Updates
  <2>3. QED
    BY <2>1, <2>2 DEF Renews, OwnServer, OwnEndpoint
<1>8. QED
  BY <1>1, <1>2, <1>3, <1>4, <1>5, <1>6, <1>7 DEF Touches

LEMMA HasRowKept ==
    ASSUME NEW t \in Tasks, HasRow(t),
           UNCHANGED servers \/ PutsServer(t) \/ \E F : Updates(t, F)
    PROVE  HasRow(t)'
<1>1. CASE UNCHANGED servers \/ PutsServer(t)
  BY <1>1 DEF HasRow, PutsServer
<1>2. ASSUME NEW F, Updates(t, F)
      PROVE  HasRow(t)'
  <2>1. PICK new : servers' = {new[s] : s \in servers} /\ \A s \in servers : Renews(t, F, s, new[s])
    BY <1>2 DEF Updates
  <2>2. QED
    BY <2>1 DEF Renews, HasRow
<1>3. QED
  BY <1>1, <1>2

LEMMA RowCalls ==
    ASSUME NEW t \in Tasks, pc[t] \in CallsOf(t)
    PROVE  /\ Body[t].kind = "create" =>
                 /\ Rows!FirstCall(t) = "look up"
                 /\ Rows!Again(pc[t]) = IF pc[t] = "insert server" THEN "reselect server"
                                        ELSE IF pc[t] = "insert card" THEN "reselect card"
                                        ELSE IF pc[t] = "insert address" THEN "reselect address"
                                        ELSE pc[t]
           /\ Body[t].kind = "delete" =>
                 Rows!FirstCall(t) = "select servers" /\ Rows!Again(pc[t]) = pc[t]
           /\ Body[t].kind = "resize" =>
                 /\ Rows!Again(pc[t]) = pc[t]
                 /\ Rows!FirstCall(t) = IF "price" \in Body[t].sets THEN "resize price"
                                        ELSE IF "flavor" \in Body[t].sets THEN "resize flavor"
                                        ELSE "acked"
BY DEF Rows!FirstCall, Rows!Again, CallsOf, Removing, Late

\* A call without an answer: the tables may have changed or not, as long as
\* what it needs to go on still holds in them.
LEMMA RowUnansweredLands ==
    ASSUME NEW t \in Tasks, Working(t), ~IsPort(t), QuietNotRefused, Rows!NoReply(t),
           Touches(t), UNCHANGED <<plan, overridden>>,
           pc[t] = "delete server" /\ UNCHANGED work => VictimsHold(t)',
           Body[t].kind = "create" /\ pc[t] \in Late => HasRow(t)',
           Body[t].kind = "resize" /\ pc[t] = "resize flavor" /\ "price" \in Body[t].sets =>
               \A s \in ServersOf(Body[t].uuid)' : s.fields["price"] = t
    PROVE  Lands(t)
<1>1. NoAnswer(t) /\ WorksOK' /\ pc[t] \in CallsOf(t) /\ RowAt(t, pc[t])
  BY NoReplyMoves DEF Working, At, IsPort
<1>2. ASSUME Body[t].kind = "create", work'[t].endpoint = work[t].endpoint,
             work'[t].server = work[t].server, pc[t] # "look up"
      PROVE  /\ OwnEndpoint(t, work[t].endpoint)'
             /\ pc[t] \in Late => OwnServer(t, work[t].server)'
  <2>1. /\ OwnEndpoint(t, work[t].endpoint)
        /\ pc[t] \in Late => OwnServer(t, work[t].server)
    BY <1>1, <1>2 DEF RowAt, CreateAt
  <2>2. PICK x, y : x = work[t].endpoint /\ y = work[t].server
    OBVIOUS
  <2>3. /\ OwnEndpoint(t, x)'
        /\ pc[t] \in Late => OwnServer(t, y)'
    BY <2>1, <2>2, OwnKept DEF Working
  <2>4. QED
    BY <1>2, <2>2, <2>3 DEF OwnEndpoint, OwnServer
<1>3. CASE UNCHANGED work /\ \E p \in {Rows!Again(pc[t]), Rows!FirstCall(t), "dead"} : GoTo(t, p)
  <2>1. PICK p \in {Rows!Again(pc[t]), Rows!FirstCall(t), "dead"} : GoTo(t, p)
    BY <1>3
  <2>2. CASE Body[t].kind = "create"
    <3>1. p \in {"look up", "dead", "reselect server", "reselect card", "reselect address", pc[t]}
      BY <1>1, <2>1, <2>2, RowCalls
    <3>2. p \notin {"insert server", "acked"} /\ (p \in Late => pc[t] \in Late)
      BY <1>1, <2>1, <2>2, RowCalls DEF CallsOf, Removing, Late
    <3>3. p \in CallsOf(t) \cup Ended /\ (p = "delete server" => pc[t] = "delete server")
      BY <1>1, <2>2, <3>1 DEF CallsOf, Removing, Late, Ended
    <3>4. p \notin Ended \cup {"look up"} => pc[t] # "look up"
      BY <1>1, <2>1, <2>2, RowCalls DEF Ended
    <3>5. p \notin Ended => RowAt(t, p)'
      <4>1. RemovalAt(t, p)'
        BY <1>3, <3>3 DEF RemovalAt
      <4>2. SUFFICES ASSUME p \notin Ended PROVE CreateAt(t, p)'
        BY <2>2, <4>1 DEF RowAt
      <4>3. p # "look up" => OwnEndpoint(t, work[t].endpoint)'
        BY <1>2, <1>3, <2>2, <3>4, <4>2
      <4>4. p \in Late => HasRow(t)' /\ OwnServer(t, work[t].server)'
        <5>1. SUFFICES ASSUME p \in Late PROVE HasRow(t)' /\ OwnServer(t, work[t].server)'
          OBVIOUS
        <5>2. pc[t] \in Late /\ pc[t] # "look up"
          BY <3>2, <5>1 DEF Late
        <5>3. QED
          BY <1>2, <1>3, <2>2, <5>2
      <4>5. QED
        BY <3>2, <4>3, <4>4 DEF CreateAt
    <3>6. QED
      BY <1>1, <2>1, <3>2, <3>3, <3>5, RowLands
  <2>3. CASE Body[t].kind = "delete"
    <3>1. p \in {"select servers", "dead", pc[t]} /\ p # "acked" /\ p \in CallsOf(t) \cup Ended
      BY <1>1, <2>1, <2>3, RowCalls DEF CallsOf, Removing, Ended
    <3>2. p \notin Ended => RowAt(t, p)'
      BY <1>3, <2>3, <3>1 DEF RowAt, RemovalAt
    <3>3. QED
      BY <1>1, <2>1, <3>1, <3>2, RowLands
  <2>4. CASE Body[t].kind = "resize"
    <3>1. ResizeAt(t, pc[t]) /\ pc[t] \in {"resize price", "resize flavor"}
      BY <1>1, <2>4 DEF RowAt, CallsOf
    <3>2. /\ p \in {"resize price", "resize flavor", "dead"}
          /\ p = "resize price" => "price" \in Body[t].sets
          /\ p = "resize flavor" =>
                p = pc[t] \/ ("flavor" \in Body[t].sets /\ "price" \notin Body[t].sets)
      BY <1>1, <2>1, <2>4, <3>1, RowCalls DEF ResizeAt
    <3>3. p \in CallsOf(t) \cup Ended /\ p # "acked"
      BY <2>4, <3>2 DEF CallsOf, Ended
    <3>4. ResizeAt(t, p)'
      <4>1. p = "resize flavor" =>
                /\ "flavor" \in Body[t].sets
                /\ "price" \in Body[t].sets =>
                      \A s \in ServersOf(Body[t].uuid)' : s.fields["price"] = t
        BY <2>4, <3>1, <3>2 DEF ResizeAt
      <4>2. QED
        BY <3>2, <4>1 DEF ResizeAt
    <3>5. QED
      BY <1>1, <2>1, <2>4, <3>3, <3>4, RowLands DEF RowAt
  <2>5. QED
    BY <2>2, <2>3, <2>4, KindsAre DEF IsPort
<1>4. CASE pc[t] \in Refusals /\ Reported(t)
  <2>1. pc[t] \notin Quiet
    BY <1>4 DEF QuietNotRefused, Quiet
  <2>2. CASE GoTo(t, "dead") /\ UNCHANGED work
    BY <1>1, <2>2, RowLands DEF Ended
  <2>3. CASE pc[t] \in Plain \cup {"insert address"} /\ GoesOn(t)
    <3>1. Body[t].kind = "create"
      BY <1>1, <2>3, KindsAre DEF CallsOf, Removing, Plain, IsPort
    <3>2. pc[t] \in Late /\ pc[t] # "look up"
      BY <2>3 DEF Plain, Late
    <3>3. PICK p \in Plain : GoTo(t, p)
      BY <2>3 DEF GoesOn
    <3>4. p \in CallsOf(t) /\ p \in Late /\ p \notin Ended /\ p \notin {"delete server", "insert server"}
      BY <3>1, <3>3 DEF CallsOf, Plain, Late, Ended
    <3>5. OwnEndpoint(t, work[t].endpoint)' /\ OwnServer(t, work[t].server)'
      BY <1>2, <2>3, <3>1, <3>2 DEF GoesOn, SameRow, OnRow
    <3>6. RowAt(t, p)'
      BY <3>1, <3>2, <3>4, <3>5 DEF RowAt, RemovalAt, CreateAt
    <3>7. QED
      BY <1>1, <3>3, <3>4, <3>6, RowLands DEF Ended
  <2>4. QED
    BY <1>4, <2>1, <2>2, <2>3 DEF Reported
<1>5. QED
  BY <1>1, <1>3, <1>4 DEF NoAnswer

-----------------------------------------------------------------------------
(* create, delete and resize                                               *)

\* Create goes on at a call where it has its row.
LEMMA CreateLands ==
    ASSUME NEW t \in Tasks, Working(t), Body[t].kind = "create", NEW p \in Late, GoTo(t, p),
           Touches(t), WorksOK', UNCHANGED <<plan, overridden>>, HasRow(t)',
           OwnServer(t, work[t].server)', OwnEndpoint(t, work[t].endpoint)'
    PROVE  Lands(t)
<1>1. /\ p \in CallsOf(t) /\ p \notin Ended
      /\ p \notin {"delete server", "insert server"}
  BY DEF CallsOf, Late, Ended
<1>2. RowAt(t, p)'
  BY <1>1 DEF RowAt, RemovalAt, CreateAt
<1>3. QED
  BY <1>1, <1>2, RowLands DEF IsPort, Ended

LEMMA CreateStays ==
    ASSUME NEW t \in Tasks, Working(t), Body[t].kind = "create", pc[t] \in Late,
           NEW p \in Late, GoTo(t, p), Touches(t), WorksOK', SameRow(work'[t], work[t]),
           UNCHANGED <<plan, overridden>>, UNCHANGED servers \/ \E F : Updates(t, F)
    PROVE  Lands(t)
<1>1. PICK x, y : x = work[t].endpoint /\ y = work[t].server
  OBVIOUS
<1>2. HasRow(t) /\ OwnEndpoint(t, x) /\ OwnServer(t, y)
  BY <1>1 DEF Working, At, RowAt, CreateAt, Late
<1>3. HasRow(t)' /\ OwnEndpoint(t, x)' /\ OwnServer(t, y)'
  BY <1>2, OwnKept, HasRowKept DEF Working
<1>4. work'[t].endpoint = x /\ work'[t].server = y
  BY <1>1 DEF SameRow, OnRow
<1>5. OwnServer(t, work[t].server)' /\ OwnEndpoint(t, work[t].endpoint)'
  BY <1>3, <1>4 DEF OwnServer, OwnEndpoint
<1>6. QED
  BY <1>3, <1>5, CreateLands

LEMMA PlainIsLate == Plain \subseteq Late
BY DEF Plain, Late

LEMMA GoesOnLands ==
    ASSUME NEW t \in Tasks, Working(t), Body[t].kind = "create", pc[t] \in Late, GoesOn(t),
           Touches(t), UNCHANGED <<plan, overridden>>, UNCHANGED servers \/ \E F : Updates(t, F)
    PROVE  Lands(t)
BY PlainIsLate, CreateStays DEF GoesOn

LEMMA StillNeeded ==
    ASSUME NEW t \in Tasks, Working(t), ~IsPort(t), UNCHANGED servers
    PROVE  /\ pc[t] = "delete server" /\ UNCHANGED <<work, serial>> => VictimsHold(t)'
           /\ Body[t].kind = "create" /\ pc[t] \in Late => HasRow(t)'
           /\ Body[t].kind = "resize" /\ pc[t] = "resize flavor" /\ "price" \in Body[t].sets =>
                 \A s \in ServersOf(Body[t].uuid)' : s.fields["price"] = t
<1>1. RowAt(t, pc[t]) /\ pc[t] \in CallsOf(t)
  BY DEF Working, At, IsPort
<1>2. pc[t] = "delete server" => Body[t].kind \in {"create", "delete"}
  BY <1>1, KindsAre DEF CallsOf, IsPort
<1>3. pc[t] = "delete server" => VictimsHold(t)
  BY <1>1, <1>2 DEF RowAt, RemovalAt
<1>4. Body[t].kind = "create" /\ pc[t] \in Late => HasRow(t)
  BY <1>1 DEF RowAt, CreateAt
<1>5. /\ Body[t].kind = "resize" /\ pc[t] = "resize flavor" /\ "price" \in Body[t].sets
      => \A s \in ServersOf(Body[t].uuid) : s.fields["price"] = t
  BY <1>1 DEF RowAt, ResizeAt
<1>6. pc[t] = "delete server" /\ UNCHANGED <<work, serial>> => VictimsHold(t)'
  BY <1>3 DEF VictimsHold, ServersOf
<1>7. QED
  BY <1>4, <1>5, <1>6 DEF HasRow, ServersOf

LEMMA NotAppliedLands ==
    ASSUME NEW t \in Tasks, Working(t), ~IsPort(t), QuietNotRefused, Rows!NotApplied(t),
           UNCHANGED <<plan, overridden>>
    PROVE  Lands(t)
<1>1. Rows!NoReply(t) /\ UNCHANGED cmdb
  BY DEF Rows!NotApplied, Rows!cmdb, cmdb
<1>2. Touches(t) /\ UNCHANGED <<servers, serial>>
  BY <1>1 DEF Touches, cmdb
<1>3. QED
  BY <1>1, <1>2, StillNeeded, RowUnansweredLands

LEMMA ConflictLands ==
    ASSUME NEW t \in Tasks, Working(t), Body[t].kind = "create",
           pc[t] \in {"insert card", "insert address"}, Rows!Conflict(t),
           UNCHANGED <<plan, overridden>>
    PROVE  Lands(t)
<1>1. Reported(t) /\ UNCHANGED cmdb /\ ~IsPort(t) /\ pc[t] \in Late /\ pc[t] \notin Quiet
  BY ReportMoves DEF Rows!Conflict, Rows!cmdb, cmdb, IsPort, Working, Late, Quiet
<1>2. Touches(t) /\ UNCHANGED servers
  BY <1>1 DEF Touches, cmdb
<1>3. CASE GoTo(t, "dead") /\ UNCHANGED work
  BY <1>1, <1>2, <1>3, RowLands, WorksKept DEF Ended, Working
<1>4. CASE GoesOn(t)
  BY <1>1, <1>2, <1>4, GoesOnLands
<1>5. QED
  BY <1>1, <1>3, <1>4 DEF Reported

\* The removal: what it has still to remove is all there is.
Left(t, left) ==
    /\ left \subseteq 1 .. serial - 1
    /\ \A s \in servers : s.id \in left => s.uuid = Body[t].uuid
    /\ \A s \in ServersOf(Body[t].uuid) : s.id \in left
    /\ Body[t].kind = "create" =>
          \A s \in servers : s.hostname = Body[t].hostname => s.id \in left

LEMMA RemovalLands ==
    ASSUME NEW t \in Tasks, Working(t), Body[t].kind \in {"create", "delete"},
           pc[t] \in Removing, NEW left, Left(t, left)',
           GoTo(t, Rows!AfterRemoval(t, left)),
           work' = [work EXCEPT ![t] = [work[t] EXCEPT !.victims = left]],
           Touches(t), UNCHANGED <<plan, overridden>>
    PROVE  Lands(t)
<1>1. PICK w : w = [work[t] EXCEPT !.victims = left] /\ work' = [work EXCEPT ![t] = w]
  OBVIOUS
<1>2. SameRow(w, work[t]) /\ w.victims = left
  <2>1. \A a : SameRow([work[t] EXCEPT !.victims = a], work[t]) /\ [work[t] EXCEPT !.victims = a].victims = a
    BY WorkIs, WorkPart DEF Working
  <2>2. QED
    BY <1>1, <2>1
<1>3. WorksOK' /\ work'[t] = w
  BY <1>1, <1>2, WorkCarried DEF SameRow, OnRow, Working
<1>4. PICK p : /\ GoTo(t, p)
               /\ p = IF left # {} THEN "delete server"
                      ELSE IF Body[t].kind = "create" THEN "insert server" ELSE "acked"
  BY DEF Rows!AfterRemoval
<1>5. p \in CallsOf(t) \cup Ended
  BY <1>4 DEF CallsOf, Removing, Ended
<1>6. RemovalAt(t, p)'
  BY <1>2, <1>3 DEF RemovalAt, VictimsHold, Left
<1>7. Body[t].kind = "create" => CreateAt(t, p)'
  <2>1. SUFFICES ASSUME Body[t].kind = "create" PROVE CreateAt(t, p)'
    OBVIOUS
  <2>2. PICK x : x = work[t].endpoint
    OBVIOUS
  <2>3. OwnEndpoint(t, x)
    BY <2>1, <2>2 DEF Working, At, RowAt, CreateAt, Removing
  <2>4. OwnEndpoint(t, x)'
    BY <2>3, OwnKept DEF Working
  <2>5. work'[t].endpoint = x
    BY <1>2, <1>3, <2>2 DEF SameRow, OnRow
  <2>6. OwnEndpoint(t, work[t].endpoint)'
    BY <2>4, <2>5 DEF OwnEndpoint
  <2>7. p = "insert server" => CanInsertServer(Body[t].hostname)'
    BY <1>4, <2>1 DEF Left, CanInsertServer
  <2>8. p \notin Late
    BY <1>4, <2>1 DEF Late
  <2>9. QED
    BY <2>6, <2>7, <2>8 DEF CreateAt
<1>8. p = "acked" => HasEffect(t)'
  BY <1>4 DEF HasEffect, Left
<1>9. RowAt(t, p)'
  BY <1>6, <1>7 DEF RowAt
<1>10. QED
  BY <1>3, <1>4, <1>5, <1>8, <1>9, RowLands DEF IsPort

LEMMA RemovalCalls ==
    ASSUME NEW t \in Tasks, pc[t] \in CallsOf(t), pc[t] \in Removing, ~IsPort(t)
    PROVE  Body[t].kind \in {"create", "delete"}
BY KindsAre DEF CallsOf, Removing, IsPort

LEMMA SelectServersLands ==
    ASSUME NEW t \in Tasks, Working(t), ~IsPort(t), Rows!SelectServers(t),
           UNCHANGED <<plan, overridden>>
    PROVE  Lands(t)
<1>1. pc[t] \in Removing /\ UNCHANGED cmdb /\ Body[t].kind \in {"create", "delete"}
  BY RemovalCalls DEF Rows!SelectServers, Rows!cmdb, cmdb, Removing, Working
<1>2. PICK left : /\ left = Rows!Victims(t) /\ GoTo(t, Rows!AfterRemoval(t, left))
                  /\ work' = [work EXCEPT ![t] = [work[t] EXCEPT !.victims = left]]
  BY DEF Rows!SelectServers, Rows!Reply, Rows!GoTo, GoTo, Rows!Carry
<1>3. \A s \in servers : s.id \in left <=> s.uuid = Body[t].uuid
  BY <1>1, <1>2 DEF Rows!Victims, Working, RowsOK, HostsOK
<1>4. Left(t, left)
  <2>1. left \subseteq {s.id : s \in servers}
    BY <1>2 DEF Rows!Victims
  <2>2. left \subseteq 1 .. serial - 1
    BY <2>1 DEF Working, RowsOK
  <2>3. QED
    BY <1>3, <2>2 DEF Left, ServersOf, Working, HostsOK
<1>5. Left(t, left)'
  BY <1>1, <1>4 DEF Left, ServersOf, cmdb
<1>6. QED
  BY <1>1, <1>2, <1>5, RemovalLands DEF Touches

LEMMA DeleteVictimLands ==
    ASSUME NEW t \in Tasks, Working(t), ~IsPort(t), QuietNotRefused, Rows!DeleteVictim(t),
           UNCHANGED <<plan, overridden>>
    PROVE  Lands(t)
<1>1. pc[t] = "delete server" /\ pc[t] \in Removing /\ Body[t].kind \in {"create", "delete"}
  BY RemovalCalls DEF Rows!DeleteVictim, Removing, Working
<1>2. VictimsHold(t)
  BY <1>1 DEF Working, At, RowAt, RemovalAt
<1>3. PICK v \in work[t].victims :
          /\ DeleteServer(v) /\ UNCHANGED serial
          /\ \/ /\ GoTo(t, Rows!AfterRemoval(t, work[t].victims \ {v}))
                /\ work' = [work EXCEPT ![t] = [work[t] EXCEPT !.victims = work[t].victims \ {v}]]
             \/ Rows!NoReply(t)
  BY DEF Rows!DeleteVictim, Rows!Reply, Rows!GoTo, GoTo, Rows!Carry, Rows!DeleteServer,
         DeleteServer, Rows!EndpointsOf, EndpointsOf
<1>4. servers' = {s \in servers : s.id # v}
  BY <1>3 DEF DeleteServer
<1>5. Touches(t)
  <2>1. DropsServer(t)
    BY <1>2, <1>3 DEF DropsServer, VictimsHold
  <2>2. QED
    BY <1>1, <2>1 DEF Touches
<1>6. CASE Rows!NoReply(t)
  <2>1. UNCHANGED work => VictimsHold(t)'
    BY <1>2, <1>3, <1>4 DEF VictimsHold, ServersOf
  <2>2. pc[t] \notin Late /\ pc[t] # "resize flavor"
    BY <1>1 DEF Late
  <2>3. QED
    BY <1>5, <1>6, <2>1, <2>2, RowUnansweredLands
<1>7. CASE ~Rows!NoReply(t)
  <2>1. PICK left : left = work[t].victims \ {v}
    OBVIOUS
  <2>2. Left(t, left)'
    BY <1>2, <1>3, <1>4, <2>1 DEF Left, VictimsHold, ServersOf
  <2>3. QED
    BY <1>1, <1>3, <1>5, <1>7, <2>1, <2>2, RemovalLands
<1>8. QED
  BY <1>6, <1>7

\* The row of a create: it starts over with nothing carried, and inserts its row.
LEMMA LookUpLands ==
    ASSUME NEW t \in Tasks, Working(t), Body[t].kind = "create", Rows!LookUp(t),
           UNCHANGED <<plan, overridden>>
    PROVE  Lands(t)
<1>1. pc[t] = "look up" /\ UNCHANGED cmdb /\ GoTo(t, "select servers")
  BY DEF Rows!LookUp, Rows!cmdb, cmdb, Rows!Reply, Rows!GoTo, GoTo
<1>2. PICK failed :
          work' = [work EXCEPT ![t] = [Rows!NoWork EXCEPT !.failed = failed, !.cards = Body[t].cards]]
  BY DEF Rows!LookUp, Rows!Carry
<1>3. PICK w : /\ w = [Rows!NoWork EXCEPT !.failed = failed, !.cards = Body[t].cards]
               /\ work' = [work EXCEPT ![t] = w]
  BY <1>2
<1>4. IsWork(Rows!NoWork) /\ Rows!NoWork.endpoint = 0
  BY DEF Rows!NoWork, IsWork
<1>5. SameRow(w, Rows!NoWork)
  BY <1>3, <1>4, WorkParts
<1>6. IsWork(w) /\ w.endpoint = 0
  BY <1>4, <1>5 DEF SameRow, OnRow
<1>7. WorksOK' /\ work'[t].endpoint = 0
  BY <1>3, <1>6, WorkCarried DEF Working
<1>8. OwnEndpoint(t, work[t].endpoint)'
  <2>1. 0 \in 0 .. serial - 1 /\ \A e \in endpoints : e.id # 0
    BY DEF Working, RowsOK
  <2>2. QED
    BY <1>1, <1>7, <2>1 DEF OwnEndpoint, cmdb
<1>9. RowAt(t, "select servers")'
  BY <1>8 DEF RowAt, RemovalAt, CreateAt, Late
<1>10. QED
  BY <1>1, <1>7, <1>9, RowLands DEF IsPort, CallsOf, Removing, Ended, Touches

\* It has a row by its uuid and hostname as soon as it knows one by its id.
LEMMA OnItsRowLands ==
    ASSUME NEW t \in Tasks, Working(t), Body[t].kind = "create", pc[t] # "look up", Touches(t),
           NEW x, HasRow(t)', OwnServer(t, x)', GoTo(t, "write batch"),
           work' = [work EXCEPT ![t] = [work[t] EXCEPT !.server = x]],
           UNCHANGED <<plan, overridden>>
    PROVE  Lands(t)
<1>1. PICK w : w = [work[t] EXCEPT !.server = x] /\ work' = [work EXCEPT ![t] = w]
  OBVIOUS
<1>2. OnRow(w, x, work[t].endpoint, work[t].used)
  <2>1. \A a : OnRow([work[t] EXCEPT !.server = a], a, work[t].endpoint, work[t].used)
    BY WorkIs, WorkPart DEF Working
  <2>2. QED
    BY <1>1, <2>1
<1>3. WorksOK' /\ work'[t] = w
  BY <1>1, <1>2, WorkCarried DEF OnRow, Working
<1>4. PICK y : y = work[t].endpoint
  OBVIOUS
<1>5. OwnEndpoint(t, y)
  BY <1>4 DEF Working, At, RowAt, CreateAt
<1>6. OwnEndpoint(t, y)'
  BY <1>5, OwnKept DEF Working
<1>7. work'[t].server = x /\ work'[t].endpoint = y
  BY <1>2, <1>3, <1>4 DEF OnRow
<1>8. OwnServer(t, work[t].server)' /\ OwnEndpoint(t, work[t].endpoint)'
  BY <1>6, <1>7 DEF OwnServer, OwnEndpoint
<1>9. QED
  BY <1>3, <1>8, CreateLands DEF Late

LEMMA CreateServerLands ==
    ASSUME NEW t \in Tasks, Working(t), Body[t].kind = "create", QuietNotRefused,
           Rows!CreateServer(t), UNCHANGED <<plan, overridden>>
    PROVE  Lands(t)
<1>1. pc[t] = "insert server" /\ CanInsertServer(Body[t].hostname)
  BY DEF Rows!CreateServer, Working, At, RowAt, CreateAt
<1>2. PICK x, s : /\ x = serial
                  /\ s = [id |-> serial, uuid |-> Body[t].uuid, hostname |-> Body[t].hostname,
                          raw_info |-> t, state |-> "setup",
                          fields |-> [f \in Rows!Fields |-> Rows!None]]
  OBVIOUS
<1>3. /\ servers' = servers \cup {s} /\ serial' = serial + 1 /\ UNCHANGED <<endpoints, ips>>
      /\ \/ /\ GoTo(t, "write batch")
            /\ work' = [work EXCEPT ![t] = [work[t] EXCEPT !.server = x]]
         \/ Rows!NoReply(t)
  BY <1>1, <1>2 DEF Rows!CreateServer, Rows!CanInsertServer, CanInsertServer, Rows!Reply,
                    Rows!GoTo, GoTo, Rows!Carry
<1>4. IsServer(s) /\ s.id = serial /\ s.uuid = Body[t].uuid /\ s.hostname = Body[t].hostname
  BY <1>2 DEF IsServer
<1>5. Touches(t) /\ HasRow(t)'
  <2>1. PutsServer(t)
    BY <1>3, <1>4 DEF PutsServer
  <2>2. QED
    BY <1>3, <1>4, <2>1 DEF Touches, HasRow
<1>6. OwnServer(t, x)'
  <2>1. serial \in Nat \ {0} /\ \A r \in servers : r.id # serial
    BY DEF Working, RowsOK
  <2>2. QED
    <3>1. x \in 0 .. serial' - 1
      <4>1. x = serial /\ serial' = serial + 1
        BY <1>2, <1>3
      <4>2. QED
        BY <2>1, <4>1
    <3>2. \A r \in servers' : r.id = x => r = s
      BY <1>2, <1>3, <2>1
    <3>3. QED
      BY <1>4, <3>1, <3>2 DEF OwnServer
<1>7. CASE Rows!NoReply(t)
  BY <1>1, <1>5, <1>7, RowUnansweredLands DEF IsPort
<1>8. CASE /\ GoTo(t, "write batch")
           /\ work' = [work EXCEPT ![t] = [work[t] EXCEPT !.server = x]]
  BY <1>1, <1>5, <1>6, <1>8, OnItsRowLands
<1>9. QED
  BY <1>3, <1>7, <1>8

\* by_hostname finds a row of its own instance, whose hostname it is.
LEMMA ReselectServerLands ==
    ASSUME NEW t \in Tasks, Working(t), Body[t].kind = "create", Rows!ReselectServer(t),
           UNCHANGED <<plan, overridden>>
    PROVE  Lands(t)
<1>1. pc[t] = "reselect server" /\ UNCHANGED cmdb /\ Touches(t)
  BY DEF Rows!ReselectServer, Rows!cmdb, cmdb, Touches
<1>2. ASSUME NEW s \in servers, s.hostname = Body[t].hostname, GoTo(t, "write batch"),
             work' = [work EXCEPT ![t] = [work[t] EXCEPT !.server = s.id]]
      PROVE  Lands(t)
  <2>1. PICK x : x = s.id
    OBVIOUS
  <2>2. s.uuid = Body[t].uuid
    BY <1>2 DEF Working, HostsOK
  <2>3. HasRow(t) /\ OwnServer(t, x)
    <3>1. RowsOK /\ serial \in Nat /\ s.id \in 1 .. serial - 1
      BY <1>2 DEF Working, RowsOK
    <3>2. \A r \in servers : r.id = s.id => r = s
      BY <1>2, <3>1 DEF RowsOK
    <3>3. HasRow(t)
      BY <1>2, <2>2 DEF HasRow
    <3>4. x \in 0 .. serial - 1
      BY <2>1, <3>1
    <3>5. QED
      BY <2>1, <2>2, <3>2, <3>3, <3>4 DEF OwnServer
  <2>4. HasRow(t)' /\ OwnServer(t, x)'
    BY <1>1, <2>3 DEF HasRow, OwnServer, cmdb
  <2>5. QED
    BY <1>1, <1>2, <2>1, <2>4, OnItsRowLands
<1>3. CASE /\ \A s \in servers : s.hostname # Body[t].hostname
           /\ GoTo(t, "insert server") /\ UNCHANGED work
  <2>1. OwnEndpoint(t, work[t].endpoint)
    BY <1>1 DEF Working, At, RowAt, CreateAt
  <2>2. OwnEndpoint(t, work[t].endpoint)' /\ CanInsertServer(Body[t].hostname)'
    BY <1>1, <1>3, <2>1 DEF OwnEndpoint, CanInsertServer, cmdb
  <2>3. RowAt(t, "insert server")'
    BY <2>2 DEF RowAt, RemovalAt, CreateAt, Late
  <2>4. QED
    BY <1>1, <1>3, <2>3, RowLands, WorksKept DEF IsPort, CallsOf, Ended, Working
<1>4. QED
  BY <1>2, <1>3 DEF Rows!ReselectServer, Rows!Reply, Rows!GoTo, GoTo, Rows!Carry

\* The fields: each update is of rows of the instance, and takes none away.
LEMMA UpdatesMore ==
    ASSUME NEW t \in Tasks, NEW F, NEW G, F \subseteq G, Updates(t, F)
    PROVE  Updates(t, G)
<1>1. PICK new : servers' = {new[s] : s \in servers} /\ \A s \in servers : Renews(t, F, s, new[s])
  BY DEF Updates
<1>2. \A s \in servers : Renews(t, G, s, new[s])
  BY <1>1 DEF Renews
<1>3. QED
  BY <1>1, <1>2 DEF Updates

LEMMA FieldsWritten ==
    ASSUME NEW t \in Tasks, Working(t), Body[t].kind = "create", NEW F \in SUBSET {"price", "flavor"},
           Rows!Write(t, F)
    PROVE  Touches(t) /\ \E G : Updates(t, G)
<1>1. Updates(t, F)
  BY WriteUpdates DEF Working
<1>2. Updates(t, {"price", "flavor"})
  BY <1>1 DEF Updates, Renews
<1>3. QED
  BY <1>2 DEF Touches

LEMMA WritesLand ==
    ASSUME NEW t \in Tasks, Working(t), Body[t].kind = "create", QuietNotRefused, pc[t] \in Late,
           Touches(t), \E G : Updates(t, G), UNCHANGED <<plan, overridden>>,
           \/ GoesOn(t)
           \/ Rows!NoReply(t)
    PROVE  Lands(t)
<1>1. CASE GoesOn(t)
  BY <1>1, GoesOnLands
<1>2. CASE Rows!NoReply(t)
  <2>1. HasRow(t)
    BY DEF Working, At, RowAt, CreateAt
  <2>2. HasRow(t)' /\ pc[t] # "delete server"
    BY <2>1, HasRowKept DEF Late
  <2>3. QED
    BY <1>2, <2>2, RowUnansweredLands DEF IsPort
<1>3. QED
  BY <1>1, <1>2

LEMMA WriteFieldsLand ==
    ASSUME NEW t \in Tasks, Working(t), Body[t].kind = "create", QuietNotRefused,
           Rows!WriteBatch(t) \/ Rows!WritePrice(t) \/ Rows!WriteFlavor(t),
           UNCHANGED <<plan, overridden>>
    PROVE  Lands(t)
<1>1. pc[t] \in Late /\ \E F \in SUBSET {"price", "flavor"} : Rows!Write(t, F)
  BY DEF Rows!WriteBatch, Rows!WritePrice, Rows!WriteFlavor, Rows!Fields, Late
<1>2. Touches(t) /\ \E G : Updates(t, G)
  BY <1>1, FieldsWritten
<1>3. IsWork(work[t]) /\ SameRow(work[t], work[t])
  BY WorkIs DEF Working
<1>4. Rows!Continue(t, work[t]) => GoesOn(t)
  BY <1>3, ContinuesOnRow DEF Working
<1>5. GoTo(t, "write flavor") /\ UNCHANGED work => GoesOn(t)
  BY <1>3, WorksKept DEF GoesOn, Plain, Working
<1>6. GoesOn(t) \/ Rows!NoReply(t)
  BY <1>4, <1>5 DEF Rows!WriteBatch, Rows!WritePrice, Rows!WriteFlavor, Rows!Reply, Rows!GoTo, GoTo
<1>7. QED
  BY <1>1, <1>2, <1>6, WritesLand

LEMMA WriteStateLands ==
    ASSUME NEW t \in Tasks, Working(t), Body[t].kind = "create", QuietNotRefused,
           Rows!WriteState(t), UNCHANGED <<plan, overridden>>
    PROVE  Lands(t)
<1>1. pc[t] = "write state" /\ pc[t] \in Late
  BY DEF Rows!WriteState, Late
<1>2. /\ Updates(t, {"price", "flavor"})
      /\ \A s \in servers' : s.uuid = Body[t].uuid /\ s.hostname = Body[t].hostname
                                => s.state \in {"ready", "error"}
  BY StateUpdates DEF Working
<1>3. Touches(t) /\ \E G : Updates(t, G)
  BY <1>2 DEF Touches
<1>4. CASE Rows!NoReply(t)
  BY <1>1, <1>3, <1>4, WritesLand
<1>5. CASE GoTo(t, "acked") /\ UNCHANGED work
  <2>1. HasRow(t)
    BY <1>1 DEF Working, At, RowAt, CreateAt
  <2>2. HasRow(t)'
    BY <1>3, <2>1, HasRowKept
  <2>3. HasEffect(t)'
    BY <1>2, <2>2 DEF HasRow, HasEffect, ServersOf
  <2>4. QED
    BY <1>3, <1>5, <2>3, RowLands, WorksKept DEF IsPort, Ended, Working
<1>6. QED
  BY <1>4, <1>5 DEF Rows!WriteState, Rows!Reply, Rows!GoTo, GoTo

\* The network of a create: cards of its row, and addresses of its cards.
LEMMA OnCardLands ==
    ASSUME NEW t \in Tasks, Working(t), Body[t].kind = "create", pc[t] \in Late,
           NEW x, OwnEndpoint(t, x)', Touches(t), UNCHANGED servers,
           Rows!CardWritten(t, x), UNCHANGED <<plan, overridden>>
    PROVE  Lands(t)
<1>1. PICK w : /\ w = [work[t] EXCEPT !.endpoint = x, !.cards = Tail(work[t].cards),
                                      !.addresses = Rows!Card(t).addresses]
               /\ Rows!Continue(t, w)
  BY DEF Rows!CardWritten
<1>2. OnRow(w, work[t].server, x, work[t].used)
  BY <1>1, WorkIs, WorkParts DEF Working
<1>3. WorksOK' /\ work'[t] = w /\ \E p \in Plain : GoTo(t, p)
  BY <1>1, <1>2, Continues DEF OnRow, Working
<1>4. PICK y : y = work[t].server
  OBVIOUS
<1>5. HasRow(t) /\ OwnServer(t, y)
  BY <1>4 DEF Working, At, RowAt, CreateAt
<1>6. HasRow(t)' /\ OwnServer(t, y)'
  BY <1>5, HasRowKept, OwnKept DEF Working
<1>7. work'[t].server = y /\ work'[t].endpoint = x
  BY <1>2, <1>3, <1>4 DEF OnRow
<1>8. OwnServer(t, work[t].server)' /\ OwnEndpoint(t, work[t].endpoint)'
  BY <1>6, <1>7 DEF OwnServer, OwnEndpoint
<1>9. QED
  BY <1>3, <1>6, <1>8, PlainIsLate, CreateLands

LEMMA CreateCardLands ==
    ASSUME NEW t \in Tasks, Working(t), Body[t].kind = "create", QuietNotRefused,
           Rows!CreateCard(t), UNCHANGED <<plan, overridden>>
    PROVE  Lands(t)
<1>1. pc[t] = "insert card" /\ pc[t] \in Late /\ ~IsPort(t) /\ pc[t] # "delete server"
  BY DEF Rows!CreateCard, Late, IsPort
<1>2. CASE Rows!Conflict(t)
  BY <1>1, <1>2, ConflictLands
<1>3. ASSUME NEW server, NEW name, NEW mac, server = work[t].server,
             CanInsertEndpoint(server, name), InsertEndpoint(server, name, mac),
             UNCHANGED <<servers, ips>>, Rows!CardWritten(t, serial) \/ Rows!NoReply(t)
      PROVE  Lands(t)
  <2>1. OwnServer(t, server) /\ HasRow(t)
    BY <1>1, <1>3 DEF Working, At, RowAt, CreateAt
  <2>2. Touches(t) /\ HasRow(t)'
    BY <1>3, <2>1 DEF Touches, PutsEndpoint, CanInsertEndpoint, HasRow
  <2>3. PICK x : x = serial
    OBVIOUS
  <2>4. OwnEndpoint(t, x)'
    <3>1. PICK e : /\ e.id = serial /\ e.server = server /\ endpoints' = endpoints \cup {e}
                   /\ serial' = serial + 1
      BY <1>3 DEF InsertEndpoint
    <3>2. serial \in Nat \ {0} /\ \A d \in endpoints : d.id # serial
      BY DEF Working, RowsOK
    <3>3. QED
      BY <1>3, <2>1, <2>3, <3>1, <3>2 DEF OwnEndpoint, OwnServer
  <2>5. CASE Rows!NoReply(t)
    BY <1>1, <2>2, <2>5, RowUnansweredLands
  <2>6. CASE Rows!CardWritten(t, x)
    BY <1>1, <1>3, <2>2, <2>4, <2>6, OnCardLands
  <2>7. QED
    BY <1>3, <2>3, <2>5, <2>6
<1>4. QED
  BY <1>2, <1>3
     DEF Rows!CreateCard, Rows!CanInsertEndpoint, CanInsertEndpoint, Rows!InsertEndpoint,
         InsertEndpoint, Rows!EndpointsOf, EndpointsOf

LEMMA StaysPut ==
    ASSUME NEW t \in Tasks, Working(t), Body[t].kind = "create", pc[t] \in Late,
           NEW p \in Late, GoTo(t, p), UNCHANGED <<cmdb, work, plan, overridden>>
    PROVE  Lands(t)
<1>1. Touches(t) /\ UNCHANGED servers /\ WorksOK' /\ SameRow(work'[t], work[t])
  BY WorksKept, WorkIs DEF Touches, cmdb, Working
<1>2. QED
  BY <1>1, CreateStays

LEMMA ReselectCardLands ==
    ASSUME NEW t \in Tasks, Working(t), Body[t].kind = "create",
           Rows!ReselectCard(t), UNCHANGED <<plan, overridden>>
    PROVE  Lands(t)
<1>1. pc[t] = "reselect card" /\ pc[t] \in Late /\ UNCHANGED cmdb /\ Touches(t)
  BY DEF Rows!ReselectCard, Late, Touches, Rows!cmdb, cmdb
<1>2. ASSUME NEW e \in endpoints, e.server = work[t].server, Rows!CardWritten(t, e.id)
      PROVE  Lands(t)
  <2>1. PICK x : x = e.id
    OBVIOUS
  <2>2. /\ x \in 0 .. serial - 1 /\ \A d \in endpoints : d.id = x => d = e
        /\ \A s \in servers : s.id = e.server => s.uuid = Body[t].uuid
    <3>1. OwnServer(t, work[t].server)
      BY <1>1 DEF Working, At, RowAt, CreateAt
    <3>2. e.id \in 0 .. serial - 1 /\ \A d \in endpoints : d.id = e.id => d = e
      BY <1>2 DEF Working, RowsOK
    <3>3. QED
      BY <1>2, <2>1, <3>1, <3>2 DEF OwnServer
  <2>3. OwnEndpoint(t, x)
    BY <2>2 DEF OwnEndpoint
  <2>4. OwnEndpoint(t, x)' /\ UNCHANGED servers
    BY <1>1, <2>3 DEF OwnEndpoint, cmdb
  <2>5. QED
    BY <1>1, <1>2, <2>1, <2>4, OnCardLands
<1>3. CASE GoTo(t, "insert card") /\ UNCHANGED work
  BY <1>1, <1>3, StaysPut DEF Late
<1>4. QED
  BY <1>2, <1>3 DEF Rows!ReselectCard, Rows!Reply, Rows!GoTo, GoTo, Rows!EndpointsOf

LEMMA CreateFindPrefixLands ==
    ASSUME NEW t \in Tasks, Working(t), Body[t].kind = "create",
           Rows!FindPrefix(t), UNCHANGED <<plan, overridden>>
    PROVE  Lands(t)
<1>1. pc[t] = "find prefix" /\ pc[t] \in Late /\ UNCHANGED <<cmdb, servers>> /\ Touches(t)
  BY DEF Rows!FindPrefix, Late, Touches, Rows!cmdb, cmdb
<1>2. CASE Rows!SkipAddress(t)
  BY <1>1, <1>2, Skips, GoesOnLands DEF Working
<1>3. ASSUME NEW type, GoTo(t, "insert address"),
             work' = [work EXCEPT ![t] = [work[t] EXCEPT !.type = type,
                                                         !.used = work[t].used \cup {type}]]
      PROVE  Lands(t)
  <2>1. PICK used, w : /\ used = work[t].used \cup {type}
                       /\ w = [work[t] EXCEPT !.type = type, !.used = used]
                       /\ work' = [work EXCEPT ![t] = w]
    BY <1>3
  <2>2. OnRow(w, work[t].server, work[t].endpoint, used)
    BY <2>1, WorkIs, WorkParts DEF Working
  <2>3. WorksOK' /\ work'[t] = w
    BY <2>1, <2>2, WorkCarried DEF OnRow, Working
  <2>4. /\ HasRow(t) /\ OwnServer(t, work[t].server) /\ OwnEndpoint(t, work[t].endpoint)
        /\ work'[t].server = work[t].server /\ work'[t].endpoint = work[t].endpoint
    BY <1>1, <2>2, <2>3 DEF OnRow, Working, At, RowAt, CreateAt
  <2>5. HasRow(t)' /\ OwnServer(t, work[t].server)' /\ OwnEndpoint(t, work[t].endpoint)'
    BY <1>1, <2>4 DEF HasRow, OwnServer, OwnEndpoint, cmdb
  <2>6. QED
    BY <1>1, <1>3, <2>3, <2>5, CreateLands DEF Late
<1>4. QED
  BY <1>2, <1>3 DEF Rows!FindPrefix, Rows!Reply, Rows!GoTo, GoTo, Rows!Carry

LEMMA AddressWrittenGoesOn ==
    ASSUME CarriedOK, NEW t \in Tasks, Rows!AddressWritten(t)
    PROVE  GoesOn(t)
<1>1. PICK w : /\ w = [work[t] EXCEPT !.addresses = Tail(work[t].addresses)]
               /\ Rows!Continue(t, w)
  BY DEF Rows!AddressWritten
<1>2. \A a : SameRow([work[t] EXCEPT !.addresses = a], work[t])
  BY WorkIs, WorkPart
<1>3. SameRow(w, work[t])
  BY <1>1, <1>2
<1>4. QED
  BY <1>1, <1>3, ContinuesOnRow

LEMMA CreateAddressLands ==
    ASSUME NEW t \in Tasks, Working(t), Body[t].kind = "create", QuietNotRefused,
           Rows!CreateAddress(t), UNCHANGED <<plan, overridden>>
    PROVE  Lands(t)
<1>1. pc[t] = "insert address" /\ pc[t] \in Late /\ ~IsPort(t) /\ pc[t] # "delete server"
  BY DEF Rows!CreateAddress, Late, IsPort
<1>2. CASE Rows!Conflict(t)
  BY <1>1, <1>2, ConflictLands
<1>3. ASSUME NEW ip, NEW endpoint, NEW prefix, NEW type, endpoint = work[t].endpoint,
             CanInsertIp(ip, endpoint, prefix), InsertIp(ip, endpoint, prefix, type),
             UNCHANGED <<servers, endpoints>>, Rows!AddressWritten(t) \/ Rows!NoReply(t)
      PROVE  Lands(t)
  <2>1. OwnEndpoint(t, endpoint) /\ HasRow(t)
    BY <1>1, <1>3 DEF Working, At, RowAt, CreateAt
  <2>2. PutsIp(t)
    BY <1>3, <2>1 DEF PutsIp, CanInsertIp
  <2>3. Touches(t) /\ HasRow(t)'
    BY <1>3, <2>1, <2>2 DEF Touches, HasRow
  <2>4. CASE Rows!NoReply(t)
    BY <1>1, <2>3, <2>4, RowUnansweredLands
  <2>5. CASE Rows!AddressWritten(t)
    BY <1>1, <1>3, <2>3, <2>5, AddressWrittenGoesOn, GoesOnLands DEF Working
  <2>6. QED
    BY <1>3, <2>4, <2>5
<1>4. ASSUME ~Rows!Conflict(t)
      PROVE  LET ip == Rows!Address(t)
                 prefix == PrefixOf[ip]
             IN /\ CanInsertIp(ip, work[t].endpoint, prefix)
                /\ InsertIp(ip, work[t].endpoint, prefix, work[t].type)
                /\ UNCHANGED <<servers, endpoints>>
                /\ Rows!AddressWritten(t) \/ Rows!NoReply(t)
  BY <1>4 DEF Rows!CreateAddress, Rows!CanInsertIp, CanInsertIp, Rows!InsertIp, InsertIp,
              Rows!IpsOn, IpsOn, Rows!None, None
<1>5. QED
  BY <1>2, <1>3, <1>4

LEMMA ReselectAddressLands ==
    ASSUME NEW t \in Tasks, Working(t), Body[t].kind = "create",
           Rows!ReselectAddress(t), UNCHANGED <<plan, overridden>>
    PROVE  Lands(t)
<1>1. pc[t] \in Late /\ UNCHANGED <<cmdb, servers>> /\ Touches(t)
  BY DEF Rows!ReselectAddress, Late, Touches, Rows!cmdb, cmdb
<1>2. CASE Rows!AddressWritten(t)
  BY <1>1, <1>2, AddressWrittenGoesOn, GoesOnLands DEF Working
<1>3. CASE GoTo(t, "insert address") /\ UNCHANGED work
  BY <1>1, <1>3, StaysPut DEF Late
<1>4. QED
  BY <1>2, <1>3 DEF Rows!ReselectAddress, Rows!Reply, Rows!GoTo, GoTo

\* resize.
LEMMA ResizeLands ==
    ASSUME NEW t \in Tasks, Working(t), Body[t].kind = "resize", QuietNotRefused,
           Rows!Resize(t), UNCHANGED <<plan, overridden>>
    PROVE  Lands(t)
<1>1. ~IsPort(t) /\ pc[t] \notin {"delete server"}
  BY DEF IsPort, Rows!Resize, Rows!ResizePrice, Rows!ResizeFlavor
<1>2. ResizeAt(t, pc[t])
  BY DEF Working, At, RowAt
<1>3. CASE Rows!ResizePrice(t)
  <2>1. pc[t] = "resize price" /\ "price" \in Body[t].sets /\ Rows!Write(t, {"price"})
    BY <1>2, <1>3 DEF Rows!ResizePrice, ResizeAt
  <2>2. Updates(t, {"price"}) /\ \A s \in ServersOf(Body[t].uuid)' : s.fields["price"] = t
    <3>1. {"price"} \in SUBSET {"price", "flavor"} /\ RowsOK /\ Rows!Write(t, {"price"})
      BY <2>1 DEF Working
    <3>2. /\ Updates(t, {"price"})
          /\ \A s \in ServersOf(Body[t].uuid)', f \in {"price"} : s.fields[f] = t
      BY <3>1, WriteUpdates
    <3>3. QED
      BY <3>2
  <2>3. Updates(t, Body[t].sets)
    <3>1. {"price"} \subseteq Body[t].sets
      BY <2>1
    <3>2. QED
      BY <2>2, <3>1, UpdatesMore
  <2>4. Touches(t)
    BY <2>3 DEF Touches
  <2>5. CASE Rows!NoReply(t)
    BY <1>1, <2>1, <2>4, <2>5, RowUnansweredLands
  <2>6. CASE "flavor" \in Body[t].sets /\ GoTo(t, "resize flavor") /\ UNCHANGED work
    <3>1. RowAt(t, "resize flavor")'
      BY <2>1, <2>2, <2>6 DEF RowAt, ResizeAt
    <3>2. QED
      BY <1>1, <2>4, <2>6, <3>1, RowLands, WorksKept DEF CallsOf, Working, Ended
  <2>7. CASE "flavor" \notin Body[t].sets /\ GoTo(t, "acked") /\ UNCHANGED work
    <3>1. Body[t].sets \subseteq {"price"}
      BY <2>7, InstanceAssumption
    <3>2. HasEffect(t)'
      BY <2>2, <3>1 DEF HasEffect
    <3>3. QED
      BY <1>1, <2>4, <2>7, <3>2, RowLands, WorksKept DEF Working, Ended
  <2>8. QED
    BY <1>3, <2>5, <2>6, <2>7 DEF Rows!ResizePrice, Rows!Reply, Rows!GoTo, GoTo
<1>4. CASE Rows!ResizeFlavor(t)
  <2>1. /\ pc[t] = "resize flavor" /\ "flavor" \in Body[t].sets /\ Rows!Write(t, {"flavor"})
        /\ "price" \in Body[t].sets => \A s \in ServersOf(Body[t].uuid) : s.fields["price"] = t
    BY <1>2, <1>4 DEF Rows!ResizeFlavor, ResizeAt
  <2>2. Updates(t, {"flavor"}) /\ \A s \in ServersOf(Body[t].uuid)' : s.fields["flavor"] = t
    <3>1. {"flavor"} \in SUBSET {"price", "flavor"} /\ RowsOK /\ Rows!Write(t, {"flavor"})
      BY <2>1 DEF Working
    <3>2. /\ Updates(t, {"flavor"})
          /\ \A s \in ServersOf(Body[t].uuid)', f \in {"flavor"} : s.fields[f] = t
      BY <3>1, WriteUpdates
    <3>3. QED
      BY <3>2
  <2>3. Updates(t, Body[t].sets)
    <3>1. {"flavor"} \subseteq Body[t].sets
      BY <2>1
    <3>2. QED
      BY <2>2, <3>1, UpdatesMore
  <2>4. Touches(t)
    BY <2>3 DEF Touches
  <2>5. "price" \in Body[t].sets => \A s \in ServersOf(Body[t].uuid)' : s.fields["price"] = t
    <3>1. PICK new : /\ servers' = {new[s] : s \in servers}
                     /\ \A s \in servers : Renews(t, {"flavor"}, s, new[s])
      BY <2>2 DEF Updates
    <3>2. SUFFICES ASSUME "price" \in Body[t].sets, NEW s \in ServersOf(Body[t].uuid)'
                   PROVE  s.fields["price"] = t
      OBVIOUS
    <3>3. PICK r \in servers : s = new[r] /\ s.uuid = Body[t].uuid
      BY <3>1, <3>2 DEF ServersOf
    <3>4. r.uuid = Body[t].uuid /\ s.fields["price"] = r.fields["price"]
      BY <3>1, <3>3 DEF Renews
    <3>5. QED
      BY <2>1, <3>2, <3>4 DEF ServersOf
  <2>6. CASE Rows!NoReply(t)
    BY <1>1, <2>1, <2>4, <2>5, <2>6, RowUnansweredLands
  <2>7. CASE GoTo(t, "acked") /\ UNCHANGED work
    <3>1. HasEffect(t)'
      BY <2>2, <2>5, InstanceAssumption DEF HasEffect
    <3>2. QED
      BY <1>1, <2>4, <2>7, <3>1, RowLands, WorksKept DEF Working, Ended
  <2>8. QED
    BY <1>4, <2>6, <2>7 DEF Rows!ResizeFlavor, Rows!Reply, Rows!GoTo, GoTo
<1>5. QED
  BY <1>3, <1>4 DEF Rows!Resize

LEMMA RowStepLands ==
    ASSUME NEW t \in Tasks, Working(t), QuietNotRefused, RowStep(t)
    PROVE  Lands(t)
<1>1. ~IsPort(t) /\ UNCHANGED <<plan, overridden>> /\ pc[t] \in CallsOf(t)
  BY DEF RowStep, Working
<1>2. CASE Rows!NotApplied(t)
  BY <1>1, <1>2, NotAppliedLands
<1>3. CASE Rows!Removal(t)
  BY <1>1, <1>3, SelectServersLands, DeleteVictimLands DEF Rows!Removal
<1>4. CASE Rows!Resize(t)
  <2>1. Body[t].kind = "resize"
    BY <1>1, <1>4, KindsAre
       DEF Rows!Resize, Rows!ResizePrice, Rows!ResizeFlavor, CallsOf, Removing, Late, IsPort
  <2>2. QED
    BY <1>1, <1>4, <2>1, ResizeLands
<1>5. CASE Rows!Create(t)
  <2>1. pc[t] \in {"look up", "insert server", "reselect server"} \cup Late
    BY <1>5
       DEF Rows!Create, Rows!LookUp, Rows!CreateServer, Rows!ReselectServer, Rows!WriteBatch,
           Rows!WritePrice, Rows!WriteFlavor, Rows!CreateCard, Rows!ReselectCard,
           Rows!FindPrefix, Rows!CreateAddress, Rows!ReselectAddress, Rows!WriteState, Late
  <2>2. Body[t].kind = "create"
    BY <1>1, <2>1, KindsAre DEF CallsOf, Removing, Late, IsPort
  <2>3. QED
    BY <1>1, <1>5, <2>2, LookUpLands, CreateServerLands, ReselectServerLands, WriteFieldsLand,
       CreateCardLands, ReselectCardLands, CreateFindPrefixLands, CreateAddressLands,
       ReselectAddressLands, WriteStateLands DEF Rows!Create
<1>6. QED
  BY <1>2, <1>3, <1>4, <1>5 DEF RowStep

-----------------------------------------------------------------------------
(* What stands                                                             *)

\* Only a task at a call makes one.
LEMMA StepsAreBusy ==
    ASSUME NEW t \in Tasks, PortStep(t) \/ RowStep(t)
    PROVE  t \in Busy
<1>1. CASE PortStep(t)
  BY <1>1
     DEF PortStep, Busy, Ended, Ports!Unreachable, Ports!Busy, Ports!Ended, Ports!Refuses,
         Ports!Attach, Ports!SelectServer, Ports!FindAttachedIp,
         Ports!FindPrefix, Ports!UpdateEndpoint, Ports!CreateEndpoint, Ports!ReselectAttached,
         Ports!ReselectName, Ports!CreateIp, Ports!ReselectIp,
         Ports!Detach, Ports!DeleteIp, Ports!DeleteEndpoints
<1>2. CASE RowStep(t)
  BY <1>2
     DEF RowStep, Busy, Ended, Rows!NotApplied, Rows!Busy, Rows!Ended, Rows!Removal,
         Rows!SelectServers, Rows!DeleteVictim, Rows!Resize, Rows!ResizePrice,
         Rows!ResizeFlavor, Rows!Create, Rows!LookUp, Rows!CreateServer, Rows!ReselectServer,
         Rows!WriteBatch, Rows!WritePrice, Rows!WriteFlavor, Rows!CreateCard,
         Rows!ReselectCard, Rows!FindPrefix, Rows!CreateAddress, Rows!ReselectAddress,
         Rows!WriteState
<1>3. QED
  BY <1>1, <1>2

\* A step leaves what the other tasks carry as it is.
LEMMA StepsAlone ==
    ASSUME CarriedOK, NEW t \in Tasks, PortStep(t) \/ RowStep(t), NEW u \in Tasks \ {t}
    PROVE  plan'[u] = plan[u] /\ work'[u] = work[u]
<1>1. ASSUME PortStep(t) PROVE plan'[u] = plan[u]
  <2>1. \/ UNCHANGED plan
        \/ \E p : plan' = [plan EXCEPT ![t] = p]
        \/ \E p : plan' = [plan EXCEPT ![t].endpoint = p]
        \/ \E p : plan' = [plan EXCEPT ![t].prefix = p]
    BY <1>1
       DEF PortStep, Ports!Unreachable, Ports!Refuses, Ports!NoReply, Ports!Attach,
           Ports!SelectServer, Ports!Plan, Ports!FindAttachedIp,
           Ports!FindPrefix, Ports!UpdateEndpoint, Ports!CreateEndpoint, Ports!ReselectAttached,
           Ports!ReselectName, Ports!CreateIp, Ports!ReselectIp,
           Ports!Detach, Ports!DeleteIp, Ports!DeleteEndpoints
  <2>2. QED
    BY <2>1 DEF CarriedOK
<1>2. ASSUME RowStep(t) PROVE work'[u] = work[u]
  <2>1. Rows!Report(t) => UNCHANGED work \/ \E w : Rows!Carry(t, w)
    BY DEF Rows!Report, Rows!StopCreate, Rows!SkipCard, Rows!SkipAddress, Rows!Continue
  <2>2. Rows!NoReply(t) \/ Rows!Conflict(t) => UNCHANGED work \/ \E w : Rows!Carry(t, w)
    BY <2>1 DEF Rows!NoReply, Rows!Conflict
  <2>3. (\E e : Rows!CardWritten(t, e)) \/ Rows!AddressWritten(t) \/ Rows!SkipAddress(t)
            \/ (\E w : Rows!Continue(t, w))
        => \E w : Rows!Carry(t, w)
    BY DEF Rows!CardWritten, Rows!AddressWritten, Rows!SkipAddress, Rows!Continue
  <2> DEFINE Carried == UNCHANGED work \/ \E w : Rows!Carry(t, w)
  <2>4. Rows!NotApplied(t) \/ Rows!Removal(t) \/ Rows!Resize(t) => Carried
    BY <2>2
       DEF Rows!NotApplied, Rows!Removal, Rows!SelectServers, Rows!DeleteVictim, Rows!Resize,
           Rows!ResizePrice, Rows!ResizeFlavor
  <2>5. Rows!Create(t) => Carried
    BY <2>2, <2>3
       DEF Rows!Create, Rows!LookUp, Rows!CreateServer, Rows!ReselectServer, Rows!WriteBatch,
           Rows!WritePrice, Rows!WriteFlavor, Rows!CreateCard, Rows!ReselectCard,
           Rows!FindPrefix, Rows!CreateAddress, Rows!ReselectAddress, Rows!WriteState
  <2>6. Carried
    BY <1>2, <2>4, <2>5 DEF RowStep
  <2>7. QED
    BY <2>6 DEF Rows!Carry, CarriedOK
<1>3. PortStep(t) => UNCHANGED work
  BY DEF PortStep
<1>4. RowStep(t) => UNCHANGED plan
  BY DEF RowStep
<1>5. QED
  BY <1>1, <1>2, <1>3, <1>4

\* The rows after a step: those there were, as far as ids and owners go, and at
\* most one that a create put in.
LEMMA RowsAfter ==
    ASSUME RowsOK, NEW t \in Tasks, Touches(t)
    PROVE  /\ serial' \in {serial, serial + 1}
           /\ \A s \in servers' :
                 \/ \E r \in servers : s.id = r.id /\ s.uuid = r.uuid /\ s.hostname = r.hostname
                 \/ /\ Body[t].kind = "create" /\ s.id = serial
                    /\ s.uuid = Body[t].uuid /\ s.hostname = Body[t].hostname
           /\ \A e \in endpoints' :
                 \/ \E d \in endpoints : e.id = d.id /\ e.server = d.server
                 \/ e.id = serial /\ OwnServer(t, e.server)
                    /\ \E s \in servers : s.id = e.server
                    /\ UNCHANGED servers
<1>1. CASE UNCHANGED cmdb
  BY <1>1 DEF cmdb
<1>2. CASE SetsMac
  <2>1. PICK endpoint, mac : SetMac(endpoint, mac)
    BY <1>2 DEF SetsMac
  <2>2. DEFINE new == [e \in endpoints |->
                          [id |-> e.id, server |-> e.server, name |-> e.name,
                           mac |-> IF e.id = endpoint THEN mac ELSE e.mac]]
  <2>3. /\ endpoints' = {new[e] : e \in endpoints}
        /\ \A e \in endpoints : new[e].id = e.id /\ new[e].server = e.server
    BY <2>1 DEF SetMac
  <2>4. HIDE DEF new
  <2>5. QED
    BY <1>2, <2>3 DEF SetsMac
<1>3. CASE PutsEndpoint(t)
  <2>1. PICK server, name, mac :
            /\ OwnServer(t, server) /\ \E s \in servers : s.id = server
            /\ InsertEndpoint(server, name, mac) /\ UNCHANGED <<servers, ips>>
    BY <1>3 DEF PutsEndpoint
  <2> DEFINE new == [id |-> serial, server |-> server, name |-> name, mac |-> mac]
  <2>2. /\ new.id = serial /\ new.server = server
        /\ endpoints' = endpoints \cup {new} /\ serial' = serial + 1
        /\ \E s \in servers : s.id = server
    BY <2>1 DEF InsertEndpoint
  <2> HIDE DEF new
  <2>3. QED
    BY <2>1, <2>2
<1>4. CASE PutsIp(t)
  BY <1>4 DEF PutsIp, InsertIp
<1>5. CASE DropsIp(t) \/ DropsEndpoints(t) \/ DropsServer(t)
  BY <1>5 DEF DropsIp, DropsEndpoints, DropsServer, DeleteServer
<1>6. CASE Body[t].kind = "create" /\ PutsServer(t)
  BY <1>6 DEF PutsServer
<1>7. ASSUME NEW F, Updates(t, F)
      PROVE  /\ UNCHANGED <<endpoints, serial>>
             /\ \A s \in servers' : \E r \in servers :
                   s.id = r.id /\ s.uuid = r.uuid /\ s.hostname = r.hostname
  BY <1>7 DEF Updates, Renews
<1>8. QED
  BY <1>1, <1>2, <1>3, <1>4, <1>5, <1>6, <1>7 DEF Touches

\* An id of its own stays one, whoever makes the step.
LEMMA OwnStays ==
    ASSUME RowsOK, NEW t \in Tasks, NEW u \in Tasks, Touches(t), NEW x
    PROVE  /\ OwnServer(u, x) => OwnServer(u, x)'
           /\ OwnEndpoint(u, x) => OwnEndpoint(u, x)'
<1>1. x \in 0 .. serial - 1 => x \in 0 .. serial' - 1 /\ x # serial
  BY RowsAfter DEF RowsOK
<1>2. OwnServer(u, x) => OwnServer(u, x)'
  <2>1. SUFFICES ASSUME OwnServer(u, x), NEW s \in servers', s.id = x PROVE s.uuid = Body[u].uuid
    BY <1>1 DEF OwnServer
  <2>2. PICK r \in servers : s.id = r.id /\ s.uuid = r.uuid
    BY <1>1, <2>1, RowsAfter DEF OwnServer
  <2>3. QED
    BY <2>1, <2>2 DEF OwnServer
<1>3. OwnEndpoint(u, x) => OwnEndpoint(u, x)'
  <2>1. SUFFICES ASSUME OwnEndpoint(u, x), NEW e \in endpoints', NEW s \in servers',
                        e.id = x, s.id = e.server
                 PROVE  s.uuid = Body[u].uuid
    BY <1>1 DEF OwnEndpoint
  <2>2. PICK d \in endpoints : e.id = d.id /\ e.server = d.server
    BY <1>1, <2>1, RowsAfter DEF OwnEndpoint
  <2>3. PICK r \in servers : s.id = r.id /\ s.uuid = r.uuid
    <3>1. s.id # serial
      BY <2>1, <2>2 DEF RowsOK
    <3>2. QED
      BY <3>1, RowsAfter
  <2>4. QED
    BY <2>1, <2>2, <2>3 DEF OwnEndpoint
<1>4. QED
  BY <1>2, <1>3

\* What one task needs to go on, the step of another that neither undoes it
\* nor is undone by it leaves there.
LEMMA AtKept ==
    ASSUME RowsOK, HostsOK, HostnamesOwned, NEW t \in Tasks, NEW u \in Tasks \ {t}, Touches(t),
           ~Overrides(t, u), ~Overrides(u, t), At(u), pc[u] \in CallsOf(u),
           pc'[u] = pc[u], plan'[u] = plan[u], work'[u] = work[u]
    PROVE  At(u)'
<1>1. ASSUME Body[u].kind = "attach", pc[u] \in Attaching
      PROVE  PlanHolds(u)'
  <2>1. PICK server, endpoint : server = plan[u].server /\ endpoint = plan[u].endpoint
    OBVIOUS
  <2>2. /\ endpoint \in 0 .. serial - 1
        /\ \E s \in ServersOf(Body[u].uuid) : s.id = server
        /\ \A e \in endpoints : e.id = endpoint => e.server = server
    BY <1>1, <2>1 DEF At, AttachAt, PlanHolds
  <2>3. endpoint \in 0 .. serial' - 1 /\ endpoint # serial
    BY <2>2, RowsAfter DEF RowsOK
  <2>4. \A e \in endpoints' : e.id = endpoint => e.server = server
    BY <2>2, <2>3, RowsAfter
  <2>5. \E s \in ServersOf(Body[u].uuid)' : s.id = server
    <3>1. CASE Body[t].uuid # Body[u].uuid
      BY <2>2, <3>1, SparesServers
    <3>2. CASE Body[t].uuid = Body[u].uuid
      <4>1. Body[t].kind \in {"attach", "detach", "resize"}
        BY <3>2, InstanceAssumption DEF Overrides
      <4>2. CASE UNCHANGED servers
        BY <2>2, <4>2 DEF ServersOf
      <4>3. CASE Updates(t, Body[t].sets)
        BY <2>2, <4>3 DEF Updates, Renews, ServersOf
      <4>4. QED
        BY <4>1, <4>2, <4>3
           DEF Touches, cmdb, SetsMac, PutsEndpoint, PutsIp, DropsIp, DropsEndpoints
    <3>3. QED
      BY <3>1, <3>2
  <2>6. QED
    BY <2>1, <2>3, <2>4, <2>5 DEF PlanHolds
<1>2. ASSUME Body[u].kind = "detach", pc[u] = "delete endpoints"
      PROVE  Attached(Body[u].ip, Body[u].uuid)' = {}
  <2>1. HasEffect(u)
    BY <1>2 DEF At, DetachAt, HasEffect
  <2>2. HasEffect(u)'
    BY <2>1, EffectKept
  <2>3. QED
    BY <1>2, <2>2 DEF HasEffect
<1>3. ASSUME Body[u].kind \in {"create", "delete"}
      PROVE  RowAt(u, pc[u])'
  <2>1. Body[t].uuid # Body[u].uuid
    BY <1>3 DEF Overrides
  <2>2. ServersOf(Body[u].uuid)' = ServersOf(Body[u].uuid)
    BY <2>1, SparesServers
  <2>3. RemovalAt(u, pc[u]) /\ (Body[u].kind = "create" => CreateAt(u, pc[u]))
    BY <1>3 DEF At, RowAt
  <2>4. ASSUME Body[u].kind = "create", NEW s \in servers', s.hostname = Body[u].hostname
        PROVE  \E r \in servers : r.id = s.id /\ r.hostname = Body[u].hostname
    <3>1. s.uuid = Body[u].uuid
      BY <2>4, RowsStayOK DEF HostsOK
    <3>2. QED
      BY <2>2, <2>4, <3>1 DEF ServersOf
  <2>5. RemovalAt(u, pc[u])'
    <3>1. SUFFICES ASSUME pc[u] = "delete server", VictimsHold(u) PROVE VictimsHold(u)'
      BY <2>3 DEF RemovalAt
    <3>2. PICK V : V = work[u].victims
      OBVIOUS
    <3>3. /\ V \subseteq 1 .. serial - 1
          /\ \A s \in servers : s.id \in V => s.uuid = Body[u].uuid
          /\ \A s \in ServersOf(Body[u].uuid) : s.id \in V
          /\ Body[u].kind = "create" =>
                \A s \in servers : s.hostname = Body[u].hostname => s.id \in V
      BY <3>1, <3>2 DEF VictimsHold
    <3>4. V \subseteq 1 .. serial' - 1 /\ serial \notin V
      BY <3>3, RowsAfter DEF RowsOK
    <3>5. \A s \in servers' : s.id \in V => s.uuid = Body[u].uuid
      BY <3>3, <3>4, RowsAfter
    <3>6. \A s \in ServersOf(Body[u].uuid)' : s.id \in V
      BY <2>2, <3>3
    <3>7. Body[u].kind = "create" =>
             \A s \in servers' : s.hostname = Body[u].hostname => s.id \in V
      BY <2>4, <3>3
    <3>8. QED
      BY <3>2, <3>4, <3>5, <3>6, <3>7 DEF VictimsHold
  <2>6. Body[u].kind = "create" => CreateAt(u, pc[u])'
    <3>1. SUFFICES ASSUME Body[u].kind = "create" PROVE CreateAt(u, pc[u])'
      OBVIOUS
    <3>2. PICK x, y : x = work[u].endpoint /\ y = work[u].server
      OBVIOUS
    <3>3. /\ pc[u] = "insert server" => CanInsertServer(Body[u].hostname)
          /\ pc[u] # "look up" => OwnEndpoint(u, x)
          /\ pc[u] \in Late => HasRow(u) /\ OwnServer(u, y)
      BY <2>3, <3>1, <3>2 DEF CreateAt
    <3>4. pc[u] = "insert server" => CanInsertServer(Body[u].hostname)'
      BY <2>4, <3>1, <3>3 DEF CanInsertServer
    <3>5. /\ pc[u] # "look up" => OwnEndpoint(u, x)'
          /\ pc[u] \in Late => OwnServer(u, y)'
      BY <3>3, OwnStays
    <3>6. pc[u] \in Late => HasRow(u)'
      BY <2>2, <3>3 DEF HasRow, ServersOf
    <3>7. QED
      BY <3>2, <3>4, <3>5, <3>6 DEF CreateAt, OwnEndpoint, OwnServer
  <2>7. QED
    BY <1>3, <2>5, <2>6 DEF RowAt
<1>4. ASSUME Body[u].kind = "resize"
      PROVE  ResizeAt(u, pc[u])'
  <2>1. ResizeAt(u, pc[u])
    BY <1>4 DEF At, RowAt
  <2>2. ASSUME "price" \in Body[u].sets,
               \A s \in ServersOf(Body[u].uuid) : s.fields["price"] = u
        PROVE  \A s \in ServersOf(Body[u].uuid)' : s.fields["price"] = u
    <3>1. CASE Body[t].uuid # Body[u].uuid
      BY <2>2, <3>1, SparesServers
    <3>2. CASE Body[t].uuid = Body[u].uuid
      <4>1. Body[t].kind \in {"attach", "detach", "resize"}
        BY <3>2, InstanceAssumption DEF Overrides
      <4>2. CASE UNCHANGED servers
        BY <2>2, <4>2 DEF ServersOf
      <4>3. CASE Body[t].kind = "resize" /\ Updates(t, Body[t].sets)
        <5>1. PICK new : /\ servers' = {new[s] : s \in servers}
                         /\ \A s \in servers : Renews(t, Body[t].sets, s, new[s])
          BY <4>3 DEF Updates
        <5>2. "price" \notin Body[t].sets
          BY <1>4, <2>2, <3>2, <4>3 DEF Overrides
        <5>3. QED
          BY <2>2, <5>1, <5>2 DEF Renews, ServersOf
      <4>4. QED
        BY <4>1, <4>2, <4>3
           DEF Touches, cmdb, SetsMac, PutsEndpoint, PutsIp, DropsIp, DropsEndpoints
    <3>3. QED
      BY <3>1, <3>2
  <2>3. QED
    BY <2>1, <2>2 DEF ResizeAt
<1>5. QED
  <2>1. Body[u].kind \in {"create", "delete", "attach", "detach", "resize"}
    BY InstanceAssumption
  <2>2. CASE Body[u].kind \in {"create", "delete", "resize"}
    BY <1>3, <1>4, <2>2 DEF At, RowAt
  <2>3. CASE Body[u].kind \in {"attach", "detach"}
    BY <1>1, <1>2, <2>3 DEF At, AttachAt, DetachAt
  <2>4. QED
    BY <2>1, <2>2, <2>3

LEMMA LandingKeepsInv ==
    ASSUME EffectInv, NoneUndone, HostnamesOwned, NEW t \in Busy, PortStep(t) \/ RowStep(t), Lands(t)
    PROVE  EffectInv'
<1>1. /\ t \in Tasks /\ Touches(t) /\ RowsOK /\ HostsOK /\ CarriedOK /\ CarriedOK'
      /\ UNCHANGED overridden
      /\ \A u \in Tasks \ {t} : pc'[u] = pc[u]
  BY DEF EffectInv, Lands, Busy
<1>2. Busy' \subseteq Busy
  BY <1>1 DEF Busy
<1>3. RowsOK' /\ HostsOK'
  BY <1>1, RowsStayOK
<1>4. Routed'
  BY <1>1 DEF EffectInv, Routed, Lands
<1>5. OverridesKnown'
  BY <1>1, <1>2 DEF EffectInv, OverridesKnown
<1>6. ASSUME NEW u \in Busy'
      PROVE  At(u)'
  <2>1. CASE u = t
    BY <1>6, <2>1 DEF Lands, Busy
  <2>2. CASE u # t
    <3>1. u \in Busy /\ ~Overrides(t, u) /\ ~Overrides(u, t)
      BY <1>2, <1>6 DEF NoneUndone
    <3>2. u \in Tasks \ {t} /\ At(u) /\ pc[u] \in CallsOf(u) /\ pc'[u] = pc[u]
      BY <1>1, <2>2, <3>1 DEF EffectInv, Routed, Busy
    <3>3. plan'[u] = plan[u] /\ work'[u] = work[u]
      BY <1>1, <3>2, StepsAlone
    <3>4. QED
      BY <1>1, <3>1, <3>2, <3>3, AtKept
  <2>3. QED
    BY <2>1, <2>2
<1>7. ASSUME NEW u \in Tasks, u \notin overridden', pc'[u] = "acked"
      PROVE  HasEffect(u)'
  <2>1. CASE u = t
    BY <1>7, <2>1 DEF Lands
  <2>2. CASE Idle(u)
    BY <2>2 DEF Idle, HasEffect
  <2>3. CASE u # t /\ ~Idle(u)
    <3>1. pc[u] = "acked" /\ u \notin overridden
      BY <1>1, <1>7, <2>3
    <3>2. HasEffect(u) /\ ~Overrides(t, u)
      BY <2>3, <3>1 DEF EffectInv, EffectStands, OverridesKnown
    <3>3. QED
      BY <1>1, <2>3, <3>2, EffectKept
  <2>4. QED
    BY <2>1, <2>2, <2>3
<1>8. EffectStands'
  BY <1>7 DEF EffectStands
<1>9. QED
  BY <1>1, <1>3, <1>4, <1>5, <1>6, <1>8 DEF EffectInv

\* A task starts with nothing to find, or has nothing to do.
LEMMA StartsRight ==
    ASSUME NEW t \in Tasks, Start(t), CarriedOK
    PROVE  /\ UNCHANGED cmdb
           /\ \A u \in Tasks \ {t} : pc'[u] = pc[u] /\ plan'[u] = plan[u] /\ work'[u] = work[u]
           /\ pc'[t] \in CallsOf(t) \cup Ended
           /\ pc'[t] \notin Ended => At(t)'
           /\ pc'[t] = "acked" => HasEffect(t)'
           /\ pc'[t] \in Ended => Idle(t)
           /\ CarriedOK'
<1>1. CASE IsPort(t)
  <2>1. PICK p : p = Ports!FirstCall(t) /\ GoTo(t, p)
    BY <1>1 DEF Start, Ports!Start, Ports!Begin, Ports!GoTo, GoTo
  <2>2. UNCHANGED <<cmdb, work>>
    BY <1>1 DEF Start, Ports!Start, Ports!Begin, Ports!cmdb, cmdb
  <2>3. /\ pc' = [u \in Tasks |-> pc'[u]] /\ pc'[t] = p
        /\ \A u \in Tasks \ {t} : pc'[u] = pc[u]
    BY <2>1, Going
  <2>4. PlansOK' /\ \A u \in Tasks \ {t} : plan'[u] = plan[u]
    <3>1. plan' = [plan EXCEPT ![t] = Ports!NoPlan] /\ IsPlan(Ports!NoPlan)
      BY <1>1 DEF Start, Ports!Start, Ports!NoPlan, IsPlan
    <3>2. QED
      BY <3>1, PlanCarried DEF CarriedOK
  <2>5. p \in CallsOf(t) /\ p \notin Ended /\ p \notin Attaching \cup {"delete endpoints"}
    BY <1>1, <2>1 DEF IsPort, CallsOf, Attaching, Ended, Ports!FirstCall
  <2>6. At(t)'
    BY <1>1, <2>3, <2>5 DEF At, IsPort, AttachAt, DetachAt
  <2>7. CarriedOK'
    BY <2>2, <2>3, <2>4 DEF CarriedOK, PlansOK
  <2>8. QED
    BY <2>2, <2>3, <2>4, <2>5, <2>6, <2>7 DEF Ended
<1>2. CASE ~IsPort(t)
  <2>1. PICK p : p = Rows!FirstCall(t) /\ GoTo(t, p)
    BY <1>2 DEF Start, Rows!Start, Rows!Begin, Rows!GoTo, GoTo
  <2>2. UNCHANGED <<cmdb, plan>>
    BY <1>2 DEF Start, Rows!Start, Rows!Begin, Rows!cmdb, cmdb
  <2>3. /\ pc' = [u \in Tasks |-> pc'[u]] /\ pc'[t] = p
        /\ \A u \in Tasks \ {t} : pc'[u] = pc[u]
    BY <2>1, Going
  <2>4. WorksOK' /\ \A u \in Tasks \ {t} : work'[u] = work[u]
    <3>1. work' = [work EXCEPT ![t] = Rows!NoWork] /\ IsWork(Rows!NoWork)
      BY <1>2 DEF Start, Rows!Start, Rows!Carry, Rows!NoWork, IsWork
    <3>2. QED
      BY <3>1, WorkCarried DEF CarriedOK
  <2>5. p = IF Body[t].kind = "create" THEN "look up"
            ELSE IF Body[t].kind = "delete" THEN "select servers"
            ELSE IF "price" \in Body[t].sets THEN "resize price"
            ELSE IF "flavor" \in Body[t].sets THEN "resize flavor" ELSE "acked"
    BY <2>1 DEF Rows!FirstCall
  <2>6. p \in CallsOf(t) \cup Ended
    BY <1>2, <2>5, KindsAre DEF IsPort, CallsOf, Removing, Ended
  <2>7. p \notin Ended => RowAt(t, p)'
    BY <1>2, <2>5, KindsAre DEF IsPort, RowAt, RemovalAt, CreateAt, ResizeAt, Late, Ended
  <2>8. p = "acked" => Body[t].kind = "resize" /\ Body[t].sets = {}
    BY <1>2, <2>5, InstanceAssumption DEF IsPort
  <2>9. /\ p = "acked" => HasEffect(t)'
        /\ p \in Ended => Idle(t)
    BY <2>5, <2>8 DEF HasEffect, Idle, Ended
  <2>10. p \notin Ended => At(t)'
    BY <1>2, <2>3, <2>7 DEF At, IsPort
  <2>11. CarriedOK'
    BY <2>2, <2>3, <2>4 DEF CarriedOK, WorksOK
  <2>12. QED
    BY <2>2, <2>3, <2>4, <2>6, <2>9, <2>10, <2>11
<1>3. QED
  BY <1>1, <1>2

\* What holds of a task holds on in the same tables.
LEMMA AtStays ==
    ASSUME NEW u \in Tasks, At(u), UNCHANGED cmdb,
           pc'[u] = pc[u], plan'[u] = plan[u], work'[u] = work[u]
    PROVE  At(u)'
BY DEF At, AttachAt, PlanHolds, DetachAt, Attached, ServersOf, RowAt, RemovalAt, VictimsHold,
       CreateAt, CanInsertServer, OwnEndpoint, OwnServer, HasRow, ResizeAt, cmdb

LEMMA StartKeepsInv ==
    ASSUME EffectInv, NoneUndone', NEW t \in Tasks, Start(t)
    PROVE  EffectInv'
<1>1. /\ UNCHANGED cmdb /\ CarriedOK'
      /\ \A u \in Tasks \ {t} : pc'[u] = pc[u] /\ plan'[u] = plan[u] /\ work'[u] = work[u]
      /\ pc'[t] \in CallsOf(t) \cup Ended
      /\ pc'[t] \notin Ended => At(t)'
      /\ pc'[t] = "acked" => HasEffect(t)'
      /\ pc'[t] \in Ended => Idle(t)
  BY StartsRight DEF EffectInv
<1>2. Busy' \subseteq Busy \cup {t}
  BY <1>1 DEF Busy
<1>3. overridden' = (overridden \ {t}) \cup {u \in Tasks : Overrides(t, u)}
  BY DEF Start
<1>4. RowsOK' /\ HostsOK'
  BY <1>1 DEF EffectInv, RowsOK, HostsOK, cmdb
<1>5. Routed'
  BY <1>1 DEF EffectInv, Routed
<1>6. OverridesKnown'
  <2>1. SUFFICES ASSUME NEW u \in Busy', NEW v \in Tasks, Overrides(u, v), ~Idle(v)
                 PROVE  v \in overridden'
    BY DEF OverridesKnown
  <2>2. CASE u = t
    BY <1>3, <2>1, <2>2
  <2>3. CASE u # t
    <3>1. v \in overridden
      BY <1>2, <2>1, <2>3 DEF EffectInv, OverridesKnown
    <3>2. v # t
      <4>1. SUFFICES ASSUME v = t PROVE FALSE
        OBVIOUS
      <4>2. t \in Busy'
        BY <1>1, <2>1, <4>1 DEF Busy
      <4>3. QED
        BY <2>1, <4>1, <4>2 DEF NoneUndone
    <3>3. QED
      BY <1>3, <3>1, <3>2
  <2>4. QED
    BY <2>2, <2>3
<1>7. \A u \in Busy' : At(u)'
  <2>1. SUFFICES ASSUME NEW u \in Busy' PROVE At(u)'
    OBVIOUS
  <2>2. CASE u = t
    BY <1>1, <2>1, <2>2 DEF Busy
  <2>3. CASE u # t
    <3>1. u \in Tasks \ {t} /\ At(u)
      BY <1>2, <2>1, <2>3 DEF EffectInv, Busy
    <3>2. QED
      BY <1>1, <3>1, AtStays
  <2>4. QED
    BY <2>2, <2>3
<1>8. ASSUME NEW u \in Tasks, u \notin overridden', pc'[u] = "acked"
      PROVE  HasEffect(u)'
  <2>1. CASE u = t
    BY <1>1, <1>8, <2>1
  <2>2. CASE u # t
    <3>1. HasEffect(u)
      BY <1>1, <1>3, <1>8, <2>2 DEF EffectInv, EffectStands
    <3>2. QED
      BY <1>1, <3>1 DEF HasEffect, Attached, ServersOf, cmdb
  <2>3. QED
    BY <2>1, <2>2
<1>9. EffectStands'
  BY <1>8 DEF EffectStands
<1>10. QED
  BY <1>1, <1>4, <1>5, <1>6, <1>7, <1>9 DEF EffectInv

\* Nothing a task does: it ends, is put back in the queue, or stays where it is.
LEMMA IdleKeepsInv ==
    ASSUME EffectInv, UNCHANGED <<cmdb, plan, work, overridden>>,
           pc' = [u \in Tasks |-> pc'[u]], \A u \in Tasks : pc'[u] \in {pc[u], "queued"}
    PROVE  EffectInv'
<1>1. Busy' \subseteq Busy /\ \A u \in Busy' : pc'[u] = pc[u]
  BY DEF Busy, Ended
<1>2. CarriedOK' /\ RowsOK' /\ HostsOK' /\ Routed'
  BY DEF EffectInv, CarriedOK, RowsOK, HostsOK, Routed, Ended, cmdb
<1>3. OverridesKnown'
  BY <1>1 DEF EffectInv, OverridesKnown
<1>4. ASSUME NEW u \in Busy'
      PROVE  At(u)'
  <2>1. u \in Tasks /\ At(u) /\ pc'[u] = pc[u]
    BY <1>1, <1>4 DEF EffectInv, Busy
  <2>2. QED
    BY <2>1, AtStays
<1>5. ASSUME NEW u \in Tasks, u \notin overridden', pc'[u] = "acked"
      PROVE  HasEffect(u)'
  <2>1. HasEffect(u)
    BY <1>5 DEF EffectInv, EffectStands
  <2>2. QED
    BY <2>1 DEF HasEffect, Attached, ServersOf, cmdb
<1>6. EffectStands'
  BY <1>5 DEF EffectStands
<1>7. QED
  BY <1>2, <1>3, <1>4, <1>6 DEF EffectInv

LEMMA EffectInvStep ==
    ASSUME HostnamesOwned, QuietNotRefused, EffectInv, NoneUndone, NoneUndone', [Next]_vars
    PROVE  EffectInv'
<1>1. pc = [u \in Tasks |-> pc[u]]
  BY DEF EffectInv, CarriedOK
<1>2. ASSUME NEW t \in Tasks, PortStep(t) \/ RowStep(t)
      PROVE  EffectInv'
  <2>1. t \in Busy
    BY <1>2, StepsAreBusy
  <2>2. Working(t)
    BY <1>2, <2>1 DEF EffectInv, Working, Routed, Busy
  <2>3. QED
    BY <1>2, <2>1, <2>2, PortStepLands, RowStepLands, LandingKeepsInv
<1>3. ASSUME NEW t \in Tasks, Start(t)
      PROVE  EffectInv'
  BY <1>3, StartKeepsInv
<1>4. ASSUME NEW t \in Tasks, AckLost(t), UNCHANGED <<plan, work, overridden>>
      PROVE  EffectInv'
  <2>1. UNCHANGED cmdb /\ GoTo(t, "queued")
    BY <1>4 DEF AckLost
  <2>2. /\ pc' = [u \in Tasks |-> pc'[u]]
        /\ \A u \in Tasks : pc'[u] \in {pc[u], "queued"}
    BY <2>1, Going DEF EffectInv
  <2>3. QED
    BY <1>4, <2>1, <2>2, IdleKeepsInv
<1>5. CASE Crash /\ UNCHANGED <<plan, work, overridden>>
  <2>1. UNCHANGED cmdb /\ pc' = [t \in Tasks |-> IF t \in Busy THEN "queued" ELSE pc[t]]
    BY <1>5 DEF Crash
  <2>2. /\ pc' = [u \in Tasks |-> pc'[u]]
        /\ \A u \in Tasks : pc'[u] \in {pc[u], "queued"}
    BY <2>1
  <2>3. QED
    BY <1>5, <2>1, <2>2, IdleKeepsInv
<1>6. CASE UNCHANGED vars
  BY <1>1, <1>6, IdleKeepsInv DEF vars, tasks
<1>7. QED
  BY <1>2, <1>3, <1>4, <1>5, <1>6 DEF Next

LEMMA EffectInvInit ==
    ASSUME HostnamesOwned, Init
    PROVE  EffectInv
<1>1. /\ pc = [t \in Tasks |-> "queued"] /\ work = [t \in Tasks |-> Rows!NoWork]
      /\ plan = [t \in Tasks |-> Ports!NoPlan]
  BY DEF Init, Rows!Init
<1>2. PICK n \in Tables : /\ servers = n.servers /\ endpoints = n.endpoints
                          /\ ips = n.ips /\ serial = n.serial
  BY DEF Init, Rows!Init
<1>3. IsPlan(Ports!NoPlan) /\ IsWork(Rows!NoWork)
  BY DEF IsPlan, Ports!NoPlan, IsWork, Rows!NoWork
<1>4. CarriedOK
  BY <1>1, <1>3 DEF CarriedOK
<1>5. RowsOK
  BY <1>2, InstanceAssumption DEF RowsOK, IsServer
<1>6. HostsOK
  BY <1>2 DEF HostsOK, HostnamesOwned
<1>7. Busy = {} /\ Routed /\ EffectStands
  BY <1>1 DEF Busy, Ended, Routed, EffectStands
<1>8. QED
  BY <1>4, <1>5, <1>6, <1>7 DEF EffectInv, OverridesKnown

(* For any prefetch, as long as none of the messages in hand undoes what   *)
(* another one asks for, with hostnames that belong to one instance and    *)
(* none of the calls refused whose refusal ends a create as if done,       *)
(* EffectStands: what an acknowledged message of any kind did is in the    *)
(* CMDB until a message that asks for something else is started, over any  *)
(* number of messages, tables, crashes, lost acks, failed calls and runs,  *)
(* whatever the messages in hand interleave.                               *)
THEOREM EffectsStand ==
    ASSUME HostnamesOwned, QuietNotRefused
    PROVE  Spec /\ []NoneUndone => []EffectStands
<1>1. EffectInv /\ NoneUndone /\ NoneUndone' /\ [Next]_vars => EffectInv'
  BY EffectInvStep
<1>2. Init => EffectInv
  BY EffectInvInit
<1>3. EffectInv => EffectStands
  BY DEF EffectInv
<1>4. QED
  BY <1>1, <1>2, <1>3, PTL DEF Spec

-----------------------------------------------------------------------------
(* The types of the addresses                                              *)

\* The tables held one address of a type at most on a server.
TypesFound ==
    \A n \in Tables : \A d, e \in n.endpoints, i, j \in n.ips :
        d.server = e.server /\ i.endpoint = d.id /\ j.endpoint = e.id
            /\ i.type \in {"be", "fe"} /\ i.type = j.type => i = j

\* The addresses on the server with that id.
IpsOf(server) == {i \in ips : \E e \in endpoints : e.server = server /\ e.id = i.endpoint}

TypesOnce ==
    TypesFound => \A e \in endpoints : \A i, j \in IpsOf(e.server) :
                     i.type \in {"be", "fe"} /\ i.type = j.type => i = j

\* Nothing but that server has the endpoint with that id.
Holds(endpoint, server) ==
    endpoint \in 0 .. serial - 1 /\ \A e \in endpoints : e.id = endpoint => e.server = server

\* A type is counted as used before its address is on the server; while attach
\* inserts the address, it may be there and not counted.
AttachTypes(t, call) ==
    call \in Attaching =>
        /\ Holds(plan[t].endpoint, plan[t].server)
        /\ \A i \in IpsOf(plan[t].server) : i.type \in {"be", "fe"} =>
              \/ i.type \in plan[t].used
              \/ /\ call \in {"insert ip", "reselect ip"}
                 /\ i.ip = Body[t].ip /\ i.endpoint = plan[t].endpoint /\ i.prefix = plan[t].prefix

\* Create takes a type for the address it inserts; no other address has it.
Counted(t) ==
    \A i \in IpsOf(work[t].server) : i.type \in {"be", "fe"} => i.type \in work[t].used

Typed(t) ==
    /\ work[t].type \in work[t].used /\ PrefixOf[Rows!Address(t)] # None
    /\ \A i \in IpsOf(work[t].server) : i.type \in {"be", "fe"} /\ i.type = work[t].type =>
          /\ i.ip = Rows!Address(t) /\ i.endpoint = work[t].endpoint
          /\ i.prefix = PrefixOf[Rows!Address(t)]

\* Before that it removes the rows with its hostname, so that the one it finds
\* by it has no endpoint.
Bare(t) ==
    \A s \in servers, e \in endpoints : s.hostname = Body[t].hostname => e.server # s.id

CreateTypes(t, call) ==
    /\ call = "delete server" =>
          \A s \in servers : s.hostname = Body[t].hostname => s.id \in work[t].victims
    /\ call \in {"insert server", "reselect server"} => Bare(t)
    /\ call \in Removing \cup {"insert server", "reselect server"} =>
          work[t].endpoint = 0 /\ work[t].used = {}
    /\ call \in Late => Holds(work[t].endpoint, work[t].server) /\ Counted(t)
    /\ call \in {"insert address", "reselect address"} => Typed(t)

TypesAt(t, call) ==
    /\ Body[t].kind = "attach" => AttachTypes(t, call)
    /\ Body[t].kind = "create" => CreateTypes(t, call)

\* Rows hang off rows that are there.
RowsJoined ==
    /\ \A e \in endpoints : \E s \in servers : s.id = e.server
    /\ \A i \in ips : \E e \in endpoints : e.id = i.endpoint

TablesJoined ==
    \A n \in Tables :
        /\ \A e \in n.endpoints : \E s \in n.servers : s.id = e.server
        /\ \A i \in n.ips : \E e \in n.endpoints : e.id = i.endpoint

\* The server attach or create writes on is of its instance, and so is the one
\* create finds by its hostname when it repeats its insert.
HostOwn(t) == \A s \in servers : s.hostname = Body[t].hostname => s.uuid = Body[t].uuid

OwnAt(t, call) ==
    /\ Body[t].kind = "attach" => (call \in Attaching => OwnServer(t, plan[t].server))
    /\ Body[t].kind = "create" =>
          /\ call \in {"insert server", "reselect server"} => HostOwn(t)
          /\ call \in Late => OwnServer(t, work[t].server)

TypesInv ==
    /\ Routed /\ CarriedOK /\ RowsOK /\ RowsJoined
    /\ \A t \in Busy : TypesAt(t, pc[t]) /\ OwnAt(t, pc[t])
    /\ TypesOnce

\* What a call may do to rows that are not of the instance of its message.
Drops ==
    /\ servers' \subseteq servers /\ endpoints' \subseteq endpoints /\ ips' \subseteq ips
    /\ UNCHANGED serial /\ RowsJoined'

OwnMac(t) ==
    /\ \E endpoint, mac : OwnEndpoint(t, endpoint) /\ SetMac(endpoint, mac)
    /\ UNCHANGED <<servers, ips, serial>>

Meddles(t) ==
    \/ UNCHANGED cmdb
    \/ Drops
    \/ Body[t].kind = "attach" /\ OwnMac(t)
    \/ Body[t].kind \in {"attach", "create"} /\ (PutsEndpoint(t) \/ PutsIp(t))
    \/ Body[t].kind = "create" /\ PutsServer(t)
    \/ \E F : Updates(t, F)

\* What every call but the insert of an address does to the rows.
Kept ==
    /\ RowsOK'
    /\ \A x : IpsOf(x)' \subseteq IpsOf(x)
    /\ \A x, y : Holds(x, y) => Holds(x, y)'

LEMMA NothingKept ==
    ASSUME RowsOK, UNCHANGED cmdb
    PROVE  Kept
BY DEF Kept, RowsOK, IpsOf, Holds, cmdb

LEMMA MacKept ==
    ASSUME RowsOK, SetsMac
    PROVE  Kept
<1>1. PICK endpoint, mac : SetMac(endpoint, mac)
  BY DEF SetsMac
<1>2. DEFINE new == [e \in endpoints |->
                        [id |-> e.id, server |-> e.server, name |-> e.name,
                         mac |-> IF e.id = endpoint THEN mac ELSE e.mac]]
<1>3. /\ endpoints' = {new[e] : e \in endpoints} /\ UNCHANGED <<ips, serial>>
      /\ \A e \in endpoints : new[e].id = e.id /\ new[e].server = e.server
  BY <1>1 DEF SetMac, SetsMac
<1>4. HIDE DEF new
<1>5. QED
  BY <1>3, SetsMacKeepsRows DEF Kept, IpsOf, Holds

LEMMA EndpointKept ==
    ASSUME RowsOK, NEW server, NEW name, NEW mac, \E s \in servers : s.id = server,
           InsertEndpoint(server, name, mac), UNCHANGED <<servers, ips>>
    PROVE  Kept /\ \A x : x = serial => Holds(x, server)'
<1>1. PICK e : /\ e.id = serial /\ e.server = server /\ endpoints' = endpoints \cup {e}
  BY DEF InsertEndpoint
<1>2. server \in 1 .. serial - 1 /\ serial' = serial + 1 /\ serial \in Nat \ {0}
  BY DEF RowsOK, InsertEndpoint
<1>3. RowsOK'
  BY <1>1, <1>2 DEF RowsOK
<1>4. \A x : IpsOf(x)' \subseteq IpsOf(x)
  <2>1. \A i \in ips : i.endpoint # serial
    BY DEF RowsOK
  <2>2. QED
    BY <1>1, <2>1 DEF IpsOf
<1>5. \A x, y : Holds(x, y) => Holds(x, y)'
  BY <1>1, <1>2 DEF Holds
<1>6. ASSUME NEW x, x = serial
      PROVE  Holds(x, server)'
  <2>1. \A d \in endpoints : d.id # serial
    BY DEF RowsOK
  <2>2. QED
    BY <1>1, <1>2, <1>6, <2>1 DEF Holds
<1>7. QED
  BY <1>3, <1>4, <1>5, <1>6 DEF Kept

LEMMA DropsKept ==
    ASSUME RowsOK, servers' \subseteq servers, endpoints' \subseteq endpoints, ips' \subseteq ips,
           UNCHANGED serial
    PROVE  Kept
BY DEF Kept, RowsOK, IpsOf, Holds

LEMMA ServerKept ==
    ASSUME RowsOK, NEW t \in Tasks, PutsServer(t)
    PROVE  Kept
<1>1. PICK s : /\ IsServer(s) /\ s.id = serial
               /\ servers' = servers \cup {s} /\ serial' = serial + 1
               /\ UNCHANGED <<endpoints, ips>>
  BY DEF PutsServer
<1>2. RowsOK'
  BY <1>1 DEF RowsOK
<1>3. serial \in Nat
  BY DEF RowsOK
<1>4. \A x, y : Holds(x, y) => Holds(x, y)'
  BY <1>1, <1>3 DEF Holds
<1>5. QED
  BY <1>1, <1>2, <1>4 DEF Kept, IpsOf

LEMMA UpdatesKept ==
    ASSUME RowsOK, NEW t \in Tasks, NEW F, Updates(t, F)
    PROVE  Kept
<1>1. RowsOK' /\ UNCHANGED <<endpoints, ips, serial>>
  BY UpdatesKeepRows DEF Updates
<1>2. QED
  BY <1>1 DEF Kept, IpsOf, Holds

LEMMA OnceEverywhere ==
    ASSUME TypesFound, TypesOnce
    PROVE  \A x : \A i, j \in IpsOf(x) : i.type \in {"be", "fe"} /\ i.type = j.type => i = j
BY DEF TypesOnce, IpsOf

LEMMA OnceKept ==
    ASSUME TypesOnce, Kept
    PROVE  TypesOnce'
<1>1. TypesFound =>
          \A x : \A i, j \in IpsOf(x)' : i.type \in {"be", "fe"} /\ i.type = j.type => i = j
  BY OnceEverywhere DEF Kept
<1>2. QED
  BY <1>1 DEF TypesOnce

\* The insert of an address on an endpoint of that server.
LEMMA AddressPut ==
    ASSUME RowsOK, TypesOnce, NEW ip, NEW endpoint, NEW prefix, NEW type, NEW server,
           Holds(endpoint, server), \E e \in endpoints : e.id = endpoint,
           InsertIp(ip, endpoint, prefix, type), UNCHANGED <<servers, endpoints>>,
           type \in {"be", "fe"} => \A i \in IpsOf(server) : i.type # type
    PROVE  /\ RowsOK' /\ TypesOnce'
           /\ \A x, y : Holds(x, y) => Holds(x, y)'
           /\ \E i : /\ IpsOf(server)' \subseteq IpsOf(server) \cup {i}
                     /\ i.ip = ip /\ i.endpoint = endpoint /\ i.prefix = prefix /\ i.type = type
<1>0. PICK i : /\ i = [id |-> serial, ip |-> ip, endpoint |-> endpoint,
                       prefix |-> prefix, type |-> type]
               /\ ips' = ips \cup {i}
  BY DEF InsertIp
<1>1. /\ i.id = serial /\ i.endpoint = endpoint /\ ips' = ips \cup {i}
      /\ i.ip = ip /\ i.prefix = prefix /\ i.type = type
  BY <1>0
<1>2. endpoint \in 1 .. serial - 1 /\ serial' = serial + 1 /\ serial \in Nat \ {0}
  BY DEF RowsOK, InsertIp
<1>3. RowsOK'
  BY <1>1, <1>2 DEF RowsOK
<1>4. \A x : IpsOf(x)' \subseteq IpsOf(x) \cup {i} /\ (i \in IpsOf(x)' => x = server)
  BY <1>1 DEF IpsOf, Holds
<1>5. ASSUME TypesFound, NEW x, NEW j \in IpsOf(x)', NEW k \in IpsOf(x)',
             j.type \in {"be", "fe"}, j.type = k.type
      PROVE  j = k
  <2>1. CASE j \in IpsOf(x) /\ k \in IpsOf(x)
    BY <1>5, <2>1, OnceEverywhere
  <2>2. CASE j = i /\ k = i
    BY <2>2
  <2>3. CASE j = i /\ k \in IpsOf(x)
    BY <1>1, <1>4, <1>5, <2>3
  <2>4. CASE k = i /\ j \in IpsOf(x)
    BY <1>1, <1>4, <1>5, <2>4
  <2>5. QED
    BY <1>4, <1>5, <2>1, <2>2, <2>3, <2>4
<1>6. TypesOnce'
  BY <1>5 DEF TypesOnce
<1>7. \A x, y : Holds(x, y) => Holds(x, y)'
  BY <1>2 DEF Holds
<1>8. QED
  BY <1>1, <1>3, <1>4, <1>6, <1>7

\* What is known when t makes its call, and what is to be shown of the step.
Ready(t) == CarriedOK /\ RowsOK /\ TypesOnce /\ pc[t] \in CallsOf(t) /\ TypesAt(t, pc[t])

Settles(t) ==
    /\ RowsOK' /\ TypesOnce' /\ CarriedOK'
    /\ \A u \in Tasks \ {t} : pc'[u] = pc[u]
    /\ pc'[t] \in CallsOf(t) \cup Ended
    /\ pc'[t] \notin Ended => TypesAt(t, pc[t])'

LEMMA StepSettles ==
    ASSUME NEW t \in Tasks, Ready(t), NEW p \in CallsOf(t) \cup Ended, GoTo(t, p),
           RowsOK', TypesOnce', PlansOK', WorksOK', p \notin Ended => TypesAt(t, p)'
    PROVE  Settles(t)
<1>1. /\ pc' = [u \in Tasks |-> pc'[u]] /\ pc'[t] = p
      /\ \A u \in Tasks \ {t} : pc'[u] = pc[u]
  BY Going DEF Ready
<1>2. CarriedOK'
  BY <1>1 DEF CarriedOK, PlansOK, WorksOK
<1>3. p \notin Ended => TypesAt(t, pc[t])'
  BY <1>1
<1>4. QED
  BY <1>1, <1>2, <1>3 DEF Settles

\* A task that has no types to count goes on or ends.
LEMMA PlainlySettles ==
    ASSUME NEW t \in Tasks, Ready(t), NEW p \in CallsOf(t) \cup Ended, GoTo(t, p), Kept,
           PlansOK', WorksOK', p \notin Ended => TypesAt(t, p)'
    PROVE  Settles(t)
BY StepSettles, OnceKept DEF Ready, Kept

Inserting == {"insert ip", "reselect ip"}

LEMMA AttachGoesOn ==
    ASSUME NEW t \in Tasks, NEW c \in Attaching, AttachTypes(t, c), Kept, NEW p,
           plan'[t].server = plan[t].server, plan'[t].used = plan[t].used,
           Holds(plan[t].endpoint, plan[t].server)',
           c \in Inserting => /\ p \in Inserting /\ plan'[t].endpoint = plan[t].endpoint
                              /\ plan'[t].prefix = plan[t].prefix
    PROVE  AttachTypes(t, p)'
<1>1. PICK x : x = plan[t].server
  OBVIOUS
<1>2. IpsOf(x)' \subseteq IpsOf(x)
  BY DEF Kept
<1>3. \A i \in IpsOf(x)' : i.type \in {"be", "fe"} =>
          \/ i.type \in plan'[t].used
          \/ /\ p \in Inserting
             /\ i.ip = Body[t].ip /\ i.endpoint = plan'[t].endpoint /\ i.prefix = plan'[t].prefix
  BY <1>1, <1>2 DEF AttachTypes, Inserting
<1>4. IpsOf(plan[t].server)' = IpsOf(x)'
  BY <1>1 DEF IpsOf
<1>5. QED
  BY <1>3, <1>4 DEF AttachTypes, Inserting

\* The plan stays, and so does what it needs.
LEMMA AttachRests ==
    ASSUME NEW t \in Tasks, Ready(t), Body[t].kind = "attach", Kept, UNCHANGED <<plan, work>>,
           NEW p \in CallsOf(t) \cup Ended, GoTo(t, p),
           p \in Attaching =>
               pc[t] \in Attaching /\ (pc[t] \in Inserting => p \in Inserting)
    PROVE  Settles(t)
<1>1. PlansOK' /\ WorksOK'
  BY PlansKept, WorksKept DEF Ready
<1>2. p \in Attaching => AttachTypes(t, p)'
  <2>1. SUFFICES ASSUME p \in Attaching PROVE AttachTypes(t, p)'
    OBVIOUS
  <2>2. PICK c, x, y : c = pc[t] /\ x = plan[t].endpoint /\ y = plan[t].server
    OBVIOUS
  <2>3. c \in Attaching /\ AttachTypes(t, c) /\ Holds(x, y)
    BY <2>1, <2>2 DEF Ready, TypesAt, AttachTypes
  <2>4. Holds(x, y)'
    BY <2>3 DEF Kept
  <2>5. Holds(plan[t].endpoint, plan[t].server)'
    BY <2>2, <2>4 DEF Holds
  <2>6. QED
    BY <2>1, <2>2, <2>3, <2>5, AttachGoesOn
<1>3. TypesAt(t, p)'
  BY <1>2 DEF TypesAt, AttachTypes
<1>4. QED
  BY <1>1, <1>3, PlainlySettles

LEMMA PortUnansweredSettles ==
    ASSUME NEW t \in Tasks, Ready(t), IsPort(t), Ports!NoReply(t), Kept, UNCHANGED work
    PROVE  Settles(t)
<1>1. UNCHANGED plan
  BY PortUnanswered
<1>2. PICK p \in {Ports!Again(pc[t]), Ports!FirstCall(t), "dead"} : GoTo(t, p)
  BY PortUnanswered
<1>3. CASE Body[t].kind = "attach"
  <2>1. p \in CallsOf(t) \cup Ended
    BY <1>2, <1>3, PortCalls DEF Ready, AttachCalls, CallsOf, Ended
  <2>2. p \in Attaching => p = Ports!Again(pc[t]) /\ pc[t] \in Attaching
    BY <1>2, <1>3, PortCalls DEF Ready, Attaching
  <2>3. Ports!Again(pc[t]) = IF pc[t] = "insert endpoint" THEN "reselect endpoint"
                             ELSE IF pc[t] = "insert ip" THEN "reselect ip" ELSE pc[t]
    BY DEF Ports!Again
  <2>4. pc[t] \in Inserting => Ports!Again(pc[t]) \in Inserting
    BY <2>3 DEF Inserting
  <2>5. QED
    BY <1>1, <1>2, <1>3, <2>1, <2>2, <2>4, AttachRests
<1>4. CASE Body[t].kind = "detach"
  <2>1. p \in CallsOf(t) \cup Ended /\ TypesAt(t, p)'
    BY <1>2, <1>4, PortCalls DEF Ready, CallsOf, Ended, TypesAt
  <2>2. QED
    BY <1>1, <1>2, <2>1, PlainlySettles, PlansKept, WorksKept DEF Ready
<1>5. QED
  BY <1>3, <1>4 DEF IsPort

\* attach counts the types of the server it selects.
LEMMA SelectServerSettles ==
    ASSUME NEW t \in Tasks, Ready(t), Body[t].kind = "attach", Ports!SelectServer(t),
           UNCHANGED work
    PROVE  Settles(t)
<1>1. Kept /\ UNCHANGED cmdb
  BY NothingKept DEF Ready, Ports!SelectServer, Ports!cmdb, cmdb
<1>2. CASE GoTo(t, "acked") /\ UNCHANGED plan
  BY <1>1, <1>2, AttachRests DEF Ended, Attaching
<1>3. ASSUME NEW s \in servers, Ports!Plan(t, s.id), GoTo(t, "find ip")
      PROVE  Settles(t)
  <2>1. PICK x, e, f, n, u :
           /\ x = s.id
           /\ e = 0 \/ \E c \in endpoints : c.server = s.id /\ c.id = e
           /\ u = {i.type : i \in IpsOf(x)}
           /\ plan' = [plan EXCEPT ![t] = [server |-> x, endpoint |-> e, fill |-> f,
                                           name |-> n, used |-> u, prefix |-> None]]
    <3> DEFINE cards == Ports!EndpointsOf(s.id)
               usable == Ports!Usable(Body[t].mac, cards)
               f == Body[t].mac # Ports!None /\ \A c \in cards : c.mac # Body[t].mac
               n == Ports!next_bond_name({c.name : c \in cards})
               u == {i.type : i \in {j \in ips : \E c \in cards : j.endpoint = c.id}}
    <3>1. PICK e \in IF usable # {} THEN {c.id : c \in usable} ELSE {Ports!NoRow} :
             plan' = [plan EXCEPT ![t] = [server |-> s.id, endpoint |-> e, fill |-> f,
                                          name |-> n, used |-> u, prefix |-> Ports!None]]
      BY <1>3 DEF Ports!Plan
    <3>2. e = 0 \/ \E c \in endpoints : c.server = s.id /\ c.id = e
      BY DEF Ports!Usable, Ports!EndpointsOf, Ports!NoRow
    <3>3. {j \in ips : \E c \in cards : j.endpoint = c.id} = IpsOf(s.id)
      BY DEF Ports!EndpointsOf, IpsOf
    <3>4. QED
      BY <3>1, <3>2, <3>3 DEF Ports!None, None
  <2>2. PICK new : new = [server |-> x, endpoint |-> e, fill |-> f,
                          name |-> n, used |-> u, prefix |-> None]
    OBVIOUS
  <2>3. IsPlan(new) /\ new.server = x /\ new.endpoint = e /\ new.used = u
    BY <2>2 DEF IsPlan
  <2>4. PlansOK' /\ plan'[t] = new
    BY <2>1, <2>2, <2>3, PlanCarried DEF Ready
  <2>5. Holds(e, x)
    <3>1. serial \in Nat \ {0} /\ \A d \in endpoints : d.id \in 1 .. serial - 1
      BY DEF Ready, RowsOK
    <3>2. e \in 0 .. serial - 1
      BY <2>1, <3>1
    <3>3. CASE e = 0
      BY <3>1, <3>2, <3>3 DEF Holds
    <3>4. ASSUME NEW c \in endpoints, c.server = x, c.id = e
          PROVE  Holds(e, x)
      <4>1. \A d \in endpoints : d.id = c.id => d = c
        BY DEF Ready, RowsOK
      <4>2. QED
        BY <3>2, <3>4, <4>1 DEF Holds
    <3>5. QED
      BY <2>1, <3>3, <3>4
  <2>6. AttachTypes(t, "find ip")'
    <3>1. plan'[t].endpoint = e /\ plan'[t].server = x /\ plan'[t].used = u
      BY <2>3, <2>4
    <3>2. Holds(plan[t].endpoint, plan[t].server)'
      BY <1>1, <2>5, <3>1 DEF Holds, cmdb
    <3>3. \A i \in IpsOf(plan[t].server)' : i.type \in plan'[t].used
      BY <1>1, <2>1, <3>1 DEF IpsOf, cmdb
    <3>4. QED
      BY <3>2, <3>3 DEF AttachTypes
  <2>7. QED
    BY <1>1, <1>3, <2>4, <2>6, PlainlySettles, WorksKept, AttachCalls DEF Ready, TypesAt, Attaching
<1>4. QED
  BY <1>2, <1>3 DEF Ports!SelectServer, Ports!Reply, Ports!ServersOf, Ports!GoTo, GoTo

LEMMA LookupSettles ==
    ASSUME NEW t \in Tasks, Ready(t), Body[t].kind = "attach",
           Ports!FindAttachedIp(t) \/ Ports!ReselectAttached(t) \/ Ports!ReselectIp(t),
           UNCHANGED work
    PROVE  Settles(t)
<1>1. UNCHANGED <<cmdb, plan>> /\ pc[t] \in Attaching
  BY DEF Ports!FindAttachedIp, Ports!ReselectAttached, Ports!ReselectIp, Ports!cmdb, cmdb, Attaching
<1>2. \E p \in Attaching \cup Ended :
          GoTo(t, p) /\ (pc[t] \in Inserting => p \in Inserting \cup Ended)
  BY DEF Ports!FindAttachedIp, Ports!ReselectAttached, Ports!ReselectIp, Ports!Reply, Ports!GoTo,
         GoTo, Attaching, Inserting, Ended
<1>3. PICK p \in Attaching \cup Ended :
          GoTo(t, p) /\ (pc[t] \in Inserting => p \in Inserting \cup Ended)
  BY <1>2
<1>4. p \in CallsOf(t) \cup Ended /\ (p \in Attaching => p \notin Ended)
  BY <1>3, AttachCalls DEF Ended, Attaching
<1>5. QED
  BY <1>1, <1>3, <1>4, NothingKept, AttachRests DEF Ready

\* attach goes on before it inserts the address.
LEMMA AttachSettles ==
    ASSUME NEW t \in Tasks, Ready(t), Body[t].kind = "attach", pc[t] \in Attaching \ Inserting,
           NEW p \in Attaching, GoTo(t, p), Kept, PlansOK', UNCHANGED work,
           plan'[t].server = plan[t].server, plan'[t].used = plan[t].used,
           Holds(plan[t].endpoint, plan[t].server)'
    PROVE  Settles(t)
<1>1. PICK c : c = pc[t]
  OBVIOUS
<1>2. c \in Attaching /\ c \notin Inserting /\ AttachTypes(t, c)
  BY <1>1 DEF Ready, TypesAt
<1>3. AttachTypes(t, p)'
  BY <1>2, AttachGoesOn
<1>4. p \in CallsOf(t) \cup Ended /\ WorksOK' /\ TypesAt(t, p)'
  BY <1>3, WorksKept, AttachCalls DEF Ready, TypesAt
<1>5. QED
  BY <1>4, PlainlySettles

\* The endpoint of the plan is on its server in the tables as they are now.
LEMMA PlanStillHolds ==
    ASSUME NEW t \in Tasks, Ready(t), Body[t].kind = "attach", pc[t] \in Attaching, Kept,
           plan'[t].server = plan[t].server, plan'[t].endpoint = plan[t].endpoint
    PROVE  Holds(plan[t].endpoint, plan[t].server)'
<1>1. PICK x, y : x = plan[t].endpoint /\ y = plan[t].server
  OBVIOUS
<1>2. Holds(x, y)
  BY <1>1 DEF Ready, TypesAt, AttachTypes
<1>3. Holds(x, y)'
  BY <1>2 DEF Kept
<1>4. QED
  BY <1>1, <1>3 DEF Holds

LEMMA AttachFindPrefixSettles ==
    ASSUME NEW t \in Tasks, Ready(t), Body[t].kind = "attach", Ports!FindPrefix(t),
           UNCHANGED work
    PROVE  Settles(t)
<1>1. PICK p \in {"insert endpoint", "update endpoint", "insert ip"} : GoTo(t, p)
  BY DEF Ports!FindPrefix, Ports!GoTo, GoTo
<1>2. pc[t] \in Attaching \ Inserting /\ UNCHANGED cmdb
  BY DEF Ports!FindPrefix, Ports!cmdb, cmdb, Attaching, Inserting
<1>3. /\ PlansOK' /\ plan'[t].endpoint = plan[t].endpoint
      /\ plan'[t].server = plan[t].server /\ plan'[t].used = plan[t].used
  <2>1. CASE UNCHANGED plan
    BY <2>1, PlansKept DEF Ready
  <2>2. CASE plan' = [plan EXCEPT ![t].prefix = PrefixOf[Body[t].ip]]
    BY <2>2, PrefixPlanned DEF Ready
  <2>3. QED
    BY <2>1, <2>2 DEF Ports!FindPrefix
<1>4. Kept
  BY <1>2, NothingKept DEF Ready
<1>5. Holds(plan[t].endpoint, plan[t].server)'
  BY <1>2, <1>3, <1>4, PlanStillHolds
<1>6. QED
  BY <1>1, <1>2, <1>3, <1>4, <1>5, AttachSettles DEF Attaching

LEMMA UpdateEndpointSettles ==
    ASSUME NEW t \in Tasks, Ready(t), Body[t].kind = "attach", Ports!UpdateEndpoint(t),
           UNCHANGED work
    PROVE  Settles(t)
<1>1. pc[t] \in Attaching \ Inserting /\ UNCHANGED <<servers, ips, serial>>
  BY DEF Ports!UpdateEndpoint, Attaching, Inserting
<1>2. Kept
  <2>1. CASE UNCHANGED endpoints
    BY <1>1, <2>1, NothingKept DEF Ready, cmdb
  <2>2. CASE \E endpoint, mac : SetMac(endpoint, mac)
    BY <1>1, <2>2, MacKept DEF Ready, SetsMac
  <2>3. \A endpoint, mac : Ports!SetMac(endpoint, mac) <=> SetMac(endpoint, mac)
    BY DEF Ports!SetMac, SetMac
  <2>4. CASE plan[t].fill
    BY <2>2, <2>3, <2>4 DEF Ports!UpdateEndpoint
  <2>5. CASE ~plan[t].fill
    BY <2>1, <2>5 DEF Ports!UpdateEndpoint
  <2>6. QED
    BY <2>4, <2>5
<1>3. CASE Ports!NoReply(t)
  BY <1>2, <1>3, PortUnansweredSettles DEF IsPort
<1>4. CASE GoTo(t, "insert ip") /\ UNCHANGED plan
  BY <1>1, <1>2, <1>4, AttachRests, AttachCalls DEF Attaching, Inserting
<1>5. QED
  BY <1>3, <1>4 DEF Ports!UpdateEndpoint, Ports!Reply, Ports!GoTo, GoTo

LEMMA CreateEndpointSettles ==
    ASSUME NEW t \in Tasks, Ready(t), Body[t].kind = "attach", Ports!CreateEndpoint(t),
           UNCHANGED work
    PROVE  Settles(t)
<1>1. pc[t] \in Attaching \ Inserting
  BY DEF Ports!CreateEndpoint, Attaching, Inserting
<1>2. CASE Ports!Refused(t) /\ UNCHANGED <<cmdb, plan>>
  <2>1. GoTo(t, "dead") /\ Kept
    BY <1>2, NothingKept DEF Ports!Refused, Ports!GoTo, GoTo, Ready
  <2>2. QED
    BY <1>2, <2>1, AttachRests DEF Ended, Attaching
<1>3. ASSUME NEW x, NEW n, x = plan[t].server,
             \E s \in servers : s.id = x, InsertEndpoint(x, n, Body[t].mac),
             UNCHANGED <<servers, ips>>
      PROVE  Settles(t)
  <2>1. Kept /\ \A y : y = serial => Holds(y, x)'
    BY <1>3, EndpointKept DEF Ready
  <2>2. CASE Ports!NoReply(t)
    BY <2>1, <2>2, PortUnansweredSettles DEF IsPort
  <2>3. CASE GoTo(t, "insert ip") /\ plan' = [plan EXCEPT ![t].endpoint = serial]
    <3>1. PICK y : y = serial
      OBVIOUS
    <3>2. /\ PlansOK' /\ plan'[t].endpoint = y /\ plan'[t].server = plan[t].server
          /\ plan'[t].used = plan[t].used
      BY <2>3, <3>1, EndpointPlanned DEF Ready
    <3>3. Holds(y, x)'
      BY <2>1, <3>1
    <3>4. Holds(plan[t].endpoint, plan[t].server)'
      BY <1>3, <3>2, <3>3 DEF Holds
    <3>5. QED
      BY <1>1, <2>1, <2>3, <3>2, <3>4, AttachSettles DEF Attaching
  <2>4. QED
    <3>1. \/ Ports!NoReply(t)
          \/ Ports!Reply(t, "insert ip") /\ plan' = [plan EXCEPT ![t].endpoint = serial]
      <4>1. serial' # serial
        BY <1>3 DEF InsertEndpoint, Ready, RowsOK
      <4>2. QED
        BY <4>1 DEF Ports!CreateEndpoint, Ports!cmdb
    <3>2. QED
      BY <2>2, <2>3, <3>1 DEF Ports!Reply, Ports!GoTo, GoTo
<1>4. QED
  BY <1>2, <1>3
     DEF Ports!CreateEndpoint, Ports!CanInsertEndpoint, Ports!InsertEndpoint, InsertEndpoint,
         Ports!cmdb, cmdb

LEMMA ReselectNameSettles ==
    ASSUME NEW t \in Tasks, Ready(t), Body[t].kind = "attach", Ports!ReselectName(t),
           UNCHANGED work
    PROVE  Settles(t)
<1>1. pc[t] \in Attaching \ Inserting /\ UNCHANGED cmdb /\ Kept
  BY NothingKept DEF Ports!ReselectName, Attaching, Inserting, Ports!cmdb, cmdb, Ready
<1>2. CASE GoTo(t, "insert endpoint") /\ UNCHANGED plan
  BY <1>1, <1>2, AttachRests, AttachCalls DEF Attaching, Inserting
<1>3. ASSUME NEW e \in endpoints, e.server = plan[t].server, GoTo(t, "insert ip"),
             plan' = [plan EXCEPT ![t].endpoint = e.id]
      PROVE  Settles(t)
  <2>1. PICK x, y : x = e.id /\ y = e.server
    OBVIOUS
  <2>2. /\ PlansOK' /\ plan'[t].endpoint = x /\ plan'[t].server = plan[t].server
        /\ plan'[t].used = plan[t].used
    BY <1>3, <2>1, EndpointPlanned DEF Ready
  <2>3. Holds(x, y)
    <3>1. e.id \in 0 .. serial - 1 /\ \A d \in endpoints : d.id = e.id => d = e
      BY DEF Ready, RowsOK
    <3>2. QED
      BY <2>1, <3>1 DEF Holds
  <2>4. Holds(plan[t].endpoint, plan[t].server)'
    BY <1>1, <1>3, <2>1, <2>2, <2>3 DEF Holds, cmdb
  <2>5. QED
    BY <1>1, <1>3, <2>2, <2>4, AttachSettles DEF Attaching
<1>4. QED
  BY <1>2, <1>3 DEF Ports!ReselectName, Ports!Reply, Ports!GoTo, GoTo, Ports!EndpointsOf

\* A type attach gives was not counted, and no address has it but the one it
\* inserts, which the key of the table keeps from being there twice.
LEMMA CreateIpSettles ==
    ASSUME NEW t \in Tasks, Ready(t), Body[t].kind = "attach", Ports!CreateIp(t),
           UNCHANGED work
    PROVE  Settles(t)
<1>1. pc[t] = "insert ip" /\ AttachTypes(t, "insert ip") /\ "insert ip" \in Attaching
  BY DEF Ports!CreateIp, Ready, TypesAt, Attaching
<1>2. CASE Ports!Refused(t) /\ UNCHANGED <<cmdb, plan>>
  <2>1. GoTo(t, "dead") /\ Kept
    BY <1>2, NothingKept DEF Ports!Refused, Ports!GoTo, GoTo, Ready
  <2>2. QED
    BY <1>2, <2>1, AttachRests DEF Ended, Attaching
<1>3. ASSUME NEW ip, NEW endpoint, NEW prefix, NEW type, NEW x,
             ip = Body[t].ip, endpoint = plan[t].endpoint, prefix = plan[t].prefix,
             x = plan[t].server,
             type \in {"be", "fe"} => prefix # None /\ type \notin plan[t].used,
             CanInsertIp(ip, endpoint, prefix),
             InsertIp(ip, endpoint, prefix, type),
             UNCHANGED <<servers, endpoints>>,
             (GoTo(t, "acked") /\ UNCHANGED plan) \/ Ports!NoReply(t)
      PROVE  Settles(t)
  <2>1. Holds(endpoint, x) /\ \E e \in endpoints : e.id = endpoint
    BY <1>1, <1>3 DEF AttachTypes, CanInsertIp
  <2>2. \A i \in IpsOf(x) : i.type \in {"be", "fe"} =>
            \/ i.type \in plan[t].used
            \/ i.ip = ip /\ i.endpoint = endpoint /\ i.prefix = prefix
    BY <1>1, <1>3 DEF AttachTypes
  <2>3. type \in {"be", "fe"} => \A i \in IpsOf(x) : i.type # type
    BY <1>3, <2>2 DEF CanInsertIp, IpsOn, IpsOf
  <2>4. /\ RowsOK' /\ TypesOnce' /\ Holds(endpoint, x)'
        /\ \E i : /\ IpsOf(x)' \subseteq IpsOf(x) \cup {i}
                  /\ i.ip = ip /\ i.endpoint = endpoint /\ i.prefix = prefix /\ i.type = type
    <3>1. RowsOK /\ TypesOnce
      BY DEF Ready
    <3>2. /\ RowsOK' /\ TypesOnce'
          /\ \A v, y : Holds(v, y) => Holds(v, y)'
          /\ \E i : /\ IpsOf(x)' \subseteq IpsOf(x) \cup {i}
                    /\ i.ip = ip /\ i.endpoint = endpoint /\ i.prefix = prefix /\ i.type = type
      BY <1>3, <2>1, <2>3, <3>1, AddressPut
    <3>3. QED
      BY <2>1, <3>2
  <2>5. UNCHANGED plan /\ PlansOK' /\ WorksOK'
    BY <1>3, PortUnanswered, PlansKept, WorksKept DEF Ready
  <2>6. AttachTypes(t, "reselect ip")'
    <3>1. Holds(plan[t].endpoint, plan[t].server)'
      BY <1>3, <2>4, <2>5 DEF Holds
    <3>2. \A i \in IpsOf(x)' : i.type \in {"be", "fe"} =>
            \/ i.type \in plan[t].used
            \/ i.ip = ip /\ i.endpoint = endpoint /\ i.prefix = prefix
      BY <2>2, <2>4
    <3>3. IpsOf(plan[t].server)' = IpsOf(x)'
      BY <1>3, <2>5 DEF IpsOf
    <3>4. QED
      BY <1>3, <2>5, <3>1, <3>2, <3>3 DEF AttachTypes
  <2>7. CASE GoTo(t, "acked") /\ UNCHANGED plan
    BY <2>4, <2>5, <2>7, StepSettles DEF Ended
  <2>8. CASE Ports!NoReply(t)
    <3>1. PICK p \in {"reselect ip", "select server", "dead"} : GoTo(t, p)
      BY <1>1, <2>8, PortUnanswered DEF Ports!Again, Ports!FirstCall
    <3>2. p \in CallsOf(t) \cup Ended /\ TypesAt(t, p)'
      BY <2>6, AttachCalls DEF TypesAt, AttachTypes, Attaching, Ended
    <3>3. QED
      BY <2>4, <2>5, <3>1, <3>2, StepSettles
  <2>9. QED
    BY <1>3, <2>7, <2>8
<1>4. ASSUME ~(Ports!Refused(t) /\ UNCHANGED <<cmdb, plan>>)
      PROVE  \E type :
                /\ type \in {"be", "fe"} => plan[t].prefix # None /\ type \notin plan[t].used
                /\ CanInsertIp(Body[t].ip, plan[t].endpoint, plan[t].prefix)
                /\ InsertIp(Body[t].ip, plan[t].endpoint, plan[t].prefix, type)
                /\ UNCHANGED <<servers, endpoints>>
                /\ (GoTo(t, "acked") /\ UNCHANGED plan) \/ Ports!NoReply(t)
  <2>1. PICK type :
           /\ type = IF plan[t].prefix = Ports!None THEN Ports!None
                     ELSE Ports!resolve_ip_type(plan[t].prefix, plan[t].used)
           /\ Ports!CanInsertIp(Body[t].ip, plan[t].endpoint, plan[t].prefix)
           /\ Ports!InsertIp(Body[t].ip, plan[t].endpoint, plan[t].prefix, type)
           /\ UNCHANGED <<servers, endpoints>>
           /\ (Ports!Reply(t, "acked") /\ UNCHANGED plan) \/ Ports!NoReply(t)
    BY <1>4 DEF Ports!CreateIp, Ports!cmdb, cmdb
  <2>2. type \in {"be", "fe"} => plan[t].prefix # None /\ type \notin plan[t].used
    BY <2>1 DEF Ports!resolve_ip_type, Ports!None, None
  <2>3. QED
    BY <2>1, <2>2 DEF Ports!CanInsertIp, CanInsertIp, Ports!InsertIp, InsertIp, Ports!IpsOn,
         IpsOn, Ports!None, None, Ports!Reply, Ports!GoTo, GoTo
<1>5. QED
  BY <1>2, <1>3, <1>4

LEMMA DetachSettles ==
    ASSUME NEW t \in Tasks, Ready(t), Body[t].kind = "detach", Ports!Detach(t), UNCHANGED work
    PROVE  Settles(t)
<1>1. Kept
  BY DropsKept DEF Ports!Detach, Ports!DeleteIp, Ports!DeleteEndpoints, Ready
<1>2. CASE Ports!NoReply(t)
  BY <1>1, <1>2, PortUnansweredSettles DEF IsPort
<1>3. CASE UNCHANGED plan /\ \E p \in {"delete endpoints", "acked"} : GoTo(t, p)
  <2>1. PICK p \in {"delete endpoints", "acked"} : GoTo(t, p)
    BY <1>3
  <2>2. p \in CallsOf(t) \cup Ended /\ TypesAt(t, p)'
    BY DEF CallsOf, Ended, TypesAt
  <2>3. QED
    BY <1>1, <1>3, <2>1, <2>2, PlainlySettles, PlansKept, WorksKept DEF Ready
<1>4. QED
  BY <1>2, <1>3 DEF Ports!Detach, Ports!DeleteIp, Ports!DeleteEndpoints, Ports!Reply,
                    Ports!GoTo, GoTo

LEMMA PortStepSettles ==
    ASSUME NEW t \in Tasks, Ready(t), PortStep(t)
    PROVE  Settles(t)
<1>1. IsPort(t) /\ UNCHANGED work /\ pc[t] \in CallsOf(t)
  BY DEF PortStep, Ready
<1>2. CASE Ports!Unreachable(t)
  <2>1. Ports!NoReply(t) /\ Kept
    BY <1>2, NothingKept DEF Ports!Unreachable, Ports!cmdb, cmdb, Ready
  <2>2. QED
    BY <1>1, <2>1, PortUnansweredSettles
<1>3. CASE Ports!Refuses(t)
  <2>1. Kept /\ UNCHANGED plan /\ GoTo(t, "dead")
    BY <1>3, NothingKept
       DEF Ports!Refuses, Ports!cmdb, cmdb, Ports!Refused, Ports!GoTo, GoTo, Ready
  <2>2. QED
    BY <1>1, <2>1, PlainlySettles, PlansKept, WorksKept DEF Ended, Ready
<1>4. CASE Ports!Attach(t)
  <2>1. Body[t].kind = "attach"
    BY <1>1, <1>4
       DEF Ports!Attach, CallsOf, IsPort, Ports!SelectServer, Ports!FindAttachedIp,
           Ports!FindPrefix, Ports!UpdateEndpoint, Ports!CreateEndpoint,
           Ports!ReselectAttached, Ports!ReselectName, Ports!CreateIp, Ports!ReselectIp
  <2>2. QED
    BY <1>1, <1>4, <2>1, SelectServerSettles, LookupSettles, AttachFindPrefixSettles,
       UpdateEndpointSettles, CreateEndpointSettles, ReselectNameSettles, CreateIpSettles
       DEF Ports!Attach
<1>5. CASE Ports!Detach(t)
  <2>1. Body[t].kind = "detach"
    BY <1>1, <1>5
       DEF Ports!Detach, CallsOf, Attaching, IsPort, Ports!DeleteIp, Ports!DeleteEndpoints
  <2>2. QED
    BY <1>1, <1>5, <2>1, DetachSettles
<1>6. QED
  BY <1>2, <1>3, <1>4, <1>5 DEF PortStep

-----------------------------------------------------------------------------
(* The types create counts                                                 *)

\* The endpoint create is at is on its row, whose types it has counted.
OnCard(t) == Holds(work[t].endpoint, work[t].server) /\ Counted(t)

LEMMA OnCardIs ==
    ASSUME NEW t \in Tasks, Ready(t), Body[t].kind = "create", pc[t] \in Late
    PROVE  OnCard(t)
BY DEF Ready, TypesAt, CreateTypes, OnCard

LEMMA OnCardKept ==
    ASSUME NEW t \in Tasks, OnCard(t), Kept, SameRow(work'[t], work[t])
    PROVE  OnCard(t)'
<1>1. PICK x, y, u : x = work[t].endpoint /\ y = work[t].server /\ u = work[t].used
  OBVIOUS
<1>2. Holds(x, y) /\ \A i \in IpsOf(y) : i.type \in {"be", "fe"} => i.type \in u
  BY <1>1 DEF OnCard, Counted
<1>3. Holds(x, y)' /\ IpsOf(y)' \subseteq IpsOf(y)
  BY <1>2 DEF Kept
<1>4. work'[t].endpoint = x /\ work'[t].server = y /\ work'[t].used = u
  BY <1>1 DEF SameRow, OnRow
<1>5. Holds(work[t].endpoint, work[t].server)'
  BY <1>3, <1>4 DEF Holds
<1>6. IpsOf(work[t].server)' = IpsOf(y)'
  BY <1>4 DEF IpsOf
<1>7. QED
  BY <1>2, <1>3, <1>4, <1>5, <1>6 DEF OnCard, Counted

\* A step of create to a call, with what it has to know there.
LEMMA CreateSettles ==
    ASSUME NEW t \in Tasks, Ready(t), Body[t].kind = "create", NEW p \in CallsOf(t), GoTo(t, p),
           RowsOK', TypesOnce', UNCHANGED plan, WorksOK', CreateTypes(t, p)'
    PROVE  Settles(t)
<1>1. PlansOK'
  BY PlansKept DEF Ready
<1>2. TypesAt(t, p)'
  BY DEF TypesAt
<1>3. QED
  BY <1>1, <1>2, StepSettles

LEMMA PlainTypes ==
    ASSUME NEW t \in Tasks, NEW p \in Late \ {"insert address", "reselect address"}, OnCard(t)'
    PROVE  CreateTypes(t, p)'
BY DEF CreateTypes, OnCard, Late, Removing

LEMMA CreateOnCard ==
    ASSUME NEW t \in Tasks, Ready(t), Body[t].kind = "create",
           NEW p \in Late \ {"insert address", "reselect address"}, GoTo(t, p),
           RowsOK', TypesOnce', UNCHANGED plan, WorksOK', OnCard(t)'
    PROVE  Settles(t)
<1>1. p \in CallsOf(t)
  BY DEF CallsOf
<1>2. CreateTypes(t, p)'
  BY PlainTypes
<1>3. QED
  BY <1>1, <1>2, CreateSettles

LEMMA GoesOnSettles ==
    ASSUME NEW t \in Tasks, Ready(t), Body[t].kind = "create", GoesOn(t),
           RowsOK', TypesOnce', UNCHANGED plan, OnCard(t)'
    PROVE  Settles(t)
<1>1. Plain \subseteq Late \ {"insert address", "reselect address"}
  BY DEF Plain, Late
<1>2. QED
  BY <1>1, CreateOnCard DEF GoesOn

LEMMA EndSettles ==
    ASSUME NEW t \in Tasks, Ready(t), NEW p \in Ended, GoTo(t, p),
           RowsOK', TypesOnce', UNCHANGED <<plan, work>>
    PROVE  Settles(t)
BY StepSettles, PlansKept, WorksKept DEF Ready

\* A row message that is no create has no types.
LEMMA OthersSettle ==
    ASSUME NEW t \in Tasks, Ready(t), ~IsPort(t), Body[t].kind # "create",
           NEW p \in CallsOf(t) \cup Ended, GoTo(t, p),
           RowsOK', TypesOnce', UNCHANGED plan, WorksOK'
    PROVE  Settles(t)
<1>1. PlansOK' /\ TypesAt(t, p)'
  BY PlansKept DEF Ready, TypesAt, IsPort
<1>2. QED
  BY <1>1, StepSettles

\* A call without an answer.
LEMMA ReportedSettles ==
    ASSUME NEW t \in Tasks, Ready(t), ~IsPort(t), Reported(t), RowsOK', TypesOnce', UNCHANGED plan,
           Body[t].kind = "create" /\ pc[t] \in Late /\ GoesOn(t) => OnCard(t)'
    PROVE  Settles(t)
<1>1. CASE (GoTo(t, "dead") \/ GoTo(t, "acked")) /\ UNCHANGED work
  BY <1>1, EndSettles DEF Ended
<1>2. CASE pc[t] \in Plain \cup {"insert address"} /\ GoesOn(t)
  <2>1. Body[t].kind = "create" /\ pc[t] \in Late
    BY <1>2, KindsAre DEF Ready, CallsOf, Removing, Plain, Late, IsPort
  <2>2. QED
    BY <1>2, <2>1, GoesOnSettles
<1>3. QED
  BY <1>1, <1>2 DEF Reported

LEMMA RowUnansweredSettles ==
    ASSUME NEW t \in Tasks, Ready(t), ~IsPort(t), Rows!NoReply(t), RowsOK', TypesOnce',
           UNCHANGED plan,
           Body[t].kind = "create" /\ UNCHANGED work =>
               \A p : p = Rows!Again(pc[t]) => CreateTypes(t, p)',
           Body[t].kind = "create" /\ pc[t] \in Late /\ GoesOn(t) => OnCard(t)'
    PROVE  Settles(t)
<1>1. NoAnswer(t) /\ WorksOK' /\ pc[t] \in CallsOf(t)
  BY NoReplyMoves DEF Ready
<1>2. CASE UNCHANGED work /\ \E p \in {Rows!Again(pc[t]), Rows!FirstCall(t), "dead"} : GoTo(t, p)
  <2>1. PICK p \in {Rows!Again(pc[t]), Rows!FirstCall(t), "dead"} : GoTo(t, p)
    BY <1>2
  <2>2. CASE p = "dead"
    BY <1>2, <2>1, <2>2, EndSettles DEF Ended
  <2>3. CASE Body[t].kind = "create" /\ p # "dead"
    <3>1. p = "look up" \/ p = Rows!Again(pc[t])
      BY <1>1, <2>1, <2>3, RowCalls
    <3>2. p \in CallsOf(t)
      BY <1>1, <2>3, <3>1, RowCalls DEF CallsOf, Removing, Late
    <3>3. CreateTypes(t, "look up")'
      BY DEF CreateTypes, Removing, Late
    <3>4. CASE p = "look up"
      BY <1>1, <2>1, <2>3, <3>2, <3>3, <3>4, CreateSettles
    <3>5. CASE p = Rows!Again(pc[t])
      <4>1. CreateTypes(t, p)'
        BY <1>2, <2>3, <3>5
      <4>2. QED
        BY <1>1, <2>1, <2>3, <3>2, <4>1, CreateSettles
    <3>6. QED
      BY <3>1, <3>4, <3>5
  <2>4. CASE Body[t].kind # "create" /\ p # "dead"
    <3>1. p \in CallsOf(t) \cup Ended
      <4>1. Body[t].kind \in {"delete", "resize"}
        BY <2>4, KindsAre DEF IsPort
      <4>2. QED
        BY <1>1, <2>1, <4>1, RowCalls DEF CallsOf, Removing, Ended
    <3>2. QED
      BY <1>1, <2>1, <2>4, <3>1, OthersSettle
  <2>5. QED
    BY <2>2, <2>3, <2>4
<1>3. CASE Reported(t)
  BY <1>3, ReportedSettles
<1>4. QED
  BY <1>1, <1>2, <1>3 DEF NoAnswer

\* What create knows at a call it knows at the one it goes on at, as long as
\* the call keeps what is particular to it.
LEMMA TypesStay ==
    ASSUME NEW t \in Tasks, Ready(t), Body[t].kind = "create", Kept, UNCHANGED work,
           pc[t] = "delete server" =>
               \A s \in servers' : s.hostname = Body[t].hostname => s.id \in work[t].victims,
           pc[t] \in {"insert server", "reselect server"} => Bare(t)',
           NEW p, p = Rows!Again(pc[t])
               \/ (pc[t] \in {"reselect server", "reselect card", "reselect address"}
                     /\ pc[t] = Rows!Again(p))
    PROVE  CreateTypes(t, p)'
<1>1. PICK c : c = pc[t]
  OBVIOUS
<1>2. CreateTypes(t, c) /\ c \in CallsOf(t)
  BY <1>1 DEF Ready, TypesAt
<1>3. \/ p = c
      \/ c \in {"insert server", "reselect server"} /\ p \in {"insert server", "reselect server"}
      \/ c \in {"insert card", "reselect card"} /\ p \in {"insert card", "reselect card"}
      \/ c \in {"insert address", "reselect address"} /\ p \in {"insert address", "reselect address"}
  BY <1>1 DEF Rows!Again
<1>4. c \in Late => OnCard(t)'
  BY <1>1, OnCardIs, OnCardKept, WorkIs DEF Ready
<1>5. c \in {"insert address", "reselect address"} => Typed(t)'
  <2>1. SUFFICES ASSUME c \in {"insert address", "reselect address"} PROVE Typed(t)'
    OBVIOUS
  <2>2. PICK x, a : x = work[t].server /\ a = Rows!Address(t)
    OBVIOUS
  <2>3. /\ work[t].type \in work[t].used /\ PrefixOf[a] # None
        /\ \A i \in IpsOf(x) : i.type \in {"be", "fe"} /\ i.type = work[t].type =>
              i.ip = a /\ i.endpoint = work[t].endpoint /\ i.prefix = PrefixOf[a]
    BY <1>2, <2>1, <2>2 DEF CreateTypes, Typed
  <2>4. IpsOf(x)' \subseteq IpsOf(x)
    BY DEF Kept
  <2>5. Rows!Address(t)' = a /\ IpsOf(work[t].server)' = IpsOf(x)'
    BY <2>2 DEF Rows!Address, IpsOf
  <2>6. QED
    BY <2>3, <2>4, <2>5 DEF Typed
<1>6. p \in Removing \cup {"insert server", "reselect server"} =>
          work'[t].endpoint = 0 /\ work'[t].used = {}
  BY <1>2, <1>3 DEF CreateTypes, Removing
<1>7. p \in Late => c \in Late
  BY <1>3 DEF Late
<1>8. p \in {"insert server", "reselect server"} => c \in {"insert server", "reselect server"}
  BY <1>3
<1>9. p \in {"insert address", "reselect address"} => c \in {"insert address", "reselect address"}
  BY <1>3
<1>10. p = "delete server" => c = "delete server"
  BY <1>3
<1>11. QED
  BY <1>1, <1>4, <1>5, <1>6, <1>7, <1>8, <1>9, <1>10 DEF CreateTypes, OnCard

LEMMA QuietStays ==
    ASSUME NEW t \in Tasks, Ready(t), Body[t].kind = "create", UNCHANGED <<cmdb, work>>,
           NEW p, p = Rows!Again(pc[t])
               \/ (pc[t] \in {"reselect server", "reselect card", "reselect address"}
                     /\ pc[t] = Rows!Again(p))
    PROVE  CreateTypes(t, p)'
<1>1. Kept /\ UNCHANGED <<servers, endpoints>>
  BY NothingKept DEF Ready, cmdb
<1>2. CreateTypes(t, pc[t])
  BY DEF Ready, TypesAt
<1>3. pc[t] = "delete server" =>
          \A s \in servers' : s.hostname = Body[t].hostname => s.id \in work[t].victims
  BY <1>1, <1>2 DEF CreateTypes
<1>4. pc[t] \in {"insert server", "reselect server"} => Bare(t)'
  BY <1>1, <1>2 DEF CreateTypes, Bare
<1>5. QED
  BY <1>1, <1>3, <1>4, TypesStay

LEMMA LateStays ==
    ASSUME NEW t \in Tasks, Ready(t), Body[t].kind = "create", pc[t] \in Late, Kept,
           UNCHANGED work
    PROVE  \A p : p = Rows!Again(pc[t]) => CreateTypes(t, p)'
BY TypesStay DEF Late

LEMMA NotAppliedSettles ==
    ASSUME NEW t \in Tasks, Ready(t), ~IsPort(t), Rows!NoReply(t), UNCHANGED <<cmdb, plan>>
    PROVE  Settles(t)
<1>1. Kept
  BY NothingKept DEF Ready
<1>2. RowsOK' /\ TypesOnce'
  BY <1>1, OnceKept DEF Kept, Ready
<1>3. Body[t].kind = "create" /\ UNCHANGED work =>
          \A p : p = Rows!Again(pc[t]) => CreateTypes(t, p)'
  BY QuietStays
<1>4. Body[t].kind = "create" /\ pc[t] \in Late /\ GoesOn(t) => OnCard(t)'
  BY <1>1, OnCardIs, OnCardKept DEF GoesOn
<1>5. QED
  BY <1>2, <1>3, <1>4, RowUnansweredSettles

LEMMA ConflictSettles ==
    ASSUME NEW t \in Tasks, Ready(t), Body[t].kind = "create", Rows!Conflict(t), UNCHANGED plan
    PROVE  Settles(t)
<1>1. Reported(t) /\ UNCHANGED cmdb /\ ~IsPort(t)
  BY ReportMoves DEF Rows!Conflict, Rows!cmdb, cmdb, IsPort, Ready
<1>2. Kept
  BY <1>1, NothingKept DEF Ready
<1>3. RowsOK' /\ TypesOnce'
  BY <1>2, OnceKept DEF Kept, Ready
<1>4. pc[t] \in Late /\ GoesOn(t) => OnCard(t)'
  BY <1>2, OnCardIs, OnCardKept DEF GoesOn
<1>5. QED
  BY <1>1, <1>3, <1>4, ReportedSettles

\* The removal takes all rows with the hostname of the create.
Covered(t, left) ==
    \A s \in servers : s.hostname = Body[t].hostname => s.id \in left

LEMMA RemovalSettles ==
    ASSUME NEW t \in Tasks, Ready(t), Body[t].kind \in {"create", "delete"},
           pc[t] \in Removing, NEW left, Body[t].kind = "create" => Covered(t, left)',
           GoTo(t, Rows!AfterRemoval(t, left)),
           work' = [work EXCEPT ![t] = [work[t] EXCEPT !.victims = left]],
           Kept, UNCHANGED plan
    PROVE  Settles(t)
<1>1. PICK w : w = [work[t] EXCEPT !.victims = left] /\ work' = [work EXCEPT ![t] = w]
  OBVIOUS
<1>2. SameRow(w, work[t]) /\ w.victims = left
  <2>1. \A a : /\ SameRow([work[t] EXCEPT !.victims = a], work[t])
                /\ [work[t] EXCEPT !.victims = a].victims = a
    BY WorkIs, WorkPart DEF Ready
  <2>2. QED
    BY <1>1, <2>1
<1>3. WorksOK' /\ work'[t] = w
  BY <1>1, <1>2, WorkCarried DEF SameRow, OnRow, Ready
<1>4. PICK p : /\ GoTo(t, p)
               /\ p = IF left # {} THEN "delete server"
                      ELSE IF Body[t].kind = "create" THEN "insert server" ELSE "acked"
  BY DEF Rows!AfterRemoval
<1>5. p \in CallsOf(t) \cup Ended
  BY <1>4 DEF CallsOf, Removing, Ended
<1>6. RowsOK' /\ TypesOnce'
  BY OnceKept DEF Kept, Ready
<1>7. CASE Body[t].kind = "create"
  <2>1. work[t].endpoint = 0 /\ work[t].used = {}
    BY <1>7 DEF Ready, TypesAt, CreateTypes
  <2>2. work'[t].endpoint = 0 /\ work'[t].used = {} /\ work'[t].victims = left
    BY <1>2, <1>3, <2>1 DEF SameRow, OnRow
  <2>3. p \in {"delete server", "insert server"}
    BY <1>4, <1>7
  <2>4. p = "insert server" => Bare(t)'
    BY <1>4, <1>7 DEF Covered, Bare
  <2>5. CreateTypes(t, p)'
    BY <1>7, <2>2, <2>3, <2>4 DEF CreateTypes, Covered, Late, Removing
  <2>6. p \in CallsOf(t)
    BY <1>7, <2>3 DEF CallsOf, Removing
  <2>7. QED
    BY <1>3, <1>4, <1>6, <1>7, <2>5, <2>6, CreateSettles
<1>8. CASE Body[t].kind # "create"
  BY <1>3, <1>4, <1>5, <1>6, <1>8, OthersSettle DEF IsPort
<1>9. QED
  BY <1>7, <1>8

LEMMA SelectServersSettles ==
    ASSUME NEW t \in Tasks, Ready(t), ~IsPort(t), Rows!SelectServers(t), UNCHANGED plan
    PROVE  Settles(t)
<1>1. pc[t] \in Removing /\ UNCHANGED cmdb /\ Body[t].kind \in {"create", "delete"}
  BY RemovalCalls DEF Rows!SelectServers, Rows!cmdb, cmdb, Removing, Ready
<1>2. PICK left : /\ left = Rows!Victims(t) /\ GoTo(t, Rows!AfterRemoval(t, left))
                  /\ work' = [work EXCEPT ![t] = [work[t] EXCEPT !.victims = left]]
  BY DEF Rows!SelectServers, Rows!Reply, Rows!GoTo, GoTo, Rows!Carry
<1>3. Body[t].kind = "create" => Covered(t, left)'
  BY <1>1, <1>2 DEF Rows!Victims, Covered, cmdb
<1>4. Kept
  BY <1>1, NothingKept DEF Ready
<1>5. QED
  BY <1>1, <1>2, <1>3, <1>4, RemovalSettles

LEMMA DeleteVictimSettles ==
    ASSUME NEW t \in Tasks, Ready(t), ~IsPort(t), Rows!DeleteVictim(t), UNCHANGED plan
    PROVE  Settles(t)
<1>1. pc[t] = "delete server" /\ pc[t] \in Removing /\ Body[t].kind \in {"create", "delete"}
  BY RemovalCalls DEF Rows!DeleteVictim, Removing, Ready
<1>2. PICK v \in work[t].victims :
          /\ DeleteServer(v) /\ UNCHANGED serial
          /\ \/ /\ GoTo(t, Rows!AfterRemoval(t, work[t].victims \ {v}))
                /\ work' = [work EXCEPT ![t] = [work[t] EXCEPT !.victims = work[t].victims \ {v}]]
             \/ Rows!NoReply(t)
  BY DEF Rows!DeleteVictim, Rows!Reply, Rows!GoTo, GoTo, Rows!Carry, Rows!DeleteServer,
         DeleteServer, Rows!EndpointsOf, EndpointsOf
<1>3. Kept
  BY <1>2, DropsKept DEF DeleteServer, Ready
<1>4. servers' = {s \in servers : s.id # v}
  BY <1>2 DEF DeleteServer
<1>5. Body[t].kind = "create" =>
          \A s \in servers : s.hostname = Body[t].hostname => s.id \in work[t].victims
  BY <1>1 DEF Ready, TypesAt, CreateTypes
<1>6. CASE Rows!NoReply(t)
  <2>1. Body[t].kind = "create" /\ UNCHANGED work =>
            \A p : p = Rows!Again(pc[t]) => CreateTypes(t, p)'
    BY <1>1, <1>3, <1>4, <1>5, TypesStay
  <2>2. pc[t] \notin Late
    BY <1>1 DEF Late
  <2>3. RowsOK' /\ TypesOnce'
    BY <1>3, OnceKept DEF Kept, Ready
  <2>4. QED
    BY <1>6, <2>1, <2>2, <2>3, RowUnansweredSettles
<1>7. CASE ~Rows!NoReply(t)
  <2>1. PICK left : left = work[t].victims \ {v}
    OBVIOUS
  <2>2. Body[t].kind = "create" => Covered(t, left)'
    BY <1>4, <1>5, <2>1 DEF Covered
  <2>3. QED
    BY <1>1, <1>2, <1>3, <1>7, <2>1, <2>2, RemovalSettles
<1>8. QED
  BY <1>6, <1>7

LEMMA LookUpSettles ==
    ASSUME NEW t \in Tasks, Ready(t), Body[t].kind = "create", Rows!LookUp(t), UNCHANGED plan
    PROVE  Settles(t)
<1>1. pc[t] = "look up" /\ UNCHANGED cmdb /\ GoTo(t, "select servers")
  BY DEF Rows!LookUp, Rows!cmdb, cmdb, Rows!Reply, Rows!GoTo, GoTo
<1>2. PICK failed, w : /\ w = [Rows!NoWork EXCEPT !.failed = failed, !.cards = Body[t].cards]
                       /\ work' = [work EXCEPT ![t] = w]
  BY DEF Rows!LookUp, Rows!Carry
<1>3. IsWork(Rows!NoWork) /\ Rows!NoWork.endpoint = 0 /\ Rows!NoWork.used = {}
  BY DEF Rows!NoWork, IsWork
<1>4. SameRow(w, Rows!NoWork)
  BY <1>2, <1>3, WorkParts
<1>5. IsWork(w) /\ w.endpoint = 0 /\ w.used = {}
  BY <1>3, <1>4 DEF SameRow, OnRow
<1>6. WorksOK' /\ work'[t] = w
  BY <1>2, <1>5, WorkCarried DEF Ready
<1>7. CreateTypes(t, "select servers")'
  BY <1>5, <1>6 DEF CreateTypes, Late
<1>8. RowsOK' /\ TypesOnce'
  BY <1>1, NothingKept, OnceKept DEF Kept, Ready
<1>9. "select servers" \in CallsOf(t)
  BY DEF CallsOf, Removing
<1>10. QED
  BY <1>1, <1>6, <1>7, <1>8, <1>9, CreateSettles

LEMMA ZeroBelow == \A m \in Nat \ {0} : 0 \in 0 .. m - 1
OBVIOUS

LEMMA NoRowZero ==
    RowsOK' => 0 \in 0 .. serial' - 1 /\ \A e \in endpoints' : e.id # 0
<1>1. RowsOK' => serial' \in Nat \ {0}
  BY DEF RowsOK
<1>2. RowsOK' => \A e \in endpoints' : e.id # 0
  BY DEF RowsOK
<1>3. QED
  BY <1>1, <1>2, ZeroBelow

\* The row create goes on with has no endpoint yet.
LEMMA OnItsRowSettles ==
    ASSUME NEW t \in Tasks, Ready(t), Body[t].kind = "create",
           pc[t] \in {"insert server", "reselect server"}, Kept,
           NEW x, \A e \in endpoints' : e.server # x, GoTo(t, "write batch"),
           work' = [work EXCEPT ![t] = [work[t] EXCEPT !.server = x]], UNCHANGED plan
    PROVE  Settles(t)
<1>1. PICK w : w = [work[t] EXCEPT !.server = x] /\ work' = [work EXCEPT ![t] = w]
  OBVIOUS
<1>2. OnRow(w, x, work[t].endpoint, work[t].used)
  <2>1. \A a : OnRow([work[t] EXCEPT !.server = a], a, work[t].endpoint, work[t].used)
    BY WorkIs, WorkPart DEF Ready
  <2>2. QED
    BY <1>1, <2>1
<1>3. WorksOK' /\ work'[t] = w
  BY <1>1, <1>2, WorkCarried DEF OnRow, Ready
<1>4. work[t].endpoint = 0
  BY DEF Ready, TypesAt, CreateTypes
<1>5. work'[t].endpoint = 0 /\ work'[t].server = x
  BY <1>2, <1>3, <1>4 DEF OnRow
<1>6. RowsOK' /\ TypesOnce'
  BY OnceKept DEF Kept, Ready
<1>7. OnCard(t)'
  <2>1. 0 \in 0 .. serial' - 1 /\ \A e \in endpoints' : e.id # 0
    BY <1>6, NoRowZero
  <2>2. Holds(work[t].endpoint, work[t].server)'
    BY <1>5, <2>1 DEF Holds
  <2>3. IpsOf(work[t].server)' = {}
    BY <1>5 DEF IpsOf
  <2>4. QED
    BY <2>2, <2>3 DEF OnCard, Counted
<1>8. QED
  BY <1>3, <1>6, <1>7, CreateOnCard DEF Late

LEMMA CreateServerSettles ==
    ASSUME NEW t \in Tasks, Ready(t), Body[t].kind = "create", Rows!CreateServer(t),
           UNCHANGED plan
    PROVE  Settles(t)
<1>1. pc[t] = "insert server" /\ Bare(t)
  BY DEF Rows!CreateServer, Ready, TypesAt, CreateTypes
<1>2. CASE Rows!Conflict(t)
  BY <1>2, ConflictSettles
<1>3. CASE ~Rows!Conflict(t)
  <2>1. PICK x, s : /\ x = serial
                    /\ s = [id |-> serial, uuid |-> Body[t].uuid, hostname |-> Body[t].hostname,
                            raw_info |-> t, state |-> "setup",
                            fields |-> [f \in Rows!Fields |-> Rows!None]]
    OBVIOUS
  <2>2. /\ servers' = servers \cup {s} /\ serial' = serial + 1 /\ UNCHANGED <<endpoints, ips>>
        /\ \/ /\ GoTo(t, "write batch")
              /\ work' = [work EXCEPT ![t] = [work[t] EXCEPT !.server = x]]
           \/ Rows!NoReply(t)
    BY <1>3, <2>1 DEF Rows!CreateServer, Rows!Reply, Rows!GoTo, GoTo, Rows!Carry
  <2>3. IsServer(s) /\ s.id = serial /\ s.uuid = Body[t].uuid /\ s.hostname = Body[t].hostname
    BY <2>1 DEF IsServer
  <2>4. Kept
    BY <2>2, <2>3, ServerKept DEF PutsServer, Ready
  <2>5. \A e \in endpoints : e.server # serial
    BY DEF Ready, RowsOK
  <2>6. Bare(t)'
    BY <1>1, <2>2, <2>3, <2>5 DEF Bare
  <2>7. CASE Rows!NoReply(t)
    <3>1. UNCHANGED work => \A p : p = Rows!Again(pc[t]) => CreateTypes(t, p)'
      BY <1>1, <2>4, <2>6, TypesStay
    <3>2. RowsOK' /\ TypesOnce' /\ ~IsPort(t)
      BY <2>4, OnceKept DEF Kept, Ready, IsPort
    <3>3. pc[t] \notin Late
      BY <1>1 DEF Late
    <3>4. QED
      BY <2>7, <3>1, <3>2, <3>3, RowUnansweredSettles
  <2>8. CASE /\ GoTo(t, "write batch")
             /\ work' = [work EXCEPT ![t] = [work[t] EXCEPT !.server = x]]
    <3>1. \A e \in endpoints' : e.server # x
      BY <2>1, <2>2, <2>5
    <3>2. QED
      BY <1>1, <2>4, <2>8, <3>1, OnItsRowSettles
  <2>9. QED
    BY <2>2, <2>7, <2>8
<1>4. QED
  BY <1>2, <1>3

\* by_hostname finds the row of this run, or one put in by an insert cut off.
LEMMA ReselectServerSettles ==
    ASSUME NEW t \in Tasks, Ready(t), Body[t].kind = "create", Rows!ReselectServer(t),
           UNCHANGED plan
    PROVE  Settles(t)
<1>1. pc[t] = "reselect server" /\ UNCHANGED cmdb /\ Bare(t) /\ Kept
  BY NothingKept DEF Rows!ReselectServer, Rows!cmdb, cmdb, Ready, TypesAt, CreateTypes
<1>2. ASSUME NEW s \in servers, s.hostname = Body[t].hostname, GoTo(t, "write batch"),
             work' = [work EXCEPT ![t] = [work[t] EXCEPT !.server = s.id]]
      PROVE  Settles(t)
  <2>1. PICK x : x = s.id
    OBVIOUS
  <2>2. \A e \in endpoints' : e.server # x
    BY <1>1, <1>2, <2>1 DEF Bare, cmdb
  <2>3. QED
    BY <1>1, <1>2, <2>1, <2>2, OnItsRowSettles
<1>3. CASE GoTo(t, "insert server") /\ UNCHANGED work
  <2>1. Rows!Again("insert server") = "reselect server"
    BY DEF Rows!Again
  <2>2. CreateTypes(t, "insert server")'
    BY <1>1, <1>3, <2>1, QuietStays
  <2>3. RowsOK' /\ TypesOnce' /\ WorksOK' /\ "insert server" \in CallsOf(t)
    BY <1>1, <1>3, OnceKept, WorksKept DEF Kept, Ready, CallsOf
  <2>4. QED
    BY <1>3, <2>2, <2>3, CreateSettles
<1>4. QED
  BY <1>2, <1>3 DEF Rows!ReselectServer, Rows!Reply, Rows!GoTo, GoTo, Rows!Carry

\* The fields and the state touch no endpoint and no address.
LEMMA WritesSettle ==
    ASSUME NEW t \in Tasks, Ready(t), Body[t].kind = "create", pc[t] \in Late, Kept,
           UNCHANGED plan,
           \/ GoesOn(t)
           \/ GoTo(t, "acked") /\ UNCHANGED work
           \/ Rows!NoReply(t)
    PROVE  Settles(t)
<1>1. RowsOK' /\ TypesOnce' /\ ~IsPort(t)
  BY OnceKept DEF Kept, Ready, IsPort
<1>2. GoesOn(t) => OnCard(t)'
  BY OnCardIs, OnCardKept DEF GoesOn
<1>3. CASE GoesOn(t)
  BY <1>1, <1>2, <1>3, GoesOnSettles
<1>4. CASE GoTo(t, "acked") /\ UNCHANGED work
  BY <1>1, <1>4, EndSettles DEF Ended
<1>5. CASE Rows!NoReply(t)
  BY <1>1, <1>2, <1>5, LateStays, RowUnansweredSettles
<1>6. QED
  BY <1>3, <1>4, <1>5

LEMMA WriteFieldsSettle ==
    ASSUME NEW t \in Tasks, Ready(t), Body[t].kind = "create",
           Rows!WriteBatch(t) \/ Rows!WritePrice(t) \/ Rows!WriteFlavor(t) \/ Rows!WriteState(t),
           UNCHANGED plan
    PROVE  Settles(t)
<1>1. pc[t] \in Late
  BY DEF Rows!WriteBatch, Rows!WritePrice, Rows!WriteFlavor, Rows!WriteState, Late
<1>2. Kept
  <2>1. CASE \E F \in SUBSET {"price", "flavor"} : Rows!Write(t, F)
    BY <2>1, WriteUpdates, UpdatesKept DEF Ready
  <2>2. CASE Rows!WriteState(t)
    BY <2>2, StateUpdates, UpdatesKept DEF Ready
  <2>3. QED
    BY <2>1, <2>2 DEF Rows!WriteBatch, Rows!WritePrice, Rows!WriteFlavor, Rows!Fields
<1>3. IsWork(work[t]) /\ SameRow(work[t], work[t])
  BY WorkIs DEF Ready
<1>4. Rows!Continue(t, work[t]) => GoesOn(t)
  BY <1>3, ContinuesOnRow DEF Ready
<1>5. GoTo(t, "write flavor") /\ UNCHANGED work => GoesOn(t)
  BY <1>3, WorksKept DEF GoesOn, Plain, Ready
<1>6. GoesOn(t) \/ (GoTo(t, "acked") /\ UNCHANGED work) \/ Rows!NoReply(t)
  BY <1>4, <1>5 DEF Rows!WriteBatch, Rows!WritePrice, Rows!WriteFlavor, Rows!WriteState,
                    Rows!Reply, Rows!GoTo, GoTo
<1>7. QED
  BY <1>1, <1>2, <1>6, WritesSettle

\* A card written on the row of the create.
LEMMA OnCardSettles ==
    ASSUME NEW t \in Tasks, Ready(t), Body[t].kind = "create", pc[t] \in Late, Kept,
           NEW x, NEW y, y = work[t].server, Holds(x, y)', Rows!CardWritten(t, x),
           UNCHANGED plan
    PROVE  Settles(t)
<1>1. PICK w : /\ w = [work[t] EXCEPT !.endpoint = x, !.cards = Tail(work[t].cards),
                                      !.addresses = Rows!Card(t).addresses]
               /\ Rows!Continue(t, w)
  BY DEF Rows!CardWritten
<1>2. OnRow(w, work[t].server, x, work[t].used)
  BY <1>1, WorkIs, WorkParts DEF Ready
<1>3. WorksOK' /\ work'[t] = w /\ \E p \in Plain : GoTo(t, p)
  BY <1>1, <1>2, Continues DEF OnRow, Ready
<1>4. PICK u : u = work[t].used
  OBVIOUS
<1>5. \A i \in IpsOf(y) : i.type \in {"be", "fe"} => i.type \in u
  BY <1>4, OnCardIs DEF OnCard, Counted
<1>6. work'[t].endpoint = x /\ work'[t].server = y /\ work'[t].used = u
  BY <1>2, <1>3, <1>4 DEF OnRow
<1>7. OnCard(t)'
  <2>1. Holds(work[t].endpoint, work[t].server)'
    BY <1>6 DEF Holds
  <2>2. IpsOf(y)' \subseteq IpsOf(y)
    BY DEF Kept
  <2>3. IpsOf(work[t].server)' = IpsOf(y)'
    BY <1>6 DEF IpsOf
  <2>4. QED
    BY <1>5, <1>6, <2>1, <2>2, <2>3 DEF OnCard, Counted
<1>8. RowsOK' /\ TypesOnce'
  BY OnceKept DEF Kept, Ready
<1>9. Plain \subseteq Late \ {"insert address", "reselect address"}
  BY DEF Plain, Late
<1>10. QED
  BY <1>3, <1>7, <1>8, <1>9, CreateOnCard

LEMMA CreateCardSettles ==
    ASSUME NEW t \in Tasks, Ready(t), Body[t].kind = "create", Rows!CreateCard(t),
           UNCHANGED plan
    PROVE  Settles(t)
<1>1. pc[t] = "insert card" /\ pc[t] \in Late /\ ~IsPort(t)
  BY DEF Rows!CreateCard, Late, IsPort
<1>2. CASE Rows!Conflict(t)
  BY <1>2, ConflictSettles
<1>3. ASSUME NEW y, NEW name, NEW mac, y = work[t].server,
             \E s \in servers : s.id = y, InsertEndpoint(y, name, mac),
             UNCHANGED <<servers, ips>>, Rows!CardWritten(t, serial) \/ Rows!NoReply(t)
      PROVE  Settles(t)
  <2>1. Kept /\ \A x : x = serial => Holds(x, y)'
    BY <1>3, EndpointKept DEF Ready
  <2>2. CASE Rows!NoReply(t)
    <3>1. RowsOK' /\ TypesOnce'
      BY <2>1, OnceKept DEF Kept, Ready
    <3>2. GoesOn(t) => OnCard(t)'
      BY <1>1, <2>1, OnCardIs, OnCardKept DEF GoesOn
    <3>3. QED
      BY <1>1, <2>1, <2>2, <3>1, <3>2, LateStays, RowUnansweredSettles
  <2>3. CASE Rows!CardWritten(t, serial)
    <3>1. PICK x : x = serial
      OBVIOUS
    <3>2. QED
      BY <1>1, <1>3, <2>1, <2>3, <3>1, OnCardSettles
  <2>4. QED
    BY <1>3, <2>2, <2>3
<1>4. QED
  BY <1>2, <1>3
     DEF Rows!CreateCard, Rows!CanInsertEndpoint, Rows!InsertEndpoint, InsertEndpoint

LEMMA BackSettles ==
    ASSUME NEW t \in Tasks, Ready(t), Body[t].kind = "create",
           pc[t] \in {"reselect card", "reselect address"}, UNCHANGED <<cmdb, work, plan>>,
           NEW p \in Late, GoTo(t, p), pc[t] = Rows!Again(p)
    PROVE  Settles(t)
<1>1. CreateTypes(t, p)'
  BY QuietStays
<1>2. RowsOK' /\ TypesOnce' /\ WorksOK' /\ p \in CallsOf(t)
  BY NothingKept, OnceKept, WorksKept DEF Kept, Ready, CallsOf
<1>3. QED
  BY <1>1, <1>2, CreateSettles

LEMMA ReselectCardSettles ==
    ASSUME NEW t \in Tasks, Ready(t), Body[t].kind = "create", Rows!ReselectCard(t),
           UNCHANGED plan
    PROVE  Settles(t)
<1>1. pc[t] = "reselect card" /\ pc[t] \in Late /\ UNCHANGED cmdb /\ Kept
  BY NothingKept DEF Rows!ReselectCard, Late, Rows!cmdb, cmdb, Ready
<1>2. ASSUME NEW e \in endpoints, e.server = work[t].server, Rows!CardWritten(t, e.id)
      PROVE  Settles(t)
  <2>1. PICK x, y : x = e.id /\ y = e.server
    OBVIOUS
  <2>2. Holds(x, y)
    <3>1. e.id \in 0 .. serial - 1 /\ \A d \in endpoints : d.id = e.id => d = e
      BY DEF Ready, RowsOK
    <3>2. QED
      BY <2>1, <3>1 DEF Holds
  <2>3. Holds(x, y)'
    BY <1>1, <2>2 DEF Holds, cmdb
  <2>4. QED
    BY <1>1, <1>2, <2>1, <2>3, OnCardSettles
<1>3. CASE GoTo(t, "insert card") /\ UNCHANGED work
  <2>1. Rows!Again("insert card") = "reselect card" /\ "insert card" \in Late
    BY DEF Rows!Again, Late
  <2>2. QED
    BY <1>1, <1>3, <2>1, BackSettles
<1>4. QED
  BY <1>2, <1>3 DEF Rows!ReselectCard, Rows!Reply, Rows!GoTo, GoTo, Rows!EndpointsOf

\* The type of an address is counted before it is inserted, if no address has it.
LEMMA CreateFindPrefixSettles ==
    ASSUME NEW t \in Tasks, Ready(t), Body[t].kind = "create", Rows!FindPrefix(t),
           UNCHANGED plan
    PROVE  Settles(t)
<1>1. pc[t] = "find prefix" /\ pc[t] \in Late /\ UNCHANGED cmdb /\ Kept
  BY NothingKept DEF Rows!FindPrefix, Late, Rows!cmdb, cmdb, Ready
<1>2. RowsOK' /\ TypesOnce' /\ OnCard(t)
  BY <1>1, OnceKept, OnCardIs DEF Kept, Ready
<1>3. CASE Rows!SkipAddress(t)
  <2>1. GoesOn(t)
    BY <1>3, Skips DEF Ready
  <2>2. OnCard(t)'
    BY <1>1, <1>2, <2>1, OnCardKept DEF GoesOn
  <2>3. QED
    BY <1>2, <2>1, <2>2, GoesOnSettles
<1>4. ASSUME NEW type, type \in {"be", "fe"} => type \notin work[t].used,
             PrefixOf[Rows!Address(t)] # None, GoTo(t, "insert address"),
             work' = [work EXCEPT ![t] = [work[t] EXCEPT !.type = type,
                                                         !.used = work[t].used \cup {type}]]
      PROVE  Settles(t)
  <2>1. PICK used, w : /\ used = work[t].used \cup {type}
                       /\ w = [work[t] EXCEPT !.type = type, !.used = used]
                       /\ work' = [work EXCEPT ![t] = w]
    BY <1>4
  <2>2. OnRow(w, work[t].server, work[t].endpoint, used) /\ Writes(w, work[t].addresses, type)
    BY <2>1, WorkIs, WorkParts DEF Ready
  <2>3. WorksOK' /\ work'[t] = w
    BY <2>1, <2>2, WorkCarried DEF OnRow, Ready
  <2>4. /\ work'[t].server = work[t].server /\ work'[t].endpoint = work[t].endpoint
        /\ work'[t].used = used /\ work'[t].type = type
        /\ work'[t].addresses = work[t].addresses
    BY <2>2, <2>3 DEF OnRow, Writes
  <2>5. Holds(work[t].endpoint, work[t].server)'
    BY <1>1, <1>2, <2>4 DEF OnCard, Holds, cmdb
  <2>6. IpsOf(work[t].server)' = IpsOf(work[t].server)
    BY <1>1, <2>4 DEF IpsOf, cmdb
  <2>7. Counted(t)'
    BY <1>2, <2>1, <2>4, <2>6 DEF OnCard, Counted
  <2>8. Rows!Address(t)' = Rows!Address(t)
    BY <2>4 DEF Rows!Address
  <2>9. \A i \in IpsOf(work[t].server) : ~(i.type \in {"be", "fe"} /\ i.type = type)
    BY <1>2, <1>4 DEF OnCard, Counted
  <2>10. Typed(t)'
    BY <1>4, <2>1, <2>4, <2>6, <2>8, <2>9 DEF Typed
  <2>11. CreateTypes(t, "insert address")' /\ "insert address" \in CallsOf(t)
    BY <2>5, <2>7, <2>10 DEF CreateTypes, Removing, CallsOf, Late
  <2>12. QED
    BY <1>2, <1>4, <2>3, <2>11, CreateSettles
<1>5. ASSUME ~Rows!SkipAddress(t)
      PROVE  \E type : /\ type \in {"be", "fe"} => type \notin work[t].used
                       /\ PrefixOf[Rows!Address(t)] # None /\ GoTo(t, "insert address")
                       /\ work' = [work EXCEPT ![t] = [work[t] EXCEPT !.type = type,
                                                          !.used = work[t].used \cup {type}]]
  <2>1. PICK type : /\ type = Rows!resolve_ip_type(PrefixOf[Rows!Address(t)], work[t].used)
                    /\ PrefixOf[Rows!Address(t)] # Rows!None /\ Rows!Reply(t, "insert address")
                    /\ work' = [work EXCEPT ![t] = [work[t] EXCEPT !.type = type,
                                                       !.used = work[t].used \cup {type}]]
    BY <1>5 DEF Rows!FindPrefix, Rows!Carry
  <2>2. type \in {"be", "fe"} => type \notin work[t].used
    BY <2>1 DEF Rows!resolve_ip_type
  <2>3. QED
    BY <2>1, <2>2 DEF Rows!None, None, Rows!Reply, Rows!GoTo, GoTo
<1>6. QED
  BY <1>3, <1>4, <1>5

LEMMA CreateAddressSettles ==
    ASSUME NEW t \in Tasks, Ready(t), Body[t].kind = "create", Rows!CreateAddress(t),
           UNCHANGED plan
    PROVE  Settles(t)
<1>1. pc[t] = "insert address" /\ pc[t] \in Late /\ ~IsPort(t) /\ OnCard(t) /\ Typed(t)
  BY OnCardIs DEF Rows!CreateAddress, Late, IsPort, Ready, TypesAt, CreateTypes
<1>2. CASE Rows!Conflict(t)
  BY <1>2, ConflictSettles
<1>3. ASSUME NEW ip, NEW endpoint, NEW prefix, NEW type, NEW x,
             ip = Rows!Address(t), endpoint = work[t].endpoint, prefix = PrefixOf[ip],
             type = work[t].type, x = work[t].server,
             CanInsertIp(ip, endpoint, prefix), InsertIp(ip, endpoint, prefix, type),
             UNCHANGED <<servers, endpoints>>, Rows!AddressWritten(t) \/ Rows!NoReply(t)
      PROVE  Settles(t)
  <2>1. /\ Holds(endpoint, x) /\ \E e \in endpoints : e.id = endpoint
        /\ type \in work[t].used /\ prefix # None
    BY <1>1, <1>3 DEF OnCard, CanInsertIp, Typed
  <2>2. \A i \in IpsOf(x) : i.type \in {"be", "fe"} /\ i.type = type =>
            i.ip = ip /\ i.endpoint = endpoint /\ i.prefix = prefix
    BY <1>1, <1>3 DEF Typed
  <2>3. type \in {"be", "fe"} => \A i \in IpsOf(x) : i.type # type
    BY <1>3, <2>1, <2>2 DEF CanInsertIp, IpsOn, IpsOf
  <2>4. /\ RowsOK' /\ TypesOnce' /\ Holds(endpoint, x)'
        /\ \E i : /\ IpsOf(x)' \subseteq IpsOf(x) \cup {i}
                  /\ i.ip = ip /\ i.endpoint = endpoint /\ i.prefix = prefix /\ i.type = type
    <3>1. RowsOK /\ TypesOnce
      BY DEF Ready
    <3>2. /\ RowsOK' /\ TypesOnce'
          /\ \A v, y : Holds(v, y) => Holds(v, y)'
          /\ \E i : /\ IpsOf(x)' \subseteq IpsOf(x) \cup {i}
                    /\ i.ip = ip /\ i.endpoint = endpoint /\ i.prefix = prefix /\ i.type = type
      BY <1>3, <2>1, <2>3, <3>1, AddressPut
    <3>3. QED
      BY <2>1, <3>2
  <2>5. SameRow(work'[t], work[t]) => OnCard(t)'
    <3>1. SUFFICES ASSUME SameRow(work'[t], work[t]) PROVE OnCard(t)'
      OBVIOUS
    <3>2. PICK u : u = work[t].used
      OBVIOUS
    <3>3. work'[t].endpoint = endpoint /\ work'[t].server = x /\ work'[t].used = u
      BY <1>3, <3>1, <3>2 DEF SameRow, OnRow
    <3>4. Holds(work[t].endpoint, work[t].server)'
      BY <2>4, <3>3 DEF Holds
    <3>5. \A i \in IpsOf(x)' : i.type \in {"be", "fe"} => i.type \in u
      BY <1>1, <1>3, <2>1, <2>4, <3>2 DEF OnCard, Counted
    <3>6. IpsOf(work[t].server)' = IpsOf(x)'
      BY <3>3 DEF IpsOf
    <3>7. QED
      BY <3>3, <3>4, <3>5, <3>6 DEF OnCard, Counted
  <2>6. CASE Rows!AddressWritten(t)
    <3>1. GoesOn(t)
      BY <2>6, AddressWrittenGoesOn DEF Ready
    <3>2. QED
      BY <2>4, <2>5, <3>1, GoesOnSettles DEF GoesOn
  <2>7. CASE Rows!NoReply(t)
    <3>1. ASSUME UNCHANGED work
          PROVE  CreateTypes(t, "reselect address")'
      <4>1. OnCard(t)'
        BY <2>5, <3>1, WorkIs DEF Ready
      <4>2. \A i \in IpsOf(x)' : i.type \in {"be", "fe"} /\ i.type = type =>
                i.ip = ip /\ i.endpoint = endpoint /\ i.prefix = prefix
        BY <2>2, <2>4
      <4>3. IpsOf(work[t].server)' = IpsOf(x)' /\ Rows!Address(t)' = ip
        BY <1>3, <3>1 DEF IpsOf, Rows!Address
      <4>4. Typed(t)'
        BY <1>3, <2>1, <3>1, <4>2, <4>3 DEF Typed
      <4>5. QED
        BY <4>1, <4>4 DEF CreateTypes, Removing, OnCard
    <3>2. Rows!Again(pc[t]) = "reselect address"
      BY <1>1 DEF Rows!Again
    <3>3. UNCHANGED work => \A p : p = Rows!Again(pc[t]) => CreateTypes(t, p)'
      BY <3>1, <3>2
    <3>4. GoesOn(t) => OnCard(t)'
      BY <2>5 DEF GoesOn
    <3>5. QED
      BY <1>1, <2>4, <2>7, <3>3, <3>4, RowUnansweredSettles
  <2>8. QED
    BY <1>3, <2>6, <2>7
<1>4. ASSUME ~Rows!Conflict(t)
      PROVE  LET ip == Rows!Address(t)
                 prefix == PrefixOf[ip]
             IN /\ CanInsertIp(ip, work[t].endpoint, prefix)
                /\ InsertIp(ip, work[t].endpoint, prefix, work[t].type)
                /\ UNCHANGED <<servers, endpoints>>
                /\ Rows!AddressWritten(t) \/ Rows!NoReply(t)
  BY <1>4 DEF Rows!CreateAddress, Rows!CanInsertIp, CanInsertIp, Rows!InsertIp, InsertIp,
              Rows!IpsOn, IpsOn, Rows!None, None
<1>5. QED
  BY <1>2, <1>3, <1>4

LEMMA ReselectAddressSettles ==
    ASSUME NEW t \in Tasks, Ready(t), Body[t].kind = "create", Rows!ReselectAddress(t),
           UNCHANGED plan
    PROVE  Settles(t)
<1>1. pc[t] = "reselect address" /\ pc[t] \in Late /\ UNCHANGED cmdb /\ Kept
  BY NothingKept DEF Rows!ReselectAddress, Late, Rows!cmdb, cmdb, Ready
<1>2. CASE Rows!AddressWritten(t)
  BY <1>1, <1>2, AddressWrittenGoesOn, WritesSettle DEF Ready
<1>3. CASE GoTo(t, "insert address") /\ UNCHANGED work
  <2>1. Rows!Again("insert address") = "reselect address" /\ "insert address" \in Late
    BY DEF Rows!Again, Late
  <2>2. QED
    BY <1>1, <1>3, <2>1, BackSettles
<1>4. QED
  BY <1>2, <1>3 DEF Rows!ReselectAddress, Rows!Reply, Rows!GoTo, GoTo

LEMMA ResizeSettles ==
    ASSUME NEW t \in Tasks, Ready(t), Body[t].kind = "resize", Rows!Resize(t), UNCHANGED plan
    PROVE  Settles(t)
<1>1. Kept
  <2>1. \E F \in SUBSET {"price", "flavor"} : Rows!Write(t, F)
    BY DEF Rows!Resize, Rows!ResizePrice, Rows!ResizeFlavor
  <2>2. QED
    BY <2>1, WriteUpdates, UpdatesKept DEF Ready
<1>2. RowsOK' /\ TypesOnce' /\ ~IsPort(t)
  BY <1>1, OnceKept DEF Kept, Ready, IsPort
<1>3. CASE Rows!NoReply(t)
  BY <1>2, <1>3, RowUnansweredSettles
<1>4. CASE UNCHANGED work /\ \E p \in {"resize flavor", "acked"} : GoTo(t, p)
  <2>1. PICK p \in {"resize flavor", "acked"} : GoTo(t, p)
    BY <1>4
  <2>2. p \in CallsOf(t) \cup Ended
    BY DEF CallsOf, Ended
  <2>3. QED
    BY <1>2, <1>4, <2>1, <2>2, OthersSettle, WorksKept DEF Ready
<1>5. QED
  BY <1>3, <1>4 DEF Rows!Resize, Rows!ResizePrice, Rows!ResizeFlavor, Rows!Reply,
                    Rows!GoTo, GoTo

LEMMA RowStepSettles ==
    ASSUME NEW t \in Tasks, Ready(t), RowStep(t)
    PROVE  Settles(t)
<1>1. ~IsPort(t) /\ UNCHANGED plan /\ pc[t] \in CallsOf(t)
  BY DEF RowStep, Ready
<1>2. CASE Rows!NotApplied(t)
  BY <1>1, <1>2, NotAppliedSettles DEF Rows!NotApplied, Rows!cmdb, cmdb
<1>3. CASE Rows!Removal(t)
  BY <1>1, <1>3, SelectServersSettles, DeleteVictimSettles DEF Rows!Removal
<1>4. CASE Rows!Resize(t)
  <2>1. Body[t].kind = "resize"
    BY <1>1, <1>4, KindsAre
       DEF Rows!Resize, Rows!ResizePrice, Rows!ResizeFlavor, CallsOf, Removing, Late, IsPort
  <2>2. QED
    BY <1>1, <1>4, <2>1, ResizeSettles
<1>5. CASE Rows!Create(t)
  <2>1. pc[t] \in {"look up", "insert server", "reselect server"} \cup Late
    BY <1>5
       DEF Rows!Create, Rows!LookUp, Rows!CreateServer, Rows!ReselectServer, Rows!WriteBatch,
           Rows!WritePrice, Rows!WriteFlavor, Rows!CreateCard, Rows!ReselectCard,
           Rows!FindPrefix, Rows!CreateAddress, Rows!ReselectAddress, Rows!WriteState, Late
  <2>2. Body[t].kind = "create"
    BY <1>1, <2>1, KindsAre DEF CallsOf, Removing, Late, IsPort
  <2>3. QED
    BY <1>1, <1>5, <2>2, LookUpSettles, CreateServerSettles, ReselectServerSettles,
       WriteFieldsSettle, CreateCardSettles, ReselectCardSettles, CreateFindPrefixSettles,
       CreateAddressSettles, ReselectAddressSettles DEF Rows!Create
<1>6. QED
  BY <1>2, <1>3, <1>4, <1>5 DEF RowStep

-----------------------------------------------------------------------------
(* What a task does on its own instance leaves that of another alone       *)

LEMMA MeddlesIds ==
    ASSUME RowsOK, NEW t \in Tasks, Meddles(t)
    PROVE  /\ serial' \in {serial, serial + 1}
           /\ \A s \in servers' :
                 \/ \E r \in servers : s.id = r.id /\ s.uuid = r.uuid /\ s.hostname = r.hostname
                 \/ /\ Body[t].kind = "create" /\ s.id = serial
                    /\ s.uuid = Body[t].uuid /\ s.hostname = Body[t].hostname
           /\ \A e \in endpoints' :
                 \/ \E d \in endpoints : e.id = d.id /\ e.server = d.server
                 \/ e.id = serial
<1>1. CASE Drops \/ UNCHANGED cmdb
  BY <1>1 DEF Drops, cmdb
<1>2. CASE OwnMac(t)
  <2>1. PICK endpoint, mac : SetMac(endpoint, mac)
    BY <1>2 DEF OwnMac
  <2>2. DEFINE new == [e \in endpoints |->
                          [id |-> e.id, server |-> e.server, name |-> e.name,
                           mac |-> IF e.id = endpoint THEN mac ELSE e.mac]]
  <2>3. /\ endpoints' = {new[e] : e \in endpoints}
        /\ \A e \in endpoints : new[e].id = e.id /\ new[e].server = e.server
    BY <2>1 DEF SetMac
  <2>4. HIDE DEF new
  <2>5. QED
    BY <1>2, <2>3 DEF OwnMac
<1>3. CASE PutsEndpoint(t)
  BY <1>3 DEF PutsEndpoint, InsertEndpoint
<1>4. CASE PutsIp(t)
  BY <1>4 DEF PutsIp, InsertIp
<1>5. CASE Body[t].kind = "create" /\ PutsServer(t)
  BY <1>5 DEF PutsServer
<1>6. CASE \E F : Updates(t, F)
  BY <1>6 DEF Updates, Renews
<1>7. QED
  BY <1>1, <1>2, <1>3, <1>4, <1>5, <1>6 DEF Meddles

\* The rows a task knows by their ids stay where they were.
LEMMA IdsStay ==
    ASSUME RowsOK, NEW t \in Tasks, Meddles(t), NEW u \in Tasks, NEW x, NEW y
    PROVE  /\ OwnServer(u, x) => OwnServer(u, x)'
           /\ Holds(x, y) => Holds(x, y)'
<1>1. x \in 0 .. serial - 1 => x \in 0 .. serial' - 1 /\ x # serial
  BY MeddlesIds DEF RowsOK
<1>2. OwnServer(u, x) => OwnServer(u, x)'
  BY <1>1, MeddlesIds DEF OwnServer
<1>3. Holds(x, y) => Holds(x, y)'
  BY <1>1, MeddlesIds DEF Holds
<1>4. QED
  BY <1>2, <1>3

LEMMA JoinedStays ==
    ASSUME RowsJoined, NEW t \in Tasks, Meddles(t)
    PROVE  RowsJoined'
<1>1. CASE Drops \/ UNCHANGED cmdb
  BY <1>1 DEF Drops, RowsJoined, cmdb
<1>2. CASE OwnMac(t)
  <2>1. PICK endpoint, mac : SetMac(endpoint, mac)
    BY <1>2 DEF OwnMac
  <2>2. DEFINE new == [e \in endpoints |->
                          [id |-> e.id, server |-> e.server, name |-> e.name,
                           mac |-> IF e.id = endpoint THEN mac ELSE e.mac]]
  <2>3. /\ endpoints' = {new[e] : e \in endpoints}
        /\ \A e \in endpoints : new[e].id = e.id /\ new[e].server = e.server
    BY <2>1 DEF SetMac
  <2>4. HIDE DEF new
  <2>5. QED
    BY <1>2, <2>3 DEF OwnMac, RowsJoined
<1>3. CASE PutsEndpoint(t)
  <2>1. PICK server, e : /\ \E s \in servers : s.id = server
                         /\ e.server = server /\ endpoints' = endpoints \cup {e}
                         /\ UNCHANGED <<servers, ips>>
    BY <1>3 DEF PutsEndpoint, InsertEndpoint
  <2>2. QED
    BY <2>1 DEF RowsJoined
<1>4. CASE PutsIp(t)
  <2>1. PICK endpoint, i : /\ \E e \in endpoints : e.id = endpoint
                           /\ i.endpoint = endpoint /\ ips' = ips \cup {i}
                           /\ UNCHANGED <<servers, endpoints>>
    BY <1>4 DEF PutsIp, InsertIp
  <2>2. QED
    BY <2>1 DEF RowsJoined
<1>5. CASE PutsServer(t)
  BY <1>5 DEF PutsServer, RowsJoined
<1>6. ASSUME NEW F, Updates(t, F)
      PROVE  RowsJoined'
  <2>1. PICK new : servers' = {new[s] : s \in servers} /\ \A s \in servers : new[s].id = s.id
    BY <1>6 DEF Updates, Renews
  <2>2. QED
    BY <1>6, <2>1 DEF Updates, RowsJoined
<1>7. QED
  BY <1>1, <1>2, <1>3, <1>4, <1>5, <1>6 DEF Meddles

\* A hostname goes to a new row only from the create of its message.
LEMMA HostOwnStays ==
    ASSUME RowsOK, NEW t \in Tasks, Meddles(t), NEW u \in Tasks, HostOwn(u),
           Body[t].kind = "create" =>
               Body[t].uuid = Body[u].uuid \/ Body[t].hostname # Body[u].hostname
    PROVE  HostOwn(u)'
BY MeddlesIds DEF HostOwn

\* What t and u are to each other while WritersApart.
Apart(t, u) ==
    {Body[t].kind, Body[u].kind} \subseteq {"create", "attach"} =>
        /\ Body[t].uuid # Body[u].uuid
        /\ {Body[t].kind, Body[u].kind} = {"create"} => Body[t].hostname # Body[u].hostname

\* Nothing is put on a server of u, and no mac changes there.
LEMMA SparesOwn ==
    ASSUME RowsOK, RowsJoined, NEW t \in Tasks, Meddles(t), NEW u \in Tasks, Apart(t, u),
           Body[u].kind \in {"create", "attach"}, NEW x, OwnServer(u, x)
    PROVE  /\ \A e \in endpoints' : e.server = x =>
                 \E d \in endpoints : /\ d.server = x /\ d.id = e.id
                                      /\ d.name = e.name /\ d.mac = e.mac
           /\ IpsOf(x)' \subseteq IpsOf(x)
<1>1. CASE Drops \/ UNCHANGED cmdb
  BY <1>1 DEF Drops, cmdb, IpsOf
<1>2. CASE \/ Body[t].kind = "create" /\ PutsServer(t)
           \/ \E F : Updates(t, F)
  BY <1>2 DEF PutsServer, Updates, IpsOf
<1>3. ASSUME Body[t].kind \in {"attach", "create"}
      PROVE  Body[t].uuid # Body[u].uuid
  BY <1>3 DEF Apart
<1>4. CASE Body[t].kind = "attach" /\ OwnMac(t)
  <2>1. PICK endpoint, mac : OwnEndpoint(t, endpoint) /\ SetMac(endpoint, mac)
    BY <1>4 DEF OwnMac
  <2>2. DEFINE new == [e \in endpoints |->
                          [id |-> e.id, server |-> e.server, name |-> e.name,
                           mac |-> IF e.id = endpoint THEN mac ELSE e.mac]]
  <2>3. ASSUME NEW e \in endpoints, e.server = x
        PROVE  e.id # endpoint
    <3>1. PICK s \in servers : s.id = e.server
      BY DEF RowsJoined
    <3>2. s.uuid = Body[u].uuid
      BY <2>3, <3>1 DEF OwnServer
    <3>3. e.id = endpoint => s.uuid = Body[t].uuid
      BY <2>1, <3>1 DEF OwnEndpoint
    <3>4. QED
      BY <1>3, <1>4, <3>2, <3>3
  <2>4. UNCHANGED ips /\ endpoints' = {new[e] : e \in endpoints}
    BY <1>4, <2>1 DEF SetMac, OwnMac
  <2>5. \A e \in endpoints : new[e].id = e.id /\ new[e].server = e.server
    OBVIOUS
  <2>6. \A e \in endpoints : e.server = x => new[e].name = e.name /\ new[e].mac = e.mac
    BY <2>3
  <2> HIDE DEF new
  <2>7. QED
    BY <2>4, <2>5, <2>6 DEF IpsOf
<1>5. CASE Body[t].kind \in {"attach", "create"} /\ PutsEndpoint(t)
  <2>1. PICK server, e : /\ OwnServer(t, server) /\ \E s \in servers : s.id = server
                         /\ e.server = server /\ e.id = serial /\ endpoints' = endpoints \cup {e}
                         /\ UNCHANGED <<servers, ips>>
    BY <1>5 DEF PutsEndpoint, InsertEndpoint
  <2>2. server # x
    BY <1>3, <1>5, <2>1 DEF OwnServer
  <2>3. QED
    BY <2>1, <2>2 DEF IpsOf
<1>6. CASE Body[t].kind \in {"attach", "create"} /\ PutsIp(t)
  <2>1. PICK endpoint, i : /\ OwnEndpoint(t, endpoint)
                           /\ i.endpoint = endpoint /\ ips' = ips \cup {i}
                           /\ UNCHANGED <<servers, endpoints>>
    BY <1>6 DEF PutsIp, InsertIp
  <2>2. \A e \in endpoints : e.server = x => e.id # endpoint
    <3>1. SUFFICES ASSUME NEW e \in endpoints, e.server = x, e.id = endpoint PROVE FALSE
      OBVIOUS
    <3>2. PICK s \in servers : s.id = e.server
      BY DEF RowsJoined
    <3>3. s.uuid = Body[u].uuid /\ s.uuid = Body[t].uuid
      BY <2>1, <3>1, <3>2 DEF OwnServer, OwnEndpoint
    <3>4. QED
      BY <1>3, <1>6, <3>3
  <2>3. QED
    BY <2>1, <2>2 DEF IpsOf
<1>7. QED
  BY <1>1, <1>2, <1>4, <1>5, <1>6 DEF Meddles

\* What another task knows of its rows it still knows.
LEMMA TypesKept ==
    ASSUME RowsOK, RowsJoined, NEW t \in Tasks, Meddles(t), NEW u \in Tasks, Apart(t, u),
           NEW c, TypesAt(u, c), OwnAt(u, c), plan'[u] = plan[u], work'[u] = work[u]
    PROVE  TypesAt(u, c)' /\ OwnAt(u, c)'
<1>1. CASE Body[u].kind = "attach"
  <2>1. SUFFICES ASSUME c \in Attaching PROVE AttachTypes(u, c)' /\ OwnServer(u, plan[u].server)'
    BY <1>1 DEF TypesAt, OwnAt, AttachTypes
  <2>2. PICK x, e : x = plan[u].server /\ e = plan[u].endpoint
    OBVIOUS
  <2>3. /\ Holds(e, x) /\ OwnServer(u, x)
        /\ \A i \in IpsOf(x) : i.type \in {"be", "fe"} =>
              \/ i.type \in plan[u].used
              \/ /\ c \in {"insert ip", "reselect ip"}
                 /\ i.ip = Body[u].ip /\ i.endpoint = e /\ i.prefix = plan[u].prefix
    BY <1>1, <2>1, <2>2 DEF TypesAt, OwnAt, AttachTypes
  <2>4. Holds(e, x)' /\ OwnServer(u, x)'
    BY <2>3, IdsStay
  <2>5. IpsOf(x)' \subseteq IpsOf(x)
    BY <1>1, <2>3, SparesOwn
  <2>6. Holds(plan[u].endpoint, plan[u].server)' /\ OwnServer(u, plan[u].server)'
    BY <2>2, <2>4 DEF Holds, OwnServer
  <2>7. IpsOf(plan[u].server)' = IpsOf(x)'
    BY <2>2 DEF IpsOf
  <2>8. QED
    BY <2>2, <2>3, <2>5, <2>6, <2>7 DEF AttachTypes
<1>2. CASE Body[u].kind = "create"
  <2> DEFINE w == work[u]
  <2>1. CreateTypes(u, c) /\ OwnAt(u, c)
    BY <1>2 DEF TypesAt
  <2>2. Body[t].kind = "create" =>
            Body[t].uuid # Body[u].uuid /\ Body[t].hostname # Body[u].hostname
    BY <1>2 DEF Apart
  <2>3. c = "delete server" =>
            \A s \in servers' : s.hostname = Body[u].hostname => s.id \in work'[u].victims
    BY <2>1, <2>2, MeddlesIds DEF CreateTypes
  <2>4. c \in {"insert server", "reselect server"} => HostOwn(u)'
    BY <1>2, <2>1, <2>2, HostOwnStays DEF OwnAt
  <2>5. c \in {"insert server", "reselect server"} => Bare(u)'
    <3>1. SUFFICES ASSUME Bare(u), HostOwn(u), NEW s \in servers', NEW e \in endpoints',
                          s.hostname = Body[u].hostname, e.server = s.id
                   PROVE  FALSE
      BY <1>2, <2>1 DEF Bare, CreateTypes, OwnAt
    <3>2. PICK r \in servers : s.id = r.id /\ s.uuid = r.uuid /\ s.hostname = r.hostname
      BY <2>2, <3>1, MeddlesIds
    <3>3. r.id \in 0 .. serial - 1 /\ \A q \in servers : q.id = r.id => q = r
      BY DEF RowsOK
    <3>4. PICK x : x = r.id
      OBVIOUS
    <3>5. OwnServer(u, x)
      BY <3>1, <3>2, <3>3, <3>4 DEF HostOwn, OwnServer
    <3>6. PICK d \in endpoints : d.server = x
      BY <1>2, <3>1, <3>2, <3>4, <3>5, SparesOwn
    <3>7. QED
      BY <3>1, <3>2, <3>4, <3>6 DEF Bare
  <2>6. ASSUME c \in Late
        PROVE  /\ Holds(work[u].endpoint, work[u].server)' /\ OwnServer(u, work[u].server)'
               /\ Counted(u)' /\ (Typed(u) => Typed(u)')
    <3>1. PICK x, e : x = work[u].server /\ e = work[u].endpoint
      OBVIOUS
    <3>2. Holds(e, x) /\ OwnServer(u, x) /\ Counted(u)
      BY <1>2, <2>1, <2>6, <3>1 DEF CreateTypes, OwnAt
    <3>3. Holds(e, x)' /\ OwnServer(u, x)' /\ IpsOf(x)' \subseteq IpsOf(x)
      BY <1>2, <3>2, IdsStay, SparesOwn
    <3>4. Holds(work[u].endpoint, work[u].server)' /\ OwnServer(u, work[u].server)'
      BY <3>1, <3>3 DEF Holds, OwnServer
    <3>5. IpsOf(work[u].server)' = IpsOf(x)' /\ IpsOf(work[u].server) = IpsOf(x)
      BY <3>1 DEF IpsOf
    <3>6. Counted(u)'
      BY <3>2, <3>3, <3>5 DEF Counted
    <3>7. Rows!Address(u)' = Rows!Address(u)
      BY DEF Rows!Address
    <3>8. Typed(u) => Typed(u)'
      BY <3>3, <3>5, <3>7 DEF Typed
    <3>9. QED
      BY <3>4, <3>6, <3>8
  <2>7. CreateTypes(u, c)'
    <3>1. c \in {"insert address", "reselect address"} => c \in Late
      BY DEF Late
    <3>2. QED
      BY <2>1, <2>3, <2>5, <2>6, <3>1 DEF CreateTypes
  <2>8. OwnAt(u, c)'
    BY <1>2, <2>4, <2>6 DEF OwnAt
  <2>9. QED
    BY <1>2, <2>7, <2>8 DEF TypesAt
<1>3. CASE Body[u].kind \notin {"attach", "create"}
  BY <1>3 DEF TypesAt, OwnAt
<1>4. QED
  BY <1>1, <1>2, <1>3

-----------------------------------------------------------------------------
(* What the step of a task does to its own instance                        *)

\* What is known when t makes its call, its own rows included.
Owning(t) == Ready(t) /\ RowsJoined /\ OwnAt(t, pc[t])

LEMMA OwnOnServer ==
    ASSUME RowsOK, NEW t \in Tasks, NEW x, NEW y, Holds(x, y), OwnServer(t, y)
    PROVE  OwnEndpoint(t, x)
BY DEF Holds, OwnServer, OwnEndpoint

LEMMA AttachOwns ==
    ASSUME NEW t \in Tasks, Owning(t), Body[t].kind = "attach", pc[t] \in Attaching
    PROVE  /\ Holds(plan[t].endpoint, plan[t].server) /\ OwnServer(t, plan[t].server)
           /\ OwnEndpoint(t, plan[t].endpoint)
<1>1. Holds(plan[t].endpoint, plan[t].server) /\ OwnServer(t, plan[t].server)
  BY DEF Owning, Ready, TypesAt, AttachTypes, OwnAt
<1>2. QED
  BY <1>1, OwnOnServer DEF Owning, Ready

LEMMA CreateOwns ==
    ASSUME NEW t \in Tasks, Owning(t), Body[t].kind = "create", pc[t] \in Late
    PROVE  /\ Holds(work[t].endpoint, work[t].server) /\ OwnServer(t, work[t].server)
           /\ OwnEndpoint(t, work[t].endpoint)
<1>1. Holds(work[t].endpoint, work[t].server) /\ OwnServer(t, work[t].server)
  BY DEF Owning, Ready, TypesAt, CreateTypes, OwnAt
<1>2. QED
  BY <1>1, OwnOnServer DEF Owning, Ready

LEMMA AttachMeddles ==
    ASSUME NEW t \in Tasks, Owning(t), Body[t].kind = "attach", Ports!Attach(t)
    PROVE  Meddles(t)
<1>1. CASE UNCHANGED cmdb
  BY <1>1 DEF Meddles
<1>2. CASE Ports!UpdateEndpoint(t)
  <2>1. OwnEndpoint(t, plan[t].endpoint)
    BY <1>2, AttachOwns DEF Ports!UpdateEndpoint, Attaching
  <2>2. CASE plan[t].fill
    <3>1. \A endpoint, mac : Ports!SetMac(endpoint, mac) <=> SetMac(endpoint, mac)
      BY DEF Ports!SetMac, SetMac
    <3>2. SetMac(plan[t].endpoint, Body[t].mac) /\ UNCHANGED <<servers, ips, serial>>
      BY <1>2, <2>2, <3>1 DEF Ports!UpdateEndpoint
    <3>3. QED
      BY <2>1, <3>2 DEF Meddles, OwnMac
  <2>3. CASE ~plan[t].fill
    BY <1>1, <1>2, <2>3 DEF Ports!UpdateEndpoint, cmdb
  <2>4. QED
    BY <2>2, <2>3
<1>3. ASSUME pc[t] = "insert endpoint", CanInsertEndpoint(plan[t].server, plan[t].name),
             InsertEndpoint(plan[t].server, plan[t].name, Body[t].mac), UNCHANGED <<servers, ips>>
      PROVE  Meddles(t)
  <2>1. OwnServer(t, plan[t].server)
    BY <1>3, AttachOwns DEF Attaching
  <2>2. PutsEndpoint(t)
    BY <1>3, <2>1 DEF PutsEndpoint, CanInsertEndpoint
  <2>3. QED
    BY <2>2 DEF Meddles
<1>4. ASSUME pc[t] = "insert ip", NEW type, CanInsertIp(Body[t].ip, plan[t].endpoint, plan[t].prefix),
             InsertIp(Body[t].ip, plan[t].endpoint, plan[t].prefix, type),
             UNCHANGED <<servers, endpoints>>
      PROVE  Meddles(t)
  <2>1. OwnEndpoint(t, plan[t].endpoint)
    BY <1>4, AttachOwns DEF Attaching
  <2>2. PutsIp(t)
    BY <1>4, <2>1 DEF PutsIp, CanInsertIp
  <2>3. QED
    BY <2>2 DEF Meddles
<1>5. CASE Ports!CreateEndpoint(t)
  BY <1>1, <1>3, <1>5
     DEF Ports!CreateEndpoint, Ports!CanInsertEndpoint, CanInsertEndpoint, Ports!EndpointsOf,
         EndpointsOf, Ports!InsertEndpoint, InsertEndpoint, Ports!cmdb, cmdb
<1>6. CASE Ports!CreateIp(t)
  BY <1>1, <1>4, <1>6
     DEF Ports!CreateIp, Ports!CanInsertIp, CanInsertIp, Ports!IpsOn, IpsOn, Ports!None, None,
         Ports!InsertIp, InsertIp, Ports!cmdb, cmdb
<1>7. QED
  BY <1>1, <1>2, <1>5, <1>6
     DEF Ports!Attach, Ports!SelectServer, Ports!FindAttachedIp, Ports!FindPrefix,
         Ports!ReselectAttached, Ports!ReselectName, Ports!ReselectIp, Ports!cmdb, cmdb

LEMMA PortStepMeddles ==
    ASSUME NEW t \in Tasks, Owning(t), PortStep(t)
    PROVE  Meddles(t)
<1>1. CASE Ports!Unreachable(t) \/ Ports!Refuses(t)
  BY <1>1 DEF Ports!Unreachable, Ports!Refuses, Ports!cmdb, cmdb, Meddles
<1>2. CASE Ports!Attach(t)
  <2>1. Body[t].kind = "attach"
    BY <1>2
       DEF PortStep, Owning, Ready, Ports!Attach, CallsOf, IsPort, Ports!SelectServer,
           Ports!FindAttachedIp, Ports!FindPrefix, Ports!UpdateEndpoint, Ports!CreateEndpoint,
           Ports!ReselectAttached, Ports!ReselectName, Ports!CreateIp, Ports!ReselectIp
  <2>2. QED
    BY <1>2, <2>1, AttachMeddles
<1>3. CASE Ports!DeleteIp(t)
  BY <1>3 DEF Ports!DeleteIp, Meddles, Drops, RowsJoined, Owning
<1>4. CASE Ports!DeleteEndpoints(t)
  <2>1. /\ endpoints' \subseteq endpoints /\ UNCHANGED <<servers, ips, serial>>
        /\ \A e \in endpoints : e \in endpoints' \/ \A i \in ips : i.endpoint # e.id
    BY <1>4 DEF Ports!DeleteEndpoints, Ports!EmptyEndpoints, Ports!IpsOn
  <2>2. RowsJoined'
    BY <2>1 DEF RowsJoined, Owning
  <2>3. QED
    BY <2>1, <2>2 DEF Meddles, Drops
<1>5. QED
  BY <1>1, <1>2, <1>3, <1>4 DEF PortStep, Ports!Detach

LEMMA RowStepMeddles ==
    ASSUME NEW t \in Tasks, Owning(t), RowStep(t)
    PROVE  Meddles(t)
<1>1. CASE UNCHANGED cmdb
  BY <1>1 DEF Meddles
<1>2. CASE Rows!DeleteVictim(t)
  <2>1. PICK v : DeleteServer(v) /\ UNCHANGED serial
    BY <1>2 DEF Rows!DeleteVictim, Rows!DeleteServer, DeleteServer, Rows!EndpointsOf, EndpointsOf
  <2>2. RowsJoined'
    BY <2>1 DEF RowsJoined, DeleteServer, EndpointsOf, Owning
  <2>3. QED
    BY <2>1, <2>2 DEF Meddles, Drops, DeleteServer
<1>3. ASSUME Body[t].kind = "create", Rows!CreateServer(t)
      PROVE  Meddles(t)
  <2>1. PICK s : s = [id |-> serial, uuid |-> Body[t].uuid, hostname |-> Body[t].hostname,
                      raw_info |-> t, state |-> "setup",
                      fields |-> [f \in Rows!Fields |-> Rows!None]]
    OBVIOUS
  <2>2. \/ UNCHANGED cmdb
        \/ servers' = servers \cup {s} /\ serial' = serial + 1 /\ UNCHANGED <<endpoints, ips>>
    BY <1>3, <2>1 DEF Rows!CreateServer, Rows!Conflict, Rows!cmdb, cmdb
  <2>3. IsServer(s) /\ s.id = serial /\ s.uuid = Body[t].uuid /\ s.hostname = Body[t].hostname
    BY <2>1 DEF IsServer
  <2>4. QED
    BY <1>1, <1>3, <2>2, <2>3 DEF Meddles, PutsServer
<1>4. CASE \E F \in SUBSET {"price", "flavor"} : Rows!Write(t, F)
  BY <1>4, WriteUpdates DEF Meddles, Owning, Ready
<1>5. ASSUME Body[t].kind = "create", Rows!WriteState(t)
      PROVE  Meddles(t)
  BY <1>5, StateUpdates DEF Meddles, Owning, Ready
<1>6. ASSUME Body[t].kind = "create", pc[t] = "insert card", NEW name, NEW mac,
             CanInsertEndpoint(work[t].server, name), InsertEndpoint(work[t].server, name, mac),
             UNCHANGED <<servers, ips>>
      PROVE  Meddles(t)
  <2>1. OwnServer(t, work[t].server)
    BY <1>6, CreateOwns DEF Late
  <2>2. PutsEndpoint(t)
    BY <1>6, <2>1 DEF PutsEndpoint, CanInsertEndpoint
  <2>3. QED
    BY <1>6, <2>2 DEF Meddles
<1>7. ASSUME Body[t].kind = "create", pc[t] = "insert address", NEW ip, NEW prefix, NEW type,
             CanInsertIp(ip, work[t].endpoint, prefix),
             InsertIp(ip, work[t].endpoint, prefix, type), UNCHANGED <<servers, endpoints>>
      PROVE  Meddles(t)
  <2>1. OwnEndpoint(t, work[t].endpoint)
    BY <1>7, CreateOwns DEF Late
  <2>2. PutsIp(t)
    BY <1>7, <2>1 DEF PutsIp, CanInsertIp
  <2>3. QED
    BY <1>7, <2>2 DEF Meddles
<1>8. ASSUME Body[t].kind = "create", Rows!CreateCard(t)
      PROVE  Meddles(t)
  BY <1>1, <1>6, <1>8
     DEF Rows!CreateCard, Rows!CanInsertEndpoint, CanInsertEndpoint, Rows!EndpointsOf,
         EndpointsOf, Rows!InsertEndpoint, InsertEndpoint, Rows!Conflict, Rows!cmdb, cmdb
<1>9. ASSUME Body[t].kind = "create", Rows!CreateAddress(t)
      PROVE  Meddles(t)
  <2>1. \/ UNCHANGED cmdb
        \/ LET ip == Rows!Address(t)
               prefix == PrefixOf[ip]
           IN /\ CanInsertIp(ip, work[t].endpoint, prefix)
              /\ InsertIp(ip, work[t].endpoint, prefix, work[t].type)
              /\ UNCHANGED <<servers, endpoints>>
    BY <1>9
       DEF Rows!CreateAddress, Rows!CanInsertIp, CanInsertIp, Rows!IpsOn, IpsOn, Rows!None,
           None, Rows!InsertIp, InsertIp, Rows!Conflict, Rows!cmdb, cmdb
  <2>2. pc[t] = "insert address"
    BY <1>9 DEF Rows!CreateAddress
  <2>3. QED
    BY <1>1, <1>7, <1>9, <2>1, <2>2
<1>10. Rows!Create(t) => Body[t].kind = "create"
  <2>1. Rows!Create(t) => pc[t] \in {"look up", "insert server", "reselect server"} \cup Late
    BY DEF Rows!Create, Rows!LookUp, Rows!CreateServer, Rows!ReselectServer, Rows!WriteBatch,
           Rows!WritePrice, Rows!WriteFlavor, Rows!CreateCard, Rows!ReselectCard,
           Rows!FindPrefix, Rows!CreateAddress, Rows!ReselectAddress, Rows!WriteState, Late
  <2>2. ~IsPort(t) /\ pc[t] \in CallsOf(t)
    BY DEF RowStep, Owning, Ready
  <2>3. QED
    BY <2>1, <2>2, KindsAre DEF CallsOf, Removing, Late, IsPort
<1>11. CASE Rows!Create(t)
  BY <1>1, <1>3, <1>4, <1>5, <1>8, <1>9, <1>10, <1>11
     DEF Rows!Create, Rows!LookUp, Rows!ReselectServer, Rows!WriteBatch, Rows!WritePrice,
         Rows!WriteFlavor, Rows!Fields, Rows!ReselectCard, Rows!FindPrefix,
         Rows!ReselectAddress, Rows!cmdb, cmdb
<1>12. CASE Rows!Resize(t)
  BY <1>4, <1>12 DEF Rows!Resize, Rows!ResizePrice, Rows!ResizeFlavor
<1>13. CASE Rows!NotApplied(t) \/ Rows!SelectServers(t)
  BY <1>1, <1>13 DEF Rows!NotApplied, Rows!SelectServers, Rows!cmdb, cmdb
<1>14. QED
  BY <1>2, <1>11, <1>12, <1>13 DEF RowStep, Rows!Removal

\* Where the plan of an attach says its server is.
LEMMA PlanServerStays ==
    ASSUME NEW t \in Tasks, CarriedOK, pc[t] \in CallsOf(t), Body[t].kind = "attach", PortStep(t),
           ~Ports!SelectServer(t)
    PROVE  /\ plan'[t].server = plan[t].server
           /\ pc'[t] \in Attaching => pc[t] \in Attaching
<1>1. \/ UNCHANGED plan
      \/ \E p : plan' = [plan EXCEPT ![t].endpoint = p]
      \/ \E p : plan' = [plan EXCEPT ![t].prefix = p]
  BY DEF PortStep, Ports!Unreachable, Ports!Refuses, Ports!NoReply, Ports!Attach,
         Ports!FindAttachedIp, Ports!FindPrefix, Ports!UpdateEndpoint, Ports!CreateEndpoint,
         Ports!ReselectAttached, Ports!ReselectName, Ports!CreateIp, Ports!ReselectIp,
         Ports!Detach, Ports!DeleteIp, Ports!DeleteEndpoints
<1>2. plan'[t].server = plan[t].server
  BY <1>1, EndpointPlanned, PrefixPlanned
<1>3. \/ pc[t] \in Attaching
      \/ Ports!NoReply(t)
      \/ Ports!Refuses(t)
  BY DEF PortStep, Ports!Unreachable, Ports!Attach, Ports!FindAttachedIp,
         Ports!FindPrefix, Ports!UpdateEndpoint, Ports!CreateEndpoint, Ports!ReselectAttached,
         Ports!ReselectName, Ports!CreateIp, Ports!ReselectIp, Attaching,
         Ports!Detach, Ports!DeleteIp, Ports!DeleteEndpoints, CallsOf
<1>4. CASE Ports!NoReply(t)
  <2>1. PICK p \in {Ports!Again(pc[t]), Ports!FirstCall(t), "dead"} : GoTo(t, p)
    BY <1>4, PortUnanswered
  <2>2. p \in Attaching => pc[t] \in Attaching
    BY <2>1, PortCalls DEF Attaching
  <2>3. pc'[t] = p
    BY <2>1, Going
  <2>4. QED
    BY <1>2, <2>2, <2>3
<1>5. CASE Ports!Refuses(t)
  <2>1. GoTo(t, "dead")
    BY <1>5 DEF Ports!Refuses, Ports!Refused, Ports!GoTo, GoTo
  <2>2. pc'[t] = "dead"
    BY <2>1, Going
  <2>3. QED
    BY <1>2, <2>2 DEF Attaching
<1>6. QED
  BY <1>2, <1>3, <1>4, <1>5

LEMMA PortStepOwns ==
    ASSUME NEW t \in Tasks, Owning(t), PortStep(t)
    PROVE  OwnAt(t, pc[t])'
<1>1. CASE Body[t].kind # "attach"
  BY <1>1, KindsAre DEF OwnAt, PortStep, IsPort
<1>2. ASSUME Body[t].kind = "attach", ~Ports!SelectServer(t), pc'[t] \in Attaching
      PROVE  OwnServer(t, plan[t].server)'
  <2>1. plan'[t].server = plan[t].server /\ pc[t] \in Attaching
    BY <1>2, PlanServerStays DEF Owning, Ready
  <2>2. PICK x : x = plan[t].server
    OBVIOUS
  <2>3. OwnServer(t, x)
    BY <1>2, <2>1, <2>2, AttachOwns
  <2>4. OwnServer(t, x)'
    BY <2>3, IdsStay, PortStepMeddles DEF Owning, Ready
  <2>5. QED
    BY <2>1, <2>2, <2>4 DEF OwnServer
<1>3. ASSUME Body[t].kind = "attach", Ports!SelectServer(t), pc'[t] \in Attaching
      PROVE  OwnServer(t, plan[t].server)'
  <2>1. UNCHANGED cmdb
    BY <1>3 DEF Ports!SelectServer, Ports!cmdb, cmdb
  <2>2. ~Ports!Reply(t, "acked")
    <3>1. Ports!Reply(t, "acked") => GoTo(t, "acked")
      BY DEF Ports!Reply, Ports!GoTo, GoTo
    <3>2. GoTo(t, "acked") => pc'[t] = "acked"
      BY Going DEF Owning, Ready
    <3>3. QED
      BY <1>3, <3>1, <3>2 DEF Attaching
  <2>3. PICK s \in servers : s.uuid = Body[t].uuid /\ Ports!Plan(t, s.id)
    BY <1>3, <2>2 DEF Ports!SelectServer, Ports!ServersOf
  <2>4. PICK e, f, n, u :
            plan' = [plan EXCEPT ![t] = [server |-> s.id, endpoint |-> e, fill |-> f,
                                         name |-> n, used |-> u, prefix |-> Ports!None]]
    <3> DEFINE cards == Ports!EndpointsOf(s.id)
               usable == Ports!Usable(Body[t].mac, cards)
               ff == Body[t].mac # Ports!None /\ \A c \in cards : c.mac # Body[t].mac
               nn == Ports!next_bond_name({c.name : c \in cards})
               uu == {i.type : i \in {j \in ips : \E c \in cards : j.endpoint = c.id}}
    <3>1. PICK e \in IF usable # {} THEN {c.id : c \in usable} ELSE {Ports!NoRow} :
             plan' = [plan EXCEPT ![t] = [server |-> s.id, endpoint |-> e, fill |-> ff,
                                          name |-> nn, used |-> uu, prefix |-> Ports!None]]
      BY <2>3 DEF Ports!Plan
    <3>2. QED
      BY <3>1
  <2>5. PICK x : x = s.id
    OBVIOUS
  <2>6. plan'[t].server = x
    <3>1. PICK new : new = [server |-> x, endpoint |-> e, fill |-> f,
                            name |-> n, used |-> u, prefix |-> Ports!None]
      OBVIOUS
    <3>2. IsPlan(new) /\ new.server = x
      BY <3>1 DEF IsPlan
    <3>3. plan' = [plan EXCEPT ![t] = new]
      BY <2>4, <2>5, <3>1
    <3>4. QED
      BY <3>2, <3>3, PlanCarried DEF Owning, Ready
  <2>7. OwnServer(t, x)
    <3>1. s.id \in 0 .. serial - 1 /\ \A r \in servers : r.id = s.id => r = s
      BY DEF Owning, Ready, RowsOK
    <3>2. QED
      BY <2>3, <2>5, <3>1 DEF OwnServer
  <2>8. QED
    BY <2>1, <2>6, <2>7 DEF OwnServer, cmdb
<1>4. QED
  BY <1>1, <1>2, <1>3 DEF OwnAt

\* A step of create from which its row is the one it was, or one it has found.
LEMMA CreateOwnsOn ==
    ASSUME NEW t \in Tasks, Owning(t), Meddles(t), Body[t].kind = "create", NEW p, GoTo(t, p),
           p \in {"insert server", "reselect server"} =>
               \/ pc[t] \in {"insert server", "reselect server"}
               \/ \A s \in servers' : s.hostname # Body[t].hostname,
           p \in Late => /\ pc[t] \in Late /\ work'[t].server = work[t].server
    PROVE  OwnAt(t, pc[t])'
<1>1. pc'[t] = p
  BY Going DEF Owning, Ready
<1>2. p \in {"insert server", "reselect server"} => HostOwn(t)'
  BY HostOwnStays DEF Owning, Ready, OwnAt, HostOwn
<1>3. ASSUME p \in Late
      PROVE  OwnServer(t, work[t].server)'
  <2>1. PICK x : x = work[t].server
    OBVIOUS
  <2>2. OwnServer(t, x)
    BY <1>3, <2>1, CreateOwns
  <2>3. OwnServer(t, x)'
    BY <2>2, IdsStay DEF Owning, Ready
  <2>4. QED
    BY <1>3, <2>1, <2>3 DEF OwnServer
<1>4. QED
  BY <1>1, <1>2, <1>3 DEF OwnAt

LEMMA ReportedOwns ==
    ASSUME NEW t \in Tasks, Owning(t), Meddles(t), Body[t].kind = "create", Reported(t)
    PROVE  OwnAt(t, pc[t])'
<1>1. \A p \in {"dead", "acked"} : GoTo(t, p) => OwnAt(t, pc[t])'
  BY CreateOwnsOn DEF Late
<1>2. CASE pc[t] \in Plain \cup {"insert address"} /\ GoesOn(t)
  <2>1. PICK p \in Plain : GoTo(t, p)
    BY <1>2 DEF GoesOn
  <2>2. pc[t] \in Late /\ p \notin {"insert server", "reselect server"}
    BY <1>2, <2>1 DEF Plain, Late
  <2>3. work'[t].server = work[t].server
    BY <1>2 DEF GoesOn, SameRow, OnRow
  <2>4. QED
    BY <2>1, <2>2, <2>3, CreateOwnsOn
<1>3. QED
  BY <1>1, <1>2 DEF Reported

LEMMA NoReplyOwns ==
    ASSUME NEW t \in Tasks, Owning(t), Meddles(t), Body[t].kind = "create", Rows!NoReply(t)
    PROVE  OwnAt(t, pc[t])'
<1>1. NoAnswer(t)
  BY NoReplyMoves DEF Owning, Ready
<1>2. CASE UNCHANGED work /\ \E p \in {Rows!Again(pc[t]), Rows!FirstCall(t), "dead"} : GoTo(t, p)
  <2>1. PICK p \in {Rows!Again(pc[t]), Rows!FirstCall(t), "dead"} : GoTo(t, p)
    BY <1>2
  <2>2. /\ p \in {"insert server", "reselect server"} => pc[t] \in {"insert server", "reselect server"}
        /\ p \in Late => pc[t] \in Late
    BY <2>1, RowCalls DEF Owning, Ready, Late
  <2>3. QED
    BY <1>2, <2>1, <2>2, CreateOwnsOn
<1>3. QED
  BY <1>1, <1>2, ReportedOwns DEF NoAnswer

LEMMA GoesOnOwns ==
    ASSUME NEW t \in Tasks, Owning(t), Meddles(t), Body[t].kind = "create", pc[t] \in Late,
           GoesOn(t)
    PROVE  OwnAt(t, pc[t])'
<1>1. PICK p \in Plain : GoTo(t, p)
  BY DEF GoesOn
<1>2. work'[t].server = work[t].server
  BY DEF GoesOn, SameRow, OnRow
<1>3. p \notin {"insert server", "reselect server"}
  BY DEF Plain
<1>4. QED
  BY <1>1, <1>2, <1>3, CreateOwnsOn

LEMMA RemovalOwns ==
    ASSUME NEW t \in Tasks, Owning(t), Meddles(t), Body[t].kind = "create", Rows!Removal(t)
    PROVE  OwnAt(t, pc[t])'
<1>1. ASSUME NEW left, GoTo(t, Rows!AfterRemoval(t, left)), Covered(t, left)'
      PROVE  OwnAt(t, pc[t])'
  <2>1. PICK p : p = Rows!AfterRemoval(t, left)
    OBVIOUS
  <2>2. p = IF left # {} THEN "delete server" ELSE "insert server"
    BY <2>1 DEF Rows!AfterRemoval
  <2>3. p \notin Late /\ (p = "insert server" => \A s \in servers' : s.hostname # Body[t].hostname)
    BY <1>1, <2>2 DEF Late, Covered
  <2>4. QED
    BY <1>1, <2>1, <2>2, <2>3, CreateOwnsOn
<1>2. CASE Rows!SelectServers(t)
  <2>1. PICK left : left = Rows!Victims(t) /\ GoTo(t, Rows!AfterRemoval(t, left))
    BY <1>2 DEF Rows!SelectServers, Rows!Reply, Rows!GoTo, GoTo
  <2>2. Covered(t, left)'
    BY <1>2, <2>1 DEF Rows!Victims, Covered, Rows!SelectServers, Rows!cmdb
  <2>3. QED
    BY <1>1, <2>1, <2>2
<1>3. CASE Rows!DeleteVictim(t)
  <2>1. PICK v, left : /\ servers' = {s \in servers : s.id # v}
                       /\ left = work[t].victims \ {v}
                       /\ GoTo(t, Rows!AfterRemoval(t, left)) \/ Rows!NoReply(t)
    BY <1>3 DEF Rows!DeleteVictim, Rows!Reply, Rows!GoTo, GoTo, Rows!DeleteServer
  <2>2. \A s \in servers : s.hostname = Body[t].hostname => s.id \in work[t].victims
    BY <1>3 DEF Rows!DeleteVictim, Owning, Ready, TypesAt, CreateTypes
  <2>3. Covered(t, left)'
    BY <2>1, <2>2 DEF Covered
  <2>4. QED
    BY <1>1, <2>1, <2>3, NoReplyOwns
<1>4. QED
  BY <1>2, <1>3 DEF Rows!Removal

\* The row that create has put in, or finds by the hostname it has cleared.
LEMMA FoundRowOwns ==
    ASSUME NEW t \in Tasks, Owning(t), Body[t].kind = "create", NEW p, GoTo(t, p), p \in Late,
           NEW x, OwnServer(t, x)', work' = [work EXCEPT ![t] = [work[t] EXCEPT !.server = x]]
    PROVE  OwnAt(t, pc[t])'
<1>1. PICK w : w = [work[t] EXCEPT !.server = x] /\ work' = [work EXCEPT ![t] = w]
  OBVIOUS
<1>2. OnRow(w, x, work[t].endpoint, work[t].used)
  <2>1. \A a : OnRow([work[t] EXCEPT !.server = a], a, work[t].endpoint, work[t].used)
    BY WorkIs, WorkPart DEF Owning, Ready
  <2>2. QED
    BY <1>1, <2>1
<1>3. work'[t].server = x
  BY <1>1, <1>2, WorkCarried DEF OnRow, Owning, Ready
<1>4. OwnServer(t, work[t].server)'
  BY <1>3 DEF OwnServer
<1>5. pc'[t] = p /\ p \notin {"insert server", "reselect server"}
  BY Going DEF Owning, Ready, Late
<1>6. QED
  BY <1>4, <1>5 DEF OwnAt

LEMMA ServerRowOwns ==
    ASSUME NEW t \in Tasks, Owning(t), Meddles(t), Body[t].kind = "create",
           Rows!CreateServer(t) \/ Rows!ReselectServer(t)
    PROVE  OwnAt(t, pc[t])'
<1>1. CASE Rows!Conflict(t)
  BY <1>1, ReportMoves, ReportedOwns DEF Rows!Conflict, Owning, Ready
<1>2. CASE Rows!CreateServer(t) /\ ~Rows!Conflict(t)
  <2>1. PICK x, s : x = serial /\ s.id = serial /\ s.uuid = Body[t].uuid
                    /\ servers' = servers \cup {s} /\ serial' = serial + 1
                    /\ \/ /\ GoTo(t, "write batch")
                          /\ work' = [work EXCEPT ![t] = [work[t] EXCEPT !.server = x]]
                       \/ Rows!NoReply(t)
    BY <1>2 DEF Rows!CreateServer, Rows!Reply, Rows!GoTo, GoTo, Rows!Carry
  <2>2. OwnServer(t, x)'
    <3>1. serial \in Nat \ {0} /\ \A r \in servers : r.id # serial
      BY DEF Owning, Ready, RowsOK
    <3>2. x = serial /\ serial' = serial + 1
      BY <2>1
    <3>3. \A r \in servers' : r.id = x => r = s
      BY <2>1, <3>1
    <3>4. x \in 0 .. serial' - 1
      BY <3>1, <3>2
    <3>5. QED
      BY <2>1, <3>3, <3>4 DEF OwnServer
  <2>3. QED
    BY <2>1, <2>2, NoReplyOwns, FoundRowOwns DEF Late
<1>3. CASE Rows!ReselectServer(t)
  <2>1. pc[t] = "reselect server" /\ UNCHANGED cmdb
    BY <1>3 DEF Rows!ReselectServer, Rows!cmdb, cmdb
  <2>2. CASE GoTo(t, "insert server")
    BY <2>1, <2>2, CreateOwnsOn DEF Late
  <2>3. ASSUME NEW s \in servers, s.hostname = Body[t].hostname, GoTo(t, "write batch"),
               work' = [work EXCEPT ![t] = [work[t] EXCEPT !.server = s.id]]
        PROVE  OwnAt(t, pc[t])'
    <3>1. PICK x : x = s.id
      OBVIOUS
    <3>2. s.id \in 0 .. serial - 1 /\ \A r \in servers : r.id = s.id => r = s
      BY DEF Owning, Ready, RowsOK
    <3>3. s.uuid = Body[t].uuid
      BY <2>1, <2>3 DEF Owning, OwnAt, HostOwn
    <3>4. OwnServer(t, x)'
      BY <2>1, <3>1, <3>2, <3>3 DEF OwnServer, cmdb
    <3>5. QED
      BY <2>3, <3>1, <3>4, FoundRowOwns DEF Late
  <2>4. QED
    BY <1>3, <2>2, <2>3 DEF Rows!ReselectServer, Rows!Reply, Rows!GoTo, GoTo, Rows!Carry
<1>4. QED
  BY <1>1, <1>2, <1>3

LEMMA NetworkOwns ==
    ASSUME NEW t \in Tasks, Owning(t), Meddles(t), Body[t].kind = "create", pc[t] \in Late,
           \/ Rows!CreateCard(t) \/ Rows!ReselectCard(t) \/ Rows!FindPrefix(t)
           \/ Rows!CreateAddress(t) \/ Rows!ReselectAddress(t)
    PROVE  OwnAt(t, pc[t])'
<1>1. CASE Rows!Conflict(t)
  BY <1>1, ReportMoves, ReportedOwns DEF Rows!Conflict, Owning, Ready
<1>2. CASE Rows!NoReply(t)
  BY <1>2, NoReplyOwns
<1>3. CASE Rows!AddressWritten(t) \/ Rows!SkipAddress(t)
  BY <1>3, Skips, AddressWrittenGoesOn, GoesOnOwns DEF Owning, Ready
<1>4. ASSUME NEW e, Rows!CardWritten(t, e)
      PROVE  OwnAt(t, pc[t])'
  <2>1. PICK w : /\ w = [work[t] EXCEPT !.endpoint = e, !.cards = Tail(work[t].cards),
                                        !.addresses = Rows!Card(t).addresses]
                 /\ Rows!Continue(t, w)
    BY <1>4 DEF Rows!CardWritten
  <2>2. OnRow(w, work[t].server, e, work[t].used)
    BY <2>1, WorkIs, WorkParts DEF Owning, Ready
  <2>3. work'[t] = w /\ \E p \in Plain : GoTo(t, p)
    BY <2>1, <2>2, Continues DEF OnRow, Owning, Ready
  <2>4. PICK p \in Plain : GoTo(t, p)
    BY <2>3
  <2>5. work'[t].server = work[t].server /\ p \notin {"insert server", "reselect server"}
    BY <2>2, <2>3, <2>4 DEF OnRow, Plain
  <2>6. QED
    BY <2>4, <2>5, CreateOwnsOn
<1>5. ASSUME NEW p \in {"insert card", "insert address"}, GoTo(t, p), UNCHANGED work
      PROVE  OwnAt(t, pc[t])'
  BY <1>5, CreateOwnsOn
<1>6. ASSUME NEW type, GoTo(t, "insert address"),
             work' = [work EXCEPT ![t] = [work[t] EXCEPT !.type = type,
                                                         !.used = work[t].used \cup {type}]]
      PROVE  OwnAt(t, pc[t])'
  <2>1. PICK used, w : /\ used = work[t].used \cup {type}
                       /\ w = [work[t] EXCEPT !.type = type, !.used = used]
                       /\ work' = [work EXCEPT ![t] = w]
    BY <1>6
  <2>2. OnRow(w, work[t].server, work[t].endpoint, used)
    BY <2>1, WorkIs, WorkParts DEF Owning, Ready
  <2>3. work'[t].server = work[t].server
    BY <2>1, <2>2, WorkCarried DEF OnRow, Owning, Ready
  <2>4. QED
    BY <1>6, <2>3, CreateOwnsOn
<1>7. CASE Rows!CreateCard(t) \/ Rows!ReselectCard(t)
  BY <1>1, <1>2, <1>4, <1>5, <1>7
     DEF Rows!CreateCard, Rows!ReselectCard, Rows!Reply, Rows!GoTo, GoTo
<1>8. CASE Rows!CreateAddress(t) \/ Rows!ReselectAddress(t)
  BY <1>1, <1>2, <1>3, <1>5, <1>8
     DEF Rows!CreateAddress, Rows!ReselectAddress, Rows!Reply, Rows!GoTo, GoTo
<1>9. CASE Rows!FindPrefix(t)
  BY <1>3, <1>6, <1>9 DEF Rows!FindPrefix, Rows!Reply, Rows!GoTo, GoTo, Rows!Carry
<1>10. QED
  BY <1>7, <1>8, <1>9

LEMMA FieldsOwn ==
    ASSUME NEW t \in Tasks, Owning(t), Meddles(t), Body[t].kind = "create", pc[t] \in Late,
           Rows!WriteBatch(t) \/ Rows!WritePrice(t) \/ Rows!WriteFlavor(t) \/ Rows!WriteState(t)
    PROVE  OwnAt(t, pc[t])'
<1>1. IsWork(work[t]) /\ SameRow(work[t], work[t])
  BY WorkIs DEF Owning, Ready
<1>2. Rows!Continue(t, work[t]) => GoesOn(t)
  BY <1>1, ContinuesOnRow DEF Owning, Ready
<1>3. \A p \in {"write flavor", "acked"} : GoTo(t, p) /\ UNCHANGED work => OwnAt(t, pc[t])'
  BY CreateOwnsOn
<1>4. QED
  BY <1>2, <1>3, NoReplyOwns, GoesOnOwns
     DEF Rows!WriteBatch, Rows!WritePrice, Rows!WriteFlavor, Rows!WriteState, Rows!Reply,
         Rows!GoTo, GoTo

LEMMA RowStepOwns ==
    ASSUME NEW t \in Tasks, Owning(t), RowStep(t)
    PROVE  OwnAt(t, pc[t])'
<1>1. ~IsPort(t) /\ Meddles(t)
  BY RowStepMeddles DEF RowStep
<1>2. CASE Body[t].kind # "create"
  BY <1>1, <1>2, KindsAre DEF OwnAt, IsPort
<1>3. CASE Body[t].kind = "create"
  <2>1. CASE Rows!NotApplied(t) \/ Rows!Removal(t)
    BY <1>1, <1>3, <2>1, NoReplyOwns, RemovalOwns DEF Rows!NotApplied
  <2>2. CASE Rows!LookUp(t)
    <3>1. GoTo(t, "select servers")
      BY <2>2 DEF Rows!LookUp, Rows!Reply, Rows!GoTo, GoTo
    <3>2. QED
      BY <1>1, <1>3, <3>1, CreateOwnsOn DEF Late
  <2>3. CASE Rows!CreateServer(t) \/ Rows!ReselectServer(t)
    BY <1>1, <1>3, <2>3, ServerRowOwns
  <2>4. CASE \/ Rows!WriteBatch(t) \/ Rows!WritePrice(t) \/ Rows!WriteFlavor(t)
             \/ Rows!WriteState(t)
    <3>1. pc[t] \in Late
      BY <2>4 DEF Rows!WriteBatch, Rows!WritePrice, Rows!WriteFlavor, Rows!WriteState, Late
    <3>2. QED
      BY <1>1, <1>3, <2>4, <3>1, FieldsOwn
  <2>5. CASE \/ Rows!CreateCard(t) \/ Rows!ReselectCard(t) \/ Rows!FindPrefix(t)
             \/ Rows!CreateAddress(t) \/ Rows!ReselectAddress(t)
    <3>1. pc[t] \in Late
      BY <2>5 DEF Rows!CreateCard, Rows!ReselectCard, Rows!FindPrefix, Rows!CreateAddress,
                  Rows!ReselectAddress, Late
    <3>2. QED
      BY <1>1, <1>3, <2>5, <3>1, NetworkOwns
  <2>6. CASE Rows!Resize(t)
    <3>1. pc[t] \in {"resize price", "resize flavor"}
      BY <2>6 DEF Rows!Resize, Rows!ResizePrice, Rows!ResizeFlavor
    <3>2. QED
      BY <1>3, <3>1 DEF Owning, Ready, CallsOf, Removing, Late
  <2>7. QED
    BY <2>1, <2>2, <2>3, <2>4, <2>5, <2>6 DEF RowStep, Rows!Create
<1>4. QED
  BY <1>2, <1>3

-----------------------------------------------------------------------------
(* One address of each type                                                *)

\* What another task knows of its rows it knows on in the same tables.
LEMMA TypesStill ==
    ASSUME NEW u \in Tasks, NEW c, TypesAt(u, c), OwnAt(u, c), UNCHANGED cmdb,
           plan'[u] = plan[u], work'[u] = work[u]
    PROVE  TypesAt(u, c)' /\ OwnAt(u, c)'
<1>1. Body[u].kind = "attach" => AttachTypes(u, c)'
  <2>1. Holds(plan[u].endpoint, plan[u].server)' = Holds(plan[u].endpoint, plan[u].server)
    BY DEF Holds, cmdb
  <2>2. IpsOf(plan[u].server)' = IpsOf(plan[u].server)
    BY DEF IpsOf, cmdb
  <2>3. QED
    BY <2>1, <2>2 DEF TypesAt, AttachTypes
<1>2. Body[u].kind = "create" => CreateTypes(u, c)'
  <2>1. Holds(work[u].endpoint, work[u].server)' = Holds(work[u].endpoint, work[u].server)
    BY DEF Holds, cmdb
  <2>2. Counted(u)' = Counted(u)
    BY DEF Counted, IpsOf, cmdb
  <2>3. Typed(u)' = Typed(u)
    BY DEF Typed, IpsOf, Rows!Address, cmdb
  <2>4. Bare(u)' = Bare(u)
    BY DEF Bare, cmdb
  <2>5. QED
    BY <2>1, <2>2, <2>3, <2>4 DEF TypesAt, CreateTypes, cmdb
<1>3. OwnAt(u, c)'
  BY DEF OwnAt, OwnServer, HostOwn, cmdb
<1>4. QED
  BY <1>1, <1>2, <1>3 DEF TypesAt

\* A step of t on its own instance, with the others at work on theirs.
LEMMA SettlingKeepsInv ==
    ASSUME TypesInv, WritersApart, NEW t \in Busy, Settles(t), Meddles(t), OwnAt(t, pc[t])',
           \A u \in Tasks \ {t} : plan'[u] = plan[u] /\ work'[u] = work[u]
    PROVE  TypesInv'
<1>1. /\ t \in Tasks /\ RowsOK' /\ TypesOnce' /\ CarriedOK'
      /\ \A u \in Tasks \ {t} : pc'[u] = pc[u]
      /\ pc'[t] \in CallsOf(t) \cup Ended
  BY DEF TypesInv, Settles, Busy
<1>2. Busy' \subseteq Busy
  BY <1>1 DEF Busy
<1>3. Routed'
  BY <1>1 DEF TypesInv, Routed
<1>4. RowsJoined'
  BY <1>1, JoinedStays DEF TypesInv
<1>5. ASSUME NEW u \in Busy'
      PROVE  TypesAt(u, pc[u])' /\ OwnAt(u, pc[u])'
  <2>1. CASE u = t
    <3>1. pc'[t] \notin Ended
      BY <1>5, <2>1 DEF Busy
    <3>2. TypesAt(t, pc[t])'
      BY <3>1 DEF Settles
    <3>3. QED
      BY <2>1, <3>2
  <2>2. CASE u # t
    <3>1. u \in Busy /\ u \in Tasks \ {t}
      BY <1>2, <1>5, <2>2 DEF Busy
    <3>2. Apart(t, u)
      BY <2>2, <3>1 DEF WritersApart, Apart
    <3>3. PICK c : c = pc[u]
      OBVIOUS
    <3>4. TypesAt(u, c) /\ OwnAt(u, c) /\ pc'[u] = c
      BY <1>1, <3>1, <3>3 DEF TypesInv
    <3>5. TypesAt(u, c)' /\ OwnAt(u, c)'
      BY <1>1, <3>1, <3>2, <3>4, TypesKept DEF TypesInv
    <3>6. QED
      BY <3>4, <3>5
  <2>3. QED
    BY <2>1, <2>2
<1>6. QED
  BY <1>1, <1>3, <1>4, <1>5 DEF TypesInv

\* A task starts with no type to count and no row.
LEMMA StartsBare ==
    ASSUME NEW t \in Tasks, Start(t), CarriedOK
    PROVE  TypesAt(t, pc[t])' /\ OwnAt(t, pc[t])'
<1>1. CASE IsPort(t)
  <2>1. PICK p : p = Ports!FirstCall(t) /\ GoTo(t, p)
    BY <1>1 DEF Start, Ports!Start, Ports!Begin, Ports!GoTo, GoTo
  <2>2. pc'[t] = p
    BY <2>1, Going
  <2>3. p \notin Attaching
    BY <2>1 DEF Ports!FirstCall, Attaching
  <2>4. QED
    BY <1>1, <2>2, <2>3 DEF TypesAt, AttachTypes, OwnAt, IsPort
<1>2. CASE ~IsPort(t)
  <2>1. PICK p : p = Rows!FirstCall(t) /\ GoTo(t, p)
    BY <1>2 DEF Start, Rows!Start, Rows!Begin, Rows!GoTo, GoTo
  <2>2. pc'[t] = p
    BY <2>1, Going
  <2>3. Body[t].kind = "create" => p = "look up"
    BY <2>1 DEF Rows!FirstCall
  <2>4. QED
    BY <1>2, <2>2, <2>3 DEF TypesAt, CreateTypes, OwnAt, IsPort, Removing, Late
<1>3. QED
  BY <1>1, <1>2

LEMMA StartKeepsTypes ==
    ASSUME TypesInv, NEW t \in Tasks, Start(t)
    PROVE  TypesInv'
<1>1. /\ UNCHANGED cmdb /\ CarriedOK'
      /\ \A u \in Tasks \ {t} : pc'[u] = pc[u] /\ plan'[u] = plan[u] /\ work'[u] = work[u]
      /\ pc'[t] \in CallsOf(t) \cup Ended
  BY StartsRight DEF TypesInv
<1>2. Busy' \subseteq Busy \cup {t}
  BY <1>1 DEF Busy
<1>3. RowsOK' /\ TypesOnce' /\ RowsJoined'
  BY <1>1, NothingKept, OnceKept DEF TypesInv, Kept, RowsJoined, cmdb
<1>4. Routed'
  BY <1>1 DEF TypesInv, Routed
<1>5. ASSUME NEW u \in Busy'
      PROVE  TypesAt(u, pc[u])' /\ OwnAt(u, pc[u])'
  <2>1. CASE u = t
    BY <2>1, StartsBare DEF TypesInv
  <2>2. CASE u # t
    <3>1. u \in Busy /\ u \in Tasks \ {t}
      BY <1>2, <1>5, <2>2 DEF Busy
    <3>2. PICK c : c = pc[u]
      OBVIOUS
    <3>3. TypesAt(u, c) /\ OwnAt(u, c) /\ pc'[u] = c
      BY <1>1, <3>1, <3>2 DEF TypesInv
    <3>4. QED
      BY <1>1, <3>1, <3>3, TypesStill
  <2>3. QED
    BY <2>1, <2>2
<1>6. QED
  BY <1>1, <1>3, <1>4, <1>5 DEF TypesInv

LEMMA IdleKeepsTypes ==
    ASSUME TypesInv, UNCHANGED <<cmdb, plan, work>>,
           pc' = [u \in Tasks |-> pc'[u]], \A u \in Tasks : pc'[u] \in {pc[u], "queued"}
    PROVE  TypesInv'
<1>1. Busy' \subseteq Busy /\ \A u \in Busy' : pc'[u] = pc[u]
  BY DEF Busy, Ended
<1>2. CarriedOK' /\ Routed' /\ RowsJoined'
  BY <1>1 DEF TypesInv, CarriedOK, Routed, Ended, RowsJoined, cmdb
<1>3. RowsOK' /\ TypesOnce'
  BY NothingKept, OnceKept DEF TypesInv, Kept
<1>4. ASSUME NEW u \in Busy'
      PROVE  TypesAt(u, pc[u])' /\ OwnAt(u, pc[u])'
  <2>1. PICK c : c = pc[u]
    OBVIOUS
  <2>2. u \in Tasks /\ TypesAt(u, c) /\ OwnAt(u, c) /\ pc'[u] = c
    BY <1>1, <1>4, <2>1 DEF TypesInv, Busy
  <2>3. QED
    BY <2>2, TypesStill
<1>5. QED
  BY <1>2, <1>3, <1>4 DEF TypesInv

LEMMA TypesInvStep ==
    ASSUME TypesInv, WritersApart, [Next]_vars
    PROVE  TypesInv'
<1>1. pc = [u \in Tasks |-> pc[u]]
  BY DEF TypesInv, CarriedOK
<1>2. ASSUME NEW t \in Tasks, PortStep(t) \/ RowStep(t)
      PROVE  TypesInv'
  <2>1. t \in Busy
    BY <1>2, StepsAreBusy
  <2>2. Owning(t)
    BY <1>2, <2>1 DEF TypesInv, Owning, Ready, Routed, Busy
  <2>3. Settles(t)
    BY <1>2, <2>2, PortStepSettles, RowStepSettles DEF Owning
  <2>4. Meddles(t) /\ OwnAt(t, pc[t])'
    BY <1>2, <2>2, PortStepMeddles, PortStepOwns, RowStepMeddles, RowStepOwns
  <2>5. \A u \in Tasks \ {t} : plan'[u] = plan[u] /\ work'[u] = work[u]
    BY <1>2, StepsAlone DEF TypesInv
  <2>6. QED
    BY <2>1, <2>3, <2>4, <2>5, SettlingKeepsInv
<1>3. ASSUME NEW t \in Tasks, Start(t)
      PROVE  TypesInv'
  BY <1>3, StartKeepsTypes
<1>4. ASSUME NEW t \in Tasks, AckLost(t), UNCHANGED <<plan, work, overridden>>
      PROVE  TypesInv'
  <2>1. UNCHANGED cmdb /\ GoTo(t, "queued")
    BY <1>4 DEF AckLost
  <2>2. /\ pc' = [u \in Tasks |-> pc'[u]]
        /\ \A u \in Tasks : pc'[u] \in {pc[u], "queued"}
    BY <2>1, Going DEF TypesInv
  <2>3. QED
    BY <1>4, <2>1, <2>2, IdleKeepsTypes
<1>5. CASE Crash /\ UNCHANGED <<plan, work, overridden>>
  <2>1. UNCHANGED cmdb /\ pc' = [t \in Tasks |-> IF t \in Busy THEN "queued" ELSE pc[t]]
    BY <1>5 DEF Crash
  <2>2. /\ pc' = [u \in Tasks |-> pc'[u]]
        /\ \A u \in Tasks : pc'[u] \in {pc[u], "queued"}
    BY <2>1
  <2>3. QED
    BY <1>5, <2>1, <2>2, IdleKeepsTypes
<1>6. CASE UNCHANGED vars
  BY <1>1, <1>6, IdleKeepsTypes DEF vars, tasks
<1>7. QED
  BY <1>2, <1>3, <1>4, <1>5, <1>6 DEF Next

LEMMA TypesInvInit ==
    ASSUME TablesJoined, Init
    PROVE  TypesInv
<1>1. /\ pc = [t \in Tasks |-> "queued"] /\ work = [t \in Tasks |-> Rows!NoWork]
      /\ plan = [t \in Tasks |-> Ports!NoPlan]
  BY DEF Init, Rows!Init
<1>2. PICK n \in Tables : /\ servers = n.servers /\ endpoints = n.endpoints
                          /\ ips = n.ips /\ serial = n.serial
  BY DEF Init, Rows!Init
<1>3. IsPlan(Ports!NoPlan) /\ IsWork(Rows!NoWork)
  BY DEF IsPlan, Ports!NoPlan, IsWork, Rows!NoWork
<1>4. CarriedOK
  BY <1>1, <1>3 DEF CarriedOK
<1>5. RowsOK
  BY <1>2, InstanceAssumption DEF RowsOK, IsServer
<1>6. Busy = {} /\ Routed
  BY <1>1 DEF Busy, Ended, Routed
<1>7. TypesOnce
  BY <1>2 DEF TypesFound, TypesOnce, IpsOf
<1>8. RowsJoined
  BY <1>2 DEF TablesJoined, RowsJoined
<1>9. QED
  BY <1>4, <1>5, <1>6, <1>7, <1>8 DEF TypesInv

LEMMA OnceIsOneOfEach ==
    ASSUME TypesFound, TypesOnce
    PROVE  OneOfEachType
<1>1. ASSUME NEW s \in servers, NEW type \in {"be", "fe"}
      PROVE  Cardinality({i \in ips : i.type = type
                             /\ \E e \in Ports!EndpointsOf(s.id) : e.id = i.endpoint}) <= 1
  <2> DEFINE found == {i \in ips : i.type = type
                             /\ \E e \in Ports!EndpointsOf(s.id) : e.id = i.endpoint}
  <2>1. found \subseteq {i \in IpsOf(s.id) : i.type = type}
    BY DEF Ports!EndpointsOf, IpsOf
  <2>2. \A i, j \in found : i = j
    BY <2>1, OnceEverywhere
  <2> HIDE DEF found
  <2>3. found = {} => Cardinality(found) <= 1
    BY FS_EmptySet
  <2>4. ASSUME NEW i \in found
        PROVE  Cardinality(found) <= 1
    <3>1. found = {i}
      BY <2>2, <2>4
    <3>2. Cardinality({i}) = 1
      BY FS_Singleton
    <3>3. QED
      BY <3>1, <3>2
  <2>5. Cardinality(found) <= 1
    BY <2>3, <2>4
  <2>6. QED
    BY <2>5 DEF found
<1>2. \A S : Ports!Cardinality(S) = Cardinality(S)
  BY DEF Ports!Cardinality, Cardinality
<1>3. QED
  BY <1>1, <1>2 DEF OneOfEachType, Ports!OneOfEachType

(* For any prefetch, as long as no two of the messages in hand put rows on *)
(* one instance or create under one hostname, and with tables that hold    *)
(* one address of each type on a server and nothing that hangs off a row   *)
(* that is gone, OneOfEachType: neither attach nor create gives a server a *)
(* second address of type be or fe, though each counts the types only as   *)
(* it saw them, whatever detaches, deletes, resizes and the writers of     *)
(* other instances interleave, retry and repeat, with servers removed and  *)
(* created again in between.                                               *)
THEOREM OneOfEachTypeEverywhere ==
    ASSUME TypesFound, TablesJoined
    PROVE  Spec /\ []WritersApart => []OneOfEachType
<1>1. TypesInv /\ WritersApart /\ [Next]_vars => TypesInv'
  BY TypesInvStep
<1>2. Init => TypesInv
  BY TypesInvInit
<1>3. TypesInv => OneOfEachType
  BY OnceIsOneOfEach DEF TypesInv
<1>4. QED
  BY <1>1, <1>2, <1>3, PTL DEF Spec

-----------------------------------------------------------------------------
(* The cards the addresses of ports are on                                 *)

\* The cards of a create and their addresses are lists.
CardsIn(t) == {Body[t].cards[k] : k \in DOMAIN Body[t].cards}
AddressesIn(t) == UNION {{c.addresses[k] : k \in DOMAIN c.addresses} : c \in CardsIn(t)}

CardsListed ==
    \A t \in Tasks : Body[t].kind = "create" =>
        /\ Body[t].cards \in Seq(CardsIn(t))
        /\ \A c \in CardsIn(t) : c.addresses \in Seq(AddressesIn(t))

\* No other message puts the address of an attach on its instance; the second
\* attach would be acknowledged for the address as the first one left it.
AddressesApart ==
    \A t \in Tasks : Body[t].kind = "attach" =>
        \A u \in Tasks \ {t} : Body[u].uuid = Body[t].uuid =>
            /\ Body[u].kind = "attach" => Body[u].ip # Body[t].ip
            /\ Body[u].kind = "create" => Body[t].ip \notin AddressesIn(u)

\* next_bond_name finds a number that no endpoint has.
TablesFinite == \A n \in Tables : IsFiniteSet(n.endpoints)

\* The endpoint of the plan holds no address; it has the mac of the port; one
\* that has the name for a new one is like the one t would put in.
Unused(t) == IpsOn(plan[t].endpoint) = {}

HasMac(t) == \A e \in endpoints : e.id = plan[t].endpoint => e.mac = Body[t].mac

NameFree(t) ==
    \A e \in EndpointsOf(plan[t].server) : e.name = plan[t].name =>
        e.mac = Body[t].mac /\ IpsOn(e.id) = {}

\* What attach knows of its endpoint: unless it brings a mac of its own the
\* endpoint has to be empty until the address is on it, at "reselect ip"
\* with nothing on it but that address.
Finding == {"find ip", "find prefix", "update endpoint"}
Naming == {"find ip", "find prefix", "insert endpoint", "reselect endpoint", "reselect name"}

Aimed(t, call) ==
    /\ call \in Finding => /\ plan[t].fill \/ Body[t].mac = None => Unused(t)
                           /\ ~plan[t].fill => HasMac(t)
    /\ call \in Naming => NameFree(t)
    /\ call \in Inserting => HasMac(t)
    /\ call = "insert ip" /\ Body[t].mac = None => Unused(t)
    /\ call = "reselect ip" /\ Body[t].mac = None =>
          IpsOn(plan[t].endpoint) \subseteq Attached(Body[t].ip, Body[t].uuid)

\* Create writes addresses of its message only.
Listed(t, call) ==
    /\ work[t].cards \in Seq(CardsIn(t)) /\ work[t].addresses \in Seq(AddressesIn(t))
    /\ call \in {"insert card", "reselect card"} => work[t].cards # <<>>
    /\ call \in {"find prefix", "insert address", "reselect address"} => work[t].addresses # <<>>

PortsAt(t, call) ==
    /\ Body[t].kind = "attach" => Aimed(t, call)
    /\ Body[t].kind = "create" => Listed(t, call)

\* The rows of the address of an attach that a task has put in.
Attachers == {t \in Tasks : Body[t].kind = "attach"}

Put(t) == {i \in Attached(Body[t].ip, Body[t].uuid) : Ports!Inserted(i)}

OnCards ==
    \A t, u \in Attachers : \A i \in Put(t), j \in Put(u) :
        /\ \A e \in endpoints : e.id = i.endpoint => e.mac = Body[t].mac
        /\ i.endpoint = j.endpoint /\ Body[t].mac = None => i = j

PortsInv ==
    /\ IsFiniteSet(endpoints)
    /\ \A t \in Busy : PortsAt(t, pc[t])
    /\ OnCards

-----------------------------------------------------------------------------
\* What every call but the insert of an address to attach does.
CardsKept ==
    /\ \A t \in Attachers : Attached(Body[t].ip, Body[t].uuid)' \subseteq Attached(Body[t].ip, Body[t].uuid)
    /\ \A e \in endpoints' : (\E i \in ips : i.endpoint = e.id) =>
          \E d \in endpoints : d.id = e.id /\ d.mac = e.mac
    /\ IsFiniteSet(endpoints) => IsFiniteSet(endpoints')

LEMMA OnCardsKept ==
    ASSUME OnCards, CardsKept
    PROVE  OnCards'
<1>1. \A t \in Attachers : Put(t)' \subseteq Put(t)
  BY DEF CardsKept, Put, Ports!Inserted
<1>2. \A t \in Attachers : \A i \in Put(t) : i \in ips
  BY DEF Put, Attached
<1>3. QED
  BY <1>1, <1>2 DEF OnCards, CardsKept

LEMMA SameCards ==
    ASSUME UNCHANGED cmdb
    PROVE  CardsKept
BY DEF cmdb, CardsKept, Attached, ServersOf

LEMMA DropsKeepCards ==
    ASSUME servers' \subseteq servers, endpoints' \subseteq endpoints, ips' \subseteq ips
    PROVE  CardsKept
<1>1. IsFiniteSet(endpoints) => IsFiniteSet(endpoints')
  BY FS_Subset
<1>2. QED
  BY <1>1 DEF CardsKept, Attached, ServersOf

LEMMA ServerKeepsCards ==
    ASSUME RowsOK, NEW t \in Tasks, PutsServer(t) \/ \E F : Updates(t, F)
    PROVE  CardsKept
<1>1. UNCHANGED <<endpoints, ips>>
  BY DEF PutsServer, Updates
<1>2. \A u \in Attachers : Attached(Body[u].ip, Body[u].uuid)' = Attached(Body[u].ip, Body[u].uuid)
  BY PutsServerSpares, UpdatesSpares
<1>3. QED
  BY <1>1, <1>2 DEF CardsKept

LEMMA EndpointKeepsCards ==
    ASSUME RowsOK, NEW server, NEW name, NEW mac,
           InsertEndpoint(server, name, mac), UNCHANGED <<servers, ips>>
    PROVE  CardsKept
<1>1. PICK e : e.id = serial /\ endpoints' = endpoints \cup {e}
  BY DEF InsertEndpoint
<1>2. \A i \in ips : i.endpoint # serial
  BY DEF RowsOK
<1>3. IsFiniteSet(endpoints) => IsFiniteSet(endpoints')
  BY <1>1, FS_AddElement
<1>4. \A ip, uuid : Attached(ip, uuid)' = Attached(ip, uuid)
  BY <1>1, <1>2 DEF Attached, ServersOf
<1>5. QED
  BY <1>1, <1>2, <1>3, <1>4 DEF CardsKept

\* A mac is set on an endpoint without addresses.
LEMMA MacKeepsCards ==
    ASSUME NEW x, NEW mac, IpsOn(x) = {}, SetMac(x, mac), UNCHANGED <<servers, ips, serial>>
    PROVE  CardsKept
<1> DEFINE new == [e \in endpoints |->
                      [id |-> e.id, server |-> e.server, name |-> e.name,
                       mac |-> IF e.id = x THEN mac ELSE e.mac]]
<1>1. /\ endpoints' = {new[e] : e \in endpoints}
      /\ \A e \in endpoints : new[e].id = e.id /\ (e.id # x => new[e].mac = e.mac)
  BY DEF SetMac
<1>2. DOMAIN new = endpoints
  OBVIOUS
<1> HIDE DEF new
<1>3. ASSUME IsFiniteSet(endpoints) PROVE IsFiniteSet(endpoints')
  <2>1. new \in Surjection(endpoints, endpoints')
    <3>1. new \in [endpoints -> endpoints']
      <4>1. new = [e \in endpoints |-> new[e]]
        BY DEF new
      <4>2. QED
        BY <1>1, <4>1
    <3>2. QED
      BY <1>1, <3>1 DEF Surjection
  <2>2. QED
    BY <1>3, <2>1, FS_Surjection
<1>4. \A u \in Attachers : Attached(Body[u].ip, Body[u].uuid)' = Attached(Body[u].ip, Body[u].uuid)
  BY SetsMacSpares DEF SetsMac
<1>5. \A e \in endpoints' : (\E i \in ips : i.endpoint = e.id) =>
          \E d \in endpoints : d.id = e.id /\ d.mac = e.mac
  BY <1>1 DEF IpsOn
<1>6. QED
  BY <1>3, <1>4, <1>5 DEF CardsKept

\* create inserts no address of attach.
LEMMA AddressKeepsCards ==
    ASSUME AddressesApart, NEW t \in Tasks, Body[t].kind = "create", NEW ip \in AddressesIn(t),
           NEW endpoint, NEW prefix, NEW type, OwnEndpoint(t, endpoint),
           InsertIp(ip, endpoint, prefix, type), UNCHANGED <<servers, endpoints>>
    PROVE  CardsKept
<1>1. PICK i : i.ip = ip /\ i.endpoint = endpoint /\ ips' = ips \cup {i}
  BY DEF InsertIp
<1>2. ASSUME NEW u \in Attachers, i \in Attached(Body[u].ip, Body[u].uuid)'
      PROVE  FALSE
  <2>1. PICK e \in endpoints, s \in servers :
            s.uuid = Body[u].uuid /\ e.id = endpoint /\ s.id = e.server
    BY <1>1, <1>2 DEF Attached, ServersOf
  <2>2. Body[u].uuid = Body[t].uuid /\ Body[u].ip = ip
    BY <1>1, <1>2, <2>1 DEF OwnEndpoint, Attached
  <2>3. t # u
    BY DEF Attachers
  <2>4. QED
    BY <2>2, <2>3 DEF AddressesApart, Attachers
<1>3. \A u \in Attachers : Attached(Body[u].ip, Body[u].uuid)' \subseteq Attached(Body[u].ip, Body[u].uuid)
  BY <1>1, <1>2 DEF Attached, ServersOf
<1>4. QED
  BY <1>3 DEF CardsKept

-----------------------------------------------------------------------------
(* The card attach uses                                                    *)

\* What is known when t makes its call, and what is to be shown of the step.
InHand(t) == TypesInv /\ TypesInv' /\ PortsInv /\ t \in Busy

Places(t) ==
    /\ IsFiniteSet(endpoints') /\ OnCards'
    /\ pc'[t] \notin Ended => PortsAt(t, pc[t])'

LEMMA InHandGives ==
    ASSUME NEW t \in Tasks, InHand(t)
    PROVE  /\ CarriedOK /\ RowsOK /\ RowsJoined /\ RowsOK' /\ OnCards /\ IsFiniteSet(endpoints)
           /\ pc[t] \in CallsOf(t) /\ TypesAt(t, pc[t]) /\ OwnAt(t, pc[t]) /\ PortsAt(t, pc[t])
BY DEF InHand, TypesInv, PortsInv, Routed, Busy

LEMMA KeptPlaces ==
    ASSUME NEW t \in Tasks, InHand(t), CardsKept, NEW p, GoTo(t, p),
           p \notin Ended => PortsAt(t, p)'
    PROVE  Places(t)
<1>1. pc'[t] = p /\ IsFiniteSet(endpoints') /\ OnCards'
  BY InHandGives, Going, OnCardsKept DEF CardsKept
<1>2. pc'[t] \notin Ended => PortsAt(t, pc[t])'
  BY <1>1
<1>3. QED
  BY <1>1, <1>2 DEF Places

\* From call c attach goes on at call p with the same plan.
Follows(t, c, p) ==
    \/ p \notin Attaching
    \/ p = c
    \/ c = "find ip" /\ p = "find prefix"
    \/ c = "find prefix" /\ p = "insert endpoint"
    \/ c = "find prefix" /\ p = "update endpoint"
    \/ c = "find prefix" /\ p = "insert ip" /\ ~plan[t].fill
    \/ c = "insert endpoint" /\ p = "reselect endpoint"
    \/ c = "reselect endpoint" /\ p = "reselect name"
    \/ c = "reselect name" /\ p = "insert endpoint"
    \/ c = "insert ip" /\ p = "reselect ip"
    \/ c = "reselect ip" /\ p = "insert ip" /\ Attached(Body[t].ip, Body[t].uuid) = {}

LEMMA AimGoesOn ==
    ASSUME NEW t \in Tasks, NEW c, c \in Attaching \cup {"select server"}, NEW p, Aimed(t, c), Follows(t, c, p)
    PROVE  Aimed(t, p)
BY DEF Aimed, Follows, Attaching, Finding, Naming, Inserting, Unused

\* The aim is the same in tables that have not changed.
LEMMA SameAim ==
    ASSUME NEW t \in Tasks, NEW p, Aimed(t, p), UNCHANGED cmdb,
           plan'[t].server = plan[t].server, plan'[t].endpoint = plan[t].endpoint,
           plan'[t].fill = plan[t].fill, plan'[t].name = plan[t].name
    PROVE  Aimed(t, p)'
<1>1. Unused(t)' = Unused(t) /\ IpsOn(plan[t].endpoint)' = IpsOn(plan[t].endpoint)
  BY DEF Unused, IpsOn, cmdb
<1>2. HasMac(t)' = HasMac(t)
  BY DEF HasMac, cmdb
<1>3. NameFree(t)' = NameFree(t)
  BY DEF NameFree, EndpointsOf, IpsOn, cmdb
<1>4. Attached(Body[t].ip, Body[t].uuid)' = Attached(Body[t].ip, Body[t].uuid)
  BY DEF Attached, ServersOf, cmdb
<1>5. QED
  BY <1>1, <1>2, <1>3, <1>4 DEF Aimed

LEMMA AimedPlaces ==
    ASSUME NEW t \in Tasks, InHand(t), Body[t].kind = "attach", NEW p, GoTo(t, p),
           Follows(t, pc[t], p), UNCHANGED cmdb,
           plan'[t].server = plan[t].server, plan'[t].endpoint = plan[t].endpoint,
           plan'[t].fill = plan[t].fill, plan'[t].name = plan[t].name
    PROVE  Places(t)
<1>1. Aimed(t, pc[t]) /\ pc[t] \in Attaching \cup {"select server"}
  BY InHandGives, AttachCalls DEF PortsAt
<1>2. Aimed(t, p)
  BY <1>1, AimGoesOn
<1>3. Aimed(t, p)'
  BY <1>2, SameAim
<1>4. PortsAt(t, p)'
  BY <1>3 DEF PortsAt
<1>5. QED
  BY <1>4, SameCards, KeptPlaces

\* The call has no answer: the same, or what it did to the tables is known.
LEMMA PortUnansweredCalls ==
    ASSUME NEW t \in Tasks, Body[t].kind = "attach", Ports!NoReply(t)
    PROVE  /\ UNCHANGED plan
           /\ \E p \in {Ports!Again(pc[t]), "select server", "dead"} : GoTo(t, p)
BY PortUnanswered DEF Ports!FirstCall

LEMMA UnreachedPlaces ==
    ASSUME NEW t \in Tasks, InHand(t), IsPort(t), Ports!NoReply(t), UNCHANGED cmdb
    PROVE  Places(t)
<1>1. CASE Body[t].kind = "attach"
  <2>1. PICK p \in {Ports!Again(pc[t]), "select server", "dead"} : GoTo(t, p) /\ UNCHANGED plan
    BY <1>1, PortUnansweredCalls
  <2>2. Follows(t, pc[t], p)
    BY <2>1 DEF Follows, Ports!Again, Attaching
  <2>3. QED
    BY <1>1, <2>1, <2>2, AimedPlaces
<1>2. CASE Body[t].kind = "detach"
  <2>1. PICK p : GoTo(t, p)
    BY PortUnanswered
  <2>2. PortsAt(t, p)'
    BY <1>2 DEF PortsAt
  <2>3. QED
    BY <2>1, <2>2, SameCards, KeptPlaces
<1>3. QED
  BY <1>1, <1>2 DEF IsPort

LEMMA LookupPlaces ==
    ASSUME NEW t \in Tasks, InHand(t), Body[t].kind = "attach", ~LookupErrors,
           Ports!FindAttachedIp(t) \/ Ports!ReselectAttached(t) \/ Ports!ReselectIp(t)
    PROVE  Places(t)
<1>1. PICK p : GoTo(t, p) /\ Follows(t, pc[t], p)
  <2>1. Ports!AttachedNow(t) = Attached(Body[t].ip, Body[t].uuid)
    BY DEF Ports!AttachedNow, Ports!Attached, Ports!ServersOf, Attached, ServersOf
  <2>2. QED
    BY <2>1 DEF Ports!FindAttachedIp, Ports!ReselectAttached, Ports!ReselectIp, Follows,
         Ports!LookupRefused, Ports!Reply, Ports!GoTo, GoTo, Attaching
<1>2. UNCHANGED <<cmdb, plan>>
  BY DEF Ports!FindAttachedIp, Ports!ReselectAttached, Ports!ReselectIp, Ports!cmdb, cmdb
<1>3. QED
  BY <1>1, <1>2, AimedPlaces

LEMMA FindPrefixPlaces ==
    ASSUME NEW t \in Tasks, InHand(t), Body[t].kind = "attach", Ports!FindPrefix(t)
    PROVE  Places(t)
<1>1. PICK p : GoTo(t, p) /\ Follows(t, pc[t], p)
  BY DEF Ports!FindPrefix, Follows, Ports!GoTo, GoTo
<1>2. UNCHANGED cmdb
  BY DEF Ports!FindPrefix, Ports!cmdb, cmdb
<1>3. /\ plan'[t].server = plan[t].server /\ plan'[t].endpoint = plan[t].endpoint
      /\ plan'[t].fill = plan[t].fill /\ plan'[t].name = plan[t].name
  <2>1. CASE UNCHANGED plan
    BY <2>1
  <2>2. CASE plan' = [plan EXCEPT ![t].prefix = PrefixOf[Body[t].ip]]
    BY <2>2, PrefixPlanned, InHandGives
  <2>3. QED
    BY <2>1, <2>2 DEF Ports!FindPrefix
<1>4. QED
  BY <1>1, <1>2, <1>3, AimedPlaces

\* Among intervals from 0, the smallest ends in the smallest number.
LEMMA SmallestOf ==
    ASSUME NEW S, S \subseteq Nat, S # {}
    PROVE  \E n \in S : \A m \in S : n <= m
<1> DEFINE intervals == {0 .. n : n \in S}
<1>1. intervals # {} /\ intervals \subseteq FiniteSubsetsOf(Nat)
  <2>1. ASSUME NEW n \in S PROVE 0 .. n \in FiniteSubsetsOf(Nat)
    <3>1. n \in Nat /\ 0 \in Int /\ n \in Int
      OBVIOUS
    <3>2. IsFiniteSet(0 .. n)
      BY <3>1, FS_Interval
    <3>3. 0 .. n \in SUBSET Nat
      BY <3>1
    <3>4. QED
      BY <3>2, <3>3 DEF FiniteSubsetsOf
  <2>2. QED
    BY <2>1
<1>2. PICK x \in intervals : \A y \in intervals : ~ (<<y, x>> \in StrictSubsetOrdering(Nat))
  <2> HIDE DEF intervals
  <2> QED
    BY <1>1, FS_StrictSubsetOrderingWellFounded, WFMin
<1>3. PICK n \in S : x = 0 .. n
  BY <1>2
<1>4. ASSUME NEW m \in S, m < n PROVE FALSE
  <2>1. 0 .. m \subseteq 0 .. n /\ 0 .. m # 0 .. n
    <3>1. n \in 0 .. n /\ n \notin 0 .. m
      BY <1>4
    <3>2. QED
      BY <1>4, <3>1
  <2>2. <<0 .. m, 0 .. n>> \in StrictSubsetOrdering(Nat)
    BY <2>1 DEF StrictSubsetOrdering
  <2>3. QED
    BY <1>2, <1>3, <2>2
<1>5. QED
  BY <1>4

\* next_bond_name gives a name that is not taken: there are more numbers than names.
LEMMA NameIsFree ==
    ASSUME NEW taken, IsFiniteSet(taken)
    PROVE  Ports!next_bond_name(taken) \notin taken
<1> DEFINE N == 0 .. Cardinality(taken)
           free == {n \in N : n \notin taken}
<1>1. Cardinality(taken) \in Nat
  BY FS_CardinalityType
<1>2. free # {}
  <2>1. SUFFICES ASSUME N \subseteq taken PROVE FALSE
    OBVIOUS
  <2>2. Cardinality(N) = Cardinality(taken) + 1
    BY <1>1, FS_Interval
  <2>3. Cardinality(N) <= Cardinality(taken)
    BY <2>1, FS_Subset
  <2>4. QED
    BY <1>1, <2>2, <2>3
<1>3. PICK n \in free : \A m \in free : n <= m
  <2>1. free \subseteq Nat
    BY <1>1
  <2> HIDE DEF free
  <2>2. QED
    BY <1>2, <2>1, SmallestOf
<1>4. 0 .. (n - 1) \subseteq taken
  <2>1. SUFFICES ASSUME NEW m \in 0 .. (n - 1), m \notin taken PROVE FALSE
    OBVIOUS
  <2>2. m \in free
    BY <1>1, <2>1
  <2>3. QED
    BY <1>1, <1>3, <2>2
<1>5. \E k \in N : k \notin taken /\ 0 .. (k - 1) \subseteq taken
  BY <1>3, <1>4
<1>6. Ports!Cardinality(taken) = Cardinality(taken)
  BY DEF Ports!Cardinality, Cardinality
<1>7. QED
  BY <1>5, <1>6 DEF Ports!next_bond_name

\* attach selects a server and an endpoint it can use.
LEMMA SelectServerPlaces ==
    ASSUME NEW t \in Tasks, InHand(t), Body[t].kind = "attach", Ports!SelectServer(t)
    PROVE  Places(t)
<1>1. CardsKept /\ UNCHANGED cmdb
  BY SameCards DEF Ports!SelectServer, Ports!cmdb, cmdb
<1>2. CASE GoTo(t, "acked")
  BY <1>1, <1>2, KeptPlaces DEF Ended
<1>3. ASSUME NEW s \in servers, s.uuid = Body[t].uuid, Ports!Plan(t, s.id), GoTo(t, "find ip")
      PROVE  Places(t)
  <2> DEFINE mac == Body[t].mac
             cards == EndpointsOf(s.id)
             mine == {e \in cards : mac # None /\ e.mac = mac}
             usable == IF mine # {} THEN mine ELSE {e \in cards : e.mac = None /\ IpsOn(e.id) = {}}
             fill == mac # None /\ \A c \in cards : c.mac # mac
             name == Ports!next_bond_name({c.name : c \in cards})
  <2>1. PICK e, u :
           /\ e \in IF usable # {} THEN {c.id : c \in usable} ELSE {0}
           /\ plan' = [plan EXCEPT ![t] = [server |-> s.id, endpoint |-> e, fill |-> fill,
                                           name |-> name, used |-> u, prefix |-> None]]
    BY <1>3 DEF Ports!Plan, Ports!Usable, Ports!EndpointsOf, EndpointsOf, Ports!NoRow,
         Ports!IpsOn, IpsOn, Ports!None, None
  <2>2. PICK f, n : f = fill /\ n = name
    OBVIOUS
  <2>3. PICK new : new = [server |-> s.id, endpoint |-> e, fill |-> f,
                          name |-> n, used |-> u, prefix |-> None]
    OBVIOUS
  <2>4. /\ IsPlan(new) /\ new.server = s.id /\ new.endpoint = e /\ new.fill = f /\ new.name = n
    BY <2>3 DEF IsPlan
  <2>5. plan'[t] = new
    BY <2>1, <2>2, <2>3, <2>4, PlanCarried, InHandGives
  <2>6. /\ plan'[t].server = s.id /\ plan'[t].endpoint = e
        /\ plan'[t].fill = f /\ plan'[t].name = n
    BY <2>4, <2>5
  <2>7. (f \/ mac = None) => IpsOn(e) = {}
    <3>1. IpsOn(0) = {}
      BY InHandGives DEF RowsOK, IpsOn
    <3>2. fill \/ mac = None => mine = {}
      OBVIOUS
    <3>3. QED
      BY <2>1, <2>2, <3>1, <3>2
  <2>8. ~f => \A d \in endpoints : d.id = e => d.mac = mac
    <3>1. SUFFICES ASSUME ~fill, NEW d \in endpoints, d.id = e PROVE d.mac = mac
      BY <2>2
    <3>2. d.id # 0 /\ \A c \in endpoints : c.id = d.id => c = d
      BY InHandGives DEF RowsOK
    <3>3. usable \subseteq endpoints
      BY DEF EndpointsOf
    <3>4. d \in usable
      BY <2>1, <3>1, <3>2, <3>3
    <3>5. QED
      BY <3>1, <3>4
  <2>9. \A d \in cards : d.name # n
    <3>1. IsFiniteSet({c.name : c \in cards})
      <4>1. IsFiniteSet(cards)
        BY InHandGives, FS_Subset DEF EndpointsOf
      <4>2. [c \in cards |-> c.name] \in Surjection(cards, {c.name : c \in cards})
        BY DEF Surjection
      <4>3. QED
        BY <4>1, <4>2, FS_Surjection
    <3>2. name \notin {c.name : c \in cards}
      BY <3>1, NameIsFree
    <3>3. QED
      BY <2>2, <3>2
  <2>10. Aimed(t, "find ip")'
    <3>1. Unused(t)' <=> IpsOn(e) = {}
      BY <1>1, <2>6 DEF Unused, IpsOn, cmdb
    <3>2. HasMac(t)' <=> \A d \in endpoints : d.id = e => d.mac = mac
      BY <1>1, <2>6 DEF HasMac, cmdb
    <3>3. NameFree(t)'
      BY <1>1, <2>6, <2>9 DEF NameFree, EndpointsOf, cmdb
    <3>4. QED
      BY <2>6, <2>7, <2>8, <3>1, <3>2, <3>3 DEF Aimed, Inserting
  <2>11. QED
    BY <1>1, <1>3, <2>10, KeptPlaces DEF PortsAt
<1>4. QED
  BY <1>2, <1>3 DEF Ports!SelectServer, Ports!Reply, Ports!ServersOf, Ports!GoTo, GoTo

LEMMA UpdateEndpointPlaces ==
    ASSUME NEW t \in Tasks, InHand(t), Body[t].kind = "attach", Ports!UpdateEndpoint(t)
    PROVE  Places(t)
<1>1. PICK p \in {"insert ip", "update endpoint", "select server", "dead"} : GoTo(t, p)
  BY PortUnansweredCalls
     DEF Ports!UpdateEndpoint, Ports!Reply, Ports!GoTo, GoTo, Ports!Again
<1>2. UNCHANGED <<servers, ips, serial, plan>>
  BY PortUnansweredCalls DEF Ports!UpdateEndpoint
<1>3. /\ plan[t].fill \/ Body[t].mac = None => Unused(t)
      /\ ~plan[t].fill => HasMac(t)
  <2>1. Aimed(t, "update endpoint")
    BY InHandGives DEF PortsAt, Ports!UpdateEndpoint
  <2>2. QED
    BY <2>1 DEF Aimed, Attaching, Finding
<1>4. CardsKept /\ HasMac(t)'
  <2>1. CASE plan[t].fill
    <3>1. PICK x, mac : x = plan[t].endpoint /\ mac = Body[t].mac
      OBVIOUS
    <3>2. SetMac(x, mac) /\ IpsOn(x) = {}
      BY <1>3, <2>1, <3>1 DEF Ports!UpdateEndpoint, Ports!SetMac, SetMac, Unused
    <3>3. CardsKept
      BY <1>2, <3>2, MacKeepsCards
    <3>4. ASSUME NEW e \in endpoints', e.id = x PROVE e.mac = mac
      <4>1. PICK d \in endpoints :
               e = [id |-> d.id, server |-> d.server, name |-> d.name,
                    mac |-> IF d.id = x THEN mac ELSE d.mac]
        BY <3>2 DEF SetMac
      <4>2. e.id = d.id /\ (d.id = x => e.mac = mac)
        BY <4>1
      <4>3. QED
        BY <3>4, <4>2
    <3>5. QED
      BY <1>2, <3>1, <3>3, <3>4 DEF HasMac
  <2>2. CASE ~plan[t].fill
    <3>1. UNCHANGED cmdb
      BY <1>2, <2>2 DEF Ports!UpdateEndpoint, cmdb
    <3>2. QED
      BY <1>2, <1>3, <2>2, <3>1, SameCards DEF HasMac, cmdb
  <2>3. QED
    BY <2>1, <2>2
<1>5. Unused(t)' = Unused(t)
  BY <1>2 DEF Unused, IpsOn
<1>6. p \notin Ended => Aimed(t, p)'
  BY <1>2, <1>3, <1>4, <1>5 DEF Aimed, Finding, Naming, Inserting, Ended
<1>7. QED
  BY <1>1, <1>4, <1>6, KeptPlaces DEF PortsAt

LEMMA CreateEndpointPlaces ==
    ASSUME NEW t \in Tasks, InHand(t), Body[t].kind = "attach", Ports!CreateEndpoint(t)
    PROVE  Places(t)
<1>1. NameFree(t)
  <2>1. Aimed(t, "insert endpoint")
    BY InHandGives DEF PortsAt, Ports!CreateEndpoint
  <2>2. QED
    BY <2>1 DEF Aimed, Attaching, Naming
<1>2. CASE Ports!Refused(t) /\ UNCHANGED <<cmdb, plan>>
  <2>1. GoTo(t, "dead")
    BY <1>2 DEF Ports!Refused, Ports!GoTo, GoTo
  <2>2. QED
    BY <1>2, <2>1, SameCards, KeptPlaces DEF Ended
<1>3. ASSUME NEW x, NEW n, x = plan[t].server, n = plan[t].name,
             InsertEndpoint(x, n, Body[t].mac), UNCHANGED <<servers, ips>>
      PROVE  Places(t)
  <2>1. CardsKept
    BY <1>3, InHandGives, EndpointKeepsCards
  <2>2. PICK e : /\ e.id = serial /\ e.server = x /\ e.name = n /\ e.mac = Body[t].mac
                 /\ endpoints' = endpoints \cup {e}
    BY <1>3 DEF InsertEndpoint
  <2>3. IpsOn(serial) = {} /\ \A d \in endpoints : d.id # serial
    BY InHandGives DEF RowsOK, IpsOn
  <2>4. \A y : IpsOn(y)' = IpsOn(y)
    BY <1>3 DEF IpsOn
  <2>5. CASE Ports!NoReply(t)
    <3>1. PICK p \in {"reselect endpoint", "select server", "dead"} : GoTo(t, p)
      BY <2>5, PortUnansweredCalls DEF Ports!CreateEndpoint, Ports!Again
    <3>2. UNCHANGED plan
      BY <2>5, PortUnansweredCalls
    <3>3. NameFree(t)'
      <4>1. ASSUME NEW d \in endpoints', d.server = x, d.name = n
            PROVE  d.mac = Body[t].mac /\ IpsOn(d.id)' = {}
        <5>1. CASE d = e
          BY <2>2, <2>3, <2>4, <5>1
        <5>2. CASE d \in endpoints
          <6>1. d.mac = Body[t].mac /\ IpsOn(d.id) = {}
            BY <1>1, <1>3, <4>1, <5>2 DEF NameFree, EndpointsOf
          <6>2. QED
            BY <2>4, <6>1
        <5>3. QED
          BY <2>2, <5>1, <5>2
      <4>2. QED
        BY <1>3, <3>2, <4>1 DEF NameFree, EndpointsOf, IpsOn
    <3>4. p \notin Ended => Aimed(t, p)'
      BY <1>1, <2>4, <3>2, <3>3 DEF Aimed, Finding, Naming, Inserting, Ended
    <3>5. QED
      BY <2>1, <3>1, <3>4, KeptPlaces DEF PortsAt
  <2>6. CASE GoTo(t, "insert ip") /\ plan' = [plan EXCEPT ![t].endpoint = serial]
    <3>1. PICK y : y = serial
      OBVIOUS
    <3>2. plan'[t].endpoint = y /\ plan'[t].server = plan[t].server
      BY <2>6, <3>1, InHandGives, EndpointPlanned
    <3>3. HasMac(t)'
      BY <2>2, <2>3, <3>1, <3>2 DEF HasMac
    <3>4. Unused(t)'
      <4>1. IpsOn(y)' = {}
        BY <2>3, <2>4, <3>1
      <4>2. QED
        BY <3>2, <4>1 DEF Unused, IpsOn
    <3>5. Aimed(t, "insert ip")'
      BY <1>1, <2>4, <3>2, <3>3, <3>4 DEF Aimed, Finding, Naming, Inserting
    <3>6. QED
      BY <2>1, <2>6, <3>5, KeptPlaces DEF PortsAt
  <2>7. QED
    <3>1. \/ Ports!NoReply(t)
          \/ Ports!Reply(t, "insert ip") /\ plan' = [plan EXCEPT ![t].endpoint = serial]
      <4>1. serial' # serial
        BY <1>3, InHandGives DEF InsertEndpoint, RowsOK
      <4>2. QED
        BY <4>1 DEF Ports!CreateEndpoint, Ports!cmdb
    <3>2. QED
      BY <2>5, <2>6, <3>1 DEF Ports!Reply, Ports!GoTo, GoTo
<1>4. QED
  BY <1>2, <1>3
     DEF Ports!CreateEndpoint, Ports!CanInsertEndpoint, Ports!InsertEndpoint, InsertEndpoint,
         Ports!cmdb, cmdb

LEMMA ReselectNamePlaces ==
    ASSUME NEW t \in Tasks, InHand(t), Body[t].kind = "attach", Ports!ReselectName(t)
    PROVE  Places(t)
<1>1. pc[t] = "reselect name" /\ UNCHANGED cmdb
  BY DEF Ports!ReselectName, Ports!cmdb, cmdb
<1>2. CASE GoTo(t, "insert endpoint") /\ UNCHANGED plan
  BY <1>1, <1>2, AimedPlaces DEF Follows
<1>3. ASSUME NEW e \in endpoints, e.server = plan[t].server, e.name = plan[t].name,
             GoTo(t, "insert ip"), plan' = [plan EXCEPT ![t].endpoint = e.id]
      PROVE  Places(t)
  <2>1. PICK x : x = e.id
    OBVIOUS
  <2>2. plan'[t].endpoint = x /\ plan'[t].server = plan[t].server
    BY <1>3, <2>1, EndpointPlanned, InHandGives
  <2>3. NameFree(t)
    <3>1. Aimed(t, "reselect name")
      BY <1>1, InHandGives DEF PortsAt
    <3>2. QED
      BY <3>1 DEF Aimed, Attaching, Naming
  <2>4. e.mac = Body[t].mac /\ IpsOn(x) = {} /\ \A d \in endpoints : d.id = x => d = e
    BY <1>3, <2>1, <2>3, InHandGives DEF NameFree, EndpointsOf, RowsOK
  <2>5. HasMac(t)' /\ Unused(t)'
    BY <1>1, <2>2, <2>4 DEF HasMac, Unused, IpsOn, cmdb
  <2>6. Aimed(t, "insert ip")'
    BY <2>2, <2>3, <2>5 DEF Aimed, Finding, Naming, Inserting
  <2>7. QED
    BY <1>1, <1>3, <2>6, SameCards, KeptPlaces DEF PortsAt
<1>4. QED
  BY <1>2, <1>3 DEF Ports!ReselectName, Ports!Reply, Ports!GoTo, GoTo, Ports!EndpointsOf

\* Only attach puts in its address, on an endpoint with its mac, and without
\* a mac on one that holds nothing.
LEMMA AttachedOnCard ==
    ASSUME NEW t \in Attachers, NEW endpoint, NEW i, AddressesApart, OnCards, RowsOK,
           i.ip = Body[t].ip, i.endpoint = endpoint, ips' = ips \cup {i},
           UNCHANGED <<servers, endpoints>>,
           OwnEndpoint(t, endpoint), \E e \in endpoints : e.id = endpoint,
           \A e \in endpoints : e.id = endpoint => e.mac = Body[t].mac,
           Body[t].mac = None => IpsOn(endpoint) = {}
    PROVE  OnCards'
<1>1. \A u \in Attachers : Put(u)' \subseteq Put(u) \cup {i}
  BY DEF Put, Attached, ServersOf, Ports!Inserted
<1>2. ASSUME NEW u \in Attachers, i \in Put(u)' PROVE u = t
  <2>1. PICK e \in endpoints, s \in servers :
            s.uuid = Body[u].uuid /\ e.id = endpoint /\ s.id = e.server
    BY <1>2 DEF Put, Attached, ServersOf
  <2>2. Body[u].uuid = Body[t].uuid /\ Body[u].ip = Body[t].ip
    BY <1>2, <2>1 DEF OwnEndpoint, Put, Attached
  <2>3. QED
    BY <2>2 DEF AddressesApart, Attachers
<1>3. ASSUME NEW u \in Attachers, NEW j \in Put(u)', NEW e \in endpoints, e.id = j.endpoint
      PROVE  e.mac = Body[u].mac
  <2>1. CASE j = i
    BY <1>2, <1>3, <2>1
  <2>2. CASE j \in Put(u)
    BY <1>3, <2>2 DEF OnCards
  <2>3. QED
    BY <1>1, <2>1, <2>2
<1>4. ASSUME NEW u \in Attachers, NEW v \in Attachers, NEW j \in Put(u)', NEW k \in Put(v)',
             j.endpoint = k.endpoint, Body[u].mac = None
      PROVE  j = k
  <2>1. CASE j = i /\ k = i
    BY <2>1
  <2>2. CASE j = i /\ k \in Put(v)
    BY <1>2, <1>4, <2>2 DEF IpsOn, Put, Attached
  <2>3. CASE j \in Put(u) /\ k = i
    <3>1. PICK e \in endpoints : e.id = endpoint
      OBVIOUS
    <3>2. Body[t].mac = None
      BY <1>3, <1>4, <2>3, <3>1
    <3>3. QED
      BY <1>4, <2>3, <3>2 DEF IpsOn, Put, Attached
  <2>4. CASE j \in Put(u) /\ k \in Put(v)
    BY <1>4, <2>4 DEF OnCards
  <2>5. QED
    BY <1>1, <2>1, <2>2, <2>3, <2>4
<1>5. QED
  BY <1>3, <1>4 DEF OnCards

LEMMA CreateIpPlaces ==
    ASSUME NEW t \in Tasks, InHand(t), Body[t].kind = "attach", AddressesApart, Ports!CreateIp(t)
    PROVE  Places(t)
<1>1. /\ pc[t] = "insert ip" /\ HasMac(t) /\ (Body[t].mac = None => Unused(t))
      /\ Holds(plan[t].endpoint, plan[t].server) /\ OwnServer(t, plan[t].server)
  <2>1. pc[t] = "insert ip"
    BY DEF Ports!CreateIp
  <2>2. Aimed(t, "insert ip") /\ AttachTypes(t, "insert ip") /\ OwnAt(t, "insert ip")
    BY <2>1, InHandGives DEF PortsAt, TypesAt
  <2>3. QED
    BY <2>1, <2>2 DEF Aimed, AttachTypes, OwnAt, Attaching, Inserting
<1>2. CASE Ports!Refused(t) /\ UNCHANGED <<cmdb, plan>>
  <2>1. GoTo(t, "dead")
    BY <1>2 DEF Ports!Refused, Ports!GoTo, GoTo
  <2>2. QED
    BY <1>2, <2>1, SameCards, KeptPlaces DEF Ended
<1>3. ASSUME NEW endpoint, endpoint = plan[t].endpoint, NEW prefix, NEW type,
             \E e \in endpoints : e.id = endpoint,
             InsertIp(Body[t].ip, endpoint, prefix, type),
             UNCHANGED <<servers, endpoints>>,
             (GoTo(t, "acked") /\ UNCHANGED plan) \/ Ports!NoReply(t)
      PROVE  Places(t)
  <2>1. PICK i : i.ip = Body[t].ip /\ i.endpoint = endpoint /\ ips' = ips \cup {i}
    BY <1>3 DEF InsertIp
  <2>2. PICK s \in servers : s.uuid = Body[t].uuid /\ s.id = plan[t].server
    <3>1. PICK e \in endpoints : e.id = endpoint
      BY <1>3
    <3>2. PICK r \in servers : r.id = e.server
      BY InHandGives DEF RowsJoined
    <3>3. e.server = plan[t].server
      BY <1>1, <1>3, <3>1 DEF Holds
    <3>4. QED
      BY <1>1, <3>2, <3>3 DEF OwnServer
  <2>3. OwnEndpoint(t, endpoint)
    <3>1. Holds(endpoint, plan[t].server)
      BY <1>1, <1>3
    <3>2. QED
      BY <1>1, <3>1, InHandGives, OwnOnServer
  <2>4. OnCards'
    <3>1. /\ \A e \in endpoints : e.id = endpoint => e.mac = Body[t].mac
          /\ Body[t].mac = None => IpsOn(endpoint) = {}
      BY <1>1, <1>3 DEF HasMac, Unused
    <3>2. t \in Attachers
      BY DEF Attachers
    <3>3. QED
      BY <1>3, <2>1, <2>3, <3>1, <3>2, InHandGives, AttachedOnCard
  <2>5. IsFiniteSet(endpoints')
    BY <1>3, InHandGives
  <2>6. PICK p \in {"acked", "reselect ip", "select server", "dead"} :
            GoTo(t, p) /\ UNCHANGED plan
    BY <1>1, <1>3, PortUnansweredCalls DEF Ports!Again
  <2>7. Aimed(t, "reselect ip")'
    <3>1. HasMac(t)'
      BY <1>1, <1>3, <2>6 DEF HasMac
    <3>2. ASSUME Body[t].mac = None
          PROVE  IpsOn(plan[t].endpoint)' \subseteq Attached(Body[t].ip, Body[t].uuid)'
      <4>1. IpsOn(plan[t].endpoint)' \subseteq {i}
        BY <1>1, <2>1, <2>6, <3>2 DEF IpsOn, Unused
      <4>2. PICK e \in endpoints : e.id = endpoint
        BY <1>3
      <4>3. e.server = s.id
        BY <1>1, <1>3, <2>2, <4>2 DEF Holds
      <4>4. i \in Attached(Body[t].ip, Body[t].uuid)'
        BY <1>3, <2>1, <2>2, <4>2, <4>3 DEF Attached, ServersOf
      <4>5. QED
        BY <4>1, <4>4
    <3>3. QED
      BY <1>1, <2>6, <3>1, <3>2 DEF Aimed, Finding, Naming
  <2>8. p \notin Ended => PortsAt(t, p)'
    BY <2>7 DEF PortsAt, Aimed, Ended, Attaching, Finding, Naming, Inserting
  <2>9. pc'[t] = p
    BY <2>6, InHandGives, Going
  <2>10. pc'[t] \notin Ended => PortsAt(t, pc[t])'
    BY <2>8, <2>9
  <2>11. QED
    BY <2>4, <2>5, <2>10 DEF Places
<1>4. ASSUME ~(Ports!Refused(t) /\ UNCHANGED <<cmdb, plan>>)
      PROVE  \E type :
                /\ \E e \in endpoints : e.id = plan[t].endpoint
                /\ InsertIp(Body[t].ip, plan[t].endpoint, plan[t].prefix, type)
                /\ UNCHANGED <<servers, endpoints>>
                /\ (GoTo(t, "acked") /\ UNCHANGED plan) \/ Ports!NoReply(t)
  <2>1. PICK type :
           /\ Ports!CanInsertIp(Body[t].ip, plan[t].endpoint, plan[t].prefix)
           /\ Ports!InsertIp(Body[t].ip, plan[t].endpoint, plan[t].prefix, type)
           /\ UNCHANGED <<servers, endpoints>>
           /\ (Ports!Reply(t, "acked") /\ UNCHANGED plan) \/ Ports!NoReply(t)
    BY <1>4 DEF Ports!CreateIp, Ports!cmdb, cmdb
  <2>2. QED
    BY <2>1 DEF Ports!CanInsertIp, Ports!InsertIp, InsertIp, Ports!Reply, Ports!GoTo, GoTo
<1>5. QED
  BY <1>2, <1>3, <1>4

LEMMA DetachPlaces ==
    ASSUME NEW t \in Tasks, InHand(t), Body[t].kind = "detach", Ports!Detach(t)
    PROVE  Places(t)
<1>1. CardsKept
  BY DropsKeepCards DEF Ports!Detach, Ports!DeleteIp, Ports!DeleteEndpoints
<1>2. PICK p : GoTo(t, p)
  BY PortUnanswered
     DEF Ports!Detach, Ports!DeleteIp, Ports!DeleteEndpoints, Ports!Reply, Ports!GoTo, GoTo
<1>3. PortsAt(t, p)'
  BY DEF PortsAt
<1>4. QED
  BY <1>1, <1>2, <1>3, KeptPlaces

LEMMA PortStepPlaces ==
    ASSUME NEW t \in Tasks, InHand(t), ~LookupErrors, AddressesApart, PortStep(t)
    PROVE  Places(t)
<1>1. IsPort(t) /\ pc[t] \in CallsOf(t)
  BY InHandGives DEF PortStep
<1>2. CASE Ports!Unreachable(t)
  BY <1>1, <1>2, UnreachedPlaces DEF Ports!Unreachable, Ports!cmdb, cmdb
<1>3. CASE Ports!Refuses(t)
  <2>1. UNCHANGED cmdb /\ GoTo(t, "dead")
    BY <1>3 DEF Ports!Refuses, Ports!cmdb, cmdb, Ports!Refused, Ports!GoTo, GoTo
  <2>2. QED
    BY <2>1, SameCards, KeptPlaces DEF Ended
<1>4. CASE Ports!Attach(t)
  <2>1. Body[t].kind = "attach"
    BY <1>1, <1>4
       DEF Ports!Attach, CallsOf, IsPort, Ports!SelectServer, Ports!FindAttachedIp,
           Ports!FindPrefix, Ports!UpdateEndpoint, Ports!CreateEndpoint,
           Ports!ReselectAttached, Ports!ReselectName, Ports!CreateIp, Ports!ReselectIp
  <2>2. QED
    BY <1>4, <2>1, SelectServerPlaces, LookupPlaces, FindPrefixPlaces, UpdateEndpointPlaces,
       CreateEndpointPlaces, ReselectNamePlaces, CreateIpPlaces
       DEF Ports!Attach
<1>5. CASE Ports!Detach(t)
  <2>1. Body[t].kind = "detach"
    BY <1>1, <1>5
       DEF Ports!Detach, CallsOf, Attaching, IsPort, Ports!DeleteIp, Ports!DeleteEndpoints
  <2>2. QED
    BY <1>5, <2>1, DetachPlaces
<1>6. QED
  BY <1>2, <1>3, <1>4, <1>5 DEF PortStep

-----------------------------------------------------------------------------
(* The addresses create writes                                             *)

\* Nothing is known of the other messages.
LEMMA OthersPlaces ==
    ASSUME NEW t \in Tasks, InHand(t), CardsKept, Body[t].kind \notin {"attach", "create"}
    PROVE  Places(t)
<1>1. IsFiniteSet(endpoints') /\ OnCards'
  BY InHandGives, OnCardsKept DEF CardsKept
<1>2. PortsAt(t, pc[t])'
  BY DEF PortsAt
<1>3. QED
  BY <1>1, <1>2 DEF Places

\* The cards and addresses that are left.
Lists(w, cards, addresses) == w.cards = cards /\ w.addresses = addresses

LEMMA ListPart ==
    ASSUME NEW w, IsWork(w), NEW a
    PROVE  /\ Lists([w EXCEPT !.failed = a], w.cards, w.addresses)
           /\ Lists([w EXCEPT !.cards = a], a, w.addresses)
           /\ Lists([w EXCEPT !.addresses = a], w.cards, a)
           /\ Lists([w EXCEPT !.victims = a], w.cards, w.addresses)
           /\ Lists([w EXCEPT !.server = a], w.cards, w.addresses)
           /\ Lists([w EXCEPT !.endpoint = a], w.cards, w.addresses)
           /\ Lists([w EXCEPT !.type = a], w.cards, w.addresses)
           /\ Lists([w EXCEPT !.used = a], w.cards, w.addresses)
<1>1. PICK p, q, r, s, x, y, z, k :
         w = [failed |-> p, victims |-> q, server |-> r, cards |-> s, addresses |-> x,
              endpoint |-> y, used |-> z, type |-> k]
  BY DEF IsWork
<1>2. QED
  BY <1>1 DEF Lists

LEMMA ListParts ==
    ASSUME NEW w, IsWork(w), NEW a, NEW b, NEW c
    PROVE  /\ Lists([w EXCEPT !.failed = a, !.cards = b], b, w.addresses)
           /\ Lists([w EXCEPT !.failed = a, !.addresses = b], w.cards, b)
           /\ Lists([w EXCEPT !.type = a, !.used = b], w.cards, w.addresses)
           /\ Lists([w EXCEPT !.endpoint = a, !.cards = b, !.addresses = c], b, c)
<1>1. PICK p, q, r, s, x, y, z, k :
         w = [failed |-> p, victims |-> q, server |-> r, cards |-> s, addresses |-> x,
              endpoint |-> y, used |-> z, type |-> k]
  BY DEF IsWork
<1>2. QED
  BY <1>1 DEF Lists

\* The lists are parts of those of the message.
ListsOK(t, w) == w.cards \in Seq(CardsIn(t)) /\ w.addresses \in Seq(AddressesIn(t))

LEMMA ListsAre ==
    ASSUME NEW t \in Tasks, InHand(t), Body[t].kind = "create"
    PROVE  IsWork(work[t]) /\ ListsOK(t, work[t]) /\ Listed(t, pc[t])
<1>1. IsWork(work[t]) /\ Listed(t, pc[t])
  BY InHandGives, WorkIs DEF PortsAt
<1>2. QED
  BY <1>1 DEF ListsOK, Listed

\* From call c create goes on at call p with the same work.
Turns(c, p) ==
    \/ p \in Ended \cup {"look up"}
    \/ p = Rows!Again(c)
    \/ c = Rows!Again(p)
    \/ c \in Late /\ p \in {"write price", "write flavor"}

LEMMA ListedGoesOn ==
    ASSUME NEW t \in Tasks, NEW c, NEW p, Listed(t, c), Turns(c, p)
    PROVE  p \in Ended \/ Listed(t, p)
<1>1. \/ p \in Ended \cup {"look up"} \/ p = c
      \/ c \in {"insert server", "reselect server"} /\ p \in {"insert server", "reselect server"}
      \/ c \in {"insert card", "reselect card"} /\ p \in {"insert card", "reselect card"}
      \/ c \in {"insert address", "reselect address"} /\ p \in {"insert address", "reselect address"}
      \/ c \in Late /\ p \in {"write price", "write flavor"}
  BY DEF Turns, Rows!Again
<1>2. QED
  BY <1>1 DEF Listed, Late

LEMMA WorkStaysPlaces ==
    ASSUME NEW t \in Tasks, InHand(t), Body[t].kind = "create", CardsKept, UNCHANGED work,
           NEW p, GoTo(t, p), Turns(pc[t], p)
    PROVE  Places(t)
<1>1. p \notin Ended => Listed(t, p)
  BY ListsAre, ListedGoesOn
<1>2. p \notin Ended => Listed(t, p)'
  BY <1>1 DEF Listed
<1>3. p \notin Ended => PortsAt(t, p)'
  BY <1>2 DEF PortsAt
<1>4. QED
  BY <1>3, KeptPlaces

\* Create goes on with new work on its row.
LEMMA ListedPlaces ==
    ASSUME NEW t \in Tasks, InHand(t), Body[t].kind = "create", CardsKept, NEW w, work'[t] = w,
           NEW p, GoTo(t, p), ListsOK(t, w),
           p \in {"insert card", "reselect card"} => w.cards # <<>>,
           p \in {"find prefix", "insert address", "reselect address"} => w.addresses # <<>>
    PROVE  Places(t)
<1>1. Listed(t, p)'
  BY DEF Listed, ListsOK
<1>2. PortsAt(t, p)'
  BY <1>1 DEF PortsAt
<1>3. QED
  BY <1>2, KeptPlaces

LEMMA ContinuePlaces ==
    ASSUME NEW t \in Tasks, InHand(t), Body[t].kind = "create", CardsKept, NEW w, IsWork(w),
           ListsOK(t, w), Rows!Continue(t, w)
    PROVE  Places(t)
<1>1. PICK p : p = Rows!NextCall(w) /\ GoTo(t, p)
  BY DEF Rows!Continue, Rows!GoTo, GoTo
<1>2. work'[t] = w
  BY InHandGives, WorkCarried DEF Rows!Continue, Rows!Carry
<1>3. /\ p \in {"insert card", "reselect card"} => w.cards # <<>>
      /\ p \in {"find prefix", "insert address", "reselect address"} => w.addresses # <<>>
  BY <1>1 DEF Rows!NextCall
<1>4. QED
  BY <1>1, <1>2, <1>3, ListedPlaces

LEMMA HeadAndTail ==
    ASSUME NEW S, NEW s \in Seq(S), s # <<>>
    PROVE  Head(s) \in S /\ Tail(s) \in Seq(S)
OBVIOUS

\* A refusal that is recorded, and a call without an answer.
LEMMA ReportPlaces ==
    ASSUME NEW t \in Tasks, InHand(t), Body[t].kind = "create", CardsKept, Rows!Report(t)
    PROVE  Places(t)
<1>1. IsWork(work[t]) /\ ListsOK(t, work[t]) /\ Listed(t, pc[t])
  BY ListsAre
<1>2. CASE UNCHANGED work /\ (GoTo(t, "dead") \/ GoTo(t, "acked"))
  BY <1>2, WorkStaysPlaces DEF Turns, Ended
<1>3. CASE pc[t] = "write batch" /\ GoTo(t, "write price") /\ UNCHANGED work
  BY <1>3, WorkStaysPlaces DEF Turns, Late
<1>4. CASE /\ pc[t] = "write price" /\ GoTo(t, "write flavor")
           /\ Rows!Carry(t, [work[t] EXCEPT !.failed = TRUE])
  <2>1. PICK w : w = [work[t] EXCEPT !.failed = TRUE] /\ work' = [work EXCEPT ![t] = w]
    BY <1>4 DEF Rows!Carry
  <2>2. SameRow(w, work[t]) /\ Lists(w, work[t].cards, work[t].addresses)
    <3>1. \A a : /\ SameRow([work[t] EXCEPT !.failed = a], work[t])
                 /\ Lists([work[t] EXCEPT !.failed = a], work[t].cards, work[t].addresses)
      BY <1>1, WorkPart, ListPart
    <3>2. QED
      BY <2>1, <3>1
  <2>3. work'[t] = w /\ ListsOK(t, w)
    BY <1>1, <2>1, <2>2, InHandGives, WorkCarried DEF SameRow, OnRow, Lists, ListsOK
  <2>4. QED
    BY <1>4, <2>3, ListedPlaces
<1>5. CASE pc[t] = "write flavor" /\ Rows!Continue(t, work[t])
  <2>1. PICK w : w = work[t] /\ Rows!Continue(t, w)
    BY <1>5
  <2>2. QED
    BY <1>1, <2>1, ContinuePlaces
<1>6. CASE pc[t] = "insert card" /\ Rows!SkipCard(t)
  <2>1. PICK w : /\ w = [work[t] EXCEPT !.failed = TRUE, !.cards = Tail(work[t].cards)]
                 /\ Rows!Continue(t, w)
    BY <1>6 DEF Rows!SkipCard
  <2>2. SameRow(w, work[t]) /\ Lists(w, Tail(work[t].cards), work[t].addresses)
    BY <1>1, <2>1, WorkParts, ListParts
  <2>3. Tail(work[t].cards) \in Seq(CardsIn(t))
    <3>1. work[t].cards \in Seq(CardsIn(t)) /\ work[t].cards # <<>>
      BY <1>1, <1>6 DEF Listed
    <3>2. QED
      BY <3>1, HeadAndTail
  <2>4. IsWork(w) /\ ListsOK(t, w)
    BY <1>1, <2>2, <2>3 DEF SameRow, OnRow, Lists, ListsOK
  <2>5. QED
    BY <2>1, <2>4, ContinuePlaces
<1>7. CASE pc[t] \in {"find prefix", "insert address"} /\ Rows!SkipAddress(t)
  <2>1. PICK w : /\ w = [work[t] EXCEPT !.failed = TRUE, !.addresses = Tail(work[t].addresses)]
                 /\ Rows!Continue(t, w)
    BY <1>7 DEF Rows!SkipAddress
  <2>2. SameRow(w, work[t]) /\ Lists(w, work[t].cards, Tail(work[t].addresses))
    BY <1>1, <2>1, WorkParts, ListParts
  <2>3. Tail(work[t].addresses) \in Seq(AddressesIn(t))
    <3>1. work[t].addresses \in Seq(AddressesIn(t)) /\ work[t].addresses # <<>>
      BY <1>1, <1>7 DEF Listed
    <3>2. QED
      BY <3>1, HeadAndTail
  <2>4. IsWork(w) /\ ListsOK(t, w)
    BY <1>1, <2>2, <2>3 DEF SameRow, OnRow, Lists, ListsOK
  <2>5. QED
    BY <2>1, <2>4, ContinuePlaces
<1>8. QED
  BY <1>2, <1>3, <1>4, <1>5, <1>6, <1>7 DEF Rows!Report, Rows!StopCreate, Rows!GoTo, GoTo

LEMMA RowUnansweredPlaces ==
    ASSUME NEW t \in Tasks, InHand(t), Body[t].kind = "create", CardsKept, Rows!NoReply(t)
    PROVE  Places(t)
<1>1. CASE Rows!Interrupted(t, Rows!Again(pc[t]), Rows!FirstCall(t)) /\ UNCHANGED work
  <2>1. PICK p \in {Rows!Again(pc[t]), Rows!FirstCall(t), "dead"} : GoTo(t, p)
    BY <1>1 DEF Rows!Interrupted, Rows!Rerun, Rows!Refused, Rows!GoTo, GoTo
  <2>2. Rows!FirstCall(t) = "look up"
    BY DEF Rows!FirstCall
  <2>3. Turns(pc[t], p)
    BY <2>1, <2>2 DEF Turns, Ended
  <2>4. QED
    BY <1>1, <2>1, <2>3, WorkStaysPlaces
<1>2. CASE Rows!Report(t)
  BY <1>2, ReportPlaces
<1>3. QED
  BY <1>1, <1>2 DEF Rows!NoReply

LEMMA NotAppliedPlaces ==
    ASSUME NEW t \in Tasks, InHand(t), Body[t].kind = "create", UNCHANGED cmdb,
           Rows!NoReply(t) \/ Rows!Report(t)
    PROVE  Places(t)
BY SameCards, RowUnansweredPlaces, ReportPlaces

LEMMA LookUpPlaces ==
    ASSUME NEW t \in Tasks, InHand(t), CardsListed, Body[t].kind = "create", Rows!LookUp(t)
    PROVE  Places(t)
<1>1. UNCHANGED cmdb /\ GoTo(t, "select servers") /\ CardsKept
  BY SameCards DEF Rows!LookUp, Rows!cmdb, cmdb, Rows!Reply, Rows!GoTo, GoTo
<1>2. PICK failed, w : /\ w = [Rows!NoWork EXCEPT !.failed = failed, !.cards = Body[t].cards]
                       /\ work' = [work EXCEPT ![t] = w]
  BY DEF Rows!LookUp, Rows!Carry
<1>3. IsWork(Rows!NoWork) /\ Rows!NoWork.addresses = <<>>
  BY DEF Rows!NoWork, IsWork
<1>4. SameRow(w, Rows!NoWork) /\ Lists(w, Body[t].cards, <<>>)
  <2>1. SameRow(w, Rows!NoWork)
    BY <1>2, <1>3, WorkParts
  <2>2. Lists(w, Body[t].cards, Rows!NoWork.addresses)
    BY <1>2, <1>3, ListParts
  <2>3. QED
    BY <1>3, <2>1, <2>2
<1>5. IsWork(w) /\ ListsOK(t, w)
  BY <1>4 DEF SameRow, OnRow, Lists, ListsOK, CardsListed
<1>6. work'[t] = w
  BY <1>2, <1>5, InHandGives, WorkCarried
<1>7. QED
  BY <1>1, <1>5, <1>6, ListedPlaces

\* The removal goes on, or the new server is next.
LEMMA RemovalPlaces ==
    ASSUME NEW t \in Tasks, InHand(t), Body[t].kind = "create", CardsKept, NEW left,
           GoTo(t, Rows!AfterRemoval(t, left)),
           work' = [work EXCEPT ![t] = [work[t] EXCEPT !.victims = left]]
    PROVE  Places(t)
<1>1. PICK w : w = [work[t] EXCEPT !.victims = left] /\ work' = [work EXCEPT ![t] = w]
  OBVIOUS
<1>2. SameRow(w, work[t]) /\ Lists(w, work[t].cards, work[t].addresses)
  <2>1. \A a : /\ SameRow([work[t] EXCEPT !.victims = a], work[t])
                /\ Lists([work[t] EXCEPT !.victims = a], work[t].cards, work[t].addresses)
    BY ListsAre, WorkPart, ListPart
  <2>2. QED
    BY <1>1, <2>1
<1>3. work'[t] = w /\ ListsOK(t, w)
  BY <1>1, <1>2, ListsAre, InHandGives, WorkCarried DEF SameRow, OnRow, Lists, ListsOK
<1>4. PICK p : /\ GoTo(t, p)
               /\ p = IF left # {} THEN "delete server" ELSE "insert server"
  BY DEF Rows!AfterRemoval
<1>5. QED
  BY <1>3, <1>4, ListedPlaces

LEMMA SelectServersPlaces ==
    ASSUME NEW t \in Tasks, InHand(t), Body[t].kind = "create", Rows!SelectServers(t)
    PROVE  Places(t)
<1>1. UNCHANGED cmdb /\ CardsKept
  BY SameCards DEF Rows!SelectServers, Rows!cmdb, cmdb
<1>2. PICK left : /\ left = Rows!Victims(t) /\ GoTo(t, Rows!AfterRemoval(t, left))
                  /\ work' = [work EXCEPT ![t] = [work[t] EXCEPT !.victims = left]]
  BY DEF Rows!SelectServers, Rows!Reply, Rows!GoTo, GoTo, Rows!Carry
<1>3. QED
  BY <1>1, <1>2, RemovalPlaces

LEMMA DeleteVictimPlaces ==
    ASSUME NEW t \in Tasks, InHand(t), Body[t].kind = "create", Rows!DeleteVictim(t)
    PROVE  Places(t)
<1>1. PICK v \in work[t].victims :
          /\ DeleteServer(v) /\ UNCHANGED serial
          /\ \/ /\ GoTo(t, Rows!AfterRemoval(t, work[t].victims \ {v}))
                /\ work' = [work EXCEPT ![t] = [work[t] EXCEPT !.victims = work[t].victims \ {v}]]
             \/ Rows!NoReply(t)
  BY DEF Rows!DeleteVictim, Rows!Reply, Rows!GoTo, GoTo, Rows!Carry, Rows!DeleteServer,
         DeleteServer, Rows!EndpointsOf, EndpointsOf
<1>2. CardsKept
  BY <1>1, DropsKeepCards DEF DeleteServer
<1>3. CASE Rows!NoReply(t)
  BY <1>2, <1>3, RowUnansweredPlaces
<1>4. CASE ~Rows!NoReply(t)
  <2>1. PICK left : left = work[t].victims \ {v}
    OBVIOUS
  <2>2. QED
    BY <1>1, <1>2, <1>4, <2>1, RemovalPlaces
<1>5. QED
  BY <1>3, <1>4

\* Create goes on with the row it put in or found again.
LEMMA OnItsRowPlaces ==
    ASSUME NEW t \in Tasks, InHand(t), Body[t].kind = "create", CardsKept, NEW x,
           GoTo(t, "write batch"),
           work' = [work EXCEPT ![t] = [work[t] EXCEPT !.server = x]]
    PROVE  Places(t)
<1>1. PICK w : w = [work[t] EXCEPT !.server = x] /\ work' = [work EXCEPT ![t] = w]
  OBVIOUS
<1>2. OnRow(w, x, work[t].endpoint, work[t].used) /\ Lists(w, work[t].cards, work[t].addresses)
  <2>1. \A a : /\ OnRow([work[t] EXCEPT !.server = a], a, work[t].endpoint, work[t].used)
                /\ Lists([work[t] EXCEPT !.server = a], work[t].cards, work[t].addresses)
    BY ListsAre, WorkPart, ListPart
  <2>2. QED
    BY <1>1, <2>1
<1>3. work'[t] = w /\ ListsOK(t, w)
  BY <1>1, <1>2, ListsAre, InHandGives, WorkCarried DEF OnRow, Lists, ListsOK
<1>4. QED
  BY <1>3, ListedPlaces

LEMMA CreateServerPlaces ==
    ASSUME NEW t \in Tasks, InHand(t), Body[t].kind = "create", Rows!CreateServer(t)
    PROVE  Places(t)
<1>1. CASE Rows!Conflict(t)
  BY <1>1, NotAppliedPlaces DEF Rows!Conflict, Rows!cmdb, cmdb
<1>2. CASE ~Rows!Conflict(t)
  <2>1. PICK x, s : /\ x = serial
                    /\ s = [id |-> serial, uuid |-> Body[t].uuid, hostname |-> Body[t].hostname,
                            raw_info |-> t, state |-> "setup",
                            fields |-> [f \in Rows!Fields |-> Rows!None]]
    OBVIOUS
  <2>2. /\ servers' = servers \cup {s} /\ serial' = serial + 1 /\ UNCHANGED <<endpoints, ips>>
        /\ \/ /\ GoTo(t, "write batch")
              /\ work' = [work EXCEPT ![t] = [work[t] EXCEPT !.server = x]]
           \/ Rows!NoReply(t)
    BY <1>2, <2>1 DEF Rows!CreateServer, Rows!Reply, Rows!GoTo, GoTo, Rows!Carry
  <2>3. IsServer(s) /\ s.id = serial /\ s.uuid = Body[t].uuid /\ s.hostname = Body[t].hostname
    BY <2>1 DEF IsServer
  <2>4. CardsKept
    BY <2>2, <2>3, ServerKeepsCards, InHandGives DEF PutsServer
  <2>5. CASE Rows!NoReply(t)
    BY <2>4, <2>5, RowUnansweredPlaces
  <2>6. CASE ~Rows!NoReply(t)
    BY <2>1, <2>2, <2>4, <2>6, OnItsRowPlaces
  <2>7. QED
    BY <2>5, <2>6
<1>3. QED
  BY <1>1, <1>2

LEMMA ReselectServerPlaces ==
    ASSUME NEW t \in Tasks, InHand(t), Body[t].kind = "create", Rows!ReselectServer(t)
    PROVE  Places(t)
<1>1. pc[t] = "reselect server" /\ UNCHANGED cmdb /\ CardsKept
  BY SameCards DEF Rows!ReselectServer, Rows!cmdb, cmdb
<1>2. ASSUME NEW s \in servers, GoTo(t, "write batch"),
             work' = [work EXCEPT ![t] = [work[t] EXCEPT !.server = s.id]]
      PROVE  Places(t)
  <2>1. PICK x : x = s.id
    OBVIOUS
  <2>2. QED
    BY <1>1, <1>2, <2>1, OnItsRowPlaces
<1>3. CASE GoTo(t, "insert server") /\ UNCHANGED work
  BY <1>1, <1>3, WorkStaysPlaces DEF Turns, Rows!Again
<1>4. QED
  BY <1>2, <1>3 DEF Rows!ReselectServer, Rows!Reply, Rows!GoTo, GoTo, Rows!Carry

\* The fields and the state of the row.
LEMMA WriteFieldsPlaces ==
    ASSUME NEW t \in Tasks, InHand(t), Body[t].kind = "create",
           Rows!WriteBatch(t) \/ Rows!WritePrice(t) \/ Rows!WriteFlavor(t) \/ Rows!WriteState(t)
    PROVE  Places(t)
<1>1. pc[t] \in Late
  BY DEF Rows!WriteBatch, Rows!WritePrice, Rows!WriteFlavor, Rows!WriteState, Late
<1>2. CardsKept
  <2>1. CASE \E F \in SUBSET {"price", "flavor"} : Rows!Write(t, F)
    BY <2>1, WriteUpdates, ServerKeepsCards, InHandGives
  <2>2. CASE Rows!WriteState(t)
    BY <2>2, StateUpdates, ServerKeepsCards, InHandGives
  <2>3. QED
    BY <2>1, <2>2 DEF Rows!WriteBatch, Rows!WritePrice, Rows!WriteFlavor, Rows!Fields
<1>3. CASE Rows!Continue(t, work[t])
  <2>1. PICK w : w = work[t] /\ Rows!Continue(t, w)
    BY <1>3
  <2>2. QED
    BY <1>2, <2>1, ListsAre, ContinuePlaces
<1>4. CASE UNCHANGED work /\ (GoTo(t, "write flavor") \/ GoTo(t, "acked"))
  BY <1>1, <1>2, <1>4, WorkStaysPlaces DEF Turns, Ended
<1>5. CASE Rows!NoReply(t)
  BY <1>2, <1>5, RowUnansweredPlaces
<1>6. QED
  BY <1>3, <1>4, <1>5 DEF Rows!WriteBatch, Rows!WritePrice, Rows!WriteFlavor,
     Rows!WriteState, Rows!Reply, Rows!GoTo, GoTo

\* The card is written; its addresses are next.
LEMMA CardWrittenPlaces ==
    ASSUME NEW t \in Tasks, InHand(t), CardsListed, Body[t].kind = "create", CardsKept,
           pc[t] \in {"insert card", "reselect card"}, NEW x, Rows!CardWritten(t, x)
    PROVE  Places(t)
<1>1. PICK w : /\ w = [work[t] EXCEPT !.endpoint = x, !.cards = Tail(work[t].cards),
                                      !.addresses = Rows!Card(t).addresses]
               /\ Rows!Continue(t, w)
  BY DEF Rows!CardWritten
<1>2. IsWork(work[t]) /\ work[t].cards \in Seq(CardsIn(t)) /\ work[t].cards # <<>>
  BY ListsAre DEF Listed
<1>3. /\ OnRow(w, work[t].server, x, work[t].used)
      /\ Lists(w, Tail(work[t].cards), Rows!Card(t).addresses)
  BY <1>1, <1>2, WorkParts, ListParts
<1>4. Tail(work[t].cards) \in Seq(CardsIn(t)) /\ Rows!Card(t) \in CardsIn(t)
  BY <1>2, HeadAndTail DEF Rows!Card
<1>5. Rows!Card(t).addresses \in Seq(AddressesIn(t))
  BY <1>4 DEF CardsListed
<1>6. IsWork(w) /\ ListsOK(t, w)
  BY <1>3, <1>4, <1>5 DEF OnRow, Lists, ListsOK
<1>7. QED
  BY <1>1, <1>6, ContinuePlaces

LEMMA CreateCardPlaces ==
    ASSUME NEW t \in Tasks, InHand(t), CardsListed, Body[t].kind = "create", Rows!CreateCard(t)
    PROVE  Places(t)
<1>1. CASE Rows!Conflict(t)
  BY <1>1, NotAppliedPlaces DEF Rows!Conflict, Rows!cmdb, cmdb
<1>2. ASSUME NEW server, NEW name, NEW mac, InsertEndpoint(server, name, mac),
             UNCHANGED <<servers, ips>>, Rows!CardWritten(t, serial) \/ Rows!NoReply(t)
      PROVE  Places(t)
  <2>1. CardsKept
    BY <1>2, EndpointKeepsCards, InHandGives
  <2>2. CASE Rows!CardWritten(t, serial)
    <3>1. PICK x : x = serial
      OBVIOUS
    <3>2. QED
      BY <2>1, <2>2, <3>1, CardWrittenPlaces DEF Rows!CreateCard
  <2>3. QED
    BY <1>2, <2>1, <2>2, RowUnansweredPlaces
<1>3. QED
  BY <1>1, <1>2 DEF Rows!CreateCard, Rows!InsertEndpoint, InsertEndpoint

LEMMA ReselectCardPlaces ==
    ASSUME NEW t \in Tasks, InHand(t), CardsListed, Body[t].kind = "create", Rows!ReselectCard(t)
    PROVE  Places(t)
<1>1. pc[t] = "reselect card" /\ UNCHANGED cmdb /\ CardsKept
  BY SameCards DEF Rows!ReselectCard, Rows!cmdb, cmdb
<1>2. ASSUME NEW e, Rows!CardWritten(t, e.id)
      PROVE  Places(t)
  <2>1. PICK x : x = e.id
    OBVIOUS
  <2>2. QED
    BY <1>1, <1>2, <2>1, CardWrittenPlaces
<1>3. CASE GoTo(t, "insert card") /\ UNCHANGED work
  BY <1>1, <1>3, WorkStaysPlaces DEF Turns, Rows!Again
<1>4. QED
  BY <1>2, <1>3 DEF Rows!ReselectCard, Rows!Reply, Rows!GoTo, GoTo

LEMMA CreateFindPrefixPlaces ==
    ASSUME NEW t \in Tasks, InHand(t), Body[t].kind = "create", Rows!FindPrefix(t)
    PROVE  Places(t)
<1>1. pc[t] = "find prefix" /\ UNCHANGED cmdb /\ CardsKept
  BY SameCards DEF Rows!FindPrefix, Rows!cmdb, cmdb
<1>2. /\ IsWork(work[t]) /\ work[t].addresses \in Seq(AddressesIn(t)) /\ work[t].addresses # <<>>
      /\ ListsOK(t, work[t])
  BY <1>1, ListsAre DEF Listed
<1>3. CASE Rows!SkipAddress(t)
  <2>1. PICK w : /\ w = [work[t] EXCEPT !.failed = TRUE, !.addresses = Tail(work[t].addresses)]
                 /\ Rows!Continue(t, w)
    BY <1>3 DEF Rows!SkipAddress
  <2>2. SameRow(w, work[t]) /\ Lists(w, work[t].cards, Tail(work[t].addresses))
    BY <1>2, <2>1, WorkParts, ListParts
  <2>3. Tail(work[t].addresses) \in Seq(AddressesIn(t))
    BY <1>2, HeadAndTail
  <2>4. IsWork(w) /\ ListsOK(t, w)
    BY <1>2, <2>2, <2>3 DEF SameRow, OnRow, Lists, ListsOK
  <2>5. QED
    BY <1>1, <2>1, <2>4, ContinuePlaces
<1>4. ASSUME NEW type, NEW used, GoTo(t, "insert address"),
             work' = [work EXCEPT ![t] = [work[t] EXCEPT !.type = type, !.used = used]]
      PROVE  Places(t)
  <2>1. PICK w : /\ w = [work[t] EXCEPT !.type = type, !.used = used]
                 /\ work' = [work EXCEPT ![t] = w]
    BY <1>4
  <2>2. /\ OnRow(w, work[t].server, work[t].endpoint, used)
        /\ Lists(w, work[t].cards, work[t].addresses)
    BY <1>2, <2>1, WorkParts, ListParts
  <2>3. work'[t] = w
    BY <2>1, <2>2, InHandGives, WorkCarried DEF OnRow
  <2>4. ListsOK(t, w) /\ w.addresses # <<>>
    BY <1>2, <2>2 DEF Lists, ListsOK
  <2>5. QED
    BY <1>1, <1>4, <2>3, <2>4, ListedPlaces
<1>5. ASSUME ~Rows!SkipAddress(t)
      PROVE  \E type, used : /\ GoTo(t, "insert address")
                             /\ work' = [work EXCEPT ![t] =
                                            [work[t] EXCEPT !.type = type, !.used = used]]
  <2>1. PICK type : /\ Rows!Reply(t, "insert address")
                    /\ work' = [work EXCEPT ![t] = [work[t] EXCEPT !.type = type,
                                                       !.used = work[t].used \cup {type}]]
    BY <1>5 DEF Rows!FindPrefix, Rows!Carry
  <2>2. PICK used : used = work[t].used \cup {type}
    OBVIOUS
  <2>3. QED
    BY <2>1, <2>2 DEF Rows!Reply, Rows!GoTo, GoTo
<1>6. QED
  BY <1>3, <1>4, <1>5

LEMMA AddressWrittenPlaces ==
    ASSUME NEW t \in Tasks, InHand(t), Body[t].kind = "create", CardsKept,
           pc[t] \in {"insert address", "reselect address"}, Rows!AddressWritten(t)
    PROVE  Places(t)
<1>1. PICK w : w = [work[t] EXCEPT !.addresses = Tail(work[t].addresses)] /\ Rows!Continue(t, w)
  BY DEF Rows!AddressWritten
<1>2. /\ IsWork(work[t]) /\ work[t].addresses \in Seq(AddressesIn(t)) /\ work[t].addresses # <<>>
      /\ ListsOK(t, work[t])
  BY ListsAre DEF Listed
<1>3. SameRow(w, work[t]) /\ Lists(w, work[t].cards, Tail(work[t].addresses))
  <2>1. \A a : /\ SameRow([work[t] EXCEPT !.addresses = a], work[t])
                /\ Lists([work[t] EXCEPT !.addresses = a], work[t].cards, a)
    BY <1>2, WorkPart, ListPart
  <2>2. QED
    BY <1>1, <2>1
<1>4. Tail(work[t].addresses) \in Seq(AddressesIn(t))
  BY <1>2, HeadAndTail
<1>5. IsWork(w) /\ ListsOK(t, w)
  BY <1>2, <1>3, <1>4 DEF SameRow, OnRow, Lists, ListsOK
<1>6. QED
  BY <1>1, <1>5, ContinuePlaces

LEMMA CreateAddressPlaces ==
    ASSUME NEW t \in Tasks, InHand(t), AddressesApart, Body[t].kind = "create",
           Rows!CreateAddress(t)
    PROVE  Places(t)
<1>1. CASE Rows!Conflict(t)
  BY <1>1, NotAppliedPlaces DEF Rows!Conflict, Rows!cmdb, cmdb
<1>2. ASSUME NEW ip, NEW endpoint, NEW prefix, NEW type,
             ip = Rows!Address(t), endpoint = work[t].endpoint,
             InsertIp(ip, endpoint, prefix, type), UNCHANGED <<servers, endpoints>>,
             Rows!AddressWritten(t) \/ Rows!NoReply(t)
      PROVE  Places(t)
  <2>1. pc[t] = "insert address" /\ pc[t] \in Late
    BY DEF Rows!CreateAddress, Late
  <2>2. /\ work[t].addresses \in Seq(AddressesIn(t)) /\ work[t].addresses # <<>>
        /\ OwnServer(t, work[t].server)
    BY <2>1, ListsAre, InHandGives DEF Listed, OwnAt
  <2>3. ip \in AddressesIn(t)
    BY <1>2, <2>2, HeadAndTail DEF Rows!Address
  <2>4. Holds(endpoint, work[t].server)
    BY <1>2, <2>1, InHandGives DEF TypesAt, CreateTypes
  <2>5. OwnEndpoint(t, endpoint)
    BY <2>2, <2>4, InHandGives, OwnOnServer
  <2>6. CardsKept
    BY <1>2, <2>3, <2>5, AddressKeepsCards
  <2>7. QED
    BY <1>2, <2>1, <2>6, AddressWrittenPlaces, RowUnansweredPlaces
<1>3. ASSUME ~Rows!Conflict(t)
      PROVE  \E prefix : /\ InsertIp(Rows!Address(t), work[t].endpoint, prefix, work[t].type)
                         /\ UNCHANGED <<servers, endpoints>>
                         /\ Rows!AddressWritten(t) \/ Rows!NoReply(t)
  BY <1>3 DEF Rows!CreateAddress, Rows!InsertIp, InsertIp
<1>4. QED
  BY <1>1, <1>2, <1>3

LEMMA ReselectAddressPlaces ==
    ASSUME NEW t \in Tasks, InHand(t), Body[t].kind = "create", Rows!ReselectAddress(t)
    PROVE  Places(t)
<1>1. pc[t] = "reselect address" /\ UNCHANGED cmdb /\ CardsKept
  BY SameCards DEF Rows!ReselectAddress, Rows!cmdb, cmdb
<1>2. CASE Rows!AddressWritten(t)
  BY <1>1, <1>2, AddressWrittenPlaces
<1>3. CASE GoTo(t, "insert address") /\ UNCHANGED work
  BY <1>1, <1>3, WorkStaysPlaces DEF Turns, Rows!Again
<1>4. QED
  BY <1>2, <1>3 DEF Rows!ReselectAddress, Rows!Reply, Rows!GoTo, GoTo

\* delete and resize.
LEMMA OtherStepPlaces ==
    ASSUME NEW t \in Tasks, InHand(t), Body[t].kind \in {"delete", "resize"},
           Rows!Removal(t) \/ Rows!Resize(t) \/ Rows!NotApplied(t)
    PROVE  Places(t)
<1>1. CASE UNCHANGED cmdb
  BY <1>1, SameCards, OthersPlaces
<1>2. CASE Rows!DeleteVictim(t)
  <2>1. PICK v : DeleteServer(v)
    BY <1>2 DEF Rows!DeleteVictim, Rows!DeleteServer, DeleteServer, Rows!EndpointsOf, EndpointsOf
  <2>2. QED
    BY <2>1, DropsKeepCards, OthersPlaces DEF DeleteServer
<1>3. CASE Rows!Resize(t)
  <2>1. \E F \in SUBSET {"price", "flavor"} : Rows!Write(t, F)
    BY <1>3 DEF Rows!Resize, Rows!ResizePrice, Rows!ResizeFlavor
  <2>2. QED
    BY <2>1, WriteUpdates, ServerKeepsCards, OthersPlaces, InHandGives
<1>4. QED
  BY <1>1, <1>2, <1>3 DEF Rows!Removal, Rows!SelectServers, Rows!NotApplied, Rows!cmdb, cmdb

LEMMA RowStepPlaces ==
    ASSUME NEW t \in Tasks, InHand(t), CardsListed, AddressesApart, RowStep(t)
    PROVE  Places(t)
<1>1. ~IsPort(t) /\ pc[t] \in CallsOf(t)
  BY InHandGives DEF RowStep
<1>2. CASE Body[t].kind = "create"
  <2>1. CASE Rows!NotApplied(t)
    BY <1>2, <2>1, NotAppliedPlaces DEF Rows!NotApplied, Rows!cmdb, cmdb
  <2>2. CASE Rows!Removal(t)
    BY <1>2, <2>2, SelectServersPlaces, DeleteVictimPlaces DEF Rows!Removal
  <2>3. CASE Rows!Create(t)
    BY <1>2, <2>3, LookUpPlaces, CreateServerPlaces, ReselectServerPlaces, WriteFieldsPlaces,
       CreateCardPlaces, ReselectCardPlaces, CreateFindPrefixPlaces, CreateAddressPlaces,
       ReselectAddressPlaces DEF Rows!Create
  <2>4. CASE Rows!Resize(t)
    BY <1>1, <1>2, <2>4
       DEF Rows!Resize, Rows!ResizePrice, Rows!ResizeFlavor, CallsOf, Removing, Late
  <2>5. QED
    BY <2>1, <2>2, <2>3, <2>4 DEF RowStep
<1>3. CASE Body[t].kind \in {"delete", "resize"}
  <2>1. ~Rows!Create(t)
    BY <1>1, <1>3
       DEF Rows!Create, Rows!LookUp, Rows!CreateServer, Rows!ReselectServer, Rows!WriteBatch,
           Rows!WritePrice, Rows!WriteFlavor, Rows!CreateCard, Rows!ReselectCard,
           Rows!FindPrefix, Rows!CreateAddress, Rows!ReselectAddress, Rows!WriteState,
           CallsOf, Removing
  <2>2. QED
    BY <1>3, <2>1, OtherStepPlaces DEF RowStep
<1>4. QED
  BY <1>1, <1>2, <1>3, KindsAre DEF IsPort

-----------------------------------------------------------------------------
(* The address of a port is on its card                                    *)

\* What attach knows of its cards stays while others are at work elsewhere.
LEMMA AimKept ==
    ASSUME RowsOK, RowsJoined, RowsJoined', NEW t \in Tasks, Meddles(t), NEW u \in Tasks,
           Apart(t, u), Body[u].kind = "attach", NEW c, Aimed(u, c), TypesAt(u, c), OwnAt(u, c),
           plan'[u] = plan[u]
    PROVE  Aimed(u, c)'
<1>1. SUFFICES ASSUME c \in Attaching PROVE Aimed(u, c)'
  BY DEF Aimed, Attaching, Finding, Naming, Inserting
<1>2. PICK x, y, n : x = plan[u].server /\ y = plan[u].endpoint /\ n = plan[u].name
  OBVIOUS
<1>3. Holds(y, x) /\ OwnServer(u, x)
  BY <1>1, <1>2 DEF TypesAt, AttachTypes, OwnAt
<1>4. Holds(y, x)' /\ OwnServer(u, x)'
  BY <1>3, IdsStay
<1>5. /\ \A e \in endpoints' : e.server = x =>
            \E d \in endpoints : /\ d.server = x /\ d.id = e.id
                                 /\ d.name = e.name /\ d.mac = e.mac
      /\ IpsOf(x)' \subseteq IpsOf(x)
  BY <1>3, SparesOwn
<1>6. \A e \in endpoints' : e.id = y => e.server = x
  BY <1>4 DEF Holds
<1>7. ASSUME NEW e \in endpoints', e.server = x
      PROVE  IpsOn(e.id)' \subseteq IpsOn(e.id)
  BY <1>5, <1>7 DEF IpsOn, IpsOf
<1>8. IpsOn(y)' \subseteq IpsOn(y)
  <2>1. SUFFICES ASSUME NEW i \in ips', i.endpoint = y PROVE i \in ips
    BY DEF IpsOn
  <2>2. PICK e \in endpoints' : e.id = y
    BY <2>1 DEF RowsJoined
  <2>3. QED
    BY <1>6, <1>7, <2>1, <2>2 DEF IpsOn
<1>9. IpsOn(plan[u].endpoint)' = IpsOn(y)' /\ IpsOn(plan[u].endpoint) = IpsOn(y)
  BY <1>2 DEF IpsOn
<1>10. Unused(u) => Unused(u)'
  BY <1>8, <1>9 DEF Unused
<1>11. HasMac(u) => HasMac(u)'
  BY <1>2, <1>5, <1>6 DEF HasMac
<1>12. NameFree(u) => NameFree(u)'
  <2>1. SUFFICES ASSUME NameFree(u), NEW e \in endpoints', e.server = x, e.name = n
                 PROVE  e.mac = Body[u].mac /\ IpsOn(e.id)' = {}
    BY <1>2 DEF NameFree, EndpointsOf, IpsOn
  <2>2. PICK d \in endpoints : /\ d.server = x /\ d.id = e.id
                               /\ d.name = e.name /\ d.mac = e.mac
    BY <1>5, <2>1
  <2>3. d.mac = Body[u].mac /\ IpsOn(d.id) = {}
    BY <1>2, <2>1, <2>2 DEF NameFree, EndpointsOf
  <2>4. QED
    BY <1>7, <2>1, <2>2, <2>3
<1>13. ASSUME IpsOn(y) \subseteq Attached(Body[u].ip, Body[u].uuid)
       PROVE  IpsOn(y)' \subseteq Attached(Body[u].ip, Body[u].uuid)'
  <2>1. SUFFICES ASSUME NEW i \in ips', i.endpoint = y
                 PROVE  i \in Attached(Body[u].ip, Body[u].uuid)'
    BY DEF IpsOn
  <2>2. i.ip = Body[u].ip
    BY <1>8, <1>13, <2>1 DEF IpsOn, Attached
  <2>3. PICK e \in endpoints' : e.id = y
    BY <2>1 DEF RowsJoined
  <2>4. PICK s \in servers' : s.id = e.server
    BY DEF RowsJoined
  <2>5. s.uuid = Body[u].uuid
    BY <1>4, <1>6, <2>3, <2>4 DEF OwnServer
  <2>6. QED
    BY <2>1, <2>2, <2>3, <2>4, <2>5 DEF Attached, ServersOf
<1>14. QED
  BY <1>9, <1>10, <1>11, <1>12, <1>13 DEF Aimed

LEMMA PlacingKeepsInv ==
    ASSUME TypesInv, RowsJoined', PortsInv, WritersApart, NEW t \in Busy, Settles(t), Places(t),
           Meddles(t), \A u \in Tasks \ {t} : plan'[u] = plan[u] /\ work'[u] = work[u]
    PROVE  PortsInv'
<1>1. /\ t \in Tasks /\ (\A u \in Tasks \ {t} : pc'[u] = pc[u])
      /\ pc'[t] \in CallsOf(t) \cup Ended
  BY DEF TypesInv, Settles, Busy
<1>2. Busy' \subseteq Busy
  BY <1>1 DEF Busy
<1>3. ASSUME NEW u \in Busy' PROVE PortsAt(u, pc[u])'
  <2>1. CASE u = t
    <3>1. pc'[t] \notin Ended
      BY <1>3, <2>1 DEF Busy
    <3>2. PortsAt(t, pc[t])'
      BY <3>1 DEF Places
    <3>3. QED
      BY <2>1, <3>2
  <2>2. CASE u # t
    <3>1. u \in Busy /\ u \in Tasks \ {t}
      BY <1>2, <1>3, <2>2 DEF Busy
    <3>2. Apart(t, u)
      BY <2>2, <3>1 DEF WritersApart, Apart
    <3>3. PICK c : c = pc[u]
      OBVIOUS
    <3>4. PortsAt(u, c) /\ TypesAt(u, c) /\ OwnAt(u, c) /\ pc'[u] = c
      BY <1>1, <3>1, <3>3 DEF PortsInv, TypesInv
    <3>5. Body[u].kind = "attach" => Aimed(u, c)'
      BY <1>1, <3>1, <3>2, <3>4, AimKept DEF TypesInv, PortsAt
    <3>6. Body[u].kind = "create" => Listed(u, c)'
      BY <3>1, <3>4 DEF PortsAt, Listed
    <3>7. QED
      BY <3>4, <3>5, <3>6 DEF PortsAt
  <2>3. QED
    BY <2>1, <2>2
<1>4. QED
  BY <1>3 DEF PortsInv, Places

\* A task starts with nothing known of a card.
LEMMA StartsEmpty ==
    ASSUME NEW t \in Tasks, Start(t), CarriedOK
    PROVE  PortsAt(t, pc[t])'
<1>1. CASE IsPort(t)
  <2>1. PICK p : p = Ports!FirstCall(t) /\ GoTo(t, p)
    BY <1>1 DEF Start, Ports!Start, Ports!Begin, Ports!GoTo, GoTo
  <2>2. pc'[t] = p
    BY <2>1, Going
  <2>3. Body[t].kind = "attach" => p = "select server"
    BY <2>1 DEF Ports!FirstCall
  <2>4. QED
    BY <1>1, <2>2, <2>3 DEF PortsAt, Aimed, IsPort, Attaching, Finding, Naming, Inserting
<1>2. CASE ~IsPort(t)
  <2>1. PICK p : p = Rows!FirstCall(t) /\ GoTo(t, p)
    BY <1>2 DEF Start, Rows!Start, Rows!Begin, Rows!GoTo, GoTo
  <2>2. pc'[t] = p
    BY <2>1, Going
  <2>3. Body[t].kind = "create" => p = "look up"
    BY <2>1 DEF Rows!FirstCall
  <2>4. IsWork(Rows!NoWork) /\ Rows!NoWork.cards = <<>> /\ Rows!NoWork.addresses = <<>>
    BY DEF Rows!NoWork, IsWork
  <2>5. work'[t] = Rows!NoWork
    BY <1>2, <2>4, WorkCarried DEF Start, Rows!Start, Rows!Carry
  <2>6. Body[t].kind = "create" => Listed(t, pc[t])'
    <3>1. \A S : <<>> \in Seq(S)
      OBVIOUS
    <3>2. Body[t].kind = "create" => pc'[t] = "look up"
      BY <2>2, <2>3
    <3>3. /\ work'[t].cards \in Seq(CardsIn(t)) /\ work'[t].addresses \in Seq(AddressesIn(t))
          /\ "look up" \notin Late
      BY <2>4, <2>5, <3>1 DEF Late
    <3>4. QED
      BY <3>2, <3>3 DEF Listed
  <2>7. QED
    BY <1>2, <2>6 DEF PortsAt, IsPort
<1>3. QED
  BY <1>1, <1>2

LEMMA SameTables ==
    ASSUME PortsInv, UNCHANGED cmdb
    PROVE  IsFiniteSet(endpoints') /\ OnCards'
BY SameCards, OnCardsKept DEF PortsInv, CardsKept

\* What is known of a task is known on in the same tables.
LEMMA PortsStill ==
    ASSUME NEW u \in Tasks, NEW c, PortsAt(u, c), UNCHANGED cmdb,
           plan'[u] = plan[u], work'[u] = work[u]
    PROVE  PortsAt(u, c)'
<1>1. Body[u].kind = "attach" => Aimed(u, c)'
  BY SameAim DEF PortsAt
<1>2. Body[u].kind = "create" => Listed(u, c)'
  BY DEF PortsAt, Listed
<1>3. QED
  BY <1>1, <1>2 DEF PortsAt

LEMMA StartKeepsPorts ==
    ASSUME TypesInv, PortsInv, NEW t \in Tasks, Start(t)
    PROVE  PortsInv'
<1>1. /\ UNCHANGED cmdb
      /\ \A u \in Tasks \ {t} : pc'[u] = pc[u] /\ plan'[u] = plan[u] /\ work'[u] = work[u]
  BY StartsRight DEF TypesInv
<1>2. Busy' \subseteq Busy \cup {t}
  BY <1>1 DEF Busy
<1>3. ASSUME NEW u \in Busy'
      PROVE  PortsAt(u, pc[u])'
  <2>1. CASE u = t
    BY <2>1, StartsEmpty DEF TypesInv
  <2>2. CASE u # t
    <3>1. u \in Busy /\ u \in Tasks \ {t}
      BY <1>2, <1>3, <2>2 DEF Busy
    <3>2. PICK c : c = pc[u]
      OBVIOUS
    <3>3. PortsAt(u, c) /\ pc'[u] = c
      BY <1>1, <3>1, <3>2 DEF PortsInv
    <3>4. QED
      BY <1>1, <3>1, <3>3, PortsStill
  <2>3. QED
    BY <2>1, <2>2
<1>4. QED
  BY <1>1, <1>3, SameTables DEF PortsInv

LEMMA IdleKeepsPorts ==
    ASSUME PortsInv, UNCHANGED <<cmdb, plan, work>>,
           \A u \in Tasks : pc'[u] \in {pc[u], "queued"}
    PROVE  PortsInv'
<1>1. Busy' \subseteq Busy /\ \A u \in Busy' : u \in Tasks /\ pc'[u] = pc[u]
  BY DEF Busy, Ended
<1>2. ASSUME NEW u \in Busy'
      PROVE  PortsAt(u, pc[u])'
  <2>1. PICK c : c = pc[u]
    OBVIOUS
  <2>2. PortsAt(u, c) /\ pc'[u] = c /\ u \in Tasks
    BY <1>1, <1>2, <2>1 DEF PortsInv
  <2>3. QED
    BY <2>2, PortsStill
<1>3. QED
  BY <1>2, SameTables DEF PortsInv

LEMMA PortsInvStep ==
    ASSUME ~LookupErrors, CardsListed, AddressesApart,
           TypesInv, PortsInv, WritersApart, [Next]_vars
    PROVE  PortsInv'
<1>1. TypesInv' /\ pc = [u \in Tasks |-> pc[u]]
  BY TypesInvStep DEF TypesInv, CarriedOK
<1>2. ASSUME NEW t \in Tasks, PortStep(t) \/ RowStep(t)
      PROVE  PortsInv'
  <2>1. t \in Busy
    BY <1>2, StepsAreBusy
  <2>2. Owning(t) /\ InHand(t)
    BY <1>1, <2>1 DEF TypesInv, Owning, Ready, Routed, Busy, InHand
  <2>3. Settles(t)
    BY <1>2, <2>2, PortStepSettles, RowStepSettles DEF Owning
  <2>4. Places(t) /\ Meddles(t)
    BY <1>2, <2>2, PortStepPlaces, RowStepPlaces, PortStepMeddles, RowStepMeddles
  <2>5. \A u \in Tasks \ {t} : plan'[u] = plan[u] /\ work'[u] = work[u]
    BY <1>2, StepsAlone DEF TypesInv
  <2>6. RowsJoined'
    BY <1>1 DEF TypesInv
  <2>7. QED
    BY <2>1, <2>3, <2>4, <2>5, <2>6, PlacingKeepsInv
<1>3. ASSUME NEW t \in Tasks, Start(t)
      PROVE  PortsInv'
  BY <1>3, StartKeepsPorts
<1>4. ASSUME NEW t \in Tasks, AckLost(t), UNCHANGED <<plan, work, overridden>>
      PROVE  PortsInv'
  <2>1. UNCHANGED cmdb /\ GoTo(t, "queued")
    BY <1>4 DEF AckLost
  <2>2. \A u \in Tasks : pc'[u] \in {pc[u], "queued"}
    BY <2>1, Going DEF TypesInv
  <2>3. QED
    BY <1>4, <2>1, <2>2, IdleKeepsPorts
<1>5. CASE Crash /\ UNCHANGED <<plan, work, overridden>>
  <2>1. UNCHANGED cmdb /\ pc' = [t \in Tasks |-> IF t \in Busy THEN "queued" ELSE pc[t]]
    BY <1>5 DEF Crash
  <2>2. \A u \in Tasks : pc'[u] \in {pc[u], "queued"}
    BY <2>1
  <2>3. QED
    BY <1>5, <2>1, <2>2, IdleKeepsPorts
<1>6. CASE UNCHANGED vars
  BY <1>6, IdleKeepsPorts DEF vars, tasks
<1>7. QED
  BY <1>2, <1>3, <1>4, <1>5, <1>6 DEF Next

LEMMA PortsInvInit ==
    ASSUME TablesFinite, Init
    PROVE  PortsInv
<1>1. pc = [t \in Tasks |-> "queued"]
  BY DEF Init, Rows!Init
<1>2. PICK n \in Tables : /\ servers = n.servers /\ endpoints = n.endpoints
                          /\ ips = n.ips /\ serial = n.serial
  BY DEF Init, Rows!Init
<1>3. Busy = {}
  BY <1>1 DEF Busy, Ended
<1>4. IsFiniteSet(endpoints)
  BY <1>2 DEF TablesFinite
<1>5. \A i \in ips : ~Ports!Inserted(i)
  <2>1. n.serial \in Nat /\ \A i \in n.ips : i.id \in 1 .. n.serial - 1
    BY InstanceAssumption
  <2>2. ASSUME NEW i \in ips, i.id >= n.serial PROVE FALSE
    BY <1>2, <2>1, <2>2
  <2>3. QED
    BY <2>2 DEF Ports!Inserted
<1>6. OnCards
  BY <1>5 DEF OnCards, Put, Attached
<1>7. QED
  BY <1>3, <1>4, <1>6 DEF PortsInv

LEMMA OnCardsIsOnItsCard ==
    ASSUME OnCards
    PROVE  PortOnItsCard
<1>1. ASSUME NEW t \in Attachers, NEW u \in Attachers, NEW i \in Ports!AttachedNow(t),
             NEW j \in Ports!AttachedNow(u), NEW e \in endpoints,
             Ports!Inserted(i), i.endpoint = e.id, Ports!Inserted(j), j.endpoint = e.id
      PROVE  /\ Body[t].mac # Ports!None => e.mac = Body[t].mac
             /\ i # j => Body[t].mac # Ports!None /\ Body[t].mac = Body[u].mac
  <2>1. i \in Put(t) /\ j \in Put(u)
    BY <1>1 DEF Put, Ports!AttachedNow, Ports!Attached, Ports!ServersOf, Attached, ServersOf
  <2>2. e.mac = Body[t].mac /\ e.mac = Body[u].mac
    BY <1>1, <2>1 DEF OnCards
  <2>3. i # j => Body[t].mac # None
    BY <1>1, <2>1 DEF OnCards
  <2>4. QED
    BY <2>2, <2>3 DEF Ports!None, None
<1>2. QED
  BY <1>1 DEF PortOnItsCard, Ports!PortOnItsCard, Attachers

(* For any prefetch, as long as no two of the messages in hand put rows on *)
(* one instance, with lookups that are not refused, no other message for   *)
(* the address of an attach, and tables in which nothing hangs off a row   *)
(* that is gone, PortOnItsCard: attach puts the address of a port on the   *)
(* endpoint with the port's mac and, without a mac, on one that holds      *)
(* nothing else, and nothing puts another port's address there later,      *)
(* whatever detaches, deletes, resizes and the writers of other instances  *)
(* interleave, over any retries, crashes and repeated inserts, with        *)
(* servers removed and created again in between.                           *)
THEOREM PortsOnTheirCards ==
    ASSUME ~LookupErrors, CardsListed, AddressesApart, TablesFinite, TablesJoined
    PROVE  Spec /\ []WritersApart => []PortOnItsCard
<1>1. TypesInv /\ PortsInv /\ WritersApart /\ [Next]_vars => (TypesInv /\ PortsInv)'
  BY TypesInvStep, PortsInvStep
<1>2. Init => TypesInv /\ PortsInv
  BY TypesInvInit, PortsInvInit
<1>3. TypesInv /\ PortsInv => PortOnItsCard
  BY OnCardsIsOnItsCard DEF PortsInv
<1>4. QED
  BY <1>1, <1>2, <1>3, PTL DEF Spec
=============================================================================
