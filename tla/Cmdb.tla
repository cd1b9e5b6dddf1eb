-------------------------------- MODULE Cmdb --------------------------------
(***************************************************************************)
(* The CMDB as the handlers use it: the rows of server, network_endpoint   *)
(* and ip, the constraints that refuse a row, and the cascade that removes *)
(* what hangs off one.  A reference client reads and writes it by          *)
(* condition; every request is atomic in the CMDB.                         *)
(***************************************************************************)
EXTENDS Integers, FiniteSets

VARIABLES servers,      \* rows [id, uuid, hostname, ...]
          endpoints,    \* rows [id, server, name, mac]; name n stands for bond<n>
          ips,          \* rows [id, ip, endpoint, prefix, type]
          serial        \* the next row id, never given twice

cmdb == <<servers, endpoints, ips, serial>>

None == "none"          \* an absent mac, prefix_id or type

-----------------------------------------------------------------------------
(* Reading                                                                 *)

ServersOf(uuid) == {s \in servers : s.uuid = uuid}

EndpointsOf(server) == {e \in endpoints : e.server = server}

IpsOn(endpoint) == {i \in ips : i.endpoint = endpoint}

\* The ip rows for an address on a server with that uuid.
Attached(ip, uuid) ==
    {i \in ips : /\ i.ip = ip
                 /\ \E e \in endpoints, s \in ServersOf(uuid) :
                        e.id = i.endpoint /\ s.id = e.server}

\* Mutation of EmptyEndpoints: every endpoint of those servers.
AllEndpoints(uuid) == {e \in endpoints : \E s \in ServersOf(uuid) : s.id = e.server}

\* The endpoints of those servers that hold no address.
EmptyEndpoints(uuid) ==
    {e \in endpoints : IpsOn(e.id) = {} /\ \E s \in ServersOf(uuid) : s.id = e.server}

-----------------------------------------------------------------------------
(* Writing                                                                 *)

\* "hostname is the unique column; uuid is not."
CanInsertServer(hostname) == \A s \in servers : s.hostname # hostname

\* What hangs off a server goes with it.
DeleteServer(server) ==
    /\ servers' = {s \in servers : s.id # server}
    /\ endpoints' = endpoints \ EndpointsOf(server)
    /\ ips' = {i \in ips : \A e \in EndpointsOf(server) : e.id # i.endpoint}

\* "The name is unique per server"; the server must exist.
CanInsertEndpoint(server, name) ==
    /\ \E s \in servers : s.id = server
    /\ \A e \in EndpointsOf(server) : e.name # name

InsertEndpoint(server, name, mac) ==
    /\ endpoints' = endpoints \cup
           {[id |-> serial, server |-> server, name |-> name, mac |-> mac]}
    /\ serial' = serial + 1

\* The key (ip, network_endpoint_id, prefix_id) binds only with a prefix.
CanInsertIp(ip, endpoint, prefix) ==
    /\ \E e \in endpoints : e.id = endpoint
    /\ prefix # None => \A i \in IpsOn(endpoint) : i.ip # ip \/ i.prefix # prefix

InsertIp(ip, endpoint, prefix, type) ==
    /\ ips' = ips \cup {[id |-> serial, ip |-> ip, endpoint |-> endpoint,
                         prefix |-> prefix, type |-> type]}
    /\ serial' = serial + 1

SetMac(endpoint, mac) ==
    endpoints' = {[id |-> e.id, server |-> e.server, name |-> e.name,
                   mac |-> IF e.id = endpoint THEN mac ELSE e.mac] : e \in endpoints}
=============================================================================
