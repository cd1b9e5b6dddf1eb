---------------------------- MODULE MCAttachDetach ----------------------------
(* Instances of AttachDetach: one server and the messages about it.        *)
EXTENDS AttachDetach, TLC

CONSTANTS t1, t2, t3

Attaching(ip, mac) == [kind |-> "attach", uuid |-> "u", ip |-> ip, mac |-> mac]
Detaching(ip) == [kind |-> "detach", uuid |-> "u", ip |-> ip, mac |-> None]

MCPrefixOf == [ip \in {"a", "b", "c"} |-> IF ip = "b" THEN None ELSE "be"]

\* Two ports to attach, one outside every prefix, and an address to detach.
MCBody == t1 :> Attaching("a", "m1") @@ t2 :> Attaching("b", None) @@ t3 :> Detaching("c")

\* Two ports of the same kind.
TwinsBody == t1 :> Attaching("a", "m1") @@ t2 :> Attaching("c", "m2")

Server == [id |-> 1, uuid |-> "u", hostname |-> "h"]
Endpoint(id, name, mac) == [id |-> id, server |-> 1, name |-> name, mac |-> mac]
Ip(id, ip, endpoint) ==
    [id |-> id, ip |-> ip, endpoint |-> endpoint, prefix |-> MCPrefixOf[ip],
     type |-> MCPrefixOf[ip]]

Network(s, e, i) == [servers |-> s, endpoints |-> e, ips |-> i, serial |-> 10]

BareServer == Network({Server}, {}, {})

\* The card of c, and a placeholder that has neither mac nor address.
WithPlaceholder ==
    Network({Server}, {Endpoint(2, 0, "m0"), Endpoint(3, 2, None)}, {Ip(4, "c", 2)})

\* create already gave the server a and its mac.
Created == Network({Server}, {Endpoint(2, 0, "m1")}, {Ip(4, "a", 2)})

MCNetworks == {Network({}, {}, {}), BareServer, WithPlaceholder, Created}
JustBare == {BareServer}
=============================================================================
