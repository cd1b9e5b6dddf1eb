-------------------------- MODULE MCInstanceHandler --------------------------
(* One instance through its life: created, two ports attached, the address  *)
(* it was created with detached, resized, deleted.                          *)
EXTENDS InstanceHandler, Sequences, TLC

CONSTANTS t1, t2, t3, t4, t5, t6

\* a and c lie in prefixes of one type; b has no prefix.
MCPrefixOf == [ip \in {"a", "b", "c"} |-> IF ip = "b" THEN None ELSE "be"]

Card == [name |-> 0, mac |-> "m1", placeholder |-> FALSE, addresses |-> <<"a">>]

MCBody ==
       t1 :> [kind |-> "create", uuid |-> "u", hostname |-> "h", tagged |-> FALSE,
              cards |-> <<Card>>]
    @@ t2 :> [kind |-> "attach", uuid |-> "u", ip |-> "c", mac |-> "m2"]
    @@ t3 :> [kind |-> "attach", uuid |-> "u", ip |-> "b", mac |-> None]
    @@ t4 :> [kind |-> "detach", uuid |-> "u", ip |-> "a"]
    @@ t5 :> [kind |-> "resize", uuid |-> "u", hostname |-> "", sets |-> {"price"}]
    @@ t6 :> [kind |-> "delete", uuid |-> "u", hostname |-> "", sets |-> {}]

\* u has a server already, under its old name.
MCTables ==
    {[servers |-> {}, endpoints |-> {}, ips |-> {}, serial |-> 10],
     [servers |-> {[id |-> 1, uuid |-> "u", hostname |-> "old", raw_info |-> None,
                    state |-> "ready", fields |-> [f \in {"price", "flavor"} |-> None]]},
      endpoints |-> {}, ips |-> {}, serial |-> 10]}

\* Every interleaving in which the messages in hand leave each other alone.
ApartSpec == Init /\ [][Next /\ (NoneUndone /\ WritersApart)']_vars

MCRefusals == {"write batch", "insert card", "insert address"}
=============================================================================
