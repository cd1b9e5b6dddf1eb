-------------------------- MODULE MCServerLifecycle --------------------------
(* Instances of ServerLifecycle: messages about three instances, one of     *)
(* which takes over another's hostname.                                     *)
EXTENDS ServerLifecycle, TLC

CONSTANTS t1, t2, t3

\* a and b lie in prefixes of one type; d has no prefix.
MCPrefixOf == [ip \in {"a", "b", "d"} |-> IF ip = "d" THEN None ELSE "be"]

NewCard(name, mac, placeholder, addresses) ==
    [name |-> name, mac |-> mac, placeholder |-> placeholder, addresses |-> addresses]

Creating(uuid, hostname, tagged, cards) ==
    [kind |-> "create", uuid |-> uuid, hostname |-> hostname, tagged |-> tagged, cards |-> cards]
Deleting(uuid) == [kind |-> "delete", uuid |-> uuid, hostname |-> "", sets |-> {}]
Resizing(uuid, sets) == [kind |-> "resize", uuid |-> uuid, hostname |-> "", sets |-> sets]

\* A card with two addresses and a placeholder.
TwoCards == << NewCard(0, "m1", FALSE, <<"a", "b">>), NewCard(1, "m2", TRUE, <<>>) >>
OneCard == << NewCard(0, "m1", FALSE, <<"a">>) >>

\* Instance u is created on hostname h, held by a server of v, which is resized;
\* w is removed.
MCBody == t1 :> Creating("u", "h", TRUE, TwoCards)
       @@ t2 :> Deleting("w")
       @@ t3 :> Resizing("v", Fields)

\* One create, and one message delivered twice.
LoneBody == t1 :> Creating("u", "h", FALSE, OneCard)
TwiceBody == t1 :> Creating("u", "h", FALSE, OneCard) @@ t2 :> Creating("u", "h", FALSE, OneCard)

Old(id, uuid, hostname) ==
    [id |-> id, uuid |-> uuid, hostname |-> hostname, raw_info |-> None, state |-> "ready",
     fields |-> [f \in Fields |-> None]]

Table(s, e, i) == [servers |-> s, endpoints |-> e, ips |-> i, serial |-> 10]

\* h still belongs to v, which has another server; u has one under its old
\* name, with a network; w has two.
Inherited ==
    Table({Old(1, "v", "h"), Old(2, "v", "h2"), Old(3, "u", "h3"),
           Old(4, "w", "h4"), Old(5, "w", "h5")},
          {[id |-> 6, server |-> 3, name |-> 0, mac |-> "m1"]},
          {[id |-> 7, ip |-> "a", endpoint |-> 6, prefix |-> "be", type |-> "be"]})

Empty == Table({}, {}, {})

MCTables == {Empty, Inherited}
JustEmpty == {Empty}
NoRefusals == {}
\* Every refusal but those on which a create ends quietly.
Reported == {"look up", "write batch", "write price", "write flavor", "insert card",
             "find prefix", "insert address", "resize price", "resize flavor"}
InsertRefused == {"insert server"}
=============================================================================
