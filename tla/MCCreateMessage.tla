--------------------------- MODULE MCCreateMessage ---------------------------
(* Instances of CreateMessage: messages that differ in their networks and   *)
(* ports, and messages that differ in their fields.                         *)
EXTENDS CreateMessage

Entry(id, fixed, addr, order, mac) ==
    [id |-> id, fixed |-> fixed, addr |-> addr, order |-> order, mac |-> mac]

\* Network n: one fixed address with every number and mac, or no usable one.
NetworksOf(n, addr) ==
    {<<Entry(<<n, 1>>, TRUE, addr, o, m)>> : o \in {NoOrder, 1, 2}, m \in {NoMac, "m1", "m2"}}
        \cup {<<Entry(<<n, 1>>, FALSE, addr, 1, "m1")>>,
              <<Entry(<<n, 1>>, TRUE, addr, 2, "m1"), Entry(<<n, 2>>, TRUE, "z", NoOrder, "m2"),
                Entry(<<n, 3>>, FALSE, "f", 3, "m3")>>}

\* A port with a known and a new address, then one with the new one again.
PortLists ==
    {<<>>,
     <<[mac |-> "m1", ips |-> {[id |-> <<"p1", 1>>, addr |-> "a"], [id |-> <<"p1", 2>>, addr |-> "p"]}],
       [mac |-> "m3", ips |-> {[id |-> <<"p2", 1>>, addr |-> "p"]}]>>}

Plain == [networks |-> <<>>, ports |-> <<>>, tags |-> <<>>, k8s |-> FALSE,
          cap_tenant |-> "none", resource_cloud |-> {}, total_price |-> TRUE,
          bad |-> {}, unknown |-> 0, lacks |-> {}]

\* Two networks may carry one address.
NetworkMessages ==
    {[Plain EXCEPT !.networks = <<n, o, p>>, !.ports = l] :
        n \in NetworksOf("n1", "a"), o \in NetworksOf("n2", "b"), p \in NetworksOf("n3", "c"),
        l \in PortLists}
    \cup {[Plain EXCEPT !.networks = <<n, o>>, !.ports = l] :
        n \in NetworksOf("n1", "a"), o \in NetworksOf("n2", "a"), l \in PortLists}

TagLists ==
    { <<>>,
      << <<"owner", "name">>, <<"owner", "">>, <<"role", "">> >>,
      << <<"project", "name">>, <<"project", "code">>, <<"state", "">>, <<"state", "x">> >>,
      << <<"cap_tenant", "name">>, <<"responsible", "">>, <<"cost_center", "">>, <<"task", "name">> >>,
      << <<"flavor", "name">>, <<"cost_center", "cc">>, <<"project", "">> >> }

BadValues ==
    { {}, {<<"message", "tenant">>, StateTag}, {<<"message", "flavor">>, <<"message", "tenant">>},
      {<<"owner", "">>, <<"project", "code">>, <<"cap_tenant", "owner">>},
      {<<"message", "dc">>, <<"project", "name">>, <<"default", "owner">>},
      {<<"resource_cloud", "responsible">>, <<"cost_center", "cc">>} }

FieldMessages ==
    {[Plain EXCEPT !.tags = t, !.k8s = k, !.resource_cloud = c, !.total_price = p, !.bad = b,
                   !.cap_tenant = cap, !.unknown = 2] :
        t \in TagLists, k \in BOOLEAN, p \in BOOLEAN, b \in BadValues,
        c \in {{}, {"id"}, {"id", "responsible"}, {"id", "cost_center"}},
        cap \in {"none", "found", "missing"}}

HasCapTag(m) == CapTag \in Range(m.tags)

\* The tenant is looked up when the tag is there.
Consistent(m) == m.cap_tenant = "none" <=> ~HasCapTag(m)

Incomplete ==
    {[Plain EXCEPT !.lacks = {part}] :
        part \in {"resources", "instance", "name", "metadata", "flavor"}}

MCMessages == NetworkMessages \cup {m \in FieldMessages : Consistent(m)} \cup Incomplete
=============================================================================
