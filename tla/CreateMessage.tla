---------------------------- MODULE CreateMessage ----------------------------
(***************************************************************************)
(* What create_instances makes of one message: it checks the message,      *)
(* builds the host's cards, looks up what the tags name, recreates the     *)
(* row, writes the fields, names the cards, and sets the state.  The CMDB  *)
(* is reached but may refuse; ServerLifecycle has outages, retries and the *)
(* rows of other messages.                                                 *)
(***************************************************************************)
EXTENDS HostNetworks, CreateFields

\* networks, ports; tags, k8s, cap_tenant ("none", "found" or "missing"),
\* resource_cloud (what its record has; {} if there is none), total_price; bad:
\* the values the CMDB refuses; unknown: how many writes may fail in an unknown
\* way (a bound); lacks: the parts left out of it.
CONSTANT Messages

\* No two entries of a message are one, and the CMDB refuses a tag of a class
\* it has no column for.
ASSUME MessagesAssumption ==
    \A m \in Messages :
        /\ m.networks \in Seq(Range(m.networks)) /\ m.ports \in Seq(Range(m.ports))
        /\ \A n \in DOMAIN m.networks : m.networks[n] \in Seq(Range(m.networks[n]))
        /\ \A n, o \in DOMAIN m.networks :
              n # o => Range(m.networks[n]) \cap Range(m.networks[o]) = {}
        /\ \A n \in DOMAIN m.networks : \A i, j \in DOMAIN m.networks[n] :
              i # j => m.networks[n][i] # m.networks[n][j]
        /\ \A p, q \in DOMAIN m.ports : p # q => m.ports[p].ips \cap m.ports[q].ips = {}
        /\ \A n \in DOMAIN m.networks, p \in DOMAIN m.ports :
              Range(m.networks[n]) \cap m.ports[p].ips = {}
        /\ m.tags \in Seq(Range(m.tags))
        /\ \A tag \in Range(m.tags) :
              tag[1] \in Columns \cup Range(Steps) \cup {"state"} \/ tag \in m.bad \cup {CapTag}

VARIABLES message,
          pc,          \* the part of create_instances it is in, "acked" or "dead"
          recreated    \* whether the old rows are gone and the new one is in

vars == <<message, pc, recreated, netVars, fieldVars>>

Init ==
    /\ message \in Messages
    /\ pc = "validate" /\ recreated = FALSE
    /\ NetInit(message.networks, message.ports)
    /\ FieldInit(message.unknown)

At(here, next) == pc = here /\ pc' = next

Lacks(part) == part \in message.lacks

\* _extract_resource and _validate_create_contract.
Validate ==
    /\ \/ (Lacks("resources") \/ Lacks("name")) /\ At("validate", "dead")
       \/ Lacks("instance") /\ At("validate", "acked")
       \/ message.lacks \cap {"resources", "name", "instance"} = {} /\ At("validate", "networks")
    /\ UNCHANGED <<message, recreated, netVars, fieldVars>>

BuildCards ==
    /\ pc = "networks"
    /\ Build
    /\ UNCHANGED <<message, pc, recreated, fieldVars>>

\* The lookups of resource_cloud and cap_tenant abort when refused; the tags
\* are read between them.
LookUp ==
    /\ Built
    /\ \/ At("networks", "dead") /\ UNCHANGED fieldVars
       \/ ~Lacks("metadata") /\ At("networks", "recreate") /\ FindTenant(message)
    /\ UNCHANGED <<message, recreated, netVars>>

RecreateRow ==
    /\ At("recreate", "resolve")
    /\ recreated' = TRUE
    /\ UNCHANGED <<message, netVars, fieldVars>>

\* Without a flavor this is a KeyError.
ResolveAll ==
    /\ \/ Lacks("flavor") /\ At("resolve", "dead") /\ UNCHANGED fieldVars
       \/ ~Lacks("flavor") /\ At("resolve", "batch") /\ ResolveFields(message)
    /\ UNCHANGED <<message, recreated, netVars>>

WriteBatch ==
    /\ \/ BatchLands(message.bad) /\ At("batch", "cards")
       \/ BatchFails(message.bad) /\ At("batch", "replay")
    /\ UNCHANGED <<message, recreated, netVars>>

Replay ==
    /\ \/ pc = "replay" /\ ReplayWrite(message.bad) /\ UNCHANGED pc
       \/ DOMAIN writes = {} /\ At("replay", "cards") /\ UNCHANGED fieldVars
    /\ UNCHANGED <<message, recreated, netVars>>

NameCards ==
    /\ \/ pc = "cards" /\ NameCard /\ UNCHANGED pc
       \/ Named /\ At("cards", "state") /\ UNCHANGED netVars
    /\ UNCHANGED <<message, recreated, fieldVars>>

WriteState ==
    /\ At("state", "acked")
    /\ SetState(message)
    /\ UNCHANGED <<message, recreated, netVars>>

Next ==
    \/ Validate \/ BuildCards \/ LookUp \/ RecreateRow
    \/ ResolveAll \/ WriteBatch \/ Replay \/ NameCards \/ WriteState

Spec == Init /\ [][Next]_vars

-----------------------------------------------------------------------------
FixedEntries == UNION {CardOf(n).addresses : n \in Range(message.networks)}

\* How often an address is fixed on a network, and how often it is on a card.
Fixed(ip) == Cardinality({entry \in FixedEntries : entry.addr = ip})
Placed(ip) ==
    Cardinality(UNION {{i} \X {entry \in cards[i].addresses : entry.addr = ip} :
                          i \in DOMAIN cards})

(* "Ports are deduplicated against the addresses by IP": every fixed       *)
(* address is on the cards as often as the networks carry it, and one that *)
(* only ports carry is there once, whatever is merged, renumbered or       *)
(* carried twice.                                                          *)
EveryAddressPlaced ==
    pc = "recreate" =>
        /\ \A entry \in FixedEntries : Placed(entry.addr) = Fixed(entry.addr)
        /\ \A port \in Range(message.ports) : \A entry \in port.ips :
              Placed(entry.addr) = IF Fixed(entry.addr) = 0 THEN 1 ELSE Fixed(entry.addr)

(* "One mac, or one of them unknown: the same card seen twice": networks   *)
(* merged into one card do not have two macs between them, also when the   *)
(* first of them had none.                                                 *)
CardsNotMixed ==
    pc = "recreate" => \A card \in Range(cards) : \A n, o \in Range(message.networks) :
        LET On(network) == CardOf(network).addresses \cap card.addresses # {}
        IN On(n) /\ On(o) => \/ CardOf(n).mac = CardOf(o).mac
                            \/ NoMac \in {CardOf(n).mac, CardOf(o).mac}

Recorded == {e.field : e \in errors}

Done == pc = "acked" /\ recreated

(* "This allows valid fields to be saved and shows which fields failed"    *)
(* (README.md): of the writes of a column the last is in the row, or its   *)
(* failure is recorded, in one update as well as in the replay.            *)
SavedOrShown ==
    Done => \A i \in DOMAIN create_writes(message) :
        LET w == create_writes(message)[i] IN
        \/ row[w.column] = w.value
        \/ w.field \in Recorded
        \/ \E j \in DOMAIN create_writes(message) :
              j > i /\ create_writes(message)[j].column = w.column

\* The failures that make the state error: of the fields that count, those
\* known when it was written.
Counted == {f \in Recorded : f \notin {<<"tenant", "">>, <<"flavor", "">>, <<"state", "">>}}

(* Of an acknowledged create, the row is error exactly when a failure that *)
(* counts was recorded before, and status_details then names each of them; *)
(* it stays in setup only if the write of the state itself failed, and     *)
(* that is on record.                                                      *)
ErrorIsExplained ==
    Done =>
        /\ state = "setup" => <<"state", "">> \in Recorded
        /\ state # "setup" => (state = "error" <=> Counted # {})
        /\ state = "error" => Counted \subseteq details

(* A tag on the whitelist takes effect: without a tenant that takes        *)
(* precedence, its class has the value of such a tag, or the failure of    *)
(* the write is recorded.                                                  *)
ListedTagsLand ==
    Done /\ message.cap_tenant # "found" =>
        \A tag \in Range(message.tags) : tag[1] \in CMDB_FIELDS_WHITELIST \ {"state"} =>
            \/ row[tag[1]] \in Range(message.tags)
            \/ \E field \in Recorded : field[1] = tag[1]

(* "The fields create cannot do without, checked before any CMDB call"     *)
(* (_validate_create_contract): a message that is rejected for what it     *)
(* lacks has not cost the server its row.                                  *)
ContractCheckedFirst == pc = "dead" => ~recreated
=============================================================================
