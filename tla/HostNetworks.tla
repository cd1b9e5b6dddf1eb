---------------------------- MODULE HostNetworks ----------------------------
(***************************************************************************)
(* The cards of a host: build_host_networks reads them off the networks    *)
(* and ports of a create message, and _persist_net_endpoints names them.   *)
(* One action per pass of a loop of the code.  A key of a network that is  *)
(* there carries a value, and orders are natural numbers.  An entry has an *)
(* id that tells it from others with its values, and a card has the set of *)
(* its entries: in which order they are listed is nothing's concern.       *)
(***************************************************************************)
EXTENDS HandlerUtils, Sequences, SequencesExt

NoMac == "none"
NoOrder == -1    \* mac_addr_order_num is absent, or None

VARIABLES networks,        \* those still to read: of each, its entries
                           \* [id, fixed, addr, order, mac]
          ports,           \* those still to read: [mac, ips], ips a set of [id, addr]
          by_order,        \* cards [order, mac, addresses, placeholder] by number
          placeholders,    \* cards whose number belongs to another mac
          unordered,       \* cards without a number
          cards,           \* the result
          counter,         \* the highest number among cards
          names            \* of the cards named so far; n stands for bond<n>

netVars == <<networks, ports, by_order, placeholders, unordered, cards, counter, names>>

NetInit(addresses, portList) ==
    /\ networks = addresses /\ ports = portList
    /\ by_order = {} /\ placeholders = <<>> /\ unordered = <<>>
    /\ cards = <<>> /\ counter = 0 /\ names = <<>>

-----------------------------------------------------------------------------
(* build_host_networks: the networks                                       *)

\* The last fixed entry that has the key decides it.
LastGiven(network, key, absent) ==
    LET given == {i \in DOMAIN network : network[i].fixed /\ network[i][key] # absent}
    IN IF given = {} THEN absent ELSE network[Max(given)][key]

\* Addresses that are not fixed do not count.
CardOf(network) ==
    [order |-> LastGiven(network, "order", NoOrder), mac |-> LastGiven(network, "mac", NoMac),
     addresses |-> {entry \in Range(network) : entry.fixed}, placeholder |-> FALSE]

\* Mutation of Merged: the mac learnt is not kept.
MergedForgettingMac(clash, card) ==
    [clash EXCEPT !.addresses = @ \cup card.addresses]

\* One mac, or one of them unknown: the same card seen twice.
Merged(clash, card) ==
    [clash EXCEPT !.addresses = @ \cup card.addresses,
                  !.mac = IF @ # NoMac THEN @ ELSE card.mac]

\* Mutation of Rival: an unknown mac counts as another one.
RivalIfDifferent(clash, card) == clash.mac # card.mac

Rival(clash, card) == clash.mac # NoMac /\ card.mac # NoMac /\ clash.mac # card.mac

AddNetwork ==
    LET card == CardOf(Head(networks)) IN
    /\ networks # <<>>
    /\ networks' = Tail(networks)
    /\ \/ /\ card.order \notin Nat
          /\ unordered' = Append(unordered, card)
          /\ UNCHANGED <<by_order, placeholders>>
       \/ /\ card.order \in Nat /\ \A c \in by_order : c.order # card.order
          /\ by_order' = by_order \cup {card}
          /\ UNCHANGED <<placeholders, unordered>>
       \/ \E clash \in by_order :
             /\ clash.order = card.order /\ card.order \in Nat
             /\ IF Rival(clash, card)
                THEN /\ placeholders' = Append(placeholders, [card EXCEPT !.placeholder = TRUE])
                     /\ UNCHANGED by_order
                ELSE /\ by_order' = (by_order \ {clash}) \cup {Merged(clash, card)}
                     /\ UNCHANGED placeholders
             /\ UNCHANGED unordered
    /\ UNCHANGED <<ports, cards, counter, names>>

-----------------------------------------------------------------------------
(* build_host_networks: the result                                         *)

Add(card) == cards' = Append(cards, card)

\* sorted by order.
TakeOrdered ==
    /\ networks = <<>>
    /\ \E card \in by_order :
          /\ \A c \in by_order : card.order <= c.order
          /\ Add(card)
          /\ by_order' = by_order \ {card}
          /\ counter' = IF card.order > counter THEN card.order ELSE counter
    /\ UNCHANGED <<networks, ports, placeholders, unordered, names>>

TakePlaceholder ==
    /\ networks = <<>> /\ by_order = {} /\ placeholders # <<>>
    /\ Add(Head(placeholders))
    /\ placeholders' = Tail(placeholders)
    /\ UNCHANGED <<networks, ports, by_order, unordered, counter, names>>

TakeUnordered ==
    /\ networks = <<>> /\ by_order = {} /\ placeholders = <<>> /\ unordered # <<>>
    /\ Add([Head(unordered) EXCEPT !.order = counter + 1])
    /\ unordered' = Tail(unordered)
    /\ counter' = counter + 1
    /\ UNCHANGED <<networks, ports, by_order, placeholders, names>>

OnCards(ip) == \E c \in Range(cards) : \E entry \in c.addresses : entry.addr = ip

\* Mutation of Fresh: ports are not compared with the addresses.
AllOfThem(ips) == ips

Fresh(ips) == {entry \in ips : ~OnCards(entry.addr)}

\* Ports are compared by ip, not by mac.
AddPort ==
    LET port == Head(ports)
        fresh == Fresh(port.ips)
    IN /\ networks = <<>> /\ by_order = {} /\ placeholders = <<>> /\ unordered = <<>>
       /\ ports # <<>>
       /\ ports' = Tail(ports)
       /\ \/ fresh = {} /\ UNCHANGED <<cards, counter>>
          \/ /\ fresh # {}
             /\ Add([order |-> counter + 1, mac |-> port.mac, addresses |-> fresh,
                     placeholder |-> FALSE])
             /\ counter' = counter + 1
       /\ UNCHANGED <<networks, by_order, placeholders, unordered, names>>

Built ==
    networks = <<>> /\ by_order = {} /\ placeholders = <<>> /\ unordered = <<>> /\ ports = <<>>

Build == AddNetwork \/ TakeOrdered \/ TakePlaceholder \/ TakeUnordered \/ AddPort

-----------------------------------------------------------------------------
(* _persist_net_endpoints: the names                                       *)

\* Mutation of taken_names: only the names given so far.
NamesSoFar == Range(names)

\* Real cards own the number of their order, from the start.
taken_names ==
    {c.order - 1 : c \in {d \in Range(cards) : ~d.placeholder}} \cup Range(names)

\* An order of 0 yields "bond-1"; bonds are numbered from order 1.
NameCard ==
    LET card == cards[Len(names) + 1] IN
    /\ Built /\ Len(names) < Len(cards)
    /\ names' = Append(names, IF card.placeholder THEN next_bond_name(taken_names)
                              ELSE card.order - 1)
    /\ UNCHANGED <<networks, ports, by_order, placeholders, unordered, cards, counter>>

Named == Built /\ Len(names) = Len(cards)

-----------------------------------------------------------------------------
(* "bondN is distinct per card, so (server_id, name) re-selects exactly    *)
(* this row" (_persist_net_endpoints): no two cards of a host get one      *)
(* name, however their numbers clash, are missing or are made up.          *)
NamesDistinct ==
    \A i, j \in DOMAIN names : i # j => names[i] # names[j]

(* "The mac still finds this row again; it is always set": a placeholder   *)
(* has a mac, and its number is that of a card with another one.           *)
PlaceholderHasMac ==
    \A p \in Range(placeholders) \cup {c \in Range(cards) : c.placeholder} :
        /\ p.mac # NoMac
        /\ \E c \in by_order \cup Range(cards) :
              ~c.placeholder /\ c.order = p.order /\ c.mac \notin {NoMac, p.mac}
=============================================================================
