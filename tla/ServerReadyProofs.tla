------------------------- MODULE ServerReadyProofs -------------------------
(***************************************************************************)
(* A server its create shows as ready has the fields that count and        *)
(* exactly the network of its message: ReadyMeansComplete of               *)
(* ServerLifecycle, for any prefetch, when the creates in hand concern     *)
(* different instances and the cards of a message can be told apart.       *)
(***************************************************************************)
EXTENDS ServerLifecycleProofs, SequenceTheorems

-----------------------------------------------------------------------------
(* What a create does once it has its row                                  *)

CardCalls == {"insert card", "reselect card"}

AddressCalls == {"find prefix", "insert address", "reselect address"}

FieldCalls == {"write batch", "write price", "write flavor"}

\* The work of t but for the types of addresses.
Sets(t, failed, cards, addresses, endpoint) ==
    /\ work'[t].server = work[t].server
    /\ work'[t].failed = failed /\ work'[t].cards = cards
    /\ work'[t].addresses = addresses /\ work'[t].endpoint = endpoint

Keeps(t) ==
    Sets(t, work[t].failed, work[t].cards, work[t].addresses, work[t].endpoint)

Goes(t, next) == pc'[t] = next /\ Keeps(t)

GoesOn(t, failed, cards, addresses, endpoint) ==
    pc'[t] = NextCall(work'[t]) /\ Sets(t, failed, cards, addresses, endpoint)

\* v is w with these parts.
Has(v, w, failed, cards, addresses, endpoint) ==
    /\ IsWork(v) /\ v.server = w.server /\ v.failed = failed /\ v.cards = cards
    /\ v.addresses = addresses /\ v.endpoint = endpoint

\* One part at a time.
LEMMA WorkSet ==
    ASSUME NEW w, IsWork(w), NEW a
    PROVE  /\ Has([w EXCEPT !.failed = a], w, a, w.cards, w.addresses, w.endpoint)
           /\ Has([w EXCEPT !.cards = a], w, w.failed, a, w.addresses, w.endpoint)
           /\ Has([w EXCEPT !.addresses = a], w, w.failed, w.cards, a, w.endpoint)
           /\ Has([w EXCEPT !.endpoint = a], w, w.failed, w.cards, w.addresses, a)
           /\ Has([w EXCEPT !.type = a], w, w.failed, w.cards, w.addresses, w.endpoint)
           /\ Has([w EXCEPT !.used = a], w, w.failed, w.cards, w.addresses, w.endpoint)
<1>1. PICK p, q, r, s, x, y, z, k :
         w = [failed |-> p, victims |-> q, server |-> r, cards |-> s, addresses |-> x,
              endpoint |-> y, used |-> z, type |-> k]
  BY DEF IsWork
<1>2. Has([w EXCEPT !.failed = a], w, a, w.cards, w.addresses, w.endpoint)
  BY <1>1 DEF Has, IsWork
<1>3. Has([w EXCEPT !.cards = a], w, w.failed, a, w.addresses, w.endpoint)
  BY <1>1 DEF Has, IsWork
<1>4. Has([w EXCEPT !.addresses = a], w, w.failed, w.cards, a, w.endpoint)
  BY <1>1 DEF Has, IsWork
<1>5. Has([w EXCEPT !.endpoint = a], w, w.failed, w.cards, w.addresses, a)
  BY <1>1 DEF Has, IsWork
<1>6. Has([w EXCEPT !.type = a], w, w.failed, w.cards, w.addresses, w.endpoint)
  BY <1>1 DEF Has, IsWork
<1>7. Has([w EXCEPT !.used = a], w, w.failed, w.cards, w.addresses, w.endpoint)
  BY <1>1 DEF Has, IsWork
<1>8. QED
  BY <1>2, <1>3, <1>4, <1>5, <1>6, <1>7

\* The parts that a step sets.
LEMMA WorkSets ==
    ASSUME NEW w, IsWork(w), NEW a, NEW b, NEW c
    PROVE  /\ Has([w EXCEPT !.failed = a, !.cards = b], w, a, b, w.addresses, w.endpoint)
           /\ Has([w EXCEPT !.failed = a, !.addresses = b], w, a, w.cards, b, w.endpoint)
           /\ Has([w EXCEPT !.endpoint = a, !.cards = b, !.addresses = c], w, w.failed, b, c, a)
           /\ Has([w EXCEPT !.type = a, !.used = b], w, w.failed, w.cards, w.addresses, w.endpoint)
<1> DEFINE f == [w EXCEPT !.failed = a]
           y == [w EXCEPT !.type = a]
           e == [w EXCEPT !.endpoint = a]
           d == [e EXCEPT !.cards = b]
<1>1. /\ Has(f, w, a, w.cards, w.addresses, w.endpoint)
      /\ Has(y, w, w.failed, w.cards, w.addresses, w.endpoint)
      /\ Has(e, w, w.failed, w.cards, w.addresses, a)
  BY WorkSet
<1> HIDE DEF f, y, e
<1>2. Has(d, e, e.failed, b, e.addresses, e.endpoint)
  <2>1. IsWork(e)
    BY <1>1 DEF Has
  <2>2. QED
    BY <2>1, WorkSet
<1> HIDE DEF d
<1>3. Has(d, w, w.failed, b, w.addresses, a)
  BY <1>1, <1>2 DEF Has
<1>4. /\ Has([f EXCEPT !.cards = b], f, f.failed, b, f.addresses, f.endpoint)
      /\ Has([f EXCEPT !.addresses = b], f, f.failed, f.cards, b, f.endpoint)
      /\ Has([y EXCEPT !.used = b], y, y.failed, y.cards, y.addresses, y.endpoint)
      /\ Has([d EXCEPT !.addresses = c], d, d.failed, d.cards, c, d.endpoint)
  <2>1. IsWork(f) /\ IsWork(y) /\ IsWork(d)
    BY <1>1, <1>3 DEF Has
  <2>2. QED
    BY <2>1, WorkSet
<1>5. /\ Has([f EXCEPT !.cards = b], w, a, b, w.addresses, w.endpoint)
      /\ Has([f EXCEPT !.addresses = b], w, a, w.cards, b, w.endpoint)
      /\ Has([y EXCEPT !.used = b], w, w.failed, w.cards, w.addresses, w.endpoint)
      /\ Has([d EXCEPT !.addresses = c], w, w.failed, b, c, a)
  BY <1>1, <1>3, <1>4 DEF Has
<1>6. QED
  BY <1>5 DEF f, y, e, d

LEMMA CarrySets ==
    ASSUME WorkOK, NEW t \in Tasks, NEW v, NEW failed, NEW cards, NEW addresses, NEW endpoint,
           Has(v, work[t], failed, cards, addresses, endpoint), Carry(t, v)
    PROVE  Sets(t, failed, cards, addresses, endpoint)
BY Carried DEF Has, Sets

LEMMA ContinueGoesOn ==
    ASSUME TypeOK, WorkOK, NEW t \in Tasks, NEW v, NEW failed, NEW cards, NEW addresses,
           NEW endpoint, Has(v, work[t], failed, cards, addresses, endpoint), Continue(t, v)
    PROVE  GoesOn(t, failed, cards, addresses, endpoint)
<1>1. work'[t] = v
  BY Carried DEF Has, Continue
<1>2. QED
  BY <1>1, CarrySets, Going DEF Continue, GoesOn

LEMMA UnchangedKeeps == \A t \in Tasks : UNCHANGED work => Keeps(t)
BY DEF Keeps, Sets

LEMMA ContinueKeeps ==
    ASSUME TypeOK, WorkOK, NEW t \in Tasks, Continue(t, work[t])
    PROVE  pc'[t] = NextCall(work'[t]) /\ Keeps(t)
<1>1. Has(work[t], work[t], work[t].failed, work[t].cards, work[t].addresses, work[t].endpoint)
  BY DEF WorkOK, Has
<1>2. QED
  BY <1>1, ContinueGoesOn DEF GoesOn, Keeps

LEMMA SkipCardGoesOn ==
    ASSUME TypeOK, WorkOK, NEW t \in Tasks, SkipCard(t)
    PROVE  GoesOn(t, TRUE, Tail(work[t].cards), work[t].addresses, work[t].endpoint)
<1> DEFINE b == Tail(work[t].cards)
           v == [work[t] EXCEPT !.failed = TRUE, !.cards = b]
<1>1. Has(v, work[t], TRUE, b, work[t].addresses, work[t].endpoint)
  <2>1. IsWork(work[t])
    BY DEF WorkOK
  <2> HIDE DEF b
  <2>2. QED
    BY <2>1, WorkSets
<1>2. Continue(t, v)
  BY DEF SkipCard
<1> HIDE DEF v
<1>3. QED
  BY <1>1, <1>2, ContinueGoesOn

LEMMA SkipAddressGoesOn ==
    ASSUME TypeOK, WorkOK, NEW t \in Tasks, SkipAddress(t)
    PROVE  GoesOn(t, TRUE, work[t].cards, Tail(work[t].addresses), work[t].endpoint)
<1> DEFINE b == Tail(work[t].addresses)
           v == [work[t] EXCEPT !.failed = TRUE, !.addresses = b]
<1>1. Has(v, work[t], TRUE, work[t].cards, b, work[t].endpoint)
  <2>1. IsWork(work[t])
    BY DEF WorkOK
  <2> HIDE DEF b
  <2>2. QED
    BY <2>1, WorkSets
<1>2. Continue(t, v)
  BY DEF SkipAddress
<1> HIDE DEF v
<1>3. QED
  BY <1>1, <1>2, ContinueGoesOn

LEMMA CardWrittenGoesOn ==
    ASSUME TypeOK, WorkOK, NEW t \in Tasks, NEW e, CardWritten(t, e)
    PROVE  GoesOn(t, work[t].failed, Tail(work[t].cards), Card(t).addresses, e)
<1> DEFINE b == Tail(work[t].cards)
           c == Card(t).addresses
           v == [work[t] EXCEPT !.endpoint = e, !.cards = b, !.addresses = c]
<1>1. Has(v, work[t], work[t].failed, b, c, e)
  <2>1. IsWork(work[t])
    BY DEF WorkOK
  <2> HIDE DEF b, c
  <2>2. QED
    BY <2>1, WorkSets
<1>2. Continue(t, v)
  BY DEF CardWritten
<1> HIDE DEF v
<1>3. QED
  BY <1>1, <1>2, ContinueGoesOn

LEMMA AddressWrittenGoesOn ==
    ASSUME TypeOK, WorkOK, NEW t \in Tasks, AddressWritten(t)
    PROVE  GoesOn(t, work[t].failed, work[t].cards, Tail(work[t].addresses), work[t].endpoint)
<1> DEFINE b == Tail(work[t].addresses)
           v == [work[t] EXCEPT !.addresses = b]
<1>1. Has(v, work[t], work[t].failed, work[t].cards, b, work[t].endpoint)
  <2>1. IsWork(work[t])
    BY DEF WorkOK
  <2> HIDE DEF b
  <2>2. QED
    BY <2>1, WorkSet
<1>2. Continue(t, v)
  BY DEF AddressWritten
<1> HIDE DEF v
<1>3. QED
  BY <1>1, <1>2, ContinueGoesOn

\* A refusal: what is recorded and where create goes on.
ReportGoes(t) ==
    LET w == work[t] IN
    \/ pc[t] = "write batch" /\ Goes(t, "write price")
    \/ /\ pc[t] = "write price" /\ pc'[t] = "write flavor"
       /\ Sets(t, TRUE, w.cards, w.addresses, w.endpoint)
    \/ pc[t] = "write flavor" /\ pc'[t] = NextCall(work'[t]) /\ Keeps(t)
    \/ pc[t] = "insert card" /\ GoesOn(t, TRUE, Tail(w.cards), w.addresses, w.endpoint)
    \/ /\ pc[t] \in {"find prefix", "insert address"}
       /\ GoesOn(t, TRUE, w.cards, Tail(w.addresses), w.endpoint)

LEMMA ReportSteps ==
    ASSUME TypeOK, WorkOK, NEW t \in Tasks, Report(t), pc[t] \in Late
    PROVE  Gone(t) \/ ReportGoes(t)
<1>1. CASE GoTo(t, "dead") \/ GoTo(t, "acked")
  BY <1>1, Going DEF Gone
<1>2. CASE pc[t] = "write batch" /\ GoTo(t, "write price") /\ UNCHANGED work
  BY <1>2, Going, UnchangedKeeps DEF ReportGoes, Goes
<1>3. CASE /\ pc[t] = "write price" /\ GoTo(t, "write flavor")
           /\ Carry(t, [work[t] EXCEPT !.failed = TRUE])
  <2> DEFINE v == [work[t] EXCEPT !.failed = TRUE]
  <2>1. Has(v, work[t], TRUE, work[t].cards, work[t].addresses, work[t].endpoint)
    BY WorkSet DEF WorkOK
  <2>2. Carry(t, v)
    BY <1>3
  <2> HIDE DEF v
  <2>3. QED
    BY <1>3, <2>1, <2>2, CarrySets, Going DEF ReportGoes
<1>4. CASE pc[t] = "write flavor" /\ Continue(t, work[t])
  BY <1>4, ContinueKeeps DEF ReportGoes
<1>5. CASE pc[t] = "insert card" /\ SkipCard(t)
  BY <1>5, SkipCardGoesOn DEF ReportGoes
<1>6. CASE pc[t] \in {"find prefix", "insert address"} /\ SkipAddress(t)
  BY <1>6, SkipAddressGoesOn DEF ReportGoes
<1>7. QED
  BY <1>1, <1>2, <1>3, <1>4, <1>5, <1>6 DEF Report, StopCreate

LEMMA NoReplySteps ==
    ASSUME TypeOK, WorkOK, NEW t \in Tasks, NoReply(t), pc[t] \in Late
    PROVE  Gone(t) \/ Goes(t, Again(pc[t])) \/ ReportGoes(t)
<1>1. CASE Interrupted(t, Again(pc[t]), FirstCall(t)) /\ UNCHANGED work
  <2>1. GoTo(t, Again(pc[t])) \/ GoTo(t, FirstCall(t)) \/ GoTo(t, "dead")
    BY <1>1 DEF Interrupted, Rerun, Refused
  <2>2. QED
    BY <1>1, <2>1, Going, UnchangedKeeps DEF Gone, Goes
<1>2. CASE Report(t)
  BY <1>2, ReportSteps
<1>3. QED
  BY <1>1, <1>2 DEF NoReply

\* The writes of the fields.
LEMMA FieldSteps ==
    ASSUME TypeOK, WorkOK, NEW t \in Tasks, Step(t), pc[t] \in FieldCalls
    PROVE  /\ UNCHANGED <<endpoints, ips, serial>>
           /\ UNCHANGED servers \/ \E fields : Write(t, fields)
           /\ \/ Gone(t) \/ Goes(t, pc[t])
              \/ pc[t] = "write batch" /\ Goes(t, "write price")
              \/ /\ pc[t] = "write price" /\ pc'[t] = "write flavor"
                 /\ Sets(t, TRUE, work[t].cards, work[t].addresses, work[t].endpoint)
              \/ pc[t] = "write price" /\ Goes(t, "write flavor") /\ Write(t, {"price"})
              \/ /\ pc[t] = "write batch" /\ Write(t, Fields)
                 /\ pc'[t] = NextCall(work'[t]) /\ Keeps(t)
              \/ pc[t] = "write flavor" /\ pc'[t] = NextCall(work'[t]) /\ Keeps(t)
<1>0. pc[t] \in Late /\ Again(pc[t]) = pc[t]
  BY DEF FieldCalls, Late, Again
<1>1. WriteBatch(t) \/ WritePrice(t) \/ WriteFlavor(t) \/ NotApplied(t)
  BY DEF FieldCalls, Step, Create, Removal, Resize, LookUp, CreateServer, ReselectServer,
         CreateCard, ReselectCard, FindPrefix, CreateAddress, ReselectAddress, WriteState,
         SelectServers, DeleteVictim, ResizePrice, ResizeFlavor
<1>2. NoReply(t) => Gone(t) \/ Goes(t, pc[t]) \/ ReportGoes(t)
  BY <1>0, NoReplySteps
<1>3. CASE NotApplied(t)
  BY <1>2, <1>3 DEF NotApplied, cmdb, ReportGoes, FieldCalls, Sets
<1>4. CASE WriteBatch(t)
  BY <1>2, <1>4, ContinueKeeps DEF WriteBatch, Write, ReportGoes
<1>5. CASE WritePrice(t)
  <2>1. /\ pc[t] = "write price" /\ Write(t, {"price"})
        /\ (GoTo(t, "write flavor") /\ UNCHANGED work) \/ NoReply(t)
    BY <1>5 DEF WritePrice, Reply
  <2>2. UNCHANGED <<endpoints, ips, serial>>
    BY <2>1 DEF Write
  <2>3. ReportGoes(t) => /\ pc'[t] = "write flavor"
                         /\ Sets(t, TRUE, work[t].cards, work[t].addresses, work[t].endpoint)
    BY <2>1 DEF ReportGoes
  <2>4. GoTo(t, "write flavor") /\ UNCHANGED work => Goes(t, "write flavor")
    BY Going, UnchangedKeeps DEF Goes
  <2>5. QED
    BY <1>2, <2>1, <2>2, <2>3, <2>4
<1>6. CASE WriteFlavor(t)
  <2>1. /\ pc[t] = "write flavor" /\ Write(t, {"flavor"})
        /\ Continue(t, work[t]) \/ NoReply(t)
    BY <1>6 DEF WriteFlavor
  <2>2. UNCHANGED <<endpoints, ips, serial>>
    BY <2>1 DEF Write
  <2>3. ReportGoes(t) => pc'[t] = NextCall(work'[t]) /\ Keeps(t)
    BY <2>1 DEF ReportGoes
  <2>4. QED
    BY <1>2, <2>1, <2>2, <2>3, ContinueKeeps
<1>7. QED
  BY <1>1, <1>3, <1>4, <1>5, <1>6

\* The rows _endpoint_selector finds.
Found(t) ==
    {e \in EndpointsOf(work[t].server) :
        IF Card(t).placeholder THEN e.mac = Card(t).mac ELSE e.name = Card(t).name}

\* The card is inserted.
CardIn(t) ==
    /\ CanInsertEndpoint(work[t].server, Card(t).name)
    /\ InsertEndpoint(work[t].server, Card(t).name, Card(t).mac)

LEMMA CardSteps ==
    ASSUME TypeOK, WorkOK, NEW t \in Tasks, Step(t), pc[t] \in CardCalls
    PROVE  LET w == work[t] IN
           /\ UNCHANGED <<servers, ips>>
           /\ UNCHANGED cmdb \/ (pc[t] = "insert card" /\ CardIn(t))
           /\ \/ Gone(t)
              \/ GoesOn(t, TRUE, Tail(w.cards), w.addresses, w.endpoint)
              \/ Goes(t, "reselect card")
              \/ CardIn(t) /\ GoesOn(t, w.failed, Tail(w.cards), Card(t).addresses, serial)
              \/ /\ pc[t] = "reselect card"
                 /\ \E e \in Found(t) :
                       GoesOn(t, w.failed, Tail(w.cards), Card(t).addresses, e.id)
              \/ pc[t] = "reselect card" /\ Found(t) = {} /\ Goes(t, "insert card")
<1>0. pc[t] \in Late /\ Again(pc[t]) = "reselect card"
  BY DEF CardCalls, Late, Again
<1>1. CreateCard(t) \/ ReselectCard(t) \/ NotApplied(t)
  BY DEF CardCalls, Step, Create, Removal, Resize, LookUp, CreateServer, ReselectServer,
         WriteBatch, WritePrice, WriteFlavor, FindPrefix, CreateAddress, ReselectAddress,
         WriteState, SelectServers, DeleteVictim, ResizePrice, ResizeFlavor
<1>2. ReportGoes(t) =>
         GoesOn(t, TRUE, Tail(work[t].cards), work[t].addresses, work[t].endpoint)
  BY DEF ReportGoes, CardCalls
<1>3. NoReply(t) => \/ Gone(t) \/ Goes(t, "reselect card")
                   \/ GoesOn(t, TRUE, Tail(work[t].cards), work[t].addresses, work[t].endpoint)
  BY <1>0, <1>2, NoReplySteps
<1>4. CASE NotApplied(t)
  BY <1>3, <1>4 DEF NotApplied, cmdb
<1>5. CASE CreateCard(t)
  <2>1. CASE Conflict(t)
    BY <1>0, <1>2, <2>1, ReportSteps DEF Conflict, cmdb
  <2>2. CASE ~Conflict(t)
    BY <1>3, <1>5, <2>2, CardWrittenGoesOn DEF CreateCard, CardIn
  <2>3. QED
    BY <2>1, <2>2
<1>6. CASE ReselectCard(t)
  <2>1. /\ pc[t] = "reselect card" /\ UNCHANGED cmdb
        /\ \/ \E e \in Found(t) : CardWritten(t, e.id)
           \/ Found(t) = {} /\ GoTo(t, "insert card") /\ UNCHANGED work
    BY <1>6 DEF ReselectCard, Found, Reply
  <2>2. QED
    BY <2>1, CardWrittenGoesOn, Going, UnchangedKeeps DEF Goes, cmdb
<1>7. QED
  BY <1>1, <1>4, <1>5, <1>6

\* The address is inserted, with whatever type.
AddressIn(t) ==
    /\ pc[t] = "insert address"
    /\ \E e \in endpoints : e.id = work[t].endpoint
    /\ \E type : InsertIp(Address(t), work[t].endpoint, PrefixOf[Address(t)], type)

There(t) ==
    \E i \in IpsOn(work[t].endpoint) : i.ip = Address(t) /\ i.prefix = PrefixOf[Address(t)]

LEMMA AddressSteps ==
    ASSUME TypeOK, WorkOK, NEW t \in Tasks, Step(t), pc[t] \in AddressCalls
    PROVE  LET w == work[t]
               next == GoesOn(t, w.failed, w.cards, Tail(w.addresses), w.endpoint)
           IN /\ UNCHANGED <<servers, endpoints>>
              /\ UNCHANGED cmdb \/ AddressIn(t)
              /\ \/ Gone(t)
                 \/ GoesOn(t, TRUE, w.cards, Tail(w.addresses), w.endpoint)
                 \/ pc[t] = "find prefix" /\ UNCHANGED cmdb
                    /\ (Goes(t, "find prefix") \/ Goes(t, "insert address"))
                 \/ pc[t] \in {"insert address", "reselect address"} /\ Goes(t, "reselect address")
                 \/ AddressIn(t) /\ next
                 \/ pc[t] = "reselect address" /\ There(t) /\ next
                 \/ pc[t] = "reselect address" /\ ~There(t) /\ Goes(t, "insert address")
<1> DEFINE w == work[t]
           Skips == GoesOn(t, TRUE, w.cards, Tail(w.addresses), w.endpoint)
<1>0. pc[t] \in Late /\ Again(pc[t]) = IF pc[t] = "find prefix" THEN pc[t] ELSE "reselect address"
  BY DEF AddressCalls, Late, Again
<1>1. FindPrefix(t) \/ CreateAddress(t) \/ ReselectAddress(t) \/ NotApplied(t)
  BY DEF AddressCalls, Step, Create, Removal, Resize, LookUp, CreateServer, ReselectServer,
         WriteBatch, WritePrice, WriteFlavor, CreateCard, ReselectCard, WriteState,
         SelectServers, DeleteVictim, ResizePrice, ResizeFlavor
<1>2. ReportGoes(t) => Skips
  BY DEF ReportGoes, AddressCalls
<1>3. NoReply(t) =>
         \/ Gone(t) \/ Skips
         \/ pc[t] = "find prefix" /\ Goes(t, "find prefix")
         \/ pc[t] \in {"insert address", "reselect address"} /\ Goes(t, "reselect address")
  BY <1>0, <1>2, NoReplySteps DEF AddressCalls
<1>4. CASE NotApplied(t)
  BY <1>3, <1>4 DEF NotApplied, cmdb
<1>5. CASE FindPrefix(t)
  <2> DEFINE type == resolve_ip_type(PrefixOf[Address(t)], w.used)
             x == [w EXCEPT !.type = type, !.used = w.used \cup {type}]
  <2> HIDE DEF type
  <2>1. Has(x, w, w.failed, w.cards, w.addresses, w.endpoint)
    BY WorkSets DEF WorkOK
  <2>2. /\ pc[t] = "find prefix" /\ UNCHANGED cmdb
        /\ SkipAddress(t) \/ (GoTo(t, "insert address") /\ Carry(t, x))
    BY <1>5 DEF FindPrefix, Reply, type
  <2> HIDE DEF x
  <2>3. Carry(t, x) => Keeps(t)
    BY <2>1, CarrySets DEF Keeps
  <2>4. SkipAddress(t) => Skips
    BY SkipAddressGoesOn
  <2>5. QED
    BY <2>2, <2>3, <2>4, Going DEF Goes, cmdb
<1>6. CASE CreateAddress(t)
  <2>1. CASE Conflict(t)
    BY <1>0, <1>2, <1>6, <2>1, ReportSteps DEF Conflict, cmdb
  <2>2. CASE ~Conflict(t)
    BY <1>3, <1>6, <2>2, AddressWrittenGoesOn DEF CreateAddress, CanInsertIp, AddressIn
  <2>3. QED
    BY <2>1, <2>2
<1>7. CASE ReselectAddress(t)
  <2>1. /\ pc[t] = "reselect address" /\ UNCHANGED cmdb
        /\ \/ There(t) /\ AddressWritten(t)
           \/ ~There(t) /\ GoTo(t, "insert address") /\ UNCHANGED work
    BY <1>7 DEF ReselectAddress, There, Reply
  <2>2. QED
    BY <2>1, AddressWrittenGoesOn, Going, UnchangedKeeps DEF Goes, cmdb
<1>8. QED
  BY <1>1, <1>4, <1>5, <1>6, <1>7

\* The write of the state.
LEMMA StateSteps ==
    ASSUME TypeOK, WorkOK, NEW t \in Tasks, Step(t), pc[t] = "write state"
    PROVE  /\ UNCHANGED <<endpoints, ips, serial>>
           /\ UNCHANGED servers \/ WriteState(t)
           /\ Gone(t) \/ Goes(t, "write state")
<1>0. pc[t] \in Late /\ Again(pc[t]) = "write state"
  BY DEF Late, Again
<1>1. WriteState(t) \/ NotApplied(t)
  BY DEF Step, Create, Removal, Resize, LookUp, CreateServer, ReselectServer,
         WriteBatch, WritePrice, WriteFlavor, CreateCard, ReselectCard, FindPrefix, CreateAddress,
         ReselectAddress, SelectServers, DeleteVictim, ResizePrice, ResizeFlavor
<1>2. NoReply(t) => Gone(t) \/ Goes(t, "write state")
  BY <1>0, NoReplySteps DEF ReportGoes
<1>3. GoTo(t, "acked") => Gone(t)
  BY Going DEF Gone
<1>4. QED
  BY <1>1, <1>2, <1>3 DEF WriteState, NotApplied, Reply, cmdb

LEMMA LateCalls == Late = FieldCalls \cup CardCalls \cup AddressCalls \cup {"write state"}
BY DEF Late, FieldCalls, CardCalls, AddressCalls

-----------------------------------------------------------------------------
(* What the tables hold of a create that is under way                      *)

\* The cards of a message can be told apart by their names, a placeholder by
\* its mac as well, and an address stands on a card once.
CardsDistinct ==
    \A t \in Creates : LET cards == Body[t].cards IN
        /\ cards \in Seq(Range(cards)) /\ IsInjective(cards)
        /\ \A c, d \in Range(cards) : c # d => c.name # d.name /\ (c.placeholder => c.mac # d.mac)
        /\ \A c \in Range(cards) :
              c.addresses \in Seq(Range(c.addresses)) /\ IsInjective(c.addresses)

\* Each endpoint is there under one id, on a server given before; rows with a
\* task's message were inserted by a create.
EndsOK ==
    /\ \A e \in endpoints : e.server \in 1 .. serial - 1
    /\ \A d, e \in endpoints : d.id = e.id => d = e
    /\ \A s \in servers : s.raw_info \in Tasks => s.raw_info \in Creates

\* The row of a create: in setup until the state is written, without endpoints
\* until the cards are, and with its price unless that failed.
RowAt(t) ==
    /\ pc[t] \in {"insert server", "reselect server"} => \A s \in servers :
          Concerns(t, s) => s.state = "setup" /\ EndpointsOf(s.id) = {}
    /\ pc[t] \in Late => \A s \in servers :
          /\ Concerns(t, s) => s.id = work[t].server
          /\ s.id = work[t].server =>
                /\ pc[t] # "write state" => s.state = "setup"
                /\ pc[t] \in FieldCalls => EndpointsOf(s.id) = {}
                /\ pc[t] \notin {"write batch", "write price"} /\ ~work[t].failed =>
                      s.fields["price"] # None

\* A stretch of cards, or of the addresses of one, still to be written.
Rest(all, left) == left \in Seq(Range(all)) /\ IsInjective(left)

\* The calls before the first card.
Before == {"select servers", "delete server", "insert server", "reselect server"} \cup FieldCalls

CarriesAt(t) ==
    LET w == work[t] IN
    /\ pc[t] \in Before => w.cards = Body[t].cards /\ w.addresses = <<>>
    /\ pc[t] \in CardCalls => w.cards # <<>> /\ w.addresses = <<>>
    /\ pc[t] \in AddressCalls =>
          /\ w.addresses # <<>>
          /\ w.endpoint \in 1 .. serial - 1
          /\ \A e \in endpoints : e.id = w.endpoint => e.server = w.server
    /\ pc[t] = "write state" => w.cards = <<>> /\ w.addresses = <<>>
    /\ pc[t] \in CardCalls \cup AddressCalls \cup {"write state"} => Rest(Body[t].cards, w.cards)

Matches(e, c) == e.name = c.name /\ e.mac = c.mac

IpsAre(id, addresses) ==
    /\ {i.ip : i \in IpsOn(id)} = addresses
    /\ \A i, j \in IpsOn(id) : i.ip = j.ip => i = j
    /\ \A i \in IpsOn(id) : i.prefix = PrefixOf[i.ip]

\* The endpoints of a server are the written cards, each once, with their
\* addresses; on a card that is partly done those left are missing.
Network(server, written, partial, left) ==
    /\ \A d, e \in EndpointsOf(server) : d.name = e.name => d = e
    /\ \A e \in EndpointsOf(server) : \E c \in written : Matches(e, c)
    /\ \A c \in written : \E e \in EndpointsOf(server) :
          /\ Matches(e, c)
          /\ IpsAre(e.id, IF c \in partial THEN Range(c.addresses) \ left ELSE Range(c.addresses))

Written(t) == Range(Body[t].cards) \ Range(work[t].cards)

HasRow(t) == \E s \in servers : s.id = work[t].server

\* The card whose addresses are being written.
OnCard(t, card) ==
    /\ card \in Written(t) /\ Rest(card.addresses, work[t].addresses)
    /\ \E e \in EndpointsOf(work[t].server) : e.id = work[t].endpoint /\ Matches(e, card)

\* What has been built when nothing failed: after an insert without an answer
\* the tables may or may not be one card, or one address, ahead.
BuildsAt(t) ==
    LET w == work[t] IN
    ~w.failed /\ HasRow(t) =>
        /\ pc[t] \in {"insert card", "write state"} => Network(w.server, Written(t), {}, {})
        /\ pc[t] = "reselect card" =>
              \/ Network(w.server, Written(t), {}, {})
              \/ Network(w.server, Written(t) \cup {Card(t)}, {Card(t)}, Range(Card(t).addresses))
        /\ pc[t] \in AddressCalls => \E card \in Written(t) :
              /\ OnCard(t, card)
              /\ \/ Network(w.server, Written(t), {card}, Range(w.addresses))
                 \/ /\ pc[t] = "reselect address"
                    /\ Network(w.server, Written(t), {card}, Range(Tail(w.addresses)))

ReadyOK ==
    \A s \in servers : s.state = "ready" /\ s.raw_info \in Tasks =>
        /\ s.fields["price"] # None
        /\ Network(s.id, Range(Body[s.raw_info].cards), {}, {})

-----------------------------------------------------------------------------
(* Sequences without repetition                                            *)

LEMMA TailRest ==
    ASSUME NEW all, NEW left, Rest(all, left), left # <<>>
    PROVE  /\ Head(left) \in Range(all) /\ Head(left) \in Range(left)
           /\ Rest(all, Tail(left))
           /\ Range(Tail(left)) = Range(left) \ {Head(left)}
<1> DEFINE S == Range(all)
<1>1. left \in Seq(S) /\ IsInjective(left) /\ Len(left) \in Nat /\ DOMAIN left = 1 .. Len(left)
  BY DEF Rest
<1>2. /\ Head(left) \in S /\ Tail(left) \in Seq(S) /\ Len(Tail(left)) = Len(left) - 1
      /\ \A i \in 1 .. Len(Tail(left)) : Tail(left)[i] = left[i + 1]
  BY <1>1, HeadTailProperties
<1>3. Len(left) # 0 /\ Head(left) = left[1]
  BY <1>1
<1>4. DOMAIN Tail(left) = 1 .. Len(left) - 1
  BY <1>1, <1>2
<1>5. IsInjective(Tail(left))
  BY <1>1, <1>2, <1>4 DEF IsInjective
<1>6. 1 \in DOMAIN left /\ Head(left) \in Range(left)
  BY <1>1, <1>3 DEF Range
<1>7. \A x \in Range(Tail(left)) : x \in Range(left) \ {Head(left)}
  <2>1. SUFFICES ASSUME NEW i \in 1 .. Len(left) - 1
                 PROVE  left[i + 1] \in Range(left) /\ left[i + 1] # Head(left)
    BY <1>2, <1>4 DEF Range
  <2>2. i + 1 \in DOMAIN left /\ i + 1 # 1
    BY <1>1
  <2>3. QED
    BY <1>1, <1>3, <1>6, <2>2 DEF IsInjective, Range
<1>8. \A x \in Range(left) \ {Head(left)} : x \in Range(Tail(left))
  <2>1. SUFFICES ASSUME NEW i \in DOMAIN left, left[i] # Head(left)
                 PROVE  left[i] \in Range(Tail(left))
    BY DEF Range
  <2>2. i - 1 \in 1 .. Len(left) - 1 /\ (i - 1) + 1 = i
    BY <1>1, <1>3, <2>1
  <2>3. Tail(left)[i - 1] = left[i]
    BY <1>2, <2>2
  <2>4. QED
    BY <1>4, <2>2, <2>3 DEF Range
<1>9. QED
  BY <1>2, <1>5, <1>6, <1>7, <1>8 DEF Rest

LEMMA WholeRest ==
    ASSUME NEW all, all \in Seq(Range(all)), IsInjective(all)
    PROVE  Rest(all, all)
BY DEF Rest

LEMMA NoneLeft == Range(<<>>) = {}
BY DEF Range

LEMMA NextShape ==
    ASSUME NEW w
    PROVE  /\ NextCall(w) \in {"find prefix", "insert card", "write state"}
           /\ NextCall(w) = "find prefix" <=> w.addresses # <<>>
           /\ NextCall(w) = "insert card" <=> w.addresses = <<>> /\ w.cards # <<>>
           /\ NextCall(w) = "write state" <=> w.addresses = <<>> /\ w.cards = <<>>
BY DEF NextCall

-----------------------------------------------------------------------------
(* What becomes of rows                                                    *)

\* A row as it was, but for its fields or its state.
LEMMA Written1 ==
    ASSUME ServersOK, NEW t \in Tasks, NEW fields, Write(t, fields)
    PROVE  \A s \in servers' : \E r \in servers :
              /\ SameRow(s, r) /\ s.state = r.state
              /\ s.fields["price"] =
                    IF r \in Where(t) /\ "price" \in fields THEN t ELSE r.fields["price"]
<1> DEFINE of(r) == [f \in Fields |-> IF f \in fields THEN t ELSE r.fields[f]]
<1>1. \A s \in servers' : \/ s \in servers \ Where(t)
                          \/ \E r \in Where(t) : s = [r EXCEPT !.fields = of(r)]
  BY DEF Write
<1>2. ASSUME NEW r \in Where(t), NEW s, s = [r EXCEPT !.fields = of(r)]
      PROVE  /\ SameRow(s, r) /\ s.state = r.state
             /\ s.fields["price"] = IF "price" \in fields THEN t ELSE r.fields["price"]
  <2>1. PICK a, b, c, d, e, g :
           r = [id |-> a, uuid |-> b, hostname |-> c, raw_info |-> d, state |-> e, fields |-> g]
    BY DEF Where, ServersOK, IsServer
  <2>2. of(r)["price"] = IF "price" \in fields THEN t ELSE r.fields["price"]
    BY DEF Fields
  <2> HIDE DEF of
  <2>3. SameRow(s, r) /\ s.state = r.state /\ s.fields = of(r)
    BY <1>2, <2>1 DEF SameRow
  <2>4. QED
    BY <2>2, <2>3
<1>3. \A r \in servers : SameRow(r, r)
  BY DEF SameRow
<1>4. Where(t) \subseteq servers
  BY DEF Where
<1> HIDE DEF of
<1>5. QED
  BY <1>1, <1>2, <1>3, <1>4

StateOf(t) == IF work[t].failed THEN "error" ELSE "ready"

LEMMA Written2 ==
    ASSUME ServersOK, NEW t \in Tasks, WriteState(t)
    PROVE  \A s \in servers' : \E r \in servers :
              /\ SameRow(s, r) /\ s.fields["price"] = r.fields["price"]
              /\ s.state = IF r \in Where(t) THEN StateOf(t) ELSE r.state
<1>1. \A s \in servers' : \/ s \in servers \ Where(t)
                          \/ \E r \in Where(t) : s = [r EXCEPT !.state = StateOf(t)]
  BY DEF WriteState, StateOf
<1>2. ASSUME NEW r \in Where(t), NEW s, s = [r EXCEPT !.state = StateOf(t)]
      PROVE  SameRow(s, r) /\ s.fields["price"] = r.fields["price"] /\ s.state = StateOf(t)
  <2>1. PICK a, b, c, d, e, g :
           r = [id |-> a, uuid |-> b, hostname |-> c, raw_info |-> d, state |-> e, fields |-> g]
    BY DEF Where, ServersOK, IsServer
  <2>2. QED
    BY <1>2, <2>1 DEF SameRow
<1>3. \A r \in servers : SameRow(r, r)
  BY DEF SameRow
<1>4. Where(t) \subseteq servers
  BY DEF Where
<1>5. QED
  BY <1>1, <1>2, <1>3, <1>4

\* s comes from r: only the writer of a state changes it.
From(u, s, r) ==
    /\ SameRow(s, r)
    /\ s.fields["price"] \in {r.fields["price"], u}
    /\ \/ s.state = r.state
       \/ pc[u] = "write state" /\ r \in Where(u) /\ s.state = StateOf(u)

LEMMA RowsAre ==
    ASSUME ServersOK, NEW u \in Tasks, Step(u)
    PROVE  \A s \in servers' :
              \/ \E r \in servers : From(u, s, r)
              \/ pc[u] = "insert server" /\ s = NewServer(u)
<1>0. \A s \in servers : From(u, s, s)
  BY DEF From, SameRow
<1>1. CASE servers' \subseteq servers
  BY <1>0, <1>1
<1>2. CASE \E fields : Write(u, fields)
  <2>1. PICK fields : Write(u, fields)
    BY <1>2
  <2>2. \A s \in servers' : \E r \in servers :
           /\ SameRow(s, r) /\ s.state = r.state
           /\ s.fields["price"] \in {r.fields["price"], u}
    BY <2>1, Written1
  <2>3. QED
    BY <2>2 DEF From
<1>3. CASE WriteState(u)
  <2>1. pc[u] = "write state"
    BY <1>3 DEF WriteState
  <2>2. QED
    BY <1>3, <2>1, Written2 DEF From
<1>4. CASE pc[u] = "insert server" /\ servers' = servers \cup {NewServer(u)}
  BY <1>0, <1>4
<1>5. (\E v : DeleteServer(v)) => servers' \subseteq servers
  BY DEF DeleteServer
<1>6. pc[u] \in {"write batch", "write price", "write flavor", "write state", "resize price",
                 "resize flavor"} =>
         UNCHANGED servers \/ WriteState(u) \/ \E fields : Write(u, fields)
  BY DEF Step, Create, Removal, Resize, NotApplied, LookUp, CreateServer, ReselectServer,
         WriteBatch, WritePrice, WriteFlavor, CreateCard, ReselectCard, FindPrefix, CreateAddress,
         ReselectAddress, SelectServers, DeleteVictim, ResizePrice, ResizeFlavor, cmdb
<1>7. QED
  BY <1>1, <1>2, <1>3, <1>4, <1>5, <1>6, StepTables DEF cmdb

-----------------------------------------------------------------------------
(* What a step leaves of a server's network                                *)

LEMMA NetMoves ==
    ASSUME TypeOK, ServersOK, WorkOK, NEW u \in Tasks, Step(u)
    PROVE  \/ UNCHANGED <<endpoints, ips>>
           \/ UNCHANGED serial /\ \E v : DeleteServer(v)
           \/ pc[u] = "insert card" /\ CardIn(u) /\ UNCHANGED <<servers, ips>>
           \/ AddressIn(u) /\ UNCHANGED <<servers, endpoints>>
<1>1. CASE pc[u] \in CardCalls
  BY <1>1, CardSteps DEF cmdb
<1>2. CASE pc[u] \in AddressCalls
  BY <1>2, AddressSteps DEF cmdb
<1>3. CASE pc[u] \notin CardCalls \cup AddressCalls
  BY <1>3, StepTables DEF cmdb, CardCalls, AddressCalls
<1>4. QED
  BY <1>1, <1>2, <1>3

LEMMA NewEnd ==
    ASSUME NEW u, CardIn(u)
    PROVE  \E new :
              /\ endpoints' = endpoints \cup {new} /\ serial' = serial + 1
              /\ new.id = serial /\ new.server = work[u].server /\ Matches(new, Card(u))
<1> DEFINE new == [id |-> serial, server |-> work[u].server, name |-> Card(u).name,
                   mac |-> Card(u).mac]
<1>1. endpoints' = endpoints \cup {new} /\ serial' = serial + 1
  BY DEF CardIn, InsertEndpoint
<1>2. new.id = serial /\ new.server = work[u].server /\ Matches(new, Card(u))
  BY DEF Matches
<1> HIDE DEF new
<1>3. QED
  BY <1>1, <1>2

LEMMA EndsAre ==
    ASSUME TypeOK, ServersOK, WorkOK, NEW u \in Tasks, Step(u)
    PROVE  \A e \in endpoints' :
              \/ e \in endpoints
              \/ /\ pc[u] = "insert card" /\ serial' = serial + 1
                 /\ e.id = serial /\ e.server = work[u].server
<1>1. ASSUME NEW v, DeleteServer(v) PROVE endpoints' \subseteq endpoints
  BY <1>1 DEF DeleteServer
<1>2. QED
  BY <1>1, NetMoves, NewEnd

LEMMA EndsStep ==
    ASSUME TypeOK, ServersOK, WorkOK, NEW u \in Tasks, OwnsAt(u), Step(u), EndsOK
    PROVE  EndsOK'
<1>1. pc[u] = "insert card" => work[u].server \in 1 .. serial - 1
  BY DEF OwnsAt, Late
<1>2. \A id \in 1 .. serial - 1 : id # serial /\ id \in 1 .. serial' - 1
  BY SerialGrows
<1>3. \A e \in endpoints : e.id \in 1 .. serial - 1 /\ e.server \in 1 .. serial - 1
  BY DEF TypeOK, EndsOK
<1>4. \A e \in endpoints' : e.server \in 1 .. serial' - 1
  BY <1>1, <1>2, <1>3, EndsAre
<1>5. \A d, e \in endpoints' : d.id = e.id => d = e
  <2>1. CASE endpoints' \subseteq endpoints
    BY <2>1 DEF EndsOK
  <2>2. CASE CardIn(u)
    <3>1. PICK new : endpoints' = endpoints \cup {new} /\ new.id = serial
      BY <2>2, NewEnd
    <3>2. QED
      BY <1>2, <1>3, <3>1 DEF EndsOK
  <2>3. (\E v : DeleteServer(v)) => endpoints' \subseteq endpoints
    BY DEF DeleteServer
  <2>4. QED
    BY <2>1, <2>2, <2>3, NetMoves
<1>6. \A s \in servers' : s.raw_info \in Tasks => s.raw_info \in Creates
  <2>1. pc[u] = "insert server" => u \in Creates /\ NewServer(u).raw_info = u
    BY DEF OwnsAt, Creates, NewServer
  <2>2. \A s \in servers : s.raw_info \in Tasks => s.raw_info \in Creates
    BY DEF EndsOK
  <2>3. QED
    BY <2>1, <2>2, RowsAre DEF From, SameRow
<1>7. QED
  BY <1>4, <1>5, <1>6 DEF EndsOK

SameNetwork(x) ==
    /\ EndpointsOf(x)' = EndpointsOf(x)
    /\ \A e \in EndpointsOf(x) : IpsOn(e.id)' = IpsOn(e.id)

\* The end of the address being written.
OnEnd(t) ==
    /\ work[t].endpoint \in 1 .. serial - 1
    /\ \A e \in endpoints : e.id = work[t].endpoint => e.server = work[t].server

\* A server that stays keeps its network, unless a create is writing it.
LEMMA NetFrame ==
    ASSUME TypeOK, ServersOK, WorkOK, NEW u \in Tasks, Step(u), EndsOK,
           pc[u] \in AddressCalls => OnEnd(u), NEW x, \E s \in servers' : s.id = x,
           pc[u] \in CardCalls \cup AddressCalls => work[u].server # x
    PROVE  SameNetwork(x)
<1>1. CASE UNCHANGED <<endpoints, ips>>
  BY <1>1 DEF SameNetwork, EndpointsOf, IpsOn
<1>2. ASSUME NEW v, DeleteServer(v) PROVE SameNetwork(x)
  <2>1. v # x
    BY <1>2 DEF DeleteServer
  <2>2. EndpointsOf(x)' = EndpointsOf(x)
    BY <1>2, <2>1 DEF DeleteServer, EndpointsOf
  <2>3. ASSUME NEW e \in EndpointsOf(x) PROVE IpsOn(e.id)' = IpsOn(e.id)
    <3>1. \A d \in EndpointsOf(v) : d.id # e.id
      BY <2>1 DEF EndpointsOf, EndsOK
    <3>2. ips' = {i \in ips : \A d \in EndpointsOf(v) : d.id # i.endpoint}
      BY <1>2 DEF DeleteServer
    <3>3. QED
      BY <3>1, <3>2 DEF IpsOn
  <2>4. QED
    BY <2>2, <2>3 DEF SameNetwork
<1>3. CASE pc[u] = "insert card" /\ CardIn(u) /\ UNCHANGED <<servers, ips>>
  <2>1. work[u].server # x
    BY <1>3 DEF CardCalls
  <2>2. EndpointsOf(x)' = EndpointsOf(x)
    BY <1>3, <2>1, NewEnd DEF EndpointsOf
  <2>3. QED
    BY <1>3, <2>2 DEF SameNetwork, IpsOn
<1>4. CASE AddressIn(u) /\ UNCHANGED <<servers, endpoints>>
  <2>1. pc[u] \in AddressCalls /\ work[u].server # x
    BY <1>4 DEF AddressIn, AddressCalls
  <2>2. \A e \in EndpointsOf(x) : e.id # work[u].endpoint
    BY <2>1 DEF OnEnd, EndpointsOf
  <2>3. \E type : ips' = ips \cup {[id |-> serial, ip |-> Address(u), endpoint |-> work[u].endpoint,
                                    prefix |-> PrefixOf[Address(u)], type |-> type]}
    BY <1>4 DEF AddressIn, InsertIp
  <2>4. \A e \in EndpointsOf(x) : IpsOn(e.id)' = IpsOn(e.id)
    BY <2>2, <2>3 DEF IpsOn
  <2>5. QED
    BY <1>4, <2>4 DEF SameNetwork, EndpointsOf
<1>5. QED
  BY <1>1, <1>2, <1>3, <1>4, NetMoves

LEMMA NetworkStays ==
    ASSUME NEW x, SameNetwork(x), NEW written, NEW partial, NEW left,
           Network(x, written, partial, left)
    PROVE  Network(x, written, partial, left)'
<1>1. \A e \in EndpointsOf(x) : \A a : IpsAre(e.id, a) => IpsAre(e.id, a)'
  BY DEF SameNetwork, IpsAre
<1>2. QED
  BY <1>1 DEF SameNetwork, Network

-----------------------------------------------------------------------------
(* What a create carries on its way                                        *)

\* The cards are taken from the message, and kept until the first is written.
Laden(t) == work'[t].cards = work[t].cards /\ work'[t].addresses = work[t].addresses

LEMMA EarlyPart ==
    ASSUME WorkOK, NEW t \in Tasks, NEW a,
           \/ Carry(t, [work[t] EXCEPT !.victims = a])
           \/ Carry(t, [work[t] EXCEPT !.server = a])
    PROVE  Laden(t)
<1>1. PICK p, q, r, s, x, y, z, k :
         work[t] = [failed |-> p, victims |-> q, server |-> r, cards |-> s, addresses |-> x,
                    endpoint |-> y, used |-> z, type |-> k]
  BY DEF WorkOK, IsWork
<1>2. \A w : Carry(t, w) => work'[t] = w
  BY DEF WorkOK, Carry
<1>3. CASE Carry(t, [work[t] EXCEPT !.victims = a])
  <2>1. work'[t] = [work[t] EXCEPT !.victims = a]
    BY <1>2, <1>3
  <2>2. QED
    BY <1>1, <2>1 DEF Laden
<1>4. CASE Carry(t, [work[t] EXCEPT !.server = a])
  <2>1. work'[t] = [work[t] EXCEPT !.server = a]
    BY <1>2, <1>4
  <2>2. QED
    BY <1>1, <2>1 DEF Laden
<1>5. QED
  BY <1>3, <1>4

LEMMA EarlyCards ==
    ASSUME TypeOK, WorkOK, NEW t \in Tasks, Step(t), pc[t] \notin Late
    PROVE  \/ Gone(t)
           \/ Laden(t) /\ (pc[t] = "look up" => pc'[t] = "look up")
           \/ work'[t].cards = Body[t].cards /\ work'[t].addresses = <<>>
<1> DEFINE Same == Laden(t) /\ (pc[t] = "look up" => pc'[t] = "look up")
<1>0. UNCHANGED work => Laden(t)
  BY DEF Laden
<1>1. NoReply(t) => Gone(t) \/ Same
  BY <1>0, NoReplyMoves DEF Again
<1>2. Conflict(t) => Gone(t)
  BY ReportWork DEF Conflict, Gone
<1>3. CASE NotApplied(t)
  BY <1>1, <1>3 DEF NotApplied
<1>4. CASE LookUp(t)
  <2>1. PICK failed :
           Carry(t, [NoWork EXCEPT !.failed = failed, !.cards = Body[t].cards])
    BY <1>4 DEF LookUp
  <2>2. work'[t] = [NoWork EXCEPT !.failed = failed, !.cards = Body[t].cards]
    BY <2>1, NoWorkIsWork, Carried
  <2>3. QED
    BY <2>2 DEF NoWork
<1>5. CASE SelectServers(t)
  BY <1>5, EarlyPart DEF SelectServers
<1>6. CASE DeleteVictim(t)
  <2>1. pc[t] # "look up"
    BY <1>6 DEF DeleteVictim
  <2>2. NoReply(t) \/ \E a : Carry(t, [work[t] EXCEPT !.victims = a])
    BY <1>6 DEF DeleteVictim
  <2>3. QED
    BY <1>1, <2>1, <2>2, EarlyPart
<1>7. CASE CreateServer(t)
  <2>1. pc[t] # "look up"
    BY <1>7 DEF CreateServer
  <2>2. Conflict(t) \/ NoReply(t) \/ Carry(t, [work[t] EXCEPT !.server = serial])
    BY <1>7 DEF CreateServer
  <2>3. QED
    BY <1>1, <1>2, <2>1, <2>2, EarlyPart
<1>8. CASE ReselectServer(t)
  <2>1. pc[t] # "look up"
    BY <1>8 DEF ReselectServer
  <2>2. UNCHANGED work \/ \E a : Carry(t, [work[t] EXCEPT !.server = a])
    BY <1>8 DEF ReselectServer
  <2>3. QED
    BY <1>0, <2>1, <2>2, EarlyPart
<1>9. CASE Resize(t)
  <2>1. pc[t] # "look up"
    BY <1>9 DEF Resize, ResizePrice, ResizeFlavor
  <2>2. NoReply(t) \/ UNCHANGED work
    BY <1>9 DEF Resize, ResizePrice, ResizeFlavor
  <2>3. QED
    BY <1>0, <1>1, <2>1, <2>2
<1>10. ~(\/ WriteBatch(t) \/ WritePrice(t) \/ WriteFlavor(t)
         \/ CreateCard(t) \/ ReselectCard(t) \/ FindPrefix(t)
         \/ CreateAddress(t) \/ ReselectAddress(t) \/ WriteState(t))
  BY DEF WriteBatch, WritePrice, WriteFlavor, CreateCard, ReselectCard, FindPrefix,
         CreateAddress, ReselectAddress, WriteState, Late
<1>11. QED
  BY <1>3, <1>4, <1>5, <1>6, <1>7, <1>8, <1>9, <1>10 DEF Step, Create, Removal

\* A create that has ended, or begun, carries nothing yet.
LEMMA GoneCarries ==
    ASSUME NEW t \in Tasks, pc'[t] \in Ended \cup {"look up"}
    PROVE  CarriesAt(t)' /\ RowAt(t)' /\ BuildsAt(t)'
<1>1. \A c \in Ended \cup {"look up"} :
         c \notin Before \cup CardCalls \cup AddressCalls \cup {"write state"} \cup Late
  BY DEF Ended, Before, FieldCalls, CardCalls, AddressCalls, Late
<1>2. "reselect card" \in CardCalls /\ "insert card" \in CardCalls
      /\ "insert server" \in Before /\ "reselect server" \in Before
  BY DEF CardCalls, Before
<1>3. CarriesAt(t)'
  BY <1>1 DEF CarriesAt
<1>4. RowAt(t)'
  BY <1>1, <1>2 DEF RowAt
<1>5. BuildsAt(t)'
  BY <1>1, <1>2 DEF BuildsAt
<1>6. QED
  BY <1>3, <1>4, <1>5

LEMMA GoneIs ==
    ASSUME NEW t \in Creates, Gone(t)
    PROVE  pc'[t] \in Ended \cup {"look up"}
BY DEF Gone, FirstCall, Creates, Ended

\* Where a create is before it has its row.
Prologue == {"look up", "select servers", "delete server", "insert server", "reselect server"}

LEMMA EarlyCall ==
    ASSUME TypeOK, WorkOK, NEW t \in Creates, Routed(t), Step(t), pc[t] \notin Late
    PROVE  /\ pc[t] \in Prologue
           /\ Gone(t) \/ pc'[t] \in Prologue \cup {"write batch"}
<1>1. pc[t] \in Prologue
  BY StepIsBusy DEF Routed, CallsOf, Calls, Creates, Busy, Prologue, Late
<1>2. EarlyMove(t)
  BY EarlyStep DEF Creates
<1>3. Again(pc[t]) \in Prologue /\ \A v : AfterRemoval(t, v) \in Prologue
  BY <1>1 DEF Again, Prologue, AfterRemoval, Creates
<1>4. QED
  BY <1>1, <1>2, <1>3 DEF EarlyMove, Prologue

LEMMA NextCarries ==
    ASSUME NEW t \in Tasks, pc'[t] = NextCall(work'[t]), Rest(Body[t].cards, work'[t].cards),
           work'[t].addresses # <<>> => OnEnd(t)'
    PROVE  CarriesAt(t)'
<1>1. \/ pc'[t] = "find prefix" /\ work'[t].addresses # <<>>
      \/ pc'[t] = "insert card" /\ work'[t].addresses = <<>> /\ work'[t].cards # <<>>
      \/ pc'[t] = "write state" /\ work'[t].addresses = <<>> /\ work'[t].cards = <<>>
  BY NextShape
<1>2. QED
  BY <1>1 DEF CarriesAt, OnEnd, Before, FieldCalls, CardCalls, AddressCalls

LEMMA CarriesKept ==
    ASSUME NEW t \in Tasks, CarriesAt(t), Goes(t, pc'[t]),
           \/ pc[t] \in Before /\ pc'[t] \in Before
           \/ pc[t] \in CardCalls /\ pc'[t] \in CardCalls
           \/ pc[t] \in AddressCalls /\ pc'[t] \in AddressCalls /\ OnEnd(t)'
           \/ pc[t] = "write state" /\ pc'[t] = "write state"
    PROVE  CarriesAt(t)'
<1>1. work'[t].cards = work[t].cards /\ work'[t].addresses = work[t].addresses
  BY DEF Goes, Keeps, Sets
<1>2. QED
  BY <1>1 DEF CarriesAt, OnEnd, Before, FieldCalls, CardCalls, AddressCalls

LEMMA CarriesStep ==
    ASSUME CardsDistinct, TypeOK, ServersOK, WorkOK, EndsOK, NEW t \in Creates,
           Routed(t), OwnsAt(t), CarriesAt(t), Step(t)
    PROVE  CarriesAt(t)'
<1> t \in Tasks /\ Body[t].kind = "create"
  BY DEF Creates
<1>0. Gone(t) => CarriesAt(t)'
  BY GoneIs, GoneCarries
<1>1. CASE pc[t] \notin Late
  <2>1. pc[t] \in Prologue /\ (Gone(t) \/ pc'[t] \in Prologue \cup {"write batch"})
    BY <1>1, EarlyCall
  <2>2. CASE pc'[t] \in Before
    <3>1. ~Gone(t) => /\ work'[t].cards = Body[t].cards /\ work'[t].addresses = <<>>
      <4>1. pc[t] \in Before \/ pc[t] = "look up"
        BY <2>1 DEF Prologue, Before
      <4>2. pc'[t] # "look up"
        BY <2>2 DEF Before, FieldCalls
      <4>3. QED
        BY <1>1, <4>1, <4>2, EarlyCards DEF Laden, CarriesAt
    <3>2. QED
      BY <1>0, <2>2, <3>1 DEF CarriesAt, Before, FieldCalls, CardCalls, AddressCalls
  <2>3. CASE pc'[t] = "look up"
    BY <2>3, GoneCarries
  <2>4. QED
    BY <1>0, <2>1, <2>2, <2>3 DEF Prologue, Before, FieldCalls
<1>2. CASE pc[t] \in FieldCalls
  <2>1. work[t].cards = Body[t].cards /\ work[t].addresses = <<>>
    BY <1>2 DEF CarriesAt, Before
  <2>2. Rest(Body[t].cards, Body[t].cards)
    BY WholeRest DEF CardsDistinct
  <2>3. CASE Keeps(t) /\ pc'[t] = NextCall(work'[t])
    BY <2>1, <2>2, <2>3, NextCarries DEF Keeps, Sets
  <2>4. ASSUME NEW f, pc'[t] \in FieldCalls,
               Sets(t, f, work[t].cards, work[t].addresses, work[t].endpoint)
        PROVE  CarriesAt(t)'
    BY <2>1, <2>4 DEF Sets, CarriesAt, FieldCalls, Before, CardCalls, AddressCalls
  <2>5. ASSUME NEW next \in FieldCalls, Goes(t, next) PROVE CarriesAt(t)'
    BY <2>4, <2>5 DEF Goes, Keeps
  <2>6. {"write price", "write flavor"} \subseteq FieldCalls
    BY DEF FieldCalls
  <2>7. QED
    BY <1>0, <1>2, <2>3, <2>4, <2>5, <2>6, FieldSteps
<1>3. CASE pc[t] \in CardCalls
  <2>1. /\ work[t].cards # <<>> /\ work[t].addresses = <<>> /\ Rest(Body[t].cards, work[t].cards)
    BY <1>3 DEF CarriesAt
  <2>2. Rest(Body[t].cards, Tail(work[t].cards))
    BY <2>1, TailRest
  <2>3. CASE GoesOn(t, TRUE, Tail(work[t].cards), work[t].addresses, work[t].endpoint)
    BY <2>1, <2>2, <2>3, NextCarries DEF GoesOn, Sets
  <2>4. CASE pc'[t] \in CardCalls /\ Goes(t, pc'[t])
    BY <1>3, <2>4, CarriesKept
  <2>5. ASSUME NEW e,
               GoesOn(t, work[t].failed, Tail(work[t].cards), Card(t).addresses, e),
               e \in 1 .. serial' - 1,
               \A d \in endpoints' : d.id = e => d.server = work[t].server
        PROVE  CarriesAt(t)'
    BY <2>2, <2>5, NextCarries DEF GoesOn, Sets, OnEnd
  <2>6. ASSUME NEW e \in Found(t), pc[t] = "reselect card",
               GoesOn(t, work[t].failed, Tail(work[t].cards), Card(t).addresses, e.id)
        PROVE  CarriesAt(t)'
    <3>1. UNCHANGED cmdb
      BY <1>3, <2>6, CardSteps
    <3>2. e \in endpoints /\ e.server = work[t].server
      BY <2>6 DEF Found, EndpointsOf
    <3>3. e.id \in 1 .. serial' - 1 /\ \A d \in endpoints' : d.id = e.id => d.server = work[t].server
      BY <3>1, <3>2 DEF cmdb, TypeOK, EndsOK
    <3>4. QED
      BY <2>5, <2>6, <3>3
  <2>7. ASSUME CardIn(t),
               GoesOn(t, work[t].failed, Tail(work[t].cards), Card(t).addresses, serial)
        PROVE  CarriesAt(t)'
    <3>1. PICK new : /\ endpoints' = endpoints \cup {new} /\ serial' = serial + 1
                     /\ new.id = serial /\ new.server = work[t].server
      BY <2>7, NewEnd
    <3>2. serial \in 1 .. serial' - 1
      BY <3>1 DEF TypeOK
    <3>3. \A d \in endpoints : d.id # serial
      BY DEF TypeOK
    <3>4. QED
      BY <2>5, <2>7, <3>1, <3>2, <3>3
  <2>8. QED
    BY <1>0, <1>3, <2>3, <2>4, <2>6, <2>7, CardSteps DEF Goes, CardCalls
<1>4. CASE pc[t] \in AddressCalls
  <2>1. work[t].addresses # <<>> /\ Rest(Body[t].cards, work[t].cards) /\ OnEnd(t)
    BY <1>4 DEF CarriesAt, OnEnd
  <2>2. /\ UNCHANGED endpoints /\ \A id \in 1 .. serial - 1 : id \in 1 .. serial' - 1
    BY <1>4, AddressSteps, SerialGrows
  <2>3. work'[t].endpoint = work[t].endpoint /\ work'[t].server = work[t].server => OnEnd(t)'
    BY <2>1, <2>2 DEF OnEnd
  <2>4. ASSUME NEW failed,
               GoesOn(t, failed, work[t].cards, Tail(work[t].addresses), work[t].endpoint)
        PROVE  CarriesAt(t)'
    BY <2>1, <2>3, <2>4, NextCarries DEF GoesOn, Sets
  <2>5. CASE pc'[t] \in AddressCalls /\ Goes(t, pc'[t])
    BY <1>4, <2>3, <2>5, CarriesKept DEF Goes, Keeps, Sets
  <2>6. QED
    BY <1>0, <1>4, <2>4, <2>5, AddressSteps DEF Goes, AddressCalls
<1>5. CASE pc[t] = "write state"
  BY <1>0, <1>5, StateSteps, CarriesKept DEF Goes
<1>6. QED
  BY <1>1, <1>2, <1>3, <1>4, <1>5, LateCalls

-----------------------------------------------------------------------------
(* The row of a create                                                     *)

LEMMA GetsRow ==
    ASSUME TypeOK, WorkOK, NEW t \in Creates, Step(t), pc[t] \notin Late, pc'[t] = "write batch"
    PROVE  \/ /\ pc[t] = "insert server" /\ CanInsertServer(Body[t].hostname)
              /\ servers' = servers \cup {NewServer(t)} /\ work'[t].server = serial
           \/ /\ pc[t] = "reselect server" /\ UNCHANGED cmdb
              /\ \E s \in servers : s.hostname = Body[t].hostname /\ work'[t].server = s.id
<1> t \in Tasks /\ Body[t].kind = "create"
  BY DEF Creates
<1>1. pc[t] \in {"insert server", "reselect server"}
  <2>1. FirstCall(t) # "write batch" /\ \A v : AfterRemoval(t, v) # "write batch"
    BY DEF FirstCall, AfterRemoval
  <2>2. Again(pc[t]) # "write batch"
    BY DEF Again, Late
  <2>3. QED
    BY <2>1, <2>2, EarlyStep DEF EarlyMove, Gone
<1>2. ~NoReply(t) /\ ~Conflict(t)
  <2>1. ~NoReply(t)
    BY <1>1, NoReplyMoves, FirstCalls DEF Again, Gone, FirstCall
  <2>2. ~Conflict(t)
    BY ReportWork DEF Conflict
  <2>3. QED
    BY <2>1, <2>2
<1>3. CreateServer(t) \/ ReselectServer(t)
  BY <1>1, <1>2 DEF Step, Create, Removal, Resize, LookUp, WriteBatch, WritePrice, WriteFlavor,
     CreateCard, ReselectCard, FindPrefix, CreateAddress, ReselectAddress, WriteState,
     SelectServers, DeleteVictim, ResizePrice, ResizeFlavor, NotApplied
<1>4. CASE CreateServer(t)
  <2>1. /\ pc[t] = "insert server" /\ CanInsertServer(Body[t].hostname)
        /\ servers' = servers \cup {NewServer(t)}
        /\ GoTo(t, "write batch") /\ Carry(t, [work[t] EXCEPT !.server = serial])
    BY <1>2, <1>4 DEF CreateServer, NewServer, Reply
  <2>2. QED
    BY <2>1, SetsServer
<1>5. CASE ReselectServer(t)
  <2>1. ASSUME GoTo(t, "insert server") PROVE FALSE
    <3>1. pc'[t] = "insert server"
      BY <2>1, Going
    <3>2. QED
      BY <3>1
  <2>2. PICK s \in servers : /\ s.hostname = Body[t].hostname /\ GoTo(t, "write batch")
                             /\ Carry(t, [work[t] EXCEPT !.server = s.id])
    BY <1>5, <2>1 DEF ReselectServer, Reply
  <2>3. work'[t].server = s.id
    BY <2>2, SetsServer
  <2>4. QED
    BY <1>5, <2>2, <2>3 DEF ReselectServer
<1>6. QED
  BY <1>3, <1>4, <1>5

\* With its row, a create goes forward, and what failed stays failed.
LEMMA LateMove ==
    ASSUME TypeOK, WorkOK, NEW t \in Tasks, Step(t), pc[t] \in Late
    PROVE  \/ Gone(t)
           \/ /\ OnItsRow(t)
              /\ work'[t].failed \in {TRUE, work[t].failed}
              /\ pc'[t] \in FieldCalls => pc[t] \in FieldCalls
              /\ pc[t] = "write state" => pc'[t] = "write state"
<1> SUFFICES ASSUME ~Gone(t)
             PROVE  /\ work'[t].failed \in {TRUE, work[t].failed}
                    /\ pc'[t] \in FieldCalls => pc[t] \in FieldCalls
                    /\ pc[t] = "write state" => pc'[t] = "write state"
  BY LateWork
<1>0. NextCall(work'[t]) \notin FieldCalls
  BY NextShape DEF FieldCalls
<1>1. CASE pc[t] \in FieldCalls
  BY <1>1, FieldSteps DEF Goes, Keeps, Sets, FieldCalls
<1>2. CASE pc[t] \in CardCalls
  BY <1>0, <1>2, CardSteps DEF Goes, Keeps, GoesOn, Sets, CardCalls, FieldCalls
<1>3. CASE pc[t] \in AddressCalls
  BY <1>0, <1>3, AddressSteps DEF Goes, Keeps, GoesOn, Sets, AddressCalls, FieldCalls
<1>4. CASE pc[t] = "write state"
  BY <1>4, StateSteps DEF Goes, Keeps, Sets, FieldCalls
<1>5. QED
  BY <1>1, <1>2, <1>3, <1>4, LateCalls

\* The prices a write of the fields leaves.
LEMMA PriceStep ==
    ASSUME TypeOK, ServersOK, WorkOK, NEW t \in Creates, OwnsAt(t), RowAt(t), Step(t),
           pc[t] \in Late, pc'[t] \in Late \ {"write batch", "write price"}, ~work'[t].failed,
           ~Gone(t), NEW s \in servers', s.id = work[t].server
    PROVE  s.fields["price"] # None
<1> t \in Tasks /\ t # None
  BY LifecycleAssumption DEF Creates
<1>1. \A r \in servers : r.id = work[t].server =>
         /\ r \in Where(t)
         /\ pc[t] \notin {"write batch", "write price"} /\ ~work[t].failed => r.fields["price"] # None
  BY DEF OwnsAt, RowAt, Mine, Where, Creates
<1>2. ASSUME NEW fields, Write(t, fields), "price" \in fields PROVE s.fields["price"] # None
  <2>1. PICK r \in servers : /\ SameRow(s, r)
                             /\ s.fields["price"] = IF r \in Where(t) /\ "price" \in fields
                                                    THEN t ELSE r.fields["price"]
    BY <1>2, Written1
  <2>2. QED
    BY <1>1, <1>2, <2>1 DEF SameRow
<1>3. CASE pc[t] \notin {"write batch", "write price"}
  <2>1. ~work[t].failed
    BY LateMove
  <2>2. PICK r \in servers : SameRow(s, r) /\ s.fields["price"] \in {r.fields["price"], t}
    BY RowsAre DEF From, Late
  <2>3. QED
    BY <1>1, <1>3, <2>1, <2>2 DEF SameRow
<1>4. CASE pc[t] \in {"write batch", "write price"}
  <2>1. pc[t] \in FieldCalls /\ "price" \in Fields /\ "price" \in {"price"}
    BY <1>4 DEF FieldCalls, Fields
  <2>2. \/ Write(t, Fields) \/ Write(t, {"price"})
    BY <1>4, <2>1, FieldSteps DEF Goes, Sets
  <2>3. QED
    BY <1>2, <2>1, <2>2
<1>5. QED
  BY <1>3, <1>4

\* The endpoints of a row not yet given are none.
LEMMA NewIsBare ==
    ASSUME TypeOK, EndsOK
    PROVE  EndpointsOf(serial) = {}
<1>1. \A e \in endpoints : e.server # serial
  BY DEF TypeOK, EndsOK
<1>2. QED
  BY <1>1 DEF EndpointsOf

LEMMA NewServerIs ==
    ASSUME NEW t
    PROVE  /\ NewServer(t).id = serial /\ NewServer(t).state = "setup"
           /\ NewServer(t).raw_info = t
           /\ NewServer(t).uuid = Body[t].uuid /\ NewServer(t).hostname = Body[t].hostname
BY DEF NewServer

LEMMA RowStep ==
    ASSUME TypeOK, ServersOK, WorkOK, EndsOK, OneServerPerInstance, NEW t \in Creates,
           Routed(t), OwnsAt(t), CarriesAt(t), RowAt(t), Step(t)
    PROVE  RowAt(t)'
<1> t \in Tasks /\ Body[t].kind = "create"
  BY DEF Creates
<1>0. Gone(t) => RowAt(t)'
  BY GoneIs, GoneCarries
<1>1. CASE pc[t] \notin Late
  <2>1. pc[t] \in Prologue /\ (Gone(t) \/ pc'[t] \in Prologue \cup {"write batch"})
    BY <1>1, EarlyCall
  <2>2. pc[t] \notin CardCalls \cup AddressCalls
    BY <1>1, LateCalls
  <2>3. CASE pc'[t] = "insert server"
    <3>1. pc'[t] \notin Late
      BY <2>3 DEF Late
    <3>2. \A s \in servers' : ~Concerns(t, s)'
      BY <2>3, InsertClear
    <3>3. QED
      BY <3>1, <3>2 DEF RowAt
  <2>4. CASE pc'[t] = "reselect server"
    <3>1. pc'[t] \notin Late
      BY <2>4 DEF Late
    <3>2. pc[t] \in {"insert server", "reselect server"}
      BY <1>1, <2>4, FirstCalls, EarlyStep
      DEF EarlyMove, Gone, Early, Again, AfterRemoval, Late
    <3>3. ASSUME NEW s \in servers', Concerns(t, s)
          PROVE  s.state = "setup" /\ EndpointsOf(s.id)' = {}
      <4>1. SameNetwork(s.id)
        BY <2>2, NetFrame
      <4>2. CASE s = NewServer(t)
        BY <4>1, <4>2, NewServerIs, NewIsBare DEF SameNetwork
      <4>3. CASE \E r \in servers : From(t, s, r)
        <5>1. PICK r \in servers : SameRow(s, r) /\ s.state = r.state
          BY <3>2, <4>3 DEF From
        <5>2. Concerns(t, r) /\ r.id = s.id
          BY <3>3, <5>1 DEF SameRow, Concerns
        <5>3. QED
          BY <3>2, <4>1, <5>1, <5>2 DEF RowAt, SameNetwork
      <4>4. QED
        BY <4>2, <4>3, RowsAre
    <3>4. QED
      BY <3>1, <3>3 DEF RowAt, Concerns
  <2>5. CASE pc'[t] = "write batch"
    <3> DEFINE id == work'[t].server
    <3>1. ASSUME NEW s \in servers'
          PROVE  /\ Concerns(t, s) => s.id = id
                 /\ s.id = id => s.state = "setup" /\ EndpointsOf(s.id)' = {}
      <4>1. SameNetwork(s.id)
        BY <2>2, NetFrame
      <4>2. CASE /\ pc[t] = "insert server" /\ CanInsertServer(Body[t].hostname)
                 /\ servers' = servers \cup {NewServer(t)} /\ id = serial
        <5>1. \A r \in servers : ~Concerns(t, r)
          BY <4>2 DEF OwnsAt, Mine, CanInsertServer
        <5>2. \A r \in servers : r.id # serial
          BY DEF TypeOK
        <5>3. CASE s \in servers
          BY <4>2, <5>1, <5>2, <5>3
        <5>4. CASE s = NewServer(t)
          BY <4>1, <4>2, <5>4, NewServerIs, NewIsBare DEF SameNetwork
        <5>5. QED
          BY <4>2, <5>3, <5>4
      <4>3. CASE /\ pc[t] = "reselect server" /\ UNCHANGED cmdb
                 /\ \E r \in servers : r.hostname = Body[t].hostname /\ id = r.id
        <5>1. PICK r \in servers : r.hostname = Body[t].hostname /\ id = r.id
          BY <4>3
        <5>2. Concerns(t, r) /\ Mine(t, r) /\ s \in servers
          BY <4>3, <5>1 DEF OwnsAt, Concerns, cmdb
        <5>3. Concerns(t, s) => s = r
          BY <4>3, <5>2 DEF OwnsAt, Mine, OneServerPerInstance
        <5>4. s.id = id => s = r
          BY <5>1, <5>2 DEF ServersOK
        <5>5. r.state = "setup" /\ EndpointsOf(r.id)' = {}
          BY <4>3, <5>2 DEF RowAt, cmdb, EndpointsOf
        <5>6. QED
          BY <5>1, <5>3, <5>4, <5>5
      <4>4. QED
        BY <1>1, <2>5, <4>2, <4>3, GetsRow
    <3> HIDE DEF id
    <3>2. \A s \in servers' :
             /\ Concerns(t, s)' => s.id = id
             /\ s.id = id => s.state = "setup" /\ EndpointsOf(s.id)' = {}
      BY <3>1 DEF Concerns
    <3>3. QED
      BY <2>5, <3>2 DEF RowAt, id
  <2>6. CASE pc'[t] \in {"look up", "select servers", "delete server"}
    BY <2>6 DEF RowAt, Late
  <2>7. QED
    BY <1>0, <2>1, <2>3, <2>4, <2>5, <2>6 DEF Prologue
<1>2. CASE pc[t] \in Late /\ ~Gone(t)
  <2>1. /\ pc'[t] \in Late /\ work'[t].server = work[t].server
        /\ pc'[t] \in FieldCalls => pc[t] \in FieldCalls
        /\ pc[t] = "write state" => pc'[t] = "write state"
    BY <1>2, LateMove DEF OnItsRow
  <2>2. ASSUME NEW s \in servers'
        PROVE  /\ Concerns(t, s) => s.id = work[t].server
               /\ s.id = work[t].server =>
                     /\ pc'[t] # "write state" => s.state = "setup"
                     /\ pc'[t] \in FieldCalls => EndpointsOf(s.id)' = {}
    <3>1. PICK r \in servers : From(t, s, r)
      BY <1>2, RowsAre DEF Late
    <3>2. (Concerns(t, s) => Concerns(t, r)) /\ r.id = s.id
      BY <3>1 DEF From, SameRow, Concerns
    <3>3. pc[t] # "write state" => s.state = r.state
      BY <3>1 DEF From
    <3>4. pc[t] \in FieldCalls => EndpointsOf(s.id)' = EndpointsOf(s.id)
      BY FieldSteps DEF EndpointsOf
    <3>5. QED
      BY <1>2, <2>1, <3>2, <3>3, <3>4 DEF RowAt
  <2>3. \A s \in servers' : s.id = work[t].server =>
           (pc'[t] \notin {"write batch", "write price"} /\ ~work'[t].failed => s.fields["price"] # None)
    BY <1>2, <2>1, PriceStep
  <2>4. pc'[t] \notin {"insert server", "reselect server"}
    BY <2>1 DEF Late
  <2>5. \A s \in servers' : Concerns(t, s)' => s.id = work[t].server
    BY <2>2 DEF Concerns
  <2>6. QED
    BY <2>1, <2>2, <2>3, <2>4, <2>5 DEF RowAt
<1>3. QED
  BY <1>0, <1>1, <1>2

-----------------------------------------------------------------------------
(* How a network grows                                                     *)

\* Cards whose names tell them apart.
Named(cards) == \A c, d \in cards : c # d => c.name # d.name

LEMMA BareNetwork ==
    ASSUME NEW x, EndpointsOf(x) = {}
    PROVE  Network(x, {}, {}, {})
BY DEF Network

\* A card of which nothing is left is written.
LEMMA PartDone ==
    ASSUME NEW x, NEW written, NEW card
    PROVE  /\ Network(x, written, {card}, {}) => Network(x, written, {}, {})
           /\ Network(x, written, {card}, {})' => Network(x, written, {}, {})'
BY DEF Network

LEMMA CardGrows ==
    ASSUME TypeOK, NEW x, NEW written, NEW card, card \notin written,
           Network(x, written, {}, {}), NEW new, endpoints' = endpoints \cup {new},
           UNCHANGED ips, new.id = serial, new.server = x, Matches(new, card),
           \A e \in EndpointsOf(x) : e.name # card.name
    PROVE  Network(x, written \cup {card}, {card}, Range(card.addresses))'
<1>1. EndpointsOf(x)' = EndpointsOf(x) \cup {new}
  BY DEF EndpointsOf
<1>2. \A id : IpsOn(id)' = IpsOn(id)
  BY DEF IpsOn
<1>3. IpsOn(serial) = {}
  <2>1. \A i \in ips : i.endpoint # serial
    BY DEF TypeOK
  <2>2. QED
    BY <2>1 DEF IpsOn
<1> DEFINE of(c) == IF c \in {card} THEN Range(c.addresses) \ Range(card.addresses)
                    ELSE Range(c.addresses)
<1>4. \A d, e \in EndpointsOf(x)' : d.name = e.name => d = e
  BY <1>1 DEF Network, Matches
<1>5. \A e \in EndpointsOf(x)' : \E c \in written \cup {card} : Matches(e, c)
  BY <1>1 DEF Network
<1>6. ASSUME NEW c \in written \cup {card}
      PROVE  \E e \in EndpointsOf(x)' : Matches(e, c) /\ IpsAre(e.id, of(c))'
  <2>1. CASE c = card
    <3>1. of(c) = {}
      BY <2>1
    <3>2. IpsAre(new.id, {})'
      BY <1>2, <1>3 DEF IpsAre
    <3>3. QED
      BY <1>1, <2>1, <3>1, <3>2
  <2>2. CASE c \in written
    <3>1. PICK e \in EndpointsOf(x) : Matches(e, c) /\ IpsAre(e.id, Range(c.addresses))
      BY <2>2 DEF Network
    <3>2. of(c) = Range(c.addresses)
      BY <2>2
    <3>3. IpsAre(e.id, Range(c.addresses))'
      BY <1>2, <3>1 DEF IpsAre
    <3>4. QED
      BY <1>1, <3>1, <3>2, <3>3
  <2>3. QED
    BY <2>1, <2>2
<1>7. QED
  BY <1>4, <1>5, <1>6 DEF Network

LEMMA AddressGrows ==
    ASSUME EndsOK, NEW x, NEW written, Named(written), NEW card \in written, NEW left, NEW a,
           Network(x, written, {card}, left), a \in left, a \in Range(card.addresses),
           NEW e \in EndpointsOf(x), Matches(e, card), UNCHANGED endpoints,
           NEW type, InsertIp(a, e.id, PrefixOf[a], type)
    PROVE  Network(x, written, {card}, left \ {a})'
<1> DEFINE new == [id |-> serial, ip |-> a, endpoint |-> e.id, prefix |-> PrefixOf[a],
                   type |-> type]
           of(c) == IF c \in {card} THEN Range(c.addresses) \ left ELSE Range(c.addresses)
           to(c) == IF c \in {card} THEN Range(c.addresses) \ (left \ {a}) ELSE Range(c.addresses)
<1>1. ips' = ips \cup {new}
  BY DEF InsertIp
<1>2. new.ip = a /\ new.endpoint = e.id /\ new.prefix = PrefixOf[a]
  OBVIOUS
<1> HIDE DEF new
<1>3. EndpointsOf(x)' = EndpointsOf(x)
  BY DEF EndpointsOf
<1>4. IpsOn(e.id)' = IpsOn(e.id) \cup {new} /\ \A id : id # e.id => IpsOn(id)' = IpsOn(id)
  BY <1>1, <1>2 DEF IpsOn
<1>5. \A d \in EndpointsOf(x) : Matches(d, card) => d = e
  BY DEF Network, Matches
<1>6. IpsAre(e.id, of(card))
  BY <1>5 DEF Network
<1>7. IpsAre(e.id, to(card))'
  <2>1. to(card) = of(card) \cup {a} /\ a \notin of(card)
    OBVIOUS
  <2> HIDE DEF of, to
  <2>2. {i.ip : i \in IpsOn(e.id)'} = {i.ip : i \in IpsOn(e.id)} \cup {a}
    BY <1>2, <1>4
  <2>3. \A i \in IpsOn(e.id) : i.ip # a
    BY <1>6, <2>1 DEF IpsAre
  <2>4. \A i, j \in IpsOn(e.id)' : i.ip = j.ip => i = j
    BY <1>2, <1>4, <1>6, <2>3 DEF IpsAre
  <2>5. \A i \in IpsOn(e.id)' : i.prefix = PrefixOf[i.ip]
    BY <1>2, <1>4, <1>6 DEF IpsAre
  <2>6. QED
    BY <1>6, <2>1, <2>2, <2>4, <2>5 DEF IpsAre
<1>8. ASSUME NEW c \in written
      PROVE  \E d \in EndpointsOf(x)' : Matches(d, c) /\ IpsAre(d.id, to(c))'
  <2>1. CASE c = card
    BY <1>3, <1>7, <2>1
  <2>2. CASE c # card
    <3>1. PICK d \in EndpointsOf(x) : Matches(d, c) /\ IpsAre(d.id, Range(c.addresses))
      BY <2>2 DEF Network
    <3>2. d.id # e.id
      BY <2>2, <3>1 DEF EndsOK, EndpointsOf, Matches, Named
    <3>3. IpsAre(d.id, Range(c.addresses))'
      BY <1>4, <3>1, <3>2 DEF IpsAre
    <3>4. QED
      BY <1>3, <2>2, <3>1, <3>3
  <2>3. QED
    BY <2>1, <2>2
<1>9. QED
  BY <1>3, <1>8 DEF Network

-----------------------------------------------------------------------------
(* A create builds the network of its message                              *)

LEMMA CardsOf ==
    ASSUME CardsDistinct, NEW t \in Creates
    PROVE  /\ Named(Range(Body[t].cards)) /\ Named(Written(t))
           /\ \A c, d \in Range(Body[t].cards) : c # d /\ c.placeholder => c.mac # d.mac
           /\ \A c \in Range(Body[t].cards) : Rest(c.addresses, c.addresses)
BY WholeRest DEF CardsDistinct, Named, Written

\* The first card left becomes a written one.
LEMMA OneMore ==
    ASSUME NEW t \in Tasks, Rest(Body[t].cards, work[t].cards), work[t].cards # <<>>
    PROVE  /\ Card(t) \in Range(Body[t].cards) /\ Card(t) \notin Written(t)
           /\ work'[t].cards = Tail(work[t].cards) => Written(t)' = Written(t) \cup {Card(t)}
<1>1. /\ Card(t) \in Range(Body[t].cards) /\ Card(t) \in Range(work[t].cards)
      /\ Range(Tail(work[t].cards)) = Range(work[t].cards) \ {Card(t)}
  BY TailRest DEF Card
<1>2. QED
  BY <1>1 DEF Written

LEMMA NextBuilds ==
    ASSUME NEW t \in Tasks, pc'[t] = NextCall(work'[t]),
           work'[t].addresses = <<>> => Network(work[t].server, Written(t), {}, {})',
           work'[t].addresses # <<>> => \E card \in Written(t)' :
               /\ OnCard(t, card)'
               /\ Network(work[t].server, Written(t), {card}, Range(work[t].addresses))'
    PROVE  BuildsAt(t)'
<1>1. \/ pc'[t] = "find prefix" /\ work'[t].addresses # <<>>
      \/ pc'[t] = "insert card" /\ work'[t].addresses = <<>>
      \/ pc'[t] = "write state" /\ work'[t].addresses = <<>>
  BY NextShape
<1>2. QED
  BY <1>1 DEF BuildsAt, AddressCalls

\* The end of the first card left is there.
LEMMA CardBuilds ==
    ASSUME CardsDistinct, NEW t \in Creates, Rest(Body[t].cards, work[t].cards),
           work[t].cards # <<>>, NEW x, NEW id, NEW card, card = Card(t),
           NEW written, written = Written(t) \cup {card}, x = work[t].server,
           GoesOn(t, work[t].failed, Tail(work[t].cards), card.addresses, id),
           Network(x, written, {card}, Range(card.addresses))',
           \E e \in EndpointsOf(x)' : e.id = id /\ Matches(e, card)
    PROVE  BuildsAt(t)'
<1> t \in Tasks
  BY DEF Creates
<1>1. /\ pc'[t] = NextCall(work'[t]) /\ work'[t].server = x /\ work'[t].endpoint = id
      /\ work'[t].cards = Tail(work[t].cards) /\ work'[t].addresses = card.addresses
  BY DEF GoesOn, Sets
<1>2. Written(t)' = written /\ card \in Range(Body[t].cards)
  BY <1>1, OneMore
<1>3. Rest(card.addresses, card.addresses)
  BY <1>2, CardsOf
<1>4. OnCard(t, card)'
  BY <1>1, <1>2, <1>3 DEF OnCard
<1>5. CASE card.addresses = <<>>
  <2>1. Network(x, written, {}, {})'
    BY <1>5, PartDone, NoneLeft
  <2>2. QED
    BY <1>1, <1>2, <1>5, <2>1, NextBuilds
<1>6. CASE card.addresses # <<>>
  BY <1>1, <1>2, <1>4, <1>6, NextBuilds
<1>7. QED
  BY <1>5, <1>6

LEMMA FieldsBuild ==
    ASSUME TypeOK, ServersOK, WorkOK, NEW t \in Creates, CarriesAt(t), RowAt(t), Step(t),
           pc[t] \in FieldCalls, HasRow(t), ~Gone(t)
    PROVE  BuildsAt(t)'
<1> t \in Tasks
  BY DEF Creates
<1>1. PICK x : x = work[t].server
  OBVIOUS
<1>2. pc[t] \in Late /\ EndpointsOf(x) = {}
  BY <1>1, LateCalls DEF HasRow, RowAt
<1>3. UNCHANGED <<endpoints, ips>>
  BY FieldSteps
<1>4. Network(x, {}, {}, {})'
  BY <1>2, <1>3, BareNetwork, NetworkStays DEF SameNetwork, EndpointsOf, IpsOn
<1>5. work[t].cards = Body[t].cards /\ work[t].addresses = <<>>
  BY DEF CarriesAt, Before
<1>6. CASE pc'[t] \in FieldCalls
  BY <1>6 DEF BuildsAt, FieldCalls, AddressCalls
<1>7. CASE pc'[t] = NextCall(work'[t]) /\ Keeps(t)
  <2>1. /\ work'[t].addresses = <<>> /\ work'[t].cards = Body[t].cards /\ work'[t].server = x
    BY <1>1, <1>5, <1>7 DEF Keeps, Sets
  <2>2. Written(t)' = {}
    BY <2>1 DEF Written
  <2>3. QED
    BY <1>4, <1>7, <2>1, <2>2, NextBuilds
<1>8. QED
  BY <1>6, <1>7, FieldSteps DEF Goes, FieldCalls

\* The endpoint _endpoint_selector finds is the card's.
LEMMA FoundIsCard ==
    ASSUME CardsDistinct, NEW t \in Creates, Rest(Body[t].cards, work[t].cards),
           work[t].cards # <<>>, NEW e \in Found(t), NEW written, NEW partial, NEW left,
           Network(work[t].server, written, partial, left),
           written \subseteq Written(t) \cup {Card(t)}
    PROVE  Matches(e, Card(t)) /\ Card(t) \in written
<1>1. Card(t) \in Range(Body[t].cards) /\ Card(t) \notin Written(t)
  BY OneMore DEF Creates
<1>2. PICK c \in written : Matches(e, c)
  BY DEF Network, Found
<1>3. ASSUME c # Card(t) PROVE FALSE
  <2>1. c \in Range(Body[t].cards)
    BY <1>2, <1>3 DEF Written
  <2>2. c.name # Card(t).name /\ (Card(t).placeholder => Card(t).mac # c.mac)
    BY <1>1, <1>3, <2>1, CardsOf DEF Named
  <2>3. e.name = c.name /\ e.mac = c.mac
    BY <1>2 DEF Matches
  <2>4. IF Card(t).placeholder THEN e.mac = Card(t).mac ELSE e.name = Card(t).name
    BY DEF Found
  <2>5. QED
    BY <2>2, <2>3, <2>4
<1>4. QED
  BY <1>2, <1>3

LEMMA CardsBuild ==
    ASSUME CardsDistinct, TypeOK, ServersOK, WorkOK, NEW t \in Creates, CarriesAt(t),
           BuildsAt(t), Step(t), pc[t] \in CardCalls, HasRow(t), ~Gone(t), ~work'[t].failed
    PROVE  BuildsAt(t)'
<1> t \in Tasks
  BY DEF Creates
<1>1. PICK x, card, W : x = work[t].server /\ card = Card(t) /\ W = Written(t)
  OBVIOUS
<1>2. /\ ~work[t].failed /\ work[t].cards # <<>> /\ Rest(Body[t].cards, work[t].cards)
  BY LateMove, LateCalls DEF CarriesAt
<1>3. card \in Range(Body[t].cards) /\ card \notin W
  BY <1>1, <1>2, OneMore
<1> DEFINE Same == Network(x, W, {}, {})
           Ahead == Network(x, W \cup {card}, {card}, Range(card.addresses))
<1>4. /\ pc[t] = "insert card" => Same
      /\ pc[t] = "reselect card" => Same \/ Ahead
  BY <1>1, <1>2 DEF BuildsAt
<1>5. ASSUME UNCHANGED cmdb PROVE (Same => Same') /\ (Ahead => Ahead')
  <2>1. SameNetwork(x)
    BY <1>5 DEF SameNetwork, EndpointsOf, IpsOn, cmdb
  <2>2. QED
    BY <2>1, NetworkStays
<1>6. ASSUME CardIn(t), pc[t] = "insert card"
      PROVE  Ahead' /\ \E e \in EndpointsOf(x)' : e.id = serial /\ Matches(e, card)
  <2>1. PICK new : /\ endpoints' = endpoints \cup {new}
                   /\ new.id = serial /\ new.server = x /\ Matches(new, card)
    BY <1>1, <1>6, NewEnd
  <2>2. \A e \in EndpointsOf(x) : e.name # card.name
    BY <1>1, <1>6 DEF CardIn, CanInsertEndpoint
  <2>3. UNCHANGED ips
    BY CardSteps
  <2>4. Same
    BY <1>4, <1>6
  <2> HIDE DEF Same
  <2>5. Ahead'
    BY <1>3, <2>1, <2>2, <2>3, <2>4, CardGrows DEF Same
  <2>6. QED
    BY <2>1, <2>5 DEF EndpointsOf
<1>7. CASE Goes(t, "reselect card")
  <2>1. work'[t].server = x /\ work'[t].cards = work[t].cards
    BY <1>1, <1>7 DEF Goes, Keeps, Sets
  <2>2. Card(t)' = card /\ Written(t)' = W
    BY <1>1, <2>1 DEF Card, Written
  <2>3. Same' \/ Ahead'
    BY <1>4, <1>5, <1>6, CardSteps DEF CardCalls
  <2>4. pc'[t] = "reselect card"
    BY <1>7 DEF Goes
  <2>5. QED
    BY <2>1, <2>2, <2>3, <2>4 DEF BuildsAt, AddressCalls
<1>8. CASE /\ pc[t] = "reselect card" /\ UNCHANGED cmdb
           /\ \E e \in Found(t) :
                 GoesOn(t, work[t].failed, Tail(work[t].cards), card.addresses, e.id)
  <2>1. PICK e \in Found(t) :
           GoesOn(t, work[t].failed, Tail(work[t].cards), card.addresses, e.id)
    BY <1>8
  <2>2. ~Same
    BY <1>1, <1>2, <1>3, <2>1, FoundIsCard
  <2>3. Ahead /\ Matches(e, card)
    <3>1. Ahead
      BY <1>4, <1>8, <2>2
    <3>2. Matches(e, card)
      BY <1>1, <1>2, <2>1, <3>1, FoundIsCard
    <3>3. QED
      BY <3>1, <3>2
  <2>4. Ahead' /\ e \in EndpointsOf(x)'
    BY <1>1, <1>5, <1>8, <2>1, <2>3 DEF Found, EndpointsOf, cmdb
  <2>5. QED
    BY <1>1, <1>2, <2>1, <2>3, <2>4, CardBuilds
<1>9. CASE CardIn(t) /\ pc[t] = "insert card" /\
           GoesOn(t, work[t].failed, Tail(work[t].cards), card.addresses, serial)
  BY <1>1, <1>2, <1>6, <1>9, CardBuilds
<1>10. CASE /\ pc[t] = "reselect card" /\ UNCHANGED cmdb /\ Found(t) = {}
            /\ Goes(t, "insert card")
  <2>1. ~Ahead
    <3>1. SUFFICES ASSUME Ahead PROVE FALSE
      OBVIOUS
    <3>2. PICK e \in EndpointsOf(x) : Matches(e, card)
      BY <3>1 DEF Network
    <3>3. e \in Found(t)
      BY <1>1, <3>2 DEF Found, Matches
    <3>4. QED
      BY <1>10, <3>3
  <2>2. Same'
    BY <1>4, <1>5, <1>10, <2>1
  <2>3. work'[t].server = x /\ Written(t)' = W
    BY <1>1, <1>10 DEF Goes, Keeps, Sets, Written
  <2>4. pc'[t] = "insert card"
    BY <1>10 DEF Goes
  <2>5. QED
    BY <2>2, <2>3, <2>4 DEF BuildsAt, AddressCalls
<1>11. ~GoesOn(t, TRUE, Tail(work[t].cards), work[t].addresses, work[t].endpoint)
  BY DEF GoesOn, Sets
<1>12. pc[t] = "reselect card" => UNCHANGED cmdb
  BY CardSteps
<1>13. CardIn(t) => UNCHANGED cmdb \/ pc[t] = "insert card"
  BY CardSteps
<1>14. CardIn(t) => ~UNCHANGED cmdb
  <2>1. CardIn(t) => serial' = serial + 1
    BY NewEnd
  <2>2. QED
    BY <2>1 DEF cmdb, TypeOK
<1>15. QED
  BY <1>1, <1>7, <1>8, <1>9, <1>10, <1>11, <1>12, <1>13, <1>14, CardSteps

LEMMA AddressesBuild ==
    ASSUME CardsDistinct, TypeOK, ServersOK, WorkOK, EndsOK, NEW t \in Creates, CarriesAt(t),
           BuildsAt(t), Step(t), pc[t] \in AddressCalls, HasRow(t), ~Gone(t), ~work'[t].failed
    PROVE  BuildsAt(t)'
<1> t \in Tasks
  BY DEF Creates
<1>1. ~work[t].failed /\ work[t].addresses # <<>> /\ UNCHANGED endpoints
  BY LateMove, LateCalls, AddressSteps DEF CarriesAt
<1>2. PICK x, W, id, left, a :
         /\ x = work[t].server /\ W = Written(t) /\ id = work[t].endpoint
         /\ left = work[t].addresses /\ a = Address(t)
  OBVIOUS
<1>3. PICK card \in W :
         /\ OnCard(t, card)
         /\ \/ Network(x, W, {card}, Range(left))
            \/ pc[t] = "reselect address" /\ Network(x, W, {card}, Range(Tail(left)))
  BY <1>1, <1>2 DEF BuildsAt
<1> DEFINE Same == Network(x, W, {card}, Range(left))
           Ahead == Network(x, W, {card}, Range(Tail(left)))
<1>4. PICK e \in EndpointsOf(x) : e.id = id /\ Matches(e, card)
  BY <1>2, <1>3 DEF OnCard
<1>5. Rest(card.addresses, left)
  BY <1>2, <1>3 DEF OnCard
<1>6. /\ a \in Range(card.addresses) /\ a \in Range(left) /\ Rest(card.addresses, Tail(left))
      /\ Range(Tail(left)) = Range(left) \ {a}
  BY <1>1, <1>2, <1>5, TailRest DEF Address
<1>7. e \in EndpointsOf(x)'
  BY <1>1 DEF EndpointsOf
<1>8. ASSUME UNCHANGED cmdb PROVE (Same => Same') /\ (Ahead => Ahead')
  <2>1. SameNetwork(x)
    BY <1>8 DEF SameNetwork, EndpointsOf, IpsOn, cmdb
  <2>2. QED
    BY <2>1, NetworkStays
<1>9. ASSUME AddressIn(t) PROVE Ahead'
  <2>1. Same
    BY <1>3, <1>9 DEF AddressIn
  <2>2. PICK type : InsertIp(a, e.id, PrefixOf[a], type)
    BY <1>2, <1>4, <1>9 DEF AddressIn
  <2>3. Named(W)
    BY <1>2, CardsOf
  <2>4. Network(x, W, {card}, Range(left) \ {a})'
    BY <1>1, <1>4, <1>6, <2>1, <2>2, <2>3, AddressGrows
  <2>5. QED
    BY <1>6, <2>4
<1>10. ASSUME Goes(t, pc'[t]), pc'[t] \in AddressCalls,
              Same' \/ (pc'[t] = "reselect address" /\ Ahead')
       PROVE  BuildsAt(t)'
  <2>1. /\ work'[t].server = x /\ Written(t)' = W /\ work'[t].addresses = left
        /\ work'[t].endpoint = id
    BY <1>2, <1>10 DEF Goes, Keeps, Sets, Written
  <2>2. OnCard(t, card)'
    BY <1>4, <1>5, <1>7, <2>1 DEF OnCard
  <2>3. QED
    BY <1>10, <2>1, <2>2 DEF BuildsAt, AddressCalls
<1>11. ASSUME GoesOn(t, work[t].failed, work[t].cards, Tail(left), work[t].endpoint), Ahead'
       PROVE  BuildsAt(t)'
  <2>1. /\ pc'[t] = NextCall(work'[t])
        /\ work'[t].server = x /\ Written(t)' = W /\ work'[t].addresses = Tail(left)
        /\ work'[t].endpoint = id
    BY <1>2, <1>11 DEF GoesOn, Sets, Written
  <2>2. OnCard(t, card)'
    BY <1>4, <1>6, <1>7, <2>1 DEF OnCard
  <2>3. CASE Tail(left) = <<>>
    <3>1. Network(x, W, {}, {})'
      BY <1>11, <2>3, PartDone, NoneLeft
    <3>2. QED
      BY <1>2, <2>1, <2>3, <3>1, NextBuilds
  <2>4. CASE Tail(left) # <<>>
    BY <1>2, <1>11, <2>1, <2>2, <2>4, NextBuilds
  <2>5. QED
    BY <2>3, <2>4
<1>12. IpsAre(id, Range(card.addresses) \ Range(left)) \/ ~Same
  BY <1>4 DEF Network, Matches
<1>13. IpsAre(id, Range(card.addresses) \ Range(Tail(left))) \/ ~Ahead
  BY <1>4 DEF Network, Matches
<1>14. There(t) => ~Same
  BY <1>2, <1>6, <1>12 DEF There, IpsAre
<1>15. ~There(t) => ~Ahead
  <2>1. a \in Range(card.addresses) \ Range(Tail(left))
    BY <1>6
  <2>2. Ahead => \E i \in IpsOn(id) : i.ip = a /\ i.prefix = PrefixOf[a]
    BY <1>13, <2>1 DEF IpsAre
  <2>3. QED
    BY <1>2, <2>2 DEF There
<1>16. ~GoesOn(t, TRUE, work[t].cards, Tail(work[t].addresses), work[t].endpoint)
  BY DEF GoesOn, Sets
<1> HIDE DEF Same, Ahead
<1>17. \/ pc[t] \in {"insert address", "reselect address"} /\ Goes(t, "reselect address")
       \/ pc[t] = "find prefix" /\ UNCHANGED cmdb
          /\ (Goes(t, "find prefix") \/ Goes(t, "insert address"))
       => BuildsAt(t)'
  <2>1. UNCHANGED cmdb \/ AddressIn(t)
    BY AddressSteps
  <2>2. /\ pc[t] # "reselect address" => Same
        /\ pc[t] = "reselect address" => Same \/ Ahead
        /\ AddressIn(t) => pc[t] = "insert address"
    BY <1>3 DEF Same, Ahead, AddressIn
  <2>3. ASSUME pc[t] = "find prefix", UNCHANGED cmdb, NEW next \in AddressCalls, Goes(t, next)
        PROVE  BuildsAt(t)'
    BY <1>8, <1>10, <2>2, <2>3 DEF Goes
  <2>4. ASSUME Goes(t, "reselect address") PROVE BuildsAt(t)'
    <3>1. Same' \/ Ahead'
      BY <1>8, <1>9, <2>1, <2>2
    <3>2. pc'[t] = "reselect address"
      BY <2>4 DEF Goes
    <3>3. QED
      BY <1>10, <2>4, <3>1, <3>2 DEF AddressCalls
  <2>5. QED
    BY <2>3, <2>4 DEF AddressCalls
<1>18. pc[t] = "reselect address" => UNCHANGED cmdb
  BY AddressSteps DEF AddressIn
<1>19. CASE pc[t] = "reselect address" /\ ~There(t) /\ Goes(t, "insert address")
  <2>1. Same'
    BY <1>3, <1>8, <1>15, <1>18, <1>19 DEF Same, Ahead
  <2>2. pc'[t] = "insert address"
    BY <1>19 DEF Goes
  <2>3. QED
    BY <1>10, <1>19, <2>1, <2>2 DEF AddressCalls
<1>20. pc[t] = "reselect address" /\ There(t) => Ahead'
  BY <1>3, <1>8, <1>14, <1>18 DEF Same, Ahead
<1>21. QED
  BY <1>2, <1>9, <1>11, <1>16, <1>17, <1>19, <1>20, AddressSteps

LEMMA BuildsStep ==
    ASSUME CardsDistinct, TypeOK, ServersOK, WorkOK, EndsOK, NEW t \in Creates, Routed(t),
           OwnsAt(t), CarriesAt(t), RowAt(t), BuildsAt(t), Step(t)
    PROVE  BuildsAt(t)'
<1> t \in Tasks
  BY DEF Creates
<1>1. CASE Gone(t)
  BY <1>1, GoneIs, GoneCarries
<1>2. CASE pc[t] \notin Late /\ ~Gone(t)
  <2>1. pc'[t] \in Prologue \cup {"write batch"}
    BY <1>2, EarlyCall
  <2>2. QED
    BY <2>1 DEF Prologue, BuildsAt, AddressCalls
<1>3. CASE pc[t] \in Late /\ ~Gone(t) /\ ~HasRow(t)
  <2>1. work'[t].server = work[t].server
    BY <1>3, LateMove DEF OnItsRow
  <2>2. \A s \in servers' : \E r \in servers : s.id = r.id
    BY <1>3, RowsAre DEF From, SameRow, Late
  <2>3. ~HasRow(t)'
    BY <1>3, <2>1, <2>2 DEF HasRow
  <2>4. QED
    BY <2>3 DEF BuildsAt
<1>4. CASE work'[t].failed
  BY <1>4 DEF BuildsAt
<1>5. CASE pc[t] \in Late /\ ~Gone(t) /\ HasRow(t) /\ ~work'[t].failed
  <2>1. CASE pc[t] \in FieldCalls
    BY <1>5, <2>1, FieldsBuild
  <2>2. CASE pc[t] \in CardCalls
    BY <1>5, <2>2, CardsBuild
  <2>3. CASE pc[t] \in AddressCalls
    BY <1>5, <2>3, AddressesBuild
  <2>4. CASE pc[t] = "write state"
    <3>1. PICK x : x = work[t].server
      OBVIOUS
    <3>2. UNCHANGED <<endpoints, ips>> /\ Goes(t, "write state")
      BY <1>5, <2>4, StateSteps
    <3>3. work'[t].server = x /\ work'[t].cards = work[t].cards /\ ~work[t].failed
      BY <1>5, <3>1, <3>2 DEF Goes, Keeps, Sets
    <3>4. PICK W : W = Written(t)
      OBVIOUS
    <3>5. Network(x, W, {}, {})
      BY <1>5, <2>4, <3>1, <3>3, <3>4 DEF BuildsAt
    <3>6. Network(x, W, {}, {})' /\ Written(t)' = W
      BY <3>2, <3>3, <3>4, <3>5, NetworkStays DEF SameNetwork, EndpointsOf, IpsOn, Written
    <3>7. QED
      BY <3>2, <3>3, <3>6 DEF Goes, BuildsAt, AddressCalls
  <2>5. QED
    BY <1>5, <2>1, <2>2, <2>3, <2>4, LateCalls
<1>6. QED
  BY <1>1, <1>2, <1>3, <1>4, <1>5

-----------------------------------------------------------------------------
(* The steps of the others                                                 *)

\* No other task touches the row of a create.
LEMMA OthersRow ==
    ASSUME TypeOK, ServersOK, WorkOK, EndsOK, NEW t \in Creates, NEW u \in Tasks \ {t}, Step(u),
           OwnsAt(u), u \in Creates => RowAt(u) /\ CarriesAt(u),
           Routed(u), NEW s \in servers', NEW r \in servers, From(u, s, r), Mine(t, r)
    PROVE  s.state = r.state /\ SameNetwork(s.id)
<1>1. pc[u] \in Late => u \in Creates /\ work[u].server # r.id
  BY DEF OwnsAt, Creates, Mine
<1>2. s.state = r.state
  <2>1. CASE pc[u] = "write state" /\ r \in Where(u)
    <3>1. pc[u] \in Late
      BY <2>1 DEF Late
    <3>2. Concerns(u, r)
      BY <2>1 DEF Where, Concerns
    <3>3. r.id = work[u].server
      BY <1>1, <3>1, <3>2 DEF RowAt
    <3>4. QED
      BY <1>1, <3>1, <3>3
  <2>2. QED
    BY <2>1 DEF From
<1>3. pc[u] \in CardCalls \cup AddressCalls => pc[u] \in Late
  BY LateCalls
<1>4. pc[u] \in AddressCalls => OnEnd(u)
  BY <1>1, <1>3 DEF CarriesAt, OnEnd
<1>5. QED
  BY <1>1, <1>2, <1>3, <1>4, NetFrame DEF From, SameRow

LEMMA OthersReady ==
    ASSUME TypeOK, ServersOK, WorkOK, EndsOK, NEW t \in Creates, NEW u \in Tasks \ {t}, Step(u),
           Alone(u), OwnsAt(u), u \in Creates => RowAt(u) /\ CarriesAt(u), Routed(u),
           OwnsAt(t), RowAt(t), CarriesAt(t), BuildsAt(t),
           u \in Creates => Body[u].uuid # Body[t].uuid /\ Body[u].hostname # Body[t].hostname
    PROVE  RowAt(t)' /\ CarriesAt(t)' /\ BuildsAt(t)'
<1> t \in Tasks /\ Body[t].kind = "create" /\ u # None
  BY LifecycleAssumption DEF Creates
<1>1. pc'[t] = pc[t] /\ work'[t] = work[t]
  BY DEF Alone
<1>2. \A id \in 1 .. serial - 1 : id # serial /\ id \in 1 .. serial' - 1
  BY SerialGrows
<1>3. CarriesAt(t)'
  <2>1. \A e \in endpoints' : e \in endpoints \/ e.id = serial
    BY EndsAre
  <2>2. OnEnd(t) => OnEnd(t)'
    BY <1>1, <1>2, <2>1 DEF OnEnd
  <2>3. QED
    BY <1>1, <2>2 DEF CarriesAt, OnEnd
<1>4. pc[t] \in Late => work[t].server # serial
  BY <1>2 DEF OwnsAt
<1>5. ASSUME NEW s \in servers',
             \/ pc[t] \in {"insert server", "reselect server"} /\ Concerns(t, s)
             \/ pc[t] \in Late /\ (Concerns(t, s) \/ s.id = work[t].server)
      PROVE  \E r \in servers : From(u, s, r)
  <2>1. ASSUME pc[u] = "insert server", s = NewServer(u) PROVE FALSE
    <3>1. u \in Creates
      BY <2>1 DEF OwnsAt, Creates
    <3>2. ~Concerns(t, s) /\ s.id = serial
      BY <2>1, <3>1, NewServerIs DEF Concerns
    <3>3. QED
      BY <1>4, <1>5, <3>2
  <2>2. QED
    BY <2>1, RowsAre
<1>6. \A s \in servers', r \in servers : From(u, s, r) /\ Mine(t, r) =>
         /\ s.id = r.id /\ s.state = r.state /\ SameNetwork(s.id)
         /\ r.fields["price"] # None => s.fields["price"] # None
  BY OthersRow DEF From, SameRow
<1>7. ASSUME NEW s \in servers', pc[t] \in {"insert server", "reselect server"}, Concerns(t, s)
      PROVE  s.state = "setup" /\ EndpointsOf(s.id)' = {}
  <2>1. PICK r \in servers : From(u, s, r)
    BY <1>5, <1>7
  <2>2. Concerns(t, r) /\ Mine(t, r)
    BY <1>7, <2>1 DEF From, SameRow, Concerns, OwnsAt
  <2>3. QED
    BY <1>6, <1>7, <2>1, <2>2 DEF RowAt, SameNetwork
<1>8. ASSUME NEW s \in servers', pc[t] \in Late
      PROVE  /\ Concerns(t, s) => s.id = work[t].server
             /\ s.id = work[t].server =>
                   /\ SameNetwork(s.id) /\ HasRow(t)
                   /\ pc[t] # "write state" => s.state = "setup"
                   /\ pc[t] \in FieldCalls => EndpointsOf(s.id)' = {}
                   /\ pc[t] \notin {"write batch", "write price"} /\ ~work[t].failed =>
                         s.fields["price"] # None
  <2>1. SUFFICES ASSUME Concerns(t, s) \/ s.id = work[t].server
                 PROVE  /\ s.id = work[t].server
                        /\ SameNetwork(s.id) /\ HasRow(t)
                        /\ pc[t] # "write state" => s.state = "setup"
                        /\ pc[t] \in FieldCalls => EndpointsOf(s.id)' = {}
                        /\ pc[t] \notin {"write batch", "write price"} /\ ~work[t].failed =>
                              s.fields["price"] # None
    OBVIOUS
  <2>2. PICK r \in servers : From(u, s, r)
    BY <1>5, <1>8, <2>1
  <2>3. s.id = r.id /\ (Concerns(t, s) => Concerns(t, r))
    BY <2>2 DEF From, SameRow, Concerns
  <2>4. r.id = work[t].server /\ Mine(t, r)
    BY <1>8, <2>1, <2>3 DEF RowAt, OwnsAt
  <2>5. /\ s.state = r.state /\ SameNetwork(s.id)
        /\ r.fields["price"] # None => s.fields["price"] # None
    BY <1>6, <2>2, <2>4
  <2>6. QED
    BY <1>8, <2>3, <2>4, <2>5 DEF RowAt, SameNetwork, HasRow
<1>9. RowAt(t)'
  <2>1. \A s : Concerns(t, s)' <=> Concerns(t, s)
    BY DEF Concerns
  <2>2. QED
    BY <1>1, <1>7, <1>8, <2>1 DEF RowAt
<1>10. BuildsAt(t)'
  <2>1. SUFFICES ASSUME ~work[t].failed, HasRow(t)', pc[t] \in Late PROVE BuildsAt(t)'
    <3>1. pc[t] \notin Late => BuildsAt(t)'
      BY <1>1, LateCalls DEF BuildsAt, CardCalls
    <3>2. QED
      BY <1>1, <3>1 DEF BuildsAt
  <2>2. PICK x, W, card, left : /\ x = work[t].server /\ W = Written(t) /\ card = Card(t)
                                /\ left = work[t].addresses
    OBVIOUS
  <2>3. SameNetwork(x) /\ HasRow(t)
    <3>1. PICK s \in servers' : s.id = x
      BY <1>1, <2>1, <2>2 DEF HasRow
    <3>2. QED
      BY <1>8, <2>1, <2>2, <3>1
  <2>4. \A written, partial, rest : Network(x, written, partial, rest) =>
                                       Network(x, written, partial, rest)'
    BY <2>3, NetworkStays
  <2>5. \A c : OnCard(t, c) => OnCard(t, c)'
    BY <1>1, <2>2, <2>3 DEF OnCard, Written, SameNetwork
  <2>6. Written(t)' = W /\ Card(t)' = card
    BY <1>1, <2>2 DEF Written, Card
  <2>7. pc[t] \in {"insert card", "write state"} => Network(work[t].server, Written(t), {}, {})'
    BY <1>1, <2>1, <2>2, <2>3, <2>4, <2>6 DEF BuildsAt
  <2>8. ASSUME pc[t] = "reselect card"
        PROVE  \/ Network(x, W, {}, {})'
               \/ Network(x, W \cup {card}, {card}, Range(card.addresses))'
    BY <2>1, <2>2, <2>3, <2>4, <2>8 DEF BuildsAt
  <2>9. ASSUME pc[t] \in AddressCalls
        PROVE  \E c \in W :
                  /\ OnCard(t, c)'
                  /\ \/ Network(x, W, {c}, Range(left))'
                     \/ pc[t] = "reselect address" /\ Network(x, W, {c}, Range(Tail(left)))'
    <3>1. PICK c \in W :
             /\ OnCard(t, c)
             /\ \/ Network(x, W, {c}, Range(left))
                \/ pc[t] = "reselect address" /\ Network(x, W, {c}, Range(Tail(left)))
      BY <2>1, <2>2, <2>3, <2>9 DEF BuildsAt
    <3>2. QED
      BY <2>4, <2>5, <3>1
  <2>10. QED
    BY <1>1, <2>2, <2>6, <2>7, <2>8, <2>9 DEF BuildsAt
<1>11. QED
  BY <1>3, <1>9, <1>10

\* A server shown ready stays complete: nothing writes to its network.
LEMMA ReadyStep ==
    ASSUME CardsDistinct, TypeOK, ServersOK, WorkOK, EndsOK, NEW u \in Tasks, Step(u), OwnsAt(u),
           u \in Creates => RowAt(u) /\ CarriesAt(u) /\ BuildsAt(u), ReadyOK
    PROVE  ReadyOK'
<1> u # None
  BY LifecycleAssumption
<1>1. pc[u] \in Late => u \in Creates
  BY DEF OwnsAt, Creates
<1>2. SUFFICES ASSUME NEW s \in servers', s.state = "ready", s.raw_info \in Tasks
               PROVE  /\ s.fields["price"] # None
                      /\ Network(s.id, Range(Body[s.raw_info].cards), {}, {})'
  BY DEF ReadyOK
<1>3. PICK r \in servers : From(u, s, r)
  BY <1>2, RowsAre, NewServerIs
<1>4. s.id = r.id /\ s.raw_info = r.raw_info
  BY <1>3 DEF From, SameRow
<1>5. PICK x, cards : x = s.id /\ cards = Range(Body[s.raw_info].cards)
  OBVIOUS
<1>6. CASE s.state = r.state
  <2>1. r.fields["price"] # None /\ Network(x, cards, {}, {})
    BY <1>2, <1>4, <1>5, <1>6 DEF ReadyOK
  <2>2. pc[u] \in CardCalls \cup AddressCalls => work[u].server # x
    BY <1>1, <1>2, <1>4, <1>5, <1>6, LateCalls DEF RowAt, CardCalls, AddressCalls
  <2>3. pc[u] \in AddressCalls => OnEnd(u)
    BY <1>1, LateCalls DEF CarriesAt, OnEnd
  <2>4. Network(x, cards, {}, {})'
    BY <1>5, <2>1, <2>2, <2>3, NetFrame, NetworkStays
  <2>5. s.fields["price"] # None
    BY <1>3, <2>1 DEF From
  <2>6. QED
    BY <1>5, <2>4, <2>5
<1>7. CASE pc[u] = "write state" /\ r \in Where(u) /\ s.state = StateOf(u)
  <2>1. u \in Creates /\ pc[u] \in Late /\ ~work[u].failed
    BY <1>1, <1>2, <1>7 DEF Late, StateOf
  <2>2. r.id = work[u].server
    BY <1>7, <2>1 DEF RowAt, Where, Concerns
  <2>3. r.raw_info = u /\ HasRow(u)
    BY <2>1, <2>2 DEF OwnsAt, Mine, Creates, HasRow
  <2>4. r.fields["price"] # None
    BY <1>7, <2>1, <2>2 DEF RowAt
  <2>5. work[u].cards = <<>>
    BY <1>7, <2>1 DEF CarriesAt
  <2>6. Written(u) = cards
    BY <1>4, <1>5, <2>3, <2>5, NoneLeft DEF Written
  <2>7. Network(x, cards, {}, {})
    BY <1>4, <1>5, <1>7, <2>1, <2>2, <2>3, <2>6 DEF BuildsAt
  <2>8. UNCHANGED <<endpoints, ips>>
    BY <1>7, StateSteps
  <2>9. Network(x, cards, {}, {})'
    BY <2>7, <2>8, NetworkStays DEF SameNetwork, EndpointsOf, IpsOn
  <2>10. s.fields["price"] # None
    BY <1>3, <2>4 DEF From
  <2>11. QED
    BY <1>5, <2>9, <2>10
<1>8. QED
  BY <1>3, <1>6, <1>7 DEF From

-----------------------------------------------------------------------------
(* What is built is complete                                               *)

LEMMA CountIs ==
    ASSUME NEW seq, seq \in Seq(Range(seq)), IsInjective(seq), NEW S,
           NEW f \in [S -> Range(seq)], \A a, b \in S : f[a] = f[b] => a = b,
           \A c \in Range(seq) : \E a \in S : f[a] = c
    PROVE  Cardinality(S) = Len(seq)
<1> DEFINE n == Len(seq)
           h == [i \in 1 .. n |-> CHOOSE a \in S : f[a] = seq[i]]
<1>1. n \in Nat /\ DOMAIN seq = 1 .. n
  OBVIOUS
<1>2. \A i \in 1 .. n : h[i] \in S /\ f[h[i]] = seq[i]
  BY <1>1 DEF Range
<1> HIDE DEF h
<1>3. \A i, j \in 1 .. n : h[i] = h[j] => i = j
  BY <1>1, <1>2 DEF IsInjective
<1>4. \A a \in S : \E i \in 1 .. n : h[i] = a
  <2>1. SUFFICES ASSUME NEW a \in S PROVE \E i \in 1 .. n : h[i] = a
    OBVIOUS
  <2>2. PICK i \in 1 .. n : seq[i] = f[a]
    BY <1>1 DEF Range
  <2>3. QED
    BY <1>2, <2>2
<1>5. h \in Bijection(1 .. n, S)
  <2>1. h \in [1 .. n -> S]
    BY <1>2 DEF h
  <2>2. QED
    BY <1>3, <1>4, <2>1 DEF Bijection, Injection, Surjection, IsInjective
<1>6. Cardinality(S) = Cardinality(1 .. n)
  BY <1>1, <1>5, FS_Bijection, FS_Interval DEF ExistsBijection
<1>7. Cardinality(1 .. n) = n
  <2> HIDE DEF n
  <2>1. n \in Int /\ 1 \in Int
    BY <1>1
  <2>2. Cardinality(1 .. n) = IF 1 > n THEN 0 ELSE n - 1 + 1
    BY <2>1, FS_Interval
  <2>3. QED
    BY <1>1, <2>2
<1>8. QED
  BY <1>6, <1>7

LEMMA Complete ==
    ASSUME CardsDistinct, NEW t \in Creates, NEW x,
           Network(x, Range(Body[t].cards), {}, {})
    PROVE  NetworkIs(x, Body[t].cards)
<1> DEFINE cards == Body[t].cards
           E == EndpointsOf(x)
           f == [e \in E |-> CHOOSE c \in Range(cards) : Matches(e, c)]
<1>1. /\ cards \in Seq(Range(cards)) /\ IsInjective(cards)
      /\ \A c \in Range(cards) : c.addresses \in Seq(Range(c.addresses)) /\ IsInjective(c.addresses)
  BY DEF CardsDistinct
<1>2. Named(Range(cards))
  BY CardsOf
<1>3. \A e \in E : f[e] \in Range(cards) /\ Matches(e, f[e])
  BY DEF Network
<1>4. \A e \in E, c \in Range(cards) : Matches(e, c) => f[e] = c
  BY <1>2, <1>3 DEF Named, Matches
<1>5. Cardinality(E) = Len(cards)
  <2>1. f \in [E -> Range(cards)]
    BY <1>3
  <2> HIDE DEF f
  <2>2. \A d, e \in E : f[d] = f[e] => d = e
    BY <1>3 DEF Network, Matches
  <2>3. \A c \in Range(cards) : \E e \in E : f[e] = c
    BY <1>4 DEF Network
  <2> HIDE DEF cards, E
  <2>4. QED
    BY <1>1, <2>1, <2>2, <2>3, CountIs
<1>6. ASSUME NEW c \in Range(cards)
      PROVE  \E e \in E :
                /\ e.name = c.name /\ e.mac = c.mac
                /\ Cardinality(IpsOn(e.id)) = Len(c.addresses)
                /\ {i.ip : i \in IpsOn(e.id)} = Range(c.addresses)
  <2>1. PICK e \in E : Matches(e, c) /\ IpsAre(e.id, Range(c.addresses))
    BY DEF Network
  <2> DEFINE S == IpsOn(e.id)
             g == [i \in S |-> i.ip]
             seq == c.addresses
  <2>2. g \in [S -> Range(seq)]
    BY <2>1 DEF IpsAre
  <2>3. \A i, j \in S : g[i] = g[j] => i = j
    BY <2>1 DEF IpsAre
  <2>4. \A a \in Range(seq) : \E i \in S : g[i] = a
    BY <2>1 DEF IpsAre
  <2>5. seq \in Seq(Range(seq)) /\ IsInjective(seq)
    BY <1>1
  <2> HIDE DEF S, g, seq
  <2>6. Cardinality(S) = Len(seq)
    BY <2>2, <2>3, <2>4, <2>5, CountIs
  <2>7. QED
    BY <2>1, <2>6 DEF S, seq, Matches, IpsAre
<1>7. QED
  BY <1>5, <1>6 DEF NetworkIs

-----------------------------------------------------------------------------
BuiltAt(t) == RowAt(t) /\ CarriesAt(t) /\ BuildsAt(t)

ReadyInv ==
    /\ OwnInv /\ BaseInv
    /\ EndsOK /\ ReadyOK
    /\ \A t \in Creates : BuiltAt(t)

LEMMA KeptBuilt ==
    ASSUME NEW t \in Creates, BuiltAt(t), pc'[t] = pc[t], work'[t] = work[t], UNCHANGED cmdb
    PROVE  BuiltAt(t)'
<1>1. RowAt(t)'
  BY DEF BuiltAt, RowAt, Concerns, EndpointsOf, cmdb
<1>2. CarriesAt(t)'
  BY DEF BuiltAt, CarriesAt, cmdb
<1>3. BuildsAt(t)'
  <2>1. \A x, w, p, l : Network(x, w, p, l) => Network(x, w, p, l)'
    BY NetworkStays DEF SameNetwork, EndpointsOf, IpsOn, cmdb
  <2>2. PICK x, W, card, left : /\ x = work[t].server /\ W = Written(t) /\ card = Card(t)
                                /\ left = work[t].addresses
    OBVIOUS
  <2>3. Written(t)' = W /\ Card(t)' = card /\ (HasRow(t)' <=> HasRow(t))
    BY <2>2 DEF Written, Card, HasRow, cmdb
  <2>4. \A c : OnCard(t, c) => OnCard(t, c)'
    BY DEF OnCard, Written, EndpointsOf, cmdb
  <2>5. BuildsAt(t)
    BY DEF BuiltAt
  <2>6. SUFFICES ASSUME ~work[t].failed, HasRow(t) PROVE BuildsAt(t)'
    BY <2>3 DEF BuildsAt
  <2>7. pc[t] \in {"insert card", "write state"} => Network(x, W, {}, {})'
    BY <2>1, <2>2, <2>5, <2>6 DEF BuildsAt
  <2>8. ASSUME pc[t] = "reselect card"
        PROVE  \/ Network(x, W, {}, {})'
               \/ Network(x, W \cup {card}, {card}, Range(card.addresses))'
    BY <2>1, <2>2, <2>5, <2>6, <2>8 DEF BuildsAt
  <2>9. ASSUME pc[t] \in AddressCalls
        PROVE  \E c \in W :
                  /\ OnCard(t, c)'
                  /\ \/ Network(x, W, {c}, Range(left))'
                     \/ pc[t] = "reselect address" /\ Network(x, W, {c}, Range(Tail(left)))'
    <3>1. PICK c \in W :
             /\ OnCard(t, c)
             /\ \/ Network(x, W, {c}, Range(left))
                \/ pc[t] = "reselect address" /\ Network(x, W, {c}, Range(Tail(left)))
      BY <2>2, <2>5, <2>6, <2>9 DEF BuildsAt
    <3>2. QED
      BY <2>1, <2>4, <3>1
  <2>10. QED
    BY <2>2, <2>3, <2>7, <2>8, <2>9 DEF BuildsAt
<1>4. QED
  BY <1>1, <1>2, <1>3 DEF BuiltAt

LEMMA ReadyInvStep ==
    ASSUME CardsDistinct, ReadyInv, Apart, [Next]_vars
    PROVE  ReadyInv'
<1>1. OwnInv' /\ BaseInv'
  BY OwnStep, BaseStep DEF ReadyInv
<1>2. /\ TypeOK /\ ServersOK /\ WorkOK /\ EndsOK /\ ReadyOK /\ OneServerPerInstance
      /\ \A t \in Tasks : OwnsAt(t) /\ Routed(t)
      /\ \A t \in Creates : RowAt(t) /\ CarriesAt(t) /\ BuildsAt(t)
  BY DEF ReadyInv, OwnInv, BaseInv, TypeInv, BuiltAt
<1>3. ASSUME NEW u \in Tasks, Step(u) PROVE ReadyInv'
  <2>1. Alone(u) /\ u \in Busy
    BY <1>2, <1>3, StepAlone, StepIsBusy
  <2>2. EndsOK'
    BY <1>2, <1>3, EndsStep
  <2>3. ReadyOK'
    BY <1>2, <1>3, ReadyStep
  <2>4. ASSUME NEW t \in Creates, t = u PROVE BuiltAt(t)'
    BY <1>2, <1>3, <2>4, RowStep, CarriesStep, BuildsStep DEF BuiltAt, Creates
  <2>5. ASSUME NEW t \in Creates, t # u PROVE BuiltAt(t)'
    <3>1. t \in Tasks \ {u} /\ u \in Tasks \ {t}
      BY <2>5 DEF Creates
    <3>2. CASE t \in Busy
      <4>1. u \in Creates => Body[u].uuid # Body[t].uuid /\ Body[u].hostname # Body[t].hostname
        BY <2>1, <2>5, <3>2 DEF Apart
      <4>2. QED
        BY <1>2, <1>3, <2>1, <3>1, <4>1, OthersReady DEF BuiltAt
    <3>3. CASE t \notin Busy
      <4>1. pc'[t] \in Ended
        BY <2>1, <3>1, <3>3 DEF Alone, Busy
      <4>2. QED
        BY <3>1, <4>1, GoneCarries DEF BuiltAt
    <3>4. QED
      BY <3>2, <3>3
  <2>6. QED
    BY <1>1, <2>2, <2>3, <2>4, <2>5 DEF ReadyInv
<1>4. CASE Restarts
  <2>1. UNCHANGED cmdb
    BY <1>4 DEF Restarts
  <2>2. EndsOK'
    BY <1>2, <2>1 DEF EndsOK, cmdb
  <2>3. ReadyOK'
    <3>1. \A x, w, p, l : Network(x, w, p, l) => Network(x, w, p, l)'
      BY <2>1, NetworkStays DEF SameNetwork, EndpointsOf, IpsOn, cmdb
    <3>2. \A s \in servers : s.state = "ready" /\ s.raw_info \in Tasks =>
             /\ s.fields["price"] # None
             /\ Network(s.id, Range(Body[s.raw_info].cards), {}, {})'
      BY <1>2, <3>1 DEF ReadyOK
    <3>3. QED
      BY <2>1, <3>2 DEF ReadyOK, cmdb
  <2>4. ASSUME NEW t \in Creates PROVE BuiltAt(t)'
    <3>1. CASE pc'[t] = pc[t] /\ work'[t] = work[t]
      BY <1>2, <2>1, <3>1, KeptBuilt DEF BuiltAt
    <3>2. CASE pc'[t] \in {"queued", FirstCall(t)}
      <4>1. t \in Tasks /\ pc'[t] \in Ended \cup {"look up"}
        BY <3>2 DEF Creates, FirstCall, Ended
      <4>2. QED
        BY <4>1, GoneCarries DEF BuiltAt
    <3>3. QED
      BY <1>4, <3>1, <3>2 DEF Restarts, Creates
  <2>5. QED
    BY <1>1, <2>2, <2>3, <2>4 DEF ReadyInv
<1>5. QED
  BY <1>2, <1>3, <1>4, NextMoves

LEMMA ReadyInit == Init => ReadyInv
<1> SUFFICES ASSUME Init PROVE ReadyInv
  OBVIOUS
<1>1. OwnInv /\ BaseInv
  BY OwnInit, BaseInit
<1>2. PICK n \in Tables : /\ servers = n.servers /\ endpoints = n.endpoints
                          /\ ips = n.ips /\ serial = n.serial
  BY DEF Init
<1>3. EndsOK
  BY <1>2, LifecycleAssumption DEF EndsOK
<1>4. ReadyOK
  BY <1>2, LifecycleAssumption DEF ReadyOK
<1>5. ASSUME NEW t \in Creates PROVE BuiltAt(t)
  <2>1. pc[t] = "queued"
    BY DEF Init, Creates
  <2>2. "queued" \notin Before \cup CardCalls \cup AddressCalls \cup Late
    BY DEF Before, FieldCalls, CardCalls, AddressCalls, Late
  <2>3. QED
    BY <2>1, <2>2 DEF BuiltAt, RowAt, CarriesAt, BuildsAt
<1>6. QED
  BY <1>1, <1>3, <1>4, <1>5 DEF ReadyInv

LEMMA ReadyIsComplete == CardsDistinct /\ ReadyInv => ReadyMeansComplete
<1> SUFFICES ASSUME CardsDistinct, ReadyInv,
                    NEW s \in servers, s.state = "ready", s.raw_info \in Tasks
             PROVE  s.fields["price"] # None /\ NetworkIs(s.id, Body[s.raw_info].cards)
  BY DEF ReadyMeansComplete
<1>1. /\ s.fields["price"] # None /\ s.raw_info \in Creates
      /\ Network(s.id, Range(Body[s.raw_info].cards), {}, {})
  BY DEF ReadyInv, ReadyOK, EndsOK
<1>2. QED
  BY <1>1, Complete

(* A server its create shows ready has its price and exactly the cards and *)
(* addresses of its message, for any number of messages, cards, retries,   *)
(* faults, refusals, crashes and redeliveries and for any prefetch, as     *)
(* long as the creates in hand concern different instances and the cards   *)
(* of one message can be told apart.                                       *)
THEOREM ReadyIsTrue ==
    ASSUME CardsDistinct
    PROVE  Spec /\ []Apart => []ReadyMeansComplete
<1>1. ReadyInv /\ Apart /\ [Next]_vars => ReadyInv'
  BY ReadyInvStep
<1>2. ReadyInv => ReadyMeansComplete
  BY ReadyIsComplete
<1>3. QED
  BY ReadyInit, <1>1, <1>2, PTL DEF Spec
=============================================================================
