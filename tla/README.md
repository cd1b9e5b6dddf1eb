# Instance-lifecycle-handler: specification and proofs

The program consumes messages about cloud instances from a RabbitMQ queue and
keeps the rows of a CMDB (servers, network endpoints, ip addresses) in step with
them. This directory models what can go wrong in it, checks it with TLC on small
instances, and proves the properties that matter most with TLAPS for every value
of the constants.

Source paths below are relative to `src/src/g2c_instance_handler/`.

## The system

| component | state | operations | modelled in |
|---|---|---|---|
| consumer (`bootstrap_handlers.py`, `main.py`) | deliveries, `active_tasks`, retry counters, shutdown event, connection | deliver, run with retries, ack/nack, give up a confirmation, cancel, gather, close | `MessageHandlerService` |
| CMDB call engine (`handler.py` `_cmdb_call`) | attempt, what the CMDB applied, `FieldErrors` | operation, re-select, retry, report | `CmdbCall` |
| attach, detach (`handler.py`) | what a handler carries between two awaits | one step per CMDB call | `AttachDetach` |
| create, delete, resize (`handler.py`) | the same, and recorded failures | one step per CMDB call | `ServerLifecycle` |
| CMDB (external) | the tables, their keys and cascade | reads and writes by condition | `Cmdb` |
| reading a create (`handler.py`, `handler_utils.py`) | cards built so far, names taken | `build_host_networks`, contract checks, naming of cards | `HostNetworks`, `CreateMessage` |
| server fields and `FieldErrors` (`handler.py`, `handler_models.py`) | writes to come, recorded failures, state | tag ladders, batch, replay, `failed`, `status_details` | `CreateFields`, `CreateMessage` |
| pure helpers (`handler_utils.py`) | none | `next_bond_name`, `resolve_ip_type` | `HandlerUtils` |
| configuration (`config.py`) | environment | `env_str`, `env_int`, `from_env` | `Config` |
| logging, Sentry, metrics, deployment | | | not modelled: nothing is decided by it |

They interact as follows. The broker pushes deliveries within the prefetch
window; each becomes an asyncio task that runs `process_message` up to
`max_retries` times and then acks or nacks. `process_message` routes the message
to a handler, and a handler is a sequence of awaited `_cmdb_call`s: at every one
of them any other task may run, and the CMDB may answer, refuse, apply and not
answer, or not be reached. There are no locks. What makes the code hard is that
(1) a lost reply leaves open whether an insert landed, (2) messages are handled
again after retries, crashes, lost acks and reconnections, (3) a handler writes
on conclusions from a snapshot it read several awaits before, and (4) permanent
failures abort, are recorded or end a message quietly, depending on the call.

What makes each component correct:

* consumer: no message is lost or in two places; no prefetch slot leaks; a
  graceful close cuts off no task; every message is settled; a signal ends the
  process;
* call engine: one insert, one row; an outage uses the whole budget and is not
  recorded, a refusal always is; the call ends;
* attach and detach: idempotent under retries, crashes and redelivery, racing
  duplicates of one address excepted (`handler.py:317-320`); an acknowledged message
  has had its effect; addresses go on the right card with the right type; no endpoint
  is left over;
* create, delete, resize: `ready` means complete; one server per instance; a create
  writes on the row it inserted; an acknowledged message has had its effect, and it
  stands until a message that asks for something else;
* reading a create: every address on one card, no card with two macs, no two cards
  with one name;
* server fields: a field is saved or its failure shown, in one update as in the
  replay; `error` and `status_details` agree;
* configuration: what the other modules assume of their constants.

## Modules

* `InsertOnce` is what a caller of an insert relies on, `CmdbCall` one call of
  the engine. `Shapes` is the set of call sites: whether the call inserts, what
  selector it has, whether a key of the CMDB refuses a second row, and how
  permanent failures are reported. `OpReplies`, `OpTransportFailure`,
  `OpDataError`, `OpUnknownError` are the `try` around the operation, the
  `Reselect...` actions the one around `_recover_insert`; `FailAttempt` is the tail
  they share. `CmdbCall` implements `InsertOnce` (`ImplementsInsertOnce`).
* `AtLeastOnce` is what the consumer promises about a message,
  `MessageHandlerService` the consumer with broker, connection and `main()`. A
  task is one per delivery (message and connection number), so that a task that
  outlives its connection and the task of the redelivery are two. It implements
  `AtLeastOnce` (`ImplementsAtLeastOnce`).
* `Cmdb` holds the tables and the operations on them; `HandlerTasks` what all
  handlers share: the call a task is at (`pc`), the run of `handle_message` it is
  in, the ways a call can fail to answer (`Interrupted`), the retry of a whole
  message (`Rerun`), crash and redelivery (`Crash`, `AckLost`). `Crash` is the end of the
  process. When only the connection drops, a task goes on beside the task of the
  redelivery: that is two tasks with one message, as in `create_twice`.
* `AttachDetach` and `ServerLifecycle` extend both with the handlers. An action
  is a CMDB call together with the code up to the next call; its guard is `pc`,
  its alternatives are the answers. `Again` says where `_cmdb_call` goes on after a
  transport failure: to the re-select for an insert, to the call itself otherwise.
  `NoReply` ends every write, because it may be applied and its reply lost.
* `MessageRetry` puts one `CmdbCall`, the insert of a create's row, under the loop of
  `handle_message`: what each way it can end does to the message. A refusal is caught
  at `handler.py:177` and the message acknowledged; the KeyError of a re-select is not.
* `InstanceHandler` instantiates `AttachDetach` and `ServerLifecycle` on one CMDB and
  one set of tasks. `overridden` is a history of which tasks a later one may undo;
  `NoneUndone` and `WritersApart` say what the messages in hand may be to each other.
* `HostNetworks` is `build_host_networks` and the naming of its cards, one action per
  pass of a loop, with a card's addresses as a set of the message's entries, since
  nothing depends on their order; `CreateFields` the server fields from tags to the state;
  `CreateMessage` extends both with the order `create_instances` runs them in.
* `Config` reads the environment; it has theorems and no run.
* The `MC...` modules give constants their values; `...Proofs` hold theorems.

Operators commented as mutations are plausible bugs of the definition that
follows them. No specification uses them; each makes one property of one run fail
when it replaces that definition, which shows that the property depends on it.

### Abstractions

* A CMDB request is atomic. `HandlerTasks` does not count the attempts of a call:
  a call may be retried any number of times or given up at any failure, which
  covers every setting of `cmdb_transport_attempts`. `CmdbCall` counts them.
* `Faults` bounds transport failures, refusals, crashes and lost acks of a
  behaviour together; an action that fails because of the data costs nothing.
* A KeyError or a JSONDecodeError that ends an outage is not retried by
  `handle_message`; `Interrupted` therefore may end a message for good at once.
* attach decides on endpoint, name and used types where it reads them, at its
  first select. This is exact: the code computes them later, from that result.
* The notes of an endpoint are left out; the update they cause may or may not
  happen. Contents of messages are model values. An address stands for its prefix
  through `PrefixOf`; a prefix is known by its type.
* In `ServerLifecycle` the fields of a server are two: `price` for those whose
  failure marks the state error, `flavor` for those with `mark_state_error=False`.
  The row's `raw_info` is the message, so a property can ask what the row should
  look like. `CreateFields` has all fields, for one message at a CMDB that is
  reached: outages end a run and are in `ServerLifecycle`.
* In `CreateFields` a value is where it comes from: `<<"cap_tenant", "owner">>`,
  `<<"message", "dc">>`, or a tag, which stands for what it says. The CMDB refuses the
  values in `bad`, and a bounded number of writes fail in an unknown way, applied or
  not, the last write of the state among them (`SetState`): its failure is recorded, the
  message is acknowledged and the row stays in setup (`handler.py:197-201`); of the
  values of the state only a tag's can be one the CMDB refuses. In `ServerLifecycle`,
  which has no tags, that write is refused if `Refusals` has it. The order of the keys of a tag dictionary is the order of the sequence, and
  writes are kept by their place in that order; failures and the fields reported are
  sets, since their order is wording.
* In `HostNetworks` a key of a network that is present has a value, and
  `mac_addr_order_num` is a natural number, 0 included.
* `Config` has an optional value as a set of at most one element, and a raised
  `RuntimeError` as the empty set; `int()` is a second view of the variable.
* The lookups of create that no handler writes share one step, and the deletions
  of a server's rails share the step of its deletion.
* Messages without their resources return or raise before the first CMDB call and
  are in `MessageHandlerService` (`Succeed`, `FailForGood`), not in the handlers.
* In `MessageHandlerService` a drop of the connection while `queue.cancel()` is
  awaited leaves `main()` with an exception, so it is `Crash`. Starting the task
  belongs to `Deliver`, `done_callback` to `Finish`. Sleeps change nothing.
* A request that reaches the CMDB after the re-select that missed it is not
  modelled: a failed call has been applied by the time it fails, or never is.

## Runs

| run | question | instance | states |
|---|---|---|---|
| `cmdb_safe` | one insert one row, budget, recording, termination, refinement | 5 attempts (the default), every call site but an ip of attach without prefix | 356 |
| `cmdb_attach` | one insert one row, for attach's ip insert | 2 attempts | violated |
| `outage` | is an outage left to the message-level retry? | 2 attempts, 2 runs | violated |
| `service` | no loss, no leak, graceful close, refinement, settling, shutdown | 2 messages, prefetch 1, 2 runs, 2 confirmations, 3 connections | 89 k |
| `attach_overlap` | idempotence, effect, no leftovers | 3 messages at once, 2 faults | 286 k |
| `attach_twins` | do good messages succeed together? | 2 attaches, no fault | violated |
| `lifecycle` | ready means complete, one server, own row, effect | create, delete and resize of three instances at once, 2 faults | 408 k |
| `create_swallowed` | is an acknowledged create in the CMDB? | 1 create, 1 refusal | violated |
| `create_twice` | is a create safe to run twice? | 2 overlapping runs, no fault | violated |
| `create_message` | cards, names, fields, state of one create | messages of up to 3 networks and 2 ports, or of tags, lookups and refused values; 2 unknown failures | 318 k |
| `create_contract` | is a message checked before it costs the row? | messages that lack one part | violated |
| `instance` | effect stands, right card, right type | create, 2 attaches, detach, resize and delete of one instance, two in hand under `NoneUndone` and `WritersApart`, 1 run per delivery, 1 fault | 290 k |

Why the bounds are enough. Two messages and three connections give one drop, one
crash or shutdown and their recoveries, with a stale task of the first connection
next to the redelivery; a prefetch of one makes the two contend for the slot, and
the safety properties are proved for every prefetch. Two runs of `handle_message`
and two confirmations reach the last and the not-last attempt. Two faults combine a
lost insert with a crash, or with the failure of its re-select. In `instance` six
messages leave room for one fault, and a message runs again by redelivery only; the
three theorems about it take any number of both.
The tables at the start are: no server, a bare server, a server with an occupied
card and a placeholder, a server that create already gave the address (attach);
nothing, and tables in which the hostname belongs to another instance, the uuid has
a server under another name, and an instance has two servers (create). Three
networks are the fewest where one without a mac stands between two that differ, and
where a placeholder, a numbered and a renumbered card meet; the tag lists pair tags
of one class, listed and unlisted ones, and tags with and without a step.

Deadlock is not checked: a finished call, a consumer with an empty queue at its
connection bound and tasks that are all settled may stop.

`AMQP_PREFETCH_COUNT` is 10 by default, so messages are in hand beside each other,
and the handlers take no lock: what they promise rests on what those messages are to
each other. Three conditions on the messages in hand appear in runs and theorems:

* `Apart` (`ServerLifecycleProofs`): two creates in hand differ in uuid and in
  hostname. In `lifecycle` it holds because there is one create; resizes and deletes
  run beside it. `create_twice` is the counterexample without it.
* `NoneUndone` (`InstanceHandler`): no message in hand undoes the effect of another, as a
  delete undoes an attach of the same instance.
* `WritersApart` (`InstanceHandler`): no two messages in hand put rows on one instance,
  and two creates differ in hostname. Deletes, detaches and resizes of that instance
  and everything about other instances may run beside a writer.

The queue guarantees none of them. `instance` takes every interleaving of two messages
that satisfies the last two (`ApartSpec`). With `Spec` in its place each of its three
properties fails: a create and an attach, or two attaches, both find a type free or one
card empty, and a delete that overlaps an attach takes what it is about to acknowledge.

Fairness is assumed in two specifications. `CmdbCall!FairSpec`: a request answers
or raises and the event loop resumes the coroutine. `MessageHandlerService!FairSpec`:
the broker delivers, settles and notices lost connections, `aio_pika` reconnects,
Kubernetes restarts the pod, the event loop runs every task and `main()`. Nothing
makes a crash, a drop or a signal happen, and finitely many are allowed.

### What the violated runs show

* `cmdb_attach`: attach's re-select (`handler.py:1161`) answers None for a refused
  lookup, so a landed insert is repeated.
* `attach_twins`: two attaches pick one bond name from stale snapshots; the loser is
  dead-lettered as if its message were at fault.
* `outage`: a re-select that dies of the KeyError of a CMDB 5xx at the last attempt
  dead-letters the message, where the log line at `handler.py:1013` leaves it to the
  retry of the message.
* `create_swallowed`: a create whose row cannot be recreated is acknowledged and
  leaves no trace (`handler.py:177`).
* `create_twice`: overlapping runs of a redelivered create fill and delete each
  other's row, and a complete server ends in error.
* `create_contract`: a message without a flavor dies of a KeyError after its row was
  recreated (`handler.py:703`), though the contract is "checked before any CMDB call".

## Theorems

All are proved from the named assumptions of the modules and nothing else.

`CmdbCallProofs`: an inductive invariant adds to `TypeOK` where each result can
arise (a transport result only at the last attempt, an entry only with a permanent
result) and, for inserts under `ExactSelectors`, that an attempt at the operation
starts only when nothing has landed: `InsertLandsOnce` needs it because after a
lost reply only the re-select stands between one row and two. With it every step
of the engine is a step of `InsertOnce` or a stutter (`CallImplementsInsertOnce`).

`MessageHandlerServiceProofs`: the inductive invariant is the conjunction of
`TypeOK`, which stages a task of `active_tasks` may be in, that a confirmation on
the wire is of a held delivery with a verdict, and the two safety invariants. It
yields `NoMessageLost`, `SlotsAreUsed`, `ShutdownIsGraceful` (an action property) and
`ServiceImplementsAtLeastOnce`, for any number of messages, tasks and crashes.

`AttachDetachProofs`: `AttachIsIdempotent`. The strengthening (`LooksFirst`) says that
a task between its lookup and its insert has no address on the server yet. It is
not true of every instance: it needs that lookups do not answer None for an error
(`~LookupErrors`), that two messages in hand do not attach one address
(`OneTaskPerAddress`; the comment at `handler.py:317` admits the same) and that the
tables held each address once (`AddressesOnce`).
`AckedIsDone` is `AckedTakesEffect` with none of these: for any messages, prefetch
and failing lookups. What a task holds when it acknowledges is a plan it made from a
snapshot, so the invariant (`EffectInv`) ties the plan to the tables (`PlansHold`): its
server is one of the message's instance, and its endpoint, chosen, made or found again
by name, is on that server if it is still there; ids are given once (`IdsApart`), so
that a row another task deleted is not taken for a new one.
`NothingLeftOver` is `NoStrayEndpoint`. Its invariant (`StrayInv`) gives each inserted
endpoint without an address something still to come (`Covered`): a dead-lettered
message, a detach that has yet to sweep the server, or an attach that is not done and
will find the endpoint as the only one its port can go on (`Aims`, `Alone`). That an
attach fills an endpoint another one made, or finds one by a name another one chose, is
why the endpoint's mac, and not who inserted it, says which attach that is. The theorem
needs ports that can be told apart (`PortsApart`: the attaches to one server differ in
their macs, and at most one has none) and a uuid with one server (`UuidsApart`).

`ServerLifecycleProofs`: `TypeCorrectness` for any prefetch, and `OneServer`: as long
as the creates in hand differ in uuid and hostname (`Apart`), a server that a create
has inserted is the only one with its uuid, and a create writes on the row its own
message inserted. `OneServerPerInstance` alone is not inductive: nothing in it says
that at the insert no row of the uuid is left. `OwnsAt(t)` does, by the call a task is
at: while it deletes, every row of its uuid or hostname is among its victims; at the
insert and its re-select, every such row is its own; after that, so is the row it
writes to. Deletes and resizes may run beside it, since they make no rows.
`OwnRow` is the second half on its own.
`DeletesAndResizesLand`: a delete works on the victims it
selected and a resize on a condition, so `LandInv` says which rows of the uuid may still
be there at each call: those among the victims of a delete; for a resize, rows with the
fields it has written so far. `CreatesSettle`: `SettleInv` follows the row of a create that has
no rival to its acknowledgement. It needs that the CMDB refuses none of the calls in
`Quiet`, whose refusal ends the message with an ack; `create_swallowed` is the
counterexample without that.

`ServerReadyProofs`: `ReadyIsTrue`, under `Apart`. On top of `OwnsAt` the invariant (`ReadyInv`) says, call by call, which cards and addresses of
the message are on the row as long as nothing was recorded, with one card or address
more possible at a re-select, and that the row is in setup until its state is written. A lost insert is found again by a
selector, so the theorem needs messages whose cards the selectors can tell apart
(`CardsDistinct`): names differ, no two placeholders have one mac, and no card has an
address twice. The first follows from `BondNamesDistinct`. The second is the
hazard at `handler.py:883`.

`InstanceHandlerProofs`: `EffectsStand`, about all the handlers on one CMDB. An
invariant that has to hold of every call of five handlers is proved in two halves.
`Touches(t)` says what one call of t may do to the tables: a row put in or taken out on
a server of its own instance, fields of those servers written, or a mac set;
`EffectKept` shows once that nothing of this undoes the effect of a message that t does
not override. The other half, one lemma per action (`...Lands`), shows that each call of
the code is such a touch and ends where the handler can go on: the plan of an attach is
for a server of its uuid (`PlanHolds`), the victims of a removal are all there is
(`VictimsHold`), a create has a row and its cards are of its instance (`CreateAt`), a
resize that writes the second field has written the first (`ResizeAt`), and an ack comes
only with the effect (`Lands`). A third step, `AtKept`, is about the others: what a task
needs to go on survives the step of a task that neither overrides it nor is overridden by
it. `EffectInv` joins them, for every task at a call. The theorem has three hypotheses,
which the instance of `instance` satisfies: `NoneUndone`; that a hostname belongs to one instance
(`HostnamesOwned`), because create removes by hostname too, and would take another
instance's server, whose messages it does not supersede; and that the CMDB refuses none of
the calls after which a create is acknowledged all the same (`QuietNotRefused`). It
makes no assumption on the prefetch, on lookups, on how often a message runs, or on what
the messages are. Two tasks with one attach or detach, the stale one and that of its
redelivery, may be in hand together.
`OneOfEachTypeEverywhere` is `OneOfEachType` for all the handlers. Attach and create each
count the types of a server once and act on that count over several calls. The invariant
(`TypesInv`) says what the count is worth at each of them. For an attach, every type on
the server is counted, except that of the one address it may itself have inserted before
the reply was lost (`AttachTypes`); the key of addresses keeps that one from being
inserted twice. A create starts with nothing counted, which is right only because its row
has no endpoint: it removed every row with its hostname, and a row it inserts or finds
again by hostname is new (`Bare`). From then on it counts what it inserts (`Counted`),
and the address it inserts is the only one of its type (`Typed`). `Holds` ties the
endpoint in hand to that server, for ids are given once. That tasks beside it leave all
this alone is a second argument: whatever a writer does is on rows of its own instance
(`OwnAt`, `HostOwn`, `Meddles`), and rows hang off rows that are there (`RowsJoined`), so
that a step of another instance's writer puts nothing on the server and moves no mac there
(`SparesOwn`), and every other handler only takes rows away or changes fields. The theorem
asks for `WritersApart`, since two attaches in hand may both find a type free, and for
tables that held one address of each type on a server (`TypesFound`) and no row without
the one it hangs off (`TablesJoined`), which the foreign keys of the CMDB say. Nothing is
asked of the prefetch, of hostnames beyond that, of refusals or of lookups. TLC checked
`TypesInv` on the instance of `instance` before it was proved.
`PortsOnTheirCards` is `PortOnItsCard` for all the handlers, over any tables and with
servers that are removed and created again. The property alone is not inductive: it says
nothing of the endpoint an attach has chosen and not used yet. `PortsInv` says it, call by
call (`Aimed`): unless the endpoint has the port's mac already it holds no address while
its mac is being set; the name chosen for a new one is free, or taken by the endpoint this
attach has itself put in before the reply was lost (`NameFree`); without a mac it is empty
until the address is on it. That `next_bond_name` finds a free name at all is a counting
argument over the finite set of endpoints. A create writes only cards and addresses of its
own message (`Listed`), on a row of its own instance (`OwnAt`). `OnCards` is the property
over the rows, free of the state of the tasks, and is kept by every call that adds no
address of an attach and moves no mac under one (`CardsKept`); the other calls are shown
one by one, and `AimKept` is what `SparesOwn` means for an endpoint another task has in
mind. `TypesInv` supplies the server behind an endpoint; its claim on the types found at
the start is conditional (`TypesOnce`), so both theorems share it. The hypotheses, all of
which hold on the instance of `instance`, where TLC checked `PortsInv` first:
`WritersApart`; answered lookups (`LookupErrors` is false), because a refused re-select of
an address has `_cmdb_call` repeat the insert; one message at most for the address of an
attach (`AddressesApart`), because the second would be acknowledged for the row of the
first, on the card of the first; joined and finite tables (`TablesJoined`,
`TablesFinite`), as those of a database are; and that cards and their addresses are lists
(`CardsListed`). Nothing is asked of the prefetch, of refused writes or of how often a
message runs.

`CreateMessageProofs`: `BondNamesDistinct` and `PlaceholdersHaveMacs`, for any networks
and ports. The inductive invariant says in which order the loops run, that numbers of
real cards differ and stay below `counter`, and that the names given are those of the
cards before. That `next_bond_name` returns a free name at all is a pigeonhole
argument: fewer names are taken than there are numbers to choose from.
`MacsNotMixed` and `AddressesPlaced` follow the entries of the message through the
lists of `build_host_networks`. Their invariant (`PlacesInv`) says that an entry is in
one place at a time: in a network or port still to read, on one card of one of the three
kinds that wait, or on one card of the result (`Separate`, `Apart`). What has been read
is on a card, a card's networks have its mac or none, and a port adds only addresses
nothing else carries. Counting the places of an address is then a bijection with the
entries that carry it. `AddressesPlaced` assumes that no single port lists an address
twice (`PortsListOnce`): the code compares the addresses of a port with earlier cards
only.
`FieldsSavedOrShown`, `ListedTagsAreWritten` and `ErrorsExplained` are about the fields,
for any tags, lookups and refusals. The last covers the write of the state that is refused
or fails: the row then stays in setup, and the theorem asks that the failure is on record;
a row in any other state is in error exactly when a failure that counts came before.
The invariant of the replay (`FieldInv`) cuts the order
of the writes in two: a write replayed is in the row, has its failure recorded or a
later write of its column, and every write left comes after all that were replayed.
`MessagesAssumption` says that no two entries of a message are one (an id tells apart
those with the same values), and that a tag which names no column of the model is one
the CMDB refuses.

`Config`: `ConfigBounded`, that a process which starts has at least one message in
hand, one run and one attempt, as the assumptions of the other modules say, and
`OnlyRequiredStop`, that only a missing required setting or an unusable port stops it.

The assumptions on constants beyond types say what a database guarantees of the tables
at the start: ids are unique and smaller than the next one, and an endpoint's server
was given an id (`LifecycleAssumption`, `AttachDetachAssumption`); a name is unique on
its server.

Only model-checked:

* The two liveness properties of the consumer and the one of the call engine, which are
  beyond the prover.

## Not modelled

* `observability.py`, logging, Sentry events and counters: nothing is decided by them.
* Deployment files, and the settings that are only passed on (`AMQP_SSL`, `SENTRY_DSN`,
  the names of pod, namespace and node, `LOG_LEVEL`).
* Wording: error templates, `status_details` beyond the fields it reports on, notes of
  endpoints, `get_dc_name`, `get_instances_type`.
* Which prefix contains an address: the CMDB and `ip_in_net_prefixes` answer with one or
  with none.
* What overlapping writers of one instance leave behind: the code promises nothing there.
  `create_twice`, `attach_twins` and the hazards in `PROJECT.json` say what can happen,
  the passing runs and the theorems when it does not.
