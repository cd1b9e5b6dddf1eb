------------------------ MODULE MessageHandlerService ------------------------
(***************************************************************************)
(* The consumer: MessageHandlerService (bootstrap_handlers.py) driven by   *)
(* main() (main.py) and the message broker.  Every delivered message gets  *)
(* a task of its own that runs process_message with retries and then acks  *)
(* the message or nacks it to the dead-letter queue.  The connection can   *)
(* drop, the process can crash, and a signal starts a graceful shutdown.   *)
(* process_message itself is any outcome at any attempt; sleeps take time  *)
(* but change nothing.                                                     *)
(***************************************************************************)
EXTENDS Integers, FiniteSets

CONSTANTS Messages,     \* the messages published to amqp_queue
          Prefetch,     \* amqp_prefetch_count
          MaxRetries,   \* max_message_process_retries
          AckRetries,   \* ack_retries of _confirm
          MaxConns      \* bound: connections ever opened, over all processes

\* Config.from_env falls back to the default below a minimum of 1; the
\* constructor's ack_retries is 3.
ASSUME ServiceAssumption ==
    /\ IsFiniteSet(Messages)
    /\ Prefetch \in Nat \ {0} /\ MaxRetries \in Nat \ {0}
    /\ AckRetries \in Nat \ {0} /\ MaxConns \in Nat \ {0}

\* A message as delivered on one connection: a delivery tag.
Delivery == [msg : Messages, conn : 1 .. MaxConns]

VARIABLES
    (* the broker *)
    ready,      \* messages waiting in the queue
    unacked,    \* deliveries the broker waits to see confirmed
    acked,      \* messages removed from the queue
    dead,       \* messages routed to the dead-letter queue
    wire,       \* confirmations sent and not yet handled by the broker
    (* the connection, as the process sees it *)
    conn,       \* number of the latest connection
    up,         \* whether it is open
    (* main() *)
    main,       \* "consuming", "cancelling", "waiting", "closed" or "exited"
    shutdown,   \* shutdown_event
    awaited,    \* the tasks gather() waits for
    (* the tasks, one per delivery *)
    active,     \* active_tasks
    stage,      \* "none", "processing", "confirming", "finished" or "killed"
    attempt,    \* the loop variable of handle_message, then of _confirm
    verdict     \* "none", "ack" or "nack"

broker == <<ready, unacked, acked, dead>>
mainVars == <<main, shutdown, awaited>>
tasks == <<active, stage, attempt, verdict>>
vars == <<broker, wire, conn, up, mainVars, tasks>>

Running == {"consuming", "cancelling", "waiting"}

\* The larger of the two retry budgets attempt counts against.
MaxAttempt == IF MaxRetries > AckRetries THEN MaxRetries ELSE AckRetries

\* The channel delivery d came on is open: only then can d be confirmed.
Open(d) == up /\ d.conn = conn

Init ==
    /\ ready = Messages /\ unacked = {} /\ acked = {} /\ dead = {} /\ wire = {}
    /\ conn = 1 /\ up = TRUE
    /\ main = "consuming" /\ shutdown = FALSE /\ awaited = {}
    /\ active = {}
    /\ stage = [d \in Delivery |-> "none"]
    /\ attempt = [d \in Delivery |-> 0]
    /\ verdict = [d \in Delivery |-> "none"]

-----------------------------------------------------------------------------
(* The broker                                                              *)

\* The broker delivers within the prefetch window while the consumer is
\* registered, until it has handled the cancel; wrapper() starts the task.
Deliver(m) ==
    LET d == [msg |-> m, conn |-> conn] IN
    /\ up /\ main \in {"consuming", "cancelling"}
    /\ m \in ready
    /\ Cardinality({u \in unacked : u.conn = conn}) < Prefetch
    /\ ready' = ready \ {m}
    /\ unacked' = unacked \cup {d}
    /\ active' = active \cup {d}
    /\ stage' = [stage EXCEPT ![d] = "processing"]
    /\ attempt' = [attempt EXCEPT ![d] = 1]
    /\ UNCHANGED <<acked, dead, wire, conn, up, mainVars, verdict>>

\* A confirmation reaches the broker, which may be after the process lost
\* the connection but not after the broker noticed.
Settle(d) ==
    /\ d \in wire
    /\ wire' = wire \ {d}
    /\ unacked' = unacked \ {d}
    /\ \/ verdict[d] = "ack" /\ acked' = acked \cup {d.msg} /\ UNCHANGED dead
       \/ verdict[d] = "nack" /\ dead' = dead \cup {d.msg} /\ UNCHANGED acked
    /\ UNCHANGED <<ready, conn, up, mainVars, tasks>>

\* The broker notices a connection is gone and requeues what it held.
Requeue ==
    LET lost == {d \in unacked : ~Open(d)} IN
    /\ lost # {}
    /\ unacked' = unacked \ lost
    /\ ready' = ready \cup {d.msg : d \in lost}
    /\ wire' = wire \ lost
    /\ UNCHANGED <<acked, dead, conn, up, mainVars, tasks>>

-----------------------------------------------------------------------------
(* The tasks: handle_message, then _confirm                                *)

StartConfirm(d, v) ==
    /\ stage' = [stage EXCEPT ![d] = "confirming"]
    /\ verdict' = [verdict EXCEPT ![d] = v]
    /\ attempt' = [attempt EXCEPT ![d] = 1]

\* process_message returned.
Succeed(d) ==
    /\ stage[d] = "processing"
    /\ StartConfirm(d, "ack")
    /\ UNCHANGED <<broker, wire, conn, up, mainVars, active>>

\* PermanentError, JSONDecodeError or KeyError: no retry.
FailForGood(d) ==
    /\ stage[d] = "processing"
    /\ StartConfirm(d, "nack")
    /\ UNCHANGED <<broker, wire, conn, up, mainVars, active>>

\* Mutation of FailAndRetry: one attempt too many.
RetryTooOften(d) ==
    /\ stage[d] = "processing"
    /\ \/ /\ attempt[d] <= MaxRetries
          /\ attempt' = [attempt EXCEPT ![d] = @ + 1]
          /\ UNCHANGED <<stage, verdict>>
       \/ /\ attempt[d] > MaxRetries
          /\ StartConfirm(d, "nack")
    /\ UNCHANGED <<broker, wire, conn, up, mainVars, active>>

\* Any other exception: sleep and run process_message again, or give up.
FailAndRetry(d) ==
    /\ stage[d] = "processing"
    /\ \/ /\ attempt[d] < MaxRetries
          /\ attempt' = [attempt EXCEPT ![d] = @ + 1]
          /\ UNCHANGED <<stage, verdict>>
       \/ /\ attempt[d] >= MaxRetries
          /\ StartConfirm(d, "nack")
    /\ UNCHANGED <<broker, wire, conn, up, mainVars, active>>

\* The coroutine ends; done_callback untracks its task.
Finish(d) ==
    /\ stage' = [stage EXCEPT ![d] = "finished"]
    /\ active' = active \ {d}
    /\ attempt' = [attempt EXCEPT ![d] = 0]

\* Mutations of ConfirmSent: the channel is not the one the message came on;
\* the nack is not awaited and never sent; handle_message does not return
\* after the nack and acks as well.
ConfirmOnAnyChannel(d) ==
    /\ stage[d] = "confirming"
    /\ up
    /\ wire' = wire \cup {d}
    /\ Finish(d)
    /\ UNCHANGED <<broker, conn, up, mainVars, verdict>>

NackNotAwaited(d) ==
    /\ stage[d] = "confirming"
    /\ Open(d)
    /\ wire' = IF verdict[d] = "ack" THEN wire \cup {d} ELSE wire
    /\ Finish(d)
    /\ UNCHANGED <<broker, conn, up, mainVars, verdict>>

NackThenAck(d) ==
    /\ stage[d] = "confirming"
    /\ Open(d)
    /\ wire' = wire \cup {d}
    /\ IF verdict[d] = "ack" THEN Finish(d) /\ UNCHANGED verdict
       ELSE /\ verdict' = [verdict EXCEPT ![d] = "ack"]
            /\ UNCHANGED <<active, stage, attempt>>
    /\ UNCHANGED <<broker, conn, up, mainVars>>

\* ack or nack was written to the channel: no reply is awaited.
ConfirmSent(d) ==
    /\ stage[d] = "confirming"
    /\ Open(d)
    /\ wire' = wire \cup {d}
    /\ Finish(d)
    /\ UNCHANGED <<broker, conn, up, mainVars, verdict>>

\* Mutation of ConfirmFails: the confirmation is retried for ever.
ConfirmForEver(d) ==
    /\ stage[d] = "confirming" /\ ~Open(d)
    /\ attempt[d] < AckRetries
    /\ attempt' = [attempt EXCEPT ![d] = @ + 1]
    /\ UNCHANGED <<broker, wire, conn, up, mainVars, active, stage, verdict>>

\* The channel is closed: try again, then give up.
ConfirmFails(d) ==
    /\ stage[d] = "confirming"
    /\ ~Open(d)
    /\ \/ /\ attempt[d] < AckRetries
          /\ attempt' = [attempt EXCEPT ![d] = @ + 1]
          /\ UNCHANGED <<stage, active>>
       \/ /\ attempt[d] >= AckRetries
          /\ Finish(d)
    /\ UNCHANGED <<broker, wire, conn, up, mainVars, verdict>>

-----------------------------------------------------------------------------
(* The connection and main()                                               *)

\* Bound: a connection is left for every reconnection (open is the state of
\* the present one) and for every restart (ending) that must still follow.
WithinBound(open, ending) ==
    conn + (IF open THEN 0 ELSE 1) + (IF ending THEN 1 ELSE 0) <= MaxConns

\* connect_robust reconnects and restores the consumer, unless cancelled.
ConnectionLost ==
    /\ up /\ main \in {"consuming", "waiting"} /\ WithinBound(FALSE, shutdown)
    /\ up' = FALSE
    /\ UNCHANGED <<broker, wire, conn, mainVars, tasks>>

Reconnect ==
    /\ ~up /\ main \in {"consuming", "waiting"} /\ conn < MaxConns
    /\ up' = TRUE /\ conn' = conn + 1
    /\ UNCHANGED <<broker, wire, mainVars, tasks>>

\* handle_shutdown, on SIGTERM or SIGINT.
Signal ==
    /\ main \in Running /\ ~shutdown /\ WithinBound(up, TRUE)
    /\ shutdown' = TRUE
    /\ UNCHANGED <<broker, wire, conn, up, main, awaited, tasks>>

\* shutdown_event.wait() returns and queue.cancel() is sent.
CancelConsumer ==
    /\ main = "consuming" /\ shutdown /\ up
    /\ main' = "cancelling"
    /\ UNCHANGED <<broker, wire, conn, up, shutdown, awaited, tasks>>

\* Mutation of CancelOk: gather() gets only the tasks still processing.
AwaitProcessingOnly ==
    /\ main = "cancelling"
    /\ main' = "waiting"
    /\ awaited' = {d \in active : stage[d] = "processing"}
    /\ UNCHANGED <<broker, wire, conn, up, shutdown, tasks>>

\* queue.cancel() returns; gather() gets the tasks tracked at that moment.
CancelOk ==
    /\ main = "cancelling"
    /\ main' = "waiting"
    /\ awaited' = active
    /\ UNCHANGED <<broker, wire, conn, up, shutdown, tasks>>

\* The end of a process takes its tasks and its connection with it.
EndProcess(how) ==
    /\ main' = how
    /\ up' = FALSE
    /\ stage' = [d \in Delivery |-> IF d \in active THEN "killed" ELSE stage[d]]
    /\ active' = {}
    /\ UNCHANGED <<broker, wire, conn, shutdown, awaited, attempt, verdict>>

\* gather() returns and the connection closes in order: the broker handles
\* every confirmation sent on it before the close.
Close ==
    /\ main = "waiting"
    /\ awaited \cap active = {}
    /\ \A d \in wire : ~Open(d)
    /\ EndProcess("closed")

\* The pod is killed, or the connection drops under queue.cancel() and the
\* exception leaves main().
Crash ==
    /\ main \in Running /\ WithinBound(TRUE, TRUE)
    /\ EndProcess("exited")

\* Kubernetes starts the next process.
Restart ==
    /\ main \in {"closed", "exited"} /\ conn < MaxConns
    /\ main' = "consuming" /\ shutdown' = FALSE /\ awaited' = {}
    /\ up' = TRUE /\ conn' = conn + 1
    /\ UNCHANGED <<broker, wire, tasks>>

Task(d) ==
    \/ Succeed(d)
    \/ FailForGood(d)
    \/ FailAndRetry(d)
    \/ ConfirmSent(d)
    \/ ConfirmFails(d)

Next ==
    \/ \E m \in Messages : Deliver(m)
    \/ \E d \in Delivery : Task(d) \/ Settle(d)
    \/ Requeue
    \/ ConnectionLost
    \/ Reconnect
    \/ Signal
    \/ CancelConsumer
    \/ CancelOk
    \/ Close
    \/ Crash
    \/ Restart

Spec == Init /\ [][Next]_vars

(***************************************************************************)
(* The broker keeps delivering, handling confirmations and noticing lost   *)
(* connections, aio_pika reconnects, Kubernetes restarts the pod, and the  *)
(* event loop runs every task and main().  Losing the connection, crashing *)
(* and shutting down are never bound to happen.                            *)
(***************************************************************************)
Fairness ==
    /\ \A m \in Messages : WF_vars(Deliver(m))
    /\ \A d \in Delivery : WF_vars(Task(d)) /\ WF_vars(Settle(d))
    /\ WF_vars(Requeue) /\ WF_vars(Reconnect) /\ WF_vars(Restart)
    /\ WF_vars(CancelConsumer) /\ WF_vars(CancelOk) /\ WF_vars(Close)

FairSpec == Spec /\ Fairness

-----------------------------------------------------------------------------
TypeOK ==
    /\ ready \subseteq Messages /\ acked \subseteq Messages /\ dead \subseteq Messages
    /\ unacked \subseteq Delivery /\ wire \subseteq Delivery
    /\ conn \in 1 .. MaxConns /\ up \in BOOLEAN
    /\ main \in Running \cup {"closed", "exited"} /\ shutdown \in BOOLEAN
    /\ awaited \subseteq Delivery /\ active \subseteq Delivery
    /\ stage \in [Delivery -> {"none", "processing", "confirming", "finished", "killed"}]
    /\ attempt \in [Delivery -> 0 .. MaxAttempt]
    /\ verdict \in [Delivery -> {"none", "ack", "nack"}]

Held == {d.msg : d \in unacked}

(* No message is lost and none is in two places, whatever drops, crashes   *)
(* and stale confirmations do: it is in the queue, held for exactly one    *)
(* delivery, acknowledged or dead-lettered.                                *)
EachMessageHeldOnce ==
    /\ Messages = ready \cup Held \cup acked \cup dead
    /\ ready \cap Held = {} /\ acked \cap dead = {}
    /\ (ready \cup Held) \cap (acked \cup dead) = {}
    /\ \A c, d \in unacked : c.msg = d.msg => c = d

(* Giving up a confirmation leaks nothing ("relying on the broker to       *)
(* requeue", _confirm): while a connection is open, every delivery the     *)
(* broker holds on it has a tracked task still to confirm it, or its       *)
(* confirmation is on the way.  A prefetch slot is never held by nobody.   *)
NoOrphanedDelivery ==
    \A d \in unacked : Open(d) => d \in active \/ d \in wire

(* "It first stops the queue consumer and then waits for active processing *)
(* tasks to finish before closing the broker connection" (README.md): a    *)
(* graceful close cuts off no task, and leaves the broker nothing to       *)
(* redeliver of what the closed connection had been given.                 *)
GracefulClose ==
    [][main = "waiting" /\ main' = "closed" =>
        active = {} /\ \A d \in unacked : ~Open(d)]_vars

(* Messages leave the queue once, on a verdict of a complete handling.     *)
Status ==
    [m \in Messages |-> IF m \in acked THEN "ack" ELSE IF m \in dead THEN "nack" ELSE "queued"]
Verdicts ==
    [m \in Messages |-> {verdict[d] : d \in {x \in Delivery : x.msg = m}} \ {"none"}]

Queue == INSTANCE AtLeastOnce WITH status <- Status, verdicts <- Verdicts

ImplementsAtLeastOnce == Queue!Spec

(* Every message is eventually acknowledged or dead-lettered, whatever     *)
(* finitely many drops, crashes, redeliveries and rolling restarts do.     *)
EverySettled == \A m \in Messages : <>(m \in acked \cup dead)

(* SIGTERM ends the process: retries are bounded and a confirmation that   *)
(* cannot succeed is given up, so no in-flight task holds gather() for     *)
(* ever, and the signal is not lost while the connection is down.          *)
ShutdownCompletes == shutdown ~> main \in {"closed", "exited"}
=============================================================================
