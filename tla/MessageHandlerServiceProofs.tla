--------------------- MODULE MessageHandlerServiceProofs ---------------------
(***************************************************************************)
(* Theorems about MessageHandlerService, for any messages, prefetch window *)
(* and retry budgets, and any number of connections.                       *)
(***************************************************************************)
EXTENDS MessageHandlerService, TLAPS

(* active_tasks tracks exactly the handlings under way, none belongs to a  *)
(* connection still to come, none outlives its process, and a task that    *)
(* gather() was not given is not running once main() waits.                *)
TaskInv ==
    /\ \A d \in Delivery : d \in active <=> stage[d] \in {"processing", "confirming"}
    /\ \A d \in Delivery : d.conn > conn => stage[d] = "none" /\ d \notin unacked
    /\ main \notin Running => active = {} /\ ~up
    /\ main = "waiting" => active \subseteq awaited

(* The broker's book-keeping agrees with the tasks': a confirmation on the *)
(* way is for a delivery still held whose task is done, and a delivery of  *)
(* the open connection is held until it is settled.                        *)
WireInv ==
    /\ wire \subseteq unacked \ active
    /\ \A d \in active : Open(d) => d \in unacked
    /\ \A d \in Delivery : Open(d) /\ stage[d] # "none"
                              => d \in unacked \/ d.msg \in acked \cup dead

\* A verdict is reached once, before the confirmation.
VerdictInv ==
    /\ \A d \in Delivery : d \in wire \/ stage[d] = "confirming" => verdict[d] # "none"
    /\ \A d \in Delivery : stage[d] \in {"none", "processing"} => verdict[d] = "none"

Inv == TypeOK /\ TaskInv /\ WireInv /\ VerdictInv /\ EachMessageHeldOnce /\ NoOrphanedDelivery

-----------------------------------------------------------------------------
\* The message of a delivery is a message, its connection a number.
LEMMA DeliveryParts == \A d \in Delivery : d.msg \in Messages /\ d.conn \in 1 .. MaxConns
BY DEF Delivery

\* The present connection gives every message a delivery tag.
LEMMA NewDelivery ==
    ASSUME TypeOK, NEW m \in Messages
    PROVE  [msg |-> m, conn |-> conn] \in Delivery
BY DEF TypeOK, Delivery

\* A message in the queue has not been started on the open connection.
LEMMA ReadyNotStarted ==
    ASSUME TypeOK, WireInv, EachMessageHeldOnce, up, NEW m \in ready
    PROVE  /\ [msg |-> m, conn |-> conn] \notin unacked
           /\ stage[[msg |-> m, conn |-> conn]] = "none"
<1> DEFINE d == [msg |-> m, conn |-> conn]
<1>1. d \in Delivery
  BY NewDelivery DEF TypeOK
<1>2. d \notin unacked
  BY DEF EachMessageHeldOnce, Held
<1>3. Open(d)
  BY DEF Open
<1>4. d.msg \notin acked \cup dead
  BY DEF EachMessageHeldOnce
<1>5. QED
  BY <1>1, <1>2, <1>3, <1>4 DEF WireInv

-----------------------------------------------------------------------------
LEMMA InitInv == Init => Inv
<1> SUFFICES ASSUME Init PROVE Inv
  OBVIOUS
<1>1. TypeOK
  <2>1. 1 \in 1 .. MaxConns /\ 0 \in 0 .. MaxAttempt
    BY ServiceAssumption DEF MaxAttempt
  <2>2. /\ stage \in [Delivery -> {"none", "processing", "confirming", "finished", "killed"}]
        /\ attempt \in [Delivery -> 0 .. MaxAttempt]
        /\ verdict \in [Delivery -> {"none", "ack", "nack"}]
    BY <2>1 DEF Init
  <2>3. QED
    BY <2>1, <2>2 DEF Init, TypeOK, Running
<1>2. TaskInv
  BY DEF Init, TaskInv, Running
<1>3. WireInv /\ VerdictInv /\ NoOrphanedDelivery
  BY DEF Init, WireInv, VerdictInv, NoOrphanedDelivery
<1>4. EachMessageHeldOnce
  BY DEF Init, EachMessageHeldOnce, Held
<1>5. QED
  BY <1>1, <1>2, <1>3, <1>4 DEF Inv

\* Every step keeps the types.
LEMMA TypeStep == TypeOK /\ [Next]_vars => TypeOK'
<1> SUFFICES ASSUME TypeOK, [Next]_vars PROVE TypeOK'
  OBVIOUS
<1> USE ServiceAssumption DEF TypeOK, Running
<1>1. ASSUME NEW m \in Messages, Deliver(m) PROVE TypeOK'
  BY <1>1, NewDelivery DEF Deliver, mainVars, MaxAttempt
<1>2. ASSUME NEW d \in Delivery, Settle(d) PROVE TypeOK'
  BY <1>2, DeliveryParts DEF Settle, mainVars, tasks
<1>3. ASSUME NEW d \in Delivery, Task(d) PROVE TypeOK'
  <2>1. CASE Succeed(d) \/ FailForGood(d)
    BY <2>1 DEF Succeed, FailForGood, StartConfirm, broker, mainVars, MaxAttempt
  <2>2. CASE FailAndRetry(d)
    BY <2>2 DEF FailAndRetry, StartConfirm, broker, mainVars, MaxAttempt
  <2>3. CASE ConfirmSent(d)
    BY <2>3 DEF ConfirmSent, Finish, broker, mainVars, MaxAttempt
  <2>4. CASE ConfirmFails(d)
    BY <2>4 DEF ConfirmFails, Finish, broker, mainVars, MaxAttempt
  <2>5. QED
    BY <1>3, <2>1, <2>2, <2>3, <2>4 DEF Task
<1>4. CASE Requeue
  <2>1. \A d \in unacked : d.msg \in Messages
    BY DeliveryParts
  <2>2. ready' \subseteq Messages /\ unacked' \subseteq Delivery /\ wire' \subseteq Delivery
    BY <1>4, <2>1 DEF Requeue
  <2>3. QED
    BY <1>4, <2>2 DEF Requeue, mainVars, tasks
<1>5. CASE ConnectionLost \/ Reconnect \/ Signal \/ CancelConsumer \/ CancelOk
  <2>1. up' \in BOOLEAN /\ shutdown' \in BOOLEAN
    <3>1. up' \in BOOLEAN
      BY <1>5 DEF ConnectionLost, Reconnect, Signal, CancelConsumer, CancelOk
    <3>2. shutdown' \in BOOLEAN
      BY <1>5, Zenon DEF ConnectionLost, Reconnect, Signal, CancelConsumer, CancelOk, mainVars
    <3>3. QED
      BY <3>1, <3>2
  <2>2. conn' \in 1 .. MaxConns
    <3>1. CASE Reconnect
      BY <3>1 DEF Reconnect
    <3>2. CASE ~Reconnect
      BY <1>5, <3>2 DEF ConnectionLost, Signal, CancelConsumer, CancelOk
    <3>3. QED
      BY <3>1, <3>2
  <2>3. main' \in Running \cup {"closed", "exited"} /\ awaited' \subseteq Delivery
    BY <1>5 DEF ConnectionLost, Reconnect, Signal, CancelConsumer, CancelOk, mainVars
  <2>4. UNCHANGED <<broker, wire, tasks>>
    BY <1>5 DEF ConnectionLost, Reconnect, Signal, CancelConsumer, CancelOk
  <2>5. QED
    BY <2>1, <2>2, <2>3, <2>4 DEF broker, tasks
<1>6. CASE Close \/ Crash
  <2>1. EndProcess("closed") \/ EndProcess("exited")
    BY <1>6 DEF Close, Crash
  <2>2. stage' \in [Delivery -> {"none", "processing", "confirming", "finished", "killed"}]
    BY <2>1 DEF EndProcess
  <2>3. up' \in BOOLEAN
    BY <2>1 DEF EndProcess
  <2>4. QED
    BY <2>1, <2>2, <2>3 DEF EndProcess, broker
<1>7. CASE Restart
  <2>1. up' \in BOOLEAN /\ shutdown' \in BOOLEAN
    BY <1>7 DEF Restart
  <2>2. conn' \in 1 .. MaxConns
    BY <1>7 DEF Restart
  <2>3. QED
    BY <1>7, <2>1, <2>2 DEF Restart, broker, tasks
<1>8. CASE UNCHANGED vars
  BY <1>8 DEF vars, broker, mainVars, tasks
<1>9. QED
  BY <1>1, <1>2, <1>3, <1>4, <1>5, <1>6, <1>7, <1>8 DEF Next

-----------------------------------------------------------------------------
\* What a step of a task leaves alone, and what it makes of its stage.
LEMMA TaskStep ==
    ASSUME TypeOK, TaskInv, NEW d \in Delivery, Task(d)
    PROVE  /\ UNCHANGED <<broker, conn, up, mainVars>>
           /\ stage[d] \in {"processing", "confirming"}
           /\ stage'[d] \in {"processing", "confirming", "finished"}
           /\ \A e \in Delivery \ {d} : stage'[e] = stage[e] /\ verdict'[e] = verdict[e]
           /\ active' = IF stage'[d] = "finished" THEN active \ {d} ELSE active
<1> USE DEF TypeOK
<1>1. CASE Succeed(d) \/ FailForGood(d)
  BY <1>1 DEF Succeed, FailForGood, StartConfirm
<1>2. CASE FailAndRetry(d)
  BY <1>2 DEF FailAndRetry, StartConfirm
<1>3. CASE ConfirmSent(d)
  BY <1>3 DEF ConfirmSent, Finish
<1>4. CASE ConfirmFails(d)
  BY <1>4 DEF ConfirmFails, Finish
<1>5. QED
  BY <1>1, <1>2, <1>3, <1>4 DEF Task

LEMMA TaskInvStep == Inv /\ [Next]_vars => TaskInv'
<1> SUFFICES ASSUME Inv, [Next]_vars PROVE TaskInv'
  OBVIOUS
<1> USE DEF Inv, TypeOK, TaskInv, Running
<1>1. ASSUME NEW m \in Messages, Deliver(m) PROVE TaskInv'
  <2> DEFINE d == [msg |-> m, conn |-> conn]
  <2>1. d \in Delivery /\ d.conn = conn
    BY NewDelivery
  <2>2. QED
    BY <1>1, <2>1 DEF Deliver, mainVars
<1>2. ASSUME NEW d \in Delivery, Settle(d) PROVE TaskInv'
  BY <1>2 DEF Settle, mainVars, tasks
<1>3. ASSUME NEW d \in Delivery, Task(d) PROVE TaskInv'
  BY <1>3, TaskStep DEF mainVars, broker
<1>4. CASE Requeue
  BY <1>4 DEF Requeue, mainVars, tasks
<1>5. CASE ConnectionLost \/ Signal \/ CancelConsumer \/ CancelOk
  BY <1>5 DEF ConnectionLost, Signal, CancelConsumer, CancelOk, broker, mainVars, tasks
<1>6. CASE Reconnect \/ Restart
  BY <1>6, DeliveryParts DEF Reconnect, Restart, broker, mainVars, tasks
<1>7. CASE Close \/ Crash
  <2>1. EndProcess("closed") \/ EndProcess("exited")
    BY <1>7 DEF Close, Crash
  <2>2. QED
    BY <2>1 DEF EndProcess, broker
<1>8. CASE UNCHANGED vars
  BY <1>8 DEF vars, broker, mainVars, tasks
<1>9. QED
  BY <1>1, <1>2, <1>3, <1>4, <1>5, <1>6, <1>7, <1>8 DEF Next

LEMMA HeldOnceStep == Inv /\ [Next]_vars => EachMessageHeldOnce'
<1> SUFFICES ASSUME Inv, [Next]_vars PROVE EachMessageHeldOnce'
  OBVIOUS
<1> USE DEF Inv, TypeOK, EachMessageHeldOnce, Held
<1>1. ASSUME NEW m \in Messages, Deliver(m) PROVE EachMessageHeldOnce'
  BY <1>1 DEF Deliver
<1>2. ASSUME NEW d \in Delivery, Settle(d) PROVE EachMessageHeldOnce'
  <2>1. d \in unacked
    BY <1>2 DEF Settle, WireInv
  <2>2. Held' = Held \ {d.msg}
    BY <1>2, <2>1 DEF Settle
  <2>3. d.msg \in Held /\ d.msg \notin ready /\ d.msg \notin acked \cup dead
    BY <2>1
  <2>4. CASE acked' = acked \cup {d.msg} /\ UNCHANGED dead
    BY <1>2, <2>1, <2>2, <2>3, <2>4 DEF Settle
  <2>5. CASE dead' = dead \cup {d.msg} /\ UNCHANGED acked
    BY <1>2, <2>1, <2>2, <2>3, <2>5 DEF Settle
  <2>6. QED
    BY <1>2, <2>4, <2>5 DEF Settle
<1>3. CASE Requeue
  BY <1>3 DEF Requeue
<1>4. CASE UNCHANGED broker
  BY <1>4 DEF broker
<1>5. (\E d \in Delivery : Task(d)) => UNCHANGED broker
  BY TaskStep
<1>6. ConnectionLost \/ Reconnect \/ Signal \/ CancelConsumer \/ CancelOk
        \/ Close \/ Crash \/ Restart \/ UNCHANGED vars => UNCHANGED broker
  BY DEF ConnectionLost, Reconnect, Signal, CancelConsumer, CancelOk, Close, Crash,
         EndProcess, Restart, vars
<1>7. QED
  BY <1>1, <1>2, <1>3, <1>4, <1>5, <1>6 DEF Next

\* A new connection has no delivery yet.
LEMMA FreshConnection ==
    ASSUME TypeOK, TaskInv, conn' = conn + 1, NEW d \in Delivery, d.conn = conn'
    PROVE  stage[d] = "none" /\ d \notin unacked
BY DeliveryParts DEF TypeOK, TaskInv

LEMMA WireInvStep == Inv /\ [Next]_vars => WireInv' /\ NoOrphanedDelivery'
<1> DEFINE Goal == WireInv /\ NoOrphanedDelivery
<1> SUFFICES ASSUME Inv, [Next]_vars PROVE Goal'
  OBVIOUS
<1> USE DEF Inv, TypeOK, WireInv, NoOrphanedDelivery
<1> DEFINE SameOpen == \A e \in Delivery : Open(e)' <=> Open(e)
<1>0. UNCHANGED <<conn, up>> => SameOpen
  BY DEF Open
<1>1. ASSUME NEW m \in Messages, Deliver(m) PROVE Goal'
  <2> DEFINE d == [msg |-> m, conn |-> conn]
  <2>1. d \in Delivery
    BY NewDelivery
  <2>2. m \in ready /\ up
    BY <1>1 DEF Deliver
  <2>3. d \notin unacked
    BY <2>2, ReadyNotStarted
  <2>4. SameOpen
    BY <1>0, <1>1 DEF Deliver
  <2>5. \A e \in Delivery : e # d => stage'[e] = stage[e]
    BY <1>1, <2>1 DEF Deliver
  <2>6. QED
    BY <1>1, <2>1, <2>3, <2>4, <2>5 DEF Deliver
<1>2. ASSUME NEW d \in Delivery, Settle(d) PROVE Goal'
  <2>1. SameOpen /\ UNCHANGED tasks
    BY <1>0, <1>2 DEF Settle
  <2>2. d.msg \in acked' \cup dead'
    BY <1>2 DEF Settle
  <2>3. QED
    BY <1>2, <2>1, <2>2 DEF Settle, tasks
<1>3. ASSUME NEW d \in Delivery, Task(d) PROVE Goal'
  <2>1. UNCHANGED broker /\ d \in active
    BY <1>3, TaskStep DEF TaskInv
  <2>2. SameOpen /\ \A e \in Delivery : stage'[e] # "none" <=> stage[e] # "none"
    BY <1>0, <1>3, TaskStep
  <2>3. CASE ConfirmSent(d)
    BY <2>1, <2>2, <2>3 DEF ConfirmSent, Finish, broker
  <2>4. CASE ~ConfirmSent(d)
    <3>1. UNCHANGED wire
      BY <1>3, <2>4 DEF Task, Succeed, FailForGood, FailAndRetry, ConfirmFails
    <3>2. active' = active \/ (active' = active \ {d} /\ ~Open(d))
      BY <1>3, <2>4 DEF Task, Succeed, FailForGood, FailAndRetry, ConfirmFails, Finish
    <3>3. QED
      <4>1. wire' \subseteq unacked' \ active'
        BY <2>1, <3>1, <3>2 DEF broker
      <4>2. \A e \in active' : Open(e)' => e \in unacked'
        BY <2>1, <2>2, <3>2 DEF broker
      <4>3. \A e \in unacked' : Open(e)' => e \in active' \/ e \in wire'
        BY <2>1, <2>2, <3>1, <3>2 DEF broker
      <4>4. \A e \in Delivery : Open(e)' /\ stage'[e] # "none"
                                   => e \in unacked' \/ e.msg \in acked' \cup dead'
        BY <2>1, <2>2 DEF broker
      <4>5. QED
        BY <4>1, <4>2, <4>3, <4>4
  <2>5. QED
    BY <2>3, <2>4
<1>4. CASE Requeue
  <2>1. SameOpen /\ UNCHANGED tasks
    BY <1>0, <1>4 DEF Requeue
  <2>2. \A e \in unacked : Open(e) => e \in unacked'
    BY <1>4 DEF Requeue
  <2>3. QED
    BY <1>4, <2>1, <2>2 DEF Requeue, tasks
<1>5. CASE ConnectionLost \/ Signal \/ CancelConsumer \/ CancelOk \/ UNCHANGED vars
  <2>1. UNCHANGED <<broker, wire, tasks>>
    BY <1>5 DEF ConnectionLost, Signal, CancelConsumer, CancelOk, vars
  <2>2. \A e \in Delivery : Open(e)' => Open(e)
    BY <1>5 DEF ConnectionLost, Signal, CancelConsumer, CancelOk, vars, Open
  <2>3. QED
    BY <2>1, <2>2 DEF broker, tasks
<1>6. CASE Reconnect \/ Restart
  <2>1. conn' = conn + 1 /\ UNCHANGED <<broker, wire, tasks>>
    BY <1>6 DEF Reconnect, Restart
  <2>2. \A d \in Delivery : d.conn = conn' => stage[d] = "none" /\ d \notin unacked
    BY <2>1, FreshConnection
  <2>3. \A d \in active : stage[d] # "none"
    BY DEF TaskInv
  <2>4. \A e \in Delivery : Open(e)' => e.conn = conn'
    BY DEF Open
  <2>5. QED
    BY <2>1, <2>2, <2>3, <2>4 DEF broker, tasks
<1>7. CASE Close \/ Crash
  <2>1. ~up' /\ active' = {} /\ UNCHANGED <<broker, wire>>
    BY <1>7 DEF Close, Crash, EndProcess
  <2>2. \A e \in Delivery : ~Open(e)'
    BY <2>1 DEF Open
  <2>3. QED
    BY <2>1, <2>2 DEF broker
<1>8. QED
  BY <1>1, <1>2, <1>3, <1>4, <1>5, <1>6, <1>7 DEF Next

LEMMA VerdictInvStep == Inv /\ [Next]_vars => VerdictInv'
<1> SUFFICES ASSUME Inv, [Next]_vars PROVE VerdictInv'
  OBVIOUS
<1> USE DEF Inv, TypeOK, VerdictInv
<1>1. ASSUME NEW m \in Messages, Deliver(m) PROVE VerdictInv'
  <2> DEFINE d == [msg |-> m, conn |-> conn]
  <2>1. d \in Delivery
    BY NewDelivery
  <2>2. m \in ready /\ up
    BY <1>1 DEF Deliver
  <2>3. stage[d] = "none"
    BY <2>2, ReadyNotStarted
  <2>4. QED
    BY <1>1, <2>1, <2>3 DEF Deliver
<1>2. ASSUME NEW d \in Delivery, Settle(d) PROVE VerdictInv'
  BY <1>2 DEF Settle, tasks
<1>3. ASSUME NEW d \in Delivery, Task(d) PROVE VerdictInv'
  BY <1>3 DEF Task, Succeed, FailForGood, FailAndRetry, ConfirmSent, ConfirmFails,
              StartConfirm, Finish, TaskInv, WireInv
<1>4. CASE Requeue
  BY <1>4 DEF Requeue, tasks
<1>5. CASE Close \/ Crash
  <2>1. /\ UNCHANGED <<wire, verdict>>
        /\ \A d \in Delivery : stage'[d] \in {stage[d], "killed"}
    BY <1>5 DEF Close, Crash, EndProcess
  <2>2. QED
    BY <2>1
<1>6. CASE ConnectionLost \/ Reconnect \/ Signal \/ CancelConsumer \/ CancelOk
             \/ Restart \/ UNCHANGED vars
  BY <1>6 DEF ConnectionLost, Reconnect, Signal, CancelConsumer, CancelOk, Restart,
              vars, tasks
<1>7. QED
  BY <1>1, <1>2, <1>3, <1>4, <1>5, <1>6 DEF Next

LEMMA InvInductive == Spec => []Inv
<1>1. Inv /\ [Next]_vars => Inv'
  BY TypeStep, TaskInvStep, WireInvStep, VerdictInvStep, HeldOnceStep DEF Inv
<1>2. QED
  BY InitInv, <1>1, PTL DEF Spec

-----------------------------------------------------------------------------
(* Every variable keeps its type: attempts stay within the retry budgets.  *)
THEOREM TypeCorrect == Spec => []TypeOK
BY InvInductive, PTL DEF Inv

(* No message is lost or held twice, however connections and processes end. *)
THEOREM NoMessageLost == Spec => []EachMessageHeldOnce
BY InvInductive, PTL DEF Inv

(* A delivery held on the open connection is somebody's to confirm.        *)
THEOREM SlotsAreUsed == Spec => []NoOrphanedDelivery
BY InvInductive, PTL DEF Inv

(* An orderly shutdown cuts off no task and leaves nothing unconfirmed.    *)
THEOREM ShutdownIsGraceful == Spec => GracefulClose
<1> DEFINE Graceful == main = "waiting" /\ main' = "closed" =>
                           active = {} /\ \A d \in unacked : ~Open(d)
<1>1. Inv /\ [Next]_vars => [Graceful]_vars
  <2> SUFFICES ASSUME Inv, Next, main = "waiting", main' = "closed"
               PROVE  active = {} /\ \A d \in unacked : ~Open(d)
    OBVIOUS
  <2>1. CASE Close
    <3>1. active = {}
      BY <2>1 DEF Close, Inv, TaskInv
    <3>2. \A d \in wire : ~Open(d)
      BY <2>1 DEF Close
    <3>3. QED
      BY <3>1, <3>2 DEF Inv, NoOrphanedDelivery
  <2>2. CASE ~Close
    <3>1. ASSUME NEW d \in Delivery, Task(d) PROVE main' = main
      BY <3>1, TaskStep DEF Inv, mainVars
    <3>2. QED
      BY <2>2, <3>1 DEF Next, Deliver, Settle, Requeue, ConnectionLost, Reconnect, Signal,
                  CancelConsumer, CancelOk, Crash, EndProcess, Restart, mainVars
  <2>3. QED
    BY <2>1, <2>2
<1>2. QED
  BY InvInductive, <1>1, PTL DEF Spec, GracefulClose

-----------------------------------------------------------------------------
\* A handling that concludes adds its verdict to those of its message.
LEMMA ConcludeStep ==
    ASSUME Inv, NEW d \in Delivery, stage[d] = "processing", NEW v \in {"ack", "nack"},
           StartConfirm(d, v)
    PROVE  Verdicts' = [Verdicts EXCEPT ![d.msg] = @ \cup {v}]
<1> USE DEF Inv, TypeOK, Verdicts, StartConfirm
<1>1. verdict[d] = "none"
  BY DEF VerdictInv
<1>2. \A e \in Delivery : verdict'[e] = IF e = d THEN v ELSE verdict[e]
  OBVIOUS
<1>3. \A m \in Messages : Verdicts'[m] =
          IF m = d.msg THEN Verdicts[m] \cup {v} ELSE Verdicts[m]
  BY <1>1, <1>2
<1>4. QED
  BY <1>3, DeliveryParts

\* A confirmation the broker handles settles its message as its task decided.
LEMMA SettleStep ==
    ASSUME Inv, NEW d \in Delivery, Settle(d)
    PROVE  Queue!Settle(d.msg)
<1> USE DEF Inv, TypeOK
<1>1. d \in unacked /\ d.msg \in Messages
  BY DeliveryParts DEF Settle, WireInv
<1>2. d.msg \notin acked \cup dead
  BY <1>1 DEF EachMessageHeldOnce, Held
<1>3. verdict[d] \in Verdicts[d.msg]
  BY <1>1 DEF Settle, VerdictInv, Verdicts
<1>4. Status' = [Status EXCEPT ![d.msg] = verdict[d]]
  BY <1>1, <1>2 DEF Settle, Status
<1>5. UNCHANGED Verdicts
  BY DEF Settle, tasks, Verdicts
<1>6. QED
  BY <1>1, <1>2, <1>3, <1>4, <1>5 DEF Queue!Settle, Status

(* The consumer implements the abstract queue: a message leaves it at most *)
(* once, on a verdict some complete handling of it reached.                *)
THEOREM ServiceImplementsAtLeastOnce == Spec => ImplementsAtLeastOnce
<1>1. Init => Queue!Init
  BY DEF Init, Queue!Init, Status, Verdicts
<1>2. Inv /\ [Next]_vars => [Queue!Next]_Queue!vars
  <2> SUFFICES ASSUME Inv, [Next]_vars PROVE [Queue!Next]_Queue!vars
    OBVIOUS
  <2>1. UNCHANGED <<acked, dead>> => UNCHANGED Status
    BY DEF Status
  <2>2. UNCHANGED verdict => UNCHANGED Verdicts
    BY DEF Verdicts
  <2>3. ASSUME NEW d \in Delivery, Settle(d) PROVE Queue!Next
    BY <2>3, SettleStep, DeliveryParts DEF Queue!Next
  <2>4. ASSUME NEW d \in Delivery, Task(d) PROVE [Queue!Next]_Queue!vars
    <3>1. UNCHANGED Status
      BY <2>1, <2>4, TaskStep DEF Inv, broker
    <3>2. ASSUME NEW v \in {"ack", "nack"}, stage[d] = "processing", StartConfirm(d, v)
          PROVE  Queue!Next
      BY <3>1, <3>2, ConcludeStep, DeliveryParts DEF Queue!Next, Queue!Conclude
    <3>3. CASE UNCHANGED verdict
      BY <2>2, <3>1, <3>3 DEF Queue!vars
    <3>4. CASE ~UNCHANGED verdict
      BY <2>4, <3>2, <3>4 DEF Task, Succeed, FailForGood, FailAndRetry, ConfirmSent,
                              ConfirmFails
    <3>5. QED
      BY <3>3, <3>4
  <2>5. CASE /\ ~(\E d \in Delivery : Task(d) \/ Settle(d))
             /\ Next \/ UNCHANGED vars
    <3>1. UNCHANGED <<acked, dead, verdict>>
      BY <2>5 DEF Next, Deliver, Requeue, ConnectionLost, Reconnect, Signal, CancelConsumer,
                  CancelOk, Close, Crash, EndProcess, Restart, vars, broker, tasks
    <3>2. QED
      BY <2>1, <2>2, <3>1 DEF Queue!vars
  <2>6. QED
    BY <2>3, <2>4, <2>5
<1>3. QED
  BY InvInductive, <1>1, <1>2, PTL DEF Spec, ImplementsAtLeastOnce, Queue!Spec
=============================================================================
