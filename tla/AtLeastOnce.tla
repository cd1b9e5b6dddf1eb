----------------------------- MODULE AtLeastOnce -----------------------------
(***************************************************************************)
(* What the consumer promises about a message: it leaves the queue once,   *)
(* either acknowledged or dead-lettered, and only on a verdict that some   *)
(* complete handling of it has reached.  A message may be handled several  *)
(* times, and the handlings need not agree.                                *)
(***************************************************************************)
EXTENDS Naturals

CONSTANT Messages

VARIABLES status,     \* "queued", "ack" or "nack" (dead-lettered), by message
          verdicts    \* the verdicts the handlings of a message have reached

vars == <<status, verdicts>>

Init ==
    /\ status = [m \in Messages |-> "queued"]
    /\ verdicts = [m \in Messages |-> {}]

\* A handling runs to its end, possibly of a message already settled.
Conclude(m) ==
    /\ \E v \in {"ack", "nack"} :
            verdicts' = [verdicts EXCEPT ![m] = @ \cup {v}]
    /\ UNCHANGED status

Settle(m) ==
    /\ status[m] = "queued"
    /\ \E v \in verdicts[m] : status' = [status EXCEPT ![m] = v]
    /\ UNCHANGED verdicts

Next == \E m \in Messages : Conclude(m) \/ Settle(m)

Spec == Init /\ [][Next]_vars
=============================================================================
