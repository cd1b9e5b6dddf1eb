---------------------------- MODULE HandlerTasks ----------------------------
(***************************************************************************)
(* What every handler of InstanceHandler shares.  A task works on one      *)
(* message and is at one CMDB call; other tasks run whenever it awaits     *)
(* one.  A call answers, is refused for good, or fails in transport with   *)
(* its operation applied or not; CmdbCall models the engine that retries   *)
(* it, here any number of retries fits, since the budget is a setting.     *)
(***************************************************************************)
EXTENDS Cmdb

CONSTANTS Tasks,        \* one per message in hand
          Body,         \* the message of each task: a record with a kind
          Prefetch,     \* how many tasks run at the same time
          MaxRetries,   \* runs of process_message before giving up
          Faults        \* bound: transport failures, refusals and crashes

ASSUME TasksAssumption ==
    /\ Prefetch \in Nat \ {0} /\ MaxRetries \in Nat \ {0} /\ Faults \in Nat
    /\ DOMAIN Body = Tasks

VARIABLES pc,       \* "queued", the call a task is at, "acked" or "dead"
          run,      \* the attempt of handle_message a task is in
          faults    \* faults still to come

tasks == <<pc, run, faults>>

Ended == {"queued", "acked", "dead"}

Busy == {t \in Tasks : pc[t] \notin Ended}

GoTo(t, step) == pc' = [pc EXCEPT ![t] = step]

\* A message is delivered and process_message starts it at its first call.
Begin(t, first) ==
    /\ pc[t] = "queued" /\ Cardinality(Busy) < Prefetch
    /\ GoTo(t, first)
    /\ run' = [run EXCEPT ![t] = 1]
    /\ UNCHANGED <<cmdb, faults>>

Fault == faults > 0 /\ faults' = faults - 1

\* Mutation of Rerun: one run too many.
RerunOnceMore(t, first) ==
    IF run[t] <= MaxRetries THEN GoTo(t, first) /\ run' = [run EXCEPT ![t] = @ + 1]
    ELSE GoTo(t, "dead") /\ UNCHANGED run

\* The transport failure left to the message-level retry: process_message
\* runs again from its first call, or the message is dead-lettered.
Rerun(t, first) ==
    IF run[t] < MaxRetries THEN GoTo(t, first) /\ run' = [run EXCEPT ![t] = @ + 1]
    ELSE GoTo(t, "dead") /\ UNCHANGED run

\* _CmdbException leaves the handler: straight to the dead-letter queue.
Refused(t) == GoTo(t, "dead") /\ UNCHANGED run

\* The call's reply arrives and takes the handler to its next call.
Reply(t, next) == GoTo(t, next) /\ UNCHANGED <<run, faults>>

\* A call gets no usable reply: it goes on at step again, or the run is over.
\* handle_message does not run the message again when what is left of the
\* outage is a KeyError or a JSONDecodeError.
Interrupted(t, again, first) ==
    /\ Fault
    /\ \/ GoTo(t, again) /\ UNCHANGED run
       \/ Rerun(t, first)
       \/ Refused(t)

\* The process dies; what was not settled is delivered anew.  (When only the
\* connection drops, the tasks run on beside those of the redeliveries: that
\* is two tasks with one message.)
Crash ==
    /\ Fault /\ Busy # {}
    /\ pc' = [t \in Tasks |-> IF t \in Busy THEN "queued" ELSE pc[t]]
    /\ UNCHANGED <<cmdb, run>>

\* The ack of a finished message is lost: it is delivered once more.
AckLost(t) ==
    /\ pc[t] = "acked" /\ Fault
    /\ GoTo(t, "queued")
    /\ UNCHANGED <<cmdb, run>>
=============================================================================
