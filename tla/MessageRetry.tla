---------------------------- MODULE MessageRetry ----------------------------
(***************************************************************************)
(* The insert of a create's server row under create_instances and          *)
(* handle_message: what becomes of the message when the call gives up.     *)
(* The message is reduced to that call; what its other calls do is in      *)
(* ServerLifecycle.                                                        *)
(***************************************************************************)
EXTENDS CmdbCall

CONSTANT MaxRetries    \* runs of process_message before giving up

VARIABLES run,       \* attempt of handle_message
          verdict    \* "none", "ack" or "nack"

retryVars == <<vars, run, verdict>>

RetryInit == Init /\ run = 1 /\ verdict = "none"

CallStep == Next /\ UNCHANGED <<run, verdict>>

Settle(how) == verdict' = how /\ UNCHANGED <<vars, run>>

\* process_message returned; a refused insert is caught by create_instances.
Returned == pc = "done" /\ result \in {"row", "nothing", "permanent"} /\ Settle("ack")

\* The KeyError or JSONDecodeError a re-select died of.
Aborted == pc = "done" /\ result = "reselect" /\ Settle("nack")

\* Any other exception: the message runs again, and the call with it, the row
\* being looked for or removed first; or the message is given up.
Retried ==
    /\ pc = "done" /\ result \in {"transport", "reselect"}
    /\ \/ /\ run < MaxRetries
          /\ run' = run + 1 /\ UNCHANGED <<call, verdict>>
          /\ pc' = "op" /\ attempt' = 1
          /\ commits' = 0 /\ result' = "pending" /\ recorded' = 0
       \/ run >= MaxRetries /\ Settle("nack")

RetryNext == verdict = "none" /\ (CallStep \/ Returned \/ Aborted \/ Retried)

RetrySpec == RetryInit /\ [][RetryNext]_retryVars

-----------------------------------------------------------------------------
(* "Transport budget exhausted; leaving it to the message-level retry": a  *)
(* create whose insert gave up on an outage is dead-lettered only after    *)
(* its last run.                                                           *)
OutageIsRetried == verdict = "nack" => run = MaxRetries
=============================================================================
