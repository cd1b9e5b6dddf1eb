------------------------------ MODULE CmdbCall ------------------------------
(***************************************************************************)
(* One call of InstanceHandler._cmdb_call: the retry, recovery and         *)
(* reporting engine every CMDB operation of the handlers goes through.     *)
(* The CMDB may apply an operation and lose the reply, so a transport      *)
(* failure says nothing about whether the row landed; a selector, when the *)
(* caller gives one, looks for the row before the operation is repeated.   *)
(***************************************************************************)
EXTENDS Integers

CONSTANTS Attempts,   \* _cmdb_transport_attempts, before max(1, .)
          Shapes      \* the kinds of call made: a set of CallShape records

(***************************************************************************)
(* A call site.  insert: the operation adds a row (the others, select,     *)
(* update and delete, may be repeated freely).  selector: "exact" raises   *)
(* whenever its lookup fails; "lenient" is _attach_ip_selector, whose      *)
(* lookup is itself a _cmdb_call that answers None on a data error.        *)
(* unique: a constraint of the CMDB refuses a second such row.  raises:    *)
(* raise_on_data_error.  records: a FieldErrors was passed as errors.      *)
(***************************************************************************)
CallShape == [insert: BOOLEAN, selector: {"none", "exact", "lenient"},
              unique: BOOLEAN, raises: BOOLEAN, records: BOOLEAN]

ASSUME CallAssumption == Attempts \in Int /\ Shapes \subseteq CallShape

VARIABLES call,       \* the shape of this call
          pc,         \* "reselect", "op" or "done"
          attempt,    \* the loop variable of _cmdb_call
          commits,    \* how often the CMDB has applied the operation
          result,     \* how the call ended, "pending" until it does
          recorded    \* entries this call added to FieldErrors

vars == <<call, pc, attempt, commits, result, recorded>>

\* attempts = max(1, attempts)
Budget == IF Attempts > 1 THEN Attempts ELSE 1

\* "row": the operation's reply or the row the selector found; "nothing":
\* None; "permanent": _CmdbException; "transport" and "reselect": the
\* transport failure, or the selector's own exception, left to the caller.
Results == {"row", "nothing", "permanent", "transport", "reselect"}

Init ==
    /\ call \in Shapes
    /\ pc = "op" /\ attempt = 1
    /\ commits = 0 /\ result = "pending" /\ recorded = 0

Finish(how) == pc' = "done" /\ result' = how

\* Mutations of FailAttempt: the insert repeated without looking first; one
\* attempt too many.
RetryBlindly(how) ==
    \/ attempt >= Budget /\ Finish(how) /\ UNCHANGED attempt
    \/ attempt < Budget /\ attempt' = attempt + 1 /\ pc' = "op" /\ UNCHANGED result

RetryOnceMore(how) ==
    \/ attempt > Budget /\ Finish(how) /\ UNCHANGED attempt
    \/ attempt <= Budget /\ attempt' = attempt + 1 /\ pc' = "op" /\ UNCHANGED result

\* The tail of an attempt that got no usable answer: sleep and go round the
\* loop, or raise once the budget is spent.
FailAttempt(how) ==
    \/ /\ attempt >= Budget
       /\ Finish(how) /\ UNCHANGED attempt
    \/ /\ attempt < Budget
       /\ attempt' = attempt + 1
       /\ pc' = IF call.selector = "none" THEN "op" ELSE "reselect"
       /\ UNCHANGED result

\* The CMDB can still apply the operation: no unique key stands in the way.
CanApply == ~(call.insert /\ call.unique /\ commits > 0)

Applied == CanApply /\ commits' = commits + 1

OpReplies ==
    /\ pc = "op"
    /\ Applied
    /\ Finish("row")
    /\ UNCHANGED <<call, attempt, recorded>>

\* Mutation of OpTransportFailure: the outage goes into FieldErrors too.
RecordOutage ==
    /\ pc = "op"
    /\ Applied \/ UNCHANGED commits
    /\ FailAttempt("transport")
    /\ recorded' = IF call.records THEN 1 ELSE 0
    /\ UNCHANGED call

\* RequestException: the operation may have been applied all the same.
OpTransportFailure ==
    /\ pc = "op"
    /\ Applied \/ UNCHANGED commits
    /\ FailAttempt("transport")
    /\ UNCHANGED <<call, recorded>>

Report ==
    /\ recorded' = recorded + (IF call.records THEN 1 ELSE 0)
    /\ Finish(IF call.raises THEN "permanent" ELSE "nothing")

\* CMDBError: the CMDB refused the operation.
OpDataError ==
    /\ pc = "op"
    /\ Report
    /\ UNCHANGED <<call, attempt, commits>>

\* Anything else, such as the KeyError a 5xx surfaces as: reported like a
\* data error, though the operation may have been applied.
OpUnknownError ==
    /\ pc = "op"
    /\ Applied
    /\ Report
    /\ UNCHANGED <<call, attempt>>

\* Mutation of ReselectFinds: the lookup's answer returned without "is not None".
TrustReselect ==
    /\ pc = "reselect"
    /\ Finish("row")
    /\ UNCHANGED <<call, attempt, commits, recorded>>

ReselectFinds ==
    /\ pc = "reselect"
    /\ commits > 0
    /\ Finish("row")
    /\ UNCHANGED <<call, attempt, commits, recorded>>

ReselectMisses ==
    /\ pc = "reselect"
    /\ commits = 0
    /\ pc' = "op"
    /\ UNCHANGED <<call, attempt, commits, result, recorded>>

\* Mutations of ReselectRaises: the exception leaves the loop at once; the
\* failed lookup starts the budget afresh.
RaiseAtOnce ==
    /\ pc = "reselect"
    /\ Finish("reselect")
    /\ UNCHANGED <<call, attempt, commits, recorded>>

RestartBudget ==
    /\ pc = "reselect"
    /\ attempt' = 1
    /\ UNCHANGED <<call, pc, commits, result, recorded>>

\* The lookup raised: the next attempt repeats the lookup, not the insert.
ReselectRaises ==
    /\ pc = "reselect"
    /\ FailAttempt("reselect")
    /\ UNCHANGED <<call, commits, recorded>>

\* A data error inside the nested _cmdb_call of _find_attached_ip, made with
\* neither raise_on_data_error nor errors: None comes back, present or not.
ReselectSwallows ==
    /\ pc = "reselect"
    /\ call.selector = "lenient"
    /\ pc' = "op"
    /\ UNCHANGED <<call, attempt, commits, result, recorded>>

Next ==
    \/ OpReplies
    \/ OpTransportFailure
    \/ OpDataError
    \/ OpUnknownError
    \/ ReselectFinds
    \/ ReselectMisses
    \/ ReselectRaises
    \/ ReselectSwallows

Spec == Init /\ [][Next]_vars

\* A request ends in a reply or an exception and the event loop resumes the
\* coroutine: every enabled step of the call is eventually taken.
FairSpec == Spec /\ WF_vars(Next)

-----------------------------------------------------------------------------
TypeOK ==
    /\ call \in Shapes
    /\ pc \in {"reselect", "op", "done"}
    /\ attempt \in 1 .. Budget
    /\ commits \in Nat
    /\ result \in Results \cup {"pending"}
    /\ recorded \in 0 .. 1

(* "A blind retry could duplicate it: the insert may have committed with   *)
(* only the reply lost" (_recover_insert): however replies are lost and    *)
(* re-selects fail, one call puts at most one row in the CMDB.             *)
InsertedAtMostOnce == call.insert => commits <= 1

(* Every call site inserts under a selector that raises when it cannot     *)
(* look: true of create, and of attach's endpoint, not of attach's ip.     *)
ExactSelectors == \A s \in Shapes : s.insert => s.selector = "exact"

(* A permanent failure is reported once, in the place the caller chose,    *)
(* and an outage never is: FieldErrors gains an entry exactly when the     *)
(* call ends in None or _CmdbException, so that a transport failure cannot *)
(* turn a server's state to error and a None is never silent.              *)
OnlyRefusalsAreRecorded ==
    recorded = 1 <=> call.records /\ result \in {"nothing", "permanent"}

(* "A real outage is answered by the message-level retry": a call gives up *)
(* on an unreachable CMDB only after the whole budget, on both the path of *)
(* the operation and the path of the re-select.                            *)
SurrendersOnlyAfterBudget ==
    result \in {"transport", "reselect"} => attempt = Budget

(* A call as its callers see it: an insert lands at most once, and nothing *)
(* is handed back that is not there.  Of the operations that may be        *)
(* repeated only the first application counts.                             *)
Landed == IF call.insert \/ commits = 0 THEN commits ELSE 1

Once == INSTANCE InsertOnce
    WITH landed <- Landed,
         outcome <- IF result \in {"pending", "row"} THEN result ELSE "none"

ImplementsInsertOnce == Once!Spec

(* The budget bounds both kinds of retry, so every call comes back to its  *)
(* handler.                                                                *)
Terminates == <>(pc = "done")
=============================================================================
