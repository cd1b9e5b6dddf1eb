--------------------------- MODULE CmdbCallProofs ---------------------------
(***************************************************************************)
(* Theorems about CmdbCall, for every budget and every set of call shapes. *)
(***************************************************************************)
EXTENDS CmdbCall, TLAPS

(* What holds at every step whatever the selector: a call that has not     *)
(* ended has recorded nothing, and how it ended explains what it recorded  *)
(* and how long it tried.                                                  *)
CallInv ==
    /\ TypeOK
    /\ result = "pending" <=> pc # "done"
    /\ OnlyRefusalsAreRecorded
    /\ SurrendersOnlyAfterBudget

(* What an exact selector adds: whenever the insert is about to be sent,   *)
(* no earlier attempt of this call has landed.                             *)
InsertInv ==
    call.insert => /\ commits <= 1
                   /\ pc = "op" => commits = 0

-----------------------------------------------------------------------------
\* The attempt budget is at least one, whatever the setting says.
LEMMA BudgetPositive == Budget \in Nat /\ Budget >= 1
BY CallAssumption DEF Budget

\* The tail of a failed attempt leaves a well-formed call behind.
LEMMA FailedAttempt ==
    ASSUME CallInv, pc # "done", NEW how \in {"transport", "reselect"},
           FailAttempt(how), UNCHANGED <<call, recorded>>, commits' \in Nat
    PROVE  CallInv'
<1> USE BudgetPositive DEF CallInv, TypeOK, Results, OnlyRefusalsAreRecorded,
                           SurrendersOnlyAfterBudget, Budget
<1>1. CASE attempt >= Budget /\ Finish(how) /\ UNCHANGED attempt
  BY <1>1 DEF Finish
<1>2. CASE /\ attempt < Budget
           /\ attempt' = attempt + 1
           /\ pc' = IF call.selector = "none" THEN "op" ELSE "reselect"
           /\ UNCHANGED result
  BY <1>2
<1>3. QED
  BY <1>1, <1>2 DEF FailAttempt

LEMMA CallInvInductive == Spec => []CallInv
<1>1. Init => CallInv
  BY BudgetPositive
     DEF Init, CallInv, TypeOK, Results, OnlyRefusalsAreRecorded,
         SurrendersOnlyAfterBudget
<1>2. CallInv /\ [Next]_vars => CallInv'
  <2> SUFFICES ASSUME CallInv, [Next]_vars
               PROVE  CallInv'
    OBVIOUS
  <2> USE CallAssumption
      DEF CallInv, TypeOK, Results, OnlyRefusalsAreRecorded,
          SurrendersOnlyAfterBudget, Finish, Budget
  <2>1. CASE OpReplies
    BY <2>1 DEF OpReplies, Applied
  <2>2. CASE OpTransportFailure
    <3>1. commits' \in Nat
      BY <2>2 DEF OpTransportFailure, Applied
    <3>2. QED
      BY <2>2, <3>1, FailedAttempt DEF OpTransportFailure
  <2>3. CASE OpDataError
    BY <2>3 DEF OpDataError, Report, CallShape
  <2>4. CASE OpUnknownError
    BY <2>4 DEF OpUnknownError, Report, Applied, CallShape
  <2>5. CASE ReselectFinds
    BY <2>5 DEF ReselectFinds
  <2>6. CASE ReselectMisses
    BY <2>6 DEF ReselectMisses
  <2>7. CASE ReselectRaises
    BY <2>7, FailedAttempt DEF ReselectRaises
  <2>8. CASE ReselectSwallows
    BY <2>8 DEF ReselectSwallows
  <2>9. CASE UNCHANGED vars
    BY <2>9 DEF vars
  <2>10. QED
    BY <2>1, <2>2, <2>3, <2>4, <2>5, <2>6, <2>7, <2>8, <2>9 DEF Next
<1>3. QED
  BY <1>1, <1>2, PTL DEF Spec

(* Every variable of a call stays in its range; in particular the loop     *)
(* never runs past the budget.                                             *)
THEOREM TypeCorrect == Spec => []TypeOK
BY CallInvInductive, PTL DEF CallInv

(* _cmdb_call adds an entry to FieldErrors exactly when it ends in None or *)
(* _CmdbException, for every budget and call shape.                        *)
THEOREM RefusalsRecorded == Spec => []OnlyRefusalsAreRecorded
BY CallInvInductive, PTL DEF CallInv

(* A transport failure reaches the message-level retry only when the whole *)
(* attempt budget is spent.                                                *)
THEOREM BudgetSpent == Spec => []SurrendersOnlyAfterBudget
BY CallInvInductive, PTL DEF CallInv

-----------------------------------------------------------------------------
LEMMA InsertInvInductive == ExactSelectors /\ Spec => []InsertInv
<1> SUFFICES ASSUME ExactSelectors
             PROVE  Spec => []InsertInv
  OBVIOUS
<1>1. Init => InsertInv
  BY DEF Init, InsertInv
<1>2. CallInv /\ InsertInv /\ [Next]_vars => InsertInv'
  <2> SUFFICES ASSUME CallInv, InsertInv, [Next]_vars
               PROVE  InsertInv'
    OBVIOUS
  <2>1. call.insert => call.selector = "exact"
    BY DEF CallInv, TypeOK, ExactSelectors
  <2> USE <2>1 DEF InsertInv, CallInv, TypeOK, Finish
  <2>2. CASE OpReplies
    BY <2>2 DEF OpReplies, Applied
  <2>3. CASE OpTransportFailure
    BY <2>3 DEF OpTransportFailure, Applied, FailAttempt
  <2>4. CASE OpDataError
    BY <2>4 DEF OpDataError, Report
  <2>5. CASE OpUnknownError
    BY <2>5 DEF OpUnknownError, Report, Applied
  <2>6. CASE ReselectFinds
    BY <2>6 DEF ReselectFinds
  <2>7. CASE ReselectMisses
    BY <2>7 DEF ReselectMisses
  <2>8. CASE ReselectRaises
    BY <2>8 DEF ReselectRaises, FailAttempt
  <2>9. CASE ReselectSwallows
    BY <2>9 DEF ReselectSwallows
  <2>10. CASE UNCHANGED vars
    BY <2>10 DEF vars
  <2>11. QED
    BY <2>2, <2>3, <2>4, <2>5, <2>6, <2>7, <2>8, <2>9, <2>10 DEF Next
<1>3. QED
  BY <1>1, <1>2, CallInvInductive, PTL DEF Spec

(* When every insert is made under a selector that raises when it cannot   *)
(* look, one call puts at most one row in the CMDB, for every budget.      *)
THEOREM InsertLandsOnce == ExactSelectors /\ Spec => []InsertedAtMostOnce
<1>1. InsertInv => InsertedAtMostOnce
  BY DEF InsertInv, InsertedAtMostOnce
<1>2. QED
  BY <1>1, InsertInvInductive, PTL

-----------------------------------------------------------------------------
(* What comes back to the caller is in the CMDB, in every state.           *)
RowInv == /\ result = "row" => commits >= 1
          /\ CallInv
          /\ InsertInv

LEMMA ExchangeStep ==
    ASSUME RowInv, RowInv', [Next]_vars
    PROVE  [Once!Next]_(Once!vars)
<1> DEFINE outcome == IF result \in {"pending", "row"} THEN result ELSE "none"
<1> USE DEF RowInv, InsertInv, CallInv, TypeOK, Results
<1>1. CASE UNCHANGED vars
  BY <1>1 DEF vars, Once!vars, Landed
<1>2. CASE Next /\ pc # "done"
  <2>1. result = "pending" /\ call' = call
    BY <1>2 DEF Next, OpReplies, OpTransportFailure, OpDataError, OpUnknownError,
         ReselectFinds, ReselectMisses, ReselectRaises, ReselectSwallows
  <2>2. commits' = commits \/ commits' = commits + 1
    BY <1>2 DEF Next, Applied, OpReplies, OpTransportFailure, OpDataError, OpUnknownError,
         ReselectFinds, ReselectMisses, ReselectRaises, ReselectSwallows
  <2>3. Once!Land \/ Landed' = Landed
    BY <2>1, <2>2 DEF Landed, Once!Land
  <2>4. outcome' = "row" => Landed' = 1
    BY <2>1, <2>2 DEF Landed
  <2>5. QED
    BY <2>1, <2>3, <2>4 DEF Once!Next, Once!Exchange
<1>3. Next => pc # "done"
  BY DEF Next, OpReplies, OpTransportFailure, OpDataError, OpUnknownError,
         ReselectFinds, ReselectMisses, ReselectRaises, ReselectSwallows
<1>4. QED
  BY <1>1, <1>2, <1>3

(* With exact selectors the engine implements InsertOnce: whatever is lost *)
(* or retried, a caller sees one row at most, and none that is not there.  *)
THEOREM CallImplementsInsertOnce == ExactSelectors /\ Spec => ImplementsInsertOnce
<1> SUFFICES ASSUME ExactSelectors
             PROVE  Spec => ImplementsInsertOnce
  OBVIOUS
<1> DEFINE RowThere == result = "row" => commits >= 1
<1>1. Init => RowThere /\ Once!Init
  BY DEF Init, Once!Init, Landed
<1>2. CallInv /\ RowThere /\ [Next]_vars => RowThere'
  <2> SUFFICES ASSUME CallInv, RowThere, [Next]_vars
               PROVE  RowThere'
    OBVIOUS
  <2> USE DEF CallInv, TypeOK, Finish
  <2>1. CASE OpReplies
    BY <2>1 DEF OpReplies, Applied
  <2>2. CASE ReselectFinds
    BY <2>2 DEF ReselectFinds
  <2>3. CASE OpTransportFailure
    BY <2>3 DEF OpTransportFailure, FailAttempt
  <2>4. CASE OpDataError \/ OpUnknownError
    BY <2>4 DEF OpDataError, OpUnknownError, Report
  <2>5. CASE ReselectMisses \/ ReselectRaises \/ ReselectSwallows
    BY <2>5 DEF ReselectMisses, ReselectRaises, ReselectSwallows, FailAttempt
  <2>6. CASE UNCHANGED vars
    BY <2>6 DEF vars
  <2>7. QED
    BY <2>1, <2>2, <2>3, <2>4, <2>5, <2>6 DEF Next
<1>3. Spec => []CallInv /\ []InsertInv
  BY CallInvInductive, InsertInvInductive
<1>4. CallInv /\ InsertInv /\ RowThere <=> RowInv
  BY DEF RowInv
<1>5. RowInv /\ RowInv' /\ [Next]_vars => [Once!Next]_(Once!vars)
  BY ExchangeStep
<1>6. QED
  BY <1>1, <1>2, <1>3, <1>4, <1>5, PTL DEF Spec, ImplementsInsertOnce, Once!Spec
=============================================================================
