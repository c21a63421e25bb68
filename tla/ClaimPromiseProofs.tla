------------------------- MODULE ClaimPromiseProofs -------------------------
(* ClaimWorkflow implements ClaimPromise, for every value of its constants. *)
EXTENDS ClaimWorkflowProofs

-----------------------------------------------------------------------------
(* The steps the promise allows, in the variables of the workflow          *)

\* The promise speaks of the same lifecycle.
LEMMA SameLifecycle == Promise!Lifecycle = Lifecycle
  BY DEF Promise!Lifecycle, Lifecycle, Promise!ClaimWorkflowStatus, ClaimWorkflowStatus

\* An abstract step or none
Kept == [Promise!Next]_(Promise!vars)

\* Nothing that can be seen from outside changes.
LEMMA Unseen ==
  ASSUME UNCHANGED <<dbStatus, record, paidKeys, outcome>>
  PROVE  Kept
  <1>1. Decided' = Decided /\ (outcome = "running")' = (outcome = "running")
    BY DEF Decided
  <1> QED BY <1>1 DEF Kept, Promise!vars

\* The row is written.
LEMMA RowWritten ==
  ASSUME outcome = "running", outcome' = "running", Decided' = Decided, paidKeys' = paidKeys,
         dbStatus' \in Lifecycle[dbStatus] \cup {dbStatus},
         dbStatus' \in PaidStatus /\ dbStatus' # dbStatus => paidKeys # {}
  PROVE  Kept
  <1>1. (outcome = "running")' = (outcome = "running")
    OBVIOUS
  <1>2. CASE dbStatus' = dbStatus
    BY <1>1, <1>2 DEF Kept, Promise!vars
  <1>3. CASE dbStatus' # dbStatus
    <2>1. Promise!Advance
      BY <1>3, SameLifecycle DEF Promise!Advance, Promise!Paid, PaidStatus
    <2>2. Promise!Move
      BY <1>1, <2>1 DEF Promise!Move
    <2> QED BY <2>2 DEF Kept, Promise!Next
  <1> QED BY <1>2, <1>3

\* The run ends.
LEMMA RunEnded ==
  ASSUME outcome = "running", outcome' # "running", Decided' = Decided, paidKeys' = paidKeys,
         dbStatus' \in Lifecycle[dbStatus] \cup {dbStatus},
         dbStatus' \in PaidStatus /\ dbStatus' # dbStatus => paidKeys # {}
  PROVE  Kept
  <1>1. (outcome = "running")' = FALSE
    OBVIOUS
  <1>2. Promise!Advance \/ dbStatus' = dbStatus
    BY SameLifecycle DEF Promise!Advance, Promise!Paid, PaidStatus
  <1>3. Promise!End
    BY <1>1, <1>2 DEF Promise!End
  <1> QED BY <1>3 DEF Kept, Promise!Next

\* Money leaves.
LEMMA MoneyLeft ==
  ASSUME outcome = "running", UNCHANGED <<outcome, record, dbStatus>>,
         NEW key \in {0} \cup InstallmentNumbers, NEW amount, Transfer(key, amount),
         Decided = "pay", dbStatus \in PaidStatus \cup {"FINANCE_REVIEW"},
         0 \notin paidKeys, key = 0 => paidKeys = {}
  PROVE  Kept
  <1>1. CASE key \in paidKeys
    BY <1>1, Unseen DEF Transfer, money
  <1>2. CASE key \notin paidKeys
    <2>1. /\ (outcome = "running")' = (outcome = "running") /\ Decided' = Decided
          /\ paidKeys' = paidKeys \cup {key}
      BY <1>2 DEF Decided, Transfer
    <2>2. Promise!Pay(key)
      BY <1>2, <2>1 DEF Promise!Pay, Promise!Paid, PaidStatus
    <2> QED BY <2>2 DEF Kept, Promise!Next
  <1> QED BY <1>1, <1>2

\* Finance decides.
LEMMA FinanceDecided ==
  ASSUME outcome = "running", UNCHANGED <<outcome, dbStatus, paidKeys>>,
         dbStatus = "FINANCE_REVIEW", record.finance = None.finance,
         record'.finance # None.finance
  PROVE  Kept
  <1>1. /\ (outcome = "running")' = (outcome = "running")
        /\ Decided = "none" /\ Decided' \in {"reject", "pay"}
    BY DEF Decided
  <1>2. Promise!Decide
    BY <1>1 DEF Promise!Decide
  <1> QED BY <1>2 DEF Kept, Promise!Next

\* Another gate's record is not finance's.
LEMMA OtherRecorded ==
  ASSUME TypeOK, NEW g \in Gates \ {"finance"}, record' = [record EXCEPT ![g] = arg[g]]
  PROVE  Decided' = Decided
  <1>1. record'.finance = record.finance
    BY DEF TypeOK, Decisions, Gates
  <1> QED BY <1>1 DEF Decided

\* A decision that pays is on record when money is about to leave.
LEMMA PayingDecided ==
  ASSUME Inv, pc \in Paying
  PROVE  Decided = "pay"
  <1>1. record.finance.decision \notin {None.finance.decision, "REJECT"}
    BY DEF Inv, GateInv, RecordInv
  <1>2. record.finance # None.finance /\ FinancePasses(record.finance)
    BY <1>1 DEF FinancePasses
  <1> QED BY <1>2 DEF Decided

\* The installment the loop is at has a number of its decision.
LEMMA NumberNamed ==
  ASSUME Inv, pc = "disburseInstallment"
  PROVE  /\ installments[next].no \in InstallmentNumbers
         /\ installments[next].no # 0 /\ installments # <<>>
  <1>1. /\ next \in DOMAIN installments /\ installments[next].no # 0
        /\ installments # <<>>
    BY InstallmentDue DEF Inv
  <1>2. PICK p \in FinanceDecisions : installments = p.installments
    BY <1>1 DEF Inv, StageInv, PayoutInv
  <1>3. installments[next].no \in {p.installments[i].no : i \in DOMAIN p.installments}
    BY <1>1, <1>2
  <1>4. installments[next].no \in InstallmentNumbers
    BY <1>2, <1>3 DEF InstallmentNumbers
  <1> QED BY <1>1, <1>4

\* Every step of the workflow is a step of the promise, or none that is seen.
LEMMA StepPromise == Inv /\ [Next]_vars => Kept
  <1> SUFFICES ASSUME Inv, [Next]_vars PROVE Kept
    OBVIOUS
  <1> USE DEF Inv, StageInv, StatusAt, RowInv, PayoutInv, TypeInv, GateStatuses, PaidStatus,
        Await, SetStatus, OrWithdraw, Close, End, ControlStep, payout, closing, signals, rows,
        money, gating, GateStatus
  <1>1. CASE StatusWritten
    <2>1. /\ outcome = "running" /\ UNCHANGED <<outcome, record, paidKeys>>
          /\ dbStatus' = status
          /\ status \in Lifecycle[dbStatus] \cup {dbStatus}
      BY <1>1 DEF StatusWritten
    <2>2. Decided' = Decided
      BY <2>1 DEF Decided
    <2> QED BY <2>1, <2>2, RowWritten
  <1>2. CASE RejectedWritten
    <2>1. /\ outcome = "running" /\ UNCHANGED <<outcome, record, paidKeys>>
          /\ dbStatus' = status
          /\ status \in Lifecycle[dbStatus] \cup {dbStatus}
      BY <1>2 DEF RejectedWritten
    <2>2. Decided' = Decided
      BY <2>1 DEF Decided
    <2> QED BY <2>1, <2>2, RowWritten
  <1>3. CASE ClosedWritten
    <2>1. /\ outcome = "running" /\ UNCHANGED <<record, paidKeys>>
          /\ dbStatus' = "CLOSED" /\ outcome' \in {"running", "completed"}
          /\ dbStatus' \in Lifecycle[dbStatus] \cup {dbStatus}
      BY <1>3 DEF ClosedWritten
    <2>2. Decided' = Decided
      BY <2>1 DEF Decided
    <2> QED BY <2>1, <2>2, RowWritten, RunEnded
  <1>4. CASE WithdrawnWritten
    <2>1. /\ outcome = "running" /\ UNCHANGED <<record, paidKeys>>
          /\ dbStatus' = "WITHDRAWN" /\ outcome' = "completed"
          /\ dbStatus' \in Lifecycle[dbStatus] \cup {dbStatus}
      BY <1>4 DEF WithdrawnWritten
    <2>2. Decided' = Decided
      BY <2>1 DEF Decided
    <2> QED BY <2>1, <2>2, RunEnded
  <1>5. CASE Validated
    BY <1>5, Unseen DEF Validated
  <1>6. CASE ValidationFailureNotified
    BY <1>6, Unseen DEF ValidationFailureNotified
  <1>7. CASE FraudRulesEvaluated
    BY <1>7, Unseen DEF FraudRulesEvaluated
  <1>8. CASE InvestigationStarted
    BY <1>8, Unseen DEF InvestigationStarted
  <1>9. CASE InvestigationOver
    BY <1>9, Unseen DEF InvestigationOver
  <1>10. CASE FraudReviewRecorded
    <2>1. Decided' = Decided
      BY <1>10, OtherRecorded DEF FraudReviewRecorded, Recorded, Gates
    <2>2. outcome = "running" /\ UNCHANGED <<outcome, dbStatus, paidKeys>>
      BY <1>10 DEF FraudReviewRecorded, Recorded
    <2> QED BY <2>1, <2>2, RowWritten
  <1>11. CASE AssessmentRecorded
    <2>1. Decided' = Decided
      BY <1>11, OtherRecorded DEF AssessmentRecorded, Recorded, Gates
    <2>2. outcome = "running" /\ UNCHANGED <<outcome, dbStatus, paidKeys>>
      BY <1>11 DEF AssessmentRecorded, Recorded
    <2> QED BY <2>1, <2>2, RowWritten
  <1>12. CASE PayoutRequestCreated
    BY <1>12, Unseen DEF PayoutRequestCreated
  <1>13. CASE FinanceApprovalRecorded
    <2>1. /\ pc = "recordDecision" /\ status = "FINANCE_REVIEW" /\ dbStatus = status
          /\ outcome = "running" /\ UNCHANGED <<outcome, dbStatus, paidKeys>>
          /\ record' = [record EXCEPT !["finance"] = arg["finance"]]
      BY <1>13 DEF FinanceApprovalRecorded, Recorded
    <2>2. record.finance = None.finance
      BY <2>1 DEF BeforeFinance
    <2>3. record'.finance # None.finance
      BY <2>1 DEF GateInv, ArgInv, Gates, TypeOK, Decisions
    <2> QED BY <2>1, <2>2, <2>3, FinanceDecided
  <1>14. CASE DueDateReached
    BY <1>14, Unseen DEF DueDateReached
  <1>15. CASE InstallmentDisbursed
    <2>1. /\ pc = "disburseInstallment" /\ dbStatus \in PaidStatus \cup {"FINANCE_REVIEW"}
          /\ outcome = "running" /\ UNCHANGED <<outcome, dbStatus, record>>
          /\ Transfer(installments[next].no, installments[next].amount)
      BY <1>15 DEF InstallmentDisbursed
    <2>2. Decided = "pay"
      BY <2>1, PayingDecided DEF Paying
    <2>3. 0 \notin paidKeys
      BY <2>1, NumberNamed
    <2> QED BY <2>1, <2>2, <2>3, NumberNamed, MoneyLeft
  <1>16. CASE InstallmentFailed
    BY <1>16, Unseen DEF InstallmentFailed
  <1>17. CASE FullPayoutDisbursed
    <2>1. /\ pc = "disburseFull" /\ dbStatus = "FINANCE_REVIEW" /\ paidKeys = {}
          /\ outcome = "running" /\ UNCHANGED <<outcome, dbStatus, record>>
          /\ Transfer(0, amountArg)
      BY <1>17 DEF FullPayoutDisbursed
    <2>2. Decided = "pay"
      BY <2>1, PayingDecided DEF Paying
    <2> QED BY <2>1, <2>2, MoneyLeft
  <1>18. CASE FullPayoutFailed
    BY <1>18, Unseen DEF FullPayoutFailed
  <1>19. CASE PaidNotified
    BY <1>19, Unseen DEF PaidNotified
  <1>20. CASE ReopenExpired
    <2>1. /\ outcome = "running" /\ outcome' = "completed"
          /\ UNCHANGED <<record, paidKeys, dbStatus>>
      BY <1>20 DEF ReopenExpired
    <2>2. Decided' = Decided
      BY <2>1 DEF Decided
    <2> QED BY <2>1, <2>2, RunEnded
  <1>21. CASE ClaimReopened
    <2>1. /\ outcome = "running" /\ outcome' = "completed"
          /\ UNCHANGED <<record, paidKeys>> /\ dbStatus = "CLOSED" /\ dbStatus' = "REOPENED"
      BY <1>21 DEF ClaimReopened
    <2>2. Decided' = Decided
      BY <2>1 DEF Decided
    <2> QED BY <2>1, <2>2, RunEnded, Edges
  <1>22. CASE ActivityThrows
    <2>1. outcome = "running" /\ outcome' = outcome
      BY <1>22 DEF ActivityThrows, Activities
    <2>2. CASE UNCHANGED <<dbStatus, rows, money>>
      BY <2>1, <2>2, Unseen
    <2>3. CASE pc = "updateClaimStatus" /\ dbStatus' = status /\ UNCHANGED <<rows, money>>
      <3>1. Decided' = Decided
        BY <2>3 DEF Decided
      <3> QED BY <2>1, <2>3, <3>1, RowWritten
    <2>4. CASE pc = "reopenClaim" /\ dbStatus' = "REOPENED" /\ UNCHANGED <<rows, money>>
      <3>1. Decided' = Decided
        BY <2>4 DEF Decided
      <3> QED BY <2>1, <2>4, <3>1, RowWritten, Edges
    <2>5. ASSUME NEW g \in Gates, pc = "recordDecision", status = GateStatus[g],
                 record' = [record EXCEPT ![g] = arg[g]], UNCHANGED <<dbStatus, money>>
          PROVE  Kept
      <3>1. CASE g = "finance"
        <4>1. record.finance = None.finance /\ dbStatus = "FINANCE_REVIEW"
          BY <2>5, <3>1 DEF BeforeFinance
        <4>2. record'.finance # None.finance
          BY <2>5, <3>1 DEF GateInv, ArgInv, Gates, TypeOK, Decisions
        <4> QED BY <2>1, <2>5, <4>1, <4>2, FinanceDecided
      <3>2. CASE g # "finance"
        <4>1. Decided' = Decided
          <5>1. g \in Gates \ {"finance"} /\ record' = [record EXCEPT ![g] = arg[g]]
            BY <2>5, <3>2
          <5> QED BY <5>1, OtherRecorded, Zenon DEF TypeInv, Inv
        <4> QED BY <2>1, <2>5, <4>1, RowWritten
      <3> QED BY <3>1, <3>2
    <2>6. CASE UNCHANGED <<record, dbStatus, money>>
      BY <2>1, <2>6, Unseen
    <2>7. CASE pc = "disburseInstallment" /\ UNCHANGED <<dbStatus, rows>>
               /\ Transfer(installments[next].no, installments[next].amount)
      <3>1. Decided = "pay" /\ dbStatus \in PaidStatus \cup {"FINANCE_REVIEW"}
        BY <2>7, PayingDecided DEF Paying
      <3>2. 0 \notin paidKeys
        BY <2>7, NumberNamed
      <3> QED BY <2>1, <2>7, <3>1, <3>2, NumberNamed, MoneyLeft
    <2>8. CASE pc = "disburseFull" /\ UNCHANGED <<dbStatus, rows>> /\ Transfer(0, amountArg)
      <3>1. Decided = "pay" /\ dbStatus = "FINANCE_REVIEW" /\ paidKeys = {}
        BY <2>8, PayingDecided DEF Paying
      <3> QED BY <2>1, <2>8, <3>1, MoneyLeft
    <2> QED BY <1>22, <2>2, <2>3, <2>4, <2>5, <2>6, <2>7, <2>8 DEF ActivityThrows, Effect
  <1>23. CASE Compensated
    <2>1. /\ outcome = "running" /\ outcome' = "failed"
          /\ UNCHANGED <<record, paidKeys>> /\ dbStatus' \in {"WITHDRAWN", dbStatus}
      BY <1>23 DEF Compensated
    <2>2. Decided' = Decided
      BY <2>1 DEF Decided
    <2> QED BY <2>1, <2>2, RunEnded, Edges DEF TypeOK
  <1>24. ASSUME NEW g \in Gates, ReviewersNotified(g) PROVE Kept
    BY <1>24, Unseen DEF ReviewersNotified
  <1>25. ASSUME NEW g \in Gates, DecisionReceived(g) PROVE Kept
    BY <1>25, Unseen DEF DecisionReceived
  <1>26. ASSUME NEW g \in Gates, WithdrawnAtGate(g) PROVE Kept
    BY <1>26, Unseen DEF WithdrawnAtGate
  <1>27. ASSUME NEW g \in Gates, GateTimedOut(g) PROVE Kept
    BY <1>27, Unseen DEF GateTimedOut
  <1>28. CASE InvestigationCompleteSignal
    BY <1>28, Unseen DEF InvestigationCompleteSignal, SignalFrame
  <1>29. CASE ReopenClaimSignal
    BY <1>29, Unseen DEF ReopenClaimSignal, SignalFrame
  <1>30. CASE WithdrawClaimSignal
    BY <1>30, Unseen DEF WithdrawClaimSignal, SignalFrame
  <1>31. CASE ExecutionTimedOut
    <2>1. /\ outcome = "running" /\ outcome' = "timedOut"
          /\ UNCHANGED <<record, paidKeys, dbStatus>>
      BY <1>31 DEF ExecutionTimedOut
    <2>2. Decided' = Decided
      BY <2>1 DEF Decided
    <2> QED BY <2>1, <2>2, RunEnded
  <1>32. CASE UNCHANGED vars
    BY <1>32, Unseen DEF vars
  <1>33. ASSUME NEW g \in Gates, DecisionSignal(g) PROVE Kept
    BY <1>33, Unseen DEF DecisionSignal, SignalFrame
  <1> QED BY <1>1, <1>2, <1>3, <1>4, <1>5, <1>6, <1>7, <1>8, <1>9, <1>10, <1>11,
           <1>12, <1>13, <1>14, <1>15, <1>16, <1>17, <1>18, <1>19, <1>20, <1>21,
           <1>22, <1>23, <1>24, <1>25, <1>26, <1>27, <1>28, <1>29, <1>30, <1>31,
           <1>32, <1>33
           DEF Next, Step, Signal, GateStep

-----------------------------------------------------------------------------
\* The initial states are the promise's.
LEMMA InitPromise == Init => Promise!Init
  <1> SUFFICES ASSUME Init PROVE Promise!Init
    OBVIOUS
  <1>1. Decided = "none" /\ (outcome = "running") = TRUE
    BY DEF Init, Decided
  <1> QED BY <1>1 DEF Init, Promise!Init

\* Every run of the claim workflow, for any payloads, schedules, signals, failures and
\* timeouts, is a run of ClaimPromise: what its awaits and retries hide changes nothing
\* that the claim's row, the recorded finance decision and the transfers can show.
THEOREM ImplementsPromise == Spec => KeepsPromise
  <1>1. Init => Inv
    BY InitTypeInv, InitSafety, InitStage DEF Inv
  <1>2. Inv /\ [Next]_vars => Inv'
    BY StepType, StepGate, StepStage DEF Inv
  <1>3. Init => Promise!Init
    BY InitPromise
  <1>4. Inv /\ [Next]_vars => [Promise!Next]_(Promise!vars)
    BY StepPromise DEF Kept
  <1> QED BY <1>1, <1>2, <1>3, <1>4, PTL DEF Spec, KeepsPromise, Promise!Spec
=============================================================================
