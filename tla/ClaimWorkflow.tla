--------------------------- MODULE ClaimWorkflow ---------------------------
(***************************************************************************)
(* The Temporal workflow that drives one claim:                            *)
(* src/src/temporal/workflows/claim.workflow.ts.                           *)
(*                                                                         *)
(* The workflow is a single-threaded coroutine.  Between two awaits its    *)
(* code runs without interruption, so one action is "the awaited activity, *)
(* condition or timer resolves, and the code runs up to the next await".   *)
(* pc names what is awaited.  Signals are handled at any moment of the     *)
(* run: a handler only overwrites its buffer.                              *)
(*                                                                         *)
(* Activities run outside the workflow, at least once: each completes, or  *)
(* throws after its retries with its effect done or not done.  What they   *)
(* write (the claim row, the review rows, the money) is part of the state. *)
(* disburseFunds is taken to move money once per idempotency key.          *)
(***************************************************************************)
EXTENDS Integers, Sequences, ClaimLifecycle

CONSTANTS
    FraudDecisions,     \* decisions a fraudReviewDecision signal may carry
    Nets,               \* netPayout of a claimAssessment signal (0: zero or less)
    FinanceDecisions,   \* payloads of a financeApproval signal
    MaxReopenCounts     \* values of input.maxReopenCount

FraudReviewDecision == {"CLEAR", "REJECT", "REFER_TO_INVESTIGATION", "ESCALATE"}

FinanceDecision == {"APPROVE_FULL", "APPROVE_PARTIAL", "REJECT", "ESCALATE"}

\* An absent approvedAmount (the code's undefined).  Amounts are in cents.
NoAmount == -1

Installment == [no : Nat \ {0}, amount : Nat]

FinanceApprovalPayload ==
    [decision : FinanceDecision,
     approvedAmount : Nat \cup {NoAmount},
     installments : Seq(Installment)]

ASSUME ConstantsAssumption ==
    /\ FraudDecisions \subseteq FraudReviewDecision
    /\ Nets \subseteq Nat
    /\ FinanceDecisions \subseteq FinanceApprovalPayload
    /\ MaxReopenCounts \subseteq Nat

\* The three points at which people decide, with the status the claim has there, what
\* their signal carries, and an empty signal buffer or missing row (the code's null).
Gates == {"fraud", "assessment", "finance"}

GateStatus ==
    [fraud |-> "FRAUD_REVIEW", assessment |-> "ASSESSMENT", finance |-> "FINANCE_REVIEW"]

Payloads ==
    [fraud |-> FraudDecisions, assessment |-> Nets, finance |-> FinanceDecisions]

None ==
    [fraud |-> "none", assessment |-> -1,
     finance |-> [decision |-> "none", approvedAmount |-> NoAmount, installments |-> <<>>]]

Activities ==
    {"updateClaimStatus", "validate", "evaluateFraudRules", "startInvestigation",
     "notifyStakeholder", "recordDecision", "createPayoutRequest",
     "disburseInstallment", "disburseFull", "notifyPaid", "reopenClaim"}

Waits == {"awaitInvestigation", "awaitDecision", "awaitDueDate", "awaitReopen"}

VARIABLES
    input,               \* the workflow input: maxReopenCount, partialPayoutEnabled
    pc,                  \* what the workflow awaits
    outcome,             \* how the execution ended, or "running"
    \* ClaimWorkflowState and the locals that outlive an await
    status, isFraudEscalated, totalPaid, reopenCount,
    arg,                 \* per gate, the decision handed to the record activity in flight
    installments,        \* the schedule being disbursed; empty for a full payout
    next,                \* the installment the loop is at
    amountArg,           \* the amount handed to disburseFunds for a full payout
    reopenArg,           \* the reopenPayload argument of handleCloseAndPossibleReopen
    \* signal buffers
    decision, investigationResult, reopenPayload, withdrawPayload,
    \* what the activities wrote
    dbStatus, record, payoutRequested,
    paidKeys,            \* idempotency keys transferred; 0 is the full payout's
    moneyOut,            \* money that left
    \* history: never read by the workflow
    asked,               \* gates whose reviewers were notified
    accepted,            \* gates whose decision the workflow took
    stale,               \* gates whose buffer was filled before the gate was asked
    overtaken,           \* another decision was signalled after one was accepted at its gate
    withdrawnInTime,     \* withdrawal was signalled before a finance decision was accepted
    transfersAfterWithdrawal

signals == <<decision, investigationResult, reopenPayload, withdrawPayload>>
money   == <<paidKeys, moneyOut, transfersAfterWithdrawal>>
payout  == <<totalPaid, installments, next, amountArg>>
closing == <<outcome, reopenCount, reopenArg>>
gating  == <<asked, accepted, stale, overtaken, withdrawnInTime>>
rows    == <<record, payoutRequested>>

vars == <<input, pc, status, isFraudEscalated, payout, closing, arg, signals,
          dbStatus, rows, money, gating>>

Init ==
    /\ input \in [maxReopenCount : MaxReopenCounts, partialPayoutEnabled : BOOLEAN]
    /\ pc = "updateClaimStatus" /\ status = "VALIDATION_PENDING"
    /\ outcome = "running" /\ reopenCount = 0 /\ reopenArg = FALSE
    /\ isFraudEscalated = FALSE
    /\ totalPaid = 0 /\ installments = <<>> /\ next = 1 /\ amountArg = 0
    /\ decision = None /\ arg = None /\ record = None
    /\ investigationResult = FALSE /\ reopenPayload = FALSE /\ withdrawPayload = FALSE
    /\ dbStatus = "SUBMITTED" /\ payoutRequested = FALSE
    /\ paidKeys = {} /\ moneyOut = 0 /\ transfersAfterWithdrawal = 0
    /\ asked = {} /\ accepted = {} /\ stale = {}
    /\ overtaken = FALSE /\ withdrawnInTime = FALSE

-----------------------------------------------------------------------------
(* Helpers.  A Fault... operator is the definition that follows it with a mistake in   *)
(* it; nothing refers to one, the mutation checks put it in place.                     *)

Await(l) == pc' = l

\* state.status = s; await updateClaimStatus(...)
SetStatus(s) == status' = s /\ Await("updateClaimStatus")

\* if (await checkWithdrawn()) return ...; otherwise the code goes on to await l
OrWithdraw(l) ==
    IF withdrawPayload THEN SetStatus("WITHDRAWN")
                       ELSE Await(l) /\ UNCHANGED status

\* handleCloseAndPossibleReopen is called: reopenPayload is passed by value
Close == SetStatus("CLOSED") /\ reopenArg' = reopenPayload /\ UNCHANGED <<outcome, reopenCount>>

End(o) == outcome' = o /\ Await("ended") /\ UNCHANGED reopenArg

FaultFraudPasses(d) == d # "REJECT"

FraudPasses(d) == d \notin {"REJECT", "ESCALATE"}

FaultFinancePasses(p) == TRUE

FinancePasses(p) == p.decision # "REJECT"

FaultIsPartialPayout(p) == input.partialPayoutEnabled /\ p.decision = "APPROVE_FULL"

IsPartialPayout(p) ==
    /\ input.partialPayoutEnabled
    /\ p.decision = "APPROVE_PARTIAL"
    /\ p.installments # <<>>

FaultAmountDue(p, net) == p.approvedAmount

\* approvedAmount ?? netPayout
AmountDue(p, net) == IF p.approvedAmount # NoAmount THEN p.approvedAmount ELSE net

\* The code's 0.01
Tolerance == 1

\* disburseFunds: money moves unless the key has moved it before.
Transfer(key, amount) ==
    IF key \in paidKeys THEN UNCHANGED money
    ELSE /\ paidKeys' = paidKeys \cup {key}
         /\ moneyOut' = moneyOut + amount
         /\ transfersAfterWithdrawal' =
                transfersAfterWithdrawal + (IF withdrawPayload THEN 1 ELSE 0)

\* Top of the installment loop, and what follows it: a withdrawal is honoured between
\* two installments, and a due date in the future is slept for.
Installments(seq, i) ==
    IF i > Len(seq) THEN Await("notifyPaid") /\ UNCHANGED status
    ELSE IF withdrawPayload THEN SetStatus("WITHDRAWN")
    ELSE /\ pc' \in {"awaitDueDate", "disburseInstallment"}
         /\ UNCHANGED status

\* A step that changes nothing but pc, status and the claim row
ControlStep ==
    UNCHANGED <<input, isFraudEscalated, payout, closing, arg, signals, rows, money, gating>>

-----------------------------------------------------------------------------
(* The claim row is written                                                *)

\* Where the run goes on after updateClaimStatus, by the status just written
StatusWritten ==
    /\ pc = "updateClaimStatus" /\ dbStatus' = status
    /\ \/ status = "VALIDATION_PENDING" /\ OrWithdraw("validate")
       \/ status = "VALIDATION_FAILED" /\ Await("notifyStakeholder") /\ UNCHANGED status
       \/ status = "UNDER_INVESTIGATION" /\ OrWithdraw("startInvestigation")
       \/ status = "FRAUD_REVIEW" /\ Await("notifyStakeholder") /\ UNCHANGED status
       \/ status = "ASSESSMENT" /\ OrWithdraw("notifyStakeholder")
       \/ status = "APPROVED" /\ SetStatus("FINANCE_REVIEW")
       \/ status = "FINANCE_REVIEW" /\ OrWithdraw("createPayoutRequest")
       \/ status \in {"PARTIALLY_PAID", "PAID"} /\ Installments(installments, next)
    /\ ControlStep

RejectedWritten ==
    /\ pc = "updateClaimStatus" /\ status = "REJECTED" /\ dbStatus' = status
    /\ Close
    /\ UNCHANGED <<input, isFraudEscalated, payout, arg, signals, rows, money, gating>>

\* condition(() => reopenPayload !== null) tests the argument, which no signal changes:
\* it holds at once or never.
ClosedWritten ==
    /\ pc = "updateClaimStatus" /\ status = "CLOSED" /\ dbStatus' = status
    /\ IF reopenCount >= input.maxReopenCount
       THEN End("completed") /\ UNCHANGED <<status, reopenCount>>
       ELSE /\ IF reopenArg
               THEN status' = "REOPENED" /\ reopenCount' = reopenCount + 1 /\ Await("reopenClaim")
               ELSE Await("awaitReopen") /\ UNCHANGED <<status, reopenCount>>
            /\ UNCHANGED <<outcome, reopenArg>>
    /\ UNCHANGED <<input, isFraudEscalated, payout, arg, signals, rows, money, gating>>

WithdrawnWritten ==
    /\ pc = "updateClaimStatus" /\ status = "WITHDRAWN" /\ dbStatus' = status
    /\ End("completed")
    /\ UNCHANGED <<input, status, isFraudEscalated, payout, reopenCount, arg, signals, rows,
                   money, gating>>

-----------------------------------------------------------------------------
(* Steps 1 to 3: validation, fraud rules, investigation                    *)

\* Promise.all of the four checks; the claim goes on only if each one passes.
Validated ==
    /\ pc = "validate"
    /\ SetStatus("VALIDATION_FAILED") \/ OrWithdraw("evaluateFraudRules")
    /\ UNCHANGED dbStatus /\ ControlStep

ValidationFailureNotified ==
    /\ pc = "notifyStakeholder" /\ status = "VALIDATION_FAILED"
    /\ Close
    /\ UNCHANGED <<input, isFraudEscalated, payout, arg, signals, dbStatus, rows, money, gating>>

\* shouldEscalate, and then whether the risk level is HIGH or CRITICAL
FraudRulesEvaluated ==
    /\ pc = "evaluateFraudRules"
    /\ \/ isFraudEscalated' = FALSE /\ SetStatus("ASSESSMENT")
       \/ isFraudEscalated' = TRUE /\ SetStatus("UNDER_INVESTIGATION")
       \/ isFraudEscalated' = TRUE /\ SetStatus("FRAUD_REVIEW")
    /\ UNCHANGED <<input, payout, closing, arg, signals, dbStatus, rows, money, gating>>

\* The buffer is cleared after the activity: a result signalled before is lost.
InvestigationStarted ==
    /\ pc = "startInvestigation"
    /\ investigationResult' = FALSE
    /\ Await("awaitInvestigation")
    /\ UNCHANGED <<input, status, isFraudEscalated, payout, closing, arg, decision,
                   reopenPayload, withdrawPayload, dbStatus, rows, money, gating>>

FaultInvestigationOver ==
    /\ pc = "awaitInvestigation"
    /\ status' = "FRAUD_REVIEW" /\ Await("notifyStakeholder")
    /\ UNCHANGED dbStatus /\ ControlStep

\* Ended by the signal or by the 14-day timer; a withdrawal does not end this wait.
InvestigationOver ==
    /\ pc = "awaitInvestigation"
    /\ SetStatus("FRAUD_REVIEW")
    /\ UNCHANGED dbStatus /\ ControlStep

-----------------------------------------------------------------------------
(* The three gates: reviewers are notified, a decision is waited for       *)

FaultReviewersNotified(g) ==
    /\ pc = "notifyStakeholder" /\ status = GateStatus[g]
    /\ asked' = asked \cup {g}
    /\ Await("awaitDecision")
    /\ UNCHANGED <<input, status, isFraudEscalated, payout, closing, arg, signals, dbStatus,
                   rows, money, accepted, stale, overtaken, withdrawnInTime>>

\* The buffer is cleared only now: a decision signalled earlier is lost.
ReviewersNotified(g) ==
    /\ pc = "notifyStakeholder" /\ status = GateStatus[g]
    /\ decision' = [decision EXCEPT ![g] = None[g]]
    /\ asked' = asked \cup {g} /\ stale' = stale \ {g}
    /\ Await("awaitDecision")
    /\ UNCHANGED <<input, status, isFraudEscalated, payout, closing, arg, investigationResult,
                   reopenPayload, withdrawPayload, dbStatus, rows, money, accepted,
                   overtaken, withdrawnInTime>>

FaultDecisionReceived(g) ==
    /\ pc = "awaitDecision" /\ status = GateStatus[g]
    /\ decision[g] # None[g]
    /\ arg' = [arg EXCEPT ![g] = decision[g]]
    /\ accepted' = accepted \cup {g}
    /\ Await("recordDecision")
    /\ UNCHANGED <<input, status, isFraudEscalated, payout, closing, signals, dbStatus, rows,
                   money, asked, stale, overtaken, withdrawnInTime>>

\* The condition wins the race.
DecisionReceived(g) ==
    /\ pc = "awaitDecision" /\ status = GateStatus[g]
    /\ decision[g] # None[g] /\ ~withdrawPayload
    /\ arg' = [arg EXCEPT ![g] = decision[g]]
    /\ accepted' = accepted \cup {g}
    /\ Await("recordDecision")
    /\ UNCHANGED <<input, status, isFraudEscalated, payout, closing, signals, dbStatus, rows,
                   money, asked, stale, overtaken, withdrawnInTime>>

\* A withdrawal ends the wait and goes before a decision.
WithdrawnAtGate(g) ==
    /\ pc = "awaitDecision" /\ status = GateStatus[g]
    /\ withdrawPayload
    /\ SetStatus("WITHDRAWN")
    /\ UNCHANGED dbStatus /\ ControlStep

FaultNoTimer(g) == FALSE

FaultGateTimedOut(g) ==
    /\ pc = "awaitDecision" /\ status = GateStatus[g]
    /\ decision[g] = None[g]
    /\ SetStatus("REJECTED")
    /\ UNCHANGED dbStatus /\ ControlStep

\* The timer (7, 5 or 3 days) wins the race only while the condition is false.
GateTimedOut(g) ==
    /\ pc = "awaitDecision" /\ status = GateStatus[g]
    /\ decision[g] = None[g] /\ ~withdrawPayload
    /\ SetStatus("REJECTED")
    /\ UNCHANGED dbStatus /\ ControlStep

Recorded(g) ==
    /\ pc = "recordDecision" /\ status = GateStatus[g]
    /\ record' = [record EXCEPT ![g] = arg[g]]
    /\ arg' = [arg EXCEPT ![g] = None[g]]

FraudReviewRecorded ==
    /\ Recorded("fraud")
    /\ SetStatus(IF FraudPasses(arg["fraud"]) THEN "ASSESSMENT" ELSE "REJECTED")
    /\ UNCHANGED <<input, isFraudEscalated, payout, closing, signals, dbStatus,
                   payoutRequested, money, gating>>

\* The net amount tested is read from the buffer again, after the await.
AssessmentRecorded ==
    /\ Recorded("assessment")
    /\ SetStatus(IF decision["assessment"] <= 0 THEN "REJECTED" ELSE "APPROVED")
    /\ UNCHANGED <<input, isFraudEscalated, payout, closing, signals, dbStatus,
                   payoutRequested, money, gating>>

PayoutRequestCreated ==
    /\ pc = "createPayoutRequest"
    /\ payoutRequested' = TRUE
    /\ Await("notifyStakeholder")
    /\ UNCHANGED <<input, status, isFraudEscalated, payout, closing, arg, signals, dbStatus,
                   record, money, gating>>

\* recordFinanceApproval stores the decision taken at the gate; the payout that follows
\* reads the buffers again.  Only REJECT stops it.
FinanceApprovalRecorded ==
    /\ Recorded("finance")
    /\ next' = 1
    /\ \/ /\ ~FinancePasses(arg["finance"])
          /\ SetStatus("REJECTED")
          /\ UNCHANGED <<installments, amountArg>>
       \/ /\ FinancePasses(arg["finance"]) /\ IsPartialPayout(decision["finance"])
          /\ installments' = decision["finance"].installments
          /\ Installments(decision["finance"].installments, 1)
          /\ UNCHANGED amountArg
       \/ /\ FinancePasses(arg["finance"]) /\ ~IsPartialPayout(decision["finance"])
          /\ amountArg' = AmountDue(decision["finance"], decision["assessment"])
          /\ Await("disburseFull")
          /\ UNCHANGED <<status, installments>>
    /\ UNCHANGED <<input, isFraudEscalated, totalPaid, closing, signals, dbStatus,
                   payoutRequested, money, gating>>

-----------------------------------------------------------------------------
(* Step 6: payout                                                          *)

DueDateReached ==
    /\ pc = "awaitDueDate"
    /\ Await("disburseInstallment")
    /\ UNCHANGED <<status, dbStatus>> /\ ControlStep

InstallmentDisbursed ==
    /\ pc = "disburseInstallment"
    /\ Transfer(installments[next].no, installments[next].amount)
    /\ totalPaid' = totalPaid + installments[next].amount
    /\ SetStatus(IF totalPaid' >= AmountDue(decision["finance"], decision["assessment"]) - Tolerance
                 THEN "PAID" ELSE "PARTIALLY_PAID")
    /\ next' = next + 1
    /\ UNCHANGED <<input, isFraudEscalated, installments, amountArg, closing, arg, signals,
                   dbStatus, rows, gating>>

FaultInstallmentFailed ==
    /\ pc = "disburseInstallment" /\ installments[next].no \notin paidKeys
    /\ next' = next + 1 /\ totalPaid' = totalPaid + installments[next].amount
    /\ Installments(installments, next + 1)
    /\ UNCHANGED <<input, isFraudEscalated, installments, amountArg, closing, arg, signals,
                   dbStatus, rows, money, gating>>

\* The activity returns status FAILED: the loop goes on with the next installment.
InstallmentFailed ==
    /\ pc = "disburseInstallment" /\ installments[next].no \notin paidKeys
    /\ next' = next + 1
    /\ Installments(installments, next + 1)
    /\ UNCHANGED <<input, isFraudEscalated, totalPaid, installments, amountArg, closing, arg,
                   signals, dbStatus, rows, money, gating>>

\* totalPaid is computed from the buffers after the await, the amount paid before it.
FullPayoutDisbursed ==
    /\ pc = "disburseFull"
    /\ Transfer(0, amountArg)
    /\ totalPaid' = AmountDue(decision["finance"], decision["assessment"])
    /\ SetStatus("PAID")
    /\ UNCHANGED <<input, isFraudEscalated, installments, next, amountArg, closing, arg,
                   signals, dbStatus, rows, gating>>

\* Status FAILED: the claim is announced as paid and closed all the same.
FullPayoutFailed ==
    /\ pc = "disburseFull"
    /\ Await("notifyPaid")
    /\ UNCHANGED <<status, dbStatus>> /\ ControlStep

-----------------------------------------------------------------------------
(* Step 7: closing and reopening                                           *)

PaidNotified ==
    /\ pc = "notifyPaid"
    /\ Close
    /\ UNCHANGED <<input, isFraudEscalated, payout, arg, signals, dbStatus, rows, money, gating>>

\* The 180-day timer
ReopenExpired ==
    /\ pc = "awaitReopen"
    /\ End("completed")
    /\ UNCHANGED <<input, status, isFraudEscalated, payout, reopenCount, arg, signals,
                   dbStatus, rows, money, gating>>

ClaimReopened ==
    /\ pc = "reopenClaim"
    /\ dbStatus' = "REOPENED"
    /\ End("completed")
    /\ UNCHANGED <<input, status, isFraudEscalated, payout, reopenCount, arg, signals, rows,
                   money, gating>>

-----------------------------------------------------------------------------
(* Failure                                                                 *)

\* What the activity in flight writes outside the workflow
Effect ==
    \/ /\ \/ pc = "updateClaimStatus" /\ dbStatus' = status
          \/ pc = "reopenClaim" /\ dbStatus' = "REOPENED"
       /\ UNCHANGED <<rows, money>>
    \/ /\ pc = "recordDecision"
       /\ \E g \in Gates :
              status = GateStatus[g] /\ record' = [record EXCEPT ![g] = arg[g]]
       /\ UNCHANGED <<payoutRequested, dbStatus, money>>
    \/ /\ pc = "createPayoutRequest" /\ payoutRequested' = TRUE
       /\ UNCHANGED <<record, dbStatus, money>>
    \/ /\ \/ /\ pc = "disburseInstallment"
             /\ Transfer(installments[next].no, installments[next].amount)
          \/ pc = "disburseFull" /\ Transfer(0, amountArg)
       /\ UNCHANGED <<dbStatus, rows>>

\* The activity has failed every attempt its retry policy allows; an attempt may have
\* had its effect all the same (it failed after it, or its answer was lost).
ActivityThrows ==
    /\ pc \in Activities
    /\ Effect \/ UNCHANGED <<dbStatus, rows, money>>
    /\ Await("compensate")
    /\ UNCHANGED <<input, status, isFraudEscalated, payout, closing, arg, signals, gating>>

\* The catch block: WITHDRAWN is written, or that write fails too; the error is rethrown.
Compensated ==
    /\ pc = "compensate"
    /\ dbStatus' \in {"WITHDRAWN", dbStatus}
    /\ End("failed")
    /\ UNCHANGED <<input, status, isFraudEscalated, payout, reopenCount, arg, signals, rows,
                   money, gating>>

\* workflowExecutionTimeout: the server ends the run and no code of it runs again.
ExecutionTimedOut ==
    /\ outcome = "running"
    /\ End("timedOut")
    /\ UNCHANGED <<input, status, isFraudEscalated, payout, reopenCount, arg, signals,
                   dbStatus, rows, money, gating>>

-----------------------------------------------------------------------------
(* Signal handlers                                                         *)

SignalFrame ==
    /\ outcome = "running"
    /\ UNCHANGED <<input, pc, status, isFraudEscalated, payout, closing, arg, dbStatus, rows,
                   money, asked, accepted>>

\* fraudReviewDecision, claimAssessment and financeApproval.  People send them, and
\* createAssessment signals an assessment back while it records it (claim.service.ts:466).
DecisionSignal(g) ==
    /\ \E p \in Payloads[g] :
           /\ decision' = [decision EXCEPT ![g] = p]
           /\ overtaken' = (overtaken \/ (g \in accepted /\ p \notin {arg[g], record[g]}))
    /\ stale' = IF g \in asked THEN stale \ {g} ELSE stale \cup {g}
    /\ SignalFrame
    /\ UNCHANGED <<investigationResult, reopenPayload, withdrawPayload, withdrawnInTime>>

InvestigationCompleteSignal ==
    /\ investigationResult' = TRUE
    /\ SignalFrame
    /\ UNCHANGED <<decision, reopenPayload, withdrawPayload, stale, overtaken, withdrawnInTime>>

ReopenClaimSignal ==
    /\ reopenPayload' = TRUE
    /\ SignalFrame
    /\ UNCHANGED <<decision, investigationResult, withdrawPayload, stale, overtaken,
                   withdrawnInTime>>

WithdrawClaimSignal ==
    /\ withdrawPayload' = TRUE
    /\ withdrawnInTime' = (withdrawnInTime \/ "finance" \notin accepted)
    /\ SignalFrame
    /\ UNCHANGED <<decision, investigationResult, reopenPayload, stale, overtaken>>

-----------------------------------------------------------------------------
Signal ==
    \/ \E g \in Gates : DecisionSignal(g)
    \/ InvestigationCompleteSignal \/ ReopenClaimSignal \/ WithdrawClaimSignal

GateStep(g) ==
    ReviewersNotified(g) \/ DecisionReceived(g) \/ WithdrawnAtGate(g) \/ GateTimedOut(g)

Step ==
    \/ StatusWritten \/ RejectedWritten \/ ClosedWritten \/ WithdrawnWritten
    \/ Validated \/ ValidationFailureNotified
    \/ FraudRulesEvaluated \/ InvestigationStarted \/ InvestigationOver
    \/ \E g \in Gates : GateStep(g)
    \/ FraudReviewRecorded \/ AssessmentRecorded
    \/ PayoutRequestCreated \/ FinanceApprovalRecorded
    \/ DueDateReached \/ InstallmentDisbursed \/ InstallmentFailed
    \/ FullPayoutDisbursed \/ FullPayoutFailed
    \/ PaidNotified \/ ReopenExpired \/ ClaimReopened
    \/ ActivityThrows \/ Compensated

Next == Signal \/ Step \/ ExecutionTimedOut

Spec == Init /\ [][Next]_vars

\* Temporal keeps a running workflow going: activities end (their retries are limited)
\* and timers fire.  Nobody is obliged to send a signal.
FairSpec == Spec /\ WF_vars(Step)

-----------------------------------------------------------------------------
(* Properties                                                              *)

Decisions ==
    [fraud : FraudDecisions \cup {None.fraud}, assessment : Nets \cup {None.assessment},
     finance : FinanceDecisions \cup {None.finance}]

\* Every variable keeps its type.
TypeOK ==
    /\ input \in [maxReopenCount : MaxReopenCounts, partialPayoutEnabled : BOOLEAN]
    /\ pc \in Activities \cup Waits \cup {"compensate", "ended"}
    /\ outcome \in {"running", "completed", "failed", "timedOut"}
    /\ status \in ClaimWorkflowStatus /\ dbStatus \in ClaimWorkflowStatus
    /\ isFraudEscalated \in BOOLEAN
    /\ totalPaid \in Nat /\ amountArg \in Nat
    /\ installments \in Seq(Installment) /\ next \in Nat \ {0}
    /\ reopenCount \in Nat /\ reopenArg \in BOOLEAN
    /\ investigationResult \in BOOLEAN
    /\ reopenPayload \in BOOLEAN /\ withdrawPayload \in BOOLEAN
    /\ decision \in Decisions /\ arg \in Decisions /\ record \in Decisions
    /\ payoutRequested \in BOOLEAN
    /\ paidKeys \subseteq Nat
    /\ moneyOut \in Nat /\ transfersAfterWithdrawal \in Nat
    /\ asked \subseteq Gates /\ accepted \subseteq Gates /\ stale \subseteq Gates
    /\ overtaken \in BOOLEAN /\ withdrawnInTime \in BOOLEAN

\* A claim the fraud rules escalated pays nothing, on any path, before a fraud review
\* that lets it through is on record.
FraudGate ==
    paidKeys # {} /\ isFraudEscalated =>
        record.fraud \in {"CLEAR", "REFER_TO_INVESTIGATION"}

\* Nothing is paid before an assessment, a payout request and a finance decision other
\* than a rejection are on record.
FinanceGate ==
    paidKeys # {} =>
        /\ record.assessment # None.assessment
        /\ payoutRequested
        /\ record.finance.decision \notin {None.finance.decision, "REJECT"}

\* A decision is only ever acted on if it was signalled after its reviewers were asked:
\* what the three buffers held before is discarded, however signals and activities
\* interleave.
FreshDecisions == accepted \cap stale = {}

\* A withdrawal signalled before the finance decision is accepted stops every payment;
\* one signalled later lets at most the transfer in progress or next due go out.
WithdrawalHonoured ==
    /\ withdrawnInTime => paidKeys = {}
    /\ transfersAfterWithdrawal <= 1

\* What the first n installments of a schedule amount to, for each n
RunningTotal(seq) ==
    LET total[n \in 0..Len(seq)] == IF n = 0 THEN 0 ELSE total[n - 1] + seq[n].amount
    IN  total

ScheduleTotal(seq) == RunningTotal(seq)[Len(seq)]

\* The amount a recorded finance decision authorises
Authorised ==
    IF input.partialPayoutEnabled /\ record.finance.decision = "APPROVE_PARTIAL"
       /\ record.finance.installments # <<>>
    THEN ScheduleTotal(record.finance.installments)
    ELSE IF record.finance.approvedAmount # NoAmount THEN record.finance.approvedAmount
    ELSE record.assessment

DistinctNumbers(seq) ==
    \A i, j \in DOMAIN seq : seq[i].no = seq[j].no => i = j

\* As long as no other decision is signalled after the accepted one, no interleaving
\* of retries, failures, withdrawals and installments pays more than the recorded
\* decision authorises.
PaysWhatWasRecorded ==
    ~overtaken /\ paidKeys # {} => moneyOut <= Authorised

\* Under the same condition, and when the schedule numbers its installments apart, the
\* claim row says PAID only once the amount due has left, up to the code's tolerance,
\* and the workflow never reports more paid than has left.
PaidIsPaid ==
    ~overtaken /\ DistinctNumbers(installments) =>
        /\ totalPaid <= moneyOut
        /\ dbStatus = "PAID" =>
               moneyOut >= AmountDue(record.finance, record.assessment) - Tolerance

\* The finance decision on record, as those outside the run see it
Decided ==
    IF record.finance = None.finance THEN "none"
    ELSE IF FinancePasses(record.finance) THEN "pay" ELSE "reject"

\* The installment numbers a finance decision may name
InstallmentNumbers ==
    UNION {{p.installments[i].no : i \in DOMAIN p.installments} : p \in FinanceDecisions}

Promise ==
    INSTANCE ClaimPromise
    WITH Full <- 0, Numbers <- InstallmentNumbers,
         stage <- dbStatus, decided <- Decided, transfers <- paidKeys,
         open <- outcome = "running"

\* Whatever is signalled, fails, times out or is retried, the run does to the claim's
\* row, the recorded decision and the money only what ClaimPromise allows: no stage is
\* skipped, one finance decision is recorded, money leaves under it alone, key by key, in
\* full or in installments, and nothing changes once the run has ended.
KeepsPromise == Promise!Spec

\* Every claim run ends: no wait is without a timer, no loop without a bound.
Termination == <>(outcome # "running")

\* A withdrawal that arrives while people are being waited for ends the claim as
\* WITHDRAWN, whatever decision or timer races with it.
WithdrawalAnswered ==
    withdrawPayload /\ pc = "awaitDecision"
        ~> pc = "ended" /\ (status = "WITHDRAWN" \/ outcome = "timedOut")

\* "Finance Rule: must go through Finance Approval" (claim.workflow.ts:433) and "Finance
\* payout must be approval based" (docs/SKILLS.md:15): money leaves only on a recorded
\* finance approval.  The code pays on ESCALATE too.
PaidOnApproval ==
    paidKeys # {} => record.finance.decision \in {"APPROVE_FULL", "APPROVE_PARTIAL"}

\* "If reopenClaim signal arrives within window and reopen_count < maxReopenCount, the
\* claim is marked REOPENED" (claim.workflow.ts:601-602): a claim that waits for a reopen
\* signal and gets one does not come to rest as CLOSED.  The code never sees the signal.
ReopenHonoured ==
    outcome = "completed" /\ status = "CLOSED" /\ reopenCount < input.maxReopenCount
        => ~reopenPayload
=============================================================================
