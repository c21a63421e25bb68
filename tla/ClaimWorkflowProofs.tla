------------------------ MODULE ClaimWorkflowProofs ------------------------
(* Theorems about ClaimWorkflow, for every value of its constants.         *)
EXTENDS ClaimWorkflow, TLAPS, WellFoundedInduction

-----------------------------------------------------------------------------
(* Type correctness                                                        *)

\* The money-moving part of step 6: an amount is about to leave.
Paying == {"awaitDueDate", "disburseInstallment", "disburseFull"}

\* The statuses written after a transfer
PaidStatus == {"PARTIALLY_PAID", "PAID"}

\* The loop is at an installment of the schedule whenever it is about to pay one.
LoopInv ==
    pc \in {"awaitDueDate", "disburseInstallment"} => next <= Len(installments)

\* The buffers that the payout reads again hold real decisions by then.
BufferInv ==
    /\ pc \in Paying => status \in PaidStatus \cup {"FINANCE_REVIEW"}
    /\ \/ pc = "recordDecision" /\ status = "ASSESSMENT"
       \/ status \in PaidStatus \cup {"APPROVED", "FINANCE_REVIEW"}
       => decision.assessment \in Nets
    /\ \/ pc = "recordDecision" /\ status = "FINANCE_REVIEW"
       \/ pc \in Paying \/ status \in PaidStatus
       => decision.finance \in FinanceDecisions

\* The inductive strengthening of TypeOK
TypeInv == TypeOK /\ LoopInv /\ BufferInv

\* The empty buffer is a value every buffer may hold.
LEMMA NoneIsDecision == None \in Decisions
  BY DEF None, Decisions

\* Overwriting one gate's decision keeps the decisions typed.
LEMMA SetDecision ==
  ASSUME NEW d \in Decisions, NEW g \in Gates, NEW p \in Payloads[g] \cup {None[g]}
  PROVE  [d EXCEPT ![g] = p] \in Decisions
  <1>1. CASE g = "fraud"
    BY <1>1 DEF Decisions, Payloads, None
  <1>2. CASE g = "assessment"
    BY <1>2 DEF Decisions, Payloads, None
  <1>3. CASE g = "finance"
    BY <1>3 DEF Decisions, Payloads, None
  <1> QED BY <1>1, <1>2, <1>3 DEF Gates

\* What a gate holds is a decision of that gate, or none.
LEMMA DecisionType ==
  ASSUME NEW d \in Decisions, NEW g \in Gates
  PROVE  d[g] \in Payloads[g] \cup {None[g]}
  BY DEF Decisions, Payloads, None, Gates

\* The initial states are typed.
LEMMA InitTypeInv == Init => TypeInv
  <1> SUFFICES ASSUME Init PROVE TypeInv
    OBVIOUS
  <1> USE DEF Init
  <1>a. installments \in Seq(Installment)
    OBVIOUS
  <1>b. decision \in Decisions /\ arg \in Decisions /\ record \in Decisions
    BY NoneIsDecision
  <1>c. /\ pc \in Activities \cup Waits \cup {"compensate", "ended"}
        /\ status \in ClaimWorkflowStatus /\ dbStatus \in ClaimWorkflowStatus
    BY DEF Activities, ClaimWorkflowStatus
  <1>d. /\ totalPaid \in Nat /\ amountArg \in Nat /\ next \in Nat \ {0}
        /\ reopenCount \in Nat /\ moneyOut \in Nat /\ transfersAfterWithdrawal \in Nat
    OBVIOUS
  <1>1. TypeOK
    BY <1>a, <1>b, <1>c, <1>d, Zenon DEF TypeOK
  <1>2. LoopInv /\ BufferInv
    BY DEF Init, LoopInv, BufferInv, Paying, PaidStatus
  <1> QED BY <1>1, <1>2 DEF TypeInv

\* What the assumption on the constants says of the amounts.
LEMMA PayloadTypes ==
  /\ Nets \subseteq Nat
  /\ \A p \in FinanceDecisions : /\ p.installments \in Seq(Installment)
                                /\ p.approvedAmount \in Nat \cup {NoAmount}
  BY ConstantsAssumption DEF FinanceApprovalPayload

\* The amount due on a real decision and assessment is an amount.
LEMMA AmountDueType ==
  ASSUME NEW p \in FinanceDecisions, NEW n \in Nets
  PROVE  AmountDue(p, n) \in Nat
  BY PayloadTypes DEF AmountDue

\* A transfer keeps keys and sums typed.
LEMMA TransferType ==
  ASSUME NEW key \in Nat, NEW amount \in Nat, Transfer(key, amount),
         paidKeys \subseteq Nat, moneyOut \in Nat, transfersAfterWithdrawal \in Nat
  PROVE  paidKeys' \subseteq Nat /\ moneyOut' \in Nat /\ transfersAfterWithdrawal' \in Nat
  <1>1. CASE key \in paidKeys
    BY <1>1 DEF Transfer, money
  <1>2. CASE key \notin paidKeys
    <2>1. /\ paidKeys' = paidKeys \cup {key} /\ moneyOut' = moneyOut + amount
          /\ \/ transfersAfterWithdrawal' = transfersAfterWithdrawal + 1
             \/ transfersAfterWithdrawal' = transfersAfterWithdrawal + 0
      BY <1>2 DEF Transfer
    <2> QED BY <2>1
  <1> QED BY <1>1, <1>2

\* The loop either leaves, with no installment due, or is at an installment.
LEMMA InstallmentsStep ==
  ASSUME NEW seq \in Seq(Installment), NEW i \in Nat \ {0}, Installments(seq, i)
  PROVE  \/ pc' = "notifyPaid" /\ status' = status
         \/ pc' = "updateClaimStatus" /\ status' = "WITHDRAWN"
         \/ /\ pc' \in {"awaitDueDate", "disburseInstallment"} /\ status' = status
            /\ i <= Len(seq) /\ ~withdrawPayload
  BY DEF Installments, Await, SetStatus

\* What an effect may change keeps its type.
EffectType ==
    /\ dbStatus' \in ClaimWorkflowStatus /\ record' \in Decisions
    /\ payoutRequested' \in BOOLEAN /\ paidKeys' \subseteq Nat
    /\ moneyOut' \in Nat /\ transfersAfterWithdrawal' \in Nat

\* Every step of the workflow and every signal keep the types.
LEMMA StepType == TypeInv /\ [Next]_vars => TypeInv'
  <1> SUFFICES ASSUME TypeInv, [Next]_vars PROVE TypeInv'
    OBVIOUS
  <1> USE DEF TypeInv, TypeOK, LoopInv, BufferInv, Paying, PaidStatus, Await, SetStatus,
        OrWithdraw, Close, End, ControlStep, payout, closing, signals, rows, money, gating,
        Activities, Waits, ClaimWorkflowStatus
  <1>1. CASE StatusWritten
    <2>1. CASE status \in PaidStatus
      <3>1. Installments(installments, next)
        BY <1>1, <2>1 DEF StatusWritten
      <3> QED BY <1>1, <2>1, <3>1, InstallmentsStep DEF StatusWritten
    <2>2. CASE status \notin PaidStatus
      BY <1>1, <2>2 DEF StatusWritten
    <2> QED BY <2>1, <2>2
  <1>2. CASE RejectedWritten
    BY <1>2 DEF RejectedWritten
  <1>3. CASE ClosedWritten
    BY <1>3 DEF ClosedWritten
  <1>4. CASE WithdrawnWritten
    BY <1>4 DEF WithdrawnWritten
  <1>5. CASE Validated
    BY <1>5 DEF Validated
  <1>6. CASE ValidationFailureNotified
    BY <1>6 DEF ValidationFailureNotified
  <1>7. CASE FraudRulesEvaluated
    <2>1. isFraudEscalated' \in BOOLEAN /\ pc' = "updateClaimStatus"
          /\ status' \in {"ASSESSMENT", "UNDER_INVESTIGATION", "FRAUD_REVIEW"}
      BY <1>7 DEF FraudRulesEvaluated
    <2> QED BY <1>7, <2>1 DEF FraudRulesEvaluated
  <1>8. CASE InvestigationStarted
    <2>1. pc' = "awaitInvestigation" /\ investigationResult' \in BOOLEAN
      BY <1>8 DEF InvestigationStarted
    <2> QED BY <1>8, <2>1 DEF InvestigationStarted
  <1>9. CASE InvestigationOver
    BY <1>9 DEF InvestigationOver
  <1>10. CASE FraudReviewRecorded
    <2>1. arg' \in Decisions /\ record' \in Decisions
      BY <1>10, SetDecision, DecisionType DEF FraudReviewRecorded, Recorded, Gates
    <2> QED BY <1>10, <2>1 DEF FraudReviewRecorded, Recorded, GateStatus
  <1>11. CASE AssessmentRecorded
    <2>1. arg' \in Decisions /\ record' \in Decisions
      BY <1>11, SetDecision, DecisionType DEF AssessmentRecorded, Recorded, Gates
    <2>2. decision.assessment \in Nets /\ decision' = decision
      BY <1>11 DEF AssessmentRecorded, Recorded, GateStatus
    <2> QED BY <1>11, <2>1, <2>2 DEF AssessmentRecorded, Recorded, GateStatus
  <1>12. CASE PayoutRequestCreated
    BY <1>12 DEF PayoutRequestCreated
  <1>13. CASE FinanceApprovalRecorded
    <2>1. arg' \in Decisions /\ record' \in Decisions
      BY <1>13, SetDecision, DecisionType DEF FinanceApprovalRecorded, Recorded, Gates
    <2>2. /\ pc = "recordDecision" /\ status = "FINANCE_REVIEW" /\ decision' = decision
          /\ decision.assessment \in Nets /\ decision.finance \in FinanceDecisions
      BY <1>13 DEF FinanceApprovalRecorded, Recorded, GateStatus
    <2>3. CASE ~FinancePasses(arg["finance"]) /\ SetStatus("REJECTED")
               /\ UNCHANGED <<installments, amountArg>>
      BY <1>13, <2>1, <2>2, <2>3 DEF FinanceApprovalRecorded
    <2>4. CASE /\ installments' = decision["finance"].installments
               /\ Installments(decision["finance"].installments, 1)
               /\ UNCHANGED amountArg
      <3>1. decision["finance"].installments \in Seq(Installment)
        BY <2>2, PayloadTypes
      <3> QED BY <1>13, <2>1, <2>2, <2>4, <3>1, InstallmentsStep DEF FinanceApprovalRecorded
    <2>5. CASE /\ amountArg' = AmountDue(decision["finance"], decision["assessment"])
               /\ Await("disburseFull")
               /\ UNCHANGED <<status, installments>>
      <3>1. amountArg' \in Nat
        BY <2>2, <2>5, AmountDueType
      <3> QED BY <1>13, <2>1, <2>2, <2>5, <3>1 DEF FinanceApprovalRecorded
    <2> QED BY <1>13, <2>3, <2>4, <2>5 DEF FinanceApprovalRecorded
  <1>14. CASE DueDateReached
    BY <1>14 DEF DueDateReached
  <1>15. CASE InstallmentDisbursed
    <2> DEFINE it == installments[next]
    <2>1. it \in Installment
      BY <1>15 DEF InstallmentDisbursed
    <2>2. it.no \in Nat /\ it.amount \in Nat
      BY <2>1 DEF Installment
    <2>3. paidKeys' \subseteq Nat /\ moneyOut' \in Nat /\ transfersAfterWithdrawal' \in Nat
      BY <1>15, <2>2, TransferType DEF InstallmentDisbursed
    <2>4. pc' = "updateClaimStatus" /\ status' \in PaidStatus
      BY <1>15 DEF InstallmentDisbursed
    <2>5. totalPaid' \in Nat /\ next' \in Nat \ {0}
      BY <1>15, <2>2 DEF InstallmentDisbursed
    <2> QED BY <1>15, <2>3, <2>4, <2>5 DEF InstallmentDisbursed
  <1>16. CASE InstallmentFailed
    <2>1. Installments(installments, next + 1) /\ next + 1 \in Nat \ {0}
      BY <1>16 DEF InstallmentFailed
    <2> QED BY <1>16, <2>1, InstallmentsStep DEF InstallmentFailed
  <1>17. CASE FullPayoutDisbursed
    <2>1. paidKeys' \subseteq Nat /\ moneyOut' \in Nat /\ transfersAfterWithdrawal' \in Nat
      BY <1>17, TransferType DEF FullPayoutDisbursed
    <2>2. totalPaid' \in Nat
      BY <1>17, AmountDueType DEF FullPayoutDisbursed
    <2> QED BY <1>17, <2>1, <2>2 DEF FullPayoutDisbursed
  <1>18. CASE FullPayoutFailed
    BY <1>18 DEF FullPayoutFailed
  <1>19. CASE PaidNotified
    BY <1>19 DEF PaidNotified
  <1>20. CASE ReopenExpired
    BY <1>20 DEF ReopenExpired
  <1>21. CASE ClaimReopened
    BY <1>21 DEF ClaimReopened
  <1>22. CASE ActivityThrows
    <2>1. pc' = "compensate"
      BY <1>22 DEF ActivityThrows
    <2>2. EffectType
      <3>1. CASE UNCHANGED <<dbStatus, rows, money>>
        BY <3>1 DEF EffectType
      <3>2. CASE Effect
        <4>1. \A g \in Gates : [record EXCEPT ![g] = arg[g]] \in Decisions
          BY SetDecision, DecisionType
        <4>2. CASE pc = "disburseInstallment"
                   /\ Transfer(installments[next].no, installments[next].amount)
          <5>1. installments[next] \in Installment
            BY <4>2
          <5>2. installments[next].no \in Nat /\ installments[next].amount \in Nat
            BY <5>1 DEF Installment
          <5> QED BY <3>2, <4>2, <5>2, TransferType DEF Effect, EffectType
        <4>3. CASE pc = "disburseFull" /\ Transfer(0, amountArg)
          BY <3>2, <4>3, TransferType DEF Effect, EffectType
        <4> QED BY <3>2, <4>1, <4>2, <4>3 DEF Effect, EffectType
      <3> QED BY <1>22, <3>1, <3>2 DEF ActivityThrows
    <2> QED BY <1>22, <2>1, <2>2 DEF ActivityThrows, EffectType
  <1>23. CASE Compensated
    BY <1>23 DEF Compensated
  <1>24. ASSUME NEW g \in Gates, ReviewersNotified(g) PROVE TypeInv'
    <2>1. decision' \in Decisions
      BY <1>24, SetDecision DEF ReviewersNotified
    <2>2. asked' \subseteq Gates /\ stale' \subseteq Gates
      BY <1>24 DEF ReviewersNotified
    <2>3. pc' = "awaitDecision" /\ status' = status /\ status = GateStatus[g]
      BY <1>24 DEF ReviewersNotified
    <2>4. g # "assessment" => decision'.assessment = decision.assessment
      BY <1>24 DEF ReviewersNotified, Decisions
    <2>5. BufferInv'
      BY <1>24, <2>3, <2>4 DEF ReviewersNotified, GateStatus, Gates
    <2> QED BY <1>24, <2>1, <2>2, <2>3, <2>5 DEF ReviewersNotified
  <1>25. ASSUME NEW g \in Gates, DecisionReceived(g) PROVE TypeInv'
    <2>1. decision[g] \in Payloads[g]
      BY <1>25, DecisionType DEF DecisionReceived
    <2>2. arg' \in Decisions
      BY <1>25, <2>1, SetDecision DEF DecisionReceived
    <2>3. BufferInv'
      BY <1>25, <2>1 DEF DecisionReceived, GateStatus, Gates, Payloads
    <2> QED BY <1>25, <2>2, <2>3 DEF DecisionReceived
  <1>26. ASSUME NEW g \in Gates, WithdrawnAtGate(g) PROVE TypeInv'
    BY <1>26 DEF WithdrawnAtGate
  <1>27. ASSUME NEW g \in Gates, GateTimedOut(g) PROVE TypeInv'
    BY <1>27 DEF GateTimedOut
  <1>28. CASE InvestigationCompleteSignal
    BY <1>28 DEF InvestigationCompleteSignal, SignalFrame
  <1>29. CASE ReopenClaimSignal
    BY <1>29 DEF ReopenClaimSignal, SignalFrame
  <1>30. CASE WithdrawClaimSignal
    BY <1>30 DEF WithdrawClaimSignal, SignalFrame
  <1>31. CASE ExecutionTimedOut
    BY <1>31 DEF ExecutionTimedOut, SignalFrame
  <1>32. CASE UNCHANGED vars
    BY <1>32 DEF vars
  <1>33. ASSUME NEW g \in Gates, DecisionSignal(g) PROVE TypeInv'
    <2>1. PICK p \in Payloads[g] : decision' = [decision EXCEPT ![g] = p]
      BY <1>33 DEF DecisionSignal
    <2>2. decision' \in Decisions
      BY <2>1, SetDecision
    <2>3. /\ decision.assessment \in Nets => decision'.assessment \in Nets
          /\ decision.finance \in FinanceDecisions => decision'.finance \in FinanceDecisions
      BY <2>1 DEF Payloads, Gates, Decisions
    <2>4. stale' \subseteq Gates /\ overtaken' \in BOOLEAN
      BY <1>33 DEF DecisionSignal
    <2> QED BY <1>33, <2>2, <2>3, <2>4 DEF DecisionSignal, SignalFrame
  <1> QED BY <1>1, <1>2, <1>3, <1>4, <1>5, <1>6, <1>7, <1>8, <1>9, <1>10, <1>11, <1>12, <1>13,
           <1>14, <1>15, <1>16, <1>17, <1>18, <1>19, <1>20, <1>21, <1>22, <1>23, <1>24, <1>25,
           <1>26, <1>27, <1>28, <1>29, <1>30, <1>31, <1>32, <1>33 DEF Next, Step, Signal, GateStep

\* Every reachable state has its type: the awaited point, the status, the buffers and
\* rows, the schedule position and the sums of money, whatever the inputs and signals.
THEOREM TypeCorrect == Spec => []TypeOK
  <1>1. TypeInv => TypeOK
    BY DEF TypeInv
  <1> QED BY <1>1, InitTypeInv, StepType, PTL DEF Spec

-----------------------------------------------------------------------------
(* The gates, the withdrawal and the freshness of decisions                *)

\* The statuses that an assessed claim goes through until it is closed
AssessedStatus == {"APPROVED", "FINANCE_REVIEW"} \cup PaidStatus

\* What each stage of the claim relies on is on record by the time it is reached.
RecordInv ==
    /\ status \in {"ASSESSMENT"} \cup AssessedStatus /\ isFraudEscalated =>
           record.fraud \in {"CLEAR", "REFER_TO_INVESTIGATION"}
    /\ status \in AssessedStatus => record.assessment # None.assessment
    /\ \/ status = "FINANCE_REVIEW" /\ pc \notin {"updateClaimStatus", "createPayoutRequest",
                                                 "compensate", "ended"}
       \/ status \in PaidStatus
       => payoutRequested
    /\ pc \in Paying \/ status \in PaidStatus =>
           record.finance.decision \notin {None.finance.decision, "REJECT"}

\* A decision being recorded is a real one.
ArgInv ==
    \A g \in Gates : pc = "recordDecision" /\ status = GateStatus[g] => arg[g] # None[g]

\* Where the workflow can be once money has left: past every step that could change what
\* the payment relied on.
AfterPayment ==
    \/ pc \in Paying \cup {"notifyPaid", "compensate", "ended", "awaitReopen", "reopenClaim"}
    \/ pc = "updateClaimStatus" /\ status \in PaidStatus \cup {"CLOSED", "WITHDRAWN"}

\* The inductive strengthening of FraudGate and FinanceGate
GateInv == RecordInv /\ ArgInv /\ (paidKeys # {} => AfterPayment) /\ FraudGate /\ FinanceGate

\* The inductive strengthening of WithdrawalHonoured: no finance decision is taken up while
\* a withdrawal is pending, and every transfer hands control to a test for one.
WithdrawalInv ==
    /\ withdrawnInTime => withdrawPayload /\ "finance" \notin accepted
    /\ \/ pc = "recordDecision" /\ status = "FINANCE_REVIEW"
       \/ pc \in Paying \/ status \in PaidStatus \/ paidKeys # {}
       => "finance" \in accepted
    /\ transfersAfterWithdrawal > 0 => withdrawPayload /\ pc \notin Paying /\ paidKeys # {}
    /\ transfersAfterWithdrawal <= 1

\* The inductive strengthening of FreshDecisions
FreshInv ==
    /\ accepted \subseteq asked
    /\ asked \cap stale = {}
    /\ \A g \in Gates : pc = "awaitDecision" /\ status = GateStatus[g] => g \in asked

\* A gate's buffer is emptied when its reviewers are asked, and only then waited for.
LEMMA StepFresh == TypeInv /\ FreshInv /\ [Next]_vars => FreshInv'
  <1> SUFFICES ASSUME TypeInv, FreshInv, [Next]_vars PROVE FreshInv'
    OBVIOUS
  <1> USE DEF TypeInv, TypeOK, FreshInv, Installments, Await, SetStatus, OrWithdraw, Close, End,
        ControlStep, payout, closing, signals, rows, money, gating, GateStatus, Paying, PaidStatus
  <1>1. CASE StatusWritten
    BY <1>1 DEF StatusWritten, Installments
  <1>2. CASE RejectedWritten
    BY <1>2 DEF RejectedWritten
  <1>3. CASE ClosedWritten
    BY <1>3 DEF ClosedWritten
  <1>4. CASE WithdrawnWritten
    BY <1>4 DEF WithdrawnWritten
  <1>5. CASE Validated
    BY <1>5 DEF Validated
  <1>6. CASE ValidationFailureNotified
    BY <1>6 DEF ValidationFailureNotified
  <1>7. CASE FraudRulesEvaluated
    BY <1>7 DEF FraudRulesEvaluated
  <1>8. CASE InvestigationStarted
    BY <1>8 DEF InvestigationStarted
  <1>9. CASE InvestigationOver
    BY <1>9 DEF InvestigationOver
  <1>10. CASE FraudReviewRecorded
    BY <1>10 DEF FraudReviewRecorded, Recorded, FraudPasses
  <1>11. CASE AssessmentRecorded
    BY <1>11 DEF AssessmentRecorded, Recorded
  <1>12. CASE PayoutRequestCreated
    BY <1>12 DEF PayoutRequestCreated
  <1>13. CASE FinanceApprovalRecorded
    BY <1>13 DEF FinanceApprovalRecorded, Recorded, FinancePasses, Installments
  <1>14. CASE DueDateReached
    BY <1>14 DEF DueDateReached
  <1>15. CASE InstallmentDisbursed
    BY <1>15 DEF InstallmentDisbursed, Transfer
  <1>16. CASE InstallmentFailed
    BY <1>16 DEF InstallmentFailed, Installments
  <1>17. CASE FullPayoutDisbursed
    BY <1>17 DEF FullPayoutDisbursed, Transfer
  <1>18. CASE FullPayoutFailed
    BY <1>18 DEF FullPayoutFailed
  <1>19. CASE PaidNotified
    BY <1>19 DEF PaidNotified
  <1>20. CASE ReopenExpired
    BY <1>20 DEF ReopenExpired
  <1>21. CASE ClaimReopened
    BY <1>21 DEF ClaimReopened
  <1>22. CASE ActivityThrows
    BY <1>22 DEF ActivityThrows, Effect, Transfer
  <1>23. CASE Compensated
    BY <1>23 DEF Compensated
  <1>24. ASSUME NEW g \in Gates, ReviewersNotified(g) PROVE FreshInv'
    BY <1>24 DEF ReviewersNotified, Gates
  <1>25. ASSUME NEW g \in Gates, DecisionReceived(g) PROVE FreshInv'
    BY <1>25 DEF DecisionReceived, Gates
  <1>26. ASSUME NEW g \in Gates, WithdrawnAtGate(g) PROVE FreshInv'
    BY <1>26 DEF WithdrawnAtGate, Gates
  <1>27. ASSUME NEW g \in Gates, GateTimedOut(g) PROVE FreshInv'
    BY <1>27 DEF GateTimedOut, Gates
  <1>28. CASE InvestigationCompleteSignal
    BY <1>28 DEF InvestigationCompleteSignal, SignalFrame
  <1>29. CASE ReopenClaimSignal
    BY <1>29 DEF ReopenClaimSignal, SignalFrame
  <1>30. CASE WithdrawClaimSignal
    BY <1>30 DEF WithdrawClaimSignal, SignalFrame
  <1>31. CASE ExecutionTimedOut
    BY <1>31 DEF ExecutionTimedOut
  <1>32. CASE UNCHANGED vars
    BY <1>32 DEF vars
  <1>33. ASSUME NEW g \in Gates, DecisionSignal(g) PROVE FreshInv'
    BY <1>33 DEF DecisionSignal, SignalFrame
  <1> QED BY <1>1, <1>2, <1>3, <1>4, <1>5, <1>6, <1>7, <1>8, <1>9, <1>10, <1>11, <1>12, <1>13,
           <1>14, <1>15, <1>16, <1>17, <1>18, <1>19, <1>20, <1>21, <1>22, <1>23, <1>24, <1>25,
           <1>26, <1>27, <1>28, <1>29, <1>30, <1>31, <1>32, <1>33 DEF Next, Step, Signal, GateStep

\* The decision handed to a record activity is a real one of its gate.
LEMMA ArgType ==
  ASSUME TypeOK, ArgInv, NEW g \in Gates, pc = "recordDecision", status = GateStatus[g]
  PROVE  arg[g] \in Payloads[g]
  BY DecisionType DEF TypeOK, ArgInv

\* Every step keeps on record what a payment relies on.
LEMMA StepGate == TypeInv /\ GateInv /\ [Next]_vars => GateInv'
  <1> SUFFICES ASSUME TypeInv, GateInv, [Next]_vars PROVE GateInv'
    OBVIOUS
  <1> USE DEF TypeInv, BufferInv, GateInv, RecordInv, ArgInv, AfterPayment, FraudGate,
        FinanceGate, AssessedStatus, Await, SetStatus, OrWithdraw, Close, End, ControlStep,
        payout, closing, signals, rows, money, gating, GateStatus, Paying, PaidStatus
  <1>1. CASE StatusWritten
    BY <1>1 DEF StatusWritten, Installments
  <1>2. CASE RejectedWritten
    BY <1>2 DEF RejectedWritten
  <1>3. CASE ClosedWritten
    BY <1>3 DEF ClosedWritten
  <1>4. CASE WithdrawnWritten
    BY <1>4 DEF WithdrawnWritten
  <1>5. CASE Validated
    BY <1>5 DEF Validated
  <1>6. CASE ValidationFailureNotified
    BY <1>6 DEF ValidationFailureNotified
  <1>7. CASE FraudRulesEvaluated
    BY <1>7 DEF FraudRulesEvaluated
  <1>8. CASE InvestigationStarted
    BY <1>8 DEF InvestigationStarted
  <1>9. CASE InvestigationOver
    BY <1>9 DEF InvestigationOver
  <1>10. CASE FraudReviewRecorded
    <2>1. arg.fraud \in FraudDecisions /\ record' = [record EXCEPT !.fraud = arg.fraud]
      BY <1>10, ArgType DEF FraudReviewRecorded, Recorded, Gates, Payloads
    <2>2. FraudPasses(arg.fraud) => record'.fraud \in {"CLEAR", "REFER_TO_INVESTIGATION"}
      BY <2>1, ConstantsAssumption DEF FraudPasses, FraudReviewDecision, TypeOK, Decisions
    <2>3. pc' = "updateClaimStatus" /\ paidKeys = {}
          /\ status' = IF FraudPasses(arg.fraud) THEN "ASSESSMENT" ELSE "REJECTED"
      BY <1>10 DEF FraudReviewRecorded, Recorded
    <2> QED BY <1>10, <2>2, <2>3 DEF FraudReviewRecorded
  <1>11. CASE AssessmentRecorded
    <2>1. arg.assessment \in Nets /\ record' = [record EXCEPT !.assessment = arg.assessment]
      BY <1>11, ArgType DEF AssessmentRecorded, Recorded, Gates, Payloads
    <2>2. record'.assessment # None.assessment /\ record'.fraud = record.fraud
      BY <2>1, PayloadTypes DEF None, TypeOK, Decisions
    <2>3. pc' = "updateClaimStatus" /\ paidKeys = {} /\ status' \in {"REJECTED", "APPROVED"}
      BY <1>11 DEF AssessmentRecorded, Recorded
    <2> QED BY <1>11, <2>2, <2>3 DEF AssessmentRecorded, Recorded
  <1>12. CASE PayoutRequestCreated
    BY <1>12 DEF PayoutRequestCreated
  <1>13. CASE FinanceApprovalRecorded
    <2>1. arg.finance \in FinanceDecisions /\ record' = [record EXCEPT !.finance = arg.finance]
      BY <1>13, ArgType DEF FinanceApprovalRecorded, Recorded, Gates, Payloads
    <2>2. /\ record'.fraud = record.fraud /\ record'.assessment = record.assessment
          /\ record'.finance = arg.finance
      BY <2>1 DEF TypeOK, Decisions
    <2>3. FinancePasses(arg.finance) =>
              record'.finance.decision \notin {None.finance.decision, "REJECT"}
      BY <2>1, <2>2, ConstantsAssumption
      DEF FinancePasses, FinanceApprovalPayload, FinanceDecision, None
    <2>4. /\ pc = "recordDecision" /\ status = "FINANCE_REVIEW" /\ paidKeys = {}
          /\ paidKeys' = paidKeys /\ payoutRequested
          /\ UNCHANGED <<isFraudEscalated, payoutRequested>>
      BY <1>13 DEF FinanceApprovalRecorded, Recorded
    <2>5. \/ pc' = "updateClaimStatus" /\ status' \in {"REJECTED", "WITHDRAWN"}
          \/ pc' \in Paying \cup {"notifyPaid"} /\ status' = status /\ FinancePasses(arg.finance)
      BY <1>13 DEF FinanceApprovalRecorded, Installments
    <2> QED BY <2>2, <2>3, <2>4, <2>5
  <1>14. CASE DueDateReached
    BY <1>14 DEF DueDateReached
  <1>15. CASE InstallmentDisbursed
    BY <1>15 DEF InstallmentDisbursed, Transfer
  <1>16. CASE InstallmentFailed
    BY <1>16 DEF InstallmentFailed, Installments
  <1>17. CASE FullPayoutDisbursed
    BY <1>17 DEF FullPayoutDisbursed, Transfer
  <1>18. CASE FullPayoutFailed
    BY <1>18 DEF FullPayoutFailed
  <1>19. CASE PaidNotified
    BY <1>19 DEF PaidNotified
  <1>20. CASE ReopenExpired
    BY <1>20 DEF ReopenExpired
  <1>21. CASE ClaimReopened
    BY <1>21 DEF ClaimReopened
  <1>22. CASE ActivityThrows
    <2>1. pc' = "compensate" /\ UNCHANGED <<status, isFraudEscalated, arg>>
      BY <1>22 DEF ActivityThrows
    <2>2. CASE pc = "recordDecision"
      <3>1. paidKeys' = {}
        BY <1>22, <2>2 DEF ActivityThrows, Effect
      <3>2. \/ UNCHANGED record
            \/ \E g \in Gates : status = GateStatus[g] /\ record' = [record EXCEPT ![g] = arg[g]]
        BY <1>22, <2>2 DEF ActivityThrows, Effect
      <3>3. CASE UNCHANGED record
        BY <1>22, <2>1, <2>2, <3>1, <3>3 DEF ActivityThrows, Effect
      <3>4. ASSUME NEW g \in Gates, status = GateStatus[g],
            record' = [record EXCEPT ![g] = arg[g]]
            PROVE  /\ status \in {"ASSESSMENT", "FINANCE_REVIEW"} => record'.fraud = record.fraud
                   /\ status = "FINANCE_REVIEW" => record'.assessment = record.assessment
                   /\ status \in {"FRAUD_REVIEW", "ASSESSMENT", "FINANCE_REVIEW"}
        BY <3>4 DEF TypeOK, Decisions, Gates
      <3>5. payoutRequested' = payoutRequested
        BY <1>22, <2>2 DEF ActivityThrows, Effect
      <3> QED BY <2>1, <2>2, <3>1, <3>2, <3>3, <3>4, <3>5
    <2>3. CASE pc \in {"disburseInstallment", "disburseFull"}
      <3>1. UNCHANGED <<record, payoutRequested>>
        BY <1>22, <2>3 DEF ActivityThrows, Effect
      <3> QED BY <1>22, <2>1, <2>3, <3>1
    <2>4. CASE pc \notin {"recordDecision", "disburseInstallment", "disburseFull"}
      BY <1>22, <2>1, <2>4 DEF ActivityThrows, Effect
    <2> QED BY <2>2, <2>3, <2>4
  <1>23. CASE Compensated
    BY <1>23 DEF Compensated
  <1>24. ASSUME NEW g \in Gates, ReviewersNotified(g) PROVE GateInv'
    BY <1>24 DEF ReviewersNotified, Gates
  <1>25. ASSUME NEW g \in Gates, DecisionReceived(g) PROVE GateInv'
    <2>1. \A h \in Gates : status = GateStatus[h] => h = g
      BY <1>25 DEF DecisionReceived, Gates
    <2>2. arg'[g] # None[g]
      BY <1>25 DEF DecisionReceived, TypeOK, Decisions, Gates
    <2>3. ArgInv'
      BY <1>25, <2>1, <2>2 DEF DecisionReceived
    <2> QED BY <1>25, <2>3 DEF DecisionReceived, Gates
  <1>26. ASSUME NEW g \in Gates, WithdrawnAtGate(g) PROVE GateInv'
    BY <1>26 DEF WithdrawnAtGate, Gates
  <1>27. ASSUME NEW g \in Gates, GateTimedOut(g) PROVE GateInv'
    BY <1>27 DEF GateTimedOut, Gates
  <1>28. CASE InvestigationCompleteSignal
    BY <1>28 DEF InvestigationCompleteSignal, SignalFrame
  <1>29. CASE ReopenClaimSignal
    BY <1>29 DEF ReopenClaimSignal, SignalFrame
  <1>30. CASE WithdrawClaimSignal
    BY <1>30 DEF WithdrawClaimSignal, SignalFrame
  <1>31. CASE ExecutionTimedOut
    BY <1>31 DEF ExecutionTimedOut
  <1>32. CASE UNCHANGED vars
    BY <1>32 DEF vars
  <1>33. ASSUME NEW g \in Gates, DecisionSignal(g) PROVE GateInv'
    BY <1>33 DEF DecisionSignal, SignalFrame
  <1> QED BY <1>1, <1>2, <1>3, <1>4, <1>5, <1>6, <1>7, <1>8, <1>9, <1>10, <1>11, <1>12, <1>13,
           <1>14, <1>15, <1>16, <1>17, <1>18, <1>19, <1>20, <1>21, <1>22, <1>23, <1>24, <1>25,
           <1>26, <1>27, <1>28, <1>29, <1>30, <1>31, <1>32, <1>33 DEF Next, Step, Signal, GateStep

\* A transfer made with a withdrawal pending is the first of its kind.
LEMMA OneTransfer ==
  ASSUME WithdrawalInv, TypeOK, pc \in Paying, NEW key, NEW amount, Transfer(key, amount)
  PROVE  /\ transfersAfterWithdrawal' \in {0, 1} /\ paidKeys' # {}
         /\ transfersAfterWithdrawal' > 0 => withdrawPayload
  <1>1. transfersAfterWithdrawal = 0
    BY DEF WithdrawalInv, TypeOK
  <1>2. CASE key \in paidKeys
    BY <1>1, <1>2 DEF Transfer, money
  <1>3. CASE key \notin paidKeys
    BY <1>1, <1>3 DEF Transfer
  <1> QED BY <1>2, <1>3

\* Every step keeps an early withdrawal ahead of the finance decision.
LEMMA StepWithdrawal == TypeInv /\ GateInv /\ WithdrawalInv /\ [Next]_vars => WithdrawalInv'
  <1> SUFFICES ASSUME TypeInv, GateInv, WithdrawalInv, [Next]_vars PROVE WithdrawalInv'
    OBVIOUS
  <1> USE DEF TypeInv, BufferInv, GateInv, AfterPayment, WithdrawalInv, Await, SetStatus,
        OrWithdraw, Close, End, ControlStep, payout, closing, signals, rows, money, gating,
        GateStatus, Paying, PaidStatus
  <1>1. CASE StatusWritten
    BY <1>1 DEF StatusWritten, Installments
  <1>2. CASE RejectedWritten
    BY <1>2 DEF RejectedWritten
  <1>3. CASE ClosedWritten
    BY <1>3 DEF ClosedWritten
  <1>4. CASE WithdrawnWritten
    BY <1>4 DEF WithdrawnWritten
  <1>5. CASE Validated
    BY <1>5 DEF Validated
  <1>6. CASE ValidationFailureNotified
    BY <1>6 DEF ValidationFailureNotified
  <1>7. CASE FraudRulesEvaluated
    BY <1>7 DEF FraudRulesEvaluated
  <1>8. CASE InvestigationStarted
    BY <1>8 DEF InvestigationStarted
  <1>9. CASE InvestigationOver
    BY <1>9 DEF InvestigationOver
  <1>10. CASE FraudReviewRecorded
    BY <1>10 DEF FraudReviewRecorded, Recorded, FraudPasses
  <1>11. CASE AssessmentRecorded
    BY <1>11 DEF AssessmentRecorded, Recorded
  <1>12. CASE PayoutRequestCreated
    BY <1>12 DEF PayoutRequestCreated
  <1>13. CASE FinanceApprovalRecorded
    BY <1>13 DEF FinanceApprovalRecorded, Recorded, FinancePasses, Installments
  <1>14. CASE DueDateReached
    BY <1>14 DEF DueDateReached
  <1>15. CASE InstallmentDisbursed
    <2>1. "finance" \in accepted /\ accepted' = accepted /\ UNCHANGED <<withdrawnInTime,
          withdrawPayload>>
      BY <1>15 DEF InstallmentDisbursed
    <2>2. pc' = "updateClaimStatus"
      BY <1>15 DEF InstallmentDisbursed
    <2>3. PICK key, amount : Transfer(key, amount)
      BY <1>15, Zenon DEF InstallmentDisbursed
    <2>4. pc \in Paying
      BY <1>15 DEF InstallmentDisbursed
    <2>5. /\ transfersAfterWithdrawal' \in {0, 1} /\ paidKeys' # {}
          /\ transfersAfterWithdrawal' > 0 => withdrawPayload
      BY <2>3, <2>4, OneTransfer
    <2> QED BY <2>1, <2>2, <2>4, <2>5
  <1>16. CASE InstallmentFailed
    BY <1>16 DEF InstallmentFailed, Installments
  <1>17. CASE FullPayoutDisbursed
    <2>1. "finance" \in accepted /\ accepted' = accepted /\ UNCHANGED <<withdrawnInTime,
          withdrawPayload>>
      BY <1>17 DEF FullPayoutDisbursed
    <2>2. pc' = "updateClaimStatus"
      BY <1>17 DEF FullPayoutDisbursed
    <2>3. PICK key, amount : Transfer(key, amount)
      BY <1>17, Zenon DEF FullPayoutDisbursed
    <2>4. pc \in Paying
      BY <1>17 DEF FullPayoutDisbursed
    <2>5. /\ transfersAfterWithdrawal' \in {0, 1} /\ paidKeys' # {}
          /\ transfersAfterWithdrawal' > 0 => withdrawPayload
      BY <2>3, <2>4, OneTransfer
    <2> QED BY <2>1, <2>2, <2>4, <2>5
  <1>18. CASE FullPayoutFailed
    BY <1>18 DEF FullPayoutFailed
  <1>19. CASE PaidNotified
    BY <1>19 DEF PaidNotified
  <1>20. CASE ReopenExpired
    BY <1>20 DEF ReopenExpired
  <1>21. CASE ClaimReopened
    BY <1>21 DEF ClaimReopened
  <1>22. CASE ActivityThrows
    <2>1. pc' = "compensate" /\ UNCHANGED <<status, withdrawnInTime, withdrawPayload, accepted>>
      BY <1>22 DEF ActivityThrows
    <2>2. CASE UNCHANGED money
      BY <2>1, <2>2
    <2>3. CASE pc \in Paying /\ \E key, amount : Transfer(key, amount)
      <3>1. "finance" \in accepted
        BY <2>3
      <3> QED BY <2>1, <2>3, <3>1, OneTransfer
    <2> QED BY <1>22, <2>2, <2>3 DEF ActivityThrows, Effect
  <1>23. CASE Compensated
    BY <1>23 DEF Compensated
  <1>24. ASSUME NEW g \in Gates, ReviewersNotified(g) PROVE WithdrawalInv'
    BY <1>24 DEF ReviewersNotified, Gates
  <1>25. ASSUME NEW g \in Gates, DecisionReceived(g) PROVE WithdrawalInv'
    BY <1>25 DEF DecisionReceived, Gates
  <1>26. ASSUME NEW g \in Gates, WithdrawnAtGate(g) PROVE WithdrawalInv'
    BY <1>26 DEF WithdrawnAtGate, Gates
  <1>27. ASSUME NEW g \in Gates, GateTimedOut(g) PROVE WithdrawalInv'
    BY <1>27 DEF GateTimedOut, Gates
  <1>28. CASE InvestigationCompleteSignal
    BY <1>28 DEF InvestigationCompleteSignal, SignalFrame
  <1>29. CASE ReopenClaimSignal
    BY <1>29 DEF ReopenClaimSignal, SignalFrame
  <1>30. CASE WithdrawClaimSignal
    BY <1>30 DEF WithdrawClaimSignal, SignalFrame
  <1>31. CASE ExecutionTimedOut
    BY <1>31 DEF ExecutionTimedOut
  <1>32. CASE UNCHANGED vars
    BY <1>32 DEF vars
  <1>33. ASSUME NEW g \in Gates, DecisionSignal(g) PROVE WithdrawalInv'
    BY <1>33 DEF DecisionSignal, SignalFrame
  <1> QED BY <1>1, <1>2, <1>3, <1>4, <1>5, <1>6, <1>7, <1>8, <1>9, <1>10, <1>11, <1>12, <1>13,
           <1>14, <1>15, <1>16, <1>17, <1>18, <1>19, <1>20, <1>21, <1>22, <1>23, <1>24, <1>25,
           <1>26, <1>27, <1>28, <1>29, <1>30, <1>31, <1>32, <1>33 DEF Next, Step, Signal, GateStep

\* The initial states satisfy the three invariants.
LEMMA InitSafety == Init => GateInv /\ WithdrawalInv /\ FreshInv
  BY DEF Init, GateInv, RecordInv, ArgInv, AfterPayment, AssessedStatus, FraudGate, FinanceGate,
         WithdrawalInv, FreshInv, Paying, PaidStatus

\* A claim the fraud rules escalated never pays before a fraud review that lets it
\* through is recorded, whatever the decisions, schedules and interleavings.
THEOREM FraudGateHolds == Spec => []FraudGate
  <1>1. GateInv => FraudGate
    BY DEF GateInv
  <1> QED BY <1>1, InitTypeInv, StepType, InitSafety, StepGate, PTL DEF Spec

\* No claim pays before an assessment, a payout request and a finance decision other than
\* a rejection are recorded.
THEOREM FinanceGateHolds == Spec => []FinanceGate
  <1>1. GateInv => FinanceGate
    BY DEF GateInv
  <1> QED BY <1>1, InitTypeInv, StepType, InitSafety, StepGate, PTL DEF Spec

\* No gate ever acts on a decision signalled before its reviewers were asked.
THEOREM FreshDecisionsHold == Spec => []FreshDecisions
  <1>1. FreshInv => FreshDecisions
    BY DEF FreshInv, FreshDecisions
  <1> QED BY <1>1, InitTypeInv, StepType, InitSafety, StepFresh, PTL DEF Spec

\* A withdrawal signalled before the finance decision is accepted stops every payment, and
\* no withdrawal is ever followed by more than one transfer.
THEOREM WithdrawalHonouredHolds == Spec => []WithdrawalHonoured
  <1>1. WithdrawalInv => WithdrawalHonoured
    BY DEF WithdrawalInv, WithdrawalHonoured
  <1> QED BY <1>1, InitTypeInv, StepType, InitSafety, StepGate, StepWithdrawal, PTL DEF Spec

-----------------------------------------------------------------------------
(* The stage of the claim: what is awaited, its row and its payout          *)

GateStatuses == {"FRAUD_REVIEW", "ASSESSMENT", "FINANCE_REVIEW"}

\* What is awaited tells the status of the claim.
StatusAt ==
    /\ pc \in {"validate", "evaluateFraudRules"} => status = "VALIDATION_PENDING"
    /\ pc \in {"startInvestigation", "awaitInvestigation"} => status = "UNDER_INVESTIGATION"
    /\ pc = "notifyStakeholder" => status \in GateStatuses \cup {"VALIDATION_FAILED"}
    /\ pc \in {"awaitDecision", "recordDecision"} => status \in GateStatuses
    /\ pc \in {"createPayoutRequest", "disburseFull"} => status = "FINANCE_REVIEW"
    /\ pc \in {"awaitDueDate", "disburseInstallment", "notifyPaid"} =>
           status \in PaidStatus \cup {"FINANCE_REVIEW"}
    /\ pc = "awaitReopen" => status = "CLOSED"
    /\ pc = "reopenClaim" => status = "REOPENED"

\* The row is one write behind the status while that write is in flight, and agrees with
\* it otherwise.
RowInv ==
    /\ pc = "updateClaimStatus" => status \in Lifecycle[dbStatus] \cup {dbStatus}
    /\ pc = "reopenClaim" => dbStatus = "CLOSED"
    /\ pc \notin {"updateClaimStatus", "reopenClaim", "compensate", "ended"} =>
           dbStatus = status

\* The run has not come to the finance decision.
BeforeFinance ==
    \/ status \in {"VALIDATION_PENDING", "UNDER_INVESTIGATION", "FRAUD_REVIEW", "ASSESSMENT",
                   "APPROVED"}
    \/ status = "FINANCE_REVIEW" /\ pc \in {"updateClaimStatus", "createPayoutRequest",
                                            "notifyStakeholder", "awaitDecision",
                                            "recordDecision"}

\* One finance decision fills the record and the schedule, and a payout in full and a
\* schedule exclude each other.
PayoutInv ==
    /\ BeforeFinance => record.finance = None.finance /\ installments = <<>>
    /\ \/ installments = <<>>
       \/ \E p \in FinanceDecisions : installments = p.installments
    /\ installments # <<>> => 0 \notin paidKeys /\ pc # "disburseFull"
    /\ pc = "disburseFull" => paidKeys = {}
    /\ status \in PaidStatus => paidKeys # {}

StageInv ==
    /\ StatusAt /\ RowInv /\ PayoutInv
    /\ outcome # "running" => pc = "ended"

Inv == TypeInv /\ GateInv /\ StageInv

\* The edges of the lifecycle that the code writes along
LEMMA Edges ==
  /\ \A s \in ClaimWorkflowStatus : "WITHDRAWN" \in Lifecycle[s]
  /\ "VALIDATION_PENDING" \in Lifecycle["SUBMITTED"]
  /\ {"VALIDATION_FAILED", "UNDER_INVESTIGATION", "FRAUD_REVIEW", "ASSESSMENT"}
        \subseteq Lifecycle["VALIDATION_PENDING"]
  /\ "FRAUD_REVIEW" \in Lifecycle["UNDER_INVESTIGATION"]
  /\ {"ASSESSMENT", "REJECTED"} \subseteq Lifecycle["FRAUD_REVIEW"]
  /\ {"APPROVED", "REJECTED"} \subseteq Lifecycle["ASSESSMENT"]
  /\ "FINANCE_REVIEW" \in Lifecycle["APPROVED"]
  /\ {"PARTIALLY_PAID", "PAID", "REJECTED", "CLOSED"} \subseteq Lifecycle["FINANCE_REVIEW"]
  /\ {"PAID", "CLOSED"} \subseteq Lifecycle["PARTIALLY_PAID"]
  /\ {"PARTIALLY_PAID", "CLOSED"} \subseteq Lifecycle["PAID"]
  /\ "CLOSED" \in Lifecycle["VALIDATION_FAILED"] /\ "CLOSED" \in Lifecycle["REJECTED"]
  /\ "REOPENED" \in Lifecycle["CLOSED"]
  BY DEF Lifecycle, ClaimWorkflowStatus

\* The loop is at an installment, and no installment has the key of a full payout.
LEMMA InstallmentDue ==
  ASSUME TypeInv, pc = "disburseInstallment"
  PROVE  /\ next \in DOMAIN installments /\ installments # <<>>
         /\ installments[next].no # 0
  <1>1. /\ installments \in Seq(Installment) /\ next \in 1..Len(installments)
    BY DEF TypeInv, TypeOK, LoopInv
  <1>2. installments[next] \in Installment
    BY <1>1
  <1>3. next \in DOMAIN installments /\ installments # <<>>
    BY <1>1
  <1> QED BY <1>2, <1>3 DEF Installment

\* Every step keeps the stage.
LEMMA StepStage == Inv /\ [Next]_vars => StageInv'
  <1> SUFFICES ASSUME Inv, [Next]_vars PROVE StageInv'
    OBVIOUS
  <1> USE DEF Inv, StageInv, StatusAt, RowInv, PayoutInv, BeforeFinance, GateStatuses,
        TypeInv, GateInv, AfterPayment, PaidStatus, Paying, Await, SetStatus,
        OrWithdraw, Close, End, ControlStep, payout, closing, signals, rows, money, gating,
        GateStatus
  <1>1. CASE StatusWritten
    <2>1. CASE status \in PaidStatus
      <3>1. Installments(installments, next)
        BY <1>1, <2>1 DEF StatusWritten
      <3>2. installments \in Seq(Installment) /\ next \in Nat \ {0}
        BY DEF TypeOK
      <3>3. \/ pc' = "notifyPaid" /\ status' = status
            \/ pc' = "updateClaimStatus" /\ status' = "WITHDRAWN"
            \/ pc' \in {"awaitDueDate", "disburseInstallment"} /\ status' = status
        BY <3>1, <3>2, InstallmentsStep
      <3>4. dbStatus' = status /\ outcome = "running"
            /\ UNCHANGED <<outcome, record, installments, paidKeys>>
        BY <1>1 DEF StatusWritten
      <3>5. "WITHDRAWN" \in Lifecycle[status]
        BY Edges DEF TypeOK
      <3> QED BY <2>1, <3>3, <3>4, <3>5
    <2>2. CASE status \notin PaidStatus
      <3>1. "WITHDRAWN" \in Lifecycle[status]
        BY Edges DEF TypeOK
      <3>2. dbStatus' = status /\ outcome = "running" /\ pc = "updateClaimStatus"
            /\ UNCHANGED <<outcome, record, installments, paidKeys>>
        BY <1>1 DEF StatusWritten
      <3>3. \/ pc' = "updateClaimStatus" /\ status' \in {"WITHDRAWN", "FINANCE_REVIEW"}
               /\ status' \in Lifecycle[status] /\ (status' # "WITHDRAWN" => status = "APPROVED")
            \/ status' = status /\ status = "VALIDATION_PENDING" /\ pc' = "validate"
            \/ status' = status /\ status = "UNDER_INVESTIGATION" /\ pc' = "startInvestigation"
            \/ /\ status' = status /\ pc' = "notifyStakeholder"
               /\ status \in {"VALIDATION_FAILED", "FRAUD_REVIEW", "ASSESSMENT"}
            \/ status' = status /\ status = "FINANCE_REVIEW" /\ pc' = "createPayoutRequest"
        BY <1>1, <2>2, <3>1, Edges DEF StatusWritten
      <3> QED BY <3>2, <3>3
    <2> QED BY <2>1, <2>2
  <1>2. CASE RejectedWritten
    BY <1>2, Edges DEF RejectedWritten, TypeOK
  <1>3. CASE ClosedWritten
    BY <1>3, Edges DEF ClosedWritten, TypeOK
  <1>4. CASE WithdrawnWritten
    BY <1>4 DEF WithdrawnWritten
  <1>5. CASE Validated
    BY <1>5, Edges DEF Validated, TypeOK
  <1>6. CASE ValidationFailureNotified
    BY <1>6, Edges DEF ValidationFailureNotified, TypeOK
  <1>7. CASE FraudRulesEvaluated
    BY <1>7, Edges DEF FraudRulesEvaluated, TypeOK
  <1>8. CASE InvestigationStarted
    BY <1>8 DEF InvestigationStarted
  <1>9. CASE InvestigationOver
    BY <1>9, Edges DEF InvestigationOver, TypeOK
  <1>10. CASE FraudReviewRecorded
    <2>1. record'.finance = record.finance
      BY <1>10 DEF FraudReviewRecorded, Recorded, TypeOK, Decisions
    <2> QED BY <1>10, <2>1, Edges DEF FraudReviewRecorded, Recorded
  <1>11. CASE AssessmentRecorded
    <2>1. record'.finance = record.finance
      BY <1>11 DEF AssessmentRecorded, Recorded, TypeOK, Decisions
    <2> QED BY <1>11, <2>1, Edges DEF AssessmentRecorded, Recorded
  <1>12. CASE PayoutRequestCreated
    BY <1>12 DEF PayoutRequestCreated
  <1>13. CASE FinanceApprovalRecorded
    <2>1. /\ pc = "recordDecision" /\ status = "FINANCE_REVIEW" /\ dbStatus = status
          /\ paidKeys = {} /\ installments = <<>>
          /\ UNCHANGED <<dbStatus, paidKeys, outcome>> /\ outcome = "running"
      BY <1>13 DEF FinanceApprovalRecorded, Recorded
    <2>2. CASE SetStatus("REJECTED") /\ UNCHANGED <<installments, amountArg>>
      BY <2>1, <2>2, Edges
    <2>3. CASE /\ installments' = decision["finance"].installments
               /\ Installments(decision["finance"].installments, 1)
      <3>1. decision.finance \in FinanceDecisions
        BY <2>1 DEF BufferInv
      <3>2. decision.finance.installments \in Seq(Installment)
        BY <3>1, PayloadTypes
      <3>3. \E p \in FinanceDecisions : installments' = p.installments
        BY <2>3, <3>1
      <3>4. \/ pc' = "notifyPaid" /\ status' = status
            \/ pc' = "updateClaimStatus" /\ status' = "WITHDRAWN"
            \/ pc' \in {"awaitDueDate", "disburseInstallment"} /\ status' = status
        BY <2>3, <3>2, InstallmentsStep
      <3> QED BY <2>1, <3>3, <3>4, Edges DEF TypeOK
    <2>4. CASE Await("disburseFull") /\ UNCHANGED <<status, installments>>
      BY <2>1, <2>4
    <2> QED BY <1>13, <2>2, <2>3, <2>4 DEF FinanceApprovalRecorded
  <1>14. CASE DueDateReached
    BY <1>14 DEF DueDateReached
  <1>15. CASE InstallmentDisbursed
    <2>1. /\ pc' = "updateClaimStatus" /\ status' \in PaidStatus /\ dbStatus' = dbStatus
          /\ dbStatus \in PaidStatus \cup {"FINANCE_REVIEW"}
          /\ UNCHANGED <<installments, outcome>> /\ outcome = "running"
          /\ Transfer(installments[next].no, installments[next].amount)
      BY <1>15 DEF InstallmentDisbursed
    <2>2. installments # <<>> /\ installments[next].no # 0
      BY <1>15, InstallmentDue DEF InstallmentDisbursed
    <2>3. 0 \notin paidKeys' /\ paidKeys' # {}
      BY <2>1, <2>2 DEF Transfer
    <2>4. status' \in Lifecycle[dbStatus] \cup {dbStatus}
      BY <2>1, Edges
    <2> QED BY <2>1, <2>3, <2>4
  <1>16. CASE InstallmentFailed
    <2>1. Installments(installments, next + 1) /\ next + 1 \in Nat \ {0}
          /\ installments \in Seq(Installment)
      BY <1>16 DEF InstallmentFailed, TypeOK
    <2>2. \/ pc' = "notifyPaid" /\ status' = status
          \/ pc' = "updateClaimStatus" /\ status' = "WITHDRAWN"
          \/ pc' \in {"awaitDueDate", "disburseInstallment"} /\ status' = status
      BY <2>1, InstallmentsStep
    <2> QED BY <1>16, <2>2, Edges DEF InstallmentFailed, TypeOK
  <1>17. CASE FullPayoutDisbursed
    <2>1. installments = <<>> /\ installments' = installments
      BY <1>17 DEF FullPayoutDisbursed
    <2>2. paidKeys' # {}
      BY <1>17 DEF FullPayoutDisbursed, Transfer
    <2> QED BY <1>17, <2>1, <2>2, Edges DEF FullPayoutDisbursed
  <1>18. CASE FullPayoutFailed
    BY <1>18 DEF FullPayoutFailed
  <1>19. CASE PaidNotified
    BY <1>19, Edges DEF PaidNotified, TypeOK
  <1>20. CASE ReopenExpired
    BY <1>20 DEF ReopenExpired
  <1>21. CASE ClaimReopened
    BY <1>21 DEF ClaimReopened
  <1>22. CASE ActivityThrows
    <2>1. pc' = "compensate" /\ outcome' = outcome /\ status' = status
          /\ installments' = installments /\ pc \in Activities
      BY <1>22 DEF ActivityThrows
    <2>2. CASE UNCHANGED <<dbStatus, rows, money>>
      BY <2>1, <2>2 DEF Activities
    <2>3. CASE Effect
      <3>1. CASE UNCHANGED money
        <4>1. BeforeFinance' => record'.finance = record.finance
          BY <2>1, <2>3, <3>1 DEF Effect, TypeOK, Decisions, Gates
        <4> QED BY <2>1, <3>1, <4>1 DEF Activities
      <3>2. CASE pc \in {"disburseInstallment", "disburseFull"}
        <4>1. paidKeys \subseteq paidKeys' /\ record' = record
          BY <2>3, <3>2 DEF Effect, Transfer
        <4>2. installments # <<>> => 0 \notin paidKeys'
          <5>1. CASE pc = "disburseInstallment"
            BY <2>3, <5>1, InstallmentDue DEF Effect, Transfer
          <5>2. CASE pc = "disburseFull"
            BY <5>2
          <5> QED BY <3>2, <5>1, <5>2
        <4>3. ~BeforeFinance /\ ~BeforeFinance'
          BY <2>1, <3>2
        <4> QED BY <2>1, <3>2, <4>1, <4>2, <4>3
      <3> QED BY <2>3, <3>1, <3>2 DEF Effect
    <2> QED BY <1>22, <2>2, <2>3 DEF ActivityThrows
  <1>23. CASE Compensated
    BY <1>23 DEF Compensated
  <1>24. ASSUME NEW g \in Gates, ReviewersNotified(g) PROVE StageInv'
    BY <1>24 DEF ReviewersNotified, Gates
  <1>25. ASSUME NEW g \in Gates, DecisionReceived(g) PROVE StageInv'
    BY <1>25 DEF DecisionReceived, Gates
  <1>26. ASSUME NEW g \in Gates, WithdrawnAtGate(g) PROVE StageInv'
    BY <1>26, Edges DEF WithdrawnAtGate, Gates, TypeOK
  <1>27. ASSUME NEW g \in Gates, GateTimedOut(g) PROVE StageInv'
    BY <1>27, Edges DEF GateTimedOut, Gates, TypeOK
  <1>28. CASE InvestigationCompleteSignal
    BY <1>28 DEF InvestigationCompleteSignal, SignalFrame
  <1>29. CASE ReopenClaimSignal
    BY <1>29 DEF ReopenClaimSignal, SignalFrame
  <1>30. CASE WithdrawClaimSignal
    BY <1>30 DEF WithdrawClaimSignal, SignalFrame
  <1>31. CASE ExecutionTimedOut
    BY <1>31 DEF ExecutionTimedOut
  <1>32. CASE UNCHANGED vars
    BY <1>32 DEF vars
  <1>33. ASSUME NEW g \in Gates, DecisionSignal(g) PROVE StageInv'
    BY <1>33 DEF DecisionSignal, SignalFrame
  <1> QED BY <1>1, <1>2, <1>3, <1>4, <1>5, <1>6, <1>7, <1>8, <1>9, <1>10, <1>11,
           <1>12, <1>13, <1>14, <1>15, <1>16, <1>17, <1>18, <1>19, <1>20, <1>21,
           <1>22, <1>23, <1>24, <1>25, <1>26, <1>27, <1>28, <1>29, <1>30, <1>31,
           <1>32, <1>33
           DEF Next, Step, Signal, GateStep

\* The stage at first
LEMMA InitStage == Init => StageInv
  BY Edges DEF Init, StageInv, StatusAt, RowInv, PayoutInv, BeforeFinance, GateStatuses,
               PaidStatus

-----------------------------------------------------------------------------
(* Sums along a schedule                                                   *)

\* A set of numbers that is not empty has a least element.
LEMMA LeastNumber ==
  ASSUME NEW S \in SUBSET Nat, S # {}
  PROVE  \E m \in S : \A n \in S : ~(n < m)
  <1> DEFINE R == OpToRel(<, Nat)
  <1>1. IsWellFoundedOn(R, Nat)
    BY NatLessThanWellFounded
  <1>2. \A m, n \in Nat : n < m => <<n, m>> \in R
    BY DEF OpToRel
  <1> HIDE DEF R
  <1>3. PICK m \in S : \A n \in S : ~ (<<n, m>> \in R)
    BY <1>1, WFMin
  <1> QED BY <1>2, <1>3

\* A set that has 0, and the successor of whatever number it has, has every number.
LEMMA Induction ==
  ASSUME NEW S \in SUBSET Nat, 0 \in S, \A n \in S : n + 1 \in S
  PROVE  \A n \in Nat : n \in S
  <1> SUFFICES ASSUME Nat \ S # {} PROVE FALSE
    OBVIOUS
  <1>1. PICK m \in Nat \ S : \A n \in Nat \ S : ~(n < m)
    BY LeastNumber
  <1> QED BY <1>1, m - 1 \in S

\* The sums of a schedule's first installments: they are amounts, and each one is the
\* sum before it and an installment.
LEMMA RunningTotalDef ==
  ASSUME NEW seq \in Seq(Installment)
  PROVE  /\ RunningTotal(seq) \in [0..Len(seq) -> Nat]
         /\ RunningTotal(seq)[0] = 0
         /\ \A n \in 1..Len(seq) :
                RunningTotal(seq)[n] = RunningTotal(seq)[n - 1] + seq[n].amount
  <1> DEFINE Sums(n) == {g \in [0..n -> Nat] :
                            g[0] = 0 /\ \A i \in 1..n : g[i] = g[i - 1] + seq[i].amount}
             Unfolded(g) == [n \in 0..Len(seq) |-> IF n = 0 THEN 0 ELSE g[n - 1] + seq[n].amount]
             S == {n \in Nat : n <= Len(seq) => Sums(n) # {}}
             total == RunningTotal(seq)
             T == {n \in Nat : n <= Len(seq) => total[n] \in Nat}
  <1>1. \A n \in 1..Len(seq) : seq[n].amount \in Nat
    <2>1. \A n \in 1..Len(seq) : seq[n] \in Installment
      OBVIOUS
    <2> QED BY <2>1 DEF Installment
  <1>2. Sums(0) # {}
    <2>1. [i \in 0..0 |-> 0] \in Sums(0)
      OBVIOUS
    <2> QED BY <2>1
  <1>3. ASSUME NEW n \in Nat, n + 1 <= Len(seq), Sums(n) # {}
        PROVE  Sums(n + 1) # {}
    <2>1. PICK g \in [0..n -> Nat] :
              g[0] = 0 /\ \A i \in 1..n : g[i] = g[i - 1] + seq[i].amount
      BY <1>3
    <2> DEFINE h == [i \in 0..(n + 1) |->
                        IF i = n + 1 THEN g[n] + seq[n + 1].amount ELSE g[i]]
    <2>2. seq[n + 1].amount \in Nat
      BY <1>1, <1>3
    <2>3. h \in [0..(n + 1) -> Nat]
      BY <2>1, <2>2
    <2>4. ASSUME NEW i \in 1..(n + 1) PROVE h[i] = h[i - 1] + seq[i].amount
      <3>1. CASE i = n + 1
        BY <3>1
      <3>2. CASE i \in 1..n
        BY <2>1, <3>2
      <3> QED BY <3>1, <3>2
    <2>5. h[0] = 0
      BY <2>1
    <2> HIDE DEF h
    <2> QED BY <2>3, <2>4, <2>5
  <1>4. Sums(Len(seq)) # {}
    <2> HIDE DEF Sums
    <2>1. 0 \in S /\ \A n \in S : n + 1 \in S
      BY <1>2, <1>3
    <2>2. S \in SUBSET Nat
      OBVIOUS
    <2>3. Len(seq) \in S
      <3> HIDE DEF S
      <3> QED BY <2>1, <2>2, Induction
    <2> QED BY <2>3
  <1>5. \E g : g = Unfolded(g)
    <2>1. PICK g \in [0..Len(seq) -> Nat] :
              g[0] = 0 /\ \A i \in 1..Len(seq) : g[i] = g[i - 1] + seq[i].amount
      BY <1>4
    <2>2. g = Unfolded(g)
      BY <2>1
    <2> QED BY <2>2
  <1>6. total = CHOOSE g : g = Unfolded(g)
    BY DEF RunningTotal
  <1>7. total = Unfolded(total)
    BY <1>5, <1>6
  <1> HIDE DEF total
  <1>8. total[0] = 0 /\ \A n \in 1..Len(seq) : total[n] = total[n - 1] + seq[n].amount
    BY <1>7
  <1>9. \A n \in Nat : n \in T
    <2>1. 0 \in T
      BY <1>8
    <2>2. ASSUME NEW n \in T PROVE n + 1 \in T
      BY <1>1, <1>8
    <2>3. T \in SUBSET Nat
      OBVIOUS
    <2> HIDE DEF T
    <2> QED BY <2>1, <2>2, <2>3, Induction
  <1>10. total \in [0..Len(seq) -> Nat]
    BY <1>7, <1>9
  <1> QED BY <1>8, <1>10 DEF total

\* The sums grow along the schedule.
LEMMA RunningTotalStep ==
  ASSUME NEW seq \in Seq(Installment), NEW n \in 1..Len(seq)
  PROVE  RunningTotal(seq)[n - 1] <= RunningTotal(seq)[n]
  <1>1. seq[n].amount \in Nat
    <2>1. seq[n] \in Installment
      OBVIOUS
    <2> QED BY <2>1 DEF Installment
  <1>2. RunningTotal(seq)[n - 1] \in Nat
    BY RunningTotalDef
  <1> QED BY <1>1, <1>2, RunningTotalDef

\* No sum exceeds that of the whole schedule.
LEMMA RunningTotalGrows ==
  ASSUME NEW seq \in Seq(Installment), NEW n \in 0..Len(seq)
  PROVE  RunningTotal(seq)[n] <= ScheduleTotal(seq)
  <1> DEFINE total == RunningTotal(seq)
             S == {k \in Nat : k <= Len(seq) => total[Len(seq) - k] <= total[Len(seq)]}
  <1>1. /\ total \in [0..Len(seq) -> Nat]
        /\ \A i \in 1..Len(seq) : total[i] = total[i - 1] + seq[i].amount
    BY RunningTotalDef
  <1>a. Len(seq) \in Nat /\ \A i \in 0..Len(seq) : total[i] \in Nat
    BY <1>1
  <1>2. \A i \in 1..Len(seq) : total[i - 1] <= total[i]
    BY RunningTotalStep
  <1> HIDE DEF total
  <1>3. 0 \in S
    BY <1>1
  <1>4. ASSUME NEW k \in S PROVE k + 1 \in S
    <2> SUFFICES ASSUME k + 1 <= Len(seq)
                 PROVE  total[Len(seq) - (k + 1)] <= total[Len(seq)]
      OBVIOUS
    <2> DEFINE i == Len(seq) - k
    <2>1. i \in 1..Len(seq) /\ i - 1 = Len(seq) - (k + 1) /\ total[i] <= total[Len(seq)]
      OBVIOUS
    <2> HIDE DEF i
    <2>2. total[i - 1] \in Nat /\ total[i] \in Nat /\ total[Len(seq)] \in Nat
      BY <1>a, <2>1
    <2>3. total[i - 1] <= total[i]
      BY <1>2, <2>1
    <2>4. total[i - 1] <= total[Len(seq)]
      BY <2>1, <2>2, <2>3
    <2> QED BY <2>1, <2>4
  <1>5. S \in SUBSET Nat
    OBVIOUS
  <1>6. Len(seq) - n \in S
    <2> HIDE DEF S
    <2> QED BY <1>3, <1>4, <1>5, Induction
  <1> QED BY <1>6 DEF total, ScheduleTotal

-----------------------------------------------------------------------------
(* What the amounts rest on                                                *)

\* Gate g has not taken a decision yet.
EarlierStatus ==
    [fraud |-> {"VALIDATION_PENDING", "UNDER_INVESTIGATION"},
     assessment |-> {"VALIDATION_PENDING", "UNDER_INVESTIGATION", "FRAUD_REVIEW"},
     finance |-> {"VALIDATION_PENDING", "UNDER_INVESTIGATION", "FRAUD_REVIEW", "ASSESSMENT",
                  "APPROVED"}]

BeforeGate(g) ==
    \/ status \in EarlierStatus[g]
    \/ status = GateStatus[g] /\ pc \in {"updateClaimStatus", "createPayoutRequest",
                                         "notifyStakeholder", "awaitDecision"}

\* A gate takes one decision, and it is in flight or on record only once it is taken.
TakenInv ==
    \A g \in Gates :
        /\ BeforeGate(g) => g \notin accepted
        /\ g \notin accepted => arg[g] = None[g] /\ record[g] = None[g]

\* Until another decision is signalled the buffer holds what was taken and recorded.
SameInv ==
    ~overtaken => \A g \in Gates :
        /\ arg[g] # None[g] => decision[g] = arg[g]
        /\ record[g] # None[g] => decision[g] = record[g]

\* Money leaves installment by installment, and never more than those the loop is past
\* amount to; the keys used are theirs.
LoopMoneyInv ==
    /\ paidKeys = {} => moneyOut = 0 /\ totalPaid = 0
    /\ next <= Len(installments) + 1
    /\ installments # <<>> =>
        /\ moneyOut <= ScheduleTotal(installments)
        /\ pc \notin {"compensate", "ended"} =>
              /\ moneyOut <= RunningTotal(installments)[next - 1]
              /\ paidKeys \subseteq {installments[i].no : i \in 1..(next - 1)}
    /\ installments = <<>> /\ paidKeys # {} => moneyOut <= amountArg

\* The payout follows the recorded decision, as long as no other one is signalled.
AgreedInv ==
    ~overtaken =>
        /\ installments # <<>> =>
              /\ IsPartialPayout(record.finance)
              /\ installments = record.finance.installments
        /\ pc = "disburseFull" \/ (installments = <<>> /\ paidKeys # {}) =>
              /\ ~IsPartialPayout(record.finance)
              /\ amountArg = AmountDue(record.finance, record.assessment)

\* What is reported as paid has left, and PAID is written once enough has.
ReportedInv ==
    ~overtaken /\ DistinctNumbers(installments) =>
        /\ totalPaid <= moneyOut
        /\ status = "PAID" \/ dbStatus = "PAID" =>
            moneyOut >= AmountDue(record.finance, record.assessment) - Tolerance

-----------------------------------------------------------------------------
(* How money moves                                                         *)

\* The run is over, or about to be.
Over == {"compensate", "ended"}

\* Money moves, and the schedule with it, in five steps of the run alone.
LEMMA MoneyKept ==
  ASSUME [Next]_vars, ~FinanceApprovalRecorded, ~InstallmentDisbursed, ~InstallmentFailed,
         ~FullPayoutDisbursed, ~ActivityThrows
  PROVE  /\ UNCHANGED <<installments, next, amountArg, totalPaid, paidKeys, moneyOut>>
         /\ pc \in Over => pc' \in Over
  <1> USE DEF Over, Await, SetStatus, OrWithdraw, Close, End, ControlStep, payout, closing,
        signals, rows, money, gating
  <1> DEFINE Goal == /\ UNCHANGED <<installments, next, amountArg, totalPaid, paidKeys,
                                    moneyOut>>
                     /\ pc \in Over => pc' \in Over
  <1>1. CASE StatusWritten \/ RejectedWritten \/ ClosedWritten \/ WithdrawnWritten
    BY <1>1 DEF StatusWritten, RejectedWritten, ClosedWritten, WithdrawnWritten, Installments
  <1>2. CASE \/ Validated \/ ValidationFailureNotified \/ FraudRulesEvaluated
             \/ InvestigationStarted \/ InvestigationOver
    BY <1>2 DEF Validated, ValidationFailureNotified, FraudRulesEvaluated,
         InvestigationStarted, InvestigationOver
  <1>3. ASSUME NEW g \in Gates, GateStep(g) PROVE Goal
    BY <1>3 DEF GateStep, ReviewersNotified, DecisionReceived, WithdrawnAtGate, GateTimedOut
  <1>4. CASE FraudReviewRecorded \/ AssessmentRecorded \/ PayoutRequestCreated
    BY <1>4 DEF FraudReviewRecorded, AssessmentRecorded, PayoutRequestCreated, Recorded
  <1>5. CASE DueDateReached \/ FullPayoutFailed \/ PaidNotified \/ ReopenExpired \/ ClaimReopened
    BY <1>5 DEF DueDateReached, FullPayoutFailed, PaidNotified, ReopenExpired, ClaimReopened
  <1>6. CASE Compensated \/ ExecutionTimedOut
    BY <1>6 DEF Compensated, ExecutionTimedOut
  <1>7. CASE Signal
    BY <1>7 DEF Signal, DecisionSignal, InvestigationCompleteSignal, ReopenClaimSignal,
         WithdrawClaimSignal, SignalFrame
  <1>8. CASE UNCHANGED vars
    BY <1>8 DEF vars
  <1> QED BY <1>1, <1>2, <1>3, <1>4, <1>5, <1>6, <1>7, <1>8 DEF Next, Step

\* The installment the loop is at, and what it adds to the sum of those the loop is past
LEMMA NextInstallment ==
  ASSUME TypeInv, pc = "disburseInstallment"
  PROVE  LET total == RunningTotal(installments)
         IN  /\ next \in 1..Len(installments) /\ installments # <<>>
             /\ installments[next].amount \in Nat /\ installments[next].no \in Nat
             /\ total[next - 1] \in Nat /\ total[next] \in Nat
             /\ total[next] = total[next - 1] + installments[next].amount
             /\ total[next] <= ScheduleTotal(installments)
             /\ ScheduleTotal(installments) \in Nat
  <1> DEFINE total == RunningTotal(installments)
  <1>1. installments \in Seq(Installment) /\ next \in 1..Len(installments)
    BY DEF TypeInv, TypeOK, LoopInv
  <1>2. installments[next] \in Installment /\ installments # <<>>
    BY <1>1
  <1>3. installments[next].amount \in Nat /\ installments[next].no \in Nat
    BY <1>2 DEF Installment
  <1>4. /\ total \in [0..Len(installments) -> Nat]
        /\ total[next] = total[next - 1] + installments[next].amount
    BY <1>1, RunningTotalDef
  <1>5. total[next] <= ScheduleTotal(installments)
    BY <1>1, RunningTotalGrows
  <1>6. total[next - 1] \in Nat /\ total[next] \in Nat /\ total[Len(installments)] \in Nat
    <2> HIDE DEF total
    <2> QED BY <1>1, <1>4
  <1> QED BY <1>1, <1>2, <1>3, <1>4, <1>5, <1>6 DEF ScheduleTotal

\* Every step keeps the money within the part of the schedule that the loop is past, and
\* the keys those of that part.
LEMMA StepLoopMoney ==
  ASSUME Inv, LoopMoneyInv, [Next]_vars
  PROVE  LoopMoneyInv'
  <1> USE DEF Inv, LoopMoneyInv, Over
  <1>t. /\ installments \in Seq(Installment) /\ next \in Nat \ {0} /\ paidKeys \subseteq Nat
        /\ moneyOut \in Nat /\ amountArg \in Nat /\ totalPaid \in Nat
    BY DEF TypeInv, TypeOK
  <1>1. CASE FinanceApprovalRecorded
    <2>1. /\ paidKeys = {} /\ UNCHANGED <<paidKeys, moneyOut, totalPaid>> /\ next' = 1
          /\ pc = "recordDecision" /\ status = "FINANCE_REVIEW" /\ installments = <<>>
      BY <1>1 DEF FinanceApprovalRecorded, Recorded, GateInv, AfterPayment, Paying, money,
           GateStatus, StageInv, PayoutInv, BeforeFinance
    <2>2. installments' \in Seq(Installment)
      <3>1. decision["finance"].installments \in Seq(Installment)
        BY <2>1, PayloadTypes DEF TypeInv, BufferInv
      <3> QED BY <1>1, <1>t, <3>1 DEF FinanceApprovalRecorded
    <2>3. RunningTotal(installments')[0] = 0 /\ 0 <= ScheduleTotal(installments')
      <3>1. /\ RunningTotal(installments')[0] = 0
            /\ RunningTotal(installments')[0] <= ScheduleTotal(installments')
        BY <2>2, RunningTotalDef, RunningTotalGrows
      <3> QED BY <3>1
    <2> QED BY <2>1, <2>2, <2>3
  <1>3. CASE InstallmentDisbursed
    <2> DEFINE amount == installments[next].amount
               key == installments[next].no
               total == RunningTotal(installments)
    <2>1. /\ pc = "disburseInstallment" /\ Transfer(key, amount)
          /\ next' = next + 1 /\ UNCHANGED <<installments, amountArg>>
      BY <1>3 DEF InstallmentDisbursed
    <2>2. next \in 1..Len(installments) /\ installments # <<>>
      BY <2>1, NextInstallment
    <2>3. amount \in Nat /\ key \in Nat
      BY <2>1, NextInstallment
    <2>4. /\ total[next] = total[next - 1] + amount /\ total[next] <= ScheduleTotal(installments)
          /\ total[next] \in Nat /\ total[next - 1] \in Nat
          /\ ScheduleTotal(installments) \in Nat
      BY <2>1, NextInstallment
    <2>p. /\ moneyOut <= total[next - 1] /\ moneyOut <= ScheduleTotal(installments)
          /\ paidKeys \subseteq {installments[i].no : i \in 1..(next - 1)}
      BY <2>1, <2>2
    <2> HIDE DEF amount, key, total
    <2>5. /\ paidKeys' = paidKeys \cup {key}
          /\ moneyOut' \in {moneyOut, moneyOut + amount}
      BY <2>1 DEF Transfer, money
    <2>6. moneyOut' <= total[next] /\ moneyOut' <= ScheduleTotal(installments)
      BY <1>t, <2>p, <2>3, <2>4, <2>5
    <2>7. paidKeys' \subseteq {installments[i].no : i \in 1..next}
      <3>2. key \in {installments[i].no : i \in 1..next}
        BY <1>t, <2>2 DEF key
      <3>3. {installments[i].no : i \in 1..(next - 1)}
               \subseteq {installments[i].no : i \in 1..next}
        BY <1>t
      <3> QED BY <2>5, <2>p, <3>2, <3>3
    <2>8. next' - 1 = next /\ next' <= Len(installments) + 1 /\ paidKeys' # {}
      BY <1>t, <2>1, <2>2, <2>5
    <2> QED BY <2>1, <2>2, <2>6, <2>7, <2>8 DEF total
  <1>4. CASE InstallmentFailed
    <2>1. /\ pc = "disburseInstallment" /\ next' = next + 1
          /\ UNCHANGED <<installments, amountArg, moneyOut, paidKeys, totalPaid>>
      BY <1>4 DEF InstallmentFailed, money
    <2>2. next \in 1..Len(installments) /\ installments # <<>>
      BY <2>1, NextInstallment
    <2>3. /\ RunningTotal(installments)[next - 1] <= RunningTotal(installments)[next]
          /\ RunningTotal(installments)[next] \in Nat
          /\ RunningTotal(installments)[next - 1] \in Nat
      BY <2>1, NextInstallment
    <2>4. {installments[i].no : i \in 1..(next - 1)}
             \subseteq {installments[i].no : i \in 1..next}
      BY <1>t
    <2>5. next' - 1 = next /\ next' <= Len(installments) + 1
      BY <1>t, <2>1, <2>2
    <2>6. moneyOut <= RunningTotal(installments)[next]
      BY <1>t, <2>1, <2>2, <2>3
    <2> QED BY <2>1, <2>2, <2>4, <2>5, <2>6
  <1>5. CASE FullPayoutDisbursed
    <2>1. /\ pc = "disburseFull" /\ Transfer(0, amountArg) /\ installments = <<>>
          /\ UNCHANGED <<installments, amountArg, next>> /\ paidKeys = {}
      BY <1>5 DEF FullPayoutDisbursed, StageInv, PayoutInv
    <2>2. paidKeys' # {} /\ moneyOut' = moneyOut + amountArg /\ moneyOut = 0
      BY <2>1 DEF Transfer
    <2> QED BY <1>t, <2>1, <2>2
  <1>6. CASE ActivityThrows
    <2>1. /\ pc' = "compensate" /\ UNCHANGED <<installments, next, amountArg, totalPaid>>
      BY <1>6 DEF ActivityThrows, payout, Await
    <2>2. CASE UNCHANGED <<paidKeys, moneyOut>>
      BY <2>1, <2>2
    <2>3. CASE pc = "disburseFull" /\ Transfer(0, amountArg)
      <3>1. paidKeys = {} /\ installments = <<>> /\ moneyOut = 0
        BY <2>3 DEF StageInv, PayoutInv
      <3>2. paidKeys' # {} /\ moneyOut' = moneyOut + amountArg
        BY <2>3, <3>1 DEF Transfer
      <3> QED BY <1>t, <2>1, <3>1, <3>2
    <2>4. CASE /\ pc = "disburseInstallment"
               /\ Transfer(installments[next].no, installments[next].amount)
      <3> DEFINE amount == installments[next].amount
                 total == RunningTotal(installments)
      <3>1. next \in 1..Len(installments) /\ installments # <<>> /\ amount \in Nat
        BY <2>4, NextInstallment
      <3>3. /\ total[next] = total[next - 1] + amount
            /\ total[next] <= ScheduleTotal(installments)
            /\ total[next] \in Nat /\ total[next - 1] \in Nat
            /\ ScheduleTotal(installments) \in Nat
        BY <2>4, NextInstallment
      <3>p. moneyOut <= total[next - 1]
        BY <2>4, <3>1
      <3> HIDE DEF amount, total
      <3>4. moneyOut' \in {moneyOut, moneyOut + amount} /\ paidKeys' # {}
        BY <2>4 DEF Transfer, money, amount
      <3>5. moneyOut' <= ScheduleTotal(installments)
        BY <1>t, <3>p, <3>1, <3>3, <3>4
      <3> QED BY <2>1, <3>1, <3>4, <3>5
    <2>5. Effect => \/ UNCHANGED money
                    \/ pc = "disburseFull" /\ Transfer(0, amountArg)
                    \/ /\ pc = "disburseInstallment"
                       /\ Transfer(installments[next].no, installments[next].amount)
      BY Zenon DEF Effect
    <2> QED BY <1>6, <2>2, <2>3, <2>4, <2>5 DEF ActivityThrows, money
  <1>7. CASE UNCHANGED <<installments, next, amountArg, totalPaid, paidKeys, moneyOut>>
             /\ (pc \in Over => pc' \in Over)
    BY <1>7
  <1> QED BY <1>1, <1>3, <1>4, <1>5, <1>6, <1>7, MoneyKept
-----------------------------------------------------------------------------
(* The buffers, the decisions in flight and the record                     *)

\* Setting one gate's decision leaves the others'.
LEMMA Updated ==
  ASSUME NEW d \in Decisions, NEW g \in Gates, NEW h \in Gates, NEW p
  PROVE  [d EXCEPT ![h] = p][g] = IF g = h THEN p ELSE d[g]
  BY DEF Decisions, Gates

\* What is signalled is never the empty buffer.
LEMMA SignalledIsReal ==
  ASSUME NEW g \in Gates, NEW p \in Payloads[g]
  PROVE  p # None[g]
  <1>1. CASE g = "fraud"
    BY <1>1, ConstantsAssumption DEF Payloads, None, FraudReviewDecision
  <1>2. CASE g = "assessment"
    BY <1>2, ConstantsAssumption DEF Payloads, None
  <1>3. CASE g = "finance"
    <2>1. p.decision # "none"
      BY <1>3, ConstantsAssumption DEF Payloads, FinanceApprovalPayload, FinanceDecision
    <2> QED BY <1>3, <2>1 DEF None
  <1> QED BY <1>1, <1>2, <1>3 DEF Gates

\* The decision in flight at gate g is written to its row.
RowRecorded(g) ==
    /\ pc = "recordDecision" /\ status = GateStatus[g]
    /\ record' = [record EXCEPT ![g] = arg[g]]
    /\ arg' \in {arg, [arg EXCEPT ![g] = None[g]]}
    /\ UNCHANGED <<decision, accepted, overtaken>>

\* A decision changes place in four ways: its buffer is emptied or filled, it is taken, or
\* it is written to its row.
LEMMA DecisionMoves ==
  ASSUME [Next]_vars
  PROVE  \/ \E g \in Gates : \/ ReviewersNotified(g) \/ DecisionSignal(g)
                             \/ DecisionReceived(g) \/ RowRecorded(g)
         \/ UNCHANGED <<decision, arg, record, accepted, overtaken>>
  <1> USE DEF Close, End, ControlStep, payout, closing, signals, rows, money, gating
  <1> DEFINE Kept5 == UNCHANGED <<decision, arg, record, accepted, overtaken>>
             Written == \E g \in Gates : RowRecorded(g)
  <1>1. CASE StatusWritten \/ RejectedWritten \/ ClosedWritten \/ WithdrawnWritten
    BY <1>1 DEF StatusWritten, RejectedWritten, ClosedWritten, WithdrawnWritten
  <1>2. CASE \/ Validated \/ ValidationFailureNotified \/ FraudRulesEvaluated
             \/ InvestigationStarted \/ InvestigationOver
    BY <1>2 DEF Validated, ValidationFailureNotified, FraudRulesEvaluated,
         InvestigationStarted, InvestigationOver
  <1>3. ASSUME NEW g \in Gates, WithdrawnAtGate(g) \/ GateTimedOut(g) PROVE Kept5
    BY <1>3 DEF WithdrawnAtGate, GateTimedOut
  <1>4. CASE FraudReviewRecorded \/ AssessmentRecorded \/ FinanceApprovalRecorded
    BY <1>4 DEF FraudReviewRecorded, AssessmentRecorded, FinanceApprovalRecorded, Recorded,
         RowRecorded, Gates
  <1>5. CASE \/ PayoutRequestCreated \/ DueDateReached \/ InstallmentDisbursed
             \/ InstallmentFailed \/ FullPayoutDisbursed \/ FullPayoutFailed
    BY <1>5 DEF PayoutRequestCreated, DueDateReached, InstallmentDisbursed,
         InstallmentFailed, FullPayoutDisbursed, FullPayoutFailed
  <1>6. CASE PaidNotified \/ ReopenExpired \/ ClaimReopened \/ Compensated \/ ExecutionTimedOut
    BY <1>6 DEF PaidNotified, ReopenExpired, ClaimReopened, Compensated, ExecutionTimedOut
  <1>7. CASE ActivityThrows
    <2>1. UNCHANGED <<decision, arg, accepted, overtaken>>
      BY <1>7 DEF ActivityThrows
    <2>2. Effect \/ UNCHANGED record
      BY <1>7 DEF ActivityThrows
    <2>3. Effect => Written \/ UNCHANGED record
      BY <2>1 DEF Effect, RowRecorded
    <2> QED BY <2>1, <2>2, <2>3
  <1>8. CASE InvestigationCompleteSignal \/ ReopenClaimSignal \/ WithdrawClaimSignal
    BY <1>8 DEF InvestigationCompleteSignal, ReopenClaimSignal, WithdrawClaimSignal, SignalFrame
  <1>9. CASE UNCHANGED vars
    BY <1>9 DEF vars
  <1> QED BY <1>1, <1>2, <1>3, <1>4, <1>5, <1>6, <1>7, <1>8, <1>9
          DEF Next, Step, Signal, GateStep

\* A run that is past a gate does not come back to it.
LEMMA NeverBack ==
  ASSUME Inv, [Next]_vars, NEW g \in Gates, BeforeGate(g)'
  PROVE  BeforeGate(g)
  <1> USE DEF BeforeGate, EarlierStatus, GateStatus, Gates, Inv, StageInv, StatusAt,
        GateStatuses, PaidStatus, Await, SetStatus, OrWithdraw, Close, End, ControlStep,
        Installments
  <1>1. CASE StatusWritten
    BY <1>1 DEF StatusWritten
  <1>2. CASE RejectedWritten \/ ClosedWritten \/ WithdrawnWritten
    BY <1>2 DEF RejectedWritten, ClosedWritten, WithdrawnWritten
  <1>3. CASE \/ Validated \/ ValidationFailureNotified \/ FraudRulesEvaluated
             \/ InvestigationStarted \/ InvestigationOver
    BY <1>3 DEF Validated, ValidationFailureNotified, FraudRulesEvaluated,
         InvestigationStarted, InvestigationOver
  <1>4. ASSUME NEW h \in Gates, GateStep(h) PROVE BeforeGate(g)
    BY <1>4 DEF GateStep, ReviewersNotified, DecisionReceived, WithdrawnAtGate, GateTimedOut
  <1>5. CASE FraudReviewRecorded \/ AssessmentRecorded \/ PayoutRequestCreated
    BY <1>5 DEF FraudReviewRecorded, AssessmentRecorded, PayoutRequestCreated, Recorded
  <1>6. CASE FinanceApprovalRecorded
    BY <1>6 DEF FinanceApprovalRecorded, Recorded
  <1>7. CASE \/ DueDateReached \/ InstallmentDisbursed \/ InstallmentFailed
             \/ FullPayoutDisbursed \/ FullPayoutFailed
    BY <1>7 DEF DueDateReached, InstallmentDisbursed, InstallmentFailed, FullPayoutDisbursed,
         FullPayoutFailed
  <1>8. CASE PaidNotified \/ ReopenExpired \/ ClaimReopened
    BY <1>8 DEF PaidNotified, ReopenExpired, ClaimReopened
  <1>9. CASE ActivityThrows \/ Compensated \/ ExecutionTimedOut
    BY <1>9 DEF ActivityThrows, Compensated, ExecutionTimedOut
  <1>10. CASE Signal
    BY <1>10 DEF Signal, DecisionSignal, InvestigationCompleteSignal, ReopenClaimSignal,
         WithdrawClaimSignal, SignalFrame
  <1>11. CASE UNCHANGED vars
    BY <1>11 DEF vars
  <1> QED BY <1>1, <1>2, <1>3, <1>4, <1>5, <1>6, <1>7, <1>8, <1>9, <1>10, <1>11
          DEF Next, Step

\* Every step keeps that a gate takes a decision once, before any is in flight or recorded.
LEMMA StepTaken ==
  ASSUME Inv, TakenInv, [Next]_vars
  PROVE  TakenInv'
  <1>t. decision \in Decisions /\ arg \in Decisions /\ record \in Decisions
    BY DEF Inv, TypeInv, TypeOK
  <1> SUFFICES ASSUME NEW g \in Gates
               PROVE  /\ BeforeGate(g)' => g \notin accepted'
                      /\ g \notin accepted' => arg'[g] = None[g] /\ record'[g] = None[g]
    BY DEF TakenInv
  <1>1. BeforeGate(g)' => g \notin accepted
    BY NeverBack DEF TakenInv
  <1>2. g \notin accepted => arg[g] = None[g] /\ record[g] = None[g]
    BY DEF TakenInv
  <1>3. ASSUME NEW h \in Gates, DecisionReceived(h)
        PROVE  /\ BeforeGate(g)' => g \notin accepted'
               /\ g \notin accepted' => arg'[g] = None[g] /\ record'[g] = None[g]
    <2>1. /\ accepted' = accepted \cup {h} /\ arg' = [arg EXCEPT ![h] = decision[h]]
          /\ record' = record /\ pc' = "recordDecision" /\ status' = GateStatus[h]
      BY <1>3 DEF DecisionReceived, rows, Await
    <2>2. ~BeforeGate(h)'
      BY <2>1 DEF BeforeGate, EarlierStatus, GateStatus, Gates
    <2> QED BY <1>t, <1>1, <1>2, <2>1, <2>2, Updated
  <1>4. ASSUME NEW h \in Gates, RowRecorded(h)
        PROVE  /\ accepted' = accepted
               /\ g \notin accepted => arg'[g] = None[g] /\ record'[g] = None[g]
    <2>1. h \in accepted
      BY <1>4 DEF RowRecorded, TakenInv, Inv, GateInv, ArgInv
    <2>2. CASE g = h
      BY <1>4, <2>1, <2>2 DEF RowRecorded
    <2>3. CASE g # h
      <3>1. /\ record' = [record EXCEPT ![h] = arg[h]] /\ accepted' = accepted
            /\ arg' = arg \/ arg' = [arg EXCEPT ![h] = None[h]]
        BY <1>4 DEF RowRecorded
      <3>2. /\ [record EXCEPT ![h] = arg[h]][g] = record[g]
            /\ [arg EXCEPT ![h] = None[h]][g] = arg[g]
        BY <1>t, <2>3, Updated
      <3>3. record'[g] = record[g] /\ arg'[g] = arg[g]
        BY <3>1, <3>2
      <3> QED BY <1>2, <3>1, <3>3
    <2> QED BY <2>2, <2>3
  <1>5. ASSUME NEW h \in Gates, ReviewersNotified(h) \/ DecisionSignal(h)
        PROVE  UNCHANGED <<arg, record, accepted>>
    BY <1>5 DEF ReviewersNotified, DecisionSignal, SignalFrame, rows
  <1> QED BY <1>1, <1>2, <1>3, <1>4, <1>5, DecisionMoves

\* Every step keeps the buffers what was taken and recorded, until another decision is
\* signalled.
LEMMA StepSame ==
  ASSUME Inv, TakenInv, SameInv, [Next]_vars
  PROVE  SameInv'
  <1>t. decision \in Decisions /\ arg \in Decisions /\ record \in Decisions
    BY DEF Inv, TypeInv, TypeOK
  <1> DEFINE Same(g) == /\ arg[g] # None[g] => decision[g] = arg[g]
                        /\ record[g] # None[g] => decision[g] = record[g]
  <1>1. ASSUME NEW h \in Gates, ReviewersNotified(h) PROVE SameInv'
    <2>1. /\ decision' = [decision EXCEPT ![h] = None[h]]
          /\ UNCHANGED <<arg, record, overtaken>>
      BY <1>1 DEF ReviewersNotified, rows
    <2>2. arg[h] = None[h] /\ record[h] = None[h]
      BY <1>1 DEF ReviewersNotified, TakenInv, BeforeGate
    <2> SUFFICES ASSUME ~overtaken, NEW g \in Gates
                 PROVE  /\ arg[g] # None[g] => decision'[g] = arg[g]
                        /\ record[g] # None[g] => decision'[g] = record[g]
      BY <2>1 DEF SameInv
    <2>3. Same(g)
      BY DEF SameInv
    <2>4. decision'[g] = IF g = h THEN None[h] ELSE decision[g]
      BY <1>t, <2>1, Updated
    <2> QED BY <2>2, <2>3, <2>4
  <1>2. ASSUME NEW h \in Gates, DecisionSignal(h) PROVE SameInv'
    <2>1. PICK p \in Payloads[h] :
              /\ decision' = [decision EXCEPT ![h] = p]
              /\ overtaken' = (overtaken \/ (h \in accepted /\ p \notin {arg[h], record[h]}))
      BY <1>2 DEF DecisionSignal
    <2>2. UNCHANGED <<arg, record>>
      BY <1>2 DEF DecisionSignal, SignalFrame, rows
    <2>3. p # None[h]
      BY SignalledIsReal
    <2> SUFFICES ASSUME ~overtaken', NEW g \in Gates
                 PROVE  /\ arg[g] # None[g] => decision'[g] = arg[g]
                        /\ record[g] # None[g] => decision'[g] = record[g]
      BY <2>2 DEF SameInv
    <2>4. ~overtaken /\ (h \in accepted => p \in {arg[h], record[h]})
      BY <2>1
    <2>5. Same(g) /\ Same(h)
      BY <2>4 DEF SameInv
    <2>6. CASE g # h
      BY <1>t, <2>1, <2>5, <2>6, Updated
    <2>7. CASE g = h /\ h \notin accepted
      BY <2>7 DEF TakenInv
    <2>8. CASE g = h /\ h \in accepted
      <3>1. decision[h] = p
        BY <2>3, <2>4, <2>5, <2>8
      <3>2. decision'[h] = p
        BY <1>t, <2>1, Updated
      <3> QED BY <2>5, <2>8, <3>1, <3>2
    <2> QED BY <2>6, <2>7, <2>8
  <1>3. ASSUME NEW h \in Gates, DecisionReceived(h) PROVE SameInv'
    <2>1. /\ arg' = [arg EXCEPT ![h] = decision[h]]
          /\ UNCHANGED <<decision, record, overtaken>>
      BY <1>3 DEF DecisionReceived, rows, signals, gating
    <2> SUFFICES ASSUME ~overtaken, NEW g \in Gates
                 PROVE  /\ arg'[g] # None[g] => decision[g] = arg'[g]
                        /\ record[g] # None[g] => decision[g] = record[g]
      BY <2>1 DEF SameInv
    <2>2. Same(g)
      BY DEF SameInv
    <2>3. arg'[g] = IF g = h THEN decision[h] ELSE arg[g]
      BY <1>t, <2>1, Updated
    <2> QED BY <2>2, <2>3
  <1>4. ASSUME NEW h \in Gates, RowRecorded(h) PROVE SameInv'
    <2>1. /\ record' = [record EXCEPT ![h] = arg[h]]
          /\ arg' \in {arg, [arg EXCEPT ![h] = None[h]]}
          /\ UNCHANGED <<decision, overtaken>>
      BY <1>4 DEF RowRecorded
    <2> SUFFICES ASSUME ~overtaken, NEW g \in Gates
                 PROVE  /\ arg'[g] # None[g] => decision[g] = arg'[g]
                        /\ record'[g] # None[g] => decision[g] = record'[g]
      BY <2>1 DEF SameInv
    <2>2. Same(g) /\ Same(h)
      BY DEF SameInv
    <2>3. record'[g] = IF g = h THEN arg[h] ELSE record[g]
      BY <1>t, <2>1, Updated
    <2>4. arg'[g] = arg[g] \/ (g = h /\ arg'[g] = None[g])
      <3>1. [arg EXCEPT ![h] = None[h]][g] = IF g = h THEN None[h] ELSE arg[g]
        BY <1>t, Updated
      <3> QED BY <2>1, <3>1
    <2> QED BY <2>2, <2>3, <2>4
  <1>5. CASE UNCHANGED <<decision, arg, record, accepted, overtaken>>
    BY <1>5 DEF SameInv
  <1> QED BY <1>1, <1>2, <1>3, <1>4, <1>5, DecisionMoves
-----------------------------------------------------------------------------
(* What is paid, what is recorded and what is reported                     *)

\* The claim becomes PAID, and comes to a payout in full, in three steps of the run alone.
LEMMA PaidKept ==
  ASSUME Inv, [Next]_vars, ~FinanceApprovalRecorded, ~InstallmentDisbursed,
         ~FullPayoutDisbursed
  PROVE  /\ status' = "PAID" => status = "PAID"
         /\ dbStatus' = "PAID" => "PAID" \in {status, dbStatus}
         /\ pc' = "disburseFull" => pc = "disburseFull"
         /\ UNCHANGED <<input, installments, amountArg, totalPaid>>
  <1> USE DEF Inv, StageInv, StatusAt, RowInv, Await, SetStatus, OrWithdraw, Close, End,
        ControlStep, Installments, payout, closing, signals, rows, money, gating, GateStatus,
        GateStatuses
  <1> DEFINE Goal == /\ status' = "PAID" => status = "PAID"
                     /\ dbStatus' = "PAID" => "PAID" \in {status, dbStatus}
                     /\ pc' = "disburseFull" => pc = "disburseFull"
                     /\ UNCHANGED <<input, installments, amountArg, totalPaid>>
  <1>1. CASE StatusWritten
    BY <1>1 DEF StatusWritten
  <1>2. CASE RejectedWritten \/ ClosedWritten \/ WithdrawnWritten
    BY <1>2 DEF RejectedWritten, ClosedWritten, WithdrawnWritten
  <1>3. CASE \/ Validated \/ ValidationFailureNotified \/ FraudRulesEvaluated
             \/ InvestigationStarted \/ InvestigationOver
    BY <1>3 DEF Validated, ValidationFailureNotified, FraudRulesEvaluated,
         InvestigationStarted, InvestigationOver
  <1>4. ASSUME NEW h \in Gates, GateStep(h) PROVE Goal
    BY <1>4 DEF GateStep, ReviewersNotified, DecisionReceived, WithdrawnAtGate, GateTimedOut
  <1>5. CASE FraudReviewRecorded \/ AssessmentRecorded \/ PayoutRequestCreated
    BY <1>5 DEF FraudReviewRecorded, AssessmentRecorded, PayoutRequestCreated, Recorded
  <1>6. CASE DueDateReached \/ InstallmentFailed \/ FullPayoutFailed
    BY <1>6 DEF DueDateReached, InstallmentFailed, FullPayoutFailed
  <1>7. CASE PaidNotified \/ ReopenExpired \/ ClaimReopened
    BY <1>7 DEF PaidNotified, ReopenExpired, ClaimReopened
  <1>8. CASE ActivityThrows
    <2>1. UNCHANGED <<status, payout, input>> /\ pc' = "compensate"
      BY <1>8 DEF ActivityThrows
    <2>2. dbStatus' \in {dbStatus, status, "REOPENED"}
      BY <1>8 DEF ActivityThrows, Effect
    <2> QED BY <2>1, <2>2
  <1>9. CASE Compensated \/ ExecutionTimedOut
    BY <1>9 DEF Compensated, ExecutionTimedOut
  <1>10. CASE Signal
    BY <1>10 DEF Signal, DecisionSignal, InvestigationCompleteSignal, ReopenClaimSignal,
         WithdrawClaimSignal, SignalFrame
  <1>11. CASE UNCHANGED vars
    BY <1>11 DEF vars
  <1> QED BY <1>1, <1>2, <1>3, <1>4, <1>5, <1>6, <1>7, <1>8, <1>9, <1>10, <1>11
          DEF Next, Step

\* Once another decision has been signalled that is remembered, and a decision reaches its
\* row only at a gate, before anything is scheduled or paid.
LEMMA RecordKept ==
  ASSUME Inv, [Next]_vars
  PROVE  /\ overtaken => overtaken'
         /\ \/ record' = record
            \/ pc = "recordDecision" /\ installments = <<>> /\ paidKeys = {}
  <1>1. ASSUME NEW h \in Gates, RowRecorded(h)
        PROVE  pc = "recordDecision" /\ installments = <<>> /\ paidKeys = {}
    BY <1>1 DEF RowRecorded, Inv, GateInv, AfterPayment, Paying, StageInv, PayoutInv,
         BeforeFinance, GateStatus, Gates
  <1>2. ASSUME NEW h \in Gates,
               ReviewersNotified(h) \/ DecisionSignal(h) \/ DecisionReceived(h)
        PROVE  record' = record /\ (overtaken => overtaken')
    <2>1. CASE ReviewersNotified(h) \/ DecisionReceived(h)
      BY <2>1 DEF ReviewersNotified, DecisionReceived, rows, gating
    <2>2. CASE DecisionSignal(h)
      <3>1. record' = record
        BY <2>2 DEF DecisionSignal, SignalFrame, rows
      <3>2. overtaken => overtaken'
        BY <2>2, Zenon DEF DecisionSignal
      <3> QED BY <3>1, <3>2
    <2> QED BY <1>2, <2>1, <2>2
  <1> QED BY <1>1, <1>2, DecisionMoves DEF RowRecorded

\* When money is about to leave, the buffers hold what is on record, unless another decision
\* has been signalled.
LEMMA PayoutReadsRecord ==
  ASSUME Inv, SameInv, ~overtaken, pc \in Paying
  PROVE  /\ decision["finance"] = record["finance"]
         /\ decision["assessment"] = record["assessment"]
  <1>1. record["finance"] # None["finance"]
    BY DEF Inv, GateInv, RecordInv, None
  <1>2. status \in AssessedStatus
    BY DEF Inv, StageInv, StatusAt, Paying, PaidStatus, AssessedStatus
  <1>3. record["assessment"] # None["assessment"]
    BY <1>2 DEF Inv, GateInv, RecordInv
  <1> QED BY <1>1, <1>3 DEF SameInv, Gates

\* Every step keeps the payout to the recorded decision.
LEMMA StepAgreed ==
  ASSUME Inv, TakenInv, SameInv, AgreedInv, [Next]_vars
  PROVE  AgreedInv'
  <1> SUFFICES ASSUME ~overtaken' PROVE AgreedInv'
    BY DEF AgreedInv
  <1>0. ~overtaken
    BY RecordKept
  <1>t. decision \in Decisions /\ arg \in Decisions /\ record \in Decisions
    BY DEF Inv, TypeInv, TypeOK
  <1>1. CASE FinanceApprovalRecorded
    <2>1. /\ pc = "recordDecision" /\ status = "FINANCE_REVIEW"
          /\ record' = [record EXCEPT !["finance"] = arg["finance"]]
          /\ UNCHANGED <<input, paidKeys>>
      BY <1>1 DEF FinanceApprovalRecorded, Recorded, GateStatus, money
    <2>2. installments = <<>> /\ paidKeys = {}
      BY <2>1 DEF Inv, GateInv, AfterPayment, Paying, StageInv, PayoutInv, BeforeFinance
    <2>3. record["assessment"] # None["assessment"] /\ arg["finance"] # None["finance"]
      BY <2>1 DEF Inv, GateInv, RecordInv, ArgInv, AssessedStatus, Gates, GateStatus
    <2>4. /\ record'["finance"] = decision["finance"]
          /\ record'["assessment"] = decision["assessment"]
      <3>1. /\ record'["finance"] = arg["finance"]
            /\ record'["assessment"] = record["assessment"]
        BY <1>t, <2>1 DEF Decisions
      <3>2. /\ decision["finance"] = arg["finance"]
            /\ decision["assessment"] = record["assessment"]
        BY <1>0, <2>3 DEF SameInv, Gates
      <3> QED BY <3>1, <3>2
    <2>5. CASE UNCHANGED installments /\ pc' # "disburseFull"
      BY <2>1, <2>2, <2>5 DEF AgreedInv
    <2>6. CASE /\ IsPartialPayout(decision["finance"])
               /\ installments' = decision["finance"].installments /\ pc' # "disburseFull"
      BY <2>1, <2>2, <2>4, <2>6 DEF AgreedInv, IsPartialPayout
    <2>7. CASE /\ ~IsPartialPayout(decision["finance"]) /\ UNCHANGED installments
               /\ amountArg' = AmountDue(decision["finance"], decision["assessment"])
      BY <2>1, <2>2, <2>4, <2>7 DEF AgreedInv, IsPartialPayout, AmountDue
    <2> QED BY <1>1, <2>5, <2>6, <2>7
            DEF FinanceApprovalRecorded, Installments, Await, SetStatus
  <1>2. CASE InstallmentDisbursed
    <2>1. UNCHANGED <<input, installments, amountArg, record>> /\ pc' = "updateClaimStatus"
      BY <1>2 DEF InstallmentDisbursed, SetStatus, Await, rows
    <2>2. installments # <<>>
      BY <1>2, NextInstallment DEF Inv, InstallmentDisbursed
    <2> QED BY <1>0, <2>1, <2>2 DEF AgreedInv, IsPartialPayout, AmountDue
  <1>3. CASE FullPayoutDisbursed
    <2>1. UNCHANGED <<input, installments, amountArg, record>> /\ pc = "disburseFull"
      BY <1>3 DEF FullPayoutDisbursed, rows
    <2> QED BY <1>0, <2>1 DEF AgreedInv, IsPartialPayout, AmountDue
  <1>4. CASE ~FinanceApprovalRecorded /\ ~InstallmentDisbursed /\ ~FullPayoutDisbursed
    <2>1. /\ UNCHANGED <<input, installments, amountArg>>
          /\ pc' = "disburseFull" => pc = "disburseFull"
      BY <1>4, PaidKept
    <2>2. CASE record' # record
      <3>1. pc = "recordDecision" /\ installments = <<>> /\ paidKeys = {}
        BY <2>2, RecordKept
      <3>2. paidKeys' = {}
        BY <1>4, <3>1, MoneyKept DEF ActivityThrows, Effect, InstallmentFailed, money
      <3> QED BY <2>1, <3>1, <3>2 DEF AgreedInv
    <2>3. CASE record' = record
      <3>1. paidKeys' # {} => paidKeys # {} \/ installments # <<>> \/ pc = "disburseFull"
        <4>1. CASE ActivityThrows
          <5>1. UNCHANGED paidKeys \/ pc = "disburseFull" \/ pc = "disburseInstallment"
            BY <4>1 DEF ActivityThrows, Effect, money
          <5>2. pc = "disburseInstallment" => installments # <<>>
            BY NextInstallment DEF Inv
          <5> QED BY <5>1, <5>2
        <4>2. CASE ~ActivityThrows
          BY <1>4, <4>2, MoneyKept DEF InstallmentFailed, money
        <4> QED BY <4>1, <4>2
      <3> QED BY <1>0, <2>1, <2>3, <3>1 DEF AgreedInv, IsPartialPayout, AmountDue
    <2> QED BY <2>2, <2>3
  <1> QED BY <1>1, <1>2, <1>3, <1>4

\* The amount due on the record is a number, even while nothing is recorded.
LEMMA RecordedDueType == TypeOK => AmountDue(record.finance, record.assessment) \in Int
  <1> SUFFICES ASSUME TypeOK PROVE AmountDue(record.finance, record.assessment) \in Int
    OBVIOUS
  <1>1. /\ record.finance \in FinanceDecisions \cup {None.finance}
        /\ record.assessment \in Nat \cup {-1}
    BY PayloadTypes DEF TypeOK, Decisions, None
  <1>2. record.finance.approvedAmount \in Nat \cup {NoAmount}
    BY <1>1, PayloadTypes DEF None
  <1> QED BY <1>1, <1>2 DEF AmountDue, NoAmount

\* A transfer lets money out at most once, and never takes any back.
LEMMA TransferMoves ==
  ASSUME NEW key, NEW amount \in Nat, Transfer(key, amount), moneyOut \in Nat
  PROVE  /\ moneyOut <= moneyOut' /\ moneyOut' \in Nat
         /\ key \notin paidKeys => moneyOut' = moneyOut + amount
  BY DEF Transfer, money

\* Every step keeps what is reported within what has left.
LEMMA StepReported ==
  ASSUME Inv, SameInv, LoopMoneyInv, AgreedInv, ReportedInv, [Next]_vars
  PROVE  ReportedInv'
  <1> DEFINE due == AmountDue(record.finance, record.assessment)
             due2 == AmountDue(decision["finance"], decision["assessment"])
  <1> SUFFICES ASSUME ~overtaken', DistinctNumbers(installments')
               PROVE  /\ totalPaid' <= moneyOut'
                      /\ status' = "PAID" \/ dbStatus' = "PAID" =>
                             moneyOut' >= due' - Tolerance
    BY DEF ReportedInv
  <1>0. ~overtaken
    BY RecordKept
  <1>t. /\ moneyOut \in Nat /\ totalPaid \in Nat /\ amountArg \in Nat /\ due \in Int
        /\ Tolerance \in Nat
    BY RecordedDueType DEF Inv, TypeInv, TypeOK, Tolerance
  <1>p. /\ DistinctNumbers(installments) => totalPaid <= moneyOut
        /\ DistinctNumbers(installments) /\ (status = "PAID" \/ dbStatus = "PAID") =>
               moneyOut >= due - Tolerance
    BY <1>0 DEF ReportedInv
  <1>1. CASE FinanceApprovalRecorded
    <2>1. /\ pc = "recordDecision" /\ status = "FINANCE_REVIEW" /\ status' # "PAID"
          /\ UNCHANGED <<totalPaid, moneyOut, dbStatus>>
      BY <1>1 DEF FinanceApprovalRecorded, Recorded, GateStatus, money, SetStatus, Installments
    <2>2. paidKeys = {} /\ dbStatus = status
      BY <2>1 DEF Inv, GateInv, AfterPayment, Paying, StageInv, RowInv
    <2> QED BY <1>t, <2>1, <2>2 DEF LoopMoneyInv
  <1>2. CASE InstallmentDisbursed
    <2> DEFINE amount == installments[next].amount
               key == installments[next].no
    <2>1. /\ pc = "disburseInstallment" /\ Transfer(key, amount)
          /\ totalPaid' = totalPaid + amount
          /\ status' = "PAID" => totalPaid' >= due2 - Tolerance
          /\ UNCHANGED <<installments, record, dbStatus>>
      BY <1>2 DEF InstallmentDisbursed, SetStatus, rows
    <2>2. /\ next \in 1..Len(installments) /\ amount \in Nat
          /\ installments \in Seq(Installment)
      BY <2>1, NextInstallment DEF Inv, TypeInv, TypeOK
    <2>3. key \notin paidKeys
      <3>1. paidKeys \subseteq {installments[i].no : i \in 1..(next - 1)}
        BY <2>1, NextInstallment DEF LoopMoneyInv, Inv
      <3>2. \A i \in 1..(next - 1) : installments[i].no # key
        BY <2>1, <2>2 DEF DistinctNumbers
      <3> QED BY <3>1, <3>2
    <2>4. due2 = due
      BY <1>0, <2>1, PayoutReadsRecord DEF Paying, AmountDue
    <2>5. due' = due
      BY <2>1 DEF AmountDue
    <2>6. moneyOut' = moneyOut + amount
      BY <1>t, <2>1, <2>2, <2>3, TransferMoves
    <2> HIDE DEF amount, key, due, due2
    <2> QED BY <1>t, <1>p, <2>1, <2>2, <2>4, <2>5, <2>6
  <1>3. CASE FullPayoutDisbursed
    <2>1. /\ pc = "disburseFull" /\ Transfer(0, amountArg) /\ totalPaid' = due2
          /\ UNCHANGED record
      BY <1>3 DEF FullPayoutDisbursed, rows
    <2>2. paidKeys = {} /\ moneyOut = 0
      BY <2>1 DEF Inv, StageInv, PayoutInv, LoopMoneyInv
    <2>3. due2 = due /\ amountArg = due
      BY <1>0, <2>1, PayoutReadsRecord DEF Paying, AmountDue, AgreedInv
    <2>4. due' = due
      BY <2>1 DEF AmountDue
    <2>5. moneyOut' = amountArg
      BY <1>t, <2>1, <2>2, TransferMoves
    <2> HIDE DEF due, due2
    <2> QED BY <1>t, <2>1, <2>3, <2>4, <2>5
  <1>4. CASE ~FinanceApprovalRecorded /\ ~InstallmentDisbursed /\ ~FullPayoutDisbursed
    <2>1. /\ status' = "PAID" => status = "PAID"
          /\ dbStatus' = "PAID" => "PAID" \in {status, dbStatus}
          /\ UNCHANGED <<installments, totalPaid>>
      BY <1>4, PaidKept
    <2>2. moneyOut <= moneyOut' /\ moneyOut' \in Nat
      <3>1. CASE ActivityThrows
        <4>1. \/ UNCHANGED moneyOut
              \/ pc = "disburseFull" /\ Transfer(0, amountArg)
              \/ /\ pc = "disburseInstallment"
                 /\ Transfer(installments[next].no, installments[next].amount)
          BY <3>1, Zenon DEF ActivityThrows, Effect, money
        <4>2. pc = "disburseInstallment" => installments[next].amount \in Nat
          BY NextInstallment DEF Inv
        <4> QED BY <1>t, <4>1, <4>2, TransferMoves
      <3>2. CASE ~ActivityThrows
        BY <1>4, <1>t, <3>2, MoneyKept DEF InstallmentFailed, money
      <3> QED BY <3>1, <3>2
    <2>3. CASE record' = record
      <3>1. due' = due
        BY <2>3 DEF AmountDue
      <3> HIDE DEF due, due2
      <3> QED BY <1>t, <1>p, <2>1, <2>2, <3>1
    <2>4. CASE record' # record
      <3>1. pc = "recordDecision" /\ paidKeys = {}
        BY <2>4, RecordKept
      <3>2. status # "PAID" /\ dbStatus # "PAID"
        BY <3>1 DEF Inv, StageInv, StatusAt, RowInv, GateStatuses
      <3> QED BY <1>t, <1>p, <2>1, <2>2, <3>2
    <2> QED BY <2>3, <2>4
  <1> QED BY <1>1, <1>2, <1>3, <1>4

\* The invariant of the amounts
AmountInv == Inv /\ TakenInv /\ SameInv /\ LoopMoneyInv /\ AgreedInv /\ ReportedInv

\* Nothing is decided, scheduled or paid at first.
LEMMA InitAmount == Init => AmountInv
  <1> SUFFICES ASSUME Init PROVE AmountInv
    OBVIOUS
  <1>1. Inv
    BY InitTypeInv, InitSafety, InitStage DEF Inv
  <1>2. TakenInv /\ SameInv
    BY DEF Init, TakenInv, SameInv
  <1>3. LoopMoneyInv
    BY DEF Init, LoopMoneyInv
  <1>4. AgreedInv /\ ReportedInv
    BY DEF Init, AgreedInv, ReportedInv
  <1> QED BY <1>1, <1>2, <1>3, <1>4 DEF AmountInv

\* Every step keeps the invariant of the amounts.
LEMMA StepAmount == AmountInv /\ [Next]_vars => AmountInv'
  <1> SUFFICES ASSUME AmountInv, [Next]_vars PROVE AmountInv'
    OBVIOUS
  <1>1. Inv'
    BY StepType, StepGate, StepStage DEF AmountInv, Inv
  <1> QED BY <1>1, StepTaken, StepSame, StepLoopMoney, StepAgreed, StepReported DEF AmountInv

\* No interleaving of retries, failures, withdrawals and installments pays more than the
\* recorded decision authorises, for any schedule of any length, as long as no other
\* decision is signalled after the accepted one.
THEOREM PaysWhatWasRecordedHolds == Spec => []PaysWhatWasRecorded
  <1>1. AmountInv => PaysWhatWasRecorded
    BY DEF AmountInv, LoopMoneyInv, AgreedInv, PaysWhatWasRecorded, Authorised, IsPartialPayout,
           AmountDue
  <1> QED BY <1>1, InitAmount, StepAmount, PTL DEF Spec

\* Under the same condition, and for any schedule that numbers its installments apart, no
\* more is reported as paid than has left, and PAID is written once the amount due has.
THEOREM PaidIsPaidHolds == Spec => []PaidIsPaid
  <1>1. AmountInv => PaidIsPaid
    BY DEF AmountInv, ReportedInv, PaidIsPaid
  <1> QED BY <1>1, InitAmount, StepAmount, PTL DEF Spec
=============================================================================
