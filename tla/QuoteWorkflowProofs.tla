------------------------ MODULE QuoteWorkflowProofs ------------------------
(* Theorems about QuoteWorkflow, for every set of decision payloads.       *)
EXTENDS QuoteWorkflow, TLAPS

-----------------------------------------------------------------------------
(* Type correctness                                                        *)

\* The race ended for a reason: an unexpired one has a decision or a cancellation.
RaceInv == pc = "releaseLock" /\ ~timedOut => uwDecisionReceived # None \/ isCancelled

\* The inductive strengthening of TypeOK
TypeInv == TypeOK /\ RaceInv

\* The empty buffer is told apart from every decision.
LEMMA NoneIsNoDecision == None \notin Decisions
  BY DecisionsAssumption DEF None, UwDecisionSignalPayload, UwDecision

\* The initial states are typed.
LEMMA InitTypeInv == Init => TypeInv
  <1> SUFFICES ASSUME Init PROVE TypeInv
    OBVIOUS
  <1> USE DEF Init
  <1>1. /\ pc \in Activities /\ pc \notin {"recordDecision", "releaseLock"}
        /\ status \in QuoteWorkflowStatus /\ dbStatus \in QuoteWorkflowStatus
    BY DEF Activities, QuoteWorkflowStatus
  <1>2. currentApprovalLevel \in Levels /\ caseLevel \in Levels \cup {NoCase}
    BY DEF Levels, TopLevel
  <1> QED BY <1>1, <1>2, Zenon DEF TypeInv, TypeOK, RaceInv

\* What AfterReview may change
AfterReviewType ==
    /\ pc' \in {"escalate", "updateQuoteStatus", "ended", "recordDecision"}
    /\ outcome' \in {outcome, "completed"}
    /\ status' \in {status, "REJECTED"}
    /\ decision' \in Decisions \cup {None}
    /\ pc' = "recordDecision" => decision' \in Decisions
    /\ staleTaken' \in BOOLEAN /\ approvalTaken' \in BOOLEAN

\* Routing after a review keeps the types.
LEMMA AfterReviewTypes ==
  ASSUME TypeOK, NEW expired \in BOOLEAN, AfterReview(expired),
         ~expired => uwDecisionReceived # None \/ isCancelled
  PROVE  AfterReviewType
  BY DEF TypeOK, AfterReview, AfterReviewType, Await, SetStatus, End

\* Every step of the workflow and every signal keep the types.
LEMMA StepType == TypeInv /\ [Next]_vars => TypeInv'
  <1> SUFFICES ASSUME TypeInv, [Next]_vars PROVE TypeInv'
    OBVIOUS
  <1> USE DEF TypeInv, RaceInv, TypeOK, Activities, Waits, QuoteWorkflowStatus, Levels, TopLevel,
        NoCase, Await, SetStatus, OrCancel, ReviewRound, End, ControlStep, locals, round, signals, rows,
        history
  <1>1. CASE StatusWritten
    BY <1>1 DEF StatusWritten
  <1>2. CASE RiskProfiled
    BY <1>2 DEF RiskProfiled
  <1>3. CASE EligibilityEvaluated
    BY <1>3 DEF EligibilityEvaluated
  <1>4. CASE PremiumCalculated
    BY <1>4 DEF PremiumCalculated
  <1>5. CASE CaseCreated
    BY <1>5 DEF CaseCreated
  <1>6. CASE LockTried
    BY <1>6 DEF LockTried
  <1>7. CASE ReviewerNotified
    <2>1. pc' = "awaitDecision" /\ stale' \in BOOLEAN /\ uwDecisionReceived' \in Decisions \cup {None}
      BY <1>7 DEF ReviewerNotified
    <2>2. /\ UNCHANGED <<outcome, status, locals, round, isCancelled, additionalInfoReceived,
                         dbStatus, rows, staleTaken, approvalTaken, cancelledInTime,
                         deskEscalated>>
          /\ deskDecided' = FALSE
      BY <1>7 DEF ReviewerNotified
    <2>3. RaceInv'
      BY <2>1
    <2>4. /\ pc' \in Activities \cup Waits \cup {"compensate", "ended"}
          /\ outcome' \in {"running", "completed", "failed", "timedOut"}
          /\ status' \in QuoteWorkflowStatus /\ dbStatus' \in QuoteWorkflowStatus
      BY <2>1, <2>2
    <2>5. /\ currentApprovalLevel' \in Levels /\ caseLevel' \in Levels \cup {NoCase}
          /\ decision' \in Decisions \cup {None} /\ record' \in Decisions \cup {None}
      BY <2>2
    <2>6. /\ isSeniorReviewRequired' \in BOOLEAN /\ riskSenior' \in BOOLEAN
          /\ lock' \in BOOLEAN /\ timedOut' \in BOOLEAN
          /\ isCancelled' \in BOOLEAN /\ additionalInfoReceived' \in BOOLEAN
          /\ snapshotLocked' \in BOOLEAN /\ policyIssued' \in BOOLEAN
      BY <2>2
    <2>7. /\ staleTaken' \in BOOLEAN /\ approvalTaken' \in BOOLEAN
          /\ cancelledInTime' \in BOOLEAN
          /\ deskEscalated' \in BOOLEAN /\ deskDecided' \in BOOLEAN
      BY <2>2
    <2> QED BY <2>1, <2>3, <2>4, <2>5, <2>6, <2>7
  <1>8. CASE LockReleased
    <2>1. AfterReview(timedOut) /\ (~timedOut => uwDecisionReceived # None \/ isCancelled)
      BY <1>8 DEF LockReleased
    <2>2. AfterReviewType
      BY <2>1, AfterReviewTypes DEF Activities, QuoteWorkflowStatus
    <2> QED BY <1>8, <2>2 DEF LockReleased, AfterReviewType
  <1>9. CASE Escalated
    <2>1. /\ pc' = "updateQuoteStatus" /\ outcome' = outcome
          /\ status' \in QuoteWorkflowStatus /\ dbStatus' = dbStatus
      BY <1>9 DEF Escalated
    <2>2. currentApprovalLevel' \in Levels /\ caseLevel' \in Levels
      BY <1>9 DEF Escalated, EscalateAttempts, RaisedLevel
    <2>3. isSeniorReviewRequired' \in BOOLEAN /\ deskEscalated' \in BOOLEAN
      BY <1>9 DEF Escalated
    <2>4. /\ UNCHANGED <<riskSenior, round, signals, record, snapshotLocked, policyIssued>>
          /\ UNCHANGED <<stale, staleTaken, approvalTaken, cancelledInTime, deskDecided>>
      BY <1>9 DEF Escalated
    <2> QED BY <2>1, <2>2, <2>3, <2>4
  <1>10. CASE DecisionRecorded
    <2>1. record' \in Decisions \cup {None} /\ additionalInfoReceived' \in BOOLEAN
      BY <1>10 DEF DecisionRecorded
    <2>2. /\ pc' \in {"updateQuoteStatus", "updateRejected", "escalate", "awaitInfo"}
          /\ status' \in QuoteWorkflowStatus /\ outcome' = outcome
      BY <1>10 DEF DecisionRecorded
    <2> QED BY <1>10, <2>1, <2>2 DEF DecisionRecorded
  <1>11. CASE InfoReceived
    BY <1>11 DEF InfoReceived
  <1>12. CASE InfoTimedOut
    BY <1>12 DEF InfoTimedOut
  <1>13. CASE PremiumSnapshotLocked
    BY <1>13 DEF PremiumSnapshotLocked
  <1>14. CASE PolicyIssued
    BY <1>14 DEF PolicyIssued
  <1>15. CASE RejectedWritten
    BY <1>15 DEF RejectedWritten
  <1>16. CASE Announced
    BY <1>16 DEF Announced
  <1>17. CASE ActivityThrows
    <2>1. pc' = "compensate" /\ outcome' = outcome
      BY <1>17 DEF ActivityThrows
    <2>2. dbStatus' \in QuoteWorkflowStatus
      BY <1>17 DEF ActivityThrows, Effect
    <2>3. caseLevel' \in Levels \cup {NoCase}
      BY <1>17 DEF ActivityThrows, Effect, EscalateAttempts, RaisedLevel
    <2>4. record' \in Decisions \cup {None}
      BY <1>17 DEF ActivityThrows, Effect
    <2>5. snapshotLocked' \in BOOLEAN
      BY <1>17 DEF ActivityThrows, Effect
    <2>6. policyIssued' \in BOOLEAN
      BY <1>17 DEF ActivityThrows, Effect
    <2> QED BY <1>17, <2>1, <2>2, <2>3, <2>4, <2>5, <2>6 DEF ActivityThrows
  <1>18. CASE Compensated
    BY <1>18 DEF Compensated
  <1>19. ASSUME NEW expired \in BOOLEAN, ReviewOver(expired) PROVE TypeInv'
    <2>1. timedOut' \in BOOLEAN /\ timedOut' = expired
          /\ (~expired => uwDecisionReceived # None \/ isCancelled)
      BY <1>19 DEF ReviewOver
    <2>2. CASE lock
      BY <1>19, <2>1, <2>2 DEF ReviewOver
    <2>3. CASE ~lock
      <3>1. AfterReviewType
        BY <1>19, <2>1, <2>3, AfterReviewTypes DEF ReviewOver
      <3> QED BY <1>19, <2>1, <2>3, <3>1 DEF ReviewOver, AfterReviewType
    <2> QED BY <2>2, <2>3
  <1>20. CASE UwDecisionSignal
    <2>1. /\ uwDecisionReceived' \in Decisions /\ uwDecisionReceived' # None
          /\ stale' \in BOOLEAN
      BY <1>20, NoneIsNoDecision DEF UwDecisionSignal
    <2> QED BY <1>20, <2>1 DEF UwDecisionSignal, SignalFrame
  <1>21. CASE CancelQuoteSignal
    BY <1>21 DEF CancelQuoteSignal, SignalFrame
  <1>22. CASE AdditionalInfoSignal
    BY <1>22 DEF AdditionalInfoSignal, SignalFrame
  <1>23. CASE ExecutionTimedOut
    BY <1>23 DEF ExecutionTimedOut
  <1>24. CASE UNCHANGED vars
    BY <1>24 DEF vars
  <1>25. CASE DeskEscalates
    BY <1>25 DEF DeskEscalates, DeskFrame
  <1>26. CASE DeskDecides
    BY <1>26 DEF DeskDecides, DeskFrame
  <1> QED BY <1>1, <1>2, <1>3, <1>4, <1>5, <1>6, <1>7, <1>8, <1>9, <1>10, <1>11, <1>12, <1>13,
           <1>14, <1>15, <1>16, <1>17, <1>18, <1>19, <1>20, <1>21, <1>22, <1>23, <1>24, <1>25, <1>26
           DEF Next, Step, Signal, Desk

\* Every reachable state has its type, and the decision recorded is never the empty buffer.
THEOREM TypeCorrect == Spec => []TypeOK
  <1>1. TypeInv => TypeOK
    BY DEF TypeInv
  <1> QED BY <1>1, InitTypeInv, StepType, PTL DEF Spec

-----------------------------------------------------------------------------
(* Approval, cancellation and freshness                                    *)

\* The statuses that follow an approval
ApprovedStatus == {"APPROVED", "CONDITIONALLY_APPROVED", "ISSUED"}

\* Where the workflow can be once a policy exists: past every step that could change the
\* decision on record.
AfterIssue ==
    \/ pc \in {"notifyIssued", "compensate", "ended"}
    \/ pc = "updateQuoteStatus" /\ status = "ISSUED"

\* A policy comes after an approval on record, and nothing overwrites it.
ApprovalInv ==
    /\ pc \in {"lockPremiumSnapshot",
          "issuePolicy"} \/ status \in ApprovedStatus => Approves(record)
    /\ pc = "issuePolicy" \/ status = "ISSUED" => snapshotLocked
    /\ pc = "notifyIssued" => status = "ISSUED"
    /\ status \in ApprovedStatus =>
           pc \in {"updateQuoteStatus", "lockPremiumSnapshot", "issuePolicy", "notifyIssued",
                  "compensate", "ended"}
    /\ policyIssued => Approves(record) /\ snapshotLocked /\ AfterIssue

\* The buffer waited on was emptied when the reviewer was asked.
FreshInv ==
    /\ pc \in {"awaitDecision", "releaseLock"} => ~stale
    /\ ~staleTaken

\* No approval is taken up while a cancellation is pending, and a policy needs one.
CancelInv ==
    /\ cancelledInTime => isCancelled /\ ~approvalTaken
    /\ \/ pc = "recordDecision" /\ Approves(decision)
       \/ pc \in {"lockPremiumSnapshot", "issuePolicy"}
       \/ status \in ApprovedStatus \/ policyIssued
       => approvalTaken

\* The inductive invariant of the first three safety theorems
SafetyInv == ApprovalInv /\ FreshInv /\ CancelInv

\* The initial states satisfy it.
LEMMA InitSafety == Init => SafetyInv
  BY DEF Init, SafetyInv, ApprovalInv, FreshInv, CancelInv, ApprovedStatus, Approves, None

\* Every step of the workflow and every signal keep the three invariants.
LEMMA StepSafety == TypeInv /\ SafetyInv /\ [Next]_vars => SafetyInv'
  <1> SUFFICES ASSUME TypeInv, SafetyInv, [Next]_vars PROVE SafetyInv'
    OBVIOUS
  <1> USE DEF SafetyInv, ApprovalInv, AfterIssue, FreshInv, CancelInv, ApprovedStatus,
        Approves, Await, SetStatus, OrCancel, ReviewRound, End, ControlStep, locals, round,
        signals, rows, history
  <1>1. CASE StatusWritten
    BY <1>1 DEF StatusWritten
  <1>2. CASE RiskProfiled
    BY <1>2 DEF RiskProfiled
  <1>3. CASE EligibilityEvaluated
    BY <1>3 DEF EligibilityEvaluated
  <1>4. CASE PremiumCalculated
    BY <1>4 DEF PremiumCalculated
  <1>5. CASE CaseCreated
    BY <1>5 DEF CaseCreated
  <1>6. CASE LockTried
    BY <1>6 DEF LockTried
  <1>7. CASE ReviewerNotified
    BY <1>7 DEF ReviewerNotified
  <1>8. CASE LockReleased
    <2>1. /\ pc = "releaseLock" /\ ~policyIssued /\ status \notin ApprovedStatus /\ ~stale
          /\ UNCHANGED <<record, snapshotLocked, policyIssued,
                         stale, isCancelled, cancelledInTime>>
      BY <1>8 DEF LockReleased
    <2>2. \/ /\ pc' \in {"escalate", "updateQuoteStatus", "ended"}
             /\ status' \in {status, "REJECTED"} /\ UNCHANGED <<staleTaken, approvalTaken>>
          \/ /\ pc' = "recordDecision" /\ status' = status /\ ~isCancelled
             /\ staleTaken' = (staleTaken \/ stale)
             /\ approvalTaken' = (approvalTaken \/ Approves(uwDecisionReceived))
             /\ decision' = uwDecisionReceived
      BY <1>8 DEF LockReleased, AfterReview
    <2>3. ApprovalInv'
      BY <2>1, <2>2 DEF ApprovalInv
    <2>5. ~staleTaken'
      BY <2>1, <2>2, Zenon DEF FreshInv
    <2>6. FreshInv'
      BY <2>1, <2>5 DEF FreshInv
    <2>7. CASE pc' = "recordDecision"
      <3>1. ~cancelledInTime'
        BY <2>1, <2>2, <2>7, Zenon DEF CancelInv
      <3>2. Approves(decision)' => approvalTaken'
        BY <2>1, <2>2, <2>7
      <3> QED BY <2>1, <2>2, <2>7, <3>1, <3>2 DEF CancelInv
    <2>8. CASE pc' # "recordDecision"
      BY <2>1, <2>2, <2>8 DEF CancelInv
    <2> QED BY <2>3, <2>6, <2>7, <2>8
  <1>9. CASE Escalated
    BY <1>9 DEF Escalated
  <1>10. CASE DecisionRecorded
    BY <1>10 DEF DecisionRecorded
  <1>11. CASE InfoReceived
    BY <1>11 DEF InfoReceived
  <1>12. CASE InfoTimedOut
    BY <1>12 DEF InfoTimedOut
  <1>13. CASE PremiumSnapshotLocked
    BY <1>13 DEF PremiumSnapshotLocked
  <1>14. CASE PolicyIssued
    BY <1>14 DEF PolicyIssued
  <1>15. CASE RejectedWritten
    BY <1>15 DEF RejectedWritten
  <1>16. CASE Announced
    BY <1>16 DEF Announced
  <1>17. CASE ActivityThrows
    BY <1>17 DEF ActivityThrows, Effect
  <1>18. CASE Compensated
    BY <1>18 DEF Compensated
  <1>19. ASSUME NEW expired \in BOOLEAN, ReviewOver(expired) PROVE SafetyInv'
    BY <1>19 DEF ReviewOver, AfterReview
  <1>20. CASE UwDecisionSignal
    BY <1>20 DEF UwDecisionSignal, SignalFrame
  <1>21. CASE CancelQuoteSignal
    BY <1>21 DEF CancelQuoteSignal, SignalFrame
  <1>22. CASE AdditionalInfoSignal
    BY <1>22 DEF AdditionalInfoSignal, SignalFrame
  <1>23. CASE ExecutionTimedOut
    BY <1>23 DEF ExecutionTimedOut
  <1>24. CASE UNCHANGED vars
    BY <1>24 DEF vars
  <1>25. CASE DeskEscalates
    BY <1>25 DEF DeskEscalates, DeskFrame
  <1>26. CASE DeskDecides
    BY <1>26 DEF DeskDecides, DeskFrame
  <1> QED BY <1>1, <1>2, <1>3, <1>4, <1>5, <1>6, <1>7, <1>8, <1>9, <1>10, <1>11, <1>12, <1>13,
           <1>14, <1>15, <1>16, <1>17, <1>18, <1>19, <1>20, <1>21, <1>22, <1>23, <1>24, <1>25, <1>26
           DEF Next, Step, Signal, Desk

\* No policy exists without a recorded approval and a locked premium snapshot.
THEOREM IssuedOnApprovalHolds == Spec => []IssuedOnApproval
  <1>1. SafetyInv => IssuedOnApproval
    BY DEF SafetyInv, ApprovalInv, IssuedOnApproval
  <1> QED BY <1>1, InitTypeInv, StepType, InitSafety, StepSafety, PTL DEF Spec

\* No review round acts on a decision signalled before its reviewer was asked.
THEOREM FreshDecisionsHold == Spec => []FreshDecisions
  <1>1. SafetyInv => FreshDecisions
    BY DEF SafetyInv, FreshInv, FreshDecisions
  <1> QED BY <1>1, InitTypeInv, StepType, InitSafety, StepSafety, PTL DEF Spec

\* A cancellation signalled before an approval is taken up prevents the policy.
THEOREM CancelHonouredHolds == Spec => []CancelHonoured
  <1>1. SafetyInv => CancelHonoured
    BY DEF SafetyInv, CancelInv, CancelHonoured
  <1> QED BY <1>1, InitTypeInv, StepType, InitSafety, StepSafety, PTL DEF Spec

-----------------------------------------------------------------------------
(* The level of the run and the level of the case                          *)

\* The awaits and statuses before the underwriting case is created
BeforeCase ==
    \/ pc \in {"performRiskProfiling", "evaluateEligibilityRules", "calculatePremium",
               "createUnderwritingCase"}
    \/ /\ pc = "updateQuoteStatus"
       /\ status \in {"RISK_PROFILING", "RULE_EVALUATION", "PREMIUM_CALCULATION", "QUOTED",
                      "SUBMITTED"}

\* Where a rejected quote's run can be
RejectedAt ==
    status = "REJECTED" => pc \in {"updateQuoteStatus", "updateRejected", "notifyRejected",
                                  "compensate", "ended"}

\* From the case on, a run that is neither failing nor writing its last status keeps the
\* level of the case, unless the case's was written from outside.
LevelInv ==
    /\ deskEscalated => caseLevel # NoCase
    /\ \/ BeforeCase \/ pc \in {"compensate", "ended"}
       \/ pc = "updateQuoteStatus" /\ status \in {"REJECTED", "CANCELLED"}
       \/ caseLevel # NoCase /\ (currentApprovalLevel = caseLevel \/ deskEscalated)

\* A run on level 1 has escalated nothing: the flag that makes an expired review reject is
\* the risk profile's, and an expiry that it does not cover is about to be escalated.
GraceInv ==
    /\ BeforeCase => ~timedOut /\ currentApprovalLevel = 1
    /\ RejectedAt
    /\ isSeniorReviewRequired => riskSenior \/ currentApprovalLevel > 1
    /\ timedOut /\ ~riskSenior /\ ~(currentApprovalLevel > 1) =>
           status # "REJECTED" /\ pc \in {"releaseLock", "escalate", "compensate", "ended"}

\* The inductive invariant of EscalationsCountHolds
LevelsInv == LevelInv /\ GraceInv

\* The initial states satisfy it.
LEMMA InitLevels == Init => LevelsInv
  BY DEF Init, LevelsInv, LevelInv, GraceInv, BeforeCase, RejectedAt

\* Every step of the workflow, every signal and every request of the desk keep it.
LEMMA StepLevels == TypeInv /\ LevelsInv /\ [Next]_vars => LevelsInv'
  <1> SUFFICES ASSUME TypeInv, LevelsInv, [Next]_vars PROVE LevelsInv'
    OBVIOUS
  <1>0. /\ caseLevel \in Levels \cup {NoCase} /\ currentApprovalLevel \in Levels
        /\ riskSenior \in BOOLEAN /\ isSeniorReviewRequired \in BOOLEAN
        /\ timedOut \in BOOLEAN /\ deskEscalated \in BOOLEAN
    BY DEF TypeInv, TypeOK
  <1> USE <1>0 DEF LevelsInv, LevelInv, GraceInv, BeforeCase, RejectedAt, Levels, TopLevel, NoCase,
        Await, SetStatus, OrCancel, ReviewRound, End, ControlStep, locals, round, signals, rows,
        history
  <1>1. CASE StatusWritten
    BY <1>1 DEF StatusWritten
  <1>2. CASE RiskProfiled
    BY <1>2 DEF RiskProfiled
  <1>3. CASE EligibilityEvaluated
    BY <1>3 DEF EligibilityEvaluated
  <1>4. CASE PremiumCalculated
    BY <1>4 DEF PremiumCalculated
  <1>5. CASE CaseCreated
    BY <1>5 DEF CaseCreated
  <1>6. CASE LockTried
    BY <1>6 DEF LockTried
  <1>7. CASE ReviewerNotified
    BY <1>7 DEF ReviewerNotified
  <1>8. CASE LockReleased
    BY <1>8 DEF LockReleased, AfterReview
  <1>9. CASE Escalated
    BY <1>9 DEF Escalated, EscalateAttempts, RaisedLevel
  <1>10. CASE DecisionRecorded
    BY <1>10 DEF DecisionRecorded
  <1>11. CASE InfoReceived
    BY <1>11 DEF InfoReceived
  <1>12. CASE InfoTimedOut
    BY <1>12 DEF InfoTimedOut
  <1>13. CASE PremiumSnapshotLocked
    BY <1>13 DEF PremiumSnapshotLocked
  <1>14. CASE PolicyIssued
    BY <1>14 DEF PolicyIssued
  <1>15. CASE RejectedWritten
    BY <1>15 DEF RejectedWritten
  <1>16. CASE Announced
    BY <1>16 DEF Announced
  <1>17. CASE ActivityThrows
    BY <1>17 DEF ActivityThrows, Effect, EscalateAttempts, RaisedLevel, Activities
  <1>18. CASE Compensated
    BY <1>18 DEF Compensated
  <1>19. ASSUME NEW expired \in BOOLEAN, ReviewOver(expired) PROVE LevelsInv'
    BY <1>19 DEF ReviewOver, AfterReview
  <1>20. CASE UwDecisionSignal
    BY <1>20 DEF UwDecisionSignal, SignalFrame
  <1>21. CASE CancelQuoteSignal
    BY <1>21 DEF CancelQuoteSignal, SignalFrame
  <1>22. CASE AdditionalInfoSignal
    BY <1>22 DEF AdditionalInfoSignal, SignalFrame
  <1>23. CASE ExecutionTimedOut
    BY <1>23 DEF ExecutionTimedOut
  <1>24. CASE DeskEscalates
    BY <1>24 DEF DeskEscalates, DeskFrame
  <1>25. CASE DeskDecides
    BY <1>25 DEF DeskDecides, DeskFrame
  <1>26. CASE UNCHANGED vars
    BY <1>26 DEF vars
  <1> QED BY <1>1, <1>2, <1>3, <1>4, <1>5, <1>6, <1>7, <1>8, <1>9, <1>10, <1>11, <1>12, <1>13, <1>14, <1>15, <1>16, <1>17, <1>18, <1>19, <1>20, <1>21, <1>22, <1>23, <1>24, <1>25, <1>26
           DEF Next, Step, Signal, Desk

\* Whatever the desk, retries and referrals make of the case's level, the run waits for a
\* reviewer on the level it last took over from the case, and lets no quote whose risk calls
\* for no senior review be rejected for want of an answer before it has escalated once.
THEOREM EscalationsCountHolds == Spec => []EscalationsCount
  <1>1. TypeInv /\ LevelsInv => EscalationsCount
    <2> SUFFICES ASSUME TypeInv, LevelsInv PROVE EscalationsCount
      OBVIOUS
    <2>1. riskSenior \in BOOLEAN /\ timedOut \in BOOLEAN
      BY DEF TypeInv, TypeOK
    <2> QED BY <2>1 DEF LevelsInv, LevelInv, GraceInv, BeforeCase, EscalationsCount
  <1> QED BY <1>1, InitTypeInv, StepType, InitLevels, StepLevels, PTL DEF Spec

-----------------------------------------------------------------------------
(* QuoteWorkflow implements QuotePromise                                   *)

\* What is awaited in a review round
Reviewing ==
    {"acquireLock", "notifyReviewer", "awaitDecision", "releaseLock", "recordDecision",
     "escalate", "awaitInfo"}

\* What is awaited tells the status of the quote.
StatusAt ==
    /\ pc = "performRiskProfiling" => status = "RISK_PROFILING"
    /\ pc = "evaluateEligibilityRules" => status = "RULE_EVALUATION"
    /\ pc = "calculatePremium" => status = "PREMIUM_CALCULATION"
    /\ pc = "createUnderwritingCase" => status = "SUBMITTED"
    /\ pc \in Reviewing => status \in InReview
    /\ pc \in {"lockPremiumSnapshot", "issuePolicy"} => status \in Approved
    /\ pc = "notifyIssued" => status = "ISSUED"
    /\ pc \in {"updateRejected", "notifyRejected"} => status = "REJECTED"

\* The row is one write behind the status while that write is in flight, and agrees with
\* it otherwise.
RowInv ==
    /\ pc = "updateQuoteStatus" => status \in Lifecycle[dbStatus] \cup {dbStatus}
    /\ pc = "updateRejected" => dbStatus \in InReview
    /\ pc \notin {"updateQuoteStatus", "updateRejected", "compensate", "ended"} =>
           dbStatus = status

\* Nothing is decided for good before the status follows a decision.
DecidedInv ==
    /\ \/ status \in InReview \cup {"RISK_PROFILING", "RULE_EVALUATION",
                                    "PREMIUM_CALCULATION", "QUOTED", "SUBMITTED"}
       => pc \in {"updateRejected", "compensate", "ended"} \/ Decided = "open"
    /\ pc \in {"updateQuoteStatus", "updateRejected"} /\ status = "REJECTED" =>
           Decided # "approve"
    /\ status = "ISSUED" => policyIssued

StageInv ==
    /\ StatusAt /\ RowInv /\ DecidedInv
    /\ outcome # "running" => pc = "ended"

Inv == TypeInv /\ SafetyInv /\ StageInv

\* The edges of the lifecycle that the code writes along
LEMMA Edges ==
  /\ \A s \in QuoteWorkflowStatus : "CANCELLED" \in Lifecycle[s]
  /\ "RISK_PROFILING" \in Lifecycle["DRAFT"]
  /\ {"RULE_EVALUATION", "REJECTED"} \subseteq Lifecycle["RISK_PROFILING"]
  /\ {"PREMIUM_CALCULATION", "REJECTED"} \subseteq Lifecycle["RULE_EVALUATION"]
  /\ "QUOTED" \in Lifecycle["PREMIUM_CALCULATION"]
  /\ "SUBMITTED" \in Lifecycle["QUOTED"]
  /\ {"UNDER_REVIEW", "PENDING_SENIOR_REVIEW"} \subseteq Lifecycle["SUBMITTED"]
  /\ \A s \in InReview : {"UNDER_REVIEW", "PENDING_SENIOR_REVIEW", "APPROVED",
                          "CONDITIONALLY_APPROVED", "REJECTED"} \subseteq Lifecycle[s]
  /\ \A s \in Approved : "ISSUED" \in Lifecycle[s]
  BY DEF Lifecycle, QuoteWorkflowStatus, InReview, Approved

\* The promise speaks of the same lifecycle.
LEMMA SameLifecycle ==
  Promise!Lifecycle = Lifecycle /\ Promise!InReview = InReview /\ Promise!Approved = Approved
  <1>1. Promise!InReview = InReview /\ Promise!Approved = Approved
    BY DEF Promise!InReview, InReview, Promise!Approved, Approved
  <1>2. Promise!QuoteWorkflowStatus = QuoteWorkflowStatus
    BY DEF Promise!QuoteWorkflowStatus, QuoteWorkflowStatus
  <1>3. Promise!Lifecycle = Lifecycle
    BY <1>1, <1>2, Zenon DEF Promise!Lifecycle, Lifecycle
  <1> QED BY <1>1, <1>3

\* Every step keeps the invariant of the refinement.
LEMMA StepStage == Inv /\ [Next]_vars => StageInv'
  <1> SUFFICES ASSUME Inv, [Next]_vars PROVE StageInv'
    OBVIOUS
  <1> USE DEF Inv, StageInv, StatusAt, RowInv, DecidedInv, Reviewing, InReview, Approved,
        Decided, TypeInv, SafetyInv, ApprovalInv, AfterIssue, ApprovedStatus, Approves, Await,
        SetStatus, OrCancel, ReviewRound, End, ControlStep, locals, round, signals, rows, history
  <1>1. CASE StatusWritten
    BY <1>1, Edges DEF StatusWritten, TypeOK
  <1>2. CASE RiskProfiled
    BY <1>2, Edges DEF RiskProfiled, TypeOK
  <1>3. CASE EligibilityEvaluated
    BY <1>3, Edges DEF EligibilityEvaluated, TypeOK
  <1>4. CASE PremiumCalculated
    BY <1>4, Edges DEF PremiumCalculated, TypeOK
  <1>5. CASE CaseCreated
    BY <1>5, Edges DEF CaseCreated, TypeOK
  <1>6. CASE LockTried
    BY <1>6 DEF LockTried
  <1>7. CASE ReviewerNotified
    BY <1>7 DEF ReviewerNotified
  <1>8. CASE LockReleased
    BY <1>8, Edges DEF LockReleased, AfterReview, TypeOK
  <1>9. CASE Escalated
    BY <1>9, Edges DEF Escalated, TypeOK
  <1>10. CASE DecisionRecorded
    BY <1>10, Edges DEF DecisionRecorded, TypeOK
  <1>11. CASE InfoReceived
    BY <1>11, Edges DEF InfoReceived, TypeOK
  <1>12. CASE InfoTimedOut
    BY <1>12 DEF InfoTimedOut
  <1>13. CASE PremiumSnapshotLocked
    BY <1>13 DEF PremiumSnapshotLocked
  <1>14. CASE PolicyIssued
    BY <1>14, Edges DEF PolicyIssued, TypeOK
  <1>15. CASE RejectedWritten
    BY <1>15 DEF RejectedWritten
  <1>16. CASE Announced
    BY <1>16 DEF Announced
  <1>17. CASE ActivityThrows
    BY <1>17 DEF ActivityThrows, Effect, Activities
  <1>18. CASE Compensated
    BY <1>18 DEF Compensated
  <1>19. ASSUME NEW expired \in BOOLEAN, ReviewOver(expired) PROVE StageInv'
    BY <1>19, Edges DEF ReviewOver, AfterReview, TypeOK
  <1>20. CASE UwDecisionSignal
    BY <1>20 DEF UwDecisionSignal, SignalFrame
  <1>21. CASE CancelQuoteSignal
    BY <1>21 DEF CancelQuoteSignal, SignalFrame
  <1>22. CASE AdditionalInfoSignal
    BY <1>22 DEF AdditionalInfoSignal, SignalFrame
  <1>23. CASE ExecutionTimedOut
    BY <1>23 DEF ExecutionTimedOut
  <1>24. CASE UNCHANGED vars
    BY <1>24 DEF vars
  <1>25. CASE DeskEscalates
    BY <1>25 DEF DeskEscalates, DeskFrame
  <1>26. CASE DeskDecides
    BY <1>26 DEF DeskDecides, DeskFrame
  <1> QED BY <1>1, <1>2, <1>3, <1>4, <1>5, <1>6, <1>7, <1>8, <1>9, <1>10, <1>11,
           <1>12, <1>13, <1>14, <1>15, <1>16, <1>17, <1>18, <1>19, <1>20, <1>21,
           <1>22, <1>23, <1>24, <1>25, <1>26
           DEF Next, Step, Signal, Desk

\* An abstract step or none
Kept == [Promise!Next]_(Promise!vars)

\* Nothing that can be seen from outside changes.
LEMMA Unseen ==
  ASSUME UNCHANGED <<dbStatus, snapshotLocked, policyIssued, outcome>>, Decided' = Decided
  PROVE  Kept
  <1>1. (outcome = "running")' = (outcome = "running")
    OBVIOUS
  <1> QED BY <1>1 DEF Kept, Promise!vars

\* A write to the row that does not run ahead of what was decided or issued
RowMoves ==
    \/ dbStatus' = dbStatus
    \/ /\ dbStatus' \in Lifecycle[dbStatus]
       /\ dbStatus' \in Approved => Decided = "approve"
       /\ dbStatus' = "REJECTED" => Decided # "approve"
       /\ dbStatus' = "ISSUED" => policyIssued

\* The row is written, and the run goes on or ends.
LEMMA RowWritten ==
  ASSUME outcome = "running", RowMoves, Decided' = Decided,
         UNCHANGED <<snapshotLocked, policyIssued>>
  PROVE  Kept
  <1>1. CASE dbStatus' = dbStatus /\ outcome' = "running"
    BY <1>1, Unseen
  <1>2. CASE dbStatus' # dbStatus \/ outcome' # "running"
    <2>1. Promise!Advance \/ dbStatus' = dbStatus
      BY SameLifecycle DEF RowMoves, Promise!Advance
    <2>2. CASE outcome' = "running"
      <3>1. (outcome = "running")' = (outcome = "running")
        BY <2>2
      <3>2. Promise!Move
        BY <1>2, <2>1, <2>2, <3>1 DEF Promise!Move
      <3> QED BY <3>2 DEF Kept, Promise!Next
    <2>3. CASE outcome' # "running"
      <3>1. (outcome = "running")' = FALSE
        BY <2>3
      <3>2. Promise!End
        BY <2>1, <3>1 DEF Promise!End
      <3> QED BY <3>2 DEF Kept, Promise!Next
    <2> QED BY <2>2, <2>3
  <1> QED BY <1>1, <1>2

\* Nothing is written; the run goes on or stops.
LEMMA RunStops ==
  ASSUME outcome = "running", UNCHANGED <<dbStatus, snapshotLocked, policyIssued>>,
         Decided' = Decided
  PROVE  Kept
  <1>1. CASE outcome' = "running"
    BY <1>1, Unseen
  <1>2. CASE outcome' # "running"
    <2>1. (outcome = "running")' = FALSE
      BY <1>2
    <2>2. Promise!End
      BY <2>1 DEF Promise!End
    <2> QED BY <2>2 DEF Kept, Promise!Next
  <1> QED BY <1>1, <1>2

\* An underwriting decision is recorded.
LEMMA UnderwritingDecided ==
  ASSUME outcome = "running", UNCHANGED <<outcome, dbStatus, snapshotLocked, policyIssued>>,
         dbStatus \in InReview, Decided = "open"
  PROVE  Kept
  <1>1. (outcome = "running")' = (outcome = "running")
    OBVIOUS
  <1>2. Decided' \in {"open", "approve", "reject"}
    BY DEF Decided
  <1>3. CASE Decided' = "open"
    BY <1>3, Unseen
  <1>4. CASE Decided' # "open"
    <2>1. Promise!Decide
      BY <1>1, <1>2, <1>4, SameLifecycle DEF Promise!Decide
    <2> QED BY <2>1 DEF Kept, Promise!Next
  <1> QED BY <1>3, <1>4

\* The premium snapshot of an approved quote is locked.
LEMMA SnapshotLocked ==
  ASSUME outcome = "running", UNCHANGED <<outcome, dbStatus, policyIssued>>, Decided' = Decided,
         snapshotLocked' = TRUE, dbStatus \in Approved, Decided = "approve"
  PROVE  Kept
  <1>1. (outcome = "running")' = (outcome = "running")
    OBVIOUS
  <1>2. Promise!Lock
    BY <1>1, SameLifecycle DEF Promise!Lock
  <1> QED BY <1>2 DEF Kept, Promise!Next

\* The policy of an approved quote is issued.
LEMMA PolicyComes ==
  ASSUME outcome = "running", UNCHANGED <<outcome, dbStatus, snapshotLocked>>,
         Decided' = Decided, policyIssued' = TRUE, ~policyIssued, snapshotLocked,
         dbStatus \in Approved, Decided = "approve"
  PROVE  Kept
  <1>1. (outcome = "running")' = (outcome = "running")
    OBVIOUS
  <1>2. Promise!Issue
    BY <1>1, SameLifecycle DEF Promise!Issue
  <1> QED BY <1>2 DEF Kept, Promise!Next

\* Every step of the workflow is a step of the promise, or none that is seen.
LEMMA StepPromise == Inv /\ [Next]_vars => Kept
  <1> SUFFICES ASSUME Inv, [Next]_vars PROVE Kept
    OBVIOUS
  <1> USE DEF Inv, StageInv, StatusAt, RowInv, DecidedInv, Reviewing, TypeInv, SafetyInv,
        Await, SetStatus, OrCancel, ReviewRound, End, ControlStep, locals, round, signals, rows,
        history
  <1>1. CASE StatusWritten
    <2>1. /\ outcome = "running" /\ dbStatus' \in Lifecycle[dbStatus] \cup {dbStatus}
          /\ UNCHANGED <<record, snapshotLocked, policyIssued>>
      BY <1>1 DEF StatusWritten
    <2>2. Decided' = Decided
      BY <2>1 DEF Decided
    <2>3. RowMoves
      BY <1>1, <2>1 DEF RowMoves, StatusWritten, ApprovalInv, ApprovedStatus, Approved, InReview, Decided
    <2> QED BY <2>1, <2>2, <2>3, RowWritten
  <1>2. CASE RiskProfiled
    <2>1. UNCHANGED <<dbStatus, record, snapshotLocked, policyIssued, outcome>>
      BY <1>2 DEF RiskProfiled
    <2> QED BY <2>1, Unseen DEF Decided
  <1>3. CASE EligibilityEvaluated
    <2>1. UNCHANGED <<dbStatus, record, snapshotLocked, policyIssued, outcome>>
      BY <1>3 DEF EligibilityEvaluated
    <2> QED BY <2>1, Unseen DEF Decided
  <1>4. CASE PremiumCalculated
    <2>1. UNCHANGED <<dbStatus, record, snapshotLocked, policyIssued, outcome>>
      BY <1>4 DEF PremiumCalculated
    <2> QED BY <2>1, Unseen DEF Decided
  <1>5. CASE CaseCreated
    <2>1. UNCHANGED <<dbStatus, record, snapshotLocked, policyIssued, outcome>>
      BY <1>5 DEF CaseCreated
    <2> QED BY <2>1, Unseen DEF Decided
  <1>6. CASE LockTried
    <2>1. UNCHANGED <<dbStatus, record, snapshotLocked, policyIssued, outcome>>
      BY <1>6 DEF LockTried
    <2> QED BY <2>1, Unseen DEF Decided
  <1>7. CASE ReviewerNotified
    <2>1. UNCHANGED <<dbStatus, record, snapshotLocked, policyIssued, outcome>>
      BY <1>7 DEF ReviewerNotified
    <2> QED BY <2>1, Unseen DEF Decided
  <1>8. CASE LockReleased
    <2>1. outcome = "running" /\ UNCHANGED <<record, snapshotLocked, policyIssued, dbStatus>>
      BY <1>8 DEF LockReleased, AfterReview
    <2> QED BY <2>1, RunStops DEF Decided
  <1>9. CASE Escalated
    <2>1. UNCHANGED <<dbStatus, record, snapshotLocked, policyIssued, outcome>>
      BY <1>9 DEF Escalated
    <2> QED BY <2>1, Unseen DEF Decided
  <1>10. CASE DecisionRecorded
    <2>1. /\ outcome = "running" /\ dbStatus \in InReview /\ Decided = "open"
          /\ UNCHANGED <<outcome, dbStatus, snapshotLocked, policyIssued>>
      BY <1>10 DEF DecisionRecorded
    <2> QED BY <2>1, UnderwritingDecided
  <1>11. CASE InfoReceived
    <2>1. UNCHANGED <<dbStatus, record, snapshotLocked, policyIssued, outcome>>
      BY <1>11 DEF InfoReceived
    <2> QED BY <2>1, Unseen DEF Decided
  <1>12. CASE InfoTimedOut
    <2>1. UNCHANGED <<dbStatus, record, snapshotLocked, policyIssued, outcome>>
      BY <1>12 DEF InfoTimedOut
    <2> QED BY <2>1, Unseen DEF Decided
  <1>13. CASE PremiumSnapshotLocked
    <2>1. /\ outcome = "running" /\ dbStatus \in Approved /\ Decided = "approve"
          /\ UNCHANGED <<outcome, dbStatus, record, policyIssued>> /\ snapshotLocked' = TRUE
      BY <1>13 DEF PremiumSnapshotLocked, ApprovalInv, Decided
    <2> QED BY <2>1, SnapshotLocked DEF Decided
  <1>14. CASE PolicyIssued
    <2>1. /\ outcome = "running" /\ dbStatus \in Approved /\ Decided = "approve"
          /\ UNCHANGED <<outcome, dbStatus, record, snapshotLocked>> /\ policyIssued' = TRUE
          /\ snapshotLocked /\ ~policyIssued
      BY <1>14 DEF PolicyIssued, ApprovalInv, AfterIssue, Decided
    <2> QED BY <2>1, PolicyComes DEF Decided
  <1>15. CASE RejectedWritten
    <2>1. /\ outcome = "running" /\ dbStatus' \in Lifecycle[dbStatus] \cup {dbStatus}
          /\ UNCHANGED <<record, snapshotLocked, policyIssued>>
      BY <1>15, Edges DEF RejectedWritten
    <2>2. Decided' = Decided
      BY <2>1 DEF Decided
    <2>3. RowMoves
      BY <1>15, <2>1 DEF RowMoves, RejectedWritten, ApprovalInv, ApprovedStatus, Approved, InReview, Decided
    <2> QED BY <2>1, <2>2, <2>3, RowWritten
  <1>16. CASE Announced
    <2>1. outcome = "running" /\ UNCHANGED <<record, snapshotLocked, policyIssued, dbStatus>>
      BY <1>16 DEF Announced
    <2> QED BY <2>1, RunStops DEF Decided
  <1>17. CASE ActivityThrows
    <2>1. outcome = "running" /\ outcome' = outcome
      BY <1>17 DEF ActivityThrows, Activities
    <2>2. CASE UNCHANGED <<dbStatus, record, snapshotLocked, policyIssued>>
      BY <2>1, <2>2, Unseen DEF Decided
    <2>3. CASE /\ \/ pc = "updateQuoteStatus" /\ dbStatus' = status
                  \/ pc = "updateRejected" /\ dbStatus' = "REJECTED"
               /\ UNCHANGED rows
      <3>1. dbStatus' \in Lifecycle[dbStatus] \cup {dbStatus}
        BY <2>3, Edges
      <3>2. RowMoves
        BY <2>3, <3>1 DEF RowMoves, ApprovalInv, ApprovedStatus, Approved, InReview, Decided
      <3>3. Decided' = Decided
        BY <2>3 DEF Decided
      <3> QED BY <2>1, <2>3, <3>2, <3>3, RowWritten
    <2>4. CASE pc = "recordDecision" /\ UNCHANGED <<dbStatus, snapshotLocked, policyIssued>>
      BY <2>1, <2>4, UnderwritingDecided
    <2>5. CASE /\ pc = "lockPremiumSnapshot" /\ snapshotLocked' = TRUE
               /\ UNCHANGED <<dbStatus, record, policyIssued>>
      <3>1. dbStatus \in Approved /\ Decided = "approve"
        BY <2>5 DEF ApprovalInv, Decided
      <3> QED BY <2>1, <2>5, <3>1, SnapshotLocked DEF Decided
    <2>6. CASE /\ pc = "issuePolicy" /\ policyIssued' = TRUE
               /\ UNCHANGED <<dbStatus, record, snapshotLocked>>
      <3>1. dbStatus \in Approved /\ Decided = "approve" /\ snapshotLocked /\ ~policyIssued
        BY <2>6 DEF ApprovalInv, AfterIssue, Decided
      <3> QED BY <2>1, <2>6, <3>1, PolicyComes DEF Decided
    <2> QED BY <1>17, <2>2, <2>3, <2>4, <2>5, <2>6 DEF ActivityThrows, Effect
  <1>18. CASE Compensated
    <2>1. /\ outcome = "running" /\ dbStatus' \in Lifecycle[dbStatus] \cup {dbStatus}
          /\ UNCHANGED <<record, snapshotLocked, policyIssued>>
      BY <1>18, Edges DEF Compensated, TypeOK
    <2>2. Decided' = Decided
      BY <2>1 DEF Decided
    <2>3. RowMoves
      BY <1>18, <2>1 DEF RowMoves, Compensated, ApprovalInv, ApprovedStatus, Approved, InReview, Decided
    <2> QED BY <2>1, <2>2, <2>3, RowWritten
  <1>19. ASSUME NEW expired \in BOOLEAN, ReviewOver(expired) PROVE Kept
    <2>1. outcome = "running" /\ UNCHANGED <<record, snapshotLocked, policyIssued, dbStatus>>
      BY <1>19 DEF ReviewOver, AfterReview
    <2> QED BY <2>1, RunStops DEF Decided
  <1>20. CASE UwDecisionSignal
    <2>1. UNCHANGED <<dbStatus, record, snapshotLocked, policyIssued, outcome>>
      BY <1>20 DEF UwDecisionSignal, SignalFrame
    <2> QED BY <2>1, Unseen DEF Decided
  <1>21. CASE CancelQuoteSignal
    <2>1. UNCHANGED <<dbStatus, record, snapshotLocked, policyIssued, outcome>>
      BY <1>21 DEF CancelQuoteSignal, SignalFrame
    <2> QED BY <2>1, Unseen DEF Decided
  <1>22. CASE AdditionalInfoSignal
    <2>1. UNCHANGED <<dbStatus, record, snapshotLocked, policyIssued, outcome>>
      BY <1>22 DEF AdditionalInfoSignal, SignalFrame
    <2> QED BY <2>1, Unseen DEF Decided
  <1>23. CASE ExecutionTimedOut
    <2>1. outcome = "running" /\ UNCHANGED <<record, snapshotLocked, policyIssued, dbStatus>>
      BY <1>23 DEF ExecutionTimedOut
    <2> QED BY <2>1, RunStops DEF Decided
  <1>24. CASE UNCHANGED vars
    <2>1. UNCHANGED <<dbStatus, record, snapshotLocked, policyIssued, outcome>>
      BY <1>24 DEF vars
    <2> QED BY <2>1, Unseen DEF Decided
  <1>25. CASE DeskEscalates
    <2>1. UNCHANGED <<dbStatus, record, snapshotLocked, policyIssued, outcome>>
      BY <1>25 DEF DeskEscalates, DeskFrame
    <2> QED BY <2>1, Unseen DEF Decided
  <1>26. CASE DeskDecides
    <2>1. UNCHANGED <<dbStatus, record, snapshotLocked, policyIssued, outcome>>
      BY <1>26 DEF DeskDecides, DeskFrame
    <2> QED BY <2>1, Unseen DEF Decided
  <1> QED BY <1>1, <1>2, <1>3, <1>4, <1>5, <1>6, <1>7, <1>8, <1>9, <1>10, <1>11,
           <1>12, <1>13, <1>14, <1>15, <1>16, <1>17, <1>18, <1>19, <1>20, <1>21,
           <1>22, <1>23, <1>24, <1>25, <1>26
           DEF Next, Step, Signal, Desk

\* The initial states are the promise's.
LEMMA InitPromise == Init => StageInv /\ Promise!Init
  <1> SUFFICES ASSUME Init PROVE StageInv /\ Promise!Init
    OBVIOUS
  <1>1. Decided = "open" /\ (outcome = "running") = TRUE
    BY DEF Init, Decided, Approves, None
  <1>2. StageInv
    BY <1>1, Edges DEF Init, StageInv, StatusAt, RowInv, DecidedInv, Reviewing, InReview, Approved
  <1> QED BY <1>1, <1>2 DEF Init, Promise!Init

\* Every run of the quote workflow, for any decisions, escalations, signals, failures and
\* timeouts, is a run of QuotePromise: what its rounds and retries hide changes nothing that
\* the quote's row, the recorded decision, the snapshot and the policy can show.
THEOREM ImplementsPromise == Spec => KeepsPromise
  <1>1. Init => Inv
    BY InitTypeInv, InitSafety, InitPromise DEF Inv
  <1>2. Inv /\ [Next]_vars => Inv'
    BY StepType, StepSafety, StepStage DEF Inv
  <1>3. Init => Promise!Init
    BY InitPromise
  <1>4. Inv /\ [Next]_vars => [Promise!Next]_(Promise!vars)
    BY StepPromise DEF Kept
  <1> QED BY <1>1, <1>2, <1>3, <1>4, PTL DEF Spec, KeepsPromise, Promise!Spec
=============================================================================
