--------------------------- MODULE QuoteWorkflow ---------------------------
(***************************************************************************)
(* The Temporal workflow that drives one quote from risk profiling to the  *)
(* issued policy: src/src/temporal/workflows/quote.workflow.ts.            *)
(*                                                                         *)
(* As in ClaimWorkflow, one action is "the awaited activity, condition or  *)
(* timer resolves, and the code runs up to the next await"; pc names what  *)
(* is awaited, and a signal handler may run at any moment.  Activities run *)
(* at least once: each completes, or throws after its retries with its     *)
(* effect done or not done.  Beside the run, the underwriting desk works   *)
(* on the same case through POST /underwriting/:id/..., and tells the run  *)
(* nothing.                                                                *)
(***************************************************************************)
EXTENDS Integers, QuoteLifecycle

CONSTANT Decisions      \* payloads of a uwDecision signal

UwDecision ==
    {"APPROVE", "REJECT", "REFER_TO_SENIOR", "REQUEST_INFO", "CONDITIONALLY_APPROVE"}

\* Approval levels; the code tells 1 and 2 apart from the rest, which TopLevel stands for.
TopLevel == 3
Levels == 1..TopLevel

\* The level of a case that does not exist yet
NoCase == 0

UwDecisionSignalPayload == [decision : UwDecision, approvalLevel : Levels]

ASSUME DecisionsAssumption == Decisions \subseteq UwDecisionSignalPayload

\* An empty buffer, or no decision on record (the code's null)
None == [decision |-> "none", approvalLevel |-> 1]

\* acquireUnderwritingLock is apart: the workflow swallows its failure.
Activities ==
    {"updateQuoteStatus", "updateRejected", "performRiskProfiling",
     "evaluateEligibilityRules", "calculatePremium", "createUnderwritingCase",
     "notifyReviewer", "releaseLock", "recordDecision", "escalate",
     "lockPremiumSnapshot", "issuePolicy", "notifyIssued", "notifyRejected"}

Waits == {"acquireLock", "awaitDecision", "awaitInfo"}

VARIABLES
    pc,                     \* what the workflow awaits
    outcome,                \* how the execution ended, or "running"
    \* QuoteWorkflowState and the locals that outlive an await
    status,
    currentApprovalLevel,
    isSeniorReviewRequired, \* of the state: set by the risk profile and by every escalation
    riskSenior,             \* riskResult.isSeniorReviewRequired
    lock,                   \* the lock was acquired in this round
    timedOut,               \* the SLA timer won the race of this round
    decision,               \* the decision taken up for this round
    \* signal buffers
    uwDecisionReceived, isCancelled, additionalInfoReceived,
    \* what the activities wrote
    dbStatus,
    caseLevel,              \* the underwriting case's approval level; the desk writes it too
    record,                 \* the last decision the run recorded on the case, not the desk's
    snapshotLocked, policyIssued,
    \* history: never read by the workflow
    stale,                  \* the decision buffer was filled before this round's reviewer was asked
    staleTaken,             \* a stale decision was taken up
    approvalTaken,          \* a decision that approves was taken up
    cancelledInTime,        \* cancellation was signalled before that
    deskEscalated,          \* the level was written from outside since the run took it over
    deskDecided             \* the desk recorded a decision since this round's reviewer was asked

locals  == <<currentApprovalLevel, isSeniorReviewRequired, riskSenior>>
round   == <<lock, timedOut, decision>>
signals == <<uwDecisionReceived, isCancelled, additionalInfoReceived>>
rows    == <<caseLevel, record, snapshotLocked, policyIssued>>
history == <<stale, staleTaken, approvalTaken, cancelledInTime, deskEscalated, deskDecided>>

vars == <<pc, outcome, status, locals, round, signals, dbStatus, rows, history>>

Init ==
    /\ pc = "updateQuoteStatus" /\ status = "RISK_PROFILING" /\ dbStatus = "DRAFT"
    /\ outcome = "running"
    /\ currentApprovalLevel = 1 /\ isSeniorReviewRequired = FALSE /\ riskSenior = FALSE
    /\ lock = FALSE /\ timedOut = FALSE /\ decision = None
    /\ uwDecisionReceived = None /\ isCancelled = FALSE /\ additionalInfoReceived = FALSE
    /\ caseLevel = NoCase /\ record = None /\ snapshotLocked = FALSE /\ policyIssued = FALSE
    /\ stale = FALSE /\ staleTaken = FALSE /\ approvalTaken = FALSE
    /\ cancelledInTime = FALSE /\ deskEscalated = FALSE /\ deskDecided = FALSE

-----------------------------------------------------------------------------
(* Helpers.  A Fault... operator is the definition that follows it with a mistake in   *)
(* it; nothing refers to one, the mutation checks put it in place.                     *)

Await(l) == pc' = l /\ UNCHANGED outcome

\* state.status = s; await updateQuoteStatus(...)
SetStatus(s) == status' = s /\ Await("updateQuoteStatus")

End(o) == outcome' = o /\ pc' = "ended"

\* if (await checkCancelled()) return ...; otherwise the code goes on to await l
OrCancel(l) ==
    IF isCancelled THEN SetStatus("CANCELLED") ELSE Await(l) /\ UNCHANGED status

Approves(d) == d.decision \in {"APPROVE", "CONDITIONALLY_APPROVE"}

\* What an escalation may add to the level: an attempt that raised it and then failed is
\* retried.  Two already reach TopLevel.
EscalateAttempts == 1..2

RaisedLevel(attempts) ==
    IF caseLevel + attempts > TopLevel THEN TopLevel ELSE caseLevel + attempts

\* Top of the underwriting loop, at approval level l
ReviewRound(l, senior) ==
    SetStatus(IF isCancelled THEN "CANCELLED"
              ELSE IF senior /\ l = 2 THEN "PENDING_SENIOR_REVIEW"
              ELSE "UNDER_REVIEW")

FaultAfterReview(expired) ==
    \/ /\ expired /\ ~isSeniorReviewRequired
       /\ Await("escalate")
       /\ UNCHANGED <<status, decision, staleTaken, approvalTaken>>
    \/ /\ expired /\ isSeniorReviewRequired
       /\ SetStatus("REJECTED")
       /\ UNCHANGED <<decision, staleTaken, approvalTaken>>
    \/ /\ ~expired
       /\ decision' = uwDecisionReceived
       /\ staleTaken' = (staleTaken \/ stale)
       /\ approvalTaken' = (approvalTaken \/ Approves(uwDecisionReceived))
       /\ Await("recordDecision")
       /\ UNCHANGED status

\* What follows the race and the release of the lock.  The first expired SLA escalates,
\* one that expires when a senior review is required rejects.  A cancelled run returns
\* without touching its status.  The decision is read from the buffer only now.
AfterReview(expired) ==
    \/ /\ expired /\ ~isSeniorReviewRequired
       /\ Await("escalate")
       /\ UNCHANGED <<status, decision, staleTaken, approvalTaken>>
    \/ /\ expired /\ isSeniorReviewRequired
       /\ SetStatus("REJECTED")
       /\ UNCHANGED <<decision, staleTaken, approvalTaken>>
    \/ /\ ~expired /\ isCancelled
       /\ End("completed")
       /\ UNCHANGED <<status, decision, staleTaken, approvalTaken>>
    \/ /\ ~expired /\ ~isCancelled
       /\ decision' = uwDecisionReceived
       /\ staleTaken' = (staleTaken \/ stale)
       /\ approvalTaken' = (approvalTaken \/ Approves(uwDecisionReceived))
       /\ Await("recordDecision")
       /\ UNCHANGED status

\* A step that changes nothing but pc, outcome, status and the quote row
ControlStep == UNCHANGED <<locals, round, signals, rows, history>>

-----------------------------------------------------------------------------
(* Steps 1 to 4: from risk profiling to the underwriting case              *)

\* Where the run goes on after updateQuoteStatus, by the status just written
StatusWritten ==
    /\ pc = "updateQuoteStatus" /\ dbStatus' = status
    /\ \/ status = "RISK_PROFILING" /\ OrCancel("performRiskProfiling")
       \/ status = "RULE_EVALUATION" /\ OrCancel("evaluateEligibilityRules")
       \/ status = "PREMIUM_CALCULATION" /\ OrCancel("calculatePremium")
       \/ status = "QUOTED" /\ SetStatus("SUBMITTED")
       \/ status = "SUBMITTED" /\ OrCancel("createUnderwritingCase")
       \/ /\ status \in {"UNDER_REVIEW", "PENDING_SENIOR_REVIEW"}
          /\ Await("acquireLock") /\ UNCHANGED status
       \/ /\ status \in {"APPROVED", "CONDITIONALLY_APPROVED"}
          /\ Await("lockPremiumSnapshot") /\ UNCHANGED status
       \/ status = "ISSUED" /\ Await("notifyIssued") /\ UNCHANGED status
       \/ status \in {"REJECTED", "CANCELLED"} /\ End("completed") /\ UNCHANGED status
    /\ ControlStep

\* The risk score may require a senior review; a declined risk band ends the quote.
RiskProfiled ==
    /\ pc = "performRiskProfiling"
    /\ riskSenior' \in BOOLEAN /\ isSeniorReviewRequired' = riskSenior'
    /\ SetStatus("REJECTED") \/ SetStatus("RULE_EVALUATION")
    /\ UNCHANGED <<currentApprovalLevel, round, signals, dbStatus, rows, history>>

EligibilityEvaluated ==
    /\ pc = "evaluateEligibilityRules"
    /\ SetStatus("REJECTED") \/ SetStatus("PREMIUM_CALCULATION")
    /\ UNCHANGED dbStatus /\ ControlStep

FaultPremiumCalculated ==
    /\ pc = "calculatePremium"
    /\ SetStatus("SUBMITTED")
    /\ UNCHANGED dbStatus /\ ControlStep

PremiumCalculated ==
    /\ pc = "calculatePremium"
    /\ SetStatus("QUOTED")
    /\ UNCHANGED dbStatus /\ ControlStep

CaseCreated ==
    /\ pc = "createUnderwritingCase"
    /\ currentApprovalLevel' = 1 /\ caseLevel' = 1
    /\ ReviewRound(1, riskSenior)
    /\ UNCHANGED <<isSeniorReviewRequired, riskSenior, round, signals, dbStatus, record,
                   snapshotLocked, policyIssued, history>>

-----------------------------------------------------------------------------
(* Step 5: the underwriting loop                                           *)

\* The lock is acquired, or its acquisition fails and the round goes on without it.
LockTried ==
    /\ pc = "acquireLock"
    /\ lock' \in BOOLEAN
    /\ Await("notifyReviewer")
    /\ UNCHANGED <<status, locals, timedOut, decision, signals, dbStatus, rows, history>>

FaultReviewerNotified ==
    /\ pc = "notifyReviewer"
    /\ Await("awaitDecision")
    /\ UNCHANGED <<status, locals, round, signals, dbStatus, rows, history>>

\* The decision buffer is cleared only now: a decision signalled earlier is lost.
ReviewerNotified ==
    /\ pc = "notifyReviewer"
    /\ uwDecisionReceived' = None /\ stale' = FALSE /\ deskDecided' = FALSE
    /\ Await("awaitDecision")
    /\ UNCHANGED <<status, locals, round, isCancelled, additionalInfoReceived, dbStatus,
                   rows, staleTaken, approvalTaken, cancelledInTime, deskEscalated>>

\* The race is over.  The timer (48 hours) wins only while nothing was signalled.
ReviewOver(expired) ==
    /\ pc = "awaitDecision"
    /\ expired = (uwDecisionReceived = None /\ ~isCancelled)
    /\ timedOut' = expired
    /\ IF lock
       THEN Await("releaseLock") /\ UNCHANGED <<status, decision, staleTaken, approvalTaken>>
       ELSE AfterReview(expired)
    /\ UNCHANGED <<locals, lock, signals, dbStatus, rows, stale, cancelledInTime,
                   deskEscalated, deskDecided>>

LockReleased ==
    /\ pc = "releaseLock"
    /\ AfterReview(timedOut)
    /\ UNCHANGED <<locals, lock, timedOut, signals, dbStatus, rows, stale, cancelledInTime,
                   deskEscalated, deskDecided>>

FaultEscalated ==
    /\ pc = "escalate"
    /\ \E attempts \in EscalateAttempts : caseLevel' = RaisedLevel(attempts)
    /\ currentApprovalLevel' =
           IF currentApprovalLevel = TopLevel THEN TopLevel ELSE currentApprovalLevel + 1
    /\ isSeniorReviewRequired' = TRUE /\ deskEscalated' = FALSE
    /\ ReviewRound(currentApprovalLevel', riskSenior)
    /\ UNCHANGED <<riskSenior, round, signals, dbStatus, record, snapshotLocked, policyIssued,
                   stale, staleTaken, approvalTaken, cancelledInTime, deskDecided>>

FaultNoSeniorFlag ==
    /\ pc = "escalate"
    /\ \E attempts \in EscalateAttempts : caseLevel' = RaisedLevel(attempts)
    /\ currentApprovalLevel' = caseLevel' /\ deskEscalated' = FALSE
    /\ ReviewRound(caseLevel', riskSenior)
    /\ UNCHANGED <<isSeniorReviewRequired, riskSenior, round, signals, dbStatus, record,
                   snapshotLocked, policyIssued, stale, staleTaken, approvalTaken,
                   cancelledInTime, deskDecided>>

\* Each attempt that raises the level and then fails to notify is followed by another that
\* raises it again; the workflow takes over the level the last attempt returned, and with
\* it whatever the desk had made of the level.
Escalated ==
    /\ pc = "escalate"
    /\ \E attempts \in EscalateAttempts : caseLevel' = RaisedLevel(attempts)
    /\ currentApprovalLevel' = caseLevel'
    /\ isSeniorReviewRequired' = TRUE /\ deskEscalated' = FALSE
    /\ ReviewRound(caseLevel', riskSenior)
    /\ UNCHANGED <<riskSenior, round, signals, dbStatus, record, snapshotLocked, policyIssued,
                   stale, staleTaken, approvalTaken, cancelledInTime, deskDecided>>

FaultDecisionRecorded ==
    /\ pc = "recordDecision"
    /\ record' = decision
    /\ \/ /\ Approves(uwDecisionReceived)
          /\ SetStatus("APPROVED") /\ UNCHANGED additionalInfoReceived
       \/ /\ ~Approves(uwDecisionReceived)
          /\ status' = "REJECTED" /\ Await("updateRejected")
          /\ UNCHANGED additionalInfoReceived
    /\ UNCHANGED <<locals, round, uwDecisionReceived, isCancelled, dbStatus, caseLevel,
                   snapshotLocked, policyIssued, history>>

\* recordUnderwritingDecision returns, and the decision is routed.
DecisionRecorded ==
    /\ pc = "recordDecision"
    /\ record' = decision
    /\ \/ /\ decision.decision = "APPROVE"
          /\ SetStatus("APPROVED") /\ UNCHANGED additionalInfoReceived
       \/ /\ decision.decision = "CONDITIONALLY_APPROVE"
          /\ SetStatus("CONDITIONALLY_APPROVED") /\ UNCHANGED additionalInfoReceived
       \/ /\ decision.decision = "REJECT"
          /\ status' = "REJECTED" /\ Await("updateRejected")
          /\ UNCHANGED additionalInfoReceived
       \/ /\ decision.decision = "REFER_TO_SENIOR"
          /\ Await("escalate") /\ UNCHANGED <<status, additionalInfoReceived>>
       \/ /\ decision.decision = "REQUEST_INFO"
          /\ additionalInfoReceived' = FALSE
          /\ Await("awaitInfo") /\ UNCHANGED status
    /\ UNCHANGED <<locals, round, uwDecisionReceived, isCancelled, dbStatus, caseLevel,
                   snapshotLocked, policyIssued, history>>

\* The review starts over; a cancellation is noticed only then.
InfoReceived ==
    /\ pc = "awaitInfo" /\ additionalInfoReceived
    /\ ReviewRound(currentApprovalLevel, riskSenior)
    /\ UNCHANGED dbStatus /\ ControlStep

\* The 24-hour timer
InfoTimedOut ==
    /\ pc = "awaitInfo" /\ ~additionalInfoReceived
    /\ status' = "REJECTED" /\ Await("updateRejected")
    /\ UNCHANGED dbStatus /\ ControlStep

-----------------------------------------------------------------------------
(* Step 6: issue the policy, or announce the rejection                     *)

PremiumSnapshotLocked ==
    /\ pc = "lockPremiumSnapshot"
    /\ snapshotLocked' = TRUE
    /\ Await("issuePolicy")
    /\ UNCHANGED <<status, locals, round, signals, dbStatus, caseLevel, record, policyIssued,
                   history>>

PolicyIssued ==
    /\ pc = "issuePolicy"
    /\ policyIssued' = TRUE
    /\ SetStatus("ISSUED")
    /\ UNCHANGED <<locals, round, signals, dbStatus, caseLevel, record, snapshotLocked,
                   history>>

RejectedWritten ==
    /\ pc = "updateRejected" /\ dbStatus' = "REJECTED"
    /\ Await("notifyRejected") /\ UNCHANGED status
    /\ ControlStep

Announced ==
    /\ pc \in {"notifyIssued", "notifyRejected"}
    /\ End("completed")
    /\ UNCHANGED <<status, dbStatus>> /\ ControlStep

-----------------------------------------------------------------------------
(* Failure                                                                 *)

\* What the activity in flight writes outside the workflow
Effect ==
    \/ /\ \/ pc = "updateQuoteStatus" /\ dbStatus' = status
          \/ pc = "updateRejected" /\ dbStatus' = "REJECTED"
       /\ UNCHANGED rows
    \/ /\ pc = "createUnderwritingCase" /\ caseLevel' = 1
       /\ UNCHANGED <<dbStatus, record, snapshotLocked, policyIssued>>
    \/ /\ pc = "escalate"
       /\ \E attempts \in EscalateAttempts : caseLevel' = RaisedLevel(attempts)
       /\ UNCHANGED <<dbStatus, record, snapshotLocked, policyIssued>>
    \/ /\ pc = "recordDecision" /\ record' = decision
       /\ UNCHANGED <<dbStatus, caseLevel, snapshotLocked, policyIssued>>
    \/ /\ pc = "lockPremiumSnapshot" /\ snapshotLocked' = TRUE
       /\ UNCHANGED <<dbStatus, caseLevel, record, policyIssued>>
    \/ /\ pc = "issuePolicy" /\ policyIssued' = TRUE
       /\ UNCHANGED <<dbStatus, caseLevel, record, snapshotLocked>>

\* The activity has failed every attempt its retry policy allows (one, for a
\* notification); an attempt may have had its effect all the same.
ActivityThrows ==
    /\ pc \in Activities
    /\ Effect \/ UNCHANGED <<dbStatus, rows>>
    /\ Await("compensate")
    /\ UNCHANGED <<status, locals, round, signals, history>>

\* The catch block: CANCELLED is written, or that write fails too; the error is rethrown.
Compensated ==
    /\ pc = "compensate"
    /\ dbStatus' \in {"CANCELLED", dbStatus}
    /\ End("failed")
    /\ UNCHANGED status /\ ControlStep

\* workflowExecutionTimeout (quoteExpiryDays): the server ends the run and no code of it
\* runs again; nothing writes EXPIRED.
ExecutionTimedOut ==
    /\ outcome = "running"
    /\ End("timedOut")
    /\ UNCHANGED <<status, dbStatus>> /\ ControlStep

-----------------------------------------------------------------------------
(* Signal handlers                                                         *)

SignalFrame ==
    /\ outcome = "running"
    /\ UNCHANGED <<pc, outcome, status, locals, round, dbStatus, rows, staleTaken,
                   approvalTaken, deskEscalated, deskDecided>>

\* The buffer is fresh if it was filled after this round's reviewer was notified.
UwDecisionSignal ==
    /\ uwDecisionReceived' \in Decisions
    /\ stale' = (pc \notin {"awaitDecision", "releaseLock"})
    /\ SignalFrame
    /\ UNCHANGED <<isCancelled, additionalInfoReceived, cancelledInTime>>

CancelQuoteSignal ==
    /\ isCancelled' = TRUE
    /\ cancelledInTime' = (cancelledInTime \/ ~approvalTaken)
    /\ SignalFrame
    /\ UNCHANGED <<uwDecisionReceived, additionalInfoReceived, stale>>

AdditionalInfoSignal ==
    /\ additionalInfoReceived' = TRUE
    /\ SignalFrame
    /\ UNCHANGED <<uwDecisionReceived, isCancelled, stale, cancelledInTime>>

-----------------------------------------------------------------------------
(* The underwriting desk: requests on the run's case, at any moment of the run and after  *)
(* it.  None of them signals the run.                                                     *)

DeskFrame == UNCHANGED <<pc, outcome, status, locals, round, signals, dbStatus, record,
                         snapshotLocked, policyIssued, stale, staleTaken, approvalTaken,
                         cancelledInTime>>

\* POST /underwriting/:id/escalate.  A request reads the level and writes it back raised in
\* two statements, so a slow one writes one more than a level long passed: between them,
\* requests can leave every level from 2 up, whatever the run has made of it meanwhile.  An
\* attempt at the run's own escalation that timed out, and goes on, writes no differently.
DeskEscalates ==
    /\ caseLevel # NoCase
    /\ caseLevel' \in 2..TopLevel
    /\ deskEscalated' = TRUE
    /\ DeskFrame /\ UNCHANGED deskDecided

\* POST /underwriting/:id/approve or reject, with the token of any lock the case has had:
\* the row and the case's status are never read by the run.
DeskDecides ==
    /\ caseLevel # NoCase
    /\ deskDecided' = TRUE
    /\ DeskFrame /\ UNCHANGED <<caseLevel, deskEscalated>>

-----------------------------------------------------------------------------
Signal == UwDecisionSignal \/ CancelQuoteSignal \/ AdditionalInfoSignal

Step ==
    \/ StatusWritten \/ RiskProfiled \/ EligibilityEvaluated \/ PremiumCalculated
    \/ CaseCreated \/ LockTried \/ ReviewerNotified
    \/ \E expired \in BOOLEAN : ReviewOver(expired)
    \/ LockReleased \/ Escalated \/ DecisionRecorded \/ InfoReceived \/ InfoTimedOut
    \/ PremiumSnapshotLocked \/ PolicyIssued \/ RejectedWritten \/ Announced
    \/ ActivityThrows \/ Compensated

Desk == DeskEscalates \/ DeskDecides

Next == Signal \/ Step \/ ExecutionTimedOut \/ Desk

Spec == Init /\ [][Next]_vars

\* Temporal keeps a running workflow going: activities end (their retries are limited)
\* and timers fire.  Nobody is obliged to send a signal or a request.
FairSpec == Spec /\ WF_vars(Step)

-----------------------------------------------------------------------------
(* Properties                                                              *)

\* Every variable keeps its type, and the decision handed to recordUnderwritingDecision is
\* never the empty buffer (the code asserts it with a "!").
TypeOK ==
    /\ pc \in Activities \cup Waits \cup {"compensate", "ended"}
    /\ outcome \in {"running", "completed", "failed", "timedOut"}
    /\ status \in QuoteWorkflowStatus /\ dbStatus \in QuoteWorkflowStatus
    /\ currentApprovalLevel \in Levels /\ caseLevel \in Levels \cup {NoCase}
    /\ isSeniorReviewRequired \in BOOLEAN /\ riskSenior \in BOOLEAN
    /\ lock \in BOOLEAN /\ timedOut \in BOOLEAN
    /\ decision \in Decisions \cup {None} /\ record \in Decisions \cup {None}
    /\ pc = "recordDecision" => decision \in Decisions
    /\ uwDecisionReceived \in Decisions \cup {None}
    /\ isCancelled \in BOOLEAN /\ additionalInfoReceived \in BOOLEAN
    /\ snapshotLocked \in BOOLEAN /\ policyIssued \in BOOLEAN
    /\ stale \in BOOLEAN /\ staleTaken \in BOOLEAN
    /\ approvalTaken \in BOOLEAN /\ cancelledInTime \in BOOLEAN
    /\ deskEscalated \in BOOLEAN /\ deskDecided \in BOOLEAN

\* A policy exists only for a quote whose premium snapshot is locked and for which the last
\* underwriting decision the run recorded approves it, whatever is signalled, retried or
\* referred.  A decision POSTed to /underwriting/:id/approve or reject is no part of it.
IssuedOnApproval == policyIssued => Approves(record) /\ snapshotLocked

\* A review round only ever acts on a decision signalled after its own reviewer was
\* asked: one left over from an earlier round or level is discarded.
FreshDecisions == ~staleTaken

\* A cancellation signalled before an approving decision is taken up prevents the policy,
\* at every await of the run.
CancelHonoured == cancelledInTime => ~policyIssued

\* Retried escalations and the desk's own write the level the workflow keeps a copy of.
\* While a reviewer is waited for, the copy is the case's level unless the desk wrote it
\* since the run last took it over.  And whatever the desk makes of it, a review nobody
\* answered rejects a quote whose risk calls for no senior review only above level 1: the
\* first expiry always brings in a higher reviewer.
EscalationsCount ==
    /\ pc \in {"awaitDecision", "releaseLock", "recordDecision", "awaitInfo"} =>
           currentApprovalLevel = caseLevel \/ deskEscalated
    /\ timedOut /\ status = "REJECTED" /\ ~riskSenior => currentApprovalLevel > 1

\* The underwriting decision the run has put on record, as those outside the run see it
Decided ==
    IF Approves(record) THEN "approve"
    ELSE IF record.decision = "REJECT" THEN "reject" ELSE "open"

Promise ==
    INSTANCE QuotePromise
    WITH stage <- dbStatus, decided <- Decided, locked <- snapshotLocked,
         issued <- policyIssued, open <- outcome = "running"

\* Whatever is signalled, retried, referred, cancelled or fails, the run does to the quote's
\* row, the recorded decision, the snapshot and the policy only what QuotePromise allows:
\* no stage is skipped, a decision that approves or rejects is never revised, the policy
\* comes once and on the locked premium, the row never runs ahead of what was decided or
\* issued, and nothing changes once the run has ended.
KeepsPromise == Promise!Spec

\* A run that people stop writing to ends: expired reviews escalate once and then reject,
\* and no wait is without a timer.
QuietRunEnds == []<><<Signal>>_vars \/ <>(outcome # "running")

\* A cancellation that arrives while a reviewer is waited for ends the run without a
\* policy, whatever decision or timer races with it.
CancelAnswered ==
    isCancelled /\ pc = "awaitDecision" ~> outcome # "running" /\ ~policyIssued

\* "IF risk_score > 80 THEN require Senior Underwriter Approval"
\* (docs/WORKFLOWS.md:18-20): a quote whose risk requires a senior review gets a policy
\* only on a decision of level 2 or above.  The code asks level 1 first and takes its word.
SeniorApproval == policyIssued /\ riskSenior => record.approvalLevel >= 2

\* "recordDecision - validates lock_token, persists decision, signals Temporal"
\* (underwriting.service.ts:262): no review expires in which the desk has recorded a
\* decision.  The method signals nothing, and the run waits on.
DeskDecisionHeard == [][ReviewOver(TRUE) => ~deskDecided]_vars

\* "CancelQuote - updates status directly; signals Temporal if workflow exists"
\* (quote.service.ts:459): a cancelled quote is not left under review when its run ends.
\* A run cancelled while it waits for a reviewer returns without writing CANCELLED.
CancelledIsFinal ==
    outcome = "completed" /\ isCancelled => dbStatus \in {"CANCELLED", "ISSUED", "REJECTED"}
=============================================================================
