------------------------------ MODULE Issuance ------------------------------
(***************************************************************************)
(* One quote, its premium snapshots and the policy made of it: the calls   *)
(* of quote.service.ts, policy.service.ts and pricing-rule.service.ts that *)
(* write their rows, as overlapping callers execute them.                  *)
(*                                                                         *)
(* The quote's workflow run calls the services through activities.  It is  *)
(* taken at the level of its contract: it writes statuses in the order of  *)
(* QuoteLifecycle and takes no approval once its cancellation has been     *)
(* signalled (QuoteWorkflow!CancelHonoured).  An attempt that times out    *)
(* goes on running while it is repeated.  Requests come in over REST, and  *)
(* through the methods of the policy service that no controller offers     *)
(* yet.  No call runs in a transaction: every database statement and every *)
(* signal is a step, and a call may fail before any.                       *)
(***************************************************************************)
EXTENDS Integers, FiniteSets, QuoteLifecycle

CONSTANTS
    Callers,            \* calls that may be in progress at once
    Columns,            \* definitions the column quotes.status may have
    Written,            \* the statuses the run is explored to write
    DeskMethods,        \* what requests are explored to call
    MaxSnapshots,       \* bound on premium calculations
    MaxEvents,          \* bound on requests (but the creation of the quote), calls that
                        \* fail, and attempts and runs that time out, taken together
    Nobody

Methods ==
    {"create", "submit", "decide", "cancel", "update", "calculate", "lock", "issue",
     "activate", "lapse", "cancelPolicy", "reinstate"}

ASSUME IssuanceAssumption ==
    /\ \A col \in Columns : QuoteStatus \subseteq col
    /\ \A col \in Columns : col \subseteq QuoteStatus \cup QuoteWorkflowStatus
    /\ Written \subseteq QuoteWorkflowStatus
    /\ DeskMethods \subseteq Methods \ {"create", "update", "lock"}
    /\ MaxSnapshots \in Nat /\ MaxEvents \in Nat
    /\ Nobody \notin Callers

NoRow == "none"
PolicyStatus == {"PENDING_ISSUANCE", "IN_FORCE", "LAPSED", "CANCELLED", "REINSTATED"}

\* Snapshots of the quote are numbered in the order of calculated_at; 0 stands for one of
\* another quote, which issue accepts as well.
Foreign == 0
Snapshots == Foreign..MaxSnapshots
NoSnapshot == -1

VARIABLES
    column,             \* the statuses quotes.status accepts
    \* rows
    quoteStatus,
    temporalWorkflowId, \* it is set
    calculated,         \* how many premium snapshots the quote has
    locked,             \* snapshots with is_locked
    policyStatus, policySnapshot,
    \* the workflow run
    run,                \* what the run is doing
    target,             \* the status it wrote last or is writing
    snapshotId,         \* what its premium calculation returned
    isCancelled,        \* its cancellation buffer
    attempt,            \* the call that serves its activity; Nobody before the next attempt
    \* per call: the statement it executes next, and what it was given or has read
    pc, method, goal, expectedFrom, snapshot,
    \* history
    events,             \* of those bounded by MaxEvents
    quoteLatest, policyLatest,  \* to_status of the last row of each status history
    muddled,            \* rows with overlapping updates, or one that died before its history
    overtaken,          \* calls whose check of the policy another call's update has outdated
    approvalTaken,      \* the run took up a decision that approves
    cancelledInTime,    \* a cancellation was acknowledged before that
    missed,             \* a cancellation was written to the row past a run that was not over
    issuedBy            \* who inserted the policy

quoteRow == <<quoteStatus, temporalWorkflowId>>
snapshotRows == <<calculated, locked>>
policyRow == <<policyStatus, policySnapshot>>
theRun == <<run, target, snapshotId, isCancelled, attempt>>
args == <<method, goal, expectedFrom, snapshot>>
quoteHistory == <<quoteLatest, approvalTaken, cancelledInTime, missed>>
policyHistory == <<policyLatest, overtaken, issuedBy>>
vars == <<column, quoteRow, snapshotRows, policyRow, theRun, pc, args, events,
          quoteHistory, policyHistory, muddled>>

RunCalls == {"update", "calculate", "lock", "issue"}

Statements ==
    {"idle", "insert", "checkEligibility", "startWorkflow", "link", "checkDraft",
     "checkOpen", "signal", "findOrFail", "update", "saveHistory", "insertSnapshot",
     "lockSnapshot", "chooseSnapshot", "lockOnIssue", "insertPolicy", "checkCancellable",
     "checkLapsed", "expectFrom", "updatePolicy", "savePolicyHistory"}

Init ==
    /\ column \in Columns
    /\ quoteStatus = NoRow /\ temporalWorkflowId = FALSE
    /\ calculated = 0 /\ locked = {}
    /\ policyStatus = NoRow /\ policySnapshot = NoSnapshot
    /\ run = "none" /\ target = "DRAFT" /\ snapshotId = NoSnapshot
    /\ isCancelled = FALSE /\ attempt = Nobody
    /\ pc = [k \in Callers |-> "idle"] /\ method = [k \in Callers |-> "none"]
    /\ goal = [k \in Callers |-> "none"] /\ expectedFrom = [k \in Callers |-> "none"]
    /\ snapshot = [k \in Callers |-> NoSnapshot]
    /\ events = 0 /\ quoteLatest = "DRAFT" /\ policyLatest = NoRow
    /\ muddled = {} /\ overtaken = {} /\ approvalTaken = FALSE /\ cancelledInTime = FALSE
    /\ missed = FALSE /\ issuedBy = "nobody"

-----------------------------------------------------------------------------
(* Helpers.  A Fault... operator is the definition that follows it with a mistake in   *)
(* it; nothing refers to one, the mutation checks put it in place.                     *)

\* The statement a method starts with
First ==
    [create |-> "insert", submit |-> "checkDraft", decide |-> "findOrFail",
     cancel |-> "checkOpen", update |-> "findOrFail", calculate |-> "insertSnapshot",
     lock |-> "lockSnapshot", issue |-> "chooseSnapshot", activate |-> "expectFrom",
     lapse |-> "expectFrom", cancelPolicy |-> "checkCancellable", reinstate |-> "checkLapsed"]

\* The status a request asks for
Goals ==
    [submit |-> {"SUBMITTED"}, decide |-> {"APPROVED", "REJECTED"}, cancel |-> {"CANCELLED"},
     calculate |-> {"none"}, issue |-> {"none"}, activate |-> {"IN_FORCE"},
     lapse |-> {"LAPSED"}, cancelPolicy |-> {"CANCELLED"}, reinstate |-> {"REINSTATED"}]

\* What transitionStatus is told to expect; cancel passes on what it has read.
Expected(m) ==
    CASE m = "activate" -> "PENDING_ISSUANCE" [] m = "lapse" -> "IN_FORCE"
      [] m = "reinstate" -> "LAPSED" [] OTHER -> "none"

Begin(k, m, g, s) ==
    /\ pc[k] = "idle"
    /\ pc' = [pc EXCEPT ![k] = First[m]]
    /\ method' = [method EXCEPT ![k] = m]
    /\ goal' = [goal EXCEPT ![k] = g]
    /\ expectedFrom' = [expectedFrom EXCEPT ![k] = Expected(m)]
    /\ snapshot' = [snapshot EXCEPT ![k] = s]

GoTo(k, l) == pc' = [pc EXCEPT ![k] = l]

\* The call is over and its locals are gone.
Ends(k) ==
    /\ GoTo(k, "idle")
    /\ method' = [method EXCEPT ![k] = "none"]
    /\ goal' = [goal EXCEPT ![k] = "none"]
    /\ expectedFrom' = [expectedFrom EXCEPT ![k] = "none"]
    /\ snapshot' = [snapshot EXCEPT ![k] = NoSnapshot]

Live == run \notin {"none", "ended"}

-----------------------------------------------------------------------------
(* The run                                                                 *)

Writes(s) == run' = "update" /\ target' = s
Does(what) == run' = what /\ UNCHANGED target

\* Where the run goes on after a status is written.  CANCELLED follows when a cancellation
\* is noticed, or when an activity that is left out here fails (a notification included).
StatusWritten ==
    \/ target = "PREMIUM_CALCULATION" /\ Does("calculate")
    \/ target \in InReview /\ Does("review")
    \/ target \in Approved /\ Does("lock")
    \/ target \in {"ISSUED", "REJECTED", "CANCELLED"} /\ Does("ended")
    \/ /\ target \in {"RISK_PROFILING", "RULE_EVALUATION", "QUOTED", "SUBMITTED"}
       /\ \E s \in (Lifecycle[target] \cap Written) \ {"CANCELLED"} : Writes(s)
    \/ target = "PREMIUM_CALCULATION" /\ isCancelled /\ Writes("CANCELLED")
    \/ /\ target \in {"RISK_PROFILING", "RULE_EVALUATION", "SUBMITTED", "ISSUED", "REJECTED"}
       /\ Writes("CANCELLED")

\* The attempt the run waits for has succeeded.
Succeeds ==
    \/ run = "update" /\ StatusWritten
    \/ run = "calculate" /\ Writes("QUOTED")
    \/ run = "lock" /\ Does("issue")
    \/ run = "issue" /\ Writes("ISSUED")

\* The call returns.  The run goes on only if it still waits for this attempt.
Return(k) ==
    /\ Ends(k)
    /\ IF attempt = k
       THEN Succeeds /\ attempt' = Nobody
       ELSE UNCHANGED <<run, target, attempt>>

\* An attempt that throws is left to its retry policy.
Throws(k) ==
    /\ Ends(k)
    /\ attempt' = IF attempt = k THEN Nobody ELSE attempt
    /\ UNCHANGED <<run, target>>

\* One of the requests and failures explored
Happens == events < MaxEvents /\ events' = events + 1

\* The activity's worker starts an attempt.  One of issuePolicy is told from a request for
\* a policy by its goal.
AttemptStarts(k) ==
    /\ run \in RunCalls /\ attempt = Nobody
    /\ Begin(k, run,
             CASE run = "update" -> target [] run = "issue" -> "ISSUED" [] OTHER -> "none",
             IF run \in {"lock", "issue"} THEN snapshotId ELSE NoSnapshot)
    /\ attempt' = k
    /\ UNCHANGED <<column, quoteRow, snapshotRows, policyRow, run, target, snapshotId,
                   isCancelled, events, quoteHistory, policyHistory, muddled>>

\* startToCloseTimeout: the attempt goes on, but nobody waits for it.
AttemptTimesOut ==
    /\ attempt # Nobody /\ Happens
    /\ attempt' = Nobody
    /\ UNCHANGED <<column, quoteRow, snapshotRows, policyRow, run, target, snapshotId,
                   isCancelled, pc, args, quoteHistory, policyHistory, muddled>>

\* maximumAttempts: the catch block writes CANCELLED, and gives up if that fails too.
RetriesExhausted ==
    /\ run \in RunCalls /\ attempt = Nobody
    /\ IF run = "update" /\ target = "CANCELLED" THEN Does("ended") ELSE Writes("CANCELLED")
    /\ UNCHANGED <<column, quoteRow, snapshotRows, policyRow, snapshotId, isCancelled,
                   attempt, pc, args, events, quoteHistory, policyHistory, muddled>>

\* A review ends with a decision, another round, a failure, or a cancellation (which need
\* not be written).  No decision that approves is taken up after a cancellation.
ReviewEnds ==
    /\ run = "review"
    /\ \/ ~isCancelled /\ approvalTaken' = TRUE /\ \E s \in Approved \cap Written : Writes(s)
       \/ UNCHANGED approvalTaken /\ \E s \in (InReview \cup {"REJECTED"}) \cap Written : Writes(s)
       \/ UNCHANGED approvalTaken /\ Writes("CANCELLED")
       \/ isCancelled /\ UNCHANGED approvalTaken /\ Does("ended")
    /\ UNCHANGED <<column, quoteRow, snapshotRows, policyRow, snapshotId, isCancelled,
                   attempt, pc, args, events, quoteLatest, cancelledInTime, missed,
                   policyHistory, muddled>>

\* workflowExecutionTimeout
RunTimesOut ==
    /\ Live /\ Happens
    /\ Does("ended") /\ attempt' = Nobody
    /\ UNCHANGED <<column, quoteRow, snapshotRows, policyRow, snapshotId, isCancelled,
                   pc, args, quoteHistory, policyHistory, muddled>>

-----------------------------------------------------------------------------
(* createQuote, submitQuote, cancelQuote and the decision endpoint         *)

\* createQuote, called once for the quote
Create(k) ==
    /\ quoteStatus = NoRow /\ \A j \in Callers : method[j] # "create"
    /\ Begin(k, "create", "REJECTED", NoSnapshot)
    /\ UNCHANGED <<column, quoteRow, snapshotRows, policyRow, theRun, events,
                   quoteHistory, policyHistory, muddled>>

\* Any other request names the quote, or the policy, by an id it must have seen.  Only
\* issue is given a snapshot, or left to take the latest.
DeskCall(k, m) ==
    /\ Happens
    /\ quoteStatus # NoRow
    /\ m \in {"activate", "lapse", "cancelPolicy", "reinstate"} => policyStatus # NoRow
    /\ m = "calculate" => calculated < MaxSnapshots
    /\ \E g \in Goals[m], s \in {NoSnapshot} \cup Foreign..calculated :
           /\ m # "issue" => s = NoSnapshot
           /\ Begin(k, m, g, s)
    /\ UNCHANGED <<column, quoteRow, snapshotRows, policyRow, theRun, quoteHistory,
                   policyHistory, muddled>>

\* The quote is saved in DRAFT, then its line items, which nothing here reads.
Insert(k) ==
    /\ pc[k] = "insert"
    /\ quoteStatus' = "DRAFT"
    /\ GoTo(k, "checkEligibility")
    /\ UNCHANGED <<column, temporalWorkflowId, snapshotRows, policyRow, theRun, args,
                   events, quoteHistory, policyHistory, muddled>>

\* A check that fails to run counts as passed.
CheckEligibility(k) ==
    /\ pc[k] = "checkEligibility"
    /\ GoTo(k, "findOrFail") \/ GoTo(k, "startWorkflow")
    /\ UNCHANGED <<column, quoteRow, snapshotRows, policyRow, theRun, args, events,
                   quoteHistory, policyHistory, muddled>>

\* A failure to start the run is logged, and the quote stays without one.
StartWorkflow(k) ==
    /\ pc[k] = "startWorkflow"
    /\ \/ Writes("RISK_PROFILING") /\ GoTo(k, "link") /\ UNCHANGED args
       \/ Ends(k) /\ UNCHANGED <<run, target>>
    /\ UNCHANGED <<column, quoteRow, snapshotRows, policyRow, snapshotId, isCancelled,
                   attempt, events, quoteHistory, policyHistory, muddled>>

Link(k) ==
    /\ pc[k] = "link"
    /\ temporalWorkflowId' = TRUE
    /\ Ends(k)
    /\ UNCHANGED <<column, quoteStatus, snapshotRows, policyRow, theRun, events,
                   quoteHistory, policyHistory, muddled>>

CheckDraft(k) ==
    /\ pc[k] = "checkDraft"
    /\ IF quoteStatus = "DRAFT" THEN GoTo(k, "findOrFail") /\ UNCHANGED args ELSE Ends(k)
    /\ UNCHANGED <<column, quoteRow, snapshotRows, policyRow, theRun, events,
                   quoteHistory, policyHistory, muddled>>

\* A call that writes the cancellation to the row although a run may go on without it
Misses == missed' = (missed \/ run # "ended")

FaultCheckOpen(k) ==
    /\ pc[k] = "checkOpen"
    /\ IF quoteStatus \in {"ISSUED", "REJECTED", "CANCELLED", "EXPIRED"}
       THEN Ends(k) /\ UNCHANGED <<missed, cancelledInTime>>
       ELSE /\ Ends(k) /\ UNCHANGED missed
            /\ cancelledInTime' = (cancelledInTime \/ ~approvalTaken)
    /\ UNCHANGED <<column, quoteRow, snapshotRows, policyRow, theRun, events,
                   quoteLatest, approvalTaken, policyHistory, muddled>>

\* A quote in a terminal state is refused; otherwise the run is signalled if the row names
\* one, and the row is written if not.
CheckOpen(k) ==
    /\ pc[k] = "checkOpen"
    /\ \/ /\ quoteStatus \in {"ISSUED", "REJECTED", "CANCELLED", "EXPIRED"}
          /\ Ends(k) /\ UNCHANGED missed
       \/ /\ quoteStatus \notin {"ISSUED", "REJECTED", "CANCELLED", "EXPIRED"}
          /\ UNCHANGED args
          /\ IF temporalWorkflowId
             THEN GoTo(k, "signal") /\ UNCHANGED missed
             ELSE GoTo(k, "findOrFail") /\ Misses
    /\ UNCHANGED <<column, quoteRow, snapshotRows, policyRow, theRun, events,
                   quoteLatest, approvalTaken, cancelledInTime, policyHistory, muddled>>

\* The cancellation is acknowledged.
Acknowledges == cancelledInTime' = (cancelledInTime \/ ~approvalTaken)

Signal(k) ==
    /\ pc[k] = "signal" /\ Live
    /\ isCancelled' = TRUE
    /\ Ends(k) /\ Acknowledges
    /\ UNCHANGED <<column, quoteRow, snapshotRows, policyRow, run, target, snapshotId,
                   attempt, events, quoteLatest, approvalTaken, missed, policyHistory, muddled>>

\* The run is over, or cannot be reached.
SignalFails(k) ==
    /\ pc[k] = "signal"
    /\ GoTo(k, "findOrFail") /\ Misses
    /\ UNCHANGED <<column, quoteRow, snapshotRows, policyRow, theRun, args, events,
                   quoteLatest, approvalTaken, cancelledInTime, policyHistory, muddled>>

-----------------------------------------------------------------------------
(* QuoteService.updateStatus                                               *)

Updated(k) ==
    /\ Return(k)
    /\ IF method[k] = "cancel" THEN Acknowledges ELSE UNCHANGED cancelledInTime

FindOrFail(k) ==
    /\ pc[k] = "findOrFail"
    /\ IF quoteStatus = goal[k]
       THEN Updated(k)
       ELSE GoTo(k, "update") /\ UNCHANGED <<args, run, target, attempt, cancelledInTime>>
    /\ UNCHANGED <<column, quoteRow, snapshotRows, policyRow, snapshotId, isCancelled,
                   events, quoteLatest, approvalTaken, missed, policyHistory, muddled>>

Muddles(row, statement, k) ==
    muddled' = IF \E j \in Callers \ {k} : pc[j] = statement THEN muddled \cup {row} ELSE muddled

Update(k) ==
    /\ pc[k] = "update" /\ goal[k] \in column
    /\ quoteStatus' = goal[k]
    /\ GoTo(k, "saveHistory") /\ Muddles("quote", "saveHistory", k)
    /\ UNCHANGED <<column, temporalWorkflowId, snapshotRows, policyRow, theRun, args,
                   events, quoteHistory, policyHistory>>

\* The column has no such status.
UpdateRefused(k) ==
    /\ pc[k] = "update" /\ goal[k] \notin column
    /\ Throws(k)
    /\ UNCHANGED <<column, quoteRow, snapshotRows, policyRow, snapshotId, isCancelled,
                   events, quoteHistory, policyHistory, muddled>>

FaultSaveHistory(k) ==
    /\ pc[k] = "saveHistory"
    /\ Updated(k)
    /\ UNCHANGED <<column, quoteRow, snapshotRows, policyRow, snapshotId, isCancelled,
                   events, quoteLatest, approvalTaken, missed, policyHistory, muddled>>

SaveHistory(k) ==
    /\ pc[k] = "saveHistory"
    /\ quoteLatest' = goal[k]
    /\ Updated(k)
    /\ UNCHANGED <<column, quoteRow, snapshotRows, policyRow, snapshotId, isCancelled,
                   events, approvalTaken, missed, policyHistory, muddled>>

-----------------------------------------------------------------------------
(* PricingRuleService.calculate and lockSnapshot                           *)

\* A new snapshot each time, whether or not another is locked
InsertSnapshot(k) ==
    /\ pc[k] = "insertSnapshot" /\ calculated < MaxSnapshots
    /\ calculated' = calculated + 1
    /\ snapshotId' = IF attempt = k THEN calculated' ELSE snapshotId
    /\ Return(k)
    /\ UNCHANGED <<column, quoteRow, locked, policyRow, isCancelled, events,
                   quoteHistory, policyHistory, muddled>>

LockSnapshot(k) ==
    /\ pc[k] = "lockSnapshot"
    /\ locked' = locked \cup {snapshot[k]}
    /\ Return(k)
    /\ UNCHANGED <<column, quoteRow, calculated, policyRow, snapshotId, isCancelled,
                   events, quoteHistory, policyHistory, muddled>>

-----------------------------------------------------------------------------
(* PolicyService.issue, for a quote in any state                           *)

\* The snapshot named, or the latest; without one the call is refused.  That it is locked
\* already is only logged.
ChooseSnapshot(k) ==
    /\ pc[k] = "chooseSnapshot"
    /\ \/ /\ snapshot[k] = NoSnapshot /\ calculated = 0
          /\ Throws(k)
       \/ /\ snapshot[k] = NoSnapshot /\ calculated > 0
          /\ snapshot' = [snapshot EXCEPT ![k] = calculated]
          /\ GoTo(k, "lockOnIssue")
          /\ UNCHANGED <<method, goal, expectedFrom, run, target, attempt>>
       \/ /\ snapshot[k] # NoSnapshot
          /\ GoTo(k, "lockOnIssue") /\ UNCHANGED <<args, run, target, attempt>>
    /\ UNCHANGED <<column, quoteRow, snapshotRows, policyRow, snapshotId, isCancelled,
                   events, quoteHistory, policyHistory, muddled>>

FaultLockOnIssue(k) ==
    /\ pc[k] = "lockOnIssue"
    /\ GoTo(k, "insertPolicy")
    /\ UNCHANGED <<column, quoteRow, snapshotRows, policyRow, theRun, args, events,
                   quoteHistory, policyHistory, muddled>>

LockOnIssue(k) ==
    /\ pc[k] = "lockOnIssue"
    /\ locked' = locked \cup {snapshot[k]}
    /\ GoTo(k, "insertPolicy")
    /\ UNCHANGED <<column, quoteRow, calculated, policyRow, theRun, args, events,
                   quoteHistory, policyHistory, muddled>>

FaultInsertPolicy(k) ==
    /\ pc[k] = "insertPolicy" /\ policyStatus = NoRow
    /\ policyStatus' = "ACTIVE" /\ policyLatest' = "ACTIVE"
    /\ policySnapshot' = snapshot[k]
    /\ issuedBy' = IF goal[k] = "ISSUED" THEN "run" ELSE "other"
    /\ Return(k)
    /\ UNCHANGED <<column, quoteRow, snapshotRows, snapshotId, isCancelled, events,
                   quoteHistory, overtaken, muddled>>

\* No history row is written.  The coverages copied next are read by nothing here; if that
\* fails, the policy stays, as it does when the answer is lost.
InsertPolicy(k) ==
    /\ pc[k] = "insertPolicy" /\ policyStatus = NoRow
    /\ policyStatus' = "PENDING_ISSUANCE" /\ policyLatest' = "PENDING_ISSUANCE"
    /\ policySnapshot' = snapshot[k]
    /\ issuedBy' = IF goal[k] = "ISSUED" THEN "run" ELSE "other"
    /\ Return(k)
    /\ UNCHANGED <<column, quoteRow, snapshotRows, snapshotId, isCancelled, events,
                   quoteHistory, overtaken, muddled>>

\* The index on quote_id is unique.
InsertPolicyRefused(k) ==
    /\ pc[k] = "insertPolicy" /\ policyStatus # NoRow
    /\ Throws(k)
    /\ UNCHANGED <<column, quoteRow, snapshotRows, policyRow, snapshotId, isCancelled,
                   events, quoteHistory, policyHistory, muddled>>

-----------------------------------------------------------------------------
(* activate, lapse, cancel and reinstate of the policy                     *)

CheckCancellable(k) ==
    /\ pc[k] = "checkCancellable"
    /\ IF policyStatus \in {"IN_FORCE", "LAPSED", "PENDING_ISSUANCE"}
       THEN /\ expectedFrom' = [expectedFrom EXCEPT ![k] = policyStatus]
            /\ GoTo(k, "expectFrom") /\ UNCHANGED <<method, goal, snapshot>>
       ELSE Ends(k)
    /\ UNCHANGED <<column, quoteRow, snapshotRows, policyRow, theRun, events,
                   quoteHistory, policyHistory, muddled>>

CheckLapsed(k) ==
    /\ pc[k] = "checkLapsed"
    /\ IF policyStatus = "LAPSED" THEN GoTo(k, "expectFrom") /\ UNCHANGED args ELSE Ends(k)
    /\ UNCHANGED <<column, quoteRow, snapshotRows, policyRow, theRun, events,
                   quoteHistory, policyHistory, muddled>>

FaultExpectFrom(k) ==
    /\ pc[k] = "expectFrom"
    /\ GoTo(k, "updatePolicy")
    /\ UNCHANGED <<column, quoteRow, snapshotRows, policyRow, theRun, args, events,
                   quoteHistory, policyHistory, muddled>>

\* transitionStatus
ExpectFrom(k) ==
    /\ pc[k] = "expectFrom"
    /\ IF policyStatus = expectedFrom[k]
       THEN GoTo(k, "updatePolicy") /\ UNCHANGED args
       ELSE Ends(k)
    /\ UNCHANGED <<column, quoteRow, snapshotRows, policyRow, theRun, events,
                   quoteHistory, policyHistory, muddled>>

\* The update names the policy only, not the status that was checked.
UpdatePolicy(k) ==
    /\ pc[k] = "updatePolicy"
    /\ policyStatus' = goal[k]
    /\ overtaken' = (overtaken \ {k}) \cup {j \in Callers \ {k} : pc[j] = "updatePolicy"}
    /\ GoTo(k, "savePolicyHistory") /\ Muddles("policy", "savePolicyHistory", k)
    /\ UNCHANGED <<column, quoteRow, snapshotRows, policySnapshot, theRun, args, events,
                   quoteHistory, policyLatest, issuedBy>>

SavePolicyHistory(k) ==
    /\ pc[k] = "savePolicyHistory"
    /\ policyLatest' = goal[k]
    /\ Ends(k)
    /\ UNCHANGED <<column, quoteRow, snapshotRows, policyRow, theRun, events,
                   quoteHistory, overtaken, issuedBy, muddled>>

-----------------------------------------------------------------------------
\* A call fails: the connection or the process is lost.
CallFails(k) ==
    /\ pc[k] # "idle" /\ Happens
    /\ Throws(k)
    /\ muddled' = muddled \cup (IF pc[k] = "saveHistory" THEN {"quote"} ELSE {})
                          \cup (IF pc[k] = "savePolicyHistory" THEN {"policy"} ELSE {})
    /\ overtaken' = overtaken \ {k}
    /\ UNCHANGED <<column, quoteRow, snapshotRows, policyRow, snapshotId, isCancelled,
                   quoteHistory, policyLatest, issuedBy>>

RunStep == AttemptTimesOut \/ RetriesExhausted \/ ReviewEnds \/ RunTimesOut

QuoteCall(k) ==
    \/ Insert(k) \/ CheckEligibility(k) \/ StartWorkflow(k) \/ Link(k)
    \/ CheckDraft(k) \/ CheckOpen(k) \/ Signal(k) \/ SignalFails(k)
    \/ FindOrFail(k) \/ Update(k) \/ UpdateRefused(k) \/ SaveHistory(k)
    \/ InsertSnapshot(k) \/ LockSnapshot(k)

PolicyCall(k) ==
    \/ ChooseSnapshot(k) \/ LockOnIssue(k) \/ InsertPolicy(k) \/ InsertPolicyRefused(k)
    \/ CheckCancellable(k) \/ CheckLapsed(k) \/ ExpectFrom(k) \/ UpdatePolicy(k)
    \/ SavePolicyHistory(k)

Next ==
    \/ RunStep
    \/ \E k \in Callers :
           \/ AttemptStarts(k) \/ Create(k) \/ \E m \in DeskMethods : DeskCall(k, m)
           \/ QuoteCall(k) \/ PolicyCall(k) \/ CallFails(k)

Spec == Init /\ [][Next]_vars

-----------------------------------------------------------------------------
(* Properties                                                              *)

Statuses == QuoteStatus \cup QuoteWorkflowStatus

\* Every variable keeps its type.
TypeOK ==
    /\ column \in Columns
    /\ quoteStatus \in Statuses \cup {NoRow} /\ temporalWorkflowId \in BOOLEAN
    /\ calculated \in 0..MaxSnapshots /\ locked \subseteq Snapshots
    /\ policyStatus \in PolicyStatus \cup {NoRow}
    /\ policySnapshot \in Snapshots \cup {NoSnapshot}
    /\ run \in RunCalls \cup {"none", "review", "ended"}
    /\ target \in QuoteWorkflowStatus
    /\ snapshotId \in Snapshots \cup {NoSnapshot}
    /\ isCancelled \in BOOLEAN /\ attempt \in Callers \cup {Nobody}
    /\ pc \in [Callers -> Statements] /\ method \in [Callers -> Methods \cup {"none"}]
    /\ goal \in [Callers -> Statuses \cup PolicyStatus \cup {"none"}]
    /\ expectedFrom \in [Callers -> PolicyStatus \cup {"none"}]
    /\ snapshot \in [Callers -> Snapshots \cup {NoSnapshot}]
    /\ events \in Nat
    /\ quoteLatest \in Statuses /\ policyLatest \in PolicyStatus \cup {NoRow}
    /\ muddled \subseteq {"quote", "policy"} /\ overtaken \subseteq Callers
    /\ approvalTaken \in BOOLEAN /\ cancelledInTime \in BOOLEAN /\ missed \in BOOLEAN
    /\ issuedBy \in {"nobody", "run", "other"}

\* A policy is always on a locked snapshot, and a quote whose row or history says ISSUED has
\* its policy: however often issuing is repeated, raced by a request or given up.
PolicyBacked ==
    /\ policyStatus # NoRow => policySnapshot \in locked
    /\ "ISSUED" \in {quoteStatus, quoteLatest} => policyStatus # NoRow

\* A cancellation acknowledged before the run took an approval keeps the run from issuing
\* a policy, unless it was written to the row past a run that was not over.
CancellationHeard == issuedBy = "run" /\ cancelledInTime => missed

\* What transitionStatus and its callers allow
PolicyLifecycle ==
    [none |-> {"PENDING_ISSUANCE"}, PENDING_ISSUANCE |-> {"IN_FORCE", "CANCELLED"},
     IN_FORCE |-> {"LAPSED", "CANCELLED"}, LAPSED |-> {"REINSTATED", "CANCELLED"},
     CANCELLED |-> {}, REINSTATED |-> {}]

\* A policy leaves this lifecycle only by a call whose check another call's update has
\* outdated.  So a cancelled policy stays cancelled unless two transitions overlap.
FollowsLifecycle ==
    [][policyStatus' \in PolicyLifecycle[policyStatus]
       \/ \E k \in overtaken : pc[k] = "updatePolicy" /\ pc'[k] # "updatePolicy"]_policyStatus

\* The last row of each history says what the status is, unless an update is about to add
\* its row, or updates overlapped or died half way.
HistoriesAgree ==
    /\ \/ quoteStatus \in {NoRow, quoteLatest} \/ "quote" \in muddled
       \/ \E k \in Callers : pc[k] = "saveHistory"
    /\ \/ policyStatus = policyLatest \/ "policy" \in muddled
       \/ \E k \in Callers : pc[k] = "savePolicyHistory"

\* "If a workflow is running, signal it; otherwise update DB directly"
\* (quote.service.ts:472): a cancellation acknowledged before the run took an approval
\* keeps the run from issuing a policy.  A request that comes between the start of the run
\* and the update that stores its id finds no run to signal.
CancellationStops == issuedBy = "run" => ~cancelledInTime
=============================================================================
