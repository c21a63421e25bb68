-------------------------- MODULE ClaimServiceProofs --------------------------
(* Proofs about ClaimService, for any claims, loss dates, callers, columns and        *)
(* bounds: its type, and every invariant the run checks.                              *)
EXTENDS ClaimService, TLAPS

SubmitStatements == {"checkDuplicate", "insert", "startWorkflow"}
StatusStatements == {"findOrFail", "update", "saveHistory"}
Early ==
    {"SUBMITTED", "VALIDATION_PENDING", "UNDER_INVESTIGATION", "FRAUD_REVIEW", "ASSESSMENT",
     "APPROVED"}
RunStates == RunCalls \cup {"none", "awaitAssessment", "ended"}

CallsTyped ==
    /\ pc \in [Callers -> Statements] /\ method \in [Callers -> DOMAIN First \cup {"none"}]
    /\ claim \in [Callers -> Claims \cup {Nobody}] /\ goal \in [Callers -> Statuses]
    /\ seenCount \in [Callers -> Nat] /\ found \in [Callers -> BOOLEAN]

RunsTyped ==
    /\ run \in [Claims -> RunStates] /\ target \in [Claims -> ClaimWorkflowStatus]
    /\ attempt \in [Claims -> Callers \cup {Nobody}]
    /\ signalled \subseteq Claims /\ financed \subseteq Claims

RowsTyped ==
    /\ column \in Columns
    /\ status \in [Claims -> Statuses \cup {NoRow}]
    /\ reopenCount \in [Claims -> Nat] /\ requests \in [Claims -> 0..2]

HistoryTyped ==
    /\ deskCalls \in Nat /\ faults \in Nat
    /\ latest \in [Claims -> Statuses] /\ reopens \in [Claims -> Nat]
    /\ muddled \subseteq Claims /\ wasOver \subseteq Claims /\ clean \subseteq Claims
    /\ raced \subseteq Claims \X Claims
    /\ disrupted \subseteq Claims /\ reopenRace \subseteq Claims

\* Which method is at which statement
Placed ==
    \A k \in Callers :
        /\ pc[k] # "idle" => claim[k] \in Claims
        /\ pc[k] = "idle" => method[k] = "none" /\ claim[k] = Nobody
        /\ pc[k] \in SubmitStatements => method[k] = "submit"
        /\ pc[k] \in StatusStatements => method[k] \in {"update", "investigate", "assess"}
        /\ pc[k] \in {"findDuplicate", "recordValidation"} => method[k] = "validate"
        /\ pc[k] = "signal" => method[k] \in {"investigate", "assess"}
        /\ pc[k] = "createPayoutRequest" => method[k] \in {"requestPayout", "assess"}
        /\ pc[k] \in {"readCount", "updateReopened"} => method[k] = "reopen"

\* A run and the attempt it waits for
RunInStep ==
    \A c \in Claims :
        /\ attempt[c] # Nobody =>
               run[c] \in RunCalls /\ claim[attempt[c]] = c /\ method[attempt[c]] = run[c]
        /\ run[c] = "requestPayout" => target[c] = "FINANCE_REVIEW" /\ c \in financed
        /\ target[c] \in Early => c \notin financed
        /\ run[c] = "none" => c \notin financed
        /\ run[c] = "update" /\ target[c] = "FINANCE_REVIEW" => c \notin financed

\* A claim is submitted by one call, and nothing refers to it before it has its row.
Created ==
    /\ \A j, k \in Callers :
           method[j] = "submit" /\ method[k] = "submit" /\ claim[j] = claim[k] => j = k
    /\ \A k \in Callers :
           /\ pc[k] \in {"checkDuplicate", "insert"} => status[claim[k]] = NoRow
           /\ pc[k] = "startWorkflow" => run[claim[k]] = "none"
    /\ \A c \in Claims : status[c] = NoRow =>
           /\ run[c] = "none" /\ latest[c] = "SUBMITTED"
           /\ \A k \in Callers : claim[k] = c => pc[k] \in {"checkDuplicate", "insert"}

Recorded ==
    \A c \in Claims \ muddled :
        /\ \A k \in Callers :
               pc[k] = "saveHistory" /\ claim[k] = c =>
                   /\ status[c] \in {goal[k], "REOPENED"}
                   /\ \A j \in Callers : pc[j] = "saveHistory" /\ claim[j] = c => j = k
        /\ \/ status[c] \in {NoRow, "REOPENED", latest[c]}
           \/ \E k \in Callers : pc[k] = "saveHistory" /\ claim[k] = c

\* What a call has read of the counter is within its limit, and current if no other is
\* about to write it.
Counted ==
    /\ \A c \in Claims :
           /\ reopenCount[c] <= MAX_REOPEN_COUNT /\ reopenCount[c] <= reopens[c]
           /\ c \notin reopenRace => reopenCount[c] = reopens[c]
    /\ \A k \in Callers : pc[k] = "updateReopened" =>
           /\ seenCount[k] < MAX_REOPEN_COUNT /\ seenCount[k] <= reopens[claim[k]]
           /\ claim[k] \notin reopenRace =>
                  /\ seenCount[k] = reopenCount[claim[k]]
                  /\ \A j \in Callers : pc[j] = "updateReopened" /\ claim[j] = claim[k] => j = k

\* Only the run's one attempt, once it is at the finance review, is about to request a
\* payout of a claim that nothing disrupted.
Requested ==
    /\ \A k \in Callers :
           /\ method[k] = "requestPayout" => pc[k] = "createPayoutRequest" /\ claim[k] \in financed
           /\ method[k] \in {"investigate", "assess"} /\ pc[k] # "signal" => claim[k] \in disrupted
    /\ \A c \in Claims \ disrupted :
           /\ requests[c] < 2 /\ (c \notin financed => requests[c] = 0)
           /\ run[c] = "requestPayout" =>
                  /\ requests[c] = 0
                  /\ \A k \in Callers :
                         method[k] = "requestPayout" /\ claim[k] = c => attempt[c] = k
           /\ \A k \in Callers : method[k] = "requestPayout" /\ claim[k] = c =>
                  /\ requests[c] = 0
                  /\ \A j \in Callers : method[j] = "requestPayout" /\ claim[j] = c => j = k

\* A claim checked clean has a row, and one found over is remembered.
Checked ==
    /\ \A c \in Claims : status[c] \in Over => c \in wasOver
    /\ \A c \in clean : status[c] # NoRow
    /\ LossesKeptApart

Raced(c, d) == <<c, d>> \in raced \/ <<d, c>> \in raced

\* Two submissions past their checks were seen to race; what is in the table was so
\* before the check, or has raced it.
Apart ==
    /\ \A j, k \in Callers :
           pc[j] = "insert" /\ pc[k] = "insert" /\ j # k => Raced(claim[j], claim[k])
    /\ \A k \in Callers : pc[k] = "insert" =>
           \A d \in Claims :
               d # claim[k] /\ Near(claim[k], d) /\ status[d] # NoRow =>
                   d \in wasOver \/ Raced(claim[k], d)
    /\ SubmissionsKeptApart

Inv ==
    /\ CallsTyped /\ RunsTyped /\ RowsTyped /\ HistoryTyped
    /\ Placed /\ RunInStep /\ Created /\ Recorded /\ Counted /\ Requested /\ Checked /\ Apart

LEMMA StatusNames ==
    /\ ClaimWorkflowStatus \subseteq Statuses
    /\ Early \cup {"VALIDATION_PENDING", "REJECTED", "WITHDRAWN", "FINANCE_REVIEW"}
           \subseteq ClaimWorkflowStatus
    /\ {"SUBMITTED", "ASSESSED", "UNDER_INVESTIGATION", "REOPENED"} \subseteq Statuses
    /\ NoRow \notin Statuses /\ "REOPENED" \notin Over
BY DEF Statuses, ClaimStatus, ClaimWorkflowStatus, Early, NoRow, Over

LEMMA ColumnTyped == column \in Columns => column \subseteq Statuses
BY ClaimServiceAssumption DEF Statuses

LEMMA NearSymmetric == ASSUME NEW c \in Claims, NEW d \in Claims PROVE Near(c, d) <=> Near(d, c)
BY ClaimServiceAssumption DEF Near

\* Nothing leads back before the finance review.
LEMMA NoWayBack ==
    ASSUME NEW t \in ClaimWorkflowStatus, NEW s \in Lifecycle[t]
    PROVE  /\ s \in ClaimWorkflowStatus
           /\ s \in Early \cup {"FINANCE_REVIEW"} => t \in Early
BY DEF Lifecycle, ClaimWorkflowStatus, Early

\* What the run of claim c has become once its activity has succeeded
Moved(c) ==
    /\ run[c] \in RunCalls /\ run'[c] \in RunStates \ {"none"}
    /\ target'[c] \in ClaimWorkflowStatus
    /\ run' = [run EXCEPT ![c] = run'[c]] /\ target' = [target EXCEPT ![c] = target'[c]]
    /\ signalled' \subseteq signalled
    /\ financed' = IF run'[c] = "requestPayout" THEN financed \cup {c} ELSE financed
    /\ run'[c] = "requestPayout" =>
           run[c] = "update" /\ target[c] = "FINANCE_REVIEW" /\ target'[c] = "FINANCE_REVIEW"
    /\ target'[c] \in Early => target[c] \in Early
    /\ run'[c] = "update" /\ target'[c] = "FINANCE_REVIEW" => target[c] \in Early

LEMMA RunMoves ==
    ASSUME RunsTyped, NEW c \in Claims, NEW duplicate, Succeeds(c, duplicate)
    PROVE  Moved(c)
<1> USE StatusNames DEF RunsTyped, RunStates, RunCalls, Moved, Writes, Does
<1>1. ASSUME NEW s \in NextStatuses(c), Writes(c, s), run[c] \in RunCalls PROVE Moved(c)
  <2>1. /\ s \in ClaimWorkflowStatus
        /\ s \in Early \cup {"FINANCE_REVIEW"} => target[c] \in Early
    BY NoWayBack DEF NextStatuses
  <2> QED
    BY <1>1, <2>1
<1>2. CASE run[c] = "update" /\ StatusWritten(c)
  <2>1. CASE target[c] \in DOMAIN Work /\ Does(c, Work[target[c]])
    BY <1>2, <2>1 DEF StatusWritten, Work
  <2>2. CASE Writes(c, "WITHDRAWN") \/ (Does(c, "ended") /\ UNCHANGED <<signalled, financed>>)
    BY <1>2, <2>2 DEF Early
  <2> QED
    BY <1>1, <1>2, <2>1, <2>2 DEF StatusWritten
<1> QED
  BY <1>1, <1>2 DEF Succeeds


\* What is left of a call that has ended, and of the run it may have returned to
Ended(k) ==
    /\ CallsTyped' /\ pc'[k] = "idle" /\ method'[k] = "none" /\ claim'[k] = Nobody
    /\ \A j \in Callers \ {k} :
           /\ pc'[j] = pc[j] /\ method'[j] = method[j] /\ claim'[j] = claim[j]
           /\ goal'[j] = goal[j] /\ seenCount'[j] = seenCount[j]

Returned(k) ==
    /\ Ended(k)
    /\ \/ /\ attempt[claim[k]] # k /\ UNCHANGED <<run, target, attempt, financed>>
          /\ signalled' \subseteq signalled \cup {claim[k]}
       \/ /\ attempt[claim[k]] = k /\ Moved(claim[k])
          /\ attempt' = [attempt EXCEPT ![claim[k]] = Nobody]

LEMMA CallEnds == ASSUME CallsTyped, NEW k \in Callers, Ends(k) PROVE Ended(k)
BY StatusNames DEF CallsTyped, Ends, GoTo, Ended, Statements

LEMMA CallReturns ==
    ASSUME CallsTyped, RunsTyped, Placed, NEW k \in Callers, pc[k] # "idle",
           Return(k) \/ Signal(k)
    PROVE  Returned(k)
<1>1. Ended(k) /\ claim[k] \in Claims
  BY CallEnds DEF Return, Signal, Placed
<1>2. CASE attempt[claim[k]] = k
  BY <1>1, <1>2, RunMoves DEF Return, Signal, Returned
<1>3. CASE attempt[claim[k]] # k
  BY <1>1, <1>3 DEF Return, Signal, Returned, runs
<1> QED
  BY <1>2, <1>3

\* A run that a call has returned to is in step again, and so are the others.
LEMMA ReturnedInStep ==
    ASSUME CallsTyped, RunsTyped, Placed, RunInStep, NEW k \in Callers, pc[k] # "idle",
           Returned(k)
    PROVE  /\ RunsTyped' /\ RunInStep'
           /\ \A c \in Claims : run'[c] = "none" <=> run[c] = "none"
<1> USE DEF Returned, Ended
<1>0. claim[k] \in Claims /\ k # Nobody
  BY ClaimServiceAssumption DEF Placed
<1>1. \A c \in Claims : c # claim[k] => attempt[c] # k
  BY <1>0 DEF RunInStep
<1>2. CASE attempt[claim[k]] # k
  <2>1. RunsTyped'
    BY <1>0, <1>2 DEF RunsTyped
  <2>2. \A c \in Claims : attempt[c] # k /\ attempt[c] \in Callers \cup {Nobody}
    BY <1>1, <1>2 DEF RunsTyped
  <2> QED
    BY <1>2, <2>1, <2>2 DEF RunInStep
<1>3. CASE attempt[claim[k]] = k
  <2>1. RunsTyped'
    BY <1>0, <1>3 DEF RunsTyped, Moved, RunStates
  <2>2. /\ run'[claim[k]] # "none" /\ run[claim[k]] # "none"
        /\ \A c \in Claims \ {claim[k]} :
               run'[c] = run[c] /\ target'[c] = target[c] /\ attempt'[c] = attempt[c]
        /\ attempt'[claim[k]] = Nobody
    BY <1>0, <1>3 DEF RunsTyped, Moved, RunCalls
  <2>3. ASSUME NEW c \in Claims, c # claim[k]
        PROVE  /\ attempt'[c] # Nobody =>
                      /\ run'[c] \in RunCalls /\ claim'[attempt'[c]] = c
                      /\ method'[attempt'[c]] = run'[c]
               /\ c \in financed' <=> c \in financed
    <3>1. attempt[c] # k /\ attempt[c] \in Callers \cup {Nobody}
      BY <1>1, <2>3 DEF RunsTyped
    <3> QED
      BY <1>3, <2>2, <2>3, <3>1 DEF RunInStep, Moved
  <2>4. /\ run'[claim[k]] = "requestPayout" =>
                target'[claim[k]] = "FINANCE_REVIEW" /\ claim[k] \in financed'
        /\ target'[claim[k]] \in Early => claim[k] \notin financed'
        /\ run'[claim[k]] = "update" /\ target'[claim[k]] = "FINANCE_REVIEW" =>
                claim[k] \notin financed'
    BY <1>0, <1>3 DEF RunInStep, Moved, Early
  <2> QED
    BY <1>0, <2>1, <2>2, <2>3, <2>4 DEF RunInStep
<1> QED
  BY <1>2, <1>3

\* A run that gives up, or whose wait is over, is in step.
LEMMA StoppedInStep ==
    ASSUME RunsTyped, RunInStep, NEW c \in Claims, attempt[c] = Nobody,
           RetriesExhausted(c) \/ AssessmentAwaited(c)
    PROVE  RunsTyped' /\ RunInStep'
<1>1. /\ run' = [run EXCEPT ![c] = run'[c]] /\ target' = [target EXCEPT ![c] = target'[c]]
      /\ run'[c] \in {"update", "ended", "assess"}
      /\ target'[c] \in {target[c], "WITHDRAWN", "REJECTED"}
      /\ run'[c] = "update" => target'[c] \in {"WITHDRAWN", "REJECTED"}
      /\ run[c] # "none"
      /\ UNCHANGED <<attempt, signalled, financed, claim, method>>
  BY DEF RetriesExhausted, AssessmentAwaited, Writes, Does, RunsTyped, RunCalls, args
<1>2. RunsTyped'
  BY <1>1, StatusNames DEF RunsTyped, RunStates, RunCalls
<1> QED
  BY <1>1, <1>2 DEF RunsTyped, RunInStep, Early

\* A call that ends leaves the claims as created as they were.
LEMMA EndedCreated ==
    ASSUME CallsTyped, Placed, Created, NEW k \in Callers, pc[k] # "idle", Ended(k),
           \A c \in Claims : /\ status'[c] = NoRow <=> status[c] = NoRow
                             /\ run'[c] = "none" <=> run[c] = "none"
                             /\ status[c] = NoRow => latest'[c] = latest[c]
    PROVE  Created'
<1>1. \A j \in Callers : method'[j] = "submit" => j # k /\ method[j] = "submit"
  BY DEF Ended
<1>2. \A j \in Callers : pc'[j] # "idle" => j # k /\ claim[j] \in Claims
  BY DEF Ended, Placed
<1>3. \A c \in Claims, j \in Callers : claim'[j] = c => j # k
  BY ClaimServiceAssumption, <1>2 DEF Ended, Placed, Created
<1> QED
  BY <1>1, <1>2, <1>3 DEF Ended, Created, SubmitStatements

-----------------------------------------------------------------------------
LEMMA CallsTypedKept == Inv /\ [Next]_vars => CallsTyped'
<1> SUFFICES ASSUME Inv, [Next]_vars PROVE CallsTyped'
  OBVIOUS
<1> USE ClaimServiceAssumption DEF Inv, GoTo, CallsTyped, rows, runs, args, counters,
        rowHistory, claimHistory, reopenHistory, history, Statements, RunCalls,
        SubmitStatements, StatusStatements
<1>1. ASSUME NEW k \in Callers, NEW c \in Claims, Submit(k, c) PROVE CallsTyped'
  BY <1>1, StatusNames DEF Submit, Begin, First, Placed, RunsTyped, RowsTyped, HistoryTyped,
      Created
<1>2. ASSUME NEW k \in Callers, NEW c \in Claims, NEW m \in DeskMethods[c],
              DeskCall(k, m, c) PROVE CallsTyped'
  BY <1>2, StatusNames DEF DeskCall, Begin, First, Placed, RunsTyped, RowsTyped, HistoryTyped,
      Created
<1>3. ASSUME NEW k \in Callers, CheckDuplicate(k) PROVE CallsTyped'
  BY <1>3, CallEnds DEF CheckDuplicate, Ended, Placed, RunsTyped, RunInStep, Moved
<1>4. ASSUME NEW k \in Callers, Insert(k) PROVE CallsTyped'
  BY <1>4 DEF Insert, RunsTyped
<1>5. ASSUME NEW k \in Callers, StartWorkflow(k) PROVE CallsTyped'
  BY <1>5, StatusNames DEF StartWorkflow, Ends, Placed, RunsTyped, RowsTyped, HistoryTyped,
      Created
<1>6. ASSUME NEW k \in Callers, FindOrFail(k) PROVE CallsTyped'
  BY <1>6, CallReturns DEF FindOrFail, AfterUpdate, Ended, Returned, Placed, RunsTyped,
      RunInStep, Moved
<1>7. ASSUME NEW k \in Callers, Update(k) PROVE CallsTyped'
  BY <1>7 DEF Update, RunsTyped
<1>8. ASSUME NEW k \in Callers, SaveHistory(k) PROVE CallsTyped'
  BY <1>8, CallReturns DEF SaveHistory, AfterUpdate, Ended, Returned, Placed, RunsTyped,
      RunInStep, Moved
<1>9. ASSUME NEW k \in Callers, FindDuplicate(k) PROVE CallsTyped'
  BY <1>9 DEF FindDuplicate, RunsTyped
<1>10. ASSUME NEW k \in Callers, RecordValidation(k) PROVE CallsTyped'
  BY <1>10, StatusNames DEF RecordValidation, Return, Ends, Placed, RunsTyped, RowsTyped,
      HistoryTyped, Created
<1>11. ASSUME NEW k \in Callers, Signal(k) PROVE CallsTyped'
  BY <1>11, StatusNames DEF Signal, Ends, Placed, RunsTyped, RowsTyped, HistoryTyped, Created
<1>12. ASSUME NEW k \in Callers, SignalFails(k) PROVE CallsTyped'
  BY <1>12, StatusNames DEF SignalFails, Placed, RunsTyped, RowsTyped, HistoryTyped, Created
<1>13. ASSUME NEW k \in Callers, CreatePayoutRequest(k) PROVE CallsTyped'
  BY <1>13, StatusNames DEF CreatePayoutRequest, Return, Ends, Placed, RunsTyped, RowsTyped,
      HistoryTyped, Created
<1>14. ASSUME NEW k \in Callers, FallbackRequestFails(k) PROVE CallsTyped'
  BY <1>14, StatusNames DEF FallbackRequestFails, Return, Ends, Placed, RunsTyped, RowsTyped,
      HistoryTyped, Created
<1>15. ASSUME NEW k \in Callers, ReadCount(k) PROVE CallsTyped'
  BY <1>15 DEF ReadCount, Placed, RunsTyped, RowsTyped, HistoryTyped
<1>16. ASSUME NEW k \in Callers, UpdateReopened(k) PROVE CallsTyped'
  BY <1>16, StatusNames DEF UpdateReopened, Return, Ends, Placed, RunsTyped, RowsTyped,
      HistoryTyped, Created
<1>17. ASSUME NEW k \in Callers, CallFails(k) PROVE CallsTyped'
  BY <1>17, StatusNames DEF CallFails, Strikes, Ends, Placed, RunsTyped, RowsTyped,
      HistoryTyped, Created
<1>18. ASSUME NEW k \in Callers, NEW c \in Claims, AttemptStarts(k, c) PROVE CallsTyped'
  BY <1>18, StatusNames DEF AttemptStarts, Begin, First, Placed, RunsTyped, RowsTyped,
      HistoryTyped, Created
<1>19. ASSUME NEW c \in Claims, AttemptTimesOut(c) PROVE CallsTyped'
  BY <1>19 DEF AttemptTimesOut, Strikes, RunsTyped
<1>20. ASSUME NEW c \in Claims, RetriesExhausted(c) PROVE CallsTyped'
  BY <1>20 DEF RetriesExhausted, Does, Writes, RunsTyped
<1>21. ASSUME NEW c \in Claims, AssessmentAwaited(c) PROVE CallsTyped'
  BY <1>21 DEF AssessmentAwaited, Does, Writes, RunsTyped
<1>22. ASSUME NEW c \in Claims, RunTimesOut(c) PROVE CallsTyped'
  BY <1>22 DEF RunTimesOut, Strikes, Does, RunsTyped
<1>23. CASE UNCHANGED vars
  BY <1>23 DEF vars
<1> QED
  BY <1>1, <1>2, <1>3, <1>4, <1>5, <1>6, <1>7, <1>8, <1>9, <1>10, <1>11, <1>12, <1>13,
     <1>14, <1>15, <1>16, <1>17, <1>18, <1>19, <1>20, <1>21, <1>22, <1>23
  DEF Next, RunStep, Request, CallStep

LEMMA RunsTypedKept == Inv /\ [Next]_vars => RunsTyped'
<1> SUFFICES ASSUME Inv, [Next]_vars PROVE RunsTyped'
  OBVIOUS
<1> USE ClaimServiceAssumption DEF Inv, GoTo, RunsTyped, rows, runs, args, counters,
        rowHistory, claimHistory, reopenHistory, history, Statements, RunCalls,
        SubmitStatements, StatusStatements
<1>1. ASSUME NEW k \in Callers, NEW c \in Claims, Submit(k, c) PROVE RunsTyped'
  BY <1>1 DEF Submit, Begin, First, CallsTyped
<1>2. ASSUME NEW k \in Callers, NEW c \in Claims, NEW m \in DeskMethods[c],
              DeskCall(k, m, c) PROVE RunsTyped'
  BY <1>2 DEF DeskCall, Begin, First, CallsTyped
<1>3. ASSUME NEW k \in Callers, CheckDuplicate(k) PROVE RunsTyped'
  BY <1>3 DEF CheckDuplicate, Ends, CallsTyped
<1>4. ASSUME NEW k \in Callers, Insert(k) PROVE RunsTyped'
  BY <1>4 DEF Insert, CallsTyped
<1>5. ASSUME NEW k \in Callers, StartWorkflow(k) PROVE RunsTyped'
  BY <1>5, StatusNames DEF StartWorkflow, RunStates, Placed
<1>6. ASSUME NEW k \in Callers, FindOrFail(k) PROVE RunsTyped'
  <2>1. Return(k) \/ UNCHANGED <<runs, financed>>
    BY <1>6 DEF FindOrFail, AfterUpdate
  <2>2. CASE Return(k)
    BY <1>6, <2>2, CallReturns, ReturnedInStep DEF FindOrFail
  <2>3. CASE UNCHANGED <<runs, financed>>
    BY <2>3
  <2> QED
    BY <2>1, <2>2, <2>3
<1>7. ASSUME NEW k \in Callers, Update(k) PROVE RunsTyped'
  BY <1>7 DEF Update, CallsTyped
<1>8. ASSUME NEW k \in Callers, SaveHistory(k) PROVE RunsTyped'
  <2>1. Return(k) \/ UNCHANGED <<runs, financed>>
    BY <1>8 DEF SaveHistory, AfterUpdate
  <2>2. CASE Return(k)
    BY <1>8, <2>2, CallReturns, ReturnedInStep DEF SaveHistory
  <2>3. CASE UNCHANGED <<runs, financed>>
    BY <2>3
  <2> QED
    BY <2>1, <2>2, <2>3
<1>9. ASSUME NEW k \in Callers, FindDuplicate(k) PROVE RunsTyped'
  BY <1>9 DEF FindDuplicate, CallsTyped
<1>10. ASSUME NEW k \in Callers, RecordValidation(k) PROVE RunsTyped'
  BY <1>10, CallReturns, ReturnedInStep DEF RecordValidation
<1>11. ASSUME NEW k \in Callers, Signal(k) PROVE RunsTyped'
  BY <1>11, CallReturns, ReturnedInStep DEF Signal
<1>12. ASSUME NEW k \in Callers, SignalFails(k) PROVE RunsTyped'
  BY <1>12 DEF SignalFails, CallsTyped
<1>13. ASSUME NEW k \in Callers, CreatePayoutRequest(k) PROVE RunsTyped'
  BY <1>13, CallReturns, ReturnedInStep DEF CreatePayoutRequest
<1>14. ASSUME NEW k \in Callers, FallbackRequestFails(k) PROVE RunsTyped'
  BY <1>14, CallReturns, ReturnedInStep DEF FallbackRequestFails
<1>15. ASSUME NEW k \in Callers, ReadCount(k) PROVE RunsTyped'
  BY <1>15 DEF ReadCount, CallsTyped
<1>16. ASSUME NEW k \in Callers, UpdateReopened(k) PROVE RunsTyped'
  BY <1>16, CallReturns, ReturnedInStep DEF UpdateReopened
<1>17. ASSUME NEW k \in Callers, CallFails(k) PROVE RunsTyped'
  BY <1>17 DEF CallFails, Strikes, Ends, CallsTyped
<1>18. ASSUME NEW k \in Callers, NEW c \in Claims, AttemptStarts(k, c) PROVE RunsTyped'
  BY <1>18 DEF AttemptStarts, Begin, First, CallsTyped
<1>19. ASSUME NEW c \in Claims, AttemptTimesOut(c) PROVE RunsTyped'
  BY <1>19 DEF AttemptTimesOut, Strikes, CallsTyped
<1>20. ASSUME NEW c \in Claims, RetriesExhausted(c) PROVE RunsTyped'
  BY <1>20, StoppedInStep DEF RetriesExhausted
<1>21. ASSUME NEW c \in Claims, AssessmentAwaited(c) PROVE RunsTyped'
  <2>1. attempt[c] = Nobody
    BY <1>21 DEF AssessmentAwaited, RunInStep
  <2> QED
    BY <1>21, <2>1, StoppedInStep
<1>22. ASSUME NEW c \in Claims, RunTimesOut(c) PROVE RunsTyped'
  BY <1>22 DEF RunTimesOut, Strikes, Does, RunStates
<1>23. CASE UNCHANGED vars
  BY <1>23 DEF vars
<1> QED
  BY <1>1, <1>2, <1>3, <1>4, <1>5, <1>6, <1>7, <1>8, <1>9, <1>10, <1>11, <1>12, <1>13,
     <1>14, <1>15, <1>16, <1>17, <1>18, <1>19, <1>20, <1>21, <1>22, <1>23
  DEF Next, RunStep, Request, CallStep

LEMMA RowsTypedKept == Inv /\ [Next]_vars => RowsTyped'
<1> SUFFICES ASSUME Inv, [Next]_vars PROVE RowsTyped'
  OBVIOUS
<1> USE ClaimServiceAssumption DEF Inv, GoTo, RowsTyped, rows, runs, args, counters,
        rowHistory, claimHistory, reopenHistory, history, Statements, RunCalls,
        SubmitStatements, StatusStatements
<1>1. ASSUME NEW k \in Callers, NEW c \in Claims, Submit(k, c) PROVE RowsTyped'
  BY <1>1 DEF Submit, Begin, First, CallsTyped, RunsTyped
<1>2. ASSUME NEW k \in Callers, NEW c \in Claims, NEW m \in DeskMethods[c],
              DeskCall(k, m, c) PROVE RowsTyped'
  BY <1>2 DEF DeskCall, Begin, First, CallsTyped, RunsTyped
<1>3. ASSUME NEW k \in Callers, CheckDuplicate(k) PROVE RowsTyped'
  BY <1>3 DEF CheckDuplicate, Ends, CallsTyped, RunsTyped
<1>4. ASSUME NEW k \in Callers, Insert(k) PROVE RowsTyped'
  BY <1>4, StatusNames DEF Insert, CallsTyped, Placed, RunsTyped, HistoryTyped, Created
<1>5. ASSUME NEW k \in Callers, StartWorkflow(k) PROVE RowsTyped'
  BY <1>5 DEF StartWorkflow, Ends, CallsTyped, RunsTyped
<1>6. ASSUME NEW k \in Callers, FindOrFail(k) PROVE RowsTyped'
  BY <1>6 DEF FindOrFail, AfterUpdate, Return, Ends, CallsTyped, RunsTyped
<1>7. ASSUME NEW k \in Callers, Update(k) PROVE RowsTyped'
  BY <1>7 DEF Update, CallsTyped, RunsTyped
<1>8. ASSUME NEW k \in Callers, SaveHistory(k) PROVE RowsTyped'
  BY <1>8 DEF SaveHistory, AfterUpdate, Return, Ends, CallsTyped, RunsTyped
<1>9. ASSUME NEW k \in Callers, FindDuplicate(k) PROVE RowsTyped'
  BY <1>9 DEF FindDuplicate, CallsTyped, RunsTyped
<1>10. ASSUME NEW k \in Callers, RecordValidation(k) PROVE RowsTyped'
  BY <1>10 DEF RecordValidation, Return, Ends, CallsTyped, RunsTyped
<1>11. ASSUME NEW k \in Callers, Signal(k) PROVE RowsTyped'
  BY <1>11 DEF Signal, Ends, CallsTyped, RunsTyped
<1>12. ASSUME NEW k \in Callers, SignalFails(k) PROVE RowsTyped'
  BY <1>12 DEF SignalFails, CallsTyped, RunsTyped
<1>13. ASSUME NEW k \in Callers, CreatePayoutRequest(k) PROVE RowsTyped'
  BY <1>13 DEF CreatePayoutRequest, Return, Ends, CallsTyped, Placed, RunsTyped
<1>14. ASSUME NEW k \in Callers, FallbackRequestFails(k) PROVE RowsTyped'
  BY <1>14 DEF FallbackRequestFails, Return, Ends, CallsTyped, RunsTyped
<1>15. ASSUME NEW k \in Callers, ReadCount(k) PROVE RowsTyped'
  BY <1>15 DEF ReadCount, CallsTyped, RunsTyped
<1>16. ASSUME NEW k \in Callers, UpdateReopened(k) PROVE RowsTyped'
  BY <1>16, StatusNames DEF UpdateReopened, Return, Ends, CallsTyped, Placed, RunsTyped,
      HistoryTyped, Created
<1>17. ASSUME NEW k \in Callers, CallFails(k) PROVE RowsTyped'
  BY <1>17 DEF CallFails, Strikes, Ends, CallsTyped, RunsTyped
<1>18. ASSUME NEW k \in Callers, NEW c \in Claims, AttemptStarts(k, c) PROVE RowsTyped'
  BY <1>18 DEF AttemptStarts, Begin, First, CallsTyped, RunsTyped
<1>19. ASSUME NEW c \in Claims, AttemptTimesOut(c) PROVE RowsTyped'
  BY <1>19 DEF AttemptTimesOut, Strikes, CallsTyped, RunsTyped
<1>20. ASSUME NEW c \in Claims, RetriesExhausted(c) PROVE RowsTyped'
  BY <1>20 DEF RetriesExhausted, Does, Writes, CallsTyped, RunsTyped
<1>21. ASSUME NEW c \in Claims, AssessmentAwaited(c) PROVE RowsTyped'
  BY <1>21 DEF AssessmentAwaited, Does, Writes, CallsTyped, RunsTyped
<1>22. ASSUME NEW c \in Claims, RunTimesOut(c) PROVE RowsTyped'
  BY <1>22 DEF RunTimesOut, Strikes, Does, CallsTyped, RunsTyped
<1>23. CASE UNCHANGED vars
  BY <1>23 DEF vars
<1> QED
  BY <1>1, <1>2, <1>3, <1>4, <1>5, <1>6, <1>7, <1>8, <1>9, <1>10, <1>11, <1>12, <1>13,
     <1>14, <1>15, <1>16, <1>17, <1>18, <1>19, <1>20, <1>21, <1>22, <1>23
  DEF Next, RunStep, Request, CallStep

LEMMA HistoryTypedKept == Inv /\ [Next]_vars => HistoryTyped'
<1> SUFFICES ASSUME Inv, [Next]_vars PROVE HistoryTyped'
  OBVIOUS
<1> USE ClaimServiceAssumption DEF Inv, GoTo, HistoryTyped, rows, runs, args, counters,
        rowHistory, claimHistory, reopenHistory, history, Statements, RunCalls,
        SubmitStatements, StatusStatements
<1>1. ASSUME NEW k \in Callers, NEW c \in Claims, Submit(k, c) PROVE HistoryTyped'
  BY <1>1 DEF Submit, Begin, First, CallsTyped, RunsTyped
<1>2. ASSUME NEW k \in Callers, NEW c \in Claims, NEW m \in DeskMethods[c],
              DeskCall(k, m, c) PROVE HistoryTyped'
  BY <1>2 DEF DeskCall, Begin, First, CallsTyped, RunsTyped
<1>3. ASSUME NEW k \in Callers, CheckDuplicate(k) PROVE HistoryTyped'
  BY <1>3 DEF CheckDuplicate, Ends, CallsTyped, Placed, RunsTyped
<1>4. ASSUME NEW k \in Callers, Insert(k) PROVE HistoryTyped'
  BY <1>4 DEF Insert, CallsTyped, RunsTyped
<1>5. ASSUME NEW k \in Callers, StartWorkflow(k) PROVE HistoryTyped'
  BY <1>5 DEF StartWorkflow, Ends, CallsTyped, RunsTyped
<1>6. ASSUME NEW k \in Callers, FindOrFail(k) PROVE HistoryTyped'
  BY <1>6 DEF FindOrFail, AfterUpdate, Return, Ends, CallsTyped, RunsTyped
<1>7. ASSUME NEW k \in Callers, Update(k) PROVE HistoryTyped'
  BY <1>7 DEF Update, CallsTyped, Placed, RunsTyped
<1>8. ASSUME NEW k \in Callers, SaveHistory(k) PROVE HistoryTyped'
  BY <1>8 DEF SaveHistory, AfterUpdate, Return, Ends, CallsTyped, RunsTyped
<1>9. ASSUME NEW k \in Callers, FindDuplicate(k) PROVE HistoryTyped'
  BY <1>9 DEF FindDuplicate, CallsTyped, Placed, RunsTyped
<1>10. ASSUME NEW k \in Callers, RecordValidation(k) PROVE HistoryTyped'
  BY <1>10 DEF RecordValidation, Return, Ends, CallsTyped, RunsTyped
<1>11. ASSUME NEW k \in Callers, Signal(k) PROVE HistoryTyped'
  BY <1>11 DEF Signal, Ends, CallsTyped, RunsTyped
<1>12. ASSUME NEW k \in Callers, SignalFails(k) PROVE HistoryTyped'
  BY <1>12 DEF SignalFails, CallsTyped, Placed, RunsTyped
<1>13. ASSUME NEW k \in Callers, CreatePayoutRequest(k) PROVE HistoryTyped'
  BY <1>13 DEF CreatePayoutRequest, Return, Ends, CallsTyped, RunsTyped
<1>14. ASSUME NEW k \in Callers, FallbackRequestFails(k) PROVE HistoryTyped'
  BY <1>14 DEF FallbackRequestFails, Return, Ends, CallsTyped, RunsTyped
<1>15. ASSUME NEW k \in Callers, ReadCount(k) PROVE HistoryTyped'
  BY <1>15 DEF ReadCount, CallsTyped, Placed, RunsTyped
<1>16. ASSUME NEW k \in Callers, UpdateReopened(k) PROVE HistoryTyped'
  BY <1>16 DEF UpdateReopened, Return, Ends, CallsTyped, Placed, RunsTyped
<1>17. ASSUME NEW k \in Callers, CallFails(k) PROVE HistoryTyped'
  BY <1>17 DEF CallFails, Strikes, Ends, CallsTyped, Placed, RunsTyped
<1>18. ASSUME NEW k \in Callers, NEW c \in Claims, AttemptStarts(k, c) PROVE HistoryTyped'
  BY <1>18 DEF AttemptStarts, Begin, First, CallsTyped, RunsTyped
<1>19. ASSUME NEW c \in Claims, AttemptTimesOut(c) PROVE HistoryTyped'
  BY <1>19 DEF AttemptTimesOut, Strikes, CallsTyped, RunsTyped
<1>20. ASSUME NEW c \in Claims, RetriesExhausted(c) PROVE HistoryTyped'
  BY <1>20 DEF RetriesExhausted, Does, Writes, CallsTyped, RunsTyped
<1>21. ASSUME NEW c \in Claims, AssessmentAwaited(c) PROVE HistoryTyped'
  BY <1>21 DEF AssessmentAwaited, Does, Writes, CallsTyped, RunsTyped
<1>22. ASSUME NEW c \in Claims, RunTimesOut(c) PROVE HistoryTyped'
  BY <1>22 DEF RunTimesOut, Strikes, Does, CallsTyped, RunsTyped
<1>23. CASE UNCHANGED vars
  BY <1>23 DEF vars
<1> QED
  BY <1>1, <1>2, <1>3, <1>4, <1>5, <1>6, <1>7, <1>8, <1>9, <1>10, <1>11, <1>12, <1>13,
     <1>14, <1>15, <1>16, <1>17, <1>18, <1>19, <1>20, <1>21, <1>22, <1>23
  DEF Next, RunStep, Request, CallStep

LEMMA PlacedKept == Inv /\ [Next]_vars => Placed'
<1> SUFFICES ASSUME Inv, [Next]_vars PROVE Placed'
  OBVIOUS
<1> USE ClaimServiceAssumption DEF Inv, GoTo, Placed, rows, runs, args, counters,
        rowHistory, claimHistory, reopenHistory, history, Statements, RunCalls,
        SubmitStatements, StatusStatements
<1>1. ASSUME NEW k \in Callers, NEW c \in Claims, Submit(k, c) PROVE Placed'
  BY <1>1 DEF Submit, Begin, First, CallsTyped, RunsTyped
<1>2. ASSUME NEW k \in Callers, NEW c \in Claims, NEW m \in DeskMethods[c],
              DeskCall(k, m, c) PROVE Placed'
  BY <1>2 DEF DeskCall, Begin, First, CallsTyped, RunsTyped
<1>3. ASSUME NEW k \in Callers, CheckDuplicate(k) PROVE Placed'
  BY <1>3 DEF CheckDuplicate, Ends, CallsTyped, RunsTyped
<1>4. ASSUME NEW k \in Callers, Insert(k) PROVE Placed'
  BY <1>4 DEF Insert, CallsTyped, RunsTyped
<1>5. ASSUME NEW k \in Callers, StartWorkflow(k) PROVE Placed'
  BY <1>5 DEF StartWorkflow, Ends, CallsTyped, RunsTyped
<1>6. ASSUME NEW k \in Callers, FindOrFail(k) PROVE Placed'
  BY <1>6 DEF FindOrFail, AfterUpdate, Return, Ends, CallsTyped, RunsTyped
<1>7. ASSUME NEW k \in Callers, Update(k) PROVE Placed'
  BY <1>7 DEF Update, CallsTyped, RunsTyped
<1>8. ASSUME NEW k \in Callers, SaveHistory(k) PROVE Placed'
  BY <1>8 DEF SaveHistory, AfterUpdate, Return, Ends, CallsTyped, RunsTyped
<1>9. ASSUME NEW k \in Callers, FindDuplicate(k) PROVE Placed'
  BY <1>9 DEF FindDuplicate, CallsTyped, RunsTyped
<1>10. ASSUME NEW k \in Callers, RecordValidation(k) PROVE Placed'
  BY <1>10 DEF RecordValidation, Return, Ends, CallsTyped, RunsTyped
<1>11. ASSUME NEW k \in Callers, Signal(k) PROVE Placed'
  BY <1>11 DEF Signal, Ends, CallsTyped, RunsTyped
<1>12. ASSUME NEW k \in Callers, SignalFails(k) PROVE Placed'
  BY <1>12 DEF SignalFails, CallsTyped, RunsTyped
<1>13. ASSUME NEW k \in Callers, CreatePayoutRequest(k) PROVE Placed'
  BY <1>13 DEF CreatePayoutRequest, Return, Ends, CallsTyped, RunsTyped
<1>14. ASSUME NEW k \in Callers, FallbackRequestFails(k) PROVE Placed'
  BY <1>14 DEF FallbackRequestFails, Return, Ends, CallsTyped, RunsTyped
<1>15. ASSUME NEW k \in Callers, ReadCount(k) PROVE Placed'
  BY <1>15 DEF ReadCount, CallsTyped, RunsTyped
<1>16. ASSUME NEW k \in Callers, UpdateReopened(k) PROVE Placed'
  BY <1>16 DEF UpdateReopened, Return, Ends, CallsTyped, RunsTyped
<1>17. ASSUME NEW k \in Callers, CallFails(k) PROVE Placed'
  BY <1>17 DEF CallFails, Strikes, Ends, CallsTyped, RunsTyped
<1>18. ASSUME NEW k \in Callers, NEW c \in Claims, AttemptStarts(k, c) PROVE Placed'
  BY <1>18 DEF AttemptStarts, Begin, First, CallsTyped, RunsTyped
<1>19. ASSUME NEW c \in Claims, AttemptTimesOut(c) PROVE Placed'
  BY <1>19 DEF AttemptTimesOut, Strikes, CallsTyped, RunsTyped
<1>20. ASSUME NEW c \in Claims, RetriesExhausted(c) PROVE Placed'
  BY <1>20 DEF RetriesExhausted, Does, Writes, CallsTyped, RunsTyped
<1>21. ASSUME NEW c \in Claims, AssessmentAwaited(c) PROVE Placed'
  BY <1>21 DEF AssessmentAwaited, Does, Writes, CallsTyped, RunsTyped
<1>22. ASSUME NEW c \in Claims, RunTimesOut(c) PROVE Placed'
  BY <1>22 DEF RunTimesOut, Strikes, Does, CallsTyped, RunsTyped
<1>23. CASE UNCHANGED vars
  BY <1>23 DEF vars
<1> QED
  BY <1>1, <1>2, <1>3, <1>4, <1>5, <1>6, <1>7, <1>8, <1>9, <1>10, <1>11, <1>12, <1>13,
     <1>14, <1>15, <1>16, <1>17, <1>18, <1>19, <1>20, <1>21, <1>22, <1>23
  DEF Next, RunStep, Request, CallStep

LEMMA RunInStepKept == Inv /\ [Next]_vars => RunInStep'
<1> SUFFICES ASSUME Inv, [Next]_vars PROVE RunInStep'
  OBVIOUS
<1> USE ClaimServiceAssumption DEF Inv, GoTo, RunInStep, rows, runs, args, counters,
        rowHistory, claimHistory, reopenHistory, history, Statements, RunCalls,
        SubmitStatements, StatusStatements
<1>1. ASSUME NEW k \in Callers, NEW c \in Claims, Submit(k, c) PROVE RunInStep'
  BY <1>1 DEF Submit, Begin, First, CallsTyped, Placed, RunsTyped
<1>2. ASSUME NEW k \in Callers, NEW c \in Claims, NEW m \in DeskMethods[c],
              DeskCall(k, m, c) PROVE RunInStep'
  BY <1>2 DEF DeskCall, Begin, First, CallsTyped, Placed, RunsTyped
<1>3. ASSUME NEW k \in Callers, CheckDuplicate(k) PROVE RunInStep'
  BY <1>3 DEF CheckDuplicate, Ends, CallsTyped, Placed, RunsTyped
<1>4. ASSUME NEW k \in Callers, Insert(k) PROVE RunInStep'
  BY <1>4 DEF Insert, CallsTyped, RunsTyped
<1>5. ASSUME NEW k \in Callers, StartWorkflow(k) PROVE RunInStep'
  BY <1>5, StatusNames DEF StartWorkflow, Ends, CallsTyped, Placed, RunsTyped, RowsTyped,
      HistoryTyped, Created
<1>6. ASSUME NEW k \in Callers, FindOrFail(k) PROVE RunInStep'
  <2>1. CASE status[claim[k]] = goal[k] /\ method[k] # "assess"
    <3>1. pc[k] # "idle" /\ Return(k)
      BY <1>6, <2>1 DEF FindOrFail, AfterUpdate
    <3> QED
      BY <3>1, CallReturns, ReturnedInStep
  <2>2. CASE ~(status[claim[k]] = goal[k] /\ method[k] # "assess")
    BY <1>6, <2>2 DEF FindOrFail, AfterUpdate
  <2> QED
    BY <2>1, <2>2
<1>7. ASSUME NEW k \in Callers, Update(k) PROVE RunInStep'
  BY <1>7 DEF Update, CallsTyped, RunsTyped
<1>8. ASSUME NEW k \in Callers, SaveHistory(k) PROVE RunInStep'
  <2>1. CASE method[k] # "assess"
    <3>1. pc[k] # "idle" /\ Return(k)
      BY <1>8, <2>1 DEF SaveHistory, AfterUpdate
    <3> QED
      BY <3>1, CallReturns, ReturnedInStep
  <2>2. CASE ~(method[k] # "assess")
    BY <1>8, <2>2 DEF SaveHistory, AfterUpdate
  <2> QED
    BY <2>1, <2>2
<1>9. ASSUME NEW k \in Callers, FindDuplicate(k) PROVE RunInStep'
  BY <1>9 DEF FindDuplicate, CallsTyped, RunsTyped
<1>10. ASSUME NEW k \in Callers, RecordValidation(k) PROVE RunInStep'
  BY <1>10, RunMoves DEF RecordValidation, Return, Ends, CallsTyped, Placed, RunsTyped, Moved
<1>11. ASSUME NEW k \in Callers, Signal(k) PROVE RunInStep'
  <2>1. pc[k] # "idle" /\ Returned(k)
    BY <1>11, CallReturns DEF Signal
  <2> QED
    BY <2>1, ReturnedInStep
<1>12. ASSUME NEW k \in Callers, SignalFails(k) PROVE RunInStep'
  BY <1>12 DEF SignalFails, CallsTyped, RunsTyped
<1>13. ASSUME NEW k \in Callers, CreatePayoutRequest(k) PROVE RunInStep'
  BY <1>13, RunMoves DEF CreatePayoutRequest, Return, Ends, CallsTyped, Placed, RunsTyped,
      Moved
<1>14. ASSUME NEW k \in Callers, FallbackRequestFails(k) PROVE RunInStep'
  BY <1>14, RunMoves DEF FallbackRequestFails, Return, Ends, CallsTyped, Placed, RunsTyped,
      Moved
<1>15. ASSUME NEW k \in Callers, ReadCount(k) PROVE RunInStep'
  BY <1>15 DEF ReadCount, CallsTyped, RunsTyped
<1>16. ASSUME NEW k \in Callers, UpdateReopened(k) PROVE RunInStep'
  BY <1>16, RunMoves DEF UpdateReopened, Return, Ends, CallsTyped, Placed, RunsTyped, Moved
<1>17. ASSUME NEW k \in Callers, CallFails(k) PROVE RunInStep'
  BY <1>17 DEF CallFails, Strikes, Ends, CallsTyped, RunsTyped
<1>18. ASSUME NEW k \in Callers, NEW c \in Claims, AttemptStarts(k, c) PROVE RunInStep'
  BY <1>18 DEF AttemptStarts, Begin, First, CallsTyped, Placed, RunsTyped
<1>19. ASSUME NEW c \in Claims, AttemptTimesOut(c) PROVE RunInStep'
  BY <1>19 DEF AttemptTimesOut, Strikes, CallsTyped, RunsTyped
<1>20. ASSUME NEW c \in Claims, RetriesExhausted(c) PROVE RunInStep'
  BY <1>20, StoppedInStep DEF RetriesExhausted
<1>21. ASSUME NEW c \in Claims, AssessmentAwaited(c) PROVE RunInStep'
  <2>1. attempt[c] = Nobody
    BY <1>21 DEF AssessmentAwaited
  <2> QED
    BY <1>21, <2>1, StoppedInStep
<1>22. ASSUME NEW c \in Claims, RunTimesOut(c) PROVE RunInStep'
  BY <1>22 DEF RunTimesOut, Strikes, Does, CallsTyped, RunsTyped
<1>23. CASE UNCHANGED vars
  BY <1>23 DEF vars
<1> QED
  BY <1>1, <1>2, <1>3, <1>4, <1>5, <1>6, <1>7, <1>8, <1>9, <1>10, <1>11, <1>12, <1>13,
     <1>14, <1>15, <1>16, <1>17, <1>18, <1>19, <1>20, <1>21, <1>22, <1>23
  DEF Next, RunStep, Request, CallStep

LEMMA CreatedKept == Inv /\ [Next]_vars => Created'
<1> SUFFICES ASSUME Inv, [Next]_vars PROVE Created'
  OBVIOUS
<1> USE ClaimServiceAssumption DEF Inv, GoTo, Created, rows, runs, args, counters,
        rowHistory, claimHistory, reopenHistory, history, Statements, RunCalls,
        SubmitStatements, StatusStatements
<1>1. ASSUME NEW k \in Callers, NEW c \in Claims, Submit(k, c) PROVE Created'
  BY <1>1 DEF Submit, Begin, First, CallsTyped, RunsTyped
<1>2. ASSUME NEW k \in Callers, NEW c \in Claims, NEW m \in DeskMethods[c],
              DeskCall(k, m, c) PROVE Created'
  BY <1>2 DEF DeskCall, Begin, First, CallsTyped, RunsTyped
<1>3. ASSUME NEW k \in Callers, CheckDuplicate(k) PROVE Created'
  <2>1. UNCHANGED <<status, run, latest>>
    BY <1>3 DEF CheckDuplicate
  <2>2. CASE Duplicates(claim[k]) # {}
    <3>1. Ended(k) /\ pc[k] # "idle"
      BY <1>3, <2>2, CallEnds DEF CheckDuplicate
    <3> QED
      BY <2>1, <3>1, EndedCreated
  <2>3. CASE Duplicates(claim[k]) = {}
    BY <1>3, <2>1, <2>3 DEF CheckDuplicate, CallsTyped
  <2> QED
    BY <2>2, <2>3
<1>4. ASSUME NEW k \in Callers, Insert(k) PROVE Created'
  BY <1>4, StatusNames DEF Insert, CallsTyped, Placed, RunsTyped, RowsTyped, HistoryTyped
<1>5. ASSUME NEW k \in Callers, StartWorkflow(k) PROVE Created'
  <2>1. /\ Ended(k) /\ claim[k] \in Claims /\ method[k] = "submit" /\ pc[k] = "startWorkflow"
        /\ UNCHANGED <<status, latest>>
        /\ \A c \in Claims \ {claim[k]} : run'[c] = run[c]
    BY <1>5, CallEnds DEF StartWorkflow, Placed, RunsTyped
  <2>2. status[claim[k]] # NoRow
    BY <2>1
  <2>3. \A j \in Callers : pc'[j] = "startWorkflow" => claim'[j] # claim[k] /\ claim[j] \in Claims
    BY <2>1 DEF Ended, Placed
  <2> QED
    BY <2>1, <2>2, <2>3 DEF Ended
<1>6. ASSUME NEW k \in Callers, FindOrFail(k) PROVE Created'
  <2>1. UNCHANGED <<status, latest>>
    BY <1>6 DEF FindOrFail
  <2>2. CASE Return(k)
    <3>1. Returned(k) /\ pc[k] # "idle"
      BY <1>6, <2>2, CallReturns DEF FindOrFail
    <3> QED
      BY <2>1, <3>1, ReturnedInStep, EndedCreated DEF Returned
  <2>3. CASE ~Return(k)
    BY <1>6, <2>1, <2>3 DEF FindOrFail, AfterUpdate, CallsTyped
  <2> QED
    BY <2>2, <2>3
<1>7. ASSUME NEW k \in Callers, Update(k) PROVE Created'
  BY <1>7, StatusNames DEF Update, CallsTyped, Placed, RunsTyped, RowsTyped, HistoryTyped
<1>8. ASSUME NEW k \in Callers, SaveHistory(k) PROVE Created'
  <2>1. /\ status[claim[k]] # NoRow /\ claim[k] \in Claims /\ UNCHANGED status
        /\ latest' = [latest EXCEPT ![claim[k]] = goal[k]]
    BY <1>8 DEF SaveHistory, Placed
  <2>2. CASE Return(k)
    <3>1. Returned(k) /\ pc[k] # "idle"
      BY <1>8, <2>2, CallReturns DEF SaveHistory
    <3> QED
      BY <2>1, <3>1, ReturnedInStep, EndedCreated DEF Returned, HistoryTyped
  <2>3. CASE ~Return(k)
    BY <1>8, <2>1, <2>3 DEF SaveHistory, AfterUpdate, CallsTyped, HistoryTyped
  <2> QED
    BY <2>2, <2>3
<1>9. ASSUME NEW k \in Callers, FindDuplicate(k) PROVE Created'
  BY <1>9 DEF FindDuplicate, CallsTyped, RunsTyped
<1>10. ASSUME NEW k \in Callers, RecordValidation(k) PROVE Created'
  <2>1. pc[k] # "idle" /\ Returned(k)
    BY <1>10, CallReturns DEF RecordValidation
  <2>2. \A c \in Claims : run'[c] = "none" <=> run[c] = "none"
    BY <2>1, ReturnedInStep
  <2>3. UNCHANGED <<status, latest>>
    BY <1>10 DEF RecordValidation
  <2> QED
    BY <1>10, <2>1, <2>2, <2>3, EndedCreated DEF Returned
<1>11. ASSUME NEW k \in Callers, Signal(k) PROVE Created'
  <2>1. pc[k] # "idle" /\ Returned(k)
    BY <1>11, CallReturns DEF Signal
  <2>2. \A c \in Claims : run'[c] = "none" <=> run[c] = "none"
    BY <2>1, ReturnedInStep
  <2>3. UNCHANGED <<status, latest>>
    BY <1>11 DEF Signal
  <2> QED
    BY <1>11, <2>1, <2>2, <2>3, EndedCreated DEF Returned
<1>12. ASSUME NEW k \in Callers, SignalFails(k) PROVE Created'
  BY <1>12 DEF SignalFails, CallsTyped, RunsTyped
<1>13. ASSUME NEW k \in Callers, CreatePayoutRequest(k) PROVE Created'
  <2>1. pc[k] # "idle" /\ Returned(k)
    BY <1>13, CallReturns DEF CreatePayoutRequest
  <2>2. \A c \in Claims : run'[c] = "none" <=> run[c] = "none"
    BY <2>1, ReturnedInStep
  <2>3. UNCHANGED <<status, latest>>
    BY <1>13 DEF CreatePayoutRequest
  <2> QED
    BY <1>13, <2>1, <2>2, <2>3, EndedCreated DEF Returned
<1>14. ASSUME NEW k \in Callers, FallbackRequestFails(k) PROVE Created'
  <2>1. pc[k] # "idle" /\ Returned(k)
    BY <1>14, CallReturns DEF FallbackRequestFails
  <2>2. \A c \in Claims : run'[c] = "none" <=> run[c] = "none"
    BY <2>1, ReturnedInStep
  <2>3. UNCHANGED <<status, latest>>
    BY <1>14 DEF FallbackRequestFails
  <2> QED
    BY <1>14, <2>1, <2>2, <2>3, EndedCreated DEF Returned
<1>15. ASSUME NEW k \in Callers, ReadCount(k) PROVE Created'
  BY <1>15 DEF ReadCount, CallsTyped, RunsTyped
<1>16. ASSUME NEW k \in Callers, UpdateReopened(k) PROVE Created'
  <2>1. pc[k] # "idle" /\ Returned(k)
    BY <1>16, CallReturns DEF UpdateReopened
  <2>2. \A c \in Claims : run'[c] = "none" <=> run[c] = "none"
    BY <2>1, ReturnedInStep
  <2>3. /\ \A c \in Claims : status'[c] = NoRow <=> status[c] = NoRow
        /\ UNCHANGED latest
    BY <1>16, StatusNames DEF UpdateReopened, Placed, RowsTyped
  <2> QED
    BY <1>16, <2>1, <2>2, <2>3, EndedCreated DEF Returned
<1>17. ASSUME NEW k \in Callers, CallFails(k) PROVE Created'
  <2>1. Ended(k) /\ pc[k] # "idle" /\ UNCHANGED <<status, run, latest>>
    BY <1>17, CallEnds DEF CallFails
  <2> QED
    BY <2>1, EndedCreated
<1>18. ASSUME NEW k \in Callers, NEW c \in Claims, AttemptStarts(k, c) PROVE Created'
  BY <1>18 DEF AttemptStarts, Begin, First, CallsTyped, RunsTyped
<1>19. ASSUME NEW c \in Claims, AttemptTimesOut(c) PROVE Created'
  BY <1>19 DEF AttemptTimesOut, Strikes, CallsTyped, RunsTyped
<1>20. ASSUME NEW c \in Claims, RetriesExhausted(c) PROVE Created'
  BY <1>20 DEF RetriesExhausted, Does, Writes, CallsTyped, Placed, RunsTyped
<1>21. ASSUME NEW c \in Claims, AssessmentAwaited(c) PROVE Created'
  BY <1>21 DEF AssessmentAwaited, Does, Writes, CallsTyped, Placed, RunsTyped
<1>22. ASSUME NEW c \in Claims, RunTimesOut(c) PROVE Created'
  BY <1>22 DEF RunTimesOut, Strikes, Does, CallsTyped, RunsTyped
<1>23. CASE UNCHANGED vars
  BY <1>23 DEF vars
<1> QED
  BY <1>1, <1>2, <1>3, <1>4, <1>5, <1>6, <1>7, <1>8, <1>9, <1>10, <1>11, <1>12, <1>13,
     <1>14, <1>15, <1>16, <1>17, <1>18, <1>19, <1>20, <1>21, <1>22, <1>23
  DEF Next, RunStep, Request, CallStep

LEMMA RecordedKept == Inv /\ [Next]_vars => Recorded'
<1> SUFFICES ASSUME Inv, [Next]_vars PROVE Recorded'
  OBVIOUS
<1> USE ClaimServiceAssumption DEF Inv, GoTo, Recorded, rows, runs, args, counters,
        rowHistory, claimHistory, reopenHistory, history, Statements, RunCalls,
        SubmitStatements, StatusStatements
<1>1. ASSUME NEW k \in Callers, NEW c \in Claims, Submit(k, c) PROVE Recorded'
  BY <1>1 DEF Submit, Begin, First, CallsTyped, RunsTyped
<1>2. ASSUME NEW k \in Callers, NEW c \in Claims, NEW m \in DeskMethods[c],
              DeskCall(k, m, c) PROVE Recorded'
  BY <1>2 DEF DeskCall, Begin, First, CallsTyped, RunsTyped
<1>3. ASSUME NEW k \in Callers, CheckDuplicate(k) PROVE Recorded'
  BY <1>3 DEF CheckDuplicate, Ends, CallsTyped, RunsTyped
<1>4. ASSUME NEW k \in Callers, Insert(k) PROVE Recorded'
  BY <1>4, StatusNames DEF Insert, CallsTyped, Placed, RunsTyped, RowsTyped, HistoryTyped,
      Created
<1>5. ASSUME NEW k \in Callers, StartWorkflow(k) PROVE Recorded'
  BY <1>5 DEF StartWorkflow, Ends, CallsTyped, RunsTyped
<1>6. ASSUME NEW k \in Callers, FindOrFail(k) PROVE Recorded'
  BY <1>6 DEF FindOrFail, AfterUpdate, Return, Ends, CallsTyped, RunsTyped
<1>7. ASSUME NEW k \in Callers, Update(k) PROVE Recorded'
  BY <1>7 DEF Update, CallsTyped, Placed, RunsTyped, RowsTyped, HistoryTyped
<1>8. ASSUME NEW k \in Callers, SaveHistory(k) PROVE Recorded'
  BY <1>8 DEF SaveHistory, AfterUpdate, Return, Ends, CallsTyped, Placed, RunsTyped, RowsTyped,
      HistoryTyped
<1>9. ASSUME NEW k \in Callers, FindDuplicate(k) PROVE Recorded'
  BY <1>9 DEF FindDuplicate, CallsTyped, RunsTyped
<1>10. ASSUME NEW k \in Callers, RecordValidation(k) PROVE Recorded'
  BY <1>10 DEF RecordValidation, Return, Ends, CallsTyped, RunsTyped
<1>11. ASSUME NEW k \in Callers, Signal(k) PROVE Recorded'
  BY <1>11 DEF Signal, Ends, CallsTyped, RunsTyped
<1>12. ASSUME NEW k \in Callers, SignalFails(k) PROVE Recorded'
  BY <1>12 DEF SignalFails, CallsTyped, RunsTyped
<1>13. ASSUME NEW k \in Callers, CreatePayoutRequest(k) PROVE Recorded'
  BY <1>13 DEF CreatePayoutRequest, Return, Ends, CallsTyped, RunsTyped
<1>14. ASSUME NEW k \in Callers, FallbackRequestFails(k) PROVE Recorded'
  BY <1>14 DEF FallbackRequestFails, Return, Ends, CallsTyped, RunsTyped
<1>15. ASSUME NEW k \in Callers, ReadCount(k) PROVE Recorded'
  BY <1>15 DEF ReadCount, CallsTyped, RunsTyped
<1>16. ASSUME NEW k \in Callers, UpdateReopened(k) PROVE Recorded'
  BY <1>16 DEF UpdateReopened, Return, Ends, CallsTyped, RunsTyped
<1>17. ASSUME NEW k \in Callers, CallFails(k) PROVE Recorded'
  BY <1>17 DEF CallFails, Strikes, Ends, CallsTyped, RunsTyped
<1>18. ASSUME NEW k \in Callers, NEW c \in Claims, AttemptStarts(k, c) PROVE Recorded'
  BY <1>18 DEF AttemptStarts, Begin, First, CallsTyped, RunsTyped
<1>19. ASSUME NEW c \in Claims, AttemptTimesOut(c) PROVE Recorded'
  BY <1>19 DEF AttemptTimesOut, Strikes, CallsTyped, RunsTyped
<1>20. ASSUME NEW c \in Claims, RetriesExhausted(c) PROVE Recorded'
  BY <1>20 DEF RetriesExhausted, Does, Writes, CallsTyped, RunsTyped
<1>21. ASSUME NEW c \in Claims, AssessmentAwaited(c) PROVE Recorded'
  BY <1>21 DEF AssessmentAwaited, Does, Writes, CallsTyped, RunsTyped
<1>22. ASSUME NEW c \in Claims, RunTimesOut(c) PROVE Recorded'
  BY <1>22 DEF RunTimesOut, Strikes, Does, CallsTyped, RunsTyped
<1>23. CASE UNCHANGED vars
  BY <1>23 DEF vars
<1> QED
  BY <1>1, <1>2, <1>3, <1>4, <1>5, <1>6, <1>7, <1>8, <1>9, <1>10, <1>11, <1>12, <1>13,
     <1>14, <1>15, <1>16, <1>17, <1>18, <1>19, <1>20, <1>21, <1>22, <1>23
  DEF Next, RunStep, Request, CallStep

LEMMA CountedKept == Inv /\ [Next]_vars => Counted'
<1> SUFFICES ASSUME Inv, [Next]_vars PROVE Counted'
  OBVIOUS
<1> USE ClaimServiceAssumption DEF Inv, GoTo, Counted, rows, runs, args, counters,
        rowHistory, claimHistory, reopenHistory, history, Statements, RunCalls,
        SubmitStatements, StatusStatements
<1>1. ASSUME NEW k \in Callers, NEW c \in Claims, Submit(k, c) PROVE Counted'
  BY <1>1 DEF Submit, Begin, First, CallsTyped, RunsTyped
<1>2. ASSUME NEW k \in Callers, NEW c \in Claims, NEW m \in DeskMethods[c],
              DeskCall(k, m, c) PROVE Counted'
  BY <1>2 DEF DeskCall, Begin, First, CallsTyped, RunsTyped
<1>3. ASSUME NEW k \in Callers, CheckDuplicate(k) PROVE Counted'
  BY <1>3 DEF CheckDuplicate, Ends, CallsTyped, RunsTyped
<1>4. ASSUME NEW k \in Callers, Insert(k) PROVE Counted'
  BY <1>4 DEF Insert, CallsTyped, RunsTyped
<1>5. ASSUME NEW k \in Callers, StartWorkflow(k) PROVE Counted'
  BY <1>5 DEF StartWorkflow, Ends, CallsTyped, RunsTyped
<1>6. ASSUME NEW k \in Callers, FindOrFail(k) PROVE Counted'
  BY <1>6 DEF FindOrFail, AfterUpdate, Return, Ends, CallsTyped, RunsTyped
<1>7. ASSUME NEW k \in Callers, Update(k) PROVE Counted'
  BY <1>7 DEF Update, CallsTyped, RunsTyped
<1>8. ASSUME NEW k \in Callers, SaveHistory(k) PROVE Counted'
  BY <1>8 DEF SaveHistory, AfterUpdate, Return, Ends, CallsTyped, RunsTyped
<1>9. ASSUME NEW k \in Callers, FindDuplicate(k) PROVE Counted'
  BY <1>9 DEF FindDuplicate, CallsTyped, RunsTyped
<1>10. ASSUME NEW k \in Callers, RecordValidation(k) PROVE Counted'
  BY <1>10 DEF RecordValidation, Return, Ends, CallsTyped, RunsTyped
<1>11. ASSUME NEW k \in Callers, Signal(k) PROVE Counted'
  BY <1>11 DEF Signal, Ends, CallsTyped, RunsTyped
<1>12. ASSUME NEW k \in Callers, SignalFails(k) PROVE Counted'
  BY <1>12 DEF SignalFails, CallsTyped, RunsTyped
<1>13. ASSUME NEW k \in Callers, CreatePayoutRequest(k) PROVE Counted'
  BY <1>13 DEF CreatePayoutRequest, Return, Ends, CallsTyped, RunsTyped
<1>14. ASSUME NEW k \in Callers, FallbackRequestFails(k) PROVE Counted'
  BY <1>14 DEF FallbackRequestFails, Return, Ends, CallsTyped, RunsTyped
<1>15. ASSUME NEW k \in Callers, ReadCount(k) PROVE Counted'
  BY <1>15 DEF ReadCount, CallsTyped, Placed, RunsTyped
<1>16. ASSUME NEW k \in Callers, UpdateReopened(k) PROVE Counted'
  <2>1. /\ Ended(k) /\ claim[k] \in Claims /\ UNCHANGED reopenRace
        /\ reopenCount' = [reopenCount EXCEPT ![claim[k]] = seenCount[k] + 1]
        /\ reopens' = [reopens EXCEPT ![claim[k]] = reopens[claim[k]] + 1]
    BY <1>16, CallReturns DEF UpdateReopened, Placed, Returned
  <2>2. /\ seenCount[k] \in Nat /\ reopens[claim[k]] \in Nat /\ reopenCount[claim[k]] \in Nat
        /\ seenCount[k] < MAX_REOPEN_COUNT /\ seenCount[k] <= reopens[claim[k]]
    BY <1>16, <2>1 DEF UpdateReopened, CallsTyped, RowsTyped, HistoryTyped
  <2>3. /\ \A c \in Claims \ {claim[k]} :
               reopenCount'[c] = reopenCount[c] /\ reopens'[c] = reopens[c]
        /\ reopenCount'[claim[k]] = seenCount[k] + 1
        /\ reopens'[claim[k]] = reopens[claim[k]] + 1
    BY <2>1 DEF RowsTyped, HistoryTyped
  <2>4. \A c \in Claims :
            /\ reopenCount'[c] <= MAX_REOPEN_COUNT /\ reopenCount'[c] <= reopens'[c]
            /\ c \notin reopenRace' => reopenCount'[c] = reopens'[c]
    BY <1>16, <2>1, <2>2, <2>3 DEF UpdateReopened, MAX_REOPEN_COUNT
  <2>5. ASSUME NEW j \in Callers, pc'[j] = "updateReopened"
        PROVE  /\ seenCount'[j] < MAX_REOPEN_COUNT /\ seenCount'[j] <= reopens'[claim'[j]]
               /\ claim'[j] \notin reopenRace' =>
                      /\ seenCount'[j] = reopenCount'[claim'[j]]
                      /\ \A i \in Callers :
                             pc'[i] = "updateReopened" /\ claim'[i] = claim'[j] => i = j
    <3>1. /\ j # k /\ pc[j] = "updateReopened" /\ claim[j] \in Claims /\ claim'[j] = claim[j]
          /\ seenCount'[j] = seenCount[j] /\ seenCount[j] \in Nat
      BY <2>1, <2>5 DEF Ended, Placed, CallsTyped
    <3>2. seenCount[j] <= reopens'[claim[j]]
      BY <2>2, <2>3, <3>1 DEF HistoryTyped
    <3>3. claim[j] \notin reopenRace => claim[j] # claim[k]
      BY <1>16, <3>1 DEF UpdateReopened
    <3> QED
      BY <2>1, <2>3, <3>1, <3>2, <3>3 DEF Ended
  <2> QED
    BY <2>4, <2>5
<1>17. ASSUME NEW k \in Callers, CallFails(k) PROVE Counted'
  BY <1>17 DEF CallFails, Strikes, Ends, CallsTyped, RunsTyped
<1>18. ASSUME NEW k \in Callers, NEW c \in Claims, AttemptStarts(k, c) PROVE Counted'
  BY <1>18 DEF AttemptStarts, Begin, First, CallsTyped, RunsTyped
<1>19. ASSUME NEW c \in Claims, AttemptTimesOut(c) PROVE Counted'
  BY <1>19 DEF AttemptTimesOut, Strikes, CallsTyped, RunsTyped
<1>20. ASSUME NEW c \in Claims, RetriesExhausted(c) PROVE Counted'
  BY <1>20 DEF RetriesExhausted, Does, Writes, CallsTyped, RunsTyped
<1>21. ASSUME NEW c \in Claims, AssessmentAwaited(c) PROVE Counted'
  BY <1>21 DEF AssessmentAwaited, Does, Writes, CallsTyped, RunsTyped
<1>22. ASSUME NEW c \in Claims, RunTimesOut(c) PROVE Counted'
  BY <1>22 DEF RunTimesOut, Strikes, Does, CallsTyped, RunsTyped
<1>23. CASE UNCHANGED vars
  BY <1>23 DEF vars
<1> QED
  BY <1>1, <1>2, <1>3, <1>4, <1>5, <1>6, <1>7, <1>8, <1>9, <1>10, <1>11, <1>12, <1>13,
     <1>14, <1>15, <1>16, <1>17, <1>18, <1>19, <1>20, <1>21, <1>22, <1>23
  DEF Next, RunStep, Request, CallStep

LEMMA RequestedKept == Inv /\ [Next]_vars => Requested'
<1> SUFFICES ASSUME Inv, [Next]_vars PROVE Requested'
  OBVIOUS
<1> USE ClaimServiceAssumption DEF Inv, GoTo, Requested, rows, runs, args, counters,
        rowHistory, claimHistory, reopenHistory, history, Statements, RunCalls,
        SubmitStatements, StatusStatements
<1>1. ASSUME NEW k \in Callers, NEW c \in Claims, Submit(k, c) PROVE Requested'
  BY <1>1 DEF Submit, Begin, First, CallsTyped, RunsTyped
<1>2. ASSUME NEW k \in Callers, NEW c \in Claims, NEW m \in DeskMethods[c],
              DeskCall(k, m, c) PROVE Requested'
  BY <1>2 DEF DeskCall, Begin, First, CallsTyped, RunsTyped
<1>3. ASSUME NEW k \in Callers, CheckDuplicate(k) PROVE Requested'
  BY <1>3 DEF CheckDuplicate, Ends, CallsTyped, RunsTyped
<1>4. ASSUME NEW k \in Callers, Insert(k) PROVE Requested'
  BY <1>4 DEF Insert, CallsTyped, RunsTyped
<1>5. ASSUME NEW k \in Callers, StartWorkflow(k) PROVE Requested'
  BY <1>5 DEF StartWorkflow, Ends, CallsTyped, RunsTyped
<1>6. ASSUME NEW k \in Callers, FindOrFail(k) PROVE Requested'
  BY <1>6, RunMoves DEF FindOrFail, AfterUpdate, Return, Ends, CallsTyped, Placed, RunsTyped,
      RunInStep, Moved
<1>7. ASSUME NEW k \in Callers, Update(k) PROVE Requested'
  BY <1>7 DEF Update, CallsTyped, RunsTyped
<1>8. ASSUME NEW k \in Callers, SaveHistory(k) PROVE Requested'
  <2>1. UNCHANGED <<requests, disrupted>> /\ claim[k] \in Claims /\ method[k] # "requestPayout"
    BY <1>8 DEF SaveHistory, Placed
  <2>2. CASE method[k] = "assess"
    <3>1. /\ UNCHANGED <<run, attempt, financed, method, claim>>
          /\ pc' = [pc EXCEPT ![k] = "createPayoutRequest"]
      BY <1>8, <2>2 DEF SaveHistory, AfterUpdate
    <3> QED
      BY <1>8, <2>1, <2>2, <3>1 DEF SaveHistory, CallsTyped
  <2>3. CASE method[k] # "assess"
    <3>1. Returned(k)
      BY <1>8, <2>3, CallReturns DEF SaveHistory, AfterUpdate
    <3>2. ASSUME NEW j \in Callers, method'[j] # "none"
          PROVE  j # k /\ method'[j] = method[j] /\ claim'[j] = claim[j] /\ pc'[j] = pc[j]
      BY <3>1, <3>2 DEF Returned, Ended
    <3>3. CASE UNCHANGED <<run, attempt, financed>>
      BY <2>1, <3>2, <3>3
    <3>4. CASE attempt[claim[k]] = k /\ Moved(claim[k])
      <4>1. /\ \A c \in Claims \ {claim[k]} : run'[c] = run[c] /\ attempt'[c] = attempt[c]
            /\ \A c \in Claims \ {claim[k]} : c \in financed' <=> c \in financed
            /\ financed \subseteq financed'
        BY <2>1, <3>1, <3>4 DEF Returned, Moved, RunsTyped
      <4>2. /\ run'[claim[k]] = "requestPayout" => claim[k] \notin financed
            /\ claim[k] \in financed' => claim[k] \in financed \/ run'[claim[k]] = "requestPayout"
        BY <2>1, <3>4, ClaimServiceAssumption DEF Moved, RunInStep
      <4>3. ASSUME claim[k] \notin financed, claim[k] \notin disrupted
            PROVE  /\ requests[claim[k]] = 0
                   /\ \A j \in Callers : claim[j] = claim[k] => method[j] # "requestPayout"
        BY <2>1, <4>3
      <4> QED
        BY <2>1, <3>2, <4>1, <4>2, <4>3
    <3> QED
      BY <3>1, <3>3, <3>4 DEF Returned
  <2> QED
    BY <2>2, <2>3
<1>9. ASSUME NEW k \in Callers, FindDuplicate(k) PROVE Requested'
  BY <1>9 DEF FindDuplicate, CallsTyped, RunsTyped
<1>10. ASSUME NEW k \in Callers, RecordValidation(k) PROVE Requested'
  BY <1>10, RunMoves DEF RecordValidation, Return, Ends, CallsTyped, Placed, RunsTyped,
      RunInStep, Moved
<1>11. ASSUME NEW k \in Callers, Signal(k) PROVE Requested'
  <2>1. Returned(k) /\ pc[k] = "signal" /\ UNCHANGED <<requests, disrupted>>
    BY <1>11, CallReturns DEF Signal
  <2>2. method[k] \notin {"requestPayout", "update"} /\ claim[k] \in Claims
    BY <2>1 DEF Placed
  <2>3. ASSUME NEW j \in Callers, method'[j] # "none"
        PROVE  j # k /\ method'[j] = method[j] /\ claim'[j] = claim[j] /\ pc'[j] = pc[j]
    BY <2>1, <2>3 DEF Returned, Ended
  <2>4. CASE UNCHANGED <<run, attempt, financed>>
    BY <2>1, <2>2, <2>3, <2>4
  <2>5. CASE attempt[claim[k]] = k /\ Moved(claim[k])
    <3>1. run'[claim[k]] # "requestPayout" /\ UNCHANGED financed
      <4>1. run[claim[k]] # "update"
        BY <2>2, <2>5, ClaimServiceAssumption DEF RunInStep
      <4> QED
        BY <2>2, <2>5, <4>1 DEF Moved
    <3>2. \A c \in Claims \ {claim[k]} : run'[c] = run[c] /\ attempt'[c] = attempt[c]
      BY <2>1, <2>2, <2>5 DEF Returned, Moved, RunsTyped
    <3> QED
      BY <2>1, <2>2, <2>3, <3>1, <3>2
  <2> QED
    BY <2>1, <2>4, <2>5 DEF Returned
<1>12. ASSUME NEW k \in Callers, SignalFails(k) PROVE Requested'
  BY <1>12 DEF SignalFails, CallsTyped, RunsTyped
<1>13. ASSUME NEW k \in Callers, CreatePayoutRequest(k) PROVE Requested'
  BY <1>13, RunMoves DEF CreatePayoutRequest, Return, Ends, CallsTyped, Placed, RunsTyped,
      RunInStep, Moved
<1>14. ASSUME NEW k \in Callers, FallbackRequestFails(k) PROVE Requested'
  BY <1>14, RunMoves DEF FallbackRequestFails, Return, Ends, CallsTyped, Placed, RunsTyped,
      RunInStep, Moved
<1>15. ASSUME NEW k \in Callers, ReadCount(k) PROVE Requested'
  BY <1>15 DEF ReadCount, CallsTyped, RunsTyped
<1>16. ASSUME NEW k \in Callers, UpdateReopened(k) PROVE Requested'
  BY <1>16, RunMoves DEF UpdateReopened, Return, Ends, CallsTyped, Placed, RunsTyped,
      RunInStep, Moved
<1>17. ASSUME NEW k \in Callers, CallFails(k) PROVE Requested'
  BY <1>17 DEF CallFails, Strikes, Ends, CallsTyped, RunsTyped
<1>18. ASSUME NEW k \in Callers, NEW c \in Claims, AttemptStarts(k, c) PROVE Requested'
  BY <1>18 DEF AttemptStarts, Begin, First, CallsTyped, Placed, RunsTyped, RunInStep, Moved
<1>19. ASSUME NEW c \in Claims, AttemptTimesOut(c) PROVE Requested'
  BY <1>19 DEF AttemptTimesOut, Strikes, CallsTyped, RunsTyped
<1>20. ASSUME NEW c \in Claims, RetriesExhausted(c) PROVE Requested'
  BY <1>20 DEF RetriesExhausted, Does, Writes, CallsTyped, RunsTyped
<1>21. ASSUME NEW c \in Claims, AssessmentAwaited(c) PROVE Requested'
  BY <1>21 DEF AssessmentAwaited, Does, Writes, CallsTyped, RunsTyped
<1>22. ASSUME NEW c \in Claims, RunTimesOut(c) PROVE Requested'
  BY <1>22 DEF RunTimesOut, Strikes, Does, CallsTyped, RunsTyped
<1>23. CASE UNCHANGED vars
  BY <1>23 DEF vars
<1> QED
  BY <1>1, <1>2, <1>3, <1>4, <1>5, <1>6, <1>7, <1>8, <1>9, <1>10, <1>11, <1>12, <1>13,
     <1>14, <1>15, <1>16, <1>17, <1>18, <1>19, <1>20, <1>21, <1>22, <1>23
  DEF Next, RunStep, Request, CallStep

\* The steps that leave alone what the duplicate checks read and remember
LEMMA OtherStepsKeepRows ==
    ASSUME [Next]_vars
    PROVE  \/ \E k \in Callers :
                  \/ Insert(k) \/ Update(k) \/ UpdateReopened(k) \/ FindDuplicate(k)
                  \/ CheckDuplicate(k)
           \/ UNCHANGED <<status, clean, wasOver, raced>>
<1> USE DEF rows, history, rowHistory, claimHistory
<1>1. ASSUME NEW c \in Claims, RunStep(c) PROVE UNCHANGED <<status, clean, wasOver, raced>>
  BY <1>1 DEF RunStep, AttemptStarts, AttemptTimesOut, RetriesExhausted, AssessmentAwaited,
      RunTimesOut
<1>2. ASSUME NEW k \in Callers, Request(k) PROVE UNCHANGED <<status, clean, wasOver, raced>>
  BY <1>2 DEF Request, Submit, DeskCall
<1>3. ASSUME NEW k \in Callers,
             \/ StartWorkflow(k) \/ FindOrFail(k) \/ SaveHistory(k) \/ RecordValidation(k)
             \/ Signal(k) \/ SignalFails(k) \/ CreatePayoutRequest(k)
             \/ FallbackRequestFails(k) \/ ReadCount(k) \/ CallFails(k)
      PROVE  UNCHANGED <<status, clean, wasOver, raced>>
  BY <1>3 DEF StartWorkflow, FindOrFail, SaveHistory, RecordValidation, Signal, SignalFails,
      CreatePayoutRequest, FallbackRequestFails, ReadCount, CallFails
<1>4. CASE UNCHANGED vars
  BY <1>4 DEF vars
<1> QED
  BY <1>1, <1>2, <1>3, <1>4 DEF Next, CallStep

LEMMA CheckedKept == Inv /\ [Next]_vars => Checked'
<1> SUFFICES ASSUME Inv, [Next]_vars PROVE Checked'
  OBVIOUS
<1> USE DEF Inv, Checked, LossesKeptApart
<1>1. ASSUME NEW k \in Callers, Insert(k) PROVE Checked'
  <2>1. /\ claim[k] \in Claims /\ status[claim[k]] = NoRow
        /\ status' = [status EXCEPT ![claim[k]] = "SUBMITTED"] /\ UNCHANGED <<clean, wasOver>>
    BY <1>1 DEF Insert, Placed, Created, history, claimHistory, rowHistory
  <2> QED
    BY <2>1 DEF RowsTyped, HistoryTyped, NoRow, Over
<1>2. ASSUME NEW k \in Callers, Update(k) PROVE Checked'
  <2>1. /\ claim[k] \in Claims /\ goal[k] # NoRow
        /\ status' = [status EXCEPT ![claim[k]] = goal[k]] /\ UNCHANGED clean
        /\ wasOver' = IF goal[k] \in Over THEN wasOver \cup {claim[k]} ELSE wasOver
    BY <1>2, StatusNames, ColumnTyped DEF Update, Placed, claimHistory, RowsTyped
  <2> QED
    BY <2>1 DEF RowsTyped, HistoryTyped
<1>3. ASSUME NEW k \in Callers, FindDuplicate(k) PROVE Checked'
  <2>1. claim[k] \in Claims /\ status[claim[k]] # NoRow /\ UNCHANGED <<status, wasOver>>
    BY <1>3 DEF FindDuplicate, Placed, Created, rows, rowHistory
  <2>2. CASE Duplicates(claim[k]) # {}
    BY <1>3, <2>1, <2>2 DEF FindDuplicate, CallsTyped
  <2>3. CASE Duplicates(claim[k]) = {}
    <3>1. clean' = clean \cup {claim[k]}
      BY <1>3, <2>3 DEF FindDuplicate, CallsTyped
    <3>2. ASSUME NEW d \in clean, d # claim[k], Near(claim[k], d) \/ Near(d, claim[k])
          PROVE  d \in wasOver
      BY <2>1, <2>3, <3>2, NearSymmetric DEF Duplicates, HistoryTyped
    <3> QED
      BY <2>1, <3>1, <3>2 DEF HistoryTyped
  <2> QED
    BY <2>2, <2>3
<1>4. ASSUME NEW k \in Callers, UpdateReopened(k) PROVE Checked'
  <2>1. /\ claim[k] \in Claims /\ UNCHANGED <<clean, wasOver>>
        /\ status' = [status EXCEPT ![claim[k]] = "REOPENED"]
    BY <1>4 DEF UpdateReopened, Placed, rowHistory
  <2> QED
    BY <2>1 DEF RowsTyped, HistoryTyped, NoRow, Over
<1>5. ASSUME NEW k \in Callers, CheckDuplicate(k) PROVE UNCHANGED <<status, clean, wasOver>>
  BY <1>5 DEF CheckDuplicate, rows, rowHistory
<1>6. CASE UNCHANGED <<status, clean, wasOver>>
  BY <1>6
<1> QED
  BY <1>1, <1>2, <1>3, <1>4, <1>5, <1>6, OtherStepsKeepRows

\* No other call comes to insert, or inserts.
LEMMA OthersDoNotInsert ==
    ASSUME Inv, [Next]_vars, \A k \in Callers : ~CheckDuplicate(k)
    PROVE  \A j \in Callers : pc'[j] = "insert" => pc[j] = "insert" /\ claim'[j] = claim[j]
<1> USE DEF Inv, GoTo, args, history
<1>1. ASSUME NEW k \in Callers, NEW c \in Claims,
             Submit(k, c) \/ AttemptStarts(k, c) \/ \E m \in DeskMethods[c] : DeskCall(k, m, c)
      PROVE  \A j \in Callers : pc'[j] = "insert" => pc[j] = "insert" /\ claim'[j] = claim[j]
  <2>1. \E m \in DOMAIN First : Begin(k, m, c, "SUBMITTED") \/ Begin(k, m, c, target[c])
    BY <1>1, ClaimServiceAssumption DEF Submit, AttemptStarts, DeskCall, First, RunCalls
  <2>2. \A m \in DOMAIN First : First[m] # "insert"
    BY DEF First
  <2> QED
    BY <2>1, <2>2 DEF Begin, CallsTyped
<1>2. ASSUME NEW k \in Callers,
             \/ Insert(k) \/ Update(k) \/ SignalFails(k) \/ FindDuplicate(k) \/ ReadCount(k)
      PROVE  \A j \in Callers : pc'[j] = "insert" => pc[j] = "insert" /\ claim'[j] = claim[j]
  BY <1>2 DEF CallsTyped, Insert, Update, SignalFails, FindDuplicate, ReadCount
<1>3. ASSUME NEW k \in Callers, Ends(k)
      PROVE  \A j \in Callers : pc'[j] = "insert" => pc[j] = "insert" /\ claim'[j] = claim[j]
  BY <1>3, CallEnds DEF Ended
<1>4. ASSUME NEW k \in Callers, FindOrFail(k) \/ SaveHistory(k)
      PROVE  \A j \in Callers : pc'[j] = "insert" => pc[j] = "insert" /\ claim'[j] = claim[j]
  <2>1. CASE Ends(k)
    BY <1>3, <2>1
  <2>2. CASE ~Ends(k)
    BY <1>4, <2>2 DEF CallsTyped, FindOrFail, SaveHistory, AfterUpdate, Return
  <2> QED
    BY <2>1, <2>2
<1>5. CASE UNCHANGED <<pc, args>>
  BY <1>5
<1>6. ASSUME NEW k \in Callers,
             \/ StartWorkflow(k) \/ RecordValidation(k) \/ Signal(k) \/ CreatePayoutRequest(k)
             \/ FallbackRequestFails(k) \/ UpdateReopened(k) \/ CallFails(k)
      PROVE  Ends(k)
  BY <1>6 DEF StartWorkflow, RecordValidation, Signal, CreatePayoutRequest,
      FallbackRequestFails, UpdateReopened, CallFails, Return
<1>7. ASSUME NEW c \in Claims,
             \/ AttemptTimesOut(c) \/ RetriesExhausted(c) \/ AssessmentAwaited(c)
             \/ RunTimesOut(c)
      PROVE  UNCHANGED <<pc, args>>
  BY <1>7 DEF AttemptTimesOut, RetriesExhausted, AssessmentAwaited, RunTimesOut
<1>8. UNCHANGED vars => UNCHANGED <<pc, args>>
  BY DEF vars
<1> QED
  BY <1>1, <1>2, <1>3, <1>4, <1>5, <1>6, <1>7, <1>8 DEF Next, RunStep, Request, CallStep

LEMMA ApartKept == Inv /\ [Next]_vars => Apart'
<1> SUFFICES ASSUME Inv, [Next]_vars PROVE Apart'
  OBVIOUS
<1> USE DEF Inv, Apart, SubmissionsKeptApart, Raced
<1>1. ASSUME NEW k \in Callers, CheckDuplicate(k) PROVE Apart'
  <2>1. /\ claim[k] \in Claims /\ UNCHANGED <<status, wasOver>>
        /\ \A j \in Callers \ {k} : pc'[j] = pc[j] /\ claim'[j] = claim[j]
        /\ raced \subseteq raced'
        /\ \A j \in Callers \ {k} : pc[j] = "insert" => <<claim[k], claim[j]>> \in raced'
    BY <1>1, CallEnds DEF CheckDuplicate, Placed, rows, rowHistory, GoTo, Ended, CallsTyped, args
  <2>2. CASE Duplicates(claim[k]) # {}
    <3>1. pc'[k] = "idle"
      BY <1>1, <2>2, CallEnds DEF CheckDuplicate, Ended
    <3> QED
      BY <2>1, <3>1
  <2>3. CASE Duplicates(claim[k]) = {}
    <3>1. claim'[k] = claim[k]
      BY <1>1, <2>3 DEF CheckDuplicate, args
    <3>2. ASSUME NEW d \in Claims, d # claim[k], Near(claim[k], d), status[d] # NoRow
          PROVE  d \in wasOver
      BY <2>3, <3>2 DEF Duplicates, Checked
    <3> QED
      BY <2>1, <3>1, <3>2
  <2> QED
    BY <2>2, <2>3
<1>2. CASE \A k \in Callers : ~CheckDuplicate(k)
  <2>0. \A j \in Callers : pc'[j] = "insert" => pc[j] = "insert" /\ claim'[j] = claim[j]
    BY <1>2, OthersDoNotInsert
  <2>1. ASSUME NEW k \in Callers, Insert(k) PROVE Apart'
    <3>1. /\ claim[k] \in Claims /\ status' = [status EXCEPT ![claim[k]] = "SUBMITTED"]
          /\ UNCHANGED <<wasOver, raced>> /\ pc[k] = "insert" /\ pc'[k] # "insert"
      BY <2>1 DEF Insert, Placed, history, rowHistory, claimHistory, GoTo, CallsTyped
    <3>2. ASSUME NEW d \in Claims, d # claim[k], status[d] # NoRow,
                 Near(claim[k], d) \/ Near(d, claim[k])
          PROVE  d \in wasOver \/ Raced(claim[k], d)
      BY <3>1, <3>2, NearSymmetric
    <3> QED
      BY <2>0, <3>1, <3>2 DEF RowsTyped
  <2>2. ASSUME NEW k \in Callers, Update(k) \/ UpdateReopened(k) PROVE Apart'
    <3>1. /\ claim[k] \in Claims /\ status[claim[k]] # NoRow
          /\ \A c \in Claims : status'[c] # NoRow => status[c] # NoRow
          /\ wasOver \subseteq wasOver' /\ raced \subseteq raced'
      BY <2>2 DEF Update, UpdateReopened, Placed, Created, RowsTyped, rowHistory, claimHistory
    <3> QED
      BY <2>0, <3>1
  <2>3. ASSUME NEW k \in Callers, FindDuplicate(k) PROVE UNCHANGED <<status, wasOver, raced>>
    BY <2>3 DEF FindDuplicate, rows, rowHistory
  <2>4. CASE UNCHANGED <<status, wasOver, raced>>
    BY <2>0, <2>4
  <2> QED
    BY <1>2, <2>1, <2>2, <2>3, <2>4, OtherStepsKeepRows
<1> QED
  BY <1>1, <1>2

-----------------------------------------------------------------------------
LEMMA InitInv == Init => Inv
<1> SUFFICES ASSUME Init PROVE Inv
  OBVIOUS
<1> USE ClaimServiceAssumption, StatusNames DEF Init
<1>1. CallsTyped /\ RunsTyped
  BY DEF CallsTyped, RunsTyped, Statements, RunStates, Early
<1>2. RowsTyped /\ HistoryTyped
  BY DEF RowsTyped, HistoryTyped
<1>3. Placed /\ RunInStep /\ Created /\ Recorded
  BY DEF Placed, RunInStep, Created, Recorded, SubmitStatements, StatusStatements
<1>4. Counted
  BY DEF Counted, MAX_REOPEN_COUNT
<1>5. Requested /\ Checked /\ Apart
  BY DEF Requested, Checked, LossesKeptApart, Apart, SubmissionsKeptApart, NoRow, Over
<1> QED
  BY <1>1, <1>2, <1>3, <1>4, <1>5 DEF Inv

LEMMA InvKept == Inv /\ [Next]_vars => Inv'
BY CallsTypedKept, RunsTypedKept, RowsTypedKept, HistoryTypedKept, PlacedKept, RunInStepKept,
   CreatedKept, RecordedKept, CountedKept, RequestedKept, CheckedKept, ApartKept
DEF Inv

THEOREM Invariance == Spec => []Inv
<1> QED
  BY InitInv, InvKept, PTL DEF Spec

\* Every variable keeps its type.
THEOREM TypeCorrect == Spec => []TypeOK
<1>1. Inv => TypeOK
  BY DEF Inv, CallsTyped, RunsTyped, RowsTyped, HistoryTyped, TypeOK, RunStates
<1> QED
  BY <1>1, Invariance, PTL

\* Two near losses both have a row only if one of the claims had been over or their
\* submissions raced, and both pass the checks of their runs only in the first case.
THEOREM DuplicatesCaughtHolds == Spec => []DuplicatesCaught
<1>1. Inv => DuplicatesCaught
  BY DEF Inv, Checked, Apart, DuplicatesCaught
<1> QED
  BY <1>1, Invariance, PTL

\* The history says what the status is, unless updates overlapped or died.
THEOREM HistoryAgreesHolds == Spec => []HistoryAgrees
<1>1. Inv => HistoryAgrees
  BY DEF Inv, Recorded, HistoryAgrees
<1> QED
  BY <1>1, Invariance, PTL

\* A payout is requested once, from the finance review, if nothing disrupted the claim.
THEOREM RequestedOnceHolds == Spec => []RequestedOnce
<1>1. Inv => RequestedOnce
  BY DEF Inv, Requested, RowsTyped, RequestedOnce
<1> QED
  BY <1>1, Invariance, PTL

\* The reopen counter keeps its limit, and counts every reopening that did not race.
THEOREM ReopensCountedHolds == Spec => []ReopensCounted
<1>1. Inv => ReopensCounted
  BY DEF Inv, Counted, ReopensCounted
<1> QED
  BY <1>1, Invariance, PTL
=============================================================================
