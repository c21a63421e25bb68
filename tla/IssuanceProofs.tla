---------------------------- MODULE IssuanceProofs ----------------------------
(* Proofs about Issuance, for any callers, columns and bounds: its type, that a       *)
(* policy is backed by a locked snapshot, what a cancellation prevents, the           *)
(* lifecycle of the policy and the agreement of the histories.                        *)
EXTENDS Issuance, TLAPS

StatusStatements == {"findOrFail", "update", "saveHistory"}
IssueStatements == {"chooseSnapshot", "lockOnIssue", "insertPolicy"}
CheckStatements == {"checkCancellable", "checkLapsed"}
MoveStatements == {"expectFrom", "updatePolicy"}
Priced == {"QUOTED", "SUBMITTED"} \cup InReview \cup Approved

CallsTyped ==
    /\ pc \in [Callers -> Statements] /\ method \in [Callers -> Methods \cup {"none"}]
    /\ goal \in [Callers -> Statuses \cup PolicyStatus \cup {"none"}]
    /\ expectedFrom \in [Callers -> PolicyStatus \cup {"none"}]
    /\ snapshot \in [Callers -> Snapshots \cup {NoSnapshot}]

RunTyped ==
    /\ run \in RunCalls \cup {"none", "review", "ended"}
    /\ target \in QuoteWorkflowStatus
    /\ snapshotId \in Snapshots \cup {NoSnapshot}
    /\ isCancelled \in BOOLEAN /\ attempt \in Callers \cup {Nobody}

RowsTyped ==
    /\ column \in Columns
    /\ quoteStatus \in Statuses \cup {NoRow} /\ temporalWorkflowId \in BOOLEAN
    /\ calculated \in 0..MaxSnapshots /\ locked \subseteq Snapshots
    /\ policyStatus \in PolicyStatus \cup {NoRow}
    /\ policySnapshot \in Snapshots \cup {NoSnapshot}
    /\ events \in Nat
    /\ quoteLatest \in Statuses /\ policyLatest \in PolicyStatus \cup {NoRow}
    /\ muddled \subseteq {"quote", "policy"} /\ overtaken \subseteq Callers
    /\ issuedBy \in {"nobody", "run", "other"}

FlagsTyped ==
    approvalTaken \in BOOLEAN /\ cancelledInTime \in BOOLEAN /\ missed \in BOOLEAN

\* Which method is at which statement, and what it was given there
Placed ==
    \A k \in Callers :
        /\ pc[k] = "idle" => method[k] = "none"
        /\ pc[k] \in {"insert", "checkEligibility", "startWorkflow", "link"} =>
               method[k] = "create"
        /\ method[k] = "create" => goal[k] = "REJECTED"
        /\ pc[k] = "insertSnapshot" => method[k] = "calculate"
        /\ pc[k] = "lockSnapshot" => method[k] = "lock" /\ snapshot[k] # NoSnapshot
        /\ pc[k] \in IssueStatements => method[k] = "issue"
        /\ pc[k] \in {"lockOnIssue", "insertPolicy"} => snapshot[k] # NoSnapshot
        /\ pc[k] = "saveHistory" => goal[k] \in Statuses
        /\ pc[k] = "checkDraft" => method[k] = "submit"
        /\ pc[k] \in {"checkOpen", "signal"} => method[k] = "cancel"
        /\ pc[k] \in StatusStatements =>
               method[k] \in {"create", "submit", "decide", "cancel", "update"}
        /\ pc[k] \in CheckStatements \cup MoveStatements \cup {"savePolicyHistory"} =>
               method[k] \in {"activate", "lapse", "cancelPolicy", "reinstate"}

\* The run, and the attempt it waits for
RunInStep ==
    /\ attempt # Nobody =>
           /\ run \in RunCalls /\ method[attempt] = run
           /\ run = "update" => goal[attempt] = target
           /\ run = "issue" => goal[attempt] = "ISSUED"
    /\ run = "calculate" => target = "PREMIUM_CALCULATION"
    /\ run \in {"lock", "issue"} => target \in Approved
    /\ target \in Priced => snapshotId # NoSnapshot
    /\ run = "review" => target \in InReview

\* The quote is created once, and nothing refers to it before it has its row.
Created ==
    /\ \A j, k \in Callers : method[j] = "create" /\ method[k] = "create" => j = k
    /\ \A k \in Callers :
           /\ pc[k] \in {"insert", "checkEligibility", "startWorkflow"} => run = "none"
           /\ pc[k] = "insert" => quoteStatus = NoRow
    /\ quoteStatus = NoRow =>
           /\ run = "none" /\ quoteLatest = "DRAFT"
           /\ \A k \in Callers : pc[k] \in {"idle", "insert"}

Issued ==
    /\ "ISSUED" \in {target, quoteStatus, quoteLatest} => policyStatus # NoRow
    /\ \A k \in Callers :
           pc[k] \in StatusStatements \cup {"checkDraft", "checkOpen", "signal"}
           /\ goal[k] = "ISSUED" => policyStatus # NoRow

Backed ==
    /\ policyStatus # NoRow => policySnapshot \in locked
    /\ \A k \in Callers : pc[k] = "insertPolicy" => snapshot[k] \in locked

\* A transition of the policy in progress is one its lifecycle allows, from the status it
\* expects, which the policy has unless another has overtaken it.
Moves ==
    \A k \in Callers :
        /\ pc[k] \in CheckStatements \cup MoveStatements \cup {"savePolicyHistory"} =>
               policyStatus # NoRow /\ goal[k] \in PolicyStatus
        /\ pc[k] = "checkCancellable" => goal[k] = "CANCELLED"
        /\ pc[k] = "checkLapsed" => goal[k] = "REINSTATED" /\ expectedFrom[k] = "LAPSED"
        /\ pc[k] \in MoveStatements =>
               \/ expectedFrom[k] = "PENDING_ISSUANCE" /\ goal[k] \in {"IN_FORCE", "CANCELLED"}
               \/ expectedFrom[k] = "IN_FORCE" /\ goal[k] \in {"LAPSED", "CANCELLED"}
               \/ expectedFrom[k] = "LAPSED" /\ goal[k] \in {"REINSTATED", "CANCELLED"}
        /\ pc[k] = "updatePolicy" /\ k \notin overtaken => policyStatus = expectedFrom[k]

QuoteRecorded ==
    "quote" \notin muddled =>
        /\ \A k \in Callers :
               pc[k] = "saveHistory" =>
                   /\ goal[k] = quoteStatus
                   /\ \A j \in Callers : pc[j] = "saveHistory" => j = k
        /\ quoteStatus \in {NoRow, quoteLatest} \/ \E k \in Callers : pc[k] = "saveHistory"

PolicyRecorded ==
    "policy" \notin muddled =>
        /\ \A k \in Callers :
               pc[k] = "savePolicyHistory" =>
                   /\ goal[k] = policyStatus
                   /\ \A j \in Callers : pc[j] = "savePolicyHistory" => j = k
        /\ policyStatus = policyLatest \/ \E k \in Callers : pc[k] = "savePolicyHistory"

\* A run approves before it issues; a cancellation that was acknowledged is in its buffer,
\* or was written past it, or found it over.
Approval ==
    /\ target \in Approved => approvalTaken
    /\ issuedBy = "run" => approvalTaken
    /\ \A k \in Callers : pc[k] \in IssueStatements /\ goal[k] = "ISSUED" => approvalTaken

Cancellation ==
    /\ cancelledInTime => isCancelled \/ missed \/ run = "ended"
    /\ cancelledInTime /\ approvalTaken => missed
    /\ \A k \in Callers :
           pc[k] \in StatusStatements /\ method[k] = "cancel" => missed \/ run = "ended"

Inv ==
    /\ CallsTyped /\ RunTyped /\ RowsTyped /\ FlagsTyped
    /\ Placed /\ RunInStep /\ Created /\ Issued /\ Backed /\ Moves
    /\ QuoteRecorded /\ PolicyRecorded /\ Approval /\ Cancellation

LEMMA StatusNames ==
    /\ QuoteWorkflowStatus \subseteq Statuses
    /\ {"DRAFT", "RISK_PROFILING", "CANCELLED", "REJECTED"} \cup InReview \cup Approved
           \subseteq QuoteWorkflowStatus
    /\ {"SUBMITTED", "APPROVED", "REJECTED", "CANCELLED", "ISSUED"} \subseteq Statuses
BY DEF Statuses, QuoteStatus, QuoteWorkflowStatus, InReview, Approved

LEMMA ColumnTyped == column \in Columns => column \subseteq Statuses
BY IssuanceAssumption DEF Statuses

LEMMA NoRowIsNoStatus == column \in Columns => NoRow \notin column
BY IssuanceAssumption DEF NoRow, QuoteStatus, QuoteWorkflowStatus

\* Where the early statuses of a run lead
LEMMA EarlyStatuses ==
    /\ Lifecycle["RISK_PROFILING"] \subseteq {"CANCELLED", "RULE_EVALUATION", "REJECTED"}
    /\ Lifecycle["RULE_EVALUATION"] \subseteq {"CANCELLED", "PREMIUM_CALCULATION", "REJECTED"}
    /\ Lifecycle["QUOTED"] \subseteq {"CANCELLED", "SUBMITTED"}
    /\ Lifecycle["SUBMITTED"] \subseteq {"CANCELLED"} \cup InReview
BY DEF Lifecycle, QuoteWorkflowStatus, InReview, Approved

\* What a run may have become once its activity has succeeded
Moved ==
    /\ run \in RunCalls /\ run' \in {"update", "calculate", "review", "lock", "issue", "ended"}
    /\ target' \in QuoteWorkflowStatus
    /\ run' = "calculate" => target' = "PREMIUM_CALCULATION"
    /\ run' \in {"lock", "issue"} => target' \in Approved
    /\ run' = "review" => target' \in InReview
    /\ target' \in Approved => target \in Approved
    /\ target' = "ISSUED" => target = "ISSUED" \/ run = "issue"
    /\ target' \in Priced => target \in Priced \/ run = "calculate"

LEMMA RunMoves == RunTyped /\ RunInStep /\ Succeeds => Moved
<1> SUFFICES ASSUME RunTyped, RunInStep, Succeeds PROVE Moved
  OBVIOUS
<1> USE DEF RunCalls, Moved, Priced, InReview, Approved, QuoteWorkflowStatus, Writes, Does
<1>1. CASE run = "update" /\ StatusWritten
  <2>1. CASE /\ target \in {"RISK_PROFILING", "RULE_EVALUATION", "QUOTED", "SUBMITTED"}
             /\ \E s \in (Lifecycle[target] \cap Written) \ {"CANCELLED"} : Writes(s)
    <3>1. PICK s \in Lifecycle[target] \ {"CANCELLED"} : Writes(s)
      BY <2>1
    <3>2. s \in {"RULE_EVALUATION", "REJECTED", "PREMIUM_CALCULATION", "SUBMITTED"} \cup InReview
          /\ (s \in InReview => target = "SUBMITTED") /\ (s = "SUBMITTED" => target = "QUOTED")
      BY <2>1, <3>1, EarlyStatuses
    <3> QED
      BY <1>1, <3>1, <3>2
  <2> QED
    BY <1>1, <2>1 DEF StatusWritten
<1>2. CASE run # "update"
  BY <1>2 DEF Succeeds, RunTyped, RunInStep
<1> QED
  BY <1>1, <1>2 DEF Succeeds

-----------------------------------------------------------------------------
LEMMA CallsTypedKept == Inv /\ [Next]_vars => CallsTyped'
<1> SUFFICES ASSUME Inv, [Next]_vars PROVE CallsTyped'
  OBVIOUS
<1> USE IssuanceAssumption DEF Inv, GoTo, CallsTyped, quoteRow, snapshotRows, policyRow, theRun,
    args, quoteHistory, policyHistory,
        Statements, Methods, RunCalls, StatusStatements, IssueStatements, CheckStatements,
        MoveStatements,
        Approved, InReview, NoSnapshot, Snapshots, Foreign, NoRow, PolicyStatus
<1>1. ASSUME NEW k \in Callers, AttemptStarts(k) PROVE CallsTyped'
  BY <1>1, StatusNames DEF AttemptStarts, Begin, First, Expected, RunTyped
<1>2. ASSUME NEW k \in Callers, Create(k) PROVE CallsTyped'
  BY <1>2, StatusNames DEF Create, Begin, First, Expected
<1>3. ASSUME NEW k \in Callers, NEW m \in DeskMethods, DeskCall(k, m) PROVE CallsTyped'
  BY <1>3, StatusNames DEF DeskCall, Happens, Begin, First, Goals, Expected, RowsTyped
<1>4. ASSUME NEW k \in Callers, Insert(k) PROVE CallsTyped'
  BY <1>4 DEF Insert
<1>5. ASSUME NEW k \in Callers, CheckEligibility(k) PROVE CallsTyped'
  BY <1>5 DEF CheckEligibility
<1>6. ASSUME NEW k \in Callers, StartWorkflow(k) PROVE CallsTyped'
  BY <1>6 DEF StartWorkflow, Ends, Writes
<1>7. ASSUME NEW k \in Callers, Link(k) PROVE CallsTyped'
  BY <1>7 DEF Link, Ends
<1>8. ASSUME NEW k \in Callers, CheckDraft(k) PROVE CallsTyped'
  BY <1>8 DEF CheckDraft, Ends
<1>9. ASSUME NEW k \in Callers, CheckOpen(k) PROVE CallsTyped'
  BY <1>9 DEF CheckOpen, Ends, Misses
<1>10. ASSUME NEW k \in Callers, Signal(k) PROVE CallsTyped'
  BY <1>10 DEF Signal, Ends, Live, Acknowledges
<1>11. ASSUME NEW k \in Callers, SignalFails(k) PROVE CallsTyped'
  BY <1>11 DEF SignalFails, Misses
<1>12. ASSUME NEW k \in Callers, FindOrFail(k) PROVE CallsTyped'
  BY <1>12 DEF FindOrFail, Updated, Return, Ends, Acknowledges
<1>13. ASSUME NEW k \in Callers, Update(k) PROVE CallsTyped'
  BY <1>13 DEF Update, Muddles
<1>14. ASSUME NEW k \in Callers, UpdateRefused(k) PROVE CallsTyped'
  BY <1>14 DEF UpdateRefused, Throws, Ends
<1>15. ASSUME NEW k \in Callers, SaveHistory(k) PROVE CallsTyped'
  BY <1>15 DEF SaveHistory, Updated, Return, Ends, Acknowledges
<1>16. ASSUME NEW k \in Callers, InsertSnapshot(k) PROVE CallsTyped'
  BY <1>16 DEF InsertSnapshot, Return, Ends
<1>17. ASSUME NEW k \in Callers, LockSnapshot(k) PROVE CallsTyped'
  BY <1>17 DEF LockSnapshot, Return, Ends
<1>18. ASSUME NEW k \in Callers, ChooseSnapshot(k) PROVE CallsTyped'
  BY <1>18 DEF ChooseSnapshot, Throws, Ends, Placed, RowsTyped, Created, RunInStep
<1>19. ASSUME NEW k \in Callers, LockOnIssue(k) PROVE CallsTyped'
  BY <1>19 DEF LockOnIssue
<1>20. ASSUME NEW k \in Callers, InsertPolicy(k) PROVE CallsTyped'
  BY <1>20 DEF InsertPolicy, Return, Ends
<1>21. ASSUME NEW k \in Callers, InsertPolicyRefused(k) PROVE CallsTyped'
  BY <1>21 DEF InsertPolicyRefused, Throws, Ends
<1>22. ASSUME NEW k \in Callers, CheckCancellable(k) PROVE CallsTyped'
  BY <1>22 DEF CheckCancellable, Ends
<1>23. ASSUME NEW k \in Callers, CheckLapsed(k) PROVE CallsTyped'
  BY <1>23 DEF CheckLapsed, Ends
<1>24. ASSUME NEW k \in Callers, ExpectFrom(k) PROVE CallsTyped'
  BY <1>24 DEF ExpectFrom, Ends
<1>25. ASSUME NEW k \in Callers, UpdatePolicy(k) PROVE CallsTyped'
  BY <1>25 DEF UpdatePolicy, Muddles
<1>26. ASSUME NEW k \in Callers, SavePolicyHistory(k) PROVE CallsTyped'
  BY <1>26 DEF SavePolicyHistory, Ends
<1>27. ASSUME NEW k \in Callers, CallFails(k) PROVE CallsTyped'
  BY <1>27 DEF CallFails, Throws, Ends, Happens
<1>28. ASSUME AttemptTimesOut PROVE CallsTyped'
  BY <1>28 DEF AttemptTimesOut, Happens
<1>29. ASSUME RetriesExhausted PROVE CallsTyped'
  BY <1>29 DEF RetriesExhausted, Writes, Does
<1>30. ASSUME ReviewEnds PROVE CallsTyped'
  BY <1>30 DEF ReviewEnds, Writes, Does
<1>31. ASSUME RunTimesOut PROVE CallsTyped'
  BY <1>31 DEF RunTimesOut, Live, Does, Happens
<1>32. CASE UNCHANGED vars
  BY <1>32 DEF vars
<1> QED
  BY <1>1, <1>2, <1>3, <1>4, <1>5, <1>6, <1>7, <1>8, <1>9, <1>10, <1>11, <1>12, <1>13, <1>14,
      <1>15, <1>16,
     <1>17, <1>18, <1>19, <1>20, <1>21, <1>22, <1>23, <1>24, <1>25, <1>26, <1>27, <1>28, <1>29, <1>30, <1>31, <1>32
  DEF Next, RunStep, QuoteCall, PolicyCall

LEMMA RunTypedKept == Inv /\ [Next]_vars => RunTyped'
<1> SUFFICES ASSUME Inv, [Next]_vars PROVE RunTyped'
  OBVIOUS
<1> USE IssuanceAssumption DEF Inv, GoTo, RunTyped, quoteRow, snapshotRows, policyRow, theRun,
    args, quoteHistory, policyHistory,
        Statements, Methods, RunCalls, StatusStatements, IssueStatements, CheckStatements,
        MoveStatements,
        Approved, InReview, NoSnapshot, Snapshots, Foreign, NoRow, PolicyStatus
<1>1. ASSUME NEW k \in Callers, AttemptStarts(k) PROVE RunTyped'
  BY <1>1 DEF AttemptStarts, Begin, First, Expected
<1>2. ASSUME NEW k \in Callers, Create(k) PROVE RunTyped'
  BY <1>2 DEF Create, Begin, First, Expected
<1>3. ASSUME NEW k \in Callers, NEW m \in DeskMethods, DeskCall(k, m) PROVE RunTyped'
  BY <1>3 DEF DeskCall, Begin, First, Expected, Happens, Goals
<1>4. ASSUME NEW k \in Callers, Insert(k) PROVE RunTyped'
  BY <1>4 DEF Insert
<1>5. ASSUME NEW k \in Callers, CheckEligibility(k) PROVE RunTyped'
  BY <1>5 DEF CheckEligibility
<1>6. ASSUME NEW k \in Callers, StartWorkflow(k) PROVE RunTyped'
  BY <1>6, StatusNames DEF StartWorkflow, Writes
<1>7. ASSUME NEW k \in Callers, Link(k) PROVE RunTyped'
  BY <1>7 DEF Link, Ends
<1>8. ASSUME NEW k \in Callers, CheckDraft(k) PROVE RunTyped'
  BY <1>8 DEF CheckDraft, Ends
<1>9. ASSUME NEW k \in Callers, CheckOpen(k) PROVE RunTyped'
  BY <1>9 DEF CheckOpen, Ends, Misses
<1>10. ASSUME NEW k \in Callers, Signal(k) PROVE RunTyped'
  BY <1>10 DEF Signal, Ends, Live, Acknowledges
<1>11. ASSUME NEW k \in Callers, SignalFails(k) PROVE RunTyped'
  BY <1>11 DEF SignalFails, Misses
<1>12. ASSUME NEW k \in Callers, FindOrFail(k) PROVE RunTyped'
  BY <1>12, RunMoves DEF FindOrFail, Updated, Return, Ends, Acknowledges, CallsTyped,
      RunInStep, Moved
<1>13. ASSUME NEW k \in Callers, Update(k) PROVE RunTyped'
  BY <1>13 DEF Update, Muddles
<1>14. ASSUME NEW k \in Callers, UpdateRefused(k) PROVE RunTyped'
  BY <1>14 DEF UpdateRefused, Throws, Ends
<1>15. ASSUME NEW k \in Callers, SaveHistory(k) PROVE RunTyped'
  BY <1>15, RunMoves DEF SaveHistory, Updated, Return, Ends, Acknowledges, CallsTyped,
      RunInStep, Moved
<1>16. ASSUME NEW k \in Callers, InsertSnapshot(k) PROVE RunTyped'
  BY <1>16, RunMoves DEF InsertSnapshot, Return, Ends, CallsTyped, Placed, RowsTyped, Created,
      RunInStep, Moved, Issued, Approval, Backed, Priced
<1>17. ASSUME NEW k \in Callers, LockSnapshot(k) PROVE RunTyped'
  BY <1>17, RunMoves DEF LockSnapshot, Return, Ends, CallsTyped, RunInStep, Moved
<1>18. ASSUME NEW k \in Callers, ChooseSnapshot(k) PROVE RunTyped'
  BY <1>18 DEF ChooseSnapshot, Throws, Ends
<1>19. ASSUME NEW k \in Callers, LockOnIssue(k) PROVE RunTyped'
  BY <1>19 DEF LockOnIssue
<1>20. ASSUME NEW k \in Callers, InsertPolicy(k) PROVE RunTyped'
  BY <1>20, RunMoves DEF InsertPolicy, Return, Ends, CallsTyped, RunInStep, Moved
<1>21. ASSUME NEW k \in Callers, InsertPolicyRefused(k) PROVE RunTyped'
  BY <1>21 DEF InsertPolicyRefused, Throws, Ends
<1>22. ASSUME NEW k \in Callers, CheckCancellable(k) PROVE RunTyped'
  BY <1>22 DEF CheckCancellable, Ends
<1>23. ASSUME NEW k \in Callers, CheckLapsed(k) PROVE RunTyped'
  BY <1>23 DEF CheckLapsed, Ends
<1>24. ASSUME NEW k \in Callers, ExpectFrom(k) PROVE RunTyped'
  BY <1>24 DEF ExpectFrom, Ends
<1>25. ASSUME NEW k \in Callers, UpdatePolicy(k) PROVE RunTyped'
  BY <1>25 DEF UpdatePolicy, Muddles
<1>26. ASSUME NEW k \in Callers, SavePolicyHistory(k) PROVE RunTyped'
  BY <1>26 DEF SavePolicyHistory, Ends
<1>27. ASSUME NEW k \in Callers, CallFails(k) PROVE RunTyped'
  BY <1>27 DEF CallFails, Throws, Ends, Happens
<1>28. ASSUME AttemptTimesOut PROVE RunTyped'
  BY <1>28 DEF AttemptTimesOut, Happens
<1>29. ASSUME RetriesExhausted PROVE RunTyped'
  BY <1>29, StatusNames DEF RetriesExhausted, Writes, Does
<1>30. ASSUME ReviewEnds PROVE RunTyped'
  BY <1>30, StatusNames DEF ReviewEnds, Writes, Does
<1>31. ASSUME RunTimesOut PROVE RunTyped'
  BY <1>31 DEF RunTimesOut, Live, Does, Happens
<1>32. CASE UNCHANGED vars
  BY <1>32 DEF vars
<1> QED
  BY <1>1, <1>2, <1>3, <1>4, <1>5, <1>6, <1>7, <1>8, <1>9, <1>10, <1>11, <1>12, <1>13, <1>14,
      <1>15, <1>16,
     <1>17, <1>18, <1>19, <1>20, <1>21, <1>22, <1>23, <1>24, <1>25, <1>26, <1>27, <1>28, <1>29, <1>30, <1>31, <1>32
  DEF Next, RunStep, QuoteCall, PolicyCall

LEMMA RowsTypedKept == Inv /\ [Next]_vars => RowsTyped'
<1> SUFFICES ASSUME Inv, [Next]_vars PROVE RowsTyped'
  OBVIOUS
<1> USE IssuanceAssumption DEF Inv, GoTo, RowsTyped, quoteRow, snapshotRows, policyRow, theRun,
    args, quoteHistory, policyHistory,
        Statements, Methods, RunCalls, StatusStatements, IssueStatements, CheckStatements,
        MoveStatements,
        Approved, InReview, NoSnapshot, Snapshots, Foreign, NoRow, PolicyStatus
<1>1. ASSUME NEW k \in Callers, AttemptStarts(k) PROVE RowsTyped'
  BY <1>1 DEF AttemptStarts, Begin, First, Expected, CallsTyped
<1>2. ASSUME NEW k \in Callers, Create(k) PROVE RowsTyped'
  BY <1>2 DEF Create, Begin, First, Expected, CallsTyped
<1>3. ASSUME NEW k \in Callers, NEW m \in DeskMethods, DeskCall(k, m) PROVE RowsTyped'
  BY <1>3 DEF DeskCall, Begin, First, Expected, Happens, Goals, CallsTyped
<1>4. ASSUME NEW k \in Callers, Insert(k) PROVE RowsTyped'
  BY <1>4 DEF Insert, CallsTyped, Placed, Created, RunInStep
<1>5. ASSUME NEW k \in Callers, CheckEligibility(k) PROVE RowsTyped'
  BY <1>5 DEF CheckEligibility, CallsTyped
<1>6. ASSUME NEW k \in Callers, StartWorkflow(k) PROVE RowsTyped'
  BY <1>6 DEF StartWorkflow, Ends, Writes, CallsTyped
<1>7. ASSUME NEW k \in Callers, Link(k) PROVE RowsTyped'
  BY <1>7 DEF Link, Ends, CallsTyped
<1>8. ASSUME NEW k \in Callers, CheckDraft(k) PROVE RowsTyped'
  BY <1>8 DEF CheckDraft, Ends, CallsTyped
<1>9. ASSUME NEW k \in Callers, CheckOpen(k) PROVE RowsTyped'
  BY <1>9, RunMoves DEF CheckOpen, Ends, Misses, CallsTyped, Placed, RunTyped, Created,
      RunInStep, Moved, Issued, Approval, Backed, Priced
<1>10. ASSUME NEW k \in Callers, Signal(k) PROVE RowsTyped'
  BY <1>10 DEF Signal, Ends, Live, Acknowledges, CallsTyped
<1>11. ASSUME NEW k \in Callers, SignalFails(k) PROVE RowsTyped'
  BY <1>11 DEF SignalFails, Misses, CallsTyped
<1>12. ASSUME NEW k \in Callers, FindOrFail(k) PROVE RowsTyped'
  BY <1>12, RunMoves DEF FindOrFail, Updated, Return, Ends, Acknowledges, CallsTyped, Placed,
      RunTyped, Created, RunInStep, Moved, Issued, Approval, Backed, Priced
<1>13. ASSUME NEW k \in Callers, Update(k) PROVE RowsTyped'
  BY <1>13, ColumnTyped DEF Update, Muddles
<1>14. ASSUME NEW k \in Callers, UpdateRefused(k) PROVE RowsTyped'
  BY <1>14 DEF UpdateRefused, Throws, Ends, CallsTyped
<1>15. ASSUME NEW k \in Callers, SaveHistory(k) PROVE RowsTyped'
  BY <1>15 DEF SaveHistory, Placed
<1>16. ASSUME NEW k \in Callers, InsertSnapshot(k) PROVE RowsTyped'
  BY <1>16 DEF InsertSnapshot, Return, Ends, CallsTyped
<1>17. ASSUME NEW k \in Callers, LockSnapshot(k) PROVE RowsTyped'
  <2>1. snapshot[k] \in Snapshots
    BY <1>17 DEF LockSnapshot, Placed, CallsTyped
  <2> HIDE DEF Snapshots
  <2> QED
    BY <1>17, <2>1 DEF LockSnapshot
<1>18. ASSUME NEW k \in Callers, ChooseSnapshot(k) PROVE RowsTyped'
  BY <1>18 DEF ChooseSnapshot, Throws, Ends, CallsTyped
<1>19. ASSUME NEW k \in Callers, LockOnIssue(k) PROVE RowsTyped'
  <2>1. snapshot[k] \in Snapshots
    BY <1>19 DEF LockOnIssue, Placed, CallsTyped
  <2> HIDE DEF Snapshots
  <2> QED
    BY <1>19, <2>1 DEF LockOnIssue
<1>20. ASSUME NEW k \in Callers, InsertPolicy(k) PROVE RowsTyped'
  BY <1>20 DEF InsertPolicy, Return, Ends, CallsTyped
<1>21. ASSUME NEW k \in Callers, InsertPolicyRefused(k) PROVE RowsTyped'
  BY <1>21 DEF InsertPolicyRefused, Throws, Ends, CallsTyped
<1>22. ASSUME NEW k \in Callers, CheckCancellable(k) PROVE RowsTyped'
  BY <1>22 DEF CheckCancellable, Ends, CallsTyped
<1>23. ASSUME NEW k \in Callers, CheckLapsed(k) PROVE RowsTyped'
  BY <1>23 DEF CheckLapsed, Ends, CallsTyped
<1>24. ASSUME NEW k \in Callers, ExpectFrom(k) PROVE RowsTyped'
  BY <1>24 DEF ExpectFrom, Ends, CallsTyped
<1>25. ASSUME NEW k \in Callers, UpdatePolicy(k) PROVE RowsTyped'
  BY <1>25 DEF UpdatePolicy, Muddles, Moves
<1>26. ASSUME NEW k \in Callers, SavePolicyHistory(k) PROVE RowsTyped'
  BY <1>26 DEF SavePolicyHistory, Moves
<1>27. ASSUME NEW k \in Callers, CallFails(k) PROVE RowsTyped'
  BY <1>27 DEF CallFails, Throws, Ends, Happens, CallsTyped
<1>28. ASSUME AttemptTimesOut PROVE RowsTyped'
  BY <1>28 DEF AttemptTimesOut, Happens, CallsTyped
<1>29. ASSUME RetriesExhausted PROVE RowsTyped'
  BY <1>29 DEF RetriesExhausted, Writes, Does, CallsTyped
<1>30. ASSUME ReviewEnds PROVE RowsTyped'
  BY <1>30, RunMoves DEF ReviewEnds, Writes, Does, CallsTyped, Placed, RunTyped, Created,
      RunInStep, Moved, Issued, Approval, Backed, Priced
<1>31. ASSUME RunTimesOut PROVE RowsTyped'
  BY <1>31 DEF RunTimesOut, Live, Does, Happens, CallsTyped
<1>32. CASE UNCHANGED vars
  BY <1>32 DEF vars
<1> QED
  BY <1>1, <1>2, <1>3, <1>4, <1>5, <1>6, <1>7, <1>8, <1>9, <1>10, <1>11, <1>12, <1>13, <1>14,
      <1>15, <1>16,
     <1>17, <1>18, <1>19, <1>20, <1>21, <1>22, <1>23, <1>24, <1>25, <1>26, <1>27, <1>28, <1>29, <1>30, <1>31, <1>32
  DEF Next, RunStep, QuoteCall, PolicyCall

LEMMA FlagsTypedKept == Inv /\ [Next]_vars => FlagsTyped'
<1> SUFFICES ASSUME Inv, [Next]_vars PROVE FlagsTyped'
  OBVIOUS
<1> USE IssuanceAssumption DEF Inv, GoTo, FlagsTyped, quoteRow, snapshotRows, policyRow, theRun,
    args, quoteHistory, policyHistory,
        Statements, Methods, RunCalls, StatusStatements, IssueStatements, CheckStatements,
        MoveStatements,
        Approved, InReview, NoSnapshot, Snapshots, Foreign, NoRow, PolicyStatus
<1>1. ASSUME NEW k \in Callers, AttemptStarts(k) PROVE FlagsTyped'
  BY <1>1 DEF AttemptStarts, Begin, First, Expected
<1>2. ASSUME NEW k \in Callers, Create(k) PROVE FlagsTyped'
  BY <1>2 DEF Create, Begin, First, Expected
<1>3. ASSUME NEW k \in Callers, NEW m \in DeskMethods, DeskCall(k, m) PROVE FlagsTyped'
  BY <1>3 DEF DeskCall, Begin, First, Expected, Happens, Goals
<1>4. ASSUME NEW k \in Callers, Insert(k) PROVE FlagsTyped'
  BY <1>4 DEF Insert
<1>5. ASSUME NEW k \in Callers, CheckEligibility(k) PROVE FlagsTyped'
  BY <1>5 DEF CheckEligibility
<1>6. ASSUME NEW k \in Callers, StartWorkflow(k) PROVE FlagsTyped'
  BY <1>6 DEF StartWorkflow, Ends, Writes
<1>7. ASSUME NEW k \in Callers, Link(k) PROVE FlagsTyped'
  BY <1>7 DEF Link, Ends
<1>8. ASSUME NEW k \in Callers, CheckDraft(k) PROVE FlagsTyped'
  BY <1>8 DEF CheckDraft, Ends
<1>9. ASSUME NEW k \in Callers, CheckOpen(k) PROVE FlagsTyped'
  BY <1>9, Zenon DEF CheckOpen, Misses
<1>10. ASSUME NEW k \in Callers, Signal(k) PROVE FlagsTyped'
  BY <1>10, Zenon DEF Signal, Acknowledges
<1>11. ASSUME NEW k \in Callers, SignalFails(k) PROVE FlagsTyped'
  BY <1>11, Zenon DEF SignalFails, Misses
<1>12. ASSUME NEW k \in Callers, FindOrFail(k) PROVE FlagsTyped'
  BY <1>12, Zenon DEF FindOrFail, Updated, Acknowledges
<1>13. ASSUME NEW k \in Callers, Update(k) PROVE FlagsTyped'
  BY <1>13 DEF Update, Muddles
<1>14. ASSUME NEW k \in Callers, UpdateRefused(k) PROVE FlagsTyped'
  BY <1>14 DEF UpdateRefused, Throws, Ends
<1>15. ASSUME NEW k \in Callers, SaveHistory(k) PROVE FlagsTyped'
  BY <1>15, Zenon DEF SaveHistory, Updated, Acknowledges
<1>16. ASSUME NEW k \in Callers, InsertSnapshot(k) PROVE FlagsTyped'
  BY <1>16 DEF InsertSnapshot, Return, Ends
<1>17. ASSUME NEW k \in Callers, LockSnapshot(k) PROVE FlagsTyped'
  BY <1>17 DEF LockSnapshot, Return, Ends
<1>18. ASSUME NEW k \in Callers, ChooseSnapshot(k) PROVE FlagsTyped'
  BY <1>18 DEF ChooseSnapshot, Throws, Ends
<1>19. ASSUME NEW k \in Callers, LockOnIssue(k) PROVE FlagsTyped'
  BY <1>19 DEF LockOnIssue
<1>20. ASSUME NEW k \in Callers, InsertPolicy(k) PROVE FlagsTyped'
  BY <1>20 DEF InsertPolicy, Return, Ends
<1>21. ASSUME NEW k \in Callers, InsertPolicyRefused(k) PROVE FlagsTyped'
  BY <1>21 DEF InsertPolicyRefused, Throws, Ends
<1>22. ASSUME NEW k \in Callers, CheckCancellable(k) PROVE FlagsTyped'
  BY <1>22 DEF CheckCancellable, Ends
<1>23. ASSUME NEW k \in Callers, CheckLapsed(k) PROVE FlagsTyped'
  BY <1>23 DEF CheckLapsed, Ends
<1>24. ASSUME NEW k \in Callers, ExpectFrom(k) PROVE FlagsTyped'
  BY <1>24 DEF ExpectFrom, Ends
<1>25. ASSUME NEW k \in Callers, UpdatePolicy(k) PROVE FlagsTyped'
  BY <1>25 DEF UpdatePolicy, Muddles
<1>26. ASSUME NEW k \in Callers, SavePolicyHistory(k) PROVE FlagsTyped'
  BY <1>26 DEF SavePolicyHistory, Ends
<1>27. ASSUME NEW k \in Callers, CallFails(k) PROVE FlagsTyped'
  BY <1>27 DEF CallFails, Throws, Ends, Happens
<1>28. ASSUME AttemptTimesOut PROVE FlagsTyped'
  BY <1>28 DEF AttemptTimesOut, Happens
<1>29. ASSUME RetriesExhausted PROVE FlagsTyped'
  BY <1>29 DEF RetriesExhausted, Writes, Does
<1>30. ASSUME ReviewEnds PROVE FlagsTyped'
  <2>1. approvalTaken' \in {TRUE, approvalTaken}
    BY <1>30 DEF ReviewEnds
  <2> QED
    BY <1>30, <2>1 DEF ReviewEnds
<1>31. ASSUME RunTimesOut PROVE FlagsTyped'
  BY <1>31 DEF RunTimesOut, Live, Does, Happens
<1>32. CASE UNCHANGED vars
  BY <1>32 DEF vars
<1> QED
  BY <1>1, <1>2, <1>3, <1>4, <1>5, <1>6, <1>7, <1>8, <1>9, <1>10, <1>11, <1>12, <1>13, <1>14,
      <1>15, <1>16,
     <1>17, <1>18, <1>19, <1>20, <1>21, <1>22, <1>23, <1>24, <1>25, <1>26, <1>27, <1>28, <1>29, <1>30, <1>31, <1>32
  DEF Next, RunStep, QuoteCall, PolicyCall

LEMMA PlacedKept == Inv /\ [Next]_vars => Placed'
<1> SUFFICES ASSUME Inv, [Next]_vars PROVE Placed'
  OBVIOUS
<1> USE IssuanceAssumption DEF Inv, GoTo, Placed, quoteRow, snapshotRows, policyRow, theRun,
    args, quoteHistory, policyHistory,
        Statements, Methods, RunCalls, StatusStatements, IssueStatements, CheckStatements,
        MoveStatements,
        Approved, InReview, NoSnapshot, Snapshots, Foreign, NoRow, PolicyStatus
<1>1. ASSUME NEW k \in Callers, AttemptStarts(k) PROVE Placed'
  BY <1>1, RunMoves DEF AttemptStarts, Begin, First, Expected, CallsTyped, RunTyped,
      RowsTyped, Created, RunInStep, Moved, Issued, Approval, Backed, Priced
<1>2. ASSUME NEW k \in Callers, Create(k) PROVE Placed'
  BY <1>2 DEF Create, Begin, First, Expected, CallsTyped
<1>3. ASSUME NEW k \in Callers, NEW m \in DeskMethods, DeskCall(k, m) PROVE Placed'
  BY <1>3 DEF DeskCall, Begin, First, Expected, Happens, Goals, CallsTyped
<1>4. ASSUME NEW k \in Callers, Insert(k) PROVE Placed'
  BY <1>4 DEF Insert, CallsTyped
<1>5. ASSUME NEW k \in Callers, CheckEligibility(k) PROVE Placed'
  BY <1>5 DEF CheckEligibility, CallsTyped
<1>6. ASSUME NEW k \in Callers, StartWorkflow(k) PROVE Placed'
  BY <1>6 DEF StartWorkflow, Ends, Writes, CallsTyped
<1>7. ASSUME NEW k \in Callers, Link(k) PROVE Placed'
  BY <1>7 DEF Link, Ends, CallsTyped
<1>8. ASSUME NEW k \in Callers, CheckDraft(k) PROVE Placed'
  BY <1>8 DEF CheckDraft, Ends, CallsTyped
<1>9. ASSUME NEW k \in Callers, CheckOpen(k) PROVE Placed'
  BY <1>9 DEF CheckOpen, Ends, Misses, CallsTyped
<1>10. ASSUME NEW k \in Callers, Signal(k) PROVE Placed'
  BY <1>10 DEF Signal, Ends, Live, Acknowledges, CallsTyped
<1>11. ASSUME NEW k \in Callers, SignalFails(k) PROVE Placed'
  BY <1>11 DEF SignalFails, Misses, CallsTyped
<1>12. ASSUME NEW k \in Callers, FindOrFail(k) PROVE Placed'
  BY <1>12 DEF FindOrFail, Updated, Return, Ends, Acknowledges, CallsTyped
<1>13. ASSUME NEW k \in Callers, Update(k) PROVE Placed'
  BY <1>13, ColumnTyped DEF Update, CallsTyped, RowsTyped
<1>14. ASSUME NEW k \in Callers, UpdateRefused(k) PROVE Placed'
  BY <1>14 DEF UpdateRefused, Throws, Ends, CallsTyped
<1>15. ASSUME NEW k \in Callers, SaveHistory(k) PROVE Placed'
  BY <1>15 DEF SaveHistory, Updated, Return, Ends, Acknowledges, CallsTyped
<1>16. ASSUME NEW k \in Callers, InsertSnapshot(k) PROVE Placed'
  BY <1>16 DEF InsertSnapshot, Return, Ends, CallsTyped
<1>17. ASSUME NEW k \in Callers, LockSnapshot(k) PROVE Placed'
  BY <1>17 DEF LockSnapshot, Return, Ends, CallsTyped
<1>18. ASSUME NEW k \in Callers, ChooseSnapshot(k) PROVE Placed'
  BY <1>18 DEF ChooseSnapshot, Throws, Ends, CallsTyped
<1>19. ASSUME NEW k \in Callers, LockOnIssue(k) PROVE Placed'
  BY <1>19 DEF LockOnIssue, CallsTyped
<1>20. ASSUME NEW k \in Callers, InsertPolicy(k) PROVE Placed'
  BY <1>20 DEF InsertPolicy, Return, Ends, CallsTyped
<1>21. ASSUME NEW k \in Callers, InsertPolicyRefused(k) PROVE Placed'
  BY <1>21 DEF InsertPolicyRefused, Throws, Ends, CallsTyped
<1>22. ASSUME NEW k \in Callers, CheckCancellable(k) PROVE Placed'
  BY <1>22 DEF CheckCancellable, Ends, CallsTyped
<1>23. ASSUME NEW k \in Callers, CheckLapsed(k) PROVE Placed'
  BY <1>23 DEF CheckLapsed, Ends, CallsTyped
<1>24. ASSUME NEW k \in Callers, ExpectFrom(k) PROVE Placed'
  BY <1>24 DEF ExpectFrom, Ends, CallsTyped
<1>25. ASSUME NEW k \in Callers, UpdatePolicy(k) PROVE Placed'
  BY <1>25 DEF UpdatePolicy, Muddles, CallsTyped
<1>26. ASSUME NEW k \in Callers, SavePolicyHistory(k) PROVE Placed'
  BY <1>26 DEF SavePolicyHistory, Ends, CallsTyped
<1>27. ASSUME NEW k \in Callers, CallFails(k) PROVE Placed'
  BY <1>27 DEF CallFails, Throws, Ends, Happens, CallsTyped
<1>28. ASSUME AttemptTimesOut PROVE Placed'
  BY <1>28 DEF AttemptTimesOut, Happens, CallsTyped
<1>29. ASSUME RetriesExhausted PROVE Placed'
  BY <1>29 DEF RetriesExhausted, Writes, Does, CallsTyped
<1>30. ASSUME ReviewEnds PROVE Placed'
  BY <1>30 DEF ReviewEnds, Writes, Does, CallsTyped
<1>31. ASSUME RunTimesOut PROVE Placed'
  BY <1>31 DEF RunTimesOut, Live, Does, Happens, CallsTyped
<1>32. CASE UNCHANGED vars
  BY <1>32 DEF vars
<1> QED
  BY <1>1, <1>2, <1>3, <1>4, <1>5, <1>6, <1>7, <1>8, <1>9, <1>10, <1>11, <1>12, <1>13, <1>14,
      <1>15, <1>16,
     <1>17, <1>18, <1>19, <1>20, <1>21, <1>22, <1>23, <1>24, <1>25, <1>26, <1>27, <1>28, <1>29, <1>30, <1>31, <1>32
  DEF Next, RunStep, QuoteCall, PolicyCall

LEMMA RunInStepKept == Inv /\ [Next]_vars => RunInStep'
<1> SUFFICES ASSUME Inv, [Next]_vars PROVE RunInStep'
  OBVIOUS
<1> USE IssuanceAssumption DEF Inv, GoTo, RunInStep, quoteRow, snapshotRows, policyRow, theRun,
    args, quoteHistory, policyHistory,
        Statements, Methods, RunCalls, StatusStatements, IssueStatements, CheckStatements,
        MoveStatements,
        Approved, InReview, NoSnapshot, Snapshots, Foreign, NoRow, PolicyStatus
<1>1. ASSUME NEW k \in Callers, AttemptStarts(k) PROVE RunInStep'
  BY <1>1 DEF AttemptStarts, Begin, First, Expected, CallsTyped
<1>2. ASSUME NEW k \in Callers, Create(k) PROVE RunInStep'
  BY <1>2 DEF Create, Begin, First, Expected, CallsTyped, Placed
<1>3. ASSUME NEW k \in Callers, NEW m \in DeskMethods, DeskCall(k, m) PROVE RunInStep'
  BY <1>3 DEF DeskCall, Begin, First, Expected, Happens, Goals, CallsTyped, Placed
<1>4. ASSUME NEW k \in Callers, Insert(k) PROVE RunInStep'
  BY <1>4 DEF Insert, CallsTyped
<1>5. ASSUME NEW k \in Callers, CheckEligibility(k) PROVE RunInStep'
  BY <1>5 DEF CheckEligibility, CallsTyped
<1>6. ASSUME NEW k \in Callers, StartWorkflow(k) PROVE RunInStep'
  BY <1>6, RunMoves DEF StartWorkflow, Ends, Writes, CallsTyped, Placed, RunTyped, RowsTyped,
      Created, Moved, Issued, Approval, Backed, Priced
<1>7. ASSUME NEW k \in Callers, Link(k) PROVE RunInStep'
  BY <1>7 DEF Link, Ends, CallsTyped, Placed
<1>8. ASSUME NEW k \in Callers, CheckDraft(k) PROVE RunInStep'
  BY <1>8, RunMoves DEF CheckDraft, Ends, CallsTyped, Placed, RunTyped, Moved
<1>9. ASSUME NEW k \in Callers, CheckOpen(k) PROVE RunInStep'
  BY <1>9, RunMoves DEF CheckOpen, Ends, Misses, CallsTyped, Placed, RunTyped, Moved
<1>10. ASSUME NEW k \in Callers, Signal(k) PROVE RunInStep'
  BY <1>10 DEF Signal, Ends, Live, Acknowledges, CallsTyped, Placed
<1>11. ASSUME NEW k \in Callers, SignalFails(k) PROVE RunInStep'
  BY <1>11 DEF SignalFails, Misses, CallsTyped
<1>12. ASSUME NEW k \in Callers, FindOrFail(k) PROVE RunInStep'
  BY <1>12, RunMoves DEF FindOrFail, Updated, Return, Ends, Acknowledges, CallsTyped, Placed,
      RunTyped, Moved
<1>13. ASSUME NEW k \in Callers, Update(k) PROVE RunInStep'
  BY <1>13 DEF Update, Muddles, CallsTyped
<1>14. ASSUME NEW k \in Callers, UpdateRefused(k) PROVE RunInStep'
  BY <1>14 DEF UpdateRefused, Throws, Ends, CallsTyped
<1>15. ASSUME NEW k \in Callers, SaveHistory(k) PROVE RunInStep'
  BY <1>15, RunMoves DEF SaveHistory, Updated, Return, Ends, Acknowledges, CallsTyped, Placed,
      RunTyped, Moved
<1>16. ASSUME NEW k \in Callers, InsertSnapshot(k) PROVE RunInStep'
  BY <1>16, RunMoves DEF InsertSnapshot, Return, Ends, CallsTyped, Placed, RunTyped,
      RowsTyped, Created, Moved, Issued, Approval, Backed, Priced
<1>17. ASSUME NEW k \in Callers, LockSnapshot(k) PROVE RunInStep'
  BY <1>17, RunMoves DEF LockSnapshot, Return, Ends, CallsTyped, Placed, RunTyped, Moved
<1>18. ASSUME NEW k \in Callers, ChooseSnapshot(k) PROVE RunInStep'
  BY <1>18, RunMoves DEF ChooseSnapshot, Throws, Ends, CallsTyped, RunTyped, Moved
<1>19. ASSUME NEW k \in Callers, LockOnIssue(k) PROVE RunInStep'
  BY <1>19 DEF LockOnIssue, CallsTyped
<1>20. ASSUME NEW k \in Callers, InsertPolicy(k) PROVE RunInStep'
  BY <1>20, RunMoves DEF InsertPolicy, Return, Ends, CallsTyped, Placed, RunTyped, Moved
<1>21. ASSUME NEW k \in Callers, InsertPolicyRefused(k) PROVE RunInStep'
  BY <1>21 DEF InsertPolicyRefused, Throws, Ends, CallsTyped
<1>22. ASSUME NEW k \in Callers, CheckCancellable(k) PROVE RunInStep'
  BY <1>22, RunMoves DEF CheckCancellable, Ends, CallsTyped, Placed, RunTyped, Moved
<1>23. ASSUME NEW k \in Callers, CheckLapsed(k) PROVE RunInStep'
  BY <1>23, RunMoves DEF CheckLapsed, Ends, CallsTyped, Placed, RunTyped, Moved
<1>24. ASSUME NEW k \in Callers, ExpectFrom(k) PROVE RunInStep'
  BY <1>24, RunMoves DEF ExpectFrom, Ends, CallsTyped, Placed, RunTyped, Moved
<1>25. ASSUME NEW k \in Callers, UpdatePolicy(k) PROVE RunInStep'
  BY <1>25 DEF UpdatePolicy, Muddles, CallsTyped
<1>26. ASSUME NEW k \in Callers, SavePolicyHistory(k) PROVE RunInStep'
  BY <1>26 DEF SavePolicyHistory, Ends, CallsTyped, Placed
<1>27. ASSUME NEW k \in Callers, CallFails(k) PROVE RunInStep'
  BY <1>27 DEF CallFails, Throws, Ends, Happens, CallsTyped
<1>28. ASSUME AttemptTimesOut PROVE RunInStep'
  BY <1>28 DEF AttemptTimesOut, Happens, CallsTyped
<1>29. ASSUME RetriesExhausted PROVE RunInStep'
  BY <1>29, RunMoves DEF RetriesExhausted, Writes, Does, CallsTyped, Placed, RunTyped,
      RowsTyped, Created, Moved, Issued, Approval, Backed, Priced
<1>30. ASSUME ReviewEnds PROVE RunInStep'
  BY <1>30, RunMoves DEF ReviewEnds, Writes, Does, CallsTyped, Placed, RunTyped, RowsTyped,
      Created, Moved, Issued, Approval, Backed, Priced
<1>31. ASSUME RunTimesOut PROVE RunInStep'
  BY <1>31 DEF RunTimesOut, Live, Does, Happens, CallsTyped
<1>32. CASE UNCHANGED vars
  BY <1>32 DEF vars
<1> QED
  BY <1>1, <1>2, <1>3, <1>4, <1>5, <1>6, <1>7, <1>8, <1>9, <1>10, <1>11, <1>12, <1>13, <1>14,
      <1>15, <1>16,
     <1>17, <1>18, <1>19, <1>20, <1>21, <1>22, <1>23, <1>24, <1>25, <1>26, <1>27, <1>28, <1>29, <1>30, <1>31, <1>32
  DEF Next, RunStep, QuoteCall, PolicyCall

LEMMA CreatedKept == Inv /\ [Next]_vars => Created'
<1> SUFFICES ASSUME Inv, [Next]_vars PROVE Created'
  OBVIOUS
<1> USE IssuanceAssumption DEF Inv, GoTo, Created, quoteRow, snapshotRows, policyRow, theRun,
    args, quoteHistory, policyHistory,
        Statements, Methods, RunCalls, StatusStatements, IssueStatements, CheckStatements,
        MoveStatements,
        Approved, InReview, NoSnapshot, Snapshots, Foreign, NoRow, PolicyStatus
<1>1. ASSUME NEW k \in Callers, AttemptStarts(k) PROVE Created'
  BY <1>1 DEF AttemptStarts, Begin, First, Expected, CallsTyped
<1>2. ASSUME NEW k \in Callers, Create(k) PROVE Created'
  BY <1>2 DEF Create, Begin, First, Expected, CallsTyped
<1>3. ASSUME NEW k \in Callers, NEW m \in DeskMethods, DeskCall(k, m) PROVE Created'
  BY <1>3 DEF DeskCall, Begin, First, Expected, Happens, Goals, CallsTyped
<1>4. ASSUME NEW k \in Callers, Insert(k) PROVE Created'
  BY <1>4 DEF Insert, CallsTyped, Placed
<1>5. ASSUME NEW k \in Callers, CheckEligibility(k) PROVE Created'
  BY <1>5 DEF CheckEligibility, CallsTyped
<1>6. ASSUME NEW k \in Callers, StartWorkflow(k) PROVE Created'
  BY <1>6 DEF StartWorkflow, Ends, Writes, CallsTyped, Placed
<1>7. ASSUME NEW k \in Callers, Link(k) PROVE Created'
  BY <1>7 DEF Link, Ends, CallsTyped
<1>8. ASSUME NEW k \in Callers, CheckDraft(k) PROVE Created'
  BY <1>8 DEF CheckDraft, Ends, CallsTyped
<1>9. ASSUME NEW k \in Callers, CheckOpen(k) PROVE Created'
  BY <1>9 DEF CheckOpen, Ends, Misses, CallsTyped
<1>10. ASSUME NEW k \in Callers, Signal(k) PROVE Created'
  BY <1>10 DEF Signal, Ends, Live, Acknowledges, CallsTyped
<1>11. ASSUME NEW k \in Callers, SignalFails(k) PROVE Created'
  BY <1>11 DEF SignalFails, Misses, CallsTyped
<1>12. ASSUME NEW k \in Callers, FindOrFail(k) PROVE Created'
  BY <1>12, RunMoves DEF FindOrFail, Updated, Return, Ends, Acknowledges, CallsTyped,
      RunTyped, RunInStep, Moved
<1>13. ASSUME NEW k \in Callers, Update(k) PROVE Created'
  BY <1>13, NoRowIsNoStatus DEF Update, CallsTyped, RowsTyped, Placed
<1>14. ASSUME NEW k \in Callers, UpdateRefused(k) PROVE Created'
  BY <1>14 DEF UpdateRefused, Throws, Ends, CallsTyped
<1>15. ASSUME NEW k \in Callers, SaveHistory(k) PROVE Created'
  BY <1>15, RunMoves DEF SaveHistory, Updated, Return, Ends, Acknowledges, CallsTyped,
      RunTyped, RunInStep, Moved
<1>16. ASSUME NEW k \in Callers, InsertSnapshot(k) PROVE Created'
  BY <1>16, RunMoves DEF InsertSnapshot, Return, Ends, CallsTyped, RunTyped, RunInStep, Moved
<1>17. ASSUME NEW k \in Callers, LockSnapshot(k) PROVE Created'
  BY <1>17, RunMoves DEF LockSnapshot, Return, Ends, CallsTyped, RunTyped, RunInStep, Moved
<1>18. ASSUME NEW k \in Callers, ChooseSnapshot(k) PROVE Created'
  BY <1>18 DEF ChooseSnapshot, Throws, Ends, CallsTyped
<1>19. ASSUME NEW k \in Callers, LockOnIssue(k) PROVE Created'
  BY <1>19 DEF LockOnIssue, CallsTyped
<1>20. ASSUME NEW k \in Callers, InsertPolicy(k) PROVE Created'
  BY <1>20, RunMoves DEF InsertPolicy, Return, Ends, CallsTyped, RunTyped, RunInStep, Moved
<1>21. ASSUME NEW k \in Callers, InsertPolicyRefused(k) PROVE Created'
  BY <1>21 DEF InsertPolicyRefused, Throws, Ends, CallsTyped
<1>22. ASSUME NEW k \in Callers, CheckCancellable(k) PROVE Created'
  BY <1>22 DEF CheckCancellable, Ends, CallsTyped
<1>23. ASSUME NEW k \in Callers, CheckLapsed(k) PROVE Created'
  BY <1>23 DEF CheckLapsed, Ends, CallsTyped
<1>24. ASSUME NEW k \in Callers, ExpectFrom(k) PROVE Created'
  BY <1>24 DEF ExpectFrom, Ends, CallsTyped
<1>25. ASSUME NEW k \in Callers, UpdatePolicy(k) PROVE Created'
  BY <1>25 DEF UpdatePolicy, Muddles, CallsTyped
<1>26. ASSUME NEW k \in Callers, SavePolicyHistory(k) PROVE Created'
  BY <1>26 DEF SavePolicyHistory, Ends, CallsTyped
<1>27. ASSUME NEW k \in Callers, CallFails(k) PROVE Created'
  BY <1>27 DEF CallFails, Throws, Ends, Happens, CallsTyped
<1>28. ASSUME AttemptTimesOut PROVE Created'
  BY <1>28 DEF AttemptTimesOut, Happens, CallsTyped
<1>29. ASSUME RetriesExhausted PROVE Created'
  BY <1>29 DEF RetriesExhausted, Writes, Does, CallsTyped
<1>30. ASSUME ReviewEnds PROVE Created'
  BY <1>30 DEF ReviewEnds, Writes, Does, CallsTyped
<1>31. ASSUME RunTimesOut PROVE Created'
  BY <1>31 DEF RunTimesOut, Live, Does, Happens, CallsTyped
<1>32. CASE UNCHANGED vars
  BY <1>32 DEF vars
<1> QED
  BY <1>1, <1>2, <1>3, <1>4, <1>5, <1>6, <1>7, <1>8, <1>9, <1>10, <1>11, <1>12, <1>13, <1>14,
      <1>15, <1>16,
     <1>17, <1>18, <1>19, <1>20, <1>21, <1>22, <1>23, <1>24, <1>25, <1>26, <1>27, <1>28, <1>29, <1>30, <1>31, <1>32
  DEF Next, RunStep, QuoteCall, PolicyCall

LEMMA IssuedKept == Inv /\ [Next]_vars => Issued'
<1> SUFFICES ASSUME Inv, [Next]_vars PROVE Issued'
  OBVIOUS
<1> USE IssuanceAssumption DEF Inv, GoTo, Issued, quoteRow, snapshotRows, policyRow, theRun,
    args, quoteHistory, policyHistory,
        Statements, Methods, RunCalls, StatusStatements, IssueStatements, CheckStatements,
        MoveStatements,
        Approved, InReview, NoSnapshot, Snapshots, Foreign, NoRow, PolicyStatus
<1>1. ASSUME NEW k \in Callers, AttemptStarts(k) PROVE Issued'
  BY <1>1 DEF AttemptStarts, Begin, First, Expected, CallsTyped
<1>2. ASSUME NEW k \in Callers, Create(k) PROVE Issued'
  BY <1>2 DEF Create, Begin, First, Expected, CallsTyped
<1>3. ASSUME NEW k \in Callers, NEW m \in DeskMethods, DeskCall(k, m) PROVE Issued'
  BY <1>3 DEF DeskCall, Begin, First, Expected, Happens, Goals, CallsTyped
<1>4. ASSUME NEW k \in Callers, Insert(k) PROVE Issued'
  BY <1>4 DEF Insert, CallsTyped
<1>5. ASSUME NEW k \in Callers, CheckEligibility(k) PROVE Issued'
  BY <1>5 DEF CheckEligibility, CallsTyped, Placed
<1>6. ASSUME NEW k \in Callers, StartWorkflow(k) PROVE Issued'
  BY <1>6 DEF StartWorkflow, Ends, Writes, CallsTyped
<1>7. ASSUME NEW k \in Callers, Link(k) PROVE Issued'
  BY <1>7 DEF Link, Ends, CallsTyped
<1>8. ASSUME NEW k \in Callers, CheckDraft(k) PROVE Issued'
  BY <1>8 DEF CheckDraft, Ends, CallsTyped
<1>9. ASSUME NEW k \in Callers, CheckOpen(k) PROVE Issued'
  BY <1>9 DEF CheckOpen, Ends, Misses, CallsTyped
<1>10. ASSUME NEW k \in Callers, Signal(k) PROVE Issued'
  BY <1>10 DEF Signal, Ends, Live, Acknowledges, CallsTyped
<1>11. ASSUME NEW k \in Callers, SignalFails(k) PROVE Issued'
  BY <1>11 DEF SignalFails, Misses, CallsTyped
<1>12. ASSUME NEW k \in Callers, FindOrFail(k) PROVE Issued'
  BY <1>12, RunMoves DEF FindOrFail, Updated, Return, Ends, Acknowledges, CallsTyped,
      RunTyped, RunInStep, Moved
<1>13. ASSUME NEW k \in Callers, Update(k) PROVE Issued'
  BY <1>13 DEF Update, Muddles, CallsTyped
<1>14. ASSUME NEW k \in Callers, UpdateRefused(k) PROVE Issued'
  BY <1>14 DEF UpdateRefused, Throws, Ends, CallsTyped
<1>15. ASSUME NEW k \in Callers, SaveHistory(k) PROVE Issued'
  BY <1>15, RunMoves DEF SaveHistory, Updated, Return, Ends, Acknowledges, CallsTyped,
      RunTyped, RunInStep, Moved
<1>16. ASSUME NEW k \in Callers, InsertSnapshot(k) PROVE Issued'
  BY <1>16, RunMoves DEF InsertSnapshot, Return, Ends, CallsTyped, Placed, RunTyped,
      RunInStep, Moved
<1>17. ASSUME NEW k \in Callers, LockSnapshot(k) PROVE Issued'
  BY <1>17, RunMoves DEF LockSnapshot, Return, Ends, CallsTyped, Placed, RunTyped, RunInStep,
      Moved
<1>18. ASSUME NEW k \in Callers, ChooseSnapshot(k) PROVE Issued'
  BY <1>18 DEF ChooseSnapshot, Throws, Ends, CallsTyped
<1>19. ASSUME NEW k \in Callers, LockOnIssue(k) PROVE Issued'
  BY <1>19 DEF LockOnIssue, CallsTyped
<1>20. ASSUME NEW k \in Callers, InsertPolicy(k) PROVE Issued'
  BY <1>20 DEF InsertPolicy, Return, Ends, CallsTyped
<1>21. ASSUME NEW k \in Callers, InsertPolicyRefused(k) PROVE Issued'
  BY <1>21 DEF InsertPolicyRefused, Throws, Ends, CallsTyped
<1>22. ASSUME NEW k \in Callers, CheckCancellable(k) PROVE Issued'
  BY <1>22 DEF CheckCancellable, Ends, CallsTyped
<1>23. ASSUME NEW k \in Callers, CheckLapsed(k) PROVE Issued'
  BY <1>23 DEF CheckLapsed, Ends, CallsTyped
<1>24. ASSUME NEW k \in Callers, ExpectFrom(k) PROVE Issued'
  BY <1>24 DEF ExpectFrom, Ends, CallsTyped
<1>25. ASSUME NEW k \in Callers, UpdatePolicy(k) PROVE Issued'
  BY <1>25 DEF UpdatePolicy, CallsTyped, Moves
<1>26. ASSUME NEW k \in Callers, SavePolicyHistory(k) PROVE Issued'
  BY <1>26 DEF SavePolicyHistory, Ends, CallsTyped
<1>27. ASSUME NEW k \in Callers, CallFails(k) PROVE Issued'
  BY <1>27 DEF CallFails, Throws, Ends, Happens, CallsTyped
<1>28. ASSUME AttemptTimesOut PROVE Issued'
  BY <1>28 DEF AttemptTimesOut, Happens, CallsTyped
<1>29. ASSUME RetriesExhausted PROVE Issued'
  BY <1>29 DEF RetriesExhausted, Writes, Does, CallsTyped
<1>30. ASSUME ReviewEnds PROVE Issued'
  BY <1>30 DEF ReviewEnds, Writes, Does, CallsTyped
<1>31. ASSUME RunTimesOut PROVE Issued'
  BY <1>31 DEF RunTimesOut, Live, Does, Happens, CallsTyped
<1>32. CASE UNCHANGED vars
  BY <1>32 DEF vars
<1> QED
  BY <1>1, <1>2, <1>3, <1>4, <1>5, <1>6, <1>7, <1>8, <1>9, <1>10, <1>11, <1>12, <1>13, <1>14,
      <1>15, <1>16,
     <1>17, <1>18, <1>19, <1>20, <1>21, <1>22, <1>23, <1>24, <1>25, <1>26, <1>27, <1>28, <1>29, <1>30, <1>31, <1>32
  DEF Next, RunStep, QuoteCall, PolicyCall

LEMMA BackedKept == Inv /\ [Next]_vars => Backed'
<1> SUFFICES ASSUME Inv, [Next]_vars PROVE Backed'
  OBVIOUS
<1> USE IssuanceAssumption DEF Inv, GoTo, Backed, quoteRow, snapshotRows, policyRow, theRun,
    args, quoteHistory, policyHistory,
        Statements, Methods, RunCalls, StatusStatements, IssueStatements, CheckStatements,
        MoveStatements,
        Approved, InReview, NoSnapshot, Snapshots, Foreign, NoRow, PolicyStatus
<1>1. ASSUME NEW k \in Callers, AttemptStarts(k) PROVE Backed'
  BY <1>1 DEF AttemptStarts, Begin, First, Expected, CallsTyped
<1>2. ASSUME NEW k \in Callers, Create(k) PROVE Backed'
  BY <1>2 DEF Create, Begin, First, Expected, CallsTyped
<1>3. ASSUME NEW k \in Callers, NEW m \in DeskMethods, DeskCall(k, m) PROVE Backed'
  BY <1>3 DEF DeskCall, Begin, First, Expected, Happens, Goals, CallsTyped
<1>4. ASSUME NEW k \in Callers, Insert(k) PROVE Backed'
  BY <1>4 DEF Insert, CallsTyped
<1>5. ASSUME NEW k \in Callers, CheckEligibility(k) PROVE Backed'
  BY <1>5 DEF CheckEligibility, CallsTyped
<1>6. ASSUME NEW k \in Callers, StartWorkflow(k) PROVE Backed'
  BY <1>6 DEF StartWorkflow, Ends, Writes, CallsTyped
<1>7. ASSUME NEW k \in Callers, Link(k) PROVE Backed'
  BY <1>7 DEF Link, Ends, CallsTyped
<1>8. ASSUME NEW k \in Callers, CheckDraft(k) PROVE Backed'
  BY <1>8 DEF CheckDraft, Ends, CallsTyped
<1>9. ASSUME NEW k \in Callers, CheckOpen(k) PROVE Backed'
  BY <1>9 DEF CheckOpen, Ends, Misses, CallsTyped
<1>10. ASSUME NEW k \in Callers, Signal(k) PROVE Backed'
  BY <1>10 DEF Signal, Ends, Live, Acknowledges, CallsTyped
<1>11. ASSUME NEW k \in Callers, SignalFails(k) PROVE Backed'
  BY <1>11 DEF SignalFails, Misses, CallsTyped
<1>12. ASSUME NEW k \in Callers, FindOrFail(k) PROVE Backed'
  BY <1>12 DEF FindOrFail, Updated, Return, Ends, Acknowledges, CallsTyped
<1>13. ASSUME NEW k \in Callers, Update(k) PROVE Backed'
  BY <1>13 DEF Update, Muddles, CallsTyped
<1>14. ASSUME NEW k \in Callers, UpdateRefused(k) PROVE Backed'
  BY <1>14 DEF UpdateRefused, Throws, Ends, CallsTyped
<1>15. ASSUME NEW k \in Callers, SaveHistory(k) PROVE Backed'
  BY <1>15 DEF SaveHistory, Updated, Return, Ends, Acknowledges, CallsTyped
<1>16. ASSUME NEW k \in Callers, InsertSnapshot(k) PROVE Backed'
  BY <1>16 DEF InsertSnapshot, Return, Ends, CallsTyped
<1>17. ASSUME NEW k \in Callers, LockSnapshot(k) PROVE Backed'
  BY <1>17 DEF LockSnapshot, Return, Ends, CallsTyped
<1>18. ASSUME NEW k \in Callers, ChooseSnapshot(k) PROVE Backed'
  BY <1>18 DEF ChooseSnapshot, Throws, Ends, CallsTyped
<1>19. ASSUME NEW k \in Callers, LockOnIssue(k) PROVE Backed'
  BY <1>19 DEF LockOnIssue, CallsTyped
<1>20. ASSUME NEW k \in Callers, InsertPolicy(k) PROVE Backed'
  BY <1>20 DEF InsertPolicy, Return, Ends, CallsTyped
<1>21. ASSUME NEW k \in Callers, InsertPolicyRefused(k) PROVE Backed'
  BY <1>21 DEF InsertPolicyRefused, Throws, Ends, CallsTyped
<1>22. ASSUME NEW k \in Callers, CheckCancellable(k) PROVE Backed'
  BY <1>22 DEF CheckCancellable, Ends, CallsTyped
<1>23. ASSUME NEW k \in Callers, CheckLapsed(k) PROVE Backed'
  BY <1>23 DEF CheckLapsed, Ends, CallsTyped
<1>24. ASSUME NEW k \in Callers, ExpectFrom(k) PROVE Backed'
  BY <1>24 DEF ExpectFrom, Ends, CallsTyped
<1>25. ASSUME NEW k \in Callers, UpdatePolicy(k) PROVE Backed'
  BY <1>25 DEF UpdatePolicy, CallsTyped, Moves
<1>26. ASSUME NEW k \in Callers, SavePolicyHistory(k) PROVE Backed'
  BY <1>26 DEF SavePolicyHistory, Ends, CallsTyped
<1>27. ASSUME NEW k \in Callers, CallFails(k) PROVE Backed'
  BY <1>27 DEF CallFails, Throws, Ends, Happens, CallsTyped
<1>28. ASSUME AttemptTimesOut PROVE Backed'
  BY <1>28 DEF AttemptTimesOut, Happens, CallsTyped
<1>29. ASSUME RetriesExhausted PROVE Backed'
  BY <1>29 DEF RetriesExhausted, Writes, Does, CallsTyped
<1>30. ASSUME ReviewEnds PROVE Backed'
  BY <1>30 DEF ReviewEnds, Writes, Does, CallsTyped
<1>31. ASSUME RunTimesOut PROVE Backed'
  BY <1>31 DEF RunTimesOut, Live, Does, Happens, CallsTyped
<1>32. CASE UNCHANGED vars
  BY <1>32 DEF vars
<1> QED
  BY <1>1, <1>2, <1>3, <1>4, <1>5, <1>6, <1>7, <1>8, <1>9, <1>10, <1>11, <1>12, <1>13, <1>14,
      <1>15, <1>16,
     <1>17, <1>18, <1>19, <1>20, <1>21, <1>22, <1>23, <1>24, <1>25, <1>26, <1>27, <1>28, <1>29, <1>30, <1>31, <1>32
  DEF Next, RunStep, QuoteCall, PolicyCall

LEMMA MovesKept == Inv /\ [Next]_vars => Moves'
<1> SUFFICES ASSUME Inv, [Next]_vars PROVE Moves'
  OBVIOUS
<1> USE IssuanceAssumption DEF Inv, GoTo, Moves, quoteRow, snapshotRows, policyRow, theRun,
    args, quoteHistory, policyHistory,
        Statements, Methods, RunCalls, StatusStatements, IssueStatements, CheckStatements,
        MoveStatements,
        Approved, InReview, NoSnapshot, Snapshots, Foreign, NoRow, PolicyStatus
<1>1. ASSUME NEW k \in Callers, AttemptStarts(k) PROVE Moves'
  BY <1>1 DEF AttemptStarts, Begin, First, Expected, CallsTyped
<1>2. ASSUME NEW k \in Callers, Create(k) PROVE Moves'
  BY <1>2 DEF Create, Begin, First, Expected, CallsTyped
<1>3. ASSUME NEW k \in Callers, NEW m \in DeskMethods, DeskCall(k, m) PROVE Moves'
  BY <1>3 DEF DeskCall, Begin, First, Expected, Happens, Goals, CallsTyped
<1>4. ASSUME NEW k \in Callers, Insert(k) PROVE Moves'
  BY <1>4 DEF Insert, CallsTyped
<1>5. ASSUME NEW k \in Callers, CheckEligibility(k) PROVE Moves'
  BY <1>5 DEF CheckEligibility, CallsTyped
<1>6. ASSUME NEW k \in Callers, StartWorkflow(k) PROVE Moves'
  BY <1>6 DEF StartWorkflow, Ends, Writes, CallsTyped
<1>7. ASSUME NEW k \in Callers, Link(k) PROVE Moves'
  BY <1>7 DEF Link, Ends, CallsTyped
<1>8. ASSUME NEW k \in Callers, CheckDraft(k) PROVE Moves'
  BY <1>8 DEF CheckDraft, Ends, CallsTyped
<1>9. ASSUME NEW k \in Callers, CheckOpen(k) PROVE Moves'
  BY <1>9 DEF CheckOpen, Ends, Misses, CallsTyped
<1>10. ASSUME NEW k \in Callers, Signal(k) PROVE Moves'
  BY <1>10 DEF Signal, Ends, Live, Acknowledges, CallsTyped
<1>11. ASSUME NEW k \in Callers, SignalFails(k) PROVE Moves'
  BY <1>11 DEF SignalFails, Misses, CallsTyped
<1>12. ASSUME NEW k \in Callers, FindOrFail(k) PROVE Moves'
  BY <1>12 DEF FindOrFail, Updated, Return, Ends, Acknowledges, CallsTyped
<1>13. ASSUME NEW k \in Callers, Update(k) PROVE Moves'
  BY <1>13 DEF Update, Muddles, CallsTyped
<1>14. ASSUME NEW k \in Callers, UpdateRefused(k) PROVE Moves'
  BY <1>14 DEF UpdateRefused, Throws, Ends, CallsTyped
<1>15. ASSUME NEW k \in Callers, SaveHistory(k) PROVE Moves'
  BY <1>15 DEF SaveHistory, Updated, Return, Ends, Acknowledges, CallsTyped
<1>16. ASSUME NEW k \in Callers, InsertSnapshot(k) PROVE Moves'
  BY <1>16 DEF InsertSnapshot, Return, Ends, CallsTyped
<1>17. ASSUME NEW k \in Callers, LockSnapshot(k) PROVE Moves'
  BY <1>17 DEF LockSnapshot, Return, Ends, CallsTyped
<1>18. ASSUME NEW k \in Callers, ChooseSnapshot(k) PROVE Moves'
  BY <1>18 DEF ChooseSnapshot, Throws, Ends, CallsTyped
<1>19. ASSUME NEW k \in Callers, LockOnIssue(k) PROVE Moves'
  BY <1>19 DEF LockOnIssue, CallsTyped
<1>20. ASSUME NEW k \in Callers, InsertPolicy(k) PROVE Moves'
  BY <1>20 DEF InsertPolicy, Return, Ends, CallsTyped
<1>21. ASSUME NEW k \in Callers, InsertPolicyRefused(k) PROVE Moves'
  BY <1>21 DEF InsertPolicyRefused, Throws, Ends, CallsTyped
<1>22. ASSUME NEW k \in Callers, CheckCancellable(k) PROVE Moves'
  BY <1>22 DEF CheckCancellable, Ends, CallsTyped
<1>23. ASSUME NEW k \in Callers, CheckLapsed(k) PROVE Moves'
  BY <1>23 DEF CheckLapsed, Ends, CallsTyped
<1>24. ASSUME NEW k \in Callers, ExpectFrom(k) PROVE Moves'
  BY <1>24 DEF ExpectFrom, Ends, CallsTyped
<1>25. ASSUME NEW k \in Callers, UpdatePolicy(k) PROVE Moves'
  BY <1>25 DEF UpdatePolicy, Muddles, CallsTyped
<1>26. ASSUME NEW k \in Callers, SavePolicyHistory(k) PROVE Moves'
  BY <1>26 DEF SavePolicyHistory, Ends, CallsTyped
<1>27. ASSUME NEW k \in Callers, CallFails(k) PROVE Moves'
  BY <1>27 DEF CallFails, Throws, Ends, Happens, CallsTyped
<1>28. ASSUME AttemptTimesOut PROVE Moves'
  BY <1>28 DEF AttemptTimesOut, Happens, CallsTyped
<1>29. ASSUME RetriesExhausted PROVE Moves'
  BY <1>29 DEF RetriesExhausted, Writes, Does, CallsTyped
<1>30. ASSUME ReviewEnds PROVE Moves'
  BY <1>30 DEF ReviewEnds, Writes, Does, CallsTyped
<1>31. ASSUME RunTimesOut PROVE Moves'
  BY <1>31 DEF RunTimesOut, Live, Does, Happens, CallsTyped
<1>32. CASE UNCHANGED vars
  BY <1>32 DEF vars
<1> QED
  BY <1>1, <1>2, <1>3, <1>4, <1>5, <1>6, <1>7, <1>8, <1>9, <1>10, <1>11, <1>12, <1>13, <1>14,
      <1>15, <1>16,
     <1>17, <1>18, <1>19, <1>20, <1>21, <1>22, <1>23, <1>24, <1>25, <1>26, <1>27, <1>28, <1>29, <1>30, <1>31, <1>32
  DEF Next, RunStep, QuoteCall, PolicyCall

LEMMA QuoteRecordedKept == Inv /\ [Next]_vars => QuoteRecorded'
<1> SUFFICES ASSUME Inv, [Next]_vars PROVE QuoteRecorded'
  OBVIOUS
<1> USE IssuanceAssumption DEF Inv, GoTo, QuoteRecorded, quoteRow, snapshotRows, policyRow,
    theRun, args, quoteHistory, policyHistory,
        Statements, Methods, RunCalls, StatusStatements, IssueStatements, CheckStatements,
        MoveStatements,
        Approved, InReview, NoSnapshot, Snapshots, Foreign, NoRow, PolicyStatus
<1>1. ASSUME NEW k \in Callers, AttemptStarts(k) PROVE QuoteRecorded'
  BY <1>1 DEF AttemptStarts, Begin, First, Expected, CallsTyped
<1>2. ASSUME NEW k \in Callers, Create(k) PROVE QuoteRecorded'
  BY <1>2 DEF Create, Begin, First, Expected, CallsTyped
<1>3. ASSUME NEW k \in Callers, NEW m \in DeskMethods, DeskCall(k, m) PROVE QuoteRecorded'
  BY <1>3 DEF DeskCall, Begin, First, Expected, Happens, Goals, CallsTyped
<1>4. ASSUME NEW k \in Callers, Insert(k) PROVE QuoteRecorded'
  BY <1>4 DEF Insert, CallsTyped, Placed, RowsTyped, Created, RunInStep
<1>5. ASSUME NEW k \in Callers, CheckEligibility(k) PROVE QuoteRecorded'
  BY <1>5 DEF CheckEligibility, CallsTyped
<1>6. ASSUME NEW k \in Callers, StartWorkflow(k) PROVE QuoteRecorded'
  BY <1>6 DEF StartWorkflow, Ends, Writes, CallsTyped
<1>7. ASSUME NEW k \in Callers, Link(k) PROVE QuoteRecorded'
  BY <1>7 DEF Link, Ends, CallsTyped
<1>8. ASSUME NEW k \in Callers, CheckDraft(k) PROVE QuoteRecorded'
  BY <1>8 DEF CheckDraft, Ends, CallsTyped
<1>9. ASSUME NEW k \in Callers, CheckOpen(k) PROVE QuoteRecorded'
  BY <1>9 DEF CheckOpen, Ends, Misses, CallsTyped
<1>10. ASSUME NEW k \in Callers, Signal(k) PROVE QuoteRecorded'
  BY <1>10 DEF Signal, Ends, Live, Acknowledges, CallsTyped
<1>11. ASSUME NEW k \in Callers, SignalFails(k) PROVE QuoteRecorded'
  BY <1>11 DEF SignalFails, Misses, CallsTyped
<1>12. ASSUME NEW k \in Callers, FindOrFail(k) PROVE QuoteRecorded'
  BY <1>12 DEF FindOrFail, Updated, Return, Ends, Acknowledges, CallsTyped
<1>13. ASSUME NEW k \in Callers, Update(k) PROVE QuoteRecorded'
  BY <1>13 DEF Update, Muddles, CallsTyped
<1>14. ASSUME NEW k \in Callers, UpdateRefused(k) PROVE QuoteRecorded'
  BY <1>14 DEF UpdateRefused, Throws, Ends, CallsTyped
<1>15. ASSUME NEW k \in Callers, SaveHistory(k) PROVE QuoteRecorded'
  BY <1>15 DEF SaveHistory, Updated, Return, Ends, Acknowledges, CallsTyped
<1>16. ASSUME NEW k \in Callers, InsertSnapshot(k) PROVE QuoteRecorded'
  BY <1>16 DEF InsertSnapshot, Return, Ends, CallsTyped
<1>17. ASSUME NEW k \in Callers, LockSnapshot(k) PROVE QuoteRecorded'
  BY <1>17 DEF LockSnapshot, Return, Ends, CallsTyped
<1>18. ASSUME NEW k \in Callers, ChooseSnapshot(k) PROVE QuoteRecorded'
  BY <1>18 DEF ChooseSnapshot, Throws, Ends, CallsTyped
<1>19. ASSUME NEW k \in Callers, LockOnIssue(k) PROVE QuoteRecorded'
  BY <1>19 DEF LockOnIssue, CallsTyped
<1>20. ASSUME NEW k \in Callers, InsertPolicy(k) PROVE QuoteRecorded'
  BY <1>20 DEF InsertPolicy, Return, Ends, CallsTyped
<1>21. ASSUME NEW k \in Callers, InsertPolicyRefused(k) PROVE QuoteRecorded'
  BY <1>21 DEF InsertPolicyRefused, Throws, Ends, CallsTyped
<1>22. ASSUME NEW k \in Callers, CheckCancellable(k) PROVE QuoteRecorded'
  BY <1>22 DEF CheckCancellable, Ends, CallsTyped
<1>23. ASSUME NEW k \in Callers, CheckLapsed(k) PROVE QuoteRecorded'
  BY <1>23 DEF CheckLapsed, Ends, CallsTyped
<1>24. ASSUME NEW k \in Callers, ExpectFrom(k) PROVE QuoteRecorded'
  BY <1>24 DEF ExpectFrom, Ends, CallsTyped
<1>25. ASSUME NEW k \in Callers, UpdatePolicy(k) PROVE QuoteRecorded'
  BY <1>25 DEF UpdatePolicy, Muddles, CallsTyped
<1>26. ASSUME NEW k \in Callers, SavePolicyHistory(k) PROVE QuoteRecorded'
  BY <1>26 DEF SavePolicyHistory, Ends, CallsTyped
<1>27. ASSUME NEW k \in Callers, CallFails(k) PROVE QuoteRecorded'
  BY <1>27 DEF CallFails, Throws, Ends, Happens, CallsTyped
<1>28. ASSUME AttemptTimesOut PROVE QuoteRecorded'
  BY <1>28 DEF AttemptTimesOut, Happens, CallsTyped
<1>29. ASSUME RetriesExhausted PROVE QuoteRecorded'
  BY <1>29 DEF RetriesExhausted, Writes, Does, CallsTyped
<1>30. ASSUME ReviewEnds PROVE QuoteRecorded'
  BY <1>30 DEF ReviewEnds, Writes, Does, CallsTyped
<1>31. ASSUME RunTimesOut PROVE QuoteRecorded'
  BY <1>31 DEF RunTimesOut, Live, Does, Happens, CallsTyped
<1>32. CASE UNCHANGED vars
  BY <1>32 DEF vars
<1> QED
  BY <1>1, <1>2, <1>3, <1>4, <1>5, <1>6, <1>7, <1>8, <1>9, <1>10, <1>11, <1>12, <1>13, <1>14,
      <1>15, <1>16,
     <1>17, <1>18, <1>19, <1>20, <1>21, <1>22, <1>23, <1>24, <1>25, <1>26, <1>27, <1>28, <1>29, <1>30, <1>31, <1>32
  DEF Next, RunStep, QuoteCall, PolicyCall

LEMMA PolicyRecordedKept == Inv /\ [Next]_vars => PolicyRecorded'
<1> SUFFICES ASSUME Inv, [Next]_vars PROVE PolicyRecorded'
  OBVIOUS
<1> USE IssuanceAssumption DEF Inv, GoTo, PolicyRecorded, quoteRow, snapshotRows, policyRow,
    theRun, args, quoteHistory, policyHistory,
        Statements, Methods, RunCalls, StatusStatements, IssueStatements, CheckStatements,
        MoveStatements,
        Approved, InReview, NoSnapshot, Snapshots, Foreign, NoRow, PolicyStatus
<1>1. ASSUME NEW k \in Callers, AttemptStarts(k) PROVE PolicyRecorded'
  BY <1>1 DEF AttemptStarts, Begin, First, Expected, CallsTyped
<1>2. ASSUME NEW k \in Callers, Create(k) PROVE PolicyRecorded'
  BY <1>2 DEF Create, Begin, First, Expected, CallsTyped
<1>3. ASSUME NEW k \in Callers, NEW m \in DeskMethods, DeskCall(k, m) PROVE PolicyRecorded'
  BY <1>3 DEF DeskCall, Begin, First, Expected, Happens, Goals, CallsTyped
<1>4. ASSUME NEW k \in Callers, Insert(k) PROVE PolicyRecorded'
  BY <1>4 DEF Insert, CallsTyped
<1>5. ASSUME NEW k \in Callers, CheckEligibility(k) PROVE PolicyRecorded'
  BY <1>5 DEF CheckEligibility, CallsTyped
<1>6. ASSUME NEW k \in Callers, StartWorkflow(k) PROVE PolicyRecorded'
  BY <1>6 DEF StartWorkflow, Ends, Writes, CallsTyped
<1>7. ASSUME NEW k \in Callers, Link(k) PROVE PolicyRecorded'
  BY <1>7 DEF Link, Ends, CallsTyped
<1>8. ASSUME NEW k \in Callers, CheckDraft(k) PROVE PolicyRecorded'
  BY <1>8 DEF CheckDraft, Ends, CallsTyped
<1>9. ASSUME NEW k \in Callers, CheckOpen(k) PROVE PolicyRecorded'
  BY <1>9 DEF CheckOpen, Ends, Misses, CallsTyped
<1>10. ASSUME NEW k \in Callers, Signal(k) PROVE PolicyRecorded'
  BY <1>10 DEF Signal, Ends, Live, Acknowledges, CallsTyped
<1>11. ASSUME NEW k \in Callers, SignalFails(k) PROVE PolicyRecorded'
  BY <1>11 DEF SignalFails, Misses, CallsTyped
<1>12. ASSUME NEW k \in Callers, FindOrFail(k) PROVE PolicyRecorded'
  BY <1>12 DEF FindOrFail, Updated, Return, Ends, Acknowledges, CallsTyped
<1>13. ASSUME NEW k \in Callers, Update(k) PROVE PolicyRecorded'
  BY <1>13 DEF Update, Muddles, CallsTyped
<1>14. ASSUME NEW k \in Callers, UpdateRefused(k) PROVE PolicyRecorded'
  BY <1>14 DEF UpdateRefused, Throws, Ends, CallsTyped
<1>15. ASSUME NEW k \in Callers, SaveHistory(k) PROVE PolicyRecorded'
  BY <1>15 DEF SaveHistory, Updated, Return, Ends, Acknowledges, CallsTyped
<1>16. ASSUME NEW k \in Callers, InsertSnapshot(k) PROVE PolicyRecorded'
  BY <1>16 DEF InsertSnapshot, Return, Ends, CallsTyped
<1>17. ASSUME NEW k \in Callers, LockSnapshot(k) PROVE PolicyRecorded'
  BY <1>17 DEF LockSnapshot, Return, Ends, CallsTyped
<1>18. ASSUME NEW k \in Callers, ChooseSnapshot(k) PROVE PolicyRecorded'
  BY <1>18 DEF ChooseSnapshot, Throws, Ends, CallsTyped
<1>19. ASSUME NEW k \in Callers, LockOnIssue(k) PROVE PolicyRecorded'
  BY <1>19 DEF LockOnIssue, CallsTyped
<1>20. ASSUME NEW k \in Callers, InsertPolicy(k) PROVE PolicyRecorded'
  BY <1>20 DEF InsertPolicy, Return, Ends, CallsTyped, Moves
<1>21. ASSUME NEW k \in Callers, InsertPolicyRefused(k) PROVE PolicyRecorded'
  BY <1>21 DEF InsertPolicyRefused, Throws, Ends, CallsTyped
<1>22. ASSUME NEW k \in Callers, CheckCancellable(k) PROVE PolicyRecorded'
  BY <1>22 DEF CheckCancellable, Ends, CallsTyped
<1>23. ASSUME NEW k \in Callers, CheckLapsed(k) PROVE PolicyRecorded'
  BY <1>23 DEF CheckLapsed, Ends, CallsTyped
<1>24. ASSUME NEW k \in Callers, ExpectFrom(k) PROVE PolicyRecorded'
  BY <1>24 DEF ExpectFrom, Ends, CallsTyped
<1>25. ASSUME NEW k \in Callers, UpdatePolicy(k) PROVE PolicyRecorded'
  BY <1>25 DEF UpdatePolicy, Muddles, CallsTyped
<1>26. ASSUME NEW k \in Callers, SavePolicyHistory(k) PROVE PolicyRecorded'
  BY <1>26 DEF SavePolicyHistory, Ends, CallsTyped
<1>27. ASSUME NEW k \in Callers, CallFails(k) PROVE PolicyRecorded'
  BY <1>27 DEF CallFails, Throws, Ends, Happens, CallsTyped
<1>28. ASSUME AttemptTimesOut PROVE PolicyRecorded'
  BY <1>28 DEF AttemptTimesOut, Happens, CallsTyped
<1>29. ASSUME RetriesExhausted PROVE PolicyRecorded'
  BY <1>29 DEF RetriesExhausted, Writes, Does, CallsTyped
<1>30. ASSUME ReviewEnds PROVE PolicyRecorded'
  BY <1>30 DEF ReviewEnds, Writes, Does, CallsTyped
<1>31. ASSUME RunTimesOut PROVE PolicyRecorded'
  BY <1>31 DEF RunTimesOut, Live, Does, Happens, CallsTyped
<1>32. CASE UNCHANGED vars
  BY <1>32 DEF vars
<1> QED
  BY <1>1, <1>2, <1>3, <1>4, <1>5, <1>6, <1>7, <1>8, <1>9, <1>10, <1>11, <1>12, <1>13, <1>14,
      <1>15, <1>16,
     <1>17, <1>18, <1>19, <1>20, <1>21, <1>22, <1>23, <1>24, <1>25, <1>26, <1>27, <1>28, <1>29, <1>30, <1>31, <1>32
  DEF Next, RunStep, QuoteCall, PolicyCall

LEMMA ApprovalKept == Inv /\ [Next]_vars => Approval'
<1> SUFFICES ASSUME Inv, [Next]_vars PROVE Approval'
  OBVIOUS
<1> USE IssuanceAssumption DEF Inv, GoTo, Approval, quoteRow, snapshotRows, policyRow, theRun,
    args, quoteHistory, policyHistory,
        Statements, Methods, RunCalls, StatusStatements, IssueStatements, CheckStatements,
        MoveStatements,
        Approved, InReview, NoSnapshot, Snapshots, Foreign, NoRow, PolicyStatus
<1>1. ASSUME NEW k \in Callers, AttemptStarts(k) PROVE Approval'
  BY <1>1, RunMoves DEF AttemptStarts, Begin, First, Expected, CallsTyped, RunTyped,
      RunInStep, Moved
<1>2. ASSUME NEW k \in Callers, Create(k) PROVE Approval'
  BY <1>2 DEF Create, Begin, First, Expected, CallsTyped
<1>3. ASSUME NEW k \in Callers, NEW m \in DeskMethods, DeskCall(k, m) PROVE Approval'
  BY <1>3 DEF DeskCall, Begin, First, Expected, Happens, Goals, CallsTyped
<1>4. ASSUME NEW k \in Callers, Insert(k) PROVE Approval'
  BY <1>4 DEF Insert, CallsTyped
<1>5. ASSUME NEW k \in Callers, CheckEligibility(k) PROVE Approval'
  BY <1>5 DEF CheckEligibility, CallsTyped
<1>6. ASSUME NEW k \in Callers, StartWorkflow(k) PROVE Approval'
  BY <1>6 DEF StartWorkflow, Ends, Writes, CallsTyped
<1>7. ASSUME NEW k \in Callers, Link(k) PROVE Approval'
  BY <1>7 DEF Link, Ends, CallsTyped
<1>8. ASSUME NEW k \in Callers, CheckDraft(k) PROVE Approval'
  BY <1>8 DEF CheckDraft, Ends, CallsTyped
<1>9. ASSUME NEW k \in Callers, CheckOpen(k) PROVE Approval'
  BY <1>9 DEF CheckOpen, Ends, Misses, CallsTyped
<1>10. ASSUME NEW k \in Callers, Signal(k) PROVE Approval'
  BY <1>10 DEF Signal, Ends, Live, Acknowledges, CallsTyped
<1>11. ASSUME NEW k \in Callers, SignalFails(k) PROVE Approval'
  BY <1>11 DEF SignalFails, Misses, CallsTyped
<1>12. ASSUME NEW k \in Callers, FindOrFail(k) PROVE Approval'
  BY <1>12, RunMoves DEF FindOrFail, Updated, Return, Ends, Acknowledges, CallsTyped,
      RunTyped, RunInStep, Moved
<1>13. ASSUME NEW k \in Callers, Update(k) PROVE Approval'
  BY <1>13 DEF Update, Muddles, CallsTyped
<1>14. ASSUME NEW k \in Callers, UpdateRefused(k) PROVE Approval'
  BY <1>14 DEF UpdateRefused, Throws, Ends, CallsTyped
<1>15. ASSUME NEW k \in Callers, SaveHistory(k) PROVE Approval'
  BY <1>15, RunMoves DEF SaveHistory, Updated, Return, Ends, Acknowledges, CallsTyped,
      RunTyped, RunInStep, Moved
<1>16. ASSUME NEW k \in Callers, InsertSnapshot(k) PROVE Approval'
  BY <1>16, RunMoves DEF InsertSnapshot, Return, Ends, CallsTyped, RunTyped, RunInStep, Moved
<1>17. ASSUME NEW k \in Callers, LockSnapshot(k) PROVE Approval'
  BY <1>17, RunMoves DEF LockSnapshot, Return, Ends, CallsTyped, RunTyped, RunInStep, Moved
<1>18. ASSUME NEW k \in Callers, ChooseSnapshot(k) PROVE Approval'
  BY <1>18 DEF ChooseSnapshot, Throws, Ends, CallsTyped
<1>19. ASSUME NEW k \in Callers, LockOnIssue(k) PROVE Approval'
  BY <1>19 DEF LockOnIssue, CallsTyped
<1>20. ASSUME NEW k \in Callers, InsertPolicy(k) PROVE Approval'
  BY <1>20, RunMoves DEF InsertPolicy, Return, Ends, CallsTyped, RunTyped, RunInStep, Moved
<1>21. ASSUME NEW k \in Callers, InsertPolicyRefused(k) PROVE Approval'
  BY <1>21 DEF InsertPolicyRefused, Throws, Ends, CallsTyped
<1>22. ASSUME NEW k \in Callers, CheckCancellable(k) PROVE Approval'
  BY <1>22 DEF CheckCancellable, Ends, CallsTyped
<1>23. ASSUME NEW k \in Callers, CheckLapsed(k) PROVE Approval'
  BY <1>23 DEF CheckLapsed, Ends, CallsTyped
<1>24. ASSUME NEW k \in Callers, ExpectFrom(k) PROVE Approval'
  BY <1>24 DEF ExpectFrom, Ends, CallsTyped
<1>25. ASSUME NEW k \in Callers, UpdatePolicy(k) PROVE Approval'
  BY <1>25 DEF UpdatePolicy, Muddles, CallsTyped
<1>26. ASSUME NEW k \in Callers, SavePolicyHistory(k) PROVE Approval'
  BY <1>26 DEF SavePolicyHistory, Ends, CallsTyped
<1>27. ASSUME NEW k \in Callers, CallFails(k) PROVE Approval'
  BY <1>27 DEF CallFails, Throws, Ends, Happens, CallsTyped
<1>28. ASSUME AttemptTimesOut PROVE Approval'
  BY <1>28 DEF AttemptTimesOut, Happens, CallsTyped
<1>29. ASSUME RetriesExhausted PROVE Approval'
  BY <1>29 DEF RetriesExhausted, Writes, Does, CallsTyped
<1>30. ASSUME ReviewEnds PROVE Approval'
  BY <1>30 DEF ReviewEnds, Writes, Does, CallsTyped
<1>31. ASSUME RunTimesOut PROVE Approval'
  BY <1>31 DEF RunTimesOut, Live, Does, Happens, CallsTyped
<1>32. CASE UNCHANGED vars
  BY <1>32 DEF vars
<1> QED
  BY <1>1, <1>2, <1>3, <1>4, <1>5, <1>6, <1>7, <1>8, <1>9, <1>10, <1>11, <1>12, <1>13, <1>14,
      <1>15, <1>16,
     <1>17, <1>18, <1>19, <1>20, <1>21, <1>22, <1>23, <1>24, <1>25, <1>26, <1>27, <1>28, <1>29, <1>30, <1>31, <1>32
  DEF Next, RunStep, QuoteCall, PolicyCall

LEMMA CancellationKept == Inv /\ [Next]_vars => Cancellation'
<1> SUFFICES ASSUME Inv, [Next]_vars PROVE Cancellation'
  OBVIOUS
<1> USE IssuanceAssumption DEF Inv, GoTo, Cancellation, quoteRow, snapshotRows, policyRow,
    theRun, args, quoteHistory, policyHistory,
        Statements, Methods, RunCalls, StatusStatements, IssueStatements, CheckStatements,
        MoveStatements,
        Approved, InReview, NoSnapshot, Snapshots, Foreign, NoRow, PolicyStatus
<1>1. ASSUME NEW k \in Callers, AttemptStarts(k) PROVE Cancellation'
  BY <1>1 DEF AttemptStarts, Begin, First, Expected, CallsTyped
<1>2. ASSUME NEW k \in Callers, Create(k) PROVE Cancellation'
  BY <1>2 DEF Create, Begin, First, Expected, CallsTyped
<1>3. ASSUME NEW k \in Callers, NEW m \in DeskMethods, DeskCall(k, m) PROVE Cancellation'
  BY <1>3 DEF DeskCall, Begin, First, Expected, Happens, Goals, CallsTyped
<1>4. ASSUME NEW k \in Callers, Insert(k) PROVE Cancellation'
  BY <1>4 DEF Insert, CallsTyped
<1>5. ASSUME NEW k \in Callers, CheckEligibility(k) PROVE Cancellation'
  BY <1>5 DEF CheckEligibility, CallsTyped, Placed
<1>6. ASSUME NEW k \in Callers, StartWorkflow(k) PROVE Cancellation'
  BY <1>6 DEF StartWorkflow, Ends, Writes, CallsTyped, Placed, RowsTyped, Created, RunInStep
<1>7. ASSUME NEW k \in Callers, Link(k) PROVE Cancellation'
  BY <1>7 DEF Link, Ends, CallsTyped
<1>8. ASSUME NEW k \in Callers, CheckDraft(k) PROVE Cancellation'
  BY <1>8 DEF CheckDraft, Ends, CallsTyped, Placed
<1>9. ASSUME NEW k \in Callers, CheckOpen(k) PROVE Cancellation'
  <2>1. method[k] = "cancel"
    BY <1>9 DEF CheckOpen, Placed
  <2>2. CASE ~Misses
    BY <1>9, <2>1, <2>2 DEF CheckOpen, Ends, CallsTyped
  <2>3. CASE Misses
    <3>1. (missed => missed') /\ (missed' \/ run = "ended")
      BY <2>3, Zenon DEF Misses
    <3> QED
      BY <1>9, <2>1, <3>1 DEF CheckOpen, Ends, CallsTyped
  <2> QED
    BY <2>2, <2>3
<1>10. ASSUME NEW k \in Callers, Signal(k) PROVE Cancellation'
  BY <1>10 DEF Signal, Ends, Live, Acknowledges, CallsTyped
<1>11. ASSUME NEW k \in Callers, SignalFails(k) PROVE Cancellation'
  BY <1>11 DEF SignalFails, Misses, CallsTyped
<1>12. ASSUME NEW k \in Callers, FindOrFail(k) PROVE Cancellation'
  <2>1. CASE quoteStatus = goal[k] /\ method[k] = "cancel"
    <3>1. attempt # k
      BY <2>1 DEF RunInStep
    <3>2. (missed \/ run = "ended") /\ UNCHANGED <<missed, run, isCancelled, approvalTaken>>
      BY <1>12, <2>1, <3>1 DEF FindOrFail, Updated, Return
    <3>3. cancelledInTime' => cancelledInTime \/ ~approvalTaken
      BY <1>12, <2>1, Zenon DEF FindOrFail, Updated, Acknowledges
    <3> QED
      BY <1>12, <2>1, <3>2, <3>3 DEF FindOrFail, Updated, Return, Ends, CallsTyped
  <2>2. CASE quoteStatus = goal[k] /\ method[k] # "cancel"
    BY <1>12, <2>2, RunMoves DEF FindOrFail, Updated, Return, Ends, CallsTyped, RunTyped,
        RunInStep, Moved
  <2>3. CASE quoteStatus # goal[k]
    BY <1>12, <2>3 DEF FindOrFail, CallsTyped
  <2> QED
    BY <2>1, <2>2, <2>3
<1>13. ASSUME NEW k \in Callers, Update(k) PROVE Cancellation'
  BY <1>13 DEF Update, Muddles, CallsTyped
<1>14. ASSUME NEW k \in Callers, UpdateRefused(k) PROVE Cancellation'
  BY <1>14 DEF UpdateRefused, Throws, Ends, CallsTyped
<1>15. ASSUME NEW k \in Callers, SaveHistory(k) PROVE Cancellation'
  BY <1>15, RunMoves DEF SaveHistory, Updated, Return, Ends, Acknowledges, CallsTyped,
      RunTyped, RunInStep, Moved
<1>16. ASSUME NEW k \in Callers, InsertSnapshot(k) PROVE Cancellation'
  BY <1>16, RunMoves DEF InsertSnapshot, Return, Ends, CallsTyped, RunTyped, RunInStep, Moved
<1>17. ASSUME NEW k \in Callers, LockSnapshot(k) PROVE Cancellation'
  BY <1>17, RunMoves DEF LockSnapshot, Return, Ends, CallsTyped, RunTyped, RunInStep, Moved
<1>18. ASSUME NEW k \in Callers, ChooseSnapshot(k) PROVE Cancellation'
  BY <1>18 DEF ChooseSnapshot, Throws, Ends, CallsTyped
<1>19. ASSUME NEW k \in Callers, LockOnIssue(k) PROVE Cancellation'
  BY <1>19 DEF LockOnIssue, CallsTyped
<1>20. ASSUME NEW k \in Callers, InsertPolicy(k) PROVE Cancellation'
  BY <1>20, RunMoves DEF InsertPolicy, Return, Ends, CallsTyped, RunTyped, RunInStep, Moved
<1>21. ASSUME NEW k \in Callers, InsertPolicyRefused(k) PROVE Cancellation'
  BY <1>21 DEF InsertPolicyRefused, Throws, Ends, CallsTyped
<1>22. ASSUME NEW k \in Callers, CheckCancellable(k) PROVE Cancellation'
  BY <1>22 DEF CheckCancellable, Ends, CallsTyped
<1>23. ASSUME NEW k \in Callers, CheckLapsed(k) PROVE Cancellation'
  BY <1>23 DEF CheckLapsed, Ends, CallsTyped
<1>24. ASSUME NEW k \in Callers, ExpectFrom(k) PROVE Cancellation'
  BY <1>24 DEF ExpectFrom, Ends, CallsTyped
<1>25. ASSUME NEW k \in Callers, UpdatePolicy(k) PROVE Cancellation'
  BY <1>25 DEF UpdatePolicy, Muddles, CallsTyped
<1>26. ASSUME NEW k \in Callers, SavePolicyHistory(k) PROVE Cancellation'
  BY <1>26 DEF SavePolicyHistory, Ends, CallsTyped
<1>27. ASSUME NEW k \in Callers, CallFails(k) PROVE Cancellation'
  BY <1>27 DEF CallFails, Throws, Ends, Happens, CallsTyped
<1>28. ASSUME AttemptTimesOut PROVE Cancellation'
  BY <1>28 DEF AttemptTimesOut, Happens, CallsTyped
<1>29. ASSUME RetriesExhausted PROVE Cancellation'
  BY <1>29 DEF RetriesExhausted, Writes, Does, CallsTyped
<1>30. ASSUME ReviewEnds PROVE Cancellation'
  BY <1>30 DEF ReviewEnds, Writes, Does, CallsTyped
<1>31. ASSUME RunTimesOut PROVE Cancellation'
  BY <1>31 DEF RunTimesOut, Live, Does, Happens, CallsTyped
<1>32. CASE UNCHANGED vars
  BY <1>32 DEF vars
<1> QED
  BY <1>1, <1>2, <1>3, <1>4, <1>5, <1>6, <1>7, <1>8, <1>9, <1>10, <1>11, <1>12, <1>13, <1>14,
      <1>15, <1>16,
     <1>17, <1>18, <1>19, <1>20, <1>21, <1>22, <1>23, <1>24, <1>25, <1>26, <1>27, <1>28, <1>29, <1>30, <1>31, <1>32
  DEF Next, RunStep, QuoteCall, PolicyCall

-----------------------------------------------------------------------------
LEMMA InitInv == Init => Inv
<1> SUFFICES ASSUME Init PROVE Inv
  OBVIOUS
<1> USE IssuanceAssumption, StatusNames
    DEF Init, Statements, Methods, RunCalls, Snapshots, Foreign, NoSnapshot, NoRow, PolicyStatus,
        StatusStatements, IssueStatements, CheckStatements, MoveStatements, Priced, InReview,
        Approved
<1>1. CallsTyped
  BY DEF CallsTyped
<1>2. RunTyped /\ FlagsTyped
  BY DEF RunTyped, FlagsTyped
<1>5. RowsTyped
  <2>1. 0 \in 0..MaxSnapshots
    OBVIOUS
  <2> QED
    BY <2>1 DEF RowsTyped
<1>3. Placed /\ RunInStep /\ Created /\ Issued /\ Backed
  BY DEF Placed, RunInStep, Created, Issued, Backed
<1>4. Moves /\ QuoteRecorded /\ PolicyRecorded /\ Approval /\ Cancellation
  BY DEF Moves, QuoteRecorded, PolicyRecorded, Approval, Cancellation
<1> QED
  BY <1>1, <1>2, <1>3, <1>4, <1>5 DEF Inv

LEMMA InvKept == Inv /\ [Next]_vars => Inv'
BY CallsTypedKept, RunTypedKept, RowsTypedKept, FlagsTypedKept, PlacedKept, RunInStepKept,
    CreatedKept,
   IssuedKept, BackedKept, MovesKept, QuoteRecordedKept, PolicyRecordedKept, ApprovalKept,
   CancellationKept
DEF Inv

THEOREM Invariance == Spec => []Inv
<1> QED
  BY InitInv, InvKept, PTL DEF Spec

\* Every variable keeps its type.
THEOREM TypeCorrect == Spec => []TypeOK
<1>1. Inv => TypeOK
  BY DEF Inv, CallsTyped, RunTyped, RowsTyped, FlagsTyped, TypeOK
<1> QED
  BY <1>1, Invariance, PTL

\* A policy is always on a locked snapshot, and a quote called ISSUED has its policy.
THEOREM PolicyBackedHolds == Spec => []PolicyBacked
<1>1. Inv => PolicyBacked
  BY DEF Inv, Backed, Issued, PolicyBacked
<1> QED
  BY <1>1, Invariance, PTL

\* A cancellation acknowledged before the approval keeps the run from issuing, unless it
\* was written past the run.
THEOREM CancellationHeardHolds == Spec => []CancellationHeard
<1>1. Inv => CancellationHeard
  BY DEF Inv, Approval, Cancellation, CancellationHeard
<1> QED
  BY <1>1, Invariance, PTL

\* The histories say what the statuses are, unless updates overlapped or died.
THEOREM HistoriesAgreeHolds == Spec => []HistoriesAgree
<1>1. Inv => HistoriesAgree
  BY DEF Inv, QuoteRecorded, PolicyRecorded, HistoriesAgree
<1> QED
  BY <1>1, Invariance, PTL

\* The policy leaves its lifecycle only by a call that another has overtaken.
THEOREM LifecycleFollowed == Spec => FollowsLifecycle
<1> DEFINE Allowed ==
        \/ policyStatus' \in PolicyLifecycle[policyStatus]
        \/ \E k \in overtaken : pc[k] = "updatePolicy" /\ pc'[k] # "updatePolicy"
<1>1. Inv /\ [Next]_vars => [Allowed]_policyStatus
  <2> SUFFICES ASSUME Inv, [Next]_vars, policyStatus' # policyStatus PROVE Allowed
    OBVIOUS
  <2>1. ASSUME NEW k \in Callers, InsertPolicy(k) PROVE Allowed
    BY <2>1 DEF InsertPolicy, PolicyLifecycle, NoRow
  <2>2. ASSUME NEW k \in Callers, UpdatePolicy(k) PROVE Allowed
    <3>1. pc[k] = "updatePolicy" /\ pc'[k] # "updatePolicy" /\ policyStatus' = goal[k]
      BY <2>2 DEF Inv, CallsTyped, UpdatePolicy, GoTo
    <3>2. CASE k \notin overtaken
      BY <3>1, <3>2 DEF Inv, Moves, MoveStatements, PolicyLifecycle
    <3> QED
      BY <3>1, <3>2
  <2>3. UNCHANGED vars => UNCHANGED policyStatus
    BY DEF vars, policyRow
  <2>4. PICK k \in Callers : InsertPolicy(k) \/ UpdatePolicy(k)
    BY <2>3 DEF Next, RunStep, QuoteCall, PolicyCall, policyRow, AttemptStarts, Create, DeskCall,
        Insert, CheckEligibility, StartWorkflow, Link, CheckDraft, CheckOpen, Signal, SignalFails,
        FindOrFail, Update, UpdateRefused, SaveHistory, InsertSnapshot, LockSnapshot,
        ChooseSnapshot, LockOnIssue, InsertPolicyRefused, CheckCancellable, CheckLapsed,
        ExpectFrom, SavePolicyHistory, CallFails, AttemptTimesOut, RetriesExhausted, ReviewEnds,
        RunTimesOut
  <2> QED
    BY <2>1, <2>2, <2>4
<1> QED
  BY <1>1, Invariance, PTL DEF Spec, FollowsLifecycle
=============================================================================
