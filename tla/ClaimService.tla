--------------------------- MODULE ClaimService ----------------------------
(***************************************************************************)
(* The claims of one coverage of one policy: submission, the duplicate     *)
(* check, and every writer of a claim's row, as overlapping calls execute  *)
(* them, src/src/modules/claim/services/claim.service.ts.                  *)
(*                                                                         *)
(* A claim's workflow run calls the service through activities.  It is     *)
(* taken at the level of its contract: it calls what its last status calls *)
(* for, and writes statuses in the order of ClaimLifecycle (which          *)
(* ClaimWorkflow is shown to do).  An attempt of an activity that times    *)
(* out goes on running while it is repeated.  The claims desk calls the    *)
(* same methods over REST.  No call runs in a transaction: every database  *)
(* statement and every signal is a step, and a call may fail before any.   *)
(***************************************************************************)
EXTENDS Integers, FiniteSets, ClaimLifecycle

CONSTANTS
    Claims,             \* claims that may be submitted, all on one coverage
    lossDay,            \* loss_date of each claim, in days
    Callers,            \* calls that may be in progress at once
    Columns,            \* definitions the column claims.status may have
    Written,            \* per claim, the statuses its run is explored to write
    DeskMethods,        \* per claim, what the claims desk is explored to call
    MaxDeskCalls,       \* bound on the calls of the claims desk
    MaxFaults,          \* bound on calls that fail, and on attempts and runs that time out
    Nobody

ASSUME ClaimServiceAssumption ==
    /\ lossDay \in [Claims -> Int]
    /\ Columns \subseteq SUBSET (ClaimStatus \cup ClaimWorkflowStatus)
    /\ \A col \in Columns : ClaimStatus \subseteq col
    /\ DeskMethods \in [Claims -> SUBSET {"investigate", "assess"}]
    /\ MaxDeskCalls \in Nat /\ MaxFaults \in Nat
    /\ Nobody \notin Callers \cup Claims

\* const windowDays = 7, and MAX_REOPEN_COUNT
Window == 7
MAX_REOPEN_COUNT == 3

NoRow == "none"

\* A claim in one of these states is no duplicate of anything.
Over == {"REJECTED", "WITHDRAWN", "CLOSED"}

VARIABLES
    column,             \* the statuses claims.status accepts
    \* per claim: its row, and whether none, one or more payout requests were made for it
    status, reopenCount, requests,
    \* per claim: the workflow run
    run,                \* what the run is doing
    target,             \* the status it wrote last or is writing
    attempt,            \* the call that serves its activity; Nobody before the next attempt
    signalled,          \* claims with an assessment in the run's signal buffer
    \* per call: the statement it executes next, and what it was given or has read
    pc, method, claim, goal, seenCount, found,
    \* history
    deskCalls, faults,
    latest,             \* to_status of the last claim_status_history row
    muddled,            \* claims with overlapping updates, or one that died before its row
    wasOver,            \* claims that have been rejected, withdrawn or closed
    clean,              \* claims a run's duplicate check found no duplicate of
    raced,              \* <<c, d>>: d was between check and insert when c was checked
    disrupted,          \* claims with a signal that failed, or an attempt that did or timed out
    financed,           \* claims whose run has reached the finance review
    reopens, reopenRace \* reopenings written; claims on which two of them overlapped

rows == <<status, reopenCount, requests>>
runs == <<run, target, attempt, signalled>>
args == <<method, claim, goal, seenCount, found>>
rowHistory == <<latest, muddled, wasOver>>
claimHistory == <<clean, raced, financed>>
reopenHistory == <<reopens, reopenRace>>
counters == <<deskCalls, faults>>
history == <<counters, rowHistory, claimHistory, disrupted, reopenHistory>>
vars == <<column, rows, runs, pc, args, history>>

\* What a run does while it has an activity called
RunCalls == {"update", "validate", "investigate", "assess", "requestPayout", "reopen"}

Statements ==
    {"idle", "checkDuplicate", "insert", "startWorkflow", "findOrFail", "update",
     "saveHistory", "findDuplicate", "recordValidation", "signal", "createPayoutRequest",
     "readCount", "updateReopened"}

Init ==
    /\ column \in Columns
    /\ status = [c \in Claims |-> NoRow]
    /\ reopenCount = [c \in Claims |-> 0] /\ requests = [c \in Claims |-> 0]
    /\ run = [c \in Claims |-> "none"] /\ target = [c \in Claims |-> "SUBMITTED"]
    /\ attempt = [c \in Claims |-> Nobody] /\ signalled = {}
    /\ pc = [k \in Callers |-> "idle"] /\ method = [k \in Callers |-> "none"]
    /\ claim = [k \in Callers |-> Nobody] /\ goal = [k \in Callers |-> "SUBMITTED"]
    /\ seenCount = [k \in Callers |-> 0] /\ found = [k \in Callers |-> FALSE]
    /\ deskCalls = 0 /\ faults = 0 /\ latest = [c \in Claims |-> "SUBMITTED"]
    /\ muddled = {} /\ wasOver = {} /\ clean = {} /\ raced = {} /\ financed = {}
    /\ disrupted = {} /\ reopens = [c \in Claims |-> 0] /\ reopenRace = {}

-----------------------------------------------------------------------------
(* Helpers.  A Fault... operator is the definition that follows it with a mistake in   *)
(* it; nothing refers to one, the mutation checks put it in place.                     *)

\* loss_date BETWEEN :from AND :to, which holds at both ends
Near(c, d) == lossDay[d] - lossDay[c] <= Window /\ lossDay[c] - lossDay[d] <= Window

FaultDuplicates(c) ==
    {d \in Claims \ {c} :
        /\ status[d] \notin Over \cup {NoRow}
        /\ lossDay[d] - lossDay[c] < Window /\ lossDay[c] - lossDay[d] < Window}

\* checkDuplicate
Duplicates(c) ==
    {d \in Claims \ {c} : status[d] \notin Over \cup {NoRow} /\ Near(c, d)}

\* The statement a method starts with.  Rows of validations, investigations and
\* assessments are inserted only and read by nothing here: their inserts are left out.
First ==
    [submit |-> "checkDuplicate", update |-> "findOrFail", validate |-> "findDuplicate",
     investigate |-> "signal", assess |-> "signal", requestPayout |-> "createPayoutRequest",
     reopen |-> "readCount"]

Begin(k, m, c, s) ==
    /\ pc[k] = "idle"
    /\ pc' = [pc EXCEPT ![k] = First[m]]
    /\ method' = [method EXCEPT ![k] = m]
    /\ claim' = [claim EXCEPT ![k] = c]
    /\ goal' = [goal EXCEPT ![k] = s]
    /\ UNCHANGED <<seenCount, found>>

GoTo(k, l) == pc' = [pc EXCEPT ![k] = l]

\* The call is over and its locals are gone.
Ends(k) ==
    /\ GoTo(k, "idle")
    /\ method' = [method EXCEPT ![k] = "none"]
    /\ claim' = [claim EXCEPT ![k] = Nobody]
    /\ goal' = [goal EXCEPT ![k] = "SUBMITTED"]
    /\ seenCount' = [seenCount EXCEPT ![k] = 0]
    /\ found' = [found EXCEPT ![k] = FALSE]

-----------------------------------------------------------------------------
(* The run, between two activities                                         *)

\* The run has its next status written.
Writes(c, s) ==
    /\ run' = [run EXCEPT ![c] = "update"]
    /\ target' = [target EXCEPT ![c] = s]
    /\ UNCHANGED <<signalled, financed>>

\* The run goes on to something else than a status.
Does(c, what) ==
    /\ run' = [run EXCEPT ![c] = what]
    /\ UNCHANGED target

NextStatuses(c) == Lifecycle[target[c]] \cap Written[c]

\* What the run has to do in a status.  The rest of its way is a write of the next one.
Work ==
    [VALIDATION_PENDING |-> "validate", UNDER_INVESTIGATION |-> "investigate",
     ASSESSMENT |-> "awaitAssessment", FINANCE_REVIEW |-> "requestPayout",
     CLOSED |-> "reopen"]

\* The status is written: the run goes on, ends, or honours a withdrawal.  The buffer
\* of an assessment is emptied before one is waited for.
StatusWritten(c) ==
    \/ /\ target[c] \in DOMAIN Work
       /\ Does(c, Work[target[c]])
       /\ signalled' = IF target[c] = "ASSESSMENT" THEN signalled \ {c} ELSE signalled
       /\ financed' = IF target[c] = "FINANCE_REVIEW" THEN financed \cup {c} ELSE financed
    \/ /\ target[c] \notin DOMAIN Work \cup {"WITHDRAWN"}
       /\ \E s \in NextStatuses(c) : Writes(c, s)
    \/ target[c] \in DOMAIN Work \ {"CLOSED"} /\ Writes(c, "WITHDRAWN")
    \/ /\ target[c] \in {"CLOSED", "WITHDRAWN"}
       /\ Does(c, "ended") /\ UNCHANGED <<signalled, financed>>

\* The attempt the run waits for has succeeded.
Succeeds(c, duplicate) ==
    \/ run[c] = "update" /\ StatusWritten(c)
    \/ /\ run[c] = "validate"
       /\ \E s \in NextStatuses(c) :
              (duplicate => s = "VALIDATION_FAILED") /\ Writes(c, s)
    \/ /\ run[c] \in {"investigate", "assess", "requestPayout"}
       /\ \E s \in NextStatuses(c) : Writes(c, s)
    \/ /\ run[c] = "reopen"
       /\ Does(c, "ended") /\ UNCHANGED <<signalled, financed>>

\* The call returns.  A run goes on only if it still waits for this attempt.
Return(k) ==
    /\ Ends(k)
    /\ IF attempt[claim[k]] = k
       THEN /\ Succeeds(claim[k], found[k])
            /\ attempt' = [attempt EXCEPT ![claim[k]] = Nobody]
       ELSE UNCHANGED <<runs, financed>>

\* One of the failures explored
Strikes == faults < MaxFaults /\ faults' = faults + 1 /\ UNCHANGED deskCalls

\* The activity's worker starts an attempt.
AttemptStarts(k, c) ==
    /\ run[c] \in RunCalls /\ attempt[c] = Nobody
    /\ Begin(k, run[c], c, target[c])
    /\ attempt' = [attempt EXCEPT ![c] = k]
    /\ UNCHANGED <<column, rows, run, target, signalled, history>>

\* startToCloseTimeout: the attempt goes on, but nobody waits for it.
AttemptTimesOut(c) ==
    /\ attempt[c] # Nobody /\ Strikes
    /\ attempt' = [attempt EXCEPT ![c] = Nobody]
    /\ disrupted' = disrupted \cup {c}
    /\ UNCHANGED <<column, rows, run, target, signalled, pc, args,
                   rowHistory, claimHistory, reopenHistory>>

\* maximumAttempts: the catch block writes WITHDRAWN, and gives up if that fails too.
RetriesExhausted(c) ==
    /\ run[c] \in RunCalls /\ attempt[c] = Nobody
    /\ IF run[c] = "update" /\ target[c] = "WITHDRAWN"
       THEN Does(c, "ended") /\ UNCHANGED <<signalled, financed>>
       ELSE Writes(c, "WITHDRAWN")
    /\ UNCHANGED <<column, rows, attempt, pc, args, counters, rowHistory, clean,
                   raced, disrupted, reopenHistory>>

\* The wait for an assessment ends with one, with the timer, or with a withdrawal.
AssessmentAwaited(c) ==
    /\ run[c] = "awaitAssessment"
    /\ \/ c \in signalled /\ Does(c, "assess") /\ UNCHANGED <<signalled, financed>>
       \/ c \notin signalled /\ Writes(c, "REJECTED")
       \/ Writes(c, "WITHDRAWN")
    /\ UNCHANGED <<column, rows, attempt, pc, args, counters, rowHistory, clean,
                   raced, disrupted, reopenHistory>>

\* workflowExecutionTimeout
RunTimesOut(c) ==
    /\ run[c] \notin {"none", "ended"} /\ Strikes
    /\ Does(c, "ended")
    /\ attempt' = [attempt EXCEPT ![c] = Nobody]
    /\ UNCHANGED <<column, rows, signalled, pc, args, rowHistory, claimHistory,
                   disrupted, reopenHistory>>

-----------------------------------------------------------------------------
(* submitClaim                                                             *)

\* The checks of policy, coverage and sum insured come first; a claim they refuse changes
\* nothing and is left out.
Submit(k, c) ==
    /\ status[c] = NoRow
    /\ \A j \in Callers : claim[j] # c
    /\ Begin(k, "submit", c, "SUBMITTED")
    /\ UNCHANGED <<column, rows, runs, history>>

\* A duplicate ends the call.
CheckDuplicate(k) ==
    /\ pc[k] = "checkDuplicate"
    /\ IF Duplicates(claim[k]) = {}
       THEN GoTo(k, "insert") /\ UNCHANGED args
       ELSE Ends(k)
    /\ raced' = raced \cup
           {<<claim[k], claim[j]>> : j \in {j \in Callers \ {k} : pc[j] = "insert"}}
    /\ UNCHANGED <<column, rows, runs, counters, rowHistory, clean, financed,
                   disrupted, reopenHistory>>

Insert(k) ==
    /\ pc[k] = "insert"
    /\ status' = [status EXCEPT ![claim[k]] = "SUBMITTED"]
    /\ GoTo(k, "startWorkflow")
    /\ UNCHANGED <<column, reopenCount, requests, runs, args, history>>

\* A failure to start the run is logged, and the claim stays without one.  The update
\* of temporal_workflow_id that follows is left out: no code reads the column.
StartWorkflow(k) ==
    /\ pc[k] = "startWorkflow"
    /\ \/ /\ run' = [run EXCEPT ![claim[k]] = "update"]
          /\ target' = [target EXCEPT ![claim[k]] = "VALIDATION_PENDING"]
       \/ UNCHANGED <<run, target>>
    /\ Ends(k)
    /\ UNCHANGED <<column, rows, attempt, signalled, history>>

-----------------------------------------------------------------------------
(* updateStatus                                                            *)

\* What follows an update: the fallback of createAssessment makes a payout request,
\* any other call returns.
AfterUpdate(k) ==
    IF method[k] = "assess"
    THEN GoTo(k, "createPayoutRequest") /\ UNCHANGED <<args, runs, financed>>
    ELSE Return(k)

FindOrFail(k) ==
    /\ pc[k] = "findOrFail"
    /\ IF status[claim[k]] = goal[k]
       THEN AfterUpdate(k)
       ELSE GoTo(k, "update") /\ UNCHANGED <<args, runs, financed>>
    /\ UNCHANGED <<column, rows, counters, rowHistory, clean, raced, disrupted,
                   reopenHistory>>

\* The column refuses a status it does not have; CallFails is what the call does then.
Update(k) ==
    /\ pc[k] = "update" /\ goal[k] \in column
    /\ status' = [status EXCEPT ![claim[k]] = goal[k]]
    /\ GoTo(k, "saveHistory")
    /\ wasOver' = IF goal[k] \in Over THEN wasOver \cup {claim[k]} ELSE wasOver
    /\ muddled' = IF \E j \in Callers \ {k} : pc[j] = "saveHistory" /\ claim[j] = claim[k]
                  THEN muddled \cup {claim[k]} ELSE muddled
    /\ UNCHANGED <<column, reopenCount, requests, runs, args, counters, latest,
                   claimHistory, disrupted, reopenHistory>>

FaultSaveHistory(k) ==
    /\ pc[k] = "saveHistory"
    /\ AfterUpdate(k)
    /\ UNCHANGED <<column, rows, counters, rowHistory, clean, raced,
                   disrupted, reopenHistory>>

SaveHistory(k) ==
    /\ pc[k] = "saveHistory"
    /\ latest' = [latest EXCEPT ![claim[k]] = goal[k]]
    /\ AfterUpdate(k)
    /\ UNCHANGED <<column, rows, counters, muddled, wasOver, clean, raced,
                   disrupted, reopenHistory>>

-----------------------------------------------------------------------------
(* The duplicate check of a run                                            *)

FindDuplicate(k) ==
    /\ pc[k] = "findDuplicate"
    /\ found' = [found EXCEPT ![k] = Duplicates(claim[k]) # {}]
    /\ clean' = IF found'[k] THEN clean ELSE clean \cup {claim[k]}
    /\ GoTo(k, "recordValidation")
    /\ UNCHANGED <<column, rows, runs, method, claim, goal, seenCount, counters,
                   rowHistory, raced, financed, disrupted, reopenHistory>>

RecordValidation(k) ==
    /\ pc[k] = "recordValidation"
    /\ Return(k)
    /\ UNCHANGED <<column, rows, counters, rowHistory, clean, raced, disrupted,
                   reopenHistory>>

-----------------------------------------------------------------------------
(* createInvestigation, createAssessment, createPayoutRequest, reopen      *)

\* POST /claims/:id/investigate and /assess, whatever state the claim is in
DeskCall(k, m, c) ==
    /\ deskCalls < MaxDeskCalls /\ status[c] # NoRow
    /\ Begin(k, m, c, "SUBMITTED")
    /\ deskCalls' = deskCalls + 1
    /\ UNCHANGED <<column, rows, runs, faults, rowHistory, claimHistory, disrupted,
                   reopenHistory>>

FaultSignal(k) ==
    /\ pc[k] = "signal" /\ run[claim[k]] \notin {"none", "ended"}
    /\ IF method[k] = "assess"
       THEN GoTo(k, "createPayoutRequest") /\ UNCHANGED <<args, runs, financed>>
       ELSE Return(k)
    /\ UNCHANGED <<column, rows, counters, rowHistory, clean, raced, disrupted,
                   reopenHistory>>

\* handle.signal reaches a run that has not ended.  The call then returns, to the run
\* itself when it serves one of its activities.
Signal(k) ==
    /\ pc[k] = "signal" /\ run[claim[k]] \notin {"none", "ended"}
    /\ Ends(k)
    /\ IF attempt[claim[k]] = k
       THEN /\ Succeeds(claim[k], FALSE)
            /\ attempt' = [attempt EXCEPT ![claim[k]] = Nobody]
       ELSE /\ signalled' = IF method[k] = "assess" THEN signalled \cup {claim[k]} ELSE signalled
            /\ UNCHANGED <<run, target, attempt, financed>>
    /\ UNCHANGED <<column, rows, counters, rowHistory, clean, raced, disrupted,
                   reopenHistory>>

FaultSignalFails(k) ==
    /\ pc[k] = "signal"
    /\ goal' = [goal EXCEPT ![k] = "ASSESSMENT_DONE"]
    /\ GoTo(k, "findOrFail")
    /\ disrupted' = disrupted \cup {claim[k]}
    /\ UNCHANGED <<column, rows, runs, method, claim, seenCount, found, counters,
                   rowHistory, claimHistory, reopenHistory>>

\* It throws: there is no such run, or it cannot be reached.  The status is written in
\* the run's place.
SignalFails(k) ==
    /\ pc[k] = "signal"
    /\ goal' = [goal EXCEPT ![k] =
                    IF method[k] = "assess" THEN "ASSESSED" ELSE "UNDER_INVESTIGATION"]
    /\ GoTo(k, "findOrFail")
    /\ disrupted' = disrupted \cup {claim[k]}
    /\ UNCHANGED <<column, rows, runs, method, claim, seenCount, found, counters,
                   rowHistory, claimHistory, reopenHistory>>

CreatePayoutRequest(k) ==
    /\ pc[k] = "createPayoutRequest"
    /\ requests' = [requests EXCEPT ![claim[k]] = IF @ = 0 THEN 1 ELSE 2]
    /\ Return(k)
    /\ UNCHANGED <<column, status, reopenCount, counters, rowHistory, clean, raced,
                   disrupted, reopenHistory>>

\* The fallback swallows the error of createPayoutRequest.
FallbackRequestFails(k) ==
    /\ pc[k] = "createPayoutRequest" /\ method[k] = "assess"
    /\ Return(k)
    /\ UNCHANGED <<column, rows, counters, rowHistory, clean, raced, disrupted,
                   reopenHistory>>

ReadCount(k) ==
    /\ pc[k] = "readCount" /\ reopenCount[claim[k]] < MAX_REOPEN_COUNT
    /\ seenCount' = [seenCount EXCEPT ![k] = reopenCount[claim[k]]]
    /\ GoTo(k, "updateReopened")
    /\ reopenRace' =
           IF \E j \in Callers \ {k} : pc[j] = "updateReopened" /\ claim[j] = claim[k]
           THEN reopenRace \cup {claim[k]} ELSE reopenRace
    /\ UNCHANGED <<column, rows, runs, method, claim, goal, found, counters,
                   rowHistory, claimHistory, disrupted, reopens>>

FaultUpdateReopened(k) ==
    /\ pc[k] = "updateReopened"
    /\ status' = [status EXCEPT ![claim[k]] = "REOPENED"]
    /\ reopenCount' = [reopenCount EXCEPT ![claim[k]] = seenCount[k]]
    /\ reopens' = [reopens EXCEPT ![claim[k]] = @ + 1]
    /\ Return(k)
    /\ UNCHANGED <<column, requests, counters, rowHistory, clean, raced, disrupted,
                   reopenRace>>

\* Status and counter in one statement, and no claim_status_history row
UpdateReopened(k) ==
    /\ pc[k] = "updateReopened"
    /\ status' = [status EXCEPT ![claim[k]] = "REOPENED"]
    /\ reopenCount' = [reopenCount EXCEPT ![claim[k]] = seenCount[k] + 1]
    /\ reopens' = [reopens EXCEPT ![claim[k]] = @ + 1]
    /\ Return(k)
    /\ UNCHANGED <<column, requests, counters, rowHistory, clean, raced, disrupted,
                   reopenRace>>

\* A call fails: a statement is refused, the connection or the process is lost, or the
\* reopen limit is reached.  An attempt that fails is left to its retry policy.
CallFails(k) ==
    /\ pc[k] # "idle" /\ Strikes
    /\ Ends(k)
    /\ IF attempt[claim[k]] = k
       THEN attempt' = [attempt EXCEPT ![claim[k]] = Nobody]
       ELSE UNCHANGED attempt
    /\ muddled' = IF pc[k] = "saveHistory" THEN muddled \cup {claim[k]} ELSE muddled
    /\ disrupted' = disrupted \cup {claim[k]}
    /\ UNCHANGED <<column, rows, run, target, signalled, latest, wasOver,
                   claimHistory, reopenHistory>>

-----------------------------------------------------------------------------
RunStep(c) ==
    \/ \E k \in Callers : AttemptStarts(k, c)
    \/ AttemptTimesOut(c) \/ RetriesExhausted(c) \/ AssessmentAwaited(c) \/ RunTimesOut(c)

Request(k) ==
    \E c \in Claims :
        \/ Submit(k, c)
        \/ \E m \in DeskMethods[c] : DeskCall(k, m, c)

CallStep(k) ==
    \/ CheckDuplicate(k) \/ Insert(k) \/ StartWorkflow(k)
    \/ FindOrFail(k) \/ Update(k) \/ SaveHistory(k)
    \/ FindDuplicate(k) \/ RecordValidation(k)
    \/ Signal(k) \/ SignalFails(k) \/ CreatePayoutRequest(k) \/ FallbackRequestFails(k)
    \/ ReadCount(k) \/ UpdateReopened(k)
    \/ CallFails(k)

Next ==
    \/ \E c \in Claims : RunStep(c)
    \/ \E k \in Callers : Request(k) \/ CallStep(k)

Spec == Init /\ [][Next]_vars

-----------------------------------------------------------------------------
(* Properties                                                              *)

Statuses == ClaimStatus \cup ClaimWorkflowStatus

\* Every variable keeps its type.
TypeOK ==
    /\ column \in Columns
    /\ status \in [Claims -> Statuses \cup {NoRow}]
    /\ reopenCount \in [Claims -> Nat] /\ requests \in [Claims -> 0..2]
    /\ run \in [Claims -> RunCalls \cup {"none", "awaitAssessment", "ended"}]
    /\ target \in [Claims -> ClaimWorkflowStatus]
    /\ attempt \in [Claims -> Callers \cup {Nobody}]
    /\ signalled \subseteq Claims
    /\ pc \in [Callers -> Statements] /\ method \in [Callers -> DOMAIN First \cup {"none"}]
    /\ claim \in [Callers -> Claims \cup {Nobody}]
    /\ goal \in [Callers -> Statuses]
    /\ seenCount \in [Callers -> Nat] /\ found \in [Callers -> BOOLEAN]
    /\ deskCalls \in Nat /\ faults \in Nat
    /\ latest \in [Claims -> Statuses]
    /\ muddled \subseteq Claims /\ wasOver \subseteq Claims /\ clean \subseteq Claims
    /\ raced \subseteq Claims \X Claims
    /\ disrupted \subseteq Claims /\ financed \subseteq Claims
    /\ reopens \in [Claims -> Nat] /\ reopenRace \subseteq Claims

\* Two claims of losses within the window both pass the duplicate check of their runs
\* only if one of them had been rejected, withdrawn or closed: the check of the run makes
\* up for the gap between check and insert in submitClaim, whatever overlaps.
LossesKeptApart ==
    \A c, d \in clean : c # d /\ Near(c, d) => c \in wasOver \/ d \in wasOver

\* Two claims of losses within the window both have a row only if one of them had been
\* over, or the one was submitted between the check and the insert of the other.
SubmissionsKeptApart ==
    \A c, d \in Claims :
        c # d /\ Near(c, d) /\ status[c] # NoRow /\ status[d] # NoRow =>
            \/ c \in wasOver \/ d \in wasOver
            \/ <<c, d>> \in raced \/ <<d, c>> \in raced

\* The two checks together catch every duplicate but the ones of a submission race, and
\* those do not get past the runs.
DuplicatesCaught == LossesKeptApart /\ SubmissionsKeptApart

\* The last row of a claim's history says what its status is, unless the claim was
\* reopened (which adds no row), an update is about to add its row, or updates overlapped
\* or died half way.
HistoryAgrees ==
    \A c \in Claims :
        \/ status[c] \in {NoRow, "REOPENED", latest[c]}
        \/ c \in muddled
        \/ \E k \in Callers : pc[k] = "saveHistory" /\ claim[k] = c

\* A claim none of whose signals and attempts failed has at most one payout request, and
\* only if its run has come to the finance review.
RequestedOnce ==
    \A c \in Claims \ disrupted :
        requests[c] < 2 /\ (requests[c] > 0 => c \in financed)

\* The counter never passes its limit, never counts a reopening that was not written,
\* and counts every one unless two attempts overlapped.
ReopensCounted ==
    \A c \in Claims :
        /\ reopenCount[c] <= MAX_REOPEN_COUNT
        /\ reopenCount[c] <= reopens[c]
        /\ c \notin reopenRace => reopenCount[c] = reopens[c]

\* "Claim lifecycle must be workflow controlled" (docs/SKILLS.md): a payout is requested
\* only for a claim whose run has come to the finance review.  The fallback of
\* createAssessment requests one for a claim with no run, and for one that is over.
RequestedByWorkflow == \A c \in Claims : requests[c] > 0 => c \in financed
=============================================================================
