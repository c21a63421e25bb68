------------------------ MODULE UnderwritingService ------------------------
(***************************************************************************)
(* Locks, decisions and escalations on one underwriting case, as calls     *)
(* handled concurrently by the API process and by the activity worker      *)
(* execute them: src/src/modules/underwriting/services/                    *)
(* underwriting.service.ts, over the tables of underwriting.entity.ts.     *)
(*                                                                         *)
(* No call runs in a transaction: every database statement is a step of    *)
(* its own, and a call may fail between two of them (a lost connection, a  *)
(* killed process), leaving what it has written.  Time is abstracted to    *)
(* "the lock has expired".                                                 *)
(***************************************************************************)
EXTENDS Integers, FiniteSets

CONSTANTS
    Callers,            \* calls that may be in progress at once
    Underwriters,
    Tokens,             \* lock tokens (uuids)
    MaxEscalations      \* bound on the escalations explored

ASSUME EscalationsAssumption == MaxEscalations \in Nat

UwDecision ==
    {"APPROVE", "REJECT", "REFER_TO_SENIOR", "REQUEST_INFO", "CONDITIONALLY_APPROVE"}

\* The values the columns underwriting_decisions.outcome and underwriting_cases.status
\* take; the database refuses any other.
UnderwritingDecisionOutcome ==
    {"APPROVE", "DECLINE", "REFER", "REQUEST_INFO", "CONDITIONALLY_APPROVE"}

UnderwritingStatus ==
    {"PENDING", "IN_REVIEW", "REFERRED", "APPROVED", "DECLINED",
     "CONDITIONALLY_APPROVED", "CANCELLED"}

mapDecisionToStatus ==
    [APPROVE |-> "APPROVED", CONDITIONALLY_APPROVE |-> "CONDITIONALLY_APPROVED",
     REJECT |-> "DECLINED", REFER_TO_SENIOR |-> "ESCALATED", REQUEST_INFO |-> "PENDING_INFO"]

UnderwritingLock ==
    [lockToken : Tokens, lockedBy : Underwriters, isActive : BOOLEAN, expired : BOOLEAN]

NoDecision == "none"

VARIABLES
    locks,              \* rows of underwriting_locks for the case
    decisions,          \* decisions saved in underwriting_decisions
    caseStatus, currentApprovalLevel,
    \* per call: the statement it executes next, and what it was given or has read
    pc,
    underwriter, existing,      \* acquireLock: the caller, and the active lock it found
    choice,                     \* recordDecision: the decision
    fromLevel,                  \* escalate: the level read
    \* history
    lastDecision,       \* the decision saved last
    torn,               \* its update of the case was lost, refused, or met another one
    escalations,        \* escalations written
    overlapped,         \* an escalation began while another was in progress
    refusedFree         \* a lock was refused while no active one existed

args == <<underwriter, existing, choice, fromLevel>>
rows == <<locks, decisions, caseStatus, currentApprovalLevel>>
history == <<lastDecision, torn, escalations, overlapped, refusedFree>>
vars == <<rows, pc, args, history>>

Statements == {"idle", "deactivate", "insert", "save", "updateCase", "raiseLevel"}

Init ==
    /\ locks = {} /\ decisions = {}
    /\ caseStatus = "PENDING" /\ currentApprovalLevel = 1
    /\ pc = [c \in Callers |-> "idle"]
    /\ underwriter \in [Callers -> Underwriters]
    /\ existing = [c \in Callers |-> {}]
    /\ choice = [c \in Callers |-> NoDecision]
    /\ fromLevel = [c \in Callers |-> 1]
    /\ lastDecision = NoDecision /\ torn = FALSE
    /\ escalations = 0 /\ overlapped = FALSE /\ refusedFree = FALSE

-----------------------------------------------------------------------------
(* Helpers.  A Fault... operator is the definition that follows it with a mistake in   *)
(* it; nothing refers to one, the mutation checks put it in place.                     *)

GoTo(c, l) == pc' = [pc EXCEPT ![c] = l]

\* The call returns or throws; its locals are gone.
Done(c) ==
    /\ GoTo(c, "idle")
    /\ existing' = [existing EXCEPT ![c] = {}]
    /\ choice' = [choice EXCEPT ![c] = NoDecision]
    /\ fromLevel' = [fromLevel EXCEPT ![c] = 1]

ActiveLocks == {l \in locks : l.isActive}

Deactivated(ls) ==
    {IF l \in ls THEN [l EXCEPT !.isActive = FALSE] ELSE l : l \in locks}

FaultInsertable == TRUE

\* UNIQUE (case_id): a second lock row for the case is refused, active or not.
Insertable == locks = {}

-----------------------------------------------------------------------------
(* acquireLock                                                             *)

\* findOne of the active lock: somebody else's unexpired one is a conflict.
AcquireLock(c) ==
    /\ pc[c] = "idle"
    /\ \E u \in Underwriters :
        /\ underwriter' = [underwriter EXCEPT ![c] = u]
        /\ \/ ActiveLocks = {} /\ GoTo(c, "insert") /\ UNCHANGED existing
           \/ \E l \in ActiveLocks :
                /\ l.lockedBy # u => l.expired
                /\ existing' = [existing EXCEPT ![c] = {l.lockToken}]
                /\ GoTo(c, "deactivate")
    /\ UNCHANGED <<rows, choice, fromLevel, history>>

\* The expired lock, or the caller's own, is released by id.
ReleaseExisting(c) ==
    /\ pc[c] = "deactivate"
    /\ locks' = Deactivated({l \in locks : l.lockToken \in existing[c]})
    /\ GoTo(c, "insert")
    /\ UNCHANGED <<decisions, caseStatus, currentApprovalLevel, args, history>>

InsertLock(c) ==
    /\ pc[c] = "insert" /\ Insertable
    /\ \E t \in Tokens \ {l.lockToken : l \in locks} :
           locks' = locks \cup {[lockToken |-> t, lockedBy |-> underwriter[c],
                                 isActive |-> TRUE, expired |-> FALSE]}
    /\ Done(c)
    /\ UNCHANGED <<decisions, caseStatus, currentApprovalLevel, underwriter, history>>

\* The insert violates the constraint, and acquireLock throws.
LockRefused(c) ==
    /\ pc[c] = "insert" /\ ~Insertable
    /\ refusedFree' = (refusedFree \/ ActiveLocks = {})
    /\ Done(c)
    /\ UNCHANGED <<rows, underwriter, lastDecision, torn, escalations, overlapped>>

-----------------------------------------------------------------------------
(* releaseLock: the row is found by id and token, and deactivated by id; rows are never  *)
(* deleted, so nothing can come between the two statements that matters.                 *)

ReleaseLock ==
    /\ \E l \in locks : locks' = Deactivated({l})
    /\ UNCHANGED <<decisions, caseStatus, currentApprovalLevel, pc, args, history>>

\* Time passes lockExpiresAt.
LockExpires ==
    /\ \E l \in locks :
           /\ ~l.expired
           /\ locks' = (locks \ {l}) \cup {[l EXCEPT !.expired = TRUE]}
    /\ UNCHANGED <<decisions, caseStatus, currentApprovalLevel, pc, args, history>>

-----------------------------------------------------------------------------
(* recordDecision                                                          *)

\* The token of any lock the case has ever had is accepted, released or expired.
RecordDecision(c) ==
    /\ pc[c] = "idle"
    /\ locks # {}
    /\ \E d \in UwDecision : choice' = [choice EXCEPT ![c] = d]
    /\ GoTo(c, "save")
    /\ UNCHANGED <<rows, underwriter, existing, fromLevel, history>>

Updating == {c \in Callers : pc[c] = "updateCase"}

\* The column refuses REJECT and REFER_TO_SENIOR: the call throws.
SaveDecision(c) ==
    /\ pc[c] = "save"
    /\ \/ /\ choice[c] \in UnderwritingDecisionOutcome
          /\ decisions' = decisions \cup {choice[c]}
          /\ lastDecision' = choice[c]
          /\ torn' = (Updating # {})
          /\ GoTo(c, "updateCase")
          /\ UNCHANGED <<existing, choice, fromLevel>>
       \/ /\ choice[c] \notin UnderwritingDecisionOutcome
          /\ Done(c)
          /\ UNCHANGED <<decisions, lastDecision, torn>>
    /\ UNCHANGED <<locks, caseStatus, currentApprovalLevel, underwriter,
                   escalations, overlapped, refusedFree>>

FaultUpdateCase(c) ==
    /\ pc[c] = "updateCase"
    /\ \/ /\ caseStatus = "PENDING"
          /\ mapDecisionToStatus[choice[c]] \in UnderwritingStatus
          /\ caseStatus' = mapDecisionToStatus[choice[c]]
          /\ UNCHANGED torn
       \/ /\ caseStatus # "PENDING" /\ UNCHANGED <<caseStatus, torn>>
    /\ Done(c)
    /\ UNCHANGED <<locks, decisions, currentApprovalLevel, underwriter,
                   lastDecision, escalations, overlapped, refusedFree>>

\* The column refuses PENDING_INFO: the call throws with its decision saved.
UpdateCase(c) ==
    /\ pc[c] = "updateCase"
    /\ \/ /\ mapDecisionToStatus[choice[c]] \in UnderwritingStatus
          /\ caseStatus' = mapDecisionToStatus[choice[c]]
          /\ UNCHANGED torn
       \/ /\ mapDecisionToStatus[choice[c]] \notin UnderwritingStatus
          /\ torn' = TRUE
          /\ UNCHANGED caseStatus
    /\ Done(c)
    /\ UNCHANGED <<locks, decisions, currentApprovalLevel, underwriter,
                   lastDecision, escalations, overlapped, refusedFree>>

-----------------------------------------------------------------------------
(* escalate                                                                *)

Escalating == {c \in Callers : pc[c] = "raiseLevel"}

\* The bound on escalations is the model's, not the code's.
Escalate(c) ==
    /\ pc[c] = "idle"
    /\ escalations + Cardinality(Escalating) < MaxEscalations
    /\ fromLevel' = [fromLevel EXCEPT ![c] = currentApprovalLevel]
    /\ overlapped' = (overlapped \/ Escalating # {})
    /\ GoTo(c, "raiseLevel")
    /\ UNCHANGED <<rows, underwriter, existing, choice,
                   lastDecision, torn, escalations, refusedFree>>

FaultRaiseLevel(c) ==
    /\ pc[c] = "raiseLevel"
    /\ currentApprovalLevel' = fromLevel[c] - 1
    /\ escalations' = escalations + 1
    /\ Done(c)
    /\ UNCHANGED <<locks, decisions, caseStatus, underwriter,
                   lastDecision, torn, overlapped, refusedFree>>

\* update ... set current_approval_level = (level read) + 1
RaiseLevel(c) ==
    /\ pc[c] = "raiseLevel"
    /\ currentApprovalLevel' = fromLevel[c] + 1
    /\ escalations' = escalations + 1
    /\ Done(c)
    /\ UNCHANGED <<locks, decisions, caseStatus, underwriter,
                   lastDecision, torn, overlapped, refusedFree>>

-----------------------------------------------------------------------------
\* A statement fails, or the process dies: the call goes no further.
CallFails(c) ==
    /\ pc[c] # "idle"
    /\ torn' = (torn \/ pc[c] = "updateCase")
    /\ Done(c)
    /\ UNCHANGED <<rows, underwriter, lastDecision, escalations, overlapped, refusedFree>>

Call(c) ==
    \/ AcquireLock(c) \/ ReleaseExisting(c) \/ InsertLock(c) \/ LockRefused(c)
    \/ RecordDecision(c) \/ SaveDecision(c) \/ UpdateCase(c)
    \/ Escalate(c) \/ RaiseLevel(c) \/ CallFails(c)

Next == (\E c \in Callers : Call(c)) \/ ReleaseLock \/ LockExpires

Spec == Init /\ [][Next]_vars

-----------------------------------------------------------------------------
(* Properties                                                              *)

\* Every variable has its type.
TypeOK ==
    /\ locks \subseteq UnderwritingLock
    /\ decisions \subseteq UnderwritingDecisionOutcome
    /\ caseStatus \in UnderwritingStatus
    /\ currentApprovalLevel \in Nat \ {0}
    /\ pc \in [Callers -> Statements]
    /\ underwriter \in [Callers -> Underwriters]
    /\ existing \in [Callers -> SUBSET Tokens]
    /\ choice \in [Callers -> UwDecision \cup {NoDecision}]
    /\ fromLevel \in [Callers -> Nat \ {0}]
    /\ lastDecision \in UnderwritingDecisionOutcome \cup {NoDecision}
    /\ torn \in BOOLEAN
    /\ escalations \in Nat /\ overlapped \in BOOLEAN /\ refusedFree \in BOOLEAN

\* Two underwriters never hold the case together.  acquireLock looks for an active lock
\* and inserts its own in separate statements, so two calls may both find none, or both
\* release the same expired one.
OneActiveLock == \A l, m \in ActiveLocks : l = m

\* The status of the case rests on a decision that is on record, whatever calls overlap
\* or fail between saving the decision and updating the case.
StatusBacked ==
    /\ caseStatus = "APPROVED" => "APPROVE" \in decisions
    /\ caseStatus = "CONDITIONALLY_APPROVED" => "CONDITIONALLY_APPROVE" \in decisions
    /\ caseStatus = "DECLINED" => "REJECT" \in decisions

\* The status of the case is that of the decision saved last, once its update is over:
\* unless two updates overlapped, or the update failed or was refused.
StatusIsLatest ==
    lastDecision # NoDecision /\ ~torn /\ Updating = {}
        => caseStatus = mapDecisionToStatus[lastDecision]

\* The approval level never exceeds the escalations written, and counts them exactly
\* as long as no two escalations overlapped: after an overlap one of them is lost.
LevelCountsEscalations ==
    /\ currentApprovalLevel <= 1 + escalations
    /\ ~overlapped => currentApprovalLevel = 1 + escalations

\* A lock is refused only while another one is active: acquireLock releases a lock that
\* has expired, or is the caller's own, to take the case over.
LockFreed == ~refusedFree
=============================================================================
