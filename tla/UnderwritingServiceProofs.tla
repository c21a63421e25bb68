--------------------- MODULE UnderwritingServiceProofs ---------------------
(* Theorems about UnderwritingService, for any number of concurrent calls, *)
(* underwriters, tokens and escalations.                                   *)
EXTENDS UnderwritingService, TLAPS

\* What the calls in progress know: the update of the case has a saved decision behind
\* it, and a lock is about to be written under a token of its own.
CallInv ==
    /\ \A c \in Callers : pc[c] = "save" => choice[c] \in UwDecision
    /\ \A c \in Callers : pc[c] = "updateCase" => choice[c] \in decisions \cap UwDecision

\* The inductive strengthening of TypeOK
TypeInv == TypeOK /\ CallInv

\* The initial states are typed.
LEMMA InitTypeInv == Init => TypeInv
  <1> SUFFICES ASSUME Init PROVE TypeInv
    OBVIOUS
  <1>1. /\ caseStatus \in UnderwritingStatus
        /\ pc \in [Callers -> Statements]
        /\ existing \in [Callers -> SUBSET Tokens]
        /\ choice \in [Callers -> UwDecision \cup {NoDecision}]
    BY DEF Init, Statements, UnderwritingStatus
  <1>2. currentApprovalLevel \in Nat \ {0} /\ fromLevel \in [Callers -> Nat \ {0}]
    BY DEF Init
  <1>3. CallInv
    BY DEF Init, CallInv
  <1> QED BY <1>1, <1>2, <1>3, Zenon DEF Init, TypeInv, TypeOK

\* Deactivating locks leaves them locks.
LEMMA DeactivatedType ==
  ASSUME NEW ls, locks \subseteq UnderwritingLock
  PROVE  Deactivated(ls) \subseteq UnderwritingLock
  BY DEF Deactivated, UnderwritingLock

\* Every step keeps the types.
LEMMA StepType == TypeInv /\ [Next]_vars => TypeInv'
  <1> SUFFICES ASSUME TypeInv, [Next]_vars PROVE TypeInv'
    OBVIOUS
  <1> USE DEF TypeInv, TypeOK, CallInv, Statements, NoDecision, GoTo, Done, rows, args, history
  <1>1. ASSUME NEW c \in Callers, AcquireLock(c) PROVE TypeInv'
    <2>1. \A l \in ActiveLocks : l.lockToken \in Tokens
      BY DEF ActiveLocks, UnderwritingLock
    <2> QED BY <1>1, <2>1 DEF AcquireLock
  <1>2. ASSUME NEW c \in Callers, ReleaseExisting(c) PROVE TypeInv'
    BY <1>2, DeactivatedType DEF ReleaseExisting
  <1>3. ASSUME NEW c \in Callers, InsertLock(c) PROVE TypeInv'
    <2>1. PICK t \in Tokens : locks' = locks \cup {[lockToken |-> t,
              lockedBy |-> underwriter[c], isActive |-> TRUE, expired |-> FALSE]}
      BY <1>3 DEF InsertLock
    <2>2. locks' \subseteq UnderwritingLock
      <3>1. locks \subseteq UnderwritingLock /\ underwriter[c] \in Underwriters
        OBVIOUS
      <3>2. [lockToken |-> t, lockedBy |-> underwriter[c], isActive |-> TRUE,
             expired |-> FALSE] \in UnderwritingLock
        BY ONLY <3>1 DEF UnderwritingLock
      <3> QED BY <2>1, <3>1, <3>2, Zenon
    <2> QED BY <1>3, <2>2 DEF InsertLock
  <1>4. ASSUME NEW c \in Callers, LockRefused(c) PROVE TypeInv'
    BY <1>4 DEF LockRefused
  <1>5. ASSUME NEW c \in Callers, RecordDecision(c) PROVE TypeInv'
    BY <1>5 DEF RecordDecision
  <1>6. ASSUME NEW c \in Callers, SaveDecision(c) PROVE TypeInv'
    <2>1. CASE choice[c] \in UnderwritingDecisionOutcome
      BY <1>6, <2>1 DEF SaveDecision
    <2>2. CASE choice[c] \notin UnderwritingDecisionOutcome
      BY <1>6, <2>2 DEF SaveDecision
    <2> QED BY <2>1, <2>2
  <1>7. ASSUME NEW c \in Callers, UpdateCase(c) PROVE TypeInv'
    <2>1. CASE mapDecisionToStatus[choice[c]] \in UnderwritingStatus
      BY <1>7, <2>1 DEF UpdateCase
    <2>2. CASE mapDecisionToStatus[choice[c]] \notin UnderwritingStatus
      <3>1. torn' \in BOOLEAN /\ caseStatus' \in UnderwritingStatus
        BY <1>7, <2>2, Zenon DEF UpdateCase
      <3>2. /\ Done(c)
            /\ UNCHANGED <<locks, decisions, currentApprovalLevel, underwriter,
                           lastDecision, escalations, overlapped, refusedFree>>
        BY <1>7 DEF UpdateCase
      <3>3. CallInv'
        BY <3>2
      <3> QED BY <3>1, <3>2, <3>3
    <2> QED BY <2>1, <2>2
  <1>8. ASSUME NEW c \in Callers, Escalate(c) PROVE TypeInv'
    BY <1>8 DEF Escalate
  <1>9. ASSUME NEW c \in Callers, RaiseLevel(c) PROVE TypeInv'
    BY <1>9 DEF RaiseLevel
  <1>10. ASSUME NEW c \in Callers, CallFails(c) PROVE TypeInv'
    BY <1>10 DEF CallFails
  <1>11. CASE ReleaseLock
    BY <1>11, DeactivatedType DEF ReleaseLock
  <1>12. CASE LockExpires
    <2>1. locks' \subseteq UnderwritingLock
      BY <1>12 DEF LockExpires, UnderwritingLock
    <2> QED BY <1>12, <2>1 DEF LockExpires
  <1>13. CASE UNCHANGED vars
    BY <1>13 DEF vars
  <1> QED
    BY <1>1, <1>2, <1>3, <1>4, <1>5, <1>6, <1>7, <1>8, <1>9, <1>10, <1>11, <1>12, <1>13
    DEF Next, Call

\* Every reachable state is well typed, and no update of the case lacks its decision.
LEMMA TypeInvariant == Spec => []TypeInv
  BY InitTypeInv, StepType, PTL DEF Spec

\* Every variable always has its type: in particular the case never takes a status and
\* a decision row never an outcome its column does not know.
THEOREM TypeCorrect == Spec => []TypeOK
  <1>1. TypeInv => TypeOK
    BY DEF TypeInv
  <1> QED BY TypeInvariant, <1>1, PTL

-----------------------------------------------------------------------------
(* Locks.  UNIQUE (case_id) is what makes this so: the check acquireLock   *)
(* makes first is not needed for it.                                       *)

\* The case never has more than one lock row.
OneRow == \A l, m \in locks : l = m

\* Deactivating locks makes no rows.
LEMMA DeactivatedOneRow ==
  ASSUME NEW ls, OneRow
  PROVE  \A l, m \in Deactivated(ls) : l = m
  BY DEF Deactivated, OneRow

\* No step adds a row to the one there is.
LEMMA StepOneRow == OneRow /\ [Next]_vars => OneRow'
  <1> SUFFICES ASSUME OneRow, [Next]_vars PROVE OneRow'
    OBVIOUS
  <1>1. ASSUME NEW c \in Callers, ReleaseExisting(c) PROVE OneRow'
    BY <1>1, DeactivatedOneRow DEF ReleaseExisting, OneRow
  <1>2. ASSUME NEW c \in Callers, InsertLock(c) PROVE OneRow'
    BY <1>2 DEF InsertLock, Insertable, OneRow
  <1>3. CASE ReleaseLock
    BY <1>3, DeactivatedOneRow DEF ReleaseLock, OneRow
  <1>4. CASE LockExpires
    BY <1>4 DEF LockExpires, OneRow
  <1>5. CASE UNCHANGED locks
    BY <1>5 DEF OneRow
  <1>6. ASSUME NEW c \in Callers, Call(c), ~ReleaseExisting(c), ~InsertLock(c)
        PROVE  UNCHANGED locks
    BY <1>6 DEF Call, AcquireLock, LockRefused, RecordDecision, SaveDecision, UpdateCase,
         Escalate, RaiseLevel, CallFails, rows
  <1> QED
    BY <1>1, <1>2, <1>3, <1>4, <1>5, <1>6 DEF Next, vars, rows

\* Two underwriters never hold the case together.
THEOREM OneActiveLockHolds == Spec => []OneActiveLock
  <1>1. Init => OneRow
    BY DEF Init, OneRow
  <1>2. OneRow => OneActiveLock
    BY DEF OneRow, OneActiveLock, ActiveLocks
  <1> QED BY <1>1, <1>2, StepOneRow, PTL DEF Spec

-----------------------------------------------------------------------------
(* Decisions                                                               *)

\* A step of a call, other than the update of the case, leaves the status and keeps
\* the decisions; so do the steps that are nobody's.
LEMMA StatusKept ==
  ASSUME [Next]_vars, \A c \in Callers : ~UpdateCase(c)
  PROVE  caseStatus' = caseStatus /\ decisions \subseteq decisions'
  BY DEF Next, Call, AcquireLock, ReleaseExisting, InsertLock, LockRefused, RecordDecision,
       SaveDecision, Escalate, RaiseLevel, CallFails, ReleaseLock, LockExpires, vars, rows

\* A status that is written has the decision behind it that the call saved.
LEMMA StepStatusBacked ==
  ASSUME TypeInv, StatusBacked, [Next]_vars
  PROVE  StatusBacked'
  <1>1. CASE \A c \in Callers : ~UpdateCase(c)
    BY <1>1, StatusKept DEF StatusBacked
  <1>2. ASSUME NEW c \in Callers, UpdateCase(c) PROVE StatusBacked'
    <2>1. /\ decisions' = decisions
          /\ caseStatus' \in {caseStatus, mapDecisionToStatus[choice[c]]}
      BY <1>2 DEF UpdateCase
    <2>2. choice[c] \in decisions /\ choice[c] \in UwDecision
      BY <1>2 DEF UpdateCase, TypeInv, TypeOK, CallInv
    <2>3. CASE caseStatus' = caseStatus
      BY <2>1, <2>3 DEF StatusBacked
    <2>4. CASE caseStatus' = mapDecisionToStatus[choice[c]]
      BY <2>1, <2>2, <2>4 DEF StatusBacked, mapDecisionToStatus, UwDecision
    <2> QED BY <2>1, <2>3, <2>4
  <1> QED BY <1>1, <1>2

\* The case is approved, conditionally approved or declined only with such a decision
\* on record.
THEOREM StatusBackedHolds == Spec => []StatusBacked
  <1>1. Init => StatusBacked
    BY DEF Init, StatusBacked
  <1> QED BY <1>1, StepStatusBacked, TypeInvariant, PTL DEF Spec

-----------------------------------------------------------------------------
(* The status of the case and the decision saved last                      *)

\* What is known as long as nothing has torn the last decision from its update: the one
\* update that may be in progress is its own, and once it is over the case says what
\* was decided.
LatestInv ==
    ~torn =>
        /\ \A c, d \in Updating : c = d
        /\ \A c \in Updating : choice[c] = lastDecision
        /\ StatusIsLatest

\* Initially nothing is decided.
LEMMA InitLatestInv == Init => LatestInv
  BY DEF Init, LatestInv, StatusIsLatest, Updating

\* A step that neither saves a decision, nor updates the case, nor fails leaves the case,
\* the last decision and the updates in progress.
LEMMA LatestKept ==
  ASSUME TypeInv, [Next]_vars,
         \A c \in Callers : ~SaveDecision(c) /\ ~UpdateCase(c) /\ ~CallFails(c)
  PROVE  /\ UNCHANGED <<caseStatus, lastDecision, torn>>
         /\ Updating' = Updating
         /\ \A c \in Updating : choice'[c] = choice[c]
  <1> USE DEF TypeInv, TypeOK, Updating, GoTo, Done, rows, args, history
  <1>1. ASSUME NEW c \in Callers, Call(c)
        PROVE  /\ UNCHANGED <<caseStatus, lastDecision, torn>>
               /\ Updating' = Updating
               /\ \A d \in Updating : choice'[d] = choice[d]
    BY <1>1 DEF Call, AcquireLock, ReleaseExisting, InsertLock, LockRefused,
         RecordDecision, Escalate, RaiseLevel
  <1>2. CASE ReleaseLock \/ LockExpires \/ UNCHANGED vars
    BY <1>2 DEF ReleaseLock, LockExpires, vars
  <1> QED BY <1>1, <1>2 DEF Next

\* Every step keeps the case at the last decision, or says that it is torn from it.
LEMMA StepLatestInv ==
  ASSUME TypeInv, LatestInv, [Next]_vars
  PROVE  LatestInv'
  <1> USE DEF TypeInv, TypeOK
  <1>1. CASE \A c \in Callers : ~SaveDecision(c) /\ ~UpdateCase(c) /\ ~CallFails(c)
    BY <1>1, LatestKept DEF LatestInv, StatusIsLatest
  <1>2. ASSUME NEW c \in Callers, SaveDecision(c) PROVE LatestInv'
    <2>1. CASE choice[c] \in UnderwritingDecisionOutcome
      <3>1. /\ torn' = (Updating # {}) /\ lastDecision' = choice[c]
            /\ Updating' = Updating \cup {c} /\ choice' = choice
        BY <1>2, <2>1 DEF SaveDecision, Updating, GoTo
      <3> QED BY <3>1 DEF LatestInv, StatusIsLatest
    <2>2. CASE choice[c] \notin UnderwritingDecisionOutcome
      <3>1. /\ UNCHANGED <<caseStatus, lastDecision, torn>> /\ Updating' = Updating
            /\ \A d \in Updating : choice'[d] = choice[d]
        BY <1>2, <2>2 DEF SaveDecision, Updating, GoTo, Done
      <3> QED BY <3>1 DEF LatestInv, StatusIsLatest
    <2> QED BY <2>1, <2>2
  <1>3. ASSUME NEW c \in Callers, UpdateCase(c), ~torn' PROVE LatestInv'
    <2>1. /\ ~torn /\ lastDecision' = lastDecision
          /\ c \in Updating /\ Updating' = Updating \ {c}
          /\ caseStatus' = mapDecisionToStatus[choice[c]]
      BY <1>3 DEF UpdateCase, Updating, GoTo, Done
    <2>2. Updating' = {} /\ choice[c] = lastDecision
      BY <2>1 DEF LatestInv
    <2> QED BY <2>1, <2>2 DEF LatestInv, StatusIsLatest
  <1>4. ASSUME NEW c \in Callers, CallFails(c), ~torn' PROVE LatestInv'
    <2>1. /\ ~torn /\ UNCHANGED <<caseStatus, lastDecision>> /\ Updating' = Updating
          /\ \A d \in Updating : choice'[d] = choice[d]
      BY <1>4 DEF CallFails, Updating, GoTo, Done, rows
    <2> QED BY <2>1 DEF LatestInv, StatusIsLatest
  <1>5. CASE torn'
    BY <1>5 DEF LatestInv
  <1> QED BY <1>1, <1>2, <1>3, <1>4, <1>5

\* Unless two updates overlapped, or one was lost or refused, the status of the case is
\* that of the decision saved last, once its update is over.
THEOREM StatusIsLatestHolds == Spec => []StatusIsLatest
  <1>1. LatestInv => StatusIsLatest
    BY DEF LatestInv, StatusIsLatest
  <1> QED BY <1>1, InitLatestInv, StepLatestInv, TypeInvariant, PTL DEF Spec

-----------------------------------------------------------------------------
(* Escalations                                                             *)

\* What an escalation in progress has read: never more than the escalations written
\* account for, and, as long as none overlapped, the level the case still has.
LevelInv ==
    /\ LevelCountsEscalations
    /\ \A c \in Escalating : fromLevel[c] <= 1 + escalations
    /\ ~overlapped => /\ \A c, d \in Escalating : c = d
                      /\ \A c \in Escalating : fromLevel[c] = currentApprovalLevel

\* Initially nobody escalates.
LEMMA InitLevelInv == Init => LevelInv
  BY DEF Init, LevelInv, LevelCountsEscalations, Escalating

\* A step that is not part of an escalation leaves what escalations read and write, and
\* starts none.
LEMMA LevelKept ==
  ASSUME TypeInv, [Next]_vars,
         \A c \in Callers : ~Escalate(c) /\ ~RaiseLevel(c)
  PROVE  /\ UNCHANGED <<currentApprovalLevel, escalations, overlapped>>
         /\ Escalating' \subseteq Escalating
         /\ \A c \in Escalating' : fromLevel'[c] = fromLevel[c]
  <1> USE DEF TypeInv, TypeOK, Escalating, GoTo, Done, rows, args, history
  <1>1. ASSUME NEW c \in Callers, Call(c)
        PROVE  /\ UNCHANGED <<currentApprovalLevel, escalations, overlapped>>
               /\ Escalating' \subseteq Escalating
               /\ \A d \in Escalating' : fromLevel'[d] = fromLevel[d]
    BY <1>1 DEF Call, AcquireLock, ReleaseExisting, InsertLock, LockRefused,
         RecordDecision, SaveDecision, UpdateCase, CallFails
  <1>2. CASE ReleaseLock \/ LockExpires \/ UNCHANGED vars
    BY <1>2 DEF ReleaseLock, LockExpires, vars
  <1> QED BY <1>1, <1>2 DEF Next

\* Every step keeps the relation between the level and the escalations.
LEMMA StepLevelInv ==
  ASSUME TypeInv, LevelInv, [Next]_vars
  PROVE  LevelInv'
  <1> USE DEF TypeInv, TypeOK
  <1>1. CASE \A c \in Callers : ~Escalate(c) /\ ~RaiseLevel(c)
    BY <1>1, LevelKept DEF LevelInv, LevelCountsEscalations
  <1>2. ASSUME NEW c \in Callers, Escalate(c) PROVE LevelInv'
    <2>1. /\ UNCHANGED <<currentApprovalLevel, escalations>>
          /\ Escalating' = Escalating \cup {c} /\ pc[c] = "idle"
          /\ fromLevel' = [fromLevel EXCEPT ![c] = currentApprovalLevel]
          /\ ~overlapped' => ~overlapped /\ Escalating = {}
      BY <1>2 DEF Escalate, Escalating, GoTo, rows
    <2> QED BY <2>1 DEF LevelInv, LevelCountsEscalations, Escalating
  <1>3. ASSUME NEW c \in Callers, RaiseLevel(c) PROVE LevelInv'
    <2>1. /\ c \in Escalating /\ Escalating' = Escalating \ {c}
          /\ currentApprovalLevel' = fromLevel[c] + 1
          /\ escalations' = escalations + 1 /\ overlapped' = overlapped
          /\ \A d \in Escalating' : fromLevel'[d] = fromLevel[d]
      BY <1>3 DEF RaiseLevel, Escalating, GoTo, Done
    <2>2. \A d \in Escalating : fromLevel[d] \in Nat
      BY DEF Escalating
    <2> QED BY <2>1, <2>2 DEF LevelInv, LevelCountsEscalations
  <1> QED BY <1>1, <1>2, <1>3

\* The approval level never exceeds the escalations written, and counts them exactly as
\* long as no two escalations overlapped.
THEOREM LevelCountsEscalationsHolds == Spec => []LevelCountsEscalations
  <1>1. LevelInv => LevelCountsEscalations
    BY DEF LevelInv
  <1> QED BY <1>1, InitLevelInv, StepLevelInv, TypeInvariant, PTL DEF Spec
=============================================================================
