------------------------ MODULE FinancePayoutProofs ------------------------
(* Theorems about FinancePayout, for any number of calls, installments and *)
(* keys.                                                                   *)
EXTENDS FinancePayout, TLAPS

-----------------------------------------------------------------------------
(* Type correctness                                                        *)

\* The initial states are typed.
LEMMA InitType == Init => TypeOK
  <1> SUFFICES ASSUME Init PROVE TypeOK
    OBVIOUS
  <1>1. status \in PayoutStatus /\ pc \in [Callers -> Statements]
    BY DEF Init, PayoutStatus, Statements
  <1>2. /\ decision \in [Callers -> FinanceDecision]
        /\ key \in [Callers -> Keys] /\ installment \in [Callers -> Numbers]
    BY DEF Init, FinanceDecision, Keys, Numbers
  <1>3. transactions \in [Keys -> Nat] /\ calls \in 0..MaxCalls
    BY MaxCallsAssumption DEF Init
  <1> QED BY <1>1, <1>2, <1>3, Zenon DEF Init, TypeOK

\* A call that is over has locals of the right type.
LEMMA DoneType ==
  ASSUME TypeOK, NEW c \in Callers, Done(c)
  PROVE  /\ pc' \in [Callers -> Statements]
         /\ decision' \in [Callers -> FinanceDecision]
         /\ key' \in [Callers -> Keys] /\ installment' \in [Callers -> Numbers]
         /\ remaining' \in [Callers -> BOOLEAN]
  <1>1. "idle" \in Statements /\ "APPROVE_FULL" \in FinanceDecision
        /\ NoInstallment \in Keys /\ NoInstallment \in Numbers
    BY DEF Statements, FinanceDecision, Keys, Numbers
  <1> QED BY <1>1 DEF TypeOK, Done, GoTo

\* Every step keeps the types.
LEMMA StepType == TypeOK /\ [Next]_vars => TypeOK'
  <1> SUFFICES ASSUME TypeOK, [Next]_vars PROVE TypeOK'
    OBVIOUS
  <1> USE DEF TypeOK, Statements, Begin, GoTo, rows, args, history
  <1>1. ASSUME NEW c \in Callers, RecordApproval(c) PROVE TypeOK'
    BY <1>1, MaxCallsAssumption DEF RecordApproval
  <1>2. ASSUME NEW c \in Callers, SaveApproval(c) PROVE TypeOK'
    BY <1>2 DEF SaveApproval
  <1>3. ASSUME NEW c \in Callers, UpdateApproved(c) PROVE TypeOK'
    <2>1. status' \in PayoutStatus /\ promised' \subseteq InstallmentNos /\ Done(c)
      BY <1>3 DEF UpdateApproved
    <2>2. disturbed' \in BOOLEAN
      BY <1>3, Zenon DEF UpdateApproved
    <2> QED BY <1>3, <2>1, <2>2, DoneType, Zenon DEF UpdateApproved
  <1>4. ASSUME NEW c \in Callers, Disburse(c) PROVE TypeOK'
    BY <1>4, MaxCallsAssumption DEF Disburse
  <1>5. ASSUME NEW c \in Callers, CallPaymentGateway(c) PROVE TypeOK'
    BY <1>5 DEF CallPaymentGateway
  <1>6. ASSUME NEW c \in Callers, SaveDisbursement(c) PROVE TypeOK'
    <2>1. disturbed' \in BOOLEAN
      BY <1>6, Zenon DEF SaveDisbursement
    <2>2. CASE key[c] \in disbursements
      <3>1. Done(c) /\ UNCHANGED disbursements
        BY <1>6, <2>2 DEF SaveDisbursement
      <3> QED BY <1>6, <2>1, <3>1, DoneType, Zenon DEF SaveDisbursement
    <2>3. CASE key[c] \notin disbursements
      <3>1. /\ disbursements' = disbursements \cup {key[c]} /\ UNCHANGED args
            /\ pc' \in [Callers -> Statements]
        BY <1>6, <2>3 DEF SaveDisbursement
      <3>2. disbursements' \subseteq Keys
        BY <3>1
      <3> QED BY <1>6, <2>1, <3>1, <3>2, Zenon DEF SaveDisbursement
    <2> QED BY <2>2, <2>3
  <1>7. ASSUME NEW c \in Callers, UpdatePartialRecord(c) PROVE TypeOK'
    BY <1>7 DEF UpdatePartialRecord
  <1>8. ASSUME NEW c \in Callers, CountRemaining(c) PROVE TypeOK'
    BY <1>8 DEF CountRemaining
  <1>9. ASSUME NEW c \in Callers, UpdateDisbursed(c) PROVE TypeOK'
    <2>1. status' \in PayoutStatus /\ Done(c)
      BY <1>9 DEF UpdateDisbursed, PayoutStatus
    <2> QED BY <1>9, <2>1, DoneType, Zenon DEF UpdateDisbursed
  <1>10. ASSUME NEW c \in Callers, CallFails(c) PROVE TypeOK'
    <2>1. disturbed' \in BOOLEAN
      BY <1>10, Zenon DEF CallFails
    <2>2. exposed' \subseteq Keys /\ Done(c)
      BY <1>10 DEF CallFails
    <2> QED BY <1>10, <2>1, <2>2, DoneType, Zenon DEF CallFails
  <1>11. CASE UNCHANGED vars
    BY <1>11 DEF vars
  <1> QED
    BY <1>1, <1>2, <1>3, <1>4, <1>5, <1>6, <1>7, <1>8, <1>9, <1>10, <1>11 DEF Next, Call

\* Every variable always has its type: the request never takes a status its column does
\* not know, and the schedule never loses what is not in it.
THEOREM TypeCorrect == Spec => []TypeOK
  BY InitType, StepType, PTL DEF Spec

-----------------------------------------------------------------------------
(* Keys and money                                                          *)

\* What is known of a key.  As long as no second attempt and no failure met it between
\* lookup and save, one attempt at most is at it, and follows the only path from an
\* unpaid key to a recorded one.
KeyInv(k) ==
    /\ k \in disbursements => transactions[k] >= 1
    /\ \A c \in Paying(k) : pc[c] = "save" => transactions[k] >= 1
    /\ k \notin exposed =>
        /\ transactions[k] <= 1
        /\ \A c, d \in Paying(k) : c = d
        /\ \A c \in Paying(k) : k \notin disbursements
        /\ \A c \in Paying(k) : pc[c] = "pay" => transactions[k] = 0
        /\ transactions[k] >= 1 =>
               k \in disbursements \/ \E c \in Paying(k) : pc[c] = "save"

\* The inductive invariant of the keys
MoneyInv == \A k \in Keys : KeyInv(k)

\* Initially no key was paid, and none is being paid.
LEMMA InitMoneyInv == Init => MoneyInv
  BY DEF Init, MoneyInv, KeyInv, Paying

\* A step that touches neither a key's row, nor its transactions, nor the attempts at it
\* leaves what is known of it.
LEMMA KeyKept ==
  ASSUME NEW k \in Keys, KeyInv(k),
         k \in disbursements' <=> k \in disbursements,
         transactions'[k] = transactions[k],
         k \notin exposed' => k \notin exposed,
         Paying(k)' = Paying(k),
         \A c \in Paying(k) : pc'[c] = pc[c]
  PROVE  KeyInv(k)'
  BY DEF KeyInv

\* Every step keeps what is known of each key.
LEMMA StepMoneyInv ==
  ASSUME TypeOK, MoneyInv, [Next]_vars
  PROVE  MoneyInv'
  <1> SUFFICES ASSUME NEW k \in Keys PROVE KeyInv(k)'
    BY DEF MoneyInv
  <1>0. KeyInv(k)
    BY DEF MoneyInv
  <1> USE DEF TypeOK, GoTo, rows, args, history
  <1>1. ASSUME NEW c \in Callers,
               \/ RecordApproval(c) \/ SaveApproval(c) \/ UpdateApproved(c)
               \/ UpdatePartialRecord(c) \/ CountRemaining(c) \/ UpdateDisbursed(c)
        PROVE  KeyInv(k)'
    <2>1. /\ UNCHANGED <<disbursements, transactions, exposed>>
          /\ pc[c] \notin {"pay", "save"} /\ pc'[c] \notin {"pay", "save"}
          /\ \A d \in Callers \ {c} : pc'[d] = pc[d] /\ key'[d] = key[d]
      BY <1>1 DEF RecordApproval, SaveApproval, UpdateApproved, UpdatePartialRecord,
           CountRemaining, UpdateDisbursed, Begin, Done
    <2>2. Paying(k)' = Paying(k) /\ \A d \in Paying(k) : pc'[d] = pc[d]
      BY <2>1 DEF Paying
    <2> QED BY <1>0, <2>1, <2>2, KeyKept
  <1>2. ASSUME NEW c \in Callers, Disburse(c) PROVE KeyInv(k)'
    <2>1. PICK q \in Keys \ disbursements :
              /\ key' = [key EXCEPT ![c] = q]
              /\ exposed' = IF Paying(q) = {} THEN exposed ELSE exposed \cup {q}
      BY <1>2 DEF Disburse
    <2>2. /\ UNCHANGED <<disbursements, transactions>>
          /\ pc[c] = "idle" /\ pc' = [pc EXCEPT ![c] = "pay"]
      BY <1>2 DEF Disburse, Begin
    <2>3. CASE k # q
      <3>1. Paying(k)' = Paying(k) /\ \A d \in Paying(k) : pc'[d] = pc[d]
        BY <2>1, <2>2, <2>3 DEF Paying
      <3>2. k \notin exposed' => k \notin exposed
        BY <2>1
      <3> QED BY <1>0, <2>2, <3>1, <3>2, KeyKept
    <2>4. CASE k = q
      <3>1. Paying(k)' = Paying(k) \cup {c} /\ c \notin Paying(k) /\ pc'[c] = "pay"
            /\ \A d \in Paying(k) : pc'[d] = pc[d]
        BY <2>1, <2>2, <2>4 DEF Paying
      <3>2. k \notin exposed' => k \notin exposed /\ Paying(k) = {}
        BY <2>1, <2>4
      <3>3. transactions[k] \in Nat
        OBVIOUS
      <3> QED BY <1>0, <2>1, <2>2, <2>4, <3>1, <3>2, <3>3 DEF KeyInv
    <2> QED BY <2>3, <2>4
  <1>3. ASSUME NEW c \in Callers, CallPaymentGateway(c) PROVE KeyInv(k)'
    <2>1. /\ UNCHANGED <<disbursements, exposed, key>>
          /\ pc[c] = "pay" /\ pc' = [pc EXCEPT ![c] = "save"]
          /\ transactions' = [transactions EXCEPT ![key[c]] = @ + 1]
      BY <1>3 DEF CallPaymentGateway
    <2>2. Paying(k)' = Paying(k)
      BY <2>1 DEF Paying
    <2>3. transactions[k] \in Nat /\ key[c] \in Keys
      OBVIOUS
    <2>4. CASE key[c] # k
      <3>1. c \notin Paying(k) /\ \A d \in Paying(k) : pc'[d] = pc[d]
        BY <2>1, <2>4 DEF Paying
      <3> QED BY <1>0, <2>1, <2>2, <2>3, <2>4, <3>1, KeyKept
    <2>5. CASE key[c] = k
      <3>1. c \in Paying(k) /\ pc'[c] = "save" /\ transactions'[k] = transactions[k] + 1
        BY <2>1, <2>3, <2>5 DEF Paying
      <3> QED BY <1>0, <2>1, <2>2, <2>3, <3>1 DEF KeyInv
    <2> QED BY <2>4, <2>5
  <1>4. ASSUME NEW c \in Callers, SaveDisbursement(c) PROVE KeyInv(k)'
    <2>1. /\ UNCHANGED <<transactions, exposed>> /\ pc[c] = "save"
          /\ pc'[c] \notin {"pay", "save"}
          /\ \A d \in Callers \ {c} : pc'[d] = pc[d] /\ key'[d] = key[d]
          /\ disbursements' = disbursements \cup {key[c]}
      BY <1>4 DEF SaveDisbursement, Done
    <2>2. CASE key[c] # k
      <3>1. Paying(k)' = Paying(k) /\ \A d \in Paying(k) : pc'[d] = pc[d]
        BY <2>1, <2>2 DEF Paying
      <3> QED BY <1>0, <2>1, <2>2, <3>1, KeyKept
    <2>3. CASE key[c] = k
      <3>1. c \in Paying(k) /\ Paying(k)' = Paying(k) \ {c}
            /\ \A d \in Paying(k)' : pc'[d] = pc[d]
        BY <2>1, <2>3 DEF Paying
      <3> QED BY <1>0, <2>1, <2>3, <3>1 DEF KeyInv
    <2> QED BY <2>2, <2>3
  <1>5. ASSUME NEW c \in Callers, CallFails(c) PROVE KeyInv(k)'
    <2>1. /\ UNCHANGED <<disbursements, transactions>> /\ pc[c] # "idle" /\ pc'[c] = "idle"
          /\ \A d \in Callers \ {c} : pc'[d] = pc[d] /\ key'[d] = key[d]
          /\ exposed' = IF pc[c] = "save" THEN exposed \cup {key[c]} ELSE exposed
      BY <1>5 DEF CallFails, Done
    <2>2. Paying(k)' = Paying(k) \ {c} /\ \A d \in Paying(k)' : pc'[d] = pc[d]
      BY <2>1 DEF Paying
    <2>3. c \in Paying(k) /\ pc[c] = "save" => k \in exposed'
      BY <2>1 DEF Paying
    <2> QED BY <1>0, <2>1, <2>2, <2>3 DEF KeyInv
  <1>6. CASE UNCHANGED vars
    BY <1>0, <1>6 DEF vars, KeyInv, Paying
  <1> QED BY <1>1, <1>2, <1>3, <1>4, <1>5, <1>6 DEF Next, Call

\* In every reachable state each key is either clean or exposed.
LEMMA MoneyInvariant == Spec => [](TypeOK /\ MoneyInv)
  BY InitType, StepType, InitMoneyInv, StepMoneyInv, PTL DEF Spec

\* A key is paid twice only if two attempts at it overlapped before either had saved its
\* row, or one failed between the gateway and its row.
THEOREM PaidOncePerKeyHolds == Spec => []PaidOncePerKey
  <1>1. MoneyInv => PaidOncePerKey
    BY DEF MoneyInv, KeyInv, PaidOncePerKey
  <1> QED BY MoneyInvariant, <1>1, PTL

\* What is recorded was paid, and what was paid is recorded, or is about to be, or was
\* paid by an attempt that was met by another one or by a failure.
THEOREM BooksMatchHolds == Spec => []BooksMatch
  <1>1. MoneyInv => BooksMatch
    BY DEF MoneyInv, KeyInv, BooksMatch
  <1> QED BY MoneyInvariant, <1>1, PTL

-----------------------------------------------------------------------------
(* The status of the request                                               *)

\* What the calls in progress know: a count that found nothing stays true, because the
\* schedule only shrinks, and behind each update of the status there is a row.
StatusInv ==
    /\ StatusBacked
    /\ \A c \in Callers : pc[c] = "updateDisbursed" /\ ~remaining[c] => scheduled = {}
    /\ Finishing # {} => disbursements # {}
    /\ \A c \in Callers : pc[c] = "updateApproved" => decision[c] \in approvals

\* Initially the request is pending and no call is in progress.
LEMMA InitStatusInv == Init => StatusInv
  BY DEF Init, StatusInv, StatusBacked, Finishing

\* Every step keeps the status backed and the counts true.
LEMMA StepStatusInv ==
  ASSUME TypeOK, StatusInv, [Next]_vars
  PROVE  StatusInv'
  <1> USE DEF TypeOK, StatusInv, StatusBacked, Finishing, Begin, GoTo,
        Done, rows, args, history
  <1>1. ASSUME NEW c \in Callers, RecordApproval(c) PROVE StatusInv'
    BY <1>1 DEF RecordApproval
  <1>2. ASSUME NEW c \in Callers, SaveApproval(c) PROVE StatusInv'
    BY <1>2 DEF SaveApproval
  <1>3. ASSUME NEW c \in Callers, UpdateApproved(c) PROVE StatusInv'
    <2>1. decision[c] \in FinanceDecision /\ decision[c] \in approvals
      BY <1>3 DEF UpdateApproved
    <2> QED BY <1>3, <2>1 DEF UpdateApproved, mapDecisionToStatus, FinanceDecision
  <1>4. ASSUME NEW c \in Callers, Disburse(c) PROVE StatusInv'
    BY <1>4 DEF Disburse
  <1>5. ASSUME NEW c \in Callers, CallPaymentGateway(c) PROVE StatusInv'
    BY <1>5 DEF CallPaymentGateway
  <1>6. ASSUME NEW c \in Callers, SaveDisbursement(c) PROVE StatusInv'
    BY <1>6 DEF SaveDisbursement
  <1>7. ASSUME NEW c \in Callers, UpdatePartialRecord(c) PROVE StatusInv'
    BY <1>7 DEF UpdatePartialRecord
  <1>8. ASSUME NEW c \in Callers, CountRemaining(c) PROVE StatusInv'
    BY <1>8 DEF CountRemaining
  <1>9. ASSUME NEW c \in Callers, UpdateDisbursed(c) PROVE StatusInv'
    BY <1>9 DEF UpdateDisbursed
  <1>10. ASSUME NEW c \in Callers, CallFails(c) PROVE StatusInv'
    BY <1>10 DEF CallFails
  <1>11. CASE UNCHANGED vars
    BY <1>11 DEF vars
  <1> QED
    BY <1>1, <1>2, <1>3, <1>4, <1>5, <1>6, <1>7, <1>8, <1>9, <1>10, <1>11 DEF Next, Call

\* In every reachable state the status is backed and the counts are true.
LEMMA StatusInvariant == Spec => [](TypeOK /\ StatusInv)
  BY InitType, StepType, InitStatusInv, StepStatusInv, PTL DEF Spec

\* The status rests on an approval, a rejection or a disbursement that is on record, and
\* a request is DISBURSED only with its schedule done, however the counting calls overlap.
THEOREM StatusBackedHolds == Spec => []StatusBacked
  <1>1. StatusInv => StatusBacked
    BY DEF StatusInv
  <1> QED BY StatusInvariant, <1>1, PTL

-----------------------------------------------------------------------------
(* The status and the schedule                                             *)

\* What is known as long as nothing disturbed the payment: one call at most is between
\* its disbursement and the status, its count is still right, and with no such call the
\* status is the one the schedule calls for.
ScheduleInv ==
    ~disturbed =>
        /\ \A c, d \in Finishing : c = d
        /\ \A c \in Finishing :
              pc[c] = "updateDisbursed" => (remaining[c] <=> scheduled # {})
        /\ StatusFollowsSchedule

\* Initially nothing was paid.
LEMMA InitScheduleInv == Init => ScheduleInv
  BY DEF Init, ScheduleInv, StatusFollowsSchedule, Finishing

\* A step of a call that is not finishing a payment, and records no approval, leaves what
\* a finishing call reads and writes.
LEMMA ScheduleKept ==
  ASSUME TypeOK, NEW c \in Callers,
         \/ RecordApproval(c) \/ SaveApproval(c) \/ Disburse(c) \/ CallPaymentGateway(c)
         \/ (CallFails(c) /\ c \notin Finishing)
  PROVE  /\ UNCHANGED <<status, scheduled, disbursements, disturbed>>
         /\ Finishing' = Finishing
         /\ \A d \in Finishing : pc'[d] = pc[d] /\ remaining'[d] = remaining[d]
  <1> USE DEF TypeOK, Finishing, Begin, GoTo, Done, rows, args, history
  <1>1. CASE RecordApproval(c) \/ SaveApproval(c)
    BY <1>1 DEF RecordApproval, SaveApproval
  <1>2. CASE Disburse(c) \/ CallPaymentGateway(c)
    BY <1>2 DEF Disburse, CallPaymentGateway
  <1>3. CASE (CallFails(c) /\ c \notin Finishing)
    <2>1. disturbed' = disturbed
      BY <1>3, Zenon DEF CallFails
    <2> QED BY <1>3, <2>1 DEF CallFails
  <1> QED BY <1>1, <1>2, <1>3

\* Every step keeps the status at what the schedule calls for, or says that the payment
\* was disturbed.
LEMMA StepScheduleInv ==
  ASSUME TypeOK, StatusInv, ScheduleInv, [Next]_vars
  PROVE  ScheduleInv'
  <1> USE DEF TypeOK
  <1>1. ASSUME NEW c \in Callers,
               \/ RecordApproval(c) \/ SaveApproval(c) \/ Disburse(c)
               \/ CallPaymentGateway(c) \/ (CallFails(c) /\ c \notin Finishing)
        PROVE  ScheduleInv'
    BY <1>1, ScheduleKept DEF ScheduleInv, StatusFollowsSchedule
  <1>2. ASSUME NEW c \in Callers, UpdateApproved(c), ~disturbed' PROVE ScheduleInv'
    <2>1. disbursements = {} /\ disbursements' = {} /\ ~disturbed
      BY <1>2 DEF UpdateApproved
    <2>2. Finishing = {}
      BY <2>1 DEF StatusInv
    <2>3. Finishing' = {}
      BY <1>2, <2>2 DEF UpdateApproved, Finishing, GoTo, Done
    <2> QED BY <2>1, <2>3 DEF ScheduleInv, StatusFollowsSchedule
  <1>3. ASSUME NEW c \in Callers, SaveDisbursement(c), ~disturbed' PROVE ScheduleInv'
    <2>1. CASE key[c] \notin disbursements
      <3>1. /\ Finishing = {} /\ Finishing' = {c}
            /\ pc'[c] \in {"updateRecord", "count"}
        BY <1>3, <2>1 DEF SaveDisbursement, Finishing, GoTo
      <3> QED BY <3>1 DEF ScheduleInv, StatusFollowsSchedule
    <2>2. CASE key[c] \in disbursements
      <3>1. /\ UNCHANGED <<status, scheduled, disbursements, disturbed>>
            /\ Finishing' = Finishing
            /\ \A d \in Finishing : pc'[d] = pc[d] /\ remaining'[d] = remaining[d]
        BY <1>3, <2>2 DEF SaveDisbursement, Finishing, GoTo, Done
      <3> QED BY <3>1 DEF ScheduleInv, StatusFollowsSchedule
    <2> QED BY <2>1, <2>2
  <1>4. ASSUME NEW c \in Callers, UpdatePartialRecord(c) \/ CountRemaining(c), ~disturbed'
        PROVE  ScheduleInv'
    <2>1. ~disturbed /\ c \in Finishing /\ Finishing' = Finishing
      BY <1>4 DEF UpdatePartialRecord, CountRemaining, Finishing, GoTo, history
    <2>2. Finishing' = {c}
      BY <2>1 DEF ScheduleInv
    <2>3. pc'[c] = "updateDisbursed" => (remaining'[c] <=> scheduled' # {})
      BY <1>4 DEF UpdatePartialRecord, CountRemaining, GoTo, rows
    <2> QED BY <2>2, <2>3 DEF ScheduleInv, StatusFollowsSchedule
  <1>5. ASSUME NEW c \in Callers, UpdateDisbursed(c), ~disturbed' PROVE ScheduleInv'
    <2>1. /\ ~disturbed /\ c \in Finishing /\ Finishing' = Finishing \ {c}
          /\ scheduled' = scheduled
      BY <1>5 DEF UpdateDisbursed, Finishing, GoTo, Done, history
    <2>2. Finishing' = {} /\ (remaining[c] <=> scheduled # {})
      BY <1>5, <2>1 DEF ScheduleInv, UpdateDisbursed
    <2>3. status' = IF scheduled = {} THEN "DISBURSED" ELSE "PARTIALLY_DISBURSED"
      BY <1>5, <2>2 DEF UpdateDisbursed
    <2> QED BY <2>1, <2>2, <2>3 DEF ScheduleInv, StatusFollowsSchedule
  <1>6. ASSUME NEW c \in Callers, CallFails(c), c \in Finishing PROVE ScheduleInv'
    <2>1. disturbed'
      BY <1>6 DEF CallFails
    <2> QED BY <2>1 DEF ScheduleInv
  <1>7. CASE UNCHANGED vars
    BY <1>7 DEF vars, rows, args, history, ScheduleInv, StatusFollowsSchedule, Finishing
  <1>8. CASE disturbed'
    BY <1>8 DEF ScheduleInv
  <1>9. ASSUME NEW c \in Callers, Call(c), ~disturbed' PROVE ScheduleInv'
    BY <1>1, <1>2, <1>3, <1>4, <1>5, <1>6, <1>9, Zenon DEF Call
  <1> QED BY <1>7, <1>8, <1>9 DEF Next

\* Once the calls are over the status is the one the schedule calls for, unless two of
\* them overlapped, one failed half way, or an approval was recorded after the payment.
THEOREM StatusFollowsScheduleHolds == Spec => []StatusFollowsSchedule
  <1>1. ScheduleInv => StatusFollowsSchedule
    BY DEF ScheduleInv, StatusFollowsSchedule
  <1> QED BY <1>1, InitScheduleInv, StepScheduleInv, StatusInvariant, PTL DEF Spec
=============================================================================
