--------------------------- MODULE FinancePayout ---------------------------
(***************************************************************************)
(* One payout request: approvals and disbursements as overlapping calls    *)
(* execute them, src/src/modules/finance/services/finance-payout.service.ts*)
(*                                                                         *)
(* The claim workflow disburses under a key of the installment and repeats *)
(* an attempt that failed or timed out, while the old one may still be     *)
(* running; POST /:payoutRequestId/pay makes up a new key each time.  No   *)
(* call runs in a transaction: every database statement, and the call of   *)
(* the payment gateway, is a step, and a call may fail between two of them.*)
(***************************************************************************)
EXTENDS Naturals

CONSTANTS
    Callers,            \* calls that may be in progress at once
    InstallmentNos,     \* installment numbers
    FreshKeys,          \* uuid keys the pay endpoint may make up
    MaxCalls            \* bound on the calls explored

\* dto.installmentNumber of a full payout
NoInstallment == 0

ASSUME InstallmentNosAssumption == InstallmentNos \subseteq Nat \ {NoInstallment}
ASSUME MaxCallsAssumption == MaxCalls \in Nat

\* The workflow's keys are told apart by the installment, ":full-payout" being 0.
Numbers == InstallmentNos \cup {NoInstallment}
Keys == Numbers \cup FreshKeys

FinanceDecision == {"APPROVE_FULL", "APPROVE_PARTIAL", "REJECT", "ESCALATE"}

\* The values the column payout_requests.status takes; the database refuses any other.
PayoutStatus ==
    {"PENDING_APPROVAL", "PARTIALLY_APPROVED", "APPROVED", "REJECTED",
     "DISBURSED", "PARTIALLY_DISBURSED", "FAILED", "CANCELLED"}

mapDecisionToStatus ==
    [APPROVE_FULL |-> "APPROVED", APPROVE_PARTIAL |-> "APPROVED",
     REJECT |-> "REJECTED", ESCALATE |-> "ESCALATED"]

VARIABLES
    status,             \* payout_requests.status
    approvals,          \* decisions saved in payout_approvals
    scheduled,          \* installments whose payout_partial_records row is SCHEDULED
    disbursements,      \* keys of payout_disbursements
    transactions,       \* transactions the gateway made for each key
    \* per call: the statement it executes next, and what it was given or has read
    pc,
    decision,           \* recordApproval
    key, installment,   \* disburse
    remaining,          \* disburse: whether the count found records left
    \* history
    calls,              \* calls made
    promised,           \* installments of the approval recorded last
    exposed,            \* keys a second attempt, or a failure, met between lookup and save
    disturbed           \* the status was written, or not written, across another call

rows == <<status, approvals, scheduled, disbursements>>
args == <<decision, key, installment, remaining>>
history == <<calls, promised, exposed, disturbed>>
vars == <<rows, transactions, pc, args, history>>

Statements ==
    {"idle", "saveApproval", "updateApproved", "pay", "save", "updateRecord", "count",
     "updateDisbursed"}

\* createPayoutRequest, with or without an installment schedule
Init ==
    /\ status = "PENDING_APPROVAL"
    /\ approvals = {} /\ disbursements = {}
    /\ scheduled \in {{}, InstallmentNos}
    /\ transactions = [k \in Keys |-> 0]
    /\ pc = [c \in Callers |-> "idle"]
    /\ decision = [c \in Callers |-> "APPROVE_FULL"]
    /\ key = [c \in Callers |-> NoInstallment]
    /\ installment = [c \in Callers |-> NoInstallment]
    /\ remaining = [c \in Callers |-> FALSE]
    /\ calls = 0 /\ promised = {} /\ exposed = {} /\ disturbed = FALSE

-----------------------------------------------------------------------------
(* Helpers.  A Fault... operator is the definition that follows it with a mistake in   *)
(* it; nothing refers to one, the mutation checks put it in place.                     *)

\* A call is made; MaxCalls is the model's bound, not the code's.
Begin(c, l) ==
    /\ pc[c] = "idle" /\ calls < MaxCalls
    /\ calls' = calls + 1
    /\ pc' = [pc EXCEPT ![c] = l]

GoTo(c, l) == pc' = [pc EXCEPT ![c] = l]

\* The call returns or throws; its locals are gone.
Done(c) ==
    /\ GoTo(c, "idle")
    /\ decision' = [decision EXCEPT ![c] = "APPROVE_FULL"]
    /\ key' = [key EXCEPT ![c] = NoInstallment]
    /\ installment' = [installment EXCEPT ![c] = NoInstallment]
    /\ remaining' = [remaining EXCEPT ![c] = FALSE]

\* Attempts that looked key k up, and have not saved its row yet
Paying(k) == {c \in Callers : pc[c] \in {"pay", "save"} /\ key[c] = k}

\* Calls that have saved a disbursement, and not written the status yet
Finishing == {c \in Callers : pc[c] \in {"updateRecord", "count", "updateDisbursed"}}

-----------------------------------------------------------------------------
(* recordApproval, for the workflow or as the manual fallback of            *)
(* submitApproval; it does not look at the request's status.               *)

RecordApproval(c) ==
    /\ Begin(c, "saveApproval")
    /\ \E d \in FinanceDecision : decision' = [decision EXCEPT ![c] = d]
    /\ UNCHANGED <<rows, transactions, key, installment, remaining,
                   promised, exposed, disturbed>>

\* The installments of a partial approval are not stored.
SaveApproval(c) ==
    /\ pc[c] = "saveApproval"
    /\ approvals' = approvals \cup {decision[c]}
    /\ GoTo(c, "updateApproved")
    /\ UNCHANGED <<status, scheduled, disbursements, transactions, args, history>>

FaultUpdateApproved(c) ==
    /\ pc[c] = "updateApproved"
    /\ status' = mapDecisionToStatus[decision[c]]
    /\ promised' = IF decision[c] = "APPROVE_PARTIAL" THEN InstallmentNos ELSE {}
    /\ disturbed' = (disturbed \/ disbursements # {})
    /\ Done(c)
    /\ UNCHANGED <<approvals, scheduled, disbursements, transactions, calls, exposed>>

\* The column refuses ESCALATED: the call throws with its approval saved.
UpdateApproved(c) ==
    /\ pc[c] = "updateApproved"
    /\ status' = IF mapDecisionToStatus[decision[c]] \in PayoutStatus
                 THEN mapDecisionToStatus[decision[c]] ELSE status
    /\ promised' = IF decision[c] = "APPROVE_PARTIAL" THEN InstallmentNos ELSE {}
    /\ disturbed' = (disturbed \/ disbursements # {})
    /\ Done(c)
    /\ UNCHANGED <<approvals, scheduled, disbursements, transactions, calls, exposed>>

-----------------------------------------------------------------------------
(* disburse                                                                *)

\* The key and the installment the workflow, or the pay endpoint, calls it with: the
\* endpoint's key is one nothing was paid under, the workflow's names its installment.
Dto(k, i) == IF k \in FreshKeys THEN transactions[k] = 0 /\ Paying(k) = {} ELSE i = k

FaultDisburse(c) ==
    /\ Begin(c, "pay")
    /\ \E k \in Keys, i \in Numbers :
           /\ Dto(k, i)
           /\ key' = [key EXCEPT ![c] = k]
           /\ installment' = [installment EXCEPT ![c] = i]
           /\ exposed' = IF Paying(k) = {} THEN exposed ELSE exposed \cup {k}
    /\ UNCHANGED <<rows, transactions, decision, remaining, promised, disturbed>>

\* The lookup of the key finds no row; had it found one, disburse would return it.
Disburse(c) ==
    /\ Begin(c, "pay")
    /\ \E k \in Keys \ disbursements, i \in Numbers :
           /\ Dto(k, i)
           /\ key' = [key EXCEPT ![c] = k]
           /\ installment' = [installment EXCEPT ![c] = i]
           /\ exposed' = IF Paying(k) = {} THEN exposed ELSE exposed \cup {k}
    /\ UNCHANGED <<rows, transactions, decision, remaining, promised, disturbed>>

\* callPaymentGateway: each call is a transaction of its own.
CallPaymentGateway(c) ==
    /\ pc[c] = "pay"
    /\ transactions' = [transactions EXCEPT ![key[c]] = @ + 1]
    /\ GoTo(c, "save")
    /\ UNCHANGED <<rows, args, history>>

FaultSaveDisbursement(c) ==
    /\ pc[c] = "save"
    /\ disbursements' = disbursements \cup {installment[c]}
    /\ disturbed' = (disturbed \/ Finishing # {})
    /\ GoTo(c, IF installment[c] # NoInstallment THEN "updateRecord" ELSE "count")
    /\ UNCHANGED <<status, approvals, scheduled, transactions, args,
                   calls, promised, exposed>>

\* idempotency_key is unique: the insert of a second row for the key throws.
SaveDisbursement(c) ==
    /\ pc[c] = "save"
    /\ \/ /\ key[c] \notin disbursements
          /\ disbursements' = disbursements \cup {key[c]}
          /\ disturbed' = (disturbed \/ Finishing # {})
          /\ GoTo(c, IF installment[c] # NoInstallment THEN "updateRecord" ELSE "count")
          /\ UNCHANGED args
       \/ /\ key[c] \in disbursements
          /\ Done(c)
          /\ UNCHANGED <<disbursements, disturbed>>
    /\ UNCHANGED <<status, approvals, scheduled, transactions, calls, promised, exposed>>

UpdatePartialRecord(c) ==
    /\ pc[c] = "updateRecord"
    /\ scheduled' = scheduled \ {installment[c]}
    /\ GoTo(c, "count")
    /\ UNCHANGED <<status, approvals, disbursements, transactions, args, history>>

FaultCountRemaining(c) ==
    /\ pc[c] = "count"
    /\ remaining' = [remaining EXCEPT ![c] = \E i, j \in scheduled : i # j]
    /\ GoTo(c, "updateDisbursed")
    /\ UNCHANGED <<rows, transactions, decision, key, installment, history>>

\* updatePayoutRequestAfterDisbursal: the count, and then the update
CountRemaining(c) ==
    /\ pc[c] = "count"
    /\ remaining' = [remaining EXCEPT ![c] = scheduled # {}]
    /\ GoTo(c, "updateDisbursed")
    /\ UNCHANGED <<rows, transactions, decision, key, installment, history>>

FaultUpdateDisbursed(c) ==
    /\ pc[c] = "updateDisbursed"
    /\ status' = IF installment[c] # NoInstallment THEN "PARTIALLY_DISBURSED" ELSE "DISBURSED"
    /\ Done(c)
    /\ UNCHANGED <<approvals, scheduled, disbursements, transactions, history>>

UpdateDisbursed(c) ==
    /\ pc[c] = "updateDisbursed"
    /\ status' = IF remaining[c] THEN "PARTIALLY_DISBURSED" ELSE "DISBURSED"
    /\ Done(c)
    /\ UNCHANGED <<approvals, scheduled, disbursements, transactions, history>>

-----------------------------------------------------------------------------
\* A statement or the gateway fails, or the process dies: the call goes no further.
CallFails(c) ==
    /\ pc[c] # "idle"
    /\ exposed' = IF pc[c] = "save" THEN exposed \cup {key[c]} ELSE exposed
    /\ disturbed' = (disturbed \/ c \in Finishing)
    /\ Done(c)
    /\ UNCHANGED <<rows, transactions, calls, promised>>

Call(c) ==
    \/ RecordApproval(c) \/ SaveApproval(c) \/ UpdateApproved(c)
    \/ Disburse(c) \/ CallPaymentGateway(c) \/ SaveDisbursement(c)
    \/ UpdatePartialRecord(c) \/ CountRemaining(c) \/ UpdateDisbursed(c)
    \/ CallFails(c)

Next == \E c \in Callers : Call(c)

Spec == Init /\ [][Next]_vars

-----------------------------------------------------------------------------
(* Properties                                                              *)

\* Every variable has its type.
TypeOK ==
    /\ status \in PayoutStatus
    /\ approvals \subseteq FinanceDecision
    /\ scheduled \subseteq InstallmentNos
    /\ disbursements \subseteq Keys
    /\ transactions \in [Keys -> Nat]
    /\ pc \in [Callers -> Statements]
    /\ decision \in [Callers -> FinanceDecision]
    /\ key \in [Callers -> Keys]
    /\ installment \in [Callers -> Numbers]
    /\ remaining \in [Callers -> BOOLEAN]
    /\ calls \in 0..MaxCalls
    /\ promised \subseteq InstallmentNos /\ exposed \subseteq Keys /\ disturbed \in BOOLEAN

\* A key is paid twice only if two attempts at it overlapped before either had saved its
\* row, or one failed after the gateway was called and before its row was saved: in every
\* other order of calls, retries and failures the lookup prevents it.
PaidOncePerKey == \A k \in Keys \ exposed : transactions[k] <= 1

\* "idempotencyKey = workflowId:installment:N prevents double-disburse on retry"
\* (finance-payout.service.ts:15), whatever became of the attempt that is retried.
PaidOnce == \A k \in Keys : transactions[k] <= 1

\* The books agree with the gateway: what is recorded was paid, and what was paid is
\* recorded, except by an attempt in progress or one that failed before saving.
BooksMatch ==
    \A k \in Keys :
        /\ k \in disbursements => transactions[k] >= 1
        /\ transactions[k] >= 1 =>
               k \in disbursements \/ k \in exposed \/ \E c \in Paying(k) : pc[c] = "save"

\* Once the calls are over the status is the one the schedule calls for, unless two of
\* them overlapped, one failed half way, or an approval was recorded after the payment.
StatusFollowsSchedule ==
    disbursements # {} /\ Finishing = {} /\ ~disturbed =>
        status = IF scheduled = {} THEN "DISBURSED" ELSE "PARTIALLY_DISBURSED"

\* The status rests on what is on record: an approval, a rejection, a disbursement; and a
\* request is DISBURSED only when no installment of its schedule is left, however the
\* calls that count them overlap.
StatusBacked ==
    /\ status = "APPROVED" => approvals \cap {"APPROVE_FULL", "APPROVE_PARTIAL"} # {}
    /\ status = "REJECTED" => "REJECT" \in approvals
    /\ status \in {"DISBURSED", "PARTIALLY_DISBURSED"} => disbursements # {}
    /\ status = "DISBURSED" => scheduled = {}

\* A request approved for payment in installments, and paid in those, is DISBURSED only
\* once each of them was paid: until then it is PARTIALLY_DISBURSED.
InstallmentsComplete ==
    status = "DISBURSED" /\ promised # {} /\ disbursements \subseteq promised
        => disbursements = promised
=============================================================================
