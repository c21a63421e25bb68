# Verification of the insurance platform

TLA+ models of the platform in `src/` (a NestJS back end whose claim and quote
processes run as Temporal workflows over PostgreSQL), the TLC configurations that
check them, and theorems about them proved with TLAPS.

- [The system](#the-system): components, state, operations, interactions
- [What is hard](#what-is-hard), and the property that makes each component correct
- [Modules](#modules) and how they correspond to the code
- [Runs](#runs), bounds, fairness
- [Theorems](#theorems)
- [Findings](#findings) and observations
- [Not modelled](#not-modelled) and [what is left](#what-is-left)

`PROJECT.json` lists components, runs, the lines every definition stands for, the mutation
of each property, the hazards and the theorems. In a module, an operator named `Fault...`
is the definition after it with a plausible mistake; nothing uses it except the mutation
check, which puts it in that definition's place and expects the property to fail.

## The system

| Component | State | Operations | Talks to |
|---|---|---|---|
| Claim workflow (`temporal/workflows/claim.workflow.ts`) | a coroutine: status, signal buffers, schedule, totals | validate, investigate, three human gates, payout in full or in installments, close, reopen | activities (at least once), signals from the services, timers |
| Quote workflow (`temporal/workflows/quote.workflow.ts`) | a coroutine: status, approval level, lock of the round, signal buffers | risk, eligibility, premium, review loop with lock, SLA timer and escalation, issue | activities, signals, timers |
| Underwriting service | `underwriting_cases`, `_locks`, `_decisions` | createCase, acquireLock, releaseLock, recordDecision, escalate | quote workflow's activities, REST |
| Finance payout service | `payout_requests`, `_approvals`, `_partial_records`, `_disbursements`; the gateway | createPayoutRequest, recordApproval, disburse, submitApproval | claim workflow's activities, REST, payment gateway |
| Claim service, fraud review service | `claims` and its status history, reopen counter | submit (with duplicate check), updateStatus, reopen, createInvestigation, createAssessment, signals | claim workflow, REST |
| Quote service | `quotes`, `premium_snapshots` | create, submit, cancel, updateStatus, lock snapshot | quote workflow, REST |
| Policy service | `policies`, history | issue, transitionStatus, validations at claim time | both workflows, REST |
| Rule engine | rule tables, a cache with expiry | load, evaluate, score, price | activities |
| Product versions | `product_versions` | createVersion, publish | REST |
| Audit log, notifications | append-only rows | log (swallows its errors) | everybody |
| Worker and client (`temporal/worker/worker.ts`) | workflow ids, timeouts | start, get handle | services, Temporal |
| IAM, tenancy, reporting, dashboard, seed, Flutter admin application | - | per-request checks, queries, screens | - |

The services start a workflow and signal it; the workflow calls activities; the
activities call the services, which write the database. The REST endpoints call the same
service methods, so the same row is written by a workflow's activity and by a request at
once. No method opens a database transaction: every statement commits alone.

## What is hard

- **Claim workflow.** Signals arrive at any moment and only overwrite a buffer; the code
  clears a buffer after asking the reviewers and reads it again after later awaits. Money
  leaves through activities that run at least once. It is correct if money moves only
  behind the recorded decisions and not beyond them, a withdrawal wins, stages are not
  skipped, and every wait ends.
- **Quote workflow.** A loop in which a decision, a cancellation and a timer race, the
  level lives both in the workflow and in the case row, an activity raises it and may be
  retried, and the underwriting desk raises it by requests the run does not hear of. It is
  correct if a policy needs a fresh recorded approval and no cancellation before it, an
  expired review brings in a higher reviewer whatever the desk does, and the loop ends.
- **Underwriting service.** Check-then-insert of a lock, save-then-update of a decision,
  read-then-write of a level, by overlapping calls that may die in between.
- **Finance payout service.** Look up, pay, record: a window in which a second attempt, or
  the retry of a dead one, pays again; a status computed from a count that may be stale.
- **Claim service.** Duplicate check and insert are two statements; a signal that fails is
  taken for a run that is gone, and the service does the run's work; a timed-out attempt
  goes on beside its repetition. It is correct if no duplicate gets past both checks, a
  payout is requested once, and history and reopen counter agree with what was done.
- **Quote and policy service.** The run and the requests write one row; a cancellation is
  a signal or a write, depending on a column that is set after the run starts; issuing is
  several statements and is retried. It is correct if a policy stands on a locked premium,
  a quote that says ISSUED has one, an acknowledged cancellation is heard, and a policy's
  transitions follow its lifecycle.
- **Rule engine.** A cache per process, filled after a database round trip and invalidated
  in between, by one process only; two lists of events, of which one does not say which
  rule fired and takes the event type for its name. It is correct if a load sees what it
  must, and rules that fired count in the outcome.

## Modules

| Module | Models | Its MC module | Proofs |
|---|---|---|---|
| `ClaimLifecycle`, `QuoteLifecycle` | the statuses, as the workflows and as the columns know them, and the order of the writes | - | - |
| `ClaimPromise`, `QuotePromise` | the abstract claim and quote: row, decision on record, money or policy, and nothing else | - | - |
| `ClaimWorkflow` | the claim workflow and what its activities leave behind; implements `ClaimPromise` | `MCClaimWorkflow` | `ClaimWorkflowProofs`, `ClaimPromiseProofs` |
| `QuoteWorkflow` | the quote workflow and what its activities leave behind; implements `QuotePromise` | `MCQuoteWorkflow` | `QuoteWorkflowProofs` |
| `UnderwritingService` | the calls on one underwriting case, statement by statement | `MCUnderwritingService` | `UnderwritingServiceProofs` |
| `FinancePayout` | the calls on one payout request, statement by statement | `MCFinancePayout` | `FinancePayoutProofs` |
| `ClaimService` | the claims of one coverage, their runs, and the calls on their rows | `MCClaimService` | `ClaimServiceProofs` |
| `Issuance` | one quote, its snapshots and its policy: quote, pricing and policy service with the run | `MCIssuance` | `IssuanceProofs` |
| `RuleScoring` | what an evaluation makes of the rules that fired: functions, no state | - | - |
| `RuleEngine` | loading, caching, creating and evaluating rules in several processes | `MCRuleEngine` | `RuleEngineProofs` |

**The workflow modules.** Workflow code runs without interruption between two awaits, so
an action is "what is awaited resolves, and the code runs to the next await"; `pc` names
the await, the variables are the workflow state, the locals that outlive an await, the
signal buffers, and what the activities wrote (`dbStatus`, `record`, `paidKeys`, ...).
`updateClaimStatus` is one await with many continuations: `StatusWritten` picks the one
for the status just written. A handler (`DecisionSignal`, `CancelQuoteSignal`, ...) is an
action that may run whenever the run is live. `ActivityThrows` is an activity out of
retries, with its effect done or not done; it goes to the catch block, whose write may
fail as well. A retried activity whose effect is idempotent looks like one that ran once;
`Escalated` is the one that is not. `DeskEscalates` and `DeskDecides` are the REST
endpoints of the underwriting case the quote run is about: they may come at any await, write
the case (`caseLevel`, a decision that is not the run's `record`) and tell the run nothing.
`ExecutionTimedOut` is Temporal's execution timeout.
History variables (`asked`, `accepted`, `stale`, `overtaken`, ...) are never read by an
action's guard.

Amounts are cents and small numbers; payload sets are CONSTANTS. A fraud decision, an
assessment and a finance decision pass through three gates of one shape, so the gate is one
set of actions with a parameter. Validation's four parallel checks are one outcome.

**The service modules.** A call is a program counter over database statements. `CallFails`
ends one between any two of them. Unique constraints and enum columns refuse what the
database refuses, which is where calls throw half way. `UnderwritingService` takes
createCase as its initial state, `FinancePayout` createPayoutRequest, with and without an
installment schedule: the interface accepts one although no caller passes it (see
Findings). A lock's expiry is a flag that time sets. In `FinancePayout` the workflow's key
names its installment, and the pay endpoint's key is new each time; the stub gateway makes
a transaction per call, which is what a gateway that ignores the key does.

`ClaimService` and `Issuance` compose the services with the workflow run that calls them.
The run is reduced to its contract: it writes statuses in the order of the lifecycle
module (which its own module is shown to do) and calls the activity a status calls for.
`AttemptStarts`, `AttemptTimesOut` and `RetriesExhausted` are Temporal's side of an
activity: an attempt that timed out goes on running and writing while it is repeated, and
`Return` lets the run go on only for the attempt it still waits for. `column` is chosen
at the start: the columns as they are, where half of the workflow's statuses are refused
and the compensation takes over, or columns that accept them all. Inserts of rows that
nothing modelled reads are left out, and the risk, eligibility and notification activities
of a run are steps that succeed or make it compensate.

`RuleEngine` splits a load where it waits for the database. Time is a counter of ticks up
to the TTL; `savedFor`, `acked`, `late`, `owed` and `excused` are history that says which
rules a load must see. Rules are abstract: any loaded rule may fire, and what is made of
those that did is `RuleScoring`, for any order in which equal priorities are loaded and
fire. Rules have free-text names, and `FindByName` looks an event type up among them as the
code does. A stored definition is taken to carry no name or priority
of its own that would replace the row's.

**How they fit.** The workflow modules take activities at the level of their interfaces.
`ClaimWorkflow` takes `disburseFunds` to move money once per key; `FinancePayout` shows
what the service guarantees of that: once, unless an attempt overlapped with another or
died between gateway and row (`PaidOncePerKey`). `QuoteWorkflow` takes an escalation, the
run's or the desk's, as one write of a level; `UnderwritingService` splits it into its
statements and shows when the level counts escalations exactly (`LevelCountsEscalations`).
What overlapping ones make of it, any level from 2 on, is what `DeskEscalates` may write. In the other direction `ClaimService` and
`Issuance` take from the workflows the order of their writes (`KeepsPromise`), and that no
approval is taken up after a cancellation was signalled (`CancelHonoured`).

**The refinements.** `KeepsPromise` is `Promise!Spec` under a mapping of `dbStatus`, the
decision on record (`Decided`), the keys paid or the snapshot and policy, and whether the
run is over. So everything those who see only these can observe of a run is a behaviour of
a specification one page long: the row follows the lifecycle and never says more than was
decided or done, money leaves once per key and never in full and in installments, a policy
comes once and on a locked premium, and a run that is over changes nothing.

## Runs

| Run | Instance | Shows |
|---|---|---|
| `claim` | 2 fraud decisions, nets {0, 3}, 6 finance payloads, reopen limits {0, 1} | the safety properties of the claim, and that it implements `ClaimPromise` |
| `claim_liveness` | one payload per gate, no view | `Termination`, `WithdrawalAnswered` |
| `claim_escalated_payout` | as `claim` | violation: pays on ESCALATE |
| `claim_reopen` | as `claim` | violation: reopen signal never seen |
| `quote` | each decision once, levels 1 to 3 | safety and liveness of the quote with the desk's requests among its steps, and that it implements `QuotePromise` |
| `quote_senior` | as `quote` | violation: issued on a level 1 decision |
| `underwriting` | 2 calls at once, 2 underwriters, 2 tokens, 3 escalations | lock exclusion, status and level against what is on record |
| `underwriting_lock` | no escalations | violation: a case is locked once in its life |
| `finance` | 2 calls at once, 4 calls in all, installments {1, 2}, one made-up key | money against books, status against schedule |
| `claims` | 2 claims a week apart, 2 calls at once, 1 desk call, 1 failure | duplicates, history, payout requests, reopen counter |
| `issuance` | 2 calls at once, 2 snapshots, 3 requests and failures | snapshot and policy, cancellation, histories, policy lifecycle |
| `rules` | 2 processes, 2 calls at once, 6 rules of which one is created and four are called like a type or another rule, TTL 2 | which rules a load sees, and what becomes of those that fire |

Seven more configurations show a violation that a finding describes, and are run by hand:
`quote_cancel` and `quote_desk` (with `MCQuoteWorkflow`), `finance_partial` and
`finance_retry` (with `MCFinancePayout`), `claims_fallback` (with `MCClaimService`),
`issuance_cancel` (with `MCIssuance`) and `rules_named` (with `MCRuleEngine`).

**Bounds and why they are enough.** The claim payloads hold one of each kind the code tells
apart: full, full with an amount, rejected, escalated, a schedule one cent short of its
approved amount (the code's tolerance), a schedule that uses a number twice (one key). Two
installments are the shortest schedule with a withdrawal between transfers. Net 0 takes
the reject branch. `TopLevel` = 3: the quote code compares the level with 1 and 2 only, and
`EscalateAttempts` stops at two because two retries already reach 3. Two overlapping calls
reach every race of two; a third adds states (5.3 million for `underwriting`, no error)
and no new order of two statements. Three escalations let a slow one write a level that
two quick ones have passed. Four calls are two disbursements, a retry and an approval.
`claim` is explored under `View`, which drops a buffer no code ahead reads: such a buffer
changes no guard and no write.
In `claims`, `lossDay` puts the claims on both ends of the window, `Written` lets one run
come to every activity and the other to the validation's outcomes (the rest of either
lifecycle writes rows no property tells apart), `DeskMethods` lets the desk assess, which
is the call with a fallback and a payout request, and one failure (`MaxFaults`: a call that
fails, an attempt or a run that times out) is what every race here needs; three reopenings
per claim are out of reach of one run, so the counter's limit rests on the theorem. In
`issuance`, `MaxEvents` bounds requests and failures together: a cancellation, a
transition and an attempt that times out, or three overlapping requests, are the longest
stories the properties tell apart. `Written` has one status for a review and one for an
approval. In `rules`, two ticks to the TTL are enough for an entry to be young, old and
expired. The rules are three flags of which two reach the fraud threshold only together and
the third is called `fraud_flag`, so that its own event is lost when another fires first;
one of the others is called like the hard-coded rule; an addition that is called
`ineligible` and lends its id to the refusal's event, a multiplier that does so to the
addition's, and a refusal. What a set of rules makes of the two lists depends on nothing
else, so `Counted` is a constant that TLC computes once.
`CHECK_DEADLOCK FALSE` stands where the system really stops: a workflow that has ended,
and, in `finance`, `claims` and `issuance`, the calls that are over; in `rules` time never
stops and nothing depends on the setting.

**Fairness.** `FairSpec` adds `WF_vars(Step)`: Temporal keeps driving a running workflow,
activities end because their retries and timeouts are bounded, and timers fire. No
fairness is assumed of a signal, nor of the execution timeout. `QuietRunEnds` is stated as
"signals go on for ever, or the run ends": a run fed with additional-information requests
for ever is not obliged to end (other than by its execution timeout). The service modules
have no fairness: a call may die at any point, and only safety is claimed.

**What each property says** is in the comment above it. The ones worth reading first:
`FinanceGate`, `PaysWhatWasRecorded`, `WithdrawalHonoured` (claim), `IssuedOnApproval`,
`CancelHonoured`, `EscalationsCount` (quote), `StatusIsLatest` (underwriting), `PaidOncePerKey`,
`BooksMatch` (finance), `KeepsPromise` (both workflows), `DuplicatesCaught` (claims),
`CancellationHeard` and `FollowsLifecycle` (issuance), `RulesSeen` and `FiredRulesCount`
(rules).

## Theorems

All proofs are for every value of the constants and use only the named assumptions on them.

- `ClaimWorkflowProofs`. `TypeCorrect` needs more than `TypeOK`: the code reads the
  assessment and finance buffers again after later awaits, so `BufferInv` says they are
  filled by then and `LoopInv` that the installment index is in range. `FraudGateHolds` and
  `FinanceGateHolds` follow from `GateInv`: each stage's record is there when the stage is
  reached (`RecordInv`), and once money has left, the run is past every step that could
  change a record (`AfterPayment`). `WithdrawalHonouredHolds` follows from `WithdrawalInv`:
  no finance decision is accepted while a withdrawal is pending, and a transfer made after
  one is followed by a test for it. `FreshDecisionsHold` follows from `FreshInv`: a gate
  that waits has been asked, and asking empties its buffer.
  `PaysWhatWasRecordedHolds` and `PaidIsPaidHolds` rest on `AmountInv`, which follows an
  amount from the signal to the row: a gate takes one decision, which is in flight or on
  record only then (`TakenInv`); until another one is signalled, buffer, decision in flight
  and record agree (`SameInv`), so the schedule or the amount of the payout is the recorded
  one (`AgreedInv`); what has left is bounded by the running total up to the installment
  the loop is at (`LoopMoneyInv`); and what the run counts as paid has left, since a
  schedule that numbers its installments apart repeats no key (`ReportedInv`). `StepAmount`
  has a lemma per part and names the steps that can disturb it.
- `QuoteWorkflowProofs`. `TypeCorrect` needs `RaceInv`: a review that ended without its
  timer has a decision or a cancellation, so the decision recorded is never empty. Three
  safety theorems share `SafetyInv`: approval on record behind every later stage, an empty
  buffer behind every wait, and no approval taken while a cancellation is pending.
  `EscalationsCountHolds` follows from `LevelsInv`: until the run has failed, its level is
  the case's or the case was written from outside since (`LevelInv`), and a run at level 1
  whose risk calls for no senior has its first expiry still before it (`GraceInv`). Both
  are kept by any write of the desk.
- `UnderwritingServiceProofs`. `CallInv`: a call that updates the case has its decision
  saved; hence `StatusBacked`. `OneRow`: the unique constraint allows one row, hence
  `OneActiveLock`, without any help from the check `acquireLock` makes. `LevelInv`: without
  overlap the one escalation in progress has read the current level. `LatestInv`: until
  something tears a decision from its update, one update at most is in progress and it is
  the latest decision's; hence `StatusIsLatest`.
- `FinancePayoutProofs`. `KeyInv(k)`: a key nobody overlapped or failed on has at most one
  attempt, on the only path from unpaid to recorded; hence `PaidOncePerKey` and
  `BooksMatch`. `StatusInv`: a count that found nothing stays true because the schedule only
  shrinks; hence `StatusBacked`. `ScheduleInv`: undisturbed, one call at most is between
  its disbursement and the status, and what it counted still holds; hence
  `StatusFollowsSchedule`.
- `ClaimPromiseProofs` and `QuoteWorkflowProofs` (`ImplementsPromise`). The step simulation
  needs `StageInv` (for the claim in `ClaimWorkflowProofs`, where the amounts need it too):
  what is awaited tells the status (`StatusAt`), the row is one write behind it while that write is in flight (`RowInv`), and the decision is on record where it
  must be (`PayoutInv`, `DecidedInv`). Every action is then one step of the promise or none.
- `ClaimServiceProofs`. One invariant for five theorems: which method is at which statement
  (`Placed`), a run and the attempt it waits for agree (`RunInStep`), a claim is submitted
  by one call (`Created`), and a part per property: `Apart` (two submissions past their
  checks were seen to race), `Recorded`, `Requested` (only the run's one attempt is about
  to request a payout), `Counted` (what was read of the counter is current unless another
  call is about to write it).
- `IssuanceProofs`. The same shape: `Backed` and `Issued` (a run that writes ISSUED has its
  policy, whose snapshot is locked and never unlocked), `Cancellation` (an acknowledged one
  is in the buffer, or was written past the run, or found it over), `Moves` (a transition in
  progress is one the lifecycle allows unless overtaken).
- `RuleEngineProofs`. `EntriesFresh`: what an entry lacks, and did not lack when it was
  stored, is not acknowledged in its process and no older than the entry. `OwedKept`: a load
  is owed no more than when it began. `FiredRulesCountHolds` is about the scoring itself,
  for any rules, names, weights and priorities. The first event of a type is kept, whatever
  id it was given (`FiringsFound`), so no refusal and no decline is lost. An event of the
  second list is kept unless its rule is the one `FindByName` finds for its type
  (`RuleEventsKept`: a rule fires once, and no other event of the type has its id), so the
  score is at least what the other rules weigh (`TotalOfEnd`: a list sums to no less than
  its end does, if nothing before that end is negative), factors of one or more leave at
  least that (`ScaledGrows`), and a higher score never has a lower band (`BandsRise`).

**Sums.** Totals and scores are recursive functions along a sequence. Nothing is known of
one but a `CHOOSE`, so the proofs show first that a function with its equation exists
(`RunningTotalDef`, `Recursion`, `RunningSumDef`, `ScaledDef`). The induction that takes is
stated for a set of numbers (`Induction`), because the library's takes an operator, and
follows from the least element of a set that is not empty (`LeastNumber`, from the
library's `NatLessThanWellFounded` and `WFMin`).

**Only model-checked.** The liveness properties (`Termination`, `WithdrawalAnswered`,
`QuietRunEnds`, `CancelAnswered`): TLAPS proves nothing under fairness and nothing about
ENABLED. Every safety invariant and action property of the runs is a theorem.

**What the proofs found.** `FiredRulesCount` used to be stated without `Raising`, and let a
rule that adds points count for its `score_weight`. The instance did not tell, the proof
did: a negative weight counts twice (once without its rule), a factor below one
lowers a band, and `rules-crud.service.ts` stores a definition as it is given; and
`risk-score.service.ts:108` takes absent points for 0. Refusals, declines and amounts over
the limit need no such condition.

`UnderwritingServiceProofs.StatusBackedHolds` is proved and no run of its own: no mistake
in one definition breaks it alone.

## Findings

TLC finds the violation in each, in the run or the configuration named.

1. A finance decision of ESCALATE disburses the claim: only REJECT stops the payout
   (`claim_escalated_payout`).
2. A reopen signal sent during the 180-day wait is never seen: the condition tests a
   parameter passed by value (`claim_reopen`).
3. A quote whose risk requires a senior review is issued on a level 1 decision
   (`quote_senior`).
4. A cancellation that ends the wait for a reviewer leaves the quote UNDER_REVIEW
   (`quote_cancel.cfg`).
5. A lock that was released or expired can never be replaced: the unique constraint counts
   inactive rows (`underwriting_lock`). In the workflow this is the failing
   `acquireUnderwritingLock` of every round after the first, which it swallows.
6. The installments of a partial approval are never stored, so the first disbursement makes
   the request DISBURSED (`finance_partial.cfg`).
7. When the signal of an assessment fails, the service requests a payout itself, for a claim
   whose run never came to the finance review, is over or was never started
   (`claims_fallback.cfg`).
8. A decision recorded by `POST /underwriting/:id/approve` or `reject` signals nobody: the
   review of the run that waits for it expires, and rejects the quote in the end
   (`quote_desk.cfg`). The level the desk raises is not asked either: the run goes on with
   its copy.
9. A cancellation between the start of the run and the write of its id is acknowledged, and
   the run issues the policy all the same (`issuance_cancel.cfg`).
10. A rule that is called like its event type is lost when another rule of that type fires
    before it: two fraud rules of 20 and 40, the second named `fraud_flag`, score 40 and
    escalate nothing (`rules_named.cfg`).
11. The retry of a disbursement that died between the gateway and its row pays again: the
    idempotency key is looked up in a table that does not have it yet (`finance_retry.cfg`).

Observations, without a run:

- `worker.ts:79-90` resolves services by string tokens no module registers, and
  `quote.activities.ts:233` calls `updateStatus` with positional arguments where the service
  takes one object. The workflow modules model the workflow code over the activity
  interfaces, not this wiring.
- The enum columns (`common/enums/index.ts`) lack statuses the workflows write (ASSESSMENT,
  FINANCE_REVIEW, VALIDATION_PENDING, RISK_PROFILING, QUOTED, PENDING_SENIOR_REVIEW, ...).
  Over the real columns the first status write of a run is refused and the run
  compensates: `claims` and `issuance` explore that, and the columns that accept
  everything. `ClaimWorkflow` and `QuoteWorkflow` assume storage that accepts them.
- `createAssessment` signals the assessment it is recording back to the workflow: the echo
  is `DecisionSignal`. A signal that fails inside the run's own activity makes the
  fallback's payout request, and the run makes its own later (the `disrupted` claims of
  `RequestedOnce`). `createInvestigation` signals completion itself, which the reset at
  `claim.workflow.ts:315` may discard.
- Two claims of one loss submitted across each other's checks fail each other's validation:
  both runs find the other's row. A claim whose validation failed still counts as a
  duplicate of a later one until it is closed.
- `reopen` writes no history row, and a run reopens its claim at most once.
- An issue repeated after a lost answer is refused by the unique index, and one whose
  notification fails afterwards is compensated: either way the quote may say CANCELLED
  while its policy exists. `issue` checks neither that the quote is approved nor that
  the snapshot named is the quote's; `calculate` makes new snapshots beside a locked one.
- The first event of each type comes twice out of an evaluation, once without its rule's
  id or with that of a rule that is called like the type. A fraud rule without a weight in
  its params then counts its column's weight and 10, or the namesake's weight, more, so the
  score may pass a threshold its rules do not reach; unless a weight is negative or a rule
  is called like its type (finding 10) it never misses one (`FiredRulesCount`). A rule
  called `AMOUNT_MULTIPLIER_THRESHOLD` takes the hard-coded rule's 50 points away, not its
  escalation. `evaluateFraudRules` leaves the average amount out of the facts, so a claim
  may be escalated with risk level LOW. Nothing calls `RiskScoreService`.
- A rule created through one process is seen by another up to a TTL later.
- `disburse` never looks at the request's status or approvals; in the workflow the gates
  protect it, on the pay endpoint nothing does.

## Not modelled

Audit log and notifications (no other state depends on them; a failing audit call in an
activity is a failing activity), IAM and tenancy (stateless per request, and every query is
per tenant), reporting, dashboard, seed, the Flutter application (reads and screens), the
condition language of rules (the json-rules-engine library), premium arithmetic
(`pricing-rule.service.ts` between its reads and its insert: sums without control the
properties depend on; the cache entry of the pricing rules works as the others do), product versions, endorsements and coverages of a policy,
`invalidateVersionCache` and `clearAll` of the loader (nothing calls them).

## What is left

1. Product versions (`createVersion` by max+1 from overlapping calls) and the premium as a
   function of the matched rules, checked against a reference over small inputs.
2. An abstract idempotent payment that `FinancePayout` implements while no key is exposed.
