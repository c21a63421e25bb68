---------------------------- MODULE RuleScoring ----------------------------
(***************************************************************************)
(* What the rule services make of the rules that fired on one set of       *)
(* facts, src/src/modules/rules/services: the events an evaluation         *)
(* reports, the fraud score, the risk band and the eligibility.  No state. *)
(*                                                                         *)
(* Conditions and facts are abstract: any of the loaded rules may fire.    *)
(***************************************************************************)
EXTENDS Integers, FiniteSets, Sequences, SequencesExt

CONSTANTS
    Rules,              \* rules of one tenant and one product version
    name,               \* what each is called: free text, not unique
    event,              \* type of the event each rule fires
    param,              \* scoreWeight, points or multiplier (in tenths) in its params, or Unset
    scoreWeight,        \* column fraud_rules.score_weight
    priority,           \* column priority; 1 for every fraud rule
    Unset

EventTypes == {"fraud_flag", "risk_score_add", "risk_multiplier", "risk_decline", "ineligible"}

ASSUME RuleScoringAssumption ==
    /\ name \in [Rules -> STRING]
    /\ event \in [Rules -> EventTypes]
    /\ param \in [Rules -> Int \cup {Unset}] /\ Unset \notin Int
    /\ scoreWeight \in [Rules -> Int] /\ priority \in [Rules -> Int]
    \* rules are rows of a table; their ids, unlike their names, are no event types
    /\ IsFiniteSet(Rules) /\ Rules \cap EventTypes = {}

-----------------------------------------------------------------------------
(* A Fault... operator is the definition that follows it with a mistake in it; nothing *)
(* refers to one, the mutation checks put it in place.                                 *)

\* Rules of S by falling priority, in no fixed order among equals
ByPriority(S) ==
    {s \in SetToSeqs(S) : \A i, j \in DOMAIN s : i < j => priority[s[i]] >= priority[s[j]]}

\* engine.run reports the rules that fire in that order.  (json-rules-engine)
Firings(S) == UNION {ByPriority(T) : T \in SUBSET S}

\* The first of the loaded rules called so, whether it fires or not; the text itself if
\* there is none.
FindByName(loaded, text) ==
    LET called == {i \in DOMAIN loaded : name[loaded[i]] = text}
    IN  IF called = {} THEN text
        ELSE loaded[CHOOSE i \in called : \A j \in called : i <= j]

\* The engine's own list of events does not say which rule fired: the type is looked up
\* among the names of the rules, and stands in for the id if no rule is called so.
RawEvent(loaded, r) == [ruleId |-> FindByName(loaded, event[r]), of |-> r]
RuleEvent(r) == [ruleId |-> r, of |-> r]

\* The events that are kept, by their place: the first of each rule id and type.
DeduplicateEvents(events) ==
    {i \in DOMAIN events : \A j \in 1..(i - 1) :
        \/ events[j].ruleId # events[i].ruleId
        \/ event[events[j].of] # event[events[i].of]}

\* Without the second list, two rules with one event type are one event.
FaultTriggered(loaded, fired) == [i \in DOMAIN fired |-> RawEvent(loaded, fired[i])]

\* evaluate: both lists.  The first rule fired of each type comes twice; a rule called like
\* its own type, once it is not the first, is taken for it and does not come at all.
Triggered(loaded, fired) ==
    [i \in DOMAIN fired |-> RawEvent(loaded, fired[i])]
        \o [i \in DOMAIN fired |-> RuleEvent(fired[i])]

\* The kept events of one type
OfType(events, type) == {i \in DeduplicateEvents(events) : event[events[i].of] = type}

-----------------------------------------------------------------------------
(* Scores add up along a list.                                                        *)

\* The sum of the first n numbers of a sequence, for each n
RunningSum(seq) ==
    LET sum[n \in 0..Len(seq)] == IF n = 0 THEN 0 ELSE sum[n - 1] + seq[n]
    IN  sum

Total(seq) == RunningSum(seq)[Len(seq)]

-----------------------------------------------------------------------------
(* Fraud: fraud-rule.service.ts and the activity evaluateFraudRules                   *)

ESCALATION_THRESHOLD == 50
CRITICAL_THRESHOLD == 75

\* ev.params.scoreWeight ?? meta?.scoreWeight ?? 10: the meta is that of the event's id,
\* if that is a rule's.
Weight(ev) ==
    IF param[ev.of] # Unset THEN param[ev.of]
    ELSE IF ev.ruleId \in Rules THEN scoreWeight[ev.ruleId] ELSE 10

\* The hard rule adds its points unless some flag already bears its name.
FraudScore(loaded, fired, hardRule) ==
    LET events == Triggered(loaded, fired)
        flags == OfType(events, "fraud_flag")
        alreadyFlagged == \E i \in flags :
            events[i].ruleId \in Rules /\ name[events[i].ruleId] = "AMOUNT_MULTIPLIER_THRESHOLD"
    IN  (IF hardRule /\ ~alreadyFlagged THEN 50 ELSE 0)
            + Total([i \in DOMAIN events |-> IF i \in flags THEN Weight(events[i]) ELSE 0])

ClassifyScore(score) ==
    CASE score >= CRITICAL_THRESHOLD -> "CRITICAL"
      [] score < CRITICAL_THRESHOLD /\ score >= ESCALATION_THRESHOLD -> "HIGH"
      [] score < ESCALATION_THRESHOLD /\ score >= 30 -> "MEDIUM"
      [] OTHER -> "LOW"

\* over: the amount exceeds the multiple of the average.  averageGiven: the average is
\* among the facts, as it is for the fraud desk; the workflow's activity leaves it out, so
\* the service sees a ratio of 0, and compares the amount itself.
FraudOutcome(loaded, fired, over, averageGiven) ==
    LET score == FraudScore(loaded, fired, over /\ averageGiven)
    IN  [riskLevel |-> ClassifyScore(score),
         shouldEscalate |-> over \/ score >= ESCALATION_THRESHOLD]

-----------------------------------------------------------------------------
(* Risk: risk-score.service.ts                                                        *)

BASE_SCORE == 100

Default(ev, value) == IF param[ev.of] = Unset THEN value ELSE param[ev.of]

Points(events) ==
    LET additions == OfType(events, "risk_score_add")
    IN  BASE_SCORE
            + Total([i \in DOMAIN events |-> IF i \in additions THEN Default(events[i], 0) ELSE 0])

\* Factors in tenths.  Math.round rounds halves up.
Rounded(score, factor) == (2 * score * factor + 10) \div 20

\* What the first n factors make of a score, for each n
Scaled(score, factors) ==
    LET scaled[n \in 0..Len(factors)] ==
            IF n = 0 THEN score ELSE Rounded(scaled[n - 1], factors[n])
    IN  scaled

\* An event of another type leaves the score as it is, as a factor of 1 does.
Multiplied(score, events) ==
    LET multipliers == OfType(events, "risk_multiplier")
        factors == [i \in DOMAIN events |-> IF i \in multipliers THEN Default(events[i], 10) ELSE 10]
    IN  Scaled(score, factors)[Len(events)]

TotalScore(events) == Multiplied(Points(events), events)

BandForScore(score) ==
    CASE score <= 200 -> "LOW"
      [] score > 200 /\ score <= 400 -> "STANDARD"
      [] score > 400 /\ score <= 700 -> "HIGH"
      [] OTHER -> "DECLINED"

LoadingPct(band) == CASE band = "STANDARD" -> 10 [] band = "HIGH" -> 35 [] OTHER -> 0

RiskOutcome(loaded, fired) ==
    LET events == Triggered(loaded, fired)
        declined == OfType(events, "risk_decline") # {}
    IN  [riskBand |-> IF declined THEN "DECLINED" ELSE BandForScore(TotalScore(events)),
         isDeclined |-> declined]

-----------------------------------------------------------------------------
(* Eligibility: eligibility-rule.service.ts; events of the risk rules, which share its *)
(* table, are ignored, and no rules at all means eligible.                            *)

IsEligible(loaded, fired) == OfType(Triggered(loaded, fired), "ineligible") = {}
=============================================================================
