----------------------------- MODULE RuleEngine -----------------------------
(***************************************************************************)
(* Loading, caching and evaluating the rules of one tenant,                *)
(* src/src/modules/rules/services.                                         *)
(*                                                                         *)
(* Every process of the platform (the API, a worker of its own) keeps its  *)
(* own cache, an entry per kind of rules.  A call is a sequence of         *)
(* synchronous stretches with a database statement between them; calls     *)
(* interleave there.  Creating a rule invalidates the cache of the process *)
(* that served the request, and no other.                                  *)
(***************************************************************************)
EXTENDS RuleScoring

CONSTANTS
    Seeded,             \* rules that are there from the start; no call creates a fraud rule
    Processes,
    Callers,            \* calls that may be in progress at once
    kinds,              \* per process, the kinds of rules it is explored to load
    TTL,                \* RULE_CACHE_TTL_MS, in ticks
    NoEntry, Nobody

Kinds == {"ELIGIBILITY", "RISK", "FRAUD"}

\* RuleCacheEntry
Entry == [data : SUBSET Rules, age : 0..TTL]

ASSUME RuleEngineAssumption ==
    /\ Seeded \subseteq Rules
    /\ \A r \in Rules \ Seeded : event[r] # "fraud_flag"
    /\ kinds \in [Processes -> SUBSET Kinds]
    /\ TTL \in Nat \ {0}
    /\ Nobody \notin Processes \cup Callers \cup Rules
    /\ NoEntry \notin Entry

VARIABLES
    rules,              \* active rules in the tables; nothing deactivates one
    cache,              \* per process and kind: NoEntry, or the rows and their age in ticks
    \* per call: the statement it executes next, where it runs, what it was given or has read
    pc, proc, kind, rule, read,
    \* history
    savedFor,           \* ticks since each rule was saved, up to TTL
    acked,              \* per process: rules whose creation it has carried out
    late,               \* per process and kind: rules already saved when the entry without them was stored
    owed, excused       \* per call: rules a load must see; late ones of the entry it found

callVars == <<pc, proc, kind, rule, read, owed, excused>>
ageing == <<cache, savedFor, acked, late>>
vars == <<rules, ageing, callVars>>

Init ==
    /\ rules = Seeded
    /\ cache = [p \in Processes |-> [t \in Kinds |-> NoEntry]]
    /\ pc = [k \in Callers |-> "idle"] /\ proc = [k \in Callers |-> Nobody]
    /\ kind = [k \in Callers |-> "ELIGIBILITY"] /\ rule = [k \in Callers |-> Nobody]
    /\ read = [k \in Callers |-> {}]
    /\ savedFor = [r \in Rules |-> IF r \in Seeded THEN TTL ELSE 0]
    /\ acked = [p \in Processes |-> {}]
    /\ late = [p \in Processes |-> [t \in Kinds |-> {}]]
    /\ owed = [k \in Callers |-> {}] /\ excused = [k \in Callers |-> {}]

-----------------------------------------------------------------------------
(* Helpers                                                                             *)

\* The rows a load selects.  Risk rules live in the table of the eligibility rules.
Selected(t, S) ==
    {r \in S : CASE t = "FRAUD" -> event[r] = "fraud_flag"
                 [] t = "RISK" -> event[r] \in {"risk_score_add", "risk_multiplier", "risk_decline"}
                 [] OTHER -> event[r] # "fraud_flag"}

\* A step of k that leaves the rest of its state as it is
GoTo(k, stmt) == pc' = [pc EXCEPT ![k] = stmt]

\* The call of k ends, answered or failed.
Ends(k) ==
    /\ GoTo(k, "idle")
    /\ proc' = [proc EXCEPT ![k] = Nobody] /\ kind' = [kind EXCEPT ![k] = "ELIGIBILITY"]
    /\ rule' = [rule EXCEPT ![k] = Nobody] /\ read' = [read EXCEPT ![k] = {}]
    /\ owed' = [owed EXCEPT ![k] = {}] /\ excused' = [excused EXCEPT ![k] = {}]

FaultFresh(entry) == entry # NoEntry /\ entry.age <= TTL

\* get: an entry is good for less than its ttl.
Fresh(entry) == entry # NoEntry /\ entry.age < TTL

\* invalidateTenantCache: every entry of the tenant, in this process
Cleared(p) == [t \in Kinds |-> NoEntry]

FaultStored(p, t, entry) == [cache EXCEPT ![p] = [u \in Kinds |-> entry]]

\* buildKey: the kind of rules is part of the key.
Stored(p, t, entry) == [cache EXCEPT ![p][t] = entry]

-----------------------------------------------------------------------------
(* A load, with the evaluation it is for                                               *)

\* An evaluation or a listing of the rules begins.  What it must see is recorded.
Request(k) ==
    \E p \in Processes : \E t \in kinds[p] :
        /\ pc[k] = "idle"
        /\ GoTo(k, "get")
        /\ proc' = [proc EXCEPT ![k] = p] /\ kind' = [kind EXCEPT ![k] = t]
        /\ owed' = [owed EXCEPT
               ![k] = Selected(t, acked[p] \cup {r \in rules : savedFor[r] = TTL})]
        /\ UNCHANGED <<rules, ageing, rule, read, excused>>

\* this.get(cacheKey)
Get(k) ==
    LET p == proc[k]
        t == kind[k]
    IN  /\ pc[k] = "get"
        /\ \/ /\ Fresh(cache[p][t])
              /\ read' = [read EXCEPT ![k] = cache[p][t].data]
              /\ excused' = [excused EXCEPT ![k] = late[p][t]]
              /\ GoTo(k, "evaluate")
              /\ UNCHANGED <<cache, late>>
           \/ /\ ~Fresh(cache[p][t])
              /\ cache' = [cache EXCEPT ![p][t] = NoEntry]
              /\ late' = [late EXCEPT ![p][t] = {}]
              /\ GoTo(k, "find")
              /\ UNCHANGED <<read, excused>>
        /\ UNCHANGED <<rules, savedFor, acked, proc, kind, rule, owed>>

\* The database answers the query of a miss.
Find(k) ==
    /\ pc[k] = "find"
    /\ read' = [read EXCEPT ![k] = Selected(kind[k], rules)]
    /\ GoTo(k, "set")
    /\ UNCHANGED <<rules, ageing, proc, kind, rule, owed, excused>>

\* this.set(cacheKey, rules), whatever happened to the cache since the miss
Set(k) ==
    LET p == proc[k]
        t == kind[k]
    IN  /\ pc[k] = "set"
        /\ cache' = Stored(p, t, [data |-> read[k], age |-> 0])
        /\ late' = [late EXCEPT ![p][t] = Selected(t, rules) \ read[k]]
        /\ GoTo(k, "evaluate")
        /\ UNCHANGED <<rules, savedFor, acked, proc, kind, rule, read, owed, excused>>

\* The rules are evaluated and the result returned: RuleScoring says what it may be.
Evaluate(k) ==
    /\ pc[k] = "evaluate"
    /\ Ends(k)
    /\ UNCHANGED <<rules, ageing>>

\* The query fails and the load with it; nothing is cached.
FindFails(k) ==
    /\ pc[k] = "find"
    /\ Ends(k)
    /\ UNCHANGED <<rules, ageing>>

-----------------------------------------------------------------------------
(* Creating a rule: rules-crud.service.ts                                              *)

CreateRule(k) ==
    \E p \in Processes, r \in Rules \ rules :
        /\ pc[k] = "idle"
        /\ \A j \in Callers : rule[j] # r
        /\ GoTo(k, "save")
        /\ proc' = [proc EXCEPT ![k] = p] /\ rule' = [rule EXCEPT ![k] = r]
        /\ UNCHANGED <<rules, ageing, kind, read, owed, excused>>

Save(k) ==
    /\ pc[k] = "save"
    /\ rules' = rules \cup {rule[k]}
    /\ GoTo(k, "invalidate")
    /\ UNCHANGED <<ageing, proc, kind, rule, read, owed, excused>>

\* The insert fails, or its answer is lost: the call ends without the invalidation.
SaveFails(k) ==
    /\ pc[k] = "save"
    /\ \E stored \in BOOLEAN : rules' = IF stored THEN rules \cup {rule[k]} ELSE rules
    /\ Ends(k)
    /\ UNCHANGED ageing

InvalidateTenantCache(k) ==
    LET p == proc[k]
    IN  /\ pc[k] = "invalidate"
        /\ cache' = [cache EXCEPT ![p] = Cleared(p)]
        /\ late' = [late EXCEPT ![p] = [t \in Kinds |-> {}]]
        /\ acked' = [acked EXCEPT ![p] = @ \cup {rule[k]}]
        /\ Ends(k)
        /\ UNCHANGED <<rules, savedFor>>

-----------------------------------------------------------------------------
(* Time, and restarts                                                                  *)

Older(n) == IF n < TTL THEN n + 1 ELSE n

Tick ==
    /\ cache' = [p \in Processes |-> [t \in Kinds |->
                    IF cache[p][t] = NoEntry THEN NoEntry
                    ELSE [cache[p][t] EXCEPT !.age = Older(@)]]]
    /\ savedFor' = [r \in Rules |-> IF r \in rules THEN Older(savedFor[r]) ELSE 0]
    /\ UNCHANGED <<rules, acked, late, callVars>>

\* A process comes back with an empty cache, and its calls are gone.
Restart(p) ==
    /\ cache' = [cache EXCEPT ![p] = [t \in Kinds |-> NoEntry]]
    /\ late' = [late EXCEPT ![p] = [t \in Kinds |-> {}]]
    /\ pc' = [k \in Callers |-> IF proc[k] = p THEN "idle" ELSE pc[k]]
    /\ kind' = [k \in Callers |-> IF proc[k] = p THEN "ELIGIBILITY" ELSE kind[k]]
    /\ rule' = [k \in Callers |-> IF proc[k] = p THEN Nobody ELSE rule[k]]
    /\ read' = [k \in Callers |-> IF proc[k] = p THEN {} ELSE read[k]]
    /\ owed' = [k \in Callers |-> IF proc[k] = p THEN {} ELSE owed[k]]
    /\ excused' = [k \in Callers |-> IF proc[k] = p THEN {} ELSE excused[k]]
    /\ proc' = [k \in Callers |-> IF proc[k] = p THEN Nobody ELSE proc[k]]
    /\ UNCHANGED <<rules, savedFor, acked>>

Next ==
    \/ \E k \in Callers :
        \/ Request(k) \/ Get(k) \/ Find(k) \/ Set(k) \/ FindFails(k) \/ Evaluate(k)
        \/ CreateRule(k) \/ Save(k) \/ SaveFails(k) \/ InvalidateTenantCache(k)
    \/ Tick
    \/ \E p \in Processes : Restart(p)

Spec == Init /\ [][Next]_vars

-----------------------------------------------------------------------------
(* Properties                                                                          *)

CachesTyped ==
    /\ rules \in SUBSET Rules
    /\ cache \in [Processes -> [Kinds -> Entry \cup {NoEntry}]]
    /\ late \in [Processes -> [Kinds -> SUBSET Rules]]
    /\ savedFor \in [Rules -> 0..TTL]
    /\ acked \in [Processes -> SUBSET Rules]

CallsTyped ==
    /\ pc \in [Callers -> {"idle", "get", "find", "set", "evaluate", "save", "invalidate"}]
    /\ proc \in [Callers -> Processes \cup {Nobody}]
    /\ kind \in [Callers -> Kinds]
    /\ rule \in [Callers -> Rules \cup {Nobody}]
    /\ read \in [Callers -> SUBSET Rules]
    /\ owed \in [Callers -> SUBSET Rules]
    /\ excused \in [Callers -> SUBSET Rules]
    /\ \A k \in Callers : /\ (pc[k] = "idle") <=> (proc[k] = Nobody)
                          /\ pc[k] \in {"save", "invalidate"} => rule[k] \in Rules

\* Cached rows are rows of the entry's kind
EntriesOfKind ==
    \A p \in Processes, t \in Kinds :
        cache[p][t] # NoEntry => cache[p][t].data \subseteq Selected(t, rules)

RowsOfKind ==
    \A k \in Callers :
        pc[k] \in {"set", "evaluate"} => read[k] \subseteq Selected(kind[k], rules)

\* What a load caches, finds or hands to an evaluation are rules of the kind it asked for
\* that exist, and a call knows where it runs as long as it runs
\* (rule-loader.service.ts:72-200).
TypeOK == CachesTyped /\ CallsTyped /\ EntriesOfKind /\ RowsOfKind

\* A load sees every rule whose creation its own process has acknowledged before the load
\* began, and every rule saved a full TTL before, whoever created it.  The one exception:
\* it finds rows that were read before the rule was saved and stored after, by a load the
\* creation overtook (rule-loader.service.ts:187, rules-crud.service.ts:29).
RulesSeen ==
    \A k \in Callers :
        pc[k] = "evaluate" => owed[k] \subseteq read[k] \cup excused[k]

\* What a rule weighs or adds itself, if it is of the type asked for and is not the one
\* that is called like it
Own(loaded, r, type) ==
    IF event[r] # type \/ r = FindByName(loaded, type) THEN 0
    ELSE IF param[r] # Unset THEN param[r]
    ELSE IF type = "fraud_flag" THEN scoreWeight[r] ELSE 0

\* All that fired rules of one type weigh or add
OwnTotal(loaded, fired, type) == Total([i \in DOMAIN fired |-> Own(loaded, fired[i], type)])

Fires(fired, type) == \E i \in DOMAIN fired : event[fired[i]] = type

\* Every number a rule or its event carries raises a score, or leaves it.
Raising(loaded, fired) ==
    /\ \A i \in DOMAIN fired : param[fired[i]] # Unset =>
           param[fired[i]] >= (IF event[fired[i]] = "risk_multiplier" THEN 10 ELSE 0)
    /\ \A i \in DOMAIN loaded : scoreWeight[loaded[i]] >= 0

FlagsCount(loaded, fired) ==
    \A averageGiven \in BOOLEAN :
        /\ FraudOutcome(loaded, fired, TRUE, averageGiven).shouldEscalate
        /\ Raising(loaded, fired) /\ OwnTotal(loaded, fired, "fraud_flag") >= ESCALATION_THRESHOLD
               => FraudOutcome(loaded, fired, FALSE, averageGiven).shouldEscalate

RefusalsCount(loaded, fired) == Fires(fired, "ineligible") => ~IsEligible(loaded, fired)

RisksCount(loaded, fired) ==
    LET outcome == RiskOutcome(loaded, fired)
        added == BASE_SCORE + OwnTotal(loaded, fired, "risk_score_add")
    IN  /\ Fires(fired, "risk_decline") => outcome.isDeclined
        /\ Raising(loaded, fired) =>
               \/ outcome.riskBand = "DECLINED"
               \/ LoadingPct(BandForScore(added)) <= LoadingPct(outcome.riskBand)

AllCount(t, loaded, fired) ==
    CASE t = "FRAUD" -> FlagsCount(loaded, fired)
      [] t = "ELIGIBILITY" -> RefusalsCount(loaded, fired)
      [] OTHER -> RisksCount(loaded, fired)

\* The loads of which all rules that fire count
Counted ==
    LET loads == UNION {{[kind |-> t, read |-> S] : S \in SUBSET Selected(t, Rules)} : t \in Kinds}
    IN  {load \in loads : \A loaded \in ByPriority(load.read), fired \in Firings(load.read) :
            AllCount(load.kind, loaded, fired)}

\* Between the engine's two lists and the result, in whatever order equal priorities are
\* loaded and fire, and whatever the rules are called, no refusal, no decline and no amount
\* over the limit is lost: any one refuses, declines or escalates.  Of the flags and the
\* additions at most one rule is lost, the first that is called like their type.  If
\* nothing lowers a score, the other flags that fire and weigh 50 or more together escalate
\* a claim, and a risk band is at least what the other additions make of it
\* (rule-evaluation.service.ts:98-168).
FiredRulesCount ==
    \A k \in Callers : pc[k] = "evaluate" => [kind |-> kind[k], read |-> read[k]] \in Counted

\* What the flags that fire weigh together, all of them
Weights(fired) ==
    Total([i \in DOMAIN fired |->
        IF param[fired[i]] # Unset THEN param[fired[i]] ELSE scoreWeight[fired[i]]])

\* "Total fraud score = sum of all triggered rules' scoreWeights" and "50-74 -> HIGH ->
\* escalate to FRAUD_REVIEW" (fraud-rule.service.ts:11, 15): flags that fire and weigh 50
\* or more together escalate a claim, whatever the rules are called.
EveryFlagCounts ==
    \A k \in Callers : pc[k] = "evaluate" /\ kind[k] = "FRAUD" =>
        \A loaded \in ByPriority(read[k]), fired \in Firings(read[k]) :
            Raising(loaded, fired) /\ Weights(fired) >= ESCALATION_THRESHOLD
                => FraudOutcome(loaded, fired, FALSE, TRUE).shouldEscalate

=============================================================================
