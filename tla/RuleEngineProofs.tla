-------------------------- MODULE RuleEngineProofs --------------------------
(* Proofs about RuleEngine, for any rules, processes, callers and time to live:   *)
(* the cached rows are as fresh as promised, and what rules that fire count for.   *)
EXTENDS RuleEngine, FiniteSetTheorems, WellFoundedInduction, TLAPS

LEMMA SelectedSubset == ASSUME NEW t, NEW S PROVE Selected(t, S) \subseteq S
BY DEF Selected

LEMMA SelectedMonotone ==
    ASSUME NEW t, NEW S, NEW T, S \subseteq T PROVE Selected(t, S) \subseteq Selected(t, T)
BY DEF Selected

LEMMA SelectedUnion ==
    ASSUME NEW t, NEW S, NEW T, NEW r \in Selected(t, T), r \in S
    PROVE r \in Selected(t, S)
BY DEF Selected

LEMMA EntryTyped ==
    ASSUME NEW data \in SUBSET Rules, NEW age \in 0..TTL
    PROVE [data |-> data, age |-> age] \in Entry
BY DEF Entry

LEMMA OlderTyped == ASSUME NEW n \in 0..TTL PROVE Older(n) \in 0..TTL
BY RuleEngineAssumption DEF Older

-----------------------------------------------------------------------------
(* Type correctness                                                                    *)

\* An update of a table of tables keeps its type.
LEMMA TableUpdate ==
    ASSUME NEW S, NEW T, NEW V, NEW f \in [S -> [T -> V]], NEW x \in S, NEW y \in T,
           NEW v \in V
    PROVE  [f EXCEPT ![x][y] = v] \in [S -> [T -> V]]
OBVIOUS

LEMMA TableRead ==
    ASSUME NEW S, NEW T, NEW V, NEW f \in [S -> [T -> V]], NEW x, NEW y, NEW v,
           NEW a \in S, NEW b \in T
    PROVE  [f EXCEPT ![x][y] = v][a][b] = IF a = x /\ b = y THEN v ELSE f[a][b]
<1>1. CASE a = x
  BY <1>1
<1>2. CASE a # x
  BY <1>2
<1> QED
  BY <1>1, <1>2

LEMMA CachesStayTyped == TypeOK /\ [Next]_vars => CachesTyped'
<1> SUFFICES ASSUME TypeOK, [Next]_vars PROVE CachesTyped'
  OBVIOUS
<1> USE RuleEngineAssumption DEF TypeOK
<1>1. ASSUME NEW k \in Callers,
             \/ Request(k) \/ Find(k) \/ Evaluate(k) \/ FindFails(k) \/ CreateRule(k)
      PROVE  CachesTyped'
  BY <1>1 DEF CachesTyped, Request, Find, Evaluate, FindFails, CreateRule, ageing
<1>2. ASSUME NEW k \in Callers, Get(k) PROVE CachesTyped'
  <2>1. proc[k] \in Processes /\ kind[k] \in Kinds
    BY <1>2 DEF CallsTyped, Get
  <2>2. /\ [cache EXCEPT ![proc[k]][kind[k]] = NoEntry]
               \in [Processes -> [Kinds -> Entry \cup {NoEntry}]]
        /\ [late EXCEPT ![proc[k]][kind[k]] = {}] \in [Processes -> [Kinds -> SUBSET Rules]]
    BY <2>1, TableUpdate DEF CachesTyped
  <2> QED
    BY <1>2, <2>2 DEF CachesTyped, Get
<1>3. ASSUME NEW k \in Callers, Set(k) PROVE CachesTyped'
  <2> DEFINE entry == [data |-> read[k], age |-> 0]
  <2>0. /\ proc[k] \in Processes /\ kind[k] \in Kinds
        /\ read[k] \in SUBSET Rules /\ 0 \in 0..TTL
    BY <1>3 DEF CallsTyped, Set
  <2>1. entry \in Entry
    BY <2>0, EntryTyped
  <2>2. Selected(kind[k], rules) \ read[k] \in SUBSET Rules
    BY SelectedSubset DEF CachesTyped
  <2>3. /\ cache' = [cache EXCEPT ![proc[k]][kind[k]] = entry]
        /\ late' = [late EXCEPT ![proc[k]][kind[k]] = Selected(kind[k], rules) \ read[k]]
        /\ UNCHANGED <<rules, savedFor, acked>>
    BY <1>3 DEF Set, Stored
  <2> HIDE DEF entry
  <2> QED
    BY <2>0, <2>1, <2>2, <2>3, TableUpdate DEF CachesTyped
<1>4. ASSUME NEW k \in Callers, Save(k) \/ SaveFails(k) PROVE CachesTyped'
  BY <1>4 DEF CachesTyped, CallsTyped, Save, SaveFails, ageing
<1>5. ASSUME NEW k \in Callers, InvalidateTenantCache(k) PROVE CachesTyped'
  BY <1>5 DEF CachesTyped, CallsTyped, InvalidateTenantCache, Cleared
<1>6. CASE Tick
  <2>1. ASSUME NEW p \in Processes, NEW t \in Kinds
        PROVE  cache'[p][t] \in Entry \cup {NoEntry}
    <3>1. CASE cache[p][t] = NoEntry
      BY <1>6, <3>1 DEF Tick
    <3>2. CASE cache[p][t] # NoEntry
      <4>1. cache[p][t] \in [data : SUBSET Rules, age : 0..TTL]
        BY <3>2 DEF CachesTyped, Entry
      <4>2. Older(cache[p][t].age) \in 0..TTL
        BY <4>1, OlderTyped
      <4>3. cache'[p][t] = [cache[p][t] EXCEPT !.age = Older(@)]
        BY <1>6, <3>2 DEF Tick
      <4> QED
        BY <4>1, <4>2, <4>3 DEF Entry
    <3> QED
      BY <3>1, <3>2
  <2>2. cache' \in [Processes -> [Kinds -> Entry \cup {NoEntry}]]
    BY <1>6, <2>1 DEF Tick
  <2>3. savedFor' \in [Rules -> 0..TTL]
    BY <1>6, OlderTyped DEF Tick, CachesTyped
  <2> QED
    BY <1>6, <2>2, <2>3 DEF Tick, CachesTyped
<1>7. ASSUME NEW p \in Processes, Restart(p) PROVE CachesTyped'
  BY <1>7 DEF CachesTyped, Restart
<1>8. CASE UNCHANGED vars
  BY <1>8 DEF CachesTyped, vars, ageing
<1> QED
  BY <1>1, <1>2, <1>3, <1>4, <1>5, <1>6, <1>7, <1>8 DEF Next

LEMMA CallsStayTyped == TypeOK /\ [Next]_vars => CallsTyped'
<1> SUFFICES ASSUME TypeOK, [Next]_vars PROVE CallsTyped'
  OBVIOUS
<1> USE RuleEngineAssumption DEF TypeOK
<1>1. ASSUME NEW k \in Callers, Request(k) PROVE CallsTyped'
  <2>0. PICK p \in Processes : \E t \in kinds[p] :
            /\ proc' = [proc EXCEPT ![k] = p] /\ kind' = [kind EXCEPT ![k] = t]
            /\ owed' = [owed EXCEPT
                   ![k] = Selected(t, acked[p] \cup {r \in rules : savedFor[r] = TTL})]
    BY <1>1 DEF Request
  <2>1. PICK t \in kinds[p] :
            /\ proc' = [proc EXCEPT ![k] = p] /\ kind' = [kind EXCEPT ![k] = t]
            /\ owed' = [owed EXCEPT
                   ![k] = Selected(t, acked[p] \cup {r \in rules : savedFor[r] = TTL})]
    BY <2>0
  <2>2. Selected(t, acked[p] \cup {r \in rules : savedFor[r] = TTL}) \subseteq Rules
    BY SelectedSubset DEF CachesTyped
  <2>3. t \in Kinds
    OBVIOUS
  <2> QED
    BY <1>1, <2>1, <2>2, <2>3 DEF CallsTyped, Request, GoTo
<1>2. ASSUME NEW k \in Callers, Get(k) PROVE CallsTyped'
  <2>1. proc[k] \in Processes /\ kind[k] \in Kinds
    BY <1>2 DEF CallsTyped, Get
  <2>2. late[proc[k]][kind[k]] \in SUBSET Rules
    BY <2>1 DEF CachesTyped
  <2>3. cache[proc[k]][kind[k]] # NoEntry => cache[proc[k]][kind[k]].data \in SUBSET Rules
    BY <2>1 DEF CachesTyped, Entry
  <2> QED
    BY <1>2, <2>1, <2>2, <2>3 DEF CallsTyped, Get, GoTo, Fresh
<1>3. ASSUME NEW k \in Callers, Find(k) PROVE CallsTyped'
  BY <1>3, SelectedSubset DEF CallsTyped, CachesTyped, Find, GoTo
<1>4. ASSUME NEW k \in Callers, Set(k) PROVE CallsTyped'
  BY <1>4 DEF CallsTyped, Set, GoTo
<1>5. ASSUME NEW k \in Callers, Ends(k) PROVE CallsTyped'
  BY <1>5 DEF CallsTyped, Ends, GoTo, Kinds
<1>6. ASSUME NEW k \in Callers, CreateRule(k) PROVE CallsTyped'
  BY <1>6 DEF CallsTyped, CreateRule, GoTo
<1>7. ASSUME NEW k \in Callers, Save(k) PROVE CallsTyped'
  BY <1>7 DEF CallsTyped, Save, GoTo
<1>8. CASE Tick
  BY <1>8 DEF CallsTyped, Tick, callVars
<1>9. ASSUME NEW p \in Processes, Restart(p) PROVE CallsTyped'
  BY <1>9 DEF CallsTyped, Restart, Kinds
<1>10. CASE UNCHANGED vars
  BY <1>10 DEF CallsTyped, vars, callVars
<1> QED
  BY <1>1, <1>2, <1>3, <1>4, <1>5, <1>6, <1>7, <1>8, <1>9, <1>10
  DEF Next, Evaluate, FindFails, SaveFails, InvalidateTenantCache

\* No step removes a rule.
LEMMA RulesGrow == [Next]_vars => rules \subseteq rules'
BY DEF Next, Request, Get, Find, Set, FindFails, Evaluate, CreateRule, Save, SaveFails,
       InvalidateTenantCache, Tick, Restart, vars

LEMMA EntriesStayOfKind == TypeOK /\ [Next]_vars => EntriesOfKind'
<1> SUFFICES ASSUME TypeOK, [Next]_vars, NEW q \in Processes, NEW u \in Kinds,
                    cache'[q][u] # NoEntry
             PROVE  cache'[q][u].data \subseteq Selected(u, rules')
  BY DEF EntriesOfKind
<1> USE RuleEngineAssumption DEF TypeOK
<1>1. Selected(u, rules) \subseteq Selected(u, rules')
  BY RulesGrow, SelectedMonotone
<1>2. ASSUME NEW k \in Callers, Set(k) PROVE cache'[q][u].data \subseteq Selected(u, rules')
  <2>1. cache' = [cache EXCEPT ![proc[k]][kind[k]] = [data |-> read[k], age |-> 0]]
    BY <1>2 DEF Set, Stored
  <2>2. CASE q = proc[k] /\ u = kind[k]
    <3>1. cache'[q][u].data = read[k]
      BY <2>1, <2>2 DEF CachesTyped
    <3> QED
      BY <1>1, <1>2, <2>2, <3>1 DEF Set, RowsOfKind
  <2>3. CASE ~(q = proc[k] /\ u = kind[k])
    <3>1. cache'[q][u] = cache[q][u]
      BY <2>1, <2>3 DEF CachesTyped
    <3> QED
      BY <1>1, <3>1 DEF EntriesOfKind
  <2> QED
    BY <2>2, <2>3
<1>3. CASE Tick
  <2>1. /\ cache[q][u] # NoEntry
        /\ cache'[q][u] = [cache[q][u] EXCEPT !.age = Older(@)]
    BY <1>3 DEF Tick
  <2>2. cache[q][u] \in [data : SUBSET Rules, age : 0..TTL]
    BY <2>1 DEF CachesTyped, Entry
  <2>3. cache'[q][u].data = cache[q][u].data
    BY <2>1, <2>2
  <2> QED
    BY <1>1, <2>1, <2>3 DEF EntriesOfKind
<1>4. CASE ~Tick /\ \A k \in Callers : ~Set(k)
  <2>1. cache'[q][u] \in {cache[q][u], NoEntry}
    <3>1. ASSUME NEW k \in Callers,
                 \/ Request(k) \/ Find(k) \/ FindFails(k) \/ Evaluate(k)
                 \/ CreateRule(k) \/ Save(k) \/ SaveFails(k)
          PROVE  cache' = cache
      BY <3>1 DEF Request, Find, FindFails, Evaluate, CreateRule, Save, SaveFails, ageing
    <3>2. ASSUME NEW k \in Callers, Get(k) PROVE cache'[q][u] \in {cache[q][u], NoEntry}
      <4>1. cache' = cache \/ cache' = [cache EXCEPT ![proc[k]][kind[k]] = NoEntry]
        BY <3>2 DEF Get
      <4>2. [cache EXCEPT ![proc[k]][kind[k]] = NoEntry][q][u] \in {cache[q][u], NoEntry}
        BY TableRead DEF CachesTyped
      <4> QED
        BY <4>1, <4>2
    <3>3. ASSUME NEW k \in Callers, InvalidateTenantCache(k)
          PROVE  cache'[q][u] \in {cache[q][u], NoEntry}
      BY <3>3 DEF InvalidateTenantCache, Cleared, CachesTyped
    <3>4. ASSUME NEW p \in Processes, Restart(p)
          PROVE  cache'[q][u] \in {cache[q][u], NoEntry}
      BY <3>4 DEF Restart, CachesTyped
    <3>5. CASE UNCHANGED vars
      BY <3>5 DEF vars, ageing
    <3> QED
      <4>1. cache' = cache => cache'[q][u] = cache[q][u]
        OBVIOUS
      <4> QED
        BY <1>4, <3>1, <3>2, <3>3, <3>4, <3>5, <4>1 DEF Next
  <2> QED
    BY <1>1, <2>1 DEF EntriesOfKind
<1> QED
  BY <1>2, <1>3, <1>4

LEMMA RowsStayOfKind == TypeOK /\ [Next]_vars => RowsOfKind'
<1> SUFFICES ASSUME TypeOK, [Next]_vars, NEW j \in Callers, pc'[j] \in {"set", "evaluate"}
             PROVE  read'[j] \subseteq Selected(kind'[j], rules')
  BY DEF RowsOfKind
<1> USE RuleEngineAssumption DEF TypeOK
<1>1. Selected(kind[j], rules) \subseteq Selected(kind[j], rules')
  BY RulesGrow, SelectedMonotone
<1>2. ASSUME pc[j] \in {"set", "evaluate"}, UNCHANGED <<read[j], kind[j]>>
      PROVE  read'[j] \subseteq Selected(kind'[j], rules')
  BY <1>1, <1>2 DEF RowsOfKind
<1>3. ASSUME Get(j) PROVE read'[j] \subseteq Selected(kind'[j], rules')
  <2>1. proc[j] \in Processes /\ kind[j] \in Kinds
    BY <1>3 DEF CallsTyped, Get
  <2>2. /\ cache[proc[j]][kind[j]] # NoEntry
        /\ read' = [read EXCEPT ![j] = cache[proc[j]][kind[j]].data]
        /\ kind' = kind
    BY <1>3 DEF Get, GoTo, Fresh, CallsTyped
  <2>3. read'[j] = cache[proc[j]][kind[j]].data
    BY <2>2 DEF CallsTyped
  <2> QED
    BY <1>1, <2>1, <2>2, <2>3 DEF EntriesOfKind
<1>4. ASSUME Find(j) PROVE read'[j] \subseteq Selected(kind'[j], rules')
  BY <1>4 DEF Find, CallsTyped
<1>5. ASSUME NEW k \in Callers, Ends(k)
      PROVE  k # j /\ UNCHANGED <<pc[j], read[j], kind[j]>>
  BY <1>5 DEF Ends, GoTo, CallsTyped
<1>6. CASE ~Get(j) /\ ~Find(j)
  <2>1. pc[j] \in {"set", "evaluate"} /\ UNCHANGED <<read[j], kind[j]>>
    <3>1. ASSUME NEW k \in Callers,
                 \/ Request(k) \/ CreateRule(k) \/ Save(k) \/ Set(k)
                 \/ k # j /\ (Get(k) \/ Find(k))
          PROVE  <2>1!1 /\ <2>1!2
      BY <3>1 DEF Request, CreateRule, Save, Set, Get, Find, GoTo, CallsTyped
    <3>2. ASSUME NEW p \in Processes, Restart(p) PROVE <2>1!1 /\ <2>1!2
      BY <3>2 DEF Restart, CallsTyped
    <3>3. CASE Tick \/ UNCHANGED vars
      BY <3>3 DEF Tick, vars, callVars
    <3> QED
      BY <1>5, <1>6, <3>1, <3>2, <3>3
      DEF Next, Evaluate, FindFails, SaveFails, InvalidateTenantCache
  <2> QED
    BY <1>2, <2>1
<1> QED
  BY <1>3, <1>4, <1>6

THEOREM TypeCorrect == Spec => []TypeOK
<1>1. Init => TypeOK
  BY RuleEngineAssumption
  DEF Init, TypeOK, CachesTyped, CallsTyped, EntriesOfKind, RowsOfKind, Kinds
<1>2. TypeOK /\ [Next]_vars => TypeOK'
  BY CachesStayTyped, CallsStayTyped, EntriesStayOfKind, RowsStayOfKind DEF TypeOK
<1> QED
  BY <1>1, <1>2, PTL DEF Spec

-----------------------------------------------------------------------------
(* The rows an evaluation gets are fresh                                               *)

\* Age and acknowledgement are of rules that exist.
Bookkeeping ==
    /\ \A r \in Rules \ rules : savedFor[r] = 0
    /\ \A p \in Processes : acked[p] \subseteq rules
    /\ \A k \in Callers : pc[k] = "invalidate" => rule[k] \in rules

\* What an entry lacks, and did not lack already when it was stored, is not acknowledged
\* in its process, and no older than the entry.
EntriesFresh ==
    \A p \in Processes, t \in Kinds : cache[p][t] # NoEntry =>
        \A r \in Selected(t, rules) :
            \/ r \in cache[p][t].data \cup late[p][t]
            \/ r \notin acked[p] /\ savedFor[r] <= cache[p][t].age

\* A load is owed what it was owed when it began, until it has it.
Promised(k) == Selected(kind[k], acked[proc[k]] \cup {r \in rules : savedFor[r] = TTL})

OwedKept ==
    \A k \in Callers :
        /\ pc[k] = "get" => owed[k] \subseteq Promised(k)
        /\ pc[k] = "find" => owed[k] \subseteq Selected(kind[k], rules)
        /\ pc[k] \in {"set", "evaluate"} => owed[k] \subseteq read[k] \cup excused[k]

Inv == TypeOK /\ Bookkeeping /\ EntriesFresh /\ OwedKept

\* Time and acknowledgements only ever grow.
LEMMA HistoryGrows ==
    ASSUME TypeOK, [Next]_vars
    PROVE  /\ \A p \in Processes : acked[p] \subseteq acked'[p]
           /\ \A r \in rules : savedFor[r] = TTL => savedFor'[r] = TTL
<1> USE RuleEngineAssumption
<1>1. ASSUME NEW k \in Callers, InvalidateTenantCache(k)
      PROVE  \A p \in Processes : acked[p] \subseteq acked'[p]
  BY <1>1 DEF InvalidateTenantCache, TypeOK, CachesTyped
<1>2. CASE Tick
  BY <1>2 DEF Tick, Older, TypeOK, CachesTyped
<1>3. CASE UNCHANGED <<acked, savedFor>>
  BY <1>3
<1>4. ASSUME NEW k \in Callers, InvalidateTenantCache(k) PROVE savedFor' = savedFor
  BY <1>4 DEF InvalidateTenantCache
<1>5. Tick => acked' = acked
  BY DEF Tick
<1>6. ASSUME ~Tick, \A k \in Callers : ~InvalidateTenantCache(k)
      PROVE  UNCHANGED <<acked, savedFor>>
  BY <1>6 DEF Next, Request, Get, Find, Set, FindFails, Evaluate, CreateRule, Save, SaveFails,
              Restart, vars, ageing
<1> QED
  BY <1>1, <1>2, <1>3, <1>4, <1>5, <1>6

LEMMA BookkeepingKept == Inv /\ [Next]_vars => Bookkeeping'
<1> SUFFICES ASSUME Inv, [Next]_vars PROVE Bookkeeping'
  OBVIOUS
<1> USE RuleEngineAssumption DEF Inv, TypeOK, Bookkeeping
<1>1. \A r \in Rules \ rules' : savedFor'[r] = 0
  <2>1. ASSUME NEW r \in Rules \ rules' PROVE savedFor'[r] = 0
    <3>1. savedFor[r] = 0
      BY RulesGrow
    <3>2. CASE Tick
      BY <3>2 DEF Tick
    <3>3. CASE ~Tick
      BY <3>1, <3>3
      DEF Next, Request, Get, Find, Set, FindFails, Evaluate, CreateRule, Save, SaveFails,
          InvalidateTenantCache, Restart, vars, ageing
    <3> QED
      BY <3>2, <3>3
  <2> QED
    BY <2>1
<1>2. ASSUME NEW p \in Processes PROVE acked'[p] \subseteq rules'
  <2>1. ASSUME NEW k \in Callers, InvalidateTenantCache(k) PROVE acked'[p] \subseteq rules'
    BY <2>1 DEF InvalidateTenantCache, CachesTyped
  <2>2. ASSUME \A k \in Callers : ~InvalidateTenantCache(k) PROVE acked' = acked
    BY <2>2 DEF Next, Request, Get, Find, Set, FindFails, Evaluate, CreateRule, Save,
                SaveFails, Tick, Restart, vars, ageing
  <2> QED
    BY <2>1, <2>2, RulesGrow
<1>3. ASSUME NEW j \in Callers, pc'[j] = "invalidate" PROVE rule'[j] \in rules'
  <2>1. ASSUME NEW k \in Callers, Ends(k)
        PROVE  pc[j] = "invalidate" /\ rule'[j] = rule[j]
    BY <1>3, <2>1 DEF Ends, GoTo, CallsTyped
  <2>2. ASSUME NEW k \in Callers,
               \/ Request(k) \/ Get(k) \/ Find(k) \/ Set(k) \/ CreateRule(k)
               \/ k # j /\ Save(k)
        PROVE  pc[j] = "invalidate" /\ rule'[j] = rule[j]
    BY <1>3, <2>2 DEF Request, Get, Find, Set, CreateRule, Save, GoTo, CallsTyped
  <2>3. ASSUME Save(j) PROVE rule'[j] \in rules'
    BY <2>3 DEF Save
  <2>4. ASSUME NEW p \in Processes, Restart(p)
        PROVE  pc[j] = "invalidate" /\ rule'[j] = rule[j]
    BY <1>3, <2>4 DEF Restart, CallsTyped
  <2>5. CASE Tick \/ UNCHANGED vars
    BY <1>3, <2>5 DEF Tick, vars, callVars
  <2> QED
    BY RulesGrow, <2>1, <2>2, <2>3, <2>4, <2>5
    DEF Next, Evaluate, FindFails, SaveFails, InvalidateTenantCache
<1> QED
  BY <1>1, <1>2, <1>3

\* The step that changes an entry decides what it may lack.
LEMMA EntriesFreshKept == Inv /\ [Next]_vars => EntriesFresh'
<1> SUFFICES ASSUME Inv, [Next]_vars, NEW q \in Processes, NEW u \in Kinds,
                    cache'[q][u] # NoEntry, NEW s \in Selected(u, rules')
             PROVE  \/ s \in cache'[q][u].data \cup late'[q][u]
                    \/ s \notin acked'[q] /\ savedFor'[s] <= cache'[q][u].age
  BY DEF EntriesFresh
<1> DEFINE Kept == \/ s \in cache'[q][u].data \cup late'[q][u]
                   \/ s \notin acked'[q] /\ savedFor'[s] <= cache'[q][u].age
<1> USE RuleEngineAssumption DEF Inv, TypeOK
<1>0. /\ s \in Rules /\ s \in rules'
      /\ s \in rules => s \in Selected(u, rules)
  <2>1. s \in rules' /\ rules' \subseteq Rules
    BY SelectedSubset, CachesStayTyped DEF CachesTyped
  <2> QED
    BY <2>1, SelectedUnion
\* An entry nobody touches
<1>1. ASSUME cache[q][u] # NoEntry, UNCHANGED <<cache[q][u], late[q][u], acked[q], savedFor>>
      PROVE  Kept
  <2>1. CASE s \in rules
    BY <1>0, <1>1, <2>1 DEF EntriesFresh
  <2>2. CASE s \notin rules
    <3>1. cache[q][u].age \in 0..TTL
      BY <1>1 DEF CachesTyped, Entry
    <3>2. savedFor[s] = 0 /\ s \notin acked[q]
      BY <1>0, <2>2 DEF Bookkeeping
    <3> QED
      BY <1>1, <3>1, <3>2
  <2> QED
    BY <2>1, <2>2
<1>2. ASSUME NEW k \in Callers, Set(k) PROVE Kept
  <2>1. /\ cache' = [cache EXCEPT ![proc[k]][kind[k]] = [data |-> read[k], age |-> 0]]
        /\ late' = [late EXCEPT ![proc[k]][kind[k]] = Selected(kind[k], rules) \ read[k]]
        /\ UNCHANGED <<rules, acked, savedFor>>
    BY <1>2 DEF Set, Stored
  <2>2. CASE q = proc[k] /\ u = kind[k]
    <3>1. /\ cache'[q][u] = [data |-> read[k], age |-> 0]
          /\ late'[q][u] = Selected(u, rules) \ read[k]
      BY <2>1, <2>2, TableRead DEF CachesTyped
    <3> QED
      BY <2>1, <3>1
  <2>3. CASE ~(q = proc[k] /\ u = kind[k])
    <3>1. cache'[q][u] = cache[q][u] /\ late'[q][u] = late[q][u]
      BY <2>1, <2>3, TableRead DEF CachesTyped
    <3> QED
      BY <1>1, <2>1, <3>1
  <2> QED
    BY <2>2, <2>3
<1>3. ASSUME NEW k \in Callers, Get(k) PROVE Kept
  <2>1. CASE UNCHANGED <<cache, late>>
    BY <1>1, <1>3, <2>1 DEF Get
  <2>2. CASE /\ cache' = [cache EXCEPT ![proc[k]][kind[k]] = NoEntry]
             /\ late' = [late EXCEPT ![proc[k]][kind[k]] = {}]
    <3>1. ~(q = proc[k] /\ u = kind[k])
      BY <2>2, TableRead DEF CachesTyped
    <3>2. cache'[q][u] = cache[q][u] /\ late'[q][u] = late[q][u]
      BY <2>2, <3>1, TableRead DEF CachesTyped
    <3> QED
      BY <1>1, <1>3, <3>2 DEF Get
  <2> QED
    BY <1>3, <2>1, <2>2 DEF Get
<1>4. CASE Tick
  <2>1. /\ cache[q][u] # NoEntry
        /\ cache'[q][u] = [cache[q][u] EXCEPT !.age = Older(@)]
        /\ UNCHANGED <<rules, acked, late>>
    BY <1>4 DEF Tick
  <2>2. /\ cache[q][u] \in [data : SUBSET Rules, age : 0..TTL]
        /\ savedFor[s] \in 0..TTL
    BY <1>0, <2>1 DEF CachesTyped, Entry
  <2>3. /\ cache'[q][u].data = cache[q][u].data
        /\ cache'[q][u].age = Older(cache[q][u].age)
    BY <2>1, <2>2
  <2>4. savedFor'[s] = Older(savedFor[s])
    BY <1>0, <1>4 DEF Tick
  <2>5. savedFor[s] <= cache[q][u].age => Older(savedFor[s]) <= Older(cache[q][u].age)
    BY <2>2 DEF Older
  <2> QED
    BY <1>0, <2>1, <2>3, <2>4, <2>5 DEF EntriesFresh
<1>5. ASSUME NEW k \in Callers, InvalidateTenantCache(k) PROVE Kept
  <2>1. q # proc[k]
    BY <1>5 DEF InvalidateTenantCache, Cleared, CachesTyped
  <2>2. UNCHANGED <<cache[q], late[q], acked[q], savedFor>>
    BY <1>5, <2>1 DEF InvalidateTenantCache, CachesTyped
  <2> QED
    BY <1>1, <2>2
<1>6. ASSUME NEW p \in Processes, Restart(p) PROVE Kept
  <2>1. q # p
    BY <1>6 DEF Restart, CachesTyped
  <2>2. UNCHANGED <<cache[q], late[q], acked, savedFor>>
    BY <1>6, <2>1 DEF Restart, CachesTyped
  <2> QED
    BY <1>1, <2>2
<1>7. CASE UNCHANGED ageing
  BY <1>1, <1>7 DEF ageing
<1>8. ASSUME NEW k \in Callers,
             \/ Request(k) \/ Find(k) \/ FindFails(k) \/ Evaluate(k)
             \/ CreateRule(k) \/ Save(k) \/ SaveFails(k)
      PROVE  UNCHANGED ageing
  BY <1>8 DEF Request, Find, FindFails, Evaluate, CreateRule, Save, SaveFails
<1>9. UNCHANGED vars => UNCHANGED ageing
  BY DEF vars
<1> QED
  BY <1>2, <1>3, <1>4, <1>5, <1>6, <1>7, <1>8, <1>9 DEF Next

LEMMA OwedStaysKept == Inv /\ [Next]_vars => OwedKept'
<1> SUFFICES ASSUME Inv, [Next]_vars, NEW j \in Callers
             PROVE  /\ pc'[j] = "get" => owed'[j] \subseteq Promised(j)'
                    /\ pc'[j] = "find" => owed'[j] \subseteq Selected(kind'[j], rules')
                    /\ pc'[j] \in {"set", "evaluate"} => owed'[j] \subseteq read'[j] \cup excused'[j]
  BY DEF OwedKept
<1> DEFINE Kept == /\ pc'[j] = "get" => owed'[j] \subseteq Promised(j)'
                   /\ pc'[j] = "find" => owed'[j] \subseteq Selected(kind'[j], rules')
                   /\ pc'[j] \in {"set", "evaluate"} => owed'[j] \subseteq read'[j] \cup excused'[j]
<1> USE RuleEngineAssumption DEF Inv, TypeOK
\* A call that stays where it is
<1>1. ASSUME UNCHANGED <<pc[j], proc[j], kind[j], read[j], owed[j], excused[j]>> PROVE Kept
  <2>1. CASE pc[j] = "get"
    <3>1. proc[j] \in Processes
      BY <2>1 DEF CallsTyped
    <3>2. acked[proc[j]] \cup {r \in rules : savedFor[r] = TTL}
              \subseteq acked'[proc[j]] \cup {r \in rules' : savedFor'[r] = TTL}
      BY <3>1, HistoryGrows, RulesGrow
    <3>3. Promised(j) \subseteq Promised(j)'
      BY <1>1, <3>2, SelectedMonotone DEF Promised
    <3> QED
      BY <1>1, <2>1, <3>3 DEF OwedKept
  <2>2. CASE pc[j] # "get"
    BY <1>1, <2>2, RulesGrow, SelectedMonotone DEF OwedKept
  <2> QED
    BY <2>1, <2>2
<1>2. ASSUME NEW k \in Callers, Ends(k) PROVE Kept
  <2>1. CASE k = j
    BY <1>2, <2>1 DEF Ends, GoTo, CallsTyped
  <2>2. CASE k # j
    BY <1>1, <1>2, <2>2 DEF Ends, GoTo, CallsTyped
  <2> QED
    BY <2>1, <2>2
<1>3. ASSUME NEW k \in Callers, k # j,
             \/ Request(k) \/ Get(k) \/ Find(k) \/ Set(k) \/ CreateRule(k) \/ Save(k)
      PROVE  Kept
  <2> HIDE DEF Kept
  <2>1. UNCHANGED <<pc[j], proc[j], kind[j], read[j], owed[j], excused[j]>>
    <3>1. CASE Request(k) \/ Get(k)
      BY <1>3, <3>1 DEF Request, Get, GoTo, CallsTyped
    <3>2. CASE Find(k) \/ Set(k)
      BY <1>3, <3>2 DEF Find, Set, GoTo, CallsTyped
    <3>3. CASE CreateRule(k) \/ Save(k)
      BY <1>3, <3>3 DEF CreateRule, Save, GoTo, CallsTyped
    <3> QED
      BY <1>3, <3>1, <3>2, <3>3
  <2> QED
    BY <1>1, <2>1
<1>4. CASE Request(j)
  <2>1. PICK p \in Processes : \E t \in kinds[p] :
            /\ proc' = [proc EXCEPT ![j] = p] /\ kind' = [kind EXCEPT ![j] = t]
            /\ owed' = [owed EXCEPT
                   ![j] = Selected(t, acked[p] \cup {r \in rules : savedFor[r] = TTL})]
    BY <1>4 DEF Request
  <2>2. owed'[j] = Promised(j)' /\ pc'[j] = "get"
    BY <1>4, <2>1 DEF Request, GoTo, ageing, Promised, CallsTyped
  <2> QED
    BY <2>2
<1>5. CASE Get(j)
  <2> DEFINE entry == cache[proc[j]][kind[j]]
  <2>0. /\ proc[j] \in Processes /\ kind[j] \in Kinds
        /\ owed[j] \subseteq Promised(j)
    BY <1>5 DEF Get, CallsTyped, OwedKept
  <2>1. owed[j] \subseteq Selected(kind[j], rules)
    <3>1. acked[proc[j]] \cup {r \in rules : savedFor[r] = TTL} \subseteq rules
      BY <2>0 DEF Bookkeeping
    <3> QED
      BY <2>0, <3>1, SelectedMonotone DEF Promised
  <2>2. CASE Fresh(entry)
    <3>1. /\ entry # NoEntry /\ entry.age \in 0..TTL /\ entry.age < TTL
      BY <2>0, <2>2 DEF Fresh, CachesTyped, Entry
    <3>2. ASSUME NEW r \in owed[j]
          PROVE  r \in entry.data \cup late[proc[j]][kind[j]]
      <4>1. r \in acked[proc[j]] \/ savedFor[r] = TTL
        BY <2>0, SelectedSubset DEF Promised
      <4> QED
        BY <2>0, <2>1, <3>1, <4>1 DEF EntriesFresh
    <3>3. /\ pc'[j] = "evaluate" /\ owed' = owed
          /\ read'[j] = entry.data /\ excused'[j] = late[proc[j]][kind[j]]
      BY <1>5, <2>2 DEF Get, GoTo, CallsTyped
    <3> QED
      BY <3>2, <3>3
  <2>3. CASE ~Fresh(entry)
    <3>1. pc'[j] = "find" /\ UNCHANGED <<owed, kind, rules>>
      BY <1>5, <2>3 DEF Get, GoTo, CallsTyped
    <3> QED
      BY <2>1, <3>1
  <2> QED
    BY <2>2, <2>3
<1>6. CASE Find(j)
  BY <1>6 DEF Find, GoTo, CallsTyped, OwedKept
<1>7. CASE Set(j)
  BY <1>7 DEF Set, GoTo, CallsTyped, OwedKept
<1>8. CASE CreateRule(j) \/ Save(j)
  BY <1>8 DEF CreateRule, Save, GoTo, CallsTyped
<1>9. CASE Tick \/ UNCHANGED vars
  BY <1>1, <1>9 DEF Tick, vars, callVars
<1>10. ASSUME NEW p \in Processes, Restart(p) PROVE Kept
  <2>1. CASE proc[j] = p
    BY <1>10, <2>1 DEF Restart
  <2>2. CASE proc[j] # p
    BY <1>1, <1>10, <2>2 DEF Restart, CallsTyped
  <2> QED
    BY <2>1, <2>2
<1> QED
  BY <1>2, <1>3, <1>4, <1>5, <1>6, <1>7, <1>8, <1>9, <1>10
  DEF Next, Evaluate, FindFails, SaveFails, InvalidateTenantCache

\* An evaluation is never handed rows that lack a rule its process has acknowledged, or one
\* saved a time to live before, except rows stored late.
THEOREM RulesSeenHolds == Spec => []RulesSeen
<1>1. Init => Inv
  <2>1. Init => TypeOK
    BY RuleEngineAssumption
    DEF Init, TypeOK, CachesTyped, CallsTyped, EntriesOfKind, RowsOfKind, Kinds
  <2> QED
    BY <2>1, RuleEngineAssumption DEF Init, Inv, Bookkeeping, EntriesFresh, OwedKept
<1>2. Inv /\ [Next]_vars => Inv'
  BY CachesStayTyped, CallsStayTyped, EntriesStayOfKind, RowsStayOfKind, BookkeepingKept,
     EntriesFreshKept, OwedStaysKept DEF Inv, TypeOK
<1>3. Inv => RulesSeen
  BY DEF Inv, OwedKept, RulesSeen
<1> QED
  BY <1>1, <1>2, <1>3, PTL DEF Spec

-----------------------------------------------------------------------------
(* Induction and recursion                                                 *)

\* A set of numbers that is not empty has a least element.
LEMMA LeastNumber ==
    ASSUME NEW S \in SUBSET Nat, S # {}
    PROVE  \E m \in S : \A n \in S : ~(n < m)
<1> DEFINE R == OpToRel(<, Nat)
<1>1. IsWellFoundedOn(R, Nat)
  BY NatLessThanWellFounded
<1>2. \A m, n \in Nat : n < m => <<n, m>> \in R
  BY DEF OpToRel
<1> HIDE DEF R
<1>3. PICK m \in S : \A n \in S : ~ (<<n, m>> \in R)
  BY <1>1, WFMin
<1> QED
  BY <1>2, <1>3

\* A set that has 0, and the successor of whatever number it has, has every number.
LEMMA Induction ==
    ASSUME NEW S \in SUBSET Nat, 0 \in S, \A n \in S : n + 1 \in S
    PROVE  \A n \in Nat : n \in S
<1> SUFFICES ASSUME Nat \ S # {} PROVE FALSE
  OBVIOUS
<1>1. PICK m \in Nat \ S : \A n \in Nat \ S : ~(n < m)
  BY LeastNumber
<1> QED
  BY <1>1, m - 1 \in S

\* The functions on 0..N that start with base and go on from each value by step
Chains(N, V, base, step) ==
    {f \in [0..N -> V] : f[0] = base /\ \A n \in 1..N : f[n] = step[n][f[n - 1]]}

\* There is such a function.
LEMMA Recursion ==
    ASSUME NEW N \in Nat, NEW V, NEW base \in V, NEW step \in [1..N -> [V -> V]]
    PROVE  Chains(N, V, base, step) # {}
<1> DEFINE Upto(n) == {f \in [0..n -> V] :
                          f[0] = base /\ \A i \in 1..n : f[i] = step[i][f[i - 1]]}
           S == {n \in Nat : n <= N => Upto(n) # {}}
<1>1. Upto(0) # {}
  <2>1. [i \in 0..0 |-> base] \in Upto(0)
    OBVIOUS
  <2> QED
    BY <2>1
<1>2. ASSUME NEW n \in Nat, n + 1 <= N, Upto(n) # {}
      PROVE  Upto(n + 1) # {}
  <2>1. PICK f \in [0..n -> V] : f[0] = base /\ \A i \in 1..n : f[i] = step[i][f[i - 1]]
    BY <1>2
  <2> DEFINE v == step[n + 1][f[n]]
             g == [i \in 0..(n + 1) |-> IF i = n + 1 THEN v ELSE f[i]]
  <2>2. v \in V
    BY <1>2
  <2>3. g \in [0..(n + 1) -> V] /\ g[0] = base
    BY <2>1, <2>2
  <2>4. ASSUME NEW i \in 1..(n + 1) PROVE g[i] = step[i][g[i - 1]]
    <3>1. CASE i = n + 1
      BY <3>1
    <3>2. CASE i \in 1..n
      BY <2>1, <3>2
    <3> QED
      BY <3>1, <3>2
  <2> HIDE DEF g
  <2> QED
    BY <2>3, <2>4
<1>3. 0 \in S /\ \A n \in S : n + 1 \in S
  <2> HIDE DEF Upto
  <2> QED
    BY <1>1, <1>2
<1>4. N \in S
  <2>1. S \in SUBSET Nat
    OBVIOUS
  <2> HIDE DEF S
  <2> QED
    BY <1>3, <2>1, Induction
<1> QED
  BY <1>4 DEF Chains

-----------------------------------------------------------------------------
(* Sums                                                                    *)

\* Each sum is the one before it and a number.
LEMMA RunningSumDef ==
    ASSUME NEW seq \in Seq(Int)
    PROVE  /\ RunningSum(seq) \in [0..Len(seq) -> Int]
           /\ RunningSum(seq)[0] = 0
           /\ \A n \in 1..Len(seq) : RunningSum(seq)[n] = RunningSum(seq)[n - 1] + seq[n]
<1> DEFINE N == Len(seq)
           Unfolded(f) == [n \in 0..N |-> IF n = 0 THEN 0 ELSE f[n - 1] + seq[n]]
           step == [n \in 1..N |-> [v \in Int |-> v + seq[n]]]
           sum == RunningSum(seq)
           T == {n \in Nat : n <= N => sum[n] \in Int}
<1>1. N \in Nat /\ \A n \in 1..N : seq[n] \in Int
  OBVIOUS
<1>2. \E f : f = Unfolded(f)
  <2>1. step \in [1..N -> [Int -> Int]]
    BY <1>1
  <2>2. PICK f \in [0..N -> Int] : f[0] = 0 /\ \A n \in 1..N : f[n] = step[n][f[n - 1]]
    <3>1. Chains(N, Int, 0, step) # {}
      <4>1. 0 \in Int
        OBVIOUS
      <4> HIDE DEF step, N
      <4> QED
        BY <1>1, <2>1, <4>1, Recursion, Zenon
    <3> QED
      BY <3>1 DEF Chains
  <2>3. \A n \in 1..N : f[n] = f[n - 1] + seq[n]
    <3>1. \A n \in 1..N : \A v \in Int : step[n][v] = v + seq[n]
      OBVIOUS
    <3>2. \A n \in 1..N : f[n - 1] \in Int
      BY <1>1, <2>2
    <3> HIDE DEF step, N
    <3> QED
      BY <2>2, <3>1, <3>2
  <2>4. f = Unfolded(f)
    BY <1>1, <2>2, <2>3
  <2> QED
    BY <2>4
<1>3. sum = CHOOSE f : f = Unfolded(f)
  BY DEF RunningSum
<1>4. sum = Unfolded(sum)
  BY <1>2, <1>3
<1> HIDE DEF sum, step
<1>5. sum[0] = 0 /\ \A n \in 1..N : sum[n] = sum[n - 1] + seq[n]
  <2>1. 0 \in 0..N /\ \A n \in 1..N : n \in 0..N /\ n # 0
    BY <1>1
  <2> HIDE DEF N
  <2> QED
    BY <1>4, <2>1
<1>6. \A n \in Nat : n \in T
  <2>1. 0 \in T
    BY <1>5
  <2>2. ASSUME NEW n \in T PROVE n + 1 \in T
    <3> SUFFICES ASSUME n + 1 <= N PROVE sum[n + 1] \in Int
      OBVIOUS
    <3>1. n + 1 \in 1..N /\ (n + 1) - 1 = n /\ sum[n] \in Int /\ seq[n + 1] \in Int
      BY <1>1
    <3> HIDE DEF T, N
    <3> QED
      BY <1>5, <3>1
  <2>3. T \in SUBSET Nat
    OBVIOUS
  <2> HIDE DEF T
  <2> QED
    BY <2>1, <2>2, <2>3, Induction
<1>7. sum \in [0..N -> Int]
  <2>1. \A n \in 0..N : n \in Nat /\ n <= N
    BY <1>1
  <2>2. \A n \in 0..N : sum[n] \in Int
    <3>1. \A n \in Nat : n <= N => sum[n] \in Int
      BY <1>6, Zenon
    <3> HIDE DEF N
    <3> QED
      BY <2>1, <3>1, Zenon
  <2>3. sum = [n \in 0..N |-> sum[n]]
    <3> HIDE DEF N
    <3> QED
      BY <1>4
  <2> QED
    BY <2>2, <2>3, Zenon
<1> QED
  BY <1>5, <1>7 DEF sum

\* A total is a number.
LEMMA TotalType ==
    ASSUME NEW seq \in Seq(Int)
    PROVE  Total(seq) \in Int
<1>1. RunningSum(seq) \in [0..Len(seq) -> Int] /\ Len(seq) \in 0..Len(seq)
  BY RunningSumDef
<1> QED
  BY <1>1 DEF Total

\* Numbers that are not negative make sums that are not negative and never fall.
LEMMA SumsGrow ==
    ASSUME NEW seq \in Seq(Int), NEW N \in 0..Len(seq), \A n \in 1..N : seq[n] >= 0
    PROVE  \A n \in 0..N : 0 <= RunningSum(seq)[n] /\ RunningSum(seq)[n] <= RunningSum(seq)[N]
<1> DEFINE sum == RunningSum(seq)
           S == {n \in Nat : n <= N => \A k \in 0..n : 0 <= sum[k] /\ sum[k] <= sum[n]}
<1>1. sum \in [0..Len(seq) -> Int] /\ sum[0] = 0
      /\ \A n \in 1..Len(seq) : sum[n] = sum[n - 1] + seq[n]
  BY RunningSumDef
<1> HIDE DEF sum
<1>2. \A n \in 0..N : sum[n] \in Int
  <2>1. \A n \in 0..N : n \in 0..Len(seq)
    OBVIOUS
  <2>2. \A n \in 0..Len(seq) : sum[n] \in Int
    BY <1>1
  <2> QED
    BY <2>1, <2>2, Zenon
<1>3. 0 \in S
  BY <1>1
<1>4. ASSUME NEW n \in S PROVE n + 1 \in S
  <2> SUFFICES ASSUME n + 1 <= N, NEW k \in 0..(n + 1)
               PROVE  0 <= sum[k] /\ sum[k] <= sum[n + 1]
    OBVIOUS
  <2>1. sum[n + 1] = sum[n] + seq[n + 1] /\ seq[n + 1] \in Int /\ seq[n + 1] >= 0
    BY <1>1
  <2>2. 0 <= sum[n] /\ sum[n] \in Int /\ sum[n + 1] \in Int
    BY <1>2
  <2>3. k \in 0..n => 0 <= sum[k] /\ sum[k] <= sum[n] /\ sum[k] \in Int
    BY <1>2
  <2> QED
    BY <2>1, <2>2, <2>3
<1>5. N \in S
  <2>1. S \in SUBSET Nat /\ N \in Nat
    OBVIOUS
  <2> HIDE DEF S
  <2> QED
    BY <1>3, <1>4, <2>1, Induction
<1> QED
  BY <1>5 DEF sum

\* A sequence sums to at least what a lower end does, if nothing before that is negative.
LEMMA TotalOfEnd ==
    ASSUME NEW seq \in Seq(Int), NEW end \in Seq(Int), NEW a \in Nat,
           Len(seq) = a + Len(end),
           \A n \in 1..a : seq[n] >= 0,
           \A n \in 1..Len(end) : seq[a + n] >= end[n]
    PROVE  Total(seq) >= Total(end)
<1> DEFINE sum == RunningSum(seq)
           part == RunningSum(end)
           S == {n \in Nat : n <= Len(end) => sum[a + n] >= part[n]}
<1>1. /\ sum \in [0..Len(seq) -> Int]
      /\ \A n \in 1..Len(seq) : sum[n] = sum[n - 1] + seq[n]
  BY RunningSumDef
<1>2. /\ part \in [0..Len(end) -> Int] /\ part[0] = 0
      /\ \A n \in 1..Len(end) : part[n] = part[n - 1] + end[n]
  BY RunningSumDef
<1>3. 0 <= sum[a]
  <2>1. a \in 0..Len(seq) /\ Len(end) \in Nat
    OBVIOUS
  <2>2. \A n \in 0..a : 0 <= RunningSum(seq)[n]
    BY <2>1, SumsGrow
  <2> QED
    BY <2>2
<1> HIDE DEF sum, part
<1>4. 0 \in S
  BY <1>1, <1>2, <1>3
<1>5. ASSUME NEW n \in S PROVE n + 1 \in S
  <2> SUFFICES ASSUME n + 1 <= Len(end) PROVE sum[a + (n + 1)] >= part[n + 1]
    OBVIOUS
  <2> DEFINE m == a + (n + 1)
  <2>1. /\ n \in 0..Len(end) /\ n + 1 \in 1..Len(end) /\ (n + 1) - 1 = n
        /\ a + n \in 0..Len(seq) /\ m \in 1..Len(seq) /\ m - 1 = a + n
    OBVIOUS
  <2>2. sum[a + n] >= part[n] /\ sum[a + n] \in Int /\ part[n] \in Int
    <3>1. sum[a + n] \in Int /\ part[n] \in Int
      <4> HIDE DEF S, m
      <4> QED
        BY <1>1, <1>2, <2>1
    <3> QED
      BY <2>1, <3>1
  <2>3. part[n + 1] = part[n] + end[n + 1]
    BY <1>2, <2>1
  <2>4. seq[m] >= end[n + 1] /\ seq[m] \in Int /\ end[n + 1] \in Int
    <3> HIDE DEF S
    <3>1. seq[a + (n + 1)] >= end[n + 1]
      BY <2>1
    <3>2. end[n + 1] \in Int
      BY <2>1
    <3> HIDE DEF m
    <3>3. seq[m] \in Int
      BY <2>1
    <3> QED
      BY <3>1, <3>2, <3>3 DEF m
  <2> HIDE DEF m
  <2>5. sum[m] = sum[m - 1] + seq[m]
    BY <1>1, <2>1
  <2>6. sum[m] >= part[n + 1]
    <3>1. sum[m] = sum[a + n] + seq[m]
      BY <2>1, <2>5
    <3>2. \A v, w, x, y \in Int : v >= w /\ x >= y => v + x >= w + y
      OBVIOUS
    <3> HIDE DEF S
    <3> QED
      BY <2>2, <2>3, <2>4, <3>1, <3>2
  <2> QED
    BY <2>6 DEF m
<1>6. Len(end) \in S
  <2>1. S \in SUBSET Nat /\ Len(end) \in Nat
    OBVIOUS
  <2> HIDE DEF S
  <2> QED
    BY <1>4, <1>5, <2>1, Induction
<1> QED
  BY <1>6 DEF sum, part, Total

-----------------------------------------------------------------------------
(* Factors                                                                 *)

\* A rounded product is a whole number.
LEMMA RoundedType ==
    ASSUME NEW score \in Int, NEW factor \in Int
    PROVE  Rounded(score, factor) \in Int
<1>1. 2 * score * factor + 10 \in Int
  OBVIOUS
<1> QED
  BY <1>1 DEF Rounded

\* A factor of 1 or more does not lower a score that is not negative.
LEMMA RoundedGrows ==
    ASSUME NEW score \in Nat, NEW factor \in Int, factor >= 10
    PROVE  Rounded(score, factor) >= score
<1> DEFINE product == score * factor
<1>1. product >= score * 10
  <2>1. score * factor = score * 10 + score * (factor - 10)
    OBVIOUS
  <2>2. score * (factor - 10) >= 0
    <3>1. factor - 10 \in Nat
      OBVIOUS
    <3>2. \A m, n \in Nat : m * n \in Nat
      OBVIOUS
    <3> QED
      BY <3>1, <3>2
  <2> QED
    BY <2>1, <2>2
<1>2. product \in Int /\ 2 * score * factor = 2 * product
  OBVIOUS
<1> HIDE DEF product
<1>3. 2 * product + 10 >= 20 * score
  BY <1>1, <1>2
<1>4. \A x \in Int : x >= 20 * score => x \div 20 >= score
  OBVIOUS
<1>5. (2 * product + 10) \div 20 >= score
  BY <1>2, <1>3, <1>4
<1> QED
  BY <1>2, <1>5 DEF Rounded

\* Each score is the one before it, multiplied.
LEMMA ScaledDef ==
    ASSUME NEW score \in Int, NEW factors \in Seq(Int)
    PROVE  /\ Scaled(score, factors) \in [0..Len(factors) -> Int]
           /\ Scaled(score, factors)[0] = score
           /\ \A n \in 1..Len(factors) : Scaled(score, factors)[n]
                                           = Rounded(Scaled(score, factors)[n - 1], factors[n])
<1> DEFINE N == Len(factors)
           Unfolded(f) == [n \in 0..N |-> IF n = 0 THEN score ELSE Rounded(f[n - 1], factors[n])]
           step == [n \in 1..N |-> [v \in Int |-> Rounded(v, factors[n])]]
           scaled == Scaled(score, factors)
           T == {n \in Nat : n <= N => scaled[n] \in Int}
<1>1. N \in Nat /\ \A n \in 1..N : factors[n] \in Int
  OBVIOUS
<1>2. \E f : f = Unfolded(f)
  <2>1. step \in [1..N -> [Int -> Int]]
    BY <1>1, RoundedType
  <2>2. PICK f \in [0..N -> Int] : f[0] = score /\ \A n \in 1..N : f[n] = step[n][f[n - 1]]
    <3>1. Chains(N, Int, score, step) # {}
      <4> HIDE DEF step, N
      <4> QED
        BY <1>1, <2>1, Recursion, Zenon
    <3> QED
      BY <3>1 DEF Chains
  <2>3. \A n \in 1..N : f[n] = Rounded(f[n - 1], factors[n])
    <3>1. \A n \in 1..N : \A v \in Int : step[n][v] = Rounded(v, factors[n])
      OBVIOUS
    <3> HIDE DEF step
    <3>2. \A n \in 1..N : n - 1 \in 0..N
      BY <1>1
    <3> HIDE DEF N
    <3> QED
      BY <2>2, <3>1, <3>2
  <2>4. f = Unfolded(f)
    BY <1>1, <2>2, <2>3
  <2> QED
    BY <2>4
<1>3. scaled = CHOOSE f : f = Unfolded(f)
  BY DEF Scaled
<1>4. scaled = Unfolded(scaled)
  BY <1>2, <1>3
<1> HIDE DEF scaled, step
<1>5. scaled[0] = score /\ \A n \in 1..N : scaled[n] = Rounded(scaled[n - 1], factors[n])
  <2>1. 0 \in 0..N /\ \A n \in 1..N : n \in 0..N /\ n # 0
    BY <1>1
  <2> HIDE DEF N
  <2> QED
    BY <1>4, <2>1
<1>6. \A n \in Nat : n \in T
  <2>1. 0 \in T
    BY <1>5
  <2>2. ASSUME NEW n \in T PROVE n + 1 \in T
    <3> SUFFICES ASSUME n + 1 <= N PROVE scaled[n + 1] \in Int
      OBVIOUS
    <3>1. n + 1 \in 1..N /\ (n + 1) - 1 = n /\ scaled[n] \in Int /\ factors[n + 1] \in Int
      BY <1>1
    <3>2. Rounded(scaled[n], factors[n + 1]) \in Int
      <4> HIDE DEF T
      <4> QED
        BY <3>1, RoundedType
    <3> HIDE DEF T
    <3> QED
      BY <1>5, <3>1, <3>2
  <2>3. T \in SUBSET Nat
    OBVIOUS
  <2> HIDE DEF T
  <2> QED
    BY <2>1, <2>2, <2>3, Induction
<1>7. scaled \in [0..N -> Int]
  <2>1. \A n \in 0..N : n \in Nat /\ n <= N
    BY <1>1
  <2>2. \A n \in 0..N : scaled[n] \in Int
    <3>1. \A n \in Nat : n <= N => scaled[n] \in Int
      BY <1>6, Zenon
    <3> HIDE DEF N
    <3> QED
      BY <2>1, <3>1, Zenon
  <2>3. scaled = [n \in 0..N |-> scaled[n]]
    <3> HIDE DEF N
    <3> QED
      BY <1>4
  <2> QED
    BY <2>2, <2>3, Zenon
<1> QED
  BY <1>5, <1>7 DEF scaled

\* Factors of 1 or more do not lower a score that is not negative.
LEMMA ScaledGrows ==
    ASSUME NEW score \in Nat, NEW factors \in Seq(Int),
           \A n \in 1..Len(factors) : factors[n] >= 10
    PROVE  /\ Scaled(score, factors)[Len(factors)] \in Int
           /\ Scaled(score, factors)[Len(factors)] >= score
<1> DEFINE N == Len(factors)
           scaled == Scaled(score, factors)
           S == {n \in Nat : n <= N => scaled[n] >= score}
<1>1. /\ scaled \in [0..N -> Int] /\ scaled[0] = score
      /\ \A n \in 1..N : scaled[n] = Rounded(scaled[n - 1], factors[n])
  BY ScaledDef
<1> HIDE DEF scaled
<1>2. N \in Nat /\ \A n \in 1..N : factors[n] \in Int
  OBVIOUS
<1>3. 0 \in S
  BY <1>1
<1>4. ASSUME NEW n \in S PROVE n + 1 \in S
  <2> SUFFICES ASSUME n + 1 <= N PROVE scaled[n + 1] >= score
    OBVIOUS
  <2>1. n + 1 \in 1..N /\ (n + 1) - 1 = n /\ n \in 0..N /\ scaled[n] >= score
    BY <1>2
  <2> HIDE DEF S
  <2>2. scaled[n] \in Nat /\ factors[n + 1] \in Int /\ factors[n + 1] >= 10
    <3>1. scaled[n] \in Int
      BY <1>1, <2>1
    <3> QED
      BY <1>2, <2>1, <3>1
  <2>3. scaled[n + 1] = Rounded(scaled[n], factors[n + 1])
    BY <1>1, <2>1
  <2>4. Rounded(scaled[n], factors[n + 1]) >= scaled[n]
    BY <2>2, RoundedGrows
  <2>5. Rounded(scaled[n], factors[n + 1]) \in Int
    <3>1. scaled[n] \in Int /\ factors[n + 1] \in Int
      BY <2>2
    <3> HIDE DEF N
    <3> QED
      BY <3>1, RoundedType, Zenon
  <2> QED
    BY <2>1, <2>2, <2>3, <2>4, <2>5
<1>5. N \in S
  <2>1. S \in SUBSET Nat
    OBVIOUS
  <2> HIDE DEF S
  <2> QED
    BY <1>2, <1>3, <1>4, <2>1, Induction
<1> QED
  BY <1>1, <1>2, <1>5 DEF scaled

-----------------------------------------------------------------------------
(* The events of the rules that fire                                       *)

Event == [ruleId : Rules \cup EventTypes, of : Rules]

\* Rules are loaded, and fire, in a sequence, each at most once.
LEMMA ByPriorityType ==
    ASSUME NEW T \in SUBSET Rules, NEW seq \in ByPriority(T)
    PROVE  /\ seq \in Seq(Rules)
           /\ \A i, j \in 1..Len(seq) : seq[i] = seq[j] => i = j
<1>1. seq \in SetToSeqs(T)
  BY DEF ByPriority
<1>2. IsFiniteSet(T)
  BY RuleScoringAssumption, FS_Subset
<1>3. Cardinality(T) \in Nat
  BY <1>2, FS_CardinalityType
<1>4. /\ seq \in [1..Cardinality(T) -> T]
      /\ \A i, j \in 1..Cardinality(T) : i # j => seq[i] # seq[j]
  BY <1>1 DEF SetToSeqs
<1>5. seq \in Seq(T) /\ Len(seq) = Cardinality(T)
  BY <1>3, <1>4
<1>6. seq \in Seq(Rules)
  BY <1>3, <1>4
<1> QED
  BY <1>4, <1>5, <1>6

LEMMA FiringsType ==
    ASSUME NEW S \in SUBSET Rules, NEW fired \in Firings(S)
    PROVE  /\ fired \in Seq(Rules)
           /\ DOMAIN fired = 1..Len(fired) /\ Len(fired) \in Nat
           /\ \A i \in 1..Len(fired) : fired[i] \in Rules
           /\ \A i, j \in 1..Len(fired) : fired[i] = fired[j] => i = j
<1>1. PICK T \in SUBSET S : fired \in ByPriority(T)
  BY DEF Firings
<1>2. /\ fired \in Seq(Rules)
      /\ \A i, j \in 1..Len(fired) : fired[i] = fired[j] => i = j
  BY <1>1, ByPriorityType
<1>3. /\ DOMAIN fired = 1..Len(fired) /\ Len(fired) \in Nat
      /\ \A i \in 1..Len(fired) : fired[i] \in Rules
  BY <1>2
<1> QED
  BY <1>2, <1>3

\* A name that is looked up is that of a loaded rule, or remains a text.
LEMMA FindByNameType ==
    ASSUME NEW loaded \in Seq(Rules), NEW text
    PROVE  /\ FindByName(loaded, text) \in Rules \cup {text}
           /\ \/ FindByName(loaded, text) = text
              \/ \E i \in DOMAIN loaded : FindByName(loaded, text) = loaded[i]
<1> DEFINE called == {i \in DOMAIN loaded : name[loaded[i]] = text}
<1>1. CASE called = {}
  BY <1>1 DEF FindByName
<1>2. CASE called # {}
  <2>1. called \in SUBSET Nat
    OBVIOUS
  <2>2. PICK i \in called : \A j \in called : i <= j
    <3> HIDE DEF called
    <3>1. PICK i \in called : \A j \in called : ~(j < i)
      BY <1>2, <2>1, LeastNumber
    <3> QED
      BY <2>1, <3>1
  <2> DEFINE first == CHOOSE k \in called : \A j \in called : k <= j
  <2>3. first \in called
    BY <2>2
  <2>4. FindByName(loaded, text) = loaded[first]
    BY <1>2 DEF FindByName
  <2>5. first \in DOMAIN loaded
    BY <2>3
  <2> HIDE DEF first, called
  <2> QED
    BY <2>4, <2>5
<1> QED
  BY <1>1, <1>2

\* Both lists of events follow the order of the rules fired.
LEMMA TriggeredPlaces ==
    ASSUME NEW loaded \in Seq(Rules), NEW fired \in Seq(Rules)
    PROVE  /\ Triggered(loaded, fired) \in Seq(Event)
           /\ Len(Triggered(loaded, fired)) = Len(fired) + Len(fired)
           /\ \A i \in 1..Len(fired) :
                  /\ Triggered(loaded, fired)[i] = RawEvent(loaded, fired[i])
                  /\ Triggered(loaded, fired)[Len(fired) + i] = RuleEvent(fired[i])
<1> DEFINE n == Len(fired)
           raw == [i \in DOMAIN fired |-> RawEvent(loaded, fired[i])]
           named == [i \in DOMAIN fired |-> RuleEvent(fired[i])]
<1>1. /\ n \in Nat /\ DOMAIN fired = 1..n
      /\ \A i \in 1..n : fired[i] \in Rules
  OBVIOUS
<1>2. \A r \in Rules : RawEvent(loaded, r) \in Event /\ RuleEvent(r) \in Event
  BY RuleScoringAssumption, FindByNameType DEF RawEvent, RuleEvent, Event
<1>3. raw \in Seq(Event) /\ Len(raw) = n
  BY <1>1, <1>2
<1>4. named \in Seq(Event) /\ Len(named) = n
  BY <1>1, <1>2
<1>5. \A i \in 1..n : raw[i] = RawEvent(loaded, fired[i]) /\ named[i] = RuleEvent(fired[i])
  BY <1>1
<1>6. Triggered(loaded, fired) = raw \o named
  BY DEF Triggered
<1> HIDE DEF raw, named
<1>7. /\ raw \o named \in Seq(Event) /\ Len(raw \o named) = n + n
      /\ \A i \in 1..n : (raw \o named)[i] = raw[i] /\ (raw \o named)[n + i] = named[i]
  <2> HIDE DEF n
  <2>1. raw \o named \in Seq(Event) /\ Len(raw \o named) = n + n
    BY <1>1, <1>3, <1>4
  <2>2. \A i \in 1..n : (raw \o named)[i] = raw[i]
    BY <1>1, <1>3, <1>4
  <2>3. \A i \in 1..n : (raw \o named)[n + i] = named[i]
    BY <1>1, <1>3, <1>4
  <2> QED
    BY <2>1, <2>2, <2>3
<1> QED
  BY <1>5, <1>6, <1>7

\* An event that names its rule is kept, unless the rule is the one that is called like its
\* type: a rule fires once, and no other event of its type has its id.
LEMMA RuleEventsKept ==
    ASSUME NEW loaded \in Seq(Rules), NEW S \in SUBSET Rules, NEW fired \in Firings(S),
           NEW i \in 1..Len(fired), fired[i] # FindByName(loaded, event[fired[i]])
    PROVE  Len(fired) + i \in DeduplicateEvents(Triggered(loaded, fired))
<1> DEFINE n == Len(fired)
           events == Triggered(loaded, fired)
<1>1. /\ fired \in Seq(Rules) /\ n \in Nat
      /\ \A k, j \in 1..n : fired[k] = fired[j] => k = j
  BY FiringsType
<1>2. /\ events \in Seq(Event) /\ Len(events) = n + n
      /\ \A k \in 1..n : /\ events[k] = RawEvent(loaded, fired[k])
                        /\ events[n + k] = RuleEvent(fired[k])
  BY <1>1, TriggeredPlaces
<1> HIDE DEF events
<1>3. events[n + i].ruleId = fired[i] /\ events[n + i].of = fired[i]
  <2>1. events[n + i] = RuleEvent(fired[i]) /\ fired[i] \in Rules
    BY <1>1, <1>2
  <2> QED
    BY <2>1 DEF RuleEvent
<1>4. ASSUME NEW j \in 1..(n + i - 1)
      PROVE  \/ events[j].ruleId # events[n + i].ruleId
             \/ event[events[j].of] # event[events[n + i].of]
  <2>1. CASE j \in 1..n
    <3>1. events[j] = RawEvent(loaded, fired[j])
      BY <1>2, <2>1
    <3>2. /\ events[j].ruleId = FindByName(loaded, event[fired[j]])
          /\ events[j].of = fired[j]
      BY <3>1 DEF RawEvent
    <3> QED
      BY <1>3, <3>2
  <2>2. CASE j > n
    <3>1. j - n \in 1..n /\ j = n + (j - n) /\ j - n # i
      BY <1>1, <2>2
    <3>2. events[j].ruleId = fired[j - n]
      <4>1. events[j] = RuleEvent(fired[j - n])
        BY <1>2, <3>1
      <4> QED
        BY <4>1 DEF RuleEvent
    <3> QED
      BY <1>1, <1>3, <3>1, <3>2
  <2> QED
    BY <1>1, <2>1, <2>2
<1>5. n + i \in DOMAIN events
  BY <1>1, <1>2
<1> QED
  BY <1>4, <1>5 DEF DeduplicateEvents, events

\* Such an event is among those of its type.
LEMMA OfTypePlaces ==
    ASSUME NEW loaded \in Seq(Rules), NEW S \in SUBSET Rules, NEW fired \in Firings(S),
           NEW i \in 1..Len(fired), fired[i] # FindByName(loaded, event[fired[i]])
    PROVE  Len(fired) + i \in OfType(Triggered(loaded, fired), event[fired[i]])
<1>1. fired \in Seq(Rules)
  BY FiringsType
<1>2. Triggered(loaded, fired)[Len(fired) + i] = RuleEvent(fired[i])
  BY <1>1, TriggeredPlaces
<1>3. Len(fired) + i \in DeduplicateEvents(Triggered(loaded, fired))
  BY RuleEventsKept
<1> QED
  BY <1>2, <1>3 DEF OfType, RuleEvent

\* The events of a type are fired by rules of that type.
LEMMA OfTypeRules ==
    ASSUME NEW loaded \in Seq(Rules), NEW S \in SUBSET Rules, NEW fired \in Firings(S),
           NEW type, NEW i \in 1..Len(fired),
           Len(fired) + i \in OfType(Triggered(loaded, fired), type)
    PROVE  event[fired[i]] = type
<1>1. fired \in Seq(Rules)
  BY FiringsType
<1>2. Triggered(loaded, fired)[Len(fired) + i] = RuleEvent(fired[i])
  BY <1>1, TriggeredPlaces
<1> QED
  BY <1>2 DEF OfType, RuleEvent

\* A type that fires is among the events, whatever the rules are called: the first event
\* of a type has no event before it that it could repeat.
LEMMA FiringsFound ==
    ASSUME NEW loaded \in Seq(Rules), NEW S \in SUBSET Rules, NEW fired \in Firings(S),
           NEW type, Fires(fired, type)
    PROVE  OfType(Triggered(loaded, fired), type) # {}
<1> DEFINE events == Triggered(loaded, fired)
           places == {k \in 1..Len(fired) : event[fired[k]] = type}
<1>1. fired \in Seq(Rules)
  BY FiringsType
<1>2. places \in SUBSET Nat /\ places # {}
  BY <1>1 DEF Fires
<1>3. PICK i \in places : \A j \in places : ~(j < i)
  <2> HIDE DEF places
  <2> QED
    BY <1>2, LeastNumber
<1>4. /\ events \in Seq(Event) /\ Len(events) = Len(fired) + Len(fired)
      /\ \A k \in 1..Len(fired) : events[k] = RawEvent(loaded, fired[k])
  BY <1>1, TriggeredPlaces
<1> HIDE DEF events
<1>5. \A k \in 1..Len(fired) : event[events[k].of] = event[fired[k]]
  <2>1. \A r : RawEvent(loaded, r).of = r
    BY DEF RawEvent
  <2> QED
    BY <1>4, <2>1
<1>6. i \in DOMAIN events /\ event[events[i].of] = type
  BY <1>1, <1>4, <1>5
<1>7. \A j \in 1..(i - 1) : event[events[j].of] # type
  BY <1>1, <1>3, <1>5
<1>8. i \in DeduplicateEvents(events)
  BY <1>6, <1>7 DEF DeduplicateEvents
<1> QED
  BY <1>6, <1>8 DEF OfType, events

-----------------------------------------------------------------------------
(* What the scores are at least                                            *)

\* What a rule weighs or adds is a number.
LEMMA OwnType ==
    ASSUME NEW loaded, NEW r \in Rules, NEW type
    PROVE  Own(loaded, r, type) \in Int
BY RuleScoringAssumption DEF Own

\* What the two lists make of a type sums to at least what the rules weigh or add.
LEMMA TypeTotal ==
    ASSUME NEW loaded \in Seq(Rules), NEW S \in SUBSET Rules, NEW fired \in Firings(S),
           NEW type, NEW seq \in Seq(Int),
           Len(seq) = Len(fired) + Len(fired),
           \A i \in 1..Len(fired) : seq[i] >= 0,
           \A i \in 1..Len(fired) : seq[Len(fired) + i] >= Own(loaded, fired[i], type)
    PROVE  OwnTotal(loaded, fired, type) \in Int /\ Total(seq) >= OwnTotal(loaded, fired, type)
<1> DEFINE end == [i \in DOMAIN fired |-> Own(loaded, fired[i], type)]
<1>1. fired \in Seq(Rules) /\ DOMAIN fired = 1..Len(fired) /\ Len(fired) \in Nat
  BY FiringsType
<1>2. \A r \in Rules : Own(loaded, r, type) \in Int
  BY OwnType
<1>3. end \in Seq(Int) /\ Len(end) = Len(fired)
  BY <1>1, <1>2
<1>4. \A i \in 1..Len(end) : seq[Len(fired) + i] >= end[i]
  BY <1>1, <1>3
<1>5. OwnTotal(loaded, fired, type) = Total(end)
  BY DEF OwnTotal
<1> HIDE DEF end
<1>6. Total(seq) >= Total(end)
  BY <1>1, <1>3, <1>4, TotalOfEnd
<1> QED
  BY <1>3, <1>5, <1>6, TotalType

\* No number of a rule is negative, if none lowers a score.
LEMMA RaisingNumbers ==
    ASSUME NEW loaded, NEW fired, Raising(loaded, fired), NEW i \in DOMAIN fired,
           param[fired[i]] \in Int, param[fired[i]] # Unset
    PROVE  param[fired[i]] >= 0
BY DEF Raising

\* The fraud score is at least what the flags weigh that are not called so.
LEMMA FraudScoreCounts ==
    ASSUME NEW loaded \in Seq(Rules), NEW S \in SUBSET Rules, NEW fired \in Firings(S),
           Raising(loaded, fired),
           NEW hardRule \in BOOLEAN
    PROVE  /\ OwnTotal(loaded, fired, "fraud_flag") \in Int
           /\ FraudScore(loaded, fired, hardRule) \in Int
           /\ FraudScore(loaded, fired, hardRule) >= OwnTotal(loaded, fired, "fraud_flag")
<1> DEFINE n == Len(fired)
           events == Triggered(loaded, fired)
           flags == OfType(events, "fraud_flag")
           seq == [i \in DOMAIN events |-> IF i \in flags THEN Weight(events[i]) ELSE 0]
<1>1. fired \in Seq(Rules) /\ DOMAIN fired = 1..n /\ n \in Nat
      /\ \A i \in 1..n : fired[i] \in Rules
  BY FiringsType
<1>2. /\ events \in Seq(Event) /\ Len(events) = n + n
      /\ \A i \in 1..n : /\ events[i] = RawEvent(loaded, fired[i])
                        /\ events[n + i] = RuleEvent(fired[i])
  BY <1>1, TriggeredPlaces
<1>3. \A ev \in Event : Weight(ev) \in Int
  BY RuleScoringAssumption DEF Weight, Event
<1>4. DOMAIN events = 1..(n + n) /\ \A i \in 1..(n + n) : events[i] \in Event
  BY <1>1, <1>2
<1>5. seq \in Seq(Int) /\ Len(seq) = n + n
  <2> HIDE DEF events, flags, n
  <2> QED
    BY <1>1, <1>3, <1>4
<1>6. ASSUME NEW i \in 1..n
      PROVE  seq[i] >= 0 /\ seq[n + i] >= Own(loaded, fired[i], "fraud_flag")
  <2> DEFINE standIn == FindByName(loaded, event[fired[i]])
  <2>1. /\ seq[i] = IF i \in flags THEN Weight(RawEvent(loaded, fired[i])) ELSE 0
        /\ seq[n + i] = IF n + i \in flags THEN Weight(RuleEvent(fired[i])) ELSE 0
    BY <1>1, <1>2, <1>4
  <2>2. param[fired[i]] # Unset => param[fired[i]] \in Int /\ param[fired[i]] >= 0
    <3>1. param[fired[i]] \in Int \cup {Unset} /\ i \in DOMAIN fired
      BY <1>1, RuleScoringAssumption
    <3> QED
      BY <3>1, RaisingNumbers
  <2>3. standIn \notin Rules \/ scoreWeight[standIn] >= 0
    <3>1. \/ standIn = event[fired[i]]
          \/ \E k \in DOMAIN loaded : standIn = loaded[k]
      BY FindByNameType
    <3>2. event[fired[i]] \notin Rules
      BY <1>1, RuleScoringAssumption
    <3> QED
      BY <3>1, <3>2 DEF Raising
  <2> HIDE DEF seq, flags, n, events
  <2>4. seq[i] >= 0
    <3>1. RawEvent(loaded, fired[i]) = [ruleId |-> standIn, of |-> fired[i]]
      BY DEF RawEvent
    <3> HIDE DEF standIn
    <3>2. Weight(RawEvent(loaded, fired[i])) >= 0
      BY <2>2, <2>3, <3>1 DEF Weight
    <3> QED
      BY <2>1, <3>2
  <2>5. CASE fired[i] = standIn
    <3>1. Own(loaded, fired[i], "fraud_flag") = 0
      BY <2>5 DEF Own
    <3>2. fired[i] \in Rules
      BY <1>1
    <3>3. Weight(RuleEvent(fired[i])) >= 0
      BY <2>2, <2>3, <2>5, <3>2 DEF Weight, RuleEvent
    <3> QED
      BY <2>1, <2>4, <3>1, <3>3
  <2>6. CASE fired[i] # standIn /\ event[fired[i]] = "fraud_flag"
    <3>1. n + i \in flags
      BY <2>6, OfTypePlaces DEF n, events, flags
    <3>2. fired[i] \in Rules
      BY <1>1
    <3>3. Weight(RuleEvent(fired[i])) = Own(loaded, fired[i], "fraud_flag")
      BY <2>6, <3>2 DEF Weight, RuleEvent, Own
    <3>4. Own(loaded, fired[i], "fraud_flag") \in Int
      BY <3>2, OwnType
    <3> QED
      BY <2>1, <2>4, <3>1, <3>3, <3>4
  <2>7. CASE event[fired[i]] # "fraud_flag"
    <3>1. n + i \notin flags
      BY <2>7, OfTypeRules DEF n, events, flags
    <3>2. Own(loaded, fired[i], "fraud_flag") = 0
      BY <2>7 DEF Own
    <3> QED
      BY <2>1, <2>4, <3>1, <3>2
  <2> QED
    BY <2>5, <2>6, <2>7
<1>8. FraudScore(loaded, fired, hardRule) \in {Total(seq), 50 + Total(seq), 0 + Total(seq)}
  BY DEF FraudScore
<1> HIDE DEF seq, events, flags
<1>9. /\ OwnTotal(loaded, fired, "fraud_flag") \in Int
      /\ Total(seq) >= OwnTotal(loaded, fired, "fraud_flag")
  BY <1>5, <1>6, TypeTotal
<1>10. Total(seq) \in Int
  BY <1>5, TotalType
<1> QED
  BY <1>8, <1>9, <1>10

\* The points are at least the base and what the rules add that are not called so.
LEMMA PointsCount ==
    ASSUME NEW loaded \in Seq(Rules), NEW S \in SUBSET Rules, NEW fired \in Firings(S),
           Raising(loaded, fired)
    PROVE  /\ OwnTotal(loaded, fired, "risk_score_add") \in Int
           /\ Points(Triggered(loaded, fired)) \in Nat
           /\ Points(Triggered(loaded, fired))
                  >= BASE_SCORE + OwnTotal(loaded, fired, "risk_score_add")
<1> DEFINE n == Len(fired)
           events == Triggered(loaded, fired)
           additions == OfType(events, "risk_score_add")
           seq == [i \in DOMAIN events |-> IF i \in additions THEN Default(events[i], 0) ELSE 0]
<1>1. fired \in Seq(Rules) /\ DOMAIN fired = 1..n /\ n \in Nat
      /\ \A i \in 1..n : fired[i] \in Rules
  BY FiringsType
<1>2. /\ events \in Seq(Event) /\ Len(events) = n + n
      /\ \A i \in 1..n : /\ events[i] = RawEvent(loaded, fired[i])
                        /\ events[n + i] = RuleEvent(fired[i])
  BY <1>1, TriggeredPlaces
<1>3. \A ev \in Event : Default(ev, 0) \in Int
  BY RuleScoringAssumption DEF Default, Event
<1>4. DOMAIN events = 1..(n + n) /\ \A i \in 1..(n + n) : events[i] \in Event
  BY <1>1, <1>2
<1>5. seq \in Seq(Int) /\ Len(seq) = n + n
  <2> HIDE DEF events, additions, n
  <2> QED
    BY <1>1, <1>3, <1>4
<1>6. ASSUME NEW i \in 1..n
      PROVE  /\ seq[i] >= 0
             /\ seq[n + i] >= Own(loaded, fired[i], "risk_score_add")
             /\ seq[n + i] >= 0
  <2>1. \/ n + i \in additions
        \/ fired[i] = FindByName(loaded, event[fired[i]])
        \/ event[fired[i]] # "risk_score_add"
    BY OfTypePlaces
  <2>2. /\ seq[i] = IF i \in additions THEN Default(RawEvent(loaded, fired[i]), 0) ELSE 0
        /\ seq[n + i] = IF n + i \in additions THEN Default(RuleEvent(fired[i]), 0) ELSE 0
    BY <1>1, <1>2, <1>4
  <2>3. param[fired[i]] # Unset => param[fired[i]] \in Int /\ param[fired[i]] >= 0
    <3>1. param[fired[i]] \in Int \cup {Unset} /\ i \in DOMAIN fired
      BY <1>1, RuleScoringAssumption
    <3> QED
      BY <3>1, RaisingNumbers
  <2>4. Default(RawEvent(loaded, fired[i]), 0) >= 0 /\ Default(RuleEvent(fired[i]), 0) >= 0
    BY <2>3 DEF Default, RawEvent, RuleEvent
  <2> HIDE DEF additions, seq, n
  <2>5. seq[n + i] >= Own(loaded, fired[i], "risk_score_add")
    <3>1. Own(loaded, fired[i], "risk_score_add") \in {0, Default(RuleEvent(fired[i]), 0)}
      BY DEF Own, Default, RuleEvent
    <3>2. n + i \in additions \/ Own(loaded, fired[i], "risk_score_add") = 0
      BY <2>1 DEF Own
    <3>3. Default(RuleEvent(fired[i]), 0) \in Int
      BY <2>3 DEF Default, RuleEvent
    <3> QED
      BY <2>2, <2>4, <3>1, <3>2, <3>3
  <2> QED
    BY <2>2, <2>4, <2>5
<1>7. Points(events) = BASE_SCORE + Total(seq)
  BY DEF Points
<1> HIDE DEF seq, events, additions
<1>8. /\ OwnTotal(loaded, fired, "risk_score_add") \in Int
      /\ Total(seq) >= OwnTotal(loaded, fired, "risk_score_add")
  BY <1>5, <1>6, TypeTotal
<1>9. Total(seq) \in Int
  BY <1>5, TotalType
<1>10. Total(seq) >= 0
  <2>1. ASSUME NEW i \in 1..Len(seq) PROVE seq[i] >= 0
    <3>1. i \in 1..n \/ (i - n \in 1..n /\ i = n + (i - n))
      BY <1>1, <1>5
    <3> QED
      BY <1>6, <3>1
  <2>2. Len(seq) \in 0..Len(seq)
    BY <1>1, <1>5
  <2> QED
    BY <1>5, <2>1, <2>2, SumsGrow DEF Total
<1> QED
  BY <1>7, <1>8, <1>9, <1>10 DEF BASE_SCORE, events

\* The multipliers leave at least the points.
LEMMA TotalScoreCounts ==
    ASSUME NEW loaded \in Seq(Rules), NEW S \in SUBSET Rules, NEW fired \in Firings(S),
           Raising(loaded, fired)
    PROVE  /\ TotalScore(Triggered(loaded, fired)) \in Int
           /\ TotalScore(Triggered(loaded, fired)) >= Points(Triggered(loaded, fired))
<1> DEFINE n == Len(fired)
           events == Triggered(loaded, fired)
           multipliers == OfType(events, "risk_multiplier")
           factors == [i \in DOMAIN events |->
                          IF i \in multipliers THEN Default(events[i], 10) ELSE 10]
<1>1. fired \in Seq(Rules) /\ DOMAIN fired = 1..n /\ n \in Nat
      /\ \A i \in 1..n : fired[i] \in Rules
  BY FiringsType
<1>2. /\ events \in Seq(Event) /\ Len(events) = n + n
      /\ \A i \in 1..n : /\ events[i] = RawEvent(loaded, fired[i])
                        /\ events[n + i] = RuleEvent(fired[i])
  BY <1>1, TriggeredPlaces
<1>3. \A ev \in Event : Default(ev, 10) \in Int
  BY RuleScoringAssumption DEF Default, Event
<1>4. DOMAIN events = 1..(n + n) /\ \A i \in 1..(n + n) : events[i] \in Event
  BY <1>1, <1>2
<1>5. factors \in Seq(Int) /\ Len(factors) = n + n
  <2> HIDE DEF events, multipliers, n
  <2> QED
    BY <1>1, <1>3, <1>4
<1>6. ASSUME NEW i \in 1..Len(factors) PROVE factors[i] >= 10
  <2>1. i \in DOMAIN events /\ factors[i] = IF i \in multipliers THEN Default(events[i], 10) ELSE 10
    BY <1>4, <1>5
  <2>2. ASSUME i \in multipliers PROVE Default(events[i], 10) >= 10
    <3>1. PICK j \in 1..n : events[i].of = fired[j]
      <4>1. CASE i \in 1..n
        <5>1. events[i] = RawEvent(loaded, fired[i])
          BY <1>2, <4>1
        <5> QED
          BY <4>1, <5>1 DEF RawEvent
      <4>2. CASE i > n
        <5>1. i - n \in 1..n /\ i = n + (i - n)
          BY <1>1, <1>5, <4>2
        <5>2. events[i] = RuleEvent(fired[i - n])
          BY <1>2, <5>1
        <5> QED
          BY <5>1, <5>2 DEF RuleEvent
      <4> QED
        BY <1>1, <1>5, <4>1, <4>2
    <3>2. event[fired[j]] = "risk_multiplier"
      BY <2>2, <3>1 DEF OfType
    <3>3. param[fired[j]] # Unset => param[fired[j]] \in Int /\ param[fired[j]] >= 10
      <4>1. param[fired[j]] \in Int \cup {Unset} /\ j \in DOMAIN fired
        BY <1>1, RuleScoringAssumption
      <4> QED
        BY <3>2, <4>1 DEF Raising
    <3> QED
      BY <3>1, <3>3 DEF Default
  <2> HIDE DEF factors, multipliers
  <2> QED
    BY <2>1, <2>2
<1>7. TotalScore(events) = Scaled(Points(events), factors)[Len(factors)]
  BY <1>2, <1>5 DEF TotalScore, Multiplied
<1>8. Points(events) \in Nat
  BY PointsCount
<1> HIDE DEF events, factors, multipliers
<1> QED
  BY <1>5, <1>6, <1>7, <1>8, ScaledGrows DEF events

\* A higher score has a band that is declined or loads no less.
LEMMA BandsRise ==
    ASSUME NEW low \in Int, NEW high \in Int, low <= high
    PROVE  \/ BandForScore(high) = "DECLINED"
           \/ LoadingPct(BandForScore(low)) <= LoadingPct(BandForScore(high))
BY DEF BandForScore, LoadingPct

\* Whatever rules are evaluated, in whatever order they are loaded and fire, they count.
LEMMA EveryFiringCounts ==
    ASSUME NEW loaded \in Seq(Rules), NEW S \in SUBSET Rules, NEW fired \in Firings(S)
    PROVE  /\ FlagsCount(loaded, fired)
           /\ RefusalsCount(loaded, fired)
           /\ RisksCount(loaded, fired)
<1>1. ASSUME NEW averageGiven \in BOOLEAN
      PROVE  FraudOutcome(loaded, fired, TRUE, averageGiven).shouldEscalate
  BY DEF FraudOutcome
<1>2. ASSUME NEW averageGiven \in BOOLEAN, Raising(loaded, fired),
             OwnTotal(loaded, fired, "fraud_flag") >= ESCALATION_THRESHOLD
      PROVE  FraudOutcome(loaded, fired, FALSE, averageGiven).shouldEscalate
  <2> DEFINE score == FraudScore(loaded, fired, FALSE /\ averageGiven)
  <2>1. FraudOutcome(loaded, fired, FALSE, averageGiven).shouldEscalate
            = (FALSE \/ score >= ESCALATION_THRESHOLD)
    BY DEF FraudOutcome
  <2>2. /\ OwnTotal(loaded, fired, "fraud_flag") \in Int /\ score \in Int
        /\ score >= OwnTotal(loaded, fired, "fraud_flag")
    BY <1>2, FraudScoreCounts
  <2> HIDE DEF score
  <2>3. score >= ESCALATION_THRESHOLD
    BY <1>2, <2>2 DEF ESCALATION_THRESHOLD
  <2> QED
    BY <2>1, <2>3
<1>3. RefusalsCount(loaded, fired)
  BY FiringsFound DEF RefusalsCount, IsEligible
<1>4. Fires(fired, "risk_decline") => RiskOutcome(loaded, fired).isDeclined
  BY FiringsFound DEF RiskOutcome
<1>5. ASSUME Raising(loaded, fired), RiskOutcome(loaded, fired).riskBand # "DECLINED"
      PROVE  LoadingPct(BandForScore(BASE_SCORE + OwnTotal(loaded, fired, "risk_score_add")))
                 <= LoadingPct(RiskOutcome(loaded, fired).riskBand)
  <2> DEFINE low == BASE_SCORE + OwnTotal(loaded, fired, "risk_score_add")
             high == TotalScore(Triggered(loaded, fired))
  <2>1. RiskOutcome(loaded, fired).riskBand = BandForScore(high)
    BY <1>5 DEF RiskOutcome
  <2>2. low \in Int /\ high \in Int /\ low <= high
    BY <1>5, PointsCount, TotalScoreCounts DEF BASE_SCORE
  <2> HIDE DEF low, high
  <2> QED
    BY <1>5, <2>1, <2>2, BandsRise DEF low
<1>6. FlagsCount(loaded, fired)
  BY <1>1, <1>2 DEF FlagsCount
<1>7. RisksCount(loaded, fired)
  BY <1>4, <1>5 DEF RisksCount
<1> QED
  BY <1>3, <1>6, <1>7

\* All rules of every load count, but for the one of each type that is called like it.
LEMMA AllLoadsCount ==
    ASSUME NEW t \in Kinds, NEW S \in SUBSET Selected(t, Rules)
    PROVE  [kind |-> t, read |-> S] \in Counted
<1>1. S \in SUBSET Rules
  BY SelectedSubset
<1>2. ASSUME NEW loaded \in ByPriority(S), NEW fired \in Firings(S)
      PROVE  AllCount(t, loaded, fired)
  <2>1. loaded \in Seq(Rules)
    BY <1>1, ByPriorityType
  <2>2. FlagsCount(loaded, fired) /\ RefusalsCount(loaded, fired) /\ RisksCount(loaded, fired)
    BY <1>1, <2>1, EveryFiringCounts
  <2> QED
    BY <2>2 DEF AllCount
<1> QED
  BY <1>2 DEF Counted

\* Whatever the rules, their names, weights and priorities are, no refusal, decline or
\* amount over the limit is lost in the result of an evaluation, and of flags and additions
\* none but the rule that is called like their type.
THEOREM FiredRulesCountHolds == Spec => []FiredRulesCount
<1>1. TypeOK => FiredRulesCount
  <2> SUFFICES ASSUME TypeOK, NEW k \in Callers, pc[k] = "evaluate"
               PROVE  [kind |-> kind[k], read |-> read[k]] \in Counted
    BY DEF FiredRulesCount
  <2>1. kind[k] \in Kinds
    BY DEF TypeOK, CallsTyped
  <2>2. rules \subseteq Rules /\ read[k] \subseteq Selected(kind[k], rules)
    BY DEF TypeOK, CachesTyped, RowsOfKind
  <2>3. read[k] \subseteq Selected(kind[k], Rules)
    BY <2>2, SelectedMonotone
  <2> QED
    BY <2>1, <2>3, AllLoadsCount
<1> QED
  BY <1>1, TypeCorrect, PTL
=============================================================================
