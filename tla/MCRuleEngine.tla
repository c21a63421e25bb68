---------------------------- MODULE MCRuleEngine ----------------------------
(* Small instance of RuleEngine for TLC.                                   *)
EXTENDS RuleEngine

CONSTANTS api, worker, f1, f2, f3, adds, multiplies, refuses

MCSeeded == Rules \ {adds}

\* f1 and f2 are below the threshold alone and reach it together; so would f2 and f3, were
\* f3, which is called like the type of all three, not taken for f2 when f2 fires first.
\* adds and multiplies are called like types other than their own, and f2 like the hard rule.
\* adds, which eligibility and risk evaluations both load, is created while evaluations run.
MCEvent == (f1 :> "fraud_flag") @@ (f2 :> "fraud_flag") @@ (f3 :> "fraud_flag")
           @@ (adds :> "risk_score_add") @@ (multiplies :> "risk_multiplier")
           @@ (refuses :> "ineligible")
MCName == (f1 :> "burst") @@ (f2 :> "AMOUNT_MULTIPLIER_THRESHOLD") @@ (f3 :> "fraud_flag")
          @@ (adds :> "ineligible") @@ (multiplies :> "risk_score_add") @@ (refuses :> "age")
MCParam == (f1 :> 35) @@ (f2 :> 20) @@ (f3 :> Unset) @@ (adds :> 150) @@ (multiplies :> 15)
           @@ (refuses :> Unset)
MCScoreWeight == [r \in Rules |-> IF r = f3 THEN 40 ELSE 0]
MCPriority == (f1 :> 1) @@ (f2 :> 1) @@ (f3 :> 1) @@ (adds :> 1) @@ (multiplies :> 0)
              @@ (refuses :> 2)

MCProcesses == {api, worker}
MCKinds == (api :> {"ELIGIBILITY"}) @@ (worker :> {"RISK", "FRAUD"})

Symmetry == Permutations(Callers)
=============================================================================
