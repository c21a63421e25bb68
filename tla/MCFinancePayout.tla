-------------------------- MODULE MCFinancePayout --------------------------
(* Small instance of FinancePayout for TLC.                                *)
EXTENDS FinancePayout, TLC

\* Calls are interchangeable.
MCSymmetry == Permutations(Callers)
=============================================================================
