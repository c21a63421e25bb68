------------------------ MODULE MCUnderwritingService ------------------------
(* Small instance of UnderwritingService for TLC.                          *)
EXTENDS UnderwritingService, TLC

\* Calls and tokens are interchangeable; so are the underwriters.
MCSymmetry ==
    Permutations(Callers) \cup Permutations(Tokens) \cup Permutations(Underwriters)
=============================================================================
