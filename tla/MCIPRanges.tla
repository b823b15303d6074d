----------------------------- MODULE MCIPRanges -----------------------------
(* IPRanges for TLC.                                                        *)
EXTENDS IPRanges, TLC
=============================================================================
