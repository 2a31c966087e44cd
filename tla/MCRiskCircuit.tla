--------------------------- MODULE MCRiskCircuit ---------------------------
(***************************************************************************)
(* RiskCircuit for TLC.  The peak starts at 70 and rises when equity 100   *)
(* is observed.  With limits of 20 % and 30 %, equity 70 is a daily loss   *)
(* from a start of 100, and a drawdown without a daily loss when a date    *)
(* starts there after a peak of 100.  The venue's bars are dated the UTC   *)
(* day or the day before: a server west of UTC, or a bar seen late.        *)
(***************************************************************************)
EXTENDS RiskCircuit

MCEquity == {70, 100}
MCWest == {-1, 0}
=============================================================================
