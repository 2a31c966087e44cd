--------------------------- MODULE MCEngineTick ---------------------------
(***************************************************************************)
(* EngineTick for TLC.  A venue on UTC, whose bars are acted on the day    *)
(* they open, and one whose bars are a day behind or ahead.                *)
(***************************************************************************)
EXTENDS EngineTick

MCOnUTC == {0}
MCOffUTC == {-1, 0, 1}
=============================================================================
