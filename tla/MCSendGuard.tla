---------------------------- MODULE MCSendGuard ----------------------------
(***************************************************************************)
(* SendGuard for TLC.  The keys are model values: "m1" and "m2" of market, *)
(* reverse, close or auto orders, "l1" of a limit or stop order.           *)
(***************************************************************************)
EXTENDS SendGuard
=============================================================================
