-------------------------- MODULE MCPositionCare --------------------------
(* A small instance of PositionCare for TLC: a buy of three steps and, perhaps,*)
(* a sell of one, with and without a stop and a target.                      *)
EXTENDS PositionCare, TLC

CONSTANTS t1, t2

MCPrices == {1, 3, 5, 6}
Buy(sl, tp) == [side |-> "buy", volume |-> 3, open |-> 3, sl |-> sl, tp |-> tp]
Sell(v, sl) == [side |-> "sell", volume |-> v, open |-> 3, sl |-> sl, tp |-> 0]
MCBooks == {(t1 :> Buy(sl, tp)) @@ (t2 :> q) :
              sl \in {0, 1}, tp \in {0, 5}, q \in {Closed, Sell(1, 5)}}
=============================================================================
