--------------------------- MODULE WriteAheadSend ---------------------------
(***************************************************************************)
(* What the in-flight ledger promises (inflight.py, and the comments of    *)
(* Engine._open): an order is transmitted only under a durable record, the *)
(* record goes only when the engine has an answer, and an order whose      *)
(* answer was lost keeps its record for ever and is never sent again.      *)
(***************************************************************************)
EXTENDS Naturals

CONSTANT Key

VARIABLES
  open,   \* orders with a durable record of a send
  sent,   \* sent[k]: times order k was transmitted
  lost    \* orders with a transmission whose answer was lost

vars == <<open, sent, lost>>

Init == open = {} /\ sent = [k \in Key |-> 0] /\ lost = {}

Record(k) == k \notin open /\ open' = open \cup {k} /\ UNCHANGED <<sent, lost>>

Send(k) == /\ k \in open \ lost
           /\ sent' = [sent EXCEPT ![k] = @ + 1]
           /\ UNCHANGED <<open, lost>>

Answered(k) == k \in open \ lost /\ open' = open \ {k} /\ UNCHANGED <<sent, lost>>

GiveUp(k) == /\ k \in open \ lost /\ sent[k] > 0
             /\ lost' = lost \cup {k}
             /\ UNCHANGED <<open, sent>>

Next == \E k \in Key : Record(k) \/ Send(k) \/ Answered(k) \/ GiveUp(k)

Spec == Init /\ [][Next]_vars

=============================================================================
