------------------------------ MODULE Exchange ------------------------------
(***************************************************************************)
(* What the MT4 mailbox promises a desk that sends one request at a time:  *)
(* a request reaches the venue at most once, and a desk that was told its  *)
(* request is settled (answered, or withdrawn) will not see it executed    *)
(* afterwards.  A request the desk is left unsure of may still execute.    *)
(***************************************************************************)
EXTENDS Naturals

CONSTANT Requests      \* the requests, in the order they are posted

VARIABLES
  fate,      \* what became of each request
  verdict    \* what the desk was told of it

xvars == <<fate, verdict>>

Fates    == {"unposted", "pending", "executed", "void"}
Verdicts == {"none", "settled", "unsure"}

XInit ==
  /\ fate = [u \in Requests |-> "unposted"]
  /\ verdict = [u \in Requests |-> "none"]

(* The desk posts a request, in whose place no other is left to take.      *)
Post(u) ==
  /\ fate[u] = "unposted"
  /\ \E gone \in SUBSET {v \in Requests : fate[v] = "pending"} :
       fate' = [v \in Requests |-> IF v = u THEN "pending"
                                   ELSE IF v \in gone THEN "void" ELSE fate[v]]
  /\ UNCHANGED verdict

(* The operation of a pending request changes the book, once.              *)
Execute(u) ==
  /\ fate[u] = "pending"
  /\ fate' = [fate EXCEPT ![u] = "executed"]
  /\ UNCHANGED verdict

(* Pending requests are refused, dropped, lost or removed.                 *)
Void ==
  /\ \E gone \in SUBSET {v \in Requests : fate[v] = "pending"} :
       fate' = [v \in Requests |-> IF v \in gone THEN "void" ELSE fate[v]]
  /\ UNCHANGED verdict

(* The desk stops waiting.  It calls a request settled only if that is     *)
(* out of the Expert's reach.                                              *)
Tell(u) ==
  /\ verdict[u] = "none" /\ fate[u] # "unposted"
  /\ \E gone \in SUBSET {v \in Requests : fate[v] = "pending"} :
       fate' = [v \in Requests |-> IF v \in gone THEN "void" ELSE fate[v]]
  /\ \E v \in {"settled", "unsure"} :
       /\ verdict' = [verdict EXCEPT ![u] = v]
       /\ v = "settled" => fate'[u] # "pending"

XNext == Void \/ \E u \in Requests : Post(u) \/ Execute(u) \/ Tell(u)

XSpec == XInit /\ [][XNext]_xvars

=============================================================================
