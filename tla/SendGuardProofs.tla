-------------------------- MODULE SendGuardProofs --------------------------
(***************************************************************************)
(* SendGuard for every set of orders, every number of repeated calls and   *)
(* any number of crashes and failed writes.                                *)
(***************************************************************************)
EXTENDS SendGuard, TLAPS

USE DEF memVars, sendVars, confVars, fileVars, venueVars, keyVars, histVars

LEMMA OrderFacts ==
  /\ NoOrder \in Order
  /\ \A o \in Order : o.key \in Key \cup {None} /\ o.kind \in Kinds
                      /\ o.ticket \in Key \cup {None}
  /\ NoOrder.key = None /\ NoOrder.kind = "none" /\ None \notin Key
  /\ NoRecord.ev = "none" /\ NoRecord \in [ev : Events, order : Order]
  BY KeyAssumption DEF NoOrder, Order, Kinds, NoRecord, Events

-----------------------------------------------------------------------------
(* Types and phases.  A staged order, in memory or on file, has a minted   *)
(* key; an order being sent is the staged one, or one of the auto leg,     *)
(* whose key was never staged.                                             *)

Sending   == {"begun", "awaiting", "replied", "resolved"}
Staged(o) == o.key \in minted /\ o.kind # "auto"

Phase ==
  /\ pc # "idle" => up
  /\ pc \notin {"awaiting", "replied", "resolved"} => tries = 0
  /\ pc \in Sending \cup {"closed"} => cur.key \in minted
  /\ pc \in {"closed", "confirm"} => pending # NoOrder
  /\ pc = "closed" => cur = pending
  /\ pc \in Sending /\ cur.kind # "auto" => cur = pending
  /\ pc \in Sending /\ cur.kind = "auto" =>
       /\ pending.key # cur.key
       /\ jConfirm.ev = "confirm_stage" => jConfirm.order.key # cur.key
  /\ pending # NoOrder => Staged(pending)
  /\ jConfirm.ev = "confirm_stage" => Staged(jConfirm.order)

Phased == TypeOK /\ Phase

(* The orders the three staging handlers build.                            *)
LEMMA StagedOrders ==
  ASSUME NEW k \in Key, NEW t \in Key
  PROVE  /\ Stage(k) => \E o \in Order : o.key = k /\ o.kind # "auto" /\ SetPending(o)
         /\ StageReverse(k, t) => \E o \in Order : o.key = k /\ o.kind # "auto" /\ SetPending(o)
         /\ StageClose(k, t) => \E o \in Order : o.key = k /\ o.kind # "auto" /\ SetPending(o)
  <1> DEFINE s == [key |-> k, kind |-> IF k \in RestingKey THEN "limit" ELSE "market",
                   ticket |-> None]
             r == [key |-> k, kind |-> "reverse", ticket |-> t]
             c == [key |-> k, kind |-> "close", ticket |-> t]
  <1>1. s \in Order /\ s.key = k /\ s.kind # "auto"
    BY DEF Order, Kinds
  <1>2. r \in Order /\ r.key = k /\ r.kind # "auto"
    BY DEF Order, Kinds
  <1>3. c \in Order /\ c.key = k /\ c.kind # "auto"
    BY DEF Order, Kinds
  <1>4. Stage(k) => SetPending(s)
    BY DEF Stage
  <1>5. StageReverse(k, t) => SetPending(r)
    BY DEF StageReverse
  <1>6. StageClose(k, t) => SetPending(c)
    BY DEF StageClose
  <1> HIDE DEF s, r, c
  <1>. QED
    BY <1>1, <1>2, <1>3, <1>4, <1>5, <1>6

(* Every step of the module, with the staging handlers brought to          *)
(* SetPending: the cases of each proof below.                              *)
LEMMA Cases ==
  ASSUME [Next]_vars
  PROVE  \/ UNCHANGED vars
         \/ \E o \in Order : o.key \in Key /\ o.kind # "auto" /\ SetPending(o)
         \/ ConfirmDrop \/ ConfirmKeep \/ ConfirmClose \/ CloseUnanswered \/ ReverseClose
         \/ ReverseRefused \/ ConfirmBegin \/ ReverseBegin \/ (\E k \in Key : AutoBegin(k))
         \/ Transmit \/ Retransmit \/ ReplyRead \/ SendRaises \/ Resolve \/ ResolveRaises
         \/ Settle \/ EmitRaises \/ Cancel \/ Halt \/ CircuitTrip \/ FlattenRaises \/ Resume
         \/ (\E on \in BOOLEAN : SetApprove(on)) \/ Crash \/ Start \/ Rotate \/ HaltFileByHand
         \/ (\E k \in Key : Expire(k) \/ WorkingEnds(k) \/ PositionEnds(k))
         \/ (\E k \in Key, r \in Replies : VenueExecute(k, r) \/ VenueReject(k, r))
  <1>1. CASE UNCHANGED vars
    BY <1>1
  <1>2. CASE DeskStep \/ Confirm \/ Environment
    BY <1>2 DEF DeskStep, Confirm, Environment
  <1>3. CASE Command
    BY <1>3, StagedOrders DEF Command
  <1>. QED
    BY <1>1, <1>2, <1>3 DEF Next

LEMMA CountUp == \A f \in [Key -> Nat], k \in Key : [f EXCEPT ![k] = @ + 1] \in [Key -> Nat]
  OBVIOUS

LEMMA TriesLeftType ==
  ASSUME TypeOK
  PROVE  \A k \in Key : TriesLeft(k) \in Nat
  BY ResendsAssumption DEF TypeOK, TriesLeft

LEMMA QuotaType ==
  ASSUME TypeOK, HaltFileMade \/ HaltFileRemoved
  PROVE  quota' \in [Key -> Nat] /\ haltFile' \in BOOLEAN
  <1>1. \A k \in Key : sent[k] + TriesLeft(k) \in Nat
    <2>1. \A k \in Key : sent[k] \in Nat
      BY DEF TypeOK
    <2>2. \A m, n \in Nat : m + n \in Nat
      OBVIOUS
    <2>. QED
      BY <2>1, <2>2, TriesLeftType, Zenon
  <1>2. CASE HaltFileMade
    BY <1>1, <1>2 DEF HaltFileMade, TypeOK
  <1>3. CASE HaltFileRemoved
    BY <1>3 DEF HaltFileRemoved
  <1>. QED
    BY <1>2, <1>3

LEMMA TypeInit == Init => TypeOK
  <1> SUFFICES ASSUME Init PROVE TypeOK
    OBVIOUS
  <1>1. tries \in 0..(Resends + 1)
    BY ResendsAssumption DEF Init
  <1>2. jConfirm \in [ev : Events, order : Order]
    BY OrderFacts DEF Init
  <1>. QED
    BY <1>1, <1>2, OrderFacts DEF Init, TypeOK, Phases, Replies

LEMMA TypeStep == Phased /\ [Next]_vars => TypeOK'
  <1> SUFFICES ASSUME Phased, [Next]_vars PROVE TypeOK'
    OBVIOUS
  <1> USE OrderFacts, ResendsAssumption DEF Phased, TypeOK, Phases, Replies, Events, EndSend,
          EndCall, ClearPending, WriteConfirm, WriteRaises
  <1>1. CASE UNCHANGED vars
    BY <1>1 DEF vars
  <1>2. CASE \E o \in Order : o.key \in Key /\ o.kind # "auto" /\ SetPending(o)
    BY <1>2 DEF SetPending, Idle
  <1>3. CASE ConfirmDrop \/ ConfirmKeep \/ ConfirmClose \/ CloseUnanswered \/ ReverseClose
             \/ ReverseRefused
    BY <1>3 DEF ConfirmDrop, ConfirmKeep, ConfirmClose, CloseUnanswered, ReverseClose,
       ReverseRefused
  <1>4. CASE ConfirmBegin \/ ReverseBegin \/ \E k \in Key : AutoBegin(k)
    <2>1. CASE ConfirmBegin
      BY <1>4, <2>1 DEF ConfirmBegin, Passing, Confirming, Begin, LedgerBegin, Phase, Staged
    <2>2. CASE ReverseBegin
      BY <1>4, <2>2 DEF ReverseBegin, Begin, LedgerBegin, Phase
    <2>3. ASSUME NEW k \in Key, AutoBegin(k) PROVE TypeOK'
      <3>1. [key |-> k, kind |-> "auto", ticket |-> None] \in Order
        BY DEF Order, Kinds
      <3>. QED
        BY <2>3, <3>1 DEF AutoBegin, Begin, LedgerBegin
    <2>. QED
      BY <1>4, <2>1, <2>2, <2>3
  <1>5. CASE Transmit \/ Retransmit \/ ReplyRead \/ SendRaises
    <2>1. CASE Transmit
      <3>1. tries' \in 0..(Resends + 1)
        BY <2>1 DEF Transmit, PutOnWire, Phase
      <3>2. wire' \in [Key -> Nat] /\ sent' \in [Key -> Nat]
        BY <2>1, CountUp DEF Transmit, PutOnWire, Phase, Sending
      <3>. QED
        BY <2>1, <3>1, <3>2 DEF Transmit, PutOnWire
    <2>2. CASE Retransmit
      <3>1. tries' \in 0..(Resends + 1)
        BY <2>2 DEF Retransmit, PutOnWire
      <3>2. wire' \in [Key -> Nat] /\ sent' \in [Key -> Nat]
        BY <2>2, CountUp DEF Retransmit, PutOnWire, Phase, Sending
      <3>. QED
        BY <2>2, <3>1, <3>2 DEF Retransmit, PutOnWire
    <2>3. CASE ReplyRead
      BY <2>3 DEF ReplyRead
    <2>4. CASE SendRaises
      <3>1. wire' \in [Key -> Nat]
        BY <2>4 DEF SendRaises
      <3>2. unanswered' \subseteq Key
        BY <2>4 DEF SendRaises, Phase, Sending
      <3>. QED
        BY <2>4, <3>1, <3>2 DEF SendRaises
    <2>. QED
      BY <1>5, <2>1, <2>2, <2>3, <2>4
  <1>6. CASE Resolve \/ ResolveRaises \/ Settle \/ EmitRaises
    BY <1>6 DEF Resolve, LedgerResolve, ResolveRaises, Settle, EmitRaises
  <1>7. CASE Cancel \/ Halt \/ CircuitTrip \/ FlattenRaises \/ Resume
             \/ \E on \in BOOLEAN : SetApprove(on)
    <2>1. CASE Cancel \/ FlattenRaises
      BY <2>1 DEF Cancel, FlattenRaises
    <2>2. CASE Halt \/ CircuitTrip
      <3>0. quota' \in [Key -> Nat] /\ haltFile' \in BOOLEAN
        BY <2>2, QuotaType DEF Halt, CircuitTrip
      <3>1. pos' \in [Key -> Nat] /\ work' \in [Key -> Nat]
        BY <2>2 DEF Halt, CircuitTrip, Flatten
      <3>2. pending' \in Order /\ jConfirm' \in [ev : Events, order : Order] /\ lostWrites' \in Nat
        BY <2>2 DEF Halt, CircuitTrip, Flatten
      <3>. QED
        BY <2>2, <3>0, <3>1, <3>2 DEF Halt, CircuitTrip, Flatten
    <2>3. CASE Resume
      BY <2>3 DEF Resume, HaltFileRemoved
    <2>4. CASE \E on \in BOOLEAN : SetApprove(on)
      BY <2>4 DEF SetApprove
    <2>. QED
      BY <1>7, <2>1, <2>2, <2>3, <2>4
  <1>8. CASE Crash \/ Start \/ Rotate \/ HaltFileByHand
    <2>1. CASE Crash
      <3>1. unanswered' \subseteq Key
        BY <2>1 DEF Crash, Phase, Sending
      <3>2. tries' \in 0..(Resends + 1) /\ pc' \in Phases /\ cur' \in Order /\ reply' \in Replies
        BY <2>1 DEF Crash
      <3>3. crashes' \in Nat
        BY <2>1 DEF Crash
      <3>. QED
        BY <2>1, <3>1, <3>2, <3>3 DEF Crash
    <2>2. CASE Start
      BY <2>2 DEF Start, Restored
    <2>3. CASE Rotate
      BY <2>3 DEF Rotate
    <2>4. CASE HaltFileByHand
      <3>1. quota' \in [Key -> Nat] /\ haltFile' \in BOOLEAN
        BY <2>4, QuotaType DEF HaltFileByHand
      <3>. QED
        BY <2>4, <3>1 DEF HaltFileByHand
    <2>. QED
      BY <1>8, <2>1, <2>2, <2>3, <2>4
  <1>9. CASE \E k \in Key : Expire(k) \/ WorkingEnds(k) \/ PositionEnds(k)
    BY <1>9 DEF Expire, WorkingEnds, PositionEnds, VenueOnly
  <1>10. CASE \E k \in Key, r \in Replies : VenueExecute(k, r) \/ VenueReject(k, r)
    BY <1>10 DEF VenueExecute, VenueReject, Answer, VenueOnly
  <1>. QED
    BY <1>1, <1>2, <1>3, <1>4, <1>5, <1>6, <1>7, <1>8, <1>9, <1>10, Cases

LEMMA PhaseStep == Phased /\ [Next]_vars => Phase'
  <1> SUFFICES ASSUME Phased, [Next]_vars PROVE Phase'
    OBVIOUS
  <1> USE OrderFacts DEF Phased, Phase, Sending, Staged, EndSend, ClearPending, WriteConfirm,
          WriteRaises
  <1>1. CASE UNCHANGED vars
    BY <1>1 DEF vars
  <1>2. CASE \E o \in Order : o.key \in Key /\ o.kind # "auto" /\ SetPending(o)
    BY <1>2 DEF SetPending, Idle
  <1>3. CASE ConfirmDrop \/ ConfirmKeep \/ ConfirmClose \/ CloseUnanswered \/ ReverseClose
             \/ ReverseRefused
    BY <1>3 DEF ConfirmDrop, ConfirmKeep, ConfirmClose, CloseUnanswered, ReverseClose,
       ReverseRefused, Passing, Confirming
  <1>4. CASE ConfirmBegin \/ ReverseBegin \/ \E k \in Key : AutoBegin(k)
    <2>1. CASE ConfirmBegin \/ ReverseBegin
      BY <2>1 DEF ConfirmBegin, Passing, Confirming, ReverseBegin, Begin
    <2>2. ASSUME NEW k \in Key, AutoBegin(k) PROVE Phase'
      BY <2>2 DEF AutoBegin, Idle, Begin
    <2>. QED
      BY <1>4, <2>1, <2>2
  <1>5. CASE Transmit \/ Retransmit \/ ReplyRead \/ SendRaises
    BY <1>5 DEF Transmit, Retransmit, PutOnWire, ReplyRead, SendRaises
  <1>6. CASE Resolve \/ ResolveRaises \/ Settle \/ EmitRaises
    BY <1>6 DEF Resolve, ResolveRaises, Settle, EmitRaises
  <1>7. CASE Cancel \/ Halt \/ CircuitTrip \/ FlattenRaises \/ Resume
             \/ \E on \in BOOLEAN : SetApprove(on)
    <2>1. CASE Cancel \/ FlattenRaises
      BY <2>1 DEF Cancel, FlattenRaises, Idle
    <2>2. CASE Halt \/ CircuitTrip
      BY <2>2 DEF Halt, CircuitTrip, Flatten, Idle
    <2>3. CASE Resume \/ \E on \in BOOLEAN : SetApprove(on)
      BY <2>3 DEF Resume, SetApprove, Idle
    <2>. QED
      BY <1>7, <2>1, <2>2, <2>3
  <1>8. CASE Crash \/ Start \/ Rotate \/ HaltFileByHand
    BY <1>8 DEF Crash, Start, Restored, Rotate, HaltFileByHand
  <1>9. CASE \E k \in Key : Expire(k) \/ WorkingEnds(k) \/ PositionEnds(k)
    BY <1>9 DEF Expire, WorkingEnds, PositionEnds, VenueOnly
  <1>10. CASE \E k \in Key, r \in Replies : VenueExecute(k, r) \/ VenueReject(k, r)
    BY <1>10 DEF VenueExecute, VenueReject, Answer, VenueOnly
  <1>. QED
    BY <1>1, <1>2, <1>3, <1>4, <1>5, <1>6, <1>7, <1>8, <1>9, <1>10, Cases

(* Every variable keeps its type: in particular a send is put on the wire  *)
(* at most Resends + 1 times, and only minted keys are staged or sent.     *)
THEOREM PhasedAlways == Spec => []Phased
  <1>1. Init => Phased
    BY TypeInit, OrderFacts DEF Init, Phased, Phase, Sending, Staged
  <1>2. Phased /\ [Next]_vars => Phased'
    BY TypeStep, PhaseStep DEF Phased
  <1>. QED
    BY <1>1, <1>2, PTL DEF Spec

(* TypeOK for every value of the constants.                                *)
THEOREM TypeCorrect == Spec => []TypeOK
  BY PhasedAlways, PTL DEF Phased
-----------------------------------------------------------------------------
(* The ledger: the order being sent has its entry from before the first    *)
(* transmission until the answer is dealt with, and an order whose answer  *)
(* was lost keeps its entry.                                               *)

Recorded ==
  /\ unanswered \subseteq ledger
  /\ pc \in {"begun", "awaiting", "replied"} => cur.key \in ledger \ unanswered
  /\ pc = "resolved" => cur.key \notin ledger
  /\ pc \in {"awaiting", "replied"} => sent[cur.key] > 0

LEMMA RecordedStep == Phased /\ Recorded /\ [Next]_vars => Recorded'
  <1> SUFFICES ASSUME Phased, Recorded, [Next]_vars PROVE Recorded'
    OBVIOUS
  <1> USE DEF Recorded, EndSend
  <1>1. CASE UNCHANGED vars
    BY <1>1 DEF vars
  <1>2. CASE \E o \in Order : o.key \in Key /\ o.kind # "auto" /\ SetPending(o)
    BY <1>2 DEF SetPending, Idle
  <1>3. CASE ConfirmDrop \/ ConfirmKeep \/ ConfirmClose \/ CloseUnanswered \/ ReverseClose
             \/ ReverseRefused
    BY <1>3 DEF ConfirmDrop, ConfirmKeep, ConfirmClose, CloseUnanswered, ReverseClose,
       ReverseRefused
  <1>4. CASE ConfirmBegin \/ ReverseBegin \/ \E k \in Key : AutoBegin(k)
    BY <1>4 DEF ConfirmBegin, ReverseBegin, AutoBegin, Begin, LedgerBegin, HasEntry
  <1>5. CASE Transmit \/ Retransmit \/ ReplyRead \/ SendRaises
    <2>1. CASE Transmit \/ Retransmit
      BY <2>1 DEF Transmit, Retransmit, PutOnWire, Phased, TypeOK, Phase, Sending
    <2>2. CASE ReplyRead \/ SendRaises
      BY <2>2 DEF ReplyRead, SendRaises
    <2>. QED
      BY <1>5, <2>1, <2>2
  <1>6. CASE Resolve \/ ResolveRaises \/ Settle \/ EmitRaises
    BY <1>6 DEF Resolve, LedgerResolve, ResolveRaises, Settle, EmitRaises
  <1>7. CASE Cancel \/ Halt \/ CircuitTrip \/ FlattenRaises \/ Resume
             \/ \E on \in BOOLEAN : SetApprove(on)
    BY <1>7 DEF Cancel, Halt, CircuitTrip, Flatten, FlattenRaises, Resume, SetApprove, Idle
  <1>8. CASE Crash \/ Start \/ Rotate \/ HaltFileByHand
    BY <1>8 DEF Crash, Start, Rotate, HaltFileByHand
  <1>9. CASE \E k \in Key : Expire(k) \/ WorkingEnds(k) \/ PositionEnds(k)
    BY <1>9 DEF Expire, WorkingEnds, PositionEnds, VenueOnly
  <1>10. CASE \E k \in Key, r \in Replies : VenueExecute(k, r) \/ VenueReject(k, r)
    BY <1>10 DEF VenueExecute, VenueReject, Answer, VenueOnly
  <1>. QED
    BY <1>1, <1>2, <1>3, <1>4, <1>5, <1>6, <1>7, <1>8, <1>9, <1>10, Cases

LEMMA RecordedAlways == Spec => []Recorded
  <1>1. Init => Recorded
    BY DEF Init, Recorded
  <1>2. Phased /\ Recorded /\ [Next]_vars => Recorded'
    BY RecordedStep
  <1>. QED
    BY <1>1, <1>2, PhasedAlways, PTL DEF Spec

(* Whatever crashes and restarts come between, the ledger names every      *)
(* order whose answer was lost.                                            *)
THEOREM LedgerNamesUnanswered == Spec => []UnansweredIsOnFile
  BY RecordedAlways, PTL DEF Recorded, UnansweredIsOnFile

-----------------------------------------------------------------------------
(* The HALT file.  What the order at work may still transmit is within the *)
(* quota: it passed its checks before the file was there.                  *)

QuotaKept == haltFile => \A k \in Key : sent[k] + TriesLeft(k) <= quota[k]

LEMMA QuotaStep == Phased /\ QuotaKept /\ [Next]_vars => QuotaKept'
  <1> SUFFICES ASSUME Phased, QuotaKept, [Next]_vars PROVE QuotaKept'
    OBVIOUS
  <1>0. /\ sent \in [Key -> Nat] /\ quota \in [Key -> Nat] /\ Resends \in Nat
        /\ tries \in 0..(Resends + 1) /\ (pc \in {"begun", "awaiting"} => cur.key \in Key)
        /\ \A k \in Key : TriesLeft(k) \in Nat
    BY TriesLeftType, ResendsAssumption DEF Phased, Phase, TypeOK, Sending
  <1>a. CASE UNCHANGED <<haltFile, quota, sent>> /\ \A k \in Key : TriesLeft(k)' = 0
    <2>1. QuotaKept => (haltFile => \A k \in Key : sent[k] + 0 <= quota[k])
      BY <1>0 DEF QuotaKept
    <2>. QED
      BY <1>a, <2>1 DEF QuotaKept
  <1>b. CASE UNCHANGED <<haltFile, quota, sent, pc, cur, tries>>
    BY <1>b DEF QuotaKept, TriesLeft
  <1>c. CASE ~haltFile'
    BY <1>c DEF QuotaKept
  <1>d. CASE HaltFileMade /\ UNCHANGED <<sent, pc, cur, tries>>
    <2>1. CASE haltFile
      BY <1>b, <1>d, <2>1 DEF HaltFileMade
    <2>2. CASE ~haltFile
      <3>1. \A k \in Key : TriesLeft(k)' = TriesLeft(k)
        BY <1>d DEF TriesLeft
      <3>2. \A k \in Key : quota'[k] = sent[k] + TriesLeft(k)
        BY <1>d, <2>2 DEF HaltFileMade
      <3>3. \A k \in Key : sent[k] + TriesLeft(k) <= sent[k] + TriesLeft(k)
        BY <1>0
      <3>. QED
        BY <1>d, <3>1, <3>2, <3>3 DEF QuotaKept
    <2>. QED
      BY <2>1, <2>2
  <1>e. pc' \notin {"begun", "awaiting"} => \A k \in Key : TriesLeft(k)' = 0
    BY DEF TriesLeft
  <1>1. CASE UNCHANGED vars
    BY <1>1, <1>b DEF vars
  <1>2. CASE \E o \in Order : o.key \in Key /\ o.kind # "auto" /\ SetPending(o)
    BY <1>2, <1>a, <1>e DEF SetPending, Idle
  <1>3. CASE ConfirmDrop \/ ConfirmKeep \/ ConfirmClose \/ CloseUnanswered \/ ReverseClose
             \/ ReverseRefused \/ Resolve \/ ResolveRaises \/ Settle \/ EmitRaises
    BY <1>3, <1>a, <1>e DEF ConfirmDrop, ConfirmKeep, ConfirmClose, CloseUnanswered,
       ReverseClose, ReverseRefused, Resolve, ResolveRaises, Settle, EmitRaises, EndSend
  <1>11. CASE ReplyRead \/ SendRaises \/ Crash
    <2>1. UNCHANGED <<haltFile, sent>> /\ EndCall /\ pc' \notin {"begun", "awaiting"}
      BY <1>11 DEF ReplyRead, SendRaises, Crash, EndSend
    <2>2. haltFile => \A k \in Key : sent'[k] + 0 <= quota'[k]
      BY <1>0, <2>1 DEF EndCall
    <2>. QED
      BY <1>e, <2>1, <2>2 DEF QuotaKept
  <1>4. CASE ConfirmBegin \/ ReverseBegin \/ \E k \in Key : AutoBegin(k)
    BY <1>4, <1>c DEF ConfirmBegin, MayAllow, ReverseBegin, AutoBegin, Begin
  <1>5. CASE Transmit \/ Retransmit
    <2>1. /\ pc \in {"begun", "awaiting"} /\ pc' = "awaiting" /\ tries <= Resends
          /\ tries' = tries + 1 /\ UNCHANGED <<cur, haltFile, quota>> /\ cur.key \in Key
      BY <1>0, <1>5 DEF Transmit, Retransmit, PutOnWire, Phased, Phase
    <2>2. \A k \in Key : sent'[k] = IF k = cur.key THEN sent[k] + 1 ELSE sent[k]
      BY <1>0, <1>5 DEF Transmit, Retransmit, PutOnWire
    <2>3. \A k \in Key : k = cur.key => /\ TriesLeft(k) = Resends + 1 - tries
                                         /\ TriesLeft(k)' = Resends + 1 - (tries + 1)
      BY <2>1 DEF TriesLeft
    <2>4. \A k \in Key : k # cur.key => TriesLeft(k) = 0 /\ TriesLeft(k)' = 0
      BY <2>1 DEF TriesLeft
    <2>5. \A k \in Key : sent'[k] + TriesLeft(k)' = sent[k] + TriesLeft(k)
      <3>1. \A n, r, t \in Nat : (n + 1) + (r + 1 - (t + 1)) = n + (r + 1 - t)
        OBVIOUS
      <3>2. tries \in Nat /\ \A k \in Key : sent[k] \in Nat
        BY <1>0
      <3>3. ASSUME NEW k \in Key, k = cur.key
            PROVE  sent'[k] + TriesLeft(k)' = sent[k] + TriesLeft(k)
        <4>1. sent'[k] = sent[k] + 1 /\ sent[k] \in Nat /\ Resends \in Nat /\ tries \in Nat
          BY <1>0, <2>2, <3>2, <3>3
        <4>2. TriesLeft(k) = Resends + 1 - tries /\ TriesLeft(k)' = Resends + 1 - (tries + 1)
          BY <2>3, <3>3
        <4>3. (sent[k] + 1) + (Resends + 1 - (tries + 1)) = sent[k] + (Resends + 1 - tries)
          BY <4>1, <3>1
        <4>. QED
          BY <4>1, <4>2, <4>3, Zenon
      <3>4. ASSUME NEW k \in Key, k # cur.key
            PROVE  sent'[k] + TriesLeft(k)' = sent[k] + TriesLeft(k)
        BY <2>2, <2>4, <3>4, Zenon
      <3>. QED
        BY <3>3, <3>4
    <2>. QED
      BY <2>1, <2>5 DEF QuotaKept
  <1>6. CASE Cancel \/ CircuitTrip \/ FlattenRaises \/ \E on \in BOOLEAN : SetApprove(on)
    BY <1>6, <1>b DEF Cancel, CircuitTrip, Flatten, FlattenRaises, SetApprove
  <1>7. CASE Halt \/ Resume \/ HaltFileByHand
    BY <1>7, <1>c, <1>d DEF Halt, Flatten, Resume, HaltFileByHand, HaltFileRemoved
  <1>8. CASE Start \/ Rotate
    BY <1>8, <1>b DEF Start, Rotate
  <1>9. CASE \E k \in Key : Expire(k) \/ WorkingEnds(k) \/ PositionEnds(k)
    BY <1>9, <1>b DEF Expire, WorkingEnds, PositionEnds, VenueOnly
  <1>10. CASE \E k \in Key, r \in Replies : VenueExecute(k, r) \/ VenueReject(k, r)
    BY <1>10, <1>b DEF VenueExecute, VenueReject, VenueOnly
  <1>. QED
    BY <1>1, <1>2, <1>3, <1>4, <1>5, <1>6, <1>7, <1>8, <1>9, <1>10, <1>11, Cases

(* Whenever and however the HALT file appears, no more is transmitted than *)
(* the tries left to the one venue call whose order is already past its    *)
(* checks, until the file goes.                                            *)
THEOREM HaltHolds == Spec => []HaltStopsSends
  <1>1. Init => QuotaKept
    BY DEF Init, QuotaKept
  <1>2. Phased /\ QuotaKept /\ [Next]_vars => QuotaKept'
    BY QuotaStep
  <1>3. Phased /\ QuotaKept => HaltStopsSends
    <2> SUFFICES ASSUME Phased, QuotaKept, haltFile, NEW k \in Key PROVE sent[k] <= quota[k]
      BY DEF HaltStopsSends
    <2>1. sent[k] \in Nat /\ quota[k] \in Nat /\ TriesLeft(k) \in Nat
      BY TriesLeftType DEF Phased, TypeOK
    <2>2. sent[k] + TriesLeft(k) <= quota[k]
      BY DEF QuotaKept
    <2>. QED
      BY <2>1, <2>2
  <1>. QED
    BY <1>1, <1>2, <1>3, PhasedAlways, PTL DEF Spec
-----------------------------------------------------------------------------
(* SendGuard implements WriteAheadSend: the ledger's entries are the       *)
(* records, and the orders whose answer was lost are the lost ones.        *)
THEOREM WriteAhead == Spec => ImplementsWriteAhead
  <1>1. Init => Ledgered!Init
    BY DEF Init, Ledgered!Init
  <1>2. Phased /\ Recorded /\ [Next]_vars => [Ledgered!Next]_(Ledgered!vars)
    <2> SUFFICES ASSUME Phased, Recorded, [Next]_vars
                 PROVE  [Ledgered!Next]_(Ledgered!vars)
      OBVIOUS
    <2> USE DEF Ledgered!Next, Ledgered!vars
    <2>0. pc \in Sending \cup {"closed"} => cur.key \in Key
      BY DEF Phased, Phase, TypeOK
    <2>1. CASE UNCHANGED <<ledger, sent, unanswered>>
      BY <2>1
    <2>2. CASE ConfirmBegin \/ ReverseBegin \/ \E k \in Key : AutoBegin(k)
      <3>1. PICK o : o.key \in Key /\ Begin(o)
        BY <2>0, <2>2, OrderFacts
        DEF ConfirmBegin, Passing, Confirming, ReverseBegin, AutoBegin, Phased, Phase, Staged,
            TypeOK
      <3>2. Ledgered!Record(o.key)
        BY <3>1 DEF Ledgered!Record, Begin, HasEntry, LedgerBegin
      <3>. QED
        BY <3>1, <3>2
    <2>3. CASE Transmit \/ Retransmit
      <3>1. Ledgered!Send(cur.key) /\ cur.key \in Key
        BY <2>0, <2>3 DEF Ledgered!Send, Transmit, Retransmit, PutOnWire, Recorded, Sending
      <3>. QED
        BY <3>1
    <2>4. CASE SendRaises \/ Crash
      <3>1. CASE pc \in {"awaiting", "replied"}
        <4>1. Ledgered!GiveUp(cur.key) /\ cur.key \in Key
          BY <2>0, <2>4, <3>1 DEF Ledgered!GiveUp, SendRaises, Crash, Recorded, Sending
        <4>. QED
          BY <4>1
      <3>2. CASE pc \notin {"awaiting", "replied"}
        BY <2>4, <3>2 DEF SendRaises, Crash
      <3>. QED
        BY <3>1, <3>2
    <2>5. CASE Resolve
      <3>1. Ledgered!Answered(cur.key) /\ cur.key \in Key
        BY <2>0, <2>5 DEF Ledgered!Answered, Resolve, LedgerResolve, Recorded, Sending
      <3>. QED
        BY <3>1
    <2>. QED
      BY <2>1, <2>2, <2>3, <2>4, <2>5, Cases DEF vars, SetPending, ConfirmDrop, ConfirmKeep,
        ConfirmClose, CloseUnanswered, ReverseClose, ReverseRefused, ReplyRead, ResolveRaises,
        Settle, EmitRaises, Cancel, Halt, CircuitTrip, Flatten, FlattenRaises, Resume,
        SetApprove, Start, Rotate, HaltFileByHand, Expire, WorkingEnds, PositionEnds,
        VenueExecute, VenueReject, VenueOnly
  <1>. QED
    BY <1>1, <1>2, PhasedAlways, RecordedAlways, PTL
    DEF Spec, ImplementsWriteAhead, Ledgered!Spec
-----------------------------------------------------------------------------
(* The number of transmissions.  Budget is what the faults so far allow;   *)
(* an order that may still be sent, because it is staged or a restart      *)
(* would stage it, and has no entry, has not been sent more often than     *)
(* that, and the send at work adds no more than Resends + 1.               *)

Budget == (Resends + 1) * (crashes + lostWrites)

AtWork(k) == pc \in Sending /\ cur.key = k

Budgeted ==
  /\ \A k \in Key : sent[k] <= Budget + Resends + 1
  /\ \A k \in Key \ minted : sent[k] = 0
  /\ pending # NoOrder /\ ~AtWork(pending.key) /\ pending.key \notin ledger =>
       sent[pending.key] <= Budget
  /\ jConfirm.ev = "confirm_stage" /\ ~AtWork(jConfirm.order.key)
       /\ jConfirm.order.key \notin ledger => sent[jConfirm.order.key] <= Budget
  /\ pc \in Sending => sent[cur.key] <= Budget + tries

LEMMA BudgetGrows ==
  ASSUME TypeOK
  PROVE  /\ Budget \in Nat
         /\ UNCHANGED <<crashes, lostWrites>> => Budget' = Budget
         /\ crashes' = crashes + 1 /\ lostWrites' = lostWrites => Budget' = Budget + Resends + 1
         /\ crashes' = crashes /\ lostWrites' = lostWrites + 1 => Budget' = Budget + Resends + 1
  <1> DEFINE R == Resends + 1
             F == crashes + lostWrites
  <1>1. R \in Nat /\ F \in Nat
    BY ResendsAssumption DEF TypeOK
  <1>2. R * F \in Nat /\ R * (F + 1) = R * F + R
    BY <1>1
  <1>3. crashes' = crashes + 1 /\ lostWrites' = lostWrites => F' = F + 1
    BY DEF TypeOK
  <1>4. crashes' = crashes /\ lostWrites' = lostWrites + 1 => F' = F + 1
    BY DEF TypeOK
  <1>5. Budget = R * F /\ Budget' = R * F'
    BY DEF Budget
  <1>6. UNCHANGED <<crashes, lostWrites>> => F' = F
    OBVIOUS
  <1> HIDE DEF R, F
  <1>7. R * F + R = R * F + Resends + 1
    BY <1>1, <1>2, ResendsAssumption DEF R
  <1>. QED
    BY <1>1, <1>2, <1>3, <1>4, <1>5, <1>6, <1>7

LEMMA BudgetedStep == Phased /\ Recorded /\ Budgeted /\ [Next]_vars => Budgeted'
  <1> SUFFICES ASSUME Phased, Recorded, Budgeted, [Next]_vars PROVE Budgeted'
    OBVIOUS
  <1>0. TypeOK /\ sent \in [Key -> Nat] /\ Budget \in Nat /\ tries \in 0..(Resends + 1)
        /\ minted \subseteq Key
    BY BudgetGrows DEF Phased, TypeOK
  <1> USE <1>0, BudgetGrows, OrderFacts, ResendsAssumption DEF Budgeted, AtWork, Sending, EndSend,
       Phased, Phase, Staged, ClearPending, WriteConfirm, WriteRaises
  <1>1. CASE UNCHANGED vars
    BY <1>1 DEF vars
  <1>2. CASE \E o \in Order : o.key \in Key /\ o.kind # "auto" /\ SetPending(o)
    BY <1>2 DEF SetPending, Idle
  <1>3. CASE ConfirmDrop \/ ConfirmKeep \/ ConfirmClose \/ CloseUnanswered \/ ReverseClose
             \/ ReverseRefused
    BY <1>3 DEF ConfirmDrop, ConfirmKeep, ConfirmClose, CloseUnanswered, ReverseClose,
       ReverseRefused, Passing, Confirming
  <1>4. CASE ConfirmBegin \/ ReverseBegin \/ \E k \in Key : AutoBegin(k)
    <2>1. CASE ConfirmBegin \/ ReverseBegin
      BY <2>1 DEF ConfirmBegin, Passing, Confirming, ReverseBegin, Begin, LedgerBegin, HasEntry
    <2>2. ASSUME NEW k \in Key, AutoBegin(k) PROVE Budgeted'
      BY <2>2 DEF AutoBegin, Idle, Begin, LedgerBegin, HasEntry
    <2>. QED
      BY <1>4, <2>1, <2>2
  <1>5. CASE Transmit \/ Retransmit \/ ReplyRead \/ SendRaises
    <2>1. CASE Transmit \/ Retransmit
      <3>1. tries <= Resends
        BY <2>1 DEF Transmit, Retransmit
      <3>2. \A k \in Key : sent'[k] = IF k = cur.key THEN sent[k] + 1 ELSE sent[k]
        BY <2>1 DEF Transmit, Retransmit, PutOnWire
      <3>. QED
        BY <2>1, <3>1, <3>2 DEF Transmit, Retransmit, PutOnWire
    <2>2. CASE ReplyRead \/ SendRaises
      BY <2>2 DEF ReplyRead, SendRaises, Recorded
    <2>. QED
      BY <1>5, <2>1, <2>2
  <1>6. CASE Resolve \/ ResolveRaises \/ Settle \/ EmitRaises
    <2>1. CASE Resolve
      BY <2>1 DEF Resolve, LedgerResolve
    <2>2. CASE ResolveRaises \/ EmitRaises
      BY <2>2 DEF ResolveRaises, EmitRaises
    <2>3. CASE Settle
      BY <2>3 DEF Settle
    <2>. QED
      BY <1>6, <2>1, <2>2, <2>3
  <1>7. CASE Cancel \/ Halt \/ CircuitTrip \/ FlattenRaises \/ Resume
             \/ \E on \in BOOLEAN : SetApprove(on)
    <2>1. CASE Cancel \/ FlattenRaises
      BY <2>1 DEF Cancel, FlattenRaises, Idle
    <2>2. CASE Halt \/ CircuitTrip
      BY <2>2 DEF Halt, CircuitTrip, Flatten, Idle
    <2>3. CASE Resume
      BY <2>3 DEF Resume, Idle
    <2>4. ASSUME NEW on \in BOOLEAN, SetApprove(on) PROVE Budgeted'
      BY <2>4 DEF SetApprove, Idle
    <2>. QED
      BY <1>7, <2>1, <2>2, <2>3, <2>4
  <1>8. CASE Crash \/ Start \/ Rotate \/ HaltFileByHand
    <2>1. CASE Crash
      BY <2>1 DEF Crash
    <2>2. CASE Start
      BY <2>2 DEF Start, Restored, Live
    <2>3. CASE Rotate \/ HaltFileByHand
      BY <2>3 DEF Rotate, HaltFileByHand
    <2>. QED
      BY <1>8, <2>1, <2>2, <2>3
  <1>9. CASE \E k \in Key : Expire(k) \/ WorkingEnds(k) \/ PositionEnds(k)
    BY <1>9 DEF Expire, WorkingEnds, PositionEnds, VenueOnly
  <1>10. CASE \E k \in Key, r \in Replies : VenueExecute(k, r) \/ VenueReject(k, r)
    BY <1>10 DEF VenueExecute, VenueReject, VenueOnly
  <1>. QED
    BY <1>1, <1>2, <1>3, <1>4, <1>5, <1>6, <1>7, <1>8, <1>9, <1>10, Cases

(* An order is transmitted (Resends + 1) times, plus as often again for    *)
(* each crash and for each failed write, and never more.                   *)
THEOREM TransmissionsBounded == Spec => []TransmitOncePerFault
  <1>1. Init => Budgeted
    <2> SUFFICES ASSUME Init PROVE Budgeted
      OBVIOUS
    <2>1. TypeOK
      BY TypeInit
    <2>. QED
      BY <2>1, BudgetGrows, ResendsAssumption, OrderFacts DEF Init, Budgeted, Sending
  <1>2. Phased /\ Recorded /\ Budgeted /\ [Next]_vars => Budgeted'
    BY BudgetedStep
  <1>3. Phased /\ Budgeted => TransmitOncePerFault
    <2> SUFFICES ASSUME Phased, Budgeted, NEW k \in Key
                 PROVE  sent[k] <= (Resends + 1) * (1 + crashes + lostWrites)
      BY DEF TransmitOncePerFault
    <2>1. sent[k] <= Budget + Resends + 1
      BY DEF Budgeted
    <2>2. Budget + Resends + 1 = (Resends + 1) * (1 + crashes + lostWrites)
      BY ResendsAssumption DEF Budget, Phased, TypeOK
    <2>. QED
      BY <2>1, <2>2
  <1>. QED
    BY <1>1, <1>2, <1>3, PhasedAlways, RecordedAlways, PTL DEF Spec
-----------------------------------------------------------------------------
(* The desk and its journal.  Without a failed write the last confirm      *)
(* record says what is staged; an order it stages and the desk does not    *)
(* hold has expired.                                                       *)

Mirrored ==
  up /\ lostWrites = 0 =>
    \/ jConfirm = NoRecord
    \/ /\ pending # NoOrder => jConfirm.ev = "confirm_stage" /\ jConfirm.order = pending
       /\ pending = NoOrder /\ jConfirm.ev = "confirm_stage" => jConfirm.order.key \in stale

LEMMA MirroredStep == Phased /\ Mirrored /\ [Next]_vars => Mirrored'
  <1> SUFFICES ASSUME Phased, Mirrored, [Next]_vars PROVE Mirrored'
    OBVIOUS
  <1>0. up \in BOOLEAN /\ lostWrites \in Nat /\ minted \subseteq Key
    BY DEF Phased, TypeOK
  <1>a. CASE UNCHANGED <<up, pending, jConfirm, lostWrites, stale>>
    BY <1>a DEF Mirrored
  <1>b. CASE up /\ UNCHANGED stale /\ \E ev \in {"confirm_cancel", "confirm_sent"} :
               ClearPending(ev)
    BY <1>b, <1>0 DEF Mirrored, ClearPending, WriteConfirm, WriteRaises
  <1>c. CASE UNCHANGED <<up, pending, jConfirm, stale>> /\ WriteRaises
    BY <1>c, <1>0 DEF Mirrored, WriteRaises
  <1>1. CASE \E o \in Order : o.key \in Key /\ o.kind # "auto" /\ SetPending(o)
    BY <1>1, <1>0, OrderFacts DEF Mirrored, SetPending, Idle, WriteConfirm, WriteRaises
  <1>2. CASE ConfirmDrop \/ ConfirmClose \/ Settle \/ Cancel \/ ReverseRefused
    BY <1>2, <1>a, <1>b DEF ConfirmDrop, Confirming, ConfirmClose, Passing, Settle, Cancel,
       Idle, ReverseRefused
  <1>3. CASE ConfirmKeep \/ CloseUnanswered \/ ReverseClose \/ ConfirmBegin \/ ReverseBegin
             \/ (\E k \in Key : AutoBegin(k)) \/ Transmit \/ Retransmit \/ ReplyRead
             \/ SendRaises \/ Resolve
    BY <1>3, <1>a DEF ConfirmKeep, CloseUnanswered, ReverseClose, ConfirmBegin, ReverseBegin,
       AutoBegin, Begin, Transmit, Retransmit, PutOnWire, ReplyRead, SendRaises, Resolve
  <1>4. CASE ResolveRaises \/ EmitRaises \/ \E on \in BOOLEAN : SetApprove(on)
    <2>1. CASE ResolveRaises \/ EmitRaises
      BY <2>1, <1>c DEF ResolveRaises, EmitRaises, WriteRaises
    <2>2. ASSUME NEW on \in BOOLEAN, SetApprove(on) PROVE Mirrored'
      BY <2>2, <1>a, <1>c DEF SetApprove, WriteRaises
    <2>. QED
      BY <1>4, <2>1, <2>2
  <1>5. CASE Halt \/ CircuitTrip
    <2>1. up /\ UNCHANGED <<up, stale>> /\ Flatten
      BY <1>5 DEF Halt, CircuitTrip, Flatten, Idle
    <2>2. CASE pending = NoOrder
      BY <2>1, <2>2, <1>a DEF Flatten
    <2>3. CASE pending # NoOrder
      BY <2>1, <2>3, <1>b DEF Flatten, ClearPending
    <2>. QED
      BY <2>2, <2>3
  <1>6. CASE FlattenRaises
    BY <1>6, <1>0 DEF FlattenRaises, Mirrored, WriteRaises
  <1>7. CASE UNCHANGED vars \/ Resume \/ HaltFileByHand
    BY <1>7, <1>a DEF vars, Resume, HaltFileByHand
  <1>8. CASE Crash \/ Rotate
    BY <1>8 DEF Crash, Rotate, Mirrored
  <1>9. CASE Start
    <2>1. jConfirm.ev = "confirm_stage" => jConfirm.order.key \in Key
      BY <1>0 DEF Phased, Phase, Staged
    <2>. QED
      BY <1>9, <2>1, OrderFacts DEF Start, Restored, Live, Mirrored
  <1>10. CASE \E k \in Key : Expire(k)
    BY <1>10 DEF Expire, Mirrored
  <1>11. CASE \E k \in Key : WorkingEnds(k) \/ PositionEnds(k)
    BY <1>11, <1>a DEF WorkingEnds, PositionEnds, VenueOnly
  <1>12. CASE \E k \in Key, r \in Replies : VenueExecute(k, r) \/ VenueReject(k, r)
    BY <1>12, <1>a DEF VenueExecute, VenueReject, VenueOnly
  <1>. QED
    BY <1>1, <1>2, <1>3, <1>4, <1>5, <1>6, <1>7, <1>8, <1>9, <1>10, <1>11, <1>12, Cases

(* A restart at any moment brings back the order that is staged and live,  *)
(* and no other.                                                           *)
THEOREM RestartIsFaithful == Spec => []RestartKeepsDesk
  <1>1. Init => Mirrored
    BY DEF Init, Mirrored
  <1>2. Phased /\ Mirrored /\ [Next]_vars => Mirrored'
    BY MirroredStep
  <1>3. Phased /\ Mirrored => RestartKeepsDesk
    BY OrderFacts DEF Mirrored, RestartKeepsDesk, Restored, Live, Phased, Phase
  <1>. QED
    BY <1>1, <1>2, <1>3, PhasedAlways, PTL DEF Spec

-----------------------------------------------------------------------------
(* The venue, while every send is answered and none is repeated.  A market *)
(* order is on its way only at "awaiting" and before its answer; the gates *)
(* saw a flat symbol before "begun", and until then nothing can fill.      *)

Answered == Resends = 0 /\ unanswered = {}

Covered ==
  /\ \A k \in MarketKey : work[k] = 0
  /\ Answered =>
       /\ \A k \in MarketKey :
            /\ Exposed(k) <= 1
            /\ wire[k] > 0 => pc = "awaiting" /\ cur.key = k /\ reply = "none"
            /\ pc = "begun" \/ (pc = "awaiting" /\ k # cur.key) => pos[k] = 0
       /\ \A k1, k2 \in MarketKey : k1 # k2 => pos[k1] = 0 \/ pos[k2] = 0

LEMMA CoveredStep == Phased /\ Covered /\ [Next]_vars => Covered'
  <1> SUFFICES ASSUME Phased, Covered, [Next]_vars PROVE Covered'
    OBVIOUS
  <1>0. /\ wire \in [Key -> Nat] /\ pos \in [Key -> Nat] /\ work \in [Key -> Nat]
        /\ MarketKey \subseteq Key /\ Resends \in Nat
    BY ResendsAssumption DEF Phased, TypeOK, MarketKey
  <1>1. CASE UNCHANGED <<unanswered, venueVars>> /\ pc' \notin {"begun", "awaiting"}
             /\ (pc = "awaiting" => reply # "none")
    BY <1>1, <1>0 DEF Covered, Answered, Exposed
  <1>2. CASE \E o \in Order : o.key \in Key /\ o.kind # "auto" /\ SetPending(o)
    BY <1>1, <1>2 DEF SetPending, Idle
  <1>3. CASE ConfirmDrop \/ ConfirmKeep \/ ReverseRefused \/ ReplyRead \/ Resolve
             \/ ResolveRaises \/ Settle \/ EmitRaises \/ Cancel \/ FlattenRaises
             \/ Resume \/ \E on \in BOOLEAN : SetApprove(on)
    BY <1>1, <1>3 DEF ConfirmDrop, Confirming, ConfirmKeep, Passing, ReverseRefused, ReplyRead,
       Resolve, ResolveRaises, Settle, EmitRaises, Cancel, FlattenRaises, Resume, SetApprove,
       Idle, EndSend
  <1>4. CASE ConfirmClose \/ CloseUnanswered \/ ReverseClose
    <2>1. /\ UNCHANGED <<unanswered, wire, work>> /\ pos' \in [Key -> Nat]
          /\ pc # "awaiting" /\ pc' \notin {"begun", "awaiting"}
          /\ \A k \in Key : pos'[k] <= pos[k]
      BY <1>0, <1>4 DEF ConfirmClose, CloseUnanswered, ReverseClose, Passing, Confirming, EndSend
    <2>. QED
      BY <1>0, <2>1 DEF Covered, Answered, Exposed
  <1>5. CASE ConfirmBegin \/ ReverseBegin \/ \E k \in Key : AutoBegin(k)
    <2>1. UNCHANGED <<unanswered, venueVars>> /\ pc \notin {"begun", "awaiting"} /\ pc' = "begun"
      BY <1>5 DEF ConfirmBegin, Passing, Confirming, ReverseBegin, AutoBegin, Idle, Begin
    <2>2. \A k \in Key : pos[k] = 0
      BY <1>5, KeyAssumption DEF ConfirmBegin, ReverseBegin, AutoBegin, MayAllow, FlatExcept
    <2>. QED
      BY <1>0, <2>1, <2>2 DEF Covered, Answered, Exposed
  <1>6. CASE Transmit \/ Retransmit
    <2>1. Answered' => Answered /\ pc = "begun"
      BY <1>6, <1>0 DEF Answered, Transmit, Retransmit, PutOnWire
    <2>0. Answered /\ pc = "begun" =>
            \A k \in MarketKey : pos[k] = 0 /\ wire[k] = 0
      BY <1>0 DEF Covered
    <2>2. /\ UNCHANGED <<unanswered, pos, work, cur>> /\ reply' = "none" /\ pc' = "awaiting"
          /\ \A k \in Key : wire'[k] = IF k = cur.key THEN wire[k] + 1 ELSE wire[k]
      BY <1>0, <1>6 DEF Transmit, Retransmit, PutOnWire
    <2>3. Answered' => \A k \in MarketKey :
            pos'[k] = 0 /\ wire'[k] <= 1 /\ (wire'[k] > 0 => cur.key = k)
      BY <1>0, <2>0, <2>1, <2>2
    <2>4. \A k \in MarketKey : wire'[k] \in Nat
      BY <1>0, <2>2
    <2>5. \A k \in MarketKey : work'[k] = 0
      BY <2>2 DEF Covered
    <2>. QED
      BY <2>2, <2>3, <2>4, <2>5 DEF Covered, Exposed
  <1>7. CASE SendRaises
    BY <1>7 DEF SendRaises, Covered, Answered
  <1>8. CASE Halt \/ CircuitTrip
    <2>1. /\ UNCHANGED <<unanswered, wire>> /\ pos' \in [Key -> Nat] /\ work' \in [Key -> Nat]
          /\ pc = "idle" /\ pc' = "idle"
          /\ \A k \in Key : pos'[k] <= pos[k] /\ work'[k] <= work[k]
      BY <1>0, <1>8 DEF Halt, CircuitTrip, Flatten, Idle
    <2>. QED
      BY <1>0, <2>1 DEF Covered, Answered, Exposed
  <1>9. CASE Crash
    <2>1. pc \in {"awaiting", "replied"} => unanswered' # {}
      BY <1>9 DEF Crash
    <2>. QED
      BY <1>0, <1>9, <2>1 DEF Crash, EndSend, Covered, Answered, Exposed
  <1>10. CASE \/ UNCHANGED vars \/ Start \/ Rotate \/ HaltFileByHand
              \/ \E k \in Key : Expire(k)
    BY <1>0, <1>10 DEF vars, Start, Rotate, HaltFileByHand, Expire, Covered, Answered, Exposed
  <1>11. ASSUME NEW k \in Key, WorkingEnds(k) \/ PositionEnds(k) PROVE Covered'
    <2>1. /\ UNCHANGED <<unanswered, wire, pc, cur, reply>>
          /\ pos' \in [Key -> Nat] /\ work' \in [Key -> Nat]
      BY <1>0, <1>11 DEF WorkingEnds, PositionEnds, VenueOnly
    <2>2. \A m \in MarketKey : pos'[m] <= pos[m] /\ work'[m] = 0
      BY <1>0, <1>11 DEF WorkingEnds, PositionEnds, Covered
    <2>. QED
      BY <1>0, <2>1, <2>2 DEF Covered, Answered, Exposed
  <1>12. ASSUME NEW k \in Key, NEW r \in Replies, VenueExecute(k, r) \/ VenueReject(k, r)
         PROVE  Covered'
    <2>1. /\ UNCHANGED <<unanswered, pc, cur>> /\ wire[k] > 0
          /\ \A m \in Key : wire'[m] = IF m = k THEN wire[m] - 1 ELSE wire[m]
          /\ cur.key # k => UNCHANGED reply
      BY <1>0, <1>12 DEF VenueExecute, VenueReject, VenueOnly, Answer
    <2>2. /\ pos' \in [Key -> Nat] /\ work' \in [Key -> Nat]
          /\ \A m \in MarketKey : work'[m] = 0
          /\ \A m \in Key \ {k} : pos'[m] = pos[m]
          /\ k \in MarketKey => pos'[k] <= pos[k] + 1
          /\ k \notin MarketKey => UNCHANGED pos
      BY <1>0, <1>12 DEF VenueExecute, VenueReject, Covered, MarketKey
    <2>3. CASE k \in MarketKey
      <3>1. Answered => /\ wire[k] + pos[k] <= 1 /\ pc = "awaiting" /\ cur.key = k
                        /\ \A m \in MarketKey \ {k} : pos[m] = 0 /\ wire[m] = 0
        BY <1>0, <2>1, <2>3 DEF Covered, Exposed
      <3>2. Answered => /\ wire'[k] = 0 /\ pos'[k] <= 1
                        /\ \A m \in MarketKey \ {k} : pos'[m] = 0 /\ wire'[m] = 0
        BY <1>0, <2>1, <2>2, <2>3, <3>1
      <3>3. Answered' => Answered
        BY <2>1 DEF Answered
      <3>4. Answered' => \A m \in MarketKey : wire'[m] = 0 /\ pos'[m] <= 1 /\ (m # k => pos'[m] = 0)
        BY <1>0, <2>2, <3>2, <3>3
      <3>5. Answered' => pc' = "awaiting" /\ cur'.key = k
        BY <2>1, <3>1, <3>3
      <3>. QED
        BY <1>0, <2>2, <3>4, <3>5 DEF Covered, Exposed
    <2>4. CASE k \notin MarketKey
      <3>1. \A m \in MarketKey : wire'[m] = wire[m] /\ pos'[m] = pos[m]
        BY <1>0, <2>1, <2>2, <2>4
      <3>2. Answered => \A m \in MarketKey : wire[m] > 0 => cur.key # k
        BY <2>4 DEF Covered
      <3>. QED
        BY <1>0, <2>1, <2>2, <3>1, <3>2 DEF Covered, Answered, Exposed
    <2>. QED
      BY <2>3, <2>4
  <1>. QED
    BY <1>2, <1>3, <1>4, <1>5, <1>6, <1>7, <1>8, <1>9, <1>10, <1>11, <1>12, Cases

(* While every send is answered, market orders make one position at most.  *)
THEOREM OnePositionHolds == Spec => []OneMarketPosition
  <1>1. Init => Covered
    BY DEF Init, Covered, Exposed, MarketKey
  <1>2. Phased /\ Covered /\ [Next]_vars => Covered'
    BY CoveredStep
  <1>3. Phased /\ Covered => OneMarketPosition
    BY DEF Covered, Answered, OneMarketPosition, Exposed, Phased, TypeOK, MarketKey
  <1>. QED
    BY <1>1, <1>2, <1>3, PhasedAlways, PTL DEF Spec
-----------------------------------------------------------------------------
(* How a handler ends.  StepsLeft bounds the steps it has before it: what  *)
(* the venue, the clock and the operator do leaves it alone, a crash ends  *)
(* the handler.                                                            *)

StepsLeft ==
  CASE pc = "idle"     -> 0
    [] pc = "resolved" -> 1
    [] pc = "replied"  -> 2
    [] pc = "awaiting" -> Resends + 4 - tries
    [] pc = "begun"    -> Resends + 4
    [] pc = "closed"   -> Resends + 5
    [] pc = "confirm"  -> Resends + 6

LEMMA StepsLeftFacts ==
  ASSUME Phased
  PROVE  /\ StepsLeft \in 0..(Resends + 6)
         /\ StepsLeft = 0 <=> pc = "idle"
         /\ pc = "awaiting" => StepsLeft >= 3
  BY ResendsAssumption DEF Phased, TypeOK, Phases, Phase, StepsLeft

LEMMA StepsLeftNext ==
  ASSUME Phased'
  PROVE  StepsLeft' \in Nat
  BY ResendsAssumption DEF Phased, TypeOK, Phases, Phase, StepsLeft

LEMMA HandlerStepCounts ==
  ASSUME Phased, HandlerStep
  PROVE  StepsLeft' < StepsLeft
  <1>1. /\ Resends \in Nat /\ tries \in 0..(Resends + 1)
        /\ pc \notin {"awaiting", "replied", "resolved"} => tries = 0
        /\ StepsLeft \in Nat /\ StepsLeft > 0
    BY StepsLeftFacts, ResendsAssumption DEF Phased, TypeOK, Phase, HandlerStep
  <1>2. pc' = "idle" => StepsLeft' = 0
    BY DEF StepsLeft
  <1>3. CASE pc' = "idle"
    BY <1>1, <1>2, <1>3
  <1>4. CASE ReverseClose
    <2>1. pc = "confirm" /\ pc' = "closed"
      BY <1>4 DEF ReverseClose, Passing, Confirming, HandlerStep
    <2>. QED
      BY <1>1, <2>1 DEF StepsLeft
  <1>5. CASE ConfirmBegin
    <2>1. pc = "confirm" /\ pc' = "begun"
      BY <1>5 DEF ConfirmBegin, Begin, Passing, Confirming, HandlerStep
    <2>. QED
      BY <1>1, <2>1 DEF StepsLeft
  <1>6. CASE ReverseBegin
    <2>1. pc = "closed" /\ pc' = "begun"
      BY <1>6 DEF ReverseBegin, Begin
    <2>. QED
      BY <1>1, <2>1 DEF StepsLeft
  <1>7. CASE Transmit
    <2>1. pc = "begun" /\ pc' = "awaiting" /\ tries' = 1
      BY <1>1, <1>7 DEF Transmit, PutOnWire
    <2>. QED
      BY <1>1, <2>1 DEF StepsLeft
  <1>8. CASE Retransmit
    <2>1. pc = "awaiting" /\ pc' = "awaiting" /\ tries' = tries + 1
      BY <1>8 DEF Retransmit, PutOnWire
    <2>. QED
      BY <1>1, <2>1 DEF StepsLeft
  <1>9. CASE ReplyRead
    <2>1. StepsLeft' = 2 /\ StepsLeft >= 3
      BY <1>9, StepsLeftFacts DEF ReplyRead, StepsLeft
    <2>. QED
      BY <2>1, <1>1
  <1>10. CASE Resolve
    <2>1. StepsLeft' = 1 /\ StepsLeft = 2
      BY <1>10 DEF Resolve, StepsLeft
    <2>. QED
      BY <2>1
  <1>11. CASE \/ ConfirmDrop \/ ConfirmKeep \/ ConfirmClose \/ CloseUnanswered
              \/ ReverseRefused \/ SendRaises \/ ResolveRaises \/ Settle \/ EmitRaises
    <2>1. pc' = "idle"
      BY <1>11 DEF ConfirmDrop, ConfirmKeep, ConfirmClose, CloseUnanswered, ReverseRefused,
         SendRaises, ResolveRaises, Settle, EmitRaises, EndSend
    <2>. QED
      BY <1>3, <2>1
  <1>. QED
    BY <1>4, <1>5, <1>6, <1>7, <1>8, <1>9, <1>10, <1>11 DEF HandlerStep, DeskStep, Confirm

LEMMA OthersLeaveIt ==
  ASSUME Phased, [Next]_vars, pc # "idle"
  PROVE  HandlerStep \/ pc' = "idle" \/ UNCHANGED <<pc, tries>>
  <1>1. up
    BY DEF Phased, Phase
  <1>2. CASE UNCHANGED vars
    BY <1>2 DEF vars
  <1>3. CASE DeskStep \/ Confirm
    BY <1>3 DEF HandlerStep
  <1>4. CASE Command
    <2>1. ~Idle
      BY DEF Idle
    <2>2. ASSUME NEW k \in Key, NEW t \in Key
          PROVE  ~Stage(k) /\ ~StageReverse(k, t) /\ ~StageClose(k, t) /\ ~AutoBegin(k)
      BY <2>1, StagedOrders DEF SetPending, AutoBegin
    <2>. QED
      BY <1>4, <2>1, <2>2 DEF Command, Cancel, Halt, CircuitTrip, FlattenRaises, Resume, SetApprove
  <1>5. CASE Environment
    <2>1. ~Start
      BY <1>1 DEF Start
    <2>2. Crash => pc' = "idle"
      BY DEF Crash, EndSend
    <2>3. Rotate \/ HaltFileByHand => UNCHANGED <<pc, tries>>
      BY DEF Rotate, HaltFileByHand
    <2>4. ASSUME NEW k \in Key, Expire(k) \/ WorkingEnds(k) \/ PositionEnds(k)
          PROVE  UNCHANGED <<pc, tries>>
      BY <2>4 DEF Expire, WorkingEnds, PositionEnds, VenueOnly
    <2>5. ASSUME NEW k \in Key, NEW r \in Replies, VenueExecute(k, r) \/ VenueReject(k, r)
          PROVE  UNCHANGED <<pc, tries>>
      BY <2>5 DEF VenueExecute, VenueReject, VenueOnly
    <2>. QED
      BY <1>5, <2>1, <2>2, <2>3, <2>4, <2>5 DEF Environment
  <1>. QED
    BY <1>2, <1>3, <1>4, <1>5 DEF Next

LEMMA StepsLeftStep ==
  ASSUME Phased, [Next]_vars, pc # "idle"
  PROVE  StepsLeft' <= StepsLeft
  <1>1. StepsLeft \in Nat
    BY StepsLeftFacts, ResendsAssumption
  <1>2. CASE HandlerStep
    <2>1. Phased'
      BY TypeStep, PhaseStep DEF Phased
    <2>2. StepsLeft' \in Nat
      BY <2>1, StepsLeftNext, StepsLeftFacts, ResendsAssumption
    <2>. QED
      BY <1>1, <1>2, <2>2, HandlerStepCounts
  <1>3. CASE pc' = "idle"
    <2>1. StepsLeft' = 0
      BY <1>3 DEF StepsLeft
    <2>. QED
      BY <1>1, <2>1
  <1>4. CASE UNCHANGED <<pc, tries>>
    <2>1. StepsLeft' = StepsLeft
      BY <1>4, Zenon DEF StepsLeft
    <2>. QED
      BY <1>1, <2>1
  <1>. QED
    BY <1>2, <1>3, <1>4, OthersLeaveIt

(* No step of any actor takes a handler back, and each of its own takes it *)
(* forward: it ends after Resends + 6 steps at most, however the venue     *)
(* answers, whatever fails.                                                *)
HandlerMovesOn ==
  [][pc # "idle" => StepsLeft' <= StepsLeft /\ (HandlerStep => StepsLeft' < StepsLeft)]_vars

THEOREM HandlersMoveOn == Spec => HandlerMovesOn
  <1>1. Phased /\ [Next]_vars =>
          [pc # "idle" => StepsLeft' <= StepsLeft /\ (HandlerStep => StepsLeft' < StepsLeft)]_vars
    BY StepsLeftStep, HandlerStepCounts
  <1>. QED
    BY <1>1, PhasedAlways, PTL DEF Spec, HandlerMovesOn

(* What the prover cannot see of the module: that a handler at work has a  *)
(* step to take.                                                           *)
HandlerIsEnabled == pc # "idle" => ENABLED <<HandlerStep>>_vars

(* At work, with n steps left at most.                                     *)
Within(n) == pc # "idle" /\ StepsLeft <= n

LEMMA WithinStep ==
  ASSUME Phased, [Next]_vars, NEW n \in Nat, Within(n)
  PROVE  (Within(n) \/ pc = "idle")'
  <1>1. Phased'
    BY TypeStep, PhaseStep DEF Phased
  <1>2. StepsLeft' \in Nat /\ StepsLeft \in Nat
    BY <1>1, StepsLeftNext, StepsLeftFacts, ResendsAssumption
  <1>. QED
    BY <1>2, StepsLeftStep DEF Within

LEMMA WithinHandlerStep ==
  ASSUME Phased, [Next]_vars, HandlerStep, NEW n \in Nat, Within(n + 1)
  PROVE  (Within(n) \/ pc = "idle")'
  <1>1. Phased'
    BY TypeStep, PhaseStep DEF Phased
  <1>2. StepsLeft' \in Nat /\ StepsLeft \in Nat
    BY <1>1, StepsLeftNext, StepsLeftFacts, ResendsAssumption
  <1>. QED
    BY <1>2, HandlerStepCounts DEF Within

(* The handler that sends an order ends although the venue may never       *)
(* answer, with an adapter that repeats a dropped call once                *)
(* (Mt5Broker._with_reconnect) or never (FileBridge).                      *)
THEOREM SendsReturn ==
  ASSUME Resends \in {0, 1}
  PROVE  FairSpec /\ []HandlerIsEnabled => SendReturns
  <1>1. Phased /\ [Next]_vars =>
          /\ Within(7) => (Within(7) \/ pc = "idle")'
          /\ Within(6) => (Within(6) \/ pc = "idle")'
          /\ Within(5) => (Within(5) \/ pc = "idle")'
          /\ Within(4) => (Within(4) \/ pc = "idle")'
          /\ Within(3) => (Within(3) \/ pc = "idle")'
          /\ Within(2) => (Within(2) \/ pc = "idle")'
          /\ Within(1) => (Within(1) \/ pc = "idle")'
    BY WithinStep
  <1>2. Phased /\ [Next]_vars /\ HandlerStep =>
          /\ Within(7) => (Within(6) \/ pc = "idle")'
          /\ Within(6) => (Within(5) \/ pc = "idle")'
          /\ Within(5) => (Within(4) \/ pc = "idle")'
          /\ Within(4) => (Within(3) \/ pc = "idle")'
          /\ Within(3) => (Within(2) \/ pc = "idle")'
          /\ Within(2) => (Within(1) \/ pc = "idle")'
          /\ Within(1) => (Within(0) \/ pc = "idle")'
    <2>1. /\ 7 = 6 + 1 /\ 6 = 5 + 1 /\ 5 = 4 + 1 /\ 4 = 3 + 1 /\ 3 = 2 + 1 /\ 2 = 1 + 1
          /\ 1 = 0 + 1
      OBVIOUS
    <2>. QED
      BY <2>1, WithinHandlerStep
  <1>3. Phased => (pc # "idle" => Within(7)) /\ ~Within(0)
    BY StepsLeftFacts DEF Within
  <1>4. HandlerIsEnabled /\ pc # "idle" => ENABLED <<HandlerStep>>_vars
    BY DEF HandlerIsEnabled
  <1>5. /\ Within(7) => pc # "idle"
        /\ Within(6) => pc # "idle"
        /\ Within(5) => pc # "idle"
        /\ Within(4) => pc # "idle"
        /\ Within(3) => pc # "idle"
        /\ Within(2) => pc # "idle"
        /\ Within(1) => pc # "idle"
    BY DEF Within
  <1>. QED
    BY <1>1, <1>2, <1>3, <1>4, <1>5, PhasedAlways, PTL DEF FairSpec, Spec, SendReturns
=============================================================================
