----------------------------- MODULE SendGuard -----------------------------
(***************************************************************************)
(* The path of one order from the chat to the venue: Desk (staging and     *)
(* /confirm, desk.py), Engine.submit (the send itself, engine.py), the     *)
(* in-flight ledger (inflight.py), the confirm records of the journal, and *)
(* the venue, with the process allowed to die between any two effects.     *)
(*                                                                         *)
(* The desk is single threaded and InstanceLock keeps it alone, so a       *)
(* handler is one action up to its next DURABLE or VENUE-VISIBLE effect:   *)
(* nothing else can observe the memory in between, and a crash there is a  *)
(* crash before the action.                                                *)
(*                                                                         *)
(* One symbol is modelled: already_in_symbol, the only gate of the risk    *)
(* engine that remembers earlier sends, is per symbol.  Every other gate   *)
(* is a free choice to refuse.                                             *)
(***************************************************************************)
EXTENDS Naturals

CONSTANTS
  Key,            \* client order ids; new_key() mints each at most once
  RestingKey,     \* the keys that are given to limit and stop orders
  None,           \* "no key", "no ticket"
  Resends,        \* times the venue adapter repeats a dropped call: 0 for the
                  \* MT4 mailbox, 1 for Mt5Broker._with_reconnect
  MaxCrashes,     \* bound on crashes
  MaxLostWrites   \* bound on file writes that raise OSError

ASSUME KeyAssumption     == None \notin Key /\ RestingKey \subseteq Key
ASSUME ResendsAssumption == Resends \in Nat
ASSUME BoundsAssumption  == MaxCrashes \in Nat /\ MaxLostWrites \in Nat

VARIABLES
  up,          \* the process runs and Engine.start() has returned
  pending,     \* Desk.pending
  approve,     \* Desk.approve_always
  engHalted,   \* Engine.halted
  pc,          \* how far the order being sent has come
  cur,         \* the order being sent
  reply,       \* what the venue answered to the send being made
  tries,       \* times the send being made has been put on the wire
  jConfirm,    \* journal: last of confirm_stage / confirm_cancel / confirm_sent
  lostWrites,  \* how many writes of the journal or the ledger raised
  jApprove,    \* journal: the last of approve_always / approve_off is the former
  ledger,      \* keys with an open entry in <stem>.inflight.json
  haltFile,    \* the HALT file exists
  wire,        \* wire[k]: requests for order k the venue has not acted on
  pos,         \* pos[k]: open positions order k made
  work,        \* work[k]: working orders order k made
  minted,      \* keys new_key() has handed out
  stale,       \* keys whose confirm TTL has passed
  sent,        \* history: times order k was transmitted
  unanswered,  \* history: keys whose send never gave the engine an answer
  crashes,     \* history: times the process died
  quota        \* history: how often each order may have been transmitted while
               \* the HALT file that is there exists; 0 while there is none

memVars   == <<up, pending, approve, engHalted>>
sendVars  == <<pc, cur, reply, tries>>
confVars  == <<jConfirm, lostWrites>>
fileVars  == <<jApprove, ledger, haltFile>>
venueVars == <<wire, pos, work>>
keyVars   == <<minted, stale>>
histVars  == <<sent, unanswered, crashes, quota>>
vars == <<memVars, sendVars, confVars, fileVars, venueVars, keyVars, histVars>>

-----------------------------------------------------------------------------
(* A staged order.  "market" and "limit" (which stands for limit= and      *)
(* stop=) open; "reverse" closes .ticket and then opens; "close" only      *)
(* closes .ticket and has no client id in the code: its .key here is just  *)
(* what tells its TTL apart, and it never reaches the ledger.  "auto" is   *)
(* an order of the EMA leg, which is never staged.                         *)

Kinds   == {"none", "market", "limit", "reverse", "close", "auto"}
Order   == [key : Key \cup {None}, kind : Kinds, ticket : Key \cup {None}]
NoOrder == [key |-> None, kind |-> "none", ticket |-> None]

Events   == {"none", "confirm_stage", "confirm_cancel", "confirm_sent"}
Phases   == {"idle", "confirm", "closed", "begun", "awaiting", "replied", "resolved"}
Replies  == {"none", "ok", "rejected", "unmeasured"}
NoRecord == [ev |-> "none", order |-> NoOrder]

(* The order is staged and its TTL (Pending.expires_at) has not passed.    *)
Live(o) == o.key # None /\ o.key \notin stale

(* Mutant of HasEntry: the ledger is never asked.                          *)
HasEntryNever(k) == FALSE

(* InflightLedger.get, which both controls against a second send ask.      *)
HasEntry(k) == k \in ledger

(* No position but the one being reversed: what the gates see.             *)
FlatExcept(t) == \A k \in Key : pos[k] = IF k = t THEN 1 ELSE 0

(* Mutant of MayAllow: the HALT file counts only while Engine.halted does. *)
MayAllowPastHaltFile(o) ==
  ~engHalted /\ FlatExcept(IF o.kind = "reverse" THEN o.ticket ELSE None)

(* RiskManager.evaluate says yes.  The HALT file and already_in_symbol are *)
(* the parts this module keeps; every caller may also be told no.          *)
MayAllow(o) == ~haltFile /\ FlatExcept(IF o.kind = "reverse" THEN o.ticket ELSE None)

(* Journal.write of a confirm record; and the OSError of any file write,   *)
(* which leaves the file as it was.  Only of a confirm_stage record is the *)
(* order ever read back.                                                   *)
WriteConfirm(ev, o) ==
  /\ jConfirm' = [ev |-> ev, order |-> IF ev = "confirm_stage" THEN o ELSE NoOrder]
  /\ UNCHANGED lostWrites

WriteRaises == /\ lostWrites < MaxLostWrites
               /\ lostWrites' = lostWrites + 1
               /\ UNCHANGED jConfirm

(* Mutant of ClearPending: the order goes without a record.                *)
ClearPendingSilently(ev) == pending' = NoOrder /\ UNCHANGED confVars

(* Desk._clear_pending: memory first, then the journal.                    *)
ClearPending(ev) ==
  /\ pending' = NoOrder
  /\ \/ pending = NoOrder /\ UNCHANGED confVars
     \/ pending # NoOrder /\ (WriteConfirm(ev, pending) \/ WriteRaises)

EndSend == pc' = "idle" /\ cur' = NoOrder /\ reply' = "none" /\ tries' = 0

(* The venue call is over: what it left of its quota is forfeited.         *)
EndCall == quota' = IF haltFile THEN sent ELSE quota

Idle == up /\ pc = "idle"

Init ==
  /\ up = TRUE /\ pending = NoOrder /\ approve = FALSE /\ engHalted = FALSE
  /\ pc = "idle" /\ cur = NoOrder /\ reply = "none" /\ tries = 0
  /\ jConfirm = NoRecord /\ lostWrites = 0
  /\ jApprove = FALSE /\ ledger = {} /\ haltFile = FALSE
  /\ wire = [k \in Key |-> 0] /\ pos = [k \in Key |-> 0] /\ work = [k \in Key |-> 0]
  /\ minted = {} /\ stale = {}
  /\ sent = [k \in Key |-> 0] /\ unanswered = {} /\ crashes = 0
  /\ quota = [k \in Key |-> 0]

-----------------------------------------------------------------------------
(* Staging.                                                                *)

(* Desk._set_pending: memory first, then the confirm_stage record.  With   *)
(* /approve always the same handler goes straight on to _confirm; a write  *)
(* that raises ends the handler.  Refused while an unexpired order is      *)
(* staged.                                                                 *)
SetPending(o) ==
  /\ Idle /\ o.key \notin minted /\ ~Live(pending)
  /\ pending' = o
  /\ \/ WriteConfirm("confirm_stage", o) /\ pc' = (IF approve THEN "confirm" ELSE "idle")
     \/ WriteRaises /\ pc' = "idle"
  /\ minted' = minted \cup {o.key}
  /\ UNCHANGED <<up, approve, engHalted, cur, reply, tries, fileVars, venueVars, stale,
                 histVars>>

(* Desk._stage, for /buy, /sell and advice: risk-previewed first.          *)
Stage(k) ==
  LET o == [key |-> k, kind |-> IF k \in RestingKey THEN "limit" ELSE "market",
            ticket |-> None]
  IN  MayAllow(o) /\ SetPending(o)

(* Desk._reverse: the ticket must be an open position.                     *)
StageReverse(k, t) ==
  LET o == [key |-> k, kind |-> "reverse", ticket |-> t]
  IN  k \notin RestingKey /\ pos[t] > 0 /\ MayAllow(o) /\ SetPending(o)

(* Desk._stage_close: an advice close of a ticket; no risk preview.        *)
StageClose(k, t) ==
  /\ k \notin RestingKey /\ pos[t] > 0
  /\ SetPending([key |-> k, kind |-> "close", ticket |-> t])

-----------------------------------------------------------------------------
(* /confirm, typed by the operator or reached from staging.                *)

Confirming == up /\ pc \in {"idle", "confirm"} /\ pending # NoOrder
Passing    == Confirming /\ Live(pending) /\ ~engHalted

(* Desk._confirm drops the order: expired, halted, a refusal that halts, a *)
(* close or reverse whose ticket is gone or would not close, or a          *)
(* pre-trade check that did not clear.                                     *)
ConfirmDrop ==
  /\ Confirming
  /\ ClearPending("confirm_cancel")
  /\ EndSend
  /\ UNCHANGED <<up, approve, engHalted, fileVars, venueVars, keyVars, histVars>>

(* Desk._confirm refuses and keeps the order: a refusal that does not      *)
(* halt, an open ledger entry for this key, or a venue call or the ledger  *)
(* write before the send raised.  (From "idle" this changes nothing.)      *)
ConfirmKeep ==
  /\ Passing /\ pc = "confirm"
  /\ EndSend
  /\ UNCHANGED <<memVars, confVars, fileVars, venueVars, keyVars, histVars>>

(* Desk._confirm on a close-only order: close_ticket says "closed".        *)
ConfirmClose ==
  /\ Passing /\ pending.kind = "close" /\ pos[pending.ticket] > 0
  /\ pos' = [pos EXCEPT ![pending.ticket] = @ - 1]
  /\ ClearPending("confirm_sent")
  /\ EndSend
  /\ UNCHANGED <<up, approve, engHalted, fileVars, wire, work, keyVars, histVars>>

(* close_ticket raises although the venue closes the ticket: the exception *)
(* leaves _confirm and _confirm_reverse with the order still staged.       *)
CloseUnanswered ==
  /\ Passing /\ pending.kind \in {"close", "reverse"} /\ pos[pending.ticket] > 0
  /\ pos' = [pos EXCEPT ![pending.ticket] = @ - 1]
  /\ EndSend
  /\ UNCHANGED <<memVars, confVars, fileVars, wire, work, keyVars, histVars>>

(* Desk._confirm_reverse, first half: previewed without the old ticket,    *)
(* then close_ticket says "closed", which a partial fill also does.        *)
ReverseClose ==
  /\ Passing /\ pending.kind = "reverse" /\ pos[pending.ticket] > 0
  /\ MayAllow(pending)
  /\ pos' \in {pos, [pos EXCEPT ![pending.ticket] = @ - 1]}
  /\ pc' = "closed" /\ cur' = pending
  /\ UNCHANGED <<memVars, reply, tries, confVars, fileVars, wire, work, keyVars, histVars>>

(* Desk._confirm_reverse, second half, when no opposite order is sent: the *)
(* second preview or the pre-trade check refuses (dropped), the key has an *)
(* open entry, or a venue call or the ledger write raised (kept).          *)
ReverseRefused ==
  /\ up /\ pc = "closed"
  /\ \/ ClearPending("confirm_cancel")
     \/ UNCHANGED <<pending, confVars>>
  /\ EndSend
  /\ UNCHANGED <<up, approve, engHalted, fileVars, venueVars, keyVars, histVars>>

-----------------------------------------------------------------------------
(* Engine._open and Engine._place_pending.                                 *)

(* Mutant of LedgerBegin: the entry is kept in memory only.                *)
LedgerBeginInMemory(k) == UNCHANGED ledger

(* InflightLedger.begin, the durable record written before the send.       *)
LedgerBegin(k) == ledger' = ledger \cup {k}

(* InflightLedger.resolve.                                                 *)
LedgerResolve(k) == ledger' = ledger \ {k}

(* Engine._unresolved (and Desk._already_attempted before it) lets the     *)
(* order through, the pre-trade check clears it, the entry is written.     *)
Begin(o) ==
  /\ ~HasEntry(o.key)
  /\ LedgerBegin(o.key)
  /\ pc' = "begun" /\ cur' = o
  /\ UNCHANGED <<memVars, reply, tries, confVars, jApprove, haltFile, venueVars, stale,
                 histVars>>

(* A confirmed market, limit or stop order that the second preview allows. *)
ConfirmBegin ==
  /\ Passing /\ pending.kind \in {"market", "limit"} /\ MayAllow(pending)
  /\ Begin(pending)
  /\ UNCHANGED minted

(* Mutant of ReverseBegin: sent on the strength of the first preview.      *)
ReverseBeginUnchecked == up /\ pc = "closed" /\ Begin(cur) /\ UNCHANGED minted

(* The opposite side of a reverse, previewed again on the live book.       *)
ReverseBegin ==
  /\ up /\ pc = "closed" /\ ~haltFile /\ FlatExcept(None)
  /\ Begin(cur)
  /\ UNCHANGED minted

(* Engine._act on a new bar: a fresh key, the same gates, the same send.   *)
AutoBegin(k) ==
  /\ Idle /\ ~engHalted /\ k \notin minted \cup RestingKey
  /\ ~haltFile /\ FlatExcept(None)
  /\ minted' = minted \cup {k}
  /\ Begin([key |-> k, kind |-> "auto", ticket |-> None])

(* The request goes on the wire.                                           *)
PutOnWire ==
  /\ tries' = tries + 1
  /\ wire' = [wire EXCEPT ![cur.key] = @ + 1]
  /\ sent' = [sent EXCEPT ![cur.key] = @ + 1]
  /\ reply' = "none"
  /\ UNCHANGED <<memVars, cur, confVars, fileVars, pos, work, keyVars, unanswered, crashes,
                 quota>>

(* broker.market / broker.working.                                         *)
Transmit == up /\ pc = "begun" /\ pc' = "awaiting" /\ PutOnWire

(* Mutant of Retransmit: one repetition too many.                          *)
RetransmitOnceMore ==
  up /\ pc = "awaiting" /\ tries <= Resends + 1 /\ UNCHANGED pc /\ PutOnWire

(* Mt5Broker._with_reconnect around order_send: the call came back with    *)
(* nothing, or with an IPC error, and is made again.  (The filling-mode    *)
(* retries after it follow a rejection of the request and are not counted.)*)
Retransmit == up /\ pc = "awaiting" /\ tries \in 1..Resends /\ UNCHANGED pc /\ PutOnWire

(* The call returned an OrderResult.                                       *)
ReplyRead ==
  /\ up /\ pc = "awaiting" /\ reply # "none"
  /\ pc' = "replied"
  /\ EndCall
  /\ UNCHANGED <<memVars, cur, reply, tries, confVars, fileVars, venueVars, keyVars, sent,
                 unanswered, crashes>>

(* Mutant of SendRaises: the entry is resolved on every way out.           *)
SendRaisesResolved ==
  /\ up /\ pc = "awaiting"
  /\ UNCHANGED wire
  /\ unanswered' = unanswered \cup {cur.key}
  /\ LedgerResolve(cur.key)
  /\ EndSend /\ EndCall
  /\ UNCHANGED <<memVars, confVars, jApprove, haltFile, pos, work, keyVars, sent, crashes>>

(* Mutant of SendRaises: no deadline, so that only a reply ends the wait.  *)
SendRaisesAnswered ==
  /\ up /\ pc = "awaiting" /\ reply # "none"
  /\ EndSend /\ EndCall
  /\ UNCHANGED <<memVars, confVars, fileVars, venueVars, keyVars, sent, unanswered, crashes>>

(* The call raised (BridgeTimeout, RuntimeError, OSError).  The bridge may *)
(* have withdrawn the request; _after_unresolved_send only reports; the    *)
(* entry stays open and the order stays staged.                            *)
SendRaises ==
  /\ up /\ pc = "awaiting"
  /\ \/ UNCHANGED wire
     \/ wire[cur.key] > 0 /\ wire' = [wire EXCEPT ![cur.key] = @ - 1]
  /\ unanswered' = unanswered \cup {cur.key}
  /\ EndSend /\ EndCall
  /\ UNCHANGED <<memVars, confVars, fileVars, pos, work, keyVars, sent, crashes>>

(* inflight.resolve: the entry goes, whatever the result says.             *)
Resolve ==
  /\ up /\ pc = "replied"
  /\ LedgerResolve(cur.key)
  /\ pc' = "resolved"
  /\ UNCHANGED <<memVars, cur, reply, tries, confVars, jApprove, haltFile, venueVars,
                 keyVars, histVars>>

(* The entry cannot be removed: the OSError leaves Engine.submit with the  *)
(* entry open, and the answer is lost to the desk.                         *)
ResolveRaises ==
  /\ up /\ pc = "replied"
  /\ WriteRaises
  /\ EndSend
  /\ UNCHANGED <<memVars, fileVars, venueVars, keyVars, histVars>>

(* record_trade, the open or pending record and its chat alert are done;   *)
(* the desk drops its order with confirm_sent or confirm_cancel.           *)
Settle ==
  /\ up /\ pc = "resolved"
  /\ IF cur.kind = "auto"
     THEN UNCHANGED <<pending, confVars>>
     ELSE ClearPending(IF reply = "ok" THEN "confirm_sent" ELSE "confirm_cancel")
  /\ EndSend
  /\ UNCHANGED <<up, approve, engHalted, fileVars, venueVars, keyVars, histVars>>

(* The open or pending record cannot be written: the OSError leaves        *)
(* Engine.submit after the entry has gone, and Desk._submit_once takes it  *)
(* for a send without a verdict and keeps the order staged.                *)
EmitRaises ==
  /\ up /\ pc = "resolved"
  /\ WriteRaises
  /\ EndSend
  /\ UNCHANGED <<memVars, fileVars, venueVars, keyVars, histVars>>

-----------------------------------------------------------------------------
(* Other commands, and the circuit.                                        *)

(* /cancel without a ticket.                                               *)
Cancel ==
  /\ Idle /\ pending # NoOrder
  /\ ClearPending("confirm_cancel")
  /\ UNCHANGED <<up, approve, engHalted, sendVars, fileVars, venueVars, keyVars, histVars>>

(* /approve always and /approve off: memory first, then the record.        *)
SetApprove(on) ==
  /\ Idle /\ approve # on
  /\ approve' = on
  /\ \/ jApprove' = on /\ UNCHANGED confVars
     \/ WriteRaises /\ UNCHANGED jApprove
  /\ UNCHANGED <<up, pending, engHalted, sendVars, ledger, haltFile, venueVars, keyVars,
                 histVars>>

(* Engine.flatten: the staged order is dropped first, then working orders  *)
(* and positions are swept; a sweep may leave some behind.                 *)
Flatten ==
  /\ pending' = NoOrder
  /\ IF pending = NoOrder THEN UNCHANGED confVars ELSE WriteConfirm("confirm_cancel", pending)
  /\ engHalted' = TRUE
  /\ \/ pos' = [k \in Key |-> 0] /\ work' = [k \in Key |-> 0]
     \/ UNCHANGED <<pos, work>>
  /\ UNCHANGED <<up, approve, sendVars, jApprove, ledger, wire, keyVars, sent, unanswered,
                 crashes>>

(* The HALT file appears, unless it is there already.  The order that is   *)
(* past its checks is not asked again: it may be put on the wire as often  *)
(* as the adapter still has tries.                                         *)
TriesLeft(k) == IF pc \in {"begun", "awaiting"} /\ cur.key = k THEN Resends + 1 - tries ELSE 0

HaltFileMade ==
  /\ haltFile' = TRUE
  /\ quota' = IF haltFile THEN quota ELSE [k \in Key |-> sent[k] + TriesLeft(k)]

(* It is removed, by /resume or by hand.                                   *)
HaltFileRemoved == haltFile' = FALSE /\ quota' = [k \in Key |-> 0]

(* /halt: the HALT file and a flatten.                                     *)
Halt == Idle /\ HaltFileMade /\ Flatten

(* Engine._apply_circuit on a tick: daily loss, drawdown or a HALT file.   *)
CircuitTrip == Idle /\ ~engHalted /\ Flatten /\ UNCHANGED <<haltFile, quota>>

(* /halt or a tripped circuit whose confirm_cancel record cannot be        *)
(* written: the OSError leaves the handler before the HALT file, the sweep *)
(* and Engine.halted.                                                      *)
FlattenRaises ==
  /\ Idle /\ pending # NoOrder
  /\ pending' = NoOrder
  /\ WriteRaises
  /\ UNCHANGED <<up, approve, engHalted, sendVars, fileVars, venueVars, keyVars, histVars>>

(* /resume: the HALT file goes; Engine.halted only if nothing else halts.  *)
Resume ==
  /\ Idle /\ (haltFile \/ engHalted)
  /\ HaltFileRemoved
  /\ engHalted' \in {FALSE, engHalted}
  /\ UNCHANGED <<up, pending, approve, sendVars, confVars, jApprove, ledger, venueVars,
                 keyVars, sent, unanswered, crashes>>

-----------------------------------------------------------------------------
(* The process, its journal and the clock.                                 *)

(* The process dies anywhere; the files and the venue do not.              *)
Crash ==
  /\ up /\ crashes < MaxCrashes
  /\ up' = FALSE /\ pending' = NoOrder /\ approve' = FALSE /\ engHalted' = FALSE
  /\ EndSend /\ EndCall
  /\ unanswered' = IF pc \in {"awaiting", "replied"}
                   THEN unanswered \cup {cur.key} ELSE unanswered
  /\ crashes' = crashes + 1
  /\ UNCHANGED <<confVars, fileVars, venueVars, keyVars, sent>>

(* Desk.restore_from_journal: the order whose confirm_stage is the last of *)
(* the three records, with the key it was staged under, if its TTL has not *)
(* passed.                                                                 *)
Restored == IF jConfirm.ev = "confirm_stage" /\ Live(jConfirm.order)
            THEN jConfirm.order ELSE NoOrder

(* Engine.start: the chat state is restored; Engine.halted is not.         *)
Start ==
  /\ ~up
  /\ up' = TRUE /\ pending' = Restored /\ approve' = jApprove
  /\ UNCHANGED <<engHalted, sendVars, confVars, fileVars, venueVars, keyVars, histVars>>

(* Journal._rotate_if_needed: the live file becomes .1, and last_event     *)
(* does not read it any more.  Any record written between two confirm      *)
(* records may be the one that does not fit.                               *)
Rotate ==
  /\ up /\ pc \in {"idle", "closed", "resolved"}
  /\ jConfirm' = NoRecord /\ jApprove' = FALSE
  /\ UNCHANGED <<memVars, sendVars, lostWrites, ledger, haltFile, venueVars, keyVars,
                 histVars>>

(* The operator makes or removes the HALT file by hand (touch HALT), at    *)
(* any moment: between the checks of an order and its transmission too,    *)
(* or while the process is down.                                           *)
HaltFileByHand ==
  /\ IF haltFile THEN HaltFileRemoved ELSE HaltFileMade
  /\ UNCHANGED <<memVars, sendVars, confVars, jApprove, ledger, venueVars, keyVars, sent,
                 unanswered, crashes>>

(* Pending.expires_at passes: wall-clock time, so a restart does not renew *)
(* it.  Only of an order in memory or on record is it ever asked.          *)
Expire(k) ==
  /\ k \in {pending.key, jConfirm.order.key} \ (stale \cup {None})
  /\ stale' = stale \cup {k}
  /\ UNCHANGED <<memVars, sendVars, confVars, fileVars, venueVars, minted, histVars>>

-----------------------------------------------------------------------------
(* The venue, which acts on a request whether or not anyone still waits.   *)

Answer(k, r) ==
  reply' = IF pc = "awaiting" /\ cur.key = k /\ reply = "none" THEN r ELSE reply

VenueOnly == UNCHANGED <<memVars, pc, cur, tries, confVars, fileVars, keyVars, histVars>>

(* The order is on the book.  "rejected" is the Expert's answer when the   *)
(* stop could not be attached and the rollback is unconfirmed, so that the *)
(* order survives; "unmeasured" is a reply that carries no verdict.        *)
VenueExecute(k, r) ==
  /\ wire[k] > 0 /\ r \in {"ok", "rejected", "unmeasured"}
  /\ wire' = [wire EXCEPT ![k] = @ - 1]
  /\ IF k \in RestingKey
     THEN work' = [work EXCEPT ![k] = @ + 1] /\ UNCHANGED pos
     ELSE pos' = [pos EXCEPT ![k] = @ + 1] /\ UNCHANGED work
  /\ Answer(k, r) /\ VenueOnly

(* Nothing of the order is on the book: refused, expired or rolled back.   *)
VenueReject(k, r) ==
  /\ wire[k] > 0 /\ r \in {"rejected", "unmeasured"}
  /\ wire' = [wire EXCEPT ![k] = @ - 1]
  /\ Answer(k, r) /\ VenueOnly
  /\ UNCHANGED <<pos, work>>

(* A working order fills or is cancelled.                                  *)
WorkingEnds(k) ==
  /\ work[k] > 0
  /\ work' = [work EXCEPT ![k] = @ - 1]
  /\ pos' \in {pos, [pos EXCEPT ![k] = @ + 1]}
  /\ VenueOnly /\ UNCHANGED <<wire, reply>>

(* A stop, a target, /close or the terminal closes a position.             *)
PositionEnds(k) ==
  /\ pos[k] > 0
  /\ pos' = [pos EXCEPT ![k] = @ - 1]
  /\ VenueOnly /\ UNCHANGED <<wire, work, reply>>

-----------------------------------------------------------------------------
(* What the handler at work does next; the desk thread owes these steps.   *)
DeskStep ==
  \/ ReverseRefused \/ ReverseBegin \/ Transmit \/ Retransmit \/ ReplyRead \/ SendRaises
  \/ Resolve \/ ResolveRaises \/ Settle \/ EmitRaises

Confirm == ConfirmDrop \/ ConfirmKeep \/ ConfirmClose \/ CloseUnanswered \/ ReverseClose
           \/ ConfirmBegin

Command ==
  \/ \E k \in Key : Stage(k) \/ AutoBegin(k)
  \/ \E k, t \in Key : StageReverse(k, t) \/ StageClose(k, t)
  \/ Cancel \/ Halt \/ CircuitTrip \/ FlattenRaises \/ Resume
  \/ \E on \in BOOLEAN : SetApprove(on)

Environment ==
  \/ Crash \/ Start \/ Rotate \/ HaltFileByHand
  \/ \E k \in Key : Expire(k) \/ WorkingEnds(k) \/ PositionEnds(k)
  \/ \E k \in Key, r \in Replies : VenueExecute(k, r) \/ VenueReject(k, r)

Next == DeskStep \/ Confirm \/ Command \/ Environment

Spec == Init /\ [][Next]_vars

(* The desk thread finishes the handler it is in.  Nothing is assumed of   *)
(* the venue, the operator or the clock.                                   *)
HandlerStep == pc # "idle" /\ (DeskStep \/ Confirm)
FairSpec == Spec /\ WF_vars(HandlerStep)

-----------------------------------------------------------------------------
TypeOK ==
  /\ up \in BOOLEAN /\ pending \in Order /\ approve \in BOOLEAN /\ engHalted \in BOOLEAN
  /\ pc \in Phases /\ cur \in Order /\ reply \in Replies /\ tries \in 0..(Resends + 1)
  /\ jConfirm \in [ev : Events, order : Order] /\ lostWrites \in Nat
  /\ jApprove \in BOOLEAN /\ ledger \subseteq Key /\ haltFile \in BOOLEAN
  /\ wire \in [Key -> Nat] /\ pos \in [Key -> Nat] /\ work \in [Key -> Nat]
  /\ minted \subseteq Key /\ stale \subseteq Key
  /\ sent \in [Key -> Nat] /\ unanswered \subseteq Key /\ crashes \in Nat
  /\ quota \in [Key -> Nat]

(* A send nobody got the answer to has an entry on file, in every state, a *)
(* stopped process included: what report_unresolved_sends announces at     *)
(* each start leaves no such order out.                                    *)
UnansweredIsOnFile == unanswered \subseteq ledger

(* One staged order is transmitted once; each crash and each failed file   *)
(* write may add one send, and each send is Resends + 1 transmissions at   *)
(* most.  This is how far the ledger carries CONTRACT.md's "at most one    *)
(* transmission".                                                          *)
TransmitOncePerFault ==
  \A k \in Key : sent[k] <= (Resends + 1) * (1 + crashes + lostWrites)

(* The confirm records describe the desk a restart must bring back, at     *)
(* every step of every handler: an order that was dropped, sent or expired *)
(* is not restored, and a live one is, with its key, unless a rotation     *)
(* took its record away.                                                   *)
RestartKeepsDesk ==
  up /\ lostWrites = 0 =>
    \/ Restored = IF Live(pending) THEN pending ELSE NoOrder
    \/ jConfirm = NoRecord

(* As long as every send was answered, market orders never put two         *)
(* positions, or a position and an order still on its way, on the symbol:  *)
(* already_in_symbol holds across a reverse, a restart and a re-send.  The *)
(* repetition in Mt5Broker does not keep it, hence Resends = 0.            *)
MarketKey == Key \ RestingKey
Exposed(k) == pos[k] + wire[k]
OneMarketPosition ==
  Resends = 0 /\ unanswered = {} =>
    \A k1, k2 \in MarketKey :
      Exposed(k1) <= 1 /\ (k1 # k2 => Exposed(k1) = 0 \/ Exposed(k2) = 0)

(* From the moment the HALT file appears, by /halt or by hand, nothing     *)
(* more is transmitted than the tries left to the one venue call whose     *)
(* order is already past its checks: no command, restored order, /approve  *)
(* always, restart or repeated /confirm sends anything as long as the file *)
(* is there.                                                               *)
HaltStopsSends == haltFile => \A k \in Key : sent[k] <= quota[k]

(* The handler that sends an order ends, though the venue may never reply. *)
SendReturns == pc # "idle" ~> pc = "idle"

(* The in-flight ledger does what WriteAheadSend promises: no transmission *)
(* without an entry on file, no second one after a lost answer, whatever   *)
(* crashes, restarts, repeated calls and failed writes come between.       *)
Ledgered == INSTANCE WriteAheadSend WITH open <- ledger, lost <- unanswered
ImplementsWriteAhead == Ledgered!Spec

=============================================================================
