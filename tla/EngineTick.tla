---------------------------- MODULE EngineTick ----------------------------
(***************************************************************************)
(* One tick of the engine (engine.step_all), the chat commands handled at  *)
(* its start, and the sweep of Engine.flatten, against a venue that fills  *)
(* and closes tickets on its own between any two calls and may fail any    *)
(* call, and a journal that may be unwritable for a while.                 *)
(*                                                                         *)
(* Prices, volumes and the verdicts of the risk thresholds are inputs.     *)
(* Every broker call is a step.  An exception leaves the tick, or the      *)
(* command, where it is: the loop journals it and starts the next tick, so *)
(* here it goes back to "poll".  A record is written by journal.write,     *)
(* which raises when the journal is not writable, so a step that records   *)
(* something has an outcome for each state of the journal.                 *)
(***************************************************************************)
EXTENDS Integers, FiniteSets

CONSTANTS
  Tickets,      \* positions and working orders of a behaviour
  BarDayOffsets, \* by how many days the date of a new bar, which is the venue's,
                \* may differ from the clock's
  MaxFaults,    \* bound: broker calls that fail
  MaxOutages,   \* bound: times the journal becomes unwritable
  MaxCommands,  \* bound: chat commands
  MaxDays,      \* bound: days
  MaxRedates    \* bound: times a day that a bar takes the key off the day

ASSUME EngineTickAssumption ==
  /\ IsFiniteSet(Tickets)
  /\ BarDayOffsets \subseteq Int
  /\ MaxFaults \in Nat /\ MaxOutages \in Nat /\ MaxCommands \in Nat
  /\ MaxDays \in Nat \ {0} /\ MaxRedates \in Nat

VARIABLES
  pc,        \* where the desk's thread is
  returnTo,  \* where the caller of the sweep goes on
  status,    \* the venue's book
  journal,   \* "ok", or "dead" while it cannot be written
  day,       \* the clock
  circuit,   \* what stands in the risk manager: nothing, the HALT file, an equity limit
  snapDay,   \* risk.snapshot.day_key
  halted,    \* Engine.halted
  seen,      \* _seen_pos
  opened,    \* _opened_this_step
  closed,    \* _closed_this_step
  todo,      \* tickets the loop under way has still to visit
  found,     \* the book as _detect_fills read it
  sweep,     \* what the sweep under way has asked for, been told and read
  told,      \* history: tickets with an "open" record
  recaps,    \* history: recaps sent on this day by an engine that is not halted
  redates,   \* history: times on this day that a bar took the key off the day
  faults, outages, commands  \* what is left of the bounds

venue == <<status, day>>
desk == <<halted, seen, opened, closed>>
risk == <<circuit, snapDay>>
history == <<told, recaps, redates>>
bounds == <<faults, outages, commands>>
vars == <<pc, returnTo, venue, journal, risk, desk, todo, found, sweep, history, bounds>>

Statuses == {"none", "working", "open", "gone"}
TickSteps == {"stops", "stopping", "auto", "detect", "announce"}
SweepSteps == {"orders", "cancel", "positions", "close", "verifyOpen", "verifyWorking", "report"}
Steps == {"poll", "recap", "gate"} \cup TickSteps \cup SweepSteps

Sweep == [orders : SUBSET Tickets, cancelled : SUBSET Tickets,
          positions : SUBSET Tickets, confirmed : SUBSET Tickets, residual : SUBSET Tickets,
          openAfter : SUBSET Tickets, workingAfter : SUBSET Tickets,
          readable : BOOLEAN, slipped : SUBSET Tickets]
NoSweep == [orders |-> {}, cancelled |-> {}, positions |-> {}, confirmed |-> {}, residual |-> {},
            openAfter |-> {}, workingAfter |-> {}, readable |-> TRUE, slipped |-> {}]

In(s) == {t \in Tickets : status[t] = s}
Live == In("working") \cup In("open")

Init ==
  /\ pc = "poll" /\ returnTo = "poll"
  /\ status \in [Tickets -> {"none", "open"}]
  /\ journal = "ok" /\ day = 1 /\ circuit = "clear" /\ snapDay = 1
  /\ halted = FALSE
  /\ seen = In("open") /\ opened = {} /\ closed = {}
  /\ todo = {} /\ found = {} /\ sweep = NoSweep
  /\ told = In("open") /\ recaps = 0 /\ redates = 0
  /\ faults = MaxFaults /\ outages = MaxOutages /\ commands = MaxCommands

(***************************************************************************)
(* The venue, the clock and the disk                                       *)
(***************************************************************************)
Becomes(t, s) == status' = [status EXCEPT ![t] = s]

\* A fill between the two reads that close a sweep is in neither of them.
Fill(t) ==
  /\ status[t] = "working"
  /\ Becomes(t, "open")
  /\ sweep' = IF pc = "verifyWorking" THEN [sweep EXCEPT !.slipped = @ \cup {t}] ELSE sweep
  /\ UNCHANGED <<pc, returnTo, journal, day, risk, desk, todo, found, history, bounds>>

Leave(t) ==
  /\ status[t] \in {"working", "open"}
  /\ Becomes(t, "gone")
  /\ UNCHANGED <<pc, returnTo, journal, day, risk, desk, todo, found, sweep, history, bounds>>

\* The tick reads the clock once, so it moves between two ticks.
NextDay ==
  /\ pc = "poll" /\ day < MaxDays
  /\ day' = day + 1 /\ recaps' = 0 /\ redates' = 0
  /\ UNCHANGED <<pc, returnTo, status, journal, risk, desk, todo, found, sweep, told, bounds>>

JournalDies ==
  /\ journal = "ok" /\ outages > 0
  /\ journal' = "dead" /\ outages' = outages - 1
  /\ UNCHANGED <<pc, returnTo, venue, risk, desk, todo, found, sweep, history, faults, commands>>

JournalBack ==
  /\ journal = "dead" /\ journal' = "ok"
  /\ UNCHANGED <<pc, returnTo, venue, risk, desk, todo, found, sweep, history, bounds>>

(***************************************************************************)
(* What a step of the desk does                                            *)
(***************************************************************************)
At(step) == pc = step
Fault == faults > 0 /\ faults' = faults - 1 /\ UNCHANGED <<outages, commands>>
NoFault == UNCHANGED bounds
Writable == journal = "ok"
\* Mutant of Records: the exception leaves the loop.
RecordsFatal(next) == pc' = IF Writable THEN next ELSE "exited"

\* Where a step that records something ends: an unwritable journal raises.
Records(next) == pc' = IF Writable THEN next ELSE "poll"

Raise == pc' = "poll"

\* A command is the desk's, from the chat; it ends where the tick begins.
Command == At("poll") /\ commands > 0
Spend == commands' = commands - 1 /\ UNCHANGED <<faults, outages>>
SpendFault == commands' = commands - 1 /\ faults > 0 /\ faults' = faults - 1 /\ UNCHANGED outages

(***************************************************************************)
(* Orders and closes                                                       *)
(***************************************************************************)

\* The send of _open with the venue's verdict, then its "open" record.
Opens(t, next) ==
  /\ status[t] = "none"
  /\ Becomes(t, "open")
  /\ opened' = opened \cup {t}
  /\ told' = IF Writable THEN told \cup {t} ELSE told
  /\ Records(next)
  /\ UNCHANGED <<halted, seen, closed, recaps>>

\* A send that raised: it may have reached the venue all the same.
OpenLost(t) ==
  /\ status[t] = "none"
  /\ (Becomes(t, "open") \/ UNCHANGED status)
  /\ Raise
  /\ UNCHANGED <<desk, told, recaps>>

\* _close when the venue answers.  An answer counts the ticket as closed by
\* this step whatever it says; `left` is the status the venue leaves it in.
Answered(t, left) ==
  /\ Becomes(t, left)
  /\ closed' = closed \cup {t}
  /\ UNCHANGED <<halted, seen, opened, history>>

\* _close when a broker call raised: the close may have been done.
CloseLost(t) ==
  /\ (status[t] = "open" /\ Becomes(t, "gone")) \/ UNCHANGED status
  /\ UNCHANGED <<desk, history>>

\* A close is done, or it closes a part only, or it is refused.
CloseAnswers(t) ==
  \/ status[t] = "open" /\ Answered(t, "gone")
  \/ Answered(t, status[t])

(***************************************************************************)
(* The chat commands                                                       *)
(***************************************************************************)
Unchanging == UNCHANGED <<returnTo, journal, day, todo, found, sweep>>

\* What the circuit may stand at once it has observed the account on day d.
\* A day that rolls lifts a daily loss.
Observed(d) ==
  IF circuit = "clear" \/ (circuit = "equity" /\ snapDay # d) THEN {"clear", "equity"} ELSE {circuit}

\* A new entry passes the halted check of /confirm, then the circuit.
DeskEntry ==
  /\ Command /\ ~halted
  /\ snapDay' = day /\ circuit' = "clear" /\ circuit' \in Observed(day)

DeskOpen(t) ==
  /\ DeskEntry
  /\ \/ Spend /\ Opens(t, "poll")
     \/ SpendFault /\ OpenLost(t)
  /\ Unchanging /\ UNCHANGED redates

\* A preview, or an entry that is refused: it observes the day and it may
\* latch an equity limit, which the next tick acts upon.
DeskPreview ==
  /\ Command /\ Spend
  /\ snapDay' = day /\ circuit' \in Observed(day)
  /\ Unchanging /\ UNCHANGED <<pc, status, desk, history>>

DeskPlace(t) ==
  /\ DeskEntry
  /\ status[t] = "none"
  /\ \/ Spend /\ Becomes(t, "working")
     \/ SpendFault /\ (Becomes(t, "working") \/ UNCHANGED status)
  /\ Unchanging /\ UNCHANGED <<pc, desk, history>>

DeskClose(t) ==
  /\ Command /\ status[t] = "open"
  /\ \/ Spend /\ CloseAnswers(t)
     \/ SpendFault /\ CloseLost(t)
  /\ Unchanging /\ UNCHANGED <<pc, risk>>

\* close_by settles two tickets against each other: one is used up at least.
DeskCloseBy(t, u) ==
  /\ Command /\ t # u /\ status[t] = "open" /\ status[u] = "open"
  /\ Spend
  /\ \E rest \in {"open", "gone"} : status' = [status EXCEPT ![t] = "gone", ![u] = rest]
  /\ closed' = closed \cup {t, u}
  /\ Unchanging /\ UNCHANGED <<pc, risk, halted, seen, opened, history>>

DeskCancel(t) ==
  /\ Command /\ status[t] = "working"
  /\ \/ Spend /\ Becomes(t, "gone")
     \/ SpendFault /\ (Becomes(t, "gone") \/ UNCHANGED status)
  /\ Unchanging /\ UNCHANGED <<pc, risk, desk, history>>

\* /halt writes the HALT file and sweeps.  A staged order whose withdrawal
\* cannot be recorded, or a file that cannot be written, ends it before that.
DeskHalt ==
  /\ Command /\ Spend
  /\ \/ circuit' = "file" /\ pc' = "orders" /\ returnTo' = "poll"
     \/ ~Writable /\ UNCHANGED <<circuit, pc, returnTo>>
  /\ UNCHANGED <<venue, journal, snapDay, desk, todo, found, sweep, history>>

\* /resume removes the HALT file and asks whether an equity limit still holds.
DeskResume ==
  /\ Command /\ Spend
  /\ \/ circuit' = "clear" /\ halted' = FALSE
     \/ circuit # "clear" /\ circuit' = "equity" /\ UNCHANGED halted
  /\ Unchanging /\ UNCHANGED <<pc, status, snapDay, seen, opened, closed, history>>

(***************************************************************************)
(* The head of the tick                                                    *)
(***************************************************************************)

\* The account is read, after one reconnect if need be, or the tick is over.
BeginTick ==
  /\ At("poll")
  /\ \/ NoFault /\ pc' = "recap"
     \/ Fault /\ (Records("recap") \/ Raise)
  /\ Unchanging /\ UNCHANGED <<status, risk, desk, history>>

DayRolled == snapDay # day

\* _maybe_daily_recap, then the halted check.
Recap ==
  /\ At("recap")
  /\ recaps' = IF DayRolled /\ Writable /\ ~halted THEN recaps + 1 ELSE recaps
  /\ pc' = IF halted \/ (DayRolled /\ ~Writable) THEN "poll" ELSE "gate"
  /\ NoFault /\ Unchanging /\ UNCHANGED <<status, risk, desk, told, redates>>

\* _apply_circuit: a trip is recorded first and swept after.
Trips(next) ==
  /\ Records("orders") /\ returnTo' = next

\* Mutant of Gate: a circuit that trips does not observe the day.
GateTripsUnobserved ==
  /\ At("gate")
  /\ circuit' \in Observed(day)
  /\ \/ /\ circuit' = "clear" /\ opened' = {} /\ closed' = {} /\ pc' = "stops"
        /\ snapDay' = day /\ UNCHANGED returnTo
     \/ circuit' # "clear" /\ Trips("poll") /\ UNCHANGED <<snapDay, opened, closed>>
  /\ NoFault /\ UNCHANGED <<venue, journal, halted, seen, todo, found, sweep, history>>

\* Mutant of Gate: what earlier commands opened and closed is kept.
GateKeepsSteps ==
  /\ At("gate") /\ snapDay' = day
  /\ circuit' \in Observed(day)
  /\ \/ circuit' = "clear" /\ pc' = "stops" /\ UNCHANGED returnTo
     \/ circuit' # "clear" /\ Trips("poll")
  /\ NoFault /\ UNCHANGED <<venue, journal, desk, todo, found, sweep, history>>

Gate ==
  /\ At("gate") /\ snapDay' = day
  /\ circuit' \in Observed(day)
  /\ \/ circuit' = "clear" /\ opened' = {} /\ closed' = {} /\ pc' = "stops" /\ UNCHANGED returnTo
     \/ circuit' # "clear" /\ Trips("poll") /\ UNCHANGED <<opened, closed>>
  /\ NoFault /\ UNCHANGED <<venue, journal, halted, seen, todo, found, sweep, history>>

(***************************************************************************)
(* Stops, entries and fills                                                *)
(***************************************************************************)
ReadStops ==
  /\ At("stops")
  /\ \/ NoFault /\ todo' = In("open") /\ pc' = "stopping"
     \/ Fault /\ Raise /\ UNCHANGED todo
  /\ UNCHANGED <<returnTo, venue, journal, risk, desk, found, sweep, history>>

\* _check_stops on one position: nothing is hit, or it is closed.
CheckStop(t) ==
  /\ At("stopping") /\ t \in todo
  /\ \/ NoFault /\ UNCHANGED <<pc, status, desk, history>>
     \/ NoFault /\ CloseAnswers(t) /\ Records("stopping")
     \/ Fault /\ CloseLost(t) /\ Raise
  /\ todo' = IF pc' = "poll" THEN {} ELSE todo \ {t}
  /\ UNCHANGED <<returnTo, journal, day, risk, found, sweep>>

StopsDone ==
  /\ At("stopping") /\ todo = {}
  /\ pc' = "auto"
  /\ NoFault /\ Unchanging /\ UNCHANGED <<status, risk, desk, history>>

\* The dates a new bar may have.
BarDay == {day + n : n \in BarDayOffsets} \cap Nat

\* _act on a new bar: its own circuit, on the bar's day, then perhaps an entry.
Act(d) ==
  /\ At("auto") /\ ~halted
  /\ snapDay' = d /\ circuit' \in Observed(d)
  /\ IF snapDay = day /\ d # day
     THEN redates < MaxRedates /\ redates' = redates + 1
     ELSE UNCHANGED redates
  /\ \/ /\ circuit' # "clear" /\ Trips("auto")
        /\ NoFault /\ UNCHANGED <<status, desk, told, recaps>>
     \/ /\ circuit' = "clear" /\ UNCHANGED returnTo
        /\ \E t \in Tickets : (NoFault /\ Opens(t, "auto")) \/ (Fault /\ OpenLost(t))
  /\ UNCHANGED <<journal, day, todo, found, sweep>>

\* The trailing stops and the symbols without a signal; a read may raise.
AutoDone ==
  /\ At("auto")
  /\ \/ NoFault /\ pc' = "detect"
     \/ Fault /\ Raise
  /\ Unchanging /\ UNCHANGED <<status, risk, desk, history>>

\* Mutant of DetectFills: the new book is remembered before it is announced.
DetectFillsRemembersFirst ==
  /\ At("detect")
  /\ \/ /\ NoFault /\ found' = In("open") /\ todo' = (found' \ seen) \ opened /\ pc' = "announce"
        /\ seen' = found'
     \/ Fault /\ Raise /\ UNCHANGED <<found, todo, seen>>
  /\ UNCHANGED <<returnTo, venue, journal, risk, halted, opened, closed, sweep, history>>

\* _detect_fills: the book is read and compared with the last one.
DetectFills ==
  /\ At("detect")
  /\ \/ NoFault /\ found' = In("open") /\ todo' = (found' \ seen) \ opened /\ pc' = "announce"
     \/ Fault /\ Raise /\ UNCHANGED <<found, todo>>
  /\ UNCHANGED <<returnTo, venue, journal, risk, desk, sweep, history>>

Announce(t) ==
  /\ At("announce") /\ t \in todo
  /\ \/ NoFault /\ Records("announce") /\ told' = IF Writable THEN told \cup {t} ELSE told
     \/ Fault /\ Raise /\ UNCHANGED told
  /\ IF pc' = "poll" THEN todo' = {} /\ found' = {} ELSE todo' = todo \ {t} /\ UNCHANGED found
  /\ UNCHANGED <<returnTo, venue, journal, risk, desk, sweep, recaps, redates>>

\* The tickets that vanished, then the book is remembered.
Vanished == (seen \ found) \ closed

Remember ==
  /\ At("announce") /\ todo = {}
  /\ seen' = IF Vanished = {} \/ Writable THEN found ELSE seen
  /\ pc' = "poll" /\ found' = {}
  /\ NoFault
  /\ UNCHANGED <<returnTo, venue, journal, risk, halted, opened, closed, todo, sweep, history>>

(***************************************************************************)
(* The sweep of Engine.flatten                                             *)
(***************************************************************************)
Aborted == pc' = "poll" /\ todo' = {} /\ sweep' = NoSweep
\* A failed read is recorded and the sweep goes on without it.
Unreadable(next) ==
  IF Writable
  THEN pc' = next /\ todo' = {} /\ sweep' = [sweep EXCEPT !.readable = FALSE]
  ELSE Aborted

\* The staged order is dropped, which is recorded, and the orders are read.
ReadOrders ==
  /\ At("orders")
  /\ \/ /\ NoFault /\ pc' = "cancel"
        /\ todo' = In("working") /\ sweep' = [sweep EXCEPT !.orders = todo']
     \/ Fault /\ Unreadable("cancel")
     \/ ~Writable /\ NoFault /\ Aborted
  /\ UNCHANGED <<returnTo, venue, journal, risk, desk, found, history>>

\* One cancel: accepted, or refused and recorded, or lost and recorded.
Cancel(t) ==
  /\ At("cancel") /\ t \in todo
  /\ \/ /\ NoFault /\ status[t] = "working" /\ Becomes(t, "gone")
        /\ pc' = pc /\ todo' = todo \ {t} /\ sweep' = [sweep EXCEPT !.cancelled = @ \cup {t}]
     \/ /\ \/ NoFault /\ UNCHANGED status
           \/ Fault /\ status[t] = "working" /\ Becomes(t, "gone")
        /\ IF Writable THEN UNCHANGED <<pc, sweep>> /\ todo' = todo \ {t} ELSE Aborted
  /\ UNCHANGED <<returnTo, journal, day, risk, desk, found, history>>

CancelDone ==
  /\ At("cancel") /\ todo = {}
  /\ pc' = "positions"
  /\ NoFault /\ Unchanging /\ UNCHANGED <<status, risk, desk, history>>

ReadPositions ==
  /\ At("positions")
  /\ \/ /\ NoFault /\ pc' = "close"
        /\ todo' = In("open") /\ sweep' = [sweep EXCEPT !.positions = todo']
     \/ Fault /\ Unreadable("close")
  /\ UNCHANGED <<returnTo, venue, journal, risk, desk, found, history>>

\* One close.  The venue does it, claims it, does a part, refuses, or raises.
CloseOne(t) ==
  /\ At("close") /\ t \in todo
  /\ \/ /\ NoFault /\ status[t] = "open" /\ Answered(t, "gone")
        /\ IF Writable
           THEN UNCHANGED pc /\ todo' = todo \ {t} /\ sweep' = [sweep EXCEPT !.confirmed = @ \cup {t}]
           ELSE Aborted
     \/ /\ Fault /\ status[t] = "open" /\ Answered(t, "open")
        /\ IF Writable
           THEN /\ UNCHANGED pc /\ todo' = todo \ {t}
                /\ \/ sweep' = [sweep EXCEPT !.confirmed = @ \cup {t}]
                   \/ sweep' = [sweep EXCEPT !.residual = @ \cup {t}]
           ELSE Aborted
     \/ /\ NoFault /\ Answered(t, status[t])
        /\ IF Writable THEN UNCHANGED <<pc, sweep>> /\ todo' = todo \ {t} ELSE Aborted
     \/ /\ Fault /\ CloseLost(t)
        /\ IF Writable THEN UNCHANGED <<pc, sweep>> /\ todo' = todo \ {t} ELSE Aborted
  /\ UNCHANGED <<returnTo, journal, day, risk, found>>

\* The halt precedes the reads that verify the sweep.
CloseDone ==
  /\ At("close") /\ todo = {}
  /\ halted' = TRUE /\ pc' = "verifyOpen"
  /\ NoFault /\ Unchanging /\ UNCHANGED <<status, risk, seen, opened, closed, history>>

VerifyOpen ==
  /\ At("verifyOpen")
  /\ \/ /\ NoFault /\ pc' = "verifyWorking" /\ UNCHANGED todo
        /\ sweep' = [sweep EXCEPT !.openAfter = In("open")]
     \/ Fault /\ Unreadable("verifyWorking")
  /\ UNCHANGED <<returnTo, venue, journal, risk, desk, found, history>>

\* Mutant of Survivors: a sweep that could not be measured believes the closes.
SurvivorsBelieved(s) == s.openAfter \cup s.residual

\* What the sweep reports as still there: when one of its four reads failed,
\* everything it asked for.
Survivors(s) == IF s.readable THEN s.openAfter \cup s.residual ELSE s.positions \cup s.openAfter

OrderSurvivors(s) == IF s.readable THEN s.workingAfter ELSE s.orders \cup s.workingAfter

ClosedElsewhere(s) ==
  IF s.readable THEN s.positions \ (s.confirmed \cup s.residual \cup s.openAfter) ELSE {}

OrdersGone(s) == IF s.readable THEN s.orders \ (s.cancelled \cup s.workingAfter) ELSE {}

\* FlattenReport.complete
Complete(s) ==
  /\ s.readable
  /\ Survivors(s) = {} /\ OrderSurvivors(s) = {}
  /\ Cardinality(s.confirmed) + Cardinality(ClosedElsewhere(s)) = Cardinality(s.positions)
  /\ Cardinality(s.cancelled) + Cardinality(OrdersGone(s)) = Cardinality(s.orders)

VerifyWorking ==
  /\ At("verifyWorking")
  /\ \/ NoFault /\ pc' = "report" /\ sweep' = [sweep EXCEPT !.workingAfter = In("working")]
     \/ Fault /\ Unreadable("report")
  /\ seen' = IF pc' = "report" THEN sweep'.openAfter \ Survivors(sweep') ELSE seen
  /\ UNCHANGED <<returnTo, venue, journal, risk, halted, opened, closed, todo, found, history>>

Report ==
  /\ At("report")
  /\ Records(returnTo) /\ sweep' = NoSweep
  /\ NoFault /\ UNCHANGED <<returnTo, venue, journal, risk, desk, todo, found, history>>

(***************************************************************************)
(* The specification                                                       *)
(***************************************************************************)
Environment ==
  \/ \E t \in Tickets : Fill(t) \/ Leave(t)
  \/ NextDay \/ JournalDies \/ JournalBack

Chat ==
  \/ \E t \in Tickets : DeskOpen(t) \/ DeskPlace(t) \/ DeskClose(t) \/ DeskCancel(t)
  \/ \E t, u \in Tickets : DeskCloseBy(t, u)
  \/ DeskPreview \/ DeskHalt \/ DeskResume

Tick ==
  \/ BeginTick \/ Recap \/ Gate
  \/ ReadStops \/ StopsDone \/ AutoDone
  \/ \E d \in BarDay : Act(d)
  \/ DetectFills \/ Remember
  \/ \E t \in Tickets : CheckStop(t) \/ Announce(t)

Flatten ==
  \/ ReadOrders \/ CancelDone \/ ReadPositions \/ CloseDone
  \/ VerifyOpen \/ VerifyWorking \/ Report
  \/ \E t \in Tickets : Cancel(t) \/ CloseOne(t)

Next == Environment \/ Chat \/ Tick \/ Flatten

\* The loop runs for ever and outlives every exception; a journal that cannot
\* be written is repaired.
Spec == Init /\ [][Next]_vars /\ WF_vars(Tick \/ Flatten) /\ WF_vars(JournalBack)

(***************************************************************************)
(* Properties                                                              *)
(***************************************************************************)

\* Every variable has its type.
TypeOK ==
  /\ pc \in Steps /\ returnTo \in {"poll", "auto"}
  /\ status \in [Tickets -> Statuses]
  /\ journal \in {"ok", "dead"} /\ day \in 1..MaxDays /\ snapDay \in Nat
  /\ circuit \in {"clear", "file", "equity"} /\ halted \in BOOLEAN
  /\ seen \subseteq Tickets /\ opened \subseteq Tickets /\ closed \subseteq Tickets
  /\ todo \subseteq Tickets /\ found \subseteq Tickets /\ sweep \in Sweep
  /\ told \subseteq Tickets /\ recaps \in Nat /\ redates \in Nat
  /\ faults \in 0..MaxFaults /\ outages \in 0..MaxOutages /\ commands \in 0..MaxCommands

\* A sweep reports every ticket that any of its reads returned and that is
\* still in the book, whatever failed on the way, save an order that filled
\* between the last two reads (engine.flatten, models.FlattenReport).
ReportCovers ==
  At("report") =>
    Live \cap (sweep.orders \cup sweep.positions \cup sweep.openAfter \cup sweep.workingAfter)
      \subseteq Survivors(sweep) \cup OrderSurvivors(sweep) \cup sweep.slipped

\* A sweep that calls itself complete left no exposure (CONTRACT.md, "Flatten
\* proof"; engine.flatten: COULD NOT MEASURE is INCOMPLETE).
CompleteMeansFlat ==
  At("report") /\ Complete(sweep) => Live = {}

\* The engine takes no position for known without an "open" record of it, in
\* whatever order commands, fills, failed reads and an unwritable journal come
\* (engine._detect_fills, CONTRACT.md "Fills SSOT").
NeverSilent == seen \subseteq told

\* A desk that is not halted sends one recap a day, and one more for each time
\* that a bar of another date took the key off the day (engine._maybe_daily_recap
\* is keyed by a day that the circuit observes later in the tick, and that _act
\* observes by the venue's clock).
OneRecapPerRollover == recaps <= 1 + redates

\* A position that stays open on a desk that is not halted is announced, once
\* the venue answers and the journal can be written again.
AlertsCatchUp ==
  \A t \in Tickets : status[t] = "open" ~> (t \in told \/ status[t] # "open" \/ halted)
=============================================================================
