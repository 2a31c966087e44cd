--------------------------- MODULE PositionCare ---------------------------
(***************************************************************************)
(* What the engine does with positions that are open: stops, targets and   *)
(* scale-outs checked every tick (_check_stops), the trailing manager      *)
(* (_manage_open, strategy.manage), the chat commands that move them and   *)
(* the sweep of a halt (flatten), after which the tick stops looking.      *)
(*                                                                         *)
(* Prices count ticks and volumes volume steps.  The venue may refuse any  *)
(* request, fill a close in part, lose its answer, or close a position on  *)
(* its own, and a read may raise.  A position is read afresh in every      *)
(* loop, and the desk is the only one that changes it, so a visit reads    *)
(* what stands.  Why a circuit trips is left open, and the journal can be  *)
(* written.                                                                *)
(***************************************************************************)
EXTENDS Integers, FiniteSets

CONSTANTS
  Tickets,         \* the positions a session starts with
  Prices,          \* what the market may quote
  Books,           \* the books a session may start with
  MaxVolume,       \* largest volume of a position
  MinVolume,       \* spec.volume_min
  HalfSpread,      \* half of the spread
  TrailDistance,   \* trail_atr_mult * ATR, rounded to the tick
  BreakevenHalves, \* breakeven_r, in halves of the risk
  TrailHalves,     \* trail_r, in halves of the risk
  MaxFaults,       \* bound: failed reads, refusals, partial fills and lost answers
  MaxCommands      \* bound: chat commands

\* A level of 0 is none.
Position == [side : {"buy", "sell"}, volume : 1..MaxVolume, open : Int, sl : Int, tp : Int]
Closed == [volume |-> 0]

ASSUME PositionCareAssumption ==
  /\ IsFiniteSet(Tickets)
  /\ Prices \subseteq Nat \ {0} /\ Prices # {}
  /\ MaxVolume \in Nat /\ MinVolume \in Nat \ {0}
  /\ Books \subseteq [Tickets -> Position \cup {Closed}]
  /\ HalfSpread \in Nat /\ TrailDistance \in Nat \ {0}
  /\ BreakevenHalves \in Nat \ {0} /\ TrailHalves \in Nat \ {0}
  /\ MaxFaults \in Nat /\ MaxCommands \in Nat

VARIABLES
  price,     \* the middle of the quote
  position,  \* the venue's book
  scale,     \* _scale_outs: what is to be closed on the way to the target
  halted,    \* Engine.halted
  pc,        \* "idle", "stops", "manage" or "sweep"
  todo,      \* positions the loop has still to visit
  taken,     \* history: how often the venue carried out the armed scale-out
  lost,      \* history: positions whose close was not answered
  faults, commands

book == <<position, scale, taken, lost>>
vars == <<price, book, halted, pc, todo, faults, commands>>

NoScale == [volume |-> 0, price |-> 0]

Init ==
  /\ price \in Prices
  /\ position \in Books
  /\ scale = [t \in Tickets |-> NoScale]
  /\ halted = FALSE /\ pc = "idle" /\ todo = {}
  /\ taken = [t \in Tickets |-> 0] /\ lost = {}
  /\ faults = MaxFaults /\ commands = MaxCommands

(***************************************************************************)
(* Prices                                                                  *)
(***************************************************************************)
IsOpen(t) == position[t].volume > 0
OpenTickets == {t \in Tickets : IsOpen(t)}

Buys(p) == p.side = "buy"
Bid == price - HalfSpread
Ask == price + HalfSpread
Exit(p) == IF Buys(p) THEN Bid ELSE Ask

\* The price has gone at least as far as `level` in the position's favour.
Reached(p, level) == IF Buys(p) THEN Exit(p) >= level ELSE Exit(p) <= level

StopHit(p) == p.sl > 0 /\ (IF Buys(p) THEN Exit(p) <= p.sl ELSE Exit(p) >= p.sl)
TargetHit(p) == p.tp > 0 /\ Reached(p, p.tp)
ScaleHit(t) == scale[t].volume > 0 /\ Reached(position[t], scale[t].price)

Gap(a, b) == IF a >= b THEN a - b ELSE b - a
Tighter(p, a, b) == IF Buys(p) THEN (IF a >= b THEN a ELSE b) ELSE (IF a <= b THEN a ELSE b)

\* The stop the trail wants, and the one at break-even, in favourable halves of
\* the risk that is left: the distance of the stop from the entry.
Favourable(p) == IF Buys(p) THEN price - p.open ELSE p.open - price
Candidate(p) == IF Buys(p) THEN price - TrailDistance ELSE price + TrailDistance
Gains(p, halves) == 2 * Favourable(p) >= halves * Gap(p.open, p.sl)

\* Mutant of Managed: the trail does not look at the stop it replaces.
ManagedUnchecked(p) ==
  LET even == IF Gains(p, BreakevenHalves) THEN Tighter(p, p.sl, p.open) ELSE p.sl IN
  IF p.sl = 0 \/ p.open = p.sl THEN p.sl
  ELSE IF Gains(p, TrailHalves) THEN Candidate(p) ELSE even

\* strategy.manage: break-even, then the trail.  No stop, or a stop at the
\* entry, leaves no risk to measure by and nothing is moved.
Managed(p) ==
  LET even == IF Gains(p, BreakevenHalves) THEN Tighter(p, p.sl, p.open) ELSE p.sl IN
  IF p.sl = 0 \/ p.open = p.sl THEN p.sl
  ELSE IF Gains(p, TrailHalves) THEN Tighter(p, even, Candidate(p)) ELSE even

(***************************************************************************)
(* Requests to the venue                                                   *)
(***************************************************************************)
NoFault == UNCHANGED faults
Fault == faults > 0 /\ faults' = faults - 1

\* Mutant of Shrunk: a position closed in full stays in the book.
ShrunkStays(t, v) == [position EXCEPT ![t].volume = @ - v]

\* Volume `v` of t leaves the book.
Shrunk(t, v) ==
  IF position[t].volume = v THEN [position EXCEPT ![t] = Closed]
  ELSE [position EXCEPT ![t].volume = @ - v]

\* Mutant of Forget: only a full close forgets it.
ForgetWhenClosed(t) ==
  scale' = IF position'[t].volume = 0 THEN [scale EXCEPT ![t] = NoScale] ELSE scale

\* The engine forgets the scale-out of a position it closed any part of.
Forget(t) == scale' = [scale EXCEPT ![t] = NoScale]

\* _close of volume v: done, or done in part, or refused.
CloseAnswered(t, v) ==
  \/ /\ NoFault /\ IsOpen(t) /\ v <= position[t].volume
     /\ position' = Shrunk(t, v) /\ Forget(t)
  \/ /\ Fault /\ IsOpen(t) /\ v <= position[t].volume
     /\ \E part \in 1..(v - 1) : position' = Shrunk(t, part)
     /\ Forget(t)
  \/ /\ IF IsOpen(t) /\ v <= position[t].volume THEN Fault ELSE NoFault
     /\ UNCHANGED <<position, scale>>

\* _close whose answer is lost: the scale-out stays armed either way.
CloseLost(t, v) ==
  /\ Fault
  /\ \/ IsOpen(t) /\ v <= position[t].volume /\ position' = Shrunk(t, v)
     \/ UNCHANGED position
  /\ lost' = lost \cup {t}
  /\ UNCHANGED scale

\* The venue has carried out the scale-out that is armed.
Count(t, scaling) ==
  taken' = IF scaling /\ position' # position THEN [taken EXCEPT ![t] = @ + 1] ELSE taken

\* _modify: nothing is sent for a position that has these levels already.
Modify(t, sl, tp) ==
  IF position[t].sl = sl /\ position[t].tp = tp
  THEN NoFault /\ UNCHANGED position
  ELSE \/ NoFault /\ position' = [position EXCEPT ![t].sl = sl, ![t].tp = tp]
       \/ Fault /\ UNCHANGED position

(***************************************************************************)
(* The tick                                                                *)
(***************************************************************************)
\* A read that raises leaves the tick, and the loop starts the next one.
Raises == Fault /\ pc' = "idle" /\ todo' = {} /\ UNCHANGED <<position, scale, taken, lost>>

\* step_all comes to the stops only on a desk that is not halted and whose
\* circuit is clear; one that trips sweeps instead (BeginSweep).
BeginStops ==
  /\ pc = "idle" /\ ~halted
  /\ \/ pc' = "stops" /\ todo' = OpenTickets /\ NoFault /\ UNCHANGED book
     \/ Raises
  /\ UNCHANGED <<price, halted, commands>>

\* Mutant of CloseDue: an armed scale-out keeps the target from being looked at.
CloseDueScaleBlocks(t) ==
  IF StopHit(position[t]) THEN position[t].volume
  ELSE IF scale[t].volume > 0 THEN (IF ScaleHit(t) THEN scale[t].volume ELSE 0)
  ELSE IF TargetHit(position[t]) THEN position[t].volume ELSE 0

\* What _check_stops closes of position t: all at the stop, else the scale-out,
\* else all at the target.
CloseDue(t) ==
  IF StopHit(position[t]) THEN position[t].volume
  ELSE IF ScaleHit(t) THEN scale[t].volume
  ELSE IF TargetHit(position[t]) THEN position[t].volume ELSE 0

Scaling(t) == ~StopHit(position[t]) /\ ScaleHit(t)

\* A position the venue closed since the book was read is refused and passed
\* over; a quote that cannot be read, or a lost answer, ends the tick.
CheckStop(t) ==
  /\ pc = "stops" /\ t \in todo
  /\ \/ Raises
     \/ IF ~IsOpen(t) \/ CloseDue(t) = 0
        THEN NoFault /\ UNCHANGED <<book, pc>> /\ todo' = todo \ {t}
        ELSE /\ \/ CloseAnswered(t, CloseDue(t)) /\ UNCHANGED <<pc, lost>> /\ todo' = todo \ {t}
                \/ CloseLost(t, CloseDue(t)) /\ pc' = "idle" /\ todo' = {}
             /\ Count(t, Scaling(t))
  /\ UNCHANGED <<price, halted, commands>>

BeginManage ==
  /\ pc = "stops" /\ todo = {}
  /\ \/ pc' = "manage" /\ todo' = OpenTickets
     \/ pc' = "idle" /\ UNCHANGED todo
  /\ UNCHANGED <<price, book, halted, faults, commands>>

\* One position of _manage_open: moved, or left alone for want of bars; a
\* failed read ends the tick.
Manage(t) ==
  /\ pc = "manage" /\ t \in todo
  /\ \/ /\ todo' = todo \ {t} /\ UNCHANGED pc
        /\ \/ IsOpen(t) /\ Modify(t, Managed(position[t]), position[t].tp)
           \/ NoFault /\ UNCHANGED position
     \/ Raises
  /\ UNCHANGED <<price, scale, taken, lost, halted, commands>>

EndTick ==
  /\ pc = "manage" /\ todo = {}
  /\ pc' = "idle"
  /\ UNCHANGED <<price, book, halted, todo, faults, commands>>

(***************************************************************************)
(* The sweep of Engine.flatten                                             *)
(***************************************************************************)
Spend == pc = "idle" /\ commands > 0 /\ commands' = commands - 1

\* The circuit trips at the head of the tick, or on a new bar at its end, or
\* the chat says /halt.  A book that cannot be read leaves nothing to close.
BeginSweep ==
  /\ \/ ~halted /\ (pc = "idle" \/ (pc \in {"stops", "manage"} /\ todo = {})) /\ UNCHANGED commands
     \/ Spend
  /\ pc' = "sweep"
  /\ \/ NoFault /\ todo' = OpenTickets
     \/ Fault /\ todo' = {}
  /\ UNCHANGED <<price, book, halted>>

\* One close of the sweep; one that raises is passed over.
SweepOne(t) ==
  /\ pc = "sweep" /\ t \in todo /\ todo' = todo \ {t}
  /\ \/ ~IsOpen(t) /\ NoFault /\ UNCHANGED <<position, scale, lost>>
     \/ /\ IsOpen(t)
        /\ \/ CloseAnswered(t, position[t].volume) /\ UNCHANGED lost
           \/ CloseLost(t, position[t].volume)
  /\ UNCHANGED <<price, taken, halted, pc, commands>>

\* Every scale-out is forgotten, and the desk is halted, whatever survived.
EndSweep ==
  /\ pc = "sweep" /\ todo = {}
  /\ scale' = [t \in Tickets |-> NoScale] /\ halted' = TRUE /\ pc' = "idle"
  /\ UNCHANGED <<price, position, taken, lost, todo, faults, commands>>

(***************************************************************************)
(* The chat commands                                                       *)
(***************************************************************************)
Command(t) == Spend /\ IsOpen(t) /\ UNCHANGED <<price, halted, pc, todo>>

\* /resume, when the circuit lets it.
Resume ==
  /\ Spend /\ halted' = FALSE
  /\ UNCHANGED <<price, book, pc, todo, faults>>

Moves == UNCHANGED <<scale, taken, lost>>

SetSl(t, level) ==
  Command(t) /\ Modify(t, level, position[t].tp) /\ Moves

SetTp(t, level) ==
  Command(t) /\ Modify(t, position[t].sl, level) /\ Moves

\* The volume a command leaves open is nothing or one the venue would open.
RemainderOK(rest) == rest = 0 \/ rest >= MinVolume

\* _set_scale_out: beyond the entry; all of the volume is a plain target.
SetScaleOut(t, level, v) ==
  LET p == position[t] IN
  /\ Command(t)
  /\ MinVolume <= v /\ v <= p.volume /\ RemainderOK(p.volume - v)
  /\ IF Buys(p) THEN level > p.open ELSE level < p.open
  /\ IF v = p.volume
     THEN Modify(t, p.sl, level) /\ UNCHANGED <<scale, taken>>
     ELSE /\ scale' = [scale EXCEPT ![t] = [volume |-> v, price |-> level]]
          /\ taken' = [taken EXCEPT ![t] = 0]
          /\ NoFault /\ UNCHANGED position
  /\ UNCHANGED lost

\* /be: to the entry, in profit only, and only if that tightens.
Breakeven(t) ==
  LET p == position[t] IN
  /\ Command(t)
  /\ Reached(p, p.open)
  /\ p.sl > 0 => (IF Buys(p) THEN p.sl < p.open ELSE p.sl > p.open)
  /\ Modify(t, p.open, p.tp) /\ Moves

TrailOnce(t) ==
  Command(t) /\ Modify(t, Managed(position[t]), position[t].tp) /\ Moves

CloseTicket(t, v) ==
  /\ Command(t)
  /\ UNCHANGED taken
  /\ \/ CloseAnswered(t, v) /\ UNCHANGED lost
     \/ CloseLost(t, v)

\* close_by: a scale-out is forgotten only where nothing is left.
CloseBy(t, u) ==
  LET v == IF position[t].volume <= position[u].volume THEN position[t].volume ELSE position[u].volume
      rest(x) == position[x].volume - v
  IN
  /\ Command(t) /\ t # u /\ IsOpen(u) /\ position[t].side # position[u].side
  /\ RemainderOK(rest(t)) /\ RemainderOK(rest(u))
  /\ \/ /\ NoFault
        /\ position' = [x \in Tickets |-> IF x \in {t, u} THEN Shrunk(x, v)[x] ELSE position[x]]
        /\ scale' = [x \in Tickets |-> IF x \in {t, u} /\ rest(x) = 0 THEN NoScale ELSE scale[x]]
     \/ Fault /\ UNCHANGED <<position, scale>>
  /\ UNCHANGED <<taken, lost>>

(***************************************************************************)
(* The venue and the market                                                *)
(***************************************************************************)
MarketMoves ==
  /\ price' \in Prices /\ price' # price
  /\ UNCHANGED <<book, halted, pc, todo, faults, commands>>

VenueCloses(t) ==
  /\ IsOpen(t) /\ (StopHit(position[t]) \/ TargetHit(position[t]))
  /\ position' = [position EXCEPT ![t] = Closed]
  /\ UNCHANGED <<price, scale, taken, lost, halted, pc, todo, faults, commands>>

Tick ==
  \/ BeginStops \/ BeginManage \/ EndTick
  \/ \E t \in Tickets : CheckStop(t) \/ Manage(t)

Sweep == BeginSweep \/ EndSweep \/ \E t \in Tickets : SweepOne(t)

Chat ==
  \/ Resume
  \/ \E t \in Tickets :
       \/ \E level \in Prices :
            \/ SetSl(t, level) \/ SetTp(t, level)
            \/ \E v \in 1..MaxVolume : SetScaleOut(t, level, v)
       \/ Breakeven(t) \/ TrailOnce(t)
       \/ \E v \in 1..MaxVolume : CloseTicket(t, v)
       \/ \E u \in Tickets : CloseBy(t, u)

Next == Tick \/ Sweep \/ Chat \/ MarketMoves \/ \E t \in Tickets : VenueCloses(t)

\* The loop runs for ever, and a sweep that has begun is the loop's; nothing is
\* assumed of the circuit, the chat or the market.
Spec == Init /\ [][Next]_vars /\ WF_vars(Tick \/ (pc = "sweep" /\ Sweep))

(***************************************************************************)
(* Properties                                                              *)
(***************************************************************************)
\* Every variable has its type.
TypeOK ==
  /\ price \in Prices
  /\ position \in [Tickets -> Position \cup {Closed}]
  /\ scale \in [Tickets -> [volume : 1..MaxVolume, price : Prices] \cup {NoScale}]
  /\ halted \in BOOLEAN /\ pc \in {"idle", "stops", "manage", "sweep"} /\ todo \subseteq Tickets
  /\ taken \in [Tickets -> Nat] /\ lost \subseteq Tickets
  /\ faults \in 0..MaxFaults /\ commands \in 0..MaxCommands

\* The manager, /be and /trail never move a stop away from the price, whatever
\* stop, gap and trail they meet (README "It never loosens", strategy.manage).
NeverLoosens ==
  [][\A t \in Tickets :
       IsOpen(t) /\ (Manage(t) \/ Breakeven(t) \/ TrailOnce(t)) =>
         LET p == position[t]
             q == position'[t]
         IN IF Buys(p) THEN q.sl >= p.sl ELSE p.sl > 0 => q.sl > 0 /\ q.sl <= p.sl]_vars

\* A position at its stop or its target does not stay there on a desk that
\* trades: it is closed, or the price or the level moves, or the desk is halted,
\* after which nothing looks at what the sweep left (engine.step_all).  One is
\* left out whose scale-out is larger than the position: a close-by, or a close
\* whose answer was lost, shrank it and did not forget the scale-out, which is
\* refused in every tick and keeps the target from being looked at
\* (engine._check_stops, engine.close_by).
ScaleFits(t) == scale[t].volume <= position[t].volume
ExitDue(t) ==
  IsOpen(t) /\ ScaleFits(t) /\ (StopHit(position[t]) \/ TargetHit(position[t]))

ExitTaken == \A t \in Tickets : ExitDue(t) ~> ~ExitDue(t) \/ halted

\* A scale-out is carried out once, save when the answer to it is lost: it is
\* then still armed and the next tick sends it again (engine._close).
ScaleOnce == \A t \in Tickets : taken[t] > 1 => t \in lost
=============================================================================
