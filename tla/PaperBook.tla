---------------------------- MODULE PaperBook ----------------------------
(***************************************************************************)
(* The in-process venue of broker/paper.py: its order book, its account    *)
(* and the two sweeps that turn prices into fills and closes.              *)
(*                                                                         *)
(* Prices and volumes count ticks and volume steps, so every price of the  *)
(* program is already rounded here.  A request the venue refuses changes   *)
(* nothing in the program: a refusal is an action that is not enabled, and *)
(* its conditions are the guards.  A dry run (order_check) never commits,  *)
(* so it has no action.  The loops over the book are taken one ticket at a *)
(* time, with the book closed to every other operation until they end:     *)
(* the venue lives in the desk's own thread.                               *)
(***************************************************************************)
EXTENDS Integers, FiniteSets, FiniteSetsExt, Functions

CONSTANTS
  Symbols,        \* the instruments the book quotes
  Prices,         \* the mid prices a bar may have
  HalfSpread,     \* half of spec.spread, in ticks
  StopsLevel,     \* spec.min_stop_distance(), in ticks
  MinVolume,      \* spec.volume_min, in volume steps
  MaxVolume,      \* spec.volume_max, in volume steps
  MarginRate,     \* trade_contract_size / leverage: margin of one step at price 1
  InitialBalance, \* the balance the account starts with
  TradeAllowed,   \* trade_allowed of the venue
  Levels,         \* the stops and targets a request may carry; 0 is none
  MaxTickets      \* bound: tickets handed out in a behaviour

ASSUME PaperAssumption ==
  /\ Prices \subseteq Nat \ {0} /\ Prices # {}
  /\ HalfSpread \in Nat /\ StopsLevel \in Nat
  /\ MinVolume \in Nat \ {0} /\ MaxVolume \in Nat
  /\ MarginRate \in Nat /\ InitialBalance \in Int
  /\ TradeAllowed \in BOOLEAN
  /\ Levels \subseteq Nat /\ 0 \in Levels
  /\ MaxTickets \in Nat

VARIABLES
  mid,        \* the close of the last bar of each symbol
  positions,  \* self._positions: open positions by ticket
  orders,     \* self._orders: working orders by ticket
  nextTicket, \* self._next_ticket
  balance,    \* self._balance
  sweep       \* the loop of resolve_pending or on_bar that is under way

book == <<positions, orders, nextTicket, balance>>
venue == <<mid, positions, orders, nextTicket, balance, sweep>>

Sides == {"buy", "sell"}
Kinds == {"limit", "stop"}
Volumes == 1..MaxVolume

Position == [symbol : Symbols, side : Sides, volume : Volumes, open : Int, sl : Levels, tp : Levels]
PendingOrder == [symbol : Symbols, side : Sides, kind : Kinds, volume : Volumes,
                 price : Prices, sl : Levels, tp : Levels]

Idle == [phase |-> "idle"]

(***************************************************************************)
(* The account                                                             *)
(***************************************************************************)
Bid(s) == mid[s] - HalfSpread
Ask(s) == mid[s] + HalfSpread

\* The price at which the venue closes a position now.
ExitPrice(p) == IF p.side = "buy" THEN Bid(p.symbol) ELSE Ask(p.symbol)

\* _pnl, for a part `volume` of the position.
Pnl(p, price, volume) ==
  IF p.side = "buy" THEN (price - p.open) * volume ELSE (p.open - price) * volume

Profit == MapThenSumSet(LAMBDA t : Pnl(positions[t], ExitPrice(positions[t]), positions[t].volume),
                        DOMAIN positions)
Equity == balance + Profit
Margin(volume, price) == MarginRate * volume * price
MarginUsed == MapThenSumSet(LAMBDA t : Margin(positions[t].volume, positions[t].open), DOMAIN positions)
FreeMargin == Equity - MarginUsed

(***************************************************************************)
(* Requests                                                                *)
(***************************************************************************)
Without(f, t) == Restrict(f, DOMAIN f \ {t})
With(f, t, x) == [u \in DOMAIN f \cup {t} |-> IF u = t THEN x ELSE f[u]]

\* What is left of position t once `volume` of it is closed.
Reduced(f, t, volume) ==
  IF f[t].volume = volume THEN Without(f, t) ELSE [f EXCEPT ![t].volume = @ - volume]

Quiet == sweep = Idle
\* _apply: a venue that does not allow trading refuses every request.
Accepts == TradeAllowed /\ Quiet
\* Bound: the tickets of a behaviour are 1..MaxTickets.
CanIssue == Accepts /\ nextTicket <= MaxTickets

\* The price of a market order of this side.
EntryPrice(s, side) == IF side = "buy" THEN Ask(s) ELSE Bid(s)

Open(s, side, volume, sl, tp) ==
  LET price == EntryPrice(s, side) IN
  /\ CanIssue
  /\ volume >= MinVolume /\ volume <= MaxVolume
  /\ sl > 0
  /\ (IF price >= sl THEN price - sl ELSE sl - price) >= StopsLevel
  /\ Margin(volume, price) <= FreeMargin
  /\ positions' = With(positions, nextTicket,
                       [symbol |-> s, side |-> side, volume |-> volume, open |-> price,
                        sl |-> sl, tp |-> tp])
  /\ nextTicket' = nextTicket + 1
  /\ UNCHANGED <<mid, orders, balance, sweep>>

Close(t, volume) ==
  /\ Accepts
  /\ t \in DOMAIN positions
  /\ volume <= positions[t].volume
  /\ balance' = balance + Pnl(positions[t], ExitPrice(positions[t]), volume)
  /\ positions' = Reduced(positions, t, volume)
  /\ UNCHANGED <<mid, orders, nextTicket, sweep>>

\* Mutant of CloseBy: only the first leg is settled.
CloseByOneLeg(t, u) ==
  LET a == positions[t]
      b == positions[u]
      volume == IF a.volume <= b.volume THEN a.volume ELSE b.volume
  IN
  /\ Accepts
  /\ t \in DOMAIN positions /\ u \in DOMAIN positions
  /\ t # u /\ a.symbol = b.symbol /\ a.side # b.side
  /\ balance' = balance + Pnl(a, ExitPrice(a), volume)
  /\ positions' = Reduced(Reduced(positions, t, volume), u, volume)
  /\ UNCHANGED <<mid, orders, nextTicket, sweep>>

\* A remainder of a close-by is nothing or a volume the venue would open.
RemainderOK(rest) == rest = 0 \/ rest >= MinVolume

CloseBy(t, u) ==
  LET a == positions[t]
      b == positions[u]
      volume == IF a.volume <= b.volume THEN a.volume ELSE b.volume
  IN
  /\ Accepts
  /\ t \in DOMAIN positions /\ u \in DOMAIN positions
  /\ t # u /\ a.symbol = b.symbol /\ a.side # b.side
  /\ RemainderOK(a.volume - volume) /\ RemainderOK(b.volume - volume)
  /\ balance' = balance + Pnl(a, ExitPrice(a), volume) + Pnl(b, ExitPrice(b), volume)
  /\ positions' = Reduced(Reduced(positions, t, volume), u, volume)
  /\ UNCHANGED <<mid, orders, nextTicket, sweep>>

\* The venue takes any level, on either side of the price and none.
ModifySltp(t, sl, tp) ==
  /\ Accepts
  /\ t \in DOMAIN positions
  /\ positions' = [positions EXCEPT ![t].sl = sl, ![t].tp = tp]
  /\ UNCHANGED <<mid, orders, nextTicket, balance, sweep>>

ModifyPending(t, price, sl, tp) ==
  /\ Accepts
  /\ t \in DOMAIN orders
  /\ orders' = [orders EXCEPT ![t].price = price, ![t].sl = sl, ![t].tp = tp]
  /\ UNCHANGED <<mid, positions, nextTicket, balance, sweep>>

PlacePending(s, side, kind, volume, price, sl, tp) ==
  /\ CanIssue
  /\ volume >= MinVolume /\ volume <= MaxVolume
  /\ price > 0
  /\ orders' = With(orders, nextTicket,
                    [symbol |-> s, side |-> side, kind |-> kind, volume |-> volume,
                     price |-> price, sl |-> sl, tp |-> tp])
  /\ nextTicket' = nextTicket + 1
  /\ UNCHANGED <<mid, positions, balance, sweep>>

\* Mutant of RemovePending: the number of a removed order is handed out again.
RemovePendingReuses(t) ==
  /\ Accepts
  /\ t \in DOMAIN orders
  /\ orders' = Without(orders, t)
  /\ nextTicket' = IF t = nextTicket - 1 THEN t ELSE nextTicket
  /\ UNCHANGED <<mid, positions, balance, sweep>>

RemovePending(t) ==
  /\ Accepts
  /\ t \in DOMAIN orders
  /\ orders' = Without(orders, t)
  /\ UNCHANGED <<mid, positions, nextTicket, balance, sweep>>

(***************************************************************************)
(* The sweeps.  `todo` holds the tickets of the loop's copy of the book    *)
(* that are still to be visited, oldest first.                             *)
(***************************************************************************)
\* Does the range low..high, seen as a bar, trigger the order?
HitByBar(o, low, high) ==
  CASE o.kind = "limit" /\ o.side = "buy"  -> low <= o.price
    [] o.kind = "limit" /\ o.side = "sell" -> high >= o.price
    [] o.kind = "stop"  /\ o.side = "buy"  -> high >= o.price
    [] o.kind = "stop"  /\ o.side = "sell" -> low <= o.price

HitByTick(o) ==
  CASE o.kind = "limit" /\ o.side = "buy"  -> Ask(o.symbol) <= o.price
    [] o.kind = "limit" /\ o.side = "sell" -> Bid(o.symbol) >= o.price
    [] o.kind = "stop"  /\ o.side = "buy"  -> Ask(o.symbol) >= o.price
    [] o.kind = "stop"  /\ o.side = "sell" -> Bid(o.symbol) <= o.price

OrdersOf(S) == {t \in DOMAIN orders : orders[t].symbol \in S}
PositionsOf(s, f) == {t \in DOMAIN f : f[t].symbol = s}

\* resolve_pending() without a bar: every symbol, or one.
ResolveTick(S) ==
  /\ Quiet /\ S # {}
  /\ sweep' = [phase |-> "tick", todo |-> OrdersOf(S)]
  /\ UNCHANGED <<mid, book>>

\* on_bar: the bar is appended before anything is resolved, so the account
\* is valued at its close.
OnBar(s, low, high, close) ==
  /\ Quiet
  /\ low <= close /\ close <= high
  /\ mid' = [mid EXCEPT ![s] = close]
  /\ sweep' = [phase |-> "fill", symbol |-> s, low |-> low, high |-> high, todo |-> OrdersOf({s})]
  /\ UNCHANGED book

\* seed_bars: the history is replaced, nothing is resolved.
SeedBars(s, close) ==
  /\ Quiet
  /\ mid' = [mid EXCEPT ![s] = close]
  /\ UNCHANGED <<book, sweep>>

Oldest(t) == \A u \in sweep.todo : t <= u

Triggered(o) == IF sweep.phase = "tick" THEN HitByTick(o) ELSE HitByBar(o, sweep.low, sweep.high)

\* Mutant of FillPending: the filled order stays on the book.
FillPendingTwice(t) ==
  LET o == orders[t] IN
  /\ positions' = With(positions, t, [symbol |-> o.symbol, side |-> o.side, volume |-> o.volume,
                                      open |-> o.price, sl |-> o.sl, tp |-> o.tp])
  /\ UNCHANGED orders

\* _fill_pending: the account is read again for each order.
FillPending(t) ==
  LET o == orders[t] IN
  /\ orders' = Without(orders, t)
  /\ positions' = With(positions, t, [symbol |-> o.symbol, side |-> o.side, volume |-> o.volume,
                                      open |-> o.price, sl |-> o.sl, tp |-> o.tp])

VisitOrder ==
  /\ sweep.phase \in {"tick", "fill"}
  /\ \E t \in sweep.todo :
       /\ Oldest(t)
       /\ IF Triggered(orders[t]) /\ Margin(orders[t].volume, orders[t].price) <= FreeMargin
          THEN FillPending(t)
          ELSE UNCHANGED <<orders, positions>>
       /\ sweep' = [sweep EXCEPT !.todo = @ \ {t}]
  /\ UNCHANGED <<mid, nextTicket, balance>>

\* Mutant of EndOfFills: the levels are tried on older positions only.
EndOfFillsOnlyOld ==
  /\ sweep.phase \in {"tick", "fill"} /\ sweep.todo = {}
  /\ sweep' = IF sweep.phase = "tick" THEN Idle
              ELSE [sweep EXCEPT !.phase = "levels",
                                 !.todo = PositionsOf(sweep.symbol, positions) \ {nextTicket - 1}]
  /\ UNCHANGED <<mid, book>>

\* The fills of a bar are done: its levels are tried on every position of
\* the symbol, those just filled included.
EndOfFills ==
  /\ sweep.phase \in {"tick", "fill"} /\ sweep.todo = {}
  /\ sweep' = IF sweep.phase = "tick" THEN Idle
              ELSE [sweep EXCEPT !.phase = "levels", !.todo = PositionsOf(sweep.symbol, positions)]
  /\ UNCHANGED <<mid, book>>

StopHit(p, low, high) ==
  p.sl > 0 /\ IF p.side = "buy" THEN low <= p.sl ELSE high >= p.sl
TargetHit(p, low, high) ==
  p.tp > 0 /\ IF p.side = "buy" THEN high >= p.tp ELSE low <= p.tp

\* _hit_level: the stop wins.  0 is no level hit.
HitLevel(p, low, high) ==
  IF StopHit(p, low, high) THEN p.sl ELSE IF TargetHit(p, low, high) THEN p.tp ELSE 0

VisitPosition ==
  /\ sweep.phase = "levels"
  /\ \E t \in sweep.todo :
       LET level == HitLevel(positions[t], sweep.low, sweep.high) IN
       /\ Oldest(t)
       /\ IF level = 0
          THEN UNCHANGED <<balance, positions>>
          ELSE /\ balance' = balance + Pnl(positions[t], level, positions[t].volume)
               /\ positions' = Without(positions, t)
       /\ sweep' = [sweep EXCEPT !.todo = @ \ {t}]
  /\ UNCHANGED <<mid, orders, nextTicket>>

EndOfBar ==
  /\ sweep.phase = "levels" /\ sweep.todo = {}
  /\ sweep' = Idle
  /\ UNCHANGED <<mid, book>>

Sweep == VisitOrder \/ EndOfFills \/ VisitPosition \/ EndOfBar

Init ==
  /\ mid \in [Symbols -> Prices]
  /\ positions = [t \in {} |-> 0]
  /\ orders = [t \in {} |-> 0]
  /\ nextTicket = 1
  /\ balance = InitialBalance
  /\ sweep = Idle

Request ==
  \/ \E s \in Symbols, side \in Sides, volume \in Volumes, sl, tp \in Levels :
       Open(s, side, volume, sl, tp)
  \/ \E t \in DOMAIN positions, volume \in Volumes : Close(t, volume)
  \/ \E t, u \in DOMAIN positions : CloseBy(t, u)
  \/ \E t \in DOMAIN positions, sl, tp \in Levels : ModifySltp(t, sl, tp)
  \/ \E t \in DOMAIN orders, price \in Prices, sl, tp \in Levels : ModifyPending(t, price, sl, tp)
  \/ \E s \in Symbols, side \in Sides, kind \in Kinds, volume \in Volumes, price \in Prices,
        sl, tp \in Levels : PlacePending(s, side, kind, volume, price, sl, tp)
  \/ \E t \in DOMAIN orders : RemovePending(t)

Market ==
  \/ \E S \in {Symbols} \cup {{s} : s \in Symbols} : ResolveTick(S)
  \/ \E s \in Symbols, low, high, close \in Prices : OnBar(s, low, high, close)
  \/ \E s \in Symbols, close \in Prices : SeedBars(s, close)

Next == Request \/ Market \/ Sweep

Spec == Init /\ [][Next]_venue

(***************************************************************************)
(* Properties                                                              *)
(***************************************************************************)
SweepOK ==
  \/ sweep = Idle
  \/ /\ sweep \in [phase : {"tick"}, todo : SUBSET DOMAIN orders]
  \/ /\ sweep \in [phase : {"fill"}, symbol : Symbols, low : Prices, high : Prices,
                   todo : SUBSET DOMAIN orders]
  \/ /\ sweep \in [phase : {"levels"}, symbol : Symbols, low : Prices, high : Prices,
                   todo : SUBSET DOMAIN positions]

\* Every ticket in the book was handed out, and stands for an order or for a
\* position, never for both (the maps of paper.py:133-135 share one counter).
TypeOK ==
  /\ mid \in [Symbols -> Prices]
  /\ nextTicket \in 1..(MaxTickets + 1)
  /\ balance \in Int
  /\ DOMAIN positions \subseteq 1..(nextTicket - 1)
  /\ DOMAIN orders \subseteq 1..(nextTicket - 1)
  /\ DOMAIN positions \cap DOMAIN orders = {}
  /\ positions \in [DOMAIN positions -> Position]
  /\ orders \in [DOMAIN orders -> PendingOrder]
  /\ SweepOK

\* A ticket that left the book never comes back, and a position never turns
\* into a working order again: a pending order fills at most once whatever
\* sweeps, modifications and cancels follow (paper.py:7-8, 592-616).
GoneForGood ==
  [][/\ nextTicket' >= nextTicket
     /\ \A t \in 1..(nextTicket - 1) :
       /\ t \notin DOMAIN orders => t \notin DOMAIN orders'
       /\ t \notin DOMAIN orders \cup DOMAIN positions => t \notin DOMAIN positions']_venue

\* Closing, part-closing, closing one position by another, cancelling and
\* modifying move money between the floating profit and the balance and make
\* or destroy none: with no new position and the price unmoved the equity the
\* circuit reads is the same (paper.py:395-467).
EquityPreserved ==
  [][(mid' = mid /\ sweep' = sweep /\ DOMAIN positions' \subseteq DOMAIN positions)
     => Equity' = Equity]_venue

\* After a bar no position of its symbol, one filled by that bar included, is
\* left with a stop or a target inside the bar's range (paper.py:646-690).
BarClears ==
  [][(sweep.phase = "levels" /\ sweep' = Idle)
     => \A t \in PositionsOf(sweep.symbol, positions') :
          /\ ~StopHit(positions'[t], sweep.low, sweep.high)
          /\ ~TargetHit(positions'[t], sweep.low, sweep.high)]_venue
=============================================================================
