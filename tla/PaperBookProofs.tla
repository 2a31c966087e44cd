-------------------------- MODULE PaperBookProofs --------------------------
(***************************************************************************)
(* Theorems about PaperBook, for any instruments, prices, levels, volumes  *)
(* and number of tickets: its types, that a ticket is used once, what a    *)
(* bar leaves behind, and that requests make and destroy no money.         *)
(***************************************************************************)
EXTENDS PaperBook, SetSums, TLAPS

(***************************************************************************)
(* Maps by ticket                                                          *)
(***************************************************************************)
LEMMA WithFacts ==
  ASSUME NEW f, NEW t, NEW x
  PROVE  /\ DOMAIN With(f, t, x) = DOMAIN f \cup {t}
         /\ With(f, t, x)[t] = x
         /\ \A u \in DOMAIN f : u # t => With(f, t, x)[u] = f[u]
  BY DEF With

LEMMA WithoutFacts ==
  ASSUME NEW f, NEW t
  PROVE  /\ DOMAIN Without(f, t) = DOMAIN f \ {t}
         /\ \A u \in DOMAIN f \ {t} : Without(f, t)[u] = f[u]
  BY DEF Without, Restrict

\* A map whose values are of a type keeps it when an entry of that type is
\* added, when an entry is taken away and when a volume is cut.
LEMMA WithTyped ==
  ASSUME NEW S, NEW D, NEW f \in [D -> S], NEW t, NEW x \in S
  PROVE  With(f, t, x) \in [D \cup {t} -> S]
  BY DEF With

LEMMA WithoutTyped ==
  ASSUME NEW S, NEW D, NEW f \in [D -> S], NEW t
  PROVE  Without(f, t) \in [D \ {t} -> S]
  BY DEF Without, Restrict

LEMMA Integral ==
  /\ \A x \in Prices : x \in Int
  /\ \A x \in Levels : x \in Int
  /\ \A x \in Volumes : x \in Int
  /\ HalfSpread \in Int
  BY PaperAssumption DEF Volumes

LEMMA PnlInt ==
  ASSUME NEW p \in Position, NEW price \in Int, NEW volume \in Int
  PROVE  Pnl(p, price, volume) \in Int
  BY DEF Pnl, Position

LEMMA ReducedTyped ==
  ASSUME NEW D, NEW f \in [D -> Position], NEW t \in D, NEW v \in Volumes, v <= f[t].volume
  PROVE  /\ DOMAIN Reduced(f, t, v) \subseteq D
         /\ Reduced(f, t, v) \in [DOMAIN Reduced(f, t, v) -> Position]
         /\ \A u \in D \ {t} : u \in DOMAIN Reduced(f, t, v) /\ Reduced(f, t, v)[u] = f[u]
  <1>0. MaxVolume \in Nat
    BY PaperAssumption
  <1>1. CASE f[t].volume = v
    <2>1. Reduced(f, t, v) = Without(f, t)
      BY <1>1 DEF Reduced
    <2>2. Without(f, t) \in [D \ {t} -> Position]
      BY WithoutTyped
    <2>3. DOMAIN Without(f, t) = D \ {t}
      BY <2>2
    <2>4. \A u \in D \ {t} : Without(f, t)[u] = f[u]
      BY DEF Without, Restrict
    <2> QED BY <2>1, <2>2, <2>3, <2>4
  <1>2. CASE f[t].volume # v
    <2>1. Reduced(f, t, v) = [f EXCEPT ![t] = [f[t] EXCEPT !.volume = f[t].volume - v]]
      BY <1>2 DEF Reduced
    <2>2. f[t] \in Position /\ f[t].volume \in 1..MaxVolume /\ v \in 1..MaxVolume
      BY DEF Position, Volumes
    <2>3. f[t].volume - v \in Volumes
      BY <1>0, <1>2, <2>2 DEF Volumes
    <2>4. [f[t] EXCEPT !.volume = f[t].volume - v] \in Position
      BY <2>2, <2>3 DEF Position
    <2> QED BY <2>1, <2>4
  <1> QED BY <1>1, <1>2

(***************************************************************************)
(* Type correctness, and the tickets that are gone                         *)
(***************************************************************************)
Gone ==
  /\ nextTicket' >= nextTicket
  /\ \A t \in 1..(nextTicket - 1) :
       /\ t \notin DOMAIN orders => t \notin DOMAIN orders'
       /\ t \notin DOMAIN orders \cup DOMAIN positions => t \notin DOMAIN positions'

BookOK ==
  /\ nextTicket \in 1..(MaxTickets + 1)
  /\ balance \in Int
  /\ DOMAIN positions \subseteq 1..(nextTicket - 1)
  /\ DOMAIN orders \subseteq 1..(nextTicket - 1)
  /\ DOMAIN positions \cap DOMAIN orders = {}
  /\ positions \in [DOMAIN positions -> Position]
  /\ orders \in [DOMAIN orders -> PendingOrder]

\* A request that hands out no ticket.
LEMMA OldTickets ==
  ASSUME BookOK, UNCHANGED nextTicket, balance' \in Int,
         DOMAIN positions' \subseteq DOMAIN positions, DOMAIN orders' \subseteq DOMAIN orders,
         positions' \in [DOMAIN positions' -> Position],
         orders' \in [DOMAIN orders' -> PendingOrder]
  PROVE  BookOK' /\ Gone
  BY PaperAssumption DEF BookOK, Gone

\* A request that hands out the next one, to a position or to an order.
LEMMA NewTicket ==
  ASSUME BookOK, CanIssue, nextTicket' = nextTicket + 1, UNCHANGED balance,
         \/ /\ UNCHANGED orders
            /\ \E x \in Position : positions' = With(positions, nextTicket, x)
         \/ /\ UNCHANGED positions
            /\ \E x \in PendingOrder : orders' = With(orders, nextTicket, x)
  PROVE  BookOK' /\ Gone
  <1>0. /\ nextTicket \in Nat /\ nextTicket' \in 1..(MaxTickets + 1)
        /\ 1..(nextTicket - 1) \subseteq 1..(nextTicket' - 1)
        /\ nextTicket \in 1..(nextTicket' - 1) /\ nextTicket \notin 1..(nextTicket - 1)
        /\ nextTicket' >= nextTicket
    BY PaperAssumption DEF BookOK, CanIssue
  <1>1. ASSUME UNCHANGED orders, NEW x \in Position, positions' = With(positions, nextTicket, x)
        PROVE  BookOK' /\ Gone
    <2>1. positions' \in [DOMAIN positions \cup {nextTicket} -> Position]
      BY <1>1, WithTyped DEF BookOK
    <2>2. DOMAIN positions' = DOMAIN positions \cup {nextTicket}
      BY <2>1
    <2> QED BY <1>0, <1>1, <2>1, <2>2 DEF BookOK, Gone
  <1>2. ASSUME UNCHANGED positions, NEW x \in PendingOrder, orders' = With(orders, nextTicket, x)
        PROVE  BookOK' /\ Gone
    <2>1. orders' \in [DOMAIN orders \cup {nextTicket} -> PendingOrder]
      BY <1>2, WithTyped DEF BookOK
    <2>2. DOMAIN orders' = DOMAIN orders \cup {nextTicket}
      BY <2>1
    <2> QED BY <1>0, <1>2, <2>1, <2>2 DEF BookOK, Gone
  <1> QED BY <1>1, <1>2

LEMMA QuoteInt ==
  ASSUME mid \in [Symbols -> Prices], NEW p \in Position
  PROVE  ExitPrice(p) \in Int
  <1>1. p.symbol \in Symbols
    BY DEF Position
  <1>2. mid[p.symbol] \in Prices
    BY <1>1
  <1>3. mid[p.symbol] \in Int /\ HalfSpread \in Int
    BY <1>2, Integral
  <1> QED BY <1>3 DEF ExitPrice, Bid, Ask

LEMMA RequestTyped ==
  ASSUME mid \in [Symbols -> Prices], BookOK, Request
  PROVE  BookOK' /\ Gone
  <1>0. positions \in [DOMAIN positions -> Position] /\ orders \in [DOMAIN orders -> PendingOrder]
    BY DEF BookOK
  <1>1. ASSUME NEW s \in Symbols, NEW side \in Sides, NEW volume \in Volumes, NEW sl \in Levels,
               NEW tp \in Levels, Open(s, side, volume, sl, tp)
        PROVE  BookOK' /\ Gone
    <2>1. EntryPrice(s, side) \in Int
      <3>1. mid[s] \in Prices
        OBVIOUS
      <3>2. mid[s] \in Int /\ HalfSpread \in Int
        BY <3>1, Integral
      <3> QED BY <3>2 DEF EntryPrice, Ask, Bid
    <2> DEFINE x == [symbol |-> s, side |-> side, volume |-> volume, open |-> EntryPrice(s, side),
                     sl |-> sl, tp |-> tp]
    <2>2. x \in Position
      BY <1>1, <2>1 DEF Position
    <2>3. positions' = With(positions, nextTicket, x)
      BY <1>1 DEF Open
    <2> HIDE DEF x
    <2> QED BY <1>1, <2>2, <2>3, NewTicket DEF Open
  <1>2. ASSUME NEW t \in DOMAIN positions, NEW volume \in Volumes, Close(t, volume)
        PROVE  BookOK' /\ Gone
    <2>1. positions[t] \in Position /\ volume \in Int
      BY <1>0, PaperAssumption DEF Volumes
    <2>2. balance' \in Int
      BY <1>2, <2>1, QuoteInt, PnlInt DEF Close, BookOK
    <2> QED BY <1>0, <1>2, <2>2, ReducedTyped, OldTickets DEF Close
  <1>3. ASSUME NEW t \in DOMAIN positions, NEW u \in DOMAIN positions, CloseBy(t, u)
        PROVE  BookOK' /\ Gone
    <2>1. positions[t] \in Position /\ positions[u] \in Position /\ t # u
      BY <1>0, <1>3 DEF CloseBy
    <2>2. positions[t].volume \in Volumes /\ positions[u].volume \in Volumes
      BY <2>1 DEF Position
    <2>3. PICK v \in Volumes :
            /\ v <= positions[t].volume /\ v <= positions[u].volume
            /\ positions' = Reduced(Reduced(positions, t, v), u, v)
            /\ balance' = balance + Pnl(positions[t], ExitPrice(positions[t]), v)
                                  + Pnl(positions[u], ExitPrice(positions[u]), v)
      BY <1>3, <2>2, PaperAssumption DEF CloseBy, Volumes
    <2>4. balance' \in Int
      <3>1. v \in Int
        BY PaperAssumption DEF Volumes
      <3>2. /\ Pnl(positions[t], ExitPrice(positions[t]), v) \in Int
            /\ Pnl(positions[u], ExitPrice(positions[u]), v) \in Int
        BY <2>1, <3>1, QuoteInt, PnlInt
      <3> QED BY <2>3, <3>2 DEF BookOK
    <2> DEFINE f == Reduced(positions, t, v)
    <2>5. /\ DOMAIN f \subseteq DOMAIN positions /\ f \in [DOMAIN f -> Position]
          /\ u \in DOMAIN f /\ f[u] = positions[u]
      BY <1>0, <2>1, <2>3, ReducedTyped
    <2>6. positions' = Reduced(f, u, v)
      BY <2>3
    <2> HIDE DEF f
    <2>7. DOMAIN positions' \subseteq DOMAIN f /\ positions' \in [DOMAIN positions' -> Position]
      BY <2>3, <2>5, <2>6, ReducedTyped
    <2> QED BY <1>0, <1>3, <2>4, <2>5, <2>7, OldTickets DEF CloseBy
  <1>4. ASSUME NEW t \in DOMAIN positions, NEW sl \in Levels, NEW tp \in Levels, ModifySltp(t, sl, tp)
        PROVE  BookOK' /\ Gone
    <2>1. positions' \in [DOMAIN positions -> Position]
      BY <1>0, <1>4 DEF ModifySltp, Position
    <2>2. DOMAIN positions' = DOMAIN positions
      BY <2>1
    <2> QED BY <1>0, <1>4, <2>1, <2>2, OldTickets DEF ModifySltp, BookOK
  <1>5. ASSUME NEW t \in DOMAIN orders, NEW price \in Prices, NEW sl \in Levels, NEW tp \in Levels,
               ModifyPending(t, price, sl, tp)
        PROVE  BookOK' /\ Gone
    <2>1. orders' \in [DOMAIN orders -> PendingOrder]
      BY <1>0, <1>5 DEF ModifyPending, PendingOrder
    <2>2. DOMAIN orders' = DOMAIN orders
      BY <2>1
    <2> QED BY <1>0, <1>5, <2>1, <2>2, OldTickets DEF ModifyPending, BookOK
  <1>6. ASSUME NEW s \in Symbols, NEW side \in Sides, NEW kind \in Kinds, NEW volume \in Volumes,
               NEW price \in Prices, NEW sl \in Levels, NEW tp \in Levels,
               PlacePending(s, side, kind, volume, price, sl, tp)
        PROVE  BookOK' /\ Gone
    <2> DEFINE x == [symbol |-> s, side |-> side, kind |-> kind, volume |-> volume,
                     price |-> price, sl |-> sl, tp |-> tp]
    <2>1. x \in PendingOrder
      BY <1>6 DEF PendingOrder
    <2>2. orders' = With(orders, nextTicket, x)
      BY <1>6 DEF PlacePending
    <2> HIDE DEF x
    <2> QED BY <1>6, <2>1, <2>2, NewTicket DEF PlacePending
  <1>7. ASSUME NEW t \in DOMAIN orders, RemovePending(t) PROVE BookOK' /\ Gone
    <2>1. orders' \in [DOMAIN orders \ {t} -> PendingOrder]
      BY <1>0, <1>7, WithoutTyped DEF RemovePending
    <2>2. DOMAIN orders' = DOMAIN orders \ {t}
      BY <2>1
    <2> QED BY <1>0, <1>7, <2>1, <2>2, OldTickets DEF RemovePending, BookOK
  <1> QED BY <1>1, <1>2, <1>3, <1>4, <1>5, <1>6, <1>7 DEF Request

LEMMA RequestQuiet ==
  ASSUME Request PROVE sweep = Idle /\ UNCHANGED <<mid, sweep>>
  BY DEF Request, Open, Close, CloseBy, ModifySltp, ModifyPending, PlacePending, RemovePending,
         CanIssue, Accepts, Quiet

LEMMA SweepFacts ==
  ASSUME SweepOK
  PROVE  /\ sweep.phase \in {"tick", "fill"} => sweep.todo \subseteq DOMAIN orders
         /\ sweep.phase = "levels" =>
              /\ sweep.todo \subseteq DOMAIN positions
              /\ sweep.symbol \in Symbols /\ sweep.low \in Prices /\ sweep.high \in Prices
  BY DEF SweepOK, Idle

\* The visits of a loop take a ticket off its list, whatever else they do.
LEMMA NextVisit ==
  ASSUME SweepOK, NEW t, sweep' = [sweep EXCEPT !.todo = sweep.todo \ {t}],
         sweep.phase \in {"tick", "fill"} => DOMAIN orders \ {t} \subseteq DOMAIN orders',
         sweep.phase = "levels" => DOMAIN positions \ {t} \subseteq DOMAIN positions',
         sweep.phase # "idle"
  PROVE  SweepOK' /\ sweep'.phase = sweep.phase
  <1>1. CASE sweep \in [phase : {"tick"}, todo : SUBSET DOMAIN orders]
    BY <1>1 DEF SweepOK
  <1>2. CASE sweep \in [phase : {"fill"}, symbol : Symbols, low : Prices, high : Prices,
                        todo : SUBSET DOMAIN orders]
    BY <1>2 DEF SweepOK
  <1>3. CASE sweep \in [phase : {"levels"}, symbol : Symbols, low : Prices, high : Prices,
                        todo : SUBSET DOMAIN positions]
    BY <1>3 DEF SweepOK
  <1> QED BY <1>1, <1>2, <1>3 DEF SweepOK, Idle

LEMMA StepTyped ==
  TypeOK /\ Next => TypeOK' /\ Gone
  <1> SUFFICES ASSUME TypeOK, Next PROVE TypeOK' /\ Gone
    OBVIOUS
  <1>0. /\ mid \in [Symbols -> Prices] /\ BookOK /\ SweepOK
        /\ positions \in [DOMAIN positions -> Position] /\ orders \in [DOMAIN orders -> PendingOrder]
    BY DEF TypeOK, BookOK
  <1>q. mid' \in [Symbols -> Prices] /\ BookOK' /\ SweepOK' => TypeOK'
    BY DEF TypeOK, BookOK
  <1>u. ASSUME UNCHANGED book PROVE BookOK' /\ Gone
    BY <1>0, <1>u, OldTickets DEF book, BookOK
  <1>1. CASE Request
    <2>1. SweepOK' /\ mid' \in [Symbols -> Prices]
      BY <1>0, <1>1, RequestQuiet DEF SweepOK
    <2> QED BY <1>0, <1>1, <1>q, <2>1, RequestTyped
  <1>2. ASSUME NEW S, ResolveTick(S) PROVE TypeOK' /\ Gone
    <2>1. sweep' = [phase |-> "tick", todo |-> OrdersOf(S)] /\ UNCHANGED <<mid, book>>
      BY <1>2 DEF ResolveTick
    <2>2. OrdersOf(S) \subseteq DOMAIN orders'
      BY <2>1 DEF OrdersOf, book
    <2>3. SweepOK'
      BY <2>1, <2>2 DEF SweepOK
    <2> QED BY <1>0, <1>q, <1>u, <2>1, <2>3
  <1>3. ASSUME NEW s \in Symbols, NEW low \in Prices, NEW high \in Prices, NEW close \in Prices,
               OnBar(s, low, high, close)
        PROVE  TypeOK' /\ Gone
    <2>1. /\ sweep' = [phase |-> "fill", symbol |-> s, low |-> low, high |-> high,
                       todo |-> OrdersOf({s})]
          /\ mid' \in [Symbols -> Prices] /\ UNCHANGED book
      BY <1>0, <1>3 DEF OnBar
    <2>2. OrdersOf({s}) \subseteq DOMAIN orders'
      BY <2>1 DEF OrdersOf, book
    <2>3. SweepOK'
      BY <2>1, <2>2 DEF SweepOK
    <2> QED BY <1>q, <1>u, <2>1, <2>3
  <1>4. ASSUME NEW s \in Symbols, NEW close \in Prices, SeedBars(s, close) PROVE TypeOK' /\ Gone
    <2>1. mid' \in [Symbols -> Prices] /\ UNCHANGED <<book, sweep>>
      BY <1>0, <1>4 DEF SeedBars
    <2>2. SweepOK'
      BY <1>0, <2>1 DEF SweepOK, book
    <2> QED BY <1>q, <1>u, <2>1, <2>2
  <1>5. CASE VisitOrder
    <2>1. PICK t \in sweep.todo :
            /\ sweep' = [sweep EXCEPT !.todo = sweep.todo \ {t}]
            /\ FillPending(t) \/ UNCHANGED <<orders, positions>>
      BY <1>5 DEF VisitOrder
    <2>2. t \in DOMAIN orders /\ sweep.phase \in {"tick", "fill"} /\ UNCHANGED <<mid, nextTicket, balance>>
      BY <1>0, <1>5, <2>1, SweepFacts DEF VisitOrder
    <2>3. CASE UNCHANGED <<orders, positions>>
      <3>1. SweepOK'
        BY <1>0, <2>1, <2>2, <2>3, NextVisit
      <3> QED BY <1>0, <1>q, <1>u, <2>2, <2>3, <3>1 DEF book
    <2>4. CASE FillPending(t)
      <3> DEFINE x == [symbol |-> orders[t].symbol, side |-> orders[t].side, volume |-> orders[t].volume,
                       open |-> orders[t].price, sl |-> orders[t].sl, tp |-> orders[t].tp]
      <3>1. x \in Position
        BY <1>0, <2>2, PaperAssumption DEF Position, PendingOrder
      <3>2. orders' = Without(orders, t) /\ positions' = With(positions, t, x)
        BY <2>4 DEF FillPending
      <3> HIDE DEF x
      <3>3. /\ orders' \in [DOMAIN orders \ {t} -> PendingOrder]
            /\ positions' \in [DOMAIN positions \cup {t} -> Position]
        BY <1>0, <3>1, <3>2, WithTyped, WithoutTyped
      <3>4. DOMAIN orders' = DOMAIN orders \ {t} /\ DOMAIN positions' = DOMAIN positions \cup {t}
        BY <3>3
      <3>5. BookOK' /\ Gone
        <4>1. nextTicket \in Nat
          BY <1>0, PaperAssumption DEF BookOK
        <4> QED BY <1>0, <2>2, <3>3, <3>4, <4>1 DEF BookOK, Gone
      <3>6. SweepOK'
        BY <1>0, <2>1, <2>2, <3>4, NextVisit
      <3> QED BY <1>0, <1>q, <2>2, <3>5, <3>6
    <2> QED BY <2>1, <2>3, <2>4
  <1>6. CASE EndOfFills
    <2>1. UNCHANGED <<mid, book>>
      BY <1>6 DEF EndOfFills
    <2>2. PositionsOf(sweep.symbol, positions) \subseteq DOMAIN positions
      BY DEF PositionsOf
    <2>3. SweepOK'
      <3>1. CASE sweep.phase = "tick"
        BY <1>6, <3>1 DEF EndOfFills, SweepOK
      <3>2. CASE sweep.phase # "tick"
        <4>1. sweep \in [phase : {"fill"}, symbol : Symbols, low : Prices, high : Prices,
                         todo : SUBSET DOMAIN orders]
          BY <1>0, <1>6, <3>2 DEF EndOfFills, SweepOK, Idle
        <4>2. sweep' \in [phase : {"levels"}, symbol : Symbols, low : Prices, high : Prices,
                          todo : SUBSET DOMAIN positions]
          BY <1>6, <2>2, <3>2, <4>1 DEF EndOfFills
        <4> QED BY <2>1, <4>2 DEF SweepOK, book
      <3> QED BY <3>1, <3>2
    <2> QED BY <1>0, <1>q, <1>u, <2>1, <2>3
  <1>7. CASE VisitPosition
    <2>1. PICK t \in sweep.todo :
            /\ sweep' = [sweep EXCEPT !.todo = sweep.todo \ {t}]
            /\ \/ UNCHANGED <<balance, positions>>
               \/ /\ balance' = balance + Pnl(positions[t], HitLevel(positions[t], sweep.low, sweep.high),
                                              positions[t].volume)
                  /\ positions' = Without(positions, t)
      BY <1>7 DEF VisitPosition
    <2>2. /\ sweep.phase = "levels" /\ t \in DOMAIN positions /\ sweep.low \in Prices
          /\ sweep.high \in Prices /\ UNCHANGED <<mid, orders, nextTicket>>
      BY <1>0, <1>7, <2>1, SweepFacts DEF VisitPosition
    <2>3. CASE UNCHANGED <<balance, positions>>
      <3>1. SweepOK'
        BY <1>0, <2>1, <2>2, <2>3, NextVisit
      <3> QED BY <1>0, <1>q, <1>u, <2>2, <2>3, <3>1 DEF book
    <2>4. CASE /\ balance' = balance + Pnl(positions[t], HitLevel(positions[t], sweep.low, sweep.high),
                                           positions[t].volume)
               /\ positions' = Without(positions, t)
      <3>1. positions[t] \in Position
        BY <1>0, <2>2
      <3>2. positions[t].sl \in Int /\ positions[t].tp \in Int /\ positions[t].volume \in Int
        <4>1. positions[t].sl \in Levels /\ positions[t].tp \in Levels /\ positions[t].volume \in Volumes
          BY <3>1 DEF Position
        <4> QED BY <4>1, Integral
      <3>3. HitLevel(positions[t], sweep.low, sweep.high) \in Int
        BY <3>2 DEF HitLevel
      <3>4. balance' \in Int
        BY <1>0, <2>4, <3>1, <3>2, <3>3, PnlInt DEF BookOK
      <3>5. positions' \in [DOMAIN positions \ {t} -> Position]
        BY <1>0, <2>4, WithoutTyped
      <3>6. DOMAIN positions' = DOMAIN positions \ {t}
        BY <3>5
      <3>7. BookOK' /\ Gone
        BY <1>0, <2>2, <3>4, <3>5, <3>6, OldTickets
      <3>8. SweepOK'
        BY <1>0, <2>1, <2>2, <3>6, NextVisit
      <3> QED BY <1>0, <1>q, <2>2, <3>7, <3>8
    <2> QED BY <2>1, <2>3, <2>4
  <1>8. CASE EndOfBar
    <2>1. UNCHANGED <<mid, book>> /\ SweepOK'
      BY <1>8 DEF EndOfBar, SweepOK
    <2> QED BY <1>0, <1>q, <1>u, <2>1
  <1> QED BY <1>1, <1>2, <1>3, <1>4, <1>5, <1>6, <1>7, <1>8 DEF Next, Market, Sweep

LEMMA InitTyped == Init => TypeOK
  <1> SUFFICES ASSUME Init PROVE TypeOK
    OBVIOUS
  <1>1. DOMAIN positions = {} /\ DOMAIN orders = {}
    BY DEF Init
  <1>2. positions \in [{} -> Position] /\ orders \in [{} -> PendingOrder]
    BY DEF Init
  <1>3. nextTicket \in 1..(MaxTickets + 1) /\ balance \in Int
    BY PaperAssumption DEF Init
  <1> QED BY <1>1, <1>2, <1>3 DEF Init, TypeOK, SweepOK

LEMMA TypeStep == TypeOK /\ [Next]_venue => TypeOK'
  <1>1. TypeOK /\ UNCHANGED venue => TypeOK'
    BY DEF venue, TypeOK, SweepOK
  <1> QED BY <1>1, StepTyped

\* Every reachable state of the book is type correct: a ticket in it was handed
\* out, and stands for an order or for a position, never for both.
THEOREM TypeCorrect == Spec => []TypeOK
  BY InitTyped, TypeStep, PTL DEF Spec

\* A ticket that left the book never comes back, and a position never turns
\* into a working order again.
THEOREM TicketsGoneForGood == Spec => GoneForGood
  <1>1. TypeOK /\ [Next]_venue =>
          [/\ nextTicket' >= nextTicket
           /\ \A t \in 1..(nextTicket - 1) :
                /\ t \notin DOMAIN orders => t \notin DOMAIN orders'
                /\ t \notin DOMAIN orders \cup DOMAIN positions => t \notin DOMAIN positions']_venue
    BY StepTyped DEF Gone
  <1> QED BY <1>1, TypeCorrect, PTL DEF Spec, GoneForGood

(***************************************************************************)
(* What a bar leaves behind                                                *)
(*                                                                         *)
(* The loop over the levels has left no level inside the range on any      *)
(* position it does not have to visit any more.                            *)
(***************************************************************************)
Cleared(s, f, low, high, todo) ==
  \A t \in PositionsOf(s, f) \ todo : ~StopHit(f[t], low, high) /\ ~TargetHit(f[t], low, high)

ClearInv ==
  sweep.phase = "levels" => Cleared(sweep.symbol, positions, sweep.low, sweep.high, sweep.todo)

LEMMA ClearStep ==
  TypeOK /\ ClearInv /\ [Next]_venue => ClearInv'
  <1> SUFFICES ASSUME TypeOK, ClearInv, [Next]_venue PROVE ClearInv'
    OBVIOUS
  <1>0. SweepOK
    BY DEF TypeOK
  <1>1. CASE UNCHANGED <<positions, sweep>>
    BY <1>1 DEF ClearInv, Cleared, PositionsOf
  <1>2. CASE sweep' = Idle
    BY <1>2 DEF ClearInv, Idle
  <1>3. CASE Request
    BY <1>2, <1>3, RequestQuiet
  <1>4. CASE Market
    <2>1. ASSUME NEW S, ResolveTick(S) PROVE ClearInv'
      <3>1. sweep'.phase = "tick"
        BY <2>1 DEF ResolveTick
      <3> QED BY <3>1 DEF ClearInv
    <2>2. ASSUME NEW s, NEW low, NEW high, NEW close, OnBar(s, low, high, close) PROVE ClearInv'
      <3>1. sweep'.phase = "fill"
        BY <2>2 DEF OnBar
      <3> QED BY <3>1 DEF ClearInv
    <2>3. ASSUME NEW s, NEW close, SeedBars(s, close) PROVE ClearInv'
      BY <1>1, <2>3 DEF SeedBars, book
    <2> QED BY <1>4, <2>1, <2>2, <2>3 DEF Market
  <1>5. CASE VisitOrder
    <2>1. sweep'.phase \in {"tick", "fill"}
      <3>1. PICK t : sweep' = [sweep EXCEPT !.todo = sweep.todo \ {t}]
        BY <1>5 DEF VisitOrder
      <3> QED BY <1>0, <1>5, <3>1 DEF VisitOrder, SweepOK, Idle
    <2> QED BY <2>1 DEF ClearInv
  <1>6. CASE EndOfFills
    <2>1. CASE sweep.phase = "tick"
      BY <1>2, <1>6, <2>1 DEF EndOfFills
    <2>2. CASE sweep.phase = "fill"
      <3>1. sweep \in [phase : {"fill"}, symbol : Symbols, low : Prices, high : Prices,
                       todo : SUBSET DOMAIN orders]
        BY <1>0, <2>2 DEF SweepOK, Idle
      <3>2. /\ sweep'.symbol = sweep.symbol /\ sweep'.todo = PositionsOf(sweep.symbol, positions)
            /\ positions' = positions
        BY <1>6, <2>2, <3>1 DEF EndOfFills, book
      <3>3. PositionsOf(sweep'.symbol, positions') \ sweep'.todo = {}
        BY <3>2
      <3> QED BY <3>3 DEF ClearInv, Cleared
    <2> QED BY <1>6, <2>1, <2>2 DEF EndOfFills
  <1>7. CASE VisitPosition
    <2>1. PICK t \in sweep.todo :
            /\ sweep' = [sweep EXCEPT !.todo = sweep.todo \ {t}]
            /\ IF HitLevel(positions[t], sweep.low, sweep.high) = 0
               THEN UNCHANGED <<balance, positions>>
               ELSE positions' = Without(positions, t)
      BY <1>7 DEF VisitPosition
    <2>2. sweep \in [phase : {"levels"}, symbol : Symbols, low : Prices, high : Prices,
                     todo : SUBSET DOMAIN positions]
      BY <1>0, <1>7 DEF SweepOK, Idle, VisitPosition
    <2>3. /\ sweep'.symbol = sweep.symbol /\ sweep'.low = sweep.low /\ sweep'.high = sweep.high
          /\ sweep'.todo = sweep.todo \ {t}
      BY <2>1, <2>2
    <2>4. t \in DOMAIN positions /\ positions \in [DOMAIN positions -> Position]
      BY <2>2 DEF TypeOK
    <2>5. Cleared(sweep.symbol, positions, sweep.low, sweep.high, sweep.todo)
      BY <2>2 DEF ClearInv
    <2>6. CASE HitLevel(positions[t], sweep.low, sweep.high) = 0
      <3>1. positions[t].sl \in Nat /\ positions[t].tp \in Nat
        BY <2>4, PaperAssumption DEF Position
      <3>2. ~StopHit(positions[t], sweep.low, sweep.high) /\ ~TargetHit(positions[t], sweep.low, sweep.high)
        BY <2>6, <3>1 DEF HitLevel, StopHit, TargetHit
      <3>3. positions' = positions
        BY <2>1, <2>6
      <3>4. Cleared(sweep.symbol, positions, sweep.low, sweep.high, sweep.todo \ {t})
        BY <2>5, <3>2 DEF Cleared
      <3> QED BY <2>3, <3>3, <3>4 DEF ClearInv, Cleared, PositionsOf
    <2>7. CASE HitLevel(positions[t], sweep.low, sweep.high) # 0
      <3>1. /\ DOMAIN positions' = DOMAIN positions \ {t}
            /\ \A u \in DOMAIN positions \ {t} : positions'[u] = positions[u]
        <4>1. positions' = Without(positions, t)
          BY <2>1, <2>7
        <4> QED BY <4>1, WithoutFacts, Zenon
      <3>2. Cleared(sweep.symbol, positions', sweep.low, sweep.high, sweep.todo \ {t})
        <4> SUFFICES ASSUME NEW u \in PositionsOf(sweep.symbol, positions') \ (sweep.todo \ {t})
                     PROVE  ~StopHit(positions'[u], sweep.low, sweep.high)
                            /\ ~TargetHit(positions'[u], sweep.low, sweep.high)
          BY DEF Cleared
        <4>1. u \in DOMAIN positions \ {t} /\ positions'[u] = positions[u]
          BY <3>1 DEF PositionsOf
        <4>2. u \in PositionsOf(sweep.symbol, positions) \ sweep.todo
          BY <4>1 DEF PositionsOf
        <4> QED BY <2>5, <4>1, <4>2 DEF Cleared
      <3> QED BY <2>3, <3>2 DEF ClearInv, Cleared, PositionsOf
    <2> QED BY <2>6, <2>7
  <1>8. CASE EndOfBar
    BY <1>2, <1>8 DEF EndOfBar
  <1>9. CASE UNCHANGED venue
    BY <1>1, <1>9 DEF venue
  <1> QED BY <1>3, <1>4, <1>5, <1>6, <1>7, <1>8, <1>9 DEF Next, Sweep

\* After a bar no position of its symbol, one filled by that bar included, is
\* left with a stop or a target inside the bar's range.
THEOREM BarLeavesNothingDue == Spec => BarClears
  <1>1. Init => TypeOK /\ ClearInv
    BY InitTyped DEF Init, ClearInv, Idle
  <1>2. TypeOK /\ ClearInv /\ [Next]_venue => (TypeOK /\ ClearInv)'
    BY TypeStep, ClearStep
  <1>3. TypeOK /\ ClearInv /\ [Next]_venue =>
          [(sweep.phase = "levels" /\ sweep' = Idle)
           => \A t \in PositionsOf(sweep.symbol, positions') :
                /\ ~StopHit(positions'[t], sweep.low, sweep.high)
                /\ ~TargetHit(positions'[t], sweep.low, sweep.high)]_venue
    <2> SUFFICES ASSUME TypeOK, ClearInv, Next, sweep.phase = "levels", sweep' = Idle
                 PROVE  \A t \in PositionsOf(sweep.symbol, positions') :
                          /\ ~StopHit(positions'[t], sweep.low, sweep.high)
                          /\ ~TargetHit(positions'[t], sweep.low, sweep.high)
      OBVIOUS
    <2>1. SweepOK
      BY DEF TypeOK
    <2>a. sweep # Idle /\ sweep.phase \notin {"tick", "fill"}
      BY DEF Idle
    <2>b. ~Request
      BY <2>a, RequestQuiet
    <2>c. ~Market
      BY <2>a DEF Market, ResolveTick, OnBar, SeedBars, Quiet
    <2>2. ~VisitOrder /\ ~EndOfFills
      BY <2>a DEF VisitOrder, EndOfFills
    <2>3. ~VisitPosition
      <3> SUFFICES ASSUME VisitPosition PROVE FALSE
        OBVIOUS
      <3>1. PICK t : sweep' = [sweep EXCEPT !.todo = sweep.todo \ {t}]
        BY DEF VisitPosition
      <3>2. sweep'.phase = "levels"
        BY <2>1, <3>1 DEF SweepOK, Idle
      <3> QED BY <3>2 DEF Idle
    <2>4. EndOfBar
      BY <2>2, <2>3, <2>b, <2>c DEF Next, Sweep
    <2>5. positions' = positions /\ sweep.todo = {}
      BY <2>4 DEF EndOfBar, book
    <2> QED BY <2>5 DEF ClearInv, Cleared
  <1> QED BY <1>1, <1>2, <1>3, PTL DEF Spec, BarClears

(***************************************************************************)
(* The equity                                                              *)
(***************************************************************************)
\* What each position of the book f would settle for now, and their sum.
FloatOf(f) == [t \in DOMAIN f |-> Pnl(f[t], ExitPrice(f[t]), f[t].volume)]
Floating(f) == Total(FloatOf(f), DOMAIN f)

\* The fold that Profit computes for a book f and mid prices m.
ExitAt(m, p) == IF p.side = "buy" THEN m[p.symbol] - HalfSpread ELSE m[p.symbol] + HalfSpread
ProfitFold(f, m, h) ==
  h = [s \in SUBSET DOMAIN f |->
         IF s = {} THEN 0
         ELSE Pnl(f[Pick(s)], ExitAt(m, f[Pick(s)]), f[Pick(s)].volume) + h[Rest(s)]]
ProfitOf(f, m) == (CHOOSE h : ProfitFold(f, m, h))[DOMAIN f]

LEMMA ProfitUnfolds ==
  Profit = ProfitOf(positions, mid) /\ Profit' = ProfitOf(positions', mid')
  <1>1. Profit = ProfitOf(positions, mid)
    BY DEF Profit, MapThenSumSet, MapThenFoldSet, Pick, Rest, ExitPrice, Bid, Ask,
           ProfitOf, ProfitFold, ExitAt
  <1>2. Profit' = ProfitOf(positions', mid')
    BY DEF Profit, MapThenSumSet, MapThenFoldSet, Pick, Rest, ExitPrice, Bid, Ask,
           ProfitOf, ProfitFold, ExitAt
  <1> QED BY <1>1, <1>2

LEMMA ProfitOfIsFloating ==
  ASSUME NEW f, IsFiniteSet(DOMAIN f), NEW m, m = mid
  PROVE  ProfitOf(f, m) = Floating(f)
  <1>1. \A h : ProfitFold(f, m, h) <=> IsFold(DOMAIN f, FloatOf(f), h)
    <2> SUFFICES ASSUME NEW h
                 PROVE  [s \in SUBSET DOMAIN f |->
                           IF s = {} THEN 0
                           ELSE Pnl(f[Pick(s)], ExitAt(m, f[Pick(s)]), f[Pick(s)].volume) + h[Rest(s)]]
                        = [s \in SUBSET DOMAIN f |->
                           IF s = {} THEN 0 ELSE FloatOf(f)[Pick(s)] + h[Rest(s)]]
      BY Zenon DEF IsFold, ProfitFold
    <2>1. \A s \in SUBSET DOMAIN f : s # {} => Pick(s) \in DOMAIN f
      BY PickFacts
    <2>2. \A t \in DOMAIN f : FloatOf(f)[t] = Pnl(f[t], ExitPrice(f[t]), f[t].volume)
      BY DEF FloatOf
    <2>3. \A p : ExitPrice(p) = ExitAt(m, p)
      BY DEF ExitPrice, ExitAt, Bid, Ask
    <2> QED BY <2>1, <2>2, <2>3
  <1>2. \E h : ProfitFold(f, m, h)
    BY <1>1, FoldExists
  <1> DEFINE H == CHOOSE h : ProfitFold(f, m, h)
  <1>3. ProfitFold(f, m, H)
    BY <1>2
  <1> HIDE DEF H
  <1>4. IsFold(DOMAIN f, FloatOf(f), H)
    BY <1>1, <1>3
  <1>5. H[DOMAIN f] = Total(FloatOf(f), DOMAIN f)
    BY <1>4, WholeFold
  <1> QED BY <1>5 DEF ProfitOf, Floating, H

\* The profit of the account is that sum, whichever order the book is added
\* up in, before a request and after it.
LEMMA ProfitIsFloating ==
  ASSUME IsFiniteSet(DOMAIN positions), IsFiniteSet(DOMAIN positions'), mid' = mid
  PROVE  Profit = Floating(positions) /\ Profit' = Floating(positions')
  BY ProfitUnfolds, ProfitOfIsFloating

LEMMA FloatInt ==
  ASSUME mid \in [Symbols -> Prices], NEW f, f \in [DOMAIN f -> Position], NEW t \in DOMAIN f
  PROVE  FloatOf(f)[t] = Pnl(f[t], ExitPrice(f[t]), f[t].volume) /\ FloatOf(f)[t] \in Int
  <1>1. FloatOf(f)[t] = Pnl(f[t], ExitPrice(f[t]), f[t].volume)
    BY DEF FloatOf
  <1>2. f[t] \in Position
    OBVIOUS
  <1>3. f[t].volume \in Int
    BY <1>2, Integral DEF Position
  <1> QED BY <1>1, <1>2, <1>3, QuoteInt, PnlInt

\* What is settled for a part and what is left floating add up.
LEMMA PnlSplits ==
  ASSUME NEW p \in Position, NEW q \in Position, NEW price \in Int, NEW v \in Int,
         q.side = p.side, q.open = p.open, q.volume = p.volume - v
  PROVE  Pnl(p, price, p.volume) = Pnl(p, price, v) + Pnl(q, price, q.volume)
  <1>1. \A a, b, w \in Int : a * b = a * w + a * (b - w)
    OBVIOUS
  <1>2. p.open \in Int /\ p.volume \in Int
    BY Integral DEF Position
  <1>3. price - p.open \in Int /\ p.open - price \in Int
    BY <1>2
  <1>4. (price - p.open) * p.volume = (price - p.open) * v + (price - p.open) * (p.volume - v)
    BY <1>1, <1>2, <1>3
  <1>5. (p.open - price) * p.volume = (p.open - price) * v + (p.open - price) * (p.volume - v)
    BY <1>1, <1>2, <1>3
  <1> QED BY <1>4, <1>5, Zenon DEF Pnl

LEMMA ReducedFloats ==
  ASSUME mid \in [Symbols -> Prices], NEW f, f \in [DOMAIN f -> Position], IsFiniteSet(DOMAIN f),
         NEW t \in DOMAIN f, NEW v \in Volumes, v <= f[t].volume
  PROVE  /\ Floating(f) = Pnl(f[t], ExitPrice(f[t]), v) + Floating(Reduced(f, t, v))
         /\ Floating(Reduced(f, t, v)) \in Int
         /\ Pnl(f[t], ExitPrice(f[t]), v) \in Int
         /\ IsFiniteSet(DOMAIN Reduced(f, t, v))
  <1> DEFINE D == DOMAIN f
             r == Reduced(f, t, v)
             left == Total(FloatOf(f), D \ {t})
             part == Pnl(f[t], ExitPrice(f[t]), v)
  <1>1. /\ DOMAIN r \subseteq D /\ r \in [DOMAIN r -> Position]
        /\ \A u \in D \ {t} : u \in DOMAIN r /\ r[u] = f[u]
    BY ReducedTyped
  <1>2. IsFiniteSet(DOMAIN r) /\ IsFiniteSet(D \ {t})
    BY <1>1, FS_Subset
  <1>3. /\ \A u \in D : FloatOf(f)[u] \in Int
        /\ \A u \in DOMAIN r : FloatOf(r)[u] \in Int
    BY <1>1, FloatInt
  <1>4. Total(FloatOf(f), D) = FloatOf(f)[t] + left
    BY <1>3, TotalSplits
  <1>5. \A u \in D \ {t} : FloatOf(r)[u] = FloatOf(f)[u]
    BY <1>1 DEF FloatOf
  <1>6. Total(FloatOf(r), D \ {t}) = left
    BY <1>2, <1>5, TotalAgrees
  <1>7. left \in Int
    BY <1>2, <1>3, TotalInt
  <1>8. Floating(r) \in Int
    BY <1>2, <1>3, TotalInt DEF Floating
  <1>9. f[t] \in Position /\ v \in Int
    BY Integral
  <1>10. part \in Int
    BY <1>9, QuoteInt, PnlInt
  <1>11. FloatOf(f)[t] = Pnl(f[t], ExitPrice(f[t]), f[t].volume)
    BY FloatInt
  <1>12. CASE f[t].volume = v
    <2>1. DOMAIN r = D \ {t}
      BY <1>12, WithoutFacts DEF Reduced
    <2>2. Floating(r) = left
      BY <1>6, <2>1 DEF Floating
    <2>3. FloatOf(f)[t] = part
      BY <1>11, <1>12
    <2> QED BY <1>2, <1>4, <1>8, <1>10, <2>2, <2>3 DEF Floating
  <1>13. CASE f[t].volume # v
    <2>1. r = [f EXCEPT ![t] = [f[t] EXCEPT !.volume = f[t].volume - v]]
      BY <1>13 DEF Reduced
    <2>2. DOMAIN r = D /\ t \in DOMAIN r
      BY <2>1
    <2>3. r[t] = [f[t] EXCEPT !.volume = f[t].volume - v]
      BY <2>1
    <2>4. /\ r[t].side = f[t].side /\ r[t].open = f[t].open /\ r[t].symbol = f[t].symbol
          /\ r[t].volume = f[t].volume - v
      BY <1>9, <2>3 DEF Position
    <2>5. r[t] \in Position
      BY <1>1, <2>2
    <2>6. ExitPrice(r[t]) = ExitPrice(f[t]) /\ ExitPrice(f[t]) \in Int
      BY <1>9, <2>4, QuoteInt DEF ExitPrice
    <2>7. FloatOf(r)[t] = Pnl(r[t], ExitPrice(f[t]), r[t].volume)
      BY <1>1, <2>2, <2>6, FloatInt
    <2>8. FloatOf(f)[t] = part + FloatOf(r)[t]
      BY <1>9, <1>11, <2>4, <2>5, <2>6, <2>7, PnlSplits
    <2>9. Total(FloatOf(r), D) = FloatOf(r)[t] + Total(FloatOf(r), D \ {t})
      BY <1>3, <2>2, TotalSplits
    <2>10. Floating(r) = FloatOf(r)[t] + left
      BY <1>6, <2>2, <2>9 DEF Floating
    <2>11. FloatOf(r)[t] \in Int
      BY <1>3, <2>2
    <2>12. Floating(f) = (part + FloatOf(r)[t]) + left
      BY <1>4, <2>8 DEF Floating
    <2> HIDE DEF r, left, part
    <2>13. (part + FloatOf(r)[t]) + left = part + (FloatOf(r)[t] + left)
      BY <1>7, <1>10, <2>11
    <2>14. Floating(f) = part + Floating(r)
      BY <2>10, <2>12, <2>13, Zenon
    <2> QED BY <1>2, <1>8, <1>10, <2>14 DEF r, part
  <1> QED BY <1>12, <1>13

\* A request that leaves every position what it is worth leaves the equity.
LEMMA EquityStep ==
  ASSUME TypeOK, [Next]_venue, mid' = mid, sweep' = sweep,
         DOMAIN positions' \subseteq DOMAIN positions
  PROVE  Equity' = Equity
  <1>1. mid \in [Symbols -> Prices] /\ balance \in Int /\ nextTicket \in Int
    BY PaperAssumption DEF TypeOK
  <1>2. positions \in [DOMAIN positions -> Position]
    BY DEF TypeOK
  <1>3. IsFiniteSet(DOMAIN positions)
    <2>1. IsFiniteSet(1..(nextTicket - 1))
      BY <1>1, FS_Interval
    <2>2. DOMAIN positions \in SUBSET (1..(nextTicket - 1))
      BY DEF TypeOK
    <2> QED BY <2>1, <2>2, FS_Subset
  <1>4. IsFiniteSet(DOMAIN positions')
    BY <1>3, FS_Subset
  <1>5. Equity = balance + Floating(positions) /\ Equity' = balance' + Floating(positions')
    BY <1>3, <1>4, ProfitIsFloating DEF Equity
  <1>6. CASE UNCHANGED <<positions, balance>>
    BY <1>5, <1>6
  <1>7. ASSUME NEW t \in DOMAIN positions, NEW volume \in Volumes, Close(t, volume)
        PROVE  Equity' = Equity
    <2> DEFINE part == Pnl(positions[t], ExitPrice(positions[t]), volume)
    <2>1. /\ positions' = Reduced(positions, t, volume) /\ balance' = balance + part
          /\ volume <= positions[t].volume
      BY <1>7 DEF Close
    <2>2. /\ Floating(positions) = part + Floating(positions')
          /\ part \in Int /\ Floating(positions') \in Int
      BY <1>1, <1>2, <1>3, <1>7, <2>1, ReducedFloats
    <2> HIDE DEF part
    <2>3. \A a, b, c \in Int : (a + b) + c = a + (b + c)
      OBVIOUS
    <2>4. (balance + part) + Floating(positions') = balance + (part + Floating(positions'))
      BY <1>1, <2>2, <2>3
    <2> QED BY <1>5, <2>1, <2>2, <2>4, Zenon
  <1>8. ASSUME NEW t \in DOMAIN positions, NEW u \in DOMAIN positions, CloseBy(t, u)
        PROVE  Equity' = Equity
    <2>1. positions[t] \in Position /\ positions[u] \in Position /\ t # u
      BY <1>2, <1>8 DEF CloseBy
    <2>2. positions[t].volume \in Volumes /\ positions[u].volume \in Volumes
      BY <2>1 DEF Position
    <2>3. PICK v \in Volumes :
            /\ v <= positions[t].volume /\ v <= positions[u].volume
            /\ positions' = Reduced(Reduced(positions, t, v), u, v)
            /\ balance' = balance + Pnl(positions[t], ExitPrice(positions[t]), v)
                                  + Pnl(positions[u], ExitPrice(positions[u]), v)
      BY <1>8, <2>2, PaperAssumption DEF CloseBy, Volumes
    <2> DEFINE f == Reduced(positions, t, v)
               first == Pnl(positions[t], ExitPrice(positions[t]), v)
               second == Pnl(positions[u], ExitPrice(positions[u]), v)
    <2>4. /\ f \in [DOMAIN f -> Position] /\ u \in DOMAIN f /\ f[u] = positions[u]
      BY <1>2, <1>8, <2>1, <2>3, ReducedTyped
    <2>5. /\ Floating(positions) = first + Floating(f)
          /\ IsFiniteSet(DOMAIN f) /\ first \in Int
      BY <1>1, <1>2, <1>3, <1>8, <2>3, ReducedFloats
    <2>6. positions' = Reduced(f, u, v) /\ balance' = (balance + first) + second
      BY <2>3
    <2> HIDE DEF f, first
    <2>7. /\ Floating(f) = second + Floating(positions')
          /\ second \in Int /\ Floating(positions') \in Int
      BY <1>1, <2>3, <2>4, <2>5, <2>6, ReducedFloats
    <2> HIDE DEF second
    <2>8. \A a, b, c, d \in Int : ((a + b) + c) + d = a + (b + (c + d))
      OBVIOUS
    <2>9. ((balance + first) + second) + Floating(positions')
            = balance + (first + (second + Floating(positions')))
      BY <1>1, <2>5, <2>7, <2>8
    <2> QED BY <1>5, <2>5, <2>6, <2>7, <2>9, Zenon
  <1>9. ASSUME NEW t \in DOMAIN positions, NEW sl \in Levels, NEW tp \in Levels, ModifySltp(t, sl, tp)
        PROVE  Equity' = Equity
    <2>1. positions' = [positions EXCEPT ![t] = [positions[t] EXCEPT !.sl = sl, !.tp = tp]] /\ balance' = balance
      BY <1>9 DEF ModifySltp
    <2>2. DOMAIN positions' = DOMAIN positions
      BY <2>1
    <2>3. \A x \in DOMAIN positions :
            /\ positions'[x].symbol = positions[x].symbol /\ positions'[x].side = positions[x].side
            /\ positions'[x].volume = positions[x].volume /\ positions'[x].open = positions[x].open
      BY <1>2, <2>1 DEF Position
    <2>4. \A x \in DOMAIN positions : FloatOf(positions')[x] = FloatOf(positions)[x]
      BY <2>2, <2>3 DEF FloatOf, ExitPrice, Pnl
    <2>5. Floating(positions') = Floating(positions)
      BY <1>3, <2>2, <2>4, TotalAgrees DEF Floating
    <2> QED BY <1>5, <2>1, <2>5
  <1>10. CASE Request
    <2>1. ASSUME NEW s \in Symbols, NEW side \in Sides, NEW volume \in Volumes, NEW sl \in Levels,
                 NEW tp \in Levels, Open(s, side, volume, sl, tp)
          PROVE  FALSE
      <3>0. PICK x : positions' = With(positions, nextTicket, x)
        BY <2>1 DEF Open
      <3>1. nextTicket \in DOMAIN positions'
        BY <3>0 DEF With
      <3>2. nextTicket \in 1..(nextTicket - 1)
        BY <3>1 DEF TypeOK
      <3> QED BY <1>1, <3>2
    <2>2. ASSUME NEW t \in DOMAIN orders, NEW price \in Prices, NEW sl \in Levels, NEW tp \in Levels,
                 ModifyPending(t, price, sl, tp)
          PROVE  Equity' = Equity
      BY <1>6, <2>2 DEF ModifyPending
    <2>3. ASSUME NEW s \in Symbols, NEW side \in Sides, NEW kind \in Kinds, NEW volume \in Volumes,
                 NEW price \in Prices, NEW sl \in Levels, NEW tp \in Levels,
                 PlacePending(s, side, kind, volume, price, sl, tp)
          PROVE  Equity' = Equity
      BY <1>6, <2>3 DEF PlacePending
    <2>4. ASSUME NEW t \in DOMAIN orders, RemovePending(t)
          PROVE  Equity' = Equity
      BY <1>6, <2>4 DEF RemovePending
    <2> QED BY <1>7, <1>8, <1>9, <1>10, <2>1, <2>2, <2>3, <2>4 DEF Request
  <1>11. CASE Market
    BY <1>6, <1>11 DEF Market, ResolveTick, OnBar, SeedBars, book
  <1>12. CASE Sweep
    <2>1. ASSUME NEW t \in sweep.todo, sweep' = [sweep EXCEPT !.todo = sweep.todo \ {t}]
          PROVE  FALSE
      <3>1. sweep'.todo = sweep.todo \ {t}
        BY <2>1 DEF TypeOK, SweepOK, Idle
      <3> QED BY <2>1, <3>1
    <2>2. ~VisitOrder
      BY <2>1 DEF VisitOrder
    <2>3. ~VisitPosition
      BY <2>1 DEF VisitPosition
    <2> QED BY <1>6, <1>12, <2>2, <2>3 DEF Sweep, EndOfFills, EndOfBar, book
  <1>13. CASE UNCHANGED venue
    BY <1>6, <1>13 DEF venue
  <1> QED BY <1>10, <1>11, <1>12, <1>13 DEF Next

\* Closing, part-closing, closing one position by another, cancelling and
\* modifying make and destroy no money: with the price unmoved and no new
\* position the equity is the same, for any number of positions.
THEOREM RequestsPreserveEquity == Spec => EquityPreserved
  <1>1. TypeOK /\ [Next]_venue =>
          [(mid' = mid /\ sweep' = sweep /\ DOMAIN positions' \subseteq DOMAIN positions)
           => Equity' = Equity]_venue
    BY EquityStep
  <1> QED BY <1>1, TypeCorrect, PTL DEF Spec, EquityPreserved
=============================================================================
