------------------------- MODULE PositionCareProofs -------------------------
(***************************************************************************)
(* Theorems about PositionCare, for any positions, prices, spreads and     *)
(* trail settings: its types, that a scale-out is carried out once, and    *)
(* that the manager never loosens a stop.                                  *)
(***************************************************************************)
EXTENDS PositionCare, TLAPS

(***************************************************************************)
(* Type correctness                                                        *)
(***************************************************************************)
Book == [Tickets -> Position \cup {Closed}]
Scales == [Tickets -> [volume : 1..MaxVolume, price : Prices] \cup {NoScale}]

\* What is open in f was open before, at the same entry.
Derived(f) ==
  \A x \in Tickets : f[x].volume > 0 => IsOpen(x) /\ f[x].open = position[x].open

LEMMA OpenTyped ==
  ASSUME position \in Book, NEW t \in Tickets
  PROVE  /\ IsOpen(t) => position[t] \in Position /\ position[t].volume \in 1..MaxVolume
         /\ ~IsOpen(t) => position[t] = Closed
         /\ position[t].volume \in Nat
  BY PositionCareAssumption DEF Book, IsOpen, Position, Closed

LEMMA SameDerived ==
  ASSUME UNCHANGED position PROVE Derived(position')
  BY DEF Derived, IsOpen

\* An entry of the book replaced by nothing, or by the same position with
\* another volume, stop or target.
LEMMA EntryTyped ==
  ASSUME position \in Book, NEW t \in Tickets, NEW q \in Position \cup {Closed},
         q # Closed => IsOpen(t) /\ q.open = position[t].open,
         position' = [position EXCEPT ![t] = q]
  PROVE  position' \in Book /\ Derived(position')
  <1>1. position' \in Book
    BY DEF Book
  <1>2. \A x \in Tickets : position'[x] = IF x = t THEN q ELSE position[x]
    BY DEF Book
  <1>3. Closed.volume = 0
    BY DEF Closed
  <1> QED BY <1>1, <1>2, <1>3 DEF Derived, IsOpen

LEMMA ShrunkEntry ==
  ASSUME position \in Book, NEW t \in Tickets, IsOpen(t),
         NEW v \in Nat, 0 < v, v <= position[t].volume
  PROVE  \E q \in Position \cup {Closed} :
           /\ Shrunk(t, v) = [position EXCEPT ![t] = q]
           /\ q # Closed => q.open = position[t].open
  <1>1. position[t] \in Position /\ position[t].volume \in 1..MaxVolume /\ MaxVolume \in Nat
    BY OpenTyped, PositionCareAssumption
  <1>2. CASE position[t].volume = v
    BY <1>2 DEF Shrunk
  <1>3. CASE position[t].volume # v
    <2> DEFINE q == [position[t] EXCEPT !.volume = position[t].volume - v]
    <2>1. position[t].volume - v \in 1..MaxVolume
      BY <1>1, <1>3
    <2>2. q \in Position /\ q.open = position[t].open
      BY <1>1, <2>1 DEF Position
    <2>3. Shrunk(t, v) = [position EXCEPT ![t] = q]
      BY <1>3 DEF Shrunk
    <2> HIDE DEF q
    <2> QED BY <2>2, <2>3
  <1> QED BY <1>2, <1>3

LEMMA ShrunkTyped ==
  ASSUME position \in Book, NEW t \in Tickets, IsOpen(t),
         NEW v \in Nat, 0 < v, v <= position[t].volume, position' = Shrunk(t, v)
  PROVE  position' \in Book /\ Derived(position')
  <1>1. PICK q \in Position \cup {Closed} :
          /\ position' = [position EXCEPT ![t] = q]
          /\ q # Closed => q.open = position[t].open
    BY ShrunkEntry
  <1> QED BY <1>1, EntryTyped

LEMMA ForgetTyped ==
  ASSUME scale \in Scales, NEW t \in Tickets, Forget(t)
  PROVE  scale' \in Scales /\ scale'[t] = NoScale /\ \A x \in Tickets \ {t} : scale'[x] = scale[x]
  BY DEF Scales, Forget

LEMMA AnsweredTyped ==
  ASSUME position \in Book, scale \in Scales, faults \in 0..MaxFaults,
         NEW t \in Tickets, NEW v \in Nat, 0 < v, CloseAnswered(t, v)
  PROVE  /\ position' \in Book /\ Derived(position') /\ scale' \in Scales /\ faults' \in 0..MaxFaults
         /\ UNCHANGED position \/ Forget(t)
         /\ UNCHANGED scale \/ Forget(t)
  <1>1. faults' \in 0..MaxFaults
    BY PositionCareAssumption DEF CloseAnswered, Fault, NoFault
  <1>2. CASE UNCHANGED <<position, scale>>
    BY <1>1, <1>2, SameDerived DEF Book, Scales
  <1>3. CASE IsOpen(t) /\ v <= position[t].volume /\ position' = Shrunk(t, v) /\ Forget(t)
    BY <1>1, <1>3, ShrunkTyped, ForgetTyped
  <1>4. ASSUME IsOpen(t), v <= position[t].volume, Forget(t),
               NEW part \in 1..(v - 1), position' = Shrunk(t, part)
        PROVE  position' \in Book /\ Derived(position')
    <2>1. part \in Nat /\ 0 < part /\ part <= position[t].volume
      BY <1>4, OpenTyped
    <2> QED BY <1>4, <2>1, ShrunkTyped
  <1> QED BY <1>1, <1>2, <1>3, <1>4, ForgetTyped DEF CloseAnswered

LEMMA LostTyped ==
  ASSUME position \in Book, faults \in 0..MaxFaults, lost \subseteq Tickets,
         NEW t \in Tickets, NEW v \in Nat, 0 < v, CloseLost(t, v)
  PROVE  /\ position' \in Book /\ Derived(position') /\ UNCHANGED scale /\ faults' \in 0..MaxFaults
         /\ lost' = lost \cup {t} /\ lost' \subseteq Tickets
  <1>1. faults' \in 0..MaxFaults
    BY PositionCareAssumption DEF CloseLost, Fault
  <1>2. CASE UNCHANGED position
    BY <1>1, <1>2, SameDerived DEF CloseLost, Book
  <1>3. CASE IsOpen(t) /\ v <= position[t].volume /\ position' = Shrunk(t, v)
    BY <1>1, <1>3, ShrunkTyped DEF CloseLost
  <1> QED BY <1>2, <1>3 DEF CloseLost

LEMMA ModifyTyped ==
  ASSUME position \in Book, faults \in 0..MaxFaults,
         NEW t \in Tickets, IsOpen(t), NEW sl \in Int, NEW tp \in Int, Modify(t, sl, tp)
  PROVE  position' \in Book /\ Derived(position') /\ faults' \in 0..MaxFaults
  <1>1. faults' \in 0..MaxFaults
    BY PositionCareAssumption DEF Modify, Fault, NoFault
  <1>2. CASE UNCHANGED position
    BY <1>1, <1>2, SameDerived DEF Book
  <1>3. CASE position' = [position EXCEPT ![t].sl = sl, ![t].tp = tp]
    <2> DEFINE q == [position[t] EXCEPT !.sl = sl, !.tp = tp]
    <2>1. position[t] \in Position
      BY OpenTyped
    <2>2. q \in Position /\ q.open = position[t].open
      BY <2>1 DEF Position
    <2>3. position' = [position EXCEPT ![t] = q]
      BY <1>3
    <2> HIDE DEF q
    <2> QED BY <1>1, <2>2, <2>3, EntryTyped
  <1> QED BY <1>2, <1>3 DEF Modify

LEMMA Quotes ==
  /\ \A x \in Prices : x \in Int /\ x > 0
  /\ HalfSpread \in Int /\ TrailDistance \in Int /\ TrailDistance > 0
  BY PositionCareAssumption

\* What the manager makes of a stop is a level on the favourable side of it.
LEMMA ManagedFacts ==
  ASSUME price \in Prices, NEW p \in Position
  PROVE  /\ Managed(p) \in Int
         /\ Buys(p) => Managed(p) >= p.sl
         /\ ~Buys(p) /\ p.sl > 0 => Managed(p) <= p.sl /\ (p.open > 0 => Managed(p) > 0)
  <1>1. /\ price \in Int /\ price > 0 /\ TrailDistance \in Int /\ TrailDistance > 0
        /\ p.sl \in Int /\ p.open \in Int
    BY Quotes DEF Position
  <1> DEFINE c == Candidate(p)
             even == IF Gains(p, BreakevenHalves) THEN Tighter(p, p.sl, p.open) ELSE p.sl
  <1>2. c \in Int /\ (~Buys(p) => c > 0)
    BY <1>1 DEF Candidate
  <1>3. /\ even \in Int
        /\ Buys(p) => even >= p.sl
        /\ ~Buys(p) => even <= p.sl /\ (p.open > 0 /\ p.sl > 0 => even > 0)
    BY <1>1 DEF Tighter
  <1>4. /\ Tighter(p, even, c) \in Int
        /\ Buys(p) => Tighter(p, even, c) >= p.sl
        /\ ~Buys(p) => /\ Tighter(p, even, c) <= p.sl
                       /\ p.open > 0 /\ p.sl > 0 => Tighter(p, even, c) > 0
    <2> HIDE DEF even, c
    <2> QED BY <1>1, <1>2, <1>3 DEF Tighter
  <1>5. Managed(p) \in {p.sl, even, Tighter(p, even, c)}
    BY DEF Managed
  <1> HIDE DEF even, c
  <1> QED BY <1>1, <1>3, <1>4, <1>5

Typed ==
  /\ price \in Prices /\ position \in Book /\ scale \in Scales
  /\ halted \in BOOLEAN /\ pc \in {"idle", "stops", "manage", "sweep"} /\ todo \subseteq Tickets
  /\ taken \in [Tickets -> Nat] /\ lost \subseteq Tickets
  /\ faults \in 0..MaxFaults /\ commands \in 0..MaxCommands

(***************************************************************************)
(* How often a scale-out is carried out                                    *)
(*                                                                         *)
(* While every answer arrives, a scale-out that was carried out is no      *)
(* longer armed.                                                           *)
(***************************************************************************)
OnceInv == \A t \in Tickets : t \notin lost => taken[t] = 0 \/ (taken[t] = 1 /\ scale[t] = NoScale)

\* A step that carries out no scale-out.
LEMMA NotTaken ==
  ASSUME Typed, OnceInv, UNCHANGED taken, lost \subseteq lost',
         \A t \in Tickets : scale'[t] \in {scale[t], NoScale}
  PROVE  OnceInv'
  BY DEF OnceInv

\* A read that raises changes nothing but where the thread is.
LEMMA RaisesStep ==
  ASSUME Typed, OnceInv, Raises, UNCHANGED <<price, halted, commands>>
  PROVE  Typed' /\ OnceInv' /\ Derived(position')
  <1>1. UNCHANGED <<position, scale, taken, lost>> /\ pc' = "idle" /\ todo' = {}
    BY DEF Raises
  <1>2. faults' \in 0..MaxFaults
    BY PositionCareAssumption DEF Raises, Fault, Typed
  <1> QED BY <1>1, <1>2, SameDerived DEF Typed, Book, Scales, OnceInv

LEMMA CheckStopStep ==
  ASSUME Typed, OnceInv, NEW t \in Tickets, CheckStop(t)
  PROVE  Typed' /\ OnceInv' /\ Derived(position')
  <1>0. UNCHANGED <<price, halted, commands>> /\ pc' \in {"idle", "stops"} /\ todo' \subseteq todo
    BY DEF CheckStop, Raises
  <1>1. CASE ~Raises /\ (~IsOpen(t) \/ CloseDue(t) = 0)
    <2>1. UNCHANGED <<position, scale, taken, lost, faults>>
      BY <1>1 DEF CheckStop, book, NoFault
    <2> QED BY <1>0, <2>1, SameDerived DEF Typed, Book, Scales, OnceInv
  <1>2. CASE ~Raises /\ IsOpen(t) /\ CloseDue(t) # 0
    <2> DEFINE v == CloseDue(t)
    <2>1. position \in Book /\ scale \in Scales /\ faults \in 0..MaxFaults /\ lost \subseteq Tickets
          /\ taken \in [Tickets -> Nat]
      BY DEF Typed
    <2>2. position[t].volume \in Nat /\ scale[t].volume \in Nat /\ NoScale.volume = 0
      BY <2>1, OpenTyped DEF Scales, NoScale
    <2>3. v \in Nat /\ 0 < v
      BY <1>2, <2>2 DEF CloseDue
    <2> HIDE DEF v
    <2>4. Count(t, Scaling(t)) /\ ((CloseAnswered(t, v) /\ UNCHANGED lost) \/ CloseLost(t, v))
      BY <1>2 DEF CheckStop, v
    <2>5. taken' = taken \/ (Scaling(t) /\ position' # position /\ taken' = [taken EXCEPT ![t] = taken[t] + 1])
      BY <2>4 DEF Count
    <2>6. taken' \in [Tickets -> Nat]
      BY <2>1, <2>5
    <2>7. CASE CloseAnswered(t, v) /\ UNCHANGED lost
      <3>1. /\ position' \in Book /\ Derived(position') /\ scale' \in Scales /\ faults' \in 0..MaxFaults
            /\ UNCHANGED position \/ Forget(t)
            /\ UNCHANGED scale \/ Forget(t)
        BY <2>1, <2>3, <2>7, AnsweredTyped
      <3>2. OnceInv'
        <4>1. CASE taken' = taken
          BY <2>1, <2>7, <3>1, <4>1, ForgetTyped DEF OnceInv
        <4>2. CASE taken' # taken
          <5>1. /\ taken' = [taken EXCEPT ![t] = taken[t] + 1] /\ Forget(t)
                /\ scale[t] # NoScale
            BY <2>2, <2>5, <3>1, <4>2 DEF Scaling, ScaleHit
          <5>2. /\ taken'[t] = taken[t] + 1 /\ \A x \in Tickets \ {t} : taken'[x] = taken[x]
                /\ scale'[t] = NoScale /\ \A x \in Tickets \ {t} : scale'[x] = scale[x]
            BY <2>1, <5>1, ForgetTyped
          <5>3. t \notin lost => taken[t] = 0
            BY <5>1 DEF OnceInv
          <5> QED BY <2>7, <5>2, <5>3 DEF OnceInv
        <4> QED BY <4>1, <4>2
      <3> QED BY <1>0, <2>6, <2>7, <3>1, <3>2 DEF Typed
    <2>8. CASE CloseLost(t, v)
      <3>1. /\ position' \in Book /\ Derived(position') /\ UNCHANGED scale /\ faults' \in 0..MaxFaults
            /\ lost' = lost \cup {t} /\ lost' \subseteq Tickets
        BY <2>1, <2>3, <2>8, LostTyped
      <3>2. \A x \in Tickets \ {t} : taken'[x] = taken[x]
        BY <2>1, <2>5
      <3>3. OnceInv'
        BY <3>1, <3>2 DEF OnceInv
      <3> QED BY <1>0, <2>1, <2>6, <3>1, <3>3 DEF Typed
    <2> QED BY <2>4, <2>7, <2>8
  <1>3. CASE Raises
    BY <1>0, <1>3, RaisesStep
  <1> QED BY <1>1, <1>2, <1>3

LEMMA TickStep ==
  ASSUME Typed, OnceInv, Tick
  PROVE  Typed' /\ OnceInv' /\ Derived(position')
  <1>1. CASE ~Raises /\ (BeginStops \/ BeginManage \/ EndTick)
    <2>1. UNCHANGED <<price, position, scale, taken, lost, halted, faults, commands>>
      BY <1>1 DEF BeginStops, BeginManage, EndTick, book, NoFault
    <2>2. pc' \in {"idle", "stops", "manage"} /\ todo' \subseteq Tickets
      BY <1>1 DEF BeginStops, BeginManage, EndTick, OpenTickets, Typed
    <2> QED BY <2>1, <2>2, SameDerived DEF Typed, Book, Scales, OnceInv
  <1>3. CASE Raises /\ (BeginStops \/ BeginManage \/ EndTick)
    <2>1. UNCHANGED <<price, halted, commands>>
      BY <1>3 DEF BeginStops, BeginManage, EndTick, book
    <2> QED BY <1>3, <2>1, RaisesStep
  <1>2. ASSUME NEW t \in Tickets, Manage(t) PROVE Typed' /\ OnceInv' /\ Derived(position')
    <2>1. UNCHANGED <<price, scale, taken, lost, halted, commands>> /\ pc' \in {"idle", "manage"} /\ todo' \subseteq todo
      BY <1>2 DEF Manage, Raises
    <2>2. position' \in Book /\ Derived(position') /\ faults' \in 0..MaxFaults
      <3>1. CASE UNCHANGED position
        BY <1>2, <3>1, SameDerived, PositionCareAssumption DEF Manage, Modify, Raises, Fault, NoFault, Typed, Book
      <3>2. CASE IsOpen(t) /\ Modify(t, Managed(position[t]), position[t].tp)
        <4>1. position[t] \in Position /\ position[t].tp \in Int
          BY <3>2, OpenTyped DEF Position, Typed
        <4>2. Managed(position[t]) \in Int
          BY <4>1, ManagedFacts DEF Typed
        <4> QED BY <3>2, <4>1, <4>2, ModifyTyped DEF Typed
      <3> QED BY <1>2, <3>1, <3>2 DEF Manage, Raises
    <2> QED BY <2>1, <2>2 DEF Typed, OnceInv
  <1> QED BY <1>1, <1>2, <1>3, CheckStopStep DEF Tick

LEMMA SpendTyped ==
  ASSUME Typed, Spend PROVE commands' \in 0..MaxCommands /\ pc = "idle"
  BY PositionCareAssumption DEF Typed, Spend

LEMMA SweepStep ==
  ASSUME Typed, OnceInv, Sweep
  PROVE  Typed' /\ OnceInv' /\ Derived(position')
  <1>1. CASE BeginSweep
    <2>1. UNCHANGED <<price, position, scale, taken, lost, halted>> /\ pc' = "sweep"
      BY <1>1 DEF BeginSweep, book
    <2>2. todo' \subseteq Tickets
      BY <1>1 DEF BeginSweep, OpenTickets
    <2>3. faults' \in 0..MaxFaults
      BY <1>1, PositionCareAssumption DEF BeginSweep, Fault, NoFault, Typed
    <2>4. commands' \in 0..MaxCommands
      BY <1>1, SpendTyped DEF BeginSweep, Typed
    <2> QED BY <2>1, <2>2, <2>3, <2>4, SameDerived DEF Typed, Book, Scales, OnceInv
  <1>2. ASSUME NEW t \in Tickets, SweepOne(t) PROVE Typed' /\ OnceInv' /\ Derived(position')
    <2> DEFINE v == position[t].volume
    <2>0. UNCHANGED <<price, taken, halted, pc, commands>> /\ todo' \subseteq Tickets
      BY <1>2 DEF SweepOne, Typed
    <2>1. CASE ~IsOpen(t)
      <3>1. UNCHANGED <<position, scale, lost, faults>>
        BY <1>2, <2>1 DEF SweepOne, NoFault
      <3> QED BY <2>0, <3>1, SameDerived DEF Typed, Book, Scales, OnceInv
    <2>2. CASE IsOpen(t)
      <3>1. v \in Nat /\ 0 < v
        BY <2>2, OpenTyped DEF Typed, IsOpen
      <3> HIDE DEF v
      <3>2. (CloseAnswered(t, v) /\ UNCHANGED lost) \/ CloseLost(t, v)
        BY <1>2, <2>2 DEF SweepOne, v
      <3>3. CASE CloseAnswered(t, v) /\ UNCHANGED lost
        <4>1. /\ position' \in Book /\ Derived(position') /\ scale' \in Scales /\ faults' \in 0..MaxFaults
              /\ UNCHANGED scale \/ Forget(t)
          BY <3>1, <3>3, AnsweredTyped DEF Typed
        <4>2. \A x \in Tickets : scale'[x] \in {scale[x], NoScale}
          BY <4>1, ForgetTyped DEF Typed
        <4> QED BY <2>0, <3>3, <4>1, <4>2, NotTaken DEF Typed
      <3>4. CASE CloseLost(t, v)
        <4>1. /\ position' \in Book /\ Derived(position') /\ UNCHANGED scale /\ faults' \in 0..MaxFaults
              /\ lost' = lost \cup {t} /\ lost' \subseteq Tickets
          BY <3>1, <3>4, LostTyped DEF Typed
        <4> QED BY <2>0, <4>1, NotTaken DEF Typed
      <3> QED BY <3>2, <3>3, <3>4
    <2> QED BY <2>1, <2>2
  <1>3. CASE EndSweep
    <2>1. /\ UNCHANGED <<price, position, taken, lost, todo, faults, commands>>
          /\ halted' = TRUE /\ pc' = "idle" /\ scale' = [t \in Tickets |-> NoScale]
      BY <1>3 DEF EndSweep
    <2>2. scale' \in Scales /\ \A t \in Tickets : scale'[t] = NoScale
      BY <2>1 DEF Scales
    <2>3. OnceInv'
      BY <2>1, <2>2, NotTaken
    <2> QED BY <2>1, <2>2, <2>3, SameDerived DEF Typed, Book
  <1> QED BY <1>1, <1>2, <1>3 DEF Sweep

LEMMA CommandFrame ==
  ASSUME Typed, NEW t \in Tickets, Command(t)
  PROVE  /\ IsOpen(t) /\ UNCHANGED <<price, halted, pc, todo>> /\ commands' \in 0..MaxCommands
         /\ position[t] \in Position /\ position[t].volume \in 1..MaxVolume
         /\ position[t].sl \in Int /\ position[t].tp \in Int /\ position[t].open \in Int
  <1>1. IsOpen(t) /\ UNCHANGED <<price, halted, pc, todo>> /\ Spend
    BY DEF Command
  <1>2. commands' \in 0..MaxCommands
    BY <1>1, SpendTyped
  <1>3. position[t] \in Position /\ position[t].volume \in 1..MaxVolume
    BY <1>1, OpenTyped DEF Typed
  <1> QED BY <1>1, <1>2, <1>3 DEF Position

\* A command that moves a level and arms nothing.
LEMMA LevelStep ==
  ASSUME Typed, OnceInv, NEW t \in Tickets, Command(t), NEW sl \in Int, NEW tp \in Int,
         Modify(t, sl, tp), UNCHANGED <<scale, taken, lost>>
  PROVE  Typed' /\ OnceInv' /\ Derived(position')
  <1>1. position' \in Book /\ Derived(position') /\ faults' \in 0..MaxFaults
    BY CommandFrame, ModifyTyped DEF Typed
  <1> QED BY <1>1, CommandFrame DEF Typed, OnceInv

LEMMA ScaleOutStep ==
  ASSUME Typed, OnceInv, NEW t \in Tickets, NEW level \in Prices, NEW v \in 1..MaxVolume,
         SetScaleOut(t, level, v)
  PROVE  Typed' /\ OnceInv' /\ Derived(position')
  <1>0. Command(t) /\ UNCHANGED lost
    BY DEF SetScaleOut
  <1>1. CASE v = position[t].volume
    <2>1. Modify(t, position[t].sl, level) /\ UNCHANGED <<scale, taken>> /\ level \in Int
      BY <1>1, Quotes DEF SetScaleOut
    <2> QED BY <1>0, <2>1, CommandFrame, LevelStep
  <1>2. CASE v # position[t].volume
    <2> DEFINE s == [volume |-> v, price |-> level]
    <2>1. /\ scale' = [scale EXCEPT ![t] = s] /\ taken' = [taken EXCEPT ![t] = 0]
          /\ UNCHANGED <<position, faults>>
      BY <1>2 DEF SetScaleOut, NoFault
    <2>2. s \in [volume : 1..MaxVolume, price : Prices]
      OBVIOUS
    <2> HIDE DEF s
    <2>3. scale' \in Scales /\ taken' \in [Tickets -> Nat]
      BY <2>1, <2>2 DEF Typed, Scales
    <2>4. \A x \in Tickets : taken'[x] = 0 \/ (x # t /\ taken'[x] = taken[x] /\ scale'[x] = scale[x])
      BY <2>1 DEF Typed, Scales
    <2>5. OnceInv'
      BY <1>0, <2>4 DEF OnceInv
    <2> QED BY <1>0, <2>1, <2>3, <2>5, CommandFrame, SameDerived DEF Typed
  <1> QED BY <1>1, <1>2

LEMMA CloseTicketStep ==
  ASSUME Typed, OnceInv, NEW t \in Tickets, NEW v \in 1..MaxVolume, CloseTicket(t, v)
  PROVE  Typed' /\ OnceInv' /\ Derived(position')
  <1>0. Command(t) /\ UNCHANGED taken /\ v \in Nat /\ 0 < v
    BY DEF CloseTicket
  <1>1. CASE CloseAnswered(t, v) /\ UNCHANGED lost
    <2>1. /\ position' \in Book /\ Derived(position') /\ scale' \in Scales /\ faults' \in 0..MaxFaults
          /\ UNCHANGED scale \/ Forget(t)
      BY <1>0, <1>1, AnsweredTyped DEF Typed
    <2>2. \A x \in Tickets : scale'[x] \in {scale[x], NoScale}
      BY <2>1, ForgetTyped DEF Typed
    <2> QED BY <1>0, <1>1, <2>1, <2>2, NotTaken, CommandFrame DEF Typed
  <1>2. CASE CloseLost(t, v)
    <2>1. /\ position' \in Book /\ Derived(position') /\ UNCHANGED scale /\ faults' \in 0..MaxFaults
          /\ lost' = lost \cup {t} /\ lost' \subseteq Tickets
      BY <1>0, <1>2, LostTyped DEF Typed
    <2> QED BY <1>0, <2>1, NotTaken, CommandFrame DEF Typed
  <1> QED BY <1>1, <1>2 DEF CloseTicket

LEMMA CloseByStep ==
  ASSUME Typed, OnceInv, NEW t \in Tickets, NEW u \in Tickets, CloseBy(t, u)
  PROVE  Typed' /\ OnceInv' /\ Derived(position')
  <1>0. Command(t) /\ IsOpen(u) /\ IsOpen(t) /\ UNCHANGED <<taken, lost>>
    BY DEF CloseBy, Command
  <1>1. position[t].volume \in 1..MaxVolume /\ position[u].volume \in 1..MaxVolume
    BY <1>0, OpenTyped DEF Typed
  <1>2. faults' \in 0..MaxFaults
    BY PositionCareAssumption DEF CloseBy, Fault, NoFault, Typed
  <1>3. CASE UNCHANGED <<position, scale>>
    BY <1>0, <1>2, <1>3, SameDerived, NotTaken, CommandFrame DEF Typed
  <1>4. CASE ~UNCHANGED <<position, scale>>
    <2>1. PICK v \in 1..MaxVolume :
            /\ v <= position[t].volume /\ v <= position[u].volume
            /\ position' = [x \in Tickets |-> IF x \in {t, u} THEN Shrunk(x, v)[x] ELSE position[x]]
            /\ scale' = [x \in Tickets |-> IF x \in {t, u} /\ position[x].volume - v = 0
                                           THEN NoScale ELSE scale[x]]
      BY <1>1, <1>4 DEF CloseBy
    <2>2. ASSUME NEW x \in {t, u}
          PROVE  /\ Shrunk(x, v)[x] \in Position \cup {Closed}
                 /\ Shrunk(x, v)[x] # Closed => Shrunk(x, v)[x].open = position[x].open
      <3>1. x \in Tickets /\ IsOpen(x) /\ v \in Nat /\ 0 < v /\ v <= position[x].volume
            /\ position \in Book
        BY <1>0, <2>1 DEF Typed
      <3>2. PICK q \in Position \cup {Closed} :
              /\ Shrunk(x, v) = [position EXCEPT ![x] = q]
              /\ q # Closed => q.open = position[x].open
        BY <3>1, ShrunkEntry
      <3>3. Shrunk(x, v)[x] = q
        BY <3>1, <3>2 DEF Book
      <3> QED BY <3>2, <3>3
    <2>3. position' \in Book
      BY <2>1, <2>2 DEF Book, Typed
    <2>4. Derived(position')
      <3>1. Closed.volume = 0
        BY DEF Closed
      <3>2. \A x \in Tickets : position'[x] = IF x \in {t, u} THEN Shrunk(x, v)[x] ELSE position[x]
        BY <2>1
      <3> QED BY <1>0, <2>2, <3>1, <3>2 DEF Derived, IsOpen
    <2>5. scale' \in Scales /\ \A x \in Tickets : scale'[x] \in {scale[x], NoScale}
      BY <2>1 DEF Scales, Typed
    <2> QED BY <1>0, <1>2, <2>3, <2>4, <2>5, NotTaken, CommandFrame DEF Typed
  <1> QED BY <1>3, <1>4

LEMMA ChatStep ==
  ASSUME Typed, OnceInv, Chat
  PROVE  Typed' /\ OnceInv' /\ Derived(position')
  <1>1. ASSUME NEW t \in Tickets, NEW level \in Prices, SetSl(t, level) \/ SetTp(t, level)
        PROVE  Typed' /\ OnceInv' /\ Derived(position')
    BY <1>1, Quotes, CommandFrame, LevelStep DEF SetSl, SetTp, Moves
  <1>2. ASSUME NEW t \in Tickets, Breakeven(t) PROVE Typed' /\ OnceInv' /\ Derived(position')
    BY <1>2, CommandFrame, LevelStep DEF Breakeven, Moves
  <1>3. ASSUME NEW t \in Tickets, TrailOnce(t) PROVE Typed' /\ OnceInv' /\ Derived(position')
    <2>1. position[t] \in Position /\ Command(t)
      BY <1>3, CommandFrame DEF TrailOnce
    <2>2. Managed(position[t]) \in Int
      BY <2>1, ManagedFacts DEF Typed
    <2> QED BY <1>3, <2>2, CommandFrame, LevelStep DEF TrailOnce, Moves
  <1>4. CASE Resume
    <2>1. UNCHANGED <<price, position, scale, taken, lost, pc, todo, faults>> /\ halted' = FALSE
      BY <1>4 DEF Resume, book
    <2>2. commands' \in 0..MaxCommands
      BY <1>4, SpendTyped DEF Resume
    <2> QED BY <2>1, <2>2, SameDerived DEF Typed, Book, Scales, OnceInv
  <1> QED BY <1>1, <1>2, <1>3, <1>4, ScaleOutStep, CloseTicketStep, CloseByStep DEF Chat

LEMMA NextStep ==
  ASSUME Typed, OnceInv, [Next]_vars
  PROVE  Typed' /\ OnceInv' /\ Derived(position')
  <1>1. CASE MarketMoves
    <2>1. UNCHANGED <<position, scale, taken, lost, halted, pc, todo, faults, commands>> /\ price' \in Prices
      BY <1>1 DEF MarketMoves, book
    <2> QED BY <2>1, SameDerived DEF Typed, Book, Scales, OnceInv
  <1>2. ASSUME NEW t \in Tickets, VenueCloses(t) PROVE Typed' /\ OnceInv' /\ Derived(position')
    <2>1. /\ position' = [position EXCEPT ![t] = Closed]
          /\ UNCHANGED <<price, scale, taken, lost, halted, pc, todo, faults, commands>>
      BY <1>2 DEF VenueCloses
    <2>2. position' \in Book /\ Derived(position')
      BY <2>1, EntryTyped DEF Typed
    <2> QED BY <2>1, <2>2 DEF Typed, Scales, OnceInv
  <1>3. CASE UNCHANGED vars
    BY <1>3, SameDerived DEF vars, book, Typed, Book, Scales, OnceInv
  <1> QED BY <1>1, <1>2, <1>3, TickStep, SweepStep, ChatStep DEF Next

LEMMA InitTyped == Init => Typed /\ OnceInv
  <1> SUFFICES ASSUME Init PROVE Typed /\ OnceInv
    OBVIOUS
  <1>1. position \in Book
    BY PositionCareAssumption DEF Init, Book
  <1>2. scale \in Scales /\ taken \in [Tickets -> Nat]
    BY DEF Init, Scales
  <1>3. faults \in 0..MaxFaults /\ commands \in 0..MaxCommands
    BY PositionCareAssumption DEF Init
  <1>4. \A t \in Tickets : taken[t] = 0
    BY DEF Init
  <1> QED BY <1>1, <1>2, <1>3, <1>4 DEF Init, Typed, OnceInv

LEMMA TypeAlways == Spec => [](Typed /\ OnceInv)
  BY InitTyped, NextStep, PTL DEF Spec

\* Every reachable state of the care of positions is type correct.
THEOREM TypeCorrect == Spec => []TypeOK
  <1>1. Typed => TypeOK
    BY DEF Typed, TypeOK, Book, Scales
  <1> QED BY <1>1, TypeAlways, PTL

\* A scale-out is carried out once, save when the answer to it is lost.
THEOREM ScaleOutOnce == Spec => []ScaleOnce
  <1>1. Typed /\ OnceInv => ScaleOnce
    BY DEF Typed, OnceInv, ScaleOnce
  <1> QED BY <1>1, TypeAlways, PTL

(***************************************************************************)
(* The direction a stop moves in                                           *)
(*                                                                         *)
(* Entry prices are positive, which the venue guarantees; then a stop of a *)
(* short moved to the entry is still a stop.                               *)
(***************************************************************************)
EntryInv == \A t \in Tickets : IsOpen(t) => position[t].open > 0

\* The manager, /be and /trail never move a stop away from the price.
THEOREM StopsOnlyTighten ==
  ASSUME \A b \in Books : \A t \in Tickets : b[t].volume > 0 => b[t].open > 0
  PROVE  Spec => NeverLoosens
  <1>1. Init => Typed /\ OnceInv /\ EntryInv
    BY InitTyped DEF Init, EntryInv, IsOpen
  <1>2. Typed /\ OnceInv /\ EntryInv /\ [Next]_vars => (Typed /\ OnceInv /\ EntryInv)'
    BY NextStep DEF EntryInv, Derived, IsOpen
  <1>3. ASSUME Typed, EntryInv, NEW t \in Tickets, IsOpen(t), Manage(t) \/ Breakeven(t) \/ TrailOnce(t)
        PROVE  LET p == position[t]
                   q == position'[t]
               IN IF Buys(p) THEN q.sl >= p.sl ELSE p.sl > 0 => q.sl > 0 /\ q.sl <= p.sl
    <2> DEFINE p == position[t]
    <2>1. p \in Position /\ p.open > 0 /\ p.sl \in Int /\ p.open \in Int /\ price \in Prices
      BY <1>3, OpenTyped DEF Typed, EntryInv, Position
    <2>2. ASSUME NEW sl \in Int, Modify(t, sl, p.tp)
          PROVE  position'[t].sl \in {p.sl, sl}
      <3>1. CASE UNCHANGED position
        BY <3>1
      <3>2. CASE position' = [position EXCEPT ![t].sl = sl, ![t].tp = p.tp]
        <4>1. position \in Book
          BY <1>3 DEF Typed
        <4>2. position'[t] = [p EXCEPT !.sl = sl, !.tp = p.tp]
          BY <3>2, <4>1 DEF Book
        <4>3. [p EXCEPT !.sl = sl, !.tp = p.tp].sl = sl
          BY <2>1 DEF Position
        <4> QED BY <4>2, <4>3
      <3> QED BY <2>2, <3>1, <3>2 DEF Modify
    <2>3. CASE UNCHANGED position
      BY <2>1, <2>3
    <2>4. CASE Modify(t, Managed(p), p.tp)
      BY <2>1, <2>2, <2>4, ManagedFacts
    <2>5. CASE Breakeven(t)
      <3>1. Modify(t, p.open, p.tp) /\ (p.sl > 0 => IF Buys(p) THEN p.sl < p.open ELSE p.sl > p.open)
        BY <2>5 DEF Breakeven
      <3>2. position'[t].sl \in {p.sl, p.open}
        BY <2>1, <2>2, <3>1
      <3> QED BY <2>1, <3>1, <3>2
    <2> QED BY <1>3, <2>3, <2>4, <2>5 DEF Manage, Raises, TrailOnce
  <1>4. Typed /\ EntryInv =>
          [\A t \in Tickets :
             IsOpen(t) /\ (Manage(t) \/ Breakeven(t) \/ TrailOnce(t)) =>
               LET p == position[t]
                   q == position'[t]
               IN IF Buys(p) THEN q.sl >= p.sl ELSE p.sl > 0 => q.sl > 0 /\ q.sl <= p.sl]_vars
    BY <1>3
  <1> QED BY <1>1, <1>2, <1>4, PTL DEF Spec, NeverLoosens

(***************************************************************************)
(* What a look at a position that is due leads to                          *)
(*                                                                         *)
(* A tick that comes to a position at its stop or target closes it, or     *)
(* closes the part that was armed and disarms it, or a call fails: of the  *)
(* last two there are no more than faults and armed scale-outs, which is   *)
(* why the exit is taken in the end.                                       *)
(***************************************************************************)
LookCounts(t) ==
  CheckStop(t) /\ ExitDue(t) =>
    \/ position'[t] = Closed
    \/ scale[t] # NoScale /\ scale'[t] = NoScale
    \/ faults' < faults

EveryLookCounts == [][\A t \in Tickets : LookCounts(t)]_vars

THEOREM EveryDueExitAdvances == Spec => EveryLookCounts
  <1>1. ASSUME Typed, NEW t \in Tickets, CheckStop(t), ExitDue(t)
        PROVE  \/ position'[t] = Closed
               \/ scale[t] # NoScale /\ scale'[t] = NoScale
               \/ faults' < faults
    <2> DEFINE v == CloseDue(t)
    <2>1. position \in Book /\ scale \in Scales /\ faults \in Nat
      BY <1>1, PositionCareAssumption DEF Typed
    <2>2. position[t].volume \in Nat /\ position[t].volume > 0 /\ scale[t].volume \in Nat
          /\ scale[t].volume <= position[t].volume
      BY <1>1, <2>1, OpenTyped DEF Scales, NoScale, ExitDue, ScaleFits, IsOpen
    <2>3. /\ v \in Nat /\ 0 < v /\ v <= position[t].volume
          /\ v = position[t].volume \/ (scale[t].volume > 0 /\ v = scale[t].volume)
      BY <1>1, <2>2 DEF CloseDue, ExitDue, ScaleHit
    <2> HIDE DEF v
    <2>4. Raises \/ (IsOpen(t) /\ (CloseAnswered(t, v) \/ CloseLost(t, v)))
      BY <1>1, <2>3 DEF CheckStop, ExitDue, v
    <2>5. Fault => faults' < faults
      BY <2>1 DEF Fault
    <2>6. CASE position' = Shrunk(t, v) /\ Forget(t)
      <3>1. CASE v = position[t].volume
        BY <2>1, <2>6, <3>1 DEF Shrunk, Book
      <3>2. CASE scale[t].volume > 0
        BY <2>1, <2>6, <3>2, ForgetTyped DEF NoScale
      <3> QED BY <2>3, <3>1, <3>2
    <2> QED BY <2>3, <2>4, <2>5, <2>6 DEF CloseAnswered, CloseLost, Raises
  <1>2. Typed /\ [Next]_vars => [\A t \in Tickets : LookCounts(t)]_vars
    BY <1>1 DEF LookCounts
  <1> QED BY <1>2, TypeAlways, PTL DEF Spec, EveryLookCounts
=============================================================================
