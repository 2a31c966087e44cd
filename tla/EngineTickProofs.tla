-------------------------- MODULE EngineTickProofs --------------------------
(***************************************************************************)
(* Theorems about EngineTick, for any set of tickets and any bounds: its   *)
(* types, what a sweep reports, what the engine takes for known and how    *)
(* often it recaps a day.                                                  *)
(***************************************************************************)
EXTENDS EngineTick, TLAPS

(***************************************************************************)
(* Type correctness                                                        *)
(***************************************************************************)
LEMMA SweepSet ==
  ASSUME NEW s \in Sweep, NEW T \in SUBSET Tickets
  PROVE  /\ [s EXCEPT !.cancelled = s.cancelled \cup T] \in Sweep
         /\ [s EXCEPT !.confirmed = s.confirmed \cup T] \in Sweep
         /\ [s EXCEPT !.residual = s.residual \cup T] \in Sweep
         /\ [s EXCEPT !.slipped = s.slipped \cup T] \in Sweep
         /\ [s EXCEPT !.readable = FALSE] \in Sweep
  BY DEF Sweep

LEMMA OrdersSet ==
  ASSUME NEW s \in Sweep, NEW T \in SUBSET Tickets PROVE [s EXCEPT !.orders = T] \in Sweep
  BY DEF Sweep

LEMMA PositionsSet ==
  ASSUME NEW s \in Sweep, NEW T \in SUBSET Tickets PROVE [s EXCEPT !.positions = T] \in Sweep
  BY DEF Sweep

LEMMA OpenSet ==
  ASSUME NEW s \in Sweep, NEW T \in SUBSET Tickets PROVE [s EXCEPT !.openAfter = T] \in Sweep
  BY DEF Sweep

LEMMA WorkingSet ==
  ASSUME NEW s \in Sweep, NEW T \in SUBSET Tickets PROVE [s EXCEPT !.workingAfter = T] \in Sweep
  BY DEF Sweep

LEMMA NoSweepTyped == NoSweep \in Sweep
  BY DEF Sweep, NoSweep

LEMMA InitTyped == Init => TypeOK
  <1> SUFFICES ASSUME Init PROVE TypeOK
    OBVIOUS
  <1>1. status \in [Tickets -> Statuses]
    BY DEF Init, Statuses
  <1>2. sweep \in Sweep
    BY NoSweepTyped DEF Init
  <1>3. seen \subseteq Tickets /\ told \subseteq Tickets
    BY DEF Init, In
  <1>4. pc \in Steps /\ returnTo \in {"poll", "auto"}
    BY DEF Init, Steps
  <1>5. /\ day \in 1..MaxDays /\ snapDay \in Nat /\ recaps \in Nat /\ redates \in Nat
        /\ faults \in 0..MaxFaults /\ outages \in 0..MaxOutages /\ commands \in 0..MaxCommands
    BY EngineTickAssumption DEF Init
  <1>6. /\ journal \in {"ok", "dead"} /\ circuit \in {"clear", "file", "equity"} /\ halted \in BOOLEAN
        /\ opened \subseteq Tickets /\ closed \subseteq Tickets /\ todo \subseteq Tickets
        /\ found \subseteq Tickets
    BY DEF Init
  <1> QED
    BY <1>1, <1>2, <1>3, <1>4, <1>5, <1>6 DEF TypeOK

LEMMA VenueTyped ==
  TypeOK /\ Environment => TypeOK'
  <1> SUFFICES ASSUME TypeOK, Environment PROVE TypeOK'
    OBVIOUS
  <1> USE EngineTickAssumption DEF TypeOK, desk, risk, venue, history, bounds
  <1>1. ASSUME NEW t \in Tickets, Fill(t) PROVE TypeOK'
    <2>1. sweep' \in Sweep
      BY <1>1 DEF Fill, Sweep
    <2> QED BY <1>1, <2>1 DEF Fill, Becomes, Statuses
  <1>2. ASSUME NEW t \in Tickets, Leave(t) PROVE TypeOK'
    BY <1>2 DEF Leave, Becomes, Statuses
  <1>3. CASE NextDay
    BY <1>3 DEF NextDay
  <1>4. CASE JournalDies
    BY <1>4 DEF JournalDies
  <1>5. CASE JournalBack
    BY <1>5 DEF JournalBack
  <1> QED BY <1>1, <1>2, <1>3, <1>4, <1>5 DEF Environment

LEMMA ChatTyped ==
  TypeOK /\ Chat => TypeOK'
  <1> SUFFICES ASSUME TypeOK, Chat PROVE TypeOK'
    OBVIOUS
  <1> USE EngineTickAssumption
      DEF TypeOK, desk, risk, venue, history, bounds, Statuses, Becomes, Command, Spend, SpendFault,
          Unchanging, Observed, At, Records, Raise, Writable, Steps, SweepSteps
  <1>1. ASSUME NEW t \in Tickets, DeskOpen(t) PROVE TypeOK'
    BY <1>1 DEF DeskOpen, DeskEntry, Opens, OpenLost
  <1>2. ASSUME NEW t \in Tickets, DeskPlace(t) PROVE TypeOK'
    BY <1>2 DEF DeskPlace, DeskEntry
  <1>3. ASSUME NEW t \in Tickets, DeskClose(t) PROVE TypeOK'
    BY <1>3 DEF DeskClose, CloseAnswers, Answered, CloseLost
  <1>4. ASSUME NEW t \in Tickets, DeskCancel(t) PROVE TypeOK'
    BY <1>4 DEF DeskCancel
  <1>5. ASSUME NEW t \in Tickets, NEW u \in Tickets, DeskCloseBy(t, u) PROVE TypeOK'
    BY <1>5 DEF DeskCloseBy
  <1>6. CASE DeskPreview
    BY <1>6 DEF DeskPreview
  <1>7. CASE DeskHalt
    BY <1>7 DEF DeskHalt
  <1>8. CASE DeskResume
    <2>1. circuit' \in {"clear", "file", "equity"} /\ halted' \in BOOLEAN
      BY <1>8 DEF DeskResume
    <2> QED BY <1>8, <2>1 DEF DeskResume
  <1> QED BY <1>1, <1>2, <1>3, <1>4, <1>5, <1>6, <1>7, <1>8 DEF Chat

LEMMA TickTyped ==
  TypeOK /\ Tick => TypeOK'
  <1> SUFFICES ASSUME TypeOK, Tick PROVE TypeOK'
    OBVIOUS
  <1> USE EngineTickAssumption
      DEF TypeOK, desk, risk, venue, history, bounds, Statuses, Becomes, Fault, NoFault, In,
          Unchanging, Observed, At, Records, Raise, Writable, Steps, TickSteps, SweepSteps, Trips
  <1>1. CASE BeginTick
    BY <1>1 DEF BeginTick
  <1>2. CASE Recap
    BY <1>2 DEF Recap
  <1>3. CASE Gate
    BY <1>3 DEF Gate
  <1>4. CASE ReadStops
    BY <1>4 DEF ReadStops
  <1>5. CASE StopsDone
    BY <1>5 DEF StopsDone
  <1>6. ASSUME NEW d \in BarDay, Act(d) PROVE TypeOK'
    <2>1. snapDay' \in Nat /\ redates' \in Nat
      BY <1>6 DEF Act, BarDay
    <2> QED BY <1>6, <2>1 DEF Act, Opens, OpenLost
  <1>7. CASE AutoDone
    BY <1>7 DEF AutoDone
  <1>8. CASE DetectFills
    BY <1>8 DEF DetectFills
  <1>9. CASE Remember
    BY <1>9 DEF Remember
  <1>10. ASSUME NEW t \in Tickets, CheckStop(t) PROVE TypeOK'
    BY <1>10 DEF CheckStop, CloseAnswers, Answered, CloseLost
  <1>11. ASSUME NEW t \in Tickets, Announce(t) PROVE TypeOK'
    BY <1>11 DEF Announce
  <1> QED BY <1>1, <1>2, <1>3, <1>4, <1>5, <1>6, <1>7, <1>8, <1>9, <1>10, <1>11 DEF Tick

LEMMA FlattenTyped ==
  TypeOK /\ Flatten => TypeOK'
  <1> SUFFICES ASSUME TypeOK, Flatten PROVE TypeOK'
    OBVIOUS
  <1>s. sweep \in Sweep
    BY DEF TypeOK
  <1> USE EngineTickAssumption, NoSweepTyped
      DEF TypeOK, desk, risk, venue, history, bounds, Statuses, Becomes, Fault, NoFault, In,
          Unchanging, At, Records, Writable, Steps, TickSteps, SweepSteps, Aborted, Unreadable
  <1>1. CASE ReadOrders
    <2>0. PICK T \in SUBSET Tickets :
            \/ sweep' = [sweep EXCEPT !.orders = T]
            \/ sweep' = [sweep EXCEPT !.readable = FALSE]
            \/ sweep' \in {sweep, NoSweep}
      BY <1>1 DEF ReadOrders
    <2>1. sweep' \in Sweep
      BY <1>s, <2>0, SweepSet, OrdersSet, Zenon
    <2>2. todo' \subseteq Tickets
      BY <1>1 DEF ReadOrders
    <2> QED BY <1>1, <2>1, <2>2 DEF ReadOrders
  <1>2. CASE CancelDone
    BY <1>2 DEF CancelDone
  <1>3. CASE ReadPositions
    <2>0. PICK T \in SUBSET Tickets :
            \/ sweep' = [sweep EXCEPT !.positions = T]
            \/ sweep' = [sweep EXCEPT !.readable = FALSE]
            \/ sweep' \in {sweep, NoSweep}
      BY <1>3 DEF ReadPositions
    <2>1. sweep' \in Sweep
      BY <1>s, <2>0, SweepSet, PositionsSet, Zenon
    <2>2. todo' \subseteq Tickets
      BY <1>3 DEF ReadPositions
    <2> QED BY <1>3, <2>1, <2>2 DEF ReadPositions
  <1>4. CASE CloseDone
    BY <1>4 DEF CloseDone
  <1>5. CASE VerifyOpen
    <2>0. PICK T \in SUBSET Tickets :
            \/ sweep' = [sweep EXCEPT !.openAfter = T]
            \/ sweep' = [sweep EXCEPT !.readable = FALSE]
            \/ sweep' \in {sweep, NoSweep}
      BY <1>5 DEF VerifyOpen
    <2>1. sweep' \in Sweep
      BY <1>s, <2>0, SweepSet, OpenSet, Zenon
    <2> QED BY <1>5, <2>1 DEF VerifyOpen
  <1>6. CASE VerifyWorking
    <2>0. PICK T \in SUBSET Tickets :
            \/ sweep' = [sweep EXCEPT !.workingAfter = T]
            \/ sweep' = [sweep EXCEPT !.readable = FALSE]
            \/ sweep' \in {sweep, NoSweep}
      BY <1>6 DEF VerifyWorking
    <2>1. sweep' \in Sweep
      BY <1>s, <2>0, SweepSet, WorkingSet, Zenon
    <2>2. seen' \subseteq Tickets
      BY <1>6, <2>1 DEF VerifyWorking, Sweep
    <2> QED BY <1>6, <2>1, <2>2 DEF VerifyWorking
  <1>7. CASE Report
    BY <1>7 DEF Report
  <1>8. ASSUME NEW t \in Tickets, Cancel(t) PROVE TypeOK'
    <2>0. PICK T \in SUBSET Tickets :
            \/ sweep' = [sweep EXCEPT !.cancelled = sweep.cancelled \cup T]
            \/ sweep' = [sweep EXCEPT !.readable = FALSE]
            \/ sweep' \in {sweep, NoSweep}
      BY <1>8 DEF Cancel
    <2>1. sweep' \in Sweep
      BY <1>s, <2>0, SweepSet, Zenon
    <2>2. status' \in [Tickets -> Statuses] /\ todo' \subseteq Tickets /\ pc' \in Steps
      BY <1>8 DEF Cancel
    <2> QED BY <1>8, <2>1, <2>2 DEF Cancel
  <1>9. ASSUME NEW t \in Tickets, CloseOne(t) PROVE TypeOK'
    <2>0. PICK T \in SUBSET Tickets :
            \/ sweep' = [sweep EXCEPT !.confirmed = sweep.confirmed \cup T]
            \/ sweep' = [sweep EXCEPT !.residual = sweep.residual \cup T]
            \/ sweep' = [sweep EXCEPT !.readable = FALSE]
            \/ sweep' \in {sweep, NoSweep}
      BY <1>9 DEF CloseOne
    <2>1. sweep' \in Sweep
      BY <1>s, <2>0, SweepSet, Zenon
    <2>2. status' \in [Tickets -> Statuses] /\ todo' \subseteq Tickets /\ pc' \in Steps
      BY <1>9 DEF CloseOne, Answered, CloseLost
    <2>3. closed' \subseteq Tickets /\ UNCHANGED <<halted, seen, opened, history>>
      BY <1>9 DEF CloseOne, Answered, CloseLost
    <2> QED BY <1>9, <2>1, <2>2, <2>3 DEF CloseOne
  <1> QED BY <1>1, <1>2, <1>3, <1>4, <1>5, <1>6, <1>7, <1>8, <1>9 DEF Flatten

LEMMA TypeStep == TypeOK /\ [Next]_vars => TypeOK'
  <1> SUFFICES ASSUME TypeOK, [Next]_vars PROVE TypeOK'
    OBVIOUS
  <1>1. CASE UNCHANGED vars
    BY <1>1 DEF vars, venue, risk, desk, history, bounds, TypeOK
  <1> QED BY <1>1, VenueTyped, ChatTyped, TickTyped, FlattenTyped DEF Next

\* Every reachable state of the tick is type correct.
THEOREM TypeCorrect == Spec => []TypeOK
  BY InitTyped, TypeStep, PTL DEF Spec

(***************************************************************************)
(* What a sweep reports                                                    *)
(*                                                                         *)
(* The two reads that close a sweep are two calls, so what is open between *)
(* them is what the first returned and what has filled since.              *)
(***************************************************************************)
VerifyInv ==
  /\ pc = "verifyWorking" /\ sweep.readable =>
       \A t \in Tickets : status[t] = "open" => t \in sweep.openAfter \cup sweep.slipped
  /\ pc = "report" /\ sweep.readable =>
       \A t \in Tickets : status[t] \in {"working", "open"} =>
         t \in sweep.openAfter \cup sweep.workingAfter \cup sweep.slipped

\* Only the last three steps of a sweep lead to the steps it speaks of.
LEMMA ReachVerify ==
  ASSUME TypeOK, Chat \/ Tick \/ Flatten, ~VerifyOpen, ~VerifyWorking
  PROVE  pc' \notin {"verifyWorking", "report"}
  <1> USE DEF TypeOK, At, Records, Raise, Command, Aborted, Unreadable, Trips
  <1>1. CASE Chat
    <2>1. pc = "poll" /\ (pc' = pc \/ pc' \in {"poll", "orders"})
      BY <1>1
      DEF Chat, DeskOpen, DeskPlace, DeskClose, DeskCancel, DeskCloseBy, DeskPreview, DeskHalt,
          DeskResume, DeskEntry, Opens, OpenLost, Unchanging
    <2> QED BY <2>1
  <1>2. CASE Tick
    <2>1. pc' \in {"poll", "recap", "gate", "stops", "stopping", "auto", "detect", "announce",
                   "orders"}
      BY <1>2
      DEF Tick, BeginTick, Recap, Gate, ReadStops, StopsDone, Act, AutoDone, DetectFills, Remember,
          CheckStop, Announce, Opens, OpenLost
    <2> QED BY <2>1
  <1>3. CASE Flatten
    <2>1. pc' \in {"poll", "auto", "cancel", "positions", "close", "verifyOpen"}
      BY <1>3 DEF Flatten, ReadOrders, CancelDone, ReadPositions, CloseDone, Report, Cancel, CloseOne
    <2> QED BY <2>1
  <1> QED BY <1>1, <1>2, <1>3

LEMMA VerifyStep ==
  TypeOK /\ VerifyInv /\ [Next]_vars => VerifyInv'
  <1> SUFFICES ASSUME TypeOK, VerifyInv, [Next]_vars PROVE VerifyInv'
    OBVIOUS
  <1>s. sweep \in Sweep /\ status \in [Tickets -> Statuses]
    BY DEF TypeOK
  <1>1. CASE UNCHANGED vars
    BY <1>1 DEF VerifyInv, vars, venue
  <1>2. CASE Environment
    <2>1. ASSUME NEW t \in Tickets, Fill(t) PROVE VerifyInv'
      BY <1>s, <2>1 DEF VerifyInv, Fill, Becomes, Sweep
    <2>2. ASSUME NEW t \in Tickets, Leave(t) PROVE VerifyInv'
      BY <1>s, <2>2 DEF VerifyInv, Leave, Becomes
    <2>3. CASE NextDay \/ JournalDies \/ JournalBack
      BY <2>3 DEF VerifyInv, NextDay, JournalDies, JournalBack, venue
    <2> QED BY <1>2, <2>1, <2>2, <2>3 DEF Environment
  <1>3. CASE VerifyOpen
    <2>1. CASE sweep' = [sweep EXCEPT !.openAfter = In("open")] /\ pc' = "verifyWorking"
      BY <1>s, <1>3, <2>1 DEF VerifyInv, VerifyOpen, In, venue, Sweep
    <2>2. CASE sweep' = [sweep EXCEPT !.readable = FALSE]
      BY <1>s, <2>2 DEF VerifyInv, Sweep
    <2>3. CASE pc' = "poll"
      BY <2>3 DEF VerifyInv
    <2> QED BY <1>3, <2>1, <2>2, <2>3 DEF VerifyOpen, Unreadable, Aborted
  <1>4. CASE VerifyWorking
    <2>1. CASE sweep' = [sweep EXCEPT !.workingAfter = In("working")] /\ pc' = "report"
      BY <1>s, <1>4, <2>1 DEF VerifyInv, VerifyWorking, In, At, venue, Sweep
    <2>2. CASE sweep' = [sweep EXCEPT !.readable = FALSE]
      BY <1>s, <2>2 DEF VerifyInv, Sweep
    <2>3. CASE pc' = "poll"
      BY <2>3 DEF VerifyInv
    <2> QED BY <1>4, <2>1, <2>2, <2>3 DEF VerifyWorking, Unreadable, Aborted
  <1>5. CASE (Chat \/ Tick \/ Flatten) /\ ~VerifyOpen /\ ~VerifyWorking
    BY <1>5, ReachVerify DEF VerifyInv
  <1> QED BY <1>1, <1>2, <1>3, <1>4, <1>5 DEF Next

LEMMA VerifyAlways == Spec => [](TypeOK /\ VerifyInv)
  <1>1. Init => TypeOK /\ VerifyInv
    BY InitTyped DEF Init, VerifyInv
  <1>2. TypeOK /\ VerifyInv /\ [Next]_vars => (TypeOK /\ VerifyInv)'
    BY TypeStep, VerifyStep
  <1> QED BY <1>1, <1>2, PTL DEF Spec

\* Whatever fails in a sweep, its report names every ticket it has read that
\* is still in the book, save an order that filled between its last two reads.
THEOREM ReportsEverything == Spec => []ReportCovers
  <1>1. TypeOK /\ VerifyInv => ReportCovers
    BY DEF TypeOK, VerifyInv, ReportCovers, At, Live, In, Survivors, OrderSurvivors
  <1> QED BY <1>1, VerifyAlways, PTL

\* A sweep that calls itself complete leaves no exposure but an order that
\* filled between its last two reads.
THEOREM CompleteSweep ==
  Spec => [](pc = "report" /\ Complete(sweep) => Live \subseteq sweep.slipped)
  <1>1. TypeOK /\ VerifyInv => (pc = "report" /\ Complete(sweep) => Live \subseteq sweep.slipped)
    BY DEF TypeOK, VerifyInv, Complete, Live, In, Survivors, OrderSurvivors
  <1> QED BY <1>1, VerifyAlways, PTL

(***************************************************************************)
(* What the engine takes for known                                         *)
(*                                                                         *)
(* What the tick has opened counts as known only when its record was       *)
(* written, or the tick ended there; what the loop of _detect_fills has    *)
(* not come to yet has no record.                                          *)
(***************************************************************************)
Acting == TickSteps \cup (IF returnTo = "auto" THEN SweepSteps ELSE {})

KnownInv ==
  /\ seen \subseteq told
  /\ pc \in Acting => opened \subseteq told
  /\ pc = "announce" => found \subseteq told \cup todo

\* A step that leaves these variables alone and goes nowhere new keeps it.
LEMMA KnownFrame ==
  ASSUME KnownInv, told \subseteq told', UNCHANGED seen,
         pc' \in Acting' => (pc \in Acting /\ UNCHANGED opened) \/ opened' \subseteq told',
         pc' # "announce" \/ (pc = "announce" /\ UNCHANGED <<found, todo>>)
  PROVE  KnownInv'
  BY DEF KnownInv

LEMMA KnownTick ==
  TypeOK /\ KnownInv /\ Tick => KnownInv'
  <1> SUFFICES ASSUME TypeOK, KnownInv, Tick PROVE KnownInv'
    OBVIOUS
  <1> USE DEF desk, history, At, Records, Raise, Trips
  <1>0. pc = "auto" \/ pc = "stopping" \/ pc = "stops" \/ pc = "detect" \/ pc = "announce" =>
          opened \subseteq told
    BY DEF KnownInv, Acting, TickSteps
  <1>1. CASE BeginTick
    <2>1. pc' \in {"poll", "recap"} /\ UNCHANGED <<seen, told>>
      BY <1>1 DEF BeginTick
    <2> QED BY <2>1, KnownFrame DEF Acting, TickSteps, SweepSteps
  <1>2. CASE Recap
    <2>1. pc' \in {"poll", "gate"} /\ UNCHANGED <<seen, told>>
      BY <1>2 DEF Recap
    <2> QED BY <2>1, KnownFrame DEF Acting, TickSteps, SweepSteps
  <1>3. CASE Gate
    <2>1. UNCHANGED <<seen, told>>
      BY <1>3 DEF Gate
    <2>2. CASE opened' = {} /\ pc' = "stops"
      BY <2>1, <2>2, KnownFrame
    <2>3. CASE pc' \in {"poll", "orders"} /\ returnTo' = "poll"
      BY <2>1, <2>3, KnownFrame DEF Acting, TickSteps
    <2> QED BY <1>3, <2>2, <2>3 DEF Gate
  <1>4. CASE ReadStops
    BY <1>0, <1>4, KnownFrame DEF ReadStops
  <1>5. CASE StopsDone
    BY <1>0, <1>5, KnownFrame DEF StopsDone
  <1>6. ASSUME NEW d \in BarDay, Act(d) PROVE KnownInv'
    <2>1. CASE UNCHANGED <<desk, told>>
      <3>1. pc' # "announce"
        BY <1>6 DEF Act, Opens, OpenLost
      <3> QED BY <1>0, <1>6, <2>1, <3>1, KnownFrame DEF Act
    <2>2. ASSUME NEW t \in Tickets, Opens(t, "auto") PROVE KnownInv'
      <3>1. CASE Writable
        BY <1>0, <1>6, <2>2, <3>1, KnownFrame DEF Act, Opens
      <3>2. CASE ~Writable
        BY <2>2, <3>2, KnownFrame DEF Opens, Acting, TickSteps, SweepSteps
      <3> QED BY <3>1, <3>2
    <2> QED BY <1>6, <2>1, <2>2 DEF Act, OpenLost
  <1>7. CASE AutoDone
    BY <1>0, <1>7, KnownFrame DEF AutoDone
  <1>8. CASE DetectFills
    <2>1. opened \subseteq told /\ seen \subseteq told /\ UNCHANGED <<seen, opened, told>>
      BY <1>0, <1>8 DEF DetectFills, KnownInv
    <2>2. pc' = "announce" => found' \subseteq told' \cup todo'
      BY <1>8, <2>1 DEF DetectFills
    <2> QED BY <2>1, <2>2 DEF KnownInv
  <1>9. CASE Remember
    <2>1. found \subseteq told /\ UNCHANGED <<opened, told>> /\ pc' = "poll" /\ seen' \in {found, seen}
      BY <1>9 DEF Remember, KnownInv
    <2> QED BY <2>1 DEF KnownInv, Acting, TickSteps, SweepSteps
  <1>10. ASSUME NEW t \in Tickets, CheckStop(t) PROVE KnownInv'
    <2>1. UNCHANGED <<seen, opened, told>> /\ pc = "stopping" /\ pc' \in {"stopping", "poll"}
      BY <1>10 DEF CheckStop, CloseAnswers, Answered, CloseLost
    <2> QED BY <1>0, <2>1, KnownFrame
  <1>11. ASSUME NEW t \in Tickets, Announce(t) PROVE KnownInv'
    <2>1. UNCHANGED <<seen, opened>> /\ told \subseteq told' /\ pc = "announce"
      BY <1>11 DEF Announce
    <2>2. pc' = "announce" => found' \subseteq told' \cup todo'
      BY <1>11 DEF Announce, KnownInv
    <2> QED BY <1>0, <2>1, <2>2 DEF KnownInv
  <1> QED BY <1>1, <1>2, <1>3, <1>4, <1>5, <1>6, <1>7, <1>8, <1>9, <1>10, <1>11 DEF Tick

LEMMA KnownFlatten ==
  TypeOK /\ KnownInv /\ Flatten => KnownInv'
  <1> SUFFICES ASSUME TypeOK, KnownInv, Flatten PROVE KnownInv'
    OBVIOUS
  <1> USE DEF desk, history, At, Records, Aborted, Unreadable
  <1>1. UNCHANGED <<opened, told, returnTo>>
    BY DEF Flatten, ReadOrders, CancelDone, ReadPositions, CloseDone, VerifyOpen, VerifyWorking,
           Report, Cancel, CloseOne, Answered, CloseLost, Unchanging
  <1>2. /\ pc \in SweepSteps
        /\ pc' = "poll" \/ pc' \in SweepSteps \/ pc' = returnTo
    BY DEF Flatten, ReadOrders, CancelDone, ReadPositions, CloseDone, VerifyOpen, VerifyWorking,
           Report, Cancel, CloseOne, SweepSteps
  <1>3. seen' = seen \/ seen' = {}
    <2>1. CASE VerifyWorking
      BY <2>1 DEF VerifyWorking, Survivors
    <2> QED
      BY <2>1 DEF Flatten, ReadOrders, CancelDone, ReadPositions, CloseDone, VerifyOpen,
                  Report, Cancel, CloseOne, Answered, CloseLost, Unchanging
  <1>4. pc' # "announce"
    BY <1>2 DEF TypeOK, SweepSteps
  <1>5. pc' \in Acting' => pc \in Acting
    BY <1>1, <1>2 DEF Acting, TypeOK, TickSteps, SweepSteps
  <1> QED BY <1>1, <1>3, <1>4, <1>5 DEF KnownInv

LEMMA KnownStep ==
  TypeOK /\ KnownInv /\ [Next]_vars => KnownInv'
  <1> SUFFICES ASSUME TypeOK, KnownInv, [Next]_vars PROVE KnownInv'
    OBVIOUS
  <1>1. CASE UNCHANGED vars
    BY <1>1 DEF KnownInv, Acting, vars, desk, history
  <1>2. CASE Environment
    <2>1. UNCHANGED <<pc, returnTo, desk, todo, found, told>>
      BY <1>2 DEF Environment, Fill, Leave, NextDay, JournalDies, JournalBack, history, desk
    <2> QED BY <2>1 DEF KnownInv, Acting, desk
  <1>3. CASE Chat
    <2>1. UNCHANGED seen /\ told \subseteq told'
      BY <1>3
      DEF Chat, DeskOpen, DeskPlace, DeskClose, DeskCancel, DeskCloseBy, DeskPreview, DeskHalt,
          DeskResume, Opens, OpenLost, CloseAnswers, Answered, CloseLost, desk, history
    <2>2. pc' = "poll" \/ (pc' = "orders" /\ returnTo' = "poll")
      BY <1>3
      DEF Chat, DeskOpen, DeskPlace, DeskClose, DeskCancel, DeskCloseBy, DeskPreview, DeskHalt,
          DeskResume, DeskEntry, Opens, OpenLost, Unchanging, Records, Raise, Command, At
    <2> QED BY <2>1, <2>2, KnownFrame DEF Acting, TickSteps, SweepSteps
  <1> QED BY <1>1, <1>2, <1>3, KnownTick, KnownFlatten DEF Next

\* The engine never takes a position for known without an "open" record of it.
THEOREM NoSilentPosition == Spec => []NeverSilent
  <1>1. Init => TypeOK /\ KnownInv
    BY InitTyped DEF Init, KnownInv, Acting, TickSteps, SweepSteps
  <1>2. TypeOK /\ KnownInv /\ [Next]_vars => (TypeOK /\ KnownInv)'
    BY TypeStep, KnownStep
  <1>3. KnownInv => NeverSilent
    BY DEF KnownInv, NeverSilent
  <1> QED BY <1>1, <1>2, <1>3, PTL DEF Spec

(***************************************************************************)
(* One recap a day, and one more for each bar that re-dates the key        *)
(*                                                                         *)
(* The recap is keyed by a day that the circuit observes later in the same *)
(* tick, and that a bar may take back to another date after that: between  *)
(* the recap and the gate the key is stale, and so it is after such a bar. *)
(***************************************************************************)
RecapInv ==
  /\ recaps <= 1 + redates
  /\ recaps = 1 + redates => snapDay = day \/ pc = "gate"

\* A bar that takes the key off the day pays for one more recap.
LEMMA RecapAct ==
  ASSUME TypeOK, RecapInv, NEW d \in BarDay, Act(d)
  PROVE  RecapInv'
  <1>1. recaps \in Nat /\ redates \in Nat /\ pc = "auto"
    BY DEF TypeOK, Act, At
  <1>2. UNCHANGED <<recaps, day>> /\ snapDay' = d
    BY DEF Act, Opens, OpenLost
  <1>3. CASE snapDay = day /\ d # day
    <2>1. redates' = redates + 1
      BY <1>3 DEF Act
    <2>2. recaps <= 1 + redates
      BY DEF RecapInv
    <2>3. recaps <= 1 + (redates + 1) /\ recaps # 1 + (redates + 1)
      BY <1>1, <2>2
    <2> QED BY <1>2, <2>1, <2>3 DEF RecapInv
  <1>4. CASE ~(snapDay = day /\ d # day)
    <2>1. redates' = redates
      BY <1>4 DEF Act
    <2>2. recaps = 1 + redates => d = day
      BY <1>1, <1>4 DEF RecapInv
    <2> QED BY <1>2, <2>1, <2>2 DEF RecapInv
  <1> QED BY <1>3, <1>4

LEMMA RecapSent ==
  ASSUME TypeOK, RecapInv, Recap
  PROVE  RecapInv'
  <1>1. recaps \in Nat /\ redates \in Nat /\ pc = "recap" /\ UNCHANGED <<redates, day, snapDay>>
    BY DEF TypeOK, Recap, At, Unchanging, risk
  <1>2. CASE recaps' = recaps + 1
    <2>1. pc' = "gate" /\ recaps <= 1 + redates /\ recaps # 1 + redates
      BY <1>1, <1>2 DEF Recap, RecapInv, DayRolled, Writable
    <2>2. recaps + 1 <= 1 + redates
      BY <1>1, <2>1
    <2> QED BY <1>1, <1>2, <2>1, <2>2 DEF RecapInv
  <1>3. CASE recaps' = recaps
    BY <1>1, <1>3 DEF RecapInv
  <1> QED BY <1>2, <1>3 DEF Recap

LEMMA RecapStep == TypeOK /\ RecapInv /\ [Next]_vars => RecapInv'
  <1> SUFFICES ASSUME TypeOK, RecapInv, [Next]_vars PROVE RecapInv'
    OBVIOUS
  <1> USE DEF history, venue, risk, At
  <1>1. CASE UNCHANGED <<recaps, redates, day, snapDay>> /\ (pc # "gate" \/ UNCHANGED pc)
    BY <1>1 DEF RecapInv
  <1>2. CASE UNCHANGED <<recaps, redates, day>> /\ snapDay' = day
    BY <1>2 DEF RecapInv
  <1>3. CASE Environment
    <2>1. CASE NextDay
      BY <2>1 DEF NextDay, RecapInv
    <2>2. CASE ~NextDay
      BY <1>1, <1>3, <2>2 DEF Environment, Fill, Leave, JournalDies, JournalBack
    <2> QED BY <2>1, <2>2
  <1>4. CASE Chat
    <2>1. UNCHANGED <<recaps, redates, day>> /\ pc = "poll"
      BY <1>4
      DEF Chat, DeskOpen, DeskPlace, DeskClose, DeskCancel, DeskCloseBy, DeskPreview, DeskHalt,
          DeskResume, DeskEntry, Opens, OpenLost, CloseAnswers, Answered, CloseLost, Unchanging, Command
    <2>2. snapDay' = snapDay \/ snapDay' = day
      BY <1>4
      DEF Chat, DeskOpen, DeskPlace, DeskClose, DeskCancel, DeskCloseBy, DeskPreview, DeskHalt,
          DeskResume, DeskEntry
    <2> QED BY <1>1, <1>2, <2>1, <2>2
  <1>5. CASE Flatten
    <2>1. UNCHANGED <<recaps, redates, day, snapDay>> /\ pc # "gate"
      BY <1>5
      DEF Flatten, ReadOrders, CancelDone, ReadPositions, CloseDone, VerifyOpen, VerifyWorking,
          Report, Cancel, CloseOne, Answered, CloseLost, Unchanging
    <2> QED BY <1>1, <2>1
  <1>6. CASE Recap
    BY <1>6, RecapSent
  <1>7. CASE Gate
    BY <1>2, <1>7 DEF Gate
  <1>8. CASE \E d \in BarDay : Act(d)
    BY <1>8, RecapAct
  <1>9. CASE Tick /\ ~Recap /\ ~Gate /\ ~(\E d \in BarDay : Act(d))
    <2>1. UNCHANGED <<recaps, redates, day, snapDay>> /\ pc # "gate"
      BY <1>9
      DEF Tick, BeginTick, ReadStops, StopsDone, AutoDone, DetectFills, Remember, CheckStop,
          Announce, CloseAnswers, Answered, CloseLost, Unchanging
    <2> QED BY <1>1, <2>1
  <1>10. CASE UNCHANGED vars
    BY <1>1, <1>10 DEF vars
  <1> QED BY <1>3, <1>4, <1>5, <1>6, <1>7, <1>8, <1>9, <1>10 DEF Next

\* Whatever dates the venue puts on its bars, a desk that is not halted sends
\* one recap a day, and one more for each time a bar took the key off the day.
THEOREM OneRecap == Spec => []OneRecapPerRollover
  <1>1. Init => TypeOK /\ RecapInv
    BY InitTyped DEF Init, RecapInv
  <1>2. TypeOK /\ RecapInv /\ [Next]_vars => (TypeOK /\ RecapInv)'
    BY TypeStep, RecapStep
  <1>3. RecapInv => OneRecapPerRollover
    BY DEF RecapInv, OneRecapPerRollover
  <1> QED BY <1>1, <1>2, <1>3, PTL DEF Spec
=============================================================================
