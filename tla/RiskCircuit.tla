---------------------------- MODULE RiskCircuit ----------------------------
(***************************************************************************)
(* The risk circuit: RiskManager (risk.py) with its snapshot file          *)
(* (state.py), and the engine state that acts on it (Engine.halted, the    *)
(* HALT file, /resume, the live arming).  What is at stake is the loss     *)
(* budget of the UTC day, the equity peak and the two daily counters, and  *)
(* that neither a restart nor a failed write hands out a fresh one.        *)
(*                                                                         *)
(* The path of one order is module SendGuard's; here a send is three       *)
(* steps: allowed by evaluate, answered by the venue, counted by           *)
(* record_trade.                                                           *)
(***************************************************************************)
EXTENDS Integers

CONSTANTS
  Equity,           \* account equities the venue may report
  InitialBalance,   \* cfg.initial_balance, the peak of a first start
  DailyLossPct,     \* risk.daily_loss_pct, in percent
  MaxDrawdownPct,   \* risk.max_drawdown_pct, in percent
  MaxTradesPerDay,  \* risk.max_trades_per_day, not 0
  MaxTurnsPerDay,   \* advice.max_turns_per_day; with 0 nobody asks for advice
  BarDayOffsets,    \* by how many days the date of the bar the EMA leg acts on may
                    \* differ from the UTC date: {0} for a server on UTC whose
                    \* bars are acted on the day they open, 1 for a server east
                    \* of UTC, -1 for one west of it or a bar seen late
  LastDay, MaxCrashes, MaxWriteFails, MaxDeletes, MaxLostAnswers,  \* bounds
  MaxAllowances     \* bound on the allowances of a day from which a bar of
                    \* another date is still acted on

ASSUME EquityAssumption == Equity \subseteq Nat /\ Equity # {} /\ InitialBalance \in Nat
ASSUME LimitAssumption  == /\ DailyLossPct \in Nat /\ MaxDrawdownPct \in Nat
                           /\ MaxTradesPerDay \in Nat \ {0} /\ MaxTurnsPerDay \in Nat
ASSUME DayAssumption    == BarDayOffsets \subseteq Int /\ LastDay \in Nat
ASSUME BoundAssumption  == /\ MaxCrashes \in Nat /\ MaxWriteFails \in Nat
                           /\ MaxDeletes \in Nat /\ MaxLostAnswers \in Nat
                           /\ MaxAllowances \in Nat

VARIABLES
  up,          \* Engine.start() has returned and the process runs
  today,       \* the UTC day
  equity,      \* the account's equity
  mayTrade,    \* trade_allowed and trade_expert, and the account is not a real-money
               \* one or the desk is armed (cfg.live_accepted)
  risk,        \* RiskManager: snapshot, _halted, _halt_reason, the integrity slot
  disk,        \* <stem>.equity.json
  engHalted,   \* Engine.halted
  haltFile,    \* the HALT file exists
  pc,          \* how far a send has come
  seen,        \* history: the date last observed under, the equity first observed
               \* under it, and the highest equity observed
  allowances,  \* history: how many daily budgets were handed out this UTC day: one
               \* when it is first observed, one more for each change of date in it
  opened,      \* history: opening sends that reached the venue today
  uncounted,   \* history: those of them that record_trade never counted for today
  crashes, writeFails, deletes   \* history: faults so far

deskVars == <<up, engHalted, pc>>
fileVars == <<disk, haltFile>>
worldVars == <<today, equity, mayTrade>>
countVars == <<opened, uncounted>>
seenVars  == <<seen, allowances>>
faultVars == <<crashes, deletes>>
vars == <<deskVars, fileVars, worldVars, countVars, seenVars, faultVars, risk, writeFails>>

-----------------------------------------------------------------------------
(* EquitySnapshot.  Day 0 is the empty day_key.                            *)

NoDay == 0
Snapshot == [day : Nat, start : Nat, peak : Nat, equity : Nat, trades : Nat, turns : Nat]
Reasons  == {"", "halt_file", "daily_loss", "max_drawdown", "state_unreadable",
             "state_unwritable"}
RiskManager == [snap : Snapshot, halted : BOOLEAN, reason : Reasons,
                integrity : {"", "state_unreadable", "state_unwritable"}]
File == [kind : {"absent", "good", "bad"}, snap : Snapshot]

(* RiskManager.__init__, before anything is restored.                      *)
FirstSnapshot == [day |-> NoDay, start |-> InitialBalance, peak |-> InitialBalance,
                  equity |-> InitialBalance, trades |-> 0, turns |-> 0]
FirstManager == [snap |-> FirstSnapshot, halted |-> FALSE, reason |-> "", integrity |-> ""]

(* Mutant of Durable: the peak is not one of the fields.                   *)
DurableWithoutPeak(s) == <<s.day, s.start, s.trades, s.turns>>

(* RiskManager._durable: the fields a restart must not lose.               *)
Durable(s) == <<s.day, s.start, s.peak, s.trades, s.turns>>

(* save_snapshot.  What it writes of the equity is for the record only: an *)
(* observe precedes every gate of a restarted process.                     *)
OnDisk(s) == [s EXCEPT !.equity = 0]

(* The two loss gates, both computed from the snapshot an observe has just *)
(* brought up to date.                                                     *)
DailyLoss(s) == (s.start - s.equity) * 100 >= s.start * DailyLossPct
Drawdown(s)  == s.peak > 0 /\ (s.peak - s.equity) * 100 >= s.peak * MaxDrawdownPct

(* RiskManager._equity_halt_reason.                                        *)
EquityHaltReason(s) ==
  IF DailyLoss(s) THEN "daily_loss" ELSE IF Drawdown(s) THEN "max_drawdown" ELSE ""

(* Mutant of Latched: the halt has a name nobody knows.                     *)
LatchedUnnamed(m, why) == [m EXCEPT !.halted = TRUE, !.reason = "halted"]

(* RiskManager._halt.                                                      *)
Latched(m, why) == [m EXCEPT !.halted = TRUE, !.reason = why]

(* Mutant of Unwritable: a failed write is reported and nothing halts.     *)
UnwritableReported(m) == [m EXCEPT !.integrity = "state_unwritable"]

(* What a failed save_snapshot does to the manager.                        *)
Unwritable(m) == [m EXCEPT !.integrity = "state_unwritable", !.halted = TRUE,
                           !.reason = IF m.halted THEN @ ELSE "state_unwritable"]

(* Mutant of Persist: an unreadable file is written over.                  *)
PersistAlways(m) ==
  LET written == [kind |-> "good", snap |-> OnDisk(m.snap)]
  IN  {[risk |-> m, disk |-> written, fails |-> writeFails]}

(* RiskManager._persist_state: the outcomes of saving m's snapshot.  A     *)
(* write that fails leaves the old file, or the new one when it was only   *)
(* the chmod after os.replace that failed.                                 *)
Persist(m) ==
  LET written == [kind |-> "good", snap |-> OnDisk(m.snap)]
  IN  IF m.integrity = "state_unreadable"
      THEN {[risk |-> m, disk |-> disk, fails |-> writeFails]}
      ELSE {[risk |-> m, disk |-> written, fails |-> writeFails]} \cup
           {[risk |-> Unwritable(m), disk |-> d, fails |-> writeFails + 1] :
              d \in IF writeFails < MaxWriteFails THEN {disk, written} ELSE {}}

MaxOf(a, b) == IF a >= b THEN a ELSE b

(* The snapshot after RiskManager.observe with the clock on day d.         *)
Updated(s, d) ==
  LET peak == MaxOf(s.peak, equity)
  IN  IF s.day = d
      THEN [s EXCEPT !.equity = equity, !.peak = peak]
      ELSE [day |-> d, start |-> equity, peak |-> peak, equity |-> equity,
            trades |-> 0, turns |-> 0]

(* RiskManager.observe: a new day clears a daily_loss halt and no other,   *)
(* and a snapshot that moved is saved.                                     *)
Observe(m, d) ==
  LET clears == m.snap.day # d /\ m.reason = "daily_loss"
      m1 == [m EXCEPT !.snap = Updated(m.snap, d),
                      !.halted = IF clears THEN FALSE ELSE @,
                      !.reason = IF clears THEN "" ELSE @]
  IN  IF Durable(m1.snap) = Durable(m.snap)
      THEN {[risk |-> m1, disk |-> disk, fails |-> writeFails]}
      ELSE Persist(m1)

(* Mutant of Circuit: the loss gates are left to the reports.              *)
CircuitReports(m) ==
  IF haltFile THEN Latched(m, "halt_file") ELSE m

(* RiskManager.circuit on an observed manager.  An account that may not    *)
(* trade, or a desk that is not armed, is answered before the loss gates.  *)
Circuit(m) ==
  IF haltFile THEN Latched(m, "halt_file")
  ELSE IF m.halted \/ ~mayTrade \/ EquityHaltReason(m.snap) = "" THEN m
  ELSE Latched(m, EquityHaltReason(m.snap))

(* RiskManager.evaluate after Circuit(m): the gates this module keeps.     *)
(* Every other gate may also refuse.                                       *)
Allows(m) ==
  ~haltFile /\ ~m.halted /\ mayTrade /\ m.snap.trades < MaxTradesPerDay

-----------------------------------------------------------------------------
(* What history keeps of an observation with the clock on day d.           *)
Witness(d) ==
  /\ seen' = [day |-> d, peak |-> MaxOf(seen.peak, equity),
              start |-> IF seen.day = d THEN seen.start ELSE equity]
  /\ allowances' = IF allowances > 0 /\ seen.day = d THEN allowances ELSE allowances + 1

Stored(o) == disk' = o.disk /\ writeFails' = o.fails

Idle == up /\ pc = "idle"

Init ==
  /\ up = FALSE /\ engHalted = FALSE /\ pc = "idle"
  /\ today = 1 /\ equity \in Equity /\ mayTrade = TRUE
  /\ risk = FirstManager
  /\ disk = [kind |-> "absent", snap |-> FirstSnapshot] /\ haltFile = FALSE
  /\ seen = [day |-> NoDay, start |-> InitialBalance, peak |-> InitialBalance]
  /\ allowances = 0 /\ opened = 0 /\ uncounted = 0
  /\ crashes = 0 /\ writeFails = 0 /\ deletes = 0

(* Mutant of Tick: only a halt that is new flattens.                       *)
TickNewHalts ==
  /\ Idle /\ ~engHalted
  /\ \E o \in Observe(risk, today) :
       /\ risk' = Circuit(o.risk) /\ Stored(o)
       /\ engHalted' = (Circuit(o.risk).halted /\ ~o.risk.halted)
  /\ Witness(today)
  /\ UNCHANGED <<up, pc, haltFile, worldVars, countVars, faultVars>>

(* Engine._apply_circuit of step_all, with the flatten it orders.  A       *)
(* halted engine ticks without looking at the circuit.                     *)
Tick ==
  /\ Idle /\ ~engHalted
  /\ \E o \in Observe(risk, today) :
       /\ risk' = Circuit(o.risk) /\ Stored(o)
       /\ engHalted' = Circuit(o.risk).halted
  /\ Witness(today)
  /\ UNCHANGED <<up, pc, haltFile, worldVars, countVars, faultVars>>

(* The days the last bar of the venue may be dated.                        *)
BarDay == {today + n : n \in BarDayOffsets} \cap (Nat \ {NoDay})

(* Engine._act on a new bar of day d: the clock is the bar's, a trip       *)
(* flattens, and a signal the gates allow is sent.                         *)
BarAct(d) ==
  /\ Idle /\ ~engHalted
  /\ seen.day = d \/ allowances < MaxAllowances
  /\ \E o \in Observe(risk, d) :
       /\ risk' = Circuit(o.risk) /\ Stored(o)
       /\ engHalted' = Circuit(o.risk).halted
       /\ \/ pc' = "idle"
          \/ Allows(Circuit(o.risk)) /\ pc' = "sending"
  /\ Witness(d)
  /\ UNCHANGED <<up, haltFile, worldVars, countVars, faultVars>>

(* Engine.preview for staging and for /confirm, and the circuit of /scale: *)
(* a trip is latched and nothing is flattened.  Only /confirm, which a     *)
(* halted engine refuses, goes on to send.                                 *)
Preview ==
  /\ Idle
  /\ \E o \in Observe(risk, today) :
       /\ risk' = Circuit(o.risk) /\ Stored(o)
       /\ \/ pc' = "idle"
          \/ ~engHalted /\ Allows(Circuit(o.risk)) /\ pc' = "sending"
  /\ Witness(today)
  /\ UNCHANGED <<up, engHalted, haltFile, worldVars, countVars, faultVars>>

(* RiskManager.circuit_reason (advice, /replace, the heartbeat) and        *)
(* Engine.risk_text: they observe and latch nothing.                       *)
Look ==
  /\ Idle
  /\ \E o \in Observe(risk, today) : risk' = o.risk /\ Stored(o)
  /\ Witness(today)
  /\ UNCHANGED <<deskVars, haltFile, worldVars, countVars, faultVars>>

-----------------------------------------------------------------------------
(* The send, and the two counters.                                         *)

(* The venue took the order.                                               *)
SendOk ==
  /\ up /\ pc = "sending"
  /\ pc' = "sent" /\ opened' = opened + 1
  /\ UNCHANGED <<up, engHalted, fileVars, worldVars, uncounted, faultVars, risk,
                 seenVars, writeFails>>

(* Nothing was transmitted, or the venue refused.                          *)
SendRefused ==
  /\ up /\ pc = "sending"
  /\ pc' = "idle"
  /\ UNCHANGED <<up, engHalted, fileVars, worldVars, countVars, faultVars, risk,
                 seenVars, writeFails>>

(* The send raised: the order may be on the book, and is not counted.      *)
SendRaises ==
  /\ up /\ pc = "sending" /\ uncounted < MaxLostAnswers
  /\ pc' = "idle" /\ opened' = opened + 1 /\ uncounted' = uncounted + 1
  /\ UNCHANGED <<up, engHalted, fileVars, worldVars, faultVars, risk, seenVars,
                 writeFails>>

(* Mutant of RecordTrade: counted in memory only.                          *)
RecordTradeInMemory ==
  /\ up /\ pc = "sent"
  /\ risk' = [risk EXCEPT !.snap.trades = @ + 1]
  /\ pc' = "idle"
  /\ UNCHANGED <<up, engHalted, fileVars, worldVars, countVars, faultVars, seenVars,
                 writeFails>>

(* RiskManager.record_trade.  A send that was under way at midnight is     *)
(* counted for the date it was allowed under.                              *)
RecordTrade ==
  /\ up /\ pc = "sent"
  /\ \E o \in Persist([risk EXCEPT !.snap.trades = @ + 1]) : risk' = o.risk /\ Stored(o)
  /\ pc' = "idle"
  /\ uncounted' = IF allowances > 0 THEN uncounted ELSE uncounted + 1
  /\ UNCHANGED <<up, engHalted, haltFile, worldVars, opened, faultVars, seenVars>>

(* Desk._ask: the turn is counted before the provider is called.           *)
Ask ==
  /\ Idle /\ risk.snap.turns < MaxTurnsPerDay
  /\ \E o \in Persist([risk EXCEPT !.snap.turns = @ + 1]) : risk' = o.risk /\ Stored(o)
  /\ UNCHANGED <<deskVars, haltFile, worldVars, countVars, faultVars, seenVars>>

-----------------------------------------------------------------------------
(* Operator commands.                                                      *)

(* Desk._halt: the HALT file, and Engine.flatten.                          *)
Halt ==
  /\ Idle
  /\ haltFile' = TRUE /\ engHalted' = TRUE
  /\ UNCHANGED <<up, pc, disk, worldVars, countVars, faultVars, risk, seenVars,
                 writeFails>>

(* RiskManager.clear_operator_halt: what is left once the file is gone.    *)
(* The loss gates are asked of the snapshot as it is; nothing observes.    *)
Leftover(m) == IF m.integrity # "" THEN m.integrity ELSE EquityHaltReason(m.snap)

(* Desk._resume.                                                           *)
Resume ==
  /\ Idle
  /\ haltFile' = FALSE
  /\ IF Leftover(risk) # ""
     THEN risk' = Latched(risk, Leftover(risk)) /\ UNCHANGED engHalted
     ELSE risk' = [risk EXCEPT !.halted = FALSE, !.reason = ""] /\ engHalted' = FALSE
  /\ UNCHANGED <<up, pc, disk, worldVars, countVars, faultVars, seenVars, writeFails>>

-----------------------------------------------------------------------------
(* The world.                                                              *)

(* HALT is created or removed by hand.                                     *)
HaltFileByHand ==
  /\ haltFile' = ~haltFile
  /\ UNCHANGED <<deskVars, disk, worldVars, countVars, faultVars, risk, seenVars, writeFails>>

EquityMoves ==
  /\ equity' \in Equity
  /\ UNCHANGED <<deskVars, fileVars, today, mayTrade, countVars, faultVars, risk, seenVars,
                 writeFails>>

(* Desk._live arms or disarms; the terminal permits or forbids trading.    *)
PermissionFlips ==
  /\ mayTrade' = ~mayTrade
  /\ UNCHANGED <<deskVars, fileVars, today, equity, countVars, faultVars, risk, seenVars,
                 writeFails>>

(* UTC midnight.                                                           *)
DayRolls ==
  /\ today < LastDay
  /\ today' = today + 1 /\ opened' = 0 /\ uncounted' = 0 /\ allowances' = 0
  /\ UNCHANGED <<deskVars, fileVars, equity, mayTrade, faultVars, risk, seen, writeFails>>

(* The process dies; a send under way may or may not reach the venue.      *)
Crash ==
  /\ up /\ crashes < MaxCrashes
  /\ up' = FALSE /\ engHalted' = FALSE /\ pc' = "idle"
  /\ risk' = FirstManager
  /\ crashes' = crashes + 1
  /\ opened' = IF pc = "sending" THEN opened + 1 ELSE opened
  /\ uncounted' = IF pc = "idle" THEN uncounted ELSE uncounted + 1
  /\ UNCHANGED <<fileVars, worldVars, seenVars, writeFails, deletes>>

(* RiskManager._restore_state.                                             *)
Loaded ==
  CASE disk.kind = "absent" -> FirstManager
    [] disk.kind = "good"   -> [FirstManager EXCEPT !.snap = disk.snap]
    [] disk.kind = "bad"    -> [Latched(FirstManager, "state_unreadable")
                                  EXCEPT !.integrity = "state_unreadable"]

(* The process is started: RiskManager.__init__, and the observe of        *)
(* Engine.start.  Armed only by --i-accept-risk, or with no real money.    *)
Start ==
  /\ ~up
  /\ up' = TRUE /\ mayTrade' \in BOOLEAN
  /\ \E o \in Observe(Loaded, today) : risk' = o.risk /\ Stored(o)
  /\ Witness(today)
  /\ UNCHANGED <<engHalted, pc, haltFile, today, equity, countVars, faultVars>>

(* The file is damaged: cut short, edited, of another version.  It is read *)
(* at the next start only, so it is enough to damage it while stopped.     *)
Corrupt ==
  /\ ~up /\ disk.kind = "good"
  /\ disk' = [kind |-> "bad", snap |-> FirstSnapshot]
  /\ UNCHANGED <<deskVars, haltFile, worldVars, countVars, faultVars, risk, seenVars,
                 writeFails>>

(* The operator stops the bot and deletes the file, to start clean.        *)
DeleteState ==
  /\ ~up /\ disk.kind # "absent" /\ deletes < MaxDeletes
  /\ disk' = [kind |-> "absent", snap |-> FirstSnapshot]
  /\ deletes' = deletes + 1
  /\ seen' = [day |-> NoDay, start |-> InitialBalance, peak |-> InitialBalance]
  /\ UNCHANGED <<deskVars, haltFile, worldVars, countVars, allowances, crashes, risk,
                 writeFails>>

-----------------------------------------------------------------------------
Sending == SendOk \/ SendRefused \/ SendRaises \/ RecordTrade

Next ==
  \/ Tick \/ Preview \/ Look \/ Ask \/ Sending
  \/ \E d \in BarDay : BarAct(d)
  \/ Halt \/ Resume
  \/ HaltFileByHand \/ EquityMoves \/ PermissionFlips \/ DayRolls
  \/ Crash \/ Start \/ Corrupt \/ DeleteState

Spec == Init /\ [][Next]_vars

(* The run loop keeps ticking and finishes the send it is in.  Nobody      *)
(* restarts a dead process, and nothing is assumed of the operator.        *)
FairSpec == Spec /\ WF_vars(Tick) /\ WF_vars(Sending)

-----------------------------------------------------------------------------
TypeOK ==
  /\ up \in BOOLEAN /\ engHalted \in BOOLEAN
  /\ pc \in {"idle", "sending", "sent"}
  /\ today \in Nat /\ equity \in Equity /\ mayTrade \in BOOLEAN
  /\ risk \in RiskManager /\ disk \in File /\ haltFile \in BOOLEAN
  /\ seen \in [day : Nat, start : Nat, peak : Nat]
  /\ allowances \in Nat /\ opened \in Nat /\ uncounted \in Nat
  /\ crashes \in Nat /\ writeFails \in Nat /\ deletes \in Nat

(* A manager that does not halt has its budgets on file, whatever failed   *)
(* writes, midnights and /resume came before: a restart then loses         *)
(* nothing.  ("The next restart would lose the loss budget, so the bot     *)
(* refuses to trade", CONTRACT.md, State unwritable.)                      *)
OnFile(m) == disk.kind = "good" /\ Durable(disk.snap) = Durable(m.snap)
UnhaltedIsOnFile == up /\ ~risk.halted => OnFile(risk)

(* The budgets in force are the equity first observed under the date the   *)
(* desk goes by and the highest one observed, across crashes, restarts,    *)
(* commands and the two clocks that date an observation, as long as every  *)
(* write was done.                                                         *)
BudgetsSurvive ==
  up /\ risk.integrity = "" /\ writeFails = 0 =>
    /\ risk.snap.peak = seen.peak
    /\ risk.snap.day = seen.day /\ risk.snap.start = seen.start

(* No more opening sends a UTC day than the cap for each budget handed     *)
(* out, but for those whose answer was lost or that midnight overtook, for *)
(* counts a failed write lost, and for an operator who deletes the file.   *)
TradesWithinCap ==
  deletes = 0 =>
    opened <= MaxTradesPerDay * MaxOf(allowances, 1) + uncounted + writeFails

(* No order is allowed once the loss since the start of the date the desk  *)
(* goes by, or the drawdown from the highest equity observed, has reached  *)
(* its limit.                                                              *)
SpentBudgetStopsEntries ==
  [][pc' = "sending" /\ pc = "idle" /\ writeFails' = 0 =>
       EquityHaltReason([start |-> seen'.start, peak |-> seen'.peak, equity |-> equity]) = ""]_vars

(* A UTC day has one loss budget and one count of trades: neither changes  *)
(* hands within it ("start-of-UTC-day equity", "Two budgets per UTC day",  *)
(* CONTRACT.md).                                                           *)
OneBudgetPerUtcDay ==
  [][up /\ up' /\ risk.snap.day = today /\ today' = today =>
       /\ risk'.snap.start = risk.snap.start
       /\ risk'.snap.trades >= risk.snap.trades]_vars

(* An unreadable file halts the desk that met it, for good, and is left    *)
(* as it was: no command, midnight or HALT file leads out of it.           *)
UnreadableIsKept ==
  [][up /\ risk.integrity = "state_unreadable" =>
       /\ opened' <= opened /\ disk' = disk
       /\ up' => risk'.halted /\ risk'.integrity = "state_unreadable"]_vars

(* A halt that a chat command has only latched is acted upon by a tick.    *)
LatchedHaltFlattens == up /\ risk.halted ~> engHalted \/ ~risk.halted \/ ~up

(* A loss beyond the limit on a desk that may trade flattens it, unless    *)
(* the loss is recovered or the permission lost first.                     *)
LossBeyondLimit == up /\ seen.day = today /\ risk.snap.day = today
                   /\ EquityHaltReason([risk.snap EXCEPT !.equity = equity]) # ""
LossFlattensArmed ==
  LossBeyondLimit /\ mayTrade ~> engHalted \/ ~LossBeyondLimit \/ ~mayTrade

=============================================================================
