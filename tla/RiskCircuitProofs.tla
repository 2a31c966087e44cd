------------------------- MODULE RiskCircuitProofs -------------------------
(***************************************************************************)
(* RiskCircuit for every set of equities, all limits and any number of     *)
(* days, crashes and failed writes.                                        *)
(***************************************************************************)
EXTENDS RiskCircuit, TLAPS

USE DEF deskVars, fileVars, worldVars, countVars, seenVars, faultVars

Outcomes == [risk : RiskManager, disk : File, fails : Nat]
SeenType == [day : Nat, start : Nat, peak : Nat]

(* What the operators on managers rest on.                                 *)
Typed == equity \in Nat /\ disk \in File /\ writeFails \in Nat /\ risk \in RiskManager

-----------------------------------------------------------------------------
(* The operators on snapshots and managers.                                *)

LEMMA FirstTypes == FirstSnapshot \in Snapshot /\ FirstManager \in RiskManager
  BY EquityAssumption DEF FirstSnapshot, FirstManager, Snapshot, RiskManager, Reasons, NoDay

LEMMA UpdatedFacts ==
  ASSUME NEW s \in Snapshot, NEW d \in Nat, equity \in Nat
  PROVE  /\ Updated(s, d) \in Snapshot
         /\ Updated(s, d).day = d /\ Updated(s, d).equity = equity
         /\ Updated(s, d).peak = MaxOf(s.peak, equity)
         /\ Updated(s, d).start = IF s.day = d THEN s.start ELSE equity
  BY DEF Updated, Snapshot, MaxOf

LEMMA UpdatedInManager ==
  ASSUME Typed, NEW m \in RiskManager, NEW d \in Nat
  PROVE  Updated(m.snap, d) \in Snapshot /\ Updated(m.snap, d).day = d
  <1>1. m.snap \in Snapshot /\ equity \in Nat
    BY DEF RiskManager, Typed
  <1>. QED
    BY <1>1, UpdatedFacts

LEMMA LatchedFacts ==
  ASSUME NEW m \in RiskManager, NEW why \in Reasons
  PROVE  /\ Latched(m, why) \in RiskManager
         /\ Latched(m, why).halted /\ Latched(m, why).reason = why
         /\ Latched(m, why).snap = m.snap /\ Latched(m, why).integrity = m.integrity
  BY DEF Latched, RiskManager

LEMMA ReasonsOfLoss ==
  ASSUME NEW s
  PROVE  EquityHaltReason(s) \in Reasons /\ EquityHaltReason(s) \in {"", "daily_loss", "max_drawdown"}
  BY DEF EquityHaltReason, Reasons

(* A trip latches and changes neither the snapshot nor the integrity slot; *)
(* a manager that is halted already keeps its halt, whose reason can only  *)
(* become "halt_file".                                                     *)
LEMMA CircuitFacts ==
  ASSUME NEW m \in RiskManager
  PROVE  /\ Circuit(m) \in RiskManager
         /\ Circuit(m).snap = m.snap /\ Circuit(m).integrity = m.integrity
         /\ m.halted => /\ Circuit(m).halted
                        /\ Circuit(m).reason \in {m.reason, "halt_file"}
         /\ ~Circuit(m).halted /\ mayTrade => EquityHaltReason(m.snap) = ""
  <1>1. "halt_file" \in Reasons /\ EquityHaltReason(m.snap) \in Reasons
    BY ReasonsOfLoss DEF Reasons
  <1>2. CASE haltFile
    BY <1>1, <1>2, LatchedFacts DEF Circuit
  <1>3. CASE ~haltFile /\ (m.halted \/ ~mayTrade \/ EquityHaltReason(m.snap) = "")
    BY <1>3 DEF Circuit
  <1>4. CASE ~haltFile /\ ~(m.halted \/ ~mayTrade \/ EquityHaltReason(m.snap) = "")
    BY <1>1, <1>4, LatchedFacts DEF Circuit
  <1>. QED
    BY <1>2, <1>3, <1>4

LEMMA DurableOnDisk ==
  ASSUME NEW s \in Snapshot
  PROVE  OnDisk(s) \in Snapshot /\ Durable(OnDisk(s)) = Durable(s)
         /\ OnDisk(s).day = s.day /\ OnDisk(s).start = s.start /\ OnDisk(s).peak = s.peak
  BY DEF OnDisk, Durable, Snapshot

LEMMA DurableFields ==
  ASSUME NEW s \in Snapshot, NEW t \in Snapshot, Durable(s) = Durable(t)
  PROVE  s.day = t.day /\ s.start = t.start /\ s.peak = t.peak
  BY DEF Durable

(* The budgets are on file, or the manager halts for a lost measurement.   *)
Kept(m, k) ==
  \/ k.kind = "good" /\ Durable(k.snap) = Durable(m.snap)
  \/ m.halted /\ m.integrity # ""

(* An unreadable file has latched a halt that no new day clears.           *)
UnreadableLatched(m) ==
  m.integrity = "state_unreadable" => m.halted /\ m.reason # "daily_loss"

LEMMA PersistFacts ==
  ASSUME Typed, NEW m \in RiskManager, NEW o \in Persist(m), UnreadableLatched(m)
  PROVE  /\ o \in Outcomes /\ o.risk.snap = m.snap
         /\ Kept(o.risk, o.disk) /\ UnreadableLatched(o.risk)
         /\ m.integrity = "state_unreadable" => o.risk = m /\ o.disk = disk
         /\ m.integrity # "state_unreadable" => o.risk.integrity # "state_unreadable"
         /\ o.fails >= writeFails
         /\ o.fails = writeFails /\ m.integrity # "state_unreadable" =>
              o.risk = m /\ o.disk = [kind |-> "good", snap |-> OnDisk(m.snap)]
  <1> DEFINE written == [kind |-> "good", snap |-> OnDisk(m.snap)]
  <1>1. m.snap \in Snapshot /\ written \in File /\ Durable(written.snap) = Durable(m.snap)
        /\ written.kind = "good"
    BY DurableOnDisk DEF RiskManager, File
  <1>2. CASE m.integrity = "state_unreadable"
    <2>1. o = [risk |-> m, disk |-> disk, fails |-> writeFails]
      BY <1>2 DEF Persist
    <2>2. o.risk = m /\ o.disk = disk /\ o.fails = writeFails /\ o \in Outcomes
      BY <2>1 DEF Typed, Outcomes
    <2>3. Kept(m, disk)
      BY <1>2 DEF Kept, UnreadableLatched
    <2>. QED
      BY <1>2, <2>2, <2>3 DEF Typed
  <1>3. CASE m.integrity # "state_unreadable"
    <2>1. \/ o = [risk |-> m, disk |-> written, fails |-> writeFails]
          \/ \E d \in {disk, written} :
               o = [risk |-> Unwritable(m), disk |-> d, fails |-> writeFails + 1]
      BY <1>3 DEF Persist
    <2>2. /\ Unwritable(m) \in RiskManager /\ Unwritable(m).snap = m.snap
          /\ Unwritable(m).halted /\ Unwritable(m).integrity = "state_unwritable"
      BY DEF Unwritable, RiskManager, Reasons
    <2>3. CASE o = [risk |-> m, disk |-> written, fails |-> writeFails]
      <3> HIDE DEF written
      <3>1. o.risk = m /\ o.disk = written /\ o.fails = writeFails /\ o \in Outcomes
        BY <1>1, <2>3 DEF Typed, Outcomes
      <3>2. Kept(o.risk, o.disk)
        BY <1>1, <3>1 DEF Kept
      <3>. QED
        BY <1>3, <3>1, <3>2 DEF Typed, UnreadableLatched, written
    <2>4. CASE \E d \in {disk, written} :
                 o = [risk |-> Unwritable(m), disk |-> d, fails |-> writeFails + 1]
      <3>1. o.risk = Unwritable(m) /\ o.fails = writeFails + 1 /\ o.disk \in File
            /\ o \in Outcomes
        BY <1>1, <2>2, <2>4 DEF Typed, Outcomes
      <3>2. Kept(o.risk, o.disk) /\ UnreadableLatched(o.risk)
        BY <2>2, <3>1 DEF Kept, UnreadableLatched
      <3>. QED
        BY <1>3, <2>2, <3>1, <3>2 DEF Typed
    <2>. QED
      BY <2>1, <2>3, <2>4
  <1>. QED
    BY <1>2, <1>3

(* Observe keeps the budgets on file if they were there before, or if it   *)
(* starts a new day.                                                       *)
LEMMA ObserveFacts ==
  ASSUME Typed, NEW m \in RiskManager, NEW d \in Nat, NEW o \in Observe(m, d),
         UnreadableLatched(m), Kept(m, disk) \/ m.snap.day # d
  PROVE  /\ o \in Outcomes /\ o.risk.snap = Updated(m.snap, d)
         /\ Kept(o.risk, o.disk) /\ UnreadableLatched(o.risk)
         /\ m.integrity = "state_unreadable" =>
              o.risk.integrity = "state_unreadable" /\ o.disk = disk
         /\ m.integrity # "state_unreadable" => o.risk.integrity # "state_unreadable"
         /\ o.fails >= writeFails
         /\ o.fails = writeFails /\ m.integrity # "state_unreadable" =>
              /\ o.risk.integrity = m.integrity
              /\ \/ o.disk = [kind |-> "good", snap |-> OnDisk(o.risk.snap)]
                 \/ o.disk = disk /\ Durable(o.risk.snap) = Durable(m.snap)
  <1> DEFINE clears == m.snap.day # d /\ m.reason = "daily_loss"
             m1 == [m EXCEPT !.snap = Updated(m.snap, d),
                             !.halted = IF clears THEN FALSE ELSE @,
                             !.reason = IF clears THEN "" ELSE @]
  <1>1. /\ m1 \in RiskManager /\ m1.snap = Updated(m.snap, d)
        /\ m1.integrity = m.integrity
        /\ ~clears => m1.halted = m.halted /\ m1.reason = m.reason
        /\ m1.snap.day = d
    <2>0. m.snap \in Snapshot /\ m.halted \in BOOLEAN /\ m.reason \in Reasons
      BY DEF RiskManager
    <2>1. Updated(m.snap, d) \in Snapshot /\ Updated(m.snap, d).day = d
      BY UpdatedInManager
    <2> HIDE DEF clears
    <2>2. /\ m1 \in RiskManager /\ m1.snap = Updated(m.snap, d)
          /\ m1.integrity = m.integrity
      BY <2>0, <2>1 DEF RiskManager, Reasons
    <2>3. ~clears => m1.halted = m.halted /\ m1.reason = m.reason
      BY <2>0 DEF RiskManager
    <2>. QED
      BY <2>1, <2>2, <2>3
  <1>2. UnreadableLatched(m1)
    BY <1>1 DEF UnreadableLatched
  <1>3. IF Durable(m1.snap) = Durable(m.snap)
        THEN o = [risk |-> m1, disk |-> disk, fails |-> writeFails]
        ELSE o \in Persist(m1)
    BY DEF Observe
  <1>4. m.snap \in Snapshot
    BY DEF RiskManager
  <1> HIDE DEF m1
  <1>5. CASE Durable(m1.snap) = Durable(m.snap)
    <2>1. m.snap.day = d /\ ~clears
      BY <1>1, <1>4, <1>5, UpdatedFacts, DurableFields DEF Typed
    <2>2. o.risk = m1 /\ o.disk = disk /\ o.fails = writeFails /\ o \in Outcomes
      BY <1>1, <1>3, <1>5 DEF Typed, Outcomes
    <2>3. Kept(m1, disk)
      BY <1>1, <1>5, <2>1 DEF Kept
    <2>. QED
      BY <1>1, <1>2, <1>5, <2>2, <2>3 DEF Typed
  <1>6. CASE Durable(m1.snap) # Durable(m.snap)
    <2>1. o \in Persist(m1)
      BY <1>3, <1>6
    <2>. QED
      BY <1>1, <1>2, <2>1, PersistFacts
  <1>. QED
    BY <1>5, <1>6

-----------------------------------------------------------------------------
(* The steps of the module, brought to what they do to the manager.        *)

(* A step that observes with the clock on day d, latches or not, and goes  *)
(* on to send only from a circuit that is clear.                           *)
Observes(d) ==
  /\ up /\ pc = "idle"
  /\ \E o \in Observe(risk, d) :
       /\ Stored(o)
       /\ \/ risk' = o.risk /\ pc' = "idle"
          \/ /\ risk' = Circuit(o.risk)
             /\ \/ pc' = "idle"
                \/ pc' = "sending" /\ ~Circuit(o.risk).halted /\ mayTrade
  /\ engHalted' = engHalted \/ engHalted' = risk'.halted
  /\ Witness(d)
  /\ UNCHANGED <<up, haltFile, worldVars, countVars, faultVars>>

(* A step that leaves the manager, its file and the history of it alone.   *)
Elsewhere ==
  /\ UNCHANGED <<up, risk, disk, seen, writeFails, deletes>>
  /\ engHalted' \in BOOLEAN /\ haltFile' \in BOOLEAN /\ mayTrade' \in BOOLEAN
  /\ crashes' \in Nat /\ equity' \in Equity /\ today' \in {today, today + 1}
  /\ opened' \in Nat /\ uncounted' \in Nat /\ allowances' \in Nat
  /\ \/ pc' = pc \/ pc' = "idle"
     \/ pc = "sending" /\ pc' = "sent"
  /\ pc = "idle" => opened' <= opened

(* RecordTrade and Ask.                                                    *)
Counts ==
  /\ up /\ pc' = "idle"
  /\ \E m \in RiskManager : \E o \in Persist(m) :
       /\ m.halted = risk.halted /\ m.reason = risk.reason
       /\ m.integrity = risk.integrity
       /\ m.snap.day = risk.snap.day /\ m.snap.start = risk.snap.start
       /\ m.snap.peak = risk.snap.peak
       /\ risk' = o.risk /\ Stored(o)
  /\ uncounted' \in Nat
  /\ UNCHANGED <<up, engHalted, haltFile, worldVars, opened, faultVars, seenVars>>

(* The steps of the engine that observe.                                   *)
LEMMA ObservingSteps ==
  ASSUME Tick \/ Preview \/ Look \/ \E d \in BarDay : BarAct(d)
  PROVE  Observes(today) \/ \E d \in BarDay : Observes(d)
  <1>1. CASE Tick
    <2>1. PICK o \in Observe(risk, today) :
            risk' = Circuit(o.risk) /\ Stored(o) /\ engHalted' = risk'.halted
      BY <1>1 DEF Tick
    <2>2. /\ up /\ pc = "idle" /\ pc' = "idle" /\ Witness(today)
          /\ UNCHANGED <<up, haltFile, worldVars, countVars, faultVars>>
      BY <1>1 DEF Tick, Idle
    <2>. QED
      BY <2>1, <2>2, Zenon DEF Observes
  <1>9. CASE Preview
    <2>1. PICK o \in Observe(risk, today) :
            /\ risk' = Circuit(o.risk) /\ Stored(o)
            /\ pc' = "idle" \/ (pc' = "sending" /\ Allows(Circuit(o.risk)))
      BY <1>9, Zenon DEF Preview
    <2>2. /\ up /\ pc = "idle" /\ engHalted' = engHalted /\ Witness(today)
          /\ UNCHANGED <<up, haltFile, worldVars, countVars, faultVars>>
      BY <1>9 DEF Preview, Idle
    <2>. QED
      BY <2>1, <2>2, Zenon DEF Observes, Allows
  <1>10. CASE Look
    <2>1. PICK o \in Observe(risk, today) : risk' = o.risk /\ Stored(o)
      BY <1>10 DEF Look
    <2>2. /\ up /\ pc = "idle" /\ pc' = "idle" /\ engHalted' = engHalted /\ Witness(today)
          /\ UNCHANGED <<up, haltFile, worldVars, countVars, faultVars>>
      BY <1>10 DEF Look, Idle
    <2>. QED
      BY <2>1, <2>2, Zenon DEF Observes
  <1>2. ASSUME NEW d \in BarDay, BarAct(d)
        PROVE  Observes(d)
    <2>1. PICK o \in Observe(risk, d) :
            /\ risk' = Circuit(o.risk) /\ Stored(o)
            /\ engHalted' = risk'.halted
            /\ pc' = "idle" \/ (pc' = "sending" /\ Allows(Circuit(o.risk)))
      BY <1>2, Zenon DEF BarAct
    <2>2. /\ up /\ pc = "idle" /\ Witness(d)
          /\ UNCHANGED <<up, haltFile, worldVars, countVars, faultVars>>
      BY <1>2 DEF BarAct, Idle
    <2>. QED
      BY <2>1, <2>2, Zenon DEF Observes, Allows
  <1>. QED
    BY <1>1, <1>2, <1>9, <1>10

LEMMA Steps ==
  ASSUME TypeOK, [Next]_vars
  PROVE  \/ Observes(today) \/ (\E d \in BarDay : Observes(d))
         \/ Elsewhere \/ Counts \/ Resume \/ Crash \/ Start \/ Corrupt \/ DeleteState
  <1>3. CASE RecordTrade
    <2> DEFINE m == [risk EXCEPT !.snap.trades = @ + 1]
               n == [risk.snap EXCEPT !.trades = @ + 1]
    <2>1. /\ n \in Snapshot /\ n.day = risk.snap.day /\ n.start = risk.snap.start
          /\ n.peak = risk.snap.peak
      <3>1. risk.snap \in Snapshot
        BY DEF TypeOK, RiskManager
      <3>. QED
        BY <3>1 DEF Snapshot
    <2>2. m = [risk EXCEPT !.snap = n] /\ risk \in RiskManager
      BY DEF TypeOK, RiskManager
    <2> HIDE DEF n
    <2>3. /\ m \in RiskManager /\ m.snap = n /\ m.halted = risk.halted
          /\ m.reason = risk.reason /\ m.integrity = risk.integrity
      BY <2>1, <2>2 DEF RiskManager
    <2>4. PICK o \in Persist(m) : risk' = o.risk /\ Stored(o)
      BY <1>3 DEF RecordTrade
    <2>5. /\ up /\ pc' = "idle" /\ uncounted' \in Nat
          /\ UNCHANGED <<up, engHalted, haltFile, worldVars, opened, faultVars, seenVars>>
      BY <1>3 DEF RecordTrade, Idle, TypeOK
    <2> HIDE DEF m
    <2>. QED
      BY <2>1, <2>3, <2>4, <2>5, Zenon DEF Counts
  <1>4. CASE Ask
    <2> DEFINE m == [risk EXCEPT !.snap.turns = @ + 1]
               n == [risk.snap EXCEPT !.turns = @ + 1]
    <2>1. /\ n \in Snapshot /\ n.day = risk.snap.day /\ n.start = risk.snap.start
          /\ n.peak = risk.snap.peak
      <3>1. risk.snap \in Snapshot
        BY DEF TypeOK, RiskManager
      <3>. QED
        BY <3>1 DEF Snapshot
    <2>2. m = [risk EXCEPT !.snap = n] /\ risk \in RiskManager
      BY DEF TypeOK, RiskManager
    <2> HIDE DEF n
    <2>3. /\ m \in RiskManager /\ m.snap = n /\ m.halted = risk.halted
          /\ m.reason = risk.reason /\ m.integrity = risk.integrity
      BY <2>1, <2>2 DEF RiskManager
    <2>4. PICK o \in Persist(m) : risk' = o.risk /\ Stored(o)
      BY <1>4 DEF Ask
    <2>5. /\ up /\ pc' = "idle" /\ uncounted' \in Nat
          /\ UNCHANGED <<up, engHalted, haltFile, worldVars, opened, faultVars, seenVars>>
      BY <1>4 DEF Ask, Idle, TypeOK
    <2> HIDE DEF m
    <2>. QED
      BY <2>1, <2>3, <2>4, <2>5, Zenon DEF Counts
  <1>5. CASE SendOk \/ SendRefused \/ SendRaises
    BY <1>5 DEF SendOk, SendRefused, SendRaises, Elsewhere, TypeOK
  <1>6. CASE Halt
    BY <1>6 DEF Halt, Idle, Elsewhere, TypeOK
  <1>11. CASE HaltFileByHand
    BY <1>11 DEF HaltFileByHand, Elsewhere, TypeOK
  <1>7. CASE EquityMoves \/ DayRolls
    BY <1>7 DEF EquityMoves, DayRolls, Elsewhere, TypeOK
  <1>12. CASE PermissionFlips
    BY <1>12 DEF PermissionFlips, Elsewhere, TypeOK
  <1>8. CASE UNCHANGED vars
    BY <1>8 DEF vars, Elsewhere, TypeOK
  <1>. QED
    BY <1>3, <1>4, <1>5, <1>6, <1>7, <1>8, <1>11, <1>12, ObservingSteps
       DEF Next, Sending

-----------------------------------------------------------------------------
(* The inductive invariant of what is on file.                             *)

Recorded ==
  /\ today > 0
  /\ up => Kept(risk, disk) /\ UnreadableLatched(risk)
  /\ pc # "idle" => up /\ risk.integrity # "state_unreadable"

Safe == TypeOK /\ Recorded

LEMMA SafeTyped == Safe => Typed
  BY EquityAssumption DEF Safe, TypeOK, Typed

(* What the process finds when it starts.                                  *)
LEMMA LoadedFacts ==
  ASSUME disk \in File, today > 0, today \in Nat
  PROVE  /\ Loaded \in RiskManager /\ UnreadableLatched(Loaded)
         /\ Kept(Loaded, disk) \/ Loaded.snap.day # today
         /\ Loaded.integrity # "state_unwritable"
         /\ disk.kind = "bad" => Loaded.integrity = "state_unreadable"
         /\ disk.kind = "good" => Loaded.snap = disk.snap /\ Loaded.integrity = ""
         /\ disk.kind = "absent" => Loaded = FirstManager /\ Loaded.integrity = ""
  <1>1. CASE disk.kind = "absent"
    <2>1. Loaded = FirstManager
      BY <1>1 DEF Loaded
    <2>2. FirstManager.integrity = "" /\ FirstManager.snap.day = 0
      BY DEF FirstManager, FirstSnapshot, NoDay
    <2>3. UnreadableLatched(FirstManager)
      BY <2>2 DEF UnreadableLatched
    <2>4. FirstManager.snap.day # today
      <3>1. FirstManager.snap.day = 0
        BY <2>2
      <3>2. 0 # today
        OBVIOUS
      <3>. QED
        BY <3>1, <3>2, Zenon
    <2>. QED
      BY <1>1, <2>1, <2>2, <2>3, <2>4, FirstTypes, Zenon
  <1>2. CASE disk.kind = "good"
    <2>1. Loaded = [FirstManager EXCEPT !.snap = disk.snap] /\ disk.snap \in Snapshot
      BY <1>2 DEF Loaded, File
    <2>2. Loaded \in RiskManager /\ Loaded.snap = disk.snap /\ Loaded.integrity = ""
      BY <2>1, FirstTypes DEF FirstManager, RiskManager, Reasons
    <2>. QED
      BY <1>2, <2>2 DEF UnreadableLatched, Kept
  <1>3. CASE disk.kind = "bad"
    <2> DEFINE latched == Latched(FirstManager, "state_unreadable")
    <2>1. latched \in RiskManager /\ latched.halted /\ latched.reason = "state_unreadable"
      BY FirstTypes, LatchedFacts DEF Reasons
    <2> HIDE DEF latched
    <2>2. Loaded = [latched EXCEPT !.integrity = "state_unreadable"]
      BY <1>3 DEF Loaded, latched
    <2>3. /\ Loaded \in RiskManager /\ Loaded.halted = latched.halted
          /\ Loaded.reason = latched.reason /\ Loaded.integrity = "state_unreadable"
      BY <2>1, <2>2 DEF RiskManager
    <2>. QED
      BY <1>3, <2>1, <2>3 DEF UnreadableLatched, Kept
  <1>. QED
    BY <1>1, <1>2, <1>3 DEF File

LEMMA WitnessTyped ==
  ASSUME TypeOK, NEW d \in Nat, Witness(d)
  PROVE  seen' \in SeenType /\ allowances' \in Nat
  <1>1. equity \in Nat /\ allowances \in Nat /\ seen \in SeenType
    BY EquityAssumption DEF TypeOK, SeenType
  <1>2. MaxOf(seen.peak, equity) \in Nat
    BY <1>1 DEF MaxOf, SeenType
  <1>. QED
    BY <1>1, <1>2 DEF Witness, SeenType

(* One step of a running manager, with what the lemmas above say of it.    *)
LEMMA ObserveStep ==
  ASSUME Safe, NEW d \in Nat, Observes(d)
  PROVE  /\ risk' \in RiskManager /\ disk' \in File /\ writeFails' \in Nat
         /\ Kept(risk', disk') /\ UnreadableLatched(risk')
         /\ risk.integrity = "state_unreadable" =>
              risk'.integrity = "state_unreadable" /\ disk' = disk
         /\ risk.integrity # "state_unreadable" => risk'.integrity # "state_unreadable"
         /\ pc' = "idle" \/ (pc' = "sending" /\ ~risk'.halted /\ mayTrade)
         /\ pc' = "sending" => EquityHaltReason(risk'.snap) = ""
         /\ risk'.snap = Updated(risk.snap, d)
         /\ writeFails' >= writeFails
         /\ writeFails' = writeFails /\ risk.integrity # "state_unreadable" =>
              /\ risk'.integrity = risk.integrity
              /\ \/ disk' = [kind |-> "good", snap |-> OnDisk(risk'.snap)]
                 \/ disk' = disk /\ Durable(risk'.snap) = Durable(risk.snap)
  <1>1. PICK o \in Observe(risk, d) :
          /\ Stored(o)
          /\ \/ risk' = o.risk /\ pc' = "idle"
             \/ /\ risk' = Circuit(o.risk)
                /\ \/ pc' = "idle"
                   \/ pc' = "sending" /\ ~Circuit(o.risk).halted /\ mayTrade
    BY DEF Observes
  <1>2. Typed /\ up /\ Kept(risk, disk) /\ UnreadableLatched(risk) /\ risk \in RiskManager
    BY SafeTyped DEF Safe, Recorded, Observes, Typed
  <1>3. /\ o \in Outcomes /\ o.risk.snap = Updated(risk.snap, d)
        /\ Kept(o.risk, o.disk) /\ UnreadableLatched(o.risk)
        /\ risk.integrity = "state_unreadable" =>
             o.risk.integrity = "state_unreadable" /\ o.disk = disk
        /\ risk.integrity # "state_unreadable" => o.risk.integrity # "state_unreadable"
        /\ o.fails >= writeFails
        /\ o.fails = writeFails /\ risk.integrity # "state_unreadable" =>
             /\ o.risk.integrity = risk.integrity
             /\ \/ o.disk = [kind |-> "good", snap |-> OnDisk(o.risk.snap)]
                \/ o.disk = disk /\ Durable(o.risk.snap) = Durable(risk.snap)
    BY <1>2, ObserveFacts
  <1>4. o.risk \in RiskManager /\ disk' = o.disk /\ writeFails' = o.fails
        /\ o.disk \in File /\ o.fails \in Nat
    BY <1>1, <1>3 DEF Stored, Outcomes
  <1>5. CASE risk' = o.risk /\ pc' = "idle"
    BY <1>3, <1>4, <1>5
  <1>6. CASE /\ risk' = Circuit(o.risk)
             /\ \/ pc' = "idle"
                \/ pc' = "sending" /\ ~Circuit(o.risk).halted /\ mayTrade
    <2>1. /\ risk' \in RiskManager /\ risk'.snap = o.risk.snap
          /\ risk'.integrity = o.risk.integrity
          /\ o.risk.halted => risk'.halted /\ risk'.reason \in {o.risk.reason, "halt_file"}
          /\ ~risk'.halted /\ mayTrade => EquityHaltReason(risk'.snap) = ""
      BY <1>4, <1>6, CircuitFacts
    <2>2. Kept(risk', disk')
      BY <1>3, <1>4, <2>1 DEF Kept
    <2>3. UnreadableLatched(risk')
      BY <1>3, <2>1 DEF UnreadableLatched
    <2>4. pc' = "idle" \/ (pc' = "sending" /\ ~risk'.halted /\ mayTrade)
      BY <1>6
    <2>. QED
      BY <1>3, <1>4, <2>1, <2>2, <2>3, <2>4
  <1>. QED
    BY <1>1, <1>5, <1>6

LEMMA CountStep ==
  ASSUME Safe, Counts
  PROVE  /\ risk' \in RiskManager /\ disk' \in File /\ writeFails' \in Nat
         /\ Kept(risk', disk') /\ UnreadableLatched(risk')
         /\ risk.integrity = "state_unreadable" =>
              risk'.integrity = "state_unreadable" /\ disk' = disk
         /\ risk.integrity # "state_unreadable" => risk'.integrity # "state_unreadable"
         /\ risk'.snap.day = risk.snap.day /\ risk'.snap.start = risk.snap.start
         /\ risk'.snap.peak = risk.snap.peak
         /\ writeFails' >= writeFails
         /\ writeFails' = writeFails /\ risk.integrity # "state_unreadable" =>
              /\ risk'.integrity = risk.integrity
              /\ disk' = [kind |-> "good", snap |-> OnDisk(risk'.snap)]
  <1>0. PICK m \in RiskManager :
          /\ m.halted = risk.halted /\ m.reason = risk.reason
          /\ m.integrity = risk.integrity
          /\ m.snap.day = risk.snap.day /\ m.snap.start = risk.snap.start
          /\ m.snap.peak = risk.snap.peak
          /\ \E o \in Persist(m) : risk' = o.risk /\ Stored(o)
    BY Zenon DEF Counts
  <1>1. PICK o \in Persist(m) : risk' = o.risk /\ Stored(o)
    BY <1>0
  <1>2. Typed /\ UnreadableLatched(risk)
    BY SafeTyped DEF Safe, Recorded, Counts
  <1>3. UnreadableLatched(m)
    BY <1>0, <1>2 DEF UnreadableLatched
  <1>4. /\ o \in Outcomes /\ o.risk.snap = m.snap
        /\ Kept(o.risk, o.disk) /\ UnreadableLatched(o.risk)
        /\ m.integrity = "state_unreadable" => o.risk = m /\ o.disk = disk
        /\ m.integrity # "state_unreadable" => o.risk.integrity # "state_unreadable"
        /\ o.fails >= writeFails
        /\ o.fails = writeFails /\ m.integrity # "state_unreadable" =>
             o.risk = m /\ o.disk = [kind |-> "good", snap |-> OnDisk(m.snap)]
    BY <1>2, <1>3, PersistFacts
  <1>5. o.risk \in RiskManager /\ disk' = o.disk /\ writeFails' = o.fails
        /\ o.disk \in File /\ o.fails \in Nat
    BY <1>1, <1>4 DEF Stored, Outcomes
  <1>. QED
    BY <1>0, <1>1, <1>4, <1>5

LEMMA StartStep ==
  ASSUME Safe, Start
  PROVE  /\ risk' \in RiskManager /\ disk' \in File /\ writeFails' \in Nat
         /\ Kept(risk', disk') /\ UnreadableLatched(risk')
         /\ disk.kind = "bad" => risk'.integrity = "state_unreadable" /\ disk' = disk
         /\ disk.kind # "bad" => risk'.integrity # "state_unreadable"
         /\ risk'.snap = Updated(Loaded.snap, today)
         /\ writeFails' >= writeFails
         /\ writeFails' = writeFails /\ disk.kind # "bad" =>
              /\ risk'.integrity = ""
              /\ \/ disk' = [kind |-> "good", snap |-> OnDisk(risk'.snap)]
                 \/ disk' = disk /\ Durable(risk'.snap) = Durable(Loaded.snap)
  <1>1. PICK o \in Observe(Loaded, today) : risk' = o.risk /\ Stored(o)
    BY DEF Start
  <1>2. Typed /\ today \in Nat /\ today > 0 /\ disk \in File
    BY SafeTyped DEF Safe, Recorded, TypeOK
  <1>3. /\ Loaded \in RiskManager /\ UnreadableLatched(Loaded)
        /\ Kept(Loaded, disk) \/ Loaded.snap.day # today
        /\ disk.kind = "bad" => Loaded.integrity = "state_unreadable"
        /\ disk.kind # "bad" => Loaded.integrity = ""
    BY <1>2, LoadedFacts DEF File
  <1>4. /\ o \in Outcomes /\ o.risk.snap = Updated(Loaded.snap, today)
        /\ Kept(o.risk, o.disk) /\ UnreadableLatched(o.risk)
        /\ Loaded.integrity = "state_unreadable" =>
             o.risk.integrity = "state_unreadable" /\ o.disk = disk
        /\ Loaded.integrity # "state_unreadable" => o.risk.integrity # "state_unreadable"
        /\ o.fails >= writeFails
        /\ o.fails = writeFails /\ Loaded.integrity # "state_unreadable" =>
             /\ o.risk.integrity = Loaded.integrity
             /\ \/ o.disk = [kind |-> "good", snap |-> OnDisk(o.risk.snap)]
                \/ o.disk = disk /\ Durable(o.risk.snap) = Durable(Loaded.snap)
    BY <1>2, <1>3, ObserveFacts
  <1>5. o.risk \in RiskManager /\ disk' = o.disk /\ writeFails' = o.fails
        /\ o.disk \in File /\ o.fails \in Nat
    BY <1>1, <1>4 DEF Stored, Outcomes
  <1>. QED
    BY <1>1, <1>3, <1>4, <1>5

LEMMA ResumeStep ==
  ASSUME Safe, Resume
  PROVE  /\ risk' \in RiskManager /\ Kept(risk', disk) /\ UnreadableLatched(risk')
         /\ risk'.snap = risk.snap /\ risk'.integrity = risk.integrity
         /\ risk.integrity = "state_unreadable" => risk'.halted
         /\ engHalted' \in BOOLEAN
  <1>1. /\ risk \in RiskManager /\ Kept(risk, disk) /\ UnreadableLatched(risk)
        /\ engHalted \in BOOLEAN
    BY DEF Safe, Recorded, TypeOK, Resume, Idle
  <1>2. risk.integrity # "" => Leftover(risk) = risk.integrity
    BY <1>1, ReasonsOfLoss DEF Leftover, RiskManager, Reasons
  <1>3. Leftover(risk) \in Reasons
    BY <1>1, ReasonsOfLoss DEF Leftover, RiskManager, Reasons
  <1>4. CASE Leftover(risk) # ""
    <2>1. risk' = Latched(risk, Leftover(risk)) /\ engHalted' = engHalted
      BY <1>4 DEF Resume
    <2>2. /\ risk' \in RiskManager /\ risk'.halted /\ risk'.reason = Leftover(risk)
          /\ risk'.snap = risk.snap /\ risk'.integrity = risk.integrity
      BY <1>1, <1>3, <2>1, LatchedFacts
    <2>3. Kept(risk', disk)
      BY <1>1, <2>2 DEF Kept
    <2>4. UnreadableLatched(risk')
      BY <1>2, <2>2 DEF UnreadableLatched
    <2>. QED
      BY <1>1, <2>1, <2>2, <2>3, <2>4
  <1>5. CASE Leftover(risk) = ""
    <2>1. risk' = [risk EXCEPT !.halted = FALSE, !.reason = ""] /\ engHalted' = FALSE
      BY <1>5 DEF Resume
    <2>2. risk.integrity = ""
      BY <1>5 DEF Leftover
    <2>3. risk' \in RiskManager /\ risk'.snap = risk.snap /\ risk'.integrity = ""
      BY <1>1, <2>1, <2>2 DEF RiskManager, Reasons
    <2>4. Kept(risk', disk)
      BY <1>1, <2>2, <2>3 DEF Kept
    <2>5. UnreadableLatched(risk')
      BY <2>3 DEF UnreadableLatched
    <2>. QED
      BY <2>1, <2>2, <2>3, <2>4, <2>5
  <1>. QED
    BY <1>4, <1>5

-----------------------------------------------------------------------------
(* The steps that neither observe nor count.                               *)

LEMMA InitSafe == Init => Safe
  <1>1. SUFFICES ASSUME Init PROVE Safe
    OBVIOUS
  <1>2. disk \in File /\ risk \in RiskManager
    BY <1>1, FirstTypes DEF Init, File
  <1>3. TypeOK
    BY <1>1, <1>2, EquityAssumption DEF Init, TypeOK, NoDay
  <1>. QED
    BY <1>1, <1>3 DEF Init, Safe, Recorded

LEMMA ElsewhereSafe ==
  ASSUME Safe, Elsewhere
  PROVE  Safe'
  <1>1. TypeOK'
    BY DEF Safe, TypeOK, Elsewhere
  <1>2. Recorded'
    BY DEF Safe, TypeOK, Recorded, Elsewhere
  <1>. QED
    BY <1>1, <1>2 DEF Safe

LEMMA StoppedSafe ==
  ASSUME Safe, Crash \/ Corrupt \/ DeleteState
  PROVE  Safe'
  <1>1. CASE Crash
    <2>1. risk' \in RiskManager
      BY <1>1, FirstTypes DEF Crash
    <2>3. opened' \in Nat /\ uncounted' \in Nat /\ crashes' \in Nat
      BY <1>1 DEF Safe, TypeOK, Crash
    <2>4. UNCHANGED <<fileVars, worldVars, seenVars, writeFails, deletes>>
          /\ up' \in BOOLEAN /\ engHalted' \in BOOLEAN /\ pc' = "idle"
      BY <1>1 DEF Crash
    <2>2. TypeOK'
      BY <2>1, <2>3, <2>4 DEF Safe, TypeOK
    <2>. QED
      BY <1>1, <2>2 DEF Safe, Recorded, Crash
  <1>2. CASE Corrupt
    <2>1. disk' \in File
      BY <1>2, FirstTypes DEF Corrupt, File
    <2>2. TypeOK'
      BY <1>2, <2>1 DEF Safe, TypeOK, Corrupt
    <2>. QED
      BY <1>2, <2>2 DEF Safe, Recorded, Corrupt
  <1>3. CASE DeleteState
    <2>1. disk' \in File
      BY <1>3, FirstTypes DEF DeleteState, File
    <2>3. seen' \in SeenType
      BY <1>3, BoundAssumption, EquityAssumption DEF DeleteState, SeenType, NoDay
    <2>2. TypeOK'
      BY <1>3, <2>1, <2>3 DEF Safe, TypeOK, DeleteState, SeenType
    <2>. QED
      BY <1>3, <2>2 DEF Safe, Recorded, DeleteState
  <1>. QED
    BY <1>1, <1>2, <1>3

LEMMA ObservesSafe ==
  ASSUME Safe, NEW d \in Nat, Observes(d)
  PROVE  Safe'
  <1>1. /\ risk' \in RiskManager /\ disk' \in File /\ writeFails' \in Nat
        /\ Kept(risk', disk') /\ UnreadableLatched(risk')
        /\ pc' = "idle" \/ (pc' = "sending" /\ ~risk'.halted /\ mayTrade)
    BY ObserveStep
  <1>2. seen' \in SeenType /\ allowances' \in Nat /\ engHalted' \in BOOLEAN
    <2>1. risk'.halted \in BOOLEAN
      BY <1>1 DEF RiskManager
    <2>. QED
      BY <2>1, WitnessTyped DEF Safe, TypeOK, Observes
  <1>3. TypeOK'
    BY <1>1, <1>2 DEF Safe, TypeOK, Observes, SeenType
  <1>4. pc' # "idle" => up' /\ risk'.integrity # "state_unreadable"
    BY <1>1 DEF UnreadableLatched, Observes
  <1>. QED
    BY <1>1, <1>3, <1>4 DEF Safe, Recorded, Observes

LEMMA CountsSafe ==
  ASSUME Safe, Counts
  PROVE  Safe'
  <1>1. /\ risk' \in RiskManager /\ disk' \in File /\ writeFails' \in Nat
        /\ Kept(risk', disk') /\ UnreadableLatched(risk')
    BY CountStep
  <1>2. TypeOK'
    BY <1>1 DEF Safe, TypeOK, Counts
  <1>. QED
    BY <1>1, <1>2 DEF Safe, Recorded, Counts

LEMMA StartSafe ==
  ASSUME Safe, Start
  PROVE  Safe'
  <1>1. /\ risk' \in RiskManager /\ disk' \in File /\ writeFails' \in Nat
        /\ Kept(risk', disk') /\ UnreadableLatched(risk')
    BY StartStep
  <1>2. seen' \in SeenType /\ allowances' \in Nat
    <2>1. today \in Nat /\ TypeOK /\ Witness(today)
      BY DEF Safe, TypeOK, Start
    <2>. QED
      BY <2>1, WitnessTyped
  <1>3. pc = "idle" /\ pc' = "idle"
    BY DEF Safe, TypeOK, Recorded, Start
  <1>4. TypeOK'
    BY <1>1, <1>2, <1>3 DEF Safe, TypeOK, Start, SeenType
  <1>. QED
    BY <1>1, <1>3, <1>4 DEF Safe, Recorded, Start

LEMMA ResumeSafe ==
  ASSUME Safe, Resume
  PROVE  Safe'
  <1>1. /\ risk' \in RiskManager /\ Kept(risk', disk) /\ UnreadableLatched(risk')
        /\ engHalted' \in BOOLEAN
    BY ResumeStep
  <1>2. TypeOK'
    BY <1>1 DEF Safe, TypeOK, Resume
  <1>. QED
    BY <1>1, <1>2 DEF Safe, Recorded, Resume, Idle

LEMMA StepSafe ==
  ASSUME Safe, [Next]_vars
  PROVE  Safe'
  <1>1. today \in Nat /\ TypeOK
    BY DEF Safe, TypeOK
  <1>2. ASSUME NEW d \in BarDay, Observes(d)
        PROVE  Safe'
    <2>1. d \in Nat
      BY DEF BarDay
    <2>. QED
      BY <1>2, <2>1, ObservesSafe
  <1>3. CASE Observes(today)
    BY <1>1, <1>3, ObservesSafe
  <1>. QED
    BY <1>1, <1>2, <1>3, Steps, ElsewhereSafe, CountsSafe, ResumeSafe, StartSafe,
       StoppedSafe

THEOREM SafeAlways == Spec => []Safe
  <1>1. Init => Safe
    BY InitSafe
  <1>2. Safe /\ [Next]_vars => Safe'
    BY StepSafe
  <1>. QED
    BY <1>1, <1>2, PTL DEF Spec

(* Every reachable state is well typed: the manager always holds a         *)
(* snapshot and a reason the code knows.                                   *)
THEOREM TypeCorrect == Spec => []TypeOK
  <1>1. Safe => TypeOK
    BY DEF Safe
  <1>. QED
    BY <1>1, SafeAlways, PTL

(* A manager that does not halt has its budgets on file, after any number  *)
(* of failed writes, crashes, midnights and operator commands.             *)
THEOREM BudgetsOnFile == Spec => []UnhaltedIsOnFile
  <1>1. Safe => UnhaltedIsOnFile
    BY DEF Safe, Recorded, Kept, UnhaltedIsOnFile, OnFile
  <1>. QED
    BY <1>1, SafeAlways, PTL

(* No step leads a desk that met an unreadable file out of its halt, sends *)
(* an order from it, or writes over the file.                              *)
THEOREM UnreadableHalts == Spec => UnreadableIsKept
  <1> DEFINE Act == up /\ risk.integrity = "state_unreadable" =>
                      /\ opened' <= opened /\ disk' = disk
                      /\ up' => risk'.halted /\ risk'.integrity = "state_unreadable"
  <1>1. ASSUME Safe, Safe', [Next]_vars, up, risk.integrity = "state_unreadable"
        PROVE  /\ opened' <= opened /\ disk' = disk
               /\ up' => risk'.halted /\ risk'.integrity = "state_unreadable"
    <2>1. /\ pc = "idle" /\ opened \in Nat /\ today \in Nat /\ TypeOK
          /\ UnreadableLatched(risk)
      BY <1>1 DEF Safe, TypeOK, Recorded
    <2>2. up' /\ risk'.integrity = "state_unreadable" => risk'.halted
      BY <1>1 DEF Safe, Recorded, UnreadableLatched
    <2>3. ASSUME NEW d \in Nat, Observes(d)
          PROVE  opened' <= opened /\ disk' = disk /\ risk'.integrity = "state_unreadable"
      <3>1. disk' = disk /\ risk'.integrity = "state_unreadable"
        BY <1>1, <2>3, ObserveStep
      <3>2. opened' = opened
        BY <2>3 DEF Observes
      <3>. QED
        BY <2>1, <3>1, <3>2
    <2>4. CASE Observes(today) \/ \E d \in BarDay : Observes(d)
      <3>1. BarDay \subseteq Nat
        BY DEF BarDay
      <3>. QED
        BY <2>1, <2>2, <2>3, <2>4, <3>1
    <2>5. CASE Elsewhere
      BY <1>1, <2>1, <2>2, <2>5 DEF Elsewhere
    <2>6. CASE Counts
      <3>1. disk' = disk /\ risk'.integrity = "state_unreadable"
        BY <1>1, <2>6, CountStep
      <3>2. opened' = opened
        BY <2>6 DEF Counts
      <3>. QED
        BY <2>1, <2>2, <3>1, <3>2
    <2>7. CASE Resume
      <3>1. risk'.integrity = "state_unreadable"
        BY <1>1, <2>7, ResumeStep
      <3>2. opened' = opened /\ disk' = disk
        BY <2>7 DEF Resume
      <3>. QED
        BY <2>1, <2>2, <3>1, <3>2
    <2>8. CASE Crash
      BY <2>1, <2>8 DEF Crash
    <2>9. CASE Start \/ Corrupt \/ DeleteState
      BY <1>1, <2>9 DEF Start, Corrupt, DeleteState
    <2>. QED
      BY <1>1, <2>1, <2>4, <2>5, <2>6, <2>7, <2>8, <2>9, Steps
  <1>2. Safe /\ Safe' /\ [Next]_vars => [Act]_vars
    BY <1>1
  <1>. QED
    BY <1>2, SafeAlways, PTL DEF Spec, UnreadableIsKept

-----------------------------------------------------------------------------
(* With every write done, the manager and its file hold what was observed  *)
(* under the date they go by, however the two clocks date it.              *)

Witnesses(k, w) == k.day = w.day /\ k.start = w.start /\ k.peak = w.peak

FirstSeen == [day |-> NoDay, start |-> InitialBalance, peak |-> InitialBalance]

Budget ==
  writeFails = 0 =>
    /\ up => risk.integrity # "state_unwritable"
    /\ up /\ risk.integrity = "state_unreadable" => disk.kind = "bad"
    /\ disk.kind = "good" => Witnesses(disk.snap, seen)
    /\ disk.kind = "absent" => ~up /\ seen = FirstSeen

(* What the step lemmas have in common: the manager and its file after a   *)
(* step, and what is known of the snapshot the step started from.          *)
LEMMA KeptWitnesses ==
  ASSUME NEW m \in RiskManager, NEW k \in File, Kept(m, k), m.integrity = "", NEW w
  PROVE  k.kind = "good" /\ (Witnesses(k.snap, w) <=> Witnesses(m.snap, w))
  <1>1. k.kind = "good" /\ Durable(k.snap) = Durable(m.snap)
    BY DEF Kept
  <1>2. k.snap.day = m.snap.day /\ k.snap.start = m.snap.start /\ k.snap.peak = m.snap.peak
    BY <1>1, DurableFields DEF RiskManager, File
  <1>. QED
    BY <1>1, <1>2 DEF Witnesses

LEMMA WitnessUpdates ==
  ASSUME NEW s \in Snapshot, equity \in Nat, NEW d \in Nat, seen \in SeenType,
         Witnesses(s, seen), Witness(d)
  PROVE  Witnesses(Updated(s, d), seen')
  <1>1. /\ Updated(s, d).day = d
        /\ Updated(s, d).peak = MaxOf(s.peak, equity)
        /\ Updated(s, d).start = IF s.day = d THEN s.start ELSE equity
    BY UpdatedFacts
  <1>2. /\ seen'.day = d /\ seen'.peak = MaxOf(seen.peak, equity)
        /\ seen'.start = IF seen.day = d THEN seen.start ELSE equity
    BY DEF Witness
  <1>. QED
    BY <1>1, <1>2 DEF Witnesses

(* An observed manager that measures holds what was observed.              *)
LEMMA ObservedWitnesses ==
  ASSUME Safe, Budget, NEW d \in Nat, Observes(d), writeFails' = 0
  PROVE  /\ writeFails = 0
         /\ risk.integrity = "state_unreadable" \/
              (risk'.integrity = "" /\ Witnesses(risk'.snap, seen'))
  <1>1. /\ up /\ equity \in Nat /\ seen \in SeenType /\ Witness(d)
        /\ disk \in File /\ risk \in RiskManager /\ Kept(risk, disk) /\ writeFails \in Nat
    BY SafeTyped DEF Safe, TypeOK, Recorded, Observes, SeenType, Typed
  <1>2. /\ risk'.snap = Updated(risk.snap, d) /\ writeFails' >= writeFails
        /\ writeFails' = writeFails /\ risk.integrity # "state_unreadable" =>
             risk'.integrity = risk.integrity
    BY <1>1, ObserveStep
  <1>3. writeFails = 0
    BY <1>1, <1>2
  <1>4. CASE risk.integrity # "state_unreadable"
    <2>1. risk.integrity = ""
      BY <1>1, <1>3, <1>4 DEF RiskManager, Budget
    <2>2. Witnesses(risk.snap, seen)
      BY <1>1, <1>3, <2>1, KeptWitnesses DEF Budget
    <2>3. Witnesses(risk'.snap, seen')
      <3>1. risk.snap \in Snapshot
        BY <1>1 DEF RiskManager
      <3>. QED
        BY <1>1, <1>2, <2>2, <3>1, WitnessUpdates
    <2>. QED
      BY <1>2, <1>3, <1>4, <2>1, <2>3
  <1>. QED
    BY <1>3, <1>4

LEMMA ObservesBudget ==
  ASSUME Safe, Budget, NEW d \in Nat, Observes(d)
  PROVE  Budget'
  <1>1. SUFFICES ASSUME writeFails' = 0 PROVE Budget'
    BY DEF Budget
  <1>2. up /\ up'
    BY DEF Observes
  <1>3. /\ risk' \in RiskManager /\ disk' \in File /\ Kept(risk', disk')
        /\ risk.integrity = "state_unreadable" =>
             risk'.integrity = "state_unreadable" /\ disk' = disk
    BY <1>2, ObserveStep
  <1>4. CASE risk.integrity = "state_unreadable"
    BY <1>1, <1>2, <1>3, <1>4, ObservedWitnesses DEF Budget
  <1>5. CASE risk.integrity # "state_unreadable"
    <2>1. risk'.integrity = "" /\ Witnesses(risk'.snap, seen')
      BY <1>1, <1>5, ObservedWitnesses
    <2>2. disk'.kind = "good" /\ Witnesses(disk'.snap, seen')
      BY <1>3, <2>1, KeptWitnesses
    <2>. QED
      BY <2>1, <2>2 DEF Budget
  <1>. QED
    BY <1>4, <1>5

LEMMA CountsBudget ==
  ASSUME Safe, Budget, Counts
  PROVE  Budget'
  <1>1. SUFFICES ASSUME writeFails' = 0 PROVE Budget'
    BY DEF Budget
  <1>2. /\ up /\ up' /\ seen' = seen /\ risk \in RiskManager /\ disk \in File
        /\ Kept(risk, disk) /\ writeFails \in Nat
    BY DEF Safe, TypeOK, Recorded, Counts
  <1>3. /\ risk' \in RiskManager /\ disk' \in File /\ Kept(risk', disk')
        /\ risk.integrity = "state_unreadable" =>
             risk'.integrity = "state_unreadable" /\ disk' = disk
        /\ writeFails' >= writeFails
        /\ writeFails' = writeFails /\ risk.integrity # "state_unreadable" =>
             risk'.integrity = risk.integrity
    BY CountStep
  <1>4. /\ risk'.snap.day = risk.snap.day /\ risk'.snap.start = risk.snap.start
        /\ risk'.snap.peak = risk.snap.peak
    BY CountStep
  <1>5. writeFails = 0
    BY <1>1, <1>2, <1>3
  <1>6. CASE risk.integrity = "state_unreadable"
    BY <1>2, <1>3, <1>5, <1>6 DEF Budget
  <1>7. CASE risk.integrity # "state_unreadable"
    <2>1. risk.integrity = "" /\ risk'.integrity = ""
      BY <1>1, <1>2, <1>3, <1>5, <1>7 DEF RiskManager, Budget
    <2>2. Witnesses(risk.snap, seen)
      BY <1>2, <1>5, <2>1, KeptWitnesses DEF Budget
    <2>3. Witnesses(risk'.snap, seen')
      BY <1>2, <1>4, <2>2 DEF Witnesses
    <2>4. disk'.kind = "good" /\ Witnesses(disk'.snap, seen')
      BY <1>3, <2>1, <2>3, KeptWitnesses
    <2>. QED
      BY <2>1, <2>4 DEF Budget
  <1>. QED
    BY <1>6, <1>7

LEMMA StartBudget ==
  ASSUME Safe, Budget, Start
  PROVE  Budget'
  <1>1. SUFFICES ASSUME writeFails' = 0 PROVE Budget'
    BY DEF Budget
  <1>2. /\ equity \in Nat /\ today \in Nat /\ today > 0 /\ seen \in SeenType /\ Witness(today)
        /\ disk \in File /\ writeFails \in Nat /\ ~up /\ up'
    BY SafeTyped DEF Safe, TypeOK, Recorded, Start, SeenType, Typed
  <1>3. /\ risk' \in RiskManager /\ disk' \in File /\ Kept(risk', disk')
        /\ disk.kind = "bad" => risk'.integrity = "state_unreadable" /\ disk' = disk
        /\ writeFails' >= writeFails
        /\ writeFails' = writeFails /\ disk.kind # "bad" => risk'.integrity = ""
        /\ risk'.snap = Updated(Loaded.snap, today)
    BY StartStep
  <1>4. writeFails = 0
    <2>1. writeFails' >= writeFails
      BY <1>3
    <2>. QED
      BY <1>1, <1>2, <2>1
  <1>5. CASE disk.kind = "bad"
    BY <1>3, <1>5 DEF Budget
  <1>6. CASE disk.kind # "bad"
    <2>1. Loaded.snap \in Snapshot /\ Witnesses(Loaded.snap, seen)
      <3>1. CASE disk.kind = "good"
        BY <1>2, <1>4, <3>1, LoadedFacts DEF Budget, File
      <3>2. CASE disk.kind = "absent"
        <4>1. Loaded.snap = FirstSnapshot /\ seen = FirstSeen
          <5>1. Loaded = FirstManager
            BY <1>2, <3>2, LoadedFacts
          <5>2. FirstManager.snap = FirstSnapshot
            BY DEF FirstManager
          <5>3. seen = FirstSeen
            BY <1>4, <3>2 DEF Budget
          <5>. QED
            BY <5>1, <5>2, <5>3
        <4>. QED
          BY <4>1, FirstTypes DEF FirstSeen, FirstSnapshot, Witnesses
      <3>. QED
        BY <1>2, <1>6, <3>1, <3>2 DEF File
    <2>2. Witnesses(risk'.snap, seen')
      BY <1>2, <1>3, <2>1, WitnessUpdates
    <2>3. risk'.integrity = ""
      BY <1>1, <1>3, <1>4, <1>6
    <2>4. disk'.kind = "good" /\ Witnesses(disk'.snap, seen')
      BY <1>3, <2>2, <2>3, KeptWitnesses
    <2>. QED
      BY <2>3, <2>4 DEF Budget
  <1>. QED
    BY <1>5, <1>6

LEMMA StepBudget ==
  ASSUME Safe, Budget, [Next]_vars
  PROVE  Budget'
  <1>1. today \in Nat /\ TypeOK
    BY DEF Safe, TypeOK
  <1>2. CASE Observes(today) \/ \E d \in BarDay : Observes(d)
    <2>1. \E d \in Nat : Observes(d)
      BY <1>1, <1>2 DEF BarDay
    <2>. QED
      BY <2>1, ObservesBudget
  <1>3. CASE Elsewhere
    BY <1>3 DEF Elsewhere, Budget
  <1>4. CASE Resume
    <2>1. risk'.integrity = risk.integrity
      BY <1>4, ResumeStep
    <2>. QED
      BY <1>4, <2>1 DEF Resume, Budget
  <1>5. CASE Crash
    BY <1>5 DEF Crash, Budget
  <1>6. CASE Corrupt
    BY <1>6 DEF Corrupt, Budget
  <1>7. CASE DeleteState
    BY <1>7 DEF DeleteState, Budget, FirstSeen
  <1>. QED
    BY <1>1, <1>2, <1>3, <1>4, <1>5, <1>6, <1>7, Steps, CountsBudget, StartBudget

LEMMA BudgetAlways == Spec => [](Safe /\ Budget)
  <1>1. Init => Safe /\ Budget
    BY InitSafe DEF Init, Budget, FirstSeen
  <1>2. Safe /\ Budget /\ [Next]_vars => (Safe /\ Budget)'
    BY StepSafe, StepBudget
  <1>. QED
    BY <1>1, <1>2, PTL DEF Spec

(* With every write done the start of the day and the peak in force are    *)
(* those observed under the date the desk goes by, through any number of   *)
(* crashes, restarts, midnights and commands, whatever the venue's bars    *)
(* are dated.                                                              *)
THEOREM BudgetsAreTrue == Spec => []BudgetsSurvive
  <1>1. Safe /\ Budget => BudgetsSurvive
    <2>1. SUFFICES ASSUME Safe, Budget, up, risk.integrity = "", writeFails = 0
                   PROVE  Witnesses(risk.snap, seen)
      BY DEF BudgetsSurvive, Witnesses
    <2>2. risk \in RiskManager /\ disk \in File /\ Kept(risk, disk)
      BY <2>1 DEF Safe, TypeOK, Recorded
    <2>3. disk.kind = "good" /\ (Witnesses(disk.snap, seen) <=> Witnesses(risk.snap, seen))
      BY <2>1, <2>2, KeptWitnesses
    <2>. QED
      BY <2>1, <2>3 DEF Budget
  <1>. QED
    BY <1>1, BudgetAlways, PTL

(* No order is allowed once the loss observed under the desk's date, or    *)
(* the drawdown from the highest equity observed, has reached its limit.   *)
THEOREM SpentBudgetHolds == Spec => SpentBudgetStopsEntries
  <1> DEFINE true == [start |-> seen'.start, peak |-> seen'.peak, equity |-> equity]
             Act == pc' = "sending" /\ pc = "idle" /\ writeFails' = 0 =>
                      EquityHaltReason(true) = ""
  <1>1. ASSUME Safe, Budget, [Next]_vars, pc' = "sending", pc = "idle", writeFails' = 0
        PROVE  EquityHaltReason(true) = ""
    <2>1. today \in Nat /\ TypeOK /\ equity \in Nat /\ risk \in RiskManager
      BY <1>1, SafeTyped DEF Safe, TypeOK, Typed
    <2>2. ~Elsewhere /\ ~Counts /\ ~Resume /\ ~Crash /\ ~Start /\ ~Corrupt /\ ~DeleteState
      BY <1>1 DEF Elsewhere, Counts, Resume, Crash, Start, Corrupt, DeleteState
    <2>3. PICK d \in Nat : Observes(d)
      BY <1>1, <2>1, <2>2, Steps DEF BarDay
    <2>4. /\ EquityHaltReason(risk'.snap) = "" /\ risk'.snap = Updated(risk.snap, d)
          /\ ~risk'.halted /\ UnreadableLatched(risk')
          /\ risk.integrity = "state_unreadable" => risk'.integrity = "state_unreadable"
      BY <1>1, <2>1, <2>3, ObserveStep
    <2>5. risk'.snap.equity = equity
      <3>1. risk.snap \in Snapshot
        BY <2>1 DEF RiskManager
      <3>2. Updated(risk.snap, d).equity = equity
        BY <2>1, <3>1, UpdatedFacts
      <3>. QED
        BY <2>4, <3>2, Zenon
    <2>6. Witnesses(risk'.snap, seen')
      BY <1>1, <2>3, <2>4, ObservedWitnesses DEF UnreadableLatched
    <2>7. true.start = risk'.snap.start /\ true.peak = risk'.snap.peak
          /\ true.equity = risk'.snap.equity
      BY <2>5, <2>6 DEF Witnesses
    <2> HIDE DEF true
    <2>. QED
      BY <2>4, <2>7 DEF EquityHaltReason, DailyLoss, Drawdown
  <1>2. Safe /\ Budget /\ [Next]_vars => [Act]_vars
    BY <1>1
  <1>. QED
    BY <1>2, BudgetAlways, PTL DEF Spec, SpentBudgetStopsEntries

-----------------------------------------------------------------------------
(* The cap on the trades of a day.  Each daily budget handed out brings an *)
(* allowance of the cap with it.  What the budgets handed out before the   *)
(* last one allowed, with what a snapshot counts under the date last       *)
(* observed, covers the sends of today but those in no count: lost with an *)
(* answer, or with a write, or made before the day was first observed; and *)
(* the one not yet counted.                                                *)

Owed == opened - uncounted - writeFails - (IF pc = "sent" THEN 1 ELSE 0)

(* What n budgets allow, and what those before the last of them did.       *)
Allowed(n) == MaxTradesPerDay * MaxOf(n, 1)
Before(n)  == IF n = 0 THEN 0 ELSE MaxTradesPerDay * (n - 1)

CoversAt(s, owed, day, n) ==
  owed <= Before(n) + (IF n > 0 /\ s.day = day THEN s.trades ELSE 0)

Room == opened + (IF pc = "sending" THEN 1 ELSE 0)
          <= Allowed(allowances) + uncounted + writeFails

(* The manager goes by the date last observed under.                       *)
Dated == up => risk.snap.day = seen.day

Cap ==
  /\ Dated
  /\ deletes = 0 =>
       /\ up /\ risk.integrity # "state_unreadable" =>
            CoversAt(risk.snap, Owed, seen.day, allowances)
       /\ disk.kind = "good" => CoversAt(disk.snap, Owed, seen.day, allowances)
       /\ disk.kind = "absent" => Owed <= 0
       /\ Room

LEMMA Times == \A c, n \in Nat : c * n \in Nat /\ c * (n + 1) = c * n + c
  OBVIOUS

LEMMA Allowances ==
  ASSUME NEW n \in Nat
  PROVE  /\ Allowed(n) \in Nat /\ Before(n) \in Nat
         /\ n > 0 => Allowed(n) = Before(n) + MaxTradesPerDay /\ Before(n + 1) = Allowed(n)
         /\ Before(0) = 0 /\ Allowed(0) = MaxTradesPerDay
         /\ Allowed(n + 1) >= Allowed(n)
  <1> DEFINE c == MaxTradesPerDay
  <1>1. c \in Nat
    BY LimitAssumption
  <1> HIDE DEF c
  <1>2. PICK p \in Nat : p = c * n
    BY <1>1, Times, Zenon
  <1>3. c * (n + 1) = p + c
    BY <1>1, <1>2, Times, Zenon
  <1>4. Allowed(0) = c * 1 /\ Before(0) = 0
    BY DEF Allowed, Before, MaxOf, c
  <1>5. c * 1 = c
    BY <1>1
  <1>6. MaxOf(n + 1, 1) = n + 1 /\ n + 1 # 0 /\ (n + 1) - 1 = n
    BY DEF MaxOf
  <1>7. Allowed(n + 1) = p + c
    BY <1>3, <1>6, Zenon DEF Allowed, c
  <1>8. Before(n + 1) = p
    BY <1>2, <1>6, Zenon DEF Before, c
  <1>9. CASE n = 0
    <2>1. Allowed(n) = c /\ Before(n) = 0
      BY <1>4, <1>5, <1>9
    <2>. QED
      BY <1>1, <1>2, <1>4, <1>5, <1>7, <1>9, <2>1 DEF c
  <1>10. CASE n # 0
    <2>1. MaxOf(n, 1) = n /\ n > 0
      BY <1>10 DEF MaxOf
    <2>2. Allowed(n) = p
      BY <1>2, <2>1, Zenon DEF Allowed, c
    <2>3. PICK m \in Nat : m = n - 1 /\ n = m + 1
      BY <1>10
    <2>4. PICK q \in Nat : q = c * m
      BY <1>1, Times, Zenon
    <2>5. p = q + c
      BY <1>1, <1>2, <2>3, <2>4, Times, Zenon
    <2>6. Before(n) = q
      BY <1>10, <2>3, <2>4, Zenon DEF Before, c
    <2>7. p + c >= p
      BY <1>1
    <2>. QED
      BY <1>4, <1>5, <1>7, <1>8, <2>2, <2>5, <2>6, <2>7, Zenon DEF c
  <1>. QED
    BY <1>9, <1>10

LEMMA Counters ==
  ASSUME TypeOK
  PROVE  /\ opened \in Nat /\ uncounted \in Nat /\ writeFails \in Nat /\ deletes \in Nat
         /\ allowances \in Nat /\ Allowed(allowances) \in Nat /\ Before(allowances) \in Nat
         /\ today \in Nat /\ Owed \in Int /\ MaxTradesPerDay \in Nat /\ MaxTradesPerDay > 0
         /\ risk.snap \in Snapshot /\ disk.snap \in Snapshot
         /\ risk.snap.trades \in Nat /\ disk.snap.trades \in Nat
  <1>1. risk.snap \in Snapshot /\ disk.snap \in Snapshot
    BY DEF TypeOK, RiskManager, File
  <1>2. risk.snap.trades \in Nat /\ disk.snap.trades \in Nat
    BY <1>1 DEF Snapshot
  <1>3. /\ opened \in Nat /\ uncounted \in Nat /\ writeFails \in Nat /\ deletes \in Nat
        /\ today \in Nat /\ MaxTradesPerDay \in Nat /\ MaxTradesPerDay > 0
    BY LimitAssumption DEF TypeOK
  <1>4. Owed \in Int
    BY <1>3 DEF Owed
  <1>5. allowances \in Nat /\ Allowed(allowances) \in Nat /\ Before(allowances) \in Nat
    BY Allowances DEF TypeOK
  <1>. QED
    BY <1>1, <1>2, <1>3, <1>4, <1>5

(* A step that opens and counts nothing, with no send to count, owes less. *)
LEMMA OwesLess ==
  ASSUME opened \in Nat, uncounted \in Nat, writeFails \in Nat, writeFails' \in Nat,
         writeFails' >= writeFails, opened' = opened, uncounted' = uncounted,
         pc # "sent", pc' # "sent"
  PROVE  Owed \in Int /\ Owed' \in Int /\ Owed' <= Owed
  <1>1. PICK fails \in Nat : fails = writeFails'
    OBVIOUS
  <1>2. fails >= writeFails
    BY <1>1, Zenon
  <1>3. Owed = opened - uncounted - writeFails
    BY DEF Owed
  <1>4. Owed' = opened - uncounted - fails
    BY <1>1 DEF Owed
  <1>5. /\ opened - uncounted - writeFails \in Int /\ opened - uncounted - fails \in Int
        /\ opened - uncounted - fails <= opened - uncounted - writeFails
    BY <1>2
  <1>. QED
    BY <1>3, <1>4, <1>5, Zenon

(* Such a step leaves the room there was, and a new budget adds to it.     *)
LEMMA RoomStays ==
  ASSUME TypeOK, Room, writeFails' \in Nat, writeFails' >= writeFails,
         opened' = opened, uncounted' = uncounted, pc' # "sending",
         allowances' = allowances \/ allowances' = allowances + 1
  PROVE  Room'
  <1>1. /\ opened \in Nat /\ uncounted \in Nat /\ writeFails \in Nat
        /\ allowances \in Nat /\ Allowed(allowances) \in Nat
    BY Counters
  <1>2. PICK fails \in Nat : fails = writeFails'
    OBVIOUS
  <1>3. fails >= writeFails
    BY <1>2, Zenon
  <1>4. PICK a \in Nat : a = Allowed(allowances)
    BY <1>1
  <1>5. PICK b \in Nat : b = Allowed(allowances') /\ b >= a
    <2>1. Allowed(allowances + 1) \in Nat /\ Allowed(allowances + 1) >= Allowed(allowances)
      BY <1>1, Allowances
    <2>2. Allowed(allowances) >= Allowed(allowances)
      BY <1>1
    <2>. QED
      BY <1>1, <1>4, <2>1, <2>2, Zenon
  <1>6. opened <= a + uncounted + writeFails
    <2>1. opened + (IF pc = "sending" THEN 1 ELSE 0) <= a + uncounted + writeFails
      BY <1>4, Zenon DEF Room
    <2>. QED
      BY <1>1, <2>1
  <1>7. opened + 0 <= b + uncounted + fails
    BY <1>1, <1>3, <1>5, <1>6
  <1>. QED
    BY <1>2, <1>5, <1>7, Zenon DEF Room

LEMMA CoversLess ==
  ASSUME NEW s, NEW owed \in Int, NEW less \in Int, NEW day, NEW n \in Nat, s.trades \in Nat,
         CoversAt(s, owed, day, n), less <= owed
  PROVE  CoversAt(s, less, day, n)
  <1>1. PICK b \in Nat : b = Before(n)
    BY Allowances
  <1>2. PICK t \in Nat : t = IF n > 0 /\ s.day = day THEN s.trades ELSE 0
    OBVIOUS
  <1>3. owed <= b + t
    BY <1>1, <1>2, Zenon DEF CoversAt
  <1>4. less <= b + t
    BY <1>3
  <1>. QED
    BY <1>1, <1>2, <1>4, Zenon DEF CoversAt

LEMMA CoversOnDisk ==
  ASSUME NEW s \in Snapshot, NEW owed, NEW day, NEW n, CoversAt(s, owed, day, n)
  PROVE  CoversAt(OnDisk(s), owed, day, n)
  <1>1. OnDisk(s).day = s.day /\ OnDisk(s).trades = s.trades
    BY DEF OnDisk, Snapshot
  <1>. QED
    BY <1>1 DEF CoversAt

(* An observation, under the date of the last one or under another that    *)
(* brings a budget with it, leaves what is covered covered, in the manager *)
(* as on file.                                                             *)
LEMMA CoversObserved ==
  ASSUME TypeOK, NEW d \in Nat, Witness(d), NEW s \in Snapshot, NEW owed \in Int,
         equity \in Nat, CoversAt(s, owed, seen.day, allowances), owed <= Allowed(allowances)
  PROVE  /\ CoversAt(s, owed, d, allowances') /\ seen'.day = d /\ allowances' \in Nat \ {0}
         /\ CoversAt(Updated(s, d), owed, d, allowances')
         /\ allowances' = allowances \/ allowances' = allowances + 1
  <1>1. allowances \in Nat /\ s.trades \in Nat
    BY DEF TypeOK, Snapshot
  <1>2. seen'.day = d
    BY DEF Witness
  <1>3. /\ Updated(s, d).trades \in Nat
        /\ s.day = d => Updated(s, d).trades = s.trades
        /\ Updated(s, d).day = d
    BY <1>1 DEF Updated, Snapshot
  <1>4. CASE allowances > 0 /\ seen.day = d
    <2>1. allowances' = allowances
      BY <1>4 DEF Witness
    <2>2. PICK b \in Nat : b = Before(allowances)
      BY <1>1, Allowances
    <2>3. owed <= b + (IF s.day = d THEN s.trades ELSE 0)
      BY <1>4, <2>2 DEF CoversAt
    <2>4. owed <= b + Updated(s, d).trades
      <3>1. CASE s.day = d
        BY <1>3, <2>3, <3>1
      <3>2. CASE s.day # d
        <4>1. PICK t \in Nat : t = Updated(s, d).trades
          BY <1>3
        <4>2. owed <= b + t
          BY <2>3, <3>2
        <4>. QED
          BY <4>1, <4>2, Zenon
      <3>. QED
        BY <3>1, <3>2
    <2>. QED
      BY <1>1, <1>2, <1>3, <1>4, <2>1, <2>2, <2>4 DEF CoversAt
  <1>5. CASE ~(allowances > 0 /\ seen.day = d)
    <2>1. allowances' = allowances + 1
      BY <1>1, <1>5 DEF Witness
    <2>2. PICK b \in Nat : b = Before(allowances + 1)
      BY <1>1, Allowances
    <2>3. owed <= b
      <3>1. CASE allowances = 0
        <4>1. owed <= 0
          BY <3>1, Allowances DEF CoversAt
        <4>. QED
          BY <4>1
      <3>2. CASE allowances > 0
        <4>1. b = Allowed(allowances)
          BY <1>1, <2>2, <3>2, Allowances
        <4>. QED
          BY <4>1
      <3>. QED
        BY <1>1, <3>1, <3>2
    <2>4. \A t \in Nat : owed <= b + t
      BY <2>3
    <2>5. ASSUME NEW k, k.trades \in Nat
          PROVE  CoversAt(k, owed, d, allowances')
      <3>1. PICK t \in Nat : t = IF allowances' > 0 /\ k.day = d THEN k.trades ELSE 0
        BY <2>5
      <3>2. owed <= b + t
        BY <2>4
      <3>3. Before(allowances') = b
        BY <2>1, <2>2, Zenon
      <3>. QED
        BY <3>1, <3>2, <3>3, Zenon DEF CoversAt
    <2>. QED
      BY <1>1, <1>2, <1>3, <2>1, <2>5
  <1>. QED
    BY <1>4, <1>5

(* With no send under way, no more is owed than was allowed.               *)
LEMMA OwedInRoom ==
  ASSUME TypeOK, Room, pc = "idle", NEW owed \in Int, owed <= Owed
  PROVE  owed <= Allowed(allowances)
  <1>1. opened \in Nat /\ uncounted \in Nat /\ writeFails \in Nat /\ Allowed(allowances) \in Nat
    BY Counters
  <1>2. Owed = opened - uncounted - writeFails
    BY <1>1 DEF Owed
  <1>3. opened <= Allowed(allowances) + uncounted + writeFails
    BY <1>1 DEF Room
  <1>4. PICK a \in Nat : a = Allowed(allowances)
    BY <1>1
  <1>5. owed <= a
    <2>1. opened <= a + uncounted + writeFails /\ owed <= opened - uncounted - writeFails
      BY <1>2, <1>3, <1>4, Zenon
    <2>. QED
      BY <1>1, <2>1
  <1>. QED
    BY <1>4, <1>5, Zenon

(* What a step leaves on file: what was there, or the manager's snapshot.  *)
Filed == disk' \in {disk, [kind |-> "good", snap |-> OnDisk(risk'.snap)]}

LEMMA PersistFiles ==
  ASSUME Typed, NEW m \in RiskManager, NEW o \in Persist(m)
  PROVE  /\ o.risk.snap = m.snap
         /\ o.disk \in {disk, [kind |-> "good", snap |-> OnDisk(m.snap)]}
         /\ o.fails = writeFails \/ o.fails = writeFails + 1
         /\ o.fails = writeFails /\ m.integrity # "state_unreadable" =>
              o.disk = [kind |-> "good", snap |-> OnDisk(m.snap)]
  <1> DEFINE written == [kind |-> "good", snap |-> OnDisk(m.snap)]
  <1>1. Unwritable(m).snap = m.snap /\ writeFails + 1 # writeFails
    <2>1. writeFails \in Nat
      BY DEF Typed
    <2>2. writeFails + 1 # writeFails
      BY <2>1
    <2>3. Unwritable(m).snap = m.snap
      BY DEF Unwritable, RiskManager
    <2>. QED
      BY <2>2, <2>3
  <1> HIDE DEF written
  <1>2. CASE m.integrity = "state_unreadable"
    <2>1. o = [risk |-> m, disk |-> disk, fails |-> writeFails]
      BY <1>2 DEF Persist
    <2>. QED
      BY <1>2, <2>1 DEF written
  <1>3. CASE m.integrity # "state_unreadable"
    <2>1. \/ o = [risk |-> m, disk |-> written, fails |-> writeFails]
          \/ \E d \in {disk, written} :
               o = [risk |-> Unwritable(m), disk |-> d, fails |-> writeFails + 1]
      BY <1>3 DEF Persist, written
    <2>. QED
      BY <1>1, <2>1 DEF written
  <1>. QED
    BY <1>2, <1>3

LEMMA ObserveFiles ==
  ASSUME Typed, NEW m \in RiskManager, NEW d \in Nat, NEW o \in Observe(m, d)
  PROVE  o.disk \in {disk, [kind |-> "good", snap |-> OnDisk(Updated(m.snap, d))]}
  <1> DEFINE clears == m.snap.day # d /\ m.reason = "daily_loss"
             m1 == [m EXCEPT !.snap = Updated(m.snap, d),
                             !.halted = IF clears THEN FALSE ELSE @,
                             !.reason = IF clears THEN "" ELSE @]
  <1>1. m1 \in RiskManager /\ m1.snap = Updated(m.snap, d)
    <2>0. m.snap \in Snapshot /\ m.halted \in BOOLEAN /\ m.reason \in Reasons
      BY DEF RiskManager
    <2>1. Updated(m.snap, d) \in Snapshot
      BY UpdatedInManager
    <2> HIDE DEF clears
    <2>. QED
      BY <2>0, <2>1 DEF RiskManager, Reasons
  <1>2. o = [risk |-> m1, disk |-> disk, fails |-> writeFails] \/ o \in Persist(m1)
    BY DEF Observe
  <1> HIDE DEF m1
  <1>3. CASE o = [risk |-> m1, disk |-> disk, fails |-> writeFails]
    BY <1>3
  <1>4. CASE o \in Persist(m1)
    BY <1>1, <1>4, PersistFiles
  <1>. QED
    BY <1>2, <1>3, <1>4

(* An order is sent only from a count below the cap.                       *)
LEMMA SendsBelowCap ==
  ASSUME Tick \/ Preview \/ Look \/ (\E d \in BarDay : BarAct(d)), pc' = "sending"
  PROVE  risk'.snap.trades < MaxTradesPerDay
  <1>1. ~Tick /\ ~Look
    BY DEF Tick, Look, Idle
  <1>2. CASE Preview
    <2>1. PICK o \in Observe(risk, today) : risk' = Circuit(o.risk) /\ Allows(Circuit(o.risk))
      BY <1>2, Zenon DEF Preview
    <2>. QED
      BY <2>1 DEF Allows
  <1>3. ASSUME NEW d \in BarDay, BarAct(d)
        PROVE  risk'.snap.trades < MaxTradesPerDay
    <2>1. PICK o \in Observe(risk, d) : risk' = Circuit(o.risk) /\ Allows(Circuit(o.risk))
      BY <1>3, Zenon DEF BarAct
    <2>. QED
      BY <2>1 DEF Allows
  <1>. QED
    BY <1>1, <1>2, <1>3

(* The parts of Cap after a step that owes no more.                        *)
LEMMA CapKept ==
  ASSUME Safe, TypeOK', Cap, Dated', deletes' = deletes, Owed' <= Owed,
         up' /\ risk'.integrity # "state_unreadable" =>
           CoversAt(risk'.snap, Owed', seen'.day, allowances'),
         disk' = disk \/ disk'.kind = "good",
         disk'.kind = "good" => CoversAt(disk'.snap, Owed', seen'.day, allowances'),
         deletes = 0 => Room'
  PROVE  Cap'
  <1>1. Owed \in Int /\ Owed' \in Int
    BY Counters DEF Safe, Owed, TypeOK
  <1>2. deletes = 0 /\ disk'.kind = "absent" => Owed' <= 0
    BY <1>1 DEF Cap
  <1>. QED
    BY <1>2 DEF Cap

(* An observation sends only from a count below the cap, so what was sent  *)
(* stays within the budgets handed out.                                    *)
LEMMA SendingRoom ==
  ASSUME Safe, Safe', pc' = "sending", NEW d, seen'.day = d, risk'.snap.day = d,
         allowances' \in Nat \ {0}, CoversAt(risk'.snap, Owed', d, allowances'),
         risk'.snap.trades < MaxTradesPerDay, opened' = opened, uncounted' = uncounted
  PROVE  Room'
  <1>1. /\ opened \in Nat /\ uncounted \in Nat /\ MaxTradesPerDay \in Nat
    BY Counters DEF Safe
  <1>2. /\ writeFails' \in Nat /\ risk'.snap.trades \in Nat
    BY DEF Safe, TypeOK, RiskManager, Snapshot
  <1>3. PICK fails \in Nat : fails = writeFails'
    BY <1>2
  <1>4. PICK trades \in Nat : trades = risk'.snap.trades
    BY <1>2
  <1>5. PICK b \in Nat : b = Before(allowances') /\ b + MaxTradesPerDay = Allowed(allowances')
    BY Allowances
  <1>6. Owed' = opened - uncounted - fails
    BY <1>1, <1>3 DEF Owed
  <1>7. Owed' <= b + trades
    BY <1>4, <1>5 DEF CoversAt
  <1>8. opened - uncounted - fails <= b + trades /\ trades < MaxTradesPerDay
    BY <1>4, <1>6, <1>7, Zenon
  <1>9. opened + 1 <= (b + MaxTradesPerDay) + uncounted + fails
    BY <1>1, <1>8
  <1>10. opened + 1 <= Allowed(allowances') + uncounted + writeFails'
    BY <1>3, <1>5, <1>9, Zenon
  <1>. QED
    BY <1>10, Zenon DEF Room

LEMMA ObservesCap ==
  ASSUME Safe, Safe', Cap, NEW d \in Nat, Observes(d),
         pc' = "sending" => risk'.snap.trades < MaxTradesPerDay
  PROVE  Cap'
  <1>1. /\ pc = "idle" /\ pc' \in {"idle", "sending"} /\ up /\ Witness(d)
        /\ UNCHANGED <<up, today, deletes, opened, uncounted>>
    BY DEF Observes
  <1>2. /\ Typed /\ equity \in Nat /\ risk \in RiskManager /\ TypeOK
        /\ UnreadableLatched(risk') /\ writeFails' >= writeFails
        /\ risk'.snap = Updated(risk.snap, d)
        /\ risk.integrity = "state_unreadable" =>
             risk'.integrity = "state_unreadable" /\ disk' = disk
        /\ pc' = "sending" => ~risk'.halted
    BY SafeTyped, ObserveStep DEF Typed, Safe
  <1>3. Filed
    <2>1. PICK o \in Observe(risk, d) : Stored(o)
      BY DEF Observes
    <2>2. o.disk \in {disk, [kind |-> "good", snap |-> OnDisk(Updated(risk.snap, d))]}
      BY <1>2, ObserveFiles
    <2>. QED
      BY <1>2, <2>1, <2>2 DEF Filed, Stored
  <1>4. Owed \in Int /\ Owed' \in Int /\ Owed' <= Owed
    <2>1. /\ opened \in Nat /\ uncounted \in Nat /\ writeFails \in Nat /\ writeFails' \in Nat
      BY DEF Safe, TypeOK
    <2>. QED
      BY <1>1, <1>2, <2>1, OwesLess
  <1>5. risk.snap \in Snapshot /\ disk.snap \in Snapshot /\ TypeOK'
    BY <1>2, Counters DEF Safe
  <1>6. risk'.snap \in Snapshot /\ risk'.snap.day = d /\ seen'.day = d /\ Dated'
    <2>1. risk'.snap \in Snapshot /\ risk'.snap.day = d
      BY <1>2, <1>5, UpdatedFacts
    <2>2. seen'.day = d
      BY <1>1 DEF Witness
    <2>. QED
      BY <2>1, <2>2 DEF Dated
  <1>7. CASE deletes # 0
    BY <1>1, <1>6, <1>7 DEF Cap
  <1>8. CASE deletes = 0
    <2>1. allowances' = allowances \/ allowances' = allowances + 1
      BY <1>1 DEF Witness
    <2>2. Owed' <= Allowed(allowances)
      BY <1>1, <1>2, <1>4, <1>8, OwedInRoom DEF Cap
    <2>3. disk.kind = "good" => CoversAt(disk.snap, Owed', seen'.day, allowances')
      <3>1. disk.kind = "good" => CoversAt(disk.snap, Owed', seen.day, allowances)
        BY <1>2, <1>4, <1>8, Counters, CoversLess DEF Cap
      <3>. QED
        BY <1>1, <1>2, <1>4, <1>5, <1>6, <2>2, <3>1, CoversObserved
    <2>4. CASE risk.integrity = "state_unreadable"
      <3>1. pc' = "idle" /\ risk'.integrity = "state_unreadable" /\ disk' = disk
        BY <1>1, <1>2, <2>4 DEF UnreadableLatched
      <3>2. Room'
        <4>1. writeFails' \in Nat
          BY <1>5 DEF TypeOK
        <4>. QED
          BY <1>1, <1>2, <1>8, <2>1, <3>1, <4>1, RoomStays DEF Cap
      <3>. QED
        BY <1>1, <1>4, <1>5, <1>6, <2>3, <3>1, <3>2, CapKept
    <2>5. CASE risk.integrity # "state_unreadable"
      <3>1. CoversAt(risk.snap, Owed', seen.day, allowances)
        BY <1>1, <1>2, <1>4, <1>8, <2>5, Counters, CoversLess DEF Cap
      <3>2. CoversAt(risk'.snap, Owed', d, allowances') /\ allowances' \in Nat \ {0}
        BY <1>1, <1>2, <1>4, <1>5, <2>2, <3>1, CoversObserved
      <3>3. CoversAt(OnDisk(risk'.snap), Owed', d, allowances')
        BY <1>6, <3>2, CoversOnDisk
      <3>4. /\ disk' = disk \/ disk'.kind = "good"
            /\ disk'.kind = "good" => CoversAt(disk'.snap, Owed', seen'.day, allowances')
        BY <1>3, <1>6, <2>3, <3>3 DEF Filed
      <3>5. Room'
        <4>1. writeFails' \in Nat
          BY <1>5 DEF TypeOK
        <4>2. CASE pc' = "sending"
          BY <1>1, <1>6, <3>2, <4>2, SendingRoom
        <4>3. CASE pc' = "idle"
          BY <1>1, <1>2, <1>8, <2>1, <4>1, <4>3, RoomStays DEF Cap
        <4>. QED
          BY <1>1, <4>2, <4>3
      <3>. QED
        BY <1>1, <1>4, <1>5, <1>6, <3>2, <3>4, <3>5, CapKept
    <2>. QED
      BY <2>4, <2>5
  <1>. QED
    BY <1>7, <1>8

(* RecordTrade: the send it counts is owed no more, by the manager, and by *)
(* the file unless the write failed.                                       *)
LEMMA RecordTradeCap ==
  ASSUME Safe, Safe', Cap, RecordTrade
  PROVE  Cap'
  <1> DEFINE n == [risk.snap EXCEPT !.trades = risk.snap.trades + 1]
             m == [risk EXCEPT !.snap = n]
  <1>1. /\ TypeOK /\ risk \in RiskManager /\ risk.snap \in Snapshot /\ risk.snap.trades \in Nat
        /\ opened \in Nat /\ uncounted \in Nat /\ writeFails \in Nat /\ Owed \in Int
        /\ allowances \in Nat /\ Allowed(allowances) \in Nat /\ Typed
    BY Counters, SafeTyped DEF Safe, TypeOK
  <1>2. n \in Snapshot /\ n.day = risk.snap.day /\ n.trades = risk.snap.trades + 1
    BY <1>1 DEF Snapshot
  <1>3. PICK o \in Persist(m) : risk' = o.risk /\ Stored(o)
    BY DEF RecordTrade
  <1> HIDE DEF n
  <1>4. m \in RiskManager /\ m.snap = n /\ m.integrity = risk.integrity
    BY <1>1, <1>2 DEF RiskManager
  <1>5. /\ up /\ pc = "sent" /\ pc' = "idle"
        /\ UNCHANGED <<up, seen, allowances, deletes, opened>>
        /\ uncounted' = IF allowances > 0 THEN uncounted ELSE uncounted + 1
        /\ risk.integrity # "state_unreadable"
    BY DEF RecordTrade, Safe, Recorded
  <1> HIDE DEF m
  <1>6. /\ risk'.snap = n /\ disk' \in {disk, [kind |-> "good", snap |-> OnDisk(n)]}
        /\ writeFails' = writeFails \/ writeFails' = writeFails + 1
        /\ writeFails' = writeFails => disk' = [kind |-> "good", snap |-> OnDisk(n)]
    BY <1>1, <1>3, <1>4, <1>5, PersistFiles DEF Stored
  <1>7. Dated' /\ risk.snap.day = seen.day /\ TypeOK'
    BY <1>2, <1>5, <1>6 DEF Cap, Dated, Safe
  <1>8. CASE deletes # 0
    BY <1>5, <1>7, <1>8 DEF Cap
  <1>9. CASE deletes = 0
    <2>1. CoversAt(risk.snap, Owed, seen.day, allowances) /\ Room
      BY <1>5, <1>9 DEF Cap
    <2>2. /\ Owed' \in Int
          /\ writeFails' = writeFails + 1 \/ allowances = 0 => Owed' <= Owed
          /\ Owed' <= Owed + 1
      BY <1>1, <1>5, <1>6 DEF Owed
    <2>3. CoversAt(n, Owed', seen.day, allowances)
      <3>1. PICK b \in Nat : b = Before(allowances)
        BY <1>1, Allowances
      <3>2. PICK t \in Nat : t = risk.snap.trades
        BY <1>1
      <3>3. PICK o1 \in Int : o1 = Owed'
        BY <2>2
      <3>4. CASE allowances = 0
        <4>1. b = 0 /\ Owed <= b + 0
          BY <2>1, <3>1, <3>4, Allowances DEF CoversAt
        <4>2. o1 <= b + 0
          BY <1>1, <2>2, <3>3, <3>4, <4>1
        <4>. QED
          BY <1>1, <3>1, <3>3, <3>4, <4>2 DEF CoversAt
      <3>5. CASE allowances > 0
        <4>1. Owed <= b + t
          BY <1>7, <2>1, <3>1, <3>2, <3>5, Zenon DEF CoversAt
        <4>2. o1 <= b + (t + 1)
          BY <1>1, <2>2, <3>3, <4>1
        <4>3. Owed' <= Before(allowances) + n.trades
          BY <1>2, <3>1, <3>2, <3>3, <4>2, Zenon
        <4>. QED
          BY <1>2, <1>7, <3>5, <4>3, Zenon DEF CoversAt
      <3>. QED
        BY <1>1, <3>4, <3>5
    <2>4. CoversAt(OnDisk(n), Owed', seen.day, allowances)
      BY <1>2, <2>3, CoversOnDisk
    <2>5. Room'
      <3>1. PICK a \in Nat : a = Allowed(allowances)
        BY <1>1
      <3>2. PICK u \in Nat : u = uncounted' /\ u >= uncounted
        BY <1>1, <1>5
      <3>3. PICK f \in Nat : f = writeFails' /\ f >= writeFails
        BY <1>1, <1>6
      <3>4. opened + 0 <= a + uncounted + writeFails
        BY <1>5, <2>1, <3>1, Zenon DEF Room
      <3>5. opened + 0 <= a + u + f
        <4>1. \A x, w, g, y, z \in Nat :
                x + 0 <= a + w + g /\ y >= w /\ z >= g => x + 0 <= a + y + z
          OBVIOUS
        <4>. QED
          BY <1>1, <3>2, <3>3, <3>4, <4>1, Zenon
      <3>. QED
        BY <1>5, <3>1, <3>2, <3>3, <3>5, Zenon DEF Room
    <2>6. CASE disk' = [kind |-> "good", snap |-> OnDisk(n)]
      BY <1>5, <1>6, <1>7, <2>3, <2>4, <2>5, <2>6 DEF Cap
    <2>7. CASE disk' = disk /\ writeFails' = writeFails + 1
      <3>1. disk.kind = "good" => CoversAt(disk.snap, Owed', seen.day, allowances)
        BY <1>1, <1>9, <2>2, <2>7, Counters, CoversLess DEF Cap
      <3>2. disk.kind = "absent" => Owed' <= 0
        BY <1>1, <1>9, <2>2, <2>7 DEF Cap
      <3>. QED
        BY <1>5, <1>6, <1>7, <2>3, <2>5, <2>7, <3>1, <3>2 DEF Cap
    <2>. QED
      BY <1>6, <2>6, <2>7
  <1>. QED
    BY <1>8, <1>9

LEMMA AskCap ==
  ASSUME Safe, Safe', Cap, Ask
  PROVE  Cap'
  <1> DEFINE n == [risk.snap EXCEPT !.turns = risk.snap.turns + 1]
             m == [risk EXCEPT !.snap = n]
  <1>1. /\ TypeOK /\ risk \in RiskManager /\ risk.snap \in Snapshot /\ Typed
        /\ opened \in Nat /\ uncounted \in Nat /\ writeFails \in Nat /\ Owed \in Int
        /\ allowances \in Nat /\ risk.snap.trades \in Nat
    BY Counters, SafeTyped DEF Safe, TypeOK
  <1>2. n \in Snapshot /\ n.day = risk.snap.day /\ n.trades = risk.snap.trades
    BY <1>1 DEF Snapshot
  <1>3. PICK o \in Persist(m) : risk' = o.risk /\ Stored(o)
    BY DEF Ask
  <1> HIDE DEF n
  <1>4. m \in RiskManager /\ m.snap = n /\ m.integrity = risk.integrity
    BY <1>1, <1>2 DEF RiskManager
  <1>5. up /\ pc = "idle" /\ UNCHANGED <<up, pc, seen, allowances, deletes, opened, uncounted>>
    BY DEF Ask, Idle
  <1> HIDE DEF m
  <1>6. /\ risk'.snap = n /\ disk' \in {disk, [kind |-> "good", snap |-> OnDisk(n)]}
        /\ writeFails' = writeFails \/ writeFails' = writeFails + 1
    BY <1>1, <1>3, <1>4, PersistFiles DEF Stored
  <1>7. Owed' \in Int /\ Owed' <= Owed
    <2>1. writeFails' \in Nat /\ writeFails' >= writeFails
      BY <1>1, <1>6
    <2>. QED
      BY <1>1, <1>5, <2>1, OwesLess
  <1>8. Dated' /\ TypeOK' /\ writeFails' \in Nat /\ writeFails' >= writeFails
    BY <1>1, <1>2, <1>5, <1>6 DEF Cap, Dated, Safe
  <1>9. CASE deletes # 0
    BY <1>5, <1>8, <1>9 DEF Cap
  <1>10. CASE deletes = 0
    <2>1. Room'
      BY <1>1, <1>5, <1>8, <1>10, RoomStays DEF Cap
    <2>2. disk.kind = "good" => CoversAt(disk.snap, Owed', seen.day, allowances)
      BY <1>1, <1>7, <1>10, Counters, CoversLess DEF Cap
    <2>3. CASE risk.integrity = "state_unreadable"
      <3>1. risk'.integrity = "state_unreadable" /\ disk' = disk
        <4>1. o = [risk |-> m, disk |-> disk, fails |-> writeFails]
          BY <1>3, <1>4, <2>3 DEF Persist
        <4>. QED
          BY <1>3, <1>4, <2>3, <4>1 DEF Stored
      <3>. QED
        BY <1>5, <1>7, <1>8, <2>1, <2>2, <3>1, CapKept
    <2>4. CASE risk.integrity # "state_unreadable"
      <3>1. CoversAt(risk.snap, Owed', seen.day, allowances)
        BY <1>1, <1>5, <1>7, <1>10, <2>4, CoversLess DEF Cap
      <3>2. CoversAt(n, Owed', seen.day, allowances)
        BY <1>2, <3>1 DEF CoversAt
      <3>3. CoversAt(OnDisk(n), Owed', seen.day, allowances)
        BY <1>2, <3>2, CoversOnDisk
      <3>. QED
        BY <1>5, <1>6, <1>7, <1>8, <2>1, <2>2, <3>2, <3>3, CapKept
    <2>. QED
      BY <2>3, <2>4
  <1>. QED
    BY <1>9, <1>10

LEMMA StartCap ==
  ASSUME Safe, Safe', Cap, Start
  PROVE  Cap'
  <1>1. /\ TypeOK /\ Typed /\ today \in Nat /\ today > 0 /\ equity \in Nat /\ disk \in File
        /\ opened \in Nat /\ uncounted \in Nat /\ writeFails \in Nat /\ Owed \in Int
        /\ allowances \in Nat /\ writeFails' \in Nat /\ TypeOK'
    BY Counters, SafeTyped DEF Safe, Recorded, TypeOK, Typed
  <1>2. /\ ~up /\ up' /\ pc = "idle" /\ UNCHANGED <<pc, deletes, opened, uncounted>>
        /\ Witness(today)
    BY DEF Safe, Recorded, Start
  <1>3. /\ disk.kind = "bad" => risk'.integrity = "state_unreadable" /\ disk' = disk
        /\ risk'.snap = Updated(Loaded.snap, today) /\ writeFails' >= writeFails
    BY StartStep
  <1>4. Owed' \in Int /\ Owed' <= Owed
    BY <1>1, <1>2, <1>3, OwesLess
  <1>5. Loaded.snap \in Snapshot
    BY <1>1, LoadedFacts DEF RiskManager
  <1>6. /\ risk'.snap \in Snapshot /\ seen'.day = today /\ Dated'
        /\ allowances' = allowances \/ allowances' = allowances + 1
    <2>1. risk'.snap \in Snapshot /\ risk'.snap.day = today
      <3>1. Updated(Loaded.snap, today) \in Snapshot /\ Updated(Loaded.snap, today).day = today
        <4>1. today \in Nat /\ equity \in Nat
          BY <1>1
        <4>. QED
          BY <4>1, <1>5, UpdatedFacts
      <3>2. risk'.snap = Updated(Loaded.snap, today)
        BY <1>3
      <3>. QED
        BY <3>1, <3>2
    <2>2. seen'.day = today /\ (allowances' = allowances \/ allowances' = allowances + 1)
      BY <1>2 DEF Witness
    <2>. QED
      BY <2>1, <2>2 DEF Dated
  <1>7. CASE deletes # 0
    BY <1>2, <1>6, <1>7 DEF Cap
  <1>8. CASE deletes = 0
    <2>1. Room'
      BY <1>1, <1>2, <1>3, <1>6, <1>8, RoomStays DEF Cap
    <2>2. CASE disk.kind = "bad"
      <3>1. risk'.integrity = "state_unreadable" /\ disk' = disk
        BY <1>3, <2>2
      <3>. QED
        BY <1>1, <1>2, <1>4, <1>6, <2>1, <2>2, <3>1, CapKept
    <2>3. CASE disk.kind # "bad"
      <3>1. Owed' <= Allowed(allowances)
        BY <1>1, <1>2, <1>4, <1>8, OwedInRoom DEF Cap
      <3>2. CoversAt(Loaded.snap, Owed', seen.day, allowances)
        <4>1. CASE disk.kind = "good"
          <5>1. Loaded.snap = disk.snap /\ disk.snap.trades \in Nat
            BY <1>1, <4>1, LoadedFacts, Counters
          <5>. QED
            BY <1>1, <1>4, <1>8, <4>1, <5>1, CoversLess DEF Cap
        <4>2. CASE disk.kind = "absent"
          <5>1. Owed <= 0
            BY <1>8, <4>2 DEF Cap
          <5>2. PICK owed \in Int : owed = Owed' /\ owed <= 0
            BY <1>1, <1>4, <5>1
          <5>3. PICK b \in Nat : b = Before(allowances)
            BY <1>1, Allowances
          <5>4. PICK t \in Nat : t = IF allowances > 0 /\ Loaded.snap.day = seen.day
                                     THEN Loaded.snap.trades ELSE 0
            BY <1>5 DEF Snapshot
          <5>5. owed <= b + t
            BY <5>2
          <5>. QED
            BY <5>2, <5>3, <5>4, <5>5, Zenon DEF CoversAt
        <4>. QED
          BY <1>1, <2>3, <4>1, <4>2 DEF File
      <3>3. /\ CoversAt(risk'.snap, Owed', today, allowances')
            /\ CoversAt(Loaded.snap, Owed', today, allowances')
        BY <1>1, <1>2, <1>3, <1>4, <1>5, <3>1, <3>2, CoversObserved
      <3>4. CoversAt(OnDisk(risk'.snap), Owed', today, allowances')
        BY <1>6, <3>3, CoversOnDisk
      <3>5. Filed
        <4>0. Loaded \in RiskManager
          BY <1>1, LoadedFacts
        <4>1. PICK o \in Observe(Loaded, today) : Stored(o)
          BY DEF Start
        <4>2. o.disk \in {disk, [kind |-> "good", snap |-> OnDisk(Updated(Loaded.snap, today))]}
          BY <1>1, <4>0, ObserveFiles
        <4>. QED
          BY <1>3, <4>1, <4>2 DEF Filed, Stored
      <3>6. CASE disk' = [kind |-> "good", snap |-> OnDisk(risk'.snap)]
        BY <1>1, <1>2, <1>4, <1>6, <2>1, <3>3, <3>4, <3>6, CapKept
      <3>7. CASE disk' = disk
        <4>1. disk.kind = "good" => Loaded.snap = disk.snap
          BY <1>1, LoadedFacts
        <4>. QED
          BY <1>1, <1>2, <1>4, <1>6, <2>1, <3>3, <3>7, <4>1, CapKept
      <3>. QED
        BY <3>5, <3>6, <3>7 DEF Filed
    <2>. QED
      BY <2>2, <2>3
  <1>. QED
    BY <1>7, <1>8

(* The steps that leave the manager and its file alone.                    *)
LEMMA ElsewhereCap ==
  ASSUME Safe, Safe', Cap,
         SendOk \/ SendRefused \/ SendRaises \/ Halt \/ HaltFileByHand \/ EquityMoves
         \/ PermissionFlips \/ DayRolls \/ UNCHANGED vars
  PROVE  Cap'
  <1>1. /\ TypeOK /\ opened \in Nat /\ uncounted \in Nat /\ writeFails \in Nat /\ Owed \in Int
        /\ MaxTradesPerDay \in Nat /\ MaxTradesPerDay > 0 /\ Allowed(allowances) \in Nat
        /\ risk.snap.trades \in Nat /\ disk.snap.trades \in Nat
    BY Counters DEF Safe
  <1>2. UNCHANGED <<up, risk, disk, seen, writeFails, deletes>> /\ Dated'
    BY DEF SendOk, SendRefused, SendRaises, Halt, HaltFileByHand, EquityMoves, PermissionFlips,
           DayRolls, vars, Cap, Dated
  <1>3. CASE deletes # 0
    BY <1>2, <1>3 DEF Cap
  <1>4. CASE deletes = 0 /\ ~DayRolls
    <2>1. /\ allowances' = allowances
          /\ \/ UNCHANGED <<pc, opened, uncounted>>
             \/ pc = "sending" /\ pc' = "sent" /\ opened' = opened + 1 /\ uncounted' = uncounted
             \/ pc = "sending" /\ pc' = "idle" /\ UNCHANGED <<opened, uncounted>>
             \/ /\ pc = "sending" /\ pc' = "idle"
                /\ opened' = opened + 1 /\ uncounted' = uncounted + 1
      BY <1>4 DEF SendOk, SendRefused, SendRaises, Halt, HaltFileByHand, EquityMoves,
                  PermissionFlips, Idle, vars
    <2>2. Owed' = Owed
      BY <1>1, <1>2, <2>1 DEF Owed
    <2>3. Room'
      <3>1. PICK a \in Nat : a = Allowed(allowances)
        BY <1>1
      <3>2. opened + (IF pc = "sending" THEN 1 ELSE 0) <= a + uncounted + writeFails
        BY <1>4, <3>1, Zenon DEF Room, Cap
      <3>3. opened' + (IF pc' = "sending" THEN 1 ELSE 0) <= a + uncounted' + writeFails
        BY <1>1, <2>1, <3>2
      <3>. QED
        BY <1>2, <2>1, <3>1, <3>3, Zenon DEF Room
    <2>. QED
      BY <1>2, <1>4, <2>1, <2>2, <2>3 DEF Cap
  <1>5. CASE deletes = 0 /\ DayRolls
    <2>1. opened' = 0 /\ uncounted' = 0 /\ allowances' = 0 /\ pc' = pc
      BY <1>5 DEF DayRolls
    <2>2. Owed' <= 0 /\ Owed' \in Int
      BY <1>1, <1>2, <2>1 DEF Owed
    <2>3. \A s : CoversAt(s, Owed', seen.day, 0)
      BY <2>2, Allowances DEF CoversAt
    <2>4. Room'
      <3>1. Allowed(0) = MaxTradesPerDay
        BY Allowances
      <3>2. 0 + (IF pc = "sending" THEN 1 ELSE 0) <= MaxTradesPerDay + 0 + writeFails
        BY <1>1
      <3>. QED
        BY <1>2, <2>1, <3>1, <3>2, Zenon DEF Room
    <2>. QED
      BY <1>2, <2>1, <2>2, <2>3, <2>4 DEF Cap
  <1>. QED
    BY <1>3, <1>4, <1>5

LEMMA StoppedCap ==
  ASSUME Safe, Safe', Cap, Resume \/ Crash \/ Corrupt \/ DeleteState
  PROVE  Cap'
  <1>1. /\ TypeOK /\ opened \in Nat /\ uncounted \in Nat /\ writeFails \in Nat /\ Owed \in Int
        /\ Allowed(allowances) \in Nat /\ deletes \in Nat /\ TypeOK'
    BY Counters DEF Safe
  <1>2. CASE Resume
    <2>1. /\ risk'.snap = risk.snap /\ risk'.integrity = risk.integrity
          /\ UNCHANGED <<up, pc, disk, seen, allowances, deletes, opened, uncounted, writeFails>>
      BY <1>2, ResumeStep DEF Resume
    <2>. QED
      BY <2>1 DEF Cap, Dated, Owed, Room
  <1>3. CASE Crash
    <2>1. /\ ~up' /\ pc' = "idle" /\ UNCHANGED <<disk, seen, allowances, deletes, writeFails>>
          /\ opened' = IF pc = "sending" THEN opened + 1 ELSE opened
          /\ uncounted' = IF pc = "idle" THEN uncounted ELSE uncounted + 1
      BY <1>3 DEF Crash
    <2>2. Owed' \in Int /\ Owed' <= Owed
      BY <1>1, <2>1 DEF Owed
    <2>3. deletes = 0 => Room'
      <3>1. SUFFICES ASSUME deletes = 0 PROVE Room'
        OBVIOUS
      <3>2. PICK a \in Nat : a = Allowed(allowances)
        BY <1>1
      <3>3. opened + (IF pc = "sending" THEN 1 ELSE 0) <= a + uncounted + writeFails
        BY <3>1, <3>2, Zenon DEF Room, Cap
      <3>4. opened' + 0 <= a + uncounted' + writeFails
        BY <1>1, <2>1, <3>3
      <3>. QED
        BY <2>1, <3>2, <3>4, Zenon DEF Room
    <2>4. disk.kind = "good" /\ deletes = 0 => CoversAt(disk.snap, Owed', seen.day, allowances)
      BY <1>1, <2>2, Counters, CoversLess DEF Cap
    <2>5. deletes = 0 /\ disk.kind = "absent" => Owed' <= 0
      BY <1>1, <2>2 DEF Cap
    <2>. QED
      BY <2>1, <2>3, <2>4, <2>5 DEF Cap, Dated
  <1>4. CASE Corrupt
    <2>1. /\ disk'.kind = "bad"
          /\ UNCHANGED <<up, pc, risk, seen, allowances, deletes, opened, uncounted, writeFails>>
      BY <1>4 DEF Corrupt
    <2>. QED
      BY <2>1 DEF Cap, Dated, Owed, Room
  <1>5. CASE DeleteState
    <2>1. deletes' # 0 /\ ~up'
      BY <1>1, <1>5 DEF DeleteState
    <2>. QED
      BY <2>1 DEF Cap, Dated
  <1>. QED
    BY <1>2, <1>3, <1>4, <1>5

LEMMA StepCap ==
  ASSUME Safe, Safe', Cap, [Next]_vars
  PROVE  Cap'
  <1>1. CASE Tick \/ Preview \/ Look \/ \E d \in BarDay : BarAct(d)
    <2>1. PICK d \in Nat : Observes(d)
      BY <1>1, ObservingSteps DEF BarDay, Safe, TypeOK
    <2>. QED
      BY <1>1, <2>1, SendsBelowCap, ObservesCap
  <1>. QED
    BY <1>1, RecordTradeCap, AskCap, StartCap, ElsewhereCap, StoppedCap DEF Next, Sending

(* No more orders are sent in a UTC day than the cap for each budget       *)
(* handed out in it, but for those the desk cannot have counted, through   *)
(* any number of crashes, restarts, midnights and commands, whatever the   *)
(* venue's bars are dated.                                                 *)
THEOREM TradesStayWithinCap == Spec => []TradesWithinCap
  <1>1. Init => Safe /\ Cap
    <2>1. SUFFICES ASSUME Init PROVE Cap
      BY InitSafe
    <2>2. /\ ~up /\ disk.kind = "absent" /\ opened = 0 /\ uncounted = 0 /\ writeFails = 0
          /\ pc = "idle" /\ allowances = 0
      BY <2>1 DEF Init
    <2>3. Allowed(allowances) \in Nat
      BY <2>2, Allowances
    <2>. QED
      BY <2>2, <2>3 DEF Cap, Dated, Owed, Room
  <1>2. Safe /\ Cap /\ [Next]_vars => (Safe /\ Cap)'
    BY StepSafe, StepCap
  <1>3. Safe /\ Cap => TradesWithinCap
    <2>1. SUFFICES ASSUME Safe, Cap, deletes = 0
                   PROVE  opened <= Allowed(allowances) + uncounted + writeFails
      BY DEF TradesWithinCap, Allowed
    <2>2. Room
      BY <2>1 DEF Cap
    <2>. QED
      BY <2>1, <2>2, Counters DEF Room, Safe
  <1>. QED
    BY <1>1, <1>2, <1>3, PTL DEF Spec

-----------------------------------------------------------------------------
(* What a halt and a spent budget lead to.                                 *)

(* The arithmetic of a drawdown.                                           *)
LEMMA FallBelowPeak ==
  \A a, b, n \in Nat : (a - b) * 100 >= n => a >= b
  OBVIOUS

LEMMA ProductOfNats ==
  \A a, c \in Nat : a * c \in Nat
  OBVIOUS

(* A loss beyond the limit is one after the next observation too, which    *)
(* may raise the peak.                                                     *)
LEMMA LossStays ==
  ASSUME Safe, risk.snap.day = today,
         EquityHaltReason([risk.snap EXCEPT !.equity = equity]) # ""
  PROVE  EquityHaltReason(Updated(risk.snap, today)) # ""
  <1> DEFINE s == risk.snap
             t == [s EXCEPT !.equity = equity]
             u == Updated(s, today)
  <1>1. s \in Snapshot /\ equity \in Nat /\ MaxDrawdownPct \in Nat
    BY SafeTyped, LimitAssumption DEF Typed, RiskManager
  <1>2. t.start = s.start /\ t.peak = s.peak /\ t.equity = equity
    BY <1>1 DEF Snapshot
  <1>3. u.start = s.start /\ u.peak = MaxOf(s.peak, equity) /\ u.equity = equity
    BY <1>1, UpdatedFacts DEF Safe, TypeOK
  <1>4. s.peak \in Nat
    BY <1>1 DEF Snapshot
  <1> HIDE DEF s, t, u
  <1>5. DailyLoss(t) => DailyLoss(u)
    BY <1>2, <1>3 DEF DailyLoss
  <1>6. Drawdown(t) => Drawdown(u)
    <2> SUFFICES ASSUME Drawdown(t) PROVE Drawdown(u)
      OBVIOUS
    <2>1. s.peak > 0 /\ (s.peak - equity) * 100 >= s.peak * MaxDrawdownPct
      BY <1>2 DEF Drawdown
    <2>2. s.peak >= equity
      <3>1. \A a, b, n \in Nat : (a - b) * 100 >= n => a >= b
        BY FallBelowPeak
      <3>2. \A a, c \in Nat : a * c \in Nat
        BY ProductOfNats
      <3>3. s.peak * MaxDrawdownPct \in Nat
        BY <1>1, <1>4, <3>2, Zenon
      <3>. QED
        BY <1>1, <1>4, <2>1, <3>1, <3>3, Zenon
    <2>3. u.peak = s.peak
      BY <1>3, <2>2 DEF MaxOf
    <2>. QED
      BY <1>3, <2>1, <2>3 DEF Drawdown
  <1>. QED
    BY <1>5, <1>6 DEF EquityHaltReason, t, u, s

(* The tick that finds a loss beyond the limit on a desk that may trade    *)
(* halts the engine, whatever the disk does.                               *)
LEMMA TickHalts ==
  ASSUME Safe, LossBeyondLimit, mayTrade, Tick
  PROVE  engHalted'
  <1>1. PICK o \in Observe(risk, today) :
          risk' = Circuit(o.risk) /\ engHalted' = Circuit(o.risk).halted
    BY DEF Tick
  <1>2. /\ Typed /\ risk \in RiskManager /\ today \in Nat
        /\ UnreadableLatched(risk) /\ Kept(risk, disk)
    BY SafeTyped DEF Safe, Recorded, TypeOK, LossBeyondLimit
  <1>3. o \in Outcomes /\ o.risk.snap = Updated(risk.snap, today)
    BY <1>2, ObserveFacts
  <1>4. o.risk \in RiskManager
    BY <1>3 DEF Outcomes
  <1>5. EquityHaltReason(o.risk.snap) # ""
    BY <1>3, LossStays DEF LossBeyondLimit
  <1>. QED
    BY <1>1, <1>4, <1>5, CircuitFacts

(* No tick finds a spent budget and leaves the engine running: the first   *)
(* one after the loss flattens, also when the snapshot cannot be saved, the *)
(* day rolls next or a chat command has latched the halt before it.        *)
THEOREM LossHaltsAtNextTick ==
  Spec => [][Tick /\ (risk'.halted \/ (LossBeyondLimit /\ mayTrade)) => engHalted']_vars
  <1>1. Safe /\ [Next]_vars =>
          [Tick /\ (risk'.halted \/ (LossBeyondLimit /\ mayTrade)) => engHalted']_vars
    BY TickHalts DEF Tick
  <1>. QED
    BY <1>1, SafeAlways, PTL DEF Spec

(* No send is under way on a latched manager, so the thread is free to     *)
(* tick.                                                                   *)
Quiet == pc # "idle" => ~risk.halted

LEMMA QuietStep ==
  ASSUME Safe, Quiet, [Next]_vars
  PROVE  Quiet'
  <1>1. ASSUME NEW d \in Nat, Observes(d)
        PROVE  Quiet'
    BY <1>1, ObserveStep DEF Quiet
  <1>2. CASE Elsewhere
    BY <1>2 DEF Elsewhere, Quiet
  <1>3. CASE Counts
    BY <1>3 DEF Counts, Quiet
  <1>4. CASE Resume
    BY <1>4 DEF Resume, Idle, Quiet
  <1>5. CASE Crash
    BY <1>5 DEF Crash, Quiet
  <1>6. CASE Start \/ Corrupt \/ DeleteState
    <2>1. pc = "idle" /\ pc' = pc
      BY <1>6 DEF Start, Corrupt, DeleteState, Safe, Recorded
    <2>. QED
      BY <2>1 DEF Quiet
  <1>7. today \in Nat /\ \A d \in BarDay : d \in Nat
    BY DEF Safe, TypeOK, BarDay
  <1>. QED
    BY <1>1, <1>2, <1>3, <1>4, <1>5, <1>6, <1>7, Steps DEF Safe

LEMMA QuietAlways == Spec => [](Safe /\ Quiet)
  <1>1. Init => Safe /\ Quiet
    BY InitSafe DEF Init, Quiet
  <1>2. Safe /\ Quiet /\ [Next]_vars => (Safe /\ Quiet)'
    BY StepSafe, QuietStep
  <1>. QED
    BY <1>1, <1>2, PTL DEF Spec

(* While a loss beyond the limit stands on a desk that may trade and runs, *)
(* the thread comes no nearer to a send.                                   *)
Spent == LossBeyondLimit /\ mayTrade /\ ~engHalted

LEMMA SpentStep ==
  ASSUME Safe, Spent, [Next]_vars, Spent'
  PROVE  /\ pc = "idle" => pc' = "idle"
         /\ pc = "sent" => pc' # "sending"
  <1>1. ASSUME NEW d \in Nat, Observes(d)
        PROVE  pc = "idle" /\ pc' = "idle"
    <2>1. /\ risk'.snap = Updated(risk.snap, d)
          /\ pc' = "idle" \/ pc' = "sending"
          /\ pc' = "sending" => EquityHaltReason(risk'.snap) = ""
      BY <1>1, ObserveStep
    <2>2. today' = today /\ pc = "idle"
      BY <1>1 DEF Observes
    <2>3. risk.snap \in Snapshot /\ equity \in Nat
      BY SafeTyped DEF Typed, RiskManager
    <2>4. risk'.snap.day = d
      <3>1. Updated(risk.snap, d).day = d
        BY <1>1, <2>3, UpdatedFacts
      <3>. QED
        BY <2>1, <3>1
    <2>5. d = today
      BY <2>2, <2>4 DEF Spent, LossBeyondLimit
    <2>6. EquityHaltReason(Updated(risk.snap, today)) # ""
      BY LossStays DEF Spent, LossBeyondLimit
    <2>. QED
      BY <2>1, <2>2, <2>5, <2>6
  <1>2. CASE Elsewhere
    BY <1>2 DEF Elsewhere
  <1>3. CASE Counts
    BY <1>3 DEF Counts
  <1>4. CASE Resume
    BY <1>4 DEF Resume
  <1>5. CASE Crash
    BY <1>5 DEF Crash
  <1>6. CASE Start \/ Corrupt \/ DeleteState
    BY <1>6 DEF Start, Corrupt, DeleteState
  <1>7. today \in Nat /\ \A d \in BarDay : d \in Nat
    BY DEF Safe, TypeOK, BarDay
  <1>. QED
    BY <1>1, <1>2, <1>3, <1>4, <1>5, <1>6, <1>7, Steps DEF Safe

(* What the prover cannot see of the module: that the two fair actions are *)
(* enabled where they are due.                                             *)
TickIsEnabled ==
  Idle /\ ~engHalted /\ (risk.halted \/ (LossBeyondLimit /\ mayTrade)) => ENABLED <<Tick>>_vars
SendingIsEnabled == up /\ pc # "idle" => ENABLED <<Sending>>_vars

(* The loop acts upon a halt that a chat command has only latched: fairness *)
(* of the tick is enough, for the halt finds no send under way.            *)
THEOREM LatchedHaltIsActedUpon ==
  FairSpec /\ []TickIsEnabled => LatchedHaltFlattens
  <1> DEFINE P == up /\ risk.halted /\ ~engHalted
  <1>1. Quiet /\ TickIsEnabled /\ P => ENABLED <<Tick>>_vars
    BY DEF Quiet, TickIsEnabled, Idle
  <1>2. P /\ <<Tick>>_vars => ~P'
    BY DEF Tick
  <1>3. ~P => engHalted \/ ~risk.halted \/ ~up
    OBVIOUS
  <1>4. up /\ risk.halted => P \/ (engHalted \/ ~risk.halted \/ ~up)
    OBVIOUS
  <1> HIDE DEF P
  <1>. QED
    BY <1>1, <1>2, <1>3, <1>4, QuietAlways, PTL DEF FairSpec, LatchedHaltFlattens

(* A loss beyond the limit flattens a desk that may trade: the send under  *)
(* way ends, no other begins, and the next tick halts.                     *)
THEOREM SpentBudgetFlattens ==
  FairSpec /\ []TickIsEnabled /\ []SendingIsEnabled => LossFlattensArmed
  <1> DEFINE Sends == Spent /\ pc = "sending"
             Counting == Spent /\ pc = "sent"
             Waits == Spent /\ pc = "idle"
  <1>1. Safe /\ Sends /\ [Next]_vars => (Sends \/ Counting \/ Waits \/ ~Spent)'
    BY StepSafe DEF Safe, TypeOK
  <1>2. Safe /\ Counting /\ [Next]_vars => (Counting \/ Waits \/ ~Spent)'
    BY StepSafe, SpentStep DEF Safe, TypeOK
  <1>3. Safe /\ Waits /\ [Next]_vars => (Waits \/ ~Spent)'
    BY SpentStep
  <1>4. Sends /\ <<Sending>>_vars => (Counting \/ Waits \/ ~Spent)'
    BY DEF Sending, SendOk, SendRefused, SendRaises, RecordTrade
  <1>5. Counting /\ <<Sending>>_vars => (Waits \/ ~Spent)'
    BY DEF Sending, SendOk, SendRefused, SendRaises, RecordTrade
  <1>6. Safe /\ Waits /\ <<Tick>>_vars => ~Spent'
    BY TickHalts DEF Spent
  <1>7. SendingIsEnabled /\ (Sends \/ Counting) => ENABLED <<Sending>>_vars
    BY DEF SendingIsEnabled, Spent, LossBeyondLimit
  <1>8. TickIsEnabled /\ Waits => ENABLED <<Tick>>_vars
    BY DEF TickIsEnabled, Spent, LossBeyondLimit, Idle
  <1>9. Safe /\ LossBeyondLimit /\ mayTrade => Sends \/ Counting \/ Waits \/ ~Spent
    BY DEF Safe, TypeOK
  <1>10. LossBeyondLimit /\ mayTrade /\ ~Spent => engHalted
    BY DEF Spent
  <1>11. ~Spent => engHalted \/ ~LossBeyondLimit \/ ~mayTrade
    BY DEF Spent
  <1> HIDE DEF Sends, Counting, Waits
  <1>. QED
    BY <1>1, <1>2, <1>3, <1>4, <1>5, <1>6, <1>7, <1>8, <1>9, <1>10, <1>11, SafeAlways, PTL
       DEF FairSpec, Spec, LossFlattensArmed
=============================================================================
