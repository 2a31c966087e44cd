# Verification of the straightedge trading desk

TLA+ models of the MT4/MT5 trading desk in `src/src/straightedge` and of the
MetaTrader 4 Expert it drives, TLC configurations that check them on small
instances, and theorems about them proved with TLAPS. Paths below are relative
to the repository; `desk.py` stands for `src/straightedge/desk.py`, and so on.

## 1. The system

One Python process (`straightedge run --loop`) polls Telegram for commands,
asks a venue adapter for the account, enforces a risk circuit, and sends orders.
It is single threaded: a chat command, a tick of the circuit and a bar of the
EMA strategy never overlap. What makes it hard is everything outside the thread:
the process may die between any two effects, a file write may fail, the venue
may execute an order whose answer never arrives, the Expert works at its own
pace on the other side of a mailbox, and midnight passes in the middle.

| Component | State | Operations | Interacts by |
| --- | --- | --- | --- |
| Desk (`desk.py`) | staged order, `/approve always` | stage, confirm, reverse, cancel, halt, resume, approve, live, ask | calls Engine; journal records restored at start |
| Engine (`engine.py`) | `halted`, tickets opened and closed this step, seen positions, last bars | submit, flatten, preview, tick | calls risk, ledger, broker, journal; notifies Telegram |
| In-flight ledger (`inflight.py`) | file of open sends | begin, resolve, get | written around each send |
| Journal (`journal.py`) | append-only file, rotated at 10 MiB; instance lock | write, last_event, tail | everything is recorded; Desk restores from it |
| Risk manager (`risk.py`, `state.py`) | equity snapshot and its file, halt latch | observe, circuit, evaluate, record_trade, clear_operator_halt | called before every send and on every tick |
| Telegram (`telegram.py`) | update offset in memory and on file | poll, ack, send | HTTP with retries |
| MT5 adapter (`broker/mt5_live.py`) | connection | order_send, order_check, reads | repeats a call after an IPC drop |
| MT4 adapter (`broker/mt4_live.py`) | request ids | one mailbox exchange at a time, with a deadline and a withdrawal | two files shared with the Expert |
| Mailbox shim (`broker/mt4_net.py`) | none | one HTTP request is one exchange | between adapter and mailbox |
| Expert (`mt4/Experts/Mt4RiskBot.mq4`) | two terminal-wide locks, a private claim file | claim, fence, execute, reply | the mailbox, the terminal |
| Paper broker (`broker/paper.py`) | book of positions and orders | send, modify, close, fill | in process |
| Strategy, indicators, sizing, currencies | none | pure functions | called by engine and risk |
| Watchdog (`watchdog.py`) | none | read the heartbeat, decide | one file written by the engine |
| Advice (`llm.py`, `agent/`) | transcript | ask a model | HTTP |

What makes each of them correct, and what is hard about it:

- **The send.** An order the operator staged once must not become two positions,
  although a send may time out while the venue executes it, `/confirm` may be
  typed again, the desk may restart in between, and either adapter has its own
  retry. The record of an attempt must be on file whenever its outcome is not
  known. Once `HALT` exists nothing new may be sent. A restart must bring back the
  staged order and nothing that was dropped.
- **The risk circuit.** The loss budget of the UTC day, the equity peak and the
  daily counters must survive restarts, failed writes and commands; a spent
  budget must stop entries and flatten; a snapshot that cannot be read must stop
  the desk for good and be left alone.
- **The mailbox.** A request the desk gave up on must not fire later than it
  promises; "withdrawn" must mean that it never fires; the reply that is read
  must be the reply to this request; two Experts must not execute one request.
- **The tick.** A sweep must account for every ticket it leaves open; no position
  may be taken for known without its record; the recap must be sent once a day;
  and all of it while the venue fills and closes between any two reads, calls
  fail, and the journal cannot be written for a while.
- **Open positions.** Stops, targets, scale-outs, break-even, the trail and the
  chat commands move the same levels: none of their orders may loosen a stop that
  the manager moves, scale out twice, or leave a position beyond its stop or target.
- **Command delivery.** A restart must neither drop nor repeat a command more
  than the acknowledgement protocol allows.
- **The paper venue.** A ticket must not come back, a close must not make money,
  and a bar must leave no level it has passed.

## 2. Modules

| Module | Models | Status |
| --- | --- | --- |
| `SendGuard` | one order from the chat to the venue: Desk, Engine.submit, ledger, confirm records, crash, venue | done |
| `WriteAheadSend` | abstract: what the ledger promises | done |
| `SendGuardProofs` | theorems about SendGuard | done |
| `RiskCircuit` | RiskManager, its snapshot file, the halt latch, arming, midnight, crash | done |
| `RiskCircuitProofs` | theorems about RiskCircuit | done |
| `Mailbox` | FileBridge and the Experts of one MT4 terminal: files, locks, claim, fence, reply, every failure | done |
| `Exchange` | abstract: what the mailbox promises a desk | done |
| `MailboxProofs` | theorems about Mailbox | done |
| `EngineTick` | step_all, the commands before it and the sweep of Engine.flatten, broker call by broker call | done |
| `EngineTickProofs` | theorems about EngineTick | done |
| `PositionCare` | _check_stops, _manage_open, TrendStrategy.manage and the level commands, with prices and volumes | done |
| `PositionCareProofs` | theorems about PositionCare | done |
| `ChatInbox` | getUpdates, the offset in memory and on file, the batch loop, crash and restart | done |
| `ChatInboxProofs` | theorems about ChatInbox | done |
| `PaperBook` | the paper venue: requests, account, the sweeps of resolve_pending and on_bar | done |
| `PaperBookProofs` | theorems about PaperBook | done |
| `SetSums` | facts about sums over a finite set, on which the equity of PaperBook rests | done |
| `MC...` (one for each model) | instances for TLC | done |

`EngineTick`, `PositionCare`, `RiskCircuit` and `SendGuard` are views of one
thread. Where one needs what another decides, it takes any outcome the other
allows: a tick's entry either reaches the venue or not, and a position's close is
done, done in part, refused or not answered.

### SendGuard

A handler of the desk is one action up to its next durable or venue-visible
effect; a crash in between is a crash before the action, since nothing else can
see the memory. The life of a send is `pc`: "confirm" (staged with
`/approve always`, the same handler goes on), "closed" (a reverse has closed the
old ticket), "begun" (ledger entry written), "awaiting", "replied", "resolved"
(entry removed) and back to "idle" (`Settle`: the confirm record).

| Code | Actions |
| --- | --- |
| `Desk._stage`, `_reverse`, `_stage_close`, `_set_pending` | `Stage`, `StageReverse`, `StageClose`, `SetPending` |
| `Desk._confirm` | `ConfirmDrop`, `ConfirmKeep`, `ConfirmClose`, `CloseUnanswered`, `ConfirmBegin` |
| `Desk._confirm_reverse` | `ReverseClose`, then `ReverseRefused` or `ReverseBegin` |
| `Engine._act` (EMA leg) | `AutoBegin` |
| `Engine._open`, `_place_pending` | `Begin`, `Transmit`, `ReplyRead`, `SendRaises`, `Resolve`, `ResolveRaises`, `Settle`, `EmitRaises` |
| `Mt5Broker._with_reconnect` | `Retransmit` |
| `Engine.flatten`, `_apply_circuit`, `Desk._halt`, `_resume` | `Halt`, `CircuitTrip`, `FlattenRaises`, `Resume` |
| `Desk.restore_from_journal`, `Engine.start` | `Start`, `Restored` |
| `Journal._rotate_if_needed` | `Rotate` |
| the HALT file (`write_halt_file`, `clear_operator_halt`, or by hand) | `HaltFileMade`, `HaltFileRemoved`, `HaltFileByHand` |

The venue acts on a request at any time, whether or not anyone still waits
(`VenueExecute`, `VenueReject`), and answers "ok", "rejected" (also for an order
that survives an unconfirmed rollback) or "unmeasured" (a reply without a
verdict). `WriteRaises` is the OSError of a journal or ledger write;
`MaxLostWrites` bounds how many there are. `FlattenRaises` is a /halt, or a
tripped circuit, whose confirm_cancel record cannot be written: the exception
leaves `Engine.flatten` before the HALT file, the sweep and `Engine.halted`.

Simplifications: one symbol (already_in_symbol, the only gate that remembers
earlier sends, is per symbol); every other gate is a free choice to refuse; the
filling-mode retries of MT5, which follow a rejection, are not counted as
transmissions; prices, volumes and texts are not represented.

The HALT file is made and removed by /halt and /resume, and by hand at any
moment (README.md:156, docs/RUNBOOK.md:532): also between the checks of an order,
which read it, and the transmission, which does not (engine.py:650-668). `quota`
is a history variable that fixes, when the file appears, what may still be
transmitted: the tries left to the one venue call whose order is past its checks,
with the adapter's own repetitions; what that call leaves unused is forfeited when
it ends. `HaltStopsSends` says that nothing goes beyond it while the file is there.

Two more abstractions: the order of a `confirm_cancel` or `confirm_sent` record,
which no code reads back, is not kept, and the TTL passes only for an order that
is staged or on record, the only ones whose TTL is ever looked at.

`WriteAheadSend` is the abstract specification: a record before a transmission,
the record removed only after an answer, and an order whose answer was lost
keeps its record and is never sent again. `ImplementsWriteAhead` says that
SendGuard implements it, with the ledger file for the records and the lost
answers for what may never be repeated.

### RiskCircuit

`risk` is the RiskManager (snapshot, latch, reason, integrity slot), `disk` its
file, `engHalted` is Engine.halted. `Observe` returns the possible outcomes of
`RiskManager.observe`, `Persist` those of a save (a failed save leaves the old
file, or the new one when only the chmod after the rename failed), and `Circuit`
is `RiskManager.circuit`.

| Code | Actions |
| --- | --- |
| `Engine.step_all`, `_apply_circuit` | `Tick` |
| `Engine._act` (clock of the bar) | `BarAct` |
| `Engine.preview` for staging and /confirm | `Preview` |
| `RiskManager.circuit_reason`, `Engine.risk_text` | `Look` |
| `Engine._open`, `record_trade` | `SendOk`, `SendRefused`, `SendRaises`, `RecordTrade` |
| `Desk._ask` | `Ask` |
| `Desk._halt`, `_resume`, `clear_operator_halt` | `Halt`, `Resume`, `Leftover` |
| `RiskManager.__init__`, `_restore_state`, `Engine.start` | `Loaded`, `Start` |
| the operator and the world | `HaltFileByHand`, `PermissionFlips`, `EquityMoves`, `DayRolls`, `Crash`, `Corrupt`, `DeleteState` |

History variables hold the truth the properties compare with: `seen` is the
start of the day and the peak as they were first observed, `opened` the opening sends
of the day, `uncounted` those the code never counted for that day.
`mayTrade` merges trade_allowed, trade_expert and the arming of a real-money
desk. The snapshot file is damaged only while the desk is stopped, because it is
read only at a start. `BarDayOffsets` is how the date of the venue's last bar
may differ from the UTC date: {0} where the venue is on UTC, {-1, 0} west of it.
`_act` takes that date for today's, so `seen` is what was first observed under
the date the desk went by, and `allowances` counts the budgets that were handed
out within one UTC day, which is one where the two clocks agree.

### Mailbox

The desk is one process at a time ("Do not run two bots against one mailbox");
how many Experts are attached is not assumed, because the singleton lock alone
does not settle it: `Process` moves the singleton's stamp only when it is
entered, so an operation longer than `SingletonStaleSeconds` lets a second
Expert attach while the first is still working, and nobody tells the first.
From there on the mailbox lock and the claim by rename are what is left, and the
properties are checked with two such Experts.

`req` is the request on the shared name with its age, `res` and `resTmp` are the
reply and its temporary name, which all Experts share. A request is identified by
the order it was posted in (`uid`); `id[u]` is the number it carries, with the
process that chose it, since every process counts from 1 again. An Expert's
record says where in `Process` it is, which request it has claimed, how old that
is, and the ages its two readings of the file's date give. The desk and the
terminal may be on different hosts, so there is no clock: `Tick` makes all ages
older by one, up to the age from which nothing changes any more.

| Code | Actions |
| --- | --- |
| `FileBridge.__init__`, a new process | `Start` |
| `FileBridge._exchange` | `Post`, `PostRaises`, `Accept`, `AcceptRaises`, `GiveUp` |
| `FileBridge._withdraw` | `GiveUp` (withdrawn, locked, claimed) |
| `OnInit`, `OnDeinit` | `Attach`, `Detach` |
| `Process` up to the mutex | `Beat`, `Acquire` |
| `Process`, the claim | `ReadStamp`, `Claim`, `ClaimLost`, `Drop` |
| `Process`, the fence | `Judge` with `FileAge`, `RequestExpired` |
| `Handle` | `Handle` (executes, or is turned down without effect) |
| `Process`, the reply | `Write`, `Publish`, `Release` |
| `LockAcquire` | `Grants` |
| the world | `Crash`, `Die`, `TerminalDies`, `Tick` |

`MaxFaults` bounds, all together, the file operations that fail and the
processes that die. A file that is held open is a failure of the call that meets
it; that the code retries it for a while first changes nothing a property sees.
Whether the rename refreshes the date of the file is undocumented (mq4:301-306),
so `Claim` allows both; whether the age can be told at all (calibration, a clock
set back) is chosen at each fence.

`Exchange` is the abstract specification: a request is posted, executes at most
once or becomes void, and the desk is told "settled" (answered by its own reply,
or withdrawn) only of a request that is no longer pending. `ImplementsExchange`
maps the files, the claims and the places of the Experts to that fate.

### EngineTick

`pc` is where the thread is: "poll" (between two ticks, where chat commands are
handled), the steps of `step_all`, and the steps of a sweep, after which it goes
on at `returnTo`. Each broker call is a step, so the venue may fill or close a
ticket between any two (`Fill`, `Leave`), and a call may raise (`Fault`). A step that
writes a record raises when the journal is "dead"; an exception ends the tick or
the command, as in `run_loop`, which journals it and goes on.

| Code | Actions |
| --- | --- |
| `Engine.step_all`: account and reconnect, `_maybe_daily_recap`, the halted check | `BeginTick`, `Recap` |
| `_apply_circuit`, forgetting what the desk opened and closed | `Gate` |
| `_check_stops`, `_close` | `ReadStops`, `CheckStop`, `StopsDone` |
| `_act`, `_open`, the rest of the EMA leg | `Act`, `AutoDone` |
| `_detect_fills` | `DetectFills`, `Announce`, `Remember` |
| `Engine.flatten` | `ReadOrders`, `Cancel`, `CancelDone`, `ReadPositions`, `CloseOne`, `CloseDone`, `VerifyOpen`, `VerifyWorking`, `Report` |
| `FlattenReport.complete` and its parts | `Complete`, `Survivors`, `OrderSurvivors`, `ClosedElsewhere`, `OrdersGone` |
| chat commands | `DeskOpen`, `DeskPreview`, `DeskPlace`, `DeskClose`, `DeskCloseBy`, `DeskCancel`, `DeskHalt`, `DeskResume` |
| the world | `Fill`, `Leave`, `NextDay`, `JournalDies`, `JournalBack` |

`told` is the set of tickets with an "open" record, `recaps` the recaps of the
day on a desk that is not halted, `sweep.slipped` the orders that filled between
the two reads that verify a sweep. The loss thresholds are a free verdict
(`Observed`); RiskCircuit has them. The tick reads the clock once, so the day
moves between ticks only. A bar of the EMA leg bears the venue's date, which may
be another one (`BarDayOffsets`): `redates` counts the bars that took the key of
the snapshot off the day.

### PositionCare

A position has a side, a volume, an entry, a stop and a target, in ticks and
volume steps. `CheckStop` and `Manage` are one visit of the loops of `_check_stops`
and `_manage_open`; the decision, the request and what the venue makes of it are
one step, because nobody else in the process can change what was read and a
position the venue closed meanwhile is a refusal. A read that raises ends the
tick (`Raises`).

`halted` is Engine.halted. `step_all` returns before the stops while it is set,
and a circuit that trips sweeps and sets it, so a position that survives an
incomplete sweep is not looked at until /resume: `BeginStops` has that guard, and
`ExitTaken` promises an exit on a desk that is not halted. Why the circuit trips
is left open, and the journal is writable here; EngineTick has both.

| Code | Actions and operators |
| --- | --- |
| `Engine.step_all`, `_check_stops` | `BeginStops`, `CheckStop`, `CloseDue`, `StopHit`, `TargetHit`, `ScaleHit` |
| `Engine._manage_open`, `TrendStrategy.manage` | `BeginManage`, `Manage`, `EndTick`, `Managed` |
| `Engine._close`, `_modify` | `CloseAnswered`, `CloseLost`, `Modify`, `Forget` |
| `Engine.flatten`, `_apply_circuit`, `Desk._halt`, `_resume` | `BeginSweep`, `SweepOne`, `EndSweep`, `Resume` |
| /sl, /tp, /scale, /be, /trail, /close, /closeby | `SetSl`, `SetTp`, `SetScaleOut`, `Breakeven`, `TrailOnce`, `CloseTicket`, `CloseBy` |
| the venue and the market | `VenueCloses`, `MarketMoves` |

The ATR is a constant, the multiples of the risk are counted in halves, and the
positions are those a session starts with. `taken` counts how often the venue
carried out the scale-out that is armed, `lost` holds the positions a close of
which was not answered.

### ChatInbox

| Code | Actions |
| --- | --- |
| `TelegramClient.poll_commands`, `_post` | `Poll`, `ReadUpdate`, `ReplyRead` |
| `Engine.poll_telegram`, `Desk.handle` | `Handle`, `Acknowledge`, `BatchDone` |
| `TelegramClient.ack`, `_save_offset` | `Ack` |
| `TelegramClient.__post_init__` | `Restart` |
| the server and the world | `Send`, `Crash` |

An update is a command, or noise: what does not parse or may not command. The
server forgets what lies below the offset of a request that reached it. A retry of
`_post` asks for the same offset and is therefore the same request; a fault is a
reply that never comes, an offset that is not written, or an exception that
`Desk.handle` does not expect.

### PaperBook

A refused request changes nothing, so a refusal is an action that is not enabled
and its conditions are the guards. The loops over a copy of the book are taken
one ticket at a time, oldest first, with nothing in between. Prices are rounded to
ticks already; there are no swaps and no commissions, as in the code.

| Code | Actions and operators |
| --- | --- |
| `_apply`: market orders, closes, close-by, levels, pending orders | `Open`, `Close`, `CloseBy`, `ModifySltp`, `ModifyPending`, `PlacePending`, `RemovePending` |
| `resolve_pending`, `_fill_pending` | `ResolveTick`, `VisitOrder`, `FillPending`, `EndOfFills` |
| `on_bar`, `_hit_level` | `OnBar`, `VisitPosition`, `HitLevel`, `EndOfBar` |
| `seed_bars` | `SeedBars` |
| `account`, `_pnl`, margins | `Equity`, `Pnl`, `MarginUsed`, `FreeMargin` |

## 3. What the runs check

| Run | Instance | Shows |
| --- | --- | --- |
| `SendFaults` | keys m1 (market) and l1 (limit), 1 crash, one repetition of order_send | `UnansweredIsOnFile`, `TransmitOncePerFault`, `RestartKeepsDesk`, `HaltStopsSends`, `TypeOK` |
| `SendReverse` | two market keys, 1 crash, 1 failed write, fair desk | `OneMarketPosition`, `SendReturns`, `ImplementsWriteAhead` |
| `RiskBudget` | 2 days, bars dated the day or the day before, 2 equities, cap 1, one advice turn, 1 crash, 1 failed write, 1 deletion, 1 lost answer, fair loop | `UnhaltedIsOnFile`, `BudgetsSurvive`, `TradesWithinCap`, `SpentBudgetStopsEntries`, `UnreadableIsKept`, `LatchedHaltFlattens`, `LossFlattensArmed`, `TypeOK` |
| `UtcBudget` | the same without any fault | a violation, below |
| `MailboxFaults` | 2 Experts, 2 requests that change the book, budget 1, grace 0, any 2 faults | `AtMostOnce`, `SettledIsFinal`, `AnswerIsOwn`, `NoStaleSend`, `ImplementsExchange`, `TypeOK` |
| `MailboxTakeover` | 2 Experts, 1 request, any 3 faults, fair timer | `OrphanConsumed`, `RestartNotBlocked` |
| `EngineSweep` | 2 tickets, 2 failed calls, 1 outage of the journal, 3 commands, 1 day | `ReportCovers`, `NeverSilent`, `TypeOK` |
| `EngineAlerts` | 1 ticket, 2 failed calls, 2 outages, 2 commands, 2 days, bars dated up to a day off, fair loop | `OneRecapPerRollover`, `AlertsCatchUp` |
| `FlattenRace` | 2 tickets, no failed call, 2 commands | a violation, below |
| `PositionCare` | a buy of 3 steps with or without a sell of 1, 4 prices, 1 fault, 2 commands, fair loop | `ScaleOnce`, `NeverLoosens`, `ExitTaken`, `TypeOK` |
| `ChatInbox` | 4 updates, 2 crashes, 2 faults, fair client | `ReplayedOnlyByCrash`, `AllHandled`, `TypeOK` |
| `PaperVenue` | 1 symbol, 2 prices, 2 tickets of up to 2 steps | `GoneForGood`, `EquityPreserved`, `BarClears`, `TypeOK` |

Two runs are expected to fail.

`UtcBudget`: docs/CONTRACT.md:34 says "start-of-UTC-day equity" and docs/CONTRACT.md:65
"Two budgets per UTC day, ... both durable beside the journal so a restart cannot
hand out a fresh allowance". `Engine._act` takes the time stamp of a bar for the
clock (engine.py:731). On a server west of UTC a new bar after UTC midnight bears
the day before: the snapshot goes back to that date, with the present equity as
its start and its counters at zero, and the next tick moves it on to the UTC date
again, with another start and other counters. No call fails in that run. What
does hold, whatever dates the bars bear, are `BudgetsSurvive`, `TradesWithinCap`
(the cap for each budget handed out) and `SpentBudgetStopsEntries`.

`FlattenRace`: docs/CONTRACT.md:41 says "A sweep that leaves
risk open writes `flatten_incomplete`". The sweep is verified by two reads,
positions and then working orders (engine.py:349). An order whose cancel was
refused and that fills between the two is in neither, so it counts as gone
elsewhere; the report calls itself complete with the position open, and the
engine, now halted, detects no fills. No call fails in that run. The theorem
`CompleteSweep` shows that nothing else can be left: a complete sweep leaves only
such orders (`sweep.slipped`).

Why the bounds are enough. The send path of one key shares only the symbol, the
ledger and the one staging slot with other keys, so two keys show every
interaction: one staged while the other is on the wire, on the book or in the
ledger. One crash reaches every restart point; the proofs cover the rest. In the
mailbox two requests meet on the shared names in every order (a stale reply, a
request put in the place of another), two Experts in every overlap, and the two
faults include a crash of the desk together with one failure or death on the
other side, which a takeover of the lock needs. The lock periods (2 and 3) are
longer than the fence (1), as in the code, where only their order matters;
Experts are symmetric in `MailboxFaults`, which checks no liveness. The run of
`TransmitOncePerFault` has no failed write; the theorem `TransmissionsBounded` covers
those. The risk snapshot compares equities only: the start and a peak above it,
from which the way back is beyond both limits and which is itself a day's start
where the next day begins on it. Two days give one midnight, with every action on
both sides of it, and two budgets on one of them the back and forth of a server
west of UTC; `RiskBudget` checks safety and liveness together. A sweep with two tickets has one order and one position, or two
of a kind, so that one is done while the other fails, fills or is left; two
faults break a read and a close of the same sweep, three commands put a close, an
entry and /halt before one tick. The recap needs two days and the alert one
ticket; two outages of the journal meet the announcement and its retry. In
PositionCare the prices lie below the stop, at the entry, at the target and
beyond the trail; the books put a full and a partial position on both sides, so
that a close-by has a remainder; one fault is a refusal, a partial fill or a lost
answer anywhere, and a scale-out of two steps of three can be filled in part. Two
commands are a scale-out and a /halt or a /resume. Four updates are a batch of two with noise behind it and a
command that arrives later. In PaperVenue the spread of 2 ticks and the three
levels give every relation of price, stop and target; two tickets are the two
legs of a close-by, or an order that fills beside a position; the balance of 6
lets the margin refuse one of them. Bounds on faults are guards of the fault's own action and
limit nothing else. Deadlock is checked in every run: no state is without a
successor.

### Divergences without a run

Statements of the documentation that the code does not keep, met while modelling
and recorded here. The properties are stated so that they allow for each of them.

- "One staged order, at most one transmission" (docs/CONTRACT.md:142): the ledger
  entry is resolved before confirm_sent is written (engine.py:679), so a crash in
  between lets the restored order be sent again, and `_with_reconnect`
  (mt5_live.py:206) repeats order_send without asking. `TransmitOncePerFault` bounds
  it by the faults.
- "cleared only by a VERDICT" (docs/CONTRACT.md:149): a reply without a verdict
  clears the entry as well (engine.py:679).
- `touch HALT` "flattens immediately" (docs/CONTRACT.md:36): an order past its risk
  checks is sent although the file is there; `HaltStopsSends` allows that one.
- "flattens positions for the bot's magic" (docs/CONTRACT.md:34): an unarmed desk
  answers live_not_accepted before it looks at the loss (risk.py:477).
- "self-clears at the next UTC midnight" (docs/RUNBOOK.md:553): step_all returns
  while halted (engine.py:1658); only /resume or a restart clears Engine.halted.
- The sweep is documented never to raise (engine.py:263), but an unwritable journal
  ends it before `Engine.halted` is set; the next tick tries again. A /halt with a
  staged order raises before the HALT file is written.
- "A restart does not replay or drop commands" (docs/CONTRACT.md:243): a crash
  between a command and its acknowledgement repeats it; noise is acknowledged
  when it is read, before earlier commands of its batch are handled, so a crash
  there drops them; and an unexpected exception gives up the rest of the batch.
  `ReplayedOnlyByCrash` and `AllHandled` say exactly that much.
- FILL/CLOSE for a position the venue closed (docs/CONTRACT.md:43) is suppressed
  when the desk's own close was refused because the position was gone; a
  position that fills and closes between two detections is never announced.
- The recap (docs/CONTRACT.md:47) is repeated in every tick after midnight while
  the desk is halted, once more for each bar that bears another date, and left out
  when a desk command observes the new day first.
- Survivors of a sweep are not announced again while halted, an incomplete sweep
  is not tried again before /resume, their stops and targets are not looked at until
  then (engine.py:1658), and the identity of models.py:307 does not
  hold when the book could not be measured.
- README.md:198-200, break-even then trail: a stop exactly at the entry leaves no
  risk to measure by, and the manager never moves it again (`Managed`).
- A close-by, or a close whose answer was lost, can leave a scale-out larger than
  the position: it is refused in every tick and keeps the target from being
  looked at. `ExitTaken` leaves out such positions, `ScaleFits`.
- The paper venue fills a stop order at its own price even if the market gapped
  through it ("Paper fills at bid/ask", docs/CONTRACT.md:81), takes stops on the
  wrong side on a modify, and does not compare the rest of a partial close with the
  smallest volume.

## 4. Fairness

- SendGuard: `WF_vars(HandlerStep)`: the desk thread finishes the handler it is
  in. The step that ends a wait without an answer is the deadline of the bridge
  call, which is the code's own clock. Nothing is assumed of the venue, the
  operator or the wall clock.
- Mailbox (`MailboxTakeover` only): time passes; the timer, which `OnInit` sets and
  only `OnDeinit` kills, lets every attached Expert get on with what it can do
  (`Works`: everything in Process but the failures); and an Expert that is off is
  attached again whenever `OnInit` accepts it, which is the operator's part of
  "a crash cannot block a legitimate restart" (mq4:70-72). Nothing is assumed of
  the desk.
- RiskCircuit: `WF_vars(Tick)`, because `run_loop` (`__main__.py` 506-522) calls
  step_all for ever and swallows what it raises, and `WF_vars(Sending)`, because
  a send ends by its deadline. Nobody restarts a dead process and no command is
  assumed.
- EngineTick: `WF_vars(Tick \/ Flatten)`, the same loop, and `WF_vars(JournalBack)`: an
  outage of the journal ends. `AlertsCatchUp` would be false without the latter, and
  nothing else is assumed: calls may fail as long as the bound lasts.
- PositionCare: weak fairness of the tick and of a sweep that has begun, the loop.
  Whether the circuit trips, and /halt and /resume, are not assumed.
- ChatInbox: `WF_vars(Client)`: the loop polls for ever, and a desk that crashed is
  started again, by the restart policy of its supervisor or by hand.

## 5. What is proved

The eight proof modules prove, for every set of keys, tickets, Experts and
requests, every equity, price, limit, budget and bound:

| Theorem | Property |
| --- | --- |
| `SendGuardProofs!TypeCorrect`, `PhasedAlways` | `TypeOK`; which order, key and reply go with each phase |
| `LedgerNamesUnanswered` | `UnansweredIsOnFile` |
| `TransmissionsBounded` | `TransmitOncePerFault` |
| `HaltHolds` | `HaltStopsSends` |
| `WriteAhead` | `ImplementsWriteAhead` (refinement) |
| `RestartIsFaithful` | `RestartKeepsDesk` |
| `OnePositionHolds` | `OneMarketPosition` |
| `HandlersMoveOn` | no step takes a handler back, each of its own takes it forward: it ends after at most `Resends + 6` steps |
| `SendsReturn` | `SendReturns`, for `Resends` 0 or 1, assuming a handler at work has an enabled step (see below) |
| `RiskCircuitProofs!TypeCorrect`, `SafeAlways` | `TypeOK`; the invariant of the manager and its file |
| `BudgetsOnFile` | `UnhaltedIsOnFile` |
| `UnreadableHalts` | `UnreadableIsKept` |
| `BudgetsAreTrue`, `SpentBudgetHolds` | `BudgetsSurvive`, `SpentBudgetStopsEntries`, for any dates of bars |
| `TradesStayWithinCap` | `TradesWithinCap`, for any dates of bars |
| `LossHaltsAtNextTick` | the first tick that finds a latched halt or a spent budget halts the engine |
| `LatchedHaltIsActedUpon` | `LatchedHaltFlattens`, assuming the tick is enabled where it is due (see below) |
| `SpentBudgetFlattens` | `LossFlattensArmed`, assuming the same of the tick and of the send under way |
| `MailboxProofs!TypeCorrect`, `SafeAlways` | `TypeOK`; where a request is, what was replied to, what the desk was told |
| `ExecutedOnce` | `AtMostOnce` |
| `SettledHolds` | `SettledIsFinal` |
| `AnswersAreOwn` | `AnswerIsOwn` |
| `FenceHolds` | `NoStaleSend` |
| `Implements` | `ImplementsExchange` (refinement) |
| `EngineTickProofs!TypeCorrect`, `ReportsEverything`, `NoSilentPosition` | `TypeOK`, `ReportCovers`, `NeverSilent` |
| `CompleteSweep` | a complete sweep leaves only orders that filled between its closing reads |
| `OneRecap` | `OneRecapPerRollover`, for any dates of bars |
| `PositionCareProofs!TypeCorrect`, `ScaleOutOnce` | `TypeOK`, `ScaleOnce` |
| `StopsOnlyTighten` | `NeverLoosens`, for books of positive entry prices |
| `EveryDueExitAdvances` | each look at a position due to close closes it, disarms its scale-out, or spends a fault: the step behind `ExitTaken` |
| `ChatInboxProofs!TypeCorrect`, `NoReplayWithoutCrash` | `TypeOK`, `ReplayedOnlyByCrash` |
| `NoneForgotten` | the server forgets no command that was neither handled nor excused: the safety half of `AllHandled` |
| `CommandsInOrder` | a command takes effect for the first time only after every earlier one did or was excused |
| `PaperBookProofs!TypeCorrect`, `TicketsGoneForGood`, `BarLeavesNothingDue` | `TypeOK`, `GoneForGood`, `BarClears` |
| `RequestsPreserveEquity` | `EquityPreserved` |

The argument. In SendGuard the base is `Phased`: the phase of the handler fixes
what `cur`, `tries` and the staged order may be, and from "begun" to "replied"
the order's key has its entry on file. `Recorded` adds that an unanswered key
has an entry and is not the one being sent; the ledger property and the
refinement follow from it. `Budgeted` bounds the transmissions of a key by the
faults spent while it was staged again; `QuotaKept` adds to what was transmitted what
the order on its way has left, which a HALT file fixes; `Mirrored` relates the last confirm
record to the staged order; `Covered` says that a market key with a request or a
position behind it excludes every other one. None of the properties is inductive
without the phase: between the removal of the entry and the confirm record the
desk's state looks like that of an order never sent.

In RiskCircuit the base is `Safe`: a manager that does not halt equals what a
restart would load, an unreadable file is latched with its integrity slot set,
and a send is under way only on a desk that read its file. `Budget` adds that
the snapshot's day, start and peak are the observed ones, on file or in memory.
`Cap` bounds what is owed: the sends of the day that are in no count (an answer,
a write or a midnight lost them), and the one not yet counted, are at least what a
snapshot, in memory and on file, falls short by; a send starts from a count below
the cap, so there is room for it. All of it is counted per date the desk goes by, and
the cap once for each budget handed out, which is why the venue's clock does not matter.

In Mailbox the base is `Safe`: a request is on the shared name or with one Expert
and never with two (`Single`), what has been replied to or settled is in neither
place (`Replied`, `Waits`). It does not mention the locks: the claim by rename
alone carries it, which is why it survives two Experts. The lemma `Steps` sorts
all steps into four kinds (a request is posted, claimed or handled, or none comes
closer to being executed), so that each invariant has four cases and not
twenty-three. `Ids` adds that one process uses no id twice and that processes follow
one another; `AllDated` that a date read on the shared name is at least the age
of what is claimed there afterwards.

In EngineTick `VerifyInv` says what the two closing reads still tell when the
sweep is reported: what is open is in the first of them or slipped past it.
`KnownInv` says that what the engine knows has a record, what it opened in this
tick too (from the gate on, where earlier commands are forgotten), and while it
announces, what it found has a record or is still on the list: only together do
they survive an announcement that raises half way. `RecapInv` says that when
every recap of the day is spent, the snapshot bears the day or is about to
observe it; a bar that takes it off the day pays for the next.

In PositionCare `OnceInv` says that a scale-out that was carried out is no longer
armed unless an answer was lost; `EntryInv` keeps entries positive, without which a
stop at break-even would read as none. In ChatInbox `Consecutive` numbers the
updates without gaps, and `ReplayInv` separates what has been handled in this life
of the desk from what may come again: a command at or beyond the offset, or still
in the batch, has been handled at most once a crash. `AccountInv` accounts for
every command: what the desk has read past is handled, excused or still in the
batch, a reply leaves out no command before its last one, and the offset on disk
is past an unhandled command only where later noise was acknowledged, which a
crash turns into an excuse; nothing the server forgets is then unaccounted for.
In PaperBook `ClearInv` says that the positions a bar has already visited have no
level in its range.

`RequestsPreserveEquity` needs no invariant beyond the types, but a fact about a
sum: the equity adds the open profits up in an order `CHOOSE` picks, and a close
takes one position out of that sum, wherever it stood. `SetSums` proves that the
order does not matter. The induction this takes is over data, and the library's
induction theorems take an operator the provers cannot instantiate; it is written
as a smallest counterexample instead: among the subsets of a finite set on
which the claim fails, one is minimal (the strict subset ordering is
well-founded), and taking the chosen element out of it gives a smaller one.

Of three liveness properties everything is proved but one fact: the prover cannot
evaluate `ENABLED`. `TickIsEnabled` and `SendingIsEnabled` (RiskCircuitProofs) and
`HandlerIsEnabled` (SendGuardProofs) say that the fair actions are enabled where
they are due, and are hypotheses of the three theorems; TLC, run with them as
invariants on the instances of `RiskBudget`, `SendFaults` and `SendReverse`, finds no
state that violates them. In SendGuard `StepsLeft` counts the steps a handler has
before it at most; the venue, the clock and the operator leave it alone, so that a
handler ends however the venue answers. `HandlersMoveOn` says so for any number of
repeated calls; the descent itself is spelled out for the adapters the code has,
which repeat a dropped call once or never, because an induction over the number of
steps left would need a temporal formula as the induction's parameter.
In RiskCircuit no send is under way on a manager whose halt is latched (`Quiet`),
so fairness of the tick is enough; a
loss beyond the limit survives an observation, which may raise the peak
(`LossStays`); while it stands, a send comes to its end and no other begins
(`SpentStep`); and the tick that follows halts the engine whether or not the
snapshot can be written (`TickHalts`).

The assumptions are the named ASSUMEs of the modules, on the constants alone, and
the ones named in the table.

Only model-checked: the other liveness properties (`OrphanConsumed`,
`RestartNotBlocked`, `AlertsCatchUp`, `ExitTaken`, `AllHandled`), whose arguments count
down over faults, tickets or updates, an induction over a temporal formula, and need
`ENABLED` at every step; of `ExitTaken` and `AllHandled` the step and the safety half
are theorems. Every invariant and every action property of the passing runs is a
theorem.

## 6. Not modelled, and the plan

What would come next, in this order:

1. The state files: ledger eviction beyond 64 entries and an unparsable ledger,
   which both forget entries, and SendGuard with them.
2. The pure algorithms as operators: sizing and volume steps, pair
   classification, sessions, the watchdog's budgets, the Expert's retry ladders.
3. The mailbox in the place of the venue of SendGuard; the HTTPS shim as one
   more hop of Mailbox.
4. /replace and the levels of working orders; outgoing messages.

What Mailbox leaves open on purpose: a send whose date could not be read on the
shared name passes the fence when the rename refreshes the date (`NoStaleSend`
exempts it by name); "exactly one straightedge Expert per terminal"
(mq4:223) does not hold once an operation outlasts `SingletonStaleSeconds`.

Left out for good: the signal and the indicators (floating-point series; a signal
is a free choice), texts and formatting, the HTTP clients of the advice providers and
the agent worker (they send no order), history preflight (a measurement that
changes no state), configuration parsing, deployment documents.
