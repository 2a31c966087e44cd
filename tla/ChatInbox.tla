----------------------------- MODULE ChatInbox -----------------------------
(***************************************************************************)
(* How chat commands reach the desk: TelegramClient.poll_commands, its     *)
(* offset in memory and on disk, and the loop of Engine.poll_telegram that *)
(* handles a batch and acknowledges each command after it.                 *)
(*                                                                         *)
(* Updates are numbered as the server numbers them.  An update is a        *)
(* command the desk may run, or noise: a message that does not parse, or   *)
(* one of a chat or sender that may not command.  The server forgets what  *)
(* is below the offset of a request it received; nothing else does.        *)
(***************************************************************************)
EXTENDS Naturals, FiniteSets

CONSTANTS
  MaxUpdates,   \* bound: updates sent to the chat
  MaxCrashes,   \* bound: crashes of the desk
  MaxFaults     \* bound: lost replies, failed writes, unexpected exceptions

ASSUME ChatInboxAssumption ==
  MaxUpdates \in Nat /\ MaxCrashes \in Nat /\ MaxFaults \in Nat

VARIABLES
  kind,      \* the server: what the updates sent so far are
  floor,     \* the server: updates below it are forgotten
  pc,        \* "idle", "reading" a reply, "handling" the batch, "acking", "down"
  offset,    \* TelegramClient.offset: the next request asks from here
  acked,     \* TelegramClient._acked
  stored,    \* journal.tg_offset
  reply,     \* updates of the reply that are still to be looked at
  batch,     \* commands of the reply that are still to be handled
  current,   \* the command that was handled and not acknowledged yet
  handled,   \* history: how often each update was handled
  excused,   \* history: commands given up for a reason the code knows
  crashes, faults

server == <<kind, floor>>
client == <<offset, acked, reply, batch, current>>
vars == <<server, pc, client, stored, handled, excused, crashes, faults>>

Updates == 1..MaxUpdates
Sent == DOMAIN kind
Commands == {u \in Sent : kind[u] = "command"}

Init ==
  /\ kind = << >> /\ floor = 1
  /\ pc = "idle"
  /\ offset = 0 /\ acked = 0 /\ stored = 0
  /\ reply = {} /\ batch = {} /\ current = 0
  /\ handled = [u \in Updates |-> 0] /\ excused = {}
  /\ crashes = 0 /\ faults = MaxFaults

Oldest(u, pile) == u \in pile /\ \A v \in pile : u <= v
Larger(a, b) == IF a >= b THEN a ELSE b
NoFault == UNCHANGED faults
Fault == faults > 0 /\ faults' = faults - 1

(***************************************************************************)
(* The chat                                                                *)
(***************************************************************************)
Send(k) ==
  /\ Cardinality(Sent) < MaxUpdates
  /\ kind' = [u \in 1..(Cardinality(Sent) + 1) |-> IF u \in Sent THEN kind[u] ELSE k]
  /\ UNCHANGED <<floor, pc, client, stored, handled, excused, crashes, faults>>

(***************************************************************************)
(* The client                                                              *)
(***************************************************************************)

\* ack: the acknowledged offset goes to disk; a failed write is passed over.
Ack(u) ==
  /\ offset' = Larger(offset, u + 1)
  /\ IF u + 1 > acked
     THEN /\ acked' = u + 1
          /\ (NoFault /\ stored' = acked') \/ (Fault /\ UNCHANGED stored)
     ELSE NoFault /\ UNCHANGED <<acked, stored>>

\* Mutant of Poll: the request asks from the offset on disk.
PollFromDisk ==
  /\ pc = "idle"
  /\ floor' = Larger(floor, stored)
  /\ \/ NoFault /\ reply' = {u \in Sent : u >= floor'} /\ pc' = "reading"
     \/ Fault /\ UNCHANGED <<pc, reply>>
  /\ UNCHANGED <<kind, offset, acked, stored, batch, current, handled, excused, crashes>>

\* One getUpdates, with the retries of _post.  The request may have reached the
\* server although no reply came back.
Poll ==
  /\ pc = "idle"
  /\ floor' = Larger(floor, offset)
  /\ \/ NoFault /\ reply' = {u \in Sent : u >= floor'} /\ pc' = "reading"
     \/ Fault /\ UNCHANGED <<pc, reply>>
  /\ UNCHANGED <<kind, offset, acked, stored, batch, current, handled, excused, crashes>>

\* Mutant of ReadUpdate: every update is acknowledged when it is received.
ReadUpdateAcksAll(u) ==
  /\ pc = "reading" /\ Oldest(u, reply)
  /\ reply' = reply \ {u}
  /\ Ack(u)
  /\ batch' = IF kind[u] = "command" THEN batch \cup {u} ELSE batch
  /\ UNCHANGED <<server, pc, current, handled, excused, crashes>>

\* One update of the reply.  Noise is acknowledged at once, whatever commands
\* before it are still to be handled.
ReadUpdate(u) ==
  /\ pc = "reading" /\ Oldest(u, reply)
  /\ reply' = reply \ {u}
  /\ \/ /\ kind[u] = "command" /\ batch' = batch \cup {u}
        /\ offset' = Larger(offset, u + 1) /\ NoFault /\ UNCHANGED <<acked, stored>>
     \/ kind[u] = "noise" /\ Ack(u) /\ UNCHANGED batch
  /\ UNCHANGED <<server, pc, current, handled, excused, crashes>>

ReplyRead ==
  /\ pc = "reading" /\ reply = {}
  /\ pc' = "handling"
  /\ UNCHANGED <<server, client, stored, handled, excused, crashes, faults>>

\* desk.handle.  An exception it does not expect leaves the loop of the batch
\* once the command is acknowledged: what remains of the batch is given up,
\* and the next request tells the server to forget it.
Handle(u) ==
  /\ pc = "handling" /\ Oldest(u, batch)
  /\ handled' = [handled EXCEPT ![u] = @ + 1]
  /\ \/ NoFault /\ batch' = batch \ {u} /\ UNCHANGED excused
     \/ Fault /\ batch' = {} /\ excused' = excused \cup (batch \ {u})
  /\ current' = u /\ pc' = "acking"
  /\ UNCHANGED <<server, offset, acked, stored, reply, crashes>>

Acknowledge ==
  /\ pc = "acking"
  /\ Ack(current) /\ current' = 0 /\ pc' = "handling"
  /\ UNCHANGED <<server, reply, batch, handled, excused, crashes>>

BatchDone ==
  /\ pc = "handling" /\ batch = {}
  /\ pc' = "idle"
  /\ UNCHANGED <<server, client, stored, handled, excused, crashes, faults>>

(***************************************************************************)
(* Crash and restart                                                       *)
(***************************************************************************)

\* Commands that were not handled although later noise is acknowledged on disk.
Overtaken ==
  {u \in Commands : handled[u] = 0 /\ \E v \in Sent : u < v /\ v < stored /\ kind[v] = "noise"}

Crash ==
  /\ pc # "down" /\ crashes < MaxCrashes
  /\ crashes' = crashes + 1 /\ pc' = "down"
  /\ excused' = excused \cup Overtaken
  /\ reply' = {} /\ batch' = {} /\ current' = 0
  /\ UNCHANGED <<server, offset, acked, stored, handled, faults>>

\* Mutant of Restart: the offset on disk is not read.
RestartFresh ==
  /\ pc = "down" /\ pc' = "idle"
  /\ offset' = 0 /\ acked' = 0
  /\ UNCHANGED <<server, stored, reply, batch, current, handled, excused, crashes, faults>>

\* __post_init__ reads the offset next to the journal.
Restart ==
  /\ pc = "down" /\ pc' = "idle"
  /\ offset' = stored /\ acked' = stored
  /\ UNCHANGED <<server, stored, reply, batch, current, handled, excused, crashes, faults>>

(***************************************************************************)
(* The specification                                                       *)
(***************************************************************************)
Client ==
  \/ Poll \/ ReplyRead \/ Acknowledge \/ BatchDone \/ Restart
  \/ \E u \in Updates : ReadUpdate(u) \/ Handle(u)

Next == Client \/ Crash \/ \E k \in {"command", "noise"} : Send(k)

\* The loop polls for ever and a desk that crashed is started again.
Spec == Init /\ [][Next]_vars /\ WF_vars(Client)

(***************************************************************************)
(* Properties                                                              *)
(***************************************************************************)

\* Every variable has its type.
TypeOK ==
  /\ DOMAIN kind \subseteq Updates /\ \A u \in Sent : kind[u] \in {"command", "noise"}
  /\ floor \in 1..(MaxUpdates + 1)
  /\ pc \in {"idle", "reading", "handling", "acking", "down"}
  /\ offset \in 0..(MaxUpdates + 1) /\ acked \in 0..offset /\ stored \in 0..acked
  /\ reply \subseteq Sent /\ batch \subseteq Commands /\ current \in Sent \cup {0}
  /\ handled \in [Updates -> Nat] /\ excused \subseteq Commands
  /\ crashes \in 0..MaxCrashes /\ faults \in 0..MaxFaults

\* A command is handled again only by a desk that crashed, once for each crash:
\* lost replies and failed offset writes alone repeat nothing (CONTRACT.md "A
\* restart does not replay or drop commands" holds of a desk that is stopped
\* between two batches, TelegramClient.ack).
ReplayedOnlyByCrash == \A u \in Updates : handled[u] <= 1 + crashes

\* Every command sent to the chat is handled in the end, save the rest of a
\* batch that an unexpected exception cut short, and those a crash caught
\* unhandled while noise behind them was acknowledged already
\* (TelegramClient.poll_commands, engine.poll_telegram).
AllHandled ==
  \A u \in Updates : u \in Commands ~> (handled[u] > 0 \/ u \in excused)
=============================================================================
