-------------------------- MODULE ChatInboxProofs --------------------------
(***************************************************************************)
(* Theorems about ChatInbox, for any number of updates, crashes and        *)
(* faults: its types, that only a crash makes the desk handle a command    *)
(* again, that none is lost unaccounted for, and the order they come in.   *)
(***************************************************************************)
EXTENDS ChatInbox, FiniteSetTheorems, TLAPS

(***************************************************************************)
(* Type correctness                                                        *)
(*                                                                         *)
(* The updates of the chat are numbered without a gap, so the number of a  *)
(* new one is not in use.                                                  *)
(***************************************************************************)
Consecutive == \E n \in 0..MaxUpdates : Sent = 1..n

TypeInv == TypeOK /\ Consecutive

LEMMA InitTyped == Init => TypeInv
  <1> SUFFICES ASSUME Init PROVE TypeInv
    OBVIOUS
  <1>1. Sent = {} /\ Sent = 1..0
    BY DEF Init, Sent
  <1>2. /\ floor \in 1..(MaxUpdates + 1) /\ offset \in 0..(MaxUpdates + 1)
        /\ acked \in 0..offset /\ stored \in 0..acked
        /\ crashes \in 0..MaxCrashes /\ faults \in 0..MaxFaults
    BY ChatInboxAssumption DEF Init
  <1>3. handled \in [Updates -> Nat]
    BY DEF Init
  <1>4. Consecutive
    BY <1>1, ChatInboxAssumption DEF Consecutive
  <1> QED BY <1>1, <1>2, <1>3, <1>4 DEF Init, TypeInv, TypeOK, Sent

\* What a new update leaves of the updates before it.
LEMMA SendTyped ==
  ASSUME TypeInv, NEW k \in {"command", "noise"}, Send(k) PROVE TypeInv'
  <1>1. PICK n \in 0..MaxUpdates : Sent = 1..n
    BY DEF TypeInv, Consecutive
  <1>2. Cardinality(Sent) = n
    BY <1>1, FS_Interval, ChatInboxAssumption
  <1>3. n < MaxUpdates /\ kind' = [u \in 1..(n + 1) |-> IF u \in 1..n THEN kind[u] ELSE k]
    BY <1>1, <1>2 DEF Send
  <1>4. Sent' = 1..(n + 1)
    BY <1>3 DEF Sent
  <1>5. \A u \in 1..n : u \in 1..(n + 1) /\ kind'[u] = kind[u]
    BY <1>3
  <1>6. kind'[n + 1] = k /\ \A u \in 1..(n + 1) : u \in 1..n \/ u = n + 1
    BY <1>3
  <1>7. \A u \in Sent' : kind'[u] \in {"command", "noise"}
    BY <1>1, <1>4, <1>5, <1>6 DEF TypeInv, TypeOK
  <1>8. Sent \subseteq Sent' /\ Commands \subseteq Commands'
    BY <1>1, <1>4, <1>5 DEF Commands
  <1>9. Sent' \subseteq Updates /\ Consecutive'
    BY <1>1, <1>3, <1>4, ChatInboxAssumption DEF Updates, Consecutive
  <1>10. UNCHANGED <<floor, pc, offset, acked, reply, batch, current, stored, handled, excused,
                     crashes, faults>>
    BY DEF Send, client
  <1>11. DOMAIN kind' = Sent'
    BY DEF Sent
  <1> QED
    BY <1>7, <1>8, <1>9, <1>10, <1>11 DEF TypeInv, TypeOK

LEMMA AckTyped ==
  ASSUME TypeInv, NEW u \in 0..MaxUpdates, Ack(u)
  PROVE  /\ offset' \in 0..(MaxUpdates + 1) /\ acked' \in 0..offset' /\ stored' \in 0..acked'
         /\ faults' \in 0..MaxFaults
         /\ offset' >= offset /\ offset' >= u + 1
  BY ChatInboxAssumption DEF TypeInv, TypeOK, Ack, Larger, Fault, NoFault

LEMMA ClientTyped ==
  TypeInv /\ (Client \/ Crash) => TypeInv'
  <1> SUFFICES ASSUME TypeInv, Client \/ Crash PROVE TypeInv'
    OBVIOUS
  <1>0. UNCHANGED kind
    BY DEF Client, Crash, Poll, ReplyRead, Acknowledge, BatchDone, Restart, ReadUpdate, Handle, server
  <1>s. UNCHANGED <<Sent, Commands, Consecutive>>
    BY <1>0 DEF Sent, Commands, Consecutive
  <1>n. /\ offset \in Nat /\ acked \in Nat /\ stored \in Nat /\ floor \in Nat /\ MaxUpdates \in Nat
        /\ faults \in Nat /\ crashes \in Nat
    BY ChatInboxAssumption DEF TypeInv, TypeOK
  <1>f. floor \in 1..(MaxUpdates + 1) /\ offset \in 0..(MaxUpdates + 1) /\ faults \in 0..MaxFaults
    BY DEF TypeInv, TypeOK
  <1>c. Sent \subseteq Updates /\ Commands \subseteq Sent
    BY DEF TypeInv, TypeOK, Commands, Sent
  <1>1. CASE Poll
    <2>a. floor' \in {floor, offset} /\ (floor' = offset => offset >= floor)
      BY <1>1, <1>n DEF Poll, Larger
    <2>b. faults' = faults \/ (faults > 0 /\ faults' = faults - 1)
      BY <1>1 DEF Poll, Fault, NoFault
    <2>1. floor' \in 1..(MaxUpdates + 1) /\ faults' \in 0..MaxFaults
      BY <1>f, <1>n, <2>a, <2>b, ChatInboxAssumption
    <2>2. reply' \subseteq Sent /\ pc' \in {"idle", "reading"}
      BY <1>1 DEF Poll, TypeInv, TypeOK
    <2> QED BY <1>0, <1>1, <1>s, <2>1, <2>2 DEF Poll, TypeInv, TypeOK, Sent
  <1>2. CASE ReplyRead \/ BatchDone
    BY <1>0, <1>2, <1>s DEF ReplyRead, BatchDone, server, client, TypeInv, TypeOK, Sent
  <1>3. CASE Acknowledge
    <2>1. current \in 0..MaxUpdates
      BY <1>c, <1>n DEF TypeInv, TypeOK, Updates
    <2>2. /\ offset' \in 0..(MaxUpdates + 1) /\ acked' \in 0..offset' /\ stored' \in 0..acked'
          /\ faults' \in 0..MaxFaults
      BY <1>3, <2>1, AckTyped DEF Acknowledge
    <2> QED BY <1>0, <1>3, <1>s, <2>2 DEF Acknowledge, server, TypeInv, TypeOK, Sent
  <1>4. CASE Restart
    <2>1. offset' \in 0..(MaxUpdates + 1) /\ acked' \in 0..offset' /\ stored' \in 0..acked'
      BY <1>4, <1>n DEF Restart, TypeInv, TypeOK
    <2> QED BY <1>0, <1>4, <1>s, <2>1 DEF Restart, server, TypeInv, TypeOK, Sent
  <1>5. ASSUME NEW u \in Updates, ReadUpdate(u) PROVE TypeInv'
    <2>1. u \in Sent /\ reply' \subseteq Sent /\ u \in 0..MaxUpdates
      BY <1>5, <1>n DEF ReadUpdate, Oldest, Updates, TypeInv, TypeOK
    <2>2. CASE kind[u] = "noise" /\ Ack(u) /\ UNCHANGED batch
      <3>1. /\ offset' \in 0..(MaxUpdates + 1) /\ acked' \in 0..offset' /\ stored' \in 0..acked'
            /\ faults' \in 0..MaxFaults
        BY <2>1, <2>2, AckTyped
      <3> QED BY <1>0, <1>5, <1>s, <2>1, <2>2, <3>1 DEF ReadUpdate, server, TypeInv, TypeOK, Sent
    <2>3. CASE /\ kind[u] = "command" /\ batch' = batch \cup {u}
               /\ offset' = Larger(offset, u + 1) /\ NoFault /\ UNCHANGED <<acked, stored>>
      <3>1. offset' \in 0..(MaxUpdates + 1) /\ acked' \in 0..offset' /\ stored' \in 0..acked'
        BY <1>n, <2>1, <2>3 DEF Larger, TypeInv, TypeOK
      <3>2. batch' \subseteq Commands
        BY <2>1, <2>3 DEF Commands, TypeInv, TypeOK
      <3> QED BY <1>0, <1>5, <1>s, <2>1, <2>3, <3>1, <3>2
              DEF ReadUpdate, server, NoFault, TypeInv, TypeOK, Sent
    <2> QED BY <1>5, <2>2, <2>3 DEF ReadUpdate
  <1>6. ASSUME NEW u \in Updates, Handle(u) PROVE TypeInv'
    <2>1. u \in Sent /\ batch' \subseteq Commands /\ excused' \subseteq Commands
      BY <1>6, <1>c DEF Handle, Oldest, TypeInv, TypeOK
    <2>a. faults' = faults \/ (faults > 0 /\ faults' = faults - 1)
      BY <1>6 DEF Handle, Fault, NoFault
    <2>b. handled' = [handled EXCEPT ![u] = @ + 1] /\ handled \in [Updates -> Nat]
      BY <1>6 DEF Handle, TypeInv, TypeOK
    <2>2. handled' \in [Updates -> Nat] /\ faults' \in 0..MaxFaults
      BY <1>f, <1>n, <2>a, <2>b, ChatInboxAssumption
    <2> QED BY <1>0, <1>6, <1>s, <2>1, <2>2 DEF Handle, server, TypeInv, TypeOK, Sent
  <1>7. CASE Crash
    <2>1. crashes' \in 0..MaxCrashes
      BY <1>7, <1>n, ChatInboxAssumption DEF Crash, TypeInv, TypeOK
    <2>2. excused' \subseteq Commands
      BY <1>7 DEF Crash, Overtaken, TypeInv, TypeOK
    <2> QED BY <1>0, <1>7, <1>s, <2>1, <2>2 DEF Crash, server, TypeInv, TypeOK, Sent
  <1> QED BY <1>1, <1>2, <1>3, <1>4, <1>5, <1>6, <1>7 DEF Client

LEMMA TypeStep == TypeInv /\ [Next]_vars => TypeInv'
  <1>1. TypeInv /\ UNCHANGED vars => TypeInv'
    BY DEF vars, server, client, TypeInv, TypeOK, Sent, Commands, Consecutive
  <1> QED BY <1>1, ClientTyped, SendTyped DEF Next

LEMMA TypeAlways == Spec => []TypeInv
  BY InitTyped, TypeStep, PTL DEF Spec

\* Every reachable state of the inbox is type correct.
THEOREM TypeCorrect == Spec => []TypeOK
  <1>1. TypeInv => TypeOK
    BY DEF TypeInv
  <1> QED BY <1>1, TypeAlways, PTL

(***************************************************************************)
(* What is handled again                                                   *)
(*                                                                         *)
(* A command that is still to come, in the chat or in the batch, was       *)
(* handled once for each crash at most; the one under way may be one ahead *)
(* until the desk crashes.                                                 *)
(***************************************************************************)
ReplayInv ==
  /\ \A u \in Updates : handled[u] <= crashes + 1
  /\ \A u \in Updates : u >= offset \/ u \in batch => handled[u] <= crashes
  /\ \A u \in reply : u >= offset
  /\ \A u \in batch : u < offset
  /\ pc \in {"handling", "acking"} => reply = {}
  /\ pc = "down" => reply = {} /\ batch = {} /\ \A u \in Updates : handled[u] <= crashes

LEMMA ReplayStep ==
  TypeInv /\ ReplayInv /\ [Next]_vars => ReplayInv'
  <1> SUFFICES ASSUME TypeInv, ReplayInv, [Next]_vars PROVE ReplayInv'
    OBVIOUS
  <1>n. /\ offset \in Nat /\ stored \in Nat /\ floor \in Nat /\ crashes \in Nat /\ MaxUpdates \in Nat
        /\ handled \in [Updates -> Nat] /\ Sent \subseteq Updates /\ Updates \subseteq Nat
        /\ reply \subseteq Updates /\ batch \subseteq Updates
    BY ChatInboxAssumption DEF TypeInv, TypeOK, Updates, Sent, Commands
  <1> USE DEF ReplayInv
  <1>1. CASE Poll
    <2>a. floor' \in {floor, offset} /\ (floor' = floor => floor >= offset)
      BY <1>1, <1>n DEF Poll, Larger
    <2>b. \A u \in reply' : u \in reply \/ (u \in Nat /\ u >= floor')
      BY <1>1, <1>n DEF Poll
    <2>c. floor' \in Nat /\ floor' >= offset
      BY <1>n, <2>a
    <2>1. ASSUME NEW u \in reply' PROVE u >= offset
      <3>1. CASE u \in reply
        BY <3>1
      <3>2. CASE u \in Nat /\ u >= floor'
        BY <1>n, <2>c, <3>2
      <3> QED BY <2>b, <3>1, <3>2
    <2>2. pc' \in {"idle", "reading"}
      BY <1>1 DEF Poll
    <2> QED BY <1>1, <2>1, <2>2 DEF Poll
  <1>2. CASE ReplyRead \/ BatchDone
    BY <1>2 DEF ReplyRead, BatchDone, client
  <1>3. CASE Acknowledge
    <2>1. offset' \in Nat /\ offset' >= offset /\ reply' = {} /\ pc' = "handling"
      BY <1>3, <1>n DEF Acknowledge, Ack, Larger, TypeInv, TypeOK, Updates
    <2>2. UNCHANGED <<handled, batch, crashes>>
      BY <1>3 DEF Acknowledge
    <2> QED BY <1>n, <2>1, <2>2
  <1>4. CASE Restart
    BY <1>4, <1>n DEF Restart
  <1>5. ASSUME NEW u \in Updates, ReadUpdate(u) PROVE ReplayInv'
    <2>1. /\ u \in reply /\ \A v \in reply : u <= v
          /\ reply' = reply \ {u} /\ offset' = Larger(offset, u + 1)
          /\ batch' \in {batch, batch \cup {u}}
          /\ UNCHANGED <<handled, crashes, pc>> /\ pc = "reading"
      BY <1>5 DEF ReadUpdate, Oldest, Ack
    <2>2. offset' \in Nat /\ offset' >= offset /\ offset' >= u + 1 /\ u >= offset
      BY <1>n, <2>1 DEF Larger
    <2>3. offset' = u + 1
      BY <1>n, <2>1, <2>2 DEF Larger
    <2>4. \A v \in reply' : v >= offset'
      BY <1>n, <2>1, <2>3
    <2>5. \A v \in batch' : v < offset'
      BY <1>n, <2>1, <2>2
    <2>6. \A v \in Updates : v >= offset' \/ v \in batch' => handled[v] <= crashes
      BY <1>n, <2>1, <2>2
    <2> QED BY <2>1, <2>4, <2>5, <2>6
  <1>6. ASSUME NEW u \in Updates, Handle(u) PROVE ReplayInv'
    <2>1. /\ u \in batch /\ batch' \subseteq batch \ {u}
          /\ handled' = [handled EXCEPT ![u] = @ + 1]
          /\ UNCHANGED <<offset, reply, crashes>> /\ pc = "handling" /\ pc' = "acking"
      BY <1>6 DEF Handle, Oldest
    <2>2. \A v \in Updates : handled'[v] = IF v = u THEN handled[u] + 1 ELSE handled[v]
      BY <1>n, <2>1
    <2> QED BY <1>n, <2>1, <2>2
  <1>7. CASE Crash
    <2>1. crashes' = crashes + 1 /\ pc' = "down" /\ reply' = {} /\ batch' = {} /\ UNCHANGED handled
      BY <1>7 DEF Crash
    <2> QED BY <1>n, <2>1
  <1>8. ASSUME NEW k \in {"command", "noise"}, Send(k) PROVE ReplayInv'
    BY <1>8 DEF Send, client
  <1>9. CASE UNCHANGED vars
    BY <1>9 DEF vars, client
  <1> QED BY <1>1, <1>2, <1>3, <1>4, <1>5, <1>6, <1>7, <1>8, <1>9 DEF Next, Client

\* Lost replies, failed offset writes and cut batches repeat no command: it is
\* handled once, and once more for each crash at most.
THEOREM NoReplayWithoutCrash == Spec => []ReplayedOnlyByCrash
  <1>1. Init => TypeInv /\ ReplayInv
    BY InitTyped DEF Init, ReplayInv
  <1>2. TypeInv /\ ReplayInv /\ [Next]_vars => (TypeInv /\ ReplayInv)'
    BY TypeStep, ReplayStep
  <1>3. TypeInv /\ ReplayInv => ReplayedOnlyByCrash
    BY DEF TypeInv, TypeOK, ReplayInv, ReplayedOnlyByCrash
  <1> QED BY <1>1, <1>2, <1>3, PTL DEF Spec

(***************************************************************************)
(* What is lost, and the order of what is not                              *)
(*                                                                         *)
(* Whatever the desk has asked beyond is done with or in its batch, and    *)
(* the reply in hand has no gap.  The offset on disk may run ahead of a    *)
(* command only past noise: that is what a crash turns into a loss.        *)
(***************************************************************************)
Done(u) == handled[u] > 0 \/ u \in excused

\* The offset on disk is past later noise, so a crash would lose the command.
Passed(u) == \E v \in Sent : u < v /\ v < stored /\ kind[v] = "noise"

\* The server forgets no command that was neither handled nor given up for a
\* reason the code knows (TelegramClient.poll_commands, ack).
NothingForgotten == \A u \in Commands : u < floor => Done(u)

AccountInv ==
  /\ NothingForgotten
  /\ pc # "down" => \A u \in Commands : u < offset => Done(u) \/ u \in batch
  /\ pc = "idle" => batch = {}
  /\ \A r \in reply, u \in Commands : u < r => u \in reply \/ u \in batch \/ Done(u)
  /\ \A u \in Commands : u < stored => Done(u) \/ Passed(u)
  /\ pc = "down" => \A u \in Commands : u < stored => Done(u)
  /\ pc = "acking" => /\ current \in Sent /\ Done(current) /\ current < offset
                      /\ \A b \in batch : current < b
  /\ \A u \in Updates \ Sent : floor <= u /\ offset <= u

LEMMA AccountNumbers ==
  ASSUME TypeInv
  PROVE  /\ offset \in Nat /\ acked \in Nat /\ stored \in Nat /\ floor \in Nat
         /\ stored <= offset
         /\ handled \in [Updates -> Nat] /\ Updates \subseteq Nat /\ \A u \in Updates : u + 1 \in Nat
         /\ Commands \subseteq Sent /\ Sent \subseteq Updates
         /\ reply \subseteq Sent /\ batch \subseteq Commands
  BY ChatInboxAssumption DEF TypeInv, TypeOK, Updates, Sent, Commands

\* The offset on disk after an acknowledgement.
LEMMA AckStores ==
  ASSUME TypeInv, NEW u \in Updates, Ack(u)
  PROVE  offset' = Larger(offset, u + 1) /\ stored' \in {stored, u + 1}
  BY DEF Ack

LEMMA AccountReads ==
  ASSUME TypeInv, ReplayInv, AccountInv, NEW u \in Updates, ReadUpdate(u)
  PROVE  AccountInv'
  <1>n. /\ offset \in Nat /\ stored \in Nat /\ floor \in Nat /\ u \in Nat
        /\ Updates \subseteq Nat /\ Commands \subseteq Sent /\ Sent \subseteq Updates
        /\ reply \subseteq Sent /\ batch \subseteq Commands
    BY AccountNumbers
  <1>1. /\ u \in reply /\ \A v \in reply : u <= v
        /\ reply' = reply \ {u} /\ offset' = Larger(offset, u + 1)
        /\ pc = "reading" /\ UNCHANGED <<kind, floor, pc, handled, excused>>
    BY DEF ReadUpdate, Oldest, Ack, server
  <1>2. u >= offset
    BY <1>1 DEF ReplayInv
  <1>3. offset' = u + 1
    BY <1>n, <1>1, <1>2 DEF Larger
  <1>4. UNCHANGED <<Sent, Commands>> /\ \A c : Done(c)' <=> Done(c)
    BY <1>1 DEF Sent, Commands, Done
  <1>5. \A c \in Commands : c < u => c \in batch \/ Done(c)
    <2> SUFFICES ASSUME NEW c \in Commands, c < u PROVE c \in batch \/ Done(c)
      OBVIOUS
    <2>1. c \notin reply
      BY <1>n, <1>1
    <2> QED BY <1>1, <2>1 DEF AccountInv
  <1>6. batch \subseteq batch' /\ (u \in Commands => u \in batch')
    BY DEF ReadUpdate, Commands
  <1>7. ASSUME NEW c \in Commands, c < offset' PROVE Done(c) \/ c \in batch'
    <2>1. c \in Nat /\ (c < u \/ c = u)
      BY <1>n, <1>3, <1>7
    <2> QED BY <1>5, <1>6, <2>1
  <1>8. ASSUME NEW r \in reply', NEW c \in Commands, c < r
        PROVE  c \in reply' \/ c \in batch' \/ Done(c)
    BY <1>1, <1>6, <1>8 DEF AccountInv
  <1>9. ASSUME NEW c \in Commands, c < stored' PROVE Done(c) \/ Passed(c)'
    <2>1. CASE stored' = stored
      BY <1>1, <1>4, <1>9, <2>1 DEF AccountInv, Passed
    <2>2. CASE stored' # stored
      <3>1. kind[u] = "noise" /\ Ack(u)
        BY <2>2 DEF ReadUpdate
      <3>2. stored' = u + 1
        BY <2>2, <3>1, AckStores
      <3>3. c # u /\ c \in Nat
        BY <1>n, <3>1 DEF Commands
      <3>4. c < u /\ u < stored'
        BY <1>n, <1>9, <3>2, <3>3
      <3> QED BY <1>1, <1>4, <1>n, <3>1, <3>4 DEF Passed
    <2> QED BY <2>1, <2>2
  <1>10. \A v \in Updates \ Sent : floor <= v /\ offset' <= v
    <2> SUFFICES ASSUME NEW v \in Updates \ Sent PROVE floor <= v /\ offset' <= v
      OBVIOUS
    <2>1. PICK n \in 0..MaxUpdates : Sent = 1..n
      BY DEF TypeInv, Consecutive
    <2>2. u \in 1..n /\ v \notin 1..n /\ v \in 1..MaxUpdates
      BY <1>n, <1>1, <2>1 DEF Updates
    <2>3. u + 1 <= v
      BY <2>2, ChatInboxAssumption
    <2> QED BY <1>3, <2>3 DEF AccountInv
  <1>11. NothingForgotten
    BY DEF AccountInv
  <1> QED BY <1>1, <1>4, <1>7, <1>8, <1>9, <1>10, <1>11 DEF AccountInv, NothingForgotten

LEMMA AccountHandles ==
  ASSUME TypeInv, ReplayInv, AccountInv, NEW u \in Updates, Handle(u)
  PROVE  AccountInv'
  <1>n. /\ handled \in [Updates -> Nat] /\ Updates \subseteq Nat
        /\ Commands \subseteq Sent /\ Sent \subseteq Updates
        /\ reply \subseteq Sent /\ batch \subseteq Commands
    BY AccountNumbers
  <1>1. /\ u \in batch /\ \A v \in batch : u <= v
        /\ handled' = [handled EXCEPT ![u] = @ + 1]
        /\ batch' \subseteq batch \ {u} /\ excused \subseteq excused'
        /\ \A v \in batch : v = u \/ v \in batch' \/ v \in excused'
        /\ current' = u /\ pc = "handling" /\ pc' = "acking"
        /\ UNCHANGED <<kind, floor, offset, stored, reply>>
    BY DEF Handle, Oldest, server
  <1>2. UNCHANGED <<Sent, Commands>> /\ \A c : Passed(c)' <=> Passed(c)
    BY <1>1 DEF Sent, Commands, Passed
  <1>3. reply = {}
    BY <1>1 DEF ReplayInv
  <1>4. \A c \in Updates : handled'[c] = IF c = u THEN handled[u] + 1 ELSE handled[c]
    BY <1>n, <1>1
  <1>5. Done(u)' /\ \A c \in Updates : Done(c) => Done(c)'
    BY <1>n, <1>1, <1>4 DEF Done
  <1>6. \A c \in batch : c \in batch' \/ Done(c)'
    BY <1>1, <1>5 DEF Done
  <1>7. u < offset /\ \A b \in batch' : u < b
    BY <1>n, <1>1 DEF ReplayInv
  <1> QED BY <1>n, <1>1, <1>2, <1>3, <1>5, <1>6, <1>7 DEF AccountInv, NothingForgotten

LEMMA AccountSends ==
  ASSUME TypeInv, AccountInv, NEW k \in {"command", "noise"}, Send(k)
  PROVE  AccountInv'
  <1>n. /\ offset \in Nat /\ stored \in Nat /\ floor \in Nat /\ stored <= offset
        /\ Updates \subseteq Nat /\ Commands \subseteq Sent /\ Sent \subseteq Updates
        /\ reply \subseteq Sent
    BY AccountNumbers
  <1>1. PICK n \in 0..MaxUpdates : Sent = 1..n
    BY DEF TypeInv, Consecutive
  <1>2. Cardinality(Sent) = n
    BY <1>1, FS_Interval, ChatInboxAssumption
  <1>3. n < MaxUpdates /\ kind' = [u \in 1..(n + 1) |-> IF u \in 1..n THEN kind[u] ELSE k]
    BY <1>1, <1>2 DEF Send
  <1>4. Sent' = 1..(n + 1) /\ n + 1 \in Updates /\ n + 1 \notin Sent
    BY <1>1, <1>3, ChatInboxAssumption DEF Sent, Updates
  <1>5. \A u \in 1..n : u \in 1..(n + 1) /\ kind'[u] = kind[u]
    BY <1>3
  <1>6. \A u \in Commands' : u \in Commands \/ u = n + 1
    BY <1>1, <1>4, <1>5 DEF Commands
  <1>7. floor <= n + 1 /\ offset <= n + 1
    BY <1>4 DEF AccountInv
  <1>8. UNCHANGED <<floor, pc, offset, stored, reply, batch, current, handled, excused>>
    BY DEF Send, client
  <1>9. \A c : (Done(c)' <=> Done(c)) /\ (Passed(c) => Passed(c)')
    BY <1>1, <1>4, <1>5, <1>8 DEF Done, Passed
  <1>10. \A r \in reply : ~(n + 1 < r)
    BY <1>n, <1>1
  <1>11. ~(n + 1 < floor) /\ ~(n + 1 < offset) /\ ~(n + 1 < stored)
    BY <1>n, <1>7
  <1>12. \A u \in Updates \ Sent' : floor <= u /\ offset <= u
    BY <1>1, <1>4, <1>5 DEF AccountInv
  <1>13. Sent \subseteq Sent'
    BY <1>1, <1>4, <1>5
  <1> QED BY <1>6, <1>8, <1>9, <1>10, <1>11, <1>12, <1>13 DEF AccountInv, NothingForgotten

LEMMA AccountStep ==
  TypeInv /\ ReplayInv /\ AccountInv /\ [Next]_vars => AccountInv'
  <1> SUFFICES ASSUME TypeInv, ReplayInv, AccountInv, [Next]_vars PROVE AccountInv'
    OBVIOUS
  <1>n. /\ offset \in Nat /\ stored \in Nat /\ floor \in Nat /\ stored <= offset
        /\ handled \in [Updates -> Nat] /\ Updates \subseteq Nat
        /\ Commands \subseteq Sent /\ Sent \subseteq Updates
        /\ reply \subseteq Sent /\ batch \subseteq Commands
    BY AccountNumbers
  <1>1. CASE Poll
    <2>1. floor' \in {floor, offset} /\ pc = "idle" /\ pc' \in {"idle", "reading"}
          /\ UNCHANGED <<kind, offset, stored, batch, handled, excused>>
          /\ reply' \in {reply, {u \in Sent : u >= floor'}}
      BY <1>1 DEF Poll, Larger
    <2>2. UNCHANGED <<Sent, Commands>> /\ \A c : (Done(c)' <=> Done(c)) /\ (Passed(c)' <=> Passed(c))
      BY <2>1 DEF Sent, Commands, Done, Passed
    <2>3. \A c \in Commands : c < floor' => Done(c)
      BY <2>1 DEF AccountInv, NothingForgotten
    <2>4. \A r \in reply', c \in Commands : c < r => c \in reply' \/ c \in batch \/ Done(c)
      <3>1. CASE reply' = reply
        BY <3>1 DEF AccountInv
      <3>2. CASE reply' = {u \in Sent : u >= floor'}
        <4>1. floor' \in Nat
          BY <1>n, <2>1
        <4>2. \A c \in Commands : c \in Nat /\ (c >= floor' \/ c < floor')
          BY <1>n, <4>1
        <4> QED BY <1>n, <2>3, <3>2, <4>2
      <3> QED BY <2>1, <3>1, <3>2
    <2>5. \A c \in Updates \ Sent : floor' <= c /\ offset <= c
      BY <2>1 DEF AccountInv
    <2> QED BY <2>1, <2>2, <2>3, <2>4, <2>5 DEF AccountInv, NothingForgotten
  <1>2. CASE ReplyRead \/ BatchDone
    BY <1>2 DEF ReplyRead, BatchDone, server, client, AccountInv, NothingForgotten, Done, Passed,
                Sent, Commands
  <1>3. CASE Acknowledge
    <2>1. /\ current \in Sent /\ Done(current) /\ current < offset
          /\ \A b \in batch : current < b
      BY <1>3 DEF Acknowledge, AccountInv
    <2>2. offset' = Larger(offset, current + 1) /\ stored' \in {stored, current + 1}
      BY <1>3, <1>n, <2>1, AckStores DEF Acknowledge
    <2>3. offset' = offset
      BY <1>n, <2>1, <2>2 DEF Larger
    <2>4. /\ reply = {} /\ pc' = "handling"
          /\ UNCHANGED <<kind, floor, reply, batch, handled, excused>>
      BY <1>3 DEF Acknowledge, ReplayInv, server
    <2>5. UNCHANGED <<Sent, Commands>> /\ \A c : Done(c)' <=> Done(c)
      BY <2>4 DEF Sent, Commands, Done
    <2>6. \A c \in Commands : c < stored' => Done(c) \/ Passed(c)'
      <3>1. CASE stored' = stored
        BY <2>4, <2>5, <3>1 DEF AccountInv, Passed
      <3>2. CASE stored' = current + 1
        <4> SUFFICES ASSUME NEW c \in Commands, c < current + 1 PROVE Done(c)
          BY <3>2
        <4>1. c \in Nat /\ current \in Nat
          BY <1>n, <2>1
        <4>2. c = current \/ (c < current /\ c < offset /\ c \notin batch)
          BY <1>n, <2>1, <4>1
        <4> QED BY <1>3, <2>1, <4>2 DEF Acknowledge, AccountInv
      <3> QED BY <2>2, <3>1, <3>2
    <2>7. pc # "down" /\ pc = "acking"
      BY <1>3 DEF Acknowledge
    <2> QED BY <2>3, <2>4, <2>5, <2>6, <2>7 DEF AccountInv, NothingForgotten
  <1>4. CASE Restart
    <2>1. /\ pc = "down" /\ pc' = "idle" /\ offset' = stored
          /\ UNCHANGED <<kind, floor, stored, reply, batch, handled, excused>>
      BY <1>4 DEF Restart, server
    <2>2. reply = {} /\ batch = {}
      BY <2>1 DEF ReplayInv
    <2>3. UNCHANGED <<Sent, Commands>> /\ \A c : (Done(c)' <=> Done(c)) /\ (Passed(c)' <=> Passed(c))
      BY <2>1 DEF Sent, Commands, Done, Passed
    <2>4. \A c \in Updates \ Sent : floor <= c /\ stored <= c
      BY <1>n DEF AccountInv
    <2> QED BY <2>1, <2>2, <2>3, <2>4 DEF AccountInv, NothingForgotten
  <1>5. CASE Crash
    <2>1. /\ pc' = "down" /\ reply' = {} /\ batch' = {}
          /\ excused' = excused \cup Overtaken
          /\ UNCHANGED <<kind, floor, offset, stored, handled>>
      BY <1>5 DEF Crash, server
    <2>2. UNCHANGED <<Sent, Commands>> /\ \A c : (Done(c) => Done(c)') /\ (Passed(c)' <=> Passed(c))
      BY <2>1 DEF Sent, Commands, Done, Passed
    <2>3. \A c \in Commands : c < stored => Done(c)'
      <3> SUFFICES ASSUME NEW c \in Commands, c < stored, ~Done(c) PROVE Done(c)'
        BY <2>2
      <3>1. Passed(c) /\ handled[c] \in Nat /\ ~(handled[c] > 0)
        BY <1>n DEF AccountInv, Done
      <3>2. handled[c] = 0
        BY <3>1
      <3>3. c \in Overtaken
        BY <3>1, <3>2 DEF Overtaken, Passed
      <3> QED BY <2>1, <3>3 DEF Done
    <2> QED BY <2>1, <2>2, <2>3 DEF AccountInv, NothingForgotten
  <1>6. CASE UNCHANGED vars
    BY <1>6 DEF vars, server, client, AccountInv, NothingForgotten, Done, Passed, Sent, Commands
  <1> QED BY <1>1, <1>2, <1>3, <1>4, <1>5, <1>6, AccountReads, AccountHandles, AccountSends
          DEF Next, Client

LEMMA AccountAlways == Spec => [](TypeInv /\ ReplayInv /\ AccountInv)
  <1>1. Init => TypeInv /\ ReplayInv /\ AccountInv
    <2> SUFFICES ASSUME Init PROVE TypeInv /\ ReplayInv /\ AccountInv
      OBVIOUS
    <2>1. TypeInv /\ ReplayInv
      BY InitTyped DEF Init, ReplayInv
    <2>2. Commands = {} /\ Sent = {} /\ \A u \in Updates : 1 <= u /\ 0 <= u
      BY DEF Init, Commands, Sent, Updates
    <2> QED BY <2>1, <2>2 DEF Init, AccountInv, NothingForgotten
  <1>2. TypeInv /\ ReplayInv /\ AccountInv /\ [Next]_vars => (TypeInv /\ ReplayInv /\ AccountInv)'
    BY TypeStep, ReplayStep, AccountStep
  <1> QED BY <1>1, <1>2, PTL DEF Spec

\* Whatever replies, offset writes and batches are lost and whenever the desk
\* crashes, the server forgets no command that was not handled, save those of
\* a batch an exception cut short and those a crash caught behind noise.
THEOREM NoneForgotten == Spec => []NothingForgotten
  <1>1. AccountInv => NothingForgotten
    BY DEF AccountInv
  <1> QED BY <1>1, AccountAlways, PTL

\* A command is handled for the first time only when every command sent before
\* it was handled or given up: /halt is never overtaken by a later /confirm.
HandledInOrder ==
  [][\A u \in Updates : handled[u] = 0 /\ handled'[u] > 0 =>
       \A v \in Commands : v < u => Done(v)]_vars

THEOREM CommandsInOrder == Spec => HandledInOrder
  <1>1. TypeInv /\ ReplayInv /\ AccountInv /\ [Next]_vars =>
          [\A u \in Updates : handled[u] = 0 /\ handled'[u] > 0 =>
             \A v \in Commands : v < u => Done(v)]_vars
    <2> SUFFICES ASSUME TypeInv, ReplayInv, AccountInv, Next,
                        NEW u \in Updates, handled[u] = 0, handled'[u] > 0,
                        NEW v \in Commands, v < u
                 PROVE  Done(v)
      OBVIOUS
    <2>n. /\ handled \in [Updates -> Nat] /\ Updates \subseteq Nat /\ offset \in Nat
          /\ Commands \subseteq Sent /\ Sent \subseteq Updates /\ batch \subseteq Commands
      BY AccountNumbers
    <2>1. handled' # handled
      OBVIOUS
    <2>2. PICK w \in Updates : Handle(w)
      BY <2>1 DEF Next, Client, Poll, ReplyRead, Acknowledge, BatchDone, Restart, ReadUpdate, Crash, Send
    <2>3. handled' = [handled EXCEPT ![w] = @ + 1] /\ w \in batch /\ \A b \in batch : w <= b
      BY <2>2 DEF Handle, Oldest
    <2>4. w = u
      BY <2>n, <2>3
    <2>5. u < offset /\ v < offset /\ v \notin batch
      <3>1. u < offset
        BY <2>3, <2>4 DEF ReplayInv
      <3>2. v \in Nat /\ u \in Nat
        BY <2>n
      <3> QED BY <2>n, <2>3, <2>4, <3>1, <3>2
    <2>6. pc # "down"
      BY <2>2 DEF Handle
    <2> QED BY <2>5, <2>6 DEF AccountInv
  <1> QED BY <1>1, AccountAlways, PTL DEF Spec, HandledInOrder
=============================================================================
