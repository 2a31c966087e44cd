------------------------------ MODULE Mailbox ------------------------------
(***************************************************************************)
(* The file mailbox between the desk and the Experts of one MT4 terminal:  *)
(* FileBridge (broker/mt4_live.py) on one side, OnInit, OnDeinit, Process  *)
(* and the two terminal-wide locks of Mt4RiskBot.mq4 on the other.  One    *)
(* desk process uses the mailbox at a time ("Do not run two bots against   *)
(* one mailbox", MT4.md); how many Experts do is not assumed.              *)
(*                                                                         *)
(* There is no common clock.  Time is the age of things (of a lock's       *)
(* stamp, of a request, of the desk's wait); Tick makes all of them older  *)
(* by one, up to the age from which nothing changes any more.              *)
(***************************************************************************)
EXTENDS Integers

CONSTANTS
  Experts,          \* the charts an Expert can be attached to
  MaxRequests,      \* bound: requests posted
  Sends,            \* which of them change the book (IsSendOp)
  Budget,           \* the desk's wait, which is also the request's ttl_ms
  Grace,            \* FenceGraceSec
  SingletonStale, MailboxStale,     \* SingletonStaleSeconds, MailboxStaleSeconds
  MaxFaults         \* bound: file operations that fail, Experts that stop, and
                    \* desk processes and terminals that die, all together

Requests == 1..MaxRequests

ASSUME CountAssumption == MaxRequests \in Nat /\ Sends \subseteq Requests
ASSUME TimeAssumption  == /\ Budget \in Nat /\ Grace \in Nat
                          /\ SingletonStale \in Nat /\ MailboxStale \in Nat
ASSUME BoundAssumption == MaxFaults \in Nat

VARIABLES
  desk,       \* the process: down, idle, or waiting for a reply
  nextId,     \* FileBridge._n
  wait,       \* how long it has waited
  posted,     \* requests posted so far; the last is the one it waits for
  id,         \* the id each request carries, with the process (history) that chose it
  told,       \* what the desk was told of each request
  answer,     \* history: the request whose reply was accepted for it
  req,        \* mt4_risk_bot.req: the request on the shared name, and its age
  res, resTmp,                  \* mt4_risk_bot.res and .res.tmp: the request replied to
  singleton, mailbox,           \* the age of each lock's stamp, or Free
  expert,     \* the Experts
  executed,   \* history: how often each request's operation was executed
  faults,     \* history: what has failed so far
  crashes     \* history: how many desk processes have died

deskVars == <<desk, nextId, wait, posted, id>>
toldVars == <<told, answer>>
lockVars == <<singleton, mailbox>>
countVars == <<faults, crashes>>
vars == <<deskVars, toldVars, req, res, resTmp, lockVars, expert, executed, countVars>>

Free    == -1      \* a lock's value is 0
Unknown == -1      \* a file's modification date could not be read
Nobody  == 0       \* no request

Later(n, bound) == IF n < 0 \/ n >= bound THEN n ELSE n + 1
Older(a, b) == IF a >= b THEN a ELSE b

FenceLimit == Budget + Grace

(* An Expert that is off is not attached, or dead.  Attached, it is idle   *)
(* or somewhere in Process, with the request it has claimed, the age of    *)
(* that request, and the ages its two readings of the file's date give.    *)
Off  == [pc |-> "off",  uid |-> Nobody, age |-> 0, seen |-> Unknown, file |-> Unknown]
Idle == [pc |-> "idle", uid |-> Nobody, age |-> 0, seen |-> Unknown, file |-> Unknown]
Places == {"off", "idle", "locked", "stamped", "claimed", "running", "replying",
           "written", "releasing"}
Holding == {"claimed", "running", "replying", "written", "releasing"}
NoFile == [uid |-> Nobody, age |-> 0]

Fault == faults < MaxFaults /\ faults' = faults + 1

Init ==
  /\ desk = "down" /\ nextId = 0 /\ wait = 0 /\ posted = 0
  /\ id = [u \in Requests |-> [by |-> 0, n |-> 0]]
  /\ told = [u \in Requests |-> "none"] /\ answer = [u \in Requests |-> Nobody]
  /\ req = NoFile /\ res = Nobody /\ resTmp = Nobody
  /\ singleton = Free /\ mailbox = Free
  /\ expert = [i \in Experts |-> Off]
  /\ executed = [u \in Requests |-> 0]
  /\ faults = 0 /\ crashes = 0

-----------------------------------------------------------------------------
(* The desk.                                                               *)

(* A desk process starts: a new FileBridge, which counts from 0 again.     *)
Start ==
  /\ desk = "down"
  /\ desk' = "idle" /\ nextId' = 0
  /\ UNCHANGED <<wait, posted, id, toldVars, req, res, resTmp, lockVars, expert,
                 executed, countVars>>

(* FileBridge._exchange up to the wait: what lies on either name is        *)
(* removed, and the request is renamed onto the shared name.               *)
Post ==
  /\ desk = "idle" /\ posted < MaxRequests
  /\ desk' = "waiting" /\ wait' = 0
  /\ posted' = posted + 1 /\ nextId' = nextId + 1
  /\ id' = [id EXCEPT ![posted + 1] = [by |-> crashes, n |-> nextId + 1]]
  /\ req' = [uid |-> posted + 1, age |-> 0] /\ res' = Nobody
  /\ UNCHANGED <<toldVars, resTmp, lockVars, expert, executed, countVars>>

(* A name is held open until the deadline: PermissionError, at any of the  *)
(* three.  The id is spent.                                                *)
PostRaises ==
  /\ desk = "idle" /\ Fault
  /\ nextId' = nextId + 1
  /\ \/ UNCHANGED <<res, req>>
     \/ res' = Nobody /\ req' \in {req, NoFile}
  /\ UNCHANGED <<desk, wait, posted, id, toldVars, resTmp, lockVars, expert, executed,
                 crashes>>

(* Mutant of Mine: any reply will do.                                      *)
MineAnyId == res # Nobody

(* The reply on the shared name carries the id the desk waits for.         *)
Mine == res # Nobody /\ id[res].n = id[posted].n

(* The desk is told something of the request it waits for.                 *)
Told(what, by) ==
  /\ desk' = "idle" /\ wait' = 0
  /\ told' = [told EXCEPT ![posted] = what]
  /\ answer' = [answer EXCEPT ![posted] = by]
  /\ UNCHANGED <<nextId, posted, id, resTmp, lockVars, expert, executed, crashes>>

(* The reply is accepted, and both files are removed.                      *)
Accept ==
  /\ desk = "waiting" /\ Mine
  /\ Told("answered", res)
  /\ res' = Nobody /\ req' = NoFile
  /\ UNCHANGED faults

(* One of them cannot be removed: PermissionError, and no reply.           *)
AcceptRaises ==
  /\ desk = "waiting" /\ Mine /\ Fault
  /\ Told("raised", Nobody)
  /\ UNCHANGED res \/ (req.uid # Nobody /\ res' = Nobody)
  /\ UNCHANGED req

(* Mutant of GiveUp: the request is called withdrawn whoever has it.       *)
GiveUpBlindly ==
  /\ desk = "waiting" /\ wait = Budget
  /\ Told("withdrawn", Nobody) /\ req' = NoFile
  /\ UNCHANGED <<res, faults>>

(* BridgeTimeout, after FileBridge._withdraw.                              *)
GiveUp ==
  /\ desk = "waiting" /\ wait = Budget
  /\ \/ req.uid # Nobody /\ Told("withdrawn", Nobody) /\ req' = NoFile /\ UNCHANGED faults
     \/ req.uid # Nobody /\ Told("locked", Nobody) /\ Fault /\ UNCHANGED req
     \/ req.uid = Nobody /\ Told("claimed", Nobody) /\ UNCHANGED <<req, faults>>
  /\ UNCHANGED res

(* The desk process dies.                                                  *)
Crash ==
  /\ desk # "down" /\ Fault
  /\ desk' = "down" /\ nextId' = 0 /\ wait' = 0 /\ crashes' = crashes + 1
  /\ UNCHANGED <<posted, id, toldVars, req, res, resTmp, lockVars, expert, executed>>

-----------------------------------------------------------------------------
(* The Experts.                                                            *)

(* Mutant of Grants: a lock is free only when its holder released it.      *)
GrantsFreeOnly(lock, stale) == lock = Free

(* LockAcquire: the lock is free, or its stamp is stale.  The compare-and- *)
(* set against the value read makes the takeover one step.                 *)
Grants(lock, stale) == lock = Free \/ lock > stale

(* OnInit.  Refused, the Expert is not attached.                           *)
Attach(i) ==
  /\ expert[i].pc = "off" /\ Grants(singleton, SingletonStale)
  /\ singleton' = 0
  /\ expert' = [expert EXCEPT ![i] = Idle]
  /\ UNCHANGED <<deskVars, toldVars, req, res, resTmp, mailbox, executed, countVars>>

(* OnDeinit: both locks are released by whoever holds them.                *)
Detach(i) ==
  /\ expert[i].pc # "off" /\ Fault
  /\ expert' = [expert EXCEPT ![i] = Off]
  /\ singleton' = Free
  /\ mailbox' = IF expert[i].pc = "idle" THEN mailbox ELSE Free
  /\ UNCHANGED <<deskVars, toldVars, req, res, resTmp, executed, crashes>>

(* An Expert dies without OnDeinit.                                        *)
Die(i) ==
  /\ expert[i].pc # "off" /\ Fault
  /\ expert' = [expert EXCEPT ![i] = Off]
  /\ UNCHANGED <<deskVars, toldVars, req, res, resTmp, lockVars, executed, crashes>>

(* The terminal dies, and its temporary globals with it.                   *)
TerminalDies ==
  /\ Fault
  /\ expert' = [i \in Experts |-> Off]
  /\ singleton' = Free /\ mailbox' = Free
  /\ UNCHANGED <<deskVars, toldVars, req, res, resTmp, executed, crashes>>

(* Process with nothing to claim, or while another holds the mailbox: the  *)
(* stamp of the singleton is moved, and that is all.                       *)
Beat(i) ==
  /\ expert[i].pc = "idle"
  /\ singleton' = 0
  /\ UNCHANGED <<deskVars, toldVars, req, res, resTmp, mailbox, expert, executed, countVars>>

(* A step of Process that only moves expert i on.                          *)
Moves(i, e) ==
  /\ expert' = [expert EXCEPT ![i] = e]
  /\ UNCHANGED <<deskVars, toldVars, singleton, crashes>>

(* Mutant of Acquire: the mailbox is not taken over.                       *)
AcquireWhenFree(i) ==
  /\ expert[i].pc = "idle" /\ req.uid # Nobody /\ mailbox = Free
  /\ singleton' = 0 /\ mailbox' = 0
  /\ expert' = [expert EXCEPT ![i].pc = "locked"]
  /\ UNCHANGED <<deskVars, toldVars, req, res, resTmp, executed, countVars>>

(* There is a request and the mailbox is to be had.                        *)
Acquire(i) ==
  /\ expert[i].pc = "idle" /\ req.uid # Nobody /\ Grants(mailbox, MailboxStale)
  /\ singleton' = 0 /\ mailbox' = 0
  /\ expert' = [expert EXCEPT ![i].pc = "locked"]
  /\ UNCHANGED <<deskVars, toldVars, req, res, resTmp, executed, countVars>>

(* The date of the request is read from the shared name, if one is there   *)
(* and it can be read.                                                     *)
ReadStamp(i) ==
  /\ expert[i].pc = "locked"
  /\ \/ /\ UNCHANGED faults
        /\ Moves(i, [expert[i] EXCEPT !.pc = "stamped",
                       !.seen = IF req.uid = Nobody THEN Unknown ELSE req.age])
     \/ Fault /\ Moves(i, [expert[i] EXCEPT !.pc = "stamped", !.seen = Unknown])
  /\ UNCHANGED <<req, res, resTmp, mailbox, executed>>

(* Mutant of Claim: the request is read where it lies.                     *)
ClaimByCopy(i) ==
  /\ expert[i].pc = "stamped" /\ req.uid # Nobody
  /\ Moves(i, [expert[i] EXCEPT !.pc = "claimed", !.uid = req.uid, !.age = req.age,
                                !.file = req.age])
  /\ UNCHANGED <<req, res, resTmp, mailbox, executed, faults>>

(* Mutant of Claim: the rename is not checked.                             *)
ClaimUnchecked(i) ==
  /\ expert[i].pc = "stamped"
  /\ Moves(i, [expert[i] EXCEPT !.pc = "claimed", !.uid = req.uid, !.age = req.age,
                                !.file = req.age])
  /\ req' = NoFile
  /\ UNCHANGED <<res, resTmp, mailbox, executed, faults>>

(* The claim by rename, which may refresh the date of the file.            *)
Claim(i) ==
  /\ expert[i].pc = "stamped" /\ req.uid # Nobody
  /\ \E date \in {req.age, 0} :
       Moves(i, [expert[i] EXCEPT !.pc = "claimed", !.uid = req.uid, !.age = req.age,
                                  !.file = date])
  /\ req' = NoFile
  /\ UNCHANGED <<res, resTmp, mailbox, executed, faults>>

(* The claim is lost: nothing is there, or the rename fails.               *)
ClaimLost(i) ==
  /\ expert[i].pc = "stamped"
  /\ \/ req.uid = Nobody /\ UNCHANGED faults
     \/ req.uid # Nobody /\ Fault
  /\ Moves(i, Idle) /\ mailbox' = Free
  /\ UNCHANGED <<req, res, resTmp, executed>>

(* The claim cannot be opened: the request is dropped.                     *)
Drop(i) ==
  /\ expert[i].pc = "claimed" /\ Fault
  /\ Moves(i, Idle) /\ mailbox' = Free
  /\ UNCHANGED <<req, res, resTmp, executed>>

(* Mutant of FileAge: the date is read after the rename only.              *)
FileAgeOfClaim(e) == e.file

(* The older of the two dates counts.                                      *)
FileAge(e) == Older(e.seen, e.file)

(* RequestExpired, for a date that can be told (known) and one that cannot *)
(* (no calibration, or a clock that was set back).                         *)
RequestExpired(e, known) ==
  IF known THEN FileAge(e) > FenceLimit ELSE e.uid \in Sends

(* The fence: an expired request is refused, any other one is handled.     *)
Judge(i) ==
  /\ expert[i].pc = "claimed"
  /\ \E known \in BOOLEAN :
       Moves(i, [Idle EXCEPT !.uid = expert[i].uid,
                   !.pc = IF RequestExpired(expert[i], known) THEN "replying" ELSE "running"])
  /\ UNCHANGED <<req, res, resTmp, mailbox, executed, faults>>

(* Handle: the operation is executed, or turned down without effect.       *)
Handle(i) ==
  /\ expert[i].pc = "running"
  /\ \E times \in {0, 1} :
       executed' = [executed EXCEPT ![expert[i].uid] = @ + times]
  /\ Moves(i, [expert[i] EXCEPT !.pc = "replying"])
  /\ UNCHANGED <<req, res, resTmp, mailbox, faults>>

(* Mutant of Write: what could not be answered is put back.                *)
WriteElsePutBack(i) ==
  /\ expert[i].pc = "replying"
  /\ \/ /\ resTmp' = expert[i].uid /\ UNCHANGED <<faults, req>>
        /\ Moves(i, [expert[i] EXCEPT !.pc = "written"])
     \/ /\ Fault /\ UNCHANGED resTmp
        /\ req' = [uid |-> expert[i].uid, age |-> 0]
        /\ Moves(i, [expert[i] EXCEPT !.pc = "releasing"])
  /\ UNCHANGED <<res, mailbox, executed>>

(* The reply is written to .res.tmp, a name all Experts share; or it       *)
(* cannot be, and nobody will hear of the operation.                       *)
Write(i) ==
  /\ expert[i].pc = "replying"
  /\ \/ /\ resTmp' = expert[i].uid /\ UNCHANGED faults
        /\ Moves(i, [expert[i] EXCEPT !.pc = "written"])
     \/ /\ Fault /\ UNCHANGED resTmp
        /\ Moves(i, [expert[i] EXCEPT !.pc = "releasing"])
  /\ UNCHANGED <<req, res, mailbox, executed>>

(* The old reply is deleted and .res.tmp renamed, whoever wrote it last.   *)
(* Either may fail: the file is open, or is not there any more.            *)
Publish(i) ==
  /\ expert[i].pc = "written"
  /\ \/ res' = resTmp /\ resTmp' = Nobody /\ UNCHANGED faults
     \/ res' \in {res, Nobody} /\ UNCHANGED resTmp /\ Fault
  /\ Moves(i, [expert[i] EXCEPT !.pc = "releasing"])
  /\ UNCHANGED <<req, mailbox, executed>>

(* The mailbox is released, also by an Expert that it was taken from.      *)
Release(i) ==
  /\ expert[i].pc = "releasing"
  /\ Moves(i, Idle) /\ mailbox' = Free
  /\ UNCHANGED <<req, res, resTmp, executed, faults>>

-----------------------------------------------------------------------------
(* A second passes.                                                        *)
Tick ==
  /\ wait' = IF desk = "waiting" THEN Later(wait, Budget) ELSE wait
  /\ req' = IF req.uid = Nobody THEN req
            ELSE [req EXCEPT !.age = Later(@, FenceLimit + 1)]
  /\ singleton' = Later(singleton, SingletonStale + 1)
  /\ mailbox' = Later(mailbox, MailboxStale + 1)
  /\ expert' = [i \in Experts |->
                  [expert[i] EXCEPT
                     !.age  = IF expert[i].pc = "claimed" THEN Later(@, FenceLimit + 1) ELSE @,
                     !.seen = Later(@, FenceLimit + 1),
                     !.file = Later(@, FenceLimit + 1)]]
  /\ UNCHANGED <<desk, nextId, posted, id, toldVars, res, resTmp, executed, countVars>>

Process(i) ==
  \/ Beat(i) \/ Acquire(i) \/ ReadStamp(i) \/ Claim(i) \/ ClaimLost(i) \/ Drop(i)
  \/ Judge(i) \/ Handle(i) \/ Write(i) \/ Publish(i) \/ Release(i)

Next ==
  \/ Start \/ Post \/ PostRaises \/ Accept \/ AcceptRaises \/ GiveUp \/ Crash
  \/ \E i \in Experts : Attach(i) \/ Detach(i) \/ Die(i) \/ Process(i)
  \/ TerminalDies \/ Tick

Spec == Init /\ [][Next]_vars

(* Time passes, an attached Expert is polled by its timer and gets on with *)
(* what it has claimed, and someone attaches an Expert that is off.        *)
Works(i) == \/ Acquire(i) \/ ReadStamp(i) \/ Claim(i) \/ ClaimLost(i) \/ Judge(i)
            \/ Handle(i) \/ Write(i) \/ Publish(i) \/ Release(i)
FairSpec == /\ Spec /\ WF_vars(Tick)
            /\ \A i \in Experts : WF_vars(Works(i)) /\ WF_vars(Attach(i))

-----------------------------------------------------------------------------
TypeOK ==
  /\ desk \in {"down", "idle", "waiting"} /\ nextId \in Nat /\ wait \in 0..Budget
  /\ posted \in 0..MaxRequests
  /\ id \in [Requests -> [by : Nat, n : Nat]]
  /\ told \in [Requests -> {"none", "answered", "raised", "withdrawn", "locked", "claimed"}]
  /\ answer \in [Requests -> 0..posted]
  /\ req \in [uid : 0..posted, age : Nat]
  /\ res \in 0..posted /\ resTmp \in 0..posted
  /\ singleton \in Nat \cup {Free} /\ mailbox \in Nat \cup {Free}
  /\ expert \in [Experts -> [pc : Places, uid : 0..posted, age : Nat,
                             seen : Nat \cup {Unknown}, file : Nat \cup {Unknown}]]
  /\ \A i \in Experts : expert[i].uid # Nobody <=> expert[i].pc \in Holding
  /\ executed \in [Requests -> Nat]
  /\ faults \in Nat /\ crashes \in Nat

(* A request's operation is executed at most once, however many Experts    *)
(* share the mailbox, with locks taken over, retries and restarts.         *)
AtMostOnce == \A u \in Requests : executed[u] <= 1

(* A request that was withdrawn, or whose own reply was accepted, is not   *)
(* executed afterwards.  (A reply of another request can be accepted only  *)
(* as AnswerIsOwn says.)                                                   *)
Settled(u) == told[u] = "withdrawn" \/ (told[u] = "answered" /\ answer[u] = u)
SettledIsFinal == [][\A u \in Requests : Settled(u)' => executed'[u] = executed[u]]_vars

(* The desk takes a reply for its request's only if it is, or if the reply *)
(* was for a request of an earlier process, which used the id before.      *)
AnswerIsOwn ==
  \A u \in Requests : answer[u] \in {Nobody, u} \/ id[answer[u]].by < id[u].by

(* A request that changes the book is handled only while it is younger     *)
(* than the desk's budget and the grace, or if the Expert could not read a *)
(* date on the shared name (nothing lay there yet, or the read failed).    *)
NoStaleSend ==
  [][\A i \in Experts :
       expert[i].pc = "claimed" /\ expert'[i].pc = "running" /\ expert[i].uid \in Sends =>
         expert[i].age <= FenceLimit \/ expert[i].seen = Unknown]_vars

(* A request that a dead desk has left behind is taken off the shared name *)
(* as long as an Expert is attached, also when one that held the mailbox   *)
(* has died.                                                               *)
Attached == \E i \in Experts : expert[i].pc # "off"
OrphanConsumed ==
  desk = "down" /\ req.uid # Nobody /\ Attached ~>
    req.uid = Nobody \/ desk # "down" \/ ~Attached

(* However the last Expert stopped, one can be attached again.             *)
RestartNotBlocked == ~Attached ~> Attached

(* What is still to come of a request.                                     *)
Pending(u) ==
  \/ req.uid = u
  \/ \E i \in Experts : expert[i].uid = u /\ expert[i].pc \in {"claimed", "running"}

Fate == [u \in Requests |->
  IF u > posted THEN "unposted"
  ELSE IF executed[u] > 1 THEN "twice"
  ELSE IF executed[u] = 1 THEN "executed"
  ELSE IF Pending(u) THEN "pending" ELSE "void"]

Verdict == [u \in Requests |->
  IF told[u] = "none" THEN "none" ELSE IF Settled(u) THEN "settled" ELSE "unsure"]

X == INSTANCE Exchange WITH fate <- Fate, verdict <- Verdict

(* The mailbox implements the exchange: each request is posted once,       *)
(* executes at most once, and is called settled only when it is.           *)
ImplementsExchange == X!XSpec

=============================================================================
