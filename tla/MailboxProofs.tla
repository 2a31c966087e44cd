--------------------------- MODULE MailboxProofs ---------------------------
(***************************************************************************)
(* Mailbox for any number of Experts and requests, every budget and every  *)
(* number of failures.                                                     *)
(***************************************************************************)
EXTENDS Mailbox, TLAPS

USE DEF deskVars, toldVars, lockVars, countVars, Requests, Free, Unknown, Nobody

ExpertType(n) == [pc : Places, uid : 0..n, age : Nat,
                  seen : Nat \cup {Unknown}, file : Nat \cup {Unknown}]

LEMMA OffAndIdle ==
  ASSUME NEW n \in Nat
  PROVE  Off \in ExpertType(n) /\ Idle \in ExpertType(n) /\ NoFile \in [uid : 0..n, age : Nat]
  BY DEF Off, Idle, ExpertType, Places, NoFile

(* What the steps of an Expert write into its record keeps the type.       *)
LEMMA PlaceSet ==
  ASSUME NEW n \in Nat, NEW x \in ExpertType(n), NEW p \in Places
  PROVE  [x EXCEPT !.pc = p] \in ExpertType(n)
  BY DEF ExpertType

LEMMA StampSet ==
  ASSUME NEW n \in Nat, NEW x \in ExpertType(n), NEW p \in Places,
         NEW t \in Nat \cup {Unknown}
  PROVE  [x EXCEPT !.pc = p, !.seen = t] \in ExpertType(n)
  BY DEF ExpertType

LEMMA ClaimSet ==
  ASSUME NEW n \in Nat, NEW x \in ExpertType(n), NEW p \in Places, NEW u \in 0..n,
         NEW a \in Nat, NEW f \in Nat \cup {Unknown}
  PROVE  [x EXCEPT !.pc = p, !.uid = u, !.age = a, !.file = f] \in ExpertType(n)
  BY DEF ExpertType

LEMMA AgesSet ==
  ASSUME NEW n \in Nat, NEW x \in ExpertType(n), NEW a \in Nat,
         NEW t \in Nat \cup {Unknown}, NEW f \in Nat \cup {Unknown}
  PROVE  [x EXCEPT !.age = a, !.seen = t, !.file = f] \in ExpertType(n)
  BY DEF ExpertType

LEMMA LaterType ==
  ASSUME NEW b \in Nat
  PROVE  /\ \A n \in Nat : Later(n, b) \in Nat /\ (n <= b => Later(n, b) <= b)
         /\ \A n \in Nat \cup {-1} : Later(n, b) \in Nat \cup {-1}
         /\ \A n \in Nat \cup {-1} : (Later(n, b) = -1) = (n = -1)
         /\ \A m, n \in Nat : m >= n => Later(m, b) >= Later(n, b)
  BY DEF Later

LEMMA LimitType == FenceLimit \in Nat /\ FenceLimit + 1 \in Nat
                   /\ SingletonStale + 1 \in Nat /\ MailboxStale + 1 \in Nat
  BY TimeAssumption DEF FenceLimit

-----------------------------------------------------------------------------
(* TypeOK in two halves, for the steps that leave one of them alone.       *)
DeskTyped ==
  /\ desk \in {"down", "idle", "waiting"} /\ nextId \in Nat /\ wait \in 0..Budget
  /\ posted \in 0..MaxRequests
  /\ id \in [Requests -> [by : Nat, n : Nat]]
  /\ told \in [Requests -> {"none", "answered", "raised", "withdrawn", "locked", "claimed"}]
  /\ answer \in [Requests -> 0..posted]

FilesTyped ==
  /\ req \in [uid : 0..posted, age : Nat]
  /\ res \in 0..posted /\ resTmp \in 0..posted
  /\ singleton \in Nat \cup {Free} /\ mailbox \in Nat \cup {Free}
  /\ executed \in [Requests -> Nat]
  /\ faults \in Nat /\ crashes \in Nat

ExpertsTyped ==
  /\ expert \in [Experts -> ExpertType(posted)]
  /\ \A i \in Experts : (expert[i].uid # Nobody <=> expert[i].pc \in Holding)

LEMMA TypeHalves == TypeOK <=> DeskTyped /\ FilesTyped /\ ExpertsTyped
  BY DEF TypeOK, DeskTyped, FilesTyped, ExpertsTyped, ExpertType

(* One Expert changes, into a well-typed one.                              *)
LEMMA OneExpertTyped ==
  ASSUME ExpertsTyped, posted \in Nat, posted' = posted,
         NEW i \in Experts, NEW e \in ExpertType(posted),
         e.uid # Nobody <=> e.pc \in Holding,
         expert' = [expert EXCEPT ![i] = e]
  PROVE  ExpertsTyped'
  BY DEF ExpertsTyped

THEOREM TypeInit == Init => TypeOK
  <1> SUFFICES ASSUME Init PROVE TypeOK
    OBVIOUS
  <1>1. DeskTyped
    BY CountAssumption, TimeAssumption DEF Init, DeskTyped
  <1>2. FilesTyped
    BY DEF Init, FilesTyped, NoFile
  <1>3. ExpertsTyped
    BY DEF Init, ExpertsTyped, ExpertType, Off, Places, Holding
  <1>. QED
    BY <1>1, <1>2, <1>3, TypeHalves

(* What the steps that leave the desk alone do to the rest.                *)
LEMMA DeskKept ==
  ASSUME DeskTyped, UNCHANGED <<deskVars, toldVars>>
  PROVE  DeskTyped'
  BY DEF DeskTyped

LEMMA FilesKept ==
  ASSUME FilesTyped, posted' = posted, posted \in Nat,
         req' \in [uid : 0..posted, age : Nat], res' \in 0..posted, resTmp' \in 0..posted,
         singleton' \in Nat \cup {Free}, mailbox' \in Nat \cup {Free},
         executed' \in [Requests -> Nat], faults' \in Nat, crashes' \in Nat
  PROVE  FilesTyped'
  BY DEF FilesTyped

LEMMA TypeStep == TypeOK /\ [Next]_vars => TypeOK'
  <1> SUFFICES ASSUME TypeOK, [Next]_vars
               PROVE  DeskTyped' /\ FilesTyped' /\ ExpertsTyped'
    BY DEF TypeOK, DeskTyped, FilesTyped, ExpertsTyped, ExpertType
  <1> DeskTyped /\ FilesTyped /\ ExpertsTyped
    BY TypeHalves
  <1>0. /\ posted \in Nat /\ posted \in 0..MaxRequests /\ MaxRequests \in Nat
        /\ Budget \in Nat /\ FenceLimit \in Nat
    BY CountAssumption, TimeAssumption, LimitType DEF DeskTyped
  <1>a. /\ req \in [uid : 0..posted, age : Nat] /\ res \in 0..posted /\ resTmp \in 0..posted
        /\ singleton \in Nat \cup {Free} /\ mailbox \in Nat \cup {Free}
        /\ executed \in [Requests -> Nat] /\ faults \in Nat /\ crashes \in Nat
    BY DEF FilesTyped
  <1>b. /\ NoFile \in [uid : 0..posted, age : Nat] /\ Nobody \in 0..posted
        /\ Off \in ExpertType(posted) /\ Idle \in ExpertType(posted)
        /\ Off.uid = Nobody /\ Off.pc \notin Holding /\ Idle.uid = Nobody /\ Idle.pc \notin Holding
    <2>1. Off.uid = Nobody /\ Off.pc \notin Holding /\ Idle.uid = Nobody /\ Idle.pc \notin Holding
      BY DEF Off, Idle, Holding
    <2>. QED
      BY <1>0, <2>1, OffAndIdle
  <1>c. ASSUME UNCHANGED <<posted, expert>> PROVE ExpertsTyped'
    BY <1>c DEF ExpertsTyped
  <1> HIDE DEF TypeOK, DeskTyped, FilesTyped, ExpertsTyped
  <1>1. CASE Start
    <2>1. DeskTyped'
      BY <1>1 DEF Start, DeskTyped
    <2>2. UNCHANGED <<posted, req, res, resTmp, singleton, mailbox, expert, executed, faults, crashes>>
      BY <1>1 DEF Start
    <2>. QED
      BY <1>0, <1>a, <1>c, <2>1, <2>2, FilesKept
  <1>2. CASE Post
    <2>0. /\ posted' = posted + 1 /\ posted + 1 \in 0..MaxRequests /\ posted + 1 \in Requests
          /\ req' = [uid |-> posted + 1, age |-> 0] /\ res' = Nobody
          /\ UNCHANGED <<told, answer, resTmp, singleton, mailbox, expert, executed, faults, crashes>>
      BY <1>0, <1>2 DEF Post
    <2>1. DeskTyped'
      <3>1. id' \in [Requests -> [by : Nat, n : Nat]]
        BY <1>2, <1>a, <2>0 DEF Post, DeskTyped
      <3>2. answer' \in [Requests -> 0..posted']
        BY <1>0, <2>0 DEF DeskTyped
      <3>3. desk' = "waiting" /\ nextId' = nextId + 1 /\ wait' = 0
        BY <1>2 DEF Post
      <3>. QED
        BY <1>0, <2>0, <3>1, <3>2, <3>3 DEF DeskTyped
    <2>2. FilesTyped'
      <3>1. req' \in [uid : 0..posted', age : Nat]
        BY <1>0, <2>0
      <3>. QED
        BY <1>0, <1>a, <2>0, <3>1 DEF FilesTyped
    <2>3. ExpertsTyped'
      <3>1. ExpertType(posted) \subseteq ExpertType(posted')
        BY <1>0, <2>0 DEF ExpertType
      <3>2. expert' \in [Experts -> ExpertType(posted')]
        BY <2>0, <3>1 DEF ExpertsTyped
      <3>. QED
        BY <2>0, <3>2 DEF ExpertsTyped
    <2>. QED
      BY <2>1, <2>2, <2>3
  <1>3. CASE PostRaises
    <2>1. /\ UNCHANGED <<desk, wait, posted, id, told, answer, resTmp, singleton, mailbox,
                         expert, executed, crashes>>
          /\ nextId' = nextId + 1 /\ faults' = faults + 1
          /\ req' \in {req, NoFile} /\ res' \in {res, Nobody}
      BY <1>3 DEF PostRaises, Fault
    <2>2. DeskTyped'
      BY <2>1 DEF DeskTyped
    <2>. QED
      BY <1>0, <1>a, <1>b, <1>c, <2>1, <2>2, FilesKept
  <1>4. CASE Accept \/ AcceptRaises \/ GiveUp
    <2>1. /\ UNCHANGED <<nextId, posted, id, resTmp, singleton, mailbox, expert, executed, crashes>>
          /\ desk' = "idle" /\ wait' = 0
      BY <1>4 DEF Accept, AcceptRaises, GiveUp, Told
    <2>2. \E what \in {"answered", "raised", "withdrawn", "locked", "claimed"}, by \in {res, Nobody} :
            told' = [told EXCEPT ![posted] = what] /\ answer' = [answer EXCEPT ![posted] = by]
      BY <1>4 DEF Accept, AcceptRaises, GiveUp, Told
    <2>3. req' \in {req, NoFile} /\ res' \in {res, Nobody} /\ faults' \in {faults, faults + 1}
      BY <1>4 DEF Accept, AcceptRaises, GiveUp, Fault
    <2>4. DeskTyped'
      <3>1. answer' \in [Requests -> 0..posted]
        <4>1. PICK by \in {res, Nobody} : answer' = [answer EXCEPT ![posted] = by]
          BY <2>2
        <4>2. by \in 0..posted
          BY <1>a, <1>b
        <4>3. answer \in [Requests -> 0..posted]
          BY DEF DeskTyped
        <4>. QED
          BY <4>1, <4>2, <4>3
      <3>2. told' \in [Requests -> {"none", "answered", "raised", "withdrawn", "locked", "claimed"}]
        BY <2>2 DEF DeskTyped
      <3>. QED
        BY <1>0, <2>1, <3>1, <3>2 DEF DeskTyped
    <2>5. FilesTyped'
      BY <1>0, <1>a, <1>b, <2>1, <2>3, FilesKept
    <2>. QED
      BY <1>c, <2>1, <2>4, <2>5
  <1>7. CASE Crash
    <2>1. /\ UNCHANGED <<posted, id, told, answer, req, res, resTmp, singleton, mailbox,
                         expert, executed>>
          /\ desk' = "down" /\ nextId' = 0 /\ wait' = 0
          /\ crashes' = crashes + 1 /\ faults' = faults + 1
      BY <1>7 DEF Crash, Fault
    <2>2. DeskTyped'
      BY <1>0, <2>1 DEF DeskTyped
    <2>. QED
      BY <1>0, <1>a, <1>c, <2>1, <2>2, FilesKept
  <1>8. ASSUME NEW i \in Experts, Attach(i) \/ Detach(i) \/ Die(i)
        PROVE  DeskTyped' /\ FilesTyped' /\ ExpertsTyped'
    <2>1. UNCHANGED <<desk, nextId, wait, posted, id, told, answer, req, res, resTmp,
                      executed, crashes>>
      BY <1>8 DEF Attach, Detach, Die
    <2>2. /\ singleton' \in {singleton, 0, Free} /\ mailbox' \in {mailbox, Free}
          /\ faults' \in {faults, faults + 1}
      BY <1>8 DEF Attach, Detach, Die, Fault
    <2>3. PICK e \in {Off, Idle} : expert' = [expert EXCEPT ![i] = e]
      BY <1>8 DEF Attach, Detach, Die
    <2>a. e \in ExpertType(posted) /\ (e.uid # Nobody <=> e.pc \in Holding)
      BY <1>b
    <2>4. ExpertsTyped'
      BY <1>0, <1>8, <2>1, <2>3, <2>a, OneExpertTyped
    <2>5. FilesTyped'
      BY <1>0, <1>a, <2>1, <2>2, FilesKept
    <2>. QED
      BY <2>1, <2>4, <2>5, DeskKept
  <1>9. ASSUME NEW i \in Experts, Process(i)
        PROVE  DeskTyped' /\ FilesTyped' /\ ExpertsTyped'
    <2>0. /\ expert[i] \in ExpertType(posted)
          /\ (expert[i].uid # Nobody <=> expert[i].pc \in Holding)
      BY <1>9 DEF ExpertsTyped
    <2>1. UNCHANGED <<desk, nextId, wait, posted, id, told, answer, crashes>>
      BY <1>9 DEF Process, Beat, Acquire, ReadStamp, Claim, ClaimLost, Drop, Judge, Handle,
                  Write, Publish, Release, Moves
    <2>2. /\ req' \in {req, NoFile} /\ singleton' \in {singleton, 0}
          /\ mailbox' \in {mailbox, 0, Free} /\ faults' \in {faults, faults + 1}
      BY <1>9 DEF Process, Beat, Acquire, ReadStamp, Claim, ClaimLost, Drop, Judge, Handle,
                  Write, Publish, Release, Moves, Fault
    <2>3. res' \in {res, resTmp, Nobody} /\ resTmp' \in {resTmp, Nobody, expert[i].uid}
      BY <1>9 DEF Process, Beat, Acquire, ReadStamp, Claim, ClaimLost, Drop, Judge, Handle,
                  Write, Publish, Release, Moves
    <2>4. \/ executed' = executed
          \/ \E times \in {0, 1} : executed' = [executed EXCEPT ![expert[i].uid] = @ + times]
      BY <1>9 DEF Process, Beat, Acquire, ReadStamp, Claim, ClaimLost, Drop, Judge, Handle,
                  Write, Publish, Release, Moves
    <2>5. FilesTyped'
      <3>1. expert[i].uid \in 0..posted
        BY <2>0 DEF ExpertType
      <3>2. executed' \in [Requests -> Nat]
        BY <1>a, <2>4
      <3>3. req' \in [uid : 0..posted, age : Nat]
        BY <1>a, <1>b, <2>2
      <3>4. res' \in 0..posted /\ resTmp' \in 0..posted
        BY <1>a, <1>b, <2>3, <3>1
      <3>5. /\ singleton' \in Nat \cup {Free} /\ mailbox' \in Nat \cup {Free}
            /\ faults' \in Nat /\ crashes' \in Nat
        BY <1>a, <2>1, <2>2
      <3>. QED
        BY <1>0, <2>1, <3>2, <3>3, <3>4, <3>5, FilesKept
    <2>6. ExpertsTyped'
      <3>1. CASE Beat(i)
        BY <1>c, <2>1, <3>1 DEF Beat
      <3>2. CASE ClaimLost(i) \/ Drop(i) \/ Release(i)
        <4>1. expert' = [expert EXCEPT ![i] = Idle]
          BY <3>2 DEF ClaimLost, Drop, Release, Moves
        <4>. QED
          BY <1>0, <1>9, <1>b, <2>1, <4>1, OneExpertTyped
      <3>3. CASE Acquire(i) \/ Handle(i) \/ Write(i) \/ Publish(i)
        <4>1. PICK p \in Places :
                /\ expert' = [expert EXCEPT ![i] = [expert[i] EXCEPT !.pc = p]]
                /\ (expert[i].pc \in Holding <=> p \in Holding)
          <5>1. CASE Acquire(i)
            BY <5>1 DEF Acquire, Places, Holding
          <5>2. CASE Handle(i)
            BY <5>2 DEF Handle, Moves, Places, Holding
          <5>3. CASE Write(i)
            BY <5>3 DEF Write, Moves, Places, Holding
          <5>4. CASE Publish(i)
            BY <5>4 DEF Publish, Moves, Places, Holding
          <5>. QED
            BY <3>3, <5>1, <5>2, <5>3, <5>4
        <4> DEFINE e == [expert[i] EXCEPT !.pc = p]
        <4>2. e \in ExpertType(posted)
          BY <1>0, <2>0, PlaceSet
        <4>3. e.uid = expert[i].uid /\ e.pc = p
          BY <2>0 DEF ExpertType
        <4>4. e.uid # Nobody <=> e.pc \in Holding
          BY <2>0, <4>1, <4>3
        <4> HIDE DEF e
        <4>. QED
          BY <1>0, <1>9, <2>1, <4>1, <4>2, <4>4, OneExpertTyped DEF e
      <3>a. CASE ReadStamp(i)
        <4>1. PICK t \in Nat \cup {Unknown} :
                expert' = [expert EXCEPT ![i] = [expert[i] EXCEPT !.pc = "stamped", !.seen = t]]
          BY <1>a, <3>a DEF ReadStamp, Moves
        <4> DEFINE e == [expert[i] EXCEPT !.pc = "stamped", !.seen = t]
        <4>2. e \in ExpertType(posted)
          <5>1. "stamped" \in Places
            BY DEF Places
          <5>. QED
            BY <1>0, <2>0, <5>1, StampSet
        <4>3. e.uid = expert[i].uid /\ e.pc = "stamped" /\ expert[i].pc = "locked"
          BY <2>0, <3>a DEF ExpertType, ReadStamp
        <4>4. e.uid # Nobody <=> e.pc \in Holding
          BY <2>0, <4>3 DEF Holding
        <4> HIDE DEF e
        <4>. QED
          BY <1>0, <1>9, <2>1, <4>1, <4>2, <4>4, OneExpertTyped DEF e
      <3>4. CASE Claim(i)
        <4>1. PICK date \in {req.age, 0} :
                expert' = [expert EXCEPT ![i] = [expert[i] EXCEPT !.pc = "claimed",
                             !.uid = req.uid, !.age = req.age, !.file = date]]
          BY <3>4 DEF Claim, Moves
        <4> DEFINE e == [expert[i] EXCEPT !.pc = "claimed", !.uid = req.uid,
                           !.age = req.age, !.file = date]
        <4>2. req.uid # Nobody /\ req.uid \in 0..posted /\ req.age \in Nat
          BY <1>a, <3>4 DEF Claim
        <4>3. e \in ExpertType(posted) /\ e.uid = req.uid /\ e.pc = "claimed"
          <5>1. "claimed" \in Places /\ date \in Nat \cup {Unknown}
            BY <4>2 DEF Places
          <5>2. e \in ExpertType(posted)
            BY <1>0, <2>0, <4>2, <5>1, ClaimSet
          <5>. QED
            BY <2>0, <5>2 DEF ExpertType
        <4>4. e.uid # Nobody <=> e.pc \in Holding
          BY <4>2, <4>3 DEF Holding
        <4> HIDE DEF e
        <4>. QED
          BY <1>0, <1>9, <2>1, <4>1, <4>3, <4>4, OneExpertTyped DEF e
      <3>5. CASE Judge(i)
        <4>1. PICK p \in {"replying", "running"} :
                expert' = [expert EXCEPT ![i] = [Idle EXCEPT !.uid = expert[i].uid, !.pc = p]]
          BY <3>5 DEF Judge, Moves
        <4> DEFINE e == [Idle EXCEPT !.uid = expert[i].uid, !.pc = p]
        <4>2. expert[i].uid # Nobody /\ expert[i].uid \in 0..posted
          BY <2>0, <3>5 DEF Judge, Holding, ExpertType
        <4>3. e \in ExpertType(posted) /\ e.uid = expert[i].uid /\ e.pc = p
          BY <4>2 DEF ExpertType, Places, Idle
        <4>4. e.uid # Nobody <=> e.pc \in Holding
          BY <4>2, <4>3 DEF Holding
        <4> HIDE DEF e
        <4>. QED
          BY <1>0, <1>9, <2>1, <4>1, <4>3, <4>4, OneExpertTyped DEF e
      <3>. QED
        BY <1>9, <3>1, <3>2, <3>3, <3>4, <3>5, <3>a DEF Process
    <2>. QED
      BY <2>1, <2>5, <2>6, DeskKept
  <1>10. CASE TerminalDies
    <2>1. /\ UNCHANGED <<desk, nextId, wait, posted, id, told, answer, req, res, resTmp,
                         executed, crashes>>
          /\ singleton' = Free /\ mailbox' = Free /\ faults' = faults + 1
          /\ expert' = [i \in Experts |-> Off]
      BY <1>10 DEF TerminalDies, Fault
    <2>2. ExpertsTyped'
      BY <1>b, <2>1 DEF ExpertsTyped
    <2>. QED
      BY <1>0, <1>a, <2>1, <2>2, DeskKept, FilesKept
  <1>11. CASE Tick
    <2>1. UNCHANGED <<desk, nextId, posted, id, told, answer, res, resTmp, executed, faults, crashes>>
      BY <1>11 DEF Tick
    <2>2. DeskTyped'
      <3>1. wait \in 0..Budget
        BY DEF DeskTyped
      <3>2. wait' \in {wait, Later(wait, Budget)}
        BY <1>11 DEF Tick
      <3>3. Later(wait, Budget) \in 0..Budget
        BY <1>0, <3>1 DEF Later
      <3>. QED
        BY <2>1, <3>1, <3>2, <3>3 DEF DeskTyped
    <2>3. FilesTyped'
      <3>1. req' \in [uid : 0..posted, age : Nat]
        BY <1>a, <1>11, LaterType, LimitType DEF Tick
      <3>2. singleton' \in Nat \cup {Free} /\ mailbox' \in Nat \cup {Free}
        BY <1>a, <1>11, LaterType, LimitType DEF Tick
      <3>. QED
        BY <1>0, <1>a, <2>1, <3>1, <3>2, FilesKept
    <2>4. ExpertsTyped'
      <3>1. ASSUME NEW i \in Experts
            PROVE  /\ expert'[i] \in ExpertType(posted)
                   /\ expert'[i].uid = expert[i].uid /\ expert'[i].pc = expert[i].pc
        <4>1. expert[i] \in ExpertType(posted)
          BY <3>1 DEF ExpertsTyped
        <4>2. expert'[i] = [expert[i] EXCEPT
                 !.age  = IF expert[i].pc = "claimed" THEN Later(@, FenceLimit + 1) ELSE @,
                 !.seen = Later(@, FenceLimit + 1), !.file = Later(@, FenceLimit + 1)]
          BY <1>11, <3>1 DEF Tick
        <4> DEFINE a == IF expert[i].pc = "claimed" THEN Later(expert[i].age, FenceLimit + 1)
                        ELSE expert[i].age
                   t == Later(expert[i].seen, FenceLimit + 1)
                   f == Later(expert[i].file, FenceLimit + 1)
        <4>3. expert'[i] = [expert[i] EXCEPT !.age = a, !.seen = t, !.file = f]
          BY <4>2
        <4>4. a \in Nat /\ t \in Nat \cup {Unknown} /\ f \in Nat \cup {Unknown}
          <5>1. /\ expert[i].age \in Nat /\ expert[i].seen \in Nat \cup {Unknown}
                /\ expert[i].file \in Nat \cup {Unknown}
            BY <4>1 DEF ExpertType
          <5>. QED
            BY <5>1, LaterType, LimitType
        <4> HIDE DEF a, t, f
        <4>5. expert'[i] \in ExpertType(posted)
          <5>1. posted \in Nat /\ expert[i] \in ExpertType(posted)
            BY <1>0, <4>1
          <5>2. [expert[i] EXCEPT !.age = a, !.seen = t, !.file = f] \in ExpertType(posted)
            BY <4>4, <5>1, AgesSet
          <5>. QED
            BY <4>3, <5>2
        <4>. QED
          BY <4>1, <4>3, <4>5 DEF ExpertType
      <3>2. expert' = [i \in Experts |-> expert'[i]]
        BY <1>11 DEF Tick
      <3>. QED
        BY <2>1, <3>1, <3>2 DEF ExpertsTyped
    <2>. QED
      BY <2>2, <2>3, <2>4
  <1>12. CASE UNCHANGED vars
    BY <1>0, <1>12, <1>a, <1>c, DeskKept, FilesKept DEF vars
  <1>. QED
    BY <1>1, <1>2, <1>3, <1>4, <1>7, <1>8, <1>9, <1>10, <1>11, <1>12 DEF Next

(* Every variable keeps its type, and an Expert has a request in hand      *)
(* exactly from the claim to the release of the mailbox.                   *)
THEOREM TypeCorrect == Spec => []TypeOK
  BY TypeInit, TypeStep, PTL DEF Spec

-----------------------------------------------------------------------------
(* What a step does to the requests: it posts one, an Expert claims or     *)
(* executes one, or none of them comes closer to being executed.           *)

InHand == {"claimed", "running"}

Fades ==
  /\ UNCHANGED <<posted, executed>>
  /\ req'.uid \in {req.uid, Nobody}
  /\ \A i \in Experts : \/ expert'[i].uid = Nobody
                        \/ /\ expert'[i].uid = expert[i].uid
                           /\ expert'[i].pc \in InHand => expert[i].pc \in InHand
  /\ res' \in {res, resTmp, Nobody}
  /\ \/ resTmp' \in {resTmp, Nobody}
     \/ \E i \in Experts : expert[i].pc = "replying" /\ resTmp' = expert[i].uid

Tells == Accept \/ AcceptRaises \/ GiveUp

(* The desk's part of a step in which it is told nothing.                  *)
Silent == UNCHANGED toldVars /\ (desk' = "waiting" => desk = "waiting")

LEMMA Steps ==
  ASSUME TypeOK, [Next]_vars
  PROVE  \/ Fades /\ Silent
         \/ Fades /\ Tells
         \/ Post
         \/ \E i \in Experts : Claim(i) \/ Handle(i)
  <1> ExpertsTyped
    BY TypeHalves
  <1>a. NoFile.uid = Nobody /\ Off.uid = Nobody /\ Idle.uid = Nobody
    BY DEF NoFile, Off, Idle
  <1>b. \A i \in Experts : expert[i] \in ExpertType(posted)
    BY DEF ExpertsTyped
  <1>c. ASSUME UNCHANGED expert
        PROVE  \A i \in Experts : \/ expert'[i].uid = Nobody
                 \/ /\ expert'[i].uid = expert[i].uid
                    /\ expert'[i].pc \in InHand => expert[i].pc \in InHand
    BY <1>c
  <1>d. ASSUME NEW i \in Experts, NEW e, expert' = [expert EXCEPT ![i] = e],
               \/ e.uid = Nobody
               \/ e.uid = expert[i].uid /\ (e.pc \in InHand => expert[i].pc \in InHand)
        PROVE  \A j \in Experts : \/ expert'[j].uid = Nobody
                 \/ /\ expert'[j].uid = expert[j].uid
                    /\ expert'[j].pc \in InHand => expert[j].pc \in InHand
    BY <1>d DEF ExpertsTyped
  <1> HIDE DEF TypeOK, ExpertsTyped
  <1>1. CASE Start \/ PostRaises \/ Crash
    <2>1. /\ UNCHANGED <<posted, executed, expert, told, answer, resTmp>>
          /\ desk' = "waiting" => desk = "waiting"
      BY <1>1 DEF Start, PostRaises, Crash
    <2>2. req' \in {req, NoFile} /\ res' \in {res, Nobody}
      BY <1>1 DEF Start, PostRaises, Crash
    <2>. QED
      BY <1>a, <1>c, <2>1, <2>2 DEF Fades, Silent
  <1>2. CASE Accept \/ AcceptRaises \/ GiveUp
    <2>1. UNCHANGED <<posted, executed, expert, resTmp>>
      BY <1>2 DEF Accept, AcceptRaises, GiveUp, Told
    <2>2. req' \in {req, NoFile} /\ res' \in {res, Nobody}
      BY <1>2 DEF Accept, AcceptRaises, GiveUp
    <2>. QED
      BY <1>2, <1>a, <1>c, <2>1, <2>2 DEF Fades, Tells
  <1>3. ASSUME NEW i \in Experts, Attach(i) \/ Detach(i) \/ Die(i)
        PROVE  Fades /\ Silent
    <2>1. UNCHANGED <<desk, posted, executed, told, answer, req, res, resTmp>>
      BY <1>3 DEF Attach, Detach, Die
    <2>2. PICK e \in {Off, Idle} : expert' = [expert EXCEPT ![i] = e]
      BY <1>3 DEF Attach, Detach, Die
    <2>3. e.uid = Nobody
      BY <1>a
    <2>. QED
      BY <1>3, <1>d, <2>1, <2>2, <2>3 DEF Fades, Silent
  <1>4. CASE TerminalDies
    <2>1. UNCHANGED <<desk, posted, executed, told, answer, req, res, resTmp>>
          /\ expert' = [i \in Experts |-> Off]
      BY <1>4 DEF TerminalDies
    <2>. QED
      BY <1>a, <2>1 DEF Fades, Silent
  <1>5. CASE Tick
    <2>1. UNCHANGED <<desk, posted, executed, told, answer, res, resTmp>>
      BY <1>5 DEF Tick
    <2>2. req'.uid = req.uid
      BY <1>5 DEF Tick, TypeOK
    <2>3. ASSUME NEW i \in Experts
          PROVE  expert'[i].uid = expert[i].uid /\ expert'[i].pc = expert[i].pc
      BY <1>5, <1>b, <2>3 DEF Tick, ExpertType
    <2>. QED
      BY <2>1, <2>2, <2>3 DEF Fades, Silent
  <1>6. ASSUME NEW i \in Experts, Process(i), ~Claim(i), ~Handle(i)
        PROVE  Fades /\ Silent
    <2>1. UNCHANGED <<desk, posted, executed, told, answer, req>>
      BY <1>6 DEF Process, Beat, Acquire, ReadStamp, ClaimLost, Drop, Judge,
                  Write, Publish, Release, Moves
    <2>2. res' \in {res, resTmp, Nobody}
      BY <1>6 DEF Process, Beat, Acquire, ReadStamp, ClaimLost, Drop, Judge,
                  Write, Publish, Release, Moves
    <2>3. resTmp' \in {resTmp, Nobody} \/ (expert[i].pc = "replying" /\ resTmp' = expert[i].uid)
      BY <1>6 DEF Process, Beat, Acquire, ReadStamp, ClaimLost, Drop, Judge,
                  Write, Publish, Release, Moves
    <2>4. \/ UNCHANGED expert
          \/ \E e : /\ expert' = [expert EXCEPT ![i] = e]
                    /\ \/ e.uid = Nobody
                       \/ e.uid = expert[i].uid /\ (e.pc \in InHand => expert[i].pc \in InHand)
      <3>1. CASE Beat(i)
        BY <3>1 DEF Beat
      <3>2. CASE ClaimLost(i) \/ Drop(i) \/ Release(i)
        BY <1>a, <3>2 DEF ClaimLost, Drop, Release, Moves
      <3>3. CASE Judge(i)
        <4>1. PICK p \in {"replying", "running"} :
                expert' = [expert EXCEPT ![i] = [Idle EXCEPT !.uid = expert[i].uid, !.pc = p]]
          BY <3>3 DEF Judge, Moves
        <4>2. [Idle EXCEPT !.uid = expert[i].uid, !.pc = p].uid = expert[i].uid
          BY DEF Idle
        <4>3. expert[i].pc \in InHand
          BY <3>3 DEF Judge, InHand
        <4>. QED
          BY <4>1, <4>2, <4>3
      <3>4. CASE ReadStamp(i)
        <4>1. PICK t : expert' = [expert EXCEPT ![i] = [expert[i] EXCEPT !.pc = "stamped", !.seen = t]]
          BY <3>4 DEF ReadStamp, Moves
        <4> DEFINE e == [expert[i] EXCEPT !.pc = "stamped", !.seen = t]
        <4>2. e.uid = expert[i].uid /\ e.pc \notin InHand
          BY <1>6, <1>b DEF ExpertType, InHand
        <4>. QED
          BY <4>1, <4>2
      <3>5. CASE Acquire(i) \/ Write(i) \/ Publish(i)
        <4>1. PICK p \in {"locked", "written", "releasing"} :
                expert' = [expert EXCEPT ![i] = [expert[i] EXCEPT !.pc = p]]
          BY <3>5 DEF Acquire, Write, Publish, Moves
        <4> DEFINE e == [expert[i] EXCEPT !.pc = p]
        <4>2. e.uid = expert[i].uid /\ e.pc \notin InHand
          BY <1>6, <1>b DEF ExpertType, InHand
        <4>. QED
          BY <4>1, <4>2
      <3>. QED
        BY <1>6, <3>1, <3>2, <3>3, <3>4, <3>5 DEF Process
    <2>5. \A j \in Experts : \/ expert'[j].uid = Nobody
                 \/ /\ expert'[j].uid = expert[j].uid
                    /\ expert'[j].pc \in InHand => expert[j].pc \in InHand
      BY <1>6, <1>c, <1>d, <2>4
    <2>. QED
      BY <1>6, <2>1, <2>2, <2>3, <2>5 DEF Fades, Silent
  <1>7. CASE UNCHANGED vars
    BY <1>c, <1>7 DEF vars, Fades, Silent
  <1>. QED
    BY <1>1, <1>2, <1>3, <1>4, <1>5, <1>6, <1>7 DEF Next

-----------------------------------------------------------------------------
(* A request is in one place at a time and, until it is executed, has not  *)
(* been executed before.                                                   *)
Single ==
  /\ \A u \in Requests : executed[u] <= 1 /\ (u > posted => executed[u] = 0)
  /\ req.uid # Nobody =>
       executed[req.uid] = 0 /\ \A i \in Experts : expert[i].uid # req.uid
  /\ \A i \in Experts : expert[i].pc \in InHand => executed[expert[i].uid] = 0
  /\ \A i, j \in Experts : i # j /\ expert[i].uid # Nobody => expert[i].uid # expert[j].uid

(* What has been replied to is out of the Experts' hands.                  *)
Replied ==
  /\ res # Nobody => ~Pending(res)
  /\ resTmp # Nobody => ~Pending(resTmp)

(* What the desk knows, and what it waits for.                             *)
Waits ==
  /\ desk = "waiting" => posted # 0 /\ req.uid \in {Nobody, posted} /\ told[posted] = "none"
  /\ \A u \in Requests : u > posted => told[u] = "none" /\ answer[u] = Nobody
  /\ \A u \in Requests : Settled(u) => ~Pending(u)

Safe == TypeOK /\ Single /\ Replied /\ Waits

(* The types these proofs use.                                             *)
TypeFacts ==
  /\ posted \in Nat /\ posted <= MaxRequests /\ MaxRequests \in Nat
  /\ req.uid \in 0..posted /\ res \in 0..posted /\ resTmp \in 0..posted
  /\ \A i \in Experts : /\ expert[i].uid \in 0..posted
                        /\ expert[i].pc \in InHand => expert[i].uid # Nobody
                        /\ expert[i].uid # Nobody => expert[i].pc \in Holding
  /\ executed \in [Requests -> Nat]
  /\ \A u \in Requests : answer[u] \in 0..posted

LEMMA Types == TypeOK => TypeFacts
  <1> SUFFICES ASSUME TypeOK PROVE TypeFacts
    OBVIOUS
  <1>1. /\ posted \in 0..MaxRequests /\ req \in [uid : 0..posted, age : Nat]
        /\ res \in 0..posted /\ resTmp \in 0..posted /\ executed \in [Requests -> Nat]
        /\ answer \in [Requests -> 0..posted]
    BY DEF TypeOK
  <1>2. expert \in [Experts -> ExpertType(posted)]
        /\ \A i \in Experts : expert[i].uid # Nobody <=> expert[i].pc \in Holding
    BY TypeHalves DEF ExpertsTyped
  <1>3. \A i \in Experts : expert[i].uid \in 0..posted
    BY <1>2 DEF ExpertType
  <1>4. InHand \subseteq Holding
    BY DEF InHand, Holding
  <1>. QED
    BY <1>1, <1>2, <1>3, <1>4, CountAssumption DEF TypeFacts

(* No request comes closer to being executed but the one that is posted.   *)
LEMMA PendingFades ==
  ASSUME Fades, NEW u \in Requests, Pending(u)'
  PROVE  Pending(u)
  BY DEF Fades, Pending, InHand, Requests

LEMMA PendingMoves ==
  ASSUME TypeOK, TypeOK', NEW i \in Experts, Claim(i) \/ Handle(i)
  PROVE  /\ UNCHANGED <<posted, toldVars, desk, res, resTmp>>
         /\ \A j \in Experts : j # i => expert'[j] = expert[j]
         /\ Claim(i) => /\ expert'[i].uid = req.uid /\ expert'[i].pc = "claimed"
                        /\ req'.uid = Nobody /\ req.uid # Nobody /\ UNCHANGED executed
                        /\ expert[i].pc \notin Holding
         /\ Handle(i) => /\ expert[i].pc = "running" /\ expert'[i].pc = "replying"
                         /\ expert'[i].uid = expert[i].uid /\ UNCHANGED req
                         /\ expert[i].uid \in Requests
                         /\ \E times \in {0, 1} :
                              executed' = [executed EXCEPT ![expert[i].uid] = @ + times]
         /\ \A u \in Requests : Pending(u)' => Pending(u)
  <1> expert \in [Experts -> ExpertType(posted)]
    BY TypeHalves DEF ExpertsTyped
  <1>0. expert[i] \in ExpertType(posted)
    OBVIOUS
  <1> HIDE DEF TypeOK
  <1>1. UNCHANGED <<posted, toldVars, desk, res, resTmp>>
    BY DEF Claim, Handle, Moves
  <1>2. \A j \in Experts : j # i => expert'[j] = expert[j]
    BY DEF Claim, Handle, Moves
  <1>3. CASE Claim(i)
    <2>1. /\ expert'[i].uid = req.uid /\ expert'[i].pc = "claimed"
          /\ req'.uid = Nobody /\ req.uid # Nobody /\ UNCHANGED executed
          /\ expert[i].pc = "stamped"
      BY <1>0, <1>3 DEF Claim, Moves, NoFile, ExpertType
    <2>2. ~Handle(i) /\ expert[i].pc \notin Holding
      BY <2>1 DEF Handle, Holding
    <2>3. ASSUME NEW u \in Requests, Pending(u)' PROVE Pending(u)
      BY <1>2, <2>1, <2>3 DEF Pending, Requests
    <2>. QED
      BY <1>1, <1>2, <2>1, <2>2, <2>3
  <1>4. CASE Handle(i)
    <2>1. /\ expert[i].pc = "running" /\ expert'[i].pc = "replying"
          /\ expert'[i].uid = expert[i].uid /\ UNCHANGED req
          /\ \E times \in {0, 1} :
               executed' = [executed EXCEPT ![expert[i].uid] = @ + times]
      BY <1>0, <1>4 DEF Handle, Moves, ExpertType
    <2>2. ~Claim(i)
      BY <2>1 DEF Claim
    <2>3. expert[i].uid \in Requests
      BY <2>1, Types DEF TypeFacts, InHand
    <2>4. ASSUME NEW u \in Requests, Pending(u)' PROVE Pending(u)
      BY <1>2, <2>1, <2>4 DEF Pending
    <2>. QED
      BY <1>1, <1>2, <2>1, <2>2, <2>3, <2>4
  <1>. QED
    BY <1>3, <1>4

LEMMA SafeInit == Init => Safe
  <1> SUFFICES ASSUME Init PROVE Safe
    OBVIOUS
  <1>1. TypeOK
    BY TypeInit
  <1>2. Single
    BY DEF Init, Single, NoFile, Off, InHand
  <1>3. Replied /\ Waits
    BY DEF Init, Replied, Waits, Settled
  <1>. QED
    BY <1>1, <1>2, <1>3 DEF Safe

LEMMA SafeStep == Safe /\ [Next]_vars => Safe'
  <1> SUFFICES ASSUME TypeOK, Single, Replied, Waits, [Next]_vars
               PROVE  TypeOK' /\ Single' /\ Replied' /\ Waits'
    BY DEF Safe
  <1>0. TypeOK'
    BY TypeStep
  <1>a. TypeFacts
    BY Types
  <1>b. TypeFacts'
    BY <1>0, Types, PTL
  <1> HIDE DEF TypeOK
  <1>1. CASE Fades /\ (Silent \/ Tells)
    <2>1. Single'
      <3>1. UNCHANGED <<posted, executed>> /\ req'.uid \in {req.uid, Nobody}
        BY <1>1 DEF Fades
      <3>2. \A i \in Experts : \/ expert'[i].uid = Nobody
                               \/ /\ expert'[i].uid = expert[i].uid
                                  /\ expert'[i].pc \in InHand => expert[i].pc \in InHand
        BY <1>1 DEF Fades
      <3>3. \A i \in Experts : expert'[i].pc \in InHand => expert'[i].uid # Nobody
        BY <1>b DEF TypeFacts
      <3>. QED
        BY <3>1, <3>2, <3>3 DEF Single
    <2>2. Replied'
      <3>1. ASSUME NEW i \in Experts, expert[i].pc = "replying", expert[i].uid # Nobody
            PROVE  ~Pending(expert[i].uid)
        BY <3>1 DEF Single, Pending, InHand
      <3>2. /\ resTmp' = Nobody \/ resTmp' = resTmp
               \/ \E i \in Experts : expert[i].pc = "replying" /\ resTmp' = expert[i].uid
            /\ res' \in {res, resTmp, Nobody}
        BY <1>1 DEF Fades
      <3>3. ASSUME NEW u \in Requests, u = resTmp' \/ u = res' PROVE ~Pending(u)'
        <4>1. ~Pending(u)
          BY <3>1, <3>2, <3>3 DEF Replied
        <4>. QED
          BY <1>1, <4>1, PendingFades
      <3>4. res' \in 0..MaxRequests /\ resTmp' \in 0..MaxRequests
        BY <1>b DEF TypeFacts
      <3>. QED
        BY <3>3, <3>4 DEF Replied, Pending
    <2>3. CASE Silent
      <3>1. UNCHANGED <<posted, told, answer>> /\ (desk' = "waiting" => desk = "waiting")
        BY <1>1, <2>3 DEF Fades, Silent
      <3>2. \A u \in Requests : Settled(u)' => ~Pending(u)'
        BY <1>1, <3>1, PendingFades DEF Waits, Settled
      <3>. QED
        BY <1>0, <1>1, <2>1, <2>2, <3>1, <3>2 DEF Waits, Fades
    <2>4. CASE Tells
      <3>0. /\ posted \in Requests /\ desk = "waiting" /\ desk' = "idle" /\ posted' = posted
            /\ told \in [Requests -> {"none", "answered", "raised", "withdrawn", "locked", "claimed"}]
            /\ answer \in [Requests -> 0..posted]
        <4>1. desk = "waiting" /\ desk' = "idle" /\ posted' = posted
          BY <2>4 DEF Tells, Accept, AcceptRaises, GiveUp, Told
        <4>2. posted \in Requests
          BY <1>a, <4>1 DEF TypeFacts, Waits
        <4>. QED
          BY <4>1, <4>2 DEF TypeOK
      <3>1. \A u \in Requests : u # posted => told'[u] = told[u] /\ answer'[u] = answer[u]
        BY <2>4, <3>0 DEF Tells, Accept, AcceptRaises, GiveUp, Told
      <3>2. ASSUME NEW u \in Requests, u = posted, Settled(u)' PROVE ~Pending(u)'
        <4>1. CASE Accept
          <5>1. told'[u] = "answered" /\ answer'[u] = res /\ res # Nobody
            BY <3>0, <3>2, <4>1 DEF Accept, Told, Mine
          <5>2. res = u
            BY <3>2, <5>1 DEF Settled
          <5>. QED
            BY <1>1, <5>1, <5>2, PendingFades DEF Replied
        <4>2. CASE AcceptRaises
          <5>1. told'[u] = "raised"
            BY <3>0, <3>2, <4>2 DEF AcceptRaises, Told
          <5>. QED
            BY <3>2, <5>1 DEF Settled
        <4>3. CASE GiveUp
          <5>1. told'[u] = "withdrawn" => req.uid # Nobody /\ req'.uid = Nobody
            <6>1. CASE req.uid # Nobody /\ req' = NoFile
              BY <6>1 DEF NoFile
            <6>2. CASE told' \in {[told EXCEPT ![posted] = "locked"], [told EXCEPT ![posted] = "claimed"]}
              BY <3>0, <3>2, <6>2
            <6>. QED
              BY <4>3, <6>1, <6>2 DEF GiveUp, Told
          <5>2. told'[u] \in {"withdrawn", "locked", "claimed"}
            BY <3>0, <3>2, <4>3 DEF GiveUp, Told
          <5>3. req.uid = u /\ req'.uid = Nobody
            BY <3>0, <3>2, <5>1, <5>2 DEF Settled, Waits
          <5>4. \A i \in Experts : expert[i].uid # u
            BY <3>2, <5>3 DEF Single, Requests
          <5>5. \A i \in Experts : expert'[i].uid # u
            BY <1>1, <5>3, <5>4 DEF Fades, Requests
          <5>. QED
            BY <5>3, <5>5 DEF Pending, Requests
        <4>. QED
          BY <2>4, <4>1, <4>2, <4>3 DEF Tells
      <3>3. \A u \in Requests : u # posted /\ Settled(u)' => ~Pending(u)'
        BY <1>1, <3>1, PendingFades DEF Waits, Settled
      <3>. QED
        BY <1>0, <2>1, <2>2, <3>0, <3>1, <3>2, <3>3 DEF Waits
    <2>. QED
      BY <1>0, <1>1, <2>1, <2>2, <2>3, <2>4
  <1>2. CASE Post
    <2>1. /\ posted' = posted + 1 /\ posted + 1 \in Requests /\ desk' = "waiting"
          /\ req'.uid = posted + 1 /\ res' = Nobody
          /\ UNCHANGED <<told, answer, resTmp, expert, executed>>
      BY <1>2, <1>a DEF Post, TypeFacts
    <2>2. /\ posted \in Nat /\ resTmp \in 0..posted
          /\ \A i \in Experts : expert[i].uid \in 0..posted
      BY <1>a DEF TypeFacts
    <2>3. Single'
      BY <2>1, <2>2 DEF Single
    <2>4. \A u \in Requests : Pending(u)' => Pending(u) \/ u = posted + 1
      BY <2>1 DEF Pending
    <2>5. Replied'
      <3>1. ASSUME NEW u \in Requests, u = resTmp PROVE ~Pending(u)'
        BY <2>2, <2>4, <3>1 DEF Replied
      <3>. QED
        BY <2>1, <2>2, <3>1, <1>a DEF Replied, TypeFacts, Pending
    <2>6. Waits'
      <3>1. told[posted + 1] = "none" /\ \A u \in Requests : u > posted + 1 => u > posted
        BY <2>1, <2>2 DEF Waits
      <3>2. \A u \in Requests : Settled(u)' => Settled(u) /\ u # posted + 1
        BY <2>1, <3>1 DEF Settled
      <3>. QED
        BY <2>1, <2>2, <2>4, <3>1, <3>2 DEF Waits
    <2>. QED
      BY <1>0, <2>3, <2>5, <2>6
  <1>3. ASSUME NEW i \in Experts, Claim(i) \/ Handle(i)
        PROVE  Single' /\ Replied' /\ Waits'
    <2>0. /\ UNCHANGED <<posted, told, answer, desk, res, resTmp>>
          /\ \A j \in Experts : j # i => expert'[j] = expert[j]
          /\ \A u \in Requests : Pending(u)' => Pending(u)
      BY <1>0, <1>3, PendingMoves
    <2>1. CASE Claim(i)
      <3>1. /\ expert'[i].uid = req.uid /\ expert'[i].pc = "claimed"
            /\ req'.uid = Nobody /\ req.uid # Nobody /\ UNCHANGED executed
        BY <1>0, <1>3, <2>1, PendingMoves
      <3>2. Single'
        BY <2>0, <3>1 DEF Single
      <3>3. Waits'
        BY <2>0, <3>1 DEF Waits, Settled
      <3>. QED
        BY <2>0, <3>2, <3>3, <1>a, <1>b DEF Replied, TypeFacts, Requests
    <2>2. CASE Handle(i)
      <3>1. /\ expert[i].pc = "running" /\ expert'[i].pc = "replying"
            /\ expert'[i].uid = expert[i].uid /\ UNCHANGED req
            /\ expert[i].uid \in Requests
            /\ \E times \in {0, 1} :
                 executed' = [executed EXCEPT ![expert[i].uid] = @ + times]
        BY <1>0, <1>3, <2>2, PendingMoves
      <3>2. executed[expert[i].uid] = 0 /\ expert[i].uid <= posted /\ executed \in [Requests -> Nat]
        BY <1>a, <3>1 DEF Single, TypeFacts, InHand
      <3>3. /\ \A u \in Requests : u # expert[i].uid => executed'[u] = executed[u]
            /\ executed'[expert[i].uid] \in {0, 1}
        BY <3>1, <3>2
      <3>4. Single'
        <4>1. \A u \in Requests : executed'[u] <= 1 /\ (u > posted' => executed'[u] = 0)
          BY <1>a, <2>0, <3>1, <3>2, <3>3 DEF Single, TypeFacts
        <4>2. req'.uid # Nobody =>
                executed'[req'.uid] = 0 /\ \A j \in Experts : expert'[j].uid # req'.uid
          BY <1>a, <2>0, <3>1, <3>3 DEF Single, TypeFacts
        <4>3. \A j \in Experts : expert'[j].pc \in InHand => executed'[expert'[j].uid] = 0
          BY <1>a, <2>0, <3>1, <3>3 DEF Single, TypeFacts, InHand
        <4>4. \A j, k \in Experts :
                j # k /\ expert'[j].uid # Nobody => expert'[j].uid # expert'[k].uid
          BY <2>0, <3>1 DEF Single
        <4>. QED
          BY <4>1, <4>2, <4>3, <4>4 DEF Single
      <3>5. Waits'
        BY <2>0, <3>1 DEF Waits, Settled
      <3>. QED
        BY <2>0, <3>4, <3>5, <1>a, <1>b DEF Replied, TypeFacts, Requests
    <2>. QED
      BY <1>3, <2>1, <2>2
  <1>. QED
    BY <1>0, <1>1, <1>2, <1>3, Steps

(* The inductive invariant: where a request is, what has been replied to,  *)
(* and what the desk was told of it.                                       *)
THEOREM SafeAlways == Spec => []Safe
  BY SafeInit, SafeStep, PTL DEF Spec

(* No request is executed twice, by however many Experts.                  *)
THEOREM ExecutedOnce == Spec => []AtMostOnce
  <1>1. Safe => AtMostOnce
    BY DEF Safe, Single, AtMostOnce
  <1>. QED
    BY <1>1, SafeAlways, PTL

(* What the desk was told is settled does not execute afterwards.          *)
THEOREM SettledHolds == Spec => SettledIsFinal
  <1>1. Safe /\ [Next]_vars =>
          [\A u \in Requests : Settled(u)' => executed'[u] = executed[u]]_vars
    <2> SUFFICES ASSUME TypeOK, Single, Waits, [Next]_vars, NEW u \in Requests, Settled(u)'
                 PROVE  executed'[u] = executed[u]
      BY DEF Safe
    <2>0. TypeOK'
      BY TypeStep
    <2>1. CASE Fades \/ Post
      BY <2>1 DEF Fades, Post
    <2>2. ASSUME NEW i \in Experts, Claim(i) \/ Handle(i)
          PROVE  executed'[u] = executed[u]
      <3>1. Settled(u)
        BY <2>0, <2>2, PendingMoves DEF Settled
      <3>2. CASE Claim(i)
        BY <2>0, <2>2, <3>2, PendingMoves
      <3>3. CASE Handle(i)
        <4>1. expert[i].uid # u
          BY <3>1, <3>3 DEF Waits, Pending, Handle
        <4>2. \E times \in {0, 1} : executed' = [executed EXCEPT ![expert[i].uid] = @ + times]
          BY <3>3 DEF Handle
        <4>3. executed \in [Requests -> Nat]
          BY DEF TypeOK
        <4>. QED
          BY <4>1, <4>2, <4>3
      <3>. QED
        BY <2>2, <3>2, <3>3
    <2>. QED
      BY <2>1, <2>2, Steps
  <1>. QED
    BY <1>1, SafeAlways, PTL DEF Spec, SettledIsFinal

-----------------------------------------------------------------------------
(* The ids: one process does not use an id twice, and the processes follow *)
(* one another.                                                            *)
Ids ==
  /\ \A u \in Requests : u <= posted =>
       id[u].by <= crashes /\ (id[u].by = crashes => desk # "down" /\ id[u].n <= nextId)
  /\ \A u, v \in Requests : u < v /\ v <= posted =>
       id[u].by <= id[v].by /\ (id[u].by = id[v].by => id[u].n # id[v].n)
  /\ AnswerIsOwn

LEMMA IdSteps ==
  ASSUME TypeOK, [Next]_vars
  PROVE  \/ UNCHANGED <<desk, nextId, posted, id, answer, crashes>>
         \/ Start \/ Post \/ PostRaises \/ Tells \/ Crash
  <1>1. ASSUME NEW i \in Experts, Attach(i) \/ Detach(i) \/ Die(i)
        PROVE  UNCHANGED <<desk, nextId, posted, id, answer, crashes>>
    BY <1>1 DEF Attach, Detach, Die
  <1>2. ASSUME NEW i \in Experts, Process(i)
        PROVE  UNCHANGED <<desk, nextId, posted, id, answer, crashes>>
    BY <1>2 DEF Process, Beat, Acquire, ReadStamp, Claim, ClaimLost, Drop, Judge, Handle,
                Write, Publish, Release, Moves
  <1>3. CASE TerminalDies \/ Tick \/ UNCHANGED vars
    BY <1>3 DEF TerminalDies, Tick, vars
  <1>. QED
    BY <1>1, <1>2, <1>3 DEF Next, Tells

LEMMA IdStep == Safe /\ Ids /\ [Next]_vars => Ids'
  <1> SUFFICES ASSUME TypeOK, Waits, Ids, [Next]_vars
               PROVE  Ids'
    BY DEF Safe
  <1>a. /\ posted \in Nat /\ nextId \in Nat /\ crashes \in Nat /\ MaxRequests \in Nat
        /\ id \in [Requests -> [by : Nat, n : Nat]] /\ answer \in [Requests -> 0..posted]
        /\ res \in 0..posted /\ posted <= MaxRequests
    <2>1. posted \in 0..MaxRequests /\ MaxRequests \in Nat
      BY CountAssumption DEF TypeOK
    <2>. QED
      BY <2>1 DEF TypeOK
  <1>b. \A u \in Requests : id[u].by \in Nat /\ id[u].n \in Nat /\ answer[u] \in 0..posted
    BY <1>a
  <1> HIDE DEF TypeOK
  <1>1. CASE UNCHANGED <<desk, nextId, posted, id, answer, crashes>>
    BY <1>1 DEF Ids, AnswerIsOwn
  <1>2. CASE Start \/ PostRaises \/ Crash
    <2>1. UNCHANGED <<posted, id, answer>>
      BY <1>2 DEF Start, PostRaises, Crash
    <2>2. \/ crashes' = crashes + 1
          \/ crashes' = crashes /\ desk = "down"
          \/ crashes' = crashes /\ desk' = desk /\ nextId' = nextId + 1
      BY <1>2 DEF Start, PostRaises, Crash
    <2>3. \A u \in Requests : u <= posted =>
            id[u].by <= crashes' /\ (id[u].by = crashes' => desk' # "down" /\ id[u].n <= nextId')
      <3> SUFFICES ASSUME NEW u \in Requests, u <= posted
                   PROVE  /\ id[u].by <= crashes'
                          /\ id[u].by = crashes' => desk' # "down" /\ id[u].n <= nextId'
        OBVIOUS
      <3>1. id[u].by <= crashes /\ (id[u].by = crashes => desk # "down" /\ id[u].n <= nextId)
        BY DEF Ids
      <3>2. id[u].by \in Nat /\ id[u].n \in Nat
        BY <1>b
      <3>. QED
        BY <1>a, <2>2, <3>1, <3>2
    <2>. QED
      BY <2>1, <2>3 DEF Ids, AnswerIsOwn
  <1>3. CASE Tells
    <2>1. /\ UNCHANGED <<nextId, posted, id, crashes>> /\ desk' = "idle" /\ desk = "waiting"
          /\ \E by \in {res, Nobody} : answer' = [answer EXCEPT ![posted] = by]
                                       /\ (by = res => res = Nobody \/ id[res].n = id[posted].n)
      BY <1>3 DEF Tells, Accept, AcceptRaises, GiveUp, Told, Mine
    <2>2. posted \in Requests
      BY <1>a, <2>1 DEF Waits, TypeOK
    <2>3. AnswerIsOwn'
      <3>1. ASSUME res # Nobody, res # posted, id[res].n = id[posted].n
            PROVE  id[res].by < id[posted].by
        BY <1>a, <1>b, <2>2, <3>1 DEF Ids
      <3>2. ASSUME NEW u \in Requests
            PROVE  answer'[u] \in {Nobody, u} \/ id[answer'[u]].by < id[u].by
        <4>1. CASE u # posted
          BY <1>a, <2>1, <3>2, <4>1 DEF Ids, AnswerIsOwn
        <4>2. CASE u = posted
          BY <1>a, <2>1, <2>2, <3>1, <4>2
        <4>. QED
          BY <4>1, <4>2
      <3>. QED
        BY <2>1, <3>2 DEF AnswerIsOwn
    <2>. QED
      BY <2>1, <2>3 DEF Ids
  <1>4. CASE Post
    <2>1. /\ desk' = "waiting" /\ desk = "idle" /\ posted' = posted + 1 /\ nextId' = nextId + 1
          /\ id' = [id EXCEPT ![posted + 1] = [by |-> crashes, n |-> nextId + 1]]
          /\ UNCHANGED <<crashes, answer>> /\ posted + 1 \in Requests
      BY <1>4, <1>a DEF Post
    <2>2. /\ \A u \in Requests : u # posted + 1 => id'[u] = id[u]
          /\ id'[posted + 1].by = crashes /\ id'[posted + 1].n = nextId + 1
      BY <1>a, <2>1
    <2>3. \A u \in Requests : u <= posted' =>
            id'[u].by <= crashes /\ (id'[u].by = crashes => id'[u].n <= nextId')
      <3>1. ASSUME NEW u \in Requests, u <= posted
            PROVE  id'[u].by <= crashes /\ (id'[u].by = crashes => id'[u].n <= nextId')
        <4>1. u # posted + 1
          BY <1>a, <3>1
        <4>2. id[u].by <= crashes /\ (id[u].by = crashes => id[u].n <= nextId)
          BY <3>1 DEF Ids
        <4>. QED
          BY <1>a, <1>b, <2>1, <2>2, <3>1, <4>1, <4>2
      <3>2. \A u \in Requests : u <= posted + 1 => u <= posted \/ u = posted + 1
        BY <1>a
      <3>. QED
        BY <1>a, <2>1, <2>2, <3>1, <3>2
    <2>4. ASSUME NEW u \in Requests, NEW v \in Requests, u < v, v <= posted'
          PROVE  id'[u].by <= id'[v].by /\ (id'[u].by = id'[v].by => id'[u].n # id'[v].n)
      <3>1. CASE v <= posted
        <4>1. id'[u] = id[u] /\ id'[v] = id[v]
          <5>1. u \in Nat /\ v \in Nat /\ posted \in Nat
            BY <1>a
          <5>2. u # posted + 1 /\ v # posted + 1
            BY <2>4, <3>1, <5>1
          <5>. QED
            BY <2>2, <5>2
        <4>. QED
          BY <2>4, <3>1, <4>1 DEF Ids
      <3>2. CASE v = posted + 1
        <4>1. u <= posted /\ id'[u] = id[u]
          BY <1>a, <2>2, <2>4, <3>2
        <4>2. id[u].by <= crashes /\ (id[u].by = crashes => id[u].n <= nextId)
          BY <4>1 DEF Ids
        <4>. QED
          BY <1>a, <1>b, <2>2, <3>2, <4>1, <4>2
      <3>. QED
        BY <1>a, <2>1, <2>4, <3>1, <3>2
    <2>5. AnswerIsOwn'
      <3>1. ASSUME NEW u \in Requests
            PROVE  answer[u] \in {Nobody, u} \/ id'[answer[u]].by < id'[u].by
        <4>1. answer[u] # Nobody => answer[u] \in Requests /\ answer[u] # posted + 1 /\ u # posted + 1
          <5>1. answer[u] # Nobody => u <= posted
            BY <1>a, <3>1 DEF Waits
          <5>2. answer[u] \in 0..posted
            BY <1>b
          <5>. QED
            <6>1. u \in Nat /\ posted \in Nat /\ MaxRequests \in Nat /\ posted <= MaxRequests
              BY <1>a
            <6>. QED
              BY <5>1, <5>2, <6>1
        <4>. QED
          BY <2>2, <3>1, <4>1 DEF Ids, AnswerIsOwn
      <3>. QED
        BY <2>1, <3>1 DEF AnswerIsOwn
    <2>. QED
      BY <2>1, <2>3, <2>4, <2>5 DEF Ids
  <1>. QED
    BY <1>1, <1>2, <1>3, <1>4, IdSteps

(* A reply that is taken for another request's comes from a process that   *)
(* has died: within one process the ids keep them apart.                   *)
THEOREM AnswersAreOwn == Spec => []AnswerIsOwn
  <1>1. Init => Ids
    BY CountAssumption DEF Init, Ids, AnswerIsOwn
  <1>2. Ids => AnswerIsOwn
    BY DEF Ids
  <1>. QED
    BY <1>1, <1>2, IdStep, SafeAlways, PTL DEF Spec

-----------------------------------------------------------------------------
(* The date an Expert has read on the shared name is not younger than the  *)
(* request it then claims.                                                 *)
Dated(e, file) ==
  e.seen # Unknown => /\ e.pc = "stamped" => e.seen >= file.age
                      /\ e.pc = "claimed" => e.seen >= e.age
AllDated == \A i \in Experts : Dated(expert[i], req)

LEMMA DateStep == TypeOK /\ AllDated /\ [Next]_vars => AllDated'
  <1> SUFFICES ASSUME TypeOK, AllDated, [Next]_vars, NEW j \in Experts
               PROVE  Dated(expert'[j], req')
    BY DEF AllDated
  <1>a. /\ expert \in [Experts -> ExpertType(posted)]
        /\ req \in [uid : 0..posted, age : Nat]
    BY TypeHalves DEF ExpertsTyped, FilesTyped
  <1>b. expert[j] \in ExpertType(posted) /\ Dated(expert[j], req)
    BY <1>a DEF AllDated
  <1>c. /\ expert[j].seen \in Nat \cup {Unknown} /\ expert[j].file \in Nat \cup {Unknown}
        /\ expert[j].age \in Nat /\ req.age \in Nat
    BY <1>a, <1>b DEF ExpertType
  <1>d. NoFile.age = 0 /\ Off.seen = Unknown /\ Idle.seen = Unknown
    BY DEF NoFile, Off, Idle
  <1> HIDE DEF TypeOK
  <1>1. CASE expert'[j] = expert[j] /\ (req'.age = req.age \/ req'.age = 0)
    BY <1>1, <1>b, <1>c DEF Dated
  <1>2. CASE expert'[j].seen = Unknown
    BY <1>2 DEF Dated
  <1>3. CASE Start \/ Post \/ PostRaises \/ Accept \/ AcceptRaises \/ GiveUp \/ Crash
             \/ UNCHANGED vars
    <2>1. expert' = expert
      BY <1>3 DEF Start, Post, PostRaises, Accept, AcceptRaises, GiveUp, Crash, Told, vars
    <2>2. req' \in {req, NoFile, [uid |-> posted + 1, age |-> 0]}
      BY <1>3 DEF Start, Post, PostRaises, Accept, AcceptRaises, GiveUp, Crash, vars
    <2>3. req'.age = req.age \/ req'.age = 0
      BY <1>d, <2>2
    <2>. QED
      BY <1>1, <2>1, <2>3
  <1>4. ASSUME NEW i \in Experts, Attach(i) \/ Detach(i) \/ Die(i)
        PROVE  Dated(expert'[j], req')
    <2>1. req' = req /\ \E e \in {Off, Idle} : expert' = [expert EXCEPT ![i] = e]
      BY <1>4 DEF Attach, Detach, Die
    <2>. QED
      BY <1>1, <1>2, <1>a, <1>d, <2>1
  <1>5. ASSUME NEW i \in Experts, Process(i)
        PROVE  Dated(expert'[j], req')
    <2>1. /\ req'.age = req.age \/ req'.age = 0
          /\ j # i => expert'[j] = expert[j]
      <3>1. req' \in {req, NoFile}
        BY <1>5 DEF Process, Beat, Acquire, ReadStamp, Claim, ClaimLost, Drop, Judge, Handle,
                    Write, Publish, Release, Moves
      <3>2. expert' = expert \/ \E e : expert' = [expert EXCEPT ![i] = e]
        BY <1>5 DEF Process, Beat, Acquire, ReadStamp, Claim, ClaimLost, Drop, Judge, Handle,
                    Write, Publish, Release, Moves
      <3>. QED
        BY <1>a, <1>d, <3>1, <3>2
    <2>2. CASE j # i
      BY <1>1, <2>1, <2>2
    <2>3. CASE j = i
      <3>1. CASE Beat(i)
        BY <1>1, <2>1, <3>1 DEF Beat
      <3>2. CASE ClaimLost(i) \/ Drop(i) \/ Release(i)
        BY <1>2, <1>a, <1>d, <2>3, <3>2 DEF ClaimLost, Drop, Release, Moves
      <3>3. CASE Judge(i)
        <4>1. \E p : expert'[i] = [Idle EXCEPT !.uid = expert[i].uid, !.pc = p]
          BY <1>a, <3>3 DEF Judge, Moves
        <4>. QED
          BY <1>2, <2>3, <4>1 DEF Idle
      <3>4. CASE ReadStamp(i)
        <4>1. /\ req' = req
              /\ \E s \in {Unknown, req.age} :
                   expert'[i] = [expert[i] EXCEPT !.pc = "stamped", !.seen = s]
          BY <1>a, <3>4 DEF ReadStamp, Moves
        <4>2. expert'[j].pc = "stamped" /\ expert'[j].seen \in {Unknown, req.age}
          BY <1>b, <2>3, <4>1 DEF ExpertType
        <4>. QED
          BY <1>c, <4>1, <4>2 DEF Dated
      <3>5. CASE Claim(i)
        <4>1. \E date : expert'[i] = [expert[i] EXCEPT !.pc = "claimed", !.uid = req.uid,
                                        !.age = req.age, !.file = date]
          BY <1>a, <3>5 DEF Claim, Moves
        <4>2. /\ expert'[j].pc = "claimed" /\ expert'[j].seen = expert[j].seen
              /\ expert'[j].age = req.age /\ expert[j].pc = "stamped"
          BY <1>b, <2>3, <3>5, <4>1 DEF Claim, ExpertType
        <4>. QED
          BY <1>b, <4>2 DEF Dated
      <3>6. CASE Acquire(i) \/ Handle(i) \/ Write(i) \/ Publish(i)
        <4>1. \E p \in {"locked", "replying", "written", "releasing"} :
                expert'[i] = [expert[i] EXCEPT !.pc = p]
          BY <1>a, <3>6 DEF Acquire, Handle, Write, Publish, Moves
        <4>2. expert'[j].pc \notin {"stamped", "claimed"}
          BY <1>b, <2>3, <4>1 DEF ExpertType
        <4>. QED
          BY <4>2 DEF Dated
      <3>. QED
        BY <1>5, <3>1, <3>2, <3>3, <3>4, <3>5, <3>6 DEF Process
    <2>. QED
      BY <2>2, <2>3
  <1>6. CASE TerminalDies
    BY <1>2, <1>6, <1>d DEF TerminalDies
  <1>7. CASE Tick
    <2> DEFINE b == FenceLimit + 1
    <2>1. b \in Nat
      BY LimitType
    <2>2. expert'[j] = [expert[j] EXCEPT
             !.age  = IF expert[j].pc = "claimed" THEN Later(@, b) ELSE @,
             !.seen = Later(@, b), !.file = Later(@, b)]
      BY <1>7 DEF Tick
    <2>3. /\ expert'[j].pc = expert[j].pc /\ expert'[j].seen = Later(expert[j].seen, b)
          /\ expert[j].pc = "claimed" => expert'[j].age = Later(expert[j].age, b)
      BY <1>b, <2>2 DEF ExpertType
    <2>4. req'.age = req.age \/ req'.age = Later(req.age, b)
      BY <1>a, <1>7 DEF Tick
    <2>5. expert'[j].seen # Unknown =>
            expert[j].seen \in Nat /\ expert'[j].seen >= expert[j].seen
      BY <1>c, <2>1, <2>3 DEF Later
    <2> HIDE DEF b
    <2>6. ASSUME expert'[j].seen # Unknown, expert[j].pc = "stamped"
          PROVE  expert'[j].seen >= req'.age
      <3>1. expert[j].seen \in Nat /\ expert[j].seen >= req.age
        BY <1>b, <1>c, <2>5, <2>6 DEF Dated
      <3>2. Later(expert[j].seen, b) >= Later(req.age, b) /\ Later(expert[j].seen, b) \in Nat
        BY <1>c, <2>1, <3>1, LaterType
      <3>. QED
        BY <1>c, <2>3, <2>4, <2>5, <2>6, <3>1, <3>2
    <2>7. ASSUME expert'[j].seen # Unknown, expert[j].pc = "claimed"
          PROVE  expert'[j].seen >= expert'[j].age
      <3>1. expert[j].seen \in Nat /\ expert[j].seen >= expert[j].age
        BY <1>b, <1>c, <2>5, <2>7 DEF Dated
      <3>2. Later(expert[j].seen, b) >= Later(expert[j].age, b)
        BY <1>c, <2>1, <3>1, LaterType
      <3>. QED
        BY <2>3, <2>7, <3>2
    <2>. QED
      BY <2>3, <2>6, <2>7 DEF Dated
  <1>. QED
    BY <1>3, <1>4, <1>5, <1>6, <1>7 DEF Next

(* A send that is handled is younger than the desk's wait and the grace,   *)
(* whatever the rename does to the date of the file, and however slow the  *)
(* Expert is between its steps.                                            *)
THEOREM FenceHolds == Spec => NoStaleSend
  <1>1. Init => AllDated
    BY DEF Init, AllDated, Dated, Off
  <1>2. TypeOK /\ AllDated /\ [Next]_vars =>
          [\A i \in Experts :
             expert[i].pc = "claimed" /\ expert'[i].pc = "running" /\ expert[i].uid \in Sends =>
               expert[i].age <= FenceLimit \/ expert[i].seen = Unknown]_vars
    <2> SUFFICES ASSUME TypeOK, AllDated, [Next]_vars, NEW i \in Experts,
                        expert[i].pc = "claimed", expert'[i].pc = "running",
                        expert[i].uid \in Sends, expert[i].seen # Unknown
                 PROVE  expert[i].age <= FenceLimit
      OBVIOUS
    <2>1. expert[i] \in ExpertType(posted)
      BY TypeHalves DEF ExpertsTyped
    <2>2. expert \in [Experts -> ExpertType(posted)]
      BY TypeHalves DEF ExpertsTyped
    <2>3. Judge(i)
      <3>1. ~(Start \/ Post \/ PostRaises \/ Accept \/ AcceptRaises \/ GiveUp \/ Crash
              \/ UNCHANGED vars)
        BY DEF Start, Post, PostRaises, Accept, AcceptRaises, GiveUp, Crash, Told, vars
      <3>2. ASSUME NEW j \in Experts, Attach(j) \/ Detach(j) \/ Die(j)
            PROVE  FALSE
        BY <2>2, <3>2 DEF Attach, Detach, Die, Off, Idle
      <3>3. ASSUME NEW j \in Experts, Process(j)
            PROVE  Judge(i)
        <4>1. j = i
          <5>1. expert' = expert \/ \E e : expert' = [expert EXCEPT ![j] = e]
            BY <3>3 DEF Process, Beat, Acquire, ReadStamp, Claim, ClaimLost, Drop, Judge,
                        Handle, Write, Publish, Release, Moves
          <5>. QED
            BY <2>2, <5>1
        <4>2. ~(Beat(i) \/ Acquire(i) \/ ReadStamp(i) \/ Claim(i) \/ ClaimLost(i) \/ Handle(i)
                \/ Write(i) \/ Publish(i) \/ Release(i))
          BY DEF Beat, Acquire, ReadStamp, Claim, ClaimLost, Handle, Write, Publish, Release
        <4>3. ~Drop(i)
          BY <2>2 DEF Drop, Moves, Idle
        <4>. QED
          BY <3>3, <4>1, <4>2, <4>3 DEF Process
      <3>4. ~TerminalDies
        BY DEF TerminalDies, Off
      <3>5. ~Tick
        <4> DEFINE b == FenceLimit + 1
        <4> SUFFICES ASSUME Tick PROVE FALSE
          OBVIOUS
        <4>1. expert'[i] = [expert[i] EXCEPT
                 !.age  = IF expert[i].pc = "claimed" THEN Later(@, b) ELSE @,
                 !.seen = Later(@, b), !.file = Later(@, b)]
          BY DEF Tick
        <4> HIDE DEF b
        <4>2. expert'[i].pc = expert[i].pc
          BY <2>1, <4>1 DEF ExpertType
        <4>. QED
          BY <4>2
      <3>. QED
        BY <3>1, <3>2, <3>3, <3>4, <3>5 DEF Next
    <2>4. PICK known \in BOOLEAN :
            expert'[i] = [Idle EXCEPT !.uid = expert[i].uid,
                            !.pc = IF RequestExpired(expert[i], known) THEN "replying" ELSE "running"]
      BY <2>2, <2>3 DEF Judge, Moves
    <2>5. ~RequestExpired(expert[i], known)
      BY <2>4 DEF Idle
    <2>6. ~(FileAge(expert[i]) > FenceLimit)
      BY <2>5 DEF RequestExpired
    <2>7. /\ expert[i].seen \in Nat /\ expert[i].file \in Nat \cup {Unknown}
          /\ expert[i].age \in Nat /\ expert[i].seen >= expert[i].age
      BY <2>1 DEF ExpertType, AllDated, Dated
    <2>. QED
      BY <2>6, <2>7, LimitType DEF FileAge, Older
  <1>. QED
    BY <1>1, <1>2, DateStep, TypeCorrect, PTL DEF Spec, NoStaleSend

-----------------------------------------------------------------------------
(* The exchange the mailbox implements.                                    *)

LEMMA FateFacts ==
  ASSUME TypeOK, Single, NEW u \in Requests
  PROVE  /\ u > posted => Fate[u] = "unposted"
         /\ u <= posted /\ executed[u] = 1 => Fate[u] = "executed"
         /\ Pending(u) => u <= posted /\ executed[u] = 0 /\ Fate[u] = "pending"
         /\ Fate[u] = "pending" => Pending(u)
  <1>0. TypeFacts /\ u \in Nat /\ u # Nobody
    BY Types, CountAssumption DEF TypeOK
  <1>1. Fate[u] = IF u > posted THEN "unposted"
                  ELSE IF executed[u] > 1 THEN "twice"
                  ELSE IF executed[u] = 1 THEN "executed"
                  ELSE IF Pending(u) THEN "pending" ELSE "void"
    BY DEF Fate
  <1>2. Pending(u) => u <= posted /\ executed[u] = 0
    BY <1>0 DEF Pending, Single, TypeFacts, InHand
  <1> HIDE DEF TypeOK
  <1>. QED
    BY <1>0, <1>1, <1>2 DEF TypeFacts

(* A step that executes and posts nothing makes some requests void.        *)
LEMMA FateVoids ==
  ASSUME UNCHANGED <<posted, executed>>,
         \A u \in Requests : Pending(u)' => Pending(u)
  PROVE  \E gone \in SUBSET {v \in Requests : Fate[v] = "pending"} :
           Fate' = [v \in Requests |-> IF v \in gone THEN "void" ELSE Fate[v]]
  <1> DEFINE gone == {v \in Requests : Fate[v] = "pending" /\ ~Pending(v)'}
  <1>1. gone \in SUBSET {v \in Requests : Fate[v] = "pending"}
    OBVIOUS
  <1>2. ASSUME NEW v \in Requests
        PROVE  Fate'[v] = IF v \in gone THEN "void" ELSE Fate[v]
    <2>1. Fate[v] = IF v > posted THEN "unposted"
                    ELSE IF executed[v] > 1 THEN "twice"
                    ELSE IF executed[v] = 1 THEN "executed"
                    ELSE IF Pending(v) THEN "pending" ELSE "void"
      BY DEF Fate
    <2>2. Fate'[v] = IF v > posted THEN "unposted"
                    ELSE IF executed[v] > 1 THEN "twice"
                    ELSE IF executed[v] = 1 THEN "executed"
                    ELSE IF Pending(v)' THEN "pending" ELSE "void"
      BY DEF Fate
    <2>. QED
      BY <2>1, <2>2
  <1>3. Fate' = [v \in Requests |-> IF v \in gone THEN "void" ELSE Fate[v]]
    <2>1. Fate' = [v \in Requests |-> Fate'[v]]
      BY DEF Fate
    <2> HIDE DEF gone
    <2>. QED
      BY <1>2, <2>1
  <1>. QED
    BY <1>1, <1>3

LEMMA RefinesStep ==
  ASSUME Safe, Safe', [Next]_vars
  PROVE  [X!XNext]_(X!xvars)
  <1>0. /\ TypeOK /\ TypeOK' /\ Single /\ Single' /\ Waits /\ Waits'
        /\ TypeFacts /\ TypeFacts'
    BY Types, PTL DEF Safe
  <1>1. CASE Fades /\ Silent
    <2>1. Verdict' = Verdict
      BY <1>1 DEF Silent, Verdict, Settled
    <2>. QED
      BY <1>1, <2>1, FateVoids, PendingFades DEF Fades, X!XNext, X!Void
  <1>2. CASE Fades /\ Tells
    <2>1. PICK what \in {"answered", "raised", "withdrawn", "locked", "claimed"} :
            \E by \in {res, Nobody} : /\ told' = [told EXCEPT ![posted] = what]
                                      /\ answer' = [answer EXCEPT ![posted] = by]
      BY <1>2 DEF Tells, Accept, AcceptRaises, GiveUp, Told
    <2>2. desk = "waiting" /\ posted' = posted
      BY <1>2 DEF Tells, Accept, AcceptRaises, GiveUp, Told
    <2>3. posted \in Requests /\ told[posted] = "none"
      BY <1>0, <2>2 DEF Waits, TypeFacts
    <2>4. told'[posted] = what /\ \A u \in Requests : u # posted => told'[u] = told[u] /\ answer'[u] = answer[u]
      BY <1>0, <2>1, <2>3 DEF TypeOK
    <2>5. Verdict[posted] = "none" /\ Fate[posted] # "unposted"
      <3>1. Verdict[posted] = "none"
        BY <2>3 DEF Verdict
      <3>. QED
        BY <1>0, <2>3, <3>1 DEF Fate, TypeFacts
    <2> DEFINE v == IF Settled(posted)' THEN "settled" ELSE "unsure"
    <2>6. Verdict' = [Verdict EXCEPT ![posted] = v]
      <3>1. ASSUME NEW u \in Requests, u # posted PROVE Verdict'[u] = Verdict[u]
        BY <2>4, <3>1 DEF Verdict, Settled
      <3>2. Verdict'[posted] = v
        BY <2>2, <2>3, <2>4 DEF Verdict, Settled
      <3>3. Verdict = [u \in Requests |-> Verdict[u]] /\ Verdict' = [u \in Requests |-> Verdict'[u]]
        BY DEF Verdict
      <3>4. [Verdict EXCEPT ![posted] = v] = [u \in Requests |-> IF u = posted THEN v ELSE Verdict[u]]
        BY <3>3
      <3> HIDE DEF v
      <3>. QED
        BY <3>1, <3>2, <3>3, <3>4
    <2>7. v = "settled" => Fate'[posted] # "pending"
      <3>1. Settled(posted)' => ~Pending(posted)'
        BY <1>0, <2>2, <2>3 DEF Waits, Settled
      <3>2. ~Pending(posted)' => Fate'[posted] # "pending"
        BY <2>2, <2>3 DEF Fate
      <3>. QED
        BY <3>1, <3>2
    <2>8. \E gone \in SUBSET {w \in Requests : Fate[w] = "pending"} :
           Fate' = [w \in Requests |-> IF w \in gone THEN "void" ELSE Fate[w]]
      BY <1>2, FateVoids, PendingFades DEF Fades
    <2>9. v \in {"settled", "unsure"}
      OBVIOUS
    <2> HIDE DEF v
    <2>10. X!Tell(posted)
      BY <2>5, <2>6, <2>7, <2>8, <2>9 DEF X!Tell
    <2>. QED
      BY <2>3, <2>10 DEF X!XNext
  <1>3. CASE Post
    <2>0. PICK p \in Requests : p = posted + 1
      BY <1>0, <1>3 DEF Post, TypeFacts
    <2> DEFINE gone == {w \in Requests : Fate[w] = "pending" /\ ~Pending(w)'}
    <2>1. /\ posted' = p /\ p \in Requests /\ req'.uid = p
          /\ UNCHANGED <<told, answer, expert, executed>>
      BY <1>0, <1>3, <2>0 DEF Post, TypeFacts
    <2>2. Verdict' = Verdict
      BY <2>1 DEF Verdict, Settled
    <2>3. Fate[p] = "unposted" /\ Fate'[p] = "pending"
      <3>1. p > posted /\ ~(p > posted')
        BY <1>0, <2>0, <2>1 DEF TypeFacts
      <3>2. executed[p] = 0 /\ executed' = executed
        BY <1>0, <2>1, <3>1 DEF Single
      <3>3. Pending(p)'
        BY <2>1 DEF Pending
      <3>4. Fate[p] = "unposted"
        BY <2>1, <3>1 DEF Fate
      <3>5. Fate'[p] = IF p > posted' THEN "unposted"
                       ELSE IF executed'[p] > 1 THEN "twice"
                       ELSE IF executed'[p] = 1 THEN "executed"
                       ELSE IF Pending(p)' THEN "pending" ELSE "void"
        BY <2>1 DEF Fate
      <3>. QED
        BY <3>1, <3>2, <3>3, <3>4, <3>5
    <2>4. ASSUME NEW w \in Requests, w # p
          PROVE  Fate'[w] = IF w \in gone THEN "void" ELSE Fate[w]
      <3>1. w > posted <=> w > posted'
        BY <1>0, <2>0, <2>1, <2>4 DEF TypeFacts
      <3>2. Pending(w)' => Pending(w)
        BY <2>1, <2>4 DEF Pending
      <3>. QED
        BY <2>1, <3>1, <3>2 DEF Fate
    <2>5. Fate' = [w \in Requests |-> IF w = p THEN "pending"
                                      ELSE IF w \in gone THEN "void" ELSE Fate[w]]
      <3>1. Fate' = [w \in Requests |-> Fate'[w]]
        BY DEF Fate
      <3> HIDE DEF gone
      <3>. QED
        BY <2>3, <2>4, <3>1
    <2>6. gone \in SUBSET {w \in Requests : Fate[w] = "pending"}
      OBVIOUS
    <2> HIDE DEF gone
    <2>7. X!Post(p)
      BY <2>2, <2>3, <2>5, <2>6 DEF X!Post
    <2>. QED
      BY <2>1, <2>7 DEF X!XNext
  <1>4. ASSUME NEW i \in Experts, Claim(i) \/ Handle(i)
        PROVE  [X!XNext]_(X!xvars)
    <2>0. /\ UNCHANGED <<posted, told, answer>>
          /\ \A j \in Experts : j # i => expert'[j] = expert[j]
          /\ \A u \in Requests : Pending(u)' => Pending(u)
      BY <1>0, <1>4, PendingMoves
    <2>1. Verdict' = Verdict
      BY <2>0 DEF Verdict, Settled
    <2>2. CASE UNCHANGED executed
      BY <2>0, <2>1, <2>2, FateVoids DEF X!XNext, X!Void
    <2>3. CASE Handle(i) /\ executed' # executed
      <3> DEFINE u == expert[i].uid
      <3>1. /\ expert[i].pc = "running" /\ expert'[i].pc = "replying"
            /\ expert'[i].uid = u /\ UNCHANGED req /\ u \in Requests
            /\ \E times \in {0, 1} : executed' = [executed EXCEPT ![u] = @ + times]
        BY <1>0, <1>4, <2>3, PendingMoves
      <3>2. Pending(u) /\ Fate[u] = "pending" /\ executed[u] = 0 /\ u <= posted
        <4>1. Pending(u)
          BY <3>1 DEF Pending
        <4>. QED
          BY <1>0, <3>1, <4>1, FateFacts
      <3>3. executed' = [executed EXCEPT ![u] = 1]
        <4>1. executed \in [Requests -> Nat]
          BY <1>0 DEF TypeFacts
        <4>2. PICK times \in {0, 1} : executed' = [executed EXCEPT ![u] = @ + times]
          BY <3>1
        <4> HIDE DEF u
        <4>3. times = 0 => executed' = executed
          BY <3>1, <3>2, <4>1, <4>2
        <4>4. executed[u] + times = 1
          BY <2>3, <3>2, <4>2, <4>3
        <4>. QED
          BY <3>1, <4>1, <4>2, <4>4
      <3>4. Fate'[u] = "executed"
        <4>1. executed'[u] = 1 /\ ~(u > posted')
          BY <1>0, <2>0, <3>1, <3>2, <3>3 DEF TypeFacts
        <4> HIDE DEF u
        <4>. QED
          BY <3>1, <4>1 DEF Fate
      <3>5. ASSUME NEW w \in Requests, w # u PROVE Fate'[w] = Fate[w]
        <4>1. executed'[w] = executed[w]
          BY <1>0, <3>1, <3>3, <3>5 DEF TypeFacts
        <4>2. Pending(w)' <=> Pending(w)
          BY <2>0, <3>1, <3>5 DEF Pending
        <4>. QED
          BY <2>0, <4>1, <4>2 DEF Fate
      <3>6. Fate' = [Fate EXCEPT ![u] = "executed"]
        <4>1. /\ Fate' = [w \in Requests |-> Fate'[w]]
              /\ Fate = [w \in Requests |-> Fate[w]]
          BY DEF Fate
        <4>2. [Fate EXCEPT ![u] = "executed"]
                = [w \in Requests |-> IF w = u THEN "executed" ELSE Fate[w]]
          BY <4>1
        <4> HIDE DEF u
        <4>. QED
          BY <3>4, <3>5, <4>1, <4>2
      <3> HIDE DEF u
      <3>7. X!Execute(u)
        BY <2>1, <3>2, <3>6 DEF X!Execute
      <3>. QED
        BY <3>1, <3>7 DEF X!XNext
    <2>4. Claim(i) => UNCHANGED executed
      BY <1>0, <1>4, PendingMoves
    <2>. QED
      BY <1>4, <2>2, <2>3, <2>4
  <1>. QED
    BY <1>0, <1>1, <1>2, <1>3, <1>4, Steps

(* The mailbox implements the exchange.                                    *)
THEOREM Implements == Spec => ImplementsExchange
  <1>1. Init => X!XInit
    BY CountAssumption DEF Init, X!XInit, Fate, Verdict
  <1>. QED
    BY <1>1, RefinesStep, SafeAlways, PTL DEF Spec, ImplementsExchange, X!XSpec

=============================================================================
