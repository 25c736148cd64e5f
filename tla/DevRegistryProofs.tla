------------------------- MODULE DevRegistryProofs -------------------------
(***************************************************************************)
(* For any addresses, device ids, number of goroutines and preferred       *)
(* addresses: the registry keeps its types and every known device is       *)
(* found through the entry of its address, whatever the handlers, the      *)
(* timer, the operators and the crashes do and in whatever order.          *)
(***************************************************************************)
EXTENDS DevRegistry, TLAPS

\* A goroutine that is under way has an address, and one that is about to
\* store a record has read the data of it.
TasksReady ==
    \A t \in Task : /\ task[t].pc # "idle" => task[t].ip \in Ip
                    /\ task[t].pc = "commit" => task[t].snap # NoRaw

IInv == TypeOK /\ TasksReady /\ DevsTracked

\* DevsTracked of a given pair of maps.
Tracked(D, E) == \A d \in DevId : D[d] # NoDev => E[D[d].ip] # NoEntry /\ E[D[d].ip].id = d

\* Wiping devices keeps the types.
LEMMA WipeType ==
    ASSUME NEW D \in [DevId -> DevRec \union {NoDev}], NEW ids
    PROVE  WipeDevs(D, ids) \in [DevId -> DevRec \union {NoDev}]
  BY DEF WipeDevs

\* Wiping devices leaves no device that was not there.
LEMMA WipeTracked ==
    ASSUME NEW D, NEW E, NEW ids, Tracked(D, E)
    PROVE  Tracked(WipeDevs(D, ids), E)
  BY DEF Tracked, WipeDevs

\* An entry that is marked keeps its type, and its id if it had one.
LEMMA MarkedEntry ==
    ASSUME NEW e \in EntryRec \union {NoEntry}, NEW st \in ListState
    PROVE  /\ Marked(e, st) \in EntryRec
           /\ e # NoEntry => Marked(e, st).id = e.id
  BY DEF Marked, EntryRec

\* Marking the entry of an address loses no device.
LEMMA MarkTracked ==
    ASSUME NEW D \in [DevId -> DevRec \union {NoDev}],
           NEW E \in [Ip -> EntryRec \union {NoEntry}], Tracked(D, E),
           NEW ip \in Ip, NEW st \in ListState
    PROVE  LET F == [E EXCEPT ![ip] = Marked(@, st)]
           IN  F \in [Ip -> EntryRec \union {NoEntry}] /\ Tracked(D, F)
  <1> DEFINE F == [E EXCEPT ![ip] = Marked(@, st)]
  <1>1. /\ Marked(E[ip], st) \in EntryRec
        /\ E[ip] # NoEntry => Marked(E[ip], st).id = E[ip].id
    BY MarkedEntry
  <1>2. F \in [Ip -> EntryRec \union {NoEntry}]
    BY <1>1
  <1>3. ASSUME NEW d \in DevId, D[d] # NoDev
        PROVE  F[D[d].ip] # NoEntry /\ F[D[d].ip].id = d
    <2>1. D[d].ip \in Ip /\ E[D[d].ip] # NoEntry /\ E[D[d].ip].id = d
      BY <1>3 DEF Tracked, DevRec
    <2>2. CASE D[d].ip = ip
      BY <1>1, <2>1, <2>2, AbsentAssumption
    <2>3. CASE D[d].ip # ip
      BY <2>1, <2>3
    <2>4. QED BY <2>2, <2>3
  <1>4. QED BY <1>2, <1>3 DEF Tracked

---------------------------------------------------------------------------
(* Storing a record                                                        *)

\* What a goroutine that is about to store its record has at hand.
LEMMA CommitFacts ==
    ASSUME IInv, NEW t \in Task, task[t].pc = "commit"
    PROVE  /\ task[t].ip \in Ip
           /\ task[t].snap \in RawRec
           /\ task[t].snap.id \in DevId
           /\ StatusOf(t) \in {"ok", "paused", "error"}
           /\ SaveOf(t) \in Save
  <1>1. task[t] \in TaskRec
    BY DEF IInv, TypeOK
  <1>2. task[t].ip \in Ip /\ task[t].snap \in RawRec
    BY <1>1 DEF IInv, TasksReady, TaskRec
  <1>3. task[t].snap.id \in DevId /\ task[t].snap.ok \in BOOLEAN /\ task[t].snap.save \in Save
    BY <1>2 DEF RawRec
  <1>4. StatusOf(t) \in {"ok", "paused", "error"}
    BY DEF StatusOf
  <1>5. SaveOf(t) \in Save
    BY <1>3, BoundsAssumption DEF SaveOf, Save
  <1>6. QED BY <1>2, <1>3, <1>4, <1>5

\* The id is registered at the address and what the address or the id had
\* before is wiped: the devices that are left are found.
LEMMA RegisterTracked ==
    ASSUME IInv, NEW t \in Task, task[t].pc = "commit"
    PROVE  LET ip == task[t].ip
               d == task[t].snap.id
               D == WipeDevs(devs, PurgedBy(t))
               E == [entry EXCEPT ![ip].id = d]
           IN  /\ D \in [DevId -> DevRec \union {NoDev}]
               /\ entry[ip] # NoEntry =>
                      E \in [Ip -> EntryRec \union {NoEntry}] /\ Tracked(D, E)
  <1> DEFINE ip == task[t].ip
             d == task[t].snap.id
             D == WipeDevs(devs, PurgedBy(t))
             E == [entry EXCEPT ![ip].id = d]
  <1>1. ip \in Ip /\ d \in DevId
    BY CommitFacts
  <1>2. D \in [DevId -> DevRec \union {NoDev}]
    BY WipeType DEF IInv, TypeOK
  <1>3. entry[ip] # NoEntry => E \in [Ip -> EntryRec \union {NoEntry}]
    BY <1>1 DEF IInv, TypeOK, EntryRec
  <1>4. ASSUME entry[ip] # NoEntry, NEW x \in DevId, D[x] # NoDev
        PROVE  E[D[x].ip] # NoEntry /\ E[D[x].ip].id = x
    <2>1. x \notin PurgedBy(t) /\ devs[x] # NoDev /\ D[x] = devs[x]
      BY <1>4 DEF WipeDevs
    <2>2. devs[x].ip \in Ip /\ entry[devs[x].ip] # NoEntry /\ entry[devs[x].ip].id = x
      BY <2>1 DEF IInv, TypeOK, DevsTracked, DevRec
    <2>3. CASE devs[x].ip = ip
      <3>1. x = d
        BY <1>1, <1>4, <2>1, <2>2, <2>3 DEF PurgedBy
      <3>2. E[ip] # NoEntry /\ E[ip].id = d
        BY <1>1, <1>4, AbsentAssumption DEF IInv, TypeOK, EntryRec
      <3>3. QED BY <2>1, <2>3, <3>1, <3>2
    <2>4. CASE devs[x].ip # ip
      BY <1>1, <2>1, <2>2, <2>4 DEF IInv, TypeOK
    <2>5. QED BY <2>3, <2>4
  <1>5. QED BY <1>2, <1>3, <1>4 DEF Tracked

\* dev_list keeps its type, whether a write arrives or not.
LEMMA MayWriteType ==
    ASSUME TypeOK, NEW ip, NEW st \in ListState, MayWrite(ip, st)
    PROVE  dev_list' \in [Ip -> ListState]
  BY DEF TypeOK, MayWrite

\* So it does while a conflict is settled.
LEMMA PauseType ==
    ASSUME TypeOK, NEW t \in Task, LoserPaused(t)
    PROVE  dev_list' \in [Ip -> ListState]
  BY MayWriteType DEF LoserPaused, ListState, TypeOK

---------------------------------------------------------------------------
(* The inductive invariant                                                 *)

\* Initially nothing is known and nothing is under way.
LEMMA InitIInv == Init => IInv
  <1> SUFFICES ASSUME Init PROVE IInv
    OBVIOUS
  <1>1. TypeOK
    BY BoundsAssumption
    DEF Init, TypeOK, Idle, TimerIdle, TaskRec, TimerRec, ListState, RawRec
  <1>2. TasksReady /\ DevsTracked
    BY DEF Init, Idle, TasksReady, DevsTracked
  <1>3. QED BY <1>1, <1>2 DEF IInv

\* A goroutine that ends, or waits, is ready.
LEMMA FinishReady ==
    ASSUME IInv, NEW t \in Task, Finish(t)
    PROVE  task' \in [Task -> TaskRec] /\ TasksReady'
  BY DEF IInv, TypeOK, TasksReady, Finish, Idle, TaskRec, ListState

\* Every step of a handler preserves the invariant.
LEMMA StepIInv == ASSUME IInv, NEW t \in Task, Step(t) PROVE IInv'
  <1> USE DEF IInv
  <1>i. TypeOK /\ TasksReady /\ DevsTracked /\ Tracked(devs, entry)
    BY DEF DevsTracked, Tracked
  <1>p. /\ task[t] \in TaskRec
        /\ task[t].pc # "idle" => task[t].ip \in Ip
    BY DEF TypeOK, TasksReady
  <1>q. Tracked(devs', entry') => DevsTracked'
    BY DEF DevsTracked, Tracked
  <1>1. CASE ReadListed(t)
    <2>1. dev_list[task[t].ip] \in ListState
      BY <1>1, <1>p DEF ReadListed, TypeOK
    <2>2. task' \in [Task -> TaskRec] /\ TasksReady'
      BY <1>1, <1>p, <2>1, FinishReady
      DEF ReadListed, TypeOK, TasksReady, TaskRec, ListState
    <2>3. QED BY <1>1, <1>i, <1>q, <2>2 DEF ReadListed, TypeOK
  <1>2. CASE CleanUp(t)
    <2> DEFINE ip == task[t].ip
    <2>1. task' \in [Task -> TaskRec] /\ TasksReady'
      BY <1>2, FinishReady DEF CleanUp
    <2>2. devs' \in [DevId -> DevRec \union {NoDev}]
      BY <1>2, WipeType DEF CleanUp, TypeOK
    <2>3. Tracked(devs', entry')
      <3>1. ASSUME NEW x \in DevId, devs'[x] # NoDev
            PROVE  entry'[devs'[x].ip] # NoEntry /\ entry'[devs'[x].ip].id = x
        <4>1. devs[x] # NoDev /\ devs'[x] = devs[x] /\ devs[x].ip # ip
          BY <1>2, <3>1 DEF CleanUp, WipeDevs, DevsAt
        <4>2. devs[x].ip \in Ip /\ entry[devs[x].ip] # NoEntry /\ entry[devs[x].ip].id = x
          BY <4>1 DEF TypeOK, DevsTracked, DevRec
        <4>3. QED BY <1>2, <4>1, <4>2 DEF CleanUp, TypeOK
      <3>2. QED BY <3>1 DEF Tracked
    <2>4. QED BY <1>2, <1>q, <2>1, <2>2, <2>3 DEF CleanUp, TypeOK
  <1>3. CASE MarkConflict(t)
    <2>1. task' \in [Task -> TaskRec] /\ TasksReady'
      BY <1>3, FinishReady DEF MarkConflict
    <2>2. entry' \in [Ip -> EntryRec \union {NoEntry}] /\ Tracked(devs, entry')
      BY <1>3, <1>i, <1>p, MarkTracked DEF MarkConflict, TypeOK, ListState
    <2>3. QED BY <1>3, <1>q, <2>1, <2>2 DEF MarkConflict, TypeOK
  <1>4. CASE MarkInProgress(t)
    <2>1. task[t].ip \in Ip /\ task[t].listed \in ListState
      BY <1>4, <1>p DEF MarkInProgress, TaskRec
    <2>2. entry' \in [Ip -> EntryRec \union {NoEntry}] /\ Tracked(devs, entry')
      BY <1>4, <1>i, <2>1, MarkTracked DEF MarkInProgress, TypeOK
    <2>3. (IF entry[task[t].ip] = NoEntry THEN "none" ELSE entry[task[t].ip].state) \in ListState
      BY <2>1 DEF TypeOK, EntryRec, ListState
    <2>4. task' \in [Task -> TaskRec] /\ TasksReady'
      BY <1>4, <1>p, <2>1, <2>3 DEF MarkInProgress, TypeOK, TasksReady, TaskRec
    <2>5. QED BY <1>4, <1>q, <2>2, <2>4 DEF MarkInProgress, TypeOK
  <1>5. CASE ReadRaw(t)
    <2>1. task[t].ip \in Ip /\ raw[task[t].ip] \in RawRec \union {NoRaw}
      BY <1>5, <1>p DEF ReadRaw, TypeOK
    <2>2. task' \in [Task -> TaskRec] /\ TasksReady'
      <3>1. CASE Finish(t)
        BY <3>1, FinishReady
      <3>2. CASE GoTo(t, "postpone")
        BY <1>p, <2>1, <3>2 DEF GoTo, TypeOK, TasksReady, TaskRec
      <3>3. CASE raw[task[t].ip] # NoRaw /\
                 task' = [task EXCEPT ![t] =
                            [Idle EXCEPT !.pc = "commit", !.ip = task[t].ip,
                                         !.listed = task[t].listed, !.snap = raw[task[t].ip]]]
        <4>1. task'[t] \in TaskRec /\ task'[t].ip = task[t].ip /\ task'[t].snap # NoRaw
          BY <1>p, <2>1, <3>3 DEF TypeOK, Idle, TaskRec, ListState
        <4>2. QED BY <2>1, <3>3, <4>1 DEF TypeOK, TasksReady
      <3>4. QED BY <1>5, <3>1, <3>2, <3>3 DEF ReadRaw
    <2>3. QED BY <1>5, <1>i, <1>q, <2>2 DEF ReadRaw, TypeOK
  <1>6. CASE Postpone(t)
    BY <1>6, <1>i, <1>q, FinishReady DEF Postpone, Crash, TypeOK
  <1>7. CASE Lose(t)
    <2> DEFINE ip == task[t].ip
    <2>1. task' \in [Task -> TaskRec] /\ TasksReady' /\ ip \in Ip
      BY <1>7, <1>p, FinishReady DEF Lose
    <2>2. entry' \in [Ip -> EntryRec \union {NoEntry}] /\ Tracked(devs, entry')
      <3>1. CASE entry[ip] = NoEntry
        BY <1>7, <1>i, <3>1 DEF Lose, TypeOK
      <3>2. CASE entry[ip] # NoEntry
        <4>1. entry' = [entry EXCEPT ![ip] = Marked(@, "conflict")]
          BY <1>7, <2>1, <3>2 DEF Lose, Marked, TypeOK
        <4>2. QED BY <1>i, <2>1, <4>1, MarkTracked DEF TypeOK, ListState
      <3>3. QED BY <3>1, <3>2
    <2>3. dev_list' \in [Ip -> ListState]
      BY <1>7, MayWriteType DEF Lose, ListState
    <2>4. QED BY <1>7, <1>q, <2>1, <2>2, <2>3 DEF Lose, Crash, TypeOK
  <1>8. CASE Store(t)
    <2> DEFINE ip == task[t].ip
               d == task[t].snap.id
               rec == [ip |-> ip, st |-> StatusOf(t), save |-> SaveOf(t)]
    <2>1. task' \in [Task -> TaskRec] /\ TasksReady'
      <3>1. CASE Finish(t)
        BY <3>1, FinishReady
      <3>2. CASE GoTo(t, "leave")
        BY <1>8, <1>p, <3>2 DEF Store, GoTo, TypeOK, TasksReady, TaskRec
      <3>3. QED BY <1>8, <3>1, <3>2 DEF Store
    <2>2. dev_list' \in [Ip -> ListState]
      BY <1>8, PauseType DEF Store
    <2>3. /\ devs' \in [DevId -> DevRec \union {NoDev}]
          /\ entry' \in [Ip -> EntryRec \union {NoEntry}]
          /\ Tracked(devs', entry')
      <3>1. CASE entry[ip] = NoEntry
        BY <1>8, <1>i, <3>1 DEF Store, TypeOK
      <3>2. CASE entry[ip] # NoEntry
        <4> DEFINE D == WipeDevs(devs, PurgedBy(t))
        <4>1. /\ D \in [DevId -> DevRec \union {NoDev}]
              /\ entry' \in [Ip -> EntryRec \union {NoEntry}]
              /\ Tracked(D, entry')
          BY <1>8, <3>2, RegisterTracked DEF Store
        <4>2. ip \in Ip /\ d \in DevId /\ rec \in DevRec
          BY <1>8, CommitFacts DEF Store, DevRec
        <4>3. devs' = [D EXCEPT ![d] = rec] /\ entry' = [entry EXCEPT ![ip].id = d]
          BY <1>8, <3>2 DEF Store
        <4>4. entry'[ip] # NoEntry /\ entry'[ip].id = d
          BY <3>2, <4>2, <4>3, AbsentAssumption DEF TypeOK, EntryRec
        <4>5. devs' \in [DevId -> DevRec \union {NoDev}]
          BY <4>1, <4>2, <4>3
        <4>6. ASSUME NEW x \in DevId, devs'[x] # NoDev
              PROVE  entry'[devs'[x].ip] # NoEntry /\ entry'[devs'[x].ip].id = x
          <5>1. CASE x = d
            <6>1. devs'[x].ip = ip
              BY <4>1, <4>2, <4>3, <5>1
            <6>2. QED BY <4>4, <5>1, <6>1
          <5>2. CASE x # d
            BY <4>1, <4>3, <4>6, <5>2 DEF Tracked
          <5>3. QED BY <5>1, <5>2
        <4>7. QED BY <4>1, <4>5, <4>6 DEF Tracked
      <3>3. QED BY <3>1, <3>2
    <2>4. QED BY <1>8, <1>q, <2>1, <2>2, <2>3 DEF Store, Crash, TypeOK
  <1>9. CASE StoreFails(t)
    <2>1. task' \in [Task -> TaskRec] /\ TasksReady'
      BY <1>9, FinishReady DEF StoreFails
    <2>2. dev_list' \in [Ip -> ListState]
      BY <1>9, PauseType DEF StoreFails
    <2>3. /\ devs' \in [DevId -> DevRec \union {NoDev}]
          /\ entry' \in [Ip -> EntryRec \union {NoEntry}]
          /\ Tracked(devs', entry')
      BY <1>9, RegisterTracked DEF StoreFails
    <2>4. QED BY <1>9, <1>q, <2>1, <2>2, <2>3 DEF StoreFails, TypeOK
  <1>10. CASE LeaveIp(t)
    <2>1. dev_list' \in [Ip -> ListState]
      BY <1>10, MayWriteType DEF LeaveIp, ListState
    <2>2. task' \in [Task -> TaskRec] /\ TasksReady'
      BY <1>10, <1>p DEF LeaveIp, GoTo, TypeOK, TasksReady, TaskRec
    <2>3. QED BY <1>10, <1>i, <1>q, <2>1, <2>2 DEF LeaveIp, TypeOK
  <1>11. CASE MoveToPref(t)
    <2>1. dev_list' \in [Ip -> ListState]
      BY <1>11, MayWriteType DEF MoveToPref, ListState
    <2>2. QED BY <1>11, <1>i, <1>q, <2>1, FinishReady DEF MoveToPref, TypeOK
  <1>12. QED BY <1>1, <1>2, <1>3, <1>4, <1>5, <1>6, <1>7, <1>8, <1>9, <1>10, <1>11 DEF Step

\* A handler that is launched is ready.
LEMMA StartReady ==
    ASSUME IInv, NEW t \in Task, NEW r \in TaskRec, r.ip \in Ip, r.pc = "list",
           task' = [task EXCEPT ![t] = r]
    PROVE  task' \in [Task -> TaskRec] /\ TasksReady'
  BY DEF IInv, TypeOK, TasksReady

\* What else happens around the handlers preserves the invariant too.
LEMMA NextIInv == IInv /\ [Next]_vars => IInv'
  <1> SUFFICES ASSUME IInv, [Next]_vars PROVE IInv'
    OBVIOUS
  <1> USE DEF IInv
  <1>i. TypeOK /\ TasksReady /\ DevsTracked /\ Tracked(devs, entry)
    BY DEF DevsTracked, Tracked
  <1>q. Tracked(devs', entry') => DevsTracked'
    BY DEF DevsTracked, Tracked
  <1>r. UNCHANGED task => TasksReady'
    BY DEF TasksReady
  <1>1. ASSUME NEW t \in Task, Step(t) PROVE IInv'
    BY <1>1, StepIInv
  <1>2. ASSUME NEW t \in Task, NEW ip \in Ip, Trigger(t, ip) PROVE IInv'
    <2> DEFINE r == [Idle EXCEPT !.pc = "list", !.ip = ip]
    <2>1. r \in TaskRec /\ r.ip = ip /\ r.pc = "list"
      BY DEF Idle, TaskRec, ListState
    <2>2. task' \in [Task -> TaskRec] /\ TasksReady'
      BY <1>2, <2>1, StartReady DEF Trigger
    <2>3. QED BY <1>2, <1>i, <1>q, <2>2 DEF Trigger, TypeOK
  <1>3. ASSUME NEW t \in Task, NEW ip \in Ip, Launch(t, ip) PROVE IInv'
    <2> DEFINE r == [Idle EXCEPT !.pc = "list", !.ip = ip, !.startup = TRUE]
    <2>1. r \in TaskRec /\ r.ip = ip /\ r.pc = "list"
      BY DEF Idle, TaskRec, ListState
    <2>2. task' \in [Task -> TaskRec] /\ TasksReady'
      BY <1>3, <2>1, StartReady DEF Launch
    <2>3. QED BY <1>3, <1>i, <1>q, <2>2 DEF Launch, TypeOK
  <1>4. CASE BootDone
    BY <1>4, <1>i, <1>q, <1>r DEF BootDone, TypeOK
  <1>5. CASE TimerRead
    BY <1>5, <1>i, <1>q, <1>r DEF TimerRead, TypeOK, TimerRec, Listed
  <1>6. CASE TimerSweep
    <2>1. devs' \in [DevId -> DevRec \union {NoDev}] /\ entry' \in [Ip -> EntryRec \union {NoEntry}]
      BY <1>6, WipeType DEF TimerSweep, TypeOK
    <2>2. ASSUME NEW x \in DevId, devs'[x] # NoDev
          PROVE  entry'[devs'[x].ip] # NoEntry /\ entry'[devs'[x].ip].id = x
      <3>1. x \notin Orphans /\ devs[x] # NoDev /\ devs'[x] = devs[x]
        BY <1>6, <2>2 DEF TimerSweep, WipeDevs
      <3>2. devs[x].ip \in Ip /\ entry[devs[x].ip] # NoEntry /\ entry[devs[x].ip].id = x
        BY <3>1 DEF TypeOK, DevsTracked, DevRec
      <3>3. devs[x].ip \in timer.listed
        BY <3>1 DEF Orphans
      <3>4. QED BY <1>6, <3>1, <3>2, <3>3 DEF TimerSweep
    <2>3. QED BY <1>6, <1>q, <1>r, <2>1, <2>2 DEF TimerSweep, TypeOK, Tracked, TimerIdle, TimerRec
  <1>7. ASSUME NEW ip \in Ip, FailRaw(ip) PROVE IInv'
    <2>1. events' \in 0 .. MaxEvents
      BY <1>7, BoundsAssumption DEF FailRaw, Counted, TypeOK
    <2>2. raw' \in [Ip -> RawRec \union {NoRaw}]
      BY <1>7 DEF FailRaw, TypeOK, RawRec
    <2>3. QED BY <1>7, <1>i, <1>q, <1>r, <2>1, <2>2 DEF FailRaw, TypeOK
  <1>8. ASSUME NEW ip \in Ip, NEW st \in ListState, Edit(ip, st) PROVE IInv'
    <2>1. events' \in 0 .. MaxEvents
      BY <1>8, BoundsAssumption DEF Edit, Counted, TypeOK
    <2>2. QED BY <1>8, <1>i, <1>q, <1>r, <2>1 DEF Edit, TypeOK
  <1>9. ASSUME NEW ip \in Ip, NEW d \in DevId, SaveRaw(ip, d) PROVE IInv'
    <2>1. events' \in 0 .. MaxEvents
      BY <1>9, BoundsAssumption DEF SaveRaw, Counted, TypeOK
    <2>2. raw' \in [Ip -> RawRec \union {NoRaw}]
      BY <1>9 DEF SaveRaw, TypeOK, RawRec
    <2>3. QED BY <1>9, <1>i, <1>q, <1>r, <2>1, <2>2 DEF SaveRaw, TypeOK
  <1>10. ASSUME NEW d \in DevId, WipeRequest(d) PROVE IInv'
    <2>1. events' \in 0 .. MaxEvents
      BY <1>10, BoundsAssumption DEF WipeRequest, Counted, TypeOK
    <2>2. devs' \in [DevId -> DevRec \union {NoDev}] /\ Tracked(devs', entry')
      BY <1>10, <1>i, WipeType, WipeTracked DEF WipeRequest, TypeOK
    <2>3. QED BY <1>10, <1>q, <1>r, <2>1, <2>2 DEF WipeRequest, TypeOK
  <1>11. CASE Restart
    <2>1. task' \in [Task -> TaskRec] /\ TasksReady'
      BY <1>11 DEF Restart, Idle, TaskRec, TasksReady, ListState
    <2>2. DevsTracked'
      BY <1>11 DEF Restart, DevsTracked
    <2>3. QED BY <1>11, <2>1, <2>2 DEF Restart, TypeOK, TimerIdle, TimerRec
  <1>12. CASE UNCHANGED vars
    BY <1>12, <1>i, <1>q, <1>r DEF vars, TypeOK
  <1>13. QED
    <2>1. CASE Next
      BY <1>1, <1>2, <1>3, <1>4, <1>5, <1>6, <1>7, <1>8, <1>9, <1>10, <1>11, <2>1 DEF Next
    <2>2. QED BY <1>12, <2>1

\* The inductive invariant holds of every reachable state.
LEMMA IInvHolds == Spec => []IInv
  BY InitIInv, NextIInv, PTL DEF Spec

\* The registry keeps its types.
THEOREM TypeCorrect == Spec => []TypeOK
  BY IInvHolds, PTL DEF IInv

\* Every known device is found through the entry of its address.
THEOREM EveryDevTracked == Spec => []DevsTracked
  BY IInvHolds, PTL DEF IInv

---------------------------------------------------------------------------
(* Conflicts                                                               *)

\* The body of TakeoversAreJust, for one device.
JustFor(d) ==
    LET old == devs[d]
        new == devs'[d]
    IN  old # NoDev /\ new # NoDev /\ old.ip # new.ip =>
          /\ \/ new.st = "ok" /\ old.st # "ok"
             \/ (old.st = "ok" => new.st = "ok") /\ new.save > old.save
          /\ \A ip \in Ip \ {old.ip} : dev_list'[ip] = dev_list[ip]
          /\ dev_list'[old.ip] \in {dev_list[old.ip], "conflict"}

\* Nobody but a handler that stores its record gives a device a record.
LEMMA OnlyStoreMoves ==
    ASSUME [Next]_vars, ~ \E t \in Task : Store(t), NEW d \in DevId
    PROVE  devs'[d] \in {devs[d], NoDev}
  <1>1. ASSUME NEW ids, devs' = WipeDevs(devs, ids) PROVE devs'[d] \in {devs[d], NoDev}
    BY <1>1 DEF WipeDevs
  <1>2. CASE \E t \in Task : CleanUp(t) \/ StoreFails(t)
    BY <1>1, <1>2 DEF CleanUp, StoreFails
  <1>3. CASE TimerSweep
    BY <1>1, <1>3 DEF TimerSweep
  <1>4. CASE \E x \in DevId : WipeRequest(x)
    BY <1>1, <1>4 DEF WipeRequest
  <1>5. CASE Restart
    BY <1>5 DEF Restart
  <1>6. CASE UNCHANGED devs
    BY <1>6
  <1>7. ASSUME NEW t \in Task, Step(t), ~CleanUp(t), ~StoreFails(t) PROVE UNCHANGED devs
    BY <1>7 DEF Step, ReadListed, MarkConflict, MarkInProgress, ReadRaw, Postpone, Lose,
                    LeaveIp, MoveToPref
  <1>8. QED
    BY <1>2, <1>3, <1>4, <1>5, <1>6, <1>7
    DEF Next, vars, Trigger, Launch, BootDone, TimerRead, FailRaw, Edit, SaveRaw

\* A handler that stores its record takes the device over only if it prevails, and
\* pauses no address but the one that loses.
LEMMA StoreIsJust ==
    ASSUME IInv, NEW t \in Task, Store(t), NEW d \in DevId
    PROVE  JustFor(d)
  <1> DEFINE ip == task[t].ip
             own == task[t].snap.id
             D == WipeDevs(devs, PurgedBy(t))
             rec == [ip |-> ip, st |-> StatusOf(t), save |-> SaveOf(t)]
  <1> SUFFICES ASSUME devs[d] # NoDev, devs'[d] # NoDev, devs[d].ip # devs'[d].ip
               PROVE  /\ \/ devs'[d].st = "ok" /\ devs[d].st # "ok"
                         \/ (devs[d].st = "ok" => devs'[d].st = "ok") /\ devs'[d].save > devs[d].save
                      /\ \A x \in Ip \ {devs[d].ip} : dev_list'[x] = dev_list[x]
                      /\ dev_list'[devs[d].ip] \in {dev_list[devs[d].ip], "conflict"}
    BY DEF JustFor
  <1>1. task[t].pc = "commit" /\ (Conflict(t) => Prevails(t))
    BY DEF Store
  <1>2. ip \in Ip /\ own \in DevId
    BY <1>1, CommitFacts
  <1>3. devs' = [D EXCEPT ![own] = rec]
    BY DEF Store
  <1>4. d = own /\ devs'[d] = rec
    BY <1>2, <1>3 DEF WipeDevs
  <1>5. Conflict(t) /\ Prevails(t)
    BY <1>1, <1>4 DEF Conflict
  <1>6. \/ devs'[d].st = "ok" /\ devs[d].st # "ok"
        \/ (devs[d].st = "ok" => devs'[d].st = "ok") /\ devs'[d].save > devs[d].save
    BY <1>4, <1>5 DEF Prevails
  <1>7. MayWrite(devs[d].ip, "conflict")
    BY <1>4, <1>5 DEF Store, LoserPaused
  <1>8. /\ \A x \in Ip \ {devs[d].ip} : dev_list'[x] = dev_list[x]
        /\ dev_list'[devs[d].ip] \in {dev_list[devs[d].ip], "conflict"}
    BY <1>7 DEF MayWrite, IInv, TypeOK, DevRec
  <1>9. QED BY <1>6, <1>8

\* A device moves to another address only with better data, and the step that moves
\* it pauses no address but the one that lost.
THEOREM ConflictsAreSettled == Spec => TakeoversAreJust
  <1>1. IInv /\ [Next]_vars => [\A d \in DevId : JustFor(d)]_vars
    <2> SUFFICES ASSUME IInv, [Next]_vars, NEW d \in DevId PROVE JustFor(d)
      OBVIOUS
    <2>1. CASE \E t \in Task : Store(t)
      BY <2>1, StoreIsJust
    <2>2. CASE ~ \E t \in Task : Store(t)
      BY <2>2, OnlyStoreMoves DEF JustFor
    <2>3. QED BY <2>1, <2>2
  <1>2. QED BY <1>1, IInvHolds, PTL DEF Spec, TakeoversAreJust, JustFor

=============================================================================
