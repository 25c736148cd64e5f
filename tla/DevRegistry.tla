---------------------------- MODULE DevRegistry ----------------------------
(***************************************************************************)
(* Which device is known at which address: the redis dev_list, the copy    *)
(* data.dev_list that map-broker keeps, and devs.  They are changed by     *)
(* process_ip_data, which runs in one goroutine per saved report and only  *)
(* holds globalMutex for parts of its way, by the clean-up of the main     *)
(* timer, by the operators of the network and by the wipe_dev request.     *)
(* The links between the devices are the subject of L2Links.               *)
(***************************************************************************)
EXTENDS Integers, FiniteSets

CONSTANTS
    Ip,         \* addresses
    DevId,      \* device ids
    Task,       \* goroutines that may run process_ip_data at once
    Pref,       \* Pref[d]: the preferred address of device d (pref_ips), or NoIp
    MaxSave,    \* bound on save times
    MaxEvents,  \* bound on what the surroundings do: edits, reports, requests
    NoIp, NoId, NoEntry, NoDev, NoRaw

\* What read_devlist and process_ip_data make of a dev_list value.  "none" is a
\* missing, ignored or malformed one; "paused" any text they do not know.
ListState == {"none", "run", "paused", "conflict"}

Save == 0 .. MaxSave

\* The data of an address in redis: who answered, the result of the last
\* gathering and its save time.
RawRec == [id : DevId, ok : BOOLEAN, save : Save]

EntryRec == [state : ListState, id : DevId \union {NoId}]

DevRec == [ip : Ip, st : {"ok", "paused", "error"}, save : Save]

TaskRec == [pc : {"idle", "list", "gone", "markconflict", "mark", "raw", "postpone", "commit",
                  "leave", "move"},
            ip : Ip \union {NoIp}, startup : BOOLEAN, listed : ListState,
            prev : ListState, snap : RawRec \union {NoRaw}]

TimerRec == [pc : {"idle", "sweep"}, listed : SUBSET Ip]

ASSUME PrefAssumption == Pref \in [DevId -> Ip \union {NoIp}]
ASSUME BoundsAssumption == MaxSave \in Nat /\ MaxEvents \in Nat
ASSUME AbsentAssumption ==
    /\ NoIp \notin Ip /\ NoId \notin DevId
    /\ NoEntry \notin EntryRec /\ NoDev \notin DevRec /\ NoRaw \notin RawRec

VARIABLES
    dev_list,   \* redis dev_list
    raw,        \* redis: ip_data and ip_last_result of an address
    entry,      \* data.dev_list
    devs,       \* devs: the parts of a record that decide who owns an id
    task,       \* the goroutines
    timer,      \* the main timer: between read_devlist and the clean-up
    phase,      \* "boot", "run", or "crashed" by a write to a nil map
    pending,    \* addresses whose startup load has not been launched
    events      \* what the surroundings have done, counted for the bound

vars == <<dev_list, raw, entry, devs, task, timer, phase, pending, events>>

Idle == [pc |-> "idle", ip |-> NoIp, startup |-> FALSE, listed |-> "none",
         prev |-> "none", snap |-> NoRaw]

TimerIdle == [pc |-> "idle", listed |-> {}]

---------------------------------------------------------------------------
(* wipe_dev, as far as the registry goes                                   *)

WipeDevs(D, ids) == [d \in DevId |-> IF d \in ids THEN NoDev ELSE D[d]]

DevsAt(ip) == {d \in DevId : devs[d] # NoDev /\ devs[d].ip = ip}

---------------------------------------------------------------------------
(* process_ip_data                                                         *)

Finish(t) == task' = [task EXCEPT ![t] = Idle]

GoTo(t, pc) == task' = [task EXCEPT ![t].pc = pc]

\* globalMutex, which a handler that moves its device keeps between two writes to
\* redis.  Every other part of the code that holds it is one step.
LockFree == \A t \in Task : task[t].pc \notin {"leave", "move"}

\* HSET dev_list ip.  Nobody reads its error: the write may be lost.
MayWrite(ip, st) == dev_list' \in {dev_list, [dev_list EXCEPT ![ip] = st]}

\* A report of queue 0 was saved, or the main timer asks for a status update.
Trigger(t, ip) ==
    /\ phase = "run"
    /\ task[t].pc = "idle"
    /\ task' = [task EXCEPT ![t] = [Idle EXCEPT !.pc = "list", !.ip = ip]]
    /\ UNCHANGED <<dev_list, raw, entry, devs, timer, phase, pending, events>>

\* The startup launches every address that was not in conflict when listed.
Launch(t, ip) ==
    /\ phase = "boot"
    /\ ip \in pending
    /\ task[t].pc = "idle"
    /\ pending' = pending \ {ip}
    /\ task' = [task EXCEPT ![t] = [Idle EXCEPT !.pc = "list", !.ip = ip, !.startup = TRUE]]
    /\ UNCHANGED <<dev_list, raw, entry, devs, timer, phase, events>>

\* wg_.Wait()
BootDone ==
    /\ phase = "boot"
    /\ pending = {}
    /\ \A t \in Task : task[t].pc = "idle"
    /\ phase' = "run"
    /\ UNCHANGED <<dev_list, raw, entry, devs, task, timer, pending, events>>

\* HGET dev_list ip
ReadListed(t) ==
    /\ task[t].pc = "list"
    /\ LET st == dev_list[task[t].ip]
           next == CASE st = "none" -> IF task[t].startup THEN "idle" ELSE "gone"
                     [] st = "conflict" -> IF task[t].startup THEN "markconflict" ELSE "idle"
                     [] OTHER -> "mark"
       IN  IF next = "idle" THEN Finish(t)
           ELSE task' = [task EXCEPT ![t].pc = next, ![t].listed = st]
    /\ UNCHANGED <<dev_list, raw, entry, devs, timer, phase, pending, events>>

\* The address is not listed: forget it and the devices found there.
CleanUp(t) ==
    /\ task[t].pc = "gone" /\ LockFree
    /\ entry' = [entry EXCEPT ![task[t].ip] = NoEntry]
    /\ devs' = WipeDevs(devs, DevsAt(task[t].ip))
    /\ Finish(t)
    /\ UNCHANGED <<dev_list, raw, timer, phase, pending, events>>

\* Variant: an entry that is there loses its id.
MarkedAfresh(e, st) == [state |-> st, id |-> NoId]

\* MkM: the entry is created if missing and keeps its id otherwise.
Marked(e, st) == IF e = NoEntry THEN [state |-> st, id |-> NoId] ELSE [e EXCEPT !.state = st]

MarkConflict(t) ==
    /\ task[t].pc = "markconflict" /\ LockFree
    /\ entry' = [entry EXCEPT ![task[t].ip] = Marked(@, "conflict")]
    /\ Finish(t)
    /\ UNCHANGED <<dev_list, raw, devs, timer, phase, pending, events>>

\* proc_result = "in-progress"
MarkInProgress(t) ==
    /\ task[t].pc = "mark" /\ LockFree
    /\ LET ip == task[t].ip
       IN  /\ entry' = [entry EXCEPT ![ip] = Marked(@, task[t].listed)]
           /\ task' = [task EXCEPT ![t].pc = "raw",
                         ![t].prev = IF entry[ip] = NoEntry THEN "none" ELSE entry[ip].state]
    /\ UNCHANGED <<dev_list, raw, devs, timer, phase, pending, events>>

\* GetRawRed and Decode.  Without data, or with data that does not decode, the
\* handler ends (its deferred part only writes an entry that is still there).
\* Queues of a device that was just set to run may not be saved alike yet.  What
\* only this step reads, startup and prev, is forgotten after it.
ReadRaw(t) ==
    /\ task[t].pc = "raw"
    /\ LET ip == task[t].ip
       IN  \/ Finish(t)
           \/ /\ ~task[t].startup /\ task[t].prev # "run" /\ task[t].listed = "run"
              /\ GoTo(t, "postpone")
           \/ /\ raw[ip] # NoRaw
              /\ task' = [task EXCEPT ![t] =
                            [Idle EXCEPT !.pc = "commit", !.ip = ip,
                                         !.listed = task[t].listed, !.snap = raw[ip]]]
    /\ UNCHANGED <<dev_list, raw, entry, devs, timer, phase, pending, events>>

\* A write into data.VM("dev_list", ip) when that key is gone is a write to a
\* nil map: the panic is recovered by nobody and ends the process.
Crash == phase' = "crashed"

\* proc_result = "postproned"
Postpone(t) ==
    /\ task[t].pc = "postpone" /\ LockFree
    /\ IF entry[task[t].ip] = NoEntry THEN Crash ELSE UNCHANGED phase
    /\ Finish(t)
    /\ UNCHANGED <<dev_list, raw, entry, devs, timer, pending, events>>

\* Variant: an error of the last gathering is only a warning.
StatusOfWarn(t) == IF task[t].listed # "run" THEN "paused"
                   ELSE IF task[t].snap.ok THEN "ok" ELSE "warn"

StatusOf(t) == IF task[t].listed # "run" THEN "paused"
               ELSE IF task[t].snap.ok THEN "ok" ELSE "error"

\* A queue in error has no save time.
SaveOf(t) == IF task[t].snap.ok THEN task[t].snap.save ELSE 0

\* Another address holds the id of the device t has read.
Conflict(t) ==
    LET d == task[t].snap.id
    IN  devs[d] # NoDev /\ devs[d].ip # task[t].ip

\* The report of t takes the id over: only good data displaces good data, and
\* between equals the later one wins.
Prevails(t) ==
    LET old == devs[task[t].snap.id]
    IN  \/ StatusOf(t) = "ok" /\ old.st # "ok"
        \/ ~(StatusOf(t) # "ok" /\ old.st = "ok") /\ SaveOf(t) > old.save

\* The conflict is lost: the address is paused in redis, if the write arrives, and
\* in memory.
Lose(t) ==
    /\ task[t].pc = "commit" /\ LockFree
    /\ Conflict(t) /\ ~Prevails(t)
    /\ LET ip == task[t].ip
       IN  /\ MayWrite(ip, "conflict")
           /\ IF entry[ip] = NoEntry THEN Crash /\ UNCHANGED entry
              ELSE UNCHANGED phase /\ entry' = [entry EXCEPT ![ip].state = "conflict"]
    /\ Finish(t)
    /\ UNCHANGED <<raw, devs, timer, pending, events>>

\* Variant: the id that the address had before stays.
PurgedByTaken(t) == {d \in DevId : d = task[t].snap.id /\ Conflict(t)}

\* The ids that are wiped before the record of t is stored: the one it took
\* over and the one its address had before.
PurgedBy(t) ==
    LET e == entry[task[t].ip]
    IN  {d \in DevId : \/ d = task[t].snap.id /\ Conflict(t)
                       \/ e # NoEntry /\ e.id = d /\ d # task[t].snap.id}

\* Variant: the address that is paused is the handler's own.
OwnPaused(t) == IF Conflict(t) THEN MayWrite(task[t].ip, "conflict") ELSE UNCHANGED dev_list

\* The loser of a conflict is paused, if the write arrives.
LoserPaused(t) ==
    IF Conflict(t) THEN MayWrite(devs[task[t].snap.id].ip, "conflict") ELSE UNCHANGED dev_list

\* The device is to be polled at another of its addresses.
ToBeMoved(t) == Pref[task[t].snap.id] \notin {task[t].ip, NoIp}

\* The rest of the handler, under globalMutex: the record is stored.
Store(t) ==
    /\ task[t].pc = "commit" /\ LockFree
    /\ Conflict(t) => Prevails(t)
    /\ LoserPaused(t)
    /\ LET ip == task[t].ip
           d == task[t].snap.id
       IN  IF entry[ip] = NoEntry
           THEN Crash /\ Finish(t) /\ UNCHANGED <<entry, devs>>
           ELSE /\ devs' = [WipeDevs(devs, PurgedBy(t)) EXCEPT ![d] =
                              [ip |-> ip, st |-> StatusOf(t), save |-> SaveOf(t)]]
                /\ entry' = [entry EXCEPT ![ip].id = d]
                /\ IF ToBeMoved(t) THEN GoTo(t, "leave") ELSE Finish(t)
                /\ UNCHANGED phase
    /\ UNCHANGED <<raw, timer, pending, events>>

\* GET dev_last_seen fails: the handler returns with the id already registered
\* and the loser of a conflict already wiped.
StoreFails(t) ==
    /\ task[t].pc = "commit" /\ LockFree
    /\ Conflict(t) => Prevails(t)
    /\ LoserPaused(t)
    /\ LET ip == task[t].ip
           d == task[t].snap.id
       IN  /\ entry[ip] # NoEntry /\ entry[ip].id \in {NoId, d}
           /\ devs' = WipeDevs(devs, PurgedBy(t))
           /\ entry' = [entry EXCEPT ![ip].id = d]
    /\ Finish(t)
    /\ UNCHANGED <<raw, timer, phase, pending, events>>

\* A device whose preferred address is another one is moved to it by two writes:
\* the address that answered is paused, and the preferred one set to run.
LeaveIp(t) ==
    /\ task[t].pc = "leave"
    /\ MayWrite(task[t].ip, "conflict")
    /\ GoTo(t, "move")
    /\ UNCHANGED <<raw, entry, devs, timer, phase, pending, events>>

MoveToPref(t) ==
    /\ task[t].pc = "move"
    /\ MayWrite(Pref[task[t].snap.id], "run")
    /\ Finish(t)
    /\ UNCHANGED <<raw, entry, devs, timer, phase, pending, events>>

---------------------------------------------------------------------------
(* The main timer                                                          *)

\* Variant: what is known counts as listed.
ListedOrKept == {ip \in Ip : dev_list[ip] # "none" \/ entry[ip] # NoEntry}

Listed == {ip \in Ip : dev_list[ip] # "none"}

\* read_devlist, before globalMutex is taken
TimerRead ==
    /\ phase = "run"
    /\ timer.pc = "idle"
    /\ timer' = [pc |-> "sweep", listed |-> Listed]
    /\ UNCHANGED <<dev_list, raw, entry, devs, task, phase, pending, events>>

\* The device ids of the entries that are not listed any more.
UnlistedIds == {d \in DevId : \E ip \in Ip \ timer.listed : entry[ip] # NoEntry /\ entry[ip].id = d}

\* The devices whose address is not listed, or has no entry.
Orphans == {d \in DevId : /\ devs[d] # NoDev
                          /\ devs[d].ip \notin timer.listed \/ entry[devs[d].ip] = NoEntry}

\* Clean-up: first the entries, with their ids, then the devices.
TimerSweep ==
    /\ phase = "run"
    /\ timer.pc = "sweep" /\ LockFree
    /\ devs' = WipeDevs(devs, UnlistedIds \union Orphans)
    /\ entry' = [ip \in Ip |-> IF ip \in timer.listed THEN entry[ip] ELSE NoEntry]
    /\ timer' = TimerIdle
    /\ UNCHANGED <<dev_list, raw, task, phase, pending, events>>

---------------------------------------------------------------------------
(* The surroundings                                                        *)

Counted ==
    /\ events < MaxEvents
    /\ events' = events + 1

\* An operator edits dev_list.
Edit(ip, st) ==
    /\ st \in {"none", "run", "paused"}
    /\ dev_list[ip] # st
    /\ dev_list' = [dev_list EXCEPT ![ip] = st]
    /\ Counted
    /\ UNCHANGED <<raw, entry, devs, task, timer, phase, pending>>

\* The scanner saves new data for an address.
SaveRaw(ip, d) ==
    /\ dev_list[ip] = "run"
    /\ \E s \in Save :
         /\ IF raw[ip] = NoRaw THEN s = 0 ELSE s = raw[ip].save + 1
         /\ raw' = [raw EXCEPT ![ip] = [id |-> d, ok |-> TRUE, save |-> s]]
    /\ Counted
    /\ UNCHANGED <<dev_list, entry, devs, task, timer, phase, pending>>

\* The scanner fails: the data stay, the last result is an error.
FailRaw(ip) ==
    /\ dev_list[ip] = "run"
    /\ raw[ip] # NoRaw /\ raw[ip].ok
    /\ raw' = [raw EXCEPT ![ip].ok = FALSE]
    /\ Counted
    /\ UNCHANGED <<dev_list, entry, devs, task, timer, phase, pending>>

\* The wipe_dev request: it deletes a field of a redis hash nobody reads
\* ("devs_list") and wipes the device in memory.
WipeRequest(d) ==
    /\ phase = "run" /\ LockFree
    /\ devs[d] # NoDev
    /\ devs' = WipeDevs(devs, {d})
    /\ Counted
    /\ UNCHANGED <<dev_list, raw, entry, task, timer, phase, pending>>

\* The broker is started again after a crash: its memory is empty.
Restart ==
    /\ phase = "crashed"
    /\ phase' = "boot"
    /\ pending' = {ip \in Ip : dev_list[ip] \in {"run", "paused"}}
    /\ entry' = [ip \in Ip |-> NoEntry]
    /\ devs' = [d \in DevId |-> NoDev]
    /\ task' = [t \in Task |-> Idle]
    /\ timer' = TimerIdle
    /\ UNCHANGED <<dev_list, raw, events>>

Init ==
    /\ dev_list \in [Ip -> {"none", "run"}]
    /\ raw \in [Ip -> {NoRaw} \union {r \in RawRec : r.ok}]
    /\ entry = [ip \in Ip |-> NoEntry]
    /\ devs = [d \in DevId |-> NoDev]
    /\ task = [t \in Task |-> Idle]
    /\ timer = TimerIdle
    /\ phase = "boot"
    /\ pending = {ip \in Ip : dev_list[ip] = "run"}
    /\ events = 0

Step(t) ==
    /\ phase # "crashed"
    /\ \/ ReadListed(t) \/ CleanUp(t) \/ MarkConflict(t) \/ MarkInProgress(t)
       \/ ReadRaw(t) \/ Postpone(t) \/ Lose(t) \/ Store(t) \/ StoreFails(t)
       \/ LeaveIp(t) \/ MoveToPref(t)

Next ==
    \/ \E t \in Task : Step(t) \/ \E ip \in Ip : Trigger(t, ip) \/ Launch(t, ip)
    \/ BootDone
    \/ TimerRead
    \/ TimerSweep
    \/ \E ip \in Ip : FailRaw(ip) \/ \E st \in ListState : Edit(ip, st)
    \/ \E ip \in Ip, d \in DevId : SaveRaw(ip, d)
    \/ \E d \in DevId : WipeRequest(d)
    \/ Restart

Spec == Init /\ [][Next]_vars

\* Goroutines run, the main loop comes back to its timer every DB_REFRESH_TIME,
\* and the supervisor restarts the broker.
Fairness ==
    /\ \A t \in Task : WF_vars(Step(t))
    /\ \A t \in Task, ip \in Ip : WF_vars(Launch(t, ip))
    /\ WF_vars(BootDone)
    /\ WF_vars(TimerRead) /\ WF_vars(TimerSweep)
    /\ WF_vars(Restart)

FairSpec == Spec /\ Fairness

---------------------------------------------------------------------------
(* Properties                                                              *)

\* Every variable has its type.
TypeOK ==
    /\ dev_list \in [Ip -> ListState]
    /\ raw \in [Ip -> RawRec \union {NoRaw}]
    /\ entry \in [Ip -> EntryRec \union {NoEntry}]
    /\ devs \in [DevId -> DevRec \union {NoDev}]
    /\ task \in [Task -> TaskRec]
    /\ timer \in TimerRec
    /\ phase \in {"boot", "run", "crashed"}
    /\ pending \in SUBSET Ip
    /\ events \in 0 .. MaxEvents

\* Every known device is reachable from the entry of its address: the entry is
\* there and carries its id, so an id change, a removal and the clean-up find
\* it.  In particular no two devices are known at one address.
DevsTracked ==
    \A d \in DevId : devs[d] # NoDev =>
        entry[devs[d].ip] # NoEntry /\ entry[devs[d].ip].id = d

\* When the record of a device that answers at two addresses moves from one to the
\* other, the new data are better, that is good where the old ones were not, or later
\* and no worse, and the step pauses no address but the one that lost: the address
\* with the better data goes on being polled.  (The pause itself may be lost on its
\* way to redis.  The next report of the address that lost is then judged again.)
TakeoversAreJust ==
    [][\A d \in DevId :
          LET old == devs[d]
              new == devs'[d]
          IN  old # NoDev /\ new # NoDev /\ old.ip # new.ip =>
                /\ \/ new.st = "ok" /\ old.st # "ok"
                   \/ (old.st = "ok" => new.st = "ok") /\ new.save > old.save
                /\ \A ip \in Ip \ {old.ip} : dev_list'[ip] = dev_list[ip]
                /\ dev_list'[old.ip] \in {dev_list[old.ip], "conflict"}]_vars

\* An address that is taken off the list for good leaves the map: whatever
\* handler of it was under way, the clean-up of the main timer has the last
\* word.
RemovedGoes ==
    \A ip \in Ip :
        <>[](dev_list[ip] = "none") => <>[](entry[ip] = NoEntry /\ DevsAt(ip) = {})

\* A device that is just being set to run is ignored until all its queues are
\* saved ("ignore freshly started device with many queues", process_ip.go:749):
\* neither this nor any other way of a handler brings the broker down.
NeverCrashes == phase # "crashed"

=============================================================================
