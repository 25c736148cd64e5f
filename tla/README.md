# TLA+ models of mapper

mapper polls network devices over SNMP, keeps what it gathers in redis, and
builds from it a live map of the network: devices, physical and layer-3 links,
traffic graphs, alerts. Its operators arrange that map in the browser. This
directory holds TLA+ models of the parts of it that are concurrent or keep
redundant state, the TLC configurations that check them, and proofs of their
invariants for any number of devices, interfaces, clients, messages, turn points
and users.

Every definition is translated from the Go source of the servers or from the
page's JavaScript (`map-broker/www/mapper.js`); a comment above it says what it
stands for, and `PROJECT.json` (`map`) gives its lines.

- [The system](#the-system)
- [The models](#the-models)
- [What the runs check](#what-the-runs-check)
- [Bounds](#bounds)
- [Fairness and assumptions](#fairness-and-assumptions)
- [What is proved](#what-is-proved)
- [Where code and intention differ](#where-code-and-intention-differ)
- [What is not modelled](#what-is-not-modelled)
- [Plan](#plan)

## The system

Several processes share one redis. There is no other channel between them than
its keys, its pub/sub channels and, for graphs, RRD files.

```
 operators ── dev_list ──┐
                         v
  devices <─SNMP─ map-scanner ──save──> redis: ip_keys.*, ip_data.*, ip_last_result.*
                         │                    ^            │
                         └── publish ─────────┼── queue.saved ──> map-broker ──> http, websockets
                                              │                  │     │
                              redmutex: ip_lock.*        ip_graphs.*   publish
                                                                 v
                                                             map-grapher ──> RRD
```

| component | state it keeps | operations | interacts with |
|---|---|---|---|
| map-scanner, main loop (`map-scanner.go`) | `workers`, the list of devices and queues | start and stop a worker per address and queue as `dev_list` and the queue files change; write `mapper.queues` | workers by `stop` channels and a wait group |
| map-scanner, worker | its SNMP connection, its cycle time | gather, lock the address, save in one MULTI/EXEC, unlock, publish; on error write `ip_last_result` | redis, broker |
| redmutex | one key per name; the token of the holder | `Lock` with lease and deadline, `Unlock`, `Prolong` | scanner workers, broker goroutines |
| decode_dev, `GetRawRed` | none | lock, read every key of every queue, unlock | scanner's saves |
| decode_dev, `Decode` | none | raw tables to a device record | broker |
| redsub and its consumers | a connection, the channels C (100) and E (1) | forward, fail, close; subscribe again | broker (`queue_data_sub`), grapher (`graph_sub`), `rsub` |
| map-broker, device registry (`process_ip.go`, first half) | `devs`, `data.dev_list`, redis `dev_list` | a report is processed; conflict of two addresses; move to a preferred address; clean-up by the main timer; wipe | operators, scanner, http |
| map-broker, links (`processLinks`, `wipe_dev`) | `data.l2_links`, `interfaces[].l2_links`, `dev_refs` | discovery from LLDP/CDP, carry-over of older links, wipe | registry, http (which exports the map) |
| map-broker, layer 3, graph items, alerts, logs | `data.l3_links`, `data.l3_links_parent`, `ip_graphs.*`, redis logs | part of `process_ip_data` | grapher |
| map-broker, layouts (`http-ajax.go`: `get_front`, `save_map*`, `del_map*`, `set_default_map`) | hash `maps`: a layout per user, the default layout and its owner | read, change and write back, with a redis command for each and no lock | pages |
| map-broker, the other requests and sockets | shares, virtual devices and links, options | requests under the lock or the read lock | browsers |
| map page, drawing (`mapper.js`) | `data` (devices, links), `map_data` (places, turn points), `connections` | place and take off devices, put and remove turn points, build and draw connections | broker, by requests |
| map page, saving (`save_map`, `data_loaded`) | `data["default_map"]`, `map_data`, requests under way | send a part or all of the layout; load; report errors | broker |
| map-grapher | `mainQueue` (100), cache of `ip_graphs` | `graph_sub` puts messages in, `worker_sub` takes them, interpolates and writes RRD | broker, scanner |
| mapaux | none | rules (`rule.go`), nested maps, helpers | all |
| the other windows of the page | forms | rules, interfaces, alerts, logs, graphs | broker |
| command-line tools, acl-gen, global-config | none shared | one-shot programs | redis, devices |

What makes each correct, and what makes it hard:

- **Links.** One link lives in five places: the global map, the lists of two
  interfaces and the references of two devices. Two devices report it
  independently, either may be wiped, reloaded under another id, or fail. It must
  be in all five places or none; its status must follow both ends although only
  one is processed at a time; a cable that was moved must not stay "up". The
  status of the old link is decided by comparing times of the two devices.
- **Registry.** `process_ip_data` runs in a goroutine per report. It reads redis,
  marks the address under the lock, *releases* it, reads the raw data, and takes
  the lock again to decide who owns the device. Between those parts other
  handlers, the clean-up of the timer (which also reads redis before it locks)
  and operators act. Each device must stay reachable from the entry of its
  address, and a removed address must leave the map.
- **Lock.** The key expires by itself, answers get lost, clients crash. No two
  clients may count on it at once; every `Lock` must return; no key may stay.
- **Data of an address.** A save is atomic, a read is a command per key; a read
  must not mix two saves, and what is announced as saved must be saved.
- **Subscription.** The goroutine that forwards messages, the consumer that may
  stop listening, and a connection that may break: never two subscriptions,
  always a new one after a loss, and a stop must not hang.
- **Scanner main loop.** Workers are restarted while they run (community or queue
  change), with ten seconds to end before the process panics.
- **Grapher.** A bounded queue between two goroutines that stop independently;
  interpolation of missed intervals.
- **Turn points.** The corners of a link are records that name their neighbours,
  which may be points or devices; putting in or removing one rewrites up to three
  of them by cases on their types, and the legs on which one clicks are derived
  from them with marks. The records must remain one line from device to device,
  whatever was edited, deleted, saved or lost, and the screen must follow.
- **Layouts.** A page sends parts of its layout and waits for no answer, the broker puts
  each into what it has read a moment ago and writes all of it back. What a page shows is
  to be what the next load brings back; a user's own layout comes before the default.
- **Rules.** An in-place reduction of a token stack with precedence and brackets.

`PROJECT.json` lists the hazards of this code one by one, at their lines, with
the property that covers each or the reason why none does yet.

## The models

| module | models | proofs |
|---|---|---|
| `L2Links` | `processLinks`, `wipe_dev`, the two startup passes: `devs`, `l2_links`, `dev_refs` | `L2LinksProofs` |
| `DevRegistry` | `process_ip_data` up to the storing of the record, the timer's clean-up, `wipe_dev` request, crash and restart of the broker | `DevRegistryProofs` |
| `RedMutex` | `redmutex`: `Lock`, `Unlock`, expiry | `RedMutexProofs` |
| `IpData` | the scanner worker's save and `GetRawRed`, composed with `RedMutex` (`INSTANCE`) | `IpDataProofs` |
| `IpSnapshot` | what `IpData` promises: saves and reads of all queues in one step each; implemented by it (`INSTANCE IpSnapshot WITH stored <- ..., view <- ...`) | in `IpDataProofs` |
| `RedSub` | `redsub` and the loops of its two consumers | `RedSubProofs` |
| `TurnPoints` | the page's records of the turn points of a link, `build_connections`, and all that edits, draws, deletes, saves and loads them | `TurnPointsProofs` |
| `LinkPath` | what `TurnPoints` promises: a line as a sequence of points; implemented by it (`INSTANCE LinkPath WITH path <- PathOf(tps)`) | `LinkPathProofs` |
| `MapStore` | saving, deleting, loading of layouts: pages, requests, the handlers command by command | `MapStoreProofs` |

`MC*.tla` give the constants that a cfg cannot write (sets of links, the
preferred addresses); everything else is in the cfg. Definitions called
"Variant" in a comment are one-step departures from the definition that follows
them (a test dropped, a reset forgotten). No specification uses them. They are
what `PROJECT.json` (`mutants`) substitutes to see that a property would notice.

### L2Links

Everything here runs under `globalMutex`, so one handler is one step. The three
Go maps travel as one record `S \in Store` through operators that mirror the
halves of `processLinks`: `Discovered` (from the rows the device reports),
`Carried`/`Keeps`/`CarriedOver` (the links the old record listed), and `Wiped`.
`Load`, `EndLoad`, `Relink`, `EndRelink` are the startup: a first pass over
every address without carry-over, then a second over the devices then known, run
on the stored record itself. `Process(d)` is the locked part of a live report,
with the wipes that may precede it; `WipeDev(d)` any other wipe. An
`Observation` is what a gathering may bring: any status, any interface states,
any neighbour rows among `Cables`. A link id is the unordered pair of its ends,
because `l2l_key` sorts them. Ports are pairs, lists are sets: the code appends only what
is not there.

`last_seen` matters because the carry-over compares it with the link's time. An
observation therefore *follows* the record it replaces (`Follows`): an error leaves
the time where it was, anything else has the same time or a later one. Nothing orders the
handlers of one address: one that was overtaken brings older rows although `last_seen`
has moved on, and a device that is paused may bring other rows at the same time. `stray` is
a history of the devices to which this happened since their last later data.

### DevRegistry

`task[t].pc` is the place of a goroutine between two lock or redis operations:
`list` (HGET dev_list), `gone`/`markconflict`/`mark` (first locked part), `raw`
(`GetRawRed` and `Decode`), `postpone` (the write into `data.dev_list` that is
made after the mutex is released), `commit` (the second locked part: `Lose`,
`Store` or `StoreFails`), and `leave`, `move` (the two HSETs that move the device to its
preferred address, made while the mutex is held, which `LockFree` says to the others). `snap` and `listed` are the
values carried across. `timer` is split at the same seam: `TimerRead` is
`read_devlist`, `TimerSweep` the clean-up under the lock, on the copy read
earlier. A write to `data.VM("dev_list", ip)` whose key has gone is a write to a
nil map in Go and nobody recovers it: `phase` becomes "crashed" and `Restart`
begins with empty memory. `Edit`, `SaveRaw`, `FailRaw` and `WipeRequest` are
operators, the scanner and an http request.

Errors of redis that end a handler before it changed anything (all of
`ReadRaw`'s failures, bad data) are the one disjunct `Finish(t)` of `ReadRaw`.
Errors that leave work half done are `StoreFails` and every HSET of `dev_list`: the handlers
do not look at what it returns, so each of them may be lost on its own (`MayWrite`), with
the records in memory changed as if it had been made.

### RedMutex and IpData

Time passes in `Tick`s of `waitTime`. `key`/`ttl` are redis; `pc`, `waited`,
`left` the clients, `left` being how long a client may still count on its lock.
An error is two-sided: the command may or may not have been carried out.
Tokens are `time.Now` to the nanosecond and are taken to be distinct.

`IpData` composes: each step of a worker or reader that touches the lock takes
the corresponding step of `M == INSTANCE RedMutex`, the others leave the lock
alone. `saved` holds, per queue, the number of the gathering its keys and its
data come from, so a mixed read is a difference of numbers. `Prompt` says that
nobody stays in the section longer than the lease (see *Assumptions*).

`IpSnapshot` has no lock, no clock and no commands: `Put` exchanges the keys and data of
a queue for those of a later gathering, `Get` returns all the queues as they are at that
moment. The mapping takes `saved` without the results (an error result is written without the lock)
and, of a goroutine, what it has got once `GetRawRed` has returned it without error.

### RedSub

`sub` is the goroutine: `receive`, `send` (blocked while C is full), `ending`
(the error is in E, the deferred closing is to come), `done`. `user` is the consumer:
`start`, `select`, `wait` (for the goroutine), `sleep`, `quit`. Messages are
counted and not named, since both loops treat every message alike.

### TurnPoints and LinkPath

One link, its two devices and the page that draws it. JavaScript runs a handler to
its end, so a click or the callback of an answer is one step; what lies between a
request and its answer are other steps (`AskLink`, `LinkSaved`). `tps` is
`map_data["tps"][link_id]`, a function from indexes to the records of the code:
`devdev` (the only point), `devtp` (next to a device), `tptp`. `WithTp` is
`new_tp` with the cases of `SplitEnd` and `SplitInner` for the neighbours, `WithoutTp`
is `remove_tp` with `JoinDev` and `JoinTp`; `InvalidLeg` and `Corrupted` are the checks
the code makes first. `LegsOf` is `build_connections`; `Connections` says
when the link is drawn at all and from which device, which depends on the order of
the keys and is a choice. `conn` is what is on the screen: a step either rebuilds
it (`Rebuild`) or leaves it, as the code does, so it may in principle be stale.
`known` is the link in `data["l2_links"]`, `ports` the devices whose record has the port of
the link, `listed` those whose port names the link: `wipe_l2_link`, `save_vdev` and
`save_vlink` change one without the other. "Save" in the window of a virtual device
changes the page's own record at the click (`EditVdev`); `edit` is the request under way, and its
answer (`VdevSaved`) and its failure (`VdevNotSaved`) are steps of their own. `undrawn`
are the devices on the map with a port nobody has laid out yet, at which `build_connections`
throws (`Reconnect`), and `adrift` is a history: the link is known although the page took
one of its ports away. `stored` is what the broker has; a save may fail and is not repeated.

`LinkPath` knows nothing of records. Its state is the sequence of points from one
device to the other and what was saved of it; its steps insert a point at a place,
remove one, clear, save, load. `PathOf` is the order of the points that makes a line from
`EndA` to `EndB`; there is only one.

### MapStore

`run_query` neither waits for the answers to other requests nor queues, so each page has
`Slots` for requests under way. A request is a record `calls[p][s]` with the place of its
handler (`at`) and what it has read (`buf`); a step is one redis command (`ReadMap`,
`WriteMap`, `ReadOwner`, `WriteOwner`, `WriteDef`, ...) or the callback of an answer
(`Saved`, `Deleted`, `LoadMap`, ...). `Stop` ends a handler between any two commands,
`LoseAnswer` gives the page an error while the handler goes on; `Unnoticed` is an error that the
code does not look at. A page that is left (`Leave`: loaded again, after "Clear" or after a deletion)
hears no answers any more, and its handlers go on.

A layout is a set of items: the place of a device, the points of a link, a color, an
option. `Change` turns items over, and `save_map` sends them alone if the page shows its
user's layout and all of the layout if it shows the default. `TakeOff` is `remove_from_map`, which sends
two requests in a row, `Clear` saves the empty layout and loads the page at once, `Copy` saves
what is shown into another file, whose answer the page takes for one of its own.

Two histories say what can be expected. `amiss[p]`: a save or deletion since the page was
loaded was answered by an error, or one was not yet written when it was loaded.
`unsure[p]`: the items whose last change was not written by a save that no other request of the page
crossed, that is, was sent or unwritten between its sending and its write (`alone`).

## What the runs check

| run | cfg | expects | shows |
|---|---|---|---|
| l2_pair | `L2LinksPair` | pass | a cable between two devices in every state of both: the link is in all its places or none, its status is exact, and it is not up when neither end reports it |
| l2_moved | `L2LinksMoved` | pass | a port that is shared by two possible cables, one of them a loop: cables get moved while the devices are reported, wiped and loaded |
| dr_conflict | `DevRegistryConflict` | pass | two addresses, two goroutines, a preferred address, timer and crash: every device stays reachable from its entry, and a device moves to another address only with better data |
| dr_removal | `DevRegistryRemoval` | pass | an address taken off the list leaves the map, whatever handler was under way |
| dr_crash | `DevRegistryCrash` | violation | the clean-up removes an entry that a handler then writes to |
| rm_lock | `RedMutexLock` | pass | exclusion under expiry, crashes and lost answers; `Lock` returns; left-over keys go |
| ip_prompt | `IpDataPrompt` | pass | a read never mixes two saves and is of one moment for all queues, if sections are shorter than the lease; `IpData` implements `IpSnapshot` |
| rs_stop | `RedSubStop` | pass | never two subscriptions, a lost one is replaced, a stop ends the consumer — as long as C has room |
| rs_full | `RedSubFull` | violation | the same stop hangs when C is full |
| tp_line | `TurnPointsLine` | pass | any sequence of edits, deletions, saves, lost saves and reloads of a link with up to four turn points, with virtual devices edited under it: one line, never a refused edit, legs that are those of the records, a connection from port to port; and `TurnPoints` implements `LinkPath` |
| ms_pages | `MapStorePages` | pass | two users whose pages send without waiting and whose handlers interleave command by command, fail and lose answers anywhere, with a default layout that changes its owner: an item is stored as it is shown unless its own last change was lost or crossed, and the default never hides or replaces a user's own |
| ms_at_once | `MapStoreAtOnce` | violation | two saves of one page run at once: one takes the other's change back, and the page is told that both were saved |

The properties, in words:

- `LinkIntegrity`: an exported link joins two known devices, is in the references
  of both and on the lists of both of its interfaces (for a loop on one device: at
  least one of the two).
- `NoDanglingId`: the converse; nothing names a link that is gone.
- `StatusExact`: a link between two devices is up exactly if both of its
  interfaces are, on two devices in good state.
- `NoPhantomUp`: a link that is up is reported by the current data of the device that created
  it, unless a handler of that device was overtaken since its last later data.
- `DevsTracked`: the entry of a device's address exists and carries its id.
- `TakeoversAreJust`: a device moves to another address only with better or later data, and that step
  changes no entry of `dev_list` but the one of its former address, which is paused or, the
  write being lost, stays as it was.
- `RemovedGoes`: an address that stays removed is eventually forgotten.
- `MutualExclusion`, `LockReturns`, `LeftoverGoes`: the lock.
- `WholeRead`: keys and data that `GetRawRed` returns are of one gathering.
- `ImplementsSnapshot`: moreover, what it returns is what all the queues had at one
  moment, and no save puts an earlier gathering over a later one.
- `OneSubscription`, `Resubscribes`, `StopReturns`: the subscription.
- `TpsAreOneLine`: the turn points of a link, on the page and as saved, form one
  line from device to device that visits each point once.
- `EditsNeverRefused`: "Corrupted turnpoints database" and "Invalid leg type" never
  come up.
- `LegsAreFresh`: the legs on the screen are those the records give now, one
  more than there are points.
- `EndsReachALine`: each device of a broken line is joined to exactly one point, and the
  point to the device, so `arrange_interfaces_dev2tp` finds it.
- `DrawnIsKnown`: a connection on the screen joins two placed devices by a known link, port to
  port, and none that a rebuild would draw is missing. A port may be missing while a `save_vdev` that
  took it away is under way, and afterwards if that failed or the link was saved without the port
  (`adrift`); a link may be missing while a port is not laid out (`undrawn`).
- `ImplementsLinkPath`: an edit of the records is an edit of the line in one place.
- `SureIsStored`: an item of a page that shows its user's layout is stored as it is
  shown, whatever requests overlap, fail or lose their answers around it, unless its own last change
  was lost or crossed by another request of the page (`unsure`).
- `AnsweredIsStored` (refuted by `ms_at_once`): a page all of whose requests were answered
  without an error shows what is stored.
- `NothingOverwritten`: a page shows the default layout unasked only while its user has none.

Loops are excluded from `StatusExact` and `NoPhantomUp` because the code does not
keep them for loops: the far end of a loop is read from the record of the
*previous* run, and only one end needs to be listed.

## Bounds

Named in the cfgs. Where a counter is capped, the cap is in a guard.

- `L2LinksPair`: two devices with an interface each and the cable between them,
  with every status and every interface state; `MaxSeen = 2`. A link involves two
  devices. The carry-over compares its time with one `last_seen`, for which two
  values suffice; the third lets both ends move on after it, and each may be overtaken.
- `L2LinksMoved`: two devices with two interfaces each and two cables that share
  a port, so that the ends may disagree on which of them is real; one loops back to
  its own device. Devices are in good state or in error, interfaces there or
  not (the other run has the rest); `MaxSeen = 1`, so that each device has later data once
  and may be overtaken before and after. It is the smallest instance where a list holds two links and where a link
  must go because its port reports another.
- `DevRegistryConflict`: two addresses of one device, two concurrent handlers and
  the timer, with a preferred address: conflicts are pairwise. `MaxEvents = 2`
  allows edits and reports once the handlers have begun, and two save times decide
  which one is later. `DevRegistryRemoval`: one address that may answer with either of two
  ids, two handlers, the timer and `MaxEvents = 3`: added, changed, removed.
  Two addresses with two ids together are left to the theorem.
- `RedMutexLock`: three clients, so that a second waits while a third comes;
  `Lease 2 < Timeout 4`, so that a waiter outlives a lease.
- `IpDataPrompt`: two queues and a reader; two gatherings give an old and a new
  value for each; two ticks of lease let one pass inside a section.
- `RedSubStop`: C of length 4 and `MaxMsg 4`, so the channel can hold all there
  is; `RedSubFull` has fewer places than messages. In the code C has 100.

- `TurnPointsLine`: `MaxTps = 4` turn points. An edit rewrites each of the two neighbours of
  the point on its own, by its type and by the side on which it names the other one; with
  four points each of these cases occurs for both edits, though not two inner
  neighbours at once, which takes five and is left to the theorems.
  The constraint `FewUnsaved` lets a save fail only
  while page and broker agree or have at most three points together, so older lines are
  loaded up to that size. `FewEdits` lets virtual devices be edited only while they have at most
  two: an edit of a device does not look at the records of the points. One `save_vdev`
  is under way at a time: its window is modal and closes with the answer; an operator who presses
  "Save" again, or cancels the window and edits another device before the answer, is left out.
- `MapStorePages`: two users and two items, so that a part and the rest differ and one user's
  layout can be the other's default. Users, items and slots are symmetric. Each page has
  two slots, the least for which one request crosses another. `FewCalls`: two
  requests or loadings under way among both users. `OneWritten`: of two of one page, one has not written
  the user's layout yet, since what both do after that only concerns the default. `OneStirs`: while
  requests of one page overlap or fail, and until it is loaded again or saved as a whole, the
  other rests, with a full layout that is the default. What both do at once is in the run as long as each has one
  request under way and nothing failed; the rest is left to the theorems, which have no such bounds.
- `MapStoreAtOnce`: one user, who waits for the answers to one click before the next
  (`WaitsBetweenClicks`) and copies nothing (`NoCopies`). Without these bounds TLC shows simpler
  ways to the same end first: two clicks in a row, or a copy whose answer is taken for a save.

The theorems remove these bounds for the safety properties they cover.

## Fairness and assumptions

- `RedMutex!FairSpec`: weak fairness of `Tick` (time passes) and of each client's
  `Attempt` (a command that was sent is answered). Nothing is assumed of `Unlock`.
- `DevRegistry!Fairness`: weak fairness of each goroutine's step and of launching
  the startup's goroutines (the Go scheduler), of the timer (the main loop's select
  comes back to it every `DB_REFRESH_TIME`) and of `Restart` (a supervisor). None
  of operators, scanner or requests.
- `RedSub!Spec`: weak fairness of goroutine and consumer; the error of
  a connection that is down is returned. Strong fairness of `TakeErr` and
  `TakeStop`, since Go's `select` picks at random among its ready cases and so does
  not put off for ever one that is ready again and again. Nothing is assumed of redis.
- L2Links: the handlers of an address take the lock in any order. A SET of
  `dev_last_seen` is taken to succeed, so that a broker that starts again does not go back behind it.
- `Prompt` (IpData): nobody exceeds the lease. The code does not enforce it
  either, and no command carries a fencing token. With `Prompt = FALSE`,
  `WholeRead` fails. The lease is one second for a section of a few commands.
- Tokens of two lock attempts differ.
- TurnPoints: one link; the ends of a link do not change while the page knows it; a page that is
  loaded gets devices, links and places in any combination that `get_front` can
  answer. No two pages edit one layout.
- MapStore: each user has one page; only the main and the default layout, and of other files
  the copy of what is shown into one of them. A page that is being loaded takes no clicks. Which buttons
  are there depends in part on what `get_front` said of the owner; the model offers them
  more often. Date and data of a layout, written by two commands, are one step.
- The models of the page have safety properties only: nothing in the page must happen
  without a click, and a lost save is not repeated.
- Redis executes a command or a MULTI/EXEC atomically, and the loss of a
  connection is seen as an error by its user.

## What is proved

By TLAPS, for every value of the constants (subject to the named ASSUMEs):

| theorem | says |
|---|---|
| `L2LinksProofs!TypeCorrect`, `LinksAreKnown`, `NothingDangles` | `TypeOK`, `LinkIntegrity`, `NoDanglingId` |
| `L2LinksProofs!StatusFollowsBothEnds` | `StatusExact` |
| `L2LinksProofs!NothingIsKeptUp` | `NoPhantomUp` |
| `DevRegistryProofs!TypeCorrect`, `EveryDevTracked`, `ConflictsAreSettled` | `TypeOK`, `DevsTracked`, `TakeoversAreJust` |
| `RedMutexProofs!TypeCorrect`, `NeverTwoHolders` | `TypeOK`, `MutualExclusion` |
| `IpDataProofs!TypeCorrect`, `ReadsAreWhole`, `ReadsAreSnapshots` | `TypeOK`, `WholeRead`, `ImplementsSnapshot`, under `Prompt` |
| `RedSubProofs!TypeCorrect`, `NeverTwoSubscriptions` | `TypeOK`, `OneSubscription` |
| `TurnPointsProofs!TypeCorrect`, `LineIsKept`, `NoEditRefused`, `WhatIsDrawnIsKnown` | `TypeOK`, `TpsAreOneLine`, `EditsNeverRefused`, `DrawnIsKnown` |
| `TurnPointsProofs!LegsFollowTheLine`, `EveryEndReachesTheLine` | `LegsAreFresh`, `EndsReachALine` |
| `LinkPathProofs!RecordsAreAPath` | `ImplementsLinkPath` |
| `MapStoreProofs!TypeCorrect`, `ItemsAreSafe`, `OwnComesFirst` | `TypeOK`, `SureIsStored`, `NothingOverwritten` |

How they go:

- **L2Links.** The argument is about stores, not about steps. A store is
  *consistent* when it has its type and integrity and absence of dangling ids hold
  of it. One lemma per operator shows
  that `Wiped`, `Discovered` and `CarriedOver` keep a store consistent; the
  lemmas on `Processed`, `Loaded` and `Relinked` follow, and a step of `Next` is
  a chain of them. Between `Discovered` and `CarriedOver` the new record and its lists
  are not yet in the store and the old links are undecided; `Midway` says what
  holds there. Besides consistency, the invariant says that rows name existing
  interfaces and that the second pass only visits known devices.
  For `StatusExact` and `NoPhantomUp` it is joined by `AllSettled`: each link between two devices
  has the status its two ends give it now (`StatusRight`), and is `Vouched` for: the device that
  made it still reports it as long as its data are the same, and it is up only as long
  as they are, or else it is in `stray`. A link is settled anew by the handler that
  discovers it and by the one that carries it over, and an operator that touches neither the link nor
  its ends keeps it settled.
- **DevRegistry.** `DevsTracked` is not inductive alone. What it lacks is
  `TasksReady`: a goroutine at `commit` carries data that were read, and one
  past `list` an address. Given that, each action keeps the entry of every
  device: `Store` wipes what its address held before writing a new id, and the
  clean-up removes a device together with its entry.
  Only `Store` gives a device a record (`OnlyStoreMoves`), and it moves one only after
  `Prevails`; what it writes to `dev_list`, if that arrives, is the pause of the loser (`StoreIsJust`);
  the writes that leave and move to the preferred address are other steps, which change no record.
- **RedMutex.** `LeaseBacked`: a client that may still count on its lock is the one the
  key names, and the key lives at least as long. So two clients with time left are
  one.
- **IpData.** Every step is a step or a stutter of `RedMutex`, so the lock's
  invariant is reused by `INSTANCE`, not proved again. Added are: who is in its
  section has time left (`InSection`, `HeldLive`, from `Prompt`), so nobody else is;
  saved keys and data agree (`SavedWhole`); the keys a reader has of the queue whose
  data it reads next are still those that are saved, and what it has of the
  others is whole (`ReadFresh`). For the implementation of `IpSnapshot` the
  invariant says more of a goroutine that reads: the queues that it has read are in its
  record as they are saved at this moment (`ReadCurrent`), because no worker can save while it holds the lock;
  and of a worker, that what it is about to save is later than what is saved
  (`GatheredLater`). Then an EXEC is `Put`, the return of `GetRawRed` without error
  is `Get`, and every other step forgets a view or changes nothing.
- **RedSub.** Once the goroutine is done the connection is down; the consumer
  subscribes anew only when it has waited for the goroutine.
- **TurnPoints.** The line is an existential statement: some sequence visits the points in
  order. For each edit the proof gives the new sequence (the old one with a point
  inserted or removed, turned round if the leg names the far device) and
  shows record by record that it is joined to its neighbours in it; the lemmas are about
  sequences and records, and no action appears in them. The invariant adds
  `ConnOK`: what is on the screen comes from records the page had and
  is there exactly if it may be drawn. The properties of the legs follow from it and
  from the sequence: the legs of the records are the segments between consecutive stops of the line
  (`LegsAreSegments`), these are all different, so they are one more than the points, and only
  the first and the last segment have a device at an end.
- **LinkPath.** A point cannot have two different neighbours on the same side, so two orders of
  the same points cannot differ at a least index (`OneOrder`); the mapping is thereby
  a function of the records. The lemmas on an edit (`InsertedLine`, `RemovedLine`)
  say which sequence the new records make, and uniqueness says it is the one the mapping
  gives. Saves and loads copy records, hence sequences.
- **MapStore.** The invariant `Fits` is about one page and what the broker has for it. `Agree` is
  `SureIsStored`, also for a page that is about to be told of a save. `EarlyFits`: a save that
  has not written yet carries the sure items as they are shown, both those in its part and those in what it has
  read, whichever other save read before or after it. `AloneFits`: a save that nothing crossed brings its
  part as it is shown, so its items become sure at the write. `LoadFits` and `HeardFits` say what a page
  that is loaded, or that shows the default, may rely on. The lemmas `...Fits` are about one page and
  have no actions; a step touches one page only, so `StepIInv` leaves the others alone.

Every invariant, every action property and both refinements that a passing run checks are
theorems. What they assume of the constants is named where the constants are declared: finite
bounds, values such as `NoTps` or `NoMap` that stand for "nothing" and are not taken for
something, a lease of at least one tick, different names for different
things; and `Prompt` where the table says so.

Only model-checked: the liveness properties `RemovedGoes`, `LockReturns`, `LeftoverGoes`,
`Resubscribes`, `StopReturns`. Liveness under fairness and ENABLED are out of the
prover's reach. So are induction over data and RECURSIVE operators, which is why the modules do
without them: `PathOf`, for instance, is a choice among sequences and not a walk over the records.

## Where code and intention differ

Each is a run that TLC refutes, with a trace through the code as it is.

1. **Write to a nil map** (`dr_crash`, process_ip.go:753). `read_devlist` runs
   before the lock is taken. An address added in between is swept although its handler is
   under way; that handler's next write to its entry is a panic that ends the
   broker.
2. **A stop that hangs** (`rs_full`, redsub.go:109). Closing the connection does
   not end a goroutine blocked in its send; `W.Wait` then never returns. In the
   broker only the five seconds that main waits (map-broker.go:954) end it.
3. **A change is taken back** (`ms_at_once`, http-ajax.go:1516). `remove_from_map` saves
   the place of the device and the turn points by two requests without waiting.
   Each handler reads the whole layout and puts it back with its part changed; the one
   that writes last has not read what the first wrote. The page is told twice that it was saved,
   shows the time as "Последнее сохранение", and comes back with the device, or with the points of its
   links, when it is loaded. The same happens to any two changes made fast enough;
   `SureIsStored` says which items are out of its reach.

Noted while reading and not the subject of a run:

- The clean-up wipes the id that the loser of a conflict keeps in `data.dev_list`,
  although the device lives at the winner's address (map-broker.go:903). It comes back with
  its next report.
- Two handlers of the two addresses of one device may each pause the other, because the
  list state is read before the lock (process_ip.go:885).
- The error of a failed EXEC is overwritten by the result of `Unlock`, and the save is
  announced as done (map-scanner.go:810).
- The read of `status_alert` precedes the lock, so a change of status may be alerted twice
  (process_ip.go:862).
- `Prolong` lengthens the key whoever holds it (redmutex:88; nobody in the repository calls
  it); the reload of graph rules tests `err` of an earlier call (map-broker.go:458);
  `wipe_dev` deletes from a hash `devs_list` that nothing reads (http-ajax.go:2315).
- Scanner: `mapper.queues` is written before the workers are stopped (map-scanner.go:1153), and
  workers that need more than ten seconds end the process (:1174). Grapher: `graph_sub` blocks in
  its send once `worker_sub` has left (map-grapher.go:178).
- A report that is processed after a later one of its address restores the rows it has without a
  new `last_seen` (process_ip.go:882), and the carry-over of the peer trusts them: a cable
  that was moved may stay up until the device has later data (`stray`).
- The pauses of a conflict and of a move to a preferred address are HSETs whose errors nobody
  reads (process_ip.go:897, 904, 917, 922, 1723, 1724). After a lost pause both addresses stay
  polled and the next report settles the conflict again; when the former address is paused and
  the HSET that starts the preferred one is lost, none of them is.
- Any answer to a save, also of a copy into another file, deletes `data["default_map"]`
  (mapper.js:5498), after which a page that shows the default layout sends single parts. `Copy`
  is in the model; without `NoCopies` TLC refutes `AnsweredIsStored` by it.
- "Clear" sends the empty layout and loads the page without waiting for the answer
  (mapper.js:5683): the page may come back with the layout that is cleared a moment later.
- Owner, date and data of the default layout are read and written by separate
  commands (http-ajax.go:1557): two users who save for the first time at once may leave the
  default of one with the other as owner.
- `rename_map` tests a plain HGET for ErrNil, which it does not return (http-ajax.go:1913);
  sharing a layout again leaves its first share (http-ajax.go:1962); `get_front`
  tests `dev0` twice where it means both ends of a virtual link (http-ajax.go:1253);
  `save_vlink` does not ask whether its ends are still there (http-ajax.go:2294).
- "Save" in the window of a virtual device takes ports away in the page's own record before the
  request is sent (mapper.js:9143); if it fails, nothing is taken back, and the link stays
  known and drawn to a port that is gone. So does a link whose `save_vlink` is answered after the port
  went: the page lists it at the end that is there, catches the exception at the other and draws
  it (mapper.js:9572-9600). `DrawnIsKnown` excepts just these (`adrift`).
- A port that such an edit adds has no place on the screen until the answer; `build_connections`
  throws at it (mapper.js:4216), so an edit of turn points meanwhile leaves links undrawn.

## What is not modelled

`PROJECT.json` (`components`) has the whole list with reasons. In short:

- `Decode`, helpers, configuration and connections: sequential conversions. Their
  results are the inputs the models range over.
- Layer-3 links, graph items, alerts, logs, neighbours: of the same shape as the links (`L2Links`)
  or write-only.
- The scanner's main loop and the SNMP jobs themselves; the grapher; rules: see the plan.
- Additional files and shares of layouts, which take the same handlers with
  another key, but for the copy into a file; virtual devices and links at the broker (their effect on the page is in
  `TurnPoints`).
- The page beyond the turn points and the layout: windows for devices, interfaces, rules,
  alerts, logs and graphs, layer-3 drawing, and all geometry. They build forms and HTML
  from what the broker sent and keep no state of which something could be wrong
  between two steps.
- `mapper_dev.js`, a copy of `mapper.js` byte for byte; jQuery UI, jsTree and
  dialog-collapse, which are third-party libraries. Most lines of JavaScript
  in the repository are in these files, so the share of all its lines that the models
  stand for is small.
- `Prolong`, which nobody calls.
- acl-gen, global-config and the command-line tools: one-shot programs without
  shared state. map-alerter is named in the repository's README
  and its code is not in it.

## Plan

Done: 1 `L2Links`, 2 `DevRegistry`, 3 `RedMutex`, 4 `IpData`, 5 `RedSub`, 6 `TurnPoints` with
its abstract specification `LinkPath`, 7 `MapStore`, 8 `IpSnapshot`, implemented by `IpData`;
all with their proofs.

| next | module | abstract statement or property | proofs |
|---|---|---|---|
| 9 | `ScanWorkers`: main loop, workers, `mapper.queues`, restart by community | one worker at most per address and queue; stops are answered | uniqueness |
| 10 | `Grapher`: `mainQueue`, two goroutines, cache | no update lost but by a full queue; stop ends both | bounds of the queue |
| 11 | `RuleEngine`: `resolveStack`, `MatchGraphIntRules` | equals a reference evaluation over bounded token lists | none (recursion) |
| 12 | `L3Links`: `l3_links` and parents | as `L2Links` | consistency |
| 13 | `Shares`: files and shares of layouts, virtual devices | one share per layout, no link without its ends | integrity |
| 14 | `Alerts`: status alerts of concurrent handlers | each change of status is told once | |
| 15 | a composition of `IpData` and `DevRegistry`: save, publish, process, with reordering | a device shows its last save eventually | |

Abstract specifications worth stating next: a lock with leases that `RedMutex`
implements; a layout per user, changed in one step, that `MapStore` would implement if a
page waited for its answers or the broker put parts in place in one command; a directory of devices by address for `DevRegistry`. The proof modules stay
at no more than eight; later modules that need fewer theorems share one.
