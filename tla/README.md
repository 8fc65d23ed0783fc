# A TLA+ model of ntrack

ntrack shares a phone's live location, end-to-end encrypted, with groups of
people over Nostr relays, and carries two emergency functions: a duress alert
("panic") and a check-in that raises the alert when it is missed. This directory
holds TLA+ modules of its logic, TLC configurations that check them on small
instances, and TLAPS proofs for every instance. Paths below are relative to the
repository; `engine.rs` is `core/src/engine.rs`.

## 1. Inventory

| Component | State | Operations | What is hard | What makes it correct |
|---|---|---|---|---|
| **Share, alert, check-in** (`engine.rs`, sending half) | `share`, `checkin`, `config`; what groups were told | StartShare, StopShare, Panic, SetAlert, ArmCheckin, Checkin, DisarmCheckin, Location, Tick, ResumeShareIfArmed | a handler writes up to three files, one after another, and the process may die between any two; a deadline lapses while the phone is off; a panic escalated by a headless engine | an alert the groups saw survives; what was stopped stays stopped; a missed check-in is acted on, after the grace window |
| **Configuration and sentinels** (`config.rs`) | `config.json`, `resume.flag`, `checkin.flag` | load, save, set sentinels, edit groups, relays, schemes | an unreadable file; files that disagree; relays that come and go with groups while the user edits the same list | the file follows memory; a group keeps its relays, the user's own are never taken; sentinels mirror the file |
| **Engine hosts** (`headless.rs`, `lib.rs`, `LocationService.java`, `BootReceiver.java`) | `HOST`, `UI_ACTIVE`, the service, `PLATFORM_TX` | boot, sticky restart, claim by the UI, handoff to the service, stop | two threads and a lock that is not held while an engine is shut down; engines that outlive their grace | one owner; its fixes reach it; a sharing UI that closes is succeeded; a service never runs on for nothing |
| **Receiver** (`engine.rs` receiving half, `protocol.rs`, `dedup.rs`) | replay window, tracks, history | incoming event, 60 s flush, restart | relays replay everything, newest first, to every new subscription; ids are on disk only now and then | the display is as new as what arrived, an alert is announced once, a STOP keeps the position of the latest broadcast or a newer one |
| **Relay pool and tasks** (`relay.rs`) | per relay: command channel, subscription, offline queue, connection | set_relays, publish, set_subscription, fetch, shutdown | sends and connections fail at any point; a relay is removed and added again while its old task winds down | events leave in order, once; the newest are kept; the subscription is current |
| **Track export** (`engine.rs`, `gpx.rs`) | pending exports | fetch, EOSE, timeout, GPX file | EOSE racing the timeout, relays that drop in between | every export ends, once, with what arrived |
| **Publishing cadence** (`engine.rs`, `config.rs`) | adaptive interval, last sample, presets and schemes | on_location, on_tick, set_alert, select, edit and delete a scheme | fixes with equal or older times, a GPS that stalls, schemes that change under a share | the interval stays in its window; no alert and no share goes silent |
| **Protocol, keys** (`protocol.rs`, `keys.rs`) | none | build and open events | cryptography, done by the `nostr` crate | an event is authentic or dropped |
| **Invites, QR** (`invite.rs`, `qr.rs`) | none | encode, parse, render | what is read is used later, when the form holds something else | an invite's relays go to its own group; who imports one meets the sharer |
| **Live map** (`map.rs`, `controller.rs`) | the view, the tile cache, fetches in flight | open, close, pan, zoom, fit, resize; tiles and tracks arrive | answers to an earlier opening; a cache at its limit; a centre beyond the edge of the world | the window is covered by its own tiles, and none waits for a fetch that is not on its way |
| **UI controller, simulator** (`app/src`) | view state, `after_permission`, `pending_invite` | user input, permission results, invites | late permission results; decisions on a snapshot that is out of date | a permission answers the request that asked for it; every share has its GPS or is given up |
| **Android bridges** (Java) | GPS session, permission dialogs, deep-link buffer | start, re-tune, stop location, ask for permission, scan, share a file | one looper that runs what several threads posted | the GPS runs for a share only, at the engine's rate |

The UI, or the headless host, owns one engine task and sends it commands over a
channel. The engine publishes through the relay pool (one channel per relay
task); the tasks send incoming events back into the engine's channel. The engine
tells its host by UI events to start or stop location, which also starts or
stops the foreground service. A dead engine hands over to the next one only by
the files on disk. The hazards this leads to are listed, with their lines and
the properties that would notice, in `PROJECT.json`.

## 2. Modules

| Module | Models | Run by |
|---|---|---|
| `ShareEngine` | share, alert, check-in, files, successive hosts of one engine | `MCShareEngine` |
| `ShareEngineProofs` | theorems about it | TLAPS |
| `Receiver` | replay window, tracks, notifications, history | `MCReceiver` |
| `ReceiverProofs` | theorems about it | TLAPS |
| `RelayTask` | one relay's entry in the pool and its successive tasks | `MCRelayTask` |
| `RelayTaskProofs` | theorems about it, the refinement included | TLAPS |
| `LossyChannel` | what the engine may expect of it: the abstraction `RelayTask` implements | `MCRelayTask` |
| `TrackExport` | exports, one-shot fetches and the relays that answer them | `MCTrackExport` |
| `TrackExportProofs` | theorems about it | TLAPS |
| `Cadence` | interval, due test, schemes, the alert's heartbeat | `MCCadence` |
| `CadenceProofs` | theorems about it | TLAPS |
| `Groups` | groups, invites and the relay list, from the tap to the config | `MCGroups` |
| `LiveMap` | the map's view, its tile cache and the fetches | `MCLiveMap` |
| `Lists` | filtering a list, for both | `MCGroups`, `MCLiveMap` |
| `ControllerProofs` | theorems about `Groups` and `LiveMap` | TLAPS |
| `Location` | permissions and the GPS session, from the tap to the platform | `MCLocation` |
| `LocationProofs` | theorems about it | TLAPS |
| `Ownership` | threads, lock, service and event sink of one process | `MCOwnership` |
| `OwnershipProofs` | theorems about it | TLAPS |

The modules meet at narrow seams and are checked apart. `Ownership` says when an
engine is started and told to stop and leaves its inside alone; `ShareEngine`
takes one engine at a time and looks inside it. Every event `ShareEngine`
publishes is one `Publish` of `RelayTask`; every event a relay delivers is one
`ReceiveNew` or `ReceiveAgain` of `Receiver`. `Cadence` is what `ShareEngine`
leaves open in `Location(publishes)`, and `Location` is the way its interval
takes to the GPS. `Groups` shares `Config` with `ShareEngine`: there the files
and the crashes, here the relays and the commands that lead to it.

### ShareEngine

The engine task runs one command handler at a time and no handler awaits, so a
handler's changes in memory are one action. Each file it writes is an action of
its own, because a crash may come between: `pc` walks from `"save"`
(`config.json`) to `"flag"` (`resume.flag`) to `"tail"` (what the handler still
does, `checkin.flag` included), and `job` names the handler. Nothing else happens
meanwhile but `Crash`. `cfg`, `share`, `checkin` are the engine's fields; `disk`,
`resumeFlag`, `checkinFlag` the files; `resuming` says that `ResumeShareIfArmed`,
which every host queues first, is still in the channel.

A deadline is stored as the time left, 0 for every deadline that has passed, so
`Elapse` ages memory and disk alike and the state space is finite without a
bound on time. Whether a fix is published at once is a free choice
(`Location(publishes)`): the cadence is not modelled here. Messages, labels and
relay lists are left out. A save always succeeds.

Four variables only observe: `raised` (the groups were told of an alert and
nobody took it back), `stopped` (a STOP was broadcast on request), `owed` (a
missed check-in is cleared on disk and its alert is not yet there), `graceLeft`.

### Receiver

`log` is chosen at the start: up to `MaxEvents` broadcasts in the order of
`created_at`, an event's id being its index. Sorting loses nothing, because any
event may be delivered at any time, in any order and any number of times.
Nothing is assumed of a fix's own time: senders broadcast whatever the platform
hands them, older fixes after newer ones included. The engine may stop or crash at any
point and start again with the ids that reached the disk. The groups a user holds
do not change. When two sessions tie for eviction from the history, either may
go: the code's choice depends on the order of a map's keys.

### RelayTask

`listed` is the task in the pool's map; removing the relay sends it a Shutdown,
adding the relay again starts a new task with a new number, and both may be alive.
`phase` follows `relay_task`: drain, connect, back off, resubscribe, flush, pump.
A send succeeds or fails, and a failure gives up the connection as in the code.
One-shot fetches are `TrackExport`'s. `live` is the relay's view of our
subscription; `sent`, `accepted` and `lost` only observe.

`ImplementsChannel` is the refinement: a task is a line of `LossyChannel`, whose
`pending` is the set of events in its offline queue and its channel and whose
`delivered` are the events `sent`. Events are numbered as they are published, so
that "the oldest" is the least. What the task does to them is `Accept`, `Deliver`
(the oldest, behind all that was delivered), `LoseOldest`, `End` or a stutter. A
failed live publish is a stutter, which is true only because the queue is empty then.

### TrackExport

The engine with its table of pending exports, and per relay the channel of its
task, the requests the relay has still to answer, and one inbox for all of them,
in which an answer's end follows its events. A relay may drop at any time (its
requests are gone, and nobody tells the engine), come back, never answer, or send
stored broadcasts nobody asked for. There are finitely many relays, or an export
could wait for infinitely many. Requests that find the task offline are
dropped (`OfflineFetch`). `Tick` ends the exports older than some; an export's
age is its number. Cryptography is abstracted to "the group's key is still held".

### Cadence

One share, seconds, and a device on a line. `since`, `age` and `quiet` are how
long ago something was, so states do not grow with time. A second passes
(`Wait`) once its tick has run; fixes come at any moment, new, re-delivered or
older than the last one. A scheme is chosen, edited and deleted under the running
share. `ActiveParams`, `AdaptiveInterval` and the clamping are those of the code
with whole metres; rounding is to the nearest, as `f64::round`. The schemes the
user made are a set: their place in the list decides only how they are shown.

### Groups

Three parties and two queues: the controller decides on its last snapshot
(`view`), its commands wait in `cmds`, the engine applies one to `config`, saves
it and sends a snapshot. The import form is apart from both: a scan or paste
stashes the relays (`pending`) and posts a closure that fills the field later
(`fills`), while the user may type something else. URLs are values with a
canonical form given by `Canonical`; an old config may hold them unnormalised.
`Keep` and `Without` (module `Lists`) are the code's `retain`; `NormalizeDedup`
and `PruneAutoRelays` are its loops, one URL or candidate at a time, as recursive
functions of how many were looked at.
`GroupShare`, `BuildInvite` say what the key dialog offers; reading it changes
nothing. A share is its recipients. `typed`, `dropped`, `retired` and `heard` observe.

### LiveMap

A gesture runs on the UI thread and takes the controller's lock twice: once to
change the view (`map`), once to mark and fetch what the cache lacks
(`RefreshMap`; `ui` says which is next). Between and after, tiles arrive on the
runtime's threads (`TileFetched`), loaded or failed, in any order and also after
the map was closed and opened again; `fetches` is a bag because one tile may be
on its way twice. Positions are whole pixels at the highest zoom. The Mercator
projection is linear in longitude and treated so; in latitude only its order and
its clamping are kept. Markers, pixels, colours, labels and the drawing are left
out; a peer that is too old to be live is one
that `OnTracks` moves to `Nowhere`.

### Location

Four queues: commands, UI events, the main looper's runnables, permission
results. The controller's handling of UI events and of permission results are
separate loops and interleave; the looper runs one runnable at a time. The
first fix of a session (`FirstFix`, from the OS's cache or later) posts a
relaxation to the session's own rate. Android allows one permission dialog at a
time and refuses a second one at once (`RequestForeground`). A permission is
never withdrawn: Android kills the process then, which is `ShareEngine`'s matter.
The foreground service may be refused when a session starts (`RunStart`); the
session then runs without. `ShareEngine`'s `service` is the service where Android
grants it: a headless engine has it already, since it lives in it.

### Ownership

Two threads: `android_main`, whose progress is `ui`, and the Java main thread,
on which the service's callbacks run. What a thread does under the `HOST` lock is
one action (`Claim`, `Start`, `TakesHost`); taking a host, sending it Shutdown
and waiting for its end are three (`victim`). The handoff clears `UI_ACTIVE`,
reads the sentinel and calls `start` in three steps, of which only the last holds
the lock. An engine that was sent Shutdown is `"stopping"` and may still write.
With `Timely = FALSE` its host may give up waiting before it has ended. Boot and
sticky restart are one action without a guard on the sentinels: `checkin.flag`
alone suffices for both, and this module does not follow it. `PlatformFails` is
the early return of `android_main`.

## 3. Runs

| Run | Instance | Shows |
|---|---|---|
| `share_engine` | 2 groups, a check-in and grace window of 2 units, reminder at half, all crashes | 9 invariants, `GraceBeforeAlarm`, `LapsedCheckinResolves` |
| `receiver` | 2 symmetric sessions, 3 events in 2 s, window of 2 ids, history of 1 point and 1 session, 1 restart | display, alerts, replay window, retained position and name, history |
| `relay_task` | 2 tasks on one url, 2 events, a queue of 1 | the channel, queue, subscription; the queue drains, a removed task ends |
| `ownership` | 6 engines, late ones included | one owner, its fixes, nothing stranded, the handoff |
| `track_export` | 2 relays, 3 broadcasts, 2 exports, an inbox of 2 | what is in a track, for whom it waits, that it ends |
| `location` | 4 taps, 2 changes of 2 rates, all permissions, the service granted or refused | the GPS follows the share and its rate; a tap is carried out or refused |
| `groups` | 3 commands, 2 texts of 4, 2 stored configs, a floor of 1 relay | relays and their provenance |
| `live_map` | 2 peers, 3 places, 2 windows, 2 zooms, 5 gestures or updates, a cache of 3 tiles | cache, fetches, tiling |
| `cadence` | 3 presets, 5 forms, 2 stored settings, 3 places, 2 edits, 2 alerts, 6 s of silence | interval and silence |
| `share_escalation_crash`, `ownership_overlap`, `groups_rotated` | smaller instances of the same modules | section 5 |

Why the bounds are enough for what is asked:

* *Two groups* separate "all groups", "the selected ones" and "none", and let a
  group be rotated into another. A countdown of two units has a first unit, a
  reminder, a last unit and a lapse. Restarts and crashes are not bounded.
* *Three events* are what the orderings need: one shown, one that arrives late,
  one replayed; with a window of two ids the third evicts the first. One point
  and one session of history make the count caps and equal times decide; the
  24-hour window never decides by itself at these bounds. One restart tells an
  id on disk from one lost; a further one repeats this.
* *A queue of one* overflows with the second event; two tasks are the old and
  the new one of a relay that comes back. (A queue of two and three events has
  been checked too: 1.2 million states, too slow to keep as the regular run.)
* *Two relays, two exports*: one that answers and one that drops, an answer that
  comes after its export timed out, and one export's answer during another.
* *Four taps* are a share, a stop, a second share and a panic, with a dialog in
  between; two changes of rate let one overtake a relaxation to the other.
* *Three commands, two texts*: two groups that share a relay and the deletion of
  one, or an import, a rotation and a re-import; the second text replaces what
  the first left in the form or the stash. `MIN_RELAYS` and `MAX_INVITE_RELAYS`
  are scaled down to 1 and 2 so that both decide.
* *Cadence* is scaled down (seconds for minutes, windows of one to five) so that
  floor, ceiling, every rounding and the alert's interval lie within six seconds,
  and a scheme's window can lie below, above and around the alert's interval.
* *The map* is a world of two by two or four by four tiles and a window that
  touches one or two of them; two drags leave the world on one side. A cache of
  three evicts during the third view; three openings, or two and a drag, put two
  fetches of one tile on their way. Symmetric peers are exchanged; no property
  of the run is a liveness property.
* *Six engines* are a headless one, the UI's, its successor and this once more,
  so that every overlap can happen while an earlier engine is still winding down.

`CHECK_DEADLOCK FALSE` stands where a bound stops the model (engine starts,
events, engines built, taps); `ShareEngine` and `Cadence` are checked for deadlock.

### What each property is about

* `DiskFollowsMemory`, `ResumeMatchesShare`, `CheckinMatchesConfig`: between
  handlers a restart would continue exactly what is running.
* `NoRevival`: after an explicit stop nothing brings the share back. It holds
  because StopShare disarms on disk before it broadcasts; the mutant swaps the
  two.
* `AlertSurvives`: an alert the groups saw is on disk and every successor resumes
  it, also when the selection was empty (emergency recipients).
* `UnreadConfigKept`, `ServiceWhileNeeded`: an engine on defaults does not write
  by itself, only for a command of the user; a headless share or countdown keeps
  the service that keeps it alive, and the service does not outlive its purpose.
* `GraceBeforeAlarm`, `LapsedCheckinResolves`: a deadline that passed while the
  phone was off gets its whole grace, and then is acted on.
* `DisplayIsNewest`: order of arrival does not matter to the event that is shown.
  `StopKeepsLastKnown`: whatever the order, a shown STOP keeps a name and a fix
  that is no older than the latest broadcast's. It is the newest fix of all when
  the sender's fixes were broadcast in their order (`FixesInOrder`); when they ran
  backwards, the order of arrival decides (section 5).
* `AlertNotSilent`, `RenotifiedOnlyForgotten`: a shown alert was announced by
  this engine or processed by an earlier one; a second announcement needs an id
  that was evicted or lost in a crash.
* `HistoryIsNewest`: inserting and pruning one by one is the same as sorting and
  pruning all recorded points at once.
* `ImplementsChannel`, `NewestKept`: a relay is a first-in first-out channel that
  loses only the oldest. The queue is empty whenever the connection is open,
  which is why a failed live publish may go to its back.
* `SubscriptionCurrent`, `OnlyListedRuns`, `RemovedEnds`, `QueueDrains`: across
  reconnects and a relay removed and added again.
* `SoleOwner`, `StreamFollowsOwner`, `NoStranded`, `HandedOver`: whatever the two
  threads interleave, one owner, with its fixes, that a service's end reaches,
  and a successor for a sharing UI.

* `Whole`: a track is what was recorded live and what the relays that answered
  hold, newest broadcast per fix, and nothing of another sender or group.
  `AwaitsReached`, `EveryExportEnds`: the count of open answers is right through
  drops and late answers, there is one file per export, and no export stays.
* `GpsOnlyForShare`, `TapsAnswered`, `RateFollows` speak of moments when all
  queues are empty. A share has its session, and the session the service unless
  Android refused that one. The last two name the ways out that the code has: a refusal
  that the controller sees before the snapshot (`overlooked`), a refusal of
  another request that takes the waiting panic with it (`declined`), and a
  relaxation that runs after a newer rate (`overtaken`).
* `ManualKept`, `ReachesItsRelays`, `ProvenanceHonest`: what the user added
  stays; what a group needs stays, whichever other group goes; a scanned
  invite's relays never end up with another group.
  `InviteRoundTrips`: the relays of an invite made here are the sharer's first
  ones, and importing it yields these, whatever spelling was on disk.
* `CacheSound`: no order of openings, evictions and late answers makes the two
  halves of the cache disagree (`IndexesAgree`), or leaves a tile waiting for
  nobody (`LoadingIsFetched`). `WindowTiled`: the window is covered by the tiles
  of its place on the globe.
* `IntervalSound`: no edit and no re-delivered fix takes the interval out of its
  window (`InWindow`) or off the ceiling (`ParkedRidesCeiling`). `NeverSilent`:
  an alert repeats without any fix (`HeartbeatOnTime`), and a share with a
  working GPS is not silent for longer than the longest interval that was in
  force (`SilenceBounded`).

### Fairness

* `ShareEngine`: a handler runs to its end, since it never awaits (weak fairness
  of the file steps). `tokio::select!` polls its ready branches in random order,
  so neither the tick nor the queued resume starves (strong fairness of `Tick`
  and `ResumeShareIfArmed`, which other handlers disable for a moment), and time
  does not stop (`Elapse`). Nothing is assumed of users, crashes or boots.
* `RelayTask`: the runtime polls every task; a connection attempt ends within
  `CONNECT_TIMEOUT`; `wait_backoff` sleeps until a fixed deadline however many
  commands it serves. No fairness on success: `QueueDrains` assumes, in its own
  premise, that a connection holds in the end. A send has no timeout in the code;
  the model lets it end, as the operating system eventually does, and `RemovedEnds`
  leans on that.
* `Ownership`: both threads are scheduled, the lock is never held while waiting,
  and the two waits (`SHUTDOWN_GRACE`, 300 ms) end by the clock. Nothing is
  assumed of the user or of Android's starting the service.
* `TrackExport`: the one-second tick comes whatever the relays do, so pending
  exports are all overdue at some time (weak fairness of `Tick` for the newest).
  Nothing is assumed of relays and connections.
* `LiveMap`: none. A fetch has no timeout, so that a tile comes at all is not
  claimed.
* `Cadence`, `Groups`, `Location` are about safety; time in `Cadence` passes only
  after the second's tick has run.

## 4. Proofs

Eight modules hold theorems, each for every value of the constants that its
module's assumption allows. The assumptions ask of the constants what the code's
own constants satisfy (numbers that are positive, an acquiring rate faster than
the others, windows that are not empty); TLC evaluates them on every run. Each
proof goes the same way: none of the properties is inductive, an invariant that
is says more, `Init` establishes it, every action keeps it, and it implies the
properties. What the invariants add is what the code relies on without saying it.

### ShareEngine

For any set of groups, any periods, any grace and divisor above zero
(`ConstantsAssumption`):

| Theorem | Property |
|---|---|
| `TypeCorrect` | `TypeOK` |
| `NeverRevived` | `NoRevival` |
| `DiskIsMemory` | `DiskFollowsMemory` |
| `ArmedIsShared` | `ResumeMatchesShare` |
| `AlertKept` | `AlertSurvives` |
| `CheckinPersisted` | `CheckinMatchesConfig` |
| `UnreadKept` | `UnreadConfigKept` |
| `ServedWhileNeeded` | `ServiceWhileNeeded` |
| `GraceComesFirst` | `GraceBeforeAlarm`, an action property |

The properties speak of quiet states only, and say nothing of the two files in
the middle of a handler, where a crash may strike. `IInv` adds what holds there:

* `Synced`: past the save the file is the memory, past the sentinel's write it is
  too; between handlers both agree if the file was ever read.
* `Hosted`: a handler runs only in an engine, and without one memory is empty.
* `Shared`: a live share is armed for resume with its alert until its stop
  begins, and what is armed either runs or waits for the queued resume.
* `StoppedOnDisk`, `RaisedOnDisk`: what an observer was told is what a restart
  would read.

`TypeStep` and `SynchronyStep` go through `Next` action by action. The actions
fall into four kinds (a share begins, an alert changes, a stop begins, everything
else persists with the arming kept), each with a lemma of its own. Three
invariants of their own, on top of that one, carry the rest: `Countdown` (the
check-in in memory is the one in `cfg` inside handlers too, and a grace window
still due is the running one, so that only its end escalates), `Unread` (an
engine on defaults is inside a handler only for the user) and `Serving` (whom the
service runs for, by host).

### Ownership

For any number of engines, timely or not (`OwnershipAssumption`):

| Theorem | Property |
|---|---|
| `TypeCorrect` | `TypeOK` |
| `OneOwner` | `SoleOwner` |
| `FixesReachOwner` | `StreamFollowsOwner` |

Its `IInv` adds at which phases of `android_main` the flag is set (`UiHolds`),
that the flag empties the slot (`ClaimEmpties`), and that an engine nobody waits
for any more had been told to stop (`Reached`, with `UiHolds` for the UI's own).

### RelayTask

For any number of tasks, events and filters and any capacity above zero
(`RelayAssumption`):

| Theorem | Property |
|---|---|
| `TypeCorrect` | `TypeOK` |
| `ListedRuns` | `OnlyListedRuns` |
| `Subscribed` | `SubscriptionCurrent` |
| `NewestStay` | `NewestKept` |
| `Refines` | `ImplementsChannel` |
| `SentInOrderOnce` | `Channel!Fifo`: sent in the order of publishing, nothing twice, nothing held that was overtaken |

The invariant speaks of one task at a time, and a step changes one task
(`OnlyTask`), so each action is a lemma about one. `InOrder` is the heart: events
grow along the queue, along the channel and from the one to the other, and the
queue is empty while the connection is open; hence the head of the queue, or of
the channel when the queue is empty, is the oldest event held. `Lifecycle` says
where the Shutdown of a removed task is, `FilterOnItsWay` that the newest filter
is the last one in the channel or the one the task has, `Accounted` that nothing
is held that was not accepted. `Refines` then maps each step to one of the
channel's or to a stutter. `SentInOrderOnce` is proved of the channel alone
(`ChannelKeeps`) and holds of the tasks because they implement it.

### Receiver

For any senders, broadcasts, clocks, caps and windows (`ReceiverAssumption`):

| Theorem | Property |
|---|---|
| `TypeCorrect` | `TypeOK` |
| `ShowsNewest` | `DisplayIsNewest` |
| `AlertsAnnounced` | `AlertNotSilent` |
| `NotifiedOnce` | `RenotifiedOnlyForgotten` |
| `StopRemembers` | `StopKeepsLastKnown` |
| `HistoryExact` | `HistoryIsNewest` |

`Windows` accounts for every id this engine or an earlier one has had: it is in
the window, or it was forgotten. `Displays` names the event a session shows and
says that it reached this engine and that none that did is newer; `Retains` says
what of the others a STOP carries, and `KeepsNewer` that an arriving fix never
makes that worse, in or out of order. `HistoryExact` is about a computation, not
about interleavings: inserting one point and pruning, over and over, leaves what
sorting and pruning all of them at once would. The lemmas say of a single point
whether it stays among others (`Stays`: near enough to the newest, and few enough
above it), that a point pruning has removed never counts against another
(`PrunedAgain`) and that therefore pruning commutes with inserting
(`MergedPruned`). That a finite set of times has a greatest one is taken from the
well-foundedness of the finite subsets.

### TrackExport

For any finite set of relays, any broadcasts, whatever each relay stores, and any
number of exports (`LogAssumption`):

| Theorem | Property |
|---|---|
| `TypeCorrect` | `TypeOK` |
| `WaitsAndShipsOnce` | `AwaitsReached` |
| `TracksWhole` | `Whole` |

`Requests` says that a request is at one place: in the relay's channel, at the
relay, or as an end in the inbox, and that it is unanswered there; so an end is
counted once. `Counts` relates the number an export waits for to the relays it
reached. `Brings` follows an answer: what a relay no longer has to send is
collected or in the inbox, and what it owes is ahead of its end; so what was
answered is collected (`Collected`).

### Cadence

For any presets with a window, any stored settings and forms and any place of the
device (`CadenceAssumption`):

| Theorem | Property |
|---|---|
| `TypeCorrect` | `Typed` |
| `KeepsToScheme` | `IntervalSound` |
| `HeardInTime` | `NeverSilent` |

`Interval` rests on every scheme in force having a window that is not empty,
which is what `Normalized` does to a stored one; `Silence` adds that the tick has
left nothing due behind it (`Caught`).

### Location

For any rates above the acquiring one and any number of taps (`RateAssumption`):

| Theorem | Property |
|---|---|
| `TypeCorrect` | `Typed` |
| `NoGpsWithoutShare` | `GpsOnlyForShare` |
| `EveryTapAnswered` | `TapsAnswered` |
| `SamplesAsPublished` | `RateFollows` |

The properties hold when all queues are empty; the invariant has to say what
holds before. It is that the last word on a matter is the engine's: the last
event about it on its way to the controller agrees with the engine's state, or
there is none and the last runnable does, or there is none either and the
platform does (`Coming`, `Done`). `OnPath`, `OffPath` say this of the session,
`RatePath` of its rate; `Deferred` follows a panic that waits for the permission.

### Groups

For any invites, any spellings of any relays, any number of groups, taps and
commands, and any config an older version may have left whose groups came from
invites and have a key (`GroupsAssumption`, `StoredAssumption`):

| Theorem | Property |
|---|---|
| `TypeCorrect` | the configs, saved, queued and shown (`Sound`), what is queued (`Queued`) and on screen (`OnScreen`) |
| `ManualRelaysKept` | `ManualKept` |
| `GroupsReachable` | `ReachesItsRelays` |
| `RelaysFromOwnInvites` | `ProvenanceHonest` |
| `InvitesRoundTrip` | `InviteRoundTrips` |

`Good` says of one config that it is sound, that what the user added is in the
list and not automatic, and that each group's relays are listed or dropped; every
operation on a config is a lemma that keeps it. It says nothing of the lag
between engine and controller, and need not: `Honest` asks of a queued import or
merge only what holds of it whatever the config has become meanwhile, that its
relays come from invites for its own key (`ImportHonest`, from the text in the
form and the stash of the same key).

The list operators are recursive functions, and what they return is proved
without an induction theorem. `LeastNumber`, from the well-foundedness of `<`,
says that a set of numbers has a least member, so a set that contains 0 and with
each number the next contains all of them (`UpTo`). With it, a function given by
its first value and a step exists (`Stepwise`), and what one step keeps, the whole
loop keeps: `NormalizeOneIs`, `PrunedOne` say what one turn of the loop does,
`NormalizeDedupIs` and `Pruned` what comes of all of them.

### LiveMap

For any peers, positions, zooms, windows, cache limit and clocks
(`LiveMapAssumption`):

| Theorem | Property |
|---|---|
| `MapTypeCorrect` | `MapTyped` |
| `MapCacheSound` | `CacheSound` |
| `MapWindowTiled` | `WindowTiled`, and `EveryPixelTiled`: the run looks at nine points of the window, the theorem speaks of all |

`MapInv` is the type of the state and `CacheSound`, which is inductive because it
counts the fetches in flight: a loading entry has one, whatever the map was closed
and opened since. A refresh marks the window's tiles one after another, each
perhaps evicting another; `MarkedIs` says what one of them does to the cache and
`RefreshedIs` what all do. The tiling is arithmetic about one quotient and
remainder per axis (`DivUnique`): columns and rows start at multiples of the tile
(`RowsCount`, `Spans`), the world wraps in columns (`WrapIs`), and so each point
of the window is in a tile of the list that shows that very place (`TilesCompose`).

### Model-checked only

Every liveness property (`LapsedCheckinResolves`, `QueueDrains`, `RemovedEnds`,
`NoStranded`, `HandedOver`, `EveryExportEnds`): the proof system does not reach
fairness. Every other property of a passing run is a theorem above.

No module has a recursive operator.

## 5. Where code and documentation part

Three of these have a configuration that checks what the documentation says, and
TLC shows a run of the code that contradicts it.

| Run | The text | What happens |
|---|---|---|
| `share_escalation_crash` | a missed check-in escalates "even across a reboot" (`README.md:31`) | a crash after the check-in is cleared on disk and before the alert is saved loses both |
| `ownership_overlap` | "exactly one engine may own the persisted config and publish at a time" (`headless.rs:21`) | a claim finds the slot just emptied by the service's `stop`, waits for nobody, and starts beside the engine being stopped, although every engine keeps to its grace |
| `groups_rotated` | "the old one stops working for new broadcasts. Do this whenever someone leaves the group." (`controller.rs:876`) | a running share keeps broadcasting to the old key until it is stopped |

Deviations met while modelling that have no configuration of their own. The
modules contain the behaviour; no property says the contrary.

* A panic is "deferred until location permission is granted"
  (`controller.rs:53`), but a second tap while the dialog is up is refused at
  once by Android, and that refusal drops the waiting panic; the grant then
  raises nothing (`declined` in `TapsAnswered`).
* Reopening the map drops stale entries so that they do not "hide tiles, while
  loaded imagery survives" (`map.rs:221`), but a fetch from before the reopening
  that fails late replaces the tile that was loaded since.
* The map opens "framed to show all current live peers" (`controller.rs:554`);
  peers that fit no zoom are framed by the empty middle between them.
* "OSM raster tiles with a coloured dot per live peer" (`app.slint:859`): beyond
  the 180th meridian tiles wrap around and dots do not. Dots are not modelled.
* The escalation's notice, "ntrack started sharing and raised an alert"
  (`engine.rs:1205`), goes out also when the panic finds no group or no usable key.
* `checkin.flag` "mirrors" the deadline (`config.rs:636`), but a crash between the
  two writes leaves it stale, and no start repairs it.
* "We never silently wipe keys" (`config.rs:663`): an engine on defaults saves
  them over the unreadable file with the next command of the user.
* "No duplicate alert notifications" (`docs/PROTOCOL.md:189`): ids not yet flushed
  are lost in a crash, and the replay notifies again (`RenotifiedOnlyForgotten`
  says exactly when).
* A STOP keeps "the most recent fix, so arrival order doesn't matter"
  (`engine.rs:1387`), but a sender may broadcast an older fix after a newer one
  (`on_location` publishes any fix). In order, the STOP keeps the fix broadcast
  last; newest first, it is filled in with the newest fix. `StopKeepsLastKnown`
  says what holds in any order.
* The foreground service "keeps the process and GPS alive while backgrounded"
  (`LocationBridge.java:208`), but a refused start is only logged, as "the app can
  still share while in the foreground" (`LocationBridge.java:234`), and the share
  goes on without it also when it began in the background, by a missed check-in.
* Delivery "must not move the display backwards" (`engine.rs:1312`): of two events
  of one second the earlier, arriving late, replaces the later.
* Scanning an invite again whose relays are all in the list already changes
  nothing, so its relays are not noted with the group (`controller.rs:1111`), and
  deleting another group may prune one of them. `ReachesItsRelays` speaks of the
  relays that were noted.
* Two taps on Import before the snapshot arrives import the group twice; deleting
  it then leaves its key on the device once more.
* A default relay the user removed and an invite brings back counts as automatic.
* A group held as send-only is not upgraded by importing its secret key.
* Import tapped before the scanned key has reached the form drops the stash.
* A scheme chosen during an alert leaves the interval outside its window when the
  alert is cleared, until the next measured fix (`held` in `InWindow`).
* A custom ceiling may be a day (`config.rs`), while receivers take a share for
  over after `SHARE_TIMEOUT_SECS`, an hour (`controller.rs:36`).
* The alert's interval, 15 s, is longer than the floor of the High preset, 10 s.
* A failed tile is "not retried until the map is reopened" (`map.rs:164`), unless
  it is evicted in between; and an old tile in the window may be evicted for a
  new one beside it, which leaves a gap until the next gesture.
* During an alert the GPS may go on sampling at the scheme's floor: the relaxation
  that the first fix posts runs behind the alert's rate.

## 6. Not modelled

* Cryptography and event encoding (`protocol.rs`, `keys.rs`): the work of the
  `nostr` crate; an event is authentic or dropped before it counts.
* The text of invites, QR codes, GPX, the pixels of map tiles, rendering: conversions and
  layout. The deep-link buffer, the scanner and file sharing of the Java side:
  input and output of the platform.
* Failing saves: the code logs them and goes on, promising nothing.
* The simulator and the desktop entry point.
* Android itself: its callbacks appear as actions of the hosts.
* Wall-clock jumps: time only goes forward here, while the code compares
  wall-clock times.

## 7. Plan

Done: `ShareEngine` and its proofs first (what is lost here is lost in an
emergency), then `Receiver`, `RelayTask`, `Ownership`, `TrackExport`, `Location`,
`Groups`, `Cadence`, `LiveMap` and the abstraction `LossyChannel`; then the proofs
of all of them.

To model, if it is wanted: saves that fail, the share's promise as an abstract
specification that `ShareEngine` implements, and the deep-link buffer.
