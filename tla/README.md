# HyphenOS in TLA+

HyphenOS is the runtime of an ESP32 field board: it reads a configurable set of
sensors, publishes their values over a cellular or WiFi broker, keeps what it
cannot publish on an SD card, updates itself over the air and has a hardware
watchdog behind it. This directory holds TLA+ models of its stateful parts,
TLC configurations that check them on small instances, and proofs for TLAPS.
Paths below are relative to the repository; line numbers are those of the
commit the models were written from.

    tlc -config MCDeviceRegistry.cfg MCDeviceRegistry     # one run
    tlapm DeviceRegistry_proofs.tla                       # one module of proofs

`PROJECT.json` lists the runs, the source lines each definition stands for, the
hazards of the code with the properties that cover them, and for each property
a mutation of the model that it catches.

## 1. The system

### Who runs

| activity | code | touches |
|---|---|---|
| main task: `setup()` once, then `loop()` for ever | `src/src/main.cpp` | nearly everything; cloud functions and subscriptions run inside it (`processor->loop` → `Hyphen.process`) |
| timer callbacks (RTOS timer task) | `bootstrap.cpp:41-84, 950-990`, `ota.cpp:103` | single flags that the main loop polls |
| watchdog feeder task | `src/src/system/watchdog/watchdog.cpp:86-118` | reads the stamps, pulses the pin |
| OTA task (one per accepted message) | `src/src/system/ota/ota.cpp` | `otaRunning`, the flash, `last_build_id`, the pause of the connection |
| interrupts | `flow-meter.cpp:191` | the pulse counter |
| camera worker (one per network camera) | `ip-camera.cpp` (`taskMain`) | its queue, the backoff, the tunnel |
| network task of the connection | `Hyphen.cpp:59-67` | the clock, when a reply to a time request comes |
| supply, card socket, card, network, operator | — | may act between any two steps |

The log flush task of the store is never started: `log` returns before it
buffers anything, because `LOG_TO_FILE` is true (`store.h:11`, `store.cpp:198`).
The Bluetooth console is compiled but returns before it starts anything
(`blue.cpp:141-143`), so every request of the operator arrives over the broker,
on the main loop, and runs to completion before the next.

### Components

| component | state it keeps | operations | correct when |
|---|---|---|---|
| DeviceManager, device table | `devicesString`, `devices[ONE_I]`, counts; slots in Bootstrap | `addDevice`, `removeDevice`, `clearAllDevices`, `strapDevices` | table, slots and what the operator asked for agree, through power cuts |
| DeviceManager, publisher | `storedRecords`, phase of one call | `publish`, `publisher`, `storePayload`, `recommendMaintenance` | nothing published is counted as stored, nothing stored is forgotten |
| DeviceManager, radio | `lowPowerModeSet`, `powerSaveMode` | `toggleRadio`, `radioUp/Down`, `offlineModeCheck` | a radio that is put down comes back, and goes down only when drained |
| PayloadStore | `popStorage.txt`, persisted pop position | `push`, `pop`, `popOfflineCollection`, `addBackOntoStore`, `resetStorageFile`, `countEntries` | a persistent FIFO: at most the record in hand is lost to a fault |
| SDCard | `initialized`, the mounted session | `init`, `ready`, `appendln`, `read`, `overwrite`, `countLines` | an ejected card is noticed |
| Watchdog | stamps, gating flag, feeder | `automatic`, `start`, `loop`, `heartbeat`, `productive` | a hang is reset within bounds; a healthy board is not |
| Start-up | attempts and waits | `DeviceManager::init`, `LocalProcessor::init` | fits into the boot grace |
| OTAUpdate | `receivedPayload`, `updateReady`, `otaRunning`, `last_build_id` | message, trigger, task, `downloadAndUpdate`, report | one update at a time; nothing stays suspended; the report is true |
| Bootstrap, addresses | `devices[]`, `deviceMeta`, both persisted | `registerAddress`, `addNewDeviceToStructure`, `clearDeviceConfigArray` | two devices never share an address, and keep theirs |
| Bootstrap, configuration and timers | `EpromStruct`, its copies in fields, flags | `buildSendInterval`, `setTimeZone`, `setLowPowerMode`, `restoreDefaults`, timers | a restart loads what the operator has set |
| Readings (Utils) | arrays of the callers | `insertValue`, `shift`, `getMedian`, `getSum`, `getMax` | windows stay sorted; what is reported is what its name says |
| Devices | windows of readings, settings, outputs | `init`, `read`, `publish`, `clear`, `loop`, cloud functions | no reading lost or doubled; outputs and their reports agree; settings survive |
| IPCamera and its tunnel | queue, backoff; states of a session | requests, worker, `startSnapshot`, `loop`, `stop` | a session belongs to its job; the worker comes back |
| Time | system time, `synced`, persisted time | restore, store, requests and replies | a time that counts as synchronised is; a restart has a time |

How they interact: DeviceManager owns Bootstrap, PayloadStore, OTAUpdate and the
processor by value or pointer and calls them directly. Callbacks go the other
way only through flags (`lowPowerReady`, `updateReady`, ...) that a timer sets
and `loop()` polls. Shared with other tasks are the watchdog's stamps, the OTA
flags, the camera's queue and the clock. What survives a restart is the
non-volatile store (slots, position, configuration, `last_build_id`, the last
time, the devices' settings) and the card.

### What is hard

* **Cuts between two writes.** Removal moves devices down with two writes per
  device; the file is reset in two; an update ends in two. No test of the
  repository interrupts any of them.
* **State kept twice.** The table and its slots; `storedRecords` and the file;
  the radio flag and its timer; `paused` and the task that paused; `isOn` and
  the relay's pin; every setting in RAM and in storage.
* **Tasks and flags without locks.** The feeder reads its clock before the
  stamps; the OTA task sets `otaRunning` long after it started; a message is
  parsed and cleared in separate steps.
* **Answers that come late.** A sensor's on the wire all SDI-12 sensors share, the
  cloud's to a request for the time, the camera server's after its job is over.
* **Wrapping clocks.** `millis()` wraps after 49.7 days on boards that are meant
  to run for years.
* **Things that must happen in the end.** The radio has to come back, the store
  to drain, an update to let go of the main loop.

## 2. The modules

| module | models | composes |
|---|---|---|
| `InstalledSet` | abstract: a set that grows and shrinks by one device | |
| `DeviceRegistry` | device table and slots | refines `InstalledSet` |
| `AddressRegistry` | addresses of the devices' own configurations | |
| `OfflineQueue` | abstract: records waiting, records delivered | |
| `PayloadStore` | offline queue over card and position | refines `OfflineQueue` |
| `PublishCycle` | publisher, offline check, radio, low-power mode | instantiates `PayloadStore` |
| `Watchdog` | stamps, feeder, chip, wrapping clock | |
| `Ota` | message, timer, tasks, flash, report | |
| `OtaWedge` | a download that never returns, beside the watchdog | extends `Ota` |
| `Readings` | arrays of readings: insertion, median, sum, last value | |
| `WlDevice`, `Sdi12`, `Accelerometer` | water level; sensors on the shared wire; sampling | the first two extend `Readings` |
| `FlowMeter` | interrupt, seconds, total | |
| `Relay` | pin, run time, inversion | |
| `VideoCapture` | serial camera: steps of a shot, cadence | |
| `IPCamera`, `Tunnel` | requests, queue and backoff; one job and its session | |
| `SoilSettings`, `Settings` | stored settings of the soil sensor and of the board | |
| `FieldDevices` | DeviceManager over one kind of device | extends the devices above |
| `Clock` | system time, stored time, requests for the time | |
| `*_proofs` | theorems about the module they are named after | |

The variables keep the source's names where TLA+ allows it; every declaration
has a comment that says which field it is. Variables commented *history* are
read by properties only and decide nothing; *external* ones are state of a
library or of the hardware.

### DeviceRegistry

A request that writes one slot (`addDevice`, removal of the last device) is one
action. A removal in the middle goes through `ShiftMove` (write the successor
into slot *i*) and `ShiftVacate` (blank slot *i+1*) alternately, as
`copyDevicesFromIndex` does, and start-up walks the slots with `StrapNext`; a
`PowerCut` may come between any two. `RemoveFault` and `ViolatesDeviceRules`
are the error paths. `damage` records which history took table and slots apart:
a cut in a removal leaves a duplicate or a gap, a clear leaves the slots, the
removal of the empty string leaves one device in its slot and out of the table.
Each property says which of them it survives. `KindsWithinLimit` allows
`Limit + 1` because the code compares with `>` before it adds. `RemoveFault` is
the removal of a stale name or of the empty string from a table whose count is
zero: the count wraps and the board faults, which the model treats as a restart.

`RemoveEmpty` is `removeDevice("")`: the empty string matches the first free
index, that slot is written again as free, and the count is lowered although
nothing was removed. The last device is out of every loop over the table until
the next start-up counts the slots anew (`Recounted`); a device added meanwhile
takes its slot (`Touch` then marks the table as edited).

### AddressRegistry

`registerAddress` is `RegisterKnown`, or `RegisterNew` (the entry) followed by
`RegisterCounted` (the count), with a `Restart` possible in between. Devices
start in any order, each time. Sums of characters are a constant function,
`MachineName`, that need not be injective; what a device stores is one
configuration with its author. A cleared device's object still lives and writes
where it was (`address` is kept by the clear).

Nothing compares the count with `MAX_DEVICES` where an entry is put.
`RegisterOverflow` puts one behind a full table: in the storage over the slot of a
configured device (behind `deviceMetaAddresses` the class keeps
`deviceConfigAddresses`; `lost` records whose slot), in RAM behind `devices[]`.
`getDeviceByName` does not look there, so the name registers anew at every start,
and the count, a byte, rises and wraps to 0. The first write behind `devices[]`
covers the timers, a further one the arrays of addresses: from then on (`Astray`)
an entry goes to any other entry's place, over the count or nowhere, and the count
may be saved elsewhere. `overrun` says whether any of this happened. From then on
the table is followed further, and what the devices make of their addresses is not.
The address a device stores with its configuration is assumed to be the one it
registered.

### PayloadStore and PublishCycle

`PayloadStore` counts lines where the code counts bytes. `push` is one step; a
pop is read, settle (advance the position, or truncate a file that is used up),
publish, put back, with cuts, ejections and failing reads and writes between
them. A cut between the two writes of `resetStorageFile` is counted as a fault of
its own (`torn`), because only that one repeats records. `MaxFaults` bounds how
many faults come in total, and every loss or repetition a property allows is
allowed by a fault that was counted.

`PublishCycle` runs the same store inside the publisher and adds the parts that
count: `records` is `storedRecords`, changed in four functions, and the radio
with its one-shot timer. The low-power timer is one-shot because `_repeat` of
the static `SystemTimer` is zero-initialised. The network is a session that
comes and goes and a number of failed attempts that a session resets; both
belong to the HyphenConnect library and are external. The operator's request to
change the mode can only arrive over a session. `autoLowPowerMode` reads a
battery and returns either of its outcomes.

### Watchdog

`Tick` moves the clock, modulo `Wrap`; the main task leaves stamps when it
likes or stops for good; the feeder wakes every `Period`, reads `_armed` and the
clock in one step and the stamps in a later one, in the order of the code; the
chip
resets the board after `HwWindow` without a pulse. The ages of what the stamps
stand for are kept as history beside them, so `HangIsBounded` compares wrapped
arithmetic with real time. The assumption `Wrap > timeout + HwWindow + 1` is
what the 32-bit clock gives the real constants with room to spare, and
`MaxBarren`, at which two ages stop counting, lies above everything they are
compared with.
`Productivity = {0, 13}` covers the builds without and with the backstop.

### Ota and OtaWedge

`Loop` consumes the trigger and creates a task, or none when there is no memory for
its stack (`Creates`): nobody reads the result of `xTaskCreatePinnedToCore`. `owed`
is the newest message until a task has parsed it; `dropped` says that it was thrown
away, by the `Take` of the task before it or with its trigger, and will not be
parsed. `Cools`/`cooled` abstract the 30 s of `retryInterval`; each task has a program
counter and the variables of `parseDetailsAndSendUpdate` and
`downloadAndUpdate`. The five exits of an update are
separate actions with the code's order of clearing `otaRunning` and resuming
the connection. `marker`, `next` and `image` are `last_build_id`, the image
selected by `Update.end` and the one that runs. `OtaWedge` adds a step that
never returns to see what the watchdog makes of it.

Assumed of the world: a parse and its first acknowledgement take less than the
30 s between attempts (the socket's own timeout is 20 s); messages do not keep
arriving within 3 s of each other for ever, which would restart the one-shot
timer each time. Signatures, HTTP and the list of hosts are abstracted to
"accepted or refused".

### Devices

`FieldDevices` gives the devices the calls the DeviceManager makes: `Read` and
`Publish` when the timers' flags say so, the clear that ends a publication,
`SetSendInterval` (which clears), `Restore`, the cloud functions, a `Restart` in
the middle of anything, and `DeviceStep` for what a device does in its `loop`,
its interrupt or its task. The manager treats devices one after another and they
share no state, so the board of a behaviour carries one `kind`; the sensors on
the shared wire are one kind. `Free` says that the main loop is not inside a
device: cloud functions and publications wait for it, interrupts and restarts do
not. A publication without a time publishes nothing and clears nothing. The
timers' flags, `haultPublication` and `resumePublication` are left out: they
decide when a read or a publication comes, and here it may come at any time.

* `WlDevice`: a read is a bounded sequence of pulses, of which the centre of the
  largest cluster is kept; the window is an array of `Readings`. A device that
  was added while the board ran may find in its window what was in memory, so
  claims about the window begin at its first clear. A calibration may be any
  number but 0; that none of its distances equals `NO_VALUE`, the number of a
  free slot, is assumed (`WlAssumption`), as a negative calibration could make one.
* `Sdi12`: each sensor of a publication in turn sends, waits and takes all that
  is in the buffer. Its answer comes in time, late, in two parts or never. Late
  ones stay `onWire` until they arrive, during the wait of another sensor or
  after it (`heard`). A drain may end in the middle of any answer, its own or a
  late one (`cut`); the rest is in the buffer before the next drain ends. That is
  an assumption on the sensors: an answer takes less than the 0.8 s that lie
  between the ends of two drains at least.
* `FlowMeter`: `Pulse` may run between the steps of `processRead`; the count is a
  byte. `missed` and `thrown` record the ways in which the code loses pulses. The
  volume counts one second's worth however long the loop took, as in the code.
* `Relay`: `started` is `startTime # 0`; one reading of `millis()` in 2^32 is 0,
  and then the run time never ends, which the properties except. Its age does not
  wrap: run times of 2^32 ms (4294967 s) or more and negative ones are outside.
* `VideoCapture`: the steps of a shot, each of which may fail. An empty picture
  fails between a head and an end that were sent, and leaves the client open. A
  setting is any number but 0; the code keeps it in RAM and stores its low byte,
  which is also the divisor (`Cadence`). A byte of 0 divides by zero: the exception
  restarts the board, at every publication.
* `IPCamera` and `Tunnel`: the first has queue, backoff and cadence (`Byte`, as
  above, but a stored 0 is loaded as 1) and takes any outcome of a job, the
  second has the outcome of one job after another:
  `_state`, the two connections, authentication, `OPEN`, data and the seven ways
  a session ends. A job whose time is over leaves the state that `start` later
  takes for its own (`StartStale`). `CamToServer` counts what the camera gave before
  it is sent, after a connection that was just dropped too: `got` says that the
  camera gave bytes, and nobody knows whether they arrived.
* `SoilSettings`, `Settings`: a cloud function changes a field and reads,
  changes and writes the stored structure. `restoreDefaults` of the other
  devices is empty, but for the accelerometer's offset of the temperature, which
  is not stored.

### Clock

`now` is the true time, `clock` what the board has. Start-up restores the stored
time, or seeds the clock from the build or from what a reset has left. A threaded
build asks by message: `Request` puts the time of asking into `replies`,
`Deliver` applies any of them, `Lose` loses one; `MaxDelay` bounds the age of a
reply that still comes, which is an assumption on the network. The other build
asks the connection once, at boot; connection, NTP and HTTP are taken to be
accurate, and `getLocalTime`, which is content with any time the clock has, is
taken as it is (a seeded clock may then count as synchronised; the properties on
accuracy speak of threaded builds). A store is two puts with a cut possible
between them. A clock that is not synchronised never reaches `endTimerCheck`,
which is left out.

## 3. What the runs check

Passing runs, about fifteen minutes together on two cores:

| run | states | properties |
|---|---|---|
| `device_registry` | 41 k | `StoredIsWanted` no cut and no empty removal loses or resurrects a device; `ActiveIsWanted` a board that is up runs exactly what was asked for, after a torn removal too; `TableMirrorsSlots` index by index, dense, no duplicates; `KindsWithinLimit` through start-ups that do not check; `WritesAreAtomic` a removal of many writes takes effect at one of them |
| `address_registry` | 3.0 M | `AddressesDiffer` two names never share an address unless they have one number; `AddressIsPredictable` the same at every start until a clear, cuts included; `OwnConfiguration` until a clear a device finds its own configuration; each as long as no name was put behind the table; `TypeOK` for what becomes of the table then: the count wraps, entries and count go astray, indices and addresses stay in their ranges |
| `payload_store` | 205 k | `FaultsAreContained`: the position stays in the file, a fault costs one record at most, only a cut between the writes of a reset repeats records; `WorksLikeQueue` without faults, a step of the store is a step of the queue; `EventuallyDelivered` |
| `publish_cycle` | 200 k | `WakeUpIsSure` a sleeping radio has exactly one wake-up and somebody who looks at it; `CountIsKept` the hand-kept count is the file's (going down sets it to 0, so the radio goes down only when all is sent); `RadioComesBack`; `EventuallySleeps` |
| `clock` | 106 k | `SyncedIsAuthoritative` what counts as synchronised, or was stored, is behind by a reply's delay at most, replies out of order included; `RestoredIsRecent` after a first whole store every start has a time, whatever cuts come; `EventuallySynced` |
| `devices` | 398 k | `ReadingsAreKept`: `WindowIsSorted`, `SamplesAreFirst`, `PulsesCountedOnce`, `LateSpoilsFew` a late answer spoils one reading, or two if a drain ends in its middle; `AnswersAreOwn` what a sensor publishes is its own answer of this publication as long as none was late or cut; `SessionsAreOwn`: `CameraOnlyInSession`, `OkIsOfThisJob`, `OneJobWasted`, `BackoffEnds`; `SettingsSurvive` six structures, any order of requests; `OutputsAreKnown`: `RelayReportsPin`, `CameraIsDark`, `ShotsInTime`; `WorkEnds`: `TimedRelayGoesOff`, `JobEnds`, `JobsAreTaken` |
| `watchdog` | 552 k | `HangIsBounded`; `SkipsAreExplained` no pulse is skipped without a cause; `OneRaceIsHarmless` the read race never resets a healthy board by itself |
| `ota` | 157 k | `OneUpdate`; `SuspensionHasOwner`; `ReportIsTrue`; `MessageIsConsidered` no message is forgotten but by the two ways that `dropped` records; `UpdateIsOver` |

Several conjunctions have more than one mutation in `PROJECT.json`, each of
which breaks another of their parts.

Runs that end in a counterexample, each against a sentence of the repository:

| run | the sentence | what the code does |
|---|---|---|
| `device_clear` | `clearAllDevices` "Clears the device table and Persistence data" (`device-manager.cpp:1050`) | the slots are not written; after a restart the devices are back |
| `address_overflow` | `setMetaAddresses` "Puts all the potential addresses into memory" (`bootstrap.cpp:547`) | the eighth name registered since the last clear is written over the slot of the first configured device |
| `wl_median` | `getMedian`: "Get the middle value or the value toward the zero index" (`utils.cpp:1192`), logged as "has median" (`wl-device.cpp:364`) | the water level passes `attempt_count`, which is always 0, for the number of values: the smallest of the window is published |
| `ota_wedge` | a download "that truly wedges stops heartbeating and the hardware watchdog resets the board" (`ota.cpp:323-326`) | the download has a task of its own; the main loop goes on leaving stamps |

Some exceptions in the properties above are behaviour a reader may want to know
of. A cadence that does not fit a byte is shown as it was set and loaded as its
low byte; what agrees is the cadence in use (`VideoOffsetStored`,
`SendOffsetStored`). A multiple of 256 makes the next publication restart the
board, and for the serial camera every one after it. The relay's `setInvert` is never stored
and is no part of `SettingsSurvive`. A success of the network camera rests on
bytes that were read, not on bytes that were sent (`OkIsOfThisJob`). After
`restoreDefaults` the time zone in use is the old one until the next start, which
loads another (`BoardSettingsSurvive`). A backoff of the network camera that spans
the wrap of `millis()` refuses jobs until the clock is back where it was, 49.7
days later (`BackoffEnds`).

### Bounds

* `device_registry`: three slots and four devices of two kinds (three of one
  kind, so that its limit is reached). Three slots are the least with a device
  that is moved after another one was; a fourth device makes the table
  overflow. Adding, removing, clearing and cutting are unbounded.
* `address_registry`: a table of two, four names of one size, of which two share a
  number, two registrations behind the table, a count modulo 3, one clear. The
  least in which an interrupted registration, an order of start-up, a mistaken
  configuration, an overflow, the wrap of the count and an entry gone astray all
  happen. The assumption that the storage has room for a full table holds for the
  real constants with a factor of ten.
* `payload_store`: three records, two faults, five lines. Two faults suffice
  for a fault during the recovery from the first; put-backs make the file
  longer than the number of records, up to five.
* `publish_cycle`: two records, two faults, three lines, thresholds 1 and 2 for
  silence and restart. The sequence of sleeping, waking and draining is not
  bounded. The store itself is checked further by its own run.
* `watchdog`: the constants keep the order of the real ones (period < liveness
  < grace < productivity, window more than two periods) and `Wrap` is just above
  what the assumption requires, so the clock wraps within every scenario.
* `ota`: one build, one message that is refused, two tasks, an image of one
  buffer. Two tasks are all that the interval lets exist in any state; messages,
  cuts and network changes are unbounded.

* `clock`: seven units of time from 2, two restarts, stores every 2, publications
  at most 1 apart, replies at most 1 old. A store, a cut in the next one, a start
  from the first and a reply to an earlier request fit into it.
* `devices`: windows of three readings with four reads between two clears (so
  that one does not fit), three pulses per read, two sensors on the wire and three
  publications, one value above and one below the sums' threshold; five pulses
  into a counter modulo 4 with a broken wire at 3; a buffer of two samples;
  offsets from -1 to 7 with bytes modulo 5, and 1 to 6 modulo 4 (settings that fit,
  do not fit, are negative, are a multiple of the modulus); a clock modulo 12, longer than the
  longest backoff; a queue of two; jobs and sessions of two units. Each counter
  overflows, each buffer fills and each timer expires within the bounds.

Deadlock is checked in every passing run but `clock`, whose time and restarts
end, and `devices`, where a kind of board whose requests are used up may have
nothing left to do.

### Fairness

* The main loop runs (weak fairness of its steps): it is scheduled by the RTOS
  and its calls return by their timeouts. Timers fire (weak).
* `PublishDone`, `PopSent`, `Publish` and `OfflineCheck` are strongly fair: the
  periodic timers request them again and again, and a link that is up again and
  again does accept a record in the end. Without it a network that fails at
  every attempt keeps the queue full, as it should.
* An update's task is weakly fair: 30 s without data end a download. `OtaWedge`
  drops exactly this assumption for a wedged task, and keeps it for the main
  loop, the clock and the chip.
* The clock: a board that is off starts, the timer `timeSync` fires, the main loop
  polls its flag, a store ends (weak). `Deliver` is strongly fair: of replies that
  are asked for again and again on a connection that stays, one arrives. A single
  reply may be lost, and any number of them.
* The devices: the main loop comes round to the relay, its seconds pass; the
  camera's worker takes jobs, pumps its session and reports (weak; the calls of
  the pump are non-blocking, the job has a time of its own). Nothing is assumed of
  the server or of the camera.
* Nothing is assumed of the operator, the supply, the card or faults.

## 4. What is proved

For every value of the constants that the modules' assumptions admit:

* `DeviceRegistry_proofs`: `TypeCorrect`, `SlotsAreSafe` (`StoredIsWanted`),
  `BoardRunsWanted` (`ActiveIsWanted`), `TableIsMirror` (`TableMirrorsSlots`),
  `KindsAreLimited` (`KindsWithinLimit`), `RemovalIsAtomic` (`WritesAreAtomic`),
  `UnclearedTableIsSet`: as long as nobody clears the table, nor edits it after a
  removal of the empty string, `Spec` implements `InstalledSet`.
* `AddressRegistry_proofs`: `TypeCorrect`, `AddressesAlwaysDiffer`
  (`AddressesDiffer`), `ConfigurationsAreOwn` (`OwnConfiguration`),
  `AddressesArePredictable` (`AddressIsPredictable`).
* `PayloadStore_proofs`: `TypeCorrect`, `FaultsAlwaysContained`
  (`FaultsAreContained`), `StoreImplementsQueue` (`WorksLikeQueue`),
  `FaultlessStoreIsQueue`: without faults `Spec` implements `OfflineQueue`.
* `PublishCycle_proofs`: `TypeCorrect`, `RadioWakes` (`WakeUpIsSure`),
  `CountAlwaysKept` (`CountIsKept`).
* `Watchdog_proofs`: `TypeCorrect`, `HangsAreBounded` (`HangIsBounded`),
  `SkipsAlwaysExplained` (`SkipsAreExplained`), `RaceIsHarmless`
  (`OneRaceIsHarmless`).
* `Clock_proofs`: `ClockTypeCorrect` (`ClockTypeOK`), `SyncedClockIsTrue`
  (`SyncedIsAuthoritative`), `RestoredClockIsRecent` (`RestoredIsRecent`).
* `Ota_proofs`: `TypeCorrect`, `UpdatesTakeTurns` (`OneUpdate`),
  `SuspensionIsOwned` (`SuspensionHasOwner`), `ReportsAreTrue` (`ReportIsTrue`).
* `FieldDevices_proofs`: `TypeCorrect`, `ReadingsAlwaysKept` (`ReadingsAreKept`),
  `AnswersAlwaysOwn` (`AnswersAreOwn`), `SettingsAlwaysSurvive`
  (`SettingsSurvive`), `OutputsAreAlwaysKnown` (`OutputsAreKnown`),
  `SessionsAreAlwaysOwn` (`SessionsAreOwn`).

That is every safety property of the passing runs. Two theorems have a hypothesis
beside the modules' assumptions. `RaceIsHarmless` assumes `HwWindow > 2 * (Period
+ 1)`: a chip with a shorter window may well reset the board for one race.
`AnswersAlwaysOwn` assumes `MaxVal > 1`: the code keeps 15 readings
(`MAX_SEND_TIME`); with one, what was in memory could move a value into the slot
behind the array, which no clear empties.

The inductive invariants were checked by TLC before they were proved.

**The table.** `StoredIsWanted` says nothing of where a device is stored, so it
does not survive a step of a removal. `IInv` adds `Control` (cursor and count in
each mode), `Shape` (which slots are occupied: a prefix, but for the one below
the cursor of a removal), `Unique` (no device twice, but for the pair a removal
is moving, so blanking one of the two loses nothing), `Mirror` (the table
follows the slots but for the index in work) and `Strapped` (a start-up has
built exactly what it has read). `Shape`, `Unique` and
`Mirror` are conditional on `damage = "none"`; `Contents` and `Strapped` carry
the two claims that hold for a torn table, and `Emptied` what holds after a
removal of the empty string: names and slots still agree, and only the count is
off. The step proof has one step per action and conjunct, with a lemma
for what one write does to the set of stored devices. `KindsWithinLimit` is about
the table, which a start-up fills without asking `violatesDeviceRules`; the bound
is carried by the set of wanted devices, which only an accepted addition extends,
and reaches the table through the properties above.

**The addresses.** Entries are put one behind the other, so their addresses grow
with their index (`Table`) and no two are equal. That the next one lies behind
the last needs the last to be in range (`MaxAddressIndex` looks at no other):
`Placed` bounds entry *i* by *i* entries of the largest size, which the storage
holds. `Adding` describes a registration between its two writes, `Given` that the address
of a name is found in its entry. `Kept` says that until a clear the devices write
where they were last given, from which `OwnConfiguration` follows. All this holds
until an entry is put behind the table; ranges (`TypeCorrect`) hold beyond, and need
that the choice of a last entry and of a first match is one of the table.

**The store.** A record that a fault costs is often lost only later, so the number
of lost records is not inductive. `Missing` is what no run without further faults
would deliver: neither delivered, nor behind the position pop will leave, nor in
hand with a card to go back to. It grows by one at most with each fault and by
nothing otherwise, and what is lost is missing. `Control` says what pop knows at
each of its steps, `OnePlace` (for cuts only) that a record is in one place. For
the queue, `OnePlace` makes a push one insertion, an advance no change and a
publication one delivery of the record that was waiting.

**The radio.** `RadioInv` adds that radio silence implies a radio that is down,
that a radio that is down has no session (so no request can set the mode to 0
under it) and that `recommendMaintenance` is only reached with the radio up.

**The count.** `Room` is the number of lines that no pop has taken and the record
in hand, if it has a card to go back to. As long as no read has failed the count
is at most `Room` and one for each fault of the card; without a fault and without
radio silence it is `Room` (`Counted`). Between two calls there is no record in
hand, and `Room` is what `countEntries` would count. The store inside is
`PayloadStore`, whose invariants and lemmas are used by `INSTANCE`.

**The watchdog.** A stamp tells the age of what it stands for, modulo `Wrap`, as
long as that age stays below `Wrap`; and it does, because being fed keeps it
within its timeout and the time since the last pulse (`BeatAge`, `BootAge`,
`BarrenAge`), which the chip bounds. The two hold each other up and are proved as
one invariant. `Unfresh` and `RacesTake` account for the tick between the reads of
the feeder: a stamp that is not fresh is as old as the reading of the clock, and a
race takes a tick. `Patience` then bounds the time since the last pulse by a
period when nothing was skipped and by two periods and a tick after one race,
which is less than the window.

**The clock.** `SyncedIsAuthoritative` is not inductive: that a synchronised clock
is recent needs `Sources` (every reply on its way is recent and nothing is ahead
of `now`), and that a stored time is recent needs `Aging`: no time goes by during
a store, the stored time was put at `lastStore`, and the last publication found
that store younger than `Interval` or made a new one. `Kept` says what a cut
between the two puts leaves: a time in storage, valid if one was before.

**Updates.** `TurnInv` says that while the interval has passed no task is before
`otaRunning`, and that `running` holds exactly while a task is past it: a second
task would have had to start in between. `PauseInv` names the program counters
that hold the pause. `ReportInv` relates marker, next image and the build of the
task in each of the states between the two writes.

**The readings.** `insertValue` and `shift` are proved once, for an array of any
length: the order is kept (`InsertShifts`) and, by a bijection between the slots
before and after a shift, every value but the new and the dropped one is held as
often as before (`ShiftCounts`). From that follows how often a value is in the
window of the water level. The pulses of the flow meter are related modulo the
width of the count; late answers that no reading has taken are on the wire or in
the buffer, each was counted when it became late, and the rest of one that was cut
when the drain ended (`LateInv`). That a sensor publishes its own answer rests on
`TurnInv`: until its turn comes its array is as the last clear left it, with
nothing in the slot behind it; one value inserted there is the first, and the
median, maximum or sum of one value is that value or a failure. That the centre of
the largest cluster is one of the pulses (`TypeCorrect`) needs that a largest
cluster exists and fits behind its first sample.

**The devices.** `StepOfOne` splits a step of the board into a step or a stutter
of each device, so that each has an invariant of its own. A cadence holds because
what has waited is at most the remainder of the count (`WaitInv`): a count that
goes on raises the remainder by one or ends at a shot, and the wrap of the count
is a multiple of every setting. A refusal ends because what remains of it and
what has passed never exceed `MaxBackoff` together until the clock wraps
(`Remaining`). A job of the camera's worker waits, starts, pumps its own session
or finds the remains of another (`TunnelInv`); remains can only be a session that
was stopped, and are found before any time goes by, which is why they cost one
job and not two.

Model-checked only: every liveness property (`EventuallyDelivered`,
`RadioComesBack`, `EventuallySleeps`, `EventuallySynced`, `WorkEnds`,
`MessageIsConsidered`, `UpdateIsOver`), since liveness under fairness is out of the
prover's reach. What the recursion of `getSum`
computes for more than one value would need induction over data: only its first
step is proved (`SumOfOne`), which is all that the sensors use.

## 5. What is not modelled

* HyphenConnect, the broker, TLS and HTTP are libraries; their sessions are
  external variables. What a message says is a model value.
* Parsing of the sensors' answers and of cloud requests, formatting of payloads,
  logging, certificates, Bluetooth, the heartbeat: no state that others share.
* `paramsCount`: `setParamsCountCallback` adds to the sum of the start-up at every
  addition and a removal does not lower it (`device-manager.cpp:823`). It decides
  only when maintenance is recommended, which `PublishCycle` leaves open.
* The duration of a start-up without a network. In the build without
  `HYPHEN_THREADED` five attempts of 30 s with their backoff take 160 s
  (`device-manager.cpp:149`), more than the 120 s of the watchdog's grace; the
  example build defines the macro.
* Whatever a table of addresses that overflowed does to the timers it overwrites;
  run times of a relay of 2^32 ms or more, and negative ones.
* A request for a snapshot that a full queue or a backoff refuses is forgotten,
  although a comment (`ip-camera.cpp:158`) expects it to be tried again; the model
  forgets it as the code does.
* Devices that keep nothing between two calls (battery, turbidity, GPS), the rain
  gauge, whose interrupt is commented out, and the address change of an SDI-12
  probe.
* A power cut in the middle of one write of the non-volatile store: NVS writes
  an entry or not. An append to the card is atomic as well: the line is there or
  it is not (a write that fails is a fault of the store).
* What a device's stored configuration says, where `AddressRegistry` is about
  whose it is.

## 6. Plan

Done, in the order of importance: the device table with its abstract set; the
registered addresses; the payload store with its abstract queue; the publish
cycle that composes it; the watchdog; updates; the devices under the manager, with
their readings, sessions and settings; the clock; and proofs of every safety
property the runs check.

Next:

1. `AddressRegistry` composed with `DeviceRegistry`, so that a start-up registers
   in the order of the slots and an overflow takes a slot away.
2. The flags of the publication and read timers with `haultPublication` and
   `resumePublication`: no tick is lost for good.
3. The median of a window as a theorem: in an ordered window without gaps
   `getMedian` over the number of its values is the middle one.
