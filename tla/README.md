# Sidewalk Web BLE demo: TLA+ models and proofs

The repository is a Flask service (one gunicorn worker, many threads) and a
browser dashboard for nRF54 Sidewalk development kits. The service owns a
SQLite database, an MQTT bridge to AWS IoT, a forwarder of Memfault chunks and
server-sent event feeds; the dashboard talks to a board over Web Bluetooth or
serial, provisions it, flashes it and shows what it sends. Two flashing pages and
a command-line tool write firmware through a debug probe. This directory holds
TLA+ modules of the parts whose correctness depends on interleavings, failures
and restarts, the TLC configurations that check them and TLAPS proofs.

Source paths below are relative to the repository. `PROJECT.json` maps every
definition to its lines.

## 1. Inventory

| component | source | state | operations | hard |
|---|---|---|---|---|
| automatic provisioning | `app.py:573-663`, `storage.py`, `iot.py`, `memfault.py` | reservation table, device rows, access rows, the process-wide lock; devices at AWS, registrations at Memfault | one POST in about ten steps; retries; administrator's import, assign, permission | crash or lost answer between any two steps, late execution at AWS, concurrent requests, failures that every retry meets again, other handlers on the same tables |
| Memfault chunk queue | `memfault.py:200-346`, `storage.py:728-925` | `memfault_chunks`, `memfault_device_health`, one worker thread | enqueue with dedupe, take, POST, mark, retry | redelivery, lost and late answers, worker cut off before it records the outcome |
| event feed | `iot.py:299-373`, `app.py:1250-1300`, `static/app.js:2298-2363` | event history and ids, listener queues, page cursor | publish, open, yield, reconnect, choose a device | publishers race outside the lock, queue overflow, ids restart with the process |
| administrator feed | `static/admin.js`, `app.py:1355-1458`, `storage.py:430-531` | message log, rendered rows, `newestId` | backfill, live row, filter, trim | two sources merged without a common order |
| MQTT bridge | `iot.py:376-811` | topics wanted and subscribed, connection, sequence numbers | sync, subscribe, resume, send | a record of subscriptions that outlives a lost session and a replaced connection, callbacks on the loop they wait for |
| browser provisioning wizard | `static/provisioning.js`, `provisioning.py` | step, pending wait, busy, confirmed overwrite | connect, write script, verify, automatic setup | disconnects in the middle, late replies, two flows at once, comparisons that need an SMSN on both sides |
| BLE and serial transport | `static/app.js:1835-1996, 2598-2918, 3410-3454` | connection generation, command queue, log batches | connect, disconnect, send | commands queued for a board that was replaced |
| provisioning images | `provisioning.py` | none | TLV, fragments, Intel HEX | lengths and 64 KiB boundaries |
| accounts and access | `app.py`, `storage.py:199-371, 692-712` | users, sessions, access rows | login, permission, assign | streams keep the rights they opened with |
| administrator device creation, certificate upload | `app.py:759-791, 1042-1100` | device rows, artifacts | create, upload, refresh | a device left at AWS when a later step fails |
| flashing tools | `static/webusb-firmware.js`, `npm-dapjs-app/src/main.js`, `flasher/flash_nrf54_cli.mjs`, `static/app.js:732-1470, 3170-3282` | the parsed image, the probe session, busy flags and buttons, what the tool shows; the chip's memory, protection, write mode and flash algorithm | choose a probe, erase, program, verify, reset, recover | a transfer that fails or a probe that is unplugged at any step, a file of overlapping or partial words, the console's second operation on one session |
| sensor charts | `static/sensors.js`, `static/app.js:1502-1532, 3096-3145`, `app.py:104-125, 1536-1595` | readings drawn, range, device, requests under way | history answer, live reading, choice of device or range | two unordered sources, answers that are not compared with the choice that stands |
| Memfault panels | `static/health.js`, `static/memfault_analytics.js` | device, last health, poll timer, early refresh | activate, leave, poll, nudge | late answers for another device, a timer that only the first answer sets |
| drawing | `ui.js`, templates | none | draw | none of protocol |

The components meet in few places. Uplinks reach the MQTT bridge, which
publishes them to the event broker; the broker's hooks write the message log,
the sensor history and the chunk queue before the listeners are served. The
wizard calls the automatic provisioning endpoint, which fills the tables that
every other handler reads. The administrator's pages change those tables while
the endpoint works. The browser that holds a board's link sends what the board
prints to the service, which stores it for the administrator's feed. The charts
and the Memfault panels follow the dashboard's choice of a device, each in its
own way. The flashing tools meet the rest only in the chip.

What makes each of them correct, beyond the types:

* automatic provisioning: one AWS device per board and never one nobody can
  find again; a reservation keeps its user, token and device; an existing row
  keeps its owner; a 200 means that everything was done; retrying ends in a 200
  unless a cause stands in the way that no retry can mend.
* chunk queue: no repetition within the window; recorded outcomes are true and
  final; the copies Memfault may get are bounded; every chunk settles.
* event feed: an event is missing, repeated or out of order on a page only for a
  cause that can be named; everything else surfaces.
* administrator feed: a message of the log is rendered once, and none is skipped
  while the page is connected, but for causes that can be named.
* charts and panels: at rest they show the selected device and no other; a panel
  that stays on the screen catches up with its device.
* shell log: lines are stored at most once, in order, under the device that
  printed them, and none is left waiting for nothing.
* flashing tools: "complete" means that the chip holds the file that is named,
  whatever went wrong on the way; a failure has a cause; nothing is written that
  the file does not ask for.
* MQTT bridge: every wanted topic ends up subscribed on the connection in use, and
  what the bridge takes for subscribed is; importing the application ends
  whatever the broker does.
* wizard: credentials are only written to the board that was checked; a board
  never mixes two devices' values; what the wizard reports is what happened.
* transport: a queued command never reaches another board.
* images (planned): what is written parses back to what was meant.

## 2. Plan

1. `AutoProvision` with `BoardSetup` above it, its liveness instance and its
   proofs. Done.
2. `ChunkQueue` and the proofs of its safety properties. Done.
3. `EventBroker` and the proofs of its safety properties. Done.
4. `BoardProvisioning`: the wizard, automatic setup and the boards, on one link.
   Done; its seven properties are proved.
5. `TopicSync`: the listener thread, the request threads and the connection, and
   the proofs of `RecordIsTrue` and `NothingForgotten`. Done.
6. `HexImage`, `FlashTarget` and one module per tool (`PageFlasher`,
   `NpmFlasher`, `CliFlasher`, `ConsoleFlasher`), composed in `FlashTools`. Done;
   its four properties are proved.
7. `AdminFeed`, `BleLogUploader`, `SensorCharts` and `MemfaultPanel`, put
   side by side in `WebPages`. Done; its four invariants are proved.
8. `MfgStore`: the image algorithms of `provisioning.py` (TLV, fragments, Intel
   HEX) as functions against reference definitions.

Abstract specifications worth stating: `BoardSetup` (done); a chunk that is
delivered at least once and at most a stated number of times. The modules that carry
proofs use no RECURSIVE operator, keep their rows in functions over a finite set
of ids, and put the invariant as a conjunction of named parts. Where the code
sorts or filters by id they say `InOrder(S)` (module `Listing`: the one increasing
list of a finite set of numbers) of the set that is meant: the proof system has no
facts about the library's `SetToSortSeq` and `SelectSeq` and cannot expand them.

## 3. Modules

### AutoProvision

One action per step of `automatic_provisioning()`: a step is one database
transaction or one call to a cloud. `pc[r]` says where the thread of request `r`
stands; `rUser`, `rKey`, `rToken` and `rWid` are its locals (`user`, `key`,
`reservation["request_token"]`, `created["id"]` or the device's id).
`reservedBy`, `token` and `linked` are the columns of `automatic_provisioning`,
`records` and `access` the `devices` and `device_customer_access` tables,
`profiled` the rows with a `device_profile_id`, `artifacts` and `bad` the rows whose
stored certificates `mfg_store_values` accepts and rejects. `environment` is what
the process was started with: nothing, Memfault's settings, or AWS's values for a
new device too. `sent` and `aws` are the calls AWS was
sent and the device it holds per ClientRequestToken; AWS may execute a call after
the thread has given up on it. `registered` is Memfault's side.

* `Interrupted` and `MemfaultResponseLost` are the exceptions that pass, at every
  step under the lock. `NoProfile` (`app.py:323`), `Validate` of rejected
  artifacts (`app.py:646`, which stay cached) and `MemfaultUnconfigured`
  (`memfault.py:110-124`) are those that every retry meets again. `SyncHangs` is
  `_sync_topics()` that waits for ever under the lock, as `TopicSync` shows it can.
  `Restart` ends all threads, frees the lock and may change the environment. A
  refused or failed request leaves its thread `idle`.
* `SetPermission`, `AssignDevice`, `ImportDevice` (with or without a profile, with
  good, bad or no artifacts), `UploadCertificate` and `LoadElsewhere` are the other
  handlers that change the same columns. `LookupBegins` and `LookupEnds` are
  `GET /api/device-identity`, which writes two columns back as it had read them
  before it asked AWS; `overwritten` names the rows that lost artifacts to it.
* AWS (`AwsCreates`) is external: a token is executed at most once, which is
  what a ClientRequestToken is for.

`BoardSetup` is what the endpoint promises, without threads, tokens or failures:
a board is claimed by one user, then made once, then bound to what was made. The
refinement mapping reads `owner` from the reservation, `made` from the device AWS
holds for its token and `bound` from its device column.

### ChunkQueue

The columns of `memfault_chunks` are functions over row ids; time is relative
(ticks of age and wait). `TakeNext` reads the oldest due row and starts its POST;
`wire` holds POSTs that have not arrived, `taken` what Memfault accepted, in
order. `PostFails` covers an error status, a connection error and a timeout, so
the POST may be gone or still on its way. `Abort` is a restart or an exception in
the middle of an iteration: nothing records the outcome.

### EventBroker

`log` holds every event of the current server process; the history is its last
`Backlog` entries. `publish()` is `Publish` (under the lock) followed by one
`Put` per listener of the snapshot, or `PutFull`, `Evict`, `PutAgain` when the
queue is full: three steps, because others use the queue between them. `Open` is
the request with `since=<cursor>` together with `open_stream`, atomic because the
listener is added and the history read under one lock. `YieldHistory` and
`YieldLive` are the generator, `Receive` is `onmessage`, `Cut` is `onerror`, and
`Choose` is `connectEventStream({ resetCursor: true })`.

### BoardProvisioning

A flow is one run of `handleConnect`, `startWrite`, `handleReconnect` or
`autoProvisionConnected`, or the attachment of a board (`connectBleShell`,
`connectSerialShell`) that may turn into automatic setup. JavaScript runs one
flow at a time between two awaits, so an action is the code from one await to
the next: `flow[f].at` says at which await the flow stands and the other fields
are its locals. `Quiet` gives a settled promise precedence over timers, buttons
and events, as the microtask queue does. `page` holds the module variables of
`static/provisioning.js` and `wait` is `pendingWait`; `link` is the connection
of `static/app.js`, `inbox` the notifications on it, and `valid` stands for a
`bleTransportGeneration` that has not changed since the command was handed over.
`mfg` is the manufacturing page of each board.

* `LinkLost` is `resetBleShellState` followed by `onBleDisconnected`; `Drop`,
  `UserDisconnect`, a new attachment, a failed automatic setup and a
  verification round all go through it, as in the code.
* `Fail` gathers the `catch` blocks, by kind of flow; `Closed` is the last await
  (a report) and the `finally` block.
* `Sent` resolves `sendBleCommand`: the board executes the line and answers, or
  the answer is lost or negative. `SendFails` is a rejected write, whose line
  may have arrived all the same.
* `UserStep` holds the buttons; they are enabled by what `render` and the
  handlers ask for and by nothing else, which is why several work while a flow
  runs.
* `loose` is a history variable: the flows that no longer have the page to
  themselves, because a disconnect gave it back, or a new link was made, while
  they were running (`Loosened`). A flow that starts in the slot of one that has
  ended is another flow. The code's promises about reports and overwrites are
  about the others; the two `violation` runs show what a loose automatic setup
  may do.
* `misled` is a history variable of a flow: an event that answers another line
  settled the wait of its script (`Misleading`). An event names the value it is
  about but not the attempt: an answer that comes after its timer, or the answer
  to another script's line, settles a later wait for the same value, whose line
  may not be written yet. The properties that say what a script has achieved
  excuse a script that was misled.
* `link.read` says that the flow that asked last who the board on this link is
  had the page to itself.
* `page.filed` are the devices whose SMSN the page knows. The server has none for a
  device without a usable wireless device JSON (`Unfiled`, `app.py:246-255`), and
  automatic setup files its own (`CloudReady`). `Nameless` is the answer of a
  provisioned board that names no SMSN. `Mismatch` is `seen && expected && seen !==
  expected`: without one of the two there is no mismatch, so the wizard announces,
  overwrites and verifies any provisioned board (`WizardRead`); automatic setup asks
  for both and for equality (`Verified`). `VerifiedIsTrue` and `ErasesOnlyAsAgreed`
  except the wizard in that case and no other.

Abstractions: an identity is a device, blank, or a foreign SMSN; a value is one
fragment; the firmware is external (`set` wants an erased page, `finalize` wants
every value, commands run in order). Attaching a board takes longer than the 400
ms after an erase. `gatt.disconnect()` fires `gattserverdisconnected` at once.
The certificate upload form and demo mode are left out, and so is the identity
exchange after a connection that is not a setup. The device step is folded into the
connect step.

### TopicSync

`sync_topics` as the importing thread runs it (twice) and as every request that
adds a device runs it, one action per access to the service's unlocked fields;
`_mqtt_listener_main` of each listener thread; and `_subscribe_topics`, which all
of them and the resume callback share (`todo[a]`, `future[a]` per actor). Only
the event loop thread of a connection settles its futures (`Suback`), and not
while it runs the callback (`Busy`). A future has no timeout in the code, so it
is settled or it is not.

`heard[n]` are the topics subscribed to on connection n, in the session the broker
has of it. `Resume` is `_on_connection_resumed`: it is told whether the broker still
has the session (`session_present`), and does the same in either case, so a lost
session empties `heard` and leaves `_subscribed_topics` as it was. `lost` is a
history variable that names, by cause, the topics that are not heard for a reason
the code has no answer to:

* `lost.session`: the broker lost the session; the topic stays recorded and is never
  subscribed to again.
* `lost.replaced`: a listener thread that started anew made another connection, and
  the record is of the one before; the same.
* `lost.failed`: an attempt to connect or to subscribe failed. A topic leaves this
  set when a sync asks for it again.

`RecordIsTrue` excuses the first two, and holds whatever else has failed.
`NothingForgotten` and `TopicsSettle` excuse all three, and `TopicsSettle` also a
sync that waits for a future nobody can settle (`Stranded`).

### HexImage, FlashTarget and the flashing tools

`HexImage` is what the four parsers make of a HEX file, a sequence of records
over a small address space. The page and the npm tool build a map of words
(`PutWords`), which the page cuts into 128-byte chunks and the npm tool into
blocks; the command line and the console keep bytes in segments (`AddSegment`)
and write unaligned ends by reading a word, patching it and writing it back
(`PatchWord`). Checksums, text and truncated records are a record that is `bad`.

`FlashTarget` holds the board: the chip's memory, core, RRAM write mode, flash
algorithm and access protection, the USB object the probe is plugged in as, and
the state a tool keeps. All of the chip is external and modelled as the tools
use it. An operation is a task with a program counter `at`, the work `left`, the
file it began with and the session (`proc`) it uses; a task whose session is not
the plugged object fails at its next transfer, which may have done part of its
work first (`HalfDone`). `Misprogram` is a write that does not take and raises
no error: verification is there for it.

* `PageFlasher`: one busy task over one session. The `finally` of `runBusyTask`
  and the unplug handler, which does not wait for the task, are steps of their
  own (`parting`). Flashing ends with a reset and run; recovery erases through
  CTRL-AP.
* `NpmFlasher`: the same frame with a RAM stub, an erase before each flash, an
  optional verification read late, and the automation hooks, which replace the
  image under a flash that has already taken its own.
* `CliFlasher`: one run from `parseArgs` to the exit code.
* `ConsoleFlasher`: the Flash dialog. Its buttons follow `flashBusy`, and a
  preset that is being fetched sets and clears the same flag; so a second
  operation may begin on the one `flashDap`. `console.other` is that operation,
  and an operation whose probe another one has used is `shared`: about it
  `CompleteMeansFlashed` and `FailureIsExplained` promise nothing. They could
  not: with the overlap the dialog can say "complete" of a chip another operation
  has just erased.

A step between two awaits is an action, as in `BoardProvisioning`. Only one tool
is open in a behaviour, `tool`; the tools never meet but in the chip.

Abstractions: register addresses, timing, the commit of the RRAM write buffer
and the counts of a progress bar are left out; a chunk is a few words.

### WebPages: SensorCharts, MemfaultPanel, AdminFeed, BleLogUploader

Four parts that share no state; `part` says which one a behaviour is about, so
that the run explores each one in full and none of their products.

* `SensorCharts`: a reading is its event number. `NumberUplink`, `SaveReading`
  and `PutUplink` are `publish()` with the hook that stores the reading.
  `Apply` is `applySensorRange` up to its await, `AnswerHistory` and
  `FailHistory` what follows it, the stream's move to the new device included.
  No answer is compared with the choice that stands: `crossed` is the history
  variable that says two choices overlapped, and `gone` holds the readings lost
  for a named reason: streamed before an answer that does not have them, too old
  for the backlog, or wiped by a failed request. The comment at
  `static/app.js:3096` says that "Live" clears to the in-memory stream; when it
  is chosen while an answer is under way, the answer fills it again, which is one
  of the things `crossed` stands for.
* `MemfaultPanel`: one module for `health.js` and `memfault_analytics.js`, which
  share the code of `syncDevice`, `startPolling`, `stopPolling` and
  `fetchHealth`; `kind` chooses where they differ. `unpolled` records that the
  first request of an activation failed: the `finally` at `health.js:563` then
  finds no health and sets no timer, and the panel keeps the error until its tab
  is activated again.
* `AdminFeed`: `fill` is the backfill under way, `feed` the EventSource with the
  rows on their way. A Sidewalk event takes its listeners before its row is
  stored, a shell line after; the stream registers with one broker, then with
  the other. `excused` names the rows the page misses: cut by `PAGE_LIMIT`,
  stored while a backfill kept `onopen` from catching up, overtaken by a newer
  row, published while the stream was registering, or lost with a request that
  failed. `stale` says that a filter was changed while a backfill was under way:
  `backfill({ reset: true })` returns at once, and the table then mixes two
  filters. The order of the rows is not claimed: rows that a late backfill brings
  land above newer ones that the stream brought first.
* `BleLogUploader`: `posts` are the requests the server works on; the page waits
  for one of them at most, and may give one up that the server goes on with.
  `unsure` names the lines that may be credited to another device: those that
  wait, or are unfinished, when another board connects, and those sent after
  automatic setup or the wizard has named a device that the board on the line is
  not. Automatic setup names its own before it checks which board is on the line
  (`provisioning.js:299`, the check is at line 303). The wizard (`WizardNames`)
  names the device chosen on the page for whatever board its open chooser has
  connected, before it asks for the board's status (`provisioning.js:408, 511`).
  `Identify` is `bindConnectedIdentity`, which goes by what the board says.

Every one of these history variables is needed: with any clause of them removed,
the property it excuses is violated.

## 4. Runs

| run | checks | bounds and why they are enough | states |
|---|---|---|---|
| `autoprovision` | nine safety properties and the refinement | two boards, two threads, two tokens, two AWS ids, one customer and one administrator: two threads can meet on one board or on two, each token and id can be confused with one other; failures and restarts are not bounded. All settings are there and no identity lookup runs beside it, which `autoprovision_live` varies; so the exception of `OkMeansComplete` is empty here and the run checks it without, while the theorem covers the lookups | 1.3 M |
| `autoprovision_live` | `SetupCompletes` | one board, two threads, three failures or restarts: enough to fail once at each of three different steps of one setup; every kind of row and environment; one identity lookup | 0.25 M |
| `chunkqueue` | four invariants, `EveryChunkSettles` (each pending row is sent or given up) | two rows (opener and continuation), two attempts, one aborted iteration, one late POST, window of one tick: overtaking, expiry of the window and the attempt limit all happen | 0.9 M |
| `eventbroker` | four invariants, `EventsSurface` | three events over at most two server processes, two publishers, queue of one, history of two, two streams given up: overtaking, both ways of losing an event to a full queue, an expired backlog and a stale cursor all happen | 0.2 M |
| `eventbroker_replay` | finding | same | - |
| `boardprovisioning` | four invariants, three action properties | two boards (one of them provisioned), a device each, two flows at a time, three flows in all, one fault: a flow can be cut off at each await, a second one start beside it or after it, on the same board or the other, over the same transport or the other; two values suffice for a mixture; one device without an SMSN on file, and answers without one. What is said of flows that have the page to themselves was also checked, with `KnownInv` and before SMSNs could be missing, in larger instances: two faults (one board and four flows, 0.8 M states; two boards and one value, 1.5 M; three flows at a time, 0.14 M) and three faults on one board (3.4 M, 4.1 M) | 0.55 M |
| `boardprovisioning_replace` | finding | same | - |
| `boardprovisioning_failed` | finding | same | - |
| `topicsync` | three invariants, `TopicsSettle` | an empty database or one topic, two requests, two topics, two listener threads, one failure or interruption: both orders of a sync and the listener, a second listener, a lost connection at each step, resumed with the session or without | 0.5 M |
| `topicsync_import` | finding | same | - |
| `flashtools` | three invariants, `OnlyWhatItMay`, no deadlock | nine files over four words (plain, unaligned under two kinds of base, overlapping, without EOF, without data, outside the memory, with a bad or unknown record); chunks of two words, blocks of one, writes of four bytes; one fault, one replugging, three clicks in the console: each step of each tool fails once or loses its probe once, and the console's second operation meets each step of the first | 2.3 M |
| `webpages` | four invariants, `PanelCatchesUp` | charts: two devices, two readings, three choices, a backlog of one, one outage; panel: both kinds, two devices, five moves, two requests of a kind at a time, one failure; feed: three rows, a backfill, table and memory of two, two acts, one cut; log: two boards, two sessions, two lines, queue and batch of one, one lost request: every limit is reached and every excuse occurs | 2.1 M |

Deadlock is not checked in `chunkqueue`, `eventbroker`, `boardprovisioning`,
`topicsync` and `webpages`, where a bounded behaviour ends. In `flashtools` it is:
whatever fails, the user can begin again. Slots for flows are interchangeable, so the
`boardprovisioning` runs use symmetry; they check no liveness.

### Findings

* `eventbroker_replay`: `README.md:140` says that "reconnects resume from the
  last event cursor instead of replaying the whole backlog". After a server
  restart the page's cursor is larger than every new id, the server takes that as
  "no cursor" and the page never lowers it: every reconnect replays the backlog.
* `boardprovisioning_replace`: `static/provisioning.js:301-302` says "Recheck the
  same physical connection immediately before erasing; never replace an existing
  identity." An `await fetchScript()` follows the recheck. A disconnect at that
  await frees the page; the user attaches another board, a provisioned one, and
  the script of the first setup goes to it, `prov erase` first: the generation
  counter protects commands already queued, and these are not queued yet.
* `boardprovisioning_failed`: `static/provisioning.js:477` says for every failed
  write that "finalize did not complete, so the device still reports itself
  unprovisioned". It did complete when only its confirmation was lost, or when
  the reboot command could not be sent.
* `topicsync_import`: `app.py:1643-1645` says that an unreachable broker "should
  degrade to "no uplinks", not to a process that will not boot". The sync at the
  end of the import finds the listener that `start()` began and waits, without a
  timeout, for a subscription on its connection. It waits for ever if the first
  connection attempt fails after that, or if the connection is lost and resumed
  before the topic is subscribed: `_on_connection_resumed` then waits on the one
  thread that could settle the future.

Two more disagreements with comments and messages appear above as the exceptions of
a property and have no run of their own. `static/provisioning.js:739-741` announces
every provisioned board without a mismatch as "Already provisioned with the SMSN on
file for this device": there is no mismatch either when the page has no SMSN on
file, or the answer names none (line 72), and such a board is erased without the
confirmation (line 449) and reported verified (lines 517-520), whoever it is.
`static/app.js:1843-1845` says that the credit of shell lines is held separately so
that a late flush "still credits the board the output actually came from": it is
read when a batch is sent, the queue outlives the board, and the wizard and
automatic setup set it without asking the board.

Two properties of `chunkqueue` and `boardprovisioning` also bound what the
repository's words can mean. `tests/test_memfault_chunk_dedupe.py:1` says that
duplicate chunks must not reach Memfault: a POST that was accepted but whose
outcome was not recorded is repeated by the retry. `OnlyRetriesRepeat` says that
there is no other reason: Memfault holds no copy of a row, and no younger row
before an older one, that a recorded failure or an iteration that was cut off
does not explain. The confirmation `ErasesOnlyAsAgreed` asks for is the ticked
box, which stays ticked when another board is connected.

### Fairness

* `ChunkQueue`: the worker thread runs and a POST has a timeout
  (`MEMFAULT_HTTP_TIMEOUT_SECS`), so `WorkerStep` is weakly fair; time passes.
  Aborted iterations are bounded.
* `EventBroker`: publishing threads, the stream generator and the connection make
  progress, and a page without a stream opens one (the timer in `onerror`).
  Broken connections and restarts are bounded; choices of a device are not, so
  `EventsSurface` speaks of pages that stay with a device.
* `MCAutoProvisionLive`: threads run; AWS executes what it was sent; the owner
  of a reserved board keeps retrying (the answers ask for it: "Reconnect to
  retry") and strong fairness gives one of those retries the lock, because
  another user's requests could win it every time otherwise. A thread that
  hangs in `_sync_topics()` is not made to go on. The property has four exceptions,
  none of which a retry can mend: the owner's permission or access was taken away,
  the row has no usable credentials, the process runs without Memfault's settings,
  a sync never returned.
* `TopicSync`: threads run, the MQTT client answers what it was asked while there
  is a connection, an attempt to connect succeeds or fails, and a connection that
  was lost is made again, with the session or without. Nothing is assumed of a
  first attempt that failed: the client does not repeat it.
* `WebPages`: a panel's request ends, with an answer or not, and its interval
  fires (`PanelFairness`); failures and moves of the user are bounded, so
  `PanelCatchesUp` speaks of panels that are left alone in the end. The other
  parts assume nothing, and so do the flashing tools.
* `BoardProvisioning` assumes none: its runs check safety only. That no flow is
  left waiting for ever shows as an invariant, the last part of `PageIsOwned`:
  whatever a flow awaits is the pending wait, which has a timer.

## 5. Proofs

Every theorem holds for every value of the constants; the bounds of the runs
(rows, restarts, faults, flows) are constants like the others, so they are
arbitrary numbers here. Each inductive invariant was first checked by TLC as an
invariant of the component's run, or of a larger one, before it was proved.
Every invariant and every action property that a passing run checks has a
theorem, and so has the refinement of `BoardSetup`.

| module | assumes | proves |
|---|---|---|
| `AutoProvisionProofs` | `NoneIsFresh` | every safety invariant of `autoprovision`, its two action properties, and that `AutoProvision` implements `BoardSetup` |
| `ChunkQueueProofs` | `ParametersOK` | the four invariants of `chunkqueue`; `SettledForGood` |
| `EventBrokerProofs` | `ParametersOK` | the four invariants of `eventbroker` |
| `TopicSyncProofs` | `TopicsOK` | the three invariants of `topicsync` |
| `BoardProvisioningProofs` | `BoardsOK` | the four invariants and three action properties of `boardprovisioning` |
| `FlashImageProofs` | `ChunksAreSome`, `FilesAreRecords`, `MemoryIsWords`, `FlashIsThere` | what each parser makes of any file, and what writing and reading back its parts makes of any memory |
| `FlashToolsProofs` | these and `BoundsAreNat` | the three invariants of `flashtools` and `OnlyWhatItMay` |
| `WebPagesProofs` | `ChartParameters`, `PanelParameters`, `NothingIsNoDevice`, `FeedParameters`, `UploaderParameters` | the four invariants of `webpages` |

The assumptions say that bounds are natural numbers, sizes positive where the
code needs them to be, and model values distinct. Four say more:

* `FilesAreRecords`: the files are sequences of records (`HexRecord`), bad ones
  included.
* `MemoryIsWords`: the chip is read and written by words of four bytes.
* `FlashIsThere`: `Factory`, the memory of an instance, may be a small part of
  the chip, but no file names an address of real flash that it leaves out. A file
  may name addresses that are not flash: the page and the npm tool reject it, the
  tools that do not look at addresses (`ConsoleParse`, `CliParse`) write what is
  there and fail where nothing is.
* `FeedParameters` has `MaxTable <= IdMemory`, which `static/admin.js:23-25` gives
  (500 rows, 2000 ids): otherwise the ids of the rows on show would alone be
  more than the memory is meant to hold, and `forgetTrimmedIds` could not limit it.

**AutoProvision.** The invariants are not inductive as they stand: that a
reservation names the device of its own token follows only if the thread that
writes it still carries that reservation's token. `IInv` adds what the tables
agree on (`TablesAgree`: tokens are not shared, everything sent is saved, AWS
answers per token) and what a thread's locals are worth at each step
(`LocalsAgree`). `LocalsAgree` of one thread survives the steps of another
because of `OneAtATime`: only one thread stands between the lock's acquisition
and its release. `IInv` is proved preserved in four lemmas, one per part; the
refinement uses three lemmas about what a step may do to the columns
`BoardSetup` sees.

**ChunkQueue.** `RowsAgree` (a row exists below the counter, and only a row that
failed waits), `WorkerAgrees` (the row the worker POSTs stays pending until it
marks it, and a success it is about to mark was accepted) and `PostsAgree` (a
POST is on its way, accepted or gone, never two of these; a row that was passed
by a younger one had failed or been sent) make the copies at Memfault countable.
`SettledForGood` is the safety half of `EveryChunkSettles`: a row that was sent
or given up stays so, keeps its chunk and loses no recorded attempt.

**EventBroker.** A page's cursor is its only memory, so the argument is that the
cursor stands for what was rendered (`Rendered`). `InLine` says in which order
events travel on wire, replay and queue and behind the publishers that have still
to put theirs, `Behind` how they compare with what the page has rendered, and
`Complete` that none is missing but for the four reasons. None of the three is
preserved without the others: an event that is not in order makes the cursor skip
one, and a skipped one is what `Complete` rules out.

**TopicSync.** The set of wanted topics is replaced without a lock while listeners
start, connect and subscribe. `UnderWay` says who will subscribe to a topic, by how
far each thread is; `Listeners`, `Asked` and `OnlyWithin` say what a future, a list
of topics still to ask for and a connection have to do with each other. The record
is true because a topic is recorded after its future was settled (`DoneIsTrue`): at
that moment it was heard on some connection, and since then only a lost session or
another connection can have changed that. Both properties are theorems about every
behaviour, with any number of listeners and failures; nothing ends their claim.

**BoardProvisioning.** The flows share one pending wait and one queue of lines.
`World` says how they stand to each other: who is awaited (`Awaited`), in which
order lines are written (`InLine`), that one promise is settled at a time
(`OneReady`), and that a line which was handed over after an answer has no line
of another script before it (`NoneBetween`). `Owned` says who runs while the
page is free, and `Acks` what the answers in the inbox and those already read say
of the values on the board (`Prefix`). `WholeIdentity` then rests on
`NoneBetween`: every command that is answered takes the wait, so of two scripts on
one board the one that does not have the wait is stopped before its next line. The
premise that the script was not misled is needed, and TLC finds the mixture
without it. As most actions change the flows by the same few operators inside
one another, the parts are stated of any flows and wait, and proved for the
operators first.

The last three properties are about a flow that has the page to itself (`Alone`). Such a
flow was alone from its start (`WasAlone`): while it is, the others only attach
boards, and one that succeeds takes the page from it. `AloneInv` says what the
board's page holds at each of its stages: what its lines have made of it as far as
it was answered (`Made`), that what it was told of the board's identity is so, or
has become so by its own script (`Reads`), what was known of the board when the
write began (`Agreed`), and that since its script was fetched it works for the
chosen device (`Chosen`). The last of these needs `busy`, which `ChooseDevice`
asks for. `ErasesOnlyAsAgreed` also rests on what an earlier flow
left on the page: `ReadRight` says that an identity that is shown, and was read by a
flow alone on the page, is the board's, unless the board was erased or given the
chosen device since. It holds because no loose flow runs while the page shows such an
identity (`ReadAlone`), so that only flows with the page to themselves have written
to the board since. The three are inductive only together.

**FlashImageProofs.** The parsers fold over the records of a file. `FoldLeft` is
defined by a recursive function on sets of indices, so it can be unfolded once, to
a state after each record (`WordState`, `SegmentState`), and what these states are
is proved record by record. The library's induction theorems cannot be used here;
an induction is an argument from the least counterexample instead, because the
order of the naturals is well founded (`NatSetInduction`). The results are about
every file, not only those of the run: the word map of the page and the npm tool
is the file's meaning, padded to whole words (`WordMapIsTheMeaning`), cutting it
into chunks loses no byte (`PagePartsMean`, `NpmPartsMean`), and the segments of
the command line and the dialog have each byte of each record
(`CliSegmentsMean`, `ConsoleSegmentsMean`), so the meaning's own where no two
records contradict each other.

**FlashTools.** `FlashGood` says, tool by tool, what each step of an operation
knows of the chip. `Writing` is what holds before a part is programmed: the memory
is right but for the parts that are `left`, if no write went wrong; `Verifying`
what holds while parts are read back: those no longer left are right whatever
went wrong before; `Flashed` that all of it is there. `BadgeInv` then only needs that
success is shown with the reset, when the job was `Flashed`, and that no operation
touches the chip while it stands on show (`Quiet`). A dialog's operation knows this
only while it is not `shared`, and two operations that both run are both
shared. The npm tool knows less at its end, because its verification is optional:
`complete` is proved of a run that verified, or in which nothing went wrong. There is
one lemma per action (`<Action>Keeps`), which also proves the step's part of
`OnlyWhatItMay`.

**SensorCharts.** `ChartInv` follows a reading of the device the stream is for.
As long as no two choices crossed, what an answer that was read earlier does not
bring lies behind the cursor or comes on the stream (`LaterComes`), and so does what
is not stored yet (`UnsavedComes`); once an answer is drawn nothing is missing but
what is on its way (`NoneMissed`). The stream keeps its order and its place before
the reading that is being published (`StreamInOrder`), which is why moving the
cursor skips none. Nothing but a stored reading is drawn ahead of the cursor
(`DrawnFromStore`): without it an answer could replace what was streamed and the
cursor would never ask for it again.

**AdminFeed.** `Accounted` names every place a row can be that the table should
show: drawn, on the wire, in a publisher's hands, in the answer of the backfill or
still to be read by it, ahead of a page whose stream is not open, or excused.
`GotComplete` says that an answer brings all rows from the cursor to the newest it
read, but for those the limit cut; `NewestSeen` that the cursor is the id of a row
that was drawn, so asking for later ones skips only rows that have an excuse. What
`renderRow` does with a list of rows is proved by induction on the list
(`DrawAllKeeps`): no id twice, both limits kept, nothing forgotten that is shown.

**BleLogUploader.** A line is in the queue, in a request or in the log
(`Printed`). `InPlaces` says that these are in order but where a request was
given up, and `CreditsAgree` what is known of the board that printed a line while
it is on its way. `PageUploads` shows that the page, seen through the uploader's
variables, takes no other steps; the property follows for the composition. The
invariants of the other three parts are carried over in the same way
(`PartsSteps`).

Only model-checked are the liveness properties, which are outside the prover:
`SetupCompletes`, `EveryChunkSettles`, `EventsSurface`, `TopicsSettle` and
`PanelCatchesUp`. Two of them rest on a safety fact that is a theorem:
`SettledForGood`, and `PanelInvariance`, by which a panel polls only on the screen,
with credentials, and for health it has. The four runs that end in a violation are
counterexamples and need no proof.

## 6. Not modelled

* `MfgStore` and the administrator's device creation, for now: the first is planned
  as functions, the second is a sequential handler. The certificate upload is
  modelled on the server only: in the page, `handleCertificateSubmit` assigns the
  answer to the device that is chosen when it arrives (`provisioning.js:589`), which
  may be another than the one it was uploaded for.
  `create_device` (`app.py:1042`) draws a new ClientRequestToken per request and
  saves nothing before the AWS call, so a later failure leaves a device that no
  retry finds; `AutoProvision` shows what saving it first is worth.
* Configuration parsing, login and sessions (library code), drawing and demo
  mode, and `flasher/chrome_flash_loop.mjs`, a driver for tests.
* Silicon: what the RRAM controller, the debug port and the flash algorithm do
  within a step.
* Within modelled parts: the cap of the message table, `_decimate`, the chunk
  table and the crash request. The crash request goes to the panel's device,
  which is the selected one only since the tab was last activated.

What the properties except, the code can do, and nothing in it repairs:

* `AutoProvision`: a row without a profile or with rejected artifacts fails every
  retry until an administrator uploads its certificate (`app.py:320-324`); a process
  without Memfault's settings fails every setup after the device was made
  (`memfault.py:110`); a sync that waits for ever keeps the lock (`app.py:652`); an
  identity lookup that overlaps a setup takes its certificates away
  (`app.py:543`; the page does not call it at this commit).
* `TopicSync`: topics of a lost session or of a connection that was replaced stay
  recorded and are not heard (`iot.py:671, 643`).
* `BoardProvisioning`: with an SMSN missing the wizard takes any provisioned board
  for the chosen device (`provisioning.js:72`).
* `SensorCharts`: `crossed` and `gone` except most of what a late answer can do
  (`app.js:3117`): while choices cross the charts may show the wrong device until
  the next choice. `ChartIsTrue` is about answers and streamed readings within one
  choice.
* `MemfaultPanel`: a panel whose first request failed does not catch up
  (`health.js:563`).
* `AdminFeed`: a table whose filter was changed under a backfill mixes two filters
  (`admin.js:297`), and rows are missed when `onopen`'s backfill is dropped
  (`admin.js:247`).
* `BleLogUploader`: lines that wait at a change of boards, and lines sent under the
  device that the wizard or automatic setup has named, may be credited to another
  board's device.

Known to be possible, and left without a property because nothing in the
repository says otherwise: the provisioning permission is read before the lock
(`app.py:582`); a stream keeps the device rights it opened with (`app.py:1253`);
a chunk that failed for good suppresses its repetition within the window
(`storage.py:774`); `is_alive` is asked twice, so two syncs may start two
listeners (`iot.py:560`); an older set of wanted topics may replace a newer one
(`iot.py:432`); a ticked overwrite box outlives its board
(`provisioning.js:823`); `step` stays "write" after a failed write
(`provisioning.js:121`).
