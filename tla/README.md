# Verification of VesselStack

VesselStack is the software of a boat's small server: it installs and updates a stack of containers
(Signal K, InfluxDB, Grafana, Mosquitto, Home Assistant), publishes readings and alarms to ESPHome
displays over MQTT, answers questions about the boat, and has a browser control panel. This directory
holds TLA+ models of the parts in which threads, processes, connections and failures meet, the TLC
configurations that check them, and TLAPS proofs about them. Sources are named relative to `src/`.

- [1. The system](#1-the-system)
- [2. The modules and the code](#2-the-modules-and-the-code)
- [3. The runs](#3-the-runs)
- [4. What the runs found](#4-what-the-runs-found)
- [5. The proofs](#5-the-proofs)
- [6. What is not modelled](#6-what-is-not-modelled)
- [7. Plan](#7-plan)

To check a run: `tlc -workers 2 -config X.cfg MCmodule.tla`; a proof: `tlapm XProofs.tla`.

## 1. The system

| Component (source) | State it keeps | Operations | Talks to | Hard behaviour | Correct when |
| --- | --- | --- | --- | --- | --- |
| **Bridge: MQTT publisher** (`displays/bridge.py`, `MqttPublisher`) | mailbox of retained values, command queue, generations per topic, packets in flight, waiting list | `publish`, `start`, `stop`, paho's callbacks | the bridge's main thread, paho's network thread, Mosquitto | three threads, reconnections, a broker that forgets, full queues, a stop with a deadline | every topic ends at its newest value, none goes backwards, nothing waits for ever |
| **Bridge: Home Assistant client** (`displays/ha_client.py`, `ha_protocol.py`) | session phase and mode, mailbox, announced state | connect, subscribe (two protocols), push, drain | Home Assistant over a websocket; the main thread through `HaMailbox` | sessions cut at any frame, a bounded mailbox, events and snapshot in either order | what is shown is of the present connection and settles |
| **Bridge: engines and loop** (`displays/topics.py`, `bridge.py`) | last value, age and severity per item, what was published and when, the alarm summary | a delta, a notification, an entity update, tick, heartbeat, connect, disconnect, shutdown | Signal K's stream, HA mailbox, publisher | one thread that blocks while connecting; rate limits, staleness, settle times | no change lost, nothing stale shown fresh, summary agrees with the items |
| **Conversions, severity** (`displays/conversions.py`, `severity.py`) | none (severity is memory of the engine) | rounding, headings, thresholds with hysteresis | engines, schema | boundaries, two levels on two sides | severity agrees with the digits and does not flicker |
| **Display credentials** (`displays/lifecycle.py`, `mqtt_auth.py`, `displayctl.py`) | `displays.json`, `displays.secrets.json`, password and ACL files, the lock | `add`, `remove`, `rotate`, `sync-mqtt`, `wifi`, `bridge-env` | Docker, the broker (SIGHUP) | four files changed in steps, a command that fails or dies at each | the broker grants what is configured; other displays keep working |
| **Schema, rendering** (`displays/schema.py`, `render.py`) and the firmware it generates | per item: last message, when it was seen, what is drawn; banner, light, palette, touch | each MQTT message, the 1 s interval, connect, disconnect, touch, the night schedule | the broker, a finger | handlers that save drawing by remembering it; silence, lost connections, a bridge that dies without a will | a tile shows the last value in the right colour or nothing; one touch does one thing |
| **Firmware build** (`displays/firmware.py`, `render.py`, `lifecycle.py`) | the build directory of a display, its images and provenance record, a lock | render, build, flash, remove, `wifi --clear` | ESPHome in a container | directories replaced by renames, two locks, kills | an image is kept, what is flashed is of the present configuration, remove removes |
| **Control panel: operations** (`control-panel/app.py`, `browser_updates.py`) | gate and flock, durable record of the last operation, `OperationStore` | save settings, run a command, update, restart, poll | systemd, the detached worker, the browser | a worker that outlives its parent and restarts it, crashes, power cuts | one lifecycle change at a time; results are true |
| **Settings forms** (`control-panel/app.py`, `boat-chat/app.py`, `env_config.py`) | base and override environment files, the running environment, a lock | save in the panel, save in the page, restart | browser, systemd | two writers, one of them without the other's lock; a process that has read the old file | the next start finds what was saved last |
| **Boat chat: server** (`boat-chat/app.py`, `query_planner.py`, `cruise_efficiency.py`, ...) | settings file, requests being served | classify a question, read what it needs, compute, ask a model or its fallback | InfluxDB, Signal K, Home Assistant, model providers | any reader or provider may fail; a prompt has limited room; several summaries of one window | computed figures stand, and agree |
| **Boat chat: sessions** (`session_store.py`) | turns per session in SQLite | append, get, clear | server, bot | read-modify-write on two connections | turns in order, none twice |
| **Boat chat: memory index** (`memory_index.py`) | chunks and hashes in SQLite | ensure, rebuild, search | documents, the indexer's timer | overlapping chunks with a unique hash; edits during a rebuild | every line can be found |
| **Boat chat: telemetry cache** (`telemetry_cache.py`, `telemetry_indexer.py`) | summaries by window, battery observations, a lock per mode | put, get, prune; sample and history runs | InfluxDB, timers, server | keys that name a window loosely; two jobs on one database, killed anywhere | a summary is of the window asked for; energy is what was measured |
| **Boat chat: Telegram bot** (`telegram_bot.py`) | update offset in memory and on disk, conversations | poll, answer, clear | Telegram, server | kills and failures between answer and offset | no update skipped, every one handled |
| **vesselstackctl** (`scripts/vesselstackctl`) | backups, the lock | backup, restore, update, apply | Docker, systemd | a failure between steps | the stack is up with one configuration |
| **Deployment of Boat Chat** (`scripts/deploy-chat.py`) | installed files, receipts, running units | deploy a verified commit, recover, roll back | Git checkout and remote, systemd | failures, kills, edits and pushes at any step | only verified commits run; what is reported is so |
| **Installer, updater, migrations** (`install.sh`, `scripts/get-vesselstack.sh`, `scripts/vesselstack-update`, `scripts/migrate.sh`) | release directories, markers | install, update, migrate, roll back | Git releases, Docker | resumption after interruption | a migration runs once, a failed update leaves the old release |
| **Host scripts** (`scripts/lib/remediate.sh`, `scripts/vesselstack-firewall`, `scripts/bootstrap-influx.sh`) | host configuration | detect, repair | the host | none in the program | |
| **Wizard** (`vesselstack-wizard.py`, `wizard/`) | an environment file | ask, write | user | none | |
| **Templates** (`templates/`, `systemd/`) | none | none | Compose, systemd | none | |

How they meet: the bridge's main thread drains Signal K's stream and the HA mailbox into the engines,
and gives what they publish to the publisher, which carries it to the broker. The broker reads the
accounts that the display commands install. The control panel starts `vesselstackctl` commands, saves
the settings and launches the updater's worker; all of them exclude each other through one slot. The
hazards of this code, each with the line where it bites and the properties that look for it, are listed
in `PROJECT.json`.

## 2. The modules and the code

| Module | Models | Composes |
| --- | --- | --- |
| `RetainedChannel` | abstract: what a display may see of one retained topic | |
| `MqttPublisher` | `MqttPublisher`, its two callers' threads, paho and broker | implements `RetainedChannel` |
| `HaClient` | Home Assistant, websocket, `HaRunner`, `HaSession`, `HaMailbox`, the bridge's drain | |
| `Readings` | `conversions.py`, `severity.py`, `validate_thresholds`, `alarm_summary` as operators | |
| `Gauge` | one instrument's severity over a sequence of readings, beside latches that define it | `Readings` |
| `Freshness` | `Engine`, `EventEngine`, `HaEngine`, the bridge's loop | `Readings` |
| `BrowserUpdates` | request threads, gate, flock, record, systemd unit, worker | |
| `DisplayCredentials` | display commands, their files, the broker | |
| `DisplayBuild` | render, build, flash, remove and `wifi --clear` on one display's build directory | |
| `DisplayTiles` | the generated firmware: tiles, flags, header, palette, under the bridge's and broker's life | |
| `DisplayUi` | the generated firmware: banner, touch, backlight, night schedule | |
| `ChatServer` | threads of `/api/chat` and the session store | |
| `TelegramBot` | the bot's thread, Telegram, kills | `ChatServer` |
| `ChatAnswer` | from a question to an answer | |
| `EngineHistory` | the summaries of a window of engine history, as operators over its minutes | |
| `HistoryCache` | windows, cache keys, ages, the indexer's history run | |
| `PowerTracking` | observations of the batteries, energy, the sample and history jobs | |
| `MemoryIndex` | chunks, index, ensure and rebuild | |
| `ChatSettings` | the two writers of Boat Chat's settings | |
| `ChatDeploy` | `deploy-chat.py` beside developers and editors | |
| `MC...` | constants for TLC; `MCDevice`, `MCDisplays` and `MCBoatChat` check several modules in one run, `MCMqttPublisher` and `MCHaClient` several instances of one (section 3) | as named there |
| `...Proofs` | theorems and proofs | |

**MqttPublisher.** `pc` and local variables of the worker are those of `_run`; the mailbox, the command
queue and the flags are the fields of the class under its condition; the network is two packet queues per
connection with a last will. One action is one critical section or one call outside of it: `publish` is
atomic because it holds the condition throughout, taking a command is separate from handling it, because
`_run` releases the condition between them. A payload is the number of its publication. A topic is dirty
when its sent and its retained generation differ, which is all the code asks of them; an mid stands for
the topic it was sent on; `_sent_retained` is written and never read. `stop()` always sets
`_stop_deadline`, so the branch of `_run` that sets it is dead and left out. Acknowledgements of QoS 0
packets change nothing. The worker may return by its deadline at any time after stop. All callers of the bridge publish
retained messages; `EventOrder` is about the other path of `publish`, which its interface offers and nothing uses.

**HaClient.** The server pushes to a subscription, the websocket is an ordered queue that is cut at any time.
A state is a version and whether it removed the entity; the session it was heard in is a tag that only
properties read. Back-off and timeouts are a session that ends at any time; the thread's stop is left out.

**Readings, Gauge.** A raw value counts fractions of the last digit, so that rounding half away from zero is
exact integer arithmetic. `Gauge` runs the code's `numeric_sev` with its previous result and, independently,
one latch per level, and remembers the reading at which a level was left.

**Freshness.** Time advances by whole steps while the thread waits in its queue, pauses, or is blocked in
a connection attempt; ticks run where `_loop` runs them. The engine's fields keep their names. A delta
carries one value. The summary's list of ids is kept as the sets it is cut from. The clock topic, the
timestamps and the log's rate limits are left out.

**BrowserUpdates.** `gate` is `LIFECYCLE_LOCK`, `flock` the lock on `browser-update.lock` (held by panel or
worker), `record` the JSON record, `command` the `OperationStore`. A request is a sequence of actions, one
per call that can fail or be overtaken. The worker is the systemd unit with the request it was given and its
copy of the record. An operation's id is a counter, everything before the installation is one phase, and a
panel that crashes is up again at once. Commands run in a terminal do not take the slot and are left out.

**DisplayCredentials.** A command is a sequence of actions from the lock to the reload; it fails at any step,
and may be killed at any. The n-th password made for a display is the number n. A broker that stops forgets
what it has read and reads the two files when it starts. Displays are enabled; the accounts of the bridge
and the administrator, the OTA and API keys, the Wi-Fi block and the `.prev` copies are left out. The
hashing container ends with its command (see section 4). Configuration files edited by hand are not modelled.

**DisplayBuild.** A directory is what it was made from, whether it is whole and whether it has a `secrets.yaml`.
Each rename, unlink and write is a step, a command fails or is killed at any of them, and the configuration and
the credentials change in between. The container writes an image or fails; the serial port is left out.
`remove` and `wifi --clear` look for directories of the display before they take its lock and succeed without it when there
are none (`ListProjects`); `ownDir` is the display's directory, made by the first render or build, and `removed` and
`scrubbed` say whether the last such command is done, or went on without the lock while a build was under way ("slipped").

**DisplayTiles, DisplayUi.** Translations of the handlers that `render.py` writes into the generated firmware,
one per message, interval or gesture, run one at a time as ESPHome does. The text of a label is the reading or
word it stands for, a colour the severity it is chosen by together with the palette. `drawn`, `bl_drawn` and
the palette (`night_active`, in `DisplayTiles` `night`) are the firmware's own memory of what it has drawn. The bridge may be stopped, killed (its will
follows) or lost with the broker's host (no will, and the retained `online` comes back).

**ChatServer, TelegramBot.** A request goes through the steps of `do_POST`; reading the turns and writing them are
two steps on two connections, as in `session_store.py`, and a request goes on when its client has given up. The
bot's `offset` is main's variable and `file` the one on disk; a kill may leave the file torn. An exchange is the
number of its request.

**ChatAnswer.** A question is the set of topics its words mention; the reader of each section finds data, nothing
or an error. `Answers` is the order of `app.py` in which a section answers without a model. The evidence is a set
of sections with sizes, cut to the room of the prompt in the code's priority. Each provider call reads the
settings file anew. A long document and a long turn of the conversation are cut to excerpts before the evidence is
measured (`Excerpts`); an error of a provider whose reply is read outside its `try` ends the request. What the regular
expressions accept is left out.

**EngineHistory.** Each summary is its filter over the same minutes; queries that Influx answers are the rows they
select. **HistoryCache** has the calendar of the code with short days and months: windows, their keys and the
ages a cached summary may have. **PowerTracking** counts energy in whole fractions so that a sign change inside
an interval is exact (the powers are whole numbers, `Scale` is a multiple of what their spans divide by). Each of its two jobs is killed after a time limit; the model gives both the longer one.

**MemoryIndex.** Lines are headings, text or blank, with a size; the chunker is a recursive function along them. A rebuild reads
the documents, then stores chunks and hash in one transaction. Embeddings and search are left out.

**ChatSettings.** Both environment files, the environment of the running process, the page's lock, the panel's
slot, and the steps between reading and replacing a file.

**ChatDeploy.** The helper holds the installation's lock; a developer moves the checkout, the remote is pushed to
and installed files are edited at any step. Signatures are a set of commits. `owed` is a history variable: the units not
started since the helper wrote a file they use.

## 3. The runs

Modules that share no state are checked in one run where their instances are small: a variable `part`, chosen in
the initial state and never changed, says which of them a behaviour is about; the others rest in one initial
state. Nothing else couples them, and each property is about one part.

| Run | Module, configuration | Parts | Checks | Bounds |
| --- | --- | --- | --- | --- |
| `publisher_items` | `MCMqttPublisher`, `MqttPublisherItems` | `MqttPublisher` three times | `MailboxBacked`, `OneInFlight`, `EventOrder`, `NoStall`, `CleanStopDelivers`, `ChannelSpec`, `PartConverges` (`Converges`) | items: the status topic, the summary and one unretained message; events: the status topic and two unretained messages; both with two connections; states: two topics each connection republishes, one connection; queues of one and two; two publications of a topic |
| `ha_client` | `MCHaClient`, `HaClient` | `HaClient` twice | `MailboxTrue` (`MailboxBound`, `DrainedAgrees`), `FreshUnlessEarly`, `Settles` | two entities, three sessions, a mailbox of two events; modes: both protocols, one change; changes: one protocol, two changes |
| `fresh_instruments` | `MCFreshness`, `FreshnessInstruments` | | `NoLostChange`, `StaleInTime`, `BoardTrue` (`ShownSoon`, `SummaryTrue`) | one instrument, four raw values, eleven steps (stale after eight) |
| `fresh_sources` | `FreshnessSources` | | `SourcesTrue` (`NotificationTrue`, `ShownSoon`, `SummaryTrue`) | one notification, one HA item, five steps |
| `panel_updates` | `MCBrowserUpdates`, `BrowserUpdates` | | `OneAtATime`, `ClaimRespected`, `SuccessStands`, `RequestsEnd` (`OperationEnds`, `GateReturns`) | two request threads, two operations, one crash, one timeout |
| `displays_cli` | `MCDisplays`, `Displays` | `DisplayCredentials`, `DisplayBuild` | `InSync`, `Untouched`, `RevokedStaysOut`, `PlainGone`, `ImagesTrue`, `CleanedUp` | credentials: two displays, two commands, two passwords each, one kill, any number of failures and restarts; builds: three commands, two at a time, one change of the configuration, two kills |
| `device` | `MCDevice`, `Device` | `Gauge`, `DisplayTiles`, `DisplayUi` | `Agrees`, `NoChatter`, `TilesTrue`, `StaleBlanks`, `TouchTrue`, `AlarmsAndNight` | four bounds, the largest hysteresis valid, every raw value that matters; one item of each of six kinds in turn, two readings each; two pages, two alarms, three brightness levels |
| `boat_chat` | `MCBoatChat`, `BoatChat` | the eight modules of Boat Chat | `UpdatesHandledOnce`, `AllHandled`, `ConversationTrue`, `AnswerTrue`, `PowerTrue` (`EnergyTrue`), `SummariesTrue` (`SummariesAgree`, `BandsHold`), `AnswersHonest` (`ComputedStands`, `PromptHonest`), `EveryLineFound`, `SettingsStand`, `DeployTrue` | five updates of two chats, three requests, two exchanges kept, one kill or failed reply; days of four ticks and months of two days over 32 ticks; four observations, three ticks kept; two minutes; 28 questions, nine settings; documents of five lines, one edit, two runs; three keys, two saves, one fault; three commits, one move, edit and failure, two runs |
| `publisher_offline` | `MqttPublisherOffline` | | `CleanStopOffline` (violated) | as `publisher_items` |
| `ha_fresh_fallback` | `MCHaClient`, `HaClientStale` | | `ShownFresh` (violated) | one entity, two sessions, the fallback |
| `panel_late_worker` | `BrowserUpdatesLate` | | `WorkerShown` (violated) | as `panel_updates` |
| `memory_ensure` | `MCMemoryIndex`, `MemoryIndexEnsure` | | `EnsureBuilds` (violated) | as the memory part of `boat_chat` |

Why the bounds are enough to be interesting: a queue of one overflows at the second entry; two
publications of a topic are the fewest that can be reordered and two connections the fewest with a
reconnection; three HA sessions are the fewest that overflow a mailbox of two events; eleven
steps let an instrument become stale, be published and come back; two operations are the fewest that
can overlap, and one crash at any step of either is every single failure; two passwords are the fewest
with a rotation, and two displays the fewest with an "other display"; a third build command meets what two
killed ones left; six kinds of tile are all the code distinguishes; a command of one chat and
a question, `/clear` and two questions of the other are the fewest updates with which a conversation of two exchanges can
follow one that was cleared, and a batch sent again after a kill makes three of the two (an arrival is taken when the bot
is about to poll: what comes before is read by that same poll); 32 ticks pass a weekend, a week and three months; two minutes are the fewest in which two summaries can count
different ones; a setting whose prompt has no room at all meets what is said of dropped evidence; with five lines a chunk can be full, overlap and be followed by a heading or a blank line; two
deployments are the fewest with a rollback.

Fairness. `PartConverges` and `Settles` assume weak fairness of every thread of the program and of the network,
of the client, the drain and the server, and that the connection is, in the end, kept (connections and sessions
are bounded). `OperationEnds` and `GateReturns` assume weak fairness of request threads, of
polls (the page polls as long as it is open) and of the worker, which the operating system schedules; strong
fairness of the worker's taking the flock, because the kernel wakes a blocked waiter whenever the lock is
free, and of the answer of systemd to a probe, because a probe that times out is repeated by the next
poll and does not time out for ever; and that commands the panel runs end. `StaleBlanks` assumes that time passes
and that messages under way arrive again and again. `AllHandled` assumes only that the bot's thread runs: it
waits for an answer no longer than its timeout. No run assumes that a crash happens or does not. Runs without
deadlock check are those whose counters are bounded or whose program stops.

Symmetry is used in `displays_cli` (displays and commands, no liveness).

Definitions named `...Mutant`, `ReversedPrompt` and `NewestFirst` are deliberately wrong variants of a definition that
follows them; `PROJECT.json` names the property that notices each.

What each property says and of which code is written above it in its module; the MC modules join those of one
question. The abstract specification `RetainedChannel!ChanSpec` is the property `ChannelSpec`: under the mapping
of the topic's number of publications and of the value the broker retains, every step of publisher, paho and
broker is a publication, an advance of the retained value, the broker's forgetting, or a stutter.

## 4. What the runs found

Four runs end in a counterexample; `PROJECT.json` quotes the lines.

1. `publisher_offline`: the bridge's retained status may stay `online` after a clean stop, because
   `shutdown()` queues `offline` before `stop()` sets `_stopping`, and a connection handled in
   between republishes `online` (`displays/bridge.py:686`).
2. `ha_fresh_fallback`: with the fallback protocol, values heard in a session that ended before it was
   ready are shown as the state of the next one (`displays/bridge.py:239`).
3. `panel_late_worker`: an update recorded as failed because `systemd-run` took too long may still run,
   unseen by the page (`control-panel/browser_updates.py:447`).
4. `memory_ensure`: one document with a short full chunk before a heading or a blank line makes every rebuild of the
   index fail on the unique hash (`boat-chat/memory_index.py:182`). `EveryLineFound` is about the indexes that are built.

Met while modelling, without a run of its own:

- The header's dots may turn green again after the host loses its power with the bridge: Mosquitto restores the
  retained `online` (`templates/mosquitto.conf:1`). The tiles go blank all the same (`StaleBlanks`).
- `/clear` answers "Conversation context cleared." also when the server's copy was not
  (`boat-chat/telegram_bot.py:297-302`), and that copy is used once the bot has no turns of its own.
- An error of InfluxDB is told as nothing found: `context.get("influx_history", {})` is always a dictionary, so that
  `boat-chat/app.py:3984` is not reached.
- A deployment whose automatic recovery stopped half way refuses its own receipt as "later edits"
  (`scripts/deploy-chat.py:424-437`), though `docs/DEVELOPMENT.md:159-160` says to use it; and a deployment killed in `apply`
  and repeated reports ready without restarting the bot when only its file had been written before: the exception that
  `ReportHonest` names (`LeftBehind`).
- `wifi --clear` and `remove` list or look for directories before they take the build lock
  (`displays/render.py:2412-2455`, `displays/lifecycle.py:365,377`): during the first build of a display they find none and
  succeed, and the build then writes the project, with the old Wi-Fi password, although `docs/DISPLAYS.md:202,207` say that
  `remove` first waits for a running build and that `--clear` skips a display being built with a warning. Without the
  exception that `CleanedUp` names, TLC finds either within ten steps.
- A document excerpt in a prompt ends after 1200 characters and a turn of the conversation after 4000, without the note that
  marks what the budget leaves out (`boat-chat/app.py:4582,1021`; a chunk of the memory index may be longer,
  `boat-chat/memory_index.py:31`). `PromptHonest` names both (`CutUnsaid`).
- A reply of OpenAI, Bedrock or Ollama in a form nobody expected raises outside of the call's `try`: the request ends with
  an error 500, and an answer already computed is lost. `ComputedStands` names them (`ReadOutside`).
- The panel clears overrides without `env_config.locked` (`boat-chat/env_config.py:60`), and a value saved in the page is
  compared with the environment of the process: equal to a stale one, it is not written. `SettingsStand` is about what
  the rest promises.
- Two requests of one session may each read the turns before the other writes: the server's copy loses one
  (`boat-chat/session_store.py:71`).
- Two kills in two rotations of images can lose both (`displays/firmware.py`); `ImageKept` allows for it.
- `displays/schema.py:173` rejects a hysteresis of 0 with equal bounds, which `docs/DISPLAYS.md:611-612`
  allows.
- A connection attempt to Signal K blocks ticks for up to 10 s (`displays/bridge.py:343,517`); the heartbeat
  that `displays/topics.py:280` promises every `heartbeat_s` may be set to 1 to 3 s (`displays/schema.py:596`).
  `ShownSoon` and `StaleInTime` therefore allow for one attempt.
- A command releases the slot before it is marked finished (`control-panel/app.py:1100`), so the status
  page may rank it after an operation started since.
- `displayctl remove`, killed between its two files (`displays/lifecycle.py:371`), leaves the secret;
  a second `remove` refuses the unknown display, and adding the id again hands out the old credentials,
  where `docs/DISPLAYS.md:202` says that it generates new ones.
- The hashing container of a killed command may run on and touch the `passwords.new` of the next
  (`displays/mqtt_auth.py:464`).
- A power cut may undo the last rename of the update's record: its directory is not flushed
  (`control-panel/browser_updates.py:500`).

## 5. The proofs

Proved for every value of the constants that satisfies the module's assumptions:

| Module | Theorem | States |
| --- | --- | --- |
| `MqttPublisherProofs` | `Typing`, `MailboxSafe`, `FlightSafe`, `NeverStalls` | types, `MailboxBacked`, `OneInFlight`, `NoStall` |
| `MqttPublisherProofs` | `EventsInOrder`, `CleanStop` | `EventOrder`, `CleanStopDelivers` |
| `MqttPublisherProofs` | `Implements` | `ChannelSpec`: the publisher refines `RetainedChannel` |
| `HaClientProofs` | `MailboxHolds`, `ShownAreFresh` | `MailboxTrue`, `FreshUnlessEarly` |
| `DeviceProofs` | `RoundsToNearest`, `HeadingOnTheRose`, `RepeatedReading` | rounding is to the nearest; a heading is in 0..359; judging a reading twice gives the same severity |
| `DeviceProofs` | `SeverityIsLatched`, `SeverityNeverChatters` | `Agrees`, `NoChatter` |
| `FreshnessProofs` | `NothingLost`, `StaleIsSeen`, `BoardShown`, `SourcesShown` | `NoLostChange`, `StaleInTime`, `BoardTrue`, `SourcesTrue` |
| `DeviceProofs` | `TouchesTrue`, `AlarmsShown`, `TilesShown` | `TouchTrue`, `AlarmsAndNight`, `TilesTrue` |
| `BoatChatProofs` | `UpdatesHandled`, `ConversationsTrue`, `SettingsHold`, `Deployed`, `AnswersTrue` | `UpdatesHandledOnce`, `ConversationTrue`, `SettingsStand`, `DeployTrue`, `AnswerTrue` |
| `ChatDataProofs` | `LinesFound`, `SummariesHold`, `AnswersAreHonest`, `PowerStaysTrue` | `EveryLineFound`, `SummariesTrue`, `AnswersHonest`, `PowerTrue` |
| `BrowserUpdatesProofs` | `Typing`, `NoOverlap`, `ClaimIsRespected`, `SuccessIsTrue` | types, `OneAtATime`, `ClaimRespected`, `SuccessStands` |
| `DisplaysProofs` | `Typing`, `SuccessInSync`, `OthersUntouched`, `RevokedIsOut`, `PlaintextGone` | types, `InSync`, `Untouched`, `RevokedStaysOut`, `PlainGone` |
| `DisplaysProofs` | `ImagesStay`, `NothingLeft` | `ImagesTrue`, `CleanedUp` |

The assumptions are those the modules name (`...Assumption`): sets of items that do not meet, limits that are
natural numbers and, where the code divides or waits by them, not zero, valid thresholds, a settling time longer
than Signal K's resending, an `Absent` that is nothing else. Three are about data. `AnswerAssumption`: sizes are natural numbers, and the
note of an omission (136 characters) fits the room kept for it (150, `boat-chat/app.py:4617,4645`). `EnginesAssumption`: a reading is a number
or missing, the running threshold is positive and speed bands have a width and a step (`speed_bands` refuses others).
`PowerAssumption`: powers are numbers or missing, and the unit of energy is fine enough that a sign change is not rounded, which for
finitely many powers some `Scale` always is. None bounds the number of topics, items, sessions, updates, observations, minutes, lines or steps.

**Publisher.** Types are split into those of flags and of queues. `MailboxBacked` (each mailbox value has one
command) and `OneInFlight` are inductive with the types and lemmas that count the entries of a queue after an
append, a removal at its head, and a concatenation. `NoStall` needs `AttendedAll`: on a connection, a dirty topic
is one the worker still has to look at, or an acknowledgement or a connection is to come that makes it look again.
`EventOrder` needs the order of all places an event can be in: read by the broker, on the wire, waiting, queued,
each group older than the next (`OrderInv`). `Implements` needs the same of one retained topic (`ChanInv`): broker,
wire, paho, `_retained`, mailbox and bridge hold values that never decrease along the way, so that what the broker
takes is never older than what it has; the proof maps each step to one of the channel's or to a stutter.
`CleanStop` has the longest argument. `StopInv` says, part by part, what is queued while the link is up (it ends
connected), how far the shutdown is, that no connection follows the offline status, where each value is, that the
last packet of a clean topic is the retained value, and that the worker exits with nothing left.

**HaClient.** `MailInv` generalises "an empty mailbox shows the announced state" to every position of the queue: the
last connection event before a position, or the state shown when there is none, is the announced one for the end of
the queue; and between two events an entity occurs once. Each of the ways `_put` changes the queue (append, replace
the entity's entry, merge the oldest two events) is a lemma about sequences. `ShownAreFresh` follows a value from the
session to the drain and to what is shown (`FreshInv`): each is early, or of the session that the connection event
before it announced. Coalescing may drop that event, hence the invariant until the first overflow.

**Gauge.** The code's severity is compared with latches: by the validity of the thresholds (the bounds of a
level lie inside those of the worse one, at least a hysteresis apart), a level's latch falls only where the
code's second test of that level fails. `NoChatter` needs the invariant that the reading remembered in `left`
is cleared of every bound by the hysteresis.

**Freshness.** A change not published is dirty, and a dirty item is published by the first tick after its
interval. The invariant relates what the engine holds to what it last published, per instrument. The clock has one
of its own (`ClockInv`): the thread is late for a tick by no more than one connection attempt. With it,
`InstrumentsTimely` and `HaTimely` say that an item is out of date only while the next tick lies within its interval.
`SummaryInv` is proved across each handler from what a handler changes of the items it counts. For notifications,
`NoteInv` relates three clocks: a report under way is due within the resending time of the change or, when the alarm
was raised before the connection opened, of the connection, and silence is shown as fine only after the connection
has settled; that the settling time is longer is `TimesAssumption`.

**BrowserUpdates.** Who is where in a request that needs the flock holds it, and so does an acting
worker (`SlotInv`); with it the record's id can only be of a worker's own operation. For `SuccessStands`,
`RecordFlow` and `RestartTrue` add what is known of the record and of the running release at each of the
worker's steps.

**DisplayCredentials.** Only the holder of the lock is not idle. `Derived` says what the command at work has
derived from configuration and secrets, file by file, so that at the reload both broker files are exact.
`Untouched` needs that the *files*, not just the broker, grant every steady display its access at every
step (`SteadyFiles`), since the broker may restart between the two installations. `RevokedStaysOut` needs
that revoked passwords are numbered below the next one made.

**DisplayBuild.** A command at its directories holds the lock (`JobsInv`), so that only one works. `RotationInv` says, for
each of the five steps of a rotation, where a whole image is: before the renames the old one, after them the new one;
with it `ImageInv` survives one kill anywhere, and a second only outside of a rotation. `RemoveInv` and `ScrubInv` say
what a removal and a scrub have come to so far, and that nothing begun before, or beginning later, can undo it: a
render needs a configured display, a flash an image, a rename the lock. `OwnInv`, that no project exists
before the display's directory was made, is what lets a command that found none be done.

**DisplayUi.** `TouchInv`: a touch that has acted or has woken the screen is ignored until it is lifted. `AlarmInv`:
the summary counts its alarms, those dismissed are all of them or none, and an old summary counts nothing. `NightInv`:
the palette is the override's or, without one, the schedule's; `AlarmsAndNight` is an action property that follows
from the last two.

**DisplayTiles.** `ScreenInv`: every step that changes what a tile is drawn from redraws it, so that text, level and
colour are always those the data call for, the cached colour included. `LinkInv` says the same of the header except
while the status is on its way. `MemoryInv` says that what is not on its way was received as retained, and is new while
the bridge runs. With `BridgeInv` (a will that is due counts down with the silence) `QuietInv` follows: after the delay
the display has read `offline`, unless a power failure lost the will.

**TelegramBot.** `HandlingInv`: every place that remembers a position (the variable, the file, Telegram, the batch) has
only handled updates before it, and a repeated update is paid for by a kill or a failed reply. `TalkInv` adds to
`ConversationTrue` what the bot waits for: requests are numbered in the order they are posted, none newer than the
one asked is in a conversation, and none before the last `/clear`.

**ChatSettings.** A page's transaction that was not overtaken still sees the override file it will replace (`PageInv`).
`PanelInv` says what the base file holds at each of the panel's steps and what a refused write brings back; that a key
saved with its backed-up value is in effect is part of it, since a restart in between makes the new value the
environment's. `EffectInv` is `SettingsStand` for every key but the one being saved.

**ChatDeploy.** A file the helper has dealt with is as it was meant to be, or edited since (`CommitHolds`, `BackupHolds`),
and the units no longer to restart run what is installed (`HelperInv`). `ReceiptInv` says that a receipt of the bot's
file restarts the bot exactly when it runs; that a unit which is off stays off, whichever old receipt is rolled back, is
part of it. `OwedInv` ties a unit to the files it uses across runs: until somebody edits, one that is owed no
start runs what is installed of them; the bot that is owed one at the end of a run is the exception of `ReportHonest`. Signed versions are all that `DeployTypes` lets into files, receipts and units.

**HistoryCache.** Every entry is of some window as it was when somebody asked, at most one query before it was kept
(`IsKept`, `Pending`). `SameWindow` does the rest: windows of one key begin together and, over or not, end together or
when they were asked for; for a weekend that is so because whole days name its end (`WholeDays`, `StopNamed`), which
needs a day longer than a tick.

**Induction over data.** Four properties of Boat Chat are about sums and recursive functions over lines, minutes, sections and
observations. The library's induction theorems take an operator as a parameter, which the provers cannot instantiate, so
`ChatDataProofs` states induction with sets: a set of numbers has a least one (`LeastNat`, from the well-foundedness of `<`), a
set that has 0 and successors has all of Nat (`NatSteps`), a set of sets that has {} and grows by one element has every finite
set (`FiniteSteps`). That a recursive function defined along `0 .. N` exists, so that its equation may be used, is `StepsExist`.
The community modules define a sum as the value of a chosen function; `SumExists` shows that there is one, and `SumRemove`,
`SumTerms`, `SumOrder`, `SumParts` and `SumSizes` are what follows.

**MemoryIndex.** `Gathered` is the invariant of the scan: each line read so far with words in it is in a chunk, or is still collected
for the next one; flushing keeps it because what it leaves out of the next chunk it has put into this one. `ChunksFind` applies it
at the end of the document. `MemoryInv` says that the stored chunks are those of the version whose hash is stored, unless an edit
fell between reading it and taking its hash, which `mixed` remembers.

**EngineHistory.** Matched minutes and the others are parts of the same finite set, so that their fuel adds up; the balance
is a difference term by term; a narrower filter selects fewer terms, none negative. The number of a band follows from
the bounds of the quotient, the last band taking what is left.

**ChatAnswer.** While supporting evidence is dropped the answer stays, as it is not supporting (`RemainingIs`). While records are
selected what is selected has room, and the first of the order is among it if it has room by itself (`SelectedIs`): the computed
answer is that first one. Hence the condition in `ComputedStands`: a room smaller than the answer alone, which the settings allow,
drops even that. `AnswerInv` carries this from the prompt to the reply, across a fallback that may make a second prompt;
a request that ends with a provider's error is one of `ReadOutside`, and only excerpts of `CutUnsaid` are cut unsaid.

**PowerTracking.** The area under a line with `Scale` pieces telescopes (`PiecesSum`), to a square where the line crosses zero at
one of the pieces' bounds (`AreaDown`, `AreaUp`) and to a trapezoid elsewhere; the code's formulas are these (`EnergyIsArea`,
`EnergyNets`). Pairs of observations are neighbours (`PairsFollow`), so that their seconds are apart, and the sizes of sets
that are apart add up (`CoveredSeconds`). All this is of a table of observations of the past, which `PowerInv` says it is; `PowerInv`
also says that a job at work began no longer ago than its time limit, that what it has computed is of a time since then,
and that nothing kept is from the future.

Only model-checked: `PartConverges`, `Settles`, `RequestsEnd`, `StaleBlanks` and `AllHandled`, because liveness under
fairness is beyond the prover, like `ENABLED`. Every other property of the passing runs is proved.

## 6. What is not modelled

Pure text and presentation: field validation and pages of the control panel, the wizard, templates, the schema apart
from thresholds, layout, fonts, trends and control tiles of a display, the chat's regular expressions, wording, units,
weather, AIS and status pages, the rate limit, embeddings and search. Host configuration by straight-line shell
(`vesselstackctl`, installer, migrations, firewall), whose effect lies outside of the program and whose states it does not
hold. Cryptography, ESPHome and Docker as such. File systems are modelled as atomic renames that last; the consequences
met are in section 4.

## 7. Plan

Modelled and checked: the bridge, severity, what a display shows and how it answers, display credentials and
builds, the panel's slot, and Boat Chat from a question to its answer with its history, memory, settings, bot and
deployment. Proved (section 5): every safety property checked of the publisher, of the Home Assistant client, severity,
engines, panel, credentials and builds, of a display's tiles, touch, alarms and palette, of the Telegram bot, and of the
chat's settings, deployment, cached summaries, solar bookkeeping, engine summaries, answers and memory index.

What is left unproved (section 5) is liveness.

Models worth adding: `ReleaseUpdate`, the install, migrate and roll back steps of the shell scripts with interruption at
every step; the engines feeding `MqttPublisher`, with an abstract specification of what a display is shown that
both and `DisplayTiles` implement.
