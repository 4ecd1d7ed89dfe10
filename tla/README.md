# TLA+ models of LibreEcho

LibreEcho replaces the software of a smart speaker: a set of small C daemons,
each with one main loop and a UNIX control socket (the adapter protocol), and a
web daemon that configures them. This directory holds TLA+ models of the
daemons whose control flow is hard to test, the TLC configurations that explore
them, and proofs checked by TLAPS. File names without a directory are those of
`src/adapter/`; other paths are relative to the root of the repository.

`PROJECT.json` is the index: components, runs, mutants, the source lines behind
every definition, findings, hazards and theorems.

## 1. Inventory

| Part | State it keeps | Operations | Interacts with |
|---|---|---|---|
| Timers, `timerd` | timer table, ids, remote timers, dirty and loaded flags, state file | add, cancel, dismiss, step, cue, load, save, remote events | agent and web (commands), Home Assistant (remote timers), `audiod` (cue), the clock |
| Network, `networkd` | link state, one scan, one association, one DHCP child, gateway ladder, recovery access point, boot marker, reboot guard, password and settings files | scan, connect, disconnect, recovery stop and configure, ticks, child exits | `wpa_supplicant`, hostapd, dnsmasq, DHCP, `ledd`, web |
| Watchdog, `watchdogd` | per service: seen, failures, back-off, storm window, given up, grace | probe, decide, restart group | init scripts, saved voice mode |
| Voice owner, `src/api.c` | mode, pending transition, snapshot for roll-back, forked worker | select, reap, roll back, worker's stops and starts | init scripts, configuration file, watchdog |
| Live conversation, `lived` | pre-roll ring, session, delegation cache, transport, sink, subscriptions | wake, feed, pump, interrupt, delegate, close, enable, stop | `waked` (wake events, audio), remote model, playback bus |
| Wake word, `waked` and `wake_worker` | subscribers, bounded queue of blocks, decoder, engine, reload | feed, infer, detect, reload, subscribe | `micd`, `lived`, `agentd`, `ledd` |
| Microphone, `micd` and `capture_mux` | stream worker and its capture program, mixer profile, beam levels | stream, reap, test, report, stop | `waked`, `sttd`, codec |
| Conversation, `agentd`, `sttd`, `ttsd` | turn, follow-up, recogniser connection, playback queue, two histories, account | wake, listen, answer, speak, stop, clear | `waked`, `ttsd`, `timerd`, model providers |
| Speaker, `audiod` and `airplayd` | level and its owner, restore record, children that write sound, receiver processes | set, callback, restore, start and stop sounds, enable, reap | each other through files, audio engine, `buttond` |
| Bluetooth, `btd`, `bt_profile.c` | controller, bonds in two files, pairing window, stream sessions, phone volume | enable, pair, unpair, window, signal, volume | controller, phones, `audiod` |
| Light and buttons, `ledd`, `buttond` | layers, cues with owners, mute underlay, sleep light, paced writes; latch, cached mute, lamp | ask, expire, write, press, heartbeat | all daemons, `audiod` |
| Streams, `radiod`, `sendspind` | player and fetcher processes; generation, unanswered frame, operation in progress | play, stop, pause, reconnect; start, write, seek, end | stations, audio engine |
| Discovery, `mdnsd` | connections, leases, service files, dbus and avahi children | register, withdraw, expire, restart | `sendspind`, `esphomed`, avahi |
| Web daemon, `src/http_server.c`, `src/api.c`, `src/backend_linux.c`, `src/provision.c`, `src/auth.c`, `src/config.c` | setup progress, configuration worker, sessions, users, factory reset | document, wizard, settings, log in and out, reset | every daemon through the adapter protocol |
| Clock, `timed` | network wait, ntpd child, status file | wait, sync, time out, retry, stop | ntpd, `timerd`, web |
| Support: `logd`, feature manifests, diagnostics, signal processing, codecs, boot record | | | |

What is hard, by part:

- **Timers.** Two clocks, one of which reads near zero until NTP sets it; a state
  file that may only be read once the clock is credible, while requests are
  already served; a save whose five file operations fail one by one; a cue that
  blocks the loop; crashes and power loss.
- **Network.** One radio shared by client and access point; four asynchronous
  operations that clients start, abandon and cancel; helpers and children that
  fail; files written by temporary, rename and sync with the power going
  between any two of these.
- **Watchdog and voice owner.** Two processes run the same init scripts with the
  saved mode as their only coordination; restarts under a back-off and a storm
  limit measured in fixed windows.
- **Live conversation.** A loop that blocks while it connects and plays; frames
  that arrive in pieces over deadlines; audio of an interrupted answer that is
  already decoded; actions that must run once.
- **Wake word and microphone.** Inference thread against main thread, a bounded
  queue, a reload whose timeout races its completion; worker processes that
  hold the one codec and outlive their daemon; shared memory without a lock.
- **Conversation.** Three threads and two mutexes; cancellation against
  synthesis and playback; late transcripts and failures after the owner has
  cleared the history.
- **Speaker.** One level with two writers and a restore record between them,
  either of which dies between two durable writes; children whose exits, stops
  and reaping cross.
- **Bluetooth.** Events handled while a command waits for its reply; replies
  lost or late; two files that must agree; a volume with an echo.
- **Light and buttons.** Layers and leases of clients that die; a cached mute
  that three parties change; writes that fail.
- **Streams and discovery.** A player that supervises itself against the daemon
  that stops it; answers read by the wrong operation; leases of programs that
  restarted.
- **Web daemon.** A forked worker with its own copy of the configuration against
  later requests; setup resumed after a restart; a reset against the supervisor
  that restarts what it stopped.

The properties that make each modelled part correct are in section 3.

## 2. Modules

| Module | Models | Used by |
|---|---|---|
| `TimerSchedule` | `timer_schedule.c`: pure rules on the timer table | `TimerDaemon` |
| `TimerDaemon` | `timerd.c`: loop, commands, remote timers, persistence, clocks | `MCTimers` |
| `TimerDaemonProofs` | theorems about `TimerDaemon` and, in its last part, about `StreamService` | |
| `RecoveryAp` | `network_health.c` (the gateway ladder) and `network_recovery.c` (the access point) as operators on records, and the latter's password and settings files step by step | `Networkd` |
| `Networkd` | `networkd.c`: the poll loop with supplicant, DHCP and clients | `NetworkService` |
| `NetworkService` | daemon and files together, and the list a scan answers | `MCNetworkd` |
| `NetworkProofs` | theorems about `NetworkService` | |
| `WatchdogPolicy` | `watchdog_policy.c` | the next two |
| `WatchdogService` | `watchdogd.c` for one service, with real time | `VoiceSupervision` (as `Alone`) |
| `VoiceSupervision` | `watchdogd.c` with groups and voice owners, beside the restart worker of `src/api.c` | `MCVoiceSupervision` |
| `Lived` | `live_ring.c`, `live_session.c`, `live_transport_realtime.c`, `live_audio_out.c` as operators on a session record; `lived.c`: the pass of the daemon, beside `waked` and the remote model | `LiveService` |
| `LiveService` | the WebSocket client `ws_client.c`, the connection of `live_transport_realtime.c`, `live_tools.c` | `MCLived` |
| `LiveProofs` | theorems about `LiveService` and, in its last part, about `LightAndButtons` | |
| `SpeakerVolume` | the level of `audiod.c` and `airplay_master_poll` of `airplayd.c` | `AirplayReceiver` |
| `AirplayReceiver` | the children of `airplayd.c` | `AudioService` |
| `AudioService` | noise, cues, samples, reference level and levelling of `audiod.c`, and the three together | `MCAudioService` |
| `AudioProofs` | theorems about `AudioService` | |
| `VoiceTurns` | what `docs/voice-history-core.md` promises (abstract) | `AgentService` (refinement) |
| `VoicePipeline` | `voice_pipeline.c`, `sttd.c`, `voice_history.c`, the saved turn log; `voice_playback.c`, `play_sentence_internal`, `ttsd.c` | `AgentService` |
| `AgentService` | `agentd.c`: its threads and what they answer | `MCAgentService` |
| `AgentProofs` | theorems about `AgentService` | |
| `BtController` | `btd.c`: controller, bonds, window, commands | `BluetoothService` |
| `BluetoothService` | `bt_profile.c`: service search, AVDTP, AVRCP | `MCBluetoothService` |
| `BluetoothProofs` | theorems about `BluetoothService` and, in its last part, about `VoiceSupervision` | |
| `RingLight` | `ledd.c` | `LightAndButtons` |
| `LightAndButtons` | `buttond.c`, and both together | `MCLightAndButtons` |
| `Microphone` | `micd.c`, `capture_mux.c` | `WakeService` |
| `WakeService` | `wake_worker.c`, `waked.c`, the start and supervision of the pair | `MCWakeService` |
| `WakeProofs` | theorems about `WakeService` | |
| `RadioPlayer` | `radiod.c`, the player and the HLS fetcher | `StreamService` |
| `SendspinSink` | the engine client, session and listener of `sendspind` | `StreamService` |
| `StreamService` | `mdnsd.c`, `mdns_lease.c`, the clients of both programs, and the three together | `MCStreamService` |
| `FirstBoot` | `src/provision.c`, the wizard and its worker (`src/api.c`, `src/http_config_worker.inc`, `src/http_server.c`) | `WebService` |
| `WebService` | `src/auth.c`, the factory reset of `src/backend_linux.c` and `src/factory_reset.c`, `timed.c` | `MCWebService` |
| `WebProofs` | theorems about `WebService` | |
| `MC...` | the setups TLC explores, one module per run | |

Conventions:

- A pure C module is a set of operators on a record that carries the fields of
  its struct which decide behaviour; the daemon's module holds the variables and
  one action per handler. Variables keep the C names where possible and a
  comment next to each declaration gives the field.
- A daemon is single-threaded unless said otherwise, so a handler is one action.
  Where it blocks, can be killed in the middle or hands events out while it
  waits, it is several, and a field (`phase`, `pc`, `at`, `op`) says where it is.
- `setup` is a variable chosen in `Init` and never changed. It fixes which
  requests arrive and what may go wrong, and how often, so that one run explores
  several surroundings of one component; `left`, `budget` and `spent` count what
  is used up. In the composed services a setup also says which of several parts
  that share no state moves (`part`, `parts`, `alone`, `wire`): the others stand
  still, which keeps their product out of the state space and loses no
  behaviour of any of them. In `LightAndButtons` it is called `env`, in
  `VoiceSupervision` and `StreamService` `scene`.
- An operator named `Bug...` is a mutation of the definition named in the
  comment above it or following it, never used by the specification. Replacing
  the definition by it violates the property listed with it in `PROJECT.json`,
  which shows that the property depends on that piece of the code.
- A variable or field marked "history" is read by properties only.

### Timers

`TimerDaemon` follows the loop of `main()`: `LoopTop`, the load (`LoadNoFile`,
`LoadSkip`, `LoadLine`, `LoadEnd`), `Step`, `CueDone`, the save (`SaveIfDirty`,
with one outcome per file operation that can fail) and `EnterPoll`. Client
commands (`AddCountdown`, `AddAlarm`, `CancelAll`, `CancelAt`, `CancelLabel`,
`DismissId`, `DismissAll`) and Home Assistant events (`RemoteStarted`,
`RemoteUpdated`, `RemoteCancelled`, `RemoteFinished`, `RemoteClear`) are served
while it polls. `Crash`, `PowerCycle`, `Terminate`, `Restart`, `Tick` and
`ClockSet` are the environment. `file` is what the process reads back,
`survivors` the contents a power loss may leave. Seconds are `MsPerSec` units,
and the conversions keep C's rounding.

### Network

`Networkd` has one action per event of the poll loop. wpa_supplicant is an
external record (`Wpa`) with the commands networkd sends; a DHCP child, the net
helpers, hostapd and dnsmasq succeed or fail. Deadlines are untimed: a timeout
is an action that is enabled while the thing it bounds is under way, so every order of late answers and timeouts is explored. The second half of
`RecoveryAp` splits the same file operations into their system calls over `dir` (what processes see) and
`disk` (what a power cut leaves). In `NetworkService` the rows of a scan become
the answered list by the code's own exchange sort and table limits, for
wpa_supplicant, the wireless extensions and nl80211.

### Watchdog and voice owner

`VoiceSupervision` splits a pass of the watchdog (`BeginPass`, `ProbeService`,
`Decide`, `StopMember`, `RereadMode`, `StartMember`, `LaunchMember`) and the
worker's script (`WorkerStops`, `WorkerChecks`, `WorkerBegins`,
`WorkerLaunches`, `WorkerEnds`), and interleaves them with the requests of the
web daemon (`SelectStarts` and its refusals, `Reap`). `WatchdogService`, moved in
the setup `Storming`, runs one service through the same policy on a longer time
scale and keeps the restarts of the last window.

### Live conversation

`Lived` follows `run_lived`: `BeginPass` (reconnect and poll), `DrainWake`,
`DrainAudio`, `Control`, `Pump`, with `StartReturns` and `WriteReturns` as the
second halves of the two blocking calls. The session's clock is kept as ages;
after a blocking write the pump goes on with the time it read before (`late`).
The remote model is external: it is ready once or twice, ends a user turn before
it sends the audio and delegations that answer it, and ends its own turn after
them; this order is taken from `tests/fake_live_server.py`. `LiveService` adds
the connection: credentials, address, TLS, handshake, session request, then
frames read in whatever pieces arrive before a deadline, and the tools that a
delegated request runs with an answer from each daemon that may be missing.

### Speaker and AirPlay

`SpeakerVolume` makes every durable write of the two daemons a step: the
published level, the restore record, the sender's marker, the callback and its
acknowledgement, so that either may die between any two. Sessions and callbacks
are numbered in the order of the creation times the code compares.
`AirplayReceiver` has the enable sequence with its waits, `Pass` (reap and
restart) and the zombie that `kill(pid, 0)` still finds. `AudioService` follows
`audiod`'s own children from `fork` over the installation of their signal handler
to `waitpid`. Four histories serve the properties: the levels the owner may
rightly find (`asked`), the callback he last overrode (`pressed`), the session
whose status and end `airplayd` lost with its bridge (`files.left`), and `spent`.

### Conversation

`VoicePipeline` numbers a turn when its wake word is heard; the capture thread,
`sttd`'s one connection and the deadline race for its outcome. `AgentService`
has the two threads behind the control mutex; the playback worker takes only the
metrics mutex. `MaxTurns` bounds the numbers the histories of a turn are kept for. The refinement `TurnsImplemented` maps the
turns in anyone's hands to `open` of `VoiceTurns` and the reported outcomes to
`outcome`.

### Bluetooth

Each management command of `btd` is a step (`b` holds the command in progress),
because `mgmt_command` handles events while it waits; it may be carried out,
refused, or answered too late. The two databases are saved by separate steps.
`BluetoothService` adds the profile sessions: slots shared by signalling and
media, the stream's states, and a phone's slider on the scale 0..127.

### Light and buttons

`RingLight` names a frame by what it shows and keeps what decides which frame
that is: layers, cue and interrupted cue with their owners, the mute underlay,
deadlines. `Turns` is one pass of the loop, `Delivers` the paced write.
`LightAndButtons` adds `buttond` with one step for each call it waits for.

### Microphone and wake word

`Microphone` keeps each stream worker and its capture program as processes with
the codec as the shared resource, and the sequence lock of the beam levels as
separate reads and writes. `WakeService` has the inference thread (`k.pc`), the
main loop with its subscribers, and what the init scripts and the watchdog do to
the pair.

### Streams, discovery, web

`RadioPlayer` has the record of `radiod`, the player process and the fetcher with
its window on a playlist that moves. `SendspinSink` has one operation at a time
(the listener's lock) over datagrams that arrive late. `StreamService` adds the
connection table of `mdnsd`, its leases and files, and the two programs with
their runs. `FirstBoot` gives the forked worker its own copy of the daemon's
memory; `WebService` adds the session table and its file, the reset with the
supervisor beside it, and `timed`. The supervisor acts only on what its own
process has seen answer (`watch.seen`, `watchdogd.c:15-19`): the reset stops that
process, a refused reset starts another, which has seen nothing. `watch.lost` is
history: what went down while no supervisor had seen it, and that nobody starts
any more.

## 3. Runs

Every property of a passing run also has a mutant. Names in brackets are the
named parts of a composed property.

| Run | Properties | Distinct states |
|---|---|---|
| `timers` | `IdsUnique`, `RingsInTime`, `SchedulePersisted`, `LoopSettles` | 1 260 143 |
| `network_service` | `ClientsHonest`, `RecoveryHonest`, `RebootsEarned`, `NetworkSettles` | 315 893 |
| `voice_supervision` | `OwnersHonest`, `RestartsBounded`, `SupervisionSettles` | 112 721 |
| `live_conversation` | `SessionHonest`, `UploadCurrent`, `WireHonest`, `ConversationsEnd` | 327 281 |
| `audio_service` | `LevelHonest`, `ChildrenAccounted`, `ButtonWins`, `OwnerHeard`, `ServiceReturns` | 216 067 |
| `agent_service` | `TurnsTruthful`, `TurnsImplemented`, `CancelledFallsSilent`, `ListensAfterItsQuestion` | 102 363 |
| `bluetooth_service` | `BondsAccounted`, `WindowRestored`, `StreamOwned`, `SliderSettles` | 147 369 |
| `light_and_buttons` | `RingTruthful`, `ExpiredLightForgotten`, `MuteFollowed` | 70 586 |
| `wake_service` | `WorkerTruthful`, `CaptureTruthful`, `WakeReturns` | 83 577 |
| `web_service` | `SessionsHonest`, `WipedAndTimed`, `WizardKept`, `AdminSettles` | 202 786 |
| `stream_service` | `StreamsHonest`, `StreamsSettle` | 270 925 |
| `wake_restart` | `WakeReturns` is violated: see section 5 | |

What they show:

- **Timers.** `IdsUnique`: an id names one timer and is not handed out while it
  does, across the deferred restore. `RingsInTime` [`CountdownNeverMissed`,
  `AlarmNeverMissed`, `NotEarly`, `RingBounded`]: poll timeout, blocking cue and
  grace leave enough room, rounding loses at most two seconds per save and
  restore, and a ring ends. `SchedulePersisted` [`CleanMeansSaved`,
  `CleanMeansDurable`]: a daemon with nothing to save has every pending timer in
  the file and (before its first stop) in every content a power loss may leave.
  `LoopSettles` [`NoBusyLoop`, `RingNotExtended`]: the loop always sleeps again,
  and Home Assistant's repetitions do not prolong a ring.
- **Network.** `ClientsHonest` [`RequestsOwned`, `WorkingProfileKept`,
  `ListHonest`], `RecoveryHonest` [`OwnershipTracked`, `ApBacked`,
  `NoStrayChildren`, `LedTruthful`, `RadioExclusive`, `HandoverOwned`,
  `FilesHonest`]: radio, access point and files are what the state machine says
  and what the owner was told. `RebootsEarned`: at most one reboot, only after
  both milder steps. `NetworkSettles` [`RequestsAnswered`, `ReleaseSettled`].
- **Voice and watchdog.** `OwnersHonest` [`VoiceExclusive`, `NoStartRace`,
  `IntentSaved`, `OwnerSettled`]. `RestartsBounded` [`StormBounded`,
  `RestartEarned`]: a restart needs its own run of failed probes, and no stretch
  as long as a storm window has more than twice the limit less one restarts (the
  windows are fixed, so twice is the best there is). `SupervisionSettles`
  [`GivesUp`, `CaptureRecovers`].
- **Live.** `SessionHonest` [`ClosedMeansReleased`, `InterruptedSilent`,
  `DelegationOnce`, `DisabledHoldsNothing`]; `UploadCurrent`: with an
  uninterrupted stream and a connection shorter than the ring, everything since
  the wake has been sent each time the daemon sleeps; `WireHonest`: the reader
  stays in step with the frames whatever the deadlines cut, the token is shown
  only to a verified server or this device, and the model is told of a success
  only if a daemon confirmed it; `ConversationsEnd`.
- **Audio.** `LevelHonest` [`OwnerLevelKept`, `AdmissionSound`]: the engine plays
  a sender only at an acknowledged level, and the owner's level survives every
  death between two writes. `ButtonWins`: a retried callback never undoes the
  owner's choice. `OwnerHeard`: the level comes back when the sender has gone.
  `ChildrenAccounted` [`WritersExclusive`, `NoStrays`, `PlayerBound`],
  `ServiceReturns` [`StopReturns`, `ReceiverWhole`].
- **Agent.** `TurnsImplemented`: the threads implement `VoiceTurns` (one turn in
  flight, exactly one outcome each, and an outcome for each turn that begins).
  `TurnsTruthful` [`ClearedStaysCleared`, `StreamTruthful`]: nothing from before
  a clear appears after it, in memory or in the file, and speech counted as
  spoken was heard. `CancelledFallsSilent`, `ListensAfterItsQuestion`.
- **Bluetooth.** `BondsAccounted`: a key that outlives the daemon belongs to a
  phone the owner is shown, and an unpaired phone's keys are nowhere.
  `WindowRestored`: after the window the controller has the owner's settings.
  `StreamOwned`, `SliderSettles`.
- **Light and buttons.** `RingTruthful`: a cue belongs to someone who wants it,
  and the ring rests in the colour asked for and saved. `ExpiredLightForgotten`:
  the owed save is paid. `MuteFollowed`: latch, microphone, ring and lamp agree
  in the end.
- **Wake.** `WorkerTruthful`: the answer to `set_word` is true also when its wait
  times out, no model leaks, a word is one event. `CaptureTruthful`: one program
  at the codec, and beam levels from one hop. `WakeReturns`: listening,
  subscribed and with the light off, again and again.
- **Web.** `SessionsHonest`: a token ended is never honoured again, a promised
  one is until it ends, over restarts and failed saves. `WipedAndTimed`
  [`ResetClean`, `ClockHonest`]. `WizardKept`: choices outlive the worker that
  writes them. `AdminSettles`: setup and clock come to their end, and a refused
  reset to every service running but those in `watch.lost` (section 5,
  `LeftAsFound`): what the reset stopped and could start again is back, the
  capture pair as one, and what a supervisor has seen is started by it.
- **Streams.** `StreamsHonest` [`RadioHonest`, `SinkHonest`, `DiscoveryHonest`]:
  the record is what plays, no player outlives its stop, audio arrives once and
  in order, nothing is advertised that nobody stands for. `StreamsSettle`.

Deadlock is checked for the timers, the network and the live conversation. In
the other runs the counted requests and faults of a setup are used up and the
daemons then wait for more, which is the end of those behaviours.

### Bounds

- Timers: two slots (all rules speak of one slot or a pair), two units per
  second (the smallest with rounding), ring, grace and poll cap of a few units,
  so that a blocked cue or a long poll can straddle each deadline; `maxReal`,
  `maxNextId` and `maxStops` of the setup cap time, ids and stops.
- Network: two clients (one waits while the other leaves or cancels), two
  profiles (the working one and a candidate), two failed probes instead of
  three; two password generations; up to three rows of a scan over a table and
  an answer that hold fewer (`ScanSizes`).
- Watchdog: a limit of three restarts in twelve units with back-offs 1, 2, 3 for
  the single service, two in four units for the groups; faults and selections
  are counted per setup (at most three each).
- Live: a ring of five frames with one of pre-roll, so that it overflows within a
  conversation; two turns, one delegation id with a cache of one; two messages on
  their way; on the wire frames of up to two payload units after a header of two,
  so that each can be cut at every place. The socket holds three frames in
  `Conversing`; in `SlowConnecting` a connection takes up to five units, the socket
  holds five frames and seven are published. `MaxSession` is larger than
  `ConversationTimeout` and both are reached.
- Audio: two sessions with two callbacks, two deaths or two faults; three
  children of `audiod`, enough for a stopped, a fading and a new one.
- Agent: three turns with three wake words, queue and history of two (both
  overflow), follow-ups to depth two, three phrases of streamed speech.
- Bluetooth: two phones, a device table of one or three, three requests, two
  deaths or faults; slider positions at both ends and at a place where the two
  scales round.
- Light and buttons: up to four requests in one behaviour (a cue, one over it,
  and the ends of both), two mutes, two presses with two repeats, one death.
- Wake: a queue of two blocks with four offered, three reloads, two workers
  (a dying one and its successor).
- Web: two session slots with three log-ins, two deaths, a lifetime of two; one
  reset refused once, with one death, with one further start that fails, or with
  a stop that fails although its service is gone (the supervisor, `btd`, `waked`,
  `micd`); three failed syncs.
- Streams: two players, two reconnects, a playlist window of three over a pipe
  of one, two stalls; two frames of audio, four datagrams per operation, two
  retried generations; two connection slots of `mdnsd` and two programs.

No symmetry reduction is used.

### Fairness

Only the daemons' own loops, threads and timeouts are fair; nothing is assumed of
users, networks, remote ends or daemons that may fail. Weak fairness stands for a
loop, thread or process that goes on when it can; strong fairness is used where
other events of the same loop can interrupt a step's readiness, yet the code
comes back to it.

- `TimerDaemon`: `WF(Loop)`. The loop waits on nothing but poll and the cue,
  which both time out.
- `NetworkService`: the ends of an association, a DHCP child and a scan, the
  retry of an owed net-down, and reading queued netlink events: the poll timeout
  is computed from these deadlines.
- `VoiceSupervision`: the watchdog's pass, the worker, a daemon leaving after its
  stream has ended; the single-service loop. Probes and scripts are bounded.
- `LiveService`: `WF(LivedStep)`, as every call of a pass is bounded, `SF(Tick)`:
  poll may return at once any number of times but time does not stand still; the
  reading of the wire and the arrival of what the server already wrote.
- `AudioService`: both loops, each step of an enable, the children, `waitpid`;
  `SF(Pass)` of the receiver, because an enable takes its place in the loop.
- `AgentService`: the capture thread, `sttd`, the playback worker; `SF` of each
  agent thread, because the control mutex is handed to either (pthread mutexes
  of this use are held for bounded times).
- `BluetoothService`: setting the local volume, `audiod`'s late application and a
  phone's registration, which AVRCP asks of it after each notification.
- `LightAndButtons`: loops of both daemons, the paced write, releases of pressed
  keys; `SF(Beat)`, as other polls may come between heartbeats. `ledd` and
  `audiod` are started again by their init scripts.
- `WakeService` (setups that settle): the workers' ends, reaping, the watchdog's
  restart, the expiry of the pulse; `SF` of the agent's subscription, which it
  retries while another client may take the slot.
- `WebService`, `StreamService` (setups that settle): the daemons' loops, workers
  and children, the supervisor's probes and its restarts; a station or service that is not broken answers in the end.

## 4. Proofs

Eight modules hold the theorems; each is about one composed specification
(`TimerDaemonProofs`, `LiveProofs` and `BluetoothProofs` about two that share
nothing) and for every value of its constants: any number of slots, clients, sessions, turns, frames or
children, any set of setups that is well formed (requests, faults and how many of
each), which a run can only sample. The assumptions are those stated
beside the constants; TLC evaluates each of them in the run of the module. What
they ask is that counts are natural numbers, that capacities are not zero, that
"nobody" is not somebody, and that a setup has the fields the module reads.

Every proof has the same layout. An invariant strong enough to be kept by each
step is written as a conjunction of named parts; one lemma shows that the initial
states have it, one lemma for each action or group of actions that it is kept, and
the theorem joins them with the lemma that the invariant implies the property.
Every inductive invariant was first checked by TLC on the run's instance. Where
parts of a specification share no variables, each has an invariant of its own, and
a step of one keeps the others unchanged.

| Module | Theorems | Assumes |
|---|---|---|
| `TimerDaemonProofs` | `TypeCorrect`, `UniqueIds`, `ScheduleAlwaysPersisted`, `AlwaysRingsInTime`, `RingNeverExtended`; `StreamsAlwaysHonest` | `ScheduleAssumption`, `DaemonAssumption`, `TimingAssumption`; `RadioAssumption`, `ClientsAssumption` |
| `NetworkProofs` | `TypeCorrect`, `RebootsAlwaysEarned`, `ClientsAlwaysHonest`, `RecoveryAlwaysHonest` | `ThresholdAssumption`, `SecretsAssumption`, `NetworkdAssumption` |
| `LiveProofs` | `WireAlwaysHonest`, `SessionAlwaysHonest`, `UploadAlwaysCurrent`; `RingAlwaysTruthful` | `SessionAssumption`, `LivedAssumption`, `WireAssumption`; `LightAssumption` |
| `AudioProofs` | `ChildrenAlwaysAccounted`, `LevelAlwaysHonest`, `ButtonAlwaysWins` | `AudioAssumption`, `SoundsAssumption` |
| `AgentProofs` | `TurnsAlwaysTruthful`, `AlwaysListensAfter`, `TurnsKeepTheirPromise` | `AgentAssumption` |
| `BluetoothProofs` | `StreamAlwaysOwned`, `BondsAlwaysAccounted`, `WindowAlwaysRestored`; `RestartsAlwaysBounded` | `SetupsAssumption`; `PolicyAssumption`, `LoneAssumption` |
| `WakeProofs` | `WorkerAlwaysTruthful`, `CaptureAlwaysTruthful` | `WakeAssumption` |
| `WebProofs` | `SessionsAlwaysHonest`, `AlwaysWipedAndTimed`, `WizardAlwaysKept` | `SessionAssumption`, `SetupsAssumption` |

### Timers

- `TypeCorrect`: one lemma for each group of actions (loop, local requests,
  remote requests, environment), resting on lemmas about what the schedule's
  rules return.
- `UniqueIds`. The inductive invariant is `TypeOK`, `IdsUnique` and `nextId > 0`.
  The first conjunct of `IdsUnique` (every live id is in `1 .. nextId - 1`) is
  what makes a new id fresh. Actions fall into two kinds: those that only free
  slots or keep ids (`OnlyFreesKeepsIds`), and those that put one timer into a
  free slot with an id no live timer has (`FreshIdKeepsIds`). The interesting
  one is `LoadLine`, which keeps the persisted id and raises `nextId` past it, or
  gives a fresh id to a record without one, or drops a record whose id is taken.
- `ScheduleAlwaysPersisted` (`PersistInv`). That `dirty` is clear must mean that
  every pending timer is in the file and in every content a power loss may leave;
  the invariant also says what a half-done load owes and that the number of stops
  only counts stops.
- `AlwaysRingsInTime` (`ClockInv`, `NearInv`, `SlipInv`). `ClockInv` relates the
  monotonic and the wall clock, `NearInv` says how far the loop may be past a
  deadline while it sleeps or plays a cue, and `SlipInv` adds the roundings: each
  process that saves and restores a timer moves it by at most
  `2 * (MsPerSec - 1)`. `TimingAssumption` says that one cue is shorter than the
  grace, and that a clock which is never set does not count up to a credible date.
- `RingNeverExtended` is the safety half of `LoopSettles`.

### Network

The loop and the files are the two parts of `NetworkService`. `LoopInv` is
`DeskInv` and `LadderInv`:

- `DeskInv` says which states the four operations, the association, the DHCP child
  and the supplicant can be in together: an operation has at most one client and a
  client at most one operation (`Owned`), and the profile of the last confirmed
  lease is in the supplicant's file whenever no attempt to replace it is under
  way, and remembered for the roll-back while one is (`WpaInv`). It gives
  `TypeCorrect` and `ClientsAlwaysHonest`. The latter leaves out `ListHonest`: it
  follows the code's exchange sort, which is a fold over the rows, and what a
  fold computes for every list is an induction the provers cannot do.
- `LadderInv` says that each phase of the gateway ladder is reached only over the
  rungs below it, since the gateway last answered, and that the boot guard is
  written before the reboot is asked for. From it `RebootsAlwaysEarned`.
- `RecoveryAlwaysHonest` is proved of the surroundings in which the property
  holds, `ServiceSpec /\ Sheltered /\ Unmixed => []RecoveryHonest`; every setup of
  the run satisfies both hypotheses, and section 5 names a setup against each of
  their conjuncts. `Sheltered` (for a daemon given a marker path) excludes the
  opt-in fallback (`AutoFallback`), a disconnect during a hand-over
  (`HandingOver`), a death of the daemon (`Orphaned`), and a termination whose
  net-down fails (`OwedRestart`). `Unmixed` excludes a power cut between the
  renames (`Torn`), and one that meets a rename not yet synced (`NotSynced`) or
  rolled back (`Unwound`). `ApInv` relates the record's mode to the platform
  (radio, children, light) and to the association that carries a hand-over;
  `FilesInv` says, for each step of an operation on a file, which content is on
  disk, which a power cut may leave and which the owner has been told of.

### Live conversation

- `WireAlwaysHonest` (`WireInv`): the bytes the reader has taken are the position
  the frames it saw end at (`Position`), frames are numbered in the order they
  were written (`Numbered`), a token is only held by an open transport
  (`Trusted`), and only a confirmed action is told of as done (`Told`).
- `SessionAlwaysHonest` (`SessionInv`): what each state of the session holds
  (`Placed`), what a blocking call may return to (`Underway`), that a message on
  its way belongs to a turn the session still knows or has silenced (`Talks`), and
  that the cache and the executed ids agree for the last `CacheMax` (`Caching`).
- `UploadAlwaysCurrent` (`UploadAll`): while `Steady`, the frames not yet sent are
  bounded by what waked publishes during the blocking calls that may follow each
  other, so the ring never overwrites one of them (`BacklogInv`, `StreamInv`).
  `Steady` is part of the property: no subscription is lost, no start fails, the
  pre-roll is not zero, and ring and socket hold what arrives in a connection and
  one blocking write.

### Speaker and AirPlay

`ServiceInv` has three parts.

- `SoundInv`: at most one child per kind writes, each kept in the slot of its
  kind or waited for by name. With `ReceiverInv` (`Whole`, `NoStrays`, `Bound`:
  the pids `airplayd` remembers are exactly its living children) it gives
  `ChildrenAlwaysAccounted`, under `PipeHeld`: enabling with the metadata pipe lost
  starts children over live ones (setup `PipeLost`).
- `VolumeInv` gives `LevelAlwaysHonest` and `ButtonAlwaysWins`. `Staged` says
  where `audiod` is in a change or a restoration, `Durable` which of the restore
  record, the published level and the marker hold what at each of those steps,
  `Owned` that the level a death would leave or a restart take is the owner's or
  a sender's that is still there, `Beliefs` and `Claimed` what `airplayd` may
  take as acknowledged, `Pressed` that a callback from before the owner's press is
  older than the override. The hypothesis `Undoable` excludes an undo that fails
  and is followed by a death of `audiod` (setup `UndoLost`).

Both hypotheses hold in every setup of the run.

### Conversation

`AgentInv` joins `TalkInv` (which thread holds a turn: a turn begun is in exactly
one hand until its outcome is recorded, at most one is in flight, and whoever
serves the voice knows its number), the follow-up (`FollowInv`), the saved log
(`LogInv`) and the streamed speech (`StreamInv`). From it follow
`TurnsAlwaysTruthful`, `AlwaysListensAfter`, and `TurnsKeepTheirPromise`: every
initial state of `AgentService` is one of `VoiceTurns` under the refinement
mapping, and every step a step of it or a stutter. This is the safety half of
`TurnsImplemented`; that a turn which began gets its outcome is liveness, and
model-checked.

### Bluetooth

`StreamInv` ties `stream_active` to the states of the slots for
`StreamAlwaysOwned`. `BondInv` says, for each command in progress, which commands
are still to come, and so which of the two files may be behind the other:
`BondsAlwaysAccounted`. `WindowInv` says what the open window has yet to put back
and that it remembers the owner's settings: `WindowAlwaysRestored`.

### Watchdog

`RestartsAlwaysBounded` (`StormInv`, in the last part of `BluetoothProofs`) holds
for any limits, any order of answers and silences, and init scripts of any length.
The policy counts the restarts of its own window only, and that window is opened
by a failed probe and begins anew with its first restart. `StormInv` splits the
restarts of the last stretch into those the policy counts (`Counted`) and those
from before its window (`Earlier`), which are fewer than the limit: while a window
is open its first restart is still recent (`p.window \in ages`), so when it closes
that one has gone. A service that answers for the healthy time has no recent
restart at all, which is where `LoneAssumption` uses that this time is longer than
the storm window. For the other half, the failures the policy holds are those since
the last answer or restart (`streak`).

### Light and buttons

`RingAlwaysTruthful` (`LightInv`, at the end of `LiveProofs`) holds for any
number of requests, faults and restarts. `RingTruthful` is not inductive, for it
does not say what will come back. `Wanted` says that the cue and the one
remembered under it have different owners (unless neither has one), so that what
is shown when one ends is never another cue of the owner who ended it, and that
the mute underlay stays while its owner wants it; `MuteAlone`, that nothing is
remembered under a cue of "mute", so that the end of that cue ends the underlay
too; `Rests`, that the colour kept for the end of a cue and of the test pattern
is the current one. A request or an expiry either leaves all of these fields
alone (`SameCues`, for what is drawn over the cues) or is `StartPattern`,
`StopPattern`, `UpdatePattern`, a new colour or the test, which have a lemma each.
`LightAssumption` asks of a request that it is one the daemon knows, with names
from `Names`.

### Radio and discovery

`StreamsAlwaysHonest` (the last part of `TimerDaemonProofs`) is `StreamsHonest` in
every scene but two kinds, `scene.part # "sendspin" /\ ~scene.orphans`: section 5
names a scene of the bridge (`Misread`) and one of a player that outlives `radiod`
(`Orphaned`) in which the property fails. The two parts share nothing, so a step of
one keeps the invariant of the other.

- `RadioInv`. `RecordOK` relates radiod's record to all the player processes:
  nobody may play whom the record does not name, and a record that names nobody
  is not paused either, so that the next player is not taken for a paused one
  (`paused` is what the process is, unless a control call ran out of time). What
  a request does first, reaping and stopping, is stated once (`ReapedOK`,
  `StoppedOK`): a stop that runs out of time keeps the record and dooms the
  player, so that a play after it starts none. `FetcherOK` says that the next
  segment is newer than all that were sent, which is why a round that starts at
  the oldest one listed never repeats one (`RoundOK`).
- `DiscoveryInv`. `StoodFor` says that every lease is of the connection in its
  slot and every service file of the run of the program that connected; it holds
  until an unlink fails, after which mdnsd ends and clears the directory at its
  next start. A step that only changes what is connected keeps it (`Quiet`), and
  `ServeStep` splits a client's turn into lease given, lease withdrawn and
  neither. What avahi shows is the directory whenever it runs.

### Wake word and microphone

`WholeInv` has `MicInv` (`Written` and `Copied`: what the sequence lock's reader
has copied comes from one hop unless the number it read has changed; `WorkInv`:
worker processes, captures and micd's memory of them) for `CaptureAlwaysTruthful`,
and `WakeInv` (`ThreadType`, `ModelInv`, `EventInv`: which engine the thread and
the asker hold at each point of a reload that may time out, and when the last
event was) for `WorkerAlwaysTruthful`.

### Web daemon

`WebInv` has `SessionInv` (each slot of the table against the history of tokens
issued, promised and ended, and the file against both) for `SessionsAlwaysHonest`,
`ResetInv` and `ClockInv` for `AlwaysWipedAndTimed`, and `BootInv` (what the
worker, the parent and the file know of the wizard's choices at each point of a
save) for `WizardAlwaysKept`.

### What stays with TLC

- Liveness, `ENABLED`, and with them the fairness half of the refinement.
- `ListHonest` (a fold over rows, see above).
- The invariant `OwnersHonest`, and `StreamsHonest` for the Sendspin bridge
  (section 6).

## 5. Where the code departs from its documents

The run `wake_restart` shows a disagreement, quoted in `PROJECT.json`: `micd`
restarted while `waked` listens leaves a capture program that holds the codec,
and the wake word does not return. The passing run `wake_service` therefore
leaves a restart or death of `micd` out of the setups that settle.

The following are seen by giving the run's `.cfg` the setup named here in place
of `Explored` and the property as an `INVARIANT` or `PROPERTY`. The passing runs
leave these surroundings out, or exempt what is named in the property's comment:
what they say, they say of the surroundings that remain.

| Property | Setup | Code | Text |
|---|---|---|---|
| `LoadDropsOnlyLate` | `MCTimers`, `LongCountdown` | `timer_schedule.c:114`: a countdown accepted before the clock is set takes the id of a persisted timer, which is dropped as missed | `timer_schedule.h:79-80` "Timers that came due while the device was down or the clock was wrong" |
| `RingingNotSaved` | `LongCountdown` | `timerd.c:969`: `cancel_at` steps the schedule without setting `dirty` | `timerd.c:370-372` "A ringing timer is not saved" |
| `HandoverOwned` | `MCNetworkd`, `HandingOver` | `networkd.c:3605`: a disconnect cancels the association that carries the hand-over | `docs/recovery-core.md:47-49` |
| `MarkerNeedsLease` | `HandingBack` | `networkd.c:739`: the marker goes on an earlier association | `tests/test_network_recovery_lifecycle.py:625-626` "only once DHCP confirms a usable address is the marker cleared" |
| `MarkerCleared` | `TwoTriggers` | `network_recovery.c:1495` | `docs/recovery-core.md:119-120` "On success recovery ends (marker cleared)" |
| `AutoOptIn` | `OptingOut` | `network_recovery.c:1664` | `network_recovery.h:77` "opt-in watchdog fallback" |
| `RadioExclusive` | `AutoFallback` | `network_recovery.c:1482` | `docs/recovery-core.md:117` "hostapd cannot hold the AP while wpa_supplicant associates" |
| `OwnershipTracked` | `OwedRestart`, `Orphaned` | `networkd.c:1231`: a daemon that dies, or ends while net-down fails, forgets that the platform has the radio, and the next start does not ask | `network_recovery.c:989-990` "never silently reported as clean while the platform still owns it" |
| `InterfaceRestored` | `LadderBroken` | `networkd.c:3897` | `docs/API.md:1199` "a one-second interface down/up cycle" |
| `FilesHonest` | `Torn`, `NotSynced`, `Unwound` | `network_recovery.c:1154-1167`: between the two renames there is no settings file; a rename is not synced before the daemon can die, or is rolled back after a failed sync while the kernel has written it, and the power goes | `networkd.c:4247-4249` |
| `ListHonest` | `MixedUnits` | `networkd.c:1772`: `scan_result_better` is not transitive over mixed units | "best first", the order the exchange sort is there for |
| `VoiceExclusive` | `MCVoiceSupervision`, `SwitchedBack` | `watchdogd.c:324` | `watchdogd.c:321-323` |
| `NoStartRace` | `SameOwnerAgain` | `watchdogd.c:559` | `watchdogd.c:51-55` "restarting inside that window would ... race it" |
| `IntentSaved` | `UnsavedRollback` | `src/api.c:2601` | `docs/API.md:770-771` "restores persisted voice intent" |
| `SupervisionSettles` | `StormOnly`, with `Lone <- SlowScripts` | `watchdog_policy.c:58`: with an init script of 90 s the fifth restart never falls into the first's window | `watchdog_policy.h:13-14` "it gives up rather than restarting forever" |
| `SpeechNotCut` | `MCLived`, `LongAnswer` | `live_session.c:603`: an answer longer than the conversation timeout is cut off as silence | `live_session.h:85`, `live_session.c:607` |
| `UploadCatchesUp` | `SlowConnecting`, with `ConnectTimeout` and `ConversationTimeout` 8 and `MaxSession` 9 | `live_session.c:384`: a connection slower than the ring leaves the conversation open and deaf | `live_session.c:365-366` |
| `StopReturns` | `MCAudioService`, `Hasty` | `audiod.c:1599`, `1610-1622`: a SIGTERM before the child's handler is installed, and a wait without a deadline | `audiod.c:199-203` |
| `LevelHonest` | `UndoLost` | `audiod.c:2314-2318`: the undo of a refused callback fails too, and `audiod` dies: the record left names a session that was never heard, and the restart makes it so | `audiod.c:1981-1983`: written before the level is touched, so that a lost process cannot strand the codec |
| `NoStrays` | `PipeLost` | `airplayd.c:1515-1563`: enabling with the metadata pipe lost starts children over live ones | the pids are the only way to stop them |
| `StopOpensNothing` | `MCAgentService`, `Interrupted` | `voice_pipeline.c:658`: a follow-up already asked for opens the microphone after "stop" | `docs/API.md:2930` |
| `WindowRestoresSettings` | `MCBluetoothService`, `Unpolled` | `btd.c:1964`, `2306-2330`: the window remembers cached settings | `docs/API.md:2214-2216` |
| `BondsReported` | `Crowded` | `btd.c:1347-1360`: a bond beyond the device table is not shown | `docs/API.md:2234` |
| `SliderSettles`, `ChannelsMatch` | `TwoPhones` for the first, `Explored` for the second | the level of one phone is not told to the other; an open stream takes the next connection, whoever makes it | |
| `NewestFrameWritten` | `MCLightAndButtons`, `FrameLost` | `ledd.c:304-305`: a failed write is not repeated | `ledd.c:702-709` |
| `LeftAsFound` | `MCWebService`, `Refused` | `backend_linux.c:3014-3018`, `watchdogd.c:606`: a service that dies while the supervisor is stopped, or goes down in a stop that fails, is not among those put back, and the new supervisor, which has not seen it, never starts it; nor one whose start in `resume_factory_reset_services` fails (`2999`) | `backend_linux.c:2992-2994` "a refused reset leaves the device as supervised as it found it" |
| `StreamsHonest` | `MCStreamService`, `Misread` | a late refusal of a cancel is taken for the answer to a frame (`await_pending_locked`) | |
| `StreamsSettle` | `Silenced` | a late cancel, a refusal read by the progress poll, a mute over an unanswered frame, an engine eight generations ahead: the stream stays silent | `engine_sink_session.h:19-21` admits the last |
| `StreamsHonest` | `Orphaned` | `player_parent_guard` reads `getppid` in the child, too late if the daemon is gone | |
| `NotTakenForEnd` | `TakenForEnd` | `radiod.c:1068`: an HLS station is taken for ended when the bus goes away | `radiod.c:745-746` |

Smaller observations met while modelling, not stated as properties:

- **Network.** The nl80211 path does not ask `bogus_ssid`; the undo after a
  failed directory sync is itself not synced.
- **Live.** With `--wake-preroll-ms 0` the ring's start for a wake word is its
  first position (`live_ring.c`, `start_for_wake`), and the upload is refused for
  good once that is overwritten: hence `Preroll > 0` in `Steady`. The delegation cache forgets the oldest of more than 16 ids
  (`live_session.h:49-54` says every executed id is remembered); a replayed
  delegation leaves the session in `waiting_for_tool`; wake events are drained
  before the audio they refer to; "stopped" is said when any of three calls
  succeeded (`live_tools.c:264-276` against `390-396`); a timer whose answer is
  lost is told as not set; `stream_send` over TLS spins until its deadline on a
  failure.
- **Audio.** A marker that a killed bridge left behind can be acknowledged again
  for a session whose status or end was lost, although `airplayd.c:306-308` says
  that an ended session must reject the retry; `AdmissionSound` exempts it
  (`files.left`). `set_volume_leveling` saved but not applied is not reverted
  (`audiod.c:2371-2375`); after a controller loss of a second the media stays
  gated; `AdmissionSound` exempts an `audiod` restarted while the mixer refuses.
- **Agent.** `note_tts_failure` can blame the next turn (`agentd.c:418-419`); a
  worker's late `stop_speech` can cut a message that follows; a turn answered
  while the account is disabled leaves no record, though
  `docs/voice-history-core.md` says that no failure vanishes; a write error to
  `sttd` drops a turn (`voice_pipeline.c:547`); the latency log is not tied to
  the history's generation; `stop_speech` leaves `g_pending_speech` in the
  in-process mode (`ttsd.c:1360-1363`).
- **Bluetooth.** Activation is tried once per daemon's life (`docs/API.md:2204`
  says per boot); `unpair` ignores a failed save of the keys; a `btd` that dies
  in the window leaves the controller discoverable; an unparsable SBC frame jams
  the stream until the next START.
- **Light and buttons.** A colour asked for during the two-second test is saved
  and then overwritten in memory (`ledd.c:3089-3091`); several commands clear the
  mute underlay until the next heartbeat; a third cue loses the first;
  `remove_device` shifts the devices and not their poll slots
  (`buttond.c:1219-1230`).
- **Wake.** The pulse stays if the call to `ledd` fails or `waked` is killed
  (`wake_led.c:66-82`).
- **Web.** A bad marker with a failed wizard leaves `config_worker_pending`; a
  web daemon that dies leaves its worker, whose save overwrites newer changes;
  `handle_privacy` applies earlier fields before it refuses a later one; a failed
  marker write in the poll is not retried; `timed` writes "synchronized", then
  "retrying", when only the RTC failed; the voice worker may start `agentd`
  during a reset; the reset takes a service whose status script fails for one that
  does not run, and does not stop it (`backend_linux.c:3010-3012`), which is not
  in the model; a removed user whose session save failed is revived when the
  name is added again and the daemon restarts.
- **Streams.** A pause of more than 200 ms leaves a stopped player reported as
  playing; a file with a long undecodable tail is replayed for ever; after an
  engine restart writes are refused while the status says streaming.

## 6. What is not modelled, and the plan

`PROJECT.json` lists every part with its reason and, for the parts modelled in
part, what is left out. Byte formats (WebSocket payloads, HLS text, HCI, NTP,
nl80211, JSON), text grammars (intents, spoken times), signal processing and
presentation code have no control state worth a model. A restart of the web
daemon in the middle of a voice transition, orphans of a killed `airplayd`, the
adapter protocol by itself (bounded clients and lost lines are modelled in the
daemons that use it), `logd`, `esphomed` beyond its place as a voice owner, and
the boot record are left out.

What remains is proof work. Each of these is a safety property of a run that no
theorem states yet:

1. `VoiceSupervision`: `OwnersHonest`, outside a switch back and forth, a
   selection of the owner already selected, and a roll-back that cannot be saved
   (section 5).
2. `StreamService`: `StreamsHonest` for the Sendspin bridge, in the scenes where no
   late refusal is misread (section 5).
