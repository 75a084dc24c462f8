# R4 Platform: TLA+ models and proofs

TLA+ models of the R4 platform: the hub's command queue, the agents that work
for it, the RP2040 controller firmware and the Batocera integration around it.
Modules are checked on small instances with TLC; the central results are proved
for every instance with TLAPS.

## 1. The system

| Part | Source | State it keeps | Operations | Talks to |
|---|---|---|---|---|
| Hub command queue | `hub/.../command` | table `device_commands` (status, attempt count, lease deadline, lease token, result) | create, claimNext, complete, getAll | agents over HTTP, PostgreSQL |
| Hub device registry | `hub/.../device` | table `devices` (agent id, description, last seen) | register, heartbeat, getAll | agents over HTTP, PostgreSQL |
| Linux agent | `agent-linux` | device id, completed command ids, shared backoff, agent-id file | register, heartbeat, poll, execute, report | hub |
| Simulator | `simulator` | device id, completed command ids, agent-id file | one tick = register, heartbeat, poll, execute | hub |
| Service buttons | `firmware/.../core/r4_service_buttons.c` | debounced state per button, pending gesture, event queue | update, update_with_chord, tick, pop | polled by the host with `EVENT NEXT` |
| Update manager | `core/r4_update.c` | armed flag, token, deadline; reboot flags | arm, status, confirm, reboot task | host with `UPDATE ...` |
| Display model | `core/r4_display.c` | screen, game, overlay, notification, watchdog | host commands, tick | host with `HOST ...` |
| CDC line protocol | `core/r4_protocol.c`, `r4-controller-fw.c` | line buffer, overflow flag, framebuffer snapshot | parse, dispatch, framed responses | host over USB CDC |
| Status lamp | `r4-controller-fw.c`, `rgb_led.c` | base colour, flash and its end | LED commands, the gate's flashes, the task that ends them | host with `LED ...`, update manager |
| Controller inputs and HID report | `core/r4_controller.c`, `rp2040_input.c` | stick centres, calibration, controller state, test values | poll, convert, report | USB HID |
| `r4-ecctl` and its broker | `integration/batocera/bin/r4-ecctl`, `services/R4Controller` | lock directory, request/response files | direct access to the tty or through the service | firmware, every script |
| R4Controller service | `services/R4Controller` | LED state, busy flag, capture state | watchdog loop, event dispatch, reconnect | firmware, replay, game card |
| Game card | `bin/r4-game-card`, `services/R4GameCard`, `scripts/R4GameState` | mounts, views, busy owners, session, lock | scan, init, eject, mark busy | kernel mounts, R4Controller |
| Replay | `bin/r4-replay` | session, encoder, ring buffer, save job, locks | start, stop, capture, save worker | encoder, game card |
| Firmware updater | `bin/r4-firmware-update` | stage of the update, mounts | the update sequence and its clean-up | firmware, R4Controller |

What is hard in it: request threads racing over one row with stale clocks;
HTTP calls that are lost before or after they took effect; a microcontroller loop
with a wrapping millisecond clock; lock directories, lock files and
request/response files shared by shell scripts, any of which may be killed.

## 2. What is modelled

| Module | Models | State and actions |
|---|---|---|
| `CommandQueue` | the abstract command queue | each command's phase and holder; Submit, Grant, Settle |
| `HubCommands` (`MCHubCommands`, `HubCommandsProofs`) | `CommandService` and `JdbcCommandRepository` | `row` is the table, `req` the request of each thread between its clock reading, its row lock and its commit, `now` the clock. An operation is two or three actions (BeginClaim, LockCandidate, CommitClaim ...), since other threads run in between; Restart drops `req` with its locks and keeps `row` |
| `LinuxAgent` (`LinuxAgentProofs`) | the agent's two scheduler threads, `HubBackoff`, and the hub as they see it | `deviceId`, `completed` and `waiting` are the fields of `LinuxAgent` and `HubBackoff`; `call` says where each thread stands; `device` and `queue` are the hub's. The actions are the start of a task, the hub's answer, the reaction to it, TimeOut, Crash and LoseDatabase |
| `ServiceButtons` (`FirmwareProofs`) | `r4_service_buttons.c` for the R4 button | `state` is `r4_service_button_state_t`; Tick and Sample alternate as in the main loop, each at a time of its own |
| `BoundedFifo`, `ServiceEvents` | the service-event ring; the FIFO it implements | array, head, count, sequence number, dropped events; EmitEvent, DropEvent, Pop |
| `UpdateGate` (`UpdateLampProofs`) | `r4_update.c` and the reset in the main loop | `gate` is `r4_update_manager_t`; Arm, Status, Confirm, Pass (time), Reset, PowerOn |
| `UpdateLamp` (`UpdateLampProofs`) | the lamp, which the gate and the LED commands share; extends `UpdateGate` | `base`, `output` and `flash` are the firmware's variables; each action of the gate with what it shows, Led, LedFlash, LedOff, and Tasks for a pass of the main loop |
| `LinkPanel`, `HostScreen` (`HostScreenProofs`) | the host-link watchdog and the screens; what the host is promised | `display` holds the fields of `r4_display_model_t` that matter for the screen; one action per HOST line, Elapse and Tick |
| `Popups` | achievement and notification popups, replay marker, card icon | what is up and until when; one action per HOST line, UpdateNotice, Elapse and Tick |
| `Telemetry` | `process_host_telemetry` and what is drawn of it | a line as a function from its fields to their forms (a value, NA, bad, missing ...); `telemetry` is what the display model holds, `Panel` what the screen shows of it |
| `Panel` (`MCPanel`, `PanelProofs`) | session timer; composes `Popups` and `Telemetry` on one display model and clock | StartGame, StopGame, TickPanel, Report (a telemetry line) and the actions of `Popups` |
| `CdcLine` (`MCCdcLine`, `FirmwareProofs`) | bytes of the serial port to lines, and lines to answers | `buffer`, `length` and `discarding` are the C variables, the ghosts `text` and `fits` what an editor without a limit would hold; EndLine, Erase, Store, Overflow, Skip |
| `FramebufferTransfer` (`FirmwareProofs`) | FRAMEBUFFER INFO and CHUNK with `r4-ecctl`'s read loop | `snapshot` is the device's one snapshot, `reader` each client's loop; Info, Chunk, Finish, GiveUp, Redraw, Restart |
| `Pad` (`MCPad`, `FirmwareProofs`) | stick, D-pad, buttons and trigger to the HID report | `hands` is what the player holds; Axis, Normalized, Hat and Report are the conversions of `r4_controller.c` and `rp2040_input.c`; Move, TestTriggers, HostPolls, Elapse and Loop |
| `PortLock` | the lock directory of `r4-ecctl` | `lock` is the directory and the number in it, `pc` and `seen` where each process is in `acquire_lock`; TryLock, Look, RemoveStale, WritePid, Release, KillClient |
| `Exchange` (`MCExchange`, `ExchangeProofs`) | commands and answers on the port, from the ring to the service; composes `PortLock` and `ServiceEvents` | `requests` and `lines` are the two directions of the port, `turn` is the service's place in its round; Ask, Serve, Read, TimeOut, NoPort, Kill, Emit |
| `GameCard` (`GameCardProofs`) | `r4-game-card`, the service that scans, the game hook and the captures of `r4-replay` | the runtime files (`state`, `identity`, `present`, `ejected`, `owners`), the mounts (`private`, `view`) with those whose options are not as wanted (`unfit`), FUSE (`fuse`, `attempted`) and the slot; one action per operation, eject one per step |

How they fit together. `HubCommands` shows that the hub's concurrent request
threads implement `CommandQueue`; `LinuxAgent` therefore takes the hub's
requests as single steps, and shows in turn that hub and agent together
implement the same `CommandQueue`. `HostScreen` and `Panel` are two halves of
`r4_display_model_t` that share only the clock and the tick. `ServiceButtons`
emits the events that `ServiceEvents` stores; the recognizer never reads the
ring, so the two are checked apart, and `Exchange` takes the ring to the service
at the other end of the port. `CdcLine` is the byte level of the lines that
`Exchange` moves whole. `UpdateLamp` extends `UpdateGate` by the lamp: each of its
actions is one of the gate's with what it does to the lamp.

`Ghost` or `history` variables are named as such in each module: they record
what has happened (answers given, leases granted, milliseconds of silence) for
a property to refer to, and no guard of the code's reads them.

## 3. The runs

| Run | Checks | Bounds, and why they are enough |
|---|---|---|
| `hub_commands` | a running command carries its latest lease; a result comes, in time, from the attempt with the latest lease; a lease is honoured while it lives; refinement of `CommandQueue` | two devices, two commands, two threads, three leases, clock 0..2 with a lease of one tick. A command can be leased, expire and be leased again twice, while the other thread holds an old clock reading or a late answer; two commands let the query choose. States that differ in a permutation of the devices or of the threads are taken as one |
| `agent_delivery` | what the agent thinks completed is settled; a command runs again only after a fault; every command settles (liveness); the agent ends up registered (liveness); refinement of `CommandQueue` | two commands, two faults (timeout before or after the hub acted, crash, lease that runs out under its attempt), one loss of the database. Two faults are needed for an answer to be late and its command taken again |
| `service_buttons` | gestures never exceed presses; a SHORT is on time; a chord cancels | six contact changes (three presses), readings up to 2 ms apart, a clock of 8 ms that wraps many times; the intervals are small but keep the order debounce < double < long |
| `service_chord` | violation, see section 6 | the same with steps of 1 ms and a debounce of 3 ms, so that a bounce fits into it |
| `update_gate` | one reset per token; a reset needs the last token, in time; the lamp tells the gate's state; a flash keeps its time | two token values (so a token may be handed out twice), three ARMs per boot, four ticks of validity on a clock of 14, one colour beside black, one length of flash beside the gate's own; the purple flash is as short as `LampAssumption` lets it be |
| `host_screen` | the alarm is neither false nor late; beneath it is what the host asked for last; refinement of `LinkPanel` | two texts, timeout 5, passes of up to 2 ms, a clock of 11 ms: silence begins at every position before the wrap |
| `panel` | popups keep their time and tell the card's state; the timer tells the session; the panel shows what the host was told is accepted | durations 5 and 3, passes of up to 2 ms, a clock of 18 ms that wraps, hours and minutes of two; telemetry lines with any two of four fields in any form: two numbers, one of them with an upper limit, a choice and a text. Telemetry comes only while no popup or game is on, and popups only while no game runs: they share nothing but the clock |
| `cdc_line` | one answer per line; only sent lines are run | a buffer of three cells and lines of up to six characters with any number of erasures, after any earlier line: overflow by up to three characters, erasing at every place |
| `framebuffer` | a frame is one picture; only an overtaken reader fails | two readers, two pictures, four snapshots, five bytes in chunks of two: three chunks, the last one shorter |
| `pad` | what is held is what the host has; it is told rightly; nothing moves against the hand | seven ADC values with every rest position among them, five calibrations (one all dead zone, one reversed, one with its ends swapped), all sets of directions, a clock of 6 ms that wraps. In one behaviour one control is used: they share nothing but the report |
| `exchange` | one owner of the port; every event reaches the service once and in order; answers belong to their commands; the lock of a dead process goes (liveness); the ring implements `BoundedFifo` | the service and one helper, a ring of two and three events (the ring wraps and overruns), two faults (two answers can be late, or a late one cut). PING stands for the three checks of a round; events are emitted between rounds, since they touch the ring only; only owners of the port are killed |
| `game_card` | an ejected card is free; owners keep their views; READY and BUSY tell who uses it; a scan tells the slot; a card becomes usable (liveness) | three sessions, at most two in the slot at once: a card can be ejected, replaced unseen, and be joined by another; one fault (mount, unmount, mkdir, loading FUSE, a lost view or a card that turns read-only), with FUSE usable from the start or not; a game and two captures are all the owners there are |

`update_gate` sets `CHECK_DEADLOCK FALSE`: it stops when its clock is about to
wrap. All others run on.

The bounds that are not the system's own (`MaxClock`, `MaxGrants`, `MaxFaults`,
`MaxDataLosses`, `MaxEdges`, `MaxEvents`, `MaxArms`, `MaxText`, `MaxId`,
`MaxSessions`) are guards of the actions that count and are marked as bounds at their
declaration.
`MaxStep` and `MaxPass` bound the time one step may take: every wait of the main
loop, the one for USB to take an answer included, has a time limit.

### Fairness

`LinuxAgent` assumes that

- the two scheduler threads keep running and the hub answers (`WF` of StartTask,
  AgentStep and HubAnswers): both are periodic tasks of a live process;
- the backoff ends and an abandoned lease runs out (`WF`): both wait for a clock;
- a heartbeat that is let through again and again is sent in the end (`SF` of
  StartTask("heartbeat")): the poll can re-arm the shared backoff between two
  heartbeats, and with weak fairness could do so at exactly the right moment for
  ever. The tasks run at fixed delays of different lengths (5 s and 10 s by
  default) after calls of varying length, so they drift past each other, and
  every backoff ends some time before the poll that would start the next.

Nothing is assumed of faults: timeouts, crashes, expiries under a live attempt
and losses of the database are bounded in number and never required.
`HubBackoff`'s fields are written by two threads without synchronization. The
outcomes of that race (an update that is lost or seen late) only change how long
the backoff lasts, and `BackoffElapses` may end it at any time.

`Exchange` assumes that the service takes its next step and the controller serves
a line (`WF`): `run_watchdog` loops for ever, each of its commands ends after two
seconds at the latest, and the firmware's main loop waits for nothing longer than
`CDC_WRITE_TIMEOUT_MS`. Nothing is assumed of helpers, which may hold the port
for ever.

`GameCard` assumes that an eject that has begun ends (`WF` of EjectStep) and that a
scan that is possible again and again is made in the end (`SF` of Scan): the
service scans every second, and one that meets the lock of another operation
fails. With weak fairness it could meet one at every second for ever.

## 4. What is proved

Every safety property a passing run checks, invariant, action property or refinement,
is also a theorem, proved for every value of the constants that satisfies the named
assumptions (two of the update gate's also suppose `~ClockWraps`, see below). The
bounds on faults, sessions, events and the like are such constants: the proofs hold
for as many as one likes. What the assumptions ask for:

| Assumption | Asks | Because |
|---|---|---|
| `HubAssumption`, `AgentAssumption` | command ids are numbers (for the agent finitely many, without 0), the lease lasts, no device or id is `None` | 0 and `None` stand for null |
| `ButtonAssumption`, `PopupTimes`, `TimeAssumption`, `PadAssumption`, `SessionAssumption` | intervals and passes are positive and short beside the clock's width; the timer's full hours fit on the clock | differences of a wrapping clock mean nothing beyond it; the code's are seconds beside 49.7 days |
| `PadAssumption` | the trigger's range is a whole multiple of the report's; calibrations are natural numbers, in any order and with any dead zone | 65535 is 255 times 257; the fields are unsigned |
| `GateAssumption`, `LampAssumption` | durations are positive, 0 is no token, the purple flash and the token outlive the reboot delay and a pass of the main loop, `LED FLASH` is limited as the gate's own flashes are, and amber and purple are the gate's colours | the constants of `r4_update.h` and the main loop; a write that USB holds up for its whole second breaks it (section 6) |
| `LineAssumption`, `SizeAssumption`, `RingAssumption` | buffers have room for one entry; the empty line is no command and a backspace no letter of one | arrays of the firmware |
| `LockAssumption`, `ExchangeAssumption`, `CardAssumption`, `NoneAssumption`, `TextAssumption`, `HiddenIsNone`, `FormsDiffer`, `TelemetryAssumption` | the values that stand for nothing, or for themselves, differ from the others; a round begins with other checks than its last two commands; the values a line may carry are those the parser accepts | model values |

`HubCommandsProofs`. For any sets of devices, commands and threads and any lease
duration: type correctness; `OneLiveLease`, `LateAnswersLose`, `NothingStranded`,
`AttemptCountIsExact`, `FinishedForGood`, `LeasesAreHonoured`; and `Refinement`,
that the queue implements `CommandQueue`. None of the invariants is inductive on
its own. `IInv` adds what ties a request in progress to the rows: a clock reading
is never later than the clock; a claim or completion that holds a row lock still
satisfies the condition under which it took the lock, because nobody else can
write a locked row; no two requests hold one lock; every lease granted has a token
of its own, not above `lastToken`, and a token or result in a row stands for a
lease in `granted`. Each action is a step of its own in the preservation proof.
The exact attempt count needs finiteness of `granted` besides (`CountInv`), and is
proved by the lemmas on cardinality.

`HostScreenProofs`. For any timeout, pass length and clock width with
`Timeout + MaxPass < ClockMod`: type correctness, `NoFalseAlarms`, `AlarmsOnTime`
(together `RightAlarms`), `AlarmShown`, `LastRequestHolds` and `Refinement`, that the watchdog implements
`LinkPanel`. The strengthening has two parts: `Saved`, that the text put away under a
lost link is never the alarm's own; and `OnClock`, that while an armed link is up
the difference on the wrapped clock is the real silence, and that this silence had
not reached the timeout at the last tick. `OnClock` is where the assumption on
`ClockMod` is used, in the lemmas on subtraction modulo the clock.

`LinuxAgentProofs`. For any finite set of commands and any number of faults: type
correctness, `AckMeansSettled`, `RerunsNeedFaults`, and that agent and hub implement
`CommandQueue`. `Inv` says what requests and answers may look like (`CallsSound`), that
lease tokens are given out without a gap (`LeasesKnown`), that the attempt under way
was granted by the hub as it is, and its token by nobody else's command
(`AttemptKnown`), and that an accepted result belongs to a command that is done with
(`AnswersTrue`). The other two results each need an account. `RunsPaid`: the runs of a
command, the grant not yet run and the grant that can still be had without a fault
are one and at most one more for each fault. `TokensPaid`: the tokens granted, the
commands that can be had and the fetches that may still arrive late are as many as the
commands and one more for each fault; so the finitely many attempts of the abstract
queue suffice. Each action is shown to cost a fault or to leave both alone.

`UpdateLampProofs`. For any tokens, durations and clock width. `LampKeepsGate` shows
that each step with the lamp is one of the gate or leaves it, which carries the gate's
theorems over to `LampSpec`. `OneResetPerArm` is inductive as it stands and needs nothing of the clock,
nor that tokens differ.
`FlashKeepsTime` ties the time left of a flash to the time it has been lit.
`ResetNeedsFreshToken` and `LampTellsGate` have `~ClockWraps` as a hypothesis, the
first 49.7 days of uptime: after the wrap they are false (section 6). `ArmedSince`
says there that deadline and age tell the same time; `Signals` says what amber and
purple stand for and how much later than due a reset can be (`Soon`), which is what
an ARM between a confirmation and its reset depends on. The purple flash begins before
the answer to CONFIRM is written, the reset's delay after it; that is where
`LampAssumption` asks for a flash longer than both.

`PanelProofs`. For any durations, passes, clock width and values reported:
`PopupsKeepTime`, `CardPopupIsCurrent`, `TimerTellsSession` and `PanelShowsReports`.
`Behind` is the distance from an instant on the wrapping clock. `Timed` ties it to the
age of a popup, on both sides of its deadline; `Counted` ties it to the time played
until the first wrap and says how far the timer may lag; `Told` relates each reading to
what the host has reported of the field. `PanelKeepsPopups` shows that timer and
telemetry leave the popups alone, so that those are proved once.

`FirmwareProofs` has four parts that share no state.

- The framebuffer, for any readers, pictures, frame and chunk size: type correctness,
  `WholeFrames`, `ImmutableIdentifiers`, `CurrentReadersServed`. `IInv` adds that a
  reader's bytes below its offset are those of the picture it was promised (`Prefix`),
  and that no reader in progress holds an identifier that is still to be given out
  (`Issued`), so that the next INFO cannot give an identifier a second meaning.
- The button, for any intervals and clock width: `NoPhantomGesture`, `ShortOnTime` and
  `CleanChordCancels`. Every press that no gesture has used is held or pends (`Owing`),
  a chord is remembered while the contact does not bounce (`Remembered`), and the
  clock's distance from a pending SHORT's deadline is the real time since the release
  (`Waiting`).
- The line editor, for any alphabet, commands and buffer: `OneAnswerPerLine` and
  `RunsWhatWasSent`. `Meaning`: until it is full the buffer holds what an editor without
  a limit would hold, and a line that outgrew it has had its one answer. What lies in
  the cells beyond is left open, as earlier lines left it.
- The pad, for any ranges, dead zones, calibrations, rest positions and intervals:
  `ReportIsCurrent`, `InputsAreTold` and `MovesKeepDirection`. The lemmas say of each
  conversion that it is monotone, keeps to its range and reaches both ends, through the
  rounding of its division (`AxisFits`, `AxisMonotone`, `PullIs`, `RoundedIs`, `HatIs`).
  Of the state two facts are needed: the last report is what they make of its sample
  (`Told`), and its age on the wrapping clock is less than a period and the time since
  the last pass (`Aged`).

`ExchangeProofs`. For any clients, checks, ring and number of faults:
`ExclusivePort`, `OwnAnswers`, `RingIsFifo` and `EventsArrive`. `LInv` is the lock's part: as long as no stale lock
changed hands there is one owner at most, and while there is one there is a
directory, so that nobody's mkdir succeeds; a client about to remove a directory has
read of a dead process in it. `raced` ends when the last of several owners is gone,
which is why `GoneHolds` looks at both ends of it. `AInv` is the line's part: who
waits for an answer holds the lock, and if it found the line empty, then all that is
on the line is its own request or the answer to it (`Mine`). Other clients may be
killed or give up meanwhile; what they lose of the line leaves it the owner's.

The same module proves that the ring implements `BoundedFifo` for every capacity
(`RingIsFifo`): the events waiting, read round the array, are numbered without a gap
up to the last one accepted (`Numbered`). `EventsArrive` takes them from there to the
service. An event acted on is older than one in an answer on the line, and that one
older than what is left in the ring (`InOrder`), which late and cut answers, kills and
races do not change. While nothing has gone wrong the line carries the one command
or the whole answer of the client that asks, and what has left the ring was acted on
or is in that answer (`Clean`).

`GameCardProofs`. For any number of sessions and faults: type correctness,
`TrueState`, `SafeEject`, `OwnersKeepTheirViews` and `ScanIsTrue`, the last with the
options of the mounts. `IInv` adds to the
properties what eject leaves behind step by step (`Parting`: no owner while it goes
on, and what it has unmounted stays unmounted), what the latch stands for
(`LatchIsTrue`), that an ejected session is latched or out of the slot (`Gone`), and
that a state that claims a card has one recorded (`Known`). Scan and init share the
lemma `FoundKeeps`, on whatever either may make of a card it finds.

`LeaseEndsInTime`, `IdentifierIsImmutable`, `NoFalseAlarm` and `AlarmOnTime` are
proved and no run lists them: another property of the run says as much or more.

Only model-checked: liveness, since fairness is out of the prover's reach
(`CommandsSettle`, `EndsRegistered`, `DeadLockIsRemoved`, `CardBecomesReady`).
`CommandQueue`, `LinkPanel` and `BoundedFifo` state no fairness, so that the proofs of
their refinement are complete.
`FirmwareProofs` proves about `PadSpec`; the `pad` run restricts it to one control at a
time (`MCSpec`), a restriction the proof does without.

## 5. Abstractions

- Commands, devices, texts and pictures are members of small sets. A result is
  represented by the lease token of the attempt that sent it; a byte of the frame
  by the picture it belongs to; a line by a sequence over a small alphabet.
- Lease tokens are random UUIDs in the code and consecutive numbers in the model:
  that two never agree is assumed. Tokens of the update gate are drawn from a set
  of two values, so they may repeat.
- Row locks are those of one PostgreSQL database at its default isolation: a
  statement that waited for a lock tests its condition again. `FOR UPDATE SKIP
  LOCKED` passes over locked rows.
- The controller's main loop is one thread. What a HOST line does is one action;
  time passes between lines and ticks.
- When the controller restarts, the port's open descriptors fail (assumed of the
  operating system, `AfterRestart` in `FramebufferTransfer`). The two readers of
  `FramebufferTransfer` are not kept apart by `r4-ecctl`'s lock.
- `Exchange` tells an answer by its command and an event by its sequence number;
  requests of the broker and what the dispatch of an event sends are exchanges like
  the service's HOST lines; restarts of the controller are left out. `raced` marks
  the one way two processes come to own the port: both read the number of a dead
  process, and one removes the lock the other has made since. Properties of the
  port except that case and do not claim it away.
- A client reads a number from the lock's directory, tests it and removes the
  directory in separate steps; a process number is not given to another process
  while somebody still looks at it.
- In `GameCard` the operations are single steps, since they run under one lock
  directory and who finds it held fails; eject alone is taken apart. A session is a
  `DISKSEQ` and stands for the device path it was mounted by; the fallbacks for
  kernels without one are left out. What was mounted of a card that is pulled stays
  mounted and readable. Of a mount's options only this is kept, whether they are the
  ones wanted: a mount point gets into `unfit` when the kernel makes the card's file
  system read-only, and the ROMs' also when they can neither be remounted read-only
  nor unmounted again. Every card is exFAT; where FUSE is usable from the start the
  kind makes no difference. Loading FUSE is tried once for a session
  (`attempted`), so that `CardBecomesReady` excepts a session whose attempt failed, as
  it excepts mounts with wrong options, which no scan mends.
- `Pad` has one axis, one trigger and the D-pad for those that are read alike;
  analog readings are seven values over the whole range, scaled as the code scales
  twelve bits.
- A telemetry line is a function from a few representative fields to the forms a
  value can take; the numbers themselves are not distinguished.
- Requests the hub refuses with 400 or 404 before any change are left out of
  `HubCommands`; `LinuxAgent` has the 404s, because the agent acts on them.

## 6. Findings

- `service_chord`: README of the firmware, lines 333-334, says that a chord cancels
  the pending standalone R4 action. A contact bounce while R4 stays held resets
  `chord_used` (`r4_service_buttons.c:121`), before the debouncing is consulted;
  the press is then reported as LONG, or as SHORT at its end. `CleanChordCancels`
  is what does hold: a chord cancels as long as the contact does not bounce.

What else was met while modelling, without a run of its own:

- `integration/batocera/README.md:426` says that `R4Controller` consumes every queued
  Capture event exactly once. No event is acted on twice, but one can be lost: the
  event has left the ring when its answer is cut short or comes after the client's
  two seconds. `EventsReachService` claims order and at most once always, and that
  nothing is missing only while nothing has gone wrong.
- Lines 205-206 of the firmware's README say that the lamp is purple while
  transitioning. The flash of one second begins before the answer is
  written (`r4-controller-fw.c:1248`), which may take a second, and the reset comes 150 ms
  after it: with a host that does not take the answer for more than 850 ms the purple
  ends before the reset. `LampAssumption` excludes such writes, and `LampTellsGate`
  fails without it.
- `r4-controller-fw`'s README, lines 198-199, says that a token is valid for ten
  seconds. `update_now_ms` widens a 32-bit counter, so deadlines beyond 2^32 ms are
  never reached and a token armed before the wrap is accepted after it
  (`r4-controller-fw.c:265`). `ResetNeedsFreshToken` holds below 49.7 days of uptime;
  with `ClockWraps = TRUE` in `UpdateGate.cfg` TLC shows the exception.
- Line 244 says that unknown commands return `ERR UNKNOWN_COMMAND`. The fallback
  tests compare the line buffer without looking at the line's length
  (`r4-controller-fw.c:1375`), so leftovers of an earlier line can select another
  error answer. No command is ever run this way (`RunsWhatWasSent`).
- `init_card` takes a recorded card as done when the private mount has its
  directories and the views are there, and does not ask whose mounts they are
  (`r4-game-card:766`). After an exchange of cards that no scan saw, scans report
  `ERROR` for the earlier card's mounts until `init` declares them `READY`; later
  scans leave that alone. `ScanTellsSlot` is therefore about scans that change
  something.
- An eject between the pulling of a card and the next scan hides the unsafe removal,
  and an eject of an earlier card's mounts latches the card put in since.
- `busy` and `idle` fail at once when the lock is held, and the hook ignores it: a game
  can run unannounced, or leave its owner behind until another ends under the same
  name. `StateTellsOwners` is about the registered owners for this reason.
- A process of `r4-ecctl` or `r4-game-card` that is killed between making its lock
  directory and writing its number (or, for the card, at any point) leaves a lock
  that nobody removes.
- The end of a saved clip gives the card back with its notifications suppressed
  (`r4-replay:993`), while its beginning notified `BUSY` (`r4-replay:1234`): the icon may
  stay at BUSY until the next change of state.

## 7. Not modelled

- USB descriptors, the LED driver and the rendering of the display: constant tables,
  one write to a PIO, and layout.
- The CAPTURE and TROPHY buttons, which have no pins, and the test input that
  replaces the pins in a build with `R4_ENABLE_TEST_INPUT`.
- `LinuxAgent.stop()`, the growth of the backoff, the agent's handlers and its
  identity file; the simulator; HTTP and JSON mapping.
- The broker's request and response files between `r4-ecctl` and the service, the
  service's start and stop, its telemetry loop and its captures.
- Replay's encoder, buffer and save worker; only its use of the card is in `GameCard`.
- In `GameCard`: the disabled mode, notifications, and signals to a running operation.
  The trap releases the lock and does not end the script, so that a signalled operation
  goes on without it; nothing in the repository sends one.
- The device registry of the hub and the firmware updater's script.
- Installers, game-title and LED hooks, OLED bridge and emulator.

## 8. Plan

In order of importance; a run may take the place of a less telling one.

1. `Replay`: the encoder, the buffer and the save worker against the start and stop
   of games and captures. Properties: a save copies the buffer of its own session,
   a stop request is honoured, the card's owner entry is given back.
2. `Broker`: the request and response files of `r4-ecctl` over `Exchange`, with the
   client's limited patience. Property: an answer is read by the request it is for.
3. `DeviceRegistry`: registration and heartbeat as separate reads and writes of one
   row; two registrations of one agent.
4. `FirmwareUpdate`: the updater's script over `UpdateGate`, with its clean-up.
5. Proofs: of each new module, with it. Of the present ones: that `Exchange` leaves the
   ring of `ServiceEvents` and the lock of `PortLock` as their own specifications do, so
   that what is proved of either alone carries over (as `LampKeepsGate` does for the
   gate); and what an eject that fails half-way leaves behind.
