# A formal model of delta-firmware

TLA+ modules, TLC runs and TLAPS proofs about the software that runs on the FLUX
Delta printer (`src/`): the daemons that drive the motion mainboard and the
toolhead, play print jobs, serve clients over TCP, USB and UART, and watch the
network and the hardware. Every definition is translated from the code;
`PROJECT.json` maps each one to the lines it stands for.

1. [Inventory](#inventory)
2. [What is modelled](#what-is-modelled)
3. [Runs](#runs)
4. [Fairness](#fairness)
5. [Proofs](#proofs)
6. [Abstractions](#abstractions)
7. [Disagreements and known gaps](#disagreements-and-known-gaps)
8. [What is not modelled](#what-is-not-modelled)
9. [Plan](#plan)

To check a run: `tlc -config <cfg> <MC module>`, to check the proofs:
`tlapm <module>.tla` for each of `MainControllerProofs`, `HeadControllerProofs`,
`FcodeExecutorProofs`, `FcodeExecutorPauseProofs`, `FcodeExecutorHeaterProofs`, `RobotProofs`,
`UsbCableProofs`, `UsbLinkProofs`.

## Inventory

The firmware is a set of processes around one libev loop each. They talk through
unix sockets; nothing is shared but files and the metadata segment of
`storage.py`. Below, in the order of their importance for what the printer does:
the state each part keeps, its operations, whom it talks to, what is hard, and what
makes it correct.

| Component | State | Operations | Talks to | Hard | Correct when |
|---|---|---|---|---|---|
| **Main controller** `src/player/main_controller.pyx`, `main_controller_misc.c`, `misc.c` | flags, line number, queues `_cmd_sent` and `_cmd_padding`, ring of encoded lines, resend inhibit, timeout, retry count | bootstrap, send_cmd, close, handle_recv, patrol | mainboard over a serial line; its owner by four callbacks | lost, damaged, repeated and late lines; ring reuse; callbacks that must come | commands run once, in order, never more than the buffer holds; the owner is called back; the empty callback is true |
| **Head controller** `src/player/head_controller.pyx` | session flag, extension and its targets, command buffer and queue, ping, retry count, three callbacks | bootstrap, recover, standby, shutdown, reset, set heater, set fan, patrol, handle_recv | toolhead over a serial line; its owner by callbacks | answers without numbers; repeats; a head that restarts or is exchanged | a callback means applied; a job has the right head; an attached head is not given up; a restarted one is noticed |
| **FcodeExecutor** `fluxmonitor/player/base.py`, `fcode_executor.py` | status, error label, stash and standby flags, macro, command queue, end of file | callbacks of both controllers, nine requests, loop | both controllers, hal (power of the head), task loader | callbacks of two devices, requests and errors in any order; pausing in several steps | everything in file order, paused means still and parked, hot before moving, every pause, resume and end is reached |
| **Macros** `fluxmonitor/player/macro/*` | one small state machine each | start, giveup, on_command_empty, on_ctrl_message | executor, controllers | interrupted and restarted anywhere | restarted from the beginning, no stale result |
| **Player process** `fluxmonitor/player/main.py` and its helpers | executor, watchers, recent files, its pid file | PAUSE, RESUME, ABORT, RESTART, QUIT... | Robot over a datagram socket and the device status | restart while the old job ends; set-up that fails | one job at a time, found through its pid file, no lost file |
| **Motion planner** `device_fsm` | position, factors (floats) | feed | executor | numeric | out of reach of TLC |
| **Delta correction** `correction` | none | a least-squares fit | CorrectionMacro | numeric | out of reach of TLC |
| **Robot service** `fluxmonitor/services/robot.py`, `interfaces/robot*.py` | exclusive component, connections, task stacks | kick, enter and exit of tasks, buttons, autoplay | clients, player, hal | exclusivity over closing connections, kicked tasks and dying processes; a crash of the service | at most one component drives the machine, and it is released |
| **Tasks** `fluxmonitor/controller/tasks/*` | per task | commands of a client | both controllers, player, files | upload counts, nested tasks | a task that ends leaves nothing behind |
| **Firmware update tasks** `update_*_task.py` | steps, timer, shared dictionary | steps, timer, hal messages | hal | timer against late answers | ended exactly once |
| **Encrypted connections** `interfaces/handler.py`, `listener.py` | handshake phase, buffers | read, write, binary transfer | all TCP clients | partial reads and writes | bytes in order, phase respected |
| **USB to PC** `interfaces/usb2pc.py`, `usb_channels/*`, `services/usb.py` | session, message numbers both ways, unacknowledged messages, channels | handshake, send, receive, ack, repeat, open, close | PC over the cable | a go-back-N protocol without a timer, with wrapping numbers and two framings | each side takes every message once, in order, in its session |
| **USB cable driver** `src/usbcable` | `struct usb_data`: running, two threads and their flags, a socket pair | setup, start, close, free; the loops of both threads | libusb, the robot, UsbService | two threads, a signal to interrupt them, failures at every step | nothing is used after it is freed, the service survives, a dead cable is replaced |
| **HAL service and UART** `services/hal.py`, `interfaces/uart.py`, `hal/halservice/*`, `hal/tools.py` | clients of each serial line, pin states, power timers | power on, off, standby, delayed off, button | mainboard, head, all owners | a slow client; delayed off against a new job | bytes reach every client or it is closed; no late power cut |
| **Network** `services/network.py`, `hal/net`, `hal/nl80211` | interfaces, daemons per interface | link and association events, configuration | wpa_supplicant, hostapd, dhclient, netlink | daemons that die or linger | one set of daemons per interface and mode |
| **Camera** `services/camera.py`, `interfaces/camera*.py`, `src/v4l2_camera` | frames, live clients | take, live | clients | sharing | I/O and data |
| **UPnP** `services/upnp.py` | none but keys | discover, touch | network | none | stateless |
| **Cloud** `services/cloud.py` | session, subscriptions | connect, receipts | MQTT broker | renewal against commands | each command acknowledged once |
| **Storage and security** `storage.py`, `security/*`, crypto | files, keys | get, set, encrypt | all | crash in a write | data and I/O |
| **Launcher** `bin/*`, `launcher.py`, `misc/*` | pid files | start, stop, lock and unlock | system | a pid file between two processes | one process per service, which its pid file names |
| **Diagnosis, development tools** | none | tools | | none | none |

How a job runs through them: a client's command reaches Robot, which starts the
player; the player's executor opens the two serial lines through hal, greets the
mainboard, powers and greets the head, runs its start-up macros, then feeds the
commands of the file to the two controllers until the file is done, a client pauses
or aborts, or one of the devices complains.

## What is modelled

`CommandPipe` (abstract) is implemented by `MainController`; `FcodeExecutor` uses
what `MainController` and `HeadController` show of their devices. `Robot` decides
whose executor or task may drive the machine; `UsbCable` carries what `UsbLink` says
to a computer and loses messages where `UsbLink` lets them be lost. The MC modules
hold what TLC needs, where a .cfg does not; the Proofs modules hold the theorems.

### MainController

State: one variable per field of the class (`flags`, `ln`, `resendInhibit`,
`expired` for the comparison of `send_timestamp`, `sendRetry`, `cmdSent`,
`cmdPadding`, `commandBuffer`), what the callbacks last told the owner (`owner`),
the exceptions it saw (`raised`), the two directions of the serial line as FIFO
sequences, and the mainboard (line checking, expected number, commands accepted and
finished). Queues hold line numbers only: the bytes of a queued command are, as in
the code, those the ring holds at resend time.

Actions: `Bootstrap`, `SendCmd`, `SendRaw`, `Close` (operations of the owner);
`PatrolResend`, `PatrolHello`, `PatrolOffline` (patrol, by its three branches),
`Elapse` (the clock); `RecvLn`, `RecvLineMismatch`, `RecvChecksumMismatch`,
`RecvRunout`, `RecvEnabled`, `RecvDisabled`, `RecvMissing`, `RecvUnknown` (one per
message of handle_message); the mainboard's actions and the faults of the line are
external.

### CommandPipe

What the protocol is for: a pipe of at most Capacity unfinished commands, taken in
order, each once. `ImplementsPipe` says that `MainController` implements it, with
`submitted <- issued` and `Capacity <- BufSize`; the other two variables have the
same names.

### HeadController

State: the fields of the class and of its extruder extension (`want` is `_fanspeed`
and `_temperatures[0]`, NaN is `Unset`), the owner's last operation (`op`, `done`),
both directions of the line, and the head (what is attached, the settings it works
at, whether it restarted). Actions: one per operation, one per branch of patrol,
one per kind of answer, and the external head with its faults. A laser has an
extension without commands. Two values the code leaves undefined are choices: the
uninitialized heater target of a new extension (`head_controller.pyx:426`, every level and
`Unset`), and the target that standby sends to the heater (479 passes the int 0 where
`build_toolhead_command` reads a double, every level). What standby asks for is therefore the
fan's stop (`Asked`); only shutdown, which goes through do_recover, asks for a heater at 0.
`Hot` are the targets that allset waits for, those above 60 degrees.

### FcodeExecutor

The player is one thread whose handlers call each other through callbacks, so a
handler is an operator from the state of the player to its state, and an action
applies one to an event. The record `p` holds the executor (`status`, `error`,
`stash` for the two stash flags, `macro`, `tasks`, `next` and `fed` for the queue
and the file), what it sees of the controllers (the mainboard's buffer, the head's
session, command, queue and callbacks), and the devices (parked, supply, heater,
temperature). A Python exception is the field `exc`, which makes `Then` skip what
the exception would skip, up to `Caught` (on_mainboard_recv, on_loop) and
`OnToolheadRecv`.

| Code | Definition |
|---|---|
| `BaseExecutor.pause/paused/resume/resumed/abort` with the overrides | `Pause`, `PausedNow`, `Resume`, `Resumed`, `Abort` |
| `AutoResume.paused` | second half of `PausedNow` |
| `_handle_pause`, `_pause_toolhead`, `_toolhead_paused` | `HandlePause` with `Stash`, `PauseToolhead`, `ToolheadPaused` |
| `_on_mainboard_ready`, `_on_toolhead_ready`, `_on_toolhead_recovered_and_allset` | `OnMainboardReady`, `OnToolheadReady` with `Recovered`, `OnAllset` |
| `fire` | `Fire`, with `Feed` (reading ahead) and `Drain` (the loop over the queue, one `Turn` at a time) |
| `started`, macros | `Started`, `ExecTask`, `StartMacro`, `Giveup`, `MacroCommandEmpty` with `ProbeEmpty`, `MacroCtrl`, `HeadAllset` |
| `set_heater`, `allset`, `do_standby` of the extruder | `SetHeater`, `Allset`, `Standby` with `HeaterTold` |
| `_on_mb_empty`, `_on_mb_sendable`, `_on_mb_ctrl` | `OnMbEmpty`, `OnMbSendable`, `OnMbCtrl` |
| `on_toolhead_recv`, `on_loop` | `OnToolheadRecv`, `Loop`, `LoopOffline`, `IdleHead` |
| `terminate`, `close`, `on_completed` | `Terminate`, `Close`, `OnCompleted` |
| `main.py` on_request | `Request` |

A scenario (`IsScenario`) is a job with its macros, its head, its buffer and what may
happen to it. The commands of a job are those the motion planner hands to the executor
(`device_fsm.cpp:115-155`): moves, fan commands, heater commands with any target
that wait for it or do not, pauses, an abort, and one that cannot be parsed. The variable `scenario` is chosen in `Init` and never changes, so one run
covers several.

Status values are the code's numbers: 4 STARTING, 16 RUNNING, 36 and 48 paused, 38
and 50 pausing, 6 and 18 resuming, 64 COMPLETED, 128 ABORTED.

### Robot

State: `owner` (`_exclusive_component`), `recent` (the second after
`_exclusive_release_at`), the process of each PlayerManager (`proc`) with its watcher
(`child`), each connection with the task on its stack and the task's sockets
(`conn`, `broken`, `sockets`), and what all processes share: the pid file (`record`, the
process that locks the file its path names) and the device status (`status`).

| Code | Definition |
|---|---|
| `exclusive`, `release_exclusive` | in `Launch` and `EnterTask`; `Release` |
| `on_button_trigger` | `Autoplay`; `DecideAgain`, `PlayAgain` (PLAYTOGL); `Kick`, `KickWreck`, `QuitDead`, `SendQuit` (POWER) |
| `PlayerManager.__init__` | `Launch` with `OldKilled`, `LaunchFails` |
| `PlayerManager.quit`, `terminate`, `on_process_dead` | `QuitDead`, or `SendQuit` and then `QuitAnswered` or `QuitKills`; `Killed`; `OnProcessDead` |
| `DeviceOperationMixIn` | `EnterTask`, `EnterTaskFails`, `Clean`, `ExitTask`, `TaskDies`, `WreckDies` |
| `ServiceStack`, `RobotProtocol.close` | `QuitTask`, `Close` |
| `destory_exclusive` | `Kick` |
| the player: `lock_pidfile`, `deamon_entry`, `main.py` | `LockPidfile`, `UnlockPidfile`, `UnlinkPidfile`, `Restart`, `OnQuit`, `OnTimer` |
| `on_shutdown`; a crash and the next start | `Shutdown`; `RobotCrashes` |

A handler is one step of the service's event loop, but for the two that read the device
status and act on it later: quit() sends QUIT and waits up to a second for the answer before
it kills, and PLAYTOGL terminates and plays again. While one of them is under way (`acting`)
the service handles nothing else, and the players run on: a RESTART that is taken before
QUIT is answered makes the player busy (`raced`). A death, a signal and the end of a
connection are steps of their own, so every order of them with a kick, a quit and a
button is a behaviour. Facts of Python decide the rest. A task is held by a weak
reference, so one whose constructor raises before it has watchers leaves no lock behind; one
that raises later, in the start of its controllers, is kept by the callbacks of its watchers
until the garbage is collected (`Wreck`). A PlayerManager is part of a cycle with a `__del__`
and is never collected, so its watcher always fires, also when its successor is already
playing.

### UsbCable

State: the fields of `struct usb_data` that control anything, where each of the two
threads is (`at`), the signal on its way to a thread and in its handler, the
disposition of SIGUSR1, what the service is doing (`svc`, one call of close, free, setup
or start at a time), and the device and the robot at both ends. `setup_utils.py:132-135`
compiles with `-std=c99`, which gives `signal()` its System V meaning: one delivery sets
the default back until the handler has run. Every way setup, start and the handover to
the robot can fail is a branch of `SetupUsb`, `StartFails` and `HandoverFails`.

### UsbLink

State: the fields of `USBProtocol2` (`localIdx`, `remoteIdx`, `localQueue`,
`inhibition`) with the session of `USBHandler`, a client that mirrors the device's
conventions, both directions of the cable, and how many messages each side sent and
took. A message carries its session and its place in it, which stand for its payload.
`RecvAck`, `RecvNext`, `RecvOther`, `RecvReset` are the branches of `on_message`,
`RecvShake`, `RecvRequest`, `Ignore` those of `_on_handshake`, `SendAfter` is `_send`.

## Runs

Each run asks one question. The bounds are in the .cfg, the constants they
bound in the module; every passing run explores its whole state space.

| Run | Question | Bounds, and why they are enough |
|---|---|---|
| `faults` | Do lost and damaged lines, lost answers, repeated handshakes and the resends they cause leave the commands in order, once, within the buffer? | BufSize 2, three commands, so every slot of the ring is reused; two faults, so a resend can be hit again, the report of a runout only alone (`RunoutAlone`); one retry. The proofs cover every other value. |
| `live` | Is every command carried out or the owner told, is the owner called back, and is line checking on whenever a job line arrives? | Faults of every kind with one retry, so the retries can be used up; three commands over two slots: the owner stops at a full buffer, is called back and sends its last command. Two messages may be in flight at a bootstrap, so a repeated C1O can meet the answer to the first. `faults` counts by kind, and each property says which kinds it leaves out. |
| `head_faults` | Does a callback mean the head works at what was asked, is a head not given up early, and what is left of that when answers outlive their timeout? | Four calls, two faults: a lost command, its lost repetition, and the answer to either meeting the next operation; or two slow answers; or one of each. |
| `head_session` | Does a session have the head it requires, and does everything that was started end? | Every required type against every attached type; three calls and one fault. |
| `head_fresh` | Is an extruder that was never given a target allset? (no, see below) | One bootstrap. |
| `executor_job` | Does a print keep order, heat, parking, the power of its head and its end under requests and faults? Does a full buffer lose or repeat a move? | Five scenarios. A print: three macros, moves around a wait for the heater and around a pause, two requests, one fault of nine kinds, a buffer of its real size. A job held up and one resumed: three requests of all kinds with a fan command and one of three faults. A cooling job: heater commands with every target, waiting and not, and a head that restarts. An engraving: a buffer of four for runs of three and five moves, so it fills in the middle of the queue. Three commands are read ahead (24 in the code), fewer than each job has. A probe corrects once (5 times in the code), so both ends of its loop are met. |
| `executor_live` | Do pauses, resumes and jobs end? | Two requests of four kinds, a head that restarts or a probe that measures 0.0, with autoresume. |
| `executor_early_pause` | Is the mainboard only ever ready where the code expects it? (no, see below) | One request. |
| `usb_cable` | Do the threads, their signals and the failures of the cable leave no thread behind, no dead service and no plugged device without a cable? | Three faults of seven kinds, so a failure can meet the handling of another; queues of two datagrams, so that sends block. Plugging is not bounded. |
| `usb_link` | Does each side take what the other sent, once and in order, across losses, repetitions, sessions and the wrap of the numbers? | Moduli 4 and 3 for 65536 and 65535: they differ by one, as in the code, and six messages per direction go round both, with two more after the first that has a used number. Two losses, two sessions, up to three messages in flight, a queue of two (one more than `Burst`). |
| `usb_link_handshake` | Is a request for a handshake always answered with one? (no, see below) | As `usb_link`, with one loss. |
| `robot` | Does one component at a time drive the machine, is no player lost or killed by mistake, and does every finished one let go? | Two connections and two players besides the button: enough for a task that is kicked, a successor and a late exit, for a player, its successor and the late report of its death, and for a player that is restarted while quit() waits for it. One crash of the service. |

All runs switch the deadlock check off: an owner makes finitely many calls, a player
that has closed receives nothing, and the counters of requests and faults are
bounds, so a finished behaviour stops; the USB service may be killed by its own signal. Progress is stated by the liveness
properties instead.

Symmetry is used in `faults` only, over the commands, which no liveness property
and no other constant tells apart.

## Fairness

What is fair is what the event loop and the hardware do on their own; an owner, a
user and a fault never have to act.

- `MainController`: WF of receiving, of patrol and of the clock (the loop of the
  owner reads its socket and calls patrol from a timer), of the mainboard reading a
  line and of its finishing a command (it is powered and executes).
- `HeadController`: WF of receiving, patrol and both timeouts, and of the head
  reading its line. Fairness is per group, not per branch: which branch patrol
  takes is decided by its guards.
- `FcodeExecutor`: WF of what the mainboard and the head deliver, of a ping when the
  head is free, and of the temperature following the heater. It is written out as
  `[]<>~can \/ []<><<A>>_vars` with `can` the condition that enables A, since ENABLED
  of these actions is too large for TLC. `can` holds exactly when A can change the
  state, so the formula is WF of A.

- `UsbCable`: WF of each thread, of the service unless it waits in a join or for the robot,
  of the robot reading, and SF of the udev notification: the event loop calls every
  watcher that is ready, the timer's does not starve it.
- `Robot`: WF of the effect of a SIGKILL, of the exit of a player that left its loop,
  of the two reports the event loop owes, a child that died and a connection that ended,
  and of the end of a handler that has begun (quit() waits a second at most).
  No job has to end, no user has to do anything, and no garbage has to be collected.

`UsbLink` states safety only: the device has no timer and repeats a message only when the
client says something, so nothing is promised of a silent client.

## Proofs

Eight modules hold theorems, for all values of the constants that satisfy the
assumptions of the modules they extend. Each first proves an inductive invariant
`IInv` (`Init => IInv`, `IInv /\ [Next]_vars => IInv'`, one lemma per action) and then
what follows from it. `IInv` of `MainController` and `HeadController` are also
invariants of the runs `faults` and `head_session`; those of the others were
model-checked on the constants of their runs before they were proved.

| Module | Theorem | Says |
|---|---|---|
| `MainControllerProofs` | `RingIsSafe` | `[]SlotIntegrity` |
| | `InOrder` | `[]ExactlyOnceInOrder` |
| | `Retransmittable` | `[]NothingForgotten` |
| | `FlowControl` | `[]NoOverrun` |
| | `DrainedIsDone` | `[]DrainedMeansDone` |
| | `LinesAreChecked` | `[]NoUncheckedLine` |
| | `Refinement` | `ImplementsPipe`: every step is a step of `CommandPipe` or leaves it unchanged |
| `HeadControllerProofs` | `OnlyTheRightHead` | `[]RightHead` |
| | `LossesAreTolerated` | `[]ToleratesLosses` |
| | `CallbackMeansDone` | `[]ConfirmedApplied` |
| | `CallbackMeansUnderway` | `[]ConfirmedSettled` |
| `FcodeExecutorProofs` | `JobInOrder` | `[]InJobOrder` |
| | `CompletedIsComplete` | `[]CompletedMeansAll` |
| | `EndIsFinal` | `FinalIsFinal`, an action property |
| `FcodeExecutorPauseProofs` | `StashIsKept` | `[]StashDiscipline`, where two gaps are not met |
| | `PausedStandsStill` | `[]PausedIsStill`, where the same two are not met |
| | `StandbyIsKept` | `[]StandbyWhenPaused` |
| `FcodeExecutorHeaterProofs` | `MovesAreHot` | `[]HotWhenMoving`, where three gaps are not met |
| `RobotProofs` | `OnlyOneDrives` | `[]OneDriver` |
| | `RunningIsRecorded` | `[]Recorded` |
| | `JobsAreKept` | `JobKept`, an action property |
| `UsbCableProofs` | `NothingFreedIsUsed` | `[]NoUseAfterFree` |
| | `OneThreadIsSafe` | `[]KilledOnlyInRaces` |
| `UsbLinkProofs` | `PoppedIsDelivered` | `[]AckedIsDelivered` |
| | `TakenExactlyOnce` | `ExactlyOnceInOrder`, an action property |

and `TypeCorrect`, `[]TypeOK`, for each of the six components.

**MainController.** Assumed: at least two slots, a nonempty set of commands, natural
bounds (`ConstantsAssumption`). In-order execution rests on what is on the wire: a line
carries the command its number was issued with (`LinesOnWire`). A resend keeps
that only if the ring still holds the line (`SlotIntegrity`), which needs
consecutive numbers in the two queues and their total length below BufSize
(`Queues`; `SlotsDiffer` is the arithmetic). The queues keep this shape only if a
report never confirms what the mainboard has not accepted nor less than what is
known; since reports wait in the channel, this is said of every report in it and
of each pair (`ReportsInOrder`), with the mainboard's counters (`MainboardCounts`)
and the empty queues of an unready controller (`NotReady`).

`LinesAreChecked` has an invariant of its own, `Handshake`. A line is read with checking on
if the last C1O or DISABLE ahead of it is a C1O (`LinesChecked`), so what a ready
controller needs is that the wire ends that way (`EndsOn`). A C1O that is repeated makes
the mainboard report a missed line, to which the controller answers with DISABLE, so
DISABLE may be on its way when LINECHECK_ENABLED comes. `Settling` says why that is
never believed too early: between the report and the LINECHECK_ENABLED there is a
LINECHECK_DISABLED, and that one was answered with another C1O.

**HeadController.** Assumed: temperatures are naturals with 0, the targets allset waits for are
among them and not 0, `Unset` is not one (`HeadConstants`). The parts of `IInv`:

- A greeting on the line comes from the attached head (`Greetings`), and with a required
  type the extension is the one for it (`ExtFits`): `RightHead`.
- `Budget` and `Spent`: `send_retry` counts for three kinds of message. Every count is paid by
  a fault of its own (a lost line, a late answer, a refusal), where an answer that was
  late and is still on its way has been paid already. So the counter stays below the faults,
  whatever MaxRetry is: `ToleratesLosses`.
- `Session`, as long as no answer was late: "OK" has no number, so what it answers is
  settled by counting. The two directions are one pipe (`Pipe`: what the head has said, then what
  it has still to read), in which the messages of each class are as many as the host waits
  for (`LineInOrder`), nothing that was overtaken is left in it, and the settings the head
  works at are those of the commands that have left it (`Answered`). `Promise` then says of
  the operation in progress where its commands are: waiting, out, or confirmed.
  `ConfirmedApplied` is the last case. All of it is about the settings asked for, so of a
  standby it says that the fan stops, and nothing of the heater's undefined target.
- `Course`, when late answers are the only fault: nothing is lost, so the last command of
  each channel in the pipe is the latest one the host sent (`Latest`), and a callback comes only
  when no command of the operation is left in the host (`OnItsWay`): `ConfirmedSettled`.

The first proof attempts failed for good reasons, and TLC showed each on a small instance. (a) A
second bootstrap before the answer to the first leaves a HELLO behind that opens the session
early; the OK of a command freed by the next bootstrap is then taken for that of standby's
first command, and standby calls back while its last command is still on the line, without any
fault. `ConfirmedApplied` therefore leaves out bootstraps that overlap (`overlapped`), and the
hazard is listed. (b) With no head required, patrol opens a session without a head while
HELLO is late; recover calls back at once, then the greeting builds an extension whose target
is uninitialized. `ConfirmedSettled` is about a head that is needed.

**FcodeExecutor.** Assumed: the scenarios are well formed, the bounds positive
(`ExecutorConstants`); so the theorems hold for every job, buffer, head, macro list and number
of requests and faults. A handler is a chain of operators on the record `p`, so the proof has
one lemma per operator (`Live` to `Live`, and an ended job keeps its status: `Leads`), one
per action (`Fine`), and composes them through `Then`. What is kept between handlers
(`Sound`) has four parts:

- `Ordered`: the commands carried out, then those of the job in the mainboard's buffer, then
  `next`, are increasing positions of the file. Without the buffer the order would not be
  inductive: the mainboard appends what was sent long ago.
- `NoGap`: until the job is aborted, every command before `next` is carried out or in
  the buffer, unless it is one that is not carried out. An abort empties nothing but
  may refuse a command that fire has taken from the queue, so the part ends at 128.
- `Reading`: `next` follows the file, and COMPLETED comes only with all of it taken.
- with COMPLETED nothing is in the buffer; since nothing is sent then, it stays so.

`fire` runs a loop over its queue. The number of turns is data, so `DrainTurns` shows by
induction over the set of turn numbers for which it holds (`Induct`) that each turn is
sound; a turn sends a move, or hands a command to the head and only with an empty buffer.

`StandbyIsKept` adds `Held` to this invariant. The supply of the heater
is switched on by the steps that prepare a head and by every greeting (`_on_toolhead_ready`), also
in a pause. `pause()` cuts the power of a head that is not ready, and only
`set_toolhead_operation` gives it back, so a head that is still to greet in a pause is powered
only when it is under the user's control, and its greeting does no harm. Inside
`_toolhead_paused` it fails for a moment: `paused()` sets 48 before `set_standby` switches the
supply off (`PausedNowHeld` says what is left to do).

`StashIsKept` and `PausedStandsStill` relate three things that are never read at the same time:
where the head is, which commands the mainboard has still to carry out, and the flag by which
the player remembers what it asked for. `Way` orders the commands on their way: behind a
parked head only commands that rest, until a C2F; one C2 at most, and only while the flag
says stashing. `Flags` ties the flag to the status. `Signal` is the CTRL line on its way:
"STASH" is read exactly by the pause that asked for it, so C2 is carried out before the flag
says stashed. `Resting` keeps the macros that send a move out of the pause, where their
allset callback could still come. Both theorems have two hypotheses about the whole behaviour,
each a gap of the code (below), without which the properties are false:

- `NoStaleStandby`: a pause that is still parking meets no `_toolhead_paused` left over as the
  head's callback (`fcode_executor.py:211`).
- `RoomToReturn`: while the flag is set two places of the mainboard's buffer are free, so
  that C2F is accepted once its flag is cleared (192). A parked head meets only commands of
  speed and of filament, so this is about the size of the buffer.

Neither is empty: TLC finds both true in every state of `executor_job`, all of whose jobs
pause, and the proof asks nothing more. This proof also corrected the model: the tests in
`on_mainboard_empty` and `on_mainboard_sendable` overlap, and they had been written with CASE,
which may take any arm that is true; they are now tried in the order of the code.

`MovesAreHot` builds on the invariant of the stash. It is about the moves behind a wait for a
target above 60 degrees (`Waited`), until the next heater command of the job, whatever that is:
a job that switches its own heater off, or gives a low or a new target without waiting, is
within the model and is not promised a hot head after it. Such a move was sent when the head was
warm; what has to be shown is that everything that cools the head in between is made good before
the next one is carried out. `Warm` has four parts:

- `Linked`: a head that is ready has its power, or was reset since (`wasReset`); a reading of
  a hot target means a head that is not cold; and without a fault there is no error of the
  head and no reset.
- `Planned`: only moves are in the mainboard's buffer (`OnlyMoves`), for a command of the head
  is run when the buffer is empty; while a wait of the job lasts no command of the job is under
  way, and its target is that of the file; unless the user may switch the heater off, the
  target behind a wait is hot.
- `Returning`: a resume that has greeted a parked head has the command to heat in its queue,
  on its way, or carried out, so that WaitHeadMacro is not satisfied by a head that was not
  told.
- `Hot`: while moves are under way or may be sent, the head is not being greeted, has its
  supply, and, with a wait behind it, is not cold and either heats or has a reading of its
  target that no answer is about to replace.

An exception leaves a handler in the middle, so each operator is shown to keep `Warm`, and,
where it raises, what the ways out of `on_loop` and of the callbacks need (`Core`). Besides
the two hypotheses above the theorem has a third, again a gap of the code:

- `NoEarlyAllset`: no resume is greeting its head while the allset callback of an earlier
  resume is stored and a ping from before is unanswered (166), unless the head has to be told
  its target anew or has yet to reach it.

This one is needed: the five requests of the known gap below violate `HotWhenMoving` without it.
Unlike the other two it does not hold in every state of `executor_job`: SET_TH_OPERATING in
a pause and RESUME before the answer to the last ping lead to a state without it, from which
the player goes on with a head that is not ready. Within the bounds of that run
`HotWhenMoving` holds all the same, which the run checks without any hypothesis; the theorem
says nothing of a behaviour that meets the gap, nor of a laser, whose jobs have no wait. Under the
three hypotheses TLC found the invariant true on sets of scenarios larger than those of the
run before it was proved.

**Robot.** No assumption. `owner` names the one manager or task that may drive; a player
that is not the owner's has been killed or is on its way out, a task that is not the owner's has
no open sockets (unless `clean()` raised, which `OneDriver` leaves out). The pid file
is locked by at most one process that is neither killed nor dead, and until a crash that
process is the one its path names. `ActingOn` carries what a handler has read to the step in
which it acts: the manager still holds the lock, and no job is under way unless a player has
taken RESTART since.

**UsbCable.** No assumption. The invariant follows `svc`, the step of the service: which
threads exist, which of them can still be where, and whether the structure is there. The
handler of SIGUSR1 is missing only between a delivery and its end, so a second delivery
finds it missing only if two threads can be hit: `KilledOnlyInRaces`.

**UsbLink.** Assumed: fewer than 65536 messages are unacknowledged at any time
(`UsbLinkWindow`: `MaxQueue` below the modulus of the numbers). The code does not bound its
queue; with more, two messages in it would have one number. The numbers of the queue are
consecutive up to `localIdx`; the place of the message the client waits for lies in the
queue or just behind it; every message and every acknowledgement on the cable is no older
than what its receiver has seen, or is of an earlier session. An acknowledgement of the highest number pops no more than the client has taken as long as that
is the number of the last message of the queue (`AckPops`); where it is not, `topAck` ends the
window. Most of the module is arithmetic of numbers that wrap at two moduli that differ
by one.

**Model-checked only.** Liveness under fairness (`Delivery`, `WakeUp`, `EndIsHeard`,
`BootEnds`, `OpEnds`, `ResetNoticed`, `PausingEnds`, `ResumingEnds`, `EndCloses`, `JobEnds`,
`DeadIsReplaced`, `Released`), which is out of the prover's reach. Every safety invariant and
every action property of the runs is the statement of a theorem.
The runs `robot`, `usb_cable` and `usb_link` leave `TypeOK` out to spend the time on the
properties; it is proved.

## Abstractions

- **MainController.** A line is its number and its command; checksums are a fault
  that reports a mismatch. `expired` replaces timestamps: the clock may pass the
  timeout at any moment. `MaxWire` bounds how much is in flight when the owner
  bootstraps or sends a raw line, `MaxIssued` the commands, `MaxFaults` the faults. The
  constants of the code are parameters (BufSize, MaxRetry).
- **HeadController.** A timeout that passes while something is in flight is a fault
  ("slow"). Channels are one heater and one fan; temperatures and fan
  speeds are levels. A BARE head is one whose greeting the extension refuses
  (SPEC_ERROR). The laser extension has no commands. `MaxCalls` bounds the
  operations.
- **FcodeExecutor.** Commands are kinds: move, fan, heater command with a target, the same
  with a wait, pause, abort, unreadable. Targets are off (below 40 degrees), low (at most 60,
  which allset does not wait for), hot, hotter (above 189, where a soft abort retracts) and
  one that is refused (above 280). Temperature is cold (at most 46 degrees, the value of
  on_loop), warm, hot or hotter (within three degrees of those targets). A head does not cool
  down to cold between two readings. There is one heater and one fan; the index in
  a heater command is that heater's. A laser job has no commands of the head. What is given to
  the head controller counts as carried out in the order of the job; the heater follows when
  the head answers. A probe's reading is close, too far (again, up to `Ttl` times), refused as
  too high, 0.0, or that of a broken sensor. The mainboard answers a CTRL line before it
  reports the command that caused it, and a report may cover any number of finished
  commands. The several commands of start-up, retract and load, and those a macro sends in one go,
  are one each. hal
  answers ok. The line protocols are as `MainController` and `HeadController` show
  them: commands run in order and answers belong to their command; losses surface
  as an offline or restarted device. `MaxHeadQueue` bounds the queue of the head.
- **Robot.** One wreck of a failed constructor at a time: the next needs the lock. What a
  task or player does with the boards is left out, but for when it has
  them. A player that was sent SIGKILL does nothing more, and keeps its lock until the
  kernel has removed it. `MaxJobs` bounds the players, `MaxCrashes` the crashes. The status
  labels of the device tasks are left out. A new service starts at once.
- **UsbCable.** A datagram is a unit. An `at` of "call" is between the test of `running` and
  `recv`. The thread identifier a failed pthread_create leaves is 0. By the time the timer
  looks, the threads of a new cable have been scheduled. `MaxFaults` bounds the faults,
  `Queue` the datagrams.
- **UsbLink.** The client is the one the device's conventions call for: one request at a time,
  repeated until acknowledged. A message lost in part is lost as a whole. Session numbers
  are not reused. `MaxSent`, `MaxQueue`, `MaxWire`, `MaxSessions`, `MaxLost` bound the run.
- Undefined behaviour: the heater target of a new extension (`head_controller.pyx:426`) and the
  heater target that standby sends (479) are any level, in both modules where they appear.

## Disagreements and known gaps

Three statements of the repository that the code does not keep are shown by runs:

- `head_fresh`: the constructor of the extruder extension leaves its only heater
  target uninitialized (the loop at `head_controller.pyx:426` starts at 1), while
  `tests/player/head/test_head_control_extruder.py:183` asserts that a fresh
  extruder is allset.
- `executor_early_pause`: `fcode_executor.py:154` expects the mainboard to get ready
  in status 4, 6 or 18. A user's PAUSE is accepted at 4 before that; the mainboard then
  gets ready at 38, nothing announces PAUSED, and the job can only be aborted.
- `usb_link_handshake`: the head of `usb2pc.py` (lines 17, 27-28) has the client ask for a
  handshake with `0xfc, None, 0xb0`. After 0xfe the device reads frames of level 2, in
  which that message has a number: it is dropped and acknowledged. A client that missed the
  end of the handshake asks in vain.

The models show, or their translation met, more behaviours that no statement of the repository settles. Each
bounds what the properties say; the hazards of `PROJECT.json` point to them.

- do_standby passes an int for `%.1f` (`head_controller.pyx:479`): what a standby sends to the
  heater is undefined. The pause cuts the 24 V as well, so that a paused heater is cold all
  the same (`StandbyWhenPaused`); a standby alone promises the fan.
- A resume overtaken by a pause leaves its allset callback on the head controller
  (`fcode_executor.py:166`). In the next resume it may fire while the head is being
  greeted, and the job runs (line 180: "Toolhead should be ready"). With a job that waits and
  then moves three times, PAUSE, RESUME, PAUSE, RESUME, PAUSE lets it move with a cold head:
  five requests, more than `executor_job` has.
- A probe that measures exactly 0.0 stops the start-up (`zprobe.py:59` tests `if self.data:`):
  nothing is sent, no empty callback comes again and the job stays RUNNING until it is
  paused or aborted. `JobEnds` leaves it out.
- An error during a user's pause replaces its empty label (`base.py:107`);
  autoresume reads the label and ends the pause of the user.
- SET_TH_STANDBY followed by RESUME leaves `_toolhead_paused` as command callback;
  the next OK in a later pause announces PAUSED early (`fcode_executor.py:211`).
- A head lost while PAUSING waits for the answer to standby is not asked again
  (lines 636 and 216): the job stays PAUSING.
- HEATER_OFF in a pause takes the target away without another for the resume: Allset then
  asks for no temperature (its target is NaN), and RESUME goes on with a cold head.
  `HotWhenMoving` says nothing of a head without a target where HEATER_OFF may come; the job wait, move, pause, move, move
  with the requests SET_TH_OPERATING, HEATER_OFF and RESUME shows it.
- The stashed flag is cleared before C2F is accepted (192): with a buffer of two or
  three a pause parks a second time.
- pause() cuts the 5 V of a head that is not ready while buffered moves run (391);
  a head that goes offline during standby at 48 keeps its 24 V.
- After an abort the mainboard's reports still call fire (450-507): commands that were read
  ahead are sent while standby waits for its answer, and a move the closing
  mainboard refuses is lost. `InJobOrder` asks for no gap only until the abort.
- A soft abort with an empty buffer raises AttributeError (538-540); a head that goes
  offline after the end but before standby is answered is never closed (620-634).
- After a lost last report the mainboard is not asked again (`EndIsHeard` excludes
  lost answers); `send_retry` counts over the whole job.
- **Robot.** quit() reads the status, sends QUIT and kills a player that has not answered
  within a second (`play_manager.py:226-236`). A player that takes RESTART just before reads
  its whole file first (`main.py:232-240`) and is killed although its job is not over; the same
  for PLAYTOGL in the moment between its look and its kill (`robot.py:98-99`). `JobKept` names
  this exception (`raced`). A task whose constructor raises in the start of its controllers
  keeps the lock until the garbage is collected (`base.py:98-107`); a kick ends it, and closes
  the connection. A `clean()` that raises (IControlTask's first line, RawTask's standby) leaves the
  task's sockets and watchers open although the lock is given up (`base.py:117`);
  `OneDriver` leaves such sockets out. Device tasks, unlike players, do not look at the pid
  file: after a crash of the service a task may start beside the player left behind.
  After a crash, a player on its way out may remove the pid file of the one started
  next (`launcher.py:220-222`); `Recorded` and `JobKept` are about services that have
  not crashed. A kicked client whose connection is broken keeps its cleaned task until
  the connection ends. The late death report of a replaced player sets the device status
  to idle under its successor until that writes its own.
- **Player.** After a set-up that fails to reach the boards, FatalExecutor is closed and
  teardown_job raises at every tick (`main.py:254-267`), so the status stays 1 and quit,
  PLAYTOGL and POWER are refused. ABORT then calls soft_abort, which FatalExecutor answers
  with None.
- **USB cable.** SIGUSR1 may kill the service when both threads are there (the run says
  exactly when); a SIGUSR1 that tx takes between its test and recv is lost, and close_usb
  waits for a datagram of the robot (`usb_txrx.c:239-240`). Nobody closes
  `socket_vector[0]`, so each replug leaks a descriptor and the robot's old handler never
  sees an end. A transfer that times out with nothing sent drops the rest of a datagram
  (264-267). After a late "X" the service hands the socket over a second time.
- **USB link.** An acknowledgement of 65535 is sent for "nothing yet" and is at least every
  number, so it empties the queue of a device whose first message was lost; the same
  happens at the wrap, where messages are queued behind the highest number when it is
  acknowledged (`usb2pc.py:414, 484`). From there on `AckedIsDelivered`, and the client's side
  of `ExactlyOnceInOrder`, say nothing (`topAck`); a wrap with nothing queued behind the highest
  number is covered. The moduli differ (434 and 477): a client that counts modulo 65536 is out of
  step after 65535 messages.
- **Head.** A bootstrap called again before the answer to the first leaves its HELLO on the
  line; the OK of a command that was freed is later taken for another's
  (`head_controller.pyx:112`), and a callback comes too early. A required head "any" lets
  patrol open a session without a head; a late HELLO then makes the extension with its
  uninitialized target (244, 426).
- The laser and user extensions lack on_response (`head_controller.pyx:528-565`).

## What is not modelled

- The motion planner and the delta correction (floating point); of the executor the
  interrupted load and unload macros, the correction and run-circle macros and
  prevent_pause of ExecCommandMacro.
- Of the player process TaskLoader, the recent files, setup_job and teardown_job with
  FatalExecutor; of the tasks what each does with the boards, the camera and files; of the USB
  session level 1, the channels and broken frames.
- The firmware update tasks, the encrypted connections, the daemons of the network service
  and the receipts of the cloud service: they have control worth a module each, which this
  project does not have yet.
- The HAL service, UART, camera, UPnP, storage, security and the tools: I/O, data or
  bindings.
- Most lines of the repository by count are C and C++ that Cython generated and that is
  checked in beside its source (`src/src/security/security.c`,
  `src/src/player/head_controller.c` and others). The models are translated from the
  source, the `.pyx` files and the C and Python written by hand, and the map names those.

## Plan

Done: MainController with CommandPipe, HeadController, Robot, UsbCable and UsbLink, each
with proofs of every safety property its runs check; FcodeExecutor with its macros,
with proofs of its type, the order of the job, its completeness, its end, and, where the
named gaps are not met, the standby of its pauses, the parking of the head and its heater.

Next, more of the system: the update tasks (steps, timers and late answers; ended exactly
once), recvline's reassembly of lines (`misc.c:64`), the channels over UsbLink.

Runs stay few: a new module gets one run with all its properties, and an existing run is
extended before another is added.
