----------------------------- MODULE FcodeExecutor -----------------------------
(***************************************************************************)
(* The player: fluxmonitor/player/fcode_executor.py and base.py with the   *)
(* macros of player/macro.  It runs a job: it reads commands, hands them   *)
(* to the mainboard or the head, pauses, parks, resumes and ends.          *)
(*                                                                         *)
(* The player is one thread.  A handler runs to its end before the next    *)
(* one, and calls itself through callbacks, so a handler is an operator    *)
(* from the state of the player to its state, and an action applies one.   *)
(* A Python exception is the field exc: Then skips what it would skip.     *)
(*                                                                         *)
(* The two controllers are reduced to what MainController and              *)
(* HeadController show of them: commands run once, in order, and an answer *)
(* may be late.  Mainboard, head and hal are external.                     *)
(***************************************************************************)
EXTENDS Naturals, Sequences, SequencesExt

CONSTANTS
    Scenarios,    \* the jobs, heads and disturbances to consider
    Prefetch,     \* commands read ahead (24)
    MaxHeadQueue, \* bound: commands waiting for the head
    Ttl           \* corrections a probe may take (5)

\* What a heater can be told: to switch off (below 40 degrees), a target of at most 60,
\* one up to 189, one above, and one that set_heater refuses (above 280).
Hots == {"hot", "hotter"}
Targets == {"off", "low", "excess"} \cup Hots
Levels == {"off", "low"} \cup Hots

\* The commands of a file: a move is for the mainboard, a fan and a heater command for the
\* head, a wait is a heater command that blocks, and a bad one cannot be parsed.
CommandKinds == {"move", "fan", "heat", "wait", "pause", "abort", "bad"}
Heats == {"heat", "wait"}
FileCommands ==
    [kind : Heats, to : Targets] \cup [kind : CommandKinds \ Heats, to : {"none"}]
MacroKinds == {"startup", "heat", "probe"}
AllRequests == {"PAUSE", "RESUME", "ABORT", "SET_TH_OPERATING", "SET_TH_STANDBY",
                "HEATER_ON", "HEATER_OFF", "LOAD_FILAMENT"}
AllFaults == {"runout", "mainboard", "silent", "restart", "ER", "shake",
              "hardware", "bad probe", "zero probe"}

\* What a probe measures: below the threshold, above it, so far off that the height it
\* corrects is refused, exactly 0.0, and a sensor that does not work (-50 or less).
Readings == {"close", "far", "high", "zero", "bad"}

\* A scenario: the commands of the task file, the options the player is started with,
\* and what may happen to it.  A laser job has neither fan nor heater commands, and no
\* heater macro.
IsScenario(c) ==
    /\ c.job \in Seq(FileCommands)
    /\ c.macros \in Seq(MacroKinds)          \* options.get_player_initialize_macros()
    /\ c.head \in {"EXTRUDER", "LASER"}      \* options.head
    /\ c.head = "LASER" =>
           /\ \A i \in DOMAIN c.job : c.job[i].kind \notin {"fan"} \cup Heats
           /\ \A i \in DOMAIN c.macros : c.macros[i] # "heat"
    /\ c.autoresume \in BOOLEAN             \* options.autoresume
    /\ c.bufsize \in Nat \ {0, 1}           \* options.play_bufsize
    /\ c.requests \subseteq AllRequests     \* the requests that arrive,
    /\ c.maxRequests \in Nat                \* bound: and how many
    /\ c.faults \subseteq AllFaults         \* what may go wrong,
    /\ c.maxFaults \in Nat                  \* bound: and how often

ASSUME ExecutorConstants ==
    /\ \A c \in Scenarios : IsScenario(c)
    /\ Prefetch \in Nat \ {0} /\ MaxHeadQueue \in Nat \ {0} /\ Ttl \in Nat

VARIABLES
    p,        \* the player and what it is connected to, a record (see Init)
    requests, \* requests so far
    faults,   \* faults so far
    scenario  \* the scenario, which never changes

vars == <<p, requests, faults, scenario>>

-----------------------------------------------------------------------------
Job == scenario.job
InitMacros == scenario.macros
HeadKind == scenario.head
BufSize == scenario.bufsize

\* status_id: 4 STARTING, 16 RUNNING, 64 COMPLETED, 128 ABORTED; with 32 it is
\* pausing or paused, and 2 says it is on its way (pausing or resuming).
Starting == {4, 6, 36, 38}
Running == {16, 18, 48, 50}
Ended == {64, 128}
Pausing == {38, 50}
Paused == {36, 48}

\* The task file ends with the move home that fire appends.
Home == Len(Job) + 1
Kind(i) == IF i = Home THEN "move" ELSE Job[i].kind
Target(i) == Job[i].to
Carried(i) == Kind(i) \in {"move", "fan"} \cup Heats

Cmd(c) == [op |-> c, i |-> 0]
JobCmd(i) == [op |-> "job", i |-> i]
Ops == {"X5", "C2", "C2F", "G28", "macro", "probe", "retract", "load"}
Commands == [op : Ops, i : {0}] \cup [op : {"job"}, i : 1..Home]

TypeOK ==
    /\ p.status \in Starting \cup Running \cup Ended
    /\ p.error \in {"none", "head lost", "other"} /\ p.exc = "none"
    /\ p.stash \in {"none", "stashing", "stashed"}
    /\ p.macro \in MacroKinds \cup {"none", "job heat", "soft abort"}
    /\ p.tasks \in Seq(MacroKinds)
    /\ p.probing \in BOOLEAN /\ p.probe \in Readings \cup {"none", "converged"}
    /\ p.round \in 0..Ttl
    /\ p.heatTo \in Targets
    /\ p.retracting \in BOOLEAN /\ p.pausedMacro \in {"none", "to send", "sent"}
    /\ p.control \in BOOLEAN /\ p.closed \in BOOLEAN
    /\ p.next \in 1..Home+1 /\ p.fed \in 0..Home /\ p.next <= p.fed + 1
    /\ p.mb \in {"off", "ready", "error", "closing"}
    /\ p.queue \in Seq(Commands) /\ Len(p.queue) <= BufSize
    /\ p.fin \in 0..Len(p.queue)
    /\ p.ctrl \in Readings \cup {"none", "STASH", "STASH_POP"}
    /\ p.parked \in BOOLEAN
    /\ p.th \in {"INIT", "BOOTING", "RUNNING"}
    /\ p.out \in Levels \cup {"none", "fan", "standby"}
    /\ p.hq \in Seq({"standby", "low"} \cup Hots)
    /\ p.updating \in BOOLEAN
    /\ p.cb \in {"none", "recovered", "paused", "close"}
    /\ p.allsetCb \in {"none", "task", "job", "resume"}
    /\ p.want \in {"unset", "low"} \cup Hots
    /\ p.rt \in {"none", "cold", "warm"} \cup Hots
    /\ p.errno \in {"none", "shake", "hardware"}
    /\ p.power \in BOOLEAN /\ p.v24 \in BOOLEAN
    /\ p.heat \in Levels /\ p.temp \in {"cold", "warm"} \cup Hots
    /\ p.wasReset \in BOOLEAN
    /\ p.did \in Seq(1..Home) /\ requests \in 0..scenario.maxRequests
    /\ faults \in 0..scenario.maxFaults /\ scenario \in Scenarios

\* After __init__ and start(): both controllers exist and the mainboard has
\* been greeted.  setup_job has cut the power of the head.
Init ==
    /\ scenario \in Scenarios
    /\ p = [status |-> 4, error |-> "none", exc |-> "none",
            stash |-> "none", macro |-> "none", tasks |-> <<>>, probing |-> FALSE, probe |-> "none",
            round |-> 0, heatTo |-> "hot", retracting |-> FALSE, pausedMacro |-> "none", control |-> TRUE,
            closed |-> FALSE, next |-> 1, fed |-> 0,
            mb |-> "off", queue |-> <<>>, fin |-> 0, ctrl |-> "none", parked |-> FALSE,
            th |-> "INIT", out |-> "none", hq |-> <<>>, updating |-> FALSE,
            cb |-> "none", allsetCb |-> "none", want |-> "unset", rt |-> "none",
            errno |-> "none", power |-> FALSE, v24 |-> FALSE,
            heat |-> "off", temp |-> "cold", wasReset |-> FALSE,
            did |-> <<>>]  \* history: the job commands carried out
    /\ requests = 0 /\ faults = 0

-----------------------------------------------------------------------------
(* What the player asks of the controllers and of hal. *)

Then(s, Step(_)) == IF s.exc = "none" THEN Step(s) ELSE s
Raise(s, e) == [s EXCEPT !.exc = e]
Quiet(s) == [s EXCEPT !.exc = "none"]

Usable(s) == s.mb \in {"ready", "error"}
BufferedCmdSize(s) == Len(s.queue)

SendCmd(s, c) ==
    IF Usable(s) /\ BufferedCmdSize(s) < BufSize
    THEN [s EXCEPT !.queue = Append(@, c)]
    ELSE Raise(s, "other")

Ready(s) == s.th = "RUNNING"
Sendable(s) == Ready(s) /\ s.out = "none"

\* A target of at most 60 degrees is not waited for.
Allset(s) == HeadKind = "LASER" \/ (s.rt # "none" /\ (s.want \in Hots => s.rt = s.want))

\* HeadController.send_command
ToHead(s, c) == IF Sendable(s) THEN [s EXCEPT !.out = c] ELSE Raise(s, "other")

ToolheadBootstrap(s) ==
    [s EXCEPT !.th = "BOOTING", !.out = "none", !.hq = <<>>, !.errno = "none"]

ToolheadReset(s) ==
    [s EXCEPT !.th = "INIT", !.errno = "none", !.rt = "none", !.allsetCb = "none"]

\* The first queued command leaves, or is lost when one is out already.
PopToHead(s) ==
    IF s.hq = <<>> THEN s ELSE ToHead([s EXCEPT !.hq = Tail(@)], Head(s.hq))

\* ExtruderExt.set_heater; a heater that is switched off has no target to recover.
SetHeater(s, v) ==
    IF v = "excess" THEN Raise(s, "system")
    ELSE ToHead([s EXCEPT !.want = IF v = "off" THEN "unset" ELSE v], v)

PowerOn(s) == [s EXCEPT !.power = TRUE]
PowerOff(s) == [s EXCEPT !.power = FALSE, !.heat = "off", !.wasReset = TRUE]
SetOperating(s) == IF HeadKind = "EXTRUDER" THEN [s EXCEPT !.v24 = TRUE] ELSE s
SetStandby(s) == IF HeadKind = "EXTRUDER" THEN [s EXCEPT !.v24 = FALSE] ELSE s

-----------------------------------------------------------------------------
(* Ending: terminate, close, abort, on_completed. *)

Close(s) == [s EXCEPT !.closed = TRUE]

MainboardClose(s) == IF Usable(s) THEN [s EXCEPT !.mb = "closing"] ELSE s

\* toolhead.standby: do_standby puts an int where the format wants a double, so that the
\* target is undefined, see HeadOk.  Without an extension command the callback is called at once,
\* which leaves the state called.
Standby(s, cb, called) ==
    IF HeadKind = "LASER" THEN called
    ELSE LET t == [s EXCEPT !.hq = Append(@, "standby"), !.cb = cb]
         IN  IF s.updating \/ ~Sendable(s) THEN t ELSE PopToHead(t)

\* Mutant: leaves the head as it is.
TerminateHot(s) ==
    LET t == MainboardClose([s EXCEPT !.macro = "none", !.pausedMacro = "none"])
    IN  IF Ready(s) THEN t ELSE Close(t)

Terminate(s) ==
    LET t == MainboardClose([s EXCEPT !.macro = "none", !.pausedMacro = "none",
                                      !.power = @ \/ ~Ready(s)])
    IN  IF Ready(s) THEN SetStandby(Standby(t, "close", Close(t))) ELSE Close(t)

\* Mutant: does not look whether the job has ended.
AbortAnyTime(s, error) ==
    LET t == Terminate([s EXCEPT !.status = 128, !.error = error])
    IN  IF error = "none" THEN t ELSE Close(t)

Abort(s, error) ==
    IF s.status \in Ended THEN s
    ELSE LET t == Terminate([s EXCEPT !.status = 128, !.error = error])
         IN  IF error = "none" THEN t ELSE Close(t)

OnCompleted(s) == [Terminate(s) EXCEPT !.status = 64]

-----------------------------------------------------------------------------
(* Pausing and resuming. *)

OnMainboardReady(s) == ToolheadBootstrap(PowerOn(s))

\* Mutant: does not look whether the job is paused.
ResumeAnyTime(s) ==
    LET t == [s EXCEPT !.status = (@ - 32) + 2, !.error = "none"]
    IN  Then(SendCmd(t, Cmd("X5")),
             LAMBDA u : OnMainboardReady([u EXCEPT !.mb = "ready"]))

\* The mainboard forgets a runout and its callback is called at once.
Resume(s) ==
    IF s.status \notin Paused \/ s.pausedMacro # "none" THEN s
    ELSE LET t == [s EXCEPT !.status = (@ - 32) + 2, !.error = "none"]
         IN  Then(SendCmd(t, Cmd("X5")),
                  LAMBDA u : OnMainboardReady([u EXCEPT !.mb = "ready"]))

\* BaseExecutor.paused, then AutoResume.paused.
PausedNow(s) ==
    LET t == [s EXCEPT !.status = IF @ \in Starting THEN 36 ELSE 48]
    IN  IF scenario.autoresume /\ t.error = "head lost" /\ t.status = 48 THEN Resume(t) ELSE t

\* Mutant: forgets the supply of the heater.
ToolheadPausedHot(s) == IF s.status = 50 THEN PausedNow(s) ELSE s

ToolheadPaused(s) ==
    IF s.status \notin {48, 50} THEN s
    ELSE Then(IF s.status = 50 THEN PausedNow(s) ELSE s, SetStandby)

PauseToolhead(s) ==
    IF ~Ready(s) THEN ToolheadPaused(s)
    ELSE IF Sendable(s) THEN Standby(s, "paused", ToolheadPaused(s))
    ELSE [s EXCEPT !.cb = "paused"]

\* macro.giveup.  Only a probe that is running answers False.
Giveup(s) ==
    IF s.macro \in {"heat", "job heat"}
    THEN Then(SendCmd(s, Cmd("X5")), LAMBDA t : [t EXCEPT !.allsetCb = "none"])
    ELSE IF s.macro = "probe" /\ s.probing
    THEN Then(SendCmd(s, Cmd("G28")), LAMBDA t :
              [t EXCEPT !.probing = FALSE,
                        !.probe = IF @ = "converged" THEN @ ELSE "none"])
    ELSE s

Stash(s) ==
    IF s.macro = "probe" /\ s.probing THEN Giveup(s)
    ELSE Then(Giveup(s), LAMBDA t :
              IF t.stash = "none"
              THEN SendCmd([t EXCEPT !.stash = "stashing"], Cmd("C2"))
              ELSE PauseToolhead(t))

\* Mutant: does not wait for the buffer of the mainboard.
HandlePauseEarly(s) ==
    IF s.status = 38 THEN Then(SendCmd(s, Cmd("X5")), PausedNow)
    ELSE IF s.status = 50 THEN PauseToolhead(s) ELSE s

HandlePause(s) ==
    IF s.status = 38 THEN Then(SendCmd(s, Cmd("X5")), PausedNow)
    ELSE IF s.status = 50 /\ BufferedCmdSize(s) = 0 THEN Stash(s)
    ELSE s

Pause(s, error) ==
    IF s.status \in Pausing \cup Paused \cup Ended
    THEN [s EXCEPT !.error = IF @ = "none" THEN error ELSE @]
    ELSE LET t == [s EXCEPT !.status = IF @ \in Starting THEN 38 ELSE 50,
                            !.error = error]
             u == IF Ready(t) THEN t ELSE PowerOff(t)
         IN  IF BufferedCmdSize(u) = 0 THEN HandlePause(u) ELSE u

-----------------------------------------------------------------------------
(* Macros and fire. *)

StartMacro(s) ==
    CASE s.macro = "startup" -> SendCmd(s, Cmd("macro"))
      [] s.macro = "probe" -> SendCmd([s EXCEPT !.probing = TRUE], Cmd("probe"))
      [] s.macro \in {"heat", "job heat"} ->
            Then(Then(SendCmd(s, Cmd("X5")), LAMBDA t : SetHeater(t, s.heatTo)),
                 LAMBDA t : [t EXCEPT !.allsetCb = IF s.macro = "heat" THEN "task"
                                                                      ELSE "job"])
      [] OTHER -> s

Eof(s) == s.fed = Home
CmdQueueLen(s) == s.fed + 1 - s.next

\* Reading ahead: up to the end of the file, a command it cannot parse, or a
\* full queue.
Feed(s) ==
    LET upto == IF s.next - 1 + Prefetch > Len(Job) THEN Home ELSE s.next - 1 + Prefetch
    IN  IF CmdQueueLen(s) >= Prefetch THEN s
        ELSE IF \E i \in s.fed+1..upto : Kind(i) = "bad" THEN Abort(s, "other")
        ELSE [s EXCEPT !.fed = upto]

\* Mutant: takes the command from the queue before it looks for room.
DrainOneLosing(s) ==
    LET t == [s EXCEPT !.next = @ + 1]
    IN  CASE Kind(s.next) = "move" -> [s |-> SendCmd(t, JobCmd(s.next)), go |-> TRUE]
          [] Kind(s.next) = "pause" -> [s |-> Pause(t, "other"), go |-> FALSE]
          [] OTHER -> [s |-> s, go |-> FALSE]

\* One turn of the loop over _cmd_queue; go says whether it turns again.  What is
\* given to the head controller at once counts as carried out.
DrainOne(s) ==
    LET i == s.next
        t == [s EXCEPT !.next = i + 1]
        h == [t EXCEPT !.did = Append(@, i)]
        headFree == BufferedCmdSize(s) = 0 /\ Sendable(s)
    IN  CASE Kind(i) = "move" /\ BufferedCmdSize(s) < BufSize ->
                [s |-> SendCmd(t, JobCmd(i)), go |-> TRUE]
          [] Kind(i) = "fan" /\ headFree -> [s |-> ToHead(h, "fan"), go |-> TRUE]
          [] Kind(i) = "heat" /\ headFree -> [s |-> SetHeater(h, Target(i)), go |-> TRUE]
          [] Kind(i) = "wait" /\ headFree ->
                [s |-> StartMacro([h EXCEPT !.macro = "job heat", !.heatTo = Target(i)]),
                 go |-> FALSE]
          [] Kind(i) = "pause" -> [s |-> Pause(t, "other"), go |-> FALSE]
          [] Kind(i) = "abort" -> [s |-> Abort(t, "other"), go |-> FALSE]
          [] OTHER -> [s |-> s, go |-> FALSE]

Turn(a) ==
    IF a.go /\ a.s.exc = "none" /\ CmdQueueLen(a.s) > 0 THEN DrainOne(a.s) ELSE a

Drain(s) ==
    LET turns[n \in Nat] == IF n = 0 THEN [s |-> s, go |-> TRUE] ELSE Turn(turns[n - 1])
    IN  turns[CmdQueueLen(s)].s

\* Mutant: completes with commands still in the buffer of the mainboard.
FireEarly(s) ==
    IF s.macro # "none" THEN s
    ELSE IF s.status = 16 /\ Eof(s)
    THEN IF CmdQueueLen(s) = 0 /\ Sendable(s) THEN OnCompleted(s) ELSE Drain(s)
    ELSE IF s.status = 16
    THEN LET t == Feed(s) IN IF t.status = 128 THEN t ELSE Drain(t)
    ELSE Drain(s)

Fire(s) ==
    IF s.macro # "none" THEN s
    ELSE IF s.status = 16 /\ Eof(s)
    THEN IF CmdQueueLen(s) = 0 /\ BufferedCmdSize(s) = 0 /\ Sendable(s)
         THEN OnCompleted(s) ELSE Drain(s)
    ELSE IF s.status = 16
    THEN LET t == Feed(s) IN IF t.status = 128 THEN t ELSE Drain(t)
    ELSE Drain(s)

ExecTask(s) ==
    IF s.tasks = <<>> THEN Fire([s EXCEPT !.macro = "none"])
    ELSE StartMacro([s EXCEPT !.macro = Head(s.tasks), !.tasks = Tail(@),
                              !.heatTo = "hot", !.probing = FALSE, !.probe = "none",
                              !.round = 0])

ClearMacro(s) == Fire([s EXCEPT !.macro = "none"])

Started(s) == ExecTask([s EXCEPT !.status = 16, !.tasks = InitMacros])

\* BaseExecutor.resumed, then restart the macro or go on.
Resumed(s) ==
    IF s.status \in Ended THEN s
    ELSE LET t == [s EXCEPT !.status = IF @ \in Starting THEN 4 ELSE 16]
         IN  IF t.macro # "none" THEN StartMacro(t) ELSE Fire(t)

\* Mutant: goes on without returning from the parking position.
OnAllsetParked(s) ==
    CASE s.status = 4 -> Started(s)
      [] s.status = 6 -> Then(Resumed(s), Started)
      [] s.status = 18 -> Resumed([s EXCEPT !.stash = "none"])
      [] OTHER -> s

OnAllset(s) ==
    CASE s.status = 4 -> Started(s)
      [] s.status = 6 -> Then(Resumed(s), Started)
      [] s.status = 18 /\ s.stash = "stashed" ->
            SendCmd([s EXCEPT !.stash = "none"], Cmd("C2F"))
      [] s.status = 18 /\ s.stash # "stashed" -> Resumed(s)
      [] OTHER -> s

\* Mutant: does not wait for the temperature.
RecoveredAtOnce(s) == OnAllset(s)

\* The callback of toolhead.recover: WaitHeadMacro, which is not self.macro.
Recovered(s) ==
    IF Allset(s) THEN OnAllset(s)
    ELSE Then(SendCmd(s, Cmd("X5")), LAMBDA t : [t EXCEPT !.allsetCb = "resume"])

Recover(s) ==
    IF HeadKind = "LASER" \/ (s.want = "unset" /\ s.hq = <<>>) THEN Recovered(s)
    ELSE LET t == [s EXCEPT !.hq = IF s.want = "unset" THEN @ ELSE Append(@, s.want),
                            !.cb = "recovered"]
         IN  IF s.updating THEN t ELSE PopToHead(t)

OnToolheadReady(s) ==
    LET t == SetOperating(s)
    IN  IF s.status \in Running THEN Recover(t) ELSE OnAllset(t)

\* Mutant: a heater macro of the start-up is never told to go on.
HeadAllsetLost(s) ==
    LET t == [s EXCEPT !.allsetCb = "none"] IN
    Then(SendCmd(t, Cmd("X5")), LAMBDA u :
         CASE s.allsetCb = "job" -> ClearMacro(u)
           [] s.allsetCb = "resume" -> OnAllset(u)
           [] OTHER -> u)

\* WaitHeadMacro.allset
HeadAllset(s) ==
    LET t == [s EXCEPT !.allsetCb = "none"] IN
    IF s.mb # "ready" THEN t
    ELSE Then(SendCmd(t, Cmd("X5")), LAMBDA u :
              CASE s.allsetCb = "task" -> ExecTask(u)
                [] s.allsetCb = "job" -> ClearMacro(u)
                [] s.allsetCb = "resume" -> OnAllset(u)
                [] OTHER -> u)

\* ZprobeMacro.on_command_empty: a reading of 0.0 passes for none, and nothing is sent.
\* Too far off after Ttl corrections, it gives up and raises.
ProbeEmpty(s) ==
    CASE s.probe = "converged" -> ExecTask(s)
      [] s.probe = "close" -> SendCmd([s EXCEPT !.probe = "converged"], Cmd("macro"))
      [] s.probe = "far" /\ s.round < Ttl ->
            SendCmd([s EXCEPT !.round = @ + 1, !.probe = "none"], Cmd("probe"))
      [] s.probe = "far" /\ s.round >= Ttl ->
            Then(Giveup(s), LAMBDA t : Raise(t, "other"))
      [] s.probe = "high" -> Raise(s, "other")
      [] OTHER -> s

MacroCommandEmpty(s) ==
    CASE s.macro = "startup" -> ExecTask(s)
      [] s.macro = "probe" /\ s.probing -> ProbeEmpty(s)
      [] s.macro = "soft abort" /\ ~s.retracting ->
            SendCmd([s EXCEPT !.retracting = TRUE], Cmd("retract"))
      [] s.macro = "soft abort" /\ s.retracting -> Abort(s, "none")
      [] OTHER -> s

PausedMacroEmpty(s) ==
    CASE s.pausedMacro = "to send" ->
            Then(SendCmd(s, Cmd("load")), LAMBDA t : [t EXCEPT !.pausedMacro = "sent"])
      [] s.pausedMacro = "sent" -> [s EXCEPT !.pausedMacro = "none"]
      [] OTHER -> s

-----------------------------------------------------------------------------
(* Callbacks of the mainboard controller. *)

\* Mutant: a macro takes the empty buffer that the pause waits for.
OnMbEmptyMacro(s) ==
    IF s.macro # "none" THEN MacroCommandEmpty(s)
    ELSE IF s.status \in Pausing THEN HandlePause(s)
    ELSE IF s.status \in {6, 18} THEN s
    ELSE IF s.status = 48 THEN PausedMacroEmpty(s) ELSE Fire(s)

OnMbEmpty(s) ==
    IF s.status \in Pausing THEN HandlePause(s)
    ELSE IF s.status \in {6, 18} THEN s
    ELSE IF s.status = 48 THEN PausedMacroEmpty(s)
    ELSE IF s.macro # "none" THEN MacroCommandEmpty(s) ELSE Fire(s)

OnMbSendable(s) ==
    IF s.status = 48 THEN PausedMacroEmpty(s)
    ELSE IF s.status \in Running /\ s.macro # "none" THEN s ELSE Fire(s)

MacroCtrl(s) ==
    IF s.macro # "probe" \/ s.ctrl \notin Readings THEN s
    ELSE IF s.ctrl = "bad" THEN Then(Giveup(s), LAMBDA t : Raise(t, "other"))
    ELSE [s EXCEPT !.probe = IF @ = "converged" THEN @ ELSE s.ctrl]

\* Mutant: does not hear that the mainboard is back.
OnMbCtrlDeaf(s) ==
    Then(IF s.status = 48 THEN s ELSE MacroCtrl(s), LAMBDA t :
         IF s.ctrl = "STASH" /\ t.status = 50
         THEN PauseToolhead([t EXCEPT !.stash = "stashed"]) ELSE t)

OnMbCtrl(s) ==
    Then(IF s.status = 48 THEN s ELSE MacroCtrl(s), LAMBDA t :
         CASE s.ctrl = "STASH_POP" /\ t.status = 18 -> Resumed(t)
           [] s.ctrl = "STASH" /\ t.status = 50 -> PauseToolhead([t EXCEPT !.stash = "stashed"])
           [] OTHER -> t)

\* on_mainboard_recv and on_loop: what an exception does.
Caught(s) ==
    CASE s.exc = "none" -> s
      [] s.exc = "system" -> Quiet(Abort(Quiet(s), "other"))
      [] OTHER -> Quiet(Pause(Quiet(s), IF s.exc = "head lost" THEN s.exc ELSE "other"))

\* on_toolhead_recv
CheckErrno(s) ==
    CASE s.errno = "none" -> s
      [] s.errno = "hardware" -> Raise(s, "hardware")
      [] OTHER -> Raise(s, "other")

HeadHandled(s) ==
    CASE s.status = 16 -> Then(CheckErrno(s), Fire)
      [] s.status \in {6, 18} -> CheckErrno(s)
      [] s.status = 48 /\ s.control -> CheckErrno(s)
      [] OTHER -> s

OnToolheadRecv(handled) ==
    LET s == Then(handled, HeadHandled)
    IN  IF s.exc \notin {"none", "system"} /\ s.status \in Ended THEN Quiet(Close(s))
        ELSE IF s.exc = "hardware" THEN Caught(ToolheadReset(s))
        ELSE Caught(s)

-----------------------------------------------------------------------------
(* The actions.  After close nothing is received. *)

Step(s) == ~p.closed /\ p' = s
NoInput == UNCHANGED <<requests, faults, scenario>>
Fault(kind) == kind \in scenario.faults /\ faults < scenario.maxFaults /\ faults' = faults + 1

MbReady ==
    /\ p.mb = "off"
    /\ Step(Caught(OnMainboardReady([p EXCEPT !.mb = "ready"])))
    /\ NoInput

\* External: the mainboard carries out its next command.  C2 parks, C2F
\* returns, and each says so before the command is reported as finished.
MbExecutes ==
    /\ p.fin < Len(p.queue) /\ p.ctrl = "none" /\ Len(p.hq) < MaxHeadQueue
    /\ LET c == p.queue[p.fin + 1]
           s == [p EXCEPT !.fin = @ + 1,
                          !.did = IF c.op = "job" THEN Append(@, c.i) ELSE @,
                          !.parked = IF c.op = "C2" THEN TRUE
                                     ELSE IF c.op = "C2F" THEN FALSE ELSE @]
       IN  \/ c.op = "C2" /\ Step([s EXCEPT !.ctrl = "STASH"]) /\ UNCHANGED faults
           \/ c.op = "C2F" /\ Step([s EXCEPT !.ctrl = "STASH_POP"]) /\ UNCHANGED faults
           \/ \E r \in Readings :
                  /\ c.op = "probe" /\ Step([s EXCEPT !.ctrl = r])
                  /\ \/ /\ r = "close" \/ (r = "far" /\ p.round < Ttl)
                        /\ UNCHANGED faults
                     \/ r \in {"far", "high", "bad"} /\ Fault("bad probe")
                     \/ r = "zero" /\ Fault("zero probe")
           \/ c.op \notin {"C2", "C2F", "probe"} /\ Step(s) /\ UNCHANGED faults
    /\ UNCHANGED <<requests, scenario>>

MbCtrl ==
    /\ p.ctrl # "none"
    /\ Step([Caught(OnMbCtrl(p)) EXCEPT !.ctrl = "none"])
    /\ NoInput

\* "LN": k commands are reported as finished; with 0 it only accepts one.
MbLn(k) ==
    /\ p.queue # <<>> /\ p.ctrl = "none" /\ k <= p.fin
    /\ LET left == Len(p.queue) - k
           s == [p EXCEPT !.queue = SubSeq(@, k + 1, Len(@)), !.fin = @ - k]
           t == IF left + 1 = BufSize THEN OnMbSendable(s) ELSE s
       IN  Step(Caught(IF left = 0 THEN Then(t, OnMbEmpty) ELSE t))
    /\ NoInput

MbRunout ==
    /\ p.mb = "ready" /\ Fault("runout")
    /\ Step(Caught(Raise([p EXCEPT !.mb = "error"], "other")))
    /\ UNCHANGED <<requests, scenario>>

\* "ER ...", a broken connection, or patrol: the mainboard is offline.
MbFails ==
    /\ Fault("mainboard")
    /\ Step(Caught(Raise(p, "system")))
    /\ UNCHANGED <<requests, scenario>>

\* An exception under on_hello leaves the controller in ST_INIT.
HeadHello ==
    /\ p.th = "BOOTING" /\ p.power
    /\ LET s == OnToolheadReady([p EXCEPT !.th = "RUNNING", !.wasReset = FALSE])
       IN  Step(OnToolheadRecv(IF s.exc = "none" THEN s ELSE [s EXCEPT !.th = "INIT"]))
    /\ NoInput

Callback(s) ==
    LET t == [s EXCEPT !.cb = "none"] IN
    CASE s.cb = "recovered" -> Recovered(t)
      [] s.cb = "paused" -> ToolheadPaused(t)
      [] s.cb = "close" -> Close(t)
      [] OTHER -> t

\* External: what command `c' may make of the heater.
HeaterTold(c) ==
    CASE c = "fan" -> {p.heat} [] c = "standby" -> Levels [] OTHER -> {c}

HeadOk ==
    /\ p.out # "none" /\ p.power
    /\ \E h \in HeaterTold(p.out) :
           LET s == [p EXCEPT !.out = "none", !.heat = h]
           IN  Step(OnToolheadRecv(IF s.hq = <<>> THEN Callback(s) ELSE PopToHead(s)))
    /\ NoInput

HeadEr ==
    /\ p.out # "none" /\ p.power /\ Fault("ER")
    /\ Step(OnToolheadRecv(Raise(p, "other")))
    /\ UNCHANGED <<requests, scenario>>

\* The answer to a ping, whatever happened since it was sent.
Pong(s) ==
    IF s.wasReset /\ s.th # "INIT" THEN Raise(ToolheadReset(s), "head lost")
    ELSE Then(PopToHead([s EXCEPT !.rt = s.temp]), LAMBDA t :
              IF t.allsetCb # "none" /\ Allset(t) THEN HeadAllset(t) ELSE t)

HeadPong ==
    /\ p.updating /\ p.power
    /\ LET s == [p EXCEPT !.updating = FALSE] IN
       \/ Step(OnToolheadRecv(Pong(s))) /\ UNCHANGED faults
       \/ \E e \in {"shake", "hardware"} :
              /\ Fault(e)
              /\ Step(OnToolheadRecv(Pong([s EXCEPT !.errno = e])))
    /\ UNCHANGED <<requests, scenario>>

\* on_loop: patrol of a head that does not answer.
LoopOffline ==
    /\ p.th = "BOOTING" \/ (Ready(p) /\ (p.out # "none" \/ p.updating))
    /\ (~p.power /\ UNCHANGED faults) \/ (p.power /\ Fault("silent"))
    /\ Step(Caught(Raise(ToolheadReset(p), "head lost")))
    /\ UNCHANGED <<requests, scenario>>

\* on_loop: a ping, when one is due, and the power of an idle head.
IdleHead(s) ==
    IF s.status \in Ended \cup {48} /\ s.control /\ Ready(s)
       /\ ~(HeadKind = "EXTRUDER" /\ s.rt \in {"warm"} \cup Hots)
    THEN IF s.status = 48 THEN PowerOff(ToolheadReset(s)) ELSE Close(s)
    ELSE s

Loop(ping) ==
    /\ Step(IdleHead([p EXCEPT !.updating = @ \/ (ping /\ Sendable(p))]))
    /\ NoInput

\* External: the head restarts; its heater follows what it was told.
HeadRestarts ==
    /\ p.power /\ Fault("restart")
    /\ Step([p EXCEPT !.heat = "off", !.wasReset = TRUE])
    /\ UNCHANGED <<requests, scenario>>

\* External: hot and hotter are within three degrees of the targets of these names, cold
\* is at most 46, warm is in between.  A target of at most 60 may be either.  A head does
\* not cool down to cold between two readings.
Goal == IF p.power /\ p.v24 THEN p.heat ELSE "off"
Heating == Goal \in Hots
Warmer(t) == CASE t = "cold" -> "warm" [] t = "warm" -> "hot" [] OTHER -> "hotter"
Cooler(t) == CASE t = "hotter" -> "hot" [] t = "hot" -> "warm" [] OTHER -> "cold"
HeatsUp ==
    \/ p.temp = "cold" /\ Goal # "off"
    \/ p.temp = "warm" /\ Heating
    \/ p.temp = "hot" /\ Goal = "hotter"
CoolsDown ==
    \/ p.temp = "hotter" /\ Goal # "hotter"
    \/ p.temp = "hot" /\ ~Heating
    \/ p.temp = "warm" /\ ~Heating /\ p.rt \notin Hots
Temperature ==
    /\ \/ HeatsUp /\ Step([p EXCEPT !.temp = Warmer(@)])
       \/ CoolsDown /\ Step([p EXCEPT !.temp = Cooler(@)])
    /\ UNCHANGED <<requests, faults, scenario>>

-----------------------------------------------------------------------------
(* on_request *)

SoftAbort(s) ==
    IF /\ s.status = 16 /\ s.macro = "none" /\ s.mb = "ready"
       /\ HeadKind = "EXTRUDER" /\ s.th # "INIT" /\ s.rt = "hotter"
    THEN [s EXCEPT !.macro = "soft abort"]  \* with an empty buffer it then raises
    ELSE Abort(s, "none")

SetToolheadOperation(s) ==
    IF s.status # 48 THEN s
    ELSE ToolheadBootstrap(PowerOn([s EXCEPT !.error = "none", !.control = FALSE]))

SetToolheadStandby(s) ==
    IF s.status = 48 /\ Ready(s) THEN PauseToolhead([s EXCEPT !.control = TRUE]) ELSE s

SetToolheadHeater(s, v) ==
    IF s.status = 48 /\ ~s.control /\ HeadKind = "EXTRUDER" /\ Sendable(s)
    THEN SetHeater([s EXCEPT !.heatTo = IF s.macro = "heat" THEN v ELSE @], v) ELSE s

LoadFilament(s) ==
    IF s.status # 48 \/ s.pausedMacro # "none" THEN s
    ELSE LET t == [s EXCEPT !.pausedMacro = "to send"]
         IN  IF BufferedCmdSize(s) = 0 THEN PausedMacroEmpty(t) ELSE t

Request(r) ==
    /\ r \in scenario.requests /\ requests < scenario.maxRequests /\ requests' = requests + 1
    /\ Step(Quiet(CASE r = "PAUSE" -> Pause(p, "none")
                    [] r = "RESUME" -> Resume(p)
                    [] r = "ABORT" -> SoftAbort(p)
                    [] r = "SET_TH_OPERATING" -> SetToolheadOperation(p)
                    [] r = "SET_TH_STANDBY" -> SetToolheadStandby(p)
                    [] r = "HEATER_ON" -> SetToolheadHeater(p, "hot")
                    [] r = "HEATER_OFF" -> SetToolheadHeater(p, "off")
                    [] r = "LOAD_FILAMENT" -> LoadFilament(p)))
    /\ UNCHANGED <<faults, scenario>>

Next ==
    \/ MbReady \/ MbExecutes \/ MbCtrl \/ \E k \in 0..BufSize : MbLn(k)
    \/ MbRunout \/ MbFails
    \/ HeadHello \/ HeadOk \/ HeadEr \/ HeadPong \/ HeadRestarts \/ Temperature
    \/ LoopOffline \/ \E ping \in BOOLEAN : Loop(ping)
    \/ \E r \in AllRequests : Request(r)

Spec == Init /\ [][Next]_vars

-----------------------------------------------------------------------------
(* Properties *)

\* What the mainboard is about to carry out.
Pending == p.fin < Len(p.queue)
NextCmd == p.queue[p.fin + 1]

\* Through every pause, error and restart of a macro, the commands of the job
\* are carried out in the order of the file, none twice and, until the job is
\* aborted, none left out; a head command leaves only when the moves before it
\* are done (fire).
AllOf(n) == \A i \in 1..n : Carried(i) => i \in ToSet(p.did)
InJobOrder ==
    \A k \in DOMAIN p.did : /\ Carried(p.did[k])
                            /\ \A j \in 1..k-1 : p.did[j] < p.did[k]
                            /\ p.status # 128 => AllOf(p.did[k])

\* COMPLETED says that the whole file was carried out (fire, on_completed).
CompletedMeansAll == p.status = 64 => AllOf(Home) /\ p.queue = <<>>

\* What the player believes in _pause_flags fits where the head is: between C2
\* and C2F nothing of the job runs, C2F comes only when parked, and filament is
\* loaded only there (_handle_pause, _on_toolhead_recovered_and_allset).
StashDiscipline ==
    Pending => /\ p.parked => NextCmd.op \in {"X5", "C2F", "load"}
               /\ ~p.parked => NextCmd.op \notin {"C2F", "load"}

\* PAUSED is announced only once the head is parked and the mainboard has
\* nothing of the job left to do (_handle_pause, _toolhead_paused).
PausedIsStill ==
    p.status = 48 => /\ p.parked
                     /\ \A i \in DOMAIN p.queue : p.queue[i].op \in {"X5", "C2", "load"}

\* The last heater command of the file before command n waits for a target above 60.
Waited(n) ==
    \E w \in 1..n-1 : /\ Kind(w) = "wait" /\ Target(w) \in Hots
                      /\ \A i \in w+1..n-1 : Kind(i) \notin Heats

\* After a command that waits for the heater, and until the job gives it another target,
\* no move of a job that goes on is made with a cold head, however often it was paused,
\* cooled and resumed, and whatever failed, unless the user switched the heater off in a
\* pause; only until a restarted head is noticed, and for the moves then in the buffer,
\* it may cool (ControlToolheadMacro, recover, WaitHeadMacro, set_toolhead_heater).
HotWhenMoving ==
    /\ Pending /\ NextCmd.op = "job"
    /\ (p.status = 16 /\ ~p.wasReset) \/ (faults = 0 /\ p.status \notin Ended)
    /\ Waited(NextCmd.i)
    /\ p.want \in Hots \/ "HEATER_OFF" \notin scenario.requests
    => p.temp # "cold"

\* While paused the heater has its supply only when the user asked for it, or
\* until the head confirms the standby that is on its way (_toolhead_paused,
\* set_toolhead_operation, set_toolhead_standby).
StandbyWhenPaused ==
    p.status = 48 /\ p.control /\ p.v24 => p.cb = "paused"

\* No late answer, error or request revives a job that has ended or changes how
\* it ended (abort, paused, resumed).
FinalIsFinal == [][p.status \in Ended => p'.status = p.status]_vars

\* fcode_executor.py:154 "status_id should be (4, 6, 18)" when the mainboard is
\* ready (_on_mainboard_ready).
MainboardReadyExpected ==
    [][p.mb = "off" /\ p'.mb = "ready" => p.status \in {4, 6, 18}]_vars

\* While no head is lost, a pause that was granted is reached, or overtaken by an
\* abort (_handle_pause).
PausingEnds == (p.status = 50 /\ faults = 0) ~> (p.status # 50 \/ faults > 0)

\* A resume that was granted ends: the head is greeted, recovered and hot, and
\* the mainboard is back, or the job is paused again (resume, _on_mb_ctrl).
ResumingEnds == (p.status = 18) ~> (p.status # 18)

\* While no head is lost, the player lets go of its connections after the end of
\* the job (terminate, on_loop).
EndCloses == (p.status \in Ended /\ faults = 0) ~> (p.closed \/ faults > 0)

\* With autoresume, a job nobody interferes with ends whenever its head restarts
\* (AutoResume), but for a probe that measures 0.0: it waits for ever (zprobe.py:59).
JobEnds ==
    <>(p.status \in Ended \/ requests > 0 \/ (p.macro = "probe" /\ p.probe = "zero"))

\* Weak fairness, with what enables each action written out: TLC does not
\* evaluate ENABLED of actions this large in useful time.
MbCan == ~p.closed /\ (p.mb = "off" \/ p.ctrl # "none" \/ p.fin > 0
                      \/ (p.queue # <<>> /\ Len(p.hq) < MaxHeadQueue))
HeadCan == ~p.closed /\ p.power /\ (p.th = "BOOTING" \/ p.out # "none" \/ p.updating)
PingCan == ~p.closed /\ Sendable(p) /\ ~p.updating
HeaterCan == ~p.closed /\ (HeatsUp \/ CoolsDown)

MbServes == MbReady \/ MbExecutes \/ MbCtrl \/ \E k \in 1..BufSize : MbLn(k)
HeadServes == HeadHello \/ HeadOk \/ HeadPong

Fairness ==
    /\ []<>~MbCan \/ []<><<MbServes>>_vars
    /\ []<>~HeadCan \/ []<><<HeadServes>>_vars
    /\ []<>~PingCan \/ []<><<Loop(TRUE)>>_vars
    /\ []<>~HeaterCan \/ []<><<Temperature>>_vars

FairSpec == Spec /\ Fairness
=============================================================================
