--------------------------------- MODULE Robot ---------------------------------
(***************************************************************************)
(* The robot service and its exclusive lock (fluxmonitor/services/         *)
(* robot.py): at most one component may drive the machine, either a device *)
(* task of a client's connection (controller/tasks/base.py), which holds   *)
(* sockets to the two boards, or a PlayerManager (play_manager.py), whose  *)
(* player is a process of its own.                                         *)
(*                                                                         *)
(* The service is one event loop, so a handler is one step, but for the    *)
(* two that look at the device status first and act on it later: quit(),   *)
(* which waits up to a second for the player, and PLAYTOGL.  The player    *)
(* processes run beside it: a death is reported later, and the pid file is *)
(* how a service finds the player a crashed one has left behind.           *)
(*                                                                         *)
(* Left out: what the tasks and the players do with the boards, the LED    *)
(* commands, and the status labels of the device tasks (the constructor of *)
(* PlayerManager overwrites them).                                         *)
(***************************************************************************)
EXTENDS Naturals, FiniteSets

CONSTANTS
    Conns,       \* client connections
    Wreck,       \* a device task whose constructor has raised
    MaxJobs,     \* bound: players started in a behaviour
    MaxCrashes   \* bound: times the service dies without on_shutdown

None == 0
Jobs == 1..MaxJobs
Tasks == Conns \cup {Wreck}

ASSUME RobotConstants ==
    /\ MaxJobs \in Nat /\ MaxCrashes \in Nat
    /\ Conns \cap (Nat \cup {None}) = {} /\ Wreck \notin Conns \cup Nat

VARIABLES
    \* Robot
    owner,    \* _exclusive_component: a player manager, a connection's task, None
    recent,   \* less than a second since _exclusive_release_at
    acting,   \* the handler that has seen a job over and is to act: quit(), PLAYTOGL
    raced,    \* a history: a player took RESTART since that handler looked
    \* PlayerManager
    proc,     \* the player process of each manager
    child,    \* who will hear of its death: its child watcher or nobody
    mail,     \* the QUIT sent to the player, or its answer
    \* connections
    conn,     \* closed, in the command task, in a device task
    broken,   \* the peer has gone, the service has yet to notice
    sockets,  \* the device task's connections to the boards, until it lets go of them
    \* shared by all processes
    record,   \* who locks the file that the path of the pid file names
    status,   \* metadata.device_status
    crashes   \* at most MaxCrashes

lock == <<owner, recent>>
work == <<acting, raced, mail>>
players == <<proc, child>>
clients == <<conn, broken, sockets>>
shared == <<record, status>>
vars == <<lock, work, players, clients, shared, crashes>>

TypeOK ==
    /\ owner \in {None} \cup Jobs \cup Tasks
    /\ recent \in BOOLEAN
    /\ acting \in {"none", "quit", "again"} /\ raced \in BOOLEAN
    /\ mail \in [Jobs -> {"none", "QUIT", "answered"}]
    /\ proc \in [Jobs -> {"none", "spawned", "busy", "ended", "quitting", "unlocked",
                          "killed", "dead"}]
    /\ child \in [Jobs -> {"none", "watched", "reaped", "orphan"}]
    /\ conn \in [Conns -> {"closed", "command", "task"}]
    /\ broken \in [Conns -> BOOLEAN]
    /\ sockets \in [Tasks -> {"closed", "open"}]
    /\ record \in {None} \cup Jobs
    /\ status \in {"idle", "init", "busy", "ended"}
    /\ crashes \in Nat

Init ==
    /\ owner = None /\ recent = FALSE
    /\ acting = "none" /\ raced = FALSE /\ mail = [j \in Jobs |-> "none"]
    /\ proc = [j \in Jobs |-> "none"] /\ child = [j \in Jobs |-> "none"]
    /\ conn = [c \in Conns |-> "closed"] /\ broken = [c \in Conns |-> FALSE]
    /\ sockets = [t \in Tasks |-> "closed"]
    /\ record = None /\ status = "idle" /\ crashes = 0

-----------------------------------------------------------------------------
\* The event loop runs the next handler.
Free == acting = "none"
Handler == Free /\ UNCHANGED work

\* A handler reads metadata.device_status: is_terminated.
Decide(what) ==
    /\ Free /\ owner \in Jobs /\ status = "ended"
    /\ acting' = what /\ raced' = FALSE
    /\ UNCHANGED <<lock, players, clients, shared, crashes>>

\* It goes on, whatever the status is by now.
Decided(what) == acting = what /\ acting' = "none" /\ raced' = FALSE

\* The exclusive lock.

\* Mutant: the component that asks is not compared with the one that holds.
ReleaseUnchecked(o) == owner' = None /\ recent' = TRUE

\* release_exclusive: SystemError, which both callers log, if `o' is not the holder.
Release(o) ==
    IF owner = o THEN owner' = None /\ recent' = TRUE
                 ELSE UNCHANGED lock

SecondPasses ==
    /\ recent /\ recent' = FALSE
    /\ UNCHANGED <<owner, work, players, clients, shared, crashes>>

-----------------------------------------------------------------------------
\* Players.

Killable == {"spawned", "busy", "ended", "quitting", "unlocked"}

\* The processes `ps' after a SIGKILL to the player of `j'.
Killed(ps, j) == [ps EXCEPT ![j] = IF @ \in Killable THEN "killed" ELSE @]

\* The constructor kills the player that the pid file names.
OldKilled(ps) == IF record = None THEN ps ELSE Killed(ps, record)

\* Mutant: the device status is left as the last job wrote it.
LaunchKeepingStatus(ps) ==
    LET j == CHOOSE i \in Jobs : ps[i] = "none" /\ \A k \in Jobs : k < i => ps[k] # "none"
    IN  /\ \E i \in Jobs : ps[i] = "none"
        /\ proc' = [OldKilled(ps) EXCEPT ![j] = "spawned"]
        /\ child' = [child EXCEPT ![j] = "watched"]
        /\ owner' = j
        /\ UNCHANGED status

\* PlayerManager.__init__ and exclusive(), which nobody can come between.
Launch(ps) ==
    LET j == CHOOSE i \in Jobs : ps[i] = "none" /\ \A k \in Jobs : k < i => ps[k] # "none"
    IN  /\ \E i \in Jobs : ps[i] = "none"
        /\ proc' = [OldKilled(ps) EXCEPT ![j] = "spawned"]
        /\ child' = [child EXCEPT ![j] = "watched"]
        /\ owner' = j
        /\ status' = "init"

\* The constructor raises: the pid file cannot be read, or, when the old player has
\* been killed, the mainboard does not answer or the file is broken.
LaunchFails(ps) ==
    /\ proc' \in {ps, OldKilled(ps)}
    /\ owner' = None
    /\ UNCHANGED <<child, status>>

\* PLAYTOGL with nothing exclusive.
Autoplay ==
    /\ Handler
    /\ owner = None /\ ~recent
    /\ Launch(proc) \/ LaunchFails(proc)
    /\ UNCHANGED <<recent, clients, record, crashes>>

\* `player start'
Start(c) ==
    /\ Handler
    /\ conn[c] = "command" /\ owner = None
    /\ Launch(proc) \/ LaunchFails(proc)
    /\ UNCHANGED <<recent, clients, record, crashes>>

\* PLAYTOGL finds that the manager's job is over.
DecideAgain == Decide("again") /\ UNCHANGED mail

\* Mutant: the old player is left to end by itself.
PlayAgainUnterminated ==
    /\ Decided("again") /\ UNCHANGED mail
    /\ recent' = TRUE
    /\ Launch(proc) \/ LaunchFails(proc)
    /\ UNCHANGED <<clients, record, crashes>>

\* terminate(), then autoplay()
PlayAgain ==
    /\ Decided("again") /\ UNCHANGED mail
    /\ recent' = TRUE
    /\ Launch(Killed(proc, owner)) \/ LaunchFails(Killed(proc, owner))
    /\ UNCHANGED <<clients, record, crashes>>

\* Mutant: quit() takes note of the exit status and leaves the rest to the watcher.
QuitDeadUnreported ==
    /\ Handler
    /\ owner \in Jobs /\ status = "ended"
    /\ proc[owner] = "dead" /\ child[owner] = "watched"
    /\ child' = [child EXCEPT ![owner] = "reaped"]
    /\ UNCHANGED <<lock, proc, clients, shared, crashes>>

\* `player quit' or POWER, and poll() finds the player dead: that reaps it, so its
\* watcher will never be called.
QuitDead ==
    /\ Handler
    /\ owner \in Jobs /\ status = "ended"
    /\ proc[owner] = "dead" /\ child[owner] = "watched"
    /\ child' = [child EXCEPT ![owner] = "reaped"]
    /\ Release(owner)
    /\ UNCHANGED <<proc, clients, shared, crashes>>

\* poll() finds it alive.  The loop now waits up to a second for the answer.
SendQuit ==
    /\ Decide("quit")
    /\ proc[owner] # "dead"
    /\ mail' = [mail EXCEPT ![owner] = "QUIT"]

\* The player has answered, be it that it is busy.
QuitAnswered ==
    /\ Decided("quit")
    /\ mail[owner] = "answered" /\ mail' = [mail EXCEPT ![owner] = "none"]
    /\ UNCHANGED <<lock, players, clients, shared, crashes>>

\* It has not within the second, or has closed its endpoint.
QuitKills ==
    /\ Decided("quit")
    /\ mail' = [mail EXCEPT ![owner] = "none"]
    /\ proc' = Killed(proc, owner)
    /\ UNCHANGED <<lock, child, clients, shared, crashes>>

QuitEnds == QuitAnswered \/ QuitKills

OnProcessDead(j) ==
    /\ Handler
    /\ proc[j] = "dead" /\ child[j] = "watched"
    /\ child' = [child EXCEPT ![j] = "reaped"]
    /\ status' = "idle"
    /\ Release(j)
    /\ UNCHANGED <<proc, clients, record, crashes>>

-----------------------------------------------------------------------------
\* Inside a player process.

Unlocked(j) == IF record = j THEN None ELSE record

\* lock_pidfile, then the constructor of Player; one that cannot lock exits.
LockPidfile(j) ==
    /\ proc[j] = "spawned"
    /\ IF record = None
       THEN proc' = [proc EXCEPT ![j] = "busy"] /\ record' = j /\ status' = "init"
       ELSE proc' = [proc EXCEPT ![j] = "dead"] /\ UNCHANGED shared
    /\ UNCHANGED <<lock, work, child, clients, crashes>>

\* The job is completed or aborted.
JobEnds(j) ==
    /\ proc[j] = "busy"
    /\ proc' = [proc EXCEPT ![j] = "ended"]
    /\ UNCHANGED <<lock, work, child, clients, shared, crashes>>

\* RESTART, from a client of the player's own endpoint.
Restart(j) ==
    /\ proc[j] = "ended"
    /\ proc' = [proc EXCEPT ![j] = "busy"]
    /\ status' = "init"
    /\ raced' = (raced \/ ~Free)
    /\ UNCHANGED <<lock, acting, mail, child, clients, record, crashes>>

\* QUIT: "ok" and shutdown() if the job is over, "error RESOURCE_BUSY" if not.
OnQuit(j) ==
    /\ mail[j] = "QUIT" /\ proc[j] \in {"busy", "ended"}
    /\ mail' = [mail EXCEPT ![j] = "answered"]
    /\ proc' = [proc EXCEPT ![j] = IF @ = "ended" THEN "quitting" ELSE @]
    /\ UNCHANGED <<lock, acting, raced, child, clients, shared, crashes>>

\* on_timer
OnTimer(j) ==
    /\ proc[j] \in {"busy", "ended"}
    /\ status' = proc[j]
    /\ UNCHANGED <<lock, work, players, clients, record, crashes>>

\* The end of deamon_entry: first the file is unlocked ...
UnlockPidfile(j) ==
    /\ proc[j] = "quitting"
    /\ proc' = [proc EXCEPT ![j] = "unlocked"]
    /\ record' = Unlocked(j)
    /\ UNCHANGED <<lock, work, child, clients, status, crashes>>

\* ... and then its path is removed, whoever has locked the file meanwhile.
UnlinkPidfile(j) ==
    /\ proc[j] = "unlocked"
    /\ proc' = [proc EXCEPT ![j] = "dead"]
    /\ record' = None
    /\ UNCHANGED <<lock, work, child, clients, status, crashes>>

Dies(j) ==
    /\ proc' = [proc EXCEPT ![j] = "dead"]
    /\ record' = Unlocked(j)
    /\ UNCHANGED <<lock, work, child, clients, status, crashes>>

KillTakesEffect(j) == proc[j] = "killed" /\ Dies(j)

PlayerCrashes(j) == proc[j] \in Killable /\ Dies(j)

-----------------------------------------------------------------------------
\* Connections and device tasks.

\* on_authorized: a ServiceStack with the command task.
Connect(c) ==
    /\ Handler
    /\ conn[c] = "closed"
    /\ conn' = [conn EXCEPT ![c] = "command"]
    /\ UNCHANGED <<lock, players, broken, sockets, shared, crashes>>

Break(c) ==
    /\ conn[c] # "closed" /\ ~broken[c]
    /\ broken' = [broken EXCEPT ![c] = TRUE]
    /\ UNCHANGED <<lock, work, players, conn, sockets, shared, crashes>>

\* `task raw', `task scan', `task maintain', `task icontrol'.  When connecting to the
\* boards raises, nothing is left: the lock has only a weak reference to the task.
EnterTask(c) ==
    /\ Handler
    /\ conn[c] = "command" /\ owner = None
    /\ owner' = c
    /\ conn' = [conn EXCEPT ![c] = "task"]
    /\ sockets' = [sockets EXCEPT ![c] = "open"]
    /\ UNCHANGED <<recent, players, broken, shared, crashes>>

\* The constructor raises later, in the start of the controllers.  The callbacks of its
\* watchers keep the task, and with it the lock, until the garbage is collected.
EnterTaskFails(c) ==
    /\ Handler
    /\ conn[c] = "command" /\ owner = None
    /\ owner' = Wreck
    /\ sockets' = [sockets EXCEPT ![Wreck] = "open"]
    /\ UNCHANGED <<recent, players, conn, broken, shared, crashes>>

Collected ==
    /\ Handler
    /\ owner = Wreck /\ owner' = None
    /\ sockets' = [sockets EXCEPT ![Wreck] = "closed"]
    /\ UNCHANGED <<recent, players, conn, broken, shared, crashes>>

\* _clean, once.  An exception of clean() leaves the sockets open, but with a task that
\* has come to its end: that is not told from a socket which is closed.
Clean(t) == sockets' = [sockets EXCEPT ![t] = "closed"]

\* exit_task on a device task
ExitTask(c) == Clean(c) /\ Release(c)

\* `quit' of a device task
QuitTask(c) ==
    /\ Handler
    /\ conn[c] = "task"
    /\ ExitTask(c)
    /\ conn' = [conn EXCEPT ![c] = "command"]
    /\ UNCHANGED <<players, broken, shared, crashes>>

HandlerClosed(c) ==
    /\ conn' = [conn EXCEPT ![c] = "closed"]
    /\ broken' = [broken EXCEPT ![c] = FALSE]

\* RobotProtocol.close: the stack terminates every task.
Close(c) ==
    /\ Handler
    /\ conn[c] # "closed"
    /\ IF conn[c] = "task" THEN ExitTask(c) ELSE UNCHANGED <<lock, sockets>>
    /\ HandlerClosed(c)
    /\ UNCHANGED <<players, shared, crashes>>

\* A task that meets an error of a board calls on_dead for itself.
TaskDies(c) ==
    /\ Handler
    /\ conn[c] = "task" /\ sockets[c] = "open"
    /\ Clean(c)
    /\ \/ Release(c) /\ HandlerClosed(c)
       \/ broken[c] /\ UNCHANGED <<lock, conn, broken>>
    /\ UNCHANGED <<players, shared, crashes>>

\* `kick' from a connection, or POWER.  If the reply to the kicked client raises, its
\* handler is not closed and its task stays on the stack.
Kick(c) ==
    /\ Handler
    /\ owner = c
    /\ Clean(c)
    /\ owner' = None /\ recent' = TRUE
    /\ \/ HandlerClosed(c)
       \/ broken[c] /\ UNCHANGED <<conn, broken>>
    /\ UNCHANGED <<players, shared, crashes>>

\* The wreck is not on the stack of its connection, so that on_dead, which is all that
\* an error of a board or a kick calls, closes the connection and does not release it.
WreckOnDead ==
    /\ Handler
    /\ Clean(Wreck)
    /\ \/ \E c \in Conns : conn[c] = "command" /\ HandlerClosed(c)
       \/ UNCHANGED <<conn, broken>>
    /\ UNCHANGED <<players, shared, crashes>>

WreckDies == sockets[Wreck] = "open" /\ WreckOnDead /\ UNCHANGED lock
KickWreck == owner = Wreck /\ WreckOnDead /\ owner' = None /\ recent' = TRUE

-----------------------------------------------------------------------------
\* The service itself.

\* The next service starts with nothing exclusive and no child.
Reborn ==
    /\ owner' = None /\ recent' = FALSE
    /\ acting' = "none" /\ raced' = FALSE
    /\ mail' = [j \in Jobs |-> IF mail[j] = "answered" THEN "none" ELSE mail[j]]
    /\ child' = [j \in Jobs |-> IF child[j] = "watched" THEN "orphan" ELSE child[j]]
    /\ conn' = [c \in Conns |-> "closed"] /\ broken' = [c \in Conns |-> FALSE]
    /\ sockets' = [t \in Tasks |-> "closed"]

\* on_shutdown
Shutdown ==
    /\ Free
    /\ Reborn
    /\ proc' = IF owner \in Jobs THEN Killed(proc, owner) ELSE proc
    /\ UNCHANGED <<shared, crashes>>

RobotCrashes ==
    /\ crashes < MaxCrashes /\ crashes' = crashes + 1
    /\ Reborn
    /\ UNCHANGED <<proc, shared>>

PlayerStep(j) ==
    \/ LockPidfile(j) \/ JobEnds(j) \/ Restart(j) \/ OnQuit(j) \/ OnTimer(j)
    \/ UnlockPidfile(j) \/ UnlinkPidfile(j) \/ KillTakesEffect(j) \/ PlayerCrashes(j)

ClientStep(c) ==
    \/ Connect(c) \/ Break(c) \/ Start(c)
    \/ EnterTask(c) \/ EnterTaskFails(c) \/ QuitTask(c) \/ Close(c) \/ TaskDies(c) \/ Kick(c)

Next ==
    \/ SecondPasses \/ Autoplay \/ DecideAgain \/ PlayAgain
    \/ QuitDead \/ SendQuit \/ QuitEnds
    \/ Collected \/ WreckDies \/ KickWreck
    \/ \E j \in Jobs : OnProcessDead(j) \/ PlayerStep(j)
    \/ \E c \in Conns : ClientStep(c)
    \/ Shutdown \/ RobotCrashes

\* The kernel carries out a SIGKILL; a player that has left its loop exits; the event
\* loop calls the watchers of a child that has died and of a connection that has ended,
\* and a handler goes on to its end.
Fairness ==
    /\ WF_vars(PlayAgain) /\ WF_vars(QuitEnds)
    /\ \A j \in Jobs :
        /\ WF_vars(KillTakesEffect(j)) /\ WF_vars(OnProcessDead(j))
        /\ WF_vars(UnlockPidfile(j)) /\ WF_vars(UnlinkPidfile(j))
    /\ \A c \in Conns : WF_vars(broken[c] /\ Close(c))

Spec == Init /\ [][Next]_vars /\ Fairness

-----------------------------------------------------------------------------
Driving == {j \in Jobs : proc[j] \in {"busy", "ended", "quitting"}}

\* The components of this service that talk to the boards: its players, and the device
\* tasks that have opened their sockets and have not cleaned up.
Drivers ==
    {j \in Driving : child[j] = "watched"} \cup {t \in Tasks : sockets[t] = "open"}

\* At most one component of the service drives the machine, whatever kicks, late exits and
\* late reports of death come between, and also when the service before this one crashed
\* (robot.py:211, 218, 224, base.py:129, 142).
OneDriver == Cardinality(Drivers) <= 1

\* As long as no service has crashed, a running player can be found through the pid file:
\* a player that is still on its way out never removes the file of its successor
\* (launcher.py:220-222 unlocks before it unlinks).
Recorded == crashes = 0 => Driving \subseteq {record}

\* As long as no service has crashed, only a shutdown kills a player whose job is not
\* over: the device status that tells PLAYTOGL and POWER so is shared by all the players
\* and written late (robot.py:98, 111, play_manager.py:70, 135).  The exception is a
\* player that takes RESTART after a handler has seen its job over: a second that it
\* spends on the file is enough, and quit() kills it (play_manager.py:226-236).
JobKept ==
    [][ Shutdown \/ crashes # 0 \/ raced
        \/ \A j \in Jobs : proc[j] \in {"spawned", "busy"} => proc'[j] # "killed" ]_vars

Finished(o) ==
    \/ o \in Jobs /\ proc[o] \in {"quitting", "unlocked", "killed", "dead"}
    \/ o \in Conns /\ broken[o]

\* A component that is finished does not keep the lock, whichever of quit(), the child
\* watcher, the end of the connection and a kick comes first.  (The wreck of a task has
\* no end that would release it but the garbage collector.)
Released ==
    \A o \in Jobs \cup Conns : (owner = o /\ Finished(o)) ~> owner # o
================================================================================
