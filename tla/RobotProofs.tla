------------------------------ MODULE RobotProofs ------------------------------
(***************************************************************************)
(* Theorems about Robot for every set of connections and every bound on    *)
(* the players and the crashes.                                            *)
(***************************************************************************)
EXTENDS Robot, FiniteSetTheorems, TLAPS

\* A player of this service that is not dead or about to be is the one that holds the
\* lock, and a task with sockets holds it too.
DriversOwn ==
    /\ \A j \in Jobs : child[j] = "watched" /\ proc[j] \in Killable => owner = j
    /\ \A t \in Tasks : sockets[t] = "open" => owner = t

\* Before any crash the lock knows every player there is, what the pid file names is
\* known too, and a job that is not over is not taken for one that is.
PlayersOwn ==
    crashes = 0 =>
        /\ \A j \in Jobs : proc[j] \in Killable => owner = j
        /\ Driving \subseteq {record}
        /\ status = "ended" => \A j \in Jobs : proc[j] \notin {"spawned", "busy"}

\* A handler that has seen the holder's job over still finds it the holder, and, unless a
\* player has taken RESTART since, no job under way.
ActingOn ==
    acting # "none" =>
        /\ owner \in Jobs
        /\ crashes = 0 /\ ~raced => \A j \in Jobs : proc[j] \notin {"spawned", "busy"}

IInv == TypeOK /\ DriversOwn /\ PlayersOwn /\ ActingOn

-----------------------------------------------------------------------------
(* What the parts do that several actions share. *)

ProcStates == {"none", "spawned", "busy", "ended", "quitting", "unlocked", "killed", "dead"}

\* A SIGKILL touches one process, and only one that can be killed.
LEMMA KilledType ==
    ASSUME NEW ps \in [Jobs -> ProcStates], NEW j \in Jobs
    PROVE  /\ Killed(ps, j) \in [Jobs -> ProcStates]
           /\ Killed(ps, j)[j] \notin Killable
           /\ \A k \in Jobs : Killed(ps, j)[k] # ps[k] =>
                  k = j /\ ps[k] \in Killable /\ Killed(ps, j)[k] = "killed"
  BY DEF Killed, Killable, ProcStates

\* So does the constructor of PlayerManager, to the process the pid file names.
LEMMA OldKilledType ==
    ASSUME NEW ps \in [Jobs -> ProcStates], record \in {None} \cup Jobs
    PROVE  /\ OldKilled(ps) \in [Jobs -> ProcStates]
           /\ record \in Jobs => OldKilled(ps)[record] \notin Killable
           /\ \A k \in Jobs : OldKilled(ps)[k] # ps[k] =>
                  k = record /\ ps[k] \in Killable /\ OldKilled(ps)[k] = "killed"
  <1>1. CASE record = None
    BY <1>1 DEF OldKilled, Jobs, None
  <1>2. CASE record \in Jobs /\ record # None
    BY <1>2, KilledType DEF OldKilled
  <1> QED
    BY <1>1, <1>2

\* A launch takes a process that was never started.
LEMMA LaunchTakes ==
    ASSUME NEW ps \in [Jobs -> ProcStates], record \in {None} \cup Jobs, Launch(ps)
    PROVE  \E j \in Jobs :
               /\ ps[j] = "none"
               /\ proc' = [OldKilled(ps) EXCEPT ![j] = "spawned"]
               /\ child' = [child EXCEPT ![j] = "watched"]
               /\ owner' = j
               /\ status' = "init"
  <1> DEFINE unborn == {i \in Jobs : ps[i] = "none"}
             j == CHOOSE i \in Jobs : ps[i] = "none" /\ \A k \in Jobs : k < i => ps[k] # "none"
  <1>1. unborn \subseteq Nat /\ unborn # {}
    BY DEF Launch, Jobs
  <1>2. PICK i \in unborn : \A k \in unborn : ~ (<<k, i>> \in OpToRel(<, Nat))
    BY <1>1, NatLessThanWellFounded, WFMin
  <1>3. i \in Jobs /\ ps[i] = "none" /\ \A k \in Jobs : k < i => ps[k] # "none"
    BY <1>1, <1>2 DEF OpToRel
  <1>4. j \in Jobs /\ ps[j] = "none"
    BY <1>3
  <1> QED
    BY <1>4 DEF Launch

\* A constructor that raises leaves the processes as they were or one of them killed.
LEMMA LaunchFailsTakes ==
    ASSUME NEW ps \in [Jobs -> ProcStates], record \in {None} \cup Jobs, LaunchFails(ps)
    PROVE  /\ proc' \in [Jobs -> ProcStates]
           /\ \A k \in Jobs : proc'[k] # ps[k] => ps[k] \in Killable /\ proc'[k] = "killed"
           /\ owner' = None /\ UNCHANGED <<child, status>>
  BY OldKilledType DEF LaunchFails

-----------------------------------------------------------------------------
(* Type correctness. *)

LEMMA TypeStep == ASSUME TypeOK, ActingOn, [Next]_vars PROVE TypeOK'
  <1> USE DEF TypeOK
  <1>0. proc \in [Jobs -> ProcStates] /\ record \in {None} \cup Jobs
    BY DEF ProcStates
  <1>1. ASSUME NEW ps \in [Jobs -> ProcStates], Launch(ps) \/ LaunchFails(ps)
        PROVE  /\ proc' \in [Jobs -> ProcStates] /\ owner' \in {None} \cup Jobs
               /\ child' \in [Jobs -> {"none", "watched", "reaped", "orphan"}]
               /\ status' \in {"idle", "init", "busy", "ended"}
    <2>1. CASE Launch(ps)
      BY <1>0, <1>1, <2>1, LaunchTakes, OldKilledType DEF ProcStates
    <2>2. CASE LaunchFails(ps)
      BY <1>0, <1>1, <2>2, LaunchFailsTakes
    <2> QED
      BY <1>1, <2>1, <2>2
  <1>2. CASE Autoplay \/ \E c \in Conns : Start(c)
    BY <1>0, <1>1, <1>2 DEF Autoplay, Start, Handler, work, clients, ProcStates
  <1>3. CASE PlayAgain
    <2>1. owner \in Jobs
      BY <1>3 DEF PlayAgain, Decided, ActingOn
    <2> QED
      BY <1>0, <1>1, <1>3, <2>1, KilledType DEF PlayAgain, Decided, clients, ProcStates
  <1>4. CASE SecondPasses \/ QuitDead \/ DecideAgain \/ SendQuit \/ QuitAnswered
    BY <1>4 DEF SecondPasses, QuitDead, DecideAgain, SendQuit, QuitAnswered, Decide, Decided, Handler,
        Release, lock, work, players, clients, shared
  <1>5. ASSUME Reborn
        PROVE  /\ owner' \in {None} \cup Jobs \cup Tasks /\ recent' \in BOOLEAN
               /\ child' \in [Jobs -> {"none", "watched", "reaped", "orphan"}]
               /\ conn' \in [Conns -> {"closed", "command", "task"}]
               /\ broken' \in [Conns -> BOOLEAN]
               /\ sockets' \in [Tasks -> {"closed", "open"}]
               /\ acting' = "none" /\ raced' = FALSE
               /\ mail' \in [Jobs -> {"none", "QUIT", "answered"}]
    BY <1>5 DEF Reborn
  <1>6. CASE QuitKills \/ Shutdown \/ RobotCrashes
    <2>1. proc' \in [Jobs -> ProcStates] /\ UNCHANGED shared
      BY <1>0, <1>6, KilledType DEF QuitKills, Decided, ActingOn, Shutdown, RobotCrashes
    <2>2. crashes' \in Nat
      BY <1>6 DEF QuitKills, Shutdown, RobotCrashes
    <2> QED
      BY <1>5, <1>6, <2>1, <2>2 DEF QuitKills, Decided, Shutdown, RobotCrashes, ProcStates, shared, lock,
          clients
  <1>7. ASSUME NEW j \in Jobs, OnProcessDead(j) \/ PlayerStep(j)
        PROVE  TypeOK'
    BY <1>7 DEF OnProcessDead, PlayerStep, LockPidfile, JobEnds, Restart, OnQuit, OnTimer,
        UnlockPidfile, UnlinkPidfile, KillTakesEffect, PlayerCrashes, Dies, Unlocked, Release,
        Handler, Free, lock, work, players, clients, shared
  <1>8. ASSUME NEW c \in Conns, ClientStep(c), ~Start(c)
        PROVE  TypeOK'
    <2>1. CASE Connect(c) \/ Break(c)
      BY <2>1 DEF Connect, Break, Handler, lock, work, players, shared
    <2>2. CASE EnterTask(c) \/ EnterTaskFails(c)
      BY <2>2 DEF EnterTask, EnterTaskFails, Handler, Tasks, work, players, shared
    <2>3. CASE QuitTask(c) \/ Close(c) \/ TaskDies(c) \/ Kick(c)
      <3>1. sockets' \in [Tasks -> {"closed", "open"}]
        BY <2>3 DEF QuitTask, Close, TaskDies, Kick, ExitTask, Clean
      <3>2. owner' \in {None} \cup Jobs \cup Tasks /\ recent' \in BOOLEAN
        BY <2>3 DEF QuitTask, Close, TaskDies, Kick, ExitTask, Release, lock
      <3>3. conn' \in [Conns -> {"closed", "command", "task"}] /\ broken' \in [Conns -> BOOLEAN]
        BY <2>3 DEF QuitTask, Close, TaskDies, Kick, HandlerClosed
      <3> QED
        BY <2>3, <3>1, <3>2, <3>3 DEF QuitTask, Close, TaskDies, Kick, Handler, work, players,
            shared
    <2> QED
      BY <1>8, <2>1, <2>2, <2>3 DEF ClientStep
  <1>10. CASE Collected \/ WreckDies \/ KickWreck
    <2>1. sockets' \in [Tasks -> {"closed", "open"}]
      BY <1>10 DEF Collected, WreckDies, KickWreck, WreckOnDead, Clean
    <2>2. owner' \in {None} \cup Jobs \cup Tasks /\ recent' \in BOOLEAN
      BY <1>10 DEF Collected, WreckDies, KickWreck, lock
    <2>3. conn' \in [Conns -> {"closed", "command", "task"}] /\ broken' \in [Conns -> BOOLEAN]
      BY <1>10 DEF Collected, WreckDies, KickWreck, WreckOnDead, HandlerClosed
    <2> QED
      BY <1>10, <2>1, <2>2, <2>3 DEF Collected, WreckDies, KickWreck, WreckOnDead, Handler, work,
          players, shared
  <1>9. CASE UNCHANGED vars
    BY <1>9 DEF vars, lock, work, players, clients, shared
  <1> QED
    BY <1>2, <1>3, <1>4, <1>6, <1>7, <1>8, <1>9, <1>10 DEF Next, QuitEnds

-----------------------------------------------------------------------------
(* The invariant. *)

\* Names of components do not collide.
LEMMA Names ==
    /\ None \notin Jobs /\ None \notin Tasks /\ Jobs \cap Tasks = {}
    /\ Conns \subseteq Tasks /\ Wreck \in Tasks \ Conns
  BY RobotConstants DEF None, Jobs, Tasks

\* Nothing that could drive is left in `ps' or among the connections.
Vacant(ps) ==
    /\ \A k \in Jobs : ps[k] # proc[k] => ps[k] = "killed"
    /\ \A k \in Jobs : ps[k] \in Killable => child[k] # "watched" /\ crashes # 0
    /\ \A t \in Tasks : sockets[t] # "open"

\* A player is only launched when nothing else of the service drives.
LEMMA LaunchKeeps ==
    ASSUME IInv, NEW ps \in [Jobs -> ProcStates], Vacant(ps),
           Launch(ps) \/ LaunchFails(ps), UNCHANGED <<clients, record, crashes>>
    PROVE  DriversOwn' /\ PlayersOwn'
  <1>1. record \in {None} \cup Jobs /\ child \in [Jobs -> {"none", "watched", "reaped", "orphan"}]
    BY DEF IInv, TypeOK
  <1>2. CASE Launch(ps)
    <2>1. PICK j \in Jobs : /\ ps[j] = "none"
                            /\ proc' = [OldKilled(ps) EXCEPT ![j] = "spawned"]
                            /\ child' = [child EXCEPT ![j] = "watched"]
                            /\ owner' = j /\ status' = "init"
      BY <1>1, <1>2, LaunchTakes
    <2>2. \A k \in Jobs : k # j /\ proc'[k] \in Killable => ps[k] \in Killable /\ proc'[k] = ps[k]
      BY <1>1, <2>1, OldKilledType DEF Killable
    <2>3. DriversOwn'
      BY <1>1, <2>1, <2>2 DEF DriversOwn, Vacant, clients
    <2>4. PlayersOwn'
      BY <2>1, <2>2, OldKilledType, <1>1 DEF PlayersOwn, Vacant, Driving, Killable
    <2> QED
      BY <2>3, <2>4
  <1>3. CASE LaunchFails(ps)
    <2>1. \A k \in Jobs : proc'[k] \in Killable => ps[k] \in Killable /\ proc'[k] = ps[k]
      BY <1>1, <1>3, LaunchFailsTakes DEF Killable
    <2> QED
      BY <1>1, <1>3, <2>1, LaunchFailsTakes DEF DriversOwn, PlayersOwn, Vacant, Driving, Killable,
          clients
  <1> QED
    BY <1>2, <1>3

LEMMA InvStep == ASSUME IInv, [Next]_vars PROVE DriversOwn' /\ PlayersOwn'
  <1>0. /\ proc \in [Jobs -> ProcStates]
        /\ TypeOK /\ DriversOwn /\ PlayersOwn /\ ActingOn
    BY DEF IInv, TypeOK, ProcStates
  <1> USE Names
  <1>1. CASE Autoplay \/ \E c \in Conns : Start(c)
    <2>1. Vacant(proc)
      BY <1>0, <1>1 DEF Autoplay, Start, Vacant, DriversOwn, PlayersOwn
    <2> QED
      BY <1>0, <1>1, <2>1, LaunchKeeps DEF Autoplay, Start
  <1>2. CASE PlayAgain
    <2>0. owner \in Jobs
      BY <1>0, <1>2 DEF PlayAgain, Decided, ActingOn
    <2>1. Vacant(Killed(proc, owner))
      BY <1>0, <1>2, <2>0, KilledType DEF PlayAgain, Vacant, DriversOwn, PlayersOwn, Killable
    <2> QED
      BY <1>0, <1>2, <2>0, <2>1, KilledType, LaunchKeeps DEF PlayAgain
  <1>3. CASE SecondPasses \/ DecideAgain \/ SendQuit \/ QuitAnswered \/ UNCHANGED vars
    BY <1>0, <1>3 DEF SecondPasses, DecideAgain, SendQuit, QuitAnswered, Decide, DriversOwn,
        PlayersOwn, Driving, vars, lock, players, clients, shared
  <1>4. CASE QuitDead
    BY <1>0, <1>4 DEF QuitDead, Release, DriversOwn, PlayersOwn, Driving, Killable, TypeOK, lock,
        clients, shared
  <1>6. CASE QuitKills
    <2>0. owner \in Jobs
      BY <1>0, <1>6 DEF QuitKills, Decided, ActingOn
    <2>1. \A k \in Jobs : /\ proc'[k] \in Killable => proc[k] = proc'[k]
                          /\ proc'[k] \in {"spawned", "busy"} => proc[k] = proc'[k]
      BY <1>0, <1>6, <2>0, KilledType DEF QuitKills, Killable
    <2> QED
      BY <1>0, <1>6, <2>1 DEF QuitKills, DriversOwn, PlayersOwn, Driving, Killable, lock, clients,
          shared
  <1>7. CASE Shutdown
    <2>1. \A k \in Jobs : proc'[k] \in Killable => proc[k] = proc'[k] /\ owner # k
      BY <1>0, <1>7, KilledType DEF Shutdown, Killable
    <2>2. \A k \in Jobs : child'[k] # "watched"
      BY <1>7 DEF Shutdown, Reborn
    <2> QED
      BY <1>0, <1>7, <2>1, <2>2 DEF Shutdown, Reborn, DriversOwn, PlayersOwn, Driving, Killable,
          shared
  <1>8. CASE RobotCrashes
    <2>1. \A k \in Jobs : child'[k] # "watched"
      BY <1>8 DEF RobotCrashes, Reborn
    <2> QED
      BY <1>0, <1>8, <2>1 DEF RobotCrashes, Reborn, DriversOwn, PlayersOwn, TypeOK
  <1>9. ASSUME NEW j \in Jobs, OnProcessDead(j) \/ PlayerStep(j)
        PROVE  DriversOwn' /\ PlayersOwn'
    <2>1. CASE OnProcessDead(j)
      BY <1>0, <2>1 DEF OnProcessDead, Release, DriversOwn, PlayersOwn, Driving, Killable, TypeOK,
          lock, clients
    <2>2. CASE LockPidfile(j)
      BY <1>0, <2>2 DEF LockPidfile, DriversOwn, PlayersOwn, Driving, Killable, TypeOK, lock,
          clients, shared
    <2>3. CASE JobEnds(j) \/ Restart(j) \/ OnQuit(j) \/ OnTimer(j)
      BY <1>0, <2>3 DEF JobEnds, Restart, OnQuit, OnTimer, DriversOwn, PlayersOwn, Driving,
          Killable, TypeOK, lock, players, clients, shared
    <2>4. CASE UnlockPidfile(j) \/ UnlinkPidfile(j)
      BY <1>0, <2>4 DEF UnlockPidfile, UnlinkPidfile, Unlocked, DriversOwn, PlayersOwn, Driving,
          Killable, TypeOK, lock, clients, shared
    <2>5. CASE KillTakesEffect(j) \/ PlayerCrashes(j)
      BY <1>0, <2>5 DEF KillTakesEffect, PlayerCrashes, Dies, Unlocked, DriversOwn, PlayersOwn,
          Driving, Killable, TypeOK, lock, clients, shared
    <2> QED
      BY <1>9, <2>1, <2>2, <2>3, <2>4, <2>5 DEF PlayerStep
  <1>10. ASSUME \/ \E c \in Conns : ClientStep(c) /\ ~Start(c)
                \/ Collected \/ WreckDies \/ KickWreck
         PROVE  DriversOwn' /\ PlayersOwn'
    <2>1. UNCHANGED <<players, shared, crashes>> /\ \A o \in Jobs : owner = o => owner' = o
      BY <1>0, <1>10 DEF ClientStep, Connect, Break, EnterTask, EnterTaskFails, QuitTask, Close,
          TaskDies, Kick, Collected, WreckDies, KickWreck, WreckOnDead, ExitTask, Release, lock
    <2>2. \A t \in Tasks : sockets'[t] = "open" => owner' = t
      BY <1>0, <1>10 DEF ClientStep, Connect, Break, EnterTask, EnterTaskFails, QuitTask, Close,
          TaskDies, Kick, Collected, WreckDies, KickWreck, WreckOnDead, ExitTask, Clean, Release,
          lock, DriversOwn, TypeOK
    <2> QED
      BY <1>0, <2>1, <2>2 DEF DriversOwn, PlayersOwn, Driving, players, shared
  <1> QED
    BY <1>1, <1>2, <1>3, <1>4, <1>6, <1>7, <1>8, <1>9, <1>10 DEF Next, QuitEnds

\* A handler that acts is alone in the service: only players, the connections' peers, the
\* clock and a crash come between its two steps.
LEMMA ActingStep == ASSUME IInv, [Next]_vars PROVE ActingOn'
  <1>0. /\ proc \in [Jobs -> ProcStates]
        /\ TypeOK /\ DriversOwn /\ PlayersOwn /\ ActingOn
    BY DEF IInv, TypeOK, ProcStates
  <1>1. CASE DecideAgain \/ SendQuit
    BY <1>0, <1>1 DEF DecideAgain, SendQuit, Decide, ActingOn, PlayersOwn, lock, players
  <1>2. CASE PlayAgain \/ QuitAnswered \/ QuitKills \/ Shutdown \/ RobotCrashes
    BY <1>2 DEF PlayAgain, QuitAnswered, QuitKills, Decided, Shutdown, RobotCrashes, Reborn,
        ActingOn
  <1>3. CASE \/ Autoplay \/ QuitDead \/ Collected \/ WreckDies \/ KickWreck
             \/ \E j \in Jobs : OnProcessDead(j)
             \/ \E c \in Conns : ClientStep(c) /\ ~Break(c)
    <2>1. acting' = "none"
      BY <1>3 DEF Autoplay, QuitDead, Collected, WreckDies, KickWreck, WreckOnDead, OnProcessDead,
          ClientStep, Connect, Start, EnterTask, EnterTaskFails, QuitTask, Close, TaskDies, Kick,
          Handler, Free, work
    <2> QED
      BY <2>1 DEF ActingOn
  <1>4. CASE SecondPasses \/ (\E c \in Conns : Break(c)) \/ UNCHANGED vars
    BY <1>0, <1>4 DEF SecondPasses, Break, ActingOn, vars, lock, work, players
  <1>5. ASSUME NEW j \in Jobs, PlayerStep(j)
        PROVE  ActingOn'
    <2>1. UNCHANGED <<acting, owner, crashes>>
      BY <1>5 DEF PlayerStep, LockPidfile, JobEnds, Restart, OnQuit, OnTimer, UnlockPidfile,
          UnlinkPidfile, KillTakesEffect, PlayerCrashes, Dies, lock, work
    <2>2. CASE Restart(j)
      BY <1>0, <2>1, <2>2 DEF Restart, ActingOn, Free
    <2>3. CASE ~Restart(j)
      <3>1. raced' = raced
        BY <1>5, <2>3 DEF PlayerStep, LockPidfile, JobEnds, OnQuit, OnTimer, UnlockPidfile,
            UnlinkPidfile, KillTakesEffect, PlayerCrashes, Dies, work
      <3>2. \A k \in Jobs : proc'[k] \in {"spawned", "busy"} => proc[k] \in {"spawned", "busy"}
        BY <1>0, <1>5, <2>3 DEF PlayerStep, LockPidfile, JobEnds, OnQuit, OnTimer, UnlockPidfile,
            UnlinkPidfile, KillTakesEffect, PlayerCrashes, Dies, players
      <3> QED
        BY <1>0, <2>1, <3>1, <3>2 DEF ActingOn
    <2> QED
      BY <2>2, <2>3
  <1> QED
    BY <1>1, <1>2, <1>3, <1>4, <1>5 DEF Next, QuitEnds

-----------------------------------------------------------------------------
(* The theorems. *)

\* The invariant holds at the start and every step keeps it.
THEOREM Invariance == Spec => []IInv
  <1>1. ASSUME Init PROVE IInv
    <2>1. TypeOK
      BY <1>1 DEF Init, TypeOK
    <2>2. DriversOwn /\ PlayersOwn /\ ActingOn
      BY <1>1 DEF Init, DriversOwn, PlayersOwn, ActingOn, Driving, Killable
    <2> QED
      BY <2>1, <2>2 DEF IInv
  <1>2. IInv /\ [Next]_vars => IInv'
    BY TypeStep, InvStep, ActingStep DEF IInv
  <1> QED
    BY <1>1, <1>2, PTL DEF Spec

\* Every reachable state is well typed.
THEOREM TypeCorrect == Spec => []TypeOK
  <1>1. IInv => TypeOK
    BY DEF IInv
  <1> QED
    BY <1>1, Invariance, PTL

\* However many clients and players come and go, at most one component of the service
\* drives the machine: it is the one that holds the lock.
THEOREM OnlyOneDrives == Spec => []OneDriver
  <1>1. ASSUME IInv PROVE OneDriver
    <2>1. Drivers \subseteq {owner}
      BY <1>1 DEF IInv, DriversOwn, Drivers, Driving, Killable
    <2>2. IsFiniteSet({owner}) /\ Cardinality({owner}) = 1
      BY FS_Singleton
    <2>3. Cardinality(Drivers) <= Cardinality({owner})
      BY <2>1, <2>2, FS_Subset
    <2> QED
      BY <2>2, <2>3 DEF OneDriver
  <1> QED
    BY <1>1, Invariance, PTL

\* Before any crash, a player that is running is the one the pid file names.
THEOREM RunningIsRecorded == Spec => []Recorded
  <1>1. IInv => Recorded
    BY DEF IInv, PlayersOwn, Recorded
  <1> QED
    BY <1>1, Invariance, PTL

\* Before any crash, only a shutdown kills a player whose job is not over, but for a player
\* that takes RESTART between the look of quit() or PLAYTOGL at the device status and the
\* kill.
THEOREM JobsAreKept == Spec => JobKept
  <1> DEFINE Kept == \/ Shutdown \/ crashes # 0 \/ raced
                     \/ \A j \in Jobs : proc[j] \in {"spawned", "busy"} => proc'[j] # "killed"
  <1>1. ASSUME IInv, [Next]_vars PROVE [Kept]_vars
    <2>0. /\ proc \in [Jobs -> ProcStates] /\ record \in {None} \cup Jobs
          /\ TypeOK /\ DriversOwn /\ PlayersOwn /\ ActingOn
      BY <1>1 DEF IInv, TypeOK, ProcStates
    <2> SUFFICES ASSUME crashes = 0, ~raced, ~Shutdown, ~UNCHANGED vars,
                        NEW j \in Jobs, proc[j] \in {"spawned", "busy"}, proc'[j] = "killed"
                 PROVE  FALSE
      OBVIOUS
    <2> USE Names
    <2>1. owner = j /\ acting = "none"
      BY <2>0 DEF PlayersOwn, ActingOn, Killable
    <2>2. Next
      BY <1>1
    <2>3. CASE Autoplay \/ \E c \in Conns : Start(c)
      BY <2>1, <2>3 DEF Autoplay, Start
    <2>4. CASE PlayAgain \/ QuitEnds
      BY <2>1, <2>4 DEF PlayAgain, QuitEnds, QuitAnswered, QuitKills, Decided
    <2>5. CASE \/ SecondPasses \/ RobotCrashes \/ DecideAgain \/ SendQuit \/ QuitDead
               \/ Collected \/ WreckDies \/ KickWreck
      BY <2>5 DEF SecondPasses, RobotCrashes, DecideAgain, SendQuit, Decide, QuitDead, Collected,
          WreckDies, KickWreck, WreckOnDead, players
    <2>6. ASSUME NEW i \in Jobs, OnProcessDead(i) \/ PlayerStep(i)
          PROVE  FALSE
      BY <2>0, <2>6 DEF OnProcessDead, PlayerStep, LockPidfile, JobEnds, Restart, OnQuit, OnTimer,
          UnlockPidfile, UnlinkPidfile, KillTakesEffect, PlayerCrashes, Dies, players
    <2>7. ASSUME NEW c \in Conns, ClientStep(c), ~Start(c)
          PROVE  FALSE
      BY <2>7 DEF ClientStep, Connect, Break, EnterTask, EnterTaskFails, QuitTask, Close, TaskDies,
          Kick, players
    <2> QED
      BY <2>2, <2>3, <2>4, <2>5, <2>6, <2>7 DEF Next
  <1> QED
    BY <1>1, Invariance, PTL DEF Spec, JobKept
================================================================================
