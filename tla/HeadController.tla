---------------------------- MODULE HeadController ----------------------------
(***************************************************************************)
(* The controller of the toolhead: src/src/player/head_controller.pyx with *)
(* the command queue of misc.c.  It greets the head, pings it, and sends   *)
(* it one command at a time, resending after COMMAND_TIMEOUT.  Answers     *)
(* carry no number: any "OK" frees the command buffer.                     *)
(*                                                                         *)
(* The module attached to the connector is external.  It is modelled from  *)
(* the answers the controller and its tests understand.                    *)
(***************************************************************************)
EXTENDS Naturals, Sequences

CONSTANTS
    Unset,       \* NaN: nothing asked for, or nothing reported
    Level,       \* fan speeds and heater targets; 0 is off
    Hot,         \* the targets allset waits for: those above 60 degrees
    Reading,     \* the temperatures a head may report
    RequiredSet, \* the required_module values to start from
    HeadSet,     \* what may be attached: a head type or "absent"
    MaxRetry,    \* MAX_COMMAND_RETRY
    Calls,       \* which operations the owner uses
    MaxCalls,    \* bound: number of calls of the owner
    FaultKinds,  \* what the head or its line may do wrong
    MaxFaults    \* bound: number of faults in a behaviour

\* A "BARE" head says that it is an extruder, with too few heaters or no number.
HeadTypes == {"EXTRUDER", "LASER", "BARE", "UNKNOWN"}
AllCalls == {"bootstrap", "recover", "standby", "shutdown", "reset", "set heater",
             "set fan", "command callback", "allset callback"}
AllHeadFaults == {"lose", "slow", "reset", "refuse", "error"}

ASSUME HeadConstants ==
    /\ Unset \notin Nat
    /\ Level \subseteq Nat /\ 0 \in Level /\ Hot \subseteq Level \ {0}
    /\ Reading \subseteq Nat
    /\ RequiredSet \subseteq {"any", "N/A", "EXTRUDER", "LASER"}
    /\ HeadSet \subseteq HeadTypes \cup {"absent"}
    /\ MaxRetry \in Nat /\ MaxCalls \in Nat /\ MaxFaults \in Nat
    /\ Calls \subseteq AllCalls /\ FaultKinds \subseteq AllHeadFaults

VARIABLES
    \* the controller
    required,        \* required_module
    stFlag,          \* _st_flag
    ext,             \* ext: "none" or the kind of the extension
    want,            \* ExtruderExt: _fanspeed and _temperatures[0]
    rt,              \* status["rt"]: the last temperature reported
    errorCode,       \* error_code
    updating,        \* a ping is out
    updateDue,       \* UPDATE_FREQUENCY has passed since lastupdate
    cmdbuf,          \* cmdbuf
    commandQueue,    \* command_queue
    sendRetry,       \* send_retry, counted up to MaxRetry
    expired,         \* COMMAND_TIMEOUT has passed since send_timestamp
    readyCallback, cmdCallback, allsetCallback,
    \* its owner
    op,              \* the last operation called
    done,            \* its callback has been called
    raised,          \* the exceptions seen
    calls,           \* calls so far, at most MaxCalls
    overlapped,      \* history: it has called bootstrap before an earlier one was answered
    \* the line and the head
    toHead, toHost,  \* FIFO byte streams, one element per line
    headType,        \* what is attached
    applied,         \* the fan speed and the heater target it works at
    wasReset,        \* it has restarted and has not been greeted since
    headError,       \* it has some other error to report
    faults           \* faults so far by kind, together at most MaxFaults

config == <<required, headType>>
session == <<stFlag, ext, want, rt, errorCode>>
sending == <<cmdbuf, commandQueue, sendRetry, expired>>
pinging == <<updating, updateDue>>
callbacks == <<readyCallback, cmdCallback, allsetCallback>>
owner == <<op, done, raised, calls, overlapped>>
head == <<applied, wasReset, headError>>
wires == <<toHead, toHost>>
vars == <<config, session, sending, pinging, callbacks, owner, head, wires, faults>>

-----------------------------------------------------------------------------
Channel == {"F", "H"}
Setting == Level \cup {Unset}

Hello == [type |-> "HELLO"]
Ping == [type |-> "PING"]
Cmd(ch, v) == [type |-> "CMD", ch |-> ch, v |-> v]
Commands == [type : {"CMD"}, ch : Channel, v : Level]
NoCmd == [type |-> "NONE"]

HelloReply(t) == [type |-> "HELLO", head |-> t]
Pong(er, temp) == [type |-> "PONG", er |-> er, rt |-> temp]
OK == [type |-> "OK"]
ER == [type |-> "ER"]

Exceptions == {"OFFLINE", "RESET", "BUSY", "TYPE", "SPEC", "TEMPERATURE", "HEAD_ERROR"}

ToHeadLines == Commands \cup {Hello, Ping}
ToHostLines ==
    {OK, ER} \cup [type : {"HELLO"}, head : HeadTypes]
    \cup [type : {"PONG"}, er : SUBSET {"reset", "other"}, rt : Reading]

\* The session and the line, and the sending and its owner, are typed apart.
SessionType ==
    /\ required \in RequiredSet /\ headType \in HeadSet
    /\ stFlag \in {"INIT", "BOOTING", "RUNNING"}
    /\ ext \in {"none", "EXTRUDER", "LASER"}
    /\ want \in [Channel -> Setting] /\ rt \in Reading \cup {Unset}
    /\ errorCode \subseteq {"reset", "other"}
    /\ updating \in BOOLEAN /\ updateDue \in BOOLEAN
    /\ readyCallback \in BOOLEAN /\ allsetCallback \in BOOLEAN
    /\ toHost \in Seq(ToHostLines)
    /\ applied \in [Channel -> Level]
    /\ wasReset \in BOOLEAN /\ headError \in BOOLEAN

SendingType ==
    /\ cmdbuf \in Commands \cup {NoCmd} /\ commandQueue \in Seq(Commands)
    /\ sendRetry \in 0..MaxRetry /\ expired \in BOOLEAN
    /\ toHead \in Seq(ToHeadLines)
    /\ cmdCallback \in {"none", "recover", "standby", "shutdown", "command"}
    /\ op \in {"none", "failed", "recover", "standby", "shutdown", "command"}
    /\ done \in BOOLEAN /\ overlapped \in BOOLEAN
    /\ raised \subseteq Exceptions

CountType == calls \in Nat /\ faults \in [AllHeadFaults -> Nat]

TypeOK == SessionType /\ SendingType /\ CountType

\* A new ExtruderExt sets _fanspeed to NaN.  Its loop over _temperatures starts
\* at 1, so the only entry, 0, holds whatever malloc returned.
Off == [ch \in Channel |-> 0]
Nothing == [ch \in Channel |-> Unset]
Fresh(kind) == IF kind = "EXTRUDER"
               THEN {[Nothing EXCEPT !["H"] = t] : t \in Setting}
               ELSE {Nothing}

\* required_module builds the extension at once.
Init ==
    /\ required \in RequiredSet /\ headType \in HeadSet
    /\ stFlag = "INIT" /\ errorCode = {} /\ rt = Unset
    /\ ext = IF required \in {"any", "N/A"} THEN "none" ELSE required
    /\ want \in Fresh(ext)
    /\ updating = FALSE /\ updateDue = TRUE
    /\ cmdbuf = NoCmd /\ commandQueue = <<>> /\ sendRetry = 0 /\ expired = TRUE
    /\ readyCallback = FALSE /\ cmdCallback = "none" /\ allsetCallback = FALSE
    /\ op = "none" /\ done = FALSE /\ raised = {} /\ calls = 0 /\ overlapped = FALSE
    /\ toHead = <<>> /\ toHost = <<>>
    /\ applied = Off /\ wasReset = TRUE /\ headError = FALSE
    /\ faults = [kind \in AllHeadFaults |-> 0]

-----------------------------------------------------------------------------
(* Sending. *)

Sendable == stFlag = "RUNNING" /\ cmdbuf = NoCmd

\* An exception reaches the owner: whatever it asked for has failed.
Raise(e) == raised' = raised \cup {e} /\ op' = "failed" /\ done' = FALSE

\* pop_command_queue and send_command of a queue that is not empty.
SendFirst(queue) ==
    /\ cmdbuf' = queue[1] /\ commandQueue' = Tail(queue)
    /\ toHead' = Append(toHead, queue[1]) /\ expired' = FALSE
    /\ UNCHANGED sendRetry

\* The same when send_command raises RESOURCE_BUSY: the item is gone.
LoseFirst(queue) ==
    /\ commandQueue' = Tail(queue)
    /\ Raise("BUSY")
    /\ UNCHANGED <<sendRetry, toHead, expired>>

Say(m) == toHead' = Append(toHead, m) /\ expired' = FALSE

\* reset: the session is over; commands, queue and command callback stay.
EndSession ==
    /\ stFlag' = "INIT" /\ errorCode' = {} /\ rt' = Unset
    /\ ext' = IF required = "any" THEN "none" ELSE ext
    /\ want' = IF required = "any" THEN Nothing ELSE want
    /\ readyCallback' = FALSE /\ allsetCallback' = FALSE

Offline(e) == EndSession /\ Raise(e)

OnReady == stFlag' = "RUNNING" /\ readyCallback' = FALSE

-----------------------------------------------------------------------------
(* Operations called by the owner. *)

\* A greeting or the answer to one is on its way.
Greeting ==
    \/ \E i \in 1..Len(toHead) : toHead[i].type = "HELLO"
    \/ \E i \in 1..Len(toHost) : toHost[i].type = "HELLO"

Call(name) ==
    /\ name \in Calls /\ calls < MaxCalls /\ calls' = calls + 1
    /\ overlapped' = (overlapped \/ (name = "bootstrap" /\ Greeting))
    /\ UNCHANGED <<config, head, toHost, faults>>

Bootstrap ==
    /\ Call("bootstrap")
    /\ stFlag' = "BOOTING" /\ errorCode' = {}
    /\ cmdbuf' = NoCmd /\ commandQueue' = <<>> /\ sendRetry' = 0
    /\ Say(Hello)
    /\ readyCallback' = TRUE
    /\ op' = "none" /\ done' = FALSE
    /\ UNCHANGED <<ext, want, rt, pinging, cmdCallback, allsetCallback, raised>>

\* What recover, standby and shutdown have in common once the extension has
\* appended its commands.  Only standby asks whether a command is out.
Enqueued(kind, queue) ==
    \/ /\ queue = <<>>
       /\ op' = kind /\ done' = TRUE
       /\ UNCHANGED <<sending, toHead, cmdCallback, raised>>
    \/ /\ queue # <<>>
       /\ cmdCallback' = kind
       /\ \/ /\ updating \/ (kind = "standby" /\ ~Sendable)
             /\ commandQueue' = queue
             /\ op' = kind /\ done' = FALSE
             /\ UNCHANGED <<cmdbuf, sendRetry, expired, toHead, raised>>
          \/ /\ ~updating /\ Sendable
             /\ SendFirst(queue)
             /\ op' = kind /\ done' = FALSE
             /\ UNCHANGED raised
          \/ /\ ~updating /\ ~Sendable /\ kind # "standby"
             /\ LoseFirst(queue)
             /\ UNCHANGED cmdbuf

\* The commands of ExtruderExt.do_recover; the other extensions have none.
Restoring(setting) ==
    LET of(ch) == IF setting[ch] = Unset THEN <<>> ELSE <<Cmd(ch, setting[ch])>>
    IN  of("F") \o of("H")

CommandsFor(setting) == IF ext = "EXTRUDER" THEN Restoring(setting) ELSE <<>>

Recover ==
    /\ stFlag = "RUNNING"
    /\ Call("recover")
    /\ Enqueued("recover", commandQueue \o CommandsFor(want))
    /\ UNCHANGED <<session, pinging, readyCallback, allsetCallback>>

\* do_standby formats the int 0 with %.1f: the fan is told to stop, the heater's
\* target on the wire is undefined.
OffUndefined(t) == [Off EXCEPT !["H"] = t]

Standby ==
    /\ stFlag = "RUNNING"
    /\ Call("standby")
    /\ \E t \in Level : Enqueued("standby", commandQueue \o CommandsFor(OffUndefined(t)))
    /\ UNCHANGED <<session, pinging, readyCallback, allsetCallback>>

Shutdown ==
    /\ stFlag = "RUNNING"
    /\ Call("shutdown")
    /\ want' = IF ext = "EXTRUDER" THEN Off ELSE want
    /\ Enqueued("shutdown", commandQueue \o CommandsFor(Off))
    /\ UNCHANGED <<stFlag, ext, rt, errorCode, pinging, readyCallback, allsetCallback>>

Reset ==
    /\ Call("reset")
    /\ EndSession
    /\ op' = "none" /\ done' = FALSE
    /\ UNCHANGED <<sending, toHead, pinging, cmdCallback, raised>>

\* set_heater and set_fanspeed remember the setting even when send_command then
\* raises.  A heater that is turned off is not restored by recover.
Set(ch, v, remembered) ==
    /\ ext = "EXTRUDER"
    /\ want' = [want EXCEPT ![ch] = remembered]
    /\ \/ /\ Sendable
          /\ cmdbuf' = Cmd(ch, v) /\ Say(Cmd(ch, v))
          /\ op' = "none" /\ done' = FALSE
          /\ UNCHANGED raised
       \/ /\ ~Sendable
          /\ Raise("BUSY")
          /\ UNCHANGED <<cmdbuf, toHead, expired>>
    /\ UNCHANGED <<stFlag, ext, rt, errorCode, pinging, callbacks, commandQueue, sendRetry>>

\* More than 280 degrees is refused before anything is remembered or sent.
SetHeaterTooHot ==
    /\ Call("set heater") /\ ext = "EXTRUDER"
    /\ Raise("TEMPERATURE")
    /\ UNCHANGED <<session, sending, pinging, callbacks, toHead>>

SetHeater(v) == Call("set heater") /\ Set("H", v, IF v = 0 THEN Unset ELSE v)
SetFan(v) == Call("set fan") /\ Set("F", v, v)

\* The player sets a command callback only while a command is out.
SetCommandCallback ==
    /\ stFlag = "RUNNING" /\ ~Sendable
    /\ Call("command callback")
    /\ cmdCallback' = "command"
    /\ op' = "command" /\ done' = FALSE
    /\ UNCHANGED <<session, sending, pinging, readyCallback, allsetCallback, raised, toHead>>

SetAllsetCallback ==
    /\ Call("allset callback")
    /\ allsetCallback' \in BOOLEAN
    /\ UNCHANGED <<session, sending, pinging, readyCallback, cmdCallback, op, done, raised, toHead>>

-----------------------------------------------------------------------------
(* patrol, from the owner's timer. *)

Patrol == UNCHANGED <<config, calls, overlapped, head, toHost, faults>>

Retry(m) ==
    /\ Say(m)
    /\ sendRetry' = IF sendRetry < MaxRetry THEN sendRetry + 1 ELSE sendRetry
    /\ UNCHANGED <<session, cmdbuf, commandQueue, pinging, callbacks, op, done, raised>>

PatrolCommand ==
    /\ stFlag = "RUNNING" /\ cmdbuf # NoCmd /\ expired
    /\ sendRetry < MaxRetry
    /\ Retry(cmdbuf)
    /\ Patrol

\* Without an extension a ping is repeated for ever.
PatrolPing ==
    /\ Sendable /\ updating /\ expired
    /\ sendRetry < MaxRetry \/ ext = "none"
    /\ Retry(Ping)
    /\ Patrol

PatrolUpdate ==
    /\ Sendable /\ ~updating /\ updateDue
    /\ sendRetry' = 0 /\ updating' = TRUE
    /\ Say(Ping)
    /\ UNCHANGED <<session, cmdbuf, commandQueue, updateDue, callbacks, op, done, raised>>
    /\ Patrol

HeadNeeded == required \notin {"any", "N/A"}

\* Mutant: does not count what it repeats.
PatrolHelloUncounted ==
    /\ stFlag = "BOOTING" /\ expired /\ HeadNeeded
    /\ sendRetry < MaxRetry
    /\ Say(Hello)
    /\ UNCHANGED <<session, cmdbuf, commandQueue, sendRetry, pinging, callbacks,
                   op, done, raised>>
    /\ Patrol

PatrolHello ==
    /\ stFlag = "BOOTING" /\ expired /\ HeadNeeded
    /\ sendRetry < MaxRetry
    /\ Retry(Hello)
    /\ Patrol

\* Nothing answered and nothing had to.
PatrolNoHead ==
    /\ stFlag = "BOOTING" /\ expired /\ ~HeadNeeded
    /\ OnReady
    /\ UNCHANGED <<ext, want, rt, errorCode, sending, pinging, cmdCallback,
                   allsetCallback, op, done, raised, toHead>>
    /\ Patrol

\* Mutant: gives up one retry too early.
PatrolOfflineEarly ==
    /\ expired /\ sendRetry + 1 >= MaxRetry
    /\ \/ stFlag = "RUNNING" /\ cmdbuf # NoCmd
       \/ Sendable /\ updating /\ ext # "none"
       \/ stFlag = "BOOTING" /\ HeadNeeded
    /\ Offline("OFFLINE")
    /\ UNCHANGED <<sending, pinging, cmdCallback, toHead>>
    /\ Patrol

PatrolOffline ==
    /\ expired /\ sendRetry >= MaxRetry
    /\ \/ stFlag = "RUNNING" /\ cmdbuf # NoCmd
       \/ Sendable /\ updating /\ ext # "none"
       \/ stFlag = "BOOTING" /\ HeadNeeded
    /\ Offline("OFFLINE")
    /\ UNCHANGED <<sending, pinging, cmdCallback, toHead>>
    /\ Patrol

ElapseUpdate ==
    /\ ~updateDue /\ updateDue' = TRUE
    /\ UNCHANGED <<config, session, sending, updating, callbacks, owner, head, wires, faults>>

FaultTotal ==
    faults["lose"] + faults["slow"] + faults["reset"] + faults["refuse"] + faults["error"]

Fault(kind) ==
    /\ kind \in FaultKinds
    /\ FaultTotal < MaxFaults
    /\ faults' = [faults EXCEPT ![kind] = @ + 1]

\* COMMAND_TIMEOUT is meant to be longer than a round trip.  That it passes with
\* something still in flight is a fault.
Elapse ==
    /\ ~expired /\ expired' = TRUE
    /\ \/ toHead = <<>> /\ toHost = <<>> /\ UNCHANGED faults
       \/ /\ toHead # <<>> \/ toHost # <<>>
          /\ Fault("slow")
    /\ UNCHANGED <<config, session, cmdbuf, commandQueue, sendRetry, pinging,
                   callbacks, owner, head, wires>>

-----------------------------------------------------------------------------
(* handle_recv and handle_message. *)

Incoming(type) ==
    /\ toHost # <<>> /\ toHost[1].type = type
    /\ toHost' = Tail(toHost)
    /\ UNCHANGED <<config, calls, overlapped, head, faults>>

\* Mutant: calls back on the first answer, with commands still in the queue.
RecvOkEarly ==
    /\ Incoming("OK")
    /\ \/ commandQueue # <<>> /\ stFlag = "RUNNING" /\ SendFirst(commandQueue)
       \/ /\ commandQueue = <<>> \/ stFlag # "RUNNING"
          /\ cmdbuf' = NoCmd
          /\ UNCHANGED <<commandQueue, sendRetry, expired, toHead>>
    /\ cmdCallback' = "none"
    /\ done' = (done \/ (cmdCallback # "none" /\ cmdCallback = op))
    /\ UNCHANGED <<op, raised, session, pinging, readyCallback, allsetCallback>>

\* "OK ...": whatever was out is taken as done.
RecvOk ==
    /\ Incoming("OK")
    /\ \/ /\ commandQueue # <<>> /\ stFlag = "RUNNING"
          /\ SendFirst(commandQueue)
          /\ UNCHANGED <<cmdCallback, op, done, raised>>
       \/ /\ commandQueue # <<>> /\ stFlag # "RUNNING"
          /\ cmdbuf' = NoCmd /\ LoseFirst(commandQueue)
          /\ UNCHANGED cmdCallback
       \/ /\ commandQueue = <<>>
          /\ cmdbuf' = NoCmd
          /\ cmdCallback' = "none"
          /\ done' = (done \/ (cmdCallback # "none" /\ cmdCallback = op))
          /\ UNCHANGED <<commandQueue, sendRetry, expired, toHead, op, raised>>
    /\ UNCHANGED <<session, pinging, readyCallback, allsetCallback>>

\* Mutant: takes "ER" for an answer like any other.
RecvErTaken ==
    /\ Incoming("ER")
    /\ \/ commandQueue # <<>> /\ SendFirst(commandQueue) /\ UNCHANGED <<cmdCallback, done>>
       \/ /\ commandQueue = <<>> /\ cmdbuf' = NoCmd
          /\ cmdCallback' = "none"
          /\ done' = (done \/ (cmdCallback # "none" /\ cmdCallback = op))
          /\ UNCHANGED <<commandQueue, sendRetry, expired, toHead>>
    /\ UNCHANGED <<op, raised, session, pinging, readyCallback, allsetCallback>>

\* "ER ...": the command stays out.
RecvEr ==
    /\ Incoming("ER")
    /\ Raise("HEAD_ERROR")
    /\ UNCHANGED <<session, sending, pinging, callbacks, toHead>>

\* Mutant: an extension is built for whatever is attached.
RecvHelloAny ==
    /\ Incoming("HELLO")
    /\ OnReady
    /\ ext' = IF ext = "none" THEN toHost[1].head ELSE ext
    /\ UNCHANGED <<want, rt, errorCode, sending, pinging, cmdCallback,
                   allsetCallback, op, done, raised, toHead>>

\* A HELLO is taken in every state, also one that comes late.  A new extension is
\* there before it looks at what the head says of itself.
RecvHello ==
    /\ Incoming("HELLO")
    /\ LET kind == toHost[1].head
           welcome == IF ext = "none" THEN required # "N/A" /\ kind \notin {"BARE", "UNKNOWN"}
                                      ELSE kind = ext
           bare == kind = "BARE" /\ (ext = "EXTRUDER" \/ (ext = "none" /\ required # "N/A"))
       IN  \/ /\ welcome
              /\ OnReady
              /\ ext' = kind
              /\ IF ext = "none" THEN want' \in Fresh(kind) ELSE UNCHANGED want
              /\ UNCHANGED <<op, done, raised>>
           \/ /\ ~welcome /\ bare
              /\ stFlag' = "INIT"
              /\ ext' = "EXTRUDER"
              /\ IF ext = "none" THEN want' \in Fresh("EXTRUDER") ELSE UNCHANGED want
              /\ Raise("SPEC")
              /\ UNCHANGED readyCallback
           \/ /\ ~welcome /\ ~bare
              /\ stFlag' = "INIT"
              /\ Raise("TYPE")
              /\ UNCHANGED <<ext, want, readyCallback>>
    /\ UNCHANGED <<rt, errorCode, sending, pinging, cmdCallback, allsetCallback, toHead>>

Allset(temp) ==
    \/ ext # "EXTRUDER"
    \/ temp # Unset /\ (want["H"] \in Hot => want["H"] = temp)

\* Mutant: notes that the head has restarted and goes on.
RecvPongResetNoted ==
    /\ toHost # <<>> /\ "reset" \in errorCode
    /\ Incoming("PONG")
    /\ updating' = FALSE /\ updateDue' = FALSE
    /\ Offline("RESET")
    /\ UNCHANGED <<sending, cmdCallback, toHead>>

\* "OK PONG ..." of a head that has restarted.
RecvPongReset ==
    /\ toHost # <<>> /\ toHost[1].type = "PONG"
    /\ "reset" \in toHost[1].er /\ stFlag # "INIT"
    /\ Incoming("PONG")
    /\ updating' = FALSE /\ updateDue' = FALSE
    /\ Offline("RESET")
    /\ UNCHANGED <<sending, cmdCallback, toHead>>

\* Mutant: leaves the queue to the next answer.
RecvPongKeeps ==
    /\ toHost # <<>> /\ toHost[1].type = "PONG"
    /\ "reset" \notin toHost[1].er \/ stFlag = "INIT"
    /\ Incoming("PONG")
    /\ updating' = FALSE /\ updateDue' = FALSE
    /\ rt' = toHost[1].rt /\ errorCode' = errorCode \cup toHost[1].er
    /\ allsetCallback' = (allsetCallback /\ ~(ext # "none" /\ Allset(toHost[1].rt)))
    /\ UNCHANGED <<stFlag, ext, want, readyCallback, cmdCallback, sending, toHead,
                   op, done, raised>>

\* Any other "OK PONG ...".  The queue is popped even while a command is out.
RecvPong ==
    /\ toHost # <<>> /\ toHost[1].type = "PONG"
    /\ "reset" \notin toHost[1].er \/ stFlag = "INIT"
    /\ Incoming("PONG")
    /\ updating' = FALSE /\ updateDue' = FALSE
    /\ rt' = toHost[1].rt /\ errorCode' = errorCode \cup toHost[1].er
    /\ \/ /\ commandQueue = <<>>
          /\ UNCHANGED <<sending, toHead, op, done, raised>>
       \/ /\ commandQueue # <<>> /\ Sendable
          /\ SendFirst(commandQueue)
          /\ UNCHANGED <<op, done, raised>>
       \/ /\ commandQueue # <<>> /\ ~Sendable
          /\ LoseFirst(commandQueue)
          /\ UNCHANGED cmdbuf
    /\ allsetCallback' =
           (allsetCallback /\ ~( /\ commandQueue = <<>> \/ Sendable
                                 /\ ext # "none" /\ Allset(toHost[1].rt) ))
    /\ UNCHANGED <<stFlag, ext, want, readyCallback, cmdCallback>>

-----------------------------------------------------------------------------
(* The head and its line (external). *)

HeadRuns == UNCHANGED <<config, session, sending, pinging, callbacks, owner>>

HeadReads(type) ==
    /\ toHead # <<>> /\ toHead[1].type = type /\ headType # "absent"
    /\ toHead' = Tail(toHead)
    /\ HeadRuns

Answer(m) == toHost' = Append(toHost, m)

HeadGreets ==
    /\ HeadReads("HELLO")
    /\ wasReset' = FALSE
    /\ Answer(HelloReply(headType))
    /\ UNCHANGED <<applied, headError, faults>>

HeadPongs ==
    /\ HeadReads("PING")
    /\ \E temp \in Reading :
           Answer(Pong((IF wasReset THEN {"reset"} ELSE {}) \cup
                       (IF headError THEN {"other"} ELSE {}), temp))
    /\ UNCHANGED <<head, faults>>

HeadObeys ==
    /\ HeadReads("CMD")
    /\ applied' = [applied EXCEPT ![toHead[1].ch] = toHead[1].v]
    /\ Answer(OK)
    /\ UNCHANGED <<wasReset, headError, faults>>

NobodyReads ==
    /\ headType = "absent" /\ toHead # <<>>
    /\ toHead' = Tail(toHead)
    /\ HeadRuns
    /\ UNCHANGED <<head, toHost, faults>>

LoseToHead ==
    /\ Fault("lose")
    /\ toHead # <<>> /\ toHead' = Tail(toHead)
    /\ HeadRuns /\ UNCHANGED <<head, toHost>>

LoseToHost ==
    /\ Fault("lose")
    /\ toHost # <<>> /\ toHost' = Tail(toHost)
    /\ HeadRuns /\ UNCHANGED <<head, toHead>>

HeadRestarts ==
    /\ Fault("reset")
    /\ ~wasReset /\ wasReset' = TRUE
    /\ applied' = Off
    /\ HeadRuns /\ UNCHANGED <<headError, wires>>

HeadRefuses ==
    /\ Fault("refuse")
    /\ HeadReads("CMD")
    /\ Answer(ER)
    /\ UNCHANGED head

\* A condition such as a tilt comes and goes.
HeadErrs ==
    /\ Fault("error")
    /\ headError' = ~headError
    /\ HeadRuns /\ UNCHANGED <<applied, wasReset, wires>>

-----------------------------------------------------------------------------
Owner ==
    \/ Bootstrap \/ Recover \/ Standby \/ Shutdown \/ Reset
    \/ (\E v \in Level : SetHeater(v) \/ SetFan(v)) \/ SetHeaterTooHot
    \/ SetCommandCallback \/ SetAllsetCallback
Patrols ==
    \/ PatrolCommand \/ PatrolPing \/ PatrolUpdate
    \/ PatrolHello \/ PatrolNoHead \/ PatrolOffline
Receive == RecvOk \/ RecvEr \/ RecvHello \/ RecvPongReset \/ RecvPong
HeadActs == HeadGreets \/ HeadPongs \/ HeadObeys \/ NobodyReads
Environment == LoseToHead \/ LoseToHost \/ HeadRestarts \/ HeadRefuses \/ HeadErrs

Next == Owner \/ Patrols \/ Elapse \/ ElapseUpdate \/ Receive \/ HeadActs \/ Environment

Spec == Init /\ [][Next]_vars

\* The event loop reads the socket and runs its timer, the clock moves, and an
\* attached head that is powered reads and answers.  Nothing makes the owner call.
Fairness ==
    /\ WF_vars(Receive) /\ WF_vars(Patrols) /\ WF_vars(HeadActs)
    /\ WF_vars(Elapse) /\ WF_vars(ElapseUpdate)

FairSpec == Spec /\ Fairness

-----------------------------------------------------------------------------
(* Safety. *)

\* What the owner relies on when its callback says that an operation is done.
\* Standby turns the fan off; of the heater it promises nothing.
Asked(ch) == CASE op = "recover" -> want[ch]
               [] op = "shutdown" \/ (op = "standby" /\ ch = "F") -> 0
               [] OTHER -> Unset

CalledBack == done /\ stFlag = "RUNNING" /\ ext = "EXTRUDER" /\ ~wasReset

\* When recover, standby or shutdown calls back, the head works at exactly the
\* settings it was asked for, although commands and answers were lost and
\* repeated, as long as no answer outlived its timeout and no bootstrap followed
\* another before it was answered.  (The heater's target after a standby is left
\* open: what do_standby sends for it is undefined.)
ConfirmedApplied ==
    faults["slow"] = 0 /\ ~overlapped /\ CalledBack =>
        \A ch \in Channel : Asked(ch) # Unset => applied[ch] = Asked(ch)

\* The setting a head that works at these ends at once it has read this line.
Settles(line, at, ch, v) ==
    LET mine == {i \in 1..Len(line) : line[i].type = "CMD" /\ line[i].ch = ch}
    IN  \/ mine = {} /\ at[ch] = v
        \/ \E i \in mine : line[i].v = v /\ \A j \in mine : j <= i

\* With nothing worse than answers that come after their timeout, and are taken
\* for the answer to another command, the callback may come early, but never
\* before every command is on its way and none of an earlier operation is behind
\* it.  (Where no head is required a late greeting may build the extension after
\* the callback, and what was asked for is then what that starts with.)
ConfirmedSettled ==
    HeadNeeded /\ FaultTotal = faults["slow"] /\ CalledBack =>
        \A ch \in Channel : Asked(ch) # Unset => Settles(toHead, applied, ch, Asked(ch))

\* Losing at most MAX_COMMAND_RETRY lines never makes a head that is attached
\* count as offline, however they are spread over commands and pings.
ToleratesLosses == "OFFLINE" \in raised => headType = "absent" \/ FaultTotal > MaxRetry

\* A job never runs on the wrong head: in session with a required type, the head
\* is of that type.
RightHead == stFlag = "RUNNING" /\ HeadNeeded => headType = required

\* tests/player/head/test_head_control_extruder.py, test_allset: an extruder that
\* was never given a target is allset at whatever temperature it reports.
FreshIsAllset ==
    Calls \cap {"set heater", "shutdown"} = {} /\ stFlag = "RUNNING" /\ rt # Unset
        => Allset(rt)

-----------------------------------------------------------------------------
(* Liveness. *)

\* A bootstrap ends: ready, or an exception.
BootEnds == stFlag = "BOOTING" ~> stFlag # "BOOTING"

\* Every operation is called back, fails, or gives way to the next call.
OpEnds ==
    \A kind \in {"recover", "standby", "shutdown", "command"} :
        op = kind /\ ~done ~> op # kind \/ done

\* A head that restarts in the middle of a session, and has forgotten its
\* settings, does not stay in it unnoticed.
ResetNoticed ==
    wasReset /\ stFlag = "RUNNING" /\ headType # "absent" ~> stFlag # "RUNNING" \/ ~wasReset
=============================================================================
