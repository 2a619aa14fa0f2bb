-------------------------- MODULE HeadControllerProofs --------------------------
(***************************************************************************)
(* Theorems about HeadController for every set of levels, retry limit and  *)
(* fault budget.                                                           *)
(***************************************************************************)
EXTENDS HeadController, SequenceTheorems, TLAPS

\* Every greeting on its way was sent by what is attached.
Greetings ==
    \A i \in 1..Len(toHost) : toHost[i].type = "HELLO" => toHost[i].head = headType

\* A required type has its extension from the start, and keeps it.
ExtFits == HeadNeeded => ext = required

-----------------------------------------------------------------------------
(* The line as one queue. *)

\* What is on its way, oldest first, by what it is about.
Classes == {"greeting", "command", "refusal", "ping"}
Class(m) == CASE m.type = "HELLO" -> "greeting"
              [] m.type \in {"CMD", "OK"} -> "command"
              [] m.type = "ER" -> "refusal"
              [] OTHER -> "ping"
PipeOf(host, line) ==
    [k \in 1..(Len(host) + Len(line)) |->
        IF k <= Len(host) THEN Class(host[k]) ELSE Class(line[k - Len(host)])]
Pipe == PipeOf(toHost, toHead)

\* s without its i-th element.
Without(s, i) == [k \in 1..(Len(s) - 1) |-> IF k < i THEN s[k] ELSE s[k + 1]]

Has(s, c) == \E k \in 1..Len(s) : s[k] = c
InFlight(c) == Has(Pipe, c)

-----------------------------------------------------------------------------
(* The invariants behind ToleratesLosses. *)

\* What the controller waits for, and for which nothing is on its way any more.
Awaited(c) == CASE c = "greeting" -> stFlag = "BOOTING"
                [] c = "command" -> cmdbuf # NoCmd
                [] c = "ping" -> updating
                [] OTHER -> FALSE
Missing(c) == Awaited(c) /\ ~InFlight(c)
One(b) == IF b THEN 1 ELSE 0
Lost == One(Missing("greeting")) + One(Missing("command")) + One(Missing("ping"))

\* Every repetition, and every answer that will not come, has a fault of its own ...
Budget == headType # "absent" => sendRetry + Lost <= FaultTotal

\* ... and so has a timeout with something still on its way.
Spent ==
    headType # "absent" /\ expired /\ Pipe # <<>> /\ (\E c \in Classes : Awaited(c))
        => sendRetry + Lost < FaultTotal

-----------------------------------------------------------------------------
(* The invariants behind ConfirmedApplied. *)

Timely == faults["slow"] = 0 /\ ~overlapped

\* One command or its answer is on its way, and behind a greeting only pings.
Work == {"command", "refusal"}
OrderlyQueue(s) ==
    \A i, j \in 1..Len(s) :
        i < j => ~(s[i] \in Work /\ s[j] \in Work) /\ (s[i] = "greeting" => s[j] = "ping")
Orderly == OrderlyQueue(Pipe)

\* A timeout means that nothing is on its way.
Quiet == expired => Pipe = <<>>

\* No session while it is greeted, and no command from the bootstrap on; in a
\* session a command on its way is the one in the buffer.
Unopened ==
    /\ InFlight("greeting") => stFlag # "RUNNING" /\ cmdbuf = NoCmd
    /\ stFlag = "BOOTING" => cmdbuf = NoCmd
Idle == stFlag = "RUNNING" /\ cmdbuf = NoCmd => ~InFlight("command") /\ ~InFlight("refusal")
Answered ==
    cmdbuf # NoCmd =>
        /\ \A i \in 1..Len(toHead) : toHead[i].type = "CMD" => toHead[i] = cmdbuf
        /\ (\E i \in 1..Len(toHost) : toHost[i].type = "OK") =>
               wasReset \/ applied[cmdbuf.ch] = cmdbuf.v

LineInOrder == Orderly /\ Quiet /\ Unopened /\ Idle

Operations == {"recover", "standby", "shutdown"}
InSession == op \in Operations => stFlag = "RUNNING"

\* The setting a channel ends at once the queue and the buffer are empty.
Mentions(q, ch) == \E i \in 1..Len(q) : q[i].ch = ch
LastOf(q, ch, v) ==
    \E i \in 1..Len(q) :
        q[i].ch = ch /\ q[i].v = v /\ \A j \in 1..Len(q) : j > i => q[j].ch # ch
Ends(q, buf, at, ch, v) ==
    \/ LastOf(q, ch, v)
    \/ ~Mentions(q, ch) /\ v = IF buf # NoCmd /\ buf.ch = ch THEN buf.v ELSE at[ch]

\* An operation that has not failed brings every channel to what was asked for, and
\* is called back when nothing is left of it.
Underway ==
    op \in Operations /\ ext = "EXTRUDER" /\ ~wasReset =>
        \A ch \in Channel :
            Asked(ch) # Unset => Ends(commandQueue, cmdbuf, applied, ch, Asked(ch))
Finished ==
    op \in Operations /\ ext = "EXTRUDER" /\ done =>
        \/ \A ch \in Channel : Asked(ch) = Unset
        \/ commandQueue = <<>> /\ cmdbuf = NoCmd

Promise == InSession /\ Underway /\ Finished

Session == Timely => LineInOrder /\ Answered /\ Promise

-----------------------------------------------------------------------------
(* The invariants behind ConfirmedSettled. *)

OnlySlow == HeadNeeded /\ \A kind \in AllHeadFaults \ {"slow"} : faults[kind] = 0

\* The buffered command is the last that was sent for its channel, ...
Latest ==
    cmdbuf # NoCmd =>
        headType # "absent" /\ Settles(toHead, applied, cmdbuf.ch, cmdbuf.v)

\* ... an operation that has not failed has the last word on every channel, in the
\* queue or on the line, and is not called back with commands in the queue.
Arrives(q, line, at, ch, v) ==
    LastOf(q, ch, v) \/ (~Mentions(q, ch) /\ Settles(line, at, ch, v))
Coming ==
    op \in Operations /\ ext = "EXTRUDER" =>
        \A ch \in Channel :
            Asked(ch) # Unset => Arrives(commandQueue, toHead, applied, ch, Asked(ch))
Drained ==
    op \in Operations /\ ext = "EXTRUDER" /\ done =>
        (\A ch \in Channel : Asked(ch) = Unset) \/ commandQueue = <<>>

OnItsWay == InSession /\ Coming /\ Drained

Course == OnlySlow => Latest /\ OnItsWay

-----------------------------------------------------------------------------
IInv ==
    /\ TypeOK /\ Greetings /\ ExtFits /\ RightHead
    /\ Budget /\ Spent /\ ToleratesLosses
    /\ Session /\ Course

-----------------------------------------------------------------------------
(* Typing of the parts that actions share. *)

\* Commands are lines, and no command is the absence of one.
LEMMA Lines ==
    /\ Commands \subseteq ToHeadLines /\ Hello \in ToHeadLines /\ Ping \in ToHeadLines
    /\ NoCmd \notin Commands
    /\ \A ch \in Channel, v \in Level : Cmd(ch, v) \in Commands
  BY DEF ToHeadLines, Commands, NoCmd, Cmd, Hello, Ping

\* Appending to and removing from a typed queue.
LEMMA QueueTypes ==
    ASSUME NEW S, NEW s \in Seq(S)
    PROVE  /\ \A e \in S : Append(s, e) \in Seq(S)
           /\ s # <<>> => s[1] \in S /\ Tail(s) \in Seq(S)
  OBVIOUS

\* What is said is a line.
LEMMA SayType ==
    ASSUME TypeOK, NEW m \in ToHeadLines, Say(m)
    PROVE  toHead' \in Seq(ToHeadLines) /\ expired' = FALSE
  BY QueueTypes DEF TypeOK, SendingType, Say

\* Sending the head of a typed queue keeps the types.
LEMMA SendFirstType ==
    ASSUME TypeOK, NEW queue \in Seq(Commands), queue # <<>>, SendFirst(queue)
    PROVE  /\ cmdbuf' \in Commands \cup {NoCmd} /\ commandQueue' \in Seq(Commands)
           /\ toHead' \in Seq(ToHeadLines) /\ expired' \in BOOLEAN
           /\ sendRetry' \in 0..MaxRetry
  <1>1. queue[1] \in Commands /\ Tail(queue) \in Seq(Commands)
    BY QueueTypes
  <1>2. toHead' \in Seq(ToHeadLines)
    BY <1>1, Lines, QueueTypes DEF TypeOK, SendingType, SendFirst
  <1> QED
    BY <1>1, <1>2 DEF TypeOK, SendingType, SendFirst

\* So does losing it.
LEMMA LoseFirstType ==
    ASSUME TypeOK, NEW queue \in Seq(Commands), queue # <<>>, LoseFirst(queue)
    PROVE  /\ commandQueue' \in Seq(Commands)
           /\ toHead' \in Seq(ToHeadLines) /\ expired' \in BOOLEAN
           /\ sendRetry' \in 0..MaxRetry
           /\ raised' \subseteq Exceptions
           /\ op' = "failed" /\ done' = FALSE
  BY QueueTypes DEF TypeOK, SendingType, LoseFirst, Raise, Exceptions

\* The commands that restore a setting.
LEMMA RestoringType ==
    ASSUME NEW setting \in [Channel -> Setting]
    PROVE  CommandsFor(setting) \in Seq(Commands)
  <1>1. ASSUME NEW ch \in Channel
        PROVE  (IF setting[ch] = Unset THEN <<>> ELSE <<Cmd(ch, setting[ch])>>) \in Seq(Commands)
    BY Lines DEF Setting
  <1>2. Restoring(setting) \in Seq(Commands)
    BY <1>1 DEF Restoring, Channel
  <1> QED
    BY <1>2 DEF CommandsFor

\* The settings an extension starts with.
LEMMA FreshType ==
    /\ Off \in [Channel -> Level] /\ Off \in [Channel -> Setting]
    /\ Nothing \in [Channel -> Setting]
    /\ \A kind : Fresh(kind) \subseteq [Channel -> Setting]
  BY HeadConstants DEF Off, Nothing, Fresh, Setting, Channel

\* The setting a standby asks for, whatever target it sends.
LEMMA OffType ==
    ASSUME NEW t \in Level
    PROVE  /\ OffUndefined(t) \in [Channel -> Setting]
           /\ OffUndefined(t)["F"] = 0 /\ 0 # Unset
  BY FreshType, HeadConstants DEF OffUndefined, Off, Setting, Channel

\* What recover, standby and shutdown share.
LEMMA EnqueuedType ==
    ASSUME TypeOK, NEW kind \in {"recover", "standby", "shutdown"},
           NEW queue \in Seq(Commands), Enqueued(kind, queue)
    PROVE  /\ cmdbuf' \in Commands \cup {NoCmd} /\ commandQueue' \in Seq(Commands)
           /\ toHead' \in Seq(ToHeadLines) /\ expired' \in BOOLEAN
           /\ sendRetry' \in 0..MaxRetry
           /\ cmdCallback' \in {"none", "recover", "standby", "shutdown", "command"}
           /\ op' \in {"failed", "recover", "standby", "shutdown"}
           /\ done' \in BOOLEAN
           /\ raised' \subseteq Exceptions
  <1>1. CASE queue = <<>> /\ UNCHANGED <<sending, toHead, cmdCallback, raised>>
             /\ op' = kind /\ done' = TRUE
    BY <1>1 DEF TypeOK, SendingType, sending
  <1>2. CASE queue # <<>> /\ cmdCallback' = kind /\ commandQueue' = queue
             /\ op' = kind /\ done' = FALSE
             /\ UNCHANGED <<cmdbuf, sendRetry, expired, toHead, raised>>
    BY <1>2 DEF TypeOK, SendingType
  <1>3. CASE queue # <<>> /\ cmdCallback' = kind /\ SendFirst(queue)
             /\ op' = kind /\ done' = FALSE /\ UNCHANGED raised
    BY <1>3, SendFirstType DEF TypeOK, SendingType
  <1>4. CASE queue # <<>> /\ cmdCallback' = kind /\ LoseFirst(queue) /\ UNCHANGED cmdbuf
    BY <1>4, LoseFirstType DEF TypeOK, SendingType
  <1> QED
    BY <1>1, <1>2, <1>3, <1>4 DEF Enqueued

-----------------------------------------------------------------------------
(* Type correctness of each kind of step. *)

\* The operations of the owner.
LEMMA OwnerType ==
    ASSUME TypeOK, Owner
    PROVE  SessionType' /\ SendingType'
  <1> USE QueueTypes, Lines, FreshType, HeadConstants DEF TypeOK, Call, Exceptions
  <1>1. CASE Bootstrap
    <2>1. SessionType'
      BY <1>1 DEF Bootstrap, SessionType, config, head, pinging
    <2>2. SendingType'
      <3>1. toHead' \in Seq(ToHeadLines) /\ expired' = FALSE
        BY <1>1, SayType DEF Bootstrap
      <3>2. sendRetry' \in 0..MaxRetry
        BY <1>1 DEF Bootstrap
      <3>3. <<>> \in Seq(Commands)
        OBVIOUS
      <3> QED
        BY <1>1, <3>1, <3>2, <3>3 DEF Bootstrap, SendingType
    <2> QED
      BY <2>1, <2>2
  <1>2. CASE Recover
    <2>1. commandQueue \o CommandsFor(want) \in Seq(Commands)
      BY RestoringType DEF SessionType, SendingType
    <2>2. SessionType'
      BY <1>2 DEF Recover, SessionType, config, head, session, pinging
    <2>3. SendingType'
      BY <1>2, <2>1, EnqueuedType DEF Recover, SendingType
    <2> QED
      BY <2>2, <2>3
  <1>3. CASE Standby
    <2>1. PICK t \in Level : Enqueued("standby", commandQueue \o CommandsFor(OffUndefined(t)))
      BY <1>3 DEF Standby
    <2>2. SessionType'
      BY <1>3 DEF Standby, SessionType, config, head, session, pinging
    <2>3. commandQueue \o CommandsFor(OffUndefined(t)) \in Seq(Commands)
      BY RestoringType, OffType DEF SessionType, SendingType
    <2>4. SendingType'
      BY <1>3, <2>1, <2>3, EnqueuedType DEF Standby, SendingType
    <2> QED
      BY <2>2, <2>4
  <1>4. CASE Shutdown
    <2>1. commandQueue \o CommandsFor(Off) \in Seq(Commands)
      BY RestoringType DEF SessionType, SendingType
    <2>2. SessionType'
      BY <1>4 DEF Shutdown, SessionType, config, head, session, pinging
    <2>3. SendingType'
      BY <1>4, <2>1, EnqueuedType DEF Shutdown, SendingType
    <2> QED
      BY <2>2, <2>3
  <1>5. CASE Reset
    <2>1. SessionType'
      BY <1>5 DEF Reset, EndSession, SessionType, config, head, pinging
    <2>2. SendingType'
      BY <1>5 DEF Reset, SendingType, sending
    <2> QED
      BY <2>1, <2>2
  <1>6. ASSUME NEW v \in Level, SetHeater(v) \/ SetFan(v)
        PROVE  SessionType' /\ SendingType'
    <2>1. \E ch \in Channel, r \in Setting, name \in AllCalls : Call(name) /\ Set(ch, v, r)
      BY <1>6 DEF SetHeater, SetFan, Channel, Setting, AllCalls
    <2>2. PICK ch \in Channel, r \in Setting, name \in AllCalls : Call(name) /\ Set(ch, v, r)
      BY <2>1
    <2>3. SessionType'
      BY <1>6, <2>2 DEF Set, SessionType, config, head, pinging, callbacks
    <2>4. SendingType'
      <3>1. Cmd(ch, v) \in Commands /\ Cmd(ch, v) \in ToHeadLines
        BY <1>6
      <3>2. CASE Sendable /\ cmdbuf' = Cmd(ch, v) /\ Say(Cmd(ch, v))
                 /\ op' = "none" /\ done' = FALSE /\ UNCHANGED raised
        BY <2>2, <3>1, <3>2, SayType DEF Set, SendingType, callbacks
      <3>3. CASE Raise("BUSY") /\ UNCHANGED <<cmdbuf, toHead, expired>>
        BY <2>2, <3>3 DEF Set, Raise, SendingType, callbacks
      <3> QED
        BY <2>2, <3>2, <3>3 DEF Set
    <2> QED
      BY <2>3, <2>4
  <1>7. CASE SetCommandCallback
    <2>1. SessionType'
      BY <1>7 DEF SetCommandCallback, SessionType, config, head, session, pinging
    <2>2. SendingType'
      BY <1>7 DEF SetCommandCallback, SendingType, sending
    <2> QED
      BY <2>1, <2>2
  <1>8. CASE SetAllsetCallback
    <2>1. SessionType'
      BY <1>8 DEF SetAllsetCallback, SessionType, config, head, session, pinging
    <2>2. SendingType'
      BY <1>8 DEF SetAllsetCallback, SendingType, sending
    <2> QED
      BY <2>1, <2>2
  <1>9. CASE SetHeaterTooHot
    <2>1. SessionType'
      BY <1>9 DEF SetHeaterTooHot, SessionType, config, head, session, pinging, callbacks
    <2>2. SendingType'
      BY <1>9 DEF SetHeaterTooHot, Raise, SendingType, sending, callbacks
    <2> QED
      BY <2>1, <2>2
  <1> QED
    BY <1>1, <1>2, <1>3, <1>4, <1>5, <1>6, <1>7, <1>8, <1>9 DEF Owner

\* The timer.
LEMMA PatrolsType ==
    ASSUME TypeOK, Patrols
    PROVE  SessionType' /\ SendingType'
  <1> USE QueueTypes, Lines, FreshType, HeadConstants DEF TypeOK, Patrol, Exceptions
  <1>1. ASSUME NEW m \in ToHeadLines, Retry(m), Patrol
        PROVE  SessionType' /\ SendingType'
    <2>1. SessionType'
      BY <1>1 DEF Retry, SessionType, config, head, session, pinging, callbacks
    <2>2. SendingType'
      <3>1. toHead' \in Seq(ToHeadLines) /\ expired' = FALSE
        BY <1>1, SayType DEF Retry
      <3>2. sendRetry' \in 0..MaxRetry
        BY <1>1 DEF Retry, SendingType
      <3> QED
        BY <1>1, <3>1, <3>2 DEF Retry, SendingType, callbacks
    <2> QED
      BY <2>1, <2>2
  <1>2. CASE PatrolCommand
    BY <1>1, <1>2 DEF PatrolCommand, SendingType
  <1>3. CASE PatrolPing \/ PatrolHello
    BY <1>1, <1>3 DEF PatrolPing, PatrolHello
  <1>4. CASE PatrolUpdate
    <2>1. SessionType'
      BY <1>4 DEF PatrolUpdate, SessionType, config, head, session, callbacks
    <2>2. SendingType'
      <3>1. toHead' \in Seq(ToHeadLines) /\ expired' = FALSE
        BY <1>4, SayType DEF PatrolUpdate
      <3>2. sendRetry' \in 0..MaxRetry
        BY <1>4 DEF PatrolUpdate
      <3> QED
        BY <1>4, <3>1, <3>2 DEF PatrolUpdate, SendingType, callbacks
    <2> QED
      BY <2>1, <2>2
  <1>5. CASE PatrolNoHead
    <2>1. SessionType'
      BY <1>5 DEF PatrolNoHead, OnReady, SessionType, config, head, pinging
    <2>2. SendingType'
      BY <1>5 DEF PatrolNoHead, SendingType, sending
    <2> QED
      BY <2>1, <2>2
  <1>6. CASE PatrolOffline
    <2>1. SessionType'
      BY <1>6 DEF PatrolOffline, Offline, EndSession, SessionType, config, head,
          pinging
    <2>2. SendingType'
      BY <1>6 DEF PatrolOffline, Offline, Raise, SendingType, sending
    <2> QED
      BY <2>1, <2>2
  <1> QED
    BY <1>2, <1>3, <1>4, <1>5, <1>6 DEF Patrols

\* The handlers.
LEMMA ReceiveType ==
    ASSUME TypeOK, Receive
    PROVE  SessionType' /\ SendingType'
  <1> USE QueueTypes, Lines, FreshType, HeadConstants DEF TypeOK, Exceptions
  <1>0. ASSUME NEW type, Incoming(type)
        PROVE  toHost[1] \in ToHostLines /\ toHost' \in Seq(ToHostLines)
    BY <1>0 DEF Incoming, SessionType
  <1>1. CASE RecvOk
    <2>1. SessionType'
      BY <1>0, <1>1 DEF RecvOk, Incoming, SessionType, config, head, session, pinging
    <2>2. SendingType'
      <3>1. CASE commandQueue # <<>> /\ SendFirst(commandQueue)
                 /\ UNCHANGED <<cmdCallback, op, done, raised>>
        BY <1>1, <3>1, SendFirstType DEF RecvOk, Incoming, SendingType
      <3>2. CASE commandQueue # <<>> /\ cmdbuf' = NoCmd /\ LoseFirst(commandQueue)
                 /\ UNCHANGED cmdCallback
        BY <1>1, <3>2, LoseFirstType DEF RecvOk, Incoming, SendingType
      <3>3. CASE commandQueue = <<>>
        <4>1. done' \in BOOLEAN
          BY <1>1, <3>3 DEF RecvOk, SendingType
        <4>2. /\ UNCHANGED <<commandQueue, sendRetry, expired, toHead, op, raised, overlapped>>
              /\ cmdbuf' = NoCmd /\ cmdCallback' = "none"
          BY <1>1, <3>3 DEF RecvOk, Incoming
        <4> QED
          BY <4>1, <4>2 DEF SendingType
      <3> QED
        BY <1>1, <3>1, <3>2, <3>3 DEF RecvOk
    <2> QED
      BY <2>1, <2>2
  <1>2. CASE RecvEr
    <2>1. SessionType'
      BY <1>2, <1>0 DEF RecvEr, Incoming, SessionType, config, head, session,
          pinging, callbacks
    <2>2. SendingType'
      BY <1>2 DEF RecvEr, Raise, Incoming, SendingType, sending, callbacks
    <2> QED
      BY <2>1, <2>2
  <1>3. CASE RecvHello
    <2>1. toHost[1].head \in HeadTypes
      BY <1>0, <1>3 DEF RecvHello, Incoming, ToHostLines, OK, ER
    <2>2. SessionType'
      BY ZenonT(60), <1>3, <1>0, <2>1 DEF RecvHello, OnReady, Incoming, SessionType, HeadTypes,
          config, head, pinging
    <2>3. SendingType'
      BY <1>3 DEF RecvHello, Raise, Incoming, SendingType, sending
    <2> QED
      BY <2>2, <2>3
  <1>4. CASE RecvPongReset
    <2>1. SessionType'
      BY <1>4, <1>0 DEF RecvPongReset, Offline, EndSession, Incoming, SessionType,
          config, head
    <2>2. SendingType'
      BY <1>4 DEF RecvPongReset, Offline, Raise, Incoming, SendingType, sending
    <2> QED
      BY <2>1, <2>2
  <1>5. CASE RecvPong
    <2>1. toHost[1].er \subseteq {"reset", "other"} /\ toHost[1].rt \in Reading
      BY <1>0, <1>5 DEF RecvPong, Incoming, ToHostLines, OK, ER
    <2>2. SessionType'
      BY <1>0, <1>5, <2>1 DEF RecvPong, Incoming, SessionType, config, head
    <2>3. SendingType'
      <3>1. CASE UNCHANGED <<sending, toHead, op, done, raised>>
        BY <1>5, <3>1 DEF RecvPong, Incoming, SendingType, sending
      <3>2. CASE commandQueue # <<>> /\ SendFirst(commandQueue) /\ UNCHANGED <<op, done, raised>>
        BY <1>5, <3>2, SendFirstType DEF RecvPong, Incoming, SendingType
      <3>3. CASE commandQueue # <<>> /\ LoseFirst(commandQueue) /\ UNCHANGED cmdbuf
        BY <1>5, <3>3, LoseFirstType DEF RecvPong, Incoming, SendingType
      <3> QED
        BY <1>5, <3>1, <3>2, <3>3 DEF RecvPong
    <2> QED
      BY <2>2, <2>3
  <1> QED
    BY <1>1, <1>2, <1>3, <1>4, <1>5 DEF Receive

\* The head and its line.
LEMMA HeadActsType ==
    ASSUME TypeOK, HeadActs \/ Environment
    PROVE  SessionType' /\ SendingType'
  <1> USE QueueTypes, Lines, HeadConstants DEF TypeOK, HeadRuns
  <1>1. CASE HeadGreets
    <2>1. headType \in HeadTypes
      BY <1>1 DEF HeadGreets, HeadReads, SessionType
    <2>2. SessionType'
      BY <1>1, <2>1 DEF HeadGreets, HeadReads, Answer, HelloReply, ToHostLines,
          SessionType, config, session, pinging, callbacks
    <2>3. SendingType'
      BY <1>1 DEF HeadGreets, HeadReads, SendingType, sending, callbacks, owner
    <2> QED
      BY <2>2, <2>3
  <1>2. CASE HeadPongs
    <2>1. SessionType'
      BY <1>2 DEF HeadPongs, HeadReads, Answer, Pong, ToHostLines, SessionType,
          head, config, session, pinging, callbacks
    <2>2. SendingType'
      BY <1>2 DEF HeadPongs, HeadReads, SendingType, sending, callbacks, owner
    <2> QED
      BY <2>1, <2>2
  <1>3. CASE HeadObeys
    <2>1. toHead[1] \in ToHeadLines
      BY <1>3 DEF HeadObeys, HeadReads, SendingType
    <2>2. toHead[1].ch \in Channel /\ toHead[1].v \in Level
      BY <1>3, <2>1 DEF HeadObeys, HeadReads, ToHeadLines, Commands, Hello, Ping
    <2>3. SessionType'
      BY <1>3, <2>2 DEF HeadObeys, HeadReads, Answer, OK, ToHostLines, SessionType,
          config, session, pinging, callbacks
    <2>4. SendingType'
      BY <1>3 DEF HeadObeys, HeadReads, SendingType, sending, callbacks, owner
    <2> QED
      BY <2>3, <2>4
  <1>4. CASE NobodyReads
    <2>1. SessionType'
      BY <1>4 DEF NobodyReads, SessionType, head, config, session, pinging,
          callbacks
    <2>2. SendingType'
      BY <1>4 DEF NobodyReads, SendingType, sending, callbacks, owner
    <2> QED
      BY <2>1, <2>2
  <1>5. CASE LoseToHead
    <2>1. SessionType'
      BY <1>5 DEF LoseToHead, head, SessionType, config, session, pinging,
          callbacks
    <2>2. SendingType'
      BY <1>5 DEF LoseToHead, SendingType, sending, callbacks, owner
    <2> QED
      BY <2>1, <2>2
  <1>6. CASE LoseToHost
    <2>1. SessionType'
      BY <1>6 DEF LoseToHost, head, SessionType, config, session, pinging,
          callbacks
    <2>2. SendingType'
      BY <1>6 DEF LoseToHost, SendingType, sending, callbacks, owner
    <2> QED
      BY <2>1, <2>2
  <1>7. CASE HeadRestarts
    <2>1. SessionType'
      BY <1>7, FreshType DEF HeadRestarts, wires, SessionType, config, session, pinging,
          callbacks
    <2>2. SendingType'
      BY <1>7 DEF HeadRestarts, wires, SendingType, sending, callbacks, owner
    <2> QED
      BY <2>1, <2>2
  <1>8. CASE HeadErrs
    <2>1. SessionType'
      BY <1>8 DEF HeadErrs, wires, SessionType, config, session, pinging,
          callbacks
    <2>2. SendingType'
      BY <1>8 DEF HeadErrs, wires, SendingType, sending, callbacks, owner
    <2> QED
      BY <2>1, <2>2
  <1>9. CASE HeadRefuses
    <2>1. SessionType'
      BY <1>9 DEF HeadRefuses, HeadReads, Fault, Answer, ER, ToHostLines,
          SessionType, head, config, session, pinging, callbacks
    <2>2. SendingType'
      BY <1>9 DEF HeadRefuses, HeadReads, SendingType, sending, callbacks, owner
    <2> QED
      BY <2>1, <2>2
  <1> QED
    BY <1>1, <1>2, <1>3, <1>4, <1>5, <1>6, <1>7, <1>8, <1>9 DEF HeadActs, Environment

\* The bounded counters.
LEMMA CountStep ==
    ASSUME TypeOK, [Next]_vars
    PROVE  CountType'
  <1>1. UNCHANGED calls \/ calls' = calls + 1
    BY DEF Next, Owner, Bootstrap, Recover, Standby, Shutdown, Reset, SetHeater, SetHeaterTooHot, SetFan,
           SetCommandCallback, SetAllsetCallback, Call, Patrols, PatrolCommand, PatrolPing,
           PatrolUpdate, PatrolHello, PatrolNoHead, PatrolOffline, Patrol, Elapse,
           ElapseUpdate, Receive, RecvOk, RecvEr, RecvHello, RecvPongReset, RecvPong,
           Incoming, HeadActs, HeadGreets, HeadPongs, HeadObeys, NobodyReads, HeadReads,
           HeadRuns, Environment, LoseToHead, LoseToHost, HeadRestarts, HeadRefuses,
           HeadErrs, owner, vars
  <1>2. UNCHANGED faults \/ \E kind \in AllHeadFaults : faults' = [faults EXCEPT ![kind] = @ + 1]
    BY DEF Next, Owner, Bootstrap, Recover, Standby, Shutdown, Reset, SetHeater, SetHeaterTooHot, SetFan,
           SetCommandCallback, SetAllsetCallback, Call, Patrols, PatrolCommand, PatrolPing,
           PatrolUpdate, PatrolHello, PatrolNoHead, PatrolOffline, Patrol, Elapse,
           ElapseUpdate, Receive, RecvOk, RecvEr, RecvHello, RecvPongReset, RecvPong,
           Incoming, HeadActs, HeadGreets, HeadPongs, HeadObeys, NobodyReads,
           Environment, LoseToHead, LoseToHost, HeadRestarts, HeadRefuses,
           HeadErrs, Fault, vars, AllHeadFaults
  <1>3. calls + 1 \in Nat /\ faults' \in [AllHeadFaults -> Nat]
    BY <1>2 DEF TypeOK, CountType
  <1> QED
    BY <1>1, <1>2, <1>3 DEF TypeOK, CountType

\* Every step keeps the types.
LEMMA TypeStep ==
    ASSUME TypeOK, [Next]_vars
    PROVE  TypeOK'
  <1>1. CASE Elapse \/ ElapseUpdate \/ UNCHANGED vars
    <2>1. SessionType'
      <3>1. CASE Elapse
        BY <3>1 DEF Elapse, SessionType, TypeOK, head, wires, config, session, pinging, callbacks
      <3>2. CASE ElapseUpdate
        BY <3>2 DEF ElapseUpdate, SessionType, TypeOK, head, wires, config, session, callbacks
      <3>3. CASE UNCHANGED vars
        BY <3>3 DEF vars, SessionType, TypeOK, head, wires, config, session, pinging, callbacks
      <3> QED
        BY <1>1, <3>1, <3>2, <3>3
    <2>2. SendingType'
      BY ZenonT(60), <1>1 DEF Elapse, ElapseUpdate, SendingType, TypeOK, vars, wires, sending,
          callbacks, owner
    <2> QED
      BY <2>1, <2>2, CountStep DEF TypeOK
  <1>2. CASE Next /\ ~Elapse /\ ~ElapseUpdate
    BY <1>2, CountStep, OwnerType, PatrolsType, ReceiveType, HeadActsType DEF Next, TypeOK
  <1> QED
    BY <1>1, <1>2

-----------------------------------------------------------------------------
(* The right head. *)

\* Only a bootstrap and a greeting change the session's start, and a greeting on
\* its way stays the one that was sent.
LEMMA GreetingsStep ==
    ASSUME TypeOK, Greetings, [Next]_vars
    PROVE  Greetings'
  <1>1. CASE UNCHANGED <<toHost, headType>>
    BY <1>1 DEF Greetings
  <1>2. CASE toHost # <<>> /\ toHost' = Tail(toHost) /\ UNCHANGED headType
    <2>1. \A i \in 1..Len(toHost') : i + 1 \in 1..Len(toHost) /\ toHost'[i] = toHost[i+1]
      BY <1>2 DEF TypeOK, SessionType
    <2> QED
      BY <1>2, <2>1 DEF Greetings
  <1>3. ASSUME NEW m, toHost' = Append(toHost, m), UNCHANGED headType,
               m.type = "HELLO" => m.head = headType
        PROVE  Greetings'
    <2>1. \A i \in 1..Len(toHost') : (i \in 1..Len(toHost) /\ toHost'[i] = toHost[i])
                                     \/ toHost'[i] = m
      BY <1>3 DEF TypeOK, SessionType
    <2> QED
      BY <1>3, <2>1 DEF Greetings
  <1>4. CASE Receive
    BY <1>2, <1>4 DEF Receive, RecvOk, RecvEr, RecvHello, RecvPongReset, RecvPong, Incoming,
                      config
  <1>5. CASE HeadActs \/ HeadRefuses
    BY <1>1, <1>3, <1>5 DEF HeadActs, HeadGreets, HeadPongs, HeadObeys, HeadRefuses,
                            NobodyReads, HeadReads, HeadRuns, Answer, HelloReply, Pong, OK,
                            ER, config
  <1>6. CASE LoseToHost
    BY <1>2, <1>6 DEF LoseToHost, HeadRuns, config
  <1>7. CASE Owner
    BY <1>1, <1>7 DEF Owner, Bootstrap, Recover, Standby, Shutdown, Reset, SetHeater, SetHeaterTooHot, SetFan,
                      SetCommandCallback, SetAllsetCallback, Call, config
  <1>8. CASE Patrols
    BY <1>1, <1>8 DEF Patrols, PatrolCommand, PatrolPing, PatrolUpdate, PatrolHello,
                      PatrolNoHead, PatrolOffline, Patrol, config
  <1>9. CASE Elapse \/ ElapseUpdate \/ LoseToHead \/ HeadRestarts \/ HeadErrs \/ UNCHANGED vars
    BY <1>1, <1>9 DEF Elapse, ElapseUpdate, LoseToHead, HeadRestarts, HeadErrs, HeadRuns,
                      vars, wires, config
  <1> QED
    BY <1>4, <1>5, <1>6, <1>7, <1>8, <1>9 DEF Next, Environment

\* The extension of a required type stays, and a session starts only with a
\* greeting it accepts.
LEMMA RightHeadStep ==
    ASSUME IInv, [Next]_vars
    PROVE  ExtFits' /\ RightHead'
  <1> USE DEF IInv, ExtFits, RightHead, HeadNeeded
  <1>0. required \in {"any", "N/A", "EXTRUDER", "LASER"}
    BY HeadConstants DEF TypeOK, SessionType
  <1>1. CASE UNCHANGED <<required, headType, ext, stFlag>>
    BY <1>1
  <1>2. ASSUME EndSession, UNCHANGED config
        PROVE  ExtFits' /\ RightHead'
    BY <1>0, <1>2 DEF EndSession, config
  <1>3. CASE RecvHello
    <2>1. toHost[1].head = headType
      <3>1. 1 \in 1..Len(toHost)
        BY <1>3 DEF RecvHello, Incoming, TypeOK, SessionType
      <3> QED
        BY <1>3, <3>1 DEF RecvHello, Incoming, Greetings
    <2> QED
      BY <1>0, <1>3, <2>1 DEF RecvHello, Incoming, OnReady, config
  <1>4. CASE Bootstrap
    BY <1>4 DEF Bootstrap, Call, config
  <1>5. CASE PatrolNoHead
    BY <1>5 DEF PatrolNoHead, Patrol, OnReady, config
  <1>6. CASE Reset \/ PatrolOffline \/ RecvPongReset
    BY <1>2, <1>6 DEF Reset, Call, PatrolOffline, Patrol, RecvPongReset, Incoming, Offline
  <1>7. CASE Owner /\ ~Bootstrap /\ ~Reset
    BY <1>1, <1>7 DEF Owner, Recover, Standby, Shutdown, SetHeater, SetHeaterTooHot, SetFan, Set,
                      SetCommandCallback, SetAllsetCallback, Call, config, session
  <1>8. CASE PatrolCommand \/ PatrolPing \/ PatrolUpdate \/ PatrolHello
    BY <1>1, <1>8 DEF PatrolCommand, PatrolPing, PatrolUpdate, PatrolHello, Retry, Patrol,
                      config, session
  <1>9. CASE RecvOk \/ RecvEr \/ RecvPong
    BY <1>1, <1>9 DEF RecvOk, RecvEr, RecvPong, Incoming, config, session
  <1>10. CASE HeadActs \/ Environment
    BY <1>1, <1>10 DEF HeadActs, HeadGreets, HeadPongs, HeadObeys, NobodyReads, HeadReads,
                       Environment, LoseToHead, LoseToHost, HeadRestarts, HeadRefuses,
                       HeadErrs, HeadRuns, config, session
  <1>11. CASE Elapse \/ ElapseUpdate \/ UNCHANGED vars
    BY <1>1, <1>11 DEF Elapse, ElapseUpdate, vars, config, session
  <1> QED
    BY <1>3, <1>4, <1>5, <1>6, <1>7, <1>8, <1>9, <1>10, <1>11 DEF Next, Patrols, Receive

-----------------------------------------------------------------------------
(* The line as one queue. *)

\* The classes of the lines.
LEMMA ClassOf ==
    /\ Class(Hello) = "greeting" /\ Class(Ping) = "ping"
    /\ \A m \in Commands : Class(m) = "command" /\ m.type = "CMD"
    /\ Class(OK) = "command" /\ Class(ER) = "refusal"
    /\ \A t : Class(HelloReply(t)) = "greeting"
    /\ \A er, temp : Class(Pong(er, temp)) = "ping"
    /\ \A m : Class(m) \in Classes
  BY DEF Class, Classes, Hello, Ping, Commands, OK, ER, HelloReply, Pong

LEMMA PipeType ==
    ASSUME NEW h \in Seq(ToHostLines), NEW l \in Seq(ToHeadLines)
    PROVE  PipeOf(h, l) \in Seq(Classes) /\ Len(PipeOf(h, l)) = Len(h) + Len(l)
  <1> DEFINE n == Len(h) + Len(l)
  <1>1. n \in Nat
    OBVIOUS
  <1>2. \A k \in 1..n : (IF k <= Len(h) THEN Class(h[k]) ELSE Class(l[k - Len(h)])) \in Classes
    BY ClassOf
  <1>3. PipeOf(h, l) = [k \in 1..n |->
            IF k <= Len(h) THEN Class(h[k]) ELSE Class(l[k - Len(h)])]
    BY DEF PipeOf
  <1> HIDE DEF n
  <1>4. PipeOf(h, l) \in Seq(Classes) /\ Len(PipeOf(h, l)) = n
    <2>1. PipeOf(h, l) \in [1..n -> Classes]
      BY <1>2, <1>3
    <2> QED
      BY <1>1, <2>1
  <1> QED
    BY <1>4 DEF n

\* A line that is sent is the last one on its way.
LEMMA PipeSay ==
    ASSUME NEW h \in Seq(ToHostLines), NEW l \in Seq(ToHeadLines), NEW m \in ToHeadLines
    PROVE  PipeOf(h, Append(l, m)) = Append(PipeOf(h, l), Class(m))
  <1> DEFINE n == Len(h) + Len(l)
             p == PipeOf(h, l)
             q == PipeOf(h, Append(l, m))
  <1>0. \A g \in Seq(ToHostLines), k \in Seq(ToHeadLines) :
            PipeOf(g, k) \in Seq(Classes) /\ Len(PipeOf(g, k)) = Len(g) + Len(k)
    BY PipeType
  <1>1. Append(l, m) \in Seq(ToHeadLines) /\ Len(Append(l, m)) = Len(l) + 1
    OBVIOUS
  <1>2. p \in Seq(Classes) /\ Len(p) = n /\ q \in Seq(Classes) /\ Len(q) = n + 1
    <2>1. p \in Seq(Classes) /\ Len(p) = n
      BY <1>0
    <2>2. q \in Seq(Classes) /\ Len(q) = Len(h) + Len(Append(l, m))
      BY <1>0, <1>1
    <2> HIDE DEF p, q
    <2> QED
      BY <1>1, <2>1, <2>2
  <1>3. Append(p, Class(m)) \in Seq(Classes) /\ Len(Append(p, Class(m))) = n + 1
    <2>1. Class(m) \in Classes
      BY ClassOf
    <2> HIDE DEF p, q, n
    <2> QED
      BY <1>2, <2>1
  <1>4. ASSUME NEW k \in 1..(n + 1) PROVE q[k] = Append(p, Class(m))[k]
    <2>1. CASE k <= Len(h)
      BY <1>1, <1>2, <2>1 DEF PipeOf
    <2>2. CASE k > Len(h) /\ k <= n
      <3>1. k - Len(h) \in 1..Len(l) /\ Append(l, m)[k - Len(h)] = l[k - Len(h)]
        BY <2>2
      <3>2. q[k] = Class(l[k - Len(h)]) /\ p[k] = Class(l[k - Len(h)])
        BY <1>1, <2>2, <3>1 DEF PipeOf
      <3>3. Append(p, Class(m))[k] = p[k]
        BY <1>2, <2>2
      <3> QED
        BY <3>2, <3>3
    <2>3. CASE k = n + 1
      <3>1. Append(l, m)[k - Len(h)] = m
        BY <2>3
      <3>2. q[k] = Class(m)
        BY <1>1, <2>3, <3>1 DEF PipeOf
      <3>3. Append(p, Class(m))[k] = Class(m)
        BY <1>2, <2>3
      <3> QED
        BY <3>2, <3>3
    <2>4. k <= Len(h) \/ (k > Len(h) /\ k <= n) \/ k = n + 1
      OBVIOUS
    <2> HIDE DEF p, q, n
    <2> QED
      BY <2>1, <2>2, <2>3, <2>4
  <1> HIDE DEF p, q, n
  <1>5. q = Append(p, Class(m))
    BY <1>2, <1>3, <1>4
  <1> QED
    BY <1>5 DEF p, q

\* The line that is received is the first one.
LEMMA PipeRecv ==
    ASSUME NEW h \in Seq(ToHostLines), NEW l \in Seq(ToHeadLines), h # <<>>
    PROVE  /\ PipeOf(h, l) # <<>> /\ PipeOf(h, l)[1] = Class(h[1])
           /\ PipeOf(Tail(h), l) = Tail(PipeOf(h, l))
  <1> DEFINE n == Len(h) + Len(l)
             p == PipeOf(h, l)
             q == PipeOf(Tail(h), l)
  <1>0. \A g \in Seq(ToHostLines), k \in Seq(ToHeadLines) :
            PipeOf(g, k) \in Seq(Classes) /\ Len(PipeOf(g, k)) = Len(g) + Len(k)
    BY PipeType
  <1>1. Tail(h) \in Seq(ToHostLines) /\ Len(Tail(h)) = Len(h) - 1 /\ Len(h) >= 1
    OBVIOUS
  <1>2. p \in Seq(Classes) /\ Len(p) = n /\ q \in Seq(Classes) /\ Len(q) = n - 1 /\ n >= 1
    <2>1. p \in Seq(Classes) /\ Len(p) = n
      BY <1>0
    <2>2. q \in Seq(Classes) /\ Len(q) = Len(Tail(h)) + Len(l)
      BY <1>0, <1>1
    <2> HIDE DEF p, q
    <2> QED
      BY <1>1, <2>1, <2>2
  <1>3. p[1] = Class(h[1])
    BY <1>1, <1>2 DEF PipeOf
  <1>4. ASSUME NEW k \in 1..(n - 1) PROVE q[k] = p[k + 1]
    <2>1. CASE k <= Len(h) - 1
      <3>1. Tail(h)[k] = h[k + 1]
        BY <1>1, <2>1
      <3> QED
        BY <1>1, <2>1, <3>1 DEF PipeOf
    <2>2. CASE k > Len(h) - 1
      <3>1. k - Len(Tail(h)) = (k + 1) - Len(h)
        BY <1>1
      <3>2. q[k] = Class(l[k - Len(Tail(h))])
        BY <1>1, <2>2 DEF PipeOf
      <3>3. p[k + 1] = Class(l[(k + 1) - Len(h)])
        BY <1>1, <2>2 DEF PipeOf
      <3> QED
        BY <3>1, <3>2, <3>3
    <2> QED
      BY <2>1, <2>2
  <1> HIDE DEF p, q, n
  <1>5. q = Tail(p) /\ p # <<>>
    BY <1>2, <1>4
  <1> QED
    BY <1>3, <1>5 DEF p, q

\* The line that the head reads is the one behind the answers on their way; its answer
\* takes its place ...
LEMMA PipeMove ==
    ASSUME NEW h \in Seq(ToHostLines), NEW l \in Seq(ToHeadLines), NEW m \in ToHostLines, l # <<>>
    PROVE  /\ Len(h) + 1 \in 1..Len(PipeOf(h, l))
           /\ PipeOf(h, l)[Len(h) + 1] = Class(l[1])
           /\ PipeOf(Append(h, m), Tail(l)) = [PipeOf(h, l) EXCEPT ![Len(h) + 1] = Class(m)]
  <1> DEFINE n == Len(h) + Len(l)
             p == PipeOf(h, l)
             q == PipeOf(Append(h, m), Tail(l))
             r == [p EXCEPT ![Len(h) + 1] = Class(m)]
  <1>0. \A g \in Seq(ToHostLines), k \in Seq(ToHeadLines) :
            PipeOf(g, k) \in Seq(Classes) /\ Len(PipeOf(g, k)) = Len(g) + Len(k)
    BY PipeType
  <1>1. /\ Tail(l) \in Seq(ToHeadLines) /\ Len(Tail(l)) = Len(l) - 1 /\ Len(l) >= 1
        /\ Append(h, m) \in Seq(ToHostLines) /\ Len(Append(h, m)) = Len(h) + 1
    OBVIOUS
  <1>2. p \in Seq(Classes) /\ Len(p) = n /\ q \in Seq(Classes) /\ Len(q) = n
    <2>1. p \in Seq(Classes) /\ Len(p) = n
      BY <1>0
    <2>2. q \in Seq(Classes) /\ Len(q) = Len(Append(h, m)) + Len(Tail(l))
      BY <1>0, <1>1
    <2> HIDE DEF p, q
    <2> QED
      BY <1>1, <2>1, <2>2
  <1>3. Len(h) + 1 \in 1..n /\ p[Len(h) + 1] = Class(l[1])
    BY <1>1 DEF PipeOf
  <1>4. r \in Seq(Classes) /\ Len(r) = n
    BY <1>2, ClassOf
  <1>5. ASSUME NEW k \in 1..n PROVE q[k] = r[k]
    <2>1. CASE k <= Len(h)
      <3>1. Append(h, m)[k] = h[k]
        BY <2>1
      <3>2. q[k] = Class(h[k]) /\ p[k] = Class(h[k])
        BY <1>1, <2>1, <3>1 DEF PipeOf
      <3> QED
        BY <1>2, <2>1, <3>2
    <2>2. CASE k = Len(h) + 1
      <3>1. Append(h, m)[k] = m
        BY <2>2
      <3>2. q[k] = Class(m)
        BY <1>1, <2>2, <3>1 DEF PipeOf
      <3> QED
        BY <1>2, <2>2, <3>2
    <2>3. CASE k > Len(h) + 1
      <3>1. k - Len(Append(h, m)) = (k - Len(h)) - 1 /\ Tail(l)[(k - Len(h)) - 1] = l[k - Len(h)]
        BY <1>1, <2>3
      <3>2. q[k] = Class(l[k - Len(h)]) /\ p[k] = Class(l[k - Len(h)])
        BY <1>1, <2>3, <3>1 DEF PipeOf
      <3> QED
        BY <1>2, <2>3, <3>2
    <2> QED
      BY <2>1, <2>2, <2>3
  <1> HIDE DEF p, q, r, n
  <1>6. q = r
    BY <1>2, <1>4, <1>5
  <1>7. Len(h) + 1 \in 1..Len(p)
    BY <1>2, <1>3
  <1> QED
    BY <1>3, <1>6, <1>7 DEF p, q, r

\* ... or nothing does.
LEMMA PipeDrop ==
    ASSUME NEW h \in Seq(ToHostLines), NEW l \in Seq(ToHeadLines), l # <<>>
    PROVE  PipeOf(h, Tail(l)) = Without(PipeOf(h, l), Len(h) + 1)
  <1> DEFINE n == Len(h) + Len(l)
             p == PipeOf(h, l)
             q == PipeOf(h, Tail(l))
             r == Without(p, Len(h) + 1)
  <1>0. \A g \in Seq(ToHostLines), k \in Seq(ToHeadLines) :
            PipeOf(g, k) \in Seq(Classes) /\ Len(PipeOf(g, k)) = Len(g) + Len(k)
    BY PipeType
  <1>1. Tail(l) \in Seq(ToHeadLines) /\ Len(Tail(l)) = Len(l) - 1 /\ Len(l) >= 1
    OBVIOUS
  <1>2. p \in Seq(Classes) /\ Len(p) = n /\ q \in Seq(Classes) /\ Len(q) = n - 1
    <2>1. p \in Seq(Classes) /\ Len(p) = n
      BY <1>0
    <2>2. q \in Seq(Classes) /\ Len(q) = Len(h) + Len(Tail(l))
      BY <1>0, <1>1
    <2> HIDE DEF p, q
    <2> QED
      BY <1>1, <2>1, <2>2
  <1>3. r \in Seq(Classes) /\ Len(r) = n - 1
    <2>1. n - 1 \in Nat
      BY <1>1
    <2>2. \A k \in 1..(n - 1) : (IF k < Len(h) + 1 THEN p[k] ELSE p[k + 1]) \in Classes
      BY <1>2
    <2>3. r = [k \in 1..(n - 1) |-> IF k < Len(h) + 1 THEN p[k] ELSE p[k + 1]]
      BY <1>2 DEF Without
    <2> HIDE DEF r, p, n
    <2> QED
      BY <2>1, <2>2, <2>3
  <1>4. ASSUME NEW k \in 1..(n - 1) PROVE q[k] = r[k]
    <2>1. CASE k <= Len(h)
      <3>1. q[k] = Class(h[k]) /\ p[k] = Class(h[k])
        BY <1>1, <2>1 DEF PipeOf
      <3>2. r[k] = p[k]
        BY <1>2, <2>1 DEF Without
      <3> QED
        BY <3>1, <3>2
    <2>2. CASE k > Len(h)
      <3>1. Tail(l)[k - Len(h)] = l[(k - Len(h)) + 1] /\ (k + 1) - Len(h) = (k - Len(h)) + 1
        BY <1>1, <2>2
      <3>2. q[k] = Class(Tail(l)[k - Len(h)]) /\ p[k + 1] = Class(l[(k + 1) - Len(h)])
        BY <1>1, <2>2 DEF PipeOf
      <3>3. r[k] = p[k + 1]
        BY <1>2, <2>2 DEF Without
      <3> QED
        BY <3>1, <3>2, <3>3
    <2> QED
      BY <2>1, <2>2
  <1> HIDE DEF p, q, r, n
  <1>5. q = r
    BY <1>2, <1>3, <1>4
  <1> QED
    BY <1>5 DEF p, q, r

\* What a queue of classes has, when one is added, taken or replaced.
LEMMA HasAppend ==
    ASSUME NEW s \in Seq(Classes), NEW e \in Classes, NEW c
    PROVE  Has(Append(s, e), c) <=> Has(s, c) \/ c = e
  <1>1. Len(Append(s, e)) = Len(s) + 1 /\ Append(s, e)[Len(s) + 1] = e
    OBVIOUS
  <1>2. \A k \in 1..Len(s) : Append(s, e)[k] = s[k]
    OBVIOUS
  <1>3. Len(s) \in Nat
    OBVIOUS
  <1> QED
    BY <1>1, <1>2, <1>3 DEF Has

LEMMA HasTail ==
    ASSUME NEW s \in Seq(Classes), s # <<>>, NEW c
    PROVE  Has(s, c) <=> s[1] = c \/ Has(Tail(s), c)
  <1>1. Len(Tail(s)) = Len(s) - 1 /\ Len(s) \in Nat /\ Len(s) >= 1
    OBVIOUS
  <1>2. \A k \in 1..Len(Tail(s)) : k + 1 \in 1..Len(s) /\ Tail(s)[k] = s[k + 1]
    OBVIOUS
  <1>3. \A k \in 1..Len(s) : k = 1 \/ k - 1 \in 1..Len(Tail(s))
    BY <1>1
  <1>4. \A k \in 1..Len(s) : k = 1 \/ s[k] = Tail(s)[k - 1]
    BY <1>1, <1>2, <1>3
  <1>5. ASSUME Has(s, c), s[1] # c PROVE Has(Tail(s), c)
    BY <1>3, <1>4, <1>5 DEF Has
  <1>6. Has(Tail(s), c) => Has(s, c)
    BY <1>2 DEF Has
  <1>7. s[1] = c => Has(s, c)
    BY <1>1 DEF Has
  <1> QED
    BY <1>5, <1>6, <1>7

LEMMA HasWithout ==
    ASSUME NEW s \in Seq(Classes), NEW i \in 1..Len(s), NEW c
    PROVE  Has(s, c) <=> s[i] = c \/ Has(Without(s, i), c)
  <1>1. Len(s) \in Nat /\ Len(s) - 1 \in Nat
    OBVIOUS
  <1>2. Len(Without(s, i)) = Len(s) - 1
    BY <1>1 DEF Without
  <1>3. \A k \in 1..(Len(s) - 1) : Without(s, i)[k] = IF k < i THEN s[k] ELSE s[k + 1]
    BY DEF Without
  <1>4. ASSUME Has(s, c), s[i] # c PROVE Has(Without(s, i), c)
    <2>1. PICK k \in 1..Len(s) : s[k] = c
      BY <1>4 DEF Has
    <2>2. CASE k < i
      BY <1>1, <1>2, <1>3, <2>1, <2>2 DEF Has
    <2>3. CASE k > i
      <3>1. k - 1 \in 1..(Len(s) - 1) /\ ~ (k - 1 < i) /\ (k - 1) + 1 = k
        BY <2>3
      <3>2. Without(s, i)[k - 1] = s[k]
        BY <1>3, <3>1
      <3> QED
        BY <1>2, <2>1, <3>1, <3>2 DEF Has
    <2> QED
      BY <1>4, <2>1, <2>2, <2>3
  <1>5. ASSUME Has(Without(s, i), c) PROVE Has(s, c)
    <2>1. PICK k \in 1..(Len(s) - 1) : Without(s, i)[k] = c
      BY <1>2, <1>5 DEF Has
    <2>2. k \in 1..Len(s) /\ k + 1 \in 1..Len(s)
      BY <1>1
    <2> QED
      BY <1>3, <2>1, <2>2 DEF Has
  <1> QED
    BY <1>4, <1>5 DEF Has

LEMMA HasReplaced ==
    ASSUME NEW s \in Seq(Classes), NEW i \in 1..Len(s), NEW e \in Classes, NEW c
    PROVE  Has(s, c) => s[i] = c \/ Has([s EXCEPT ![i] = e], c)
  <1>1. Len([s EXCEPT ![i] = e]) = Len(s)
    OBVIOUS
  <1>2. \A k \in 1..Len(s) : k # i => [s EXCEPT ![i] = e][k] = s[k]
    OBVIOUS
  <1> QED
    BY <1>1, <1>2 DEF Has

-----------------------------------------------------------------------------
(* The effect of a step on the line. *)

LEMMA LinesTyped ==
    ASSUME TypeOK
    PROVE  /\ toHead \in Seq(ToHeadLines) /\ toHost \in Seq(ToHostLines)
           /\ Pipe \in Seq(Classes) /\ Len(Pipe) = Len(toHost) + Len(toHead)
  BY PipeType DEF TypeOK, SessionType, SendingType, Pipe

LEMMA Said ==
    ASSUME TypeOK, NEW m \in ToHeadLines, toHead' = Append(toHead, m), UNCHANGED toHost
    PROVE  Pipe' = Append(Pipe, Class(m))
  BY LinesTyped, PipeSay DEF Pipe

LEMMA Taken ==
    ASSUME TypeOK, toHost # <<>>, toHost' = Tail(toHost), UNCHANGED toHead
    PROVE  Pipe # <<>> /\ Pipe[1] = Class(toHost[1]) /\ Pipe' = Tail(Pipe)
  BY LinesTyped, PipeRecv DEF Pipe

LEMMA TakenAndSaid ==
    ASSUME TypeOK, NEW m \in ToHeadLines,
           toHost # <<>>, toHost' = Tail(toHost), toHead' = Append(toHead, m)
    PROVE  Pipe # <<>> /\ Pipe[1] = Class(toHost[1]) /\ Pipe' = Append(Tail(Pipe), Class(m))
  <1>1. Tail(toHost) \in Seq(ToHostLines)
    BY LinesTyped
  <1>2. Pipe # <<>> /\ Pipe[1] = Class(toHost[1]) /\ PipeOf(Tail(toHost), toHead) = Tail(Pipe)
    BY LinesTyped, PipeRecv DEF Pipe
  <1>3. Pipe' = Append(PipeOf(Tail(toHost), toHead), Class(m))
    BY <1>1, LinesTyped, PipeSay DEF Pipe
  <1> QED
    BY <1>2, <1>3

LEMMA Served ==
    ASSUME TypeOK, NEW m \in ToHostLines,
           toHead # <<>>, toHead' = Tail(toHead), toHost' = Append(toHost, m)
    PROVE  /\ Len(toHost) + 1 \in 1..Len(Pipe) /\ Pipe[Len(toHost) + 1] = Class(toHead[1])
           /\ Pipe' = [Pipe EXCEPT ![Len(toHost) + 1] = Class(m)]
           /\ Class(m) = Class(toHead[1]) => Pipe' = Pipe
  <1>1. /\ Len(toHost) + 1 \in 1..Len(Pipe) /\ Pipe[Len(toHost) + 1] = Class(toHead[1])
        /\ Pipe' = [Pipe EXCEPT ![Len(toHost) + 1] = Class(m)]
    BY LinesTyped, PipeMove DEF Pipe
  <1>2. Pipe \in Seq(Classes)
    BY LinesTyped
  <1> QED
    BY <1>1, <1>2

LEMMA Dropped ==
    ASSUME TypeOK, toHead # <<>>, toHead' = Tail(toHead), UNCHANGED toHost
    PROVE  /\ Len(toHost) + 1 \in 1..Len(Pipe) /\ Pipe[Len(toHost) + 1] = Class(toHead[1])
           /\ Pipe' = Without(Pipe, Len(toHost) + 1)
  <1>1. Len(toHost) + 1 \in 1..Len(Pipe)
    BY LinesTyped
  <1>2. Pipe[Len(toHost) + 1] = Class(toHead[1])
    BY LinesTyped, PipeMove, <1>1 DEF Pipe, PipeOf
  <1> QED
    BY <1>1, <1>2, LinesTyped, PipeDrop DEF Pipe

-----------------------------------------------------------------------------
(* The fault budget. *)

LEMMA FaultCounts ==
    ASSUME TypeOK
    PROVE  /\ FaultTotal \in Nat
           /\ \A kind \in AllHeadFaults : Fault(kind) => FaultTotal' = FaultTotal + 1
  <1>1. faults \in [AllHeadFaults -> Nat]
    BY DEF TypeOK, CountType
  <1>2. ASSUME NEW kind \in AllHeadFaults, Fault(kind) PROVE FaultTotal' = FaultTotal + 1
    BY <1>1, <1>2 DEF AllHeadFaults, Fault, FaultTotal
  <1> QED
    BY <1>1, <1>2 DEF AllHeadFaults, FaultTotal

\* A step has one fault or none.
LEMMA FaultOrNot ==
    ASSUME [Next]_vars
    PROVE  UNCHANGED faults \/ \E kind \in AllHeadFaults : Fault(kind)
  <1>1. CASE Owner
    BY <1>1 DEF Owner, Bootstrap, Recover, Standby, Shutdown, Reset, SetHeater, SetHeaterTooHot, SetFan,
        SetCommandCallback, SetAllsetCallback, Call
  <1>2. CASE Patrols
    BY <1>2 DEF Patrols, PatrolCommand, PatrolPing, PatrolUpdate, PatrolHello, PatrolNoHead,
        PatrolOffline, Patrol
  <1>3. CASE Receive
    BY <1>3 DEF Receive, RecvOk, RecvEr, RecvHello, RecvPongReset, RecvPong, Incoming
  <1>4. CASE Elapse \/ ElapseUpdate \/ HeadActs \/ Environment \/ UNCHANGED vars
    BY <1>4 DEF Elapse, ElapseUpdate, HeadActs, HeadGreets, HeadPongs, HeadObeys, NobodyReads,
        HeadReads, HeadRuns, Environment, LoseToHead, LoseToHost, HeadRestarts, HeadRefuses,
        HeadErrs, vars, AllHeadFaults
  <1> QED
    BY <1>1, <1>2, <1>3, <1>4 DEF Next

\* An answer is of the class of what it answers.
LEMMA HeadAnswers ==
    ASSUME TypeOK, HeadGreets \/ HeadPongs \/ HeadObeys
    PROVE  \E m \in ToHostLines : /\ toHead # <<>> /\ toHead' = Tail(toHead)
                                  /\ toHost' = Append(toHost, m) /\ Class(m) = Class(toHead[1])
  <1>1. CASE HeadGreets
    <2>1. headType \in HeadTypes
      BY <1>1, HeadConstants DEF HeadGreets, HeadReads, TypeOK, SessionType
    <2>2. HelloReply(headType) \in ToHostLines
      BY <2>1 DEF HelloReply, ToHostLines
    <2> QED
      BY <1>1, <2>2, ClassOf DEF HeadGreets, HeadReads, Answer, Class
  <1>2. CASE HeadPongs
    BY <1>2, ClassOf DEF HeadPongs, HeadReads, Answer, Class, Pong, ToHostLines
  <1>3. CASE HeadObeys
    BY <1>3, ClassOf DEF HeadObeys, HeadReads, Answer, Class, OK, ToHostLines
  <1> QED
    BY <1>1, <1>2, <1>3

\* What is waited for, class by class.
LEMMA AwaitedIs ==
    /\ Awaited("greeting") <=> stFlag = "BOOTING"
    /\ Awaited("command") <=> cmdbuf # NoCmd
    /\ Awaited("ping") <=> updating
    /\ ~Awaited("refusal")
  BY DEF Awaited

LEMMA AwaitedLess ==
    ASSUME stFlag' = "BOOTING" => stFlag = "BOOTING",
           cmdbuf' # NoCmd => cmdbuf # NoCmd, updating' => updating
    PROVE  \A c \in Classes : Awaited(c)' => Awaited(c)
  BY DEF Awaited, Classes

\* A step without a fault that loses nothing.
LEMMA Kept ==
    ASSUME TypeOK, TypeOK', Budget, Spent, UNCHANGED <<headType, faults>>, sendRetry' <= sendRetry,
           \A c \in Classes : Missing(c)' => Missing(c),
           \/ expired' = FALSE
           \/ /\ expired' = expired /\ (Pipe' # <<>> => Pipe # <<>>)
              /\ \A c \in Classes : Awaited(c)' => Awaited(c)
    PROVE  Budget' /\ Spent'
  <1>1. /\ Missing("greeting")' => Missing("greeting")
        /\ Missing("command")' => Missing("command")
        /\ Missing("ping")' => Missing("ping")
    BY DEF Classes
  <1>2. sendRetry \in Nat /\ sendRetry' \in Nat /\ faults \in [AllHeadFaults -> Nat]
    BY HeadConstants DEF TypeOK, SendingType, CountType
  <1>3. \A kind \in AllHeadFaults : faults[kind] \in Nat /\ faults'[kind] = faults[kind]
    BY <1>2
  <1>4. sendRetry + Lost <= FaultTotal => sendRetry' + Lost' <= FaultTotal'
    BY <1>1, <1>2, <1>3 DEF Lost, One, FaultTotal, AllHeadFaults
  <1>5. sendRetry + Lost < FaultTotal => sendRetry' + Lost' < FaultTotal'
    BY <1>1, <1>2, <1>3 DEF Lost, One, FaultTotal, AllHeadFaults
  <1>6. headType' = headType
    OBVIOUS
  <1>7. expired' /\ Pipe' # <<>> /\ (\E c \in Classes : Awaited(c)')
            => expired /\ Pipe # <<>> /\ (\E c \in Classes : Awaited(c))
    OBVIOUS
  <1>8. Budget'
    BY <1>4, <1>6, Zenon DEF Budget
  <1>9. Spent'
    BY <1>5, <1>6, <1>7, Zenon DEF Spent
  <1> QED
    BY <1>8, <1>9

\* A fault, and what is lost with it.
LEMMA Paid ==
    ASSUME TypeOK, TypeOK', Budget, Spent, UNCHANGED <<headType, sendRetry, expired>>,
           NEW kind \in AllHeadFaults, Fault(kind),
           NEW d \in Classes, \A c \in Classes \ {d} : Missing(c)' => Missing(c),
           Pipe' # <<>> => Pipe # <<>>, \A c \in Classes : Awaited(c)' => Awaited(c)
    PROVE  Budget' /\ Spent'
  <1>1. \/ (Missing("greeting")' => Missing("greeting")) /\ (Missing("command")' => Missing("command"))
        \/ (Missing("greeting")' => Missing("greeting")) /\ (Missing("ping")' => Missing("ping"))
        \/ (Missing("command")' => Missing("command")) /\ (Missing("ping")' => Missing("ping"))
    BY DEF Classes
  <1>2. sendRetry \in Nat /\ sendRetry' = sendRetry
    BY HeadConstants DEF TypeOK, SendingType
  <1>3. PICK f \in Nat : f = FaultTotal /\ FaultTotal' = f + 1
    BY FaultCounts
  <1>4. \A n \in Nat : n + Lost <= f => n + Lost' <= f + 1
    BY <1>1 DEF Lost, One
  <1>5. \A n \in Nat : n + Lost < f => n + Lost' < f + 1
    BY <1>1 DEF Lost, One
  <1>6. sendRetry + Lost <= FaultTotal => sendRetry' + Lost' <= FaultTotal'
    BY <1>2, <1>3, <1>4, Zenon
  <1>7. sendRetry + Lost < FaultTotal => sendRetry' + Lost' < FaultTotal'
    BY <1>2, <1>3, <1>5, Zenon
  <1> QED
    BY <1>6, <1>7, Zenon DEF Budget, Spent

\* Nothing is sent and nothing is taken.
LEMMA StillKeeps ==
    ASSUME TypeOK, TypeOK', Budget, Spent,
           UNCHANGED <<headType, faults, toHead, toHost, sendRetry, expired>>,
           stFlag' = "BOOTING" => stFlag = "BOOTING",
           cmdbuf' # NoCmd => cmdbuf # NoCmd, updating' => updating
    PROVE  Budget' /\ Spent'
  <1>1. Pipe' = Pipe
    BY DEF Pipe
  <1>2. \A c \in Classes : InFlight(c)' <=> InFlight(c)
    BY <1>1 DEF InFlight
  <1>3. \A c \in Classes : Awaited(c)' => Awaited(c)
    BY AwaitedLess
  <1>4. \A c \in Classes : Missing(c)' => Missing(c)
    BY <1>2, <1>3 DEF Missing
  <1>5. sendRetry' <= sendRetry
    BY HeadConstants DEF TypeOK, SendingType
  <1> QED
    BY <1>1, <1>3, <1>4, <1>5, Kept

\* Something is sent, and at most its answer is waited for in addition.
LEMMA SaidKeeps ==
    ASSUME TypeOK, TypeOK', Budget, Spent, UNCHANGED <<headType, faults, toHost>>,
           sendRetry' <= sendRetry, NEW m \in ToHeadLines, Say(m),
           \A c \in Classes \ {Class(m)} : Awaited(c)' => Awaited(c)
    PROVE  Budget' /\ Spent'
  <1>1. Pipe' = Append(Pipe, Class(m)) /\ Pipe \in Seq(Classes) /\ Class(m) \in Classes
    BY Said, LinesTyped, ClassOf DEF Say
  <1>2. \A c \in Classes : InFlight(c)' <=> InFlight(c) \/ c = Class(m)
    BY <1>1, HasAppend DEF InFlight
  <1>3. \A c \in Classes : Missing(c)' => Missing(c)
    BY <1>2 DEF Missing
  <1> QED
    BY <1>3, Kept DEF Say

\* An answer is taken, and it is no longer waited for.
LEMMA TakenKeeps ==
    ASSUME TypeOK, TypeOK', Budget, Spent, UNCHANGED <<headType, faults, toHead, sendRetry, expired>>,
           toHost # <<>>, toHost' = Tail(toHost), NEW k, k = Class(toHost[1]), ~Awaited(k)',
           stFlag' = "BOOTING" => stFlag = "BOOTING",
           cmdbuf' # NoCmd => cmdbuf # NoCmd, updating' => updating
    PROVE  Budget' /\ Spent'
  <1>1. Pipe # <<>> /\ Pipe[1] = k /\ Pipe' = Tail(Pipe) /\ Pipe \in Seq(Classes)
    BY Taken, LinesTyped
  <1>2. \A c \in Classes : InFlight(c) => InFlight(c)' \/ c = k
    BY <1>1, HasTail DEF InFlight
  <1>3. \A c \in Classes : Awaited(c)' => Awaited(c)
    BY AwaitedLess
  <1>4. \A c \in Classes : Missing(c)' => Missing(c)
    <2>1. ASSUME NEW c \in Classes, c # k, Missing(c)' PROVE Missing(c)
      BY <1>2, <1>3, <2>1 DEF Missing
    <2>2. ~Missing(k)'
      BY DEF Missing
    <2> QED
      BY <2>1, <2>2
  <1>5. sendRetry' <= sendRetry
    BY HeadConstants DEF TypeOK, SendingType
  <1> QED
    BY <1>1, <1>3, <1>4, <1>5, Kept

\* An answer is taken and the next command is sent.
LEMMA TakenSaidKeeps ==
    ASSUME TypeOK, TypeOK', Budget, Spent, UNCHANGED <<headType, faults, sendRetry>>,
           toHost # <<>>, toHost' = Tail(toHost), NEW m \in Commands, Say(m),
           NEW k, k = Class(toHost[1]), k = "command" \/ ~Awaited(k)',
           stFlag' = "BOOTING" => stFlag = "BOOTING", updating' => updating
    PROVE  Budget' /\ Spent'
  <1>0. m \in ToHeadLines /\ Class(m) = "command"
    BY Lines, ClassOf
  <1>1. /\ Pipe # <<>> /\ Pipe[1] = k /\ Pipe' = Append(Tail(Pipe), "command")
        /\ Pipe \in Seq(Classes)
    BY <1>0, TakenAndSaid, LinesTyped DEF Say
  <1>2. \A c \in Classes : InFlight(c) => Has(Tail(Pipe), c) \/ c = k
    BY <1>1, HasTail DEF InFlight
  <1>3. Tail(Pipe) \in Seq(Classes) /\ "command" \in Classes
    BY <1>1 DEF Classes
  <1>4. \A c \in Classes : InFlight(c)' <=> Has(Tail(Pipe), c) \/ c = "command"
    BY <1>1, <1>3, HasAppend DEF InFlight
  <1>5. \A c \in Classes \ {"command"} : Awaited(c)' => Awaited(c)
    BY DEF Awaited, Classes
  <1>6. \A c \in Classes : Missing(c)' => Missing(c)
    BY <1>2, <1>4, <1>5 DEF Missing
  <1>7. sendRetry' <= sendRetry
    BY HeadConstants DEF TypeOK, SendingType
  <1> QED
    BY <1>6, <1>7, Kept DEF Say

\* A repetition after a timeout.
LEMMA RetryPays ==
    ASSUME TypeOK, TypeOK', Budget, Spent, UNCHANGED <<headType, faults, toHost>>,
           NEW m \in ToHeadLines, Retry(m), expired,
           Awaited(Class(m)), Class(m) # "refusal"
    PROVE  Budget' /\ Spent'
  <1> DEFINE d == Class(m)
  <1>1. Pipe' = Append(Pipe, d) /\ Pipe \in Seq(Classes) /\ d \in Classes
    BY Said, LinesTyped, ClassOf DEF Retry, Say
  <1>2. \A c \in Classes : InFlight(c)' <=> InFlight(c) \/ c = d
    BY <1>1, HasAppend DEF InFlight
  <1>3. \A c \in Classes : Awaited(c)' <=> Awaited(c)
    BY DEF Retry, session, pinging, Awaited, Classes
  <1> HIDE DEF d
  <1>4. (\A c \in Classes \ {d} : Missing(c)' => Missing(c)) /\ ~Missing(d)'
    BY <1>1, <1>2, <1>3 DEF Missing
  <1>5. sendRetry \in Nat /\ sendRetry' \in {sendRetry, sendRetry + 1} /\ expired' = FALSE
    BY HeadConstants DEF TypeOK, SendingType, Retry, Say
  <1>6. Spent'
    BY <1>5 DEF Spent
  <1>7. /\ d = "greeting" \/ (Missing("greeting")' => Missing("greeting"))
        /\ d = "command" \/ (Missing("command")' => Missing("command"))
        /\ d = "ping" \/ (Missing("ping")' => Missing("ping"))
        /\ d \in {"greeting", "command", "ping"}
    BY <1>1, <1>4 DEF Classes, d
  <1>8. FaultTotal \in Nat /\ FaultTotal' = FaultTotal
    BY FaultCounts DEF FaultTotal
  <1>9. CASE Pipe = <<>>
    <2>1. Missing(d)
      BY <1>9 DEF InFlight, Has, Missing, d
    <2>2. \A n, f \in Nat : n + Lost <= f => n + Lost' <= f /\ (n + 1) + Lost' <= f
      BY <1>4, <1>7, <2>1 DEF Lost, One
    <2>3. sendRetry + Lost <= FaultTotal => sendRetry' + Lost' <= FaultTotal'
      BY <1>5, <1>8, <2>2, Zenon
    <2> QED
      BY <1>6, <2>3, Zenon DEF Budget
  <1>10. CASE Pipe # <<>>
    <2>1. headType # "absent" => sendRetry + Lost < FaultTotal
      BY <1>1, <1>10 DEF Spent, d
    <2>2. \A n, f \in Nat : n + Lost < f => n + Lost' <= f /\ (n + 1) + Lost' <= f
      BY <1>4, <1>7 DEF Lost, One
    <2>3. sendRetry + Lost < FaultTotal => sendRetry' + Lost' <= FaultTotal'
      BY <1>5, <1>8, <2>2, Zenon
    <2> QED
      BY <1>6, <2>1, <2>3, Zenon DEF Budget
  <1> QED
    BY <1>9, <1>10


\* The operations of the owner.
LEMMA OwnerBudget ==
    ASSUME TypeOK, TypeOK', Budget, Spent, Owner
    PROVE  Budget' /\ Spent'
  <1> USE DEF Call
  <1>1. CASE Bootstrap
    <2>1. UNCHANGED <<headType, faults, toHost>> /\ sendRetry' <= sendRetry
      BY <1>1, HeadConstants DEF Bootstrap, config, TypeOK, SendingType
    <2>2. Hello \in ToHeadLines /\ Class(Hello) = "greeting"
      BY Lines, ClassOf
    <2>3. \A c \in Classes \ {"greeting"} : Awaited(c)' => Awaited(c)
      BY <1>1 DEF Bootstrap, pinging, Awaited, Classes
    <2> QED
      BY <1>1, <2>1, <2>2, <2>3, SaidKeeps DEF Bootstrap
  <1>2. ASSUME NEW kind, NEW queue \in Seq(Commands), Enqueued(kind, queue),
               UNCHANGED <<headType, faults, toHost, stFlag, updating>>
        PROVE  Budget' /\ Spent'
    <2>1. CASE queue # <<>> /\ SendFirst(queue)
      <3>1. queue[1] \in Commands /\ queue[1] \in ToHeadLines /\ Class(queue[1]) = "command"
        BY <2>1, QueueTypes, Lines, ClassOf
      <3>2. Say(queue[1]) /\ sendRetry' <= sendRetry
        BY <2>1, HeadConstants DEF SendFirst, Say, TypeOK, SendingType
      <3>3. \A c \in Classes \ {"command"} : Awaited(c)' => Awaited(c)
        BY <1>2 DEF Awaited, Classes
      <3> QED
        BY <1>2, <3>1, <3>2, <3>3, SaidKeeps
    <2>2. CASE UNCHANGED <<cmdbuf, sendRetry, expired, toHead>>
      BY <1>2, <2>2, StillKeeps
    <2> QED
      BY <1>2, <2>1, <2>2 DEF Enqueued, LoseFirst, sending
  <1>3. CASE Recover \/ Standby \/ Shutdown
    <2>1. /\ commandQueue \o CommandsFor(want) \in Seq(Commands)
          /\ commandQueue \o CommandsFor(Off) \in Seq(Commands)
          /\ \A t \in Level : commandQueue \o CommandsFor(OffUndefined(t)) \in Seq(Commands)
      BY RestoringType, FreshType, OffType DEF TypeOK, SessionType, SendingType
    <2>2. UNCHANGED <<headType, faults, toHost, stFlag, updating>>
      BY <1>3 DEF Recover, Standby, Shutdown, config, session, pinging
    <2> QED
      BY <1>2, <1>3, <2>1, <2>2 DEF Recover, Standby, Shutdown
  <1>4. CASE Reset
    BY <1>4, StillKeeps DEF Reset, EndSession, config, sending, pinging
  <1>5. ASSUME NEW v \in Level, SetHeater(v) \/ SetFan(v)
        PROVE  Budget' /\ Spent'
    <2>1. PICK ch \in Channel, r \in Setting, name \in AllCalls : Call(name) /\ Set(ch, v, r)
      BY <1>5 DEF SetHeater, SetFan, Channel, Setting, AllCalls
    <2>2. UNCHANGED <<headType, faults, toHost, stFlag, updating, sendRetry>>
      BY <2>1 DEF Set, config, pinging
    <2>3. CASE Say(Cmd(ch, v))
      <3>1. Cmd(ch, v) \in ToHeadLines /\ Class(Cmd(ch, v)) = "command"
        BY Lines, ClassOf
      <3>2. \A c \in Classes \ {"command"} : Awaited(c)' => Awaited(c)
        BY <2>2 DEF Awaited, Classes
      <3>3. sendRetry' <= sendRetry
        BY <2>2, HeadConstants DEF TypeOK, SendingType
      <3> QED
        BY <2>2, <2>3, <3>1, <3>2, <3>3, SaidKeeps
    <2>4. CASE UNCHANGED <<cmdbuf, toHead, expired>>
      BY <2>2, <2>4, StillKeeps
    <2> QED
      BY <2>1, <2>3, <2>4 DEF Set
  <1>6. CASE SetCommandCallback \/ SetAllsetCallback
    <2>1. UNCHANGED <<headType, faults, toHead, toHost, sendRetry, expired, stFlag, cmdbuf, updating>>
      BY <1>6 DEF SetCommandCallback, SetAllsetCallback, config, session, sending, pinging
    <2> QED
      BY <2>1, StillKeeps
  <1>7. CASE SetHeaterTooHot
    BY <1>7, StillKeeps DEF SetHeaterTooHot, config, session, sending, pinging
  <1> QED
    BY <1>1, <1>3, <1>4, <1>5, <1>6, <1>7 DEF Owner

\* The timer.
LEMMA PatrolsBudget ==
    ASSUME TypeOK, TypeOK', Budget, Spent, Patrols
    PROVE  Budget' /\ Spent'
  <1>1. UNCHANGED <<headType, faults, toHost>>
    BY DEF Patrols, PatrolCommand, PatrolPing, PatrolUpdate, PatrolHello, PatrolNoHead,
           PatrolOffline, Patrol, config
  <1>2. /\ Hello \in ToHeadLines /\ Class(Hello) = "greeting"
        /\ Ping \in ToHeadLines /\ Class(Ping) = "ping"
        /\ cmdbuf # NoCmd => cmdbuf \in ToHeadLines /\ Class(cmdbuf) = "command"
    BY Lines, ClassOf DEF TypeOK, SendingType
  <1>3. CASE PatrolCommand
    BY <1>1, <1>2, <1>3, AwaitedIs, RetryPays DEF PatrolCommand
  <1>4. CASE PatrolPing
    BY <1>1, <1>2, <1>4, AwaitedIs, RetryPays DEF PatrolPing
  <1>5. CASE PatrolHello
    BY <1>1, <1>2, <1>5, AwaitedIs, RetryPays DEF PatrolHello
  <1>6. CASE PatrolUpdate
    <2>1. sendRetry' <= sendRetry
      BY <1>6, HeadConstants DEF PatrolUpdate, TypeOK, SendingType
    <2>2. \A c \in Classes \ {"ping"} : Awaited(c)' => Awaited(c)
      BY <1>6 DEF PatrolUpdate, session, Awaited, Classes
    <2> QED
      BY <1>1, <1>2, <1>6, <2>1, <2>2, SaidKeeps DEF PatrolUpdate
  <1>7. CASE PatrolNoHead
    BY <1>1, <1>7, StillKeeps DEF PatrolNoHead, OnReady, sending, pinging
  <1>8. CASE PatrolOffline
    BY <1>1, <1>8, StillKeeps DEF PatrolOffline, Offline, EndSession, sending, pinging
  <1> QED
    BY <1>3, <1>4, <1>5, <1>6, <1>7, <1>8 DEF Patrols

\* The handlers.
LEMMA ReceiveBudget ==
    ASSUME TypeOK, TypeOK', Budget, Spent, Receive
    PROVE  Budget' /\ Spent'
  <1>1. UNCHANGED <<headType, faults>> /\ toHost # <<>> /\ toHost' = Tail(toHost)
    BY DEF Receive, RecvOk, RecvEr, RecvHello, RecvPongReset, RecvPong, Incoming, config
  <1>2. commandQueue # <<>> => commandQueue[1] \in Commands
    BY QueueTypes DEF TypeOK, SendingType
  <1>3. CASE RecvOk
    <2>1. Class(toHost[1]) = "command" /\ UNCHANGED <<stFlag, updating>>
      BY <1>3 DEF RecvOk, Incoming, Class, session, pinging
    <2>2. CASE commandQueue # <<>> /\ SendFirst(commandQueue)
      BY <1>1, <1>2, <2>1, <2>2, TakenSaidKeeps DEF SendFirst, Say
    <2>3. CASE cmdbuf' = NoCmd /\ UNCHANGED <<sendRetry, expired, toHead>>
      <3>1. ~Awaited("command")'
        BY <2>3 DEF Awaited
      <3> QED
        BY <1>1, <2>1, <2>3, <3>1, TakenKeeps
    <2> QED
      BY <1>3, <2>2, <2>3 DEF RecvOk, LoseFirst
  <1>4. CASE RecvEr
    <2>1. Class(toHost[1]) = "refusal"
      BY <1>4 DEF RecvEr, Incoming, Class
    <2>2. ~Awaited("refusal")'
      BY DEF Awaited
    <2>3. UNCHANGED <<stFlag, cmdbuf, updating, sendRetry, expired, toHead>>
      BY <1>4 DEF RecvEr, session, sending, pinging
    <2> QED
      BY <1>1, <2>1, <2>2, <2>3, TakenKeeps
  <1>5. CASE RecvHello
    <2>1. Class(toHost[1]) = "greeting"
      BY <1>5 DEF RecvHello, Incoming, Class
    <2>2. stFlag' # "BOOTING"
      BY <1>5 DEF RecvHello, OnReady
    <2>3. ~Awaited("greeting")'
      BY <2>2 DEF Awaited
    <2>4. UNCHANGED <<cmdbuf, updating, sendRetry, expired, toHead>>
      BY <1>5 DEF RecvHello, sending, pinging
    <2> QED
      BY <1>1, <2>1, <2>2, <2>3, <2>4, TakenKeeps
  <1>6. CASE RecvPongReset \/ RecvPong
    <2>1. Class(toHost[1]) = "ping"
      BY <1>6 DEF RecvPongReset, RecvPong, Class
    <2>2. ~updating' /\ (stFlag' = "BOOTING" => stFlag = "BOOTING")
      BY <1>6 DEF RecvPongReset, RecvPong, Offline, EndSession
    <2>3. ~Awaited("ping")'
      BY <2>2 DEF Awaited
    <2>4. CASE commandQueue # <<>> /\ SendFirst(commandQueue)
      BY <1>1, <1>2, <2>1, <2>2, <2>3, <2>4, TakenSaidKeeps DEF SendFirst, Say
    <2>5. CASE UNCHANGED <<cmdbuf, sendRetry, expired, toHead>>
      BY <1>1, <2>1, <2>2, <2>3, <2>5, TakenKeeps
    <2> QED
      BY <1>6, <2>4, <2>5 DEF RecvPongReset, RecvPong, LoseFirst, sending
  <1> QED
    BY <1>3, <1>4, <1>5, <1>6 DEF Receive

\* The clock, the head and the line.
LEMMA WorldBudget ==
    ASSUME TypeOK, TypeOK', Budget, Spent,
           Elapse \/ ElapseUpdate \/ HeadActs \/ Environment \/ UNCHANGED vars
    PROVE  Budget' /\ Spent'
  <1> DEFINE Resting == UNCHANGED <<headType, sendRetry, expired, stFlag, cmdbuf, updating>>
  <1>1. ASSUME Resting PROVE \A c \in Classes : Awaited(c)' <=> Awaited(c)
    BY <1>1 DEF Awaited, Classes
  <1>2. ASSUME Resting, UNCHANGED <<faults, toHead, toHost>> PROVE Budget' /\ Spent'
    BY <1>2, StillKeeps
  <1>3. ASSUME Resting, NEW kind \in AllHeadFaults, Fault(kind), NEW d \in Classes,
               \A c \in Classes \ {d} : InFlight(c) => InFlight(c)', Pipe' # <<>> => Pipe # <<>>
        PROVE  Budget' /\ Spent'
    <2>1. \A c \in Classes \ {d} : Missing(c)' => Missing(c)
      BY <1>1, <1>3 DEF Missing
    <2> HIDE DEF Resting
    <2>2. UNCHANGED <<headType, sendRetry, expired>>
      BY <1>3 DEF Resting
    <2> QED
      BY <1>1, <1>3, <2>1, <2>2, Paid
  <1>4. CASE Elapse
    <2>1. UNCHANGED <<headType, sendRetry, stFlag, cmdbuf, updating, toHead, toHost>>
      BY <1>4 DEF Elapse, config, session, pinging, wires
    <2>2. Pipe' = Pipe /\ Pipe \in Seq(Classes) /\ Len(Pipe) = Len(toHost) + Len(toHead)
      BY <2>1, LinesTyped DEF Pipe
    <2>3. \A c \in Classes : Missing(c)' <=> Missing(c)
      BY <2>1, <2>2 DEF Missing, Awaited, InFlight, Classes
    <2>4. /\ Missing("greeting")' <=> Missing("greeting")
          /\ Missing("command")' <=> Missing("command")
          /\ Missing("ping")' <=> Missing("ping")
      BY <2>3 DEF Classes
    <2>5. sendRetry \in Nat
      BY HeadConstants DEF TypeOK, SendingType
    <2>6. CASE toHead = <<>> /\ toHost = <<>> /\ UNCHANGED faults
      <3>1. Pipe' = <<>>
        BY <2>2, <2>6
      <3>2. Spent'
        BY <3>1 DEF Spent
      <3>3. FaultTotal \in Nat /\ FaultTotal' = FaultTotal
        BY <2>6, FaultCounts DEF FaultTotal
      <3>4. \A n, f \in Nat : n + Lost <= f => n + Lost' <= f
        BY <2>4 DEF Lost, One
      <3>5. Budget'
        BY <2>1, <2>5, <3>3, <3>4, Zenon DEF Budget
      <3> QED
        BY <3>2, <3>5
    <2>7. CASE Fault("slow")
      <3>1. PICK f \in Nat : f = FaultTotal /\ FaultTotal' = f + 1
        BY <2>7, FaultCounts DEF AllHeadFaults
      <3>2. \A n \in Nat : n + Lost <= f => n + Lost' <= f + 1 /\ n + Lost' < f + 1
        BY <2>4 DEF Lost, One
      <3>3. sendRetry + Lost <= FaultTotal =>
                sendRetry' + Lost' <= FaultTotal' /\ sendRetry' + Lost' < FaultTotal'
        BY <2>1, <2>5, <3>1, <3>2, Zenon
      <3> QED
        BY <2>1, <3>3, Zenon DEF Budget, Spent
    <2> QED
      BY <1>4, <2>6, <2>7 DEF Elapse
  <1>5. CASE ElapseUpdate \/ UNCHANGED vars
    BY <1>2, <1>5 DEF ElapseUpdate, vars, config, session, sending, pinging, wires
  <1>6. CASE HeadGreets \/ HeadPongs \/ HeadObeys
    <2>1. PICK m \in ToHostLines : /\ toHead # <<>> /\ toHead' = Tail(toHead)
                                   /\ toHost' = Append(toHost, m) /\ Class(m) = Class(toHead[1])
      BY <1>6, HeadAnswers
    <2>2. Pipe' = Pipe
      BY <2>1, Served
    <2>3. Resting /\ UNCHANGED faults
      BY <1>6 DEF HeadGreets, HeadPongs, HeadObeys, HeadReads, HeadRuns, config, session, sending,
          pinging
    <2>4. \A c \in Classes : Missing(c)' => Missing(c)
      BY <1>1, <2>2, <2>3 DEF Missing, InFlight
    <2>5. sendRetry' <= sendRetry
      BY <2>3, HeadConstants DEF TypeOK, SendingType
    <2> QED
      BY <1>1, <2>2, <2>3, <2>4, <2>5, Kept
  <1>7. CASE NobodyReads
    BY <1>7 DEF NobodyReads, HeadRuns, config, Budget, Spent
  <1>8. CASE LoseToHead
    <2>1. Resting /\ Fault("lose") /\ toHead # <<>> /\ toHead' = Tail(toHead) /\ UNCHANGED toHost
      BY <1>8 DEF LoseToHead, HeadRuns, config, session, sending, pinging
    <2>2. PICK i \in 1..Len(Pipe) : Pipe' = Without(Pipe, i)
      BY <2>1, Dropped
    <2>3. Pipe \in Seq(Classes) /\ Pipe[i] \in Classes /\ Pipe # <<>>
      BY <2>2, LinesTyped
    <2>4. \A c \in Classes \ {Pipe[i]} : InFlight(c) => InFlight(c)'
      BY <2>2, <2>3, HasWithout DEF InFlight
    <2> QED
      BY <1>3, <2>1, <2>3, <2>4 DEF AllHeadFaults
  <1>9. CASE LoseToHost
    <2>1. Resting /\ Fault("lose") /\ toHost # <<>> /\ toHost' = Tail(toHost) /\ UNCHANGED toHead
      BY <1>9 DEF LoseToHost, HeadRuns, config, session, sending, pinging
    <2>2. Pipe # <<>> /\ Pipe' = Tail(Pipe) /\ Pipe \in Seq(Classes) /\ Pipe[1] \in Classes
      BY <2>1, Taken, LinesTyped
    <2>3. \A c \in Classes \ {Pipe[1]} : InFlight(c) => InFlight(c)'
      BY <2>2, HasTail DEF InFlight
    <2> QED
      BY <1>3, <2>1, <2>2, <2>3 DEF AllHeadFaults
  <1>10. CASE HeadRestarts \/ HeadErrs
    <2>1. Resting /\ UNCHANGED wires /\ \E kind \in AllHeadFaults : Fault(kind)
      BY <1>10 DEF HeadRestarts, HeadErrs, HeadRuns, config, session, sending, pinging, AllHeadFaults
    <2>2. Pipe' = Pipe /\ \A c \in Classes : InFlight(c)' <=> InFlight(c)
      BY <2>1 DEF wires, Pipe, InFlight
    <2> QED
      BY <1>3, <2>1, <2>2 DEF Classes
  <1>11. CASE HeadRefuses
    <2>1. /\ Resting /\ Fault("refuse") /\ toHead # <<>> /\ toHead' = Tail(toHead)
          /\ toHost' = Append(toHost, ER) /\ Class(toHead[1]) = "command"
      BY <1>11 DEF HeadRefuses, HeadReads, HeadRuns, Answer, Class, config, session, sending, pinging
    <2>2. ER \in ToHostLines
      BY DEF ToHostLines
    <2>3. PICK i \in 1..Len(Pipe) : /\ Pipe' = [Pipe EXCEPT ![i] = Class(ER)]
                                    /\ Pipe[i] = "command"
      BY <2>1, <2>2, Served
    <2>4. Pipe \in Seq(Classes) /\ Class(ER) \in Classes /\ Pipe # <<>>
      BY <2>3, LinesTyped, ClassOf
    <2>5. \A c \in Classes \ {"command"} : InFlight(c) => InFlight(c)'
      BY <2>3, <2>4, HasReplaced DEF InFlight
    <2> QED
      BY <1>3, <2>1, <2>4, <2>5 DEF AllHeadFaults, Classes
  <1> QED
    BY <1>4, <1>5, <1>6, <1>7, <1>8, <1>9, <1>10, <1>11 DEF HeadActs, Environment

\* A head that is there is given up only after more faults than there are retries.
LEMMA ToleranceStep ==
    ASSUME IInv, TypeOK', [Next]_vars
    PROVE  Budget' /\ Spent' /\ ToleratesLosses'
  <1>1. Budget' /\ Spent'
    BY OwnerBudget, PatrolsBudget, ReceiveBudget, WorldBudget DEF IInv, Next
  <1>2. UNCHANGED faults \/ \E kind \in AllHeadFaults : Fault(kind)
    BY FaultOrNot
  <1>3. headType' = headType
    BY DEF Next, Owner, Bootstrap, Recover, Standby, Shutdown, Reset, SetHeater, SetHeaterTooHot,
        SetFan, SetCommandCallback, SetAllsetCallback, Call, Patrols, PatrolCommand, PatrolPing,
        PatrolUpdate, PatrolHello, PatrolNoHead, PatrolOffline, Patrol, Elapse,
        ElapseUpdate, Receive, RecvOk, RecvEr, RecvHello, RecvPongReset, RecvPong,
        Incoming, HeadActs, HeadGreets, HeadPongs, HeadObeys, NobodyReads, HeadReads,
        HeadRuns, Environment, LoseToHead, LoseToHost, HeadRestarts, HeadRefuses,
        HeadErrs, config, vars
  <1>4. FaultTotal > MaxRetry => FaultTotal' > MaxRetry
    <2>1. PICK f \in Nat : f = FaultTotal /\ FaultTotal' \in {f, f + 1}
      <3>1. FaultTotal \in Nat
        BY FaultCounts DEF IInv
      <3>2. UNCHANGED faults => FaultTotal' = FaultTotal
        BY DEF FaultTotal
      <3> QED
        BY <1>2, <3>1, <3>2, FaultCounts, Zenon DEF IInv
    <2>2. \A n \in Nat : n > MaxRetry => n + 1 > MaxRetry
      BY HeadConstants
    <2> QED
      BY <2>1, <2>2, Zenon
  <1>5. CASE PatrolOffline
    <2>1. expired /\ sendRetry >= MaxRetry /\ sendRetry \in Nat
      BY <1>5, HeadConstants DEF PatrolOffline, IInv, TypeOK, SendingType
    <2>2. PICK c \in {"greeting", "command", "ping"} : Awaited(c)
      BY <1>5, AwaitedIs DEF PatrolOffline
    <2>3. headType # "absent" => FaultTotal > MaxRetry
      <3>1. CASE Pipe = <<>>
        <4>1. Missing(c)
          BY <2>2, <3>1 DEF InFlight, Has, Missing
        <4>2. \A n, f \in Nat : n + Lost <= f /\ n >= MaxRetry => f > MaxRetry
          BY <2>2, <4>1, HeadConstants DEF Lost, One
        <4> QED
          BY <2>1, <4>2, FaultCounts, Zenon DEF IInv, Budget
      <3>2. CASE Pipe # <<>>
        <4>1. headType # "absent" => sendRetry + Lost < FaultTotal
          BY <2>1, <2>2, <3>2 DEF IInv, Spent, Classes
        <4>2. \A n, f \in Nat : n + Lost < f /\ n >= MaxRetry => f > MaxRetry
          BY HeadConstants DEF Lost, One
        <4> QED
          BY <2>1, <4>1, <4>2, FaultCounts, Zenon DEF IInv
      <3> QED
        BY <3>1, <3>2
    <2>4. headType' # "absent" => FaultTotal' > MaxRetry
      BY <1>3, <1>4, <2>3, Zenon
    <2> QED
      BY <1>1, <2>4, Zenon DEF ToleratesLosses
  <1>6. CASE ~PatrolOffline
    <2>1. "OFFLINE" \in raised' => "OFFLINE" \in raised
      <3>1. CASE Owner
        <4>1. ASSUME NEW kind, NEW queue, Enqueued(kind, queue)
              PROVE  raised' = raised \/ raised' = raised \cup {"BUSY"}
          BY <4>1 DEF Enqueued, LoseFirst, Raise
        <4>2. ASSUME Recover \/ Standby \/ Shutdown
              PROVE  raised' = raised \/ raised' = raised \cup {"BUSY"}
          BY <4>1, <4>2 DEF Recover, Standby, Shutdown
        <4>3. ASSUME NEW ch, NEW v, NEW r, Set(ch, v, r)
              PROVE  raised' = raised \/ raised' = raised \cup {"BUSY"}
          BY <4>3 DEF Set, Raise
        <4>4. ASSUME NEW v \in Level, SetHeater(v) \/ SetFan(v)
              PROVE  raised' = raised \/ raised' = raised \cup {"BUSY"}
          BY <4>3, <4>4 DEF SetHeater, SetFan
        <4>5. SetHeaterTooHot => raised' = raised \cup {"TEMPERATURE"}
          BY DEF SetHeaterTooHot, Raise
        <4>6. Bootstrap \/ Reset \/ SetCommandCallback \/ SetAllsetCallback => raised' = raised
          BY DEF Bootstrap, Reset, SetCommandCallback, SetAllsetCallback
        <4>7. \/ raised' = raised \/ raised' = raised \cup {"BUSY"}
              \/ raised' = raised \cup {"TEMPERATURE"}
          BY <3>1, <4>2, <4>4, <4>5, <4>6 DEF Owner
        <4> QED
          BY <4>7
      <3>2. CASE Patrols
        BY <1>6, <3>2 DEF Patrols, PatrolCommand, PatrolPing, PatrolUpdate, PatrolHello,
            PatrolNoHead, Retry
      <3>3. CASE Receive
        BY <3>3 DEF Receive, RecvOk, RecvEr, RecvHello, RecvPongReset, RecvPong, LoseFirst,
            Offline, Raise
      <3>4. CASE Elapse \/ ElapseUpdate \/ HeadActs \/ Environment \/ UNCHANGED vars
        BY <3>4 DEF Elapse, ElapseUpdate, HeadActs, HeadGreets, HeadPongs, HeadObeys, NobodyReads,
            HeadReads, HeadRuns, Environment, LoseToHead, LoseToHost, HeadRestarts, HeadRefuses,
            HeadErrs, owner, vars
      <3> QED
        BY <3>1, <3>2, <3>3, <3>4 DEF Next
    <2>2. "OFFLINE" \in raised /\ headType # "absent" => FaultTotal > MaxRetry
      BY Zenon DEF IInv, ToleratesLosses
    <2> QED
      BY <1>1, <1>3, <1>4, <2>1, <2>2, Zenon DEF ToleratesLosses
  <1> QED
    BY <1>1, <1>5, <1>6

-----------------------------------------------------------------------------
(* The order of what is on its way. *)

LEMMA OrderlyAppend ==
    ASSUME NEW s \in Seq(Classes), NEW e \in Classes, OrderlyQueue(s),
           e \in Work => ~Has(s, "command") /\ ~Has(s, "refusal"),
           e # "ping" => ~Has(s, "greeting")
    PROVE  OrderlyQueue(Append(s, e))
  <1> DEFINE q == Append(s, e)
  <1>1. Len(q) = Len(s) + 1 /\ Len(s) \in Nat /\ q[Len(s) + 1] = e
    OBVIOUS
  <1>2. \A k \in 1..Len(s) : q[k] = s[k]
    OBVIOUS
  <1> HIDE DEF q
  <1>3. ASSUME NEW i \in 1..Len(q), NEW j \in 1..Len(q), i < j
        PROVE  ~(q[i] \in Work /\ q[j] \in Work) /\ (q[i] = "greeting" => q[j] = "ping")
    <2>1. i \in 1..Len(s) /\ q[i] = s[i]
      BY <1>1, <1>2, <1>3
    <2>2. CASE j \in 1..Len(s)
      BY <1>2, <1>3, <2>1, <2>2 DEF OrderlyQueue
    <2>3. CASE j = Len(s) + 1
      <3>1. q[j] = e
        BY <1>1, <2>3
      <3> QED
        BY <2>1, <3>1 DEF Has, Work
    <2> QED
      BY <1>1, <2>2, <2>3
  <1> QED
    BY <1>3 DEF OrderlyQueue, q

LEMMA OrderlyTail ==
    ASSUME NEW s \in Seq(Classes), s # <<>>, OrderlyQueue(s)
    PROVE  /\ OrderlyQueue(Tail(s)) /\ Tail(s) \in Seq(Classes)
           /\ s[1] \in Work => ~Has(Tail(s), "command") /\ ~Has(Tail(s), "refusal")
           /\ s[1] = "greeting" => \A c : Has(Tail(s), c) => c = "ping"
  <1>1. Len(Tail(s)) = Len(s) - 1 /\ Len(s) \in Nat /\ Len(s) >= 1
    OBVIOUS
  <1>2. \A k \in 1..Len(Tail(s)) : k + 1 \in 1..Len(s) /\ 1 < k + 1 /\ Tail(s)[k] = s[k + 1]
    OBVIOUS
  <1>3. OrderlyQueue(Tail(s))
    <2>1. ASSUME NEW i \in 1..Len(Tail(s)), NEW j \in 1..Len(Tail(s)), i < j
          PROVE  /\ ~(Tail(s)[i] \in Work /\ Tail(s)[j] \in Work)
                 /\ Tail(s)[i] = "greeting" => Tail(s)[j] = "ping"
      <3>1. i + 1 \in 1..Len(s) /\ j + 1 \in 1..Len(s) /\ i + 1 < j + 1
        BY <1>2, <2>1
      <3> QED
        BY <1>2, <3>1 DEF OrderlyQueue
    <2> QED
      BY <2>1 DEF OrderlyQueue
  <1>4. 1 \in 1..Len(s)
    BY <1>1
  <1>5. s[1] \in Work => ~Has(Tail(s), "command") /\ ~Has(Tail(s), "refusal")
    BY <1>2, <1>4 DEF OrderlyQueue, Has, Work
  <1>6. s[1] = "greeting" => \A c : Has(Tail(s), c) => c = "ping"
    BY <1>2, <1>4 DEF OrderlyQueue, Has
  <1> QED
    BY <1>3, <1>5, <1>6

LEMMA OrderlyWithout ==
    ASSUME NEW s \in Seq(Classes), NEW i \in 1..Len(s), OrderlyQueue(s)
    PROVE  OrderlyQueue(Without(s, i))
  <1> DEFINE q == Without(s, i)
             at(k) == IF k < i THEN k ELSE k + 1
  <1>1. Len(s) \in Nat /\ Len(s) - 1 \in Nat
    OBVIOUS
  <1>2. Len(q) = Len(s) - 1
    BY <1>1 DEF Without
  <1>3. \A k \in 1..(Len(s) - 1) : q[k] = s[at(k)] /\ at(k) \in 1..Len(s)
    BY <1>1 DEF Without
  <1>4. \A k, m \in 1..(Len(s) - 1) : k < m => at(k) < at(m)
    BY <1>1
  <1> HIDE DEF q, at
  <1> QED
    BY <1>2, <1>3, <1>4 DEF OrderlyQueue, q

LEMMA OrderlyReplaced ==
    ASSUME NEW s \in Seq(Classes), NEW i \in 1..Len(s), s[i] = "command", OrderlyQueue(s)
    PROVE  OrderlyQueue([s EXCEPT ![i] = "refusal"])
  <1> DEFINE q == [s EXCEPT ![i] = "refusal"]
  <1>1. Len(q) = Len(s)
    OBVIOUS
  <1>2. \A k \in 1..Len(s) : (k # i /\ q[k] = s[k]) \/ (q[k] = "refusal" /\ s[k] = "command")
    OBVIOUS
  <1> HIDE DEF q
  <1>3. \A k \in 1..Len(s) : /\ q[k] \in Work => s[k] \in Work
                             /\ q[k] = "greeting" => s[k] = "greeting"
                             /\ s[k] = "ping" => q[k] = "ping"
    BY <1>2 DEF Work
  <1> QED
    BY <1>1, <1>3 DEF OrderlyQueue, q

\* Replacing adds nothing but the replacement.
LEMMA HasInReplaced ==
    ASSUME NEW s \in Seq(Classes), NEW i \in 1..Len(s), NEW e \in Classes, NEW c
    PROVE  Has([s EXCEPT ![i] = e], c) => Has(s, c) \/ c = e
  <1>1. Len([s EXCEPT ![i] = e]) = Len(s)
    OBVIOUS
  <1>2. \A k \in 1..Len(s) : [s EXCEPT ![i] = e][k] \in {s[k], e}
    OBVIOUS
  <1> QED
    BY <1>1, <1>2 DEF Has

\* Nothing new on the line.
LEMMA LineStays ==
    ASSUME TypeOK, LineInOrder, Pipe' = Pipe, UNCHANGED cmdbuf, expired' => expired \/ Pipe = <<>>,
           stFlag' # stFlag => stFlag' # "BOOTING",
           stFlag' = "RUNNING" => stFlag = "RUNNING" \/ Pipe = <<>>
    PROVE  LineInOrder'
  <1>1. \A c : InFlight(c)' <=> InFlight(c)
    BY DEF InFlight
  <1>2. Pipe = <<>> => \A c : ~InFlight(c)
    BY DEF InFlight, Has
  <1>3. Orderly' /\ Quiet'
    BY DEF LineInOrder, Orderly, Quiet
  <1>4. Unopened' /\ Idle'
    BY <1>1, <1>2 DEF LineInOrder, Unopened, Idle
  <1> QED
    BY <1>3, <1>4 DEF LineInOrder

\* The first of the line is taken or lost.
LEMMA LineTakes ==
    ASSUME TypeOK, LineInOrder, Pipe # <<>>, Pipe' = Tail(Pipe), UNCHANGED expired,
           stFlag' # stFlag => stFlag' # "BOOTING",
           stFlag' = "RUNNING" => stFlag = "RUNNING" \/ Pipe[1] = "greeting",
           cmdbuf' = cmdbuf \/ (Pipe[1] = "command" /\ cmdbuf' = NoCmd)
    PROVE  LineInOrder'
  <1>1. Pipe \in Seq(Classes)
    BY LinesTyped
  <1>2. \A c : InFlight(c) <=> Pipe[1] = c \/ InFlight(c)'
    BY <1>1, HasTail DEF InFlight
  <1>3. /\ Pipe[1] \in Work => ~InFlight("command")' /\ ~InFlight("refusal")'
        /\ Pipe[1] = "greeting" => \A c : InFlight(c)' => c = "ping"
        /\ Orderly'
    BY <1>1, OrderlyTail DEF InFlight, LineInOrder, Orderly
  <1>4. Quiet'
    BY DEF LineInOrder, Quiet
  <1>5. Unopened'
    <2>1. ASSUME InFlight("greeting")' PROVE stFlag' # "RUNNING" /\ cmdbuf' = NoCmd
      <3>1. InFlight("greeting") /\ Pipe[1] # "greeting"
        BY <1>2, <1>3, <2>1
      <3> QED
        BY <3>1 DEF LineInOrder, Unopened
    <2>2. stFlag' = "BOOTING" => cmdbuf' = NoCmd
      BY DEF LineInOrder, Unopened
    <2> QED
      BY <2>1, <2>2 DEF Unopened
  <1>6. Idle'
    <2>1. CASE Pipe[1] \in {"command", "greeting"}
      BY <1>3, <2>1 DEF Idle, Work
    <2>2. CASE Pipe[1] \notin {"command", "greeting"}
      BY <1>2, <2>2 DEF LineInOrder, Idle
    <2> QED
      BY <2>1, <2>2
  <1> QED
    BY <1>3, <1>4, <1>5, <1>6 DEF LineInOrder

\* One of the line is lost.
LEMMA LineDrops ==
    ASSUME TypeOK, LineInOrder, NEW i \in 1..Len(Pipe), Pipe' = Without(Pipe, i),
           UNCHANGED <<expired, stFlag, cmdbuf>>
    PROVE  LineInOrder'
  <1>1. Pipe \in Seq(Classes) /\ Pipe # <<>>
    BY LinesTyped
  <1>2. \A c : InFlight(c)' => InFlight(c)
    BY <1>1, HasWithout DEF InFlight
  <1>3. Orderly'
    BY <1>1, OrderlyWithout DEF LineInOrder, Orderly
  <1>4. Quiet'
    BY <1>1 DEF LineInOrder, Quiet
  <1>5. Unopened' /\ Idle'
    BY <1>2 DEF LineInOrder, Unopened, Idle
  <1> QED
    BY <1>3, <1>4, <1>5 DEF LineInOrder

\* A command is refused.
LEMMA LineRefuses ==
    ASSUME TypeOK, LineInOrder, NEW i \in 1..Len(Pipe), Pipe[i] = "command",
           Pipe' = [Pipe EXCEPT ![i] = "refusal"], UNCHANGED <<expired, stFlag, cmdbuf>>
    PROVE  LineInOrder'
  <1>1. Pipe \in Seq(Classes) /\ Pipe # <<>> /\ "refusal" \in Classes
    BY LinesTyped DEF Classes
  <1>2. \A c : InFlight(c)' => InFlight(c) \/ c = "refusal"
    BY <1>1, HasInReplaced DEF InFlight
  <1>3. InFlight("command")
    BY DEF InFlight, Has
  <1>4. Orderly'
    BY <1>1, OrderlyReplaced DEF LineInOrder, Orderly
  <1>5. Quiet'
    BY <1>1 DEF LineInOrder, Quiet
  <1>6. Unopened' /\ Idle'
    BY <1>2, <1>3 DEF LineInOrder, Unopened, Idle
  <1> QED
    BY <1>4, <1>5, <1>6 DEF LineInOrder

\* A ping, or a greeting where none is on its way, is sent.
LEMMA LineAsks ==
    ASSUME TypeOK, LineInOrder, NEW e \in {"ping", "greeting"}, Pipe' = Append(Pipe, e),
           expired' = FALSE,
           \/ e = "ping" /\ UNCHANGED <<stFlag, cmdbuf>>
           \/ e = "greeting" /\ ~InFlight("greeting") /\ stFlag' = "BOOTING" /\ cmdbuf' = NoCmd
    PROVE  LineInOrder'
  <1>1. Pipe \in Seq(Classes) /\ e \in Classes
    BY LinesTyped DEF Classes
  <1>2. \A c : InFlight(c)' <=> InFlight(c) \/ c = e
    BY <1>1, HasAppend DEF InFlight
  <1>3. Orderly'
    BY <1>1, OrderlyAppend DEF LineInOrder, Orderly, InFlight, Work
  <1>4. Quiet'
    BY DEF Quiet
  <1>5. Unopened' /\ Idle'
    BY <1>2 DEF LineInOrder, Unopened, Idle
  <1> QED
    BY <1>3, <1>4, <1>5 DEF LineInOrder

\* In a session, a command is sent behind a line without work.
LEMMA LineWorks ==
    ASSUME NEW q \in Seq(Classes), OrderlyQueue(q), ~Has(q, "greeting"),
           ~Has(q, "command"), ~Has(q, "refusal"), Pipe' = Append(q, "command"),
           expired' = FALSE, stFlag' = "RUNNING", cmdbuf' # NoCmd
    PROVE  LineInOrder'
  <1>1. "command" \in Classes
    BY DEF Classes
  <1>2. \A c : InFlight(c)' <=> Has(q, c) \/ c = "command"
    BY <1>1, HasAppend DEF InFlight
  <1>3. Orderly'
    BY <1>1, OrderlyAppend DEF Orderly
  <1>4. Quiet' /\ Unopened' /\ Idle'
    BY <1>2 DEF Quiet, Unopened, Idle
  <1> QED
    BY <1>3, <1>4 DEF LineInOrder

\* A line without a greeting has none in its class either.
LEMMA NoGreeting ==
    ASSUME TypeOK, ~Greeting
    PROVE  ~InFlight("greeting")
  <1>1. /\ \A i \in 1..Len(toHead) : Class(toHead[i]) # "greeting"
        /\ \A i \in 1..Len(toHost) : Class(toHost[i]) # "greeting"
    BY DEF Greeting, Class
  <1>2. \A k \in 1..Len(Pipe) : /\ k <= Len(toHost) => k \in 1..Len(toHost)
                                /\ ~(k <= Len(toHost)) => k - Len(toHost) \in 1..Len(toHead)
    BY LinesTyped
  <1>3. \A k \in 1..Len(Pipe) :
            Pipe[k] = IF k <= Len(toHost) THEN Class(toHost[k]) ELSE Class(toHead[k - Len(toHost)])
    BY LinesTyped DEF Pipe, PipeOf
  <1> QED
    BY <1>1, <1>2, <1>3 DEF InFlight, Has

\* Work that is sent when nothing is out.
LEMMA LineWorksFrom ==
    ASSUME TypeOK, LineInOrder, NEW m \in Commands, Say(m), UNCHANGED <<stFlag, toHost>>,
           stFlag = "RUNNING", cmdbuf = NoCmd \/ Pipe = <<>>, cmdbuf' # NoCmd
    PROVE  LineInOrder'
  <1>1. m \in ToHeadLines /\ Class(m) = "command"
    BY Lines, ClassOf
  <1>2. Pipe' = Append(Pipe, "command") /\ Pipe \in Seq(Classes) /\ expired' = FALSE
    BY <1>1, Said, LinesTyped DEF Say
  <1>3. ~Has(Pipe, "greeting") /\ ~Has(Pipe, "command") /\ ~Has(Pipe, "refusal")
    BY DEF LineInOrder, Unopened, Idle, InFlight, Has
  <1>4. OrderlyQueue(Pipe)
    BY DEF LineInOrder, Orderly
  <1> QED
    BY <1>2, <1>3, <1>4, LineWorks

\* The operations of the owner.
LEMMA OwnerLine ==
    ASSUME TypeOK, TypeOK', LineInOrder, Timely', Owner
    PROVE  LineInOrder'
  <1> USE DEF Call
  <1>1. ASSUME UNCHANGED <<toHead, toHost, expired, cmdbuf, stFlag>> PROVE LineInOrder'
    <2>1. Pipe' = Pipe
      BY <1>1 DEF Pipe
    <2> QED
      BY <1>1, <2>1, LineStays
  <1>2. CASE Bootstrap
    <2>1. ~Greeting
      BY <1>2 DEF Bootstrap, Timely
    <2>2. Hello \in ToHeadLines /\ Class(Hello) = "greeting"
      BY Lines, ClassOf
    <2>3. Pipe' = Append(Pipe, "greeting")
      BY <1>2, <2>2, Said DEF Bootstrap, Say
    <2> QED
      BY <1>2, <2>1, <2>3, NoGreeting, LineAsks DEF Bootstrap, Say
  <1>3. ASSUME NEW kind, NEW queue \in Seq(Commands), Enqueued(kind, queue),
               UNCHANGED <<toHost, stFlag>>
        PROVE  LineInOrder'
    <2>1. CASE queue # <<>> /\ Sendable /\ SendFirst(queue)
      <3>1. queue[1] \in Commands /\ queue[1] # NoCmd
        BY <2>1, QueueTypes, Lines
      <3>2. Say(queue[1]) /\ cmdbuf' = queue[1]
        BY <2>1 DEF SendFirst, Say
      <3> QED
        BY <1>3, <2>1, <3>1, <3>2, LineWorksFrom DEF Sendable
    <2>2. CASE UNCHANGED <<cmdbuf, expired, toHead>>
      BY <1>1, <1>3, <2>2
    <2> QED
      BY <1>3, <2>1, <2>2 DEF Enqueued, LoseFirst, sending
  <1>4. CASE Recover \/ Standby \/ Shutdown
    <2>1. /\ commandQueue \o CommandsFor(want) \in Seq(Commands)
          /\ commandQueue \o CommandsFor(Off) \in Seq(Commands)
          /\ \A t \in Level : commandQueue \o CommandsFor(OffUndefined(t)) \in Seq(Commands)
      BY RestoringType, FreshType, OffType DEF TypeOK, SessionType, SendingType
    <2>2. UNCHANGED <<toHost, stFlag>>
      BY <1>4 DEF Recover, Standby, Shutdown, session
    <2> QED
      BY <1>3, <1>4, <2>1, <2>2 DEF Recover, Standby, Shutdown
  <1>5. CASE Reset
    <2>1. Pipe' = Pipe
      BY <1>5 DEF Reset, Pipe
    <2> QED
      BY <1>5, <2>1, LineStays DEF Reset, EndSession, sending
  <1>6. ASSUME NEW v \in Level, SetHeater(v) \/ SetFan(v)
        PROVE  LineInOrder'
    <2>1. PICK ch \in Channel, r \in Setting, name \in AllCalls : Call(name) /\ Set(ch, v, r)
      BY <1>6 DEF SetHeater, SetFan, Channel, Setting, AllCalls
    <2>2. UNCHANGED <<toHost, stFlag>>
      BY <2>1 DEF Set
    <2>3. CASE Sendable /\ cmdbuf' = Cmd(ch, v) /\ Say(Cmd(ch, v))
      <3>1. Cmd(ch, v) \in Commands /\ Cmd(ch, v) # NoCmd
        BY Lines
      <3> QED
        BY <2>2, <2>3, <3>1, LineWorksFrom DEF Sendable
    <2>4. CASE UNCHANGED <<cmdbuf, toHead, expired>>
      BY <1>1, <2>2, <2>4
    <2> QED
      BY <2>1, <2>3, <2>4 DEF Set
  <1>7. CASE SetCommandCallback \/ SetAllsetCallback \/ SetHeaterTooHot
    BY <1>1, <1>7 DEF SetCommandCallback, SetAllsetCallback, SetHeaterTooHot, session, sending
  <1> QED
    BY <1>2, <1>4, <1>5, <1>6, <1>7 DEF Owner

\* The timer.
LEMMA PatrolsLine ==
    ASSUME TypeOK, TypeOK', LineInOrder, Patrols
    PROVE  LineInOrder'
  <1>1. UNCHANGED toHost
    BY DEF Patrols, PatrolCommand, PatrolPing, PatrolUpdate, PatrolHello, PatrolNoHead,
           PatrolOffline, Patrol
  <1>2. /\ Hello \in ToHeadLines /\ Class(Hello) = "greeting"
        /\ Ping \in ToHeadLines /\ Class(Ping) = "ping"
    BY Lines, ClassOf
  <1>3. expired => Pipe = <<>> /\ \A c : ~InFlight(c)
    BY DEF LineInOrder, Quiet, InFlight, Has
  <1>4. CASE PatrolCommand
    <2>1. cmdbuf \in Commands
      BY <1>4 DEF PatrolCommand, TypeOK, SendingType
    <2>2. Say(cmdbuf) /\ UNCHANGED <<stFlag, cmdbuf>>
      BY <1>4 DEF PatrolCommand, Retry, session
    <2> QED
      BY <1>1, <1>3, <1>4, <2>1, <2>2, LineWorksFrom DEF PatrolCommand
  <1>5. CASE PatrolPing \/ PatrolUpdate
    <2>1. Say(Ping) /\ UNCHANGED <<stFlag, cmdbuf>>
      BY <1>5 DEF PatrolPing, PatrolUpdate, Retry, session
    <2>2. Pipe' = Append(Pipe, "ping") /\ expired' = FALSE
      BY <1>1, <1>2, <2>1, Said DEF Say
    <2> QED
      BY <2>1, <2>2, LineAsks
  <1>6. CASE PatrolHello
    <2>1. Say(Hello) /\ UNCHANGED <<stFlag, cmdbuf>>
      BY <1>6 DEF PatrolHello, Retry, session
    <2>2. Pipe' = Append(Pipe, "greeting") /\ expired' = FALSE
      BY <1>1, <1>2, <2>1, Said DEF Say
    <2>3. ~InFlight("greeting") /\ stFlag' = "BOOTING" /\ cmdbuf' = NoCmd
      BY <1>3, <1>6, <2>1 DEF PatrolHello, LineInOrder, Unopened
    <2> QED
      BY <2>2, <2>3, LineAsks
  <1>7. CASE PatrolNoHead \/ PatrolOffline
    <2>1. /\ UNCHANGED <<toHead, expired, cmdbuf>> /\ expired
          /\ stFlag' # stFlag => stFlag' # "BOOTING"
      BY <1>7 DEF PatrolNoHead, PatrolOffline, OnReady, Offline, EndSession, sending
    <2>2. Pipe' = Pipe
      BY <1>1, <2>1 DEF Pipe
    <2> QED
      BY <1>3, <2>1, <2>2, LineStays
  <1> QED
    BY <1>4, <1>5, <1>6, <1>7 DEF Patrols

\* The handlers.
LEMMA ReceiveLine ==
    ASSUME TypeOK, TypeOK', LineInOrder, Receive
    PROVE  LineInOrder'
  <1>1. toHost # <<>> /\ toHost' = Tail(toHost)
    BY DEF Receive, RecvOk, RecvEr, RecvHello, RecvPongReset, RecvPong, Incoming
  <1>2. ASSUME UNCHANGED toHead PROVE Pipe # <<>> /\ Pipe[1] = Class(toHost[1]) /\ Pipe' = Tail(Pipe)
    BY <1>1, <1>2, Taken
  <1>3. ASSUME commandQueue # <<>>, SendFirst(commandQueue), UNCHANGED stFlag,
               stFlag = "RUNNING", cmdbuf = NoCmd \/ Class(toHost[1]) = "command"
        PROVE  LineInOrder'
    <2>1. commandQueue[1] \in Commands /\ commandQueue[1] # NoCmd
      BY <1>3, QueueTypes, Lines DEF TypeOK, SendingType
    <2>2. commandQueue[1] \in ToHeadLines /\ Class(commandQueue[1]) = "command"
      BY <2>1, Lines, ClassOf
    <2>3. toHead' = Append(toHead, commandQueue[1]) /\ cmdbuf' = commandQueue[1] /\ expired' = FALSE
      BY <1>3 DEF SendFirst
    <2>4. /\ Pipe # <<>> /\ Pipe[1] = Class(toHost[1]) /\ Pipe' = Append(Tail(Pipe), "command")
          /\ Pipe \in Seq(Classes)
      BY <1>1, <2>2, <2>3, TakenAndSaid, LinesTyped
    <2>5. /\ OrderlyQueue(Tail(Pipe)) /\ Tail(Pipe) \in Seq(Classes)
          /\ Pipe[1] \in Work => ~Has(Tail(Pipe), "command") /\ ~Has(Tail(Pipe), "refusal")
      BY <2>4, OrderlyTail DEF LineInOrder, Orderly
    <2>6. \A c : Has(Tail(Pipe), c) => InFlight(c)
      BY <2>4, HasTail DEF InFlight
    <2>7. ~Has(Tail(Pipe), "greeting")
      BY <1>3, <2>6 DEF LineInOrder, Unopened
    <2>8. ~Has(Tail(Pipe), "command") /\ ~Has(Tail(Pipe), "refusal")
      BY <1>3, <2>4, <2>5, <2>6 DEF LineInOrder, Idle, Work
    <2>9. stFlag' = "RUNNING" /\ cmdbuf' # NoCmd
      BY <1>3, <2>1, <2>3
    <2> QED
      BY <2>3, <2>4, <2>5, <2>7, <2>8, <2>9, LineWorks
  <1>4. CASE RecvOk
    <2>1. Class(toHost[1]) = "command" /\ UNCHANGED stFlag
      BY <1>4 DEF RecvOk, Incoming, Class, session
    <2>2. CASE commandQueue # <<>> /\ stFlag = "RUNNING" /\ SendFirst(commandQueue)
      BY <1>3, <2>1, <2>2
    <2>3. CASE cmdbuf' = NoCmd /\ UNCHANGED <<expired, toHead>>
      BY <1>2, <2>1, <2>3, LineTakes
    <2> QED
      BY <1>4, <2>2, <2>3 DEF RecvOk, LoseFirst
  <1>5. CASE RecvEr
    BY <1>2, <1>5, LineTakes DEF RecvEr, session, sending
  <1>6. CASE RecvHello
    <2>1. Class(toHost[1]) = "greeting"
      BY <1>6 DEF RecvHello, Incoming, Class
    <2>2. UNCHANGED <<toHead, expired, cmdbuf>> /\ stFlag' # "BOOTING"
      BY <1>6 DEF RecvHello, OnReady, sending
    <2> QED
      BY <1>2, <2>1, <2>2, LineTakes
  <1>7. CASE RecvPongReset
    BY <1>2, <1>7, LineTakes DEF RecvPongReset, Offline, EndSession, sending
  <1>8. CASE RecvPong
    <2>1. UNCHANGED stFlag
      BY <1>8 DEF RecvPong
    <2>2. CASE commandQueue # <<>> /\ Sendable /\ SendFirst(commandQueue)
      BY <1>3, <2>1, <2>2 DEF Sendable
    <2>3. CASE UNCHANGED <<cmdbuf, expired, toHead>>
      BY <1>2, <2>1, <2>3, LineTakes
    <2> QED
      BY <1>8, <2>2, <2>3 DEF RecvPong, LoseFirst, sending
  <1> QED
    BY <1>4, <1>5, <1>6, <1>7, <1>8 DEF Receive

\* The clock, the head and the line.
LEMMA WorldLine ==
    ASSUME TypeOK, TypeOK', LineInOrder, Timely',
           Elapse \/ ElapseUpdate \/ HeadActs \/ Environment \/ UNCHANGED vars
    PROVE  LineInOrder'
  <1>1. UNCHANGED <<stFlag, cmdbuf>>
    BY DEF Elapse, ElapseUpdate, HeadActs, HeadGreets, HeadPongs, HeadObeys, NobodyReads,
           HeadReads, HeadRuns, Environment, LoseToHead, LoseToHost, HeadRestarts, HeadRefuses,
           HeadErrs, session, sending, vars
  <1>2. ~Elapse => UNCHANGED expired
    BY DEF ElapseUpdate, HeadActs, HeadGreets, HeadPongs, HeadObeys, NobodyReads,
           HeadReads, HeadRuns, Environment, LoseToHead, LoseToHost, HeadRestarts, HeadRefuses,
           HeadErrs, sending, vars
  <1>3. CASE Elapse
    <2>1. ~Fault("slow")
      <3>1. ASSUME Fault("slow") PROVE FALSE
        <4>1. faults["slow"] \in Nat /\ faults'["slow"] = faults["slow"] + 1
          BY <3>1 DEF Fault, TypeOK, CountType, AllHeadFaults
        <4> QED
          BY <4>1 DEF Timely
      <3> QED
        BY <3>1
    <2>2. toHead = <<>> /\ toHost = <<>> /\ UNCHANGED <<toHead, toHost>>
      BY <1>3, <2>1 DEF Elapse, wires
    <2>3. Pipe' = Pipe /\ Pipe = <<>>
      BY <2>2, LinesTyped DEF Pipe
    <2> QED
      BY <1>1, <2>3, LineStays
  <1>4. CASE ElapseUpdate \/ HeadRestarts \/ HeadErrs \/ UNCHANGED vars
    <2>1. Pipe' = Pipe /\ UNCHANGED expired
      BY <1>4 DEF ElapseUpdate, HeadRestarts, HeadErrs, HeadRuns, wires, vars, sending, Pipe
    <2> QED
      BY <1>1, <2>1, LineStays
  <1>5. CASE HeadGreets \/ HeadPongs \/ HeadObeys
    <2>1. Pipe' = Pipe /\ UNCHANGED expired
      BY <1>5, HeadAnswers, Served DEF HeadGreets, HeadPongs, HeadObeys, HeadReads, HeadRuns, sending
    <2> QED
      BY <1>1, <2>1, LineStays
  <1>6. CASE NobodyReads \/ LoseToHead
    <2>1. toHead # <<>> /\ toHead' = Tail(toHead) /\ UNCHANGED <<toHost, expired>>
      BY <1>6 DEF NobodyReads, LoseToHead, HeadRuns, sending
    <2> QED
      BY <1>1, <2>1, Dropped, LineDrops
  <1>7. CASE LoseToHost
    <2>1. toHost # <<>> /\ toHost' = Tail(toHost) /\ UNCHANGED <<toHead, expired>>
      BY <1>7 DEF LoseToHost, HeadRuns, sending
    <2> QED
      BY <1>1, <2>1, Taken, LineTakes
  <1>8. CASE HeadRefuses
    <2>1. /\ toHead # <<>> /\ toHead' = Tail(toHead) /\ toHost' = Append(toHost, ER)
          /\ Class(toHead[1]) = "command" /\ UNCHANGED expired
      BY <1>8 DEF HeadRefuses, HeadReads, HeadRuns, Answer, Class, sending
    <2>2. ER \in ToHostLines /\ Class(ER) = "refusal"
      BY ClassOf DEF ToHostLines
    <2> QED
      BY <1>1, <2>1, <2>2, Served, LineRefuses
  <1> QED
    BY <1>3, <1>4, <1>5, <1>6, <1>7, <1>8 DEF HeadActs, Environment

-----------------------------------------------------------------------------
(* The command in the buffer. *)

\* Without a command in its class, the line has neither a command nor its answer.
LEMMA NoWork ==
    ASSUME NEW h \in Seq(ToHostLines), NEW l \in Seq(ToHeadLines), ~Has(PipeOf(h, l), "command")
    PROVE  /\ \A i \in 1..Len(l) : l[i].type # "CMD"
           /\ \A i \in 1..Len(h) : h[i].type # "OK"
  <1>1. Len(PipeOf(h, l)) = Len(h) + Len(l) /\ Len(h) \in Nat /\ Len(l) \in Nat
    BY PipeType
  <1>2. \A k \in 1..(Len(h) + Len(l)) :
            PipeOf(h, l)[k] = IF k <= Len(h) THEN Class(h[k]) ELSE Class(l[k - Len(h)])
    BY DEF PipeOf
  <1>3. \A i \in 1..Len(h) : Class(h[i]) # "command"
    BY <1>1, <1>2 DEF Has
  <1>4. \A i \in 1..Len(l) : Class(l[i]) # "command"
    <2>1. \A i \in 1..Len(l) : /\ Len(h) + i \in 1..(Len(h) + Len(l)) /\ ~(Len(h) + i <= Len(h))
                               /\ (Len(h) + i) - Len(h) = i
      BY <1>1
    <2>2. \A i \in 1..Len(l) : PipeOf(h, l)[Len(h) + i] = Class(l[i])
      BY <1>2, <2>1
    <2> QED
      BY <1>1, <2>1, <2>2 DEF Has
  <1> QED
    BY <1>3, <1>4 DEF Class

\* The members of a queue that has grown or shrunk.
LEMMA Members ==
    ASSUME NEW S, NEW s \in Seq(S)
    PROVE  /\ \A e \in S : /\ Len(Append(s, e)) = Len(s) + 1 /\ Len(s) \in Nat
                           /\ \A i \in 1..Len(Append(s, e)) :
                                  (i \in 1..Len(s) /\ Append(s, e)[i] = s[i])
                                  \/ (i = Len(s) + 1 /\ Append(s, e)[i] = e)
           /\ s # <<>> => /\ 1 \in 1..Len(s)
                          /\ \A i \in 1..Len(Tail(s)) : i + 1 \in 1..Len(s) /\ Tail(s)[i] = s[i + 1]
  OBVIOUS

\* What is on the line comes from it, or is the buffered command.
LEMMA AnsweredStays ==
    ASSUME Answered, UNCHANGED <<cmdbuf, applied>>, wasReset => wasReset',
           cmdbuf # NoCmd => \A i \in 1..Len(toHead') : toHead'[i].type = "CMD" =>
               toHead'[i] = cmdbuf \/ \E j \in 1..Len(toHead) : toHead'[i] = toHead[j],
           \A i \in 1..Len(toHost') : toHost'[i].type = "OK" =>
               \E j \in 1..Len(toHost) : toHost'[i] = toHost[j]
    PROVE  Answered'
  <1> SUFFICES ASSUME cmdbuf # NoCmd
               PROVE  /\ \A i \in 1..Len(toHead') : toHead'[i].type = "CMD" => toHead'[i] = cmdbuf
                      /\ (\E i \in 1..Len(toHost') : toHost'[i].type = "OK") =>
                             wasReset' \/ applied[cmdbuf.ch] = cmdbuf.v
    BY DEF Answered
  <1>1. /\ \A i \in 1..Len(toHead) : toHead[i].type = "CMD" => toHead[i] = cmdbuf
        /\ (\E i \in 1..Len(toHost) : toHost[i].type = "OK") =>
               wasReset \/ applied[cmdbuf.ch] = cmdbuf.v
    BY DEF Answered
  <1> QED
    BY <1>1

\* A command is sent over a line without work.
LEMMA AnsweredSent ==
    ASSUME TypeOK, NEW h \in Seq(ToHostLines), ~Has(PipeOf(h, toHead), "command"),
           NEW m \in Commands, toHead' = Append(toHead, m), cmdbuf' = m, toHost' = h
    PROVE  Answered'
  <1>1. toHead \in Seq(ToHeadLines) /\ m \in ToHeadLines
    BY LinesTyped, Lines
  <1>2. \A i \in 1..Len(toHead) : toHead[i].type # "CMD"
    BY <1>1, NoWork
  <1>3. \A i \in 1..Len(h) : h[i].type # "OK"
    BY <1>1, NoWork
  <1>4. \A i \in 1..Len(toHead') : toHead'[i].type = "CMD" => toHead'[i] = m
    BY <1>1, <1>2, Members
  <1> QED
    BY <1>3, <1>4 DEF Answered

\* The operations of the owner.
LEMMA OwnerAnswered ==
    ASSUME TypeOK, LineInOrder, Answered, Owner
    PROVE  Answered'
  <1> USE DEF Call
  <1>0. UNCHANGED <<toHost, applied, wasReset>>
    BY DEF Owner, Bootstrap, Recover, Standby, Shutdown, Reset, SetHeater, SetHeaterTooHot, SetFan,
           SetCommandCallback, SetAllsetCallback, head
  <1>1. ASSUME UNCHANGED <<toHead, cmdbuf>> PROVE Answered'
    BY <1>0, <1>1, AnsweredStays
  <1>2. ASSUME Sendable, NEW m \in Commands, Say(m), cmdbuf' = m PROVE Answered'
    <2>1. ~Has(PipeOf(toHost, toHead), "command")
      BY <1>2 DEF Sendable, LineInOrder, Idle, InFlight, Pipe
    <2> QED
      BY <1>0, <1>2, <2>1, AnsweredSent, LinesTyped DEF Say
  <1>3. CASE Bootstrap
    BY <1>3 DEF Bootstrap, Answered
  <1>4. ASSUME NEW kind, NEW queue \in Seq(Commands), Enqueued(kind, queue)
        PROVE  Answered'
    <2>1. CASE queue # <<>> /\ Sendable /\ SendFirst(queue)
      <3>1. queue[1] \in Commands
        BY <2>1, QueueTypes
      <3>2. Say(queue[1]) /\ cmdbuf' = queue[1]
        BY <2>1 DEF SendFirst, Say
      <3> QED
        BY <1>2, <2>1, <3>1, <3>2
    <2>2. CASE UNCHANGED <<cmdbuf, toHead>>
      BY <1>1, <2>2
    <2> QED
      BY <1>4, <2>1, <2>2 DEF Enqueued, LoseFirst, sending
  <1>5. CASE Recover \/ Standby \/ Shutdown
    <2>1. /\ commandQueue \o CommandsFor(want) \in Seq(Commands)
          /\ commandQueue \o CommandsFor(Off) \in Seq(Commands)
          /\ \A t \in Level : commandQueue \o CommandsFor(OffUndefined(t)) \in Seq(Commands)
      BY RestoringType, FreshType, OffType DEF TypeOK, SessionType, SendingType
    <2> QED
      BY <1>4, <1>5, <2>1 DEF Recover, Standby, Shutdown
  <1>6. CASE Reset \/ SetCommandCallback \/ SetAllsetCallback \/ SetHeaterTooHot
    BY <1>1, <1>6 DEF Reset, SetCommandCallback, SetAllsetCallback, SetHeaterTooHot, sending
  <1>7. ASSUME NEW v \in Level, SetHeater(v) \/ SetFan(v)
        PROVE  Answered'
    <2>1. PICK ch \in Channel, r \in Setting : Set(ch, v, r)
      BY <1>7 DEF SetHeater, SetFan, Channel, Setting
    <2>2. Cmd(ch, v) \in Commands
      BY Lines
    <2> QED
      BY <1>1, <1>2, <2>1, <2>2 DEF Set
  <1> QED
    BY <1>3, <1>5, <1>6, <1>7 DEF Owner

\* The timer.
LEMMA PatrolsAnswered ==
    ASSUME TypeOK, Answered, Patrols
    PROVE  Answered'
  <1>1. UNCHANGED <<toHost, applied, wasReset, cmdbuf>>
    BY DEF Patrols, PatrolCommand, PatrolPing, PatrolUpdate, PatrolHello, PatrolNoHead,
           PatrolOffline, Patrol, Retry, head, sending
  <1>2. UNCHANGED toHead \/ \E m \in {cmdbuf, Hello, Ping} : toHead' = Append(toHead, m)
    BY DEF Patrols, PatrolCommand, PatrolPing, PatrolUpdate, PatrolHello, PatrolNoHead,
           PatrolOffline, Retry, Say
  <1>3. CASE UNCHANGED toHead
    BY <1>1, <1>3, AnsweredStays
  <1>4. ASSUME NEW m \in {cmdbuf, Hello, Ping}, cmdbuf # NoCmd, toHead' = Append(toHead, m)
        PROVE  Answered'
    <2>1. toHead \in Seq(ToHeadLines) /\ m \in ToHeadLines
      BY <1>4, LinesTyped, Lines DEF TypeOK, SendingType
    <2>2. m.type = "CMD" => m = cmdbuf
      BY DEF Hello, Ping
    <2>3. \A i \in 1..Len(toHead') : toHead'[i].type = "CMD" =>
               toHead'[i] = cmdbuf \/ \E j \in 1..Len(toHead) : toHead'[i] = toHead[j]
      BY <1>4, <2>1, <2>2, Members
    <2> QED
      BY <1>1, <2>3, AnsweredStays
  <1>5. CASE cmdbuf = NoCmd
    BY <1>1, <1>5 DEF Answered
  <1> QED
    BY <1>2, <1>3, <1>4, <1>5

\* The handlers.
LEMMA ReceiveAnswered ==
    ASSUME TypeOK, LineInOrder, Answered, Receive
    PROVE  Answered'
  <1>1. /\ toHost # <<>> /\ toHost' = Tail(toHost) /\ toHost \in Seq(ToHostLines)
        /\ toHead \in Seq(ToHeadLines) /\ UNCHANGED <<applied, wasReset>>
    BY LinesTyped DEF Receive, RecvOk, RecvEr, RecvHello, RecvPongReset, RecvPong, Incoming, head
  <1>2. ASSUME UNCHANGED <<toHead, cmdbuf>> PROVE Answered'
    <2>1. \A i \in 1..Len(toHost') : \E j \in 1..Len(toHost) : toHost'[i] = toHost[j]
      BY <1>1, Members
    <2> QED
      BY <1>1, <1>2, <2>1, AnsweredStays
  <1>3. ASSUME commandQueue # <<>>, SendFirst(commandQueue),
               Sendable \/ Class(toHost[1]) = "command"
        PROVE  Answered'
    <2>1. /\ commandQueue[1] \in Commands /\ toHead' = Append(toHead, commandQueue[1])
          /\ cmdbuf' = commandQueue[1]
      BY <1>3, QueueTypes DEF SendFirst, TypeOK, SendingType
    <2>2. /\ PipeOf(Tail(toHost), toHead) = Tail(Pipe) /\ Pipe # <<>>
          /\ Pipe[1] = Class(toHost[1]) /\ Pipe \in Seq(Classes)
      BY <1>1, PipeRecv, LinesTyped DEF Pipe
    <2>3. ~Has(Tail(Pipe), "command")
      <3>1. CASE Sendable
        BY <2>2, <3>1, HasTail DEF Sendable, LineInOrder, Idle, InFlight
      <3>2. CASE Class(toHost[1]) = "command"
        BY <2>2, <3>2, OrderlyTail DEF LineInOrder, Orderly, Work
      <3> QED
        BY <1>3, <3>1, <3>2
    <2>4. Tail(toHost) \in Seq(ToHostLines)
      BY <1>1, QueueTypes
    <2> QED
      BY <1>1, <2>1, <2>2, <2>3, <2>4, AnsweredSent
  <1>4. CASE RecvOk
    <2>1. Class(toHost[1]) = "command"
      BY <1>4 DEF RecvOk, Incoming, Class
    <2>2. cmdbuf' = NoCmd => Answered'
      BY DEF Answered
    <2> QED
      BY <1>3, <1>4, <2>1, <2>2 DEF RecvOk
  <1>5. CASE RecvEr \/ RecvHello \/ RecvPongReset
    BY <1>2, <1>5 DEF RecvEr, RecvHello, RecvPongReset, sending
  <1>6. CASE RecvPong
    BY <1>2, <1>3, <1>6 DEF RecvPong, LoseFirst, sending
  <1> QED
    BY <1>4, <1>5, <1>6 DEF Receive

\* The clock, the head and the line.
LEMMA WorldAnswered ==
    ASSUME TypeOK, LineInOrder, Answered,
           Elapse \/ ElapseUpdate \/ HeadActs \/ Environment \/ UNCHANGED vars
    PROVE  Answered'
  <1>0. toHead \in Seq(ToHeadLines) /\ toHost \in Seq(ToHostLines)
    BY LinesTyped
  <1>1. UNCHANGED cmdbuf
    BY DEF Elapse, ElapseUpdate, HeadActs, HeadGreets, HeadPongs, HeadObeys, NobodyReads,
           HeadReads, HeadRuns, Environment, LoseToHead, LoseToHost, HeadRestarts, HeadRefuses,
           HeadErrs, sending, vars
  <1>2. ASSUME toHead # <<>>, toHead' = Tail(toHead)
        PROVE  \A i \in 1..Len(toHead') : \E j \in 1..Len(toHead) : toHead'[i] = toHead[j]
    BY <1>0, <1>2, Members
  <1>3. ASSUME NEW m \in ToHostLines, m.type # "OK", toHost' = Append(toHost, m)
        PROVE  \A i \in 1..Len(toHost') : toHost'[i].type = "OK" =>
                   \E j \in 1..Len(toHost) : toHost'[i] = toHost[j]
    BY <1>0, <1>3, Members
  <1>4. CASE Elapse \/ ElapseUpdate \/ HeadRestarts \/ HeadErrs \/ UNCHANGED vars
    <2>1. UNCHANGED <<toHead, toHost>>
      BY <1>4 DEF Elapse, ElapseUpdate, HeadRestarts, HeadErrs, wires, vars
    <2>2. CASE HeadRestarts
      BY <1>1, <2>1, <2>2 DEF HeadRestarts, Answered
    <2>3. CASE ~HeadRestarts
      <3>1. UNCHANGED <<applied, wasReset>>
        BY <1>4, <2>3 DEF Elapse, ElapseUpdate, HeadErrs, head, vars
      <3> QED
        BY <1>1, <2>1, <3>1, AnsweredStays
    <2> QED
      BY <2>2, <2>3
  <1>5. CASE HeadGreets
    <2>1. InFlight("greeting")
      <3>1. toHead # <<>> /\ Class(toHead[1]) = "greeting"
        BY <1>5 DEF HeadGreets, HeadReads, Class
      <3>2. PICK m \in ToHostLines : toHead' = Tail(toHead) /\ toHost' = Append(toHost, m)
        BY <1>5, HeadAnswers
      <3>3. Len(toHost) + 1 \in 1..Len(Pipe) /\ Pipe[Len(toHost) + 1] = "greeting"
        BY <3>1, <3>2, Served
      <3> QED
        BY <3>3 DEF InFlight, Has
    <2> QED
      BY <1>1, <2>1 DEF LineInOrder, Unopened, Answered
  <1>6. CASE HeadPongs \/ HeadRefuses
    <2>1. PICK m \in ToHostLines : m.type # "OK" /\ toHost' = Append(toHost, m)
      BY <1>6 DEF HeadPongs, HeadRefuses, Answer, Pong, ER, ToHostLines
    <2>2. toHead # <<>> /\ toHead' = Tail(toHead) /\ UNCHANGED <<applied, wasReset>>
      BY <1>6 DEF HeadPongs, HeadRefuses, HeadReads, head
    <2> QED
      BY <1>1, <1>2, <1>3, <2>1, <2>2, AnsweredStays
  <1>7. CASE HeadObeys
    <2>1. CASE cmdbuf = NoCmd
      BY <1>1, <2>1 DEF Answered
    <2>2. CASE cmdbuf # NoCmd
      <3>1. toHead # <<>> /\ toHead' = Tail(toHead) /\ toHead[1].type = "CMD" /\ UNCHANGED wasReset
        BY <1>7 DEF HeadObeys, HeadReads
      <3>2. 1 \in 1..Len(toHead) /\ toHead[1] = cmdbuf
        BY <1>0, <2>2, <3>1, Members DEF Answered
      <3>3. cmdbuf.ch \in Channel /\ applied \in [Channel -> Level]
        BY <2>2 DEF TypeOK, SessionType, SendingType, Commands
      <3>4. applied'[cmdbuf.ch] = cmdbuf.v
        BY <1>7, <3>2, <3>3 DEF HeadObeys
      <3>5. \A i \in 1..Len(toHead') : toHead'[i].type = "CMD" => toHead'[i] = cmdbuf
        BY <1>2, <2>2, <3>1 DEF Answered
      <3> QED
        BY <1>1, <3>4, <3>5 DEF Answered
    <2> QED
      BY <2>1, <2>2
  <1>8. CASE NobodyReads \/ LoseToHead
    <2>1. toHead # <<>> /\ toHead' = Tail(toHead) /\ UNCHANGED <<toHost, applied, wasReset>>
      BY <1>8 DEF NobodyReads, LoseToHead, head
    <2> QED
      BY <1>1, <1>2, <2>1, AnsweredStays
  <1>9. CASE LoseToHost
    <2>1. toHost # <<>> /\ toHost' = Tail(toHost) /\ UNCHANGED <<toHead, applied, wasReset>>
      BY <1>9 DEF LoseToHost, head
    <2>2. \A i \in 1..Len(toHost') : \E j \in 1..Len(toHost) : toHost'[i] = toHost[j]
      BY <1>0, <2>1, Members
    <2> QED
      BY <1>1, <2>1, <2>2, AnsweredStays
  <1> QED
    BY <1>4, <1>5, <1>6, <1>7, <1>8, <1>9 DEF HeadActs, Environment

-----------------------------------------------------------------------------
(* What an operation was asked for. *)

LEMMA LastOfConcat ==
    ASSUME NEW s \in Seq(Commands), NEW r \in Seq(Commands), NEW ch, NEW v, LastOf(r, ch, v)
    PROVE  LastOf(s \o r, ch, v)
  <1>1. Len(s \o r) = Len(s) + Len(r) /\ Len(s) \in Nat /\ Len(r) \in Nat
    OBVIOUS
  <1>2. \A j \in 1..Len(r) : (s \o r)[Len(s) + j] = r[j]
    OBVIOUS
  <1>3. PICK i \in 1..Len(r) :
            r[i].ch = ch /\ r[i].v = v /\ \A j \in 1..Len(r) : j > i => r[j].ch # ch
    BY DEF LastOf
  <1> DEFINE n == Len(s) + i
             t == s \o r
  <1>4. n \in 1..Len(t) /\ t[n] = r[i]
    BY <1>1, <1>2
  <1>5. ASSUME NEW j \in 1..Len(t), j > n PROVE t[j].ch # ch
    <2>1. j - Len(s) \in 1..Len(r) /\ j - Len(s) > i /\ Len(s) + (j - Len(s)) = j
      BY <1>1, <1>5
    <2>2. t[j] = r[j - Len(s)]
      BY <1>2, <2>1
    <2> QED
      BY <1>3, <2>1, <2>2
  <1> HIDE DEF n, t
  <1>6. LastOf(t, ch, v)
    BY <1>3, <1>4, <1>5 DEF LastOf
  <1> QED
    BY <1>6 DEF t

\* The commands for a setting end with what it says.
LEMMA RestoringEnds ==
    ASSUME NEW setting \in [Channel -> Setting], NEW ch \in Channel, setting[ch] # Unset
    PROVE  LastOf(Restoring(setting), ch, setting[ch])
  <1> DEFINE f == Cmd("F", setting["F"])
             h == Cmd("H", setting["H"])
  <1>1. f.ch = "F" /\ f.v = setting["F"] /\ h.ch = "H" /\ h.v = setting["H"]
    BY DEF Cmd
  <1>2. Restoring(setting) = (IF setting["F"] = Unset THEN <<>> ELSE <<f>>)
                             \o (IF setting["H"] = Unset THEN <<>> ELSE <<h>>)
    BY DEF Restoring
  <1> HIDE DEF f, h
  <1>3. /\ <<>> \o <<f>> = <<f>> /\ <<>> \o <<h>> = <<h>> /\ <<f>> \o <<>> = <<f>>
        /\ Len(<<f>> \o <<h>>) = 2 /\ (<<f>> \o <<h>>)[1] = f /\ (<<f>> \o <<h>>)[2] = h
    OBVIOUS
  <1>4. CASE ch = "H"
    <2>1. CASE setting["F"] = Unset
      <3>1. Restoring(setting) = <<h>>
        BY <1>2, <1>3, <1>4, <2>1
      <3> QED
        BY <1>1, <1>4, <3>1 DEF LastOf
    <2>2. CASE setting["F"] # Unset
      <3>1. Restoring(setting) = <<f>> \o <<h>>
        BY <1>2, <1>4, <2>2
      <3> QED
        BY <1>1, <1>3, <1>4, <3>1 DEF LastOf
    <2> QED
      BY <2>1, <2>2
  <1>5. CASE ch = "F"
    <2>1. CASE setting["H"] = Unset
      <3>1. Restoring(setting) = <<f>>
        BY <1>2, <1>3, <1>5, <2>1
      <3> QED
        BY <1>1, <1>5, <3>1 DEF LastOf
    <2>2. CASE setting["H"] # Unset
      <3>1. Restoring(setting) = <<f>> \o <<h>>
        BY <1>2, <1>5, <2>2
      <3> DEFINE r == Restoring(setting)
      <3>2. Len(r) = 2 /\ 1 \in 1..2 /\ r[1] = f /\ \A j \in 1..2 : j > 1 => r[j] = h
        BY <1>3, <3>1
      <3> HIDE DEF r
      <3>3. LastOf(r, ch, setting[ch])
        BY <1>1, <1>5, <3>2 DEF LastOf
      <3> QED
        BY <3>3 DEF r
    <2> QED
      BY <2>1, <2>2
  <1> QED
    BY <1>4, <1>5 DEF Channel

\* Appending the commands for a setting gives it the last word on its channels.
LEMMA AskedQueue ==
    ASSUME TypeOK, NEW s \in [Channel -> Setting],
           NEW queue, queue = commandQueue \o CommandsFor(s)
    PROVE  /\ queue \in Seq(Commands)
           /\ \A ch \in Channel :
                  ext = "EXTRUDER" /\ s[ch] # Unset => LastOf(queue, ch, s[ch]) /\ queue # <<>>
  <1>1. commandQueue \in Seq(Commands) /\ CommandsFor(s) \in Seq(Commands)
    BY RestoringType DEF TypeOK, SendingType
  <1>2. ASSUME ext = "EXTRUDER", NEW ch \in Channel, s[ch] # Unset
        PROVE  LastOf(queue, ch, s[ch])
    <2>1. LastOf(CommandsFor(s), ch, s[ch])
      BY <1>2, RestoringEnds DEF CommandsFor
    <2> QED
      BY <1>1, <2>1, LastOfConcat
  <1>3. \A ch, v : LastOf(queue, ch, v) => queue # <<>>
    BY DEF LastOf
  <1> QED
    BY <1>1, <1>2, <1>3

\* The first of the queue is sent once nothing else is out.
LEMMA EndsSent ==
    ASSUME NEW q \in Seq(Commands), q # <<>>, NEW at, NEW ch, NEW v,
           LastOf(q, ch, v) \/ (~Mentions(q, ch) /\ at[ch] = v)
    PROVE  Ends(Tail(q), q[1], at, ch, v)
  <1> DEFINE t == Tail(q)
  <1>1. Len(t) = Len(q) - 1 /\ Len(q) \in Nat /\ 1 \in 1..Len(q) /\ q[1] # NoCmd
    BY QueueTypes, Lines
  <1>2. \A i \in 1..Len(t) : i + 1 \in 1..Len(q) /\ t[i] = q[i + 1]
    OBVIOUS
  <1>3. \A i \in 1..Len(q) : i = 1 \/ (i - 1 \in 1..Len(t) /\ q[i] = t[i - 1])
    <2>1. \A i \in 1..Len(q) : i = 1 \/ (i - 1 \in 1..Len(t) /\ (i - 1) + 1 = i)
      BY <1>1
    <2> QED
      BY <1>2, <2>1
  <1> HIDE DEF t
  <1>4. CASE ~Mentions(q, ch) /\ at[ch] = v
    <2>1. ~Mentions(t, ch) /\ q[1].ch # ch
      BY <1>1, <1>2, <1>4 DEF Mentions
    <2> QED
      BY <1>4, <2>1 DEF Ends, t
  <1>5. CASE LastOf(q, ch, v)
    <2>1. PICK i \in 1..Len(q) :
              q[i].ch = ch /\ q[i].v = v /\ \A j \in 1..Len(q) : j > i => q[j].ch # ch
      BY <1>5 DEF LastOf
    <2>2. CASE i = 1
      <3>1. \A j \in 1..Len(t) : j + 1 \in 1..Len(q) /\ j + 1 > 1
        BY <1>2
      <3>2. ~Mentions(t, ch)
        BY <1>2, <2>1, <2>2, <3>1 DEF Mentions
      <3> QED
        BY <1>1, <2>1, <2>2, <3>2 DEF Ends, t
    <2>3. CASE i # 1
      <3>1. i - 1 \in 1..Len(t) /\ t[i - 1] = q[i]
        BY <1>3, <2>3
      <3>2. ASSUME NEW j \in 1..Len(t), j > i - 1 PROVE t[j].ch # ch
        <4>1. j + 1 \in 1..Len(q) /\ j + 1 > i /\ t[j] = q[j + 1]
          BY <1>2, <3>2
        <4> QED
          BY <2>1, <4>1
      <3>3. LastOf(t, ch, v)
        BY <2>1, <3>1, <3>2 DEF LastOf
      <3> QED
        BY <3>3 DEF Ends, t
    <2> QED
      BY <2>2, <2>3
  <1> QED
    BY <1>4, <1>5

\* The answer to the buffered command says that the head works at it.
LEMMA Obeyed ==
    ASSUME Answered, ~wasReset, 1 \in 1..Len(toHost), toHost[1].type = "OK",
           NEW q, NEW ch, NEW v, Ends(q, cmdbuf, applied, ch, v)
    PROVE  LastOf(q, ch, v) \/ (~Mentions(q, ch) /\ applied[ch] = v)
  BY DEF Answered, Ends

\* An operation of the owner is over, or nothing it rests on changes.
LEMMA PromiseOver ==
    ASSUME op' \notin Operations
    PROVE  Promise'
  BY DEF Promise, InSession, Underway, Finished

LEMMA PromiseStays ==
    ASSUME Promise, UNCHANGED <<op, done, stFlag, ext, want, cmdbuf, commandQueue>>,
           wasReset => wasReset',
           wasReset' \/ UNCHANGED applied
    PROVE  Promise'
  <1>1. \A ch : Asked(ch)' = Asked(ch)
    BY DEF Asked
  <1>2. InSession' /\ Finished'
    BY <1>1 DEF Promise, InSession, Finished
  <1>3. Underway'
    BY <1>1 DEF Promise, Underway
  <1> QED
    BY <1>2, <1>3 DEF Promise

\* The first of the queue is sent in the middle of an operation.
LEMMA PromiseSent ==
    ASSUME TypeOK, Promise, UNCHANGED <<op, done, stFlag, ext, want, applied, wasReset>>,
           commandQueue # <<>>, SendFirst(commandQueue),
           \A ch, v : ~wasReset /\ Ends(commandQueue, cmdbuf, applied, ch, v) =>
               LastOf(commandQueue, ch, v) \/ (~Mentions(commandQueue, ch) /\ applied[ch] = v)
    PROVE  Promise'
  <1>1. \A ch : Asked(ch)' = Asked(ch)
    BY DEF Asked
  <1>2. InSession' /\ Finished'
    BY <1>1 DEF Promise, InSession, Finished
  <1>3. commandQueue \in Seq(Commands)
    BY DEF TypeOK, SendingType
  <1>4. cmdbuf' = commandQueue[1] /\ commandQueue' = Tail(commandQueue)
    BY DEF SendFirst
  <1>5. ASSUME NEW ch, NEW v, ~wasReset, Ends(commandQueue, cmdbuf, applied, ch, v)
        PROVE  Ends(commandQueue', cmdbuf', applied', ch, v)
    <2>1. LastOf(commandQueue, ch, v) \/ (~Mentions(commandQueue, ch) /\ applied[ch] = v)
      BY <1>5
    <2>2. Ends(Tail(commandQueue), commandQueue[1], applied, ch, v)
      BY <1>3, <2>1, EndsSent
    <2> QED
      BY <1>4, <2>2
  <1>6. Underway'
    BY <1>1, <1>5 DEF Promise, Underway
  <1> QED
    BY <1>2, <1>6 DEF Promise

\* The owner asks for an operation.
LEMMA PromiseAsked ==
    ASSUME TypeOK, NEW kind \in Operations, NEW s \in [Channel -> Setting],
           Enqueued(kind, commandQueue \o CommandsFor(s)),
           UNCHANGED <<stFlag, ext, applied, wasReset>>, stFlag = "RUNNING",
           op' = kind => \A ch \in Channel : Asked(ch)' \in {Unset, s[ch]}
    PROVE  Promise'
  <1> DEFINE queue == commandQueue \o CommandsFor(s)
  <1>1. queue \in Seq(Commands)
    BY AskedQueue
  <1>2. ASSUME ext = "EXTRUDER", NEW ch \in Channel, s[ch] # Unset
        PROVE  LastOf(queue, ch, s[ch]) /\ queue # <<>>
    BY <1>2, AskedQueue
  <1>4. Enqueued(kind, queue)
    OBVIOUS
  <1> HIDE DEF queue
  <1>5. CASE op' \notin Operations
    BY <1>5, PromiseOver
  <1>6. CASE queue = <<>> /\ op' = kind
    <2>1. \A ch \in Channel : ext = "EXTRUDER" => Asked(ch)' = Unset
      BY <1>2, <1>6
    <2> QED
      BY <2>1 DEF Promise, InSession, Underway, Finished
  <1>7. CASE queue # <<>> /\ op' = kind
    <2>1. done' = FALSE /\ (commandQueue' = queue \/ SendFirst(queue))
      BY <1>4, <1>7 DEF Enqueued, LoseFirst, Raise, Operations
    <2>2. ASSUME ext = "EXTRUDER", NEW ch \in Channel, s[ch] # Unset
          PROVE  Ends(commandQueue', cmdbuf', applied', ch, s[ch])
      <3>1. LastOf(queue, ch, s[ch])
        BY <1>2, <2>2
      <3>2. CASE commandQueue' = queue
        BY <3>1, <3>2 DEF Ends
      <3>3. CASE SendFirst(queue)
        <4>1. commandQueue' = Tail(queue) /\ cmdbuf' = queue[1]
          BY <3>3 DEF SendFirst
        <4>2. Ends(Tail(queue), queue[1], applied', ch, s[ch])
          BY <1>1, <1>7, <3>1, EndsSent
        <4> QED
          BY <4>1, <4>2
      <3> QED
        BY <2>1, <3>2, <3>3
    <2>3. Underway'
      BY <1>7, <2>2 DEF Underway
    <2> QED
      BY <2>1, <2>3 DEF Promise, InSession, Finished
  <1>8. op' \in {kind, "failed"}
    BY <1>4 DEF Enqueued, LoseFirst, Raise
  <1> QED
    BY <1>5, <1>6, <1>7, <1>8 DEF Operations

\* The operations of the owner.
LEMMA OwnerPromise ==
    ASSUME TypeOK, Promise, Owner
    PROVE  Promise'
  <1> USE DEF Call
  <1>0. want \in [Channel -> Setting] /\ Off \in [Channel -> Setting]
    BY FreshType DEF TypeOK, SessionType
  <1>1. CASE Bootstrap \/ Reset \/ SetCommandCallback
    BY <1>1, PromiseOver DEF Bootstrap, Reset, SetCommandCallback, Operations
  <1>2. CASE Recover
    <2>1. UNCHANGED <<stFlag, ext, want, applied, wasReset>> /\ stFlag = "RUNNING"
      BY <1>2 DEF Recover, session, head
    <2>2. op' = "recover" => \A ch \in Channel : Asked(ch)' \in {Unset, want[ch]}
      BY <2>1 DEF Asked
    <2> QED
      BY <1>0, <1>2, <2>1, <2>2, PromiseAsked DEF Recover, Operations
  <1>3. CASE Standby
    <2>1. UNCHANGED <<stFlag, ext, applied, wasReset>> /\ stFlag = "RUNNING"
      BY <1>3 DEF Standby, session, head
    <2>2. PICK t \in Level : Enqueued("standby", commandQueue \o CommandsFor(OffUndefined(t)))
      BY <1>3 DEF Standby
    <2>3. op' = "standby" => \A ch \in Channel : Asked(ch)' \in {Unset, OffUndefined(t)[ch]}
      BY OffType DEF Asked, Channel
    <2> QED
      BY <2>1, <2>2, <2>3, OffType, PromiseAsked DEF Operations
  <1>4. CASE Shutdown
    <2>1. UNCHANGED <<stFlag, ext, applied, wasReset>> /\ stFlag = "RUNNING"
      BY <1>4 DEF Shutdown, head
    <2>2. op' = "shutdown" => \A ch \in Channel : Asked(ch)' \in {Unset, Off[ch]}
      BY DEF Asked, Off
    <2> QED
      BY <1>0, <1>4, <2>1, <2>2, PromiseAsked DEF Shutdown, Operations
  <1>5. ASSUME NEW v \in Level, SetHeater(v) \/ SetFan(v)
        PROVE  Promise'
    BY <1>5, PromiseOver DEF SetHeater, SetFan, Set, Raise, Operations
  <1>6. CASE SetAllsetCallback
    BY <1>6, PromiseStays DEF SetAllsetCallback, session, sending, head
  <1>7. CASE SetHeaterTooHot
    BY <1>7, PromiseOver DEF SetHeaterTooHot, Raise, Operations
  <1> QED
    BY <1>1, <1>2, <1>3, <1>4, <1>5, <1>6, <1>7 DEF Owner

\* The timer.
LEMMA PatrolsPromise ==
    ASSUME Promise, Patrols
    PROVE  Promise'
  <1>1. UNCHANGED <<applied, wasReset>>
    BY DEF Patrols, PatrolCommand, PatrolPing, PatrolUpdate, PatrolHello, PatrolNoHead,
           PatrolOffline, Patrol, head
  <1>2. CASE PatrolCommand \/ PatrolPing \/ PatrolHello \/ PatrolUpdate
    BY <1>1, <1>2, PromiseStays DEF PatrolCommand, PatrolPing, PatrolHello, PatrolUpdate, Retry,
       session
  <1>3. CASE PatrolNoHead
    BY <1>3, PromiseOver DEF PatrolNoHead, Promise, InSession
  <1>4. CASE PatrolOffline
    BY <1>4, PromiseOver DEF PatrolOffline, Offline, Raise, Operations
  <1> QED
    BY <1>2, <1>3, <1>4 DEF Patrols

\* The handlers.
LEMMA ReceivePromise ==
    ASSUME TypeOK, LineInOrder, Answered, Promise, Receive
    PROVE  Promise'
  <1>1. /\ toHost # <<>> /\ toHost' = Tail(toHost) /\ 1 \in 1..Len(toHost)
        /\ UNCHANGED <<applied, wasReset>>
    BY LinesTyped DEF Receive, RecvOk, RecvEr, RecvHello, RecvPongReset, RecvPong, Incoming, head
  <1>2. CASE RecvOk
    <2>1. toHost[1].type = "OK" /\ UNCHANGED <<stFlag, ext, want>>
      BY <1>2 DEF RecvOk, Incoming, session
    <2>2. \A ch, v : ~wasReset /\ Ends(commandQueue, cmdbuf, applied, ch, v) =>
              LastOf(commandQueue, ch, v) \/ (~Mentions(commandQueue, ch) /\ applied[ch] = v)
      BY <1>1, <2>1, Obeyed
    <2>3. CASE commandQueue # <<>> /\ SendFirst(commandQueue) /\ UNCHANGED <<op, done>>
      BY <1>1, <2>1, <2>2, <2>3, PromiseSent
    <2>4. CASE LoseFirst(commandQueue)
      BY <2>4, PromiseOver DEF LoseFirst, Raise, Operations
    <2>5. CASE commandQueue = <<>> /\ cmdbuf' = NoCmd /\ UNCHANGED <<commandQueue, op>>
      <3>1. \A ch : Asked(ch)' = Asked(ch)
        BY <2>1, <2>5 DEF Asked
      <3>2. ASSUME NEW ch, NEW v, ~wasReset, Ends(commandQueue, cmdbuf, applied, ch, v)
            PROVE  Ends(commandQueue', cmdbuf', applied', ch, v)
        <4>1. ~LastOf(commandQueue, ch, v)
          BY <2>5 DEF LastOf
        <4>2. ~Mentions(commandQueue, ch) /\ applied[ch] = v
          BY <2>2, <3>2, <4>1
        <4> QED
          BY <1>1, <2>5, <4>2 DEF Ends
      <3>3. Underway'
        BY <1>1, <2>1, <2>5, <3>1, <3>2 DEF Promise, Underway
      <3> QED
        BY <2>1, <2>5, <3>3 DEF Promise, InSession, Finished
    <2> QED
      BY <1>2, <2>3, <2>4, <2>5 DEF RecvOk
  <1>3. CASE RecvEr \/ RecvPongReset
    BY <1>3, PromiseOver DEF RecvEr, RecvPongReset, Offline, Raise, Operations
  <1>4. CASE RecvHello
    <2>1. Class(toHost[1]) = "greeting" /\ op' \in {op, "failed"}
      BY <1>4 DEF RecvHello, Incoming, Class, Raise
    <2>2. InFlight("greeting")
      <3>1. PipeOf(toHost, toHead) # <<>> /\ Pipe[1] = Class(toHost[1]) /\ Pipe \in Seq(Classes)
        BY <1>1, PipeRecv, LinesTyped DEF Pipe
      <3>2. 1 \in 1..Len(Pipe)
        BY <3>1 DEF Pipe
      <3> QED
        BY <2>1, <3>1, <3>2 DEF InFlight, Has
    <2>3. op' \notin Operations
      BY <2>1, <2>2 DEF LineInOrder, Unopened, Promise, InSession, Operations
    <2> QED
      BY <2>3, PromiseOver
  <1>5. CASE RecvPong
    <2>1. UNCHANGED <<stFlag, ext, want>>
      BY <1>5 DEF RecvPong
    <2>2. CASE UNCHANGED <<sending, op, done>>
      BY <1>1, <2>1, <2>2, PromiseStays DEF sending
    <2>3. CASE commandQueue # <<>> /\ Sendable /\ SendFirst(commandQueue) /\ UNCHANGED <<op, done>>
      <3>1. \A ch, v : Ends(commandQueue, cmdbuf, applied, ch, v) =>
                LastOf(commandQueue, ch, v) \/ (~Mentions(commandQueue, ch) /\ applied[ch] = v)
        BY <2>3 DEF Sendable, Ends
      <3> QED
        BY <1>1, <2>1, <2>3, <3>1, PromiseSent
    <2>4. CASE LoseFirst(commandQueue)
      BY <2>4, PromiseOver DEF LoseFirst, Raise, Operations
    <2> QED
      BY <1>5, <2>2, <2>3, <2>4 DEF RecvPong
  <1> QED
    BY <1>2, <1>3, <1>4, <1>5 DEF Receive

\* The clock, the head and the line.
LEMMA WorldPromise ==
    ASSUME TypeOK, LineInOrder, Answered, Promise,
           Elapse \/ ElapseUpdate \/ HeadActs \/ Environment \/ UNCHANGED vars
    PROVE  Promise'
  <1>1. UNCHANGED <<op, done, stFlag, ext, want, cmdbuf, commandQueue>>
    BY DEF Elapse, ElapseUpdate, HeadActs, HeadGreets, HeadPongs, HeadObeys, NobodyReads,
           HeadReads, HeadRuns, Environment, LoseToHead, LoseToHost, HeadRestarts, HeadRefuses,
           HeadErrs, session, sending, owner, vars
  <1>2. CASE HeadGreets \/ HeadObeys
    <2>1. /\ toHead # <<>> /\ toHead \in Seq(ToHeadLines) /\ 1 \in 1..Len(toHead)
          /\ HeadGreets => Class(toHead[1]) = "greeting"
          /\ HeadObeys => Class(toHead[1]) = "command" /\ toHead[1].type = "CMD"
      BY <1>2, LinesTyped DEF HeadGreets, HeadObeys, HeadReads, Class
    <2>2. InFlight(Class(toHead[1]))
      <3>1. PICK m \in ToHostLines : toHead' = Tail(toHead) /\ toHost' = Append(toHost, m)
        BY <1>2, HeadAnswers
      <3>2. Len(toHost) + 1 \in 1..Len(Pipe) /\ Pipe[Len(toHost) + 1] = Class(toHead[1])
        BY <2>1, <3>1, Served
      <3> QED
        BY <3>2 DEF InFlight, Has
    <2>3. CASE op \notin Operations
      BY <1>1, <2>3, PromiseOver
    <2>4. CASE op \in Operations
      <3>1. stFlag = "RUNNING" /\ ~HeadGreets /\ HeadObeys
        BY <1>2, <2>1, <2>2, <2>4 DEF LineInOrder, Unopened, Promise, InSession
      <3>2. cmdbuf # NoCmd /\ cmdbuf \in Commands /\ toHead[1] = cmdbuf
        BY <2>1, <2>2, <3>1 DEF LineInOrder, Idle, Answered, TypeOK, SendingType
      <3>3. applied' = [applied EXCEPT ![cmdbuf.ch] = cmdbuf.v] /\ UNCHANGED wasReset
        BY <3>1, <3>2 DEF HeadObeys
      <3>4. \A ch \in Channel : ch # cmdbuf.ch => applied'[ch] = applied[ch]
        BY <3>3 DEF TypeOK, SessionType
      <3>5. \A ch \in Channel : \A v : Ends(commandQueue, cmdbuf, applied, ch, v) =>
                                       Ends(commandQueue, cmdbuf, applied', ch, v)
        BY <3>2, <3>4 DEF Ends
      <3>6. \A ch : Asked(ch)' = Asked(ch)
        BY <1>1 DEF Asked
      <3>7. Underway'
        BY <1>1, <3>3, <3>5, <3>6 DEF Promise, Underway
      <3> QED
        BY <1>1, <3>6, <3>7 DEF Promise, InSession, Finished
    <2> QED
      BY <2>3, <2>4
  <1>3. CASE ~HeadGreets /\ ~HeadObeys
    <2>1. wasReset => wasReset'
      BY <1>3 DEF Elapse, ElapseUpdate, HeadActs, HeadPongs, NobodyReads, Environment, LoseToHead,
             LoseToHost, HeadRestarts, HeadRefuses, HeadErrs, head, vars
    <2>2. wasReset' \/ UNCHANGED applied
      BY <1>3 DEF Elapse, ElapseUpdate, HeadActs, HeadPongs, NobodyReads, Environment, LoseToHead,
             LoseToHost, HeadRestarts, HeadRefuses, HeadErrs, head, vars
    <2> QED
      BY <1>1, <2>1, <2>2, PromiseStays
  <1> QED
    BY <1>2, <1>3

\* As long as no answer outlives its timeout and no bootstrap another.
LEMMA SessionStep ==
    ASSUME TypeOK, TypeOK', Session, [Next]_vars
    PROVE  Session'
  <1> SUFFICES ASSUME Timely'
               PROVE  LineInOrder' /\ Answered' /\ Promise'
    BY DEF Session
  <1>1. Timely
    <2>1. overlapped => overlapped'
      BY DEF Next, Owner, Bootstrap, Recover, Standby, Shutdown, Reset, SetHeater, SetHeaterTooHot, SetFan,
             SetCommandCallback, SetAllsetCallback, Call, Patrols, PatrolCommand, PatrolPing,
             PatrolUpdate, PatrolHello, PatrolNoHead, PatrolOffline, Patrol, Elapse,
             ElapseUpdate, Receive, RecvOk, RecvEr, RecvHello, RecvPongReset, RecvPong,
             Incoming, HeadActs, HeadGreets, HeadPongs, HeadObeys, NobodyReads, HeadReads,
             HeadRuns, Environment, LoseToHead, LoseToHost, HeadRestarts, HeadRefuses,
             HeadErrs, owner, vars
    <2>2. UNCHANGED faults \/ \E kind \in AllHeadFaults : Fault(kind)
      BY FaultOrNot
    <2>3. faults["slow"] \in Nat /\ faults'["slow"] \in Nat /\ faults'["slow"] >= faults["slow"]
      BY <2>2 DEF Fault, TypeOK, CountType, AllHeadFaults
    <2>4. faults["slow"] = 0
      BY <2>3 DEF Timely
    <2> QED
      BY <2>1, <2>4 DEF Timely
  <1>2. LineInOrder /\ Answered /\ Promise
    BY <1>1 DEF Session
  <1>3. LineInOrder'
    BY <1>2, OwnerLine, PatrolsLine, ReceiveLine, WorldLine DEF Next
  <1>4. Answered'
    BY <1>2, OwnerAnswered, PatrolsAnswered, ReceiveAnswered, WorldAnswered DEF Next
  <1>5. Promise'
    BY <1>2, OwnerPromise, PatrolsPromise, ReceivePromise, WorldPromise DEF Next
  <1> QED
    BY <1>3, <1>4, <1>5

\* A callback that has come means what it says.
LEMMA PromiseMeans ==
    ASSUME TypeOK, Session
    PROVE  ConfirmedApplied
  <1> SUFFICES ASSUME Timely, done, stFlag = "RUNNING", ext = "EXTRUDER", ~wasReset,
                      NEW ch \in Channel, Asked(ch) # Unset
               PROVE  applied[ch] = Asked(ch)
    BY DEF ConfirmedApplied, CalledBack, Timely
  <1>1. op \in Operations
    BY DEF Asked, Operations
  <1>2. commandQueue = <<>> /\ cmdbuf = NoCmd
    BY <1>1 DEF Session, Promise, Finished
  <1>3. Ends(commandQueue, cmdbuf, applied, ch, Asked(ch))
    BY <1>1 DEF Session, Promise, Underway
  <1> QED
    BY <1>2, <1>3 DEF Ends, LastOf

-----------------------------------------------------------------------------
(* What the head ends at. *)

LEMMA SettlesAppend ==
    ASSUME NEW line \in Seq(ToHeadLines), NEW m \in ToHeadLines, NEW at, NEW ch
    PROVE  /\ m.type = "CMD" /\ m.ch = ch => Settles(Append(line, m), at, ch, m.v)
           /\ \A v : Settles(line, at, ch, v) /\ ~(m.type = "CMD" /\ m.ch = ch)
                         => Settles(Append(line, m), at, ch, v)
  <1> DEFINE q == Append(line, m)
             n == Len(line)
  <1>1. Len(q) = n + 1 /\ n \in Nat /\ q[n + 1] = m
    OBVIOUS
  <1>2. \A k \in 1..n : k \in 1..(n + 1) /\ q[k] = line[k]
    OBVIOUS
  <1>3. \A k \in 1..(n + 1) : k <= n + 1 /\ (k = n + 1 \/ k \in 1..n) /\ n + 1 \in 1..(n + 1)
    BY <1>1
  <1> HIDE DEF q, n
  <1>4. ASSUME m.type = "CMD", m.ch = ch PROVE Settles(q, at, ch, m.v)
    BY <1>1, <1>3, <1>4 DEF Settles
  <1>5. ASSUME NEW v, Settles(line, at, ch, v), ~(m.type = "CMD" /\ m.ch = ch)
        PROVE  Settles(q, at, ch, v)
    <2>1. {i \in 1..Len(q) : q[i].type = "CMD" /\ q[i].ch = ch}
              = {i \in 1..n : line[i].type = "CMD" /\ line[i].ch = ch}
      BY <1>1, <1>2, <1>3, <1>5
    <2>2. \A i \in {i \in 1..n : line[i].type = "CMD" /\ line[i].ch = ch} : q[i] = line[i]
      BY <1>2
    <2> QED
      BY <1>5, <2>1, <2>2 DEF Settles, n
  <1> QED
    BY <1>4, <1>5 DEF q

\* A channel ends at one value.
LEMMA SettlesOnce ==
    ASSUME NEW line \in Seq(ToHeadLines), NEW at, NEW ch, NEW v, NEW w,
           Settles(line, at, ch, v), Settles(line, at, ch, w)
    PROVE  v = w
  <1> DEFINE mine == {i \in 1..Len(line) : line[i].type = "CMD" /\ line[i].ch = ch}
  <1>1. \/ mine = {} /\ at[ch] = v
        \/ \E i \in mine : line[i].v = v /\ \A j \in mine : j <= i
    BY DEF Settles
  <1>2. \/ mine = {} /\ at[ch] = w
        \/ \E i \in mine : line[i].v = w /\ \A j \in mine : j <= i
    BY DEF Settles
  <1>3. \A i, j \in mine : i <= j /\ j <= i => i = j
    OBVIOUS
  <1> HIDE DEF mine
  <1> QED
    BY <1>1, <1>2, <1>3

\* The head reads its line.
LEMMA SettlesRead ==
    ASSUME NEW line \in Seq(ToHeadLines), line # <<>>, NEW at, NEW to, NEW ch, NEW v,
           line[1].type = "CMD" /\ line[1].ch = ch => to[ch] = line[1].v,
           ~(line[1].type = "CMD" /\ line[1].ch = ch) => to[ch] = at[ch],
           Settles(line, at, ch, v)
    PROVE  Settles(Tail(line), to, ch, v)
  <1> DEFINE t == Tail(line)
             n == Len(line)
             mine == {i \in 1..n : line[i].type = "CMD" /\ line[i].ch = ch}
             rest == {i \in 1..Len(t) : t[i].type = "CMD" /\ t[i].ch = ch}
  <1>1. Len(t) = n - 1 /\ n \in Nat /\ 1 \in 1..n
    OBVIOUS
  <1>2. \A k \in 1..Len(t) : k + 1 \in 1..n /\ t[k] = line[k + 1]
    OBVIOUS
  <1>3. \A k \in 1..n : k = 1 \/ (k - 1 \in 1..Len(t) /\ (k - 1) + 1 = k)
    BY <1>1
  <1> HIDE DEF t
  <1>4. \A k \in rest : k + 1 \in mine
    BY <1>2
  <1>5. \A k \in mine : k = 1 \/ k - 1 \in rest
    BY <1>2, <1>3
  <1>6. \/ mine = {} /\ at[ch] = v
        \/ \E i \in mine : line[i].v = v /\ \A j \in mine : j <= i
    BY DEF Settles
  <1>7. CASE mine = {}
    <2>1. rest = {} /\ at[ch] = v /\ to[ch] = v
      BY <1>1, <1>4, <1>6, <1>7
    <2> QED
      BY <2>1 DEF Settles, t
  <1>8. ASSUME NEW i \in mine, line[i].v = v, \A j \in mine : j <= i PROVE Settles(t, to, ch, v)
    <2>1. CASE i = 1
      <3>1. rest = {}
        <4>1. \A k \in rest : k + 1 \in mine /\ ~(k + 1 <= 1)
          BY <1>4
        <4> QED
          BY <1>8, <2>1, <4>1
      <3>2. to[ch] = v
        BY <1>8, <2>1
      <3> QED
        BY <3>1, <3>2 DEF Settles
    <2>2. CASE i # 1
      <3>1. i - 1 \in rest /\ t[i - 1] = line[i]
        BY <1>2, <1>3, <1>5, <2>2
      <3>2. \A j \in rest : j <= i - 1
        <4>1. ASSUME NEW j \in rest PROVE j <= i - 1
          <5>1. j + 1 <= i /\ j \in Nat /\ i \in Nat
            BY <1>4, <1>8
          <5> QED
            BY <5>1
        <4> QED
          BY <4>1
      <3> QED
        BY <1>8, <3>1, <3>2 DEF Settles
    <2> QED
      BY <2>1, <2>2
  <1> QED
    BY <1>6, <1>7, <1>8 DEF t

\* The first of the queue is sent behind the line.
LEMMA ArrivesSent ==
    ASSUME NEW q \in Seq(Commands), q # <<>>, NEW line \in Seq(ToHeadLines), NEW at, NEW ch, NEW v,
           Arrives(q, line, at, ch, v)
    PROVE  Arrives(Tail(q), Append(line, q[1]), at, ch, v)
  <1>0. q[1] \in Commands /\ q[1] \in ToHeadLines /\ q[1] # NoCmd /\ q[1].type = "CMD"
    BY QueueTypes, Lines, ClassOf
  <1>1. CASE ~Mentions(q, ch) /\ Settles(line, at, ch, v)
    <2>1. /\ 1 \in 1..Len(q)
          /\ \A i \in 1..Len(Tail(q)) : i + 1 \in 1..Len(q) /\ Tail(q)[i] = q[i + 1]
      BY Members
    <2>2. ~Mentions(Tail(q), ch) /\ q[1].ch # ch
      BY <1>1, <2>1 DEF Mentions
    <2> QED
      BY <1>0, <1>1, <2>2, SettlesAppend DEF Arrives
  <1>2. CASE LastOf(q, ch, v)
    <2>1. Ends(Tail(q), q[1], at, ch, v)
      BY <1>2, EndsSent
    <2>2. CASE LastOf(Tail(q), ch, v)
      BY <2>2 DEF Arrives
    <2>3. CASE ~Mentions(Tail(q), ch) /\ ~LastOf(Tail(q), ch, v)
      <3>1. PICK i \in 1..Len(q) :
              q[i].ch = ch /\ q[i].v = v /\ \A j \in 1..Len(q) : j > i => q[j].ch # ch
        BY <1>2 DEF LastOf
      <3>2. i = 1
        <4>1. i # 1 => i - 1 \in 1..Len(Tail(q)) /\ Tail(q)[i - 1] = q[i]
          OBVIOUS
        <4> QED
          BY <2>3, <3>1, <4>1 DEF Mentions
      <3>3. Settles(Append(line, q[1]), at, ch, v)
        BY <1>0, <3>1, <3>2, SettlesAppend
      <3> QED
        BY <2>3, <3>3 DEF Arrives
    <2> QED
      BY <2>1, <2>2, <2>3 DEF Ends
  <1> QED
    BY <1>1, <1>2 DEF Arrives

LEMMA CourseOver ==
    ASSUME op' \notin Operations
    PROVE  OnItsWay'
  BY DEF OnItsWay, InSession, Coming, Drained

\* Nothing changes what the channels end at.
LEMMA CourseStays ==
    ASSUME OnItsWay, UNCHANGED <<op, done, stFlag, ext, want, commandQueue>>,
           op \in Operations => \A ch \in Channel : \A v :
               Settles(toHead, applied, ch, v) => Settles(toHead', applied', ch, v)
    PROVE  OnItsWay'
  <1>1. \A ch : Asked(ch)' = Asked(ch)
    BY DEF Asked
  <1>2. InSession' /\ Drained'
    BY <1>1 DEF OnItsWay, InSession, Drained
  <1>3. op \in Operations => \A ch \in Channel : \A v :
            Arrives(commandQueue, toHead, applied, ch, v)
                => Arrives(commandQueue', toHead', applied', ch, v)
    BY DEF Arrives
  <1>4. Coming'
    BY <1>1, <1>3 DEF OnItsWay, Coming
  <1> QED
    BY <1>2, <1>4 DEF OnItsWay

LEMMA LatestStays ==
    ASSUME TypeOK, Latest, UNCHANGED <<headType, cmdbuf>>,
           cmdbuf # NoCmd /\ headType # "absent" => \A ch \in Channel : \A v :
               Settles(toHead, applied, ch, v) => Settles(toHead', applied', ch, v)
    PROVE  Latest'
  <1>1. cmdbuf # NoCmd => cmdbuf.ch \in Channel
    BY DEF TypeOK, SendingType, Commands
  <1>2. cmdbuf # NoCmd /\ headType # "absent" /\ Settles(toHead, applied, cmdbuf.ch, cmdbuf.v)
            => Settles(toHead', applied', cmdbuf.ch, cmdbuf.v)
    BY <1>1
  <1> QED
    BY <1>2 DEF Latest

\* A command is sent to a head that is there.
LEMMA LatestSent ==
    ASSUME TypeOK, UNCHANGED <<headType, applied>>, headType # "absent",
           NEW m \in Commands, toHead' = Append(toHead, m), cmdbuf' = m
    PROVE  Latest'
  <1>1. toHead \in Seq(ToHeadLines) /\ m \in ToHeadLines /\ m.type = "CMD"
    BY LinesTyped, Lines, ClassOf
  <1>2. Settles(toHead', applied', m.ch, m.v)
    BY <1>1, SettlesAppend
  <1> QED
    BY <1>2 DEF Latest

\* In a session with a head that is needed, it is there.
LEMMA SomeHead ==
    ASSUME TypeOK, RightHead, HeadNeeded, stFlag = "RUNNING"
    PROVE  headType # "absent"
  BY HeadConstants DEF TypeOK, SessionType, RightHead, HeadNeeded

\* The first of the queue is sent in the middle of an operation.
LEMMA CourseSent ==
    ASSUME TypeOK, OnItsWay, UNCHANGED <<op, done, stFlag, ext, want, applied>>,
           commandQueue # <<>>, SendFirst(commandQueue)
    PROVE  OnItsWay'
  <1>1. \A ch : Asked(ch)' = Asked(ch)
    BY DEF Asked
  <1>2. InSession' /\ Drained'
    BY <1>1 DEF OnItsWay, InSession, Drained
  <1>3. commandQueue \in Seq(Commands) /\ toHead \in Seq(ToHeadLines)
    BY LinesTyped DEF TypeOK, SendingType
  <1>4. toHead' = Append(toHead, commandQueue[1]) /\ commandQueue' = Tail(commandQueue)
    BY DEF SendFirst
  <1>5. \A ch, v : Arrives(commandQueue, toHead, applied, ch, v)
                       => Arrives(commandQueue', toHead', applied', ch, v)
    BY <1>3, <1>4, ArrivesSent
  <1>6. Coming'
    BY <1>1, <1>5 DEF OnItsWay, Coming
  <1> QED
    BY <1>2, <1>6 DEF OnItsWay

\* The owner asks for an operation.
LEMMA CourseAsked ==
    ASSUME TypeOK, NEW kind \in Operations, NEW s \in [Channel -> Setting],
           Enqueued(kind, commandQueue \o CommandsFor(s)),
           UNCHANGED <<stFlag, ext, applied>>, stFlag = "RUNNING",
           op' = kind => \A ch \in Channel : Asked(ch)' \in {Unset, s[ch]}
    PROVE  OnItsWay'
  <1> DEFINE queue == commandQueue \o CommandsFor(s)
  <1>1. queue \in Seq(Commands) /\ toHead \in Seq(ToHeadLines)
    BY AskedQueue, LinesTyped
  <1>2. ASSUME ext = "EXTRUDER", NEW ch \in Channel, s[ch] # Unset
        PROVE  LastOf(queue, ch, s[ch]) /\ queue # <<>>
    BY <1>2, AskedQueue
  <1>4. Enqueued(kind, queue)
    OBVIOUS
  <1> HIDE DEF queue
  <1>5. CASE op' \notin Operations
    BY <1>5, CourseOver
  <1>6. CASE queue = <<>> /\ op' = kind
    <2>1. \A ch \in Channel : ext = "EXTRUDER" => Asked(ch)' = Unset
      BY <1>2, <1>6
    <2> QED
      BY <2>1 DEF OnItsWay, InSession, Coming, Drained
  <1>7. CASE queue # <<>> /\ op' = kind
    <2>1. done' = FALSE /\ (commandQueue' = queue \/ SendFirst(queue))
      BY <1>4, <1>7 DEF Enqueued, LoseFirst, Raise, Operations
    <2>2. ASSUME ext = "EXTRUDER", NEW ch \in Channel, s[ch] # Unset
          PROVE  Arrives(commandQueue', toHead', applied', ch, s[ch])
      <3>1. LastOf(queue, ch, s[ch])
        BY <1>2, <2>2
      <3>2. CASE commandQueue' = queue
        BY <3>1, <3>2 DEF Arrives
      <3>3. CASE SendFirst(queue)
        <4>1. commandQueue' = Tail(queue) /\ toHead' = Append(toHead, queue[1])
          BY <3>3 DEF SendFirst
        <4>2. Arrives(queue, toHead, applied, ch, s[ch])
          BY <3>1 DEF Arrives
        <4>3. Arrives(Tail(queue), Append(toHead, queue[1]), applied, ch, s[ch])
          BY <1>1, <1>7, <4>2, ArrivesSent
        <4> QED
          BY <4>1, <4>3
      <3> QED
        BY <2>1, <3>2, <3>3
    <2>3. Coming'
      BY <1>7, <2>2 DEF Coming
    <2> QED
      BY <2>1, <2>3 DEF OnItsWay, InSession, Drained
  <1>8. op' \in {kind, "failed"}
    BY <1>4 DEF Enqueued, LoseFirst, Raise
  <1> QED
    BY <1>5, <1>6, <1>7, <1>8 DEF Operations

\* The operations of the owner.
LEMMA OwnerCourse ==
    ASSUME TypeOK, RightHead, HeadNeeded, Latest, OnItsWay, Owner
    PROVE  Latest' /\ OnItsWay'
  <1> USE DEF Call
  <1>0. /\ want \in [Channel -> Setting] /\ Off \in [Channel -> Setting]
        /\ commandQueue \in Seq(Commands)
        /\ UNCHANGED <<headType, applied>>
    BY FreshType DEF TypeOK, SessionType, SendingType, Owner, Bootstrap, Recover, Standby, Shutdown,
       Reset, SetHeater, SetHeaterTooHot, SetFan, SetCommandCallback, SetAllsetCallback, config, head
  <1>1. ASSUME UNCHANGED <<cmdbuf, toHead>> PROVE Latest'
    BY <1>0, <1>1, LatestStays
  <1>2. ASSUME Sendable, NEW m \in Commands, Say(m), cmdbuf' = m PROVE Latest'
    BY <1>0, <1>2, SomeHead, LatestSent DEF Sendable, Say
  <1>3. ASSUME NEW kind \in Operations, NEW s \in [Channel -> Setting],
               Enqueued(kind, commandQueue \o CommandsFor(s))
        PROVE  Latest'
    <2> DEFINE queue == commandQueue \o CommandsFor(s)
    <2>1. queue \in Seq(Commands) /\ Enqueued(kind, queue)
      BY <1>3, AskedQueue
    <2> HIDE DEF queue
    <2>2. CASE queue # <<>> /\ Sendable /\ SendFirst(queue)
      <3>1. queue[1] \in Commands /\ Say(queue[1]) /\ cmdbuf' = queue[1]
        BY <2>1, <2>2, QueueTypes DEF SendFirst, Say
      <3> QED
        BY <1>2, <2>2, <3>1
    <2>3. CASE UNCHANGED <<cmdbuf, toHead>>
      BY <1>1, <2>3
    <2> QED
      BY <2>1, <2>2, <2>3 DEF Enqueued, LoseFirst, sending
  <1>4. CASE Bootstrap
    BY <1>4, CourseOver DEF Bootstrap, Latest, Operations
  <1>5. CASE Reset \/ SetCommandCallback
    BY <1>1, <1>5, CourseOver DEF Reset, SetCommandCallback, Operations, sending
  <1>6. CASE Recover
    <2>1. UNCHANGED <<stFlag, ext, want>> /\ stFlag = "RUNNING"
      BY <1>6 DEF Recover, session
    <2>2. op' = "recover" => \A ch \in Channel : Asked(ch)' \in {Unset, want[ch]}
      BY <2>1 DEF Asked
    <2>3. Enqueued("recover", commandQueue \o CommandsFor(want)) /\ "recover" \in Operations
      BY <1>6 DEF Recover, Operations
    <2> QED
      BY <1>0, <1>3, <2>1, <2>2, <2>3, CourseAsked
  <1>7. CASE Standby
    <2>1. UNCHANGED <<stFlag, ext>> /\ stFlag = "RUNNING"
      BY <1>7 DEF Standby, session
    <2>2. PICK t \in Level : Enqueued("standby", commandQueue \o CommandsFor(OffUndefined(t)))
      BY <1>7 DEF Standby
    <2>3. op' = "standby" => \A ch \in Channel : Asked(ch)' \in {Unset, OffUndefined(t)[ch]}
      BY OffType DEF Asked, Channel
    <2>4. "standby" \in Operations /\ OffUndefined(t) \in [Channel -> Setting]
      BY OffType DEF Operations
    <2> QED
      BY <1>0, <1>3, <2>1, <2>2, <2>3, <2>4, CourseAsked
  <1>8. CASE Shutdown
    <2>1. UNCHANGED <<stFlag, ext>> /\ stFlag = "RUNNING"
      BY <1>8 DEF Shutdown
    <2>2. op' = "shutdown" => \A ch \in Channel : Asked(ch)' \in {Unset, Off[ch]}
      BY DEF Asked, Off
    <2>3. Enqueued("shutdown", commandQueue \o CommandsFor(Off)) /\ "shutdown" \in Operations
      BY <1>8 DEF Shutdown, Operations
    <2> QED
      BY <1>0, <1>3, <2>1, <2>2, <2>3, CourseAsked
  <1>9. ASSUME NEW v \in Level, SetHeater(v) \/ SetFan(v)
        PROVE  Latest' /\ OnItsWay'
    <2>1. PICK ch \in Channel, r \in Setting : Set(ch, v, r)
      BY <1>9 DEF SetHeater, SetFan, Channel, Setting
    <2>2. Cmd(ch, v) \in Commands
      BY Lines
    <2>3. op' \notin Operations
      BY <2>1 DEF Set, Raise, Operations
    <2> QED
      BY <1>1, <1>2, <2>1, <2>2, <2>3, CourseOver DEF Set
  <1>10. CASE SetAllsetCallback
    <2>1. UNCHANGED <<op, done, stFlag, ext, want, cmdbuf, commandQueue, toHead>>
      BY <1>10 DEF SetAllsetCallback, session, sending
    <2> QED
      BY <1>0, <1>1, <2>1, CourseStays
  <1>11. CASE SetHeaterTooHot
    BY <1>1, <1>11, CourseOver DEF SetHeaterTooHot, Raise, Operations, sending
  <1> QED
    BY <1>4, <1>5, <1>6, <1>7, <1>8, <1>9, <1>10, <1>11 DEF Owner

\* The timer.
LEMMA PatrolsCourse ==
    ASSUME TypeOK, HeadNeeded, Latest, OnItsWay, Patrols
    PROVE  Latest' /\ OnItsWay'
  <1>1. UNCHANGED <<headType, applied, cmdbuf, commandQueue>>
    BY DEF Patrols, PatrolCommand, PatrolPing, PatrolUpdate, PatrolHello, PatrolNoHead,
           PatrolOffline, Patrol, Retry, head, config, sending
  <1>2. toHead \in Seq(ToHeadLines) /\ Hello \in ToHeadLines /\ Ping \in ToHeadLines
    BY Lines, LinesTyped
  <1>3. \A ch, v : Settles(toHead, applied, ch, v) => Settles(toHead', applied', ch, v)
    <2>1. CASE PatrolCommand
      <3>1. /\ cmdbuf \in ToHeadLines /\ cmdbuf # NoCmd /\ cmdbuf.type = "CMD"
            /\ toHead' = Append(toHead, cmdbuf)
        BY <2>1, Lines, ClassOf DEF PatrolCommand, Retry, Say, TypeOK, SendingType
      <3>2. \A v : Settles(toHead, applied, cmdbuf.ch, v) => v = cmdbuf.v
        BY <1>2, <3>1, SettlesOnce DEF Latest
      <3> QED
        BY <1>1, <1>2, <3>1, <3>2, SettlesAppend
    <2>2. ASSUME NEW m \in {Hello, Ping}, toHead' = Append(toHead, m)
          PROVE  \A ch, v : Settles(toHead, applied, ch, v) => Settles(toHead', applied', ch, v)
      <3>1. m \in ToHeadLines /\ m.type # "CMD"
        BY <1>2, <2>2 DEF Hello, Ping
      <3> QED
        BY <1>1, <1>2, <2>2, <3>1, SettlesAppend
    <2>3. CASE PatrolPing \/ PatrolUpdate
      BY <2>2, <2>3 DEF PatrolPing, PatrolUpdate, Retry, Say
    <2>4. CASE PatrolHello
      BY <2>2, <2>4 DEF PatrolHello, Retry, Say
    <2>5. CASE PatrolNoHead \/ PatrolOffline
      BY <1>1, <2>5 DEF PatrolNoHead, PatrolOffline
    <2> QED
      BY <2>1, <2>3, <2>4, <2>5 DEF Patrols
  <1>4. Latest'
    BY <1>1, <1>3, LatestStays
  <1>5. CASE PatrolCommand \/ PatrolPing \/ PatrolHello \/ PatrolUpdate
    <2>1. UNCHANGED <<op, done, stFlag, ext, want>>
      BY <1>5 DEF PatrolCommand, PatrolPing, PatrolHello, PatrolUpdate, Retry, session
    <2> QED
      BY <1>1, <1>3, <1>4, <2>1, CourseStays
  <1>6. CASE PatrolNoHead
    BY <1>6 DEF PatrolNoHead
  <1>7. CASE PatrolOffline
    BY <1>4, <1>7, CourseOver DEF PatrolOffline, Offline, Raise, Operations
  <1> QED
    BY <1>5, <1>6, <1>7 DEF Patrols

\* The handlers.
LEMMA ReceiveCourse ==
    ASSUME TypeOK, RightHead, HeadNeeded, ExtFits, ExtFits', Latest, OnItsWay, Receive
    PROVE  Latest' /\ OnItsWay'
  <1>1. UNCHANGED <<headType, applied, required>>
    BY DEF Receive, RecvOk, RecvEr, RecvHello, RecvPongReset, RecvPong, Incoming, head, config
  <1>2. ASSUME UNCHANGED <<cmdbuf, toHead>> PROVE Latest'
    BY <1>1, <1>2, LatestStays
  <1>3. ASSUME commandQueue # <<>>, stFlag = "RUNNING", SendFirst(commandQueue),
               UNCHANGED <<op, done, stFlag, ext, want>>
        PROVE  Latest' /\ OnItsWay'
    <2>1. commandQueue[1] \in Commands
      BY <1>3, QueueTypes DEF TypeOK, SendingType
    <2>2. Latest'
      BY <1>1, <1>3, <2>1, SomeHead, LatestSent DEF SendFirst
    <2> QED
      BY <1>1, <1>3, <2>2, CourseSent
  <1>4. CASE RecvOk
    <2>1. UNCHANGED <<stFlag, ext, want>>
      BY <1>4 DEF RecvOk, session
    <2>2. cmdbuf' = NoCmd => Latest'
      BY DEF Latest
    <2>3. CASE cmdbuf' = NoCmd /\ LoseFirst(commandQueue)
      BY <2>2, <2>3, CourseOver DEF LoseFirst, Raise, Operations
    <2>4. CASE commandQueue = <<>> /\ cmdbuf' = NoCmd /\ UNCHANGED <<commandQueue, toHead, op>>
      <3>1. \A ch : Asked(ch)' = Asked(ch)
        BY <2>1, <2>4 DEF Asked
      <3>2. Coming'
        BY <1>1, <2>1, <2>4, <3>1 DEF OnItsWay, Coming
      <3> QED
        BY <2>1, <2>2, <2>4, <3>2 DEF OnItsWay, InSession, Drained
    <2> QED
      BY <1>3, <1>4, <2>1, <2>3, <2>4 DEF RecvOk
  <1>5. CASE RecvEr \/ RecvPongReset
    <2>1. UNCHANGED <<cmdbuf, toHead>> /\ op' = "failed"
      BY <1>5 DEF RecvEr, RecvPongReset, Offline, Raise, sending
    <2> QED
      BY <1>2, <2>1, CourseOver DEF Operations
  <1>6. CASE RecvHello
    <2>1. UNCHANGED <<cmdbuf, commandQueue, toHead>>
      BY <1>6 DEF RecvHello, sending
    <2>2. CASE op' \notin Operations
      BY <1>2, <2>1, <2>2, CourseOver
    <2>3. CASE op' \in Operations
      <3>1. /\ UNCHANGED <<op, done>> /\ stFlag' = "RUNNING"
            /\ ext # "none" => UNCHANGED want
        BY <1>6, <2>3 DEF RecvHello, OnReady, Raise, Operations
      <3>2. stFlag = "RUNNING"
        BY <2>3, <3>1 DEF OnItsWay, InSession
      <3>3. ext' = ext /\ ext # "none"
        BY <1>1, HeadConstants DEF ExtFits, HeadNeeded, TypeOK, SessionType
      <3> QED
        BY <1>1, <1>2, <2>1, <3>1, <3>2, <3>3, CourseStays
    <2> QED
      BY <2>2, <2>3
  <1>7. CASE RecvPong
    <2>1. UNCHANGED <<stFlag, ext, want>>
      BY <1>7 DEF RecvPong
    <2>2. CASE UNCHANGED <<sending, toHead, op, done>>
      BY <1>1, <1>2, <2>1, <2>2, CourseStays DEF sending
    <2>3. CASE commandQueue # <<>> /\ Sendable /\ SendFirst(commandQueue) /\ UNCHANGED <<op, done>>
      BY <1>3, <2>1, <2>3 DEF Sendable
    <2>4. CASE LoseFirst(commandQueue) /\ UNCHANGED cmdbuf
      BY <1>2, <2>4, CourseOver DEF LoseFirst, Raise, Operations
    <2> QED
      BY <1>7, <2>2, <2>3, <2>4 DEF RecvPong
  <1> QED
    BY <1>4, <1>5, <1>6, <1>7 DEF Receive

\* The clock, the head and the line, with nothing worse than a late answer.
LEMMA WorldCourse ==
    ASSUME TypeOK, RightHead, HeadNeeded, Latest, OnItsWay, OnlySlow', TypeOK',
           Elapse \/ ElapseUpdate \/ HeadActs \/ Environment \/ UNCHANGED vars
    PROVE  Latest' /\ OnItsWay'
  <1>1. UNCHANGED <<op, done, stFlag, ext, want, cmdbuf, commandQueue, headType>>
    BY DEF Elapse, ElapseUpdate, HeadActs, HeadGreets, HeadPongs, HeadObeys, NobodyReads,
           HeadReads, HeadRuns, Environment, LoseToHead, LoseToHost, HeadRestarts, HeadRefuses,
           HeadErrs, config, session, sending, owner, vars
  <1>2. ~Environment
    <2>1. ASSUME NEW kind \in AllHeadFaults \ {"slow"}, Fault(kind) PROVE FALSE
      <3>1. faults \in [AllHeadFaults -> Nat] /\ faults'[kind] = faults[kind] + 1
        BY <2>1 DEF Fault, TypeOK, CountType
      <3> QED
        BY <3>1 DEF OnlySlow
    <2> QED
      BY <2>1 DEF Environment, LoseToHead, LoseToHost, HeadRestarts, HeadRefuses, HeadErrs,
         AllHeadFaults
  <1>3. toHead \in Seq(ToHeadLines)
    BY LinesTyped
  <1>4. headType # "absent" => \A ch \in Channel : \A v :
            Settles(toHead, applied, ch, v) => Settles(toHead', applied', ch, v)
    <2>1. CASE HeadGreets \/ HeadPongs
      <3>1. toHead # <<>> /\ toHead' = Tail(toHead) /\ toHead[1].type # "CMD" /\ UNCHANGED applied
        BY <2>1 DEF HeadGreets, HeadPongs, HeadReads, head
      <3> QED
        BY <1>3, <3>1, SettlesRead
    <2>2. CASE HeadObeys
      <3>1. /\ toHead # <<>> /\ toHead' = Tail(toHead)
            /\ applied' = [applied EXCEPT ![toHead[1].ch] = toHead[1].v]
        BY <2>2 DEF HeadObeys, HeadReads
      <3>2. toHead[1].type = "CMD"
        BY <2>2 DEF HeadObeys, HeadReads
      <3>3. applied \in [Channel -> Level]
        BY DEF TypeOK, SessionType
      <3>4. \A ch \in Channel : /\ toHead[1].ch = ch => applied'[ch] = toHead[1].v
                                /\ toHead[1].ch # ch => applied'[ch] = applied[ch]
        BY <3>1, <3>3
      <3> QED
        BY <1>3, <3>1, <3>2, <3>4, SettlesRead
    <2>3. CASE NobodyReads
      BY <2>3 DEF NobodyReads
    <2>4. CASE Elapse \/ ElapseUpdate \/ UNCHANGED vars
      BY <2>4 DEF Elapse, ElapseUpdate, head, wires, vars
    <2> QED
      BY <1>2, <2>1, <2>2, <2>3, <2>4 DEF HeadActs
  <1>5. Latest'
    BY <1>1, <1>4, LatestStays
  <1>6. op \in Operations => headType # "absent"
    BY SomeHead DEF OnItsWay, InSession
  <1>7. OnItsWay'
    BY <1>1, <1>4, <1>6, CourseStays
  <1> QED
    BY <1>5, <1>7

\* As long as nothing worse happens than that answers come late.
LEMMA CourseStep ==
    ASSUME TypeOK, TypeOK', RightHead, ExtFits, ExtFits', Course, [Next]_vars
    PROVE  Course'
  <1> SUFFICES ASSUME OnlySlow'
               PROVE  Latest' /\ OnItsWay'
    BY DEF Course
  <1>1. OnlySlow
    <2>1. UNCHANGED required
      BY DEF Next, Owner, Bootstrap, Recover, Standby, Shutdown, Reset, SetHeater, SetHeaterTooHot,
          SetFan, SetCommandCallback, SetAllsetCallback, Call, Patrols, PatrolCommand, PatrolPing,
          PatrolUpdate, PatrolHello, PatrolNoHead, PatrolOffline, Patrol, Elapse,
          ElapseUpdate, Receive, RecvOk, RecvEr, RecvHello, RecvPongReset, RecvPong,
          Incoming, HeadActs, HeadGreets, HeadPongs, HeadObeys, NobodyReads, HeadReads,
          HeadRuns, Environment, LoseToHead, LoseToHost, HeadRestarts, HeadRefuses,
          HeadErrs, config, vars
    <2>2. faults \in [AllHeadFaults -> Nat] /\ faults' \in [AllHeadFaults -> Nat]
      BY DEF TypeOK, CountType
    <2>3. \A kind \in AllHeadFaults : faults'[kind] \in {faults[kind], faults[kind] + 1}
      BY <2>2, FaultOrNot DEF Fault
    <2>4. \A kind \in AllHeadFaults : faults'[kind] = 0 => faults[kind] = 0
      BY <2>2, <2>3
    <2> QED
      BY <2>1, <2>4 DEF OnlySlow, HeadNeeded
  <1>2. HeadNeeded /\ Latest /\ OnItsWay
    BY <1>1 DEF Course, OnlySlow
  <1> QED
    BY <1>2, OwnerCourse, PatrolsCourse, ReceiveCourse, WorldCourse DEF Next

\* A callback that has come early still has its commands on the line.
LEMMA CourseMeans ==
    ASSUME TypeOK, Course
    PROVE  ConfirmedSettled
  <1> SUFFICES ASSUME HeadNeeded, FaultTotal = faults["slow"], CalledBack,
                      NEW ch \in Channel, Asked(ch) # Unset
               PROVE  Settles(toHead, applied, ch, Asked(ch))
    BY DEF ConfirmedSettled
  <1>1. OnlySlow
    <2>1. \A kind \in AllHeadFaults : faults[kind] \in Nat
      BY DEF TypeOK, CountType
    <2>2. /\ faults["lose"] \in Nat /\ faults["slow"] \in Nat /\ faults["reset"] \in Nat
          /\ faults["refuse"] \in Nat /\ faults["error"] \in Nat
      BY <2>1 DEF AllHeadFaults
    <2>3. /\ faults["lose"] = 0 /\ faults["reset"] = 0 /\ faults["refuse"] = 0
          /\ faults["error"] = 0
      BY <2>2 DEF FaultTotal
    <2> QED
      BY <2>3 DEF OnlySlow, AllHeadFaults
  <1>2. op \in Operations /\ done /\ ext = "EXTRUDER"
    BY DEF Asked, Operations, CalledBack
  <1>3. commandQueue = <<>> /\ Arrives(commandQueue, toHead, applied, ch, Asked(ch))
    BY <1>1, <1>2 DEF Course, OnItsWay, Drained, Coming
  <1> QED
    BY <1>3 DEF Arrives, LastOf

-----------------------------------------------------------------------------
(* The theorems. *)

\* The invariant holds at the start and every step keeps it.
THEOREM Invariance == Spec => []IInv
  <1>1. Init => IInv
    <2>1. Init => TypeOK
      <3>1. ASSUME Init PROVE SessionType
        <4>1. ext \in {"none", "EXTRUDER", "LASER"}
          BY <3>1, HeadConstants DEF Init
        <4>2. want \in [Channel -> Setting] /\ applied \in [Channel -> Level]
          BY <3>1, FreshType DEF Init
        <4>3. toHost \in Seq(ToHostLines)
          BY <3>1 DEF Init
        <4> QED
          BY <3>1, <4>1, <4>2, <4>3 DEF Init, SessionType
      <3>2. ASSUME Init PROVE SendingType
        <4>1. sendRetry \in 0..MaxRetry
          BY <3>2, HeadConstants DEF Init
        <4>2. commandQueue \in Seq(Commands) /\ toHead \in Seq(ToHeadLines)
          BY <3>2 DEF Init
        <4> QED
          BY <3>2, <4>1, <4>2 DEF Init, SendingType
      <3>3. Init => CountType
        BY DEF Init, CountType
      <3> QED
        BY <3>1, <3>2, <3>3 DEF TypeOK
    <2>2. Init => Greetings /\ ExtFits /\ RightHead
      BY DEF Init, Greetings, ExtFits, RightHead, HeadNeeded
    <2>3. Init => Pipe = <<>>
      BY LinesTyped, <2>1 DEF Init
    <2>4. ASSUME Init PROVE Budget /\ Spent /\ ToleratesLosses
      <3>1. \A c : ~Awaited(c)
        BY <2>4 DEF Init, Awaited
      <3>2. Lost = 0 /\ FaultTotal = 0 /\ sendRetry = 0
        BY <2>4, <3>1 DEF Init, Lost, One, Missing, FaultTotal, AllHeadFaults
      <3> QED
        BY <2>4, <3>1, <3>2 DEF Init, Budget, Spent, ToleratesLosses
    <2>5. ASSUME Init PROVE Session
      <3>1. \A c : ~InFlight(c)
        BY <2>3, <2>5 DEF InFlight, Has
      <3>2. LineInOrder
        BY <2>3, <2>5, <3>1 DEF Init, LineInOrder, Orderly, OrderlyQueue, Quiet, Unopened, Idle
      <3>3. Answered /\ Promise
        BY <2>5 DEF Init, Answered, Promise, InSession, Underway, Finished, Operations
      <3> QED
        BY <3>2, <3>3 DEF Session
    <2>6. Init => Course
      BY DEF Init, Course, Latest, OnItsWay, InSession, Coming, Drained, Operations
    <2> QED
      BY <2>1, <2>2, <2>4, <2>5, <2>6 DEF IInv
  <1>2. IInv /\ [Next]_vars => IInv'
    <2>1. ASSUME IInv, [Next]_vars PROVE TypeOK' /\ Greetings' /\ ExtFits' /\ RightHead'
      BY <2>1, TypeStep, GreetingsStep, RightHeadStep DEF IInv
    <2>2. ASSUME IInv, [Next]_vars PROVE Budget' /\ Spent' /\ ToleratesLosses' /\ Session'
      BY <2>1, <2>2, ToleranceStep, SessionStep DEF IInv
    <2>3. ASSUME IInv, [Next]_vars PROVE Course'
      BY <2>1, <2>3, CourseStep DEF IInv
    <2> QED
      BY <2>1, <2>2, <2>3 DEF IInv
  <1> QED
    BY <1>1, <1>2, PTL DEF Spec

\* Every reachable state is well typed.
THEOREM TypeCorrect == Spec => []TypeOK
  <1>1. IInv => TypeOK
    BY DEF IInv
  <1> QED
    BY <1>1, Invariance, PTL

\* With a required type, a session is only ever open with a head of that type.
THEOREM OnlyTheRightHead == Spec => []RightHead
  <1>1. IInv => RightHead
    BY DEF IInv
  <1> QED
    BY <1>1, Invariance, PTL

\* An attached head is given up as offline only after more faults than there are
\* retries: patrol counts, and each of its repetitions answers for a lost line, a
\* late answer or a refusal of its own.
THEOREM LossesAreTolerated == Spec => []ToleratesLosses
  <1>1. IInv => ToleratesLosses
    BY DEF IInv
  <1> QED
    BY <1>1, Invariance, PTL

\* When the callback of recover, standby or shutdown comes, the head works at what
\* was asked for, unless an answer has outlived COMMAND_TIMEOUT or a bootstrap has
\* followed another before its answer.
THEOREM CallbackMeansDone == Spec => []ConfirmedApplied
  <1>1. IInv => ConfirmedApplied
    BY PromiseMeans DEF IInv
  <1> QED
    BY <1>1, Invariance, PTL

\* With a head that is needed and nothing worse than late answers, the callback may
\* come early, but then every command of the operation is already on the line, and
\* none of an earlier one behind it.
THEOREM CallbackMeansUnderway == Spec => []ConfirmedSettled
  <1>1. IInv => ConfirmedSettled
    BY CourseMeans DEF IInv
  <1> QED
    BY <1>1, Invariance, PTL
=============================================================================
