--------------------------------- MODULE UsbLink ---------------------------------
(***************************************************************************)
(* The session a computer holds with the robot over the USB cable, in its  *)
(* protocol level 2: USBHandler and USBProtocol2 of                        *)
(* fluxmonitor/interfaces/usb2pc.py.  A handshake fixes the session; then  *)
(* messages are numbered in each direction, acknowledged by the number of  *)
(* the last one taken, and kept by the device until they are.  The device  *)
(* has no timer: it repeats messages when the client says something.       *)
(*                                                                         *)
(* The client is external and mirrors the device's conventions.  What it   *)
(* sends arrives; what the device sends may be lost, whole messages at a   *)
(* time, when the cable driver gives up on a transfer (UsbCable).          *)
(***************************************************************************)
EXTENDS Naturals, Sequences, FiniteSets

CONSTANTS
    LocalMod,    \* the device numbers its messages modulo this (65536)
    RemoteMod,   \* and expects those of the client modulo this (65535)
    Low, High,   \* numbers on either side of the wrap (10000, 50000)
    Burst,       \* so many messages of a longer queue are repeated (4)
    MaxSent,     \* bound: messages in a session and direction
    MaxQueue,    \* bound: length of the queue of unacknowledged messages
    MaxWire,     \* bound: messages on the way in one direction
    MaxSessions, \* bound: number of sessions
    MaxLost      \* bound: number of messages lost

ASSUME UsbLinkConstants ==
    /\ LocalMod \in Nat \ {0} /\ RemoteMod \in Nat \ {0}
    /\ Low \in Nat /\ High \in Nat /\ Burst \in Nat
    /\ {MaxSent, MaxQueue, MaxWire, MaxSessions, MaxLost} \subseteq Nat

\* What the theorems take for granted of the numbers.  The code does not bound its queue:
\* they speak of fewer unacknowledged messages than there are numbers.
ASSUME UsbLinkWindow ==
    MaxQueue < LocalMod /\ RemoteMod > 1 /\ Low <= High

VARIABLES
    \* USBHandler: protocol # None, _proto_session (numbered as they come)
    open, session,
    \* USBProtocol2
    localIdx,        \* _local_idx
    remoteIdx,       \* _remote_idx
    localQueue,      \* _local_queue
    inhibition,      \* _resend_inhibition
    \* the client
    client,          \* "lost", "greeted" or "open"
    cSession,        \* the session it was greeted with
    cExpects, cNext, \* number it expects, number of its next message
    asking,          \* its message that is not acknowledged, or NoMsg
    \* what was sent and taken in this session, both ways
    sent, got, asked, served,
    topAck,          \* the highest number, acknowledged, has covered a message behind it
    \* the cable
    toClient, toDevice, lost

device == <<open, session, localIdx, remoteIdx, localQueue, inhibition>>
computer == <<client, cSession, cExpects, cNext, asking>>
counts == <<sent, got, asked, served, topAck>>
vars == <<device, computer, counts, toClient, toDevice, lost>>

\* A message, with the session and the place in it that identify its payload.
Msg(idx, s, n) == [type |-> "msg", idx |-> idx, s |-> s, n |-> n]
NoMsg == [type |-> "none"]
Ack(idx) == [type |-> "ack", idx |-> idx]
Hello(s) == [type |-> "hello", s |-> s]     \* 0xff
Shake(s) == [type |-> "shake", s |-> s]     \* 0xfe
Done(s) == [type |-> "done", s |-> s]       \* 0xfd
Request == [type |-> "request"]             \* 0xfc as the comments lay it out
Reset == [type |-> "reset"]                 \* 0xfc in the frame of level 2

Messages == [type : {"msg"}, idx : Nat, s : Nat, n : Nat]
Acks == [type : {"ack"}, idx : Nat]
ToClientMessages == Messages \cup Acks \cup [type : {"hello", "done"}, s : Nat]
ToDeviceMessages == Messages \cup Acks \cup [type : {"shake"}, s : Nat] \cup {Request, Reset}

TypeOK ==
    /\ open \in BOOLEAN /\ inhibition \in BOOLEAN /\ topAck \in BOOLEAN
    /\ session \in Nat \ {0} /\ localIdx \in Nat /\ remoteIdx \in Nat
    /\ localQueue \in Seq(Messages)
    /\ client \in {"lost", "greeted", "open"}
    /\ cSession \in Nat /\ cExpects \in Nat /\ cNext \in Nat
    /\ asking \in Messages \cup {NoMsg}
    /\ sent \in Nat /\ got \in Nat /\ asked \in Nat /\ served \in Nat /\ lost \in Nat
    /\ toClient \in Seq(ToClientMessages) /\ toDevice \in Seq(ToDeviceMessages)

Init ==
    /\ open = FALSE /\ session = 1
    /\ localIdx = 0 /\ remoteIdx = 0 /\ localQueue = <<>> /\ inhibition = FALSE
    /\ client = "lost" /\ cSession = 0 /\ cExpects = 0 /\ cNext = 0 /\ asking = NoMsg
    /\ sent = 0 /\ got = 0 /\ asked = 0 /\ served = 0 /\ topAck = FALSE
    /\ toClient = <<Hello(1)>> /\ toDevice = <<>> /\ lost = 0

Fits(wire) == Len(wire) <= MaxWire
Sends(msgs) == toClient' = toClient \o msgs /\ Fits(toClient')
Receives == toDevice # <<>> /\ toDevice' = Tail(toDevice)

-----------------------------------------------------------------------------
\* USBProtocol2.  An acknowledgement names the number before the expected one.
Previous(idx, mod) == IF idx = 0 THEN mod - 1 ELSE idx - 1
AckNow(idx) == Ack(Previous(idx, LocalMod))

\* on_message, channel 0xf2: pop what it covers, in the order of the queue.
\* Mutant: one more than was acknowledged.
CoversNext(seq, idx) == idx <= seq + 1 \/ (seq < Low /\ idx > High)
Covers(seq, idx) == idx <= seq \/ (seq < Low /\ idx > High)

Covered(seq) ==
    CHOOSE k \in 0..Len(localQueue) :
        /\ \A i \in 1..k : Covers(seq, localQueue[i].idx)
        /\ k < Len(localQueue) => ~Covers(seq, localQueue[k + 1].idx)

\* What is left is repeated, unless a message was sent since the last repetition.
\* Nothing is left by the highest number, not even what was sent after it.
RecvAck ==
    /\ open /\ Receives /\ Head(toDevice).type = "ack"
    /\ LET seq == Head(toDevice).idx
           left == SubSeq(localQueue, Covered(seq) + 1, Len(localQueue))
       IN  /\ localQueue' = left
           /\ inhibition' = (inhibition /\ left = <<>>)
           /\ Sends(IF inhibition THEN <<>> ELSE left)
           /\ topAck' = (topAck \/ (localQueue # <<>> /\ seq = LocalMod - 1
                                   /\ localQueue[Len(localQueue)].idx # seq))
    /\ UNCHANGED <<open, session, localIdx, remoteIdx, computer, sent, got, asked, served, lost>>

\* _send: number it, keep it, send it after the messages in before.
SendAfter(before) ==
    LET m == Msg(localIdx, session, sent + 1) IN
    /\ sent < MaxSent /\ Len(localQueue) < MaxQueue
    /\ localQueue' = Append(localQueue, m)
    /\ localIdx' = (localIdx + 1) % LocalMod
    /\ inhibition' = (inhibition \/ Len(localQueue) > 0)
    /\ sent' = sent + 1
    /\ Sends(Append(before, m))

\* A channel has something to say: a camera image, a piece of a file.
DeviceSends ==
    /\ open
    /\ SendAfter(<<>>)
    /\ UNCHANGED <<open, session, remoteIdx, computer, got, asked, served, topAck, toDevice, lost>>

\* The next message of the client: acknowledge it, repeat the head of a long
\* queue, serve it and, but for a piece of a file, answer it.
RecvNext ==
    /\ open /\ Receives
    /\ Head(toDevice).type = "msg" /\ Head(toDevice).idx = remoteIdx
    /\ remoteIdx' = (remoteIdx + 1) % RemoteMod
    /\ served' = served + 1
    /\ LET first == <<AckNow(remoteIdx')>>
                    \o IF Len(localQueue) > Burst THEN SubSeq(localQueue, 1, Burst) ELSE <<>>
       IN  \/ SendAfter(first)
           \/ Sends(first) /\ UNCHANGED <<localIdx, localQueue, inhibition, sent>>
    /\ UNCHANGED <<open, session, computer, got, asked, topAck, lost>>

\* Any other number is acknowledged and dropped.  The frames of the handshake
\* have no number: two bytes of theirs are read as one that is not expected.
RecvOther ==
    /\ open /\ Receives
    /\ \/ Head(toDevice).type = "msg" /\ Head(toDevice).idx # remoteIdx
       \/ Head(toDevice).type \in {"shake", "request"}
    /\ Sends(<<AckNow(remoteIdx)>>)
    /\ UNCHANGED <<device, computer, counts, lost>>

-----------------------------------------------------------------------------
\* USBHandler.  initial_session, after a reset or a message it cannot read.
RecvReset ==
    /\ open /\ Receives /\ Head(toDevice).type = "reset"
    /\ open' = FALSE /\ session' = session + 1
    /\ Sends(<<Hello(session + 1)>>)
    /\ UNCHANGED <<localIdx, remoteIdx, localQueue, inhibition, computer, counts, lost>>

\* _on_handshake.
\* Mutant: does not look at the session.
RecvShakeAny ==
    /\ ~open /\ Receives
    /\ Head(toDevice).type = "shake"
    /\ open' = TRUE
    /\ localIdx' = 0 /\ remoteIdx' = 0 /\ localQueue' = <<>> /\ inhibition' = FALSE
    /\ sent' = 0 /\ got' = 0 /\ asked' = 0 /\ served' = 0 /\ topAck' = FALSE
    /\ Sends(<<Done(session)>>)
    /\ UNCHANGED <<session, computer, lost>>

RecvShake ==
    /\ ~open /\ Receives
    /\ Head(toDevice) = Shake(session)
    /\ open' = TRUE
    /\ localIdx' = 0 /\ remoteIdx' = 0 /\ localQueue' = <<>> /\ inhibition' = FALSE
    /\ sent' = 0 /\ got' = 0 /\ asked' = 0 /\ served' = 0 /\ topAck' = FALSE
    /\ Sends(<<Done(session)>>)
    /\ UNCHANGED <<session, computer, lost>>

RecvRequest ==
    /\ ~open /\ Receives /\ Head(toDevice).type = "request"
    /\ Sends(<<Hello(session)>>)
    /\ UNCHANGED <<device, computer, counts, lost>>

Ignore ==
    /\ ~open /\ Receives
    /\ Head(toDevice) # Shake(session) /\ Head(toDevice).type # "request"
    /\ UNCHANGED <<device, computer, counts, toClient, lost>>

Device ==
    \/ RecvAck \/ RecvNext \/ RecvOther \/ RecvReset
    \/ RecvShake \/ RecvRequest \/ Ignore

-----------------------------------------------------------------------------
\* The client.  It takes what it expects and answers everything.
ClientTakes == toClient # <<>> /\ toClient' = Tail(toClient)
Tells(msgs) == toDevice' = toDevice \o msgs /\ Fits(toDevice')

ClientGreeted ==
    /\ ClientTakes /\ Head(toClient).type = "hello"
    /\ client' = "greeted" /\ cSession' = Head(toClient).s
    /\ Tells(<<Shake(Head(toClient).s)>>)
    /\ UNCHANGED <<device, cExpects, cNext, asking, counts, lost>>

ClientOpens ==
    /\ ClientTakes /\ client = "greeted" /\ Head(toClient) = Done(cSession)
    /\ client' = "open" /\ cExpects' = 0 /\ cNext' = 0 /\ asking' = NoMsg
    /\ UNCHANGED <<device, cSession, counts, toDevice, lost>>

ClientAccepts ==
    /\ ClientTakes /\ client = "open"
    /\ Head(toClient).type = "msg" /\ Head(toClient).idx = cExpects
    /\ cExpects' = (cExpects + 1) % LocalMod
    /\ got' = got + 1
    /\ Tells(<<AckNow(cExpects')>>)
    /\ UNCHANGED <<device, client, cSession, cNext, asking, sent, asked, served, topAck, lost>>

ClientRepeatsAck ==
    /\ ClientTakes /\ client = "open"
    /\ Head(toClient).type = "msg" /\ Head(toClient).idx # cExpects
    /\ Tells(<<AckNow(cExpects)>>)
    /\ UNCHANGED <<device, computer, counts, lost>>

ClientAcked ==
    /\ ClientTakes /\ client = "open" /\ Head(toClient).type = "ack"
    /\ asking' = IF asking # NoMsg /\ Covers(Head(toClient).idx, asking.idx)
               THEN NoMsg ELSE asking
    /\ UNCHANGED <<device, client, cSession, cExpects, cNext, counts, toDevice, lost>>

ClientIgnores ==
    /\ ClientTakes
    /\ Head(toClient).type \in {"msg", "ack", "done"}
    /\ client # "open" /\ Head(toClient) # Done(cSession)
    /\ UNCHANGED <<device, computer, counts, toDevice, lost>>

ClientReads ==
    \/ ClientGreeted \/ ClientOpens \/ ClientAccepts
    \/ ClientRepeatsAck \/ ClientAcked \/ ClientIgnores

\* One request or ping at a time, repeated until it is acknowledged.
ClientAsks ==
    /\ client = "open" /\ asking = NoMsg /\ asked < MaxSent
    /\ asking' = Msg(cNext, cSession, asked + 1)
    /\ cNext' = (cNext + 1) % RemoteMod
    /\ asked' = asked + 1
    /\ Tells(<<asking'>>)
    /\ UNCHANGED <<device, client, cSession, cExpects, sent, got, served, topAck, toClient, lost>>

ClientAsksAgain ==
    /\ client = "open" /\ asking # NoMsg
    /\ Tells(<<asking>>)
    /\ UNCHANGED <<device, computer, counts, toClient, lost>>

\* It waits no longer for a handshake, or starts over.
ClientRequests ==
    /\ client # "open"
    /\ Tells(<<Request>>)
    /\ UNCHANGED <<device, computer, counts, toClient, lost>>

ClientResets ==
    /\ session + Len(SelectSeq(toDevice, LAMBDA m : m = Reset)) < MaxSessions
    /\ client' = "lost"
    /\ Tells(<<Reset>>)
    /\ UNCHANGED <<device, cSession, cExpects, cNext, asking, counts, toClient, lost>>

Lose ==
    /\ toClient # <<>> /\ lost < MaxLost
    /\ \E i \in 1..Len(toClient) :
          toClient' = SubSeq(toClient, 1, i - 1) \o SubSeq(toClient, i + 1, Len(toClient))
    /\ lost' = lost + 1
    /\ UNCHANGED <<device, computer, counts, toDevice>>

Next ==
    \/ Device \/ DeviceSends
    \/ ClientReads \/ ClientAsks \/ ClientAsksAgain \/ ClientRequests \/ ClientResets
    \/ Lose

Spec == Init /\ [][Next]_vars

-----------------------------------------------------------------------------
\* What either side takes is what the other sent next in the same session: a
\* repeated message is not taken twice and one of an earlier session never, also
\* when the numbers have gone round.  A client that has lost a message to topAck
\* takes another one under its number after that.
ExactlyOnceInOrder ==
    [][/\ got' > got /\ ~topAck => Head(toClient).n = got' /\ Head(toClient).s = cSession
       /\ served' > served => Head(toDevice).n = served' /\ Head(toDevice).s = session]_vars

\* A message leaves the queue only when the client has taken it, however often the
\* numbers have gone round.  The exception is the highest number, which also means
\* "nothing yet": it covers every message of the queue, also those behind it.
Queued == {localQueue[i].n : i \in DOMAIN localQueue}
AckedIsDelivered == open /\ ~topAck => (got + 1)..sent \subseteq Queued

\* The comment at the head of usb2pc.py: the client sends 0xfc, the device
\* answers with the handshake 0xff.
HandshakeOnRequest ==
    [][(Receives /\ Head(toDevice) = Request)
         => \E i \in DOMAIN toClient' : toClient'[i].type = "hello"]_vars
=============================================================================
