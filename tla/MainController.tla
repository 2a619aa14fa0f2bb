--------------------------- MODULE MainController ---------------------------
(***************************************************************************)
(* The line protocol between the player and the motion mainboard           *)
(* (src/src/player/main_controller.pyx and main_controller_misc.c).        *)
(*                                                                         *)
(* The controller numbers every command, writes it into a ring of BufSize  *)
(* buffers, and keeps the number in _cmd_sent until the mainboard has      *)
(* accepted it and in _cmd_padding until the mainboard has finished it.  A *)
(* line that is lost or damaged on the serial line is sent again, from the *)
(* ring, on a mismatch report or after a timeout.                          *)
(*                                                                         *)
(* The mainboard and the serial line are external.  They are modelled from *)
(* the replies the controller and its tests understand: with line checking *)
(* on, the mainboard accepts exactly the line number it expects.           *)
(***************************************************************************)
EXTENDS Integers, Sequences, SequencesExt

CONSTANTS
    Command,     \* the commands an owner may send (G-code lines)
    BufSize,     \* bufsize: 10 in the player, 14 in the interactive tasks
    MaxRetry,    \* MAX_COMMAND_RETRY
    FaultKinds,  \* what the serial line or the printer may do wrong
    MaxFaults,   \* bound: number of faults in a behaviour
    MaxIssued,   \* bound: number of commands sent
    MaxWire      \* bound: messages in flight when the owner bootstraps

AllFaults == {"lose line", "garble line", "lose reply", "runout"}

ASSUME ConstantsAssumption ==
    /\ Command # {}
    /\ BufSize \in Nat /\ BufSize >= 2
    /\ MaxRetry \in Nat /\ MaxFaults \in Nat
    /\ MaxIssued \in Nat /\ MaxWire \in Nat
    /\ FaultKinds \subseteq AllFaults

VARIABLES
    \* the controller
    flags,          \* _flags, as a set
    ln,             \* _ln: number of the last command
    resendInhibit,  \* _resend_inhibit
    expired,        \* COMMAND_TIMEOUT has passed since send_timestamp
    sendRetry,      \* send_retry
    cmdSent,        \* _cmd_sent: sent, acceptance not known
    cmdPadding,     \* _cmd_padding: accepted, completion not known
    commandBuffer,  \* command_buffer: the ring of encoded lines
    \* its owner
    owner,          \* what the callbacks last told the owner
    raised,         \* the exceptions the owner has seen
    issued,         \* history: every command send_cmd took
    \* the wires and the mainboard
    toMb, toHost,   \* FIFO byte streams, one element per line
    linecheck,      \* line checking is on
    expect,         \* the line number the mainboard waits for
    accepted,       \* history: the commands accepted with line checking on
    finished,       \* how many of them have been executed
    unchecked,      \* job lines executed with line checking off
    faults          \* faults so far by kind, together at most MaxFaults

hostVars == <<flags, ln, resendInhibit, expired, sendRetry, cmdSent,
              cmdPadding, commandBuffer>>
ownerVars == <<owner, raised, issued>>
mbVars == <<linecheck, expect, accepted, finished, unchecked>>
vars == <<hostVars, ownerVars, mbVars, toMb, toHost, faults>>

-----------------------------------------------------------------------------
(* Messages. *)

Control(t) == [type |-> t]
Line(n, c) == [type |-> "LINE", ln |-> n, cmd |-> c]
Lines == [type : {"LINE"}, ln : Nat \ {0}, cmd : Command]
NoLine == Control("NONE")

LnReply(n, q) == [type |-> "LN", ln |-> n, queued |-> q]

ToMbMessage == {Control(t) : t \in {"C1O", "DISABLE", "HOME", "TRIGGER"}} \cup Lines

ToHostMessage ==
    {Control(t) : t \in {"ENABLED", "DISABLED", "MISSING", "RUNOUT"}}
    \cup [type : {"LN"}, ln : Nat, queued : Nat]
    \cup [type : {"LINE_MISMATCH"}, correct : Nat, trigger : Nat]
    \cup [type : {"CHECKSUM_MISMATCH"}, ln : Nat]

\* Mutant: the ring is one buffer short.
SlotShort(n) == n % (BufSize - 1)

Slot(n) == n % BufSize

TypeOK ==
    /\ flags \subseteq {"READY", "ERROR", "CLOSING", "CLOSED"}
    /\ ln \in Nat /\ resendInhibit \in Nat
    /\ expired \in BOOLEAN /\ sendRetry \in 0..MaxRetry
    /\ cmdSent \in Seq(Nat) /\ cmdPadding \in Seq(Nat)
    /\ commandBuffer \in [0..BufSize-1 -> Lines \cup {NoLine}]
    /\ owner \in {"free", "waiting", "drained"}
    /\ raised \subseteq {"OFFLINE", "HARDWARE", "RUNOUT"}
    /\ issued \in Seq(Command)
    /\ toMb \in Seq(ToMbMessage) /\ toHost \in Seq(ToHostMessage)
    /\ linecheck \in BOOLEAN /\ expect \in Nat \ {0}
    /\ accepted \in Seq(Command) /\ finished \in Nat /\ unchecked \in Nat
    /\ faults \in [AllFaults -> Nat]

\* A mainboard left in line-check mode by an earlier session still is, and its
\* last report may not have been read.
Init ==
    /\ flags = {} /\ ln = 0 /\ resendInhibit = 0
    /\ expired = TRUE /\ sendRetry = 0
    /\ cmdSent = <<>> /\ cmdPadding = <<>>
    /\ commandBuffer = [i \in 0..BufSize-1 |-> NoLine]
    /\ owner = "free" /\ raised = {} /\ issued = <<>>
    /\ toMb = <<>> /\ toHost \in {<<>>, <<LnReply(1, 0)>>}
    /\ linecheck \in BOOLEAN /\ expect \in {1, 2}
    /\ accepted = <<>> /\ finished = 0 /\ unchecked = 0
    /\ faults = [kind \in AllFaults |-> 0]

-----------------------------------------------------------------------------
(* The controller: operations called by its owner. *)

Closing == flags \cap {"CLOSING", "CLOSED"} # {}
\* Mutant: does not wait for LINECHECK_ENABLED.
UsableUnready == ~Closing
Usable == flags # {} /\ ~Closing
\* Mutant: forgets the commands accepted but not finished.
BufferedCmdSizeSent == Len(cmdSent)
BufferedCmdSize == Len(cmdSent) + Len(cmdPadding)

Bootstrap ==
    /\ \/ /\ flags = {}
          /\ Len(toMb) + Len(toHost) < MaxWire
          /\ expired' = FALSE
          /\ toMb' = Append(toMb, Control("C1O"))
          /\ UNCHANGED flags
       \/ /\ Usable
          /\ flags' = flags \ {"ERROR"}
          /\ UNCHANGED <<expired, toMb>>
    /\ UNCHANGED <<ln, resendInhibit, sendRetry, cmdSent, cmdPadding,
                   commandBuffer, ownerVars, mbVars, toHost, faults>>

\* Mutant: the full buffer takes one more.
SendCmdOverfull(c) ==
    /\ Len(issued) < MaxIssued /\ Usable /\ BufferedCmdSize <= BufSize
    /\ ln' = ln + 1
    /\ commandBuffer' = [commandBuffer EXCEPT ![Slot(ln')] = Line(ln', c)]
    /\ expired' = IF cmdSent = <<>> THEN FALSE ELSE expired
    /\ cmdSent' = Append(cmdSent, ln')
    /\ toMb' = Append(toMb, Line(ln', c))
    /\ issued' = Append(issued, c)
    /\ owner' = IF BufferedCmdSize >= BufSize THEN "waiting" ELSE "free"
    /\ UNCHANGED <<flags, resendInhibit, sendRetry, cmdPadding, raised,
                   mbVars, toHost, faults>>

\* A call that finds the controller unusable or the buffer full raises and
\* changes nothing.
SendCmd(c) ==
    /\ Len(issued) < MaxIssued
    /\ Usable
    /\ BufferedCmdSize < BufSize
    /\ ln' = ln + 1
    /\ commandBuffer' = [commandBuffer EXCEPT ![Slot(ln')] = Line(ln', c)]
    /\ expired' = IF cmdSent = <<>> THEN FALSE ELSE expired
    /\ cmdSent' = Append(cmdSent, ln')
    /\ toMb' = Append(toMb, Line(ln', c))
    /\ issued' = Append(issued, c)
    /\ owner' = IF BufferedCmdSize + 1 >= BufSize THEN "waiting" ELSE "free"
    /\ UNCHANGED <<flags, resendInhibit, sendRetry, cmdPadding, raised,
                   mbVars, toHost, faults>>

\* send_cmd(..., raw=1) writes to the wire and nothing else.
SendRaw ==
    /\ Len(toMb) + Len(toHost) < MaxWire
    /\ toMb' = Append(toMb, Control("TRIGGER"))
    /\ UNCHANGED <<hostVars, ownerVars, mbVars, toHost, faults>>

Close ==
    /\ Usable
    /\ flags' = flags \cup {"CLOSING"}
    /\ toMb' = toMb \o <<Control("DISABLE"), Control("HOME")>>
    /\ UNCHANGED <<ln, resendInhibit, expired, sendRetry, cmdSent, cmdPadding,
                   commandBuffer, ownerVars, mbVars, toHost, faults>>

-----------------------------------------------------------------------------
(* Resending, patrol and the handlers of what the mainboard says. *)

\* The encoded bytes of a queued command are those its ring slot holds now.
LinesOf(queue) == [i \in 1..Len(queue) |-> commandBuffer[Slot(queue[i])]]

Resend(queue, flag) ==
    \/ /\ queue = <<>>
       /\ resendInhibit' = 0
       /\ UNCHANGED toMb
    \/ /\ queue # <<>> /\ flag > 0
       /\ resendInhibit' = flag
       /\ UNCHANGED toMb
    \/ /\ queue # <<>> /\ flag = 0
       /\ resendInhibit' = Head(queue)
       /\ toMb' = toMb \o LinesOf(queue)

\* patrol, from the owner's timer, once COMMAND_TIMEOUT has passed.
PatrolResend ==
    /\ Usable /\ cmdSent # <<>> /\ expired
    /\ sendRetry < MaxRetry
    /\ expired' = FALSE
    /\ sendRetry' = sendRetry + 1
    /\ Resend(cmdSent, 0)
    /\ UNCHANGED <<flags, ln, cmdSent, cmdPadding, commandBuffer, ownerVars,
                   mbVars, toHost, faults>>

\* Mutant: says C1O again to a mainboard that is ready.
PatrolHelloReady ==
    /\ cmdSent = <<>> /\ ~Closing /\ expired /\ sendRetry < MaxRetry
    /\ expired' = FALSE
    /\ sendRetry' = sendRetry + 1
    /\ toMb' = Append(toMb, Control("C1O"))
    /\ UNCHANGED <<flags, ln, resendInhibit, cmdSent, cmdPadding,
                   commandBuffer, ownerVars, mbVars, toHost, faults>>

PatrolHello ==
    /\ flags = {} /\ expired
    /\ sendRetry < MaxRetry
    /\ expired' = FALSE
    /\ sendRetry' = sendRetry + 1
    /\ toMb' = Append(toMb, Control("C1O"))
    /\ UNCHANGED <<flags, ln, resendInhibit, cmdSent, cmdPadding,
                   commandBuffer, ownerVars, mbVars, toHost, faults>>

PatrolOffline ==
    /\ flags = {} \/ (Usable /\ cmdSent # <<>>)
    /\ expired
    /\ sendRetry >= MaxRetry
    /\ raised' = raised \cup {"OFFLINE"}
    /\ UNCHANGED <<hostVars, owner, issued, mbVars, toMb, toHost, faults>>

Elapse ==
    /\ ~expired
    /\ expired' = TRUE
    /\ UNCHANGED <<flags, ln, resendInhibit, sendRetry, cmdSent, cmdPadding,
                   commandBuffer, ownerVars, mbVars, toMb, toHost, faults>>

\* How many entries the loop "while the first is at most n" pops.
Popped(queue, n) ==
    CHOOSE k \in 0..Len(queue) :
        /\ \A i \in 1..k : queue[i] <= n
        /\ k < Len(queue) => queue[k+1] > n

LastAtMost(queue, n) ==
    IF Len(queue) <= n THEN queue
    ELSE SubSeq(queue, Len(queue) - n + 1, Len(queue))

\* What each queue holds once the entries up to n went from cmdSent to
\* cmdPadding.
SentAfter(n) == SubSeq(cmdSent, Popped(cmdSent, n) + 1, Len(cmdSent))
PaddingAfter(n) == cmdPadding \o SubSeq(cmdSent, 1, Popped(cmdSent, n))

Incoming(type) ==
    /\ toHost # <<>> /\ Head(toHost).type = type
    /\ toHost' = Tail(toHost)

\* The queues after a report of the last accepted line and of the commands the
\* mainboard holds.  It restarts the timeout and allows the next resend.
LnTaken(n, queued) ==
    /\ cmdSent' = SentAfter(n)
    /\ cmdPadding' = LastAtMost(PaddingAfter(n), queued)
    /\ expired' = FALSE
    /\ resendInhibit' = 0
    /\ UNCHANGED <<flags, ln, sendRetry, commandBuffer, raised, issued,
                   mbVars, toMb, faults>>

\* Mutant: looks only at the mainboard's queue to call the job done.
RecvLnQueued ==
    /\ flags # {}
    /\ Incoming("LN")
    /\ LnTaken(Head(toHost).ln, Head(toHost).queued)
    /\ LET left == Head(toHost).queued + Len(cmdSent') IN
       owner' = IF Head(toHost).queued = 0 THEN "drained"
                ELSE IF left + 1 = BufSize THEN "free" ELSE owner

\* Mutant: calls back only when the report confirms a command.
RecvLnConfirming ==
    /\ flags # {}
    /\ Incoming("LN")
    /\ LnTaken(Head(toHost).ln, Head(toHost).queued)
    /\ LET left == Head(toHost).queued + Len(cmdSent') IN
       owner' = IF cmdSent' = cmdSent THEN owner
                ELSE IF left = 0 THEN "drained"
                ELSE IF left + 1 = BufSize THEN "free" ELSE owner

\* "LN {received line number} {commands in queue}"
RecvLn ==
    /\ flags # {}
    /\ Incoming("LN")
    /\ LnTaken(Head(toHost).ln, Head(toHost).queued)
    /\ LET left == Head(toHost).queued + Len(cmdSent') IN
       owner' = IF left = 0 THEN "drained"
                ELSE IF left + 1 = BufSize THEN "free" ELSE owner

\* A mismatch report confirms the commands up to n.
Confirmed(n) ==
    /\ cmdSent' = SentAfter(n)
    /\ cmdPadding' = PaddingAfter(n)
    /\ UNCHANGED <<flags, ln, expired, sendRetry, commandBuffer, ownerVars,
                   mbVars, faults>>

ResendAfterMismatch(m) ==
    \/ m.correct < m.trigger /\ Resend(cmdSent', resendInhibit)
    \/ m.correct >= m.trigger /\ resendInhibit' = 0 /\ UNCHANGED toMb

\* Mutant: takes the expected line for a received one.
RecvLineMismatchExpected ==
    /\ flags # {}
    /\ Incoming("LINE_MISMATCH")
    /\ Confirmed(Head(toHost).correct)
    /\ ResendAfterMismatch(Head(toHost))

\* Mutant: takes the received line for the last accepted one.
RecvLineMismatchReceived ==
    /\ flags # {}
    /\ Incoming("LINE_MISMATCH")
    /\ Confirmed(Head(toHost).trigger)
    /\ ResendAfterMismatch(Head(toHost))

\* "ER LINE_MISMATCH {expected} {received}"
RecvLineMismatch ==
    /\ flags # {}
    /\ Incoming("LINE_MISMATCH")
    /\ Confirmed(Head(toHost).correct - 1)
    /\ ResendAfterMismatch(Head(toHost))

\* Mutant: takes the damaged line for an accepted one.
RecvChecksumMismatchAccepted ==
    /\ flags # {}
    /\ Incoming("CHECKSUM_MISMATCH")
    /\ Confirmed(Head(toHost).ln)
    /\ Resend(cmdSent', resendInhibit)

\* "ER CHECKSUM_MISMATCH {expected}"
RecvChecksumMismatch ==
    /\ flags # {}
    /\ Incoming("CHECKSUM_MISMATCH")
    /\ Confirmed(Head(toHost).ln - 1)
    /\ Resend(cmdSent', resendInhibit)

\* The printer stops feeding: raised once, until the owner bootstraps again.
RecvRunout ==
    /\ Incoming("RUNOUT")
    /\ \/ /\ flags # {} /\ "ERROR" \notin flags
          /\ flags' = flags \cup {"ERROR"}
          /\ raised' = raised \cup {"RUNOUT"}
       \/ /\ flags = {} \/ "ERROR" \in flags
          /\ UNCHANGED <<flags, raised>>
    /\ UNCHANGED <<ln, resendInhibit, expired, sendRetry, cmdSent, cmdPadding,
                   commandBuffer, owner, issued, mbVars, toMb, faults>>

\* Once ready, a late LINECHECK_ENABLED is only passed to callback_ctrl.
RecvEnabled ==
    /\ Incoming("ENABLED")
    /\ \/ flags = {} /\ ln' = 0 /\ flags' = {"READY"}
       \/ flags # {} /\ UNCHANGED <<ln, flags>>
    /\ UNCHANGED <<resendInhibit, expired, sendRetry, cmdSent, cmdPadding,
                   commandBuffer, ownerVars, mbVars, toMb, faults>>

RecvDisabled ==
    /\ Incoming("DISABLED")
    /\ \/ /\ flags = {}
          /\ expired' = FALSE
          /\ toMb' = Append(toMb, Control("C1O"))
          /\ UNCHANGED flags
       \/ /\ flags # {}
          /\ flags' = IF "CLOSING" \in flags THEN flags \cup {"CLOSED"} ELSE flags
          /\ UNCHANGED <<expired, toMb>>
    /\ UNCHANGED <<ln, resendInhibit, sendRetry, cmdSent, cmdPadding,
                   commandBuffer, ownerVars, mbVars, faults>>

\* Mutant: turns line checking off whenever it is found on.
RecvMissingDisables ==
    /\ Incoming("MISSING")
    /\ expired' = FALSE
    /\ toMb' = Append(toMb, Control("DISABLE"))
    /\ UNCHANGED <<flags, ln, resendInhibit, sendRetry, cmdSent, cmdPadding,
                   commandBuffer, ownerVars, mbVars, faults>>

\* Before ready: turn line checking off to start again.  Afterwards the same
\* answer, to a C1O that was repeated, is a hardware error.
RecvMissing ==
    /\ Incoming("MISSING")
    /\ \/ /\ flags = {}
          /\ expired' = FALSE
          /\ toMb' = Append(toMb, Control("DISABLE"))
          /\ UNCHANGED raised
       \/ /\ flags # {}
          /\ raised' = raised \cup {"HARDWARE"}
          /\ UNCHANGED <<expired, toMb>>
    /\ UNCHANGED <<flags, ln, resendInhibit, sendRetry, cmdSent, cmdPadding,
                   commandBuffer, owner, issued, mbVars, faults>>

\* LN and mismatch reports before ready are logged and dropped.
RecvUnknown ==
    /\ flags = {}
    /\ \E t \in {"LN", "LINE_MISMATCH", "CHECKSUM_MISMATCH"} : Incoming(t)
    /\ UNCHANGED <<hostVars, ownerVars, mbVars, toMb, faults>>

-----------------------------------------------------------------------------
(* The mainboard and the serial line (external). *)

Reply(m) == toHost' = Append(toHost, m)

MbReads(type) ==
    /\ toMb # <<>> /\ Head(toMb).type = type
    /\ toMb' = Tail(toMb)
    /\ UNCHANGED <<hostVars, ownerVars>>

MbRecvC1O ==
    /\ MbReads("C1O")
    /\ \/ linecheck /\ Reply(Control("MISSING")) /\ UNCHANGED <<linecheck, expect>>
       \/ ~linecheck /\ Reply(Control("ENABLED")) /\ linecheck' = TRUE /\ expect' = 1
    /\ UNCHANGED <<accepted, finished, unchecked, faults>>

MbRecvDisable ==
    /\ MbReads("DISABLE")
    /\ linecheck' = FALSE
    /\ Reply(Control("DISABLED"))
    /\ UNCHANGED <<expect, accepted, finished, unchecked, faults>>

MbRecvHome ==
    /\ MbReads("HOME")
    /\ \/ linecheck /\ Reply(Control("MISSING"))
       \/ ~linecheck /\ UNCHANGED toHost
    /\ UNCHANGED <<mbVars, faults>>

MbRecvTrigger ==
    /\ MbReads("TRIGGER")
    /\ UNCHANGED <<mbVars, toHost, faults>>

MbAccept ==
    /\ MbReads("LINE")
    /\ linecheck /\ Head(toMb).ln = expect
    /\ expect' = expect + 1
    /\ accepted' = Append(accepted, Head(toMb).cmd)
    /\ Reply(LnReply(expect, Len(accepted) + 1 - finished))
    /\ UNCHANGED <<linecheck, finished, unchecked, faults>>

MbReject ==
    /\ MbReads("LINE")
    /\ linecheck /\ Head(toMb).ln # expect
    /\ Reply([type |-> "LINE_MISMATCH", correct |-> expect,
              trigger |-> Head(toMb).ln])
    /\ UNCHANGED <<mbVars, faults>>

MbRunUnchecked ==
    /\ MbReads("LINE")
    /\ ~linecheck
    /\ unchecked' = unchecked + 1
    /\ UNCHANGED <<linecheck, expect, accepted, finished, toHost, faults>>

MbFinish ==
    /\ finished < Len(accepted)
    /\ finished' = finished + 1
    /\ IF linecheck
       THEN Reply(LnReply(expect - 1, Len(accepted) - finished - 1))
       ELSE UNCHANGED toHost
    /\ UNCHANGED <<hostVars, ownerVars, toMb, linecheck, expect, accepted,
                   unchecked, faults>>

FaultTotal == FoldFunction(+, 0, faults)

Fault(kind) ==
    /\ kind \in FaultKinds
    /\ FaultTotal < MaxFaults
    /\ faults' = [faults EXCEPT ![kind] = @ + 1]
    /\ UNCHANGED <<hostVars, ownerVars, mbVars>>

LoseLine ==
    /\ Fault("lose line")
    /\ toMb # <<>> /\ toMb' = Tail(toMb)
    /\ UNCHANGED toHost

GarbleLine ==
    /\ Fault("garble line")
    /\ linecheck
    /\ toMb # <<>> /\ Head(toMb).type = "LINE"
    /\ toMb' = Tail(toMb)
    /\ Reply([type |-> "CHECKSUM_MISMATCH", ln |-> expect])

LoseReply ==
    /\ Fault("lose reply")
    /\ toHost # <<>> /\ toHost' = Tail(toHost)
    /\ UNCHANGED toMb

Runout ==
    /\ Fault("runout")
    /\ Reply(Control("RUNOUT"))
    /\ UNCHANGED toMb

-----------------------------------------------------------------------------
Receive ==
    \/ RecvLn \/ RecvLineMismatch \/ RecvChecksumMismatch \/ RecvRunout
    \/ RecvEnabled \/ RecvDisabled \/ RecvMissing \/ RecvUnknown
Patrol == PatrolResend \/ PatrolHello \/ PatrolOffline
Owner == Bootstrap \/ SendRaw \/ Close \/ \E c \in Command : SendCmd(c)
Mainboard ==
    \/ MbRecvC1O \/ MbRecvDisable \/ MbRecvHome \/ MbRecvTrigger
    \/ MbAccept \/ MbReject \/ MbRunUnchecked \/ MbFinish
Environment == LoseLine \/ GarbleLine \/ LoseReply \/ Runout

Next == Owner \/ Patrol \/ Elapse \/ Receive \/ Mainboard \/ Environment

Spec == Init /\ [][Next]_vars

(***************************************************************************)
(* The event loop keeps reading the socket and runs its timer, the clock   *)
(* moves, and a mainboard that is powered reads and executes.  Nothing     *)
(* makes an owner call the controller.                                     *)
(***************************************************************************)
Fairness ==
    /\ WF_vars(Receive) /\ WF_vars(Patrol) /\ WF_vars(Elapse)
    /\ WF_vars(MbFinish)
    /\ WF_vars(MbRecvC1O \/ MbRecvDisable \/ MbRecvHome \/ MbRecvTrigger
               \/ MbAccept \/ MbReject \/ MbRunUnchecked)

FairSpec == Spec /\ Fairness

-----------------------------------------------------------------------------
(* Safety. *)

\* What a resend would put on the wire for a command not yet accepted is the
\* line it was sent as: no later send_cmd has reused its buffer.
SlotIntegrity ==
    \A i \in 1..Len(cmdSent) :
        commandBuffer[Slot(cmdSent[i])] = Line(cmdSent[i], issued[cmdSent[i]])

\* The mainboard executes the commands in the order send_cmd took them, none
\* twice and none skipped, whatever is lost, damaged, repeated or late.
ExactlyOnceInOrder == IsPrefix(accepted, issued)

\* A command leaves cmdSent only after the mainboard has accepted it.
NothingForgotten ==
    \A n \in 1..ln : n > Len(accepted) => \E i \in 1..Len(cmdSent) : cmdSent[i] = n

\* Flow control: the mainboard never holds more than BufSize unfinished
\* commands, those still on the wire included.
NoOverrun == Len(issued) - finished <= BufSize

\* The empty callback (a job is completed on it) is true: until the next
\* send_cmd the mainboard has finished everything it was sent.
DrainedMeansDone == owner = "drained" => finished = Len(issued)

\* Until the controller is closed, and while nothing was lost, no job line reaches
\* a mainboard whose line checking is off, where a resent line would be executed
\* twice: however late its answers, the handshake ends with checking on.
NoUncheckedLine ==
    ~Closing /\ faults["lose line"] = 0 /\ faults["lose reply"] = 0 => unchecked = 0

-----------------------------------------------------------------------------
(* Liveness. *)

Abandoned == Closing \/ raised \cap {"OFFLINE", "HARDWARE"} # {}

\* Every command is executed, or its owner is told that the mainboard is lost.
Delivery ==
    \A n \in 1..MaxIssued : Len(issued) >= n ~> finished >= n \/ Abandoned

\* The mainboard says only once that a command is finished.  The owner's callbacks
\* are promised while none of its reports is lost.
Unheard == Abandoned \/ faults["lose reply"] > 0

\* An owner that stopped because the buffer was full is called back.
WakeUp == owner = "waiting" ~> owner # "waiting" \/ Unheard

\* An owner that has sent its last command hears when everything is executed.
EndIsHeard ==
    finished = Len(issued) /\ issued # <<>> ~>
        owner = "drained" \/ finished < Len(issued) \/ Unheard
=============================================================================
