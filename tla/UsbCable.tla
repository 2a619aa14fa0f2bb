-------------------------------- MODULE UsbCable --------------------------------
(***************************************************************************)
(* The host-to-host USB cable: the service that looks after it             *)
(* (fluxmonitor/services/usb.py, usbcable.pyx) and the two threads that    *)
(* copy between it and the robot (src/usbcable/usb_txrx.c).                *)
(*                                                                         *)
(* To close a cable the service clears `running', sends SIGUSR1 to both    *)
(* threads and joins them.  The extension is built with -std=c99, so       *)
(* signal() has System V semantics: one disposition for the whole process, *)
(* back to the default, which kills it, whenever a signal is delivered,    *)
(* until the handler has called signal() again; and recv() is interrupted. *)
(*                                                                         *)
(* The device, udev and the robot's end of the socket are external.  What  *)
(* the datagrams say is left out.                                          *)
(***************************************************************************)
EXTENDS Naturals, FiniteSets

CONSTANTS
    Queue,       \* how many datagrams each end of the socket pair holds
    FaultKinds,  \* what may go wrong
    MaxFaults    \* bound: number of faults in a behaviour

AllFaults == {"unplug", "usb error", "tx timeout", "init", "fork", "refuse", "robot"}

ASSUME UsbCableConstants ==
    Queue \in Nat \ {0} /\ MaxFaults \in Nat /\ FaultKinds \subseteq AllFaults

Threads == {"tx", "rx"}
Other(t) == IF t = "tx" THEN "rx" ELSE "tx"

VARIABLES
    \* struct usb_data
    allocated,   \* usbdata # NULL
    running,     \* running
    flag,        \* thread_flag
    \* the threads
    at,          \* where each one is
    pending,     \* SIGUSR1 is on its way to it
    handling,    \* it is in sighug_handler, before signal()
    \* the process
    disposition, \* of SIGUSR1: "default" or "handler"
    killed,      \* the default action has ended the process
    deaf,        \* tx took its signal after it tested running and before recv
    \* UsbService
    svc,         \* what its thread is doing; "idle" is in the event loop
    after,       \* what follows when the cable has been closed
    checking,    \* on_timer has yet to look at is_alive()
    held,        \* self.usbcable is set
    dirty,       \* dirty_status
    \* outside
    plugged,     \* the device is attached
    notified,    \* udev has sent SIGUSR2
    linked,      \* the robot has its end of the socket pair open
    inbox,       \* datagrams the robot has not read
    outbox,      \* datagrams tx has not read
    faults       \* faults so far, at most MaxFaults

usbData == <<allocated, running, flag>>
threads == <<at, pending, handling>>
process == <<disposition, killed, deaf>>
service == <<svc, after, checking, held, dirty>>
plug == <<plugged, notified>>
socket == <<linked, inbox, outbox>>
vars == <<usbData, threads, process, service, plug, socket, faults>>

\* What the threads work with, and what the service does, and what is outside.
ThreadsType ==
    /\ allocated \in BOOLEAN /\ running \in BOOLEAN
    /\ flag \in [Threads -> BOOLEAN]
    /\ at \in [Threads -> {"none", "new", "test", "call", "recv", "bulk", "send", "end", "done"}]
    /\ pending \in [Threads -> BOOLEAN] /\ handling \in [Threads -> BOOLEAN]
    /\ disposition \in {"default", "handler"} /\ killed \in BOOLEAN /\ deaf \in BOOLEAN

ServiceType ==
    /\ svc \in {"idle", "setup", "handover", "check",
                "kill tx", "kill rx", "join tx", "join rx", "free"}
    /\ after \in {"setup", "idle", "failed"}
    /\ checking \in BOOLEAN /\ held \in BOOLEAN /\ dirty \in BOOLEAN

OutsideType ==
    /\ plugged \in BOOLEAN /\ notified \in BOOLEAN /\ linked \in BOOLEAN
    /\ inbox \in 0..Queue /\ outbox \in 0..Queue
    /\ faults \in Nat

TypeOK == ThreadsType /\ ServiceType /\ OutsideType

NoThread == [t \in Threads |-> "none"]
Never == [t \in Threads |-> FALSE]

\* UsbService.__init__ sets the cable up when a device is there.
Init ==
    /\ allocated = FALSE /\ running = FALSE /\ flag = Never
    /\ at = NoThread /\ pending = Never /\ handling = Never
    /\ disposition = "default" /\ killed = FALSE /\ deaf = FALSE
    /\ plugged \in BOOLEAN /\ notified = FALSE
    /\ svc = (IF plugged THEN "setup" ELSE "idle") /\ after = "idle"
    /\ checking = FALSE /\ held = FALSE /\ dirty = FALSE
    /\ linked = FALSE /\ inbox = 0 /\ outbox = 0
    /\ faults = 0

Fault(kind) ==
    /\ kind \in FaultKinds /\ faults < MaxFaults
    /\ faults' = faults + 1

Exists(t) == at[t] \notin {"none", "done"}
Go(t, place) == at' = [at EXCEPT ![t] = place]

-----------------------------------------------------------------------------
\* What both threads do.  A thread runs while it is not in the handler.
Free(t) == Exists(t) /\ ~handling[t]

\* From pthread_create to the first call of signal() and the flag.
Enter(t) ==
    /\ at[t] = "new" /\ Free(t)
    /\ disposition' = "handler"
    /\ flag' = [flag EXCEPT ![t] = TRUE]
    /\ Go(t, "test")
    /\ UNCHANGED <<allocated, running, pending, handling, killed, deaf, service, plug,
                   socket, faults>>

\* The test of the loop.  Between it and recv tx can still be signalled.
Test(t) ==
    /\ at[t] = "test" /\ Free(t)
    /\ Go(t, IF ~running THEN "end" ELSE IF t = "tx" THEN "call" ELSE "bulk")
    /\ UNCHANGED <<usbData, pending, handling, process, service, plug, socket, faults>>

End(t) ==
    /\ at[t] = "end" /\ Free(t)
    /\ flag' = [flag EXCEPT ![t] = FALSE]
    /\ Go(t, "done")
    /\ UNCHANGED <<allocated, running, pending, handling, process, service, plug, socket, faults>>

\* The signal: it resets the disposition, it interrupts recv, and it changes
\* nothing else.  A blocked send is called again without a look at running.
Signalled(t) ==
    /\ pending[t] /\ Free(t) /\ disposition = "handler"
    /\ disposition' = "default"
    /\ handling' = [handling EXCEPT ![t] = TRUE]
    /\ pending' = [pending EXCEPT ![t] = FALSE]
    /\ deaf' = (deaf \/ at[t] = "call")
    /\ at' = IF at[t] = "recv" THEN [at EXCEPT ![t] = "test"] ELSE at
    /\ UNCHANGED <<usbData, killed, service, plug, socket, faults>>

KilledBy(t) ==
    /\ pending[t] /\ Exists(t) /\ disposition = "default"
    /\ ~handling[t] \* SIGUSR1 is blocked in its own handler
    /\ killed' = TRUE
    /\ UNCHANGED <<usbData, threads, disposition, deaf, service, plug, socket, faults>>

\* Mutant: the handler does not install itself again.
SighugHandlerEmpty(t) ==
    /\ handling[t]
    /\ handling' = [handling EXCEPT ![t] = FALSE]
    /\ UNCHANGED <<usbData, at, pending, process, service, plug, socket, faults>>

SighugHandler(t) ==
    /\ handling[t]
    /\ disposition' = "handler"
    /\ handling' = [handling EXCEPT ![t] = FALSE]
    /\ UNCHANGED <<usbData, at, pending, killed, deaf, service, plug, socket, faults>>

\* Stops both threads: running = 0.
Fail(t) == running' = FALSE /\ Go(t, "test")

\* thread_tx_entry: a datagram of the robot.
Recv ==
    /\ at["tx"] \in {"call", "recv"} /\ Free("tx")
    /\ IF outbox > 0
       THEN outbox' = outbox - 1 /\ Go("tx", "bulk")
       ELSE at["tx"] = "call" /\ Go("tx", "recv") /\ UNCHANGED outbox
    /\ UNCHANGED <<usbData, pending, handling, process, service, plug, linked, inbox, faults>>

\* It is written in pieces; a piece that times out drops the rest of it.
TxBulk ==
    /\ at["tx"] = "bulk" /\ Free("tx")
    /\ \/ plugged /\ Go("tx", "test") /\ UNCHANGED <<running, faults>>
       \/ plugged /\ Fault("tx timeout") /\ Go("tx", "test") /\ UNCHANGED running
       \/ plugged /\ Fault("usb error") /\ Fail("tx")
       \/ ~plugged /\ Fail("tx") /\ UNCHANGED faults
    /\ UNCHANGED <<allocated, flag, pending, handling, process, service, plug, socket>>

\* thread_rx_entry: a packet of the device, a timeout or an error.
RxBulk ==
    /\ at["rx"] = "bulk" /\ Free("rx")
    /\ \/ plugged /\ at' \in {[at EXCEPT !["rx"] = p] : p \in {"test", "send"}}
          /\ UNCHANGED <<running, faults>>
       \/ plugged /\ Fault("usb error") /\ Fail("rx")
       \/ ~plugged /\ Fail("rx") /\ UNCHANGED faults
    /\ UNCHANGED <<allocated, flag, pending, handling, process, service, plug, socket>>

\* send blocks while the robot's queue is full, and fails when nobody is there.
Send ==
    /\ at["rx"] = "send" /\ Free("rx")
    /\ IF linked
       THEN inbox < Queue /\ inbox' = inbox + 1 /\ Go("rx", "test") /\ UNCHANGED running
       ELSE Fail("rx") /\ UNCHANGED inbox
    /\ UNCHANGED <<allocated, flag, pending, handling, process, service, plug, linked, outbox,
                   faults>>

-----------------------------------------------------------------------------
\* The service.  close_usb and free_usb, one call at a time.
CloseThen(next) == svc' = "kill tx" /\ after' = next

\* Back from _setup_h2h_usbcable, to the event loop or to on_timer.
Return == svc' = IF checking THEN "check" ELSE "idle"

\* pthread_kill does nothing to a thread that has ended.
Signal(t) == pending' = [pending EXCEPT ![t] = Exists(t)]

\* Mutant: tx is not signalled, for it tests running anyway.
KillTxSilent ==
    /\ svc = "kill tx" /\ svc' = "kill rx"
    /\ running' = FALSE
    /\ UNCHANGED <<allocated, flag, threads, process, after, checking, held, dirty, plug, socket,
                   faults>>

KillTx ==
    /\ svc = "kill tx" /\ svc' = "kill rx"
    /\ running' = FALSE
    /\ Signal("tx")
    /\ UNCHANGED <<allocated, flag, at, handling, process, after, checking, held, dirty, plug,
                   socket, faults>>

KillRx ==
    /\ svc = "kill rx" /\ svc' = "join tx"
    /\ Signal("rx")
    /\ UNCHANGED <<usbData, at, handling, process, after, checking, held, dirty, plug, socket,
                   faults>>

Join(t, from, to) ==
    /\ svc = from /\ svc' = to
    /\ ~Exists(t)
    /\ at' = [at EXCEPT ![t] = "none"]
    /\ pending' = [pending EXCEPT ![t] = FALSE]
    /\ UNCHANGED <<usbData, handling, process, after, checking, held, dirty, plug, socket, faults>>

JoinTx == Join("tx", "join tx", "join rx")
\* Mutant: rx ends by itself within 300 ms and is not joined.
JoinRxSkipped ==
    /\ svc = "join rx" /\ svc' = "free"
    /\ UNCHANGED <<usbData, threads, process, after, checking, held, dirty, plug, socket, faults>>

JoinRx == Join("rx", "join rx", "free")

\* socket_vector[0] is closed by nobody: the robot's end stays connected.
FreeUsb ==
    /\ svc = "free"
    /\ allocated' = FALSE /\ held' = FALSE /\ flag' = Never
    /\ deaf' = FALSE
    /\ dirty' = (dirty \/ after = "failed")
    /\ IF after = "setup" THEN svc' = "setup" ELSE Return
    /\ UNCHANGED <<running, threads, disposition, killed, after, checking, plug, socket, faults>>

\* _setup_h2h_usbcable, up to the constructed USBCable.
SetupUsb ==
    /\ svc = "setup"
    /\ IF held
       THEN CloseThen("setup") /\ UNCHANGED <<allocated, running, dirty, socket, faults>>
       ELSE \/ /\ plugged
               /\ allocated' = TRUE /\ running' = FALSE /\ inbox' = 0 /\ outbox' = 0
               /\ linked' = FALSE /\ svc' = "handover"
               /\ UNCHANGED <<after, dirty, faults>>
            \/ /\ \/ plugged /\ Fault("init")
                  \/ ~plugged /\ UNCHANGED faults
               /\ dirty' = TRUE /\ Return
               /\ UNCHANGED <<allocated, running, after, socket>>
    /\ UNCHANGED <<flag, threads, process, checking, held, plug>>

\* The robot takes the other end and answers "X"; start_usb makes the threads.
\* A robot that does not answer is asked again; one that is not there is an error.
Start ==
    /\ svc = "handover"
    /\ linked' = TRUE /\ running' = TRUE
    /\ at' = [t \in Threads |-> "new"]
    /\ held' = TRUE /\ dirty' = FALSE /\ Return
    /\ UNCHANGED <<allocated, flag, pending, handling, process, after, checking, plug, inbox, outbox,
                   faults>>

\* The second pthread_create fails: close_usb, the exception, __dealloc__.
StartFails ==
    /\ svc = "handover" /\ Fault("fork")
    /\ linked' = TRUE /\ running' = FALSE
    /\ \E created \in SUBSET {"tx"} :
          at' = [t \in Threads |-> IF t \in created THEN "new" ELSE "none"]
    /\ CloseThen("failed")
    /\ UNCHANGED <<allocated, flag, pending, handling, process, checking, held, dirty, plug,
                   inbox, outbox>>

HandoverFails ==
    /\ svc = "handover" /\ Fault("refuse")
    /\ allocated' = FALSE /\ dirty' = TRUE /\ Return
    /\ UNCHANGED <<running, flag, threads, process, after, checking, held, plug, socket>>

UdevNotify ==
    /\ svc = "idle" /\ notified
    /\ notified' = FALSE /\ svc' = "setup"
    /\ UNCHANGED <<usbData, threads, process, after, checking, held, dirty, plugged, socket, faults>>

\* on_timer, every 6.5 s: a thread that was created has been scheduled by then.
OnTimer ==
    /\ svc = "idle" /\ \A t \in Threads : at[t] # "new"
    /\ checking' = TRUE
    /\ svc' = IF dirty /\ plugged THEN "setup" ELSE "check"
    /\ dirty' = (dirty /\ plugged)
    /\ UNCHANGED <<usbData, threads, process, after, held, plug, socket, faults>>

IsAlive == \A t \in Threads : flag[t]

CheckAlive ==
    /\ svc = "check"
    /\ checking' = FALSE
    /\ IF held /\ ~IsAlive
       THEN CloseThen(IF plugged THEN "setup" ELSE "idle")
       ELSE svc' = "idle" /\ UNCHANGED after
    /\ UNCHANGED <<usbData, threads, process, held, dirty, plug, socket, faults>>

-----------------------------------------------------------------------------
\* The device and the robot.
Unplug ==
    /\ plugged /\ Fault("unplug")
    /\ plugged' = FALSE
    /\ UNCHANGED <<usbData, threads, process, service, notified, socket>>

Plug ==
    /\ ~plugged /\ plugged' = TRUE /\ notified' = TRUE
    /\ UNCHANGED <<usbData, threads, process, service, socket, faults>>

\* The robot only ever answers; its own sends do not block.
RobotReads ==
    /\ linked /\ inbox > 0
    /\ inbox' = inbox - 1
    /\ outbox' \in {outbox, outbox + 1} /\ outbox' <= Queue
    /\ UNCHANGED <<usbData, threads, process, service, plug, linked, faults>>

RobotLeaves ==
    /\ linked /\ Fault("robot")
    /\ linked' = FALSE /\ inbox' = 0
    /\ UNCHANGED <<usbData, threads, process, service, plug, outbox>>

Thread(t) ==
    Enter(t) \/ Test(t) \/ End(t) \/ Signalled(t) \/ KilledBy(t) \/ SighugHandler(t)

Service ==
    \/ KillTx \/ KillRx \/ JoinTx \/ JoinRx \/ FreeUsb
    \/ SetupUsb \/ Start \/ StartFails \/ HandoverFails
    \/ UdevNotify \/ OnTimer \/ CheckAlive

Next ==
    /\ ~killed
    /\ \/ \E t \in Threads : Thread(t)
       \/ Recv \/ TxBulk \/ RxBulk \/ Send
       \/ Service
       \/ Unplug \/ Plug \/ RobotReads \/ RobotLeaves

\* The kernel runs every thread, the service's thread goes on unless it waits
\* for a join or for the robot's answer, its event loop runs each watcher that is
\* ready, the robot answers and reads.
Fairness ==
    /\ \A t \in Threads : WF_vars(~killed /\ Thread(t))
    /\ WF_vars(~killed /\ (Recv \/ TxBulk))
    /\ WF_vars(~killed /\ (RxBulk \/ Send))
    /\ WF_vars(~killed /\ Service)
    /\ SF_vars(~killed /\ UdevNotify)
    /\ WF_vars(~killed /\ RobotReads)

Spec == Init /\ [][Next]_vars /\ Fairness

-----------------------------------------------------------------------------
\* No thread reads or writes struct usb_data after free_usb: close, __dealloc__
\* and the failure of start_usb all wait for the threads first.
NoUseAfterFree == ~allocated => \A t \in Threads : ~Exists(t)

\* SIGUSR1 ends the service only when both threads are there to take it, or one
\* has not got to signal() yet.  A cable that on_timer finds half dead is
\* replaced without that risk.
KilledOnlyInRaces ==
    killed => \/ \A t \in Threads : Exists(t)
              \/ \E t \in Threads : at[t] = "new"

\* A device that stays plugged in ends up with a cable whose threads both run,
\* whatever failed before: udev, the dirty flag and is_alive() leave no gap.
\* Two ways out are in the code: the signal that kills, and the one that tx took
\* just before recv, after which close_usb waits for a datagram of the robot.
Up == held /\ IsAlive
DeadIsReplaced == <>[]plugged => <>[](Up \/ killed \/ deaf)
=============================================================================
