---------------------------- MODULE UsbCableProofs ----------------------------
(***************************************************************************)
(* Theorems about UsbCable for every queue length, every choice of faults  *)
(* and every bound on them.                                                *)
(***************************************************************************)
EXTENDS UsbCable, TLAPS

NoneExist == \A t \in Threads : ~Exists(t)

\* Where in its calls the service has to be for threads to exist: inside of close_usb,
\* or anywhere with a cable in its hands.  A thread runs on allocated memory only, and
\* close_usb has waited for each one before it goes on.
ThreadsAreHeld ==
    /\ ~NoneExist => allocated
    /\ svc \in {"idle", "check", "setup"} /\ ~held => NoneExist
    /\ svc = "handover" => allocated /\ ~held /\ NoneExist
    /\ svc = "join rx" => ~Exists("tx")
    /\ svc = "free" => NoneExist

\* A handler runs in a thread that exists; and once a thread has called signal(), the
\* disposition is only the default while some thread is in the handler.
HandlerIsBack ==
    /\ \A t \in Threads : handling[t] => Exists(t)
    /\ disposition = "default" =>
           \/ \E t \in Threads : handling[t]
           \/ \A t \in Threads : at[t] \in {"none", "new", "done"}

IInv == TypeOK /\ ThreadsAreHeld /\ HandlerIsBack /\ KilledOnlyInRaces

-----------------------------------------------------------------------------
(* What the parts do that several actions share. *)

Places == {"none", "new", "test", "call", "recv", "bulk", "send", "end", "done"}

\* Of one thread that goes somewhere; the other one stays.
LEMMA GoType ==
    ASSUME at \in [Threads -> Places], NEW t \in Threads, NEW place \in Places, Go(t, place)
    PROVE  /\ at' \in [Threads -> Places]
           /\ at'[t] = place /\ \A u \in Threads \ {t} : at'[u] = at[u]
  BY DEF Go

\* The steps of a thread, in one place.
Threading == \/ \E t \in Threads : Thread(t)
             \/ Recv \/ TxBulk \/ RxBulk \/ Send

\* What is outside of the service and its threads.
Outside == Unplug \/ Plug \/ RobotReads \/ RobotLeaves

LEMMA NextCases == ASSUME [Next]_vars
                   PROVE  Threading \/ (~killed /\ Service) \/ Outside \/ UNCHANGED vars
  BY DEF Next, Threading, Outside

-----------------------------------------------------------------------------
(* Type correctness. *)

LEMMA ThreadsTypeStep == ASSUME TypeOK, [Next]_vars PROVE ThreadsType'
  <1> USE DEF TypeOK, ThreadsType, usbData, threads, process
  <1>0. "tx" \in Threads /\ "rx" \in Threads
    BY DEF Threads
  <1>1. ASSUME NEW t \in Threads, Thread(t) PROVE ThreadsType'
    BY <1>1 DEF Thread, Enter, Test, End, Signalled, KilledBy, SighugHandler, Go
  <1>2. CASE Recv \/ TxBulk
    BY <1>0, <1>2 DEF Recv, TxBulk, Fail, Go
  <1>3. CASE RxBulk \/ Send
    BY <1>0, <1>3 DEF RxBulk, Send, Fail, Go
  <1>4. CASE KillTx \/ KillRx \/ JoinTx \/ JoinRx
    BY <1>0, <1>4 DEF KillTx, KillRx, Signal, Exists, JoinTx, JoinRx, Join
  <1>5. CASE FreeUsb \/ SetupUsb
    BY <1>5 DEF FreeUsb, Never, SetupUsb
  <1>6. CASE Start \/ StartFails \/ HandoverFails
    BY <1>6 DEF Start, StartFails, HandoverFails
  <1>7. CASE UdevNotify \/ OnTimer \/ CheckAlive
    BY <1>7 DEF UdevNotify, OnTimer, CheckAlive
  <1>8. CASE Outside \/ UNCHANGED vars
    BY <1>8 DEF Outside, Unplug, Plug, RobotReads, RobotLeaves, vars
  <1> QED
    BY <1>1, <1>2, <1>3, <1>4, <1>5, <1>6, <1>7, <1>8, NextCases DEF Threading, Service

LEMMA ServiceTypeStep == ASSUME TypeOK, [Next]_vars PROVE ServiceType'
  <1> USE DEF TypeOK, ServiceType, service
  <1>1. CASE Threading \/ Outside \/ UNCHANGED vars
    <2>1. UNCHANGED service
      BY <1>1 DEF Threading, Thread, Enter, Test, End, Signalled, KilledBy, SighugHandler, Recv,
          TxBulk, RxBulk, Send, Outside, Unplug, Plug, RobotReads, RobotLeaves, vars
    <2> QED
      BY <2>1
  <1>2. CASE KillTx \/ KillRx \/ JoinTx \/ JoinRx
    BY <1>2 DEF KillTx, KillRx, JoinTx, JoinRx, Join
  <1>3. CASE FreeUsb \/ SetupUsb
    BY <1>3 DEF FreeUsb, SetupUsb, CloseThen, Return
  <1>4. CASE Start \/ StartFails \/ HandoverFails
    BY <1>4 DEF Start, StartFails, HandoverFails, CloseThen, Return
  <1>5. CASE UdevNotify \/ OnTimer \/ CheckAlive
    BY <1>5 DEF UdevNotify, OnTimer, CheckAlive, CloseThen
  <1> QED
    BY <1>1, <1>2, <1>3, <1>4, <1>5, NextCases DEF Service

\* A fault is counted.
LEMMA FaultType == ASSUME TypeOK, NEW kind, Fault(kind) PROVE faults' \in Nat
  BY DEF Fault, TypeOK, OutsideType

LEMMA CountersStep ==
    ASSUME TypeOK, [Next]_vars
    PROVE  inbox' \in 0..Queue /\ outbox' \in 0..Queue /\ faults' \in Nat
  <1> USE DEF TypeOK, OutsideType, socket
  <1>0. Queue \in Nat
    BY UsbCableConstants
  <1>1. ASSUME NEW t \in Threads, Thread(t) PROVE UNCHANGED <<socket, faults>>
    BY <1>1 DEF Thread, Enter, Test, End, Signalled, KilledBy, SighugHandler
  <1>2. CASE Recv \/ Send
    BY <1>0, <1>2 DEF Recv, Send
  <1>3. CASE TxBulk \/ RxBulk
    <2>1. UNCHANGED faults \/ \E kind : Fault(kind)
      BY <1>3 DEF TxBulk, RxBulk
    <2>2. UNCHANGED socket
      BY <1>3 DEF TxBulk, RxBulk
    <2> QED
      BY <2>1, <2>2, FaultType
  <1>4. CASE KillTx \/ KillRx \/ JoinTx \/ JoinRx \/ FreeUsb
    BY <1>4 DEF KillTx, KillRx, JoinTx, JoinRx, Join, FreeUsb
  <1>5. CASE SetupUsb
    BY <1>0, <1>5, FaultType DEF SetupUsb
  <1>6. CASE Start \/ StartFails \/ HandoverFails
    BY <1>6, FaultType DEF Start, StartFails, HandoverFails
  <1>7. CASE UdevNotify \/ OnTimer \/ CheckAlive \/ UNCHANGED vars
    BY <1>7 DEF UdevNotify, OnTimer, CheckAlive, vars
  <1>8. CASE Unplug \/ Plug \/ RobotReads
    BY <1>0, <1>8, FaultType DEF Unplug, Plug, RobotReads
  <1>9. CASE RobotLeaves
    BY <1>0, <1>9, FaultType DEF RobotLeaves
  <1> QED
    BY <1>1, <1>2, <1>3, <1>4, <1>5, <1>6, <1>7, <1>8, <1>9, NextCases
       DEF Threading, Service, Outside

LEMMA OutsideTypeStep == ASSUME TypeOK, [Next]_vars PROVE OutsideType'
  <1> USE DEF TypeOK, OutsideType, plug, socket
  <1>1. CASE Threading \/ UNCHANGED vars
    BY <1>1, CountersStep DEF Threading, Thread, Enter, Test, End, Signalled, KilledBy,
        SighugHandler, Recv, TxBulk, RxBulk, Send, vars
  <1>2. CASE Service
    BY <1>2, CountersStep DEF Service, KillTx, KillRx, JoinTx, JoinRx, Join, FreeUsb, SetupUsb,
        Start, StartFails, HandoverFails, UdevNotify, OnTimer, CheckAlive
  <1>3. CASE Outside
    BY <1>3, CountersStep DEF Outside, Unplug, Plug, RobotReads, RobotLeaves
  <1> QED
    BY <1>1, <1>2, <1>3, NextCases

-----------------------------------------------------------------------------
(* No use after free. *)

\* A thread neither appears nor comes back by anything a thread does, and its steps
\* leave the service where it is.
LEMMA ThreadingKeeps ==
    ASSUME TypeOK, Threading
    PROVE  /\ \A t \in Threads : Exists(t)' => Exists(t)
           /\ UNCHANGED <<allocated, service>>
  <1> USE DEF TypeOK, ThreadsType, Exists, usbData, threads
  <1>1. ASSUME NEW t \in Threads, Thread(t)
        PROVE  \A u \in Threads : at'[u] \notin {"none", "done"} => at[u] \notin {"none", "done"}
    BY <1>1 DEF Thread, Enter, Test, End, Signalled, KilledBy, SighugHandler, Go, Free
  <1>2. CASE Recv \/ TxBulk \/ RxBulk \/ Send
    BY <1>2 DEF Recv, TxBulk, RxBulk, Send, Fail, Go, Free, Threads
  <1>3. UNCHANGED <<allocated, service>>
    BY DEF Threading, Thread, Enter, Test, End, Signalled, KilledBy, SighugHandler, Recv, TxBulk,
        RxBulk, Send
  <1> QED
    BY <1>1, <1>2, <1>3 DEF Threading

LEMMA HeldStep == ASSUME IInv, [Next]_vars PROVE ThreadsAreHeld'
  <1>0. TypeOK /\ ThreadsAreHeld
    BY DEF IInv
  <1> USE <1>0 DEF ThreadsAreHeld, NoneExist
  <1>1. CASE Threading
    <2>1. UNCHANGED <<allocated, service>>
      BY <1>1, ThreadingKeeps
    <2>2. (\A t \in Threads : ~Exists(t)) => \A t \in Threads : ~Exists(t)'
      BY <1>1, ThreadingKeeps
    <2>3. ~Exists("tx") => ~Exists("tx")'
      BY <1>1, ThreadingKeeps DEF Threads
    <2> QED
      BY <2>1, <2>2, <2>3 DEF service
  <1>2. CASE Outside \/ UNCHANGED vars
    <2>1. UNCHANGED <<at, allocated, svc, held>>
      BY <1>2 DEF Outside, Unplug, Plug, RobotReads, RobotLeaves, vars, usbData, threads, service
    <2> QED
      BY <2>1 DEF Exists
  <1>3. CASE KillTx \/ KillRx
    BY <1>3 DEF KillTx, KillRx, usbData, Exists
  <1>4. CASE JoinTx \/ JoinRx
    BY <1>4 DEF JoinTx, JoinRx, Join, usbData, Exists, Threads, TypeOK, ThreadsType
  <1>5. CASE FreeUsb
    BY <1>5 DEF FreeUsb, Return, threads, Exists
  <1>6. CASE SetupUsb
    <2>1. CASE held
      BY <1>6, <2>1 DEF SetupUsb, CloseThen, threads, Exists
    <2>2. CASE ~held
      BY <1>6, <2>2 DEF SetupUsb, Return, threads, Exists
    <2> QED
      BY <2>1, <2>2
  <1>7. CASE Start \/ HandoverFails
    BY <1>7 DEF Start, HandoverFails, Return, threads, Exists
  <1>8. CASE StartFails
    BY <1>8 DEF StartFails, CloseThen, Exists
  <1>9. CASE UdevNotify \/ OnTimer \/ CheckAlive
    BY <1>9 DEF UdevNotify, OnTimer, CheckAlive, CloseThen, usbData, threads, Exists
  <1> QED
    BY <1>1, <1>2, <1>3, <1>4, <1>5, <1>6, <1>7, <1>8, <1>9, NextCases DEF Service

-----------------------------------------------------------------------------
(* The signal. *)

LEMMA HandlerStep == ASSUME IInv, [Next]_vars PROVE HandlerIsBack'
  <1>0. TypeOK /\ ThreadsAreHeld /\ HandlerIsBack
    BY DEF IInv
  <1> USE <1>0 DEF HandlerIsBack, Exists, TypeOK, ThreadsType
  <1>1. ASSUME NEW t \in Threads, Enter(t) \/ Test(t) \/ End(t) PROVE HandlerIsBack'
    BY <1>1 DEF Enter, Test, End, Free, Go, process
  <1>2. ASSUME NEW t \in Threads, Signalled(t) \/ KilledBy(t) \/ SighugHandler(t)
        PROVE  HandlerIsBack'
    BY <1>2 DEF Signalled, KilledBy, SighugHandler, Free, threads
  <1>3. CASE Recv \/ TxBulk \/ RxBulk \/ Send
    BY <1>3 DEF Recv, TxBulk, RxBulk, Send, Fail, Free, Go, Threads, process
  <1>4. CASE Outside \/ UNCHANGED vars
    BY <1>4 DEF Outside, Unplug, Plug, RobotReads, RobotLeaves, vars, threads, process
  <1>5. CASE KillTx \/ KillRx
    BY <1>5 DEF KillTx, KillRx, process
  <1>6. CASE JoinTx \/ JoinRx
    BY ZenonT(60), <1>6 DEF JoinTx, JoinRx, Join, process
  <1>7. CASE FreeUsb \/ SetupUsb \/ HandoverFails \/ UdevNotify \/ OnTimer \/ CheckAlive
    BY <1>7 DEF FreeUsb, SetupUsb, HandoverFails, UdevNotify, OnTimer, CheckAlive, threads, process
  <1>8. CASE Start \/ StartFails
    <2>1. NoneExist /\ UNCHANGED <<handling, disposition>>
      BY <1>8 DEF Start, StartFails, ThreadsAreHeld, process
    <2>2. \A t \in Threads : at'[t] \in {"none", "new"}
      BY <1>8, <2>1 DEF Start, StartFails, NoneExist, Threads
    <2>3. \A t \in Threads : ~handling'[t]
      BY <2>1 DEF NoneExist
    <2> QED
      BY <2>2, <2>3
  <1> QED
    BY <1>1, <1>2, <1>3, <1>4, <1>5, <1>6, <1>7, <1>8, NextCases DEF Threading, Thread, Service

LEMMA KilledStep == ASSUME IInv, [Next]_vars PROVE KilledOnlyInRaces'
  <1>1. CASE UNCHANGED vars
    BY <1>1 DEF IInv, KilledOnlyInRaces, Exists, vars, threads, process
  <1>2. CASE Next /\ \E t \in Threads : KilledBy(t)
    BY <1>2 DEF KilledBy, IInv, HandlerIsBack, KilledOnlyInRaces, Exists, Threads, threads
  <1>3. CASE Next /\ ~ \E t \in Threads : KilledBy(t)
    <2>1. ~killed
      BY <1>3 DEF Next
    <2>2. killed' = killed
      BY <1>3, NextCases DEF Threading, Thread, Enter, Test, End, Signalled, SighugHandler, Recv,
          TxBulk, RxBulk, Send, Service, KillTx, KillRx, JoinTx, JoinRx, Join, FreeUsb, SetupUsb,
          Start, StartFails, HandoverFails, UdevNotify, OnTimer, CheckAlive, Outside, Unplug,
          Plug, RobotReads, RobotLeaves, vars, process
    <2> QED
      BY <2>1, <2>2 DEF KilledOnlyInRaces
  <1> QED
    BY <1>1, <1>2, <1>3

-----------------------------------------------------------------------------
(* The theorems. *)

\* The invariant holds at the start and every step keeps it.
THEOREM Invariance == Spec => []IInv
  <1>1. ASSUME Init PROVE IInv
    <2>1. TypeOK
      <3>1. ThreadsType
        BY <1>1 DEF Init, ThreadsType, NoThread, Never
      <3>2. ServiceType
        BY <1>1 DEF Init, ServiceType
      <3>3. OutsideType
        <4>1. 0 \in 0..Queue
          BY UsbCableConstants
        <4> QED
          BY <1>1, <4>1 DEF Init, OutsideType
      <3> QED
        BY <3>1, <3>2, <3>3 DEF TypeOK
    <2>2. ThreadsAreHeld /\ HandlerIsBack /\ KilledOnlyInRaces
      BY <1>1 DEF Init, ThreadsAreHeld, NoneExist, HandlerIsBack, KilledOnlyInRaces, Exists,
          NoThread, Never
    <2> QED
      BY <2>1, <2>2 DEF IInv
  <1>2. IInv /\ [Next]_vars => IInv'
    BY ThreadsTypeStep, ServiceTypeStep, OutsideTypeStep, HeldStep, HandlerStep, KilledStep
       DEF IInv, TypeOK
  <1> QED
    BY <1>1, <1>2, PTL DEF Spec

\* Every reachable state is well typed.
THEOREM TypeCorrect == Spec => []TypeOK
  <1>1. IInv => TypeOK
    BY DEF IInv
  <1> QED
    BY <1>1, Invariance, PTL

\* Whatever fails, however often the cable is replaced: while a thread exists, struct
\* usb_data is there.
THEOREM NothingFreedIsUsed == Spec => []NoUseAfterFree
  <1>1. IInv => NoUseAfterFree
    BY DEF IInv, ThreadsAreHeld, NoneExist, NoUseAfterFree
  <1> QED
    BY <1>1, Invariance, PTL

\* A thread that can take SIGUSR1 alone always finds the handler installed.
THEOREM OneThreadIsSafe == Spec => []KilledOnlyInRaces
  <1>1. IInv => KilledOnlyInRaces
    BY DEF IInv
  <1> QED
    BY <1>1, Invariance, PTL
================================================================================
