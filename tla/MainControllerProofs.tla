------------------------ MODULE MainControllerProofs ------------------------
(***************************************************************************)
(* The inductive invariant of MainController and the theorems it gives,    *)
(* for every bufsize, retry limit, fault budget and number of commands.    *)
(***************************************************************************)
EXTENDS MainController, SequenceTheorems, TLAPS

Pipe == INSTANCE CommandPipe WITH Capacity <- BufSize, submitted <- issued

\* The protocol implements the abstract pipe of commands.
ImplementsPipe == Pipe!Spec

-----------------------------------------------------------------------------
(* The parts of the inductive invariant. *)

\* LINECHECK_ENABLED has been received.
Ready == flags # {}

\* cmdSent holds consecutive numbers up to ln, and there is room for all.
Queues ==
    /\ Len(issued) = ln
    /\ \A i \in 1..Len(cmdSent) : cmdSent[i] = ln - Len(cmdSent) + i
    /\ Len(cmdSent) <= ln
    /\ BufferedCmdSize <= BufSize
    /\ owner = "drained" => BufferedCmdSize = 0

\* Before LINECHECK_ENABLED nothing has been sent.
NotReady ==
    /\ flags # {} => "READY" \in flags
    /\ flags = {} => ln = 0 /\ accepted = <<>>

\* Every line on the wire is the one issued under its number, and whatever
\* turns line checking on was sent before the first line.
LinesOnWire ==
    /\ \A i \in 1..Len(toMb) : toMb[i].type = "LINE" =>
         /\ toMb[i].ln \in 1..ln
         /\ toMb[i].cmd = issued[toMb[i].ln]
         /\ \A j \in i..Len(toMb) : toMb[j].type # "C1O"
    /\ accepted # <<>> => \A i \in 1..Len(toMb) : toMb[i].type # "C1O"

\* The number of commands a report proves accepted.
Confirms(m) ==
    IF m.type = "LN" THEN m.ln
    ELSE IF m.type = "LINE_MISMATCH" THEN m.correct - 1
    ELSE m.ln - 1

IsReport(m) == m.type \in {"LN", "LINE_MISMATCH", "CHECKSUM_MISMATCH"}

MainboardCounts ==
    /\ flags # {} => expect = Len(accepted) + 1
    /\ \A i \in 1..Len(toHost) : toHost[i].type = "ENABLED" => expect = Len(accepted) + 1
    /\ finished <= Len(accepted)

\* Reports come in order, none older than what the controller knows and none
\* ahead of the mainboard.  A report left by an earlier session comes before
\* LINECHECK_ENABLED and is dropped.
ReportsInOrder ==
    /\ ln - Len(cmdSent) <= Len(accepted)
    /\ ln - BufferedCmdSize <= finished
    /\ ~Ready => \A i \in 1..Len(toHost) : toHost[i].type = "ENABLED" =>
         \A j \in i..Len(toHost) : ~IsReport(toHost[j])
    /\ Ready => \A i \in 1..Len(toHost) : IsReport(toHost[i]) =>
         /\ Confirms(toHost[i]) \in (ln - Len(cmdSent)) .. Len(accepted)
         /\ \A j \in i..Len(toHost) :
              IsReport(toHost[j]) => Confirms(toHost[i]) <= Confirms(toHost[j])
         /\ toHost[i].type = "LN" => toHost[i].ln - toHost[i].queued <= finished

IInv ==
    /\ TypeOK
    /\ Queues /\ SlotIntegrity /\ NotReady /\ LinesOnWire
    /\ ExactlyOnceInOrder /\ MainboardCounts /\ ReportsInOrder

-----------------------------------------------------------------------------
(* Lemmas about the ring and the queues. *)

\* Division with remainder by a positive number.
LEMMA Division ==
    ASSUME NEW b \in Nat \ {0}, NEW n \in Nat
    PROVE  n \div b \in Nat /\ n % b \in 0..b-1 /\ n = b * (n \div b) + (n % b)
  OBVIOUS

\* A multiple of b by a positive number is at least b, by any other at most 0.
LEMMA Multiple ==
    ASSUME NEW b \in Nat \ {0}, NEW d \in Int
    PROVE  /\ d >= 1 => b * d >= b
           /\ d <= 0 => b * d <= 0
  OBVIOUS

\* Two numbers less than b apart use different slots of a ring of b.
LEMMA SlotsDiffer ==
    ASSUME NEW b \in Nat \ {0}, NEW m \in Nat, NEW n \in Nat, m < n, n - m < b
    PROVE  m % b # n % b
  <1> DEFINE p == m \div b
             q == n \div b
  <1>1. p \in Nat /\ q \in Nat /\ m = b * p + (m % b) /\ n = b * q + (n % b)
        /\ m % b \in Int /\ n % b \in Int
    BY Division
  <1> HIDE DEF p, q
  <1>2. b * (q - p) = b * q - b * p /\ b * q \in Int /\ b * p \in Int
    BY <1>1
  <1>4. q - p \in Int
    BY <1>1
  <1>3. (q - p >= 1 => b * (q - p) >= b) /\ (q - p <= 0 => b * (q - p) <= 0)
    BY <1>4, Multiple
  <1> DEFINE e == b * (q - p)
             x == b * q
             y == b * p
  <1>5. e = x - y /\ x \in Int /\ y \in Int /\ m = y + (m % b) /\ n = x + (n % b)
    BY <1>1, <1>2
  <1>6. e >= b \/ e <= 0
    BY <1>3, <1>4
  <1> HIDE DEF e, x, y
  <1> QED
    BY <1>1, <1>5, <1>6

\* Every line number has a buffer in the ring.
LEMMA SlotInRing == \A n \in Nat : Slot(n) \in 0..BufSize-1
  BY ConstantsAssumption DEF Slot

\* Popping up to a number the controller can learn leaves the numbers above it.
LEMMA PoppedKnown ==
    ASSUME TypeOK, Queues, NEW n \in (ln - Len(cmdSent))..ln
    PROVE  Popped(cmdSent, n) = n - (ln - Len(cmdSent))
  <1> DEFINE k == n - (ln - Len(cmdSent))
             Stops(j) == /\ \A i \in 1..j : cmdSent[i] <= n
                         /\ j < Len(cmdSent) => cmdSent[j+1] > n
  <1>1. ln \in Nat /\ cmdSent \in Seq(Nat) /\ Len(cmdSent) \in Nat
    BY DEF TypeOK
  <1>2. k \in 0..Len(cmdSent)
    BY <1>1
  <1>3. Stops(k)
    BY <1>1, <1>2, SMTT(30) DEF Queues
  <1>4. ASSUME NEW j \in 0..Len(cmdSent), Stops(j) PROVE j = k
    <2>1. ~ j < k
      <3>1. j < k => cmdSent[j+1] = ln - Len(cmdSent) + j + 1
        BY <1>1, <1>2 DEF Queues
      <3> QED BY <1>1, <1>2, <1>4, <3>1
    <2>2. ~ k < j
      <3>1. k < j => k + 1 \in 1..j /\ cmdSent[k+1] = ln - Len(cmdSent) + k + 1
        BY <1>1, <1>2 DEF Queues
      <3> QED BY <1>1, <1>2, <1>4, <3>1
    <2> QED BY <1>2, <2>1, <2>2
  <1>5. Popped(cmdSent, n) = CHOOSE j \in 0..Len(cmdSent) : Stops(j)
    BY DEF Popped
  <1> HIDE DEF Stops, k
  <1>6. (CHOOSE j \in 0..Len(cmdSent) : Stops(j)) = k
    BY <1>2, <1>3, <1>4
  <1> QED
    BY <1>5, <1>6 DEF k

\* The controller's queues after a report that confirms the numbers up to n.
LEMMA QueuesAfter ==
    ASSUME TypeOK, Queues, NEW n \in (ln - Len(cmdSent))..ln
    PROVE  /\ SentAfter(n) \in Seq(Nat)
           /\ Len(SentAfter(n)) = ln - n
           /\ \A i \in 1..ln - n : SentAfter(n)[i] = n + i
           /\ PaddingAfter(n) \in Seq(Nat)
           /\ Len(PaddingAfter(n)) = BufferedCmdSize - (ln - n)
  <1>1. /\ ln \in Nat /\ cmdSent \in Seq(Nat) /\ Len(cmdSent) \in Nat
        /\ cmdPadding \in Seq(Nat) /\ Len(cmdPadding) \in Nat
    BY DEF TypeOK
  <1>2. PICK k \in Nat : /\ Popped(cmdSent, n) = k /\ k <= Len(cmdSent)
                         /\ n = ln - Len(cmdSent) + k
    BY <1>1, PoppedKnown
  <1>3. /\ SubSeq(cmdSent, k + 1, Len(cmdSent)) \in Seq(Nat)
        /\ Len(SubSeq(cmdSent, k + 1, Len(cmdSent))) = Len(cmdSent) - k
        /\ \A i \in 1..Len(cmdSent) - k :
             SubSeq(cmdSent, k + 1, Len(cmdSent))[i] = cmdSent[k + i]
    BY <1>1, <1>2
  <1>4. SubSeq(cmdSent, 1, k) \in Seq(Nat) /\ Len(SubSeq(cmdSent, 1, k)) = k
    BY <1>1, <1>2
  <1>5. /\ cmdPadding \o SubSeq(cmdSent, 1, k) \in Seq(Nat)
        /\ Len(cmdPadding \o SubSeq(cmdSent, 1, k)) = Len(cmdPadding) + k
    BY <1>1, <1>4
  <1>6. \A i \in 1..Len(cmdSent) - k : cmdSent[k + i] = n + i
    BY <1>1, <1>2 DEF Queues
  <1>7. Len(cmdSent) - k = ln - n
    BY <1>1, <1>2
  <1>8. Len(cmdPadding) + k = BufferedCmdSize - (ln - n)
    BY <1>1, <1>2 DEF BufferedCmdSize
  <1> QED
    BY <1>2, <1>3, <1>5, <1>6, <1>7, <1>8 DEF SentAfter, PaddingAfter

\* handle_ln drops the oldest entries until n are left.
LEMMA LastAtMostShorter ==
    ASSUME NEW q \in Seq(Nat), NEW n \in Nat
    PROVE  /\ LastAtMost(q, n) \in Seq(Nat)
           /\ Len(LastAtMost(q, n)) = IF Len(q) <= n THEN Len(q) ELSE n
  BY DEF LastAtMost

-----------------------------------------------------------------------------
(* Type correctness. *)

\* What a message read from toHost carries.
LEMMA HeadOfToHost ==
    ASSUME TypeOK, toHost # <<>>
    PROVE  /\ Tail(toHost) \in Seq(ToHostMessage)
           /\ Head(toHost) = toHost[1] /\ 1 \in 1..Len(toHost)
           /\ Head(toHost).type = "LN" =>
                Head(toHost).ln \in Nat /\ Head(toHost).queued \in Nat
           /\ Head(toHost).type = "LINE_MISMATCH" =>
                Head(toHost).correct \in Nat /\ Head(toHost).trigger \in Nat
           /\ Head(toHost).type = "CHECKSUM_MISMATCH" => Head(toHost).ln \in Nat
  <1>1. Head(toHost) \in ToHostMessage /\ Tail(toHost) \in Seq(ToHostMessage)
        /\ Head(toHost) = toHost[1] /\ Len(toHost) \in Nat \ {0}
    BY DEF TypeOK
  <1> QED
    BY <1>1 DEF ToHostMessage, Control

\* What a message read from toMb carries.
LEMMA HeadOfToMb ==
    ASSUME TypeOK, toMb # <<>>
    PROVE  /\ Tail(toMb) \in Seq(ToMbMessage)
           /\ Head(toMb) = toMb[1] /\ 1 \in 1..Len(toMb)
           /\ Head(toMb).type = "LINE" =>
                Head(toMb).ln \in Nat \ {0} /\ Head(toMb).cmd \in Command
  <1>1. Head(toMb) \in ToMbMessage /\ Tail(toMb) \in Seq(ToMbMessage)
        /\ Head(toMb) = toMb[1] /\ Len(toMb) \in Nat \ {0}
    BY DEF TypeOK
  <1> QED
    BY <1>1 DEF ToMbMessage, Control, Lines

\* The lines a resend writes are those the ring was given.
LEMMA LinesOfSent ==
    ASSUME TypeOK, Queues, SlotIntegrity, NEW q \in Seq(Nat),
           \A i \in 1..Len(q) : q[i] \in (ln - Len(cmdSent) + 1)..ln
    PROVE  /\ LinesOf(q) \in Seq(Lines)
           /\ Len(LinesOf(q)) = Len(q)
           /\ \A i \in 1..Len(q) : LinesOf(q)[i] = Line(q[i], issued[q[i]])
  <1>1. /\ ln \in Nat /\ Len(cmdSent) \in Nat /\ Len(q) \in Nat
        /\ issued \in Seq(Command) /\ Len(issued) = ln /\ Len(cmdSent) <= ln
    BY DEF TypeOK, Queues
  <1>2. ASSUME NEW i \in 1..Len(q)
        PROVE  /\ commandBuffer[Slot(q[i])] = Line(q[i], issued[q[i]])
               /\ Line(q[i], issued[q[i]]) \in Lines
    <2> DEFINE j == q[i] - (ln - Len(cmdSent))
    <2>1. q[i] \in Nat \ {0} /\ q[i] \in 1..Len(issued)
      BY <1>1
    <2>2. j \in 1..Len(cmdSent) /\ cmdSent[j] = q[i]
      BY <1>1, <2>1 DEF Queues
    <2>3. issued[q[i]] \in Command
      BY <1>1, <2>1
    <2> QED
      BY <2>1, <2>2, <2>3 DEF SlotIntegrity, Line, Lines
  <1>3. LinesOf(q) \in [1..Len(q) -> Lines]
    BY <1>2 DEF LinesOf
  <1>4. LinesOf(q) \in Seq(Lines) /\ Len(LinesOf(q)) = Len(q)
    BY SMTT(60), <1>1, <1>3
  <1> QED
    BY <1>2, <1>4 DEF LinesOf

-----------------------------------------------------------------------------
(* What the steps on one wire preserve. *)

\* Reading or losing a message leaves the other lines as they were issued.
LEMMA FewerToMb ==
    ASSUME TypeOK, LinesOnWire, toMb # <<>>, toMb' = Tail(toMb),
           UNCHANGED <<ln, issued, accepted>>
    PROVE  LinesOnWire'
  <1>1. /\ Len(toMb) \in Nat /\ Len(toMb') = Len(toMb) - 1
        /\ \A i \in 1..Len(toMb') : i + 1 \in 1..Len(toMb) /\ toMb'[i] = toMb[i + 1]
    BY DEF TypeOK
  <1> QED
    BY <1>1 DEF LinesOnWire

\* A message without a line number may follow anything; C1O is sent only while
\* no line has been.
LEMMA ControlToMb ==
    ASSUME TypeOK, LinesOnWire, NEW t \in {"C1O", "DISABLE", "HOME", "TRIGGER"},
           toMb' = Append(toMb, Control(t)),
           t = "C1O" => ln = 0 /\ accepted = <<>>,
           UNCHANGED <<ln, issued, accepted>>
    PROVE  LinesOnWire'
  <1>1. /\ Len(toMb) \in Nat /\ Len(toMb') = Len(toMb) + 1
        /\ \A i \in 1..Len(toMb) : toMb'[i] = toMb[i]
        /\ toMb'[Len(toMb) + 1] = Control(t)
    BY DEF TypeOK
  <1>2. Control(t).type = t /\ t # "LINE"
    BY DEF Control
  <1>3. ln \in Nat
    BY DEF TypeOK
  <1>4. ASSUME NEW i \in 1..Len(toMb'), toMb'[i].type = "LINE"
        PROVE  /\ i \in 1..Len(toMb) /\ toMb'[i] = toMb[i]
               /\ \A j \in i..Len(toMb') : toMb'[j].type # "C1O"
    <2>1. i \in 1..Len(toMb) /\ toMb'[i] = toMb[i]
      BY <1>1, <1>2, <1>4
    <2>2. t # "C1O"
      BY <1>3, <1>4, <2>1 DEF LinesOnWire
    <2> QED
      BY <1>1, <1>2, <1>4, <2>1, <2>2, SMTT(30) DEF LinesOnWire
  <1>5. accepted # <<>> => \A i \in 1..Len(toMb') : toMb'[i].type # "C1O"
    BY <1>1, <1>2 DEF LinesOnWire
  <1> QED
    BY <1>4, <1>5 DEF LinesOnWire

\* Issued lines may be appended once the mainboard cannot be sent C1O.
LEMMA LinesToMb ==
    ASSUME TypeOK, LinesOnWire, NEW new \in Seq(Lines), toMb' = toMb \o new,
           \A i \in 1..Len(new) :
              new[i].ln \in 1..ln' /\ new[i].cmd = issued'[new[i].ln],
           ln' \in Nat, ln <= ln', \A n \in 1..ln : issued'[n] = issued[n],
           accepted' = accepted
    PROVE  LinesOnWire'
  <1>1. /\ Len(toMb) \in Nat /\ Len(new) \in Nat /\ Len(toMb') = Len(toMb) + Len(new)
        /\ \A i \in 1..Len(toMb) : toMb'[i] = toMb[i]
        /\ \A i \in 1..Len(toMb') : i > Len(toMb) =>
             i - Len(toMb) \in 1..Len(new) /\ toMb'[i] = new[i - Len(toMb)]
    BY DEF TypeOK
  <1>2. \A i \in 1..Len(new) : new[i].type = "LINE"
    <2> TAKE i \in 1..Len(new)
    <2>1. new[i] \in Lines
      OBVIOUS
    <2> QED BY <2>1 DEF Lines
  <1>3. \A i \in 1..Len(toMb') : i > Len(toMb) => toMb'[i].type = "LINE"
    BY <1>1, <1>2
  <1>4. ASSUME NEW i \in 1..Len(toMb'), toMb'[i].type = "LINE"
        PROVE  toMb'[i].ln \in 1..ln' /\ toMb'[i].cmd = issued'[toMb'[i].ln]
    <2>1. CASE i > Len(toMb)
      BY <1>1, <2>1
    <2>2. CASE ~ i > Len(toMb)
      <3>1. i \in 1..Len(toMb) /\ toMb'[i] = toMb[i]
        BY <1>1, <2>2
      <3>2. toMb[i].ln \in 1..ln /\ toMb[i].cmd = issued[toMb[i].ln]
        BY <1>4, <3>1 DEF LinesOnWire
      <3>3. ln \in Nat
        BY DEF TypeOK
      <3>4. toMb[i].ln \in 1..ln'
        BY <3>2, <3>3
      <3> QED BY <3>1, <3>2, <3>4
    <2> QED BY <2>1, <2>2
  <1>5. ASSUME NEW i \in 1..Len(toMb'), toMb'[i].type = "LINE", NEW j \in i..Len(toMb')
        PROVE  toMb'[j].type # "C1O"
    <2>1. CASE j > Len(toMb)
      BY <1>1, <1>3, <2>1
    <2>2. CASE ~ j > Len(toMb)
      BY <1>1, <1>5, <2>2 DEF LinesOnWire
    <2> QED BY <2>1, <2>2
  <1>6. accepted # <<>> => \A i \in 1..Len(toMb') : toMb'[i].type # "C1O"
    BY <1>1, <1>3 DEF LinesOnWire
  <1> QED
    BY <1>4, <1>5, <1>6 DEF LinesOnWire

\* Reading or losing a report leaves the others in order.
LEMMA FewerToHost ==
    ASSUME TypeOK, ReportsInOrder, toHost # <<>>, toHost' = Tail(toHost),
           Ready => Ready', Ready' => Ready \/ Head(toHost).type = "ENABLED",
           UNCHANGED <<ln, cmdSent, cmdPadding, accepted, finished>>
    PROVE  ReportsInOrder'
  <1>1. /\ Len(toHost) \in Nat /\ Len(toHost') = Len(toHost) - 1
        /\ \A i \in 1..Len(toHost') : i + 1 \in 1..Len(toHost) /\ toHost'[i] = toHost[i + 1]
        /\ 1 \in 1..Len(toHost) /\ Head(toHost) = toHost[1]
    BY DEF TypeOK
  <1>2. \A i \in 1..Len(toHost') : \A j \in i..Len(toHost') :
           j + 1 \in (i + 1)..Len(toHost) /\ j + 1 \in 1..Len(toHost)
    BY <1>1
  <1>3. CASE ~Ready'
    BY <1>1, <1>2, <1>3 DEF ReportsInOrder, BufferedCmdSize
  <1>4. CASE Ready
    BY <1>1, <1>2, <1>4 DEF ReportsInOrder, BufferedCmdSize
  <1>5. CASE ~Ready /\ Head(toHost).type = "ENABLED"
    <2>1. \A i \in 1..Len(toHost') : ~IsReport(toHost'[i])
      BY <1>1, <1>2, <1>5 DEF ReportsInOrder
    <2> QED
      BY <2>1 DEF ReportsInOrder, BufferedCmdSize
  <1> QED
    BY <1>3, <1>4, <1>5

\* A message that is no report leaves the reports in order.
LEMMA OtherReply ==
    ASSUME TypeOK, ReportsInOrder, NEW m, toHost' = Append(toHost, m), ~IsReport(m),
           Ready' = Ready, UNCHANGED <<ln, cmdSent, cmdPadding, accepted, finished>>
    PROVE  ReportsInOrder'
  <1>1. /\ Len(toHost) \in Nat /\ Len(toHost') = Len(toHost) + 1
        /\ \A i \in 1..Len(toHost) : toHost'[i] = toHost[i]
        /\ toHost'[Len(toHost) + 1] = m
    BY DEF TypeOK
  <1>2. \A i \in 1..Len(toHost') : IsReport(toHost'[i]) => i \in 1..Len(toHost)
    BY <1>1
  <1> QED
    BY <1>1, <1>2 DEF ReportsInOrder, IsReport, Confirms, BufferedCmdSize

\* A report made by the mainboard confirms all it has accepted.
LEMMA NewReport ==
    ASSUME TypeOK, ReportsInOrder, NEW m, toHost' = Append(toHost, m),
           Ready, Ready', IsReport(m), Confirms(m) = Len(accepted'),
           m.type = "LN" => m.ln - m.queued <= finished',
           Len(accepted') \in Nat, Len(accepted') >= Len(accepted),
           finished' \in Nat, finished' >= finished,
           UNCHANGED <<ln, cmdSent, cmdPadding>>
    PROVE  ReportsInOrder'
  <1>1. /\ Len(toHost) \in Nat /\ Len(toHost') = Len(toHost) + 1
        /\ \A i \in 1..Len(toHost) : toHost'[i] = toHost[i]
        /\ toHost'[Len(toHost) + 1] = m
        /\ \A i \in 1..Len(toHost') : i \notin 1..Len(toHost) => i = Len(toHost) + 1
        /\ ln \in Nat /\ Len(cmdSent) \in Nat /\ Len(cmdPadding) \in Nat
        /\ Len(accepted) \in Nat /\ finished \in Nat
    <2>1. /\ ln \in Nat /\ cmdSent \in Seq(Nat) /\ cmdPadding \in Seq(Nat)
          /\ toHost \in Seq(ToHostMessage) /\ accepted \in Seq(Command) /\ finished \in Nat
      BY DEF TypeOK
    <2>2. /\ Len(toHost) \in Nat /\ Len(cmdSent) \in Nat /\ Len(cmdPadding) \in Nat
          /\ Len(accepted) \in Nat
      BY <2>1
    <2>3. /\ Len(toHost') = Len(toHost) + 1 /\ toHost'[Len(toHost) + 1] = m
          /\ \A i \in 1..Len(toHost) : toHost'[i] = toHost[i]
      BY <2>1
    <2>4. \A i \in 1..Len(toHost') : i \notin 1..Len(toHost) => i = Len(toHost) + 1
      BY <2>2, <2>3
    <2> QED
      BY <2>1, <2>2, <2>3, <2>4
  <1>2. /\ ln' - Len(cmdSent') <= Len(accepted')
        /\ ln' - BufferedCmdSize' <= finished'
    BY <1>1 DEF ReportsInOrder, BufferedCmdSize
  <1>3. ASSUME NEW i \in 1..Len(toHost'), IsReport(toHost'[i]), i \in 1..Len(toHost)
        PROVE  /\ Confirms(toHost'[i]) \in (ln' - Len(cmdSent')) .. Len(accepted')
               /\ Confirms(toHost'[i]) <= Confirms(m)
               /\ toHost'[i].type = "LN" =>
                    toHost'[i].ln - toHost'[i].queued <= finished'
    <2>1. /\ toHost'[i] = toHost[i] /\ IsReport(toHost[i])
          /\ Confirms(toHost[i]) \in (ln - Len(cmdSent)) .. Len(accepted)
      BY <1>1, <1>3 DEF ReportsInOrder
    <2>2. Confirms(toHost[i]) \in (ln' - Len(cmdSent')) .. Len(accepted')
      BY <1>1, <2>1
    <2>3. toHost[i].type = "LN" => /\ toHost[i].ln \in Nat /\ toHost[i].queued \in Nat
                                   /\ toHost[i].ln - toHost[i].queued <= finished
      <3>1. toHost[i] \in ToHostMessage
        BY <1>3 DEF TypeOK
      <3>2. toHost[i].type = "LN" => toHost[i].ln \in Nat /\ toHost[i].queued \in Nat
        BY <3>1 DEF ToHostMessage, Control
      <3> QED BY <1>3, <2>1, <3>2 DEF ReportsInOrder
    <2> QED
      BY <1>1, <2>1, <2>2, <2>3, SMTT(30)
  <1>4. ASSUME NEW i \in 1..Len(toHost'), IsReport(toHost'[i]),
               NEW j \in i..Len(toHost'), IsReport(toHost'[j])
        PROVE  Confirms(toHost'[i]) <= Confirms(toHost'[j])
    <2>1. CASE j \in 1..Len(toHost)
      <3>1. i \in 1..Len(toHost) /\ j \in i..Len(toHost)
            /\ toHost'[i] = toHost[i] /\ toHost'[j] = toHost[j]
        BY <1>1, <2>1
      <3> QED BY <1>4, <3>1 DEF ReportsInOrder
    <2>2. CASE j = Len(toHost) + 1 /\ i \in 1..Len(toHost)
      BY <1>1, <1>3, <1>4, <2>2
    <2>3. CASE i = Len(toHost) + 1
      BY <1>1, <2>3
    <2> QED
      BY <1>1, <2>1, <2>2, <2>3
  <1>5. ASSUME NEW i \in 1..Len(toHost'), i \notin 1..Len(toHost)
        PROVE  /\ Confirms(toHost'[i]) \in (ln' - Len(cmdSent')) .. Len(accepted')
               /\ toHost'[i].type = "LN" =>
                    toHost'[i].ln - toHost'[i].queued <= finished'
    <2>1. toHost'[i] = m
      BY <1>1, <1>5
    <2> QED
      BY <1>1, <1>2, <2>1
  <1> QED
    BY <1>2, <1>3, <1>4, <1>5 DEF ReportsInOrder

\* IsPrefix, element by element.
LEMMA PrefixPointwise ==
    ASSUME NEW S, NEW s \in Seq(S), NEW t \in Seq(S)
    PROVE  IsPrefix(s, t) <=> /\ Len(s) <= Len(t)
                              /\ \A i \in 1..Len(s) : s[i] = t[i]
  <1>1. Len(s) \in Nat /\ Len(t) \in Nat
    OBVIOUS
  <1>2. ASSUME Len(s) <= Len(t)
        PROVE  /\ SubSeq(s, 1, Len(s)) = s
               /\ SubSeq(t, 1, Len(s)) \in Seq(S) /\ Len(SubSeq(t, 1, Len(s))) = Len(s)
               /\ \A i \in 1..Len(s) : SubSeq(t, 1, Len(s))[i] = t[i]
    BY <1>1, <1>2
  <1>3. ASSUME Len(s) <= Len(t), \A i \in 1..Len(s) : s[i] = t[i]
        PROVE  s = SubSeq(t, 1, Len(s))
    BY <1>2, <1>3, SeqEqual
  <1>4. ASSUME Len(s) <= Len(t), s = SubSeq(t, 1, Len(s))
        PROVE  \A i \in 1..Len(s) : s[i] = t[i]
    <2>1. \A i \in 1..Len(s) : SubSeq(t, 1, Len(s))[i] = t[i]
      BY <1>2, <1>4
    <2> QED BY <1>4, <2>1, Zenon
  <1> QED
    BY <1>2, <1>3, <1>4 DEF IsPrefix

\* The next report confirms something between what the controller knows and ln.
LEMMA KnownReport ==
    ASSUME IInv, Ready, toHost # <<>>, IsReport(Head(toHost))
    PROVE  Confirms(Head(toHost)) \in (ln - Len(cmdSent))..ln
  <1>1. Len(accepted) <= ln /\ Len(accepted) \in Nat /\ ln \in Nat /\ Len(cmdSent) \in Nat
    BY PrefixPointwise DEF IInv, TypeOK, ExactlyOnceInOrder, Queues
  <1>2. Confirms(Head(toHost)) \in (ln - Len(cmdSent))..Len(accepted)
    BY HeadOfToHost DEF IInv, ReportsInOrder
  <1> QED
    BY <1>1, <1>2

\* Once a report is taken, the reports behind it are still ones the controller
\* can learn from.
LEMMA AfterReport ==
    ASSUME IInv, Ready, Ready', toHost # <<>>, IsReport(Head(toHost)), toHost' = Tail(toHost),
           cmdSent' = SentAfter(Confirms(Head(toHost))),
           ln - BufferedCmdSize' <= finished,
           UNCHANGED <<ln, accepted, finished>>
    PROVE  ReportsInOrder'
  <1> DEFINE n == Confirms(Head(toHost))
  <1>1. TypeOK /\ Queues /\ ReportsInOrder /\ n \in (ln - Len(cmdSent))..ln
    BY KnownReport DEF IInv
  <1>2. /\ Len(toHost) \in Nat /\ Len(toHost') = Len(toHost) - 1 /\ toHost[1] = Head(toHost)
        /\ \A i \in 1..Len(toHost') : i + 1 \in 1..Len(toHost) /\ toHost'[i] = toHost[i + 1]
        /\ ln \in Nat /\ Len(cmdSent) \in Nat /\ Len(accepted) \in Nat /\ 1 \in 1..Len(toHost)
    BY <1>1 DEF TypeOK
  <1>3. Len(cmdSent') = ln - n
    BY <1>1, QueuesAfter
  <1> HIDE DEF n
  <1>4. n \in Int /\ ln' - Len(cmdSent') = n
    BY <1>1, <1>2, <1>3
  <1>5. n = Confirms(toHost[1]) /\ IsReport(toHost[1])
    BY <1>2 DEF n
  <1>6. n <= Len(accepted)
    BY <1>1, <1>2, <1>5 DEF ReportsInOrder
  <1>7. ASSUME NEW i \in 1..Len(toHost'), IsReport(toHost'[i])
        PROVE  /\ Confirms(toHost'[i]) \in n .. Len(accepted)
               /\ toHost'[i].type = "LN" =>
                    toHost'[i].ln - toHost'[i].queued <= finished
               /\ \A j \in i..Len(toHost') : IsReport(toHost'[j]) =>
                    Confirms(toHost'[i]) <= Confirms(toHost'[j])
    <2>1. i + 1 \in 1..Len(toHost) /\ toHost'[i] = toHost[i + 1]
      BY <1>2
    <2>2. Confirms(toHost[i + 1]) \in (ln - Len(cmdSent)) .. Len(accepted)
      BY <1>1, <1>7, <2>1 DEF ReportsInOrder
    <2>3. n <= Confirms(toHost[i + 1])
      BY <1>1, <1>2, <1>5, <1>7, <2>1 DEF ReportsInOrder
    <2>4. Confirms(toHost'[i]) \in n .. Len(accepted)
      BY <1>2, <1>4, <2>1, <2>2, <2>3
    <2>5. \A j \in i..Len(toHost') : IsReport(toHost'[j]) =>
            Confirms(toHost'[i]) <= Confirms(toHost'[j])
      <3> TAKE j \in i..Len(toHost')
      <3> HAVE IsReport(toHost'[j])
      <3>1. j + 1 \in (i + 1)..Len(toHost) /\ toHost'[j] = toHost[j + 1]
        BY <1>2
      <3> QED BY <1>1, <1>7, <2>1, <3>1 DEF ReportsInOrder
    <2> QED
      BY <1>1, <1>7, <2>1, <2>4, <2>5 DEF ReportsInOrder
  <1> QED
    BY <1>4, <1>6, <1>7 DEF ReportsInOrder, BufferedCmdSize

-----------------------------------------------------------------------------
(* The steps of the controller and its owner preserve IInv. *)

queueVars == <<ln, cmdSent, cmdPadding, commandBuffer, owner, issued>>

\* The queues of the controller are consistent while nobody touches them.
LEMMA QueuesKept ==
    ASSUME Queues, SlotIntegrity, UNCHANGED queueVars
    PROVE  Queues' /\ SlotIntegrity'
  BY DEF Queues, SlotIntegrity, BufferedCmdSize, Slot, queueVars

\* Taking a message from the mainboard keeps the counts in step.
LEMMA FewerEnabled ==
    ASSUME TypeOK, MainboardCounts, toHost # <<>>, toHost' = Tail(toHost),
           flags' # {} => flags # {} \/ Head(toHost).type = "ENABLED",
           UNCHANGED <<expect, accepted, finished>>
    PROVE  MainboardCounts'
  <1>1. /\ Len(toHost) \in Nat /\ Len(toHost') = Len(toHost) - 1
        /\ \A i \in 1..Len(toHost') : i + 1 \in 1..Len(toHost) /\ toHost'[i] = toHost[i + 1]
        /\ 1 \in 1..Len(toHost) /\ Head(toHost) = toHost[1]
    BY DEF TypeOK
  <1> QED
    BY <1>1 DEF MainboardCounts

\* A reply other than LINECHECK_ENABLED keeps the counts in step.
LEMMA MoreReplies ==
    ASSUME TypeOK, MainboardCounts, NEW m, toHost' = Append(toHost, m),
           m.type # "ENABLED", UNCHANGED <<flags, expect, accepted, finished>>
    PROVE  MainboardCounts'
  <1>1. /\ Len(toHost) \in Nat /\ Len(toHost') = Len(toHost) + 1
        /\ \A i \in 1..Len(toHost) : toHost'[i] = toHost[i]
        /\ toHost'[Len(toHost) + 1] = m
    BY DEF TypeOK
  <1> QED
    BY <1>1 DEF MainboardCounts

\* The messages without a number are messages, and no reports.
LEMMA ControlTypes ==
    /\ \A t \in {"C1O", "DISABLE", "HOME", "TRIGGER"} : Control(t) \in ToMbMessage
    /\ \A t \in {"ENABLED", "DISABLED", "MISSING", "RUNOUT"} :
         /\ Control(t) \in ToHostMessage
         /\ ~IsReport(Control(t)) /\ Control(t).type = t
  BY DEF ToMbMessage, ToHostMessage, IsReport, Control

\* The passing of COMMAND_TIMEOUT preserves IInv.
LEMMA ElapseStep == ASSUME IInv, Elapse PROVE IInv'
  <1>1. TypeOK'
    BY DEF IInv, Elapse, TypeOK, ownerVars, mbVars
  <1>2. Queues' /\ SlotIntegrity'
    BY QueuesKept DEF IInv, Elapse, queueVars, ownerVars
  <1> QED
    BY <1>1, <1>2 DEF IInv, Elapse, NotReady, LinesOnWire, ExactlyOnceInOrder,
       MainboardCounts, ReportsInOrder, Ready, BufferedCmdSize, ownerVars, mbVars

\* bootstrap preserves IInv.
LEMMA BootstrapStep == ASSUME IInv, Bootstrap PROVE IInv'
  <1>1. TypeOK'
    <2>1. toMb' \in Seq(ToMbMessage)
      <3>1. toMb \in Seq(ToMbMessage) /\ Control("C1O") \in ToMbMessage
        BY ControlTypes DEF IInv, TypeOK
      <3>2. toMb' = toMb \/ toMb' = Append(toMb, Control("C1O"))
        BY DEF Bootstrap
      <3> QED BY <3>1, <3>2
    <2>2. expired' \in BOOLEAN /\ flags' \subseteq {"READY", "ERROR", "CLOSING", "CLOSED"}
      BY DEF IInv, Bootstrap, TypeOK
    <2> QED
      BY <2>1, <2>2 DEF IInv, Bootstrap, TypeOK, ownerVars, mbVars
  <1>2. Queues' /\ SlotIntegrity'
    BY QueuesKept DEF IInv, Bootstrap, queueVars, ownerVars
  <1>3. LinesOnWire'
    <2>1. CASE flags = {} /\ toMb' = Append(toMb, Control("C1O"))
      BY <2>1, ControlToMb DEF IInv, NotReady, Bootstrap, ownerVars, mbVars
    <2>2. CASE UNCHANGED toMb
      BY <2>2 DEF IInv, LinesOnWire, Bootstrap, ownerVars, mbVars
    <2> QED
      BY <2>1, <2>2 DEF Bootstrap
  <1>4. Ready' = Ready
    BY DEF IInv, NotReady, Bootstrap, Usable, Ready
  <1>5. NotReady' /\ MainboardCounts' /\ ReportsInOrder'
    BY <1>4, SMTT(30) DEF IInv, Bootstrap, Usable, NotReady, MainboardCounts, ReportsInOrder,
           BufferedCmdSize, ownerVars, mbVars
  <1> QED
    BY <1>1, <1>2, <1>3, <1>5 DEF IInv, Bootstrap, ExactlyOnceInOrder, ownerVars, mbVars

\* close preserves IInv.
LEMMA CloseStep == ASSUME IInv, Close PROVE IInv'
  <1> DEFINE mid == Append(toMb, Control("DISABLE"))
  <1>1. /\ toMb' = Append(mid, Control("HOME"))
        /\ mid \in Seq(ToMbMessage) /\ toMb' \in Seq(ToMbMessage)
    <2>1. toMb \in Seq(ToMbMessage) /\ toMb' = toMb \o <<Control("DISABLE"), Control("HOME")>>
      BY DEF IInv, TypeOK, Close
    <2>2. Control("DISABLE") \in ToMbMessage /\ Control("HOME") \in ToMbMessage
      BY ControlTypes
    <2> QED BY <2>1, <2>2
  <1>2. TypeOK'
    BY <1>1 DEF IInv, Close, TypeOK, ownerVars, mbVars
  <1>3. Queues' /\ SlotIntegrity'
    BY QueuesKept DEF IInv, Close, queueVars, ownerVars
  <1>4. LinesOnWire'
    <2>1. /\ Len(toMb) \in Nat /\ Len(toMb') = Len(toMb) + 2
          /\ \A i \in 1..Len(toMb) : toMb'[i] = toMb[i]
          /\ toMb'[Len(toMb) + 1] = Control("DISABLE")
          /\ toMb'[Len(toMb) + 2] = Control("HOME")
      BY <1>1 DEF IInv, TypeOK
    <2>2. \A i \in 1..Len(toMb') : i \notin 1..Len(toMb) => toMb'[i].type \in {"DISABLE", "HOME"}
      BY <2>1 DEF Control
    <2>3. ASSUME NEW i \in 1..Len(toMb'), toMb'[i].type = "LINE"
          PROVE  /\ i \in 1..Len(toMb) /\ toMb'[i] = toMb[i]
                 /\ \A j \in i..Len(toMb') : toMb'[j].type # "C1O"
      <3>1. i \in 1..Len(toMb) /\ toMb'[i] = toMb[i]
        BY <2>1, <2>2, <2>3
      <3>2. \A j \in i..Len(toMb) : toMb[j].type # "C1O"
        BY <2>3, <3>1 DEF IInv, LinesOnWire
      <3>3. \A j \in i..Len(toMb') : j \in i..Len(toMb) \/ j \notin 1..Len(toMb)
        BY <2>1
      <3> QED
        BY <2>1, <2>2, <3>1, <3>2, <3>3
    <2>4. accepted # <<>> => \A i \in 1..Len(toMb') : toMb'[i].type # "C1O"
      BY <2>1, <2>2 DEF IInv, LinesOnWire
    <2>5. UNCHANGED <<ln, issued, accepted>>
      BY DEF Close, ownerVars, mbVars
    <2> QED
      BY <2>3, <2>4, <2>5 DEF IInv, LinesOnWire
  <1>5. Ready' = Ready
    BY DEF Close, Usable, Ready
  <1>6. NotReady' /\ MainboardCounts' /\ ReportsInOrder'
    BY <1>5 DEF IInv, Close, Usable, NotReady, MainboardCounts, ReportsInOrder,
           BufferedCmdSize, ownerVars, mbVars
  <1> QED
    BY <1>2, <1>3, <1>4, <1>6 DEF IInv, Close, ExactlyOnceInOrder, ownerVars, mbVars

\* An unnumbered command from the owner preserves IInv.
LEMMA SendRawStep == ASSUME IInv, SendRaw PROVE IInv'
  <1>1. toMb' = Append(toMb, Control("TRIGGER")) /\ TypeOK
        /\ UNCHANGED <<hostVars, ownerVars, mbVars, toHost, faults>>
    BY DEF SendRaw, IInv
  <1>2. UNCHANGED <<flags, ln, cmdSent, cmdPadding, commandBuffer, owner, issued,
                    expect, accepted, finished>>
    BY <1>1 DEF hostVars, ownerVars, mbVars
  <1>3. toMb' \in Seq(ToMbMessage)
    BY <1>1, ControlTypes DEF TypeOK
  <1>4. TypeOK'
    BY <1>1, <1>3 DEF TypeOK, hostVars, ownerVars, mbVars
  <1>5. Queues' /\ SlotIntegrity'
    BY <1>2, QueuesKept DEF IInv, queueVars
  <1>6. LinesOnWire'
    BY <1>1, <1>2, ControlToMb DEF IInv
  <1> QED
    BY <1>1, <1>2, <1>4, <1>5, <1>6 DEF IInv, NotReady, ExactlyOnceInOrder,
       MainboardCounts, ReportsInOrder, Ready, BufferedCmdSize

\* A repeated C1O preserves IInv.
LEMMA PatrolHelloStep == ASSUME IInv, PatrolHello PROVE IInv'
  <1>1. TypeOK'
    <2>1. toMb' \in Seq(ToMbMessage)
      <3>1. toMb \in Seq(ToMbMessage) /\ Control("C1O") \in ToMbMessage
        BY ControlTypes DEF IInv, TypeOK
      <3> QED BY <3>1 DEF PatrolHello
    <2>2. sendRetry' \in 0..MaxRetry
      BY ConstantsAssumption DEF IInv, TypeOK, PatrolHello
    <2> QED
      BY <2>1, <2>2 DEF IInv, PatrolHello, TypeOK, ownerVars, mbVars
  <1>2. Queues' /\ SlotIntegrity'
    BY QueuesKept DEF IInv, PatrolHello, queueVars, ownerVars
  <1>3. LinesOnWire'
    BY ControlToMb DEF IInv, NotReady, PatrolHello, ownerVars, mbVars
  <1> QED
    BY <1>1, <1>2, <1>3 DEF IInv, PatrolHello, NotReady, ExactlyOnceInOrder,
       MainboardCounts, ReportsInOrder, Ready, BufferedCmdSize, ownerVars, mbVars

\* Giving the mainboard up preserves IInv.
LEMMA PatrolOfflineStep == ASSUME IInv, PatrolOffline PROVE IInv'
  <1>1. TypeOK'
    BY DEF IInv, PatrolOffline, TypeOK, hostVars, mbVars
  <1>2. Queues' /\ SlotIntegrity'
    BY QueuesKept DEF IInv, PatrolOffline, queueVars, hostVars
  <1> QED
    BY <1>1, <1>2, SMTT(30) DEF IInv, PatrolOffline, NotReady, LinesOnWire, ExactlyOnceInOrder,
       MainboardCounts, ReportsInOrder, Ready, BufferedCmdSize, hostVars, mbVars

\* send_cmd preserves IInv.
LEMMA SendCmdStep == ASSUME IInv, NEW c \in Command, SendCmd(c) PROVE IInv'
  <1> DEFINE n == ln + 1
  <1>1. /\ ln \in Nat /\ n \in Nat \ {0} /\ ln' = n /\ Len(cmdSent) \in Nat
        /\ Len(cmdPadding) \in Nat /\ cmdSent \in Seq(Nat) /\ cmdPadding \in Seq(Nat)
        /\ issued \in Seq(Command) /\ Len(issued) = ln /\ issued' = Append(issued, c)
        /\ cmdSent' = Append(cmdSent, n) /\ cmdPadding' = cmdPadding
        /\ BufSize \in Nat
    BY ConstantsAssumption DEF IInv, TypeOK, Queues, SendCmd
  <1>2. Slot(n) \in 0..BufSize-1 /\ Line(n, c) \in Lines
    BY <1>1, SlotInRing DEF Line, Lines
  <1> HIDE DEF n
  <1>3. /\ commandBuffer' \in [0..BufSize-1 -> Lines \cup {NoLine}]
        /\ commandBuffer'[Slot(n)] = Line(n, c)
        /\ \A k \in Nat : Slot(k) # Slot(n) => commandBuffer'[Slot(k)] = commandBuffer[Slot(k)]
    <2>1. /\ commandBuffer \in [0..BufSize-1 -> Lines \cup {NoLine}]
          /\ commandBuffer' = [commandBuffer EXCEPT ![Slot(n)] = Line(n, c)]
      BY <1>1 DEF IInv, TypeOK, SendCmd
    <2> QED
      BY <1>2, <2>1, SlotInRing
  <1>4. /\ Len(cmdSent') = Len(cmdSent) + 1 /\ cmdSent' \in Seq(Nat)
        /\ \A i \in 1..Len(cmdSent) : cmdSent'[i] = cmdSent[i]
        /\ cmdSent'[Len(cmdSent) + 1] = n
        /\ issued' \in Seq(Command) /\ Len(issued') = n
        /\ issued'[n] = c /\ \A i \in 1..ln : issued'[i] = issued[i]
    BY <1>1, SMTT(30) DEF n
  <1>5. toMb' \in Seq(ToMbMessage) /\ toMb' = toMb \o <<Line(n, c)>>
    <2>1. toMb \in Seq(ToMbMessage) /\ toMb' = Append(toMb, Line(n, c))
          /\ Line(n, c) \in ToMbMessage
      BY <1>1, <1>2 DEF IInv, TypeOK, SendCmd, ToMbMessage
    <2> QED BY <2>1, AppendIsConcat
  <1>6. TypeOK'
    BY <1>1, <1>3, <1>4, <1>5 DEF IInv, TypeOK, SendCmd, mbVars
  <1>7. Queues'
    <2>1. Len(cmdSent') <= ln' /\ Len(issued') = ln'
      BY <1>1, <1>4 DEF IInv, Queues, n
    <2>2. ASSUME NEW i \in 1..Len(cmdSent')
          PROVE  cmdSent'[i] = ln' - Len(cmdSent') + i
      <3>1. CASE i = Len(cmdSent) + 1
        BY <1>1, <1>4, <3>1
      <3>2. CASE i \in 1..Len(cmdSent)
        <4>1. cmdSent'[i] = ln - Len(cmdSent) + i
          BY <1>4, <3>2 DEF IInv, Queues
        <4> QED BY <1>1, <1>4, <4>1 DEF n
      <3> QED BY <1>1, <1>4, <3>1, <3>2
    <2>3. BufferedCmdSize' <= BufSize
      BY <1>1, <1>4 DEF SendCmd, BufferedCmdSize
    <2>4. owner' # "drained"
      BY DEF SendCmd
    <2> QED
      BY <2>1, <2>2, <2>3, <2>4 DEF Queues
  <1>8. SlotIntegrity'
    <2> SUFFICES ASSUME NEW i \in 1..Len(cmdSent')
                 PROVE  commandBuffer'[Slot(cmdSent'[i])]
                          = Line(cmdSent'[i], issued'[cmdSent'[i]])
      BY DEF SlotIntegrity, Slot
    <2>1. CASE i = Len(cmdSent) + 1
      BY <1>3, <1>4, <2>1
    <2>2. CASE i \in 1..Len(cmdSent)
      <3> DEFINE k == ln - Len(cmdSent) + i
      <3>1. /\ cmdSent'[i] = k /\ cmdSent[i] = k /\ k \in Nat /\ k \in 1..ln
            /\ k < n /\ n - k <= Len(cmdSent) /\ n \in Nat
        <4>1. /\ i \in 1..Len(cmdSent) /\ cmdSent'[i] = cmdSent[i]
              /\ cmdSent[i] = ln - Len(cmdSent) + i
          BY <1>4, <2>2 DEF IInv, Queues
        <4>2. Len(cmdSent) <= ln /\ Len(cmdSent) \in Nat /\ ln \in Nat
          BY <1>1 DEF IInv, Queues
        <4>3. n = ln + 1
          BY DEF n
        <4> QED
          BY <4>1, <4>2, <4>3
      <3>2. Len(cmdSent) < BufSize
        BY <1>1 DEF SendCmd, BufferedCmdSize
      <3> HIDE DEF k
      <3>3. BufSize \in Nat \ {0} /\ n - k < BufSize
        BY <1>1, <3>1, <3>2
      <3>4. Slot(k) # Slot(n)
        BY <3>1, <3>3, SlotsDiffer DEF Slot
      <3>5. commandBuffer[Slot(k)] = Line(k, issued[k])
        BY <2>2, <3>1 DEF IInv, SlotIntegrity
      <3> QED
        BY <1>3, <1>4, <3>1, <3>4, <3>5
    <2>3. i = Len(cmdSent) + 1 \/ i \in 1..Len(cmdSent)
      BY <1>1, <1>4
    <2> QED
      BY <2>1, <2>2, <2>3
  <1>9. LinesOnWire'
    <2> DEFINE new == <<Line(n, c)>>
    <2>1. new \in Seq(Lines) /\ Len(new) = 1 /\ new[1] = Line(n, c)
      BY <1>2
    <2>2. Line(n, c).ln = n /\ Line(n, c).cmd = c
      BY DEF Line
    <2>3. accepted' = accepted /\ ln <= ln' /\ ln' \in Nat /\ n \in 1..ln'
      BY <1>1 DEF SendCmd, mbVars, n
    <2> HIDE DEF new
    <2>4. \A i \in 1..Len(new) : new[i].ln \in 1..ln' /\ new[i].cmd = issued'[new[i].ln]
      BY <1>4, <2>1, <2>2, <2>3
    <2>5. TypeOK /\ LinesOnWire /\ toMb' = toMb \o new
      BY <1>5 DEF IInv, new
    <2> QED
      BY <1>4, <2>1, <2>3, <2>4, <2>5, LinesToMb
  <1>10. ExactlyOnceInOrder'
    <2>1. accepted' = accepted /\ accepted \in Seq(Command) /\ Len(accepted) \in Nat
      BY DEF IInv, TypeOK, SendCmd, mbVars
    <2>2. Len(accepted) <= ln /\ \A i \in 1..Len(accepted) : accepted[i] = issued[i]
      BY <1>1, <2>1, PrefixPointwise DEF IInv, ExactlyOnceInOrder
    <2>3. Len(accepted') <= Len(issued') /\ \A i \in 1..Len(accepted') : accepted'[i] = issued'[i]
      BY <1>1, <1>4, <2>1, <2>2 DEF n
    <2> QED
      BY <1>4, <2>1, <2>3, PrefixPointwise DEF ExactlyOnceInOrder
  <1>11. NotReady' /\ MainboardCounts'
    BY DEF IInv, NotReady, MainboardCounts, SendCmd, Usable, mbVars
  <1>12. ReportsInOrder'
    <2>1. /\ ln' - Len(cmdSent') = ln - Len(cmdSent)
          /\ ln' - BufferedCmdSize' = ln - BufferedCmdSize
      <3>1. /\ Len(cmdSent') = Len(cmdSent) + 1 /\ cmdPadding' = cmdPadding
            /\ Len(cmdSent) \in Nat /\ Len(cmdPadding) \in Nat /\ ln \in Nat
        BY <1>1, <1>4
      <3>2. ln' = ln + 1
        BY <1>1 DEF n
      <3> QED
        BY <3>1, <3>2 DEF BufferedCmdSize
    <2> QED
      BY <2>1 DEF IInv, ReportsInOrder, Ready, SendCmd, mbVars
  <1> QED
    BY <1>6, <1>7, <1>8, <1>9, <1>10, <1>11, <1>12 DEF IInv

\* A resend puts only issued lines on the wire.
LEMMA ResendKeepsWire ==
    ASSUME IInv, NEW q \in Seq(Nat), NEW flag \in Nat,
           \A i \in 1..Len(q) : q[i] \in (ln - Len(cmdSent) + 1)..ln,
           Resend(q, flag), UNCHANGED <<ln, issued, accepted>>
    PROVE  LinesOnWire' /\ toMb' \in Seq(ToMbMessage) /\ resendInhibit' \in Nat
  <1>1. TypeOK /\ Queues /\ SlotIntegrity /\ LinesOnWire /\ toMb \in Seq(ToMbMessage)
        /\ ln \in Nat /\ Len(cmdSent) \in Nat /\ Len(cmdSent) <= ln
    BY DEF IInv, TypeOK, Queues
  <1>2. ln' = ln /\ issued' = issued /\ accepted' = accepted
    OBVIOUS
  <1>3. ASSUME toMb' = toMb
        PROVE  LinesOnWire' /\ toMb' \in Seq(ToMbMessage)
    BY <1>1, <1>2, <1>3 DEF LinesOnWire
  <1>4. ASSUME toMb' = toMb \o LinesOf(q)
        PROVE  LinesOnWire' /\ toMb' \in Seq(ToMbMessage)
    <2> DEFINE new == LinesOf(q)
    <2>1. new \in Seq(Lines) /\ Len(new) = Len(q)
          /\ \A i \in 1..Len(q) : new[i] = Line(q[i], issued[q[i]])
      BY <1>1, LinesOfSent
    <2>2. toMb' = toMb \o new /\ Lines \subseteq ToMbMessage
      BY <1>4 DEF ToMbMessage
    <2> HIDE DEF new
    <2>3. ASSUME NEW i \in 1..Len(new)
          PROVE  new[i].ln \in 1..ln' /\ new[i].cmd = issued'[new[i].ln]
      <3>1. new[i] = Line(q[i], issued[q[i]]) /\ q[i] \in 1..ln
        BY <1>1, <2>1
      <3>2. new[i].ln = q[i] /\ new[i].cmd = issued[q[i]]
        BY <3>1 DEF Line
      <3> QED BY <1>2, <3>1, <3>2
    <2>4. ln' \in Nat /\ ln <= ln' /\ \A n \in 1..ln : issued'[n] = issued[n]
      BY <1>1, <1>2
    <2>5. LinesOnWire'
      BY <1>1, <1>2, <2>1, <2>2, <2>3, <2>4, LinesToMb
    <2>6. new \in Seq(ToMbMessage)
      BY <2>1, <2>2, SeqMonotonic
    <2> QED
      BY <1>1, <2>2, <2>5, <2>6
  <1>5. /\ toMb' = toMb \/ toMb' = toMb \o LinesOf(q)
        /\ resendInhibit' \in Nat
    BY DEF Resend
  <1> QED
    BY <1>3, <1>4, <1>5

\* Moving confirmed entries keeps the queues consecutive and within bufsize.
LEMMA MovedQueues ==
    ASSUME TypeOK, Queues, SlotIntegrity, NEW n \in (ln - Len(cmdSent))..ln,
           cmdSent' = SentAfter(n), cmdPadding' \in Seq(Nat),
           Len(cmdPadding') <= Len(PaddingAfter(n)),
           owner' = "drained" => owner = "drained" \/ BufferedCmdSize' = 0,
           UNCHANGED <<ln, commandBuffer, issued>>
    PROVE  Queues' /\ SlotIntegrity' /\ cmdSent' \in Seq(Nat)
  <1>1. /\ ln \in Nat /\ Len(cmdSent) \in Nat /\ Len(cmdPadding) \in Nat /\ n \in Int
        /\ Len(cmdPadding') \in Nat /\ BufferedCmdSize \in Nat /\ BufSize \in Nat
    BY ConstantsAssumption DEF TypeOK, BufferedCmdSize
  <1>2. /\ cmdSent' \in Seq(Nat) /\ Len(cmdSent') = ln - n
        /\ \A i \in 1..ln - n : cmdSent'[i] = n + i
        /\ Len(PaddingAfter(n)) = BufferedCmdSize - (ln - n)
    BY QueuesAfter
  <1>3. BufferedCmdSize' <= BufferedCmdSize /\ BufferedCmdSize' \in Nat
    BY <1>1, <1>2 DEF BufferedCmdSize
  <1>4. Queues'
    <2>1. \A i \in 1..Len(cmdSent') : cmdSent'[i] = ln' - Len(cmdSent') + i
      BY <1>1, <1>2
    <2>2. Len(cmdSent') <= ln' /\ Len(issued') = ln'
      BY <1>1, <1>2 DEF Queues
    <2>3. BufferedCmdSize' <= BufSize
      BY <1>1, <1>3 DEF Queues
    <2>4. owner' = "drained" => BufferedCmdSize' = 0
      BY <1>1, <1>3 DEF Queues
    <2> QED
      BY <2>1, <2>2, <2>3, <2>4 DEF Queues
  <1>5. SlotIntegrity'
    <2> SUFFICES ASSUME NEW i \in 1..Len(cmdSent')
                 PROVE  commandBuffer[Slot(cmdSent'[i])]
                          = Line(cmdSent'[i], issued[cmdSent'[i]])
      BY DEF SlotIntegrity, Slot
    <2> DEFINE j == n + i - (ln - Len(cmdSent))
    <2>1. j \in 1..Len(cmdSent) /\ cmdSent[j] = n + i /\ cmdSent'[i] = n + i
      BY <1>1, <1>2, SMTT(30) DEF Queues
    <2> QED
      BY <2>1 DEF SlotIntegrity
  <1> QED
    BY <1>2, <1>4, <1>5

\* The resend of patrol preserves IInv.
LEMMA PatrolResendStep == ASSUME IInv, PatrolResend PROVE IInv'
  <1>1. LinesOnWire' /\ toMb' \in Seq(ToMbMessage) /\ resendInhibit' \in Nat
    <2>1. cmdSent \in Seq(Nat) /\ Len(cmdSent) \in Nat /\ ln \in Nat
      BY DEF IInv, TypeOK
    <2>2. \A i \in 1..Len(cmdSent) : cmdSent[i] \in (ln - Len(cmdSent) + 1)..ln
      BY <2>1 DEF IInv, Queues
    <2>3. Resend(cmdSent, 0) /\ UNCHANGED <<ln, issued, accepted>>
      BY DEF PatrolResend, ownerVars, mbVars
    <2> QED
      BY <2>1, <2>2, <2>3, ResendKeepsWire
  <1>2. sendRetry' \in 0..MaxRetry
    BY ConstantsAssumption DEF IInv, TypeOK, PatrolResend
  <1>3. TypeOK'
    BY <1>1, <1>2 DEF IInv, TypeOK, PatrolResend, ownerVars, mbVars
  <1>4. Queues' /\ SlotIntegrity'
    BY QueuesKept DEF IInv, PatrolResend, queueVars, ownerVars
  <1> QED
    BY <1>1, <1>3, <1>4 DEF IInv, PatrolResend, NotReady, ExactlyOnceInOrder,
       MainboardCounts, ReportsInOrder, Ready, BufferedCmdSize, ownerVars, mbVars

\* An LN report preserves IInv.
LEMMA RecvLnStep == ASSUME IInv, RecvLn PROVE IInv'
  <1> DEFINE m == Head(toHost)
             n == m.ln
  <1>1. /\ TypeOK /\ Queues /\ SlotIntegrity /\ toHost # <<>> /\ m.type = "LN"
        /\ n \in Nat /\ m.queued \in Nat /\ toHost' \in Seq(ToHostMessage)
    BY HeadOfToHost DEF IInv, RecvLn, LnTaken, Incoming
  <1>r. Ready /\ Ready'
    BY DEF RecvLn, LnTaken, Ready
  <1>2. IsReport(m) /\ Confirms(m) = n
    BY <1>1 DEF IsReport, Confirms
  <1>3. n \in (ln - Len(cmdSent))..ln
    BY <1>1, <1>r, <1>2, KnownReport
  <1>4. /\ SentAfter(n) \in Seq(Nat) /\ Len(SentAfter(n)) = ln - n
        /\ PaddingAfter(n) \in Seq(Nat)
        /\ Len(PaddingAfter(n)) = BufferedCmdSize - (ln - n)
    BY <1>1, <1>3, QueuesAfter
  <1>5. /\ cmdSent' = SentAfter(n) /\ cmdPadding' = LastAtMost(PaddingAfter(n), m.queued)
        /\ UNCHANGED <<ln, commandBuffer, issued, accepted, finished>>
    BY DEF RecvLn, LnTaken, mbVars
  <1>6. /\ cmdPadding' \in Seq(Nat)
        /\ Len(cmdPadding') = IF Len(PaddingAfter(n)) <= m.queued
                              THEN Len(PaddingAfter(n)) ELSE m.queued
    BY <1>1, <1>4, <1>5, LastAtMostShorter
  <1>7. /\ ln \in Nat /\ Len(cmdSent) \in Nat /\ Len(PaddingAfter(n)) \in Nat
        /\ BufferedCmdSize \in Nat /\ finished \in Nat /\ Len(cmdPadding') \in Nat
    BY <1>1, <1>4, <1>6, SMTT(30) DEF TypeOK, BufferedCmdSize
  <1>8. Len(cmdPadding') <= Len(PaddingAfter(n))
    BY <1>1, <1>6, <1>7
  <1>9. owner' \in {owner, "free", "drained"}
    BY DEF RecvLn
  <1>10. owner' = "drained" => owner = "drained" \/ BufferedCmdSize' = 0
    <2>1. owner' = "drained" => owner = "drained" \/ m.queued + Len(cmdSent') = 0
      BY DEF RecvLn
    <2>2. Len(cmdSent') \in Nat /\ BufferedCmdSize' = Len(cmdSent') + Len(cmdPadding')
      BY <1>4, <1>5 DEF BufferedCmdSize
    <2> HIDE DEF m
    <2> QED
      BY <1>1, <1>6, <1>7, <2>1, <2>2
  <1>11. Queues' /\ SlotIntegrity' /\ cmdSent' \in Seq(Nat)
    BY <1>1, <1>3, <1>5, <1>6, <1>8, <1>10, MovedQueues
  <1>12. ReportsInOrder'
    <2>1. ln - BufferedCmdSize <= finished /\ n - m.queued <= finished
      BY <1>1, <1>r, <1>2, HeadOfToHost DEF IInv, ReportsInOrder
    <2>2. BufferedCmdSize' = (ln - n) + Len(cmdPadding')
      BY <1>4, <1>5 DEF BufferedCmdSize
    <2> HIDE DEF m, n
    <2>3. ln - BufferedCmdSize' <= finished
      <3>1. CASE Len(PaddingAfter(n)) <= m.queued
        <4>1. BufferedCmdSize' = BufferedCmdSize
          BY <1>1, <1>4, <1>6, <1>7, <2>2, <3>1
        <4> QED BY <2>1, <4>1
      <3>2. CASE ~ Len(PaddingAfter(n)) <= m.queued
        <4>1. ln - BufferedCmdSize' = n - m.queued
          BY <1>1, <1>6, <1>7, <2>2, <3>2
        <4> QED BY <2>1, <4>1
      <3> QED BY <3>1, <3>2
    <2> USE DEF m, n
    <2> QED
      BY <1>1, <1>r, <1>2, <1>5, <2>3, AfterReport DEF RecvLn, LnTaken, Incoming
  <1>13. TypeOK'
    BY <1>1, <1>6, <1>9, <1>11 DEF TypeOK, RecvLn, LnTaken, mbVars
  <1>14. MainboardCounts'
    <2>1. toHost' = Tail(toHost) /\ UNCHANGED <<flags, expect, accepted, finished>>
      BY DEF RecvLn, LnTaken, Incoming, mbVars
    <2> QED
      BY <1>1, <2>1, FewerEnabled DEF IInv
  <1> QED
    BY <1>11, <1>12, <1>13, <1>14 DEF IInv, RecvLn, LnTaken, NotReady, LinesOnWire,
       ExactlyOnceInOrder, mbVars

\* What the two mismatch handlers share: entries move, some lines are resent.
LEMMA MismatchStep ==
    ASSUME IInv, toHost # <<>>, toHost' = Tail(toHost), flags # {},
           Head(toHost).type \in {"LINE_MISMATCH", "CHECKSUM_MISMATCH"},
           cmdSent' = SentAfter(Confirms(Head(toHost))),
           cmdPadding' = PaddingAfter(Confirms(Head(toHost))),
           \/ Resend(cmdSent', resendInhibit)
           \/ resendInhibit' = 0 /\ toMb' = toMb,
           UNCHANGED <<flags, ln, expired, sendRetry, commandBuffer, ownerVars,
                       mbVars, faults>>
    PROVE  IInv'
  <1> DEFINE n == Confirms(Head(toHost))
  <1>r. Ready /\ Ready'
    BY DEF Ready
  <1>1. /\ TypeOK /\ Queues /\ SlotIntegrity /\ n \in (ln - Len(cmdSent))..ln
        /\ IsReport(Head(toHost)) /\ toHost' \in Seq(ToHostMessage)
    BY <1>r, HeadOfToHost, KnownReport DEF IInv, IsReport
  <1>2. /\ SentAfter(n) \in Seq(Nat) /\ Len(SentAfter(n)) = ln - n
        /\ \A i \in 1..ln - n : SentAfter(n)[i] = n + i
        /\ PaddingAfter(n) \in Seq(Nat)
        /\ Len(PaddingAfter(n)) = BufferedCmdSize - (ln - n)
    BY <1>1, QueuesAfter
  <1>3. /\ cmdSent' = SentAfter(n) /\ cmdPadding' = PaddingAfter(n)
        /\ UNCHANGED <<ln, commandBuffer, issued, accepted, finished, owner, flags, expect>>
    BY DEF ownerVars, mbVars
  <1> HIDE DEF n
  <1>4. /\ ln \in Nat /\ Len(cmdSent) \in Nat /\ n \in Int /\ BufferedCmdSize \in Nat
        /\ resendInhibit \in Nat /\ toMb \in Seq(ToMbMessage)
    BY <1>1 DEF TypeOK, BufferedCmdSize
  <1>5. Len(PaddingAfter(n)) \in Nat
    BY <1>2
  <1>6. Queues' /\ SlotIntegrity' /\ cmdSent' \in Seq(Nat)
    BY <1>1, <1>2, <1>3, <1>5, MovedQueues
  <1>7. LinesOnWire' /\ toMb' \in Seq(ToMbMessage) /\ resendInhibit' \in Nat
    <2>1. CASE Resend(cmdSent', resendInhibit)
      <3>1. \A i \in 1..Len(cmdSent') : cmdSent'[i] \in (ln - Len(cmdSent) + 1)..ln
        <4> TAKE i \in 1..Len(cmdSent')
        <4>1. i \in 1..ln - n /\ cmdSent'[i] = n + i /\ ln - Len(cmdSent) <= n
          BY <1>1, <1>2, <1>3, <1>4
        <4> QED BY <1>4, <4>1
      <3> QED
        BY <1>3, <1>4, <1>6, <2>1, <3>1, ResendKeepsWire
    <2>2. CASE resendInhibit' = 0 /\ toMb' = toMb
      BY <1>3, <1>4, <2>2 DEF IInv, LinesOnWire
    <2> QED
      BY <2>1, <2>2
  <1>8. ReportsInOrder'
    <2>1. BufferedCmdSize' = BufferedCmdSize
      <3>1. BufferedCmdSize' = (ln - n) + Len(PaddingAfter(n))
        BY <1>2, <1>3 DEF BufferedCmdSize
      <3> QED BY <1>2, <1>4, <3>1
    <2>2. ln - BufferedCmdSize' <= finished
      BY <2>1 DEF IInv, ReportsInOrder
    <2> QED
      BY <1>1, <1>r, <1>3, <2>2, AfterReport DEF n
  <1>9. TypeOK'
    BY <1>1, <1>2, <1>3, <1>6, <1>7 DEF TypeOK, ownerVars, mbVars
  <1>10. MainboardCounts'
    BY <1>1, <1>3, FewerEnabled DEF IInv
  <1> QED
    BY <1>3, <1>6, <1>7, <1>8, <1>9, <1>10 DEF IInv, NotReady, ExactlyOnceInOrder

\* A LINE_MISMATCH report preserves IInv.
LEMMA RecvLineMismatchStep == ASSUME IInv, RecvLineMismatch PROVE IInv'
  <1>1. /\ toHost # <<>> /\ Head(toHost).type = "LINE_MISMATCH"
        /\ Confirms(Head(toHost)) = Head(toHost).correct - 1
    BY DEF RecvLineMismatch, Incoming, Confirms
  <1> QED
    BY <1>1, MismatchStep
    DEF RecvLineMismatch, Confirmed, ResendAfterMismatch, Incoming

\* A CHECKSUM_MISMATCH report preserves IInv.
LEMMA RecvChecksumMismatchStep == ASSUME IInv, RecvChecksumMismatch PROVE IInv'
  <1>1. /\ toHost # <<>> /\ Head(toHost).type = "CHECKSUM_MISMATCH"
        /\ Confirms(Head(toHost)) = Head(toHost).ln - 1
    BY DEF RecvChecksumMismatch, Incoming, Confirms
  <1> QED
    BY <1>1, MismatchStep DEF RecvChecksumMismatch, Confirmed, Incoming

\* A FILAMENTRUNOUT report preserves IInv.
LEMMA RecvRunoutStep == ASSUME IInv, RecvRunout PROVE IInv'
  <1>r. Ready' = Ready
    BY DEF RecvRunout, Ready
  <1>1. /\ toHost # <<>> /\ toHost' = Tail(toHost)
        /\ TypeOK /\ toHost' \in Seq(ToHostMessage)
        /\ UNCHANGED <<ln, cmdSent, cmdPadding, commandBuffer, owner, issued, toMb,
                       expect, accepted, finished>>
        /\ flags' # {} => flags # {}
    BY HeadOfToHost DEF IInv, RecvRunout, Incoming, mbVars
  <1>2. TypeOK'
    BY <1>1 DEF TypeOK, RecvRunout, mbVars
  <1>3. Queues' /\ SlotIntegrity'
    BY <1>1, QueuesKept DEF IInv, queueVars
  <1>4. MainboardCounts' /\ ReportsInOrder'
    BY <1>1, <1>r, FewerEnabled, FewerToHost DEF IInv
  <1> QED
    BY <1>1, <1>2, <1>3, <1>4 DEF IInv, RecvRunout, NotReady, LinesOnWire,
       ExactlyOnceInOrder

\* LINECHECK_ENABLED preserves IInv.
LEMMA RecvEnabledStep == ASSUME IInv, RecvEnabled PROVE IInv'
  <1>r. Ready' /\ (Ready => Ready')
    BY DEF RecvEnabled, Ready
  <1>1. /\ toHost # <<>> /\ toHost' = Tail(toHost) /\ Head(toHost).type = "ENABLED"
        /\ TypeOK /\ toHost' \in Seq(ToHostMessage)
        /\ UNCHANGED <<cmdSent, cmdPadding, commandBuffer, owner, issued, toMb,
                       expect, accepted, finished>>
    BY HeadOfToHost DEF IInv, RecvEnabled, Incoming, ownerVars, mbVars
  <1>2. ln' = ln
    BY DEF IInv, NotReady, RecvEnabled
  <1>3. TypeOK'
    BY <1>1, <1>2 DEF TypeOK, RecvEnabled, ownerVars, mbVars
  <1>4. Queues' /\ SlotIntegrity'
    BY <1>1, <1>2, QueuesKept DEF IInv, queueVars
  <1>5. MainboardCounts' /\ ReportsInOrder'
    BY <1>1, <1>2, <1>r, FewerEnabled, FewerToHost DEF IInv
  <1> QED
    BY <1>1, <1>2, <1>3, <1>4, <1>5 DEF IInv, RecvEnabled, NotReady, LinesOnWire,
       ExactlyOnceInOrder

\* LINECHECK_DISABLED preserves IInv.
LEMMA RecvDisabledStep == ASSUME IInv, RecvDisabled PROVE IInv'
  <1>r. Ready' = Ready
    BY DEF RecvDisabled, Ready
  <1>1. /\ toHost # <<>> /\ toHost' = Tail(toHost)
        /\ TypeOK /\ toHost' \in Seq(ToHostMessage)
        /\ UNCHANGED <<ln, cmdSent, cmdPadding, commandBuffer, owner, issued,
                       expect, accepted, finished>>
        /\ flags' # {} => flags # {}
    BY HeadOfToHost DEF IInv, RecvDisabled, Incoming, ownerVars, mbVars
  <1>2. LinesOnWire' /\ toMb' \in Seq(ToMbMessage)
    <2>1. CASE flags = {} /\ toMb' = Append(toMb, Control("C1O"))
      <3>1. ln = 0 /\ accepted = <<>> /\ LinesOnWire
        BY <2>1 DEF IInv, NotReady
      <3>2. toMb \in Seq(ToMbMessage) /\ Control("C1O") \in ToMbMessage
        BY <1>1, ControlTypes DEF TypeOK
      <3> QED BY <1>1, <2>1, <3>1, <3>2, ControlToMb
    <2>2. CASE UNCHANGED toMb
      BY <1>1, <2>2 DEF IInv, TypeOK, LinesOnWire
    <2> QED
      BY <2>1, <2>2 DEF RecvDisabled
  <1>3. flags' \subseteq {"READY", "ERROR", "CLOSING", "CLOSED"} /\ expired' \in BOOLEAN
    BY <1>1 DEF TypeOK, RecvDisabled
  <1>4. TypeOK'
    BY <1>1, <1>2, <1>3 DEF TypeOK, RecvDisabled, ownerVars, mbVars
  <1>5. Queues' /\ SlotIntegrity'
    BY <1>1, QueuesKept DEF IInv, queueVars
  <1>6. MainboardCounts' /\ ReportsInOrder'
    BY <1>1, <1>r, FewerEnabled, FewerToHost DEF IInv
  <1> QED
    BY <1>1, <1>2, <1>4, <1>5, <1>6 DEF IInv, RecvDisabled, NotReady, ExactlyOnceInOrder

\* MISSING_LINENUMBER preserves IInv.
LEMMA RecvMissingStep == ASSUME IInv, RecvMissing PROVE IInv'
  <1>r. Ready' = Ready
    BY DEF RecvMissing, Ready
  <1>1. /\ toHost # <<>> /\ toHost' = Tail(toHost)
        /\ TypeOK /\ toHost' \in Seq(ToHostMessage)
        /\ UNCHANGED <<flags, ln, cmdSent, cmdPadding, commandBuffer, owner, issued,
                       expect, accepted, finished>>
    BY HeadOfToHost DEF IInv, RecvMissing, Incoming, mbVars
  <1>2. LinesOnWire' /\ toMb' \in Seq(ToMbMessage)
    <2>1. CASE toMb' = Append(toMb, Control("DISABLE"))
      <3>1. toMb \in Seq(ToMbMessage) /\ Control("DISABLE") \in ToMbMessage
        BY <1>1, ControlTypes DEF TypeOK
      <3> QED BY <1>1, <2>1, <3>1, ControlToMb DEF IInv
    <2>2. CASE UNCHANGED toMb
      BY <1>1, <2>2 DEF IInv, TypeOK, LinesOnWire
    <2> QED
      BY <2>1, <2>2 DEF RecvMissing
  <1>3. TypeOK'
    <2>1. raised' \subseteq {"OFFLINE", "HARDWARE", "RUNOUT"} /\ expired' \in BOOLEAN
      BY <1>1 DEF TypeOK, RecvMissing
    <2> QED
      BY <1>1, <1>2, <2>1 DEF TypeOK, RecvMissing, mbVars
  <1>4. Queues' /\ SlotIntegrity'
    BY <1>1, QueuesKept DEF IInv, queueVars
  <1>5. MainboardCounts' /\ ReportsInOrder'
    BY <1>1, <1>r, FewerEnabled, FewerToHost DEF IInv
  <1> QED
    BY <1>1, <1>2, <1>3, <1>4, <1>5 DEF IInv, NotReady, ExactlyOnceInOrder

\* A report that comes before the controller is ready preserves IInv.
LEMMA RecvUnknownStep == ASSUME IInv, RecvUnknown PROVE IInv'
  <1>r. Ready' = Ready
    BY DEF RecvUnknown, hostVars, Ready
  <1>1. /\ toHost # <<>> /\ toHost' = Tail(toHost)
        /\ TypeOK /\ toHost' \in Seq(ToHostMessage)
        /\ UNCHANGED <<hostVars, ownerVars, mbVars, toMb, faults>>
    BY HeadOfToHost DEF IInv, RecvUnknown, Incoming
  <1>2. UNCHANGED <<ln, cmdSent, cmdPadding, commandBuffer, owner, issued, flags,
                    expect, accepted, finished>>
    BY <1>1 DEF hostVars, ownerVars, mbVars
  <1>3. TypeOK'
    BY <1>1 DEF TypeOK, hostVars, ownerVars, mbVars
  <1>4. Queues' /\ SlotIntegrity'
    BY <1>2, QueuesKept DEF IInv, queueVars
  <1>5. MainboardCounts' /\ ReportsInOrder'
    BY <1>1, <1>2, <1>r, FewerEnabled, FewerToHost DEF IInv
  <1> QED
    BY <1>1, <1>2, <1>3, <1>4, <1>5 DEF IInv, NotReady, LinesOnWire, ExactlyOnceInOrder

-----------------------------------------------------------------------------
(* The steps of the mainboard and the serial line preserve IInv. *)

\* What a step at the head of toMb leaves alone.
LEMMA MbReadsKeeps ==
    ASSUME IInv, NEW type, MbReads(type)
    PROVE  /\ toMb # <<>> /\ Head(toMb) = toMb[1] /\ 1 \in 1..Len(toMb)
           /\ Head(toMb).type = type
           /\ toMb' = Tail(toMb) /\ toMb' \in Seq(ToMbMessage)
           /\ UNCHANGED <<flags, ln, resendInhibit, expired, sendRetry, cmdSent,
                          cmdPadding, commandBuffer, owner, raised, issued>>
           /\ Queues' /\ SlotIntegrity'
           /\ TypeOK
  <1>1. /\ toMb # <<>> /\ Head(toMb).type = type /\ toMb' = Tail(toMb) /\ TypeOK
        /\ UNCHANGED <<flags, ln, resendInhibit, expired, sendRetry, cmdSent,
                       cmdPadding, commandBuffer, owner, raised, issued>>
    BY DEF MbReads, hostVars, ownerVars, IInv
  <1>2. Queues' /\ SlotIntegrity'
    BY <1>1, QueuesKept DEF IInv, queueVars
  <1> QED
    BY <1>1, <1>2, HeadOfToMb

\* A line on the wire means the controller is ready and numbers are in step.
LEMMA LineMeansReady ==
    ASSUME IInv, toMb # <<>>, Head(toMb).type = "LINE"
    PROVE  /\ flags # {} /\ expect = Len(accepted) + 1
           /\ Head(toMb).ln \in 1..ln /\ Head(toMb).cmd = issued[Head(toMb).ln]
           /\ Len(accepted) \in Nat /\ expect \in Nat /\ finished \in Nat
           /\ ln \in Nat
           /\ \A j \in 1..Len(toMb) : toMb[j].type # "C1O"
  <1>1. Head(toMb) = toMb[1] /\ 1 \in 1..Len(toMb) /\ ln \in Nat
    BY HeadOfToMb DEF IInv, TypeOK
  <1>2. /\ Head(toMb).ln \in 1..ln /\ Head(toMb).cmd = issued[Head(toMb).ln]
        /\ \A j \in 1..Len(toMb) : toMb[j].type # "C1O"
    BY <1>1 DEF IInv, LinesOnWire
  <1>3. flags # {}
    BY <1>1, <1>2 DEF IInv, NotReady
  <1> QED
    BY <1>1, <1>2, <1>3 DEF IInv, TypeOK, MainboardCounts

\* C1O at the mainboard preserves IInv.
LEMMA MbRecvC1OStep == ASSUME IInv, MbRecvC1O PROVE IInv'
  <1>r. Ready' = Ready
    BY DEF MbRecvC1O, MbReads, hostVars, Ready
  <1>1. MbReads("C1O")
    BY DEF MbRecvC1O
  <1>2. accepted = <<>> /\ UNCHANGED <<accepted, finished, unchecked, faults>>
    BY <1>1, MbReadsKeeps DEF IInv, LinesOnWire, MbRecvC1O
  <1>3. LinesOnWire'
    BY <1>1, <1>2, MbReadsKeeps, FewerToMb DEF IInv
  <1>4. PICK t \in {"MISSING", "ENABLED"} :
           /\ toHost' = Append(toHost, Control(t))
           /\ t = "MISSING" => UNCHANGED <<linecheck, expect>>
           /\ t = "ENABLED" => linecheck' = TRUE /\ expect' = 1
    BY DEF MbRecvC1O, Reply
  <1>5. /\ Control(t) \in ToHostMessage /\ ~IsReport(Control(t)) /\ Control(t).type = t
        /\ toHost \in Seq(ToHostMessage) /\ toHost' \in Seq(ToHostMessage)
    BY <1>4, ControlTypes DEF IInv, TypeOK
  <1>6. TypeOK'
    <2>1. linecheck \in BOOLEAN /\ expect \in Nat \ {0}
      BY DEF IInv, TypeOK
    <2>2. linecheck' \in BOOLEAN /\ expect' \in Nat \ {0}
      <3>1. CASE t = "MISSING"
        BY <1>4, <2>1, <3>1
      <3>2. CASE t = "ENABLED"
        BY <1>4, <3>2
      <3> QED BY <3>1, <3>2
    <2> QED
      BY <1>1, <1>2, <1>5, <2>2, MbReadsKeeps DEF TypeOK
  <1>7. ReportsInOrder'
    BY <1>1, <1>2, <1>4, <1>5, <1>r, MbReadsKeeps, OtherReply DEF IInv
  <1>8. MainboardCounts'
    <2>1. CASE t = "MISSING"
      BY <1>1, <1>2, <1>4, <1>5, <2>1, MbReadsKeeps, MoreReplies DEF IInv
    <2>2. CASE t = "ENABLED"
      BY <1>2, <1>4, <2>2 DEF IInv, MainboardCounts
    <2> QED
      BY <2>1, <2>2
  <1> QED
    BY <1>1, <1>2, <1>3, <1>6, <1>7, <1>8, MbReadsKeeps
    DEF IInv, NotReady, ExactlyOnceInOrder

\* DISABLE_LINECHECK at the mainboard preserves IInv.
LEMMA MbRecvDisableStep == ASSUME IInv, MbRecvDisable PROVE IInv'
  <1>r. Ready' = Ready
    BY DEF MbRecvDisable, MbReads, hostVars, Ready
  <1>1. MbReads("DISABLE") /\ UNCHANGED <<expect, accepted, finished, unchecked, faults>>
        /\ toHost' = Append(toHost, Control("DISABLED")) /\ linecheck' = FALSE
    BY DEF MbRecvDisable, Reply
  <1>2. /\ Control("DISABLED") \in ToHostMessage /\ ~IsReport(Control("DISABLED"))
        /\ Control("DISABLED").type # "ENABLED"
    BY ControlTypes
  <1>3. LinesOnWire'
    BY <1>1, MbReadsKeeps, FewerToMb DEF IInv
  <1>4. toHost' \in Seq(ToHostMessage)
    BY <1>1, <1>2 DEF IInv, TypeOK
  <1>5. TypeOK'
    BY <1>1, <1>4, MbReadsKeeps DEF TypeOK
  <1>6. ReportsInOrder' /\ MainboardCounts'
    BY <1>1, <1>2, <1>r, MbReadsKeeps, OtherReply, MoreReplies DEF IInv
  <1> QED
    BY <1>1, <1>3, <1>5, <1>6, MbReadsKeeps DEF IInv, NotReady, ExactlyOnceInOrder

\* The homing that follows close preserves IInv.
LEMMA MbRecvHomeStep == ASSUME IInv, MbRecvHome PROVE IInv'
  <1>r. Ready' = Ready
    BY DEF MbRecvHome, MbReads, hostVars, Ready
  <1>1. /\ MbReads("HOME") /\ UNCHANGED <<mbVars, faults>>
        /\ toHost' = toHost \/ toHost' = Append(toHost, Control("MISSING"))
    BY DEF MbRecvHome, Reply
  <1>2. /\ Control("MISSING") \in ToHostMessage /\ ~IsReport(Control("MISSING"))
        /\ Control("MISSING").type # "ENABLED"
    BY ControlTypes
  <1>3. UNCHANGED <<linecheck, expect, accepted, finished, unchecked>>
    BY <1>1 DEF mbVars
  <1>4. LinesOnWire'
    BY <1>1, <1>3, MbReadsKeeps, FewerToMb DEF IInv
  <1>5. toHost' \in Seq(ToHostMessage)
    <2>1. toHost \in Seq(ToHostMessage)
      BY DEF IInv, TypeOK
    <2> QED BY <1>1, <1>2, <2>1
  <1>6. TypeOK'
    BY <1>1, <1>3, <1>5, MbReadsKeeps DEF TypeOK
  <1>7. ReportsInOrder' /\ MainboardCounts'
    <2>1. CASE toHost' = toHost
      BY <1>1, <1>r, <1>3, <2>1, MbReadsKeeps
      DEF IInv, ReportsInOrder, MainboardCounts, BufferedCmdSize
    <2>2. CASE toHost' = Append(toHost, Control("MISSING"))
      BY <1>1, <1>2, <1>3, <2>2, <1>r, MbReadsKeeps, OtherReply, MoreReplies DEF IInv
    <2> QED
      BY <1>1, <2>1, <2>2
  <1> QED
    BY <1>1, <1>3, <1>4, <1>6, <1>7, MbReadsKeeps DEF IInv, NotReady, ExactlyOnceInOrder

\* Reading an unnumbered command preserves IInv.
LEMMA MbRecvTriggerStep == ASSUME IInv, MbRecvTrigger PROVE IInv'
  <1>1. MbReads("TRIGGER") /\ UNCHANGED <<mbVars, toHost, faults>>
    BY DEF MbRecvTrigger
  <1>2. UNCHANGED <<linecheck, expect, accepted, finished, unchecked>>
    BY <1>1 DEF mbVars
  <1>3. LinesOnWire'
    BY <1>1, <1>2, MbReadsKeeps, FewerToMb DEF IInv
  <1>4. TypeOK'
    BY <1>1, <1>2, MbReadsKeeps DEF TypeOK
  <1> QED
    BY <1>1, <1>2, <1>3, <1>4, MbReadsKeeps DEF IInv, NotReady, ExactlyOnceInOrder,
       MainboardCounts, ReportsInOrder, Ready, BufferedCmdSize

\* The acceptance of a line preserves IInv.
LEMMA MbAcceptStep == ASSUME IInv, MbAccept PROVE IInv'
  <1> DEFINE h == Head(toMb)
             r == LnReply(expect, Len(accepted) + 1 - finished)
  <1>1. /\ MbReads("LINE") /\ h.ln = expect /\ expect' = expect + 1
        /\ accepted' = Append(accepted, h.cmd) /\ toHost' = Append(toHost, r)
        /\ UNCHANGED <<linecheck, finished, unchecked, faults>>
    BY DEF MbAccept, Reply
  <1>2. /\ expect = Len(accepted) + 1 /\ h.ln \in 1..ln /\ h.cmd = issued[h.ln]
        /\ Len(accepted) \in Nat /\ finished \in Nat /\ ln \in Nat
        /\ \A j \in 1..Len(toMb) : toMb[j].type # "C1O"
    BY <1>1, MbReadsKeeps, LineMeansReady
  <1>r. Ready /\ Ready'
    BY <1>1, MbReadsKeeps, LineMeansReady DEF Ready
  <1>3. /\ accepted \in Seq(Command) /\ issued \in Seq(Command) /\ Len(issued) = ln
        /\ finished <= Len(accepted) /\ toHost \in Seq(ToHostMessage)
    BY DEF IInv, TypeOK, Queues, MainboardCounts
  <1>4. h.cmd \in Command
    BY <1>2, <1>3
  <1>5. /\ accepted' \in Seq(Command) /\ Len(accepted') = Len(accepted) + 1
        /\ \A i \in 1..Len(accepted) : accepted'[i] = accepted[i]
        /\ accepted'[Len(accepted) + 1] = h.cmd
    BY <1>1, <1>3, <1>4
  <1>6. /\ r.type = "LN" /\ r.ln = expect
        /\ r.queued = Len(accepted) + 1 - finished
        /\ r \in ToHostMessage
    BY <1>2, <1>3 DEF LnReply, ToHostMessage
  <1> HIDE DEF h, r
  <1>7. IsReport(r) /\ Confirms(r) = expect
    BY <1>6 DEF IsReport, Confirms
  <1>8. TypeOK'
    <2>1. expect' \in Nat \ {0} /\ toHost' \in Seq(ToHostMessage)
      BY <1>1, <1>2, <1>3, <1>6
    <2> QED
      BY <1>1, <1>5, <2>1, MbReadsKeeps DEF TypeOK
  <1>9. LinesOnWire'
    <2>0. toMb \in Seq(ToMbMessage) /\ toMb # <<>> /\ toMb' = Tail(toMb)
      BY <1>1, MbReadsKeeps DEF TypeOK
    <2>1. /\ Len(toMb) \in Nat /\ Len(toMb') = Len(toMb) - 1
          /\ \A i \in 1..Len(toMb') : i + 1 \in 1..Len(toMb) /\ toMb'[i] = toMb[i + 1]
      BY <2>0
    <2>2. UNCHANGED <<ln, issued>>
      BY <1>1, MbReadsKeeps
    <2>3. \A j \in 1..Len(toMb') : toMb'[j].type # "C1O"
      BY <1>2, <2>1
    <2>4. ASSUME NEW i \in 1..Len(toMb'), toMb'[i].type = "LINE"
          PROVE  /\ toMb'[i].ln \in 1..ln' /\ toMb'[i].cmd = issued'[toMb'[i].ln]
                 /\ \A j \in i..Len(toMb') : toMb'[j].type # "C1O"
      <3>1. i + 1 \in 1..Len(toMb) /\ toMb'[i] = toMb[i + 1] /\ Len(toMb') \in Nat
        BY <2>1
      <3>2. toMb[i + 1].ln \in 1..ln /\ toMb[i + 1].cmd = issued[toMb[i + 1].ln]
        BY <2>4, <3>1 DEF IInv, LinesOnWire
      <3> QED BY <2>2, <2>3, <3>1, <3>2
    <2> QED
      BY <2>3, <2>4 DEF LinesOnWire
  <1>10. ExactlyOnceInOrder'
    <2>1. Len(accepted) <= ln /\ \A i \in 1..Len(accepted) : accepted[i] = issued[i]
      BY <1>3, PrefixPointwise DEF IInv, ExactlyOnceInOrder
    <2>2. issued' = issued
      BY <1>1, MbReadsKeeps
    <2>3. Len(accepted') <= Len(issued') /\ \A i \in 1..Len(accepted') : accepted'[i] = issued'[i]
      BY <1>1, <1>2, <1>3, <1>5, <2>1, <2>2
    <2> QED
      BY <1>3, <1>5, <2>2, <2>3, PrefixPointwise DEF ExactlyOnceInOrder
  <1>11. MainboardCounts'
    BY <1>1, <1>2, <1>3, <1>5 DEF IInv, MainboardCounts
  <1>12. ReportsInOrder'
    <2>1. /\ Len(accepted') \in Nat /\ Len(accepted') >= Len(accepted)
          /\ Confirms(r) = Len(accepted') /\ finished' = finished
          /\ finished' \in Nat /\ finished' >= finished
      BY <1>1, <1>2, <1>5, <1>7
    <2>2. r.type = "LN" => r.ln - r.queued <= finished'
      BY <1>1, <1>2, <1>6
    <2>3. UNCHANGED <<ln, cmdSent, cmdPadding>> /\ TypeOK /\ ReportsInOrder
      BY <1>1, MbReadsKeeps DEF IInv
    <2> QED
      BY <1>1, <1>7, <2>1, <2>2, <2>3, <1>r, NewReport
  <1>13. NotReady'
    <2>1. toMb # <<>> /\ Head(toMb).type = "LINE" /\ flags' = flags
      BY <1>1, MbReadsKeeps
    <2>2. flags # {}
      BY <2>1, LineMeansReady
    <2> QED BY <2>1, <2>2 DEF IInv, NotReady
  <1> QED
    BY <1>1, <1>8, <1>9, <1>10, <1>11, <1>12, <1>13, MbReadsKeeps DEF IInv

\* The faults stay counted by kind.
LEMMA FaultCounted ==
    ASSUME faults \in [AllFaults -> Nat], NEW kind \in AllFaults,
           faults' = [faults EXCEPT ![kind] = @ + 1]
    PROVE  faults' \in [AllFaults -> Nat]
  OBVIOUS

\* A report that changes nothing in the mainboard.
LEMMA MbReports ==
    ASSUME IInv, toMb # <<>>, Head(toMb).type = "LINE", toMb' = Tail(toMb),
           NEW m \in ToHostMessage, toHost' = Append(toHost, m),
           m.type \in {"LINE_MISMATCH", "CHECKSUM_MISMATCH"},
           Confirms(m) = expect - 1, faults' \in [AllFaults -> Nat],
           UNCHANGED <<hostVars, ownerVars, mbVars>>
    PROVE  IInv'
  <1>r. Ready /\ Ready'
    BY LineMeansReady DEF hostVars, Ready
  <1>1. /\ TypeOK /\ toMb' \in Seq(ToMbMessage) /\ toHost' \in Seq(ToHostMessage)
        /\ IsReport(m) /\ m.type # "LN" /\ m.type # "ENABLED"
    <2>1. toHost \in Seq(ToHostMessage) /\ TypeOK
      BY DEF IInv, TypeOK
    <2> QED BY <2>1, HeadOfToMb DEF IsReport
  <1>2. UNCHANGED <<flags, ln, cmdSent, cmdPadding, commandBuffer, owner, issued,
                    expect, accepted, finished>>
    BY DEF hostVars, ownerVars, mbVars
  <1>3. expect = Len(accepted) + 1 /\ Len(accepted) \in Nat /\ finished \in Nat
    BY LineMeansReady
  <1>4. TypeOK'
    BY <1>1 DEF TypeOK, hostVars, ownerVars, mbVars
  <1>5. Queues' /\ SlotIntegrity'
    BY <1>2, QueuesKept DEF IInv, queueVars
  <1>6. LinesOnWire'
    BY <1>1, <1>2, FewerToMb DEF IInv
  <1>7. MainboardCounts'
    BY <1>1, <1>2, MoreReplies DEF IInv
  <1>8. ReportsInOrder'
    <2>1. /\ Confirms(m) = Len(accepted') /\ Len(accepted') \in Nat
          /\ Len(accepted') >= Len(accepted) /\ finished' \in Nat /\ finished' >= finished
          /\ UNCHANGED <<ln, cmdSent, cmdPadding>>
      BY <1>2, <1>3
    <2> QED
      BY <1>1, <2>1, <1>r, NewReport DEF IInv
  <1> QED
    BY <1>2, <1>4, <1>5, <1>6, <1>7, <1>8 DEF IInv, NotReady, ExactlyOnceInOrder

\* A line the mainboard does not expect preserves IInv.
LEMMA MbRejectStep == ASSUME IInv, MbReject PROVE IInv'
  <1> DEFINE m == [type |-> "LINE_MISMATCH", correct |-> expect, trigger |-> Head(toMb).ln]
  <1>1. /\ toMb # <<>> /\ Head(toMb).type = "LINE" /\ toMb' = Tail(toMb)
        /\ toHost' = Append(toHost, m) /\ UNCHANGED <<hostVars, ownerVars, mbVars, faults>>
    BY DEF MbReject, MbReads, Reply
  <1>2. expect \in Nat /\ Head(toMb).ln \in Nat /\ faults \in [AllFaults -> Nat]
    BY <1>1, HeadOfToMb DEF IInv, TypeOK
  <1>3. /\ m \in ToHostMessage /\ m.type = "LINE_MISMATCH" /\ Confirms(m) = expect - 1
    BY <1>2 DEF ToHostMessage, Confirms
  <1> HIDE DEF m
  <1> QED
    BY <1>1, <1>2, <1>3, MbReports

\* A line that arrives damaged preserves IInv.
LEMMA GarbleLineStep == ASSUME IInv, GarbleLine PROVE IInv'
  <1> DEFINE m == [type |-> "CHECKSUM_MISMATCH", ln |-> expect]
  <1>1. /\ toMb # <<>> /\ Head(toMb).type = "LINE" /\ toMb' = Tail(toMb)
        /\ toHost' = Append(toHost, m) /\ UNCHANGED <<hostVars, ownerVars, mbVars>>
        /\ faults' = [faults EXCEPT !["garble line"] = @ + 1]
    BY DEF GarbleLine, Fault, Reply
  <1>2. expect \in Nat /\ faults' \in [AllFaults -> Nat]
    BY <1>1, FaultCounted DEF IInv, TypeOK, AllFaults
  <1>3. m \in ToHostMessage /\ m.type = "CHECKSUM_MISMATCH" /\ Confirms(m) = expect - 1
    BY <1>2 DEF ToHostMessage, Confirms
  <1> HIDE DEF m
  <1> QED
    BY <1>1, <1>2, <1>3, MbReports

\* A line that arrives while line checking is off preserves IInv.
LEMMA MbRunUncheckedStep == ASSUME IInv, MbRunUnchecked PROVE IInv'
  <1>1. /\ MbReads("LINE") /\ unchecked' = unchecked + 1
        /\ UNCHANGED <<linecheck, expect, accepted, finished, toHost, faults>>
    BY DEF MbRunUnchecked
  <1>2. TypeOK'
    BY <1>1, MbReadsKeeps, SMTT(30) DEF TypeOK
  <1>3. LinesOnWire'
    BY <1>1, MbReadsKeeps, FewerToMb DEF IInv
  <1> QED
    BY <1>1, <1>2, <1>3, MbReadsKeeps DEF IInv, NotReady, ExactlyOnceInOrder,
       MainboardCounts, ReportsInOrder, Ready, BufferedCmdSize

\* The completion of a command preserves IInv.
LEMMA MbFinishStep == ASSUME IInv, MbFinish PROVE IInv'
  <1> DEFINE r == LnReply(expect - 1, Len(accepted) - finished - 1)
  <1>1. /\ finished < Len(accepted) /\ finished' = finished + 1
        /\ toHost' = toHost \/ toHost' = Append(toHost, r)
        /\ UNCHANGED <<hostVars, ownerVars, toMb, linecheck, expect, accepted,
                       unchecked, faults>>
    BY DEF MbFinish, Reply
  <1>2. UNCHANGED <<flags, ln, cmdSent, cmdPadding, commandBuffer, owner, issued>>
    BY <1>1 DEF hostVars, ownerVars
  <1>3. /\ Len(accepted) \in Nat /\ finished \in Nat /\ finished' \in Nat
        /\ toHost \in Seq(ToHostMessage)
    BY <1>1 DEF IInv, TypeOK
  <1>4. flags # {} /\ expect = Len(accepted) + 1 /\ expect \in Nat
    BY <1>1, <1>3 DEF IInv, NotReady, MainboardCounts
  <1>r. Ready /\ Ready'
    BY <1>2, <1>4 DEF Ready
  <1>5. /\ r \in ToHostMessage /\ r.type = "LN" /\ r.ln = Len(accepted)
        /\ r.queued = Len(accepted) - finished - 1
    BY <1>1, <1>3, <1>4 DEF LnReply, ToHostMessage
  <1>6. IsReport(r) /\ Confirms(r) = Len(accepted) /\ r.type # "ENABLED"
    BY <1>5 DEF IsReport, Confirms
  <1> HIDE DEF r
  <1>7. r.ln - r.queued <= finished'
    BY <1>1, <1>3, <1>5
  <1>8. TypeOK'
    <2>1. toHost' \in Seq(ToHostMessage)
      BY <1>1, <1>3, <1>5
    <2> QED
      BY <1>1, <1>3, <2>1 DEF IInv, TypeOK, hostVars, ownerVars
  <1>9. Queues' /\ SlotIntegrity'
    BY <1>2, QueuesKept DEF IInv, queueVars
  <1>10. LinesOnWire'
    BY <1>1, <1>2 DEF IInv, LinesOnWire
  <1>11. MainboardCounts'
    <2>1. Len(toHost) \in Nat /\ \A i \in 1..Len(toHost') :
             toHost'[i].type = "ENABLED" => i \in 1..Len(toHost) /\ toHost'[i] = toHost[i]
      BY <1>1, <1>3, <1>6
    <2> QED
      BY <1>1, <1>2, <1>3, <1>4, <2>1 DEF IInv, MainboardCounts
  <1>12. ReportsInOrder'
    <2>1. CASE toHost' = toHost
      <3>1. ln \in Nat /\ BufferedCmdSize \in Nat
        BY DEF IInv, TypeOK, BufferedCmdSize
      <3>2. ASSUME NEW i \in 1..Len(toHost), toHost[i].type = "LN"
            PROVE  toHost[i].ln - toHost[i].queued <= finished'
        <4>1. toHost[i] \in ToHostMessage
          BY <1>3, <3>2
        <4>2. toHost[i].ln \in Nat /\ toHost[i].queued \in Nat
          BY <3>2, <4>1 DEF ToHostMessage, Control
        <4>3. toHost[i].ln - toHost[i].queued <= finished
          BY <1>r, <3>2 DEF IInv, ReportsInOrder, IsReport
        <4> QED BY <1>1, <1>3, <4>2, <4>3
      <3>3. ln - BufferedCmdSize <= finished'
        BY <1>1, <1>3, <3>1 DEF IInv, ReportsInOrder
      <3>4. BufferedCmdSize' = BufferedCmdSize /\ UNCHANGED <<ln, cmdSent, accepted, toHost>>
        BY <1>1, <1>2, <2>1 DEF BufferedCmdSize
      <3> QED
        BY <1>r, <3>2, <3>3, <3>4 DEF IInv, ReportsInOrder
    <2>2. CASE toHost' = Append(toHost, r)
      <3>1. TypeOK /\ ReportsInOrder /\ UNCHANGED <<ln, cmdSent, cmdPadding, accepted>>
        BY <1>1, <1>2 DEF IInv
      <3>2. finished' >= finished /\ Len(accepted') \in Nat /\ Len(accepted') >= Len(accepted)
        BY <1>1, <1>3, <3>1
      <3> QED
        BY <1>3, <1>6, <1>7, <2>2, <3>1, <3>2, <1>r, NewReport
    <2> QED
      BY <1>1, <2>1, <2>2
  <1> QED
    BY <1>1, <1>2, <1>8, <1>9, <1>10, <1>11, <1>12 DEF IInv, NotReady, ExactlyOnceInOrder

\* A line lost on the way to the mainboard preserves IInv.
LEMMA LoseLineStep == ASSUME IInv, LoseLine PROVE IInv'
  <1>1. /\ toMb # <<>> /\ toMb' = Tail(toMb) /\ toHost' = toHost
        /\ UNCHANGED <<hostVars, ownerVars, mbVars>> /\ faults' = [faults EXCEPT !["lose line"] = @ + 1]
    BY DEF LoseLine, Fault
  <1>2. UNCHANGED <<flags, ln, cmdSent, cmdPadding, commandBuffer, owner, issued,
                    expect, accepted, finished>>
    BY <1>1 DEF hostVars, ownerVars, mbVars
  <1>3. TypeOK /\ toMb' \in Seq(ToMbMessage)
    BY <1>1, HeadOfToMb DEF IInv
  <1>4. TypeOK'
    BY <1>1, <1>3, FaultCounted DEF TypeOK, AllFaults, hostVars, ownerVars, mbVars
  <1>5. Queues' /\ SlotIntegrity' /\ LinesOnWire'
    BY <1>1, <1>2, QueuesKept, FewerToMb DEF IInv, queueVars
  <1> QED
    BY <1>1, <1>2, <1>4, <1>5 DEF IInv, NotReady, ExactlyOnceInOrder,
       MainboardCounts, ReportsInOrder, Ready, BufferedCmdSize

\* A reply lost on the way to the controller preserves IInv.
LEMMA LoseReplyStep == ASSUME IInv, LoseReply PROVE IInv'
  <1>r. Ready' = Ready
    BY DEF LoseReply, Fault, hostVars, Ready
  <1>1. /\ toHost # <<>> /\ toHost' = Tail(toHost) /\ toMb' = toMb
        /\ UNCHANGED <<hostVars, ownerVars, mbVars>> /\ faults' = [faults EXCEPT !["lose reply"] = @ + 1]
    BY DEF LoseReply, Fault
  <1>2. UNCHANGED <<flags, ln, cmdSent, cmdPadding, commandBuffer, owner, issued,
                    expect, accepted, finished>>
    BY <1>1 DEF hostVars, ownerVars, mbVars
  <1>3. TypeOK /\ toHost' \in Seq(ToHostMessage)
    BY <1>1, HeadOfToHost DEF IInv
  <1>4. TypeOK'
    BY <1>1, <1>3, FaultCounted DEF TypeOK, AllFaults, hostVars, ownerVars, mbVars
  <1>5. Queues' /\ SlotIntegrity'
    BY <1>2, QueuesKept DEF IInv, queueVars
  <1>6. MainboardCounts' /\ ReportsInOrder'
    BY <1>1, <1>2, <1>r, FewerEnabled, FewerToHost DEF IInv
  <1>7. NotReady' /\ LinesOnWire' /\ ExactlyOnceInOrder'
    <2>1. UNCHANGED <<flags, ln, issued, accepted, toMb>> /\ NotReady /\ LinesOnWire
          /\ ExactlyOnceInOrder
      BY <1>1, <1>2 DEF IInv
    <2>2. NotReady'
      BY <2>1 DEF NotReady
    <2>3. LinesOnWire'
      BY <2>1 DEF LinesOnWire
    <2>4. ExactlyOnceInOrder'
      BY <2>1 DEF ExactlyOnceInOrder
    <2> QED BY <2>2, <2>3, <2>4
  <1> QED
    BY <1>4, <1>5, <1>6, <1>7 DEF IInv

\* The report that the filament ran out preserves IInv.
LEMMA RunoutStep == ASSUME IInv, Runout PROVE IInv'
  <1>r. Ready' = Ready
    BY DEF Runout, Fault, hostVars, Ready
  <1>1. /\ toHost' = Append(toHost, Control("RUNOUT")) /\ toMb' = toMb
        /\ UNCHANGED <<hostVars, ownerVars, mbVars>> /\ faults' = [faults EXCEPT !["runout"] = @ + 1]
    BY DEF Runout, Fault, Reply
  <1>2. UNCHANGED <<flags, ln, cmdSent, cmdPadding, commandBuffer, owner, issued,
                    expect, accepted, finished>>
    BY <1>1 DEF hostVars, ownerVars, mbVars
  <1>3. /\ Control("RUNOUT") \in ToHostMessage /\ ~IsReport(Control("RUNOUT"))
        /\ Control("RUNOUT").type # "ENABLED" /\ TypeOK
    BY ControlTypes DEF IInv
  <1>4. toHost' \in Seq(ToHostMessage)
    BY <1>1, <1>3 DEF TypeOK
  <1>5. TypeOK'
    BY <1>1, <1>3, <1>4, FaultCounted DEF TypeOK, AllFaults, hostVars, ownerVars, mbVars
  <1>6. Queues' /\ SlotIntegrity'
    BY <1>2, QueuesKept DEF IInv, queueVars
  <1>7. MainboardCounts' /\ ReportsInOrder'
    BY <1>1, <1>2, <1>3, <1>r, OtherReply, MoreReplies DEF IInv
  <1> QED
    BY <1>1, <1>2, <1>5, <1>6, <1>7 DEF IInv, NotReady, LinesOnWire, ExactlyOnceInOrder

-----------------------------------------------------------------------------
(* IInv is inductive. *)

\* IInv holds before the owner has called bootstrap.
LEMMA InitIInv == ASSUME Init PROVE IInv
  <1>1. BufSize \in Nat
    BY ConstantsAssumption
  <1>2. TypeOK
    <2>1. \A S : <<>> \in Seq(S)
      BY EmptySeq
    <2>2. commandBuffer \in [0..BufSize-1 -> Lines \cup {NoLine}]
      BY DEF Init
    <2>3. sendRetry \in 0..MaxRetry /\ expect \in Nat \ {0}
      BY ConstantsAssumption DEF Init
    <2>4. toHost \in Seq(ToHostMessage)
      <3>1. LnReply(1, 0) \in ToHostMessage
        BY DEF LnReply, ToHostMessage
      <3>2. <<LnReply(1, 0)>> \in Seq(ToHostMessage)
        BY <3>1
      <3> QED BY <2>1, <3>2 DEF Init
    <2> QED
      BY <2>1, <2>2, <2>3, <2>4 DEF Init, TypeOK
  <1>3. Len(<<>>) = 0
    OBVIOUS
  <1>4. Queues /\ SlotIntegrity /\ NotReady /\ LinesOnWire
    BY <1>1, <1>3 DEF Init, Queues, SlotIntegrity, NotReady, LinesOnWire, BufferedCmdSize
  <1>5. ExactlyOnceInOrder
    <2>1. accepted \in Seq(Command) /\ issued \in Seq(Command)
      BY <1>2 DEF TypeOK
    <2>2. Len(accepted) = 0 /\ Len(issued) = 0
      BY <1>3 DEF Init
    <2>3. Len(accepted) <= Len(issued)
          /\ \A i \in 1..Len(accepted) : accepted[i] = issued[i]
      BY <2>2
    <2> QED BY <2>1, <2>3, PrefixPointwise DEF ExactlyOnceInOrder
  <1>6. MainboardCounts /\ ReportsInOrder
    <2>1. \A i \in 1..Len(toHost) : toHost[i].type # "ENABLED"
      BY <1>3 DEF Init, LnReply
    <2>2. ~Ready
      BY DEF Init, Ready
    <2> QED
      BY <1>3, <2>1, <2>2 DEF Init, MainboardCounts, ReportsInOrder, Ready, BufferedCmdSize
  <1> QED
    BY <1>2, <1>4, <1>5, <1>6 DEF IInv

\* A step that changes nothing the controller, its owner, the wires or the
\* mainboard hold preserves IInv.
LEMMA StutterStep == ASSUME IInv, UNCHANGED vars PROVE IInv'
  <1>1. UNCHANGED <<flags, ln, resendInhibit, expired, sendRetry, cmdSent, cmdPadding,
                    commandBuffer, owner, raised, issued, toMb, toHost, linecheck,
                    expect, accepted, finished, unchecked, faults>>
    BY DEF vars, hostVars, ownerVars, mbVars
  <1>2. TypeOK'
    BY <1>1 DEF IInv, TypeOK
  <1>3. Queues' /\ SlotIntegrity'
    BY <1>1, QueuesKept DEF IInv, queueVars
  <1>4. NotReady' /\ LinesOnWire' /\ ExactlyOnceInOrder'
    BY <1>1 DEF IInv, NotReady, LinesOnWire, ExactlyOnceInOrder
  <1>5. MainboardCounts'
    BY <1>1 DEF IInv, MainboardCounts
  <1>6. ReportsInOrder'
    BY <1>1 DEF IInv, ReportsInOrder, Ready, BufferedCmdSize
  <1> QED
    BY <1>2, <1>3, <1>4, <1>5, <1>6 DEF IInv

\* Every step of the system preserves IInv.
LEMMA NextIInv == ASSUME IInv, [Next]_vars PROVE IInv'
  <1>1. CASE Owner
    BY <1>1, BootstrapStep, SendRawStep, CloseStep, SendCmdStep DEF Owner
  <1>2. CASE Patrol
    BY <1>2, PatrolResendStep, PatrolHelloStep, PatrolOfflineStep DEF Patrol
  <1>3. CASE Elapse
    BY <1>3, ElapseStep
  <1>4. CASE Receive
    BY <1>4, RecvLnStep, RecvLineMismatchStep, RecvChecksumMismatchStep, RecvRunoutStep,
       RecvEnabledStep, RecvDisabledStep, RecvMissingStep, RecvUnknownStep DEF Receive
  <1>5. CASE Mainboard
    BY <1>5, MbRecvC1OStep, MbRecvDisableStep, MbRecvHomeStep, MbRecvTriggerStep,
       MbAcceptStep, MbRejectStep, MbRunUncheckedStep, MbFinishStep DEF Mainboard
  <1>6. CASE Environment
    BY <1>6, LoseLineStep, GarbleLineStep, LoseReplyStep, RunoutStep DEF Environment
  <1>7. CASE UNCHANGED vars
    BY <1>7, StutterStep
  <1> QED
    BY <1>1, <1>2, <1>3, <1>4, <1>5, <1>6, <1>7 DEF Next

-----------------------------------------------------------------------------
(* What IInv gives. *)

\* The inductive invariant holds in every reachable state, whatever the wire
\* loses, damages or delays.
THEOREM Invariance == Spec => []IInv
  <1>1. Init => IInv
    BY InitIInv
  <1>2. IInv /\ [Next]_vars => IInv'
    BY NextIInv
  <1> QED
    BY <1>1, <1>2, PTL DEF Spec

\* Every variable of the controller, the wires and the mainboard keeps its type.
THEOREM TypeCorrect == Spec => []TypeOK
  <1>1. IInv => TypeOK
    BY DEF IInv
  <1> QED
    BY <1>1, Invariance, PTL

\* No send_cmd ever overwrites the ring buffer of a command that may still have
\* to be sent again, for every bufsize of at least 2.
THEOREM RingIsSafe == Spec => []SlotIntegrity
  <1>1. IInv => SlotIntegrity
    BY DEF IInv
  <1> QED
    BY <1>1, Invariance, PTL

\* The mainboard takes the commands of send_cmd in order, each at most once and
\* none skipped, for every number of faults and retries.
THEOREM InOrder == Spec => []ExactlyOnceInOrder
  <1>1. IInv => ExactlyOnceInOrder
    BY DEF IInv
  <1> QED
    BY <1>1, Invariance, PTL

\* A command the mainboard has not accepted is always among those patrol resends.
THEOREM Retransmittable == Spec => []NothingForgotten
  <1>1. ASSUME IInv PROVE NothingForgotten
    <2>1. /\ ln \in Nat /\ Len(cmdSent) \in Nat /\ Len(accepted) \in Nat
          /\ Len(cmdSent) <= ln /\ ln - Len(cmdSent) <= Len(accepted)
          /\ \A i \in 1..Len(cmdSent) : cmdSent[i] = ln - Len(cmdSent) + i
      BY <1>1 DEF IInv, TypeOK, Queues, ReportsInOrder
    <2>2. ASSUME NEW n \in 1..ln, n > Len(accepted)
          PROVE  \E i \in 1..Len(cmdSent) : cmdSent[i] = n
      <3>1. n - (ln - Len(cmdSent)) \in 1..Len(cmdSent)
        BY <2>1, <2>2
      <3>2. cmdSent[n - (ln - Len(cmdSent))] = n
        BY <2>1, <3>1
      <3> QED BY <3>1, <3>2
    <2> QED BY <2>2 DEF NothingForgotten
  <1> QED
    BY <1>1, Invariance, PTL

\* The mainboard is never sent more than bufsize commands it has not finished.
THEOREM FlowControl == Spec => []NoOverrun
  <1>1. ASSUME IInv PROVE NoOverrun
    <2>1. /\ ln \in Nat /\ finished \in Nat /\ BufSize \in Nat
          /\ BufferedCmdSize \in Nat /\ BufferedCmdSize <= BufSize
          /\ Len(issued) = ln /\ ln - BufferedCmdSize <= finished
      BY <1>1, ConstantsAssumption DEF IInv, TypeOK, Queues, ReportsInOrder, Ready, BufferedCmdSize
    <2> QED BY <2>1 DEF NoOverrun
  <1> QED
    BY <1>1, Invariance, PTL

\* The callback on which a job is completed is never early: all that was sent
\* has been executed.
THEOREM DrainedIsDone == Spec => []DrainedMeansDone
  <1>1. ASSUME IInv, owner = "drained" PROVE finished = Len(issued)
    <2>1. /\ ln \in Nat /\ finished \in Nat /\ Len(accepted) \in Nat
          /\ BufferedCmdSize = 0 /\ Len(issued) = ln
          /\ ln - BufferedCmdSize <= finished /\ finished <= Len(accepted)
      BY <1>1 DEF IInv, TypeOK, Queues, ReportsInOrder, MainboardCounts
    <2>2. Len(accepted) <= Len(issued)
      BY <1>1, PrefixPointwise DEF IInv, TypeOK, ExactlyOnceInOrder
    <2> QED BY <2>1, <2>2
  <1>2. IInv => DrainedMeansDone
    BY <1>1 DEF DrainedMeansDone
  <1> QED
    BY <1>2, Invariance, PTL

-----------------------------------------------------------------------------
(* The handshake.  What turns line checking on (C1O) and off follows the    *)
(* same wires as the lines, so a line is checked when the last of the two   *)
(* that is ahead of it turns checking on.                                   *)

\* Line checking is on when n elements of q have been read, if it is now as on says.
Checked(on, q, n) ==
    /\ on \/ \E j \in 1..n : q[j].type = "C1O"
    /\ \A j \in 1..n : q[j].type = "DISABLE" => \E k \in j+1..n : q[k].type = "C1O"

\* It is on when all of q has been read.
EndsOn(on, q) == Checked(on, q, Len(q))

LinesChecked(on, q) == \A i \in 1..Len(q) : q[i].type = "LINE" => Checked(on, q, i - 1)

\* One of the replies i to j of h says that checking was turned off.
Off(h, i, j) == \E k \in i..j : h[k].type = "DISABLED"

\* Before LINECHECK_ENABLED is received: it is not believed too early, since a
\* LINECHECK_DISABLED before it makes the controller say C1O once more.
Settling(on, q, h) ==
    /\ \A j \in 1..Len(h) : h[j].type = "ENABLED" =>
         /\ EndsOn(on, q) \/ Off(h, 1, j)
         /\ \A i \in 1..j : h[i].type = "MISSING" => Off(h, i, j)
    /\ ~on => \A i \in 1..Len(h) : h[i].type = "MISSING" => Off(h, i, Len(h))
    /\ ~on /\ ~EndsOn(on, q) =>
         \/ Off(h, 1, Len(h))
         \/ /\ \A i \in 1..Len(q) : q[i].type # "C1O"
            /\ \A i \in 1..Len(h) : h[i].type # "ENABLED"

Undisturbed == ~Closing /\ faults["lose line"] = 0 /\ faults["lose reply"] = 0

Handshake ==
    Undisturbed =>
    /\ unchecked = 0
    /\ LinesChecked(linecheck, toMb)
    /\ Ready => EndsOn(linecheck, toMb)
    /\ ~Ready => Settling(linecheck, toMb, toHost)

\* What is written behind an element does not change how it is read, and only C1O
\* and its opposite change how what is written next is read.
LEMMA WireGrows ==
    ASSUME NEW on \in BOOLEAN, NEW q, NEW r, Len(q) \in Nat, Len(r) \in Nat,
           Len(q) <= Len(r), \A i \in 1..Len(q) : r[i] = q[i]
    PROVE  /\ (\A i \in Len(q)+1..Len(r) : r[i].type \notin {"C1O", "DISABLE"}) =>
                /\ EndsOn(on, r) <=> EndsOn(on, q)
                /\ LinesChecked(on, q) /\ EndsOn(on, q) => LinesChecked(on, r)
           /\ Len(r) = Len(q) + 1 /\ r[Len(r)].type # "LINE" =>
                (LinesChecked(on, q) => LinesChecked(on, r))
           /\ Len(r) = Len(q) + 1 /\ r[Len(r)].type = "C1O" => EndsOn(on, r)
  <1>1. ASSUME NEW n \in 0..Len(q)
        PROVE  Checked(on, r, n) <=> Checked(on, q, n)
    <2>1. \A j \in 1..n : r[j] = q[j] /\ \A k \in j+1..n : r[k] = q[k]
      OBVIOUS
    <2>2. (\E j \in 1..n : r[j].type = "C1O") <=> \E j \in 1..n : q[j].type = "C1O"
      BY <2>1, Zenon
    <2>3. ASSUME NEW j \in 1..n
          PROVE  /\ r[j].type = q[j].type
                 /\ (\E k \in j+1..n : r[k].type = "C1O") <=>
                      \E k \in j+1..n : q[k].type = "C1O"
      BY <2>1, Zenon
    <2> DEFINE A(x) == on \/ \E j \in 1..n : x[j].type = "C1O"
               B(x) == \A j \in 1..n : x[j].type = "DISABLE" => \E k \in j+1..n : x[k].type = "C1O"
    <2>4. A(r) <=> A(q)
      BY <2>2
    <2>5. B(r) <=> B(q)
      BY <2>3
    <2> QED BY <2>4, <2>5, Zenon DEF Checked
  <1>2. \A i \in 1..Len(q) : i - 1 \in 0..Len(q)
    OBVIOUS
  <1>3. LinesChecked(on, q) => \A i \in 1..Len(q) : r[i].type = "LINE" => Checked(on, r, i - 1)
    BY <1>1, <1>2 DEF LinesChecked
  <1>4. ASSUME \A i \in Len(q)+1..Len(r) : r[i].type \notin {"C1O", "DISABLE"},
               NEW n \in Len(q)..Len(r)
        PROVE  Checked(on, r, n) <=> Checked(on, r, Len(q))
    <2>1. \A j \in 1..n : r[j].type \in {"C1O", "DISABLE"} => j \in 1..Len(q)
      BY <1>4
    <2>2. \A j \in 1..Len(q) : j \in 1..n
      OBVIOUS
    <2>3. (\E j \in 1..n : r[j].type = "C1O") <=> \E j \in 1..Len(q) : r[j].type = "C1O"
      BY <2>1, <2>2
    <2>4. ASSUME NEW j \in 1..Len(q)
          PROVE  (\E k \in j+1..n : r[k].type = "C1O") <=>
                   \E k \in j+1..Len(q) : r[k].type = "C1O"
      <3>1. \A k \in j+1..n : k \in 1..n /\ (k \in 1..Len(q) => k \in j+1..Len(q))
        OBVIOUS
      <3>2. \A k \in j+1..Len(q) : k \in j+1..n
        OBVIOUS
      <3> QED BY <2>1, <3>1, <3>2
    <2> QED BY <2>1, <2>2, <2>3, <2>4 DEF Checked
  <1>5. ASSUME \A i \in Len(q)+1..Len(r) : r[i].type \notin {"C1O", "DISABLE"}
        PROVE  /\ EndsOn(on, r) <=> EndsOn(on, q)
               /\ LinesChecked(on, q) /\ EndsOn(on, q) => LinesChecked(on, r)
    <2>1. Len(r) \in Len(q)..Len(r) /\ Len(q) \in 0..Len(q)
      OBVIOUS
    <2>2. EndsOn(on, r) <=> EndsOn(on, q)
      BY <1>1, <1>4, <1>5, <2>1 DEF EndsOn
    <2>3. \A i \in 1..Len(r) : i \in 1..Len(q) \/ i - 1 \in Len(q)..Len(r)
      OBVIOUS
    <2>4. EndsOn(on, q) => \A n \in Len(q)..Len(r) : Checked(on, r, n)
      BY <1>1, <1>4, <1>5, <2>1 DEF EndsOn
    <2>5. LinesChecked(on, q) /\ EndsOn(on, q) => LinesChecked(on, r)
      BY <1>3, <2>3, <2>4 DEF LinesChecked
    <2> QED BY <2>2, <2>5
  <1>6. ASSUME Len(r) = Len(q) + 1, r[Len(r)].type # "LINE"
        PROVE  LinesChecked(on, q) => LinesChecked(on, r)
    <2>1. \A i \in 1..Len(r) : i \in 1..Len(q) \/ i = Len(r)
      BY <1>6
    <2> QED BY <1>3, <1>6, <2>1 DEF LinesChecked
  <1>7. ASSUME Len(r) = Len(q) + 1, r[Len(r)].type = "C1O"
        PROVE  EndsOn(on, r)
    <2>1. /\ Len(r) \in 1..Len(r)
          /\ \A j \in 1..Len(r) : j = Len(r) \/ Len(r) \in j+1..Len(r)
      BY <1>7
    <2> QED BY <1>7, <2>1 DEF EndsOn, Checked
  <1> QED
    BY <1>5, <1>6, <1>7

\* Reading an element leaves the others to be read as before.
LEMMA WireShrinks ==
    ASSUME NEW on \in BOOLEAN, NEW q, NEW r, Len(r) \in Nat, Len(q) = Len(r) + 1,
           \A i \in 1..Len(r) : r[i] = q[i + 1],
           NEW now \in BOOLEAN,
           now <=> q[1].type = "C1O" \/ (q[1].type # "DISABLE" /\ on)
    PROVE  /\ EndsOn(now, r) <=> EndsOn(on, q)
           /\ LinesChecked(on, q) => LinesChecked(now, r)
  <1>1. ASSUME NEW n \in 0..Len(r)
        PROVE  Checked(now, r, n) <=> Checked(on, q, n + 1)
    <2>1. \A j \in 1..n+1 : j = 1 \/ (j - 1 \in 1..n /\ j = (j - 1) + 1 /\ q[j] = r[j - 1])
      OBVIOUS
    <2>2. 1 \in 1..n+1 /\ \A j \in 1..n : j + 1 \in 1..n+1 /\ j + 1 \in 1+1..n+1 /\ q[j + 1] = r[j]
      OBVIOUS
    <2>3. \A k \in 1+1..n+1 : k - 1 \in 1..n /\ q[k] = r[k - 1]
      OBVIOUS
    <2>4. (\E k \in 1+1..n+1 : q[k].type = "C1O") <=> \E j \in 1..n : r[j].type = "C1O"
      <3>1. ASSUME NEW k \in 1+1..n+1, q[k].type = "C1O"
            PROVE  \E j \in 1..n : r[j].type = "C1O"
        BY <2>3, <3>1
      <3>2. ASSUME NEW j \in 1..n, r[j].type = "C1O"
            PROVE  \E k \in 1+1..n+1 : q[k].type = "C1O"
        BY <2>2, <3>2
      <3> QED BY <3>1, <3>2, Zenon
    <2>5. (\E j \in 1..n+1 : q[j].type = "C1O") <=>
             q[1].type = "C1O" \/ \E j \in 1..n : r[j].type = "C1O"
      <3>1. ASSUME NEW j \in 1..n+1, q[j].type = "C1O"
            PROVE  q[1].type = "C1O" \/ \E k \in 1..n : r[k].type = "C1O"
        BY <2>1, <3>1
      <3>2. ASSUME NEW j \in 1..n, r[j].type = "C1O"
            PROVE  \E k \in 1..n+1 : q[k].type = "C1O"
        BY <2>2, <3>2
      <3> QED BY <2>2, <3>1, <3>2
    <2>6. ASSUME NEW j \in 1..n
          PROVE  (\E k \in j+1..n : r[k].type = "C1O") <=>
                   \E k \in (j+1)+1..n+1 : q[k].type = "C1O"
      <3>1. \A k \in j+1..n : k + 1 \in (j+1)+1..n+1 /\ q[k + 1] = r[k]
        OBVIOUS
      <3>2. \A k \in (j+1)+1..n+1 : k - 1 \in j+1..n /\ q[k] = r[k - 1]
        OBVIOUS
      <3>3. ASSUME NEW k \in j+1..n, r[k].type = "C1O"
            PROVE  \E i \in (j+1)+1..n+1 : q[i].type = "C1O"
        BY <3>1, <3>3
      <3>4. ASSUME NEW k \in (j+1)+1..n+1, q[k].type = "C1O"
            PROVE  \E i \in j+1..n : r[i].type = "C1O"
        BY <3>2, <3>4
      <3> QED BY <3>3, <3>4, Zenon
    <2> DEFINE Reopens(j) == q[j].type = "DISABLE" => \E k \in j+1..n+1 : q[k].type = "C1O"
    <2>7. (\A j \in 1..n+1 : Reopens(j)) <=> Reopens(1) /\ \A j \in 1..n : Reopens(j + 1)
      <3> HIDE DEF Reopens
      <3>1. ASSUME Reopens(1), \A j \in 1..n : Reopens(j + 1), NEW j \in 1..n+1
            PROVE  Reopens(j)
        <4>1. CASE j = 1
          BY <3>1, <4>1
        <4>2. CASE j - 1 \in 1..n /\ j = (j - 1) + 1
          <5>1. Reopens((j - 1) + 1)
            BY <3>1, <4>2
          <5> QED BY <4>2, <5>1, Zenon
        <4> QED BY <2>1, <4>1, <4>2
      <3> QED BY <2>2, <3>1
    <2>8. (\A j \in 1..n : Reopens(j + 1)) <=>
             \A j \in 1..n : r[j].type = "DISABLE" => \E k \in j+1..n : r[k].type = "C1O"
      BY <2>2, <2>6
    <2>9. Checked(on, q, n + 1) <=>
             /\ on \/ \E j \in 1..n+1 : q[j].type = "C1O"
             /\ \A j \in 1..n+1 : Reopens(j)
      BY Zenon DEF Checked
    <2>10. Reopens(1) <=> (q[1].type = "DISABLE" => \E j \in 1..n : r[j].type = "C1O")
      BY <2>4
    <2> HIDE DEF Reopens
    <2>11. Checked(now, r, n) <=>
             /\ now \/ \E j \in 1..n : r[j].type = "C1O"
             /\ \A j \in 1..n : Reopens(j + 1)
      BY <2>8, Zenon DEF Checked
    <2>12. q[1].type # "C1O" \/ q[1].type # "DISABLE"
      OBVIOUS
    <2> QED
      BY <2>5, <2>7, <2>9, <2>10, <2>11, <2>12
  <1>2. Len(r) \in 0..Len(r)
    OBVIOUS
  <1>3. \A i \in 1..Len(r) : i - 1 \in 0..Len(r) /\ i + 1 \in 1..Len(q) /\ (i + 1) - 1 = (i - 1) + 1
    OBVIOUS
  <1>4. ASSUME LinesChecked(on, q), NEW i \in 1..Len(r), r[i].type = "LINE"
        PROVE  Checked(now, r, i - 1)
    <2>1. Checked(on, q, (i + 1) - 1)
      BY <1>3, <1>4 DEF LinesChecked
    <2>2. Checked(on, q, (i - 1) + 1)
      BY <1>3, <2>1
    <2> QED BY <1>1, <1>3, <2>2
  <1>5. EndsOn(now, r) <=> EndsOn(on, q)
    BY <1>1, <1>2 DEF EndsOn
  <1> QED
    BY <1>4, <1>5 DEF LinesChecked

\* Every element of a queue with the first one taken is an element of the queue.
LEMMA Shifted ==
    ASSUME NEW h, NEW t, Len(t) \in Nat, Len(h) = Len(t) + 1,
           \A i \in 1..Len(t) : t[i] = h[i + 1], h[1].type # "DISABLED",
           NEW i \in 1..Len(t), NEW j \in 1..Len(t)
    PROVE  /\ Off(h, i + 1, j + 1) => Off(t, i, j)
           /\ Off(h, 1, j + 1) => Off(t, 1, j)
  <1>1. \A k \in 1..j+1 : k = 1 \/ (k - 1 \in 1..j /\ h[k] = t[k - 1])
    OBVIOUS
  <1>2. ASSUME NEW k \in i+1..j+1
        PROVE  k - 1 \in i..j /\ h[k] = t[k - 1]
    <2>1. k - 1 \in i..j /\ k - 1 \in 1..Len(t) /\ (k - 1) + 1 = k
      OBVIOUS
    <2> QED BY <2>1
  <1> QED BY <1>1, <1>2 DEF Off

\* A report read, other than LINECHECK_DISABLED, and the answer that turns checking
\* off when it said that a line had been missed.
LEMMA SettlingRead ==
    ASSUME NEW on \in BOOLEAN, NEW q, NEW h, NEW t, Len(t) \in Nat, Len(h) = Len(t) + 1,
           \A i \in 1..Len(t) : t[i] = h[i + 1], h[1].type # "DISABLED",
           Settling(on, q, h)
    PROVE  /\ Settling(on, q, t)
           /\ h[1].type = "MISSING" => \A p : Settling(on, p, t)
  <1>1. /\ 1 \in 1..Len(h)
        /\ \A j \in 1..Len(t) : j + 1 \in 1..Len(h) /\ \A i \in 1..j : i + 1 \in 1..j+1 /\ i \in 1..Len(t)
        /\ Len(t) # 0 => Len(t) \in 1..Len(t)
        /\ \A j \in 1..Len(t) : 1 \in 1..j+1
    OBVIOUS
  <1>2. ASSUME NEW j \in 1..Len(t), t[j].type = "ENABLED"
        PROVE  /\ EndsOn(on, q) \/ Off(t, 1, j)
               /\ h[1].type = "MISSING" => Off(t, 1, j)
               /\ \A i \in 1..j : t[i].type = "MISSING" => Off(t, i, j)
    <2>1. j + 1 \in 1..Len(h) /\ h[j + 1].type = "ENABLED"
      BY <1>1, <1>2
    <2>2. /\ EndsOn(on, q) \/ Off(h, 1, j + 1)
          /\ h[1].type = "MISSING" => Off(h, 1, j + 1)
          /\ \A i \in 1..j : h[i + 1].type = "MISSING" => Off(h, i + 1, j + 1)
      BY <2>1, <1>1 DEF Settling
    <2>3. \A i \in 1..j : Off(h, i + 1, j + 1) => Off(t, i, j)
      BY <1>1, Shifted
    <2>4. Off(h, 1, j + 1) => Off(t, 1, j)
      BY <1>1, Shifted
    <2> QED BY <2>2, <2>3, <2>4, <1>1
  <1>3. ~on => \A i \in 1..Len(t) : t[i].type = "MISSING" => Off(t, i, Len(t))
    <2>1. ASSUME ~on, NEW i \in 1..Len(t), t[i].type = "MISSING"
          PROVE  Off(t, i, Len(t))
      <3>1. i + 1 \in 1..Len(h) /\ h[i + 1].type = "MISSING" /\ Len(t) \in 1..Len(t)
        BY <1>1, <2>1
      <3>2. Off(h, i + 1, Len(t) + 1)
        BY <2>1, <3>1 DEF Settling
      <3> QED BY <3>1, <3>2, Shifted
    <2> QED BY <2>1
  <1>4. Off(h, 1, Len(h)) => Off(t, 1, Len(t))
    <2>1. CASE Len(t) # 0
      BY <2>1, <1>1, Shifted
    <2>2. CASE Len(t) = 0
      <3>1. \A k \in 1..Len(h) : k = 1
        BY <2>2
      <3> QED BY <3>1 DEF Off
    <2> QED BY <2>1, <2>2
  <1>5. ~on /\ ~EndsOn(on, q) =>
          \/ Off(t, 1, Len(t))
          \/ /\ \A i \in 1..Len(q) : q[i].type # "C1O"
             /\ \A i \in 1..Len(t) : t[i].type # "ENABLED"
    BY <1>1, <1>4 DEF Settling
  <1>6. ~on /\ h[1].type = "MISSING" => Off(t, 1, Len(t))
    BY <1>1, <1>4 DEF Settling
  <1>7. Settling(on, q, t)
    BY <1>2, <1>3, <1>5 DEF Settling
  <1>8. ASSUME h[1].type = "MISSING", NEW p
        PROVE  Settling(on, p, t)
    BY <1>2, <1>3, <1>6, <1>8 DEF Settling
  <1> QED BY <1>7, <1>8

\* LINECHECK_DISABLED read, to which the controller says C1O.
LEMMA SettlingReopened ==
    ASSUME NEW on \in BOOLEAN, NEW q, NEW h, NEW t, Len(t) \in Nat, Len(h) = Len(t) + 1,
           \A i \in 1..Len(t) : t[i] = h[i + 1],
           Settling(on, q, h), NEW r, EndsOn(on, r)
    PROVE  Settling(on, r, t)
  <1>1. ASSUME NEW i \in 1..Len(t), NEW j \in 1..Len(t), Off(h, i + 1, j + 1)
        PROVE  Off(t, i, j)
    <2>1. \A k \in i+1..j+1 : k - 1 \in i..j /\ h[k] = t[k - 1]
      OBVIOUS
    <2> QED BY <1>1, <2>1 DEF Off
  <1>2. ASSUME NEW j \in 1..Len(t), t[j].type = "ENABLED", NEW i \in 1..j, t[i].type = "MISSING"
        PROVE  Off(t, i, j)
    <2>1. /\ j + 1 \in 1..Len(h) /\ h[j + 1].type = "ENABLED" /\ i \in 1..Len(t)
          /\ i + 1 \in 1..j+1 /\ h[i + 1].type = "MISSING"
      BY <1>2
    <2>2. Off(h, i + 1, j + 1)
      BY <2>1 DEF Settling
    <2> QED BY <1>1, <2>1, <2>2
  <1>3. ASSUME ~on, NEW i \in 1..Len(t), t[i].type = "MISSING"
        PROVE  Off(t, i, Len(t))
    <2>1. /\ i + 1 \in 1..Len(h) /\ h[i + 1].type = "MISSING" /\ Len(t) \in 1..Len(t)
      BY <1>3
    <2>2. Off(h, i + 1, Len(t) + 1)
      BY <1>3, <2>1 DEF Settling
    <2> QED BY <1>1, <2>1, <2>2
  <1> QED BY <1>2, <1>3 DEF Settling

\* A change of the other wire that leaves open how it ends and adds no C1O.
LEMMA SettlingElsewhere ==
    ASSUME NEW on \in BOOLEAN, NEW q, NEW h, Settling(on, q, h), NEW r,
           EndsOn(on, r) <=> EndsOn(on, q),
           (\A i \in 1..Len(q) : q[i].type # "C1O") => \A i \in 1..Len(r) : r[i].type # "C1O"
    PROVE  Settling(on, r, h)
  BY DEF Settling

\* What h says, a longer t says as well.
LEMMA Grown ==
    ASSUME NEW h, NEW t, Len(h) \in Nat, Len(t) = Len(h) + 1,
           \A i \in 1..Len(h) : t[i] = h[i]
    PROVE  /\ \A i, j \in 1..Len(h) :
                /\ Off(h, i, j) => Off(t, i, j)
                /\ Off(h, 1, j) => Off(t, 1, j)
                /\ Off(h, i, Len(h)) => Off(t, i, Len(t))
           /\ Off(h, 1, Len(h)) => Off(t, 1, Len(t))
  <1>2. ASSUME NEW i \in 1..Len(h), NEW j \in 1..Len(h)
        PROVE  /\ Off(h, i, j) => Off(t, i, j)
               /\ Off(h, 1, j) => Off(t, 1, j)
               /\ Off(h, i, Len(h)) => Off(t, i, Len(t))
    <2>1. /\ \A k \in i..j : t[k] = h[k]
          /\ \A k \in 1..j : t[k] = h[k]
          /\ \A k \in i..Len(h) : k \in i..Len(t) /\ t[k] = h[k]
      OBVIOUS
    <2> QED BY <2>1, Zenon DEF Off
  <1>3. Off(h, 1, Len(h)) => Off(t, 1, Len(t))
    <2>1. \A k \in 1..Len(h) : k \in 1..Len(t) /\ t[k] = h[k]
      OBVIOUS
    <2> QED BY <2>1, Zenon DEF Off
  <1> QED BY <1>2, <1>3

\* A reply that is neither LINECHECK_ENABLED nor, from a mainboard with checking
\* off, a missed line.
LEMMA SettlingReply ==
    ASSUME NEW on \in BOOLEAN, NEW q, NEW h, NEW t, Settling(on, q, h),
           Len(h) \in Nat, Len(t) = Len(h) + 1, \A i \in 1..Len(h) : t[i] = h[i],
           t[Len(t)].type # "ENABLED", t[Len(t)].type = "MISSING" => on
    PROVE  Settling(on, q, t)
  <1>1. \A i \in 1..Len(t) : i \in 1..Len(h) \/ i = Len(t)
    OBVIOUS
  <1>2. /\ \A i, j \in 1..Len(h) :
             Off(h, i, j) => Off(t, i, j)
        /\ \A i \in 1..Len(h) : Off(h, i, Len(h)) => Off(t, i, Len(t))
        /\ \A j \in 1..Len(h) : Off(h, 1, j) => Off(t, 1, j)
    BY Grown
  <1>3. Off(h, 1, Len(h)) => Off(t, 1, Len(t))
    BY Grown
  <1>4. ASSUME NEW j \in 1..Len(t), t[j].type = "ENABLED"
        PROVE  /\ EndsOn(on, q) \/ Off(t, 1, j)
               /\ \A i \in 1..j : t[i].type = "MISSING" => Off(t, i, j)
    <2>1. j \in 1..Len(h) /\ h[j].type = "ENABLED"
      BY <1>1, <1>4
    <2>2. \A i \in 1..j : i \in 1..Len(h) /\ t[i] = h[i]
      BY <2>1
    <2> QED BY <1>2, <2>1, <2>2 DEF Settling
  <1>5. ~on => \A i \in 1..Len(t) : t[i].type = "MISSING" => Off(t, i, Len(t))
    <2>1. ASSUME ~on, NEW i \in 1..Len(t), t[i].type = "MISSING"
          PROVE  Off(t, i, Len(t))
      <3>1. i \in 1..Len(h) /\ h[i].type = "MISSING"
        BY <1>1, <2>1
      <3> QED BY <1>2, <2>1, <3>1 DEF Settling
    <2> QED BY <2>1
  <1>6. ~on /\ ~EndsOn(on, q) =>
          \/ Off(t, 1, Len(t))
          \/ /\ \A i \in 1..Len(q) : q[i].type # "C1O"
             /\ \A i \in 1..Len(t) : t[i].type # "ENABLED"
    BY <1>1, <1>3 DEF Settling
  <1> QED BY <1>4, <1>5, <1>6 DEF Settling

\* The mainboard reads C1O.
LEMMA SettlingOpened ==
    ASSUME NEW on \in BOOLEAN, NEW q, NEW r, NEW h, NEW t, Settling(on, q, h),
           1 \in 1..Len(q), q[1].type = "C1O", EndsOn(TRUE, r) <=> EndsOn(on, q),
           Len(h) \in Nat, Len(t) = Len(h) + 1, \A i \in 1..Len(h) : t[i] = h[i],
           t[Len(t)].type = IF on THEN "MISSING" ELSE "ENABLED"
    PROVE  Settling(TRUE, r, t)
  <1>1. \A i \in 1..Len(t) : i \in 1..Len(h) \/ i = Len(t)
    OBVIOUS
  <1>2. ASSUME NEW j \in 1..Len(h), t[j].type = "ENABLED"
        PROVE  /\ EndsOn(TRUE, r) \/ Off(t, 1, j)
               /\ \A i \in 1..j : t[i].type = "MISSING" => Off(t, i, j)
    <2>1. h[j].type = "ENABLED" /\ \A i \in 1..j : t[i] = h[i]
      BY <1>2
    <2>2. \A i \in 1..j : (Off(h, i, j) => Off(t, i, j)) /\ (Off(h, 1, j) => Off(t, 1, j))
      <3>1. \A i \in 1..j : i \in 1..Len(h)
        OBVIOUS
      <3> QED BY <3>1, Grown
    <2>4. 1 \in 1..j
      OBVIOUS
    <2>3. /\ EndsOn(TRUE, r) \/ Off(h, 1, j)
          /\ \A i \in 1..j : h[i].type = "MISSING" => Off(h, i, j)
      BY <2>1 DEF Settling
    <2> QED BY <2>1, <2>2, <2>3, <2>4, Zenon
  <1>3. ASSUME ~on
        PROVE  /\ EndsOn(TRUE, r) \/ Off(t, 1, Len(t))
               /\ \A i \in 1..Len(t) : t[i].type = "MISSING" => Off(t, i, Len(t))
    <2>1. \A i \in 1..Len(h) : Off(h, i, Len(h)) => Off(t, i, Len(t))
      BY Grown
    <2>2. Off(h, 1, Len(h)) => Off(t, 1, Len(t))
      BY Grown
    <2>3. EndsOn(TRUE, r) \/ Off(h, 1, Len(h))
      BY <1>3 DEF Settling
    <2>4. \A i \in 1..Len(t) : t[i].type = "MISSING" => i \in 1..Len(h) /\ h[i].type = "MISSING"
      BY <1>1, <1>3
    <2>5. \A i \in 1..Len(h) : h[i].type = "MISSING" => Off(h, i, Len(h))
      BY <1>3 DEF Settling
    <2> QED BY <2>1, <2>2, <2>3, <2>4, <2>5, Zenon
  <1>4. ASSUME NEW j \in 1..Len(t), t[j].type = "ENABLED"
        PROVE  /\ EndsOn(TRUE, r) \/ Off(t, 1, j)
               /\ \A i \in 1..j : t[i].type = "MISSING" => Off(t, i, j)
    <2>1. CASE j \in 1..Len(h)
      BY <1>2, <1>4, <2>1
    <2>2. CASE j = Len(t)
      BY <1>3, <1>4, <2>2
    <2> QED BY <1>1, <2>1, <2>2
  <1> QED BY <1>4 DEF Settling

\* The mainboard turns checking off.
LEMMA SettlingClosed ==
    ASSUME NEW on \in BOOLEAN, NEW q, NEW r, NEW h, NEW t, Settling(on, q, h),
           EndsOn(FALSE, r) <=> EndsOn(on, q),
           Len(h) \in Nat, Len(t) = Len(h) + 1, \A i \in 1..Len(h) : t[i] = h[i],
           t[Len(t)].type = "DISABLED"
    PROVE  Settling(FALSE, r, t)
  <1>1. \A i \in 1..Len(t) : i \in 1..Len(h) \/ i = Len(t)
    OBVIOUS
  <1>2. \A i \in 1..Len(t) : Off(t, i, Len(t))
    <2>1. \A i \in 1..Len(t) : Len(t) \in i..Len(t)
      OBVIOUS
    <2> QED BY <2>1 DEF Off
  <1>3. 1 \in 1..Len(t)
    OBVIOUS
  <1>4. ASSUME NEW j \in 1..Len(t), t[j].type = "ENABLED"
        PROVE  /\ EndsOn(FALSE, r) \/ Off(t, 1, j)
               /\ \A i \in 1..j : t[i].type = "MISSING" => Off(t, i, j)
    <2>0. j \in 1..Len(h)
      BY <1>1, <1>4
    <2>1. h[j].type = "ENABLED" /\ \A i \in 1..j : t[i] = h[i]
      BY <1>4, <2>0
    <2>2. \A i \in 1..j : (Off(h, i, j) => Off(t, i, j)) /\ (Off(h, 1, j) => Off(t, 1, j))
      <3>1. \A i \in 1..j : i \in 1..Len(h)
        BY <2>0
      <3> QED BY <2>0, <3>1, Grown
    <2>4. 1 \in 1..j
      OBVIOUS
    <2>3. /\ EndsOn(FALSE, r) \/ Off(h, 1, j)
          /\ \A i \in 1..j : h[i].type = "MISSING" => Off(h, i, j)
      BY <2>0, <2>1 DEF Settling
    <2> QED BY <2>1, <2>2, <2>3, <2>4, Zenon
  <1> QED BY <1>2, <1>3, <1>4 DEF Settling

\* What a step that reads, or writes to, one of the wires means for its elements.
LEMMA WireFacts ==
    ASSUME TypeOK
    PROVE  /\ Len(toMb) \in Nat /\ Len(toHost) \in Nat /\ linecheck \in BOOLEAN
           /\ toMb # <<>> => /\ Len(Tail(toMb)) \in Nat /\ Len(toMb) = Len(Tail(toMb)) + 1
                             /\ \A i \in 1..Len(Tail(toMb)) : Tail(toMb)[i] = toMb[i + 1]
                             /\ Head(toMb) = toMb[1] /\ 1 \in 1..Len(toMb)
           /\ toHost # <<>> => /\ Len(Tail(toHost)) \in Nat /\ Len(toHost) = Len(Tail(toHost)) + 1
                               /\ \A i \in 1..Len(Tail(toHost)) : Tail(toHost)[i] = toHost[i + 1]
                               /\ Head(toHost) = toHost[1] /\ 1 \in 1..Len(toHost)
           /\ \A m : /\ Len(Append(toMb, m)) = Len(toMb) + 1
                     /\ \A i \in 1..Len(toMb) : Append(toMb, m)[i] = toMb[i]
                     /\ Append(toMb, m)[Len(toMb) + 1] = m
           /\ \A m : /\ Len(Append(toHost, m)) = Len(toHost) + 1
                     /\ \A i \in 1..Len(toHost) : Append(toHost, m)[i] = toHost[i]
                     /\ Append(toHost, m)[Len(toHost) + 1] = m
  BY DEF TypeOK

\* Steps that touch neither the wires nor what the handshake is about.
LEMMA HandshakeKept ==
    ASSUME Handshake, UNCHANGED <<toMb, toHost, linecheck, unchecked>>,
           Ready' <=> Ready, Undisturbed' => Undisturbed
    PROVE  Handshake'
  <1>1. /\ toMb' = toMb /\ toHost' = toHost /\ linecheck' = linecheck
        /\ unchecked' = unchecked
    OBVIOUS
  <1> QED
    BY <1>1 DEF Handshake

\* Writing C1O.
LEMMA HandshakeC1O ==
    ASSUME TypeOK, Handshake, toMb' = Append(toMb, Control("C1O")),
           UNCHANGED <<flags, linecheck, unchecked, faults>>,
           \/ toHost' = toHost
           \/ toHost # <<>> /\ toHost' = Tail(toHost)
    PROVE  Handshake'
  <1> DEFINE r == Append(toMb, Control("C1O"))
  <1>1. /\ Len(r) \in Nat /\ Len(toMb) <= Len(r) /\ Len(r) = Len(toMb) + 1
        /\ \A i \in 1..Len(toMb) : r[i] = toMb[i]
        /\ r[Len(r)].type = "C1O" /\ r[Len(r)].type # "LINE"
    BY WireFacts DEF Control
  <1> HIDE DEF r
  <1>2. /\ EndsOn(linecheck, r)
        /\ LinesChecked(linecheck, toMb) => LinesChecked(linecheck, r)
    BY <1>1, WireFacts, WireGrows
  <1>3. Settling(linecheck, toMb, toHost) => Settling(linecheck, r, toHost)
    BY <1>2 DEF Settling
  <1>4. Settling(linecheck, toMb, toHost) /\ toHost # <<>> =>
          Settling(linecheck, r, Tail(toHost))
    BY <1>2, WireFacts, SettlingReopened
  <1>5. Undisturbed' = Undisturbed /\ Ready' = Ready
    BY DEF Undisturbed, Ready, Closing
  <1>6. toMb' = r /\ linecheck' = linecheck
    BY DEF r
  <1> QED
    BY <1>2, <1>3, <1>4, <1>5, <1>6 DEF Handshake

\* Writing anything that turns checking neither on nor off: lines only once the
\* controller is ready.
LEMMA HandshakeWrite ==
    ASSUME TypeOK, Handshake, Len(toMb') \in Nat, Len(toMb) <= Len(toMb'),
           \A i \in 1..Len(toMb) : toMb'[i] = toMb[i],
           \A i \in Len(toMb)+1..Len(toMb') : toMb'[i].type \notin {"C1O", "DISABLE"},
           UNCHANGED <<flags, linecheck, unchecked, faults>>,
           \/ Ready
           \/ /\ toHost' = toHost
              /\ Len(toMb') = Len(toMb) + 1 /\ toMb'[Len(toMb')].type # "LINE"
    PROVE  Handshake'
  <1> DEFINE r == toMb'
  <1>1. Len(toMb) \in Nat /\ linecheck \in BOOLEAN
    BY WireFacts
  <1>2. /\ EndsOn(linecheck, r) <=> EndsOn(linecheck, toMb)
        /\ LinesChecked(linecheck, toMb) /\ EndsOn(linecheck, toMb) => LinesChecked(linecheck, r)
        /\ Len(r) = Len(toMb) + 1 /\ r[Len(r)].type # "LINE" =>
             (LinesChecked(linecheck, toMb) => LinesChecked(linecheck, r))
    BY <1>1, WireGrows
  <1>3. ASSUME \A i \in 1..Len(toMb) : toMb[i].type # "C1O"
        PROVE  \A i \in 1..Len(r) : r[i].type # "C1O"
    <2>1. \A i \in 1..Len(r) : i \in 1..Len(toMb) \/ i \in Len(toMb)+1..Len(r)
      BY <1>1
    <2> QED BY <1>3, <2>1
  <1>4. Settling(linecheck, toMb, toHost) => Settling(linecheck, r, toHost)
    BY <1>1, <1>2, <1>3, SettlingElsewhere
  <1>5. Undisturbed' = Undisturbed /\ Ready' = Ready /\ linecheck' = linecheck
    BY DEF Undisturbed, Ready, Closing
  <1> QED
    BY <1>2, <1>4, <1>5 DEF Handshake

\* Reading a report that changes nothing, or the end of the handshake.
LEMMA HandshakeRead ==
    ASSUME TypeOK, Handshake, toHost # <<>>, toHost' = Tail(toHost),
           UNCHANGED <<toMb, linecheck, unchecked, faults>>,
           Closing' = Closing, Ready => Ready',
           ~Ready' => Head(toHost).type # "DISABLED",
           Ready' => Ready \/ Head(toHost).type = "ENABLED"
    PROVE  Handshake'
  <1>1. Settling(linecheck, toMb, toHost) /\ ~Ready' => Settling(linecheck, toMb, Tail(toHost))
    <2> DEFINE t == Tail(toHost)
    <2>1. /\ linecheck \in BOOLEAN /\ Len(t) \in Nat /\ Len(toHost) = Len(t) + 1
          /\ \A i \in 1..Len(t) : t[i] = toHost[i + 1]
          /\ ~Ready' => toHost[1].type # "DISABLED"
      BY WireFacts
    <2> HIDE DEF t
    <2>2. Settling(linecheck, toMb, toHost) /\ ~Ready' => Settling(linecheck, toMb, t)
      BY <2>1, SettlingRead
    <2> QED BY <2>2 DEF t
  <1>2. ASSUME Settling(linecheck, toMb, toHost), Head(toHost).type = "ENABLED"
        PROVE  EndsOn(linecheck, toMb)
    <2>1. 1 \in 1..Len(toHost) /\ toHost[1].type = "ENABLED"
      BY <1>2, WireFacts
    <2>2. ~Off(toHost, 1, 1)
      BY <2>1 DEF Off
    <2> QED BY <1>2, <2>1, <2>2 DEF Settling
  <1>3. toMb' = toMb /\ linecheck' = linecheck /\ unchecked' = unchecked
    OBVIOUS
  <1>4. Undisturbed' = Undisturbed
    BY DEF Undisturbed
  <1> QED
    BY <1>1, <1>2, <1>3, <1>4 DEF Handshake

\* The mainboard reports what it has done.
LEMMA HandshakeReported ==
    ASSUME TypeOK, Handshake, NEW m, toHost' = Append(toHost, m),
           m.type \notin {"ENABLED", "MISSING"},
           UNCHANGED <<flags, toMb, linecheck, unchecked>>, Undisturbed' => Undisturbed
    PROVE  Handshake'
  <1> DEFINE t == Append(toHost, m)
  <1>0. /\ linecheck \in BOOLEAN /\ Len(toHost) \in Nat /\ Len(t) = Len(toHost) + 1
        /\ \A i \in 1..Len(toHost) : t[i] = toHost[i]
        /\ t[Len(t)].type # "ENABLED" /\ (t[Len(t)].type = "MISSING" => linecheck)
    BY WireFacts
  <1>3. toHost' = t
    OBVIOUS
  <1> HIDE DEF t
  <1>1. Settling(linecheck, toMb, toHost) => Settling(linecheck, toMb, t)
    BY <1>0, SettlingReply
  <1>2. toMb' = toMb /\ linecheck' = linecheck /\ unchecked' = unchecked /\ Ready' = Ready
    BY DEF Ready
  <1> QED
    BY <1>1, <1>2, <1>3 DEF Handshake

\* The mainboard reads a message and may reply.
LEMMA HandshakeServed ==
    ASSUME TypeOK, Handshake, toMb # <<>>, toMb' = Tail(toMb),
           UNCHANGED <<flags, unchecked>>, Undisturbed' => Undisturbed, linecheck' \in BOOLEAN,
           linecheck' <=> Head(toMb).type = "C1O" \/ (Head(toMb).type # "DISABLE" /\ linecheck),
           \/ /\ toHost' = toHost
              /\ Head(toMb).type \notin {"C1O", "DISABLE"}
           \/ \E m : /\ toHost' = Append(toHost, m)
                     /\ CASE Head(toMb).type = "C1O" ->
                               m.type = IF linecheck THEN "MISSING" ELSE "ENABLED"
                          [] Head(toMb).type = "DISABLE" -> m.type = "DISABLED"
                          [] OTHER -> m.type # "ENABLED" /\ (m.type = "MISSING" => linecheck)
    PROVE  Handshake'
  <1> DEFINE on == linecheck'
             q == Tail(toMb)
             h == toHost'
  <1>0. /\ Len(toMb) \in Nat /\ Len(toHost) \in Nat /\ linecheck \in BOOLEAN /\ on \in BOOLEAN
        /\ Len(q) \in Nat /\ Len(toMb) = Len(q) + 1
        /\ \A i \in 1..Len(q) : q[i] = toMb[i + 1]
        /\ Head(toMb) = toMb[1] /\ 1 \in 1..Len(toMb)
    BY WireFacts
  <1>1. on <=> toMb[1].type = "C1O" \/ (toMb[1].type # "DISABLE" /\ linecheck)
    BY <1>0
  <1>2. toMb' = q /\ (Undisturbed' => Undisturbed) /\ Ready' = Ready
    BY DEF Ready
  <1> HIDE DEF q
  <1>3. /\ EndsOn(on, q) <=> EndsOn(linecheck, toMb)
        /\ LinesChecked(linecheck, toMb) => LinesChecked(on, q)
    BY <1>0, <1>1, WireShrinks
  <1>4. ASSUME Settling(linecheck, toMb, toHost), NEW m, toHost' = Append(toHost, m)
        PROVE  /\ Len(h) = Len(toHost) + 1 /\ h[Len(h)] = m
               /\ \A i \in 1..Len(toHost) : h[i] = toHost[i]
    BY <1>4, WireFacts
  <1>5. ASSUME Settling(linecheck, toMb, toHost), Head(toMb).type = "C1O"
        PROVE  Settling(on, q, h)
    <2>1. PICK m : toHost' = Append(toHost, m)
                   /\ m.type = IF linecheck THEN "MISSING" ELSE "ENABLED"
      BY <1>5
    <2>2. /\ Len(h) = Len(toHost) + 1 /\ \A i \in 1..Len(toHost) : h[i] = toHost[i]
          /\ h[Len(h)].type = IF linecheck THEN "MISSING" ELSE "ENABLED"
      BY <1>4, <1>5, <2>1
    <2>3. on = TRUE /\ toMb[1].type = "C1O"
      BY <1>0, <1>1, <1>5
    <2>4. EndsOn(TRUE, q) <=> EndsOn(linecheck, toMb)
      BY <1>3, <2>3
    <2>5. Settling(TRUE, q, h)
      BY <1>0, <1>5, <2>2, <2>3, <2>4, SettlingOpened
    <2> QED BY <2>3, <2>5
  <1>6. ASSUME Settling(linecheck, toMb, toHost), Head(toMb).type = "DISABLE"
        PROVE  Settling(on, q, h)
    <2>1. PICK m : toHost' = Append(toHost, m) /\ m.type = "DISABLED"
      BY <1>6
    <2>2. /\ Len(h) = Len(toHost) + 1 /\ \A i \in 1..Len(toHost) : h[i] = toHost[i]
          /\ h[Len(h)].type = "DISABLED"
      BY <1>4, <1>6, <2>1
    <2>3. on = FALSE
      BY <1>0, <1>1, <1>6
    <2>4. EndsOn(FALSE, q) <=> EndsOn(linecheck, toMb)
      BY <1>3, <2>3
    <2>5. Settling(FALSE, q, h)
      BY <1>0, <1>6, <2>2, <2>4, SettlingClosed
    <2> QED BY <2>3, <2>5
  <1>7. ASSUME Settling(linecheck, toMb, toHost), Head(toMb).type \notin {"C1O", "DISABLE"}
        PROVE  Settling(on, q, h)
    <2>1. on = linecheck
      BY <1>0, <1>1, <1>7
    <2>2. ASSUME \A i \in 1..Len(toMb) : toMb[i].type # "C1O"
          PROVE  \A i \in 1..Len(q) : q[i].type # "C1O"
      <3>1. \A i \in 1..Len(q) : i + 1 \in 1..Len(toMb)
        BY <1>0
      <3> QED BY <1>0, <2>2, <3>1
    <2>3. Settling(linecheck, q, toHost)
      BY <1>0, <1>3, <1>7, <2>1, <2>2, SettlingElsewhere
    <2>4. ASSUME NEW m, toHost' = Append(toHost, m),
                 m.type # "ENABLED" /\ (m.type = "MISSING" => linecheck)
          PROVE  Settling(linecheck, q, h)
      <3>1. /\ Len(h) = Len(toHost) + 1 /\ \A i \in 1..Len(toHost) : h[i] = toHost[i]
            /\ h[Len(h)].type # "ENABLED" /\ (h[Len(h)].type = "MISSING" => linecheck)
        BY <1>4, <1>7, <2>4
      <3> QED BY <1>0, <2>3, <3>1, SettlingReply
    <2> QED BY <1>7, <2>1, <2>3, <2>4
  <1>8. Settling(linecheck, toMb, toHost) => Settling(on, q, h)
    BY <1>5, <1>6, <1>7
  <1> QED
    BY <1>2, <1>3, <1>8 DEF Handshake

\* Only what the queue commands read is written again: lines, or nothing.
LEMMA ResendWrites ==
    ASSUME TypeOK, NEW q \in Seq(Nat), NEW flag, Resend(q, flag)
    PROVE  /\ Len(toMb') \in Nat /\ Len(toMb) <= Len(toMb')
           /\ \A i \in 1..Len(toMb) : toMb'[i] = toMb[i]
           /\ \A i \in Len(toMb)+1..Len(toMb') : toMb'[i].type \notin {"C1O", "DISABLE"}
  <1>1. toMb \in Seq(ToMbMessage) /\ Len(toMb) \in Nat
    BY DEF TypeOK
  <1>2. CASE toMb' = toMb
    BY <1>1, <1>2
  <1>3. CASE toMb' = toMb \o LinesOf(q)
    <2>1. \A i \in 1..Len(q) : LinesOf(q)[i] \in Lines \cup {NoLine}
      <3>1. \A i \in 1..Len(q) : Slot(q[i]) \in 0..BufSize-1
        <4>1. \A i \in 1..Len(q) : q[i] \in Nat
          OBVIOUS
        <4> QED BY <4>1, SlotInRing
      <3> QED BY <3>1 DEF LinesOf, TypeOK
    <2>2. LinesOf(q) \in [1..Len(q) -> Lines \cup {NoLine}] /\ Len(q) \in Nat
      BY <2>1 DEF LinesOf
    <2>3. LinesOf(q) \in Seq(Lines \cup {NoLine}) /\ Len(LinesOf(q)) = Len(q)
      BY <2>2
    <2>4. \A m \in Lines \cup {NoLine} : m.type \notin {"C1O", "DISABLE"}
      BY DEF Lines, NoLine, Control
    <2> DEFINE new == LinesOf(q)
    <2>5. /\ Len(toMb \o new) = Len(toMb) + Len(new)
          /\ \A i \in 1..Len(toMb) : (toMb \o new)[i] = toMb[i]
          /\ \A i \in Len(toMb)+1..Len(toMb)+Len(new) :
               /\ i - Len(toMb) \in 1..Len(new)
               /\ (toMb \o new)[i] = new[i - Len(toMb)]
      <3> HIDE DEF new
      <3>1. new \in Seq(Lines \cup {NoLine})
        BY <2>3 DEF new
      <3> QED BY <1>1, <3>1
    <2>6. \A i \in 1..Len(q) : new[i].type \notin {"C1O", "DISABLE"}
      BY <2>1, <2>4
    <2> HIDE DEF new
    <2>7. toMb' = toMb \o new /\ Len(new) = Len(q)
      BY <1>3, <2>3 DEF new
    <2>8. /\ Len(toMb') = Len(toMb) + Len(q) /\ Len(toMb) <= Len(toMb')
          /\ \A i \in 1..Len(toMb) : toMb'[i] = toMb[i]
      BY <1>1, <2>2, <2>5, <2>7
    <2>9. \A i \in Len(toMb)+1..Len(toMb') : toMb'[i].type \notin {"C1O", "DISABLE"}
      <3>1. \A i \in Len(toMb)+1..Len(toMb') :
              i - Len(toMb) \in 1..Len(q) /\ toMb'[i] = new[i - Len(toMb)]
        BY <1>1, <2>2, <2>5, <2>7, <2>8
      <3> QED BY <2>6, <3>1
    <2> QED BY <1>1, <2>2, <2>8, <2>9
  <1> QED BY <1>2, <1>3 DEF Resend

\* Every step keeps the handshake in order.
LEMMA NextHandshake ==
    ASSUME IInv, IInv', Handshake, [Next]_vars
    PROVE  Handshake'
  <1> USE DEF hostVars, ownerVars, mbVars
  <1>0. TypeOK /\ cmdSent' \in Seq(Nat) /\ cmdSent \in Seq(Nat) /\ (Ready => "READY" \in flags)
    BY DEF IInv, TypeOK, NotReady, Ready
  <1>00. UNCHANGED <<flags, faults>> => (Undisturbed' => Undisturbed)
    BY DEF Undisturbed, Closing
  <1>1. CASE Elapse \/ PatrolOffline \/ UNCHANGED vars
    <2>1. /\ UNCHANGED <<toMb, toHost, linecheck, unchecked>>
          /\ Ready' = Ready /\ Undisturbed' = Undisturbed
      BY <1>1 DEF Elapse, PatrolOffline, vars, Ready, Undisturbed, Closing
    <2> QED BY <2>1, HandshakeKept
  <1>2. CASE Bootstrap
    <2>1. CASE flags = {}
      BY <1>0, <1>2, <2>1, HandshakeC1O DEF Bootstrap, Usable
    <2>2. CASE flags # {}
      <3>1. Ready /\ Ready'
        BY <1>0, <1>2, <2>2 DEF Bootstrap, Ready
      <3>2. Closing' = Closing
        BY <1>2, <2>2 DEF Bootstrap, Usable, Closing
      <3> QED BY <1>2, <2>2, <3>1, <3>2, HandshakeKept DEF Bootstrap, Undisturbed
    <2> QED BY <2>1, <2>2
  <1>3. CASE SendRaw
    <2>1. /\ toMb' = Append(toMb, Control("TRIGGER")) /\ toHost' = toHost
          /\ UNCHANGED <<flags, linecheck, unchecked, faults>>
      BY <1>3 DEF SendRaw
    <2>2. /\ Len(toMb) \in Nat /\ Len(toMb') = Len(toMb) + 1
          /\ \A i \in 1..Len(toMb) : toMb'[i] = toMb[i]
          /\ toMb'[Len(toMb) + 1].type = "TRIGGER"
      BY <1>0, <2>1, WireFacts DEF Control
    <2>3. \A i \in Len(toMb)+1..Len(toMb') : i = Len(toMb) + 1
      BY <2>2
    <2> QED BY <1>0, <2>1, <2>2, <2>3, HandshakeWrite
  <1>4. ASSUME NEW c \in Command, SendCmd(c)
        PROVE  Handshake'
    <2>1. /\ toMb' = Append(toMb, Line(ln', c)) /\ Ready
          /\ UNCHANGED <<flags, linecheck, unchecked, faults>>
      BY <1>4 DEF SendCmd, Usable, Ready
    <2>2. /\ Len(toMb) \in Nat /\ Len(toMb') = Len(toMb) + 1
          /\ \A i \in 1..Len(toMb) : toMb'[i] = toMb[i]
          /\ toMb'[Len(toMb) + 1].type = "LINE"
      BY <1>0, <2>1, WireFacts DEF Line
    <2>3. \A i \in Len(toMb)+1..Len(toMb') : i = Len(toMb) + 1
      BY <2>2
    <2> QED BY <1>0, <2>1, <2>2, <2>3, HandshakeWrite
  <1>5. CASE Close
    BY <1>5 DEF Close, Handshake, Undisturbed, Closing
  <1>6. CASE PatrolResend
    <2>1. /\ Resend(cmdSent, 0) /\ Ready
          /\ UNCHANGED <<flags, linecheck, unchecked, faults>>
      BY <1>6 DEF PatrolResend, Usable, Ready
    <2> QED BY <1>0, <2>1, ResendWrites, HandshakeWrite
  <1>7. CASE PatrolHello
    BY <1>0, <1>7, HandshakeC1O DEF PatrolHello
  <1>8. CASE RecvLn
    <2>1. /\ Ready /\ Ready' /\ toHost # <<>> /\ toHost' = Tail(toHost) /\ Closing' = Closing
          /\ UNCHANGED <<toMb, linecheck, unchecked, faults>>
      BY <1>8 DEF RecvLn, LnTaken, Incoming, Ready, Closing
    <2> QED BY <1>0, <2>1, HandshakeRead
  <1>9. CASE RecvLineMismatch \/ RecvChecksumMismatch
    <2>1. /\ Ready /\ UNCHANGED <<flags, linecheck, unchecked, faults>>
          /\ (\E flag : Resend(cmdSent', flag)) \/ toMb' = toMb
      BY <1>9 DEF RecvLineMismatch, RecvChecksumMismatch, Confirmed, ResendAfterMismatch, Ready
    <2>2. /\ Len(toMb') \in Nat /\ Len(toMb) <= Len(toMb')
          /\ \A i \in 1..Len(toMb) : toMb'[i] = toMb[i]
          /\ \A i \in Len(toMb)+1..Len(toMb') : toMb'[i].type \notin {"C1O", "DISABLE"}
      <3>1. CASE toMb' = toMb
        <4>1. Len(toMb) \in Nat
          BY <1>0, WireFacts
        <4> QED BY <3>1, <4>1
      <3>2. CASE \E flag : Resend(cmdSent', flag)
        BY <1>0, <3>2, ResendWrites
      <3> QED BY <2>1, <3>1, <3>2
    <2> QED BY <1>0, <2>1, <2>2, HandshakeWrite
  <1>10. CASE RecvRunout
    <2>1. /\ toHost # <<>> /\ toHost' = Tail(toHost) /\ Head(toHost).type = "RUNOUT"
          /\ UNCHANGED <<toMb, linecheck, unchecked, faults>>
          /\ Ready' = Ready /\ Closing' = Closing
      BY <1>10 DEF RecvRunout, Incoming, Ready, Closing
    <2> QED BY <1>0, <2>1, HandshakeRead
  <1>11. CASE RecvEnabled
    <2>1. /\ toHost # <<>> /\ toHost' = Tail(toHost) /\ Head(toHost).type = "ENABLED"
          /\ UNCHANGED <<toMb, linecheck, unchecked, faults>>
          /\ Ready' /\ Closing' = Closing
      BY <1>11 DEF RecvEnabled, Incoming, Ready, Closing
    <2> QED BY <1>0, <2>1, HandshakeRead
  <1>12. CASE RecvDisabled
    <2>1. CASE flags = {}
      <3>1. /\ toMb' = Append(toMb, Control("C1O")) /\ toHost # <<>> /\ toHost' = Tail(toHost)
            /\ UNCHANGED <<flags, linecheck, unchecked, faults>>
        BY <1>12, <2>1 DEF RecvDisabled, Incoming
      <3> QED BY <1>0, <3>1, HandshakeC1O
    <2>2. CASE flags # {}
      <3>1. /\ toHost # <<>> /\ toHost' = Tail(toHost) /\ Ready /\ Ready'
            /\ UNCHANGED <<toMb, linecheck, unchecked, faults>> /\ Closing' = Closing
        BY <1>12, <2>2 DEF RecvDisabled, Incoming, Ready, Closing
      <3> QED BY <1>0, <3>1, HandshakeRead
    <2> QED BY <2>1, <2>2
  <1>13. CASE RecvMissing
    <2>1. CASE flags = {}
      <3> DEFINE r == Append(toMb, Control("DISABLE"))
      <3>1. /\ toMb' = r /\ toHost # <<>> /\ toHost' = Tail(toHost)
            /\ Head(toHost).type = "MISSING"
            /\ UNCHANGED <<flags, linecheck, unchecked, faults>>
        BY <1>13, <2>1 DEF RecvMissing, Incoming
      <3>2. /\ Len(toMb) \in Nat /\ Len(r) = Len(toMb) + 1 /\ Len(r) \in Nat
            /\ \A i \in 1..Len(toMb) : r[i] = toMb[i]
            /\ r[Len(r)].type # "LINE"
        BY <1>0, WireFacts DEF Control
      <3> HIDE DEF r
      <3>3. LinesChecked(linecheck, toMb) => LinesChecked(linecheck, r)
        <4>1. linecheck \in BOOLEAN /\ Len(toMb) <= Len(r)
          BY <1>0, <3>2, WireFacts
        <4> QED BY <3>2, <4>1, WireGrows
      <3>4. Settling(linecheck, toMb, toHost) => Settling(linecheck, r, Tail(toHost))
        <4> DEFINE t == Tail(toHost)
        <4>1. /\ linecheck \in BOOLEAN /\ Len(t) \in Nat /\ Len(toHost) = Len(t) + 1
              /\ \A i \in 1..Len(t) : t[i] = toHost[i + 1]
              /\ toHost[1].type = "MISSING" /\ toHost[1].type # "DISABLED"
          BY <1>0, <3>1, WireFacts
        <4> HIDE DEF t
        <4>2. Settling(linecheck, toMb, toHost) => \A p : Settling(linecheck, p, t)
          BY <4>1, SettlingRead
        <4> QED BY <4>2 DEF t
      <3>5. ~Ready /\ ~Ready' /\ Undisturbed' = Undisturbed
        BY <2>1, <3>1 DEF Ready, Undisturbed, Closing
      <3> QED BY <3>1, <3>3, <3>4, <3>5 DEF Handshake
    <2>2. CASE flags # {}
      <3>1. /\ toHost # <<>> /\ toHost' = Tail(toHost) /\ Ready /\ Ready'
            /\ UNCHANGED <<toMb, linecheck, unchecked, faults>> /\ Closing' = Closing
        BY <1>13, <2>2 DEF RecvMissing, Incoming, Ready, Closing
      <3> QED BY <1>0, <3>1, HandshakeRead
    <2> QED BY <2>1, <2>2
  <1>14. CASE RecvUnknown
    <2>1. /\ toHost # <<>> /\ toHost' = Tail(toHost)
          /\ Head(toHost).type # "DISABLED" /\ Ready' = Ready /\ Closing' = Closing
          /\ UNCHANGED <<toMb, linecheck, unchecked, faults>>
      BY <1>14 DEF RecvUnknown, Incoming, Ready, Closing
    <2> QED BY <1>0, <2>1, HandshakeRead
  <1>15. CASE MbRecvC1O
    <2>1. /\ toMb # <<>> /\ toMb' = Tail(toMb) /\ Head(toMb).type = "C1O"
          /\ UNCHANGED <<flags, unchecked, faults>> /\ linecheck' = TRUE
          /\ toHost' = Append(toHost, Control(IF linecheck THEN "MISSING" ELSE "ENABLED"))
      BY <1>0, <1>15, WireFacts DEF MbRecvC1O, MbReads, Reply
    <2>2. Control(IF linecheck THEN "MISSING" ELSE "ENABLED").type
             = IF linecheck THEN "MISSING" ELSE "ENABLED"
      BY DEF Control
    <2> QED BY <1>0, <2>1, <2>2, <1>00, HandshakeServed
  <1>16. CASE MbRecvDisable
    <2>1. /\ toMb # <<>> /\ toMb' = Tail(toMb) /\ Head(toMb).type = "DISABLE"
          /\ UNCHANGED <<flags, unchecked, faults>> /\ linecheck' = FALSE
          /\ toHost' = Append(toHost, Control("DISABLED"))
      BY <1>16 DEF MbRecvDisable, MbReads, Reply
    <2>2. Control("DISABLED").type = "DISABLED"
      BY DEF Control
    <2> QED BY <1>0, <2>1, <2>2, <1>00, HandshakeServed
  <1>17. CASE MbRecvHome \/ MbRecvTrigger
    <2>1. /\ toMb # <<>> /\ toMb' = Tail(toMb) /\ Head(toMb).type \in {"HOME", "TRIGGER"}
          /\ UNCHANGED <<flags, unchecked, faults, linecheck>>
          /\ \/ toHost' = toHost
             \/ linecheck /\ toHost' = Append(toHost, Control("MISSING"))
      BY <1>17 DEF MbRecvHome, MbRecvTrigger, MbReads, Reply
    <2>2. Control("MISSING").type = "MISSING"
      BY DEF Control
    <2>3. linecheck \in BOOLEAN
      BY <1>0, WireFacts
    <2> QED BY <1>0, <2>1, <2>2, <2>3, <1>00, HandshakeServed
  <1>18. CASE MbAccept \/ MbReject
    <2>1. PICK m : /\ toMb # <<>> /\ toMb' = Tail(toMb) /\ Head(toMb).type = "LINE"
                   /\ UNCHANGED <<flags, unchecked, faults, linecheck>>
                   /\ toHost' = Append(toHost, m) /\ m.type \in {"LN", "LINE_MISMATCH"}
      BY <1>18 DEF MbAccept, MbReject, MbReads, Reply, LnReply
    <2>3. linecheck \in BOOLEAN
      BY <1>0, WireFacts
    <2> QED BY <1>0, <2>1, <2>3, <1>00, HandshakeServed
  <1>19. CASE GarbleLine
    <2>1. /\ toMb # <<>> /\ toMb' = Tail(toMb) /\ Head(toMb).type = "LINE"
          /\ UNCHANGED <<flags, unchecked, linecheck>>
          /\ toHost' = Append(toHost, [type |-> "CHECKSUM_MISMATCH", ln |-> expect])
          /\ faults' = [faults EXCEPT !["garble line"] = @ + 1]
      BY <1>19 DEF GarbleLine, Fault, Reply
    <2> DEFINE m == [type |-> "CHECKSUM_MISMATCH", ln |-> expect]
    <2>2. toHost' = Append(toHost, m) /\ m.type = "CHECKSUM_MISMATCH"
      BY <2>1
    <2> HIDE DEF m
    <2>3. Undisturbed' => Undisturbed
      BY <1>0, <2>1 DEF Undisturbed, Closing, TypeOK, AllFaults
    <2>4. linecheck \in BOOLEAN
      BY <1>0, WireFacts
    <2> QED BY <1>0, <2>1, <2>2, <2>3, <2>4, HandshakeServed
  <1>20. CASE MbRunUnchecked
    <2>1. /\ toMb # <<>> /\ Head(toMb).type = "LINE" /\ ~linecheck
          /\ UNCHANGED <<flags, faults>>
      BY <1>20 DEF MbRunUnchecked, MbReads
    <2>2. Undisturbed' = Undisturbed
      BY <2>1 DEF Undisturbed, Closing
    <2>3. LinesChecked(linecheck, toMb) => Checked(linecheck, toMb, 1 - 1)
      BY <1>0, <2>1, WireFacts DEF LinesChecked
    <2>4. ~Checked(linecheck, toMb, 1 - 1)
      BY <2>1 DEF Checked
    <2> QED BY <2>2, <2>3, <2>4 DEF Handshake
  <1>21. CASE MbFinish
    <2>1. /\ UNCHANGED <<flags, toMb, linecheck, unchecked, faults>>
          /\ \/ toHost' = toHost
             \/ \E m : toHost' = Append(toHost, m) /\ m.type = "LN"
      BY <1>21 DEF MbFinish, Reply, LnReply
    <2>2. Ready' = Ready /\ Undisturbed' = Undisturbed
      BY <2>1 DEF Ready, Undisturbed, Closing
    <2> QED BY <1>0, <2>1, <2>2, HandshakeKept, HandshakeReported
  <1>22. CASE Runout
    <2>1. /\ UNCHANGED <<flags, toMb, linecheck, unchecked>>
          /\ toHost' = Append(toHost, Control("RUNOUT"))
          /\ faults' = [faults EXCEPT !["runout"] = @ + 1]
      BY <1>22 DEF Runout, Fault, Reply
    <2>2. Undisturbed' => Undisturbed
      BY <1>0, <2>1 DEF Undisturbed, Closing, TypeOK, AllFaults
    <2>3. Control("RUNOUT").type = "RUNOUT"
      BY DEF Control
    <2> QED BY <1>0, <2>1, <2>2, <2>3, HandshakeReported
  <1>23. CASE LoseLine \/ LoseReply
    <2>1. \/ faults' = [faults EXCEPT !["lose line"] = @ + 1]
          \/ faults' = [faults EXCEPT !["lose reply"] = @ + 1]
      BY <1>23 DEF LoseLine, LoseReply, Fault
    <2>2. /\ faults \in [AllFaults -> Nat]
          /\ "lose line" \in AllFaults /\ "lose reply" \in AllFaults
      BY <1>0 DEF TypeOK, AllFaults
    <2>3. ASSUME NEW kind \in AllFaults, faults' = [faults EXCEPT ![kind] = @ + 1]
          PROVE  faults'[kind] # 0
      <3>1. faults'[kind] = faults[kind] + 1 /\ faults[kind] \in Nat
        BY <2>2, <2>3
      <3> QED BY <3>1
    <2>4. faults'["lose line"] # 0 \/ faults'["lose reply"] # 0
      BY <2>1, <2>2, <2>3
    <2> QED BY <2>4 DEF Handshake, Undisturbed
  <1> QED
    BY <1>1, <1>2, <1>3, <1>4, <1>5, <1>6, <1>7, <1>8, <1>9, <1>10, <1>11, <1>12, <1>13, <1>14,
       <1>15, <1>16, <1>17, <1>18, <1>19, <1>20, <1>21, <1>22, <1>23
       DEF Next, Owner, Patrol, Receive, Mainboard, Environment

\* Nothing is on its way when the system starts, or a report of no interest.
LEMMA InitHandshake == ASSUME Init PROVE Handshake
  <1>1. /\ flags = {} /\ toMb = <<>> /\ unchecked = 0 /\ linecheck \in BOOLEAN
        /\ \A i \in 1..Len(toHost) : toHost[i].type = "LN"
    BY DEF Init, LnReply
  <1>2. LinesChecked(linecheck, toMb)
    BY <1>1 DEF LinesChecked
  <1>3. Settling(linecheck, toMb, toHost)
    BY <1>1 DEF Settling
  <1> QED BY <1>1, <1>2, <1>3 DEF Handshake, Ready

\* However often C1O is repeated and however late its answers are, a mainboard that
\* executes a job line checks its number, as long as the wires lose nothing and
\* the controller has not been closed.
THEOREM LinesAreChecked == Spec => []NoUncheckedLine
  <1>1. Init => Handshake
    BY InitHandshake
  <1>2. IInv /\ IInv' /\ Handshake /\ [Next]_vars => Handshake'
    BY NextHandshake
  <1>3. Handshake => NoUncheckedLine
    BY DEF Handshake, NoUncheckedLine, Undisturbed
  <1> QED
    BY <1>1, <1>2, <1>3, Invariance, PTL DEF Spec

-----------------------------------------------------------------------------
(* Refinement. *)

\* The steps that do not belong to the pipe.
LEMMA HiddenStep ==
    ASSUME [Next]_vars
    PROVE  \/ UNCHANGED <<issued, accepted, finished>>
           \/ MbAccept \/ MbFinish \/ \E c \in Command : SendCmd(c)
  <1>1. CASE Owner
    BY <1>1 DEF Owner, Bootstrap, SendRaw, Close, ownerVars, mbVars
  <1>2. CASE Patrol
    BY <1>2 DEF Patrol, PatrolResend, PatrolHello, PatrolOffline, ownerVars, mbVars
  <1>3. CASE Elapse
    BY <1>3 DEF Elapse, ownerVars, mbVars
  <1>4. CASE Receive
    BY <1>4 DEF Receive, RecvLn, LnTaken, Confirmed, RecvLineMismatch, RecvChecksumMismatch, RecvRunout,
       RecvEnabled, RecvDisabled, RecvMissing, RecvUnknown, ownerVars, mbVars
  <1>5. CASE Mainboard
    BY <1>5 DEF Mainboard, MbRecvC1O, MbRecvDisable, MbRecvHome, MbRecvTrigger, MbReject,
       MbRunUnchecked, MbReads, ownerVars, mbVars
  <1>6. CASE Environment
    BY <1>6 DEF Environment, LoseLine, GarbleLine, LoseReply, Runout, Fault,
       ownerVars, mbVars
  <1>7. CASE UNCHANGED vars
    BY <1>7 DEF vars, ownerVars, mbVars
  <1> QED
    BY <1>1, <1>2, <1>3, <1>4, <1>5, <1>6, <1>7 DEF Next

\* send_cmd puts a command into the pipe only while there is room.
LEMMA SubmitStep == ASSUME IInv, NEW c \in Command, SendCmd(c) PROVE Pipe!Submit(c)
  <1>1. /\ BufferedCmdSize < BufSize /\ issued' = Append(issued, c)
        /\ UNCHANGED <<accepted, finished>>
    BY DEF SendCmd, mbVars
  <1>2. /\ ln \in Nat /\ finished \in Nat /\ BufSize \in Nat /\ BufferedCmdSize \in Nat
        /\ Len(issued) = ln /\ ln - BufferedCmdSize <= finished
    BY ConstantsAssumption DEF IInv, TypeOK, Queues, ReportsInOrder, Ready, BufferedCmdSize
  <1>3. Len(issued) - finished < BufSize
    BY <1>1, <1>2
  <1> QED
    BY <1>1, <1>3 DEF Pipe!Submit

\* The line the mainboard accepts is the next command of the pipe.
LEMMA AcceptStep == ASSUME IInv, MbAccept PROVE Pipe!Accept
  <1>1. /\ toMb # <<>> /\ Head(toMb).type = "LINE" /\ Head(toMb).ln = expect
        /\ accepted' = Append(accepted, Head(toMb).cmd) /\ finished' = finished
        /\ issued' = issued
    BY DEF MbAccept, MbReads, ownerVars
  <1>2. /\ expect = Len(accepted) + 1 /\ Head(toMb).ln \in 1..ln
        /\ Head(toMb).cmd = issued[Head(toMb).ln] /\ Len(accepted) \in Nat /\ ln \in Nat
    BY <1>1, LineMeansReady
  <1>3. Len(issued) = ln
    BY DEF IInv, Queues
  <1> QED
    BY <1>1, <1>2, <1>3 DEF Pipe!Accept

\* The protocol implements the pipe of CommandPipe: what it sends, repeats and
\* loses is invisible, and only send_cmd, an acceptance and a completion show.
THEOREM Refinement == Spec => ImplementsPipe
  <1>1. Init => Pipe!Init
    BY DEF Init, Pipe!Init
  <1>2. ASSUME IInv, [Next]_vars PROVE [Pipe!Next]_(Pipe!vars)
    <2>1. CASE UNCHANGED <<issued, accepted, finished>>
      BY <2>1 DEF Pipe!vars
    <2>2. CASE MbAccept
      BY <1>2, <2>2, AcceptStep DEF Pipe!Next
    <2>3. CASE MbFinish
      BY <1>2, <2>3 DEF MbFinish, ownerVars, Pipe!Finish, Pipe!Next
    <2>4. ASSUME NEW c \in Command, SendCmd(c) PROVE Pipe!Next
      BY <1>2, <2>4, SubmitStep DEF Pipe!Next
    <2> QED
      BY <1>2, <2>1, <2>2, <2>3, <2>4, HiddenStep
  <1> QED
    BY <1>1, <1>2, Invariance, PTL DEF Spec, ImplementsPipe, Pipe!Spec
=============================================================================
