----------------------------- MODULE UsbLinkProofs -----------------------------
(***************************************************************************)
(* Theorems about UsbLink for every pair of moduli, every window below the *)
(* device's modulus and every bound on messages, sessions and losses.      *)
(***************************************************************************)
EXTENDS UsbLink, SequenceTheorems, WellFoundedInduction, TLAPS

\* The session that the counters belong to.  A reset ends a session, but the client may
\* go on in it until it is greeted again.
Counted == IF open THEN session ELSE session - 1

\* What stands before the messages that are not acknowledged.
Acked == sent - Len(localQueue)

\* Messages are numbered by their place.
LocalNumber(n) == (n - 1) % LocalMod
RemoteNumber(n) == (n - 1) % RemoteMod

-----------------------------------------------------------------------------
(* The counters of the two sides agree with their numbers. *)

Numbers ==
    /\ localIdx = sent % LocalMod /\ remoteIdx = served % RemoteMod
    /\ Len(localQueue) <= sent /\ Len(localQueue) <= MaxQueue
    /\ \A i \in 1..Len(localQueue) :
           localQueue[i] = Msg(LocalNumber(Acked + i), Counted, Acked + i)

Window == ~topAck => Acked <= got /\ got <= sent

ClientNumbers ==
    client = "open" =>
        /\ cExpects = got % LocalMod /\ cNext = asked % RemoteMod
        /\ asking # NoMsg => asked > 0 /\ asking = Msg(RemoteNumber(asked), Counted, asked)

-----------------------------------------------------------------------------
(* The messages to the client. *)

OfSession(m) == m.type \in {"hello", "done", "msg"}
Rank(m) == IF m.type = "hello" THEN 2 * m.s ELSE 2 * m.s + 1

\* A session is greeted, then opened, then used; nothing of it comes after the next one.
InSessionOrder ==
    \A i, j \in 1..Len(toClient) :
        i < j /\ OfSession(toClient[i]) /\ OfSession(toClient[j]) =>
            /\ Rank(toClient[i]) <= Rank(toClient[j])
            /\ toClient[j].type = "done" => Rank(toClient[i]) < Rank(toClient[j])

Placed(m, first, last, counted, state) ==
    /\ m.type = "hello" => first <= m.s /\ m.s <= last
    /\ m.type \in {"done", "msg"} => m.s <= counted
    /\ state = "open" /\ OfSession(m) => Rank(m) > 2 * counted /\ m.type # "done"

Sessions ==
    /\ Counted <= cSession /\ cSession <= session
    /\ client = "open" => cSession = Counted
    /\ \A i \in 1..Len(toClient) : Placed(toClient[i], cSession, session, Counted, client)
    /\ \A i \in 1..Len(toDevice) : toDevice[i].type = "shake" => toDevice[i].s <= cSession

\* As long as the end of the handshake is on its way the client has done nothing in its session.
Unused ==
    \A i \in 1..Len(toClient) :
        toClient[i] = Done(Counted) =>
            /\ got = 0 /\ asked = 0
            /\ open => \A k \in 1..Len(toDevice) : toDevice[k].type \notin {"ack", "msg"}

\* What is on its way in this session was sent in it, and is not further from what the
\* client expects, or from what comes before it, than the window is wide.
Numbered(m) == m.type = "msg" => m.n > 0 /\ m.idx = LocalNumber(m.n)
InWindow(m, counted, number, taken) ==
    m.type = "msg" /\ m.s = counted => m.n <= number /\ taken < m.n + MaxQueue
CloseTo(a, b, counted) ==
    a.type = "msg" /\ b.type = "msg" /\ a.s = counted /\ b.s = counted => a.n < b.n + MaxQueue

MessagesClose ==
    /\ \A i \in 1..Len(toClient) :
           /\ Numbered(toClient[i])
           /\ ~topAck => InWindow(toClient[i], Counted, sent, got)
    /\ ~topAck => \A i, j \in 1..Len(toClient) :
                      i < j => CloseTo(toClient[i], toClient[j], Counted)

-----------------------------------------------------------------------------
(* The messages to the device. *)

\* Nothing follows the handshake that the device waits for.
NothingAfterShake ==
    ~open =>
        \A i, k \in 1..Len(toDevice) :
            i < k /\ toDevice[i] = Shake(session) => toDevice[k].type \notin {"ack", "msg"}

\* The requests of the client come in order, repeated but with none left out.
Requested(m, first, last) ==
    m.type = "msg" =>
        /\ m.s = session /\ m.idx = RemoteNumber(m.n) /\ m.n > 0
        /\ first <= m.n /\ m.n <= last

RequestsInOrder ==
    open =>
        /\ served <= asked
        /\ \A i \in 1..Len(toDevice) : Requested(toDevice[i], served, asked)
        /\ \A i, j \in 1..Len(toDevice) :
               i < j /\ toDevice[i].type = "msg" /\ toDevice[j].type = "msg"
                   => toDevice[i].n <= toDevice[j].n
        /\ \A i \in 1..Len(toDevice) :
               toDevice[i].type = "msg" /\ toDevice[i].n > served + 1 =>
                   \E j \in 1..Len(toDevice) :
                       j < i /\ toDevice[j].type = "msg" /\ toDevice[j].n = toDevice[i].n - 1
        /\ asked > served =>
               \E j \in 1..Len(toDevice) : toDevice[j].type = "msg" /\ toDevice[j].n = asked

\* `places' says of each acknowledgement on its way how many messages the client had taken.
AcksFrom(places) ==
    /\ \A i \in 1..Len(toDevice) : toDevice[i].type = "ack" =>
           /\ toDevice[i].idx = Previous(places[i] % LocalMod, LocalMod)
           /\ Acked <= places[i] /\ places[i] <= got
    /\ \A i, j \in 1..Len(toDevice) :
           i < j /\ toDevice[i].type = "ack" /\ toDevice[j].type = "ack" => places[i] <= places[j]

AcksInOrder == open /\ ~topAck => \E places \in [1..Len(toDevice) -> 0..got] : AcksFrom(places)

IInv ==
    /\ TypeOK /\ Numbers /\ Window /\ ClientNumbers
    /\ InSessionOrder /\ Sessions /\ Unused /\ MessagesClose
    /\ NothingAfterShake /\ RequestsInOrder /\ AcksInOrder

-----------------------------------------------------------------------------
(* Lemmas about numbers. *)

\* Division with remainder by a positive number.
LEMMA Division ==
    ASSUME NEW b \in Nat \ {0}, NEW n \in Nat
    PROVE  n \div b \in Nat /\ n % b \in 0..b-1 /\ n = b * (n \div b) + (n % b)
  OBVIOUS

\* A multiple of b by a positive number is at least b, by any other at most 0.
LEMMA Multiple ==
    ASSUME NEW b \in Nat \ {0}, NEW d \in Int
    PROVE  /\ d >= 1 => b * d >= b
           /\ d <= 0 => b * d <= 0
  OBVIOUS

\* Two numbers less than b apart have different remainders.
LEMMA RemaindersDiffer ==
    ASSUME NEW b \in Nat \ {0}, NEW m \in Nat, NEW n \in Nat, m < n, n - m < b
    PROVE  m % b # n % b
  <1> DEFINE p == m \div b
             q == n \div b
  <1>1. p \in Nat /\ q \in Nat /\ m = b * p + (m % b) /\ n = b * q + (n % b)
        /\ m % b \in Int /\ n % b \in Int
    BY Division
  <1> HIDE DEF p, q
  <1>2. b * (q - p) = b * q - b * p /\ b * q \in Int /\ b * p \in Int
    BY <1>1
  <1>3. (q - p >= 1 => b * (q - p) >= b) /\ (q - p <= 0 => b * (q - p) <= 0)
    BY <1>1, Multiple
  <1> DEFINE e == b * (q - p)
             x == b * q
             y == b * p
  <1>4. e = x - y /\ x \in Int /\ y \in Int /\ m = y + (m % b) /\ n = x + (n % b)
    BY <1>1, <1>2
  <1>5. e >= b \/ e <= 0
    BY <1>1, <1>3
  <1> HIDE DEF e, x, y
  <1> QED
    BY <1>1, <1>4, <1>5

\* So two numbers less than b apart with the same remainder are the same.
LEMMA SameRemainder ==
    ASSUME NEW b \in Nat \ {0}, NEW m \in Nat, NEW n \in Nat,
           m - n < b, n - m < b, m % b = n % b
    PROVE  m = n
  <1>1. CASE m < n
    BY <1>1, RemaindersDiffer
  <1>2. CASE n < m
    BY <1>2, RemaindersDiffer
  <1> QED
    BY <1>1, <1>2

\* The remainder is the only number below b a multiple of b away.
LEMMA RemainderIs ==
    ASSUME NEW b \in Nat \ {0}, NEW q \in Int, NEW r \in 0..b-1
    PROVE  (b * q + r) % b = r
  OBVIOUS

\* Counting one on, before or after the remainder is taken.
LEMMA NextRemainder ==
    ASSUME NEW b \in Nat \ {0}, NEW n \in Nat
    PROVE  ((n % b) + 1) % b = (n + 1) % b
  <1> DEFINE q == n \div b
             r == n % b
             x == b * q
  <1>0. q \in Nat /\ r \in 0..b-1 /\ n = x + r
    BY Division
  <1>1. q \in Nat /\ r \in 0..b-1 /\ n = x + r /\ x \in Int
    <2> HIDE DEF q, r
    <2> QED BY <1>0
  <1>4. (n + 1) % b \in 0..b-1 /\ (r + 1) % b \in 0..b-1
    BY <1>1
  <1>2. CASE r + 1 < b
    <2>1. (x + (r + 1)) % b = r + 1
      <3> HIDE DEF q, r
      <3> QED BY <1>1, <1>2, RemainderIs
    <2>2. (r + 1) % b = r + 1
      <3> HIDE DEF q, r, x
      <3> QED BY <1>1, <1>2
    <2> HIDE DEF q, x, r
    <2>3. n + 1 = x + (r + 1)
      BY <1>1
    <2> QED
      BY <2>1, <2>2, <2>3 DEF r
  <1>3. CASE r + 1 = b
    <2>1. (b * (q + 1) + 0) % b = 0
      <3> HIDE DEF q, r
      <3> QED BY <1>1, <1>3, RemainderIs
    <2>2. b * (q + 1) + 0 = n + 1
      <3> HIDE DEF r
      <3>1. b * (q + 1) = x + b
        <4> HIDE DEF q
        <4> QED BY <1>1 DEF x
      <3> HIDE DEF q, x
      <3> QED BY <1>1, <1>3, <3>1
    <2>3. (r + 1) % b = 0
      <3> HIDE DEF q, r, x
      <3>1. b % b = 0
        OBVIOUS
      <3> QED BY <1>1, <1>3, <3>1
    <2> HIDE DEF q, x, r
    <2> QED
      BY <2>1, <2>2, <2>3 DEF r
  <1> HIDE DEF q, x, r
  <1> QED
    BY <1>1, <1>2, <1>3 DEF r

-----------------------------------------------------------------------------
(* Lemmas about the two wires and the queue. *)

\* w2 is w without its k-th message; w2 is w followed by t.
Without(w, k, w2) ==
    /\ Len(w2) = Len(w) - 1
    /\ \A i \in 1..Len(w2) : w2[i] = w[IF i < k THEN i ELSE i + 1]
Joined(w, t, w2) ==
    /\ Len(w2) = Len(w) + Len(t)
    /\ \A i \in 1..Len(w2) : w2[i] = IF i <= Len(w) THEN w[i] ELSE t[i - Len(w)]

LEMMA TailOf ==
    ASSUME NEW S, NEW w \in Seq(S), w # <<>>
    PROVE  /\ Len(w) \in Nat \ {0} /\ Head(w) = w[1] /\ w[1] \in S
           /\ Tail(w) \in Seq(S) /\ Without(w, 1, Tail(w))
  BY DEF Without

LEMMA JoinOf ==
    ASSUME NEW S, NEW w \in Seq(S), NEW t \in Seq(S)
    PROVE  w \o t \in Seq(S) /\ Joined(w, t, w \o t)
  BY DEF Joined

\* Without its k-th message, as Lose cuts it out.
LEMMA CutOf ==
    ASSUME NEW S, NEW w \in Seq(S), NEW k \in 1..Len(w)
    PROVE  LET w2 == SubSeq(w, 1, k - 1) \o SubSeq(w, k + 1, Len(w))
           IN  w2 \in Seq(S) /\ Without(w, k, w2)
  <1> DEFINE a == SubSeq(w, 1, k - 1)
             b == SubSeq(w, k + 1, Len(w))
  <1>1. a \in Seq(S) /\ Len(a) = k - 1 /\ \A i \in 1..Len(a) : a[i] = w[i]
    OBVIOUS
  <1>2. b \in Seq(S) /\ Len(b) = Len(w) - k /\ \A i \in 1..Len(b) : b[i] = w[k + i]
    OBVIOUS
  <1>3. a \o b \in Seq(S) /\ Joined(a, b, a \o b)
    BY <1>1, <1>2, JoinOf
  <1> HIDE DEF a, b
  <1>4. Without(w, k, a \o b)
    <2> DEFINE w2 == a \o b
    <2>1. Len(w2) = Len(w) - 1
      BY <1>1, <1>2, <1>3 DEF Joined
    <2>2. ASSUME NEW i \in 1..Len(w2)
          PROVE  w2[i] = w[IF i < k THEN i ELSE i + 1]
      <3>1. w2[i] = IF i <= Len(a) THEN a[i] ELSE b[i - Len(a)]
        BY <1>3 DEF Joined
      <3>2. CASE i < k
        BY <1>1, <3>1, <3>2
      <3>3. CASE i >= k
        <4>1. i - Len(a) \in 1..Len(b) /\ k + (i - Len(a)) = i + 1 /\ ~(i <= Len(a)) /\ ~(i < k)
          BY <1>1, <1>2, <2>1, <3>3
        <4>2. b[i - Len(a)] = w[k + (i - Len(a))]
          BY <1>2, <4>1
        <4> QED
          BY <3>1, <4>1, <4>2
      <3> QED
        BY <3>2, <3>3
    <2> QED
      BY <2>1, <2>2 DEF Without
  <1> QED
    BY <1>3, <1>4 DEF a, b

\* What the fields of a message may be.
LEMMA MessageToClient ==
    ASSUME NEW m \in ToClientMessages
    PROVE  /\ m.type \in {"msg", "ack", "hello", "done"}
           /\ OfSession(m) => m.s \in Nat /\ Rank(m) \in Nat
           /\ m.type = "msg" => m \in Messages /\ m.n \in Nat /\ m.idx \in Nat /\ m.s \in Nat
           /\ m.type = "ack" => m \in Acks /\ m.idx \in Nat
  BY DEF ToClientMessages, Messages, Acks, OfSession, Rank

LEMMA MessageToDevice ==
    ASSUME NEW m \in ToDeviceMessages
    PROVE  /\ m.type \in {"msg", "ack", "shake", "request", "reset"}
           /\ m.type = "msg" => m \in Messages /\ m.n \in Nat /\ m.idx \in Nat /\ m.s \in Nat
           /\ m.type = "ack" => m \in Acks /\ m.idx \in Nat
           /\ m.type = "shake" => m.s \in Nat
  BY DEF ToDeviceMessages, Messages, Acks, Request, Reset

\* What the two sides build are messages.
LEMMA MessagesBuilt ==
    ASSUME NEW idx \in Nat, NEW s \in Nat, NEW n \in Nat
    PROVE  /\ Msg(idx, s, n) \in Messages /\ Ack(idx) \in Acks
           /\ Msg(idx, s, n) \in ToClientMessages /\ Msg(idx, s, n) \in ToDeviceMessages
           /\ Ack(idx) \in ToClientMessages /\ Ack(idx) \in ToDeviceMessages
           /\ Hello(s) \in ToClientMessages /\ Done(s) \in ToClientMessages
           /\ Shake(s) \in ToDeviceMessages
           /\ Request \in ToDeviceMessages /\ Reset \in ToDeviceMessages
  BY DEF ToClientMessages, ToDeviceMessages, Messages, Acks, Msg, Ack, Hello, Done, Shake,
         Request, Reset

LEMMA AckNowBuilt ==
    ASSUME NEW idx \in Nat
    PROVE  AckNow(idx) \in Acks /\ AckNow(idx) \in ToClientMessages
           /\ AckNow(idx) \in ToDeviceMessages /\ AckNow(idx).type = "ack"
           /\ AckNow(idx).idx = Previous(idx, LocalMod)
  <1>1. Previous(idx, LocalMod) \in Nat
    BY UsbLinkConstants DEF Previous
  <1> QED
    BY <1>1, MessagesBuilt DEF AckNow, Ack

\* An acknowledgement pops a prefix of the queue that ends before what it does not cover.
LEMMA CoveredIsPrefix ==
    ASSUME NEW seq, localQueue \in Seq(Messages)
    PROVE  /\ Covered(seq) \in 0..Len(localQueue)
           /\ \A i \in 1..Covered(seq) : Covers(seq, localQueue[i].idx)
  <1> DEFINE Left == {i \in 1..Len(localQueue) : ~Covers(seq, localQueue[i].idx)}
             Ends(k) == /\ \A i \in 1..k : Covers(seq, localQueue[i].idx)
                        /\ k < Len(localQueue) => ~Covers(seq, localQueue[k + 1].idx)
  <1>1. Len(localQueue) \in Nat
    OBVIOUS
  <1>2. \E k \in 0..Len(localQueue) : Ends(k)
    <2>1. CASE Left = {}
      <3>1. Ends(Len(localQueue))
        BY <1>1, <2>1
      <3> QED
        BY <1>1, <3>1
    <2>2. CASE Left # {}
      <3>1. PICK m \in Left : \A i \in Left : ~(<<i, m>> \in OpToRel(<, Nat))
        <4>1. Left \subseteq Nat
          OBVIOUS
        <4> QED
          BY <2>2, <4>1, WFMin, NatLessThanWellFounded
      <3>2. ASSUME NEW i \in Left
            PROVE  i >= m
        <4>1. i \in Nat /\ m \in Nat
          OBVIOUS
        <4>2. ~(i < m)
          BY <3>1, <4>1 DEF OpToRel
        <4> QED
          BY <4>1, <4>2
      <3>3. m \in 1..Len(localQueue) /\ ~Covers(seq, localQueue[m].idx)
        OBVIOUS
      <3>4. \A i \in 1..(m - 1) : Covers(seq, localQueue[i].idx)
        BY <1>1, <3>2, <3>3
      <3>5. m - 1 \in 0..Len(localQueue) /\ (m - 1) + 1 = m
        BY <1>1, <3>3
      <3> QED
        BY <3>3, <3>4, <3>5
    <2> QED
      BY <2>1, <2>2
  <1> HIDE DEF Ends
  <1>3. Covered(seq) = CHOOSE k \in 0..Len(localQueue) : Ends(k)
    BY DEF Covered, Ends
  <1>4. Covered(seq) \in 0..Len(localQueue) /\ Ends(Covered(seq))
    BY <1>2, <1>3
  <1> QED
    BY <1>4 DEF Ends

-----------------------------------------------------------------------------
(* What the steps do to the wires. *)

Added(w, m, w2) ==
    /\ Len(w2) = Len(w) + 1
    /\ \A i \in 1..Len(w) : w2[i] = w[i]
    /\ w2[Len(w) + 1] = m

LEMMA DeviceTakes ==
    ASSUME TypeOK, Receives
    PROVE  /\ Len(toDevice) \in Nat \ {0} /\ Head(toDevice) = toDevice[1]
           /\ toDevice[1] \in ToDeviceMessages
           /\ toDevice' \in Seq(ToDeviceMessages) /\ Without(toDevice, 1, toDevice')
  BY TailOf DEF TypeOK, Receives

LEMMA ClientTakesFirst ==
    ASSUME TypeOK, ClientTakes
    PROVE  /\ Len(toClient) \in Nat \ {0} /\ Head(toClient) = toClient[1]
           /\ toClient[1] \in ToClientMessages
           /\ toClient' \in Seq(ToClientMessages) /\ Without(toClient, 1, toClient')
  BY TailOf DEF TypeOK, ClientTakes

LEMMA DeviceSendsMore ==
    ASSUME TypeOK, NEW t \in Seq(ToClientMessages), Sends(t)
    PROVE  toClient' \in Seq(ToClientMessages) /\ Joined(toClient, t, toClient')
  BY JoinOf DEF TypeOK, Sends

LEMMA DeviceSendsOne ==
    ASSUME TypeOK, NEW m \in ToClientMessages, Sends(<<m>>)
    PROVE  toClient' \in Seq(ToClientMessages) /\ Added(toClient, m, toClient')
  <1>1. <<m>> \in Seq(ToClientMessages) /\ Len(<<m>>) = 1 /\ <<m>>[1] = m
    OBVIOUS
  <1>2. toClient \in Seq(ToClientMessages) /\ Len(toClient) \in Nat
    BY DEF TypeOK
  <1> DEFINE t == <<m>>
  <1>3. t \in Seq(ToClientMessages) /\ Len(t) = 1 /\ t[1] = m /\ Sends(t)
    BY <1>1
  <1> HIDE DEF t
  <1>4. toClient' \in Seq(ToClientMessages) /\ Joined(toClient, t, toClient')
    BY <1>3, DeviceSendsMore
  <1> QED
    BY <1>2, <1>3, <1>4 DEF Joined, Added

LEMMA ClientTells ==
    ASSUME TypeOK, NEW m \in ToDeviceMessages, Tells(<<m>>)
    PROVE  toDevice' \in Seq(ToDeviceMessages) /\ Added(toDevice, m, toDevice')
  <1>1. <<m>> \in Seq(ToDeviceMessages) /\ Len(<<m>>) = 1 /\ <<m>>[1] = m
    OBVIOUS
  <1>2. toDevice \in Seq(ToDeviceMessages) /\ Len(toDevice) \in Nat
    BY DEF TypeOK
  <1>3. toDevice' \in Seq(ToDeviceMessages) /\ Joined(toDevice, <<m>>, toDevice')
    BY <1>1, <1>2, JoinOf DEF Tells
  <1> QED
    BY <1>1, <1>2, <1>3 DEF Joined, Added

LEMMA LoseOne ==
    ASSUME TypeOK, Lose
    PROVE  /\ toClient' \in Seq(ToClientMessages)
           /\ \E k \in 1..Len(toClient) : Without(toClient, k, toClient')
  BY CutOf DEF TypeOK, Lose

\* The messages an open device sends besides its acknowledgements are in its queue.
Talk(t) ==
    /\ t \in Seq(ToClientMessages)
    /\ \A i \in 1..Len(t) :
           \/ t[i].type = "ack"
           \/ \E j \in 1..Len(localQueue') : t[i] = localQueue'[j]

Talks == open /\ \E t : Talk(t) /\ Sends(t)

LEMMA SendAfterTalks ==
    ASSUME TypeOK, NEW before \in Seq(ToClientMessages), SendAfter(before),
           \A i \in 1..Len(before) :
               \/ before[i].type = "ack"
               \/ \E j \in 1..Len(localQueue) : before[i] = localQueue[j]
    PROVE  /\ localQueue' \in Seq(Messages) /\ Len(localQueue) \in Nat
           /\ Added(localQueue, Msg(localIdx, session, sent + 1), localQueue')
           /\ \E t : Talk(t) /\ Sends(t)
  <1> DEFINE m == Msg(localIdx, session, sent + 1)
             t == Append(before, m)
  <1>1. m \in Messages /\ m \in ToClientMessages
    <2>1. localIdx \in Nat /\ session \in Nat /\ sent + 1 \in Nat
      BY DEF TypeOK
    <2> QED
      BY <2>1, MessagesBuilt
  <1>2. localQueue \in Seq(Messages)
    BY DEF TypeOK
  <1>3. localQueue' = Append(localQueue, m) /\ Sends(t)
    BY DEF SendAfter
  <1> HIDE DEF m
  <1>4. localQueue' \in Seq(Messages) /\ Added(localQueue, m, localQueue') /\ Len(localQueue) \in Nat
    BY <1>1, <1>2, <1>3 DEF Added
  <1>5. t \in Seq(ToClientMessages) /\ Len(before) \in Nat /\ Added(before, m, t)
    BY <1>1 DEF Added
  <1> HIDE DEF t
  <1>6. ASSUME NEW i \in 1..Len(t)
        PROVE  \/ t[i].type = "ack"
               \/ \E j \in 1..Len(localQueue') : t[i] = localQueue'[j]
    <2>1. CASE i = Len(before) + 1
      BY <1>4, <1>5, <2>1 DEF Added
    <2>2. CASE i \in 1..Len(before)
      <3>1. t[i] = before[i]
        BY <1>5, <2>2 DEF Added
      <3>2. CASE before[i].type = "ack"
        BY <3>1, <3>2
      <3>3. CASE before[i].type # "ack"
        <4>1. PICK j \in 1..Len(localQueue) : before[i] = localQueue[j]
          BY <2>2, <3>3
        <4>2. j \in 1..Len(localQueue') /\ localQueue'[j] = localQueue[j]
          BY <1>4 DEF Added
        <4> QED
          BY <3>1, <4>1, <4>2
      <3> QED
        BY <3>2, <3>3
    <2> QED
      BY <1>5, <2>1, <2>2 DEF Added
  <1>7. Talk(t)
    BY <1>5, <1>6 DEF Talk
  <1> QED
    BY <1>3, <1>4, <1>7 DEF m

\* An acknowledgement cuts the queue at the front and may repeat the rest.
LEMMA RecvAckTalks ==
    ASSUME TypeOK, RecvAck
    PROVE  /\ Talks
           /\ \E k \in 0..Len(localQueue) :
                  /\ k = Covered(Head(toDevice).idx)
                  /\ localQueue' \in Seq(Messages) /\ Len(localQueue') = Len(localQueue) - k
                  /\ \A i \in 1..Len(localQueue') : localQueue'[i] = localQueue[k + i]
  <1> DEFINE k == Covered(Head(toDevice).idx)
             left == SubSeq(localQueue, k + 1, Len(localQueue))
             t == IF inhibition THEN <<>> ELSE left
  <1>1. localQueue \in Seq(Messages) /\ Len(localQueue) \in Nat
    BY DEF TypeOK
  <1>2. k \in 0..Len(localQueue)
    BY <1>1, CoveredIsPrefix
  <1>3. open /\ localQueue' = left /\ Sends(t)
    BY DEF RecvAck
  <1> HIDE DEF k
  <1>4. left \in Seq(Messages) /\ Len(left) = Len(localQueue) - k
        /\ \A i \in 1..Len(left) : left[i] = localQueue[k + i]
    BY <1>1, <1>2
  <1>5. left \in Seq(ToClientMessages)
    BY <1>4 DEF ToClientMessages
  <1> HIDE DEF left
  <1>6. Talk(t)
    BY <1>3, <1>5 DEF Talk
  <1> HIDE DEF t
  <1> QED
    BY <1>2, <1>3, <1>4, <1>6 DEF Talks, k

\* The next request is acknowledged, and may be answered.
LEMMA RecvNextTalks ==
    ASSUME TypeOK, RecvNext
    PROVE  /\ Talks /\ localQueue' \in Seq(Messages)
           /\ \/ SendAfter(<<AckNow(remoteIdx')>>
                             \o IF Len(localQueue) > Burst THEN SubSeq(localQueue, 1, Burst) ELSE <<>>)
                 /\ Added(localQueue, Msg(localIdx, session, sent + 1), localQueue')
              \/ UNCHANGED <<localIdx, localQueue, inhibition, sent>>
  <1> DEFINE a == <<AckNow(remoteIdx')>>
             b == IF Len(localQueue) > Burst THEN SubSeq(localQueue, 1, Burst) ELSE <<>>
             first == a \o b
  <1>1. localQueue \in Seq(Messages) /\ Len(localQueue) \in Nat /\ remoteIdx' \in Nat /\ Burst \in Nat
    BY UsbLinkConstants DEF TypeOK, RecvNext
  <1>2. a \in Seq(ToClientMessages) /\ Len(a) = 1 /\ a[1].type = "ack"
    BY <1>1, AckNowBuilt
  <1>3. b \in Seq(Messages) /\ Len(b) \in Nat /\ Len(b) <= Len(localQueue)
        /\ \A i \in 1..Len(b) : b[i] = localQueue[i]
    BY <1>1
  <1>4. b \in Seq(ToClientMessages)
    BY <1>3 DEF ToClientMessages
  <1>5. open /\ (SendAfter(first) \/ (Sends(first) /\ UNCHANGED <<localIdx, localQueue, inhibition, sent>>))
    <2>1. open
      BY DEF RecvNext
    <2>2. \/ SendAfter(first)
          \/ Sends(first) /\ UNCHANGED <<localIdx, localQueue, inhibition, sent>>
      BY Zenon DEF RecvNext
    <2> QED
      BY <2>1, <2>2
  <1> HIDE DEF a, b
  <1>6. first \in Seq(ToClientMessages) /\ Joined(a, b, first)
    BY <1>2, <1>4, JoinOf
  <1> HIDE DEF first
  <1>7. ASSUME NEW i \in 1..Len(first)
        PROVE  \/ first[i].type = "ack"
               \/ \E j \in 1..Len(localQueue) : first[i] = localQueue[j]
    <2>1. CASE i = 1
      BY <1>2, <1>6, <2>1 DEF Joined
    <2>2. CASE i # 1
      <3>1. i - 1 \in 1..Len(b) /\ first[i] = b[i - 1]
        BY <1>2, <1>3, <1>6, <2>2 DEF Joined
      <3> QED
        BY <1>1, <1>3, <3>1
    <2> QED
      BY <2>1, <2>2
  <1>8. CASE SendAfter(first)
    <2>1. Talks /\ localQueue' \in Seq(Messages)
          /\ Added(localQueue, Msg(localIdx, session, sent + 1), localQueue')
      BY <1>5, <1>6, <1>7, <1>8, SendAfterTalks DEF Talks
    <2> QED
      BY <1>8, <2>1 DEF a, b, first
  <1>9. CASE Sends(first) /\ UNCHANGED <<localIdx, localQueue, inhibition, sent>>
    <2>1. Talk(first)
      BY <1>6, <1>7, <1>9 DEF Talk
    <2> QED
      BY <1>1, <1>5, <1>9, <2>1 DEF Talks
  <1> QED
    BY <1>5, <1>8, <1>9

LEMMA OthersTalk ==
    ASSUME TypeOK
    PROVE  /\ DeviceSends => /\ Talks /\ localQueue' \in Seq(Messages)
                             /\ Added(localQueue, Msg(localIdx, session, sent + 1), localQueue')
           /\ RecvOther => Talks
  <1>1. ASSUME DeviceSends
        PROVE  /\ Talks /\ localQueue' \in Seq(Messages)
               /\ Added(localQueue, Msg(localIdx, session, sent + 1), localQueue')
    <2>1. open /\ SendAfter(<<>>)
      BY <1>1 DEF DeviceSends
    <2> DEFINE none == <<>>
    <2>2. none \in Seq(ToClientMessages) /\ Len(none) = 0 /\ SendAfter(none)
      BY <2>1
    <2> HIDE DEF none
    <2>3. \A i \in 1..Len(none) : FALSE
      BY <2>2
    <2> QED
      BY <2>1, <2>2, <2>3, SendAfterTalks DEF Talks
  <1>2. ASSUME RecvOther
        PROVE  Talks
    <2>1. AckNow(remoteIdx).type = "ack" /\ AckNow(remoteIdx) \in ToClientMessages
      BY AckNowBuilt DEF TypeOK
    <2> DEFINE t == <<AckNow(remoteIdx)>>
    <2>2. t \in Seq(ToClientMessages) /\ Len(t) = 1 /\ t[1].type = "ack"
      BY <2>1
    <2>3. open /\ Sends(t)
      BY <1>2 DEF RecvOther
    <2> HIDE DEF t
    <2>4. Talk(t)
      BY <2>2 DEF Talk
    <2> QED
      BY <2>3, <2>4 DEF Talks
  <1> QED
    BY <1>1, <1>2

-----------------------------------------------------------------------------
(* The types. *)

LEMMA TypeInit == Init => TypeOK
  <1> SUFFICES ASSUME Init
               PROVE  TypeOK
    OBVIOUS
  <1> DEFINE hello == Hello(1)
  <1>1. hello \in ToClientMessages
    BY MessagesBuilt
  <1>2. toClient = <<hello>> /\ toDevice = <<>> /\ localQueue = <<>>
    BY DEF Init
  <1> HIDE DEF hello
  <1>3. /\ toClient \in Seq(ToClientMessages) /\ toDevice \in Seq(ToDeviceMessages)
        /\ localQueue \in Seq(Messages)
    BY <1>1, <1>2
  <1>4. /\ open \in BOOLEAN /\ inhibition \in BOOLEAN /\ topAck \in BOOLEAN
        /\ client \in {"lost", "greeted", "open"}
    BY DEF Init
  <1> QED
    BY <1>3, <1>4 DEF Init, TypeOK

LEMMA Counting ==
    ASSUME NEW n \in Nat
    PROVE  /\ (n + 1) % LocalMod \in Nat /\ (n + 1) % RemoteMod \in Nat
           /\ (n % LocalMod) \in 0..LocalMod-1 /\ (n % RemoteMod) \in 0..RemoteMod-1
  BY UsbLinkConstants

LEMMA SendAfterType ==
    ASSUME TypeOK, NEW before, SendAfter(before)
    PROVE  localIdx' \in Nat /\ inhibition' \in BOOLEAN /\ sent' \in Nat
  <1>1. localIdx' \in Nat /\ sent' \in Nat
    BY Counting DEF TypeOK, SendAfter
  <1>2. inhibition' \in BOOLEAN
    BY Zenon DEF TypeOK, SendAfter
  <1> QED
    BY <1>1, <1>2

LEMMA TalksType ==
    ASSUME TypeOK, Talks
    PROVE  toClient' \in Seq(ToClientMessages) /\ \E t : Talk(t) /\ Joined(toClient, t, toClient')
  BY DeviceSendsMore DEF Talks, Talk

LEMMA DeviceType == TypeOK /\ (Device \/ DeviceSends) => TypeOK'
  <1> SUFFICES ASSUME TypeOK, Device \/ DeviceSends
               PROVE  TypeOK'
    OBVIOUS
  <1>1. CASE RecvAck
    <2>1. toClient' \in Seq(ToClientMessages) /\ localQueue' \in Seq(Messages)
      BY <1>1, RecvAckTalks, TalksType
    <2>2. toDevice' \in Seq(ToDeviceMessages)
      BY <1>1, DeviceTakes DEF RecvAck
    <2>3. inhibition' \in BOOLEAN /\ topAck' \in BOOLEAN
      BY <1>1, Zenon DEF TypeOK, RecvAck
    <2>4. UNCHANGED <<open, session, localIdx, remoteIdx, computer, sent, got, asked, served, lost>>
      BY <1>1 DEF RecvAck
    <2> QED
      BY <2>1, <2>2, <2>3, <2>4 DEF TypeOK, computer
  <1>2. CASE DeviceSends
    <2>1. toClient' \in Seq(ToClientMessages) /\ localQueue' \in Seq(Messages)
      BY <1>2, OthersTalk, TalksType
    <2>2. localIdx' \in Nat /\ inhibition' \in BOOLEAN /\ sent' \in Nat
      BY <1>2, SendAfterType DEF DeviceSends
    <2>3. UNCHANGED <<open, session, remoteIdx, computer, got, asked, served, topAck, toDevice, lost>>
      BY <1>2 DEF DeviceSends
    <2> QED
      BY <2>1, <2>2, <2>3 DEF TypeOK, computer
  <1>3. CASE RecvNext
    <2>1. toClient' \in Seq(ToClientMessages) /\ localQueue' \in Seq(Messages)
      BY <1>3, RecvNextTalks, TalksType
    <2>2. localIdx' \in Nat /\ inhibition' \in BOOLEAN /\ sent' \in Nat
      <3>1. CASE UNCHANGED <<localIdx, localQueue, inhibition, sent>>
        BY <3>1 DEF TypeOK
      <3> QED
        BY <1>3, <3>1, RecvNextTalks, SendAfterType
    <2>3. toDevice' \in Seq(ToDeviceMessages)
      BY <1>3, DeviceTakes DEF RecvNext
    <2>4. remoteIdx' \in Nat /\ served' \in Nat
      BY <1>3, Counting DEF TypeOK, RecvNext
    <2>5. UNCHANGED <<open, session, computer, got, asked, topAck, lost>>
      BY <1>3 DEF RecvNext
    <2> QED
      BY <2>1, <2>2, <2>3, <2>4, <2>5 DEF TypeOK, computer
  <1>4. CASE RecvOther
    <2>1. toClient' \in Seq(ToClientMessages)
      BY <1>4, OthersTalk, TalksType
    <2>2. toDevice' \in Seq(ToDeviceMessages)
      BY <1>4, DeviceTakes DEF RecvOther
    <2>3. UNCHANGED <<device, computer, counts, lost>>
      BY <1>4 DEF RecvOther
    <2> QED
      BY <2>1, <2>2, <2>3 DEF TypeOK, computer, device, counts
  <1>5. CASE RecvReset
    <2>1. toClient' \in Seq(ToClientMessages)
      BY <1>5, MessagesBuilt, DeviceSendsOne DEF RecvReset, TypeOK
    <2>2. toDevice' \in Seq(ToDeviceMessages)
      BY <1>5, DeviceTakes DEF RecvReset
    <2>3. open' \in BOOLEAN /\ session' \in Nat \ {0}
      <3>1. session' = session + 1 /\ session \in Nat
        BY <1>5 DEF RecvReset, TypeOK
      <3>2. open' \in BOOLEAN
        BY <1>5 DEF RecvReset
      <3> QED
        BY <3>1, <3>2
    <2>4. UNCHANGED <<localIdx, remoteIdx, localQueue, inhibition, computer, counts, lost>>
      BY <1>5 DEF RecvReset
    <2> QED
      BY <2>1, <2>2, <2>3, <2>4 DEF TypeOK, computer, counts
  <1>6. CASE RecvShake
    <2>1. toClient' \in Seq(ToClientMessages)
      BY <1>6, MessagesBuilt, DeviceSendsOne DEF RecvShake, TypeOK
    <2>2. toDevice' \in Seq(ToDeviceMessages)
      BY <1>6, DeviceTakes DEF RecvShake
    <2>3. open' \in BOOLEAN /\ inhibition' \in BOOLEAN /\ topAck' \in BOOLEAN
      BY <1>6 DEF RecvShake
    <2>4. localQueue' = <<>> /\ localQueue' \in Seq(Messages)
      BY <1>6 DEF RecvShake
    <2>5. /\ localIdx' = 0 /\ remoteIdx' = 0
          /\ sent' = 0 /\ got' = 0 /\ asked' = 0 /\ served' = 0
          /\ UNCHANGED <<session, computer, lost>>
      BY <1>6 DEF RecvShake
    <2> QED
      BY <2>1, <2>2, <2>3, <2>4, <2>5 DEF TypeOK, computer
  <1>7. CASE RecvRequest \/ Ignore
    <2>1. toClient' \in Seq(ToClientMessages)
      BY <1>7, MessagesBuilt, DeviceSendsOne DEF RecvRequest, Ignore, TypeOK
    <2>2. toDevice' \in Seq(ToDeviceMessages)
      BY <1>7, DeviceTakes DEF RecvRequest, Ignore
    <2>3. UNCHANGED <<device, computer, counts, lost>>
      BY <1>7 DEF RecvRequest, Ignore
    <2> QED
      BY <2>1, <2>2, <2>3 DEF TypeOK, computer, device, counts
  <1> QED
    BY <1>1, <1>2, <1>3, <1>4, <1>5, <1>6, <1>7 DEF Device

LEMMA ClientType ==
    TypeOK /\ (ClientReads \/ ClientAsks \/ ClientAsksAgain \/ ClientRequests \/ ClientResets \/ Lose)
        => TypeOK'
  <1> SUFFICES ASSUME TypeOK,
                      \/ ClientReads \/ ClientAsks \/ ClientAsksAgain
                      \/ ClientRequests \/ ClientResets \/ Lose
               PROVE  TypeOK'
    OBVIOUS
  <1>1. CASE ClientGreeted
    <2>1. /\ toClient[1] \in ToClientMessages /\ toClient' \in Seq(ToClientMessages)
          /\ toClient[1] = Head(toClient) /\ toClient[1].type = "hello"
      BY <1>1, ClientTakesFirst DEF ClientGreeted
    <2>2. toClient[1].s \in Nat
      BY <2>1, MessageToClient DEF OfSession
    <2>3. toDevice' \in Seq(ToDeviceMessages)
      BY <1>1, <2>1, <2>2, MessagesBuilt, ClientTells DEF ClientGreeted
    <2>4. client' = "greeted" /\ cSession' \in Nat
      BY <1>1, <2>1, <2>2 DEF ClientGreeted
    <2>5. UNCHANGED <<device, cExpects, cNext, asking, counts, lost>>
      BY <1>1 DEF ClientGreeted
    <2> QED
      BY <2>1, <2>3, <2>4, <2>5 DEF TypeOK, device, counts
  <1>2. CASE ClientOpens
    <2>1. toClient' \in Seq(ToClientMessages)
      BY <1>2, ClientTakesFirst DEF ClientOpens
    <2>2. client' = "open" /\ cExpects' = 0 /\ cNext' = 0 /\ asking' = NoMsg
          /\ UNCHANGED <<device, cSession, counts, toDevice, lost>>
      BY <1>2 DEF ClientOpens
    <2> QED
      BY <2>1, <2>2 DEF TypeOK, device, counts
  <1>3. CASE ClientAccepts
    <2>1. toClient' \in Seq(ToClientMessages)
      BY <1>3, ClientTakesFirst DEF ClientAccepts
    <2>2. cExpects' \in Nat /\ got' \in Nat
      BY <1>3, Counting DEF ClientAccepts, TypeOK
    <2>3. toDevice' \in Seq(ToDeviceMessages)
      BY <1>3, <2>2, AckNowBuilt, ClientTells DEF ClientAccepts
    <2>4. UNCHANGED <<device, client, cSession, cNext, asking, sent, asked, served, topAck, lost>>
      BY <1>3 DEF ClientAccepts
    <2> QED
      BY <2>1, <2>2, <2>3, <2>4 DEF TypeOK, device
  <1>4. CASE ClientRepeatsAck
    <2>1. toClient' \in Seq(ToClientMessages)
      BY <1>4, ClientTakesFirst DEF ClientRepeatsAck
    <2>2. toDevice' \in Seq(ToDeviceMessages)
      BY <1>4, AckNowBuilt, ClientTells DEF ClientRepeatsAck, TypeOK
    <2>3. UNCHANGED <<device, computer, counts, lost>>
      BY <1>4 DEF ClientRepeatsAck
    <2> QED
      BY <2>1, <2>2, <2>3 DEF TypeOK, device, computer, counts
  <1>5. CASE ClientAcked
    <2>1. toClient' \in Seq(ToClientMessages)
      BY <1>5, ClientTakesFirst DEF ClientAcked
    <2>2. asking' \in Messages \cup {NoMsg}
      BY <1>5 DEF ClientAcked, TypeOK
    <2>3. UNCHANGED <<device, client, cSession, cExpects, cNext, counts, toDevice, lost>>
      BY <1>5 DEF ClientAcked
    <2> QED
      BY <2>1, <2>2, <2>3 DEF TypeOK, device, counts
  <1>6. CASE ClientIgnores
    <2>1. toClient' \in Seq(ToClientMessages)
      BY <1>6, ClientTakesFirst DEF ClientIgnores
    <2>2. UNCHANGED <<device, computer, counts, toDevice, lost>>
      BY <1>6 DEF ClientIgnores
    <2> QED
      BY <2>1, <2>2 DEF TypeOK, device, computer, counts
  <1>7. CASE ClientAsks
    <2>1. /\ asking' \in Messages /\ asking' \in ToDeviceMessages
          /\ cNext' \in Nat /\ asked' \in Nat
      <3>1. cNext \in Nat /\ cSession \in Nat /\ asked \in Nat
        BY DEF TypeOK
      <3>2. /\ asking' = Msg(cNext, cSession, asked + 1)
            /\ cNext' = (cNext + 1) % RemoteMod /\ asked' = asked + 1
        BY <1>7 DEF ClientAsks
      <3>3. asked + 1 \in Nat
        BY <3>1
      <3> QED
        BY <3>1, <3>2, <3>3, Counting, MessagesBuilt
    <2>2. toDevice' \in Seq(ToDeviceMessages)
      BY <1>7, <2>1, ClientTells DEF ClientAsks
    <2>3. UNCHANGED <<device, client, cSession, cExpects, sent, got, served, topAck, toClient, lost>>
      BY <1>7 DEF ClientAsks
    <2> QED
      BY <2>1, <2>2, <2>3 DEF TypeOK, device
  <1>8. CASE ClientAsksAgain \/ ClientRequests
    <2>1. asking \in ToDeviceMessages \/ asking = NoMsg
      BY DEF TypeOK, ToDeviceMessages
    <2>2. toDevice' \in Seq(ToDeviceMessages)
      BY <1>8, <2>1, MessagesBuilt, ClientTells DEF ClientAsksAgain, ClientRequests
    <2>3. UNCHANGED <<device, computer, counts, toClient, lost>>
      BY <1>8 DEF ClientAsksAgain, ClientRequests
    <2> QED
      BY <2>2, <2>3 DEF TypeOK, device, computer, counts
  <1>9. CASE ClientResets
    <2>1. toDevice' \in Seq(ToDeviceMessages)
      BY <1>9, MessagesBuilt, ClientTells DEF ClientResets
    <2>2. client' = "lost"
          /\ UNCHANGED <<device, cSession, cExpects, cNext, asking, counts, toClient, lost>>
      BY <1>9 DEF ClientResets
    <2> QED
      BY <2>1, <2>2 DEF TypeOK, device, counts
  <1>10. CASE Lose
    <2>1. toClient' \in Seq(ToClientMessages)
      BY <1>10, LoseOne
    <2>2. lost' \in Nat /\ UNCHANGED <<device, computer, counts, toDevice>>
      BY <1>10 DEF Lose, TypeOK
    <2> QED
      BY <2>1, <2>2 DEF TypeOK, device, computer, counts
  <1> QED
    BY <1>1, <1>2, <1>3, <1>4, <1>5, <1>6, <1>7, <1>8, <1>9, <1>10 DEF ClientReads

LEMMA TypeStep == TypeOK /\ [Next]_vars => TypeOK'
  <1>1. TypeOK /\ UNCHANGED vars => TypeOK'
    BY DEF TypeOK, vars, device, computer, counts
  <1> QED
    BY <1>1, DeviceType, ClientType DEF Next

-----------------------------------------------------------------------------
(* The numbers of the device and its queue. *)

ClientSide ==
    ClientReads \/ ClientAsks \/ ClientAsksAgain \/ ClientRequests \/ ClientResets \/ Lose

LEMMA StepKinds ==
    [Next]_vars =>
        \/ RecvAck \/ DeviceSends \/ RecvNext \/ RecvOther \/ RecvReset
        \/ RecvShake \/ RecvRequest \/ Ignore \/ ClientSide \/ UNCHANGED vars
  BY DEF Next, Device, ClientSide

LEMMA DeviceRests ==
    RecvOther \/ RecvRequest \/ Ignore \/ ClientSide \/ UNCHANGED vars
        => UNCHANGED <<device, sent, served, topAck>>
  BY DEF RecvOther, RecvRequest, Ignore, ClientSide, ClientReads, ClientGreeted, ClientOpens,
         ClientAccepts, ClientRepeatsAck, ClientAcked, ClientIgnores, ClientAsks, ClientAsksAgain,
         ClientRequests, ClientResets, Lose, counts, vars, device

LEMMA CountedType ==
    ASSUME TypeOK
    PROVE  Counted \in Nat /\ Counted <= session /\ session <= Counted + 1
           /\ (open => Counted = session) /\ (~open => Counted = session - 1)
  BY DEF TypeOK, Counted

LEMMA QueueGrows ==
    ASSUME TypeOK, Numbers, open, NEW before, SendAfter(before), UNCHANGED <<open, session>>,
           Added(localQueue, Msg(localIdx, session, sent + 1), localQueue')
    PROVE  /\ localIdx' = sent' % LocalMod
           /\ Len(localQueue') <= sent' /\ Len(localQueue') <= MaxQueue
           /\ Acked' = Acked /\ sent' = sent + 1
           /\ \A i \in 1..Len(localQueue') :
                  localQueue'[i] = Msg(LocalNumber(Acked' + i), Counted', Acked' + i)
  <1>1. /\ localIdx' = (localIdx + 1) % LocalMod /\ sent' = sent + 1
        /\ Len(localQueue) < MaxQueue
    BY DEF SendAfter
  <1>2. /\ sent \in Nat /\ Len(localQueue) \in Nat /\ MaxQueue \in Nat /\ LocalMod \in Nat \ {0}
        /\ Len(localQueue) <= sent /\ localIdx = sent % LocalMod
    BY UsbLinkConstants DEF TypeOK, Numbers
  <1>3. localIdx' = sent' % LocalMod
    BY <1>1, <1>2, NextRemainder
  <1>4. Len(localQueue') = Len(localQueue) + 1
    BY DEF Added
  <1>5. Acked' = Acked /\ Acked \in Nat /\ Acked + Len(localQueue) = sent
    BY <1>1, <1>2, <1>4 DEF Acked
  <1>6. Counted' = Counted /\ Counted = session
    BY DEF Counted
  <1>7. ASSUME NEW i \in 1..Len(localQueue')
        PROVE  localQueue'[i] = Msg(LocalNumber(Acked' + i), Counted', Acked' + i)
    <2>1. CASE i \in 1..Len(localQueue)
      <3>1. localQueue'[i] = localQueue[i]
        BY <2>1 DEF Added
      <3>2. localQueue[i] = Msg(LocalNumber(Acked + i), Counted, Acked + i)
        BY <2>1 DEF Numbers
      <3> QED
        BY <1>5, <1>6, <3>1, <3>2
    <2>2. CASE i = Len(localQueue) + 1
      <3>1. Acked + i = sent + 1 /\ LocalNumber(Acked + i) = localIdx
        BY <1>2, <1>5, <2>2 DEF LocalNumber
      <3> QED
        BY <1>5, <1>6, <2>2, <3>1 DEF Added
    <2> QED
      BY <1>2, <1>4, <2>1, <2>2
  <1> QED
    BY <1>1, <1>2, <1>3, <1>4, <1>5, <1>7

LEMMA NumbersStep ==
    ASSUME TypeOK, Numbers, [Next]_vars
    PROVE  Numbers'
  <1>1. CASE RecvAck
    <2>1. PICK k \in 0..Len(localQueue) :
              /\ Len(localQueue') = Len(localQueue) - k
              /\ \A i \in 1..Len(localQueue') : localQueue'[i] = localQueue[k + i]
      BY <1>1, RecvAckTalks
    <2>2. UNCHANGED <<open, session, localIdx, remoteIdx, sent, served>>
      BY <1>1 DEF RecvAck
    <2>3. /\ sent \in Nat /\ Len(localQueue) \in Nat /\ MaxQueue \in Nat
          /\ Len(localQueue) <= sent /\ Len(localQueue) <= MaxQueue
      BY UsbLinkConstants DEF TypeOK, Numbers
    <2>4. Acked' = Acked + k /\ Counted' = Counted /\ Acked \in Nat
      BY <2>1, <2>2, <2>3 DEF Acked, Counted
    <2>5. ASSUME NEW i \in 1..Len(localQueue')
          PROVE  localQueue'[i] = Msg(LocalNumber(Acked' + i), Counted', Acked' + i)
      <3>1. k + i \in 1..Len(localQueue) /\ Acked' + i = Acked + (k + i)
        BY <2>1, <2>3, <2>4
      <3>2. localQueue[k + i] = Msg(LocalNumber(Acked + (k + i)), Counted, Acked + (k + i))
        BY <3>1 DEF Numbers
      <3> QED
        BY <2>1, <2>4, <3>1, <3>2
    <2>6. Len(localQueue') <= sent' /\ Len(localQueue') <= MaxQueue
      BY <2>1, <2>2, <2>3
    <2>7. localIdx' = sent' % LocalMod /\ remoteIdx' = served' % RemoteMod
      BY <2>2 DEF Numbers
    <2> QED
      BY <2>5, <2>6, <2>7 DEF Numbers
  <1>2. CASE DeviceSends
    <2>1. open /\ SendAfter(<<>>) /\ UNCHANGED <<open, session, remoteIdx, served>>
      BY <1>2 DEF DeviceSends
    <2>2. remoteIdx' = served' % RemoteMod
      BY <2>1 DEF Numbers
    <2> QED
      BY <1>2, <2>1, <2>2, OthersTalk, QueueGrows DEF Numbers
  <1>3. CASE RecvNext
    <2>1. open /\ UNCHANGED <<open, session>>
          /\ remoteIdx' = (remoteIdx + 1) % RemoteMod /\ served' = served + 1
      BY <1>3 DEF RecvNext
    <2>2. remoteIdx' = served' % RemoteMod
      BY <2>1, NextRemainder, UsbLinkConstants DEF Numbers, TypeOK
    <2>3. CASE UNCHANGED <<localIdx, localQueue, inhibition, sent>>
      <3>1. Acked' = Acked /\ Counted' = Counted
        BY <2>1, <2>3 DEF Acked, Counted
      <3> QED
        BY <2>2, <2>3, <3>1 DEF Numbers
    <2> QED
      BY <1>3, <2>1, <2>2, <2>3, RecvNextTalks, QueueGrows DEF Numbers
  <1>4. CASE RecvReset
    <2>1. UNCHANGED <<localIdx, remoteIdx, localQueue, sent, served>>
          /\ open /\ open' = FALSE /\ session' = session + 1
      BY <1>4 DEF RecvReset, counts
    <2>2. Acked' = Acked /\ Counted' = Counted
      BY <2>1 DEF Acked, Counted, TypeOK
    <2> QED
      BY <2>1, <2>2 DEF Numbers
  <1>5. CASE RecvShake
    <2>1. localIdx' = 0 /\ remoteIdx' = 0 /\ sent' = 0 /\ served' = 0 /\ Len(localQueue') = 0
      BY <1>5 DEF RecvShake
    <2>2. 0 % LocalMod = 0 /\ 0 % RemoteMod = 0 /\ 0 <= MaxQueue
      BY UsbLinkConstants
    <2> QED
      BY <2>1, <2>2 DEF Numbers
  <1>6. CASE RecvOther \/ RecvRequest \/ Ignore \/ ClientSide \/ UNCHANGED vars
    <2>1. UNCHANGED <<device, sent, served, topAck>>
      BY <1>6, DeviceRests
    <2>2. UNCHANGED <<open, session, localIdx, remoteIdx, localQueue, sent, served>>
      BY <2>1 DEF device
    <2>3. Acked' = Acked /\ Counted' = Counted
      BY <2>2 DEF Acked, Counted
    <2> QED
      BY <2>2, <2>3 DEF Numbers
  <1> QED
    BY <1>1, <1>2, <1>3, <1>4, <1>5, <1>6, StepKinds

\* What the sides rely on about the queue: where it stands and what it holds.
LEMMA QueueFacts ==
    ASSUME TypeOK, Numbers
    PROVE  /\ Len(localQueue) \in Nat /\ sent \in Nat /\ Acked \in Nat
           /\ Acked + Len(localQueue) = sent /\ sent <= Acked + MaxQueue
           /\ \A i \in 1..Len(localQueue) :
                  /\ localQueue[i].type = "msg" /\ localQueue[i].s = Counted
                  /\ localQueue[i].n = Acked + i /\ localQueue[i].idx = LocalNumber(Acked + i)
  <1>1. /\ Len(localQueue) \in Nat /\ sent \in Nat /\ MaxQueue \in Nat
        /\ Len(localQueue) <= sent /\ Len(localQueue) <= MaxQueue
    BY UsbLinkConstants DEF TypeOK, Numbers
  <1>2. Acked \in Nat /\ Acked + Len(localQueue) = sent /\ sent <= Acked + MaxQueue
    BY <1>1 DEF Acked
  <1>3. ASSUME NEW i \in 1..Len(localQueue)
        PROVE  /\ localQueue[i].type = "msg" /\ localQueue[i].s = Counted
               /\ localQueue[i].n = Acked + i /\ localQueue[i].idx = LocalNumber(Acked + i)
    <2>1. localQueue[i] = Msg(LocalNumber(Acked + i), Counted, Acked + i)
      BY DEF Numbers
    <2> QED
      BY <2>1 DEF Msg
  <1> QED
    BY <1>1, <1>2, <1>3

-----------------------------------------------------------------------------
(* An acknowledgement pops no more than the client had taken when it sent it. *)

LEMMA AckPops ==
    ASSUME TypeOK, Numbers, Window, RecvAck, ~topAck',
           NEW places \in [1..Len(toDevice) -> 0..got], AcksFrom(places)
    PROVE  Acked' <= places[1]
  <1> DEFINE seq == Head(toDevice).idx
             p == places[1]
  <1>1. /\ Len(toDevice) \in Nat \ {0} /\ Head(toDevice) = toDevice[1]
        /\ toDevice[1].type = "ack"
    BY DeviceTakes DEF RecvAck
  <1>2. /\ p \in 0..got /\ Acked <= p /\ seq = Previous(p % LocalMod, LocalMod)
    BY <1>1 DEF AcksFrom
  <1>3. /\ UNCHANGED sent
        /\ topAck' = (topAck \/ (localQueue # <<>> /\ seq = LocalMod - 1
                                  /\ localQueue[Len(localQueue)].idx # seq))
    BY DEF RecvAck
  <1>4. PICK k \in 0..Len(localQueue) :
            k = Covered(seq) /\ Len(localQueue') = Len(localQueue) - k
    BY RecvAckTalks
  <1>5. \A i \in 1..k : Covers(seq, localQueue[i].idx)
    BY <1>4, CoveredIsPrefix DEF TypeOK
  <1>6. /\ Len(localQueue) \in Nat /\ sent \in Nat /\ Acked \in Nat /\ got \in Nat
        /\ Acked + Len(localQueue) = sent
    BY QueueFacts DEF TypeOK
  <1>7. Acked' = Acked + k
    BY <1>3, <1>4, <1>6 DEF Acked
  <1> SUFFICES Acked' <= p
    OBVIOUS
  <1> HIDE DEF seq, p
  <1>8. CASE localQueue = <<>>
    <2>1. k = 0
      BY <1>4, <1>8
    <2> QED
      BY <1>2, <1>6, <1>7, <2>1
  <1>9. CASE localQueue # <<>>
    \* The highest number pops no more where it is that of the last message.
    <2>1. CASE seq = LocalMod - 1
      <3> DEFINE last == Len(localQueue)
                 q == sent - 1
      <3>1. ~topAck /\ localQueue[Len(localQueue)].idx = seq
        <4>1. /\ topAck \in BOOLEAN /\ ~topAck'
              /\ topAck' = (topAck \/ (localQueue # <<>> /\ seq = LocalMod - 1
                                        /\ localQueue[Len(localQueue)].idx # seq))
          BY <1>3 DEF TypeOK
        <4> HIDE DEF last, q
        <4> QED
          BY <1>9, <2>1, <4>1, Zenon
      <3>2. last > 0 /\ last \in 1..Len(localQueue) /\ Acked + last = sent
        <4>1. Len(localQueue) # 0
          BY <1>9, EmptySeq DEF TypeOK
        <4> QED
          BY <1>6, <4>1
      <3>3. q \in Nat /\ q % LocalMod = LocalMod - 1
        <4>1. localQueue[last].idx = LocalNumber(Acked + last)
          BY <3>2, QueueFacts
        <4> QED
          BY <1>6, <2>1, <3>1, <3>2, <4>1 DEF LocalNumber
      <3>4. q + 1 = sent
        BY <1>6
      <3> HIDE DEF q, last
      <3>5. sent % LocalMod = 0
        <4>1. LocalMod \in Nat \ {0} /\ (q + 1) % LocalMod = ((q % LocalMod) + 1) % LocalMod
          BY <3>3, UsbLinkConstants, NextRemainder
        <4>2. LocalMod % LocalMod = 0
          BY <4>1
        <4>3. (LocalMod - 1) + 1 = LocalMod
          BY <4>1
        <4> QED
          BY <3>3, <3>4, <4>1, <4>2, <4>3
      <3>6. p % LocalMod = 0
        <4>1. p % LocalMod \in 0..LocalMod-1
          BY <1>2, <1>6, Counting
        <4> QED
          BY <1>2, <2>1, <4>1, UsbLinkConstants DEF Previous
      <3>7. p <= sent /\ sent - p < LocalMod
        <4>1. got <= sent
          BY <3>1 DEF Window
        <4>2. sent <= Acked + MaxQueue
          BY QueueFacts
        <4>3. MaxQueue \in Nat /\ LocalMod \in Nat /\ MaxQueue < LocalMod
          BY UsbLinkConstants, UsbLinkWindow
        <4> QED
          BY <1>2, <1>6, <4>1, <4>2, <4>3
      <3>8. p = sent
        <4>1. p \in Nat /\ LocalMod \in Nat \ {0} /\ p - sent < LocalMod
          BY <1>2, <1>6, <3>7, UsbLinkConstants
        <4> QED
          BY <1>6, <3>5, <3>6, <3>7, <4>1, SameRemainder
      <3> QED
        BY <1>4, <1>6, <1>7, <3>8
    <2>2. seq # LocalMod - 1 => p % LocalMod # 0 /\ seq = (p % LocalMod) - 1
                                /\ p % LocalMod \in 0..LocalMod-1
      BY <1>2, <1>6, Counting DEF Previous
    <2>3. CASE seq # LocalMod - 1 /\ p - Acked < Len(localQueue)
      <3> DEFINE j == p - Acked + 1
      <3>1. j \in 1..Len(localQueue) /\ Acked + j = p + 1
        BY <1>2, <1>6, <2>3
      <3>2. localQueue[j].idx = p % LocalMod
        <4>1. localQueue[j].idx = LocalNumber(Acked + j)
          BY <3>1, QueueFacts
        <4>2. (p + 1) - 1 = p
          BY <1>2, <1>6
        <4> QED
          BY <3>1, <4>1, <4>2 DEF LocalNumber
      <3>3. ~Covers(seq, localQueue[j].idx)
        BY <2>2, <2>3, <3>2, UsbLinkConstants, UsbLinkWindow DEF Covers
      <3>4. ~(j \in 1..k)
        BY <1>5, <3>3
      <3> QED
        BY <1>2, <1>4, <1>6, <1>7, <3>1, <3>4
    <2>4. CASE p - Acked >= Len(localQueue)
      BY <1>2, <1>4, <1>6, <1>7, <2>4
    <2> QED
      BY <1>2, <1>6, <2>1, <2>3, <2>4
  <1> QED
    BY <1>8, <1>9

(* The client accepts the next message only. *)

LEMMA AcceptsNext ==
    ASSUME TypeOK, Numbers, Window, ClientNumbers, Sessions, MessagesClose, ClientAccepts, ~topAck
    PROVE  /\ Head(toClient).n = got + 1 /\ Head(toClient).s = Counted /\ cSession = Counted
           /\ got + 1 <= sent
  <1> DEFINE m == toClient[1]
  <1>1. /\ Len(toClient) \in Nat \ {0} /\ Head(toClient) = m /\ m \in ToClientMessages
    BY ClientTakesFirst DEF ClientAccepts
  <1>2. client = "open" /\ m.type = "msg" /\ m.idx = cExpects
    BY <1>1 DEF ClientAccepts
  <1>3. 1 \in 1..Len(toClient)
    BY <1>1
  <1>4. m.n \in Nat /\ m.s \in Nat /\ OfSession(m) /\ Rank(m) = 2 * m.s + 1
    BY <1>1, <1>2, MessageToClient DEF OfSession, Rank
  <1>5. m.s <= Counted /\ Rank(m) > 2 * Counted /\ cSession = Counted
    BY <1>2, <1>3, <1>4 DEF Sessions, Placed
  <1>6. m.s = Counted
    BY <1>4, <1>5, CountedType
  <1>7. /\ m.n > 0 /\ m.idx = LocalNumber(m.n) /\ m.n <= sent /\ got < m.n + MaxQueue
    BY <1>2, <1>3, <1>6 DEF MessagesClose, Numbered, InWindow
  <1>8. cExpects = got % LocalMod
    BY <1>2 DEF ClientNumbers
  <1>9. Acked <= got /\ got <= sent /\ sent <= Acked + MaxQueue /\ got \in Nat /\ sent \in Nat
        /\ Acked \in Nat /\ LocalMod \in Nat \ {0} /\ MaxQueue \in Nat /\ MaxQueue < LocalMod
    BY QueueFacts, UsbLinkConstants, UsbLinkWindow DEF Window, TypeOK
  <1> HIDE DEF m
  <1> DEFINE q == m.n - 1
  <1>10. q \in Nat /\ q - got < LocalMod /\ got - q < LocalMod
    BY <1>4, <1>7, <1>9
  <1>11. q % LocalMod = got % LocalMod
    BY <1>2, <1>7, <1>8 DEF LocalNumber
  <1>12. q = got
    <2> HIDE DEF q
    <2> QED
      BY <1>9, <1>10, <1>11, SameRemainder
  <1>13. m.n = got + 1 /\ got + 1 <= sent
    BY <1>4, <1>7, <1>9, <1>12
  <1> QED
    BY <1>1, <1>5, <1>6, <1>13

LEMMA GotRests ==
    [Next]_vars => RecvShake \/ ClientAccepts \/ UNCHANGED got
  BY DEF Next, Device, RecvAck, DeviceSends, RecvNext, RecvReset, RecvOther, RecvRequest, Ignore,
         ClientReads, ClientGreeted, ClientOpens, ClientRepeatsAck, ClientAcked, ClientIgnores,
         ClientAsks, ClientAsksAgain, ClientRequests, ClientResets, Lose, counts, vars

LEMMA WindowStep ==
    ASSUME IInv, [Next]_vars, TypeOK', Numbers'
    PROVE  Window'
  <1> SUFFICES ASSUME ~topAck'
               PROVE  Acked' <= got' /\ got' <= sent'
    BY DEF Window
  <1> USE DEF IInv
  <1>1. CASE RecvAck
    <2>1. open /\ UNCHANGED <<got, sent>>
      BY <1>1 DEF RecvAck
    <2>2. ~topAck
      BY <1>1, Zenon DEF RecvAck
    <2>3. PICK places \in [1..Len(toDevice) -> 0..got] : AcksFrom(places)
      BY <2>1, <2>2 DEF AcksInOrder
    <2>4. Acked' <= places[1] /\ places[1] \in 0..got
      BY <1>1, <2>3, AckPops, DeviceTakes DEF RecvAck
    <2>5. got <= sent /\ got \in Nat
      BY <2>2 DEF Window, TypeOK
    <2>6. sent' \in Nat /\ Len(localQueue') \in Nat
      BY DEF TypeOK
    <2>7. Acked' \in Int
      BY <2>6 DEF Acked
    <2> QED
      BY <2>1, <2>4, <2>5, <2>7
  <1>2. CASE DeviceSends \/ RecvNext
    <2>1. UNCHANGED <<got, topAck>> /\ open /\ UNCHANGED <<open, session>>
      BY <1>2 DEF DeviceSends, RecvNext
    <2>2. Acked <= got /\ got <= sent /\ sent \in Nat /\ got \in Nat
      BY <2>1 DEF Window, TypeOK
    <2>3. CASE UNCHANGED <<localIdx, localQueue, inhibition, sent>>
      BY <2>1, <2>2, <2>3 DEF Acked
    <2>4. CASE ~UNCHANGED <<localIdx, localQueue, inhibition, sent>>
      <3>1. PICK before : SendAfter(before)
        BY <1>2, <2>4, RecvNextTalks DEF DeviceSends
      <3>2. Added(localQueue, Msg(localIdx, session, sent + 1), localQueue')
        BY <1>2, <2>4, OthersTalk, RecvNextTalks
      <3>3. Acked' = Acked /\ sent' = sent + 1
        BY <2>1, <3>1, <3>2, QueueGrows
      <3> QED
        BY <2>1, <2>2, <3>3
    <2> QED
      BY <2>3, <2>4
  <1>3. CASE RecvReset
    <2>1. UNCHANGED <<localQueue, sent, got, topAck>>
      BY <1>3 DEF RecvReset, counts
    <2> QED
      BY <2>1 DEF Window, Acked
  <1>4. CASE RecvShake
    <2>1. sent' = 0 /\ got' = 0 /\ Len(localQueue') = 0
      BY <1>4 DEF RecvShake
    <2> QED
      BY <2>1 DEF Acked
  <1>5. CASE RecvOther \/ RecvRequest \/ Ignore \/ ClientSide \/ UNCHANGED vars
    <2>1. UNCHANGED <<localQueue, sent, topAck>> /\ Acked' = Acked
      BY <1>5, DeviceRests DEF device, Acked
    <2>2. CASE UNCHANGED got
      BY <2>1, <2>2 DEF Window
    <2>3. CASE ClientAccepts
      <3>1. got' = got + 1 /\ got + 1 <= sent /\ Acked <= got /\ got \in Nat /\ Acked \in Nat
        BY <2>1, <2>3, AcceptsNext, QueueFacts DEF ClientAccepts, Window, TypeOK
      <3> QED
        BY <2>1, <3>1
    <2>4. ~RecvShake
      BY <1>5, DeviceRests DEF RecvShake, device
    <2> QED
      BY <2>2, <2>3, <2>4, GotRests
  <1> QED
    BY <1>1, <1>2, <1>3, <1>4, <1>5, StepKinds

-----------------------------------------------------------------------------
(* Where a message on a wire comes from. *)

LEMMA StillThere ==
    ASSUME NEW S, NEW w \in Seq(S), NEW w2 \in Seq(S), NEW k \in 1..Len(w), Without(w, k, w2)
    PROVE  /\ \A i \in 1..Len(w2) : \E h \in 1..Len(w) : w2[i] = w[h]
           /\ \A i, j \in 1..Len(w2) : i < j =>
                  \E g, h \in 1..Len(w) : g < h /\ w2[i] = w[g] /\ w2[j] = w[h]
  <1> DEFINE At(i) == IF i < k THEN i ELSE i + 1
  <1>1. Len(w) \in Nat /\ Len(w2) = Len(w) - 1
    BY DEF Without
  <1>2. ASSUME NEW i \in 1..Len(w2)
        PROVE  At(i) \in 1..Len(w) /\ w2[i] = w[At(i)]
    BY <1>1 DEF Without
  <1>3. \A i, j \in 1..Len(w2) : i < j => At(i) < At(j)
    BY <1>1
  <1> HIDE DEF At
  <1> QED
    BY <1>2, <1>3

LEMMA OldOrNew ==
    ASSUME NEW S, NEW w \in Seq(S), NEW t \in Seq(S), NEW w2 \in Seq(S), Joined(w, t, w2)
    PROVE  /\ \A i \in 1..Len(w2) :
                  \/ i \in 1..Len(w) /\ w2[i] = w[i]
                  \/ i > Len(w) /\ \E h \in 1..Len(t) : w2[i] = t[h]
           /\ \A i \in 1..Len(w) : i \in 1..Len(w2)
  <1>1. Len(w) \in Nat /\ Len(t) \in Nat /\ Len(w2) = Len(w) + Len(t)
    BY DEF Joined
  <1>2. ASSUME NEW i \in 1..Len(w2)
        PROVE  \/ i \in 1..Len(w) /\ w2[i] = w[i]
               \/ i > Len(w) /\ \E h \in 1..Len(t) : w2[i] = t[h]
    <2>1. CASE i <= Len(w)
      BY <1>1, <2>1 DEF Joined
    <2>2. CASE i > Len(w)
      <3>1. i - Len(w) \in 1..Len(t) /\ w2[i] = t[i - Len(w)]
        BY <1>1, <2>2 DEF Joined
      <3> QED
        BY <2>2, <3>1
    <2> QED
      BY <1>1, <2>1, <2>2
  <1> QED
    BY <1>1, <1>2

LEMMA OldOrLast ==
    ASSUME NEW S, NEW w \in Seq(S), NEW m \in S, NEW w2 \in Seq(S), Added(w, m, w2)
    PROVE  /\ \A i \in 1..Len(w2) :
                  \/ i \in 1..Len(w) /\ w2[i] = w[i]
                  \/ i = Len(w) + 1 /\ w2[i] = m
           /\ \A i \in 1..Len(w) : i \in 1..Len(w2) /\ w2[i] = w[i]
           /\ Len(w) + 1 \in 1..Len(w2) /\ w2[Len(w) + 1] = m
  BY DEF Added

LEMMA ToClientShrinks ==
    ASSUME TypeOK, TypeOK', NEW k \in 1..Len(toClient), Without(toClient, k, toClient')
    PROVE  /\ \A i \in 1..Len(toClient') : \E h \in 1..Len(toClient) : toClient'[i] = toClient[h]
           /\ \A i, j \in 1..Len(toClient') : i < j =>
                  \E g, h \in 1..Len(toClient) :
                      g < h /\ toClient'[i] = toClient[g] /\ toClient'[j] = toClient[h]
  <1>1. toClient \in Seq(ToClientMessages) /\ toClient' \in Seq(ToClientMessages)
    BY DEF TypeOK
  <1> QED
    BY <1>1, StillThere

LEMMA ToClientGrows ==
    ASSUME TypeOK, TypeOK', NEW t \in Seq(ToClientMessages), Joined(toClient, t, toClient')
    PROVE  \A i \in 1..Len(toClient') :
               \/ i \in 1..Len(toClient) /\ toClient'[i] = toClient[i]
               \/ i > Len(toClient) /\ \E h \in 1..Len(t) : toClient'[i] = t[h]
  <1>1. toClient \in Seq(ToClientMessages) /\ toClient' \in Seq(ToClientMessages)
    BY DEF TypeOK
  <1> QED
    BY <1>1, OldOrNew

LEMMA ToDeviceShrinks ==
    ASSUME TypeOK, TypeOK', 1 \in 1..Len(toDevice), Without(toDevice, 1, toDevice')
    PROVE  /\ Len(toDevice') = Len(toDevice) - 1 /\ Len(toDevice) \in Nat
           /\ \A i \in 1..Len(toDevice') :
                  i + 1 \in 1..Len(toDevice) /\ toDevice'[i] = toDevice[i + 1]
  <1> DEFINE w == toDevice
             v == toDevice'
  <1>1. w \in Seq(ToDeviceMessages) /\ v \in Seq(ToDeviceMessages) /\ Without(w, 1, v)
    BY DEF TypeOK
  <1> SUFFICES /\ Len(v) = Len(w) - 1 /\ Len(w) \in Nat
               /\ \A i \in 1..Len(v) : i + 1 \in 1..Len(w) /\ v[i] = w[i + 1]
    OBVIOUS
  <1> HIDE DEF w, v
  <1> QED
    BY <1>1 DEF Without

\* What an open device says: acknowledgements and messages of its session within the window.
Fresh(m) ==
    \/ m.type = "ack"
    \/ /\ m.type = "msg" /\ m.s = session /\ m.idx = LocalNumber(m.n) /\ m.n \in Nat
       /\ m.n > 0 /\ m.n <= sent' /\ sent' < m.n + MaxQueue

LEMMA TalkIsFresh ==
    ASSUME TypeOK', Numbers', open, UNCHANGED <<open, session>>, NEW t, Talk(t)
    PROVE  \A i \in 1..Len(t) : Fresh(t[i])
  <1>1. /\ Len(localQueue') \in Nat /\ sent' \in Nat /\ MaxQueue \in Nat
        /\ Len(localQueue') <= sent' /\ Len(localQueue') <= MaxQueue
    BY UsbLinkConstants DEF TypeOK, Numbers
  <1>2. Acked' = sent' - Len(localQueue') /\ Counted' = session
    BY DEF Acked, Counted
  <1>3. ASSUME NEW j \in 1..Len(localQueue')
        PROVE  Fresh(localQueue'[j])
    <2>1. localQueue'[j] = Msg(LocalNumber(Acked' + j), session, Acked' + j)
      BY <1>2 DEF Numbers
    <2>2. /\ Acked' + j \in Nat /\ Acked' + j > 0 /\ Acked' + j <= sent'
          /\ sent' < (Acked' + j) + MaxQueue
      BY <1>1, <1>2
    <2> QED
      BY <2>1, <2>2 DEF Fresh, Msg
  <1>4. ASSUME NEW i \in 1..Len(t)
        PROVE  Fresh(t[i])
    <2>1. CASE t[i].type = "ack"
      BY <2>1 DEF Fresh
    <2>2. CASE t[i].type # "ack"
      BY <1>3, <2>2 DEF Talk
    <2> QED
      BY <2>1, <2>2
  <1> QED
    BY <1>4

TalkStep == RecvAck \/ DeviceSends \/ RecvNext \/ RecvOther

LEMMA TalkFacts ==
    ASSUME TypeOK, TypeOK', Numbers', TalkStep
    PROVE  /\ open /\ UNCHANGED <<open, session, computer, got, asked>>
           /\ Counted = session /\ Counted' = session
           /\ \E t \in Seq(ToClientMessages) :
                  Joined(toClient, t, toClient') /\ \A i \in 1..Len(t) : Fresh(t[i])
  <1>1. open /\ UNCHANGED <<open, session, computer, got, asked>>
    BY DEF TalkStep, RecvAck, DeviceSends, RecvNext, RecvOther, device, counts
  <1>2. Talks
    BY RecvAckTalks, RecvNextTalks, OthersTalk DEF TalkStep
  <1>3. PICK t : Talk(t) /\ Joined(toClient, t, toClient')
    BY <1>2, TalksType
  <1>4. \A i \in 1..Len(t) : Fresh(t[i])
    BY <1>1, <1>3, TalkIsFresh
  <1> QED
    BY <1>1, <1>3, <1>4 DEF Counted, Talk

\* A handshake ends the session before.
LEMMA ShakeFacts ==
    ASSUME TypeOK, Sessions, NothingAfterShake, TypeOK', RecvShake
    PROVE  /\ client # "open" /\ cSession = session
           /\ Counted' = session /\ Counted + 1 = session
           /\ \A k \in 1..Len(toDevice') : toDevice'[k].type \notin {"ack", "msg"}
  <1>1. /\ Len(toDevice) \in Nat \ {0} /\ Head(toDevice) = toDevice[1]
        /\ Without(toDevice, 1, toDevice')
    BY DeviceTakes DEF RecvShake
  <1>2. ~open /\ toDevice[1] = Shake(session) /\ open' /\ session' = session
    BY <1>1 DEF RecvShake
  <1>3. Counted = session - 1 /\ Counted' = session /\ session \in Nat
    BY <1>2 DEF Counted, TypeOK
  <1>4. 1 \in 1..Len(toDevice) /\ toDevice[1].type = "shake" /\ toDevice[1].s = session
    BY <1>1, <1>2 DEF Shake
  <1>5. session <= cSession /\ cSession <= session /\ cSession \in Nat
    BY <1>4 DEF Sessions, TypeOK
  <1>6. client # "open"
    BY <1>3, <1>5 DEF Sessions
  <1>7. ASSUME NEW k \in 1..Len(toDevice')
        PROVE  toDevice'[k].type \notin {"ack", "msg"}
    <2>1. k + 1 \in 1..Len(toDevice) /\ 1 < k + 1 /\ toDevice'[k] = toDevice[k + 1]
      BY <1>1 DEF Without
    <2> QED
      BY <1>2, <1>4, <2>1 DEF NothingAfterShake
  <1> QED
    BY <1>3, <1>5, <1>6, <1>7

LEMMA OpensFacts ==
    ASSUME TypeOK, Sessions, Unused, ClientOpens
    PROVE  /\ cSession = Counted /\ got = 0 /\ asked = 0
           /\ 1 \in 1..Len(toClient) /\ toClient[1] = Done(Counted)
           /\ open => \A k \in 1..Len(toDevice) : toDevice[k].type \notin {"ack", "msg"}
  <1>1. 1 \in 1..Len(toClient) /\ toClient[1] = Done(cSession)
    BY ClientTakesFirst DEF ClientOpens
  <1>2. cSession <= Counted /\ Counted <= cSession
    BY <1>1 DEF Sessions, Placed, Done
  <1>3. cSession = Counted
    BY <1>2, CountedType DEF TypeOK
  <1> QED
    BY <1>1, <1>3 DEF Unused

\* Outside a handshake nothing changes the session that is counted.
LEMMA CountedRests ==
    ASSUME TypeOK, [Next]_vars, ~RecvShake
    PROVE  Counted' = Counted
  <1>1. CASE RecvReset
    BY <1>1 DEF RecvReset, Counted, TypeOK
  <1>2. CASE RecvAck \/ DeviceSends \/ RecvNext
    BY <1>2 DEF RecvAck, DeviceSends, RecvNext, Counted
  <1>3. CASE RecvOther \/ RecvRequest \/ Ignore \/ ClientSide \/ UNCHANGED vars
    BY <1>3, DeviceRests DEF device, Counted
  <1> QED
    BY <1>1, <1>2, <1>3, StepKinds

-----------------------------------------------------------------------------
(* The numbers of the client. *)

LEMMA ComputerRests ==
    TalkStep \/ RecvReset \/ RecvShake \/ RecvRequest \/ Ignore \/ ClientRepeatsAck \/ ClientIgnores
        \/ ClientAsksAgain \/ ClientRequests \/ Lose \/ UNCHANGED vars
        => UNCHANGED <<client, cSession, cExpects, cNext, asking>>
  BY DEF TalkStep, RecvAck, DeviceSends, RecvNext, RecvOther, RecvReset, RecvShake, RecvRequest,
         Ignore, ClientRepeatsAck, ClientIgnores, ClientAsksAgain, ClientRequests, Lose, vars, computer

LEMMA CountsRest ==
    TalkStep \/ RecvReset \/ RecvRequest \/ Ignore \/ ClientRepeatsAck \/ ClientIgnores
        \/ ClientAsksAgain \/ ClientRequests \/ Lose \/ UNCHANGED vars
        => UNCHANGED <<got, asked>>
  BY DEF TalkStep, RecvAck, DeviceSends, RecvNext, RecvOther, RecvReset, RecvRequest,
         Ignore, ClientRepeatsAck, ClientIgnores, ClientAsksAgain, ClientRequests, Lose, vars, counts

LEMMA ClientNumbersStep ==
    ASSUME IInv, [Next]_vars, TypeOK'
    PROVE  ClientNumbers'
  <1> USE DEF IInv
  <1> SUFFICES ASSUME client' = "open"
               PROVE  /\ cExpects' = got' % LocalMod /\ cNext' = asked' % RemoteMod
                      /\ asking' # NoMsg =>
                             asked' > 0 /\ asking' = Msg(RemoteNumber(asked'), Counted', asked')
    BY DEF ClientNumbers
  <1>1. CASE RecvShake
    <2>1. client' = client
      BY <1>1, ComputerRests
    <2> QED
      BY <1>1, <2>1, ShakeFacts
  <1>2. CASE ~RecvShake
    <2>1. Counted' = Counted /\ got \in Nat /\ asked \in Nat
      BY <1>2, CountedRests DEF TypeOK
    <2>2. CASE TalkStep \/ RecvReset \/ RecvRequest \/ Ignore \/ ClientRepeatsAck \/ ClientIgnores
               \/ ClientAsksAgain \/ ClientRequests \/ Lose \/ UNCHANGED vars
      BY <2>1, <2>2, ComputerRests, CountsRest DEF ClientNumbers
    <2>3. CASE ClientGreeted \/ ClientResets
      BY <2>3 DEF ClientGreeted, ClientResets
    <2>4. CASE ClientOpens
      <3>1. cExpects' = 0 /\ cNext' = 0 /\ asking' = NoMsg /\ got' = got /\ asked' = asked
        BY <2>4 DEF ClientOpens, counts
      <3>2. got = 0 /\ asked = 0
        BY <2>4, OpensFacts
      <3>3. 0 % LocalMod = 0 /\ 0 % RemoteMod = 0
        BY UsbLinkConstants
      <3> QED
        BY <3>1, <3>2, <3>3
    <2>5. CASE ClientAccepts
      <3>1. client = "open" /\ cExpects' = (cExpects + 1) % LocalMod /\ got' = got + 1
            /\ UNCHANGED <<cNext, asking, asked>>
        BY <2>5 DEF ClientAccepts
      <3>2. cExpects' = got' % LocalMod
        BY <2>1, <3>1, NextRemainder, UsbLinkConstants DEF ClientNumbers
      <3> QED
        BY <2>1, <3>1, <3>2 DEF ClientNumbers
    <2>6. CASE ClientAcked
      <3>1. client = "open" /\ (asking' = asking \/ asking' = NoMsg)
            /\ UNCHANGED <<cExpects, cNext, got, asked>>
        BY <2>6 DEF ClientAcked, counts
      <3> QED
        BY <2>1, <3>1 DEF ClientNumbers
    <2>7. CASE ClientAsks
      <3>1. client = "open" /\ asking' = Msg(cNext, cSession, asked + 1)
            /\ cNext' = (cNext + 1) % RemoteMod /\ asked' = asked + 1 /\ UNCHANGED <<cExpects, got>>
        BY <2>7 DEF ClientAsks
      <3>2. cSession = Counted /\ cNext = asked % RemoteMod /\ cExpects = got % LocalMod
        BY <3>1 DEF Sessions, ClientNumbers
      <3>3. (asked + 1) - 1 = asked /\ asked + 1 > 0
        BY <2>1
      <3>4. RemoteNumber(asked + 1) = cNext
        BY <3>2, <3>3 DEF RemoteNumber
      <3>5. cNext' = asked' % RemoteMod
        BY <2>1, <3>1, <3>2, NextRemainder, UsbLinkConstants
      <3> QED
        BY <2>1, <3>1, <3>2, <3>3, <3>4, <3>5
    <2> QED
      BY <1>2, <2>2, <2>3, <2>4, <2>5, <2>6, <2>7, StepKinds DEF TalkStep, ClientSide, ClientReads
  <1> QED
    BY <1>1, <1>2

-----------------------------------------------------------------------------
(* The sessions on the wire to the client. *)

\* The ways in which the wire to the client changes.
LEMMA ToClientKinds ==
    ASSUME TypeOK, [Next]_vars
    PROVE  \/ TalkStep \/ RecvReset \/ RecvShake \/ RecvRequest
           \/ UNCHANGED toClient
           \/ /\ \E k \in 1..Len(toClient) : Without(toClient, k, toClient')
              /\ \/ Lose \/ ClientGreeted \/ ClientOpens \/ ClientAccepts
                 \/ ClientRepeatsAck \/ ClientAcked \/ ClientIgnores
  <1>1. CASE ClientReads
    <2>1. ClientTakes
      BY <1>1 DEF ClientReads, ClientGreeted, ClientOpens, ClientAccepts, ClientRepeatsAck,
                  ClientAcked, ClientIgnores
    <2>2. 1 \in 1..Len(toClient) /\ Without(toClient, 1, toClient')
      BY <2>1, ClientTakesFirst
    <2> QED
      BY <1>1, <2>2 DEF ClientReads
  <1>2. CASE Lose
    BY <1>2, LoseOne
  <1>3. CASE Ignore \/ ClientAsks \/ ClientAsksAgain \/ ClientRequests \/ ClientResets \/ UNCHANGED vars
    BY <1>3 DEF Ignore, ClientAsks, ClientAsksAgain, ClientRequests, ClientResets, vars
  <1> QED
    BY <1>1, <1>2, <1>3, StepKinds DEF TalkStep, ClientSide

LEMMA SessionRests ==
    [Next]_vars => RecvReset \/ UNCHANGED session
  BY DEF Next, Device, RecvAck, DeviceSends, RecvNext, RecvOther, RecvShake, RecvRequest, Ignore,
         ClientReads, ClientGreeted, ClientOpens, ClientAccepts, ClientRepeatsAck, ClientAcked,
         ClientIgnores, ClientAsks, ClientAsksAgain, ClientRequests, ClientResets, Lose, device, vars

\* What is said in this step is of the session, whatever was said before.
LEMMA ToClientPlaced ==
    ASSUME IInv, [Next]_vars, TypeOK', Numbers', UNCHANGED <<client, cSession>>,
           client = "open" => cSession = Counted /\ ~RecvShake
    PROVE  \A i \in 1..Len(toClient') : Placed(toClient'[i], cSession', session', Counted', client')
  <1> USE DEF IInv
  <1> DEFINE Was(m) == Placed(m, cSession, session, Counted, client)
             Now(m) == Placed(m, cSession', session', Counted', client')
  <1>01. /\ toClient \in Seq(ToClientMessages) /\ toClient' \in Seq(ToClientMessages)
         /\ Len(toClient) \in Nat
    BY DEF TypeOK
  <1>02. /\ session \in Nat /\ session' \in Nat /\ cSession \in Nat
         /\ Counted \in Nat /\ Counted <= cSession /\ cSession <= session
    <2>1. session \in Nat /\ session' \in Nat /\ cSession \in Nat
      BY DEF TypeOK
    <2>2. Counted \in Nat /\ Counted <= cSession /\ cSession <= session
      BY CountedType DEF Sessions
    <2> QED
      BY <2>1, <2>2
  <1>03. /\ Counted' \in Nat /\ Counted <= Counted' /\ Counted' <= session' /\ session <= session'
         /\ (client = "open" => Counted' = Counted)
    <2>1. session' = session \/ session' = session + 1
      BY SessionRests DEF RecvReset
    <2>2. CASE RecvShake
      <3>1. Counted' = session /\ Counted + 1 = session /\ client # "open" /\ session' = session
        BY <2>2, ShakeFacts DEF RecvShake
      <3> QED
        BY <1>02, <3>1
    <2>3. CASE ~RecvShake
      <3>1. Counted' = Counted
        BY <2>3, CountedRests
      <3> QED
        BY <1>02, <2>1, <3>1
    <2> QED
      BY <2>2, <2>3
  <1>1. ASSUME NEW m \in ToClientMessages, Was(m)
        PROVE  Now(m)
    <2>1. OfSession(m) => m.s \in Nat
      BY MessageToClient
    <2>2. m.type = "hello" => cSession' <= m.s /\ m.s <= session'
      BY <1>01, <1>02, <1>03, <1>1, <2>1 DEF Placed, OfSession
    <2>3. m.type \in {"done", "msg"} => m.s <= Counted'
      BY <1>01, <1>02, <1>03, <1>1, <2>1 DEF Placed, OfSession
    <2>4. client' = "open" /\ OfSession(m) => Rank(m) > 2 * Counted' /\ m.type # "done"
      BY <1>01, <1>02, <1>03, <1>1 DEF Placed
    <2> QED
      BY <2>2, <2>3, <2>4 DEF Placed
  <1>2. \A h \in 1..Len(toClient) : toClient[h] \in ToClientMessages /\ Was(toClient[h])
    BY <1>01 DEF Sessions
  <1> SUFFICES \A i \in 1..Len(toClient') : Now(toClient'[i])
    OBVIOUS
  <1> HIDE DEF Was, Now
  <1>3. CASE UNCHANGED toClient
    BY <1>1, <1>2, <1>3
  <1>4. CASE \E k \in 1..Len(toClient) : Without(toClient, k, toClient')
    BY <1>01, <1>02, <1>03, <1>1, <1>2, <1>4, ToClientShrinks
  <1>5. CASE TalkStep
    <2>1. PICK t \in Seq(ToClientMessages) :
              Joined(toClient, t, toClient') /\ \A i \in 1..Len(t) : Fresh(t[i])
      BY <1>5, TalkFacts
    <2>2. Counted' = session /\ session' = session
      BY <1>5, TalkFacts
    <2>3. ASSUME NEW m, Fresh(m)
          PROVE  Now(m)
      <3>1. CASE m.type = "ack"
        BY <3>1 DEF Now, Placed, OfSession
      <3>2. CASE m.type = "msg" /\ m.s = session
        BY <1>01, <1>02, <1>03, <2>2, <3>2 DEF Now, Placed, OfSession, Rank
      <3> QED
        BY <2>3, <3>1, <3>2 DEF Fresh
    <2> QED
      BY <1>01, <1>02, <1>03, <1>1, <1>2, <2>1, <2>3, ToClientGrows
  <1>6. CASE RecvReset \/ RecvShake \/ RecvRequest
    <2>1. PICK m \in ToClientMessages :
              /\ Sends(<<m>>)
              /\ \/ RecvReset /\ m = Hello(session + 1)
                 \/ RecvShake /\ m = Done(session)
                 \/ RecvRequest /\ m = Hello(session)
      BY <1>01, <1>02, <1>03, <1>6, MessagesBuilt DEF RecvReset, RecvShake, RecvRequest
    <2>2. Added(toClient, m, toClient')
      BY <2>1, DeviceSendsOne
    <2>3. Now(m)
      <3>1. CASE RecvReset /\ m = Hello(session + 1)
        <4>1. session' = session + 1 /\ m.type = "hello" /\ m.s = session + 1
          BY <3>1 DEF RecvReset, Hello
        <4>2. Rank(m) = 2 * session + 2
          BY <1>02, <4>1 DEF Rank
        <4>3. cSession' <= m.s /\ m.s <= session'
          BY <1>02, <4>1
        <4>4. Rank(m) > 2 * Counted'
          <5>1. Counted' = Counted /\ Counted <= session
            BY <3>1, <1>02, CountedRests DEF RecvReset, RecvShake
          <5>2. 2 * Counted <= 2 * session
            BY <1>02, <5>1
          <5> QED
            BY <1>02, <4>2, <5>1, <5>2
        <4>5. m.type # "done"
          BY <4>1
        <4> QED
          BY <4>1, <4>3, <4>4, <4>5 DEF Now, Placed
      <3>2. CASE RecvShake /\ m = Done(session)
        <4>1. Counted' = session /\ m.type = "done" /\ m.s = session /\ client # "open"
          BY <3>2, ShakeFacts DEF Done
        <4> QED
          BY <1>01, <1>02, <1>03, <4>1 DEF Now, Placed, OfSession
      <3>3. CASE RecvRequest /\ m = Hello(session)
        <4>1. ~open /\ session' = session /\ m.type = "hello" /\ m.s = session
          BY <3>3 DEF RecvRequest, Hello, device
        <4>2. Counted = session - 1 /\ Counted' = Counted
          BY <3>3, <4>1, CountedType, CountedRests DEF RecvRequest, RecvShake, device, Counted
        <4>3. Rank(m) = 2 * session
          BY <4>1 DEF Rank
        <4> QED
          BY <1>02, <1>03, <4>1, <4>2, <4>3 DEF Now, Placed
      <3> QED
        BY <2>1, <3>1, <3>2, <3>3
    <2> QED
      BY <1>01, <1>02, <1>03, <1>1, <1>2, <2>2, <2>3, OldOrLast
  <1> QED
    BY <1>3, <1>4, <1>5, <1>6, ToClientKinds

\* The ways in which the wire to the device changes.
ClientSays(m) ==
    \/ ClientGreeted /\ m = Shake(cSession')
    \/ ClientAccepts /\ m = AckNow(cExpects')
    \/ ClientRepeatsAck /\ m = AckNow(cExpects)
    \/ ClientAsks /\ m = asking'
    \/ ClientAsksAgain /\ m = asking
    \/ ClientRequests /\ m = Request
    \/ ClientResets /\ m = Reset

DeviceReads ==
    RecvAck \/ RecvNext \/ RecvOther \/ RecvReset \/ RecvShake \/ RecvRequest \/ Ignore

OthersStep == DeviceSends \/ ClientOpens \/ ClientAcked \/ ClientIgnores \/ Lose \/ UNCHANGED vars

LEMMA ToDeviceKinds ==
    ASSUME TypeOK, TypeOK', [Next]_vars
    PROVE  \/ OthersStep /\ UNCHANGED toDevice
           \/ DeviceReads /\ 1 \in 1..Len(toDevice) /\ Without(toDevice, 1, toDevice')
           \/ \E m \in ToDeviceMessages : Added(toDevice, m, toDevice') /\ ClientSays(m)
  <1>1. CASE DeviceReads
    <2>1. Receives
      BY <1>1 DEF DeviceReads, RecvAck, RecvNext, RecvOther, RecvReset, RecvShake, RecvRequest, Ignore
    <2> QED
      BY <1>1, <2>1, DeviceTakes
  <1>2. ASSUME NEW m \in ToDeviceMessages, Tells(<<m>>), ClientSays(m)
        PROVE  \E k \in ToDeviceMessages : Added(toDevice, k, toDevice') /\ ClientSays(k)
    BY <1>2, ClientTells
  <1>3. CASE ClientGreeted
    <2>1. cSession' \in Nat /\ Tells(<<Shake(cSession')>>)
      BY <1>3 DEF ClientGreeted, TypeOK
    <2> QED
      BY <1>2, <1>3, <2>1, MessagesBuilt DEF ClientSays
  <1>4. CASE ClientAccepts
    <2>1. cExpects' \in Nat /\ Tells(<<AckNow(cExpects')>>)
      BY <1>4 DEF ClientAccepts, TypeOK
    <2> QED
      BY <1>2, <1>4, <2>1, AckNowBuilt DEF ClientSays
  <1>5. CASE ClientRepeatsAck
    <2>1. cExpects \in Nat /\ Tells(<<AckNow(cExpects)>>)
      BY <1>5 DEF ClientRepeatsAck, TypeOK
    <2> QED
      BY <1>2, <1>5, <2>1, AckNowBuilt DEF ClientSays
  <1>6. CASE ClientAsks
    <2>1. asking' \in ToDeviceMessages
      <3>1. asking' \in Messages \cup {NoMsg} /\ asking' = Msg(cNext, cSession, asked + 1)
        BY <1>6 DEF ClientAsks, TypeOK
      <3> QED
        BY <3>1 DEF NoMsg, Msg, ToDeviceMessages
    <2> QED
      BY <1>2, <1>6, <2>1 DEF ClientSays, ClientAsks
  <1>7. CASE ClientAsksAgain
    <2>1. asking \in ToDeviceMessages
      BY <1>7 DEF ClientAsksAgain, TypeOK, ToDeviceMessages
    <2> QED
      BY <1>2, <1>7, <2>1 DEF ClientSays, ClientAsksAgain
  <1>8. CASE ClientRequests \/ ClientResets
    BY <1>2, <1>8, MessagesBuilt DEF ClientSays, ClientRequests, ClientResets
  <1>9. CASE OthersStep
    BY <1>9 DEF OthersStep, DeviceSends, ClientOpens, ClientAcked, ClientIgnores, Lose, vars
  <1> QED
    BY <1>1, <1>3, <1>4, <1>5, <1>6, <1>7, <1>8, <1>9, StepKinds
       DEF DeviceReads, OthersStep, ClientSide, ClientReads

\* Of what the client says, only the answer to a greeting is a handshake.
LEMMA SaidKinds ==
    ASSUME TypeOK, TypeOK', [Next]_vars, NEW m \in ToDeviceMessages, ClientSays(m)
    PROVE  /\ m.type = "shake" => ClientGreeted /\ m = Shake(cSession')
           /\ m.type \in {"ack", "msg"} => client = "open"
           /\ m.type = "msg" => (ClientAsks /\ m = asking') \/ (ClientAsksAgain /\ m = asking)
           /\ m.type = "ack" =>
                  (ClientAccepts /\ m = AckNow(cExpects')) \/ (ClientRepeatsAck /\ m = AckNow(cExpects))
  <1>1. CASE ClientGreeted /\ m = Shake(cSession')
    BY <1>1 DEF Shake
  <1>2. CASE ClientAccepts /\ m = AckNow(cExpects')
    BY <1>2 DEF AckNow, Ack, ClientAccepts
  <1>3. CASE ClientRepeatsAck /\ m = AckNow(cExpects)
    BY <1>3 DEF AckNow, Ack, ClientRepeatsAck
  <1>4. CASE ClientAsks /\ m = asking'
    BY <1>4 DEF ClientAsks, Msg
  <1>5. CASE ClientAsksAgain /\ m = asking
    BY <1>5 DEF ClientAsksAgain, Messages, NoMsg, TypeOK
  <1>6. CASE ClientRequests /\ m = Request
    BY <1>6 DEF Request
  <1>7. CASE ClientResets /\ m = Reset
    BY <1>7 DEF Reset
  <1> QED
    BY <1>1, <1>2, <1>3, <1>4, <1>5, <1>6, <1>7 DEF ClientSays

\* The session the client was greeted with, in every step.
LEMMA GreetedFacts ==
    ASSUME IInv, [Next]_vars, TypeOK'
    PROVE  /\ \/ UNCHANGED cSession
              \/ /\ ClientGreeted /\ 1 \in 1..Len(toClient) /\ toClient[1].type = "hello"
                 /\ cSession' = toClient[1].s /\ cSession <= cSession'
           /\ cSession <= cSession' /\ cSession' <= session' /\ Counted' <= cSession'
  <1> USE DEF IInv
  <1>1. /\ cSession \in Nat /\ session \in Nat /\ session' \in Nat /\ cSession' \in Nat
        /\ (session' = session \/ session' = session + 1)
    BY SessionRests DEF RecvReset, TypeOK
  <1>2. Counted \in Nat /\ Counted <= cSession /\ cSession <= session
    BY CountedType DEF Sessions
  <1>3. CASE ClientGreeted
    <2>1. 1 \in 1..Len(toClient) /\ Head(toClient) = toClient[1]
      BY <1>3, ClientTakesFirst DEF ClientGreeted
    <2>2. toClient[1].type = "hello" /\ cSession' = toClient[1].s
      BY <1>3, <2>1 DEF ClientGreeted
    <2>3. cSession <= toClient[1].s /\ toClient[1].s <= session
      BY <2>1, <2>2 DEF Sessions, Placed
    <2>4. Counted' = Counted /\ session' = session
      BY <1>3, CountedRests DEF ClientGreeted, RecvShake, device
    <2> QED
      BY <1>1, <1>2, <1>3, <2>1, <2>2, <2>3, <2>4
  <1>4. CASE ~ClientGreeted
    <2>1. cSession' = cSession
      BY <1>4, StepKinds, ComputerRests DEF TalkStep, ClientSide, ClientReads, ClientOpens,
         ClientAccepts, ClientAcked, ClientAsks, ClientResets
    <2>2. Counted' <= cSession
      <3>1. CASE RecvShake
        BY <1>1, <3>1, ShakeFacts
      <3>2. CASE ~RecvShake
        BY <1>2, <3>2, CountedRests
      <3> QED
        BY <3>1, <3>2
    <2> QED
      BY <1>1, <1>2, <2>1, <2>2
  <1> QED
    BY <1>3, <1>4

LEMMA PlacedStep ==
    ASSUME IInv, [Next]_vars, TypeOK', Numbers'
    PROVE  \A i \in 1..Len(toClient') : Placed(toClient'[i], cSession', session', Counted', client')
  <1> USE DEF IInv
  <1>1. /\ toClient \in Seq(ToClientMessages) /\ toClient' \in Seq(ToClientMessages)
        /\ Len(toClient) \in Nat
    BY DEF TypeOK
  <1>2. \A i \in 1..Len(toClient) :
            toClient[i] \in ToClientMessages /\ Placed(toClient[i], cSession, session, Counted, client)
    BY <1>1 DEF Sessions
  <1>3. CASE UNCHANGED <<client, cSession>>
    <2>1. client = "open" => cSession = Counted /\ ~RecvShake
      BY ShakeFacts DEF Sessions
    <2> QED
      BY <1>3, <2>1, ToClientPlaced
  <1>4. CASE ClientResets
    <2>1. UNCHANGED <<toClient, cSession, session>> /\ client' = "lost" /\ Counted' = Counted
      BY <1>4, CountedRests DEF ClientResets, RecvShake, device
    <2> QED
      BY <1>2, <2>1 DEF Placed
  <1>5. CASE ClientGreeted
    <2>1. UNCHANGED session /\ client' = "greeted" /\ Counted' = Counted
      BY <1>5, CountedRests DEF ClientGreeted, RecvShake, device
    <2>2. 1 \in 1..Len(toClient) /\ toClient[1].type = "hello" /\ cSession' = toClient[1].s
      BY <1>5, GreetedFacts, ClientTakesFirst DEF ClientGreeted
    <2>3. Without(toClient, 1, toClient')
      BY <1>5, ClientTakesFirst DEF ClientGreeted
    <2>4. ASSUME NEW i \in 1..Len(toClient')
          PROVE  Placed(toClient'[i], cSession', session', Counted', client')
      <3>1. i + 1 \in 1..Len(toClient) /\ 1 < i + 1 /\ toClient'[i] = toClient[i + 1]
        BY <1>1, <2>3 DEF Without
      <3> DEFINE m == toClient[i + 1]
      <3>2. m \in ToClientMessages /\ Placed(m, cSession, session, Counted, client)
        BY <1>2, <3>1
      <3>3. m.type = "hello" => 2 * toClient[1].s <= 2 * m.s
        BY <2>2, <3>1 DEF InSessionOrder, OfSession, Rank
      <3>4. toClient[1].s \in Nat /\ (m.type = "hello" => m.s \in Nat)
        BY <1>2, <2>2, <3>2, MessageToClient DEF OfSession
      <3>5. m.type = "hello" => toClient[1].s <= m.s
        <4> HIDE DEF m
        <4> QED BY <3>3, <3>4
      <3> QED
        BY <2>1, <2>2, <3>1, <3>2, <3>5 DEF Placed
    <2> QED
      BY <2>4
  <1>6. CASE ClientOpens
    <2>1. UNCHANGED <<cSession, session>> /\ client' = "open" /\ Counted' = Counted
      BY <1>6, CountedRests DEF ClientOpens, RecvShake, device
    <2>2. 1 \in 1..Len(toClient) /\ toClient[1] = Done(Counted)
      BY <1>6, OpensFacts
    <2>3. Without(toClient, 1, toClient')
      BY <1>6, ClientTakesFirst DEF ClientOpens
    <2>4. OfSession(toClient[1]) /\ Rank(toClient[1]) = 2 * Counted + 1 /\ Counted \in Nat
      BY <2>2, CountedType DEF OfSession, Rank, Done
    <2>5. ASSUME NEW i \in 1..Len(toClient')
          PROVE  Placed(toClient'[i], cSession', session', Counted', client')
      <3>1. i + 1 \in 1..Len(toClient) /\ 1 < i + 1 /\ toClient'[i] = toClient[i + 1]
        BY <1>1, <2>3 DEF Without
      <3> DEFINE m == toClient[i + 1]
      <3>2. m \in ToClientMessages /\ Placed(m, cSession, session, Counted, client)
        BY <1>2, <3>1
      <3>3. ASSUME OfSession(m)
            PROVE  Rank(m) > 2 * Counted /\ m.type # "done"
        <4>1. /\ Rank(toClient[1]) <= Rank(m)
              /\ m.type = "done" => Rank(toClient[1]) < Rank(m)
          BY <2>2, <2>4, <3>1, <3>3 DEF InSessionOrder
        <4>2. Rank(m) \in Nat
          BY <3>2, <3>3, MessageToClient
        <4>3. m.type # "done"
          <5> SUFFICES ASSUME m.type = "done"
                       PROVE  FALSE
            OBVIOUS
          <5>1. m.s <= Counted /\ m.s \in Nat /\ Rank(m) = 2 * m.s + 1
            BY <3>2, MessageToClient DEF Placed, OfSession, Rank
          <5> HIDE DEF m
          <5> QED
            BY <2>4, <4>1, <5>1
        <4> HIDE DEF m
        <4> QED
          BY <2>4, <4>1, <4>2, <4>3
      <3> QED
        BY <2>1, <3>1, <3>2, <3>3 DEF Placed
    <2> QED
      BY <2>5
  <1>7. UNCHANGED <<client, cSession>> \/ ClientResets \/ ClientGreeted \/ ClientOpens
    BY StepKinds, ComputerRests DEF TalkStep, ClientSide, ClientReads, ClientAccepts, ClientAcked,
       ClientAsks
  <1> QED
    BY <1>3, <1>4, <1>5, <1>6, <1>7

LEMMA SessionsStep ==
    ASSUME IInv, [Next]_vars, TypeOK', Numbers'
    PROVE  Sessions'
  <1> USE DEF IInv
  <1>1. Counted' <= cSession' /\ cSession' <= session'
    BY GreetedFacts
  <1>2. client' = "open" => cSession' = Counted'
    <2> SUFFICES ASSUME client' = "open"
                 PROVE  cSession' = Counted'
      OBVIOUS
    <2>1. CASE ClientOpens
      <3>1. UNCHANGED cSession /\ ~RecvShake
        BY <2>1 DEF ClientOpens, RecvShake, device
      <3> QED
        BY <2>1, <3>1, OpensFacts, CountedRests
    <2>2. CASE ~ClientOpens
      <3>1. client = "open" /\ UNCHANGED cSession
        BY <2>2, StepKinds, ComputerRests DEF TalkStep, ClientSide, ClientReads, ClientGreeted,
           ClientAccepts, ClientAcked, ClientAsks, ClientResets
      <3>2. ~RecvShake
        BY <3>1, ShakeFacts
      <3> QED
        BY <3>1, <3>2, CountedRests DEF Sessions
    <2> QED
      BY <2>1, <2>2
  <1>3. \A i \in 1..Len(toDevice') : toDevice'[i].type = "shake" => toDevice'[i].s <= cSession'
    <2>1. toDevice \in Seq(ToDeviceMessages) /\ toDevice' \in Seq(ToDeviceMessages)
          /\ cSession \in Nat /\ cSession' \in Nat /\ cSession <= cSession'
      BY GreetedFacts DEF TypeOK
    <2>2. ASSUME NEW i \in 1..Len(toDevice), toDevice[i].type = "shake"
          PROVE  toDevice[i].s <= cSession'
      <3>1. toDevice[i].s \in Nat
        BY <2>1, <2>2, MessageToDevice
      <3> QED
        BY <2>1, <2>2, <3>1 DEF Sessions
    <2>3. CASE UNCHANGED toDevice
      BY <2>2, <2>3
    <2>4. CASE 1 \in 1..Len(toDevice) /\ Without(toDevice, 1, toDevice')
      BY <2>1, <2>2, <2>4, ToDeviceShrinks
    <2>5. CASE \E m \in ToDeviceMessages : Added(toDevice, m, toDevice') /\ ClientSays(m)
      <3>1. PICK m \in ToDeviceMessages : Added(toDevice, m, toDevice') /\ ClientSays(m)
        BY <2>5
      <3>2. m.type = "shake" => m.s <= cSession'
        BY <2>1, <3>1, SaidKinds DEF Shake
      <3> QED
        BY <2>1, <2>2, <3>1, <3>2, OldOrLast
    <2> QED
      BY <2>3, <2>4, <2>5, ToDeviceKinds
  <1>4. \A i \in 1..Len(toClient') : Placed(toClient'[i], cSession', session', Counted', client')
    BY PlacedStep
  <1> QED
    BY <1>1, <1>2, <1>3, <1>4 DEF Sessions

\* What is on its way has no higher rank than the end of the handshake of the session.
LEMMA RankBounds ==
    ASSUME TypeOK, Sessions, NEW h \in 1..Len(toClient), OfSession(toClient[h])
    PROVE  /\ Rank(toClient[h]) \in Nat /\ Rank(toClient[h]) <= 2 * session + 1
           /\ ~open => Rank(toClient[h]) <= 2 * session
  <1> DEFINE m == toClient[h]
  <1>1. m \in ToClientMessages
    BY DEF TypeOK
  <1>2. m.s \in Nat /\ Rank(m) \in Nat
    BY <1>1, MessageToClient
  <1>3. Placed(m, cSession, session, Counted, client)
    BY DEF Sessions
  <1>4. session \in Nat \ {0} /\ Counted \in Nat /\ Counted <= session /\ (~open => Counted = session - 1)
    BY CountedType DEF TypeOK
  <1> HIDE DEF m
  <1>5. CASE m.type = "hello"
    BY <1>2, <1>3, <1>4, <1>5 DEF m, Placed, Rank
  <1>6. CASE m.type # "hello"
    <2>1. m.s <= Counted
      BY <1>3, <1>6 DEF m, Placed, OfSession
    <2>2. Rank(m) = 2 * m.s + 1
      BY <1>6 DEF Rank
    <2> QED
      BY <1>2, <1>4, <2>1, <2>2 DEF m
  <1> QED
    BY <1>5, <1>6

LEMMA InSessionOrderStep ==
    ASSUME IInv, [Next]_vars, TypeOK', Numbers'
    PROVE  InSessionOrder'
  <1> USE DEF IInv
  <1> DEFINE Ordered(a, b) == OfSession(a) /\ OfSession(b) =>
                                  Rank(a) <= Rank(b) /\ (b.type = "done" => Rank(a) < Rank(b))
  <1>1. /\ toClient \in Seq(ToClientMessages) /\ toClient' \in Seq(ToClientMessages)
        /\ Len(toClient) \in Nat
    BY DEF TypeOK
  <1>2. session \in Nat
    BY DEF TypeOK
  <1>3. \A i, j \in 1..Len(toClient) : i < j => Ordered(toClient[i], toClient[j])
    BY DEF InSessionOrder
  <1> SUFFICES \A i, j \in 1..Len(toClient') : i < j => Ordered(toClient'[i], toClient'[j])
    BY DEF InSessionOrder
  <1>4. ASSUME NEW m, NEW h \in 1..Len(toClient),
               OfSession(m) => Rank(m) = 2 * session + 1 /\ (m.type = "done" => ~open)
        PROVE  Ordered(toClient[h], m)
    <2> SUFFICES ASSUME OfSession(toClient[h]), OfSession(m)
                 PROVE  Rank(toClient[h]) <= Rank(m)
                        /\ (m.type = "done" => Rank(toClient[h]) < Rank(m))
      OBVIOUS
    <2> DEFINE r == Rank(toClient[h])
    <2>1. r \in Nat /\ r <= 2 * session + 1 /\ (~open => r <= 2 * session)
      BY RankBounds
    <2> HIDE DEF r
    <2>2. r <= Rank(m) /\ (m.type = "done" => r < Rank(m))
      BY <1>2, <1>4, <2>1
    <2> QED
      BY <2>2 DEF r
  <1> HIDE DEF Ordered
  <1>5. CASE UNCHANGED toClient
    BY <1>3, <1>5
  <1>6. CASE \E k \in 1..Len(toClient) : Without(toClient, k, toClient')
    BY <1>1, <1>3, <1>6, ToClientShrinks
  <1>7. CASE TalkStep
    <2>1. PICK t \in Seq(ToClientMessages) :
              Joined(toClient, t, toClient') /\ \A i \in 1..Len(t) : Fresh(t[i])
      BY <1>7, TalkFacts
    <2>2. ASSUME NEW m, Fresh(m), OfSession(m)
          PROVE  m.type = "msg" /\ Rank(m) = 2 * session + 1
      BY <2>2 DEF Fresh, OfSession, Rank
    <2>3. ASSUME NEW i \in 1..Len(toClient'), NEW j \in 1..Len(toClient'), i < j
          PROVE  Ordered(toClient'[i], toClient'[j])
      <3>1. CASE j \in 1..Len(toClient)
        <4>1. i \in 1..Len(toClient) /\ toClient'[i] = toClient[i] /\ toClient'[j] = toClient[j]
          BY <1>1, <2>1, <2>3, <3>1 DEF Joined
        <4> QED
          BY <1>3, <2>3, <3>1, <4>1
      <3>2. CASE j > Len(toClient)
        <4>1. Fresh(toClient'[j])
          BY SMTT(60), <1>1, <2>1, <3>2, ToClientGrows
        <4>2. OfSession(toClient'[j]) =>
                  toClient'[j].type = "msg" /\ Rank(toClient'[j]) = 2 * session + 1
          BY <2>2, <4>1
        <4>3. CASE i \in 1..Len(toClient) /\ toClient'[i] = toClient[i]
          BY <1>4, <4>2, <4>3
        <4>4. CASE Fresh(toClient'[i])
          <5>1. OfSession(toClient'[i]) => Rank(toClient'[i]) = 2 * session + 1
            BY <2>2, <4>4
          <5> QED
            BY <1>2, <4>2, <5>1 DEF Ordered
        <4> QED
          BY <1>1, <2>1, <4>3, <4>4, ToClientGrows
      <3> QED
        BY <1>1, <3>1, <3>2
    <2> QED
      BY <2>3
  <1>8. CASE RecvReset \/ RecvShake \/ RecvRequest
    <2>1. PICK m \in ToClientMessages :
              /\ Sends(<<m>>)
              /\ \/ RecvReset /\ m = Hello(session + 1)
                 \/ RecvShake /\ m = Done(session)
                 \/ RecvRequest /\ m = Hello(session)
      BY <1>2, <1>8, MessagesBuilt DEF RecvReset, RecvShake, RecvRequest
    <2>2. Added(toClient, m, toClient')
      BY <2>1, DeviceSendsOne
    <2>3. ASSUME NEW h \in 1..Len(toClient)
          PROVE  Ordered(toClient[h], m)
      <3> SUFFICES ASSUME OfSession(toClient[h]), OfSession(m)
                   PROVE  Rank(toClient[h]) <= Rank(m)
                          /\ (m.type = "done" => Rank(toClient[h]) < Rank(m))
        BY DEF Ordered
      <3> DEFINE r == Rank(toClient[h])
      <3>1. r \in Nat /\ r <= 2 * session + 1 /\ (~open => r <= 2 * session)
        BY RankBounds
      <3> HIDE DEF r
      <3>2. CASE RecvReset /\ m = Hello(session + 1)
        <4>1. m.type = "hello" /\ Rank(m) = 2 * session + 2
          BY <1>2, <3>2 DEF Hello, Rank
        <4> QED
          BY <1>2, <3>1, <4>1 DEF r
      <3>3. CASE RecvShake /\ m = Done(session)
        <4>1. ~open /\ Rank(m) = 2 * session + 1
          BY <3>3 DEF RecvShake, Done, Rank
        <4> QED
          BY <1>2, <3>1, <4>1 DEF r
      <3>4. CASE RecvRequest /\ m = Hello(session)
        <4>1. ~open /\ m.type = "hello" /\ Rank(m) = 2 * session
          BY <3>4 DEF RecvRequest, Hello, Rank
        <4> QED
          BY <1>2, <3>1, <4>1 DEF r
      <3> QED
        BY <2>1, <3>2, <3>3, <3>4
    <2>4. ASSUME NEW i \in 1..Len(toClient'), NEW j \in 1..Len(toClient'), i < j
          PROVE  Ordered(toClient'[i], toClient'[j])
      <3>1. i \in 1..Len(toClient) /\ toClient'[i] = toClient[i]
        BY <1>1, <2>2, <2>4 DEF Added
      <3>2. CASE j \in 1..Len(toClient)
        <4>1. toClient'[j] = toClient[j]
          BY <2>2, <3>2 DEF Added
        <4> QED
          BY <1>3, <2>4, <3>1, <3>2, <4>1
      <3>3. CASE j = Len(toClient) + 1
        BY <2>2, <2>3, <3>1, <3>3 DEF Added
      <3> QED
        BY <1>1, <2>2, <3>2, <3>3 DEF Added
    <2> QED
      BY <2>4
  <1> QED
    BY <1>5, <1>6, <1>7, <1>8, ToClientKinds

LEMMA UnusedStep ==
    ASSUME IInv, [Next]_vars, TypeOK', Numbers'
    PROVE  Unused'
  <1> USE DEF IInv
  <1>1. /\ toClient \in Seq(ToClientMessages) /\ toClient' \in Seq(ToClientMessages)
        /\ toDevice \in Seq(ToDeviceMessages) /\ toDevice' \in Seq(ToDeviceMessages)
    BY DEF TypeOK
  <1>2. CASE RecvShake
    <2>1. got' = 0 /\ asked' = 0
      BY <1>2 DEF RecvShake
    <2>2. \A k \in 1..Len(toDevice') : toDevice'[k].type \notin {"ack", "msg"}
      BY <1>2, ShakeFacts
    <2> QED
      BY <2>1, <2>2 DEF Unused
  <1>3. CASE ~RecvShake
    <2> SUFFICES ASSUME NEW i \in 1..Len(toClient'), toClient'[i] = Done(Counted)
                 PROVE  /\ got' = 0 /\ asked' = 0
                        /\ open' => \A k \in 1..Len(toDevice') : toDevice'[k].type \notin {"ack", "msg"}
      BY <1>3, CountedRests DEF Unused
    <2>1. \E h \in 1..Len(toClient) : toClient[h] = Done(Counted)
      <3>1. CASE UNCHANGED toClient
        BY <3>1
      <3>2. CASE \E k \in 1..Len(toClient) : Without(toClient, k, toClient')
        <4>1. \A j \in 1..Len(toClient') : \E h \in 1..Len(toClient) : toClient'[j] = toClient[h]
          BY <1>1, <3>2, ToClientShrinks
        <4> QED
          BY <4>1
      <3>3. CASE TalkStep
        <4>1. PICK t \in Seq(ToClientMessages) :
                  Joined(toClient, t, toClient') /\ \A j \in 1..Len(t) : Fresh(t[j])
          BY <3>3, TalkFacts
        <4>2. ~Fresh(Done(Counted))
          BY DEF Fresh, Done
        <4>3. \A j \in 1..Len(toClient') :
                  \/ j \in 1..Len(toClient) /\ toClient'[j] = toClient[j]
                  \/ j > Len(toClient) /\ \E h \in 1..Len(t) : toClient'[j] = t[h]
          BY <1>1, <4>1, ToClientGrows
        <4>4. ~(\E h \in 1..Len(t) : toClient'[i] = t[h])
          BY <4>1, <4>2
        <4> QED
          BY <4>3, <4>4
      <3>4. CASE RecvReset \/ RecvRequest
        <4>1. PICK s \in Nat : Sends(<<Hello(s)>>)
          BY <3>4 DEF RecvReset, RecvRequest, TypeOK
        <4>2. Hello(s) \in ToClientMessages /\ Hello(s) # Done(Counted)
          BY MessagesBuilt DEF Hello, Done
        <4>3. Added(toClient, Hello(s), toClient')
          BY <4>1, <4>2, DeviceSendsOne
        <4> QED
          BY <1>1, <4>2, <4>3, OldOrLast
      <3> QED
        BY <1>3, <3>1, <3>2, <3>3, <3>4, ToClientKinds
    <2>2. /\ got = 0 /\ asked = 0
          /\ open => \A k \in 1..Len(toDevice) : toDevice[k].type \notin {"ack", "msg"}
      BY <2>1 DEF Unused
    <2>3. client # "open"
      <3>1. PICK h \in 1..Len(toClient) : toClient[h] = Done(Counted)
        BY <2>1
      <3>2. toClient[h].type = "done" /\ OfSession(toClient[h])
        BY <3>1 DEF Done, OfSession
      <3> QED
        BY <3>2 DEF Sessions, Placed
    <2>4. got' = got /\ asked' = asked /\ (open' => open)
      <3>1. UNCHANGED got
        BY <1>3, <2>3, GotRests DEF ClientAccepts
      <3>2. UNCHANGED asked
        BY <1>3, <2>3, StepKinds, CountsRest DEF TalkStep, ClientSide, ClientReads, ClientGreeted,
           ClientOpens, ClientAccepts, ClientAcked, ClientAsks, ClientResets, counts
      <3>3. open' => open
        BY <1>3, StepKinds, DeviceRests DEF RecvAck, DeviceSends, RecvNext, RecvReset, device
      <3> QED
        BY <3>1, <3>2, <3>3
    <2>5. ASSUME open', NEW k \in 1..Len(toDevice')
          PROVE  toDevice'[k].type \notin {"ack", "msg"}
      <3>1. \A h \in 1..Len(toDevice) : toDevice[h].type \notin {"ack", "msg"}
        BY <2>2, <2>4, <2>5
      <3>2. CASE UNCHANGED toDevice
        BY <3>1, <3>2
      <3>3. CASE 1 \in 1..Len(toDevice) /\ Without(toDevice, 1, toDevice')
        BY <3>1, <3>3, ToDeviceShrinks
      <3>4. CASE \E m \in ToDeviceMessages : Added(toDevice, m, toDevice') /\ ClientSays(m)
        <4>1. PICK m \in ToDeviceMessages : Added(toDevice, m, toDevice') /\ ClientSays(m)
          BY <3>4
        <4>2. m.type \notin {"ack", "msg"}
          BY <2>3, <4>1, SaidKinds
        <4>3. \/ k \in 1..Len(toDevice) /\ toDevice'[k] = toDevice[k]
              \/ toDevice'[k] = m
          BY <1>1, <4>1, OldOrLast
        <4> QED
          BY <3>1, <4>2, <4>3
      <3> QED
        BY <3>2, <3>3, <3>4, ToDeviceKinds
    <2> QED
      BY <2>2, <2>4, <2>5
  <1> QED
    BY <1>2, <1>3

-----------------------------------------------------------------------------
(* The wire to the device while it waits for the end of a handshake. *)

LEMMA OpenRests ==
    [Next]_vars => RecvReset \/ RecvShake \/ UNCHANGED <<open, session>>
  BY DEF Next, Device, RecvAck, DeviceSends, RecvNext, RecvOther, RecvRequest, Ignore,
         ClientReads, ClientGreeted, ClientOpens, ClientAccepts, ClientRepeatsAck, ClientAcked,
         ClientIgnores, ClientAsks, ClientAsksAgain, ClientRequests, ClientResets, Lose, device, vars

LEMMA NothingAfterShakeStep ==
    ASSUME IInv, [Next]_vars, TypeOK', Numbers'
    PROVE  NothingAfterShake'
  <1> USE DEF IInv
  <1>1. /\ toDevice \in Seq(ToDeviceMessages) /\ toDevice' \in Seq(ToDeviceMessages)
        /\ Len(toDevice) \in Nat
    BY DEF TypeOK
  <1>2. session \in Nat /\ cSession \in Nat /\ cSession <= session
    BY DEF TypeOK, Sessions
  <1>3. ASSUME NEW h \in 1..Len(toDevice), NEW s, toDevice[h] = Shake(s)
        PROVE  s <= cSession
    BY <1>3 DEF Sessions, Shake
  <1>4. CASE RecvReset
    <2>1. session' = session + 1 /\ 1 \in 1..Len(toDevice) /\ Without(toDevice, 1, toDevice')
      BY <1>4, DeviceTakes DEF RecvReset
    <2>2. \A i \in 1..Len(toDevice') : i + 1 \in 1..Len(toDevice) /\ toDevice'[i] = toDevice[i + 1]
      BY <2>1, ToDeviceShrinks
    <2>3. \A i \in 1..Len(toDevice') : toDevice'[i] # Shake(session')
      BY <1>2, <1>3, <2>1, <2>2
    <2> QED
      BY <2>3 DEF NothingAfterShake
  <1>5. CASE RecvShake
    BY <1>5 DEF RecvShake, NothingAfterShake
  <1>6. CASE UNCHANGED <<open, session>>
    <2> SUFFICES ASSUME ~open, NEW i \in 1..Len(toDevice'), NEW k \in 1..Len(toDevice'),
                        i < k, toDevice'[i] = Shake(session)
                 PROVE  toDevice'[k].type \notin {"ack", "msg"}
      BY <1>6 DEF NothingAfterShake
    <2>1. ASSUME NEW g \in 1..Len(toDevice), NEW h \in 1..Len(toDevice), g < h,
                 toDevice[g] = Shake(session)
          PROVE  toDevice[h].type \notin {"ack", "msg"}
      BY <2>1 DEF NothingAfterShake
    <2>2. CASE UNCHANGED toDevice
      BY <2>1, <2>2
    <2>3. CASE 1 \in 1..Len(toDevice) /\ Without(toDevice, 1, toDevice')
      <3>1. /\ i + 1 \in 1..Len(toDevice) /\ k + 1 \in 1..Len(toDevice) /\ i + 1 < k + 1
            /\ toDevice'[i] = toDevice[i + 1] /\ toDevice'[k] = toDevice[k + 1]
        BY <2>3, ToDeviceShrinks
      <3> QED
        BY <2>1, <3>1
    <2>4. CASE \E m \in ToDeviceMessages : Added(toDevice, m, toDevice') /\ ClientSays(m)
      <3>1. PICK m \in ToDeviceMessages : Added(toDevice, m, toDevice') /\ ClientSays(m)
        BY <2>4
      <3>2. i \in 1..Len(toDevice) /\ toDevice'[i] = toDevice[i]
        BY <1>1, <3>1 DEF Added
      <3>3. CASE k \in 1..Len(toDevice)
        BY <2>1, <3>1, <3>2, <3>3 DEF Added
      <3>4. CASE k = Len(toDevice) + 1
        <4>1. session <= cSession
          BY <1>3, <3>2
        <4>2. client # "open"
          BY <1>2, <4>1, CountedType DEF Sessions
        <4> QED
          BY <3>1, <3>4, <4>2, SaidKinds DEF Added
      <3> QED
        BY <1>1, <3>1, <3>3, <3>4 DEF Added
    <2> QED
      BY <2>2, <2>3, <2>4, ToDeviceKinds
  <1> QED
    BY <1>4, <1>5, <1>6, OpenRests

-----------------------------------------------------------------------------
(* The messages to the client are within the window. *)

LEMMA SentRests ==
    ASSUME [Next]_vars, TypeOK, Numbers
    PROVE  TalkStep \/ RecvShake \/ UNCHANGED <<sent, topAck>>
  BY StepKinds, DeviceRests DEF TalkStep, RecvReset, counts

LEMMA TalkGrows ==
    ASSUME TypeOK, Numbers, TalkStep
    PROVE  sent \in Nat /\ (sent' = sent \/ sent' = sent + 1) /\ (topAck => topAck')
  <1>1. CASE RecvAck
    BY <1>1, Zenon DEF RecvAck, TypeOK
  <1>2. CASE DeviceSends
    BY <1>2 DEF DeviceSends, SendAfter, TypeOK
  <1>3. CASE RecvNext
    BY <1>3, RecvNextTalks DEF RecvNext, SendAfter, TypeOK
  <1>4. CASE RecvOther
    BY <1>4 DEF RecvOther, counts, TypeOK
  <1> QED
    BY <1>1, <1>2, <1>3, <1>4 DEF TalkStep

LEMMA MessagesCloseStep ==
    ASSUME IInv, [Next]_vars, TypeOK', Numbers', Window'
    PROVE  MessagesClose'
  <1> USE DEF IInv
  <1>1. /\ toClient \in Seq(ToClientMessages) /\ toClient' \in Seq(ToClientMessages)
        /\ Len(toClient) \in Nat
    BY DEF TypeOK
  <1>2. MaxQueue \in Nat /\ Counted \in Nat /\ got \in Nat /\ sent \in Nat /\ got' \in Nat /\ sent' \in Nat
    BY UsbLinkConstants, CountedType DEF TypeOK
  <1>3. \A h \in 1..Len(toClient) :
            /\ Numbered(toClient[h])
            /\ ~topAck => InWindow(toClient[h], Counted, sent, got)
    BY DEF MessagesClose
  <1>4. ~topAck => \A g, h \in 1..Len(toClient) : g < h => CloseTo(toClient[g], toClient[h], Counted)
    BY DEF MessagesClose
  <1> SUFFICES /\ \A i \in 1..Len(toClient') :
                      /\ Numbered(toClient'[i])
                      /\ ~topAck' => InWindow(toClient'[i], Counted', sent', got')
               /\ ~topAck' => \A i, j \in 1..Len(toClient') :
                                  i < j => CloseTo(toClient'[i], toClient'[j], Counted')
    BY DEF MessagesClose
  <1>5. CASE RecvShake
    <2>1. Counted' = Counted + 1 /\ Sends(<<Done(session)>>)
      BY <1>5, ShakeFacts DEF RecvShake
    <2>2. Added(toClient, Done(session), toClient') /\ Done(session) \in ToClientMessages
      BY <2>1, DeviceSendsOne, MessagesBuilt DEF TypeOK
    <2>3. ASSUME NEW i \in 1..Len(toClient')
          PROVE  Numbered(toClient'[i]) /\ ~(toClient'[i].type = "msg" /\ toClient'[i].s = Counted')
      <3>1. CASE i \in 1..Len(toClient)
        <4>1. toClient'[i] = toClient[i] /\ toClient[i] \in ToClientMessages
          BY <1>1, <2>2, <3>1 DEF Added
        <4>2. toClient[i].type = "msg" => toClient[i].s <= Counted /\ toClient[i].s \in Nat
          BY <3>1, <4>1, MessageToClient DEF Sessions, Placed
        <4>3. Numbered(toClient[i]) /\ ~(toClient[i].type = "msg" /\ toClient[i].s = Counted + 1)
          BY <1>2, <1>3, <3>1, <4>2
        <4> QED
          BY <2>1, <4>1, <4>3
      <3>2. CASE i = Len(toClient) + 1
        BY <2>2, <3>2 DEF Added, Numbered, Done
      <3> QED
        BY <1>1, <2>2, <3>1, <3>2 DEF Added
    <2> QED
      BY <2>3 DEF InWindow, CloseTo
  <1>6. CASE TalkStep
    <2>1. PICK t \in Seq(ToClientMessages) :
              Joined(toClient, t, toClient') /\ \A i \in 1..Len(t) : Fresh(t[i])
      BY <1>6, TalkFacts
    <2>2. Counted = session /\ Counted' = session /\ got' = got
      BY <1>6, TalkFacts
    <2>3. (sent' = sent \/ sent' = sent + 1) /\ (~topAck' => ~topAck)
      BY <1>6, TalkGrows
    <2>4. \A i \in 1..Len(toClient') :
              \/ i \in 1..Len(toClient) /\ toClient'[i] = toClient[i]
              \/ i > Len(toClient) /\ Fresh(toClient'[i])
      <3>1. \A i \in 1..Len(toClient') :
                \/ i \in 1..Len(toClient) /\ toClient'[i] = toClient[i]
                \/ i > Len(toClient) /\ \E h \in 1..Len(t) : toClient'[i] = t[h]
        BY <1>1, <2>1, ToClientGrows
      <3> QED
        BY <2>1, <3>1
    <2>5. ASSUME NEW m \in ToClientMessages, InWindow(m, Counted, sent, got)
          PROVE  InWindow(m, Counted', sent', got')
      <3>1. m.type = "msg" => m.n \in Nat
        BY MessageToClient
      <3> QED
        BY <1>2, <2>2, <2>3, <2>5, <3>1 DEF InWindow
    <2>6. ASSUME NEW m, Fresh(m), ~topAck'
          PROVE  InWindow(m, Counted', sent', got')
      <3>1. got' <= sent'
        BY <2>6 DEF Window
      <3> QED
        BY <1>2, <2>6, <3>1 DEF Fresh, InWindow
    <2>7. ASSUME NEW i \in 1..Len(toClient')
          PROVE  /\ Numbered(toClient'[i])
                 /\ ~topAck' => InWindow(toClient'[i], Counted', sent', got')
      <3>1. CASE i \in 1..Len(toClient) /\ toClient'[i] = toClient[i]
        <4>1. toClient[i] \in ToClientMessages
          BY <1>1, <3>1
        <4> QED
          BY <1>3, <2>3, <2>5, <3>1, <4>1
      <3>2. CASE Fresh(toClient'[i])
        BY <2>6, <3>2 DEF Fresh, Numbered
      <3> QED
        BY <2>4, <3>1, <3>2
    <2>8. ASSUME NEW i \in 1..Len(toClient'), NEW j \in 1..Len(toClient'), i < j, ~topAck'
          PROVE  CloseTo(toClient'[i], toClient'[j], Counted')
      <3>1. CASE j \in 1..Len(toClient)
        <4>1. i \in 1..Len(toClient) /\ toClient'[i] = toClient[i] /\ toClient'[j] = toClient[j]
          BY <1>1, <2>1, <2>8, <3>1 DEF Joined
        <4> QED
          BY <1>4, <2>2, <2>3, <2>8, <3>1, <4>1
      <3>2. CASE Fresh(toClient'[j])
        <4> DEFINE a == toClient'[i]
                   b == toClient'[j]
        <4>1. a \in ToClientMessages /\ InWindow(a, Counted', sent', got')
          BY <1>1, <2>7, <2>8
        <4>2. a.type = "msg" => a.n \in Nat
          BY <4>1, MessageToClient
        <4> HIDE DEF a, b
        <4>3. CloseTo(a, b, Counted')
          BY <1>2, <2>2, <3>2, <4>1, <4>2 DEF b, Fresh, InWindow, CloseTo
        <4> QED
          BY <4>3 DEF a, b
      <3> QED
        BY <2>4, <3>1, <3>2
    <2> QED
      BY <2>7, <2>8
  <1>7. CASE ClientAccepts
    <2>1. Without(toClient, 1, toClient') /\ 1 \in 1..Len(toClient) /\ Head(toClient) = toClient[1]
      BY <1>7, ClientTakesFirst DEF ClientAccepts
    <2>2. UNCHANGED <<sent, topAck>> /\ got' = got + 1 /\ toClient[1].type = "msg" /\ ~RecvShake
      BY <1>7, <2>1 DEF ClientAccepts, RecvShake, device
    <2>3. Counted' = Counted
      BY <2>2, CountedRests
    <2>4. ~topAck => toClient[1].n = got + 1 /\ toClient[1].s = Counted
      BY <1>7, <2>1, AcceptsNext
    <2>5. ASSUME NEW h \in 1..Len(toClient), h # 1, ~topAck
          PROVE  InWindow(toClient[h], Counted, sent, got + 1)
      <3>1. 1 < h
        BY <2>5
      <3>2. CloseTo(toClient[1], toClient[h], Counted) /\ InWindow(toClient[h], Counted, sent, got)
        BY <1>3, <1>4, <2>1, <2>5, <3>1
      <3> QED
        BY <2>2, <2>4, <2>5, <3>2 DEF CloseTo, InWindow
    <2>6. \A i \in 1..Len(toClient') : \E h \in 1..Len(toClient) : h # 1 /\ toClient'[i] = toClient[h]
      <3> SUFFICES ASSUME NEW i \in 1..Len(toClient')
                   PROVE  i + 1 \in 1..Len(toClient) /\ i + 1 # 1 /\ toClient'[i] = toClient[i + 1]
        OBVIOUS
      <3> QED
        BY <1>1, <2>1 DEF Without
    <2>7. \A i, j \in 1..Len(toClient') : i < j =>
              \E g, h \in 1..Len(toClient) :
                  g < h /\ toClient'[i] = toClient[g] /\ toClient'[j] = toClient[h]
      BY <1>1, <2>1, ToClientShrinks
    <2>8. \A i \in 1..Len(toClient') :
              /\ Numbered(toClient'[i])
              /\ ~topAck' => InWindow(toClient'[i], Counted', sent', got')
      BY <1>3, <2>2, <2>3, <2>5, <2>6
    <2>9. ~topAck' => \A i, j \in 1..Len(toClient') :
                          i < j => CloseTo(toClient'[i], toClient'[j], Counted')
      BY <1>4, <2>2, <2>3, <2>7
    <2> QED
      BY <2>8, <2>9
  <1>8. CASE ~RecvShake /\ ~TalkStep /\ ~ClientAccepts
    <2>1. Counted' = Counted /\ got' = got /\ sent' = sent /\ topAck' = topAck
      BY <1>8, CountedRests, GotRests, SentRests
    <2>2. CASE UNCHANGED toClient
      BY <1>3, <1>4, <2>1, <2>2
    <2>3. CASE \E k \in 1..Len(toClient) : Without(toClient, k, toClient')
      <3>1. \A i \in 1..Len(toClient') : \E h \in 1..Len(toClient) : toClient'[i] = toClient[h]
        BY <1>1, <2>3, ToClientShrinks
      <3>2. \A i, j \in 1..Len(toClient') : i < j =>
                \E g, h \in 1..Len(toClient) :
                    g < h /\ toClient'[i] = toClient[g] /\ toClient'[j] = toClient[h]
        BY <1>1, <2>3, ToClientShrinks
      <3>3. \A i \in 1..Len(toClient') :
                /\ Numbered(toClient'[i])
                /\ ~topAck' => InWindow(toClient'[i], Counted', sent', got')
        BY <1>3, <2>1, <3>1
      <3>4. ~topAck' => \A i, j \in 1..Len(toClient') :
                            i < j => CloseTo(toClient'[i], toClient'[j], Counted')
        BY <1>4, <2>1, <3>2
      <3> QED
        BY <3>3, <3>4
    <2>4. CASE RecvReset \/ RecvRequest
      <3>1. PICK s \in Nat : Sends(<<Hello(s)>>)
        BY <2>4 DEF RecvReset, RecvRequest, TypeOK
      <3> DEFINE m == Hello(s)
      <3>2. m \in ToClientMessages /\ m.type = "hello"
        BY MessagesBuilt DEF Hello
      <3>3. Added(toClient, m, toClient')
        BY <3>1, <3>2, DeviceSendsOne
      <3> HIDE DEF m
      <3>4. Numbered(m) /\ InWindow(m, Counted, sent, got) /\ \A a : CloseTo(a, m, Counted)
        BY <3>2 DEF Numbered, InWindow, CloseTo
      <3>5. ASSUME NEW i \in 1..Len(toClient'), NEW j \in 1..Len(toClient'), i < j, ~topAck
            PROVE  CloseTo(toClient'[i], toClient'[j], Counted)
        <4>1. i \in 1..Len(toClient) /\ toClient'[i] = toClient[i]
          BY <1>1, <3>3, <3>5 DEF Added
        <4>2. CASE j \in 1..Len(toClient) /\ toClient'[j] = toClient[j]
          BY <1>4, <3>5, <4>1, <4>2
        <4>3. CASE toClient'[j] = m
          BY <3>4, <4>3
        <4> QED
          BY <1>1, <3>2, <3>3, <4>2, <4>3, OldOrLast
      <3>6. ASSUME NEW i \in 1..Len(toClient')
            PROVE  Numbered(toClient'[i]) /\ (~topAck => InWindow(toClient'[i], Counted, sent, got))
        <4>1. CASE i \in 1..Len(toClient) /\ toClient'[i] = toClient[i]
          BY <1>3, <4>1
        <4>2. CASE toClient'[i] = m
          BY <3>4, <4>2
        <4> QED
          BY <1>1, <3>2, <3>3, <4>1, <4>2, OldOrLast
      <3> QED
        BY <2>1, <3>5, <3>6
    <2> QED
      BY <1>8, <2>2, <2>3, <2>4, ToClientKinds
  <1> QED
    BY <1>5, <1>6, <1>7, <1>8

-----------------------------------------------------------------------------
(* The device serves the next request only. *)

\* The request at the head is the next one, or was served before; its number tells which.
LEMMA HeadRequest ==
    ASSUME TypeOK, Numbers, RequestsInOrder, open, 1 \in 1..Len(toDevice), toDevice[1].type = "msg"
    PROVE  /\ toDevice[1].n \in {served, served + 1} /\ toDevice[1].n \in Nat
           /\ toDevice[1].idx = remoteIdx <=> toDevice[1].n = served + 1
           /\ toDevice[1].s = session /\ toDevice[1].n <= asked
  <1> DEFINE m == toDevice[1]
  <1>1. m \in ToDeviceMessages /\ served \in Nat /\ asked \in Nat
    BY DEF TypeOK
  <1>2. m.n \in Nat
    BY <1>1, MessageToDevice
  <1>3. /\ m.s = session /\ m.idx = RemoteNumber(m.n) /\ m.n > 0
        /\ served <= m.n /\ m.n <= asked
    BY DEF RequestsInOrder, Requested
  <1>4. ~(m.n > served + 1)
    <2> SUFFICES ASSUME m.n > served + 1
                 PROVE  FALSE
      OBVIOUS
    <2>1. \E j \in 1..Len(toDevice) : j < 1
      BY DEF RequestsInOrder
    <2> QED
      BY <2>1
  <1>5. remoteIdx = served % RemoteMod
    BY DEF Numbers
  <1> HIDE DEF m
  <1>6. CASE m.n = served + 1
    <2>1. m.n - 1 = served
      BY <1>1, <1>6
    <2>2. m.idx = remoteIdx
      BY <1>3, <1>5, <2>1 DEF RemoteNumber
    <2> QED
      BY <1>2, <1>3, <1>6, <2>2 DEF m
  <1>7. CASE m.n = served
    <2>1. m.n - 1 \in Nat /\ m.n - 1 < served /\ served - (m.n - 1) < RemoteMod
      BY <1>1, <1>3, <1>7, UsbLinkConstants, UsbLinkWindow
    <2>2. (m.n - 1) % RemoteMod # served % RemoteMod
      BY <1>1, <2>1, RemaindersDiffer, UsbLinkConstants
    <2>3. m.idx # remoteIdx
      BY <1>3, <1>5, <2>2 DEF RemoteNumber
    <2> QED
      BY <1>1, <1>2, <1>3, <1>7, <2>3 DEF m
  <1> QED
    BY <1>1, <1>2, <1>3, <1>4, <1>6, <1>7

LEMMA ServesNext ==
    ASSUME TypeOK, Numbers, RequestsInOrder, RecvNext
    PROVE  Head(toDevice).n = served + 1 /\ Head(toDevice).s = session /\ served + 1 <= asked
  <1>1. 1 \in 1..Len(toDevice) /\ Head(toDevice) = toDevice[1]
    BY DeviceTakes DEF RecvNext
  <1>2. open /\ toDevice[1].type = "msg" /\ toDevice[1].idx = remoteIdx
    BY <1>1 DEF RecvNext
  <1> QED
    BY <1>1, <1>2, HeadRequest

\* What the device takes off the wire, and how far it has served the client then.
LEMMA TakenRequest ==
    ASSUME TypeOK, Numbers, RequestsInOrder, RecvAck \/ RecvNext \/ RecvOther
    PROVE  /\ served \in Nat /\ asked \in Nat /\ UNCHANGED <<open, session, asked>> /\ open
           /\ \/ served' = served
              \/ /\ served' = served + 1 /\ served' <= asked
                 /\ toDevice[1].type = "msg" /\ toDevice[1].n = served'
           /\ toDevice[1].type = "msg" => toDevice[1].n \in Nat /\ toDevice[1].n <= served'
  <1>1. 1 \in 1..Len(toDevice) /\ Head(toDevice) = toDevice[1]
    BY DeviceTakes DEF RecvAck, RecvNext, RecvOther
  <1>2. served \in Nat /\ asked \in Nat
    BY DEF TypeOK
  <1>3. open /\ UNCHANGED <<open, session, asked>>
    BY DEF RecvAck, RecvNext, RecvOther, device, counts
  <1>4. CASE RecvAck
    BY <1>1, <1>2, <1>3, <1>4 DEF RecvAck
  <1>5. CASE RecvNext
    BY <1>1, <1>2, <1>3, <1>5, ServesNext DEF RecvNext
  <1>6. CASE RecvOther
    <2>1. served' = served /\ (toDevice[1].type = "msg" => toDevice[1].idx # remoteIdx)
      BY <1>1, <1>6 DEF RecvOther, counts
    <2> QED
      BY <1>1, <1>2, <1>3, <2>1, HeadRequest
  <1> QED
    BY <1>4, <1>5, <1>6

\* What the client asks is its latest request.
LEMMA SaidRequest ==
    ASSUME IInv, [Next]_vars, TypeOK', NEW m \in ToDeviceMessages, ClientSays(m), open
    PROVE  /\ UNCHANGED <<open, session, served>>
           /\ \/ asked' = asked
              \/ asked' = asked + 1 /\ m.type = "msg"
           /\ m.type = "msg" =>
                  /\ m.s = session /\ m.idx = RemoteNumber(m.n) /\ m.n = asked' /\ asked' > 0
  <1> USE DEF IInv
  <1>1. UNCHANGED <<open, session, served>>
    BY DEF ClientSays, ClientGreeted, ClientAccepts, ClientRepeatsAck, ClientAsks, ClientAsksAgain,
       ClientRequests, ClientResets, counts, device
  <1>2. CASE ClientAsks /\ m = asking'
    <2>1. /\ client = "open" /\ asking' = Msg(cNext, cSession, asked + 1) /\ asked' = asked + 1
      BY <1>2 DEF ClientAsks
    <2>2. cSession = session /\ cNext = asked % RemoteMod /\ asked \in Nat
      BY <2>1 DEF Sessions, Counted, ClientNumbers, TypeOK
    <2>3. (asked + 1) - 1 = asked /\ asked + 1 > 0
      BY <2>2
    <2> QED
      BY <1>1, <1>2, <2>1, <2>2, <2>3 DEF Msg, RemoteNumber
  <1>3. CASE ClientAsksAgain /\ m = asking
    <2>1. client = "open" /\ asking # NoMsg /\ asked' = asked
      BY <1>3 DEF ClientAsksAgain, counts
    <2>2. asked > 0 /\ asking = Msg(RemoteNumber(asked), session, asked)
      BY <2>1 DEF ClientNumbers, Counted
    <2> QED
      BY <1>1, <1>3, <2>1, <2>2 DEF Msg
  <1>4. CASE \/ ClientAccepts /\ m = AckNow(cExpects')
             \/ ClientRepeatsAck /\ m = AckNow(cExpects)
    <2>1. m.type = "ack" /\ asked' = asked
      BY <1>4 DEF ClientAccepts, ClientRepeatsAck, AckNow, Ack, counts
    <2> QED
      BY <1>1, <2>1
  <1>5. CASE \/ ClientGreeted /\ m = Shake(cSession')
             \/ ClientRequests /\ m = Request
             \/ ClientResets /\ m = Reset
    <2>1. m.type \in {"shake", "request", "reset"} /\ asked' = asked
      BY <1>5 DEF ClientGreeted, ClientRequests, ClientResets, Shake, Request, Reset, counts
    <2> QED
      BY <1>1, <2>1
  <1> QED
    BY <1>2, <1>3, <1>4, <1>5 DEF ClientSays

LEMMA RequestsTaken ==
    ASSUME TypeOK, Numbers, RequestsInOrder, TypeOK', RecvAck \/ RecvNext \/ RecvOther,
           1 \in 1..Len(toDevice), Without(toDevice, 1, toDevice')
    PROVE  RequestsInOrder'
  <1> DEFINE w == toDevice
             v == toDevice'
  <1>1. /\ w \in Seq(ToDeviceMessages) /\ v \in Seq(ToDeviceMessages) /\ Len(w) \in Nat
        /\ Len(v) = Len(w) - 1 /\ \A i \in 1..Len(v) : i + 1 \in 1..Len(w) /\ v[i] = w[i + 1]
    BY ToDeviceShrinks DEF TypeOK
  <1>2. /\ served \in Nat /\ asked \in Nat /\ served' \in Nat
        /\ UNCHANGED <<open, session, asked>> /\ open
        /\ \/ served' = served
           \/ served' = served + 1 /\ served' <= asked /\ w[1].type = "msg" /\ w[1].n = served'
        /\ w[1].type = "msg" => w[1].n \in Nat /\ w[1].n <= served'
    BY TakenRequest DEF TypeOK
  <1>3. \A i \in 1..Len(w) : w[i].type = "msg" => w[i].n \in Nat
    BY <1>1, MessageToDevice
  <1>4. /\ served <= asked
        /\ \A i \in 1..Len(w) : Requested(w[i], served, asked)
        /\ \A i, j \in 1..Len(w) :
               i < j /\ w[i].type = "msg" /\ w[j].type = "msg" => w[i].n <= w[j].n
        /\ \A i \in 1..Len(w) :
               w[i].type = "msg" /\ w[i].n > served + 1 =>
                   \E j \in 1..Len(w) : j < i /\ w[j].type = "msg" /\ w[j].n = w[i].n - 1
        /\ asked > served => \E j \in 1..Len(w) : w[j].type = "msg" /\ w[j].n = asked
    BY <1>2 DEF RequestsInOrder
  <1> SUFFICES /\ served' <= asked
               /\ \A i \in 1..Len(v) : Requested(v[i], served', asked)
               /\ \A i, j \in 1..Len(v) :
                      i < j /\ v[i].type = "msg" /\ v[j].type = "msg" => v[i].n <= v[j].n
               /\ \A i \in 1..Len(v) :
                      v[i].type = "msg" /\ v[i].n > served' + 1 =>
                          \E j \in 1..Len(v) : j < i /\ v[j].type = "msg" /\ v[j].n = v[i].n - 1
               /\ asked > served' => \E j \in 1..Len(v) : v[j].type = "msg" /\ v[j].n = asked
    BY <1>2 DEF RequestsInOrder, Requested
  <1> HIDE DEF w, v
  <1>5. served' <= asked
    BY <1>2, <1>4
  <1>6. ASSUME NEW i \in 1..Len(v)
        PROVE  Requested(v[i], served', asked)
    <2>1. i + 1 \in 1..Len(w) /\ v[i] = w[i + 1] /\ 1 \in 1..Len(w) /\ 1 < i + 1
      BY <1>1
    <2>2. Requested(w[i + 1], served, asked)
      BY <1>4, <2>1
    <2>3. w[i + 1].type = "msg" => served' <= w[i + 1].n
      BY <1>2, <1>4, <2>1, <2>2 DEF Requested
    <2> QED
      BY <2>1, <2>2, <2>3 DEF Requested
  <1>7. \A i, j \in 1..Len(v) :
            i < j /\ v[i].type = "msg" /\ v[j].type = "msg" => v[i].n <= v[j].n
    BY SMTT(60), <1>1, <1>4
  <1>8. ASSUME NEW i \in 1..Len(v), v[i].type = "msg", v[i].n > served' + 1
        PROVE  \E j \in 1..Len(v) : j < i /\ v[j].type = "msg" /\ v[j].n = v[i].n - 1
    <2>1. i + 1 \in 1..Len(w) /\ v[i] = w[i + 1] /\ w[i + 1].n \in Nat
      BY <1>1, <1>3, <1>8
    <2>2. w[i + 1].n > served + 1
      BY <1>2, <1>8, <2>1
    <2>3. PICK h \in 1..Len(w) : h < i + 1 /\ w[h].type = "msg" /\ w[h].n = w[i + 1].n - 1
      BY <1>4, <1>8, <2>1, <2>2
    <2>4. w[h].n > served'
      BY <1>2, <1>8, <2>1, <2>3
    <2>5. h # 1
      BY <1>2, <2>3, <2>4
    <2>6. h - 1 \in 1..Len(v) /\ h - 1 < i /\ v[h - 1] = w[h]
      <3>1. h - 1 \in 1..Len(v) /\ h - 1 < i /\ (h - 1) + 1 = h
        BY <1>1, <2>3, <2>5
      <3> QED
        BY <1>1, <3>1
    <2> QED
      BY <2>1, <2>3, <2>6
  <1>9. ASSUME asked > served'
        PROVE  \E j \in 1..Len(v) : v[j].type = "msg" /\ v[j].n = asked
    <2>1. PICK h \in 1..Len(w) : w[h].type = "msg" /\ w[h].n = asked
      BY <1>2, <1>4, <1>9
    <2>2. h # 1
      BY <1>2, <1>9, <2>1
    <2>3. h - 1 \in 1..Len(v) /\ (h - 1) + 1 = h
      BY <1>1, <2>1, <2>2
    <2>4. v[h - 1] = w[h]
      BY <1>1, <2>3
    <2> QED
      BY <2>1, <2>3, <2>4
  <1> QED
    BY <1>5, <1>6, <1>7, <1>8, <1>9

LEMMA RequestsSaid ==
    ASSUME IInv, [Next]_vars, TypeOK', open,
           NEW m \in ToDeviceMessages, Added(toDevice, m, toDevice'), ClientSays(m)
    PROVE  RequestsInOrder'
  <1> DEFINE w == toDevice
             v == toDevice'
  <1>1. /\ w \in Seq(ToDeviceMessages) /\ Len(w) \in Nat /\ Len(v) = Len(w) + 1
        /\ \A i \in 1..Len(w) : i \in 1..Len(v) /\ v[i] = w[i]
        /\ Len(w) + 1 \in 1..Len(v) /\ v[Len(w) + 1] = m
    <2>1. w \in Seq(ToDeviceMessages) /\ v \in Seq(ToDeviceMessages) /\ Added(w, m, v)
      BY DEF IInv, TypeOK
    <2> HIDE DEF w, v
    <2> QED
      BY <2>1 DEF Added
  <1>2. /\ UNCHANGED <<open, session, served>>
        /\ \/ asked' = asked
           \/ asked' = asked + 1 /\ m.type = "msg"
        /\ m.type = "msg" =>
               /\ m.s = session /\ m.idx = RemoteNumber(m.n) /\ m.n = asked' /\ asked' > 0
    BY SaidRequest
  <1>3. \A i \in 1..Len(w) : w[i].type = "msg" => w[i].n \in Nat
    BY <1>1, MessageToDevice
  <1>4. /\ served <= asked
        /\ \A i \in 1..Len(w) : Requested(w[i], served, asked)
        /\ \A i, j \in 1..Len(w) :
               i < j /\ w[i].type = "msg" /\ w[j].type = "msg" => w[i].n <= w[j].n
        /\ \A i \in 1..Len(w) :
               w[i].type = "msg" /\ w[i].n > served + 1 =>
                   \E j \in 1..Len(w) : j < i /\ w[j].type = "msg" /\ w[j].n = w[i].n - 1
        /\ asked > served => \E j \in 1..Len(w) : w[j].type = "msg" /\ w[j].n = asked
    BY DEF RequestsInOrder, IInv
  <1>5. served \in Nat /\ asked \in Nat /\ asked' \in Nat
    BY DEF TypeOK, IInv
  <1> SUFFICES /\ served <= asked'
               /\ \A i \in 1..Len(v) : Requested(v[i], served, asked')
               /\ \A i, j \in 1..Len(v) :
                      i < j /\ v[i].type = "msg" /\ v[j].type = "msg" => v[i].n <= v[j].n
               /\ \A i \in 1..Len(v) :
                      v[i].type = "msg" /\ v[i].n > served + 1 =>
                          \E j \in 1..Len(v) : j < i /\ v[j].type = "msg" /\ v[j].n = v[i].n - 1
               /\ asked' > served => \E j \in 1..Len(v) : v[j].type = "msg" /\ v[j].n = asked'
    BY <1>2 DEF RequestsInOrder, Requested
  <1> HIDE DEF w, v
  <1>6. served <= asked'
    BY <1>2, <1>4, <1>5
  <1>7. ASSUME NEW i \in 1..Len(v)
        PROVE  Requested(v[i], served, asked')
    <2>1. CASE i \in 1..Len(w)
      <3>1. v[i] = w[i] /\ Requested(w[i], served, asked) /\ (w[i].type = "msg" => w[i].n \in Nat)
        BY <1>1, <1>3, <1>4, <2>1
      <3> QED
        BY <1>2, <1>5, <3>1 DEF Requested
    <2>2. CASE i = Len(w) + 1
      BY <1>1, <1>2, <1>5, <1>6, <2>2 DEF Requested
    <2> QED
      BY <1>1, <2>1, <2>2
  <1>8. ASSUME NEW i \in 1..Len(v), NEW j \in 1..Len(v), i < j,
               v[i].type = "msg", v[j].type = "msg"
        PROVE  v[i].n <= v[j].n
    <2>1. i \in 1..Len(w) /\ v[i] = w[i]
      BY <1>1, <1>8
    <2>2. CASE j \in 1..Len(w)
      BY <1>1, <1>4, <1>8, <2>1, <2>2
    <2>3. CASE j = Len(w) + 1
      <3>1. v[j] = m /\ m.n = asked'
        BY <1>1, <1>2, <1>8, <2>3
      <3>2. w[i].n <= asked /\ w[i].n \in Nat
        BY <1>3, <1>4, <1>8, <2>1 DEF Requested
      <3> QED
        BY <1>2, <1>5, <2>1, <3>1, <3>2
    <2> QED
      BY <1>1, <2>2, <2>3
  <1>9. ASSUME NEW i \in 1..Len(v), v[i].type = "msg", v[i].n > served + 1
        PROVE  \E j \in 1..Len(v) : j < i /\ v[j].type = "msg" /\ v[j].n = v[i].n - 1
    <2>1. CASE i \in 1..Len(w)
      <3>1. v[i] = w[i]
        BY <1>1, <2>1
      <3>2. PICK h \in 1..Len(w) : h < i /\ w[h].type = "msg" /\ w[h].n = w[i].n - 1
        BY <1>4, <1>9, <2>1, <3>1
      <3> QED
        BY <1>1, <3>1, <3>2
    <2>2. CASE i = Len(w) + 1
      <3>1. v[i] = m /\ m.type = "msg" /\ m.n = asked'
        BY <1>1, <1>2, <1>9, <2>2
      <3>2. \E h \in 1..Len(w) : w[h].type = "msg" /\ w[h].n = asked' - 1
        <4>1. CASE asked' = asked + 1
          <5>1. asked > served /\ asked' - 1 = asked
            BY <1>5, <1>9, <3>1, <4>1
          <5> QED
            BY <1>4, <5>1
        <4>2. CASE asked' = asked
          <5>1. PICK k \in 1..Len(w) : w[k].type = "msg" /\ w[k].n = asked
            BY <1>4, <1>5, <1>9, <3>1, <4>2
          <5>2. w[k].n > served + 1
            BY <1>9, <3>1, <4>2, <5>1
          <5> QED
            BY <1>4, <4>2, <5>1, <5>2
        <4> QED
          BY <1>2, <4>1, <4>2
      <3>3. PICK h \in 1..Len(w) : w[h].type = "msg" /\ w[h].n = asked' - 1
        BY <3>2
      <3>4. h \in 1..Len(v) /\ v[h] = w[h] /\ h < i
        BY <1>1, <2>2, <3>3
      <3> QED
        BY <3>1, <3>3, <3>4
    <2> QED
      BY <1>1, <2>1, <2>2
  <1>10. ASSUME asked' > served
         PROVE  \E j \in 1..Len(v) : v[j].type = "msg" /\ v[j].n = asked'
    <2>1. CASE m.type = "msg"
      BY <1>1, <1>2, <2>1
    <2>2. CASE m.type # "msg"
      <3>1. PICK h \in 1..Len(w) : w[h].type = "msg" /\ w[h].n = asked'
        BY <1>2, <1>4, <1>10, <2>2
      <3> QED
        BY <1>1, <3>1
    <2> QED
      BY <2>1, <2>2
  <1> QED
    BY <1>6, <1>7, <1>8, <1>9, <1>10

LEMMA RequestsInOrderStep ==
    ASSUME IInv, [Next]_vars, TypeOK'
    PROVE  RequestsInOrder'
  <1> USE DEF IInv
  <1>1. CASE RecvShake
    <2>1. asked' = 0 /\ served' = 0
      BY <1>1 DEF RecvShake
    <2>2. \A k \in 1..Len(toDevice') : toDevice'[k].type # "msg"
      BY <1>1, ShakeFacts
    <2> QED
      BY <2>1, <2>2 DEF RequestsInOrder, Requested
  <1>2. CASE ~RecvShake /\ open'
    <2>1. UNCHANGED <<open, session>> /\ open
      BY <1>2, OpenRests DEF RecvReset
    <2>2. CASE RecvAck \/ RecvNext \/ RecvOther
      <3>1. 1 \in 1..Len(toDevice) /\ Without(toDevice, 1, toDevice')
        BY <2>2, DeviceTakes DEF RecvAck, RecvNext, RecvOther
      <3> QED
        BY <2>2, <3>1, RequestsTaken
    <2>3. CASE \E m \in ToDeviceMessages : Added(toDevice, m, toDevice') /\ ClientSays(m)
      BY <2>1, <2>3, RequestsSaid
    <2>4. CASE OthersStep
      <3>1. UNCHANGED <<toDevice, served, asked>>
        BY <2>4 DEF OthersStep, DeviceSends, ClientOpens, ClientAcked, ClientIgnores, Lose, vars, counts
      <3> QED
        BY <2>1, <3>1 DEF RequestsInOrder, Requested
    <2>5. ~RecvReset /\ ~RecvRequest /\ ~Ignore
      BY <1>2, <2>1 DEF RecvReset, RecvRequest, Ignore
    <2> QED
      BY <1>2, <2>2, <2>3, <2>4, <2>5, ToDeviceKinds DEF DeviceReads
  <1>3. CASE ~open'
    BY <1>3 DEF RequestsInOrder
  <1> QED
    BY <1>1, <1>2, <1>3

-----------------------------------------------------------------------------
(* The acknowledgements on their way are of what the client had taken, in order. *)

LEMMA AckedRests ==
    ASSUME TypeOK, Numbers, [Next]_vars, ~RecvAck, ~RecvShake
    PROVE  Acked' = Acked
  <1>1. CASE DeviceSends \/ RecvNext
    <2>1. open /\ UNCHANGED <<open, session>>
      BY <1>1 DEF DeviceSends, RecvNext
    <2>2. CASE UNCHANGED <<localIdx, localQueue, inhibition, sent>>
      BY <2>2 DEF Acked
    <2>3. CASE ~UNCHANGED <<localIdx, localQueue, inhibition, sent>>
      <3>1. PICK before : SendAfter(before)
        BY <1>1, <2>3, RecvNextTalks DEF DeviceSends
      <3>2. Added(localQueue, Msg(localIdx, session, sent + 1), localQueue')
        BY <1>1, <2>3, OthersTalk, RecvNextTalks
      <3> QED
        BY <2>1, <3>1, <3>2, QueueGrows
    <2> QED
      BY <2>2, <2>3
  <1>2. CASE RecvReset
    BY <1>2 DEF RecvReset, counts, Acked
  <1>3. CASE RecvOther \/ RecvRequest \/ Ignore \/ ClientSide \/ UNCHANGED vars
    BY <1>3, DeviceRests DEF device, Acked
  <1> QED
    BY <1>1, <1>2, <1>3, StepKinds

LEMMA AcksInOrderStep ==
    ASSUME IInv, [Next]_vars, TypeOK', Numbers', Window', ClientNumbers'
    PROVE  AcksInOrder'
  <1> DEFINE w == toDevice
             v == toDevice'
  <1>1. w \in Seq(ToDeviceMessages) /\ v \in Seq(ToDeviceMessages)
        /\ Len(w) \in Nat /\ Len(v) \in Nat /\ got \in Nat /\ got' \in Nat
    <2>1. w \in Seq(ToDeviceMessages) /\ v \in Seq(ToDeviceMessages)
      BY DEF IInv, TypeOK
    <2>2. got \in Nat /\ got' \in Nat
      BY DEF IInv, TypeOK
    <2> HIDE DEF w, v
    <2> QED
      BY <2>1, <2>2
  <1>2. Acked \in Nat /\ (~topAck => Acked <= got)
    BY QueueFacts DEF IInv, Window
  <1> SUFFICES ASSUME open', ~topAck'
               PROVE  \E p \in [1..Len(v) -> 0..got'] :
                        /\ \A i \in 1..Len(v) : v[i].type = "ack" =>
                               /\ v[i].idx = Previous(p[i] % LocalMod, LocalMod)
                               /\ Acked' <= p[i] /\ p[i] <= got'
                        /\ \A i, j \in 1..Len(v) :
                               i < j /\ v[i].type = "ack" /\ v[j].type = "ack" => p[i] <= p[j]
    BY DEF AcksInOrder, AcksFrom
  <1>3. CASE RecvShake
    <2> DEFINE p == [i \in 1..Len(v) |-> 0]
    <2>1. \A k \in 1..Len(v) : v[k].type # "ack"
      BY <1>3, ShakeFacts DEF IInv
    <2>2. p \in [1..Len(v) -> 0..got']
      BY <1>1
    <2> HIDE DEF v
    <2> QED
      BY <2>1, <2>2
  <1>4. CASE ~RecvShake
    <2>1. open /\ UNCHANGED <<open, session>>
      BY <1>4, OpenRests DEF RecvReset
    <2>2. ~topAck
      BY <1>4, SentRests, TalkGrows DEF IInv
    <2>3. PICK q \in [1..Len(w) -> 0..got] : AcksFrom(q)
      BY <2>1, <2>2 DEF IInv, AcksInOrder
    <2>4. /\ \A i \in 1..Len(w) : w[i].type = "ack" =>
                 /\ w[i].idx = Previous(q[i] % LocalMod, LocalMod)
                 /\ Acked <= q[i] /\ q[i] <= got
          /\ \A i, j \in 1..Len(w) :
                 i < j /\ w[i].type = "ack" /\ w[j].type = "ack" => q[i] <= q[j]
      BY <2>3 DEF AcksFrom
    <2>5. \A i \in 1..Len(w) : q[i] \in 0..got
      BY <2>3
    <2>6. CASE OthersStep /\ UNCHANGED toDevice
      <3>1. ~RecvAck /\ ~ClientAccepts
        <4>1. ASSUME RecvAck
              PROVE  FALSE
          <5>1. Len(v) = Len(w) - 1
            BY <4>1, DeviceTakes DEF IInv, RecvAck, Without
          <5> QED
            BY <1>1, <2>6, <5>1
        <4>2. ASSUME ClientAccepts
              PROVE  FALSE
          <5> DEFINE m == AckNow(cExpects')
          <5>1. m \in ToDeviceMessages /\ Tells(<<m>>)
            BY <4>2, AckNowBuilt DEF ClientAccepts, TypeOK
          <5> HIDE DEF m
          <5>2. Len(v) = Len(w) + 1
            BY <5>1, ClientTells DEF IInv, Added
          <5> QED
            BY <1>1, <2>6, <5>2
        <4> QED
          BY <4>1, <4>2
      <3>2. Acked' = Acked /\ got' = got
        BY <1>4, <3>1, AckedRests, GotRests DEF IInv
      <3> QED
        BY <2>3, <2>4, <2>6, <3>2
    <2>7. CASE DeviceReads /\ 1 \in 1..Len(toDevice) /\ Without(toDevice, 1, toDevice')
      <3>1. /\ Len(v) = Len(w) - 1
            /\ \A i \in 1..Len(v) : i + 1 \in 1..Len(w) /\ v[i] = w[i + 1]
        BY <2>7, ToDeviceShrinks DEF IInv
      <3>2. got' = got
        BY <1>4, <2>7, GotRests DEF DeviceReads, RecvAck, RecvNext, RecvOther, RecvReset, RecvRequest,
           Ignore, counts
      <3>3. \A i \in 1..Len(v) : v[i].type = "ack" => Acked' <= q[i + 1]
        <4>1. CASE RecvAck
          <5>1. Acked' <= q[1] /\ 1 \in 1..Len(w) /\ w[1].type = "ack"
            BY <2>2, <2>3, <4>1, AckPops, DeviceTakes DEF IInv, RecvAck
          <5>2. Acked' \in Int
            <6>1. sent' \in Nat /\ Len(localQueue') \in Nat
              BY DEF TypeOK
            <6> QED
              BY <6>1 DEF Acked
          <5>3. ASSUME NEW i \in 1..Len(v), v[i].type = "ack"
                PROVE  Acked' <= q[i + 1]
            <6>1. i + 1 \in 1..Len(w) /\ 1 < i + 1 /\ w[i + 1].type = "ack"
              BY <3>1, <5>3
            <6>2. q[1] <= q[i + 1] /\ q[1] \in 0..got /\ q[i + 1] \in 0..got
              BY <2>4, <2>5, <5>1, <6>1
            <6> QED
              BY <1>1, <5>1, <5>2, <6>2
          <5> QED
            BY <5>3
        <4>2. CASE ~RecvAck
          BY <1>4, <2>4, <3>1, <4>2, AckedRests DEF IInv
        <4> QED
          BY <4>1, <4>2
      <3> DEFINE p == [i \in 1..Len(v) |-> q[i + 1]]
      <3> HIDE DEF w, v
      <3>4. p \in [1..Len(v) -> 0..got'] /\ \A i \in 1..Len(v) : p[i] = q[i + 1]
        BY <2>5, <3>1, <3>2
      <3> HIDE DEF p
      <3>5. ASSUME NEW i \in 1..Len(v), v[i].type = "ack"
            PROVE  /\ v[i].idx = Previous(p[i] % LocalMod, LocalMod)
                   /\ Acked' <= p[i] /\ p[i] <= got'
        BY <2>4, <3>1, <3>2, <3>3, <3>4, <3>5
      <3>6. ASSUME NEW i \in 1..Len(v), NEW j \in 1..Len(v), i < j,
                   v[i].type = "ack", v[j].type = "ack"
            PROVE  p[i] <= p[j]
        <4>1. i + 1 < j + 1
          BY <3>6
        <4> QED
          BY <2>4, <3>1, <3>4, <3>6, <4>1
      <3> QED
        BY <3>4, <3>5, <3>6
    <2>8. CASE \E m \in ToDeviceMessages : Added(toDevice, m, toDevice') /\ ClientSays(m)
      <3>1. PICK m \in ToDeviceMessages : Added(toDevice, m, toDevice') /\ ClientSays(m)
        BY <2>8
      <3>2. /\ Len(v) = Len(w) + 1 /\ v[Len(w) + 1] = m
            /\ \A i \in 1..Len(w) : i \in 1..Len(v) /\ v[i] = w[i]
        BY <1>1, <3>1 DEF Added
      <3>3. got' = got \/ got' = got + 1
        BY <1>4, GotRests DEF ClientAccepts
      <3>4. ~RecvAck
        <4> SUFFICES ASSUME RecvAck
                     PROVE  FALSE
          OBVIOUS
        <4>1. Len(v) = Len(w) - 1
          BY DeviceTakes DEF IInv, RecvAck, Without
        <4> QED
          BY <1>1, <3>2, <4>1
      <3>5. Acked' = Acked
        BY <1>4, <3>4, AckedRests DEF IInv
      <3>6. m.type = "ack" => m.idx = Previous(got' % LocalMod, LocalMod)
        <4> SUFFICES ASSUME m.type = "ack"
                     PROVE  m.idx = Previous(got' % LocalMod, LocalMod)
          OBVIOUS
        <4>1. m = AckNow(cExpects') /\ client' = "open"
          BY <3>1, SaidKinds DEF IInv, ClientAccepts, ClientRepeatsAck, computer
        <4>2. cExpects' = got' % LocalMod /\ cExpects' \in Nat
          BY <4>1 DEF ClientNumbers, TypeOK
        <4> QED
          BY <4>1, <4>2, AckNowBuilt
      <3> DEFINE p == [i \in 1..Len(v) |-> IF i <= Len(w) THEN q[i] ELSE got']
      <3> HIDE DEF w, v
      <3>7. p \in [1..Len(v) -> 0..got']
            /\ (\A i \in 1..Len(w) : p[i] = q[i]) /\ p[Len(w) + 1] = got'
        BY <1>1, <2>5, <3>2, <3>3
      <3> HIDE DEF p
      <3>8. ASSUME NEW i \in 1..Len(v), v[i].type = "ack"
            PROVE  /\ v[i].idx = Previous(p[i] % LocalMod, LocalMod)
                   /\ Acked' <= p[i] /\ p[i] <= got'
        <4>1. CASE i \in 1..Len(w)
          BY <1>1, <2>4, <2>5, <3>2, <3>3, <3>5, <3>7, <3>8, <4>1
        <4>2. CASE i = Len(w) + 1
          BY <1>1, <1>2, <2>2, <3>2, <3>3, <3>5, <3>6, <3>7, <3>8, <4>2
        <4> QED
          BY <1>1, <3>2, <4>1, <4>2
      <3>9. ASSUME NEW i \in 1..Len(v), NEW j \in 1..Len(v), i < j,
                   v[i].type = "ack", v[j].type = "ack"
            PROVE  p[i] <= p[j]
        <4>1. i \in 1..Len(w) /\ v[i] = w[i] /\ p[i] = q[i]
          BY <1>1, <3>2, <3>7, <3>9
        <4>2. CASE j \in 1..Len(w)
          BY <2>4, <3>2, <3>7, <3>9, <4>1, <4>2
        <4>3. CASE j = Len(w) + 1
          BY <1>1, <2>5, <3>3, <3>7, <4>1, <4>3
        <4> QED
          BY <1>1, <3>2, <4>2, <4>3
      <3> QED
        BY <3>7, <3>8, <3>9
    <2> QED
      BY <2>6, <2>7, <2>8, ToDeviceKinds DEF IInv
  <1> QED
    BY <1>3, <1>4

-----------------------------------------------------------------------------
(* The theorems. *)

LEMMA InvariantInit == Init => IInv
  <1> SUFFICES ASSUME Init
               PROVE  IInv
    OBVIOUS
  <1>1. TypeOK
    BY TypeInit
  <1>2. /\ open = FALSE /\ session = 1 /\ client = "lost" /\ cSession = 0
        /\ localIdx = 0 /\ remoteIdx = 0 /\ sent = 0 /\ got = 0 /\ asked = 0 /\ served = 0
        /\ Len(localQueue) = 0 /\ Len(toDevice) = 0
    BY DEF Init
  <1>3. Len(toClient) = 1 /\ toClient[1] = Hello(1)
    BY DEF Init
  <1>4. Counted = 0 /\ Acked = 0
    BY <1>2 DEF Counted, Acked
  <1>5. 0 % LocalMod = 0 /\ 0 % RemoteMod = 0 /\ 0 <= MaxQueue
    BY UsbLinkConstants
  <1>6. Numbers /\ Window /\ ClientNumbers
    BY <1>2, <1>4, <1>5 DEF Numbers, Window, ClientNumbers
  <1>7. InSessionOrder /\ NothingAfterShake
    BY <1>2, <1>3 DEF InSessionOrder, NothingAfterShake
  <1>8. Placed(toClient[1], cSession, session, Counted, client)
    BY <1>2, <1>3, <1>4 DEF Placed, Hello
  <1>9. Sessions
    BY <1>2, <1>3, <1>4, <1>8 DEF Sessions
  <1>10. Unused
    BY <1>3 DEF Unused, Hello, Done
  <1>11. MessagesClose
    BY <1>3 DEF MessagesClose, Numbered, InWindow, CloseTo, Hello
  <1>12. RequestsInOrder /\ AcksInOrder
    BY <1>2 DEF RequestsInOrder, AcksInOrder
  <1> QED
    BY <1>1, <1>6, <1>7, <1>9, <1>10, <1>11, <1>12 DEF IInv

LEMMA InvariantStep == IInv /\ [Next]_vars => IInv'
  <1> SUFFICES ASSUME IInv, [Next]_vars
               PROVE  IInv'
    OBVIOUS
  <1>1. TypeOK'
    BY TypeStep DEF IInv
  <1>2. Numbers'
    BY NumbersStep DEF IInv
  <1>3. Window' /\ ClientNumbers'
    BY <1>1, <1>2, WindowStep, ClientNumbersStep
  <1>4. InSessionOrder' /\ Sessions' /\ Unused' /\ NothingAfterShake'
    BY <1>1, <1>2, InSessionOrderStep, SessionsStep, UnusedStep, NothingAfterShakeStep
  <1>5. MessagesClose' /\ RequestsInOrder' /\ AcksInOrder'
    BY <1>1, <1>2, <1>3, MessagesCloseStep, RequestsInOrderStep, AcksInOrderStep
  <1> QED
    BY <1>1, <1>2, <1>3, <1>4, <1>5 DEF IInv

\* The strengthening is an invariant of the session.
THEOREM Invariance == Spec => []IInv
  <1>1. IInv /\ [Next]_vars => IInv'
    BY InvariantStep
  <1> QED
    BY <1>1, InvariantInit, PTL DEF Spec

\* Every variable keeps its type, and the wires carry messages of the protocol only.
THEOREM TypeCorrect == Spec => []TypeOK
  <1>1. IInv => TypeOK
    BY DEF IInv
  <1> QED
    BY <1>1, Invariance, PTL

\* A message that on_message popped from the queue has reached the client, however often
\* the numbers have gone round, unless an acknowledgement of the highest number has come
\* while the queue held messages behind it (USBProtocol2.on_message, channel 0xf2).
THEOREM PoppedIsDelivered == Spec => []AckedIsDelivered
  <1>1. IInv => AckedIsDelivered
    <2> SUFFICES ASSUME IInv, open, ~topAck, NEW n \in (got + 1)..sent
                 PROVE  n \in Queued
      BY DEF AckedIsDelivered
    <2>1. /\ Len(localQueue) \in Nat /\ sent \in Nat /\ Acked \in Nat /\ got \in Nat
          /\ Acked + Len(localQueue) = sent /\ Acked <= got
      BY QueueFacts DEF IInv, Window, TypeOK
    <2> DEFINE i == n - Acked
    <2>2. i \in 1..Len(localQueue) /\ Acked + i = n
      BY <2>1
    <2>3. localQueue[i].n = n /\ DOMAIN localQueue = 1..Len(localQueue)
      BY <2>2, QueueFacts DEF IInv, TypeOK
    <2> QED
      BY <2>2, <2>3 DEF Queued
  <1> QED
    BY <1>1, Invariance, PTL

\* Neither side takes a message twice, out of its place or from an earlier session, as
\* long as the queue is shorter than the numbers go (USBProtocol2._send and on_message).
THEOREM TakenExactlyOnce == Spec => ExactlyOnceInOrder
  <1> DEFINE A == /\ got' > got /\ ~topAck => Head(toClient).n = got' /\ Head(toClient).s = cSession
                  /\ served' > served => Head(toDevice).n = served' /\ Head(toDevice).s = session
  <1>1. ASSUME IInv, [Next]_vars
        PROVE  A \/ UNCHANGED vars
    <2>1. IInv'
      BY <1>1, InvariantStep
    <2>2. got \in Nat /\ served \in Nat /\ TypeOK'
      BY <1>1, <2>1 DEF IInv, TypeOK
    <2>3. ASSUME got' > got, ~topAck
          PROVE  Head(toClient).n = got' /\ Head(toClient).s = cSession
      <3>1. ClientAccepts
        BY <1>1, <2>2, <2>3, GotRests DEF RecvShake
      <3> QED
        BY <1>1, <2>3, <3>1, AcceptsNext DEF IInv, ClientAccepts
    <2>4. ASSUME served' > served
          PROVE  Head(toDevice).n = served' /\ Head(toDevice).s = session
      <3>1. RecvNext
        BY <1>1, <2>2, <2>4, StepKinds, DeviceRests
           DEF RecvAck, DeviceSends, RecvReset, RecvShake, counts
      <3> QED
        BY <1>1, <3>1, ServesNext DEF IInv, RecvNext
    <2> QED
      BY <2>3, <2>4
  <1> QED
    BY <1>1, Invariance, PTL DEF Spec, ExactlyOnceInOrder
================================================================================
