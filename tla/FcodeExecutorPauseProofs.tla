---------------------- MODULE FcodeExecutorPauseProofs ----------------------
(***************************************************************************)
(* Proofs about the pause in FcodeExecutor.  In the first part, where the  *)
(* head is parked, what the player believes of it and what is on its way   *)
(* to the mainboard agree, and a job that is PAUSED stands still, as long  *)
(* as two gaps of the code are not met.  In the second, the paused job has *)
(* its supply only when the user asked for it, or until the head confirms  *)
(* its standby.                                                            *)
(*                                                                         *)
(* FcodeExecutorProofs shows that every operator leads from a sound state  *)
(* to one; each part has one lemma per operator, and one per action, on    *)
(* what it keeps besides.                                                  *)
(***************************************************************************)
EXTENDS FcodeExecutorProofs

\* The first gap: standby was ordered by set_toolhead_standby, or its answer was lost
\* with the head, and _toolhead_paused is still stored as the head's callback when the
\* next pause begins.  It announces that pause before the head is parked
\* (fcode_executor.py:211).
NoStaleStandby == p.status = 50 /\ p.cb = "paused" => p.stash = "stashed"

\* The second: while the head is parked, the buffer of the mainboard is so full of
\* commands that set its speed that it may refuse C2F, for which the flag is cleared
\* before it is sent (fcode_executor.py:192), or that fire is called at its report.
RoomToReturn == p.stash # "none" => Len(p.queue) + 2 <= BufSize

-----------------------------------------------------------------------------
(* The inductive invariant. *)

\* Commands that are carried out wherever the head is, and change nothing of it.
Rests == {"X5", "load"}
Parking == {"X5", "C2", "load"}
Special == {"C2", "C2F", "load"}

Coming(queue, fin) == fin+1..Len(queue)

\* What the mainboard still has to carry out fits to where the head is and to what the
\* player believes: a parked head is moved only after C2F, which is on its way as soon as
\* the flag is cleared, and only the C2 of a pause is on its way to a head that is not.
Way(queue, fin, parked, stash) ==
    /\ \A a \in Coming(queue, fin) : queue[a].op \in {"C2F", "load"} =>
           parked /\ \A b \in Coming(queue, fin) : b < a => queue[b].op \in Rests
    /\ parked => \A a \in Coming(queue, fin) : queue[a].op \notin Rests \cup {"C2F"} =>
           \E b \in Coming(queue, fin) : b < a /\ queue[b].op = "C2F"
    /\ parked /\ stash = "none" => \E a \in Coming(queue, fin) : queue[a].op = "C2F"
    /\ \A a \in Coming(queue, fin) : queue[a].op = "C2" =>
           /\ stash = "stashing" /\ ~parked
           /\ \A b \in Coming(queue, fin) : queue[b].op = "C2" => a = b
    /\ stash = "stashed" => parked
    /\ stash # "none" => \A a \in 1..Len(queue) : queue[a].op \in Parking

\* The flag fits to the status.
Flags(s) ==
    /\ s.status = 48 => s.stash = "stashed"
    /\ s.stash = "stashing" => s.status = 50 \/ s.status \in Ended
    /\ s.stash = "stashed" => s.status \in {18, 48, 50} \/ s.status \in Ended
    /\ s.stash # "none" /\ s.status \in Ended => s.mb = "closing"
    /\ s.stash = "stashing" /\ s.status = 50 =>
           /\ s.queue # <<>>
           /\ s.parked \/ \E a \in Coming(s.queue, s.fin) : s.queue[a].op = "C2"

\* A macro that would send a command once the head is warm, or that moves it, is not
\* waited for while the head is parked.
Resting(s) ==
    s.status \notin Ended =>
        /\ s.status \in Starting => s.macro = "none"
        /\ s.allsetCb = "task" => s.macro = "heat"
        /\ s.allsetCb = "job" => s.macro = "job heat"
        /\ s.stash # "none" =>
               s.allsetCb \in {"none", "resume"} /\ ~(s.macro = "probe" /\ s.probing)

\* g is the CTRL line of the mainboard that is still to be read.
Signal(s, g) ==
    /\ g = "STASH" => \/ s.status \in Ended
                      \/ s.status = 50 /\ s.stash = "stashing" /\ s.parked
    /\ s.stash = "stashing" /\ s.status = 50 /\ s.parked => g = "STASH"
    /\ g = "STASH_POP" => s.status \in Ended \/ (s.stash = "none" /\ s.queue # <<>>)

\* In the middle of a handler of p.
Fit(s, g) ==
    /\ Way(s.queue, s.fin, s.parked, s.stash)
    /\ Flags(s) /\ Resting(s) /\ Signal(s, g)
    /\ s.ctrl = p.ctrl

SInv == IInv /\ Fit(p, p.ctrl)

\* No part of a handler sends a command of the job to a parked head.
Free(s) == s.stash = "none" \/ s.status \in Ended

-----------------------------------------------------------------------------
(* The commands on their way. *)

LEMMA Appended ==
    ASSUME NEW q \in CommandSeqs, NEW c \in Commands
    PROVE  /\ Len(q) \in Nat /\ Len(Append(q, c)) = Len(q) + 1
           /\ Append(q, c)[Len(q) + 1] = c
           /\ \A a \in 1..Len(q) : Append(q, c)[a] = q[a]
           /\ Append(q, c) # <<>> /\ Append(q, c) \in CommandSeqs
BY DEF CommandSeqs

\* The positions after one more command.
LEMMA OneMore ==
    ASSUME NEW q \in CommandSeqs, NEW c \in Commands, NEW f \in Nat, f <= Len(q)
    PROVE  /\ Len(q) + 1 \in Coming(Append(q, c), f)
           /\ \A a \in Coming(q, f) :
                  /\ a \in Coming(Append(q, c), f) /\ a < Len(q) + 1 /\ Append(q, c)[a] = q[a]
           /\ \A a \in Coming(Append(q, c), f) : a \in Coming(q, f) \/ a = Len(q) + 1
           /\ \A a \in 1..Len(Append(q, c)) : a \in 1..Len(q) \/ a = Len(q) + 1
<1>1. /\ Len(q) \in Nat /\ Len(Append(q, c)) = Len(q) + 1
      /\ \A a \in 1..Len(q) : Append(q, c)[a] = q[a]
  BY Appended
<1> QED
  BY <1>1 DEF Coming

\* A command that no part of the invariant speaks of, while the head is not parked or
\* C2F is on its way; and one that sets the speed, at any time.
LEMMA WayPlain ==
    ASSUME NEW q \in CommandSeqs, NEW c \in Commands, NEW f \in Nat, f <= Len(q),
           NEW k, NEW t, Way(q, f, k, t), c.op \notin Special, t = "none" \/ c.op = "X5"
    PROVE  Way(Append(q, c), f, k, t)
<1> DEFINE r == Append(q, c)
           n == Len(q) + 1
<1>1. /\ r[n] = c /\ n \in Coming(r, f) /\ n \in Nat
      /\ \A a \in Coming(q, f) : a \in Coming(r, f) /\ a < n /\ r[a] = q[a]
      /\ \A a \in Coming(r, f) : a \in Coming(q, f) \/ a = n
      /\ \A a \in 1..Len(r) : (a \in 1..Len(q) /\ r[a] = q[a]) \/ a = n
  <2>1. Len(q) \in Nat
    BY Appended
  <2>2. \A a \in Coming(q, f) : a \in Coming(r, f) /\ a < n /\ r[a] = q[a]
    BY OneMore
  <2>3. \A a \in Coming(r, f) : a \in Coming(q, f) \/ a = n
    BY OneMore
  <2>4. \A a \in 1..Len(r) : (a \in 1..Len(q) /\ r[a] = q[a]) \/ a = n
    BY Appended, OneMore
  <2>5. r[n] = c /\ n \in Coming(r, f) /\ n \in Nat
    BY <2>1, Appended, OneMore
  <2> HIDE DEF r, n
  <2> QED
    BY <2>2, <2>3, <2>4, <2>5
<1> HIDE DEF r, n
<1>2. c.op \notin {"C2F", "load", "C2"}
  BY DEF Special
<1>3. ASSUME NEW a \in Coming(r, f), r[a].op \in {"C2F", "load"}
      PROVE  k /\ \A b \in Coming(r, f) : b < a => r[b].op \in Rests
  <2>1. a \in Coming(q, f) /\ a < n /\ q[a].op \in {"C2F", "load"}
    BY <1>1, <1>2, <1>3
  <2>2. k /\ \A b \in Coming(q, f) : b < a => q[b].op \in Rests
    BY <2>1 DEF Way
  <2>3. ~(n < a)
    BY <1>1, <2>1 DEF Coming
  <2> QED
    BY <1>1, <2>2, <2>3
<1>4. ASSUME k, NEW a \in Coming(r, f), r[a].op \notin Rests \cup {"C2F"}
      PROVE  \E b \in Coming(r, f) : b < a /\ r[b].op = "C2F"
  <2>1. CASE a \in Coming(q, f)
    BY <1>1, <1>4, <2>1 DEF Way
  <2>2. CASE a = n
    <3>1. t = "none"
      BY <1>1, <1>4, <2>2 DEF Rests
    <3>2. PICK b \in Coming(q, f) : q[b].op = "C2F"
      BY <1>4, <3>1 DEF Way
    <3> QED
      BY <1>1, <2>2, <3>2
  <2> QED
    BY <1>1, <2>1, <2>2
<1>5. k /\ t = "none" => \E a \in Coming(r, f) : r[a].op = "C2F"
  BY <1>1 DEF Way
<1>6. ASSUME NEW a \in Coming(r, f), r[a].op = "C2"
      PROVE  t = "stashing" /\ ~k /\ \A b \in Coming(r, f) : r[b].op = "C2" => a = b
  <2>1. a \in Coming(q, f) /\ q[a].op = "C2"
    BY <1>1, <1>2, <1>6
  <2> QED
    BY <1>1, <1>2, <2>1 DEF Way
<1>7. t = "stashed" => k
  BY DEF Way
<1>8. ASSUME t # "none", NEW a \in 1..Len(r)
      PROVE  r[a].op \in Parking
  <2>1. c.op = "X5"
    BY <1>8
  <2> QED
    BY <1>1, <1>8, <2>1 DEF Way, Parking
<1> QED
  BY <1>3, <1>4, <1>5, <1>6, <1>7, <1>8 DEF Way, r

\* C2 is sent to a head that is not parked, with nothing but a speed before it.
LEMMA WayStash ==
    ASSUME NEW q \in CommandSeqs, NEW c \in Commands, NEW f \in Nat, f <= Len(q),
           c.op = "C2", \A a \in 1..Len(q) : q[a].op = "X5"
    PROVE  Way(Append(q, c), f, FALSE, "stashing")
<1> DEFINE r == Append(q, c)
           n == Len(q) + 1
<1>1. /\ r[n] = c /\ n \in Coming(r, f)
      /\ \A a \in 1..Len(r) : (a \in 1..Len(q) /\ r[a] = q[a]) \/ a = n
      /\ \A a \in Coming(r, f) : a \in 1..Len(r)
  BY Appended, OneMore DEF Coming
<1> HIDE DEF r, n
<1>2. \A a \in 1..Len(r) : r[a].op = "X5" \/ (r[a].op = "C2" /\ a = n)
  BY <1>1
<1> QED
  BY <1>1, <1>2 DEF Way, Parking, r

\* C2F is sent to a parked head; the flag is cleared.
LEMMA WayReturn ==
    ASSUME NEW q \in CommandSeqs, NEW c \in Commands, NEW f \in Nat, f <= Len(q),
           NEW k, Way(q, f, k, "stashed"), c.op = "C2F"
    PROVE  Way(Append(q, c), f, k, "none")
<1> DEFINE r == Append(q, c)
           n == Len(q) + 1
<1>1. /\ r[n] = c /\ n \in Coming(r, f) /\ n \in Nat
      /\ \A a \in Coming(q, f) : a \in Coming(r, f) /\ a < n /\ r[a] = q[a]
      /\ \A a \in Coming(r, f) : a \in Coming(q, f) \/ a = n
      /\ \A a \in Coming(q, f) : a \in 1..Len(q)
  BY Appended, OneMore DEF Coming
<1> HIDE DEF r, n
<1>2. k /\ \A a \in Coming(q, f) : q[a].op \in Parking /\ q[a].op # "C2"
  BY <1>1 DEF Way
<1>3. k /\ \A a \in Coming(r, f) : r[a].op \in Rests \/ (r[a].op = "C2F" /\ a = n)
  BY <1>1, <1>2 DEF Parking, Rests
<1>4. \A a \in Coming(r, f) : ~(r[a].op = "load" /\ r[a].op = "C2F") /\ r[a].op # "C2"
  BY <1>3 DEF Rests
<1>5. ASSUME NEW a \in Coming(r, f), NEW b \in Coming(r, f), b < a
      PROVE  r[b].op \in Rests
  <2>1. b # n
    BY <1>1, <1>5 DEF Coming
  <2> QED
    BY <1>3, <2>1
<1> QED
  BY <1>1, <1>3, <1>4, <1>5 DEF Way, r

\* Filament is loaded where the head is parked.
LEMMA WayLoad ==
    ASSUME NEW q \in CommandSeqs, NEW c \in Commands, NEW f \in Nat, f <= Len(q),
           NEW k, Way(q, f, k, "stashed"), c.op = "load"
    PROVE  Way(Append(q, c), f, k, "stashed")
<1> DEFINE r == Append(q, c)
           n == Len(q) + 1
<1>1. /\ r[n] = c
      /\ \A a \in Coming(r, f) : (a \in Coming(q, f) /\ r[a] = q[a]) \/ a = n
      /\ \A a \in 1..Len(r) : (a \in 1..Len(q) /\ r[a] = q[a]) \/ a = n
      /\ \A a \in Coming(q, f) : a \in 1..Len(q)
  BY Appended, OneMore DEF Coming
<1> HIDE DEF r, n
<1>2. k /\ \A a \in Coming(q, f) : q[a].op \in Parking /\ q[a].op # "C2"
  BY <1>1 DEF Way
<1>3. \A a \in Coming(r, f) : r[a].op \in Rests
  BY <1>1, <1>2 DEF Parking, Rests
<1>4. \A a \in 1..Len(r) : r[a].op \in Parking
  BY <1>1 DEF Way, Parking
<1>5. \A v \in Rests : v # "C2"
  BY DEF Rests
<1> QED
  BY <1>2, <1>3, <1>4, <1>5 DEF Way, r

\* The mainboard says that the head is parked.
LEMMA WayParked ==
    ASSUME NEW q, NEW f, Way(q, f, TRUE, "stashing")
    PROVE  Way(q, f, TRUE, "stashed")
BY DEF Way

\* The mainboard carries out its next command.
LEMMA WayExecuted ==
    ASSUME NEW q \in CommandSeqs, NEW f \in Nat, f < Len(q), NEW k, k \in Bools, NEW t,
           Way(q, f, k, t)
    PROVE  /\ q[f + 1].op = "C2" => t = "stashing" /\ Way(q, f + 1, TRUE, t)
           /\ q[f + 1].op = "C2F" => t = "none" /\ Way(q, f + 1, FALSE, t)
           /\ q[f + 1].op \notin {"C2", "C2F"} => Way(q, f + 1, k, t)
<1> DEFINE n == f + 1
<1>1. /\ n \in Coming(q, f) /\ n \in 1..Len(q)
      /\ \A a \in Coming(q, n) : a \in Coming(q, f) /\ n < a /\ a # n /\ a \in 1..Len(q)
      /\ \A a \in Coming(q, f) : a \in Coming(q, n) \/ a = n
      /\ \A a \in Coming(q, f) : ~(a < n)
  BY DEF Coming, CommandSeqs
<1> HIDE DEF n
<1>2. ASSUME q[n].op = "C2"
      PROVE  t = "stashing" /\ Way(q, n, TRUE, t)
  <2>1. t = "stashing" /\ ~k
    BY <1>1, <1>2 DEF Way
  <2>2. \A a \in Coming(q, n) : q[a].op \in Parking /\ q[a].op \notin {"C2", "C2F", "load"}
    BY <1>1, <1>2, <2>1 DEF Way, Parking
  <2>3. \A a \in Coming(q, n) : q[a].op = "X5"
    BY <2>2 DEF Parking
  <2>4. \A a \in 1..Len(q) : q[a].op \in Parking
    BY <2>1 DEF Way
  <2> QED
    BY <2>1, <2>3, <2>4 DEF Way, Rests
<1>3. ASSUME q[n].op = "C2F"
      PROVE  t = "none" /\ Way(q, n, FALSE, t)
  <2>1. t = "none"
    BY <1>1, <1>3 DEF Way, Parking
  <2>2. \A a \in Coming(q, n) : q[a].op \notin {"C2F", "load"}
    BY <1>1, <1>3 DEF Way, Rests
  <2>3. \A a \in Coming(q, n) : q[a].op # "C2"
    BY <1>1, <2>1 DEF Way
  <2> QED
    BY <2>1, <2>2, <2>3 DEF Way
<1>4. ASSUME q[n].op \notin {"C2", "C2F"}
      PROVE  Way(q, n, k, t)
  <2>1. \A a \in Coming(q, n) : q[a].op \in {"C2F", "load"} =>
            k /\ \A b \in Coming(q, n) : b < a => q[b].op \in Rests
    BY <1>1 DEF Way
  <2>2. ASSUME k, NEW a \in Coming(q, n), q[a].op \notin Rests \cup {"C2F"}
        PROVE  \E b \in Coming(q, n) : b < a /\ q[b].op = "C2F"
    <3>1. PICK b \in Coming(q, f) : b < a /\ q[b].op = "C2F"
      BY <1>1, <2>2 DEF Way
    <3> QED
      BY <1>1, <1>4, <3>1
  <2>3. k /\ t = "none" => \E a \in Coming(q, n) : q[a].op = "C2F"
    BY <1>1, <1>4 DEF Way
  <2>4. \A a \in Coming(q, n) : q[a].op = "C2" =>
            /\ t = "stashing" /\ ~k
            /\ \A b \in Coming(q, n) : q[b].op = "C2" => a = b
    BY <1>1 DEF Way
  <2>5. (t = "stashed" => k) /\ (t # "none" => \A a \in 1..Len(q) : q[a].op \in Parking)
    BY DEF Way
  <2> QED
    BY <2>1, <2>2, <2>3, <2>4, <2>5 DEF Way
<1> QED
  BY <1>2, <1>3, <1>4 DEF n

\* The mainboard reports what it has carried out.
LEMMA WayReported ==
    ASSUME NEW q \in CommandSeqs, NEW f \in Nat, f <= Len(q), NEW j \in Nat, j <= f,
           NEW k, NEW t, Way(q, f, k, t)
    PROVE  /\ Way(SubSeq(q, j + 1, Len(q)), f - j, k, t)
           /\ \A o : (\E a \in Coming(q, f) : q[a].op = o) =>
                  \E a \in Coming(SubSeq(q, j + 1, Len(q)), f - j) :
                      SubSeq(q, j + 1, Len(q))[a].op = o
<1> DEFINE r == SubSeq(q, j + 1, Len(q))
           g == f - j
<1>1. Len(q) \in Nat /\ Len(r) = Len(q) - j /\ \A a \in 1..Len(r) : r[a] = q[a + j]
  BY DEF CommandSeqs
<1>2. \A a \in Coming(r, g) : a \in Int /\ a + j \in Coming(q, f) /\ r[a] = q[a + j]
  BY <1>1 DEF Coming
<1>3. \A b \in Coming(q, f) : b \in Int /\ b - j \in Coming(r, g) /\ (b - j) + j = b
                              /\ r[b - j] = q[b]
  BY <1>1 DEF Coming
<1>4. \A a \in 1..Len(r) : a + j \in 1..Len(q) /\ r[a] = q[a + j]
  BY <1>1
<1> HIDE DEF r, g
<1>5. ASSUME NEW a \in Coming(r, g), r[a].op \in {"C2F", "load"}
      PROVE  k /\ \A b \in Coming(r, g) : b < a => r[b].op \in Rests
  <2>1. k /\ \A b \in Coming(q, f) : b < a + j => q[b].op \in Rests
    BY <1>2, <1>5 DEF Way
  <2>2. \A b \in Coming(r, g) : b < a => b + j < a + j
    BY <1>2
  <2> QED
    BY <1>2, <2>1, <2>2
<1>6. ASSUME k, NEW a \in Coming(r, g), r[a].op \notin Rests \cup {"C2F"}
      PROVE  \E b \in Coming(r, g) : b < a /\ r[b].op = "C2F"
  <2>1. PICK b \in Coming(q, f) : b < a + j /\ q[b].op = "C2F"
    BY <1>2, <1>6 DEF Way
  <2>2. b - j \in Coming(r, g) /\ r[b - j].op = "C2F" /\ b - j < a
    BY <1>2, <1>3, <2>1
  <2> QED
    BY <2>2
<1>7. k /\ t = "none" => \E a \in Coming(r, g) : r[a].op = "C2F"
  BY <1>3 DEF Way
<1>8. ASSUME NEW a \in Coming(r, g), r[a].op = "C2"
      PROVE  t = "stashing" /\ ~k /\ \A b \in Coming(r, g) : r[b].op = "C2" => a = b
  <2>1. t = "stashing" /\ ~k /\ \A b \in Coming(q, f) : q[b].op = "C2" => a + j = b
    BY <1>2, <1>8 DEF Way
  <2>2. \A b \in Coming(r, g) : a + j = b + j => a = b
    BY <1>2
  <2> QED
    BY <1>2, <2>1, <2>2
<1>9. (t = "stashed" => k) /\ (t # "none" => \A a \in 1..Len(r) : r[a].op \in Parking)
  BY <1>4 DEF Way
<1>10. Way(r, g, k, t)
  BY <1>5, <1>6, <1>7, <1>8, <1>9 DEF Way
<1>11. \A o : (\E a \in Coming(q, f) : q[a].op = o) => \E a \in Coming(r, g) : r[a].op = o
  BY <1>3
<1> QED
  BY <1>10, <1>11 DEF r, g


-----------------------------------------------------------------------------
(* Operators that leave alone what Fit speaks of. *)

Calm(s, t) ==
    /\ t.status = s.status /\ t.stash = s.stash /\ t.parked = s.parked
    /\ t.queue = s.queue /\ t.fin = s.fin /\ t.mb = s.mb /\ t.ctrl = s.ctrl
    /\ t.allsetCb = s.allsetCb /\ t.macro = s.macro /\ t.probing = s.probing

LEMMA CalmOn ==
    ASSUME NEW s, NEW t, NEW u, Calm(s, t), Calm(t, u)
    PROVE  Calm(s, u)
BY DEF Calm

LEMMA CalmFit ==
    ASSUME NEW s, NEW t, NEW g, Fit(s, g), Calm(s, t)
    PROVE  Fit(t, g)
<1>1. Way(t.queue, t.fin, t.parked, t.stash) /\ t.ctrl = p.ctrl
  BY DEF Calm, Fit
<1>2. Flags(t)
  BY DEF Calm, Fit, Flags
<1>3. Resting(t)
  BY ZenonT(120) DEF Calm, Fit, Resting
<1>4. Signal(t, g)
  BY ZenonT(120) DEF Calm, Fit, Signal
<1> QED
  BY <1>1, <1>2, <1>3, <1>4 DEF Fit

LEMMA CalmFree ==
    ASSUME NEW s, NEW t, Free(s), Calm(s, t)
    PROVE  Free(t)
BY DEF Calm, Free

\* A field that Fit does not read.
LEMMA AsideCalm ==
    ASSUME NEW s, IsPlayer(s), NEW e
    PROVE  /\ Calm(s, Raise(s, e)) /\ Calm(s, Quiet(s)) /\ Calm(s, Close(s))
           /\ Calm(s, [s EXCEPT !.cb = e]) /\ Calm(s, [s EXCEPT !.pausedMacro = e])
           /\ Calm(s, [s EXCEPT !.probe = e]) /\ Calm(s, [s EXCEPT !.control = e])
           /\ Calm(s, [s EXCEPT !.rt = e]) /\ Calm(s, [s EXCEPT !.errno = e])
           /\ Calm(s, [s EXCEPT !.fed = e]) /\ Calm(s, [s EXCEPT !.th = e])
           /\ Calm(s, [s EXCEPT !.error = e]) /\ Calm(s, [s EXCEPT !.updating = e])
           /\ Calm(s, [s EXCEPT !.temp = e]) /\ Calm(s, [s EXCEPT !.next = e])
           /\ Calm(s, [s EXCEPT !.heatTo = e]) /\ Calm(s, [s EXCEPT !.retracting = e])
BY ZenonT(120) DEF Raise, Quiet, Close, IsPlayer, Fields, Calm

LEMMA HalCalm ==
    ASSUME NEW s, IsPlayer(s)
    PROVE  /\ Calm(s, PowerOn(s)) /\ Calm(s, PowerOff(s))
           /\ Calm(s, SetOperating(s)) /\ Calm(s, SetStandby(s))
           /\ Calm(s, ToolheadBootstrap(s)) /\ Calm(s, OnMainboardReady(s))
<1>1. /\ Calm(s, PowerOn(s)) /\ Calm(s, PowerOff(s)) /\ IsPlayer(PowerOn(s))
      /\ Calm(s, ToolheadBootstrap(s))
  <2>1. Calm(s, PowerOn(s)) /\ Calm(s, PowerOff(s)) /\ Calm(s, ToolheadBootstrap(s))
    BY ZenonT(120) DEF PowerOn, PowerOff, ToolheadBootstrap, IsPlayer, Fields, Calm
  <2>2. IsPlayer(PowerOn(s))
    BY PowerOnKeeps DEF Keeps
  <2> QED
    BY <2>1, <2>2
<1>2. Calm(s, SetOperating(s)) /\ Calm(s, SetStandby(s))
  BY ZenonT(120) DEF SetOperating, SetStandby, IsPlayer, Fields, Calm
<1>3. ASSUME NEW t, IsPlayer(t)
      PROVE  Calm(t, ToolheadBootstrap(t))
  BY ZenonT(120), <1>3 DEF ToolheadBootstrap, IsPlayer, Fields, Calm
<1>4. Calm(PowerOn(s), OnMainboardReady(s))
  BY <1>1, <1>3 DEF OnMainboardReady
<1> QED
  BY <1>1, <1>2, <1>4, CalmOn

LEMMA ToHeadCalm ==
    ASSUME NEW s, IsPlayer(s), NEW c
    PROVE  Calm(s, ToHead(s, c))
<1>1. Calm(s, [s EXCEPT !.out = c])
  BY ZenonT(120) DEF IsPlayer, Fields, Calm
<1> QED
  BY <1>1, AsideCalm DEF ToHead

LEMMA PopToHeadCalm ==
    ASSUME NEW s, IsPlayer(s)
    PROVE  Calm(s, PopToHead(s))
<1> DEFINE t == [s EXCEPT !.hq = Tail(@)]
<1>1. CASE s.hq = <<>>
  BY <1>1 DEF PopToHead, Calm
<1>2. CASE s.hq # <<>>
  <2>1. IsPlayer(t) /\ Calm(s, t)
    BY <1>2, HeadSeqsHave DEF IsPlayer, Fields, Calm
  <2> HIDE DEF t
  <2>2. Calm(t, ToHead(t, Head(s.hq)))
    BY <2>1, ToHeadCalm
  <2>3. PopToHead(s) = ToHead(t, Head(s.hq))
    BY <1>2 DEF PopToHead, t
  <2> QED
    BY <2>1, <2>2, <2>3, CalmOn
<1> QED
  BY <1>1, <1>2

LEMMA SetHeaterCalm ==
    ASSUME NEW s, IsPlayer(s), NEW v \in Targets
    PROVE  Calm(s, SetHeater(s, v))
<1> DEFINE t == [s EXCEPT !.want = IF v = "off" THEN "unset" ELSE v]
<1>1. CASE v = "excess"
  BY <1>1, AsideCalm DEF SetHeater
<1>2. CASE v # "excess"
  <2>1. (IF v = "off" THEN "unset" ELSE v) \in Wants
    BY <1>2, WantValues
  <2>2. IsPlayer(t) /\ Calm(s, t)
    BY <2>1 DEF IsPlayer, Fields, Calm
  <2> HIDE DEF t
  <2>3. Calm(t, ToHead(t, v))
    BY <2>2, ToHeadCalm
  <2> QED
    BY <1>2, <2>2, <2>3, CalmOn DEF SetHeater, t
<1> QED
  BY <1>1, <1>2

LEMMA FitStill ==
    ASSUME NEW s, NEW g, Fit(s, g), IsPlayer(s)
    PROVE  /\ Fit(Quiet(s), g) /\ Fit(Close(s), g) /\ (\A e : Fit(Raise(s, e), g))
           /\ Fit(PopToHead(s), g) /\ Fit(SetStandby(s), g)
<1>1. /\ Calm(s, Quiet(s)) /\ Calm(s, Close(s)) /\ Calm(s, PopToHead(s))
      /\ Calm(s, SetStandby(s))
  BY AsideCalm, PopToHeadCalm, HalCalm
<1>2. \A e : Calm(s, Raise(s, e))
  BY AsideCalm
<1> QED
  BY <1>1, <1>2, CalmFit

\* Where the status alone says that the head is not parked, or that nothing is sent.
LEMMA Freed ==
    ASSUME NEW s, NEW g, Fit(s, g), IsPlayer(s)
    PROVE  /\ s.status \notin {18, 48, 50} => Free(s)
           /\ s.status \in {4, 6, 16, 36, 38} => s.stash = "none"
           /\ s.status = 18 /\ s.stash # "stashed" => s.stash = "none"
           /\ s.status = 48 => s.stash = "stashed"
<1>1. s.stash \in {"none", "stashing", "stashed"}
  BY StashValues DEF IsPlayer
<1>2. Flags(s)
  BY DEF Fit
<1> QED
  BY <1>1, <1>2, Ends DEF Flags, Free

\* What the end of the job leaves of Fit.
LEMMA EndedFit ==
    ASSUME NEW t, NEW g, t.status \in Ended, t.stash # "none" => t.mb = "closing",
           Way(t.queue, t.fin, t.parked, t.stash), t.ctrl = p.ctrl
    PROVE  Fit(t, g)
<1>1. t.status \in {64, 128}
  BY Ends
<1>2. Flags(t)
  BY <1>1 DEF Flags
<1>3. Resting(t)
  BY DEF Resting
<1>4. Signal(t, g)
  BY <1>1 DEF Signal
<1> QED
  BY <1>2, <1>3, <1>4 DEF Fit

-----------------------------------------------------------------------------
(* Sending. *)

LEMMA SendCmdPlayer ==
    ASSUME NEW s, IsPlayer(s), NEW c \in Commands
    PROVE  IsPlayer(SendCmd(s, c))
<1>1. Append(s.queue, c) \in CommandSeqs
  BY DEF IsPlayer, CommandSeqs
<1> QED
  BY ZenonT(120), <1>1, ExcValues DEF SendCmd, Raise, IsPlayer, Fields

LEMMA CmdIs ==
    /\ \A o \in Ops : Cmd(o) \in Commands /\ Cmd(o).op = o
    /\ \A i \in Indices : JobCmd(i) \in Commands /\ JobCmd(i).op = "job"
BY DEF Cmd, JobCmd, Commands, Indices

\* What is sent of a handler that is live, it is sent to a mainboard in use.
LEMMA SendCmdDoes ==
    ASSUME NEW s, IsPlayer(s), NEW c \in Commands
    PROVE  LET t == SendCmd(s, c) IN
           \/ Calm(s, t) /\ ~(Usable(s) /\ Len(s.queue) < BufSize)
           \/ /\ Usable(s) /\ t.queue = Append(s.queue, c) /\ t.exc = s.exc
              /\ t.status = s.status /\ t.stash = s.stash /\ t.parked = s.parked
              /\ t.fin = s.fin /\ t.mb = s.mb /\ t.ctrl = s.ctrl
              /\ t.allsetCb = s.allsetCb /\ t.macro = s.macro /\ t.probing = s.probing
<1>1. CASE Usable(s) /\ Len(s.queue) < BufSize
  <2>1. SendCmd(s, c) = [s EXCEPT !.queue = Append(@, c)]
    BY <1>1 DEF SendCmd, BufferedCmdSize
  <2> QED
    BY ZenonT(120), <1>1, <2>1 DEF IsPlayer, Fields
<1>2. CASE ~(Usable(s) /\ Len(s.queue) < BufSize)
  BY <1>2, AsideCalm DEF SendCmd, BufferedCmdSize
<1> QED
  BY <1>1, <1>2

\* Anything but a command to park, to return or to load may be sent while the head is
\* not parked or on its way back, and a speed at any time.
LEMMA SendCmdFit ==
    ASSUME NEW s, NEW g, Live(s), Fit(s, g), NEW c \in Commands, c.op \notin Special,
           c.op = "X5" \/ Free(s)
    PROVE  Fit(SendCmd(s, c), g)
<1> DEFINE t == SendCmd(s, c)
           n == Len(s.queue) + 1
<1>1. IsPlayer(s) /\ s.queue \in CommandSeqs /\ s.fin \in Nat /\ s.fin <= Len(s.queue)
  BY LivePlayer DEF Live, Sound, Ordered, IsPlayer
<1>2. CASE Calm(s, t)
  BY <1>2, CalmFit
<1>3. CASE ~Calm(s, t)
  <2>1. /\ Usable(s) /\ t.queue = Append(s.queue, c)
        /\ t.status = s.status /\ t.stash = s.stash /\ t.parked = s.parked
        /\ t.fin = s.fin /\ t.mb = s.mb /\ t.ctrl = s.ctrl
        /\ t.allsetCb = s.allsetCb /\ t.macro = s.macro /\ t.probing = s.probing
    BY <1>1, <1>3, SendCmdDoes
  <2> HIDE DEF t
  <2>2. s.stash = "none" \/ c.op = "X5"
    BY <2>1 DEF Free, Fit, Flags, Usable
  <2>3. Way(t.queue, t.fin, t.parked, t.stash)
    <3>1. Way(s.queue, s.fin, s.parked, s.stash)
      BY DEF Fit
    <3>2. Way(Append(s.queue, c), s.fin, s.parked, s.stash)
      BY <1>1, <2>2, <3>1, WayPlain
    <3> QED
      BY <2>1, <3>2
  <2>4. t.queue # <<>>
    BY <1>1, <2>1, Appended
  <2>5. \A a \in Coming(s.queue, s.fin) :
            a \in Coming(t.queue, t.fin) /\ t.queue[a] = s.queue[a]
    <3>1. \A a \in Coming(s.queue, s.fin) :
              /\ a \in Coming(Append(s.queue, c), s.fin)
              /\ Append(s.queue, c)[a] = s.queue[a]
      <4> DEFINE q == s.queue
                 f == s.fin
      <4>1. q \in CommandSeqs /\ f \in Nat /\ f <= Len(q)
        BY <1>1
      <4> HIDE DEF q, f
      <4>2. \A a \in Coming(q, f) :
                a \in Coming(Append(q, c), f) /\ Append(q, c)[a] = q[a]
        BY <4>1, OneMore
      <4> QED
        BY <4>2 DEF q, f
    <3> QED
      BY <2>1, <3>1
  <2>6. Flags(t)
    <3>1. Flags(s)
      BY DEF Fit
    <3>2. s.stash = "stashing" /\ s.status = 50 =>
              s.parked \/ \E a \in Coming(s.queue, s.fin) : s.queue[a].op = "C2"
      BY <3>1 DEF Flags
    <3>3. t.stash = "stashing" /\ t.status = 50 =>
              t.parked \/ \E a \in Coming(t.queue, t.fin) : t.queue[a].op = "C2"
      BY <2>1, <2>5, <3>2
    <3> QED
      BY <2>1, <2>4, <3>1, <3>3 DEF Flags
  <2>7. Resting(t)
    BY ZenonT(120), <2>1 DEF Fit, Resting
  <2>8. Signal(t, g)
    BY ZenonT(120), <2>1, <2>4 DEF Fit, Signal
  <2> QED
    BY <2>1, <2>3, <2>6, <2>7, <2>8 DEF Fit, t
<1> QED
  BY <1>2, <1>3

LEMMA SpeedFit ==
    ASSUME NEW s, NEW g, Live(s), Fit(s, g)
    PROVE  Fit(SendCmd(s, Cmd("X5")), g)
<1>1. Cmd("X5") \in Commands /\ Cmd("X5").op = "X5" /\ "X5" \notin Special
  BY CmdIs, OpNames DEF Special
<1> QED
  BY <1>1, SendCmdFit

LEMMA MoveFit ==
    ASSUME NEW s, NEW g, Live(s), Fit(s, g), Free(s),
           NEW o \in {"G28", "macro", "probe", "retract"}
    PROVE  Fit(SendCmd(s, Cmd(o)), g)
<1>1. Cmd(o) \in Commands /\ Cmd(o).op = o /\ o \notin Special
  BY CmdIs, OpNames DEF Special
<1> QED
  BY <1>1, SendCmdFit

\* Sending changes neither the status nor the flag.
LEMMA SendCmdFree ==
    ASSUME NEW s, IsPlayer(s), NEW c
    PROVE  /\ SendCmd(s, c).status = s.status /\ SendCmd(s, c).stash = s.stash
           /\ SendCmd(s, c).allsetCb = s.allsetCb /\ SendCmd(s, c).macro = s.macro
           /\ SendCmd(s, c).probing = s.probing /\ SendCmd(s, c).mb = s.mb
           /\ SendCmd(s, c).parked = s.parked /\ SendCmd(s, c).fin = s.fin
           /\ SendCmd(s, c).ctrl = s.ctrl
           /\ Free(s) => Free(SendCmd(s, c))
<1>1. /\ SendCmd(s, c).status = s.status /\ SendCmd(s, c).stash = s.stash
      /\ SendCmd(s, c).allsetCb = s.allsetCb /\ SendCmd(s, c).macro = s.macro
      /\ SendCmd(s, c).probing = s.probing /\ SendCmd(s, c).mb = s.mb
  BY SendCmdFields DEF Fields
<1>2. /\ SendCmd(s, c).parked = s.parked /\ SendCmd(s, c).fin = s.fin
      /\ SendCmd(s, c).ctrl = s.ctrl
  BY SendCmdFields DEF Fields
<1> QED
  BY <1>1, <1>2 DEF Free

-----------------------------------------------------------------------------
(* Ending. *)

LEMMA StandbyCalm ==
    ASSUME NEW s, IsPlayer(s), NEW called, NEW cb \in Callbacks
    PROVE  Standby(s, cb, called) = called \/ Calm(s, Standby(s, cb, called))
<1> DEFINE t == [s EXCEPT !.hq = Append(@, "standby"), !.cb = cb]
<1>1. Append(s.hq, "standby") \in HeadSeqs
  BY HeadSeqsHave, TargetValues DEF IsPlayer
<1>2. IsPlayer(t) /\ Calm(s, t)
  BY <1>1 DEF IsPlayer, Fields, Calm
<1>3. Standby(s, cb, called) \in {called, t, PopToHead(t)}
  BY DEF Standby
<1> HIDE DEF t
<1> QED
  BY <1>2, <1>3, PopToHeadCalm, CalmOn

\* The end closes the mainboard and gives up the macro.
LEMMA TerminateStill ==
    ASSUME NEW s, IsPlayer(s)
    PROVE  LET t == Terminate(s) IN
           /\ t.status = s.status /\ t.stash = s.stash /\ t.parked = s.parked
           /\ t.queue = s.queue /\ t.fin = s.fin /\ t.ctrl = s.ctrl
           /\ t.mb = IF Usable(s) THEN "closing" ELSE s.mb
<1> DEFINE u == [s EXCEPT !.macro = "none", !.pausedMacro = "none", !.power = @ \/ ~Ready(s)]
           t == MainboardClose(u)
           v == Standby(t, "close", Close(t))
<1>1. /\ IsPlayer(u)
      /\ u.status = s.status /\ u.stash = s.stash /\ u.parked = s.parked
      /\ u.queue = s.queue /\ u.fin = s.fin /\ u.ctrl = s.ctrl
  <2>1. (s.power \/ ~Ready(s)) \in Bools
    BY Booleans
  <2> QED
    BY ZenonT(120), <2>1, MacroValues, LoadValues DEF IsPlayer, Fields
<1> HIDE DEF u
<1>2. /\ IsPlayer(t)
      /\ t.status = u.status /\ t.stash = u.stash /\ t.parked = u.parked
      /\ t.queue = u.queue /\ t.fin = u.fin /\ t.ctrl = u.ctrl
  BY <1>1, MbValues DEF MainboardClose, IsPlayer, Fields
<1> HIDE DEF t
<1>3. Calm(t, Close(t)) /\ IsPlayer(Close(t)) /\ Keeps(t, Close(t))
  BY <1>2, AsideCalm, CloseKeeps DEF Keeps
<1>4. Calm(t, v) /\ IsPlayer(v)
  BY <1>2, <1>3, StandbyCalm, StandbyKeeps, CallbackValues DEF Keeps
<1> HIDE DEF v
<1>5. Calm(t, SetStandby(v))
  BY <1>4, HalCalm, CalmOn
<1>6. Terminate(s) \in {Close(t), SetStandby(v)}
  BY DEF Terminate, u, t, v
<1>7. Calm(t, Terminate(s))
  BY <1>3, <1>5, <1>6
<1>8. Terminate(s).mb = IF Usable(s) THEN "closing" ELSE s.mb
  BY TerminateDoes
<1> QED
  BY <1>1, <1>2, <1>7, <1>8 DEF Calm

\* Before the mainboard is greeted, nothing is parked.
LEMMA AbortFit ==
    ASSUME NEW s, NEW g, IsPlayer(s), Fit(s, g), s.stash # "none" => s.mb # "off",
           NEW e \in Errors
    PROVE  Fit(Abort(s, e), g)
<1> DEFINE u == [s EXCEPT !.status = 128, !.error = e]
           t == Terminate(u)
<1>1. CASE s.status \in Ended
  BY <1>1 DEF Abort
<1>2. CASE s.status \notin Ended
  <2>1. /\ IsPlayer(u) /\ u.status = 128 /\ u.stash = s.stash /\ u.parked = s.parked
        /\ u.queue = s.queue /\ u.fin = s.fin /\ u.ctrl = s.ctrl /\ u.mb = s.mb
    BY StatusValues DEF IsPlayer, Fields
  <2> HIDE DEF u
  <2>2. /\ t.status = 128 /\ t.stash = s.stash /\ t.parked = s.parked
        /\ t.queue = s.queue /\ t.fin = s.fin /\ t.ctrl = s.ctrl
        /\ t.mb = IF Usable(u) THEN "closing" ELSE s.mb
    BY <2>1, TerminateStill
  <2>3. IsPlayer(t)
    BY <2>1, TerminateDoes
  <2> HIDE DEF t
  <2>4. t.stash # "none" => t.mb = "closing"
    BY <2>1, <2>2, MbValues DEF Usable, IsPlayer
  <2>5. Way(t.queue, t.fin, t.parked, t.stash) /\ t.ctrl = p.ctrl
    BY <2>2 DEF Fit
  <2>6. Fit(t, g)
    BY <2>2, <2>4, <2>5, EndedFit, Ends
  <2>7. Fit(Close(t), g)
    BY <2>3, <2>6, FitStill
  <2>8. Abort(s, e) \in {t, Close(t)}
    BY <1>2 DEF Abort, t, u
  <2> QED
    BY <2>6, <2>7, <2>8
<1> QED
  BY <1>1, <1>2

LEMMA LiveAbortFit ==
    ASSUME NEW s, NEW g, Live(s), Fit(s, g), NEW e \in Errors
    PROVE  Fit(Abort(s, e), g)
BY AbortFit, LivePlayer DEF Live

LEMMA OnCompletedFit ==
    ASSUME NEW s, NEW g, Live(s), Fit(s, g), s.status = 16
    PROVE  Fit(OnCompleted(s), g)
<1> DEFINE t == Terminate(s)
           u == [t EXCEPT !.status = 64]
<1>1. IsPlayer(s) /\ s.stash = "none"
  BY Freed, LivePlayer
<1>2. IsPlayer(t) /\ t.stash = s.stash /\ t.parked = s.parked /\ t.queue = s.queue
      /\ t.fin = s.fin /\ t.ctrl = s.ctrl
  BY <1>1, TerminateStill, TerminateDoes
<1> HIDE DEF t
<1>3. u.status = 64 /\ u.stash = t.stash /\ u.parked = t.parked /\ u.queue = t.queue
      /\ u.fin = t.fin /\ u.ctrl = t.ctrl
  BY <1>2 DEF IsPlayer, Fields
<1> HIDE DEF u
<1>4. Way(u.queue, u.fin, u.parked, u.stash) /\ u.ctrl = p.ctrl /\ u.stash = "none"
  BY <1>1, <1>2, <1>3 DEF Fit
<1>5. Fit(u, g)
  BY <1>3, <1>4, EndedFit, Ends
<1> QED
  BY <1>5 DEF OnCompleted, t, u

-----------------------------------------------------------------------------
(* Pausing and resuming. *)

\* What a change of the status leaves alone.
Beside(s, t) ==
    /\ t.stash = s.stash /\ t.parked = s.parked /\ t.queue = s.queue /\ t.fin = s.fin
    /\ t.mb = s.mb /\ t.ctrl = s.ctrl
    /\ t.allsetCb = s.allsetCb /\ t.macro = s.macro /\ t.probing = s.probing

\* A change of the status fits unless it ends what the flag or the mainboard's answer
\* is about.
LEMMA NewStatusFit ==
    ASSUME NEW s, NEW g, Fit(s, g), NEW t, Beside(s, t), s.status \notin Ended,
           t.status \notin Ended, s.stash # "stashing", g # "STASH",
           t.status = 48 => s.stash = "stashed",
           s.stash # "none" => t.status \in {18, 48, 50},
           t.status \in Starting => s.status \in Starting
    PROVE  Fit(t, g)
<1>1. Way(t.queue, t.fin, t.parked, t.stash) /\ t.ctrl = p.ctrl
  BY DEF Beside, Fit
<1>2. Flags(t)
  BY DEF Beside, Flags
<1>3. Resting(t)
  BY ZenonT(120) DEF Fit, Beside, Resting
<1>4. Signal(t, g)
  BY ZenonT(120) DEF Fit, Beside, Signal
<1> QED
  BY <1>1, <1>2, <1>3, <1>4 DEF Fit

\* The mainboard's STASH is read only while the pause waits for it.
LEMMA NoStash ==
    ASSUME NEW s, NEW g, Fit(s, g), s.status \notin Ended, s.status # 50 \/ s.stash # "stashing"
    PROVE  s.stash # "stashing" /\ g # "STASH"
BY DEF Fit, Flags, Signal

\* The mainboard is counted as ready, or runs out of filament.
LEMMA ReadyFit ==
    ASSUME NEW s, NEW g, IsPlayer(s), Fit(s, g), s.status \notin Ended \/ s.stash = "none",
           NEW e
    PROVE  Fit([s EXCEPT !.mb = e], g)
<1> DEFINE t == [s EXCEPT !.mb = e]
<1>1. /\ t.status = s.status /\ t.stash = s.stash /\ t.parked = s.parked /\ t.queue = s.queue
      /\ t.fin = s.fin /\ t.ctrl = s.ctrl
      /\ t.allsetCb = s.allsetCb /\ t.macro = s.macro /\ t.probing = s.probing
  BY DEF IsPlayer, Fields
<1> HIDE DEF t
<1>2. Way(t.queue, t.fin, t.parked, t.stash) /\ t.ctrl = p.ctrl
  BY <1>1 DEF Fit
<1>3. Flags(t)
  BY <1>1 DEF Fit, Flags
<1>4. Resting(t)
  BY ZenonT(120), <1>1 DEF Fit, Resting
<1>5. Signal(t, g)
  BY ZenonT(120), <1>1 DEF Fit, Signal
<1> QED
  BY <1>2, <1>3, <1>4, <1>5 DEF Fit, t

LEMMA ResumeFit ==
    ASSUME NEW s, NEW g, Live(s), Fit(s, g)
    PROVE  Fit(Resume(s), g)
<1> DEFINE t == [s EXCEPT !.status = (@ - 32) + 2, !.error = "none"]
           u == SendCmd(t, Cmd("X5"))
           w == [u EXCEPT !.mb = "ready"]
           r == OnMainboardReady(w)
<1>1. CASE s.status \notin Paused \/ s.pausedMacro # "none"
  BY <1>1 DEF Resume
<1>2. CASE s.status \in Paused /\ s.pausedMacro = "none"
  <2>1. IsPlayer(s) /\ s.status \in {36, 48}
    BY <1>2, LivePlayer DEF Paused
  <2>2. /\ (s.status - 32) + 2 \in Statuses
        /\ s.status = 36 => (s.status - 32) + 2 = 6
        /\ s.status = 48 => (s.status - 32) + 2 = 18
    BY <2>1, StatusValues
  <2>3. IsPlayer(t) /\ t.status = (s.status - 32) + 2 /\ Beside(s, t)
        /\ Same(s, [t EXCEPT !.status = s.status])
    BY ZenonT(120), <2>1, <2>2, ErrorValues DEF IsPlayer, Fields, Beside, Same
  <2> HIDE DEF t
  <2>4. s.status \notin Ended /\ t.status \notin Ended /\ t.status # 64
        /\ (t.status \in Starting => s.status \in Starting)
        /\ s.status # 50
    BY <2>1, <2>2, <2>3, Ends DEF Starting
  <2>5. Live(t)
    <3>1. Leads(s, t)
      BY <2>3, <2>4, NewStatus
    <3> QED
      BY <3>1 DEF Leads
  <2>6. /\ s.stash # "none" => t.status \in {18, 48, 50}
        /\ t.status # 48
    BY <2>1, <2>2, <2>3, Freed
  <2>7. Fit(t, g)
    BY <2>3, <2>4, <2>6, NoStash, NewStatusFit
  <2>8. Fit(u, g) /\ IsPlayer(u) /\ u.status = t.status
    BY <2>3, <2>5, <2>7, SpeedFit, SendCmdPlayer, CmdIs, OpNames, SendCmdFree
  <2> HIDE DEF u
  <2>9. Fit(w, g)
    BY <2>4, <2>8, ReadyFit
  <2>10. IsPlayer(w)
    BY <2>8, MbValues DEF IsPlayer, Fields
  <2> HIDE DEF w
  <2>11. Fit(r, g)
    BY <2>9, <2>10, HalCalm, CalmFit
  <2> HIDE DEF r
  <2>12. Resume(s) \in {u, r}
    BY <1>2 DEF Resume, Then, t, u, w, r
  <2> QED
    BY <2>8, <2>11, <2>12
<1> QED
  BY <1>1, <1>2

\* BaseExecutor.paused: the head is parked, unless the job is still starting.
LEMMA PausedNowFit ==
    ASSUME NEW s, NEW g, Live(s), Fit(s, g), s.status \in Pausing,
           s.status = 50 => s.stash = "stashed"
    PROVE  Fit(PausedNow(s), g)
<1> DEFINE t == [s EXCEPT !.status = IF @ \in Starting THEN 36 ELSE 48]
<1>1. IsPlayer(s) /\ s.status \in {38, 50}
  BY LivePlayer DEF Pausing
<1>2. /\ IsPlayer(t) /\ Same(s, [t EXCEPT !.status = s.status]) /\ Beside(s, t)
      /\ t.status = IF s.status \in Starting THEN 36 ELSE 48
  BY <1>1, StatusValues DEF IsPlayer, Fields, Same, Beside
<1> HIDE DEF t
<1>3. \/ s.status = 38 /\ t.status = 36
      \/ s.status = 50 /\ t.status = 48
  BY <1>1, <1>2 DEF Starting
<1>4. s.status \notin Ended /\ t.status \notin Ended /\ t.status # 64
      /\ (t.status \in Starting => s.status \in Starting)
  BY <1>3, Ends DEF Starting
<1>5. Live(t)
  <2>1. Leads(s, t)
    BY <1>2, <1>4, NewStatus
  <2> QED
    BY <2>1 DEF Leads
<1>6. s.stash # "stashing" /\ g # "STASH"
  BY <1>1, <1>4, NoStash
<1>7. /\ t.status = 48 => s.stash = "stashed"
      /\ s.stash # "none" => t.status \in {18, 48, 50}
  BY <1>1, <1>3, Freed
<1>8. Fit(t, g)
  BY <1>2, <1>4, <1>6, <1>7, NewStatusFit
<1>9. PausedNow(s) \in {t, Resume(t)}
  BY DEF PausedNow, t
<1> QED
  BY <1>5, <1>8, <1>9, ResumeFit

LEMMA ToolheadPausedFit ==
    ASSUME NEW s, NEW g, Live(s), Fit(s, g), s.status = 50 => s.stash = "stashed"
    PROVE  Fit(ToolheadPaused(s), g)
<1> DEFINE t == IF s.status = 50 THEN PausedNow(s) ELSE s
<1>1. Fit(t, g) /\ IsPlayer(t)
  <2>1. s.status = 50 => s.status \in Pausing
    BY DEF Pausing
  <2>2. s.status = 50 => Fit(PausedNow(s), g) /\ IsPlayer(PausedNow(s))
    BY <2>1, PausedNowFit, PausedNowLeads, LivePlayer DEF Leads
  <2> QED
    BY <2>2, LivePlayer
<1>2. ToolheadPaused(s) \in {s, t, SetStandby(t)}
  BY DEF ToolheadPaused, Then
<1> HIDE DEF t
<1> QED
  BY <1>1, <1>2, FitStill

LEMMA PauseToolheadFit ==
    ASSUME NEW s, NEW g, Live(s), Fit(s, g), s.status = 50 => s.stash = "stashed"
    PROVE  Fit(PauseToolhead(s), g)
<1> DEFINE t == [s EXCEPT !.cb = "paused"]
           c == ToolheadPaused(s)
<1>1. Fit(c, g) /\ IsPlayer(s)
  BY ToolheadPausedFit, LivePlayer
<1> HIDE DEF c
<1>2. Fit(Standby(s, "paused", c), g)
  BY <1>1, StandbyCalm, CalmFit, CallbackValues
<1>3. Fit(t, g)
  BY <1>1, AsideCalm, CalmFit
<1>4. PauseToolhead(s) \in {c, Standby(s, "paused", c), t}
  BY DEF PauseToolhead, t, c
<1> QED
  BY <1>1, <1>2, <1>3, <1>4

\* The head, or the user's order to it, is forgotten.
LEMMA AllsetFit ==
    ASSUME NEW s, NEW g, Fit(s, g), NEW t,
           t.status = s.status, t.stash = s.stash, t.parked = s.parked, t.queue = s.queue,
           t.fin = s.fin, t.mb = s.mb, t.ctrl = s.ctrl, t.macro = s.macro,
           t.probing = s.probing, t.allsetCb \in {"none", "resume"}
    PROVE  Fit(t, g)
<1>1. Way(t.queue, t.fin, t.parked, t.stash) /\ t.ctrl = p.ctrl
  BY DEF Fit
<1>2. Flags(t)
  BY DEF Fit, Flags
<1>3. Resting(t)
  <2>1. t.allsetCb # "task" /\ t.allsetCb # "job"
    OBVIOUS
  <2> QED
    BY ZenonT(120), <2>1 DEF Fit, Resting
<1>4. Signal(t, g)
  BY ZenonT(120) DEF Fit, Signal
<1> QED
  BY <1>1, <1>2, <1>3, <1>4 DEF Fit

LEMMA AllsetNoneFit ==
    ASSUME NEW s, NEW g, IsPlayer(s), Fit(s, g), NEW e \in {"none", "resume"}
    PROVE  Fit([s EXCEPT !.allsetCb = e], g)
<1> DEFINE t == [s EXCEPT !.allsetCb = e]
<1>1. /\ t.status = s.status /\ t.stash = s.stash /\ t.parked = s.parked /\ t.queue = s.queue
      /\ t.fin = s.fin /\ t.mb = s.mb /\ t.ctrl = s.ctrl /\ t.macro = s.macro
      /\ t.probing = s.probing /\ t.allsetCb = e
  BY DEF IsPlayer, Fields
<1> HIDE DEF t
<1> QED
  BY <1>1, AllsetFit DEF t

LEMMA ToolheadResetFit ==
    ASSUME NEW s, NEW g, IsPlayer(s), Fit(s, g)
    PROVE  Fit(ToolheadReset(s), g)
<1> DEFINE t == ToolheadReset(s)
<1>1. /\ t.status = s.status /\ t.stash = s.stash /\ t.parked = s.parked /\ t.queue = s.queue
      /\ t.fin = s.fin /\ t.mb = s.mb /\ t.ctrl = s.ctrl /\ t.macro = s.macro
      /\ t.probing = s.probing /\ t.allsetCb = "none"
  BY DEF ToolheadReset, IsPlayer, Fields
<1> HIDE DEF t
<1> QED
  BY <1>1, AllsetFit DEF t

\* macro.giveup
LEMMA GiveupFit ==
    ASSUME NEW s, NEW g, Live(s), Fit(s, g)
    PROVE  /\ Fit(Giveup(s), g)
           /\ Giveup(s).status = s.status /\ Giveup(s).stash = s.stash
<1> DEFINE x == SendCmd(s, Cmd("X5"))
           y == [x EXCEPT !.allsetCb = "none"]
           h == SendCmd(s, Cmd("G28"))
           z == [h EXCEPT !.probing = FALSE, !.probe = IF @ = "converged" THEN @ ELSE "none"]
<1>1. IsPlayer(s) /\ IsPlayer(x) /\ IsPlayer(h) /\ Fit(x, g)
  BY SpeedFit, SendCmdPlayer, CmdIs, OpNames, LivePlayer
<1>2. x.status = s.status /\ x.stash = s.stash /\ h.status = s.status /\ h.stash = s.stash
  BY <1>1, SendCmdFree
<1>3. s.macro = "probe" /\ s.probing => Fit(h, g)
  <2>1. s.macro = "probe" /\ s.probing => Free(s)
    BY ZenonT(120) DEF Fit, Resting, Free
  <2> QED
    BY <2>1, MoveFit
<1> HIDE DEF x, h
<1>4. Fit(y, g) /\ y.status = x.status /\ y.stash = x.stash
  <2>1. y.status = x.status /\ y.stash = x.stash
    BY <1>1 DEF IsPlayer, Fields
  <2> QED
    BY <2>1, <1>1, AllsetNoneFit
<1>5. z.status = h.status /\ z.stash = h.stash
  BY <1>1 DEF IsPlayer, Fields
<1>6. Fit(h, g) => Fit(z, g)
  <2>1. /\ z.status = h.status /\ z.stash = h.stash /\ z.parked = h.parked
        /\ z.queue = h.queue /\ z.fin = h.fin /\ z.mb = h.mb /\ z.ctrl = h.ctrl
        /\ z.macro = h.macro /\ z.allsetCb = h.allsetCb /\ z.probing = FALSE
    BY ZenonT(120), <1>1 DEF IsPlayer, Fields
  <2> HIDE DEF z
  <2>2. SUFFICES ASSUME Fit(h, g) PROVE Fit(z, g)
    OBVIOUS
  <2>3. Way(z.queue, z.fin, z.parked, z.stash) /\ z.ctrl = p.ctrl
    BY <2>1, <2>2 DEF Fit
  <2>4. Flags(z)
    BY <2>1, <2>2 DEF Fit, Flags
  <2>5. Resting(z)
    BY ZenonT(120), <2>1, <2>2 DEF Fit, Resting
  <2>6. Signal(z, g)
    BY ZenonT(120), <2>1, <2>2 DEF Fit, Signal
  <2> QED
    BY <2>3, <2>4, <2>5, <2>6 DEF Fit
<1>7. Giveup(s) \in {s, x, y} \/ (s.macro = "probe" /\ s.probing /\ Giveup(s) \in {h, z})
  BY DEF Giveup, Then, x, y, h, z
<1> HIDE DEF y, z
<1> QED
  BY <1>1, <1>2, <1>3, <1>4, <1>5, <1>6, <1>7

OnlySpeed(queue) == Len(queue) <= 1 /\ \A a \in 1..Len(queue) : queue[a].op = "X5"

LEMMA SpeedAppended ==
    ASSUME NEW q \in CommandSeqs, q = <<>>, NEW c \in Commands, c.op = "X5"
    PROVE  OnlySpeed(q) /\ OnlySpeed(Append(q, c))
<1>1. /\ Len(q) = 0 /\ Len(Append(q, c)) = 1
      /\ Append(q, c)[1] = c
  BY DEF CommandSeqs
<1>2. \A a \in Nat : 1 <= a /\ a <= 1 => a = 1
  OBVIOUS
<1> QED
  BY <1>1, <1>2 DEF OnlySpeed

\* What giveup sends before the head is parked.
LEMMA GiveupSends ==
    ASSUME NEW s, Live(s), s.queue = <<>>, ~(s.macro = "probe" /\ s.probing),
           s.allsetCb = "task" => s.macro = "heat", s.allsetCb = "job" => s.macro = "job heat",
           Giveup(s).exc = "none"
    PROVE  LET t == Giveup(s) IN
           /\ OnlySpeed(t.queue) /\ t.mb = s.mb /\ t.parked = s.parked
           /\ t.fin = s.fin /\ t.ctrl = s.ctrl /\ t.allsetCb \in {"none", "resume"}
           /\ t.macro = s.macro /\ t.probing = s.probing
<1> DEFINE x == SendCmd(s, Cmd("X5"))
           y == [x EXCEPT !.allsetCb = "none"]
<1>1. IsPlayer(s) /\ IsPlayer(x) /\ Cmd("X5") \in Commands
  BY SendCmdPlayer, CmdIs, OpNames, LivePlayer
<1>2. s.queue \in CommandSeqs /\ Cmd("X5").op = "X5" /\ OnlySpeed(s.queue)
  <2>1. s.queue \in CommandSeqs
    BY <1>1 DEF IsPlayer
  <2>2. Cmd("X5").op = "X5"
    BY CmdIs, OpNames
  <2>3. OnlySpeed(s.queue)
    BY <1>1, <2>1, <2>2, SpeedAppended
  <2> QED
    BY <2>1, <2>2, <2>3
<1>3. CASE s.macro \in {"heat", "job heat"}
  <2>1. /\ OnlySpeed(x.queue) /\ x.mb = s.mb /\ x.parked = s.parked
        /\ x.fin = s.fin /\ x.ctrl = s.ctrl /\ x.macro = s.macro /\ x.probing = s.probing
    <3>1. Calm(s, x) \/ x.queue = Append(s.queue, Cmd("X5"))
      BY <1>1, SendCmdDoes
    <3>2. OnlySpeed(Append(s.queue, Cmd("X5")))
      BY <1>1, <1>2, SpeedAppended
    <3>3. /\ x.mb = s.mb /\ x.parked = s.parked
          /\ x.fin = s.fin /\ x.ctrl = s.ctrl /\ x.macro = s.macro /\ x.probing = s.probing
      BY <1>1, SendCmdFree
    <3> HIDE DEF x
    <3> QED
      BY <1>2, <3>1, <3>2, <3>3 DEF Calm
  <2> HIDE DEF x
  <2>2. /\ y.queue = x.queue /\ y.mb = x.mb /\ y.parked = x.parked
        /\ y.fin = x.fin /\ y.ctrl = x.ctrl /\ y.macro = x.macro /\ y.probing = x.probing
        /\ y.allsetCb = "none"
    BY <1>1 DEF IsPlayer, Fields
  <2> HIDE DEF y
  <2>3. Giveup(s) = IF x.exc = "none" THEN y ELSE x
    BY <1>3 DEF Giveup, Then, x, y
  <2>4. Giveup(s) = y
    BY <2>3
  <2> QED
    BY <2>1, <2>2, <2>4
<1>4. CASE s.macro \notin {"heat", "job heat"}
  <2>1. Giveup(s) = s
    BY <1>4 DEF Giveup
  <2>2. s.allsetCb \in {"none", "resume"}
    BY <1>1, <1>4, AllsetValues DEF IsPlayer
  <2> QED
    BY <1>2, <2>1, <2>2
<1> QED
  BY <1>3, <1>4

\* C2 goes to a head that is not parked, with nothing of the job before it.
LEMMA ParkFit ==
    ASSUME NEW s, NEW g, Live(s), Fit(s, g), s.status = 50, s.stash = "none",
           OnlySpeed(s.queue), g # "STASH", g # "STASH_POP",
           s.allsetCb \in {"none", "resume"}, ~(s.macro = "probe" /\ s.probing)
    PROVE  Fit(SendCmd([s EXCEPT !.stash = "stashing"], Cmd("C2")), g)
<1> DEFINE a == [s EXCEPT !.stash = "stashing"]
           c == Cmd("C2")
           t == SendCmd(a, c)
<1>1. IsPlayer(s) /\ s.queue \in CommandSeqs /\ s.fin \in Nat /\ s.fin <= Len(s.queue)
      /\ s.mb \in {"ready", "error"} /\ BufSize > 1 /\ BufSize \in Nat
  BY LivePlayer, ScenarioType, MbValues, Ends DEF Live, Sound, Ordered, IsPlayer
<1>2. c \in Commands /\ c.op = "C2" /\ Cmd("X5").op = "X5"
  BY CmdIs, OpNames
<1>3. Len(s.queue) < BufSize /\ \A b \in 1..Len(s.queue) : s.queue[b].op = "X5"
  BY <1>1 DEF OnlySpeed, CommandSeqs
<1>4. s.parked = FALSE
  <2>1. \A b \in Coming(s.queue, s.fin) : s.queue[b].op # "C2F"
    BY <1>1, <1>3 DEF Coming
  <2>2. ~s.parked
    BY <2>1 DEF Fit, Way
  <2> QED
    BY <1>1, <2>2 DEF IsPlayer, Bools
<1> HIDE DEF c
<1>5. /\ IsPlayer(a) /\ a.status = 50 /\ a.stash = "stashing" /\ a.parked = FALSE
      /\ a.queue = s.queue /\ a.fin = s.fin /\ a.mb = s.mb /\ a.ctrl = s.ctrl
      /\ a.allsetCb = s.allsetCb /\ a.macro = s.macro /\ a.probing = s.probing
  BY <1>1, <1>4, StashValues DEF IsPlayer, Fields
<1> HIDE DEF a
<1>6. /\ t.queue = Append(s.queue, c) /\ t.status = 50 /\ t.stash = "stashing"
      /\ t.parked = FALSE /\ t.fin = s.fin /\ t.mb = s.mb /\ t.ctrl = s.ctrl
      /\ t.allsetCb = s.allsetCb /\ t.macro = s.macro /\ t.probing = s.probing
  BY <1>1, <1>2, <1>3, <1>5, SendCmdDoes DEF Usable
<1> HIDE DEF t
<1>7. Way(t.queue, t.fin, t.parked, t.stash)
  BY <1>1, <1>2, <1>3, <1>6, WayStash
<1>8. \E b \in Coming(t.queue, t.fin) : t.queue[b].op = "C2"
  <2>1. /\ Len(s.queue) + 1 \in Coming(Append(s.queue, c), s.fin)
        /\ Append(s.queue, c)[Len(s.queue) + 1] = c
    BY <1>1, <1>2, OneMore, Appended
  <2> QED
    BY <1>2, <1>6, <2>1
<1>9. t.queue # <<>> /\ t.status \notin Ended /\ t.status \notin Starting
  <2>1. Append(s.queue, c) # <<>>
    BY <1>1, <1>2, Appended
  <2>2. t.queue # <<>>
    BY <1>6, <2>1
  <2>3. t.status = 50
    BY <1>6
  <2>4. t.status \notin Ended /\ t.status \notin Starting
    BY <2>3, Ends DEF Starting
  <2> QED
    BY <2>2, <2>4
<1>10. Flags(t)
  <2>1. t.status = 50 /\ t.stash = "stashing" /\ t.status # 48
    BY <1>6
  <2> QED
    BY ZenonT(120), <2>1, <1>8, <1>9 DEF Flags
<1>11. Resting(t)
  <2>1. t.allsetCb # "task" /\ t.allsetCb # "job"
    BY <1>6
  <2> QED
    BY ZenonT(120), <1>6, <1>9, <2>1 DEF Resting
<1>12. Signal(t, g)
  BY <1>6, <1>9 DEF Signal
<1> QED
  BY <1>6, <1>7, <1>10, <1>11, <1>12 DEF Fit, a, c, t

\* The pause reaches an empty buffer.
LEMMA StashFit ==
    ASSUME NEW s, NEW g, Live(s), Fit(s, g), s.status = 50, s.queue = <<>>
    PROVE  Fit(Stash(s), g)
<1> DEFINE t == Giveup(s)
<1>1. IsPlayer(s) /\ Live(t) /\ Fit(t, g) /\ t.status = 50 /\ t.stash = s.stash
  BY LivePlayer, GiveupFit, GiveupLeads DEF Leads
<1>2. s.stash \in {"none", "stashed"} /\ g # "STASH" /\ g # "STASH_POP"
      /\ s.status \notin Ended
  <2>1. s.status \notin Ended
    BY Ends
  <2>2. s.stash # "stashing"
    BY DEF Fit, Flags
  <2>3. g # "STASH" /\ g # "STASH_POP"
    BY <2>1, <2>2 DEF Fit, Signal
  <2> QED
    BY <1>1, <2>1, <2>2, <2>3, StashValues DEF IsPlayer
<1>3. CASE s.macro = "probe" /\ s.probing
  BY <1>1, <1>3 DEF Stash
<1>4. CASE ~(s.macro = "probe" /\ s.probing)
  <2>1. Stash(s) = IF t.exc # "none" THEN t
                   ELSE IF t.stash = "none"
                        THEN SendCmd([t EXCEPT !.stash = "stashing"], Cmd("C2"))
                        ELSE PauseToolhead(t)
    BY <1>4 DEF Stash, Then
  <2>2. CASE t.exc = "none" /\ t.stash = "none"
    <3>1. /\ s.allsetCb = "task" => s.macro = "heat"
          /\ s.allsetCb = "job" => s.macro = "job heat"
      BY ZenonT(120), <1>2 DEF Fit, Resting
    <3>2. /\ OnlySpeed(t.queue) /\ t.allsetCb \in {"none", "resume"}
          /\ t.macro = s.macro /\ t.probing = s.probing
      BY <1>4, <2>2, <3>1, GiveupSends
    <3> HIDE DEF t
    <3>3. ~(t.macro = "probe" /\ t.probing)
      BY <1>4, <3>2
    <3> QED
      BY <1>1, <1>2, <2>1, <2>2, <3>2, <3>3, ParkFit
  <2> HIDE DEF t
  <2>3. CASE t.exc = "none" /\ t.stash # "none"
    BY <1>1, <1>2, <2>1, <2>3, PauseToolheadFit
  <2> QED
    BY <1>1, <2>1, <2>2, <2>3
<1> QED
  BY <1>3, <1>4

LEMMA HandlePauseFit ==
    ASSUME NEW s, NEW g, Live(s), Fit(s, g)
    PROVE  Fit(HandlePause(s), g)
<1> DEFINE u == SendCmd(s, Cmd("X5"))
<1>1. Fit(u, g) /\ Live(u) /\ u.status = s.status
  BY SpeedFit, Sends, OpNames, LivePlayer, SendCmdFree DEF Leads
<1> HIDE DEF u
<1>2. s.status = 38 => Fit(PausedNow(u), g)
  BY <1>1, PausedNowFit DEF Pausing
<1>3. s.status = 50 /\ BufferedCmdSize(s) = 0 => Fit(Stash(s), g)
  BY StashFit, EmptyBuffer, LivePlayer
<1>4. \/ HandlePause(s) \in {s, u}
      \/ s.status = 38 /\ HandlePause(s) = PausedNow(u)
      \/ s.status = 50 /\ BufferedCmdSize(s) = 0 /\ HandlePause(s) = Stash(s)
  BY DEF HandlePause, Then, u
<1> QED
  BY <1>1, <1>2, <1>3, <1>4

LEMMA PauseFit ==
    ASSUME NEW s, NEW g, Live(s), Fit(s, g), NEW e \in Errors
    PROVE  Fit(Pause(s, e), g)
<1> DEFINE d == [s EXCEPT !.error = IF @ = "none" THEN e ELSE @]
           t == [s EXCEPT !.status = IF @ \in Starting THEN 38 ELSE 50, !.error = e]
           u == IF Ready(t) THEN t ELSE PowerOff(t)
<1>1. CASE s.status \in Pausing \cup Paused \cup Ended
  <2>1. Calm(s, d)
    BY LivePlayer DEF IsPlayer, Fields, Calm
  <2>2. Pause(s, e) = d
    BY <1>1 DEF Pause
  <2> HIDE DEF d
  <2> QED
    BY <2>1, <2>2, CalmFit
<1>2. CASE s.status \notin Pausing \cup Paused \cup Ended
  <2>1. IsPlayer(s) /\ s.status \in {4, 6, 16, 18}
    BY <1>2, LivePlayer, StatusValues DEF IsPlayer, Pausing, Paused, Ended
  <2>2. /\ IsPlayer(t) /\ Same(s, [t EXCEPT !.status = s.status]) /\ Beside(s, t)
        /\ t.status = IF s.status \in Starting THEN 38 ELSE 50
    BY <2>1, StatusValues DEF IsPlayer, Fields, Same, Beside
  <2> HIDE DEF t
  <2>3. s.status \notin Ended /\ t.status \notin Ended /\ t.status # 64 /\ t.status # 48
        /\ s.status # 50 /\ (t.status \in Starting => s.status \in Starting)
        /\ (s.status \notin {4, 6, 16, 36, 38} => t.status = 50)
    BY <2>1, <2>2, Ends DEF Starting
  <2>4. Live(t)
    <3>1. Leads(s, t)
      BY <2>2, <2>3, NewStatus
    <3> QED
      BY <3>1 DEF Leads
  <2>5. s.stash # "none" => t.status \in {18, 48, 50}
    BY <2>1, <2>3, Freed
  <2>6. Fit(t, g)
    BY <2>2, <2>3, <2>5, NoStash, NewStatusFit
  <2>7. Fit(u, g)
    BY <2>2, <2>6, HalCalm, CalmFit
  <2>8. Live(u)
    BY <2>4, PowerOffKeeps, KeepsLeads, LivePlayer DEF Leads
  <2> HIDE DEF u
  <2>9. Pause(s, e) \in {u, HandlePause(u)}
    BY <1>2 DEF Pause, t, u
  <2> QED
    BY <2>7, <2>8, <2>9, HandlePauseFit
<1> QED
  BY <1>1, <1>2

-----------------------------------------------------------------------------
(* Running. *)

\* A macro begins only where the head is free.
LEMMA StartMacroFit ==
    ASSUME NEW s, NEW g, Live(s), Fit(s, g), Free(s)
    PROVE  Fit(StartMacro(s), g)
<1> DEFINE m == SendCmd(s, Cmd("macro"))
           q == [s EXCEPT !.probing = TRUE]
           b == SendCmd(q, Cmd("probe"))
           x == SendCmd(s, Cmd("X5"))
           h == SetHeater(x, s.heatTo)
           t == Then(x, LAMBDA u : SetHeater(u, s.heatTo))
           a(e) == [t EXCEPT !.allsetCb = e]
<1>1. IsPlayer(s) /\ s.heatTo \in Targets
  BY LivePlayer DEF IsPlayer
<1>2. Fit(m, g) /\ Fit(x, g) /\ IsPlayer(x)
  BY <1>1, MoveFit, SpeedFit, SendCmdPlayer, CmdIs, OpNames
<1>3. Fit(b, g)
  <2>1. /\ Keeps(s, q)
        /\ q.status = s.status /\ q.stash = s.stash /\ q.parked = s.parked
        /\ q.queue = s.queue /\ q.fin = s.fin /\ q.mb = s.mb /\ q.ctrl = s.ctrl
        /\ q.allsetCb = s.allsetCb /\ q.macro = s.macro
    BY ZenonT(120), <1>1, Booleans DEF IsPlayer, Fields, Keeps, Same
  <2> HIDE DEF q
  <2>2. Way(q.queue, q.fin, q.parked, q.stash) /\ q.ctrl = p.ctrl
    BY <2>1 DEF Fit
  <2>3. Flags(q)
    BY <2>1 DEF Fit, Flags
  <2>4. Resting(q)
    BY ZenonT(120), <2>1 DEF Fit, Resting, Free
  <2>5. Signal(q, g)
    BY ZenonT(120), <2>1 DEF Fit, Signal
  <2>6. Fit(q, g)
    BY <2>2, <2>3, <2>4, <2>5 DEF Fit
  <2>7. Live(q) /\ Free(q)
    BY <2>1, KeepsLeads DEF Leads, Free
  <2> QED
    BY <2>6, <2>7, MoveFit
<1>4. x.status = s.status /\ x.stash = s.stash /\ x.macro = s.macro
  BY <1>1, SendCmdFree
<1> HIDE DEF m, b, x
<1>5. Calm(x, h) /\ IsPlayer(h)
  BY <1>1, <1>2, SetHeaterCalm, SetHeaterKeeps DEF Keeps
<1> HIDE DEF h
<1>6. t \in {x, h}
  BY DEF Then, h
<1> HIDE DEF t
<1>7. /\ Fit(t, g) /\ IsPlayer(t) /\ t.status = s.status /\ t.stash = s.stash
      /\ t.macro = s.macro
  BY <1>2, <1>4, <1>5, <1>6, CalmFit DEF Calm
<1>8. ASSUME NEW e \in {"task", "job"}, e = "task" => s.macro = "heat",
             e = "job" => s.macro = "job heat"
      PROVE  Fit(a(e), g)
  <2> DEFINE r == a(e)
  <2>1. /\ r.status = t.status /\ r.stash = t.stash /\ r.parked = t.parked
        /\ r.queue = t.queue /\ r.fin = t.fin /\ r.mb = t.mb /\ r.ctrl = t.ctrl
        /\ r.allsetCb = e /\ r.macro = t.macro /\ r.probing = t.probing
    BY <1>7 DEF IsPlayer, Fields
  <2> HIDE DEF a, r
  <2>2. Way(r.queue, r.fin, r.parked, r.stash) /\ r.ctrl = p.ctrl
    BY <1>7, <2>1 DEF Fit
  <2>3. Flags(r)
    BY <1>7, <2>1 DEF Fit, Flags
  <2>4. Resting(r)
    BY ZenonT(120), <1>7, <1>8, <2>1 DEF Fit, Resting, Free
  <2>5. Signal(r, g)
    BY ZenonT(120), <1>7, <2>1 DEF Fit, Signal
  <2> QED
    BY <2>2, <2>3, <2>4, <2>5 DEF Fit, r
<1>9. \/ StartMacro(s) \in {s, m, b, t}
      \/ s.macro = "heat" /\ StartMacro(s) = a("task")
      \/ s.macro = "job heat" /\ StartMacro(s) = a("job")
  BY DEF StartMacro, Then, m, q, b, x, t
<1> HIDE DEF a
<1> QED
  BY <1>2, <1>3, <1>7, <1>8, <1>9

\* A macro is exchanged for another once nothing waits for the temperature in its name.
LEMMA MacroFit ==
    ASSUME NEW s, NEW g, Fit(s, g), NEW t,
           t.status = s.status, t.stash = s.stash, t.parked = s.parked, t.queue = s.queue,
           t.fin = s.fin, t.mb = s.mb, t.ctrl = s.ctrl, t.allsetCb = s.allsetCb,
           ~(t.macro = "probe" /\ t.probing),
           s.allsetCb \notin {"task", "job"} \/ s.status \in Ended,
           s.status \notin Starting \/ t.macro = "none"
    PROVE  Fit(t, g)
<1>1. Way(t.queue, t.fin, t.parked, t.stash) /\ t.ctrl = p.ctrl
  BY DEF Fit
<1>2. Flags(t)
  BY DEF Fit, Flags
<1>3. Resting(t)
  BY ZenonT(120) DEF Fit, Resting
<1>4. Signal(t, g)
  BY ZenonT(120) DEF Fit, Signal
<1> QED
  BY <1>1, <1>2, <1>3, <1>4 DEF Fit

LEMMA FeedFit ==
    ASSUME NEW s, NEW g, Live(s), Fit(s, g), s.status = 16
    PROVE  /\ Fit(Feed(s), g)
           /\ Feed(s).status = 128 \/ (Free(Feed(s)) /\ Feed(s).macro = s.macro)
<1>1. IsPlayer(s) /\ Fit(Abort(s, "other"), g) /\ Free(s)
  <2>1. IsPlayer(s) /\ "other" \in Errors
    BY LivePlayer, ErrorValues
  <2>2. s.status \notin {18, 48, 50}
    OBVIOUS
  <2>3. Free(s)
    BY <2>1, <2>2, Freed
  <2> QED
    BY <2>1, <2>3, LiveAbortFit
<1>2. Abort(s, "other").status = 128
  <2> DEFINE u == [s EXCEPT !.status = 128, !.error = "other"]
             t == Terminate(u)
  <2>1. IsPlayer(u) /\ u.status = 128
    <3>1. 128 \in Statuses /\ "other" \in Errors
      BY StatusValues, ErrorValues
    <3>2. u.status = 128
      BY <1>1 DEF IsPlayer, Fields
    <3>3. IsPlayer(u)
      BY <1>1, <3>1 DEF IsPlayer, Fields
    <3> QED
      BY <3>2, <3>3
  <2> HIDE DEF u
  <2>2. IsPlayer(t) /\ t.status = 128
    <3>1. t.status = u.status
      BY <2>1, TerminateStill
    <3>2. IsPlayer(t)
      BY <2>1, TerminateDoes
    <3> QED
      BY <2>1, <3>1, <3>2
  <2> HIDE DEF t
  <2>3. Close(t).status = 128
    BY <2>2, AsideCalm DEF Calm
  <2>4. Abort(s, "other") = Close(t)
    <3>1. s.status \notin Ended
      BY Ends
    <3> QED
      BY <3>1 DEF Abort, t, u
  <2> QED
    BY <2>3, <2>4
<1> DEFINE w(n) == [s EXCEPT !.fed = n]
<1>3. Feed(s) \in {s, Abort(s, "other")} \/ \E n : Feed(s) = w(n)
  BY DEF Feed
<1>4. ASSUME NEW n
      PROVE  Fit(w(n), g) /\ Free(w(n)) /\ w(n).macro = s.macro
  <2>1. Calm(s, w(n))
    BY <1>1, AsideCalm
  <2> HIDE DEF w
  <2>2. w(n).macro = s.macro
    BY <2>1 DEF Calm
  <2> QED
    BY <1>1, <2>1, <2>2, CalmFit, CalmFree
<1> HIDE DEF w
<1> QED
  BY <1>1, <1>2, <1>3, <1>4

\* One turn of fire's loop; it turns again only where it may send again.
LEMMA DrainOneFit ==
    ASSUME NEW s, NEW g, Live(s), Fit(s, g), Free(s), s.macro = "none", s.exc = "none",
           s.next <= s.fed
    PROVE  /\ Fit(DrainOne(s).s, g)
           /\ DrainOne(s).go => Free(DrainOne(s).s) /\ DrainOne(s).s.macro = "none"
<1> DEFINE i == s.next
           t == [s EXCEPT !.next = i + 1]
           h == [t EXCEPT !.did = Append(@, i)]
           w == [h EXCEPT !.macro = "job heat", !.heatTo = Target(i)]
           headFree == BufferedCmdSize(s) = 0 /\ Sendable(s)
<1>1. IsPlayer(s) /\ s.next \in Nat /\ s.next \in Indices /\ s.status \notin Starting
  <2>1. IsPlayer(s) /\ s.next \in Nat /\ s.fed \in Nat /\ Home \in Nat
    BY LivePlayer, ScenarioType DEF IsPlayer, Live, Sound
  <2> QED
    BY <2>1 DEF Live, Sound, Reading, Indices
<1>2. IsPlayer(t) /\ Calm(s, t) /\ Fit(t, g) /\ Free(t) /\ t.macro = "none"
  <2>1. IsPlayer(t) /\ Calm(s, t)
    BY <1>1 DEF IsPlayer, Fields, Calm
  <2> QED
    BY <2>1, CalmFit, CalmFree DEF Calm
<1>0. Kind(i) \in Heats => Target(i) \in Targets
  BY <1>1, TargetType DEF Live, Sound, Indices
<1>3. ASSUME Kind(i) \in {"fan"} \cup Heats, headFree
      PROVE  /\ Fit(ToHead(h, "fan"), g)
             /\ Free(ToHead(h, "fan")) /\ ToHead(h, "fan").macro = "none"
             /\ Kind(i) \in Heats =>
                    LET a == SetHeater(h, Target(i)) IN
                    Fit(StartMacro(w), g) /\ Fit(a, g) /\ Free(a) /\ a.macro = "none"
  <2>1. [s EXCEPT !.next = s.next + 1, !.did = Append(@, s.next)] = h
    BY <1>1 DEF IsPlayer, Fields
  <2>2. Live(h)
    BY <1>1, <1>3, <2>1, EmptyBuffer, HeadTaken DEF Carried, Leads
  <2>3. Calm(t, h)
    BY <1>2 DEF IsPlayer, Fields, Calm
  <2> HIDE DEF h
  <2>4. Fit(h, g) /\ IsPlayer(h) /\ Free(h) /\ h.macro = "none"
    BY <1>2, <2>2, <2>3, CalmFit, CalmFree, LivePlayer DEF Calm
  <2>5. Calm(h, ToHead(h, "fan"))
    BY <2>4, ToHeadCalm
  <2>13. Fit(ToHead(h, "fan"), g) /\ Free(ToHead(h, "fan")) /\ ToHead(h, "fan").macro = "none"
    BY <2>4, <2>5, CalmFit, CalmFree DEF Calm
  <2>14. SUFFICES ASSUME Kind(i) \in Heats
                  PROVE  LET a == SetHeater(h, Target(i)) IN
                         Fit(StartMacro(w), g) /\ Fit(a, g) /\ Free(a) /\ a.macro = "none"
    BY <2>13
  <2>15. Calm(h, SetHeater(h, Target(i)))
    BY <1>0, <2>4, <2>14, SetHeaterCalm
  <2>6. Keeps(h, w)
    BY ZenonT(120), <1>0, <2>4, <2>14, MacroValues DEF IsPlayer, Fields, Keeps, Same
  <2>7. /\ w.status = h.status /\ w.stash = h.stash /\ w.parked = h.parked
        /\ w.queue = h.queue /\ w.fin = h.fin /\ w.mb = h.mb /\ w.ctrl = h.ctrl
        /\ w.allsetCb = h.allsetCb /\ w.probing = h.probing /\ w.macro = "job heat"
    BY <2>4 DEF IsPlayer, Fields
  <2> HIDE DEF w
  <2>8. Live(w)
    BY <2>2, <2>6, KeepsLeads DEF Leads
  <2>9. Free(w)
    BY <2>4, <2>7 DEF Free
  <2>10. h.status = s.status
    BY <1>2, <2>3 DEF Calm
  <2>11. Fit(w, g)
    <3>1. Way(w.queue, w.fin, w.parked, w.stash) /\ w.ctrl = p.ctrl
      BY <2>4, <2>7 DEF Fit
    <3>2. Flags(w)
      <4>1. Flags(h)
        BY <2>4 DEF Fit
      <4> QED
        BY ZenonT(120), <2>7, <4>1 DEF Flags
    <3>3. w.status \notin Starting
      BY <1>1, <2>7, <2>10
    <3>4. w.status \notin Ended => w.allsetCb # "task" /\ w.allsetCb # "job"
      BY ZenonT(120), <2>4, <2>7 DEF Fit, Resting
    <3>5. Resting(w)
      BY ZenonT(120), <2>4, <2>7, <2>9, <3>3, <3>4 DEF Resting, Free
    <3>6. Signal(w, g)
      BY ZenonT(120), <2>4, <2>7 DEF Fit, Signal
    <3> QED
      BY <3>1, <3>2, <3>5, <3>6 DEF Fit
  <2>12. Fit(StartMacro(w), g)
    BY <2>8, <2>9, <2>11, StartMacroFit
  <2> QED
    BY <2>4, <2>12, <2>15, CalmFit, CalmFree DEF Calm
<1>4. ASSUME Kind(i) \in {"pause", "abort"}
      PROVE  Fit(Pause(t, "other"), g) /\ Fit(Abort(t, "other"), g)
  <2>1. Live(t)
    BY <1>4, Skipped DEF Carried, Heats, Leads
  <2> QED
    BY <2>1, <1>2, PauseFit, LiveAbortFit, ErrorValues
<1>5. ASSUME Kind(i) = "move", BufferedCmdSize(s) < BufSize
      PROVE  /\ Fit(SendCmd(t, JobCmd(i)), g) /\ Free(SendCmd(t, JobCmd(i)))
             /\ SendCmd(t, JobCmd(i)).macro = "none"
  <2> DEFINE c == JobCmd(i)
             u == SendCmd(t, c)
  <2>1. c \in Commands /\ c.op = "job" /\ "job" \notin Special
    BY <1>1, CmdIs DEF Special
  <2>2. SendCmd(s, c) = [s EXCEPT !.queue = Append(@, c)] \/ SendCmd(s, c) = Raise(s, "other")
    BY DEF SendCmd
  <2> HIDE DEF c
  <2>3. Fit(SendCmd(s, c), g) /\ IsPlayer(SendCmd(s, c))
    BY <1>1, <2>1, SendCmdFit, SendCmdPlayer
  <2>4. Calm(SendCmd(s, c), u)
    <3>1. /\ u.status = t.status /\ u.stash = t.stash /\ u.parked = t.parked
          /\ u.fin = t.fin /\ u.mb = t.mb /\ u.ctrl = t.ctrl
          /\ u.allsetCb = t.allsetCb /\ u.macro = t.macro /\ u.probing = t.probing
      <4> HIDE DEF t
      <4>1. IsPlayer(t)
        BY <1>2
      <4> QED
        BY <4>1, SendCmdFree
    <3>2. LET v == SendCmd(s, c) IN
          /\ v.status = s.status /\ v.stash = s.stash /\ v.parked = s.parked
          /\ v.fin = s.fin /\ v.mb = s.mb /\ v.ctrl = s.ctrl
          /\ v.allsetCb = s.allsetCb /\ v.macro = s.macro /\ v.probing = s.probing
      <4>1. IsPlayer(s)
        BY <1>1
      <4> QED
        BY <4>1, SendCmdFree
    <3>3. u.queue = SendCmd(s, c).queue
      <4>1. t.mb = s.mb /\ t.queue = s.queue
        BY <1>2 DEF Calm
      <4> HIDE DEF t
      <4>2. [t EXCEPT !.queue = Append(@, c)].queue = Append(t.queue, c)
            /\ Raise(t, "other").queue = t.queue
        BY <1>2 DEF Raise, IsPlayer, Fields
      <4>3. [s EXCEPT !.queue = Append(@, c)].queue = Append(s.queue, c)
            /\ Raise(s, "other").queue = s.queue
        BY <1>1 DEF Raise, IsPlayer, Fields
      <4> QED
        BY <4>1, <4>2, <4>3 DEF SendCmd, Usable, BufferedCmdSize
    <3> QED
      BY <1>2, <3>1, <3>2, <3>3 DEF Calm
  <2>5. Fit(u, g)
    BY <2>3, <2>4, CalmFit
  <2>6. Free(u) /\ u.macro = "none"
    BY ZenonT(60), <1>2, SendCmdFree
  <2> QED
    BY <2>5, <2>6 DEF c
<1>6. \/ Kind(i) = "move" /\ BufferedCmdSize(s) < BufSize
         /\ DrainOne(s).s = SendCmd(t, JobCmd(i))
      \/ headFree /\ Kind(i) = "fan" /\ DrainOne(s).s = ToHead(h, "fan")
      \/ headFree /\ Kind(i) = "heat" /\ DrainOne(s).s = SetHeater(h, Target(i))
      \/ headFree /\ Kind(i) = "wait" /\ DrainOne(s) = [s |-> StartMacro(w), go |-> FALSE]
      \/ Kind(i) = "pause" /\ DrainOne(s) = [s |-> Pause(t, "other"), go |-> FALSE]
      \/ Kind(i) = "abort" /\ DrainOne(s) = [s |-> Abort(t, "other"), go |-> FALSE]
      \/ DrainOne(s) = [s |-> s, go |-> FALSE]
  <2> HIDE DEF h, w
  <2>1. DrainOne(s) =
        CASE Kind(i) = "move" /\ BufferedCmdSize(s) < BufSize ->
                [s |-> SendCmd(t, JobCmd(i)), go |-> TRUE]
          [] Kind(i) = "fan" /\ headFree -> [s |-> ToHead(h, "fan"), go |-> TRUE]
          [] Kind(i) = "heat" /\ headFree -> [s |-> SetHeater(h, Target(i)), go |-> TRUE]
          [] Kind(i) = "wait" /\ headFree -> [s |-> StartMacro(w), go |-> FALSE]
          [] Kind(i) = "pause" -> [s |-> Pause(t, "other"), go |-> FALSE]
          [] Kind(i) = "abort" -> [s |-> Abort(t, "other"), go |-> FALSE]
          [] OTHER -> [s |-> s, go |-> FALSE]
    BY DEF DrainOne, h, w
  <2> HIDE DEF t, headFree, i
  <2> QED
    BY <2>1
<1> HIDE DEF t, h, w, headFree, i
<1>7. \A v : [s |-> v, go |-> FALSE].s = v /\ ~[s |-> v, go |-> FALSE].go
  OBVIOUS
<1>8. "heat" \in Heats /\ "wait" \in Heats
  BY DEF Heats
<1> QED
  BY <1>3, <1>4, <1>5, <1>6, <1>7, <1>8

LEMMA DrainFit ==
    ASSUME NEW s, NEW g, Live(s), Fit(s, g), Free(s), s.macro = "none"
    PROVE  Fit(Drain(s), g)
<1> DEFINE N == CmdQueueLen(s)
<1>1. N \in Nat
  BY LivePlayer DEF IsPlayer, Live, Sound, Reading, CmdQueueLen
<1>2. PICK f : Turns(s, f, N) /\ Drain(s) = f[N].s
  BY <1>1, DrainTurns
<1> HIDE DEF N
<1> DEFINE Good(a) == /\ Live(a.s) /\ Fit(a.s, g)
                      /\ a.go => Free(a.s) /\ a.s.macro = "none"
           B == {n \in Nat : n <= N => Good(f[n])}
<1>3. 0 \in B
  <2>1. f[0] = [s |-> s, go |-> TRUE]
    BY <1>2 DEF Turns
  <2> QED
    BY <2>1
<1>4. ASSUME NEW n \in Nat, n \in B
      PROVE  n + 1 \in B
  <2>1. SUFFICES ASSUME n + 1 <= N PROVE Good(f[n + 1])
    OBVIOUS
  <2> DEFINE a == f[n]
  <2>2. Good(a)
    BY <1>1, <1>4, <2>1
  <2>3. f[n + 1] = Turn(a)
    <3>1. n + 1 \in 1..N /\ (n + 1) - 1 = n
      BY <1>1, <2>1
    <3> QED
      BY <1>2, <3>1 DEF Turns
  <2> HIDE DEF a
  <2>4. ASSUME CmdQueueLen(a.s) > 0, a.s.exc = "none", a.go
        PROVE  Good(DrainOne(a.s))
    <3>1. a.s.next <= a.s.fed
      BY <2>2, <2>4, LivePlayer DEF IsPlayer, CmdQueueLen
    <3> QED
      BY <2>2, <2>4, <3>1, DrainOneFit, DrainOneLeads DEF Leads
  <2> HIDE DEF Good
  <2> QED
    BY <2>2, <2>3, <2>4 DEF Turn
<1>5. Nat \subseteq B
  <2> HIDE DEF B
  <2> QED
    BY <1>3, <1>4, Induct
<1> QED
  BY <1>1, <1>2, <1>5

LEMMA FireFit ==
    ASSUME NEW s, NEW g, Live(s), Fit(s, g), Free(s)
    PROVE  Fit(Fire(s), g)
<1> DEFINE t == Feed(s)
<1>1. s.macro = "none" => Fit(Drain(s), g)
  BY DrainFit
<1>2. s.status = 16 => Fit(OnCompleted(s), g)
  BY OnCompletedFit
<1>3. s.status = 16 => Live(t) /\ Fit(t, g)
                       /\ (t.status = 128 \/ (Free(t) /\ t.macro = s.macro))
  BY FeedLeads, FeedFit DEF Leads
<1> HIDE DEF t
<1>4. s.status = 16 /\ s.macro = "none" => t.status = 128 \/ Fit(Drain(t), g)
  BY <1>3, DrainFit
<1>5. \/ Fire(s) = s
      \/ s.macro = "none" /\ Fire(s) = Drain(s)
      \/ s.status = 16 /\ Fire(s) = OnCompleted(s)
      \/ s.status = 16 /\ Fire(s) = t
      \/ s.status = 16 /\ s.macro = "none" /\ t.status # 128 /\ Fire(s) = Drain(t)
  BY DEF Fire, t
<1>6. CASE s.macro = "none" /\ Fire(s) = Drain(s)
  BY <1>1, <1>6
<1>7. CASE s.status = 16 /\ Fire(s) = OnCompleted(s)
  BY <1>2, <1>7
<1>8. CASE s.status = 16 /\ Fire(s) = t
  BY <1>3, <1>8
<1>9. CASE s.status = 16 /\ s.macro = "none" /\ t.status # 128 /\ Fire(s) = Drain(t)
  BY <1>4, <1>9
<1>10. CASE Fire(s) = s
  BY <1>10
<1> QED
  BY <1>5, <1>6, <1>7, <1>8, <1>9, <1>10

LEMMA ClearMacroFit ==
    ASSUME NEW s, NEW g, Live(s), Fit(s, g), Free(s),
           s.allsetCb \notin {"task", "job"} \/ s.status \in Ended
    PROVE  Fit(ClearMacro(s), g)
<1> DEFINE t == [s EXCEPT !.macro = "none"]
<1>1. Keeps(s, t)
  <2>1. IsPlayer(s)
    BY LivePlayer
  <2> QED
    BY ZenonT(120), <2>1, MacroValues DEF IsPlayer, Fields, Keeps, Same
<1>2. /\ t.status = s.status /\ t.stash = s.stash /\ t.parked = s.parked
      /\ t.queue = s.queue /\ t.fin = s.fin /\ t.mb = s.mb /\ t.ctrl = s.ctrl
      /\ t.allsetCb = s.allsetCb /\ t.macro = "none"
  BY LivePlayer DEF IsPlayer, Fields
<1> HIDE DEF t
<1>3. ~(t.macro = "probe" /\ t.probing)
  BY <1>2
<1>4. Fit(t, g)
  BY <1>2, <1>3, MacroFit
<1>5. Live(t) /\ Free(t)
  BY <1>1, <1>2, KeepsLeads DEF Leads, Free
<1> QED
  BY <1>4, <1>5, FireFit DEF ClearMacro, t

LEMMA ExecTaskFit ==
    ASSUME NEW s, NEW g, Live(s), Fit(s, g), Free(s), s.status \notin Starting,
           s.allsetCb \notin {"task", "job"} \/ s.status \in Ended
    PROVE  Fit(ExecTask(s), g)
<1> DEFINE u == [s EXCEPT !.macro = Head(s.tasks), !.tasks = Tail(@),
                          !.heatTo = "hot", !.probing = FALSE, !.probe = "none",
                          !.round = 0]
<1>1. CASE s.tasks = <<>>
  BY <1>1, ClearMacroFit DEF ExecTask, ClearMacro
<1>2. CASE s.tasks # <<>>
  <2>1. IsPlayer(s) /\ Head(s.tasks) \in Macros /\ Tail(s.tasks) \in TaskSeqs
    BY <1>2, TaskSeqsHave, LivePlayer DEF IsPlayer
  <2>2. Keeps(s, u)
    BY ZenonT(120), <2>1, TargetValues, Booleans, ProbeValues, RoundValues
       DEF IsPlayer, Fields, Keeps, Same
  <2>3. /\ u.status = s.status /\ u.stash = s.stash /\ u.parked = s.parked
        /\ u.queue = s.queue /\ u.fin = s.fin /\ u.mb = s.mb /\ u.ctrl = s.ctrl
        /\ u.allsetCb = s.allsetCb /\ ~u.probing
    BY ZenonT(120), <2>1 DEF IsPlayer, Fields
  <2>4. ExecTask(s) = StartMacro(u)
    BY <1>2 DEF ExecTask
  <2> HIDE DEF u
  <2>5. Fit(u, g)
    BY <2>3, MacroFit
  <2>6. Live(u) /\ Free(u)
    BY <2>2, <2>3, KeepsLeads DEF Leads, Free
  <2> QED
    BY <2>4, <2>5, <2>6, StartMacroFit
<1> QED
  BY <1>1, <1>2

LEMMA StartedFit ==
    ASSUME NEW s, NEW g, Live(s), Fit(s, g), s.status \in Starting
    PROVE  Fit(Started(s), g)
<1> DEFINE t == [s EXCEPT !.status = 16, !.tasks = InitMacros]
<1>1. IsPlayer(s) /\ InitMacros \in TaskSeqs /\ s.status \in {4, 6, 36, 38}
  BY LivePlayer, ScenarioType DEF Live, Sound, Starting
<1>2. /\ IsPlayer(t) /\ Same(s, [t EXCEPT !.status = s.status]) /\ t.status = 16
      /\ Beside(s, t)
  BY <1>1, StatusValues DEF IsPlayer, Fields, Same, Beside
<1> HIDE DEF t
<1>3. /\ s.status \notin Ended /\ t.status \notin Ended /\ t.status # 64
      /\ t.status \notin Starting /\ s.status # 50 /\ t.status # 48
  BY <1>1, <1>2, Ends DEF Starting
<1>4. s.stash = "none"
  BY <1>1, Freed
<1>5. Live(t)
  <2>1. Leads(s, t)
    BY <1>2, <1>3, NewStatus
  <2> QED
    BY <2>1 DEF Leads
<1>6. s.stash # "stashing" /\ g # "STASH"
  BY <1>3, NoStash
<1>7. Fit(t, g)
  BY <1>2, <1>3, <1>4, <1>6, NewStatusFit
<1>8. Free(t)
  BY <1>2, <1>4 DEF Free, Beside
<1>9. t.allsetCb \notin {"task", "job"}
  <2>1. s.allsetCb # "task" /\ s.allsetCb # "job"
    BY ZenonT(120), <1>3 DEF Fit, Resting
  <2> QED
    BY <1>2, <2>1 DEF Beside
<1>10. Fit(ExecTask(t), g)
  BY <1>3, <1>5, <1>7, <1>8, <1>9, ExecTaskFit
<1> QED
  BY <1>10 DEF Started, t

LEMMA ResumedFit ==
    ASSUME NEW s, NEW g, Live(s), Fit(s, g), Free(s)
    PROVE  Fit(Resumed(s), g)
<1> DEFINE t == [s EXCEPT !.status = IF @ \in Starting THEN 4 ELSE 16]
<1>1. CASE s.status \in Ended
  BY <1>1 DEF Resumed
<1>2. CASE s.status \notin Ended
  <2>1. /\ IsPlayer(t) /\ Same(s, [t EXCEPT !.status = s.status]) /\ Beside(s, t)
        /\ t.status = IF s.status \in Starting THEN 4 ELSE 16
    BY LivePlayer, StatusValues DEF IsPlayer, Fields, Same, Beside
  <2>2. Resumed(s) \in {StartMacro(t), Fire(t)}
    BY <1>2 DEF Resumed
  <2> HIDE DEF t
  <2>3. /\ t.status \notin Ended /\ t.status # 64 /\ t.status # 48
        /\ (t.status \in Starting => s.status \in Starting)
    BY <2>1, Ends DEF Starting
  <2>4. s.stash = "none"
    BY <1>2 DEF Free
  <2>5. s.stash # "stashing" /\ g # "STASH"
    BY <1>2, <2>4, NoStash
  <2>6. Fit(t, g)
    BY <1>2, <2>1, <2>3, <2>4, <2>5, NewStatusFit
  <2>7. Live(t)
    <3>1. Leads(s, t)
      BY <1>2, <2>1, <2>3, NewStatus
    <3> QED
      BY <3>1 DEF Leads
  <2>8. Free(t)
    BY <2>1, <2>4 DEF Free, Beside
  <2> QED
    BY <2>2, <2>6, <2>7, <2>8, StartMacroFit, FireFit
<1> QED
  BY <1>1, <1>2

\* C2F goes to a parked head, with room for it.
LEMMA ReturnFit ==
    ASSUME NEW s, NEW g, Live(s), Fit(s, g), s.status = 18, s.stash = "stashed",
           Len(s.queue) < BufSize
    PROVE  Fit(SendCmd([s EXCEPT !.stash = "none"], Cmd("C2F")), g)
<1> DEFINE a == [s EXCEPT !.stash = "none"]
           c == Cmd("C2F")
           t == SendCmd(a, c)
<1>1. IsPlayer(s) /\ s.queue \in CommandSeqs /\ s.fin \in Nat /\ s.fin <= Len(s.queue)
      /\ s.mb \in {"ready", "error"} /\ s.status \notin Ended
  <2>1. s.status \notin Ended
    BY Ends
  <2>2. IsPlayer(s) /\ s.mb # "off" /\ s.mb # "closing"
    BY <2>1, LivePlayer DEF Live
  <2>3. s.queue \in CommandSeqs /\ s.fin \in Nat /\ s.mb \in {"ready", "error"}
    BY <2>2, MbValues DEF IsPlayer
  <2>4. Ordered(s.did, s.queue, s.fin, s.next)
    BY DEF Live, Sound
  <2>5. s.fin <= Len(s.queue)
    BY <2>4 DEF Ordered
  <2> QED
    BY <2>1, <2>2, <2>3, <2>5
<1>2. c \in Commands /\ c.op = "C2F"
  BY CmdIs, OpNames
<1> HIDE DEF c
<1>3. /\ IsPlayer(a) /\ a.status = s.status /\ a.stash = "none" /\ a.parked = s.parked
      /\ a.queue = s.queue /\ a.fin = s.fin /\ a.mb = s.mb /\ a.ctrl = s.ctrl
      /\ a.allsetCb = s.allsetCb /\ a.macro = s.macro /\ a.probing = s.probing
  BY <1>1, StashValues DEF IsPlayer, Fields
<1> HIDE DEF a
<1>4. /\ t.queue = Append(s.queue, c) /\ t.status = s.status /\ t.stash = "none"
      /\ t.parked = s.parked /\ t.fin = s.fin /\ t.mb = s.mb /\ t.ctrl = s.ctrl
      /\ t.allsetCb = s.allsetCb /\ t.macro = s.macro /\ t.probing = s.probing
  BY <1>1, <1>2, <1>3, SendCmdDoes DEF Usable
<1> HIDE DEF t
<1>5. Way(t.queue, t.fin, t.parked, t.stash)
  BY <1>1, <1>2, <1>4, WayReturn DEF Fit
<1>6. t.queue # <<>>
  BY <1>1, <1>2, <1>4, Appended
<1>7. Flags(t)
  <2>1. t.status # 48 /\ t.stash = "none"
    BY <1>4
  <2> QED
    BY ZenonT(120), <2>1 DEF Flags
<1>8. Resting(t)
  BY ZenonT(120), <1>4 DEF Fit, Resting
<1>9. Signal(t, g)
  <2>1. g # "STASH"
    BY <1>1, NoStash
  <2>2. t.stash = "none"
    BY <1>4
  <2> QED
    BY ZenonT(120), <1>6, <2>1, <2>2 DEF Signal
<1>10. t.ctrl = p.ctrl
  BY <1>4 DEF Fit
<1> QED
  BY <1>5, <1>7, <1>8, <1>9, <1>10 DEF Fit, a, c, t

\* The head is ready: a start goes on, and a resume, after the way back.
LEMMA OnAllsetFit ==
    ASSUME NEW s, NEW g, Live(s), Fit(s, g),
           s.status = 18 /\ s.stash = "stashed" => Len(s.queue) < BufSize
    PROVE  Fit(OnAllset(s), g)
<1> DEFINE r == Resumed(s)
           u == SendCmd([s EXCEPT !.stash = "none"], Cmd("C2F"))
<1>1. IsPlayer(s) /\ Live(r) /\ (s.status = 6 => r.status = 4)
  BY LivePlayer, ResumedLeads DEF Leads
<1>2. (s.status = 6 => Free(s)) /\ (s.status = 18 /\ s.stash # "stashed" => Free(s))
  BY <1>1, Freed DEF Free
<1>3. Free(s) => Fit(r, g)
  BY ResumedFit
<1>4. s.status = 4 => Fit(Started(s), g)
  BY StartedFit DEF Starting
<1>5. s.status = 6 => Fit(Started(r), g)
  <2>1. 4 \in Starting
    BY DEF Starting
  <2> HIDE DEF r
  <2> QED
    BY <1>1, <1>2, <1>3, <2>1, StartedFit
<1>6. s.status = 18 /\ s.stash = "stashed" => Fit(u, g)
  BY ReturnFit
<1> HIDE DEF u
<1>7. \/ OnAllset(s) = s
      \/ s.status = 4 /\ OnAllset(s) = Started(s)
      \/ s.status = 6 /\ OnAllset(s) \in {r, Started(r)}
      \/ s.status = 18 /\ s.stash = "stashed" /\ OnAllset(s) = u
      \/ s.status = 18 /\ s.stash # "stashed" /\ OnAllset(s) = r
  BY DEF OnAllset, Then, r, u
<1> HIDE DEF r
<1> QED
  BY <1>2, <1>3, <1>4, <1>5, <1>6, <1>7

LEMMA RecoveredFit ==
    ASSUME NEW s, NEW g, Live(s), Fit(s, g),
           s.status = 18 /\ s.stash = "stashed" => Len(s.queue) < BufSize
    PROVE  Fit(Recovered(s), g)
<1> DEFINE x == SendCmd(s, Cmd("X5"))
           y == [x EXCEPT !.allsetCb = "resume"]
<1>1. IsPlayer(x) /\ Fit(x, g)
  BY SpeedFit, Sends, OpNames, LivePlayer DEF Leads
<1> HIDE DEF x
<1>2. Fit(y, g)
  BY <1>1, AllsetNoneFit
<1>3. Recovered(s) \in {OnAllset(s), x, y}
  BY DEF Recovered, Then, x, y
<1> HIDE DEF y
<1> QED
  BY <1>1, <1>2, <1>3, OnAllsetFit

LEMMA OnToolheadReadyFit ==
    ASSUME NEW s, NEW g, Live(s), Fit(s, g),
           s.status = 18 /\ s.stash = "stashed" => Len(s.queue) < BufSize
    PROVE  Fit(OnToolheadReady(s), g)
<1> DEFINE t == SetOperating(s)
           r == [t EXCEPT !.hq = IF t.want = "unset" THEN @ ELSE Append(@, t.want),
                          !.cb = "recovered"]
<1>1. Live(t) /\ IsPlayer(t)
  BY SetOperatingKeeps, KeepsLeads, LivePlayer DEF Leads
<1>2. Calm(s, t)
  BY HalCalm, LivePlayer
<1> HIDE DEF t
<1>3. Fit(t, g) /\ (t.status = 18 /\ t.stash = "stashed" => Len(t.queue) < BufSize)
  <2>1. t.status = s.status /\ t.stash = s.stash /\ t.queue = s.queue
    BY <1>2 DEF Calm
  <2> QED
    BY <1>2, <2>1, CalmFit
<1>4. (IF t.want = "unset" THEN t.hq ELSE Append(t.hq, t.want)) \in HeadSeqs
  BY <1>1, HeadSeqsHave, WantValues DEF IsPlayer
<1>5. IsPlayer(r) /\ Calm(t, r)
  BY <1>1, <1>4, CallbackValues DEF IsPlayer, Fields, Calm
<1>6. OnToolheadReady(s) \in {OnAllset(t), Recovered(t), r, PopToHead(r)}
  BY DEF OnToolheadReady, Recover, t
<1> HIDE DEF r
<1>7. Fit(r, g) /\ Fit(PopToHead(r), g)
  BY <1>3, <1>5, CalmFit, FitStill
<1> QED
  BY <1>1, <1>3, <1>6, <1>7, OnAllsetFit, RecoveredFit

\* What waits for the temperature goes on. One more speed leaves room for C2F.
LEMMA HeadAllsetFit ==
    ASSUME NEW s, NEW g, Live(s), Fit(s, g),
           s.status = 18 /\ s.stash = "stashed" => Len(s.queue) + 1 < BufSize
    PROVE  Fit(HeadAllset(s), g)
<1> DEFINE t == [s EXCEPT !.allsetCb = "none"]
           u == SendCmd(t, Cmd("X5"))
<1>1. IsPlayer(s) /\ Fit(t, g)
  BY LivePlayer, AllsetNoneFit
<1>2. Keeps(s, t)
  BY ZenonT(120), <1>1, AllsetValues DEF IsPlayer, Fields, Keeps, Same
<1>3. t.status = s.status /\ t.stash = s.stash /\ t.queue = s.queue /\ t.allsetCb = "none"
  BY <1>1 DEF IsPlayer, Fields
<1> HIDE DEF t
<1>4. Live(t) /\ IsPlayer(t)
  BY <1>2, KeepsLeads DEF Leads, Keeps
<1>5. Live(u) /\ Fit(u, g)
  BY <1>1, <1>4, Sends, OpNames, SpeedFit DEF Leads
<1>6. u.status = s.status /\ u.stash = s.stash /\ u.allsetCb = "none"
  BY <1>3, <1>4, SendCmdFree
<1>7. u.status = 18 /\ u.stash = "stashed" => Len(u.queue) < BufSize
  <2>1. s.queue \in CommandSeqs /\ BufSize \in Nat /\ Cmd("X5") \in Commands
    BY <1>1, ScenarioType, CmdIs, OpNames DEF Live, Sound, IsPlayer
  <2>2. u.queue = s.queue \/ u.queue = Append(s.queue, Cmd("X5"))
    BY <1>3, <1>4, <2>1, SendCmdDoes DEF Calm
  <2>3. Len(s.queue) \in Nat /\ Len(Append(s.queue, Cmd("X5"))) = Len(s.queue) + 1
    BY <2>1, Appended
  <2> HIDE DEF u
  <2>4. Len(u.queue) \in Nat /\ Len(u.queue) <= Len(s.queue) + 1
    BY <2>2, <2>3
  <2> QED
    BY <1>6, <2>1, <2>3, <2>4
<1> HIDE DEF u
<1>8. s.allsetCb \in {"task", "job"} => Free(u)
  <2>1. s.status \notin Ended => s.stash = "none" \/ s.allsetCb \in {"none", "resume"}
    BY ZenonT(120) DEF Fit, Resting
  <2> QED
    BY <1>6, <2>1 DEF Free
<1>9. s.allsetCb = "task" => u.status \notin Starting
  <2>1. s.status \notin Ended /\ s.allsetCb = "task" => s.status \notin Starting
    BY ZenonT(120) DEF Fit, Resting
  <2>2. s.status \in Ended => s.status \notin Starting
    BY Ends DEF Starting
  <2> QED
    BY <1>6, <2>1, <2>2
<1>10. u.allsetCb \notin {"task", "job"}
  BY <1>6
<1>11. \/ HeadAllset(s) \in {t, u}
       \/ s.allsetCb = "task" /\ HeadAllset(s) = ExecTask(u)
       \/ s.allsetCb = "job" /\ HeadAllset(s) = ClearMacro(u)
       \/ HeadAllset(s) = OnAllset(u)
  BY DEF HeadAllset, Then, t, u
<1>12. s.allsetCb = "task" => Fit(ExecTask(u), g)
  BY <1>5, <1>8, <1>9, <1>10, ExecTaskFit
<1>13. s.allsetCb = "job" => Fit(ClearMacro(u), g)
  BY <1>5, <1>8, <1>10, ClearMacroFit
<1>14. Fit(OnAllset(u), g)
  BY <1>5, <1>7, OnAllsetFit
<1> QED
  BY <1>1, <1>5, <1>11, <1>12, <1>13, <1>14

LEMMA ProbeEmptyFit ==
    ASSUME NEW s, NEW g, Live(s), Fit(s, g), Free(s), Fit(ExecTask(s), g)
    PROVE  Fit(ProbeEmpty(s), g)
<1> DEFINE t == [s EXCEPT !.probe = "converged"]
           v == [s EXCEPT !.round = s.round + 1, !.probe = "none"]
           x == SendCmd(t, Cmd("macro"))
           y == SendCmd(v, Cmd("probe"))
           h == Giveup(s)
<1>1. IsPlayer(s) /\ Calm(s, t) /\ Calm(s, v)
  <2>1. IsPlayer(s)
    BY LivePlayer
  <2> QED
    BY ZenonT(120), <2>1, AsideCalm DEF IsPlayer, Fields, Calm
<1>2. Keeps(s, t)
  BY ZenonT(120), <1>1, ProbeValues DEF IsPlayer, Fields, Keeps, Same
<1>3. s.round < Ttl => Keeps(s, v)
  BY ZenonT(120), <1>1, ProbeValues, RoundValues DEF IsPlayer, Fields, Keeps, Same
<1>4. [s EXCEPT !.round = @ + 1, !.probe = "none"] = v
  OBVIOUS
<1> HIDE DEF t, v
<1>5. /\ Live(t) /\ Fit(t, g) /\ Free(t)
      /\ s.round < Ttl => Live(v) /\ Fit(v, g) /\ Free(v)
  BY <1>1, <1>2, <1>3, KeepsLeads, CalmFit, CalmFree DEF Leads
<1>6. Fit(x, g) /\ (s.round < Ttl => Fit(y, g))
  BY <1>5, MoveFit
<1>7. Fit(h, g) /\ IsPlayer(h)
  BY GiveupFit, GiveupLeads, LivePlayer DEF Leads
<1> HIDE DEF x, y, h
<1>8. Fit(Raise(h, "other"), g) /\ Fit(Raise(s, "other"), g)
  BY <1>1, <1>7, FitStill
<1>9. \/ ProbeEmpty(s) \in {s, x, ExecTask(s), h, Raise(h, "other"), Raise(s, "other")}
      \/ s.round < Ttl /\ ProbeEmpty(s) = y
  BY <1>4 DEF ProbeEmpty, Then, t, x, y, h
<1> QED
  BY <1>6, <1>7, <1>8, <1>9

LEMMA MacroCommandEmptyFit ==
    ASSUME NEW s, NEW g, Live(s), Fit(s, g), Free(s), s.status \notin Starting
    PROVE  Fit(MacroCommandEmpty(s), g)
<1> DEFINE v == [s EXCEPT !.retracting = TRUE]
           y == SendCmd(v, Cmd("retract"))
<1>1. IsPlayer(s) /\ Calm(s, v)
  BY LivePlayer, AsideCalm
<1>2. Keeps(s, v)
  BY ZenonT(120), <1>1, Booleans DEF IsPlayer, Fields, Keeps, Same
<1> HIDE DEF v
<1>3. Live(v) /\ Fit(v, g) /\ Free(v)
  BY <1>1, <1>2, KeepsLeads, CalmFit, CalmFree DEF Leads
<1>4. Fit(y, g)
  BY <1>3, MoveFit
<1>5. Fit(Abort(s, "none"), g)
  BY LiveAbortFit, ErrorValues
<1>6. s.macro \in {"startup", "probe"} => Fit(ExecTask(s), g)
  <2>1. s.macro \in {"startup", "probe"} =>
            s.allsetCb \notin {"task", "job"} \/ s.status \in Ended
    <3>1. s.status \notin Ended => /\ s.allsetCb = "task" => s.macro = "heat"
                                   /\ s.allsetCb = "job" => s.macro = "job heat"
      BY ZenonT(120) DEF Fit, Resting
    <3> QED
      BY <3>1
  <2> QED
    BY <2>1, ExecTaskFit
<1>7. \/ MacroCommandEmpty(s) \in {s, y, Abort(s, "none")}
      \/ s.macro = "startup" /\ MacroCommandEmpty(s) = ExecTask(s)
      \/ s.macro = "probe" /\ MacroCommandEmpty(s) = ProbeEmpty(s)
  BY DEF MacroCommandEmpty, v, y
<1>8. s.macro = "probe" => Fit(ProbeEmpty(s), g)
  BY <1>6, ProbeEmptyFit
<1> QED
  BY <1>4, <1>5, <1>6, <1>7, <1>8

\* Filament is loaded while the head is parked.
LEMMA LoadFit ==
    ASSUME NEW s, NEW g, Live(s), Fit(s, g), s.status = 48
    PROVE  Fit(SendCmd(s, Cmd("load")), g)
<1> DEFINE c == Cmd("load")
           t == SendCmd(s, c)
<1>1. IsPlayer(s) /\ s.queue \in CommandSeqs /\ s.fin \in Nat /\ s.fin <= Len(s.queue)
  BY LivePlayer DEF Live, Sound, Ordered, IsPlayer
<1>2. c \in Commands /\ c.op = "load" /\ s.stash = "stashed" /\ s.status \notin Ended
  <2>1. c \in Commands /\ c.op = "load"
    BY CmdIs, OpNames
  <2>2. s.stash = "stashed"
    BY ZenonT(120) DEF Fit, Flags
  <2>3. s.status \notin Ended
    BY Ends
  <2> QED
    BY <2>1, <2>2, <2>3
<1> HIDE DEF c
<1>3. Calm(s, t) => Fit(t, g)
  BY CalmFit
<1>4. ASSUME ~Calm(s, t)
      PROVE  Fit(t, g)
  <2>1. /\ t.queue = Append(s.queue, c)
        /\ t.status = s.status /\ t.stash = s.stash /\ t.parked = s.parked
        /\ t.fin = s.fin /\ t.mb = s.mb /\ t.ctrl = s.ctrl
        /\ t.allsetCb = s.allsetCb /\ t.macro = s.macro /\ t.probing = s.probing
    BY <1>1, <1>2, <1>4, SendCmdDoes
  <2> HIDE DEF t
  <2>2. Way(t.queue, t.fin, t.parked, t.stash)
    BY <1>1, <1>2, <2>1, WayLoad DEF Fit
  <2>3. t.stash = "stashed" /\ t.stash # "stashing" /\ t.status = 48 /\ t.status \notin Ended
    BY <1>2, <2>1
  <2>4. Flags(t)
    <3>1. t.status \in {18, 48, 50}
      BY <2>3
    <3> QED
      BY ZenonT(120), <2>3, <3>1 DEF Flags
  <2>5. Resting(t)
    BY ZenonT(120), <2>1 DEF Fit, Resting
  <2>6. Signal(t, g)
    <3>1. g # "STASH"
      BY <1>2, NoStash
    <3>2. s.stash # "none"
      BY <1>2
    <3>3. g # "STASH_POP"
      BY ZenonT(120), <1>2, <3>2 DEF Fit, Signal
    <3> QED
      BY ZenonT(120), <2>3, <3>1, <3>3 DEF Signal
  <2>7. t.ctrl = p.ctrl
    BY <2>1 DEF Fit
  <2> QED
    BY <2>2, <2>4, <2>5, <2>6, <2>7 DEF Fit
<1> QED
  BY <1>3, <1>4 DEF c, t

LEMMA PausedMacroEmptyFit ==
    ASSUME NEW s, NEW g, Live(s), Fit(s, g), s.status = 48
    PROVE  Fit(PausedMacroEmpty(s), g)
<1> DEFINE x == SendCmd(s, Cmd("load"))
           y == [x EXCEPT !.pausedMacro = "sent"]
           z == [s EXCEPT !.pausedMacro = "none"]
<1>1. IsPlayer(s) /\ IsPlayer(x) /\ Fit(x, g)
  BY Sends, OpNames, LivePlayer, LoadFit DEF Leads
<1> HIDE DEF x
<1>2. Calm(x, y) /\ Calm(s, z)
  BY <1>1, AsideCalm
<1>3. PausedMacroEmpty(s) \in {s, x, y, z}
  BY DEF PausedMacroEmpty, Then, x
<1> HIDE DEF y, z
<1> QED
  BY <1>1, <1>2, <1>3, CalmFit

-----------------------------------------------------------------------------
(* The callbacks of the two controllers. *)

LEMMA OnMbEmptyFit ==
    ASSUME NEW s, NEW g, Live(s), Fit(s, g)
    PROVE  Fit(OnMbEmpty(s), g)
<1>1. s.status \notin Pausing \cup {6, 18, 48} => Free(s)
  <2>1. s.status \notin Pausing \cup {6, 18, 48} =>
            s.status # 18 /\ s.status # 48 /\ s.status # 50
    BY DEF Pausing
  <2> QED
    BY <2>1, LivePlayer, Freed DEF Free
<1>2. s.macro # "none" => s.status \notin Starting \/ s.status \in Ended
  BY ZenonT(120) DEF Fit, Resting
<1>3. s.status \in Ended => s.status \notin Starting
  BY Ends DEF Starting
<1>4. s.macro # "none" /\ Free(s) => Fit(MacroCommandEmpty(s), g)
  BY <1>2, <1>3, MacroCommandEmptyFit
<1>5. Fit(HandlePause(s), g) /\ (s.status = 48 => Fit(PausedMacroEmpty(s), g))
  BY HandlePauseFit, PausedMacroEmptyFit
<1>6. s.status \notin Pausing /\ s.status \notin {6, 18} /\ s.status # 48 =>
          Fit(Fire(s), g) /\ (s.macro # "none" => Fit(MacroCommandEmpty(s), g))
  BY <1>1, <1>4, FireFit
<1> QED
  BY <1>5, <1>6 DEF OnMbEmpty

LEMMA OnMbSendableFit ==
    ASSUME NEW s, NEW g, Live(s), Fit(s, g), Free(s)
    PROVE  Fit(OnMbSendable(s), g)
<1>1. OnMbSendable(s) \in {s, Fire(s)} \/ (s.status = 48 /\ OnMbSendable(s) = PausedMacroEmpty(s))
  BY DEF OnMbSendable
<1> QED
  BY <1>1, FireFit, PausedMacroEmptyFit

LEMMA MacroCtrlFit ==
    ASSUME NEW s, NEW g, Live(s), Fit(s, g)
    PROVE  Fit(MacroCtrl(s), g)
<1> DEFINE t == [s EXCEPT !.probe = IF @ = "converged" THEN @ ELSE s.ctrl]
           h == Giveup(s)
<1>1. Calm(s, t)
  BY LivePlayer, AsideCalm
<1> HIDE DEF t
<1>2. Fit(t, g)
  BY <1>1, CalmFit
<1>3. Fit(h, g) /\ IsPlayer(h)
  BY GiveupFit, GiveupLeads, LivePlayer DEF Leads
<1> HIDE DEF h
<1>4. Fit(Raise(h, "other"), g)
  BY <1>3, FitStill
<1>5. MacroCtrl(s) \in {s, t, h, Raise(h, "other")}
  BY DEF MacroCtrl, Then, t, h
<1> QED
  BY <1>2, <1>3, <1>4, <1>5

\* A line that says nothing of the parking may be forgotten.
LEMMA Heard ==
    ASSUME NEW s, NEW g, Fit(s, g), g # "STASH" \/ s.status # 50 \/ s.stash # "stashing"
    PROVE  Fit(s, "none")
<1>1. Signal(s, "none")
  BY ZenonT(120) DEF Fit, Signal
<1> QED
  BY <1>1 DEF Fit

\* The mainboard says that it parked the head that the pause waits for.
LEMMA ParkedFit ==
    ASSUME NEW s, Live(s), Fit(s, s.ctrl), s.ctrl = "STASH", s.status = 50
    PROVE  LET u == [s EXCEPT !.stash = "stashed"]
           IN  Live(u) /\ Fit(u, "none") /\ u.status = 50 /\ u.stash = "stashed"
               /\ u.queue = s.queue /\ s.stash = "stashing"
               /\ \A f \in Fields \ {"stash"} : u[f] = s[f]
<1> DEFINE u == [s EXCEPT !.stash = "stashed"]
<1>1. IsPlayer(s)
  BY LivePlayer
<1>2. s.status \notin Ended /\ s.stash = "stashing" /\ s.parked
  <2>1. s.status \notin Ended
    BY Ends
  <2> QED
    BY ZenonT(120), <2>1 DEF Fit, Signal
<1>3. s.parked = TRUE
  BY <1>1, <1>2 DEF IsPlayer, Bools
<1>4. /\ u.status = s.status /\ u.stash = "stashed" /\ u.parked = s.parked
      /\ u.queue = s.queue /\ u.fin = s.fin /\ u.mb = s.mb /\ u.ctrl = s.ctrl
      /\ u.allsetCb = s.allsetCb /\ u.macro = s.macro /\ u.probing = s.probing
  BY <1>1 DEF IsPlayer, Fields
<1>5. Keeps(s, u)
  BY <1>1, StashValues DEF IsPlayer, Fields, Keeps, Same
<1>6. \A f \in Fields \ {"stash"} : u[f] = s[f]
  BY <1>1 DEF IsPlayer, Fields
<1> HIDE DEF u
<1>7. Live(u)
  BY <1>5, KeepsLeads DEF Leads
<1>8. Way(u.queue, u.fin, u.parked, u.stash)
  BY <1>2, <1>3, <1>4, WayParked DEF Fit
<1>9. Flags(u)
  <2>1. u.status = 50 /\ u.status # 48 /\ u.status \in {18, 48, 50} /\ u.status \notin Ended
    BY <1>2, <1>4
  <2>2. u.stash = "stashed" /\ u.stash # "stashing"
    BY <1>4
  <2> QED
    BY ZenonT(120), <2>1, <2>2 DEF Flags
<1>10. Resting(u)
  BY ZenonT(120), <1>2, <1>4 DEF Fit, Resting
<1>11. Signal(u, "none")
  <2>1. u.stash # "stashing"
    BY <1>4
  <2> QED
    BY ZenonT(120), <2>1 DEF Signal
<1>12. Fit(u, "none")
  BY <1>4, <1>8, <1>9, <1>10, <1>11 DEF Fit
<1> QED
  BY <1>2, <1>4, <1>6, <1>7, <1>12 DEF u

\* What the mainboard says of the parking is what the flag waits for.
LEMMA OnMbCtrlFit ==
    ASSUME NEW s, Live(s), Fit(s, s.ctrl), s.exc = "none"
    PROVE  Fit(OnMbCtrl(s), "none")
<1> DEFINE t == IF s.status = 48 THEN s ELSE MacroCtrl(s)
           u == [s EXCEPT !.stash = "stashed"]
<1>1. IsPlayer(s) /\ Live(t) /\ Fit(t, s.ctrl)
  BY LivePlayer, MacroCtrlLeads, MacroCtrlFit DEF Leads
<1>2. s.ctrl \in {"STASH", "STASH_POP"} => t = s
  BY DEF MacroCtrl, Readings
<1>3. CASE s.ctrl = "STASH"
  <2>1. OnMbCtrl(s) = IF s.status = 50 THEN PauseToolhead(u) ELSE s
    BY <1>2, <1>3 DEF OnMbCtrl, Then
  <2>2. CASE s.status # 50
    BY <1>3, <2>1, <2>2, Heard
  <2>3. CASE s.status = 50
    <3>1. Live(u) /\ Fit(u, "none") /\ u.stash = "stashed"
      BY <1>3, <2>3, ParkedFit
    <3> HIDE DEF u
    <3>2. Fit(PauseToolhead(u), "none")
      BY <3>1, PauseToolheadFit
    <3> QED
      BY <2>1, <2>3, <3>2
  <2> QED
    BY <2>2, <2>3
<1>4. CASE s.ctrl # "STASH"
  <2>1. Fit(t, "none")
    BY <1>1, <1>4, Heard
  <2>2. s.ctrl = "STASH_POP" => Free(s)
    BY ZenonT(120) DEF Fit, Signal, Free
  <2>3. s.ctrl = "STASH_POP" => Fit(Resumed(t), "none")
    BY <1>2, <2>1, <2>2, ResumedFit
  <2>4. OnMbCtrl(s) = t \/ (s.ctrl = "STASH_POP" /\ OnMbCtrl(s) = Resumed(t))
    BY <1>4 DEF OnMbCtrl, Then
  <2> HIDE DEF t
  <2> QED
    BY <2>1, <2>3, <2>4
<1> QED
  BY <1>3, <1>4

LEMMA CaughtFit ==
    ASSUME NEW s, NEW g, Live(s), Fit(s, g)
    PROVE  Fit(Caught(s), g)
<1> DEFINE q == Quiet(s)
           e == IF s.exc = "head lost" THEN s.exc ELSE "other"
           a == Abort(q, "other")
           b == Pause(q, e)
<1>1. Live(q) /\ Fit(q, g) /\ e \in Errors
  BY QuietLeads, FitStill, LivePlayer, ErrorValues DEF Leads
<1> HIDE DEF q, e
<1>2. Fit(a, g) /\ Fit(b, g) /\ IsPlayer(a) /\ IsPlayer(b)
  BY <1>1, LiveAbortFit, PauseFit, AbortLeads, PauseLeads, LivePlayer, ErrorValues DEF Leads
<1> HIDE DEF a, b
<1>3. Caught(s) \in {s, Quiet(a), Quiet(b)}
  BY DEF Caught, q, e, a, b
<1> QED
  BY <1>2, <1>3, FitStill

LEMMA HeadHandledFit ==
    ASSUME NEW s, NEW g, Live(s), Fit(s, g)
    PROVE  Fit(HeadHandled(s), g)
<1> DEFINE t == CheckErrno(s)
<1>1. IsPlayer(s) /\ Live(t)
  BY CheckErrnoLeads, LivePlayer DEF Leads
<1>2. Calm(s, t)
  <2>1. Calm(s, s) /\ Calm(s, Raise(s, "hardware")) /\ Calm(s, Raise(s, "other"))
    BY <1>1, AsideCalm DEF Calm
  <2> QED
    BY <2>1 DEF CheckErrno
<1> HIDE DEF t
<1>3. Fit(t, g) /\ t.stash = s.stash /\ t.status = s.status
  BY <1>2, CalmFit DEF Calm
<1>4. s.status = 16 => Fit(Fire(t), g)
  <2>1. s.status = 16 => s.stash = "none"
    BY <1>1, Freed
  <2> QED
    BY <1>1, <1>3, <2>1, FireFit DEF Free
<1>5. HeadHandled(s) \in {s, t} \/ (s.status = 16 /\ HeadHandled(s) = Fire(t))
  BY DEF HeadHandled, Then, t
<1> QED
  BY <1>3, <1>4, <1>5

LEMMA OnToolheadRecvFit ==
    ASSUME NEW h, NEW g, Live(h), Fit(h, g)
    PROVE  Fit(OnToolheadRecv(h), g)
<1> DEFINE s == Then(h, HeadHandled)
           r == ToolheadReset(s)
<1>1. Live(s) /\ Fit(s, g) /\ IsPlayer(s)
  BY HeadHandledLeads, HeadHandledFit, LivePlayer DEF Then, Leads
<1> HIDE DEF s
<1>2. Live(r) /\ Fit(r, g)
  BY <1>1, ToolheadResetKeeps, KeepsLeads, ToolheadResetFit DEF Leads
<1> HIDE DEF r
<1>3. Fit(Quiet(Close(s)), g)
  BY <1>1, CloseKeeps, FitStill DEF Keeps
<1>4. OnToolheadRecv(h) \in {Quiet(Close(s)), Caught(r), Caught(s)}
  BY DEF OnToolheadRecv, s, r
<1> QED
  BY <1>1, <1>2, <1>3, <1>4, CaughtFit

\* The head confirms what was sent to it.
LEMMA CallbackFit ==
    ASSUME NEW s, NEW g, Live(s), Fit(s, g),
           s.status = 50 /\ s.cb = "paused" => s.stash = "stashed",
           s.status = 18 /\ s.stash = "stashed" => Len(s.queue) < BufSize
    PROVE  Fit(Callback(s), g)
<1> DEFINE t == [s EXCEPT !.cb = "none"]
<1>1. Keeps(s, t) /\ Calm(s, t)
  <2>1. Keeps(s, t)
    <3>1. IsPlayer(s)
      BY LivePlayer
    <3> QED
      BY ZenonT(120), <3>1, CallbackValues DEF IsPlayer, Fields, Keeps, Same
  <2> QED
    BY <2>1, LivePlayer, AsideCalm
<1> HIDE DEF t
<1>2. Live(t) /\ Fit(t, g) /\ IsPlayer(t)
  BY <1>1, KeepsLeads, CalmFit DEF Leads, Keeps
<1>3. t.status = s.status /\ t.stash = s.stash /\ t.queue = s.queue
  BY <1>1 DEF Calm
<1>4. Fit(Recovered(t), g) /\ Fit(Close(t), g)
  BY <1>2, <1>3, RecoveredFit, FitStill
<1>5. s.cb = "paused" => Fit(ToolheadPaused(t), g)
  BY <1>2, <1>3, ToolheadPausedFit
<1>6. \/ Callback(s) \in {t, Recovered(t), Close(t)}
      \/ s.cb = "paused" /\ Callback(s) = ToolheadPaused(t)
  BY DEF Callback, t
<1> QED
  BY <1>2, <1>4, <1>5, <1>6

LEMMA PongFit ==
    ASSUME NEW s, NEW g, Live(s), Fit(s, g),
           s.status = 18 /\ s.stash = "stashed" => Len(s.queue) + 1 < BufSize
    PROVE  Fit(Pong(s), g)
<1> DEFINE r == ToolheadReset(s)
           u == [s EXCEPT !.rt = s.temp]
           t == PopToHead(u)
<1>1. IsPlayer(s) /\ Fit(r, g) /\ IsPlayer(r)
  BY ToolheadResetFit, ToolheadResetKeeps, LivePlayer DEF Keeps
<1> HIDE DEF r
<1>2. Fit(Raise(r, "head lost"), g)
  BY <1>1, FitStill
<1>3. s.temp \in HeadReadings
  BY <1>1, ReadingValues DEF IsPlayer
<1>4. Keeps(s, u)
  BY <1>1, <1>3 DEF IsPlayer, Fields, Keeps, Same
<1>5. Calm(s, u)
  BY <1>1, AsideCalm
<1> HIDE DEF u
<1>6. Live(u) /\ IsPlayer(u)
  BY <1>4, KeepsLeads DEF Leads, Keeps
<1>7. Live(t)
  BY <1>6, PopToHeadKeeps, KeepsLeads DEF Leads
<1>8. Calm(s, t)
  BY <1>5, <1>6, PopToHeadCalm, CalmOn
<1> HIDE DEF t
<1>9. Fit(t, g) /\ t.status = s.status /\ t.stash = s.stash /\ t.queue = s.queue
  BY <1>8, CalmFit DEF Calm
<1>10. Fit(HeadAllset(t), g)
  BY <1>7, <1>9, HeadAllsetFit
<1>11. Pong(s) \in {Raise(r, "head lost"), t, HeadAllset(t)}
  BY DEF Pong, Then, r, t, u
<1> QED
  BY <1>2, <1>9, <1>10, <1>11

LEMMA IdleHeadFit ==
    ASSUME NEW s, NEW g, IsPlayer(s), Fit(s, g)
    PROVE  Fit(IdleHead(s), g)
<1> DEFINE r == ToolheadReset(s)
<1>1. IsPlayer(r) /\ Fit(r, g) /\ Fit(Close(s), g)
  BY ToolheadResetKeeps, ToolheadResetFit, FitStill DEF Keeps
<1> HIDE DEF r
<1>2. Fit(PowerOff(r), g)
  BY <1>1, HalCalm, CalmFit
<1>3. IdleHead(s) \in {s, PowerOff(r), Close(s)}
  BY DEF IdleHead, r
<1> QED
  BY <1>1, <1>2, <1>3

-----------------------------------------------------------------------------
(* The requests. *)

LEMMA AbortPlayer ==
    ASSUME NEW s, IsPlayer(s), NEW e \in Errors
    PROVE  IsPlayer(Abort(s, e))
<1> DEFINE u == [s EXCEPT !.status = 128, !.error = e]
           t == Terminate(u)
<1>1. IsPlayer(u)
  BY StatusValues DEF IsPlayer, Fields
<1> HIDE DEF u
<1>2. IsPlayer(t)
  BY <1>1, TerminateDoes
<1> HIDE DEF t
<1>3. IsPlayer(Close(t))
  BY <1>2, CloseKeeps DEF Keeps
<1>4. Abort(s, e) \in {s, t, Close(t)}
  BY DEF Abort, t, u
<1> QED
  BY <1>2, <1>3, <1>4

LEMMA SoftAbortFit ==
    ASSUME NEW s, NEW g, IsPlayer(s), Fit(s, g), s.stash # "none" => s.mb # "off"
    PROVE  Fit(SoftAbort(s), g) /\ IsPlayer(SoftAbort(s))
<1> DEFINE t == [s EXCEPT !.macro = "soft abort"]
<1>1. /\ IsPlayer(t) /\ t.status = s.status /\ t.stash = s.stash /\ t.parked = s.parked
      /\ t.queue = s.queue /\ t.fin = s.fin /\ t.mb = s.mb /\ t.ctrl = s.ctrl
      /\ t.allsetCb = s.allsetCb /\ t.macro = "soft abort"
  BY ZenonT(120), MacroValues DEF IsPlayer, Fields
<1> HIDE DEF t
<1>2. s.status = 16 /\ s.macro = "none" => Fit(t, g)
  <2>1. s.status = 16 => s.status \notin Ended /\ s.status \notin Starting
    BY Ends DEF Starting
  <2>2. s.status \notin Ended => /\ s.allsetCb = "task" => s.macro = "heat"
                                 /\ s.allsetCb = "job" => s.macro = "job heat"
    BY ZenonT(120) DEF Fit, Resting
  <2>3. s.status = 16 /\ s.macro = "none" => s.allsetCb \notin {"task", "job"}
    BY <2>1, <2>2
  <2>4. t.macro # "probe"
    BY <1>1
  <2> QED
    BY <1>1, <2>1, <2>3, <2>4, MacroFit
<1>3. Fit(Abort(s, "none"), g)
  BY AbortFit, ErrorValues
<1>4. IsPlayer(Abort(s, "none"))
  BY AbortPlayer, ErrorValues
<1>5. \/ s.status = 16 /\ s.macro = "none" /\ SoftAbort(s) = t
      \/ SoftAbort(s) = Abort(s, "none")
  BY DEF SoftAbort, t
<1> QED
  BY <1>1, <1>2, <1>3, <1>4, <1>5

\* set_toolhead_operation powers the head up and takes control of it.
LEMMA SetToolheadOperationFit ==
    ASSUME NEW s, NEW g, IsPlayer(s), Fit(s, g)
    PROVE  Fit(SetToolheadOperation(s), g)
<1> DEFINE t == [s EXCEPT !.error = "none", !.control = FALSE]
           u == PowerOn(t)
<1>1. IsPlayer(t) /\ Calm(s, t)
  BY ZenonT(120), ErrorValues, Booleans DEF IsPlayer, Fields, Calm
<1> HIDE DEF t
<1>2. IsPlayer(u) /\ Calm(t, u)
  BY <1>1, PowerOnKeeps, HalCalm DEF Keeps
<1> HIDE DEF u
<1>3. Calm(u, ToolheadBootstrap(u))
  BY <1>2, HalCalm
<1>4. Fit(ToolheadBootstrap(u), g)
  BY <1>1, <1>2, <1>3, CalmFit
<1>5. SetToolheadOperation(s) \in {s, ToolheadBootstrap(u)}
  BY DEF SetToolheadOperation, t, u
<1> QED
  BY <1>4, <1>5

LEMMA SetToolheadStandbyFit ==
    ASSUME NEW s, NEW g, Live(s), Fit(s, g)
    PROVE  Fit(SetToolheadStandby(s), g)
<1> DEFINE t == [s EXCEPT !.control = TRUE]
<1>1. Keeps(s, t) /\ Calm(s, t)
  <2>1. IsPlayer(s)
    BY LivePlayer
  <2>2. Keeps(s, t)
    BY ZenonT(120), <2>1, Booleans DEF IsPlayer, Fields, Keeps, Same
  <2>3. Calm(s, t)
    BY ZenonT(120), <2>1 DEF IsPlayer, Fields, Calm
  <2> QED
    BY <2>2, <2>3
<1> HIDE DEF t
<1>2. Live(t) /\ Fit(t, g) /\ t.status = s.status
  BY <1>1, KeepsLeads, CalmFit DEF Leads, Calm
<1>3. s.status = 48 => Fit(PauseToolhead(t), g)
  BY <1>2, PauseToolheadFit
<1>4. SetToolheadStandby(s) = s \/ (s.status = 48 /\ SetToolheadStandby(s) = PauseToolhead(t))
  BY DEF SetToolheadStandby, t
<1> QED
  BY <1>3, <1>4

LEMMA SetToolheadHeaterFit ==
    ASSUME NEW s, NEW g, IsPlayer(s), Fit(s, g), NEW v \in Targets
    PROVE  Fit(SetToolheadHeater(s, v), g)
<1> DEFINE t == [s EXCEPT !.heatTo = IF s.macro = "heat" THEN v ELSE @]
<1>1. IsPlayer(t) /\ Calm(s, t)
  BY DEF IsPlayer, Fields, Calm
<1> HIDE DEF t
<1>2. Calm(t, SetHeater(t, v))
  BY <1>1, SetHeaterCalm
<1>3. SetToolheadHeater(s, v) \in {s, SetHeater(t, v)}
  BY DEF SetToolheadHeater, t
<1> QED
  BY <1>1, <1>2, <1>3, CalmFit

LEMMA LoadFilamentFit ==
    ASSUME NEW s, NEW g, Live(s), Fit(s, g)
    PROVE  Fit(LoadFilament(s), g)
<1> DEFINE t == [s EXCEPT !.pausedMacro = "to send"]
<1>1. Keeps(s, t) /\ Calm(s, t)
  <2>1. IsPlayer(s)
    BY LivePlayer
  <2>2. Keeps(s, t)
    BY ZenonT(120), <2>1, LoadValues DEF IsPlayer, Fields, Keeps, Same
  <2>3. Calm(s, t)
    BY ZenonT(120), <2>1 DEF IsPlayer, Fields, Calm
  <2> QED
    BY <2>2, <2>3
<1> HIDE DEF t
<1>2. Live(t) /\ Fit(t, g) /\ t.status = s.status
  BY <1>1, KeepsLeads, CalmFit DEF Leads, Calm
<1>3. s.status = 48 => Fit(PausedMacroEmpty(t), g)
  BY <1>2, PausedMacroEmptyFit
<1>4. \/ LoadFilament(s) \in {s, t}
      \/ s.status = 48 /\ LoadFilament(s) = PausedMacroEmpty(t)
  BY DEF LoadFilament, t
<1> QED
  BY <1>2, <1>3, <1>4


-----------------------------------------------------------------------------
(* The steps. *)

\* The invariant between two handlers.
Sits(t, g) ==
    Way(t.queue, t.fin, t.parked, t.stash) /\ Flags(t) /\ Resting(t) /\ Signal(t, g)

LEMMA FitSits ==
    ASSUME NEW t, Fit(t, p.ctrl)
    PROVE  Sits(t, t.ctrl)
BY DEF Fit, Sits

LEMMA CalmSits ==
    ASSUME SInv, NEW t, Calm(p, t)
    PROVE  Sits(t, t.ctrl)
BY CalmFit, FitSits DEF SInv

\* Before the mainboard is greeted nothing is parked.
LEMMA OffFree ==
    ASSUME SInv, p.mb = "off"
    PROVE  p.stash = "none"
<1>1. IsPlayer(p) /\ Fit(p, p.ctrl) /\ p.status \in {4, 38, 128}
  BY DEF SInv, IInv, Open, Sound
<1>2. CASE p.status = 128
  <2>1. p.status \in Ended /\ p.mb # "closing"
    BY <1>2, Ends
  <2> QED
    BY ZenonT(120), <1>1, <2>1 DEF Fit, Flags
<1>3. CASE p.status # 128
  <2>1. p.status \in {4, 6, 16, 36, 38}
    BY <1>1, <1>3
  <2> QED
    BY <1>1, <2>1, Freed
<1> QED
  BY <1>2, <1>3

LEMMA MbReadySits ==
    ASSUME SInv, MbReady
    PROVE  Sits(p', p'.ctrl)
<1> DEFINE s == [p EXCEPT !.mb = "ready"]
           t == OnMainboardReady(s)
<1>1. p.mb = "off" /\ p' = Caught(t)
  BY DEF MbReady, Step
<1>2. p.status \in {4, 38, 128} /\ Sound(p) /\ IsPlayer(p) /\ Fit(p, p.ctrl)
  BY <1>1 DEF SInv, IInv, Open, Sound
<1>3. /\ IsPlayer(s) /\ s.mb = "ready" /\ s.status = p.status /\ s.next = p.next
      /\ s.fed = p.fed /\ s.queue = p.queue /\ s.fin = p.fin /\ s.did = p.did
  BY <1>2, MbValues DEF IsPlayer, Fields
<1>4. Fit(s, p.ctrl)
  BY <1>1, <1>2, OffFree, ReadyFit
<1> HIDE DEF s
<1>5. Live(s)
  <2>1. p.status # 64
    BY <1>2
  <2> QED
    BY <1>2, <1>3, <2>1 DEF Live, Sound
<1>6. Live(t)
  BY <1>3, <1>5, OnMainboardReadyKeeps, KeepsLeads DEF Leads
<1>7. Fit(t, p.ctrl)
  BY <1>3, <1>4, HalCalm, CalmFit
<1> HIDE DEF t
<1> QED
  BY <1>1, <1>6, <1>7, CaughtFit, FitSits

\* The mainboard parks the head, returns it, or moves on, and says so.
LEMMA MbExecutesSits ==
    ASSUME SInv, MbExecutes
    PROVE  Sits(p', p'.ctrl)
<1> DEFINE c == p.queue[p.fin + 1]
           k == IF c.op = "C2" THEN TRUE ELSE IF c.op = "C2F" THEN FALSE ELSE p.parked
           d == IF c.op = "job" THEN Append(p.did, c.i) ELSE p.did
           s == [p EXCEPT !.fin = p.fin + 1, !.did = d, !.parked = k]
<1>1. /\ p.fin < Len(p.queue) /\ p.ctrl = "none"
      /\ \/ c.op = "C2" /\ p' = [s EXCEPT !.ctrl = "STASH"]
         \/ c.op = "C2F" /\ p' = [s EXCEPT !.ctrl = "STASH_POP"]
         \/ \E r \in Readings : c.op \notin {"C2", "C2F"} /\ p' = [s EXCEPT !.ctrl = r]
         \/ c.op \notin {"C2", "C2F"} /\ p' = s
  BY DEF MbExecutes, Step
<1>2. IsPlayer(p) /\ Fit(p, "none")
  BY <1>1 DEF SInv, IInv, Sound
<1>3. p.queue \in CommandSeqs /\ p.fin \in Nat /\ p.parked \in Bools
  BY <1>2 DEF IsPlayer
<1>4. /\ c.op = "C2" => p.stash = "stashing" /\ Way(p.queue, p.fin + 1, TRUE, p.stash)
      /\ c.op = "C2F" => p.stash = "none" /\ Way(p.queue, p.fin + 1, FALSE, p.stash)
      /\ c.op \notin {"C2", "C2F"} => Way(p.queue, p.fin + 1, p.parked, p.stash)
  BY <1>1, <1>2, <1>3, WayExecuted DEF Fit
<1>5. /\ c.op # "C2" /\ (\E a \in Coming(p.queue, p.fin) : p.queue[a].op = "C2")
             => \E a \in Coming(p.queue, p.fin + 1) : p.queue[a].op = "C2"
      /\ p.queue # <<>>
  <2>0. p.fin < Len(p.queue)
    BY <1>1
  <2>1. Len(p.queue) \in Nat /\ p.queue # <<>>
    BY <1>3, <2>0 DEF CommandSeqs
  <2>2. \A a \in Coming(p.queue, p.fin) : a \in Coming(p.queue, p.fin + 1) \/ a = p.fin + 1
    BY <1>3, <2>1 DEF Coming
  <2> QED
    BY <2>1, <2>2
<1>6. /\ DOMAIN s = Fields
      /\ s.status = p.status /\ s.stash = p.stash /\ s.parked = k /\ s.queue = p.queue
      /\ s.fin = p.fin + 1 /\ s.mb = p.mb /\ s.ctrl = "none"
      /\ s.allsetCb = p.allsetCb /\ s.macro = p.macro /\ s.probing = p.probing
  <2> HIDE DEF k, d
  <2> QED
    BY <1>1, <1>2 DEF IsPlayer, Fields
<1> HIDE DEF s, d
<1>7. PICK e \in Readings \cup {"STASH", "STASH_POP", "none"} :
          /\ p'.status = p.status /\ p'.stash = p.stash /\ p'.parked = k
          /\ p'.queue = p.queue /\ p'.fin = p.fin + 1 /\ p'.mb = p.mb /\ p'.ctrl = e
          /\ p'.allsetCb = p.allsetCb /\ p'.macro = p.macro /\ p'.probing = p.probing
          /\ (c.op = "C2" <=> e = "STASH") /\ (c.op = "C2F" <=> e = "STASH_POP")
  <2>1. PICK e \in Readings \cup {"STASH", "STASH_POP", "none"} :
            /\ p' = [s EXCEPT !.ctrl = e] \/ (e = "none" /\ p' = s)
            /\ (c.op = "C2" <=> e = "STASH") /\ (c.op = "C2F" <=> e = "STASH_POP")
    <3>1. "STASH" \notin Readings /\ "STASH_POP" \notin Readings /\ "none" \notin Readings
      BY DEF Readings
    <3> HIDE DEF k, c
    <3> QED
      BY <1>1, <3>1
  <2> HIDE DEF k, c
  <2>2. /\ p'.status = p.status /\ p'.stash = p.stash /\ p'.parked = k
        /\ p'.queue = p.queue /\ p'.fin = p.fin + 1 /\ p'.mb = p.mb /\ p'.ctrl = e
        /\ p'.allsetCb = p.allsetCb /\ p'.macro = p.macro /\ p'.probing = p.probing
    <3>1. CASE p' = [s EXCEPT !.ctrl = e]
      BY <1>6, <3>1 DEF Fields
    <3>2. CASE p' = s /\ e = "none"
      BY <1>6, <3>2
    <3> QED
      BY <2>1, <3>1, <3>2
  <2> QED
    BY <2>1, <2>2
<1> DEFINE u == p'
<1>8. Sits(u, e)
  <2> HIDE DEF c
  <2>1. Way(u.queue, u.fin, u.parked, u.stash)
    BY <1>4, <1>7
  <2>2. Flags(p) /\ Resting(p) /\ Signal(p, "none")
    BY <1>2 DEF Fit
  <2>3. u.stash = "stashing" /\ u.status = 50 =>
            u.parked \/ \E a \in Coming(u.queue, u.fin) : u.queue[a].op = "C2"
    <3>1. c.op = "C2" => u.parked
      BY <1>7
    <3>2. c.op = "C2F" => u.stash # "stashing"
      BY <1>4, <1>7
    <3>3. c.op \notin {"C2", "C2F"} => u.parked = p.parked
      BY <1>7
    <3>4. p.stash = "stashing" /\ p.status = 50 =>
              p.parked \/ \E a \in Coming(p.queue, p.fin) : p.queue[a].op = "C2"
      BY ZenonT(120), <2>2 DEF Flags
    <3> QED
      BY <1>5, <1>7, <3>1, <3>2, <3>3, <3>4
  <2>4. Flags(u)
    <3>1. /\ u.status = p.status /\ u.stash = p.stash /\ u.mb = p.mb /\ u.queue = p.queue
          /\ p.queue # <<>>
      BY <1>5, <1>7
    <3> HIDE DEF u, k
    <3> QED
      BY ZenonT(120), <2>2, <2>3, <3>1 DEF Flags
  <2>5. Resting(u)
    <3> HIDE DEF u, k
    <3> QED
      BY ZenonT(120), <1>7, <2>2 DEF Resting, u
  <2>6. Signal(u, e)
    <3>1. e = "STASH" => \/ u.status \in Ended
                         \/ u.status = 50 /\ u.stash = "stashing" /\ u.parked
      <4>1. p.stash = "stashing" => p.status = 50 \/ p.status \in Ended
        BY ZenonT(120), <2>2 DEF Flags
      <4> QED
        BY <1>4, <1>7, <4>1
    <3>2. u.stash = "stashing" /\ u.status = 50 /\ u.parked => e = "STASH"
      <4>1. ~(p.stash = "stashing" /\ p.status = 50 /\ p.parked)
        BY <2>2 DEF Signal
      <4> QED
        BY <1>4, <1>7, <4>1
    <3>3. e = "STASH_POP" => u.stash = "none" /\ u.queue # <<>>
      BY <1>4, <1>5, <1>7
    <3> HIDE DEF u, k
    <3> QED
      BY ZenonT(120), <3>1, <3>2, <3>3 DEF Signal
  <2> HIDE DEF u, k
  <2> QED
    BY <2>1, <2>4, <2>5, <2>6 DEF Sits
<1> QED
  BY <1>7, <1>8 DEF u

LEMMA MbCtrlSits ==
    ASSUME SInv, MbCtrl
    PROVE  Sits(p', p'.ctrl)
<1> DEFINE u == OnMbCtrl(p)
           t == Caught(u)
           w == [t EXCEPT !.ctrl = "none"]
<1>1. p.ctrl # "none" /\ p' = w
  BY DEF MbCtrl, Step
<1>2. Live(p) /\ Fit(p, p.ctrl) /\ p.exc = "none"
  BY <1>1, LiveNow DEF SInv, IInv, Open
<1>3. Live(u) /\ Fit(u, "none")
  BY <1>2, OnMbCtrlLeads, OnMbCtrlFit DEF Leads
<1> HIDE DEF u
<1>4. Fit(t, "none") /\ IsPlayer(t)
  BY <1>3, CaughtFit, CaughtLeads, LivePlayer DEF Leads
<1> HIDE DEF t
<1>5. /\ w.status = t.status /\ w.stash = t.stash /\ w.parked = t.parked
      /\ w.queue = t.queue /\ w.fin = t.fin /\ w.mb = t.mb /\ w.ctrl = "none"
      /\ w.allsetCb = t.allsetCb /\ w.macro = t.macro /\ w.probing = t.probing
  BY <1>4 DEF IsPlayer, Fields
<1> HIDE DEF w
<1>6. Way(w.queue, w.fin, w.parked, w.stash)
  BY <1>4, <1>5 DEF Fit
<1>7. Flags(w)
  BY <1>4, <1>5 DEF Fit, Flags
<1>8. Resting(w)
  BY ZenonT(120), <1>4, <1>5 DEF Fit, Resting
<1>9. Signal(w, "none")
  BY ZenonT(120), <1>4, <1>5 DEF Fit, Signal
<1> QED
  BY <1>1, <1>5, <1>6, <1>7, <1>8, <1>9 DEF Sits

LEMMA ParkReported ==
    ASSUME NEW q \in CommandSeqs, NEW f \in Nat, f <= Len(q), NEW j \in Nat, j <= f,
           NEW k, NEW t, Way(q, f, k, t)
    PROVE  /\ Way(SubSeq(q, j + 1, Len(q)), f - j, k, t)
           /\ (\E a \in Coming(q, f) : q[a].op = "C2") =>
                  \E a \in Coming(SubSeq(q, j + 1, Len(q)), f - j) :
                      SubSeq(q, j + 1, Len(q))[a].op = "C2"
<1> DEFINE r == SubSeq(q, j + 1, Len(q))
           g == f - j
<1>1. /\ Way(r, g, k, t)
      /\ \A o : (\E a \in Coming(q, f) : q[a].op = o) => \E a \in Coming(r, g) : r[a].op = o
  BY WayReported
<1> HIDE DEF r, g
<1>2. (\E a \in Coming(q, f) : q[a].op = "C2") => \E a \in Coming(r, g) : r[a].op = "C2"
  BY <1>1
<1> QED
  BY <1>1, <1>2 DEF r, g

\* What is reported leaves the buffer; its last command leaves it to the player.
\* The state in which the mainboard's report is handled.
LEMMA LnFit ==
    ASSUME SInv, NEW k \in Nat, k <= p.fin, p.queue # <<>>, p.ctrl = "none"
    PROVE  LET s == [p EXCEPT !.queue = SubSeq(@, k + 1, Len(@)), !.fin = @ - k]
           IN  Live(s) /\ Fit(s, "none")
<1> DEFINE q == SubSeq(p.queue, k + 1, Len(p.queue))
           s == [p EXCEPT !.queue = q, !.fin = p.fin - k]
<1>1. Live(p) /\ Fit(p, "none") /\ IsPlayer(p)
  <2>1. p.mb # "off"
    BY DEF SInv, IInv, Open
  <2> QED
    BY <2>1, LiveNow, LivePlayer DEF SInv
<1>2. Live(s)
  BY <1>1, Reported DEF Leads
<1>3. /\ s.status = p.status /\ s.stash = p.stash /\ s.parked = p.parked
      /\ s.queue = q /\ s.fin = p.fin - k /\ s.mb = p.mb /\ s.ctrl = "none"
      /\ s.allsetCb = p.allsetCb /\ s.macro = p.macro /\ s.probing = p.probing
  <2> HIDE DEF q
  <2> QED
    BY <1>1 DEF IsPlayer, Fields
<1>4. Ordered(p.did, p.queue, p.fin, p.next)
  BY <1>1 DEF Live, Sound
<1>5. p.queue \in CommandSeqs /\ p.fin \in Nat /\ p.fin <= Len(p.queue)
  BY <1>1, <1>4 DEF IsPlayer, Ordered
<1>6. /\ Way(q, p.fin - k, p.parked, p.stash)
      /\ (\E a \in Coming(p.queue, p.fin) : p.queue[a].op = "C2")
             => \E a \in Coming(q, p.fin - k) : q[a].op = "C2"
  <2>1. Way(p.queue, p.fin, p.parked, p.stash)
    BY <1>1 DEF Fit
  <2> QED
    BY <1>5, <2>1, ParkReported
<1>7. \A a \in Coming(q, p.fin - k) : q # <<>>
  <2>1. Len(q) = Len(p.queue) - k /\ p.fin - k \in Nat
    BY <1>5 DEF CommandSeqs
  <2>2. q = <<>> => Coming(q, p.fin - k) = {}
    <3> HIDE DEF q
    <3>1. q = <<>> => Len(q) = 0
      OBVIOUS
    <3> QED
      BY <2>1, <3>1 DEF Coming
  <2> QED
    BY <2>2
<1> HIDE DEF q, s
<1>8. Fit(s, "none")
  <2>1. Flags(p) /\ Resting(p) /\ Signal(p, "none") /\ p.ctrl = "none"
    BY <1>1 DEF Fit
  <2>2. ~(p.stash = "stashing" /\ p.status = 50 /\ p.parked)
    BY <2>1 DEF Signal
  <2>3. s.stash = "stashing" /\ s.status = 50 =>
            /\ s.queue # <<>>
            /\ s.parked \/ \E a \in Coming(s.queue, s.fin) : s.queue[a].op = "C2"
    <3>1. p.stash = "stashing" /\ p.status = 50 =>
              p.parked \/ \E a \in Coming(p.queue, p.fin) : p.queue[a].op = "C2"
      BY ZenonT(120), <2>1 DEF Flags
    <3> QED
      BY <1>3, <1>6, <1>7, <2>2, <3>1
  <2>4. Flags(s)
    BY ZenonT(120), <1>3, <2>1, <2>3 DEF Flags
  <2>5. Resting(s)
    BY ZenonT(120), <1>3, <2>1 DEF Resting
  <2>6. Signal(s, "none")
    <3>1. ~(s.stash = "stashing" /\ s.status = 50 /\ s.parked)
      BY <1>3, <2>2
    <3>2. "none" # "STASH" /\ "none" # "STASH_POP"
      OBVIOUS
    <3> QED
      BY ZenonT(120), <3>1, <3>2 DEF Signal
  <2> QED
    BY <1>3, <1>6, <2>1, <2>4, <2>5, <2>6 DEF Fit
<1> QED
  BY <1>2, <1>8 DEF s, q

LEMMA MbLnSits ==
    ASSUME SInv, RoomToReturn, NEW k \in 0..BufSize, MbLn(k)
    PROVE  Sits(p', p'.ctrl)
<1> DEFINE left == Len(p.queue) - k
           s == [p EXCEPT !.queue = SubSeq(@, k + 1, Len(@)), !.fin = @ - k]
           t == IF left + 1 = BufSize THEN OnMbSendable(s) ELSE s
           u == IF left = 0 THEN Then(t, OnMbEmpty) ELSE t
<1>1. p.queue # <<>> /\ p.ctrl = "none" /\ k <= p.fin /\ p' = Caught(u)
  BY DEF MbLn, Step
<1>2. k \in Nat /\ BufSize \in Nat /\ IsPlayer(p)
  BY ScenarioType DEF SInv, IInv, Sound
<1>3. Live(s) /\ Fit(s, "none")
  BY <1>1, <1>2, LnFit
<1>4. s.stash = p.stash
  BY <1>2 DEF IsPlayer, Fields
<1> HIDE DEF s
<1>5. left + 1 = BufSize => Free(s)
  <2>1. left + 1 = BufSize => p.stash = "none"
    <3>1. Len(p.queue) \in Nat /\ p.fin \in Nat /\ p.fin <= Len(p.queue)
      BY DEF SInv, IInv, Sound, Ordered, IsPlayer, CommandSeqs
    <3> QED
      BY <1>1, <1>2, <3>1 DEF RoomToReturn
  <2> QED
    BY <1>4, <2>1 DEF Free
<1> HIDE DEF left
<1>6. Live(t) /\ Fit(t, "none")
  BY <1>3, <1>5, OnMbSendableLeads, OnMbSendableFit DEF Leads
<1> HIDE DEF t
<1>7. Live(u) /\ Fit(u, "none")
  BY <1>6, OnMbEmptyLeads, OnMbEmptyFit DEF Leads, Then
<1> HIDE DEF u
<1> QED
  BY <1>1, <1>7, CaughtFit, FitSits

LEMMA MbRunoutSits ==
    ASSUME SInv, MbRunout
    PROVE  Sits(p', p'.ctrl)
<1> DEFINE s == [p EXCEPT !.mb = "error"]
           t == Raise(s, "other")
<1>1. p.mb = "ready" /\ p' = Caught(t)
  BY DEF MbRunout, Step
<1>2. Live(p) /\ Fit(p, p.ctrl) /\ IsPlayer(p)
  BY <1>1, LiveNow, LivePlayer DEF SInv, IInv
<1>3. /\ IsPlayer(s) /\ s.mb = "error" /\ s.status = p.status /\ s.next = p.next
      /\ s.fed = p.fed /\ s.queue = p.queue /\ s.fin = p.fin /\ s.did = p.did
  BY <1>2, MbValues DEF IsPlayer, Fields
<1>4. Fit(s, p.ctrl)
  <2>1. p.mb # "closing"
    BY <1>1
  <2>2. p.status \notin Ended \/ p.stash = "none"
    BY ZenonT(120), <1>2, <2>1 DEF Fit, Flags
  <2> QED
    BY <1>2, <2>2, ReadyFit
<1> HIDE DEF s
<1>5. Live(s)
  BY <1>1, <1>2, <1>3 DEF Live, Sound
<1>6. Live(t) /\ Fit(t, p.ctrl)
  BY <1>3, <1>4, <1>5, RaiseKeeps, ExcValues, KeepsLeads, FitStill DEF Leads
<1> HIDE DEF t
<1> QED
  BY <1>1, <1>6, CaughtFit, FitSits

LEMMA MbFailsSits ==
    ASSUME SInv, MbFails
    PROVE  Sits(p', p'.ctrl)
<1> DEFINE s == Raise(p, "system")
           q == Quiet(s)
           a == Abort(q, "other")
<1>1. p' = Caught(s) /\ IsPlayer(p) /\ Fit(p, p.ctrl)
  BY DEF MbFails, Step, SInv, IInv, Sound
<1>2. IsPlayer(s) /\ s.exc = "system" /\ s.stash = p.stash /\ s.mb = p.mb
  <2>1. s.exc = "system" /\ s.stash = p.stash /\ s.mb = p.mb
    BY <1>1 DEF Raise, IsPlayer, Fields
  <2> QED
    BY <1>1, <2>1, RaiseKeeps, ExcValues DEF Keeps
<1>3. Fit(s, p.ctrl)
  BY <1>1, FitStill
<1>4. Caught(s) = Quiet(a)
  BY <1>2 DEF Caught
<1> HIDE DEF s
<1>5. IsPlayer(q) /\ q.stash = p.stash /\ q.mb = p.mb
  <2>1. q.stash = p.stash /\ q.mb = p.mb
    BY <1>2 DEF Quiet, IsPlayer, Fields
  <2> QED
    BY <1>2, <2>1, QuietKeeps DEF Keeps
<1>6. Fit(q, p.ctrl)
  BY <1>2, <1>3, FitStill
<1> HIDE DEF q
<1>7. Fit(a, p.ctrl) /\ IsPlayer(a)
  BY <1>5, <1>6, OffFree, AbortFit, AbortPlayer, ErrorValues
<1> HIDE DEF a
<1>8. Fit(Quiet(a), p.ctrl)
  BY <1>7, FitStill
<1> QED
  BY <1>1, <1>4, <1>8, FitSits

LEMMA HeadHelloSits ==
    ASSUME SInv, RoomToReturn, HeadHello
    PROVE  Sits(p', p'.ctrl)
<1> DEFINE q == [p EXCEPT !.th = "RUNNING", !.wasReset = FALSE]
           s == OnToolheadReady(q)
           t == [s EXCEPT !.th = "INIT"]
           h == IF s.exc = "none" THEN s ELSE t
<1>1. p.th = "BOOTING" /\ p' = OnToolheadRecv(h)
  BY DEF HeadHello, Step
<1>2. Live(p) /\ Fit(p, p.ctrl) /\ IsPlayer(p)
  BY <1>1, LiveNow, LivePlayer DEF SInv, IInv, Open
<1>3. Keeps(p, q)
  BY ZenonT(120), <1>2, HeadValues, Booleans DEF IsPlayer, Fields, Keeps, Same
<1>4. Calm(p, q)
  BY <1>2 DEF IsPlayer, Fields, Calm
<1> HIDE DEF q
<1>5. Live(q) /\ Fit(q, p.ctrl)
  BY <1>2, <1>3, <1>4, KeepsLeads, CalmFit DEF Leads
<1>6. q.status = 18 /\ q.stash = "stashed" => Len(q.queue) < BufSize
  <2>1. q.status = p.status /\ q.stash = p.stash /\ q.queue = p.queue
    BY <1>4 DEF Calm
  <2>2. Len(p.queue) \in Nat /\ BufSize \in Nat
    BY <1>2, ScenarioType DEF Live, Sound, IsPlayer, CommandSeqs
  <2> QED
    BY <2>1, <2>2 DEF RoomToReturn
<1>7. Live(s) /\ Fit(s, p.ctrl) /\ IsPlayer(s)
  BY <1>5, <1>6, OnToolheadReadyLeads, OnToolheadReadyFit, LivePlayer DEF Leads
<1> HIDE DEF s
<1>8. Keeps(s, t)
  BY <1>7, HeadValues DEF IsPlayer, Fields, Keeps, Same
<1>9. Calm(s, t)
  BY <1>7, AsideCalm
<1> HIDE DEF t
<1>10. Live(t) /\ Fit(t, p.ctrl)
  BY <1>7, <1>8, <1>9, KeepsLeads, CalmFit DEF Leads
<1>11. Live(h) /\ Fit(h, p.ctrl)
  BY <1>7, <1>10
<1> HIDE DEF h
<1> QED
  BY <1>1, <1>11, OnToolheadRecvFit, FitSits

LEMMA HeadOkSits ==
    ASSUME SInv, NoStaleStandby, RoomToReturn, HeadOk
    PROVE  Sits(p', p'.ctrl)
<1>0. p.out # "none"
  BY DEF HeadOk
<1>20. PICK v \in HeaterTold(p.out) :
          LET s == [p EXCEPT !.out = "none", !.heat = v]
          IN  p' = OnToolheadRecv(IF s.hq = <<>> THEN Callback(s) ELSE PopToHead(s))
  BY DEF HeadOk, Step
<1> DEFINE s == [p EXCEPT !.out = "none", !.heat = v]
           h == IF s.hq = <<>> THEN Callback(s) ELSE PopToHead(s)
<1>1. p.out # "none" /\ p' = OnToolheadRecv(h)
  BY <1>0, <1>20
<1>2. Live(p) /\ Fit(p, p.ctrl) /\ IsPlayer(p)
  BY <1>1, LiveNow, LivePlayer DEF SInv, IInv, Open
<1>3. Keeps(p, s)
  <2>1. v \in Levels
    BY <1>1, <1>2, ToldLevels
  <2> QED
    BY <1>2, <2>1, OutValues DEF IsPlayer, Fields, Keeps, Same
<1>4. Calm(p, s) /\ s.cb = p.cb
  BY <1>2 DEF IsPlayer, Fields, Calm
<1> HIDE DEF s
<1>5. Live(s) /\ Fit(s, p.ctrl) /\ IsPlayer(s)
  BY <1>2, <1>3, <1>4, KeepsLeads, CalmFit DEF Leads, Keeps
<1>6. /\ s.status = 50 /\ s.cb = "paused" => s.stash = "stashed"
      /\ s.status = 18 /\ s.stash = "stashed" => Len(s.queue) < BufSize
  <2>1. s.status = p.status /\ s.stash = p.stash /\ s.queue = p.queue
    BY <1>4 DEF Calm
  <2>2. Len(p.queue) \in Nat /\ BufSize \in Nat
    BY <1>2, ScenarioType DEF Live, Sound, IsPlayer, CommandSeqs
  <2>3. s.status = 50 /\ s.cb = "paused" => s.stash = "stashed"
    BY <1>4, <2>1 DEF NoStaleStandby
  <2> QED
    BY <2>1, <2>2, <2>3 DEF RoomToReturn
<1>7. Live(h)
  BY <1>5, CallbackLeads, PopToHeadKeeps, KeepsLeads DEF Leads
<1>8. Fit(h, p.ctrl)
  BY <1>5, <1>6, CallbackFit, FitStill
<1> HIDE DEF h
<1> QED
  BY <1>1, <1>7, <1>8, OnToolheadRecvFit, FitSits

LEMMA HeadErSits ==
    ASSUME SInv, HeadEr
    PROVE  Sits(p', p'.ctrl)
<1> DEFINE h == Raise(p, "other")
<1>1. p.out # "none" /\ p' = OnToolheadRecv(h)
  BY DEF HeadEr, Step
<1>2. Live(p) /\ Fit(p, p.ctrl) /\ IsPlayer(p)
  BY <1>1, LiveNow, LivePlayer DEF SInv, IInv, Open
<1>3. Live(h) /\ Fit(h, p.ctrl)
  BY <1>2, RaiseKeeps, ExcValues, KeepsLeads, FitStill DEF Leads
<1> HIDE DEF h
<1> QED
  BY <1>1, <1>3, OnToolheadRecvFit, FitSits

LEMMA HeadPongSits ==
    ASSUME SInv, RoomToReturn, HeadPong
    PROVE  Sits(p', p'.ctrl)
<1> DEFINE s == [p EXCEPT !.updating = FALSE]
           u(e) == [s EXCEPT !.errno = e]
<1>1. p.updating /\ \/ p' = OnToolheadRecv(Pong(s))
                    \/ \E e \in {"shake", "hardware"} : p' = OnToolheadRecv(Pong(u(e)))
  BY DEF HeadPong, Step
<1>2. Live(p) /\ Fit(p, p.ctrl) /\ IsPlayer(p)
  BY <1>1, LiveNow, LivePlayer DEF SInv, IInv, Open
<1>3. Keeps(p, s) /\ Calm(p, s)
  BY ZenonT(120), <1>2, Booleans DEF IsPlayer, Fields, Keeps, Same, Calm
<1> HIDE DEF s
<1>4. \A e \in {"shake", "hardware"} : Keeps(s, u(e)) /\ Calm(s, u(e))
  BY <1>3, ErrnoValues DEF IsPlayer, Fields, Keeps, Same, Calm
<1> HIDE DEF u
<1>5. /\ Live(s) /\ Calm(p, s)
      /\ \A e \in {"shake", "hardware"} : Live(u(e)) /\ Calm(p, u(e))
  BY <1>2, <1>3, <1>4, KeepsLeads, KeepsOn, CalmOn DEF Leads
<1>6. ASSUME NEW t, Live(t), Calm(p, t)
      PROVE  Fit(OnToolheadRecv(Pong(t)), p.ctrl)
  <2>1. Fit(t, p.ctrl)
    BY <1>2, <1>6, CalmFit
  <2>2. t.stash = "stashed" => Len(t.queue) + 1 < BufSize
    <3>1. t.stash = p.stash /\ t.queue = p.queue
      BY <1>6 DEF Calm
    <3>2. Len(p.queue) \in Nat /\ BufSize \in Nat
      BY <1>2, ScenarioType DEF Live, Sound, IsPlayer, CommandSeqs
    <3> QED
      BY <3>1, <3>2 DEF RoomToReturn
  <2> QED
    BY <1>6, <2>1, <2>2, PongLeads, PongFit, OnToolheadRecvFit DEF Leads
<1>7. Fit(p', p.ctrl)
  BY <1>1, <1>5, <1>6
<1> QED
  BY <1>7, FitSits

LEMMA LoopOfflineSits ==
    ASSUME SInv, LoopOffline
    PROVE  Sits(p', p'.ctrl)
<1> DEFINE r == ToolheadReset(p)
           s == Raise(r, "head lost")
<1>1. p.th # "INIT" /\ p' = Caught(s)
  BY DEF LoopOffline, Step, Ready
<1>2. Live(p) /\ Fit(p, p.ctrl) /\ IsPlayer(p)
  BY <1>1, LiveNow, LivePlayer DEF SInv, IInv, Open
<1>3. Live(r) /\ Fit(r, p.ctrl) /\ IsPlayer(r)
  BY <1>2, ToolheadResetKeeps, ToolheadResetFit, KeepsLeads DEF Leads, Keeps
<1> HIDE DEF r
<1>4. Live(s) /\ Fit(s, p.ctrl)
  BY <1>3, RaiseKeeps, ExcValues, KeepsLeads, FitStill DEF Leads
<1> HIDE DEF s
<1> QED
  BY <1>1, <1>4, CaughtFit, FitSits

LEMMA LoopSits ==
    ASSUME SInv, NEW ping \in BOOLEAN, Loop(ping)
    PROVE  Sits(p', p'.ctrl)
<1> DEFINE b == p.updating \/ (ping /\ Sendable(p))
           s == [p EXCEPT !.updating = b]
<1>1. p' = IdleHead(s) /\ IsPlayer(p) /\ Fit(p, p.ctrl) /\ b \in Bools
  BY Booleans DEF Loop, Step, SInv, IInv, Sound
<1> HIDE DEF b
<1>2. IsPlayer(s) /\ Calm(p, s)
  BY <1>1 DEF IsPlayer, Fields, Calm
<1> HIDE DEF s
<1> QED
  BY <1>1, <1>2, CalmFit, IdleHeadFit, FitSits

LEMMA HeadRestartsSits ==
    ASSUME SInv, HeadRestarts
    PROVE  Sits(p', p'.ctrl)
<1>1. p' = [p EXCEPT !.heat = "off", !.wasReset = TRUE] /\ IsPlayer(p)
  BY DEF HeadRestarts, Step, SInv, IInv, Sound
<1>2. Calm(p, p')
  BY <1>1 DEF IsPlayer, Fields, Calm
<1> QED
  BY <1>2, CalmSits

LEMMA TemperatureSits ==
    ASSUME SInv, Temperature
    PROVE  Sits(p', p'.ctrl)
<1>1. PICK v \in {Warmer(p.temp), Cooler(p.temp)} : p' = [p EXCEPT !.temp = v]
  BY DEF Temperature, Step
<1>2. IsPlayer(p)
  BY DEF SInv, IInv, Sound
<1>3. Calm(p, p')
  BY <1>1, <1>2 DEF IsPlayer, Fields, Calm
<1> QED
  BY <1>3, CalmSits

\* A pause before the mainboard is greeted cannot go further than 38.
LEMMA OffPauseFit ==
    ASSUME SInv, p.mb = "off"
    PROVE  Fit(Pause(p, "none"), p.ctrl) /\ IsPlayer(Pause(p, "none"))
<1> DEFINE d == [p EXCEPT !.error = IF @ = "none" THEN "none" ELSE @]
           t == [p EXCEPT !.status = IF @ \in Starting THEN 38 ELSE 50, !.error = "none"]
           u == IF Ready(t) THEN t ELSE PowerOff(t)
           w == SendCmd(u, Cmd("X5"))
<1>1. /\ IsPlayer(p) /\ Fit(p, p.ctrl) /\ p.status \in {4, 38, 128} /\ p.mb = "off"
  BY DEF SInv, IInv, Open, Sound
<1>2. IsPlayer(d) /\ Calm(p, d)
  BY ZenonT(120), <1>1, ErrorValues DEF IsPlayer, Fields, Calm
<1>3. p.status # 4 => Pause(p, "none") = d
  BY <1>1 DEF Pause, Pausing, Paused, Ended
<1> HIDE DEF d
<1>4. CASE p.status = 4
  <2>1. p.status \in Starting /\ p.status \notin Pausing \cup Paused \cup Ended
    BY <1>4 DEF Starting, Pausing, Paused, Ended
  <2>2. IsPlayer(t) /\ t.status = 38 /\ t.mb = "off" /\ Beside(p, t)
    <3>1. 38 \in Statuses /\ "none" \in Errors
      BY StatusValues, ErrorValues
    <3>2. t = [p EXCEPT !.status = 38, !.error = "none"]
      BY <1>1, <2>1 DEF IsPlayer, Fields
    <3> HIDE DEF t
    <3>3. t.status = 38 /\ t.mb = "off"
      BY <1>1, <3>2 DEF IsPlayer, Fields
    <3>4. IsPlayer(t) /\ Beside(p, t)
      BY <1>1, <3>1, <3>2 DEF IsPlayer, Fields, Beside
    <3> QED
      BY <3>3, <3>4
  <2>3. Pause(p, "none") \in {u, HandlePause(u)}
    BY <2>1 DEF Pause
  <2> HIDE DEF t
  <2>4. Fit(t, p.ctrl)
    <3>1. p.stash = "none" /\ p.ctrl # "STASH"
      <4>1. p.stash = "none"
        BY <1>1, OffFree
      <4>2. p.stash # "stashing" /\ p.status \notin Ended
        BY <2>1, <4>1
      <4> QED
        BY <1>1, <4>1, <4>2, NoStash
    <3>2. p.status \notin Ended /\ t.status \notin Ended /\ t.status # 48
      BY <2>1, <2>2, Ends
    <3> QED
      BY <1>1, <2>1, <2>2, <3>1, <3>2, NewStatusFit
  <2>5. IsPlayer(u) /\ Fit(u, p.ctrl) /\ u.mb = "off" /\ u.status = 38
    <3>1. IsPlayer(PowerOff(t)) /\ Calm(t, PowerOff(t))
      BY <2>2, PowerOffKeeps, HalCalm DEF Keeps
    <3>2. Fit(PowerOff(t), p.ctrl) /\ PowerOff(t).mb = "off" /\ PowerOff(t).status = 38
      BY <2>2, <2>4, <3>1, CalmFit DEF Calm
    <3> QED
      BY <2>2, <2>4, <3>1, <3>2
  <2> HIDE DEF u
  <2>6. w = Raise(u, "other")
    BY <2>5 DEF SendCmd, Usable
  <2>7. IsPlayer(w) /\ Fit(w, p.ctrl) /\ w.exc = "other"
    <3> HIDE DEF w
    <3>1. IsPlayer(u)
      BY <2>5
    <3>2. IsPlayer(Raise(u, "other"))
      BY <3>1, RaiseKeeps, ExcValues DEF Keeps
    <3>3. Raise(u, "other").exc = "other"
      BY <3>1 DEF Raise, IsPlayer, Fields
    <3>4. IsPlayer(w) /\ w.exc = "other"
      BY <2>6, <3>2, <3>3
    <3>5. Fit(w, p.ctrl)
      BY <2>5, <2>6, FitStill
    <3> QED
      BY <3>4, <3>5
  <2> HIDE DEF w
  <2>8. HandlePause(u) = w
    <3>1. w.exc # "none"
      BY <2>7
    <3> QED
      BY <2>5, <3>1 DEF HandlePause, Then, w
  <2> QED
    BY <2>3, <2>5, <2>7, <2>8
<1>5. CASE p.status # 4
  <2>1. Fit(d, p.ctrl)
    BY <1>1, <1>2, CalmFit
  <2> QED
    BY <1>2, <1>3, <1>5, <2>1
<1> QED
  BY <1>4, <1>5

LEMMA RequestSits ==
    ASSUME SInv, NEW r \in AllRequests, Request(r)
    PROVE  Sits(p', p'.ctrl)
<1>1. PICK a \in {Pause(p, "none"), Resume(p), SoftAbort(p), SetToolheadOperation(p),
                  SetToolheadStandby(p), SetToolheadHeater(p, "hot"),
                  SetToolheadHeater(p, "off"), LoadFilament(p)} : p' = Quiet(a)
  BY DEF Request, Step, AllRequests
<1>2. IsPlayer(p) /\ Fit(p, p.ctrl) /\ "hot" \in Targets /\ "off" \in Targets
  BY TargetValues DEF SInv, IInv, Sound
<1>3. IsPlayer(a) /\ Fit(a, p.ctrl)
  <2>1. IsPlayer(SoftAbort(p)) /\ Fit(SoftAbort(p), p.ctrl)
    BY <1>2, OffFree, SoftAbortFit
  <2>2. CASE p.mb # "off"
    <3>1. Live(p)
      BY <2>2, LiveNow DEF SInv
    <3>2. /\ Fit(Pause(p, "none"), p.ctrl) /\ IsPlayer(Pause(p, "none"))
          /\ Fit(Resume(p), p.ctrl) /\ IsPlayer(Resume(p))
      BY <1>2, <3>1, PauseFit, PauseLeads, ErrorValues, ResumeFit, ResumeLeads,
         LivePlayer DEF Leads
    <3>3. /\ Fit(SetToolheadOperation(p), p.ctrl) /\ IsPlayer(SetToolheadOperation(p))
          /\ Fit(SetToolheadStandby(p), p.ctrl) /\ IsPlayer(SetToolheadStandby(p))
      BY <1>2, <3>1, SetToolheadOperationFit, SetToolheadOperationLeads,
         SetToolheadStandbyFit, SetToolheadStandbyLeads, LivePlayer DEF Leads
    <3>4. \A v \in {"hot", "off"} :
              Fit(SetToolheadHeater(p, v), p.ctrl) /\ IsPlayer(SetToolheadHeater(p, v))
      BY <1>2, <3>1, SetToolheadHeaterFit, SetToolheadHeaterLeads, LivePlayer DEF Leads
    <3>5. Fit(LoadFilament(p), p.ctrl) /\ IsPlayer(LoadFilament(p))
      BY <1>2, <3>1, LoadFilamentFit, LoadFilamentLeads, LivePlayer DEF Leads
    <3> QED
      BY <1>1, <2>1, <3>2, <3>3, <3>4, <3>5
  <2>3. CASE p.mb = "off"
    <3>1. p.status \in {4, 38, 128}
      BY <2>3 DEF SInv, IInv, Open
    <3>2. Resume(p) = p /\ SetToolheadOperation(p) = p /\ SetToolheadStandby(p) = p
      BY <3>1 DEF Resume, Paused, SetToolheadOperation, SetToolheadStandby
    <3>3. /\ SetToolheadHeater(p, "hot") = p /\ SetToolheadHeater(p, "off") = p
          /\ LoadFilament(p) = p
      <4>1. p.status # 48
        BY <3>1
      <4>2. SetToolheadHeater(p, "hot") = p /\ SetToolheadHeater(p, "off") = p
        BY <4>1 DEF SetToolheadHeater
      <4>3. LoadFilament(p) = p
        BY <4>1 DEF LoadFilament
      <4> QED
        BY <4>2, <4>3
    <3>4. Fit(Pause(p, "none"), p.ctrl) /\ IsPlayer(Pause(p, "none"))
      BY <2>3, OffPauseFit
    <3> QED
      BY <1>1, <1>2, <2>1, <3>2, <3>3, <3>4
  <2> QED
    BY <2>2, <2>3
<1>4. Fit(Quiet(a), p.ctrl)
  BY <1>3, FitStill
<1> QED
  BY <1>1, <1>4, FitSits

-----------------------------------------------------------------------------
(* The theorems. *)

LEMMA NextSits ==
    ASSUME SInv, NoStaleStandby, RoomToReturn, Next
    PROVE  Sits(p', p'.ctrl)
<1>1. CASE MbReady \/ MbExecutes \/ MbCtrl \/ \E k \in 0..BufSize : MbLn(k)
  BY <1>1, MbReadySits, MbExecutesSits, MbCtrlSits, MbLnSits
<1>2. CASE MbRunout \/ MbFails
  BY <1>2, MbRunoutSits, MbFailsSits
<1>3. CASE HeadHello \/ HeadOk \/ HeadEr \/ HeadPong \/ HeadRestarts \/ Temperature
  BY <1>3, HeadHelloSits, HeadOkSits, HeadErSits, HeadPongSits, HeadRestartsSits,
     TemperatureSits
<1>4. CASE LoopOffline \/ \E ping \in BOOLEAN : Loop(ping)
  BY <1>4, LoopOfflineSits, LoopSits
<1>5. CASE \E r \in AllRequests : Request(r)
  BY <1>5, RequestSits
<1> QED
  BY <1>1, <1>2, <1>3, <1>4, <1>5 DEF Next

LEMMA InitSits ==
    ASSUME Init
    PROVE  SInv
<1>1. /\ p.status = 4 /\ p.stash = "none" /\ p.ctrl = "none" /\ p.macro = "none"
      /\ p.allsetCb = "none" /\ p.queue = <<>> /\ p.fin = 0 /\ p.parked = FALSE
  BY DEF Init
<1>2. Way(p.queue, p.fin, p.parked, p.stash)
  <2>1. \A a \in Coming(<<>>, 0) : FALSE
    BY DEF Coming
  <2> QED
    BY <1>1, <2>1 DEF Way
<1>3. Flags(p)
  BY <1>1, Ends DEF Flags
<1>4. Resting(p)
  BY <1>1 DEF Resting
<1>5. Signal(p, p.ctrl)
  BY <1>1 DEF Signal
<1> QED
  BY <1>2, <1>3, <1>4, <1>5, InitInv DEF SInv, Fit

LEMMA NextSInv ==
    ASSUME SInv, NoStaleStandby, RoomToReturn, [Next]_vars
    PROVE  SInv'
<1>1. IInv'
  BY NextInv DEF SInv
<1>2. Sits(p', p'.ctrl)
  <2>1. CASE Next
    BY <2>1, NextSits
  <2>2. CASE UNCHANGED vars
    <3>1. Calm(p, p')
      BY <2>2 DEF vars, Calm
    <3> QED
      BY <3>1, CalmSits
  <2> QED
    BY <2>1, <2>2
<1>3. Fit(p, p.ctrl)'
  BY <1>2 DEF Sits, Fit, Way, Coming, Flags, Resting, Signal
<1> QED
  BY <1>1, <1>3 DEF SInv

\* Where neither gap is met the invariant holds.
THEOREM StashInvariant == Spec /\ [](NoStaleStandby /\ RoomToReturn) => []SInv
<1>1. SInv /\ (NoStaleStandby /\ RoomToReturn) /\ [Next]_vars => SInv'
  BY NextSInv
<1> QED
  BY <1>1, InitSits, PTL DEF Spec

\* Where neither gap is met, nothing of the job is carried out between C2 and C2F, C2F
\* comes only to a parked head and filament is loaded only there (_handle_pause,
\* _on_toolhead_recovered_and_allset, on_mainboard_ctrl): however often the job is
\* paused, resumed, aborted or loses its head while the mainboard is on its way.
THEOREM StashIsKept ==
    Spec /\ [](NoStaleStandby /\ RoomToReturn) => []StashDiscipline
<1>1. SInv => StashDiscipline
  <2> SUFFICES ASSUME SInv, Pending
               PROVE  /\ p.parked => NextCmd.op \in {"X5", "C2F", "load"}
                      /\ ~p.parked => NextCmd.op \notin {"C2F", "load"}
    BY DEF StashDiscipline
  <2> DEFINE n == p.fin + 1
  <2>1. Way(p.queue, p.fin, p.parked, p.stash) /\ p.fin \in Nat /\ Len(p.queue) \in Nat
    BY DEF SInv, IInv, Sound, Ordered, Fit, IsPlayer, CommandSeqs
  <2>2. n \in Coming(p.queue, p.fin) /\ \A a \in Coming(p.queue, p.fin) : ~(a < n)
    BY <2>1 DEF Pending, Coming
  <2>3. NextCmd = p.queue[n]
    BY DEF NextCmd
  <2> HIDE DEF n
  <2>4. p.parked => NextCmd.op \in Rests \cup {"C2F"}
    BY <2>1, <2>2, <2>3 DEF Way
  <2>5. ~p.parked => NextCmd.op \notin {"C2F", "load"}
    BY <2>1, <2>2, <2>3 DEF Way
  <2> QED
    BY <2>4, <2>5 DEF Rests
<1> QED
  BY <1>1, StashInvariant, PTL

\* Where neither gap is met, PAUSED is announced only of a head that is parked, and of a
\* mainboard with nothing of the job left to do (_handle_pause, _toolhead_paused).
THEOREM PausedStandsStill ==
    Spec /\ [](NoStaleStandby /\ RoomToReturn) => []PausedIsStill
<1>1. SInv => PausedIsStill
  <2> SUFFICES ASSUME SInv, p.status = 48
               PROVE  /\ p.parked
                      /\ \A i \in DOMAIN p.queue : p.queue[i].op \in {"X5", "C2", "load"}
    BY DEF PausedIsStill
  <2>1. p.stash = "stashed" /\ Way(p.queue, p.fin, p.parked, p.stash)
    BY DEF SInv, Fit, Flags
  <2>2. DOMAIN p.queue = 1..Len(p.queue)
    BY DEF SInv, IInv, Sound, IsPlayer, CommandSeqs
  <2> QED
    BY <2>1, <2>2 DEF Way, Parking
<1> QED
  BY <1>1, StashInvariant, PTL

-----------------------------------------------------------------------------
(* The supply in a pause. *)

\* What is kept of the supply between any two operators.  The supply is switched on
\* by a head that greets (_on_toolhead_ready).  So that this is no harm in a pause,
\* a head that is powered up in one is under the user's control: pause() cuts the power
\* of a head that is not ready, and only set_toolhead_operation gives it back.
Held(s) ==
    /\ s.status = 48 /\ s.control /\ s.v24 => s.cb = "paused"
    /\ s.status \in {48, 50} /\ s.th = "BOOTING" /\ s.power => ~s.control
    /\ HeadKind = "LASER" => ~s.v24

SupplyInv == IInv /\ Held(p)

-----------------------------------------------------------------------------
(* What leaves the supply alone. *)

Steady(s, t) ==
    /\ t.status = s.status /\ t.control = s.control /\ t.v24 = s.v24
    /\ t.cb = s.cb /\ t.th = s.th /\ t.power = s.power

LEMMA SteadyOn ==
    ASSUME NEW s, NEW t, NEW u, Steady(s, t), Steady(t, u)
    PROVE  Steady(s, u)
BY DEF Steady

LEMMA SteadyHeld ==
    ASSUME NEW s, NEW t, Held(s), Steady(s, t)
    PROVE  Held(t)
BY ZenonT(120) DEF Steady, Held

\* Outside a pause only the laser head matters.
LEMMA Elsewhere ==
    ASSUME NEW t, t.status \notin {48, 50}, HeadKind = "LASER" => ~t.v24
    PROVE  Held(t)
BY ZenonT(120) DEF Held

LEMMA SendCmdSteady ==
    ASSUME NEW s, IsPlayer(s), NEW c
    PROVE  Steady(s, SendCmd(s, c))
BY SendCmdFields DEF Fields, Steady

LEMMA RaiseSteady ==
    ASSUME NEW s, IsPlayer(s), NEW e
    PROVE  Steady(s, Raise(s, e))
BY DEF Raise, IsPlayer, Fields, Steady

LEMMA QuietSteady ==
    ASSUME NEW s, IsPlayer(s)
    PROVE  Steady(s, Quiet(s))
BY DEF Quiet, IsPlayer, Fields, Steady

LEMMA ToHeadSteady ==
    ASSUME NEW s, IsPlayer(s), NEW c
    PROVE  Steady(s, ToHead(s, c))
BY DEF ToHead, Raise, IsPlayer, Fields, Steady

LEMMA CloseSteady ==
    ASSUME NEW s, IsPlayer(s)
    PROVE  Steady(s, Close(s))
BY ZenonT(120) DEF Close, IsPlayer, Fields, Steady

LEMMA PopToHeadSteady ==
    ASSUME NEW s, IsPlayer(s)
    PROVE  Steady(s, PopToHead(s))
<1> DEFINE t == [s EXCEPT !.hq = Tail(@)]
<1>1. CASE s.hq = <<>>
  BY <1>1 DEF PopToHead, Steady
<1>2. CASE s.hq # <<>>
  <2>1. IsPlayer(t) /\ Steady(s, t)
    BY <1>2, HeadSeqsHave DEF IsPlayer, Fields, Steady
  <2> HIDE DEF t
  <2>2. Steady(t, ToHead(t, Head(s.hq)))
    BY <2>1, ToHeadSteady
  <2>3. PopToHead(s) = ToHead(t, Head(s.hq))
    BY <1>2 DEF PopToHead, t
  <2> QED
    BY <2>1, <2>2, <2>3, SteadyOn
<1> QED
  BY <1>1, <1>2

LEMMA SetHeaterSteady ==
    ASSUME NEW s, IsPlayer(s), NEW v \in Targets
    PROVE  Steady(s, SetHeater(s, v))
<1> DEFINE t == [s EXCEPT !.want = IF v = "off" THEN "unset" ELSE v]
<1>1. CASE v = "excess"
  BY <1>1, RaiseSteady DEF SetHeater
<1>2. CASE v # "excess"
  <2>1. (IF v = "off" THEN "unset" ELSE v) \in Wants
    BY <1>2, WantValues
  <2>2. IsPlayer(t) /\ Steady(s, t)
    BY <2>1 DEF IsPlayer, Fields, Steady
  <2> HIDE DEF t
  <2>3. Steady(t, ToHead(t, v))
    BY <2>2, ToHeadSteady
  <2> QED
    BY <1>2, <2>2, <2>3, SteadyOn DEF SetHeater, t
<1> QED
  BY <1>1, <1>2

LEMMA MainboardCloseSteady ==
    ASSUME NEW s, IsPlayer(s)
    PROVE  IsPlayer(MainboardClose(s)) /\ Steady(s, MainboardClose(s))
BY MbValues DEF MainboardClose, IsPlayer, Fields, Steady

LEMMA GiveupSteady ==
    ASSUME NEW s, Live(s)
    PROVE  Steady(s, Giveup(s))
<1> DEFINE x == SendCmd(s, Cmd("X5"))
           y == [x EXCEPT !.allsetCb = "none"]
           g == SendCmd(s, Cmd("G28"))
           h == [g EXCEPT !.probing = FALSE, !.probe = IF @ = "converged" THEN @ ELSE "none"]
<1>1. IsPlayer(s) /\ IsPlayer(x) /\ IsPlayer(g)
  BY Sends, OpNames, LivePlayer DEF Leads
<1>2. Steady(s, x) /\ Steady(s, g)
  BY <1>1, SendCmdSteady
<1> HIDE DEF x, g
<1>3. Steady(x, y)
  BY <1>1 DEF IsPlayer, Fields, Steady
<1>4. Steady(g, h)
  BY <1>1 DEF IsPlayer, Fields, Steady
<1>5. Giveup(s) \in {s, x, y, g, h}
  BY DEF Giveup, Then, x, y, g, h
<1>6. Steady(s, s)
  BY DEF Steady
<1> QED
  BY <1>2, <1>3, <1>4, <1>5, <1>6, SteadyOn

LEMMA StartMacroSteady ==
    ASSUME NEW s, Live(s)
    PROVE  Steady(s, StartMacro(s))
<1> DEFINE m == SendCmd(s, Cmd("macro"))
           q == [s EXCEPT !.probing = TRUE]
           b == SendCmd(q, Cmd("probe"))
           x == SendCmd(s, Cmd("X5"))
           h == SetHeater(x, s.heatTo)
           t == Then(x, LAMBDA u : SetHeater(u, s.heatTo))
           a(w, e) == [w EXCEPT !.allsetCb = e]
<1>1. IsPlayer(s) /\ IsPlayer(m) /\ IsPlayer(x) /\ s.heatTo \in Targets
  BY Sends, OpNames, LivePlayer DEF Leads, IsPlayer
<1>2. IsPlayer(q) /\ Steady(s, q)
  BY ZenonT(120), <1>1, Booleans DEF IsPlayer, Fields, Steady
<1>3. Steady(s, m) /\ Steady(s, x)
  BY <1>1, SendCmdSteady
<1> HIDE DEF m, q, x
<1>4. Steady(q, b)
  BY <1>2, SendCmdSteady
<1>5. Steady(x, h) /\ IsPlayer(h)
  BY <1>1, SetHeaterSteady, SetHeaterKeeps DEF Keeps
<1> HIDE DEF b, h
<1>6. t \in {x, h}
  BY DEF Then, h
<1>7. \A w \in {x, h} : \A e : Steady(w, a(w, e))
  BY <1>1, <1>5 DEF IsPlayer, Fields, Steady
<1>8. StartMacro(s) \in {s, m, b, t} \cup {a(t, e) : e \in {"task", "job"}}
  BY DEF StartMacro, Then, m, q, b, x
<1>9. Steady(s, s)
  BY DEF Steady
<1> HIDE DEF t, a
<1> QED
  BY <1>2, <1>3, <1>4, <1>5, <1>6, <1>7, <1>8, <1>9, SteadyOn

-----------------------------------------------------------------------------
(* Operators that leave the status, the supply and the callback alone in a pause. *)

LEMMA HeldStill ==
    ASSUME NEW s, Held(s), IsPlayer(s)
    PROVE  Held(Quiet(s)) /\ Held(Close(s)) /\ (\A e : Held(Raise(s, e)))
           /\ Held(PopToHead(s)) /\ (\A c : Held(SendCmd(s, c)))
BY QuietSteady, CloseSteady, RaiseSteady, PopToHeadSteady, SendCmdSteady, SteadyHeld

\* The head or its supply is taken away.
LEMMA ToolheadResetHeld ==
    ASSUME NEW s, Held(s), IsPlayer(s)
    PROVE  Held(ToolheadReset(s))
<1> DEFINE t == ToolheadReset(s)
<1>1. /\ t.status = s.status /\ t.control = s.control /\ t.v24 = s.v24
      /\ t.cb = s.cb /\ t.th = "INIT"
  BY DEF ToolheadReset, IsPlayer, Fields
<1> HIDE DEF t
<1>2. t.th # "BOOTING"
  BY <1>1
<1> QED
  BY ZenonT(120), <1>1, <1>2 DEF Held, t

LEMMA PowerOffHeld ==
    ASSUME NEW s, Held(s), IsPlayer(s)
    PROVE  Held(PowerOff(s))
<1> DEFINE t == PowerOff(s)
<1>1. /\ t.status = s.status /\ t.control = s.control /\ t.v24 = s.v24
      /\ t.cb = s.cb /\ t.th = s.th /\ ~t.power
  BY ZenonT(120) DEF PowerOff, IsPlayer, Fields
<1> HIDE DEF t
<1> QED
  BY ZenonT(120), <1>1 DEF Held, t

LEMMA SetStandbyHeld ==
    ASSUME NEW s, IsPlayer(s), Held(s)
    PROVE  Held(SetStandby(s))
<1> DEFINE t == SetStandby(s)
<1>1. /\ t.status = s.status /\ t.control = s.control
      /\ t.cb = s.cb /\ t.th = s.th /\ t.power = s.power
      /\ t.v24 => s.v24
  BY ZenonT(120) DEF SetStandby, IsPlayer, Fields
<1> HIDE DEF t
<1> QED
  BY ZenonT(120), <1>1 DEF Held, t

\* toolhead.standby: the head is told, or its callback is called at once.
LEMMA StandbyHeld ==
    ASSUME NEW s, IsPlayer(s), Held(s), NEW called, Held(called), NEW cb \in Callbacks,
           s.status \notin {48, 50} \/ cb = "paused"
    PROVE  Held(Standby(s, cb, called))
<1> DEFINE t == [s EXCEPT !.hq = Append(@, "standby"), !.cb = cb]
<1>1. Append(s.hq, "standby") \in HeadSeqs
  BY HeadSeqsHave, TargetValues DEF IsPlayer
<1>2. /\ IsPlayer(t) /\ t.status = s.status /\ t.control = s.control /\ t.v24 = s.v24
      /\ t.cb = cb /\ t.th = s.th /\ t.power = s.power
  BY <1>1 DEF IsPlayer, Fields
<1>3. Standby(s, cb, called) \in {called, t, PopToHead(t)}
  BY DEF Standby
<1> HIDE DEF t
<1>4. Held(t)
  BY ZenonT(120), <1>2 DEF Held
<1> QED
  BY <1>2, <1>3, <1>4, HeldStill

-----------------------------------------------------------------------------
(* Ending. *)

\* Terminate is called when the job has ended, or is running and about to.
LEMMA TerminateHeld ==
    ASSUME NEW s, IsPlayer(s), HeadKind = "LASER" => ~s.v24
    PROVE  HeadKind = "LASER" => ~Terminate(s).v24
<1> DEFINE u == [s EXCEPT !.macro = "none", !.pausedMacro = "none", !.power = @ \/ ~Ready(s)]
           t == MainboardClose(u)
           v == Standby(t, "close", Close(t))
<1>1. SUFFICES ASSUME HeadKind = "LASER"
               PROVE  ~Terminate(s).v24
  OBVIOUS
<1>2. IsPlayer(u) /\ u.v24 = s.v24
  <2>1. (s.power \/ ~Ready(s)) \in Bools
    BY Booleans
  <2> QED
    BY ZenonT(120), <2>1, MacroValues, LoadValues DEF IsPlayer, Fields
<1> HIDE DEF u
<1>3. IsPlayer(t) /\ t.v24 = u.v24
  BY <1>2, MainboardCloseSteady DEF Steady
<1> HIDE DEF t
<1>4. Close(t).v24 = t.v24
  BY <1>3, CloseSteady DEF Steady
<1>5. Terminate(s) = Close(t)
  BY <1>1 DEF Terminate, Standby, SetStandby, u, t
<1> QED
  BY ZenonT(120), <1>1, <1>2, <1>3, <1>4, <1>5

LEMMA AbortHeld ==
    ASSUME NEW s, IsPlayer(s), Held(s), NEW e \in Errors
    PROVE  Held(Abort(s, e)) /\ IsPlayer(Abort(s, e))
<1> DEFINE u == [s EXCEPT !.status = 128, !.error = e]
           t == Terminate(u)
<1>1. IsPlayer(u) /\ u.status = 128 /\ u.v24 = s.v24
  BY StatusValues DEF IsPlayer, Fields
<1>2. HeadKind = "LASER" => ~u.v24
  BY ZenonT(120), <1>1 DEF Held
<1> HIDE DEF u
<1>3. IsPlayer(t) /\ t.status = 128
  BY <1>1, TerminateDoes DEF Same, IsPlayer, Fields
<1>4. HeadKind = "LASER" => ~t.v24
  BY <1>1, <1>2, TerminateHeld
<1> HIDE DEF t
<1>5. Held(t)
  BY <1>3, <1>4, Elsewhere
<1>6. Held(Close(t)) /\ IsPlayer(Close(t))
  BY <1>3, <1>5, HeldStill, CloseKeeps DEF Keeps
<1>7. Abort(s, e) \in {s, t, Close(t)}
  BY DEF Abort, u, t
<1> QED
  BY <1>3, <1>5, <1>6, <1>7

LEMMA OnCompletedHeld ==
    ASSUME NEW s, IsPlayer(s), Held(s)
    PROVE  Held(OnCompleted(s))
<1> DEFINE t == Terminate(s)
           u == [t EXCEPT !.status = 64]
<1>1. HeadKind = "LASER" => ~s.v24
  BY ZenonT(120) DEF Held
<1>2. IsPlayer(t) /\ (HeadKind = "LASER" => ~t.v24)
  BY <1>1, TerminateDoes, TerminateHeld
<1> HIDE DEF t
<1>3. u.status = 64 /\ u.v24 = t.v24
  BY <1>2 DEF IsPlayer, Fields
<1> HIDE DEF u
<1>4. Held(u)
  BY <1>2, <1>3, Elsewhere
<1> QED
  BY <1>4 DEF OnCompleted, t, u

-----------------------------------------------------------------------------
(* Pausing and resuming. *)

LEMMA OnMainboardReadyHeld ==
    ASSUME NEW s, IsPlayer(s), Held(s), s.status \notin {48, 50}
    PROVE  Held(OnMainboardReady(s))
<1> DEFINE t == PowerOn(s)
           u == ToolheadBootstrap(t)
<1>1. IsPlayer(t) /\ t.status = s.status /\ t.v24 = s.v24
  BY ZenonT(120), Booleans, PowerOnKeeps DEF PowerOn, IsPlayer, Fields, Keeps
<1> HIDE DEF t
<1>2. u.status = t.status /\ u.v24 = t.v24
  BY <1>1 DEF ToolheadBootstrap, IsPlayer, Fields
<1> HIDE DEF u
<1>3. HeadKind = "LASER" => ~s.v24
  BY ZenonT(120) DEF Held
<1>4. u.status \notin {48, 50} /\ (HeadKind = "LASER" => ~u.v24)
  BY ZenonT(120), <1>1, <1>2, <1>3
<1> QED
  BY <1>4, Elsewhere DEF OnMainboardReady, t, u

\* The commands the player sends of its own.
LEMMA SendOpPlayer ==
    ASSUME NEW s, IsPlayer(s), NEW o \in Ops
    PROVE  IsPlayer(SendCmd(s, Cmd(o)))
BY CmdIs, SendCmdPlayer

\* A pause that is left cannot break what is said of one.
LEMMA ResumeHeld ==
    ASSUME NEW s, Live(s), HeadKind = "LASER" => ~s.v24
    PROVE  \/ Resume(s) = s
           \/ Held(Resume(s)) /\ Resume(s).status \in {6, 18}
<1> DEFINE t == [s EXCEPT !.status = (@ - 32) + 2, !.error = "none"]
           u == SendCmd(t, Cmd("X5"))
           w == [u EXCEPT !.mb = "ready"]
           r == OnMainboardReady(w)
<1>1. CASE s.status \notin Paused \/ s.pausedMacro # "none"
  BY <1>1 DEF Resume
<1>2. CASE s.status \in Paused /\ s.pausedMacro = "none"
  <2>1. IsPlayer(s) /\ s.status \in {36, 48}
    BY <1>2, LivePlayer DEF Paused
  <2>2. (s.status - 32) + 2 \in {6, 18} /\ (s.status - 32) + 2 \in Statuses
    BY <2>1, StatusValues
  <2>3. IsPlayer(t) /\ t.status \in {6, 18} /\ t.v24 = s.v24
    BY ZenonT(120), <2>1, <2>2, ErrorValues DEF IsPlayer, Fields
  <2> HIDE DEF t
  <2>4. Steady(t, u)
    BY <2>3, SendCmdSteady
  <2>5. IsPlayer(u)
    BY <2>3, ExcValues, MbValues, SendOpPlayer, OpNames
  <2> HIDE DEF u
  <2>6. IsPlayer(w) /\ w.status = u.status /\ w.v24 = u.v24
    BY <2>5, MbValues DEF IsPlayer, Fields
  <2> HIDE DEF w
  <2>7. /\ u.status \in {6, 18} /\ w.status \in {6, 18}
        /\ HeadKind = "LASER" => ~u.v24
        /\ HeadKind = "LASER" => ~w.v24
    BY ZenonT(120), <2>3, <2>4, <2>6 DEF Steady
  <2>8. u.status \notin {48, 50} /\ w.status \notin {48, 50}
    BY <2>7
  <2>9. Held(u) /\ Held(w)
    BY <2>7, <2>8, Elsewhere
  <2>10. Held(r)
    BY <2>6, <2>8, <2>9, OnMainboardReadyHeld
  <2>11. r.status = w.status
    BY <2>6, OnMainboardReadyKeeps DEF Keeps, Same
  <2> HIDE DEF r
  <2>12. Resume(s) \in {u, r}
    BY <1>2 DEF Resume, Then, t, u, w, r
  <2> QED
    BY <2>7, <2>9, <2>10, <2>11, <2>12
<1> QED
  BY <1>1, <1>2

\* BaseExecutor.paused: at 48 the supply is still to be switched off, so this operator
\* does not keep Held by itself.
LEMMA PausedNowHeld ==
    ASSUME NEW s, Live(s), Held(s), s.status \in Pausing
    PROVE  \/ Held(PausedNow(s))
           \/ /\ s.status = 50 /\ PausedNow(s).exc = s.exc
              /\ Held(SetStandby(PausedNow(s)))
<1> DEFINE t == [s EXCEPT !.status = IF @ \in Starting THEN 36 ELSE 48]
           z == SetStandby(t)
<1>1. IsPlayer(s) /\ s.status \in {38, 50} /\ HeadKind \in {"EXTRUDER", "LASER"}
  BY LivePlayer, ScenarioType DEF Pausing, Live, Sound
<1>2. /\ IsPlayer(t) /\ Same(s, [t EXCEPT !.status = s.status])
      /\ t.status = IF s.status \in Starting THEN 36 ELSE 48
  BY <1>1, StatusValues DEF IsPlayer, Fields, Same
<1>3. /\ t.control = s.control /\ t.v24 = s.v24 /\ t.cb = s.cb /\ t.th = s.th
      /\ t.power = s.power /\ t.exc = s.exc
  BY <1>1 DEF IsPlayer, Fields
<1>4. Live(t)
  <2> HIDE DEF t
  <2>1. Leads(s, t)
    BY <1>1, <1>2, NewStatus, Ends DEF Starting
  <2> QED
    BY <2>1 DEF Leads
<1> HIDE DEF t
<1>5. \/ s.status = 38 /\ t.status = 36
      \/ s.status = 50 /\ t.status = 48
  BY <1>1, <1>2 DEF Starting
<1>6. HeadKind = "LASER" => ~t.v24
  BY ZenonT(120), <1>3 DEF Held
<1>7. t.status = 36 => Held(t)
  <2>1. t.status = 36 => t.status \notin {48, 50}
    OBVIOUS
  <2> QED
    BY <2>1, <1>6, Elsewhere
<1>8. s.status = 50 => Held(z)
  <2>1. /\ z.control = t.control /\ z.th = t.th /\ z.power = t.power /\ ~z.v24
    BY ZenonT(120), <1>1, <1>2, <1>6 DEF SetStandby, IsPlayer, Fields
  <2> HIDE DEF z
  <2>2. s.status = 50 /\ s.th = "BOOTING" /\ s.power => ~s.control
    BY ZenonT(120) DEF Held
  <2> QED
    BY ZenonT(120), <2>1, <2>2, <1>3 DEF Held
<1>9. Resume(t) = t \/ Held(Resume(t))
  BY <1>4, <1>6, ResumeHeld
<1>10. PausedNow(s) \in {t, Resume(t)}
  BY DEF PausedNow, t
<1> QED
  BY <1>3, <1>5, <1>7, <1>8, <1>9, <1>10 DEF z

LEMMA ToolheadPausedHeld ==
    ASSUME NEW s, Live(s), Held(s), s.exc = "none"
    PROVE  Held(ToolheadPaused(s))
<1> DEFINE t == PausedNow(s)
<1>1. CASE s.status \notin {48, 50}
  BY <1>1 DEF ToolheadPaused
<1>2. CASE s.status = 48
  <2>1. ToolheadPaused(s) = SetStandby(s)
    BY <1>2 DEF ToolheadPaused, Then
  <2> QED
    BY <2>1, SetStandbyHeld, LivePlayer
<1>3. CASE s.status = 50
  <2>1. IsPlayer(t)
    BY <1>3, PausedNowLeads, LivePlayer DEF Leads, Pausing
  <2>2. Held(t) \/ (t.exc = "none" /\ Held(SetStandby(t)))
    BY <1>3, PausedNowHeld DEF Pausing
  <2>3. ToolheadPaused(s) = Then(t, SetStandby)
    BY <1>3 DEF ToolheadPaused
  <2> HIDE DEF t
  <2> QED
    BY <2>1, <2>2, <2>3, SetStandbyHeld DEF Then
<1> QED
  BY <1>1, <1>2, <1>3

LEMMA PauseToolheadHeld ==
    ASSUME NEW s, Live(s), Held(s), s.exc = "none"
    PROVE  Held(PauseToolhead(s))
<1> DEFINE t == [s EXCEPT !.cb = "paused"]
<1>1. Held(ToolheadPaused(s)) /\ IsPlayer(s)
  BY ToolheadPausedHeld, LivePlayer
<1>2. Held(Standby(s, "paused", ToolheadPaused(s)))
  BY <1>1, StandbyHeld, CallbackValues
<1>3. /\ t.status = s.status /\ t.control = s.control /\ t.v24 = s.v24 /\ t.th = s.th
      /\ t.power = s.power /\ t.cb = "paused"
  BY <1>1 DEF IsPlayer, Fields
<1> HIDE DEF t
<1>4. Held(t)
  BY ZenonT(120), <1>3 DEF Held
<1>5. PauseToolhead(s) \in {ToolheadPaused(s), Standby(s, "paused", ToolheadPaused(s)), t}
  BY DEF PauseToolhead, t
<1> QED
  BY <1>1, <1>2, <1>4, <1>5

LEMMA GiveupHeld ==
    ASSUME NEW s, Live(s), Held(s)
    PROVE  Held(Giveup(s))
BY GiveupSteady, SteadyHeld

LEMMA StartMacroHeld ==
    ASSUME NEW s, Live(s), Held(s)
    PROVE  Held(StartMacro(s))
BY StartMacroSteady, SteadyHeld

LEMMA StashHeld ==
    ASSUME NEW s, Live(s), Held(s)
    PROVE  Held(Stash(s))
<1> DEFINE g == Giveup(s)
           a == [g EXCEPT !.stash = "stashing"]
           c == SendCmd(a, Cmd("C2"))
<1>1. Held(g) /\ Live(g)
  BY GiveupHeld, GiveupLeads DEF Leads
<1> HIDE DEF g
<1>2. IsPlayer(a) /\ Steady(g, a)
  BY <1>1, LivePlayer, StashValues DEF IsPlayer, Fields, Steady
<1> HIDE DEF a
<1>3. Held(c)
  BY <1>1, <1>2, SteadyHeld, HeldStill
<1>4. g.exc = "none" => Held(PauseToolhead(g))
  BY <1>1, PauseToolheadHeld
<1>5. Stash(s) \in {g, c} \/ (g.exc = "none" /\ Stash(s) = PauseToolhead(g))
  BY DEF Stash, Then, g, a, c
<1> QED
  BY <1>1, <1>3, <1>4, <1>5

LEMMA HandlePauseHeld ==
    ASSUME NEW s, Live(s), Held(s)
    PROVE  Held(HandlePause(s))
<1> DEFINE u == SendCmd(s, Cmd("X5"))
<1>1. Held(u) /\ Live(u) /\ u.status = s.status
  BY HeldStill, Sends, OpNames, LivePlayer, SendCmdSteady DEF Leads, Steady
<1> HIDE DEF u
<1>2. s.status = 38 => Held(PausedNow(u))
  BY <1>1, PausedNowHeld DEF Pausing
<1>3. HandlePause(s) \in {s, u, Stash(s)} \/ (s.status = 38 /\ HandlePause(s) = PausedNow(u))
  BY DEF HandlePause, Then, u
<1> QED
  BY <1>1, <1>2, <1>3, StashHeld

\* pause() cuts the power of a head that is not ready.
LEMMA PauseHeld ==
    ASSUME NEW s, Live(s), Held(s), NEW e \in Errors
    PROVE  Held(Pause(s, e))
<1> DEFINE d == [s EXCEPT !.error = IF @ = "none" THEN e ELSE @]
           t == [s EXCEPT !.status = IF @ \in Starting THEN 38 ELSE 50, !.error = e]
           u == IF Ready(t) THEN t ELSE PowerOff(t)
<1>1. CASE s.status \in Pausing \cup Paused \cup Ended
  <2>1. Steady(s, d)
    BY LivePlayer DEF IsPlayer, Fields, Steady
  <2>2. Pause(s, e) = d
    BY <1>1 DEF Pause
  <2> HIDE DEF d
  <2> QED
    BY <2>1, <2>2, SteadyHeld
<1>2. CASE s.status \notin Pausing \cup Paused \cup Ended
  <2>1. IsPlayer(s) /\ s.status \notin Ended
    BY <1>2, LivePlayer
  <2>2. /\ IsPlayer(t) /\ Same(s, [t EXCEPT !.status = s.status])
        /\ t.status = IF s.status \in Starting THEN 38 ELSE 50
    BY <2>1, StatusValues DEF IsPlayer, Fields, Same
  <2>3. t.control = s.control /\ t.v24 = s.v24 /\ t.th = s.th
    BY <2>1 DEF IsPlayer, Fields
  <2> HIDE DEF t
  <2>4. Live(t)
    BY <2>1, <2>2, NewStatus DEF Starting, Leads
  <2>5. Live(u)
    BY <2>4, PowerOffKeeps, KeepsLeads, LivePlayer DEF Leads
  <2>6. /\ u.status = t.status /\ u.v24 = t.v24
        /\ u.th = "RUNNING" \/ ~u.power
    BY ZenonT(120), <2>2 DEF Ready, PowerOff, IsPlayer, Fields
  <2> HIDE DEF u
  <2>7. u.status # 48
    BY <2>2, <2>6
  <2>8. u.th = "BOOTING" => ~u.power
    BY <2>6
  <2>9. HeadKind = "LASER" => ~s.v24
    BY ZenonT(120) DEF Held
  <2>10. Held(u)
    BY ZenonT(120), <2>3, <2>6, <2>7, <2>8, <2>9 DEF Held
  <2>11. Pause(s, e) \in {u, HandlePause(u)}
    BY <1>2 DEF Pause, t, u
  <2> QED
    BY <2>5, <2>10, <2>11, HandlePauseHeld
<1> QED
  BY <1>1, <1>2

-----------------------------------------------------------------------------
(* Running. *)

LEMMA FeedHeld ==
    ASSUME NEW s, Live(s), Held(s)
    PROVE  Held(Feed(s))
<1>1. IsPlayer(s) /\ Held(Abort(s, "other"))
  BY LivePlayer, AbortHeld, ErrorValues
<1>2. Feed(s) \in {s, Abort(s, "other")} \/ \E n : Feed(s) = [s EXCEPT !.fed = n]
  BY DEF Feed
<1>3. ASSUME NEW n
      PROVE  Held([s EXCEPT !.fed = n])
  <2>1. Steady(s, [s EXCEPT !.fed = n])
    BY <1>1 DEF IsPlayer, Fields, Steady
  <2> QED
    BY <2>1, SteadyHeld
<1> QED
  BY <1>1, <1>2, <1>3

LEMMA DrainOneHeld ==
    ASSUME NEW s, Live(s), Held(s), s.exc = "none", s.next <= s.fed
    PROVE  Held(DrainOne(s).s)
<1> DEFINE i == s.next
           t == [s EXCEPT !.next = i + 1]
           h == [t EXCEPT !.did = Append(@, i)]
           w == [h EXCEPT !.macro = "job heat", !.heatTo = Target(i)]
           headFree == BufferedCmdSize(s) = 0 /\ Sendable(s)
<1>1. IsPlayer(s) /\ s.next \in Nat
  BY LivePlayer DEF IsPlayer
<1>2. IsPlayer(t) /\ Held(t)
  <2>1. IsPlayer(t) /\ Steady(s, t)
    BY <1>1 DEF IsPlayer, Fields, Steady
  <2> QED
    BY <2>1, SteadyHeld
<1>7. Kind(i) \in Heats => Target(i) \in Targets
  <2>1. s.next \in 1..Home
    BY LivePlayer, ScenarioType DEF Live, Sound, Reading, IsPlayer
  <2> QED
    BY <2>1, TargetType DEF Live, Sound
<1>3. ASSUME Kind(i) \in {"fan"} \cup Heats, headFree
      PROVE  /\ Held(ToHead(h, "fan"))
             /\ Kind(i) \in Heats => Held(SetHeater(h, Target(i))) /\ Held(StartMacro(w))
  <2>1. [s EXCEPT !.next = s.next + 1, !.did = Append(@, s.next)] = h
    BY <1>1 DEF IsPlayer, Fields
  <2>2. Live(h)
    BY <1>1, <1>3, <2>1, EmptyBuffer, HeadTaken DEF Carried, Leads
  <2>3. Steady(t, h)
    BY <1>2 DEF IsPlayer, Fields, Steady
  <2> HIDE DEF h
  <2>4. Held(h) /\ IsPlayer(h)
    BY <1>2, <2>2, <2>3, SteadyHeld, LivePlayer
  <2>7. SUFFICES ASSUME Kind(i) \in Heats
                 PROVE  Held(SetHeater(h, Target(i))) /\ Held(StartMacro(w))
    BY <2>4, ToHeadSteady, SteadyHeld
  <2>8. Held(SetHeater(h, Target(i)))
    BY <1>7, <2>4, <2>7, SetHeaterSteady, SteadyHeld
  <2>5. Keeps(h, w) /\ Steady(h, w)
    BY ZenonT(120), <1>7, <2>4, <2>7, MacroValues DEF IsPlayer, Fields, Keeps, Same, Steady
  <2> HIDE DEF w
  <2>6. Live(w) /\ Held(w)
    BY <2>2, <2>4, <2>5, KeepsLeads, SteadyHeld DEF Leads
  <2> QED
    BY <2>6, <2>8, StartMacroHeld
<1>4. ASSUME Kind(i) = "pause"
      PROVE  Held(Pause(t, "other"))
  <2>1. Live(t)
    BY <1>4, Skipped DEF Carried, Heats, Leads
  <2> QED
    BY <2>1, <1>2, PauseHeld, ErrorValues
<1>5. Held(Abort(t, "other")) /\ Held(SendCmd(t, JobCmd(i)))
  BY <1>2, AbortHeld, ErrorValues, HeldStill
<1>6. \/ DrainOne(s).s \in {s, SendCmd(t, JobCmd(i)), Abort(t, "other")}
      \/ headFree /\ Kind(i) = "fan" /\ DrainOne(s).s = ToHead(h, "fan")
      \/ headFree /\ Kind(i) = "heat" /\ DrainOne(s).s = SetHeater(h, Target(i))
      \/ headFree /\ Kind(i) = "wait" /\ DrainOne(s).s = StartMacro(w)
      \/ Kind(i) = "pause" /\ DrainOne(s).s = Pause(t, "other")
  <2> HIDE DEF h, w
  <2>1. DrainOne(s) =
        CASE Kind(i) = "move" /\ BufferedCmdSize(s) < BufSize ->
                [s |-> SendCmd(t, JobCmd(i)), go |-> TRUE]
          [] Kind(i) = "fan" /\ headFree -> [s |-> ToHead(h, "fan"), go |-> TRUE]
          [] Kind(i) = "heat" /\ headFree -> [s |-> SetHeater(h, Target(i)), go |-> TRUE]
          [] Kind(i) = "wait" /\ headFree -> [s |-> StartMacro(w), go |-> FALSE]
          [] Kind(i) = "pause" -> [s |-> Pause(t, "other"), go |-> FALSE]
          [] Kind(i) = "abort" -> [s |-> Abort(t, "other"), go |-> FALSE]
          [] OTHER -> [s |-> s, go |-> FALSE]
    BY DEF DrainOne, h, w
  <2> HIDE DEF t, headFree, i
  <2> QED
    BY <2>1
<1> HIDE DEF t, h, w, headFree, i
<1>8. "heat" \in Heats /\ "wait" \in Heats
  BY DEF Heats
<1> QED
  BY <1>3, <1>4, <1>5, <1>6, <1>8

LEMMA DrainHeld ==
    ASSUME NEW s, Live(s), Held(s)
    PROVE  Held(Drain(s))
<1> DEFINE N == CmdQueueLen(s)
<1>1. N \in Nat
  BY LivePlayer DEF IsPlayer, Live, Sound, Reading, CmdQueueLen
<1>2. PICK f : Turns(s, f, N) /\ Drain(s) = f[N].s
  BY <1>1, DrainTurns
<1> HIDE DEF N
<1> DEFINE B == {n \in Nat : n <= N => Live(f[n].s) /\ Held(f[n].s)}
<1>3. 0 \in B
  BY <1>2 DEF Turns
<1>4. ASSUME NEW n \in Nat, n \in B
      PROVE  n + 1 \in B
  <2>1. SUFFICES ASSUME n + 1 <= N PROVE Live(f[n + 1].s) /\ Held(f[n + 1].s)
    OBVIOUS
  <2> DEFINE a == f[n]
  <2>2. Live(a.s) /\ Held(a.s)
    BY <1>1, <1>4, <2>1
  <2>3. f[n + 1] = Turn(a)
    <3>1. n + 1 \in 1..N /\ (n + 1) - 1 = n
      BY <1>1, <2>1
    <3> QED
      BY <1>2, <3>1 DEF Turns
  <2> HIDE DEF a
  <2>4. ASSUME CmdQueueLen(a.s) > 0, a.s.exc = "none"
        PROVE  Live(DrainOne(a.s).s) /\ Held(DrainOne(a.s).s)
    <3>1. a.s.next <= a.s.fed
      BY <2>2, <2>4, LivePlayer DEF IsPlayer, CmdQueueLen
    <3> QED
      BY <2>2, <2>4, <3>1, DrainOneHeld, DrainOneLeads DEF Leads
  <2> QED
    BY <2>2, <2>3, <2>4 DEF Turn
<1>5. Nat \subseteq B
  <2> HIDE DEF B
  <2> QED
    BY <1>3, <1>4, Induct
<1> QED
  BY <1>1, <1>2, <1>5

LEMMA FireHeld ==
    ASSUME NEW s, Live(s), Held(s)
    PROVE  Held(Fire(s))
<1> DEFINE t == Feed(s)
<1>1. Held(t) /\ Held(Drain(s)) /\ Held(OnCompleted(s))
  BY FeedHeld, DrainHeld, OnCompletedHeld, LivePlayer
<1>2. s.status = 16 => Held(Drain(t))
  BY <1>1, FeedLeads, DrainHeld DEF Leads
<1> HIDE DEF t
<1>3. \/ Fire(s) \in {s, t, Drain(s), OnCompleted(s)}
      \/ s.status = 16 /\ Fire(s) = Drain(t)
  BY DEF Fire, t
<1> QED
  BY <1>1, <1>2, <1>3

LEMMA ClearMacroHeld ==
    ASSUME NEW s, Live(s), Held(s)
    PROVE  Held(ClearMacro(s))
<1> DEFINE t == [s EXCEPT !.macro = "none"]
<1>1. Keeps(s, t) /\ Steady(s, t)
  BY ZenonT(120), LivePlayer, MacroValues DEF IsPlayer, Fields, Keeps, Same, Steady
<1> HIDE DEF t
<1>2. Live(t) /\ Held(t)
  BY <1>1, KeepsLeads, SteadyHeld DEF Leads
<1> QED
  BY <1>2, FireHeld DEF ClearMacro, t

LEMMA ExecTaskHeld ==
    ASSUME NEW s, Live(s), Held(s)
    PROVE  Held(ExecTask(s))
<1> DEFINE u == [s EXCEPT !.macro = Head(s.tasks), !.tasks = Tail(@),
                          !.heatTo = "hot", !.probing = FALSE, !.probe = "none",
                          !.round = 0]
<1>1. CASE s.tasks = <<>>
  BY <1>1, ClearMacroHeld DEF ExecTask, ClearMacro
<1>2. CASE s.tasks # <<>>
  <2>1. IsPlayer(s) /\ Head(s.tasks) \in Macros /\ Tail(s.tasks) \in TaskSeqs
    BY <1>2, TaskSeqsHave, LivePlayer DEF IsPlayer
  <2>2. Keeps(s, u)
    BY ZenonT(120), <2>1, TargetValues, Booleans, ProbeValues, RoundValues
       DEF IsPlayer, Fields, Keeps, Same
  <2>3. Steady(s, u)
    BY <2>1 DEF IsPlayer, Fields, Steady
  <2> HIDE DEF u
  <2>4. Live(u) /\ Held(u)
    BY <2>2, <2>3, KeepsLeads, SteadyHeld DEF Leads
  <2> QED
    BY <1>2, <2>4, StartMacroHeld DEF ExecTask, u
<1> QED
  BY <1>1, <1>2

LEMMA StartedHeld ==
    ASSUME NEW s, Live(s), Held(s), s.status \notin Ended
    PROVE  Held(Started(s))
<1> DEFINE t == [s EXCEPT !.status = 16, !.tasks = InitMacros]
<1>1. IsPlayer(s) /\ InitMacros \in TaskSeqs
  BY LivePlayer, ScenarioType DEF Live, Sound
<1>2. /\ IsPlayer(t) /\ Same(s, [t EXCEPT !.status = s.status]) /\ t.status = 16
      /\ t.v24 = s.v24
  BY <1>1, StatusValues DEF IsPlayer, Fields, Same
<1> HIDE DEF t
<1>3. Live(t)
  BY <1>2, NewStatus DEF Starting, Leads
<1>4. HeadKind = "LASER" => ~s.v24
  BY ZenonT(120) DEF Held
<1>5. Held(t)
  <2>1. t.status \notin {48, 50}
    BY <1>2
  <2> QED
    BY <1>2, <1>4, <2>1, Elsewhere
<1> QED
  BY <1>3, <1>5, ExecTaskHeld DEF Started, t

LEMMA ResumedHeld ==
    ASSUME NEW s, Live(s), Held(s)
    PROVE  Held(Resumed(s))
<1> DEFINE t == [s EXCEPT !.status = IF @ \in Starting THEN 4 ELSE 16]
<1>1. CASE s.status \in Ended
  BY <1>1 DEF Resumed
<1>2. CASE s.status \notin Ended
  <2>1. /\ IsPlayer(t) /\ Same(s, [t EXCEPT !.status = s.status])
        /\ t.status = IF s.status \in Starting THEN 4 ELSE 16
        /\ t.v24 = s.v24
    BY LivePlayer, StatusValues DEF IsPlayer, Fields, Same
  <2> HIDE DEF t
  <2>2. Live(t)
    BY <1>2, <2>1, NewStatus DEF Starting, Leads
  <2>3. HeadKind = "LASER" => ~s.v24
    BY ZenonT(120) DEF Held
  <2>4. t.status \notin {48, 50}
    BY <2>1
  <2>5. Held(t)
    BY <2>1, <2>3, <2>4, Elsewhere
  <2>6. Resumed(s) \in {StartMacro(t), Fire(t)}
    BY <1>2 DEF Resumed, t
  <2> QED
    BY <2>2, <2>5, <2>6, StartMacroHeld, FireHeld
<1> QED
  BY <1>1, <1>2

\* A field that Held does not read.
LEMMA AsideHeld ==
    ASSUME NEW s, IsPlayer(s), Held(s), NEW e
    PROVE  /\ Held([s EXCEPT !.stash = e]) /\ Held([s EXCEPT !.allsetCb = e])
           /\ Held([s EXCEPT !.probe = e]) /\ Held([s EXCEPT !.pausedMacro = e])
           /\ Held([s EXCEPT !.macro = e])
<1>1. /\ Steady(s, [s EXCEPT !.stash = e]) /\ Steady(s, [s EXCEPT !.allsetCb = e])
      /\ Steady(s, [s EXCEPT !.probe = e]) /\ Steady(s, [s EXCEPT !.pausedMacro = e])
      /\ Steady(s, [s EXCEPT !.macro = e])
  BY DEF IsPlayer, Fields, Steady
<1> QED
  BY <1>1, SteadyHeld

LEMMA OnAllsetHeld ==
    ASSUME NEW s, Live(s), Held(s)
    PROVE  Held(OnAllset(s))
<1> DEFINE r == Resumed(s)
           t == [s EXCEPT !.stash = "none"]
           u == SendCmd(t, Cmd("C2F"))
<1>1. Held(r) /\ Live(r) /\ (s.status = 6 => r.status = 4)
  BY ResumedHeld, ResumedLeads DEF Leads
<1>2. s.status = 4 => Held(Started(s))
  BY StartedHeld, Ends
<1>3. s.status = 6 => Held(Started(r))
  BY <1>1, StartedHeld, Ends
<1>4. IsPlayer(t) /\ Held(t)
  <2>1. IsPlayer(t)
    BY LivePlayer, StashValues DEF IsPlayer, Fields
  <2>2. Held(t)
    BY LivePlayer, AsideHeld
  <2> QED
    BY <2>1, <2>2
<1> HIDE DEF t
<1>5. Held(u)
  BY <1>4, HeldStill
<1> HIDE DEF r, u
<1>6. \/ OnAllset(s) \in {s, r, u}
      \/ s.status = 4 /\ OnAllset(s) = Started(s)
      \/ s.status = 6 /\ OnAllset(s) = Started(r)
  BY DEF OnAllset, Then, r, t, u
<1> QED
  BY <1>1, <1>2, <1>3, <1>5, <1>6

LEMMA RecoveredHeld ==
    ASSUME NEW s, Live(s), Held(s)
    PROVE  Held(Recovered(s))
<1> DEFINE x == SendCmd(s, Cmd("X5"))
<1>1. IsPlayer(x) /\ Held(x)
  BY Sends, OpNames, LivePlayer, HeldStill DEF Leads
<1> HIDE DEF x
<1>2. Held([x EXCEPT !.allsetCb = "resume"])
  BY <1>1, AsideHeld
<1>3. Recovered(s) \in {OnAllset(s), x, [x EXCEPT !.allsetCb = "resume"]}
  BY DEF Recovered, Then, x
<1> QED
  BY <1>1, <1>2, <1>3, OnAllsetHeld

\* A head that greets in a pause was powered up by the user, who has control of it.
LEMMA OnToolheadReadyHeld ==
    ASSUME NEW s, Live(s), Held(s), s.th = "RUNNING", s.status \in {48, 50} => ~s.control
    PROVE  Held(OnToolheadReady(s))
<1> DEFINE t == SetOperating(s)
           r == [t EXCEPT !.hq = IF t.want = "unset" THEN @ ELSE Append(@, t.want),
                          !.cb = "recovered"]
<1>1. IsPlayer(s) /\ Live(t) /\ IsPlayer(t) /\ t.th # "BOOTING"
      /\ (t.status \in {48, 50} => ~t.control)
  <2>1. Live(t) /\ IsPlayer(t) /\ IsPlayer(s)
    BY SetOperatingKeeps, KeepsLeads, LivePlayer DEF Leads
  <2>2. t.status = s.status /\ t.control = s.control /\ t.th = s.th
    BY <2>1 DEF SetOperating, IsPlayer, Fields
  <2> HIDE DEF t
  <2>3. t.th # "BOOTING"
    BY <2>2
  <2> QED
    BY ZenonT(120), <2>1, <2>2, <2>3
<1>2. HeadKind = "LASER" => ~t.v24
  BY DEF Held, SetOperating
<1> HIDE DEF t
<1>3. Held(t)
  BY ZenonT(120), <1>1, <1>2 DEF Held
<1>4. (IF t.want = "unset" THEN t.hq ELSE Append(t.hq, t.want)) \in HeadSeqs
  BY <1>1, HeadSeqsHave, WantValues DEF IsPlayer
<1>5. /\ r.status = t.status /\ r.control = t.control /\ r.v24 = t.v24 /\ r.th = t.th
      /\ r.power = t.power /\ IsPlayer(r)
  BY <1>1, <1>4, CallbackValues DEF IsPlayer, Fields
<1> HIDE DEF r
<1>6. Held(r)
  BY ZenonT(120), <1>1, <1>2, <1>5 DEF Held
<1>7. Held(PopToHead(r))
  BY <1>5, <1>6, HeldStill
<1>8. OnToolheadReady(s) \in {OnAllset(t), Recovered(t), r, PopToHead(r)}
  BY DEF OnToolheadReady, Recover, t, r
<1> QED
  BY <1>1, <1>3, <1>6, <1>7, <1>8, OnAllsetHeld, RecoveredHeld

LEMMA HeadAllsetHeld ==
    ASSUME NEW s, Live(s), Held(s)
    PROVE  Held(HeadAllset(s))
<1> DEFINE t == [s EXCEPT !.allsetCb = "none"]
           u == SendCmd(t, Cmd("X5"))
<1>1. Keeps(s, t) /\ Held(t)
  <2>1. IsPlayer(s) /\ Held(t)
    BY LivePlayer, AsideHeld
  <2>2. Keeps(s, t)
    BY ZenonT(120), <2>1, AllsetValues DEF IsPlayer, Fields, Keeps, Same
  <2> QED
    BY <2>1, <2>2
<1> HIDE DEF t
<1>2. Live(t) /\ IsPlayer(t)
  BY <1>1, KeepsLeads DEF Leads, Keeps
<1>3. Live(u) /\ Held(u)
  BY <1>1, <1>2, Sends, OpNames, HeldStill DEF Leads
<1> HIDE DEF u
<1>4. HeadAllset(s) \in {t, u, ExecTask(u), ClearMacro(u), OnAllset(u)}
  BY DEF HeadAllset, Then, t, u
<1> QED
  BY <1>1, <1>3, <1>4, ExecTaskHeld, ClearMacroHeld, OnAllsetHeld

LEMMA ProbeEmptyHeld ==
    ASSUME NEW s, Live(s), Held(s)
    PROVE  Held(ProbeEmpty(s))
<1> DEFINE t == [s EXCEPT !.probe = "converged"]
           v == [s EXCEPT !.round = s.round + 1, !.probe = "none"]
           h == Giveup(s)
<1>1. IsPlayer(s) /\ Steady(s, t) /\ Steady(s, v)
  BY ZenonT(120), LivePlayer DEF IsPlayer, Fields, Steady
<1>2. IsPlayer(t) /\ (s.round < Ttl => IsPlayer(v))
  BY ZenonT(120), LivePlayer, ProbeValues, RoundValues DEF IsPlayer, Fields
<1>3. Held(t) /\ Held(v)
  BY <1>1, SteadyHeld
<1>4. [s EXCEPT !.round = @ + 1, !.probe = "none"] = v
  OBVIOUS
<1> HIDE DEF t, v
<1>5. /\ Held(SendCmd(t, Cmd("macro")))
      /\ s.round < Ttl => Held(SendCmd(v, Cmd("probe")))
  BY <1>2, <1>3, HeldStill
<1>6. Held(h) /\ IsPlayer(h) /\ Held(ExecTask(s))
  BY GiveupHeld, GiveupLeads, LivePlayer, ExecTaskHeld DEF Leads
<1> HIDE DEF h
<1>7. Held(Raise(h, "other")) /\ Held(Raise(s, "other"))
  BY <1>1, <1>6, HeldStill
<1>8. \/ ProbeEmpty(s) \in {s, SendCmd(t, Cmd("macro")), ExecTask(s), h, Raise(h, "other"),
                            Raise(s, "other")}
      \/ s.round < Ttl /\ ProbeEmpty(s) = SendCmd(v, Cmd("probe"))
  BY <1>4 DEF ProbeEmpty, Then, t, h
<1> QED
  BY <1>5, <1>6, <1>7, <1>8

LEMMA MacroCommandEmptyHeld ==
    ASSUME NEW s, Live(s), Held(s)
    PROVE  Held(MacroCommandEmpty(s))
<1> DEFINE v == [s EXCEPT !.retracting = TRUE]
<1>1. Steady(s, v) /\ IsPlayer(s)
  BY ZenonT(120), LivePlayer DEF IsPlayer, Fields, Steady
<1>2. IsPlayer(v)
  BY ZenonT(120), LivePlayer, Booleans DEF IsPlayer, Fields
<1>3. Held(v)
  BY <1>1, SteadyHeld
<1> HIDE DEF v
<1>4. Held(SendCmd(v, Cmd("retract")))
  BY <1>2, <1>3, HeldStill
<1>5. Held(ExecTask(s)) /\ Held(Abort(s, "none")) /\ Held(ProbeEmpty(s))
  BY <1>1, ExecTaskHeld, AbortHeld, ErrorValues, ProbeEmptyHeld
<1>6. MacroCommandEmpty(s) \in {s, ProbeEmpty(s), SendCmd(v, Cmd("retract")),
                                ExecTask(s), Abort(s, "none")}
  BY DEF MacroCommandEmpty, v
<1> QED
  BY <1>4, <1>5, <1>6

LEMMA PausedMacroEmptyHeld ==
    ASSUME NEW s, Live(s), Held(s)
    PROVE  Held(PausedMacroEmpty(s))
<1> DEFINE x == SendCmd(s, Cmd("load"))
<1>1. IsPlayer(x) /\ Held(x) /\ IsPlayer(s)
  BY Sends, OpNames, LivePlayer, HeldStill DEF Leads
<1> HIDE DEF x
<1>2. Held([x EXCEPT !.pausedMacro = "sent"]) /\ Held([s EXCEPT !.pausedMacro = "none"])
  BY <1>1, AsideHeld
<1>3. PausedMacroEmpty(s) \in {s, x, [x EXCEPT !.pausedMacro = "sent"],
                               [s EXCEPT !.pausedMacro = "none"]}
  BY DEF PausedMacroEmpty, Then, x
<1> QED
  BY <1>1, <1>2, <1>3

-----------------------------------------------------------------------------
(* The callbacks of the two controllers. *)

LEMMA OnMbEmptyHeld ==
    ASSUME NEW s, Live(s), Held(s)
    PROVE  Held(OnMbEmpty(s))
BY HandlePauseHeld, PausedMacroEmptyHeld, MacroCommandEmptyHeld, FireHeld DEF OnMbEmpty

LEMMA OnMbSendableHeld ==
    ASSUME NEW s, Live(s), Held(s)
    PROVE  Held(OnMbSendable(s))
BY PausedMacroEmptyHeld, FireHeld DEF OnMbSendable

LEMMA MacroCtrlHeld ==
    ASSUME NEW s, Live(s), Held(s)
    PROVE  Held(MacroCtrl(s))
<1> DEFINE t == [s EXCEPT !.probe = IF @ = "converged" THEN @ ELSE s.ctrl]
           g == Giveup(s)
<1>1. Steady(s, t)
  BY LivePlayer DEF IsPlayer, Fields, Steady
<1> HIDE DEF t
<1>2. Held(t)
  BY <1>1, SteadyHeld
<1>3. Held(g) /\ IsPlayer(g)
  BY GiveupHeld, GiveupLeads, LivePlayer DEF Leads
<1> HIDE DEF g
<1>4. Held(Raise(g, "other"))
  BY <1>3, HeldStill
<1>5. MacroCtrl(s) \in {s, t, g, Raise(g, "other")}
  BY DEF MacroCtrl, Then, t, g
<1> QED
  BY <1>2, <1>3, <1>4, <1>5

LEMMA OnMbCtrlHeld ==
    ASSUME NEW s, Live(s), Held(s)
    PROVE  Held(OnMbCtrl(s))
<1> DEFINE t == IF s.status = 48 THEN s ELSE MacroCtrl(s)
           u == [t EXCEPT !.stash = "stashed"]
<1>1. Live(t) /\ Held(t)
  BY MacroCtrlLeads, MacroCtrlHeld DEF Leads
<1> HIDE DEF t
<1>2. Keeps(t, u) /\ u.exc = t.exc
  BY <1>1, LivePlayer, StashValues DEF IsPlayer, Fields, Keeps, Same
<1>3. Held(u)
  BY <1>1, LivePlayer, AsideHeld
<1> HIDE DEF u
<1>4. Live(u)
  BY <1>1, <1>2, KeepsLeads DEF Leads
<1>5. t.exc = "none" => Held(PauseToolhead(u))
  BY <1>2, <1>3, <1>4, PauseToolheadHeld
<1>6. OnMbCtrl(s) \in {t, Resumed(t)} \/ (t.exc = "none" /\ OnMbCtrl(s) = PauseToolhead(u))
  BY DEF OnMbCtrl, Then, t, u
<1> QED
  BY <1>1, <1>5, <1>6, ResumedHeld

LEMMA CaughtHeld ==
    ASSUME NEW s, Live(s), Held(s)
    PROVE  Held(Caught(s))
<1> DEFINE q == Quiet(s)
           e == IF s.exc = "head lost" THEN s.exc ELSE "other"
           a == Abort(q, "other")
           b == Pause(q, e)
<1>1. Live(q) /\ Held(q) /\ IsPlayer(q) /\ e \in Errors
  BY QuietLeads, HeldStill, LivePlayer, ErrorValues DEF Leads
<1> HIDE DEF q, e
<1>2. Held(a) /\ Held(b) /\ IsPlayer(a) /\ IsPlayer(b)
  BY <1>1, AbortHeld, PauseHeld, PauseLeads, LivePlayer, ErrorValues DEF Leads
<1> HIDE DEF a, b
<1>3. Caught(s) \in {s, Quiet(a), Quiet(b)}
  BY DEF Caught, q, e, a, b
<1> QED
  BY <1>2, <1>3, HeldStill

LEMMA HeadHandledHeld ==
    ASSUME NEW s, Live(s), Held(s)
    PROVE  Held(HeadHandled(s))
<1> DEFINE t == CheckErrno(s)
<1>1. Live(t) /\ Held(t)
  BY CheckErrnoLeads, HeldStill, LivePlayer DEF CheckErrno, Leads
<1> HIDE DEF t
<1>2. HeadHandled(s) \in {s, t, Fire(t)}
  BY DEF HeadHandled, Then, t
<1> QED
  BY <1>1, <1>2, FireHeld

LEMMA OnToolheadRecvHeld ==
    ASSUME NEW h, Live(h), Held(h)
    PROVE  Held(OnToolheadRecv(h))
<1> DEFINE s == Then(h, HeadHandled)
           r == ToolheadReset(s)
<1>1. Live(s) /\ Held(s) /\ IsPlayer(s)
  BY HeadHandledLeads, HeadHandledHeld, LivePlayer DEF Then, Leads
<1> HIDE DEF s
<1>2. Live(r) /\ Held(r)
  BY <1>1, ToolheadResetKeeps, KeepsLeads, ToolheadResetHeld DEF Leads
<1> HIDE DEF r
<1>3. Held(Quiet(Close(s)))
  BY <1>1, CloseKeeps, HeldStill DEF Keeps
<1>4. OnToolheadRecv(h) \in {Quiet(Close(s)), Caught(r), Caught(s)}
  BY DEF OnToolheadRecv, s, r
<1> QED
  BY <1>1, <1>2, <1>3, <1>4, CaughtHeld

\* Once the callback of standby is called, the supply is off.
LEMMA CallbackHeld ==
    ASSUME NEW s, Live(s), Held(s), s.exc = "none"
    PROVE  Held(Callback(s))
<1> DEFINE t == [s EXCEPT !.cb = "none"]
<1>1. Keeps(s, t) /\ IsPlayer(t) /\ t.exc = "none"
  BY LivePlayer, CallbackValues DEF IsPlayer, Fields, Keeps, Same
<1>2. /\ t.status = s.status /\ t.control = s.control /\ t.v24 = s.v24 /\ t.th = s.th
      /\ t.power = s.power
  BY LivePlayer DEF IsPlayer, Fields
<1> HIDE DEF t
<1>3. Live(t)
  BY <1>1, KeepsLeads DEF Leads
<1>4. CASE s.cb # "paused"
  <2>1. Held(t)
    BY ZenonT(120), <1>2, <1>4 DEF Held
  <2>2. Callback(s) \in {t, Recovered(t), Close(t)}
    BY <1>4 DEF Callback, t
  <2> QED
    BY <1>1, <1>3, <2>1, <2>2, RecoveredHeld, HeldStill
<1>5. CASE s.cb = "paused"
  <2>1. Callback(s) = ToolheadPaused(t)
    BY <1>5 DEF Callback, t
  <2>2. CASE t.status = 48
    <3>1. ToolheadPaused(t) = SetStandby(t)
      BY <1>1, <2>2 DEF ToolheadPaused, Then
    <3> DEFINE z == SetStandby(t)
    <3>2. HeadKind \in {"EXTRUDER", "LASER"}
      BY ScenarioType DEF Live, Sound
    <3>3. HeadKind = "LASER" => ~t.v24
      BY ZenonT(120), <1>2 DEF Held
    <3>4. /\ z.status = t.status /\ z.control = t.control /\ z.th = t.th
          /\ z.power = t.power /\ ~z.v24
      BY ZenonT(120), <1>1, <3>2, <3>3 DEF SetStandby, IsPlayer, Fields
    <3> HIDE DEF z
    <3>5. Held(z)
      BY ZenonT(120), <1>2, <3>4 DEF Held
    <3> QED
      BY <2>1, <3>1, <3>5 DEF z
  <2>3. CASE t.status # 48
    <3>1. Held(t)
      BY ZenonT(120), <1>2, <2>3 DEF Held
    <3> QED
      BY <1>1, <1>3, <2>1, <3>1, ToolheadPausedHeld
  <2> QED
    BY <2>2, <2>3
<1> QED
  BY <1>4, <1>5

LEMMA PongHeld ==
    ASSUME NEW s, Live(s), Held(s)
    PROVE  Held(Pong(s))
<1> DEFINE r == ToolheadReset(s)
           u == [s EXCEPT !.rt = s.temp]
           t == PopToHead(u)
<1>1. Held(r) /\ IsPlayer(r)
  BY ToolheadResetHeld, ToolheadResetKeeps, LivePlayer DEF Keeps
<1> HIDE DEF r
<1>2. Held(Raise(r, "head lost"))
  BY <1>1, HeldStill
<1>3. IsPlayer(s) /\ s.temp \in HeadReadings
  BY LivePlayer, ReadingValues DEF IsPlayer
<1>4. Keeps(s, u) /\ Steady(s, u)
  BY <1>3 DEF IsPlayer, Fields, Keeps, Same, Steady
<1> HIDE DEF u
<1>5. Live(u) /\ Held(u) /\ IsPlayer(u)
  BY <1>4, KeepsLeads, SteadyHeld DEF Leads, Keeps
<1>6. Live(t) /\ Held(t)
  BY <1>5, PopToHeadKeeps, KeepsLeads, HeldStill DEF Leads
<1> HIDE DEF t
<1>7. Pong(s) \in {Raise(r, "head lost"), t, HeadAllset(t)}
  BY DEF Pong, Then, r, t, u
<1> QED
  BY <1>2, <1>6, <1>7, HeadAllsetHeld

LEMMA IdleHeadHeld ==
    ASSUME NEW s, IsPlayer(s), Held(s)
    PROVE  Held(IdleHead(s))
<1> DEFINE r == ToolheadReset(s)
<1>1. IsPlayer(r) /\ Held(r) /\ Held(Close(s))
  BY ToolheadResetKeeps, ToolheadResetHeld, HeldStill DEF Keeps
<1> HIDE DEF r
<1>2. IdleHead(s) \in {s, PowerOff(r), Close(s)}
  BY DEF IdleHead, r
<1> QED
  BY <1>1, <1>2, PowerOffHeld

-----------------------------------------------------------------------------
(* The requests. *)

LEMMA SoftAbortHeld ==
    ASSUME NEW s, IsPlayer(s), Held(s)
    PROVE  Held(SoftAbort(s)) /\ IsPlayer(SoftAbort(s))
<1>1. IsPlayer([s EXCEPT !.macro = "soft abort"]) /\ Held([s EXCEPT !.macro = "soft abort"])
  <2>1. IsPlayer([s EXCEPT !.macro = "soft abort"])
    BY ZenonT(120), MacroValues DEF IsPlayer, Fields
  <2>2. Held([s EXCEPT !.macro = "soft abort"])
    BY AsideHeld
  <2> QED
    BY <2>1, <2>2
<1>2. Held(Abort(s, "none")) /\ IsPlayer(Abort(s, "none"))
  BY AbortHeld, ErrorValues
<1> QED
  BY <1>1, <1>2 DEF SoftAbort

LEMMA ResumeRequestHeld ==
    ASSUME NEW s, Live(s), Held(s)
    PROVE  Held(Resume(s))
<1>1. HeadKind = "LASER" => ~s.v24
  BY ZenonT(120) DEF Held
<1> QED
  BY <1>1, ResumeHeld

\* set_toolhead_operation powers the head up and takes control of it.
LEMMA SetToolheadOperationHeld ==
    ASSUME NEW s, IsPlayer(s), Held(s)
    PROVE  Held(SetToolheadOperation(s))
<1> DEFINE t == [s EXCEPT !.error = "none", !.control = FALSE]
           u == PowerOn(t)
           b == ToolheadBootstrap(u)
<1>1. IsPlayer(t) /\ t.v24 = s.v24 /\ t.control = FALSE
  BY ZenonT(120), ErrorValues, Booleans DEF IsPlayer, Fields
<1> HIDE DEF t
<1>2. IsPlayer(u) /\ u.v24 = t.v24 /\ u.control = t.control
  BY ZenonT(120), <1>1, Booleans DEF PowerOn, IsPlayer, Fields
<1> HIDE DEF u
<1>3. b.v24 = u.v24 /\ b.control = u.control
  BY <1>2 DEF ToolheadBootstrap, IsPlayer, Fields
<1> HIDE DEF b
<1>4. HeadKind = "LASER" => ~s.v24
  BY ZenonT(120) DEF Held
<1>5. Held(b)
  BY ZenonT(120), <1>1, <1>2, <1>3, <1>4 DEF Held
<1> QED
  BY <1>5 DEF SetToolheadOperation, t, u, b

LEMMA SetToolheadStandbyHeld ==
    ASSUME NEW s, Live(s), Held(s), s.exc = "none"
    PROVE  Held(SetToolheadStandby(s))
<1> DEFINE t == [s EXCEPT !.control = TRUE]
<1>1. CASE s.status = 48 /\ Ready(s)
  <2>1. Keeps(s, t)
    BY ZenonT(120), LivePlayer, Booleans DEF IsPlayer, Fields, Keeps, Same
  <2>2. /\ t.status = 48 /\ t.v24 = s.v24 /\ t.th = "RUNNING" /\ t.exc = "none"
        /\ t.cb = s.cb /\ t.power = s.power
    BY <1>1, LivePlayer DEF Ready, IsPlayer, Fields
  <2>3. PauseToolhead(t) = SetToolheadStandby(s)
    BY <1>1 DEF SetToolheadStandby
  <2> HIDE DEF t
  <2>4. Live(t) /\ IsPlayer(t) /\ Ready(t)
    BY <2>1, <2>2, KeepsLeads DEF Leads, Keeps, Ready
  <2>5. HeadKind = "LASER" => ~t.v24
    BY ZenonT(120), <2>2 DEF Held
  <2>6. HeadKind \in {"EXTRUDER", "LASER"}
    BY ScenarioType DEF Live, Sound
  <2> DEFINE z == SetStandby(t)
             c == [t EXCEPT !.cb = "paused"]
  <2>7. ToolheadPaused(t) = z
    BY <2>2 DEF ToolheadPaused, Then
  <2>8. /\ z.th = "RUNNING" /\ ~z.v24
    BY ZenonT(120), <2>2, <2>4, <2>5, <2>6 DEF SetStandby, IsPlayer, Fields
  <2> HIDE DEF z
  <2>9. z.th # "BOOTING"
    BY <2>8
  <2>10. Held(z)
    BY ZenonT(120), <2>8, <2>9 DEF Held
  <2>11. IsPlayer(c) /\ c.cb = "paused" /\ c.th = "RUNNING" /\ c.v24 = t.v24
    BY <2>2, <2>4, CallbackValues DEF IsPlayer, Fields
  <2> DEFINE q == [t EXCEPT !.hq = Append(@, "standby"), !.cb = "paused"]
  <2>12. Append(t.hq, "standby") \in HeadSeqs
    BY <2>4, HeadSeqsHave, TargetValues DEF IsPlayer
  <2>13. IsPlayer(q) /\ q.cb = "paused" /\ q.th = "RUNNING" /\ q.v24 = t.v24
    BY <2>2, <2>4, <2>12, CallbackValues DEF IsPlayer, Fields
  <2>14. PauseToolhead(t) \in {z, q, PopToHead(q), c}
    BY <2>4, <2>7 DEF PauseToolhead, Standby
  <2> HIDE DEF c, q
  <2>15. "RUNNING" # "BOOTING"
    OBVIOUS
  <2>16. Held(c) /\ Held(q)
    BY ZenonT(120), <2>5, <2>11, <2>13, <2>15 DEF Held
  <2>17. Held(PopToHead(q))
    BY <2>13, <2>16, HeldStill
  <2> QED
    BY <2>3, <2>10, <2>14, <2>16, <2>17
<1>2. CASE ~(s.status = 48 /\ Ready(s))
  BY <1>2 DEF SetToolheadStandby
<1> QED
  BY <1>1, <1>2

LEMMA SetToolheadHeaterHeld ==
    ASSUME NEW s, IsPlayer(s), Held(s), NEW v \in Targets
    PROVE  Held(SetToolheadHeater(s, v))
<1> DEFINE t == [s EXCEPT !.heatTo = IF s.macro = "heat" THEN v ELSE @]
<1>1. IsPlayer(t) /\ Steady(s, t)
  BY DEF IsPlayer, Fields, Steady
<1> HIDE DEF t
<1>2. Steady(t, SetHeater(t, v))
  BY <1>1, SetHeaterSteady
<1>3. SetToolheadHeater(s, v) \in {s, SetHeater(t, v)}
  BY DEF SetToolheadHeater, t
<1> QED
  BY <1>1, <1>2, <1>3, SteadyHeld

LEMMA LoadFilamentHeld ==
    ASSUME NEW s, Live(s), Held(s)
    PROVE  Held(LoadFilament(s))
<1> DEFINE t == [s EXCEPT !.pausedMacro = "to send"]
<1>1. Keeps(s, t)
  BY ZenonT(120), LivePlayer, LoadValues DEF IsPlayer, Fields, Keeps, Same
<1>2. Held(t)
  BY LivePlayer, AsideHeld
<1> HIDE DEF t
<1>3. Live(t)
  BY <1>1, KeepsLeads DEF Leads
<1>4. LoadFilament(s) \in {s, t, PausedMacroEmpty(t)}
  BY DEF LoadFilament, t
<1> QED
  BY <1>2, <1>3, <1>4, PausedMacroEmptyHeld

-----------------------------------------------------------------------------
(* The steps. *)

LEMMA MbReadyHeld ==
    ASSUME SupplyInv, MbReady
    PROVE  Held(p')
<1> DEFINE s == [p EXCEPT !.mb = "ready"]
           t == OnMainboardReady(s)
<1>1. p.mb = "off" /\ p' = Caught(t)
  BY DEF MbReady, Step
<1>2. p.status \in {4, 38, 128} /\ Sound(p) /\ IsPlayer(p) /\ Held(p)
  BY <1>1 DEF SupplyInv, IInv, Open, Sound
<1>3. /\ IsPlayer(s) /\ s.mb = "ready" /\ s.status = p.status /\ s.next = p.next
      /\ s.fed = p.fed /\ s.queue = p.queue /\ s.fin = p.fin /\ s.did = p.did
      /\ Steady(p, s)
  BY <1>2, MbValues DEF IsPlayer, Fields, Steady
<1> HIDE DEF s
<1>4. Live(s) /\ Held(s)
  <2>1. p.status # 64
    BY <1>2
  <2>2. Live(s)
    BY <1>2, <1>3, <2>1 DEF Live, Sound
  <2> QED
    BY <2>2, <1>2, <1>3, SteadyHeld
<1>5. Live(t)
  BY <1>3, <1>4, OnMainboardReadyKeeps, KeepsLeads DEF Leads
<1>6. Held(t)
  <2>1. s.status \notin {48, 50}
    BY <1>2, <1>3
  <2> QED
    BY <1>3, <1>4, <2>1, OnMainboardReadyHeld
<1> HIDE DEF t
<1> QED
  BY <1>1, <1>5, <1>6, CaughtHeld

LEMMA MbExecutesHeld ==
    ASSUME SupplyInv, MbExecutes
    PROVE  Held(p')
<1> DEFINE c == p.queue[p.fin + 1]
           s == [p EXCEPT !.fin = @ + 1,
                          !.did = IF c.op = "job" THEN Append(@, c.i) ELSE @,
                          !.parked = IF c.op = "C2" THEN TRUE
                                     ELSE IF c.op = "C2F" THEN FALSE ELSE @]
<1>1. IsPlayer(p) /\ Held(p)
  BY DEF SupplyInv, IInv, Sound
<1>2. p' = s \/ \E e \in Readings \cup {"STASH", "STASH_POP"} : p' = [s EXCEPT !.ctrl = e]
  BY DEF MbExecutes, Step
<1>3. Steady(p, s) /\ DOMAIN s = Fields
  BY <1>1 DEF IsPlayer, Fields, Steady
<1> HIDE DEF s
<1>4. \A e : Steady(s, [s EXCEPT !.ctrl = e])
  BY <1>3 DEF Fields, Steady
<1>5. Steady(p, p')
  BY <1>2, <1>3, <1>4, SteadyOn
<1> QED
  BY <1>1, <1>5, SteadyHeld

LEMMA MbCtrlHeld ==
    ASSUME SupplyInv, MbCtrl
    PROVE  Held(p')
<1> DEFINE u == OnMbCtrl(p)
           t == Caught(u)
<1>1. p.ctrl # "none" /\ p' = [t EXCEPT !.ctrl = "none"]
  BY DEF MbCtrl, Step
<1>2. Live(p) /\ Held(p)
  BY <1>1, LiveNow DEF SupplyInv, IInv, Open
<1>3. Live(u) /\ Held(u)
  BY <1>2, OnMbCtrlLeads, OnMbCtrlHeld DEF Leads
<1> HIDE DEF u
<1>4. Held(t) /\ IsPlayer(t)
  BY <1>3, CaughtHeld, CaughtLeads, LivePlayer DEF Leads
<1> HIDE DEF t
<1>5. Steady(t, [t EXCEPT !.ctrl = "none"])
  BY <1>4 DEF IsPlayer, Fields, Steady
<1> QED
  BY <1>1, <1>4, <1>5, SteadyHeld

LEMMA MbLnHeld ==
    ASSUME SupplyInv, NEW k \in 0..BufSize, MbLn(k)
    PROVE  Held(p')
<1> DEFINE left == Len(p.queue) - k
           s == [p EXCEPT !.queue = SubSeq(p.queue, k + 1, Len(p.queue)), !.fin = p.fin - k]
           t == IF left + 1 = BufSize THEN OnMbSendable(s) ELSE s
           u == IF left = 0 THEN Then(t, OnMbEmpty) ELSE t
<1>1. p.queue # <<>> /\ k <= p.fin /\ p' = Caught(u)
  BY DEF MbLn, Step
<1>2. Live(p) /\ Held(p) /\ IsPlayer(p)
  BY <1>1, LiveNow, LivePlayer DEF SupplyInv, IInv, Open
<1>3. k \in Nat
  OBVIOUS
<1>4. Live(s)
  BY <1>1, <1>2, <1>3, Reported DEF Leads
<1>5. Steady(p, s)
  BY <1>2 DEF IsPlayer, Fields, Steady
<1> HIDE DEF s
<1>6. Held(s)
  BY <1>2, <1>5, SteadyHeld
<1>7. Live(t) /\ Held(t)
  BY <1>4, <1>6, OnMbSendableLeads, OnMbSendableHeld DEF Leads
<1> HIDE DEF t
<1>8. Live(u) /\ Held(u)
  BY <1>7, OnMbEmptyLeads, OnMbEmptyHeld DEF Leads, Then
<1> HIDE DEF u
<1> QED
  BY <1>1, <1>8, CaughtHeld

LEMMA MbRunoutHeld ==
    ASSUME SupplyInv, MbRunout
    PROVE  Held(p')
<1> DEFINE s == [p EXCEPT !.mb = "error"]
           t == Raise(s, "other")
<1>1. p.mb = "ready" /\ p' = Caught(t)
  BY DEF MbRunout, Step
<1>2. Live(p) /\ Held(p) /\ IsPlayer(p)
  BY <1>1, LiveNow, LivePlayer DEF SupplyInv, IInv
<1>3. /\ IsPlayer(s) /\ s.mb = "error" /\ s.status = p.status /\ s.next = p.next
      /\ s.fed = p.fed /\ s.queue = p.queue /\ s.fin = p.fin /\ s.did = p.did
      /\ Steady(p, s)
  BY <1>2, MbValues DEF IsPlayer, Fields, Steady
<1> HIDE DEF s
<1>4. Live(s) /\ Held(s)
  BY <1>1, <1>2, <1>3, SteadyHeld DEF Live, Sound
<1>5. Live(t) /\ Held(t)
  BY <1>3, <1>4, RaiseKeeps, ExcValues, KeepsLeads, HeldStill DEF Leads
<1> HIDE DEF t
<1> QED
  BY <1>1, <1>5, CaughtHeld

LEMMA MbFailsHeld ==
    ASSUME SupplyInv, MbFails
    PROVE  Held(p')
<1> DEFINE s == Raise(p, "system")
           q == Quiet(s)
<1>1. p' = Caught(s) /\ IsPlayer(p) /\ Held(p)
  BY DEF MbFails, Step, SupplyInv, IInv, Sound
<1>2. IsPlayer(s) /\ Held(s) /\ s.exc = "system"
  BY ZenonT(120), <1>1, RaiseKeeps, ExcValues, HeldStill DEF Keeps, Raise, IsPlayer, Fields
<1>3. Caught(s) = Quiet(Abort(q, "other"))
  BY <1>2 DEF Caught
<1> HIDE DEF s
<1>4. IsPlayer(q) /\ Held(q)
  BY <1>2, QuietKeeps, HeldStill DEF Keeps
<1> HIDE DEF q
<1> QED
  BY <1>1, <1>3, <1>4, AbortHeld, ErrorValues, HeldStill

LEMMA HeadHelloHeld ==
    ASSUME SupplyInv, HeadHello
    PROVE  Held(p')
<1> DEFINE q == [p EXCEPT !.th = "RUNNING", !.wasReset = FALSE]
           s == OnToolheadReady(q)
           t == [s EXCEPT !.th = "INIT"]
           h == IF s.exc = "none" THEN s ELSE t
<1>1. p.th = "BOOTING" /\ p.power /\ p' = OnToolheadRecv(h)
  BY DEF HeadHello, Step
<1>2. Live(p) /\ Held(p) /\ IsPlayer(p)
  BY <1>1, LiveNow, LivePlayer DEF SupplyInv, IInv, Open
<1>3. Keeps(p, q)
  BY ZenonT(120), <1>2, HeadValues, Booleans DEF IsPlayer, Fields, Keeps, Same
<1>4. /\ q.status = p.status /\ q.control = p.control /\ q.v24 = p.v24 /\ q.cb = p.cb
      /\ q.power = p.power /\ q.th = "RUNNING"
  BY ZenonT(120), <1>2 DEF IsPlayer, Fields
<1> HIDE DEF q
<1>5. Live(q) /\ Held(q) /\ (q.status \in {48, 50} => ~q.control)
  <2>1. q.th # "BOOTING"
    BY <1>4
  <2>2. Held(q) /\ (q.status \in {48, 50} => ~q.control)
    BY ZenonT(120), <1>1, <1>2, <1>4, <2>1 DEF Held
  <2> QED
    BY <1>2, <1>3, <2>2, KeepsLeads DEF Leads
<1>6. Live(s) /\ Held(s) /\ IsPlayer(s)
  BY <1>4, <1>5, OnToolheadReadyLeads, OnToolheadReadyHeld, LivePlayer DEF Leads
<1> HIDE DEF s
<1>7. Keeps(s, t)
  BY <1>6, HeadValues DEF IsPlayer, Fields, Keeps, Same
<1>8. /\ t.status = s.status /\ t.control = s.control /\ t.v24 = s.v24 /\ t.cb = s.cb
      /\ t.power = s.power /\ t.th = "INIT"
  BY <1>6 DEF IsPlayer, Fields
<1> HIDE DEF t
<1>9. Live(t) /\ Held(t)
  <2>1. t.th # "BOOTING"
    BY <1>8
  <2>2. Held(t)
    BY ZenonT(120), <1>6, <1>8, <2>1 DEF Held
  <2> QED
    BY <1>6, <1>7, <2>2, KeepsLeads DEF Leads
<1> QED
  BY <1>1, <1>6, <1>9, OnToolheadRecvHeld

LEMMA HeadOkHeld ==
    ASSUME SupplyInv, HeadOk
    PROVE  Held(p')
<1>0. p.out # "none"
  BY DEF HeadOk
<1>20. PICK v \in HeaterTold(p.out) :
          LET s == [p EXCEPT !.out = "none", !.heat = v]
          IN  p' = OnToolheadRecv(IF s.hq = <<>> THEN Callback(s) ELSE PopToHead(s))
  BY DEF HeadOk, Step
<1> DEFINE s == [p EXCEPT !.out = "none", !.heat = v]
           h == IF s.hq = <<>> THEN Callback(s) ELSE PopToHead(s)
<1>1. p.out # "none" /\ p' = OnToolheadRecv(h)
  BY <1>0, <1>20
<1>2. Live(p) /\ Held(p) /\ p.exc = "none"
  BY <1>1, LiveNow DEF SupplyInv, IInv, Open
<1>3. Keeps(p, s)
  <2>1. IsPlayer(p) /\ v \in Levels
    BY <1>1, <1>2, LivePlayer, ToldLevels
  <2> QED
    BY <2>1, OutValues DEF IsPlayer, Fields, Keeps, Same
<1>4. Steady(p, s) /\ s.exc = p.exc
  BY <1>2, LivePlayer DEF IsPlayer, Fields, Steady
<1> HIDE DEF s
<1>5. Live(s) /\ Held(s) /\ IsPlayer(s) /\ s.exc = "none"
  BY <1>2, <1>3, <1>4, KeepsLeads, SteadyHeld DEF Leads, Keeps
<1>6. Live(h)
  BY <1>5, CallbackLeads, PopToHeadKeeps, KeepsLeads DEF Leads
<1>7. Held(h)
  BY <1>5, CallbackHeld, HeldStill
<1> HIDE DEF h
<1> QED
  BY <1>1, <1>6, <1>7, OnToolheadRecvHeld

LEMMA HeadErHeld ==
    ASSUME SupplyInv, HeadEr
    PROVE  Held(p')
<1> DEFINE h == Raise(p, "other")
<1>1. p.out # "none" /\ p' = OnToolheadRecv(h)
  BY DEF HeadEr, Step
<1>2. Live(p) /\ Held(p) /\ IsPlayer(p)
  BY <1>1, LiveNow, LivePlayer DEF SupplyInv, IInv, Open
<1>3. Live(h) /\ Held(h)
  BY <1>2, RaiseKeeps, ExcValues, KeepsLeads, HeldStill DEF Leads
<1> HIDE DEF h
<1> QED
  BY <1>1, <1>3, OnToolheadRecvHeld

LEMMA HeadPongHeld ==
    ASSUME SupplyInv, HeadPong
    PROVE  Held(p')
<1> DEFINE s == [p EXCEPT !.updating = FALSE]
           u(e) == [s EXCEPT !.errno = e]
<1>1. p.updating /\ \/ p' = OnToolheadRecv(Pong(s))
                    \/ \E e \in {"shake", "hardware"} : p' = OnToolheadRecv(Pong(u(e)))
  BY DEF HeadPong, Step
<1>2. Live(p) /\ Held(p) /\ IsPlayer(p)
  BY <1>1, LiveNow, LivePlayer DEF SupplyInv, IInv, Open
<1>3. Keeps(p, s) /\ Steady(p, s)
  BY ZenonT(120), <1>2, Booleans DEF IsPlayer, Fields, Keeps, Same, Steady
<1> HIDE DEF s
<1>4. \A e \in {"shake", "hardware"} : Keeps(s, u(e)) /\ Steady(s, u(e))
  BY <1>3, ErrnoValues DEF IsPlayer, Fields, Keeps, Same, Steady
<1> HIDE DEF u
<1>5. /\ Live(s) /\ Held(s)
      /\ \A e \in {"shake", "hardware"} : Live(u(e)) /\ Held(u(e))
  BY <1>2, <1>3, <1>4, KeepsLeads, KeepsOn, SteadyHeld DEF Leads
<1>6. ASSUME NEW t, Live(t), Held(t)
      PROVE  Held(OnToolheadRecv(Pong(t)))
  BY <1>6, PongLeads, PongHeld, OnToolheadRecvHeld DEF Leads
<1> QED
  BY <1>1, <1>5, <1>6

LEMMA LoopOfflineHeld ==
    ASSUME SupplyInv, LoopOffline
    PROVE  Held(p')
<1> DEFINE r == ToolheadReset(p)
           s == Raise(r, "head lost")
<1>1. p.th # "INIT" /\ p' = Caught(s)
  BY DEF LoopOffline, Step, Ready
<1>2. Live(p) /\ Held(p) /\ IsPlayer(p)
  BY <1>1, LiveNow, LivePlayer DEF SupplyInv, IInv, Open
<1>3. Live(r) /\ Held(r) /\ IsPlayer(r)
  BY <1>2, ToolheadResetKeeps, ToolheadResetHeld, KeepsLeads DEF Leads, Keeps
<1> HIDE DEF r
<1>4. Live(s) /\ Held(s)
  BY <1>3, RaiseKeeps, ExcValues, KeepsLeads, HeldStill DEF Leads
<1> HIDE DEF s
<1> QED
  BY <1>1, <1>4, CaughtHeld

LEMMA LoopHeld ==
    ASSUME SupplyInv, NEW ping \in BOOLEAN, Loop(ping)
    PROVE  Held(p')
<1> DEFINE b == p.updating \/ (ping /\ Sendable(p))
           s == [p EXCEPT !.updating = b]
<1>1. p' = IdleHead(s) /\ IsPlayer(p) /\ Held(p) /\ b \in Bools
  BY Booleans DEF Loop, Step, SupplyInv, IInv, Sound
<1> HIDE DEF b
<1>2. IsPlayer(s) /\ Steady(p, s)
  BY <1>1 DEF IsPlayer, Fields, Steady
<1> HIDE DEF s
<1> QED
  BY <1>1, <1>2, SteadyHeld, IdleHeadHeld

LEMMA HeadRestartsHeld ==
    ASSUME SupplyInv, HeadRestarts
    PROVE  Held(p')
<1>1. p' = [p EXCEPT !.heat = "off", !.wasReset = TRUE] /\ IsPlayer(p) /\ Held(p)
  BY DEF HeadRestarts, Step, SupplyInv, IInv, Sound
<1>2. Steady(p, p')
  BY <1>1 DEF IsPlayer, Fields, Steady
<1> QED
  BY <1>1, <1>2, SteadyHeld

LEMMA TemperatureHeld ==
    ASSUME SupplyInv, Temperature
    PROVE  Held(p')
<1>1. PICK v \in {Warmer(p.temp), Cooler(p.temp)} : p' = [p EXCEPT !.temp = v]
  BY DEF Temperature, Step
<1>2. IsPlayer(p) /\ Held(p)
  BY DEF SupplyInv, IInv, Sound
<1>3. Steady(p, p')
  BY <1>1, <1>2 DEF IsPlayer, Fields, Steady
<1> QED
  BY <1>2, <1>3, SteadyHeld

\* A pause before the mainboard is greeted cannot go further than 38.
LEMMA OffPauseHeld ==
    ASSUME SupplyInv, p.mb = "off"
    PROVE  Held(Pause(p, "none")) /\ IsPlayer(Pause(p, "none"))
<1> DEFINE d == [p EXCEPT !.error = IF @ = "none" THEN "none" ELSE @]
           t == [p EXCEPT !.status = IF @ \in Starting THEN 38 ELSE 50, !.error = "none"]
           u == IF Ready(t) THEN t ELSE PowerOff(t)
           w == SendCmd(u, Cmd("X5"))
<1>1. /\ IsPlayer(p) /\ Held(p) /\ p.status \in {4, 38, 128} /\ p.mb = "off"
  BY DEF SupplyInv, IInv, Open, Sound
<1>2. IsPlayer(d) /\ Steady(p, d)
  BY ZenonT(120), <1>1, ErrorValues DEF IsPlayer, Fields, Steady
<1>3. p.status # 4 => Pause(p, "none") = d
  BY <1>1 DEF Pause, Pausing, Paused, Ended
<1> HIDE DEF d
<1>4. CASE p.status = 4
  <2>1. p.status \in Starting /\ p.status \notin Pausing \cup Paused \cup Ended
    BY <1>4 DEF Starting, Pausing, Paused, Ended
  <2>2. IsPlayer(t) /\ t.status = 38 /\ t.mb = "off" /\ t.v24 = p.v24
    <3>1. 38 \in Statuses /\ "none" \in Errors
      BY StatusValues, ErrorValues
    <3>2. t = [p EXCEPT !.status = 38, !.error = "none"]
      BY <1>1, <2>1 DEF IsPlayer, Fields
    <3> HIDE DEF t
    <3>3. t.status = 38 /\ t.mb = "off" /\ t.v24 = p.v24
      BY <1>1, <3>2 DEF IsPlayer, Fields
    <3>4. IsPlayer(t)
      BY <1>1, <3>1, <3>2 DEF IsPlayer, Fields
    <3> QED
      BY <3>3, <3>4
  <2>3. Pause(p, "none") \in {u, HandlePause(u)}
    BY <2>1 DEF Pause
  <2> HIDE DEF t
  <2>4. IsPlayer(u) /\ u.status = 38 /\ u.mb = "off" /\ u.v24 = t.v24
    <3>1. IsPlayer(PowerOff(t)) /\ Same(t, PowerOff(t)) /\ PowerOff(t).v24 = t.v24
      BY ZenonT(120), <2>2, PowerOffKeeps DEF Keeps, PowerOff, IsPlayer, Fields
    <3> QED
      BY <2>2, <3>1 DEF Same
  <2> HIDE DEF u
  <2>5. IsPlayer(w) /\ w.exc = "other" /\ w.status = 38 /\ w.v24 = u.v24
    BY ZenonT(120), <2>4, RaiseKeeps, ExcValues DEF SendCmd, Usable, Raise, Keeps, IsPlayer, Fields
  <2> HIDE DEF w
  <2>6. HandlePause(u) = w
    BY <2>4, <2>5 DEF HandlePause, Then, w
  <2>7. HeadKind = "LASER" => ~p.v24
    BY ZenonT(120), <1>1 DEF Held
  <2>8. u.status \notin {48, 50} /\ w.status \notin {48, 50}
    BY <2>4, <2>5
  <2>9. Held(u) /\ Held(w)
    BY <2>2, <2>4, <2>5, <2>7, <2>8, Elsewhere
  <2> QED
    BY <2>3, <2>4, <2>5, <2>6, <2>9
<1> QED
  BY <1>1, <1>2, <1>3, <1>4, SteadyHeld

LEMMA RequestHeld ==
    ASSUME SupplyInv, NEW r \in AllRequests, Request(r)
    PROVE  Held(p')
<1>1. PICK a \in {Pause(p, "none"), Resume(p), SoftAbort(p), SetToolheadOperation(p),
                  SetToolheadStandby(p), SetToolheadHeater(p, "hot"),
                  SetToolheadHeater(p, "off"), LoadFilament(p)} : p' = Quiet(a)
  BY DEF Request, Step, AllRequests
<1>2. IsPlayer(p) /\ Held(p) /\ p.exc = "none" /\ "hot" \in Targets /\ "off" \in Targets
  BY TargetValues DEF SupplyInv, IInv, Sound
<1>3. IsPlayer(a) /\ Held(a)
  <2>1. IsPlayer(SoftAbort(p)) /\ Held(SoftAbort(p))
    BY <1>2, SoftAbortHeld
  <2>2. CASE p.mb # "off"
    <3>1. Live(p)
      BY <2>2, LiveNow DEF SupplyInv
    <3>2. /\ Held(Pause(p, "none")) /\ IsPlayer(Pause(p, "none"))
          /\ Held(Resume(p)) /\ IsPlayer(Resume(p))
      BY <1>2, <3>1, PauseHeld, PauseLeads, ErrorValues, ResumeRequestHeld, ResumeLeads,
         LivePlayer DEF Leads
    <3>3. /\ Held(SetToolheadOperation(p)) /\ IsPlayer(SetToolheadOperation(p))
          /\ Held(SetToolheadStandby(p)) /\ IsPlayer(SetToolheadStandby(p))
      BY <1>2, <3>1, SetToolheadOperationHeld, SetToolheadOperationLeads,
         SetToolheadStandbyHeld, SetToolheadStandbyLeads, LivePlayer DEF Leads
    <3>4. \A v \in {"hot", "off"} :
              Held(SetToolheadHeater(p, v)) /\ IsPlayer(SetToolheadHeater(p, v))
      BY <1>2, <3>1, SetToolheadHeaterHeld, SetToolheadHeaterLeads, LivePlayer DEF Leads
    <3>5. Held(LoadFilament(p)) /\ IsPlayer(LoadFilament(p))
      BY <1>2, <3>1, LoadFilamentHeld, LoadFilamentLeads, LivePlayer DEF Leads
    <3> QED
      BY <1>1, <2>1, <3>2, <3>3, <3>4, <3>5
  <2>3. CASE p.mb = "off"
    <3>1. p.status \in {4, 38, 128}
      BY <2>3 DEF SupplyInv, IInv, Open
    <3>2. Resume(p) = p /\ SetToolheadOperation(p) = p /\ SetToolheadStandby(p) = p
      BY <3>1 DEF Resume, Paused, SetToolheadOperation, SetToolheadStandby
    <3>3. /\ SetToolheadHeater(p, "hot") = p /\ SetToolheadHeater(p, "off") = p
          /\ LoadFilament(p) = p
      <4>1. p.status # 48
        BY <3>1
      <4>2. SetToolheadHeater(p, "hot") = p /\ SetToolheadHeater(p, "off") = p
        BY <4>1 DEF SetToolheadHeater
      <4>3. LoadFilament(p) = p
        BY <4>1 DEF LoadFilament
      <4> QED
        BY <4>2, <4>3
    <3>4. Held(Pause(p, "none")) /\ IsPlayer(Pause(p, "none"))
      BY <2>3, OffPauseHeld
    <3> QED
      BY <1>1, <1>2, <2>1, <3>2, <3>3, <3>4
  <2> QED
    BY <2>2, <2>3
<1> QED
  BY <1>1, <1>3, HeldStill

-----------------------------------------------------------------------------
(* The theorems of the supply. *)

LEMMA NextHeld ==
    ASSUME SupplyInv, Next
    PROVE  Held(p')
<1>1. CASE MbReady \/ MbExecutes \/ MbCtrl \/ \E k \in 0..BufSize : MbLn(k)
  BY <1>1, MbReadyHeld, MbExecutesHeld, MbCtrlHeld, MbLnHeld
<1>2. CASE MbRunout \/ MbFails
  BY <1>2, MbRunoutHeld, MbFailsHeld
<1>3. CASE HeadHello \/ HeadOk \/ HeadEr \/ HeadPong \/ HeadRestarts \/ Temperature
  BY <1>3, HeadHelloHeld, HeadOkHeld, HeadErHeld, HeadPongHeld, HeadRestartsHeld,
     TemperatureHeld
<1>4. CASE LoopOffline \/ \E ping \in BOOLEAN : Loop(ping)
  BY <1>4, LoopOfflineHeld, LoopHeld
<1>5. CASE \E r \in AllRequests : Request(r)
  BY <1>5, RequestHeld
<1> QED
  BY <1>1, <1>2, <1>3, <1>4, <1>5 DEF Next

LEMMA InitHeld ==
    ASSUME Init
    PROVE  SupplyInv
<1>1. p.status = 4 /\ p.v24 = FALSE
  BY DEF Init
<1>2. p.status \notin {48, 50}
  BY <1>1
<1> QED
  BY <1>1, <1>2, Elsewhere, InitInv DEF SupplyInv

LEMMA NextSupply ==
    ASSUME SupplyInv, [Next]_vars
    PROVE  SupplyInv'
<1>1. IInv'
  BY NextInv DEF SupplyInv
<1>2. Held(p')
  BY NextHeld DEF SupplyInv, vars
<1>3. scenario' = scenario
  BY NextBounds DEF SupplyInv, vars
<1>4. Held(p)'
  BY ZenonT(120), <1>2, <1>3 DEF Held, HeadKind
<1> QED
  BY <1>1, <1>4 DEF SupplyInv

\* What is kept of the supply is kept by every step.
THEOREM SupplyInvariant == Spec => []SupplyInv
<1> QED
  BY InitHeld, NextSupply, PTL DEF Spec

\* While paused, the heater has its supply only when the user asked for it, or until the
\* head confirms the standby that is on its way (_toolhead_paused,
\* set_toolhead_operation, set_toolhead_standby): however the head was lost, greeted or
\* confirmed something else in between.
THEOREM StandbyIsKept == Spec => []StandbyWhenPaused
<1>1. SupplyInv => StandbyWhenPaused
  BY ZenonT(120) DEF SupplyInv, Held, StandbyWhenPaused
<1> QED
  BY <1>1, SupplyInvariant, PTL
=============================================================================
