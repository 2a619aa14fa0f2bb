-------------------------- MODULE FcodeExecutorProofs --------------------------
(***************************************************************************)
(* Proofs about FcodeExecutor, for every set of scenarios: the type of the *)
(* player's state, that the job is carried out in order and completed only *)
(* when all of it was, and that an end is final.                           *)
(*                                                                         *)
(* A handler is an operator from state to state, so the proof follows the  *)
(* calls: Leads(s, t) says that a part of a handler that starts in a sound *)
(* state s ends in a sound state t, and keeps the end of the job if there  *)
(* was one; it composes, and there is one lemma per operator.  The         *)
(* invariant IInv adds to Sound what is true only between two handlers.    *)
(***************************************************************************)
EXTENDS FcodeExecutor, SequenceTheorems, WellFoundedInduction, TLAPS

-----------------------------------------------------------------------------
(* The inductive invariant. *)

\* The values of the fields, as sets with a name.
Statuses == Starting \cup Running \cup Ended
Errors == {"none", "head lost", "other"}
Excs == {"none", "other", "system", "hardware", "head lost"}
Stashes == {"none", "stashing", "stashed"}
Macros == MacroKinds \cup {"none", "job heat", "soft abort"}
TaskSeqs == Seq(MacroKinds)
Bools == BOOLEAN
Probes == Readings \cup {"none", "converged"}
Rounds == 0..Ttl
LoadStates == {"none", "to send", "sent"}
Indices == 1..Home
MbStates == {"off", "ready", "error", "closing"}
CommandSeqs == Seq(Commands)
Ctrls == Readings \cup {"none", "STASH", "STASH_POP"}
HeadStates == {"INIT", "BOOTING", "RUNNING"}
Outs == Levels \cup {"none", "fan", "standby"}
HeadCommands == {"standby", "low"} \cup Hots
HeadSeqs == Seq(HeadCommands)
Callbacks == {"none", "recovered", "paused", "close"}
AllsetCallbacks == {"none", "task", "job", "resume"}
Wants == {"unset", "low"} \cup Hots
HeadReadings == {"none", "cold", "warm"} \cup Hots
Errnos == {"none", "shake", "hardware"}
Temps == {"cold", "warm"} \cup Hots
IndexSeqs == Seq(Indices)

Fields ==
    {"status", "error", "exc", "stash", "macro", "tasks", "probing", "probe", "round", "heatTo",
     "retracting", "pausedMacro", "control", "closed", "next", "fed", "mb", "queue", "fin",
     "ctrl", "parked", "th", "out", "hq", "updating", "cb", "allsetCb", "want", "rt",
     "errno", "power", "v24", "heat", "temp", "wasReset", "did"}

\* A state of the player, also in the middle of a handler.
IsPlayer(s) ==
    /\ DOMAIN s = Fields
    /\ s.status \in Statuses /\ s.error \in Errors /\ s.exc \in Excs
    /\ s.stash \in Stashes /\ s.macro \in Macros /\ s.tasks \in TaskSeqs
    /\ s.probing \in Bools /\ s.probe \in Probes /\ s.round \in Rounds /\ s.heatTo \in Targets
    /\ s.retracting \in Bools /\ s.pausedMacro \in LoadStates
    /\ s.control \in Bools /\ s.closed \in Bools
    /\ s.next \in Nat /\ s.fed \in Nat
    /\ s.mb \in MbStates /\ s.queue \in CommandSeqs /\ s.fin \in Nat
    /\ s.ctrl \in Ctrls /\ s.parked \in Bools
    /\ s.th \in HeadStates /\ s.out \in Outs /\ s.hq \in HeadSeqs
    /\ s.updating \in Bools /\ s.cb \in Callbacks /\ s.allsetCb \in AllsetCallbacks
    /\ s.want \in Wants /\ s.rt \in HeadReadings /\ s.errno \in Errnos
    /\ s.power \in Bools /\ s.v24 \in Bools /\ s.heat \in Levels /\ s.temp \in Temps
    /\ s.wasReset \in Bools /\ s.did \in IndexSeqs

\* The job commands that the mainboard still has to carry out.
Waiting(queue, fin) == {a \in fin+1..Len(queue) : queue[a].op = "job"}

\* The buffer holds, after what is finished, the moves taken since; they follow what
\* was carried out.
Ordered(did, queue, fin, next) ==
    /\ fin <= Len(queue) /\ Len(queue) <= BufSize
    /\ \A j \in 1..Len(did) : Carried(did[j]) /\ did[j] < next
    /\ \A j, k \in 1..Len(did) : j < k => did[j] < did[k]
    /\ \A a \in Waiting(queue, fin) :
           /\ Carried(queue[a].i) /\ queue[a].i < next
           /\ \A j \in 1..Len(did) : did[j] < queue[a].i
           /\ \A b \in Waiting(queue, fin) : b < a => queue[b].i < queue[a].i

\* No command taken from the queue is neither carried out nor in the buffer.
NoGap(did, queue, fin, next) ==
    \A i \in 1..next-1 : Carried(i) =>
        \/ \E j \in 1..Len(did) : did[j] = i
        \/ \E a \in Waiting(queue, fin) : queue[a].i = i

Reading(status, next, fed) ==
    /\ next >= 1 /\ next <= fed + 1 /\ fed <= Home
    /\ status \in Starting => fed = 0
    /\ status = 64 => next = Home + 1

Sound(s) ==
    /\ scenario \in Scenarios
    /\ IsPlayer(s)
    /\ Ordered(s.did, s.queue, s.fin, s.next)
    /\ s.status # 128 => NoGap(s.did, s.queue, s.fin, s.next)
    /\ Reading(s.status, s.next, s.fed)
    /\ s.status = 64 => s.queue = <<>> /\ s.mb = "closing"

\* The mainboard is closed only when the job has ended; before it is greeted, nothing
\* is sent.
Open(s) ==
    /\ s.mb = "closing" => s.status \in Ended
    /\ s.mb = "off" => /\ s.status \in {4, 38, 128} /\ s.queue = <<>> /\ s.fed = 0
                       /\ s.th = "INIT" /\ s.out = "none" /\ ~s.updating
                       /\ s.ctrl = "none"

IInv ==
    /\ Sound(p) /\ Open(p) /\ p.exc = "none"
    /\ requests \in 0..scenario.maxRequests /\ faults \in 0..scenario.maxFaults
    /\ scenario \in Scenarios

-----------------------------------------------------------------------------
(* The loop over the commands that were read. *)

\* Induction over the naturals, for a set.
LEMMA Induct ==
    ASSUME NEW B, 0 \in B, \A n \in Nat : n \in B => n + 1 \in B
    PROVE  Nat \subseteq B
<1> DEFINE Out == {n \in Nat : n \notin B}
<1>1. SUFFICES ASSUME Out # {} PROVE FALSE
  OBVIOUS
<1>2. PICK m \in Out : \A k \in Out : ~(<<k, m>> \in OpToRel(<, Nat))
  <2>1. Out \subseteq Nat
    OBVIOUS
  <2> QED
    BY <1>1, <2>1, NatLessThanWellFounded, WFMin
<1>3. m \in Nat /\ m \notin B /\ m # 0
  OBVIOUS
<1>4. m - 1 \in Nat /\ (m - 1) + 1 = m /\ m - 1 < m
  BY <1>3
<1>5. m - 1 \notin Out
  <2>1. ASSUME m - 1 \in Out PROVE FALSE
    <3>1. ~(<<m - 1, m>> \in OpToRel(<, Nat))
      BY <1>2, <2>1
    <3> QED
      BY <3>1, <1>3, <1>4 DEF OpToRel
  <2> QED
    BY <2>1
<1>6. m - 1 \in B
  BY <1>4, <1>5
<1> QED
  BY <1>3, <1>4, <1>6

\* The first n turns of the loop.
Turns(s, f, n) ==
    /\ f[0] = [s |-> s, go |-> TRUE]
    /\ \A i \in 1..n : f[i] = Turn(f[i - 1])

LEMMA TurnsExist ==
    ASSUME NEW s
    PROVE  \A n \in Nat : \E f : Turns(s, f, n)
<1> DEFINE B == {n \in Nat : \E f : Turns(s, f, n)}
<1>1. 0 \in B
  <2> DEFINE f == [i \in {0} |-> [s |-> s, go |-> TRUE]]
  <2>1. Turns(s, f, 0)
    BY DEF Turns
  <2> QED
    BY <2>1
<1>2. ASSUME NEW n \in Nat, n \in B
      PROVE  n + 1 \in B
  <2>1. PICK f : Turns(s, f, n)
    BY <1>2
  <2> DEFINE g == [i \in 0..n+1 |-> IF i = n + 1 THEN Turn(f[n]) ELSE f[i]]
  <2>2. g[0] = [s |-> s, go |-> TRUE]
    BY <2>1 DEF Turns
  <2>3. ASSUME NEW i \in 1..n+1
        PROVE  g[i] = Turn(g[i - 1])
    <3>1. CASE i = n + 1
      <4>1. g[i] = Turn(f[n]) /\ i - 1 = n /\ g[n] = f[n]
        BY <3>1
      <4> QED
        BY <4>1
    <3>2. CASE i # n + 1
      <4>1. i \in 1..n /\ i - 1 \in 0..n+1 /\ i - 1 # n + 1
        BY <3>2
      <4>2. g[i] = f[i] /\ g[i - 1] = f[i - 1]
        BY <4>1, <3>2
      <4>3. f[i] = Turn(f[i - 1])
        BY <2>1, <4>1 DEF Turns
      <4> QED
        BY <4>2, <4>3
    <3> QED
      BY <3>1, <3>2
  <2>4. Turns(s, g, n + 1)
    <3> HIDE DEF g
    <3> QED
      BY <2>2, <2>3 DEF Turns
  <2> QED
    BY <2>4
<1>3. Nat \subseteq B
  <2> HIDE DEF B
  <2> QED
    BY <1>1, <1>2, Induct
<1> QED
  BY <1>3

LEMMA TurnsAgree ==
    ASSUME NEW s, NEW f, NEW g, NEW m \in Nat, NEW n \in Nat,
           Turns(s, f, m), Turns(s, g, n)
    PROVE  \A k \in Nat : k <= m /\ k <= n => f[k] = g[k]
<1> DEFINE B == {k \in Nat : k <= m /\ k <= n => f[k] = g[k]}
<1>1. 0 \in B
  BY DEF Turns
<1>2. ASSUME NEW k \in Nat, k \in B
      PROVE  k + 1 \in B
  <2>1. SUFFICES ASSUME k + 1 <= m, k + 1 <= n PROVE f[k + 1] = g[k + 1]
    OBVIOUS
  <2>2. f[k] = g[k]
    BY <1>2, <2>1
  <2>3. k + 1 \in 1..m /\ k + 1 \in 1..n /\ (k + 1) - 1 = k
    BY <2>1
  <2> QED
    BY <2>2, <2>3 DEF Turns
<1>3. Nat \subseteq B
  <2> HIDE DEF B
  <2> QED
    BY <1>1, <1>2, Induct
<1> QED
  BY <1>3

\* Drain is the state after as many turns as there were commands.
LEMMA DrainTurns ==
    ASSUME NEW s, CmdQueueLen(s) \in Nat
    PROVE  \E f : Turns(s, f, CmdQueueLen(s)) /\ Drain(s) = f[CmdQueueLen(s)].s
<1> DEFINE w(n) == CHOOSE f : Turns(s, f, n)
           first == [s |-> s, go |-> TRUE]
           all == [n \in Nat |-> w(n)[n]]
           Body(f) == [n \in Nat |-> IF n = 0 THEN first ELSE Turn(f[n - 1])]
           turns == CHOOSE f : f = Body(f)
<1>1. \A n \in Nat : Turns(s, w(n), n)
  BY TurnsExist
<1>2. all[0] = first
  BY <1>1 DEF Turns
<1>3. ASSUME NEW n \in Nat, n # 0
      PROVE  all[n] = Turn(all[n - 1])
  <2>1. n - 1 \in Nat /\ n \in 1..n /\ n - 1 <= n /\ n - 1 <= n - 1
    BY <1>3
  <2>2. w(n)[n] = Turn(w(n)[n - 1])
    BY <1>1, <2>1 DEF Turns
  <2>3. w(n)[n - 1] = w(n - 1)[n - 1]
    <3> HIDE DEF w
    <3> QED
      BY <1>1, <2>1, TurnsAgree
  <2> QED
    BY <2>1, <2>2, <2>3
<1>4. all = Body(all)
  <2> HIDE DEF all, first
  <2>1. all = [n \in Nat |-> all[n]]
    BY DEF all
  <2>2. \A n \in Nat : all[n] = IF n = 0 THEN first ELSE Turn(all[n - 1])
    BY <1>2, <1>3
  <2> QED
    BY <2>1, <2>2
<1>5. turns = Body(turns)
  <2> HIDE DEF all
  <2> QED
    BY <1>4
<1>6. Turns(s, turns, CmdQueueLen(s))
  <2> HIDE DEF turns, first
  <2>1. \A n \in Nat : turns[n] = IF n = 0 THEN first ELSE Turn(turns[n - 1])
    BY <1>5
  <2>2. turns[0] = first
    BY <2>1
  <2>3. \A i \in 1..CmdQueueLen(s) : i \in Nat /\ i # 0
    OBVIOUS
  <2>4. \A i \in 1..CmdQueueLen(s) : turns[i] = Turn(turns[i - 1])
    BY <2>1, <2>3
  <2> QED
    BY <2>2, <2>4 DEF Turns, first
<1>7. Drain(s) = turns[CmdQueueLen(s)].s
  BY DEF Drain
<1> QED
  BY <1>6, <1>7
-----------------------------------------------------------------------------
(* What one part of a handler does to the state: it leads from s to t. *)

Live(s) ==
    /\ Sound(s)
    /\ s.mb # "off"
    /\ s.mb = "closing" => s.status \in Ended

Leads(s, t) == Live(t) /\ (s.status \in Ended => t.status = s.status)

\* What Sound speaks of beyond the types.
Same(s, t) ==
    /\ t.status = s.status /\ t.next = s.next /\ t.fed = s.fed /\ t.mb = s.mb
    /\ t.queue = s.queue /\ t.fin = s.fin /\ t.did = s.did

\* The values of the fields, one by one.
LEMMA StatusValues ==
    /\ 4 \in Statuses /\ 6 \in Statuses /\ 16 \in Statuses /\ 18 \in Statuses
       /\ 36 \in Statuses /\ 38 \in Statuses /\ 48 \in Statuses /\ 50 \in Statuses
       /\ 64 \in Statuses /\ 128 \in Statuses
    /\ \A v \in Statuses : v \in {4, 6, 16, 18, 36, 38, 48, 50, 64, 128}
BY DEF Statuses, Starting, Running, Ended

LEMMA ErrorValues ==
    "none" \in Errors /\ "head lost" \in Errors /\ "other" \in Errors
BY DEF Errors

LEMMA ExcValues ==
    /\ "none" \in Excs /\ "other" \in Excs /\ "system" \in Excs /\ "hardware" \in Excs
       /\ "head lost" \in Excs
    /\ \A v \in Excs : v \in {"none", "other", "system", "hardware", "head lost"}
BY DEF Excs

LEMMA StashValues ==
    /\ "none" \in Stashes /\ "stashing" \in Stashes /\ "stashed" \in Stashes
    /\ \A v \in Stashes : v \in {"none", "stashing", "stashed"}
BY DEF Stashes

LEMMA MacroValues ==
    /\ "none" \in Macros /\ "startup" \in Macros /\ "heat" \in Macros
       /\ "probe" \in Macros /\ "job heat" \in Macros /\ "soft abort" \in Macros
    /\ \A v \in Macros : v \in {"none", "startup", "heat", "probe", "job heat", "soft abort"}
BY DEF Macros, MacroKinds

LEMMA ProbeValues ==
    "none" \in Probes /\ "converged" \in Probes /\ \A r \in Readings : r \in Probes
BY DEF Probes

LEMMA LoadValues ==
    "none" \in LoadStates /\ "to send" \in LoadStates /\ "sent" \in LoadStates
BY DEF LoadStates

LEMMA MbValues ==
    /\ "off" \in MbStates /\ "ready" \in MbStates /\ "error" \in MbStates
       /\ "closing" \in MbStates
    /\ \A v \in MbStates : v \in {"off", "ready", "error", "closing"}
BY DEF MbStates

LEMMA CtrlValues ==
    /\ "none" \in Ctrls /\ "STASH" \in Ctrls /\ "STASH_POP" \in Ctrls
    /\ \A r \in Readings : r \in Ctrls
BY DEF Ctrls

LEMMA HeadValues ==
    /\ "INIT" \in HeadStates /\ "BOOTING" \in HeadStates /\ "RUNNING" \in HeadStates
    /\ \A v \in HeadStates : v \in {"INIT", "BOOTING", "RUNNING"}
BY DEF HeadStates

LEMMA OutValues ==
    /\ "none" \in Outs /\ "fan" \in Outs
    /\ \A v \in Levels \cup HeadCommands : v \in Outs
    /\ \A v \in Outs : v \in Levels \cup {"none", "fan", "standby"}
BY DEF Outs, HeadCommands, Levels

LEMMA CallbackValues ==
    /\ "none" \in Callbacks /\ "recovered" \in Callbacks /\ "paused" \in Callbacks
       /\ "close" \in Callbacks
    /\ \A v \in Callbacks : v \in {"none", "recovered", "paused", "close"}
BY DEF Callbacks

LEMMA AllsetValues ==
    /\ "none" \in AllsetCallbacks /\ "task" \in AllsetCallbacks
       /\ "job" \in AllsetCallbacks /\ "resume" \in AllsetCallbacks
    /\ \A v \in AllsetCallbacks : v \in {"none", "task", "job", "resume"}
BY DEF AllsetCallbacks

LEMMA ReadingValues ==
    "none" \in HeadReadings /\ \A v \in Temps : v \in HeadReadings
BY DEF HeadReadings, Temps

LEMMA ErrnoValues ==
    "none" \in Errnos /\ "shake" \in Errnos /\ "hardware" \in Errnos
BY DEF Errnos

LEMMA TempValues ==
    /\ "cold" \in Temps
    /\ \A v \in Temps : Warmer(v) \in Temps /\ Cooler(v) \in Temps
BY DEF Temps, Hots, Warmer, Cooler

LEMMA TargetValues ==
    /\ "hot" \in Targets /\ "off" \in Targets /\ "off" \in Levels
    /\ \A v \in Targets : v = "excess" \/ v \in Levels
    /\ "standby" \in HeadCommands
BY DEF Targets, Levels, Hots, HeadCommands

LEMMA WantValues ==
    /\ "unset" \in Wants
    /\ \A v \in Targets : v \notin {"excess", "off"} => v \in Wants
    /\ \A v \in Wants : v # "unset" => v \in HeadCommands
BY DEF Wants, Targets, Hots, HeadCommands

LEMMA RoundValues ==
    /\ 0 \in Rounds
    /\ \A r \in Rounds : r < Ttl => r + 1 \in Rounds
BY ExecutorConstants DEF Rounds

LEMMA ScenarioType ==
    ASSUME scenario \in Scenarios
    PROVE  /\ BufSize \in Nat /\ BufSize > 1
           /\ Job \in Seq(FileCommands) /\ Len(Job) \in Nat /\ Home \in Nat /\ Home = Len(Job) + 1
           /\ InitMacros \in TaskSeqs /\ HeadKind \in {"EXTRUDER", "LASER"}
BY ExecutorConstants DEF IsScenario, BufSize, Job, Home, InitMacros, TaskSeqs, HeadKind

\* A heater command has a target.
LEMMA TargetType ==
    ASSUME scenario \in Scenarios, NEW i \in 1..Home, Kind(i) \in Heats
    PROVE  Target(i) \in Targets
<1>1. i # Home
  BY DEF Kind, Heats
<1>2. Job[i] \in FileCommands
  BY <1>1, ScenarioType
<1>3. Job[i].kind \in Heats
  BY <1>1 DEF Kind
<1>4. Job[i] \in [kind : Heats, to : Targets]
  BY <1>2, <1>3 DEF FileCommands
<1> QED
  BY <1>4 DEF Target

LEMMA Booleans ==
    /\ \A b \in BOOLEAN : b \in Bools
    /\ TRUE \in Bools /\ FALSE \in Bools
BY DEF Bools

LEMMA Ends == Ended = {64, 128}
BY DEF Ended

LEMMA Stays ==
    ASSUME NEW s, Live(s)
    PROVE  Leads(s, s)
BY DEF Leads

LEMMA LeadsOn ==
    ASSUME NEW s, NEW t, NEW u, Leads(s, t), Leads(t, u)
    PROVE  Leads(s, u)
BY DEF Leads

LEMMA Frame ==
    ASSUME NEW s, NEW t, Live(s), IsPlayer(t), Same(s, t)
    PROVE  Leads(s, t)
BY DEF Leads, Live, Sound, Same

LEMMA NewStatus ==
    ASSUME NEW s, NEW t, Live(s), IsPlayer(t),
           Same(s, [t EXCEPT !.status = s.status]),
           s.status \notin Ended, t.status # 64,
           t.status \in Starting => s.status \in Starting
    PROVE  Leads(s, t)
<1>1. /\ t.next = s.next /\ t.fed = s.fed /\ t.mb = s.mb
      /\ t.queue = s.queue /\ t.fin = s.fin /\ t.did = s.did
  BY DEF Same
<1>2. s.status # 128 /\ s.status # 64
  BY Ends
<1> QED
  BY <1>1, <1>2 DEF Leads, Live, Sound, Reading

-----------------------------------------------------------------------------
(* What the player asks of the controllers and of hal. *)

LEMMA SendCmdLeads ==
    ASSUME NEW s, Live(s), NEW c \in Commands, c.op # "job"
    PROVE  Leads(s, SendCmd(s, c))
<1> DEFINE q == Append(s.queue, c)
           t == [s EXCEPT !.queue = Append(@, c)]
           u == [s EXCEPT !.exc = "other"]
<1>1. IsPlayer(s)
  BY DEF Live, Sound
<1>2. IsPlayer(u) /\ Same(s, u)
  BY ZenonT(120), <1>1, ExcValues DEF IsPlayer, Fields, Same
<1>3. Leads(s, u)
  BY <1>2, Frame
<1>4. q \in CommandSeqs /\ Len(q) = Len(s.queue) + 1 /\ s.queue \in CommandSeqs
      /\ q[Len(s.queue) + 1] = c /\ \A a \in 1..Len(s.queue) : q[a] = s.queue[a]
  BY <1>1 DEF IsPlayer, CommandSeqs
<1>5. IsPlayer(t) /\ t.queue = q /\ t.status = s.status /\ t.next = s.next /\ t.fed = s.fed
      /\ t.mb = s.mb /\ t.fin = s.fin /\ t.did = s.did
  <2> HIDE DEF q
  <2>1. t = [s EXCEPT !.queue = q]
    BY DEF q
  <2> QED
    BY ZenonT(120), <1>1, <1>4, <2>1 DEF IsPlayer, Fields
<1>6. ASSUME Usable(s), BufferedCmdSize(s) < BufSize
      PROVE  Leads(s, t)
  <2>1. Len(s.queue) \in Nat /\ s.fin \in Nat /\ s.fin <= Len(s.queue) /\ Len(s.queue) < BufSize
    BY <1>1, <1>4, <1>6 DEF Live, Sound, IsPlayer, Ordered, BufferedCmdSize, CommandSeqs
  <2>2. Waiting(q, s.fin) = Waiting(s.queue, s.fin)
    <3> HIDE DEF q
    <3>1. \A a \in s.fin+1..Len(q) : a \in s.fin+1..Len(s.queue) \/ a = Len(s.queue) + 1
      BY <1>4, <2>1
    <3>2. \A a \in s.fin+1..Len(s.queue) : a \in s.fin+1..Len(q) /\ a \in 1..Len(s.queue)
      BY <1>4, <2>1
    <3> QED
      BY <1>4, <3>1, <3>2 DEF Waiting
  <2>3. \A a \in Waiting(s.queue, s.fin) : q[a] = s.queue[a]
    BY <1>4, <2>1 DEF Waiting
  <2>4. Ordered(s.did, q, s.fin, s.next)
    <3> HIDE DEF q
    <3>1. s.fin <= Len(q) /\ Len(q) <= BufSize
      <4>1. BufSize \in Nat
        BY ScenarioType DEF Live, Sound
      <4> QED
        BY <1>4, <2>1, <4>1
    <3> QED
      BY <3>1, <2>2, <2>3 DEF Ordered, Live, Sound
  <2>5. s.status # 128 => NoGap(s.did, q, s.fin, s.next)
    BY <2>2, <2>3 DEF Live, Sound, NoGap
  <2>6. s.status # 64
    BY <1>4, <1>6 DEF Usable, Live, Sound, Ended
  <2> HIDE DEF q, t
  <2> QED
    BY <1>5, <2>4, <2>5, <2>6 DEF Live, Sound, Leads
<1> QED
  BY <1>3, <1>6 DEF SendCmd, Raise

\* What does not touch what Sound speaks of.
Keeps(s, t) == IsPlayer(t) /\ Same(s, t)

LEMMA KeepsOn ==
    ASSUME NEW s, NEW t, NEW u, Keeps(s, t), Keeps(t, u)
    PROVE  Keeps(s, u)
BY DEF Keeps, Same

LEMMA KeepsLeads ==
    ASSUME NEW s, NEW t, Live(s), Keeps(s, t)
    PROVE  Leads(s, t)
BY Frame DEF Keeps

LEMMA LivePlayer ==
    ASSUME NEW s, Live(s)
    PROVE  IsPlayer(s)
BY DEF Live, Sound

\* Sequences of commands for the head.
LEMMA HeadSeqsHave ==
    /\ <<>> \in HeadSeqs
    /\ \A q \in HeadSeqs : \A v \in HeadCommands : Append(q, v) \in HeadSeqs
    /\ \A q \in HeadSeqs : q # <<>> => Head(q) \in HeadCommands /\ Tail(q) \in HeadSeqs
BY DEF HeadSeqs

LEMMA RaiseKeeps ==
    ASSUME NEW s, IsPlayer(s), NEW e \in Excs
    PROVE  Keeps(s, Raise(s, e))
BY DEF Raise, IsPlayer, Fields, Keeps, Same

LEMMA QuietKeeps ==
    ASSUME NEW s, IsPlayer(s)
    PROVE  Keeps(s, Quiet(s))
BY ZenonT(120), ExcValues DEF Quiet, IsPlayer, Fields, Keeps, Same

LEMMA ToHeadKeeps ==
    ASSUME NEW s, IsPlayer(s), NEW c \in Outs
    PROVE  Keeps(s, ToHead(s, c))
BY ZenonT(120), ExcValues DEF ToHead, Raise, IsPlayer, Fields, Keeps, Same

LEMMA ToolheadBootstrapKeeps ==
    ASSUME NEW s, IsPlayer(s)
    PROVE  Keeps(s, ToolheadBootstrap(s))
BY HeadValues, OutValues, ErrnoValues, HeadSeqsHave DEF ToolheadBootstrap, IsPlayer, Fields, Keeps, Same

LEMMA ToolheadResetKeeps ==
    ASSUME NEW s, IsPlayer(s)
    PROVE  Keeps(s, ToolheadReset(s))
BY HeadValues, ReadingValues, ErrnoValues, AllsetValues DEF ToolheadReset, IsPlayer, Fields, Keeps, Same

LEMMA PowerOnKeeps ==
    ASSUME NEW s, IsPlayer(s)
    PROVE  Keeps(s, PowerOn(s))
BY ZenonT(120), Booleans DEF PowerOn, IsPlayer, Fields, Keeps, Same

LEMMA PowerOffKeeps ==
    ASSUME NEW s, IsPlayer(s)
    PROVE  Keeps(s, PowerOff(s))
BY ZenonT(120), Booleans, TargetValues DEF PowerOff, IsPlayer, Fields, Keeps, Same

LEMMA SetOperatingKeeps ==
    ASSUME NEW s, IsPlayer(s)
    PROVE  Keeps(s, SetOperating(s))
BY ZenonT(120), Booleans DEF SetOperating, IsPlayer, Fields, Keeps, Same

LEMMA SetStandbyKeeps ==
    ASSUME NEW s, IsPlayer(s)
    PROVE  Keeps(s, SetStandby(s))
BY ZenonT(120), Booleans DEF SetStandby, IsPlayer, Fields, Keeps, Same

LEMMA CloseKeeps ==
    ASSUME NEW s, IsPlayer(s)
    PROVE  Keeps(s, Close(s))
BY ZenonT(120), Booleans DEF Close, IsPlayer, Fields, Keeps, Same

LEMMA PopToHeadKeeps ==
    ASSUME NEW s, IsPlayer(s)
    PROVE  Keeps(s, PopToHead(s))
<1> DEFINE t == [s EXCEPT !.hq = Tail(@)]
<1>1. CASE s.hq = <<>>
  BY <1>1 DEF PopToHead, Keeps, Same
<1>2. CASE s.hq # <<>>
  <2>1. Head(s.hq) \in Outs
    BY <1>2, HeadSeqsHave, OutValues DEF IsPlayer
  <2>2. Keeps(s, t)
    BY <1>2, <2>1, HeadSeqsHave DEF IsPlayer, Fields, Keeps, Same
  <2> HIDE DEF t
  <2>3. Keeps(t, ToHead(t, Head(s.hq)))
    BY <2>1, <2>2, ToHeadKeeps DEF Keeps
  <2>4. PopToHead(s) = ToHead(t, Head(s.hq))
    BY <1>2 DEF PopToHead, t
  <2> QED
    BY <2>2, <2>3, <2>4, KeepsOn
<1> QED
  BY <1>1, <1>2

LEMMA SetHeaterKeeps ==
    ASSUME NEW s, IsPlayer(s), NEW v \in Targets
    PROVE  Keeps(s, SetHeater(s, v))
<1> DEFINE t == [s EXCEPT !.want = IF v = "off" THEN "unset" ELSE v]
<1>1. CASE v = "excess"
  BY <1>1, RaiseKeeps, ExcValues DEF SetHeater
<1>2. CASE v # "excess"
  <2>1. (IF v = "off" THEN "unset" ELSE v) \in Wants /\ v \in Outs
    BY <1>2, WantValues, TargetValues, OutValues
  <2>2. Keeps(s, t)
    BY <2>1 DEF IsPlayer, Fields, Keeps, Same
  <2> HIDE DEF t
  <2>3. Keeps(t, ToHead(t, v))
    BY <2>1, <2>2, ToHeadKeeps DEF Keeps
  <2> QED
    BY <1>2, <2>2, <2>3, KeepsOn DEF SetHeater, t
<1> QED
  BY <1>1, <1>2

LEMMA StandbyKeeps ==
    ASSUME NEW s, IsPlayer(s), NEW called, Keeps(s, called), NEW cb \in Callbacks
    PROVE  Keeps(s, Standby(s, cb, called))
<1> DEFINE t == [s EXCEPT !.hq = Append(@, "standby"), !.cb = cb]
<1>1. Append(s.hq, "standby") \in HeadSeqs
  BY HeadSeqsHave, TargetValues DEF IsPlayer
<1>2. Keeps(s, t)
  BY <1>1 DEF IsPlayer, Fields, Keeps, Same
<1> HIDE DEF t
<1>3. Keeps(t, PopToHead(t))
  BY <1>2, PopToHeadKeeps DEF Keeps
<1>4. Standby(s, cb, called) \in {called, t, PopToHead(t)}
  BY DEF Standby, t
<1> QED
  BY <1>2, <1>3, <1>4, KeepsOn

-----------------------------------------------------------------------------
(* Ending. *)

\* The end of the job closes the mainboard and leaves the rest alone.
LEMMA TerminateDoes ==
    ASSUME NEW s, IsPlayer(s)
    PROVE  /\ IsPlayer(Terminate(s))
           /\ Same(s, [Terminate(s) EXCEPT !.mb = s.mb])
           /\ Terminate(s).mb = IF Usable(s) THEN "closing" ELSE s.mb
<1> DEFINE u == [s EXCEPT !.macro = "none", !.pausedMacro = "none", !.power = @ \/ ~Ready(s)]
           t == MainboardClose(u)
           v == Standby(t, "close", Close(t))
<1>1. Keeps(s, u)
  <2>1. (s.power \/ ~Ready(s)) \in Bools
    BY Booleans
  <2> QED
    BY ZenonT(120), <2>1, MacroValues, LoadValues DEF IsPlayer, Fields, Keeps, Same
<1> HIDE DEF u
<1>2. /\ IsPlayer(t) /\ Same(s, [t EXCEPT !.mb = s.mb])
      /\ t.mb = IF Usable(s) THEN "closing" ELSE s.mb
  BY <1>1, MbValues DEF IsPlayer, Fields, Keeps, Same, MainboardClose, Usable
<1> HIDE DEF t
<1>3. Keeps(t, Close(t))
  BY <1>2, CloseKeeps
<1>4. Keeps(t, v)
  BY <1>2, <1>3, StandbyKeeps, CallbackValues
<1> HIDE DEF v
<1>5. Keeps(t, SetStandby(v))
  BY <1>4, SetStandbyKeeps, KeepsOn DEF Keeps
<1>6. Terminate(s) \in {Close(t), SetStandby(v)}
  BY DEF Terminate, u, t, v
<1>7. Keeps(t, Terminate(s))
  BY <1>3, <1>5, <1>6
<1> QED
  BY <1>2, <1>7 DEF Keeps, Same, IsPlayer, Fields

LEMMA TerminateLeads ==
    ASSUME NEW s, Live(s), s.status \in Ended
    PROVE  Leads(s, Terminate(s))
<1> DEFINE t == Terminate(s)
<1>1. /\ IsPlayer(t) /\ Same(s, [t EXCEPT !.mb = s.mb])
      /\ t.mb = IF Usable(s) THEN "closing" ELSE s.mb
  BY TerminateDoes, LivePlayer
<1>2. /\ t.status = s.status /\ t.next = s.next /\ t.fed = s.fed
      /\ t.queue = s.queue /\ t.fin = s.fin /\ t.did = s.did
  BY <1>1 DEF Same
<1> HIDE DEF t
<1> QED
  BY <1>1, <1>2 DEF Live, Sound, Leads, t

LEMMA OnCompletedLeads ==
    ASSUME NEW s, Live(s), s.status = 16, s.queue = <<>>, Eof(s), CmdQueueLen(s) = 0
    PROVE  Leads(s, OnCompleted(s))
<1> DEFINE t == Terminate(s)
           u == [t EXCEPT !.status = 64]
<1>1. s.mb \in {"ready", "error"} /\ s.status \notin Ended
  BY LivePlayer, MbValues, Ends DEF Live, IsPlayer
<1>2. IsPlayer(t) /\ Same(s, [t EXCEPT !.mb = s.mb]) /\ t.mb = "closing"
  BY <1>1, TerminateDoes, LivePlayer DEF Usable
<1> HIDE DEF t
<1>3. /\ IsPlayer(u) /\ u.mb = "closing" /\ u.status = 64 /\ u.next = s.next /\ u.fed = s.fed
      /\ u.queue = s.queue /\ u.fin = s.fin /\ u.did = s.did
  <2>1. /\ t.next = s.next /\ t.fed = s.fed
        /\ t.queue = s.queue /\ t.fin = s.fin /\ t.did = s.did
    BY <1>2 DEF Same
  <2> QED
    BY <1>2, <2>1, StatusValues DEF IsPlayer, Fields
<1>4. s.fed = Home /\ s.next = Home + 1
  BY LivePlayer, ScenarioType DEF Eof, CmdQueueLen, Live, Sound, IsPlayer
<1>5. 64 \in Ended /\ 64 \notin Starting /\ s.status # 128 /\ 64 # 128
  BY <1>1, Ends DEF Starting
<1> HIDE DEF u
<1>6. Live(u)
  <2>1. Reading(u.status, u.next, u.fed)
    BY <1>3, <1>4, <1>5 DEF Live, Sound, Reading
  <2> QED
    BY <1>3, <1>5, <2>1 DEF Live, Sound
<1> QED
  BY <1>1, <1>6 DEF Leads, OnCompleted, u, t

LEMMA AbortLeads ==
    ASSUME NEW s, Live(s), NEW e \in Errors
    PROVE  Leads(s, Abort(s, e)) /\ Abort(s, e).status \in Ended
<1> DEFINE u == [s EXCEPT !.status = 128, !.error = e]
           t == Terminate(u)
<1>1. CASE s.status \in Ended
  BY <1>1, Stays DEF Abort
<1>2. CASE s.status \notin Ended
  <2>1. /\ IsPlayer(u) /\ Same(s, [u EXCEPT !.status = s.status]) /\ u.status = 128
    BY LivePlayer, StatusValues DEF IsPlayer, Fields, Same
  <2>2. 128 \in Ended /\ 128 \notin Starting
    BY DEF Ended, Starting
  <2> HIDE DEF u
  <2>3. Leads(s, u)
    BY <1>2, <2>1, <2>2, NewStatus
  <2>4. Leads(u, t)
    BY <2>1, <2>2, <2>3, TerminateLeads DEF Leads
  <2> HIDE DEF t
  <2>5. Leads(t, Close(t))
    BY <2>4, CloseKeeps, KeepsLeads, LivePlayer DEF Leads
  <2>6. /\ Leads(s, t) /\ t.status \in Ended
        /\ Leads(s, Close(t)) /\ Close(t).status \in Ended
    BY <2>1, <2>2, <2>3, <2>4, <2>5, LeadsOn DEF Leads
  <2>7. Abort(s, e) \in {t, Close(t)}
    BY <1>2 DEF Abort, u, t
  <2> QED
    BY <2>6, <2>7
<1> QED
  BY <1>1, <1>2

-----------------------------------------------------------------------------
(* Pausing and resuming. *)

\* The commands the player sends of its own, none of which is of the job.
LEMMA Sends ==
    ASSUME NEW s, Live(s), NEW o \in Ops
    PROVE  Leads(s, SendCmd(s, Cmd(o)))
<1>1. Cmd(o) \in Commands /\ Cmd(o).op # "job"
  BY DEF Cmd, Commands, Ops
<1> QED
  BY <1>1, SendCmdLeads

LEMMA OpNames ==
    \A o \in {"X5", "C2", "C2F", "G28", "macro", "probe", "retract", "load"} : o \in Ops
BY DEF Ops

\* Sending touches the buffer and may raise.
LEMMA SendCmdFields ==
    ASSUME NEW s, IsPlayer(s), NEW c
    PROVE  \A f \in Fields \ {"queue", "exc"} : SendCmd(s, c)[f] = s[f]
BY DEF SendCmd, Raise, IsPlayer

LEMMA OnMainboardReadyKeeps ==
    ASSUME NEW s, IsPlayer(s)
    PROVE  Keeps(s, OnMainboardReady(s))
BY PowerOnKeeps, ToolheadBootstrapKeeps, KeepsOn DEF OnMainboardReady, Keeps

LEMMA ResumeLeads ==
    ASSUME NEW s, Live(s)
    PROVE  Leads(s, Resume(s))
<1> DEFINE t == [s EXCEPT !.status = (@ - 32) + 2, !.error = "none"]
           u == SendCmd(t, Cmd("X5"))
           w == [u EXCEPT !.mb = "ready"]
<1>1. CASE s.status \notin Paused \/ s.pausedMacro # "none"
  BY <1>1, Stays DEF Resume
<1>2. CASE s.status \in Paused /\ s.pausedMacro = "none"
  <2>1. IsPlayer(s) /\ s.status \in {36, 48} /\ s.status \notin Ended
    BY <1>2, LivePlayer, Ends DEF Paused
  <2>2. /\ (s.status - 32) + 2 \in {6, 18} /\ (s.status - 32) + 2 \in Statuses
        /\ (s.status - 32) + 2 \in Starting => s.status \in Starting
    BY <2>1, StatusValues DEF Starting
  <2>3. /\ IsPlayer(t) /\ Same(s, [t EXCEPT !.status = s.status])
        /\ t.status = (s.status - 32) + 2
    BY ZenonT(120), <2>1, <2>2, ErrorValues DEF IsPlayer, Fields, Same
  <2>4. Leads(s, t) /\ t.status \in {6, 18}
    <3> HIDE DEF t
    <3> QED
      BY <2>1, <2>2, <2>3, NewStatus
  <2> HIDE DEF t
  <2>5. Leads(t, u)
    BY <2>4, Sends, OpNames DEF Leads
  <2>6. IsPlayer(u) /\ u.status = t.status
    BY <2>4, <2>5, SendCmdFields, LivePlayer DEF Leads, Fields
  <2> HIDE DEF u
  <2>7. /\ IsPlayer(w) /\ w.mb = "ready" /\ w.status = u.status /\ w.next = u.next
        /\ w.fed = u.fed /\ w.queue = u.queue /\ w.fin = u.fin /\ w.did = u.did
    BY <2>6, MbValues DEF IsPlayer, Fields
  <2>8. Live(w)
    <3> HIDE DEF w
    <3> QED
      BY <2>4, <2>5, <2>6, <2>7 DEF Leads, Live, Sound
  <2> HIDE DEF w
  <2>9. Leads(w, OnMainboardReady(w))
    BY <2>7, <2>8, OnMainboardReadyKeeps, KeepsLeads
  <2>10. Live(u) /\ Live(OnMainboardReady(w))
    BY <2>5, <2>9 DEF Leads
  <2>11. Resume(s) \in {u, OnMainboardReady(w)}
    BY <1>2 DEF Resume, Then, t, u, w
  <2> QED
    BY <2>1, <2>10, <2>11 DEF Leads
<1> QED
  BY <1>1, <1>2

LEMMA PausedNowLeads ==
    ASSUME NEW s, Live(s), s.status \in Pausing
    PROVE  Leads(s, PausedNow(s))
<1> DEFINE t == [s EXCEPT !.status = IF @ \in Starting THEN 36 ELSE 48]
<1>1. IsPlayer(s) /\ s.status \in {38, 50} /\ s.status \notin Ended
  BY LivePlayer, Ends DEF Pausing
<1>2. /\ IsPlayer(t) /\ Same(s, [t EXCEPT !.status = s.status])
      /\ t.status = IF s.status \in Starting THEN 36 ELSE 48
  BY <1>1, StatusValues DEF IsPlayer, Fields, Same
<1> HIDE DEF t
<1>3. Leads(s, t)
  BY <1>1, <1>2, NewStatus DEF Starting
<1>4. Leads(t, Resume(t))
  BY <1>3, ResumeLeads DEF Leads
<1>5. PausedNow(s) \in {t, Resume(t)}
  BY DEF PausedNow, t
<1> QED
  BY <1>3, <1>4, <1>5, LeadsOn

LEMMA ToolheadPausedLeads ==
    ASSUME NEW s, Live(s)
    PROVE  Leads(s, ToolheadPaused(s))
<1> DEFINE t == IF s.status = 50 THEN PausedNow(s) ELSE s
<1>1. Leads(s, t)
  BY Stays, PausedNowLeads DEF Pausing
<1> HIDE DEF t
<1>2. Leads(t, SetStandby(t))
  BY <1>1, SetStandbyKeeps, KeepsLeads, LivePlayer DEF Leads
<1>3. ToolheadPaused(s) \in {s, t, SetStandby(t)}
  BY DEF ToolheadPaused, Then, t
<1> QED
  BY <1>1, <1>2, <1>3, LeadsOn, Stays

LEMMA StandbyLeads ==
    ASSUME NEW s, Live(s), NEW called, Leads(s, called), NEW cb \in Callbacks
    PROVE  Leads(s, Standby(s, cb, called))
<1> DEFINE t == Standby(s, cb, s)
<1>1. Keeps(s, s)
  BY LivePlayer DEF Keeps, Same
<1>2. Leads(s, t)
  BY <1>1, StandbyKeeps, KeepsLeads, LivePlayer
<1>3. Standby(s, cb, called) \in {called, t}
  BY DEF Standby
<1> QED
  BY <1>2, <1>3

LEMMA PauseToolheadLeads ==
    ASSUME NEW s, Live(s)
    PROVE  Leads(s, PauseToolhead(s))
<1> DEFINE t == [s EXCEPT !.cb = "paused"]
<1>1. Leads(s, ToolheadPaused(s))
  BY ToolheadPausedLeads
<1>2. Leads(s, Standby(s, "paused", ToolheadPaused(s)))
  BY <1>1, StandbyLeads, CallbackValues
<1>3. Keeps(s, t)
  BY LivePlayer, CallbackValues DEF IsPlayer, Fields, Keeps, Same
<1>4. Leads(s, t)
  BY <1>3, KeepsLeads
<1>5. PauseToolhead(s) \in {ToolheadPaused(s), Standby(s, "paused", ToolheadPaused(s)), t}
  BY DEF PauseToolhead
<1> QED
  BY <1>1, <1>2, <1>4, <1>5

LEMMA GiveupLeads ==
    ASSUME NEW s, Live(s)
    PROVE  Leads(s, Giveup(s))
<1> DEFINE x == SendCmd(s, Cmd("X5"))
           y == [x EXCEPT !.allsetCb = "none"]
           g == SendCmd(s, Cmd("G28"))
           h == [g EXCEPT !.probing = FALSE, !.probe = IF @ = "converged" THEN @ ELSE "none"]
<1>1. Leads(s, x) /\ Leads(s, g)
  BY Sends, OpNames
<1>2. IsPlayer(x) /\ IsPlayer(g)
  BY <1>1, LivePlayer DEF Leads
<1> HIDE DEF x, g
<1>3. Keeps(x, y)
  BY <1>2, AllsetValues DEF IsPlayer, Fields, Keeps, Same
<1>4. Keeps(g, h)
  BY ZenonT(120), <1>2, ProbeValues, Booleans DEF IsPlayer, Fields, Keeps, Same
<1> HIDE DEF y, h
<1>5. Leads(s, y) /\ Leads(s, h)
  BY <1>1, <1>3, <1>4, KeepsLeads, LeadsOn DEF Leads
<1>6. Giveup(s) \in {s, x, y, g, h}
  BY DEF Giveup, Then, x, y, g, h
<1> QED
  BY <1>1, <1>5, <1>6, Stays

LEMMA StashLeads ==
    ASSUME NEW s, Live(s)
    PROVE  Leads(s, Stash(s))
<1> DEFINE t == Giveup(s)
           u == [t EXCEPT !.stash = "stashing"]
           v == SendCmd(u, Cmd("C2"))
<1>1. Leads(s, t)
  BY GiveupLeads
<1>2. IsPlayer(t) /\ Live(t)
  BY <1>1, LivePlayer DEF Leads
<1> HIDE DEF t
<1>3. Keeps(t, u)
  BY <1>2, StashValues DEF IsPlayer, Fields, Keeps, Same
<1> HIDE DEF u
<1>4. Leads(t, u)
  BY <1>2, <1>3, KeepsLeads
<1>5. Leads(u, v)
  BY <1>4, Sends, OpNames DEF Leads
<1> HIDE DEF v
<1>6. Leads(t, PauseToolhead(t))
  BY <1>2, PauseToolheadLeads
<1>7. Stash(s) \in {t, v, PauseToolhead(t)}
  BY DEF Stash, Then, t, u, v
<1> QED
  BY <1>1, <1>4, <1>5, <1>6, <1>7, LeadsOn

LEMMA HandlePauseLeads ==
    ASSUME NEW s, Live(s)
    PROVE  Leads(s, HandlePause(s))
<1> DEFINE x == SendCmd(s, Cmd("X5"))
<1>1. CASE s.status = 38
  <2>1. Leads(s, x) /\ x.status = 38
    BY <1>1, Sends, OpNames, SendCmdFields, LivePlayer DEF Fields
  <2> HIDE DEF x
  <2>2. Leads(x, PausedNow(x))
    BY <2>1, PausedNowLeads DEF Leads, Pausing
  <2>3. HandlePause(s) \in {x, PausedNow(x)}
    BY <1>1 DEF HandlePause, Then, x
  <2> QED
    BY <2>1, <2>2, <2>3, LeadsOn
<1>2. CASE s.status # 38
  BY <1>2, StashLeads, Stays DEF HandlePause
<1> QED
  BY <1>1, <1>2

LEMMA PauseLeads ==
    ASSUME NEW s, Live(s), NEW e \in Errors
    PROVE  Leads(s, Pause(s, e))
<1> DEFINE t == [s EXCEPT !.status = IF @ \in Starting THEN 38 ELSE 50, !.error = e]
           u == IF Ready(t) THEN t ELSE PowerOff(t)
<1>1. CASE s.status \in Pausing \cup Paused \cup Ended
  <2> DEFINE v == [s EXCEPT !.error = IF @ = "none" THEN e ELSE @]
  <2>1. Keeps(s, v)
    BY LivePlayer DEF IsPlayer, Fields, Keeps, Same
  <2>2. Pause(s, e) = v
    BY <1>1 DEF Pause
  <2> QED
    BY <2>1, <2>2, KeepsLeads
<1>2. CASE s.status \notin Pausing \cup Paused \cup Ended
  <2>1. IsPlayer(s) /\ s.status \notin Ended
    BY <1>2, LivePlayer
  <2>2. /\ IsPlayer(t) /\ Same(s, [t EXCEPT !.status = s.status])
        /\ t.status = IF s.status \in Starting THEN 38 ELSE 50
    BY <2>1, StatusValues DEF IsPlayer, Fields, Same
  <2> HIDE DEF t
  <2>3. Leads(s, t)
    BY <2>1, <2>2, NewStatus DEF Starting
  <2>4. Leads(t, u)
    BY <2>2, <2>3, Stays, PowerOffKeeps, KeepsLeads DEF Leads
  <2> HIDE DEF u
  <2>5. Leads(u, HandlePause(u))
    BY <2>4, HandlePauseLeads DEF Leads
  <2>6. Pause(s, e) \in {u, HandlePause(u)}
    BY <1>2 DEF Pause, t, u
  <2> QED
    BY <2>3, <2>4, <2>5, <2>6, LeadsOn
<1> QED
  BY <1>1, <1>2

-----------------------------------------------------------------------------
(* Macros and fire. *)

LEMMA StartMacroLeads ==
    ASSUME NEW s, Live(s)
    PROVE  Leads(s, StartMacro(s))
<1> DEFINE m == SendCmd(s, Cmd("macro"))
           q == [s EXCEPT !.probing = TRUE]
           r == SendCmd(q, Cmd("probe"))
           x == SendCmd(s, Cmd("X5"))
           y == SetHeater(x, s.heatTo)
           z == IF x.exc = "none" THEN y ELSE x
           w == [z EXCEPT !.allsetCb = IF s.macro = "heat" THEN "task" ELSE "job"]
<1>1. IsPlayer(s) /\ s.heatTo \in Targets
  BY LivePlayer DEF IsPlayer
<1>2. Leads(s, m) /\ Leads(s, x)
  BY Sends, OpNames
<1>3. Keeps(s, q)
  BY ZenonT(120), <1>1, Booleans DEF IsPlayer, Fields, Keeps, Same
<1> HIDE DEF q
<1>4. Leads(s, q)
  BY <1>3, KeepsLeads
<1>5. Leads(q, r)
  BY <1>4, Sends, OpNames DEF Leads
<1> HIDE DEF m, x, r
<1>6. Leads(x, y)
  BY <1>1, <1>2, SetHeaterKeeps, KeepsLeads, LivePlayer DEF Leads
<1> HIDE DEF y
<1>7. Leads(s, z)
  BY <1>2, <1>6, LeadsOn
<1> HIDE DEF z
<1>8. Keeps(z, w)
  BY <1>7, LivePlayer, AllsetValues DEF Leads, IsPlayer, Fields, Keeps, Same
<1> HIDE DEF w
<1>9. Leads(z, w)
  BY <1>7, <1>8, KeepsLeads DEF Leads
<1>10. StartMacro(s) \in {s, m, r, z, w}
  BY DEF StartMacro, Then, m, q, r, x, y, z, w
<1> QED
  BY <1>2, <1>4, <1>5, <1>7, <1>9, <1>10, LeadsOn, Stays

LEMMA FeedLeads ==
    ASSUME NEW s, Live(s), s.status = 16
    PROVE  Leads(s, Feed(s))
<1> DEFINE upto == IF s.next - 1 + Prefetch > Len(Job) THEN Home ELSE s.next - 1 + Prefetch
           t == [s EXCEPT !.fed = upto]
<1>1. /\ IsPlayer(s) /\ s.next \in Nat /\ s.fed \in Nat /\ Reading(s.status, s.next, s.fed)
      /\ Home \in Nat /\ Len(Job) \in Nat /\ Home = Len(Job) + 1 /\ Prefetch \in Nat
  BY LivePlayer, ScenarioType, ExecutorConstants DEF Live, Sound, IsPlayer
<1>2. Leads(s, Abort(s, "other"))
  BY AbortLeads, ErrorValues
<1>3. ASSUME ~(CmdQueueLen(s) >= Prefetch)
      PROVE  Leads(s, t)
  <2>1. s.next >= 1 /\ s.next <= s.fed + 1 /\ s.fed <= Home
    BY <1>1 DEF Reading
  <2>2. s.fed + 1 - s.next < Prefetch
    BY <1>1, <1>3, <2>1 DEF CmdQueueLen
  <2>3. upto \in Nat /\ upto <= Home /\ s.next <= upto + 1
    BY SMTT(30), <1>1, <2>1, <2>2
  <2> HIDE DEF upto
  <2>4. /\ IsPlayer(t) /\ t.status = 16 /\ t.fed = upto /\ t.next = s.next /\ t.mb = s.mb
        /\ t.queue = s.queue /\ t.fin = s.fin /\ t.did = s.did
    BY <1>1, <2>3 DEF IsPlayer, Fields
  <2>5. Reading(t.status, t.next, t.fed)
    BY <2>1, <2>3, <2>4 DEF Reading, Starting
  <2> HIDE DEF t
  <2> QED
    BY <2>4, <2>5, Ends DEF Live, Sound, Leads
<1>4. Feed(s) \in {s, Abort(s, "other"), t} /\ (Feed(s) = t => Feed(s) = s \/ ~(CmdQueueLen(s) >= Prefetch))
  BY DEF Feed
<1> QED
  BY <1>2, <1>3, <1>4, Stays

\* Only commands of the job wait.
LEMMA WaitingIs ==
    ASSUME NEW q, q \in CommandSeqs, NEW f, f \in Nat, NEW a \in Waiting(q, f)
    PROVE  /\ a \in 1..Len(q) /\ a > f /\ q[a].op = "job"
           /\ q[a].i \in Indices /\ q[a] = JobCmd(q[a].i)
<1>1. a \in 1..Len(q) /\ a > f /\ q[a] \in Commands /\ q[a].op = "job"
  BY DEF Waiting, CommandSeqs
<1> QED
  BY <1>1 DEF Commands, Ops, JobCmd, Indices

LEMMA IndexNat ==
    ASSUME scenario \in Scenarios
    PROVE  /\ \A i \in Indices : i \in Nat /\ i >= 1 /\ i <= Home
           /\ \A i \in Nat : i >= 1 /\ i <= Home => i \in Indices
           /\ \A d \in IndexSeqs : \A j \in 1..Len(d) : d[j] \in Indices
<1>1. Home \in Nat
  BY ScenarioType
<1>2. \A d \in IndexSeqs : \A j \in 1..Len(d) : d[j] \in Indices
  BY DEF IndexSeqs
<1> QED
  BY <1>1, <1>2 DEF Indices

\* Taking a command from the queue.
LEMMA OrderedOn ==
    ASSUME scenario \in Scenarios, NEW d, NEW q, NEW f \in Nat, NEW n \in Nat,
           d \in IndexSeqs, q \in CommandSeqs, Ordered(d, q, f, n)
    PROVE  Ordered(d, q, f, n + 1)
<1>1. \A j \in 1..Len(d) : d[j] \in Nat
  BY IndexNat
<1>2. \A a \in Waiting(q, f) : q[a].i < n => q[a].i < n + 1
  <2>1. ASSUME NEW a \in Waiting(q, f)
        PROVE  q[a].i \in Nat
    BY WaitingIs, IndexNat
  <2> QED
    BY <2>1
<1> QED
  BY <1>1, <1>2 DEF Ordered

LEMMA NoGapOn ==
    ASSUME NEW d, NEW q, NEW f, NEW n \in Nat, NoGap(d, q, f, n), ~Carried(n)
    PROVE  NoGap(d, q, f, n + 1)
BY DEF NoGap

LEMMA Skipped ==
    ASSUME NEW s, Live(s), s.next <= s.fed, ~Carried(s.next)
    PROVE  Leads(s, [s EXCEPT !.next = s.next + 1])
<1> DEFINE n == s.next + 1
           t == [s EXCEPT !.next = n]
<1>1. /\ IsPlayer(s) /\ s.next \in Nat /\ s.fed \in Nat /\ s.fin \in Nat /\ s.did \in IndexSeqs
      /\ s.queue \in CommandSeqs /\ Reading(s.status, s.next, s.fed)
      /\ scenario \in Scenarios /\ Home \in Nat
  BY LivePlayer, ScenarioType DEF Live, Sound, IsPlayer
<1>2. n \in Nat /\ Ordered(s.did, s.queue, s.fin, n)
  BY <1>1, OrderedOn DEF Live, Sound
<1>3. s.status # 128 => NoGap(s.did, s.queue, s.fin, n)
  BY <1>1, NoGapOn DEF Live, Sound
<1>4. Reading(s.status, n, s.fed)
  BY <1>1 DEF Reading
<1> HIDE DEF n
<1>5. /\ IsPlayer(t) /\ t.status = s.status /\ t.fed = s.fed /\ t.next = n /\ t.mb = s.mb
      /\ t.queue = s.queue /\ t.fin = s.fin /\ t.did = s.did
  BY <1>1, <1>2 DEF IsPlayer, Fields
<1> HIDE DEF t
<1>6. Leads(s, t)
  BY <1>2, <1>3, <1>4, <1>5 DEF Live, Sound, Leads
<1> QED
  BY <1>6 DEF t, n

\* A command for the head is carried out when it is sent: the buffer is empty.
LEMMA HeadTaken ==
    ASSUME NEW s, Live(s), s.queue = <<>>, s.next <= s.fed, Carried(s.next)
    PROVE  Leads(s, [s EXCEPT !.next = s.next + 1, !.did = Append(@, s.next)])
<1> DEFINE n == s.next + 1
           d == Append(s.did, s.next)
           t == [s EXCEPT !.next = n, !.did = d]
<1>1. /\ IsPlayer(s) /\ s.next \in Nat /\ s.fed \in Nat /\ s.fin \in Nat /\ s.did \in IndexSeqs
      /\ s.queue \in CommandSeqs /\ Reading(s.status, s.next, s.fed)
      /\ scenario \in Scenarios /\ Home \in Nat /\ Ordered(s.did, s.queue, s.fin, s.next)
  BY LivePlayer, ScenarioType DEF Live, Sound, IsPlayer
<1>2. s.next \in Indices
  BY <1>1, IndexNat DEF Reading
<1>3. /\ d \in IndexSeqs /\ Len(s.did) \in Nat /\ Len(d) = Len(s.did) + 1
      /\ d[Len(s.did) + 1] = s.next /\ \A j \in 1..Len(s.did) : d[j] = s.did[j]
  BY <1>1, <1>2 DEF IndexSeqs
<1>4. \A a \in Waiting(s.queue, s.fin) : FALSE
  BY <1>1 DEF Waiting
<1> HIDE DEF d
<1>5. n \in Nat /\ n - 1 = s.next
  BY <1>1
<1>6. \A j \in 1..Len(d) : j \in 1..Len(s.did) \/ j = Len(s.did) + 1
  BY <1>3
<1>7. Ordered(d, s.queue, s.fin, n)
  <2>1. \A j \in 1..Len(s.did) : s.did[j] \in Nat /\ Carried(s.did[j]) /\ s.did[j] < s.next
    BY <1>1, IndexNat DEF Ordered
  <2>2. \A j \in 1..Len(d) : Carried(d[j]) /\ d[j] < n
    <3> SUFFICES ASSUME NEW j \in 1..Len(d) PROVE Carried(d[j]) /\ d[j] < n
      OBVIOUS
    <3>1. CASE j \in 1..Len(s.did)
      <4>1. d[j] = s.did[j] /\ s.did[j] \in Nat /\ Carried(s.did[j]) /\ s.did[j] < s.next
        BY <1>3, <2>1, <3>1
      <4> QED
        BY <1>1, <4>1
    <3>2. CASE j = Len(s.did) + 1
      <4>1. d[j] = s.next
        BY <1>3, <3>2
      <4> QED
        BY <1>1, <4>1
    <3> QED
      BY <1>6, <3>1, <3>2
  <2>3. \A j, k \in 1..Len(d) : j < k => d[j] < d[k]
    <3> SUFFICES ASSUME NEW j \in 1..Len(d), NEW k \in 1..Len(d), j < k PROVE d[j] < d[k]
      OBVIOUS
    <3>1. j \in 1..Len(s.did)
      BY <1>3
    <3>2. CASE k \in 1..Len(s.did)
      BY <1>1, <1>3, <3>1, <3>2 DEF Ordered
    <3>3. CASE k = Len(s.did) + 1
      BY <1>3, <2>1, <3>1, <3>3
    <3> QED
      BY <1>6, <3>2, <3>3
  <2> QED
    BY <1>1, <1>4, <2>2, <2>3 DEF Ordered
<1>8. s.status # 128 => NoGap(d, s.queue, s.fin, n)
  <2> SUFFICES ASSUME s.status # 128, NEW i \in 1..n-1, Carried(i)
               PROVE  \E j \in 1..Len(d) : d[j] = i
    BY DEF NoGap
  <2>1. CASE i = s.next
    BY <1>3, <2>1
  <2>2. CASE i # s.next
    <3>1. i \in 1..s.next-1
      BY <1>1, <1>5, <2>2
    <3>2. PICK j \in 1..Len(s.did) : s.did[j] = i
      BY <1>4, <3>1 DEF Live, Sound, NoGap
    <3> QED
      BY <1>3, <3>2
  <2> QED
    BY <2>1, <2>2
<1>9. Reading(s.status, n, s.fed)
  BY <1>1 DEF Reading
<1> HIDE DEF n
<1>10. /\ IsPlayer(t) /\ t.status = s.status /\ t.fed = s.fed /\ t.next = n /\ t.mb = s.mb
       /\ t.queue = s.queue /\ t.fin = s.fin /\ t.did = d
  BY <1>1, <1>3, <1>5 DEF IsPlayer, Fields
<1> HIDE DEF t
<1>11. Leads(s, t)
  BY <1>7, <1>8, <1>9, <1>10 DEF Live, Sound, Leads
<1> QED
  BY <1>11 DEF t, n, d

\* A move goes to the mainboard; only when that was closed by an abort is it lost.
LEMMA MoveTaken ==
    ASSUME NEW s, Live(s), s.next <= s.fed, Carried(s.next), BufferedCmdSize(s) < BufSize
    PROVE  Leads(s, SendCmd([s EXCEPT !.next = s.next + 1], JobCmd(s.next)))
<1> DEFINE n == s.next + 1
           t == [s EXCEPT !.next = n]
           c == JobCmd(s.next)
           q == Append(s.queue, c)
           u == [t EXCEPT !.queue = Append(@, c)]
           v == [t EXCEPT !.exc = "other"]
<1>1. /\ IsPlayer(s) /\ s.next \in Nat /\ s.fed \in Nat /\ s.fin \in Nat /\ s.did \in IndexSeqs
      /\ s.queue \in CommandSeqs /\ Reading(s.status, s.next, s.fed) /\ s.mb \in MbStates
      /\ scenario \in Scenarios /\ Home \in Nat /\ Ordered(s.did, s.queue, s.fin, s.next)
  BY LivePlayer, ScenarioType DEF Live, Sound, IsPlayer
<1>2. s.next \in Indices /\ c \in Commands /\ c.op = "job" /\ c.i = s.next
  <2>1. s.next \in Indices
    BY <1>1, IndexNat DEF Reading
  <2> QED
    BY <2>1 DEF Commands, JobCmd, Indices
<1> HIDE DEF c
<1>3. /\ q \in CommandSeqs /\ Len(s.queue) \in Nat /\ Len(q) = Len(s.queue) + 1
      /\ q[Len(s.queue) + 1] = c /\ \A a \in 1..Len(s.queue) : q[a] = s.queue[a]
  BY <1>1, <1>2 DEF CommandSeqs
<1>4. n \in Nat /\ n - 1 = s.next
  BY <1>1
<1>5. s.status # 64 /\ Reading(s.status, n, s.fed)
  BY <1>1 DEF Reading, Live, Sound
<1>6. Ordered(s.did, s.queue, s.fin, n)
  BY <1>1, OrderedOn
<1> HIDE DEF n, q
<1>7. /\ IsPlayer(t) /\ t.status = s.status /\ t.fed = s.fed /\ t.next = n /\ t.mb = s.mb
      /\ t.queue = s.queue /\ t.fin = s.fin /\ t.did = s.did
  BY <1>1, <1>4 DEF IsPlayer, Fields
<1> HIDE DEF t
<1>8. CASE Usable(s)
  <2>1. /\ IsPlayer(u) /\ u.status = s.status /\ u.fed = s.fed /\ u.next = n /\ u.mb = s.mb
        /\ u.queue = q /\ u.fin = s.fin /\ u.did = s.did
    <3>1. u = [t EXCEPT !.queue = q]
      BY <1>7 DEF q
    <3> HIDE DEF u
    <3> QED
      BY <1>3, <1>7, <3>1 DEF IsPlayer, Fields
  <2> HIDE DEF u
  <2>2. s.fin <= Len(s.queue) /\ Len(q) <= BufSize
    <3>1. BufSize \in Nat
      BY <1>1, ScenarioType
    <3> QED
      BY <1>1, <1>3, <3>1 DEF Ordered, BufferedCmdSize
  <2>3. \A a \in Waiting(q, s.fin) : a = Len(s.queue) + 1 \/ a \in Waiting(s.queue, s.fin)
    <3> SUFFICES ASSUME NEW a \in Waiting(q, s.fin), a # Len(s.queue) + 1
                 PROVE  a \in Waiting(s.queue, s.fin)
      OBVIOUS
    <3>1. a \in s.fin+1..Len(q) /\ q[a].op = "job"
      BY DEF Waiting
    <3>2. a \in s.fin+1..Len(s.queue) /\ a \in 1..Len(s.queue)
      BY <1>1, <1>3, <3>1
    <3> QED
      BY <1>3, <3>1, <3>2 DEF Waiting
  <2>4. \A a \in Waiting(s.queue, s.fin) :
            /\ a \in Waiting(q, s.fin) /\ q[a] = s.queue[a] /\ a \in Nat /\ a <= Len(s.queue)
            /\ q[a].i \in Nat /\ q[a].i < s.next
    <3> SUFFICES ASSUME NEW a \in Waiting(s.queue, s.fin)
                 PROVE  /\ a \in Waiting(q, s.fin) /\ q[a] = s.queue[a]
                        /\ a \in Nat /\ a <= Len(s.queue)
                        /\ q[a].i \in Nat /\ q[a].i < s.next
      OBVIOUS
    <3>1. a \in s.fin+1..Len(s.queue) /\ s.queue[a].op = "job"
      BY DEF Waiting
    <3>2. a \in s.fin+1..Len(q) /\ a \in 1..Len(s.queue) /\ q[a] = s.queue[a]
      BY <1>1, <1>3, <3>1
    <3>3. s.queue[a].i \in Nat /\ s.queue[a].i < s.next
      BY <1>1, WaitingIs, IndexNat DEF Ordered
    <3> QED
      BY <3>1, <3>2, <3>3 DEF Waiting
  <2>5. Len(s.queue) + 1 \in Waiting(q, s.fin)
    BY <1>1, <1>2, <1>3, <2>2 DEF Waiting
  <2>6. Ordered(s.did, q, s.fin, n)
    <3>1. \A j \in 1..Len(s.did) : s.did[j] \in Nat /\ s.did[j] < s.next
      BY <1>1, IndexNat DEF Ordered
    <3> SUFFICES ASSUME NEW a \in Waiting(q, s.fin)
                 PROVE  /\ Carried(q[a].i) /\ q[a].i < n
                        /\ \A j \in 1..Len(s.did) : s.did[j] < q[a].i
                        /\ \A b \in Waiting(q, s.fin) : b < a => q[b].i < q[a].i
      BY <1>1, <1>3, <1>6, <2>2 DEF Ordered
    <3>2. CASE a = Len(s.queue) + 1
      <4>1. q[a].i = s.next
        BY <1>2, <1>3, <3>2
      <4>2. \A b \in Waiting(q, s.fin) : b < a => q[b].i < q[a].i
        BY <1>3, <2>3, <2>4, <3>2, <4>1
      <4> QED
        BY <1>1, <1>4, <3>1, <4>1, <4>2
    <3>3. CASE a \in Waiting(s.queue, s.fin)
      <4>1. q[a] = s.queue[a] /\ a <= Len(s.queue) /\ a \in Nat
        BY <2>4, <3>3
      <4>2. \A b \in Waiting(q, s.fin) : b < a => b \in Waiting(s.queue, s.fin) /\ q[b] = s.queue[b]
        BY <1>3, <2>3, <2>4, <4>1
      <4> QED
        BY <1>6, <3>3, <4>1, <4>2 DEF Ordered
    <3> QED
      BY <2>3, <3>2, <3>3
  <2>7. s.status # 128 => NoGap(s.did, q, s.fin, n)
    <3> SUFFICES ASSUME s.status # 128, NEW i \in 1..n-1, Carried(i)
                 PROVE  \/ \E j \in 1..Len(s.did) : s.did[j] = i
                        \/ \E a \in Waiting(q, s.fin) : q[a].i = i
      BY DEF NoGap
    <3>1. CASE i = s.next
      BY <1>2, <1>3, <2>5, <3>1
    <3>2. CASE i # s.next
      <4>1. i \in 1..s.next-1
        BY <1>1, <1>4, <3>2
      <4> QED
        BY <2>4, <4>1 DEF Live, Sound, NoGap
    <3> QED
      BY <3>1, <3>2
  <2>8. Leads(s, u)
    BY <1>5, <2>1, <2>6, <2>7 DEF Live, Sound, Leads
  <2>9. SendCmd(t, c) = u
    BY <1>7, <1>8 DEF SendCmd, Usable, BufferedCmdSize, u
  <2> QED
    BY <2>8, <2>9 DEF t, n, c
<1>9. CASE ~Usable(s)
  <2>1. s.mb = "closing" /\ s.status \in Ended
    BY <1>1, <1>9, MbValues DEF Usable, Live
  <2>2. s.status = 128
    BY <1>5, <2>1, Ends
  <2>3. /\ IsPlayer(v) /\ v.status = s.status /\ v.fed = s.fed /\ v.next = n /\ v.mb = s.mb
        /\ v.queue = s.queue /\ v.fin = s.fin /\ v.did = s.did
    BY ZenonT(120), <1>7, ExcValues DEF IsPlayer, Fields
  <2>4. SendCmd(t, c) = v
    BY <1>7, <1>9 DEF SendCmd, Raise, Usable, v
  <2> HIDE DEF v
  <2>5. Leads(s, v)
    BY <1>5, <1>6, <2>1, <2>2, <2>3 DEF Live, Sound, Leads
  <2> QED
    BY <2>4, <2>5 DEF t, n, c
<1> QED
  BY <1>8, <1>9

LEMMA EmptyBuffer ==
    ASSUME NEW s, IsPlayer(s)
    PROVE  BufferedCmdSize(s) = 0 => s.queue = <<>>
<1>1. s.queue \in CommandSeqs
  BY DEF IsPlayer
<1> QED
  BY <1>1 DEF CommandSeqs, BufferedCmdSize

\* Starting a macro does not change the status.
LEMMA StartMacroStatus ==
    ASSUME NEW s, Live(s)
    PROVE  StartMacro(s).status = s.status
<1> DEFINE m == SendCmd(s, Cmd("macro"))
           q == [s EXCEPT !.probing = TRUE]
           r == SendCmd(q, Cmd("probe"))
           x == SendCmd(s, Cmd("X5"))
           y == SetHeater(x, s.heatTo)
           z == IF x.exc = "none" THEN y ELSE x
           w == [z EXCEPT !.allsetCb = IF s.macro = "heat" THEN "task" ELSE "job"]
<1>1. IsPlayer(s) /\ s.heatTo \in Targets
  BY LivePlayer DEF IsPlayer
<1>2. m.status = s.status /\ x.status = s.status /\ IsPlayer(x)
  <2>1. m.status = s.status /\ x.status = s.status
    BY <1>1, SendCmdFields DEF Fields
  <2>2. Leads(s, x)
    BY Sends, OpNames
  <2> QED
    BY <2>1, <2>2, LivePlayer DEF Leads
<1>3. IsPlayer(q) /\ q.status = s.status
  BY ZenonT(120), <1>1, Booleans DEF IsPlayer, Fields
<1> HIDE DEF q, m, x
<1>4. r.status = s.status
  BY <1>3, SendCmdFields DEF Fields
<1> HIDE DEF r
<1>5. y.status = s.status /\ IsPlayer(y)
  BY <1>1, <1>2, SetHeaterKeeps DEF Keeps, Same
<1> HIDE DEF y
<1>6. z.status = s.status /\ IsPlayer(z)
  BY <1>2, <1>5
<1> HIDE DEF z
<1>7. w.status = s.status
  BY <1>6 DEF IsPlayer, Fields
<1> HIDE DEF w
<1>8. StartMacro(s) \in {s, m, r, z, w}
  BY DEF StartMacro, Then, m, q, r, x, y, z, w
<1> QED
  BY <1>2, <1>4, <1>6, <1>7, <1>8

LEMMA DrainOneLeads ==
    ASSUME NEW s, Live(s), s.next <= s.fed
    PROVE  Leads(s, DrainOne(s).s)
<1> DEFINE i == s.next
           t == [s EXCEPT !.next = s.next + 1]
           h == [s EXCEPT !.next = s.next + 1, !.did = Append(@, s.next)]
           w == [h EXCEPT !.macro = "job heat", !.heatTo = Target(i)]
           headFree == BufferedCmdSize(s) = 0 /\ Sendable(s)
<1>1. IsPlayer(s)
  BY LivePlayer
<1>2. [t EXCEPT !.did = Append(@, i)] = h
  BY <1>1 DEF IsPlayer, Fields
<1>3. ASSUME Kind(i) = "move", BufferedCmdSize(s) < BufSize
      PROVE  Leads(s, SendCmd(t, JobCmd(i)))
  BY <1>3, MoveTaken DEF Carried
<1>4. ASSUME Kind(i) \in {"fan"} \cup Heats, headFree
      PROVE  /\ Leads(s, h) /\ Leads(h, ToHead(h, "fan"))
             /\ Kind(i) \in Heats => Leads(h, SetHeater(h, Target(i))) /\ Leads(h, StartMacro(w))
  <2>1. Leads(s, h)
    BY <1>1, <1>4, EmptyBuffer, HeadTaken DEF Carried
  <2>0. Kind(i) \in Heats => Target(i) \in Targets
    <3>1. s.next \in Nat /\ s.fed \in Nat /\ s.next >= 1 /\ s.fed <= Home /\ scenario \in Scenarios
      BY <1>1 DEF IsPlayer, Live, Sound, Reading
    <3>2. i \in 1..Home
      BY <3>1, ScenarioType
    <3> QED
      BY <3>1, <3>2, TargetType
  <2>2. IsPlayer(h) /\ Live(h)
    BY <2>1, LivePlayer DEF Leads
  <2> HIDE DEF h
  <2>3. Leads(h, ToHead(h, "fan"))
    BY <2>2, OutValues, ToHeadKeeps, KeepsLeads
  <2>7. SUFFICES ASSUME Kind(i) \in Heats
                 PROVE  Leads(h, SetHeater(h, Target(i))) /\ Leads(h, StartMacro(w))
    BY <2>1, <2>3
  <2>4. Keeps(h, w)
    BY ZenonT(120), <2>0, <2>2, <2>7, MacroValues DEF IsPlayer, Fields, Keeps, Same
  <2> HIDE DEF w
  <2>5. Leads(h, w)
    BY <2>2, <2>4, KeepsLeads
  <2>6. Leads(w, StartMacro(w))
    BY <2>5, StartMacroLeads DEF Leads
  <2>8. Leads(h, SetHeater(h, Target(i)))
    BY <2>0, <2>2, <2>7, SetHeaterKeeps, KeepsLeads
  <2> QED
    BY <2>5, <2>6, <2>8, LeadsOn
<1>5. ASSUME Kind(i) \in {"pause", "abort"}
      PROVE  Leads(s, t) /\ Leads(t, Pause(t, "other")) /\ Leads(t, Abort(t, "other"))
  <2>1. Leads(s, t)
    BY <1>5, Skipped DEF Carried, Heats
  <2> HIDE DEF t
  <2> QED
    BY <2>1, PauseLeads, AbortLeads, ErrorValues DEF Leads
<1>6. /\ Kind(i) = "move" /\ BufferedCmdSize(s) < BufSize =>
             DrainOne(s).s = SendCmd(t, JobCmd(i))
      /\ Kind(i) = "fan" /\ headFree => DrainOne(s).s = ToHead(h, "fan")
      /\ Kind(i) = "heat" /\ headFree => DrainOne(s).s = SetHeater(h, Target(i))
      /\ Kind(i) = "wait" /\ headFree => DrainOne(s).s = StartMacro(w)
      /\ Kind(i) = "pause" => DrainOne(s).s = Pause(t, "other")
      /\ Kind(i) = "abort" => DrainOne(s).s = Abort(t, "other")
      /\ \/ Kind(i) = "move" /\ BufferedCmdSize(s) < BufSize
         \/ Kind(i) \in {"fan", "heat", "wait"} /\ headFree
         \/ Kind(i) \in {"pause", "abort"}
         \/ DrainOne(s).s = s
  <2> HIDE DEF h
  <2>1. DrainOne(s) =
        CASE Kind(i) = "move" /\ BufferedCmdSize(s) < BufSize ->
                [s |-> SendCmd(t, JobCmd(i)), go |-> TRUE]
          [] Kind(i) = "fan" /\ headFree -> [s |-> ToHead(h, "fan"), go |-> TRUE]
          [] Kind(i) = "heat" /\ headFree -> [s |-> SetHeater(h, Target(i)), go |-> TRUE]
          [] Kind(i) = "wait" /\ headFree -> [s |-> StartMacro(w), go |-> FALSE]
          [] Kind(i) = "pause" -> [s |-> Pause(t, "other"), go |-> FALSE]
          [] Kind(i) = "abort" -> [s |-> Abort(t, "other"), go |-> FALSE]
          [] OTHER -> [s |-> s, go |-> FALSE]
    BY <1>2 DEF DrainOne
  <2> HIDE DEF w, t, headFree, i
  <2> QED
    BY <2>1
<1>7. "heat" \in Heats /\ "wait" \in Heats
  BY DEF Heats
<1> HIDE DEF t, h, w, headFree, i
<1> QED
  BY <1>3, <1>4, <1>5, <1>6, <1>7, LeadsOn, Stays

LEMMA DrainLeads ==
    ASSUME NEW s, Live(s)
    PROVE  /\ Leads(s, Drain(s))
           /\ s.status \in Starting => Drain(s) = s
<1> DEFINE N == CmdQueueLen(s)
<1>1. /\ s.next \in Nat /\ s.fed \in Nat /\ s.next <= s.fed + 1 /\ s.next >= 1
      /\ s.status \in Starting => s.fed = 0
  BY LivePlayer DEF IsPlayer, Live, Sound, Reading
<1>2. N \in Nat /\ (s.status \in Starting => N = 0)
  BY <1>1 DEF CmdQueueLen
<1>3. PICK f : Turns(s, f, N) /\ Drain(s) = f[N].s
  BY <1>2, DrainTurns
<1> HIDE DEF N
<1> DEFINE B == {n \in Nat : n <= N => Leads(s, f[n].s)}
<1>4. f[0].s = s
  BY <1>3 DEF Turns
<1>5. 0 \in B
  BY <1>4, Stays
<1>6. ASSUME NEW n \in Nat, n \in B
      PROVE  n + 1 \in B
  <2>1. SUFFICES ASSUME n + 1 <= N PROVE Leads(s, f[n + 1].s)
    OBVIOUS
  <2>2. Leads(s, f[n].s)
    BY <1>2, <1>6, <2>1
  <2>3. f[n + 1] = Turn(f[n])
    <3>1. n + 1 \in 1..N /\ (n + 1) - 1 = n
      BY <1>2, <2>1
    <3> QED
      BY <1>3, <3>1 DEF Turns
  <2> DEFINE a == f[n]
  <2>4. ASSUME CmdQueueLen(a.s) > 0
        PROVE  Leads(a.s, DrainOne(a.s).s)
    <3>1. Live(a.s) /\ IsPlayer(a.s) /\ a.s.next \in Nat /\ a.s.fed \in Nat
      BY <2>2, LivePlayer DEF Leads, IsPlayer
    <3>2. a.s.next <= a.s.fed
      BY <2>4, <3>1 DEF CmdQueueLen
    <3> QED
      BY <3>1, <3>2, DrainOneLeads
  <2> HIDE DEF a
  <2>5. Leads(s, Turn(a).s)
    <3>1. Leads(s, a.s)
      BY <2>2 DEF a
    <3> QED
      BY <2>4, <3>1, LeadsOn DEF Turn
  <2> QED
    BY <2>3, <2>5 DEF a
<1>7. Nat \subseteq B
  <2> HIDE DEF B
  <2> QED
    BY <1>5, <1>6, Induct
<1>8. Leads(s, f[N].s)
  BY <1>2, <1>7
<1> QED
  BY <1>2, <1>3, <1>4, <1>8

LEMMA FireLeads ==
    ASSUME NEW s, Live(s)
    PROVE  /\ Leads(s, Fire(s))
           /\ s.status \in Starting => Fire(s) = s
<1> DEFINE t == Feed(s)
<1>1. Leads(s, Drain(s))
  BY DrainLeads
<1>2. ASSUME s.status = 16
      PROVE  Leads(s, t) /\ Leads(s, Drain(t))
  BY <1>2, FeedLeads, DrainLeads, LeadsOn DEF Leads
<1>3. ASSUME s.status = 16, Eof(s), CmdQueueLen(s) = 0, BufferedCmdSize(s) = 0
      PROVE  Leads(s, OnCompleted(s))
  BY <1>3, OnCompletedLeads, EmptyBuffer, LivePlayer
<1> HIDE DEF t
<1>4. /\ s.status = 16 /\ ~Eof(s) => Fire(s) \in {s, t, Drain(t)}
      /\ s.status = 16 /\ Eof(s) =>
            Fire(s) \in {s, Drain(s)} \/ (Fire(s) = OnCompleted(s) /\ CmdQueueLen(s) = 0
                                                  /\ BufferedCmdSize(s) = 0)
      /\ s.status # 16 => Fire(s) \in {s, Drain(s)}
  BY DEF Fire, t
<1>5. Leads(s, Fire(s))
  BY <1>1, <1>2, <1>3, <1>4, Stays
<1>6. s.status \in Starting => Fire(s) = s
  <2>1. 16 \notin Starting
    BY DEF Starting
  <2> QED
    BY <1>4, <2>1, DrainLeads
<1> QED
  BY <1>5, <1>6

LEMMA TaskSeqsHave ==
    \A q \in TaskSeqs : q # <<>> => Head(q) \in Macros /\ Tail(q) \in TaskSeqs
<1>1. \A q \in TaskSeqs : q # <<>> => Head(q) \in MacroKinds /\ Tail(q) \in TaskSeqs
  BY DEF TaskSeqs
<1> QED
  BY <1>1 DEF Macros

LEMMA ClearMacroLeads ==
    ASSUME NEW s, Live(s)
    PROVE  Leads(s, ClearMacro(s))
<1> DEFINE t == [s EXCEPT !.macro = "none"]
<1>1. Keeps(s, t)
  BY ZenonT(120), LivePlayer, MacroValues DEF IsPlayer, Fields, Keeps, Same
<1> HIDE DEF t
<1>2. Leads(s, t)
  BY <1>1, KeepsLeads
<1>3. Leads(t, Fire(t))
  BY <1>2, FireLeads DEF Leads
<1> QED
  BY <1>2, <1>3, LeadsOn DEF ClearMacro, t

LEMMA ExecTaskLeads ==
    ASSUME NEW s, Live(s)
    PROVE  Leads(s, ExecTask(s))
<1> DEFINE u == [s EXCEPT !.macro = Head(s.tasks), !.tasks = Tail(@),
                          !.heatTo = "hot", !.probing = FALSE, !.probe = "none",
                          !.round = 0]
<1>1. CASE s.tasks = <<>>
  BY <1>1, ClearMacroLeads DEF ExecTask, ClearMacro
<1>2. CASE s.tasks # <<>>
  <2>1. IsPlayer(s) /\ Head(s.tasks) \in Macros /\ Tail(s.tasks) \in TaskSeqs
    BY <1>2, TaskSeqsHave, LivePlayer DEF IsPlayer
  <2>2. Keeps(s, u)
    BY ZenonT(120), <2>1, TargetValues, Booleans, ProbeValues, RoundValues
       DEF IsPlayer, Fields, Keeps, Same
  <2> HIDE DEF u
  <2>3. Leads(s, u)
    BY <2>2, KeepsLeads
  <2>4. Leads(u, StartMacro(u))
    BY <2>3, StartMacroLeads DEF Leads
  <2> QED
    BY <1>2, <2>3, <2>4, LeadsOn DEF ExecTask, u
<1> QED
  BY <1>1, <1>2

LEMMA StartedLeads ==
    ASSUME NEW s, Live(s), s.status \notin Ended
    PROVE  Leads(s, Started(s))
<1> DEFINE t == [s EXCEPT !.status = 16, !.tasks = InitMacros]
<1>1. IsPlayer(s) /\ InitMacros \in TaskSeqs
  BY LivePlayer, ScenarioType DEF Live, Sound
<1>2. /\ IsPlayer(t) /\ Same(s, [t EXCEPT !.status = s.status]) /\ t.status = 16
  BY <1>1, StatusValues DEF IsPlayer, Fields, Same
<1> HIDE DEF t
<1>3. Leads(s, t)
  BY <1>2, NewStatus DEF Starting
<1>4. Leads(t, ExecTask(t))
  BY <1>3, ExecTaskLeads DEF Leads
<1> QED
  BY <1>3, <1>4, LeadsOn DEF Started, t

LEMMA ResumedLeads ==
    ASSUME NEW s, Live(s)
    PROVE  Leads(s, Resumed(s)) /\ (s.status = 6 => Resumed(s).status = 4)
<1> DEFINE t == [s EXCEPT !.status = IF @ \in Starting THEN 4 ELSE 16]
<1>1. CASE s.status \in Ended
  BY <1>1, Ends, Stays DEF Resumed
<1>2. CASE s.status \notin Ended
  <2>1. /\ IsPlayer(t) /\ Same(s, [t EXCEPT !.status = s.status])
        /\ t.status = IF s.status \in Starting THEN 4 ELSE 16
    BY LivePlayer, StatusValues DEF IsPlayer, Fields, Same
  <2> HIDE DEF t
  <2>2. Leads(s, t)
    BY <1>2, <2>1, NewStatus DEF Starting
  <2>3. Leads(t, StartMacro(t)) /\ Leads(t, Fire(t))
    BY <2>2, StartMacroLeads, FireLeads DEF Leads
  <2>4. t.status = 4 => StartMacro(t).status = 4 /\ Fire(t).status = 4
    BY <2>2, StartMacroStatus, FireLeads DEF Leads, Starting
  <2>5. Resumed(s) \in {StartMacro(t), Fire(t)}
    BY <1>2 DEF Resumed, t
  <2>6. s.status = 6 => t.status = 4
    BY <2>1 DEF Starting
  <2> QED
    BY <2>2, <2>3, <2>4, <2>5, <2>6, LeadsOn
<1> QED
  BY <1>1, <1>2

LEMMA OnAllsetLeads ==
    ASSUME NEW s, Live(s)
    PROVE  Leads(s, OnAllset(s))
<1> DEFINE r == Resumed(s)
           t == [s EXCEPT !.stash = "none"]
           u == SendCmd(t, Cmd("C2F"))
<1>1. Leads(s, r) /\ (s.status = 6 => r.status = 4)
  BY ResumedLeads
<1>2. s.status = 4 => Leads(s, Started(s))
  BY StartedLeads, Ends
<1>3. s.status = 6 => Leads(s, Started(r))
  BY <1>1, StartedLeads, Ends, LeadsOn DEF Leads
<1>4. Keeps(s, t)
  BY LivePlayer, StashValues DEF IsPlayer, Fields, Keeps, Same
<1> HIDE DEF t
<1>5. Leads(s, t)
  BY <1>4, KeepsLeads
<1>6. Leads(s, u)
  BY <1>5, Sends, OpNames, LeadsOn DEF Leads
<1> HIDE DEF r, u
<1>7. \/ OnAllset(s) \in {s, r, u}
      \/ s.status = 4 /\ OnAllset(s) = Started(s)
      \/ s.status = 6 /\ OnAllset(s) = Started(r)
  BY DEF OnAllset, Then, r, t, u
<1> QED
  BY <1>1, <1>2, <1>3, <1>6, <1>7, Stays

LEMMA RecoveredLeads ==
    ASSUME NEW s, Live(s)
    PROVE  Leads(s, Recovered(s))
<1> DEFINE x == SendCmd(s, Cmd("X5"))
           y == [x EXCEPT !.allsetCb = "resume"]
<1>1. Leads(s, x)
  BY Sends, OpNames
<1> HIDE DEF x
<1>2. Keeps(x, y)
  BY <1>1, LivePlayer, AllsetValues DEF Leads, IsPlayer, Fields, Keeps, Same
<1> HIDE DEF y
<1>3. Leads(x, y)
  BY <1>1, <1>2, KeepsLeads DEF Leads
<1>4. Recovered(s) \in {OnAllset(s), x, y}
  BY DEF Recovered, Then, x, y
<1> QED
  BY <1>1, <1>3, <1>4, LeadsOn, OnAllsetLeads

LEMMA RecoverLeads ==
    ASSUME NEW s, Live(s)
    PROVE  Leads(s, Recover(s))
<1> DEFINE t == [s EXCEPT !.hq = IF s.want = "unset" THEN @ ELSE Append(@, s.want),
                          !.cb = "recovered"]
<1>1. /\ IsPlayer(s) /\ s.hq \in HeadSeqs
      /\ (IF s.want = "unset" THEN s.hq ELSE Append(s.hq, s.want)) \in HeadSeqs
  BY LivePlayer, HeadSeqsHave, WantValues DEF IsPlayer
<1>2. Keeps(s, t)
  BY <1>1, CallbackValues DEF IsPlayer, Fields, Keeps, Same
<1> HIDE DEF t
<1>3. Leads(s, t)
  BY <1>2, KeepsLeads
<1>4. Leads(t, PopToHead(t))
  BY <1>2, <1>3, PopToHeadKeeps, KeepsLeads DEF Keeps, Leads
<1>5. Recover(s) \in {Recovered(s), t, PopToHead(t)}
  BY DEF Recover, t
<1> QED
  BY <1>3, <1>4, <1>5, LeadsOn, RecoveredLeads

LEMMA OnToolheadReadyLeads ==
    ASSUME NEW s, Live(s)
    PROVE  Leads(s, OnToolheadReady(s))
<1> DEFINE t == SetOperating(s)
<1>1. Leads(s, t)
  BY SetOperatingKeeps, KeepsLeads, LivePlayer
<1> HIDE DEF t
<1>2. Leads(t, Recover(t)) /\ Leads(t, OnAllset(t))
  BY <1>1, RecoverLeads, OnAllsetLeads DEF Leads
<1>3. OnToolheadReady(s) \in {Recover(t), OnAllset(t)}
  BY DEF OnToolheadReady, t
<1> QED
  BY <1>1, <1>2, <1>3, LeadsOn

LEMMA HeadAllsetLeads ==
    ASSUME NEW s, Live(s)
    PROVE  Leads(s, HeadAllset(s))
<1> DEFINE t == [s EXCEPT !.allsetCb = "none"]
           u == SendCmd(t, Cmd("X5"))
<1>1. Keeps(s, t)
  BY LivePlayer, AllsetValues DEF IsPlayer, Fields, Keeps, Same
<1> HIDE DEF t
<1>2. Leads(s, t)
  BY <1>1, KeepsLeads
<1>3. Leads(t, u)
  BY <1>2, Sends, OpNames DEF Leads
<1> HIDE DEF u
<1>4. Leads(u, ExecTask(u)) /\ Leads(u, ClearMacro(u)) /\ Leads(u, OnAllset(u))
  BY <1>3, ExecTaskLeads, ClearMacroLeads, OnAllsetLeads DEF Leads
<1>5. HeadAllset(s) \in {t, u, ExecTask(u), ClearMacro(u), OnAllset(u)}
  BY DEF HeadAllset, Then, t, u
<1> QED
  BY <1>2, <1>3, <1>4, <1>5, LeadsOn

LEMMA ProbeEmptyLeads ==
    ASSUME NEW s, Live(s)
    PROVE  Leads(s, ProbeEmpty(s))
<1> DEFINE t == [s EXCEPT !.probe = "converged"]
           u == SendCmd(t, Cmd("macro"))
           v == [s EXCEPT !.round = s.round + 1, !.probe = "none"]
           w == SendCmd(v, Cmd("probe"))
           g == Giveup(s)
<1>1. Keeps(s, t)
  BY ZenonT(120), LivePlayer, ProbeValues DEF IsPlayer, Fields, Keeps, Same
<1>2. ASSUME s.round < Ttl
      PROVE  Keeps(s, v)
  BY ZenonT(120), <1>2, LivePlayer, ProbeValues, RoundValues DEF IsPlayer, Fields, Keeps, Same
<1>3. [s EXCEPT !.round = @ + 1, !.probe = "none"] = v
  OBVIOUS
<1> HIDE DEF t, v
<1>4. Leads(s, t) /\ Leads(t, u)
  BY <1>1, KeepsLeads, Sends, OpNames DEF Leads
<1>5. s.round < Ttl => Leads(s, v) /\ Leads(v, w)
  BY <1>2, KeepsLeads, Sends, OpNames DEF Leads
<1> HIDE DEF u, w
<1>6. Leads(s, g) /\ Leads(s, ExecTask(s))
  BY GiveupLeads, ExecTaskLeads
<1> HIDE DEF g
<1>7. Leads(g, Raise(g, "other")) /\ Leads(s, Raise(s, "other"))
  BY <1>6, RaiseKeeps, ExcValues, KeepsLeads, LivePlayer DEF Leads
<1>8. \/ ProbeEmpty(s) \in {s, u, ExecTask(s), g, Raise(g, "other"), Raise(s, "other")}
      \/ s.round < Ttl /\ ProbeEmpty(s) = w
  BY <1>3 DEF ProbeEmpty, Then, t, u, w, g
<1> QED
  BY <1>4, <1>5, <1>6, <1>7, <1>8, LeadsOn, Stays

LEMMA MacroCommandEmptyLeads ==
    ASSUME NEW s, Live(s)
    PROVE  Leads(s, MacroCommandEmpty(s))
<1> DEFINE v == [s EXCEPT !.retracting = TRUE]
           w == SendCmd(v, Cmd("retract"))
<1>1. Keeps(s, v)
  BY ZenonT(120), LivePlayer, Booleans DEF IsPlayer, Fields, Keeps, Same
<1> HIDE DEF v
<1>2. Leads(s, v)
  BY <1>1, KeepsLeads
<1>3. Leads(v, w)
  BY <1>2, Sends, OpNames DEF Leads
<1> HIDE DEF w
<1>4. Leads(s, ExecTask(s)) /\ Leads(s, Abort(s, "none")) /\ Leads(s, ProbeEmpty(s))
  BY ExecTaskLeads, AbortLeads, ErrorValues, ProbeEmptyLeads
<1>5. MacroCommandEmpty(s) \in {s, w, ExecTask(s), ProbeEmpty(s), Abort(s, "none")}
  BY DEF MacroCommandEmpty, v, w
<1> QED
  BY <1>2, <1>3, <1>4, <1>5, LeadsOn, Stays

LEMMA PausedMacroEmptyLeads ==
    ASSUME NEW s, Live(s)
    PROVE  Leads(s, PausedMacroEmpty(s))
<1> DEFINE x == SendCmd(s, Cmd("load"))
           y == [x EXCEPT !.pausedMacro = "sent"]
           z == [s EXCEPT !.pausedMacro = "none"]
<1>1. Leads(s, x)
  BY Sends, OpNames
<1> HIDE DEF x
<1>2. Keeps(x, y) /\ Keeps(s, z)
  <2>1. IsPlayer(x) /\ IsPlayer(s) /\ "sent" \in LoadStates /\ "none" \in LoadStates
    BY <1>1, LivePlayer, LoadValues DEF Leads
  <2>2. Keeps(x, y)
    BY <2>1 DEF IsPlayer, Fields, Keeps, Same
  <2>3. Keeps(s, z)
    BY <2>1 DEF IsPlayer, Fields, Keeps, Same
  <2> QED
    BY <2>2, <2>3
<1> HIDE DEF y, z
<1>3. Leads(s, y) /\ Leads(s, z)
  BY <1>1, <1>2, KeepsLeads, LeadsOn DEF Leads
<1>4. PausedMacroEmpty(s) \in {s, x, y, z}
  BY DEF PausedMacroEmpty, Then, x, y, z
<1> QED
  BY <1>1, <1>3, <1>4, Stays

-----------------------------------------------------------------------------
(* The callbacks of the two controllers. *)

LEMMA OnMbEmptyLeads ==
    ASSUME NEW s, Live(s)
    PROVE  Leads(s, OnMbEmpty(s))
BY HandlePauseLeads, PausedMacroEmptyLeads, MacroCommandEmptyLeads, FireLeads, Stays
   DEF OnMbEmpty

LEMMA OnMbSendableLeads ==
    ASSUME NEW s, Live(s)
    PROVE  Leads(s, OnMbSendable(s))
BY PausedMacroEmptyLeads, FireLeads, Stays DEF OnMbSendable

LEMMA MacroCtrlLeads ==
    ASSUME NEW s, Live(s)
    PROVE  Leads(s, MacroCtrl(s))
<1> DEFINE t == [s EXCEPT !.probe = IF @ = "converged" THEN @ ELSE s.ctrl]
           g == Giveup(s)
<1>1. s.ctrl \in Readings => Keeps(s, t)
  BY LivePlayer DEF IsPlayer, Probes, Fields, Keeps, Same
<1> HIDE DEF t
<1>2. s.ctrl \in Readings => Leads(s, t)
  BY <1>1, KeepsLeads
<1>3. Leads(s, g)
  BY GiveupLeads
<1> HIDE DEF g
<1>4. Leads(g, Raise(g, "other"))
  BY <1>3, RaiseKeeps, ExcValues, KeepsLeads, LivePlayer DEF Leads
<1>5. \/ MacroCtrl(s) \in {s, g, Raise(g, "other")}
      \/ s.ctrl \in Readings /\ MacroCtrl(s) = t
  BY DEF MacroCtrl, Then, t, g
<1> QED
  BY <1>2, <1>3, <1>4, <1>5, LeadsOn, Stays

LEMMA OnMbCtrlLeads ==
    ASSUME NEW s, Live(s)
    PROVE  Leads(s, OnMbCtrl(s))
<1> DEFINE t == IF s.status = 48 THEN s ELSE MacroCtrl(s)
           u == [t EXCEPT !.stash = "stashed"]
<1>1. Leads(s, t)
  BY MacroCtrlLeads, Stays
<1> HIDE DEF t
<1>2. Keeps(t, u)
  BY <1>1, LivePlayer, StashValues DEF Leads, IsPlayer, Fields, Keeps, Same
<1> HIDE DEF u
<1>3. Leads(t, u)
  BY <1>1, <1>2, KeepsLeads DEF Leads
<1>4. Leads(u, PauseToolhead(u)) /\ Leads(t, Resumed(t))
  BY <1>1, <1>3, PauseToolheadLeads, ResumedLeads DEF Leads
<1>5. OnMbCtrl(s) \in {t, Resumed(t), PauseToolhead(u)}
  BY DEF OnMbCtrl, Then, t, u
<1> QED
  BY <1>1, <1>3, <1>4, <1>5, LeadsOn

LEMMA QuietLeads ==
    ASSUME NEW s, Live(s)
    PROVE  Leads(s, Quiet(s)) /\ Quiet(s).exc = "none"
<1>1. Leads(s, Quiet(s))
  BY QuietKeeps, KeepsLeads, LivePlayer
<1>2. Quiet(s).exc = "none"
  BY LivePlayer DEF Quiet, IsPlayer, Fields
<1> QED
  BY <1>1, <1>2

\* What becomes of an exception: it ends with the handler.
LEMMA CaughtLeads ==
    ASSUME NEW s, Live(s)
    PROVE  Leads(s, Caught(s)) /\ Caught(s).exc = "none"
<1> DEFINE q == Quiet(s)
           e == IF s.exc = "head lost" THEN s.exc ELSE "other"
           a == Abort(q, "other")
           b == Pause(q, e)
<1>1. Leads(s, q) /\ e \in Errors
  BY QuietLeads, ErrorValues
<1> HIDE DEF q, e
<1>2. Leads(q, a) /\ Leads(q, b)
  BY <1>1, AbortLeads, PauseLeads, ErrorValues DEF Leads
<1> HIDE DEF a, b
<1>3. Leads(s, Quiet(a)) /\ Quiet(a).exc = "none" /\ Leads(s, Quiet(b)) /\ Quiet(b).exc = "none"
  BY <1>1, <1>2, QuietLeads, LeadsOn DEF Leads
<1>4. \/ Caught(s) = s /\ s.exc = "none"
      \/ Caught(s) \in {Quiet(a), Quiet(b)}
  BY DEF Caught, q, e, a, b
<1> QED
  BY <1>3, <1>4, Stays

LEMMA CheckErrnoLeads ==
    ASSUME NEW s, Live(s)
    PROVE  Leads(s, CheckErrno(s))
<1>1. Leads(s, Raise(s, "hardware")) /\ Leads(s, Raise(s, "other"))
  BY RaiseKeeps, ExcValues, KeepsLeads, LivePlayer
<1> QED
  BY <1>1, Stays DEF CheckErrno

LEMMA HeadHandledLeads ==
    ASSUME NEW s, Live(s)
    PROVE  Leads(s, HeadHandled(s))
<1> DEFINE t == CheckErrno(s)
<1>1. Leads(s, t)
  BY CheckErrnoLeads
<1> HIDE DEF t
<1>2. Leads(t, Fire(t))
  BY <1>1, FireLeads DEF Leads
<1>3. HeadHandled(s) \in {s, t, Fire(t)}
  BY DEF HeadHandled, Then, t
<1> QED
  BY <1>1, <1>2, <1>3, LeadsOn, Stays

LEMMA OnToolheadRecvLeads ==
    ASSUME NEW h, Live(h)
    PROVE  Leads(h, OnToolheadRecv(h)) /\ OnToolheadRecv(h).exc = "none"
<1> DEFINE s == Then(h, HeadHandled)
           r == ToolheadReset(s)
<1>1. Leads(h, s)
  BY HeadHandledLeads, Stays DEF Then
<1> HIDE DEF s
<1>2. Leads(s, Close(s)) /\ Leads(s, r)
  BY <1>1, CloseKeeps, ToolheadResetKeeps, KeepsLeads, LivePlayer DEF Leads
<1> HIDE DEF r
<1>3. Leads(h, Quiet(Close(s))) /\ Quiet(Close(s)).exc = "none"
  BY <1>1, <1>2, QuietLeads, LeadsOn DEF Leads
<1>4. Leads(h, Caught(r)) /\ Caught(r).exc = "none" /\ Leads(h, Caught(s)) /\ Caught(s).exc = "none"
  BY <1>1, <1>2, CaughtLeads, LeadsOn DEF Leads
<1>5. OnToolheadRecv(h) \in {Quiet(Close(s)), Caught(r), Caught(s)}
  BY DEF OnToolheadRecv, s, r
<1> QED
  BY <1>3, <1>4, <1>5

LEMMA CallbackLeads ==
    ASSUME NEW s, Live(s)
    PROVE  Leads(s, Callback(s))
<1> DEFINE t == [s EXCEPT !.cb = "none"]
<1>1. Keeps(s, t)
  BY LivePlayer, CallbackValues DEF IsPlayer, Fields, Keeps, Same
<1> HIDE DEF t
<1>2. Leads(s, t)
  BY <1>1, KeepsLeads
<1>3. Leads(t, Recovered(t)) /\ Leads(t, ToolheadPaused(t)) /\ Leads(t, Close(t))
  BY <1>2, RecoveredLeads, ToolheadPausedLeads, CloseKeeps, KeepsLeads, LivePlayer DEF Leads
<1>4. Callback(s) \in {t, Recovered(t), ToolheadPaused(t), Close(t)}
  BY DEF Callback, t
<1> QED
  BY <1>2, <1>3, <1>4, LeadsOn

LEMMA PongLeads ==
    ASSUME NEW s, Live(s)
    PROVE  Leads(s, Pong(s))
<1> DEFINE r == ToolheadReset(s)
           u == [s EXCEPT !.rt = s.temp]
           t == PopToHead(u)
<1>1. Leads(s, r)
  BY ToolheadResetKeeps, KeepsLeads, LivePlayer
<1> HIDE DEF r
<1>2. Leads(r, Raise(r, "head lost"))
  BY <1>1, RaiseKeeps, ExcValues, KeepsLeads, LivePlayer DEF Leads
<1>3. IsPlayer(s) /\ s.temp \in HeadReadings
  BY LivePlayer, ReadingValues DEF IsPlayer
<1>4. Keeps(s, u)
  BY <1>3 DEF IsPlayer, Fields, Keeps, Same
<1>5. [s EXCEPT !.rt = s.temp] = u
  OBVIOUS
<1> HIDE DEF u
<1>6. Leads(s, u)
  BY <1>4, KeepsLeads
<1>7. Leads(u, t)
  BY <1>4, <1>6, PopToHeadKeeps, KeepsLeads DEF Leads, Keeps
<1> HIDE DEF t
<1>8. Leads(t, HeadAllset(t))
  BY <1>7, HeadAllsetLeads DEF Leads
<1>9. Pong(s) \in {Raise(r, "head lost"), t, HeadAllset(t)}
  BY DEF Pong, Then, r, t, u
<1>10. Leads(s, t) /\ Leads(s, Raise(r, "head lost"))
  BY <1>1, <1>2, <1>6, <1>7, LeadsOn
<1>11. Leads(s, HeadAllset(t))
  BY <1>8, <1>10, LeadsOn
<1> QED
  BY <1>9, <1>10, <1>11

LEMMA IdleHeadLeads ==
    ASSUME NEW s, Live(s)
    PROVE  Leads(s, IdleHead(s))
<1> DEFINE r == ToolheadReset(s)
<1>1. Leads(s, r) /\ Leads(s, Close(s))
  BY ToolheadResetKeeps, CloseKeeps, KeepsLeads, LivePlayer
<1> HIDE DEF r
<1>2. Leads(r, PowerOff(r))
  BY <1>1, PowerOffKeeps, KeepsLeads, LivePlayer DEF Leads
<1>3. IdleHead(s) \in {s, PowerOff(r), Close(s)}
  BY DEF IdleHead, r
<1> QED
  BY <1>1, <1>2, <1>3, LeadsOn, Stays

-----------------------------------------------------------------------------
(* The requests. *)

LEMMA SoftAbortLeads ==
    ASSUME NEW s, Live(s)
    PROVE  Leads(s, SoftAbort(s))
<1> DEFINE t == [s EXCEPT !.macro = "soft abort"]
<1>1. Keeps(s, t)
  <2>1. IsPlayer(s) /\ "soft abort" \in Macros
    BY LivePlayer, MacroValues
  <2> QED
    BY ZenonT(120), <2>1 DEF IsPlayer, Fields, Keeps, Same
<1> HIDE DEF t
<1>2. Leads(s, t) /\ Leads(s, Abort(s, "none"))
  BY <1>1, KeepsLeads, AbortLeads, ErrorValues
<1>3. SoftAbort(s) \in {t, Abort(s, "none")}
  BY DEF SoftAbort, t
<1> QED
  BY <1>2, <1>3

LEMMA SetToolheadOperationLeads ==
    ASSUME NEW s, Live(s)
    PROVE  Leads(s, SetToolheadOperation(s))
<1> DEFINE t == [s EXCEPT !.error = "none", !.control = FALSE]
           u == ToolheadBootstrap(PowerOn(t))
<1>1. Keeps(s, t)
  BY ZenonT(120), LivePlayer, ErrorValues, Booleans DEF IsPlayer, Fields, Keeps, Same
<1> HIDE DEF t
<1>2. Keeps(t, u)
  BY <1>1, PowerOnKeeps, ToolheadBootstrapKeeps, KeepsOn DEF Keeps
<1>3. Leads(s, u)
  BY <1>1, <1>2, KeepsOn, KeepsLeads
<1>4. SetToolheadOperation(s) \in {s, u}
  BY DEF SetToolheadOperation, t, u
<1> QED
  BY <1>3, <1>4, Stays

LEMMA SetToolheadStandbyLeads ==
    ASSUME NEW s, Live(s)
    PROVE  Leads(s, SetToolheadStandby(s))
<1> DEFINE t == [s EXCEPT !.control = TRUE]
<1>1. Keeps(s, t)
  BY ZenonT(120), LivePlayer, Booleans DEF IsPlayer, Fields, Keeps, Same
<1> HIDE DEF t
<1>2. Leads(s, t)
  BY <1>1, KeepsLeads
<1>3. Leads(t, PauseToolhead(t))
  BY <1>2, PauseToolheadLeads DEF Leads
<1>4. SetToolheadStandby(s) \in {s, PauseToolhead(t)}
  BY DEF SetToolheadStandby, t
<1> QED
  BY <1>2, <1>3, <1>4, LeadsOn, Stays

LEMMA SetToolheadHeaterLeads ==
    ASSUME NEW s, Live(s), NEW v \in Targets
    PROVE  Leads(s, SetToolheadHeater(s, v))
<1> DEFINE t == [s EXCEPT !.heatTo = IF s.macro = "heat" THEN v ELSE @]
<1>1. Keeps(s, t)
  BY LivePlayer DEF IsPlayer, Fields, Keeps, Same
<1> HIDE DEF t
<1>2. Leads(s, t)
  BY <1>1, KeepsLeads
<1>3. Leads(t, SetHeater(t, v))
  BY <1>1, <1>2, SetHeaterKeeps, KeepsLeads DEF Leads, Keeps
<1>4. SetToolheadHeater(s, v) \in {s, SetHeater(t, v)}
  BY DEF SetToolheadHeater, t
<1> QED
  BY <1>2, <1>3, <1>4, LeadsOn, Stays

LEMMA LoadFilamentLeads ==
    ASSUME NEW s, Live(s)
    PROVE  Leads(s, LoadFilament(s))
<1> DEFINE t == [s EXCEPT !.pausedMacro = "to send"]
<1>1. Keeps(s, t)
  BY ZenonT(120), LivePlayer, LoadValues DEF IsPlayer, Fields, Keeps, Same
<1> HIDE DEF t
<1>2. Leads(s, t)
  BY <1>1, KeepsLeads
<1>3. Leads(t, PausedMacroEmpty(t))
  BY <1>2, PausedMacroEmptyLeads DEF Leads
<1>4. LoadFilament(s) \in {s, t, PausedMacroEmpty(t)}
  BY DEF LoadFilament, t
<1> QED
  BY <1>2, <1>3, <1>4, LeadsOn, Stays

-----------------------------------------------------------------------------
(* The steps. *)

\* What every step does.
Fine(s, t) ==
    /\ Sound(t) /\ Open(t) /\ t.exc = "none"
    /\ s.status \in Ended => t.status = s.status

LEMMA LeadsFine ==
    ASSUME NEW s, NEW t, Leads(s, t), t.exc = "none"
    PROVE  Fine(s, t)
BY DEF Leads, Live, Fine, Open

LEMMA KeepsFine ==
    ASSUME NEW s, NEW t, Live(s), Keeps(s, t), t.exc = "none"
    PROVE  Fine(s, t)
BY KeepsLeads, LeadsFine

LEMMA LiveNow ==
    ASSUME IInv, p.mb # "off"
    PROVE  Live(p)
BY DEF IInv, Live, Open

\* Before the mainboard is greeted nothing but the status changes.
LEMMA OffFine ==
    ASSUME NEW s, NEW t, Sound(s), Open(s), s.mb = "off", IsPlayer(t), t.exc = "none",
           Same(s, [t EXCEPT !.status = s.status]), t.th = "INIT", t.out = s.out,
           t.updating = s.updating, t.ctrl = s.ctrl,
           t.status = s.status \/ (s.status \notin Ended /\ t.status \in {38, 128})
    PROVE  Fine(s, t)
<1>1. /\ t.next = s.next /\ t.fed = s.fed /\ t.mb = s.mb
      /\ t.queue = s.queue /\ t.fin = s.fin /\ t.did = s.did
  BY DEF Same
<1>2. s.status \in {4, 38, 128} /\ s.fed = 0 /\ s.next = 1 /\ s.status # 64
  <2>1. s.next \in Nat /\ s.status \in {4, 38, 128} /\ s.fed = 0 /\ s.mb # "closing"
    BY DEF Sound, IsPlayer, Open
  <2> QED
    BY <2>1 DEF Sound, Reading
<1>3. Open(t)
  BY <1>1, <1>2 DEF Open
<1>4. NoGap(t.did, t.queue, t.fin, t.next)
  BY <1>1, <1>2 DEF NoGap
<1>5. Reading(t.status, t.next, t.fed)
  <2>1. t.status # 64 /\ t.next = 1 /\ t.fed = 0
    BY <1>1, <1>2
  <2> QED
    BY <2>1, <1>1 DEF Sound, Reading
<1>6. Sound(t)
  BY <1>1, <1>2, <1>4, <1>5 DEF Sound
<1> QED
  BY <1>3, <1>6 DEF Fine

\* The mainboard carries out its next command.
LEMMA Executed ==
    ASSUME NEW s, Live(s), s.fin < Len(s.queue), NEW b \in Bools, NEW c \in Ctrls
    PROVE  Leads(s, [s EXCEPT !.fin = s.fin + 1, !.parked = b, !.ctrl = c,
                              !.did = IF s.queue[s.fin + 1].op = "job"
                                      THEN Append(s.did, s.queue[s.fin + 1].i) ELSE s.did])
<1> DEFINE n == s.fin + 1
           q == s.queue
           d == IF q[n].op = "job" THEN Append(s.did, q[n].i) ELSE s.did
           t == [s EXCEPT !.fin = n, !.parked = b, !.ctrl = c, !.did = d]
<1>1. /\ IsPlayer(s) /\ s.next \in Nat /\ s.fin \in Nat /\ s.did \in IndexSeqs
      /\ q \in CommandSeqs /\ scenario \in Scenarios /\ Ordered(s.did, q, s.fin, s.next)
      /\ Len(q) \in Nat
  BY LivePlayer DEF Live, Sound, IsPlayer, CommandSeqs
<1>2. n \in Nat /\ n \in 1..Len(q) /\ n <= Len(q)
  BY <1>1
<1>3. Waiting(q, n) \subseteq Waiting(q, s.fin) /\ n \notin Waiting(q, n)
  BY <1>1 DEF Waiting
<1>4. \A a \in Waiting(q, s.fin) : a = n \/ a \in Waiting(q, n)
  BY <1>1 DEF Waiting
<1>5. q[n].op = "job" => n \in Waiting(q, s.fin)
  BY <1>1, <1>2 DEF Waiting
<1>6. n \in Waiting(q, s.fin) => q[n].op = "job" /\ q[n].i \in Indices
  BY <1>1, WaitingIs
<1>7. Len(s.did) \in Nat /\ \A j \in 1..Len(s.did) : s.did[j] \in Nat
  BY <1>1, IndexNat DEF IndexSeqs
<1>8. /\ d \in IndexSeqs /\ Len(d) \in Nat
      /\ \A j \in 1..Len(s.did) : j \in 1..Len(d) /\ d[j] = s.did[j]
      /\ \A j \in 1..Len(d) : j \notin 1..Len(s.did) =>
             q[n].op = "job" /\ d[j] = q[n].i /\ j = Len(s.did) + 1
      /\ q[n].op = "job" => Len(s.did) + 1 \in 1..Len(d) /\ d[Len(s.did) + 1] = q[n].i
  <2>1. CASE q[n].op = "job"
    <3>1. q[n].i \in Indices /\ d = Append(s.did, q[n].i)
      BY <1>5, <1>6, <2>1
    <3> HIDE DEF d, q, n
    <3> QED
      BY <1>1, <2>1, <3>1 DEF IndexSeqs
  <2>2. CASE q[n].op # "job"
    <3>1. d = s.did
      BY <2>2
    <3> HIDE DEF d, q, n
    <3> QED
      BY <1>1, <1>7, <2>2, <3>1
  <2> QED
    BY <2>1, <2>2
<1>9. \A a \in Waiting(q, s.fin) : q[a].i \in Nat /\ a \in Nat
  <2>1. \A a \in Waiting(q, s.fin) : q[a].i \in Indices /\ a \in 1..Len(q)
    BY <1>1, WaitingIs
  <2> QED
    BY <2>1, <1>1, IndexNat
<1>10. \A a \in Waiting(q, n) : n < a
  BY <1>2 DEF Waiting
<1> HIDE DEF d, n, q
<1>11. Ordered(d, q, n, s.next)
  <2>1. \A j \in 1..Len(d) : Carried(d[j]) /\ d[j] < s.next
    BY <1>1, <1>5, <1>8 DEF Ordered
  <2>2. \A j, k \in 1..Len(d) : j < k => d[j] < d[k]
    <3> SUFFICES ASSUME NEW j \in 1..Len(d), NEW k \in 1..Len(d), j < k PROVE d[j] < d[k]
      OBVIOUS
    <3>1. CASE k \in 1..Len(s.did)
      <4>1. j \in 1..Len(s.did)
        BY <1>7, <3>1
      <4> QED
        BY <1>1, <1>8, <3>1, <4>1 DEF Ordered
    <3>2. CASE k \notin 1..Len(s.did)
      <4>1. q[n].op = "job" /\ d[k] = q[n].i /\ k = Len(s.did) + 1 /\ j \in 1..Len(s.did)
        BY <1>7, <1>8, <3>2
      <4> QED
        BY <1>1, <1>5, <1>8, <4>1 DEF Ordered
    <3> QED
      BY <3>1, <3>2
  <2>3. \A a \in Waiting(q, n) : \A j \in 1..Len(d) : d[j] < q[a].i
    <3> SUFFICES ASSUME NEW a \in Waiting(q, n), NEW j \in 1..Len(d) PROVE d[j] < q[a].i
      OBVIOUS
    <3>1. CASE j \in 1..Len(s.did)
      BY <1>1, <1>3, <1>8, <3>1 DEF Ordered
    <3>2. CASE j \notin 1..Len(s.did)
      <4>1. n \in Waiting(q, s.fin) /\ a \in Waiting(q, s.fin) /\ n < a /\ d[j] = q[n].i
        BY <1>3, <1>5, <1>8, <1>10, <3>2
      <4> QED
        BY <1>1, <4>1 DEF Ordered
    <3> QED
      BY <3>1, <3>2
  <2> QED
    BY <1>1, <1>2, <1>3, <2>1, <2>2, <2>3 DEF Ordered
<1>12. s.status # 128 => NoGap(d, q, n, s.next)
  <2> SUFFICES ASSUME s.status # 128, NEW i \in 1..s.next-1, Carried(i)
               PROVE  \/ \E j \in 1..Len(d) : d[j] = i
                      \/ \E a \in Waiting(q, n) : q[a].i = i
    BY DEF NoGap
  <2>1. \/ \E j \in 1..Len(s.did) : s.did[j] = i
        \/ \E a \in Waiting(q, s.fin) : q[a].i = i
    BY DEF Live, Sound, NoGap, q
  <2> QED
    BY SMTT(40), <2>1, <1>4, <1>6, <1>8
<1>13. s.status # 64
  <2>1. q # <<>>
    BY <1>1, <1>2
  <2> QED
    BY <2>1 DEF Live, Sound, q
<1>14. /\ IsPlayer(t) /\ t.status = s.status /\ t.fed = s.fed /\ t.next = s.next /\ t.mb = s.mb
       /\ t.queue = q /\ t.fin = n /\ t.did = d
  BY <1>1, <1>2, <1>8 DEF IsPlayer, Fields, q
<1> HIDE DEF t
<1>15. Leads(s, t)
  BY <1>11, <1>12, <1>13, <1>14 DEF Live, Sound, Leads
<1> QED
  BY <1>15 DEF t, d, n, q

\* k finished commands leave the buffer.
LEMMA Reported ==
    ASSUME NEW s, Live(s), s.queue # <<>>, NEW k \in Nat, k <= s.fin
    PROVE  Leads(s, [s EXCEPT !.queue = SubSeq(s.queue, k + 1, Len(s.queue)), !.fin = s.fin - k])
<1> DEFINE Q == s.queue
           q == SubSeq(Q, k + 1, Len(Q))
           n == s.fin - k
           t == [s EXCEPT !.queue = q, !.fin = n]
<1>1. /\ IsPlayer(s) /\ s.next \in Nat /\ s.fin \in Nat /\ s.did \in IndexSeqs
      /\ Q \in CommandSeqs /\ scenario \in Scenarios /\ Ordered(s.did, Q, s.fin, s.next)
      /\ Len(Q) \in Nat /\ s.fin <= Len(Q) /\ Len(Q) <= BufSize /\ BufSize \in Nat
  BY LivePlayer, ScenarioType DEF Live, Sound, IsPlayer, CommandSeqs, Ordered
<1>2. n \in Nat /\ k <= Len(Q)
  BY <1>1
<1>3. /\ q \in CommandSeqs /\ Len(q) = Len(Q) - k
      /\ \A a \in 1..Len(Q) - k : q[a] = Q[a + k]
  <2> HIDE DEF Q
  <2>1. q \in Seq(Commands) /\ Len(q) = Len(Q) - k
        /\ \A a \in 1..Len(Q) - k : q[a] = Q[a + k]
    <3>1. Q \in Seq(Commands) /\ k + 1 \in 1..Len(Q)+1 /\ Len(Q) \in k..Len(Q)
      BY <1>1, <1>2 DEF CommandSeqs
    <3>2. \A a \in k+1..Len(Q) : Q[a] \in Commands
      BY <3>1
    <3>3. Len(Q) - (k + 1) + 1 = Len(Q) - k /\ \A a \in 1..Len(Q) - k : a + (k + 1) - 1 = a + k
      BY <1>1
    <3> QED
      BY SMTT(30), <1>1, <3>1, <3>2, <3>3, SubSeqProperties
  <2> QED
    BY <2>1 DEF CommandSeqs
<1> HIDE DEF q, n
<1>4. \A a \in Waiting(q, n) : a + k \in Waiting(Q, s.fin) /\ q[a] = Q[a + k] /\ a \in Nat
  <2> SUFFICES ASSUME NEW a \in Waiting(q, n)
               PROVE  a + k \in Waiting(Q, s.fin) /\ q[a] = Q[a + k] /\ a \in Nat
    OBVIOUS
  <2>1. a \in n+1..Len(q) /\ q[a].op = "job"
    BY DEF Waiting
  <2>2. a \in 1..Len(Q) - k /\ a + k \in s.fin+1..Len(Q) /\ a \in Nat
    BY SMTT(30), <1>1, <1>2, <1>3, <2>1 DEF n
  <2>3. q[a] = Q[a + k]
    BY <1>3, <2>2
  <2> QED
    BY <2>1, <2>2, <2>3 DEF Waiting
<1>5. \A a \in Waiting(Q, s.fin) : a - k \in Waiting(q, n) /\ q[a - k] = Q[a] /\ a \in Nat
  <2> SUFFICES ASSUME NEW a \in Waiting(Q, s.fin)
               PROVE  a - k \in Waiting(q, n) /\ q[a - k] = Q[a] /\ a \in Nat
    OBVIOUS
  <2>1. a \in s.fin+1..Len(Q) /\ Q[a].op = "job"
    BY DEF Waiting
  <2>2. a - k \in 1..Len(Q) - k /\ (a - k) + k = a /\ a - k \in n+1..Len(q) /\ a \in Nat
    BY SMTT(30), <1>1, <1>2, <1>3, <2>1 DEF n
  <2>3. q[a - k] = Q[a]
    BY <1>3, <2>2
  <2> QED
    BY <2>1, <2>2, <2>3 DEF Waiting
<1>6. Ordered(s.did, q, n, s.next)
  <2>1. n <= Len(q) /\ Len(q) <= BufSize
    BY <1>1, <1>2, <1>3 DEF n
  <2>2. \A a \in Waiting(q, n) :
            /\ Carried(q[a].i) /\ q[a].i < s.next
            /\ \A j \in 1..Len(s.did) : s.did[j] < q[a].i
    BY <1>1, <1>4 DEF Ordered
  <2>3. \A a \in Waiting(q, n) : \A b \in Waiting(q, n) : b < a => q[b].i < q[a].i
    <3> SUFFICES ASSUME NEW a \in Waiting(q, n), NEW b \in Waiting(q, n), b < a
                 PROVE  q[b].i < q[a].i
      OBVIOUS
    <3>1. a + k \in Waiting(Q, s.fin) /\ b + k \in Waiting(Q, s.fin) /\ b + k < a + k
          /\ q[a] = Q[a + k] /\ q[b] = Q[b + k]
      BY <1>4
    <3> QED
      BY <1>1, <3>1 DEF Ordered
  <2> QED
    BY <1>1, <2>1, <2>2, <2>3 DEF Ordered
<1>7. s.status # 128 => NoGap(s.did, q, n, s.next)
  <2> SUFFICES ASSUME s.status # 128, NEW i \in 1..s.next-1, Carried(i)
               PROVE  \/ \E j \in 1..Len(s.did) : s.did[j] = i
                      \/ \E a \in Waiting(q, n) : q[a].i = i
    BY DEF NoGap
  <2>1. \/ \E j \in 1..Len(s.did) : s.did[j] = i
        \/ \E a \in Waiting(Q, s.fin) : Q[a].i = i
    BY DEF Live, Sound, NoGap
  <2> QED
    BY <2>1, <1>5
<1>8. s.status # 64
  BY DEF Live, Sound
<1>9. /\ IsPlayer(t) /\ t.status = s.status /\ t.fed = s.fed /\ t.next = s.next /\ t.mb = s.mb
      /\ t.queue = q /\ t.fin = n /\ t.did = s.did
  BY <1>1, <1>2, <1>3 DEF IsPlayer, Fields
<1> HIDE DEF t, Q
<1>10. Leads(s, t)
  BY <1>6, <1>7, <1>8, <1>9 DEF Live, Sound, Leads
<1> QED
  BY <1>10 DEF t, q, n, Q

LEMMA MbReadyFine ==
    ASSUME IInv, MbReady
    PROVE  Fine(p, p')
<1> DEFINE s == [p EXCEPT !.mb = "ready"]
           t == OnMainboardReady(s)
<1>1. p.mb = "off" /\ p' = Caught(t)
  BY DEF MbReady, Step
<1>2. p.status \in {4, 38, 128} /\ p.status # 64 /\ Sound(p) /\ IsPlayer(p)
  BY <1>1 DEF IInv, Open, Sound
<1>3. /\ IsPlayer(s) /\ s.mb = "ready" /\ s.status = p.status /\ s.next = p.next
      /\ s.fed = p.fed /\ s.queue = p.queue /\ s.fin = p.fin /\ s.did = p.did
  BY <1>2, MbValues DEF IsPlayer, Fields
<1> HIDE DEF s
<1>4. Live(s)
  BY <1>2, <1>3 DEF Live, Sound
<1>5. Leads(s, t)
  BY <1>3, <1>4, OnMainboardReadyKeeps, KeepsLeads
<1> HIDE DEF t
<1>6. Leads(s, Caught(t)) /\ Caught(t).exc = "none"
  BY <1>5, CaughtLeads, LeadsOn DEF Leads
<1> QED
  BY <1>1, <1>3, <1>6, LeadsFine DEF Fine

LEMMA MbExecutesFine ==
    ASSUME IInv, MbExecutes
    PROVE  Fine(p, p')
<1> DEFINE c == p.queue[p.fin + 1]
           s == [p EXCEPT !.fin = @ + 1,
                          !.did = IF c.op = "job" THEN Append(@, c.i) ELSE @,
                          !.parked = IF c.op = "C2" THEN TRUE
                                     ELSE IF c.op = "C2F" THEN FALSE ELSE @]
           u(b, e) == [p EXCEPT !.fin = p.fin + 1, !.parked = b, !.ctrl = e,
                                !.did = IF p.queue[p.fin + 1].op = "job"
                                        THEN Append(p.did, p.queue[p.fin + 1].i) ELSE p.did]
<1>1. p.fin < Len(p.queue) /\ Sound(p) /\ Open(p) /\ p.exc = "none" /\ IsPlayer(p)
  BY DEF MbExecutes, IInv, Sound
<1>2. Live(p)
  <2>1. p.queue # <<>>
    BY <1>1 DEF IsPlayer
  <2> QED
    BY <2>1, LiveNow DEF IInv, Open
<1>3. \E b \in Bools, e \in Ctrls : p' = u(b, e)
  <2> DEFINE par == IF c.op = "C2" THEN TRUE ELSE IF c.op = "C2F" THEN FALSE ELSE p.parked
  <2>1. par \in Bools /\ p.ctrl \in Ctrls
    BY <1>1, Booleans DEF IsPlayer
  <2>2. s = u(par, p.ctrl) /\ \A e : [s EXCEPT !.ctrl = e] = u(par, e)
    BY ZenonT(120), <1>1 DEF IsPlayer, Fields
  <2>3. p' = s \/ \E e \in Ctrls : p' = [s EXCEPT !.ctrl = e]
    BY CtrlValues DEF MbExecutes, Step
  <2> HIDE DEF s, par
  <2>4. p' = u(par, p.ctrl) \/ \E e \in Ctrls : p' = u(par, e)
    BY ZenonT(120), <2>2, <2>3
  <2> HIDE DEF u
  <2>5. \E e \in Ctrls : p' = u(par, e)
    BY <2>1, <2>4
  <2> QED
    BY <2>1, <2>5
<1>4. PICK b \in Bools, e \in Ctrls : p' = u(b, e)
  BY <1>3
<1>5. Leads(p, u(b, e))
  BY <1>1, <1>2, Executed
<1>6. u(b, e).exc = "none"
  BY <1>1 DEF IsPlayer, Fields
<1> HIDE DEF u
<1> QED
  BY <1>4, <1>5, <1>6, LeadsFine

LEMMA MbCtrlFine ==
    ASSUME IInv, MbCtrl
    PROVE  Fine(p, p')
<1> DEFINE u == OnMbCtrl(p)
           s == Caught(u)
           t == [s EXCEPT !.ctrl = "none"]
<1>1. p.ctrl # "none" /\ p' = t
  BY DEF MbCtrl, Step
<1>2. Live(p)
  BY <1>1, LiveNow DEF IInv, Open
<1>3. Leads(p, u)
  BY <1>2, OnMbCtrlLeads
<1> HIDE DEF u
<1>4. Leads(p, s) /\ s.exc = "none"
  BY <1>3, CaughtLeads, LeadsOn DEF Leads
<1> HIDE DEF s
<1>5. Keeps(s, t) /\ t.exc = s.exc
  BY ZenonT(120), <1>4, LivePlayer, CtrlValues DEF Leads, IsPlayer, Fields, Keeps, Same
<1> HIDE DEF t
<1>6. Leads(p, t) /\ t.exc = "none"
  BY <1>4, <1>5, KeepsLeads, LeadsOn DEF Leads
<1> QED
  BY <1>1, <1>6, LeadsFine

LEMMA MbLnFine ==
    ASSUME IInv, NEW k \in 0..BufSize, MbLn(k)
    PROVE  Fine(p, p')
<1> DEFINE left == Len(p.queue) - k
           s == [p EXCEPT !.queue = SubSeq(@, k + 1, Len(@)), !.fin = @ - k]
           t == IF left + 1 = BufSize THEN OnMbSendable(s) ELSE s
           u == IF left = 0 THEN Then(t, OnMbEmpty) ELSE t
<1>1. p.queue # <<>> /\ k <= p.fin /\ p' = Caught(u)
  BY DEF MbLn, Step
<1>2. Live(p) /\ k \in Nat
  <2>1. BufSize \in Nat
    BY ScenarioType DEF IInv
  <2> QED
    BY <1>1, <2>1, LiveNow DEF IInv, Open
<1>3. Leads(p, s)
  BY <1>1, <1>2, Reported
<1> HIDE DEF s, left
<1>4. Leads(s, t)
  BY <1>3, OnMbSendableLeads, Stays DEF Leads
<1> HIDE DEF t
<1>5. Leads(t, u)
  BY <1>4, OnMbEmptyLeads, Stays DEF Leads, Then
<1> HIDE DEF u
<1>6. Leads(p, Caught(u)) /\ Caught(u).exc = "none"
  BY <1>3, <1>4, <1>5, CaughtLeads, LeadsOn DEF Leads
<1> QED
  BY <1>1, <1>6, LeadsFine

LEMMA MbRunoutFine ==
    ASSUME IInv, MbRunout
    PROVE  Fine(p, p')
<1> DEFINE s == [p EXCEPT !.mb = "error"]
           t == Raise(s, "other")
<1>1. p.mb = "ready" /\ p' = Caught(t)
  BY DEF MbRunout, Step
<1>2. Live(p)
  BY <1>1, LiveNow
<1>3. /\ IsPlayer(s) /\ s.mb = "error" /\ s.status = p.status /\ s.next = p.next
      /\ s.fed = p.fed /\ s.queue = p.queue /\ s.fin = p.fin /\ s.did = p.did
  BY <1>2, LivePlayer, MbValues DEF IsPlayer, Fields
<1> HIDE DEF s
<1>4. Live(s)
  BY <1>1, <1>2, <1>3 DEF Live, Sound
<1>5. Leads(s, t)
  BY <1>3, <1>4, RaiseKeeps, ExcValues, KeepsLeads
<1> HIDE DEF t
<1>6. Leads(s, Caught(t)) /\ Caught(t).exc = "none"
  BY <1>5, CaughtLeads, LeadsOn DEF Leads
<1> QED
  BY <1>1, <1>3, <1>6, LeadsFine DEF Fine

\* An abort before the mainboard is greeted.
LEMMA OffAbort ==
    ASSUME IInv, p.mb = "off", NEW s, Keeps(p, s), s.th = "INIT", s.out = p.out,
           s.updating = p.updating, s.ctrl = p.ctrl, NEW e \in Errors
    PROVE  Fine(p, Quiet(Abort(s, e)))
<1> DEFINE a == [s EXCEPT !.status = 128, !.error = e]
           b == [a EXCEPT !.macro = "none", !.pausedMacro = "none", !.power = TRUE]
           c == [b EXCEPT !.closed = TRUE]
<1>1. Sound(p) /\ Open(p) /\ IsPlayer(s) /\ Same(p, s) /\ s.mb = "off"
  BY DEF IInv, Keeps, Same
<1>2. CASE s.status \in Ended
  <2>1. Quiet(s).exc = "none" /\ Quiet(s).th = s.th /\ Quiet(s).out = s.out
        /\ Quiet(s).updating = s.updating /\ Quiet(s).ctrl = s.ctrl
        /\ IsPlayer(Quiet(s)) /\ Quiet(s).status = s.status
        /\ Same(p, [Quiet(s) EXCEPT !.status = p.status])
    BY ZenonT(120), <1>1, ExcValues DEF Quiet, IsPlayer, Fields, Same
  <2>2. Fine(p, Quiet(s))
    BY <1>1, <2>1, OffFine DEF Same
  <2> QED
    BY <1>2, <2>2 DEF Abort
<1>3. CASE s.status \notin Ended
  <2>1. /\ IsPlayer(a) /\ a.status = 128 /\ a.mb = "off" /\ a.th = "INIT" /\ a.exc = s.exc
        /\ a.out = s.out /\ a.updating = s.updating /\ a.ctrl = s.ctrl
        /\ Same(s, [a EXCEPT !.status = s.status])
    BY <1>1, StatusValues DEF IsPlayer, Fields, Same
  <2>2. a.power \/ ~Ready(a) = TRUE
    BY <2>1 DEF Ready
  <2>3. Terminate(a) = c
    <3>1. ~Ready(a) /\ ~Usable(a)
      BY <2>1 DEF Ready, Usable
    <3> HIDE DEF a
    <3>2. [a EXCEPT !.macro = "none", !.pausedMacro = "none", !.power = @ \/ ~Ready(a)] = b
      BY <2>1, <3>1 DEF IsPlayer, Fields
    <3>3. MainboardClose(b) = b
      <4>1. b.mb = "off"
        BY <2>1 DEF IsPlayer, Fields
      <4> QED
        BY <4>1 DEF MainboardClose, Usable
    <3> HIDE DEF b
    <3> QED
      BY <3>1, <3>2, <3>3 DEF Terminate, Close
  <2>4. Abort(s, e) \in {c, Close(c)}
    BY <1>3, <2>3 DEF Abort
  <2> HIDE DEF a
  <2>5. /\ IsPlayer(b) /\ b.status = 128 /\ b.mb = "off" /\ b.th = "INIT" /\ b.exc = s.exc
        /\ b.out = s.out /\ b.updating = s.updating /\ b.ctrl = s.ctrl
        /\ Same(s, [b EXCEPT !.status = s.status])
    BY ZenonT(120), <2>1, MacroValues, LoadValues, Booleans DEF IsPlayer, Fields, Same
  <2> HIDE DEF b
  <2>6. ASSUME NEW d \in {c, Close(c)}
        PROVE  Fine(p, Quiet(d))
    <3>1. /\ IsPlayer(d) /\ d.status = 128 /\ d.mb = "off" /\ d.th = "INIT"
          /\ d.out = s.out /\ d.updating = s.updating /\ d.ctrl = s.ctrl
          /\ Same(s, [d EXCEPT !.status = s.status])
      <4>1. /\ IsPlayer(c) /\ c.status = 128 /\ c.mb = "off" /\ c.th = "INIT"
            /\ c.out = s.out /\ c.updating = s.updating /\ c.ctrl = s.ctrl
            /\ Same(s, [c EXCEPT !.status = s.status])
        BY ZenonT(120), <2>5, Booleans DEF IsPlayer, Fields, Same
      <4> HIDE DEF c
      <4>2. /\ IsPlayer(Close(c)) /\ Close(c).status = 128 /\ Close(c).mb = "off"
            /\ Close(c).th = "INIT" /\ Close(c).out = s.out
            /\ Close(c).updating = s.updating /\ Close(c).ctrl = s.ctrl
            /\ Same(s, [Close(c) EXCEPT !.status = s.status])
        BY ZenonT(120), <4>1, Booleans DEF Close, IsPlayer, Fields, Same
      <4> QED
        BY <4>1, <4>2
    <3> DEFINE f == Quiet(d)
    <3>2. /\ IsPlayer(f) /\ f.status = 128 /\ f.th = "INIT" /\ f.exc = "none"
          /\ f.out = s.out /\ f.updating = s.updating /\ f.ctrl = s.ctrl
          /\ Same(s, [f EXCEPT !.status = s.status])
      BY ZenonT(120), <3>1, ExcValues DEF Quiet, IsPlayer, Fields, Same
    <3> HIDE DEF f
    <3>3. Same(p, [f EXCEPT !.status = p.status]) /\ p.status = s.status
      BY <1>1, <3>2 DEF Same, IsPlayer, Fields
    <3> QED
      BY <1>1, <1>3, <3>2, <3>3, OffFine DEF f, Same
  <2> QED
    BY <2>4, <2>6
<1> QED
  BY <1>2, <1>3

LEMMA MbFailsFine ==
    ASSUME IInv, MbFails
    PROVE  Fine(p, p')
<1> DEFINE s == Raise(p, "system")
           q == Quiet(s)
<1>1. p' = Caught(s) /\ IsPlayer(p) /\ p.exc = "none"
  BY DEF MbFails, Step, IInv, Sound
<1>2. Keeps(p, s)
  BY <1>1, RaiseKeeps, ExcValues
<1>3. CASE p.mb # "off"
  <2>1. Leads(p, s)
    BY <1>2, <1>3, LiveNow, KeepsLeads
  <2> HIDE DEF s
  <2>2. Leads(p, Caught(s)) /\ Caught(s).exc = "none"
    BY <2>1, CaughtLeads, LeadsOn DEF Leads
  <2> QED
    BY <1>1, <2>2, LeadsFine
<1>4. CASE p.mb = "off"
  <2>1. /\ Keeps(p, q) /\ q.th = p.th /\ q.out = p.out
        /\ q.updating = p.updating /\ q.ctrl = p.ctrl
    BY ZenonT(120), <1>1, ExcValues DEF Quiet, Raise, IsPlayer, Fields, Keeps, Same
  <2>2. p.th = "INIT"
    BY <1>4 DEF IInv, Open
  <2>3. Caught(s) = Quiet(Abort(q, "other"))
    <3>1. s.exc = "system"
      BY <1>1 DEF Raise, IsPlayer, Fields
    <3> QED
      BY <3>1 DEF Caught
  <2> HIDE DEF q
  <2>4. Fine(p, Quiet(Abort(q, "other")))
    BY <1>4, <2>1, <2>2, ErrorValues, OffAbort
  <2> QED
    BY <1>1, <2>3, <2>4
<1> QED
  BY <1>3, <1>4

LEMMA HeadHelloFine ==
    ASSUME IInv, HeadHello
    PROVE  Fine(p, p')
<1> DEFINE q == [p EXCEPT !.th = "RUNNING", !.wasReset = FALSE]
           s == OnToolheadReady(q)
           t == [s EXCEPT !.th = "INIT"]
           h == IF s.exc = "none" THEN s ELSE t
<1>1. p.th = "BOOTING" /\ p' = OnToolheadRecv(h)
  BY DEF HeadHello, Step
<1>2. Live(p)
  BY <1>1, LiveNow DEF IInv, Open
<1>3. Keeps(p, q)
  BY ZenonT(120), <1>2, LivePlayer, HeadValues, Booleans DEF IsPlayer, Fields, Keeps, Same
<1> HIDE DEF q
<1>4. Leads(p, q)
  BY <1>2, <1>3, KeepsLeads
<1>5. Leads(p, s)
  BY <1>4, OnToolheadReadyLeads, LeadsOn DEF Leads
<1> HIDE DEF s
<1>6. Keeps(s, t)
  BY <1>5, LivePlayer, HeadValues DEF Leads, IsPlayer, Fields, Keeps, Same
<1> HIDE DEF t
<1>7. Leads(p, h)
  BY <1>5, <1>6, KeepsLeads, LeadsOn DEF Leads
<1> HIDE DEF h
<1>8. Leads(p, OnToolheadRecv(h)) /\ OnToolheadRecv(h).exc = "none"
  BY <1>7, OnToolheadRecvLeads, LeadsOn DEF Leads
<1> QED
  BY <1>1, <1>8, LeadsFine

\* What a command makes of the heater is a level.
LEMMA ToldLevels ==
    ASSUME IsPlayer(p), p.out # "none"
    PROVE  HeaterTold(p.out) \subseteq Levels
BY OutValues DEF HeaterTold, IsPlayer

LEMMA HeadOkFine ==
    ASSUME IInv, HeadOk
    PROVE  Fine(p, p')
<1>1. p.out # "none"
  BY DEF HeadOk
<1>2. Live(p)
  BY <1>1, LiveNow DEF IInv, Open
<1>0. PICK v \in HeaterTold(p.out) :
          LET s == [p EXCEPT !.out = "none", !.heat = v]
          IN  p' = OnToolheadRecv(IF s.hq = <<>> THEN Callback(s) ELSE PopToHead(s))
  BY DEF HeadOk, Step
<1> DEFINE s == [p EXCEPT !.out = "none", !.heat = v]
           h == IF s.hq = <<>> THEN Callback(s) ELSE PopToHead(s)
<1>7. p' = OnToolheadRecv(h)
  BY <1>0
<1>3. Keeps(p, s)
  <2>1. IsPlayer(p) /\ v \in Levels
    BY <1>1, <1>2, LivePlayer, ToldLevels
  <2> QED
    BY <2>1, OutValues DEF IsPlayer, Fields, Keeps, Same
<1> HIDE DEF s
<1>4. Leads(p, s)
  BY <1>2, <1>3, KeepsLeads
<1>5. Leads(s, h)
  BY <1>4, CallbackLeads, PopToHeadKeeps, KeepsLeads, LivePlayer DEF Leads
<1> HIDE DEF h
<1>6. Leads(p, OnToolheadRecv(h)) /\ OnToolheadRecv(h).exc = "none"
  BY <1>4, <1>5, OnToolheadRecvLeads, LeadsOn DEF Leads
<1> QED
  BY <1>6, <1>7, LeadsFine

LEMMA HeadErFine ==
    ASSUME IInv, HeadEr
    PROVE  Fine(p, p')
<1> DEFINE h == Raise(p, "other")
<1>1. p.out # "none" /\ p' = OnToolheadRecv(h)
  BY DEF HeadEr, Step
<1>2. Live(p)
  BY <1>1, LiveNow DEF IInv, Open
<1>3. Leads(p, h)
  BY <1>2, RaiseKeeps, ExcValues, KeepsLeads, LivePlayer
<1> HIDE DEF h
<1>4. Leads(p, OnToolheadRecv(h)) /\ OnToolheadRecv(h).exc = "none"
  BY <1>3, OnToolheadRecvLeads, LeadsOn DEF Leads
<1> QED
  BY <1>1, <1>4, LeadsFine

LEMMA HeadPongFine ==
    ASSUME IInv, HeadPong
    PROVE  Fine(p, p')
<1> DEFINE s == [p EXCEPT !.updating = FALSE]
           u(e) == [s EXCEPT !.errno = e]
<1>1. p.updating /\ \/ p' = OnToolheadRecv(Pong(s))
                    \/ \E e \in {"shake", "hardware"} : p' = OnToolheadRecv(Pong(u(e)))
  BY DEF HeadPong, Step
<1>2. Live(p)
  BY <1>1, LiveNow DEF IInv, Open
<1>3. Keeps(p, s)
  BY ZenonT(120), <1>2, LivePlayer, Booleans DEF IsPlayer, Fields, Keeps, Same
<1> HIDE DEF s
<1>4. \A e \in {"shake", "hardware"} : Keeps(s, u(e))
  BY <1>3, ErrnoValues DEF IsPlayer, Fields, Keeps, Same
<1> HIDE DEF u
<1>5. Leads(p, s) /\ \A e \in {"shake", "hardware"} : Leads(p, u(e))
  BY <1>2, <1>3, <1>4, KeepsLeads, KeepsOn
<1>6. ASSUME NEW t, Leads(p, t)
      PROVE  Leads(p, OnToolheadRecv(Pong(t))) /\ OnToolheadRecv(Pong(t)).exc = "none"
  <2>1. Leads(t, Pong(t))
    BY <1>6, PongLeads DEF Leads
  <2>2. Leads(Pong(t), OnToolheadRecv(Pong(t))) /\ OnToolheadRecv(Pong(t)).exc = "none"
    BY <2>1, OnToolheadRecvLeads DEF Leads
  <2> QED
    BY <1>6, <2>1, <2>2, LeadsOn
<1> QED
  BY <1>1, <1>5, <1>6, LeadsFine

LEMMA LoopOfflineFine ==
    ASSUME IInv, LoopOffline
    PROVE  Fine(p, p')
<1> DEFINE r == ToolheadReset(p)
           s == Raise(r, "head lost")
<1>1. p.th # "INIT" /\ p' = Caught(s)
  BY DEF LoopOffline, Step, Ready
<1>2. Live(p)
  BY <1>1, LiveNow DEF IInv, Open
<1>3. Leads(p, r)
  BY <1>2, ToolheadResetKeeps, KeepsLeads, LivePlayer
<1> HIDE DEF r
<1>4. Leads(r, s)
  BY <1>3, RaiseKeeps, ExcValues, KeepsLeads, LivePlayer DEF Leads
<1> HIDE DEF s
<1>5. Leads(p, Caught(s)) /\ Caught(s).exc = "none"
  BY <1>3, <1>4, CaughtLeads, LeadsOn DEF Leads
<1> QED
  BY <1>1, <1>5, LeadsFine

LEMMA AsideFine ==
    ASSUME IInv, NEW t, Keeps(p, t), t.exc = p.exc, t.th = p.th, t.out = p.out,
           t.updating = p.updating, t.ctrl = p.ctrl
    PROVE  Fine(p, t)
<1>1. CASE p.mb # "off"
  BY <1>1, LiveNow, KeepsFine DEF IInv
<1>2. CASE p.mb = "off"
  <2>1. Sound(p) /\ Open(p) /\ p.th = "INIT" /\ p.exc = "none" /\ t.status = p.status
    BY <1>2 DEF IInv, Open, Keeps, Same
  <2>2. IsPlayer(t) /\ Same(p, [t EXCEPT !.status = p.status])
    BY DEF Keeps, Same, IsPlayer, Fields
  <2> QED
    BY <1>2, <2>1, <2>2, OffFine
<1> QED
  BY <1>1, <1>2

LEMMA LoopFine ==
    ASSUME IInv, NEW ping \in BOOLEAN, Loop(ping)
    PROVE  Fine(p, p')
<1> DEFINE b == p.updating \/ (ping /\ Sendable(p))
           s == [p EXCEPT !.updating = b]
<1>1. p' = IdleHead(s) /\ IsPlayer(p) /\ p.exc = "none" /\ b \in Bools
  BY Booleans DEF Loop, Step, IInv, Sound
<1>2. CASE p.mb # "off"
  <2> HIDE DEF b
  <2>1. Keeps(p, s) /\ s.exc = "none"
    BY <1>1 DEF IsPlayer, Fields, Keeps, Same
  <2> HIDE DEF s
  <2>2. Leads(p, s)
    BY <1>2, <2>1, LiveNow, KeepsLeads
  <2>3. Leads(p, IdleHead(s))
    BY <2>2, IdleHeadLeads, LeadsOn DEF Leads
  <2>4. IdleHead(s).exc = "none"
    BY <2>1 DEF IdleHead, PowerOff, ToolheadReset, Close, Keeps, IsPlayer, Fields
  <2> QED
    BY <1>1, <2>3, <2>4, LeadsFine
<1>3. CASE p.mb = "off"
  <2>1. p.th = "INIT" /\ ~p.updating
    BY <1>3 DEF IInv, Open
  <2>2. b = p.updating
    BY <1>1, <2>1 DEF Sendable, Ready, Bools, IsPlayer
  <2> HIDE DEF b
  <2>3. /\ Keeps(p, s) /\ s.exc = p.exc /\ s.th = p.th /\ s.out = p.out
        /\ s.updating = p.updating /\ s.ctrl = p.ctrl
    BY <1>1, <2>2 DEF IsPlayer, Fields, Keeps, Same
  <2> HIDE DEF s
  <2>4. IdleHead(s) = s
    BY <2>1, <2>3 DEF IdleHead, Ready
  <2> QED
    BY <1>1, <2>3, <2>4, AsideFine
<1> QED
  BY <1>2, <1>3

LEMMA HeadRestartsFine ==
    ASSUME IInv, HeadRestarts
    PROVE  Fine(p, p')
<1>1. p' = [p EXCEPT !.heat = "off", !.wasReset = TRUE] /\ IsPlayer(p)
  BY DEF HeadRestarts, Step, IInv, Sound
<1>2. /\ Keeps(p, p') /\ p'.exc = p.exc /\ p'.th = p.th /\ p'.out = p.out
      /\ p'.updating = p.updating /\ p'.ctrl = p.ctrl
  BY ZenonT(120), <1>1, TargetValues, Booleans DEF IsPlayer, Fields, Keeps, Same
<1> QED
  BY <1>2, AsideFine

LEMMA TemperatureFine ==
    ASSUME IInv, Temperature
    PROVE  Fine(p, p')
<1>1. PICK v \in {Warmer(p.temp), Cooler(p.temp)} : p' = [p EXCEPT !.temp = v]
  BY DEF Temperature, Step
<1>2. IsPlayer(p) /\ v \in Temps
  BY TempValues DEF IInv, Sound, IsPlayer
<1>3. /\ Keeps(p, p') /\ p'.exc = p.exc /\ p'.th = p.th /\ p'.out = p.out
      /\ p'.updating = p.updating /\ p'.ctrl = p.ctrl
  BY <1>1, <1>2 DEF IsPlayer, Fields, Keeps, Same
<1> QED
  BY <1>3, AsideFine

\* A pause before the mainboard is greeted.
LEMMA OffPause ==
    ASSUME IInv, p.mb = "off"
    PROVE  Fine(p, Quiet(Pause(p, "none")))
<1>1. /\ Sound(p) /\ Open(p) /\ IsPlayer(p) /\ p.exc = "none" /\ p.status \in {4, 38, 128}
      /\ p.queue = <<>> /\ p.th = "INIT" /\ p.mb = "off"
  BY DEF IInv, Open, Sound
<1>2. CASE p.status # 4
  <2> DEFINE t == [p EXCEPT !.error = IF @ = "none" THEN "none" ELSE @]
             q == Quiet(t)
  <2>1. Pause(p, "none") = t
    BY <1>1, <1>2 DEF Pause, Pausing, Paused, Ended
  <2>2. /\ Keeps(p, q) /\ q.exc = p.exc /\ q.th = p.th /\ q.out = p.out
        /\ q.updating = p.updating /\ q.ctrl = p.ctrl
    BY ZenonT(120), <1>1, ExcValues, ErrorValues DEF Quiet, IsPlayer, Fields, Keeps, Same
  <2> HIDE DEF t, q
  <2>3. Fine(p, q)
    BY <2>2, AsideFine
  <2> QED
    BY <2>1, <2>3 DEF q
<1>3. CASE p.status = 4
  <2> DEFINE t == [p EXCEPT !.status = 38, !.error = "none"]
             u == PowerOff(t)
             w == Raise(u, "other")
             q == Quiet(w)
  <2>1. /\ IsPlayer(t) /\ t.status = 38 /\ t.mb = "off" /\ t.th = "INIT" /\ t.queue = <<>>
        /\ t.exc = "none" /\ t.out = p.out /\ t.updating = p.updating /\ t.ctrl = p.ctrl
        /\ Same(p, [t EXCEPT !.status = p.status])
    <3>1. 38 \in Statuses /\ "none" \in Errors
      BY StatusValues, ErrorValues
    <3>2. /\ t.status = 38 /\ t.mb = "off" /\ t.th = "INIT" /\ t.queue = <<>>
          /\ t.exc = "none" /\ t.out = p.out /\ t.updating = p.updating /\ t.ctrl = p.ctrl
      BY <1>1, <1>3 DEF IsPlayer, Fields
    <3>3. IsPlayer(t)
      BY <1>1, <3>1 DEF IsPlayer, Fields
    <3>4. Same(p, [t EXCEPT !.status = p.status])
      BY <1>1 DEF IsPlayer, Fields, Same
    <3> QED
      BY <3>2, <3>3, <3>4
  <2>2. Pause(p, "none") = IF BufferedCmdSize(u) = 0 THEN HandlePause(u) ELSE u
    <3>1. ~Ready(t) /\ p.status \notin Pausing \cup Paused \cup Ended /\ p.status \in Starting
      BY <1>3, <2>1 DEF Ready, Pausing, Paused, Ended, Starting
    <3>2. [p EXCEPT !.status = IF @ \in Starting THEN 38 ELSE 50, !.error = "none"] = t
      BY <3>1, <1>1 DEF IsPlayer, Fields
    <3> HIDE DEF t
    <3> QED
      BY <3>1, <3>2 DEF Pause
  <2> HIDE DEF t
  <2>3. /\ IsPlayer(u) /\ u.status = 38 /\ u.mb = "off" /\ u.th = "INIT" /\ u.queue = <<>>
        /\ u.exc = "none" /\ u.out = p.out /\ u.updating = p.updating /\ u.ctrl = p.ctrl
        /\ Same(t, u)
    BY ZenonT(120), <2>1, TargetValues, Booleans DEF PowerOff, IsPlayer, Fields, Same
  <2> HIDE DEF u
  <2>4. Pause(p, "none") = w
    <3>1. BufferedCmdSize(u) = 0
      BY <2>3 DEF BufferedCmdSize
    <3>2. SendCmd(u, Cmd("X5")) = w
      BY <2>3 DEF SendCmd, Usable
    <3>3. w.exc = "other"
      BY <2>3 DEF Raise, IsPlayer, Fields
    <3> HIDE DEF w
    <3>4. HandlePause(u) = w
      BY <2>3, <3>2, <3>3 DEF HandlePause, Then
    <3> QED
      BY <2>2, <3>1, <3>4
  <2>5. /\ IsPlayer(q) /\ q.status = 38 /\ q.th = "INIT" /\ q.exc = "none"
        /\ q.out = p.out /\ q.updating = p.updating /\ q.ctrl = p.ctrl
        /\ Same(u, q)
    BY ZenonT(120), <2>3, ExcValues DEF Raise, Quiet, IsPlayer, Fields, Same
  <2> HIDE DEF q, w
  <2>6. Same(p, [q EXCEPT !.status = p.status])
    BY <2>1, <2>3, <2>5 DEF Same, IsPlayer, Fields
  <2>7. p.status \notin Ended /\ p.mb = "off"
    BY <1>3, Ends
  <2>8. Fine(p, q)
    BY <1>1, <2>5, <2>6, <2>7, OffFine
  <2> QED
    BY <2>4, <2>8 DEF q
<1> QED
  BY <1>2, <1>3

LEMMA RequestFine ==
    ASSUME IInv, NEW r \in AllRequests, Request(r)
    PROVE  Fine(p, p')
<1>1. PICK a \in {Pause(p, "none"), Resume(p), SoftAbort(p), SetToolheadOperation(p),
                  SetToolheadStandby(p), SetToolheadHeater(p, "hot"),
                  SetToolheadHeater(p, "off"), LoadFilament(p)} : p' = Quiet(a)
  BY DEF Request, Step, AllRequests
<1>2. CASE p.mb # "off"
  <2>1. Live(p) /\ "hot" \in Targets /\ "off" \in Targets
    BY <1>2, LiveNow, TargetValues
  <2>2. /\ Leads(p, Pause(p, "none")) /\ Leads(p, Resume(p)) /\ Leads(p, SoftAbort(p))
        /\ Leads(p, SetToolheadOperation(p)) /\ Leads(p, SetToolheadStandby(p))
    BY <2>1, PauseLeads, ErrorValues, ResumeLeads, SoftAbortLeads, SetToolheadOperationLeads,
       SetToolheadStandbyLeads
  <2>3. /\ Leads(p, SetToolheadHeater(p, "hot")) /\ Leads(p, SetToolheadHeater(p, "off"))
        /\ Leads(p, LoadFilament(p))
    BY <2>1, SetToolheadHeaterLeads, LoadFilamentLeads
  <2>4. Leads(p, a)
    BY <1>1, <2>2, <2>3
  <2>5. Leads(p, Quiet(a)) /\ Quiet(a).exc = "none"
    BY <2>4, QuietLeads, LeadsOn DEF Leads
  <2> QED
    BY <1>1, <2>5, LeadsFine
<1>3. CASE p.mb = "off"
  <2>1. /\ IsPlayer(p) /\ p.exc = "none" /\ p.status \in {4, 38, 128} /\ p.th = "INIT"
    BY <1>3 DEF IInv, Open, Sound
  <2>2. /\ Keeps(p, Quiet(p)) /\ Quiet(p).exc = p.exc /\ Quiet(p).th = p.th
        /\ Quiet(p).out = p.out /\ Quiet(p).updating = p.updating /\ Quiet(p).ctrl = p.ctrl
        /\ Keeps(p, p)
    BY <2>1 DEF Quiet, IsPlayer, Fields, Keeps, Same
  <2>3. Resume(p) = p /\ SoftAbort(p) = Abort(p, "none")
    BY <2>1 DEF Resume, Paused, SoftAbort
  <2>4. /\ SetToolheadOperation(p) = p /\ SetToolheadStandby(p) = p
        /\ SetToolheadHeater(p, "hot") = p /\ SetToolheadHeater(p, "off") = p
        /\ LoadFilament(p) = p
    <3>1. p.status # 48
      BY <2>1
    <3>2. SetToolheadOperation(p) = p /\ SetToolheadStandby(p) = p
      BY <3>1 DEF SetToolheadOperation, SetToolheadStandby
    <3>3. SetToolheadHeater(p, "hot") = p /\ SetToolheadHeater(p, "off") = p
      BY <3>1 DEF SetToolheadHeater
    <3>4. LoadFilament(p) = p
      BY <3>1 DEF LoadFilament
    <3> QED
      BY <3>2, <3>3, <3>4
  <2>5. Fine(p, Quiet(p))
    BY <2>2, AsideFine
  <2>6. Fine(p, Quiet(Abort(p, "none")))
    BY <1>3, <2>1, <2>2, OffAbort, ErrorValues
  <2>7. Fine(p, Quiet(Pause(p, "none")))
    BY <1>3, OffPause
  <2> QED
    BY <1>1, <2>3, <2>4, <2>5, <2>6, <2>7
<1> QED
  BY <1>2, <1>3

-----------------------------------------------------------------------------
(* The theorems. *)

\* What depends on the scenario does not change with a step.
LEMMA SoundNext ==
    ASSUME scenario' = scenario, Sound(p'), Open(p')
    PROVE  Sound(p)' /\ Open(p)'
<1>1. BufSize' = BufSize /\ Home' = Home
  BY DEF BufSize, Home, Job
<1>2. Indices' = Indices /\ Commands' = Commands
  BY <1>1 DEF Indices, Commands
<1>3. IndexSeqs' = IndexSeqs /\ CommandSeqs' = CommandSeqs
  BY <1>2 DEF IndexSeqs, CommandSeqs
<1>4. ASSUME NEW i
      PROVE  Carried(i)' <=> Carried(i)
  BY <1>1 DEF Carried, Kind, Job
<1>5. IsPlayer(p)'
  BY <1>3 DEF IsPlayer, Sound
<1>6. Ordered(p.did, p.queue, p.fin, p.next)'
  BY <1>1, <1>4 DEF Ordered, Sound
<1>7. p'.status # 128 => NoGap(p.did, p.queue, p.fin, p.next)'
  BY <1>4 DEF NoGap, Sound
<1>8. Reading(p.status, p.next, p.fed)'
  BY <1>1 DEF Reading, Sound
<1>9. Sound(p)'
  BY <1>5, <1>6, <1>7, <1>8 DEF Sound
<1>10. Open(p)'
  BY DEF Open
<1> QED
  BY <1>9, <1>10

LEMMA InitInv ==
    ASSUME Init
    PROVE  IInv
<1>1. scenario \in Scenarios /\ requests = 0 /\ faults = 0
      /\ scenario.maxRequests \in Nat /\ scenario.maxFaults \in Nat
  BY ExecutorConstants DEF Init, IsScenario
<1>2. /\ p.exc = "none" /\ p.status = 4 /\ p.next = 1 /\ p.fed = 0 /\ p.mb = "off"
      /\ p.queue = <<>> /\ p.fin = 0 /\ p.did = <<>> /\ p.th = "INIT" /\ p.out = "none"
      /\ p.updating = FALSE /\ p.ctrl = "none"
  BY DEF Init
<1>3. IsPlayer(p)
  <2>1. DOMAIN p = Fields
    BY DEF Init, Fields
  <2>2. <<>> \in TaskSeqs /\ <<>> \in CommandSeqs /\ <<>> \in HeadSeqs /\ <<>> \in IndexSeqs
    BY DEF TaskSeqs, CommandSeqs, HeadSeqs, IndexSeqs
  <2>3. /\ p.status \in Statuses /\ p.error \in Errors /\ p.exc \in Excs
        /\ p.stash \in Stashes /\ p.macro \in Macros /\ p.tasks \in TaskSeqs
        /\ p.probing \in Bools /\ p.probe \in Probes /\ p.round \in Rounds
        /\ p.heatTo \in Targets
        /\ p.retracting \in Bools /\ p.pausedMacro \in LoadStates
        /\ p.control \in Bools /\ p.closed \in Bools
        /\ p.next \in Nat /\ p.fed \in Nat
    BY <2>2, StatusValues, ErrorValues, ExcValues, StashValues, MacroValues, Booleans,
       ProbeValues, RoundValues, TargetValues, LoadValues DEF Init
  <2>4. /\ p.mb \in MbStates /\ p.queue \in CommandSeqs /\ p.fin \in Nat
        /\ p.ctrl \in Ctrls /\ p.parked \in Bools
        /\ p.th \in HeadStates /\ p.out \in Outs /\ p.hq \in HeadSeqs
        /\ p.updating \in Bools /\ p.cb \in Callbacks /\ p.allsetCb \in AllsetCallbacks
    BY <2>2, MbValues, CtrlValues, HeadValues, OutValues, Booleans, CallbackValues,
       AllsetValues DEF Init
  <2>5. /\ p.want \in Wants /\ p.rt \in HeadReadings /\ p.errno \in Errnos
        /\ p.power \in Bools /\ p.v24 \in Bools /\ p.heat \in Levels /\ p.temp \in Temps
        /\ p.wasReset \in Bools /\ p.did \in IndexSeqs
    BY <2>2, WantValues, ReadingValues, ErrnoValues, TargetValues, TempValues, Booleans
       DEF Init
  <2> QED
    BY <2>1, <2>3, <2>4, <2>5 DEF IsPlayer
<1>4. Home \in Nat /\ Home >= 1 /\ BufSize \in Nat
  BY <1>1, ScenarioType
<1>5. Reading(p.status, p.next, p.fed)
  BY <1>2, <1>4 DEF Reading
<1>6. Ordered(p.did, p.queue, p.fin, p.next) /\ NoGap(p.did, p.queue, p.fin, p.next)
  <2>1. Waiting(p.queue, p.fin) = {} /\ Len(p.did) = 0 /\ Len(p.queue) = 0
    BY <1>2 DEF Waiting
  <2> QED
    BY <1>2, <1>4, <2>1 DEF Ordered, NoGap
<1>7. Sound(p)
  BY <1>1, <1>2, <1>3, <1>5, <1>6 DEF Sound
<1>8. Open(p)
  BY <1>2 DEF Open
<1> QED
  BY <1>1, <1>2, <1>7, <1>8 DEF IInv

LEMMA NextFine ==
    ASSUME IInv, Next
    PROVE  Fine(p, p')
<1>1. CASE \E k \in 0..BufSize : MbLn(k)
  BY <1>1, MbLnFine
<1>2. CASE \E ping \in BOOLEAN : Loop(ping)
  BY <1>2, LoopFine
<1>3. CASE \E r \in AllRequests : Request(r)
  BY <1>3, RequestFine
<1>4. CASE \/ MbReady \/ MbExecutes \/ MbCtrl \/ MbRunout \/ MbFails
           \/ HeadHello \/ HeadOk \/ HeadEr \/ HeadPong \/ HeadRestarts \/ Temperature
           \/ LoopOffline
  BY <1>4, MbReadyFine, MbExecutesFine, MbCtrlFine, MbRunoutFine, MbFailsFine,
     HeadHelloFine, HeadOkFine, HeadErFine, HeadPongFine, HeadRestartsFine,
     TemperatureFine, LoopOfflineFine
<1> QED
  BY <1>1, <1>2, <1>3, <1>4 DEF Next

\* What happens to the player is bounded, and its scenario stays.
LEMMA NextBounds ==
    ASSUME IInv, Next
    PROVE  /\ scenario' = scenario
           /\ requests' \in 0..scenario.maxRequests /\ faults' \in 0..scenario.maxFaults
<1>1. /\ requests \in Nat /\ requests <= scenario.maxRequests /\ scenario.maxRequests \in Nat
      /\ faults \in Nat /\ faults <= scenario.maxFaults /\ scenario.maxFaults \in Nat
  BY ExecutorConstants DEF IInv, IsScenario
<1>2. /\ scenario' = scenario
      /\ requests' = requests \/ (requests < scenario.maxRequests /\ requests' = requests + 1)
      /\ faults' = faults \/ (faults < scenario.maxFaults /\ faults' = faults + 1)
  <2>1. CASE \/ MbReady \/ MbCtrl \/ \E k \in 0..BufSize : MbLn(k)
             \/ HeadHello \/ HeadOk \/ Temperature \/ \E ping \in BOOLEAN : Loop(ping)
    BY <2>1 DEF MbReady, MbCtrl, MbLn, HeadHello, HeadOk, Temperature, Loop, NoInput
  <2>2. CASE \/ MbExecutes \/ MbRunout \/ MbFails \/ HeadEr \/ HeadPong \/ HeadRestarts
             \/ LoopOffline
    BY <2>2 DEF MbExecutes, MbRunout, MbFails, HeadEr, HeadPong, HeadRestarts, LoopOffline, Fault
  <2>3. CASE \E r \in AllRequests : Request(r)
    BY <2>3 DEF Request
  <2> QED
    BY <2>1, <2>2, <2>3 DEF Next
<1> QED
  BY <1>1, <1>2

LEMMA NextInv ==
    ASSUME IInv, [Next]_vars
    PROVE  IInv'
<1>1. CASE Next
  <2>1. scenario' = scenario /\ Sound(p') /\ Open(p') /\ p'.exc = "none"
    BY <1>1, NextFine, NextBounds DEF Fine
  <2>2. Sound(p)' /\ Open(p)'
    BY <2>1, SoundNext
  <2> QED
    BY <1>1, <2>1, <2>2, NextBounds DEF IInv
<1>2. CASE UNCHANGED vars
  <2>1. p' = p /\ scenario' = scenario /\ requests' = requests /\ faults' = faults
    BY <1>2 DEF vars
  <2>2. Sound(p') /\ Open(p')
    BY <2>1 DEF IInv
  <2>3. Sound(p)' /\ Open(p)'
    BY <2>1, <2>2, SoundNext
  <2> QED
    BY <2>1, <2>3 DEF IInv
<1> QED
  BY <1>1, <1>2

\* The player is sound between any two handlers.
THEOREM Invariant == Spec => []IInv
<1> QED
  BY InitInv, NextInv, PTL DEF Spec

\* The state of the player has its type; the buffer of the mainboard is never
\* overfilled and fire never reads past what it has read ahead.
LEMMA InvType ==
    ASSUME IInv
    PROVE  TypeOK
<1>1. /\ IsPlayer(p) /\ Reading(p.status, p.next, p.fed) /\ p.exc = "none"
      /\ Ordered(p.did, p.queue, p.fin, p.next)
      /\ Home \in Nat /\ BufSize \in Nat /\ scenario \in Scenarios
  BY ScenarioType DEF IInv, Sound
<1>2. /\ p.next \in 1..Home+1 /\ p.fed \in 0..Home /\ p.next <= p.fed + 1
  BY <1>1 DEF IsPlayer, Reading
<1>3. p.queue \in Seq(Commands) /\ Len(p.queue) <= BufSize /\ p.fin \in 0..Len(p.queue)
  BY <1>1 DEF IsPlayer, CommandSeqs, Ordered
<1>4. /\ p.status \in Starting \cup Running \cup Ended
      /\ p.error \in {"none", "head lost", "other"}
      /\ p.stash \in {"none", "stashing", "stashed"}
      /\ p.macro \in MacroKinds \cup {"none", "job heat", "soft abort"}
      /\ p.tasks \in Seq(MacroKinds)
      /\ p.probing \in BOOLEAN /\ p.probe \in Readings \cup {"none", "converged"}
      /\ p.round \in 0..Ttl
      /\ p.heatTo \in Targets
      /\ p.retracting \in BOOLEAN /\ p.pausedMacro \in {"none", "to send", "sent"}
      /\ p.control \in BOOLEAN /\ p.closed \in BOOLEAN
  BY <1>1 DEF IsPlayer, Statuses, Errors, Stashes, Macros, TaskSeqs, Bools, Probes, Rounds,
     LoadStates
<1>5. /\ p.mb \in {"off", "ready", "error", "closing"}
      /\ p.ctrl \in Readings \cup {"none", "STASH", "STASH_POP"}
      /\ p.parked \in BOOLEAN
      /\ p.th \in {"INIT", "BOOTING", "RUNNING"}
      /\ p.out \in Levels \cup {"none", "fan", "standby"}
      /\ p.hq \in Seq({"standby", "low"} \cup Hots)
      /\ p.updating \in BOOLEAN
      /\ p.cb \in {"none", "recovered", "paused", "close"}
      /\ p.allsetCb \in {"none", "task", "job", "resume"}
  BY <1>1 DEF IsPlayer, MbStates, Ctrls, Bools, HeadStates, Outs, HeadSeqs, HeadCommands,
     Callbacks, AllsetCallbacks
<1>6. /\ p.want \in {"unset", "low"} \cup Hots
      /\ p.rt \in {"none", "cold", "warm"} \cup Hots
      /\ p.errno \in {"none", "shake", "hardware"}
      /\ p.power \in BOOLEAN /\ p.v24 \in BOOLEAN
      /\ p.heat \in Levels /\ p.temp \in {"cold", "warm"} \cup Hots
      /\ p.wasReset \in BOOLEAN
      /\ p.did \in Seq(1..Home)
  BY <1>1 DEF IsPlayer, Wants, HeadReadings, Errnos, Bools, Temps, IndexSeqs, Indices
<1> QED
  BY <1>1, <1>2, <1>3, <1>4, <1>5, <1>6 DEF TypeOK, IInv

THEOREM TypeCorrect == Spec => []TypeOK
<1> QED
  BY Invariant, InvType, PTL

LEMMA InvOrder ==
    ASSUME IInv
    PROVE  InJobOrder
<1>1. /\ IsPlayer(p) /\ Ordered(p.did, p.queue, p.fin, p.next) /\ scenario \in Scenarios
      /\ p.status # 128 => NoGap(p.did, p.queue, p.fin, p.next)
      /\ p.next \in Nat /\ p.did \in IndexSeqs /\ p.queue \in CommandSeqs /\ p.fin \in Nat
  BY DEF IInv, Sound, IsPlayer
<1>2. DOMAIN p.did = 1..Len(p.did) /\ Len(p.did) \in Nat
      /\ \A j \in 1..Len(p.did) : p.did[j] \in Nat
  BY <1>1, IndexNat DEF IndexSeqs
<1> SUFFICES ASSUME NEW k \in 1..Len(p.did)
             PROVE  /\ Carried(p.did[k])
                    /\ \A j \in 1..k-1 : p.did[j] < p.did[k]
                    /\ p.status # 128 => AllOf(p.did[k])
  BY <1>2 DEF InJobOrder
<1>3. Carried(p.did[k]) /\ p.did[k] < p.next
  BY <1>1 DEF Ordered
<1>4. \A j \in 1..k-1 : p.did[j] < p.did[k]
  <2>1. \A j \in 1..k-1 : j \in 1..Len(p.did) /\ j < k
    BY <1>2
  <2> QED
    BY <1>1, <2>1 DEF Ordered
<1>5. ASSUME p.status # 128, NEW i \in 1..p.did[k], Carried(i)
      PROVE  i \in ToSet(p.did)
  <2>1. i \in 1..p.next-1
    BY <1>1, <1>2, <1>3
  <2>2. \A a \in Waiting(p.queue, p.fin) : p.queue[a].i # i
    <3>1. \A a \in Waiting(p.queue, p.fin) : p.queue[a].i \in Nat
      BY <1>1, WaitingIs, IndexNat
    <3> QED
      BY <1>1, <1>2, <3>1 DEF Ordered
  <2>3. \E j \in 1..Len(p.did) : p.did[j] = i
    BY <1>1, <1>5, <2>1, <2>2 DEF NoGap
  <2> QED
    BY <1>2, <2>3 DEF ToSet
<1> QED
  BY <1>3, <1>4, <1>5 DEF AllOf

\* Through every pause, error and restart of a macro, the commands of the job are
\* carried out in the order of the file, none twice and, until the job is aborted,
\* none left out.
THEOREM JobInOrder == Spec => []InJobOrder
<1> QED
  BY Invariant, InvOrder, PTL

LEMMA InvCompleted ==
    ASSUME IInv
    PROVE  CompletedMeansAll
<1> SUFFICES ASSUME p.status = 64
             PROVE  AllOf(Home) /\ p.queue = <<>>
  BY DEF CompletedMeansAll
<1>1. /\ IsPlayer(p) /\ p.queue = <<>> /\ p.next = Home + 1 /\ Home \in Nat
      /\ NoGap(p.did, p.queue, p.fin, p.next) /\ p.did \in IndexSeqs /\ p.fin \in Nat
  BY ScenarioType DEF IInv, Sound, Reading, IsPlayer
<1>2. Waiting(p.queue, p.fin) = {}
  BY <1>1 DEF Waiting
<1>3. \A i \in 1..Home : Carried(i) => \E j \in 1..Len(p.did) : p.did[j] = i
  BY <1>1, <1>2 DEF NoGap
<1>4. DOMAIN p.did = 1..Len(p.did)
  BY <1>1 DEF IndexSeqs
<1> QED
  BY <1>1, <1>3, <1>4 DEF AllOf, ToSet

\* COMPLETED says that the whole file was carried out.
THEOREM CompletedIsComplete == Spec => []CompletedMeansAll
<1> QED
  BY Invariant, InvCompleted, PTL

\* No late answer, error or request revives a job that has ended or changes how it
\* ended.
THEOREM EndIsFinal == Spec => FinalIsFinal
<1>1. ASSUME IInv, [Next]_vars
      PROVE  [p.status \in Ended => p'.status = p.status]_vars
  <2>1. CASE Next
    BY <1>1, <2>1, NextFine DEF Fine
  <2> QED
    BY <1>1, <2>1
<1> QED
  BY <1>1, Invariant, PTL DEF Spec, FinalIsFinal
=============================================================================
