---------------------- MODULE FcodeExecutorHeaterProofs ----------------------
(***************************************************************************)
(* Proofs about the heater in FcodeExecutor: a move that comes after a     *)
(* wait for a target above 60 degrees, and before the job gives another    *)
(* target, is carried out with a head that was warmed up for it, as long   *)
(* as three gaps of the code are not met.                                  *)
(*                                                                         *)
(* The head is warmed up by ControlToolheadMacro in the job, kept warm or  *)
(* warmed up again by recover() and WaitHeadMacro in a resume, and by the  *)
(* requests of the user in between.  FcodeExecutorProofs shows that every  *)
(* operator leads from a sound state to one, FcodeExecutorPauseProofs that *)
(* the stash is kept; here each operator, and each action, is shown to     *)
(* keep Warm as well.                                                      *)
(***************************************************************************)
EXTENDS FcodeExecutorPauseProofs

\* The third gap (the first two are those of FcodeExecutorPauseProofs): the resume of an
\* earlier pause was overtaken, and the callback that its WaitHeadMacro stored is called
\* by an answer that was asked for before the head was powered up again
\* (fcode_executor.py:166), while the next resume still greets it.  It does no harm where
\* the head is to be told its target anew, or has yet to reach it.
NoEarlyAllset ==
    p.status = 18 /\ p.th = "BOOTING" /\ p.allsetCb = "resume" /\ p.updating
    => p.wasReset \/ (p.want \in Hots /\ p.temp # p.want)

-----------------------------------------------------------------------------
(* The inductive invariant. *)

NoJob(queue, fin) == \A a \in Coming(queue, fin) : queue[a].op # "job"

\* The controller and the head.  k faults have happened so far.
Linked(s, k) ==
    /\ s.th = "BOOTING" => s.hq = <<>> /\ s.out = "none"
    /\ s.th = "RUNNING" => s.wasReset \/ s.power
    /\ s.rt \in Hots => s.temp # "cold"
    /\ s.status \in Starting => s.hq = <<>> /\ s.out = "none" /\ s.allsetCb = "none"
    /\ k = 0 => s.errno = "none" /\ s.exc # "hardware" /\ (s.th = "RUNNING" => ~s.wasReset)

\* Only moves are handed to the mainboard.
OnlyMoves(queue) ==
    \A a \in 1..Len(queue) : queue[a].op = "job" => Kind(queue[a].i) = "move"

\* The macro and the commands of the job.
Planned(s) ==
    /\ s.macro = "job heat" =>
           /\ s.next > 1 /\ Kind(s.next - 1) = "wait" /\ s.heatTo = Target(s.next - 1)
           /\ NoJob(s.queue, s.fin)
    /\ s.macro \notin MacroKinds => s.tasks = <<>>
    /\ s.macro \in MacroKinds => s.next = 1
    /\ OnlyMoves(s.queue)
    /\ Waited(s.next) => s.want # "low"
    /\ "HEATER_OFF" \notin scenario.requests =>
           /\ s.macro = "heat" => s.heatTo = "hot"
           /\ Waited(s.next) => s.want \in Hots

\* The heater should be on, and a head that restarted has been told again.
Told(s) == s.want \in Hots /\ ~s.wasReset

\* A resume has greeted the parked head, tells it to heat, and waits.
Returning(s) ==
    s.status = 18 /\ s.stash = "stashed" =>
        \/ s.th = "BOOTING"
        \/ /\ s.th = "RUNNING" /\ s.v24
           /\ \/ s.hq = <<s.want>> /\ s.out = "none"
              \/ s.hq = <<>> /\ s.out = s.want
              \/ s.hq = <<>> /\ s.out = "none" /\ (Told(s) => s.heat = s.want)

\* Moves of the job are under way or may be sent.
Moving(s, k) == \/ s.status = 16
                \/ s.status = 18 /\ s.stash = "none"
                \/ s.status = 50 /\ s.stash = "none" /\ k = 0

Hot(s, k) ==
    Moving(s, k) =>
        /\ s.hq = <<>> /\ s.th # "BOOTING" /\ (s.th = "RUNNING" => s.v24)
        /\ Waited(s.next) =>
            /\ s.th = "RUNNING" /\ s.out \in {"none", "fan"} \cup Hots
            /\ s.macro = "job heat" => s.out # "fan"
            /\ Told(s) => s.heat \in Hots \/ s.out \in Hots
            /\ Told(s) /\ s.macro # "job heat" =>
                   s.temp # "cold" /\ (s.heat \in Hots \/ (s.rt \in Hots /\ ~s.updating))

\* What holds in the middle of a handler, and, of it, what an exception does not break.
Warm(s, k) ==
    s.status \notin Ended =>
        /\ Linked(s, k) /\ Planned(s)
        /\ s.exc = "none" => Returning(s)
        /\ s.exc = "none" \/ k = 0 => Hot(s, k)

Core(s, k) ==
    s.status \notin Ended => Linked(s, k) /\ Planned(s) /\ (k = 0 => Hot(s, k))

-----------------------------------------------------------------------------
(* What changes nothing of the heater. *)

SameHead(s, t) ==
    /\ t.th = s.th /\ t.out = s.out /\ t.hq = s.hq /\ t.updating = s.updating
    /\ t.rt = s.rt /\ t.errno = s.errno /\ t.power = s.power /\ t.v24 = s.v24
    /\ t.heat = s.heat /\ t.temp = s.temp /\ t.wasReset = s.wasReset /\ t.want = s.want

SamePlan(s, t) ==
    /\ t.macro = s.macro /\ t.tasks = s.tasks /\ t.heatTo = s.heatTo /\ t.next = s.next

Alike(s, t) ==
    /\ t.status = s.status /\ t.stash = s.stash
    /\ SameHead(s, t) /\ SamePlan(s, t)
    /\ t.allsetCb \in {s.allsetCb, "none"}
    /\ NoJob(s.queue, s.fin) => NoJob(t.queue, t.fin)
    /\ OnlyMoves(s.queue) => OnlyMoves(t.queue)
    /\ t.exc = s.exc \/ t.exc \in {"other", "head lost", "system"}

LEMMA AlikeOn ==
    ASSUME NEW s, NEW t, NEW u, Alike(s, t), Alike(t, u)
    PROVE  Alike(s, u)
BY DEF Alike, SameHead, SamePlan

LEMMA AlikeLinked ==
    ASSUME NEW s, NEW t, NEW k, Alike(s, t)
    PROVE  /\ Linked(s, k) => Linked(t, k)
           /\ Planned(s) => Planned(t)
           /\ Hot(s, k) => Hot(t, k)
           /\ Returning(s) => Returning(t)
<1>1. Linked(s, k) => Linked(t, k)
  BY DEF Alike, SameHead, Linked
<1>2. Planned(s) => Planned(t)
  BY DEF Alike, SameHead, SamePlan, Planned
<1>3. Hot(s, k) => Hot(t, k)
  BY DEF Alike, SameHead, SamePlan, Hot, Moving, Told
<1>4. Returning(s) => Returning(t)
  BY DEF Alike, SameHead, Returning, Told
<1> QED
  BY <1>1, <1>2, <1>3, <1>4

LEMMA AlikeWarm ==
    ASSUME NEW s, NEW t, NEW k, Alike(s, t)
    PROVE  /\ Warm(s, k) => Warm(t, k)
           /\ Core(s, k) => Core(t, k)
<1>1. t.status = s.status /\ (t.exc = "none" => s.exc = "none")
  BY DEF Alike
<1> QED
  BY <1>1, AlikeLinked DEF Warm, Core

LEMMA WarmCore ==
    ASSUME NEW s, NEW k, Warm(s, k)
    PROVE  Core(s, k)
BY DEF Warm, Core

\* Where nothing of the job moves, an exception leaves as much.
LEMMA CoreWarm ==
    ASSUME NEW s, NEW k, Core(s, k), s.status \in {4, 6, 36, 38, 48, 50}
    PROVE  Warm(s, k)
<1>1. s.status # 18 /\ s.status # 16
  OBVIOUS
<1>2. Returning(s)
  BY <1>1 DEF Returning
<1>3. k # 0 => Hot(s, k)
  BY <1>1 DEF Hot, Moving
<1> QED
  BY <1>2, <1>3 DEF Warm, Core

LEMMA EndedWarm ==
    ASSUME NEW s, NEW k, s.status \in Ended
    PROVE  Warm(s, k) /\ Core(s, k)
BY DEF Warm, Core

LEMMA AsideAlike ==
    ASSUME NEW s, IsPlayer(s), NEW e
    PROVE  /\ Alike(s, Close(s)) /\ Alike(s, s)
           /\ Alike(s, [s EXCEPT !.cb = e]) /\ Alike(s, [s EXCEPT !.pausedMacro = e])
           /\ Alike(s, [s EXCEPT !.probe = e]) /\ Alike(s, [s EXCEPT !.control = e])
           /\ Alike(s, [s EXCEPT !.fed = e]) /\ Alike(s, [s EXCEPT !.error = e])
           /\ Alike(s, [s EXCEPT !.mb = e]) /\ Alike(s, [s EXCEPT !.probing = e])
           /\ Alike(s, [s EXCEPT !.retracting = e]) /\ Alike(s, [s EXCEPT !.ctrl = e])
           /\ Alike(s, [s EXCEPT !.allsetCb = "none"])
           /\ e \in {"other", "head lost", "system"} => Alike(s, Raise(s, e))
<1>1. Alike(s, Close(s)) /\ Alike(s, s)
  BY DEF Close, IsPlayer, Fields, Alike, SameHead, SamePlan
<1>2. Alike(s, [s EXCEPT !.cb = e]) /\ Alike(s, [s EXCEPT !.pausedMacro = e])
  BY DEF IsPlayer, Fields, Alike, SameHead, SamePlan
<1>3. Alike(s, [s EXCEPT !.probe = e]) /\ Alike(s, [s EXCEPT !.control = e])
  BY DEF IsPlayer, Fields, Alike, SameHead, SamePlan
<1>4. Alike(s, [s EXCEPT !.fed = e]) /\ Alike(s, [s EXCEPT !.error = e])
  BY DEF IsPlayer, Fields, Alike, SameHead, SamePlan
<1>5. Alike(s, [s EXCEPT !.mb = e]) /\ Alike(s, [s EXCEPT !.probing = e])
  BY DEF IsPlayer, Fields, Alike, SameHead, SamePlan
<1>6. Alike(s, [s EXCEPT !.retracting = e]) /\ Alike(s, [s EXCEPT !.ctrl = e])
  BY DEF IsPlayer, Fields, Alike, SameHead, SamePlan
<1>7. Alike(s, [s EXCEPT !.allsetCb = "none"])
  BY DEF IsPlayer, Fields, Alike, SameHead, SamePlan
<1>8. e \in {"other", "head lost", "system"} => Alike(s, Raise(s, e))
  BY DEF Raise, IsPlayer, Fields, Alike, SameHead, SamePlan
<1> QED
  BY <1>1, <1>2, <1>3, <1>4, <1>5, <1>6, <1>7, <1>8

LEMMA QuietCore ==
    ASSUME NEW s, IsPlayer(s), NEW k, Core(s, k)
    PROVE  Core(Quiet(s), k)
<1> DEFINE t == Quiet(s)
<1>1. /\ t.status = s.status /\ t.stash = s.stash /\ SameHead(s, t) /\ SamePlan(s, t)
      /\ t.allsetCb = s.allsetCb /\ t.queue = s.queue /\ t.fin = s.fin /\ t.exc = "none"
  BY DEF Quiet, IsPlayer, Fields, SameHead, SamePlan
<1> HIDE DEF t
<1>2. Linked(s, k) => Linked(t, k)
  BY <1>1 DEF SameHead, Linked
<1>3. Planned(s) => Planned(t)
  BY <1>1 DEF SameHead, SamePlan, Planned
<1>4. Hot(s, k) => Hot(t, k)
  BY ZenonT(120), <1>1 DEF SameHead, SamePlan, Hot, Moving, Told
<1> QED
  BY <1>1, <1>2, <1>3, <1>4 DEF Core, t

\* The job neither moves nor waits for what a later handler would miss.
Still(s) ==
    \/ s.status \in Ended \cup {4, 6, 36, 38, 48, 50}
    \/ s.status = 18 /\ s.stash = "stashed" /\ s.th = "BOOTING"

LEMMA StillWarm ==
    ASSUME NEW s, NEW k, Core(s, k), Still(s)
    PROVE  Warm(s, k)
<1>1. CASE s.status \in Ended
  BY <1>1, EndedWarm
<1>2. CASE s.status \in {4, 6, 36, 38, 48, 50}
  BY <1>2, CoreWarm
<1>3. CASE s.status = 18 /\ s.stash = "stashed" /\ s.th = "BOOTING"
  <2>1. Returning(s) /\ Hot(s, k)
    BY <1>3 DEF Returning, Hot, Moving
  <2> QED
    BY <2>1 DEF Warm, Core
<1> QED
  BY <1>1, <1>2, <1>3 DEF Still

LEMMA StillQuiet ==
    ASSUME NEW s, NEW k, Core(s, k), Still(s), IsPlayer(s)
    PROVE  Core(Quiet(s), k) /\ Still(Quiet(s)) /\ Warm(Quiet(s), k)
<1>1. Quiet(s).status = s.status /\ Quiet(s).stash = s.stash /\ Quiet(s).th = s.th
  BY DEF Quiet, IsPlayer, Fields
<1>2. Core(Quiet(s), k)
  BY QuietCore
<1> HIDE DEF Quiet
<1>3. Still(Quiet(s))
  BY <1>1 DEF Still
<1> QED
  BY <1>2, <1>3, StillWarm

LEMMA AlikeStill ==
    ASSUME NEW s, NEW t, Alike(s, t), Still(s)
    PROVE  Still(t)
BY DEF Alike, SameHead, Still

LEMMA OneMoreMoves ==
    ASSUME NEW q \in CommandSeqs, NEW c \in Commands, OnlyMoves(q),
           c.op = "job" => Kind(c.i) = "move"
    PROVE  OnlyMoves(Append(q, c))
<1>1. ASSUME NEW a \in 1..Len(Append(q, c)), Append(q, c)[a].op = "job"
      PROVE  Kind(Append(q, c)[a].i) = "move"
  <2>1. \/ a \in 1..Len(q) /\ Append(q, c)[a] = q[a]
        \/ a = Len(q) + 1 /\ Append(q, c)[a] = c
    BY Appended
  <2> QED
    BY <1>1, <2>1 DEF OnlyMoves
<1> QED
  BY <1>1 DEF OnlyMoves

\* A command of any kind but the job's.
LEMMA SendCmdAlike ==
    ASSUME NEW s, IsPlayer(s), s.fin <= Len(s.queue), NEW c \in Commands, c.op # "job"
    PROVE  Alike(s, SendCmd(s, c))
<1> DEFINE t == SendCmd(s, c)
<1>1. \A f \in Fields \ {"queue", "exc"} : t[f] = s[f]
  BY SendCmdFields
<1>2. t.exc \in {s.exc, "other"}
  BY DEF SendCmd, Raise, IsPlayer, Fields
<1>3. t.queue = s.queue \/ t.queue = Append(s.queue, c)
  BY DEF SendCmd, Raise, IsPlayer, Fields
<1> HIDE DEF t
<1>4. /\ t.status = s.status /\ t.stash = s.stash /\ t.allsetCb = s.allsetCb /\ t.fin = s.fin
      /\ SameHead(s, t) /\ SamePlan(s, t)
  BY <1>1 DEF Fields, SameHead, SamePlan
<1>6. OnlyMoves(s.queue) => OnlyMoves(t.queue)
  <2>1. s.queue \in CommandSeqs
    BY DEF IsPlayer
  <2> QED
    BY <1>3, <2>1, OneMoreMoves
<1>5. NoJob(s.queue, s.fin) => NoJob(t.queue, t.fin)
  <2>1. s.queue \in CommandSeqs /\ s.fin \in Nat
    BY DEF IsPlayer
  <2>2. ASSUME NoJob(s.queue, s.fin), NEW a \in Coming(Append(s.queue, c), s.fin)
        PROVE  Append(s.queue, c)[a].op # "job"
    <3>1. CASE a \in Coming(s.queue, s.fin)
      <4>1. Append(s.queue, c)[a] = s.queue[a]
        BY <2>1, <3>1, OneMore
      <4> QED
        BY <2>2, <3>1, <4>1 DEF NoJob
    <3>2. CASE a = Len(s.queue) + 1
      BY <2>1, <3>2, Appended
    <3> QED
      BY <2>1, <2>2, <3>1, <3>2, OneMore
  <2> QED
    BY <1>3, <1>4, <2>2 DEF NoJob
<1> QED
  BY <1>2, <1>4, <1>5, <1>6 DEF Alike, t

LEMMA Sent ==
    ASSUME NEW s, Live(s), NEW o \in Ops
    PROVE  /\ Alike(s, SendCmd(s, Cmd(o))) /\ Live(SendCmd(s, Cmd(o)))
           /\ IsPlayer(SendCmd(s, Cmd(o)))
<1>1. IsPlayer(s) /\ s.fin <= Len(s.queue)
  BY LivePlayer DEF Live, Sound, Ordered
<1>2. Cmd(o) \in Commands /\ Cmd(o).op # "job"
  BY CmdIs DEF Ops
<1> QED
  BY <1>1, <1>2, SendCmdAlike, Sends, LivePlayer DEF Leads

\* With room in the buffer no command of a running job is refused.
LEMMA RoomSent ==
    ASSUME NEW s, Live(s), s.status \notin Ended, Len(s.queue) < BufSize, NEW c
    PROVE  SendCmd(s, c) = [s EXCEPT !.queue = Append(@, c)]
           /\ SendCmd(s, c).exc = s.exc
<1>1. IsPlayer(s) /\ s.mb \in {"ready", "error"}
  BY LivePlayer, MbValues DEF Live, IsPlayer
<1>2. SendCmd(s, c) = [s EXCEPT !.queue = Append(@, c)]
  BY <1>1 DEF SendCmd, Usable, BufferedCmdSize
<1> QED
  BY <1>1, <1>2 DEF IsPlayer, Fields

LEMMA EmptyRoom ==
    ASSUME NEW s, Live(s)
    PROVE  /\ s.queue = <<>> => Len(s.queue) < BufSize
           /\ Len(s.queue) \in Nat /\ BufSize \in Nat
<1>1. s.queue \in CommandSeqs /\ BufSize \in Nat /\ BufSize > 1
  BY LivePlayer, ScenarioType DEF Live, Sound, IsPlayer
<1> QED
  BY <1>1 DEF CommandSeqs

LEMMA GiveupAlike ==
    ASSUME NEW s, Live(s)
    PROVE  Alike(s, Giveup(s))
<1> DEFINE x == SendCmd(s, Cmd("X5"))
           y == SendCmd(s, Cmd("G28"))
           v == [x EXCEPT !.allsetCb = "none"]
           w == [y EXCEPT !.probing = FALSE, !.probe = IF @ = "converged" THEN @ ELSE "none"]
<1>1. /\ Alike(s, x) /\ Alike(s, y) /\ IsPlayer(x) /\ IsPlayer(y) /\ Alike(s, s)
  BY Sent, OpNames, LivePlayer, AsideAlike
<1> HIDE DEF x, y
<1>2. Alike(x, v)
  BY <1>1, AsideAlike
<1>3. Alike(y, w)
  BY ZenonT(120), <1>1 DEF IsPlayer, Fields, Alike, SameHead, SamePlan
<1>4. Giveup(s) \in {s, x, y, v, w}
  BY DEF Giveup, Then, x, y
<1> HIDE DEF v, w
<1> QED
  BY <1>1, <1>2, <1>3, <1>4, AlikeOn

-----------------------------------------------------------------------------
(* Pausing and resuming: an exception in the middle leaves nothing that moves. *)

LEMMA StandbyCore ==
    ASSUME NEW s, IsPlayer(s), NEW k, Core(s, k), s.status \in {48, 50},
           s.status = 50 => s.stash # "none", s.th = "RUNNING",
           NEW called, Core(called, k), Still(called), NEW cb
    PROVE  Core(Standby(s, cb, called), k) /\ Still(Standby(s, cb, called))
<1> DEFINE t == [s EXCEPT !.hq = Append(@, "standby"), !.cb = cb]
           v == [t EXCEPT !.hq = Tail(@)]
           u == PopToHead(t)
<1>1. \A f \in Fields \ {"hq", "cb"} : t[f] = s[f]
  BY DEF IsPlayer, Fields
<1>2. DOMAIN t = Fields
  BY DEF IsPlayer
<1> HIDE DEF t
<1>3. \A f \in Fields \ {"hq", "out", "exc"} : u[f] = t[f]
  BY <1>2 DEF PopToHead, ToHead, Raise, Fields
<1>4. u.exc \in {t.exc, "other"}
  BY <1>2 DEF PopToHead, ToHead, Raise, Fields
<1> HIDE DEF u
<1>5. ASSUME NEW w \in {t, u}
      PROVE  Core(w, k) /\ Still(w)
  <2>1. /\ \A f \in Fields \ {"hq", "cb", "out", "exc"} : w[f] = s[f]
        /\ w.exc \in {s.exc, "other"}
    BY <1>1, <1>3, <1>4, <1>5 DEF Fields
  <2>2. /\ w.status = s.status /\ w.stash = s.stash /\ w.th = "RUNNING" /\ w.temp = s.temp
        /\ w.rt = s.rt /\ w.wasReset = s.wasReset /\ w.power = s.power /\ w.errno = s.errno
        /\ SamePlan(s, w) /\ w.want = s.want /\ w.queue = s.queue /\ w.fin = s.fin
    BY <2>1 DEF Fields, SamePlan
  <2>3. s.status \notin Ended /\ s.status \notin Starting
    BY Ends DEF Starting
  <2>4. Linked(w, k)
    <3>1. Linked(s, k) /\ w.exc \in {s.exc, "other"}
      BY <2>1, <2>3 DEF Core
    <3> QED
      BY ZenonT(60), <2>2, <2>3, <3>1 DEF Linked
  <2>5. Planned(w)
    BY <2>2, <2>3 DEF Core, Planned, SamePlan
  <2>6. Hot(w, k)
    <3>1. w.status # 16 /\ w.status # 18 /\ (w.status = 50 => w.stash # "none")
      BY <2>2
    <3> QED
      BY <3>1 DEF Hot, Moving
  <2> QED
    BY <2>2, <2>4, <2>5, <2>6 DEF Core, Still
<1>6. Standby(s, cb, called) \in {called, t, u}
  BY DEF Standby, t, u
<1> QED
  BY <1>5, <1>6

LEMMA SetStandbyCore ==
    ASSUME NEW s, IsPlayer(s), NEW k, Core(s, k), Still(s), s.status # 50 \/ s.stash # "none"
    PROVE  Core(SetStandby(s), k) /\ Still(SetStandby(s))
<1> DEFINE t == [s EXCEPT !.v24 = FALSE]
<1>1. \A f \in Fields \ {"v24"} : t[f] = s[f]
  BY DEF IsPlayer, Fields
<1>2. SetStandby(s) \in {s, t}
  BY DEF SetStandby
<1> HIDE DEF t
<1>3. /\ t.status = s.status /\ t.stash = s.stash /\ t.th = s.th /\ t.temp = s.temp
      /\ t.rt = s.rt /\ t.wasReset = s.wasReset /\ t.power = s.power /\ t.errno = s.errno
      /\ t.hq = s.hq /\ t.out = s.out /\ t.allsetCb = s.allsetCb /\ t.exc = s.exc
      /\ SamePlan(s, t) /\ t.want = s.want /\ t.queue = s.queue /\ t.fin = s.fin
  BY <1>1 DEF Fields, SamePlan
<1>4. Still(t)
  BY <1>3 DEF Still
<1>5. CASE s.status \in Ended
  BY <1>3, <1>5, <1>4, <1>2, EndedWarm
<1>6. CASE s.status \notin Ended
  <2>1. Linked(t, k) /\ Planned(t)
    BY ZenonT(120), <1>3, <1>6 DEF Core, Linked, Planned, SamePlan
  <2>2. ~Moving(s, k)
    BY <1>6 DEF Moving, Still
  <2>3. Hot(t, k)
    BY <1>3, <2>2 DEF Hot, Moving
  <2> QED
    BY <1>2, <1>4, <2>1, <2>3 DEF Core
<1> QED
  BY <1>5, <1>6

\* A job that is resumed greets its head again.
LEMMA ResumeCore ==
    ASSUME NEW s, NEW g, NEW k, Live(s), Fit(s, g), Core(s, k), Still(s),
           s.exc = "none", s.status = 48 => Len(s.queue) < BufSize
    PROVE  Core(Resume(s), k) /\ Still(Resume(s))
<1> DEFINE t == [s EXCEPT !.status = (@ - 32) + 2, !.error = "none"]
           u == SendCmd(t, Cmd("X5"))
           v == [u EXCEPT !.mb = "ready"]
           w == OnMainboardReady(v)
<1>1. CASE s.status \notin Paused \/ s.pausedMacro # "none"
  BY <1>1 DEF Resume
<1>2. CASE s.status \in Paused /\ s.pausedMacro = "none"
  <2>1. Resume(s) \in {u, w} /\ (u.exc = "none" => Resume(s) = w)
    BY <1>2 DEF Resume, Then
  <2>2. /\ IsPlayer(s) /\ s.status \in {36, 48} /\ s.status \notin Ended
        /\ (s.status = 48 => s.stash = "stashed")
        /\ s.fin <= Len(s.queue)
    BY <1>2, LivePlayer, Ends, Freed DEF Paused, Live, Sound, Ordered
  <2>3. /\ \A f \in Fields \ {"status", "error"} : t[f] = s[f]
        /\ DOMAIN t = Fields /\ t.status = (s.status - 32) + 2 /\ t.error = "none"
    BY <2>2 DEF IsPlayer, Fields
  <2>4. IsPlayer(t) /\ t.status \in {6, 18} /\ (t.status = 18 => s.status = 48)
        /\ (t.status = 6 => s.status = 36)
    <3>1. /\ t.status \in {6, 18} /\ (t.status = 18 => s.status = 48)
          /\ t.status = 6 => s.status = 36
      BY <2>2, <2>3
    <3>2. t.status \in Statuses /\ t.error \in Errors
      BY <2>3, <3>1, StatusValues, ErrorValues
    <3> HIDE DEF t
    <3> QED
      BY SMTT(60), <2>2, <2>3, <3>1, <3>2 DEF IsPlayer, Fields
  <2> HIDE DEF t
  <2>5. /\ SameHead(s, t) /\ SamePlan(s, t) /\ t.exc = s.exc /\ t.allsetCb = s.allsetCb
        /\ t.stash = s.stash /\ t.queue = s.queue /\ t.fin = s.fin /\ t.mb = s.mb
    BY <2>3 DEF Fields, SameHead, SamePlan
  <2>6. Core(t, k)
    <3>1. Linked(s, k) /\ Planned(s)
      BY <2>2 DEF Core
    <3>2. Planned(t)
      BY <2>5, <3>1 DEF Planned, SameHead, SamePlan
    <3>3. t.status \in Starting => s.status \in Starting
      BY <2>2, <2>4 DEF Starting
    <3>4. Linked(t, k)
      BY ZenonT(60), <2>5, <3>1, <3>3 DEF Linked, SameHead
    <3>5. Hot(t, k)
      <4>1. t.status # 16 /\ t.status # 50 /\ (t.status = 18 => t.stash # "none")
        BY <2>2, <2>4, <2>5
      <4> QED
        BY <4>1 DEF Hot, Moving
    <3> QED
      BY <3>2, <3>4, <3>5 DEF Core
  <2>7. Alike(t, u) /\ IsPlayer(u)
    <3>1. Cmd("X5") \in Commands /\ Cmd("X5").op # "job"
      BY CmdIs, OpNames
    <3> QED
      BY <2>2, <2>4, <2>5, <3>1, SendCmdAlike, SendCmdPlayer
  <2>8. t.status = 18 => u.exc = t.exc
    <3>1. ASSUME t.status = 18
          PROVE  Usable(t) /\ Len(t.queue) < BufSize
      <4>1. s.mb \in {"ready", "error"}
        BY <2>2, MbValues DEF Live, IsPlayer
      <4> QED
        BY <2>4, <2>5, <3>1, <4>1 DEF Usable
    <3>2. t.status = 18 => u = [t EXCEPT !.queue = Append(@, Cmd("X5"))]
      BY <3>1 DEF SendCmd, BufferedCmdSize
    <3> HIDE DEF u
    <3> QED
      BY <2>4, <3>2 DEF IsPlayer, Fields
  <2> HIDE DEF u
  <2>9. Core(u, k) /\ u.status = t.status /\ u.stash = s.stash
    BY <2>5, <2>6, <2>7, AlikeWarm DEF Alike
  <2>10. /\ \A f \in Fields \ {"mb", "power", "th", "out", "hq", "errno"} : w[f] = u[f]
         /\ w.th = "BOOTING" /\ w.out = "none" /\ w.hq = <<>> /\ w.errno = "none"
    BY <2>7 DEF OnMainboardReady, ToolheadBootstrap, PowerOn, IsPlayer, Fields
  <2> HIDE DEF w
  <2>11. /\ w.status = u.status /\ w.stash = u.stash /\ w.exc = u.exc
         /\ w.allsetCb = u.allsetCb /\ w.rt = u.rt /\ w.temp = u.temp /\ w.want = u.want
         /\ w.queue = u.queue /\ w.fin = u.fin /\ SamePlan(u, w)
    BY <2>10 DEF Fields, SamePlan
  <2>12. u.status \in {6, 18} /\ u.status \notin Ended
    BY <2>4, <2>9, Ends
  <2>13. Core(w, k) /\ Still(w)
    <3>1. Linked(u, k) /\ Planned(u)
      BY <2>9, <2>12 DEF Core
    <3>2. Planned(w)
      BY <2>11, <3>1 DEF Planned, SamePlan
    <3>5. Linked(w, k)
      BY ZenonT(60), <2>10, <2>11, <3>1 DEF Linked
    <3>3. w.status = 18 => w.stash = "stashed"
      BY <2>2, <2>4, <2>9, <2>11
    <3>4. Hot(w, k)
      <4>1. w.status # 16 /\ w.status # 50 /\ (w.status = 18 => w.stash # "none")
        BY <2>11, <2>12, <3>3
      <4> QED
        BY <4>1 DEF Hot, Moving
    <3> QED
      BY <2>10, <2>11, <2>12, <3>2, <3>3, <3>4, <3>5 DEF Core, Still
  <2>14. u.status = 6 => Still(u)
    BY DEF Still
  <2>15. u.status = 18 => Resume(s) = w
    BY <2>1, <2>5, <2>8, <2>9
  <2> QED
    BY <2>1, <2>9, <2>12, <2>13, <2>14, <2>15
<1> QED
  BY <1>1, <1>2

LEMMA PausedNowCore ==
    ASSUME NEW s, NEW g, NEW k, Live(s), Fit(s, g), Core(s, k), s.status \in Pausing,
           s.exc = "none",
           s.status = 50 => s.stash = "stashed" /\ Len(s.queue) < BufSize
    PROVE  Core(PausedNow(s), k) /\ Still(PausedNow(s))
<1> DEFINE t == [s EXCEPT !.status = IF @ \in Starting THEN 36 ELSE 48]
<1>1. IsPlayer(s) /\ s.status \in {38, 50} /\ s.status \notin Ended
  BY LivePlayer, Ends DEF Pausing
<1>2. /\ \A f \in Fields \ {"status"} : t[f] = s[f]
      /\ DOMAIN t = Fields
      /\ t.status \in {36, 48} /\ (t.status = 48 => s.status = 50)
      /\ (t.status = 36 => s.status = 38)
  BY <1>1 DEF IsPlayer, Fields, Starting
<1> HIDE DEF t
<1>3. /\ SameHead(s, t) /\ SamePlan(s, t) /\ t.exc = s.exc /\ t.allsetCb = s.allsetCb
      /\ t.stash = s.stash /\ t.queue = s.queue /\ t.fin = s.fin /\ t.mb = s.mb
      /\ Beside(s, t) /\ Same(s, [t EXCEPT !.status = s.status])
  BY <1>2 DEF Fields, SameHead, SamePlan, Beside, Same
<1>4. IsPlayer(t)
  <2>1. t.status \in Statuses
    BY <1>2, StatusValues
  <2> QED
    BY <1>1, <1>2, <2>1 DEF IsPlayer, Fields
<1>5. Live(t)
  <2>1. t.status # 64 /\ (t.status \in Starting => s.status \in Starting)
    BY <1>2 DEF Starting
  <2> QED
    BY <1>1, <1>3, <1>4, <2>1, NewStatus DEF Leads
<1>6. Fit(t, g)
  <2>1. /\ s.stash # "stashing" /\ g # "STASH"
    BY <1>1, Freed, NoStash
  <2>2. /\ t.status \notin Ended /\ (t.status = 48 => s.stash = "stashed")
        /\ (t.status \in Starting => s.status \in Starting)
    BY <1>2, Ends DEF Starting
  <2>3. s.stash # "none" => t.status \in {18, 48, 50}
    BY <1>1, <1>2, Freed
  <2> QED
    BY <1>1, <1>3, <2>1, <2>2, <2>3, NewStatusFit
<1>7. Core(t, k) /\ Still(t)
  <2>1. Linked(s, k) /\ Planned(s)
    BY <1>1 DEF Core
  <2>2. Planned(t)
    BY <1>3, <2>1 DEF Planned, SameHead, SamePlan
  <2>3. t.status \in Starting => s.status \in Starting
    BY <1>2 DEF Starting
  <2>4. Linked(t, k)
    BY ZenonT(60), <1>3, <2>1, <2>3 DEF Linked, SameHead
  <2>5. Hot(t, k)
    <3>1. t.status # 16 /\ t.status # 18 /\ t.status # 50
      BY <1>2
    <3> QED
      BY <3>1 DEF Hot, Moving
  <2> QED
    BY <1>2, <2>2, <2>4, <2>5 DEF Core, Still
<1>8. Core(Resume(t), k) /\ Still(Resume(t))
  BY <1>2, <1>3, <1>5, <1>6, <1>7, ResumeCore
<1>9. PausedNow(s) \in {t, Resume(t)}
  BY DEF PausedNow, t
<1> QED
  BY <1>7, <1>8, <1>9

\* The supply of the heater is cut where nothing moves.
LEMMA ToolheadPausedCore ==
    ASSUME NEW s, NEW g, NEW k, Live(s), Fit(s, g), Core(s, k), s.status \in {48, 50},
           s.exc = "none",
           s.status = 50 => s.stash = "stashed" /\ Len(s.queue) < BufSize
    PROVE  Core(ToolheadPaused(s), k) /\ Still(ToolheadPaused(s))
<1> DEFINE u == IF s.status = 50 THEN PausedNow(s) ELSE s
<1>1. s.status \notin Starting /\ s.status \notin Ended
  BY Ends DEF Starting
<1>2. Core(u, k) /\ Still(u) /\ IsPlayer(u) /\ (u.status # 50 \/ u.stash # "none")
  <2>1. CASE s.status = 50
    <3>1. s.status \in Pausing
      BY <2>1 DEF Pausing
    <3>2. /\ Core(PausedNow(s), k) /\ Still(PausedNow(s)) /\ IsPlayer(PausedNow(s))
          /\ Fit(PausedNow(s), g)
      BY <2>1, <3>1, PausedNowCore, PausedNowLeads, PausedNowFit, LivePlayer DEF Leads
    <3>3. PausedNow(s).status # 50
      <4> DEFINE t == [s EXCEPT !.status = IF @ \in Starting THEN 36 ELSE 48]
      <4>1. t.status = 48 /\ DOMAIN t = Fields /\ IsPlayer(t)
        <5>1. IsPlayer(s) /\ t = [s EXCEPT !.status = 48]
          BY <1>1, LivePlayer DEF IsPlayer
        <5> HIDE DEF t
        <5> QED
          BY <5>1, StatusValues DEF IsPlayer, Fields
      <4> HIDE DEF t
      <4>2. Resume(t).status # 50
        <5> DEFINE r == [t EXCEPT !.status = (@ - 32) + 2, !.error = "none"]
                   x == SendCmd(r, Cmd("X5"))
                   y == OnMainboardReady([x EXCEPT !.mb = "ready"])
        <5>1. r.status = 18 /\ DOMAIN r = Fields
          BY <4>1 DEF Fields
        <5> HIDE DEF r
        <5>2. x.status = 18 /\ DOMAIN x = Fields
          BY <5>1 DEF SendCmd, Raise, Fields
        <5> HIDE DEF x
        <5>3. y.status = 18
          BY <5>2 DEF OnMainboardReady, ToolheadBootstrap, PowerOn, Fields
        <5>4. Resume(t) \in {t, x, y}
          BY DEF Resume, Then, x, r
        <5> HIDE DEF y
        <5> QED
          BY <4>1, <5>2, <5>3, <5>4
      <4>3. PausedNow(s) \in {t, Resume(t)}
        BY DEF PausedNow, t
      <4> QED
        BY <4>1, <4>2, <4>3
    <3> QED
      BY <2>1, <3>2, <3>3
  <2>2. CASE s.status = 48
    <3>1. Still(s)
      BY <2>2 DEF Still
    <3> QED
      BY <2>2, <3>1, LivePlayer
  <2> QED
    BY <2>1, <2>2
<1> HIDE DEF u
<1>3. Core(SetStandby(u), k) /\ Still(SetStandby(u))
  BY <1>2, SetStandbyCore
<1>4. ToolheadPaused(s) \in {u, SetStandby(u)}
  BY DEF ToolheadPaused, Then, u
<1> QED
  BY <1>2, <1>3, <1>4

LEMMA PauseToolheadCore ==
    ASSUME NEW s, NEW g, NEW k, Live(s), Fit(s, g), Core(s, k), s.status \in {48, 50},
           s.exc = "none",
           s.status = 50 => s.stash = "stashed" /\ Len(s.queue) < BufSize
    PROVE  Core(PauseToolhead(s), k) /\ Still(PauseToolhead(s))
<1> DEFINE t == ToolheadPaused(s)
           u == Standby(s, "paused", t)
           v == [s EXCEPT !.cb = "paused"]
<1>1. IsPlayer(s) /\ Core(t, k) /\ Still(t) /\ Still(s)
  BY ToolheadPausedCore, LivePlayer DEF Still
<1> HIDE DEF t
<1>2. s.th = "RUNNING" => Core(u, k) /\ Still(u)
  BY <1>1, StandbyCore
<1> HIDE DEF u
<1>3. Alike(s, v)
  BY <1>1, AsideAlike
<1> HIDE DEF v
<1>4. Core(v, k) /\ Still(v)
  BY <1>1, <1>3, AlikeWarm, AlikeStill
<1>5. \/ PauseToolhead(s) \in {t, v}
      \/ s.th = "RUNNING" /\ PauseToolhead(s) = u
  BY DEF PauseToolhead, Ready, t, u, v
<1> QED
  BY <1>1, <1>2, <1>4, <1>5

LEMMA StashCore ==
    ASSUME NEW s, NEW g, NEW k, Live(s), Fit(s, g), Core(s, k), s.status = 50,
           s.queue = <<>>, s.exc = "none"
    PROVE  Core(Stash(s), k) /\ Still(Stash(s))
<1> DEFINE t == Giveup(s)
           r == [t EXCEPT !.stash = "stashing"]
           c == SendCmd(r, Cmd("C2"))
<1>1. IsPlayer(s) /\ Live(t) /\ Fit(t, g) /\ IsPlayer(t) /\ Alike(s, t)
  BY GiveupFit, GiveupLeads, GiveupAlike, LivePlayer DEF Leads
<1>2. t.status = 50 /\ t.stash = s.stash /\ t.status \notin Ended
  <2> HIDE DEF t
  <2>1. t.status = s.status /\ t.stash = s.stash
    BY <1>1 DEF Alike
  <2> QED
    BY <2>1, Ends
<1>3. Len(t.queue) < BufSize
  <2>1. s.queue \in CommandSeqs /\ BufSize \in Nat /\ BufSize > 1
    BY <1>1, ScenarioType DEF Live, Sound, IsPlayer
  <2>2. \A o \in Ops : Len(SendCmd(s, Cmd(o)).queue) < BufSize
    <3> SUFFICES ASSUME NEW o \in Ops
                 PROVE  Len(SendCmd(s, Cmd(o)).queue) < BufSize
      OBVIOUS
    <3>1. SendCmd(s, Cmd(o)).queue \in {s.queue, Append(s.queue, Cmd(o))}
      BY <1>1 DEF SendCmd, Raise, IsPlayer, Fields
    <3>2. Len(s.queue) = 0 /\ Len(Append(s.queue, Cmd(o))) = 1
      BY <2>1, Appended, CmdIs
    <3> DEFINE q == SendCmd(s, Cmd(o)).queue
               a == Append(s.queue, Cmd(o))
    <3>3. q = s.queue \/ q = a
      BY <3>1
    <3> HIDE DEF q, a
    <3>4. Len(q) = 0 \/ Len(q) = 1
      BY <3>2, <3>3 DEF a
    <3>5. \A b \in Nat, n \in {0, 1} : b > 1 => n < b
      OBVIOUS
    <3>6. Len(q) \in {0, 1}
      BY <3>4
    <3>7. Len(q) < BufSize
      BY <2>1, <3>5, <3>6
    <3> QED
      BY <3>7 DEF q
  <2> DEFINE x == SendCmd(s, Cmd("X5"))
             y == SendCmd(s, Cmd("G28"))
             v == [x EXCEPT !.allsetCb = "none"]
             w == [y EXCEPT !.probing = FALSE, !.probe = IF @ = "converged" THEN @ ELSE "none"]
  <2>3. IsPlayer(x) /\ IsPlayer(y) /\ Len(x.queue) < BufSize /\ Len(y.queue) < BufSize
    BY <2>2, Sent, OpNames
  <2>4. t \in {s, x, y, v, w}
    BY DEF Giveup, Then
  <2> HIDE DEF x, y, t
  <2>5. v.queue = x.queue /\ w.queue = y.queue
    BY <2>3 DEF IsPlayer, Fields
  <2>6. Len(s.queue) < BufSize
    BY EmptyRoom
  <2> HIDE DEF v, w
  <2> QED
    BY <2>3, <2>4, <2>5, <2>6
<1>4. Core(t, k) /\ Still(t)
  BY <1>1, <1>2, AlikeWarm DEF Still
<1>5. s.stash \in {"none", "stashed"}
  <2>1. s.stash # "stashing"
    BY DEF Fit, Flags
  <2> QED
    BY <1>1, <2>1, StashValues DEF IsPlayer
<1>6. Stash(s) \in {t, c} \/ (t.exc = "none" /\ t.stash # "none" /\ Stash(s) = PauseToolhead(t))
  BY DEF Stash, Then
<1> HIDE DEF t
<1>7. Core(c, k) /\ Still(c)
  <2>1. \A f \in Fields \ {"stash"} : r[f] = t[f]
    BY <1>1 DEF IsPlayer, Fields
  <2>2. IsPlayer(r) /\ r.stash = "stashing" /\ r.fin <= Len(r.queue)
    <3>1. t.fin <= Len(t.queue)
      BY <1>1 DEF Live, Sound, Ordered
    <3> QED
      BY <1>1, <3>1, StashValues DEF IsPlayer, Fields
  <2> HIDE DEF r
  <2>3. /\ r.status = 50 /\ SameHead(t, r) /\ SamePlan(t, r) /\ r.exc = t.exc
        /\ r.allsetCb = t.allsetCb /\ r.queue = t.queue /\ r.fin = t.fin
    BY <1>2, <2>1 DEF Fields, SameHead, SamePlan
  <2>4. Linked(r, k) /\ Planned(r)
    <3>1. Linked(t, k) /\ Planned(t)
      BY <1>2, <1>4 DEF Core
    <3>2. Planned(r)
      BY <2>3, <3>1 DEF Planned, SameHead, SamePlan
    <3>3. Linked(r, k)
      BY ZenonT(60), <1>2, <2>3, <3>1 DEF Linked, SameHead
    <3> QED
      BY <3>2, <3>3
  <2>5. Hot(r, k)
    <3>1. r.status # 16 /\ r.status # 18 /\ r.stash # "none"
      BY <2>2, <2>3
    <3> QED
      BY <3>1 DEF Hot, Moving
  <2>6. Core(r, k) /\ Still(r)
    BY <2>3, <2>4, <2>5 DEF Core, Still
  <2>7. Alike(r, c)
    BY <2>2, CmdIs, OpNames, SendCmdAlike
  <2> HIDE DEF c
  <2> QED
    BY <2>6, <2>7, AlikeWarm, AlikeStill
<1>8. t.exc = "none" /\ t.stash # "none" => Core(PauseToolhead(t), k) /\ Still(PauseToolhead(t))
  BY <1>1, <1>2, <1>3, <1>4, <1>5, PauseToolheadCore
<1> HIDE DEF c
<1> QED
  BY <1>4, <1>6, <1>7, <1>8

LEMMA HandlePauseCore ==
    ASSUME NEW s, NEW g, NEW k, Live(s), Fit(s, g), Core(s, k), s.status \in Pausing,
           s.exc = "none"
    PROVE  Core(HandlePause(s), k) /\ Still(HandlePause(s))
<1> DEFINE u == SendCmd(s, Cmd("X5"))
<1>1. s.status \in {38, 50}
  BY DEF Pausing
<1>2. Still(s)
  BY <1>1 DEF Still
<1>3. /\ Alike(s, u) /\ Live(u) /\ Fit(u, g)
  BY Sent, OpNames, SpeedFit
<1> HIDE DEF u
<1>4. Core(u, k) /\ Still(u) /\ u.status = s.status
  BY <1>2, <1>3, AlikeWarm, AlikeStill DEF Alike
<1>5. s.status = 38 /\ u.exc = "none" => Core(PausedNow(u), k) /\ Still(PausedNow(u))
  BY <1>3, <1>4, PausedNowCore DEF Pausing
<1>6. s.status = 50 /\ BufferedCmdSize(s) = 0 => Core(Stash(s), k) /\ Still(Stash(s))
  BY StashCore, EmptyBuffer, LivePlayer
<1>7. \/ HandlePause(s) \in {s, u}
      \/ s.status = 38 /\ u.exc = "none" /\ HandlePause(s) = PausedNow(u)
      \/ s.status = 50 /\ BufferedCmdSize(s) = 0 /\ HandlePause(s) = Stash(s)
  BY DEF HandlePause, Then, u
<1> QED
  BY <1>2, <1>4, <1>5, <1>6, <1>7

\* A pause is asked for: the head that does not run loses its power.
LEMMA AskedCore ==
    ASSUME NEW s, IsPlayer(s), NEW k, Core(s, k), s.status \in {4, 6, 16, 18},
           s.status = 18 => s.stash \in {"none", "stashed"}, s.status = 16 => s.stash = "none",
           NEW e
    PROVE  LET t == [s EXCEPT !.status = IF @ \in Starting THEN 38 ELSE 50, !.error = e]
               u == IF Ready(t) THEN t ELSE PowerOff(t)
           IN  Core(u, k) /\ Still(u) /\ u.status \in Pausing
<1> DEFINE t == [s EXCEPT !.status = IF @ \in Starting THEN 38 ELSE 50, !.error = e]
           o == PowerOff(t)
           u == IF Ready(t) THEN t ELSE o
<1>1. /\ \A f \in Fields \ {"status", "error"} : t[f] = s[f]
      /\ DOMAIN t = Fields
      /\ t.status = (IF s.status \in Starting THEN 38 ELSE 50)
  BY DEF IsPlayer, Fields
<1>2. /\ s.status \notin Ended
      /\ t.status \in {38, 50} /\ (t.status = 50 => s.status \in {16, 18})
      /\ (t.status \in Starting => s.status \in Starting)
  BY <1>1, Ends DEF Starting
<1> HIDE DEF t
<1>3. /\ \A f \in Fields \ {"power", "heat", "wasReset"} : o[f] = t[f]
      /\ DOMAIN o = Fields /\ o.heat = "off" /\ o.wasReset = TRUE
  BY <1>1 DEF PowerOff, Fields
<1> HIDE DEF o
<1>4. Linked(s, k) /\ Planned(s) /\ (k = 0 => Hot(s, k))
  BY <1>2 DEF Core
<1>5. ASSUME NEW w, /\ \A f \in Fields \ {"status", "error", "power", "heat", "wasReset"} : w[f] = s[f]
                    /\ w.status = t.status,
             \/ w.heat = s.heat /\ w.wasReset = s.wasReset /\ w.power = s.power
             \/ s.th # "RUNNING" /\ w.wasReset = TRUE
      PROVE  Core(w, k) /\ Still(w) /\ w.status \in Pausing
  <2>1. /\ w.stash = s.stash /\ w.th = s.th /\ w.out = s.out /\ w.hq = s.hq
        /\ w.updating = s.updating /\ w.rt = s.rt /\ w.errno = s.errno /\ w.v24 = s.v24
        /\ w.temp = s.temp /\ w.want = s.want /\ SamePlan(s, w) /\ w.queue = s.queue
        /\ w.fin = s.fin /\ w.exc = s.exc /\ w.allsetCb = s.allsetCb
    BY <1>5 DEF Fields, SamePlan
  <2>2. Planned(w)
    BY <1>4, <2>1 DEF Planned, SamePlan
  <2>3. Linked(w, k)
    <3>1. w.status \in Starting => s.status \in Starting
      BY <1>2, <1>5
    <3>2. w.th = "RUNNING" => w.wasReset = s.wasReset /\ w.power = s.power
      BY <1>5, <2>1
    <3> QED
      BY ZenonT(60), <1>4, <2>1, <3>1, <3>2 DEF Linked
  <2>4. k = 0 => Hot(w, k)
    <3>1. ASSUME k = 0, Moving(w, k)
          PROVE  Moving(s, k)
      <4>1. w.status = 50 /\ w.stash = "none"
        BY <1>2, <1>5, <3>1 DEF Moving
      <4>2. s.status \in {16, 18} /\ s.stash = "none"
        BY <1>2, <1>5, <2>1, <4>1
      <4> QED
        BY <4>2 DEF Moving
    <3>2. CASE w.heat = s.heat /\ w.wasReset = s.wasReset
      BY <1>4, <2>1, <3>1, <3>2 DEF Hot, Told, SamePlan
    <3>3. CASE s.th # "RUNNING" /\ w.wasReset = TRUE
      BY <1>4, <2>1, <3>1, <3>3 DEF Hot, Told, SamePlan
    <3> QED
      BY <1>5, <3>2, <3>3
  <2>5. w.status \in {38, 50}
    BY <1>2, <1>5
  <2> QED
    BY <2>2, <2>3, <2>4, <2>5 DEF Core, Still, Pausing
<1>6. CASE Ready(t)
  <2>1. /\ \A f \in Fields \ {"status", "error", "power", "heat", "wasReset"} : t[f] = s[f]
        /\ t.heat = s.heat /\ t.wasReset = s.wasReset /\ t.power = s.power
    BY <1>1 DEF Fields
  <2>2. Core(t, k) /\ Still(t) /\ t.status \in Pausing
    BY <1>5, <2>1
  <2> QED
    BY <1>6, <2>2 DEF t
<1>7. CASE ~Ready(t)
  <2>1. s.th # "RUNNING"
    BY <1>1, <1>7 DEF Ready, Fields
  <2>2. /\ \A f \in Fields \ {"status", "error", "power", "heat", "wasReset"} : o[f] = s[f]
        /\ o.status = t.status /\ o.wasReset = TRUE
    BY <1>1, <1>3 DEF Fields
  <2>3. Core(o, k) /\ Still(o) /\ o.status \in Pausing
    BY <1>5, <2>1, <2>2
  <2> QED
    BY <1>7, <2>3 DEF t, o
<1> QED
  BY <1>6, <1>7

LEMMA PauseCore ==
    ASSUME NEW s, NEW g, NEW k, Live(s), Fit(s, g), Core(s, k), s.exc = "none",
           NEW e \in Errors
    PROVE  Core(Pause(s, e), k) /\ Still(Pause(s, e))
<1> DEFINE x == IF s.error = "none" THEN e ELSE s.error
           d == [s EXCEPT !.error = IF @ = "none" THEN e ELSE @]
           t == [s EXCEPT !.status = IF @ \in Starting THEN 38 ELSE 50, !.error = e]
           u == IF Ready(t) THEN t ELSE PowerOff(t)
<1>1. CASE s.status \in Pausing \cup Paused \cup Ended
  <2>1. Alike(s, d) /\ Pause(s, e) = d
    <3>1. d = [s EXCEPT !.error = x]
      BY LivePlayer DEF IsPlayer, Fields
    <3>2. Alike(s, [s EXCEPT !.error = x])
      BY LivePlayer, AsideAlike
    <3> QED
      BY <1>1, <3>1, <3>2 DEF Pause
  <2>2. Still(s)
    BY <1>1 DEF Still, Pausing, Paused
  <2> HIDE DEF d
  <2> QED
    BY <2>1, <2>2, AlikeWarm, AlikeStill
<1>2. CASE s.status \notin Pausing \cup Paused \cup Ended
  <2>1. IsPlayer(s) /\ s.status \in {4, 6, 16, 18}
    BY <1>2, LivePlayer, StatusValues DEF IsPlayer, Pausing, Paused, Ended
  <2>2. /\ IsPlayer(t) /\ Same(s, [t EXCEPT !.status = s.status]) /\ Beside(s, t)
        /\ t.status = (IF s.status \in Starting THEN 38 ELSE 50)
        /\ t.exc = s.exc /\ PowerOff(t).exc = s.exc
    BY <2>1, StatusValues DEF IsPlayer, Fields, Same, Beside, PowerOff
  <2>3. Core(u, k) /\ Still(u) /\ u.status \in Pausing
    <3>1. /\ s.status = 18 => s.stash \in {"none", "stashed"}
          /\ s.status = 16 => s.stash = "none"
      BY <2>1, Freed
    <3> QED
      BY <2>1, <3>1, AskedCore
  <2> HIDE DEF t
  <2>4. s.status \notin Ended /\ t.status \notin Ended /\ t.status # 64 /\ t.status # 48
        /\ s.status # 50 /\ (t.status \in Starting => s.status \in Starting)
        /\ (s.status \notin {4, 6, 16, 36, 38} => t.status = 50)
    BY <2>1, <2>2, Ends DEF Starting
  <2>5. Live(t)
    BY <2>2, <2>4, NewStatus DEF Leads
  <2>6. s.stash # "none" => t.status \in {18, 48, 50}
    BY <2>1, <2>4, Freed
  <2>7. Fit(t, g)
    BY <2>2, <2>4, <2>6, NoStash, NewStatusFit
  <2>8. Fit(u, g)
    BY <2>2, <2>7, HalCalm, CalmFit
  <2>9. Live(u) /\ u.exc = "none"
    BY <2>2, <2>5, PowerOffKeeps, KeepsLeads, LivePlayer DEF Leads
  <2>10. Pause(s, e) \in {u, HandlePause(u)}
    BY <1>2 DEF Pause, t
  <2> HIDE DEF u
  <2> QED
    BY <2>3, <2>8, <2>9, <2>10, HandlePauseCore
<1> QED
  BY <1>1, <1>2

\* A pause that comes before the mainboard was greeted.
LEMMA OffPauseCore ==
    ASSUME NEW s, IsPlayer(s), s.mb = "off", s.status \in {4, 38, 128}, NEW k, Core(s, k), NEW e
    PROVE  Core(Pause(s, e), k) /\ Still(Pause(s, e)) /\ Pause(s, e).status \in {38, 128}
<1> DEFINE x == IF s.error = "none" THEN e ELSE s.error
           d == [s EXCEPT !.error = IF @ = "none" THEN e ELSE @]
           t == [s EXCEPT !.status = IF @ \in Starting THEN 38 ELSE 50, !.error = e]
           u == IF Ready(t) THEN t ELSE PowerOff(t)
<1>1. CASE s.status \in {38, 128}
  <2>1. Alike(s, d)
    <3>1. d = [s EXCEPT !.error = x]
      BY DEF IsPlayer, Fields
    <3> QED
      BY ZenonT(120), <3>1, AsideAlike
  <2>2. Pause(s, e) = d
    BY <1>1 DEF Pause, Pausing, Ended
  <2>3. Still(s)
    BY <1>1, Ends DEF Still
  <2> HIDE DEF d
  <2>4. d.status = s.status
    BY <2>1 DEF Alike
  <2> QED
    BY <1>1, <2>1, <2>2, <2>3, <2>4, AlikeWarm, AlikeStill
<1>2. CASE s.status = 4
  <2>1. Core(u, k) /\ Still(u)
    <3>1. s.status \in {4, 6, 16, 18} /\ s.status # 16 /\ s.status # 18
      BY <1>2
    <3> QED
      BY <3>1, AskedCore
  <2>2. u.status = 38 /\ u.mb = "off" /\ DOMAIN u = Fields
    BY <1>2 DEF Starting, IsPlayer, Fields, PowerOff
  <2>3. Pause(s, e) \in {u, HandlePause(u)}
    <3>1. s.status \notin Pausing \cup Paused \cup Ended
      BY <1>2 DEF Pausing, Paused, Ended
    <3> QED
      BY <3>1 DEF Pause
  <2> HIDE DEF u
  <2> DEFINE r == Raise(u, "other")
  <2>4. HandlePause(u) = r
    <3>1. SendCmd(u, Cmd("X5")) = r
      BY <2>2 DEF SendCmd, Usable
    <3>2. r.exc = "other"
      BY <2>2 DEF Raise, Fields
    <3> HIDE DEF r
    <3> QED
      BY <2>2, <3>1, <3>2 DEF HandlePause, Then
  <2>5. Alike(u, r)
    BY <2>2 DEF Raise, Fields, Alike, SameHead, SamePlan
  <2> HIDE DEF r
  <2>6. r.status = 38
    BY <2>2, <2>5 DEF Alike
  <2> QED
    BY <2>1, <2>2, <2>3, <2>4, <2>5, <2>6, AlikeWarm, AlikeStill
<1> QED
  BY <1>1, <1>2

LEMMA AbortEnds ==
    ASSUME NEW s, IsPlayer(s), NEW e
    PROVE  Abort(s, e).status \in Ended
<1> DEFINE u == [s EXCEPT !.status = 128, !.error = IF e \in Errors THEN e ELSE "other"]
           v == [s EXCEPT !.status = 128, !.error = e]
           t == Terminate(v)
<1>1. CASE s.status \in Ended
  BY <1>1 DEF Abort
<1>2. CASE s.status \notin Ended
  <2>1. v.status = 128 /\ DOMAIN v = Fields
    BY DEF IsPlayer, Fields
  <2> HIDE DEF v
  <2>2. t.status = 128 /\ DOMAIN t = Fields
    BY <2>1 DEF Terminate, MainboardClose, Close, Standby, PopToHead, ToHead, Raise, SetStandby, Fields
  <2> HIDE DEF t
  <2>3. Close(t).status = 128
    BY <2>2 DEF Close, Fields
  <2>4. Abort(s, e) \in {t, Close(t)}
    BY <1>2 DEF Abort, t, v
  <2> QED
    BY <2>2, <2>3, <2>4, Ends
<1> QED
  BY <1>1, <1>2

\* What an exception leads to.
LEMMA CaughtWarm ==
    ASSUME NEW s, NEW g, NEW k, Live(s), Fit(s, g), Core(s, k), s.exc = "none" => Warm(s, k)
    PROVE  Warm(Caught(s), k)
<1> DEFINE q == Quiet(s)
           e == IF s.exc = "head lost" THEN s.exc ELSE "other"
           a == Abort(q, "other")
           b == Pause(q, e)
<1>1. /\ IsPlayer(s) /\ Live(q) /\ Fit(q, g) /\ e \in Errors /\ IsPlayer(q) /\ q.exc = "none"
  <2>1. IsPlayer(s) /\ Live(q) /\ Fit(q, g) /\ e \in Errors
    BY QuietLeads, FitStill, LivePlayer, ErrorValues DEF Leads
  <2>2. q.exc = "none"
    BY <2>1 DEF Quiet, IsPlayer, Fields
  <2> QED
    BY <2>1, <2>2, LivePlayer
<1>2. Core(q, k)
  BY <1>1, QuietCore
<1> HIDE DEF q, e
<1>3. Core(b, k) /\ Still(b) /\ IsPlayer(b)
  BY <1>1, <1>2, PauseCore, PauseLeads, LivePlayer DEF Leads
<1>4. a.status \in Ended /\ IsPlayer(a)
  BY <1>1, AbortEnds, AbortPlayer, ErrorValues
<1> HIDE DEF a, b
<1>5. Warm(Quiet(b), k)
  BY <1>3, StillQuiet
<1>6. Warm(Quiet(a), k)
  <2>1. Core(a, k) /\ Still(a)
    BY <1>4, EndedWarm DEF Still
  <2> QED
    BY <1>4, <2>1, StillQuiet
<1>7. (Caught(s) = s /\ s.exc = "none") \/ Caught(s) \in {Quiet(a), Quiet(b)}
  BY DEF Caught, q, e, a, b
<1> QED
  BY <1>5, <1>6, <1>7

-----------------------------------------------------------------------------
(* Running. *)

HeaterMacros == {"heat", "job heat"}

LEMMA NotYet == ~Waited(1)
<1>1. 1..1-1 = {}
  OBVIOUS
<1> QED
  BY <1>1 DEF Waited

\* A heater command decides whether the head is waited for, no other command does.
LEMMA WaitedOn ==
    ASSUME NEW i \in Nat, i >= 1
    PROVE  /\ Kind(i) \notin Heats => (Waited(i + 1) <=> Waited(i))
           /\ Kind(i) \in Heats =>
                  (Waited(i + 1) <=> Kind(i) = "wait" /\ Target(i) \in Hots)
<1>1. /\ 1..(i + 1)-1 = (1..i-1) \cup {i}
      /\ \A w \in 1..i-1 : w+1..(i + 1)-1 = (w+1..i-1) \cup {i}
      /\ i+1..(i + 1)-1 = {}
  OBVIOUS
<1>2. CASE Kind(i) \notin Heats
  <2>1. Kind(i) # "wait"
    BY <1>2 DEF Heats
  <2> QED
    BY <1>1, <1>2, <2>1 DEF Waited
<1>3. CASE Kind(i) \in Heats
  <2>1. ~(\E w \in 1..i-1 : \A a \in w+1..(i + 1)-1 : Kind(a) \notin Heats)
    BY <1>1, <1>3
  <2> QED
    BY <1>1, <1>3, <2>1 DEF Waited
<1> QED
  BY <1>2, <1>3

LEMMA Before ==
    ASSUME NEW n \in Nat
    PROVE  /\ n > 1 => n - 1 \in Nat /\ n - 1 >= 1 /\ (n - 1) + 1 = n
           /\ n >= 1 => n + 1 > 1 /\ (n + 1) - 1 = n
OBVIOUS

\* A job whose heater macro runs waits for a target above 60, or nothing after it does.
LEMMA JobHeats ==
    ASSUME NEW s, IsPlayer(s), Planned(s), s.macro = "job heat", Waited(s.next)
    PROVE  s.heatTo \in Hots
<1>1. s.next > 1 /\ Kind(s.next - 1) = "wait" /\ s.heatTo = Target(s.next - 1)
  BY DEF Planned
<1>2. s.next - 1 \in Nat /\ s.next - 1 >= 1 /\ (s.next - 1) + 1 = s.next
  <2>1. s.next \in Nat /\ s.next > 1
    BY <1>1 DEF IsPlayer
  <2> QED
    BY <2>1, Before
<1>3. Kind(s.next - 1) \in Heats
  BY <1>1 DEF Heats
<1> QED
  BY <1>1, <1>2, <1>3, WaitedOn

LEMMA HotValues ==
    /\ Hots = {"hot", "hotter"}
    /\ \A v \in Hots : v \notin {"none", "fan", "off", "low", "standby", "excess", "unset", "cold"}
BY DEF Hots

WantFor(v) == IF v = "off" THEN "unset" ELSE v

\* What a macro that heats changes: the command is refused by the mainboard, or by the
\* head, or is on its way.
Ordering(s, t) ==
    /\ t.th = s.th /\ t.hq = s.hq /\ t.updating = s.updating /\ t.rt = s.rt
    /\ t.errno = s.errno /\ t.power = s.power /\ t.v24 = s.v24 /\ t.heat = s.heat
    /\ t.temp = s.temp /\ t.wasReset = s.wasReset
    /\ SamePlan(s, t) /\ t.status = s.status /\ t.stash = s.stash
    /\ NoJob(s.queue, s.fin) => NoJob(t.queue, t.fin)
    /\ OnlyMoves(s.queue) => OnlyMoves(t.queue)
    /\ \/ t.want = s.want /\ t.out = s.out /\ t.exc = "other"
          /\ ~(Usable(s) /\ Len(s.queue) < BufSize)
       \/ t.want = s.want /\ t.out = s.out /\ t.exc = "system" /\ s.heatTo = "excess"
       \/ /\ t.want = WantFor(s.heatTo)
          /\ \/ ~Sendable(s) /\ t.out = s.out /\ t.exc = "other"
             \/ Sendable(s) /\ t.out = s.heatTo /\ t.exc = "none"

LEMMA HeatStarts ==
    ASSUME NEW s, Live(s), s.macro \in HeaterMacros, s.exc = "none"
    PROVE  Ordering(s, StartMacro(s))
<1> DEFINE x == SendCmd(s, Cmd("X5"))
           m == [x EXCEPT !.want = WantFor(s.heatTo)]
           h == SetHeater(x, s.heatTo)
           t == Then(x, LAMBDA u : SetHeater(u, s.heatTo))
           a(e) == [t EXCEPT !.allsetCb = e]
           z == StartMacro(s)
<1>1. /\ IsPlayer(s) /\ s.fin <= Len(s.queue) /\ Alike(s, x) /\ IsPlayer(x)
      /\ \A f \in Fields \ {"queue", "exc"} : x[f] = s[f]
      /\ x.exc = "none" \/ (x.exc = "other" /\ ~(Usable(s) /\ Len(s.queue) < BufSize))
  <2>1. IsPlayer(s) /\ s.fin <= Len(s.queue)
    BY LivePlayer DEF Live, Sound, Ordered
  <2>2. x.exc = "none" \/ (x.exc = "other" /\ ~(Usable(s) /\ Len(s.queue) < BufSize))
    BY <2>1 DEF SendCmd, Raise, IsPlayer, Fields, BufferedCmdSize
  <2>3. \A f \in Fields \ {"queue", "exc"} : x[f] = s[f]
    BY <2>1, SendCmdFields
  <2>4. Alike(s, x) /\ IsPlayer(x)
    BY Sent, OpNames
  <2> QED
    BY <2>1, <2>2, <2>3, <2>4
<1>2. /\ NoJob(s.queue, s.fin) => NoJob(x.queue, x.fin)
      /\ OnlyMoves(s.queue) => OnlyMoves(x.queue)
  BY <1>1 DEF Alike
<1>3. /\ x.th = s.th /\ x.hq = s.hq /\ x.updating = s.updating /\ x.rt = s.rt
      /\ x.errno = s.errno /\ x.power = s.power /\ x.v24 = s.v24 /\ x.heat = s.heat
      /\ x.temp = s.temp /\ x.wasReset = s.wasReset /\ x.want = s.want /\ x.out = s.out
      /\ SamePlan(s, x) /\ x.status = s.status /\ x.stash = s.stash
  BY <1>1 DEF Fields, SamePlan
<1> HIDE DEF x
<1>4. /\ \A f \in Fields \ {"want"} : m[f] = x[f]
      /\ m.want = WantFor(s.heatTo) /\ DOMAIN m = Fields
  BY <1>1 DEF IsPlayer, Fields
<1>5. h = IF s.heatTo = "excess" THEN Raise(x, "system") ELSE ToHead(m, s.heatTo)
  BY DEF SetHeater, WantFor
<1> HIDE DEF m
<1>6. /\ \A f \in Fields \ {"want", "out", "exc"} : h[f] = x[f]
      /\ DOMAIN h = Fields
      /\ \/ h.want = m.want /\ ~Sendable(x) /\ h.out = x.out /\ h.exc = "other"
         \/ h.want = m.want /\ Sendable(x) /\ h.out = s.heatTo /\ h.exc = x.exc
         \/ h.want = x.want /\ s.heatTo = "excess" /\ h.out = x.out /\ h.exc = "system"
  <2>1. Sendable(m) <=> Sendable(x)
    BY <1>4 DEF Sendable, Ready, Fields
  <2>2. CASE Sendable(m) /\ s.heatTo # "excess"
    <3>1. h = [m EXCEPT !.out = s.heatTo]
      BY <1>5, <2>2 DEF ToHead
    <3> HIDE DEF h
    <3> QED
      BY <1>4, <2>1, <2>2, <3>1 DEF Fields
  <2>3. CASE ~Sendable(m) /\ s.heatTo # "excess"
    <3>1. h = [m EXCEPT !.exc = "other"]
      BY <1>5, <2>3 DEF ToHead, Raise
    <3> HIDE DEF h
    <3> QED
      BY <1>4, <2>1, <2>3, <3>1 DEF Fields
  <2>4. CASE s.heatTo = "excess"
    <3>1. h = [x EXCEPT !.exc = "system"]
      BY <1>5, <2>4 DEF Raise
    <3>2. DOMAIN x = Fields
      BY <1>1 DEF IsPlayer
    <3> HIDE DEF h
    <3> QED
      BY <2>4, <3>1, <3>2 DEF Fields
  <2> QED
    BY <2>2, <2>3, <2>4
<1> HIDE DEF h
<1>7. Sendable(x) <=> Sendable(s)
  BY <1>3 DEF Sendable, Ready
<1>8. Ordering(s, t) /\ DOMAIN t = Fields
  <2>1. CASE x.exc # "none"
    <3>1. t = x
      BY <2>1 DEF Then
    <3> HIDE DEF t
    <3> QED
      BY <1>1, <1>2, <1>3, <2>1, <3>1 DEF Ordering, IsPlayer
  <2>2. CASE x.exc = "none"
    <3>1. t = h
      BY <2>2 DEF Then, h
    <3> HIDE DEF t
    <3>2. /\ h.th = x.th /\ h.hq = x.hq /\ h.updating = x.updating /\ h.rt = x.rt
          /\ h.errno = x.errno /\ h.power = x.power /\ h.v24 = x.v24 /\ h.heat = x.heat
          /\ h.temp = x.temp /\ h.wasReset = x.wasReset /\ h.queue = x.queue /\ h.fin = x.fin
          /\ SamePlan(x, h) /\ h.status = x.status /\ h.stash = x.stash
      BY <1>6 DEF Fields, SamePlan
    <3>3. SamePlan(s, h)
      BY <1>3, <3>2 DEF SamePlan
    <3>4. \/ h.want = WantFor(s.heatTo) /\ ~Sendable(s) /\ h.out = s.out /\ h.exc = "other"
          \/ h.want = WantFor(s.heatTo) /\ Sendable(s) /\ h.out = s.heatTo /\ h.exc = "none"
          \/ h.want = s.want /\ s.heatTo = "excess" /\ h.out = s.out /\ h.exc = "system"
      BY <1>3, <1>4, <1>6, <1>7, <2>2
    <3> QED
      BY <1>2, <1>3, <1>6, <3>1, <3>2, <3>3, <3>4 DEF Ordering
  <2> QED
    BY <2>1, <2>2
<1>9. z = IF t.exc = "none" THEN a(IF s.macro = "heat" THEN "task" ELSE "job") ELSE t
  BY DEF StartMacro, Then, x, HeaterMacros
<1> HIDE DEF t
<1>10. ASSUME NEW e
       PROVE  Ordering(s, a(e))
  <2> DEFINE r == a(e)
  <2>1. \A f \in Fields \ {"allsetCb"} : r[f] = t[f]
    BY <1>8
  <2> HIDE DEF a, r
  <2>2. /\ r.th = t.th /\ r.hq = t.hq /\ r.updating = t.updating /\ r.rt = t.rt
        /\ r.errno = t.errno /\ r.power = t.power /\ r.v24 = t.v24 /\ r.heat = t.heat
        /\ r.temp = t.temp /\ r.wasReset = t.wasReset /\ r.queue = t.queue /\ r.fin = t.fin
        /\ SamePlan(t, r) /\ r.status = t.status /\ r.stash = t.stash
        /\ r.want = t.want /\ r.out = t.out /\ r.exc = t.exc
    BY <2>1 DEF Fields, SamePlan
  <2>3. Ordering(s, r)
    BY <1>8, <2>2 DEF Ordering, SamePlan
  <2> QED
    BY <2>3 DEF r
<1> HIDE DEF a, z
<1>11. Ordering(s, z)
  BY <1>8, <1>9, <1>10
<1> QED
  BY <1>11 DEF z

\* A macro that heats, from a state that may have moved the job.
LEMMA HeatWarm ==
    ASSUME NEW s, Live(s), NEW k, s.macro \in HeaterMacros, s.exc = "none",
           s.status \notin Starting, Free(s), Linked(s, k), Planned(s), Hot(s, k),
           HeadKind = "EXTRUDER"
    PROVE  Warm(StartMacro(s), k)
<1> DEFINE t == StartMacro(s)
<1>1. Ordering(s, t)
  BY HeatStarts
<1>2. Waited(s.next) => s.macro = "job heat" /\ s.heatTo \in Hots /\ WantFor(s.heatTo) \in Hots
  <2>1. IsPlayer(s)
    BY LivePlayer
  <2>2. s.macro = "heat" => s.next = 1
    BY DEF Planned, MacroKinds
  <2>3. Waited(s.next) => s.macro = "job heat"
    BY <2>2, NotYet DEF HeaterMacros
  <2> QED
    BY <2>1, <2>3, JobHeats, HotValues DEF WantFor
<1> HIDE DEF t
<1>3. SUFFICES ASSUME s.status \notin Ended
               PROVE  Linked(t, k) /\ Planned(t) /\ Returning(t) /\ Hot(t, k)
  BY <1>1, EndedWarm DEF Warm, Ordering, t
<1>4. s.stash = "none" /\ t.stash = "none" /\ t.status = s.status
  BY <1>1, <1>3 DEF Free, Ordering
<1>5. t.exc \in {"none", "other", "system"} /\ (t.th = "BOOTING" => t.out = s.out)
  BY <1>1 DEF Ordering, Sendable, Ready
<1>6. Linked(t, k)
  <2>1. /\ t.th = s.th /\ t.hq = s.hq /\ t.wasReset = s.wasReset /\ t.power = s.power
        /\ t.rt = s.rt /\ t.temp = s.temp /\ t.errno = s.errno
    BY <1>1 DEF Ordering
  <2> QED
    BY ZenonT(60), <1>4, <1>5, <2>1 DEF Linked
<1>7. Planned(t)
  <2>1. SamePlan(s, t) /\ (NoJob(s.queue, s.fin) => NoJob(t.queue, t.fin))
        /\ (OnlyMoves(s.queue) => OnlyMoves(t.queue))
        /\ (t.want = s.want \/ t.want = WantFor(s.heatTo))
    BY <1>1 DEF Ordering
  <2> QED
    BY <1>2, <2>1, HotValues DEF Planned, SamePlan
<1>8. Returning(t)
  BY <1>4 DEF Returning
<1>9. Hot(t, k)
  <2>1. SUFFICES ASSUME Moving(t, k) PROVE Hot(t, k)
    BY DEF Hot
  <2>2. Moving(s, k)
    BY <1>4, <2>1 DEF Moving
  <2>3. s.hq = <<>> /\ s.th # "BOOTING" /\ (s.th = "RUNNING" => s.v24)
    BY <2>2 DEF Hot
  <2>4. t.hq = <<>> /\ t.th # "BOOTING" /\ (t.th = "RUNNING" => t.v24)
    BY <1>1, <2>3 DEF Ordering
  <2>5. ASSUME Waited(t.next)
        PROVE  /\ t.th = "RUNNING" /\ t.out \in {"none"} \cup Hots
               /\ t.macro = "job heat"
               /\ Told(t) => t.heat \in Hots \/ t.out \in Hots
    <3>1. t.next = s.next /\ t.macro = s.macro /\ t.th = s.th /\ t.wasReset = s.wasReset
          /\ t.heat = s.heat
      BY <1>1 DEF Ordering, SamePlan
    <3>3. s.macro = "job heat" /\ s.heatTo \in Hots
      BY <1>2, <2>5, <3>1
    <3>4. /\ s.th = "RUNNING" /\ s.out \in {"none"} \cup Hots
          /\ (Told(s) => s.heat \in Hots \/ s.out \in Hots)
      BY <2>2, <2>5, <3>1, <3>3 DEF Hot
    <3>5. CASE t.want = s.want /\ t.out = s.out
      BY <3>1, <3>3, <3>4, <3>5 DEF Told
    <3>6. CASE ~Sendable(s) /\ t.out = s.out
      <4>1. s.out \in Hots
        BY <3>4, <3>6 DEF Sendable, Ready
      <4> QED
        BY <3>1, <3>3, <3>4, <3>6, <4>1
    <3>7. CASE t.out = s.heatTo
      BY <3>1, <3>3, <3>4, <3>7
    <3> QED
      BY <1>1, <3>5, <3>6, <3>7 DEF Ordering
  <2>6. t.out # "fan" /\ t.out \in {"none", "fan"} \cup Hots <=> t.out \in {"none"} \cup Hots
    BY HotValues
  <2> QED
    BY <2>4, <2>5, <2>6 DEF Hot
<1> QED
  BY <1>6, <1>7, <1>8, <1>9

LEMMA StartMacroWarm ==
    ASSUME NEW s, Live(s), NEW k, Warm(s, k), s.exc = "none", s.status \notin Starting, Free(s),
           HeadKind = "EXTRUDER"
    PROVE  Warm(StartMacro(s), k) /\ StartMacro(s).next = s.next
<1> DEFINE m == SendCmd(s, Cmd("macro"))
           q == [s EXCEPT !.probing = TRUE]
           b == SendCmd(q, Cmd("probe"))
<1>1. IsPlayer(s)
  BY LivePlayer
<1>2. CASE s.macro \in HeaterMacros
  <2>1. Ordering(s, StartMacro(s))
    BY <1>2, HeatStarts
  <2>2. StartMacro(s).next = s.next /\ StartMacro(s).status = s.status
    BY <2>1 DEF Ordering, SamePlan
  <2>3. CASE s.status \in Ended
    BY <2>2, <2>3, EndedWarm
  <2>4. CASE s.status \notin Ended
    <3>1. Linked(s, k) /\ Planned(s) /\ Hot(s, k)
      BY <2>4 DEF Warm
    <3>2. Warm(StartMacro(s), k)
      BY <1>2, <3>1, HeatWarm
    <3> QED
      BY <2>2, <3>2
  <2> QED
    BY <2>3, <2>4, <2>2
<1>3. CASE s.macro \notin HeaterMacros
  <2>1. Alike(s, m) /\ Alike(s, q) /\ Alike(s, s)
    BY <1>1, Sent, OpNames, AsideAlike
  <2>2. Keeps(s, q)
    BY ZenonT(120), <1>1, Booleans DEF IsPlayer, Fields, Keeps, Same
  <2> HIDE DEF m, q
  <2>3. Alike(q, b)
    BY <2>2, KeepsLeads, Sent, OpNames DEF Leads
  <2> HIDE DEF b
  <2>4. StartMacro(s) \in {s, m, b}
    BY <1>3 DEF StartMacro, m, b, q, HeaterMacros
  <2>5. Alike(s, StartMacro(s))
    BY <2>1, <2>3, <2>4, AlikeOn
  <2> QED
    BY <2>5, AlikeWarm DEF Alike, SamePlan
<1> QED
  BY <1>2, <1>3

LEMMA FeedWarm ==
    ASSUME NEW s, Live(s), NEW k, Warm(s, k)
    PROVE  Warm(Feed(s), k) /\ (Feed(s).status \in Ended \/ Feed(s).exc = s.exc)
<1> DEFINE a == Abort(s, "other")
           t(n) == [s EXCEPT !.fed = n]
<1>1. IsPlayer(s)
  BY LivePlayer
<1>2. a.status \in Ended /\ Warm(a, k)
  BY <1>1, AbortEnds, EndedWarm
<1>3. \A n : Warm(t(n), k) /\ t(n).exc = s.exc
  <2> TAKE n
  <2>1. Alike(s, t(n))
    BY <1>1, AsideAlike
  <2>2. t(n).exc = s.exc
    BY <1>1 DEF IsPlayer, Fields
  <2> HIDE DEF t
  <2> QED
    BY <2>1, <2>2, AlikeWarm
<1> DEFINE upto == IF s.next - 1 + Prefetch > Len(Job) THEN Home ELSE s.next - 1 + Prefetch
<1>4. Feed(s) = s \/ Feed(s) = a \/ Feed(s) = t(upto)
  BY DEF Feed
<1> HIDE DEF a, t, upto
<1> QED
  BY <1>2, <1>3, <1>4

\* An exception leaves no move that needs the heater.
Excused(s) == s.exc # "none" /\ Moving(s, 0) => ~Waited(s.next)

LEMMA EndedExcused ==
    ASSUME NEW s, s.status \in Ended
    PROVE  Excused(s)
BY Ends DEF Excused, Moving

\* A pause that the job asks for is refused by nobody.
LEMMA PauseExcused ==
    ASSUME NEW s, Live(s), NEW k, s.macro = "none", s.stash = "none", s.exc = "none",
           s.status \in {16, 18, 50}, NEW e
    PROVE  Excused(Pause(s, e))
<1> DEFINE d == [s EXCEPT !.error = IF @ = "none" THEN e ELSE @]
           t == [s EXCEPT !.status = IF @ \in Starting THEN 38 ELSE 50, !.error = e]
           u == IF Ready(t) THEN t ELSE PowerOff(t)
           v == [u EXCEPT !.stash = "stashing"]
           w == SendCmd(v, Cmd("C2"))
<1>1. IsPlayer(s) /\ s.status \notin Starting
  BY LivePlayer DEF Starting
<1>2. d.exc = "none"
  BY <1>1 DEF IsPlayer, Fields
<1>3. DOMAIN t = Fields /\ t.exc = "none" /\ t.macro = "none" /\ t.stash = "none" /\ t.status = 50
  BY <1>1 DEF IsPlayer, Fields
<1> HIDE DEF d, t
<1>4. DOMAIN u = Fields /\ u.exc = "none" /\ u.macro = "none" /\ u.stash = "none" /\ u.status = 50
  BY <1>3 DEF PowerOff, Fields
<1> HIDE DEF u
<1>5. DOMAIN v = Fields /\ v.stash = "stashing"
  BY <1>4 DEF Fields
<1> HIDE DEF v
<1>6. w.stash = "stashing" /\ w.status = v.status
  BY <1>5 DEF SendCmd, Raise, Fields
<1>7. v.status = 50
  BY <1>4 DEF v, Fields
<1> HIDE DEF w
<1>8. HandlePause(u) \in {u, w}
  <2>1. Giveup(u) = u
    BY <1>4 DEF Giveup
  <2>2. Stash(u) = w
    BY <1>4, <2>1 DEF Stash, Then, v, w
  <2> QED
    BY <1>4, <2>2 DEF HandlePause
<1>9. Pause(s, e) \in {d, u, HandlePause(u)}
  BY DEF Pause, d, t, u
<1>10. \A r : r.exc = "none" \/ (r.stash = "stashing" /\ r.status = 50) => Excused(r)
  BY DEF Excused, Moving
<1> QED
  BY <1>2, <1>4, <1>6, <1>7, <1>8, <1>9, <1>10

\* One more command of the job is taken that is not to wait for the heater.
LEMMA TakenWarm ==
    ASSUME NEW s, NEW t, NEW k, NEW i \in Nat, i >= 1, s.next = i, t.next = i + 1,
           s.macro = "none", t.macro = "none", Kind(i) \notin Heats, Warm(s, k), s.exc = "none",
           OnlyMoves(s.queue) => OnlyMoves(t.queue), t.status = s.status, t.stash = s.stash, SameHead(s, t),
           t.tasks = s.tasks, t.heatTo = s.heatTo, t.allsetCb = s.allsetCb, t.exc = "none"
    PROVE  Warm(t, k)
<1>1. Waited(t.next) => Waited(s.next)
  BY WaitedOn
<1>2. SUFFICES ASSUME s.status \notin Ended
               PROVE  Linked(t, k) /\ Planned(t) /\ Returning(t) /\ Hot(t, k)
  BY DEF Warm
<1>3. Linked(s, k) /\ Planned(s) /\ Returning(s) /\ Hot(s, k)
  BY <1>2 DEF Warm
<1>4. Linked(t, k)
  BY ZenonT(60), <1>3 DEF Linked, SameHead
<1>5. Planned(t)
  <2>1. "none" # "job heat" /\ "none" # "heat" /\ "none" \notin MacroKinds
    BY DEF MacroKinds
  <2> QED
    BY <1>1, <1>3, <2>1 DEF Planned, SameHead
<1>6. Returning(t)
  BY <1>3 DEF Returning, Told, SameHead
<1>7. Hot(t, k)
  BY <1>1, <1>3 DEF Hot, Moving, Told, SameHead
<1> QED
  BY <1>4, <1>5, <1>6, <1>7

\* The heater is told, and the job goes on.
LEMMA HeatTakenWarm ==
    ASSUME NEW s, NEW t, NEW k, NEW i \in Nat, i >= 1, s.next = i, t.next = i + 1,
           s.macro = "none", t.macro = "none", Kind(i) = "heat", Warm(s, k), s.exc = "none",
           Free(s), Sendable(s), s.status \notin Starting \cup Ended,
           t.status = s.status, t.stash = s.stash, t.tasks = s.tasks, t.queue = s.queue,
           t.th = s.th, t.hq = s.hq, t.updating = s.updating, t.rt = s.rt, t.errno = s.errno,
           t.power = s.power, t.v24 = s.v24, t.heat = s.heat, t.temp = s.temp,
           t.wasReset = s.wasReset, t.exc \in {"none", "system"}
    PROVE  Warm(t, k) /\ Excused(t)
<1>1. ~Waited(t.next)
  <2>1. Kind(i) \in Heats /\ Kind(i) # "wait"
    BY DEF Heats
  <2> QED
    BY <2>1, WaitedOn
<1>2. Linked(s, k) /\ Planned(s) /\ Hot(s, k)
  BY DEF Warm
<1>3. s.th = "RUNNING"
  BY DEF Sendable, Ready
<1>4. Linked(t, k)
  BY ZenonT(60), <1>2, <1>3 DEF Linked
<1>5. Planned(t)
  <2>1. "none" # "job heat" /\ "none" # "heat" /\ "none" \notin MacroKinds
    BY DEF MacroKinds
  <2> QED
    BY <1>1, <1>2, <2>1 DEF Planned
<1>6. Returning(t)
  BY DEF Returning, Free
<1>7. Hot(t, k)
  BY <1>1, <1>2, <1>3 DEF Hot, Moving
<1> QED
  BY <1>1, <1>4, <1>5, <1>6, <1>7 DEF Warm, Excused

\* The fan is told, and the head has no other command out.
LEMMA FanWarm ==
    ASSUME NEW s, IsPlayer(s), NEW k, Warm(s, k), s.exc = "none", s.macro = "none", Free(s),
           Sendable(s), s.status \notin Starting
    PROVE  Warm(ToHead(s, "fan"), k) /\ ToHead(s, "fan").exc = "none"
<1> DEFINE t == ToHead(s, "fan")
<1>1. t = [s EXCEPT !.out = "fan"]
  BY DEF ToHead
<1> HIDE DEF t
<1>2. \A f \in Fields \ {"out"} : t[f] = s[f]
  BY <1>1 DEF IsPlayer, Fields
<1>3. t.out = "fan"
  BY <1>1 DEF IsPlayer, Fields
<1>4. s.th = "RUNNING" /\ s.out = "none"
  BY DEF Sendable, Ready
<1>5. /\ t.status = s.status /\ t.stash = s.stash /\ SamePlan(s, t) /\ t.queue = s.queue
      /\ t.fin = s.fin /\ t.th = s.th /\ t.hq = s.hq /\ t.updating = s.updating /\ t.rt = s.rt
      /\ t.errno = s.errno /\ t.power = s.power /\ t.v24 = s.v24 /\ t.heat = s.heat
      /\ t.temp = s.temp /\ t.wasReset = s.wasReset /\ t.want = s.want /\ t.exc = s.exc
  BY <1>2 DEF Fields, SamePlan
<1>6. SUFFICES ASSUME s.status \notin Ended
               PROVE  Linked(t, k) /\ Planned(t) /\ Returning(t) /\ Hot(t, k)
  BY <1>5 DEF Warm, t
<1>7. Linked(s, k) /\ Planned(s) /\ Hot(s, k)
  BY <1>6 DEF Warm
<1>8. Linked(t, k)
  BY ZenonT(60), <1>4, <1>5, <1>7 DEF Linked
<1>9. Planned(t)
  BY <1>5, <1>7 DEF Planned, SamePlan
<1>10. Returning(t)
  <2>1. t.stash = "none"
    BY <1>5, <1>6 DEF Free
  <2> QED
    BY <2>1 DEF Returning
<1>11. Hot(t, k)
  <2>1. t.macro = "none"
    BY <1>5 DEF SamePlan
  <2> QED
    BY <1>3, <1>4, <1>5, <1>7, <2>1, HotValues DEF Hot, Moving, Told, SamePlan
<1> QED
  BY <1>8, <1>9, <1>10, <1>11

LEMMA NoneComing ==
    ASSUME NEW f \in Nat
    PROVE  NoJob(<<>>, f) /\ OnlyMoves(<<>>)
<1>1. Len(<<>>) = 0
  OBVIOUS
<1>2. \A a \in Coming(<<>>, f) : FALSE
  BY <1>1 DEF Coming
<1>3. OnlyMoves(<<>>)
  BY <1>1 DEF OnlyMoves
<1> QED
  BY <1>2, <1>3 DEF NoJob

\* The heater is told, and the job waits for it.
LEMMA WaitWarm ==
    ASSUME NEW s, NEW w, Live(w), NEW k, Warm(s, k), s.exc = "none", Free(s), s.macro = "none",
           Sendable(s), s.queue = <<>>, s.status \notin Starting \cup Ended,
           w.status = s.status, w.stash = s.stash, SameHead(s, w), w.tasks = s.tasks,
           w.exc = "none", w.queue = s.queue, w.macro = "job heat",
           NEW i \in Nat, i >= 1, w.next = i + 1, Kind(i) = "wait", w.heatTo = Target(i)
    PROVE  Warm(StartMacro(w), k) /\ Excused(StartMacro(w))
<1> DEFINE t == StartMacro(w)
<1>1. Ordering(w, t)
  BY HeatStarts DEF HeaterMacros
<1>2. Usable(w) /\ Len(w.queue) < BufSize
  <2>1. w.mb \in {"ready", "error"}
    BY LivePlayer, MbValues DEF Live, IsPlayer
  <2> QED
    BY <2>1, EmptyRoom DEF Usable
<1>3. Sendable(w)
  BY DEF Sendable, Ready, SameHead
<1>4. \/ t.want = WantFor(w.heatTo) /\ t.out = w.heatTo /\ t.exc = "none"
      \/ w.heatTo = "excess" /\ t.exc = "system"
  BY <1>1, <1>2, <1>3 DEF Ordering
<1>14. t.next = i + 1
  BY <1>1 DEF Ordering, SamePlan
<1>15. Waited(t.next) => t.want \in Hots /\ t.out \in Hots /\ t.exc = "none"
  <2>1. Waited(t.next) => w.heatTo \in Hots
    BY <1>14, WaitedOn DEF Heats
  <2> QED
    BY <1>4, <2>1, HotValues DEF WantFor
<1>5. NoJob(t.queue, t.fin) /\ OnlyMoves(t.queue)
  <2>1. NoJob(w.queue, w.fin) /\ OnlyMoves(w.queue)
    <3>1. w.fin \in Nat /\ w.queue \in CommandSeqs
      BY LivePlayer DEF IsPlayer
    <3> QED
      BY <3>1, NoneComing
  <2> QED
    BY <1>1, <2>1 DEF Ordering
<1> HIDE DEF t
<1>6. Linked(s, k) /\ Planned(s) /\ Hot(s, k)
  BY DEF Warm
<1>7. /\ t.th = s.th /\ t.hq = s.hq /\ t.updating = s.updating /\ t.rt = s.rt
      /\ t.errno = s.errno /\ t.power = s.power /\ t.v24 = s.v24 /\ t.heat = s.heat
      /\ t.temp = s.temp /\ t.wasReset = s.wasReset /\ t.status = s.status /\ t.stash = s.stash
  BY <1>1 DEF Ordering, SameHead
<1>8. t.macro = "job heat" /\ t.heatTo = Target(i) /\ t.tasks = s.tasks
  BY <1>1 DEF Ordering, SamePlan
<1>9. s.th = "RUNNING" /\ s.out = "none"
  BY DEF Sendable, Ready
<1>10. Linked(t, k)
  BY ZenonT(60), <1>4, <1>6, <1>7, <1>9 DEF Linked
<1>11. Planned(t)
  <2>1. "none" \notin MacroKinds /\ "job heat" \notin MacroKinds /\ "job heat" # "heat"
    BY DEF MacroKinds
  <2>2. t.next > 1 /\ t.next - 1 = i
    BY <1>14, Before
  <2>3. t.heatTo = Target(t.next - 1) /\ Kind(t.next - 1) = "wait"
    BY <1>8, <2>2
  <2>4. s.tasks = <<>>
    BY <1>6, <2>1 DEF Planned
  <2> QED
    BY <1>15, <1>5, <1>8, <2>1, <2>2, <2>3, <2>4, HotValues DEF Planned
<1>12. Returning(t)
  BY <1>7 DEF Returning, Free
<1>13. Hot(t, k)
  <2>1. Waited(t.next) => t.out \in {"none", "fan"} \cup Hots /\ t.out # "fan"
    BY <1>15, HotValues
  <2> QED
    BY <1>15, <1>6, <1>7, <1>8, <1>9, <2>1 DEF Hot, Moving
<1> QED
  BY <1>4, <1>10, <1>11, <1>12, <1>13, <1>15 DEF Warm, Excused, t

LEMMA DrainOneWarm ==
    ASSUME NEW s, NEW g, NEW k, Live(s), Fit(s, g), Free(s), Warm(s, k), s.macro = "none",
           s.exc = "none", s.next <= s.fed, HeadKind = "EXTRUDER"
    PROVE  Warm(DrainOne(s).s, k) /\ Excused(DrainOne(s).s)
<1> DEFINE i == s.next
           t == [s EXCEPT !.next = i + 1]
           h == [t EXCEPT !.did = Append(@, i)]
           w == [h EXCEPT !.macro = "job heat", !.heatTo = Target(i)]
           headFree == BufferedCmdSize(s) = 0 /\ Sendable(s)
<1>1. CASE s.status \in Ended
  <2>1. DrainOne(s).s.status \in Ended
    BY <1>1, DrainOneLeads DEF Leads
  <2> QED
    BY <2>1, EndedWarm, EndedExcused
<1>2. CASE s.status \notin Ended
  <2>1. /\ IsPlayer(s) /\ s.next \in Nat /\ s.next \in Indices /\ s.next >= 1
        /\ s.status \notin Starting
    <3>1. IsPlayer(s) /\ s.next \in Nat /\ s.fed \in Nat /\ Home \in Nat
      BY LivePlayer, ScenarioType DEF IsPlayer, Live, Sound
    <3> QED
      BY <3>1 DEF Live, Sound, Reading, Indices
  <2>2. s.stash = "none" /\ s.status \in {16, 18, 50}
    <3>1. s.stash = "none" /\ s.status # 48
      BY <1>2, <2>1, Freed DEF Free
    <3> QED
      BY <1>2, <2>1, <3>1, StatusValues DEF IsPlayer, Starting, Statuses, Running
  <2>3. /\ IsPlayer(t) /\ Calm(s, t) /\ Fit(t, g) /\ t.next = i + 1 /\ t.macro = "none"
        /\ SameHead(s, t) /\ t.tasks = s.tasks /\ t.heatTo = s.heatTo /\ t.exc = "none"
        /\ t.status = s.status /\ t.stash = s.stash /\ t.allsetCb = s.allsetCb
        /\ t.queue = s.queue /\ t.mb = s.mb
    <3>1. IsPlayer(t) /\ Calm(s, t)
      BY <2>1 DEF IsPlayer, Fields, Calm
    <3>2. \A f \in Fields \ {"next"} : t[f] = s[f]
      BY <2>1 DEF IsPlayer, Fields
    <3>3. t.next = i + 1
      BY <2>1 DEF IsPlayer, Fields
    <3> HIDE DEF t
    <3> QED
      BY <3>1, <3>2, <3>3, CalmFit DEF Calm, SameHead, Fields
  <2>4. /\ \A f \in Fields \ {"did"} : h[f] = t[f]
        /\ DOMAIN h = Fields /\ h = [s EXCEPT !.next = s.next + 1, !.did = Append(@, s.next)]
    BY <2>1 DEF IsPlayer, Fields
  <2> HIDE DEF t, h
  <2>5. /\ \A f \in Fields \ {"macro", "heatTo"} : w[f] = h[f]
        /\ w.macro = "job heat" /\ w.heatTo = Target(i) /\ DOMAIN w = Fields
    BY <2>4 DEF Fields
  <2> HIDE DEF w
  <2>6. /\ SameHead(s, h) /\ h.status = s.status /\ h.stash = s.stash /\ h.next = i + 1
        /\ h.macro = "none" /\ h.tasks = s.tasks /\ h.heatTo = s.heatTo /\ h.exc = "none"
        /\ h.allsetCb = s.allsetCb /\ h.queue = s.queue
    BY <2>3, <2>4 DEF SameHead, Fields
  <2>7. /\ SameHead(s, w) /\ w.status = s.status /\ w.stash = s.stash
        /\ w.tasks = s.tasks /\ w.exc = "none" /\ w.queue = s.queue /\ w.next = i + 1
    <3>1. SameHead(h, w)
      BY ZenonT(60), <2>5 DEF SameHead, Fields
    <3>2. SameHead(s, w)
      BY <2>6, <3>1 DEF SameHead
    <3>3. /\ w.status = h.status /\ w.stash = h.stash /\ w.tasks = h.tasks
          /\ w.exc = h.exc /\ w.queue = h.queue /\ w.next = h.next
      BY ZenonT(60), <2>5 DEF Fields
    <3> QED
      BY <2>6, <3>2, <3>3
  <2>8. Kind(i) \notin Heats => Warm(t, k) /\ Warm(h, k)
    BY <2>1, <2>3, <2>6, TakenWarm
  <2>9. CASE Kind(i) = "move" /\ BufferedCmdSize(s) < BufSize
    <3> DEFINE u == SendCmd(t, JobCmd(i))
    <3>1. t.mb \in {"ready", "error"}
      BY <1>2, <2>1, <2>3, MbValues DEF Live, IsPlayer
    <3>2. u = [t EXCEPT !.queue = Append(@, JobCmd(i))]
      BY <2>3, <2>9, <3>1 DEF SendCmd, Usable, BufferedCmdSize
    <3> HIDE DEF u
    <3>3. \A f \in Fields \ {"queue"} : u[f] = t[f]
      BY <2>3, <3>2 DEF IsPlayer, Fields
    <3>4. /\ SameHead(s, u) /\ u.status = s.status /\ u.stash = s.stash /\ u.next = i + 1
          /\ u.macro = "none" /\ u.tasks = s.tasks /\ u.heatTo = s.heatTo /\ u.exc = "none"
          /\ u.allsetCb = s.allsetCb
      BY <2>3, <3>3 DEF SameHead, Fields
    <3>5. Kind(i) \notin Heats
      BY <2>9 DEF Heats
    <3>8. OnlyMoves(s.queue) => OnlyMoves(u.queue)
      <4>1. u.queue = Append(s.queue, JobCmd(i))
        BY <2>3, <3>2 DEF IsPlayer, Fields
      <4>2. JobCmd(i) \in Commands /\ s.queue \in CommandSeqs /\ JobCmd(i).i = i
        BY <2>1 DEF JobCmd, Commands, Indices, IsPlayer
      <4> QED
        BY <2>9, <4>1, <4>2, OneMoreMoves
    <3>6. Warm(u, k) /\ Excused(u)
      BY <2>1, <3>4, <3>5, <3>8, TakenWarm DEF Excused
    <3>7. DrainOne(s).s = u
      BY <2>9 DEF DrainOne, t, u
    <3> QED
      BY <3>6, <3>7
  <2>10. ASSUME Kind(i) \in {"fan"} \cup Heats, headFree
         PROVE  s.queue = <<>> /\ Sendable(s) /\ Live(h) /\ (Kind(i) \in Heats => Live(w))
    <3>1. s.queue = <<>> /\ Sendable(s)
      BY <2>1, <2>10, EmptyBuffer
    <3>2. Live(h)
      BY <2>1, <2>4, <2>10, <3>1, HeadTaken DEF Carried, Leads
    <3>3. Kind(i) \in Heats => Keeps(h, w)
      <4> SUFFICES ASSUME Kind(i) \in Heats PROVE Keeps(h, w)
        OBVIOUS
      <4>1. IsPlayer(h)
        BY <3>2, LivePlayer
      <4>2. Target(i) \in Targets
        BY <2>1, TargetType DEF Indices, Live, Sound
      <4> QED
        BY ZenonT(120), <4>1, <4>2, MacroValues DEF w, IsPlayer, Fields, Keeps, Same
    <3> QED
      BY <3>1, <3>2, <3>3, KeepsLeads DEF Leads
  <2>11. CASE Kind(i) = "fan" /\ headFree
    <3>1. Live(h) /\ Sendable(s) /\ IsPlayer(h)
      BY <2>10, <2>11, LivePlayer
    <3>2. Sendable(h) /\ Free(h) /\ Warm(h, k) /\ h.status \notin Starting
      BY <2>1, <2>2, <2>6, <2>8, <2>11, <3>1 DEF Sendable, Ready, SameHead, Free, Heats
    <3>3. Warm(ToHead(h, "fan"), k) /\ Excused(ToHead(h, "fan"))
      BY <2>6, <3>1, <3>2, FanWarm DEF Excused
    <3>4. DrainOne(s).s = ToHead(h, "fan")
      BY <2>11 DEF DrainOne, t, h
    <3> QED
      BY <3>3, <3>4
  <2>12. CASE Kind(i) = "wait" /\ headFree
    <3>1. Live(w) /\ Sendable(s) /\ s.queue = <<>>
      BY <2>10, <2>12 DEF Heats
    <3>2. Warm(StartMacro(w), k) /\ Excused(StartMacro(w))
      BY <1>2, <2>1, <2>5, <2>7, <2>12, <3>1, WaitWarm
    <3>3. DrainOne(s).s = StartMacro(w)
      BY <2>12 DEF DrainOne, t, h, w
    <3> QED
      BY <3>2, <3>3
  <2>13. CASE Kind(i) = "pause"
    <3>1. Live(t)
      BY <2>1, <2>13, Skipped DEF Carried, Heats, Leads, t
    <3>2. Core(t, k)
      <4>1. Kind(i) \notin Heats
        BY <2>13 DEF Heats
      <4> QED
        BY <2>8, <4>1, WarmCore
    <3>3. Core(Pause(t, "other"), k) /\ Still(Pause(t, "other"))
      BY <2>3, <3>1, <3>2, PauseCore, ErrorValues
    <3>4. Warm(Pause(t, "other"), k)
      BY <3>3, StillWarm
    <3>5. Excused(Pause(t, "other"))
      BY <2>2, <2>3, <3>1, PauseExcused
    <3>6. DrainOne(s).s = Pause(t, "other")
      BY <2>13 DEF DrainOne, t
    <3> QED
      BY <3>4, <3>5, <3>6
  <2>14. CASE Kind(i) = "abort"
    <3>1. Abort(t, "other").status \in Ended
      BY <2>3, AbortEnds
    <3>2. DrainOne(s).s = Abort(t, "other")
      BY <2>14 DEF DrainOne, t
    <3> QED
      BY <3>1, <3>2, EndedWarm, EndedExcused
  <2>15. CASE DrainOne(s).s = s
    BY <2>15 DEF Excused
  <2>17. CASE Kind(i) = "heat" /\ headFree
    <3> DEFINE u == SetHeater(h, Target(i))
               x == [h EXCEPT !.want = WantFor(Target(i))]
    <3>1. Sendable(s) /\ s.queue = <<>>
      BY <2>10, <2>17 DEF Heats
    <3>2. DrainOne(s).s = u
      BY <2>17 DEF DrainOne, t, h
    <3>3. \A f \in Fields \ {"want"} : x[f] = h[f]
      BY <2>4 DEF Fields
    <3>4. DOMAIN x = Fields
      BY <2>4
    <3>5. u = IF Target(i) = "excess" THEN Raise(h, "system") ELSE ToHead(x, Target(i))
      BY DEF SetHeater, WantFor
    <3> HIDE DEF x, u
    <3>6. Sendable(x)
      BY <2>6, <3>1, <3>3 DEF Sendable, Ready, SameHead, Fields
    <3>7. u = [h EXCEPT !.exc = "system"] \/ u = [x EXCEPT !.out = Target(i)]
      BY <3>5, <3>6 DEF ToHead, Raise
    <3>8. /\ \A f \in Fields \ {"want", "out", "exc"} : u[f] = h[f]
          /\ u.exc \in {"none", "system"}
      <4>1. CASE u = [h EXCEPT !.exc = "system"]
        BY <2>4, <4>1 DEF Fields
      <4>2. CASE u = [x EXCEPT !.out = Target(i)]
        BY <2>6, <3>3, <3>4, <4>2 DEF Fields
      <4> QED
        BY <3>7, <4>1, <4>2
    <3>9. /\ u.status = s.status /\ u.stash = s.stash /\ u.tasks = s.tasks
          /\ u.queue = s.queue /\ u.th = s.th /\ u.hq = s.hq /\ u.updating = s.updating
          /\ u.rt = s.rt /\ u.errno = s.errno /\ u.power = s.power /\ u.v24 = s.v24
          /\ u.heat = s.heat /\ u.temp = s.temp /\ u.wasReset = s.wasReset
          /\ u.macro = "none" /\ u.next = i + 1
      BY <2>6, <3>8 DEF SameHead, Fields
    <3>10. s.status \notin Starting \cup Ended
      BY <1>2, <2>1
    <3>11. Warm(u, k) /\ Excused(u)
      BY <2>1, <2>17, <3>1, <3>8, <3>9, <3>10, HeatTakenWarm
    <3> QED
      BY <3>2, <3>11
  <2>16. \/ Kind(i) = "move" /\ BufferedCmdSize(s) < BufSize
         \/ Kind(i) = "fan" /\ headFree
         \/ Kind(i) = "heat" /\ headFree
         \/ Kind(i) = "wait" /\ headFree
         \/ Kind(i) = "pause"
         \/ Kind(i) = "abort"
         \/ DrainOne(s).s = s
    BY DEF DrainOne
  <2> QED
    BY <2>9, <2>11, <2>12, <2>13, <2>14, <2>15, <2>16, <2>17
<1> QED
  BY <1>1, <1>2

LEMMA DrainWarm ==
    ASSUME NEW s, NEW g, NEW k, Live(s), Fit(s, g), Free(s), Warm(s, k), s.macro = "none",
           s.exc = "none", HeadKind = "EXTRUDER"
    PROVE  Warm(Drain(s), k) /\ Excused(Drain(s))
<1> DEFINE N == CmdQueueLen(s)
<1>1. N \in Nat
  BY LivePlayer DEF IsPlayer, Live, Sound, Reading, CmdQueueLen
<1>2. PICK f : Turns(s, f, N) /\ Drain(s) = f[N].s
  BY <1>1, DrainTurns
<1> HIDE DEF N
<1> DEFINE Good(a) == /\ Live(a.s) /\ Fit(a.s, g) /\ Warm(a.s, k) /\ Excused(a.s)
                      /\ a.go => Free(a.s) /\ a.s.macro = "none"
           B == {n \in Nat : n <= N => Good(f[n])}
<1>3. 0 \in B
  <2>1. f[0] = [s |-> s, go |-> TRUE]
    BY <1>2 DEF Turns
  <2>2. Excused(s)
    BY DEF Excused
  <2> QED
    BY <2>1, <2>2
<1>4. ASSUME NEW n \in Nat, n \in B
      PROVE  n + 1 \in B
  <2>1. SUFFICES ASSUME n + 1 <= N PROVE Good(f[n + 1])
    OBVIOUS
  <2> DEFINE a == f[n]
  <2>2. Good(a)
    BY <1>1, <1>4, <2>1
  <2>3. f[n + 1] = Turn(a)
    <3>1. n + 1 \in 1..N /\ (n + 1) - 1 = n
      BY <1>1, <2>1
    <3> QED
      BY <1>2, <3>1 DEF Turns
  <2> HIDE DEF a
  <2>4. ASSUME CmdQueueLen(a.s) > 0, a.s.exc = "none", a.go
        PROVE  Good(DrainOne(a.s))
    <3>1. a.s.next <= a.s.fed
      BY <2>2, <2>4, LivePlayer DEF IsPlayer, CmdQueueLen
    <3> QED
      BY <2>2, <2>4, <3>1, DrainOneFit, DrainOneLeads, DrainOneWarm DEF Leads
  <2> HIDE DEF Good
  <2> QED
    BY <2>2, <2>3, <2>4 DEF Turn
<1>5. Nat \subseteq B
  <2> HIDE DEF B
  <2> QED
    BY <1>3, <1>4, Induct
<1> QED
  BY <1>1, <1>2, <1>5

LEMMA FireWarm ==
    ASSUME NEW s, NEW g, NEW k, Live(s), Fit(s, g), Free(s), Warm(s, k), s.exc = "none",
           HeadKind = "EXTRUDER"
    PROVE  Warm(Fire(s), k) /\ Excused(Fire(s))
<1> DEFINE t == Feed(s)
           d == Drain(t)
           o == OnCompleted(s)
<1>1. s.macro = "none" => Warm(Drain(s), k) /\ Excused(Drain(s))
  BY DrainWarm
<1>2. s.status = 16 => Live(t) /\ Fit(t, g) /\ Warm(t, k)
                       /\ (t.status = 128 \/ (Free(t) /\ t.macro = s.macro))
                       /\ (t.status \in Ended \/ t.exc = "none")
  BY FeedLeads, FeedFit, FeedWarm DEF Leads
<1>3. s.status = 16 => t.status \in Ended \/ Excused(t)
  BY <1>2 DEF Excused
<1> HIDE DEF t
<1>4. ASSUME s.status = 16, s.macro = "none", t.status # 128
      PROVE  Warm(d, k) /\ Excused(d)
  <2>1. CASE t.status \in Ended
    <3>1. d.status \in Ended
      BY <1>2, <1>4, <2>1, DrainLeads DEF Leads
    <3> QED
      BY <3>1, EndedWarm, EndedExcused
  <2>2. CASE t.status \notin Ended
    BY <1>2, <1>4, <2>2, DrainWarm
  <2> QED
    BY <2>1, <2>2
<1>5. Warm(o, k) /\ Excused(o)
  <2>1. IsPlayer(Terminate(s))
    BY LivePlayer, TerminateDoes
  <2>2. o.status \in Ended
    BY <2>1, Ends DEF OnCompleted, IsPlayer, Fields
  <2> HIDE DEF o
  <2> QED
    BY <2>2, EndedWarm, EndedExcused
<1>6. Excused(s)
  BY DEF Excused
<1>7. \/ Fire(s) = s
      \/ s.macro = "none" /\ Fire(s) = Drain(s)
      \/ s.status = 16 /\ Fire(s) = o
      \/ s.status = 16 /\ Fire(s) = t
      \/ s.status = 16 /\ s.macro = "none" /\ t.status # 128 /\ Fire(s) = d
  BY DEF Fire, t
<1> HIDE DEF o, d
<1>8. CASE Fire(s) = s
  BY <1>6, <1>8
<1>9. CASE s.macro = "none" /\ Fire(s) = Drain(s)
  BY <1>1, <1>9
<1>10. CASE s.status = 16 /\ Fire(s) = o
  BY <1>5, <1>10
<1>11. CASE s.status = 16 /\ Fire(s) = t
  BY <1>2, <1>3, <1>11, EndedExcused
<1>12. CASE s.status = 16 /\ s.macro = "none" /\ t.status # 128 /\ Fire(s) = d
  BY <1>4, <1>12
<1> QED
  BY <1>7, <1>8, <1>9, <1>10, <1>11, <1>12

\* A macro ends, and the job goes on with a heater as it should be.
LEMMA MacroEnds ==
    ASSUME NEW s, NEW g, NEW k, Live(s), Fit(s, g), Free(s), s.exc = "none",
           s.allsetCb \notin {"task", "job"} \/ s.status \in Ended, HeadKind = "EXTRUDER",
           s.status \notin Ended =>
               /\ Linked(s, k) /\ Hot(s, k) /\ s.tasks = <<>> /\ OnlyMoves(s.queue)
               /\ Waited(s.next) => s.want # "low"
               /\ "HEATER_OFF" \notin scenario.requests => (Waited(s.next) => s.want \in Hots)
               /\ Waited(s.next) => Allset(s) /\ ~s.updating
    PROVE  Warm(ClearMacro(s), k) /\ Excused(ClearMacro(s))
<1> DEFINE t == [s EXCEPT !.macro = "none"]
<1>1. Keeps(s, t)
  <2>1. IsPlayer(s)
    BY LivePlayer
  <2> QED
    BY ZenonT(120), <2>1, MacroValues DEF IsPlayer, Fields, Keeps, Same
<1>2. /\ t.status = s.status /\ t.stash = s.stash /\ t.parked = s.parked
      /\ t.queue = s.queue /\ t.fin = s.fin /\ t.mb = s.mb /\ t.ctrl = s.ctrl
      /\ t.allsetCb = s.allsetCb /\ t.macro = "none" /\ t.exc = s.exc
      /\ SameHead(s, t) /\ t.next = s.next /\ t.tasks = s.tasks /\ t.heatTo = s.heatTo
  BY LivePlayer DEF IsPlayer, Fields, SameHead
<1> HIDE DEF t
<1>3. ~(t.macro = "probe" /\ t.probing)
  BY <1>2
<1>4. Fit(t, g)
  BY <1>2, <1>3, MacroFit
<1>5. Live(t) /\ Free(t)
  BY <1>1, <1>2, KeepsLeads DEF Leads, Free
<1>6. Warm(t, k)
  <2>1. SUFFICES ASSUME s.status \notin Ended
                 PROVE  Linked(t, k) /\ Planned(t) /\ Returning(t) /\ Hot(t, k)
    BY <1>2 DEF Warm
  <2>2. Linked(t, k)
    BY ZenonT(60), <1>2, <2>1 DEF Linked, SameHead
  <2>3. Planned(t)
    <3>1. "none" # "job heat" /\ "none" # "heat" /\ "none" \notin MacroKinds
      BY DEF MacroKinds
    <3> QED
      BY <1>2, <2>1, <3>1 DEF Planned, SameHead
  <2>4. Returning(t)
    <3>1. t.stash = "none"
      BY <1>2, <2>1 DEF Free
    <3> QED
      BY <3>1 DEF Returning
  <2>5. Hot(t, k)
    <3>1. SUFFICES ASSUME Moving(t, k) PROVE Hot(t, k)
      BY DEF Hot
    <3>2. Moving(s, k)
      BY <1>2, <3>1 DEF Moving
    <3>3. t.hq = <<>> /\ t.th # "BOOTING" /\ (t.th = "RUNNING" => t.v24)
      BY <1>2, <2>1, <3>2 DEF Hot, SameHead
    <3>4. ASSUME Waited(t.next)
          PROVE  /\ t.th = "RUNNING" /\ t.out \in {"none", "fan"} \cup Hots
                 /\ Told(t) => t.heat \in Hots \/ t.out \in Hots
                 /\ Told(t) => t.temp # "cold" /\ t.rt \in Hots /\ ~t.updating
      <4>1. Waited(s.next)
        BY <1>2, <3>4
      <4>2. /\ s.th = "RUNNING" /\ s.out \in {"none", "fan"} \cup Hots
            /\ Told(s) => s.heat \in Hots \/ s.out \in Hots
        BY <2>1, <3>2, <4>1 DEF Hot
      <4>3. Told(s) => s.rt \in Hots /\ ~s.updating
        BY <2>1, <4>1 DEF Allset, Told
      <4>4. s.rt \in Hots => s.temp # "cold"
        BY <2>1 DEF Linked
      <4> QED
        BY <1>2, <4>2, <4>3, <4>4 DEF Told, SameHead
    <3> QED
      BY <1>2, <3>3, <3>4 DEF Hot
  <2> QED
    BY <2>2, <2>3, <2>4, <2>5
<1>7. Warm(Fire(t), k) /\ Excused(Fire(t))
  BY <1>2, <1>4, <1>5, <1>6, FireWarm
<1> QED
  BY <1>7 DEF ClearMacro, t

\* The next task, before any command of the job.
LEMMA ExecTaskWarm ==
    ASSUME NEW s, NEW g, NEW k, Live(s), Fit(s, g), Free(s), s.exc = "none",
           s.status \notin Starting, s.next = 1,
           s.allsetCb \notin {"task", "job"} \/ s.status \in Ended, HeadKind = "EXTRUDER",
           s.status \notin Ended => Linked(s, k) /\ Hot(s, k) /\ OnlyMoves(s.queue)
    PROVE  Warm(ExecTask(s), k) /\ Excused(ExecTask(s))
<1> DEFINE u == [s EXCEPT !.macro = Head(s.tasks), !.tasks = Tail(@),
                          !.heatTo = "hot", !.probing = FALSE, !.probe = "none",
                          !.round = 0]
<1>1. CASE s.tasks = <<>>
  <2>1. ~Waited(s.next)
    BY NotYet
  <2>2. Warm(ClearMacro(s), k) /\ Excused(ClearMacro(s))
    BY <1>1, <2>1, MacroEnds
  <2> QED
    BY <1>1, <2>2 DEF ExecTask, ClearMacro
<1>2. CASE s.tasks # <<>>
  <2>1. /\ IsPlayer(s) /\ Head(s.tasks) \in Macros /\ Tail(s.tasks) \in TaskSeqs
        /\ Head(s.tasks) \in MacroKinds
    <3>1. s.tasks \in Seq(MacroKinds)
      BY LivePlayer DEF IsPlayer, TaskSeqs
    <3>2. Head(s.tasks) \in MacroKinds
      BY <1>2, <3>1
    <3> QED
      BY <1>2, <3>2, TaskSeqsHave, LivePlayer DEF IsPlayer
  <2>2. Keeps(s, u)
    BY ZenonT(120), <2>1, TargetValues, Booleans, ProbeValues, RoundValues
    DEF IsPlayer, Fields, Keeps, Same
  <2>3. /\ u.status = s.status /\ u.stash = s.stash /\ u.parked = s.parked
        /\ u.queue = s.queue /\ u.fin = s.fin /\ u.mb = s.mb /\ u.ctrl = s.ctrl
        /\ u.allsetCb = s.allsetCb /\ ~u.probing
    BY ZenonT(120), <2>1 DEF IsPlayer, Fields
  <2>4. /\ SameHead(s, u) /\ u.exc = s.exc /\ u.next = s.next /\ u.heatTo = "hot"
        /\ u.macro \in MacroKinds
    BY <2>1 DEF IsPlayer, Fields, SameHead
  <2>5. ExecTask(s) = StartMacro(u)
    BY <1>2 DEF ExecTask
  <2> HIDE DEF u
  <2>6. Live(u) /\ Free(u)
    BY <2>2, <2>3, KeepsLeads DEF Leads, Free
  <2>7. Warm(u, k)
    <3>1. SUFFICES ASSUME s.status \notin Ended
                   PROVE  Linked(u, k) /\ Planned(u) /\ Returning(u) /\ Hot(u, k)
      BY <2>3 DEF Warm
    <3>2. Linked(u, k)
      BY ZenonT(60), <2>3, <2>4, <3>1 DEF Linked, SameHead
    <3>3. u.next = 1 /\ ~Waited(u.next)
      BY <2>4, NotYet
    <3>4. Planned(u)
      <4>1. "job heat" \notin MacroKinds
        BY DEF MacroKinds
      <4> QED
        BY <2>3, <2>4, <3>1, <3>3, <4>1 DEF Planned
    <3>5. Returning(u)
      <4>1. u.stash = "none"
        BY <2>3, <3>1 DEF Free
      <4> QED
        BY <4>1 DEF Returning
    <3>6. Hot(u, k)
      BY <2>3, <2>4, <3>1, <3>3 DEF Hot, Moving, SameHead
    <3> QED
      BY <3>2, <3>4, <3>5, <3>6
  <2>8. u.exc = "none" /\ u.status \notin Starting /\ ~Waited(u.next)
    BY <2>3, <2>4, NotYet
  <2>9. Warm(StartMacro(u), k) /\ StartMacro(u).next = u.next
    BY <2>6, <2>7, <2>8, StartMacroWarm
  <2> QED
    BY <2>5, <2>8, <2>9 DEF Excused
<1> QED
  BY <1>1, <1>2

\* The start goes on once the head is there.
LEMMA StartedWarm ==
    ASSUME NEW s, NEW g, NEW k, Live(s), Fit(s, g), Warm(s, k), s.exc = "none", s.status = 4,
           s.th # "BOOTING", s.th = "RUNNING" => s.v24, HeadKind = "EXTRUDER"
    PROVE  Warm(Started(s), k) /\ Excused(Started(s))
<1> DEFINE t == [s EXCEPT !.status = 16, !.tasks = InitMacros]
<1>1. IsPlayer(s) /\ InitMacros \in TaskSeqs /\ s.status \in Starting /\ s.status \notin Ended
  BY LivePlayer, ScenarioType, Ends DEF Live, Sound, Starting
<1>2. /\ IsPlayer(t) /\ Same(s, [t EXCEPT !.status = s.status]) /\ t.status = 16
      /\ Beside(s, t)
  BY <1>1, StatusValues DEF IsPlayer, Fields, Same, Beside
<1>3. /\ SameHead(s, t) /\ t.exc = s.exc /\ t.next = s.next /\ t.heatTo = s.heatTo
      /\ t.stash = s.stash /\ t.allsetCb = s.allsetCb /\ t.queue = s.queue
  BY <1>1 DEF IsPlayer, Fields, SameHead
<1> HIDE DEF t
<1>4. /\ t.status \notin Ended /\ t.status # 64
      /\ t.status \notin Starting /\ s.status # 50 /\ t.status # 48
  BY <1>2, Ends DEF Starting
<1>5. s.stash = "none"
  BY <1>1, Freed
<1>6. Live(t)
  <2>1. Leads(s, t)
    BY <1>1, <1>2, <1>4, NewStatus
  <2> QED
    BY <2>1 DEF Leads
<1>7. s.stash # "stashing" /\ g # "STASH"
  BY <1>1, <1>4, NoStash
<1>8. Fit(t, g)
  BY <1>1, <1>2, <1>4, <1>5, <1>7, NewStatusFit
<1>9. Free(t)
  BY <1>2, <1>5 DEF Free, Beside
<1>10. Linked(s, k) /\ Planned(s)
  BY <1>1 DEF Warm
<1>11. s.hq = <<>> /\ s.out = "none" /\ s.allsetCb = "none"
  BY <1>1, <1>10 DEF Linked
<1>12. s.next = 1
  <2>1. s.next \in Nat /\ s.fed \in Nat
    BY <1>1 DEF IsPlayer
  <2> QED
    BY <1>1, <2>1 DEF Live, Sound, Reading
<1>13. Linked(t, k)
  BY ZenonT(60), <1>3, <1>4, <1>10 DEF Linked, SameHead
<1>14. Hot(t, k)
  <2>1. ~Waited(t.next)
    BY <1>3, <1>12, NotYet
  <2> QED
    BY <1>3, <1>11, <2>1 DEF Hot, SameHead
<1>15. OnlyMoves(t.queue)
  BY <1>3, <1>10 DEF Planned
<1>16. t.exc = "none" /\ t.next = 1 /\ t.allsetCb \notin {"task", "job"}
  BY <1>3, <1>11, <1>12
<1>17. Warm(ExecTask(t), k) /\ Excused(ExecTask(t))
  BY <1>4, <1>6, <1>8, <1>9, <1>13, <1>14, <1>15, <1>16, ExecTaskWarm
<1> QED
  BY <1>17 DEF Started, t

\* The job goes on, with the macro that the pause broke off.
LEMMA ResumedWarm ==
    ASSUME NEW s, NEW g, NEW k, Live(s), Fit(s, g), Warm(s, k), s.exc = "none",
           s.status = 18, s.stash = "none", HeadKind = "EXTRUDER"
    PROVE  Warm(Resumed(s), k)
<1> DEFINE t == [s EXCEPT !.status = IF @ \in Starting THEN 4 ELSE 16]
<1>1. IsPlayer(s) /\ s.status \notin Ended /\ s.status \notin Starting
  BY LivePlayer, Ends DEF Starting
<1>2. /\ IsPlayer(t) /\ Same(s, [t EXCEPT !.status = s.status]) /\ Beside(s, t)
      /\ t.status = 16
  BY <1>1, StatusValues DEF IsPlayer, Fields, Same, Beside
<1>3. \A f \in Fields \ {"status"} : t[f] = s[f]
  BY <1>1 DEF IsPlayer, Fields
<1> HIDE DEF t
<1>4. SameHead(s, t) /\ SamePlan(s, t) /\ t.exc = s.exc /\ t.stash = s.stash
      /\ t.queue = s.queue /\ t.fin = s.fin
  BY <1>3 DEF Fields, SameHead, SamePlan
<1>5. t.status \notin Ended /\ t.status # 64 /\ t.status # 48 /\ t.status \notin Starting
  BY <1>2, Ends DEF Starting
<1>6. s.stash # "stashing" /\ g # "STASH"
  BY <1>1, NoStash
<1>7. Fit(t, g)
  BY <1>1, <1>2, <1>5, <1>6, NewStatusFit
<1>8. Live(t)
  <2>1. Leads(s, t)
    BY <1>1, <1>2, <1>5, NewStatus
  <2> QED
    BY <2>1 DEF Leads
<1>9. Free(t)
  BY <1>4 DEF Free
<1>10. Warm(t, k)
  <2>1. Linked(s, k) /\ Planned(s) /\ Hot(s, k)
    BY <1>1 DEF Warm
  <2>2. Linked(t, k)
    BY ZenonT(60), <1>4, <1>5, <2>1 DEF Linked, SameHead
  <2>3. Planned(t)
    BY <1>4, <2>1 DEF Planned, SameHead, SamePlan
  <2>4. Returning(t)
    BY <1>4 DEF Returning
  <2>5. Moving(s, k)
    BY DEF Moving
  <2>6. Hot(t, k)
    BY <1>4, <2>1, <2>5 DEF Hot, Told, SameHead, SamePlan
  <2> QED
    BY <2>2, <2>3, <2>4, <2>6 DEF Warm
<1>11. t.exc = "none"
  BY <1>4
<1>12. Warm(StartMacro(t), k) /\ Warm(Fire(t), k)
  BY <1>5, <1>7, <1>8, <1>9, <1>10, <1>11, StartMacroWarm, FireWarm
<1>13. Resumed(s) \in {StartMacro(t), Fire(t)}
  BY <1>1 DEF Resumed, t
<1> QED
  BY <1>12, <1>13

\* The head is as a moving job needs it.
Heated(s) ==
    /\ s.th = "RUNNING" /\ s.v24 /\ s.hq = <<>>
    /\ Waited(s.next) => s.out \in {"none"} \cup Hots
    /\ Told(s) => /\ s.temp # "cold"
                  /\ s.heat \in Hots \/ (s.out \in Hots /\ s.rt \in Hots /\ ~s.updating)

\* C2F, for which there is room, and the job may move again.
LEMMA ReturnWarm ==
    ASSUME NEW s, NEW g, NEW k, Live(s), Fit(s, g), Warm(s, k), s.exc = "none",
           s.status = 18, s.stash = "stashed", Len(s.queue) < BufSize, Heated(s)
    PROVE  /\ Warm(SendCmd([s EXCEPT !.stash = "none"], Cmd("C2F")), k)
           /\ SendCmd([s EXCEPT !.stash = "none"], Cmd("C2F")).exc = "none"
<1> DEFINE a == [s EXCEPT !.stash = "none"]
           t == SendCmd(a, Cmd("C2F"))
<1>1. IsPlayer(s) /\ s.status \notin Ended /\ s.mb \in {"ready", "error"} /\ s.fin <= Len(s.queue)
  BY LivePlayer, MbValues, Ends DEF Live, Sound, Ordered, IsPlayer
<1>2. IsPlayer(a) /\ a.stash = "none" /\ \A f \in Fields \ {"stash"} : a[f] = s[f]
  BY <1>1, StashValues DEF IsPlayer, Fields
<1> HIDE DEF a
<1>3. /\ SameHead(s, a) /\ SamePlan(s, a) /\ a.status = 18 /\ a.exc = "none" /\ a.mb = s.mb
      /\ a.allsetCb = s.allsetCb /\ a.queue = s.queue /\ a.fin = s.fin
  BY <1>2 DEF Fields, SameHead, SamePlan
<1>4. Linked(s, k) /\ Planned(s)
  BY <1>1 DEF Warm
<1>5. Linked(a, k)
  BY ZenonT(60), <1>3, <1>4 DEF Linked, SameHead
<1>6. Planned(a)
  BY <1>3, <1>4 DEF Planned, SameHead, SamePlan
<1>7. Returning(a)
  BY <1>2 DEF Returning
<1>8. Hot(a, k)
  BY <1>3, HotValues DEF Hot, Heated, Told, SameHead, SamePlan
<1>9. Alike(a, t)
  <2>1. Cmd("C2F") \in Commands /\ Cmd("C2F").op # "job"
    BY CmdIs, OpNames
  <2> QED
    BY <1>1, <1>2, <1>3, <2>1, SendCmdAlike
<1>10. t.exc = "none"
  <2>1. t = [a EXCEPT !.queue = Append(@, Cmd("C2F"))]
    BY <1>1, <1>3 DEF SendCmd, Usable, BufferedCmdSize
  <2> HIDE DEF t
  <2> QED
    BY <1>2, <1>3, <2>1 DEF IsPlayer, Fields
<1> HIDE DEF t
<1>11. Warm(a, k)
  BY <1>5, <1>6, <1>7, <1>8 DEF Warm
<1>12. Warm(t, k)
  BY <1>9, <1>11, AlikeWarm
<1> QED
  BY <1>10, <1>12 DEF a, t

\* The head is there, or warm: what waited for it goes on.
LEMMA OnAllsetWarm ==
    ASSUME NEW s, NEW g, NEW k, Live(s), Fit(s, g), Warm(s, k), s.exc = "none",
           HeadKind = "EXTRUDER",
           s.status \in {4, 6} => s.th # "BOOTING" /\ (s.th = "RUNNING" => s.v24),
           s.status = 18 /\ s.stash = "stashed" => Len(s.queue) < BufSize /\ Heated(s)
    PROVE  /\ Warm(OnAllset(s), k)
           /\ s.status # 18 \/ s.stash = "stashed" => Excused(OnAllset(s))
<1> DEFINE r == Resumed(s)
           u == SendCmd([s EXCEPT !.stash = "none"], Cmd("C2F"))
           t == [s EXCEPT !.status = IF @ \in Starting THEN 4 ELSE 16]
<1>1. IsPlayer(s) /\ (s.status = 18 /\ s.stash # "stashed" => s.stash = "none")
  BY LivePlayer, Freed
<1>2. CASE s.status = 4
  <2>1. OnAllset(s) = Started(s)
    BY <1>2 DEF OnAllset
  <2>2. Warm(Started(s), k) /\ Excused(Started(s))
    BY <1>2, StartedWarm
  <2> QED
    BY <2>1, <2>2
<1>3. CASE s.status = 6
  <2>1. s.status \in Starting /\ s.status \notin Ended
    BY <1>3, Ends DEF Starting
  <2>2. s.macro = "none"
    BY ZenonT(120), <2>1 DEF Fit, Resting
  <2>3. /\ t.status = 4 /\ \A f \in Fields \ {"status"} : t[f] = s[f]
        /\ DOMAIN t = Fields
    BY <1>1, <2>1 DEF IsPlayer, Fields
  <2> HIDE DEF t
  <2>4. /\ SameHead(s, t) /\ SamePlan(s, t) /\ t.exc = "none" /\ t.allsetCb = s.allsetCb
        /\ t.queue = s.queue /\ t.fin = s.fin /\ t.macro = "none" /\ t.stash = s.stash
    BY <2>2, <2>3 DEF Fields, SameHead, SamePlan
  <2>5. t.status \in Starting /\ t.status \notin Ended
    BY <2>3, Ends DEF Starting
  <2>6. r = t
    <3>1. Live(t)
      <4>1. IsPlayer(t) /\ Same(s, [t EXCEPT !.status = s.status]) /\ t.status # 64
        BY SMTT(60), <1>1, <2>3, StatusValues DEF IsPlayer, Fields, Same
      <4> QED
        BY <2>1, <2>5, <4>1, NewStatus DEF Leads
    <3>2. Fire(t) = t
      BY <2>5, <3>1, FireLeads
    <3> QED
      BY <2>1, <2>4, <3>2 DEF Resumed, t
  <2>7. Live(r) /\ Fit(r, g)
    <3>1. Free(s)
      BY <1>1, <1>3, Freed DEF Free
    <3> QED
      BY <3>1, ResumedLeads, ResumedFit DEF Leads
  <2>8. Warm(t, k)
    <3>1. Linked(s, k) /\ Planned(s)
      BY <2>1 DEF Warm
    <3>2. Linked(t, k)
      BY ZenonT(60), <2>1, <2>4, <3>1 DEF Linked, SameHead
    <3>3. Planned(t)
      BY <2>4, <3>1 DEF Planned, SameHead, SamePlan
    <3>4. t.status # 18 /\ t.status # 16 /\ t.status # 50
      BY <2>3
    <3>5. Returning(t) /\ Hot(t, k)
      BY <3>4 DEF Returning, Hot, Moving
    <3> QED
      BY <3>2, <3>3, <3>5 DEF Warm
  <2> HIDE DEF r
  <2>9. t.th # "BOOTING" /\ (t.th = "RUNNING" => t.v24)
    BY <1>3, <2>4 DEF SameHead
  <2>10. Warm(Started(t), k) /\ Excused(Started(t))
    BY <2>3, <2>4, <2>6, <2>7, <2>8, <2>9, StartedWarm
  <2>11. OnAllset(s) = Started(t)
    BY <1>3, <2>4, <2>6 DEF OnAllset, Then, r
  <2> QED
    BY <2>10, <2>11
<1>4. CASE s.status = 18 /\ s.stash = "stashed"
  <2>1. OnAllset(s) = u
    BY <1>4 DEF OnAllset
  <2>2. Warm(u, k) /\ u.exc = "none"
    BY <1>4, ReturnWarm
  <2> QED
    BY <2>1, <2>2 DEF Excused
<1>5. CASE s.status = 18 /\ s.stash # "stashed"
  <2>1. OnAllset(s) = r
    BY <1>5 DEF OnAllset
  <2> QED
    BY <1>1, <1>5, <2>1, ResumedWarm
<1>6. CASE s.status \notin {4, 6, 18}
  <2>1. OnAllset(s) = s
    BY <1>6 DEF OnAllset
  <2> QED
    BY <2>1 DEF Excused
<1> QED
  BY <1>2, <1>3, <1>4, <1>5, <1>6

\* The command of the recovery is sent; the job waits when the head is not warm.
LEMMA RecoveredWarm ==
    ASSUME NEW s, NEW g, NEW k, Live(s), Fit(s, g), Warm(s, k), s.exc = "none",
           HeadKind = "EXTRUDER", s.status \notin Starting,
           s.status = 18 /\ s.stash = "stashed" =>
               Len(s.queue) < BufSize /\ (Allset(s) => Heated(s))
    PROVE  /\ Warm(Recovered(s), k)
           /\ s.status # 18 \/ s.stash = "stashed" =>
                  Excused(Recovered(s)) \/ (s.status = 50 /\ s.stash = "none")
                  \/ s.status = 16
<1> DEFINE x == SendCmd(s, Cmd("X5"))
           y == [x EXCEPT !.allsetCb = "resume"]
<1>1. CASE Allset(s)
  <2>1. Recovered(s) = OnAllset(s)
    BY <1>1 DEF Recovered
  <2>2. s.status \notin {4, 6}
    BY DEF Starting
  <2>3. /\ Warm(OnAllset(s), k)
        /\ s.status # 18 \/ s.stash = "stashed" => Excused(OnAllset(s))
    BY <1>1, <2>2, OnAllsetWarm
  <2> QED
    BY <2>1, <2>3
<1>2. CASE ~Allset(s)
  <2>1. Alike(s, x) /\ IsPlayer(x)
    BY Sent, OpNames
  <2>2. s.status = 18 /\ s.stash = "stashed" => x.exc = "none"
    <3>1. s.status = 18 => s.status \notin Ended
      BY Ends
    <3> QED
      BY <3>1, RoomSent
  <2> HIDE DEF x
  <2>3. Warm(x, k) /\ x.status = s.status /\ x.stash = s.stash
    BY <2>1, AlikeWarm DEF Alike
  <2>4. \A f \in Fields \ {"allsetCb"} : y[f] = x[f]
    BY <2>1 DEF IsPlayer, Fields
  <2> HIDE DEF y
  <2>5. /\ SameHead(x, y) /\ SamePlan(x, y) /\ y.exc = x.exc /\ y.stash = x.stash
        /\ y.queue = x.queue /\ y.fin = x.fin /\ y.status = x.status
    BY <2>4 DEF Fields, SameHead, SamePlan
  <2>6. Warm(y, k)
    <3>1. SUFFICES ASSUME s.status \notin Ended
                   PROVE  /\ Linked(y, k) /\ Planned(y)
                          /\ y.exc = "none" => Returning(y)
                          /\ y.exc = "none" \/ k = 0 => Hot(y, k)
      BY <2>3, <2>5 DEF Warm
    <3>2. /\ Linked(x, k) /\ Planned(x)
          /\ x.exc = "none" => Returning(x)
          /\ x.exc = "none" \/ k = 0 => Hot(x, k)
      BY <2>3, <3>1 DEF Warm
    <3>3. y.status \notin Starting
      BY <2>3, <2>5
    <3>4. Linked(y, k)
      BY ZenonT(60), <2>5, <3>2, <3>3 DEF Linked, SameHead
    <3>5. Planned(y)
      BY <2>5, <3>2 DEF Planned, SameHead, SamePlan
    <3>6. Returning(x) => Returning(y)
      BY <2>5 DEF Returning, Told, SameHead
    <3>7. Hot(x, k) => Hot(y, k)
      BY ZenonT(120), <2>5 DEF Hot, Moving, Told, SameHead, SamePlan
    <3> QED
      BY <2>5, <3>2, <3>4, <3>5, <3>6, <3>7
  <2>7. Recovered(s) = (IF x.exc = "none" THEN y ELSE x)
    BY <1>2 DEF Recovered, Then, x, y
  <2>8. /\ s.status # 18 \/ s.stash = "stashed" =>
            Excused(x) \/ (s.status = 50 /\ s.stash = "none") \/ s.status = 16
        /\ x.exc = "none" => Excused(y)
    BY <2>2, <2>3, <2>5 DEF Excused, Moving
  <2> QED
    BY <2>3, <2>6, <2>7, <2>8
<1> QED
  BY <1>1, <1>2

\* The head is greeted: it is told again to heat, and the job goes on or waits.
LEMMA OnToolheadReadyWarm ==
    ASSUME NEW s, NEW g, NEW k, Live(s), Fit(s, g), s.exc = "none", HeadKind = "EXTRUDER",
           Linked(s, k), Planned(s), s.th = "RUNNING", s.hq = <<>>, s.out = "none",
           s.status # 16, s.status = 18 => s.stash = "stashed" /\ Len(s.queue) < BufSize,
           s.status = 50 /\ s.stash = "none" => k # 0
    PROVE  /\ Warm(OnToolheadReady(s), k)
           /\ k = 0 => Excused(OnToolheadReady(s))
<1> DEFINE t == SetOperating(s)
           r == [t EXCEPT !.hq = IF t.want = "unset" THEN @ ELSE Append(@, t.want),
                          !.cb = "recovered"]
           q == PopToHead(r)
<1>1. Live(t) /\ IsPlayer(t) /\ Fit(t, g)
  BY SetOperatingKeeps, KeepsLeads, HalCalm, CalmFit, LivePlayer DEF Leads
<1>2. t.v24 = TRUE /\ \A f \in Fields \ {"v24"} : t[f] = s[f]
  <2>1. IsPlayer(s) /\ t = [s EXCEPT !.v24 = TRUE]
    BY LivePlayer DEF SetOperating
  <2> HIDE DEF t
  <2> QED
    BY <2>1 DEF IsPlayer, Fields
<1> HIDE DEF t
<1>3. /\ t.status = s.status /\ t.stash = s.stash /\ SamePlan(s, t) /\ t.queue = s.queue
      /\ t.fin = s.fin /\ t.th = "RUNNING" /\ t.hq = <<>> /\ t.out = "none"
      /\ t.rt = s.rt /\ t.errno = s.errno /\ t.power = s.power /\ t.temp = s.temp
      /\ t.wasReset = s.wasReset /\ t.want = s.want /\ t.exc = "none"
      /\ t.allsetCb = s.allsetCb
  BY <1>2 DEF Fields, SamePlan
<1>4. Linked(t, k)
  BY ZenonT(60), <1>3 DEF Linked
<1>5. Planned(t)
  BY <1>3 DEF Planned, SamePlan
<1>6. ASSUME NEW w, w.status = s.status, w.stash = s.stash
      PROVE  Hot(w, k)
  <2>1. ~Moving(w, k)
    BY <1>6 DEF Moving
  <2> QED
    BY <2>1 DEF Hot
<1>7. CASE s.status \in Running /\ t.want = "unset"
  <2>1. Heated(t)
    BY <1>2, <1>3, <1>7, HotValues DEF Heated, Told
  <2>2. Returning(t)
    BY <1>2, <1>3, <1>7, HotValues DEF Returning, Told
  <2>3. Warm(t, k)
    BY <1>3, <1>4, <1>5, <1>6, <2>2 DEF Warm
  <2>4. t.status \notin Starting /\ (t.status = 18 => Len(t.queue) < BufSize)
    <3>1. s.status \notin Starting
      BY <1>7 DEF Running, Starting
    <3> QED
      BY <1>3, <3>1
  <2>5. Warm(Recovered(t), k)
    BY <1>1, <1>3, <2>1, <2>3, <2>4, RecoveredWarm
  <2>6. k = 0 => Excused(Recovered(t))
    BY ZenonT(120), <1>1, <1>3, <2>1, <2>3, <2>4, RecoveredWarm
  <2>7. OnToolheadReady(s) = Recovered(t)
    BY <1>3, <1>7 DEF OnToolheadReady, Recover, t
  <2> QED
    BY <2>5, <2>6, <2>7
<1>8. CASE s.status \in Running /\ t.want # "unset"
  <2>2. /\ r.hq = <<t.want>> /\ \A f \in Fields \ {"hq", "cb"} : r[f] = t[f]
        /\ DOMAIN r = Fields
    <3>1. Append(t.hq, t.want) = <<t.want>>
      BY <1>3
    <3>2. r = [t EXCEPT !.hq = Append(t.hq, t.want), !.cb = "recovered"]
      BY <1>8
    <3> HIDE DEF r
    <3> QED
      BY <1>1, <3>1, <3>2 DEF IsPlayer, Fields
  <2> HIDE DEF r
  <2>3. Sendable([r EXCEPT !.hq = Tail(@)]) /\ r.hq # <<>> /\ Head(r.hq) = t.want
        /\ Tail(r.hq) = <<>>
    BY <1>3, <2>2 DEF Sendable, Ready, Fields
  <2>4. q = [r EXCEPT !.hq = Tail(@), !.out = t.want]
    BY <2>2, <2>3 DEF PopToHead, ToHead, Fields
  <2> HIDE DEF q
  <2>5. q.out = t.want /\ q.hq = <<>> /\ \A f \in Fields \ {"hq", "out"} : q[f] = r[f]
    BY <2>2, <2>3, <2>4 DEF Fields
  <2>6. r.out = "none"
    BY <1>3, <2>2 DEF Fields
  <2>7. ASSUME NEW w, \A f \in Fields \ {"hq", "cb", "out"} : w[f] = t[f],
               \/ w.hq = <<t.want>> /\ w.out = "none"
               \/ w.hq = <<>> /\ w.out = t.want
        PROVE  Warm(w, k) /\ Excused(w)
    <3>1. /\ w.status = s.status /\ w.stash = s.stash /\ SamePlan(s, w) /\ w.queue = s.queue
          /\ w.fin = s.fin /\ w.th = "RUNNING" /\ w.rt = s.rt /\ w.errno = s.errno
          /\ w.power = s.power /\ w.temp = s.temp /\ w.v24 = TRUE
          /\ w.wasReset = s.wasReset /\ w.want = s.want /\ w.exc = "none"
          /\ w.allsetCb = s.allsetCb
      <4>1. /\ w.status = t.status /\ w.stash = t.stash /\ SamePlan(t, w) /\ w.queue = t.queue
            /\ w.fin = t.fin /\ w.th = t.th /\ w.rt = t.rt /\ w.errno = t.errno
            /\ w.power = t.power /\ w.temp = t.temp /\ w.v24 = t.v24
            /\ w.wasReset = t.wasReset /\ w.want = t.want /\ w.exc = t.exc
            /\ w.allsetCb = t.allsetCb
        BY <2>7 DEF Fields, SamePlan
      <4> QED
        BY <1>2, <1>3, <4>1 DEF SamePlan
    <3>2. w.status \notin Starting
      BY <1>8, <3>1 DEF Running, Starting
    <3>3. Linked(w, k)
      BY ZenonT(60), <3>1, <3>2 DEF Linked
    <3>4. Planned(w)
      BY <3>1 DEF Planned, SamePlan
    <3>5. Returning(w)
      BY <1>3, <2>7, <3>1 DEF Returning
    <3>6. Hot(w, k)
      BY <1>6, <3>1
    <3> QED
      BY <3>1, <3>3, <3>4, <3>5, <3>6 DEF Warm, Excused
  <2>8. Warm(r, k) /\ Excused(r)
    BY <2>2, <2>6, <2>7
  <2>9. Warm(q, k) /\ Excused(q)
    <3>1. \A f \in Fields \ {"hq", "cb", "out"} : q[f] = t[f]
      BY <2>2, <2>5
    <3> QED
      BY <2>5, <2>7, <3>1
  <2>10. OnToolheadReady(s) \in {r, q}
    BY <1>8 DEF OnToolheadReady, Recover, t, r, q
  <2> QED
    BY <2>8, <2>9, <2>10
<1>9. CASE s.status \notin Running
  <2>1. t.status # 18
    BY <1>3, <1>9 DEF Running
  <2>2. Warm(t, k)
    <3>1. Returning(t) /\ Hot(t, k)
      BY <1>3, <1>6, <2>1 DEF Returning
    <3> QED
      BY <1>4, <1>5, <3>1 DEF Warm
  <2>3. Warm(OnAllset(t), k) /\ Excused(OnAllset(t))
    BY <1>1, <1>2, <1>3, <2>1, <2>2, OnAllsetWarm
  <2>4. OnToolheadReady(s) = OnAllset(t)
    BY <1>9 DEF OnToolheadReady, t
  <2> QED
    BY <2>3, <2>4
<1> QED
  BY <1>7, <1>8, <1>9

\* What waited for the temperature goes on.
LEMMA HeadAllsetWarm ==
    ASSUME NEW s, NEW g, NEW k, Live(s), Fit(s, g), Warm(s, k), s.exc = "none",
           HeadKind = "EXTRUDER", Allset(s), ~s.updating, s.allsetCb # "none",
           s.status = 18 /\ s.stash = "stashed" =>
               Len(s.queue) + 1 < BufSize /\ s.th # "BOOTING" /\ s.hq = <<>>
    PROVE  Warm(HeadAllset(s), k)
<1> DEFINE t == [s EXCEPT !.allsetCb = "none"]
           u == SendCmd(t, Cmd("X5"))
<1>1. IsPlayer(s) /\ Fit(t, g) /\ Alike(s, t) /\ t.allsetCb = "none" /\ t.queue = s.queue
  <2>1. t.allsetCb = "none" /\ t.queue = s.queue
    BY LivePlayer DEF IsPlayer, Fields
  <2> QED
    BY <2>1, LivePlayer, AllsetNoneFit, AsideAlike
<1>2. Keeps(s, t)
  BY ZenonT(120), <1>1, AllsetValues DEF IsPlayer, Fields, Keeps, Same
<1> HIDE DEF t
<1>3. Live(t) /\ IsPlayer(t) /\ Warm(t, k)
  BY <1>1, <1>2, KeepsLeads, AlikeWarm DEF Leads, Keeps
<1>4. Live(u) /\ Fit(u, g) /\ Alike(t, u)
  BY <1>1, <1>3, Sends, Sent, OpNames, SpeedFit DEF Leads
<1>5. Alike(s, u)
  BY <1>1, <1>4, AlikeOn
<1>6. u.status = s.status /\ u.stash = s.stash /\ u.allsetCb = "none"
  BY <1>1, <1>3, <1>4, SendCmdFree DEF Alike
<1>7. u.status = 18 /\ u.stash = "stashed" => Len(u.queue) < BufSize
  <2>1. s.queue \in CommandSeqs /\ BufSize \in Nat /\ Cmd("X5") \in Commands
    BY <1>1, ScenarioType, CmdIs, OpNames DEF Live, Sound, IsPlayer
  <2>2. u.queue = s.queue \/ u.queue = Append(s.queue, Cmd("X5"))
    BY <1>1, <1>3, <2>1, SendCmdDoes DEF Calm
  <2>3. Len(s.queue) \in Nat /\ Len(Append(s.queue, Cmd("X5"))) = Len(s.queue) + 1
    BY <2>1, Appended
  <2> HIDE DEF u
  <2>4. Len(u.queue) \in Nat /\ Len(u.queue) <= Len(s.queue) + 1
    BY <2>2, <2>3
  <2> QED
    BY <1>6, <2>1, <2>3, <2>4
<1> HIDE DEF u
<1>8. Warm(u, k)
  BY <1>3, <1>4, AlikeWarm
<1>9. CASE s.status \in Ended
  <2>1. Live(s) /\ HeadAllset(s).status \in Ended
    BY <1>9, HeadAllsetLeads DEF Leads
  <2> QED
    BY <2>1, EndedWarm
<1>10. CASE s.status \notin Ended /\ u.exc = "none"
  <2>1. Linked(u, k) /\ Planned(u) /\ Hot(u, k) /\ Returning(u)
    BY <1>6, <1>8, <1>10 DEF Warm
  <2>2. s.status \notin Starting
    <3>1. Linked(s, k)
      BY <1>10 DEF Warm
    <3> QED
      BY <3>1 DEF Linked
  <2>3. /\ s.allsetCb = "task" => s.macro = "heat" /\ s.stash = "none"
        /\ s.allsetCb = "job" => s.macro = "job heat" /\ s.stash = "none"
    <3>1. /\ s.allsetCb = "task" => s.macro = "heat"
          /\ s.allsetCb = "job" => s.macro = "job heat"
          /\ s.stash # "none" => s.allsetCb \in {"none", "resume"}
      BY ZenonT(120), <1>10 DEF Fit, Resting
    <3> QED
      BY <3>1
  <2>4. u.macro = s.macro /\ u.updating = s.updating /\ Allset(u) /\ u.th = s.th /\ u.hq = s.hq
    <3>1. u.rt = s.rt /\ u.want = s.want
      BY <1>5 DEF Alike, SameHead
    <3> QED
      BY <1>5, <3>1 DEF Allset, Alike, SameHead, SamePlan
  <2>5. s.allsetCb = "task" => Warm(ExecTask(u), k)
    <3> SUFFICES ASSUME s.allsetCb = "task" PROVE Warm(ExecTask(u), k)
      OBVIOUS
    <3>1. u.macro \in MacroKinds
      BY <2>3, <2>4 DEF MacroKinds
    <3>2. u.next = 1 /\ OnlyMoves(u.queue)
      BY <2>1, <3>1 DEF Planned
    <3>3. Free(u) /\ u.status \notin Starting /\ u.allsetCb \notin {"task", "job"}
      BY <1>6, <2>2, <2>3 DEF Free
    <3> QED
      BY <1>4, <1>10, <2>1, <3>2, <3>3, ExecTaskWarm
  <2>6. s.allsetCb = "job" => Warm(ClearMacro(u), k)
    <3> SUFFICES ASSUME s.allsetCb = "job" PROVE Warm(ClearMacro(u), k)
      OBVIOUS
    <3>1. u.macro \notin MacroKinds
      BY <2>3, <2>4 DEF MacroKinds
    <3>2. /\ u.tasks = <<>> /\ OnlyMoves(u.queue) /\ (Waited(u.next) => u.want # "low")
          /\ "HEATER_OFF" \notin scenario.requests => (Waited(u.next) => u.want \in Hots)
      BY <2>1, <3>1 DEF Planned
    <3>3. Free(u) /\ u.allsetCb \notin {"task", "job"}
      BY <1>6, <2>3 DEF Free
    <3> QED
      BY <1>4, <1>10, <2>1, <2>4, <3>2, <3>3, MacroEnds
  <2>7. Warm(OnAllset(u), k)
    <3>1. u.status \notin {4, 6}
      BY <1>6, <2>2 DEF Starting
    <3>2. u.status = 18 /\ u.stash = "stashed" => Heated(u)
      <4> SUFFICES ASSUME u.status = 18, u.stash = "stashed" PROVE Heated(u)
        OBVIOUS
      <4>1. u.th # "BOOTING" /\ u.hq = <<>>
        BY <1>6, <2>4
      <4>2. /\ u.th = "RUNNING" /\ u.v24
            /\ u.out = u.want \/ (u.out = "none" /\ (Told(u) => u.heat = u.want))
        BY <2>1, <4>1 DEF Returning
      <4>3. Told(u) => u.rt \in Hots
        BY <2>4 DEF Told, Allset
      <4>4. u.rt \in Hots => u.temp # "cold"
        BY <2>1 DEF Linked
      <4>5. Waited(u.next) => u.out \in {"none"} \cup Hots
        <5>1. IsPlayer(u) /\ (Waited(u.next) => u.want # "low")
          BY <1>4, <2>1, LivePlayer DEF Planned
        <5>2. "unset" \notin Outs
          BY DEF Outs, Levels, Hots
        <5>3. Waited(u.next) /\ u.out # "none" => u.want \in Hots
          BY <4>2, <5>1, <5>2 DEF IsPlayer, Wants
        <5> QED
          BY <4>2, <5>3
      <4>6. Told(u) => u.want \in Hots
        BY DEF Told
      <4> QED
        BY <2>4, <4>1, <4>2, <4>3, <4>4, <4>5, <4>6 DEF Heated
    <3> QED
      BY <1>4, <1>7, <1>8, <1>10, <3>1, <3>2, OnAllsetWarm
  <2>8. \/ HeadAllset(s) \in {t, u, OnAllset(u)}
        \/ s.allsetCb = "task" /\ HeadAllset(s) = ExecTask(u)
        \/ s.allsetCb = "job" /\ HeadAllset(s) = ClearMacro(u)
    BY DEF HeadAllset, Then, t, u
  <2> QED
    BY <1>3, <1>8, <2>5, <2>6, <2>7, <2>8
<1>11. CASE u.exc # "none"
  <2>1. HeadAllset(s) \in {t, u}
    BY <1>11 DEF HeadAllset, Then, t, u
  <2> QED
    BY <1>3, <1>8, <2>1
<1> QED
  BY <1>9, <1>10, <1>11

\* A probe measures again, corrects, or gives up.
LEMMA ProbeEmptyWarm ==
    ASSUME NEW s, Live(s), NEW k, Warm(s, k), Warm(ExecTask(s), k)
    PROVE  Warm(ProbeEmpty(s), k)
<1> DEFINE t == [s EXCEPT !.probe = "converged"]
           v == [s EXCEPT !.round = s.round + 1, !.probe = "none"]
           x == SendCmd(t, Cmd("macro"))
           y == SendCmd(v, Cmd("probe"))
           h == Giveup(s)
<1>1. IsPlayer(s) /\ Alike(s, t) /\ Alike(s, Raise(s, "other"))
  BY LivePlayer, AsideAlike
<1>2. Alike(s, v)
  BY ZenonT(120), <1>1 DEF IsPlayer, Fields, Alike, SameHead, SamePlan
<1>3. Keeps(s, t) /\ (s.round < Ttl => Keeps(s, v))
  <2>1. Keeps(s, t)
    BY ZenonT(120), <1>1, ProbeValues DEF IsPlayer, Fields, Keeps, Same
  <2>2. ASSUME s.round < Ttl
        PROVE  Keeps(s, v)
    BY ZenonT(120), <1>1, <2>2, ProbeValues, RoundValues DEF IsPlayer, Fields, Keeps, Same
  <2> QED
    BY <2>1, <2>2
<1>4. [s EXCEPT !.round = @ + 1, !.probe = "none"] = v
  OBVIOUS
<1> HIDE DEF t, v
<1>5. Alike(t, x) /\ (s.round < Ttl => Alike(v, y))
  BY <1>3, KeepsLeads, Sent, OpNames DEF Leads
<1>6. Alike(s, h) /\ Alike(h, Raise(h, "other"))
  BY GiveupAlike, GiveupLeads, LivePlayer, AsideAlike DEF Leads
<1> HIDE DEF x, y, h
<1>7. Alike(s, x) /\ Alike(s, Raise(h, "other")) /\ (s.round < Ttl => Alike(s, y))
  BY <1>1, <1>2, <1>5, <1>6, AlikeOn
<1>8. \/ ProbeEmpty(s) \in {s, x, ExecTask(s), h, Raise(h, "other"), Raise(s, "other")}
      \/ s.round < Ttl /\ ProbeEmpty(s) = y
  BY <1>4 DEF ProbeEmpty, Then, t, x, y, h
<1> QED
  BY <1>1, <1>6, <1>7, <1>8, AlikeWarm

\* The macro goes on when the mainboard has nothing left to do.
LEMMA MacroCommandEmptyWarm ==
    ASSUME NEW s, NEW g, NEW k, Live(s), Fit(s, g), Free(s), Warm(s, k), s.exc = "none",
           s.status \notin Starting, HeadKind = "EXTRUDER"
    PROVE  Warm(MacroCommandEmpty(s), k)
<1> DEFINE v == [s EXCEPT !.retracting = TRUE]
           y == SendCmd(v, Cmd("retract"))
<1>1. SUFFICES ASSUME s.status \notin Ended PROVE Warm(MacroCommandEmpty(s), k)
  <2>1. s.status \in Ended => MacroCommandEmpty(s).status \in Ended
    BY MacroCommandEmptyLeads DEF Leads
  <2> QED
    BY <2>1, EndedWarm
<1>2. IsPlayer(s) /\ Alike(s, v)
  BY LivePlayer, AsideAlike
<1>3. Keeps(s, v)
  BY ZenonT(120), <1>2, Booleans DEF IsPlayer, Fields, Keeps, Same
<1> HIDE DEF v
<1>4. Alike(v, y)
  BY <1>3, KeepsLeads, Sent, OpNames DEF Leads
<1> HIDE DEF y
<1>5. Warm(y, k)
  BY <1>2, <1>4, AlikeOn, AlikeWarm
<1>6. Warm(Abort(s, "none"), k)
  BY <1>2, AbortEnds, EndedWarm
<1>7. s.macro \in {"startup", "probe"} => Warm(ExecTask(s), k)
  <2> SUFFICES ASSUME s.macro \in {"startup", "probe"} PROVE Warm(ExecTask(s), k)
    OBVIOUS
  <2>1. Linked(s, k) /\ Planned(s) /\ Hot(s, k)
    BY <1>1 DEF Warm
  <2>2. s.allsetCb \notin {"task", "job"}
    <3>1. /\ s.allsetCb = "task" => s.macro = "heat"
          /\ s.allsetCb = "job" => s.macro = "job heat"
      BY ZenonT(120), <1>1 DEF Fit, Resting
    <3> QED
      BY <3>1
  <2>3. s.macro \in MacroKinds
    BY DEF MacroKinds
  <2>4. s.next = 1 /\ OnlyMoves(s.queue)
    BY <2>1, <2>3 DEF Planned
  <2> QED
    BY <2>1, <2>2, <2>4, ExecTaskWarm
<1>8. s.macro = "probe" => Warm(ProbeEmpty(s), k)
  BY <1>7, ProbeEmptyWarm
<1>9. \/ MacroCommandEmpty(s) \in {s, y, Abort(s, "none")}
      \/ s.macro \in {"startup", "probe"} /\ MacroCommandEmpty(s) = ExecTask(s)
      \/ s.macro = "probe" /\ MacroCommandEmpty(s) = ProbeEmpty(s)
  BY DEF MacroCommandEmpty, v, y
<1> QED
  BY <1>5, <1>6, <1>7, <1>8, <1>9

LEMMA PausedMacroAlike ==
    ASSUME NEW s, Live(s)
    PROVE  Alike(s, PausedMacroEmpty(s))
<1> DEFINE x == SendCmd(s, Cmd("load"))
           y == [x EXCEPT !.pausedMacro = "sent"]
           z == [s EXCEPT !.pausedMacro = "none"]
<1>1. IsPlayer(s) /\ IsPlayer(x) /\ Alike(s, x)
  BY LivePlayer, Sent, OpNames
<1> HIDE DEF x
<1>2. Alike(x, y) /\ Alike(s, z) /\ Alike(s, s)
  BY <1>1, AsideAlike
<1>3. PausedMacroEmpty(s) \in {s, x, y, z}
  BY DEF PausedMacroEmpty, Then, x
<1> HIDE DEF y, z
<1> QED
  BY <1>1, <1>2, <1>3, AlikeOn

LEMMA OnMbEmptyWarm ==
    ASSUME NEW s, NEW g, NEW k, Live(s), Fit(s, g), Warm(s, k), s.exc = "none",
           HeadKind = "EXTRUDER"
    PROVE  Warm(OnMbEmpty(s), k)
<1>1. SUFFICES ASSUME s.status \notin Ended PROVE Warm(OnMbEmpty(s), k)
  <2>1. s.status \in Ended => OnMbEmpty(s).status \in Ended
    BY OnMbEmptyLeads DEF Leads
  <2> QED
    BY <2>1, EndedWarm
<1>2. IsPlayer(s) /\ Core(s, k) /\ Alike(s, PausedMacroEmpty(s))
  BY LivePlayer, WarmCore, PausedMacroAlike
<1>3. s.status \notin Pausing \cup {6, 18, 48} => Free(s)
  <2>1. s.status \notin Pausing \cup {6, 18, 48} =>
            s.status # 18 /\ s.status # 48 /\ s.status # 50
    BY DEF Pausing
  <2> QED
    BY <1>2, <2>1, Freed DEF Free
<1>4. s.macro # "none" => s.status \notin Starting
  BY ZenonT(120), <1>1 DEF Fit, Resting
<1>5. s.status \in Pausing => Warm(HandlePause(s), k)
  BY <1>2, HandlePauseCore, StillWarm
<1>6. Warm(PausedMacroEmpty(s), k)
  BY <1>2, AlikeWarm
<1>7. s.status \notin Pausing /\ s.status \notin {6, 18} /\ s.status # 48 =>
          Warm(Fire(s), k) /\ (s.macro # "none" => Warm(MacroCommandEmpty(s), k))
  BY <1>3, <1>4, FireWarm, MacroCommandEmptyWarm
<1> QED
  BY <1>5, <1>6, <1>7 DEF OnMbEmpty

LEMMA OnMbSendableWarm ==
    ASSUME NEW s, NEW g, NEW k, Live(s), Fit(s, g), Free(s), Warm(s, k), s.exc = "none",
           HeadKind = "EXTRUDER"
    PROVE  Warm(OnMbSendable(s), k)
<1>1. OnMbSendable(s) \in {s, Fire(s)} \/ (s.status = 48 /\ OnMbSendable(s) = PausedMacroEmpty(s))
  BY DEF OnMbSendable
<1>2. Warm(Fire(s), k)
  BY FireWarm
<1>3. Warm(PausedMacroEmpty(s), k)
  BY PausedMacroAlike, AlikeWarm
<1> QED
  BY <1>1, <1>2, <1>3

LEMMA MacroCtrlAlike ==
    ASSUME NEW s, Live(s)
    PROVE  Alike(s, MacroCtrl(s))
<1> DEFINE t == [s EXCEPT !.probe = IF @ = "converged" THEN @ ELSE s.ctrl]
           h == Giveup(s)
<1>1. Alike(s, t) /\ Alike(s, s)
  BY LivePlayer, AsideAlike
<1>2. Alike(s, h) /\ IsPlayer(h)
  BY GiveupAlike, GiveupLeads, LivePlayer DEF Leads
<1> HIDE DEF t, h
<1>3. Alike(h, Raise(h, "other"))
  BY <1>2, AsideAlike
<1>4. Alike(s, Raise(h, "other"))
  BY <1>2, <1>3, AlikeOn
<1>5. MacroCtrl(s) \in {s, t, h, Raise(h, "other")}
  BY DEF MacroCtrl, Then, t, h
<1> QED
  BY <1>1, <1>2, <1>4, <1>5

LEMMA OnMbCtrlWarm ==
    ASSUME NEW s, NEW k, Live(s), Fit(s, s.ctrl), Warm(s, k), s.exc = "none",
           HeadKind = "EXTRUDER", s.stash # "none" => Len(s.queue) < BufSize
    PROVE  Warm(OnMbCtrl(s), k)
<1> DEFINE t == IF s.status = 48 THEN s ELSE MacroCtrl(s)
           u == [s EXCEPT !.stash = "stashed"]
<1>1. SUFFICES ASSUME s.status \notin Ended PROVE Warm(OnMbCtrl(s), k)
  <2>1. s.status \in Ended => OnMbCtrl(s).status \in Ended
    BY OnMbCtrlLeads DEF Leads
  <2> QED
    BY <2>1, EndedWarm
<1>2. IsPlayer(s) /\ Alike(s, t)
  BY LivePlayer, MacroCtrlAlike, AsideAlike
<1>3. Warm(t, k) /\ t.status = s.status
  BY <1>2, AlikeWarm DEF Alike
<1>4. s.ctrl \in {"STASH", "STASH_POP"} => t = s
  BY DEF MacroCtrl, Readings
<1>5. CASE s.ctrl = "STASH" /\ s.status = 50
  <2>1. OnMbCtrl(s) = PauseToolhead(u)
    BY <1>4, <1>5 DEF OnMbCtrl, Then
  <2>2. /\ Live(u) /\ Fit(u, "none") /\ u.status = 50 /\ u.stash = "stashed"
        /\ u.queue = s.queue /\ s.stash = "stashing"
        /\ \A f \in Fields \ {"stash"} : u[f] = s[f]
    BY <1>5, ParkedFit
  <2> HIDE DEF u
  <2>3. /\ SameHead(s, u) /\ SamePlan(s, u) /\ u.exc = "none" /\ u.allsetCb = s.allsetCb
        /\ u.fin = s.fin
    BY <2>2 DEF Fields, SameHead, SamePlan
  <2>4. Linked(s, k) /\ Planned(s)
    BY <1>1 DEF Warm
  <2>5. Linked(u, k)
    <3>1. u.status = s.status
      BY <1>5, <2>2
    <3> QED
      BY ZenonT(60), <2>3, <2>4, <3>1 DEF Linked, SameHead
  <2>6. Planned(u)
    BY <2>2, <2>3, <2>4 DEF Planned, SameHead, SamePlan
  <2>7. Hot(u, k)
    <3>1. ~Moving(u, k)
      BY <2>2 DEF Moving
    <3> QED
      BY <3>1 DEF Hot
  <2>8. Core(u, k)
    BY <2>5, <2>6, <2>7 DEF Core
  <2>9. Len(u.queue) < BufSize
    <3>1. s.stash # "none"
      BY <2>2
    <3> QED
      BY <2>2, <3>1
  <2>10. u.status \in {48, 50}
    BY <2>2
  <2>11. Core(PauseToolhead(u), k) /\ Still(PauseToolhead(u))
    BY <2>2, <2>3, <2>8, <2>9, <2>10, PauseToolheadCore
  <2> QED
    BY <2>1, <2>11, StillWarm
<1>6. CASE s.ctrl = "STASH_POP" /\ s.status = 18
  <2>1. OnMbCtrl(s) = Resumed(s)
    BY <1>4, <1>6 DEF OnMbCtrl, Then
  <2>2. s.stash = "none"
    BY ZenonT(120), <1>1, <1>6 DEF Fit, Signal
  <2>3. Warm(Resumed(s), k)
    BY <1>6, <2>2, ResumedWarm
  <2> QED
    BY <2>1, <2>3
<1>7. CASE ~(s.ctrl = "STASH" /\ s.status = 50) /\ ~(s.ctrl = "STASH_POP" /\ s.status = 18)
  <2>1. OnMbCtrl(s) = t
    <3> HIDE DEF t
    <3>1. OnMbCtrl(s) = Then(t, LAMBDA z :
              CASE s.ctrl = "STASH_POP" /\ z.status = 18 -> Resumed(z)
                [] s.ctrl = "STASH" /\ z.status = 50 -> PauseToolhead([z EXCEPT !.stash = "stashed"])
                [] OTHER -> z)
      BY DEF OnMbCtrl, t
    <3> QED
      BY <1>3, <1>7, <3>1 DEF Then
  <2> QED
    BY <1>3, <2>1
<1> QED
  BY <1>5, <1>6, <1>7

\* An exception asks no more than what it does not break.
LEMMA CoreExc ==
    ASSUME NEW s, NEW k, Core(s, k), s.exc # "none"
    PROVE  Warm(s, k)
BY DEF Core, Warm

LEMMA CheckErrnoWarm ==
    ASSUME NEW s, IsPlayer(s), NEW k, Warm(s, k)
    PROVE  Warm(CheckErrno(s), k)
<1> DEFINE t == Raise(s, "hardware")
<1>1. CASE s.errno = "hardware" /\ s.status \notin Ended
  <2>1. /\ SameHead(s, t) /\ SamePlan(s, t) /\ t.exc = "hardware" /\ t.status = s.status
        /\ t.allsetCb = s.allsetCb /\ t.queue = s.queue /\ t.fin = s.fin
    BY DEF Raise, IsPlayer, Fields, SameHead, SamePlan
  <2>2. CheckErrno(s) = t
    BY <1>1 DEF CheckErrno
  <2> HIDE DEF t
  <2>3. Linked(s, k) /\ Planned(s)
    BY <1>1 DEF Warm
  <2>4. k # 0
    BY <1>1, <2>3 DEF Linked
  <2>5. Linked(t, k)
    BY ZenonT(60), <2>1, <2>3, <2>4 DEF Linked, SameHead
  <2>6. Planned(t)
    BY <2>1, <2>3 DEF Planned, SameHead, SamePlan
  <2>7. t.exc # "none"
    BY <2>1
  <2> QED
    BY <2>2, <2>4, <2>5, <2>6, <2>7 DEF Warm
<1>2. CASE s.errno # "hardware"
  <2>1. Alike(s, s) /\ Alike(s, Raise(s, "other"))
    BY AsideAlike
  <2>2. CheckErrno(s) \in {s, Raise(s, "other")}
    BY <1>2 DEF CheckErrno
  <2> QED
    BY <2>1, <2>2, AlikeWarm
<1>3. CASE s.status \in Ended
  <2>1. Raise(s, "other").status = s.status /\ t.status = s.status
    BY DEF Raise, IsPlayer, Fields
  <2>2. CheckErrno(s) \in {s, t, Raise(s, "other")}
    BY DEF CheckErrno
  <2> QED
    BY <1>3, <2>1, <2>2, EndedWarm
<1> QED
  BY <1>1, <1>2, <1>3

LEMMA HeadHandledWarm ==
    ASSUME NEW s, NEW g, NEW k, Live(s), Fit(s, g), Warm(s, k), HeadKind = "EXTRUDER"
    PROVE  Warm(HeadHandled(s), k)
<1> DEFINE t == CheckErrno(s)
<1>1. IsPlayer(s) /\ Live(t) /\ Warm(t, k)
  BY CheckErrnoLeads, CheckErrnoWarm, LivePlayer DEF Leads
<1>2. Calm(s, t)
  <2>1. Calm(s, s) /\ Calm(s, Raise(s, "hardware")) /\ Calm(s, Raise(s, "other"))
    BY <1>1, AsideCalm DEF Calm
  <2> QED
    BY <2>1 DEF CheckErrno
<1> HIDE DEF t
<1>3. Fit(t, g) /\ t.stash = s.stash
  BY <1>2, CalmFit DEF Calm
<1>4. s.status = 16 /\ t.exc = "none" => Warm(Fire(t), k)
  <2>1. s.status = 16 => Free(t)
    BY <1>1, <1>3, Freed DEF Free
  <2> QED
    BY <1>1, <1>3, <2>1, FireWarm
<1>5. HeadHandled(s) \in {s, t} \/ (s.status = 16 /\ t.exc = "none" /\ HeadHandled(s) = Fire(t))
  BY DEF HeadHandled, Then, t
<1> QED
  BY <1>1, <1>4, <1>5

\* The connection to the head is given up.
LEMMA ResetCore ==
    ASSUME NEW s, IsPlayer(s), NEW k, Core(s, k), k # 0 \/ ~Moving(s, k)
    PROVE  Core(ToolheadReset(s), k)
<1> DEFINE t == ToolheadReset(s)
<1>1. /\ t.th = "INIT" /\ t.errno = "none" /\ t.rt = "none" /\ t.allsetCb = "none"
      /\ \A f \in Fields \ {"th", "errno", "rt", "allsetCb"} : t[f] = s[f]
  BY DEF ToolheadReset, IsPlayer, Fields
<1> HIDE DEF t
<1>2. /\ t.status = s.status /\ t.stash = s.stash /\ SamePlan(s, t) /\ t.queue = s.queue
      /\ t.fin = s.fin /\ t.hq = s.hq /\ t.out = s.out /\ t.exc = s.exc /\ t.want = s.want
  BY <1>1 DEF Fields, SamePlan
<1>3. SUFFICES ASSUME s.status \notin Ended
               PROVE  Linked(t, k) /\ Planned(t) /\ (k = 0 => Hot(t, k))
  BY <1>2 DEF Core, t
<1>4. Linked(s, k) /\ Planned(s)
  BY <1>3 DEF Core
<1>5. Linked(t, k)
  <2>1. t.th # "BOOTING" /\ t.th # "RUNNING" /\ t.rt \notin Hots
    BY <1>1, HotValues
  <2> QED
    BY ZenonT(60), <1>1, <1>2, <1>4, <2>1 DEF Linked
<1>6. Planned(t)
  BY <1>2, <1>4 DEF Planned, SamePlan
<1>7. k = 0 => Hot(t, k)
  <2>1. Moving(t, k) <=> Moving(s, k)
    BY <1>2 DEF Moving
  <2> QED
    BY <2>1 DEF Hot
<1> QED
  BY <1>5, <1>6, <1>7

LEMMA OnToolheadRecvWarm ==
    ASSUME NEW h, NEW g, NEW k, Live(h), Fit(h, g), Core(h, k), h.exc = "none" => Warm(h, k),
           HeadKind = "EXTRUDER"
    PROVE  Warm(OnToolheadRecv(h), k)
<1> DEFINE s == Then(h, HeadHandled)
           r == ToolheadReset(s)
<1>1. Live(s) /\ Fit(s, g) /\ IsPlayer(s)
  BY HeadHandledLeads, HeadHandledFit, LivePlayer DEF Then, Leads
<1>2. Warm(s, k)
  BY HeadHandledWarm, CoreExc DEF Then
<1> HIDE DEF s
<1>3. Live(r) /\ Fit(r, g) /\ IsPlayer(r)
  BY <1>1, ToolheadResetKeeps, KeepsLeads, ToolheadResetFit DEF Leads, Keeps
<1>4. r.exc = s.exc
  BY <1>1 DEF ToolheadReset, IsPlayer, Fields
<1>5. Core(s, k)
  BY <1>2, WarmCore
<1>6. CASE s.exc \notin {"none", "system"} /\ s.status \in Ended
  <2>1. OnToolheadRecv(h) = Quiet(Close(s))
    BY <1>6 DEF OnToolheadRecv, s
  <2>2. Quiet(Close(s)).status = s.status
    BY <1>1 DEF Quiet, Close, IsPlayer, Fields
  <2> QED
    BY <1>6, <2>1, <2>2, EndedWarm
<1>7. CASE s.exc = "hardware" /\ s.status \notin Ended
  <2>1. OnToolheadRecv(h) = Caught(r)
    BY <1>7 DEF OnToolheadRecv, s, r
  <2>2. k # 0
    BY <1>5, <1>7 DEF Core, Linked
  <2>3. Core(r, k)
    BY <1>1, <1>5, <2>2, ResetCore
  <2>4. r.exc # "none"
    BY <1>4, <1>7
  <2> HIDE DEF r
  <2> QED
    BY <1>3, <2>1, <2>3, <2>4, CaughtWarm
<1>8. CASE s.exc # "hardware" /\ ~(s.exc \notin {"none", "system"} /\ s.status \in Ended)
  <2>1. OnToolheadRecv(h) = Caught(s)
    BY <1>8 DEF OnToolheadRecv, s
  <2> QED
    BY <1>1, <1>2, <1>5, <2>1, CaughtWarm
<1> QED
  BY <1>6, <1>7, <1>8

-----------------------------------------------------------------------------
(* The answers of the head. *)

\* A command for the head, which was sent to go on when it is not the job that moves.
LEMMA PopWarm ==
    ASSUME NEW s, IsPlayer(s), NEW k, Warm(s, k), s.exc = "none"
    PROVE  /\ Warm(PopToHead(s), k)
           /\ s.status = 18 /\ s.stash = "stashed" => PopToHead(s).hq = <<>>
<1> DEFINE u == [s EXCEPT !.hq = Tail(@)]
           t == PopToHead(s)
<1>1. s.hq = <<>> => t = s
  BY DEF PopToHead
<1>2. ASSUME s.hq # <<>>
      PROVE  /\ t.hq = Tail(s.hq)
             /\ \A f \in Fields \ {"hq", "out", "exc"} : t[f] = s[f]
             /\ \/ Sendable(s) /\ t.out = Head(s.hq) /\ t.exc = "none"
                \/ ~Sendable(s) /\ t.out = s.out /\ t.exc = "other"
  <2>1. u.hq = Tail(s.hq) /\ DOMAIN u = Fields /\ \A f \in Fields \ {"hq"} : u[f] = s[f]
    BY DEF IsPlayer, Fields
  <2>2. t = ToHead(u, Head(s.hq))
    BY <1>2 DEF PopToHead
  <2> HIDE DEF u, t
  <2>3. Sendable(u) <=> Sendable(s)
    BY <2>1 DEF Sendable, Ready, Fields
  <2>4. u.exc = "none" /\ u.out = s.out
    BY <2>1 DEF Fields
  <2>5. CASE Sendable(s)
    <3>1. t = [u EXCEPT !.out = Head(s.hq)]
      BY <2>2, <2>3, <2>5 DEF ToHead
    <3> QED
      BY <2>1, <2>4, <2>5, <3>1 DEF Fields
  <2>6. CASE ~Sendable(s)
    <3>1. t = [u EXCEPT !.exc = "other"]
      BY <2>2, <2>3, <2>6 DEF ToHead, Raise
    <3> QED
      BY <2>1, <2>4, <2>6, <3>1 DEF Fields
  <2> QED
    BY <2>5, <2>6
<1> HIDE DEF t
<1>3. CASE s.hq = <<>>
  BY <1>1, <1>3 DEF t
<1>4. CASE s.hq # <<>> /\ s.status \in Ended
  <2>1. t.status = s.status
    BY <1>2, <1>4 DEF Fields
  <2>2. s.status # 18
    BY <1>4, Ends
  <2> QED
    BY <1>4, <2>1, <2>2, EndedWarm DEF t
<1>5. CASE s.hq # <<>> /\ s.status \notin Ended
  <2>1. Linked(s, k) /\ Planned(s) /\ Returning(s) /\ Hot(s, k)
    BY <1>5 DEF Warm
  <2>2. /\ t.status = s.status /\ t.stash = s.stash /\ SamePlan(s, t) /\ t.queue = s.queue
        /\ t.fin = s.fin /\ t.th = s.th /\ t.rt = s.rt /\ t.errno = s.errno
        /\ t.power = s.power /\ t.temp = s.temp /\ t.v24 = s.v24
        /\ t.wasReset = s.wasReset /\ t.want = s.want /\ t.heat = s.heat
        /\ t.allsetCb = s.allsetCb
    BY <1>2, <1>5 DEF Fields, SamePlan
  <2>3. s.th # "BOOTING" /\ s.status \notin Starting /\ ~Moving(s, k)
    BY <1>5, <2>1 DEF Linked, Hot
  <2>4. t.exc # "hardware"
    <3>1. t.exc \in {"none", "other"}
      BY <1>2, <1>5
    <3> QED
      BY <3>1
  <2>5. Linked(t, k)
    BY ZenonT(60), <2>1, <2>2, <2>3, <2>4 DEF Linked
  <2>6. Planned(t)
    BY <2>1, <2>2 DEF Planned, SamePlan
  <2>7. Hot(t, k)
    <3>1. ~Moving(t, k)
      BY <2>2, <2>3 DEF Moving
    <3> QED
      BY <3>1 DEF Hot
  <2>8. s.status = 18 /\ s.stash = "stashed" => t.hq = <<>> /\ t.out = s.want /\ Returning(t)
    <3> SUFFICES ASSUME s.status = 18, s.stash = "stashed"
                 PROVE  t.hq = <<>> /\ t.out = s.want /\ Returning(t)
      OBVIOUS
    <3>1. s.th = "RUNNING" /\ s.v24 /\ s.hq = <<s.want>> /\ s.out = "none"
      BY <1>5, <2>1, <2>3 DEF Returning
    <3>2. Sendable(s)
      BY <3>1 DEF Sendable, Ready
    <3>3. Tail(s.hq) = <<>> /\ Head(s.hq) = s.want
      BY <3>1
    <3>4. t.hq = <<>> /\ t.out = s.want
      BY <1>2, <1>5, <3>2, <3>3
    <3> QED
      BY <2>2, <3>1, <3>4 DEF Returning
  <2>9. Returning(t)
    <3>1. t.status = 18 /\ t.stash = "stashed" => Returning(t)
      BY <2>2, <2>8
    <3> QED
      BY <3>1 DEF Returning
  <2> QED
    BY <2>5, <2>6, <2>7, <2>8, <2>9 DEF Warm, t
<1> QED
  BY <1>3, <1>4, <1>5

\* What the head confirms, it has done.
LEMMA ConfirmedWarm ==
    ASSUME NEW s, NEW t, IsPlayer(s), NEW k, Warm(s, k), s.exc = "none", s.out # "none",
           t.out = "none", s.out = "fan" => t.heat = s.heat,
           s.out \in Levels => t.heat = s.out,
           \A f \in Fields \ {"out", "heat"} : t[f] = s[f]
    PROVE  Warm(t, k)
<1>1. /\ t.status = s.status /\ t.stash = s.stash /\ SamePlan(s, t) /\ t.queue = s.queue
      /\ t.fin = s.fin /\ t.th = s.th /\ t.rt = s.rt /\ t.errno = s.errno
      /\ t.power = s.power /\ t.temp = s.temp /\ t.v24 = s.v24 /\ t.hq = s.hq
      /\ t.wasReset = s.wasReset /\ t.want = s.want /\ t.updating = s.updating
      /\ t.allsetCb = s.allsetCb /\ t.exc = s.exc
  BY DEF Fields, SamePlan
<1>2. SUFFICES ASSUME s.status \notin Ended
               PROVE  Linked(t, k) /\ Planned(t) /\ Returning(t) /\ Hot(t, k)
  BY <1>1 DEF Warm
<1>3. Linked(s, k) /\ Planned(s) /\ Returning(s) /\ Hot(s, k)
  BY <1>2 DEF Warm
<1>4. Linked(t, k)
  BY ZenonT(60), <1>1, <1>3 DEF Linked
<1>5. Planned(t)
  BY <1>1, <1>3 DEF Planned, SamePlan
<1>6. s.th # "BOOTING" /\ \A v \in Hots : v \in Levels /\ v # "fan"
  BY <1>3, HotValues DEF Linked, Levels
<1>7. Returning(t)
  <2> SUFFICES ASSUME s.status = 18, s.stash = "stashed" PROVE Returning(t)
    BY <1>1 DEF Returning
  <2>1. s.th = "RUNNING" /\ s.v24 /\ s.hq = <<>> /\ s.out = s.want
    BY <1>3, <1>6 DEF Returning
  <2>2. Told(s) => t.heat = s.want
    BY <1>6, <2>1 DEF Told
  <2> QED
    BY <1>1, <2>1, <2>2 DEF Returning, Told
<1>8. Hot(t, k)
  <2> SUFFICES ASSUME Moving(s, k) PROVE Hot(t, k)
    BY <1>1 DEF Hot, Moving
  <2>1. s.hq = <<>> /\ s.th # "BOOTING" /\ (s.th = "RUNNING" => s.v24)
    BY <1>3 DEF Hot
  <2>2. ASSUME Waited(t.next)
        PROVE  /\ t.th = "RUNNING"
               /\ Told(t) => t.heat \in Hots
               /\ Told(t) /\ t.macro # "job heat" => t.temp # "cold"
    <3>1. Waited(s.next)
      BY <1>1, <2>2 DEF SamePlan
    <3>2. /\ s.th = "RUNNING" /\ s.out \in {"none", "fan"} \cup Hots
          /\ Told(s) => s.heat \in Hots \/ s.out \in Hots
          /\ Told(s) /\ s.macro # "job heat" => s.temp # "cold"
      BY <1>3, <3>1 DEF Hot
    <3>3. Told(s) => t.heat \in Hots
      BY <1>6, <3>2
    <3> QED
      BY <1>1, <3>2, <3>3 DEF Told, SamePlan
  <2>3. t.out \in {"none", "fan"} \cup Hots /\ t.out # "fan"
    OBVIOUS
  <2> QED
    BY <1>1, <2>1, <2>2, <2>3 DEF Hot
<1> QED
  BY <1>4, <1>5, <1>7, <1>8

LEMMA CallbackWarm ==
    ASSUME NEW s, NEW g, NEW k, Live(s), Fit(s, g), Warm(s, k), s.exc = "none",
           HeadKind = "EXTRUDER", s.out = "none", s.hq = <<>>, s.status \notin Starting,
           s.status \notin Ended => s.th # "BOOTING",
           s.status = 50 /\ s.cb = "paused" => s.stash = "stashed",
           s.stash # "none" => Len(s.queue) < BufSize
    PROVE  Warm(Callback(s), k)
<1> DEFINE t == [s EXCEPT !.cb = "none"]
<1>1. SUFFICES ASSUME s.status \notin Ended PROVE Warm(Callback(s), k)
  <2>1. s.status \in Ended => Callback(s).status \in Ended
    BY CallbackLeads DEF Leads
  <2> QED
    BY <2>1, EndedWarm
<1>2. IsPlayer(s) /\ Keeps(s, t) /\ Calm(s, t)
  <2>1. Keeps(s, t)
    <3>1. IsPlayer(s)
      BY LivePlayer
    <3> QED
      BY ZenonT(120), <3>1, CallbackValues DEF IsPlayer, Fields, Keeps, Same
  <2> QED
    BY <2>1, LivePlayer, AsideCalm
<1>3. Alike(s, t) /\ t.exc = "none"
  <2>1. t.exc = "none"
    BY <1>2 DEF IsPlayer, Fields
  <2> QED
    BY <1>2, <2>1, AsideAlike
<1> HIDE DEF t
<1>4. Live(t) /\ Fit(t, g) /\ IsPlayer(t)
  BY <1>2, KeepsLeads, CalmFit DEF Leads, Keeps
<1>5. t.status = s.status /\ t.stash = s.stash /\ t.queue = s.queue
  BY <1>2 DEF Calm
<1>6. Warm(t, k) /\ Core(t, k)
  BY <1>3, AlikeWarm, WarmCore
<1>7. t.status = 18 /\ t.stash = "stashed" => Len(t.queue) < BufSize /\ (Allset(t) => Heated(t))
  <2> SUFFICES ASSUME t.status = 18, t.stash = "stashed", Allset(t) \/ ~Allset(t)
               PROVE  Len(t.queue) < BufSize /\ (Allset(t) => Heated(t))
    OBVIOUS
  <2>1. Len(t.queue) < BufSize
    <3>1. s.stash # "none"
      BY <1>5
    <3> QED
      BY <1>5, <3>1
  <2>2. Linked(t, k) /\ Returning(t) /\ t.status \notin Ended
    BY <1>1, <1>3, <1>5, <1>6 DEF Warm
  <2>3. t.out = "none" /\ t.hq = <<>> /\ t.th # "BOOTING"
    BY <1>1, <1>3 DEF Alike, SameHead
  <2>4. t.th = "RUNNING" /\ t.v24 /\ (Told(t) => t.heat = t.want /\ t.want \in Hots)
    <3>1. <<t.want>> # <<>>
      OBVIOUS
    <3> QED
      BY <2>2, <2>3, <3>1, HotValues DEF Returning, Told
  <2>5. Allset(t) /\ Told(t) => t.temp # "cold"
    BY <2>2 DEF Linked, Allset, Told
  <2> QED
    BY <2>1, <2>3, <2>4, <2>5 DEF Heated
<1>8. Warm(Recovered(t), k)
  BY <1>3, <1>4, <1>5, <1>6, <1>7, RecoveredWarm
<1>9. Warm(Close(t), k)
  BY <1>4, <1>6, AsideAlike, AlikeWarm
<1>10. s.cb = "paused" => Warm(ToolheadPaused(t), k)
  <2> SUFFICES ASSUME s.cb = "paused" PROVE Warm(ToolheadPaused(t), k)
    OBVIOUS
  <2>1. CASE s.status \notin {48, 50}
    BY <1>5, <1>6, <2>1 DEF ToolheadPaused
  <2>2. CASE s.status \in {48, 50}
    <3>1. t.status = 50 => t.stash = "stashed" /\ Len(t.queue) < BufSize
      <4>1. s.status = 50 => s.stash = "stashed" /\ s.stash # "none"
        OBVIOUS
      <4> QED
        BY <1>5, <4>1
    <3>2. t.status \in {48, 50}
      BY <1>5, <2>2
    <3>3. Core(ToolheadPaused(t), k) /\ Still(ToolheadPaused(t))
      BY <1>3, <1>4, <1>6, <3>1, <3>2, ToolheadPausedCore
    <3> QED
      BY <3>3, StillWarm
  <2> QED
    BY <2>1, <2>2
<1>11. \/ Callback(s) \in {t, Recovered(t), Close(t)}
       \/ s.cb = "paused" /\ Callback(s) = ToolheadPaused(t)
  BY DEF Callback, t
<1> QED
  BY <1>6, <1>8, <1>9, <1>10, <1>11

\* A reading arrives, of a head that was hot when it was asked for.
LEMMA ReadingWarm ==
    ASSUME NEW s, NEW t, NEW k, Warm(s, k), s.exc = "none", s.updating,
           ~t.updating, t.rt \in {s.rt, s.temp}, t.errno = s.errno \/ k # 0,
           \A f \in Fields \ {"updating", "rt", "errno"} : t[f] = s[f]
    PROVE  Warm(t, k)
<1>1. /\ t.status = s.status /\ t.stash = s.stash /\ SamePlan(s, t) /\ t.queue = s.queue
      /\ t.fin = s.fin /\ t.th = s.th /\ t.out = s.out /\ t.heat = s.heat
      /\ t.power = s.power /\ t.temp = s.temp /\ t.v24 = s.v24 /\ t.hq = s.hq
      /\ t.wasReset = s.wasReset /\ t.want = s.want
      /\ t.allsetCb = s.allsetCb /\ t.exc = s.exc
  BY DEF Fields, SamePlan
<1>2. SUFFICES ASSUME s.status \notin Ended
               PROVE  Linked(t, k) /\ Planned(t) /\ Returning(t) /\ Hot(t, k)
  BY <1>1 DEF Warm
<1>3. Linked(s, k) /\ Planned(s) /\ Returning(s) /\ Hot(s, k)
  BY <1>2 DEF Warm
<1>4. Linked(t, k)
  <2>1. t.rt \in Hots => t.temp # "cold"
    BY <1>1, <1>3, HotValues DEF Linked
  <2> QED
    BY ZenonT(60), <1>1, <1>3, <2>1 DEF Linked
<1>5. Planned(t)
  BY <1>1, <1>3 DEF Planned, SamePlan
<1>6. Returning(t)
  BY <1>1, <1>3 DEF Returning, Told
<1>7. Hot(t, k)
  <2> SUFFICES ASSUME Moving(s, k) PROVE Hot(t, k)
    BY <1>1 DEF Hot, Moving
  <2> QED
    BY <1>1, <1>3 DEF Hot, Told, SamePlan
<1> QED
  BY <1>4, <1>5, <1>6, <1>7

LEMMA PongWarm ==
    ASSUME NEW s, NEW g, NEW k, Live(s), Fit(s, g), s.exc = "none", ~s.updating, Warm(s, k),
           HeadKind = "EXTRUDER",
           Warm([s EXCEPT !.rt = s.temp], k),
           s.stash # "none" => Len(s.queue) + 1 < BufSize,
           s.status = 18 /\ s.th = "BOOTING" /\ s.allsetCb = "resume" =>
               s.wasReset \/ (s.want \in Hots /\ s.temp # s.want)
    PROVE  Warm(Pong(s), k)
<1> DEFINE r == ToolheadReset(s)
           u == [s EXCEPT !.rt = s.temp]
           t == PopToHead(u)
<1>1. SUFFICES ASSUME s.status \notin Ended PROVE Warm(Pong(s), k)
  <2>1. s.status \in Ended => Pong(s).status \in Ended
    BY PongLeads DEF Leads
  <2> QED
    BY <2>1, EndedWarm
<1>2. IsPlayer(s) /\ IsPlayer(r)
  BY ToolheadResetKeeps, LivePlayer DEF Keeps
<1>3. CASE s.wasReset /\ s.th # "INIT"
  <2>1. Pong(s) = Raise(r, "head lost")
    BY <1>3 DEF Pong
  <2>2. k # 0 \/ ~Moving(s, k)
    <3>1. Linked(s, k) /\ Hot(s, k)
      BY <1>1 DEF Warm
    <3>2. s.th \in {"BOOTING", "RUNNING"}
      BY <1>2, <1>3, HeadValues DEF IsPlayer
    <3> QED
      BY <1>3, <3>1, <3>2 DEF Linked, Hot
  <2>3. Core(r, k)
    BY <1>2, <2>2, WarmCore, ResetCore
  <2> HIDE DEF r
  <2>4. Core(Raise(r, "head lost"), k) /\ Raise(r, "head lost").exc # "none"
    <3>1. Raise(r, "head lost").exc # "none"
      BY <1>2 DEF Raise, IsPlayer, Fields
    <3> QED
      BY <1>2, <2>3, <3>1, AsideAlike, AlikeWarm
  <2> QED
    BY <2>1, <2>4, CoreExc
<1>4. CASE ~(s.wasReset /\ s.th # "INIT")
  <2>1. s.temp \in HeadReadings
    BY <1>2 DEF IsPlayer, Temps, HeadReadings
  <2>2. Keeps(s, u) /\ Calm(s, u)
    BY ZenonT(120), <1>2, <2>1, AsideCalm DEF IsPlayer, Fields, Keeps, Same
  <2>3. u.rt = s.temp /\ \A f \in Fields \ {"rt"} : u[f] = s[f]
    BY <1>2 DEF IsPlayer, Fields
  <2> HIDE DEF u
  <2>4. Live(u) /\ IsPlayer(u) /\ Warm(u, k) /\ u.exc = "none"
    BY <2>2, <2>3, KeepsLeads DEF Leads, Keeps, Fields, u
  <2>5. Live(t) /\ Calm(s, t)
    BY <2>2, <2>4, PopToHeadKeeps, KeepsLeads, PopToHeadCalm, CalmOn DEF Leads
  <2>6. Warm(t, k) /\ (u.status = 18 /\ u.stash = "stashed" => t.hq = <<>>)
    BY <2>4, PopWarm
  <2>7. t.th = u.th /\ t.want = u.want /\ t.rt = u.rt /\ t.updating = u.updating
    BY <2>4 DEF PopToHead, ToHead, Raise, IsPlayer, Fields
  <2>8. u.th = s.th /\ u.want = s.want /\ u.updating = s.updating
    BY <2>3 DEF Fields
  <2> HIDE DEF t
  <2>9. Fit(t, g) /\ t.status = s.status /\ t.stash = s.stash /\ t.queue = s.queue
        /\ t.allsetCb = s.allsetCb
    BY <2>5, CalmFit DEF Calm
  <2>10. Pong(s) = t \/ (t.exc = "none" /\ t.allsetCb # "none" /\ Allset(t)
                         /\ Pong(s) = HeadAllset(t))
    BY <1>4 DEF Pong, Then, t, u
  <2>11. ASSUME t.exc = "none", t.allsetCb # "none", Allset(t)
         PROVE  Warm(HeadAllset(t), k)
    <3>1. t.status = 18 /\ t.stash = "stashed" =>
              Len(t.queue) + 1 < BufSize /\ t.th # "BOOTING" /\ t.hq = <<>>
      <4> SUFFICES ASSUME t.status = 18, t.stash = "stashed"
                   PROVE  Len(t.queue) + 1 < BufSize /\ t.th # "BOOTING" /\ t.hq = <<>>
        OBVIOUS
      <4>1. Len(t.queue) + 1 < BufSize
        <5>1. s.stash # "none"
          BY <2>9
        <5> QED
          BY <2>9, <5>1
      <4>2. u.status = 18 /\ u.stash = "stashed"
        BY <2>2, <2>9 DEF Calm
      <4>3. s.allsetCb = "resume"
        <5>1. s.stash # "none"
          BY <2>9
        <5>2. s.allsetCb \in {"none", "resume"}
          BY ZenonT(120), <1>1, <5>1 DEF Fit, Resting
        <5> QED
          BY <2>9, <2>11, <5>2
      <4>4. t.th # "BOOTING"
        <5> SUFFICES ASSUME t.th = "BOOTING" PROVE FALSE
          OBVIOUS
        <5>1. s.th = "BOOTING" /\ ~s.wasReset
          BY <1>4, <2>7, <2>8
        <5>2. s.want \in Hots /\ s.temp # s.want
          BY <2>9, <4>3, <5>1
        <5>3. t.want \in Hots => t.rt = t.want
          BY <2>11 DEF Allset
        <5> QED
          BY <2>3, <2>7, <2>8, <5>2, <5>3
      <4> QED
        BY <2>6, <4>1, <4>2, <4>4
    <3>2. ~t.updating
      BY <2>7, <2>8
    <3> QED
      BY <2>5, <2>6, <2>9, <2>11, <3>1, <3>2, HeadAllsetWarm
  <2> QED
    BY <2>6, <2>10, <2>11
<1> QED
  BY <1>3, <1>4

-----------------------------------------------------------------------------
(* on_loop and the requests. *)

\* A ping leaves a head that has no command to answer.
LEMMA PingWarm ==
    ASSUME NEW s, NEW t, NEW k, Warm(s, k), s.exc = "none",
           t.updating => s.updating \/ Sendable(s),
           \A f \in Fields \ {"updating"} : t[f] = s[f]
    PROVE  Warm(t, k)
<1>1. /\ t.status = s.status /\ t.stash = s.stash /\ SamePlan(s, t) /\ t.queue = s.queue
      /\ t.fin = s.fin /\ t.th = s.th /\ t.out = s.out /\ t.heat = s.heat
      /\ t.power = s.power /\ t.temp = s.temp /\ t.v24 = s.v24 /\ t.hq = s.hq
      /\ t.wasReset = s.wasReset /\ t.want = s.want /\ t.rt = s.rt /\ t.errno = s.errno
      /\ t.allsetCb = s.allsetCb /\ t.exc = s.exc
  BY DEF Fields, SamePlan
<1>2. SUFFICES ASSUME s.status \notin Ended
               PROVE  Linked(t, k) /\ Planned(t) /\ Returning(t) /\ Hot(t, k)
  BY <1>1 DEF Warm
<1>3. Linked(s, k) /\ Planned(s) /\ Returning(s) /\ Hot(s, k)
  BY <1>2 DEF Warm
<1>4. Linked(t, k)
  BY ZenonT(60), <1>1, <1>3 DEF Linked
<1>5. Planned(t)
  BY <1>1, <1>3 DEF Planned, SamePlan
<1>6. Returning(t)
  BY <1>1, <1>3 DEF Returning, Told
<1>7. Hot(t, k)
  <2> SUFFICES ASSUME Moving(s, k) PROVE Hot(t, k)
    BY <1>1 DEF Hot, Moving
  <2>1. Sendable(s) => s.out \notin Hots
    BY HotValues DEF Sendable
  <2> QED
    BY <1>1, <1>3, <2>1 DEF Hot, Told, SamePlan
<1> QED
  BY <1>4, <1>5, <1>6, <1>7

LEMMA IdleHeadWarm ==
    ASSUME NEW s, IsPlayer(s), NEW k, Warm(s, k), s.exc = "none"
    PROVE  Warm(IdleHead(s), k)
<1> DEFINE r == ToolheadReset(s)
           t == PowerOff(r)
<1>1. Warm(Close(s), k)
  BY AsideAlike, AlikeWarm
<1>2. s.status = 48 => Warm(t, k)
  <2> SUFFICES ASSUME s.status = 48 PROVE Warm(t, k)
    OBVIOUS
  <2>1. IsPlayer(r) /\ r.status = 48
    BY ToolheadResetKeeps DEF Keeps, Same
  <2>2. Core(r, k)
    <3>1. ~Moving(s, k)
      BY DEF Moving
    <3> QED
      BY <3>1, WarmCore, ResetCore
  <2>3. r.th = "INIT"
    BY DEF ToolheadReset, IsPlayer, Fields
  <2> HIDE DEF r
  <2>4. \A f \in Fields \ {"power", "heat", "wasReset"} : t[f] = r[f]
    BY <2>1 DEF PowerOff, IsPlayer, Fields
  <2> HIDE DEF t
  <2>5. /\ t.status = 48 /\ SamePlan(r, t) /\ t.queue = r.queue /\ t.fin = r.fin
        /\ t.th = "INIT" /\ t.out = r.out /\ t.hq = r.hq /\ t.errno = r.errno
        /\ t.temp = r.temp /\ t.want = r.want /\ t.rt = r.rt
        /\ t.allsetCb = r.allsetCb /\ t.exc = r.exc
    BY <2>1, <2>3, <2>4 DEF Fields, SamePlan
  <2>6. Linked(r, k) /\ Planned(r)
    <3>1. r.status \notin Ended
      BY <2>1, Ends
    <3> QED
      BY <2>2, <3>1 DEF Core
  <2>7. Linked(t, k)
    <3>1. t.th # "BOOTING" /\ t.th # "RUNNING" /\ t.status \notin Starting
      BY <2>5 DEF Starting
    <3> QED
      BY ZenonT(60), <2>5, <2>6, <3>1 DEF Linked
  <2>8. Planned(t)
    BY <2>5, <2>6 DEF Planned, SamePlan
  <2>9. Hot(t, k)
    <3>1. ~Moving(t, k)
      BY <2>5 DEF Moving
    <3> QED
      BY <3>1 DEF Hot
  <2>10. Core(t, k) /\ t.status \in {4, 6, 36, 38, 48, 50}
    BY <2>5, <2>7, <2>8, <2>9 DEF Core
  <2> QED
    BY <2>10, CoreWarm
<1>3. IdleHead(s) \in {s, Close(s)} \/ (s.status = 48 /\ IdleHead(s) = t)
  BY DEF IdleHead, r, t
<1> QED
  BY <1>1, <1>2, <1>3

\* What is left when a request was answered.
LEMMA QuietWarm ==
    ASSUME NEW s, IsPlayer(s), NEW k, Warm(s, k), s.exc = "none"
    PROVE  Warm(Quiet(s), k)
<1>1. Alike(s, Quiet(s))
  BY DEF Quiet, IsPlayer, Fields, Alike, SameHead, SamePlan
<1> QED
  BY <1>1, AlikeWarm

LEMMA SoftAbortWarm ==
    ASSUME NEW s, IsPlayer(s), NEW k, Warm(s, k), s.exc = "none"
    PROVE  Warm(Quiet(SoftAbort(s)), k)
<1> DEFINE t == [s EXCEPT !.macro = "soft abort"]
           a == Abort(s, "none")
<1>1. /\ t.status = s.status /\ t.stash = s.stash /\ SameHead(s, t) /\ t.tasks = s.tasks
      /\ t.heatTo = s.heatTo /\ t.next = s.next /\ t.queue = s.queue /\ t.fin = s.fin
      /\ t.allsetCb = s.allsetCb /\ t.exc = "none" /\ t.macro = "soft abort"
  BY DEF IsPlayer, Fields, SameHead
<1>2. IsPlayer(t)
  BY ZenonT(120), MacroValues DEF IsPlayer, Fields
<1> HIDE DEF t
<1>3. s.status = 16 /\ s.macro = "none" => Warm(t, k)
  <2> SUFFICES ASSUME s.status = 16, s.macro = "none" PROVE Warm(t, k)
    OBVIOUS
  <2>1. Linked(s, k) /\ Planned(s) /\ Hot(s, k)
    <3>1. s.status \notin Ended
      BY Ends
    <3> QED
      BY <3>1 DEF Warm
  <2>2. Linked(t, k)
    BY ZenonT(60), <1>1, <2>1 DEF Linked, SameHead
  <2>3. Planned(t)
    <3>1. "none" \notin MacroKinds /\ "soft abort" \notin MacroKinds
      BY DEF MacroKinds
    <3> QED
      BY <1>1, <2>1, <3>1 DEF Planned, SameHead
  <2>4. Returning(t)
    <3>1. t.status # 18
      <4>1. t.status = s.status
        BY <1>1
      <4> QED
        BY <4>1
    <3> QED
      BY <3>1 DEF Returning
  <2>5. Hot(t, k)
    <3>1. Moving(s, k)
      BY DEF Moving
    <3> QED
      BY <1>1, <2>1, <3>1 DEF Hot, Told, SameHead
  <2> QED
    BY <2>2, <2>3, <2>4, <2>5 DEF Warm
<1>4. a.status \in Ended /\ IsPlayer(a)
  BY AbortEnds, AbortPlayer, ErrorValues
<1> HIDE DEF a
<1>5. Warm(Quiet(a), k)
  <2>1. Quiet(a).status = a.status
    BY <1>4 DEF Quiet, IsPlayer, Fields
  <2> QED
    BY <1>4, <2>1, EndedWarm
<1>6. s.status = 16 /\ s.macro = "none" => Warm(Quiet(t), k)
  BY <1>1, <1>2, <1>3, QuietWarm
<1>7. SoftAbort(s) = a \/ (s.status = 16 /\ s.macro = "none" /\ SoftAbort(s) = t)
  BY DEF SoftAbort, t, a
<1> QED
  BY <1>5, <1>6, <1>7

\* The user takes control of the head of a job that is paused.
LEMMA SetToolheadOperationWarm ==
    ASSUME NEW s, IsPlayer(s), NEW k, Warm(s, k), s.exc = "none"
    PROVE  Warm(Quiet(SetToolheadOperation(s)), k)
<1> DEFINE t == [s EXCEPT !.error = "none", !.control = FALSE]
           u == PowerOn(t)
           b == ToolheadBootstrap(u)
<1>1. CASE s.status = 48
  <2>1. IsPlayer(t) /\ \A f \in Fields \ {"error", "control"} : t[f] = s[f]
    BY ZenonT(120), ErrorValues, Booleans DEF IsPlayer, Fields
  <2> HIDE DEF t
  <2>2. IsPlayer(u) /\ \A f \in Fields \ {"power"} : u[f] = t[f]
    <3>1. IsPlayer(u)
      BY <2>1, PowerOnKeeps DEF Keeps
    <3>2. \A f \in Fields \ {"power"} : u[f] = t[f]
      BY <2>1 DEF PowerOn, IsPlayer, Fields
    <3> QED
      BY <3>1, <3>2
  <2> HIDE DEF u
  <2>3. /\ b.th = "BOOTING" /\ b.out = "none" /\ b.hq = <<>> /\ b.errno = "none"
        /\ \A f \in Fields \ {"th", "out", "hq", "errno"} : b[f] = u[f]
    BY <2>2 DEF ToolheadBootstrap, IsPlayer, Fields
  <2>4. IsPlayer(b)
    BY <2>2, ToolheadBootstrapKeeps DEF Keeps
  <2> HIDE DEF b
  <2>5. /\ b.status = 48 /\ SamePlan(s, b) /\ b.queue = s.queue /\ b.fin = s.fin
        /\ b.temp = s.temp /\ b.want = s.want /\ b.rt = s.rt
        /\ b.allsetCb = s.allsetCb /\ b.exc = "none"
    BY <1>1, <2>1, <2>2, <2>3 DEF Fields, SamePlan
  <2>6. Linked(s, k) /\ Planned(s)
    <3>1. s.status \notin Ended
      BY <1>1, Ends
    <3> QED
      BY <3>1 DEF Warm
  <2>7. Linked(b, k)
    <3>1. b.th # "RUNNING" /\ b.status \notin Starting
      BY <2>3, <2>5 DEF Starting
    <3> QED
      BY ZenonT(60), <2>3, <2>5, <2>6, <3>1 DEF Linked
  <2>8. Planned(b)
    BY <2>5, <2>6 DEF Planned, SamePlan
  <2>9. Hot(b, k)
    <3>1. ~Moving(b, k)
      BY <2>5 DEF Moving
    <3> QED
      BY <3>1 DEF Hot
  <2>10. Core(b, k) /\ b.status \in {4, 6, 36, 38, 48, 50}
    BY <2>5, <2>7, <2>8, <2>9 DEF Core
  <2>11. Warm(b, k)
    BY <2>10, CoreWarm
  <2>12. SetToolheadOperation(s) = b
    BY <1>1 DEF SetToolheadOperation, t, u, b
  <2> QED
    BY <2>4, <2>5, <2>11, <2>12, QuietWarm
<1>2. CASE s.status # 48
  BY <1>2, QuietWarm DEF SetToolheadOperation
<1> QED
  BY <1>1, <1>2

LEMMA SetToolheadStandbyWarm ==
    ASSUME NEW s, NEW g, NEW k, Live(s), Fit(s, g), Warm(s, k), s.exc = "none"
    PROVE  Warm(Quiet(SetToolheadStandby(s)), k)
<1> DEFINE t == [s EXCEPT !.control = TRUE]
<1>1. IsPlayer(s)
  BY LivePlayer
<1>2. Keeps(s, t) /\ Calm(s, t) /\ t.exc = "none"
  <2>1. Keeps(s, t)
    BY ZenonT(120), <1>1, Booleans DEF IsPlayer, Fields, Keeps, Same
  <2>2. Calm(s, t)
    BY ZenonT(120), <1>1 DEF IsPlayer, Fields, Calm
  <2>3. t.exc = "none"
    BY <1>1 DEF IsPlayer, Fields
  <2> QED
    BY <2>1, <2>2, <2>3
<1>3. Alike(s, t)
  BY <1>1, AsideAlike
<1> HIDE DEF t
<1>4. Live(t) /\ Fit(t, g) /\ t.status = s.status /\ Core(t, k)
  BY <1>2, <1>3, KeepsLeads, CalmFit, WarmCore, AlikeWarm DEF Leads, Calm
<1>5. s.status = 48 => Warm(Quiet(PauseToolhead(t)), k)
  <2> SUFFICES ASSUME s.status = 48 PROVE Warm(Quiet(PauseToolhead(t)), k)
    OBVIOUS
  <2>1. t.status \in {48, 50} /\ t.status # 50
    BY <1>4
  <2>2. Core(PauseToolhead(t), k) /\ Still(PauseToolhead(t))
    BY <1>2, <1>4, <2>1, PauseToolheadCore
  <2>3. IsPlayer(PauseToolhead(t))
    BY <1>4, PauseToolheadLeads, LivePlayer DEF Leads
  <2> QED
    BY <2>2, <2>3, StillQuiet
<1>6. SetToolheadStandby(s) = s \/ (s.status = 48 /\ SetToolheadStandby(s) = PauseToolhead(t))
  BY DEF SetToolheadStandby, t
<1> QED
  BY <1>1, <1>5, <1>6, QuietWarm

\* The heater of a paused job follows the user, and is off only when asked for.
LEMMA SetToolheadHeaterWarm ==
    ASSUME NEW s, IsPlayer(s), NEW k, Warm(s, k), s.exc = "none", NEW v \in {"hot", "off"},
           v = "off" => "HEATER_OFF" \in scenario.requests
    PROVE  Warm(Quiet(SetToolheadHeater(s, v)), k)
<1> DEFINE t == [s EXCEPT !.heatTo = IF s.macro = "heat" THEN v ELSE @]
           u == [t EXCEPT !.want = WantFor(v)]
           w == SetHeater(t, v)
<1>1. CASE s.status = 48 /\ Sendable(s)
  <2>1. /\ DOMAIN t = Fields /\ t.heatTo = IF s.macro = "heat" THEN v ELSE s.heatTo
        /\ \A f \in Fields \ {"heatTo"} : t[f] = s[f]
    BY DEF IsPlayer, Fields
  <2>2. IsPlayer(t)
    BY TargetValues DEF IsPlayer, Fields
  <2> HIDE DEF t
  <2>3. /\ DOMAIN u = Fields /\ u.want = WantFor(v)
        /\ \A f \in Fields \ {"want"} : u[f] = t[f]
    BY <2>1 DEF Fields
  <2>4. w = ToHead(u, v)
    BY DEF SetHeater, WantFor, u, w
  <2> HIDE DEF u, w
  <2>5. Sendable(u)
    BY <1>1, <2>1, <2>3 DEF Sendable, Ready, Fields
  <2>6. w = [u EXCEPT !.out = v]
    BY <2>4, <2>5 DEF ToHead
  <2>7. /\ w.want = (IF v = "off" THEN "unset" ELSE "hot")
        /\ w.heatTo = (IF s.macro = "heat" THEN v ELSE s.heatTo)
        /\ \A f \in Fields \ {"want", "heatTo", "out"} : w[f] = s[f]
    <3>1. WantFor(v) = IF v = "off" THEN "unset" ELSE "hot"
      BY DEF WantFor
    <3> QED
      BY <2>1, <2>3, <2>6, <3>1 DEF Fields
  <2>8. /\ w.status = 48 /\ w.macro = s.macro /\ w.tasks = s.tasks /\ w.next = s.next
        /\ w.queue = s.queue /\ w.fin = s.fin /\ w.th = s.th /\ w.hq = s.hq
        /\ w.rt = s.rt /\ w.errno = s.errno /\ w.power = s.power /\ w.temp = s.temp
        /\ w.wasReset = s.wasReset /\ w.allsetCb = s.allsetCb /\ w.exc = "none"
    BY <1>1, <2>7 DEF Fields
  <2>9. Linked(s, k) /\ Planned(s)
    <3>1. s.status \notin Ended
      BY <1>1, Ends
    <3> QED
      BY <3>1 DEF Warm
  <2>10. Linked(w, k)
    <3>1. w.th # "BOOTING" /\ w.status \notin Starting
      <4>1. s.th = "RUNNING"
        BY <1>1 DEF Sendable, Ready
      <4> QED
        BY <2>8, <4>1 DEF Starting
    <3> QED
      BY ZenonT(60), <2>8, <2>9, <3>1 DEF Linked
  <2>11. Planned(w)
    <3>1. /\ w.macro = "job heat" =>
                 /\ w.next > 1 /\ Kind(w.next - 1) = "wait" /\ w.heatTo = Target(w.next - 1)
                 /\ NoJob(w.queue, w.fin)
          /\ w.macro \notin MacroKinds => w.tasks = <<>>
          /\ w.macro \in MacroKinds => w.next = 1
          /\ OnlyMoves(w.queue)
      <4>1. s.macro = "job heat" => w.heatTo = s.heatTo
        BY <2>7
      <4> QED
        BY <2>8, <2>9, <4>1 DEF Planned
    <3>2. w.want # "low" /\ ("HEATER_OFF" \notin scenario.requests => w.want \in Hots)
      BY <2>7 DEF Hots
    <3>3. "HEATER_OFF" \notin scenario.requests => (w.macro = "heat" => w.heatTo = "hot")
      BY <2>7, <2>8, <2>9 DEF Planned
    <3> QED
      BY <3>1, <3>2, <3>3 DEF Planned
  <2>12. Hot(w, k)
    <3>1. ~Moving(w, k)
      BY <2>8 DEF Moving
    <3> QED
      BY <3>1 DEF Hot
  <2>13. Core(w, k) /\ w.status \in {4, 6, 36, 38, 48, 50}
    BY <2>8, <2>10, <2>11, <2>12 DEF Core
  <2>14. Warm(w, k)
    BY <2>13, CoreWarm
  <2>15. IsPlayer(w)
    BY <2>2, SetHeaterKeeps, TargetValues DEF Keeps, w
  <2>16. SetToolheadHeater(s, v) \in {s, w}
    BY DEF SetToolheadHeater, t, w
  <2> QED
    BY <2>8, <2>14, <2>15, <2>16, QuietWarm
<1>2. CASE ~(s.status = 48 /\ Sendable(s))
  BY <1>2, QuietWarm DEF SetToolheadHeater
<1> QED
  BY <1>1, <1>2

LEMMA LoadFilamentWarm ==
    ASSUME NEW s, NEW k, Live(s), Warm(s, k), s.exc = "none"
    PROVE  Warm(Quiet(LoadFilament(s)), k)
<1> DEFINE t == [s EXCEPT !.pausedMacro = "to send"]
           u == PausedMacroEmpty(t)
<1>1. IsPlayer(s) /\ Alike(s, t)
  BY LivePlayer, AsideAlike
<1>2. Keeps(s, t) /\ t.exc = "none"
  <2>1. Keeps(s, t)
    BY ZenonT(120), <1>1, LoadValues DEF IsPlayer, Fields, Keeps, Same
  <2> QED
    BY <1>1, <2>1 DEF IsPlayer, Fields
<1> HIDE DEF t
<1>3. Live(t) /\ IsPlayer(t) /\ Warm(t, k)
  BY <1>1, <1>2, KeepsLeads, AlikeWarm DEF Leads, Keeps
<1>4. IsPlayer(u) /\ Alike(t, u)
  BY <1>3, PausedMacroAlike, PausedMacroEmptyLeads, LivePlayer DEF Leads
<1> HIDE DEF u
<1>5. s.status = 48 => Warm(Quiet(u), k)
  <2>1. s.status = 48 => Still(u)
    BY <1>1, <1>4 DEF Still, Alike
  <2>2. Core(u, k)
    BY <1>3, <1>4, WarmCore, AlikeWarm
  <2> QED
    BY <1>4, <2>1, <2>2, StillQuiet
<1>6. LoadFilament(s) \in {s, t} \/ (s.status = 48 /\ LoadFilament(s) = u)
  BY DEF LoadFilament, t, u
<1> QED
  BY <1>1, <1>2, <1>3, <1>5, <1>6, QuietWarm

-----------------------------------------------------------------------------
(* The steps. *)

\* After more faults there is less to show.
LEMMA WarmLater ==
    ASSUME NEW s, NEW j, NEW k, Warm(s, j), s.exc = "none", k = 0 => j = 0
    PROVE  Warm(s, k)
<1> SUFFICES ASSUME s.status \notin Ended
             PROVE  Linked(s, k) /\ Planned(s) /\ Returning(s) /\ Hot(s, k)
  BY DEF Warm
<1>1. Linked(s, j) /\ Planned(s) /\ Returning(s) /\ Hot(s, j)
  BY DEF Warm
<1>2. Linked(s, k)
  BY ZenonT(60), <1>1 DEF Linked
<1>3. Hot(s, k)
  <2>1. Moving(s, k) => Moving(s, j)
    BY DEF Moving
  <2> QED
    BY <1>1, <2>1 DEF Hot
<1> QED
  BY <1>1, <1>2, <1>3

LEMMA MbReadyHeats ==
    ASSUME SInv, HeadKind = "EXTRUDER", NEW k, Warm(p, k), MbReady
    PROVE  Warm(p', k)
<1> DEFINE s == [p EXCEPT !.mb = "ready"]
           v == PowerOn(s)
           t == ToolheadBootstrap(v)
<1>1. p.mb = "off" /\ p' = Caught(t)
  BY DEF MbReady, Step, OnMainboardReady
<1>2. p.status \in {4, 38, 128} /\ Sound(p) /\ IsPlayer(p) /\ Fit(p, p.ctrl) /\ p.exc = "none"
  BY <1>1 DEF SInv, IInv, Open, Sound
<1>3. /\ IsPlayer(s) /\ s.mb = "ready" /\ s.status = p.status /\ s.next = p.next
      /\ s.fed = p.fed /\ s.queue = p.queue /\ s.fin = p.fin /\ s.did = p.did
      /\ \A f \in Fields \ {"mb"} : s[f] = p[f]
  BY <1>2, MbValues DEF IsPlayer, Fields
<1>4. Fit(s, p.ctrl)
  BY <1>1, <1>2, OffFree, ReadyFit
<1> HIDE DEF s
<1>5. Live(s)
  <2>1. p.status # 64
    BY <1>2
  <2> QED
    BY <1>2, <1>3, <2>1 DEF Live, Sound
<1>6. Live(t) /\ Fit(t, p.ctrl)
  <2>1. Live(OnMainboardReady(s)) /\ Fit(OnMainboardReady(s), p.ctrl)
    BY <1>3, <1>4, <1>5, OnMainboardReadyKeeps, KeepsLeads, HalCalm, CalmFit DEF Leads
  <2> QED
    BY <2>1 DEF OnMainboardReady, t, v
<1>7. IsPlayer(v) /\ v.power = TRUE /\ \A f \in Fields \ {"power"} : v[f] = s[f]
  <2>1. IsPlayer(v)
    BY <1>3, PowerOnKeeps DEF Keeps
  <2>2. v.power = TRUE /\ \A f \in Fields \ {"power"} : v[f] = s[f]
    BY <1>3 DEF PowerOn, IsPlayer, Fields
  <2> QED
    BY <2>1, <2>2
<1> HIDE DEF v
<1>8. /\ t.th = "BOOTING" /\ t.out = "none" /\ t.hq = <<>> /\ t.errno = "none"
      /\ \A f \in Fields \ {"th", "out", "hq", "errno"} : t[f] = v[f]
  BY <1>7 DEF ToolheadBootstrap, IsPlayer, Fields
<1> HIDE DEF t
<1>9. /\ t.status = p.status /\ SamePlan(p, t) /\ t.queue = p.queue /\ t.fin = p.fin
      /\ t.temp = p.temp /\ t.want = p.want /\ t.rt = p.rt
      /\ t.allsetCb = p.allsetCb /\ t.exc = "none"
  BY <1>2, <1>3, <1>7, <1>8 DEF Fields, SamePlan
<1>10. Warm(t, k)
  <2>1. CASE p.status = 128
    BY <1>9, <2>1, Ends, EndedWarm
  <2>2. CASE p.status # 128
    <3>1. p.status \in {4, 38} /\ p.status \notin Ended
      BY <1>2, <2>2, Ends
    <3>2. Linked(p, k) /\ Planned(p)
      BY <3>1 DEF Warm
    <3>3. Linked(t, k)
      <4>1. t.th # "RUNNING"
        BY <1>8
      <4> QED
        BY ZenonT(60), <1>8, <1>9, <3>2, <4>1 DEF Linked
    <3>4. Planned(t)
      BY <1>9, <3>2 DEF Planned, SamePlan
    <3>5. Hot(t, k)
      <4>1. ~Moving(t, k)
        BY <1>9, <3>1 DEF Moving
      <4> QED
        BY <4>1 DEF Hot
    <3>6. Core(t, k) /\ t.status \in {4, 6, 36, 38, 48, 50}
      BY <1>9, <3>1, <3>3, <3>4, <3>5 DEF Core
    <3> QED
      BY <3>6, CoreWarm
  <2> QED
    BY <2>1, <2>2
<1> QED
  BY <1>1, <1>6, <1>10, WarmCore, CaughtWarm

LEMMA MbExecutesHeats ==
    ASSUME SInv, NEW k, Warm(p, k), MbExecutes
    PROVE  Warm(p', k)
<1> DEFINE c == p.queue[p.fin + 1]
           b == IF c.op = "C2" THEN TRUE ELSE IF c.op = "C2F" THEN FALSE ELSE p.parked
           d == IF c.op = "job" THEN Append(p.did, c.i) ELSE p.did
           s == [p EXCEPT !.fin = p.fin + 1, !.did = d, !.parked = b]
<1>1. /\ p.fin < Len(p.queue)
      /\ p' = s \/ \E e \in Readings \cup {"STASH", "STASH_POP"} : p' = [s EXCEPT !.ctrl = e]
  BY DEF MbExecutes, Step
<1>2. IsPlayer(p)
  BY DEF SInv, IInv, Sound
<1>3. s.fin = p.fin + 1 /\ DOMAIN s = Fields
      /\ \A f \in Fields \ {"fin", "did", "parked"} : s[f] = p[f]
  <2> HIDE DEF b, d
  <2> QED
    BY <1>2 DEF IsPlayer, Fields
<1> HIDE DEF s
<1>4. p'.fin = p.fin + 1 /\ \A f \in Fields \ {"fin", "did", "parked", "ctrl"} : p'[f] = p[f]
  BY <1>1, <1>3 DEF Fields
<1>5. NoJob(p.queue, p.fin) => NoJob(p.queue, p.fin + 1)
  <2>1. Len(p.queue) \in Nat /\ p.fin \in Nat
    BY <1>2 DEF IsPlayer, CommandSeqs
  <2>2. \A a \in Coming(p.queue, p.fin + 1) : a \in Coming(p.queue, p.fin)
    BY <2>1 DEF Coming
  <2> QED
    BY <2>2 DEF NoJob
<1>6. /\ p'.status = p.status /\ p'.stash = p.stash /\ SameHead(p, p') /\ SamePlan(p, p')
      /\ p'.allsetCb = p.allsetCb /\ p'.exc = p.exc /\ p'.queue = p.queue
  BY <1>4 DEF Fields, SameHead, SamePlan
<1>7. Alike(p, p')
  BY <1>4, <1>5, <1>6 DEF Alike
<1> QED
  BY <1>7, AlikeWarm

LEMMA RoomLeft ==
    ASSUME SInv, RoomToReturn, p.stash # "none"
    PROVE  Len(p.queue) + 1 < BufSize /\ Len(p.queue) < BufSize
<1>1. Len(p.queue) \in Nat /\ BufSize \in Nat
  BY ScenarioType DEF SInv, IInv, Sound, IsPlayer, CommandSeqs
<1> QED
  BY <1>1 DEF RoomToReturn

LEMMA MbCtrlHeats ==
    ASSUME SInv, RoomToReturn, HeadKind = "EXTRUDER", NEW k, Warm(p, k), MbCtrl
    PROVE  Warm(p', k)
<1> DEFINE u == OnMbCtrl(p)
           t == Caught(u)
           w == [t EXCEPT !.ctrl = "none"]
<1>1. p.ctrl # "none" /\ p' = w
  BY DEF MbCtrl, Step
<1>2. Live(p) /\ Fit(p, p.ctrl) /\ p.exc = "none"
  BY <1>1, LiveNow DEF SInv, IInv, Open
<1>3. Live(u) /\ Fit(u, "none") /\ Warm(u, k)
  BY <1>2, RoomLeft, OnMbCtrlLeads, OnMbCtrlFit, OnMbCtrlWarm DEF Leads
<1> HIDE DEF u
<1>4. Warm(t, k) /\ IsPlayer(t)
  BY <1>3, WarmCore, CaughtWarm, CaughtLeads, LivePlayer DEF Leads
<1> HIDE DEF t
<1>5. Alike(t, w)
  BY <1>4, AsideAlike
<1> HIDE DEF w
<1> QED
  BY <1>1, <1>4, <1>5, AlikeWarm

\* What is reported was carried out before.
LEMMA JobReported ==
    ASSUME NEW q \in CommandSeqs, NEW f \in Nat, f <= Len(q), NEW j \in Nat, j <= f
    PROVE  /\ NoJob(q, f) => NoJob(SubSeq(q, j + 1, Len(q)), f - j)
           /\ OnlyMoves(q) => OnlyMoves(SubSeq(q, j + 1, Len(q)))
<1> DEFINE r == SubSeq(q, j + 1, Len(q))
           g == f - j
<1>1. Len(q) \in Nat /\ Len(r) = Len(q) - j /\ \A a \in 1..Len(r) : r[a] = q[a + j]
  BY DEF CommandSeqs
<1>2. \A a \in Coming(r, g) : a + j \in Coming(q, f) /\ r[a] = q[a + j]
  BY <1>1 DEF Coming
<1>3. \A a \in 1..Len(r) : a + j \in 1..Len(q) /\ r[a] = q[a + j]
  BY <1>1
<1> HIDE DEF r, g
<1>4. NoJob(q, f) => NoJob(r, g)
  BY <1>2 DEF NoJob
<1>5. OnlyMoves(q) => OnlyMoves(r)
  BY <1>3 DEF OnlyMoves
<1> QED
  BY <1>4, <1>5 DEF r, g

LEMMA MbRunoutHeats ==
    ASSUME SInv, NEW k, Warm(p, k), MbRunout
    PROVE  Warm(p', k)
<1> DEFINE s == [p EXCEPT !.mb = "error"]
           t == Raise(s, "other")
<1>1. p.mb = "ready" /\ p' = Caught(t)
  BY DEF MbRunout, Step
<1>2. Live(p) /\ Fit(p, p.ctrl) /\ IsPlayer(p)
  BY <1>1, LiveNow, LivePlayer DEF SInv, IInv
<1>3. /\ IsPlayer(s) /\ s.mb = "error" /\ s.status = p.status /\ s.next = p.next
      /\ s.fed = p.fed /\ s.queue = p.queue /\ s.fin = p.fin /\ s.did = p.did
  BY <1>2, MbValues DEF IsPlayer, Fields
<1>4. Fit(s, p.ctrl)
  <2>1. p.mb # "closing"
    BY <1>1
  <2>2. p.status \notin Ended \/ p.stash = "none"
    BY ZenonT(120), <1>2, <2>1 DEF Fit, Flags
  <2> QED
    BY <1>2, <2>2, ReadyFit
<1>5. Alike(p, s)
  BY <1>2, AsideAlike
<1> HIDE DEF s
<1>6. Live(s)
  BY <1>1, <1>2, <1>3 DEF Live, Sound
<1>7. Live(t) /\ Fit(t, p.ctrl) /\ Alike(s, t)
  BY <1>3, <1>4, <1>6, RaiseKeeps, ExcValues, KeepsLeads, FitStill, AsideAlike DEF Leads
<1>8. t.exc # "none"
  BY <1>3 DEF Raise, IsPlayer, Fields
<1> HIDE DEF t
<1>9. Core(t, k)
  BY <1>5, <1>7, WarmCore, AlikeWarm
<1> QED
  BY <1>1, <1>7, <1>8, <1>9, CaughtWarm

LEMMA MbFailsHeats ==
    ASSUME SInv, NEW k, MbFails
    PROVE  Warm(p', k)
<1> DEFINE s == Raise(p, "system")
           q == Quiet(s)
           a == Abort(q, "other")
<1>1. p' = Caught(s) /\ IsPlayer(p)
  BY DEF MbFails, Step, SInv, IInv, Sound
<1>2. IsPlayer(s) /\ s.exc = "system"
  <2>1. s.exc = "system"
    BY <1>1 DEF Raise, IsPlayer, Fields
  <2> QED
    BY <1>1, <2>1, RaiseKeeps, ExcValues DEF Keeps
<1>3. Caught(s) = Quiet(a)
  BY <1>2 DEF Caught
<1> HIDE DEF s
<1>4. IsPlayer(q)
  BY <1>2, QuietKeeps DEF Keeps
<1> HIDE DEF q
<1>5. IsPlayer(a) /\ a.status \in Ended
  BY <1>4, AbortPlayer, AbortEnds, ErrorValues
<1> HIDE DEF a
<1>6. Quiet(a).status = a.status
  BY <1>5 DEF Quiet, IsPlayer, Fields
<1> QED
  BY <1>1, <1>3, <1>5, <1>6, EndedWarm

LEMMA MbLnHeats ==
    ASSUME SInv, RoomToReturn, HeadKind = "EXTRUDER", NEW k, Warm(p, k),
           NEW j \in 0..BufSize, MbLn(j)
    PROVE  Warm(p', k)
<1> DEFINE left == Len(p.queue) - j
           q == SubSeq(p.queue, j + 1, Len(p.queue))
           s == [p EXCEPT !.queue = SubSeq(@, j + 1, Len(@)), !.fin = @ - j]
           t == IF left + 1 = BufSize THEN OnMbSendable(s) ELSE s
           u == IF left = 0 THEN Then(t, OnMbEmpty) ELSE t
<1>1. p.queue # <<>> /\ p.ctrl = "none" /\ j <= p.fin /\ p' = Caught(u)
  BY DEF MbLn, Step
<1>2. IsPlayer(p) /\ p.exc = "none" /\ Ordered(p.did, p.queue, p.fin, p.next)
  BY DEF SInv, IInv, Sound
<1>3. j \in Nat /\ BufSize \in Nat
  BY ScenarioType DEF SInv, IInv
<1>4. Live(s) /\ Fit(s, "none")
  BY <1>1, <1>3, LnFit
<1>5. p.queue \in CommandSeqs /\ p.fin \in Nat /\ p.fin <= Len(p.queue)
  BY <1>2 DEF IsPlayer, Ordered
<1>6. /\ NoJob(p.queue, p.fin) => NoJob(q, p.fin - j)
      /\ OnlyMoves(p.queue) => OnlyMoves(q)
  BY <1>1, <1>3, <1>5, JobReported
<1>7. /\ s.queue = q /\ s.fin = p.fin - j
      /\ \A f \in Fields \ {"queue", "fin"} : s[f] = p[f]
  <2> HIDE DEF q
  <2>1. s = [p EXCEPT !.queue = q, !.fin = p.fin - j]
    BY DEF q
  <2> HIDE DEF s
  <2> QED
    BY <1>2, <2>1 DEF IsPlayer, Fields
<1> HIDE DEF q, s
<1>8. /\ s.status = p.status /\ s.stash = p.stash /\ SameHead(p, s) /\ SamePlan(p, s)
      /\ s.allsetCb = p.allsetCb /\ s.exc = "none"
  BY <1>2, <1>7 DEF Fields, SameHead, SamePlan
<1>9. Alike(p, s)
  BY <1>2, <1>6, <1>7, <1>8 DEF Alike
<1>10. Warm(s, k)
  BY <1>9, AlikeWarm
<1>11. left + 1 = BufSize => Free(s)
  <2>1. left + 1 = BufSize => p.stash = "none"
    <3>1. Len(p.queue) \in Nat
      BY <1>5 DEF CommandSeqs
    <3> QED
      BY <1>1, <1>3, <1>5, <3>1 DEF RoomToReturn
  <2> QED
    BY <1>8, <2>1 DEF Free
<1> HIDE DEF left
<1>12. Live(t) /\ Fit(t, "none") /\ Warm(t, k)
  <2>1. left + 1 = BufSize => /\ Live(OnMbSendable(s)) /\ Fit(OnMbSendable(s), "none")
                              /\ Warm(OnMbSendable(s), k)
    BY <1>4, <1>8, <1>10, <1>11, OnMbSendableLeads, OnMbSendableFit, OnMbSendableWarm DEF Leads
  <2> QED
    BY <1>4, <1>10, <2>1
<1> HIDE DEF t
<1>13. Live(u) /\ Fit(u, "none") /\ Warm(u, k)
  <2>1. t.exc = "none" => /\ Live(OnMbEmpty(t)) /\ Fit(OnMbEmpty(t), "none")
                          /\ Warm(OnMbEmpty(t), k)
    BY <1>12, OnMbEmptyLeads, OnMbEmptyFit, OnMbEmptyWarm DEF Leads
  <2> QED
    BY <1>12, <2>1 DEF Then
<1> HIDE DEF u
<1> QED
  BY <1>1, <1>13, WarmCore, CaughtWarm

LEMMA HeadHelloHeats ==
    ASSUME SInv, RoomToReturn, HeadKind = "EXTRUDER", NEW k, Warm(p, k), HeadHello
    PROVE  Warm(p', k)
<1> DEFINE q == [p EXCEPT !.th = "RUNNING", !.wasReset = FALSE]
           s == OnToolheadReady(q)
           t == [s EXCEPT !.th = "INIT"]
           h == IF s.exc = "none" THEN s ELSE t
<1>1. p.th = "BOOTING" /\ p.power /\ p' = OnToolheadRecv(h)
  BY DEF HeadHello, Step
<1>2. Live(p) /\ Fit(p, p.ctrl) /\ IsPlayer(p) /\ p.exc = "none"
  <2>1. p.mb # "off"
    BY <1>1 DEF SInv, IInv, Open
  <2> QED
    BY <2>1, LiveNow, LivePlayer DEF SInv, IInv
<1>3. Keeps(p, q)
  BY ZenonT(120), <1>2, HeadValues, Booleans DEF IsPlayer, Fields, Keeps, Same
<1>4. Calm(p, q)
  BY <1>2 DEF IsPlayer, Fields, Calm
<1>5. /\ q.th = "RUNNING" /\ q.wasReset = FALSE
      /\ \A f \in Fields \ {"th", "wasReset"} : q[f] = p[f]
  BY <1>2 DEF IsPlayer, Fields
<1> HIDE DEF q
<1>6. Live(q) /\ Fit(q, p.ctrl)
  BY <1>2, <1>3, <1>4, KeepsLeads, CalmFit DEF Leads
<1>7. q.status = 18 /\ q.stash = "stashed" => Len(q.queue) < BufSize
  <2>1. q.stash = p.stash /\ q.queue = p.queue
    BY <1>4 DEF Calm
  <2> SUFFICES ASSUME q.stash = "stashed" PROVE Len(q.queue) < BufSize
    OBVIOUS
  <2>2. p.stash # "none"
    BY <2>1
  <2> QED
    BY <2>1, <2>2, RoomLeft
<1>8. Live(s) /\ Fit(s, p.ctrl) /\ IsPlayer(s)
  BY <1>6, <1>7, OnToolheadReadyLeads, OnToolheadReadyFit, LivePlayer DEF Leads
<1>9. /\ q.status = p.status /\ q.stash = p.stash /\ SamePlan(p, q) /\ q.queue = p.queue
      /\ q.fin = p.fin /\ q.hq = p.hq /\ q.out = p.out /\ q.rt = p.rt /\ q.errno = p.errno
      /\ q.power = p.power /\ q.temp = p.temp /\ q.want = p.want
      /\ q.allsetCb = p.allsetCb /\ q.exc = "none"
  BY <1>2, <1>5 DEF Fields, SamePlan
<1>10. t.th = "INIT" /\ DOMAIN t = Fields /\ \A f \in Fields \ {"th"} : t[f] = s[f]
  <2> HIDE DEF s
  <2> QED
    BY <1>8 DEF IsPlayer, Fields
<1>11. Live(t) /\ Fit(t, p.ctrl)
  <2> HIDE DEF s
  <2>1. Keeps(s, t)
    BY <1>8, HeadValues DEF IsPlayer, Fields, Keeps, Same
  <2>2. Calm(s, t)
    BY <1>8, AsideCalm
  <2> QED
    BY <1>8, <2>1, <2>2, KeepsLeads, CalmFit DEF Leads
<1>12. CASE p.status \in Ended
  <2>1. s.status = p.status
    <3>1. Leads(q, s)
      BY <1>6, OnToolheadReadyLeads
    <3> QED
      BY <1>9, <1>12, <3>1 DEF Leads
  <2>2. Live(h) /\ h.status = p.status
    <3> HIDE DEF s, t
    <3> QED
      BY <1>8, <1>10, <1>11, <2>1 DEF Fields
  <2> HIDE DEF h
  <2>3. OnToolheadRecv(h).status = p.status
    BY <1>12, <2>2, OnToolheadRecvLeads DEF Leads
  <2> QED
    BY <1>1, <1>12, <2>3, EndedWarm
<1>13. CASE p.status \notin Ended
  <2>1. Linked(p, k) /\ Planned(p) /\ Hot(p, k)
    BY <1>2, <1>13 DEF Warm
  <2>2. p.hq = <<>> /\ p.out = "none" /\ ~Moving(p, k)
    BY <1>1, <2>1 DEF Linked, Hot
  <2>3. Linked(q, k)
    <3>1. q.th # "BOOTING" /\ q.power
      BY <1>1, <1>5, <1>9
    <3> QED
      BY ZenonT(60), <1>5, <1>9, <2>1, <3>1 DEF Linked
  <2>4. Planned(q)
    BY <1>9, <2>1 DEF Planned, SamePlan
  <2>5. /\ q.status # 16 /\ (q.status = 18 => q.stash = "stashed")
        /\ q.status = 50 /\ q.stash = "none" => k # 0
    <3>1. /\ p.status # 16 /\ ~(p.status = 18 /\ p.stash = "none")
          /\ p.status = 50 /\ p.stash = "none" => k # 0
      BY <2>2 DEF Moving
    <3>2. p.status = 18 => p.stash = "stashed"
      BY <1>2, <3>1, Freed
    <3> QED
      BY <1>9, <3>1, <3>2
  <2>6. q.hq = <<>> /\ q.out = "none" /\ q.th = "RUNNING"
    BY <1>5, <1>9, <2>2
  <2>7. Warm(s, k) /\ (k = 0 => Excused(s))
    BY <1>6, <1>7, <1>9, <2>3, <2>4, <2>5, <2>6, OnToolheadReadyWarm
  <2> HIDE DEF s, t
  <2>8. s.exc # "none" => Core(t, k)
    <3>1. SUFFICES ASSUME s.exc # "none", t.status \notin Ended
                   PROVE  Linked(t, k) /\ Planned(t) /\ (k = 0 => Hot(t, k))
      BY DEF Core
    <3>2. /\ t.status = s.status /\ t.stash = s.stash /\ SamePlan(s, t) /\ t.queue = s.queue
          /\ t.fin = s.fin /\ t.hq = s.hq /\ t.out = s.out /\ t.rt = s.rt /\ t.errno = s.errno
          /\ t.power = s.power /\ t.temp = s.temp /\ t.want = s.want
          /\ t.allsetCb = s.allsetCb /\ t.exc = s.exc
      BY <1>10 DEF Fields, SamePlan
    <3>3. Linked(s, k) /\ Planned(s) /\ (k = 0 => Hot(s, k))
      BY <2>7, <3>1, <3>2 DEF Warm
    <3>4. Linked(t, k)
      <4>1. t.th # "BOOTING" /\ t.th # "RUNNING"
        BY <1>10
      <4> QED
        BY ZenonT(60), <3>2, <3>3, <4>1 DEF Linked
    <3>5. Planned(t)
      BY <3>2, <3>3 DEF Planned, SamePlan
    <3>6. k = 0 => Hot(t, k)
      <4> SUFFICES ASSUME k = 0, Moving(t, k) PROVE Hot(t, k)
        BY DEF Hot
      <4>1. Moving(s, k) /\ Moving(s, 0)
        BY <3>2 DEF Moving
      <4>2. ~Waited(s.next) /\ s.hq = <<>>
        BY <2>7, <3>1, <3>3, <4>1 DEF Excused, Hot
      <4>3. ~Waited(t.next) /\ t.hq = <<>> /\ t.th = "INIT"
        BY <1>10, <3>2, <4>2 DEF SamePlan
      <4> QED
        BY <4>3 DEF Hot
    <3> QED
      BY <3>4, <3>5, <3>6
  <2>9. Live(h) /\ Fit(h, p.ctrl) /\ Core(h, k) /\ (h.exc = "none" => Warm(h, k))
    <3>1. s.exc = "none" => Core(s, k)
      BY <2>7, WarmCore
    <3>2. t.exc = s.exc
      BY <1>10 DEF Fields
    <3> QED
      BY <1>8, <1>11, <2>7, <2>8, <3>1, <3>2
  <2> HIDE DEF h
  <2> QED
    BY <1>1, <2>9, OnToolheadRecvWarm
<1> QED
  BY <1>12, <1>13

\* A fault is counted.
LEMMA Counted ==
    ASSUME SInv
    PROVE  /\ faults \in Nat
           /\ \A x : Fault(x) => faults' = faults + 1 /\ faults' # faults /\ faults' # 0
<1>1. faults \in Nat
  BY ExecutorConstants DEF SInv, IInv, IsScenario
<1> QED
  BY <1>1 DEF Fault

LEMMA HeadOkHeats ==
    ASSUME SInv, NoStaleStandby, RoomToReturn, HeadKind = "EXTRUDER", NEW k, Warm(p, k), HeadOk
    PROVE  Warm(p', k)
<1>14. PICK v \in HeaterTold(p.out) :
          LET s == [p EXCEPT !.out = "none", !.heat = v]
          IN  p' = OnToolheadRecv(IF s.hq = <<>> THEN Callback(s) ELSE PopToHead(s))
  BY DEF HeadOk, Step
<1> DEFINE s == [p EXCEPT !.out = "none", !.heat = v]
           h == IF s.hq = <<>> THEN Callback(s) ELSE PopToHead(s)
<1>1. p.out # "none" /\ p' = OnToolheadRecv(h)
  BY <1>14 DEF HeadOk
<1>2. Live(p) /\ Fit(p, p.ctrl) /\ IsPlayer(p) /\ p.exc = "none"
  BY <1>1, LiveNow, LivePlayer DEF SInv, IInv, Open
<1>3. Keeps(p, s)
  <2>1. IsPlayer(p) /\ v \in Levels
    BY <1>1, <1>2, ToldLevels
  <2> QED
    BY <2>1, OutValues DEF IsPlayer, Fields, Keeps, Same
<1>4. Calm(p, s)
  BY <1>2 DEF IsPlayer, Fields, Calm
<1>5. /\ s.out = "none" /\ (p.out = "fan" => s.heat = p.heat)
      /\ p.out \in Levels => s.heat = p.out
      /\ \A f \in Fields \ {"out", "heat"} : s[f] = p[f]
  <2>1. s.heat = v /\ s.out = "none" /\ \A f \in Fields \ {"out", "heat"} : s[f] = p[f]
    BY <1>2 DEF IsPlayer, Fields
  <2>2. "fan" \notin Levels /\ "standby" \notin Levels
    BY DEF Levels, Hots
  <2> QED
    BY <2>1, <2>2 DEF HeaterTold
<1> HIDE DEF s
<1>6. Live(s) /\ Fit(s, p.ctrl) /\ IsPlayer(s) /\ s.exc = "none"
  <2>1. s.exc = p.exc
    BY <1>5 DEF Fields
  <2> QED
    BY <1>2, <1>3, <1>4, <2>1, KeepsLeads, CalmFit DEF Leads, Keeps
<1>7. Warm(s, k)
  BY <1>1, <1>2, <1>5, ConfirmedWarm
<1>8. s.status = p.status /\ s.stash = p.stash /\ s.queue = p.queue /\ s.th = p.th /\ s.cb = p.cb
  BY <1>5 DEF Fields
<1>9. s.status \notin Starting /\ (s.status \notin Ended => s.th # "BOOTING")
  <2>1. p.status \notin Ended => p.status \notin Starting /\ p.th # "BOOTING"
    BY <1>1 DEF Warm, Linked
  <2>2. p.status \in Ended => p.status \notin Starting
    BY Ends DEF Starting
  <2> QED
    BY <1>8, <2>1, <2>2
<1>10. s.status = 50 /\ s.cb = "paused" => s.stash = "stashed"
  BY <1>8 DEF NoStaleStandby
<1>11. s.stash # "none" => Len(s.queue) < BufSize
  BY <1>8, RoomLeft
<1>12. Live(h) /\ Fit(h, p.ctrl)
  <2>1. s.status = 18 /\ s.stash = "stashed" => Len(s.queue) < BufSize
    BY <1>11
  <2>2. Live(h)
    BY <1>6, CallbackLeads, PopToHeadKeeps, KeepsLeads DEF Leads
  <2>3. Fit(h, p.ctrl)
    BY <1>6, <1>10, <2>1, CallbackFit, FitStill
  <2> QED
    BY <2>2, <2>3
<1>13. Warm(h, k)
  <2>1. s.hq = <<>> => Warm(Callback(s), k)
    BY <1>5, <1>6, <1>7, <1>9, <1>10, <1>11, CallbackWarm
  <2>2. Warm(PopToHead(s), k)
    BY <1>6, <1>7, PopWarm
  <2> QED
    BY <2>1, <2>2
<1> HIDE DEF h
<1> QED
  BY <1>1, <1>12, <1>13, WarmCore, OnToolheadRecvWarm

LEMMA HeadErHeats ==
    ASSUME SInv, HeadKind = "EXTRUDER", NEW k, Warm(p, k), HeadEr
    PROVE  Warm(p', k)
<1> DEFINE h == Raise(p, "other")
<1>1. p.out # "none" /\ p' = OnToolheadRecv(h)
  BY DEF HeadEr, Step
<1>2. Live(p) /\ Fit(p, p.ctrl) /\ IsPlayer(p)
  BY <1>1, LiveNow, LivePlayer DEF SInv, IInv, Open
<1>3. Live(h) /\ Fit(h, p.ctrl)
  BY <1>2, RaiseKeeps, ExcValues, KeepsLeads, FitStill DEF Leads
<1>4. Warm(h, k)
  BY <1>2, AsideAlike, AlikeWarm
<1> HIDE DEF h
<1> QED
  BY <1>1, <1>3, <1>4, WarmCore, OnToolheadRecvWarm

\* A reading that arrives.
LEMMA PongHeats ==
    ASSUME SInv, RoomToReturn, NoEarlyAllset, HeadKind = "EXTRUDER", NEW k, Warm(p, k),
           p.updating, NEW t, IsPlayer(t), ~t.updating, t.errno = p.errno \/ k # 0,
           \A f \in Fields \ {"updating", "errno"} : t[f] = p[f]
    PROVE  Warm(OnToolheadRecv(Pong(t)), k)
<1> DEFINE u == [t EXCEPT !.rt = t.temp]
<1>1. Live(p) /\ Fit(p, p.ctrl) /\ IsPlayer(p) /\ p.exc = "none"
  BY LiveNow, LivePlayer DEF SInv, IInv, Open
<1>2. Keeps(p, t) /\ Calm(p, t) /\ t.exc = "none"
  BY <1>1 DEF Fields, Keeps, Same, Calm
<1>3. Live(t) /\ Fit(t, p.ctrl)
  BY <1>1, <1>2, KeepsLeads, CalmFit DEF Leads
<1>4. t.rt = p.rt /\ t.temp = p.temp
  BY DEF Fields
<1>5. u.rt = p.temp /\ ~u.updating /\ u.errno = t.errno
      /\ \A f \in Fields \ {"updating", "rt", "errno"} : u[f] = p[f]
  BY <1>4 DEF IsPlayer, Fields
<1> HIDE DEF u
<1>6. Warm(t, k)
  <2>1. \A f \in Fields \ {"updating", "rt", "errno"} : t[f] = p[f]
    OBVIOUS
  <2>2. t.rt \in {p.rt, p.temp}
    BY <1>4
  <2> QED
    BY <1>1, <2>1, <2>2, ReadingWarm
<1>7. Warm(u, k)
  <2>1. u.rt \in {p.rt, p.temp} /\ (u.errno = p.errno \/ k # 0)
    BY <1>5
  <2> QED
    BY <1>1, <1>5, <2>1, ReadingWarm
<1>8. t.stash # "none" => Len(t.queue) + 1 < BufSize
  <2>1. t.stash = p.stash /\ t.queue = p.queue
    BY <1>2 DEF Calm
  <2> QED
    BY <2>1, RoomLeft
<1>9. t.status = 18 /\ t.th = "BOOTING" /\ t.allsetCb = "resume" =>
          t.wasReset \/ (t.want \in Hots /\ t.temp # t.want)
  BY DEF Fields, NoEarlyAllset
<1>10. Warm(Pong(t), k)
  BY <1>2, <1>3, <1>6, <1>7, <1>8, <1>9, PongWarm DEF u
<1>11. Live(Pong(t)) /\ Fit(Pong(t), p.ctrl)
  <2>1. t.stash = "stashed" => Len(t.queue) + 1 < BufSize
    BY <1>8
  <2> QED
    BY <1>3, <2>1, PongLeads, PongFit DEF Leads
<1> QED
  BY <1>10, <1>11, WarmCore, OnToolheadRecvWarm

LEMMA HeadPongHeats ==
    ASSUME SInv, RoomToReturn, NoEarlyAllset, HeadKind = "EXTRUDER", Warm(p, faults'), HeadPong
    PROVE  Warm(p', faults')
<1> DEFINE s == [p EXCEPT !.updating = FALSE]
           u(e) == [s EXCEPT !.errno = e]
<1>1. p.updating
      /\ \/ p' = OnToolheadRecv(Pong(s))
         \/ \E e \in {"shake", "hardware"} : p' = OnToolheadRecv(Pong(u(e))) /\ Fault(e)
  BY DEF HeadPong, Step
<1>2. IsPlayer(p)
  BY DEF SInv, IInv, Sound
<1>3. IsPlayer(s) /\ ~s.updating /\ \A f \in Fields \ {"updating"} : s[f] = p[f]
  BY ZenonT(120), <1>2, Booleans DEF IsPlayer, Fields
<1> HIDE DEF s
<1>4. \A e \in {"shake", "hardware"} :
          /\ IsPlayer(u(e)) /\ ~u(e).updating
          /\ \A f \in Fields \ {"updating", "errno"} : u(e)[f] = p[f]
  BY <1>3, ErrnoValues DEF IsPlayer, Fields
<1> HIDE DEF u
<1>5. CASE p' = OnToolheadRecv(Pong(s))
  <2>1. s.errno = p.errno /\ \A f \in Fields \ {"updating", "errno"} : s[f] = p[f]
    BY <1>3 DEF Fields
  <2> QED
    BY <1>1, <1>3, <1>5, <2>1, PongHeats
<1>6. CASE \E e \in {"shake", "hardware"} : p' = OnToolheadRecv(Pong(u(e))) /\ Fault(e)
  <2>1. PICK e \in {"shake", "hardware"} : p' = OnToolheadRecv(Pong(u(e))) /\ Fault(e)
    BY <1>6
  <2>2. faults' # 0
    BY <2>1, Counted
  <2> DEFINE k == faults'
             t == u(e)
  <2>3. IsPlayer(t) /\ ~t.updating /\ \A f \in Fields \ {"updating", "errno"} : t[f] = p[f]
    BY <1>4
  <2>4. k # 0 /\ p' = OnToolheadRecv(Pong(t)) /\ Warm(p, k)
    BY <2>1, <2>2
  <2>5. SUFFICES Warm(p', k)
    OBVIOUS
  <2> HIDE DEF k, t
  <2> QED
    BY <1>1, <2>3, <2>4, PongHeats
<1> QED
  BY <1>1, <1>5, <1>6

LEMMA LoopOfflineHeats ==
    ASSUME SInv, Warm(p, faults'), LoopOffline
    PROVE  Warm(p', faults')
<1> DEFINE k == faults'
           r == ToolheadReset(p)
           s == Raise(r, "head lost")
<1>1. /\ p.th = "BOOTING" \/ p.th = "RUNNING"
      /\ ~p.power \/ k # 0
      /\ p' = Caught(s) /\ Warm(p, k)
  BY Counted DEF LoopOffline, Step, Ready
<1>2. SUFFICES Warm(p', k)
  OBVIOUS
<1> HIDE DEF k
<1>3. Live(p) /\ Fit(p, p.ctrl) /\ IsPlayer(p) /\ p.exc = "none"
  <2>1. p.th # "INIT"
    BY <1>1
  <2>2. p.mb # "off"
    BY <2>1 DEF SInv, IInv, Open
  <2> QED
    BY <2>2, LiveNow, LivePlayer DEF SInv, IInv
<1>4. Core(r, k)
  <2>1. CASE p.status \in Ended
    <3>1. r.status = p.status
      BY <1>3 DEF ToolheadReset, IsPlayer, Fields
    <3> QED
      BY <2>1, <3>1, EndedWarm
  <2>2. CASE p.status \notin Ended
    <3>1. Linked(p, k) /\ Hot(p, k)
      BY <1>1, <1>3, <2>2 DEF Warm
    <3>2. k # 0 \/ ~Moving(p, k)
      BY <1>1, <3>1 DEF Linked, Hot
    <3> QED
      BY <1>1, <1>3, <3>2, WarmCore, ResetCore
  <2> QED
    BY <2>1, <2>2
<1>5. Live(r) /\ Fit(r, p.ctrl) /\ IsPlayer(r)
  BY <1>3, ToolheadResetKeeps, ToolheadResetFit, KeepsLeads DEF Leads, Keeps
<1> HIDE DEF r
<1>6. Live(s) /\ Fit(s, p.ctrl)
  BY <1>5, RaiseKeeps, ExcValues, KeepsLeads, FitStill DEF Leads
<1>7. Core(s, k) /\ s.exc # "none"
  <2>1. Alike(r, s)
    BY <1>5, AsideAlike
  <2>2. s.exc # "none"
    BY <1>5 DEF Raise, IsPlayer, Fields
  <2> QED
    BY <1>4, <2>1, <2>2, AlikeWarm
<1> HIDE DEF s
<1> QED
  BY <1>1, <1>6, <1>7, CaughtWarm

LEMMA LoopHeats ==
    ASSUME SInv, NEW k, Warm(p, k), NEW ping \in BOOLEAN, Loop(ping)
    PROVE  Warm(p', k)
<1> DEFINE b == p.updating \/ (ping /\ Sendable(p))
           s == [p EXCEPT !.updating = b]
<1>1. p' = IdleHead(s) /\ IsPlayer(p) /\ p.exc = "none" /\ b \in Bools
  BY Booleans DEF Loop, Step, SInv, IInv, Sound
<1>2. b => p.updating \/ Sendable(p)
  OBVIOUS
<1> HIDE DEF b
<1>3. IsPlayer(s) /\ s.updating = b /\ \A f \in Fields \ {"updating"} : s[f] = p[f]
  BY <1>1 DEF IsPlayer, Fields
<1> HIDE DEF s
<1>4. s.exc = "none"
  BY <1>1, <1>3 DEF Fields
<1>5. Warm(s, k)
  BY <1>1, <1>2, <1>3, PingWarm
<1> QED
  BY <1>1, <1>3, <1>4, <1>5, IdleHeadWarm

LEMMA HeadRestartsHeats ==
    ASSUME SInv, Warm(p, faults'), HeadRestarts
    PROVE  Warm(p', faults')
<1> DEFINE k == faults'
           t == p'
<1>1. t = [p EXCEPT !.heat = "off", !.wasReset = TRUE] /\ k # 0 /\ Warm(p, k)
      /\ IsPlayer(p) /\ p.exc = "none"
  BY Counted DEF HeadRestarts, Step, SInv, IInv, Sound
<1>2. t.wasReset = TRUE /\ t.heat = "off" /\ \A f \in Fields \ {"heat", "wasReset"} : t[f] = p[f]
  <2> HIDE DEF t
  <2> QED
    BY <1>1 DEF IsPlayer, Fields
<1> SUFFICES Warm(t, k)
  OBVIOUS
<1> HIDE DEF k, t
<1>3. /\ t.status = p.status /\ t.stash = p.stash /\ SamePlan(p, t) /\ t.queue = p.queue
      /\ t.fin = p.fin /\ t.th = p.th /\ t.out = p.out /\ t.v24 = p.v24
      /\ t.power = p.power /\ t.temp = p.temp /\ t.hq = p.hq
      /\ t.want = p.want /\ t.rt = p.rt /\ t.errno = p.errno
      /\ t.allsetCb = p.allsetCb /\ t.exc = p.exc
  BY <1>2 DEF Fields, SamePlan
<1>4. SUFFICES ASSUME p.status \notin Ended
               PROVE  Linked(t, k) /\ Planned(t) /\ Returning(t) /\ Hot(t, k)
  BY <1>3 DEF Warm
<1>5. Linked(p, k) /\ Planned(p) /\ Returning(p) /\ Hot(p, k)
  BY <1>1, <1>4 DEF Warm
<1>6. Linked(t, k)
  BY ZenonT(60), <1>1, <1>2, <1>3, <1>5 DEF Linked
<1>7. Planned(t)
  BY <1>3, <1>5 DEF Planned, SamePlan
<1>8. ~Told(t)
  BY <1>2 DEF Told
<1>9. Returning(t)
  BY <1>3, <1>5, <1>8 DEF Returning
<1>10. Hot(t, k)
  <2> SUFFICES ASSUME Moving(p, k) PROVE Hot(t, k)
    BY <1>3 DEF Hot, Moving
  <2> QED
    BY <1>3, <1>5, <1>8 DEF Hot, SamePlan
<1> QED
  BY <1>6, <1>7, <1>9, <1>10

\* A head that is told to be warm, and has its supply, does not become cold.
LEMMA TemperatureHeats ==
    ASSUME SInv, NEW k, Warm(p, k), Temperature
    PROVE  Warm(p', k)
<1> DEFINE t == p'
<1>1. PICK v : t = [p EXCEPT !.temp = v] /\ (v = "cold" => ~Heating /\ p.rt \notin Hots)
  <2>1. Warmer(p.temp) # "cold" /\ (CoolsDown /\ Cooler(p.temp) = "cold" => p.temp = "warm")
    BY DEF Warmer, Cooler, CoolsDown
  <2> QED
    BY <2>1 DEF Temperature, Step, CoolsDown
<1>2. IsPlayer(p) /\ p.exc = "none"
  BY DEF SInv, IInv, Sound
<1>3. t.temp = v /\ \A f \in Fields \ {"temp"} : t[f] = p[f]
  <2> HIDE DEF t
  <2> QED
    BY <1>1, <1>2 DEF IsPlayer, Fields
<1> SUFFICES Warm(t, k)
  OBVIOUS
<1> HIDE DEF t
<1>4. /\ t.status = p.status /\ t.stash = p.stash /\ SamePlan(p, t) /\ t.queue = p.queue
      /\ t.fin = p.fin /\ t.th = p.th /\ t.out = p.out /\ t.v24 = p.v24 /\ t.heat = p.heat
      /\ t.power = p.power /\ t.hq = p.hq /\ t.updating = p.updating
      /\ t.want = p.want /\ t.rt = p.rt /\ t.errno = p.errno /\ t.wasReset = p.wasReset
      /\ t.allsetCb = p.allsetCb /\ t.exc = p.exc
  BY <1>3 DEF Fields, SamePlan
<1>5. SUFFICES ASSUME p.status \notin Ended
               PROVE  Linked(t, k) /\ Planned(t) /\ Returning(t) /\ Hot(t, k)
  BY <1>4 DEF Warm
<1>6. Linked(p, k) /\ Planned(p) /\ Returning(p) /\ Hot(p, k)
  BY <1>2, <1>5 DEF Warm
<1>7. Linked(t, k)
  <2>1. t.rt \in Hots => t.temp # "cold"
    BY <1>1, <1>3, <1>4
  <2> QED
    BY ZenonT(60), <1>4, <1>6, <2>1 DEF Linked
<1>8. Planned(t)
  BY <1>4, <1>6 DEF Planned, SamePlan
<1>9. Told(t) <=> Told(p)
  BY <1>4 DEF Told
<1>10. Returning(t)
  BY <1>4, <1>6, <1>9 DEF Returning
<1>11. Hot(t, k)
  <2> SUFFICES ASSUME Moving(p, k) PROVE Hot(t, k)
    BY <1>4 DEF Hot, Moving
  <2>1. p.hq = <<>> /\ p.th # "BOOTING" /\ (p.th = "RUNNING" => p.v24)
    BY <1>6 DEF Hot
  <2>2. ASSUME Waited(p.next), Told(p), p.macro # "job heat"
        PROVE  t.temp # "cold"
    <3>1. p.th = "RUNNING" /\ (p.heat \in Hots \/ p.rt \in Hots)
      BY <1>6, <2>2 DEF Hot
    <3>2. p.v24 /\ p.power
      BY <1>6, <2>1, <2>2, <3>1 DEF Linked, Told
    <3> QED
      BY <1>1, <1>3, <3>1, <3>2 DEF Heating, Goal
  <2> QED
    BY <1>4, <1>6, <1>9, <2>2 DEF Hot, SamePlan
<1> QED
  BY <1>7, <1>8, <1>10, <1>11

LEMMA RequestHeats ==
    ASSUME SInv, RoomToReturn, NEW k, Warm(p, k), NEW r \in AllRequests, Request(r)
    PROVE  Warm(p', k)
<1>1. PICK a \in {Pause(p, "none"), Resume(p), SoftAbort(p), SetToolheadOperation(p),
                  SetToolheadStandby(p), SetToolheadHeater(p, "hot"),
                  SetToolheadHeater(p, "off"), LoadFilament(p)} :
          p' = Quiet(a)
          /\ (a = SetToolheadHeater(p, "off") =>
                 \/ "HEATER_OFF" \in scenario.requests
                 \/ a \in {Pause(p, "none"), Resume(p), SoftAbort(p), SetToolheadOperation(p),
                           SetToolheadStandby(p), SetToolheadHeater(p, "hot"), LoadFilament(p)})
  BY DEF Request, Step, AllRequests
<1>2. IsPlayer(p) /\ Fit(p, p.ctrl) /\ p.exc = "none" /\ "none" \in Errors
  BY ErrorValues DEF SInv, IInv, Sound
<1>3. Core(p, k)
  BY WarmCore
<1>4. Warm(Quiet(p), k)
  BY <1>2, QuietWarm
<1>5. Warm(Quiet(SoftAbort(p)), k) /\ Warm(Quiet(SetToolheadOperation(p)), k)
  BY <1>2, SoftAbortWarm, SetToolheadOperationWarm
<1>6. /\ Warm(Quiet(SetToolheadHeater(p, "hot")), k)
      /\ "HEATER_OFF" \in scenario.requests => Warm(Quiet(SetToolheadHeater(p, "off")), k)
  <2>1. "hot" \in {"hot", "off"} /\ "off" \in {"hot", "off"} /\ "hot" # "off"
    OBVIOUS
  <2> QED
    BY <1>2, <2>1, SetToolheadHeaterWarm
<1>7. CASE p.mb # "off"
  <2>1. Live(p)
    BY <1>7, LiveNow DEF SInv
  <2>2. Warm(Quiet(Pause(p, "none")), k)
    <3>1. IsPlayer(Pause(p, "none"))
      BY <1>2, <2>1, PauseLeads, LivePlayer DEF Leads
    <3>2. Core(Pause(p, "none"), k) /\ Still(Pause(p, "none"))
      BY <1>2, <1>3, <2>1, PauseCore
    <3> QED
      BY <3>1, <3>2, StillQuiet
  <2>3. Warm(Quiet(Resume(p)), k)
    <3>1. CASE p.status \notin Paused
      BY <1>4, <3>1 DEF Resume
    <3>2. CASE p.status \in Paused
      <4>1. Still(p)
        BY <3>2 DEF Still, Paused
      <4>2. p.status = 48 => Len(p.queue) < BufSize
        <5> SUFFICES ASSUME p.status = 48 PROVE Len(p.queue) < BufSize
          OBVIOUS
        <5>1. p.stash = "stashed"
          BY <1>2, Freed
        <5>2. p.stash # "none"
          BY <5>1
        <5> QED
          BY <5>2, RoomLeft
      <4>3. IsPlayer(Resume(p))
        BY <2>1, ResumeLeads, LivePlayer DEF Leads
      <4>4. Core(Resume(p), k) /\ Still(Resume(p))
        BY <1>2, <1>3, <2>1, <4>1, <4>2, ResumeCore
      <4> QED
        BY <4>3, <4>4, StillQuiet
    <3> QED
      BY <3>1, <3>2
  <2>4. Warm(Quiet(SetToolheadStandby(p)), k) /\ Warm(Quiet(LoadFilament(p)), k)
    BY <1>2, <2>1, SetToolheadStandbyWarm, LoadFilamentWarm
  <2> QED
    BY <1>1, <1>5, <1>6, <2>2, <2>3, <2>4
<1>8. CASE p.mb = "off"
  <2>1. p.status \in {4, 38, 128}
    BY <1>8 DEF SInv, IInv, Open
  <2>2. Resume(p) = p /\ SetToolheadStandby(p) = p
    BY <2>1 DEF Resume, Paused, SetToolheadStandby
  <2>3. LoadFilament(p) = p
    <3>1. p.status # 48
      BY <2>1
    <3> QED
      BY <3>1 DEF LoadFilament
  <2>4. Warm(Quiet(Pause(p, "none")), k)
    <3>1. Core(Pause(p, "none"), k) /\ Still(Pause(p, "none"))
      BY <1>2, <1>3, <1>8, <2>1, OffPauseCore
    <3>2. IsPlayer(Pause(p, "none"))
      BY <1>8, OffPauseFit
    <3> QED
      BY <3>1, <3>2, StillQuiet
  <2> QED
    BY <1>1, <1>4, <1>5, <1>6, <2>2, <2>3, <2>4
<1> QED
  BY <1>7, <1>8

-----------------------------------------------------------------------------
(* The theorems. *)

\* A laser has no heater, and its jobs have no wait for it.
HInv == SInv /\ (HeadKind = "EXTRUDER" => Warm(p, faults))

\* A step leaves the job, the kind of the head and what may happen as they are.
LEMMA Scene ==
    ASSUME IInv, [Next]_vars
    PROVE  scenario' = scenario /\ (faults' = 0 => faults = 0)
<1>1. faults \in Nat
  BY ExecutorConstants DEF IInv, IsScenario
<1>2. /\ scenario' = scenario
      /\ faults' = faults \/ faults' = faults + 1
  <2>1. CASE \/ MbReady \/ MbCtrl \/ \E k \in 0..BufSize : MbLn(k)
             \/ HeadHello \/ HeadOk \/ Temperature \/ \E ping \in BOOLEAN : Loop(ping)
    BY <2>1 DEF MbReady, MbCtrl, MbLn, HeadHello, HeadOk, Temperature, Loop, NoInput
  <2>2. CASE \/ MbExecutes \/ MbRunout \/ MbFails \/ HeadEr \/ HeadPong \/ HeadRestarts
             \/ LoopOffline
    BY <2>2 DEF MbExecutes, MbRunout, MbFails, HeadEr, HeadPong, HeadRestarts, LoopOffline, Fault
  <2>3. CASE \E r \in AllRequests : Request(r)
    BY <2>3 DEF Request
  <2>4. CASE UNCHANGED vars
    BY <2>4 DEF vars
  <2> QED
    BY <2>1, <2>2, <2>3, <2>4 DEF Next
<1> QED
  BY <1>1, <1>2

LEMMA NextHeats ==
    ASSUME SInv, NoStaleStandby, RoomToReturn, NoEarlyAllset, HeadKind = "EXTRUDER",
           Warm(p, faults), [Next]_vars
    PROVE  Warm(p', faults')
<1>1. Warm(p, faults')
  <2>1. IInv /\ p.exc = "none"
    BY DEF SInv, IInv
  <2> QED
    BY <2>1, Scene, WarmLater
<1>2. CASE MbReady \/ MbExecutes \/ MbCtrl \/ \E j \in 0..BufSize : MbLn(j)
  BY <1>1, <1>2, MbReadyHeats, MbExecutesHeats, MbCtrlHeats, MbLnHeats
<1>3. CASE MbRunout \/ MbFails
  BY <1>1, <1>3, MbRunoutHeats, MbFailsHeats
<1>4. CASE HeadHello \/ HeadOk \/ HeadEr
  BY <1>1, <1>4, HeadHelloHeats, HeadOkHeats, HeadErHeats
<1>5. CASE HeadPong \/ HeadRestarts \/ Temperature
  BY <1>1, <1>5, HeadPongHeats, HeadRestartsHeats, TemperatureHeats
<1>6. CASE LoopOffline \/ \E ping \in BOOLEAN : Loop(ping)
  BY <1>1, <1>6, LoopOfflineHeats, LoopHeats
<1>7. CASE \E r \in AllRequests : Request(r)
  BY <1>1, <1>7, RequestHeats
<1>8. CASE UNCHANGED vars
  <2>1. p' = p
    BY <1>8 DEF vars
  <2> QED
    BY <1>1, <2>1
<1> QED
  BY <1>2, <1>3, <1>4, <1>5, <1>6, <1>7, <1>8 DEF Next

LEMMA InitHInv ==
    ASSUME Init
    PROVE  HInv
<1>1. /\ p.status = 4 /\ p.exc = "none" /\ p.stash = "none" /\ p.th = "INIT" /\ p.out = "none"
      /\ p.hq = <<>> /\ p.rt = "none" /\ p.allsetCb = "none" /\ p.errno = "none"
      /\ p.macro = "none" /\ p.tasks = <<>> /\ p.heatTo = "hot" /\ p.next = 1 /\ p.queue = <<>>
  BY DEF Init
<1>2. Linked(p, faults)
  BY <1>1, HotValues DEF Linked
<1>3. Planned(p)
  <2>1. ~Waited(1) /\ OnlyMoves(<<>>)
    BY NotYet, NoneComing
  <2>2. "none" \notin MacroKinds
    BY DEF MacroKinds
  <2> QED
    BY <1>1, <2>1, <2>2 DEF Planned
<1>4. Returning(p) /\ Hot(p, faults)
  BY <1>1 DEF Returning, Hot, Moving
<1>5. Warm(p, faults)
  BY <1>2, <1>3, <1>4 DEF Warm
<1> QED
  BY <1>5, InitSits DEF HInv

LEMMA NextHInv ==
    ASSUME HInv, NoStaleStandby, RoomToReturn, NoEarlyAllset, [Next]_vars
    PROVE  HInv'
<1>1. SInv'
  BY NextSInv DEF HInv
<1>2. scenario' = scenario
  BY Scene DEF HInv, SInv
<1>3. SUFFICES ASSUME HeadKind' = "EXTRUDER" PROVE Warm(p, faults)'
  BY <1>1 DEF HInv
<1>4. HeadKind = "EXTRUDER"
  BY <1>2, <1>3 DEF HeadKind
<1>5. Warm(p', faults')
  BY <1>4, NextHeats DEF HInv
<1>12. \A i : Kind(i)' = Kind(i) /\ Target(i)' = Target(i)
  BY <1>2 DEF Kind, Target, Home, Job
<1>6. \A n : Waited(n)' <=> Waited(n)
  BY <1>12 DEF Waited
<1>7. p'.status \notin Ended =>
        /\ Linked(p', faults') /\ Planned(p')
        /\ p'.exc = "none" => Returning(p')
        /\ p'.exc = "none" \/ faults' = 0 => Hot(p', faults')
  BY <1>5 DEF Warm
<1>8. Planned(p') => Planned(p)'
  BY <1>2, <1>6, <1>12 DEF Planned, NoJob, Coming, OnlyMoves
<1>9. Hot(p', faults') => Hot(p, faults)'
  BY <1>6 DEF Hot, Moving, Told
<1>10. Linked(p', faults') => Linked(p, faults)'
  BY DEF Linked
<1>11. Returning(p') => Returning(p)'
  BY DEF Returning, Told
<1> QED
  BY <1>7, <1>8, <1>9, <1>10, <1>11 DEF Warm

\* Where none of the three gaps is met, no handler breaks what is kept of the heater.
THEOREM HeatInvariant ==
    Spec /\ [](NoStaleStandby /\ RoomToReturn /\ NoEarlyAllset) => []HInv
<1>1. HInv /\ (NoStaleStandby /\ RoomToReturn /\ NoEarlyAllset) /\ [Next]_vars => HInv'
  BY NextHInv
<1> QED
  BY <1>1, InitHInv, PTL DEF Spec

\* Where none of the three gaps is met, the mainboard never carries out a move of the job
\* that comes after a wait for a target above 60 degrees (ControlToolheadMacro), and
\* before the job gives the heater another one (control_toolhead), while the head is
\* cold: not after a pause in which the heater was switched off or the head lost its
\* power (recover, WaitHeadMacro), nor after the user's requests in it
\* (set_toolhead_heater, set_toolhead_operation).  The third gap is really needed: two
\* resumes overtaken by pauses, and a third pause, meet it.
THEOREM MovesAreHot ==
    Spec /\ [](NoStaleStandby /\ RoomToReturn /\ NoEarlyAllset) => []HotWhenMoving
<1>1. HInv => HotWhenMoving
  <2> SUFFICES ASSUME HInv, Pending, NextCmd.op = "job",
                      (p.status = 16 /\ ~p.wasReset) \/ (faults = 0 /\ p.status \notin Ended),
                      Waited(NextCmd.i),
                      p.want \in Hots \/ "HEATER_OFF" \notin scenario.requests
               PROVE  p.temp # "cold"
    BY DEF HotWhenMoving
  <2> DEFINE n == p.fin + 1
  <2>1. /\ SInv /\ Sound(p) /\ Fit(p, p.ctrl) /\ IsPlayer(p) /\ p.exc = "none"
        /\ p.status \notin Ended /\ IsScenario(scenario) /\ p.fin \in Nat
        /\ Len(p.queue) \in Nat /\ p.queue \in CommandSeqs
    BY Ends, ExecutorConstants DEF HInv, SInv, IInv, Sound, IsPlayer, CommandSeqs
  <2>2. n \in Coming(p.queue, p.fin) /\ n \in 1..Len(p.queue) /\ p.queue[n].op = "job"
        /\ NextCmd = p.queue[n] /\ NextCmd \in Commands
    BY <2>1 DEF Pending, NextCmd, Coming, CommandSeqs
  <2>3. NextCmd.i \in 1..Home /\ NextCmd.i < p.next /\ Carried(NextCmd.i)
    <3>1. n \in Waiting(p.queue, p.fin)
      BY <2>2 DEF Waiting, Coming
    <3>2. Ordered(p.did, p.queue, p.fin, p.next)
      BY <2>1 DEF Sound
    <3>3. NextCmd.i \in 1..Home
      BY <2>2 DEF Commands, Ops
    <3> QED
      BY <2>2, <3>1, <3>2, <3>3 DEF Ordered
  <2>13. PICK w \in 1..NextCmd.i-1 :
             /\ Kind(w) = "wait" /\ Target(w) \in Hots
             /\ \A i \in w+1..NextCmd.i-1 : Kind(i) \notin Heats
    BY DEF Waited
  <2>4. /\ w \in Nat /\ w < p.next /\ p.next \in Nat /\ w \in 1..Home /\ NextCmd.i \in Nat
        /\ w < NextCmd.i
    BY <2>1, <2>3, <2>13 DEF IsPlayer, Home
  <2>6. HeadKind = "EXTRUDER"
    <3>1. w # Home /\ Job[w].kind = "wait" /\ w \in DOMAIN Job
      <4>1. w # Home
        BY <2>3, <2>4 DEF Home, Job
      <4>2. Job \in Seq(FileCommands)
        BY <2>1 DEF IsScenario, Job
      <4> QED
        BY <2>4, <2>13, <4>1, <4>2 DEF Kind, Home
    <3> QED
      BY <2>1, <3>1 DEF IsScenario, HeadKind, Job, Heats
  <2>7. Linked(p, faults) /\ Planned(p) /\ Hot(p, faults)
    BY <2>1, <2>6 DEF HInv, Warm
  \* The heater commands after the wait are neither carried out nor in the buffer.
  <2>5. Waited(p.next)
    <3>1. \A i \in NextCmd.i..p.next-1 : Kind(i) \notin Heats
      <4> SUFFICES ASSUME NEW i \in NextCmd.i..p.next-1, Kind(i) \in Heats PROVE FALSE
        OBVIOUS
      <4>1. i \in 1..p.next-1 /\ i \in Nat /\ NextCmd.i <= i /\ Kind(i) # "move"
        BY <2>3, <2>4 DEF Heats
      <4>2. Carried(i)
        BY DEF Carried
      <4>3. Ordered(p.did, p.queue, p.fin, p.next) /\ NoGap(p.did, p.queue, p.fin, p.next)
        <5>1. p.status # 128
          BY <2>1, Ends
        <5> QED
          BY <2>1, <5>1 DEF Sound
      <4>4. n \in Waiting(p.queue, p.fin)
        BY <2>2 DEF Waiting, Coming
      <4>5. \A a \in Waiting(p.queue, p.fin) : Kind(p.queue[a].i) = "move"
        <5>1. OnlyMoves(p.queue)
          BY <2>7 DEF Planned
        <5> SUFFICES ASSUME NEW a \in Waiting(p.queue, p.fin) PROVE Kind(p.queue[a].i) = "move"
          OBVIOUS
        <5>2. a \in p.fin + 1..Len(p.queue) /\ p.queue[a].op = "job"
          BY DEF Waiting
        <5>3. a \in 1..Len(p.queue)
          BY <2>1, <5>2
        <5> QED
          BY <5>1, <5>2, <5>3 DEF OnlyMoves
      <4>6. PICK b \in 1..Len(p.did) : p.did[b] = i
        BY <4>1, <4>2, <4>3, <4>5 DEF NoGap
      <4>7. p.did[b] < p.queue[n].i
        BY <4>3, <4>4 DEF Ordered
      <4> QED
        BY <2>2, <2>4, <4>1, <4>6, <4>7
    <3>2. \A i \in w+1..p.next-1 : i \in w+1..NextCmd.i-1 \/ i \in NextCmd.i..p.next-1
      BY <2>4
    <3>3. w \in 1..p.next-1
      BY <2>4
    <3> QED
      BY <2>13, <3>1, <3>2, <3>3 DEF Waited
  <2>8. p.stash = "none"
    <3>1. p.stash # "none" => p.queue[n].op \in Parking
      BY <2>1, <2>2 DEF Fit, Way
    <3> QED
      BY <2>2, <3>1 DEF Parking
  <2>9. Moving(p, faults)
    <3>1. CASE p.status = 16
      BY <3>1 DEF Moving
    <3>2. CASE p.status # 16 /\ faults = 0
      <4>1. p.status \in {4, 6, 16, 18, 36, 38, 48, 50}
        BY <2>1, StatusValues, Ends DEF IsPlayer
      <4>2. p.status # 48
        <5>1. p.status = 48 => p.stash = "stashed"
          BY <2>1, Freed
        <5> QED
          BY <2>8, <5>1
      <4>3. p.status \notin Starting
        <5>1. p.status \in Starting => p.next <= 1
          BY <2>1 DEF Sound, Reading
        <5> QED
          BY <2>3, <2>4, <5>1
      <4> QED
        BY <2>8, <3>2, <4>1, <4>2, <4>3 DEF Moving, Starting
    <3> QED
      BY <3>1, <3>2
  <2>10. p.th = "RUNNING" /\ (Told(p) /\ p.macro # "job heat" => p.temp # "cold")
    BY <2>5, <2>7, <2>9 DEF Hot
  <2>11. Told(p)
    <3>1. p.want \in Hots
      BY <2>5, <2>7 DEF Planned
    <3>2. ~p.wasReset
      BY <2>7, <2>10 DEF Linked
    <3> QED
      BY <3>1, <3>2 DEF Told
  <2>12. p.macro # "job heat"
    BY <2>2, <2>7 DEF Planned, NoJob
  <2> QED
    BY <2>10, <2>11, <2>12
<1> QED
  BY <1>1, HeatInvariant, PTL
=============================================================================
