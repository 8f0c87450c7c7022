-------------------------- MODULE DriverAppProofs --------------------------
(***************************************************************************)
(* Proofs about DriverApp, for any number of tablets, sessions, polls and  *)
(* things the user does, and chunks of any size: the types, that a session *)
(* which is over, stopped or paused leaves the mouse alone, and that the   *)
(* active session has the mode saved for its tablet; and that the window   *)
(* picker and the pause go together, for one tablet.                       *)
(***************************************************************************)
EXTENDS DriverApp, TLAPS

\* What the left button is at is what the backend says it is, so that cleaning
\* the backend up lets it go; and a frame that passed its checks is the only
\* one that may still come after a stop or a pause.
ButtonKnown(s) ==
    /\ s.button = s.backend.buttonDown
    /\ s.backend.mode = "native" => ~s.backend.buttonDown
    /\ s.pc \in {"new", "connecting", "waiting", "done"} => ~s.button
OneLate(s) ==
    /\ s.late <= 1 /\ s.latePaused <= 1
    /\ s.late # 0 => s.stopRequested
    /\ s.pc = "handle" => s.late = 0
    /\ s.pc = "handle" /\ s.paused => s.latePaused = 0
SessionOK(s) ==
    /\ s \in Session
    /\ s.pc # "new" => s.conn \in Conns
    /\ ButtonKnown(s) /\ OneLate(s)

\* The active session belongs to the active connection, which is saved.
ActiveOK(m) ==
    /\ m.active # None => m.active \in m.saved
    /\ m.session # NoSid =>
          /\ m.active # None
          /\ m.sessions[m.session].conn = m.active
          /\ m.sessions[m.session].mode = m.mode[m.active]
ManagerOK(m) ==
    /\ m \in Manager
    /\ \A sid \in Sids : SessionOK(m.sessions[sid])
    /\ ActiveOK(m)

AppOK(a) == a \in App /\ ManagerOK(a.m)

Emitted == [kind : {"connected", "stopped", "failed", "modeFallback", "statusGone", "statusSet"},
            active : OutputMode \cup {None}]
Queued == [kind : {"connected", "stopped", "failed", "modeFallback", "statusGone", "statusSet"},
           active : OutputMode \cup {None}, conn : Conns]

Polls == [asked : Seq(SUBSET Conns), wasReachable : SUBSET Conns, reached : SUBSET Conns,
          newlyOnline : SUBSET Conns, applying : BOOLEAN]

Inv == AppOK(app) /\ queue \in Seq(Queued) /\ poll \in Polls

-----------------------------------------------------------------------------
(* Backends *)

LEMMA NewBackendFacts ==
  ASSUME NEW mode \in OutputMode
  PROVE  /\ NewBackend(mode) \in Backend /\ ~NewBackend(mode).buttonDown
  BY DEF NewBackend, Backend

LEMMA ButtonAfterFacts ==
  ASSUME NEW b \in BOOLEAN
  PROVE  /\ ButtonAfter(b, <<>>) = b
         /\ ButtonAfter(b, <<"up">>) = FALSE
         /\ ButtonAfter(b, <<"down">>) = TRUE
         /\ ButtonAfter(b, <<"drag">>) = b
         /\ ButtonAfter(b, <<"move">>) = b
         /\ ButtonAfter(b, <<"report">>) = b
  BY DEF ButtonAfter

LEMMA ReleaseFacts ==
  ASSUME NEW b \in Backend
  PROVE  ButtonAfter(b.buttonDown, Release(b)) = FALSE
<1>1. CASE b.buttonDown
  BY <1>1, ButtonAfterFacts DEF Release, Backend
<1>2. CASE ~b.buttonDown
  BY <1>2, ButtonAfterFacts DEF Release, Backend
<1> QED
  BY <1>1, <1>2

\* A backend that says truly where the button is still does so after a frame.
LEMMA FrameKeepsButton ==
  ASSUME NEW b \in Backend, b.mode = "native" => ~b.buttonDown, NEW f \in PenFrame
  PROVE  /\ HandleFrame(b, f).backend \in Backend
         /\ HandleFrame(b, f).backend.mode = b.mode
         /\ ButtonAfter(b.buttonDown, HandleFrame(b, f).posts)
               = HandleFrame(b, f).backend.buttonDown
         /\ b.mode = "native" => ~HandleFrame(b, f).backend.buttonDown
<1> DEFINE Good(h) == /\ h.backend \in Backend /\ h.backend.mode = b.mode
                      /\ ButtonAfter(b.buttonDown, h.posts) = h.backend.buttonDown
<1>0. /\ b.buttonDown \in BOOLEAN /\ f.inProximity \in BOOLEAN /\ f.touching \in BOOLEAN
      /\ f.touching => f.inProximity
  BY DEF Backend, PenFrame
<1>1. Good(HandleRelative(b, f))
  <2>1. CASE ~f.inProximity
    BY <2>1, ReleaseFacts DEF HandleRelative, Post, Backend
  <2>2. CASE f.inProximity /\ Phase(f) = b.phase
    BY <2>2, <1>0, ButtonAfterFacts DEF HandleRelative, Post, Backend, Phase
  <2>3. CASE f.inProximity /\ Phase(f) # b.phase /\ f.touching
    BY <2>3, <1>0, ButtonAfterFacts DEF HandleRelative, Post, Backend, Phase
  <2>4. CASE f.inProximity /\ Phase(f) # b.phase /\ ~f.touching
    BY <2>4, <1>0, ReleaseFacts DEF HandleRelative, Post, Backend, Phase
  <2> QED
    BY <2>1, <2>2, <2>3, <2>4, <1>0
<1>2. Good(HandleAbsolute(b, f))
  <2>1. CASE ~f.inProximity
    BY <2>1, <1>0, ReleaseFacts DEF HandleAbsolute, Post, Backend
  <2>2. CASE f.inProximity /\ f.touching /\ ~b.wasTouching
    BY <2>2, <1>0, ButtonAfterFacts DEF HandleAbsolute, Post, Backend
  <2>3. CASE f.inProximity /\ ~f.touching /\ b.wasTouching
    BY <2>3, <1>0, ButtonAfterFacts DEF HandleAbsolute, Post, Backend
  <2>4. CASE f.inProximity /\ f.touching /\ b.wasTouching
    BY <2>4, <1>0, ButtonAfterFacts DEF HandleAbsolute, Post, Backend
  <2>5. CASE f.inProximity /\ ~f.touching /\ ~b.wasTouching
    BY <2>5, <1>0, ButtonAfterFacts DEF HandleAbsolute, Post, Backend
  <2> QED
    BY <2>1, <2>2, <2>3, <2>4, <2>5
<1>3. Good(HandleNative(b, f)) /\ HandleNative(b, f).backend = b
  BY <1>0, ButtonAfterFacts DEF HandleNative, Post
<1> QED
  BY <1>1, <1>2, <1>3 DEF HandleFrame

\* cleanup() lets the button go.
LEMMA CleanupLetsGo ==
  ASSUME NEW b \in Backend, b.mode = "native" => ~b.buttonDown
  PROVE  /\ Cleanup(b).backend \in Backend
         /\ ~Cleanup(b).backend.buttonDown
         /\ ButtonAfter(b.buttonDown, Cleanup(b).posts) = FALSE
<1>1. b.buttonDown \in BOOLEAN /\ b.mode \in OutputMode
  BY DEF Backend
<1>2. CASE b.mode = "native"
  BY <1>1, <1>2, ButtonAfterFacts DEF Cleanup, Post, Backend
<1>3. CASE b.mode = "relative"
  BY <1>1, <1>3, ReleaseFacts DEF Cleanup, Post, Backend
<1>4. CASE b.mode = "absolute"
  BY <1>1, <1>4, ReleaseFacts DEF Cleanup, Post, Backend
<1> QED
  BY <1>1, <1>2, <1>3, <1>4 DEF OutputMode, MouseEmulation

-----------------------------------------------------------------------------
(* A session: the calls of the main actor *)

LEMMA UnusedOK == SessionOK(Unused)
<1>1. /\ NewBackend("relative") \in Backend
      /\ NewBackend("relative").buttonDown = FALSE /\ NewBackend("relative").mode = "relative"
  BY NewBackendFacts DEF NewBackend, OutputMode, MouseEmulation
<1>2. 0 \in 0..MaxChunk /\ 0 \in 0..(MaxChunk + 1)
  BY SessionAssumption DEF SessionAssumption
<1>3. Unused \in Session
  <2>1. "relative" \in OutputMode /\ "relative" \in MouseEmulation
    BY DEF OutputMode, MouseEmulation
  <2> QED
    BY <1>1, <1>2, <2>1 DEF Unused, Session
<1>4. ButtonKnown(Unused)
  BY <1>1 DEF ButtonKnown, Unused
<1>5. OneLate(Unused)
  BY DEF OneLate, Unused
<1> QED
  BY <1>3, <1>4, <1>5 DEF SessionOK, Unused

LEMMA StartOK ==
  ASSUME NEW c \in Conns, NEW mode \in OutputMode
  PROVE  /\ SessionOK(StartSession(c, mode))
         /\ StartSession(c, mode).conn = c /\ StartSession(c, mode).mode = mode
<1>1. SessionOK(Unused) /\ Unused.conn = None /\ Unused.button = FALSE /\ Unused.late = 0
         /\ Unused.latePaused = 0 /\ Unused.stopRequested = FALSE
  BY UnusedOK DEF Unused
<1> QED
  BY <1>1 DEF SessionOK, ButtonKnown, OneLate, StartSession, Session

LEMMA StopOK ==
  ASSUME NEW s, SessionOK(s)
  PROVE  /\ SessionOK(StopSession(s))
         /\ StopSession(s).conn = s.conn /\ StopSession(s).mode = s.mode
  BY ZenonT(60) DEF SessionOK, ButtonKnown, OneLate, StopSession, Session

LEMMA PauseOK ==
  ASSUME NEW s, SessionOK(s)
  PROVE  /\ SessionOK(PauseSession(s))
         /\ PauseSession(s).conn = s.conn /\ PauseSession(s).mode = s.mode
<1>1. 0 \in 0..(MaxChunk + 1)
  BY SessionAssumption DEF SessionAssumption
<1>2. PauseSession(s) \in Session
  BY <1>1, SessionAssumption DEF SessionAssumption, SessionOK, PauseSession, Session
<1>3. PauseSession(s).latePaused = 0
  BY DEF SessionOK, PauseSession, Session
<1> QED
  BY <1>2, <1>3 DEF SessionOK, ButtonKnown, OneLate, PauseSession, Session

LEMMA ResumeOK ==
  ASSUME NEW s, SessionOK(s)
  PROVE  /\ SessionOK(ResumeSession(s))
         /\ ResumeSession(s).conn = s.conn /\ ResumeSession(s).mode = s.mode
  BY ZenonT(60) DEF SessionOK, ButtonKnown, OneLate, ResumeSession, Session

LEMMA ConfigOK ==
  ASSUME NEW s, SessionOK(s), NEW mode \in OutputMode
  PROVE  /\ SessionOK(UpdateConfig(s, mode))
         /\ UpdateConfig(s, mode).conn = s.conn /\ UpdateConfig(s, mode).mode = mode
  BY DEF SessionOK, ButtonKnown, OneLate, UpdateConfig, Session

-----------------------------------------------------------------------------
(* A session: the steps of its thread *)

LEMMA CleanOK ==
  ASSUME NEW s, SessionOK(s)
  PROVE  /\ SessionOK(Clean(s)) /\ ~Clean(s).button
         /\ Clean(s) = [s EXCEPT !.backend = Clean(s).backend, !.button = FALSE]
<1> DEFINE c == Cleanup(s.backend)
<1>1. /\ s \in Session /\ s.backend \in Backend
      /\ s.backend.mode = "native" => ~s.backend.buttonDown
      /\ s.button = s.backend.buttonDown
  BY DEF SessionOK, ButtonKnown, Session
<1>2. /\ c.backend \in Backend /\ ~c.backend.buttonDown
      /\ ButtonAfter(s.button, c.posts) = FALSE
  BY <1>1, CleanupLetsGo
<1>3. c.backend.buttonDown = FALSE
  BY <1>2 DEF Backend
<1> HIDE DEF c
<1>4. Clean(s) = [s EXCEPT !.backend = c.backend, !.button = FALSE]
  BY <1>2 DEF Clean, c
<1> QED
  BY <1>1, <1>2, <1>3, <1>4 DEF SessionOK, ButtonKnown, OneLate, Session

\* A step of the thread keeps the session right, its tablet and its mode, and
\* emits events.
StepOK(s, out) ==
    /\ SessionOK(out.session) /\ out.emits \in Seq(Emitted)
    /\ out.session.conn = s.conn /\ out.session.mode = s.mode

LEMMA LeaveLoopOK ==
  ASSUME NEW s, SessionOK(s), s.pc = "reading"
  PROVE  StepOK(s, LeaveLoop(s))
<1>1. <<StatusGone>> \in Seq(Emitted)
  BY DEF Emitted, StatusGone, Event
<1> DEFINE c == Clean(s)
<1>2. SessionOK(c) /\ ~c.button /\ c.pc = "reading" /\ c.conn = s.conn /\ c.mode = s.mode
  <2>1. s \in Session
    BY DEF SessionOK
  <2> QED
    BY ZenonT(60), <2>1, CleanOK DEF Session
<1> HIDE DEF c
<1>3. SessionOK([c EXCEPT !.pc = "waiting"])
  BY <1>2 DEF SessionOK, ButtonKnown, OneLate, Session
<1>4. LeaveLoop(s) = Out([c EXCEPT !.pc = "waiting"], <<StatusGone>>)
  BY DEF LeaveLoop, c
<1> QED
  BY <1>1, <1>2, <1>3, <1>4 DEF Out, StepOK, SessionOK, Session

LEMMA MakeBackendOK ==
  ASSUME NEW s, s \in Session, NEW mode \in OutputMode, NEW fallback \in MouseEmulation,
         NEW ok \in BOOLEAN
  PROVE  /\ MakeBackend(s, mode, fallback, ok).emits \in Seq(Emitted)
         /\ \E used \in OutputMode : MakeBackend(s, mode, fallback, ok).session
                                         = [s EXCEPT !.backend = NewBackend(used)]
<1>1. fallback \in OutputMode /\ MouseEmulation \subseteq OutputMode
  BY DEF OutputMode
<1>2. <<Fallback(fallback), StatusSet>> \in Seq(Emitted) /\ <<StatusSet>> \in Seq(Emitted)
  BY <1>1 DEF Emitted, Fallback, StatusSet, Event
<1>3. CASE mode = "native" /\ ~ok
  BY <1>1, <1>2, <1>3 DEF MakeBackend, Out
<1>4. CASE ~(mode = "native" /\ ~ok)
  BY <1>2, <1>4 DEF MakeBackend, Out
<1> QED
  BY <1>3, <1>4

LEMMA MouseModeFacts ==
  ASSUME NEW mode, NEW default \in MouseEmulation
  PROVE  MouseModeOr(mode, default) \in MouseEmulation
  BY DEF MouseModeOr

\* A new backend may be put in where the button is up.
LEMMA FreshBackendOK ==
  ASSUME NEW s, SessionOK(s), ~s.button, NEW used \in OutputMode
  PROVE  SessionOK([s EXCEPT !.backend = NewBackend(used)])
<1>1. NewBackend(used) \in Backend /\ NewBackend(used).buttonDown = FALSE
  BY NewBackendFacts DEF NewBackend
<1> QED
  BY ZenonT(60), <1>1 DEF SessionOK, ButtonKnown, OneLate, Session

LEMMA ConnectedOK ==
  ASSUME NEW s, SessionOK(s), s.pc = "connecting", NEW ok \in BOOLEAN
  PROVE  StepOK(s, Connected(s, ok))
<1> DEFINE last == MouseModeOr(s.mode, "relative")
           t == [s EXCEPT !.process = "running", !.published = TRUE, !.currentMode = s.mode,
                          !.lastMouseMode = last, !.pc = "reading"]
           made == MakeBackend(t, s.mode, last, ok)
<1>1. s \in Session /\ s.mode \in OutputMode /\ last \in MouseEmulation
  BY MouseModeFacts DEF SessionOK, Session, MouseEmulation
<1> HIDE DEF last
<1>2. SessionOK(t) /\ ~t.button /\ t.conn = s.conn /\ t.mode = s.mode /\ t \in Session
  BY <1>1 DEF SessionOK, ButtonKnown, OneLate, Session
<1>3. /\ made.emits \in Seq(Emitted)
      /\ \E used \in OutputMode : made.session = [t EXCEPT !.backend = NewBackend(used)]
  <2> HIDE DEF t
  <2> QED
    BY <1>1, <1>2, MakeBackendOK
<1>4. /\ SessionOK(made.session) /\ made.session.conn = s.conn /\ made.session.mode = s.mode
  <2>1. PICK used \in OutputMode : made.session = [t EXCEPT !.backend = NewBackend(used)]
    BY <1>3
  <2> HIDE DEF t, made
  <2> QED
    BY <1>2, <2>1, FreshBackendOK DEF Session
<1>5. <<Event("connected")>> \o made.emits \in Seq(Emitted)
  <2>1. <<Event("connected")>> \in Seq(Emitted)
    BY DEF Event, Emitted
  <2> HIDE DEF made
  <2> QED
    BY <1>3, <2>1
<1>6. Connected(s, ok) = Out(made.session, <<Event("connected")>> \o made.emits)
  BY DEF Connected, last
<1> HIDE DEF made
<1> QED
  BY <1>4, <1>5, <1>6 DEF StepOK, Out

LEMMA ReadsOK ==
  ASSUME NEW s, SessionOK(s), s.pc = "reading", NEW out \in Reads(s)
  PROVE  StepOK(s, out)
<1>1. CASE s.stopRequested \/ s.process # "running"
  BY <1>1, LeaveLoopOK DEF Reads
<1>2. CASE ~(s.stopRequested \/ s.process # "running")
  <2>1. PICK n \in 1..MaxChunk : out = Out([s EXCEPT !.pc = "frame", !.frames = n], <<>>)
    BY <1>2 DEF Reads
  <2>2. n \in 0..MaxChunk
    BY SessionAssumption DEF SessionAssumption
  <2>3. <<>> \in Seq(Emitted)
    OBVIOUS
  <2>4. SessionOK([s EXCEPT !.pc = "frame", !.frames = n])
    BY <2>2 DEF SessionOK, ButtonKnown, OneLate, Session
  <2> QED
    BY ZenonT(60), <2>1, <2>3, <2>4 DEF Out, StepOK, SessionOK, Session
<1> QED
  BY <1>1, <1>2

LEMMA SwapOK ==
  ASSUME NEW s, SessionOK(s), NEW mode \in OutputMode, NEW last \in MouseEmulation,
         NEW ok \in BOOLEAN
  PROVE  /\ StepOK(s, SwapBackend(s, mode, last, ok))
         /\ SwapBackend(s, mode, last, ok).session.pc = s.pc
         /\ SwapBackend(s, mode, last, ok).session.late = s.late
         /\ SwapBackend(s, mode, last, ok).session.latePaused = s.latePaused
         /\ SwapBackend(s, mode, last, ok).session.stopRequested = s.stopRequested
         /\ SwapBackend(s, mode, last, ok).session.paused = s.paused
<1> DEFINE c == Clean(s)
           made == MakeBackend(c, mode, last, ok)
           gone == IF mode \in MouseEmulation THEN <<StatusGone>> ELSE <<>>
<1>1. s \in Session
  BY DEF SessionOK
<1>2. /\ SessionOK(c) /\ ~c.button /\ c \in Session /\ c.pc = s.pc /\ c.late = s.late
      /\ c.latePaused = s.latePaused /\ c.stopRequested = s.stopRequested
      /\ c.paused = s.paused /\ c.conn = s.conn /\ c.mode = s.mode
  <2>1. SessionOK(c) /\ ~c.button /\ c = [s EXCEPT !.backend = c.backend, !.button = FALSE]
    BY CleanOK
  <2> HIDE DEF c
  <2> QED
    BY <1>1, <2>1 DEF SessionOK, Session
<1> HIDE DEF c
<1>3. PICK used \in OutputMode : made.session = [c EXCEPT !.backend = NewBackend(used)]
  BY <1>2, MakeBackendOK
<1>4. made.emits \in Seq(Emitted)
  BY <1>2, MakeBackendOK
<1>5. gone \in Seq(Emitted)
  <2>1. <<StatusGone>> \in Seq(Emitted) /\ <<>> \in Seq(Emitted)
    BY DEF Emitted, StatusGone, Event
  <2> QED
    BY <2>1
<1>6. SwapBackend(s, mode, last, ok)
        = Out([made.session EXCEPT !.currentMode = mode], made.emits \o gone)
  BY DEF SwapBackend, c
<1> HIDE DEF made, gone
<1>7. /\ SessionOK(made.session) /\ made.session.pc = s.pc /\ made.session.late = s.late
      /\ made.session.latePaused = s.latePaused
      /\ made.session.stopRequested = s.stopRequested
      /\ made.session.paused = s.paused
      /\ made.session.conn = s.conn /\ made.session.mode = s.mode
  BY <1>2, <1>3, FreshBackendOK DEF Session
<1> DEFINE d == [made.session EXCEPT !.currentMode = mode]
<1>8. /\ SessionOK(d) /\ d.pc = s.pc /\ d.late = s.late
      /\ d.latePaused = s.latePaused /\ d.stopRequested = s.stopRequested
      /\ d.paused = s.paused /\ d.conn = s.conn /\ d.mode = s.mode
  BY <1>7 DEF SessionOK, ButtonKnown, OneLate, Session
<1>9. made.emits \o gone \in Seq(Emitted)
  BY <1>4, <1>5
<1> HIDE DEF d
<1>10. SwapBackend(s, mode, last, ok) = Out(d, made.emits \o gone)
  BY <1>6 DEF d
<1> QED
  BY <1>8, <1>9, <1>10 DEF Out, StepOK

LEMMA NextFrameOK ==
  ASSUME NEW s, SessionOK(s), s.pc = "frame", NEW ok \in BOOLEAN
  PROVE  StepOK(s, NextFrame(s, ok))
<1> DEFINE last == MouseModeOr(s.mode, s.lastMouseMode)
           take == [s EXCEPT !.frames = @ - 1]
           swap == IF s.mode # s.currentMode THEN SwapBackend(take, s.mode, last, ok)
                   ELSE Out(take, <<>>)
<1>1. /\ s \in Session /\ s.mode \in OutputMode /\ last \in MouseEmulation
      /\ s.frames \in 0..MaxChunk /\ <<>> \in Seq(Emitted)
  BY MouseModeFacts DEF SessionOK, Session
<1> HIDE DEF last
<1>2. CASE s.frames = 0 \/ s.stopRequested
  <2> DEFINE d == [s EXCEPT !.frames = 0, !.pc = "reading"]
  <2>1. NextFrame(s, ok) = Out(d, <<>>)
    BY <1>2 DEF NextFrame
  <2>2. 0 \in 0..MaxChunk
    BY SessionAssumption DEF SessionAssumption
  <2>3. d \in Session /\ d.conn = s.conn /\ d.mode = s.mode
    BY <1>1, <2>2 DEF Session
  <2>4. SessionOK(d)
    BY <2>3 DEF SessionOK, ButtonKnown, OneLate, Session
  <2> HIDE DEF d
  <2> QED
    BY <1>1, <2>1, <2>3, <2>4 DEF Out, StepOK
<1>3. CASE s.frames # 0 /\ ~s.stopRequested
  <2>1. take \in Session /\ take.conn = s.conn /\ take.mode = s.mode /\ take.pc = "frame"
    <3>1. s.frames - 1 \in 0..MaxChunk
      BY <1>1, <1>3, SessionAssumption DEF SessionAssumption
    <3> QED
      BY <1>1, <3>1 DEF Session
  <2>2. SessionOK(take)
    BY <2>1 DEF SessionOK, ButtonKnown, OneLate, Session
  <2>3. take.stopRequested = s.stopRequested /\ take.paused = s.paused
    BY <1>1 DEF Session
  <2>4. s.frames > 0
    BY <1>1, <1>3
  <2>5. CASE s.paused
    <3>1. NextFrame(s, ok) = Out(Clean(take), <<>>)
      BY <1>3, <2>4, <2>5 DEF NextFrame
    <3> HIDE DEF take
    <3>2. SessionOK(Clean(take)) /\ Clean(take).conn = s.conn /\ Clean(take).mode = s.mode
      BY <2>1, <2>2, CleanOK DEF Session
    <3> QED
      BY <1>1, <3>1, <3>2 DEF Out, StepOK
  <2>6. CASE ~s.paused
    <3>1. NextFrame(s, ok)
            = Out([swap.session EXCEPT !.lastMouseMode = last, !.pc = "handle"], swap.emits)
      BY <1>3, <2>4, <2>6 DEF NextFrame, last
    <3>2. /\ StepOK(take, swap) /\ swap.session.pc = "frame"
          /\ swap.session.stopRequested = take.stopRequested
          /\ swap.session.paused = take.paused
      <4>1. CASE s.mode # s.currentMode
        <5> HIDE DEF take
        <5> QED
          BY <1>1, <2>1, <2>2, <4>1, SwapOK
      <4>2. CASE s.mode = s.currentMode
        <5> HIDE DEF take
        <5> QED
          BY <1>1, <2>1, <2>2, <4>2 DEF Out, StepOK
      <4> QED
        BY <4>1, <4>2
    <3> DEFINE d == [swap.session EXCEPT !.lastMouseMode = last, !.pc = "handle"]
    <3> HIDE DEF swap, take
    <3>3. /\ SessionOK(swap.session) /\ swap.emits \in Seq(Emitted)
          /\ swap.session.conn = s.conn /\ swap.session.mode = s.mode
          /\ ~swap.session.stopRequested /\ ~swap.session.paused
      BY <1>3, <2>1, <2>3, <2>6, <3>2 DEF StepOK
    <3>4. d \in Session /\ d.conn = s.conn /\ d.mode = s.mode
      BY <1>1, <3>3 DEF SessionOK, Session
    <3>5. SessionOK(d)
      BY <3>2, <3>3, <3>4 DEF SessionOK, ButtonKnown, OneLate, Session
    <3>6. NextFrame(s, ok) = Out(d, swap.emits)
      BY <3>1
    <3> HIDE DEF d
    <3> QED
      BY <3>3, <3>4, <3>5, <3>6 DEF Out, StepOK
  <2> QED
    BY <2>5, <2>6
<1> QED
  BY <1>2, <1>3

LEMMA HandlePenFrameOK ==
  ASSUME NEW s, SessionOK(s), s.pc = "handle", NEW f \in PenFrame
  PROVE  StepOK(s, HandlePenFrame(s, f))
<1> DEFINE h == HandleFrame(s.backend, f)
           after == ButtonAfter(s.button, h.posts)
           d == HandlePenFrame(s, f).session
<1>1. /\ s \in Session /\ s.backend \in Backend /\ s.button = s.backend.buttonDown
      /\ s.backend.mode = "native" => ~s.backend.buttonDown
  BY DEF SessionOK, ButtonKnown, Session
<1>2. /\ h.backend \in Backend /\ after = h.backend.buttonDown /\ after \in BOOLEAN
      /\ h.backend.mode = "native" => ~h.backend.buttonDown
  BY <1>1, FrameKeepsButton DEF Backend
<1> HIDE DEF h, after
<1>3. /\ HandlePenFrame(s, f).emits = <<>>
      /\ d = [s EXCEPT !.backend = h.backend, !.button = after, !.pc = "frame",
                       !.late = IF s.stopRequested THEN @ + 1 ELSE @,
                       !.latePaused = IF s.paused THEN @ + 1 ELSE @]
  BY DEF HandlePenFrame, Out, h, after
<1>4. /\ s.late = 0 /\ s.latePaused \in {0, 1}
      /\ s.paused => s.latePaused = 0
      /\ s.late + 1 \in 0..(MaxChunk + 1) /\ s.late \in 0..(MaxChunk + 1)
      /\ s.latePaused \in 0..(MaxChunk + 1)
      /\ s.paused => s.latePaused + 1 \in 0..(MaxChunk + 1)
  BY <1>1, SessionAssumption DEF SessionAssumption, SessionOK, OneLate, Session
<1> HIDE DEF d
<1>5. /\ d \in Session /\ d.conn = s.conn /\ d.mode = s.mode
      /\ d.pc = "frame" /\ d.button = after /\ d.backend = h.backend
  <2>1. /\ (IF s.stopRequested THEN s.late + 1 ELSE s.late) \in 0..(MaxChunk + 1)
        /\ (IF s.paused THEN s.latePaused + 1 ELSE s.latePaused) \in 0..(MaxChunk + 1)
    BY <1>4
  <2> QED
    BY <1>1, <1>2, <1>3, <2>1 DEF Session
<1>6. ButtonKnown(d)
  BY <1>2, <1>5 DEF ButtonKnown
<1>7. OneLate(d)
  <2>1. /\ d.late = IF s.stopRequested THEN s.late + 1 ELSE s.late
        /\ d.latePaused = IF s.paused THEN s.latePaused + 1 ELSE s.latePaused
        /\ d.stopRequested = s.stopRequested
    BY <1>1, <1>3 DEF Session
  <2>2. d.late \in {0, 1} /\ (d.late # 0 => d.stopRequested)
    BY <1>4, <2>1
  <2>3. d.latePaused \in {0, 1}
    BY <1>4, <2>1
  <2> QED
    BY <1>5, <2>2, <2>3 DEF OneLate
<1>8. d.conn \in Conns
  BY <1>5 DEF SessionOK
<1> QED
  BY <1>3, <1>5, <1>6, <1>7, <1>8 DEF StepOK, SessionOK, d

LEMMA FinishOK ==
  ASSUME NEW s, SessionOK(s), ~s.button, s.conn \in Conns, NEW events \in Seq(Emitted)
  PROVE  StepOK(s, Finish(s, events))
<1> DEFINE d == Finish(s, events).session
<1>1. s \in Session /\ s.button = FALSE
  BY DEF SessionOK, Session
<1>2. /\ Unused \in Session /\ Unused.backend.buttonDown = FALSE
      /\ Unused.late = 0 /\ Unused.latePaused = 0
  BY UnusedOK DEF SessionOK, ButtonKnown, Unused, NewBackend
<1>3. d = [Unused EXCEPT !.conn = s.conn, !.pc = "done", !.stopRequested = s.stopRequested,
                         !.paused = s.paused, !.mode = s.mode, !.process = s.process,
                         !.button = s.button]
  BY DEF Finish, Out
<1>4. Finish(s, events).emits \in Seq(Emitted)
  BY DEF Finish, Out
<1> HIDE DEF d
<1>5. d \in Session /\ d.conn = s.conn /\ d.mode = s.mode
  BY <1>1, <1>2, <1>3 DEF Session
<1>6. ButtonKnown(d) /\ OneLate(d)
  <2>1. /\ d.pc = "done" /\ d.button = FALSE /\ d.backend = Unused.backend
        /\ d.late = 0 /\ d.latePaused = 0
    BY <1>1, <1>2, <1>3 DEF Session
  <2>2. 0 <= 1
    OBVIOUS
  <2> QED
    BY <1>2, <2>1, <2>2 DEF ButtonKnown, OneLate
<1> QED
  BY <1>4, <1>5, <1>6 DEF StepOK, SessionOK, d

LEMMA CatchOK ==
  ASSUME NEW s, SessionOK(s), s.conn \in Conns
  PROVE  StepOK(s, Catch(s))
<1> DEFINE c == Clean(s)
           f == Finish(c, <<Event("failed")>>)
<1>1. <<Event("failed")>> \in Seq(Emitted) /\ <<StatusGone>> \in Seq(Emitted)
  BY DEF Emitted, StatusGone, Event
<1>2. SessionOK(c) /\ ~c.button /\ c.conn = s.conn /\ c.mode = s.mode
  <2>1. SessionOK(c) /\ ~c.button /\ c = [s EXCEPT !.backend = c.backend, !.button = FALSE]
    BY CleanOK
  <2> HIDE DEF c
  <2> QED
    BY <2>1 DEF SessionOK, Session
<1> HIDE DEF c
<1>3. StepOK(c, f)
  BY <1>1, <1>2, FinishOK
<1>4. Catch(s) = Out(f.session, <<StatusGone>> \o f.emits)
  BY DEF Catch, c
<1> HIDE DEF f
<1>5. <<StatusGone>> \o f.emits \in Seq(Emitted)
  BY <1>1, <1>3 DEF StepOK
<1> QED
  BY <1>2, <1>3, <1>4, <1>5 DEF StepOK, Out

LEMMA AfterExitOK ==
  ASSUME NEW s, SessionOK(s), s.pc = "waiting"
  PROVE  StepOK(s, AfterExit(s))
<1>1. s.conn \in Conns /\ ~s.button
  BY DEF SessionOK, ButtonKnown
<1>2. <<Event("stopped")>> \in Seq(Emitted)
  BY DEF Emitted, Event
<1> QED
  BY <1>1, <1>2, CatchOK, FinishOK DEF AfterExit

LEMMA ThreadStepOK ==
  ASSUME NEW s, SessionOK(s), NEW out \in ThreadSteps(s)
  PROVE  StepOK(s, out) /\ s.conn \in Conns
<1>1. s.pc \in {"new", "connecting", "reading", "frame", "handle", "waiting", "done"}
  BY DEF SessionOK, Session
<1>2. CASE s.pc = "connecting"
  BY <1>2, ConnectedOK, CatchOK DEF ThreadSteps, SessionOK
<1>3. CASE s.pc = "reading"
  BY <1>3, ReadsOK DEF ThreadSteps, SessionOK
<1>4. CASE s.pc = "frame"
  BY <1>4, NextFrameOK DEF ThreadSteps, SessionOK
<1>5. CASE s.pc = "handle"
  BY <1>5, HandlePenFrameOK DEF ThreadSteps, SessionOK
<1>6. CASE s.pc = "waiting"
  BY <1>6, AfterExitOK DEF ThreadSteps, SessionOK
<1>7. CASE s.pc \in {"new", "done"}
  BY <1>7 DEF ThreadSteps
<1> QED
  BY <1>1, <1>2, <1>3, <1>4, <1>5, <1>6, <1>7

-----------------------------------------------------------------------------
(* The connection manager *)

\* What a call to the active session leaves of the rest.
LEMMA OnSessionFacts ==
  ASSUME NEW m, ManagerOK(m), NEW new, new = m.sessions[m.session] \/ SessionOK(new),
         m.session # NoSid, new.conn = m.sessions[m.session].conn,
         new.mode = m.sessions[m.session].mode
  PROVE  ManagerOK([m EXCEPT !.sessions[m.session] = new])
<1> DEFINE n == [m EXCEPT !.sessions[m.session] = new]
<1>1. /\ m \in Manager /\ m.session \in Sids /\ m.sessions \in [Sids -> Session]
      /\ SessionOK(new) /\ new \in Session
  BY DEF ManagerOK, Manager, SessionOK
<1>2. /\ n \in Manager /\ n.sessions = [m.sessions EXCEPT ![m.session] = new]
      /\ n.active = m.active /\ n.saved = m.saved /\ n.mode = m.mode
      /\ n.session = m.session
  BY <1>1 DEF Manager
<1> HIDE DEF n
<1>3. \A sid \in Sids : SessionOK(n.sessions[sid])
  BY <1>1, <1>2 DEF ManagerOK
<1>4. ActiveOK(n)
  BY <1>1, <1>2 DEF ManagerOK, ActiveOK
<1> QED
  BY <1>2, <1>3, <1>4 DEF ManagerOK, n

\* With no session active any connection that is saved may be the active one.
LEMMA DisconnectOK ==
  ASSUME NEW m, ManagerOK(m)
  PROVE  /\ ManagerOK(Disconnect(m)) /\ Disconnect(m).active = None
         /\ Disconnect(m).session = NoSid /\ Disconnect(m).saved = m.saved
         /\ Disconnect(m).started = m.started /\ Disconnect(m).mode = m.mode
<1> DEFINE b == OnSession(m, StopSession)
           d == Disconnect(m)
<1>1. /\ ManagerOK(b) /\ b \in Manager /\ b.saved = m.saved /\ b.started = m.started
      /\ b.mode = m.mode
  <2>1. CASE m.session = NoSid
    BY <2>1 DEF OnSession, ManagerOK
  <2>2. CASE m.session # NoSid
    <3> DEFINE new == StopSession(m.sessions[m.session])
    <3>1. m \in Manager /\ m.session \in Sids /\ SessionOK(m.sessions[m.session])
      BY <2>2 DEF ManagerOK, Manager
    <3>2. /\ SessionOK(new) /\ new.conn = m.sessions[m.session].conn
          /\ new.mode = m.sessions[m.session].mode
      BY <3>1, StopOK
    <3>3. b = [m EXCEPT !.sessions[m.session] = new]
      BY <2>2 DEF OnSession
    <3> HIDE DEF new
    <3>4. ManagerOK(b)
      BY <2>2, <3>2, <3>3, OnSessionFacts
    <3> QED
      BY <3>1, <3>3, <3>4 DEF ManagerOK, Manager
  <2> QED
    BY <2>1, <2>2
<1>2. d = [b EXCEPT !.session = NoSid, !.statuses = b.statuses \ {m.active},
                    !.active = None, !.connected = FALSE, !.refresh = TRUE]
  BY DEF Disconnect
<1> HIDE DEF b, d
<1>3. /\ d \in Manager /\ d.sessions = b.sessions /\ d.saved = m.saved
      /\ d.started = m.started /\ d.active = None /\ d.session = NoSid /\ d.mode = m.mode
  BY <1>1, <1>2 DEF Manager
<1>4. ManagerOK(d)
  BY <1>1, <1>3 DEF ManagerOK, ActiveOK
<1> QED
  BY <1>3, <1>4 DEF d

LEMMA BeginOK ==
  ASSUME NEW m, ManagerOK(m), CanStart(m), NEW c \in m.saved
  PROVE  ManagerOK(Begin(m, c))
<1> DEFINE sid == m.started + 1
           new == StartSession(c, m.mode[c])
           last == Keep(m.mode[c], m.lastMouse[c])
           b == Begin(m, c)
<1>1. /\ m \in Manager /\ c \in Conns /\ m.mode[c] \in OutputMode
      /\ last \in MouseEmulation \cup {None}
  BY DEF ManagerOK, Manager, Keep
<1>2. sid \in Sids /\ sid \in 0..MaxSessions /\ sid # NoSid
  BY <1>1, ManagerAssumption DEF ManagerAssumption, Manager, CanStart, Sids, NoSid
<1>3. SessionOK(new) /\ new.conn = c /\ new.mode = m.mode[c] /\ new \in Session
  BY <1>1, StartOK DEF SessionOK
<1>4. b = [m EXCEPT !.errors = m.errors \ {c}, !.active = c, !.connected = FALSE,
                    !.lastMouse = [m.lastMouse EXCEPT ![c] = last],
                    !.sessions = [m.sessions EXCEPT ![sid] = new],
                    !.session = sid, !.started = sid, !.refresh = TRUE]
  BY <1>1 DEF Begin, Manager
<1> HIDE DEF sid, new, last, b
<1>5. /\ b \in Manager /\ b.sessions = [m.sessions EXCEPT ![sid] = new]
      /\ b.active = c /\ b.session = sid /\ b.saved = m.saved /\ b.mode = m.mode
  <2>1. /\ [m.lastMouse EXCEPT ![c] = last] \in [Conns -> MouseEmulation \cup {None}]
        /\ [m.sessions EXCEPT ![sid] = new] \in [Sids -> Session]
        /\ m.errors \ {c} \in SUBSET Conns
    BY <1>1, <1>2, <1>3 DEF Manager
  <2> QED
    BY <1>1, <1>2, <1>4, <2>1 DEF Manager
<1>6. \A t \in Sids : SessionOK(b.sessions[t])
  BY <1>1, <1>2, <1>3, <1>5 DEF ManagerOK, Manager
<1>7. ActiveOK(b)
  <2>1. b.sessions[sid] = new
    BY <1>1, <1>2, <1>5 DEF Manager
  <2>2. c # None
    BY <1>1, ManagerAssumption DEF ManagerAssumption
  <2> QED
    BY <1>3, <1>5, <2>1, <2>2 DEF ActiveOK
<1> QED
  BY <1>5, <1>6, <1>7 DEF ManagerOK, b

LEMMA ConnectOK ==
  ASSUME NEW m, ManagerOK(m), CanStart(m), NEW c \in Conns
  PROVE  ManagerOK(Connect(m, c))
<1> DEFINE b == IF m.active \notin {None, c} THEN Disconnect(m) ELSE m
<1>1. ManagerOK(b) /\ CanStart(b)
  BY DisconnectOK DEF CanStart
<1>2. Connect(m, c) = IF m.active = c /\ m.connected THEN m
                      ELSE IF c \in b.saved THEN Begin(b, c) ELSE b
  BY DEF Connect
<1> HIDE DEF b
<1> QED
  BY <1>1, <1>2, BeginOK

LEMMA ToggleOK ==
  ASSUME NEW m, ManagerOK(m), CanStart(m), NEW c \in Conns
  PROVE  ManagerOK(ToggleConnection(m, c))
  BY ConnectOK, DisconnectOK DEF ToggleConnection

\* The saved mode and the session's change together.
LEMMA UpdateConnectionOK ==
  ASSUME NEW m, ManagerOK(m), NEW c, NEW mode \in OutputMode
  PROVE  ManagerOK(UpdateConnection(m, c, mode))
<1> DEFINE u == UpdateConnection(m, c, mode)
           b == [m EXCEPT !.mode = [m.mode EXCEPT ![c] = mode],
                          !.lastMouse = [m.lastMouse EXCEPT ![c] = Keep(mode, m.lastMouse[c])],
                          !.refresh = TRUE]
<1>1. m \in Manager
  BY DEF ManagerOK
<1>2. CASE c \notin m.saved
  BY <1>2 DEF UpdateConnection
<1>3. CASE c \in m.saved
  <2>1. c \in Conns /\ Keep(mode, m.lastMouse[c]) \in MouseEmulation \cup {None}
    BY <1>1, <1>3 DEF Manager, Keep
  <2>2. /\ b \in Manager /\ b.sessions = m.sessions /\ b.active = m.active
        /\ b.session = m.session /\ b.saved = m.saved
        /\ b.mode = [m.mode EXCEPT ![c] = mode]
    <3>1. /\ [m.mode EXCEPT ![c] = mode] \in [Conns -> OutputMode]
          /\ [m.lastMouse EXCEPT ![c] = Keep(mode, m.lastMouse[c])]
                \in [Conns -> MouseEmulation \cup {None}]
      BY <1>1, <2>1 DEF Manager
    <3> QED
      BY <1>1, <3>1 DEF Manager
  <2>3. u = IF b.active = c /\ b.session # NoSid
            THEN [b EXCEPT !.sessions[b.session] = UpdateConfig(@, mode)] ELSE b
    BY <1>1, <1>3 DEF UpdateConnection, OnSession, Manager
  <2> HIDE DEF b, u
  <2>4. CASE b.active = c /\ b.session # NoSid
    <3> DEFINE new == UpdateConfig(m.sessions[m.session], mode)
    <3>1. /\ m.session \in Sids /\ SessionOK(m.sessions[m.session])
          /\ m.sessions[m.session].conn = c
      BY <1>1, <2>2, <2>4 DEF ManagerOK, ActiveOK, Manager
    <3>2. SessionOK(new) /\ new.conn = c /\ new.mode = mode /\ new \in Session
      BY <3>1, ConfigOK DEF SessionOK
    <3>3. u = [b EXCEPT !.sessions = [m.sessions EXCEPT ![m.session] = new]]
      BY <2>2, <2>3, <2>4
    <3> HIDE DEF new
    <3>4. [m.sessions EXCEPT ![m.session] = new] \in [Sids -> Session]
      BY <1>1, <3>1, <3>2 DEF Manager
    <3>5. /\ u \in Manager /\ u.sessions = [m.sessions EXCEPT ![m.session] = new]
          /\ u.active = c /\ u.session = m.session /\ u.saved = m.saved
          /\ u.mode = [m.mode EXCEPT ![c] = mode]
      BY <2>2, <2>4, <3>3, <3>4 DEF Manager
    <3>6. \A t \in Sids : SessionOK(u.sessions[t])
      BY <1>1, <3>1, <3>2, <3>5 DEF ManagerOK, Manager
    <3>7. ActiveOK(u)
      <4>1. u.sessions[u.session] = new /\ u.mode[c] = mode
        BY <1>1, <2>1, <3>1, <3>5 DEF Manager
      <4>2. c # None
        BY <2>1, ManagerAssumption DEF ManagerAssumption
      <4> QED
        BY <1>3, <3>2, <3>5, <4>1, <4>2 DEF ActiveOK
    <3> QED
      BY <3>5, <3>6, <3>7 DEF ManagerOK, u
  <2>5. CASE ~(b.active = c /\ b.session # NoSid)
    <3>1. u = b
      BY <2>3, <2>5
    <3>2. ActiveOK(b)
      <4>1. CASE m.session = NoSid
        BY <2>2, <4>1 DEF ManagerOK, ActiveOK
      <4>2. CASE m.session # NoSid
        <5>1. m.active # c /\ m.active \in Conns
          BY <1>1, <2>2, <2>5, <4>2 DEF ManagerOK, ActiveOK, Manager
        <5>2. b.mode[m.active] = m.mode[m.active]
          BY <1>1, <2>2, <5>1 DEF Manager
        <5> QED
          BY <2>2, <5>2 DEF ManagerOK, ActiveOK
      <4> QED
        BY <4>1, <4>2
    <3> QED
      BY <2>2, <3>1, <3>2 DEF ManagerOK, u
  <2> QED
    BY <2>4, <2>5
<1> QED
  BY <1>2, <1>3

LEMMA RemoveConnectionOK ==
  ASSUME NEW m, ManagerOK(m), NEW c \in Conns
  PROVE  ManagerOK(RemoveConnection(m, c))
<1> DEFINE b == IF m.active = c THEN Disconnect(m) ELSE m
           r == RemoveConnection(m, c)
<1>1. ManagerOK(b) /\ b \in Manager /\ b.active # c
  <2>1. c # None
    BY ManagerAssumption DEF ManagerAssumption
  <2> QED
    BY <2>1, DisconnectOK DEF ManagerOK
<1>2. r = [b EXCEPT !.saved = b.saved \ {c}, !.reachable = b.reachable \ {c},
                    !.errors = b.errors \ {c}, !.refresh = TRUE]
  BY DEF RemoveConnection
<1> HIDE DEF b, r
<1>3. /\ r \in Manager /\ r.sessions = b.sessions /\ r.active = b.active
      /\ r.session = b.session /\ r.mode = b.mode /\ r.saved = b.saved \ {c}
  BY <1>1, <1>2 DEF Manager
<1>4. ActiveOK(r)
  BY <1>1, <1>3 DEF ManagerOK, ActiveOK
<1> QED
  BY <1>1, <1>3, <1>4 DEF ManagerOK, r

\* The parts no invariant reads may become anything of their type.
SameCore(m, r) ==
    /\ r \in Manager /\ r.sessions = m.sessions /\ r.active = m.active
    /\ r.session = m.session /\ r.mode = m.mode /\ r.saved = m.saved

LEMMA SameCoreOK ==
  ASSUME NEW m, ManagerOK(m), NEW r, SameCore(m, r)
  PROVE  ManagerOK(r)
  BY DEF SameCore, ManagerOK, ActiveOK

LEMMA UpdateReachabilityOK ==
  ASSUME NEW m, ManagerOK(m), NEW reached \in SUBSET Conns
  PROVE  ManagerOK(UpdateReachability(m, reached))
<1>1. SameCore(m, UpdateReachability(m, reached))
  BY DEF UpdateReachability, ManagerOK, Manager, SameCore
<1> QED
  BY <1>1, SameCoreOK

LEMMA RefreshOK ==
  ASSUME NEW m, ManagerOK(m), NEW b \in BOOLEAN
  PROVE  ManagerOK([m EXCEPT !.refresh = b])
<1>1. SameCore(m, [m EXCEPT !.refresh = b])
  BY DEF ManagerOK, Manager, SameCore
<1> QED
  BY <1>1, SameCoreOK

LEMMA PauseInputOK ==
  ASSUME NEW m, ManagerOK(m)
  PROVE  ManagerOK(PauseInput(m)) /\ ManagerOK(ResumeInput(m))
<1> DEFINE s == m.sessions[m.session]
           p == PauseSession(s)
           r == ResumeSession(s)
<1>1. CASE m.session = NoSid
  BY <1>1 DEF PauseInput, ResumeInput, OnSession
<1>2. CASE m.session # NoSid
  <2>1. SessionOK(s)
    BY <1>2 DEF ManagerOK, Manager
  <2>2. /\ PauseInput(m) = [m EXCEPT !.sessions[m.session] = p]
        /\ ResumeInput(m) = [m EXCEPT !.sessions[m.session] = r]
    BY <1>2 DEF PauseInput, ResumeInput, OnSession
  <2> HIDE DEF s
  <2>3. SessionOK(p) /\ p.conn = s.conn /\ p.mode = s.mode
    BY <2>1, PauseOK
  <2>4. SessionOK(r) /\ r.conn = s.conn /\ r.mode = s.mode
    BY <2>1, ResumeOK
  <2> HIDE DEF p, r
  <2> QED
    BY <1>2, <2>2, <2>3, <2>4, OnSessionFacts DEF s
<1> QED
  BY <1>1, <1>2

LEMMA DropOK ==
  ASSUME NEW m, ManagerOK(m), NEW c \in Conns
  PROVE  ManagerOK(Drop(m, c))
<1> DEFINE r == [m EXCEPT !.active = None, !.session = NoSid]
<1>1. /\ r \in Manager /\ r.sessions = m.sessions /\ r.active = None
      /\ r.session = NoSid /\ r.mode = m.mode /\ r.saved = m.saved
  BY DEF ManagerOK, Manager
<1>2. Drop(m, c) = IF m.active = c THEN r ELSE m
  BY DEF Drop
<1> HIDE DEF r
<1> QED
  BY <1>1, <1>2 DEF ManagerOK, ActiveOK

LEMMA OnModeFallbackOK ==
  ASSUME NEW m, ManagerOK(m), NEW c \in Conns, NEW active
  PROVE  ManagerOK(OnModeFallback(m, c, active))
<1> DEFINE mode == IF active \in MouseEmulation THEN active
                   ELSE IF m.lastMouse[c] = None THEN "relative" ELSE m.lastMouse[c]
<1>1. mode \in OutputMode
  BY DEF ManagerOK, Manager, OutputMode, MouseEmulation
<1>2. OnModeFallback(m, c, active) = IF c \notin m.saved THEN m
                                     ELSE UpdateConnection(m, c, mode)
  BY DEF OnModeFallback
<1> HIDE DEF mode
<1> QED
  BY <1>1, <1>2, UpdateConnectionOK

LEMMA HandleSessionEventOK ==
  ASSUME NEW m, ManagerOK(m), NEW e \in Queued
  PROVE  ManagerOK(HandleSessionEvent(m, e))
<1> DEFINE h == HandleSessionEvent(m, e)
           d == Drop(m, e.conn)
           f == OnModeFallback(m, e.conn, e.active)
<1>1. /\ e.conn \in Conns
      /\ e.kind \in {"connected", "stopped", "failed", "modeFallback", "statusGone", "statusSet"}
      /\ m \in Manager
  BY DEF Queued, ManagerOK
<1>2. ManagerOK(d) /\ d \in Manager
  BY <1>1, DropOK DEF ManagerOK
<1>3. ManagerOK([f EXCEPT !.refresh = TRUE])
  BY <1>1, OnModeFallbackOK, RefreshOK
<1>4. CASE e.kind = "connected"
  <2>1. h = [[m EXCEPT !.connected = TRUE] EXCEPT !.refresh = TRUE]
    BY <1>4 DEF HandleSessionEvent
  <2> HIDE DEF h
  <2>2. SameCore(m, h)
    BY <1>1, <2>1 DEF Manager, SameCore
  <2> QED
    BY <2>2, SameCoreOK DEF h
<1>5. CASE e.kind = "stopped"
  <2>1. h = [[d EXCEPT !.connected = FALSE] EXCEPT !.refresh = TRUE]
    BY <1>5 DEF HandleSessionEvent
  <2> HIDE DEF h, d
  <2>2. SameCore(d, h)
    BY <1>2, <2>1 DEF Manager, SameCore
  <2> QED
    BY <1>2, <2>2, SameCoreOK DEF h
<1>6. CASE e.kind = "failed"
  <2>1. h = [[d EXCEPT !.connected = FALSE, !.errors = @ \cup {e.conn},
                       !.statuses = @ \ {e.conn}] EXCEPT !.refresh = TRUE]
    BY <1>6 DEF HandleSessionEvent, OnFailed
  <2> HIDE DEF h, d
  <2>2. SameCore(d, h)
    BY <1>1, <1>2, <2>1 DEF Manager, SameCore
  <2> QED
    BY <1>2, <2>2, SameCoreOK DEF h
<1>7. CASE e.kind = "statusSet"
  <2>1. h = [[m EXCEPT !.statuses = @ \cup {e.conn}] EXCEPT !.refresh = TRUE]
    BY <1>7 DEF HandleSessionEvent
  <2> HIDE DEF h
  <2>2. SameCore(m, h)
    BY <1>1, <2>1 DEF Manager, SameCore
  <2> QED
    BY <2>2, SameCoreOK DEF h
<1>8. CASE e.kind = "statusGone"
  <2>1. h = [[m EXCEPT !.statuses = @ \ {e.conn}] EXCEPT !.refresh = TRUE]
    BY <1>8 DEF HandleSessionEvent
  <2> HIDE DEF h
  <2>2. SameCore(m, h)
    BY <1>1, <2>1 DEF Manager, SameCore
  <2> QED
    BY <2>2, SameCoreOK DEF h
<1>9. CASE e.kind = "modeFallback"
  <2>1. h = [f EXCEPT !.refresh = TRUE]
    BY <1>9 DEF HandleSessionEvent
  <2> QED
    BY <1>3, <2>1
<1> QED
  BY <1>1, <1>4, <1>5, <1>6, <1>7, <1>8, <1>9

-----------------------------------------------------------------------------
(* The controller: each call is made of calls of the manager's. *)

LEMMA StartPickOK ==
  ASSUME NEW a, AppOK(a)
  PROVE  AppOK(StartPick(a))
<1>1. ManagerOK(PauseInput(a.m)) /\ PauseInput(a.m) \in Manager /\ a.u \in Controller
  BY PauseInputOK DEF AppOK, App, ManagerOK
<1>2. CASE a.u.picking
  BY <1>2 DEF StartPick
<1>3. CASE ~a.u.picking
  BY <1>1, <1>3 DEF StartPick, AppOK, App, Controller
<1> QED
  BY <1>2, <1>3

\* What a call that leaves the manager alone has to show.
LEMMA OwnStateOK ==
  ASSUME NEW a, AppOK(a), NEW r \in App, r.m = a.m
  PROVE  AppOK(r)
  BY DEF AppOK

LEMMA CancelPickOK ==
  ASSUME NEW a, AppOK(a)
  PROVE  AppOK(CancelPick(a)) /\ CancelPick(a).m = a.m
<1>1. CancelPick(a) \in App /\ CancelPick(a).m = a.m
  BY DEF AppOK, App, Controller, CancelPick
<1> QED
  BY <1>1, OwnStateOK

LEMMA NoOverlayOK ==
  ASSUME NEW u \in Controller
  PROVE  NoOverlay(u) \in Controller
  BY DEF NoOverlay, Controller

LEMMA RefreshMenuOK ==
  ASSUME NEW a, AppOK(a), NEW life \in Lifecycle
  PROVE  AppOK(RefreshMenu(a, life))
<1> DEFINE r == RefreshMenu(a, life)
           none == [a EXCEPT !.u = NoOverlay(@)]
           shown == [a EXCEPT !.u.follow = TRUE,
                              !.u.overlay = @ \/ "minimized" \notin {life, a.u.windowState}]
<1>1. a \in App /\ a.u \in Controller
  BY DEF AppOK, App
<1>2. none \in App /\ none.m = a.m
  BY <1>1, NoOverlayOK DEF App
<1>3. shown \in App /\ shown.m = a.m
  BY <1>1 DEF App, Controller
<1>4. AppOK(none) /\ AppOK(shown) /\ AppOK(StartPick(a))
  <2> HIDE DEF none, shown
  <2> QED
    BY <1>2, <1>3, OwnStateOK, StartPickOK
<1>5. CASE ~ShownConnected(a)
  BY <1>4, <1>5 DEF RefreshMenu, UpdateOverlay
<1>6. CASE ShownConnected(a) /\ ActiveMode(a) # "absolute"
  BY <1>4, <1>6 DEF RefreshMenu, UpdateOverlay
<1>7. CASE ShownConnected(a) /\ ActiveMode(a) = "absolute"
  <2>1. r = IF a.u.picking THEN a
            ELSE IF a.u.snapped # a.m.active THEN StartPick(a) ELSE shown
    BY <1>7 DEF RefreshMenu, UpdateOverlay
  <2> HIDE DEF r, shown
  <2> QED
    BY <1>4, <2>1 DEF r
<1> QED
  BY <1>5, <1>6, <1>7

LEMMA PartsOK ==
  ASSUME NEW m, ManagerOK(m), NEW u \in Controller
  PROVE  AppOK([m |-> m, u |-> u])
  BY DEF AppOK, App, ManagerOK

LEMMA RevertToRelativeOK ==
  ASSUME NEW a, AppOK(a), NEW c, NEW life \in Lifecycle
  PROVE  AppOK(RevertToRelative(a, c, life))
<1> DEFINE b == CancelPick(a)
           m == ResumeInput(UpdateConnection(b.m, c, "relative"))
           u == [NoOverlay(b.u) EXCEPT !.snappedWindow = FALSE, !.windowState = "normal"]
<1>1. AppOK(b)
  BY CancelPickOK
<1>2. RevertToRelative(a, c, life)
        = IF c \notin b.m.saved THEN b ELSE RefreshMenu([m |-> m, u |-> u], life)
  BY DEF RevertToRelative
<1> HIDE DEF b
<1>3. "relative" \in OutputMode
  BY DEF OutputMode, MouseEmulation
<1>4. ManagerOK(m)
  BY <1>1, <1>3, UpdateConnectionOK, PauseInputOK DEF AppOK
<1>5. u \in Controller
  <2>1. NoOverlay(b.u) \in Controller
    BY <1>1, NoOverlayOK DEF AppOK, App
  <2> QED
    BY <2>1 DEF Controller, Lifecycle
<1> HIDE DEF m, u
<1> QED
  BY <1>1, <1>2, <1>4, <1>5, PartsOK, RefreshMenuOK

LEMMA PickedOK ==
  ASSUME NEW a, AppOK(a), NEW found \in BOOLEAN, NEW life \in Lifecycle
  PROVE  AppOK(Picked(a, found, life))
<1> DEFINE b == [a EXCEPT !.u.picker = FALSE, !.u.picking = FALSE]
           m == ResumeInput(UpdateConnection(a.m, a.m.active, "absolute"))
           u == [b.u EXCEPT !.snapped = a.m.active, !.windowState = "normal",
                            !.snappedWindow = found]
<1>1. b \in App /\ b.m = a.m
  BY DEF AppOK, App, Controller
<1>2. Picked(a, found, life)
        = IF ~ActiveSaved(a) THEN b ELSE RefreshMenu([m |-> m, u |-> u], life)
  BY DEF Picked
<1> HIDE DEF b
<1>3. AppOK(b)
  BY <1>1, OwnStateOK
<1>4. ManagerOK(m)
  <2>1. "absolute" \in OutputMode
    BY DEF OutputMode, MouseEmulation
  <2> QED
    BY <2>1, UpdateConnectionOK, PauseInputOK DEF AppOK
<1>5. u \in Controller
  <2>1. b.u \in Controller /\ a.m.active \in Conns \cup {None}
    BY <1>1 DEF AppOK, App, Manager
  <2> QED
    BY <2>1 DEF Controller, Lifecycle
<1> HIDE DEF m, u
<1> QED
  BY <1>2, <1>3, <1>4, <1>5, PartsOK, RefreshMenuOK

LEMMA PickCancelledOK ==
  ASSUME NEW a, AppOK(a), NEW life \in Lifecycle
  PROVE  AppOK(PickCancelled(a, life))
<1> DEFINE b == [a EXCEPT !.u.picker = FALSE, !.u.picking = FALSE]
<1>1. b \in App /\ b.m = a.m
  BY DEF AppOK, App, Controller
<1>2. PickCancelled(a, life)
        = IF ActiveSaved(b) THEN RevertToRelative(b, b.m.active, life) ELSE b
  BY DEF PickCancelled
<1> HIDE DEF b
<1> QED
  BY <1>1, <1>2, OwnStateOK, RevertToRelativeOK

\* The snapped connection is forgotten and an open picker closed.
LEMMA UnsnappedOK ==
  ASSUME NEW a, AppOK(a)
  PROVE  AppOK([a EXCEPT !.u.snapped = None])
<1>1. [a EXCEPT !.u.snapped = None] \in App /\ [a EXCEPT !.u.snapped = None].m = a.m
  BY DEF AppOK, App, Controller
<1> QED
  BY <1>1, OwnStateOK

LEMMA SwitchToModeOK ==
  ASSUME NEW a, AppOK(a), NEW mode \in OutputMode, NEW life \in Lifecycle
  PROVE  AppOK(SwitchToMode(a, mode, life))
<1>1. CASE mode = "relative"
  BY <1>1, RevertToRelativeOK DEF SwitchToMode
<1>2. CASE mode = "absolute"
  <2> DEFINE m == UpdateConnection(a.m, a.m.active, mode)
             b == [a EXCEPT !.u.snapped = None, !.m = UpdateConnection(@, a.m.active, mode)]
  <2>1. ManagerOK(m) /\ m \in Manager
    BY UpdateConnectionOK DEF AppOK, ManagerOK
  <2>2. SwitchToMode(a, mode, life) = RefreshMenu(CancelPick(b), life)
    BY <1>2 DEF SwitchToMode
  <2>3. b \in App /\ b.m = m
    <3> HIDE DEF m
    <3>1. b = [a EXCEPT !.u.snapped = None, !.m = m]
      BY DEF m
    <3> QED
      BY <2>1, <3>1 DEF AppOK, App, Controller
  <2> HIDE DEF b, m
  <2>4. AppOK(b)
    BY <2>1, <2>3 DEF AppOK
  <2> QED
    BY <2>2, <2>4, CancelPickOK, RefreshMenuOK
<1>3. CASE mode \notin {"relative", "absolute"}
  <2> DEFINE b == CancelPick(a)
             m == UpdateConnection(ResumeInput(b.m), a.m.active, mode)
             u == NoOverlay(b.u)
  <2>1. AppOK(b)
    BY CancelPickOK
  <2>2. SwitchToMode(a, mode, life) = RefreshMenu([m |-> m, u |-> u], life)
    BY <1>3 DEF SwitchToMode
  <2> HIDE DEF b
  <2>3. ManagerOK(m)
    BY <2>1, UpdateConnectionOK, PauseInputOK DEF AppOK
  <2>4. u \in Controller
    BY <2>1, NoOverlayOK DEF AppOK, App
  <2> HIDE DEF m, u
  <2> QED
    BY <2>2, <2>3, <2>4, PartsOK, RefreshMenuOK
<1> QED
  BY <1>1, <1>2, <1>3

LEMMA RestartPickOK ==
  ASSUME NEW a, AppOK(a)
  PROVE  AppOK(RestartPick(a))
<1> DEFINE b == CancelPick(a)
<1>1. AppOK(b)
  BY CancelPickOK
<1>2. RestartPick(a) = StartPick([b EXCEPT !.u.snapped = None])
  BY DEF RestartPick
<1> HIDE DEF b
<1> QED
  BY <1>1, <1>2, UnsnappedOK, StartPickOK

LEMMA SettingsModeChangedOK ==
  ASSUME NEW a, AppOK(a), NEW c, NEW mode \in OutputMode, NEW life \in Lifecycle
  PROVE  AppOK(SettingsModeChanged(a, c, mode, life))
<1> DEFINE m == UpdateConnection(a.m, c, mode)
           b == [a EXCEPT !.m = UpdateConnection(@, c, mode)]
           n == [b EXCEPT !.u.snapped = None]
           d == CancelPick(n)
           o == [m |-> ResumeInput(d.m), u |-> NoOverlay(d.u)]
<1>1. AppOK(b)
  <2>1. ManagerOK(m) /\ m \in Manager
    BY UpdateConnectionOK DEF AppOK, ManagerOK
  <2> HIDE DEF m
  <2>2. b = [a EXCEPT !.m = m]
    BY DEF m
  <2>3. b \in App /\ b.m = m
    BY <2>1, <2>2 DEF AppOK, App
  <2> QED
    BY <2>1, <2>3 DEF AppOK
<1> HIDE DEF b
<1>2. AppOK(d)
  BY <1>1, UnsnappedOK, CancelPickOK
<1> HIDE DEF d
<1>3. AppOK(o)
  <2>1. ManagerOK(ResumeInput(d.m)) /\ NoOverlay(d.u) \in Controller
    BY <1>2, PauseInputOK, NoOverlayOK DEF AppOK, App
  <2> QED
    BY <2>1, PartsOK
<1> HIDE DEF o
<1>4. SettingsModeChanged(a, c, mode, life)
        \in {RefreshMenu(b, life), RevertToRelative(b, c, life), RefreshMenu(d, life),
             RefreshMenu(o, life)}
  BY DEF SettingsModeChanged, b, d, o
<1> QED
  BY <1>1, <1>2, <1>3, <1>4, RefreshMenuOK, RevertToRelativeOK

LEMMA FollowTickOK ==
  ASSUME NEW a, AppOK(a), NEW life \in Lifecycle
  PROVE  AppOK(FollowTick(a, life))
<1> DEFINE r == FollowTick(a, life)
           closed == [a EXCEPT !.u.windowState = "closed"]
<1>1. a \in App /\ ManagerOK(a.m)
  BY DEF AppOK
<1>2. CASE life = "closed"
  <2>1. closed \in App /\ closed.m = a.m
    BY <1>1 DEF App, Controller, Lifecycle
  <2>2. r = RevertToRelative(closed, a.m.active, life)
    BY <1>2 DEF FollowTick
  <2> HIDE DEF closed, r
  <2> QED
    BY <2>1, <2>2, OwnStateOK, RevertToRelativeOK DEF r
<1>3. CASE life # "closed"
  <2>1. r \in App /\ SameCore(a.m, r.m)
    <3>1. CASE life = "minimized"
      BY <1>1, <3>1 DEF FollowTick, App, Controller, Lifecycle, SameCore
    <3>2. CASE life = "maximized"
      BY <1>1, <3>2 DEF FollowTick, App, Controller, Lifecycle, Manager, SameCore
    <3>3. CASE life \notin {"closed", "minimized", "maximized"}
      BY <1>1, <3>3 DEF FollowTick, App, Controller, Lifecycle, Manager, SameCore
    <3> QED
      BY <1>3, <3>1, <3>2, <3>3
  <2> HIDE DEF r
  <2> QED
    BY <1>1, <2>1, SameCoreOK DEF AppOK, r
<1> QED
  BY <1>2, <1>3

-----------------------------------------------------------------------------
(* The app *)

LEMMA InitOK == Init => Inv
<1> SUFFICES ASSUME Init PROVE Inv
  OBVIOUS
<1> DEFINE m == app.m
<1>1. app = [m |-> m, u |-> Idle]
  BY DEF Init
<1>2. Idle \in Controller
  BY DEF Idle, Controller, Lifecycle
<1>3. ManagerOK(m)
  <2>1. SessionOK(Unused) /\ Unused \in Session
    BY UnusedOK DEF SessionOK
  <2>2. /\ m.sessions = [s \in Sids |-> Unused] /\ m.active = None /\ m.session = NoSid
    BY DEF Init
  <2>3. m \in Manager
    <3>1. "relative" \in OutputMode /\ "relative" \in MouseEmulation
      BY DEF OutputMode, MouseEmulation
    <3>2. 0 \in 0..MaxSessions
      BY ManagerAssumption DEF ManagerAssumption
    <3>3. ASSUME NEW mode \in [Conns -> OutputMode]
          PROVE  [c \in Conns |-> Keep(mode[c], None)] \in [Conns -> MouseEmulation \cup {None}]
      BY DEF Keep
    <3> QED
      BY <2>1, <3>1, <3>2, <3>3 DEF Init, Manager
  <2> HIDE DEF m
  <2> QED
    BY <2>1, <2>2, <2>3 DEF ManagerOK, ActiveOK
<1>4. AppOK(app)
  <2> HIDE DEF m
  <2> QED
    BY <1>1, <1>2, <1>3, PartsOK
<1>5. queue \in Seq(Queued) /\ poll \in Polls
  BY DEF Init, Polls
<1> QED
  BY <1>4, <1>5 DEF Inv

\* A thread puts its session back as it may be, for the same tablet and mode.
LEMMA SessionStepOK ==
  ASSUME NEW a, AppOK(a), NEW sid \in Sids, NEW new, SessionOK(new),
         new.conn = a.m.sessions[sid].conn, new.mode = a.m.sessions[sid].mode
  PROVE  AppOK([a EXCEPT !.m.sessions[sid] = new])
<1> DEFINE r == [a EXCEPT !.m.sessions[sid] = new]
           m == [a.m EXCEPT !.sessions = [a.m.sessions EXCEPT ![sid] = new]]
<1>1. /\ a \in App /\ ManagerOK(a.m) /\ a.m \in Manager /\ new \in Session
      /\ a.m.sessions \in [Sids -> Session]
  BY DEF AppOK, ManagerOK, SessionOK, Manager
<1>2. r = [m |-> m, u |-> a.u]
  BY <1>1 DEF App, Manager
<1>3. /\ m \in Manager /\ m.sessions = [a.m.sessions EXCEPT ![sid] = new]
      /\ m.active = a.m.active /\ m.saved = a.m.saved /\ m.mode = a.m.mode
      /\ m.session = a.m.session
  BY <1>1 DEF Manager
<1> HIDE DEF m
<1>4. \A t \in Sids : SessionOK(m.sessions[t])
  BY <1>1, <1>3 DEF ManagerOK
<1>5. ActiveOK(m)
  <2>1. m.session \in Sids \cup {NoSid}
    BY <1>3 DEF Manager
  <2> QED
    BY <1>1, <1>3, <2>1 DEF ManagerOK, ActiveOK
<1>6. ManagerOK(m) /\ a.u \in Controller
  BY <1>1, <1>3, <1>4, <1>5 DEF ManagerOK, App
<1> HIDE DEF r
<1> QED
  BY <1>2, <1>6, PartsOK DEF r

LEMMA EmitsOK ==
  ASSUME NEW events \in Seq(Emitted), NEW c \in Conns
  PROVE  [i \in DOMAIN events |-> [kind |-> events[i].kind, active |-> events[i].active,
                                   conn |-> c]] \in Seq(Queued)
<1>1. \A i \in DOMAIN events : [kind |-> events[i].kind, active |-> events[i].active,
                                conn |-> c] \in Queued
  <2> TAKE i \in DOMAIN events
  <2>1. events[i] \in Emitted
    OBVIOUS
  <2> QED
    BY <2>1 DEF Emitted, Queued
<1>2. DOMAIN events = 1..Len(events) /\ Len(events) \in Nat
  OBVIOUS
<1> QED
  BY <1>1, <1>2

\* The steps of the threads and of what they read from.
LEMMA ThreadOK ==
  ASSUME Inv, NEW s \in Sids, Thread(s)
  PROVE  Inv'
<1> DEFINE old == app.m.sessions[s]
<1>1. PICK out \in ThreadSteps(old) :
        /\ app' = [app EXCEPT !.m.sessions[s] = out.session]
        /\ queue' = queue \o [i \in DOMAIN out.emits |->
                        [kind |-> out.emits[i].kind, active |-> out.emits[i].active,
                         conn |-> out.session.conn]]
        /\ poll' = poll
  BY DEF Thread
<1>2. SessionOK(old)
  BY DEF Inv, AppOK, ManagerOK
<1> HIDE DEF old
<1>3. StepOK(old, out) /\ old.conn \in Conns
  BY <1>2, ThreadStepOK
<1>4. AppOK(app')
  BY <1>1, <1>3, SessionStepOK DEF Inv, StepOK, old
<1>5. queue' \in Seq(Queued)
  <2> DEFINE es == [i \in DOMAIN out.emits |->
                        [kind |-> out.emits[i].kind, active |-> out.emits[i].active,
                         conn |-> out.session.conn]]
  <2>1. es \in Seq(Queued)
    BY <1>3, EmitsOK DEF StepOK
  <2>2. queue' = queue \o es
    BY <1>1
  <2> HIDE DEF es
  <2> QED
    BY <2>1, <2>2 DEF Inv
<1> QED
  BY <1>1, <1>4, <1>5 DEF Inv

LEMMA StreamEndsOK ==
  ASSUME Inv, NEW s \in Sids, StreamEnds(s)
  PROVE  Inv'
<1> DEFINE old == app.m.sessions[s]
<1>1. PICK how \in {"ended", "broken"} :
        app' = [app EXCEPT !.m.sessions[s].process = how]
  BY DEF StreamEnds
<1>2. queue' = queue /\ poll' = poll
  BY DEF StreamEnds
<1>3. SessionOK(old)
  BY DEF Inv, AppOK, ManagerOK
<1> DEFINE new == [old EXCEPT !.process = how]
<1>4. app' = [app EXCEPT !.m.sessions[s] = new]
  BY <1>1
<1> HIDE DEF old
<1>5. SessionOK(new) /\ new.conn = old.conn /\ new.mode = old.mode
  BY <1>3 DEF SessionOK, ButtonKnown, OneLate, Session
<1> HIDE DEF new
<1>6. AppOK(app')
  BY <1>4, <1>5, SessionStepOK DEF Inv, old
<1> QED
  BY <1>2, <1>6 DEF Inv

\* What the main actor does in a step that changes the manager's part alone.
LEMMA ManagerStepOK ==
  ASSUME NEW a, AppOK(a), NEW m, ManagerOK(m)
  PROVE  AppOK([a EXCEPT !.m = m])
<1>1. [a EXCEPT !.m = m] \in App /\ [a EXCEPT !.m = m].m = m
  BY DEF AppOK, App, ManagerOK
<1> QED
  BY <1>1 DEF AppOK

LEMMA SessionEventOK ==
  ASSUME Inv, SessionEvent
  PROVE  Inv'
<1> DEFINE m == HandleSessionEvent(app.m, Head(queue))
<1>1. /\ queue # <<>> /\ app' = [app EXCEPT !.m = m] /\ queue' = Tail(queue)
      /\ poll' = poll
  BY DEF SessionEvent
<1>2. Head(queue) \in Queued /\ Tail(queue) \in Seq(Queued)
  BY <1>1 DEF Inv
<1>3. ManagerOK(m)
  BY <1>2, HandleSessionEventOK DEF Inv, AppOK
<1> HIDE DEF m
<1>4. AppOK(app')
  BY <1>1, <1>3, ManagerStepOK DEF Inv
<1> QED
  BY <1>1, <1>2, <1>4 DEF Inv

LEMMA LifeNowFacts == \A a : LifeNow(a) \subseteq Lifecycle
  BY DEF LifeNow, Lifecycle

LEMMA RefreshActionOK ==
  ASSUME Inv, Refresh
  PROVE  Inv'
<1> DEFINE a == [app EXCEPT !.m.refresh = FALSE]
           m == [app.m EXCEPT !.refresh = FALSE]
<1>1. PICK life \in Lifecycle : app' = RefreshMenu(a, life)
  BY LifeNowFacts DEF Refresh
<1>2. queue' = queue /\ poll' = poll
  BY DEF Refresh
<1>3. a = [app EXCEPT !.m = m]
  OBVIOUS
<1>4. ManagerOK(m)
  BY RefreshOK DEF Inv, AppOK
<1> HIDE DEF a, m
<1>5. AppOK(a)
  BY <1>3, <1>4, ManagerStepOK DEF Inv
<1> QED
  BY <1>1, <1>2, <1>5, RefreshMenuOK DEF Inv

LEMMA ToggleActionOK ==
  ASSUME Inv, NEW c \in Conns, Toggle(c)
  PROVE  Inv'
<1> DEFINE m == ToggleConnection(app.m, c)
           a == [app EXCEPT !.m = m]
<1>1. PICK life \in Lifecycle : app' = RefreshMenu(a, life)
  BY LifeNowFacts DEF Toggle
<1>2. CanStart(app.m) /\ queue' = queue /\ poll' = poll
  BY DEF Toggle, Ui
<1>3. ManagerOK(m)
  BY <1>2, ToggleOK DEF Inv, AppOK
<1> HIDE DEF m
<1>4. AppOK(a)
  BY <1>3, ManagerStepOK DEF Inv
<1> HIDE DEF a
<1> QED
  BY <1>1, <1>2, <1>4, RefreshMenuOK DEF Inv

LEMMA RemoveTabletOK ==
  ASSUME Inv, NEW c \in Conns, RemoveTablet(c)
  PROVE  Inv'
<1> DEFINE m == RemoveConnection(app.m, c)
<1>1. app' = [app EXCEPT !.m = m] /\ queue' = queue /\ poll' = poll
  BY DEF RemoveTablet, Ui
<1>2. ManagerOK(m)
  BY RemoveConnectionOK DEF Inv, AppOK
<1> HIDE DEF m
<1> QED
  BY <1>1, <1>2, ManagerStepOK DEF Inv

LEMMA UserOK ==
  ASSUME Inv, User
  PROVE  Inv'
<1>1. CASE \E c \in Conns : Toggle(c)
  BY <1>1, ToggleActionOK
<1>2. CASE \E c \in Conns : RemoveTablet(c)
  BY <1>2, RemoveTabletOK
<1>3. ASSUME NEW mode \in OutputMode, ChooseMode(mode) PROVE Inv'
  <2>1. PICK life \in Lifecycle : app' = SwitchToMode(app, mode, life)
    BY <1>3, LifeNowFacts DEF ChooseMode
  <2>2. queue' = queue /\ poll' = poll
    BY <1>3 DEF ChooseMode, Ui
  <2> QED
    BY <2>1, <2>2, SwitchToModeOK DEF Inv
<1>4. ASSUME NEW c \in Conns, NEW mode \in OutputMode, ChooseModeInSettings(c, mode)
      PROVE  Inv'
  <2>1. PICK life \in Lifecycle : app' = SettingsModeChanged(app, c, mode, life)
    BY <1>4, LifeNowFacts DEF ChooseModeInSettings
  <2>2. queue' = queue /\ poll' = poll
    BY <1>4 DEF ChooseModeInSettings, Ui
  <2> QED
    BY <2>1, <2>2, SettingsModeChangedOK DEF Inv
<1>5. CASE ChooseWindow
  BY <1>5, RestartPickOK DEF ChooseWindow, Ui, Inv
<1>6. CASE PickWindow
  <2>1. PICK found \in BOOLEAN, life \in Lifecycle : app' = Picked(app, found, life)
    BY <1>6 DEF PickWindow
  <2>2. queue' = queue /\ poll' = poll
    BY <1>6 DEF PickWindow
  <2> QED
    BY <2>1, <2>2, PickedOK DEF Inv
<1>7. CASE LeavePicker
  <2>1. PICK life \in Lifecycle : app' = PickCancelled(app, life)
    BY <1>7, LifeNowFacts DEF LeavePicker
  <2>2. queue' = queue /\ poll' = poll
    BY <1>7 DEF LeavePicker
  <2> QED
    BY <2>1, <2>2, PickCancelledOK DEF Inv
<1> QED
  BY <1>1, <1>2, <1>3, <1>4, <1>5, <1>6, <1>7 DEF User

LEMMA TickOK ==
  ASSUME Inv, Tick
  PROVE  Inv'
<1>1. PICK life \in Lifecycle : app' = FollowTick(app, life)
  BY LifeNowFacts DEF Tick
<1>2. queue' = queue /\ poll' = poll
  BY DEF Tick
<1> QED
  BY <1>1, <1>2, FollowTickOK DEF Inv

\* A poll's answers are of saved connections, and it is applied by calls.
LEMMA PollOK ==
  ASSUME Inv, SchedulePoll \/ ApplyPoll \/ Applying
  PROVE  Inv'
<1>1. AppOK(app) /\ ManagerOK(app.m) /\ app.m \in Manager /\ poll \in Polls
  BY DEF Inv, AppOK, ManagerOK
<1>2. CASE SchedulePoll
  <2>1. app' = app /\ queue' = queue /\ poll' = [poll EXCEPT !.asked = <<app.m.saved>>]
    BY <1>2 DEF SchedulePoll
  <2>2. <<app.m.saved>> \in Seq(SUBSET Conns)
    BY <1>1 DEF Manager
  <2> QED
    BY <1>1, <2>1, <2>2 DEF Inv, Polls
<1>3. CASE ApplyPoll
  <2>1. PICK reached \in SUBSET poll.asked[1] :
          /\ app' = [app EXCEPT !.m = UpdateReachability(@, reached)]
          /\ poll' = [poll EXCEPT !.asked = <<>>, !.applying = TRUE, !.reached = reached,
                !.newlyOnline = app.m.saved \cap AutoConnect \cap (reached \ poll.wasReachable)]
    BY <1>3 DEF ApplyPoll
  <2>2. queue' = queue /\ poll.asked # <<>>
    BY <1>3 DEF ApplyPoll
  <2>3. reached \in SUBSET Conns
    BY <1>1, <2>2 DEF Polls
  <2>4. AppOK(app')
    <3>1. ManagerOK(UpdateReachability(app.m, reached))
      BY <1>1, <2>3, UpdateReachabilityOK
    <3> QED
      BY <1>1, <2>1, <3>1, ManagerStepOK
  <2>5. poll' \in Polls
    <3>1. app.m.saved \cap AutoConnect \cap (reached \ poll.wasReachable) \in SUBSET Conns
      BY <2>3
    <3>2. <<>> \in Seq(SUBSET Conns)
      OBVIOUS
    <3> QED
      BY <1>1, <2>1, <2>3, <3>1, <3>2 DEF Polls
  <2> QED
    BY <2>2, <2>4, <2>5 DEF Inv
<1>4. ASSUME NEW c \in Conns, AutoConnected(c) PROVE Inv'
  <2>1. /\ app' = [app EXCEPT !.m = Connect(app.m, c)] /\ CanStart(app.m)
        /\ poll' = [poll EXCEPT !.newlyOnline = poll.newlyOnline \ {c}]
        /\ queue' = queue
    BY <1>4 DEF AutoConnected
  <2>2. ManagerOK(Connect(app.m, c))
    BY <1>1, <2>1, ConnectOK
  <2>3. AppOK(app')
    BY <1>1, <2>1, <2>2, ManagerStepOK
  <2>4. poll' \in Polls
    BY <1>1, <2>1 DEF Polls
  <2> QED
    BY <2>1, <2>3, <2>4 DEF Inv
<1>5. CASE PollApplied
  <2> DEFINE m == DropOffline(app.m, poll.reached)
  <2>1. /\ app' = [app EXCEPT !.m = m]
        /\ poll' = [poll EXCEPT !.wasReachable = poll.reached, !.reached = {},
                                !.applying = FALSE]
        /\ queue' = queue
    BY <1>5 DEF PollApplied
  <2>2. ManagerOK(m)
    BY <1>1, DisconnectOK DEF DropOffline
  <2> HIDE DEF m
  <2>3. AppOK(app')
    BY <1>1, <2>1, <2>2, ManagerStepOK
  <2>4. poll' \in Polls
    BY <1>1, <2>1 DEF Polls
  <2> QED
    BY <2>1, <2>3, <2>4 DEF Inv
<1> QED
  BY <1>2, <1>3, <1>4, <1>5 DEF Applying

LEMMA NextOK == Inv /\ [Next]_vars => Inv'
<1> SUFFICES ASSUME Inv, [Next]_vars PROVE Inv'
  OBVIOUS
<1>1. CASE \E s \in Sids : Thread(s)
  BY <1>1, ThreadOK
<1>2. CASE \E s \in Sids : StreamEnds(s)
  BY <1>2, StreamEndsOK
<1>3. CASE SessionEvent \/ Refresh \/ User \/ Tick
  BY <1>3, SessionEventOK, RefreshActionOK, UserOK, TickOK
<1>4. CASE SchedulePoll \/ ApplyPoll \/ Applying
  BY <1>4, PollOK
<1>5. CASE UNCHANGED vars
  BY <1>5 DEF vars, Inv
<1> QED
  BY <1>1, <1>2, <1>3, <1>4, <1>5 DEF Next

\* The inductive invariant: what each session knows of the button and of the
\* frames still to come, and whose session the active one is.
THEOREM Invariant == Spec => []Inv
  BY InitOK, NextOK, PTL DEF Spec

\* What the main actor keeps, the events posted to it and the poll's answers are
\* of their types after any calls, events and polls.
THEOREM Types == Spec => []TypeOK
<1>1. Inv => TypeOK
  <2> SUFFICES ASSUME Inv PROVE TypeOK
    OBVIOUS
  <2>1. \A i \in DOMAIN queue : queue[i].conn \in Conns
    <3> TAKE i \in DOMAIN queue
    <3>1. queue[i] \in Queued
      BY DEF Inv
    <3> QED
      BY <3>1 DEF Queued
  <2> QED
    BY <2>1 DEF Inv, AppOK, Polls, TypeOK
<1> QED
  BY <1>1, Invariant, PTL

\* A session that is over, stopped or paused leaves the mouse alone: run() cleans
\* its backend up on every path, and handles one more frame at most.
THEOREM MouseLeftAlone == Spec => []HandsOff
<1>1. Inv => HandsOff
  BY DEF Inv, AppOK, ManagerOK, SessionOK, ButtonKnown, OneLate, HandsOff, Sessions
<1> QED
  BY <1>1, Invariant, PTL

\* The active connection is a saved one and its session has the mode saved for
\* it, whichever call, event or poll was handled last.
THEOREM ActiveAsSaved == Spec => []SessionIsAsSaved
<1>1. Inv => SessionIsAsSaved
  BY DEF Inv, AppOK, ManagerOK, ActiveOK, SessionIsAsSaved
<1> QED
  BY <1>1, Invariant, PTL

-----------------------------------------------------------------------------
(***************************************************************************)
(* The window picker and the pause go together, for one tablet and any     *)
(* number of sessions, polls and user actions.                             *)
(*                                                                         *)
(* It is proved for one tablet because it is false for two: connect() of a *)
(* connection that is still connecting leaves a session behind that no one *)
(* stops, and its late "stopped" clears activeSessionConnected of the      *)
(* other tablet's session, so that updateOverlay no longer reopens the     *)
(* picker SettingsModeChanged has just closed over a paused session.       *)
(***************************************************************************)
ActivePaused(m) == m.session # NoSid /\ m.sessions[m.session].paused

\* A call that leaves a session paused found it paused, and leaves it connected.
Calmer(m, n) == ActivePaused(n) => ActivePaused(m) /\ (m.connected => n.connected)

\* The inductive strengthening: a session is paused only while the app knows it
\* connected, so that updateOverlay is sure to reopen a picker over it.
PickOK(a) ==
    /\ a.u.picker = a.u.picking
    /\ ActivePaused(a.m) => a.u.picking /\ a.m.connected

PickInv == Inv /\ PickOK(app)

-----------------------------------------------------------------------------
(* The manager's calls *)

LEMMA CalmerTransitive ==
  ASSUME NEW m, NEW n, NEW o, Calmer(m, n), Calmer(n, o)
  PROVE  Calmer(m, o)
  BY DEF Calmer

LEMMA CalmerCore ==
  ASSUME NEW m, NEW n, SameCore(m, n), n.connected = m.connected
  PROVE  Calmer(m, n)
  BY DEF SameCore, Calmer, ActivePaused

LEMMA NoSessionCalmer ==
  ASSUME NEW m, NEW n, n.session = NoSid
  PROVE  Calmer(m, n)
  BY DEF Calmer, ActivePaused

LEMMA ConnectCalmer ==
  ASSUME NEW m, ManagerOK(m), CanStart(m), NEW c \in Conns
  PROVE  Calmer(m, Connect(m, c))
<1> DEFINE b == IF m.active \notin {None, c} THEN Disconnect(m) ELSE m
           g == Begin(b, c)
           sid == b.started + 1
           new == StartSession(c, b.mode[c])
<1>1. ManagerOK(b) /\ CanStart(b) /\ Calmer(m, b) /\ b \in Manager
  <2>1. Calmer(m, m)
    BY DEF Calmer
  <2> QED
    BY <2>1, DisconnectOK, NoSessionCalmer DEF CanStart, ManagerOK
<1>2. Connect(m, c) = IF m.active = c /\ m.connected THEN m
                      ELSE IF c \in b.saved THEN g ELSE b
  BY DEF Connect
<1> HIDE DEF b
<1>3. sid \in Sids /\ b.sessions \in [Sids -> Session]
  BY <1>1, ManagerAssumption DEF ManagerAssumption, Manager, CanStart, Sids
<1>4. new.paused = FALSE
  BY DEF StartSession, Unused
<1> HIDE DEF new, sid
<1>5. g.session = sid /\ g.sessions = [b.sessions EXCEPT ![sid] = new]
  BY <1>1 DEF Begin, Manager, sid, new
<1> HIDE DEF g
<1>6. ~ActivePaused(g)
  BY <1>3, <1>4, <1>5 DEF ActivePaused
<1> QED
  BY <1>1, <1>2, <1>6 DEF Calmer

LEMMA UpdateConnectionCalmer ==
  ASSUME NEW m, ManagerOK(m), NEW c, NEW mode \in OutputMode
  PROVE  /\ Calmer(m, UpdateConnection(m, c, mode))
         /\ UpdateConnection(m, c, mode).connected = m.connected
         /\ UpdateConnection(m, c, mode).saved = m.saved
         /\ UpdateConnection(m, c, mode).active = m.active
         /\ c \in m.saved => UpdateConnection(m, c, mode).mode[c] = mode
<1> DEFINE u == UpdateConnection(m, c, mode)
           b == [m EXCEPT !.mode = [m.mode EXCEPT ![c] = mode],
                          !.lastMouse = [m.lastMouse EXCEPT ![c] = Keep(mode, m.lastMouse[c])],
                          !.refresh = TRUE]
<1>1. m \in Manager /\ m.sessions \in [Sids -> Session] /\ m.session \in Sids \cup {NoSid}
  BY DEF ManagerOK, Manager
<1>2. CASE c \notin m.saved
  BY <1>2 DEF UpdateConnection, Calmer
<1>3. CASE c \in m.saved
  <2>1. /\ b.sessions = m.sessions /\ b.active = m.active /\ b.session = m.session
        /\ b.saved = m.saved /\ b.connected = m.connected /\ b.mode[c] = mode
        /\ DOMAIN b = DOMAIN m
    BY <1>1, <1>3 DEF Manager
  <2>2. u = IF b.active = c /\ b.session # NoSid
            THEN [b EXCEPT !.sessions[b.session] = UpdateConfig(@, mode)] ELSE b
    BY <1>1, <1>3 DEF UpdateConnection, OnSession, Manager
  <2> DEFINE new == UpdateConfig(b.sessions[b.session], mode)
  <2>3. /\ u.session = m.session /\ u.connected = m.connected /\ u.saved = m.saved
        /\ u.active = m.active /\ u.mode[c] = mode
        /\ u.sessions \in {m.sessions, [m.sessions EXCEPT ![m.session] = new]}
    <3>1. DOMAIN m = {"saved", "mode", "lastMouse", "reachable", "errors", "statuses", "active",
                      "connected", "session", "sessions", "started", "refresh"}
      BY <1>1 DEF Manager
    <3> HIDE DEF b
    <3> QED
      BY <2>1, <2>2, <3>1
  <2>4. m.session # NoSid => new.paused = m.sessions[m.session].paused
    BY <1>1, <2>1 DEF UpdateConfig, Session
  <2> HIDE DEF u, new
  <2>5. Calmer(m, u)
    BY <1>1, <2>3, <2>4 DEF Calmer, ActivePaused
  <2> QED
    BY <2>3, <2>5 DEF u
<1> QED
  BY <1>2, <1>3

LEMMA RemoveCalmer ==
  ASSUME NEW m, ManagerOK(m), NEW c \in Conns
  PROVE  Calmer(m, RemoveConnection(m, c))
<1> DEFINE b == IF m.active = c THEN Disconnect(m) ELSE m
           r == RemoveConnection(m, c)
<1>1. b \in Manager /\ (b.session = NoSid \/ b = m)
  BY DisconnectOK DEF ManagerOK
<1>2. r = [b EXCEPT !.saved = b.saved \ {c}, !.reachable = b.reachable \ {c},
                    !.errors = b.errors \ {c}, !.refresh = TRUE]
  BY DEF RemoveConnection
<1> HIDE DEF b, r
<1>3. r.session = b.session /\ r.sessions = b.sessions /\ r.connected = b.connected
  BY <1>1, <1>2 DEF Manager
<1> QED
  BY <1>1, <1>3 DEF Calmer, ActivePaused, r

\* What a call to the active session does to its pause.
LEMMA PauseCalls ==
  ASSUME NEW m, ManagerOK(m)
  PROVE  /\ ~ActivePaused(ResumeInput(m))
         /\ PauseInput(m).connected = m.connected /\ ResumeInput(m).connected = m.connected
         /\ PauseInput(m).active = m.active /\ ResumeInput(m).active = m.active
         /\ PauseInput(m).saved = m.saved /\ ResumeInput(m).saved = m.saved
<1>1. m \in Manager /\ m.sessions \in [Sids -> Session] /\ m.session \in Sids \cup {NoSid}
  BY DEF ManagerOK, Manager
<1>2. CASE m.session = NoSid
  BY <1>2 DEF PauseInput, ResumeInput, OnSession, ActivePaused
<1>3. CASE m.session # NoSid
  <2> DEFINE s == m.sessions[m.session]
             r == ResumeInput(m)
             p == PauseInput(m)
  <2>1. /\ r = [m EXCEPT !.sessions = [m.sessions EXCEPT ![m.session] = ResumeSession(s)]]
        /\ p = [m EXCEPT !.sessions = [m.sessions EXCEPT ![m.session] = PauseSession(s)]]
    BY <1>1, <1>3 DEF ResumeInput, PauseInput, OnSession, Manager
  <2>2. s \in Session /\ ResumeSession(s).paused = FALSE
    BY <1>1, <1>3 DEF ResumeSession, Session
  <2> HIDE DEF s, r, p
  <2>3. /\ r.session = m.session /\ r.connected = m.connected /\ p.connected = m.connected
        /\ r.active = m.active /\ p.active = m.active /\ r.saved = m.saved /\ p.saved = m.saved
        /\ r.sessions = [m.sessions EXCEPT ![m.session] = ResumeSession(s)]
    BY <1>1, <2>1 DEF Manager
  <2>4. ~ActivePaused(r)
    BY <1>1, <1>3, <2>2, <2>3 DEF ActivePaused
  <2> QED
    BY <2>3, <2>4 DEF r, p
<1> QED
  BY <1>2, <1>3

\* With one tablet an event that clears activeSessionConnected is of the active
\* connection, which it drops.
LEMMA EventCalmer ==
  ASSUME \A c, d \in Conns : c = d, NEW m, ManagerOK(m), NEW e \in Queued
  PROVE  Calmer(m, HandleSessionEvent(m, e))
<1> DEFINE h == HandleSessionEvent(m, e)
           d == Drop(m, e.conn)
           f == OnModeFallback(m, e.conn, e.active)
<1>1. /\ e.conn \in Conns /\ m \in Manager
      /\ e.kind \in {"connected", "stopped", "failed", "modeFallback", "statusGone", "statusSet"}
  BY DEF Queued, ManagerOK
<1>2. d.session = NoSid /\ d \in Manager
  <2>1. m.session # NoSid => m.active = e.conn
    BY <1>1 DEF ManagerOK, ActiveOK, Manager
  <2>2. m.active = e.conn => d.session = NoSid
    BY <1>1 DEF Drop, Manager
  <2>3. m.active # e.conn => d = m
    BY DEF Drop
  <2>4. ManagerOK(d)
    BY <1>1, DropOK
  <2> QED
    BY <2>1, <2>2, <2>3, <2>4 DEF ManagerOK
<1>3. CASE e.kind = "connected"
  <2>1. h = [[m EXCEPT !.connected = TRUE] EXCEPT !.refresh = TRUE]
    BY <1>3 DEF HandleSessionEvent
  <2> HIDE DEF h
  <2>2. h.session = m.session /\ h.sessions = m.sessions /\ h.connected
    BY <1>1, <2>1 DEF Manager
  <2> QED
    BY <2>2 DEF Calmer, ActivePaused, h
<1>4. CASE e.kind = "stopped"
  <2>1. h = [[d EXCEPT !.connected = FALSE] EXCEPT !.refresh = TRUE]
    BY <1>4 DEF HandleSessionEvent
  <2> HIDE DEF h, d
  <2>2. h.session = NoSid
    BY <1>2, <2>1 DEF Manager
  <2> QED
    BY <2>2, NoSessionCalmer DEF h
<1>5. CASE e.kind = "failed"
  <2>1. h = [[d EXCEPT !.connected = FALSE, !.errors = @ \cup {e.conn},
                       !.statuses = @ \ {e.conn}] EXCEPT !.refresh = TRUE]
    BY <1>5 DEF HandleSessionEvent, OnFailed
  <2> HIDE DEF h, d
  <2>2. h.session = NoSid
    BY <1>2, <2>1 DEF Manager
  <2> QED
    BY <2>2, NoSessionCalmer DEF h
<1>6. CASE e.kind \in {"statusSet", "statusGone"}
  <2>1. PICK st : h = [[m EXCEPT !.statuses = st] EXCEPT !.refresh = TRUE]
    BY <1>6 DEF HandleSessionEvent
  <2> HIDE DEF h
  <2>2. h.session = m.session /\ h.sessions = m.sessions /\ h.connected = m.connected
    BY <1>1, <2>1 DEF Manager
  <2> QED
    BY <2>2 DEF Calmer, ActivePaused, h
<1>7. CASE e.kind = "modeFallback"
  <2>1. h = [f EXCEPT !.refresh = TRUE]
    BY <1>7 DEF HandleSessionEvent
  <2>2. Calmer(m, f) /\ ManagerOK(f) /\ f \in Manager
    <3> DEFINE mode == IF e.active \in MouseEmulation THEN e.active
                       ELSE IF m.lastMouse[e.conn] = None THEN "relative"
                       ELSE m.lastMouse[e.conn]
    <3>1. mode \in OutputMode
      BY <1>1 DEF Manager, OutputMode, MouseEmulation
    <3>2. f = IF e.conn \notin m.saved THEN m ELSE UpdateConnection(m, e.conn, mode)
      BY DEF OnModeFallback
    <3> HIDE DEF mode, f
    <3>3. Calmer(m, f)
      BY <3>1, <3>2, UpdateConnectionCalmer DEF Calmer
    <3> QED
      BY <1>1, <3>3, OnModeFallbackOK DEF f, ManagerOK
  <2> HIDE DEF f, h
  <2>3. h.session = f.session /\ h.sessions = f.sessions /\ h.connected = f.connected
    BY <2>1, <2>2 DEF Manager
  <2> QED
    BY <2>2, <2>3 DEF Calmer, ActivePaused, h
<1> QED
  BY <1>1, <1>3, <1>4, <1>5, <1>6, <1>7

-----------------------------------------------------------------------------
(* The controller's calls *)

LEMMA CalmerApp ==
  ASSUME NEW a \in App, PickOK(a), NEW m, Calmer(a.m, m)
  PROVE  PickOK([a EXCEPT !.m = m])
<1>1. [a EXCEPT !.m = m].m = m /\ [a EXCEPT !.m = m].u = a.u
  BY DEF App
<1> QED
  BY <1>1 DEF PickOK, Calmer

LEMMA StartPickPicks ==
  ASSUME NEW a, AppOK(a), a.u.picker = a.u.picking, a.m.connected
  PROVE  PickOK(StartPick(a))
<1>1. a.u \in Controller
  BY DEF AppOK, App
<1>2. CASE a.u.picking
  BY <1>2 DEF StartPick, PickOK
<1>3. CASE ~a.u.picking
  <2> DEFINE u == [a.u EXCEPT !.picking = TRUE, !.picker = TRUE, !.overlay = FALSE,
                              !.follow = FALSE]
  <2>1. u.picking = TRUE /\ u.picker = TRUE
    BY <1>1 DEF Controller
  <2>2. StartPick(a) = [m |-> PauseInput(a.m), u |-> u]
    BY <1>3 DEF StartPick
  <2>3. PauseInput(a.m).connected
    BY PauseCalls DEF AppOK
  <2> HIDE DEF u
  <2>4. StartPick(a).m = PauseInput(a.m) /\ StartPick(a).u = u
    BY <2>2
  <2> QED
    BY <2>1, <2>3, <2>4 DEF PickOK
<1> QED
  BY <1>2, <1>3

\* A picker that was closed over a paused session is one updateOverlay reopens.
Reopens(a) ==
    /\ a.u.picker = a.u.picking
    /\ ActivePaused(a.m) =>
          /\ a.m.connected
          /\ a.u.picking \/ (ActiveMode(a) = "absolute" /\ a.u.snapped # a.m.active)

LEMMA RefreshPicks ==
  ASSUME NEW a, AppOK(a), Reopens(a), NEW life
  PROVE  PickOK(RefreshMenu(a, life))
<1> DEFINE r == RefreshMenu(a, life)
           none == [a EXCEPT !.u = NoOverlay(@)]
           shown == [a EXCEPT !.u.follow = TRUE,
                              !.u.overlay = @ \/ "minimized" \notin {life, a.u.windowState}]
<1>1. a \in App /\ a.u \in Controller
  BY DEF AppOK, App
<1>2. none.m = a.m /\ none.u.picker = a.u.picker /\ none.u.picking = a.u.picking
  BY <1>1 DEF App, Controller, NoOverlay
<1>3. shown.m = a.m /\ shown.u.picker = a.u.picker /\ shown.u.picking = a.u.picking
  BY <1>1 DEF App, Controller
<1>4. ActivePaused(a.m) => ShownConnected(a)
  BY DEF Reopens, ActivePaused, AppOK, ManagerOK, ActiveOK, ShownConnected, ActiveSaved
<1>5. CASE a.u.picking
  <2>1. PickOK(a)
    BY <1>5 DEF Reopens, PickOK
  <2>2. PickOK(none)
    <3> HIDE DEF none
    <3> QED
      BY <1>2, <2>1 DEF PickOK
  <2>3. r \in {a, none}
    BY <1>5 DEF RefreshMenu, UpdateOverlay
  <2> HIDE DEF none, r
  <2> QED
    BY <2>1, <2>2, <2>3 DEF r
<1>6. CASE ~a.u.picking
  <2>1. CASE ~ShownConnected(a)
    <3>1. r = none
      BY <1>6, <2>1 DEF RefreshMenu, UpdateOverlay
    <3> HIDE DEF none, r
    <3> QED
      BY <1>2, <1>4, <2>1, <3>1 DEF PickOK, Reopens, r
  <2>2. CASE ShownConnected(a) /\ ActiveMode(a) # "absolute"
    <3>1. r = none
      BY <1>6, <2>2 DEF RefreshMenu, UpdateOverlay
    <3> HIDE DEF none, r
    <3> QED
      BY <1>2, <1>6, <2>2, <3>1 DEF PickOK, Reopens, r
  <2>3. CASE ShownConnected(a) /\ ActiveMode(a) = "absolute"
    <3>1. r = IF a.u.snapped # a.m.active THEN StartPick(a) ELSE shown
      BY <1>6, <2>3 DEF RefreshMenu, UpdateOverlay
    <3> HIDE DEF shown, r
    <3>2. CASE a.u.snapped # a.m.active
      BY <2>3, <3>1, <3>2, StartPickPicks DEF Reopens, ShownConnected, r
    <3>3. CASE a.u.snapped = a.m.active
      BY <1>3, <1>6, <3>1, <3>3 DEF PickOK, Reopens, r
    <3> QED
      BY <3>2, <3>3
  <2> QED
    BY <2>1, <2>2, <2>3
<1> QED
  BY <1>5, <1>6

LEMMA RefreshKeepsPick ==
  ASSUME NEW a, AppOK(a), PickOK(a), NEW life
  PROVE  PickOK(RefreshMenu(a, life))
<1>1. Reopens(a)
  BY DEF PickOK, Reopens
<1> QED
  BY <1>1, RefreshPicks

LEMMA CancelPickCloses ==
  ASSUME NEW a, AppOK(a), a.u.picker = a.u.picking
  PROVE  /\ CancelPick(a).m = a.m /\ AppOK(CancelPick(a))
         /\ ~CancelPick(a).u.picking /\ CancelPick(a).u.picker = CancelPick(a).u.picking
         /\ CancelPick(a).u.snapped = a.u.snapped
<1>1. a \in App /\ a.u \in Controller
  BY DEF AppOK, App
<1>2. CASE a.u.picking
  <2>1. CancelPick(a) = [a EXCEPT !.u.picking = FALSE, !.u.picker = FALSE]
    BY <1>2 DEF CancelPick
  <2>2. /\ CancelPick(a).u.picking = FALSE /\ CancelPick(a).u.picker = FALSE
        /\ CancelPick(a).u.snapped = a.u.snapped
    BY ZenonT(60), <1>1, <2>1 DEF App, Controller
  <2> QED
    BY <2>2, CancelPickOK
<1>3. CASE ~a.u.picking
  BY <1>3, CancelPickOK DEF CancelPick
<1> QED
  BY <1>2, <1>3

\* With input resumed no picker need be open.
LEMMA ResumedPicks ==
  ASSUME NEW m, NEW u, AppOK([m |-> m, u |-> u]), ~ActivePaused(m), u.picker = u.picking,
         NEW life
  PROVE  PickOK(RefreshMenu([m |-> m, u |-> u], life))
<1>1. Reopens([m |-> m, u |-> u])
  BY DEF Reopens
<1> QED
  BY <1>1, RefreshPicks

LEMMA NoOverlayKeepsPick ==
  ASSUME NEW u \in Controller
  PROVE  /\ NoOverlay(u).picker = u.picker /\ NoOverlay(u).picking = u.picking
         /\ NoOverlay(u) \in Controller
  BY DEF NoOverlay, Controller

LEMMA RevertPicks ==
  ASSUME NEW a, AppOK(a), a.u.picker = a.u.picking, NEW life \in Lifecycle
  PROVE  PickOK(RevertToRelative(a, a.m.active, life))
<1> DEFINE b == CancelPick(a)
           c == a.m.active
           n == UpdateConnection(b.m, c, "relative")
           m == ResumeInput(n)
           u == [NoOverlay(b.u) EXCEPT !.snappedWindow = FALSE, !.windowState = "normal"]
<1>1. AppOK(b) /\ b.m = a.m /\ b.u.picker = b.u.picking /\ b.u \in Controller
  BY CancelPickCloses DEF AppOK, App
<1>2. RevertToRelative(a, c, life)
        = IF c \notin b.m.saved THEN b ELSE RefreshMenu([m |-> m, u |-> u], life)
  BY DEF RevertToRelative
<1> HIDE DEF b
<1>3. c \notin b.m.saved => ~ActivePaused(b.m)
  BY <1>1 DEF AppOK, ManagerOK, ActiveOK, ActivePaused
<1>4. ManagerOK(n)
  <2>1. "relative" \in OutputMode
    BY DEF OutputMode, MouseEmulation
  <2> QED
    BY <1>1, <2>1, UpdateConnectionOK DEF AppOK
<1> HIDE DEF n
<1>5. ManagerOK(m) /\ ~ActivePaused(m)
  BY <1>4, PauseInputOK, PauseCalls
<1>6. u \in Controller /\ u.picker = u.picking
  <2>1. NoOverlay(b.u) \in Controller /\ NoOverlay(b.u).picker = NoOverlay(b.u).picking
    BY <1>1, NoOverlayKeepsPick
  <2> QED
    BY <2>1 DEF Controller, Lifecycle
<1> HIDE DEF m, u
<1>7. PickOK(RefreshMenu([m |-> m, u |-> u], life))
  BY <1>5, <1>6, PartsOK, ResumedPicks
<1> QED
  BY <1>1, <1>2, <1>3, <1>7 DEF PickOK

LEMMA PickedPicks ==
  ASSUME NEW a, AppOK(a), NEW found \in BOOLEAN, NEW life \in Lifecycle
  PROVE  PickOK(Picked(a, found, life))
<1> DEFINE b == [a EXCEPT !.u.picker = FALSE, !.u.picking = FALSE]
           n == UpdateConnection(a.m, a.m.active, "absolute")
           m == ResumeInput(n)
           u == [b.u EXCEPT !.snapped = a.m.active, !.windowState = "normal",
                            !.snappedWindow = found]
<1>1. b \in App /\ b.m = a.m /\ b.u.picker = FALSE /\ b.u.picking = FALSE
  BY DEF AppOK, App, Controller
<1>2. Picked(a, found, life)
        = IF ~ActiveSaved(a) THEN b ELSE RefreshMenu([m |-> m, u |-> u], life)
  BY DEF Picked
<1> HIDE DEF b
<1>3. ~ActiveSaved(a) => ~ActivePaused(a.m)
  BY DEF AppOK, ManagerOK, ActiveOK, ActivePaused, ActiveSaved
<1>4. ManagerOK(n)
  <2>1. "absolute" \in OutputMode
    BY DEF OutputMode, MouseEmulation
  <2> QED
    BY <2>1, UpdateConnectionOK DEF AppOK
<1> HIDE DEF n
<1>5. ManagerOK(m) /\ ~ActivePaused(m)
  BY <1>4, PauseInputOK, PauseCalls
<1>6. u \in Controller /\ u.picker = u.picking
  <2>1. b.u \in Controller /\ a.m.active \in Conns \cup {None}
    BY <1>1 DEF AppOK, App, Manager
  <2> QED
    BY <1>1, <2>1 DEF Controller, Lifecycle
<1> HIDE DEF m, u
<1>7. PickOK(RefreshMenu([m |-> m, u |-> u], life))
  BY <1>5, <1>6, PartsOK, ResumedPicks
<1> QED
  BY <1>1, <1>2, <1>3, <1>7 DEF PickOK

LEMMA PickCancelledPicks ==
  ASSUME NEW a, AppOK(a), NEW life \in Lifecycle
  PROVE  PickOK(PickCancelled(a, life))
<1> DEFINE b == [a EXCEPT !.u.picker = FALSE, !.u.picking = FALSE]
<1>1. b \in App /\ b.m = a.m /\ b.u.picker = FALSE /\ b.u.picking = FALSE
  BY DEF AppOK, App, Controller
<1>2. PickCancelled(a, life)
        = IF ActiveSaved(b) THEN RevertToRelative(b, b.m.active, life) ELSE b
  BY DEF PickCancelled
<1> HIDE DEF b
<1>3. ~ActiveSaved(b) => ~ActivePaused(b.m)
  BY <1>1 DEF AppOK, ManagerOK, ActiveOK, ActivePaused, ActiveSaved
<1>4. PickOK(RevertToRelative(b, b.m.active, life))
  BY <1>1, OwnStateOK, RevertPicks
<1> QED
  BY <1>1, <1>2, <1>3, <1>4 DEF PickOK

LEMMA UnsnappedPicks ==
  ASSUME NEW a \in App
  PROVE  LET b == [a EXCEPT !.u.snapped = None]
         IN  b \in App /\ b.m = a.m /\ b.u = [a.u EXCEPT !.snapped = None]
             /\ b.u.picker = a.u.picker /\ b.u.picking = a.u.picking /\ b.u.snapped = None
  BY DEF App, Controller

\* Absolute mode forgets the window, so that a connected session gets a picker.
LEMMA AbsolutePicks ==
  ASSUME NEW a, AppOK(a), a.u.picker = a.u.picking, a.u.snapped = None,
         ActivePaused(a.m) => a.m.connected, ActiveMode(a) = "absolute", NEW life
  PROVE  PickOK(RefreshMenu(CancelPick(a), life))
<1> DEFINE b == CancelPick(a)
<1>1. /\ AppOK(b) /\ b.m = a.m /\ b.u.picker = b.u.picking /\ b.u.snapped = None
  BY CancelPickCloses
<1> HIDE DEF b
<1>2. ActivePaused(b.m) => b.u.snapped # b.m.active
  BY <1>1 DEF AppOK, ManagerOK, ActiveOK, ActivePaused
<1>3. Reopens(b)
  BY <1>1, <1>2 DEF Reopens, ActiveMode
<1> QED
  BY <1>1, <1>3, RefreshPicks DEF b

LEMMA SwitchToModePicks ==
  ASSUME NEW a, AppOK(a), PickOK(a), ActiveSaved(a), NEW mode \in OutputMode,
         NEW life \in Lifecycle
  PROVE  PickOK(SwitchToMode(a, mode, life))
<1>1. CASE mode = "relative"
  BY <1>1, RevertPicks DEF SwitchToMode, PickOK
<1>2. CASE mode = "absolute"
  <2> DEFINE m == UpdateConnection(a.m, a.m.active, mode)
             e == [a EXCEPT !.u.snapped = None]
             b == [a EXCEPT !.u.snapped = None, !.m = UpdateConnection(@, a.m.active, mode)]
  <2>1. /\ ManagerOK(m) /\ m \in Manager /\ Calmer(a.m, m) /\ m.active = a.m.active
        /\ m.mode[a.m.active] = mode
    BY UpdateConnectionOK, UpdateConnectionCalmer DEF AppOK, ManagerOK, ActiveSaved
  <2>2. SwitchToMode(a, mode, life) = RefreshMenu(CancelPick(b), life)
    BY <1>2 DEF SwitchToMode
  <2>3. /\ e \in App /\ e.m = a.m /\ e.u.picker = a.u.picker /\ e.u.picking = a.u.picking
        /\ e.u.snapped = None
    BY UnsnappedPicks DEF AppOK
  <2>4. b.m = m /\ b.u = e.u /\ b \in App
    <3> HIDE DEF m
    <3>1. b = [e EXCEPT !.m = m]
      BY <2>3 DEF m
    <3> HIDE DEF e, b
    <3> QED
      BY <2>1, <2>3, <3>1 DEF App
  <2> HIDE DEF b, m, e
  <2>5. AppOK(b)
    BY <2>1, <2>4 DEF AppOK
  <2>6. ActivePaused(b.m) => b.m.connected
    BY <2>1, <2>4 DEF Calmer, PickOK
  <2>7. ActiveMode(b) = "absolute"
    BY <1>2, <2>1, <2>4 DEF ActiveMode
  <2> QED
    BY <2>2, <2>3, <2>4, <2>5, <2>6, <2>7, AbsolutePicks DEF PickOK
<1>3. CASE mode \notin {"relative", "absolute"}
  <2> DEFINE b == CancelPick(a)
             n == ResumeInput(b.m)
             m == UpdateConnection(n, a.m.active, mode)
             u == NoOverlay(b.u)
  <2>1. AppOK(b) /\ b.u \in Controller /\ b.u.picker = b.u.picking
    BY CancelPickCloses DEF PickOK, AppOK, App
  <2>2. SwitchToMode(a, mode, life) = RefreshMenu([m |-> m, u |-> u], life)
    BY <1>3 DEF SwitchToMode
  <2> HIDE DEF b
  <2>3. ManagerOK(n) /\ ~ActivePaused(n)
    BY <2>1, PauseInputOK, PauseCalls DEF AppOK
  <2> HIDE DEF n
  <2>4. ManagerOK(m) /\ ~ActivePaused(m)
    BY <2>3, UpdateConnectionOK, UpdateConnectionCalmer DEF Calmer
  <2>5. u \in Controller /\ u.picker = u.picking
    BY <2>1, NoOverlayKeepsPick
  <2> HIDE DEF m, u
  <2> QED
    BY <2>2, <2>4, <2>5, PartsOK, ResumedPicks
<1> QED
  BY <1>1, <1>2, <1>3

LEMMA RestartPickPicks ==
  ASSUME NEW a, AppOK(a), PickOK(a), a.m.connected
  PROVE  PickOK(RestartPick(a))
<1> DEFINE b == CancelPick(a)
           c == [b EXCEPT !.u.snapped = None]
<1>1. AppOK(b) /\ b.m = a.m /\ b.u.picker = b.u.picking
  BY CancelPickCloses DEF PickOK
<1>2. RestartPick(a) = StartPick(c)
  BY DEF RestartPick
<1> HIDE DEF b
<1>3. c.m = b.m /\ c.u.picker = b.u.picker /\ c.u.picking = b.u.picking
  BY <1>1, UnsnappedPicks DEF AppOK
<1>4. AppOK(c)
  BY <1>1, UnsnappedOK
<1> HIDE DEF c
<1> QED
  BY <1>1, <1>2, <1>3, <1>4, StartPickPicks

LEMMA SettingsPicks ==
  ASSUME NEW a, AppOK(a), PickOK(a), NEW c \in a.m.saved, NEW mode \in OutputMode,
         NEW life \in Lifecycle
  PROVE  PickOK(SettingsModeChanged(a, c, mode, life))
<1> DEFINE m == UpdateConnection(a.m, c, mode)
           b == [a EXCEPT !.m = UpdateConnection(@, c, mode)]
           e == [b EXCEPT !.u.snapped = None]
           d == CancelPick(e)
           n == ResumeInput(d.m)
           u == NoOverlay(d.u)
<1>1. /\ ManagerOK(m) /\ m \in Manager /\ Calmer(a.m, m) /\ m.active = a.m.active
      /\ m.mode[c] = mode
  BY UpdateConnectionOK, UpdateConnectionCalmer DEF AppOK, ManagerOK
<1>2. AppOK(b) /\ PickOK(b) /\ b.m = m
  <2> HIDE DEF m
  <2>1. b = [a EXCEPT !.m = m]
    BY DEF m
  <2>2. b.m = m
    BY <2>1 DEF AppOK, App
  <2> HIDE DEF b
  <2> QED
    BY <1>1, <2>1, <2>2, ManagerStepOK, CalmerApp DEF AppOK
<1> HIDE DEF m, b
<1>3. /\ AppOK(e) /\ e.m = b.m /\ e.u.picker = b.u.picker /\ e.u.picking = b.u.picking
      /\ e.u.snapped = None
  BY <1>2, UnsnappedPicks, UnsnappedOK DEF AppOK
<1> HIDE DEF e
<1>4. AppOK(d) /\ d.m = b.m /\ d.u.picker = d.u.picking /\ d.u \in Controller
  BY <1>2, <1>3, CancelPickCloses DEF PickOK, AppOK, App
<1>5. CASE b.m.active # c
  <2>1. SettingsModeChanged(a, c, mode, life) = RefreshMenu(b, life)
    BY <1>5 DEF SettingsModeChanged, b
  <2> QED
    BY <1>2, <2>1, RefreshKeepsPick
<1>6. CASE b.m.active = c /\ mode = "relative"
  <2>1. SettingsModeChanged(a, c, mode, life) = RevertToRelative(b, b.m.active, life)
    BY <1>6 DEF SettingsModeChanged, b
  <2> QED
    BY <1>2, <2>1, RevertPicks DEF PickOK
<1>7. CASE b.m.active = c /\ mode = "absolute"
  <2>1. SettingsModeChanged(a, c, mode, life) = RefreshMenu(d, life)
    BY <1>7 DEF SettingsModeChanged, b, e
  <2>2. ActiveMode(e) = "absolute"
    BY <1>1, <1>2, <1>3, <1>7 DEF ActiveMode
  <2> QED
    BY <1>2, <1>3, <2>1, <2>2, AbsolutePicks DEF PickOK
<1>8. CASE b.m.active = c /\ mode \notin {"relative", "absolute"}
  <2>1. SettingsModeChanged(a, c, mode, life) = RefreshMenu([m |-> n, u |-> u], life)
    BY <1>8 DEF SettingsModeChanged, b, e
  <2> HIDE DEF d
  <2>2. ManagerOK(n) /\ ~ActivePaused(n)
    BY <1>4, PauseInputOK, PauseCalls DEF AppOK
  <2>3. u \in Controller /\ u.picker = u.picking
    BY <1>4, NoOverlayKeepsPick
  <2> HIDE DEF n, u
  <2> QED
    BY <2>1, <2>2, <2>3, PartsOK, ResumedPicks
<1> QED
  BY <1>5, <1>6, <1>7, <1>8

LEMMA FollowTickPicks ==
  ASSUME NEW a, AppOK(a), PickOK(a), NEW life \in Lifecycle
  PROVE  PickOK(FollowTick(a, life))
<1> DEFINE r == FollowTick(a, life)
           closed == [a EXCEPT !.u.windowState = "closed"]
<1>1. a \in App /\ a.m \in Manager
  BY DEF AppOK, ManagerOK
<1>2. CASE life = "closed"
  <2>1. /\ closed \in App /\ closed.m = a.m /\ closed.u.picker = a.u.picker
        /\ closed.u.picking = a.u.picking
    BY <1>1 DEF App, Controller, Lifecycle
  <2>2. r = RevertToRelative(closed, a.m.active, life)
    BY <1>2 DEF FollowTick
  <2> HIDE DEF closed, r
  <2> QED
    BY <2>1, <2>2, OwnStateOK, RevertPicks DEF PickOK, r
<1>3. CASE life # "closed"
  <2>1. /\ r.u.picker = a.u.picker /\ r.u.picking = a.u.picking
        /\ r.m.session = a.m.session /\ r.m.sessions = a.m.sessions
        /\ r.m.connected = a.m.connected
    <3>1. CASE life = "minimized"
      BY <1>1, <3>1 DEF FollowTick, App, Controller
    <3>2. CASE life = "maximized"
      BY <1>1, <3>2 DEF FollowTick, App, Controller, Manager
    <3>3. CASE life \notin {"closed", "minimized", "maximized"}
      BY <1>1, <3>3 DEF FollowTick, App, Controller, Manager
    <3> QED
      BY <1>3, <3>1, <3>2, <3>3
  <2> HIDE DEF r
  <2> QED
    BY <2>1 DEF PickOK, ActivePaused, r
<1> QED
  BY <1>2, <1>3

-----------------------------------------------------------------------------
(* The app *)

\* The thread reads the pause and never changes it.
LEMMA ThreadKeepsPause ==
  ASSUME NEW s, SessionOK(s), NEW out \in ThreadSteps(s)
  PROVE  out.session.paused = s.paused
<1>1. s \in Session
  BY DEF SessionOK
<1>2. \A t \in Session : Clean(t).paused = t.paused
  BY DEF Clean, Session
<1>3. \A t \in Session : \A events : Finish(t, events).session.paused = t.paused
  BY DEF Finish, Out, Unused
<1>4. Catch(s).session.paused = s.paused
  <2>1. Clean(s).paused = s.paused
    BY <1>1, <1>2
  <2> QED
    BY <2>1 DEF Catch, Finish, Out, Unused
<1>5. \A t \in Session : \A mode, last, ok : MakeBackend(t, mode, last, ok).session.paused = t.paused
  BY DEF MakeBackend, Out, Session
<1>6. CASE s.pc = "connecting"
  <2>1. ASSUME NEW ok \in BOOLEAN PROVE Connected(s, ok).session.paused = s.paused
    BY <1>1 DEF Connected, MakeBackend, Out, Session
  <2> QED
    BY <1>4, <1>6, <2>1 DEF ThreadSteps
<1>7. CASE s.pc = "reading"
  <2>1. LeaveLoop(s).session.paused = s.paused
    BY <1>1 DEF LeaveLoop, Clean, Out, Session
  <2>2. \A n : [s EXCEPT !.pc = "frame", !.frames = n].paused = s.paused
    BY <1>1 DEF Session
  <2>3. out \in Reads(s)
    BY <1>7 DEF ThreadSteps
  <2>4. CASE s.stopRequested \/ s.process # "running"
    BY <2>1, <2>3, <2>4 DEF Reads
  <2>5. CASE ~(s.stopRequested \/ s.process # "running")
    <3>1. PICK n \in 1..MaxChunk : out = Out([s EXCEPT !.pc = "frame", !.frames = n], <<>>)
      BY <2>3, <2>5 DEF Reads
    <3> QED
      BY <2>2, <3>1 DEF Out
  <2> QED
    BY <2>4, <2>5
<1>8. CASE s.pc = "frame"
  <2>1. ASSUME NEW ok \in BOOLEAN PROVE NextFrame(s, ok).session.paused = s.paused
    <3> DEFINE take == [s EXCEPT !.frames = @ - 1]
               last == MouseModeOr(s.mode, s.lastMouseMode)
               swap == IF s.mode # s.currentMode THEN SwapBackend(take, s.mode, last, ok)
                       ELSE Out(take, <<>>)
               took == [swap.session EXCEPT !.lastMouseMode = last, !.pc = "handle"]
    <3>1. take.paused = s.paused /\ DOMAIN take = DOMAIN s
      BY <1>1 DEF Session
    <3>2. Clean(take).paused = take.paused /\ DOMAIN Clean(take) = DOMAIN take
      BY <1>1 DEF Clean, Session
    <3>3. [s EXCEPT !.frames = 0, !.pc = "reading"].paused = s.paused
      BY <1>1 DEF Session
    <3>4. NextFrame(s, ok).session \in {[s EXCEPT !.frames = 0, !.pc = "reading"], Clean(take), took}
      BY DEF NextFrame, Out
    <3> HIDE DEF take, took
    <3>5. "paused" \in DOMAIN s
      BY <1>1 DEF Session
    <3>6. swap.session.paused = s.paused /\ "paused" \in DOMAIN swap.session
      BY <3>1, <3>2, <3>5 DEF SwapBackend, MakeBackend, Out
    <3> HIDE DEF swap
    <3>7. took.paused = s.paused
      BY <3>6 DEF took
    <3> QED
      BY <3>1, <3>2, <3>3, <3>4, <3>7
  <2> QED
    BY <1>8, <2>1 DEF ThreadSteps
<1>9. CASE s.pc = "handle"
  <2>1. ASSUME NEW f \in PenFrame PROVE HandlePenFrame(s, f).session.paused = s.paused
    BY <1>1 DEF HandlePenFrame, Out, Session
  <2> QED
    BY <1>9, <2>1 DEF ThreadSteps
<1>10. CASE s.pc = "waiting"
  BY <1>1, <1>3, <1>4, <1>10 DEF ThreadSteps, AfterExit
<1>11. CASE s.pc \notin {"connecting", "reading", "frame", "handle", "waiting"}
  BY <1>11 DEF ThreadSteps
<1> QED
  BY <1>6, <1>7, <1>8, <1>9, <1>10, <1>11

LEMMA SessionStepPicks ==
  ASSUME NEW a, AppOK(a), PickOK(a), NEW sid \in Sids, NEW new,
         new.paused = a.m.sessions[sid].paused
  PROVE  PickOK([a EXCEPT !.m.sessions[sid] = new])
<1> DEFINE r == [a EXCEPT !.m.sessions[sid] = new]
<1>1. /\ a \in App /\ a.m \in Manager /\ a.m.sessions \in [Sids -> Session]
  BY DEF AppOK, ManagerOK, Manager
<1>2. /\ r.u = a.u /\ r.m.session = a.m.session /\ r.m.connected = a.m.connected
      /\ r.m.sessions = [a.m.sessions EXCEPT ![sid] = new]
  BY <1>1 DEF App, Manager
<1> HIDE DEF r
<1>3. ActivePaused(r.m) = ActivePaused(a.m)
  <2>1. a.m.session = sid => r.m.sessions[sid] = new
    BY <1>1, <1>2
  <2>2. a.m.session # sid => r.m.sessions[a.m.session] = a.m.sessions[a.m.session]
    BY <1>1, <1>2 
  <2> QED
    BY <1>2, <2>1, <2>2 DEF ActivePaused
<1> QED
  BY <1>2, <1>3 DEF PickOK, r

LEMMA PickInit == Init => PickInv
<1> SUFFICES ASSUME Init PROVE PickInv
  OBVIOUS
<1>1. app.u = Idle /\ app.m.session = NoSid
  BY DEF Init
<1>2. Idle.picker = Idle.picking
  BY DEF Idle
<1> QED
  BY <1>1, <1>2, InitOK DEF PickInv, PickOK, ActivePaused

LEMMA PickThreads ==
  ASSUME PickInv, NEW s \in Sids, Thread(s) \/ StreamEnds(s)
  PROVE  PickOK(app')
<1> DEFINE old == app.m.sessions[s]
<1>1. AppOK(app) /\ PickOK(app) /\ SessionOK(old)
  BY DEF PickInv, Inv, AppOK, ManagerOK
<1>2. CASE Thread(s)
  <2>1. PICK out \in ThreadSteps(old) : app' = [app EXCEPT !.m.sessions[s] = out.session]
    BY <1>2 DEF Thread
  <2>2. out.session.paused = old.paused
    BY <1>1, ThreadKeepsPause
  <2> QED
    BY <1>1, <2>1, <2>2, SessionStepPicks
<1>3. CASE StreamEnds(s)
  <2>1. PICK how : app' = [app EXCEPT !.m.sessions[s].process = how]
    BY <1>3 DEF StreamEnds
  <2> DEFINE new == [old EXCEPT !.process = how]
  <2>2. app' = [app EXCEPT !.m.sessions[s] = new]
    BY <2>1
  <2>3. new.paused = old.paused
    BY <1>1 DEF SessionOK, Session
  <2> HIDE DEF new
  <2> QED
    BY <1>1, <2>2, <2>3, SessionStepPicks
<1> QED
  BY <1>2, <1>3

LEMMA PickMain ==
  ASSUME \A c, d \in Conns : c = d, PickInv, SessionEvent \/ Refresh \/ Tick
  PROVE  PickOK(app')
<1>1. AppOK(app) /\ PickOK(app) /\ ManagerOK(app.m) /\ app \in App /\ app.m \in Manager
  BY DEF PickInv, Inv, AppOK, ManagerOK
<1>2. CASE SessionEvent
  <2> DEFINE m == HandleSessionEvent(app.m, Head(queue))
  <2>1. app' = [app EXCEPT !.m = m] /\ Head(queue) \in Queued
    BY <1>2 DEF SessionEvent, PickInv, Inv
  <2>2. Calmer(app.m, m)
    BY <1>1, <2>1, EventCalmer
  <2> HIDE DEF m
  <2> QED
    BY <1>1, <2>1, <2>2, CalmerApp
<1>3. CASE Refresh
  <2> DEFINE a == [app EXCEPT !.m.refresh = FALSE]
             m == [app.m EXCEPT !.refresh = FALSE]
  <2>1. PICK life \in Lifecycle : app' = RefreshMenu(a, life)
    BY <1>3, LifeNowFacts DEF Refresh
  <2>2. a = [app EXCEPT !.m = m]
    OBVIOUS
  <2>3. ManagerOK(m) /\ Calmer(app.m, m)
    BY <1>1, RefreshOK DEF Manager, Calmer, ActivePaused
  <2> HIDE DEF a, m
  <2> QED
    BY <1>1, <2>1, <2>2, <2>3, ManagerStepOK, CalmerApp, RefreshKeepsPick
<1>4. CASE Tick
  <2>1. PICK life \in Lifecycle : app' = FollowTick(app, life)
    BY <1>4, LifeNowFacts DEF Tick
  <2> QED
    BY <1>1, <2>1, FollowTickPicks
<1> QED
  BY <1>2, <1>3, <1>4

LEMMA PickUser ==
  ASSUME PickInv, User
  PROVE  PickOK(app')
<1>1. AppOK(app) /\ PickOK(app) /\ ManagerOK(app.m) /\ app \in App
  BY DEF PickInv, Inv, AppOK
<1>2. ASSUME NEW c \in Conns, Toggle(c) PROVE PickOK(app')
  <2> DEFINE m == ToggleConnection(app.m, c)
             a == [app EXCEPT !.m = m]
  <2>1. PICK life \in Lifecycle : app' = RefreshMenu(a, life)
    BY <1>2, LifeNowFacts DEF Toggle
  <2>2. CanStart(app.m)
    BY <1>2 DEF Toggle
  <2>3. Calmer(app.m, m) /\ ManagerOK(m)
    BY <1>1, <2>2, ConnectCalmer, DisconnectOK, NoSessionCalmer, ToggleOK DEF ToggleConnection
  <2> HIDE DEF m
  <2>4. AppOK(a) /\ PickOK(a)
    BY <1>1, <2>3, ManagerStepOK, CalmerApp
  <2> HIDE DEF a
  <2> QED
    BY <2>1, <2>4, RefreshKeepsPick
<1>3. ASSUME NEW c \in Conns, RemoveTablet(c) PROVE PickOK(app')
  <2>1. app' = [app EXCEPT !.m = RemoveConnection(app.m, c)]
    BY <1>3 DEF RemoveTablet
  <2> QED
    BY <1>1, <2>1, RemoveCalmer, CalmerApp
<1>4. ASSUME NEW mode \in OutputMode, ChooseMode(mode) PROVE PickOK(app')
  <2>1. PICK life \in Lifecycle : app' = SwitchToMode(app, mode, life)
    BY <1>4, LifeNowFacts DEF ChooseMode
  <2>2. ActiveSaved(app)
    BY <1>4 DEF ChooseMode, ShownConnected
  <2> QED
    BY <1>1, <2>1, <2>2, SwitchToModePicks
<1>5. ASSUME NEW c \in Conns, NEW mode \in OutputMode, ChooseModeInSettings(c, mode)
      PROVE  PickOK(app')
  <2>1. PICK life \in Lifecycle : app' = SettingsModeChanged(app, c, mode, life)
    BY <1>5, LifeNowFacts DEF ChooseModeInSettings
  <2>2. c \in app.m.saved
    BY <1>5 DEF ChooseModeInSettings
  <2> QED
    BY <1>1, <2>1, <2>2, SettingsPicks
<1>6. CASE ChooseWindow
  BY <1>1, <1>6, RestartPickPicks DEF ChooseWindow, ShownConnected
<1>7. CASE PickWindow
  <2>1. PICK found \in BOOLEAN, life \in Lifecycle : app' = Picked(app, found, life)
    BY <1>7 DEF PickWindow
  <2> QED
    BY <1>1, <2>1, PickedPicks
<1>8. CASE LeavePicker
  <2>1. PICK life \in Lifecycle : app' = PickCancelled(app, life)
    BY <1>8, LifeNowFacts DEF LeavePicker
  <2> QED
    BY <1>1, <2>1, PickCancelledPicks
<1> QED
  BY <1>2, <1>3, <1>4, <1>5, <1>6, <1>7, <1>8 DEF User

LEMMA PickPoll ==
  ASSUME PickInv, SchedulePoll \/ ApplyPoll \/ Applying
  PROVE  PickOK(app')
<1>1. AppOK(app) /\ PickOK(app) /\ ManagerOK(app.m) /\ app \in App /\ app.m \in Manager
  BY DEF PickInv, Inv, AppOK, ManagerOK
<1>2. CASE SchedulePoll
  BY <1>1, <1>2 DEF SchedulePoll
<1>3. CASE ApplyPoll
  <2>1. PICK reached : app' = [app EXCEPT !.m = UpdateReachability(@, reached)]
    BY <1>3 DEF ApplyPoll
  <2>2. Calmer(app.m, UpdateReachability(app.m, reached))
    BY <1>1 DEF UpdateReachability, Manager, Calmer, ActivePaused
  <2> QED
    BY <1>1, <2>1, <2>2, CalmerApp
<1>4. ASSUME NEW c \in Conns, AutoConnected(c) PROVE PickOK(app')
  <2>1. app' = [app EXCEPT !.m = Connect(app.m, c)] /\ CanStart(app.m)
    BY <1>4 DEF AutoConnected
  <2> QED
    BY <1>1, <2>1, ConnectCalmer, CalmerApp
<1>5. CASE PollApplied
  <2> DEFINE m == DropOffline(app.m, poll.reached)
  <2>1. app' = [app EXCEPT !.m = m]
    BY <1>5 DEF PollApplied
  <2>2. Calmer(app.m, m)
    BY <1>1, DisconnectOK, NoSessionCalmer DEF DropOffline, Calmer
  <2> HIDE DEF m
  <2> QED
    BY <1>1, <2>1, <2>2, CalmerApp
<1> QED
  BY <1>2, <1>3, <1>4, <1>5 DEF Applying

LEMMA PickNext ==
  ASSUME \A c, d \in Conns : c = d, PickInv, [Next]_vars
  PROVE  PickInv'
<1>1. Inv'
  BY NextOK DEF PickInv
<1>2. CASE \E s \in Sids : Thread(s) \/ StreamEnds(s)
  BY <1>1, <1>2, PickThreads DEF PickInv
<1>3. CASE SessionEvent \/ Refresh \/ Tick
  BY <1>1, <1>3, PickMain DEF PickInv
<1>4. CASE User
  BY <1>1, <1>4, PickUser DEF PickInv
<1>5. CASE SchedulePoll \/ ApplyPoll \/ Applying
  BY <1>1, <1>5, PickPoll DEF PickInv
<1>6. CASE UNCHANGED vars
  BY <1>1, <1>6 DEF vars, PickInv
<1> QED
  BY <1>2, <1>3, <1>4, <1>5, <1>6 DEF Next

\* With one tablet the picker is on screen exactly while the flag says so, and a
\* session is never left paused without it, whatever the user, the session's
\* events, the follow timer and the USB watcher do in between.
THEOREM PickerHolds ==
  ASSUME \A c, d \in Conns : c = d
  PROVE  Spec => []PickerHoldsInput
<1>1. PickInv /\ [Next]_vars => PickInv'
  BY PickNext
<1>2. PickInv => PickerHoldsInput
  BY DEF PickInv, PickOK, PickerHoldsInput, ActivePaused
<1> QED
  BY <1>1, <1>2, PickInit, PTL DEF Spec
=============================================================================
