--------------------------- MODULE DriverSession ---------------------------
(***************************************************************************)
(* One pen stream of the macOS app: DriverSession and the part of          *)
(* SSHKeyInstaller.connectPenStream that decides how it starts             *)
(* (macOS/Sources/ReawaApp/SSHSession.swift).  The main actor calls        *)
(* start, stop, pause, resume and updateConfig; the session's thread is    *)
(* run(), cut where it touches what they share under the lock.  Frames     *)
(* come in chunks of one read.  ssh, keys and logging are left out but for *)
(* the outcome: the stream opens, or it does not.                          *)
(***************************************************************************)
EXTENDS PenBackends

CONSTANTS
    Conns,             \* the saved connections' ids
    MaxChunk           \* frames one read may return

ASSUME SessionAssumption == MaxChunk \in Nat

None == "none"

Session == [
    conn : Conns \cup {None},
    pc : {"new", "connecting", "reading", "frame", "handle",
          "waiting", "done"},
    stopRequested : BOOLEAN, paused : BOOLEAN,
    mode : OutputMode,                \* currentConfig.outputMode
    process : {"none", "running", "terminated", "ended", "broken"},
    published : BOOLEAN,              \* self.process is set
    currentMode : OutputMode, lastMouseMode : MouseEmulation,
    backend : Backend,
    frames : 0..MaxChunk,             \* frames of the chunk still to come
    button : BOOLEAN,                 \* what this session left the button at
    late : 0..(MaxChunk + 1),         \* frames handled after stop() returned
    latePaused : 0..(MaxChunk + 1)]   \* frames handled since pause() returned

Unused == [conn |-> None, pc |-> "new", stopRequested |-> FALSE, paused |-> FALSE,
           mode |-> "relative", process |-> "none", published |-> FALSE,
           currentMode |-> "relative", lastMouseMode |-> "relative",
           backend |-> NewBackend("relative"), frames |-> 0, button |-> FALSE,
           late |-> 0, latePaused |-> 0]

Started(s) == s.pc # "new"
Running(s) == s.pc \notin {"new", "done"}

-----------------------------------------------------------------------------
(* What the main actor calls. *)

\* init and start(): the thread begins in connectPenStream.
StartSession(c, mode) ==
    [Unused EXCEPT !.conn = c, !.pc = "connecting", !.mode = mode]

\* stop() terminates the process it finds; before setProcess there is none.
StopSession(s) ==
    [s EXCEPT !.stopRequested = TRUE, !.published = FALSE,
              !.process = IF s.published /\ @ = "running" THEN "terminated" ELSE @]

PauseSession(s) == [s EXCEPT !.paused = TRUE, !.latePaused = 0]
ResumeSession(s) == [s EXCEPT !.paused = FALSE]
UpdateConfig(s, mode) == [s EXCEPT !.mode = mode]

-----------------------------------------------------------------------------
(***************************************************************************)
(* The thread.  A step returns the session and the events it emits, in     *)
(* order; emit() queues them for the main actor.                           *)
(***************************************************************************)
Event(kind) == [kind |-> kind, active |-> None]
Fallback(mode) == [kind |-> "modeFallback", active |-> mode]
StatusGone == Event("statusGone")     \* nativeStylusStatus(nil)
StatusSet == Event("statusSet")

Out(s, events) == [session |-> s, emits |-> events]

\* cleanup() on the backend the session has.
Clean(s) ==
    LET c == Cleanup(s.backend)
    IN  [s EXCEPT !.backend = c.backend, !.button = ButtonAfter(@, c.posts)]

\* makeBackend: a native stylus that cannot start (not ok: the OS, the signature
\* or a permission refuses it) falls back to a mouse mode.
MakeBackend(s, mode, fallback, ok) ==
    IF mode = "native" /\ ~ok
    THEN Out([s EXCEPT !.backend = NewBackend(fallback)], <<Fallback(fallback), StatusSet>>)
    ELSE Out([s EXCEPT !.backend = NewBackend(mode)],
             IF mode = "native" THEN <<StatusSet>> ELSE <<>>)

MouseModeOr(mode, default) == IF mode \in MouseEmulation THEN mode ELSE default

\* The loop ends: the backend is cleaned up and the process waited for.
LeaveLoop(s) == Out([Clean(s) EXCEPT !.pc = "waiting"], <<StatusGone>>)

\* connectPenStream returned a process: publish it, announce the connection,
\* make the first backend.
Connected(s, ok) ==
    LET last == MouseModeOr(s.mode, "relative")
        made == MakeBackend([s EXCEPT !.process = "running", !.published = TRUE,
                                      !.currentMode = s.mode, !.lastMouseMode = last,
                                      !.pc = "reading"], s.mode, last, ok)
    IN  Out(made.session, <<Event("connected")>> \o made.emits)

\* Mutant: an empty read is not taken for the end of the stream.
ReadsPastEnd(s) ==
    CASE s.stopRequested -> {LeaveLoop(s)}
      [] ~s.stopRequested /\ s.process # "running" -> {Out(s, <<>>)}
      [] OTHER -> {Out([s EXCEPT !.pc = "frame", !.frames = n], <<>>) : n \in 1..MaxChunk}

\* while !shouldStop, then the blocking read: a chunk, or the end of the stream.
Reads(s) ==
    CASE s.stopRequested \/ s.process # "running" -> {LeaveLoop(s)}
      [] OTHER -> {Out([s EXCEPT !.pc = "frame", !.frames = n], <<>>) : n \in 1..MaxChunk}

\* Mutant: a mode change drops the old backend as it is.
SwapWithoutCleanup(s, mode, last, ok) ==
    LET made == MakeBackend(s, mode, last, ok)
    IN  Out([made.session EXCEPT !.currentMode = mode],
            made.emits \o IF mode \in MouseEmulation THEN <<StatusGone>> ELSE <<>>)

SwapBackend(s, mode, last, ok) ==
    LET made == MakeBackend(Clean(s), mode, last, ok)
    IN  Out([made.session EXCEPT !.currentMode = mode],
            made.emits \o IF mode \in MouseEmulation THEN <<StatusGone>> ELSE <<>>)

\* The top of the frame loop: stop, pause and the mode are read for each frame;
\* a frame that passes is handled in a step of its own.
NextFrame(s, ok) ==
    LET last == MouseModeOr(s.mode, s.lastMouseMode)
        take == [s EXCEPT !.frames = @ - 1]
        swap == IF s.mode # s.currentMode THEN SwapBackend(take, s.mode, last, ok)
                ELSE Out(take, <<>>)
    IN  CASE s.frames = 0 \/ s.stopRequested -> Out([s EXCEPT !.frames = 0, !.pc = "reading"], <<>>)
          [] s.frames > 0 /\ ~s.stopRequested /\ s.paused -> Out(Clean(take), <<>>)
          [] OTHER -> Out([swap.session EXCEPT !.lastMouseMode = last, !.pc = "handle"], swap.emits)

HandlePenFrame(s, f) ==
    LET h == HandleFrame(s.backend, f)
    IN  Out([s EXCEPT !.backend = h.backend, !.button = ButtonAfter(@, h.posts),
                      !.pc = "frame",
                      !.late = IF s.stopRequested THEN @ + 1 ELSE @,
                      !.latePaused = IF s.paused THEN @ + 1 ELSE @], <<>>)

\* The thread is over: its backend is gone and its process forgotten.
Finish(s, events) ==
    Out([Unused EXCEPT !.conn = s.conn, !.pc = "done", !.stopRequested = s.stopRequested,
                       !.paused = s.paused, !.mode = s.mode, !.process = s.process,
                       !.button = s.button],
        IF s.stopRequested THEN <<>> ELSE events)

\* catch: what there is of a backend is cleaned up; cleaning twice is harmless.
Catch(s) ==
    LET f == Finish(Clean(s), <<Event("failed")>>)
    IN  Out(f.session, <<StatusGone>> \o f.emits)

\* waitUntilExit: a process that failed on its own is an error.
AfterExit(s) ==
    IF s.process # "ended" /\ ~s.stopRequested THEN Catch(s)
    ELSE Finish(s, <<Event("stopped")>>)

\* The steps the thread may take; a blocking read or wait has none.
ThreadSteps(s) ==
    CASE s.pc = "connecting" -> {Connected(s, ok) : ok \in BOOLEAN} \cup {Catch(s)}
      [] s.pc = "reading" -> Reads(s)
      [] s.pc = "frame" -> {NextFrame(s, ok) : ok \in BOOLEAN}
      [] s.pc = "handle" -> {HandlePenFrame(s, f) : f \in PenFrame}
      [] s.pc = "waiting" -> IF s.process = "running" THEN {} ELSE {AfterExit(s)}
      [] OTHER -> {}
=============================================================================
