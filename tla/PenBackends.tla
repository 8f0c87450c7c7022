---------------------------- MODULE PenBackends ----------------------------
(***************************************************************************)
(* The three ways the macOS app turns pen frames into input                *)
(* (macOS/Sources/ReawaApp/InputDrivers.swift, NativeStylusBackend.swift): *)
(* RelativePenDriver, AbsolutePenDriver and NativeStylusBackend.  A        *)
(* backend is the flags its driver keeps; where the cursor goes is left    *)
(* out.  Each operator returns the backend after the call and the events   *)
(* it posted: "down", "up", "drag", "move" of the left button, or a HID    *)
(* "report".                                                               *)
(***************************************************************************)
EXTENDS Naturals, Sequences

MouseEmulation == {"relative", "absolute"}
OutputMode == MouseEmulation \cup {"native"}

\* A pen out of range does not touch (PenFrameParser.apply).
PenFrame == {f \in [inProximity : BOOLEAN, touching : BOOLEAN] :
                f.touching => f.inProximity}

Backend == [mode : OutputMode,
            buttonDown : BOOLEAN,
            phase : {"none", "hover", "touch"},   \* RelativePenDriver.gesture
            wasTouching : BOOLEAN,                \* AbsolutePenDriver
            isClosed : BOOLEAN]                   \* NativeStylusBackend

NewBackend(mode) == [mode |-> mode, buttonDown |-> FALSE, phase |-> "none",
                     wasTouching |-> FALSE, isClosed |-> FALSE]

Post(b, events) == [backend |-> b, posts |-> events]

Release(b) == IF b.buttonDown THEN <<"up">> ELSE <<>>

Phase(f) == IF f.touching THEN "touch" ELSE "hover"

\* A frame that stays in its phase moves the cursor.
HandleRelative(b, f) ==
    IF ~f.inProximity
    THEN Post([b EXCEPT !.phase = "none", !.buttonDown = FALSE], Release(b))
    ELSE LET p == Phase(f)
             next == [b EXCEPT !.phase = p, !.buttonDown = (p = "touch")]
         IN  IF p = b.phase
             THEN Post(b, <<IF p = "touch" THEN "drag" ELSE "move">>)
             ELSE Post(next, IF p = "touch" THEN <<"down">> ELSE Release(b))

HandleAbsolute(b, f) ==
    LET next == [b EXCEPT !.wasTouching = f.touching]
    IN  CASE ~f.inProximity ->
                Post([next EXCEPT !.buttonDown = FALSE], Release(b))
          [] f.touching /\ ~b.wasTouching ->
                Post([next EXCEPT !.buttonDown = TRUE], <<"down">>)
          [] ~f.touching /\ b.wasTouching /\ f.inProximity ->
                Post([next EXCEPT !.buttonDown = FALSE], <<"up">>)
          [] OTHER -> Post(next, <<IF f.touching THEN "drag" ELSE "move">>)

HandleNative(b, f) == Post(b, IF b.isClosed THEN <<>> ELSE <<"report">>)

HandleFrame(b, f) ==
    CASE b.mode = "relative" -> HandleRelative(b, f)
      [] b.mode = "absolute" -> HandleAbsolute(b, f)
      [] OTHER -> HandleNative(b, f)

\* The relative driver also forgets its gesture; the absolute one keeps
\* wasTouching; the native one is closed for good.
Cleanup(b) ==
    CASE b.mode = "native" -> Post([b EXCEPT !.isClosed = TRUE], <<>>)
      [] b.mode = "relative" ->
            Post([b EXCEPT !.buttonDown = FALSE, !.phase = "none"], Release(b))
      [] OTHER -> Post([b EXCEPT !.buttonDown = FALSE], Release(b))

\* What the left button is after the events were posted.
ButtonAfter(down, posts) ==
    IF posts = <<>> THEN down
    ELSE CASE Head(posts) = "down" -> TRUE
           [] Head(posts) = "up" -> FALSE
           [] OTHER -> down
=============================================================================
