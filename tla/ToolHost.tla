------------------------------ MODULE ToolHost ------------------------------
(***************************************************************************)
(* Who gets a pointer on the tablet (epaper_old/drawing): the tool chip    *)
(* (primary_toolbar.hpp, canvas_session.cpp), the router (InputHub in      *)
(* tools/input_hub.cpp), the modes, the operations and TransformGesture    *)
(* (tools/modes, tools/operations), and ToolCanvasItem, which calls them   *)
(* and brackets every pointer with the canvas's busy and erase flags.      *)
(*                                                                         *)
(* The document has one box, in BoxCell.  A pointer is "on" the box, on    *)
(* one of its resize knobs or on nothing.  Lasso and marquee are one       *)
(* operation, the three erasers are one, resting and empty taps that only  *)
(* set the paste origin are left out, and so are hover and the overlay.    *)
(* Each handler is an operator from the host's state to its next state;    *)
(* x carries what the pointer did: where it is, what it moved or hit.      *)
(***************************************************************************)
EXTENDS CanvasRaster

CONSTANT BoxCell

ASSUME BoxAssumption == BoxCell \in Cells

Tools == {"pen", "sel_freeform", "erase_brush", "erase_object"}
Erasers == {"erase_brush", "erase_object"}

InitialHost == [
    exclusive |-> "pen", lastUsedEraser |-> "erase_brush",
    nibRestore |-> <<>>, nibArmed |-> FALSE,
    lock |-> "none", travelDeferred |-> FALSE, armed |-> TRUE, lockedUntilLift |-> FALSE,
    pan |-> "None", pinching |-> FALSE, clearedOnTap |-> FALSE,
    selected |-> FALSE, phase |-> "Idle", live |-> "none", moveMutated |-> FALSE,
    canvas |-> InitialCanvas]

-----------------------------------------------------------------------------
(* The tool chip. *)

Mode(s) == CASE s.exclusive \in Erasers -> "Eraser"
             [] s.exclusive = "sel_freeform" -> "Selection"
             [] OTHER -> "Ink"

SetExclusive(s, tool) ==
    [s EXCEPT !.exclusive = tool,
              !.lastUsedEraser = IF tool \in Erasers THEN tool ELSE @]

TogglePenEraser(s) ==
    SetExclusive(s, IF s.exclusive \in Erasers THEN "pen" ELSE s.lastUsedEraser)

BeginNibErase(s) ==
    IF s.nibRestore # <<>> THEN s
    ELSE SetExclusive([s EXCEPT !.nibRestore = <<s.exclusive>>, !.nibArmed = TRUE], "erase_brush")

EndNibErase(s) ==
    IF ~s.nibArmed THEN s
    ELSE SetExclusive([s EXCEPT !.nibRestore = <<>>, !.nibArmed = FALSE], s.nibRestore[1])

-----------------------------------------------------------------------------
(***************************************************************************)
(* TransformGesture: a live move or resize hides the box on the canvas     *)
(* (the tool overlay draws it) until it is committed or aborted.           *)
(***************************************************************************)
Redraw(s, box) == [s EXCEPT !.canvas = NoteDocument(Change(@, box), box)]

TransformBegin(s, op) ==
    Redraw([s EXCEPT !.selected = TRUE, !.phase = "Transforming", !.live = op,
                     !.moveMutated = op = "move"], {BoxCell})

\* The box may end in another cell: both are repainted.
TransformCommit(s, op, moved) ==
    IF s.live # op THEN s
    ELSE Redraw([s EXCEPT !.selected = TRUE, !.phase = "Selected", !.live = "none"],
                IF moved THEN Cells ELSE {BoxCell})

RestPhase(s) == IF s.selected THEN "Selected" ELSE "Idle"

TransformAbort(s, op) ==
    IF s.live = op THEN Redraw([s EXCEPT !.phase = RestPhase(s), !.live = "none"], {BoxCell})
    ELSE [s EXCEPT !.phase = IF @ = "Transforming" THEN RestPhase(s) ELSE @]

-----------------------------------------------------------------------------
(* The operations. *)

ClearSelection(s) == [s EXCEPT !.selected = FALSE, !.phase = "Idle"]

TapSelect(s, x) ==
    IF x.on # "empty" THEN [s EXCEPT !.selected = TRUE, !.phase = "Selected"]
    ELSE IF s.selected THEN ClearSelection(s) ELSE s

\* A move of the camera shows a shifted bitmap; settling asks for a sharp one.
PublishNav(s, cam, settle) ==
    LET moved == CameraChanged([s.canvas EXCEPT !.cam = cam]) IN
    [s EXCEPT !.canvas = IF settle THEN ScheduleDocument(moved, TRUE) ELSE moved]

PinchSettles(s, x) ==
    [IF s.pinching THEN PublishNav(s, x.cam, TRUE) ELSE s EXCEPT !.pinching = FALSE, !.pan = "None"]

FeedDown(s, op, x) ==
    CASE op = "ink" -> [s EXCEPT !.canvas = IngestPress(@, x.cell, x.stale, s.exclusive)]
      [] op = "move" -> IF x.on # "empty" THEN TransformBegin(s, "move")
                        ELSE [s EXCEPT !.moveMutated = FALSE]
      [] op = "resize" -> IF x.on = "knob" /\ s.selected THEN TransformBegin(s, "resize") ELSE s
      [] op = "lasso" -> [s EXCEPT !.phase = "Selecting"]
      [] op = "nav" -> [s EXCEPT !.pinching = FALSE, !.clearedOnTap = FALSE, !.pan = "Pending"]
      [] op = "erase" -> s

FeedMove(s, op, x) ==
    CASE op = "ink" -> [s EXCEPT !.canvas = IngestMove(@, x.cell, x.stale, s.exclusive)]
      [] op = "nav" -> IF s.pinching \/ s.pan = "None" THEN s
                       ELSE PublishNav([s EXCEPT !.pan = "Active"], x.cam, FALSE)
      [] OTHER -> s

FeedUp(s, op, x) ==
    CASE op = "ink" -> [s EXCEPT !.canvas = IngestRelease(@, x.outcome)]
      [] op \in {"move", "resize"} -> TransformCommit(s, op, x.hit)
      [] op = "lasso" -> [s EXCEPT !.selected = x.hit, !.phase = IF x.hit THEN "Selected" ELSE "Idle"]
      [] op = "nav" -> IF s.pinching THEN PinchSettles(s, x)
                       ELSE IF s.pan = "Active"
                       THEN PublishNav([s EXCEPT !.pan = "None"], x.cam, TRUE)
                       ELSE IF s.pan = "Pending" /\ x.hit
                       THEN [ClearSelection(s) EXCEPT !.clearedOnTap = TRUE, !.pan = "None"]
                       ELSE [s EXCEPT !.pan = "None"]
      \* the box noted for repainting need not cover what was erased
      [] op = "erase" -> IF ~x.hit THEN s
                         ELSE [s EXCEPT !.canvas = NoteDocument(Change(@, {x.cell}), x.box)]

FeedCancel(s, op, x) ==
    CASE op = "ink" -> [s EXCEPT !.canvas = CancelActiveStroke(@, x.outcome)]
      [] op \in {"move", "resize"} -> TransformAbort(s, op)
      [] op = "lasso" -> [s EXCEPT !.phase = RestPhase(s)]
      [] op = "nav" -> IF s.pinching THEN PinchSettles(s, x) ELSE [s EXCEPT !.pan = "None"]
      [] op = "erase" -> s

-----------------------------------------------------------------------------
(***************************************************************************)
(* The router.  One operation at a time holds the lock; whatever pointer   *)
(* comes next is fed to it.                                                *)
(***************************************************************************)
Match(s, pen, x) ==
    CASE Mode(s) = "Ink" -> IF pen THEN "ink" ELSE IF x.on # "empty" THEN "move" ELSE "nav"
      [] Mode(s) = "Eraser" -> IF pen THEN "erase" ELSE "nav"
      [] Mode(s) = "Selection" ->
            IF x.on = "knob" THEN "resize" ELSE IF x.on = "box" THEN "move"
            ELSE IF pen THEN "lasso" ELSE "nav"

\* Ink mode turns to the selection tool when a finger has selected the box.
SecondaryCommit(s, mutated) ==
    IF Mode(s) = "Ink" /\ mutated /\ s.selected THEN SetExclusive(s, "sel_freeform") ELSE s

LockMutated(s) == (s.lock = "nav" /\ s.clearedOnTap) \/ (s.lock = "move" /\ s.moveMutated)

SecondaryRefused(s) == s.lockedUntilLift \/ ~s.armed

DispatchDown(s, pen, x) ==
    IF ~pen /\ SecondaryRefused(s) THEN s
    ELSE IF s.lock # "none" THEN FeedDown(s, s.lock, x)
    ELSE LET winner == Match(s, pen, x) IN
         IF Mode(s) = "Selection"
         THEN [s EXCEPT !.lock = winner, !.travelDeferred = TRUE]
         ELSE FeedDown([s EXCEPT !.lock = winner], winner, x)

\* In selection mode the operation begins where the pointer went down, once
\* it has travelled.
DispatchMove(s, x) ==
    IF s.lock = "none" THEN s
    ELSE IF ~s.travelDeferred THEN FeedMove(s, s.lock, x)
    ELSE LET on == CASE s.lock = "resize" -> "knob" [] s.lock = "move" -> "box" [] OTHER -> "empty"
             begun == FeedDown([s EXCEPT !.travelDeferred = FALSE], s.lock, [x EXCEPT !.on = on])
         IN  FeedMove(begun, s.lock, x)

DispatchUp(s, pen, x) ==
    IF s.travelDeferred
    THEN TapSelect([s EXCEPT !.lock = "none", !.travelDeferred = FALSE], x)
    ELSE IF s.lock = "none" THEN s
    ELSE LET up == FeedUp(s, s.lock, x) IN
         [IF pen THEN up ELSE SecondaryCommit(up, LockMutated(up)) EXCEPT !.lock = "none"]

\* Mutant: the router forgets the operation without cancelling it.
CancelForgets(s, x) == [s EXCEPT !.travelDeferred = FALSE, !.lock = "none"]

CancelAll(s, x) ==
    LET here == [s EXCEPT !.travelDeferred = FALSE] IN
    IF s.lock = "none" THEN here ELSE [FeedCancel(here, s.lock, x) EXCEPT !.lock = "none"]

DispatchTap(s, x) ==
    IF SecondaryRefused(s) \/ s.lock # "none" \/ Mode(s) = "Eraser" THEN s
    ELSE SecondaryCommit(TapSelect(s, x), TRUE)

DispatchPinchBegin(s, x) ==
    IF ~s.armed THEN s
    ELSE PublishNav([CancelAll(s, x) EXCEPT !.lock = "nav", !.pan = "None", !.pinching = TRUE],
                    s.canvas.cam, FALSE)

DispatchPinchUpdate(s, x) ==
    IF s.lock = "nav" /\ s.pinching THEN PublishNav(s, x.cam, FALSE) ELSE s

DispatchPinchEnd(s, x) ==
    IF s.lock = "none" THEN s
    ELSE LET ended == IF s.lock = "nav" THEN PinchSettles(s, x) ELSE s IN
         [SecondaryCommit(ended, LockMutated(ended)) EXCEPT !.lock = "none",
                                                            !.lockedUntilLift = TRUE]

-----------------------------------------------------------------------------
(* ToolCanvasItem: every pointer is bracketed with the canvas's flags. *)

Busy(s, on) == [s EXCEPT !.canvas = SetPointerBusy(@, on)]

\* Mutant: the eraser's end does not tell the canvas.
ReleasedErasing(s) == [s EXCEPT !.canvas = FlushDeferred(SetPointerBusy(@, FALSE))]

Released(s) ==
    [s EXCEPT !.canvas =
        FlushDeferred(SetPointerBusy(SetErasePointerActive(@, FALSE), FALSE))]

OnPointerStart(s, pen, nib, x) ==
    LET erasing == nib \/ Mode(s) = "Eraser"
        flagged == [Busy(s, TRUE) EXCEPT !.canvas =
                       IF erasing THEN SetErasePointerActive(@, TRUE) ELSE @]
    IN  DispatchDown(IF nib /\ ~s.nibArmed THEN BeginNibErase(flagged) ELSE flagged, pen, x)

OnPointerMove(s, x) == DispatchMove(Busy(s, TRUE), x)
OnPointerEnd(s, pen, x) == Released(EndNibErase(DispatchUp(s, pen, x)))
OnPointerCancel(s, x) == Released(EndNibErase(CancelAll(s, x)))

Flushed(s) == [s EXCEPT !.canvas = FlushDeferred(SetPointerBusy(@, FALSE))]

CancelHandTouch(s, x) == Flushed(CancelAll(s, x))

OnSecondContact(s, x) ==
    IF s.lock = "none" THEN s ELSE [CancelAll(s, x) EXCEPT !.lockedUntilLift = TRUE]

OnContactsCleared(s) == Flushed([s EXCEPT !.lockedUntilLift = FALSE])

OnPinchStart(s, x) == DispatchPinchBegin(Busy(s, TRUE), x)
OnPinchUpdate(s, x) == DispatchPinchUpdate(Busy(s, TRUE), x)
OnPinchEnd(s, x) == Flushed(DispatchPinchEnd(s, x))

ToggleHandTouch(s, x) ==
    IF s.armed THEN CancelHandTouch([s EXCEPT !.armed = FALSE, !.lockedUntilLift = FALSE], x)
    ELSE [s EXCEPT !.armed = TRUE]

\* Mutant: the pen coming near only flushes the canvas.
OnPenNearFlushed(s, x) == Flushed(s)

\* The pen comes near: Main.qml cancels the hand and then whatever holds on.
OnPenNear(s, x) == OnPointerCancel(CancelHandTouch(s, x), x)
=============================================================================
