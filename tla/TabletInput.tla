---------------------------- MODULE TabletInput ----------------------------
(***************************************************************************)
(* The pen and the fingers on the tablet: QtInputFilter                    *)
(* (epaper_old/input/qtinputfilter.cpp) counts contacts, notices the pen   *)
(* and swallows touches under it; the handlers of ToolCanvas.qml turn what *)
(* is left into pointer calls; Main.qml answers the filter's signals.      *)
(* Composed with the tool host, the canvas and the canvas's worker.        *)
(*                                                                         *)
(* Qt's handlers are external: a finger starts a drag or is lifted as a    *)
(* tap, two fingers start a pinch, and the drag the pinch takes the grab   *)
(* from ends before the pinch is active.  Fingers a TouchCancel took from  *)
(* the handlers do nothing until all are lifted.                           *)
(*                                                                         *)
(* The filter hears of the pen at once, but cancels touches only at the    *)
(* next touch frame, and a tool that leaves is read from evdev while its   *)
(* TabletRelease may still be queued.  Racing says whether the pen may     *)
(* touch before that frame and leave before that release.                  *)
(*                                                                         *)
(* Starts bounds the gestures, Moves the moves of the camera, Posted the   *)
(* results in the event queue.                                             *)
(***************************************************************************)
EXTENDS ToolHost

CONSTANTS Racing, Starts, Moves, Posted

ASSUME InputAssumption ==
    Racing \in BOOLEAN /\ Starts \in Nat /\ Moves \in Nat /\ Posted \in Nat

VARIABLES
    near,       \* m_penNear
    tip,        \* m_penDown
    penDrag,    \* the pen's DragHandler is active (and: with the eraser nib)
    fingers,    \* fingers on the glass
    contacts,   \* m_contacts
    drag,       \* the finger's DragHandler is active
    pinch,      \* the PinchHandler is active
    dead,       \* the fingers were cancelled
    starts,     \* gestures left
    moves,      \* camera moves left
    host        \* ToolCanvasItem, CanvasSession, TabletCanvasItem

vars == <<near, tip, penDrag, fingers, contacts, drag, pinch, dead, starts, moves, host>>
pen == <<near, tip, penDrag>>
touch == <<fingers, contacts, drag, pinch, dead>>

Init ==
    /\ near = FALSE /\ tip = FALSE /\ penDrag = FALSE
    /\ fingers = 0 /\ contacts = 0 /\ drag = FALSE /\ pinch = FALSE /\ dead = FALSE
    /\ starts = Starts /\ moves = Moves
    /\ host = InitialHost

Gesture == starts > 0 /\ starts' = starts - 1

\* A pointer that is nowhere in particular.
Nowhere == [on |-> "empty", cell |-> BoxCell, cam |-> host.canvas.cam, hit |-> FALSE,
            outcome |-> "ordinary", stale |-> FALSE, box |-> {}]

OnEmpty(c, stale) == [Nowhere EXCEPT !.cell = c, !.stale = stale]
Lifted(hit, c) == [Nowhere EXCEPT !.hit = hit, !.cell = c, !.box = {BoxCell}]

Places ==
    {OnEmpty(c, stale) : c \in Cells, stale \in BOOLEAN}
    \cup {[Nowhere EXCEPT !.on = "box"]}
    \cup (IF host.selected THEN {[Nowhere EXCEPT !.on = "knob"]} ELSE {})

\* What an operation in hand can tell apart.  A finger moves the camera by
\* less than the panel at a time.
Travels ==
    IF host.lock = "nav"
    THEN {[Nowhere EXCEPT !.cam = cam] : cam \in {c \in Cams : Overlaps(host.canvas.cam, c)}}
    ELSE {[Nowhere EXCEPT !.cell = c] : c \in Cells}

Cancels ==
    IF host.canvas.stroke.active THEN {[Nowhere EXCEPT !.outcome = o] : o \in Outcomes}
    ELSE {Nowhere}

Lifts ==
    IF host.lock = "ink" THEN Cancels
    ELSE {Lifted(hit, c) : hit \in BOOLEAN, c \in IF host.lock = "erase" THEN Cells ELSE {BoxCell}}

MovesLeft ==
    IF host'.canvas.cam = host.canvas.cam THEN UNCHANGED moves
    ELSE moves > 0 /\ moves' = moves - 1

\* The stroke's samples stay in its cell.
InReach(x) == host.canvas.stroke.active => x.cell = host.canvas.stroke.cell

-----------------------------------------------------------------------------
(* The pen. *)

Approached(s, x) == IF near THEN s ELSE OnPenNear(s, x)

PenComesNear ==
    /\ ~near /\ near' = TRUE
    /\ \E x \in Cancels : host' = OnPenNear(host, x)
    /\ UNCHANGED <<tip, penDrag, touch, starts, moves>>

PenTouches ==
    /\ ~tip /\ ~penDrag /\ Gesture
    /\ Racing \/ ~(drag \/ pinch)
    /\ \E x \in Places, nib \in BOOLEAN, c \in Cancels :
          host' = OnPointerStart(Approached(host, c), TRUE, nib, x)
    /\ near' = TRUE /\ tip' = TRUE /\ penDrag' = TRUE
    /\ UNCHANGED <<touch, moves>>

PenTravels ==
    /\ tip /\ penDrag
    /\ \E x \in Travels, stale \in BOOLEAN :
          /\ InReach(x)
          /\ host' = OnPointerMove(host, [x EXCEPT !.stale = stale])
    /\ UNCHANGED <<pen, touch, starts, moves>>

PenLifts ==
    /\ penDrag
    /\ \E x \in Lifts, c \in Cancels :
          host' = OnPointerEnd(Approached(host, c), TRUE, x)
    /\ near' = TRUE /\ tip' = FALSE /\ penDrag' = FALSE
    /\ UNCHANGED <<touch, starts, moves>>

PenLeaves ==
    /\ near /\ (Racing \/ ~penDrag)
    /\ near' = FALSE /\ tip' = FALSE
    /\ UNCHANGED <<penDrag, touch, starts, moves, host>>

-----------------------------------------------------------------------------
(* The fingers. *)

\* noteContacts, and what Main.qml does about it.
Counted(s, n, x) ==
    IF n = contacts THEN s
    ELSE IF n >= 2 THEN OnSecondContact(s, x)
    ELSE IF n = 0 THEN OnContactsCleared(s) ELSE s

Swallowed(s, x) ==
    LET cancelled == IF contacts = 0 THEN s
                     ELSE IF pinch THEN OnPinchEnd(s, x)
                     ELSE IF drag THEN OnPointerEnd(s, FALSE, x) ELSE s
    IN  IF contacts = 0 THEN s ELSE OnContactsCleared(cancelled)

FingersUnderPen ==
    /\ near \/ tip
    /\ \E n \in 0..2, x \in Lifts :
          /\ n # fingers \/ contacts # 0
          /\ fingers' = n /\ dead' = (n # 0)
          /\ host' = Swallowed(host, x)
    /\ contacts' = 0 /\ drag' = FALSE /\ pinch' = FALSE
    /\ UNCHANGED <<pen, starts, moves>>

\* The frame that reports another number of fingers.
FingersChange ==
    /\ ~near /\ ~tip
    /\ \E n \in 0..2, x \in Lifts, c \in Cancels, tapped \in BOOLEAN :
          /\ n # contacts
          /\ IF n > fingers THEN Gesture ELSE UNCHANGED starts
          /\ fingers' = n /\ contacts' = n /\ dead' = (dead /\ n # 0)
          /\ pinch' = (pinch /\ n = 2) /\ drag' = (drag /\ n # 0)
          /\ host' = LET seen == Counted(host, n, c) IN
                     IF pinch /\ n < 2 THEN OnPinchEnd(seen, x)
                     ELSE IF drag /\ n = 0 THEN OnPointerEnd(seen, FALSE, x)
                     ELSE IF n = 0 /\ contacts = 1 /\ ~dead /\ tapped
                     THEN DispatchTap(seen, [x EXCEPT !.on = IF x.hit THEN "box" ELSE "empty"])
                     ELSE seen
    /\ UNCHANGED <<pen, moves>>

FingerDrags ==
    /\ ~near /\ ~tip /\ contacts # 0 /\ ~dead /\ ~pinch
    /\ drag' = TRUE
    /\ IF drag
       THEN \E x \in Travels : InReach(x) /\ host' = OnPointerMove(host, x)
       ELSE \E x \in Places : ~x.stale /\ host' = OnPointerStart(host, FALSE, FALSE, x)
    /\ MovesLeft
    /\ UNCHANGED <<pen, fingers, contacts, pinch, dead, starts>>

FingersPinch ==
    /\ ~near /\ ~tip /\ contacts = 2 /\ ~dead
    /\ IF pinch
       THEN \E x \in Travels : host' = OnPinchUpdate(host, x)
       ELSE \E x \in Lifts :
               host' = OnPinchStart(IF drag THEN OnPointerEnd(host, FALSE, x) ELSE host, x)
    /\ pinch' = TRUE /\ drag' = FALSE /\ MovesLeft
    /\ UNCHANGED <<pen, fingers, contacts, dead, starts>>

-----------------------------------------------------------------------------
(* The tool chip, and undo and redo, with nothing on the canvas. *)

Resting == ~penDrag /\ ~drag /\ ~pinch

Chip ==
    /\ Resting /\ Gesture
    /\ \E x \in Cancels :
          \/ \E tool \in Tools : host' = SetExclusive(host, tool)
          \/ host' = TogglePenEraser(host)
          \/ host' = ToggleHandTouch(host, x)
    /\ UNCHANGED <<pen, touch, moves>>

UndoOrRedo ==
    /\ Resting /\ Gesture
    /\ \E D \in {{c} : c \in Cells} \cup {{}} :
          host' = [host EXCEPT !.canvas = NoteDocument(Change(@, D), D)]
    /\ UNCHANGED <<pen, touch, moves>>

-----------------------------------------------------------------------------
(* The canvas's own events. *)

Canvas(r) == host' = [host EXCEPT !.canvas = r] /\ UNCHANGED <<pen, touch, starts, moves>>

TimerFires == host.canvas.timer /\ Canvas(OnRasterTimer(host.canvas))
WorkerPosts == /\ host.canvas.job # <<>> /\ Len(host.canvas.posted) < Posted
               /\ Canvas(JobPosted(host.canvas))
ResultArrives == host.canvas.posted # <<>> /\ Canvas(ResultHandled(host.canvas))

Next ==
    \/ PenComesNear \/ PenTouches \/ PenTravels \/ PenLifts \/ PenLeaves
    \/ FingersUnderPen \/ FingersChange \/ FingerDrags \/ FingersPinch
    \/ Chip \/ UndoOrRedo
    \/ TimerFires \/ WorkerPosts \/ ResultArrives

Spec == Init /\ [][Next]_vars

\* The Qt event loop and the worker thread; nothing makes a hand move.
FairSpec ==
    /\ Spec
    /\ WF_vars(TimerFires) /\ WF_vars(WorkerPosts) /\ WF_vars(ResultArrives)

-----------------------------------------------------------------------------
(* Properties. *)

\* Everything the handlers keep stays in its type.
TypeOK ==
    /\ near \in BOOLEAN /\ tip \in BOOLEAN /\ penDrag \in BOOLEAN
    /\ fingers \in 0..2 /\ contacts \in 0..2
    /\ drag \in BOOLEAN /\ pinch \in BOOLEAN /\ dead \in BOOLEAN
    /\ starts \in 0..Starts /\ moves \in 0..Moves
    /\ host.exclusive \in Tools /\ host.lastUsedEraser \in Erasers
    /\ host.nibRestore \in AtMost1(Tools) /\ host.nibArmed \in BOOLEAN
    /\ host.lock \in {"none", "ink", "move", "resize", "lasso", "nav", "erase"}
    /\ host.phase \in {"Idle", "Selected", "Selecting", "Transforming"}
    /\ host.live \in {"none", "move", "resize"} /\ host.pan \in {"None", "Pending", "Active"}
    /\ \A c \in Cells : /\ host.canvas.image[c].ver \in 0..host.canvas.want[c]
                        /\ host.canvas.image[c].at \in Cams
    /\ host.canvas.cam \in Cams /\ host.canvas.rasterCam \in Cams
    /\ host.canvas.why \in {"Unknown", "Camera", "Mutated", "Dirty", "Enclose"}
    /\ host.canvas.dirty \subseteq Cells

\* Whatever a gesture has begun (a stroke, a live transform, a selection
\* being drawn), the router still knows whose it is: the next event of that
\* pointer reaches the operation that can finish it.
InFlightIsLocked ==
    /\ host.canvas.stroke.active => host.lock = "ink"
    /\ host.live # "none" => host.lock = host.live
    /\ host.phase = "Transforming" => host.live # "none"
    /\ host.phase = "Selecting" => host.lock = "lasso"

\* With no handler active nothing of a gesture is left: the lock is free, the
\* tool the eraser nib replaced is back, and the canvas waits for no pointer.
NothingLeftBehind ==
    Resting => /\ host.lock = "none" /\ ~host.travelDeferred /\ ~host.pinching
               /\ host.nibRestore = <<>> /\ ~host.nibArmed
               /\ ~host.canvas.erase /\ ~host.canvas.busy /\ ~host.canvas.stroke.active

\* No repaint, sharp result or timer wipes the ink under a moving pen
\* (inkPathCostsMore, deferFullRasterize, the epoch bumped by beginStroke).
LiveInkKept ==
    LET r == host.canvas IN r.stroke.active => r.image[r.stroke.cell].ink

\* The picture of a part of the panel never goes back to an older document.
NoOldPicture ==
    [][\A c \in Cells : host'.canvas.image[c].ver >= host.canvas.image[c].ver]_vars

\* Main.qml: "pen near outranks hand touch".  While the pen is near, nothing a
\* finger began holds the router.
PenOutranksTouch == near /\ ~penDrag => host.lock = "none"

Shown == \A c \in Cells : host.canvas.image[c].ver = host.canvas.want[c]

\* A change the document has made is shown, once the hand rests: no repaint
\* is deferred for ever and none is forgotten with a dropped result.
ChangesAreShown == Resting ~> (Shown \/ ~Resting)
=============================================================================
