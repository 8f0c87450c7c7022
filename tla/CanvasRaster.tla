---------------------------- MODULE CanvasRaster ----------------------------
(***************************************************************************)
(* What the tablet's canvas shows (TabletCanvasItem in                     *)
(* epaper_old/drawing/tabletcanvasitem.cpp, with rasterize_gate.hpp,       *)
(* rasterize_probe.hpp, camera_sharp_job.hpp and the stroke of             *)
(* stroke_capture.hpp): the bitmap, the flags that say which repaint is    *)
(* owed, the live stroke and the vector job that sharpens the picture      *)
(* after a camera move.                                                    *)
(*                                                                         *)
(* The panel is a set of Cells.  want[c] counts the changes of what the    *)
(* document shows in c (live-manipulation suppression included); a cell of *)
(* the bitmap remembers the count it was painted at, the camera it was     *)
(* painted for, whether it is a vector painting or a shifted bitmap, and   *)
(* whether ink was stamped on it that the document does not have.  Each    *)
(* handler is an operator from the item's state to its next state.         *)
(*                                                                         *)
(* m_rasterizeSharp is never set and is left out.  The orientation never   *)
(* changes at run time and RM_INK_MODE=pool is not modelled.               *)
(***************************************************************************)
EXTENDS Naturals, Sequences

CONSTANTS Cells, Cams, Home, Overlaps(_, _)

ASSUME CamerasAssumption == Home \in Cams /\ Cells # {}

\* std::optional
AtMost1(S) == {<<>>} \cup {<<e>> : e \in S}

Fresh(ver, cam) == [ver |-> ver, at |-> cam, sharp |-> TRUE, ink |-> FALSE]

InitialCanvas == [
    want |-> [c \in Cells |-> 0],
    image |-> [c \in Cells |-> Fresh(0, Home)],
    cam |-> Home, rasterCam |-> Home,
    why |-> "Unknown", consume |-> FALSE,
    pending |-> FALSE, deferredSharp |-> FALSE, dirty |-> {}, timer |-> FALSE,
    erase |-> FALSE, busy |-> FALSE,
    needsSharp |-> FALSE, epoch |-> 0, snap |-> <<>>, held |-> <<>>,
    job |-> <<>>, posted |-> <<>>,
    stroke |-> [active |-> FALSE, cell |-> CHOOSE c \in Cells : TRUE,
                samples |-> 0, awaiting |-> FALSE]]

\* A changed cell; all of them when the change has no box of its own.
Change(r, D) ==
    [r EXCEPT !.want = [c \in Cells |-> IF D = {} \/ c \in D THEN @[c] + 1 ELSE @[c]]]

-----------------------------------------------------------------------------
(***************************************************************************)
(* Painting.  A box larger than half the panel is painted as a whole.      *)
(***************************************************************************)
\* Mutant: only the eraser defers.
DeferErase(r) == r.erase

DeferFull(r) == r.stroke.active \/ r.erase
DeferVector(r) == DeferFull(r) \/ r.busy

Paint(r, box) ==
    LET touched == IF box # {} /\ box # Cells THEN box ELSE Cells IN
    [r EXCEPT !.image = [c \in Cells |->
                            IF c \in touched THEN Fresh(r.want[c], r.cam) ELSE @[c]],
              !.rasterCam = r.cam, !.why = "Unknown", !.needsSharp = FALSE]

\* submitCameraSharp.  A snapshot is made once per epoch.
Submit(r) ==
    IF DeferFull(r) THEN r
    ELSE LET tree == IF r.snap # <<>> THEN r.snap ELSE <<r.want>> IN
         [r EXCEPT !.snap = tree, !.needsSharp = TRUE,
                   !.job = <<[epoch |-> r.epoch, cam |-> r.cam, tree |-> tree[1]]>>]

\* The old bitmap shifted or scaled to the camera, with a sharp one owed.
Blit(r) ==
    Submit([r EXCEPT !.image = [c \in Cells |-> [@[c] EXCEPT !.at = r.cam, !.sharp = FALSE]],
                     !.rasterCam = r.cam, !.why = "Unknown", !.needsSharp = TRUE])

RasterizeVectors(r, box) ==
    IF r.why # "Camera" THEN Paint(r, box)
    ELSE IF r.cam = r.rasterCam THEN IF r.needsSharp THEN Submit(r) ELSE r
    ELSE IF Overlaps(r.rasterCam, r.cam) THEN Blit(r)
    ELSE Submit(r)

ArmTimer(r) == [r EXCEPT !.timer = TRUE]

Owe(r, sharp) ==
    ArmTimer([r EXCEPT !.deferredSharp = @ \/ sharp,
                       !.pending = @ \/ (~sharp /\ ~r.deferredSharp)])

ScheduleCamera(r) ==
    IF r.cam = r.rasterCam THEN IF r.needsSharp /\ ~DeferFull(r) THEN Submit(r) ELSE r
    ELSE IF DeferFull(r) THEN [r EXCEPT !.needsSharp = TRUE]
    ELSE RasterizeVectors([r EXCEPT !.pending = FALSE, !.deferredSharp = FALSE], {})

ScheduleVector(r, sharp) ==
    IF r.why = "Camera" THEN ScheduleCamera(r)
    ELSE IF DeferFull(r) THEN Owe(r, sharp)
    ELSE IF sharp
    THEN RasterizeVectors([r EXCEPT !.pending = FALSE, !.deferredSharp = FALSE, !.dirty = {}], {})
    ELSE IF r.pending THEN r
    ELSE ArmTimer([r EXCEPT !.pending = TRUE])

ScheduleDirty(r, box) ==
    LET noted == [r EXCEPT !.consume = TRUE, !.why = "Dirty"] IN
    IF DeferFull(r) THEN Owe([noted EXCEPT !.dirty = @ \cup box], TRUE)
    ELSE RasterizeVectors([noted EXCEPT !.dirty = {}], box)

ScheduleDocument(r, sharp) ==
    ScheduleVector([r EXCEPT !.why = IF @ = "Unknown" THEN "Camera" ELSE @], sharp)

-----------------------------------------------------------------------------
(***************************************************************************)
(* What the session tells the canvas.                                      *)
(***************************************************************************)
BumpEpoch(r) == [r EXCEPT !.epoch = @ + 1, !.snap = <<>>]

DocumentMutated(r) ==
    LET bumped == BumpEpoch(r) IN
    IF bumped.consume THEN [bumped EXCEPT !.consume = FALSE]
    ELSE ScheduleVector([bumped EXCEPT !.why = "Mutated"], TRUE)

CameraChanged(r) == ScheduleVector([r EXCEPT !.why = "Camera"], FALSE)

\* noteDocumentDirty for a box, noteDocumentMutated without one.
NoteDocument(r, box) ==
    DocumentMutated(IF box = {} THEN r ELSE ScheduleDirty(r, box))

-----------------------------------------------------------------------------
(***************************************************************************)
(* The sharp picture comes back.                                           *)
(***************************************************************************)
ApplyCameraSharp(r, result) ==
    LET shown == [r EXCEPT !.rasterCam = r.cam, !.why = "Unknown",
                           !.image = [c \in Cells |->
                               [Fresh(result.tree[c], r.cam) EXCEPT !.sharp = result.cam = r.cam]]]
    IN
    IF result.cam = r.cam THEN [shown EXCEPT !.needsSharp = FALSE]
    ELSE IF Overlaps(result.cam, r.cam) THEN Submit([shown EXCEPT !.needsSharp = TRUE])
    ELSE Submit([r EXCEPT !.needsSharp = TRUE])

\* Mutant: a result of an older document is painted.
OnSharpOfAnyEpoch(r, result) ==
    IF DeferFull(r) THEN [r EXCEPT !.held = <<result>>]
    ELSE ApplyCameraSharp(r, result)

OnCameraSharpResult(r, result) ==
    IF result.epoch # r.epoch THEN r
    ELSE IF DeferFull(r) THEN [r EXCEPT !.held = <<result>>]
    ELSE ApplyCameraSharp(r, result)

OnRasterTimer(r) ==
    LET fired == [r EXCEPT !.timer = FALSE]
        clear == [fired EXCEPT !.pending = FALSE, !.deferredSharp = FALSE, !.dirty = {}] IN
    IF ~r.pending /\ ~r.deferredSharp THEN fired
    ELSE IF DeferVector(r) THEN ArmTimer(fired)
    ELSE IF r.dirty = {} THEN IF r.needsSharp THEN Submit(clear) ELSE clear
    ELSE RasterizeVectors([clear EXCEPT !.why = IF @ = "Unknown" THEN "Dirty" ELSE @], r.dirty)

-----------------------------------------------------------------------------
(***************************************************************************)
(* What the tool host tells the canvas around a pointer.                   *)
(***************************************************************************)
SetPointerBusy(r, on) == [r EXCEPT !.busy = on]

\* Mutant: work deferred behind the eraser is left to the timer.
SetEraseOnly(r, on) == [r EXCEPT !.erase = on]

SetErasePointerActive(r, on) ==
    LET set == [r EXCEPT !.erase = on] IN
    IF r.erase = on \/ on \/ ~(r.deferredSharp \/ r.pending) THEN set
    ELSE ScheduleVector(set, r.deferredSharp)

FlushDeferred(r) ==
    LET free == ~DeferFull(r)
        r1 == IF r.held # <<>> /\ free
              THEN LET unheld == [r EXCEPT !.held = <<>>] IN
                   IF r.held[1].epoch = r.epoch
                   THEN ApplyCameraSharp(unheld, r.held[1]) ELSE unheld
              ELSE r
        r2 == IF r1.needsSharp /\ free THEN Submit(r1) ELSE r1
    IN  IF r2.pending \/ r2.deferredSharp \/ r2.dirty # {}
        THEN ArmTimer([r2 EXCEPT !.pending = TRUE])
        ELSE r2

-----------------------------------------------------------------------------
(***************************************************************************)
(* The stroke: ingestMappedTablet, StrokeCapture.                          *)
(***************************************************************************)
Stamp(r) == [r EXCEPT !.image[r.stroke.cell].ink = TRUE]

BeginStroke(r, cell) ==
    Stamp([BumpEpoch(r) EXCEPT !.held = <<>>,
                    !.stroke = [@ EXCEPT !.active = TRUE, !.cell = cell, !.samples = 1]])

\* A stroke keeps its first sample and knows that it has more than one.
AppendPoint(r) == Stamp([r EXCEPT !.stroke.samples = 2])

\* Ingest of a finished stroke.  Ordinary ink needs no painting: the stamps
\* are the picture, if the picture under them was the document's.
Ingest(r) ==
    LET c == r.stroke.cell
        ver == r.image[c].ver
        shown == IF ver = r.want[c] /\ r.image[c].ink THEN ver + 1 ELSE ver
    IN  [r EXCEPT !.want[c] = @ + 1,
                  !.image[c] = [r.image[c] EXCEPT !.ver = shown, !.ink = FALSE]]

Outcomes == {"ordinary", "stayInk", "enclose"}

EndStroke(r, outcome) ==
    LET kept == r.stroke.samples = 2
        up == [IF kept THEN Ingest(r) ELSE r EXCEPT !.stroke.active = FALSE]
        settled == IF kept /\ outcome = "stayInk"
                   THEN [up EXCEPT !.pending = FALSE, !.deferredSharp = FALSE] ELSE up
        quiet == [up EXCEPT !.pending = FALSE, !.deferredSharp = FALSE, !.dirty = {},
                            !.why = "Enclose"]
    IN  IF kept /\ outcome = "enclose"
        THEN LET shown == RasterizeVectors(quiet, {r.stroke.cell}) IN
             IF shown.needsSharp THEN Submit(shown) ELSE shown
        ELSE IF settled.held # <<>>
        THEN LET unheld == [settled EXCEPT !.held = <<>>] IN
             IF settled.held[1].epoch = r.epoch THEN ApplyCameraSharp(unheld, settled.held[1])
             ELSE IF unheld.needsSharp THEN Submit(unheld) ELSE unheld
        ELSE IF settled.needsSharp THEN Submit(settled)
        ELSE IF settled.deferredSharp \/ settled.pending
        THEN ArmTimer([settled EXCEPT !.pending = TRUE])
        ELSE settled

\* A contact sample; stale: it is the digitizer's resting corner, where the
\* first sample after contact may still point.
IngestPress(r, cell, stale, tool) ==
    LET guarded == [r EXCEPT !.stroke.awaiting = stale] IN
    IF stale \/ tool # "pen" THEN guarded ELSE BeginStroke(guarded, cell)

IngestMove(r, cell, stale, tool) ==
    IF stale THEN r
    ELSE IF r.stroke.awaiting THEN IngestPress(r, cell, FALSE, tool)
    ELSE IF r.stroke.active THEN AppendPoint(r)
    ELSE r

IngestRelease(r, outcome) ==
    IF r.stroke.awaiting THEN [r EXCEPT !.stroke.awaiting = FALSE]
    ELSE IF r.stroke.active THEN EndStroke(r, outcome)
    ELSE r

CancelActiveStroke(r, outcome) == IF r.stroke.active THEN EndStroke(r, outcome) ELSE r

-----------------------------------------------------------------------------
(***************************************************************************)
(* The worker of m_cameraJob.  A request is a copy and nothing cancels it, *)
(* so of LatestJob only the result it posts can be told apart.             *)
(***************************************************************************)
JobPosted(r) == [r EXCEPT !.posted = Append(@, r.job[1]), !.job = <<>>]
ResultHandled(r) == OnCameraSharpResult([r EXCEPT !.posted = Tail(@)], Head(r.posted))
=============================================================================
