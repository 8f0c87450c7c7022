---------------------------- MODULE TabletProofs ----------------------------
(***************************************************************************)
(* Theorems about the tablet, for any bounds: its canvas and its input     *)
(* (TabletInput, for any panel and cameras), and its end of the USB link   *)
(* with the debug log (TabletLink).  The two share no state.               *)
(***************************************************************************)
EXTENDS TabletInput, TabletLink, TLAPS

-----------------------------------------------------------------------------
(***************************************************************************)
(* CanvasRaster, a lemma for each handler of the canvas: a handler keeps   *)
(* the bitmap no newer than the document, no part of it older than it was, *)
(* and the ink of a stroke on it.  What makes it so is that a sharp picture*)
(* of the current epoch is a picture of the document as it is now.         *)
(***************************************************************************)

Image == [ver : Nat, at : Cams, sharp : BOOLEAN, ink : BOOLEAN]
Trees == [Cells -> Nat]
Result == [epoch : Nat, cam : Cams, tree : Trees]
Stroke == [active : BOOLEAN, cell : Cells, samples : 0..2, awaiting : BOOLEAN]

CanvasState == [
    want : Trees, image : [Cells -> Image], cam : Cams, rasterCam : Cams,
    why : {"Unknown", "Camera", "Mutated", "Dirty", "Enclose"}, consume : BOOLEAN,
    pending : BOOLEAN, deferredSharp : BOOLEAN, dirty : SUBSET Cells, timer : BOOLEAN,
    erase : BOOLEAN, busy : BOOLEAN,
    needsSharp : BOOLEAN, epoch : Nat, snap : AtMost1(Trees), held : AtMost1(Result),
    job : AtMost1(Result), posted : Seq(Result), stroke : Stroke]

NotAhead(r) == \A c \in Cells : r.image[c].ver <= r.want[c]
InkKept(r) == r.stroke.active => r.image[r.stroke.cell].ink

\* A result is of an epoch that has been; one of the current epoch shows the
\* document as it is, and none is of an epoch a stroke is drawn in.
EpochsOK(r) ==
    /\ r.job # <<>> => r.job[1].epoch <= r.epoch
    /\ r.held # <<>> => r.held[1].epoch <= r.epoch
    /\ \A i \in DOMAIN r.posted : r.posted[i].epoch <= r.epoch
Shows(r, q) == q.epoch = r.epoch => q.tree = r.want /\ ~r.stroke.active
Current(r) ==
    /\ r.snap # <<>> => r.snap[1] = r.want /\ ~r.stroke.active
    /\ r.job # <<>> => Shows(r, r.job[1])
    /\ r.held # <<>> => Shows(r, r.held[1])
    /\ \A i \in DOMAIN r.posted : Shows(r, r.posted[i])

\* Between a change of the document and the epoch it starts only Base holds.
Base(r) == r \in CanvasState /\ NotAhead(r) /\ InkKept(r) /\ EpochsOK(r)
CanvasOK(r) == Base(r) /\ Current(r)

Later(r, q) == \A c \in Cells : q.image[c].ver >= r.image[c].ver
Kept(r, q) == q.erase = r.erase /\ q.busy = r.busy /\ q.stroke = r.stroke /\ q.cam = r.cam
GoodStep(r, q) == CanvasOK(q) /\ Later(r, q) /\ Kept(r, q)

-----------------------------------------------------------------------------
LEMMA GoodStepsCompose ==
  ASSUME NEW r \in CanvasState, NEW p \in CanvasState, NEW q \in CanvasState,
         Later(r, p), Kept(r, p), Later(p, q), Kept(p, q)
  PROVE  Later(r, q) /\ Kept(r, q)
<1>1. ASSUME NEW c \in Cells PROVE q.image[c].ver >= r.image[c].ver
  <2>1. r.image[c].ver \in Nat /\ p.image[c].ver \in Nat /\ q.image[c].ver \in Nat
    BY DEF CanvasState, Image
  <2> QED
    BY <2>1 DEF Later
<1> QED
  BY <1>1 DEF Later, Kept

\* A handler that leaves these alone leaves what is known of the results.
SameKnown(r, q) ==
    /\ q.want = r.want /\ q.epoch = r.epoch /\ q.snap = r.snap /\ q.held = r.held
    /\ q.job = r.job /\ q.posted = r.posted /\ q.stroke = r.stroke

LEMMA SameKnownOK ==
  ASSUME NEW r, NEW q, SameKnown(r, q)
  PROVE  (EpochsOK(r) => EpochsOK(q)) /\ (Current(r) => Current(q))
  BY DEF SameKnown, EpochsOK, Current, Shows

\* One that leaves the bitmap alone too shows what was shown.
LEMMA SameImageOK ==
  ASSUME NEW r, Base(r), NEW q \in CanvasState, SameKnown(r, q), q.image = r.image
  PROVE  Base(q) /\ Later(r, q) /\ (Current(r) => CanvasOK(q))
<1>1. Later(r, q)
  BY DEF Base, Later, CanvasState, Image
<1>2. Base(q)
  BY SameKnownOK DEF Base, NotAhead, InkKept, SameKnown
<1> QED
  BY <1>1, <1>2, SameKnownOK DEF CanvasOK

LEMMA OneFacts ==
  ASSUME NEW S, NEW o \in AtMost1(S)
  PROVE  o # <<>> => o[1] \in S /\ o = <<o[1]>>
  BY DEF AtMost1

LEMMA PaintOK ==
  ASSUME NEW r, Base(r), ~r.stroke.active, NEW box
  PROVE  LET q == Paint(r, box) IN Base(q) /\ SameKnown(r, q) /\ Later(r, q) /\ Kept(r, q)
<1> DEFINE touched == IF box # {} /\ box # Cells THEN box ELSE Cells
           image == [c \in Cells |-> IF c \in touched THEN Fresh(r.want[c], r.cam) ELSE r.image[c]]
           q == Paint(r, box)
<1>1. r \in CanvasState /\ r.want \in Trees /\ r.image \in [Cells -> Image] /\ r.cam \in Cams
  BY DEF Base, CanvasState
<1>2. \A c \in Cells : /\ image[c] \in Image
                       /\ image[c].ver <= r.want[c] /\ image[c].ver >= r.image[c].ver
  <2> TAKE c \in Cells
  <2>1. r.want[c] \in Nat /\ r.image[c] \in Image /\ r.image[c].ver \in Nat
    BY <1>1 DEF Trees, Image
  <2>2. Fresh(r.want[c], r.cam) \in Image /\ Fresh(r.want[c], r.cam).ver = r.want[c]
    BY <1>1, <2>1 DEF Fresh, Image
  <2>3. r.image[c].ver <= r.want[c]
    BY DEF Base, NotAhead
  <2>4. image[c] \in {Fresh(r.want[c], r.cam), r.image[c]}
    OBVIOUS
  <2> QED
    BY <2>1, <2>2, <2>3, <2>4
<1>3. image \in [Cells -> Image]
  BY <1>2
<1>4. q = [r EXCEPT !.image = image, !.rasterCam = r.cam, !.why = "Unknown", !.needsSharp = FALSE]
  BY <1>1 DEF Paint, CanvasState
<1> HIDE DEF image, q
<1>5. q \in CanvasState /\ q.image = image /\ SameKnown(r, q) /\ Kept(r, q)
  BY <1>1, <1>3, <1>4 DEF CanvasState, SameKnown, Kept
<1>6. Base(q) /\ Later(r, q)
  <2>1. EpochsOK(q)
    BY <1>5, SameKnownOK DEF Base
  <2> QED
    BY <1>2, <1>5, <2>1 DEF Base, NotAhead, InkKept, Later, SameKnown
<1> QED
  BY <1>5, <1>6 DEF q

LEMMA SubmitOK ==
  ASSUME NEW r, CanvasOK(r)
  PROVE  GoodStep(r, Submit(r))
<1> DEFINE tree == IF r.snap # <<>> THEN r.snap ELSE <<r.want>>
           job == [epoch |-> r.epoch, cam |-> r.cam, tree |-> tree[1]]
           q == Submit(r)
<1>1. r \in CanvasState /\ Current(r) /\ Base(r)
  BY DEF CanvasOK, Base
<1>2. r.want \in Trees /\ r.snap \in AtMost1(Trees) /\ r.epoch \in Nat /\ r.cam \in Cams
  BY <1>1 DEF CanvasState
<1>3. tree[1] = r.want /\ tree \in AtMost1(Trees)
  BY <1>1, <1>2 DEF Current, AtMost1
<1>4. CASE DeferFull(r)
  <2>1. q = r
    BY <1>4 DEF Submit
  <2>2. Later(r, r) /\ Kept(r, r)
    BY <1>1 DEF Later, Kept, CanvasState, Image
  <2> QED
    BY <2>1, <2>2 DEF GoodStep
<1>5. CASE ~DeferFull(r)
  <2>1. ~r.stroke.active
    BY <1>5 DEF DeferFull
  <2>2. q = [r EXCEPT !.snap = tree, !.needsSharp = TRUE, !.job = <<job>>]
    BY <1>5 DEF Submit
  <2>3. job \in Result /\ job.epoch = r.epoch /\ job.tree = r.want
    BY <1>2, <1>3 DEF Result
  <2>4. <<job>> \in AtMost1(Result)
    BY <2>3 DEF AtMost1
  <2> HIDE DEF tree, job, q
  <2>5. /\ q \in CanvasState /\ q.snap = tree /\ q.job = <<job>> /\ q.image = r.image
        /\ q.want = r.want /\ q.epoch = r.epoch /\ q.held = r.held /\ q.posted = r.posted
        /\ Kept(r, q)
    BY <1>1, <1>3, <2>2, <2>4 DEF CanvasState, Kept
  <2>6. q.stroke = r.stroke
    BY <2>5 DEF Kept
  <2>7. EpochsOK(q)
    BY <1>1, <1>2, <2>3, <2>5 DEF EpochsOK, Base
  <2>8. Current(q)
    BY <1>1, <1>3, <2>1, <2>3, <2>5, <2>6 DEF Current, Shows
  <2>9. NotAhead(q) /\ InkKept(q) /\ Later(r, q)
    BY <1>1, <2>5, <2>6 DEF Base, NotAhead, InkKept, Later, CanvasState, Image
  <2> QED
    BY <2>5, <2>7, <2>8, <2>9 DEF GoodStep, CanvasOK, Base, q
<1> QED
  BY <1>4, <1>5

\* Setting the flags of the repaints and the timer.
Flags(r, q) ==
    /\ q \in CanvasState /\ SameKnown(r, q) /\ q.image = r.image
    /\ q.erase = r.erase /\ q.busy = r.busy /\ q.cam = r.cam

LEMMA FlagsOK ==
  ASSUME NEW r, CanvasOK(r), NEW q, Flags(r, q)
  PROVE  GoodStep(r, q)
  BY SameImageOK DEF GoodStep, CanvasOK, Kept, SameKnown, Flags

LEMMA GoodStepRefl ==
  ASSUME NEW r, CanvasOK(r)
  PROVE  GoodStep(r, r)
  BY FlagsOK DEF Flags, SameKnown, CanvasOK, Base

LEMMA GoodThenGood ==
  ASSUME NEW r, NEW p, NEW q, CanvasOK(r), GoodStep(r, p), GoodStep(p, q)
  PROVE  GoodStep(r, q)
  BY GoodStepsCompose DEF GoodStep, CanvasOK, Base

LEMMA BlitOK ==
  ASSUME NEW r, CanvasOK(r)
  PROVE  GoodStep(r, Blit(r))
<1> DEFINE image == [c \in Cells |-> [r.image[c] EXCEPT !.at = r.cam, !.sharp = FALSE]]
           p == [r EXCEPT !.image = image, !.rasterCam = r.cam, !.why = "Unknown",
                          !.needsSharp = TRUE]
<1>1. r \in CanvasState /\ r.image \in [Cells -> Image] /\ r.cam \in Cams
  BY DEF CanvasOK, Base, CanvasState
<1>2. \A c \in Cells : /\ image[c] \in Image /\ image[c].ver = r.image[c].ver
                       /\ image[c].ink = r.image[c].ink
  BY <1>1 DEF Image
<1>3. Blit(r) = Submit(p)
  BY <1>1 DEF Blit, CanvasState
<1> HIDE DEF image
<1>4. /\ p \in CanvasState /\ p.image = image /\ SameKnown(r, p) /\ Kept(r, p)
  <2>1. image \in [Cells -> Image]
    <3>1. image = [c \in Cells |-> image[c]]
      BY DEF image
    <3> QED
      BY <1>2, <3>1
  <2> QED
    BY <1>1, <2>1 DEF CanvasState, SameKnown, Kept
<1> HIDE DEF p
<1>5. CanvasOK(p)
  <2>1. r.stroke.cell \in Cells
    BY <1>1 DEF CanvasState, Stroke
  <2>2. NotAhead(p) /\ InkKept(p)
    BY <1>2, <1>4, <2>1 DEF CanvasOK, Base, NotAhead, InkKept, SameKnown
  <2> QED
    BY <1>4, <2>2, SameKnownOK DEF CanvasOK, Base
<1>6. Later(r, p)
  <2>1. ASSUME NEW c \in Cells PROVE p.image[c].ver >= r.image[c].ver
    <3>1. p.image[c].ver = r.image[c].ver /\ r.image[c].ver \in Nat
      BY <1>1, <1>2, <1>4 DEF Image
    <3> QED
      BY <3>1
  <2> QED
    BY <2>1 DEF Later
<1>7. GoodStep(r, p)
  BY <1>4, <1>5, <1>6 DEF GoodStep
<1> QED
  BY <1>3, <1>5, <1>7, SubmitOK, GoodThenGood

LEMMA PaintGood ==
  ASSUME NEW r, CanvasOK(r), ~r.stroke.active, NEW box
  PROVE  GoodStep(r, Paint(r, box))
  BY PaintOK, SameKnownOK DEF CanvasOK, GoodStep

LEMMA RasterizeOK ==
  ASSUME NEW r, CanvasOK(r), ~r.stroke.active, NEW box
  PROVE  GoodStep(r, RasterizeVectors(r, box))
<1>1. RasterizeVectors(r, box) \in {Paint(r, box), Submit(r), r, Blit(r)}
  BY DEF RasterizeVectors
<1> QED
  BY <1>1, PaintGood, SubmitOK, BlitOK, GoodStepRefl

LEMMA ArmTimerOK ==
  ASSUME NEW r, CanvasOK(r)
  PROVE  GoodStep(r, ArmTimer(r))
<1>1. r \in CanvasState
  BY DEF CanvasOK, Base
<1>2. Flags(r, ArmTimer(r))
  BY <1>1 DEF ArmTimer, Flags, CanvasState, SameKnown
<1> QED
  BY <1>2, FlagsOK

LEMMA OweOK ==
  ASSUME NEW r, CanvasOK(r), NEW sharp \in BOOLEAN
  PROVE  GoodStep(r, Owe(r, sharp))
<1> DEFINE p == [r EXCEPT !.deferredSharp = @ \/ sharp,
                         !.pending = @ \/ (~sharp /\ ~r.deferredSharp)]
<1>1. r \in CanvasState
  BY DEF CanvasOK, Base
<1>2. GoodStep(r, p)
  <2>1. Flags(r, p)
    BY <1>1 DEF Flags, CanvasState, SameKnown
  <2> HIDE DEF p
  <2> QED
    BY <2>1, FlagsOK
<1>3. Owe(r, sharp) = ArmTimer(p)
  BY DEF Owe
<1> HIDE DEF p
<1>4. GoodStep(p, ArmTimer(p))
  BY <1>2, ArmTimerOK DEF GoodStep
<1> QED
  BY <1>2, <1>3, <1>4, GoodThenGood

LEMMA ScheduleCameraOK ==
  ASSUME NEW r, CanvasOK(r)
  PROVE  GoodStep(r, ScheduleCamera(r))
<1> DEFINE n == [r EXCEPT !.needsSharp = TRUE]
           p == [r EXCEPT !.pending = FALSE, !.deferredSharp = FALSE]
<1>1. r \in CanvasState
  BY DEF CanvasOK, Base
<1>2. GoodStep(r, n)
  <2>1. Flags(r, n)
    BY <1>1 DEF Flags, CanvasState, SameKnown
  <2> HIDE DEF n
  <2> QED
    BY <2>1, FlagsOK
<1>3. GoodStep(r, p)
  <2>1. Flags(r, p)
    BY <1>1 DEF Flags, CanvasState, SameKnown
  <2> HIDE DEF p
  <2> QED
    BY <2>1, FlagsOK
<1>4. CASE r.cam # r.rasterCam /\ ~DeferFull(r)
  <2>1. ScheduleCamera(r) = RasterizeVectors(p, {})
    BY <1>4 DEF ScheduleCamera
  <2>2. ~p.stroke.active
    BY <1>3, <1>4 DEF GoodStep, Kept, DeferFull
  <2> HIDE DEF p
  <2>3. GoodStep(p, RasterizeVectors(p, {}))
    BY <1>3, <2>2, RasterizeOK DEF GoodStep
  <2> QED
    BY <1>3, <2>1, <2>3, GoodThenGood
<1>5. CASE ~(r.cam # r.rasterCam /\ ~DeferFull(r))
  <2>1. ScheduleCamera(r) \in {Submit(r), r, n}
    BY <1>5 DEF ScheduleCamera
  <2> QED
    BY <1>2, <2>1, SubmitOK, GoodStepRefl
<1> QED
  BY <1>4, <1>5

LEMMA ScheduleVectorOK ==
  ASSUME NEW r, CanvasOK(r), NEW sharp \in BOOLEAN
  PROVE  GoodStep(r, ScheduleVector(r, sharp))
<1> DEFINE p == [r EXCEPT !.pending = FALSE, !.deferredSharp = FALSE, !.dirty = {}]
           w == [r EXCEPT !.pending = TRUE]
<1>1. r \in CanvasState
  BY DEF CanvasOK, Base
<1>2. GoodStep(r, p)
  <2>1. Flags(r, p)
    BY <1>1 DEF Flags, CanvasState, SameKnown
  <2> HIDE DEF p
  <2> QED
    BY <2>1, FlagsOK
<1>3. GoodStep(r, w)
  <2>1. Flags(r, w)
    BY <1>1 DEF Flags, CanvasState, SameKnown
  <2> HIDE DEF w
  <2> QED
    BY <2>1, FlagsOK
<1>4. CASE r.why = "Camera"
  BY <1>4, ScheduleCameraOK DEF ScheduleVector
<1>5. CASE r.why # "Camera" /\ DeferFull(r)
  BY <1>5, OweOK DEF ScheduleVector
<1>6. CASE r.why # "Camera" /\ ~DeferFull(r) /\ sharp
  <2>1. ScheduleVector(r, sharp) = RasterizeVectors(p, {})
    BY <1>6 DEF ScheduleVector
  <2>2. ~p.stroke.active
    BY <1>2, <1>6 DEF GoodStep, Kept, DeferFull
  <2> HIDE DEF p
  <2>3. GoodStep(p, RasterizeVectors(p, {}))
    BY <1>2, <2>2, RasterizeOK DEF GoodStep
  <2> QED
    BY <1>2, <2>1, <2>3, GoodThenGood
<1>7. CASE r.why # "Camera" /\ ~DeferFull(r) /\ ~sharp
  <2>1. ScheduleVector(r, sharp) = IF r.pending THEN r ELSE ArmTimer(w)
    BY <1>7 DEF ScheduleVector
  <2> HIDE DEF w
  <2>2. GoodStep(w, ArmTimer(w))
    BY <1>3, ArmTimerOK DEF GoodStep
  <2> QED
    BY <1>3, <2>1, <2>2, GoodThenGood, GoodStepRefl
<1> QED
  BY <1>4, <1>5, <1>6, <1>7

LEMMA ScheduleDocumentOK ==
  ASSUME NEW r, CanvasOK(r), NEW sharp \in BOOLEAN
  PROVE  GoodStep(r, ScheduleDocument(r, sharp))
<1> DEFINE p == [r EXCEPT !.why = IF @ = "Unknown" THEN "Camera" ELSE @]
<1>1. r \in CanvasState
  BY DEF CanvasOK, Base
<1>2. GoodStep(r, p)
  <2>1. Flags(r, p)
    BY <1>1 DEF Flags, CanvasState, SameKnown
  <2> HIDE DEF p
  <2> QED
    BY <2>1, FlagsOK
<1>3. ScheduleDocument(r, sharp) = ScheduleVector(p, sharp)
  BY DEF ScheduleDocument
<1> HIDE DEF p
<1>4. GoodStep(p, ScheduleVector(p, sharp))
  BY <1>2, ScheduleVectorOK DEF GoodStep
<1> QED
  BY <1>2, <1>3, <1>4, GoodThenGood

LEMMA CameraChangedOK ==
  ASSUME NEW r, CanvasOK(r)
  PROVE  GoodStep(r, CameraChanged(r))
<1> DEFINE p == [r EXCEPT !.why = "Camera"]
<1>1. r \in CanvasState
  BY DEF CanvasOK, Base
<1>2. GoodStep(r, p)
  <2>1. Flags(r, p)
    BY <1>1 DEF Flags, CanvasState, SameKnown
  <2> HIDE DEF p
  <2> QED
    BY <2>1, FlagsOK
<1>3. CameraChanged(r) = ScheduleVector(p, FALSE)
  BY DEF CameraChanged
<1> HIDE DEF p
<1>4. GoodStep(p, ScheduleVector(p, FALSE))
  BY <1>2, ScheduleVectorOK DEF GoodStep
<1> QED
  BY <1>2, <1>3, <1>4, GoodThenGood

-----------------------------------------------------------------------------
(* A change of the document *)

LEMMA ChangeOK ==
  ASSUME NEW r, CanvasOK(r), NEW D
  PROVE  LET q == Change(r, D) IN Base(q) /\ Later(r, q) /\ Kept(r, q)
<1> DEFINE want == [c \in Cells |-> IF D = {} \/ c \in D THEN r.want[c] + 1 ELSE r.want[c]]
           q == Change(r, D)
<1>1. r \in CanvasState /\ r.want \in Trees /\ r.image \in [Cells -> Image]
  BY DEF CanvasOK, Base, CanvasState
<1>2. \A c \in Cells : want[c] \in Nat /\ r.want[c] \in Nat /\ want[c] >= r.want[c]
  BY <1>1 DEF Trees
<1>3. q = [r EXCEPT !.want = want] /\ want \in Trees
  BY <1>1, <1>2 DEF Change, CanvasState, Trees
<1> HIDE DEF want, q
<1>4. /\ q \in CanvasState /\ q.want = want /\ q.image = r.image /\ Kept(r, q)
      /\ q.epoch = r.epoch /\ q.job = r.job /\ q.held = r.held /\ q.posted = r.posted
  BY <1>1, <1>3 DEF CanvasState, Kept
<1>5. NotAhead(q) /\ Later(r, q)
  BY <1>1, <1>2, <1>4 DEF CanvasOK, Base, NotAhead, Later, Image
<1>6. InkKept(q) /\ EpochsOK(q)
  BY <1>4 DEF CanvasOK, Base, InkKept, EpochsOK, Kept
<1> QED
  BY <1>4, <1>5, <1>6 DEF Base, q

LEMMA BumpOK ==
  ASSUME NEW r, Base(r)
  PROVE  /\ GoodStep(r, BumpEpoch(r))
         /\ BumpEpoch(r).snap = <<>>
         /\ LET q == BumpEpoch(r) IN
            /\ q.job # <<>> => q.job[1].epoch < q.epoch
            /\ \A i \in DOMAIN q.posted : q.posted[i].epoch < q.epoch
            /\ q.consume = r.consume
<1> DEFINE q == BumpEpoch(r)
<1>1. r \in CanvasState /\ r.epoch \in Nat
  BY DEF Base, CanvasState
<1>2. /\ q \in CanvasState /\ q.epoch = r.epoch + 1 /\ q.snap = <<>> /\ q.image = r.image
      /\ q.want = r.want /\ q.job = r.job /\ q.held = r.held /\ q.posted = r.posted
      /\ Kept(r, q) /\ q.consume = r.consume
  <2>1. <<>> \in AtMost1(Trees) /\ r.epoch + 1 \in Nat
    BY <1>1 DEF AtMost1
  <2> QED
    BY <1>1, <2>1 DEF BumpEpoch, CanvasState, Kept
<1> HIDE DEF q
<1>3. /\ q.job # <<>> => q.job[1].epoch \in Nat
      /\ q.held # <<>> => q.held[1].epoch \in Nat
      /\ \A i \in DOMAIN q.posted : q.posted[i].epoch \in Nat
  <2>1. q.job \in AtMost1(Result) /\ q.held \in AtMost1(Result) /\ q.posted \in Seq(Result)
    BY <1>2 DEF CanvasState
  <2>2. \A i \in DOMAIN q.posted : q.posted[i] \in Result
    BY <2>1
  <2> QED
    BY <2>1, <2>2, OneFacts DEF Result
<1>4. /\ q.job # <<>> => q.job[1].epoch < q.epoch
      /\ q.held # <<>> => q.held[1].epoch < q.epoch
      /\ \A i \in DOMAIN q.posted : q.posted[i].epoch < q.epoch
  BY <1>1, <1>2, <1>3 DEF Base, EpochsOK
<1>5. EpochsOK(q) /\ Current(q)
  BY <1>1, <1>2, <1>3, <1>4 DEF EpochsOK, Current, Shows
<1>6. NotAhead(q) /\ InkKept(q) /\ Later(r, q)
  BY <1>1, <1>2 DEF Base, NotAhead, InkKept, Later, Kept, CanvasState, Image
<1> QED
  BY <1>2, <1>4, <1>5, <1>6 DEF GoodStep, CanvasOK, Base, q

LEMMA DocumentMutatedOK ==
  ASSUME NEW r, Base(r)
  PROVE  GoodStep(r, DocumentMutated(r))
<1> DEFINE b == BumpEpoch(r)
           p == [b EXCEPT !.consume = FALSE]
           m == [b EXCEPT !.why = "Mutated"]
<1>1. GoodStep(r, b) /\ CanvasOK(b)
  BY BumpOK DEF GoodStep
<1>2. DocumentMutated(r) = IF b.consume THEN p ELSE ScheduleVector(m, TRUE)
  BY DEF DocumentMutated
<1> HIDE DEF b
<1>3. b \in CanvasState
  BY <1>1 DEF CanvasOK, Base
<1>4. GoodStep(b, p) /\ GoodStep(b, m)
  <2>1. Flags(b, p) /\ Flags(b, m)
    BY <1>3 DEF Flags, CanvasState, SameKnown
  <2> HIDE DEF p, m
  <2> QED
    BY <1>1, <2>1, FlagsOK
<1> HIDE DEF p, m
<1>5. GoodStep(b, ScheduleVector(m, TRUE))
  <2>1. GoodStep(m, ScheduleVector(m, TRUE))
    BY <1>4, ScheduleVectorOK DEF GoodStep
  <2> QED
    BY <1>1, <1>4, <2>1, GoodThenGood
<1>6. GoodStep(b, DocumentMutated(r))
  BY <1>2, <1>4, <1>5
<1> QED
  BY <1>1, <1>6, GoodStepsCompose DEF GoodStep, CanvasOK, Base

LEMMA ScheduleDirtyOK ==
  ASSUME NEW r, Base(r), NEW box \in SUBSET Cells
  PROVE  LET q == ScheduleDirty(r, box) IN Base(q) /\ Later(r, q) /\ Kept(r, q)
<1> DEFINE n == [r EXCEPT !.consume = TRUE, !.why = "Dirty"]
           d == [n EXCEPT !.dirty = @ \cup box]
           e == [n EXCEPT !.dirty = {}]
           q == ScheduleDirty(r, box)
<1>1. r \in CanvasState
  BY DEF Base
<1>2. CASE DeferFull(r)
  <2>1. q = Owe(d, TRUE)
    BY <1>2 DEF ScheduleDirty
  <2>2. /\ Owe(d, TRUE) \in CanvasState /\ Owe(d, TRUE).image = r.image
        /\ SameKnown(r, Owe(d, TRUE)) /\ Kept(r, Owe(d, TRUE))
    BY <1>1 DEF Owe, ArmTimer, CanvasState, SameKnown, Kept
  <2> HIDE DEF n, d, q
  <2> QED
    BY <2>1, <2>2, SameImageOK DEF q
<1>3. CASE ~DeferFull(r)
  <2>1. e \in CanvasState /\ e.image = r.image /\ SameKnown(r, e) /\ Kept(r, e)
        /\ e.why = "Dirty"
    BY <1>1 DEF CanvasState, SameKnown, Kept
  <2>2. q = RasterizeVectors(e, box)
    BY <1>3 DEF ScheduleDirty
  <2>3. ~e.stroke.active
    BY <1>1, <1>3 DEF DeferFull, CanvasState
  <2> HIDE DEF n, e, q
  <2>4. q = Paint(e, box)
    BY <2>1, <2>2 DEF RasterizeVectors
  <2>5. Base(e) /\ Later(r, e)
    BY <2>1, SameImageOK
  <2>6. Base(q) /\ Later(e, q) /\ Kept(e, q)
    BY <2>3, <2>4, <2>5, PaintOK
  <2> QED
    BY <1>1, <2>1, <2>5, <2>6, GoodStepsCompose DEF Base, q
<1> QED
  BY <1>2, <1>3

\* What the document does and the session tells the canvas of it.
LEMMA NoteChangeOK ==
  ASSUME NEW r, CanvasOK(r), NEW D, NEW box \in SUBSET Cells
  PROVE  GoodStep(r, NoteDocument(Change(r, D), box))
<1> DEFINE c == Change(r, D)
           d == IF box = {} THEN c ELSE ScheduleDirty(c, box)
<1>1. Base(c) /\ Later(r, c) /\ Kept(r, c)
  BY ChangeOK
<1> HIDE DEF c
<1>2. Base(d) /\ Later(c, d) /\ Kept(c, d)
  <2>1. Later(c, c) /\ Kept(c, c)
    BY <1>1 DEF Later, Kept, Base, CanvasState, Image
  <2> QED
    BY <1>1, <2>1, ScheduleDirtyOK
<1>3. NoteDocument(c, box) = DocumentMutated(d)
  BY DEF NoteDocument
<1> HIDE DEF d
<1>4. GoodStep(d, DocumentMutated(d))
  BY <1>2, DocumentMutatedOK
<1>5. /\ r \in CanvasState /\ c \in CanvasState /\ d \in CanvasState
      /\ DocumentMutated(d) \in CanvasState
  BY <1>1, <1>2, <1>4 DEF GoodStep, CanvasOK, Base
<1>6. Later(r, d) /\ Kept(r, d)
  BY <1>1, <1>2, <1>5, GoodStepsCompose
<1>7. Later(r, DocumentMutated(d)) /\ Kept(r, DocumentMutated(d))
  BY <1>4, <1>5, <1>6, GoodStepsCompose DEF GoodStep
<1> QED
  BY <1>3, <1>4, <1>7 DEF GoodStep, c

-----------------------------------------------------------------------------
(* The sharp picture comes back *)

LEMMA ApplyOK ==
  ASSUME NEW r, CanvasOK(r), ~r.stroke.active, NEW result \in Result, result.tree = r.want
  PROVE  GoodStep(r, ApplyCameraSharp(r, result))
<1> DEFINE image == [c \in Cells |-> [Fresh(result.tree[c], r.cam) EXCEPT
                                          !.sharp = result.cam = r.cam]]
           shown == [r EXCEPT !.rasterCam = r.cam, !.why = "Unknown", !.image = image]
           clean == [shown EXCEPT !.needsSharp = FALSE]
           owed == [shown EXCEPT !.needsSharp = TRUE]
           only == [r EXCEPT !.needsSharp = TRUE]
<1>1. r \in CanvasState /\ r.want \in Trees /\ r.image \in [Cells -> Image] /\ r.cam \in Cams
  BY DEF CanvasOK, Base, CanvasState
<1>2. ApplyCameraSharp(r, result) \in {clean, Submit(owed), Submit(only)}
  BY DEF ApplyCameraSharp
<1>3. \A c \in Cells : image[c] \in Image /\ image[c].ver = r.want[c]
  BY <1>1 DEF Fresh, Image, Trees
<1>4. image \in [Cells -> Image]
  <2>1. image = [c \in Cells |-> image[c]]
    OBVIOUS
  <2> HIDE DEF image
  <2> QED
    BY <1>3, <2>1
<1> HIDE DEF image
<1>5. GoodStep(r, shown)
  <2>1. /\ shown \in CanvasState /\ shown.image = image /\ SameKnown(r, shown)
        /\ Kept(r, shown)
    BY <1>1, <1>4 DEF CanvasState, SameKnown, Kept
  <2> HIDE DEF shown
  <2>2. NotAhead(shown)
    <3>1. ASSUME NEW c \in Cells PROVE shown.image[c].ver <= shown.want[c]
      <4>1. shown.image[c].ver = shown.want[c] /\ shown.want[c] \in Nat
        BY <1>1, <1>3, <2>1 DEF SameKnown, Trees
      <4> QED
        BY <4>1
    <3> QED
      BY <3>1 DEF NotAhead
  <2>3. Later(r, shown)
    <3>1. \A c \in Cells : shown.image[c].ver = r.want[c] /\ r.image[c].ver <= r.want[c]
      BY <1>3, <2>1 DEF CanvasOK, Base, NotAhead
    <3>2. \A c \in Cells : r.want[c] \in Nat /\ r.image[c].ver \in Nat
      BY <1>1 DEF Trees, Image
    <3> QED
      BY <3>1, <3>2 DEF Later
  <2>4. InkKept(shown)
    BY <2>1 DEF InkKept, SameKnown
  <2> QED
    BY <2>1, <2>2, <2>3, <2>4, SameKnownOK DEF GoodStep, CanvasOK, Base
<1> HIDE DEF shown
<1>6. CanvasOK(shown) /\ shown \in CanvasState
  BY <1>5 DEF GoodStep, CanvasOK, Base
<1>7. Flags(shown, clean) /\ Flags(shown, owed) /\ Flags(r, only)
  BY <1>1, <1>6 DEF Flags, CanvasState, SameKnown
<1> HIDE DEF clean, owed, only
<1>8. GoodStep(shown, clean) /\ GoodStep(shown, owed) /\ GoodStep(r, only)
  BY <1>6, <1>7, FlagsOK
<1>9. GoodStep(owed, Submit(owed)) /\ GoodStep(only, Submit(only))
  BY <1>8, SubmitOK DEF GoodStep
<1> QED
  BY <1>2, <1>5, <1>8, <1>9, GoodThenGood

LEMMA ResultOK ==
  ASSUME NEW r, CanvasOK(r), NEW result \in Result, result.epoch <= r.epoch, Shows(r, result)
  PROVE  GoodStep(r, OnCameraSharpResult(r, result))
<1> DEFINE h == [r EXCEPT !.held = <<result>>]
<1>1. r \in CanvasState
  BY DEF CanvasOK, Base
<1>2. CASE result.epoch # r.epoch
  BY <1>2, GoodStepRefl DEF OnCameraSharpResult
<1>3. CASE result.epoch = r.epoch /\ DeferFull(r)
  <2>1. OnCameraSharpResult(r, result) = h
    BY <1>3 DEF OnCameraSharpResult
  <2>2. <<result>> \in AtMost1(Result) /\ <<result>>[1] = result
    BY DEF AtMost1
  <2>3. /\ h \in CanvasState /\ h.held = <<result>> /\ h.image = r.image /\ h.want = r.want
        /\ h.epoch = r.epoch /\ h.snap = r.snap /\ h.job = r.job /\ h.posted = r.posted
        /\ h.stroke = r.stroke /\ Kept(r, h)
    BY <1>1, <2>2 DEF CanvasState, Kept
  <2> HIDE DEF h
  <2>4. EpochsOK(h) /\ Current(h)
    BY <2>2, <2>3 DEF CanvasOK, Base, EpochsOK, Current, Shows
  <2>5. NotAhead(h) /\ InkKept(h) /\ Later(r, h)
    BY <1>1, <2>3 DEF CanvasOK, Base, NotAhead, InkKept, Later, CanvasState, Image
  <2> QED
    BY <2>1, <2>3, <2>4, <2>5 DEF GoodStep, CanvasOK, Base
<1>4. CASE result.epoch = r.epoch /\ ~DeferFull(r)
  <2>1. OnCameraSharpResult(r, result) = ApplyCameraSharp(r, result)
    BY <1>4 DEF OnCameraSharpResult
  <2> QED
    BY <1>4, <2>1, ApplyOK DEF Shows
<1> QED
  BY <1>2, <1>3, <1>4

\* Of the results a canvas keeps any may be dropped or go from the job to the queue.
LEMMA FewerResultsOK ==
  ASSUME NEW r, CanvasOK(r), NEW q \in CanvasState,
         q.want = r.want, q.image = r.image, q.epoch = r.epoch, q.snap = r.snap, Kept(r, q),
         q.held = r.held \/ q.held = <<>>, q.job = r.job \/ q.job = <<>>,
         \A i \in DOMAIN q.posted : \/ \E j \in DOMAIN r.posted : q.posted[i] = r.posted[j]
                                    \/ r.job # <<>> /\ q.posted[i] = r.job[1]
  PROVE  GoodStep(r, q)
<1>1. q.stroke = r.stroke
  BY DEF Kept
<1>2. EpochsOK(q)
  BY DEF CanvasOK, Base, EpochsOK
<1>3. Current(q)
  BY <1>1 DEF CanvasOK, Current, Shows
<1>4. NotAhead(q) /\ InkKept(q) /\ Later(r, q)
  BY <1>1 DEF CanvasOK, Base, NotAhead, InkKept, Later, CanvasState, Image
<1> QED
  BY <1>2, <1>3, <1>4 DEF GoodStep, CanvasOK, Base

LEMMA UnheldOK ==
  ASSUME NEW r, CanvasOK(r)
  PROVE  LET q == [r EXCEPT !.held = <<>>]
         IN  GoodStep(r, q) /\ q.want = r.want /\ q.epoch = r.epoch /\ q.held = <<>>
<1> DEFINE q == [r EXCEPT !.held = <<>>]
<1>1. r \in CanvasState /\ <<>> \in AtMost1(Result)
  BY DEF CanvasOK, Base, AtMost1
<1>2. /\ q \in CanvasState /\ q.want = r.want /\ q.image = r.image /\ q.epoch = r.epoch
      /\ q.snap = r.snap /\ Kept(r, q) /\ q.held = <<>> /\ q.job = r.job
      /\ q.posted = r.posted
  BY <1>1 DEF CanvasState, Kept
<1> HIDE DEF q
<1> QED
  BY <1>2, FewerResultsOK DEF q

LEMMA HeldFacts ==
  ASSUME NEW r, CanvasOK(r), r.held # <<>>
  PROVE  r.held[1] \in Result /\ Shows(r, r.held[1])
<1>1. r.held \in AtMost1(Result)
  BY DEF CanvasOK, Base, CanvasState
<1> QED
  BY <1>1, OneFacts DEF CanvasOK, Current

\* What is held is shown if it is still of the document, and dropped if not.
LEMMA ApplyHeldOK ==
  ASSUME NEW r, CanvasOK(r), ~r.stroke.active, r.held # <<>>, r.held[1].epoch = r.epoch
  PROVE  GoodStep(r, ApplyCameraSharp([r EXCEPT !.held = <<>>], r.held[1]))
<1> DEFINE q == [r EXCEPT !.held = <<>>]
<1>1. GoodStep(r, q) /\ q.want = r.want
  BY UnheldOK
<1> HIDE DEF q
<1>2. CanvasOK(q) /\ ~q.stroke.active
  BY <1>1 DEF GoodStep, Kept
<1>3. r.held[1] \in Result /\ r.held[1].tree = q.want
  BY <1>1, HeldFacts DEF Shows
<1>4. GoodStep(q, ApplyCameraSharp(q, r.held[1]))
  BY <1>2, <1>3, ApplyOK
<1> QED
  BY <1>1, <1>4, GoodThenGood DEF q

LEMMA TimerOK ==
  ASSUME NEW r, CanvasOK(r)
  PROVE  GoodStep(r, OnRasterTimer(r))
<1> DEFINE fired == [r EXCEPT !.timer = FALSE]
           clear == [fired EXCEPT !.pending = FALSE, !.deferredSharp = FALSE, !.dirty = {}]
           dirty == [clear EXCEPT !.why = IF @ = "Unknown" THEN "Dirty" ELSE @]
<1>1. r \in CanvasState
  BY DEF CanvasOK, Base
<1>2. Flags(r, fired) /\ Flags(r, clear) /\ Flags(r, dirty)
  BY <1>1 DEF Flags, CanvasState, SameKnown
<1>3. OnRasterTimer(r) = IF ~r.pending /\ ~r.deferredSharp THEN fired
                         ELSE IF DeferVector(r) THEN ArmTimer(fired)
                         ELSE IF r.dirty = {}
                         THEN IF r.needsSharp THEN Submit(clear) ELSE clear
                         ELSE RasterizeVectors(dirty, r.dirty)
  BY DEF OnRasterTimer
<1> HIDE DEF fired, clear, dirty
<1>4. GoodStep(r, fired) /\ GoodStep(r, clear) /\ GoodStep(r, dirty)
  BY <1>2, FlagsOK
<1>5. GoodStep(r, ArmTimer(fired)) /\ GoodStep(r, Submit(clear))
  <2>1. GoodStep(fired, ArmTimer(fired)) /\ GoodStep(clear, Submit(clear))
    BY <1>4, ArmTimerOK, SubmitOK DEF GoodStep
  <2> QED
    BY <1>4, <2>1, GoodThenGood
<1>6. CASE DeferVector(r)
  BY <1>3, <1>4, <1>5, <1>6
<1>7. CASE ~DeferVector(r)
  <2>1. ~dirty.stroke.active
    BY <1>4, <1>7 DEF DeferVector, DeferFull, GoodStep, Kept
  <2>2. GoodStep(dirty, RasterizeVectors(dirty, r.dirty))
    BY <1>4, <2>1, RasterizeOK DEF GoodStep
  <2>3. GoodStep(r, RasterizeVectors(dirty, r.dirty))
    BY <1>4, <2>2, GoodThenGood
  <2> QED
    BY <1>3, <1>4, <1>5, <1>7, <2>3
<1> QED
  BY <1>6, <1>7

LEMMA FlushOK ==
  ASSUME NEW r, CanvasOK(r)
  PROVE  GoodStep(r, FlushDeferred(r))
<1> DEFINE free == ~DeferFull(r)
           unheld == [r EXCEPT !.held = <<>>]
           r1 == IF r.held # <<>> /\ free
                 THEN IF r.held[1].epoch = r.epoch
                      THEN ApplyCameraSharp(unheld, r.held[1]) ELSE unheld
                 ELSE r
           r2 == IF r1.needsSharp /\ free THEN Submit(r1) ELSE r1
           p == [r2 EXCEPT !.pending = TRUE]
<1>1. FlushDeferred(r) = IF r2.pending \/ r2.deferredSharp \/ r2.dirty # {}
                         THEN ArmTimer(p) ELSE r2
  BY DEF FlushDeferred
<1>2. GoodStep(r, unheld) /\ GoodStep(r, r)
  BY UnheldOK, GoodStepRefl
<1>3. GoodStep(r, r1)
  <2>1. free => ~r.stroke.active
    BY DEF DeferFull
  <2>2. r.held # <<>> /\ free /\ r.held[1].epoch = r.epoch
          => GoodStep(r, ApplyCameraSharp(unheld, r.held[1]))
    BY <2>1, ApplyHeldOK
  <2> HIDE DEF unheld, free
  <2> QED
    BY <1>2, <2>2
<1> HIDE DEF r1, free
<1>4. GoodStep(r, r2) /\ CanvasOK(r2) /\ r2 \in CanvasState
  <2>1. GoodStep(r1, Submit(r1))
    BY <1>3, SubmitOK DEF GoodStep
  <2>2. GoodStep(r, Submit(r1))
    BY <1>3, <2>1, GoodThenGood
  <2> QED
    BY <1>3, <2>2 DEF GoodStep, CanvasOK, Base
<1> HIDE DEF r2
<1>5. Flags(r2, p)
  BY <1>4 DEF Flags, CanvasState, SameKnown
<1> HIDE DEF p
<1>6. GoodStep(r2, p) /\ CanvasOK(p)
  BY <1>4, <1>5, FlagsOK DEF GoodStep
<1>7. GoodStep(r, ArmTimer(p))
  BY <1>4, <1>6, ArmTimerOK, GoodThenGood
<1> QED
  BY <1>1, <1>4, <1>7

-----------------------------------------------------------------------------
(* The worker *)

LEMMA PostedOK ==
  ASSUME NEW r, CanvasOK(r), r.job # <<>>
  PROVE  GoodStep(r, JobPosted(r))
<1> DEFINE q == JobPosted(r)
<1>1. /\ r \in CanvasState /\ r.job \in AtMost1(Result) /\ r.posted \in Seq(Result)
      /\ <<>> \in AtMost1(Result)
  BY DEF CanvasOK, Base, CanvasState, AtMost1
<1>2. r.job[1] \in Result
  BY <1>1, OneFacts
<1>3. Append(r.posted, r.job[1]) \in Seq(Result)
  BY <1>1, <1>2
<1>4. /\ q \in CanvasState /\ q.want = r.want /\ q.image = r.image /\ q.epoch = r.epoch
      /\ q.snap = r.snap /\ Kept(r, q) /\ q.held = r.held /\ q.job = <<>>
      /\ q.posted = Append(r.posted, r.job[1])
  BY <1>1, <1>3 DEF JobPosted, CanvasState, Kept
<1> HIDE DEF q
<1>5. ASSUME NEW i \in DOMAIN q.posted
      PROVE  (\E j \in DOMAIN r.posted : q.posted[i] = r.posted[j]) \/ q.posted[i] = r.job[1]
  BY <1>1, <1>2, <1>4
<1> QED
  BY <1>4, <1>5, FewerResultsOK DEF q

LEMMA HandledOK ==
  ASSUME NEW r, CanvasOK(r), r.posted # <<>>
  PROVE  GoodStep(r, ResultHandled(r))
<1> DEFINE t == [r EXCEPT !.posted = Tail(@)]
           result == Head(r.posted)
<1>1. r \in CanvasState /\ r.posted \in Seq(Result)
  BY DEF CanvasOK, Base, CanvasState
<1>2. /\ result \in Result /\ result = r.posted[1] /\ 1 \in DOMAIN r.posted
      /\ Tail(r.posted) \in Seq(Result)
  BY <1>1
<1>3. /\ t \in CanvasState /\ t.want = r.want /\ t.image = r.image /\ t.epoch = r.epoch
      /\ t.snap = r.snap /\ Kept(r, t) /\ t.held = r.held /\ t.job = r.job
      /\ t.posted = Tail(r.posted)
  BY <1>1, <1>2 DEF CanvasState, Kept
<1>4. ResultHandled(r) = OnCameraSharpResult(t, result)
  BY DEF ResultHandled
<1>5. result.epoch <= r.epoch /\ Shows(r, result)
  BY <1>2 DEF CanvasOK, Base, EpochsOK, Current
<1> HIDE DEF t, result
<1>6. ASSUME NEW i \in DOMAIN t.posted
      PROVE  \E j \in DOMAIN r.posted : t.posted[i] = r.posted[j]
  <2>1. i + 1 \in DOMAIN r.posted /\ t.posted[i] = r.posted[i + 1]
    BY <1>1, <1>3
  <2> QED
    BY <2>1
<1>7. GoodStep(r, t)
  BY <1>3, <1>6, FewerResultsOK
<1>8. result.epoch <= t.epoch /\ Shows(t, result)
  BY <1>3, <1>5 DEF Shows, Kept
<1>9. GoodStep(t, OnCameraSharpResult(t, result))
  BY <1>2, <1>7, <1>8, ResultOK DEF GoodStep
<1> QED
  BY <1>4, <1>7, <1>9, GoodThenGood

-----------------------------------------------------------------------------
(* What the tool host tells the canvas *)

Rest(r, q) == q.erase = r.erase /\ q.busy = r.busy /\ q.cam = r.cam
StrokeStep(r, q) == CanvasOK(q) /\ Later(r, q) /\ Rest(r, q)

LEMMA BusyOK ==
  ASSUME NEW r, CanvasOK(r), NEW on \in BOOLEAN
  PROVE  LET q == SetPointerBusy(r, on)
         IN  /\ CanvasOK(q) /\ Later(r, q) /\ q.busy = on /\ q.erase = r.erase
             /\ q.cam = r.cam /\ q.stroke = r.stroke
<1> DEFINE q == SetPointerBusy(r, on)
<1>1. r \in CanvasState
  BY DEF CanvasOK, Base
<1>2. /\ q \in CanvasState /\ q.image = r.image /\ SameKnown(r, q) /\ q.busy = on
      /\ q.erase = r.erase /\ q.cam = r.cam /\ q.stroke = r.stroke
  BY <1>1 DEF SetPointerBusy, CanvasState, SameKnown
<1> HIDE DEF q
<1> QED
  BY <1>2, SameImageOK DEF CanvasOK, q

LEMMA EraseOK ==
  ASSUME NEW r, CanvasOK(r), NEW on \in BOOLEAN
  PROVE  LET q == SetErasePointerActive(r, on)
         IN  /\ CanvasOK(q) /\ Later(r, q) /\ q.erase = on /\ q.busy = r.busy
             /\ q.cam = r.cam /\ q.stroke = r.stroke
<1> DEFINE set == [r EXCEPT !.erase = on]
           q == SetErasePointerActive(r, on)
<1>1. r \in CanvasState
  BY DEF CanvasOK, Base
<1>2. /\ set \in CanvasState /\ set.image = r.image /\ SameKnown(r, set) /\ set.erase = on
      /\ set.busy = r.busy /\ set.cam = r.cam /\ set.stroke = r.stroke
  BY <1>1 DEF CanvasState, SameKnown
<1>3. q \in {set, ScheduleVector(set, r.deferredSharp)} /\ r.deferredSharp \in BOOLEAN
  BY <1>1 DEF SetErasePointerActive, CanvasState
<1> HIDE DEF set, q
<1>4. CanvasOK(set) /\ Later(r, set)
  BY <1>2, SameImageOK DEF CanvasOK
<1>5. GoodStep(set, q)
  BY <1>3, <1>4, ScheduleVectorOK, GoodStepRefl
<1>6. Later(r, q)
  <2>1. ASSUME NEW c \in Cells PROVE q.image[c].ver >= r.image[c].ver
    <3>1. set.image[c] = r.image[c] /\ q.image[c].ver >= set.image[c].ver
      BY <1>2, <1>5 DEF GoodStep, Later
    <3> QED
      BY <3>1
  <2> QED
    BY <2>1 DEF Later
<1> QED
  BY <1>2, <1>5, <1>6 DEF GoodStep, Kept, q

-----------------------------------------------------------------------------
(* The stroke *)

\* A canvas that ends a stroke holds no result that could be of this epoch.
LEMMA ActiveFacts ==
  ASSUME NEW r, CanvasOK(r), r.stroke.active
  PROVE  /\ r.snap = <<>>
         /\ r.job # <<>> => r.job[1].epoch # r.epoch
         /\ r.held # <<>> => r.held[1].epoch # r.epoch
         /\ \A i \in DOMAIN r.posted : r.posted[i].epoch # r.epoch
  BY DEF CanvasOK, Current, Shows

\* So its bitmap and its document may change together.
LEMMA NoCurrentOK ==
  ASSUME NEW r, CanvasOK(r), r.stroke.active, NEW q \in CanvasState,
         q.epoch = r.epoch, q.snap = r.snap, q.held = r.held, q.job = r.job,
         q.posted = r.posted, NotAhead(q), InkKept(q)
  PROVE  CanvasOK(q)
<1>1. Current(q)
  BY ActiveFacts DEF Current, Shows
<1>2. EpochsOK(q)
  BY DEF CanvasOK, Base, EpochsOK
<1> QED
  BY <1>1, <1>2 DEF CanvasOK, Base

LEMMA StrokeBegun ==
  ASSUME NEW o \in Stroke, NEW cell \in Cells
  PROVE  LET q == [o EXCEPT !.active = TRUE, !.cell = cell, !.samples = 1]
         IN  q \in Stroke /\ q.cell = cell /\ q.active /\ q.awaiting = o.awaiting
<1> DEFINE one == [o EXCEPT !.active = TRUE]
           two == [one EXCEPT !.cell = cell]
           three == [two EXCEPT !.samples = 1]
<1>1. one \in Stroke /\ one.active /\ one.awaiting = o.awaiting
  BY DEF Stroke
<1> HIDE DEF one
<1>2. two \in Stroke /\ two.active /\ two.awaiting = o.awaiting /\ two.cell = cell
  BY <1>1 DEF Stroke
<1> HIDE DEF two
<1>3. /\ three \in Stroke /\ three.active /\ three.awaiting = o.awaiting
      /\ three.cell = cell
  BY <1>2 DEF Stroke
<1> QED
  BY <1>3 DEF one, two

LEMMA BeginStrokeOK ==
  ASSUME NEW r, CanvasOK(r), NEW cell \in Cells
  PROVE  LET q == BeginStroke(r, cell)
         IN  StrokeStep(r, q) /\ q.stroke.awaiting = r.stroke.awaiting
<1> DEFINE b == BumpEpoch(r)
           stroke == [b.stroke EXCEPT !.active = TRUE, !.cell = cell, !.samples = 1]
           p == [b EXCEPT !.held = <<>>, !.stroke = stroke]
           image == [b.image EXCEPT ![cell] = [@ EXCEPT !.ink = TRUE]]
           q == BeginStroke(r, cell)
<1>1. /\ GoodStep(r, b) /\ b.snap = <<>> /\ (b.job # <<>> => b.job[1].epoch < b.epoch)
      /\ \A i \in DOMAIN b.posted : b.posted[i].epoch < b.epoch
  BY BumpOK DEF CanvasOK
<1>2. CanvasOK(b) /\ b \in CanvasState /\ r \in CanvasState
  BY <1>1 DEF GoodStep, CanvasOK, Base
<1> HIDE DEF b
<1>3. q = Stamp(p)
  BY DEF BeginStroke, b
<1>4. /\ b.image \in [Cells -> Image] /\ b.stroke \in Stroke /\ b.epoch \in Nat
      /\ <<>> \in AtMost1(Result) /\ b.job \in AtMost1(Result) /\ b.posted \in Seq(Result)
  BY <1>2 DEF CanvasState, AtMost1
<1>5. /\ stroke \in Stroke /\ stroke.cell = cell /\ stroke.active
      /\ stroke.awaiting = b.stroke.awaiting
  BY <1>4, StrokeBegun
<1> HIDE DEF stroke
<1>6. /\ p \in CanvasState /\ p.stroke = stroke /\ p.image = b.image /\ p.held = <<>>
      /\ p.want = b.want /\ p.epoch = b.epoch /\ p.snap = b.snap /\ p.job = b.job
      /\ p.posted = b.posted /\ Rest(b, p)
  BY <1>2, <1>4, <1>5 DEF CanvasState, Rest
<1> HIDE DEF p
<1>7. q = [p EXCEPT !.image = image]
  BY <1>3, <1>5, <1>6 DEF Stamp
<1>8. /\ image \in [Cells -> Image] /\ image[cell].ink
      /\ \A c \in Cells : image[c].ver = b.image[c].ver
  BY <1>4 DEF Image
<1> HIDE DEF image, q
<1>9. /\ q \in CanvasState /\ q.stroke = stroke /\ q.image = image /\ q.held = <<>>
      /\ q.want = b.want /\ q.epoch = b.epoch /\ q.snap = b.snap /\ q.job = b.job
      /\ q.posted = b.posted /\ Rest(b, q)
  BY <1>6, <1>7, <1>8 DEF CanvasState, Rest
<1>10. NotAhead(q) /\ Later(r, q)
  <2>1. ASSUME NEW c \in Cells
        PROVE  q.image[c].ver <= q.want[c] /\ q.image[c].ver >= r.image[c].ver
    <3>1. q.image[c].ver = b.image[c].ver /\ q.want[c] = b.want[c]
      BY <1>8, <1>9
    <3>2. b.image[c].ver <= b.want[c] /\ b.image[c].ver >= r.image[c].ver
      BY <1>1, <1>2 DEF GoodStep, Later, CanvasOK, Base, NotAhead
    <3> QED
      BY <3>1, <3>2
  <2> QED
    BY <2>1 DEF NotAhead, Later
<1>11. InkKept(q)
  BY <1>5, <1>8, <1>9 DEF InkKept
<1>12. EpochsOK(q) /\ Current(q)
  <2>1. /\ q.job # <<>> => q.job[1].epoch \in Nat
        /\ \A i \in DOMAIN q.posted : q.posted[i].epoch \in Nat
    <3>1. \A i \in DOMAIN q.posted : q.posted[i] \in Result
      BY <1>4, <1>9
    <3> QED
      BY <1>4, <1>9, <3>1, OneFacts DEF Result
  <2> QED
    BY <1>1, <1>4, <1>9, <2>1 DEF EpochsOK, Current, Shows
<1>13. Rest(r, q)
  BY <1>1, <1>9 DEF Rest, GoodStep, Kept
<1>14. q.stroke.awaiting = r.stroke.awaiting
  BY <1>1, <1>5, <1>9 DEF GoodStep, Kept
<1> QED
  BY <1>9, <1>10, <1>11, <1>12, <1>13, <1>14 DEF StrokeStep, CanvasOK, Base, q

LEMMA AppendPointOK ==
  ASSUME NEW r, CanvasOK(r), r.stroke.active
  PROVE  LET q == AppendPoint(r)
         IN  StrokeStep(r, q) /\ q.stroke.awaiting = r.stroke.awaiting
<1> DEFINE stroke == [r.stroke EXCEPT !.samples = 2]
           p == [r EXCEPT !.stroke = stroke]
           image == [r.image EXCEPT ![r.stroke.cell] = [@ EXCEPT !.ink = TRUE]]
           q == AppendPoint(r)
<1>1. /\ r \in CanvasState /\ r.image \in [Cells -> Image] /\ r.stroke \in Stroke
      /\ r.stroke.cell \in Cells
  BY DEF CanvasOK, Base, CanvasState, Stroke
<1>2. /\ stroke \in Stroke /\ stroke.cell = r.stroke.cell
      /\ stroke.awaiting = r.stroke.awaiting
  BY <1>1 DEF Stroke
<1>3. q = Stamp(p)
  BY <1>1 DEF AppendPoint, CanvasState, Stroke
<1> HIDE DEF stroke
<1>4. /\ p \in CanvasState /\ p.stroke = stroke /\ p.image = r.image /\ p.want = r.want
      /\ p.epoch = r.epoch /\ p.snap = r.snap /\ p.job = r.job /\ p.held = r.held
      /\ p.posted = r.posted /\ Rest(r, p)
  BY <1>1, <1>2 DEF CanvasState, Rest
<1> HIDE DEF p
<1>5. q = [p EXCEPT !.image = image]
  BY <1>2, <1>3, <1>4 DEF Stamp
<1>6. /\ image \in [Cells -> Image] /\ image[r.stroke.cell].ink
      /\ \A c \in Cells : image[c].ver = r.image[c].ver
  BY <1>1 DEF Image
<1> HIDE DEF image, q
<1>7. /\ q \in CanvasState /\ q.stroke = stroke /\ q.image = image /\ q.want = r.want
      /\ q.epoch = r.epoch /\ q.snap = r.snap /\ q.job = r.job /\ q.held = r.held
      /\ q.posted = r.posted /\ Rest(r, q)
  BY <1>4, <1>5, <1>6 DEF CanvasState, Rest
<1>8. NotAhead(q) /\ Later(r, q)
  <2>1. ASSUME NEW c \in Cells
        PROVE  q.image[c].ver <= q.want[c] /\ q.image[c].ver >= r.image[c].ver
    <3>1. q.image[c].ver = r.image[c].ver /\ q.want[c] = r.want[c] /\ r.image[c].ver \in Nat
      BY <1>1, <1>6, <1>7 DEF Image
    <3>2. r.image[c].ver <= r.want[c]
      BY DEF CanvasOK, Base, NotAhead
    <3> QED
      BY <3>1, <3>2
  <2> QED
    BY <2>1 DEF NotAhead, Later
<1>9. InkKept(q)
  BY <1>2, <1>6, <1>7 DEF InkKept
<1>10. CanvasOK(q)
  BY <1>7, <1>8, <1>9, NoCurrentOK
<1> QED
  BY <1>2, <1>7, <1>8, <1>10 DEF StrokeStep, q

Ended(r, q) == StrokeStep(r, q) /\ ~q.stroke.active /\ q.stroke.awaiting = r.stroke.awaiting

LEMMA EndedThenGood ==
  ASSUME NEW r, CanvasOK(r), NEW p, Ended(r, p), NEW q, GoodStep(p, q)
  PROVE  Ended(r, q)
<1>1. r \in CanvasState /\ p \in CanvasState /\ q \in CanvasState
  BY DEF Ended, StrokeStep, GoodStep, CanvasOK, Base
<1>2. Later(r, q)
  <2>1. ASSUME NEW c \in Cells PROVE q.image[c].ver >= r.image[c].ver
    <3>1. r.image[c].ver \in Nat /\ p.image[c].ver \in Nat /\ q.image[c].ver \in Nat
      BY <1>1 DEF CanvasState, Image
    <3> QED
      BY <3>1 DEF Ended, StrokeStep, GoodStep, Later
  <2> QED
    BY <2>1 DEF Later
<1> QED
  BY <1>2 DEF Ended, StrokeStep, GoodStep, Kept, Rest

\* The stroke is over: its cell shows the ingested ink if it showed all else.
LEMMA StrokeUpOK ==
  ASSUME NEW r, CanvasOK(r), r.stroke.active, NEW p \in {r, Ingest(r)}
  PROVE  Ended(r, [p EXCEPT !.stroke.active = FALSE])
<1> DEFINE cell == r.stroke.cell
           stroke == [r.stroke EXCEPT !.active = FALSE]
           want == [r.want EXCEPT ![cell] = @ + 1]
           ver == r.image[cell].ver
           shown == IF ver = r.want[cell] /\ r.image[cell].ink THEN ver + 1 ELSE ver
           spot == [r.image[cell] EXCEPT !.ver = shown, !.ink = FALSE]
           image == [r.image EXCEPT ![cell] = spot]
           q == [p EXCEPT !.stroke.active = FALSE]
<1>1. /\ r \in CanvasState /\ r.image \in [Cells -> Image] /\ r.stroke \in Stroke
      /\ cell \in Cells /\ r.want \in Trees /\ r.image[cell] \in Image
  BY DEF CanvasOK, Base, CanvasState, Stroke
<1>2. /\ stroke \in Stroke /\ ~stroke.active /\ stroke.awaiting = r.stroke.awaiting
  BY <1>1 DEF Stroke
<1>3. CASE p = r
  <2>1. q = [r EXCEPT !.stroke = stroke]
    BY <1>1, <1>3 DEF CanvasState
  <2> HIDE DEF stroke, q
  <2>2. /\ q \in CanvasState /\ q.stroke = stroke /\ q.image = r.image /\ q.want = r.want
        /\ q.epoch = r.epoch /\ q.snap = r.snap /\ q.job = r.job /\ q.held = r.held
        /\ q.posted = r.posted /\ Rest(r, q)
    BY <1>1, <1>2, <2>1 DEF CanvasState, Rest
  <2>3. NotAhead(q) /\ Later(r, q) /\ InkKept(q)
    BY <1>1, <1>2, <2>2 DEF CanvasOK, Base, NotAhead, Later, InkKept, Image
  <2>4. CanvasOK(q)
    BY <2>2, <2>3, NoCurrentOK
  <2> QED
    BY <1>2, <2>2, <2>3, <2>4 DEF Ended, StrokeStep, q
<1>4. CASE p = Ingest(r)
  <2>1. p = [r EXCEPT !.want = want, !.image = image]
    BY <1>1, <1>4 DEF Ingest, CanvasState
  <2>2. /\ spot \in Image /\ r.image[cell].ver <= spot.ver
        /\ spot.ver <= r.want[cell] + 1 /\ r.want[cell] \in Nat
    <3>1. /\ r.image[cell].ver \in Nat /\ r.want[cell] \in Nat
          /\ r.image[cell].ver <= r.want[cell]
      BY <1>1 DEF CanvasOK, Base, NotAhead, Trees, Image
    <3>2. shown \in Nat /\ shown >= ver /\ shown <= r.want[cell] + 1
      BY <3>1
    <3> HIDE DEF shown
    <3> QED
      BY <1>1, <3>1, <3>2 DEF Image
  <2>3. /\ want \in Trees /\ want[cell] = r.want[cell] + 1
        /\ \A c \in Cells \ {cell} : want[c] = r.want[c]
    BY SMTT(60), <1>1, <2>2 DEF Trees
  <2> HIDE DEF spot
  <2>4. /\ image \in [Cells -> Image] /\ image[cell] = spot
        /\ \A c \in Cells \ {cell} : image[c] = r.image[c]
    BY <1>1, <2>2
  <2> HIDE DEF want, image, stroke
  <2>5. /\ p \in CanvasState /\ p.stroke = r.stroke /\ p.image = image /\ p.want = want
        /\ p.epoch = r.epoch /\ p.snap = r.snap /\ p.job = r.job /\ p.held = r.held
        /\ p.posted = r.posted /\ Rest(r, p)
    BY <1>1, <2>1, <2>3, <2>4 DEF CanvasState, Rest
  <2>6. q = [p EXCEPT !.stroke = stroke]
    BY <2>5 DEF CanvasState, stroke
  <2> HIDE DEF q
  <2>7. /\ q \in CanvasState /\ q.stroke = stroke /\ q.image = image /\ q.want = want
        /\ q.epoch = r.epoch /\ q.snap = r.snap /\ q.job = r.job /\ q.held = r.held
        /\ q.posted = r.posted /\ Rest(r, q)
    BY <1>2, <2>5, <2>6 DEF CanvasState, Rest
  <2>8. NotAhead(q) /\ Later(r, q)
    <3>1. ASSUME NEW c \in Cells
          PROVE  q.image[c].ver <= q.want[c] /\ q.image[c].ver >= r.image[c].ver
      <4>1. r.image[c].ver \in Nat /\ r.image[c].ver <= r.want[c]
        BY <1>1 DEF CanvasOK, Base, NotAhead, Image
      <4>2. CASE c = cell
        BY <2>2, <2>3, <2>4, <2>7, <4>2
      <4>3. CASE c # cell
        <5>1. q.image[c] = r.image[c] /\ q.want[c] = r.want[c]
          BY <2>3, <2>4, <2>7, <4>3
        <5> QED
          BY <4>1, <5>1
      <4> QED
        BY <4>2, <4>3
    <3> QED
      BY <3>1 DEF NotAhead, Later
  <2>9. InkKept(q)
    BY <1>2, <2>7 DEF InkKept
  <2>10. CanvasOK(q)
    BY <2>7, <2>8, <2>9, NoCurrentOK
  <2> QED
    BY <1>2, <2>7, <2>8, <2>10 DEF Ended, StrokeStep, q
<1> QED
  BY <1>3, <1>4

LEMMA EndStrokeOK ==
  ASSUME NEW r, CanvasOK(r), r.stroke.active, NEW outcome
  PROVE  Ended(r, EndStroke(r, outcome))
<1> DEFINE kept == r.stroke.samples = 2
           up == [IF kept THEN Ingest(r) ELSE r EXCEPT !.stroke.active = FALSE]
           plain == [up EXCEPT !.pending = FALSE, !.deferredSharp = FALSE]
           settled == IF kept /\ outcome = "stayInk" THEN plain ELSE up
           quiet == [up EXCEPT !.pending = FALSE, !.deferredSharp = FALSE, !.dirty = {},
                               !.why = "Enclose"]
           shown == RasterizeVectors(quiet, {r.stroke.cell})
           unheld == [settled EXCEPT !.held = <<>>]
           owed == [settled EXCEPT !.pending = TRUE]
           applied == ApplyCameraSharp(unheld, settled.held[1])
<1>1. EndStroke(r, outcome) =
        IF kept /\ outcome = "enclose"
        THEN IF shown.needsSharp THEN Submit(shown) ELSE shown
        ELSE IF settled.held # <<>>
        THEN IF settled.held[1].epoch = r.epoch THEN applied
             ELSE IF unheld.needsSharp THEN Submit(unheld) ELSE unheld
        ELSE IF settled.needsSharp THEN Submit(settled)
        ELSE IF settled.deferredSharp \/ settled.pending THEN ArmTimer(owed) ELSE settled
  BY DEF EndStroke
<1>2. Ended(r, up) /\ up.epoch = r.epoch
  <2>1. CASE kept
    <3>1. Ingest(r).epoch = r.epoch /\ up.epoch = Ingest(r).epoch
      BY <2>1 DEF Ingest, CanvasOK, Base, CanvasState
    <3> QED
      BY <2>1, <3>1, StrokeUpOK
  <2>2. CASE ~kept
    <3>1. up.epoch = r.epoch
      BY <2>2 DEF CanvasOK, Base, CanvasState
    <3> QED
      BY <2>2, <3>1, StrokeUpOK
  <2> QED
    BY <2>1, <2>2
<1> HIDE DEF up, kept
<1>3. CanvasOK(up) /\ up \in CanvasState /\ ~up.stroke.active
  BY <1>2 DEF Ended, StrokeStep, CanvasOK, Base
<1>4. GoodStep(up, quiet) /\ GoodStep(up, plain) /\ plain.epoch = up.epoch
  <2>1. Flags(up, quiet) /\ Flags(up, plain) /\ plain.epoch = up.epoch
    BY <1>3 DEF Flags, CanvasState, SameKnown
  <2> QED
    BY <1>3, <2>1, FlagsOK
<1>5. /\ GoodStep(up, settled) /\ CanvasOK(settled) /\ ~settled.stroke.active
      /\ settled.epoch = r.epoch
  BY <1>2, <1>3, <1>4, GoodStepRefl DEF GoodStep, Kept
<1> HIDE DEF quiet, plain, settled
<1>6. GoodStep(settled, owed)
  <2>1. Flags(settled, owed)
    BY <1>5 DEF Flags, CanvasState, SameKnown, CanvasOK, Base
  <2> QED
    BY <1>5, <2>1, FlagsOK
<1>7. GoodStep(settled, unheld)
  BY <1>5, UnheldOK
<1>8. GoodStep(up, shown) /\ GoodStep(up, Submit(shown))
  <2>1. ~quiet.stroke.active /\ CanvasOK(quiet)
    BY <1>3, <1>4 DEF GoodStep, Kept
  <2>2. GoodStep(quiet, shown)
    BY <2>1, RasterizeOK
  <2> HIDE DEF shown
  <2>3. GoodStep(shown, Submit(shown))
    BY <2>2, SubmitOK DEF GoodStep
  <2> QED
    BY <1>3, <1>4, <2>2, <2>3, GoodThenGood
<1>9. settled.held # <<>> /\ settled.held[1].epoch = r.epoch => GoodStep(settled, applied)
  BY <1>5, ApplyHeldOK
<1> HIDE DEF shown, unheld, owed, applied
<1>10. /\ GoodStep(settled, Submit(unheld)) /\ GoodStep(settled, ArmTimer(owed))
       /\ GoodStep(settled, Submit(settled))
  <2>1. GoodStep(unheld, Submit(unheld)) /\ GoodStep(owed, ArmTimer(owed))
    BY <1>6, <1>7, SubmitOK, ArmTimerOK DEF GoodStep
  <2> QED
    BY <1>5, <1>6, <1>7, <2>1, SubmitOK, GoodThenGood
<1>11. \/ GoodStep(up, EndStroke(r, outcome))
       \/ GoodStep(settled, EndStroke(r, outcome))
  BY <1>1, <1>5, <1>7, <1>8, <1>9, <1>10
<1>12. GoodStep(up, EndStroke(r, outcome))
  BY <1>3, <1>5, <1>11, GoodThenGood
<1> QED
  BY <1>2, <1>12, EndedThenGood

-----------------------------------------------------------------------------
(* The samples of a pointer *)

\* A sample that waits for the first good one does not draw.
Waits(r) == ~(r.stroke.awaiting /\ r.stroke.active)

LEMMA AwaitOK ==
  ASSUME NEW r, CanvasOK(r), NEW w \in BOOLEAN
  PROVE  LET q == [r EXCEPT !.stroke.awaiting = w]
         IN  StrokeStep(r, q) /\ q.stroke.active = r.stroke.active /\ q.stroke.awaiting = w
<1> DEFINE stroke == [r.stroke EXCEPT !.awaiting = w]
           q == [r EXCEPT !.stroke.awaiting = w]
<1>1. r \in CanvasState /\ r.stroke \in Stroke
  BY DEF CanvasOK, Base, CanvasState
<1>2. /\ stroke \in Stroke /\ stroke.active = r.stroke.active /\ stroke.cell = r.stroke.cell
      /\ stroke.awaiting = w
  BY <1>1 DEF Stroke
<1>3. q = [r EXCEPT !.stroke = stroke]
  BY <1>1 DEF CanvasState
<1> HIDE DEF stroke, q
<1>4. /\ q \in CanvasState /\ q.stroke = stroke /\ q.image = r.image /\ q.want = r.want
      /\ q.epoch = r.epoch /\ q.snap = r.snap /\ q.job = r.job /\ q.held = r.held
      /\ q.posted = r.posted /\ Rest(r, q)
  BY <1>1, <1>2, <1>3 DEF CanvasState, Rest
<1>5. NotAhead(q) /\ InkKept(q) /\ EpochsOK(q) /\ Current(q)
  BY <1>2, <1>4 DEF CanvasOK, Base, NotAhead, InkKept, EpochsOK, Current, Shows
<1>6. Later(r, q)
  BY <1>1, <1>4 DEF Later, CanvasState, Image
<1> QED
  BY <1>2, <1>4, <1>5, <1>6 DEF StrokeStep, CanvasOK, Base, q

LEMMA StrokeStepsCompose ==
  ASSUME NEW r, CanvasOK(r), NEW p, StrokeStep(r, p), NEW q, StrokeStep(p, q)
  PROVE  StrokeStep(r, q)
<1>1. r \in CanvasState /\ p \in CanvasState /\ q \in CanvasState
  BY DEF StrokeStep, CanvasOK, Base
<1>2. Later(r, q)
  <2>1. ASSUME NEW c \in Cells PROVE q.image[c].ver >= r.image[c].ver
    <3>1. r.image[c].ver \in Nat /\ p.image[c].ver \in Nat /\ q.image[c].ver \in Nat
      BY <1>1 DEF CanvasState, Image
    <3> QED
      BY <3>1 DEF StrokeStep, Later
  <2> QED
    BY <2>1 DEF Later
<1> QED
  BY <1>2 DEF StrokeStep, Rest

LEMMA StrokeStepRefl ==
  ASSUME NEW r, CanvasOK(r)
  PROVE  StrokeStep(r, r)
  BY GoodStepRefl DEF StrokeStep, Rest, GoodStep

LEMMA IngestPressOK ==
  ASSUME NEW r, CanvasOK(r), NEW cell \in Cells, NEW stale \in BOOLEAN, NEW tool
  PROVE  LET q == IngestPress(r, cell, stale, tool)
         IN  StrokeStep(r, q) /\ (~r.stroke.active \/ ~stale => Waits(q))
<1> DEFINE p == [r EXCEPT !.stroke.awaiting = stale]
           q == IngestPress(r, cell, stale, tool)
<1>1. StrokeStep(r, p) /\ p.stroke.active = r.stroke.active /\ p.stroke.awaiting = stale
  BY AwaitOK
<1>2. q = IF stale \/ tool # "pen" THEN p ELSE BeginStroke(p, cell)
  BY DEF IngestPress
<1> HIDE DEF p
<1>3. /\ StrokeStep(p, BeginStroke(p, cell))
      /\ BeginStroke(p, cell).stroke.awaiting = p.stroke.awaiting
  BY <1>1, BeginStrokeOK DEF StrokeStep
<1>4. StrokeStep(r, BeginStroke(p, cell))
  BY <1>1, <1>3, StrokeStepsCompose
<1> QED
  BY <1>1, <1>2, <1>3, <1>4 DEF Waits

LEMMA IngestMoveOK ==
  ASSUME NEW r, CanvasOK(r), NEW cell \in Cells, NEW stale \in BOOLEAN, NEW tool
  PROVE  LET q == IngestMove(r, cell, stale, tool)
         IN  StrokeStep(r, q) /\ (Waits(r) => Waits(q))
<1>1. CASE ~stale /\ r.stroke.awaiting
  BY <1>1, IngestPressOK DEF IngestMove
<1>2. CASE ~stale /\ ~r.stroke.awaiting /\ r.stroke.active
  BY <1>2, AppendPointOK DEF IngestMove, Waits
<1>3. CASE stale \/ (~r.stroke.awaiting /\ ~r.stroke.active)
  BY <1>3, StrokeStepRefl DEF IngestMove
<1> QED
  BY <1>1, <1>2, <1>3

LEMMA IngestReleaseOK ==
  ASSUME NEW r, CanvasOK(r), NEW outcome
  PROVE  LET q == IngestRelease(r, outcome)
         IN  StrokeStep(r, q) /\ (Waits(r) => ~q.stroke.active)
<1>1. CASE r.stroke.awaiting
  BY <1>1, AwaitOK DEF IngestRelease, Waits
<1>2. CASE ~r.stroke.awaiting /\ r.stroke.active
  BY <1>2, EndStrokeOK DEF IngestRelease, Ended
<1>3. CASE ~r.stroke.awaiting /\ ~r.stroke.active
  BY <1>3, StrokeStepRefl DEF IngestRelease
<1> QED
  BY <1>1, <1>2, <1>3

LEMMA CancelStrokeOK ==
  ASSUME NEW r, CanvasOK(r), NEW outcome
  PROVE  LET q == CancelActiveStroke(r, outcome)
         IN  StrokeStep(r, q) /\ ~q.stroke.active
<1>1. CASE r.stroke.active
  BY <1>1, EndStrokeOK DEF CancelActiveStroke, Ended
<1>2. CASE ~r.stroke.active
  BY <1>2, StrokeStepRefl DEF CancelActiveStroke
<1> QED
  BY <1>1, <1>2

LEMMA InitialCanvasOK == CanvasOK(InitialCanvas) /\ ~InitialCanvas.stroke.active
<1> DEFINE cell == CHOOSE c \in Cells : TRUE
           stroke == [active |-> FALSE, cell |-> cell, samples |-> 0, awaiting |-> FALSE]
           r == InitialCanvas
<1>1. cell \in Cells /\ Home \in Cams
  BY CamerasAssumption
<1> HIDE DEF cell
<1>2. stroke \in Stroke /\ ~stroke.active
  BY <1>1 DEF Stroke
<1>3. /\ r.want = [c \in Cells |-> 0] /\ r.image = [c \in Cells |-> Fresh(0, Home)]
      /\ r.stroke = stroke /\ r.snap = <<>> /\ r.held = <<>> /\ r.job = <<>>
      /\ r.posted = <<>>
  BY DEF InitialCanvas, cell
<1>4. r \in CanvasState
  <2>1. /\ r.want \in Trees /\ r.image \in [Cells -> Image]
        /\ <<>> \in AtMost1(Trees) /\ <<>> \in AtMost1(Result) /\ <<>> \in Seq(Result)
    BY <1>1, <1>3 DEF Trees, Image, Fresh, AtMost1
  <2> QED
    BY <1>1, <1>2, <2>1 DEF InitialCanvas, CanvasState, cell
<1>5. NotAhead(r)
  <2>1. ASSUME NEW c \in Cells PROVE r.image[c].ver <= r.want[c]
    <3>1. r.image[c].ver = 0 /\ r.want[c] = 0
      BY <1>3 DEF Fresh
    <3> HIDE DEF r
    <3> QED
      BY <3>1
  <2> QED
    BY <2>1 DEF NotAhead
<1> QED
  BY <1>2, <1>3, <1>4, <1>5 DEF CanvasOK, Base, InkKept, EpochsOK, Current

-----------------------------------------------------------------------------
(* The camera *)

Turned(r, q) ==
    /\ CanvasOK(q) /\ Later(r, q)
    /\ q.stroke = r.stroke /\ q.erase = r.erase /\ q.busy = r.busy

LEMMA TurnOK ==
  ASSUME NEW r, CanvasOK(r), NEW cam \in Cams
  PROVE  Turned(r, [r EXCEPT !.cam = cam])
<1> DEFINE q == [r EXCEPT !.cam = cam]
<1>1. r \in CanvasState
  BY DEF CanvasOK, Base
<1>2. /\ q \in CanvasState /\ q.image = r.image /\ SameKnown(r, q)
      /\ q.erase = r.erase /\ q.busy = r.busy
  BY <1>1 DEF CanvasState, SameKnown
<1> HIDE DEF q
<1> QED
  BY <1>2, SameImageOK DEF CanvasOK, Turned, SameKnown, q

LEMMA TurnedThenGood ==
  ASSUME NEW r, CanvasOK(r), NEW p, Turned(r, p), NEW q, GoodStep(p, q)
  PROVE  Turned(r, q)
<1>1. r \in CanvasState /\ p \in CanvasState /\ q \in CanvasState
  BY DEF Turned, GoodStep, CanvasOK, Base
<1>2. Later(r, q)
  <2>1. ASSUME NEW c \in Cells PROVE q.image[c].ver >= r.image[c].ver
    <3>1. r.image[c].ver \in Nat /\ p.image[c].ver \in Nat /\ q.image[c].ver \in Nat
      BY <1>1 DEF CanvasState, Image
    <3> QED
      BY <3>1 DEF Turned, GoodStep, Later
  <2> QED
    BY <2>1 DEF Later
<1> QED
  BY <1>2 DEF Turned, GoodStep, Kept

LEMMA NavOK ==
  ASSUME NEW r, CanvasOK(r), NEW cam \in Cams
  PROVE  LET moved == CameraChanged([r EXCEPT !.cam = cam])
         IN  Turned(r, moved) /\ Turned(r, ScheduleDocument(moved, TRUE))
<1> DEFINE p == [r EXCEPT !.cam = cam]
           moved == CameraChanged(p)
<1>1. Turned(r, p)
  BY TurnOK
<1> HIDE DEF p
<1>2. GoodStep(p, moved)
  BY <1>1, CameraChangedOK DEF Turned
<1> HIDE DEF moved
<1>3. GoodStep(moved, ScheduleDocument(moved, TRUE))
  BY <1>2, ScheduleDocumentOK DEF GoodStep
<1>4. GoodStep(p, ScheduleDocument(moved, TRUE))
  BY <1>1, <1>2, <1>3, GoodThenGood DEF Turned
<1> QED
  BY <1>1, <1>2, <1>4, TurnedThenGood DEF p, moved

-----------------------------------------------------------------------------
(***************************************************************************)
(* TabletInput.  First a lemma for each operator of ToolHost, then one for *)
(* each action.                                                            *)
(*                                                                         *)
(* The types, the ink under a stroke and the age of the picture do not     *)
(* depend on who holds the router and are proved for any Racing; what is   *)
(* said of the hand needs that the pen is heard of before it touches.      *)
(***************************************************************************)

Locks == {"none", "ink", "move", "resize", "lasso", "nav", "erase"}
Ops == Locks \ {"none"}
Pointers == [on : {"empty", "box", "knob"}, cell : Cells, cam : Cams, hit : BOOLEAN,
             outcome : Outcomes, stale : BOOLEAN, box : SUBSET Cells]

HostState == [
    exclusive : Tools, lastUsedEraser : Erasers,
    nibRestore : AtMost1(Tools), nibArmed : BOOLEAN,
    lock : Locks, travelDeferred : BOOLEAN, armed : BOOLEAN, lockedUntilLift : BOOLEAN,
    pan : {"None", "Pending", "Active"}, pinching : BOOLEAN, clearedOnTap : BOOLEAN,
    selected : BOOLEAN, phase : {"Idle", "Selected", "Selecting", "Transforming"},
    live : {"none", "move", "resize"}, moveMutated : BOOLEAN,
    canvas : CanvasState]

\* Whoever holds the router.
HostOK(s) ==
    /\ s \in HostState /\ CanvasOK(s.canvas)
    /\ s.nibArmed <=> s.nibRestore # <<>>

\* What is begun is held by the lock.
InHand(s) ==
    /\ s.pinching => s.lock = "nav"
    /\ s.travelDeferred => /\ s.lock # "none" /\ s.live = "none" /\ ~s.pinching
                           /\ ~s.canvas.stroke.active /\ s.phase # "Selecting"
    /\ Waits(s.canvas)
    /\ s.canvas.stroke.active => s.lock = "ink"
    /\ s.live # "none" => s.lock = s.live
    /\ s.phase = "Transforming" => s.live # "none"
    /\ s.phase = "Selecting" => s.lock = "lasso"

\* Nothing is.
Done(s) ==
    /\ ~s.pinching /\ ~s.travelDeferred /\ ~s.canvas.stroke.active /\ s.live = "none"
    /\ s.phase \notin {"Transforming", "Selecting"}

HostStep(s, t) == HostOK(t) /\ Later(s.canvas, t.canvas)
SameFlags(s, t) ==
    /\ t.canvas.erase = s.canvas.erase /\ t.canvas.busy = s.canvas.busy
    /\ t.nibArmed = s.nibArmed
SameLock(s, t) == t.lock = s.lock /\ t.travelDeferred = s.travelDeferred

-----------------------------------------------------------------------------
LEMMA HostFacts ==
  ASSUME NEW s, HostOK(s)
  PROVE  /\ s \in HostState /\ s.canvas \in CanvasState /\ CanvasOK(s.canvas)
         /\ s.exclusive \in Tools /\ s.lastUsedEraser \in Erasers /\ s.canvas.cam \in Cams
  BY DEF HostOK, HostState, CanvasState

LEMMA HostStepsCompose ==
  ASSUME NEW s, HostOK(s), NEW p, HostStep(s, p), NEW t, HostStep(p, t)
  PROVE  HostStep(s, t)
<1>1. s.canvas \in CanvasState /\ p.canvas \in CanvasState /\ t.canvas \in CanvasState
  BY HostFacts DEF HostStep
<1>2. ASSUME NEW c \in Cells PROVE t.canvas.image[c].ver >= s.canvas.image[c].ver
  <2>1. /\ s.canvas.image[c].ver \in Nat /\ p.canvas.image[c].ver \in Nat
        /\ t.canvas.image[c].ver \in Nat
    BY <1>1 DEF CanvasState, Image
  <2> QED
    BY <2>1 DEF HostStep, Later
<1> QED
  BY <1>2 DEF HostStep, Later

LEMMA HostStepRefl ==
  ASSUME NEW s, HostOK(s)
  PROVE  HostStep(s, s)
  BY GoodStepRefl, HostFacts DEF HostStep, GoodStep

\* An unlocked router with all in hand has nothing begun, and the reverse.
LEMMA DoneInHand ==
  ASSUME NEW s, HostOK(s)
  PROVE  /\ InHand(s) /\ s.lock = "none" => Done(s)
         /\ Done(s) => InHand(s)
  BY DEF HostOK, HostState, InHand, Done, Waits

\* A host with another canvas.
LEMMA CanvasStepOK ==
  ASSUME NEW s, HostOK(s), NEW q, CanvasOK(q), Later(s.canvas, q)
  PROVE  LET t == [s EXCEPT !.canvas = q]
         IN  /\ HostStep(s, t) /\ t.canvas = q
             /\ SameLock(s, t) /\ t.nibArmed = s.nibArmed
             /\ q.stroke = s.canvas.stroke =>
                   (InHand(s) => InHand(t)) /\ (Done(s) => Done(t))
<1> DEFINE t == [s EXCEPT !.canvas = q]
<1>1. s \in HostState /\ q \in CanvasState
  BY DEF HostOK, CanvasOK, Base
<1>2. /\ t \in HostState /\ t.canvas = q /\ SameLock(s, t) /\ t.nibArmed = s.nibArmed
      /\ t.nibRestore = s.nibRestore /\ t.pinching = s.pinching /\ t.live = s.live
      /\ t.phase = s.phase
  BY <1>1 DEF HostState, SameLock
<1> HIDE DEF t
<1>3. HostStep(s, t)
  BY <1>2 DEF HostOK, HostStep
<1>4. q.stroke = s.canvas.stroke =>
        (InHand(s) => InHand(t)) /\ (Done(s) => Done(t))
  BY <1>2 DEF InHand, Done, Waits, SameLock
<1> QED
  BY <1>2, <1>3, <1>4 DEF t

\* A host with other fields, but these.
LEMMA SameCanvasOK ==
  ASSUME NEW s, HostOK(s), NEW t \in HostState, t.canvas = s.canvas,
         t.nibArmed <=> t.nibRestore # <<>>
  PROVE  HostStep(s, t)
<1>1. Later(s.canvas, s.canvas)
  BY HostStepRefl DEF HostStep
<1> QED
  BY <1>1 DEF HostStep, HostOK

-----------------------------------------------------------------------------
(* The tool chip *)

LEMMA SetExclusiveOK ==
  ASSUME NEW s, HostOK(s), NEW tool \in Tools
  PROVE  LET t == SetExclusive(s, tool)
         IN  /\ HostStep(s, t) /\ SameFlags(s, t) /\ SameLock(s, t)
             /\ (InHand(s) => InHand(t)) /\ (Done(s) => Done(t))
<1> DEFINE t == SetExclusive(s, tool)
<1>1. s \in HostState
  BY HostFacts
<1>2. /\ t \in HostState /\ t.canvas = s.canvas /\ SameLock(s, t) /\ t.nibArmed = s.nibArmed
      /\ t.nibRestore = s.nibRestore /\ t.pinching = s.pinching /\ t.live = s.live
      /\ t.phase = s.phase
  BY <1>1 DEF SetExclusive, HostState, SameLock, Tools, Erasers
<1> HIDE DEF t
<1>3. HostStep(s, t)
  BY <1>2, SameCanvasOK DEF HostOK
<1>4. SameFlags(s, t) /\ (InHand(s) => InHand(t)) /\ (Done(s) => Done(t))
  BY <1>2 DEF InHand, Done, SameLock, SameFlags
<1> QED
  BY <1>2, <1>3, <1>4 DEF t

LEMMA ToggleOK ==
  ASSUME NEW s, HostOK(s)
  PROVE  LET t == TogglePenEraser(s)
         IN  /\ HostStep(s, t) /\ SameFlags(s, t) /\ SameLock(s, t)
             /\ (InHand(s) => InHand(t)) /\ (Done(s) => Done(t))
<1>1. (IF s.exclusive \in Erasers THEN "pen" ELSE s.lastUsedEraser) \in Tools
  BY HostFacts DEF Tools, Erasers
<1> QED
  BY <1>1, SetExclusiveOK DEF TogglePenEraser

\* The nib's tool is put back and nothing else is.
LEMMA EndNibOK ==
  ASSUME NEW s, HostOK(s)
  PROVE  LET t == EndNibErase(s)
         IN  /\ HostStep(s, t) /\ t.canvas = s.canvas /\ SameLock(s, t) /\ ~t.nibArmed
             /\ (InHand(s) => InHand(t)) /\ (Done(s) => Done(t))
<1> DEFINE p == [s EXCEPT !.nibRestore = <<>>, !.nibArmed = FALSE]
           t == EndNibErase(s)
<1>1. s \in HostState /\ s.nibRestore \in AtMost1(Tools) /\ <<>> \in AtMost1(Tools)
  BY HostFacts DEF HostState, AtMost1
<1>2. CASE ~s.nibArmed
  <2>1. t = s
    BY <1>2 DEF EndNibErase
  <2> QED
    BY <1>2, <2>1, HostStepRefl DEF SameLock
<1>3. CASE s.nibArmed
  <2>1. s.nibRestore[1] \in Tools
    BY <1>1, <1>3, OneFacts DEF HostOK
  <2>2. t = SetExclusive(p, s.nibRestore[1])
    BY <1>3 DEF EndNibErase
  <2>3. /\ p \in HostState /\ p.canvas = s.canvas /\ SameLock(s, p) /\ ~p.nibArmed
        /\ p.nibRestore = <<>> /\ p.pinching = s.pinching /\ p.live = s.live
        /\ p.phase = s.phase
    BY <1>1 DEF HostState, SameLock
  <2> HIDE DEF p, t
  <2>4. HostStep(s, p)
    BY <2>3, SameCanvasOK
  <2>5. (InHand(s) => InHand(p)) /\ (Done(s) => Done(p))
    BY <2>3 DEF InHand, Done, SameLock
  <2>6. /\ HostStep(p, t) /\ SameFlags(p, t) /\ SameLock(p, t)
        /\ (InHand(p) => InHand(t)) /\ (Done(p) => Done(t))
    BY <2>1, <2>2, <2>4, SetExclusiveOK DEF HostStep
  <2>7. t.canvas = p.canvas
    BY <2>1, <2>2, <2>3 DEF SetExclusive, HostState
  <2>8. HostStep(s, t)
    BY <2>4, <2>6, HostStepsCompose
  <2> QED
    BY <2>3, <2>5, <2>6, <2>7, <2>8 DEF SameFlags, SameLock, t
<1> QED
  BY <1>2, <1>3

LEMMA BeginNibOK ==
  ASSUME NEW s, HostOK(s)
  PROVE  LET t == BeginNibErase(s)
         IN  /\ HostStep(s, t) /\ t.canvas = s.canvas /\ SameLock(s, t)
             /\ (InHand(s) => InHand(t)) /\ (Done(s) => Done(t))
<1> DEFINE p == [s EXCEPT !.nibRestore = <<s.exclusive>>, !.nibArmed = TRUE]
           t == BeginNibErase(s)
<1>1. s \in HostState /\ <<s.exclusive>> \in AtMost1(Tools)
  BY HostFacts DEF AtMost1
<1>2. CASE s.nibRestore # <<>>
  <2>1. t = s
    BY <1>2 DEF BeginNibErase
  <2> QED
    BY <2>1, HostStepRefl DEF SameLock
<1>3. CASE s.nibRestore = <<>>
  <2>1. t = SetExclusive(p, "erase_brush") /\ "erase_brush" \in Tools
    BY <1>3 DEF BeginNibErase, Tools
  <2>2. /\ p \in HostState /\ p.canvas = s.canvas /\ SameLock(s, p) /\ p.nibArmed
        /\ p.nibRestore # <<>> /\ p.pinching = s.pinching /\ p.live = s.live
        /\ p.phase = s.phase
    BY <1>1 DEF HostState, SameLock
  <2> HIDE DEF p, t
  <2>3. HostStep(s, p)
    BY <2>2, SameCanvasOK
  <2>4. (InHand(s) => InHand(p)) /\ (Done(s) => Done(p))
    BY <2>2 DEF InHand, Done, SameLock
  <2>5. /\ HostStep(p, t) /\ SameLock(p, t)
        /\ (InHand(p) => InHand(t)) /\ (Done(p) => Done(t))
    BY <2>1, <2>3, SetExclusiveOK DEF HostStep
  <2>6. t.canvas = p.canvas
    BY <2>1, <2>2 DEF SetExclusive, HostState
  <2>7. HostStep(s, t)
    BY <2>3, <2>5, HostStepsCompose
  <2> QED
    BY <2>2, <2>4, <2>5, <2>6, <2>7 DEF SameLock, t
<1> QED
  BY <1>2, <1>3

-----------------------------------------------------------------------------
(* The operations *)

\* What an operation fed a pointer leaves alone.
Fed(s, t) == HostStep(s, t) /\ SameFlags(s, t) /\ SameLock(s, t)
Harmless(s, t) == Fed(s, t) /\ (InHand(s) => InHand(t)) /\ (Done(s) => Done(t))

LEMMA FedCompose ==
  ASSUME NEW s, HostOK(s), NEW p, Fed(s, p), NEW t, Fed(p, t)
  PROVE  Fed(s, t)
  BY HostStepsCompose DEF Fed, SameFlags, SameLock

LEMMA HarmlessRefl ==
  ASSUME NEW s, HostOK(s)
  PROVE  Harmless(s, s)
  BY HostStepRefl DEF Harmless, Fed, SameFlags, SameLock

LEMMA TurnedHost ==
  ASSUME NEW s, HostOK(s), NEW q, Turned(s.canvas, q)
  PROVE  Harmless(s, [s EXCEPT !.canvas = q])
  BY CanvasStepOK DEF Turned, Harmless, Fed, SameFlags

LEMMA GoodHost ==
  ASSUME NEW s, HostOK(s), NEW q, GoodStep(s.canvas, q)
  PROVE  Harmless(s, [s EXCEPT !.canvas = q])
  BY TurnedHost DEF GoodStep, Kept, Turned

LEMMA StrokeHost ==
  ASSUME NEW s, HostOK(s), NEW q, StrokeStep(s.canvas, q)
  PROVE  LET t == [s EXCEPT !.canvas = q]
         IN  /\ Fed(s, t) /\ t.canvas = q /\ t.live = s.live /\ t.phase = s.phase
             /\ t.pinching = s.pinching
<1>1. Fed(s, [s EXCEPT !.canvas = q])
  BY CanvasStepOK DEF StrokeStep, Rest, Fed, SameFlags
<1> QED
  BY <1>1, HostFacts DEF HostState

\* Fields of the operations; not the canvas, the lock or the nib.
LEMMA FieldsOK ==
  ASSUME NEW s, HostOK(s), NEW t \in HostState, t.canvas = s.canvas, SameLock(s, t),
         t.nibArmed = s.nibArmed, t.nibRestore = s.nibRestore
  PROVE  Fed(s, t)
  BY SameCanvasOK DEF Fed, SameFlags, HostOK

LEMMA RedrawOK ==
  ASSUME NEW s, HostOK(s), NEW box \in SUBSET Cells
  PROVE  Harmless(s, Redraw(s, box))
<1>1. CanvasOK(s.canvas)
  BY HostFacts
<1>2. GoodStep(s.canvas, NoteDocument(Change(s.canvas, box), box))
  BY <1>1, NoteChangeOK
<1> QED
  BY <1>2, GoodHost DEF Redraw

LEMMA TransformBeginOK ==
  ASSUME NEW s, HostOK(s), NEW op \in {"move", "resize"}
  PROVE  LET t == TransformBegin(s, op)
         IN  /\ Fed(s, t)
             /\ InHand(s) /\ s.lock = op /\ ~s.travelDeferred => InHand(t)
<1> DEFINE p == [s EXCEPT !.selected = TRUE, !.phase = "Transforming", !.live = op,
                          !.moveMutated = op = "move"]
           t == TransformBegin(s, op)
<1>1. s \in HostState /\ {BoxCell} \in SUBSET Cells
  BY HostFacts, BoxAssumption
<1>2. /\ p \in HostState /\ p.canvas = s.canvas /\ SameLock(s, p) /\ p.nibArmed = s.nibArmed
      /\ p.nibRestore = s.nibRestore /\ p.live = op /\ p.phase = "Transforming"
      /\ p.pinching = s.pinching
  BY <1>1 DEF HostState, SameLock
<1>3. t = Redraw(p, {BoxCell})
  BY DEF TransformBegin
<1> HIDE DEF p, t
<1>4. Fed(s, p)
  BY <1>2, FieldsOK
<1>5. InHand(s) /\ s.lock = op /\ ~s.travelDeferred => InHand(p)
  BY <1>2 DEF InHand, SameLock
<1>6. Harmless(p, t)
  BY <1>1, <1>3, <1>4, RedrawOK DEF Fed, HostStep
<1> QED
  BY <1>4, <1>5, <1>6, FedCompose DEF Harmless, t

\* A live operation of this kind is over, and no other is touched.
Settled(s, t) == InHand(s) /\ ~s.travelDeferred => Done(t)

LEMMA RestPhaseOK ==
  ASSUME NEW s
  PROVE  RestPhase(s) \in {"Idle", "Selected"}
  BY DEF RestPhase

LEMMA TransformCommitOK ==
  ASSUME NEW s, HostOK(s), NEW op \in {"move", "resize"}, s.lock = op, NEW moved \in BOOLEAN
  PROVE  LET t == TransformCommit(s, op, moved) IN Fed(s, t) /\ Settled(s, t)
<1> DEFINE p == [s EXCEPT !.selected = TRUE, !.phase = "Selected", !.live = "none"]
           box == IF moved THEN Cells ELSE {BoxCell}
           t == TransformCommit(s, op, moved)
<1>1. s \in HostState /\ box \in SUBSET Cells
  BY HostFacts, BoxAssumption
<1>2. CASE s.live # op
  <2>1. t = s
    BY <1>2 DEF TransformCommit
  <2>2. InHand(s) /\ ~s.travelDeferred => Done(s)
    BY <1>1, <1>2 DEF InHand, Done, HostState
  <2> QED
    BY <2>1, <2>2, HarmlessRefl DEF Harmless, Settled
<1>3. CASE s.live = op
  <2>1. t = Redraw(p, box)
    BY <1>3 DEF TransformCommit
  <2>2. /\ p \in HostState /\ p.canvas = s.canvas /\ SameLock(s, p)
        /\ p.nibArmed = s.nibArmed /\ p.nibRestore = s.nibRestore
        /\ p.live = "none" /\ p.phase = "Selected" /\ p.pinching = s.pinching
    BY <1>1 DEF HostState, SameLock
  <2> HIDE DEF p, t
  <2>3. Fed(s, p)
    BY <2>2, FieldsOK
  <2>4. InHand(s) /\ ~s.travelDeferred => Done(p)
    BY <2>2 DEF InHand, Done, SameLock
  <2>5. Harmless(p, t)
    BY <1>1, <2>1, <2>3, RedrawOK DEF Fed, HostStep
  <2> QED
    BY <2>3, <2>4, <2>5, FedCompose DEF Harmless, Settled, t
<1> QED
  BY <1>2, <1>3

LEMMA TransformAbortOK ==
  ASSUME NEW s, HostOK(s), NEW op \in {"move", "resize"}, s.lock = op
  PROVE  LET t == TransformAbort(s, op) IN Fed(s, t) /\ Settled(s, t)
<1> DEFINE p == [s EXCEPT !.phase = RestPhase(s), !.live = "none"]
           u == [s EXCEPT !.phase = IF @ = "Transforming" THEN RestPhase(s) ELSE @]
           t == TransformAbort(s, op)
<1>1. s \in HostState /\ {BoxCell} \in SUBSET Cells /\ RestPhase(s) \in {"Idle", "Selected"}
  BY HostFacts, BoxAssumption, RestPhaseOK
<1>2. CASE s.live # op
  <2>1. t = u
    BY <1>2 DEF TransformAbort
  <2>2. /\ u \in HostState /\ u.canvas = s.canvas /\ SameLock(s, u)
        /\ u.nibArmed = s.nibArmed /\ u.nibRestore = s.nibRestore
        /\ u.live = s.live /\ u.pinching = s.pinching
        /\ u.phase = IF s.phase = "Transforming" THEN RestPhase(s) ELSE s.phase
    BY <1>1 DEF HostState, SameLock
  <2> HIDE DEF u, t
  <2>3. Fed(s, u)
    BY <2>2, FieldsOK
  <2>4. InHand(s) /\ ~s.travelDeferred => Done(u)
    BY <1>1, <1>2, <2>2 DEF InHand, Done, HostState, SameLock
  <2> QED
    BY <2>1, <2>3, <2>4 DEF Settled, t
<1>3. CASE s.live = op
  <2>1. t = Redraw(p, {BoxCell})
    BY <1>3 DEF TransformAbort
  <2>2. /\ p \in HostState /\ p.canvas = s.canvas /\ SameLock(s, p)
        /\ p.nibArmed = s.nibArmed /\ p.nibRestore = s.nibRestore
        /\ p.live = "none" /\ p.phase = RestPhase(s) /\ p.pinching = s.pinching
    BY <1>1 DEF HostState, SameLock
  <2> HIDE DEF p, t
  <2>3. Fed(s, p)
    BY <2>2, FieldsOK
  <2>4. InHand(s) /\ ~s.travelDeferred => Done(p)
    BY <1>1, <2>2 DEF InHand, Done, SameLock
  <2>5. Harmless(p, t)
    BY <1>1, <2>1, <2>3, RedrawOK DEF Fed, HostStep
  <2> QED
    BY <2>3, <2>4, <2>5, FedCompose DEF Harmless, Settled, t
<1> QED
  BY <1>2, <1>3

LEMMA PublishNavOK ==
  ASSUME NEW s, HostOK(s), NEW cam \in Cams, NEW settle \in BOOLEAN
  PROVE  Harmless(s, PublishNav(s, cam, settle))
<1> DEFINE moved == CameraChanged([s.canvas EXCEPT !.cam = cam])
           q == IF settle THEN ScheduleDocument(moved, TRUE) ELSE moved
<1>1. PublishNav(s, cam, settle) = [s EXCEPT !.canvas = q]
  BY DEF PublishNav
<1>2. Turned(s.canvas, q)
  BY NavOK, HostFacts
<1> HIDE DEF q
<1> QED
  BY <1>1, <1>2, TurnedHost

\* A pinch or a drag of the panel that ends.
LEMMA PinchSettlesOK ==
  ASSUME NEW s, HostOK(s), NEW x \in Pointers
  PROVE  LET t == PinchSettles(s, x)
         IN  /\ Fed(s, t) /\ ~t.pinching
             /\ (InHand(s) => InHand(t)) /\ (Done(s) => Done(t))
<1> DEFINE p == IF s.pinching THEN PublishNav(s, x.cam, TRUE) ELSE s
           t == [p EXCEPT !.pinching = FALSE, !.pan = "None"]
<1>1. x.cam \in Cams /\ PinchSettles(s, x) = t
  BY DEF Pointers, PinchSettles
<1>2. Harmless(s, p)
  BY <1>1, PublishNavOK, HarmlessRefl
<1> HIDE DEF p
<1>3. HostOK(p) /\ p \in HostState
  BY <1>2 DEF Harmless, Fed, HostStep, HostOK
<1>4. /\ t \in HostState /\ t.canvas = p.canvas /\ SameLock(p, t) /\ ~t.pinching
      /\ t.nibArmed = p.nibArmed /\ t.nibRestore = p.nibRestore
      /\ t.live = p.live /\ t.phase = p.phase
  BY <1>3 DEF HostState, SameLock
<1> HIDE DEF t
<1>5. Fed(p, t)
  BY <1>3, <1>4, FieldsOK
<1>6. (InHand(p) => InHand(t)) /\ (Done(p) => Done(t))
  BY <1>4 DEF InHand, Done, SameLock
<1> QED
  BY <1>1, <1>2, <1>4, <1>5, <1>6, FedCompose DEF Harmless

-----------------------------------------------------------------------------
(* Feeding an operation *)

LEMMA PointerFacts ==
  ASSUME NEW x \in Pointers
  PROVE  /\ x.cell \in Cells /\ x.cam \in Cams /\ x.hit \in BOOLEAN /\ x.stale \in BOOLEAN
         /\ x.box \in SUBSET Cells /\ x.on \in {"empty", "box", "knob"}
  BY DEF Pointers

LEMMA FeedDownOK ==
  ASSUME NEW s, HostOK(s), NEW op \in Ops, s.lock = op, NEW x \in Pointers
  PROVE  LET t == FeedDown(s, op, x)
         IN  /\ Fed(s, t)
             /\ InHand(s) /\ ~s.travelDeferred /\ (~s.canvas.stroke.active \/ ~x.stale)
                  => InHand(t)
<1>1. s \in HostState /\ CanvasOK(s.canvas)
  BY HostFacts
<1>2. CASE op = "ink"
  <2> DEFINE q == IngestPress(s.canvas, x.cell, x.stale, s.exclusive)
             t == [s EXCEPT !.canvas = q]
  <2>1. FeedDown(s, op, x) = t
    BY <1>2 DEF FeedDown
  <2>2. /\ StrokeStep(s.canvas, q)
        /\ ~s.canvas.stroke.active \/ ~x.stale => Waits(q)
    BY <1>1, PointerFacts, IngestPressOK
  <2> HIDE DEF q
  <2>3. /\ Fed(s, t) /\ t.canvas = q /\ t.live = s.live /\ t.phase = s.phase
        /\ t.pinching = s.pinching
    BY <2>2, StrokeHost
  <2> HIDE DEF t
  <2>4. InHand(s) /\ ~s.travelDeferred /\ Waits(q) => InHand(t)
    BY <1>2, <2>3 DEF InHand, Fed, SameLock
  <2> QED
    BY <2>1, <2>2, <2>3, <2>4
<1>3. CASE op = "move"
  <2> DEFINE p == [s EXCEPT !.moveMutated = FALSE]
  <2>1. FeedDown(s, op, x) = IF x.on # "empty" THEN TransformBegin(s, "move") ELSE p
    BY <1>3 DEF FeedDown
  <2>2. /\ p \in HostState /\ p.canvas = s.canvas /\ SameLock(s, p)
        /\ p.nibArmed = s.nibArmed /\ p.nibRestore = s.nibRestore
        /\ p.live = s.live /\ p.phase = s.phase /\ p.pinching = s.pinching
    BY <1>1 DEF HostState, SameLock
  <2> HIDE DEF p
  <2>3. Fed(s, p) /\ (InHand(s) => InHand(p))
    BY <2>2, FieldsOK DEF InHand, SameLock
  <2> QED
    BY <1>3, <2>1, <2>3, TransformBeginOK
<1>4. CASE op = "resize"
  BY <1>4, TransformBeginOK, HarmlessRefl DEF FeedDown, Harmless
<1>5. CASE op = "lasso"
  <2> DEFINE p == [s EXCEPT !.phase = "Selecting"]
  <2>1. FeedDown(s, op, x) = p
    BY <1>5 DEF FeedDown
  <2>2. /\ p \in HostState /\ p.canvas = s.canvas /\ SameLock(s, p)
        /\ p.nibArmed = s.nibArmed /\ p.nibRestore = s.nibRestore
        /\ p.live = s.live /\ p.phase = "Selecting" /\ p.pinching = s.pinching
    BY <1>1 DEF HostState, SameLock
  <2> HIDE DEF p
  <2>3. Fed(s, p) /\ (InHand(s) /\ ~s.travelDeferred => InHand(p))
    BY <1>5, <2>2, FieldsOK DEF InHand, SameLock
  <2> QED
    BY <2>1, <2>3
<1>6. CASE op = "nav"
  <2> DEFINE p == [s EXCEPT !.pinching = FALSE, !.clearedOnTap = FALSE, !.pan = "Pending"]
  <2>1. FeedDown(s, op, x) = p
    BY <1>6 DEF FeedDown
  <2>2. /\ p \in HostState /\ p.canvas = s.canvas /\ SameLock(s, p)
        /\ p.nibArmed = s.nibArmed /\ p.nibRestore = s.nibRestore
        /\ p.live = s.live /\ p.phase = s.phase /\ ~p.pinching
    BY <1>1 DEF HostState, SameLock
  <2> HIDE DEF p
  <2>3. Fed(s, p) /\ (InHand(s) => InHand(p))
    BY <2>2, FieldsOK DEF InHand, SameLock
  <2> QED
    BY <2>1, <2>3
<1>7. CASE op = "erase"
  BY <1>7, HarmlessRefl DEF FeedDown, Harmless
<1> QED
  BY <1>2, <1>3, <1>4, <1>5, <1>6, <1>7 DEF Ops, Locks

LEMMA FeedMoveOK ==
  ASSUME NEW s, HostOK(s), NEW op \in Ops, s.lock = op, NEW x \in Pointers
  PROVE  LET t == FeedMove(s, op, x)
         IN  Fed(s, t) /\ (InHand(s) /\ ~s.travelDeferred => InHand(t))
<1>1. s \in HostState /\ CanvasOK(s.canvas)
  BY HostFacts
<1>2. CASE op = "ink"
  <2> DEFINE q == IngestMove(s.canvas, x.cell, x.stale, s.exclusive)
             t == [s EXCEPT !.canvas = q]
  <2>1. FeedMove(s, op, x) = t
    BY <1>2 DEF FeedMove
  <2>2. StrokeStep(s.canvas, q) /\ (Waits(s.canvas) => Waits(q))
    BY <1>1, PointerFacts, IngestMoveOK
  <2> HIDE DEF q
  <2>3. /\ Fed(s, t) /\ t.canvas = q /\ t.live = s.live /\ t.phase = s.phase
        /\ t.pinching = s.pinching
    BY <2>2, StrokeHost
  <2> HIDE DEF t
  <2>4. InHand(s) /\ ~s.travelDeferred => InHand(t)
    BY <1>2, <2>2, <2>3 DEF InHand, Fed, SameLock
  <2> QED
    BY <2>1, <2>3, <2>4
<1>3. CASE op = "nav"
  <2> DEFINE p == [s EXCEPT !.pan = "Active"]
             t == PublishNav(p, x.cam, FALSE)
  <2>1. FeedMove(s, op, x) = IF s.pinching \/ s.pan = "None" THEN s ELSE t
    BY <1>3 DEF FeedMove
  <2>2. /\ p \in HostState /\ p.canvas = s.canvas /\ SameLock(s, p)
        /\ p.nibArmed = s.nibArmed /\ p.nibRestore = s.nibRestore
        /\ p.live = s.live /\ p.phase = s.phase /\ p.pinching = s.pinching
    BY <1>1 DEF HostState, SameLock
  <2> HIDE DEF p
  <2>3. Fed(s, p) /\ (InHand(s) => InHand(p))
    BY <2>2, FieldsOK DEF InHand, SameLock
  <2>4. Harmless(p, t)
    BY <2>3, PublishNavOK, PointerFacts DEF Fed, HostStep
  <2> HIDE DEF t
  <2> QED
    BY <2>1, <2>3, <2>4, FedCompose, HarmlessRefl DEF Harmless
<1>4. CASE op \notin {"ink", "nav"}
  BY <1>4, HarmlessRefl DEF FeedMove, Harmless
<1> QED
  BY <1>2, <1>3, <1>4

\* What a stroke that is over leaves.
LEMMA StrokeOverOK ==
  ASSUME NEW s, HostOK(s), s.lock = "ink", NEW q, StrokeStep(s.canvas, q),
         Waits(s.canvas) => ~q.stroke.active
  PROVE  LET t == [s EXCEPT !.canvas = q] IN Fed(s, t) /\ Settled(s, t)
<1> DEFINE t == [s EXCEPT !.canvas = q]
<1>1. /\ Fed(s, t) /\ t.canvas = q /\ t.live = s.live /\ t.phase = s.phase
      /\ t.pinching = s.pinching
  BY StrokeHost
<1> HIDE DEF t
<1>2. Settled(s, t)
  BY <1>1, HostFacts DEF Settled, InHand, Done, Fed, SameLock, HostState
<1> QED
  BY <1>1, <1>2 DEF t

LEMMA FeedUpOK ==
  ASSUME NEW s, HostOK(s), NEW op \in Ops, s.lock = op, NEW x \in Pointers
  PROVE  LET t == FeedUp(s, op, x) IN Fed(s, t) /\ Settled(s, t)
<1>1. s \in HostState /\ CanvasOK(s.canvas)
  BY HostFacts
<1>2. CASE op = "ink"
  <2> DEFINE q == IngestRelease(s.canvas, x.outcome)
  <2>1. FeedUp(s, op, x) = [s EXCEPT !.canvas = q]
    BY <1>2 DEF FeedUp
  <2>2. StrokeStep(s.canvas, q) /\ (Waits(s.canvas) => ~q.stroke.active)
    BY <1>1, IngestReleaseOK
  <2> HIDE DEF q
  <2> QED
    BY <1>2, <2>1, <2>2, StrokeOverOK
<1>3. CASE op \in {"move", "resize"}
  BY <1>3, TransformCommitOK, PointerFacts DEF FeedUp
<1>4. CASE op = "lasso"
  <2> DEFINE p == [s EXCEPT !.selected = x.hit,
                            !.phase = IF x.hit THEN "Selected" ELSE "Idle"]
  <2>1. FeedUp(s, op, x) = p
    BY <1>4 DEF FeedUp
  <2>2. /\ p \in HostState /\ p.canvas = s.canvas /\ SameLock(s, p)
        /\ p.nibArmed = s.nibArmed /\ p.nibRestore = s.nibRestore
        /\ p.live = s.live /\ p.phase \in {"Selected", "Idle"} /\ p.pinching = s.pinching
    BY <1>1, PointerFacts DEF HostState, SameLock
  <2> HIDE DEF p
  <2>3. Fed(s, p)
    BY <2>2, FieldsOK
  <2>4. Settled(s, p)
    BY <1>1, <1>4, <2>2 DEF Settled, InHand, Done, HostState, SameLock
  <2> QED
    BY <2>1, <2>3, <2>4
<1>5. CASE op = "nav"
  <2> DEFINE p == [s EXCEPT !.pan = "None"]
             u == PublishNav(p, x.cam, TRUE)
             v == [ClearSelection(s) EXCEPT !.clearedOnTap = TRUE, !.pan = "None"]
  <2>1. FeedUp(s, op, x) = IF s.pinching THEN PinchSettles(s, x)
                           ELSE IF s.pan = "Active" THEN u
                           ELSE IF s.pan = "Pending" /\ x.hit THEN v ELSE p
    BY <1>5 DEF FeedUp
  <2>2. /\ p \in HostState /\ p.canvas = s.canvas /\ SameLock(s, p)
        /\ p.nibArmed = s.nibArmed /\ p.nibRestore = s.nibRestore
        /\ p.live = s.live /\ p.phase = s.phase /\ p.pinching = s.pinching
    BY <1>1 DEF HostState, SameLock
  <2>3. /\ v \in HostState /\ v.canvas = s.canvas /\ SameLock(s, v)
        /\ v.nibArmed = s.nibArmed /\ v.nibRestore = s.nibRestore
        /\ v.live = s.live /\ v.phase = "Idle" /\ v.pinching = s.pinching
    BY <1>1 DEF ClearSelection, HostState, SameLock
  <2> HIDE DEF p, v
  <2>4. Fed(s, p) /\ Fed(s, v)
    BY <2>2, <2>3, FieldsOK
  <2>5. Harmless(p, u)
    BY <2>4, PublishNavOK, PointerFacts DEF Fed, HostStep
  <2> HIDE DEF u
  <2>6. InHand(s) /\ ~s.travelDeferred =>
          IF s.pinching THEN Done(PinchSettles(s, x)) ELSE Done(p) /\ Done(v) /\ Done(u)
    <3>1. InHand(s) /\ ~s.travelDeferred /\ ~s.pinching => Done(p) /\ Done(v)
      BY <1>1, <1>5, <2>2, <2>3 DEF InHand, Done, HostState, SameLock
    <3>2. LET t == PinchSettles(s, x)
          IN  /\ ~t.pinching /\ t.lock = s.lock /\ t.travelDeferred = s.travelDeferred
              /\ HostOK(t) /\ (InHand(s) => InHand(t))
      BY PinchSettlesOK DEF Fed, SameLock, HostStep
    <3>3. InHand(s) /\ ~s.travelDeferred => Done(PinchSettles(s, x))
      BY <1>5, <3>2 DEF InHand, Done, HostOK, HostState
    <3> QED
      BY <2>5, <3>1, <3>3 DEF Harmless
  <2>7. Fed(s, u) /\ Fed(s, PinchSettles(s, x))
    BY <2>4, <2>5, FedCompose, PinchSettlesOK DEF Harmless
  <2> QED
    BY <2>1, <2>4, <2>6, <2>7 DEF Settled
<1>6. CASE op = "erase"
  <2> DEFINE q == NoteDocument(Change(s.canvas, {x.cell}), x.box)
             t == [s EXCEPT !.canvas = q]
  <2>1. FeedUp(s, op, x) = IF ~x.hit THEN s ELSE t
    BY <1>6 DEF FeedUp
  <2>2. GoodStep(s.canvas, q)
    BY <1>1, PointerFacts, NoteChangeOK
  <2> HIDE DEF q
  <2>3. Harmless(s, t)
    BY <2>2, GoodHost
  <2> HIDE DEF t
  <2>4. InHand(s) /\ ~s.travelDeferred => Done(s)
    BY <1>1, <1>6 DEF InHand, Done, HostState
  <2> QED
    BY <2>1, <2>3, <2>4, HarmlessRefl DEF Harmless, Settled
<1> QED
  BY <1>2, <1>3, <1>4, <1>5, <1>6 DEF Ops, Locks

LEMMA FeedCancelOK ==
  ASSUME NEW s, HostOK(s), NEW op \in Ops, s.lock = op, NEW x \in Pointers
  PROVE  LET t == FeedCancel(s, op, x) IN Fed(s, t) /\ Settled(s, t)
<1>1. s \in HostState /\ CanvasOK(s.canvas)
  BY HostFacts
<1>2. CASE op = "ink"
  <2> DEFINE q == CancelActiveStroke(s.canvas, x.outcome)
  <2>1. FeedCancel(s, op, x) = [s EXCEPT !.canvas = q]
    BY <1>2 DEF FeedCancel
  <2>2. StrokeStep(s.canvas, q) /\ ~q.stroke.active
    BY <1>1, CancelStrokeOK
  <2> HIDE DEF q
  <2> QED
    BY <1>2, <2>1, <2>2, StrokeOverOK
<1>3. CASE op \in {"move", "resize"}
  BY <1>3, TransformAbortOK DEF FeedCancel
<1>4. CASE op = "lasso"
  <2> DEFINE p == [s EXCEPT !.phase = RestPhase(s)]
  <2>1. FeedCancel(s, op, x) = p
    BY <1>4 DEF FeedCancel
  <2>2. /\ p \in HostState /\ p.canvas = s.canvas /\ SameLock(s, p)
        /\ p.nibArmed = s.nibArmed /\ p.nibRestore = s.nibRestore
        /\ p.live = s.live /\ p.phase \in {"Selected", "Idle"} /\ p.pinching = s.pinching
    BY <1>1, RestPhaseOK DEF HostState, SameLock
  <2> HIDE DEF p
  <2>3. Fed(s, p)
    BY <2>2, FieldsOK
  <2>4. Settled(s, p)
    BY <1>1, <1>4, <2>2 DEF Settled, InHand, Done, HostState, SameLock
  <2> QED
    BY <2>1, <2>3, <2>4
<1>5. CASE op = "nav"
  <2> DEFINE p == [s EXCEPT !.pan = "None"]
  <2>1. FeedCancel(s, op, x) = IF s.pinching THEN PinchSettles(s, x) ELSE p
    BY <1>5 DEF FeedCancel
  <2>2. /\ p \in HostState /\ p.canvas = s.canvas /\ SameLock(s, p)
        /\ p.nibArmed = s.nibArmed /\ p.nibRestore = s.nibRestore
        /\ p.live = s.live /\ p.phase = s.phase /\ p.pinching = s.pinching
    BY <1>1 DEF HostState, SameLock
  <2> HIDE DEF p
  <2>3. Fed(s, p)
    BY <2>2, FieldsOK
  <2>4. InHand(s) /\ ~s.travelDeferred /\ ~s.pinching => Done(p)
    BY <1>1, <1>5, <2>2 DEF InHand, Done, HostState, SameLock
  <2>5. LET t == PinchSettles(s, x)
        IN  /\ ~t.pinching /\ t.lock = s.lock /\ t.travelDeferred = s.travelDeferred
            /\ HostOK(t) /\ (InHand(s) => InHand(t)) /\ Fed(s, t)
    BY PinchSettlesOK DEF Fed, SameLock, HostStep
  <2>6. InHand(s) /\ ~s.travelDeferred => Done(PinchSettles(s, x))
    BY <1>5, <2>5 DEF InHand, Done, HostOK, HostState
  <2> QED
    BY <2>1, <2>3, <2>4, <2>5, <2>6 DEF Settled
<1>6. CASE op = "erase"
  <2>1. InHand(s) /\ ~s.travelDeferred => Done(s)
    BY <1>1, <1>6 DEF InHand, Done, HostState
  <2> QED
    BY <1>6, <2>1, HarmlessRefl DEF FeedCancel, Harmless, Settled
<1> QED
  BY <1>2, <1>3, <1>4, <1>5, <1>6 DEF Ops, Locks

-----------------------------------------------------------------------------
(* The router *)

\* A step of the router: it raises and lowers none of the flags.
Routed(s, t) == HostStep(s, t) /\ SameFlags(s, t)

LEMMA RoutedCompose ==
  ASSUME NEW s, HostOK(s), NEW p, Routed(s, p), NEW t, Routed(p, t)
  PROVE  Routed(s, t)
  BY HostStepsCompose DEF Routed, SameFlags

LEMMA MatchOK ==
  ASSUME NEW s, HostOK(s), NEW isPen \in BOOLEAN, NEW x \in Pointers
  PROVE  Match(s, isPen, x) \in Ops
<1>1. Mode(s) \in {"Ink", "Eraser", "Selection"}
  BY DEF Mode
<1> QED
  BY <1>1 DEF Match, Ops, Locks

\* Taking or leaving the lock, and the deferral with it.
LEMMA RelockOK ==
  ASSUME NEW s, HostOK(s), NEW lock \in Locks, NEW deferred \in BOOLEAN
  PROVE  LET t == [s EXCEPT !.lock = lock, !.travelDeferred = deferred]
         IN  /\ Routed(s, t) /\ t.lock = lock /\ t.travelDeferred = deferred
             /\ Done(s) /\ (deferred => lock # "none") => InHand(t)
             /\ Done(s) /\ ~deferred => Done(t)
<1> DEFINE t == [s EXCEPT !.lock = lock, !.travelDeferred = deferred]
<1>1. s \in HostState
  BY HostFacts
<1>2. /\ t \in HostState /\ t.canvas = s.canvas /\ t.lock = lock
      /\ t.travelDeferred = deferred /\ t.nibArmed = s.nibArmed
      /\ t.nibRestore = s.nibRestore
      /\ t.live = s.live /\ t.phase = s.phase /\ t.pinching = s.pinching
  BY <1>1 DEF HostState
<1> HIDE DEF t
<1>3. Routed(s, t)
  BY <1>2, SameCanvasOK DEF HostOK, Routed, SameFlags
<1>4. Done(s) /\ (deferred => lock # "none") => InHand(t)
  BY <1>2 DEF Done, InHand, Waits
<1>5. Done(s) /\ ~deferred => Done(t)
  BY <1>2 DEF Done
<1> QED
  BY <1>2, <1>3, <1>4, <1>5 DEF t

LEMMA LockOK ==
  ASSUME NEW s, HostOK(s), NEW lock \in Locks
  PROVE  LET t == [s EXCEPT !.lock = lock]
         IN  /\ Routed(s, t) /\ t.lock = lock /\ t.travelDeferred = s.travelDeferred
             /\ Done(s) => Done(t) /\ InHand(t)
<1> DEFINE t == [s EXCEPT !.lock = lock]
<1>1. s \in HostState
  BY HostFacts
<1>2. /\ t \in HostState /\ t.canvas = s.canvas /\ t.lock = lock
      /\ t.travelDeferred = s.travelDeferred /\ t.nibArmed = s.nibArmed
      /\ t.nibRestore = s.nibRestore
      /\ t.live = s.live /\ t.phase = s.phase /\ t.pinching = s.pinching
  BY <1>1 DEF HostState
<1> HIDE DEF t
<1>3. Routed(s, t)
  BY <1>2, SameCanvasOK DEF HostOK, Routed, SameFlags
<1>4. Done(s) => Done(t) /\ InHand(t)
  BY <1>2 DEF Done, InHand, Waits
<1> QED
  BY <1>2, <1>3, <1>4 DEF t

LEMMA DispatchDownOK ==
  ASSUME NEW s, HostOK(s), NEW isPen \in BOOLEAN, NEW x \in Pointers
  PROVE  LET t == DispatchDown(s, isPen, x)
         IN  Routed(s, t) /\ (InHand(s) /\ s.lock = "none" => InHand(t))
<1> DEFINE winner == Match(s, isPen, x)
           p == [s EXCEPT !.lock = winner]
           d == [s EXCEPT !.lock = winner, !.travelDeferred = TRUE]
           t == DispatchDown(s, isPen, x)
<1>1. CASE ~isPen /\ SecondaryRefused(s)
  BY <1>1, HarmlessRefl DEF DispatchDown, Harmless, Fed, Routed
<1>2. CASE ~(~isPen /\ SecondaryRefused(s)) /\ s.lock # "none"
  <2>1. t = FeedDown(s, s.lock, x) /\ s.lock \in Ops
    BY <1>2, HostFacts DEF DispatchDown, HostState, Ops, Locks
  <2> QED
    BY <1>2, <2>1, FeedDownOK DEF Fed, Routed
<1>3. CASE ~(~isPen /\ SecondaryRefused(s)) /\ s.lock = "none"
  <2>1. t = IF Mode(s) = "Selection" THEN d ELSE FeedDown(p, winner, x)
    BY <1>3 DEF DispatchDown
  <2>2. winner \in Ops /\ winner \in Locks /\ winner # "none"
    BY MatchOK DEF Ops
  <2> HIDE DEF winner, t
  <2>3. /\ Routed(s, p) /\ p.lock = winner /\ p.travelDeferred = s.travelDeferred
        /\ Done(s) => Done(p) /\ InHand(p)
    BY <2>2, LockOK
  <2>4. Routed(s, d) /\ (Done(s) => InHand(d))
    BY <2>2, RelockOK
  <2> HIDE DEF p, d
  <2>5. HostOK(p)
    BY <2>3 DEF Routed, HostStep
  <2>6. LET u == FeedDown(p, winner, x)
        IN  /\ Fed(p, u)
            /\ InHand(p) /\ ~p.travelDeferred /\ (~p.canvas.stroke.active \/ ~x.stale)
                 => InHand(u)
    BY <2>2, <2>3, <2>5, FeedDownOK
  <2>7. Done(p) => ~p.travelDeferred /\ ~p.canvas.stroke.active
    BY DEF Done
  <2>8. InHand(s) => Done(s)
    BY <1>3, DoneInHand
  <2>9. Routed(p, FeedDown(p, winner, x))
    BY <2>6 DEF Fed, Routed
  <2>10. Routed(s, FeedDown(p, winner, x))
    BY <2>3, <2>9, RoutedCompose
  <2> QED
    BY <2>1, <2>3, <2>4, <2>6, <2>7, <2>8, <2>10 DEF t
<1> QED
  BY <1>1, <1>2, <1>3

LEMMA DispatchMoveOK ==
  ASSUME NEW s, HostOK(s), NEW x \in Pointers
  PROVE  LET t == DispatchMove(s, x)
         IN  Routed(s, t) /\ t.lock = s.lock /\ (InHand(s) => InHand(t))
<1> DEFINE on == CASE s.lock = "resize" -> "knob" [] s.lock = "move" -> "box"
                   [] OTHER -> "empty"
           there == [x EXCEPT !.on = on]
           here == [s EXCEPT !.travelDeferred = FALSE]
           begun == FeedDown(here, s.lock, there)
           t == DispatchMove(s, x)
<1>1. CASE s.lock = "none"
  BY <1>1, HarmlessRefl DEF DispatchMove, Harmless, Fed, Routed
<1>2. CASE s.lock # "none" /\ ~s.travelDeferred
  <2>1. t = FeedMove(s, s.lock, x) /\ s.lock \in Ops
    BY <1>2, HostFacts DEF DispatchMove, HostState, Ops, Locks
  <2> QED
    BY <1>2, <2>1, FeedMoveOK DEF Fed, Routed, SameLock
<1>3. CASE s.lock # "none" /\ s.travelDeferred
  <2>1. t = FeedMove(begun, s.lock, x) /\ s.lock \in Ops /\ s \in HostState
    BY <1>3, HostFacts DEF DispatchMove, HostState, Ops, Locks
  <2>2. on \in {"empty", "box", "knob"}
    OBVIOUS
  <2> HIDE DEF on
  <2>3. there \in Pointers
    BY <2>2 DEF Pointers
  <2> HIDE DEF there, t
  <2>4. /\ here \in HostState /\ here.canvas = s.canvas /\ here.lock = s.lock
        /\ ~here.travelDeferred /\ here.nibArmed = s.nibArmed
        /\ here.nibRestore = s.nibRestore
        /\ here.live = s.live /\ here.phase = s.phase /\ here.pinching = s.pinching
    BY <2>1 DEF HostState
  <2> HIDE DEF here
  <2>5. Routed(s, here) /\ HostOK(here)
    BY <2>4, SameCanvasOK DEF HostOK, HostStep, Routed, SameFlags
  <2>6. InHand(s) => InHand(here) /\ ~here.canvas.stroke.active
    BY <1>3, <2>4 DEF InHand
  <2>7. Fed(here, begun) /\ (InHand(s) => InHand(begun))
    BY <2>1, <2>3, <2>4, <2>5, <2>6, FeedDownOK
  <2> HIDE DEF begun
  <2>8. /\ HostOK(begun) /\ begun.lock = s.lock /\ ~begun.travelDeferred
        /\ Routed(here, begun)
    BY <2>4, <2>7 DEF Fed, HostStep, SameLock, Routed
  <2>9. Fed(begun, t) /\ (InHand(begun) => InHand(t))
    BY <2>1, <2>8, FeedMoveOK
  <2>10. Routed(begun, t) /\ t.lock = s.lock
    BY <2>8, <2>9 DEF Fed, Routed, SameLock
  <2>11. Routed(s, t)
    BY <2>5, <2>8, <2>10, RoutedCompose
  <2> QED
    BY <2>7, <2>9, <2>10, <2>11 DEF t
<1> QED
  BY <1>1, <1>2, <1>3

LEMMA TapSelectOK ==
  ASSUME NEW s, HostOK(s), NEW x \in Pointers
  PROVE  Harmless(s, TapSelect(s, x))
<1> DEFINE p == [s EXCEPT !.selected = TRUE, !.phase = "Selected"]
           c == ClearSelection(s)
<1>1. TapSelect(s, x) \in {s, p, c}
  BY DEF TapSelect
<1>2. s \in HostState
  BY HostFacts
<1>3. ASSUME NEW t \in {p, c} PROVE Harmless(s, t)
  <2>1. /\ t \in HostState /\ t.canvas = s.canvas /\ SameLock(s, t)
        /\ t.nibArmed = s.nibArmed /\ t.nibRestore = s.nibRestore
        /\ t.live = s.live /\ t.phase \in {"Selected", "Idle"} /\ t.pinching = s.pinching
    BY ZenonT(60), <1>2 DEF HostState, SameLock, ClearSelection
  <2> HIDE DEF p, c
  <2>2. (InHand(s) => InHand(t)) /\ (Done(s) => Done(t))
    BY <2>1 DEF InHand, Done, SameLock
  <2> QED
    BY <2>1, <2>2, FieldsOK DEF Harmless
<1> HIDE DEF p, c
<1> QED
  BY <1>1, <1>3, HarmlessRefl

LEMMA SecondaryCommitOK ==
  ASSUME NEW s, HostOK(s), NEW mutated
  PROVE  Harmless(s, SecondaryCommit(s, mutated))
<1>1. "sel_freeform" \in Tools
  BY DEF Tools
<1> QED
  BY <1>1, SetExclusiveOK, HarmlessRefl DEF SecondaryCommit, Harmless, Fed

LEMMA DispatchUpOK ==
  ASSUME NEW s, HostOK(s), NEW isPen \in BOOLEAN, NEW x \in Pointers
  PROVE  LET t == DispatchUp(s, isPen, x)
         IN  Routed(s, t) /\ t.lock = "none" /\ (InHand(s) => Done(t))
<1> DEFINE p == [s EXCEPT !.lock = "none", !.travelDeferred = FALSE]
           up == FeedUp(s, s.lock, x)
           u == IF isPen THEN up ELSE SecondaryCommit(up, LockMutated(up))
           t == DispatchUp(s, isPen, x)
<1>1. CASE s.travelDeferred
  <2>1. t = TapSelect(p, x)
    BY <1>1 DEF DispatchUp
  <2>2. Routed(s, p) /\ p.lock = "none" /\ ~p.travelDeferred
    <3>1. s \in HostState
      BY HostFacts
    <3>2. /\ p \in HostState /\ p.canvas = s.canvas /\ p.lock = "none" /\ ~p.travelDeferred
          /\ p.nibArmed = s.nibArmed /\ p.nibRestore = s.nibRestore
      BY <3>1 DEF HostState, Locks
    <3> HIDE DEF p
    <3>3. Routed(s, p)
      BY <3>2, SameCanvasOK DEF HostOK, Routed, SameFlags
    <3> QED
      BY <3>2, <3>3
  <2>3. /\ p.live = s.live /\ p.phase = s.phase /\ p.pinching = s.pinching
        /\ p.canvas = s.canvas
    BY HostFacts DEF HostState
  <2> HIDE DEF p, t
  <2>4. HostOK(p) /\ p \in HostState
    BY <2>2 DEF Routed, HostStep, HostOK
  <2>5. Harmless(p, t)
    BY <2>1, <2>4, TapSelectOK
  <2>6. InHand(s) => Done(p)
    BY <1>1, <2>2, <2>3 DEF InHand, Done
  <2>7. Routed(p, t) /\ t.lock = "none"
    BY <2>2, <2>5 DEF Harmless, Fed, Routed, SameLock
  <2>8. Routed(s, t)
    BY <2>2, <2>7, RoutedCompose
  <2> QED
    BY <2>5, <2>6, <2>7, <2>8 DEF Harmless, t
<1>2. CASE ~s.travelDeferred /\ s.lock = "none"
  <2>1. t = s
    BY <1>2 DEF DispatchUp
  <2> QED
    BY <1>2, <2>1, DoneInHand, HarmlessRefl DEF Harmless, Fed, Routed
<1>3. CASE ~s.travelDeferred /\ s.lock # "none"
  <2>1. t = [u EXCEPT !.lock = "none"] /\ s.lock \in Ops
    BY <1>3, HostFacts DEF DispatchUp, HostState, Ops, Locks
  <2> HIDE DEF t
  <2>2. Fed(s, up) /\ Settled(s, up)
    BY <2>1, FeedUpOK
  <2> HIDE DEF up
  <2>3. HostOK(up)
    BY <2>2 DEF Fed, HostStep
  <2>4. Harmless(up, u)
    BY <2>3, SecondaryCommitOK, HarmlessRefl
  <2> HIDE DEF u
  <2>5. HostOK(u) /\ Routed(up, u) /\ Routed(s, up) /\ (InHand(s) => Done(u))
    BY <1>3, <2>2, <2>4 DEF Fed, HostStep, Routed, Harmless, Settled
  <2>6. Routed(u, t) /\ t.lock = "none" /\ (Done(u) => Done(t))
    BY <2>1, <2>5, LockOK DEF Locks
  <2>7. Routed(s, t)
    BY <2>5, <2>6, RoutedCompose DEF Routed
  <2> QED
    BY <2>5, <2>6, <2>7 DEF t
<1> QED
  BY <1>1, <1>2, <1>3

LEMMA CancelAllOK ==
  ASSUME NEW s, HostOK(s), NEW x \in Pointers
  PROVE  LET t == CancelAll(s, x)
         IN  Routed(s, t) /\ t.lock = "none" /\ (InHand(s) => Done(t))
<1> DEFINE here == [s EXCEPT !.travelDeferred = FALSE]
           cancelled == FeedCancel(here, s.lock, x)
           t == CancelAll(s, x)
<1>1. s \in HostState
  BY HostFacts
<1>2. t = IF s.lock = "none" THEN here ELSE [cancelled EXCEPT !.lock = "none"]
  BY DEF CancelAll
<1>3. /\ here \in HostState /\ here.canvas = s.canvas /\ here.lock = s.lock
      /\ ~here.travelDeferred /\ here.nibArmed = s.nibArmed
      /\ here.nibRestore = s.nibRestore
      /\ here.live = s.live /\ here.phase = s.phase /\ here.pinching = s.pinching
  BY <1>1 DEF HostState
<1> HIDE DEF here, t
<1>4. Routed(s, here) /\ HostOK(here) /\ (InHand(s) => InHand(here))
  BY <1>3, SameCanvasOK DEF HostOK, HostStep, Routed, SameFlags, InHand
<1>5. CASE s.lock = "none"
  BY <1>2, <1>3, <1>4, <1>5, DoneInHand DEF t
<1>6. CASE s.lock # "none"
  <2>1. s.lock \in Ops
    BY <1>1, <1>6 DEF HostState, Ops, Locks
  <2>2. Fed(here, cancelled) /\ Settled(here, cancelled)
    BY <1>3, <1>4, <2>1, FeedCancelOK
  <2> HIDE DEF cancelled
  <2>3. HostOK(cancelled) /\ Routed(here, cancelled) /\ (InHand(s) => Done(cancelled))
    BY <1>3, <1>4, <2>2 DEF Fed, HostStep, Routed, Settled
  <2>4. Routed(cancelled, t) /\ t.lock = "none" /\ (Done(cancelled) => Done(t))
    BY <1>2, <1>6, <2>3, LockOK DEF Locks
  <2>5. Routed(s, t)
    BY <1>4, <2>3, <2>4, RoutedCompose DEF Routed
  <2> QED
    BY <2>3, <2>4, <2>5 DEF t
<1> QED
  BY <1>5, <1>6

LEMMA DispatchTapOK ==
  ASSUME NEW s, HostOK(s), NEW x \in Pointers
  PROVE  Harmless(s, DispatchTap(s, x))
<1> DEFINE p == TapSelect(s, x)
<1>1. DispatchTap(s, x) \in {s, SecondaryCommit(p, TRUE)}
  BY DEF DispatchTap
<1>2. Harmless(s, p)
  BY TapSelectOK
<1> HIDE DEF p
<1>3. Harmless(p, SecondaryCommit(p, TRUE))
  BY <1>2, SecondaryCommitOK DEF Harmless, Fed, HostStep
<1>4. Harmless(s, SecondaryCommit(p, TRUE))
  BY <1>2, <1>3, FedCompose DEF Harmless
<1> QED
  BY <1>1, <1>4, HarmlessRefl

LEMMA PinchBeginOK ==
  ASSUME NEW s, HostOK(s), NEW x \in Pointers
  PROVE  LET t == DispatchPinchBegin(s, x)
         IN  /\ Routed(s, t)
             /\ InHand(s) /\ s.lock = "none"
                  => InHand(t) /\ t.lock \in {"none", "nav"} /\ ~t.travelDeferred
<1> DEFINE c == CancelAll(s, x)
           p == [c EXCEPT !.lock = "nav", !.pan = "None", !.pinching = TRUE]
           u == PublishNav(p, s.canvas.cam, FALSE)
           t == DispatchPinchBegin(s, x)
<1>1. t = IF ~s.armed THEN s ELSE u
  BY DEF DispatchPinchBegin
<1> HIDE DEF t
<1>2. Routed(s, c) /\ c.lock = "none" /\ (InHand(s) => Done(c))
  BY CancelAllOK
<1> HIDE DEF c
<1>3. HostOK(c) /\ c \in HostState
  BY <1>2 DEF Routed, HostStep, HostOK
<1>4. /\ p \in HostState /\ p.canvas = c.canvas /\ p.lock = "nav" /\ p.pinching
      /\ p.travelDeferred = c.travelDeferred /\ p.nibArmed = c.nibArmed
      /\ p.nibRestore = c.nibRestore /\ p.live = c.live /\ p.phase = c.phase
  BY <1>3 DEF HostState, Locks
<1> HIDE DEF p
<1>5. Routed(c, p) /\ HostOK(p)
  BY <1>3, <1>4, SameCanvasOK DEF HostOK, HostStep, Routed, SameFlags
<1>6. Done(c) => InHand(p) /\ ~p.travelDeferred
  BY <1>4 DEF Done, InHand, Waits
<1>7. Harmless(p, u)
  BY <1>5, PublishNavOK, HostFacts
<1> HIDE DEF u
<1>8. Routed(p, u) /\ u.lock = "nav" /\ u.travelDeferred = p.travelDeferred
  BY <1>4, <1>7 DEF Harmless, Fed, Routed, SameLock
<1>9. Routed(s, u)
  <2>1. Routed(s, p)
    BY <1>2, <1>5, RoutedCompose
  <2> QED
    BY <1>8, <2>1, RoutedCompose
<1>10. CASE ~s.armed
  BY <1>1, <1>10, HarmlessRefl, DoneInHand DEF Harmless, Fed, Routed, Done, t
<1>11. CASE s.armed
  BY <1>1, <1>2, <1>6, <1>7, <1>8, <1>9, <1>11 DEF Harmless, t
<1> QED
  BY <1>10, <1>11

LEMMA PinchUpdateOK ==
  ASSUME NEW s, HostOK(s), NEW x \in Pointers
  PROVE  Harmless(s, DispatchPinchUpdate(s, x))
  BY PublishNavOK, PointerFacts, HarmlessRefl DEF DispatchPinchUpdate

\* Only the hand's own hold is let go.
LEMMA PinchEndOK ==
  ASSUME NEW s, HostOK(s), NEW x \in Pointers
  PROVE  LET t == DispatchPinchEnd(s, x)
         IN  /\ Routed(s, t) /\ t.lock = "none"
             /\ InHand(s) /\ s.lock \in {"none", "nav"} /\ ~s.travelDeferred => Done(t)
<1> DEFINE ended == IF s.lock = "nav" THEN PinchSettles(s, x) ELSE s
           u == SecondaryCommit(ended, LockMutated(ended))
           v == [u EXCEPT !.lock = "none", !.lockedUntilLift = TRUE]
           t == DispatchPinchEnd(s, x)
<1>1. t = IF s.lock = "none" THEN s ELSE v
  BY DEF DispatchPinchEnd
<1> HIDE DEF t
<1>2. Fed(s, ended) /\ (InHand(s) => InHand(ended)) /\ (s.lock = "nav" => ~ended.pinching)
  BY PinchSettlesOK, HarmlessRefl DEF Harmless
<1> HIDE DEF ended
<1>3. HostOK(ended) /\ ended \in HostState /\ SameLock(s, ended)
  BY <1>2 DEF Fed, HostStep, HostOK
<1>4. Harmless(ended, u)
  BY <1>3, SecondaryCommitOK
<1>5. InHand(s) /\ s.lock = "nav" /\ ~s.travelDeferred => Done(ended)
  BY <1>2, <1>3 DEF InHand, Done, SameLock, HostState
<1> HIDE DEF u
<1>6. HostOK(u) /\ u \in HostState
  BY <1>4 DEF Harmless, Fed, HostStep, HostOK
<1>7. /\ v \in HostState /\ v.canvas = u.canvas /\ v.lock = "none"
      /\ v.travelDeferred = u.travelDeferred /\ v.pinching = u.pinching
      /\ v.nibArmed = u.nibArmed /\ v.nibRestore = u.nibRestore
      /\ v.live = u.live /\ v.phase = u.phase
  BY <1>6 DEF HostState, Locks
<1> HIDE DEF v
<1>8. Routed(u, v) /\ (Done(u) => Done(v))
  BY <1>6, <1>7, SameCanvasOK DEF HostOK, Routed, SameFlags, Done
<1>9. Routed(s, v)
  <2>1. Routed(s, ended) /\ Routed(ended, u)
    BY <1>2, <1>4 DEF Fed, Harmless, Routed
  <2>2. Routed(s, u)
    BY <2>1, RoutedCompose
  <2> QED
    BY <1>8, <2>2, RoutedCompose
<1>10. CASE s.lock = "none"
  BY <1>1, <1>10, HarmlessRefl, DoneInHand DEF Harmless, Fed, Routed, t
<1>11. CASE s.lock # "none"
  BY <1>1, <1>4, <1>5, <1>7, <1>8, <1>9, <1>11 DEF Harmless, t
<1> QED
  BY <1>10, <1>11

-----------------------------------------------------------------------------
(* ToolCanvasItem *)

\* As Harmless, but for the canvas's two flags.
Bracket(s, t) ==
    /\ HostStep(s, t) /\ SameLock(s, t) /\ t.nibArmed = s.nibArmed
    /\ (InHand(s) => InHand(t)) /\ (Done(s) => Done(t))

LEMMA BracketCompose ==
  ASSUME NEW s, HostOK(s), NEW p, Bracket(s, p), NEW t, Bracket(p, t)
  PROVE  Bracket(s, t)
  BY HostStepsCompose DEF Bracket, SameLock

LEMMA BracketOK ==
  ASSUME NEW s, HostOK(s), NEW q, CanvasOK(q), Later(s.canvas, q), q.stroke = s.canvas.stroke
  PROVE  LET t == [s EXCEPT !.canvas = q] IN Bracket(s, t) /\ t.canvas = q
  BY CanvasStepOK DEF Bracket

LEMMA BusyHost ==
  ASSUME NEW s, HostOK(s), NEW on \in BOOLEAN
  PROVE  LET t == Busy(s, on)
         IN  Bracket(s, t) /\ t.canvas.busy = on /\ t.canvas.erase = s.canvas.erase
<1> DEFINE q == SetPointerBusy(s.canvas, on)
<1>1. /\ CanvasOK(q) /\ Later(s.canvas, q) /\ q.busy = on /\ q.erase = s.canvas.erase
      /\ q.stroke = s.canvas.stroke
  BY BusyOK, HostFacts
<1> HIDE DEF q
<1>2. Busy(s, on) = [s EXCEPT !.canvas = q]
  BY DEF Busy, q
<1> QED
  BY <1>1, <1>2, BracketOK

LEMMA EraseHost ==
  ASSUME NEW s, HostOK(s), NEW on \in BOOLEAN
  PROVE  LET t == [s EXCEPT !.canvas = SetErasePointerActive(s.canvas, on)]
         IN  Bracket(s, t) /\ t.canvas.erase = on /\ t.canvas.busy = s.canvas.busy
<1> DEFINE q == SetErasePointerActive(s.canvas, on)
<1>1. /\ CanvasOK(q) /\ Later(s.canvas, q) /\ q.erase = on /\ q.busy = s.canvas.busy
      /\ q.stroke = s.canvas.stroke
  BY EraseOK, HostFacts
<1> HIDE DEF q
<1>2. LET t == [s EXCEPT !.canvas = q] IN Bracket(s, t) /\ t.canvas = q
  BY <1>1, BracketOK
<1> QED
  BY <1>1, <1>2 DEF q

LEMMA FlushedOK ==
  ASSUME NEW s, HostOK(s)
  PROVE  LET t == Flushed(s)
         IN  Bracket(s, t) /\ ~t.canvas.busy /\ t.canvas.erase = s.canvas.erase
<1> DEFINE b == SetPointerBusy(s.canvas, FALSE)
           q == FlushDeferred(b)
<1>1. /\ CanvasOK(b) /\ Later(s.canvas, b) /\ b.busy = FALSE /\ b.erase = s.canvas.erase
      /\ b.stroke = s.canvas.stroke /\ b.cam = s.canvas.cam
  BY BusyOK, HostFacts
<1> HIDE DEF b
<1>2. GoodStep(b, q)
  BY <1>1, FlushOK
<1> HIDE DEF q
<1>3. Later(s.canvas, q)
  <2>1. s.canvas \in CanvasState /\ b \in CanvasState /\ q \in CanvasState
    BY <1>1, <1>2, HostFacts DEF GoodStep, CanvasOK, Base
  <2>2. ASSUME NEW c \in Cells PROVE q.image[c].ver >= s.canvas.image[c].ver
    <3>1. /\ s.canvas.image[c].ver \in Nat /\ b.image[c].ver \in Nat
          /\ q.image[c].ver \in Nat
      BY <2>1 DEF CanvasState, Image
    <3> QED
      BY <1>1, <1>2, <3>1 DEF GoodStep, Later
  <2> QED
    BY <2>2 DEF Later
<1>4. Flushed(s) = [s EXCEPT !.canvas = q]
  BY DEF Flushed, q, b
<1>5. CanvasOK(q) /\ q.stroke = s.canvas.stroke /\ ~q.busy /\ q.erase = s.canvas.erase
  BY <1>1, <1>2 DEF GoodStep, Kept
<1> QED
  BY <1>3, <1>4, <1>5, BracketOK

LEMMA ReleasedOK ==
  ASSUME NEW s, HostOK(s)
  PROVE  LET t == Released(s) IN Bracket(s, t) /\ ~t.canvas.busy /\ ~t.canvas.erase
<1> DEFINE e == SetErasePointerActive(s.canvas, FALSE)
           p == [s EXCEPT !.canvas = e]
<1>1. Bracket(s, p) /\ p.canvas.erase = FALSE
  BY EraseHost
<1>2. p.canvas = e
  BY HostFacts DEF HostState
<1>3. HostOK(p)
  BY <1>1 DEF Bracket, HostStep
<1>4. Released(s) = Flushed(p)
  <2>1. Flushed(p) = [p EXCEPT !.canvas = FlushDeferred(SetPointerBusy(p.canvas, FALSE))]
    BY DEF Flushed
  <2> HIDE DEF e
  <2>2. Released(s) = [s EXCEPT !.canvas = FlushDeferred(SetPointerBusy(e, FALSE))]
    BY DEF Released, e
  <2>3. [p EXCEPT !.canvas = FlushDeferred(SetPointerBusy(e, FALSE))]
        = [s EXCEPT !.canvas = FlushDeferred(SetPointerBusy(e, FALSE))]
    BY HostFacts DEF HostState
  <2> QED
    BY <1>2, <2>1, <2>2, <2>3
<1> HIDE DEF p, e
<1>5. Bracket(p, Flushed(p)) /\ ~Flushed(p).canvas.busy /\ ~Flushed(p).canvas.erase
  BY <1>1, <1>3, FlushedOK
<1> QED
  BY <1>1, <1>4, <1>5, BracketCompose

LEMMA PointerStartOK ==
  ASSUME NEW s, HostOK(s), NEW isPen \in BOOLEAN, NEW nib \in BOOLEAN, NEW x \in Pointers
  PROVE  LET t == OnPointerStart(s, isPen, nib, x)
         IN  /\ HostStep(s, t)
             /\ InHand(s) /\ s.lock = "none" => InHand(t)
             /\ ~nib => t.nibArmed = s.nibArmed
<1> DEFINE b == Busy(s, TRUE)
           erasing == nib \/ Mode(s) = "Eraser"
           flagged == [b EXCEPT !.canvas = IF erasing THEN SetErasePointerActive(b.canvas, TRUE)
                                           ELSE b.canvas]
           n == IF nib /\ ~s.nibArmed THEN BeginNibErase(flagged) ELSE flagged
           t == OnPointerStart(s, isPen, nib, x)
<1>1. t = DispatchDown(n, isPen, x)
  BY DEF OnPointerStart
<1>2. Bracket(s, b)
  BY BusyHost
<1> HIDE DEF b, t
<1>3. HostOK(b)
  BY <1>2 DEF Bracket, HostStep
<1>4. Bracket(b, flagged)
  <2>1. CASE erasing
    BY <1>3, <2>1, EraseHost
  <2>2. CASE ~erasing
    <3>1. CanvasOK(b.canvas) /\ Later(b.canvas, b.canvas)
      BY <1>3, HostStepRefl, HostFacts DEF HostStep
    <3> QED
      BY <1>3, <2>2, <3>1, BracketOK
  <2> QED
    BY <2>1, <2>2
<1> HIDE DEF flagged
<1>5. Bracket(s, flagged) /\ HostOK(flagged)
  BY <1>2, <1>4, BracketCompose DEF Bracket, HostStep
<1>6. /\ HostStep(flagged, n) /\ SameLock(flagged, n) /\ (InHand(flagged) => InHand(n))
      /\ ~nib => n.nibArmed = flagged.nibArmed
  BY <1>5, BeginNibOK, HostStepRefl DEF SameLock
<1> HIDE DEF n
<1>7. HostOK(n) /\ HostStep(s, n)
  BY <1>5, <1>6, HostStepsCompose DEF Bracket, HostStep
<1>8. /\ HostStep(n, t) /\ SameFlags(n, t)
      /\ InHand(n) /\ n.lock = "none" => InHand(t)
  BY <1>1, <1>7, DispatchDownOK DEF Routed
<1>9. HostStep(s, t)
  BY <1>7, <1>8, HostStepsCompose
<1>10. InHand(s) /\ s.lock = "none" => InHand(t)
  BY <1>5, <1>6, <1>8 DEF Bracket, SameLock
<1>11. ~nib => t.nibArmed = s.nibArmed
  BY <1>5, <1>6, <1>8 DEF Bracket, SameFlags
<1> QED
  BY <1>9, <1>10, <1>11 DEF t

LEMMA PointerMoveOK ==
  ASSUME NEW s, HostOK(s), NEW x \in Pointers
  PROVE  LET t == OnPointerMove(s, x)
         IN  /\ HostStep(s, t) /\ (InHand(s) => InHand(t)) /\ t.lock = s.lock
             /\ t.nibArmed = s.nibArmed /\ t.canvas.erase = s.canvas.erase
<1> DEFINE b == Busy(s, TRUE)
           t == DispatchMove(b, x)
<1>1. Bracket(s, b) /\ b.canvas.erase = s.canvas.erase
  BY BusyHost
<1> HIDE DEF b
<1>2. HostOK(b)
  BY <1>1 DEF Bracket, HostStep
<1>3. Routed(b, t) /\ t.lock = b.lock /\ (InHand(b) => InHand(t))
  BY <1>2, DispatchMoveOK
<1> HIDE DEF t
<1>4. HostStep(s, t)
  BY <1>1, <1>3, HostStepsCompose DEF Bracket, Routed
<1> QED
  BY <1>1, <1>3, <1>4 DEF OnPointerMove, Bracket, Routed, SameFlags, SameLock, t, b

\* Everything a pointer held is let go.
Cleared(s, t) ==
    /\ HostStep(s, t) /\ t.lock = "none" /\ (InHand(s) => Done(t))
    /\ ~t.nibArmed /\ ~t.canvas.busy /\ ~t.canvas.erase

LEMMA ReleaseOK ==
  ASSUME NEW s, HostOK(s), NEW d, Routed(s, d), d.lock = "none", InHand(s) => Done(d)
  PROVE  Cleared(s, Released(EndNibErase(d)))
<1> DEFINE e == EndNibErase(d)
           t == Released(e)
<1>1. HostOK(d)
  BY DEF Routed, HostStep
<1>2. HostStep(d, e) /\ SameLock(d, e) /\ ~e.nibArmed /\ (Done(d) => Done(e))
  BY <1>1, EndNibOK
<1> HIDE DEF e
<1>3. Bracket(e, t) /\ ~t.canvas.busy /\ ~t.canvas.erase
  BY <1>2, ReleasedOK DEF HostStep
<1> HIDE DEF t
<1>4. HostStep(s, e)
  BY <1>2, HostStepsCompose DEF Routed
<1>5. HostStep(s, t)
  BY <1>3, <1>4, HostStepsCompose DEF Bracket
<1> QED
  BY <1>2, <1>3, <1>5 DEF Cleared, Bracket, SameLock, e, t

LEMMA PointerEndOK ==
  ASSUME NEW s, HostOK(s), NEW isPen \in BOOLEAN, NEW x \in Pointers
  PROVE  Cleared(s, OnPointerEnd(s, isPen, x))
  BY DispatchUpOK, ReleaseOK DEF OnPointerEnd

LEMMA PointerCancelOK ==
  ASSUME NEW s, HostOK(s), NEW x \in Pointers
  PROVE  Cleared(s, OnPointerCancel(s, x))
  BY CancelAllOK, ReleaseOK DEF OnPointerCancel

\* The hand's hold is let go; the nib and the eraser's flag are the pen's.
LetGo(s, t) ==
    /\ HostStep(s, t) /\ t.lock = "none" /\ (InHand(s) => Done(t))
    /\ ~t.canvas.busy /\ t.canvas.erase = s.canvas.erase /\ t.nibArmed = s.nibArmed

LEMMA LetGoOK ==
  ASSUME NEW s, HostOK(s), NEW d, Routed(s, d), d.lock = "none"
  PROVE  /\ HostStep(s, Flushed(d)) /\ Flushed(d).lock = "none"
         /\ ~Flushed(d).canvas.busy /\ Flushed(d).canvas.erase = s.canvas.erase
         /\ Flushed(d).nibArmed = s.nibArmed /\ (Done(d) => Done(Flushed(d)))
<1> DEFINE t == Flushed(d)
<1>1. HostOK(d)
  BY DEF Routed, HostStep
<1>2. Bracket(d, t) /\ ~t.canvas.busy /\ t.canvas.erase = d.canvas.erase
  BY <1>1, FlushedOK
<1> HIDE DEF t
<1>3. HostStep(s, t)
  BY <1>2, HostStepsCompose DEF Bracket, Routed
<1> QED
  BY <1>2, <1>3 DEF Bracket, SameLock, Routed, SameFlags, t

LEMMA CancelHandOK ==
  ASSUME NEW s, HostOK(s), NEW x \in Pointers
  PROVE  LetGo(s, CancelHandTouch(s, x))
  BY CancelAllOK, LetGoOK DEF CancelHandTouch, LetGo

LEMMA PinchEndsOK ==
  ASSUME NEW s, HostOK(s), NEW x \in Pointers
  PROVE  LET t == OnPinchEnd(s, x)
         IN  /\ HostStep(s, t) /\ t.lock = "none"
             /\ InHand(s) /\ s.lock \in {"none", "nav"} /\ ~s.travelDeferred => Done(t)
             /\ ~t.canvas.busy /\ t.canvas.erase = s.canvas.erase
             /\ t.nibArmed = s.nibArmed
  BY PinchEndOK, LetGoOK DEF OnPinchEnd

LEMMA SecondContactOK ==
  ASSUME NEW s, HostOK(s), NEW x \in Pointers
  PROVE  LET t == OnSecondContact(s, x)
         IN  Routed(s, t) /\ t.lock = "none" /\ (InHand(s) => Done(t))
<1> DEFINE c == CancelAll(s, x)
           p == [c EXCEPT !.lockedUntilLift = TRUE]
<1>1. CASE s.lock = "none"
  BY <1>1, DoneInHand, HarmlessRefl DEF OnSecondContact, Harmless, Fed, Routed
<1>2. CASE s.lock # "none"
  <2>1. OnSecondContact(s, x) = p
    BY <1>2 DEF OnSecondContact
  <2>2. Routed(s, c) /\ c.lock = "none" /\ (InHand(s) => Done(c))
    BY CancelAllOK
  <2> HIDE DEF c
  <2>3. HostOK(c) /\ c \in HostState
    BY <2>2 DEF Routed, HostStep, HostOK
  <2>4. /\ p \in HostState /\ p.canvas = c.canvas /\ SameLock(c, p) /\ p.pinching = c.pinching
        /\ p.nibArmed = c.nibArmed /\ p.nibRestore = c.nibRestore
        /\ p.live = c.live /\ p.phase = c.phase
    BY <2>3 DEF HostState, SameLock
  <2> HIDE DEF p
  <2>5. Fed(c, p) /\ (Done(c) => Done(p))
    BY <2>3, <2>4, FieldsOK DEF Done, SameLock
  <2>6. Routed(s, p)
    BY <2>2, <2>5, RoutedCompose DEF Fed, Routed
  <2> QED
    BY <2>1, <2>2, <2>4, <2>5, <2>6 DEF SameLock
<1> QED
  BY <1>1, <1>2

\* The fields that lock the second pointer out.
LEMMA LockoutOK ==
  ASSUME NEW s, HostOK(s), NEW armed \in BOOLEAN, NEW locked \in BOOLEAN
  PROVE  Harmless(s, [s EXCEPT !.armed = armed, !.lockedUntilLift = locked])
<1> DEFINE p == [s EXCEPT !.armed = armed, !.lockedUntilLift = locked]
<1>1. s \in HostState
  BY HostFacts
<1>2. /\ p \in HostState /\ p.canvas = s.canvas /\ SameLock(s, p) /\ p.pinching = s.pinching
      /\ p.nibArmed = s.nibArmed /\ p.nibRestore = s.nibRestore
      /\ p.live = s.live /\ p.phase = s.phase
  BY <1>1 DEF HostState, SameLock
<1> HIDE DEF p
<1>3. Fed(s, p) /\ (Done(s) => Done(p)) /\ (InHand(s) => InHand(p))
  BY <1>2, FieldsOK DEF Done, InHand, SameLock
<1> QED
  BY <1>3 DEF Harmless, p

LEMMA ContactsClearedOK ==
  ASSUME NEW s, HostOK(s)
  PROVE  LET t == OnContactsCleared(s)
         IN  Bracket(s, t) /\ ~t.canvas.busy /\ t.canvas.erase = s.canvas.erase
<1> DEFINE p == [s EXCEPT !.lockedUntilLift = FALSE]
           t == Flushed(p)
<1>1. s \in HostState
  BY HostFacts
<1>2. /\ p \in HostState /\ p.canvas = s.canvas /\ SameLock(s, p) /\ p.pinching = s.pinching
      /\ p.nibArmed = s.nibArmed /\ p.nibRestore = s.nibRestore
      /\ p.live = s.live /\ p.phase = s.phase
  BY <1>1 DEF HostState, SameLock
<1> HIDE DEF p
<1>3. Bracket(s, p) /\ HostOK(p)
  BY <1>2, FieldsOK DEF Done, InHand, SameLock, Fed, HostStep, Bracket
<1>4. Bracket(p, t) /\ ~t.canvas.busy /\ t.canvas.erase = p.canvas.erase
  BY <1>3, FlushedOK
<1> HIDE DEF t
<1>5. Bracket(s, t)
  BY <1>3, <1>4, BracketCompose
<1> QED
  BY <1>2, <1>4, <1>5 DEF OnContactsCleared, t, p

LEMMA PinchStartOK ==
  ASSUME NEW s, HostOK(s), NEW x \in Pointers
  PROVE  LET t == OnPinchStart(s, x)
         IN  /\ HostStep(s, t)
             /\ InHand(s) /\ s.lock = "none"
                  => InHand(t) /\ t.lock \in {"none", "nav"} /\ ~t.travelDeferred
             /\ t.nibArmed = s.nibArmed /\ t.canvas.erase = s.canvas.erase
<1> DEFINE b == Busy(s, TRUE)
           t == DispatchPinchBegin(b, x)
<1>1. Bracket(s, b) /\ b.canvas.erase = s.canvas.erase
  BY BusyHost
<1> HIDE DEF b
<1>2. HostOK(b)
  BY <1>1 DEF Bracket, HostStep
<1>3. /\ Routed(b, t)
      /\ InHand(b) /\ b.lock = "none"
           => InHand(t) /\ t.lock \in {"none", "nav"} /\ ~t.travelDeferred
  BY <1>2, PinchBeginOK
<1> HIDE DEF t
<1>4. HostStep(s, t)
  BY <1>1, <1>3, HostStepsCompose DEF Bracket, Routed
<1> QED
  BY <1>1, <1>3, <1>4 DEF OnPinchStart, Bracket, Routed, SameFlags, SameLock, t, b

LEMMA PinchMovesOK ==
  ASSUME NEW s, HostOK(s), NEW x \in Pointers
  PROVE  LET t == OnPinchUpdate(s, x)
         IN  /\ Bracket(s, t) /\ t.canvas.erase = s.canvas.erase
<1> DEFINE b == Busy(s, TRUE)
           t == DispatchPinchUpdate(b, x)
<1>1. Bracket(s, b) /\ b.canvas.erase = s.canvas.erase
  BY BusyHost
<1> HIDE DEF b
<1>2. HostOK(b)
  BY <1>1 DEF Bracket, HostStep
<1>3. Harmless(b, t)
  BY <1>2, PinchUpdateOK
<1> HIDE DEF t
<1>4. Bracket(b, t) /\ t.canvas.erase = b.canvas.erase
  BY <1>3 DEF Harmless, Fed, Bracket, SameFlags
<1> QED
  BY <1>1, <1>4, BracketCompose DEF OnPinchUpdate, t, b

LEMMA ToggleHandOK ==
  ASSUME NEW s, HostOK(s), NEW x \in Pointers
  PROVE  LET t == ToggleHandTouch(s, x)
         IN  /\ HostStep(s, t) /\ (t.canvas.busy => s.canvas.busy)
             /\ t.canvas.erase = s.canvas.erase /\ t.nibArmed = s.nibArmed
             /\ InHand(s) /\ s.lock = "none" => Done(t) /\ t.lock = "none"
<1> DEFINE off == [s EXCEPT !.armed = FALSE, !.lockedUntilLift = FALSE]
           on == [s EXCEPT !.armed = TRUE]
           u == CancelHandTouch(off, x)
<1>1. ToggleHandTouch(s, x) = IF s.armed THEN u ELSE on
  BY DEF ToggleHandTouch
<1>2. Harmless(s, off)
  BY LockoutOK
<1>3. Harmless(s, on)
  <2>1. s \in HostState
    BY HostFacts
  <2>2. /\ on \in HostState /\ on.canvas = s.canvas /\ SameLock(s, on)
        /\ on.pinching = s.pinching /\ on.nibArmed = s.nibArmed
        /\ on.nibRestore = s.nibRestore /\ on.live = s.live /\ on.phase = s.phase
    BY <2>1 DEF HostState, SameLock
  <2> HIDE DEF on
  <2> QED
    BY <2>2, FieldsOK DEF Done, InHand, SameLock, Harmless
<1> HIDE DEF off, on
<1>4. HostOK(off)
  BY <1>2 DEF Harmless, Fed, HostStep
<1>5. LetGo(off, u)
  BY <1>4, CancelHandOK
<1> HIDE DEF u
<1>6. HostStep(s, u)
  BY <1>2, <1>5, HostStepsCompose DEF Harmless, Fed, LetGo
<1>7. InHand(s) /\ s.lock = "none" => Done(on) /\ on.lock = "none"
  BY <1>3, DoneInHand DEF Harmless, Fed, SameLock
<1> QED
  BY <1>1, <1>2, <1>3, <1>5, <1>6, <1>7 DEF Harmless, Fed, SameFlags, LetGo

LEMMA PenNearOK ==
  ASSUME NEW s, HostOK(s), NEW x \in Pointers
  PROVE  Cleared(s, OnPenNear(s, x))
<1> DEFINE c == CancelHandTouch(s, x)
           t == OnPointerCancel(c, x)
<1>1. LetGo(s, c)
  BY CancelHandOK
<1> HIDE DEF c
<1>2. HostOK(c)
  BY <1>1 DEF LetGo, HostStep
<1>3. Cleared(c, t)
  BY <1>2, PointerCancelOK
<1> HIDE DEF t
<1>4. HostStep(s, t)
  BY <1>1, <1>3, HostStepsCompose DEF LetGo, Cleared
<1>5. InHand(s) => Done(t)
  BY <1>1, <1>2, <1>3, DoneInHand DEF LetGo, Cleared
<1> QED
  BY <1>3, <1>4, <1>5 DEF OnPenNear, Cleared, t, c

-----------------------------------------------------------------------------
(* The pen and the fingers *)

Types ==
    /\ near \in BOOLEAN /\ tip \in BOOLEAN /\ penDrag \in BOOLEAN
    /\ fingers \in 0..2 /\ contacts \in 0..2
    /\ drag \in BOOLEAN /\ pinch \in BOOLEAN /\ dead \in BOOLEAN
    /\ starts \in 0..Starts /\ moves \in 0..Moves
    /\ HostOK(host)

\* The pen is not among the fingers, and who rests holds nothing.
Hand ==
    /\ InHand(host)
    /\ (drag => contacts # 0) /\ (pinch => contacts = 2) /\ ~(drag /\ pinch)
    /\ tip => near
    /\ penDrag => near /\ tip /\ ~drag /\ ~pinch
    /\ Resting => host.lock = "none"
    /\ near /\ ~penDrag => host.lock = "none"
    /\ pinch => host.lock \in {"none", "nav"} /\ ~host.travelDeferred
    /\ host.canvas.busy => ~Resting
    /\ host.canvas.erase => penDrag \/ drag
    /\ host.nibArmed => penDrag

\* What each action is shown to do.
Keeps == Types' /\ HostStep(host, host') /\ (~Racing /\ Hand => Hand')

LEMMA PointersOK ==
  ASSUME HostOK(host)
  PROVE  /\ Nowhere \in Pointers
         /\ \A x \in Places \cup Travels \cup Cancels \cup Lifts : x \in Pointers
         /\ \A x \in Pointers : /\ \A stale \in BOOLEAN : [x EXCEPT !.stale = stale] \in Pointers
                                /\ \A on \in {"empty", "box", "knob"} :
                                      [x EXCEPT !.on = on] \in Pointers
<1>1. host.canvas.cam \in Cams /\ BoxCell \in Cells /\ "ordinary" \in Outcomes
  BY HostFacts, BoxAssumption DEF Outcomes
<1>2. Nowhere \in Pointers
  BY <1>1 DEF Nowhere, Pointers
<1>3. ASSUME NEW x \in Places PROVE x \in Pointers
  <2>1. ASSUME NEW c \in Cells, NEW stale \in BOOLEAN PROVE OnEmpty(c, stale) \in Pointers
    BY <1>1 DEF OnEmpty, Nowhere, Pointers
  <2>2. CASE x \in {OnEmpty(c, stale) : c \in Cells, stale \in BOOLEAN}
    BY <2>1, <2>2
  <2>3. CASE x = [Nowhere EXCEPT !.on = "box"] \/ x = [Nowhere EXCEPT !.on = "knob"]
    BY <1>2, <2>3 DEF Pointers
  <2> QED
    BY <2>2, <2>3 DEF Places
<1>4. ASSUME NEW x \in Travels PROVE x \in Pointers
  BY <1>2 DEF Travels, Pointers
<1>5. ASSUME NEW x \in Cancels PROVE x \in Pointers
  BY <1>2 DEF Cancels, Pointers
<1>6. ASSUME NEW x \in Lifts PROVE x \in Pointers
  <2>1. CASE host.lock = "ink"
    BY <1>5, <2>1 DEF Lifts
  <2>2. CASE host.lock # "ink"
    <3>1. ASSUME NEW hit \in BOOLEAN, NEW c \in Cells PROVE Lifted(hit, c) \in Pointers
      <4>1. {BoxCell} \in SUBSET Cells
        BY <1>1
      <4> QED
        BY <1>1, <4>1 DEF Lifted, Nowhere, Pointers
    <3>2. (IF host.lock = "erase" THEN Cells ELSE {BoxCell}) \subseteq Cells
      BY <1>1
    <3> QED
      BY <2>2, <3>1, <3>2 DEF Lifts
  <2> QED
    BY <2>1, <2>2
<1>7. ASSUME NEW x \in Pointers
      PROVE  /\ \A stale \in BOOLEAN : [x EXCEPT !.stale = stale] \in Pointers
             /\ \A on \in {"empty", "box", "knob"} : [x EXCEPT !.on = on] \in Pointers
  BY DEF Pointers
<1> QED
  BY <1>2, <1>3, <1>4, <1>5, <1>6, <1>7

LEMMA ApproachedOK ==
  ASSUME HostOK(host), NEW c \in Pointers
  PROVE  LET s == Approached(host, c)
         IN  /\ HostStep(host, s) /\ (InHand(host) => InHand(s))
             /\ ~near \/ host.lock = "none" => s.lock = "none"
<1>1. CASE near
  BY <1>1, HostStepRefl DEF Approached
<1>2. CASE ~near
  BY <1>2, PenNearOK, DoneInHand DEF Approached, Cleared, HostStep
<1> QED
  BY <1>1, <1>2

LEMMA GestureOK ==
  ASSUME starts \in 0..Starts, Gesture
  PROVE  starts' \in 0..Starts
  BY InputAssumption DEF Gesture

LEMMA MovesLeftOK ==
  ASSUME moves \in 0..Moves, MovesLeft
  PROVE  moves' \in 0..Moves
  BY InputAssumption DEF MovesLeft

LEMMA PenComesNearOK ==
  ASSUME Types, PenComesNear
  PROVE  Keeps
<1>1. PICK x \in Cancels : host' = OnPenNear(host, x)
  BY DEF PenComesNear
<1>2. HostOK(host) /\ x \in Pointers
  BY PointersOK DEF Types
<1>3. Cleared(host, host')
  BY <1>1, <1>2, PenNearOK
<1>4. Types'
  BY <1>3 DEF Types, PenComesNear, touch, Cleared, HostStep
<1>5. ASSUME ~Racing, Hand PROVE Hand'
  <2>1. Done(host') /\ host'.lock = "none" /\ HostOK(host') /\ InHand(host')
    BY <1>3, <1>5, DoneInHand DEF Hand, Cleared, HostStep
  <2> QED
    BY <1>3, <1>5, <2>1 DEF Hand, Resting, PenComesNear, touch, Cleared, Done
<1> QED
  BY <1>3, <1>4, <1>5 DEF Keeps, Cleared

LEMMA PenTouchesOK ==
  ASSUME Types, PenTouches
  PROVE  Keeps
<1>1. PICK x \in Places, nib \in BOOLEAN, c \in Cancels :
         host' = OnPointerStart(Approached(host, c), TRUE, nib, x)
  BY DEF PenTouches
<1> DEFINE s == Approached(host, c)
<1>2. HostOK(host) /\ x \in Pointers /\ c \in Pointers
  BY PointersOK DEF Types
<1>3. /\ HostStep(host, s) /\ (InHand(host) => InHand(s))
      /\ ~near \/ host.lock = "none" => s.lock = "none"
  BY <1>2, ApproachedOK
<1>4. host' = OnPointerStart(s, TRUE, nib, x)
  BY <1>1
<1> HIDE DEF s
<1>5. HostStep(s, host') /\ (InHand(s) /\ s.lock = "none" => InHand(host'))
  BY <1>2, <1>3, <1>4, PointerStartOK DEF HostStep
<1>6. HostStep(host, host')
  BY <1>2, <1>3, <1>5, HostStepsCompose
<1>7. Types'
  BY <1>6, GestureOK DEF Types, PenTouches, touch, HostStep
<1>8. ASSUME ~Racing, Hand PROVE Hand'
  <2>1. ~drag /\ ~pinch /\ ~penDrag
    BY <1>8 DEF PenTouches
  <2>2. host.lock = "none"
    BY <1>8, <2>1 DEF Hand, Resting
  <2>3. InHand(host')
    BY <1>3, <1>5, <1>8, <2>2 DEF Hand
  <2> QED
    BY <1>8, <2>1, <2>3 DEF Hand, Resting, PenTouches, touch
<1> QED
  BY <1>6, <1>7, <1>8 DEF Keeps

LEMMA PenTravelsOK ==
  ASSUME Types, PenTravels
  PROVE  Keeps
<1>1. PICK x \in Travels, stale \in BOOLEAN :
         host' = OnPointerMove(host, [x EXCEPT !.stale = stale])
  BY DEF PenTravels
<1>2. HostOK(host) /\ [x EXCEPT !.stale = stale] \in Pointers
  BY PointersOK DEF Types
<1>3. /\ HostStep(host, host') /\ (InHand(host) => InHand(host'))
      /\ host'.lock = host.lock /\ host'.nibArmed = host.nibArmed
      /\ host'.canvas.erase = host.canvas.erase
  BY <1>1, <1>2, PointerMoveOK
<1>4. Types'
  BY <1>3 DEF Types, PenTravels, pen, touch, HostStep
<1>5. ASSUME ~Racing, Hand PROVE Hand'
  BY <1>3, <1>5 DEF Hand, Resting, PenTravels, pen, touch
<1> QED
  BY <1>3, <1>4, <1>5 DEF Keeps

LEMMA PenLiftsOK ==
  ASSUME Types, PenLifts
  PROVE  Keeps
<1>1. PICK x \in Lifts, c \in Cancels :
         host' = OnPointerEnd(Approached(host, c), TRUE, x)
  BY DEF PenLifts
<1> DEFINE s == Approached(host, c)
<1>2. HostOK(host) /\ x \in Pointers /\ c \in Pointers
  BY PointersOK DEF Types
<1>3. HostStep(host, s) /\ (InHand(host) => InHand(s))
  BY <1>2, ApproachedOK
<1>4. host' = OnPointerEnd(s, TRUE, x)
  BY <1>1
<1> HIDE DEF s
<1>5. Cleared(s, host')
  BY <1>2, <1>3, <1>4, PointerEndOK DEF HostStep
<1>6. HostStep(host, host')
  BY <1>2, <1>3, <1>5, HostStepsCompose DEF Cleared
<1>7. Types'
  BY <1>6 DEF Types, PenLifts, touch, HostStep
<1>8. ASSUME ~Racing, Hand PROVE Hand'
  <2>1. Done(host') /\ host'.lock = "none" /\ HostOK(host') /\ InHand(host')
    BY <1>3, <1>5, <1>6, <1>8, DoneInHand DEF Hand, Cleared, HostStep
  <2> QED
    BY <1>5, <1>8, <2>1 DEF Hand, Resting, PenLifts, touch, Cleared, Done
<1> QED
  BY <1>6, <1>7, <1>8 DEF Keeps

LEMMA PenLeavesOK ==
  ASSUME Types, PenLeaves
  PROVE  Keeps
<1>1. HostStep(host, host') /\ host' = host
  BY HostStepRefl DEF PenLeaves, Types
<1>2. Types'
  BY <1>1 DEF Types, PenLeaves, touch
<1>3. ASSUME ~Racing, Hand PROVE Hand'
  BY <1>1, <1>3 DEF Hand, Resting, PenLeaves, touch
<1> QED
  BY <1>1, <1>2, <1>3 DEF Keeps

LEMMA FingersUnderPenOK ==
  ASSUME Types, FingersUnderPen
  PROVE  Keeps
<1>1. PICK n \in 0..2, x \in Lifts :
         fingers' = n /\ dead' = (n # 0) /\ host' = Swallowed(host, x)
  BY DEF FingersUnderPen
<1> DEFINE s == IF contacts = 0 THEN host
                ELSE IF pinch THEN OnPinchEnd(host, x)
                ELSE IF drag THEN OnPointerEnd(host, FALSE, x) ELSE host
<1>2. HostOK(host) /\ x \in Pointers
  BY PointersOK DEF Types
<1>3. host' = IF contacts = 0 THEN host ELSE OnContactsCleared(s)
  BY <1>1 DEF Swallowed
<1>4. HostStep(host, s)
  <2>1. HostStep(host, OnPinchEnd(host, x)) /\ HostStep(host, host)
    BY <1>2, PinchEndsOK, HostStepRefl
  <2>2. HostStep(host, OnPointerEnd(host, FALSE, x))
    BY <1>2, PointerEndOK DEF Cleared
  <2> QED
    BY <2>1, <2>2
<1>5. /\ Bracket(s, OnContactsCleared(s)) /\ ~OnContactsCleared(s).canvas.busy
      /\ OnContactsCleared(s).canvas.erase = s.canvas.erase
  <2> HIDE DEF s
  <2> QED
    BY <1>4, ContactsClearedOK DEF HostStep
<1>6. HostStep(host, host')
  <2>1. HostStep(host, OnContactsCleared(s))
    <3> HIDE DEF s
    <3> QED
      BY <1>2, <1>4, <1>5, HostStepsCompose DEF Bracket
  <2>2. HostStep(host, host)
    BY <1>2, HostStepRefl
  <2> HIDE DEF s
  <2> QED
    BY <1>3, <2>1, <2>2
<1>7. Types'
  <2>1. fingers' \in 0..2 /\ dead' \in BOOLEAN /\ HostOK(host')
    BY <1>1, <1>6 DEF HostStep
  <2>2. /\ near' = near /\ tip' = tip /\ penDrag' = penDrag /\ contacts' = 0
        /\ ~drag' /\ ~pinch' /\ drag' \in BOOLEAN /\ pinch' \in BOOLEAN
        /\ starts' = starts /\ moves' = moves
    BY DEF FingersUnderPen, pen
  <2> QED
    BY <2>1, <2>2 DEF Types
<1>8. ASSUME ~Racing, Hand PROVE Hand'
  <2>1. /\ InHand(s) /\ (~penDrag => s.lock = "none")
        /\ (s.canvas.erase => penDrag) /\ (s.nibArmed => penDrag)
    <3>1. CASE contacts # 0 /\ pinch
      <4>1. ~penDrag /\ ~drag /\ s = OnPinchEnd(host, x)
        BY <1>8, <3>1 DEF Hand
      <4>2. Done(s) /\ s.lock = "none" /\ HostOK(s)
        BY <1>2, <1>8, <3>1, <4>1, PinchEndsOK DEF Hand, HostStep
      <4> HIDE DEF s
      <4>3. s.canvas.erase = host.canvas.erase /\ s.nibArmed = host.nibArmed
        BY <1>2, <4>1, PinchEndsOK
      <4> QED
        BY <1>8, <4>1, <4>2, <4>3, DoneInHand DEF Hand
    <3>2. CASE contacts # 0 /\ ~pinch /\ drag
      <4>1. s = OnPointerEnd(host, FALSE, x)
        BY <3>2
      <4> HIDE DEF s
      <4>2. Cleared(host, s)
        BY <1>2, <4>1, PointerEndOK
      <4>3. Done(s) /\ HostOK(s)
        BY <1>8, <4>2 DEF Hand, Cleared, HostStep
      <4> QED
        BY <4>2, <4>3, DoneInHand DEF Cleared
    <3>3. CASE contacts = 0 \/ (~pinch /\ ~drag)
      <4>1. ~pinch /\ ~drag
        BY <1>8, <3>3 DEF Hand
      <4>2. s = host
        BY <4>1
      <4> HIDE DEF s
      <4> QED
        BY <1>8, <4>1, <4>2 DEF Hand, Resting
    <3> QED
      BY <3>1, <3>2, <3>3
  <2>2. host'.canvas.busy => ~Resting'
    <3>1. contacts = 0 => ~pinch /\ ~drag
      BY <1>8 DEF Hand
    <3> QED
      BY <1>3, <1>5, <1>8, <3>1 DEF Hand, Resting, FingersUnderPen, pen
  <2>3. /\ InHand(host') /\ (~penDrag => host'.lock = "none")
        /\ (host'.canvas.erase => penDrag) /\ (host'.nibArmed => penDrag)
    <3>1. contacts = 0 => s = host
      OBVIOUS
    <3> HIDE DEF s
    <3> QED
      BY <1>3, <1>5, <2>1, <3>1 DEF Bracket, SameLock
  <2> QED
    BY <1>8, <2>2, <2>3 DEF Hand, Resting, FingersUnderPen, pen
<1> QED
  BY <1>6, <1>7, <1>8 DEF Keeps

LEMMA CountedOK ==
  ASSUME Types, NEW n \in 0..2, NEW c \in Pointers
  PROVE  LET s == Counted(host, n, c)
         IN  /\ HostStep(host, s) /\ (InHand(host) => InHand(s))
             /\ host.lock = "none" => s.lock = "none"
             /\ s.lock \in {host.lock, "none"}
             /\ ~host.travelDeferred /\ InHand(host) => ~s.travelDeferred
             /\ s.canvas.erase = host.canvas.erase /\ s.nibArmed = host.nibArmed
             /\ (s.canvas.busy => host.canvas.busy)
             /\ n # contacts /\ n >= 2 => s.lock = "none"
<1>1. HostOK(host) /\ contacts \in 0..2
  BY DEF Types
<1>2. CASE n = contacts \/ n = 1
  <2>1. Counted(host, n, c) = host
    BY <1>2 DEF Counted
  <2> QED
    BY <1>1, <1>2, <2>1, HostStepRefl
<1>3. CASE n # contacts /\ n = 2
  <2>1. Counted(host, n, c) = OnSecondContact(host, c)
    BY <1>3 DEF Counted
  <2> HIDE DEF Counted
  <2>2. LET s == OnSecondContact(host, c)
        IN  Routed(host, s) /\ s.lock = "none" /\ (InHand(host) => Done(s))
    BY <1>1, SecondContactOK
  <2> QED
    BY <2>1, <2>2, DoneInHand DEF Routed, SameFlags, HostStep, Done
<1>4. CASE n # contacts /\ n = 0
  <2>1. Counted(host, n, c) = OnContactsCleared(host)
    BY <1>4 DEF Counted
  <2>2. LET s == OnContactsCleared(host)
        IN  Bracket(host, s) /\ ~s.canvas.busy /\ s.canvas.erase = host.canvas.erase
    BY <1>1, ContactsClearedOK
  <2> QED
    BY <1>4, <2>1, <2>2 DEF Bracket, SameLock
<1> QED
  BY <1>2, <1>3, <1>4

LEMMA FingersChangeOK ==
  ASSUME Types, FingersChange
  PROVE  Keeps
<1>1. PICK n \in 0..2, x \in Lifts, c \in Cancels, tapped \in BOOLEAN :
        /\ n # contacts
        /\ IF n > fingers THEN Gesture ELSE UNCHANGED starts
        /\ fingers' = n /\ contacts' = n /\ dead' = (dead /\ n # 0)
        /\ pinch' = (pinch /\ n = 2) /\ drag' = (drag /\ n # 0)
        /\ host' = LET seen == Counted(host, n, c) IN
                   IF pinch /\ n < 2 THEN OnPinchEnd(seen, x)
                   ELSE IF drag /\ n = 0 THEN OnPointerEnd(seen, FALSE, x)
                   ELSE IF n = 0 /\ contacts = 1 /\ ~dead /\ tapped
                   THEN DispatchTap(seen, [x EXCEPT !.on = IF x.hit THEN "box" ELSE "empty"])
                   ELSE seen
  BY DEF FingersChange
<1> DEFINE seen == Counted(host, n, c)
           tap == [x EXCEPT !.on = IF x.hit THEN "box" ELSE "empty"]
           tapping == n = 0 /\ contacts = 1 /\ ~dead /\ tapped
<1>2. HostOK(host) /\ x \in Pointers /\ c \in Pointers
  BY PointersOK DEF Types
<1>3. tap \in Pointers
  <2>1. (IF x.hit THEN "box" ELSE "empty") \in {"empty", "box", "knob"}
    OBVIOUS
  <2> QED
    BY <1>2, <2>1 DEF Pointers
<1>4. /\ HostStep(host, seen) /\ (InHand(host) => InHand(seen))
      /\ host.lock = "none" => seen.lock = "none"
      /\ seen.lock \in {host.lock, "none"}
      /\ ~host.travelDeferred /\ InHand(host) => ~seen.travelDeferred
      /\ seen.canvas.erase = host.canvas.erase /\ seen.nibArmed = host.nibArmed
      /\ (seen.canvas.busy => host.canvas.busy)
      /\ n # contacts /\ n >= 2 => seen.lock = "none"
  BY <1>2, CountedOK
<1>5. host' = IF pinch /\ n < 2 THEN OnPinchEnd(seen, x)
              ELSE IF drag /\ n = 0 THEN OnPointerEnd(seen, FALSE, x)
              ELSE IF tapping THEN DispatchTap(seen, tap) ELSE seen
  BY <1>1
<1> HIDE DEF seen, tap, tapping
<1>a. n \in {0, 1, 2} /\ n # contacts /\ contacts' = n
  BY <1>1
<1>b. pinch' = (pinch /\ n = 2)
  BY <1>1
<1>c. drag' = (drag /\ n # 0)
  BY <1>1
<1>6. HostOK(seen)
  BY <1>4 DEF HostStep
<1>7. LET t == OnPinchEnd(seen, x)
      IN  /\ HostStep(seen, t) /\ t.lock = "none"
          /\ InHand(seen) /\ seen.lock \in {"none", "nav"} /\ ~seen.travelDeferred => Done(t)
          /\ ~t.canvas.busy /\ t.canvas.erase = seen.canvas.erase
          /\ t.nibArmed = seen.nibArmed
  BY <1>2, <1>6, PinchEndsOK
<1>8. Cleared(seen, OnPointerEnd(seen, FALSE, x))
  BY <1>2, <1>6, PointerEndOK
<1>9. Harmless(seen, DispatchTap(seen, tap))
  BY <1>3, <1>6, DispatchTapOK
<1>10. HostStep(seen, host')
  BY <1>5, <1>6, <1>7, <1>8, <1>9, HostStepRefl DEF Cleared, Harmless, Fed
<1>11. HostStep(host, host')
  BY <1>2, <1>4, <1>10, HostStepsCompose
<1>12. Types'
  <2>1. starts' \in 0..Starts
    BY <1>1, GestureOK DEF Types
  <2>2. fingers' \in 0..2 /\ contacts' \in 0..2 /\ HostOK(host')
    BY <1>1, <1>11 DEF HostStep
  <2>3. dead' \in BOOLEAN /\ pinch' \in BOOLEAN /\ drag' \in BOOLEAN
    BY <1>1
  <2>4. near' = near /\ tip' = tip /\ penDrag' = penDrag /\ moves' = moves
    BY DEF FingersChange, pen
  <2> QED
    BY <2>1, <2>2, <2>3, <2>4 DEF Types
<1>13. ASSUME ~Racing, Hand PROVE Hand'
  <2>1. /\ ~near' /\ ~tip' /\ ~penDrag' /\ ~penDrag /\ host.nibArmed = FALSE
        /\ ~host'.nibArmed
    <3>1. ~near /\ ~tip /\ near' = near /\ tip' = tip /\ penDrag' = penDrag
      BY DEF FingersChange, pen
    <3>2. ~penDrag /\ host.nibArmed \in BOOLEAN /\ ~host.nibArmed
      BY <1>2, <1>13, <3>1, HostFacts DEF Hand, HostState
    <3>3. ~host'.nibArmed
      BY <1>4, <1>5, <1>7, <1>8, <1>9, <3>2 DEF Cleared, Harmless, Fed, SameFlags
    <3> QED
      BY <3>1, <3>2, <3>3
  <2>2. InHand(seen)
    BY <1>4, <1>13 DEF Hand
  <2>3. CASE pinch /\ n < 2
    <3>1. ~drag /\ ~drag' /\ ~pinch' /\ host' = OnPinchEnd(seen, x)
      BY <1>1, <1>5, <1>13, <2>3 DEF Hand
    <3>2. seen.lock \in {"none", "nav"} /\ ~seen.travelDeferred
      BY <1>4, <1>13, <2>3 DEF Hand
    <3>3. Done(host') /\ host'.lock = "none" /\ ~host'.canvas.busy /\ InHand(host')
      BY <1>7, <1>11, <2>2, <3>1, <3>2, DoneInHand DEF HostStep
    <3>4. ~host'.canvas.erase
      BY <1>4, <1>7, <1>13, <2>1, <3>1 DEF Hand
    <3> QED
      BY <2>1, <3>1, <3>3, <3>4 DEF Hand, Resting
  <2>4. CASE ~(pinch /\ n < 2) /\ drag /\ n = 0
    <3>1. ~drag' /\ host' = OnPointerEnd(seen, FALSE, x)
      BY <1>1, <1>5, <2>4
    <3>2. ~pinch'
      <4>1. n # 2
        BY <2>4
      <4> QED
        BY <1>b, <4>1
    <3>3. Cleared(seen, host') /\ InHand(host')
      BY <1>8, <1>11, <2>2, <3>1, DoneInHand DEF Cleared, HostStep
    <3> QED
      BY <2>1, <3>1, <3>2, <3>3 DEF Hand, Resting, Cleared
  <2>5. CASE ~(pinch /\ n < 2) /\ ~(drag /\ n = 0)
    <3>1. ~pinch /\ ~pinch' /\ drag' = drag /\ (drag' => contacts' # 0)
      <4>1. contacts \in 0..2 /\ drag \in BOOLEAN /\ (pinch => contacts = 2)
        BY <1>13 DEF Types, Hand
      <4>2. ~pinch
        BY <1>a, <2>5, <4>1
      <4>3. drag' = drag
        BY <1>c, <2>5, <4>1
      <4>4. drag' => contacts' # 0
        BY <1>a, <1>c, <4>1
      <4> QED
        BY <1>b, <4>2, <4>3, <4>4
    <3>2. /\ HostOK(host') /\ host'.lock = seen.lock /\ InHand(host')
          /\ host'.canvas.busy = seen.canvas.busy /\ host'.canvas.erase = seen.canvas.erase
      BY <1>5, <1>9, <1>11, <2>2, <2>5
      DEF HostStep, Harmless, Fed, SameLock, SameFlags
    <3>3. Resting' => host'.lock = "none"
      BY <1>4, <1>13, <2>1, <3>1, <3>2 DEF Hand, Resting
    <3>4. host'.canvas.busy => ~Resting'
      BY <1>4, <1>13, <2>1, <3>1, <3>2 DEF Hand, Resting
    <3>5. host'.canvas.erase => drag'
      BY <1>4, <1>13, <2>1, <3>1, <3>2 DEF Hand
    <3> QED
      BY <2>1, <3>1, <3>2, <3>3, <3>4, <3>5 DEF Hand
  <2> QED
    BY <2>3, <2>4, <2>5
<1> QED
  BY <1>11, <1>12, <1>13 DEF Keeps

LEMMA FingerDragsOK ==
  ASSUME Types, FingerDrags
  PROVE  Keeps
<1>1. HostOK(host) /\ moves' \in 0..Moves
  BY MovesLeftOK DEF Types, FingerDrags
<1>2. CASE drag
  <2>1. PICK x \in Travels : host' = OnPointerMove(host, x)
    BY <1>2 DEF FingerDrags
  <2>2. x \in Pointers
    BY <1>1, PointersOK
  <2>3. /\ HostStep(host, host') /\ (InHand(host) => InHand(host'))
        /\ host'.lock = host.lock /\ host'.nibArmed = host.nibArmed
        /\ host'.canvas.erase = host.canvas.erase
    BY <1>1, <2>1, <2>2, PointerMoveOK
  <2>4. Types'
    BY <1>1, <2>3 DEF Types, FingerDrags, pen, HostStep
  <2>5. ASSUME ~Racing, Hand PROVE Hand'
    BY <1>2, <2>3, <2>5 DEF Hand, Resting, FingerDrags, pen
  <2> QED
    BY <2>3, <2>4, <2>5 DEF Keeps
<1>3. CASE ~drag
  <2>1. PICK x \in Places : host' = OnPointerStart(host, FALSE, FALSE, x)
    BY <1>3 DEF FingerDrags
  <2>2. x \in Pointers
    BY <1>1, PointersOK
  <2>3. /\ HostStep(host, host')
        /\ InHand(host) /\ host.lock = "none" => InHand(host')
        /\ host'.nibArmed = host.nibArmed
    BY <1>1, <2>1, <2>2, PointerStartOK
  <2>4. Types'
    BY <1>1, <2>3 DEF Types, FingerDrags, pen, HostStep
  <2>5. ASSUME ~Racing, Hand PROVE Hand'
    <3>1. Resting
      BY <1>3, <2>5 DEF Hand, Resting, FingerDrags
    <3>2. InHand(host')
      BY <2>3, <2>5, <3>1 DEF Hand
    <3> QED
      BY <2>3, <2>5, <3>1, <3>2 DEF Hand, Resting, FingerDrags, pen
  <2> QED
    BY <2>3, <2>4, <2>5 DEF Keeps
<1> QED
  BY <1>2, <1>3

LEMMA FingersPinchOK ==
  ASSUME Types, FingersPinch
  PROVE  Keeps
<1>1. HostOK(host) /\ moves' \in 0..Moves
  BY MovesLeftOK DEF Types, FingersPinch
<1>2. CASE pinch
  <2>1. PICK x \in Travels : host' = OnPinchUpdate(host, x)
    BY <1>2 DEF FingersPinch
  <2>2. x \in Pointers
    BY <1>1, PointersOK
  <2>3. Bracket(host, host') /\ host'.canvas.erase = host.canvas.erase
    BY <1>1, <2>1, <2>2, PinchMovesOK
  <2>4. Types'
    BY <1>1, <2>3 DEF Types, FingersPinch, pen, Bracket, HostStep
  <2>5. ASSUME ~Racing, Hand PROVE Hand'
    <3>1. ~drag /\ ~penDrag
      BY <1>2, <2>5 DEF Hand
    <3> QED
      BY <1>2, <2>3, <2>5, <3>1
      DEF Hand, Resting, FingersPinch, pen, Bracket, SameLock
  <2> QED
    BY <2>3, <2>4, <2>5 DEF Keeps, Bracket
<1>3. CASE ~pinch
  <2>1. PICK x \in Lifts :
           host' = OnPinchStart(IF drag THEN OnPointerEnd(host, FALSE, x) ELSE host, x)
    BY <1>3 DEF FingersPinch
  <2> DEFINE s == IF drag THEN OnPointerEnd(host, FALSE, x) ELSE host
  <2>2. x \in Pointers
    BY <1>1, PointersOK
  <2>3. drag => Cleared(host, s)
    BY <1>1, <2>2, PointerEndOK
  <2>4. ~drag => s = host
    OBVIOUS
  <2>5. host' = OnPinchStart(s, x)
    BY <2>1
  <2> HIDE DEF s
  <2>6. HostStep(host, s)
    BY <1>1, <2>3, <2>4, HostStepRefl DEF Cleared
  <2>7. /\ HostStep(s, host')
        /\ InHand(s) /\ s.lock = "none"
             => InHand(host') /\ host'.lock \in {"none", "nav"} /\ ~host'.travelDeferred
        /\ host'.nibArmed = s.nibArmed /\ host'.canvas.erase = s.canvas.erase
    BY <2>2, <2>5, <2>6, PinchStartOK DEF HostStep
  <2>8. HostStep(host, host')
    BY <1>1, <2>6, <2>7, HostStepsCompose
  <2>9. Types'
    BY <1>1, <2>8 DEF Types, FingersPinch, pen, HostStep
  <2>10. ASSUME ~Racing, Hand PROVE Hand'
    <3>1. ~penDrag /\ ~near /\ ~tip
      BY <2>10 DEF Hand, FingersPinch
    <3>2. InHand(s) /\ s.lock = "none" /\ ~s.canvas.erase /\ ~s.nibArmed
      <4>1. CASE drag
        BY <2>3, <2>6, <2>10, <4>1, DoneInHand DEF Hand, Cleared, HostStep
      <4>2. CASE ~drag
        BY <1>3, <2>4, <2>10, <3>1, <4>2 DEF Hand, Resting
      <4> QED
        BY <4>1, <4>2
    <3> QED
      BY <2>7, <3>1, <3>2 DEF Hand, Resting, FingersPinch, pen
  <2> QED
    BY <2>8, <2>9, <2>10 DEF Keeps
<1> QED
  BY <1>2, <1>3

LEMMA ChipOK ==
  ASSUME Types, Chip
  PROVE  Keeps
<1>1. HostOK(host) /\ starts' \in 0..Starts /\ Resting
  BY GestureOK DEF Types, Chip
<1>2. PICK x \in Cancels : \/ \E tool \in Tools : host' = SetExclusive(host, tool)
                           \/ host' = TogglePenEraser(host)
                           \/ host' = ToggleHandTouch(host, x)
  BY DEF Chip
<1>3. x \in Pointers
  BY <1>1, PointersOK
<1>4. /\ HostStep(host, host') /\ (host'.canvas.busy => host.canvas.busy)
      /\ host'.canvas.erase = host.canvas.erase /\ host'.nibArmed = host.nibArmed
      /\ InHand(host) /\ host.lock = "none" => InHand(host') /\ host'.lock = "none"
  <2>1. CASE \E tool \in Tools : host' = SetExclusive(host, tool)
    BY <1>1, <2>1, SetExclusiveOK DEF SameFlags, SameLock
  <2>2. CASE host' = TogglePenEraser(host)
    BY <1>1, <2>2, ToggleOK DEF SameFlags, SameLock
  <2>3. CASE host' = ToggleHandTouch(host, x)
    BY <1>1, <1>3, <2>3, ToggleHandOK, DoneInHand DEF HostStep
  <2> QED
    BY <1>2, <2>1, <2>2, <2>3
<1>5. Types'
  BY <1>1, <1>4 DEF Types, Chip, pen, touch, HostStep
<1>6. ASSUME ~Racing, Hand PROVE Hand'
  BY <1>1, <1>4, <1>6 DEF Hand, Resting, Chip, pen, touch
<1> QED
  BY <1>4, <1>5, <1>6 DEF Keeps

\* A change of the canvas that no pointer makes.
LEMMA CanvasKeeps ==
  ASSUME Types, NEW r, GoodStep(host.canvas, r), host' = [host EXCEPT !.canvas = r],
         starts' \in 0..Starts, UNCHANGED <<pen, touch, moves>>
  PROVE  Keeps
<1>1. HostOK(host) /\ Harmless(host, host')
  BY GoodHost DEF Types
<1>2. Types'
  BY <1>1 DEF Types, pen, touch, Harmless, Fed, HostStep
<1>3. ASSUME ~Racing, Hand PROVE Hand'
  BY <1>1, <1>3 DEF Hand, Resting, pen, touch, Harmless, Fed, SameFlags, SameLock
<1> QED
  BY <1>1, <1>2, <1>3 DEF Keeps, Harmless, Fed

LEMMA UndoOrRedoOK ==
  ASSUME Types, UndoOrRedo
  PROVE  Keeps
<1>1. PICK D \in {{c} : c \in Cells} \cup {{}} :
         host' = [host EXCEPT !.canvas = NoteDocument(Change(host.canvas, D), D)]
  BY DEF UndoOrRedo
<1>2. CanvasOK(host.canvas) /\ D \in SUBSET Cells
  BY HostFacts DEF Types
<1>3. GoodStep(host.canvas, NoteDocument(Change(host.canvas, D), D))
  BY <1>2, NoteChangeOK
<1>4. starts' \in 0..Starts /\ UNCHANGED <<pen, touch, moves>>
  BY GestureOK DEF Types, UndoOrRedo
<1> QED
  BY <1>1, <1>3, <1>4, CanvasKeeps

LEMMA CanvasEventOK ==
  ASSUME Types, TimerFires \/ WorkerPosts \/ ResultArrives
  PROVE  Keeps
<1>1. CanvasOK(host.canvas) /\ starts \in 0..Starts
  BY HostFacts DEF Types
<1>2. PICK r : GoodStep(host.canvas, r) /\ Canvas(r)
  BY <1>1, TimerOK, PostedOK, HandledOK DEF TimerFires, WorkerPosts, ResultArrives
<1>3. host' = [host EXCEPT !.canvas = r] /\ UNCHANGED <<pen, touch, starts, moves>>
  BY <1>2 DEF Canvas
<1> QED
  BY <1>1, <1>2, <1>3, CanvasKeeps

-----------------------------------------------------------------------------
(* The theorems *)

LEMMA StepOK ==
  ASSUME Types, [Next]_vars
  PROVE  Keeps
<1>1. CASE UNCHANGED vars
  <2>1. HostStep(host, host') /\ host' = host
    BY <1>1, HostStepRefl DEF vars, Types
  <2> QED
    BY <1>1, <2>1 DEF vars, Types, Hand, Resting, Keeps
<1>2. CASE Next
  BY <1>2, PenComesNearOK, PenTouchesOK, PenTravelsOK, PenLiftsOK, PenLeavesOK,
     FingersUnderPenOK, FingersChangeOK, FingerDragsOK, FingersPinchOK,
     ChipOK, UndoOrRedoOK, CanvasEventOK DEF Next
<1> QED
  BY <1>1, <1>2

LEMMA InitOK ==
  ASSUME Init
  PROVE  Types /\ Hand
<1>1. host = InitialHost /\ CanvasOK(InitialCanvas) /\ ~InitialCanvas.stroke.active
  BY InitialCanvasOK DEF Init
<1>2. /\ host \in HostState /\ host.nibRestore = <<>> /\ ~host.nibArmed
      /\ host.lock = "none" /\ ~host.travelDeferred /\ ~host.pinching
      /\ host.live = "none" /\ host.phase = "Idle" /\ host.canvas = InitialCanvas
  BY <1>1 DEF InitialHost, HostState, Tools, Erasers, Locks, AtMost1, CanvasOK, Base
<1>3. HostOK(host) /\ InHand(host)
  BY <1>1, <1>2 DEF HostOK, InHand, Waits
<1>4. ~host.canvas.busy /\ ~host.canvas.erase
  BY <1>2 DEF InitialCanvas
<1>5. Types
  <2>1. near = FALSE /\ tip = FALSE /\ penDrag = FALSE
        /\ drag = FALSE /\ pinch = FALSE /\ dead = FALSE
    BY DEF Init
  <2>2. fingers = 0 /\ contacts = 0 /\ starts = Starts /\ moves = Moves
    BY DEF Init
  <2>3. fingers \in 0..2 /\ contacts \in 0..2 /\ starts \in 0..Starts /\ moves \in 0..Moves
    BY <2>2, InputAssumption
  <2> QED
    BY <1>3, <2>1, <2>3 DEF Types
<1> QED
  BY <1>2, <1>3, <1>4, <1>5 DEF Hand, Init, Resting

LEMMA TypesInvariant == Spec => []Types
<1>1. Init => Types
  BY InitOK
<1>2. Types /\ [Next]_vars => Types'
  BY StepOK DEF Keeps
<1> QED
  BY <1>1, <1>2, PTL DEF Spec

LEMMA HandInvariant == ASSUME ~Racing PROVE Spec => [](Types /\ Hand)
<1>1. Init => Types /\ Hand
  BY InitOK
<1>2. Types /\ Hand /\ [Next]_vars => (Types /\ Hand)'
  BY StepOK DEF Keeps
<1> QED
  BY <1>1, <1>2, PTL DEF Spec

\* Everything the filter, the host and the canvas keep stays in its type; the
\* bitmap is never newer than the document (TabletCanvasItem).
THEOREM TypeCorrect == Spec => []TypeOK
<1>1. Types => TypeOK
  <2> SUFFICES ASSUME Types PROVE TypeOK
    OBVIOUS
  <2>1. host \in HostState /\ host.canvas \in CanvasState /\ CanvasOK(host.canvas)
    BY HostFacts DEF Types
  <2>2. ASSUME NEW c \in Cells
        PROVE  /\ host.canvas.image[c].ver \in 0..host.canvas.want[c]
               /\ host.canvas.image[c].at \in Cams
    <3>1. /\ host.canvas.image[c].ver \in Nat /\ host.canvas.want[c] \in Nat
          /\ host.canvas.image[c].at \in Cams
      BY <2>1 DEF CanvasState, Image, Trees
    <3>2. host.canvas.image[c].ver <= host.canvas.want[c]
      BY <2>1 DEF CanvasOK, Base, NotAhead
    <3> QED
      BY <3>1, <3>2
  <2>3. /\ host.exclusive \in Tools /\ host.lastUsedEraser \in Erasers
        /\ host.nibRestore \in AtMost1(Tools) /\ host.nibArmed \in BOOLEAN
        /\ host.lock \in {"none", "ink", "move", "resize", "lasso", "nav", "erase"}
        /\ host.phase \in {"Idle", "Selected", "Selecting", "Transforming"}
        /\ host.live \in {"none", "move", "resize"}
        /\ host.pan \in {"None", "Pending", "Active"}
    BY <2>1 DEF HostState, Locks
  <2>4. /\ host.canvas.cam \in Cams /\ host.canvas.rasterCam \in Cams
        /\ host.canvas.why \in {"Unknown", "Camera", "Mutated", "Dirty", "Enclose"}
        /\ host.canvas.dirty \subseteq Cells
    BY <2>1 DEF CanvasState
  <2> QED
    BY <2>2, <2>3, <2>4 DEF TypeOK, Types
<1> QED
  BY <1>1, TypesInvariant, PTL

\* No repaint, sharp result or timer wipes the ink under a moving pen: a
\* stroke starts a new epoch, and what paints while it is drawn is deferred or
\* was asked for in an older one (beginStroke, inkPathCostsMore).
THEOREM InkStays == Spec => []LiveInkKept
<1>1. Types => LiveInkKept
  BY HostFacts DEF Types, LiveInkKept, CanvasOK, Base, InkKept
<1> QED
  BY <1>1, TypesInvariant, PTL

\* Whatever is painted, shifted or applied late, no part of the panel goes back
\* to an older document (onCameraSharpResult, flushDeferred).
THEOREM PictureNeverOlder == Spec => NoOldPicture
<1>1. Types /\ [Next]_vars
        => [\A c \in Cells : host'.canvas.image[c].ver >= host.canvas.image[c].ver]_vars
  BY StepOK DEF Keeps, HostStep, Later
<1> QED
  BY <1>1, TypesInvariant, PTL DEF Spec, NoOldPicture

\* A pen that is heard of before it touches: whatever a gesture has begun, the
\* router still knows whose it is (InputHub, TransformGesture).
THEOREM OperationIsLocked == ASSUME ~Racing PROVE Spec => []InFlightIsLocked
<1>1. Types /\ Hand => InFlightIsLocked
  BY DEF Hand, InHand, InFlightIsLocked
<1> QED
  BY <1>1, HandInvariant, PTL

\* With no handler active nothing of a gesture is left on the canvas, on the
\* router or on the tool chip (ToolCanvasItem, QtInputFilter).
THEOREM RestLeavesNothing == ASSUME ~Racing PROVE Spec => []NothingLeftBehind
<1>1. Types /\ Hand => NothingLeftBehind
  BY DEF Types, Hand, InHand, NothingLeftBehind, HostOK, Resting
<1> QED
  BY <1>1, HandInvariant, PTL

\* Main.qml: while the pen is near, nothing a finger began holds the router.
THEOREM PenComesFirst == ASSUME ~Racing PROVE Spec => []PenOutranksTouch
<1>1. Types /\ Hand => PenOutranksTouch
  BY DEF Hand, PenOutranksTouch
<1> QED
  BY <1>1, HandInvariant, PTL

-----------------------------------------------------------------------------
(***************************************************************************)
(* TabletLink: that the debug log is shipped exactly while its panel is    *)
(* open, for any number of attempts, taps, and changes of cable, desktop   *)
(* and panel.                                                              *)
(*                                                                         *)
(* What the tablet is told goes through two queues: the calls of the panel *)
(* to the main process, and the control lines to the tablet.  The          *)
(* invariant says of each end what the queue will make of it: `Told' is    *)
(* whether the tablet ships once it has read every line, and it is what    *)
(* the main process believes except between the two calls of one toggle.   *)
(***************************************************************************)

Calls == {"open", "close", "debug_start", "debug_stop"}
Lines == {"debug_start", "debug_stop"}

LinkTypes ==
    /\ udc \in UdcStates /\ usb0 \in Interface
    /\ live \in BOOLEAN /\ wasPlugged \in BOOLEAN
    /\ taps \in Nat /\ recovers \in Nat /\ arms \in Nat
    /\ sock \in {"Unconnected", "Connecting", "Connected"}
    /\ retriesLeft \in 0..RetryLimit
    /\ wasConnected \in BOOLEAN /\ shipping \in BOOLEAN
    /\ wire \in Seq(Lines) /\ client \in {"none", "open", "closed"}
    /\ listening \in BOOLEAN /\ panelOpen \in BOOLEAN /\ open \in BOOLEAN
    /\ ipc \in Seq(Calls)

\* A toggle is two calls, the main process's own before the line for the tablet.
InPairs ==
    /\ \A i \in 1..Len(ipc) : ipc[i] = "open" => i < Len(ipc) /\ ipc[i + 1] = "debug_start"
    /\ \A i \in 1..Len(ipc) : ipc[i] = "close" => i < Len(ipc) /\ ipc[i + 1] = "debug_stop"
    /\ \A i \in 1..Len(ipc) :
            ipc[i] \in Lines => i = Len(ipc) \/ ipc[i + 1] \in {"open", "close"}

\* The last call says how the panel is.
LastCall == ipc # <<>> => ipc[Len(ipc)] = IF open THEN "debug_start" ELSE "debug_stop"

\* What the main process believes, by the call it takes next.
Believed ==
    /\ ipc = <<>> => panelOpen = open
    /\ ipc # <<>> /\ ipc[1] = "debug_start" => panelOpen
    /\ ipc # <<>> /\ ipc[1] = "debug_stop" => ~panelOpen
    /\ ~listening => ipc = <<>> /\ ~panelOpen /\ ~open

\* Whether the tablet ships when it has read the lines on their way.
Told == IF wire = <<>> THEN shipping ELSE wire[Len(wire)] = "debug_start"
TwoEnds ==
    /\ sock # "Connected" => ~shipping
    /\ client = "none" => wire = <<>>
    /\ sock = "Unconnected" => client = "none"
    /\ sock = "Connected" => client # "none"
    /\ client = "open" /\ (ipc = <<>> \/ ipc[1] \in {"open", "close"}) => Told = panelOpen
    /\ client = "open" => listening

Panel == InPairs /\ LastCall /\ Believed
LinkInv == LinkTypes /\ Panel /\ TwoEnds

-----------------------------------------------------------------------------
(* The steps of the panel and the main process. *)

\* Nothing is on its way in the beginning.
LEMMA LinkInitInv == LinkInit => LinkInv
<1> SUFFICES ASSUME LinkInit PROVE LinkInv
  OBVIOUS
<1>1. RetryLimit \in 0..RetryLimit
  BY LinkAssumption
<1>2. <<>> \in Seq(Calls) /\ <<>> \in Seq(Lines) /\ Len(<<>>) = 0
  OBVIOUS
<1>3. LinkTypes
  BY <1>1, <1>2 DEF LinkInit, LinkTypes
<1>4. Panel
  <2>1. ipc = <<>> /\ panelOpen = open /\ panelOpen = FALSE
    BY DEF LinkInit
  <2>2. \A i \in 1..Len(ipc) : FALSE
    BY <1>2, <2>1
  <2> QED BY <2>1, <2>2 DEF Panel, InPairs, LastCall, Believed
<1>5. TwoEnds
  BY DEF LinkInit, TwoEnds, Told
<1> QED BY <1>3, <1>4, <1>5 DEF LinkInv

\* The desktop's part of the invariant is about the desktop's variables.
LEMMA PanelSame == Panel /\ deskVars' = deskVars => Panel'
BY DEF Panel, InPairs, LastCall, Believed, deskVars

\* A toggle puts a pair behind the calls there are.
LEMMA ToggleStep == LinkInv /\ Toggle => LinkInv'
<1> SUFFICES ASSUME LinkInv, Toggle PROVE LinkInv'
  OBVIOUS
<1> DEFINE n == Len(ipc)
           x == IF open THEN "close" ELSE "open"
           y == IF open THEN "debug_stop" ELSE "debug_start"
<1>1. /\ listening /\ open' = ~open /\ open \in BOOLEAN /\ ipc \in Seq(Calls)
      /\ panelOpen' = panelOpen /\ listening' = listening
      /\ wire' = wire /\ client' = client /\ sock' = sock /\ shipping' = shipping
  BY DEF Toggle, LinkInv, LinkTypes, sockVars
<1>2. ipc' = ipc \o <<x, y>> /\ x \in Calls /\ y \in Calls
  BY <1>1 DEF Toggle, Calls
<1> HIDE DEF x, y
<1>3. /\ ipc' \in Seq(Calls) /\ n \in Nat /\ Len(ipc') = n + 2
      /\ \A i \in 1..n : ipc'[i] = ipc[i]
      /\ ipc'[n + 1] = x /\ ipc'[n + 2] = y
  BY <1>1, <1>2
<1> HIDE DEF n
<1>4. ipc' # <<>> /\ (ipc # <<>> => ipc'[1] = ipc[1]) /\ (ipc = <<>> => ipc'[1] = x)
  <2>1. ipc' # <<>>
    BY <1>3
  <2>2. ipc # <<>> => 1 \in 1..n
    BY <1>1 DEF n
  <2>3. ipc = <<>> => n + 1 = 1
    BY DEF n
  <2> QED BY <1>3, <2>1, <2>2, <2>3
<1>5. LinkTypes'
  BY <1>1, <1>3 DEF Toggle, LinkInv, LinkTypes, usbVars, sockVars
<1>6. InPairs'
  <2>1. \A i \in 1..(n + 2) :
            \/ i \in 1..n
            \/ i = n + 1 /\ i < n + 2 /\ i + 1 = n + 2
            \/ i = n + 2
    BY <1>3
  <2>2. ASSUME NEW i \in 1..n
        PROVE  /\ ipc'[i] = "open" => i < n + 2 /\ ipc'[i + 1] = "debug_start"
               /\ ipc'[i] = "close" => i < n + 2 /\ ipc'[i + 1] = "debug_stop"
               /\ ipc'[i] \in Lines => i = n + 2 \/ ipc'[i + 1] \in {"open", "close"}
    <3>1. (i < n => i + 1 \in 1..n /\ i < n + 2) /\ (i < n \/ i = n)
      BY <1>3
    <3>2. /\ ipc[i] = "open" => i < n /\ ipc[i + 1] = "debug_start"
          /\ ipc[i] = "close" => i < n /\ ipc[i + 1] = "debug_stop"
          /\ ipc[i] \in Lines => i = n \/ ipc[i + 1] \in {"open", "close"}
      BY DEF LinkInv, Panel, InPairs, n
    <3>3. x \in {"open", "close"}
      BY DEF x
    <3>4. CASE i < n
      BY <1>3, <3>1, <3>2, <3>4
    <3>5. CASE i = n
      BY <1>3, <3>2, <3>3, <3>5
    <3> QED BY <3>1, <3>4, <3>5
  <2>3. /\ x = "open" => y = "debug_start"
        /\ x = "close" => y = "debug_stop"
        /\ y \notin {"open", "close"} /\ x \notin Lines
    BY DEF x, y, Lines
  <2>4. /\ \A i \in 1..(n + 2) : ipc'[i] = "open" => i < n + 2 /\ ipc'[i + 1] = "debug_start"
        /\ \A i \in 1..(n + 2) : ipc'[i] = "close" => i < n + 2 /\ ipc'[i + 1] = "debug_stop"
        /\ \A i \in 1..(n + 2) :
                ipc'[i] \in Lines => i = n + 2 \/ ipc'[i + 1] \in {"open", "close"}
    BY <1>3, <2>1, <2>2, <2>3
  <2> QED BY <1>3, <2>4 DEF InPairs
<1>7. LastCall'
  BY <1>1, <1>3 DEF LastCall, y
<1>8. x \notin {"debug_start", "debug_stop"} /\ x \in {"open", "close"}
  BY DEF x
<1>9. Believed'
  BY <1>1, <1>4, <1>8 DEF LinkInv, Panel, Believed
<1>10. TwoEnds'
  <2>1. Told' = Told
    BY <1>1 DEF Told
  <2> QED BY <1>1, <1>4, <1>8, <2>1 DEF LinkInv, TwoEnds
<1> QED BY <1>5, <1>6, <1>7, <1>9, <1>10 DEF LinkInv, Panel

\* The main process takes a call; the tablet is told what it believes.
LEMMA OnIpcStep == LinkInv /\ OnIpc => LinkInv'
<1> SUFFICES ASSUME LinkInv, OnIpc PROVE LinkInv'
  OBVIOUS
<1> DEFINE n == Len(ipc)
<1>1. /\ ipc \in Seq(Calls) /\ ipc # <<>> /\ ipc' = Tail(ipc) /\ Head(ipc) = ipc[1]
      /\ wire \in Seq(Lines) /\ open' = open /\ listening' = listening
      /\ client' = client /\ sock' = sock /\ shipping' = shipping
  BY DEF OnIpc, LinkInv, LinkTypes, sockVars
<1>2. /\ n \in Nat \ {0} /\ Len(ipc') = n - 1 /\ ipc' \in Seq(Calls)
      /\ \A i \in 1..(n - 1) : ipc'[i] = ipc[i + 1]
  BY <1>1
<1>3. ipc[1] \in Calls
  BY <1>1, <1>2
<1>4. panelOpen' = IF ipc[1] = "open" THEN TRUE
                   ELSE IF ipc[1] = "close" THEN FALSE ELSE panelOpen
  BY <1>1 DEF OnIpc
<1>5. wire' = IF ipc[1] \in Lines /\ client = "open" THEN Append(wire, ipc[1]) ELSE wire
  BY <1>1 DEF OnIpc, Lines
<1>6. wire' \in Seq(Lines)
  BY <1>1, <1>5
<1>7. LinkTypes'
  <2>1. panelOpen' \in BOOLEAN
    BY <1>4 DEF LinkInv, LinkTypes
  <2> QED BY <1>1, <1>2, <1>6, <2>1 DEF OnIpc, LinkInv, LinkTypes, usbVars, sockVars
<1> HIDE DEF n
<1>8. /\ \A i \in 1..n : ipc[i] = "open" => i < n /\ ipc[i + 1] = "debug_start"
      /\ \A i \in 1..n : ipc[i] = "close" => i < n /\ ipc[i + 1] = "debug_stop"
      /\ \A i \in 1..n : ipc[i] \in Lines => i = n \/ ipc[i + 1] \in {"open", "close"}
      /\ ipc[n] = IF open THEN "debug_start" ELSE "debug_stop"
  BY <1>1 DEF LinkInv, Panel, InPairs, LastCall, n
<1>9. InPairs'
  <2>1. ASSUME NEW i \in 1..(n - 1)
        PROVE  /\ ipc'[i] = "open" => i < n - 1 /\ ipc'[i + 1] = "debug_start"
               /\ ipc'[i] = "close" => i < n - 1 /\ ipc'[i + 1] = "debug_stop"
               /\ ipc'[i] \in Lines => i = n - 1 \/ ipc'[i + 1] \in {"open", "close"}
    <3>1. /\ i + 1 \in 1..n
          /\ i + 1 < n => i + 1 \in 1..(n - 1) /\ i < n - 1
          /\ i + 1 < n \/ (i + 1 = n /\ i = n - 1)
          /\ ~(n < n)
      BY <1>2
    <3>2. ipc'[i] = ipc[i + 1]
      BY <1>2
    <3>3. CASE i + 1 < n
      <4>1. ipc'[i + 1] = ipc[(i + 1) + 1] /\ i + 1 # n
        BY <1>2, <3>1, <3>3
      <4> QED BY <1>8, <3>1, <3>2, <3>3, <4>1
    <3>4. CASE i + 1 = n /\ i = n - 1
      <4>1. ipc[i + 1] \notin {"open", "close"}
        BY <1>8, <3>1, <3>4
      <4> QED BY <3>2, <3>4, <4>1
    <3> QED BY <3>1, <3>3, <3>4
  <2> QED BY <1>2, <2>1 DEF InPairs
<1>10. ipc' # <<>> => n - 1 \in 1..(n - 1) /\ 1 \in 1..(n - 1) /\ (n - 1) + 1 = n /\ n # 1
  BY <1>2
<1>11. ipc' = <<>> => n = 1
  BY <1>2
<1>12. LastCall'
  BY <1>1, <1>2, <1>8, <1>10 DEF LastCall
<1>13. /\ ipc[1] = "open" => ipc' # <<>> /\ ipc'[1] = "debug_start"
       /\ ipc[1] = "close" => ipc' # <<>> /\ ipc'[1] = "debug_stop"
       /\ ipc[1] \in Lines => ipc' = <<>> \/ ipc'[1] \in {"open", "close"}
  <2>1. 1 \in 1..n /\ (1 < n => ipc' # <<>>) /\ (n = 1 => ipc' = <<>>)
    BY <1>2
  <2>2. ipc' # <<>> => ipc'[1] = ipc[1 + 1]
    BY <1>2, <1>10
  <2> QED BY <1>8, <2>1, <2>2
<1>14. /\ ipc[1] = "debug_start" => panelOpen
       /\ ipc[1] = "debug_stop" => ~panelOpen
       /\ listening
  BY <1>1 DEF LinkInv, Panel, Believed
<1>15. ipc' = <<>> => ipc[1] = IF open THEN "debug_start" ELSE "debug_stop"
  BY <1>8, <1>11
<1>16. Believed'
  <2>1. /\ ipc' = <<>> => panelOpen' = open
        /\ panelOpen \in BOOLEAN /\ open \in BOOLEAN
    BY <1>4, <1>14, <1>15 DEF LinkInv, LinkTypes
  <2>2. /\ ipc' # <<>> /\ ipc'[1] = "debug_start" => panelOpen'
        /\ ipc' # <<>> /\ ipc'[1] = "debug_stop" => ~panelOpen'
    BY <1>3, <1>4, <1>13 DEF Calls, Lines
  <2> QED BY <1>1, <1>14, <2>1, <2>2 DEF Believed
<1>17. TwoEnds'
  <2>1. client = "none" => wire' = <<>>
    BY <1>5 DEF LinkInv, TwoEnds
  <2>2. ASSUME client = "open", ipc' = <<>> \/ ipc'[1] \in {"open", "close"}
        PROVE  Told' = panelOpen'
    <3>1. ipc[1] \in Lines
      BY <1>3, <1>13, <2>2 DEF Calls, Lines
    <3>2. wire' = Append(wire, ipc[1]) /\ panelOpen' = panelOpen
      BY <1>4, <1>5, <2>2, <3>1 DEF Lines
    <3>3. wire' # <<>> /\ wire'[Len(wire')] = ipc[1]
      BY <1>1, <3>2
    <3>4. panelOpen \in BOOLEAN
      BY DEF LinkInv, LinkTypes
    <3> QED BY <1>14, <3>1, <3>2, <3>3, <3>4 DEF Told, Lines
  <2> QED BY <1>1, <2>1, <2>2 DEF LinkInv, TwoEnds
<1> QED BY <1>7, <1>9, <1>12, <1>16, <1>17 DEF LinkInv, Panel

\* The desktop goes, comes or drops its sockets: a tablet it no longer counts is
\* not spoken of, and a desktop that starts has its panel closed.
LEMMA DesktopStep == LinkInv /\ (DropAllRmSockets \/ DesktopQuits \/ DesktopStarts) => LinkInv'
<1> SUFFICES ASSUME LinkInv, DropAllRmSockets \/ DesktopQuits \/ DesktopStarts PROVE LinkInv'
  OBVIOUS
<1>1. /\ usbVars' = usbVars /\ taps' = taps /\ recovers' = recovers /\ arms' = arms
      /\ sockVars' = sockVars /\ wire' = wire
  BY DEF DropAllRmSockets, DesktopQuits, DesktopStarts
<1>2. Told' = Told
  BY <1>1 DEF Told, sockVars
<1>3. <<>> \in Seq(Calls) /\ Len(<<>>) = 0
  OBVIOUS
<1>4. CASE DropAllRmSockets
  <2>1. deskVars' = deskVars /\ client = "open" /\ client' = "closed"
    BY <1>4 DEF DropAllRmSockets, Shut
  <2>2. Panel'
    BY <2>1, PanelSame DEF LinkInv
  <2> QED BY <1>1, <2>1, <2>2 DEF LinkInv, LinkTypes, TwoEnds, usbVars, sockVars, deskVars
<1>5. CASE DesktopQuits
  <2>1. Panel'
    <3>1. ipc' = <<>> /\ panelOpen' = FALSE /\ open' = FALSE
      BY <1>5 DEF DesktopQuits
    <3>2. \A i \in 1..Len(ipc') : FALSE
      BY <1>3, <3>1
    <3> QED BY <3>1, <3>2 DEF Panel, InPairs, LastCall, Believed
  <2> QED BY <1>1, <1>2, <1>3, <1>5, <2>1
          DEF LinkInv, LinkTypes, TwoEnds, DesktopQuits, Shut, usbVars, sockVars
<1>6. CASE DesktopStarts
  <2>1. client' = client /\ panelOpen' = panelOpen /\ open' = open /\ ipc' = ipc /\ listening'
        /\ listening' \in BOOLEAN
    BY <1>6 DEF DesktopStarts
  <2>2. Panel'
    BY <2>1 DEF LinkInv, Panel, InPairs, LastCall, Believed
  <2> QED BY <1>1, <1>2, <2>1, <2>2 DEF LinkInv, LinkTypes, TwoEnds, usbVars, sockVars
<1> QED BY <1>4, <1>5, <1>6

-----------------------------------------------------------------------------
(* The steps of the tablet and its socket. *)

\* A connection that ends is the end of everything that was said on it.
LEMMA DisconnectedEnds ==
    ASSUME LinkInv, NEW retries \in 0..RetryLimit, Disconnected(retries), deskVars' = deskVars,
           usbVars' = usbVars, taps' \in Nat, recovers' \in Nat, arms' \in Nat
    PROVE  LinkInv'
<1>1. RetryLimit \in 0..RetryLimit
  BY LinkAssumption
<1>2. <<>> \in Seq(Lines)
  OBVIOUS
<1>3. LinkTypes'
  BY <1>1, <1>2 DEF LinkInv, LinkTypes, Disconnected, usbVars, deskVars
<1>4. TwoEnds'
  BY DEF TwoEnds, Disconnected
<1>5. Panel'
  BY PanelSame DEF LinkInv
<1> QED BY <1>3, <1>4, <1>5 DEF LinkInv

\* An attempt to connect, or its refusal.
LEMMA TryConnectStep ==
    ASSUME LinkInv, NEW retries \in 0..RetryLimit, TryConnect(retries), deskVars' = deskVars,
           usbVars' = usbVars, taps' \in Nat, recovers' \in Nat, arms' \in Nat
    PROVE  LinkInv'
<1>1. CASE Disconnected(retries)
  BY <1>1, DisconnectedEnds
<1>2. CASE ~Disconnected(retries)
  <2>1. /\ wire' = wire /\ client' = client /\ shipping' = shipping /\ wasConnected' = wasConnected
        /\ retriesLeft' = retries \/ (retries > 0 /\ retriesLeft' = retries - 1)
        /\ sock' = sock \/ (sock = "Unconnected" /\ sock' = "Connecting")
    BY <1>2 DEF TryConnect
  <2>2. retriesLeft' \in 0..RetryLimit
    BY <2>1, LinkAssumption
  <2>3. LinkTypes'
    BY <2>1, <2>2 DEF LinkInv, LinkTypes, usbVars, deskVars
  <2>4. Told' = Told
    BY <2>1 DEF Told
  <2>5. TwoEnds'
    BY <2>1, <2>4 DEF LinkInv, TwoEnds, deskVars
  <2>6. Panel'
    BY PanelSame DEF LinkInv
  <2> QED BY <2>3, <2>5, <2>6 DEF LinkInv
<1> QED BY <1>1, <1>2

\* The socket connects, fails, is accepted, or has a line to read.
LEMMA SocketStep == LinkInv /\ (OnConnected \/ OnSocketError \/ DrainTick \/ Accept) => LinkInv'
<1> SUFFICES ASSUME LinkInv, OnConnected \/ OnSocketError \/ DrainTick \/ Accept PROVE LinkInv'
  OBVIOUS
<1>1. /\ usbVars' = usbVars /\ taps' = taps /\ recovers' = recovers /\ arms' = arms
      /\ deskVars' = deskVars /\ taps \in Nat /\ recovers \in Nat /\ arms \in Nat
      /\ retriesLeft \in 0..RetryLimit /\ RetryLimit \in 0..RetryLimit
  BY LinkAssumption DEF OnConnected, OnSocketError, DrainTick, Accept, LinkInv, LinkTypes
<1>2. Panel'
  BY <1>1, PanelSame DEF LinkInv
<1>3. CASE OnSocketError \/ DrainTick
  BY <1>1, <1>3, DisconnectedEnds DEF OnSocketError, DrainTick
<1>4. CASE OnConnected
  <2>1. CASE live
    <3>1. /\ sock' = "Connected" /\ retriesLeft' = RetryLimit /\ wasConnected' = live
          /\ shipping' = shipping /\ wire' = wire /\ client' = client /\ client # "none"
      BY <1>4, <2>1 DEF OnConnected
    <3>2. Told' = Told
      BY <3>1 DEF Told
    <3>3. LinkTypes'
      BY <1>1, <3>1 DEF LinkInv, LinkTypes, usbVars, deskVars
    <3>4. TwoEnds'
      BY <1>1, <3>1, <3>2 DEF LinkInv, TwoEnds, deskVars
    <3> QED BY <1>2, <3>3, <3>4 DEF LinkInv
  <2>2. CASE ~live
    <3>1. /\ sock' = "Unconnected" /\ shipping' = FALSE /\ wire' = <<>> /\ client' = "none"
          /\ retriesLeft' = RetryLimit /\ wasConnected' = live
      BY <1>4, <2>2 DEF OnConnected
    <3>2. <<>> \in Seq(Lines)
      OBVIOUS
    <3>3. LinkTypes'
      BY <1>1, <3>1, <3>2 DEF LinkInv, LinkTypes, usbVars, deskVars
    <3>4. TwoEnds'
      BY <3>1 DEF TwoEnds
    <3> QED BY <1>2, <3>3, <3>4 DEF LinkInv
  <2> QED BY <2>1, <2>2
<1>5. CASE Accept
  <2>1. /\ sock = "Connecting" /\ client' = "open" /\ listening /\ sockVars' = sockVars
        /\ wire' = IF panelOpen THEN <<"debug_start">> ELSE <<>>
    BY <1>5 DEF Accept, CanReach
  <2>2. shipping = FALSE /\ shipping' = shipping /\ sock' = sock /\ panelOpen' = panelOpen
        /\ listening' = listening /\ panelOpen \in BOOLEAN
    BY <1>1, <2>1 DEF LinkInv, LinkTypes, TwoEnds, sockVars, deskVars
  <2>3. /\ <<>> \in Seq(Lines) /\ <<"debug_start">> \in Seq(Lines)
        /\ <<"debug_start">> # <<>> /\ Len(<<"debug_start">>) = 1
        /\ <<"debug_start">>[1] = "debug_start"
    BY DEF Lines
  <2>4. Told' = panelOpen'
    BY <2>1, <2>2, <2>3 DEF Told
  <2>5. LinkTypes'
    BY <1>1, <2>1, <2>3 DEF LinkInv, LinkTypes, usbVars, sockVars, deskVars
  <2>6. TwoEnds'
    BY <2>1, <2>2, <2>4 DEF TwoEnds
  <2> QED BY <1>2, <2>5, <2>6 DEF LinkInv
<1> QED BY <1>3, <1>4, <1>5

\* A line that is read makes the tablet ship or not, as Told said it would.
LEMMA OnReadyReadStep == LinkInv /\ OnReadyRead => LinkInv'
<1> SUFFICES ASSUME LinkInv, OnReadyRead PROVE LinkInv'
  OBVIOUS
<1> DEFINE n == Len(wire)
<1>1. /\ wire \in Seq(Lines) /\ wire # <<>> /\ wire' = Tail(wire) /\ sock = "Connected"
      /\ shipping' = (wire[1] = "debug_start") /\ sock' = sock /\ client' = client
      /\ deskVars' = deskVars /\ usbVars' = usbVars
  BY DEF OnReadyRead, LinkInv, LinkTypes
<1>2. /\ n \in Nat \ {0} /\ Len(wire') = n - 1 /\ wire' \in Seq(Lines)
      /\ \A i \in 1..(n - 1) : wire'[i] = wire[i + 1]
  BY <1>1
<1>3. LinkTypes'
  BY <1>1, <1>2 DEF OnReadyRead, LinkInv, LinkTypes, usbVars, deskVars
<1> HIDE DEF n
<1>4. Told' = Told
  <2>1. CASE wire' = <<>>
    <3>1. n = 1
      BY <1>2, <2>1
    <3> QED BY <1>1, <2>1, <3>1 DEF Told, n
  <2>2. CASE wire' # <<>>
    <3>1. n - 1 \in 1..(n - 1) /\ (n - 1) + 1 = n
      BY <1>2, <2>2
    <3>2. wire'[Len(wire')] = wire[n]
      BY <1>2, <3>1
    <3> QED BY <1>1, <2>2, <3>2 DEF Told, n
  <2> QED BY <2>1, <2>2
<1>5. client # "none"
  BY <1>1 DEF LinkInv, TwoEnds
<1>6. TwoEnds'
  BY <1>1, <1>4, <1>5 DEF LinkInv, TwoEnds, deskVars
<1>7. Panel'
  BY <1>1, PanelSame DEF LinkInv
<1> QED BY <1>3, <1>6, <1>7 DEF LinkInv

\* The cable, the probe and the calls between the threads say nothing of the panel.
LEMMA UsbStep ==
    LinkInv /\ (Refresh \/ Tap \/ Recover \/ OnRecoverApps \/ Cable) => LinkInv'
<1> SUFFICES ASSUME LinkInv, Refresh \/ Tap \/ Recover \/ OnRecoverApps \/ Cable PROVE LinkInv'
  OBVIOUS
<1>1. /\ sockVars' = sockVars /\ wire' = wire /\ client' = client /\ deskVars' = deskVars
      /\ usb0 \in Interface /\ taps \in Nat /\ recovers \in Nat /\ arms \in Nat
  BY DEF Refresh, Tap, Recover, OnRecoverApps, Cable, LinkInv, LinkTypes
<1>2. Assigned(usb0) \in Interface
  BY <1>1 DEF Assigned, Interface
<1>3. ASSUME NEW found \in Interface, NEW asked \in Nat, Probe(found, asked)
      PROVE  /\ usb0' \in Interface /\ live' \in BOOLEAN /\ wasPlugged' \in BOOLEAN
             /\ recovers' \in Nat
  <2>1. usb0' \in Interface
    BY <1>3 DEF Probe, Assigned, Interface
  <2>2. live' \in BOOLEAN /\ wasPlugged' \in BOOLEAN
    BY <1>3 DEF Probe, Plugged, Unplugged
  <2>3. recovers' \in Nat
    BY <1>1, <1>3 DEF Probe
  <2> QED BY <2>1, <2>2, <2>3
<1>4. /\ udc' \in UdcStates /\ usb0' \in Interface
      /\ live' \in BOOLEAN /\ wasPlugged' \in BOOLEAN
      /\ taps' \in Nat /\ recovers' \in Nat /\ arms' \in Nat
  <2>1. CASE Refresh
    BY <1>1, <1>3, <2>1 DEF Refresh, LinkInv, LinkTypes
  <2>2. CASE Recover
    BY <1>1, <1>2, <1>3, <2>2 DEF Recover, LinkInv, LinkTypes
  <2>3. CASE Tap \/ OnRecoverApps \/ Cable
    BY <1>1, <2>3 DEF Tap, OnRecoverApps, Cable, LinkInv, LinkTypes, usbVars
  <2> QED BY <2>1, <2>2, <2>3
<1>5. LinkTypes'
  BY <1>1, <1>4 DEF LinkInv, LinkTypes, sockVars, deskVars
<1>6. Told' = Told
  BY <1>1 DEF Told, sockVars
<1>7. TwoEnds'
  BY <1>1, <1>6 DEF LinkInv, TwoEnds, sockVars, deskVars
<1>8. Panel'
  BY <1>1, PanelSame DEF LinkInv
<1> QED BY <1>5, <1>7, <1>8 DEF LinkInv

-----------------------------------------------------------------------------
(* Every step, and the theorem. *)

\* Each action keeps the invariant.
LEMMA LinkNextInv == LinkInv /\ [LinkNext]_linkVars => LinkInv'
<1> SUFFICES ASSUME LinkInv, [LinkNext]_linkVars PROVE LinkInv'
  OBVIOUS
<1>1. CASE Refresh \/ Tap \/ Recover \/ OnRecoverApps \/ Cable
  BY <1>1, UsbStep
<1>2. CASE ArmReconnect \/ RetryTick
  <2>1. /\ deskVars' = deskVars /\ usbVars' = usbVars
        /\ taps' \in Nat /\ recovers' \in Nat /\ arms' \in Nat
    BY <1>2 DEF ArmReconnect, RetryTick, LinkInv, LinkTypes
  <2>2. RetryLimit \in 0..RetryLimit /\ retriesLeft \in 0..RetryLimit
    BY LinkAssumption DEF LinkInv, LinkTypes
  <2> QED BY <1>2, <2>1, <2>2, TryConnectStep DEF ArmReconnect, RetryTick
<1>3. CASE OnConnected \/ OnSocketError \/ DrainTick \/ Accept
  BY <1>3, SocketStep
<1>4. CASE OnReadyRead
  BY <1>4, OnReadyReadStep
<1>5. CASE OnIpc
  BY <1>5, OnIpcStep
<1>6. CASE Toggle
  BY <1>6, ToggleStep
<1>7. CASE DropAllRmSockets \/ DesktopQuits \/ DesktopStarts
  BY <1>7, DesktopStep
<1>8. CASE UNCHANGED linkVars
  <2>1. LinkTypes'
    BY <1>8 DEF LinkInv, LinkTypes, linkVars, usbVars, sockVars, deskVars
  <2>2. TwoEnds'
    BY <1>8 DEF LinkInv, TwoEnds, Told, linkVars, sockVars, deskVars
  <2>3. Panel'
    BY <1>8, PanelSame DEF LinkInv, linkVars
  <2> QED BY <2>1, <2>2, <2>3 DEF LinkInv
<1> QED BY <1>1, <1>2, <1>3, <1>4, <1>5, <1>6, <1>7, <1>8 DEF LinkNext

\* Once the calls of the panel have arrived the tablet ships exactly while the panel
\* is open, for any number of connections, attempts and toggles and whatever the
\* cable and the desktop do.
THEOREM PanelHolds == LinkSpec => []PanelDecides
<1>1. LinkInv => PanelDecides
  BY DEF LinkInv, Panel, Believed, TwoEnds, Told, PanelDecides
<1> QED BY <1>1, LinkInitInv, LinkNextInv, PTL DEF LinkSpec
=============================================================================
