---------------------------- MODULE PageGestures ----------------------------
(***************************************************************************)
(* The gestures on what is already on the page: the three erasers          *)
(* (erase_commit, erase_area, erase_object), selecting, grouping the       *)
(* selection (surround_create), moving an ink box (transform_gesture,      *)
(* nested_inkbox) and the clipboard (drawing/tools/clipboard.hpp).         *)
(*                                                                         *)
(* A swept or lassoed region is a set of cells, an interval.               *)
(***************************************************************************)
EXTENDS PenUp

CONSTANT RemnantFloor    \* kEraseRemnantFloorMm, in cells
ASSUME FloorAssumption == RemnantFloor \in Nat \ {0}

(***************************************************************************)
(* Contexts.  Paint, hit tests, bounds and the choice of a move's parent   *)
(* compose the transforms of all ancestors; the erasers, membership,       *)
(* connectors and the clipboard use the immediate box's only.              *)
(***************************************************************************)
Ctx(page, x) ==
    LET up == Tail(Chain(page, x))
        ctx[i \in 0..Len(up)] ==
            IF i = 0 THEN 0
            ELSE ctx[i - 1] + (IF Of(page, up[i], "box") THEN page.node[up[i]].at ELSE 0)
    IN  ctx[Len(up)]
ContentCtx(page, b) == IF b = Root THEN 0 ELSE Ctx(page, b) + page.node[b].at
ComposedBounds(page, b) == Shift(Bounds(page, b), Ctx(page, b))
OwnAt(page, x) == LET b == ParentOf(page, x) IN IF Of(page, b, "box") THEN page.node[b].at ELSE 0

\* A walk of the tree, parents before children, siblings in paint order.
PaintOrder(page) ==
    LET walk[i \in 0..Cardinality(Ids(page))] ==
            IF i = 0 THEN [x \in DOMAIN page.kids |-> << >>]
            ELSE [x \in DOMAIN page.kids |->
                    FlattenSeq([k \in DOMAIN page.kids[x] |->
                        <<page.kids[x][k]>> \o walk[i - 1][page.kids[x][k]]])]
    IN  walk[Cardinality(Ids(page))][Root]

(***************************************************************************)
(* Brush.                                                                  *)
(***************************************************************************)
\* clipInkPolyline: what is left of an interval, crumbs dropped.
Remnants(n, R) ==
    LET sides == <<[lo |-> n.lo, hi |-> Min(R) - 1], [lo |-> Max(R) + 1, hi |-> n.hi]>>
        runs == Kept(sides, {r \in Range(sides) : Cardinality(Cells(r) \cap Cells(n)) >= RemnantFloor})
        clip(r) == [lo |-> IF r.lo < n.lo THEN n.lo ELSE r.lo,
                    hi |-> IF r.hi > n.hi THEN n.hi ELSE r.hi]
    IN  [i \in DOMAIN runs |-> clip(runs[i])]
Moved(n, d) == [lo |-> n.lo + d, hi |-> n.hi + d]

\* collectEraseInks: not what a connector has captured.
ErasableInks(page) ==
    Kept(PaintOrder(page), {x \in Ids(page) : /\ page.node[x].kind = "ink"
                                              /\ ~Of(page, ParentOf(page, x), "conn")})
WorldCells(page, x) == Shift(Cells(page.node[x]), OwnAt(page, x))
HitInks(page, R, skip) ==
    LET inks == ErasableInks(page)
    IN  Kept(inks, {x \in Range(inks) : /\ ParentOf(page, x) \notin skip
                                         /\ WorldCells(page, x) \cap R # {}})

\* Mutant: only the longest remnant is kept.
OneRemnant(page, x, R, fresh) ==
    LET d == OwnAt(page, x)
        rem == Remnants(Moved(page.node[x], d), R)
        keep == Moved(rem[1], -d)
    IN  IF rem = << >> THEN <<RemoveNode(x)>> ELSE <<SetInkSamples(x, keep.lo, keep.hi)>>

\* What becomes of one ink: the longest remnant keeps the id, another one is
\* appended after it as `fresh'.
RemnantEdits(page, x, R, fresh) ==
    LET d == OwnAt(page, x)
        rem == Remnants(Moved(page.node[x], d), R)
        long == IF Len(rem) = 2 /\ rem[2].hi - rem[2].lo > rem[1].hi - rem[1].lo THEN 2 ELSE 1
        keep == Moved(rem[long], -d)
        rest == Moved(rem[3 - long], -d)
        piece == [page.node[x] EXCEPT !.lo = rest.lo, !.hi = rest.hi, !.last = 0]
    IN  IF rem = << >> THEN <<RemoveNode(x)>>
        ELSE <<SetInkSamples(x, keep.lo, keep.hi)>>
               \o (IF Len(rem) = 2 THEN <<AppendInk(fresh, piece, ParentOf(page, x), x)>> ELSE << >>)

\* What is left of a style stroke: the object eraser takes it whole or not at all.
StyleLeft(n, R, whole) ==
    CASE whole -> IF MostlyIn(Cells(n), R) THEN << >> ELSE <<n>>
      [] ~whole -> IF Cells(n) \cap R = {} THEN <<n>> ELSE Remnants(n, R)

\* One end's edit, when the end changes.
StyleEdit(page, x, fromEnd, R, whole) ==
    LET c == page.node[x]
        end == IF fromEnd THEN c.p ELSE c.q
        now == IF fromEnd THEN c.fromInk ELSE c.toInk
        rest == FlattenSeq([i \in DOMAIN now |-> StyleLeft(ToWorld(end, now[i]), R, whole)])
        next == [i \in DOMAIN rest |-> ToFace(end, rest[i])]
    IN  IF next = now THEN << >> ELSE <<SetEndpointInk(x, fromEnd, next)>>

\* planStyleInkEraseEdits / planStyleInkObjectErase: both ends of every connector.
StyleEdits(page, conns, R, whole) ==
    LET order == Kept(PaintOrder(page), conns)
    IN  FlattenSeq([i \in DOMAIN order |-> StyleEdit(page, order[i], TRUE, R, whole)
                                             \o StyleEdit(page, order[i], FALSE, R, whole)])

\* Mutant: only inks swept entirely count as gone, not those left as crumbs.
EmptiedBySweep(page, hits, R, rev) ==
    LET gone == {x \in Range(hits) : WorldCells(page, x) \subseteq R}
    IN  Kept(PaintOrder(page), {b \in Ids(page) : /\ page.node[b].kind = "box"
                                                  /\ Kids(page, b, "ink") # << >>
                                                  /\ Range(Kids(page, b, "ink")) \subseteq gone})

\* Boxes that had inks and lose the last of them; the removes come in the
\* order of an unordered_map, which `rev' decides.
EmptiedBoxes(page, hits, R, rev) ==
    LET gone == {x \in Range(hits) : Remnants(Moved(page.node[x], OwnAt(page, x)), R) = << >>}
        out == Kept(PaintOrder(page), {b \in Ids(page) : /\ page.node[b].kind = "box"
                                                         /\ Kids(page, b, "ink") # << >>
                                                         /\ Range(Kids(page, b, "ink")) \subseteq gone})
    IN  IF rev THEN Reverse(out) ELSE out

PlanErase(page, R, skip, next, rev) ==
    LET hits == HitInks(page, R, skip)
        boxes == EmptiedBoxes(page, hits, R, rev)
    IN  FlattenSeq([i \in DOMAIN hits |-> RemnantEdits(page, hits[i], R, next + i - 1)])
          \o StyleEdits(page, Connectors(page), R, FALSE)
          \o [i \in DOMAIN boxes |-> RemoveNode(boxes[i])]

EraseBrush(doc, R, rev) ==
    CommitParts(WithIds(doc, Len(HitInks(doc.page, R, {}))),
                PlanErase(doc.page, R, {}, doc.next, rev))

(***************************************************************************)
(* Area: what is not ink goes when it lies fully inside, ink is clipped.   *)
(* Only the inks directly in a removed box are left out of the clipping,   *)
(* and no connector is, so a box inside the removed one, or style ink on a *)
(* removed connector, makes a part that finds nothing and the gesture is   *)
(* refused.                                                                *)
(***************************************************************************)
FullyInside(page, x, R) ==
    CASE page.node[x].kind = "box" -> Bounds(page, x) \subseteq R
      [] page.node[x].kind = "conn" -> Run(page.node[x]) \subseteq R
      [] OTHER -> FALSE
Roots(page) == Range(page.kids[Root])
\* The root nodes that are in S, in paint order.
Among(page, S) == Kept(page.kids[Root], S)
Removes(ids) == [i \in DOMAIN ids |-> RemoveNode(ids[i])]

EraseArea(doc, R, rev) ==
    LET out == Among(doc.page, {x \in Roots(doc.page) : FullyInside(doc.page, x, R)})
        skip == Range(out)
    IN  CommitParts(WithIds(doc, Len(HitInks(doc.page, R, skip))),
                    Removes(out) \o PlanErase(doc.page, R, skip, doc.next, rev))

(***************************************************************************)
(* Object: root nodes mostly inside the lasso, whole.  A box is tested by  *)
(* its boundaryPolyline, the rim as it was drawn: the box's own interval,  *)
(* whatever has been clipped from the rim ink since.                       *)
(***************************************************************************)
ObjectHit(page, x, R) ==
    LET n == page.node[x]
    IN  MostlyIn(CASE n.kind = "ink" -> Cells(n)
                   [] n.kind = "box" -> Bounds(page, x)
                   [] n.kind = "conn" -> Run(n), R)

EraseObject(doc, R) ==
    LET out == Among(doc.page, {x \in Roots(doc.page) : ObjectHit(doc.page, x, R)})
    IN  CommitParts(doc, Removes(out)
            \o StyleEdits(doc.page, Connectors(doc.page) \ Range(out), R, TRUE))

(***************************************************************************)
(* Selecting: selectByRect / selectByFreeform take root nodes, a tap takes *)
(* the deepest ink box under the point (hitTapSmartGroup).                 *)
(***************************************************************************)
\* selectedByPathSamples
SelectedByPath(n, R) == MostlyIn(IF n.kind = "conn" THEN Run(n) ELSE Cells(n), R)
Lassoed(page, R) ==
    Among(page, {x \in Roots(page) : IF Of(page, x, "box") THEN MostlyIn(Bounds(page, x), R)
                                     ELSE SelectedByPath(page.node[x], R)})

\* The boxes of box b at cell c, and the one to look in next.
BoxesAt(page, b, c) ==
    LET boxes == Kids(page, b, "box")
    IN  Kept(boxes, {y \in Range(boxes) : c \in ComposedBounds(page, y)})
Deeper(page, b, c) ==
    IF BoxesAt(page, b, c) = << >> THEN b ELSE Last(BoxesAt(page, b, c))

\* Root when no box is there.
TappedBox(page, c) ==
    LET tapped[i \in 0..Cardinality(Ids(page))] ==
            IF i = 0 THEN Root ELSE Deeper(page, tapped[i - 1], c)
    IN  tapped[Cardinality(Ids(page))]

\* hitSelectTarget
Tapped(page, c) ==
    LET conns == Kept(Kids(page, Root, "conn"), {x \in Connectors(page) : c \in Run(page.node[x])})
        root == Kids(page, Root, "ink")
        inks == Kept(root, {x \in Range(root) : c \in Cells(page.node[x])})
    IN  IF TappedBox(page, c) # Root THEN TappedBox(page, c)
        ELSE IF conns # << >> THEN Last(conns)
        ELSE IF inks # << >> THEN Last(inks) ELSE Root

(***************************************************************************)
(* createSmartGroupFromSelection.  The last selected free ink, in paint    *)
(* order, that surrounds the other selected inks becomes the boundary; a   *)
(* single ink surrounds none and always qualifies.                         *)
(***************************************************************************)
Surrounds(page, x, inks) ==
    \A y \in Range(inks) \ {x} :
        page.node[x].loop /\ MostlyIn(Cells(page.node[y]), Cells(page.node[x]))

\* The selected nodes of a kind, and the inks that could be the boundary.
Picked(page, ids, kind) == Kept(ids, {x \in Ids(page) : page.node[x].kind = kind})
Rims(page, inks) == Kept(inks, {x \in Range(inks) : Surrounds(page, x, inks)})
Rim(page, x, at) == [Content(page, x, at) EXCEPT !.node[x].role = "boundary"]

GroupSelection(doc, ids) ==
    LET page == doc.page
        inks == Picked(page, ids, "ink")
        boxes == Picked(page, ids, "box")
        rims == Rims(page, inks)
        rim == Last(rims)
        at == page.node[rim].lo
        bodies == <<Rim(page, rim, at)>>
                    \o Captured(page, Kept(inks, Range(inks) \ {rim}), boxes, at)
    IN  IF inks = << >> \/ (Len(inks) < 2 /\ boxes = << >>) \/ rims = << >> THEN doc
        ELSE Commit(WithIds(doc, 1),
                    CreateSmartGroup(doc.next, Box(at, page.node[rim].hi - at), bodies,
                                     inks \o boxes))

(***************************************************************************)
(* Moving a box: the drag writes the live transform into the node, so the  *)
(* inverses are generated from a page that already has it.                 *)
(***************************************************************************)
MoveParent(page, b) ==
    LET holds(n) == MostlyIn(ComposedBounds(page, b), Shift(Inside(page, n), Ctx(page, n)))
        fits == Kept(PaintOrder(page), {n \in Ids(page) \ Under(page, b) :
                                           page.node[n].kind = "box" /\ holds(n)})
    IN  IF fits = << >> THEN Root ELSE Last(fits)

\* remapOwnIntoParentCtx
Remapped(page, b, parent) == page.node[b].at + Ctx(page, b) - ContentCtx(page, parent)

\* TransformSession::apply, previewed in the page.
Dragged(page, b, dx) == Refresh([page EXCEPT !.node[b].at = @ + dx])

MoveBox(doc, b, dx) ==
    LET was == doc.page.node[b].at
        live == [doc EXCEPT !.page = Dragged(@, b, dx)]
        parent == MoveParent(live.page, b)
    IN  IF parent = ParentOf(live.page, b)
        THEN CommitFrom(live, SetSmartTransform(b, was + dx, was), doc.page)
        ELSE CommitPartsFrom(live, <<SetSmartTransform(b, Remapped(live.page, b, parent), was),
                                     Reparent(b, parent)>>, doc.page)

(***************************************************************************)
(* Clipboard.  A slot is the bodies of the selected roots, whose lastOpId  *)
(* nobody reads; its sources are every id in them.                         *)
(***************************************************************************)
CopyToSlot(page, ids) ==
    LET bare == [page EXCEPT !.node = [x \in DOMAIN @ |-> [@[x] EXCEPT !.last = 0]]]
    IN  [i \in DOMAIN ids |-> Body(bare, ids[i])]
Sources(slot) == UNION {DOMAIN slot[i].node : i \in DOMAIN slot}

CutSelection(doc, ids) == CommitParts(doc, Removes(ids))

\* unionAabb: the left edge, each root by its own transform.
LeftOf(body) ==
    LET n == body.node[body.top]
    IN  CASE n.kind = "ink" -> n.lo [] n.kind = "box" -> n.at
          [] n.kind = "conn" -> Min({n.p, n.q})
SlotLeft(slot) == Min({LeftOf(slot[i]) : i \in DOMAIN slot})

\* translateNode: a box moves with what is in it, a connector drags its body
\* inks along.
TranslateNode(n, d) ==
    CASE n.kind = "ink" -> [n EXCEPT !.lo = @ + d, !.hi = @ + d]
      [] n.kind = "box" -> [n EXCEPT !.at = @ + d]
      [] n.kind = "conn" -> [n EXCEPT !.p = @ + d, !.q = @ + d]
Translate(body, d) ==
    [body EXCEPT !.node = [x \in DOMAIN @ |->
        IF x = body.top \/ @[body.top].kind = "conn" THEN TranslateNode(@[x], d) ELSE @[x]]]

\* remintTree and remapRefs: fresh ids, and connectors copied together with
\* their boxes are bound to the copies.
Renamed(name, x) == IF x \in DOMAIN name THEN name[x] ELSE x
\* Mutant: connectors keep the boxes they were copied with.
RemapNothing(name, n) == [n EXCEPT !.last = 0]
RemapRefs(name, n) ==
    IF n.kind = "conn"
    THEN [n EXCEPT !.last = 0, !.from = Renamed(name, @), !.to = Renamed(name, @)]
    ELSE [n EXCEPT !.last = 0]
Remint(body, name) ==
    LET old == [y \in {name[x] : x \in DOMAIN body.node} |->
                   CHOOSE x \in DOMAIN body.node : name[x] = y]
    IN  [top |-> name[body.top],
         node |-> [y \in DOMAIN old |-> RemapRefs(name, body.node[old[y]])],
         kids |-> [y \in DOMAIN old |-> [i \in DOMAIN body.kids[old[y]] |->
                                            name[body.kids[old[y]][i]]]]]

\* How one copied root enters box `parent'; an empty box dissolves.
IntoBox(page, body, parent) ==
    LET n == body.node[body.top]
        own == page.node[parent].at
        ctx == ContentCtx(page, parent)
        sub == AsPage(body)
    IN  CASE n.kind = "ink" ->
                <<Leaf(body.top, Localized(n, own))>>
          [] n.kind = "box" ->
                IF IsEmptySmartGroup(sub, body.top) THEN FlattenToInks(sub, body.top, ctx)
                ELSE <<Translate(body, -ctx)>>
          [] OTHER -> <<body>>

\* commitPaste at cell c.  A tap on ink or a connector pastes at the root.
Paste(doc, slot, c) ==
    LET page == doc.page
        hit == Tapped(page, c)
        parent == IF Of(page, hit, "box") THEN hit ELSE Root
        name == [x \in Sources(slot) |-> doc.next - 1 + Cardinality({y \in Sources(slot) : y <= x})]
        copy(i) == Remint(Translate(slot[i], c - SlotLeft(slot)), name)
        placed(i) == IF parent = Root THEN <<copy(i)>> ELSE IntoBox(page, copy(i), parent)
        bodies == FlattenSeq([i \in DOMAIN slot |-> placed(i)])
    IN  IF slot = << >> \/ hit \in Sources(slot) THEN doc
        ELSE CommitParts(WithIds(doc, Cardinality(Sources(slot))),
                         [i \in DOMAIN bodies |-> Restore(bodies[i], parent, AtEnd)])

=============================================================================
