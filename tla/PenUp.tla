------------------------------- MODULE PenUp -------------------------------
(***************************************************************************)
(* What a finished stroke becomes (document/recognizer_dispatch.hpp): a    *)
(* style stroke of a connector's end, a member of the ink box it was drawn *)
(* into, the boundary of a new ink box around what it encloses, the last   *)
(* piece of a connector between two ink boxes, or just ink.                *)
(*                                                                         *)
(* A stroke is drawn from left to right; `loop' says its ends meet, `neat' *)
(* that classifyEmptyBoundaryShape accepts it as the outline of an empty   *)
(* box; connector and inkBox are the recogniser buttons' latch.            *)
(***************************************************************************)
EXTENDS PageTree

CONSTANTS
    EndRadius,       \* kEndpointInkRadiusMm, in cells
    SnapDist,        \* kConnectorSnapWorld
    MinWithContent,  \* kMinEncloseWithContent
    MinEmpty,        \* kMinEncloseEmpty
    MinConnector     \* kMinConnectorWorld

ASSUME SizesAssumption ==
    /\ {EndRadius, SnapDist, MinWithContent, MinEmpty, MinConnector} \subseteq Nat
    /\ MinWithContent <= MinEmpty

Shift(S, d) == {c + d : c \in S}
Span(a, b) == IF a <= b THEN a..b ELSE b..a
Cells(ink) == ink.lo..ink.hi
\* At least 80 % of a stroke's length, or of a box's area, lies in S.
MostlyIn(cells, S) == cells # {} /\ 5 * Cardinality(cells \cap S) >= 4 * Cardinality(cells)

Ink(lo, hi, loop, role) ==
    [kind |-> "ink", lo |-> lo, hi |-> hi, loop |-> loop, role |-> role, last |-> 0]
Box(at, w) == [kind |-> "box", at |-> at, w |-> w, last |-> 0]

\* The direct children of a kind; for boxes of the page, the top-level ones.
Kids(page, x, kind) == Kept(page.kids[x], {y \in Range(page.kids[x]) : page.node[y].kind = kind})
BoundaryInks(page, b) ==
    LET inks == Kids(page, b, "ink")
    IN  Kept(inks, {y \in Range(inks) : page.node[y].role = "boundary"})

\* smartGroupWorldBounds and smartGroupBoundaryWorld with the identity as
\* context: the box's own transform only.
Bounds(page, b) == page.node[b].at .. page.node[b].at + page.node[b].w
Boundary(page, b) ==
    IF BoundaryInks(page, b) = << >> THEN {}
    ELSE Shift(Cells(page.node[Head(BoundaryInks(page, b))]), page.node[b].at)
\* The cells a connector's warped line runs over.
Run(c) == Span(c.p, c.q)
\* sampleInsideSmartGroup: the bounds when there is no boundary ink.
Inside(page, b) == IF Boundary(page, b) = {} THEN Bounds(page, b) ELSE Boundary(page, b)

(***************************************************************************)
(* 1. Endpoint ink.                                                        *)
(***************************************************************************)
Connectors(page) == {x \in Ids(page) : page.node[x].kind = "conn"}
Disk(c) == c - EndRadius .. c + EndRadius
\* A style stroke is kept in the frame of its end.
ToWorld(end, n) == [lo |-> n.lo + end, hi |-> n.hi + end]
ToFace(end, n) == [lo |-> n.lo - end, hi |-> n.hi - end]

\* Strokes near both ends of a connector are nobody's.
Steals(page, s) ==
    {end \in Connectors(page) \X BOOLEAN :
        LET c == page.node[end[1]]
            atFrom == MostlyIn(Cells(s), Disk(c.p))
            atTo == MostlyIn(Cells(s), Disk(c.q))
        IN  atFrom # atTo /\ end[2] = atFrom}

\* Mutant: the ink stays on the page.
BindLeavesInk(doc, x, hit) ==
    LET c == doc.page.node[hit[1]]
        end == IF hit[2] THEN c.p ELSE c.q
    IN  Commit(doc, SetEndpointInk(hit[1], hit[2],
                        Append(IF hit[2] THEN c.fromInk ELSE c.toInk,
                               ToFace(end, doc.page.node[x]))))

\* tryBindEndpointInk: one gesture of two parts, after the ink's own.
BindEndpointInk(doc, x, hit) ==
    LET c == doc.page.node[hit[1]]
        end == IF hit[2] THEN c.p ELSE c.q
    IN  CommitParts(doc, <<SetEndpointInk(hit[1], hit[2],
                               Append(IF hit[2] THEN c.fromInk ELSE c.toInk,
                                      ToFace(end, doc.page.node[x]))),
                           RemoveNode(x)>>)

(***************************************************************************)
(* 2. Membership: the last root box in paint order that holds the stroke.  *)
(***************************************************************************)
Holders(page, s) ==
    LET boxes == Kids(page, Root, "box")
    IN  Kept(boxes, {b \in Range(boxes) : MostlyIn(Cells(s), Boundary(page, b))})

(***************************************************************************)
(* 3. Enclose.  Captured empty boxes dissolve into content inks; the rest  *)
(* keep their wrapper.                                                     *)
(***************************************************************************)
IsEmptySmartGroup(page, b) ==
    /\ Kids(page, b, "box") = << >>
    /\ Kids(page, b, "ink") # << >>
    /\ BoundaryInks(page, b) = Kids(page, b, "ink")

\* A root ink as content of a box at `origin'.
Content(page, x, origin) == Leaf(x, Localized(page.node[x], origin))

FlattenToInks(page, b, origin) ==
    LET inks == Kids(page, b, "ink")
    IN  [i \in DOMAIN inks |-> Content(page, inks[i], origin - page.node[b].at)]

Nested(page, b, origin) ==
    LET body == Body(page, b) IN [body EXCEPT !.node[b].at = @ - origin]

\* Mutant: a captured box keeps the place it had on the page.
CaptureUnshifted(page, b, origin) ==
    IF IsEmptySmartGroup(page, b) THEN FlattenToInks(page, b, origin) ELSE <<Body(page, b)>>

CaptureSmartGroup(page, b, origin) ==
    IF IsEmptySmartGroup(page, b) THEN FlattenToInks(page, b, origin)
    ELSE <<Nested(page, b, origin)>>

Captured(page, inks, boxes, origin) ==
    [i \in DOMAIN inks |-> Content(page, inks[i], origin)]
        \o FlattenSeq([i \in DOMAIN boxes |-> CaptureSmartGroup(page, boxes[i], origin)])

\* What of the page lies in a stroke's interior.
EnclosedInks(page, s) ==
    LET inks == Kids(page, Root, "ink")
    IN  Kept(inks, {y \in Range(inks) : MostlyIn(Cells(page.node[y]), Cells(s))})
EnclosedBoxes(page, s) ==
    LET boxes == Kids(page, Root, "box")
    IN  Kept(boxes, {b \in Range(boxes) : MostlyIn(Bounds(page, b), Cells(s))})

Enclose(doc, x, s) ==
    LET page == doc.page
        width == s.hi - s.lo
        inks == EnclosedInks(page, s)
        boxes == EnclosedBoxes(page, s)
        boundary == Leaf(x, Ink(0, width, TRUE, "boundary"))
        bodies == <<boundary>> \o Captured(page, inks, boxes, s.lo)
        tooSmall == \/ width < MinWithContent
                    \/ inks \o boxes = << >> /\ (width < MinEmpty \/ ~s.neat)
    IN  Commit(doc, IF tooSmall
                    THEN AppendInk(x, Ink(s.lo, s.hi, s.loop, "none"), Root, Root)
                    ELSE CreateSmartGroup(x + 1, Box(s.lo, width), bodies, inks \o boxes))

(***************************************************************************)
(* 4. Connector, from the last three free inks.                            *)
(***************************************************************************)
\* How far box b is from cell c, when it is near enough to snap to.
Reach(page, b, c) ==
    {d \in 0..SnapDist : c - d \in Inside(page, b) \/ c + d \in Inside(page, b)}
InReach(page, boxes, c, exclude) ==
    {i \in DOMAIN boxes : boxes[i] # exclude /\ Reach(page, boxes[i], c) # {}}

\* nearestSnapGroup: a box's id, or Root when none is near; ties to the first.
Nearest(page, c, exclude) ==
    LET boxes == Kids(page, Root, "box")
        near == InReach(page, boxes, c, exclude)
        dist == [i \in near |-> Min(Reach(page, boxes[i], c))]
    IN  IF near = {} THEN Root
        ELSE boxes[CHOOSE i \in near : \A j \in near \ {i} :
                      dist[i] < dist[j] \/ (dist[i] = dist[j] /\ i < j)]

\* classifyFreeInk: the boxes its two ends touch.
Touched(page, x) == {Nearest(page, page.node[x].lo, Root), Nearest(page, page.node[x].hi, Root)}
\* Exactly one end at a box: that box.
ArmAmong(ends) ==
    IF Cardinality(ends) = 2 /\ Root \in ends THEN CHOOSE b \in ends : b # Root ELSE Root
ArmOf(page, x) == ArmAmong(Touched(page, x))

\* polylineIntersect: they cross, or one comes within kConnectorJoinWorld, a
\* cell here, of the other.
Cross(a, b) == a.lo <= b.hi + 1 /\ b.lo <= a.hi + 1
\* strokesJoinEnds
EndsJoin(a, b) == \E m \in {a.lo, a.hi}, n \in {b.lo, b.hi} : m - n \in -1..1
\* strokesJoin
Join(page, x, y) ==
    Cross(page.node[x], page.node[y]) \/ EndsJoin(page.node[x], page.node[y])

LastFreeInks(page) ==
    LET inks == Kids(page, Root, "ink")
    IN  SubSeq(inks, IF Len(inks) > 3 THEN Len(inks) - 2 ELSE 1, Len(inks))

\* assembleChain: the pieces of the path in order, the last being `cur' when
\* nothing joins.
\* three: middle pieces with the two arms they join; two: arms that join cur.
Assembled(free, cur, three, two) ==
    IF three # {} THEN LET t == CHOOSE t \in three : TRUE IN <<free[t[1]], free[t[2]], free[t[3]]>>
    ELSE IF two # {} THEN <<free[CHOOSE j \in two : \A k \in two : k <= j], cur>>
    ELSE <<cur>>
Armed(a, b) == a # Root /\ b # Root /\ a # b
Middles(page, free) ==
    {t \in (DOMAIN free) \X (DOMAIN free) \X (DOMAIN free) :
        /\ Len(free) = 3 /\ t[1] < t[3] /\ t[2] \notin {t[1], t[3]}
        /\ Touched(page, free[t[2]]) = {Root}
        /\ Armed(ArmOf(page, free[t[1]]), ArmOf(page, free[t[3]]))
        /\ Join(page, free[t[2]], free[t[1]]) /\ Join(page, free[t[2]], free[t[3]])}
Joining(page, free, cur) ==
    {j \in DOMAIN free : /\ free[j] # cur /\ Join(page, cur, free[j])
                         /\ Armed(ArmOf(page, cur), ArmOf(page, free[j]))}
Chains(page, free, cur) == Assembled(free, cur, Middles(page, free), Joining(page, free, cur))

\* concatPath, as its two ends and the cells between.
Path(a, b) ==
    LET lo == IF a.lo < b.lo THEN a.lo ELSE b.lo
        hi == IF a.hi > b.hi THEN a.hi ELSE b.hi
    IN  IF a.lo <= b.lo THEN [front |-> lo, back |-> hi] ELSE [front |-> hi, back |-> lo]

\* What lies between the two boxes is hardly in them, nor in any other box.
BodyOutsideGuards(page, path, from, to) ==
    LET cells == Span(path.front, path.back)
        runIn(S, end) == {c \in cells : Span(c, end) \subseteq S}
        body == (cells \ runIn(Inside(page, from), path.front))
                    \ runIn(Inside(page, to), path.back)
        part(S) == Cardinality(body \cap S)
        anyBox == UNION {Inside(page, b) : b \in Range(Kids(page, Root, "box"))}
    IN  /\ body # {}
        /\ 5 * part(Inside(page, from)) <= Cardinality(body)
        /\ 5 * part(Inside(page, to)) <= Cardinality(body)
        /\ 5 * (Cardinality(body) - part(anyBox)) >= 3 * Cardinality(body)

\* pickStrokeAnchor: an end in the space of its box.
Anchor(page, b, c) == c - page.node[b].at

\* A connector along the chain's path, when both ends are at a box.
ConnectorBetween(doc, x, chain, path, from, to) ==
    LET page == doc.page
        conn == [kind |-> "conn", from |-> from, to |-> to,
                 fromAt |-> Anchor(page, from, path.front), toAt |-> Anchor(page, to, path.back),
                 p |-> path.front, q |-> path.back,
                 fromInk |-> << >>, toInk |-> << >>, last |-> 0]
    IN  IF /\ Len(Kids(page, Root, "box")) >= 2
           /\ Cardinality(Span(path.front, path.back)) > MinConnector
           /\ from # Root /\ to # Root
           /\ BodyOutsideGuards(page, path, from, to)
        THEN Commit(doc, CreateConnector(x + 1, conn, chain))
        ELSE doc
ConnectorFrom(doc, x, chain, path, from) ==
    ConnectorBetween(doc, x, chain, path, from, Nearest(doc.page, path.back, from))
ConnectorAlong(doc, x, chain, path) ==
    ConnectorFrom(doc, x, chain, path, Nearest(doc.page, path.front, Root))
ConnectorOf(doc, x, chain) ==
    ConnectorAlong(doc, x, chain, Path(doc.page.node[Head(chain)], doc.page.node[Last(chain)]))
RecognizeConnector(doc, x) == ConnectorOf(doc, x, Chains(doc.page, LastFreeInks(doc.page), x))

(***************************************************************************)
(* dispatchPenUp.  A latched undo runs inside the first commit and takes   *)
(* the ink away again; the steps after it then find none.                  *)
(***************************************************************************)
Dispatched(d, x, s, inked, steals, holders) ==
    LET there == Has(inked.page, x)
        stealing == s.connector /\ Cardinality(steals) = 1
    IN  CASE stealing /\ there -> BindEndpointInk(inked, x, CHOOSE h \in steals : TRUE)
          [] ~(stealing /\ there) /\ holders # << >> ->
                IF there THEN Commit(inked, JoinSmartGroup(x, Last(holders))) ELSE inked
          [] ~stealing /\ holders = << >> /\ s.loop /\ s.inkBox -> Enclose(d, x, s)
          [] OTHER ->
                IF s.connector /\ ~s.loop /\ there THEN RecognizeConnector(inked, x) ELSE inked
DispatchFor(d, x, s) ==
    Dispatched(d, x, s, Commit(d, AppendInk(x, Ink(s.lo, s.hi, s.loop, "none"), Root, Root)),
               Steals(d.page, s), Holders(d.page, s))
DispatchPenUp(doc, s) == DispatchFor([doc EXCEPT !.next = @ + 2], doc.next, s)

=============================================================================
