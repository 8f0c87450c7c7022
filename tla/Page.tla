-------------------------------- MODULE Page --------------------------------
(***************************************************************************)
(* The tablet's page under the user's gestures: every pen-up, erase,       *)
(* grouping, move, cut and paste on it, with undo and redo between them.   *)
(*                                                                         *)
(* An action is one finished gesture with everything its commits change.   *)
(* The selection a gesture acts on is made just before it.  Layers, text,  *)
(* primitives, frames and resizing are left out; the ring's capacity, the  *)
(* wire and undos latched by other editors are UndoHistory's.              *)
(***************************************************************************)
EXTENDS PageGestures, PageShape

CONSTANTS
    Pages,        \* the documents doc_load may bring: [page, next]
    Strokes,      \* finished strokes: [lo, hi, loop, neat, connector, inkBox]
    Regions,      \* regions swept and lassoed: sets of cells
    Marquees,     \* regions selected, those of copies and cuts
    Points,       \* cells tapped
    Shifts,       \* drags of a box
    MaxOps,       \* bound: gestures committed after the load
    CopyOps       \* bound: of those, gestures before the last copy

\* A document loaded is a tree, and is painted before the pen comes down,
\* which puts its connectors where their boxes are.
ASSUME PagesAssumption == \A p \in Pages : p.next \in Nat \ {0} /\ PageOK(p.page, p.next)
ASSUME GesturesAssumption ==
    /\ \A s \in Strokes : StrokeOK(s)
    /\ \A R \in Regions : Sweep(R)
    /\ Points \subseteq Int /\ Shifts \subseteq Int

VARIABLES
    doc,          \* the DeviceDocument, see PageTree
    slot,         \* the clipboard
    last          \* history variable: the gesture just done

vars == <<doc, slot, last>>
\* `last' is read only of the state a step ends in.
View == <<doc, slot>>

Ready == ~doc.stuck
More == Ready /\ doc.op < MaxOps

Init ==
    /\ \E p \in Pages : doc = NewDoc(p.page, p.next)
    /\ slot = << >>
    /\ last = [kind |-> "load"]

Did(kind, with, next) ==
    /\ doc' = next
    /\ last' = [kind |-> kind, with |-> with]

\* An undo pressed while the pen was down is latched and runs at the commit.
PenUp(s, latched) ==
    /\ More
    /\ Did(IF latched THEN "latched" ELSE "pen", s,
           DispatchPenUp([doc EXCEPT !.latched = latched], s))
    /\ UNCHANGED slot

Brush(R, rev) ==
    More /\ Did("brush", R, EraseBrush(doc, R, rev)) /\ UNCHANGED slot
Area(R, rev) ==
    More /\ Did("area", R, EraseArea(doc, R, rev)) /\ UNCHANGED slot
Object(R) ==
    More /\ Did("object", R, EraseObject(doc, R)) /\ UNCHANGED slot

Group(R) ==
    More /\ Did("group", R, GroupSelection(doc, Lassoed(doc.page, R))) /\ UNCHANGED slot

Drag(c, dx) ==
    /\ More
    /\ TappedBox(doc.page, c) # Root
    /\ Did("move", <<TappedBox(doc.page, c), dx>>, MoveBox(doc, TappedBox(doc.page, c), dx))
    /\ UNCHANGED slot

\* Copy and cut act on a marquee's nodes or on the one node tapped.
Selections ==
    {Lassoed(doc.page, R) : R \in Marquees}
      \cup {<<Tapped(doc.page, c)>> : c \in {p \in Points : Tapped(doc.page, p) # Root}}

Copy(ids) ==
    /\ Ready
    /\ doc.op <= CopyOps
    /\ ids # << >>
    /\ slot' = CopyToSlot(doc.page, ids)
    /\ last' = [kind |-> "copy"]
    /\ UNCHANGED doc

Cut(ids) ==
    /\ More
    /\ ids # << >>
    /\ Did("cut", ids, CutSelection(doc, ids))
    /\ slot' = CopyToSlot(doc.page, ids)

PasteAt(c) ==
    /\ More
    /\ slot # << >>
    /\ Did("paste", c, Paste(doc, slot, c))
    /\ UNCHANGED slot

Undo == Ready /\ doc.undo # << >> /\ Did("undo", Len(doc.undo), UndoNow(doc)) /\ UNCHANGED slot
Redo == Ready /\ doc.redo # << >> /\ Did("redo", Len(doc.redo), RedoNow(doc)) /\ UNCHANGED slot

Next ==
    \/ \E s \in Strokes, latched \in BOOLEAN : PenUp(s, latched)
    \/ \E R \in Regions, rev \in BOOLEAN : Brush(R, rev)
    \/ \E R \in Regions, rev \in BOOLEAN : Area(R, rev)
    \/ \E R \in Regions : Object(R)
    \/ \E R \in Regions : Group(R)
    \/ \E c \in Points, dx \in Shifts : Drag(c, dx)
    \/ \E ids \in Selections : Copy(ids)
    \/ \E ids \in Selections : Cut(ids)
    \/ \E c \in Points : PasteAt(c)
    \/ Undo
    \/ Redo

Spec == Init /\ [][Next]_vars

(***************************************************************************)
(* What is on the panel.                                                   *)
(***************************************************************************)
\* Inks painted, by id, where composing all ancestors puts them.
Painted(page) ==
    [x \in {y \in Ids(page) : page.node[y].kind = "ink" /\ ~Of(page, ParentOf(page, y), "conn")} |->
        Shift(Cells(page.node[x]), Ctx(page, x))]
\* Style strokes, by connector and end.
Styled(page) ==
    [e \in Connectors(page) \X BOOLEAN |->
        LET c == page.node[e[1]]
        IN  IF e[2] THEN [i \in DOMAIN c.fromInk |-> Shift(Cells(c.fromInk[i]), c.p)]
            ELSE [i \in DOMAIN c.toInk |-> Shift(Cells(c.toInk[i]), c.q)]]
\* Everything but the order of siblings.
Contents(page) == [node |-> page.node, kids |-> [p \in DOMAIN page.kids |-> Range(page.kids[p])]]

(***************************************************************************)
(* Properties.                                                             *)
(***************************************************************************)
Places(page, x) ==
    {at \in (DOMAIN page.kids) \X (1..Cardinality(Ids(page))) :
        at[2] \in DOMAIN page.kids[at[1]] /\ page.kids[at[1]][at[2]] = x}
InPlace(page, x) ==
    /\ Cardinality(Places(page, x)) = 1
    /\ Last(Chain(page, x)) = Root
    /\ page.node[x].kind = "ink" => page.kids[x] = << >> /\ Cells(page.node[x]) # {}
    /\ page.node[x].kind = "conn" => Kids(page, x, "ink") = page.kids[x]

\* The tree is one: every id below the next fresh one has a single place,
\* only boxes and connectors hold nodes, and an ink covers some cell.
PageIsTree ==
    /\ Ids(doc.page) \subseteq 1..doc.next - 1
    /\ DOMAIN doc.page.kids = Ids(doc.page) \cup {Root}
    /\ \A x \in Ids(doc.page) : InPlace(doc.page, x)

\* Undo and redo walk the pages the gestures made: the newest entry of the
\* undo ring ends at the page there is, the newest of the redo ring begins
\* there, down to every lastOpId.  So no entry is found stale, none is
\* dropped, and no inverse of a captured, split, moved or pasted node is
\* missing.  The order of siblings is left out: undoing the removal of two of
\* them does not bring it back (every index is that of the old tree).
HistoryReturns ==
    Ready =>
        /\ doc.undo # << >> => Contents(Last(doc.undo).post) = Contents(doc.page)
        /\ doc.redo # << >> => Contents(Last(doc.redo).pre) = Contents(doc.page)

\* No ink box stays on the page without an ink of its own: such a box has no
\* outline to see, lasso or erase it by.
NoGhostBox ==
    Ready => \A b \in Ids(doc.page) :
                doc.page.node[b].kind = "box" => Kids(doc.page, b, "ink") # << >>

(***************************************************************************)
(* Action properties; `last' says which gesture a step was.                *)
(***************************************************************************)
Was(kinds) == last'.kind \in kinds /\ doc'.op # doc.op /\ ~doc'.stuck

\* Connector ends whose place does not hang on nesting: the connector is on
\* the page itself and the end's box, while there, too.  An end on a box
\* inside a box is placed without the outer box's transform, and a connector
\* pasted into a box that is then dissolved goes with it.
AtRoot(page, b) == Has(page, b) /\ ParentOf(page, b) = Root
Settled(page, e) ==
    /\ AtRoot(page, e[1])
    /\ LET c == page.node[e[1]]
           b == IF e[2] THEN c.from ELSE c.to
       IN  AtRoot(page, b) \/ ~Has(page, b)

\* A pen-up puts its stroke on the page exactly once, where it was drawn: as
\* an ink painted there, or as one more style stroke there at one end of one
\* connector, or as a piece of a connector that runs over it; and every
\* other mark stays, but for the free inks that connector was made of.
StrokeLands ==
    LET s == last'.with
        x == doc.next
        before == Painted(doc.page)
        after == Painted(doc'.page)
        stroked == Styled(doc'.page)
        was == Styled(doc.page)
        body == IF Of(doc'.page, x + 1, "conn") THEN Range(doc'.page.kids[x + 1]) ELSE {}
        run == UNION {Cells(doc'.page.node[y]) : y \in body}
    IN  \/ /\ after = (x :> Cells(s)) @@ before
           /\ \A e \in DOMAIN was : Settled(doc.page, e) =>
                 /\ e \in DOMAIN stroked
                 /\ Settled(doc'.page, e) => stroked[e] = was[e]
        \/ /\ after = before
           /\ \E e \in DOMAIN was : stroked = [was EXCEPT ![e] = Append(@, Cells(s))]
        \/ /\ x \in body
           /\ after = Restrict(before, DOMAIN before \ body)
           /\ Restrict(stroked, DOMAIN was) = was
           /\ run = Span(doc'.page.node[x + 1].p, doc'.page.node[x + 1].q)

PenUpKeepsStroke == [][Was({"pen"}) => StrokeLands]_vars

\* An undo latched while the pen was down leaves the page and the undo ring
\* as they were, although it runs between the commits of one pen-up.
LatchedUndoTakesAll ==
    [][last'.kind = "latched" /\ doc' # doc =>
          /\ Contents(doc'.page) = Contents(doc.page)
          /\ doc'.undo = doc.undo]_vars

\* Grouping, nesting, dissolving an empty box, moving and pasting re-home
\* nodes between coordinate spaces without moving a mark: no painted ink is
\* lost, and only what is under the box dragged shifts, by the drag.
MarksStayPut ==
    [][Was({"pen", "group", "paste", "move"}) =>
          LET before == Painted(doc.page)
              after == Painted(doc'.page)
              dragged == IF last'.kind = "move" THEN Under(doc.page, last'.with[1]) ELSE {}
              by(x) == IF x \in dragged THEN last'.with[2] ELSE 0
          IN  /\ \A x \in DOMAIN before \cap DOMAIN after : after[x] = Shift(before[x], by(x))
              /\ last'.kind # "pen" => DOMAIN before \subseteq DOMAIN after]_vars

\* A connector's end goes with its box and stays where it is when that box is
\* removed, whatever happens to the other end.  (For boxes on the page itself:
\* an end on a box inside a box is placed without the outer box's transform.)
EndsFollow ==
    [][Was({"pen", "group", "paste", "move", "brush", "object", "cut"}) =>
          \A x \in Connectors(doc.page) \cap Connectors(doc'.page) :
              LET c == doc.page.node[x]
                  d == doc'.page.node[x]
                  by(b) == IF last'.kind = "move" /\ b = last'.with[1] THEN last'.with[2] ELSE 0
                  free(b) == /\ AtRoot(doc.page, b) \/ ~Has(doc.page, b)
                             /\ AtRoot(doc'.page, b) \/ ~Has(doc'.page, b)
              IN  /\ free(c.from) => d.p = c.p + by(c.from)
                  /\ free(c.to) => d.q = c.q + by(c.to)]_vars

\* A brush takes what it swept and nothing else: no painted cell of the
\* region stays, and every cell further from it than a crumb stays, under the
\* ink's own id or that of a remnant beside it.  (Ink on the page or in a box
\* on the page: inside nested boxes the eraser misplaces it.)
Shallow(page, x) == ParentOf(page, x) = Root \/ ParentOf(page, ParentOf(page, x)) = Root
BrushTakesItsSweep ==
    [][Was({"brush"}) =>
          LET R == last'.with
              before == Painted(doc.page)
              after == Painted(doc'.page)
              near == (Min(R) - (RemnantFloor - 1))..(Max(R) + (RemnantFloor - 1))
              pieces(x) == {y \in DOMAIN after : y = x \/ y >= doc.next}
          IN  /\ \A y \in DOMAIN after : Shallow(doc'.page, y) => after[y] \cap R = {}
              /\ \A x \in DOMAIN before : Shallow(doc.page, x) =>
                    before[x] \ near \subseteq UNION {after[y] : y \in pieces(x)}]_vars

\* prd-erase.md: a connector, text or ink box fully inside the polygon "is
\* removed" by an area erase.
AreaTakesWhole ==
    [][last'.kind = "area" =>
          \A x \in Range(doc.page.kids[Root]) :
              FullyInside(doc.page, x, last'.with) => ~Has(doc'.page, x)]_vars

\* A paste shows what was copied with its left edge at the tap, and a
\* connector copied with a box is bound to that box's copy.  (On the page or
\* into a box on it: ink pasted into a nested box is misplaced.)
PasteLands ==
    [][Was({"paste"}) =>
          LET hit == Tapped(doc.page, last'.with)
              dx == last'.with - SlotLeft(slot)
              marks == UNION {Range(Painted(AsPage(slot[i]))) : i \in DOMAIN slot}
              fresh(x) == x >= doc.next
              after == Painted(doc'.page)
              conns == {x \in Connectors(doc'.page) : fresh(x)}
          IN  (Of(doc.page, hit, "box") => AtRoot(doc.page, hit)) =>
                /\ {after[x] : x \in {y \in DOMAIN after : fresh(y)}} = {Shift(m, dx) : m \in marks}
                /\ \A x \in conns : \E i \in DOMAIN slot : \E y \in DOMAIN slot[i].node :
                      LET c == slot[i].node[y]
                      IN  /\ c.kind = "conn"
                          /\ fresh(doc'.page.node[x].from) = (c.from \in Sources(slot))
                          /\ fresh(doc'.page.node[x].to) = (c.to \in Sources(slot))]_vars

=============================================================================
