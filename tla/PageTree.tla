------------------------------ MODULE PageTree ------------------------------
(***************************************************************************)
(* The tablet's page as a tree of ink, ink boxes and connectors, the edits *)
(* of epaper_old/document/operations on it with the inverse each of them   *)
(* generates, and the commit path that puts gestures on the undo ring.     *)
(*                                                                         *)
(* The page has one axis, divided into cells: an ink is an interval of     *)
(* cells, an area its extent, a length its number of cells.  Transforms    *)
(* are translations; rotation, scale, box resizing, style and the second   *)
(* axis are left out, and so is the curve of a connector, which is here    *)
(* the straight run between its ends.                                      *)
(*                                                                         *)
(*   ink   lo..hi in its parent's space, loop: its ends meet, role         *)
(*   box   a smart group: `at' is transform.x, w its bounds.width          *)
(*   conn  from/to the boxes' ids, fromAt/toAt the anchors in box space,   *)
(*         p/q the poses of its ends, fromInk/toInk the style strokes as   *)
(*         intervals relative to the end; its children are the captured    *)
(*         body inks, in page space and never painted                      *)
(*                                                                         *)
(* Every node carries lastOpId as `last'.  A page is [node, kids]: records *)
(* by id, and the children of every id (Root for rootChildren) in paint    *)
(* order.  What a long definition uses often is a parameter of a helper    *)
(* beside it, so that it is computed once.  The code keeps a node's        *)
(* subtree inside it, so that restoring a body may leave an id in the tree *)
(* twice until the inverse that removes the group runs; here a move takes  *)
(* the ids it brings.                                                      *)
(***************************************************************************)
EXTENDS Integers, FiniteSets, SequencesExt

Root == 0
AtEnd == 1000      \* numeric_limits<int>::max() as an index

Ids(page) == DOMAIN page.node
Has(page, x) == x \in Ids(page)
Of(page, x, kind) == Has(page, x) /\ page.node[x].kind = kind
\* The elements of a sequence that are in S, in their order.
Kept(s, S) ==
    LET kept[i \in 0..Len(s)] ==
            IF i = 0 THEN << >>
            ELSE IF s[i] \in S THEN Append(kept[i - 1], s[i]) ELSE kept[i - 1]
    IN  kept[Len(s)]

Empty == [node |-> << >>, kids |-> [x \in {Root} |-> << >>]]

ParentOf(page, x) == CHOOSE p \in DOMAIN page.kids : x \in Range(page.kids[p])

\* x, its parent, ... up to Root, which is no more steps away than there are ids.
Chain(page, x) ==
    LET chain[i \in 0..Cardinality(Ids(page))] ==
            IF i = 0 THEN <<x>>
            ELSE LET up == chain[i - 1]
                 IN  IF Last(up) = Root THEN up ELSE Append(up, ParentOf(page, Last(up)))
    IN  chain[Cardinality(Ids(page))]

Under(page, x) == {y \in Ids(page) : x \in Range(Chain(page, y))}

\* findPlaceIn, counting from 1.
Place(page, x) ==
    [parent |-> ParentOf(page, x),
     index  |-> CHOOSE i \in DOMAIN page.kids[ParentOf(page, x)] :
                    page.kids[ParentOf(page, x)][i] = x]

\* detachAny / removeId, for every id of a set.
Without(page, out) ==
    [node |-> Restrict(page.node, Ids(page) \ out),
     kids |-> [p \in DOMAIN page.kids \ out |->
                  Kept(page.kids[p], Range(page.kids[p]) \ out)]]
Forget(page, gone) == Without(page, UNION {Under(page, x) : x \in gone \cap Ids(page)})

\* A DocNode by value: the node with its children.
Body(page, x) ==
    [top |-> x, node |-> Restrict(page.node, Under(page, x)),
     kids |-> Restrict(page.kids, Under(page, x))]
Leaf(x, rec) == [top |-> x, node |-> [y \in {x} |-> rec], kids |-> [y \in {x} |-> << >>]]

\* f, and g where f is not defined.
Over(f, g) == [x \in DOMAIN f \cup DOMAIN g |-> IF x \in DOMAIN f THEN f[x] ELSE g[x]]

\* A body, as a page of its own.
AsPage(body) == [node |-> body.node, kids |-> Over(body.kids, [x \in {Root} |-> <<body.top>>])]

\* insertAt: the index is clamped to the siblings.
Graft(page, body, parent, index) ==
    LET sibs == page.kids[parent]
        slot == IF index > Len(sibs) THEN Len(sibs) + 1 ELSE index
    IN  [node |-> Over(body.node, page.node),
         kids |-> Over(body.kids, [page.kids EXCEPT ![parent] = InsertAt(sibs, slot, body.top)])]

\* One body after another, each at the end of parent's children.
GraftAll(page, bodies, parent) ==
    LET grown[i \in 0..Len(bodies)] ==
            IF i = 0 THEN page ELSE Graft(grown[i - 1], bodies[i], parent, AtEnd)
    IN  grown[Len(bodies)]

(***************************************************************************)
(* Edits.  Applying one gives [ok, page]; an edit that throws may already  *)
(* have detached something, so a refusal has a page too.                   *)
(***************************************************************************)
Done(page) == [ok |-> TRUE, page |-> page]
Threw(page) == [ok |-> FALSE, page |-> page]

AppendInk(x, rec, parent, after) ==
    [kind |-> "append_ink", id |-> x, rec |-> rec, parent |-> parent, after |-> after]
RemoveNode(x) == [kind |-> "remove_node", id |-> x]
Restore(body, parent, index) ==
    [kind |-> "restore", id |-> body.top, body |-> body, parent |-> parent, index |-> index]
Reparent(x, parent) == [kind |-> "reparent", id |-> x, parent |-> parent]
CreateSmartGroup(x, rec, bodies, captured) ==
    [kind |-> "create_smart_group", id |-> x, rec |-> rec, bodies |-> bodies,
     captured |-> captured]
JoinSmartGroup(x, box) == [kind |-> "join_smart_group", id |-> x, box |-> box]
CreateConnector(x, rec, captured) ==
    [kind |-> "create_connector", id |-> x, rec |-> rec, captured |-> captured]
SetEndpointInk(x, fromEnd, strokes) ==
    [kind |-> "set_endpoint_ink", id |-> x, fromEnd |-> fromEnd, strokes |-> strokes]
SetInkSamples(x, lo, hi) == [kind |-> "set_ink_samples", id |-> x, lo |-> lo, hi |-> hi]
SetSmartTransform(x, at, was) ==
    [kind |-> "set_smart_transform", id |-> x, at |-> at, was |-> was]

ApplyAppend(page, e) ==
    LET beside == Has(page, e.after)
        pl == Place(page, e.after)
        parent == IF beside THEN pl.parent ELSE e.parent
    IN  IF Has(page, e.id) \/ parent \notin DOMAIN page.kids THEN Threw(page)
        ELSE Done(Graft(page, Leaf(e.id, e.rec), parent,
                        IF beside THEN pl.index + 1 ELSE AtEnd))

GraftOrThrow(page, body, parent, index) ==
    IF parent \in DOMAIN page.kids THEN Done(Graft(page, body, parent, index)) ELSE Threw(page)

\* Mutant: the node moved stays where it was, too.
ApplyMoveTwice(page, body, parent, index) ==
    GraftOrThrow(page, body, parent, index)

\* Detaching comes before the parent is looked up.
ApplyMove(page, body, parent, index) ==
    GraftOrThrow(Forget(page, DOMAIN body.node), body, parent, index)

ApplyCreateSmartGroup(page, e) ==
    LET missing == {i \in DOMAIN e.captured :
                       ~Has(Forget(page, Range(SubSeq(e.captured, 1, i - 1))), e.captured[i])}
        left == Forget(page, Range(e.captured))
        bare == Graft(left, Leaf(e.id, e.rec), Root, AtEnd)
    IN  IF Has(page, e.id) THEN Threw(page)
        ELSE IF missing # {} THEN Threw(Forget(page, {e.captured[i] :
                 i \in {j \in DOMAIN e.captured : \A k \in missing : j < k}}))
        ELSE Done(GraftAll(bare, e.bodies, e.id))

\* smartWorldToLocal: an ink of the page as content of a box at `origin'.
Localized(ink, origin) ==
    [ink EXCEPT !.lo = @ - origin, !.hi = @ - origin, !.role = "content"]

\* The box is held by address across detachInk; the ink joined follows it in
\* rootChildren, so the address stays good.
ApplyJoin(page, e) ==
    LET left == Forget(page, {e.id})
        rec == Localized(page.node[e.id], left.node[e.box].at)
    IN  IF ~Of(page, e.box, "box") \/ ~Of(page, e.id, "ink") THEN Threw(page)
        ELSE Done(Graft(left, Leaf(e.id, rec), e.box, AtEnd))

ApplyCreateConnector(page, e) ==
    LET left == Forget(page, Range(e.captured))
        inks == [i \in DOMAIN e.captured |-> Body(page, e.captured[i])]
        bare == Graft(left, Leaf(e.id, e.rec), Root, AtEnd)
    IN  IF \A i \in DOMAIN e.captured : Of(page, e.captured[i], "ink")
        THEN Done(GraftAll(bare, inks, e.id))
        ELSE Threw(page)

ApplyRemove(page, e) ==
    IF Has(page, e.id) THEN Done(Forget(page, {e.id})) ELSE Threw(page)
ApplyReparent(page, e) ==
    IF Has(page, e.id) THEN ApplyMove(page, Body(page, e.id), e.parent, AtEnd) ELSE Threw(page)

ApplyEndpointInk(page, e) ==
    IF ~Of(page, e.id, "conn") THEN Threw(page)
    ELSE Done([page EXCEPT !.node[e.id] =
                 IF e.fromEnd THEN [@ EXCEPT !.fromInk = e.strokes]
                 ELSE [@ EXCEPT !.toInk = e.strokes]])
ApplyInkSamples(page, e) ==
    IF ~Of(page, e.id, "ink") THEN Threw(page)
    ELSE Done([page EXCEPT !.node[e.id] = [@ EXCEPT !.lo = e.lo, !.hi = e.hi]])
ApplyTransform(page, e) ==
    IF ~Of(page, e.id, "box") THEN Threw(page)
    ELSE Done([page EXCEPT !.node[e.id] = [@ EXCEPT !.at = e.at]])

Apply(page, e) ==
    CASE e.kind = "append_ink" -> ApplyAppend(page, e)
      [] e.kind = "remove_node" -> ApplyRemove(page, e)
      [] e.kind = "restore" -> ApplyMove(page, e.body, e.parent, e.index)
      [] e.kind = "reparent" -> ApplyReparent(page, e)
      [] e.kind = "create_smart_group" -> ApplyCreateSmartGroup(page, e)
      [] e.kind = "join_smart_group" -> ApplyJoin(page, e)
      [] e.kind = "create_connector" -> ApplyCreateConnector(page, e)
      [] e.kind = "set_endpoint_ink" -> ApplyEndpointInk(page, e)
      [] e.kind = "set_ink_samples" -> ApplyInkSamples(page, e)
      [] e.kind = "set_smart_transform" -> ApplyTransform(page, e)

(***************************************************************************)
(* generateUndo, as the sequence flattenInverses makes of it.              *)
(***************************************************************************)
RestoreEdit(page, x) ==
    LET pl == Place(page, x) IN Restore(Body(page, x), pl.parent, pl.index)

\* Restores by sibling index, whatever their parents are; equal ones keep
\* their order.
Sorted(edits) ==
    LET sorted[n \in 0..Len(edits)] ==
            IF n = 0 THEN << >>
            ELSE LET list == sorted[n - 1]
                     upto == {i \in DOMAIN list : list[i].index <= edits[n].index}
                 IN  InsertAt(list, Cardinality(upto) + 1, edits[n])
    IN  sorted[Len(edits)]

\* Each id once.
CapturedRestores(page, ids) ==
    LET here == Kept(ids, Ids(page))
        firsts == Kept([i \in DOMAIN here |-> i],
                       {i \in DOMAIN here : \A j \in 1..i-1 : here[j] # here[i]})
    IN  Sorted([k \in DOMAIN firsts |-> RestoreEdit(page, here[firsts[k]])])

BodyIds(bodies) == [i \in DOMAIN bodies |-> bodies[i].top]

\* Each kind's own inverse.  A restore of a node that is not there inserts it,
\* and is undone by removing it; a move of one is left as it is.
UndoRemove(page, e) == IF Has(page, e.id) THEN RestoreEdit(page, e.id) ELSE RemoveNode(e.id)
UndoMove(page, e) ==
    IF Has(page, e.id) THEN RestoreEdit(page, e.id)
    ELSE IF e.kind = "restore" THEN RemoveNode(e.id) ELSE e
UndoJoin(page, e) == IF Has(page, e.id) THEN RestoreEdit(page, e.id) ELSE e
UndoSmartGroup(page, e) ==
    Append(CapturedRestores(page, e.captured \o BodyIds(e.bodies)), RemoveNode(e.id))
UndoConnector(page, e) == Append(CapturedRestores(page, e.captured), RemoveNode(e.id))
UndoEndpointInk(page, e) ==
    [e EXCEPT !.strokes =
        IF ~Of(page, e.id, "conn") THEN << >>
        ELSE IF e.fromEnd THEN page.node[e.id].fromInk ELSE page.node[e.id].toInk]
UndoInkSamples(page, e) ==
    IF Of(page, e.id, "ink") THEN SetInkSamples(e.id, page.node[e.id].lo, page.node[e.id].hi)
    ELSE e
UndoTransform(e) == SetSmartTransform(e.id, e.was, e.at)

GenerateUndo(page, e) ==
    CASE e.kind = "append_ink" -> <<RemoveNode(e.id)>>
      [] e.kind = "remove_node" -> <<UndoRemove(page, e)>>
      [] e.kind \in {"restore", "reparent"} -> <<UndoMove(page, e)>>
      [] e.kind = "join_smart_group" -> <<UndoJoin(page, e)>>
      [] e.kind = "create_smart_group" -> UndoSmartGroup(page, e)
      [] e.kind = "create_connector" -> UndoConnector(page, e)
      [] e.kind = "set_endpoint_ink" -> <<UndoEndpointInk(page, e)>>
      [] e.kind = "set_ink_samples" -> <<UndoInkSamples(page, e)>>
      [] e.kind = "set_smart_transform" -> <<UndoTransform(e)>>

TargetIds(e) ==
    IF e.kind = "create_smart_group" THEN <<e.id>> \o BodyIds(e.bodies) \o e.captured ELSE <<e.id>>

\* captureTargets: each id once, with the lastOpId it has now.
Targets(page, edits) ==
    LET ids == FlattenSeq([i \in DOMAIN edits |-> TargetIds(edits[i])])
    IN  [x \in Range(ids) |-> IF Has(page, x) THEN page.node[x].last ELSE 0]

Stamp(page, last) ==
    [page EXCEPT !.node = [x \in DOMAIN @ |->
        IF x \in DOMAIN last THEN [@[x] EXCEPT !.last = last[x]] ELSE @[x]]]

(***************************************************************************)
(* A connector's ends.  An end whose box is gone keeps its last pose.  The *)
(* box is placed by its own transform, without its ancestors'.             *)
(***************************************************************************)
Attach(page, box, anchor) == page.node[box].at + anchor
EndOf(page, box, anchor, pose) ==
    IF Of(page, box, "box") THEN Attach(page, box, anchor) ELSE pose

\* Mutant: an end is refreshed only while both boxes are there.
WarpedWhenBothThere(page, c) ==
    IF Of(page, c.from, "box") /\ Of(page, c.to, "box")
    THEN [c EXCEPT !.p = Attach(page, c.from, c.fromAt), !.q = Attach(page, c.to, c.toAt)]
    ELSE c

Warped(page, c) ==
    [c EXCEPT !.p = EndOf(page, c.from, c.fromAt, c.p), !.q = EndOf(page, c.to, c.toAt, c.q)]

Refresh(page) ==
    [page EXCEPT !.node = [x \in DOMAIN @ |->
        IF @[x].kind = "conn" THEN Warped(page, @[x]) ELSE @[x]]]

(***************************************************************************)
(* DeviceDocument.  doc is [page, undo, redo, next, op, stuck, latched]:   *)
(* the rings, the next fresh id, the number of committed gestures, whether *)
(* one was refused (the id index is then out of step with the tree, and    *)
(* nothing further is modelled) and whether an undo was latched during the *)
(* gesture.  An entry keeps the pages around its gesture as history        *)
(* variables.  The ring's capacity and the mirror are UndoHistory's.       *)
(***************************************************************************)
NewDoc(page, next) ==
    [page |-> page, undo |-> << >>, redo |-> << >>, next |-> next, op |-> 0,
     stuck |-> FALSE, latched |-> FALSE]

Entry(op, inv, fwd, last, pre, post) ==
    [op |-> op, inv |-> inv, fwd |-> fwd, last |-> last, pre |-> pre, post |-> post]

CreateKinds == {"append_ink", "create_smart_group", "create_connector"}
\* A targeted inverse whose node is gone is skipped, not refused.
Skipped(page, e) ==
    e.kind \in {"reparent", "set_smart_transform", "remove_node", "set_ink_samples",
                "set_endpoint_ink"} /\ ~Has(page, e.id)

Stale(page, e, isUndo) ==
    \/ \E i \in DOMAIN e.inv : e.inv[i].kind \in CreateKinds /\ Has(page, e.inv[i].id)
    \/ \E x \in DOMAIN e.last :
          Has(page, x) /\ page.node[x].last # (IF isUndo THEN e.op ELSE e.last[x])

Step(acc, r) == [page |-> r.page, applied |-> acc.applied \/ r.ok]
Replay(page, edits) ==
    LET run[i \in 0..Len(edits)] ==
            IF i = 0 THEN [page |-> page, applied |-> FALSE]
            ELSE LET acc == run[i - 1]
                 IN  IF Skipped(acc.page, edits[i]) THEN acc
                     ELSE Step(acc, Apply(acc.page, edits[i]))
    IN  run[Len(edits)]

\* The rings after the edits of an entry have run.
Replayed(doc, e, isUndo, run) ==
    LET last == IF isUndo THEN e.last ELSE [x \in DOMAIN e.last |-> e.op]
        other == [e EXCEPT !.inv = e.fwd, !.fwd = e.inv]
    IN  IF Stale(doc.page, e, isUndo) \/ ~run.applied THEN doc
        ELSE [[doc EXCEPT !.page = Refresh(Stamp(run.page, last))]
                EXCEPT !.undo = IF isUndo THEN @ ELSE Append(@, other),
                       !.redo = IF isUndo THEN Append(@, other) ELSE @]

\* applyHistoryEntry on the entry a ring gives up.
History(doc, e, isUndo) == Replayed(doc, e, isUndo, Replay(doc.page, e.inv))

UndoNow(doc) ==
    IF doc.undo = << >> THEN doc ELSE History([doc EXCEPT !.undo = Front(@)], Last(doc.undo), TRUE)
RedoNow(doc) ==
    IF doc.redo = << >> THEN doc ELSE History([doc EXCEPT !.redo = Front(@)], Last(doc.redo), FALSE)

\* Mutant: an undo latched during a gesture is dropped.
LatchDropped(doc) == [doc EXCEPT !.latched = FALSE]

\* runLatchedHistory: every commit that succeeds runs the latched undo.
RunLatched(doc) == IF doc.latched THEN UndoNow([doc EXCEPT !.latched = FALSE]) ELSE doc

\* Mutant: a commit leaves the redo ring alone.
RecordedKeepingRedo(doc, page, inv, edits, pre) ==
    LET op == doc.op + 1
        last == Targets(doc.page, edits)
        done == Refresh(Stamp(page, [x \in DOMAIN last |-> op]))
    IN  RunLatched([doc EXCEPT !.page = done, !.op = op,
                               !.undo = Append(@, Entry(op, inv, edits, last, pre, done))])

\* `pre' is the page before the gesture.
Recorded(doc, page, inv, edits, pre) ==
    LET op == doc.op + 1
        last == Targets(doc.page, edits)
        done == Refresh(Stamp(page, [x \in DOMAIN last |-> op]))
    IN  RunLatched([doc EXCEPT !.page = done, !.op = op, !.redo = << >>,
                               !.undo = Append(@, Entry(op, inv, edits, last, pre, done))])

\* commitEdit
CommitApplied(doc, e, pre, r) ==
    IF r.ok THEN Recorded(doc, r.page, GenerateUndo(doc.page, e), <<e>>, pre)
    ELSE [doc EXCEPT !.page = r.page, !.stuck = TRUE]
CommitFrom(doc, e, pre) == CommitApplied(doc, e, pre, Apply(doc.page, e))
Commit(doc, e) == CommitFrom(doc, e, doc.page)

\* commitParts: every inverse is generated from the page before the gesture;
\* one refused part puts the whole tree back.
RunParts(page, edits) ==
    LET run[i \in 0..Len(edits)] ==
            IF i = 0 THEN Done(page)
            ELSE LET acc == run[i - 1] IN IF acc.ok THEN Apply(acc.page, edits[i]) ELSE acc
    IN  run[Len(edits)]
Inverses(page, edits) ==
    FlattenSeq(Reverse([i \in DOMAIN edits |-> GenerateUndo(page, edits[i])]))

CommitRun(doc, edits, pre, run) ==
    IF run.ok THEN Recorded(doc, run.page, Inverses(doc.page, edits), edits, pre)
    ELSE [doc EXCEPT !.stuck = TRUE]
CommitPartsFrom(doc, edits, pre) ==
    IF edits = << >> THEN doc ELSE CommitRun(doc, edits, pre, RunParts(doc.page, edits))
CommitParts(doc, edits) == CommitPartsFrom(doc, edits, doc.page)

\* A document that has handed out n more ids.
WithIds(doc, n) == [doc EXCEPT !.next = @ + n]

=============================================================================
