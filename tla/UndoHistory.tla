---------------------------- MODULE UndoHistory ----------------------------
(***************************************************************************)
(* The commit path and the undo / redo rings of the tablet's document:     *)
(* DeviceDocument (epaper_old/document/device_document.hpp) with its       *)
(* UndoStack, and the desktop's mirror (VectorDocument.applyOp) that every *)
(* published change is applied to, in order, by the session of OneWaySync. *)
(*                                                                         *)
(* Left out: live preview of a drag (it restores the origin before the     *)
(* commit), non-structural edits, and the pan, tool and selection fields,  *)
(* which the commit path neither reads nor writes.                         *)
(***************************************************************************)
EXTENDS DocumentEdits

CONSTANTS
    Depth,           \* kUndoRingDepth
    MaxOps,          \* bound: opIds a run may hand out
    MaxLoose,        \* bound: opIds up to which a document may become untracked
    Shapes           \* the gestures of this run: sequences of edit kinds

ASSUME DepthAssumption == Depth \in Nat \ {0}

\* The kinds of edit the tools commit.
ASSUME ShapesAssumption == Shapes \subseteq Seq({"create", "paste", "remove", "set"})

VARIABLES
    h,           \* [doc, undo, redo, mirror]: document, rings, desktop's copy
    latch,       \* m_historyLatch
    gesture,     \* m_gestureInFlight
    applied,     \* m_applied
    ops,         \* opIds handed out
    tracked,     \* ghost: see below
    rolledBack   \* ghost: a gesture was rolled back since the load

ghosts == <<tracked, rolledBack>>
vars == <<h, latch, gesture, applied, ops, ghosts>>

(***************************************************************************)
(* `tracked' is not in the code.  It is TRUE while everything that         *)
(* happened to the document since it was loaded went the whole way: each   *)
(* edit was accepted, published and entered in the rings.  Four steps end  *)
(* it: an edit kept off the wire, an edit of applyJson, a gesture rolled   *)
(* back, and an edit refused on a full ring (whose oldest entry is gone).  *)
(***************************************************************************)

(***************************************************************************)
(* An entry of a ring.  `pre' and `post' are not in the code: they are the *)
(* trees before and after the commit, for the properties only.             *)
(***************************************************************************)
View == Seq([id : Ids, val : Vals])
IsEntry(e) ==
    /\ DOMAIN e = {"fwd", "inverses", "counterparts", "targets", "skip", "pre", "post"}
    /\ e.fwd \in Nat /\ e.skip \in BOOLEAN
    /\ e.inverses \in Seq(Edit) /\ e.counterparts \in Seq(Edit)
    /\ DOMAIN e.targets \subseteq Ids /\ e.targets \in [DOMAIN e.targets -> Nat]
    /\ e.pre \in Seq(Node) /\ e.post \in Seq(Node)

-----------------------------------------------------------------------------
(***************************************************************************)
(* The desktop applies a published change to its mirror.  It knows no      *)
(* compound operation and its reparent needs the node to be in the tree;   *)
(* anything it cannot apply makes the mirror suspect until the next load.  *)
(***************************************************************************)
MirrorPlace(m, id) == CHOOSE i \in DOMAIN m.tree : m.tree[i].id = id

Suspected(m) == [tree |-> m.tree, suspect |-> TRUE]

\* insertAt of VectorDocument: where a splice puts a node among n siblings.  A
\* negative index is the front here, though the end on the tablet.
MirrorSlot(n, at) == IF at > n THEN n ELSE IF at < 0 THEN 0 ELSE at

Mirrored(m, e) ==
    LET known == e.id \in {m.tree[i].id : i \in DOMAIN m.tree}
        i == MirrorPlace(m, e.id)
        rest == RemoveAt(m.tree, i)
    IN  IF known <=> e.kind = "create" THEN Suspected(m)
        ELSE [suspect |-> m.suspect, tree |->
                CASE e.kind = "create" -> Append(m.tree, [id |-> e.id, val |-> e.val])
                  [] e.kind = "remove" -> rest
                  [] e.kind = "set" -> SetVal(m.tree, i, e.val)
                  [] e.kind = "restore" -> InsertAt(rest, MirrorSlot(Len(rest), e.at) + 1, m.tree[i])]

\* enqueueChange: one doc_change per commit or history step, compound if more.
Publish(m, edits) ==
    IF m.suspect THEN m
    ELSE IF Len(edits) > 1 THEN Suspected(m)
    ELSE Mirrored(m, edits[1])

-----------------------------------------------------------------------------
(***************************************************************************)
(* UndoStack: pushCapped, and popOldestIfFull before a commit pushes.      *)
(***************************************************************************)
MakeRoom(ring) == IF Len(ring) = Depth THEN Tail(ring) ELSE ring

Push(ring, e) == Append(MakeRoom(ring), e)

(***************************************************************************)
(* applyHistoryEntry, first half: the entry is skipped as a whole when a   *)
(* create would meet its node, or when a live target was edited since.     *)
(***************************************************************************)
\* Mutant: redo forgets to compare the previous opId.
BlockedUndoOnly(doc, e, isUndo) ==
    \E id \in DOMAIN e.targets :
        /\ isUndo
        /\ Find(doc, id) # 0
        /\ doc.tree[Find(doc, id)].last # e.fwd

Blocked(doc, e, isUndo) ==
    \/ \E i \in DOMAIN e.inverses :
          e.inverses[i].kind = "create" /\ Find(doc, e.inverses[i].id) # 0
    \/ \E id \in DOMAIN e.targets :
          /\ Find(doc, id) # 0
          /\ doc.tree[Find(doc, id)].last # IF isUndo THEN e.fwd ELSE e.targets[id]

(***************************************************************************)
(* Second half: the inverses in order, passing over those whose node is    *)
(* gone and those the tree refuses.                                        *)
(***************************************************************************)
Replay(doc, edits) ==
    LET after[i \in 0..Len(edits)] ==
            IF i = 0 THEN [doc |-> doc, ran |-> <<>>]
            ELSE LET r == after[i - 1]
                     e == edits[i]
                     a == Apply(r.doc, e)
                 IN  IF \/ e.kind \in {"set", "remove"} /\ Find(r.doc, e.id) = 0
                        \/ ~a.ok
                     THEN r ELSE [doc |-> a.doc, ran |-> Append(r.ran, e)]
    IN  after[Len(edits)]

Counterpart(e) ==
    [fwd |-> e.fwd, inverses |-> e.counterparts, counterparts |-> e.inverses,
     targets |-> e.targets, skip |-> e.skip, pre |-> e.post, post |-> e.pre]

(***************************************************************************)
(* undoNow and redoNow: the newest entry leaves its ring whatever becomes  *)
(* of it; an applied one is published and pushed on the other ring.        *)
(***************************************************************************)
\* Mutant: an applied history step is not published.
HistoryUnpublished(s, e, isUndo, ran) == s.mirror

PublishHistory(s, e, isUndo, ran) == IF e.skip THEN s.mirror ELSE Publish(s.mirror, ran)

Restamp(doc, e, isUndo) ==
    IF isUndo THEN Stamp(doc, e.targets) ELSE StampOp(doc, e.targets, e.fwd)

History(s, isUndo) ==
    LET ring == IF isUndo THEN s.undo ELSE s.redo
        e == Last(ring)
        popped == IF isUndo THEN [s EXCEPT !.undo = Front(@)] ELSE [s EXCEPT !.redo = Front(@)]
        r == Replay(s.doc, e.inverses)
    IN  IF ring = <<>> THEN s
        ELSE IF Blocked(s.doc, e, isUndo) THEN popped
        ELSE IF r.ran = <<>> THEN popped
        ELSE [doc |-> Restamp(r.doc, e, isUndo),
              undo |-> IF isUndo THEN popped.undo ELSE Push(s.undo, Counterpart(e)),
              redo |-> IF isUndo THEN Push(s.redo, Counterpart(e)) ELSE popped.redo,
              mirror |-> PublishHistory(s, e, isUndo, r.ran)]

\* runLatchedHistory, at the end of every gesture.
RunLatched(s) ==
    CASE latch = "undo" -> History(s, TRUE)
      [] latch = "redo" -> History(s, FALSE)
      [] OTHER -> s

EndGesture(s) ==
    /\ h' = RunLatched(s)
    /\ latch' = "none"
    /\ gesture' = FALSE

-----------------------------------------------------------------------------
Fresh ==
    LET inRing(ring) == UNION {DOMAIN ring[i].targets : i \in DOMAIN ring}
    IN  Ids \ (IdsOf(h.doc.tree) \cup DOMAIN h.doc.index \cup inRing(h.undo)
               \cup inRing(h.redo) \cup {h.mirror.tree[i].id : i \in DOMAIN h.mirror.tree})

\* Ids a refused gesture left in the index.  No tool has seen their nodes;
\* looking one up reads past the end of the vector.
Phantom == DOMAIN h.doc.index \ IdsOf(h.doc.tree)

\* The edits a tool may hand the document; a new node always has a new id.
EditsOf(kind) ==
    CASE kind = "create" -> {CreateNode(id, v) : id \in Fresh, v \in Vals}
      [] kind = "paste" -> {RestoreNode(id, [last |-> 0, val |-> v], -1) : id \in Fresh, v \in Vals}
      [] kind = "remove" -> {RemoveNode(id) : id \in Ids \ Phantom}
      [] kind = "set" -> {SetNode(id, v) : id \in Ids \ Phantom, v \in Vals}

Parts(shape) ==
    {p \in [DOMAIN shape -> UNION {EditsOf(shape[i]) : i \in DOMAIN shape}] :
        \A i \in DOMAIN shape : p[i] \in EditsOf(shape[i])}

\* The entry of a commit: inverses of the last part first.
EntryOf(op, parts, enqueue, doc) ==
    [fwd |-> op,
     inverses |-> Reverse([i \in DOMAIN parts |-> GenerateUndo(h.doc, parts[i])]),
     counterparts |-> parts,
     targets |-> Targets(h.doc, parts),
     skip |-> ~enqueue,
     pre |-> h.doc.tree, post |-> doc.tree]

(***************************************************************************)
(* The accepted end of commitEdit and of commitParts.                      *)
(***************************************************************************)
Committed(op, parts, enqueue, doc) ==
    [doc |-> StampOp(doc, Targets(h.doc, parts), op),
     undo |-> Push(h.undo, EntryOf(op, parts, enqueue, doc)),
     redo |-> <<>>,
     mirror |-> IF enqueue THEN Publish(h.mirror, parts) ELSE h.mirror]

Accept(op, parts, enqueue, doc) ==
    /\ EndGesture(Committed(op, parts, enqueue, doc))
    /\ applied' = applied \cup {op}
    /\ ops' = op
    /\ tracked' = (tracked /\ enqueue)
    /\ UNCHANGED rolledBack

(***************************************************************************)
(* commitEdit of one structural edit.                                      *)
(***************************************************************************)
Budget == IF tracked THEN MaxOps ELSE MaxLoose

CommitEdit(e, enqueue) ==
    /\ ops < Budget
    /\ Apply(h.doc, e).ok
    /\ Accept(ops + 1, <<e>>, enqueue, Apply(h.doc, e).doc)

\* The entry was pushed before the edit was tried, and is popped again.
RejectedRing(ring, e) == Front(Push(ring, EntryOf(ops + 1, <<e>>, TRUE, h.doc)))

RejectEdit(e) ==
    /\ ~Apply(h.doc, e).ok
    /\ h' = [h EXCEPT !.undo = RejectedRing(@, e)]
    /\ tracked' = (tracked /\ Len(h.undo) < Depth)
    /\ UNCHANGED <<latch, gesture, applied, ops, rolledBack>>

\* An edit that arrives a second time under an opId already applied.
RejectDuplicate(e) ==
    /\ applied # {}
    /\ h' = [h EXCEPT !.undo = RejectedRing(@, e)]
    /\ tracked' = (tracked /\ Len(h.undo) < Depth)
    /\ UNCHANGED <<latch, gesture, applied, ops, rolledBack>>

(***************************************************************************)
(* commitParts: several edits, one entry, one published change.            *)
(***************************************************************************)
CommitGesture(parts, enqueue) ==
    LET r == ApplyParts(h.doc, parts)
    IN  /\ ops < Budget
        /\ r.ok
        /\ Accept(ops + 1, parts, enqueue, r.doc)

\* A refused part puts the vector of root nodes back, and nothing else.
RollBack(doc, tried) == [tree |-> doc.tree, index |-> tried.index]

RejectParts(parts) ==
    LET r == ApplyParts(h.doc, parts)
    IN  /\ ops < MaxLoose
        /\ ~r.ok
        /\ h' = [h EXCEPT !.doc = RollBack(@, r.doc)]
        /\ tracked' = FALSE
        /\ rolledBack' = TRUE
        /\ UNCHANGED <<latch, gesture, applied, ops>>

(***************************************************************************)
(* The user's undo and redo: latched while a gesture is in flight, the     *)
(* last request winning.                                                   *)
(***************************************************************************)
\* Mutant: an undo does not look for a gesture in flight.
AskUndoAtOnce ==
    /\ h' = History(h, TRUE) /\ UNCHANGED latch
    /\ UNCHANGED <<gesture, applied, ops, ghosts>>

AskUndo ==
    /\ IF gesture THEN latch' = "undo" /\ UNCHANGED h
       ELSE h' = History(h, TRUE) /\ UNCHANGED latch
    /\ UNCHANGED <<gesture, applied, ops, ghosts>>

AskRedo ==
    /\ IF gesture THEN latch' = "redo" /\ UNCHANGED h
       ELSE h' = History(h, FALSE) /\ UNCHANGED latch
    /\ UNCHANGED <<gesture, applied, ops, ghosts>>

BeginGesture ==
    /\ ~gesture
    /\ gesture' = TRUE
    /\ UNCHANGED <<h, latch, applied, ops, ghosts>>

AbortGesture ==
    /\ gesture
    /\ EndGesture(h)
    /\ UNCHANGED <<applied, ops, ghosts>>

\* applyJson: the edit reaches the tree and its targets' lastOpId only.
ApplyOutside(e) ==
    LET r == Apply(h.doc, e)
    IN  /\ ops < MaxLoose
        /\ r.ok
        /\ h' = [h EXCEPT !.doc = StampOp(r.doc, Targets(r.doc, <<e>>), ops + 1)]
        /\ applied' = applied \cup {ops + 1}
        /\ ops' = ops + 1
        /\ tracked' = FALSE
        /\ UNCHANGED <<latch, gesture, rolledBack>>

\* onAcceptedDocLoad(document), of a document both ends then share.
AcceptLoad(tree) ==
    /\ h' = [doc |-> [tree |-> tree, index |-> Rebind(tree, <<>>)],
             undo |-> <<>>, redo |-> <<>>,
             mirror |-> [tree |-> Content(tree), suspect |-> FALSE]]
    /\ latch' = "none"
    /\ gesture' = FALSE
    /\ applied' = {}
    /\ tracked' = TRUE
    /\ rolledBack' = FALSE
    /\ UNCHANGED ops

LoadTrees == {<<>>} \cup {<<[id |-> id, last |-> 0, val |-> AnyVal]>> : id \in Ids}

Init ==
    /\ h = [doc |-> [tree |-> <<>>, index |-> <<>>], undo |-> <<>>, redo |-> <<>>,
            mirror |-> [tree |-> <<>>, suspect |-> FALSE]]
    /\ latch = "none"
    /\ gesture = FALSE
    /\ applied = {}
    /\ ops = 0
    /\ tracked = TRUE
    /\ rolledBack = FALSE

Commits ==
    \E shape \in Shapes : \E parts \in Parts(shape) :
        \/ \E enqueue \in {TRUE} \cup (IF ops < MaxLoose THEN {FALSE} ELSE {}) :
              \/ Len(parts) = 1 /\ CommitEdit(parts[1], enqueue)
              \/ Len(parts) > 1 /\ CommitGesture(parts, enqueue)
        \/ Len(parts) = 1 /\ RejectEdit(parts[1])
        \/ Len(parts) = 1 /\ RejectDuplicate(parts[1])
        \/ Len(parts) > 1 /\ RejectParts(parts)
        \/ Len(parts) = 1 /\ ApplyOutside(parts[1])

Next ==
    \/ Commits
    \/ AskUndo \/ AskRedo
    \/ BeginGesture \/ AbortGesture
    \/ \E tree \in LoadTrees : AcceptLoad(tree)

Spec == Init /\ [][Next]_vars

-----------------------------------------------------------------------------
(***************************************************************************)
(* Properties                                                              *)
(***************************************************************************)
\* Every variable keeps its shape.  After a gesture that was rolled back only
\* the session's own variables do: an id the gesture left in the index is
\* looked up past the end of the vector.
TypeOK ==
    /\ latch \in {"none", "undo", "redo"} /\ gesture \in BOOLEAN
    /\ applied \subseteq 1..ops /\ ops \in Nat
    /\ tracked \in BOOLEAN /\ rolledBack \in BOOLEAN
    /\ ~rolledBack =>
        /\ h.doc.tree \in Seq(Node)
        /\ h.doc.index \in [IdsOf(h.doc.tree) -> 1..Len(h.doc.tree)]
        /\ \A i \in DOMAIN h.undo : IsEntry(h.undo[i])
        /\ \A i \in DOMAIN h.redo : IsEntry(h.redo[i])
        /\ h.mirror \in [tree : View, suspect : BOOLEAN]

\* Neither ring grows past kUndoRingDepth, whichever of a commit, an undo, a
\* redo or a latched request pushes on it (UndoStack::pushCapped).
RingsBounded == Len(h.undo) <= Depth /\ Len(h.redo) <= Depth

\* A request is latched only while a gesture is in flight: every path that
\* ends the gesture also consumes the request (runLatchedHistory).
LatchOnlyInGesture == latch # "none" => gesture

\* Undo and redo requests leave a gesture in flight alone: as long as it lasts
\* and nothing else is committed, the tree and the redo ring stand still.
HistoryWaitsForGesture ==
    [][gesture /\ gesture' /\ ops' = ops
        => h'.doc.tree = h.doc.tree /\ h'.redo = h.redo]_vars

\* m_byId points every id at the node with that id, after any sequence of
\* commits, undos and redos that shift the vector (rebindSiblings), until a
\* gesture is rolled back.
IndexTrue == ~rolledBack =>
    /\ DOMAIN h.doc.index = IdsOf(h.doc.tree)
    /\ \A id \in DOMAIN h.doc.index :
          h.doc.index[id] <= Len(h.doc.tree) /\ h.doc.tree[h.doc.index[id]].id = id

\* The desktop never shows another document than the tablet's without knowing
\* it: whatever is committed, undone and redone, the changes published keep
\* the mirror equal or make it suspect, which asks for a new document.
MirrorFollows == tracked /\ ~h.mirror.suspect => h.mirror.tree = Content(h.doc.tree)

\* A history step never undoes through another edit: a node whose last edit
\* is not the one the entry remembers keeps its payload (skip-whole, F20).
PassesOver ==
    \A isUndo \in BOOLEAN :
        LET ring == IF isUndo THEN h.undo ELSE h.redo
        IN  ring # <<>> /\ h' = History(h, isUndo) =>
            \A i \in DOMAIN h.doc.tree :
                LET node == h.doc.tree[i]
                    e == Last(ring)
                    own == IF isUndo THEN e.fwd ELSE e.targets[node.id]
                IN  (node.id \notin DOMAIN e.targets \/ node.last # own) =>
                        \E j \in DOMAIN h'.doc.tree : h'.doc.tree[j] = node

NoUndoThrough == [][~rolledBack => PassesOver]_vars

(***************************************************************************)
(* The rings implement a linear history of whole documents: an entry of    *)
(* the undo ring stands for the document before its commit, one of the     *)
(* redo ring for the document after it.  A document that is not tracked    *)
(* has no history to promise.                                              *)
(***************************************************************************)
Linear == INSTANCE LinearHistory WITH
    content <- Content(h.doc.tree),
    past <- IF tracked THEN [i \in DOMAIN h.undo |-> Content(h.undo[i].pre)] ELSE <<>>,
    future <- IF tracked THEN [i \in DOMAIN h.redo |-> Content(h.redo[i].pre)] ELSE <<>>

\* Every undo shows exactly the document before its commit and every redo the
\* one after it, over every interleaving with commits, gestures and loads.
LinearSpec == Linear!Spec
=============================================================================
