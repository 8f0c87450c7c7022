--------------------------- MODULE DocumentEdits ---------------------------
(***************************************************************************)
(* The edits of the tablet's document (epaper_old/document/operations) and *)
(* what applying one does to the tree and to the id index that             *)
(* DeviceDocument keeps beside it.                                         *)
(*                                                                         *)
(* A document is [tree, index].  The tree is the sequence of root nodes in *)
(* paint order; nesting is left out, since a parent only adds a second     *)
(* sequence with the same insert and erase.  A node is its id, the opId of *)
(* the last edit that touched it (0 for the empty string) and one payload  *)
(* value standing for transform, bounds, samples and style.                *)
(*                                                                         *)
(* m_byId maps an id to a node's address.  The root nodes live in one      *)
(* vector, so an address is a slot: the index maps an id to the position   *)
(* whose node it points at, which need not be the node with that id.       *)
(***************************************************************************)
EXTENDS Integers, SequencesExt

CONSTANTS Ids, Vals

\* A node always has a payload.
ASSUME ValsAssumption == Vals # {}

Node == [id : Ids, last : Nat, val : Vals]

\* One shape for every edit; `last' and `at' matter to a restore only.
Edit == [kind : {"create", "remove", "set", "restore"},
         id : Ids, val : Vals, last : Nat, at : Int]

AnyVal == CHOOSE v \in Vals : TRUE

CreateNode(id, v) == [kind |-> "create", id |-> id, val |-> v, last |-> 0, at |-> -1]
RemoveNode(id) == [kind |-> "remove", id |-> id, val |-> AnyVal, last |-> 0, at |-> -1]
SetNode(id, v) == [kind |-> "set", id |-> id, val |-> v, last |-> 0, at |-> -1]
\* A reparent that carries the node's body.
RestoreNode(id, node, at) ==
    [kind |-> "restore", id |-> id, val |-> node.val, last |-> node.last, at |-> at]

IdsOf(tree) == {tree[i].id : i \in DOMAIN tree}

\* findPlaceIn scans the tree itself, never the index.
Place(tree, id) == CHOOSE i \in DOMAIN tree : tree[i].id = id

(***************************************************************************)
(* findMut: the index first, a scan when it has no entry; 0 is nullptr.    *)
(***************************************************************************)
Find(doc, id) ==
    IF id \in DOMAIN doc.index THEN doc.index[id]
    ELSE IF id \in IdsOf(doc.tree) THEN Place(doc.tree, id) ELSE 0

(***************************************************************************)
(* insertAt and detachAny / removeId.  Both end with rebindSiblings, which *)
(* points every id of the vector at its node and keeps entries of ids that *)
(* are not in it.                                                          *)
(***************************************************************************)
\* Mutant: the siblings are not rebound after the vector moved.
KeepIndex(tree, index) ==
    [id \in DOMAIN index \cup IdsOf(tree) |->
        IF id \in DOMAIN index THEN index[id] ELSE Place(tree, id)]

Rebind(tree, index) ==
    [id \in DOMAIN index \cup IdsOf(tree) |->
        IF id \in IdsOf(tree) THEN Place(tree, id) ELSE index[id]]

Insert(doc, node, at) ==
    LET k == IF at < 0 \/ at > Len(doc.tree) THEN Len(doc.tree) ELSE at
        tree == InsertAt(doc.tree, k + 1, node)
    IN  [tree |-> tree, index |-> Rebind(tree, doc.index)]

Detach(doc, id) ==
    IF id \notin IdsOf(doc.tree) THEN doc
    ELSE LET tree == RemoveAt(doc.tree, Place(doc.tree, id))
         IN  [tree |-> tree,
              index |-> Rebind(tree, Restrict(doc.index, DOMAIN doc.index \ {id}))]

\* The node in a slot gets another payload.
SetVal(tree, slot, v) ==
    [i \in DOMAIN tree |-> IF i = slot THEN [tree[i] EXCEPT !.val = v] ELSE tree[i]]

(***************************************************************************)
(* DocEdit::doApply.  An exception becomes ok = FALSE; every kind throws   *)
(* before it touches the tree.                                             *)
(***************************************************************************)
Refused(doc) == [ok |-> FALSE, doc |-> doc]
Done(doc) == [ok |-> TRUE, doc |-> doc]

Apply(doc, e) ==
    CASE e.kind = "create" ->
            IF e.id \in DOMAIN doc.index THEN Refused(doc)
            ELSE Done(Insert(doc, [id |-> e.id, last |-> 0, val |-> e.val], -1))
      [] e.kind = "remove" ->
            IF e.id \notin IdsOf(doc.tree) THEN Refused(doc) ELSE Done(Detach(doc, e.id))
      [] e.kind = "set" ->
            IF Find(doc, e.id) = 0 THEN Refused(doc)
            ELSE Done([doc EXCEPT !.tree = SetVal(@, Find(doc, e.id), e.val)])
      [] e.kind = "restore" ->
            Done(Insert(Detach(doc, e.id),
                        [id |-> e.id, last |-> e.last, val |-> e.val], e.at))

\* commitParts: the parts in order, up to the first that is refused.
ApplyParts(doc, parts) ==
    LET after[i \in 0..Len(parts)] ==
            IF i = 0 THEN Done(doc)
            ELSE LET r == after[i - 1] IN IF r.ok THEN Apply(r.doc, parts[i]) ELSE r
    IN  after[Len(parts)]

(***************************************************************************)
(* DocEdit::generateUndo, taken against the document before the edit.      *)
(***************************************************************************)
\* Mutant: the inverse of a removal forgets where the node was.
UndoAtEnd(doc, e) ==
    IF e.kind \in {"remove", "restore"} /\ Find(doc, e.id) # 0
    THEN RestoreNode(e.id, doc.tree[Find(doc, e.id)], -1)
    ELSE IF e.kind = "set" /\ Find(doc, e.id) # 0
    THEN SetNode(e.id, doc.tree[Find(doc, e.id)].val) ELSE RemoveNode(e.id)

GenerateUndo(doc, e) ==
    LET slot == Find(doc, e.id)
        present == slot # 0 /\ e.id \in IdsOf(doc.tree)
    IN  CASE e.kind = "create" -> RemoveNode(e.id)
          [] e.kind = "set" -> SetNode(e.id, IF slot # 0 THEN doc.tree[slot].val ELSE AnyVal)
          [] OTHER -> IF present
                      THEN RestoreNode(e.id, doc.tree[slot], Place(doc.tree, e.id) - 1)
                      ELSE RemoveNode(e.id)

(***************************************************************************)
(* Undo targets: each id once, with the lastOpId its node has now, and the *)
(* two ways a committed edit or a history step writes lastOpId back.       *)
(***************************************************************************)
Targets(doc, parts) ==
    [id \in {parts[i].id : i \in DOMAIN parts} |->
        IF Find(doc, id) # 0 THEN doc.tree[Find(doc, id)].last ELSE 0]

\* The last edit of the node an id finds becomes stamp[id].
Stamp(doc, stamp) ==
    LET hits(i) == {id \in DOMAIN stamp : Find(doc, id) = i}
    IN  [doc EXCEPT !.tree =
            [i \in DOMAIN doc.tree |->
                IF hits(i) = {} THEN doc.tree[i]
                ELSE [doc.tree[i] EXCEPT !.last = stamp[CHOOSE id \in hits(i) : TRUE]]]]

StampOp(doc, targets, op) == Stamp(doc, [id \in DOMAIN targets |-> op])

\* What an observer of the document sees: paint order, ids and payloads.
Content(tree) == [i \in DOMAIN tree |-> [id |-> tree[i].id, val |-> tree[i].val]]
=============================================================================
