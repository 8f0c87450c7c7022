----------------------------- MODULE DeviceSync -----------------------------
(***************************************************************************)
(* The tablet's end of the one-way sync session: OneWaySyncSession of      *)
(* epaper_old/document/one_way_sync.hpp over the tree and the publish      *)
(* queue of DeviceDocument.                                                *)
(*                                                                         *)
(* The session is single threaded and every handler runs to completion, so *)
(* a handler is an operator from the session's state to its next state.    *)
(* The state is a record whose `out' field collects the lines the handler  *)
(* emits (m_outbound); the composition hands them to the transport at the  *)
(* end of the handler.                                                     *)
(*                                                                         *)
(* A document is the set of its node ids: an edit either creates a node    *)
(* or removes one, which is all the handshake and the applier tell apart.  *)
(* An opId is the number of the commit that made it.                       *)
(***************************************************************************)
EXTENDS Integers, Sequences

CONSTANT Node      \* node ids a stroke may create

Doc == SUBSET Node
Edits == [kind : {"create", "remove"}, node : Node]

(***************************************************************************)
(* Messages, tablet to desktop.  A change carries its opId and the edit.   *)
(***************************************************************************)
Changes == [type : {"doc_change"}, seq : Nat, base : Nat, op : Nat, edit : Edits]
Hellos == [type : {"hello"}, lastSeq : Nat, queued : Nat, doc : Doc]
Signals == [type : {"queue_empty", "load_ack"}]
DeviceMsg == Changes \cup Hellos \cup Signals

QueueEmptyMsg == [type |-> "queue_empty"]
LoadAckMsg == [type |-> "load_ack"]

(***************************************************************************)
(* The session and the document it serves.                                 *)
(***************************************************************************)
DeviceState ==
    [linked : BOOLEAN,          \* m_linked
     epochLive : BOOLEAN,       \* m_epochLive
     handshake : BOOLEAN,       \* m_handshakeInFlight
     awaiting : BOOLEAN,        \* m_awaitingDrainAck
     loadLegal : BOOLEAN,       \* m_loadLegal
     preview : BOOLEAN,         \* m_previewActive
     gesture : BOOLEAN,         \* DeviceDocument::m_gestureInFlight
     hasDeferred : BOOLEAN,     \* m_hasDeferredLoad
     deferred : Doc,            \* m_deferredLoad, {} when there is none
     hasCache : BOOLEAN,        \* m_helloCache is not empty
     cache : Doc,               \* its document, {} when there is none
     cursor : Nat,              \* m_wireCursor
     tree : Doc,                \* rootChildren
     queue : Seq(Changes),      \* m_publishQueue
     lastSeq : Nat,             \* m_lastSeq
     out : Seq(DeviceMsg)]      \* m_outbound

DeviceInit ==
    [linked |-> FALSE, epochLive |-> FALSE, handshake |-> FALSE,
     awaiting |-> FALSE, loadLegal |-> FALSE, preview |-> FALSE,
     gesture |-> FALSE, hasDeferred |-> FALSE, deferred |-> {},
     hasCache |-> FALSE, cache |-> {}, cursor |-> 0, tree |-> {},
     queue |-> <<>>, lastSeq |-> 0, out |-> <<>>]

Emit(d, msg) == [d EXCEPT !.out = Append(@, msg)]

(***************************************************************************)
(* hello { lastSeq, queued, document? }.  An empty queue makes the hello   *)
(* carry the document, and that line is cached for retransmission.         *)
(***************************************************************************)
HelloWith(d, doc) ==
    [type |-> "hello", lastSeq |-> d.lastSeq, queued |-> Len(d.queue), doc |-> doc]

EmitHello(d) ==
    IF d.queue # <<>> THEN Emit(d, HelloWith(d, {}))
    ELSE IF d.hasCache THEN Emit(d, HelloWith(d, d.cache))
    ELSE [Emit(d, HelloWith(d, d.tree)) EXCEPT !.hasCache = TRUE, !.cache = d.tree]

ClearHelloCache(d) == [d EXCEPT !.hasCache = FALSE, !.cache = {}]

OnLinkUp(d) ==
    [EmitHello([d EXCEPT !.linked = TRUE, !.cursor = 0])
        EXCEPT !.handshake = TRUE,
               !.loadLegal = d.queue = <<>>,
               !.awaiting = d.queue # <<>>]

OnLinkDown(d) ==
    [d EXCEPT !.linked = FALSE, !.handshake = FALSE, !.awaiting = FALSE,
              !.loadLegal = FALSE, !.cursor = 0]

RetransmitHelloIfWaiting(d) ==
    IF ~d.linked \/ d.epochLive THEN d ELSE EmitHello(d)

(***************************************************************************)
(* Publishing: everything from the wire cursor to the end of the queue.    *)
(* Published changes stay in the queue; only an accepted load clears it.   *)
(***************************************************************************)
\* Mutant: the newest change is left out.
PublishAllButNewest(d) ==
    IF d.cursor >= Len(d.queue) THEN d
    ELSE [d EXCEPT !.out = @ \o SubSeq(d.queue, d.cursor + 1, Len(d.queue) - 1),
                   !.cursor = Len(d.queue)]

PublishFromCursor(d) ==
    IF d.cursor >= Len(d.queue) THEN d
    ELSE [d EXCEPT !.out = @ \o SubSeq(d.queue, d.cursor + 1, Len(d.queue)),
                   !.cursor = Len(d.queue)]

DrainQueueThenMarkLegal(d) ==
    LET p == PublishFromCursor(d)
        q == IF p.cursor > d.cursor THEN Emit(p, QueueEmptyMsg) ELSE p
    IN  [q EXCEPT !.awaiting = FALSE, !.loadLegal = TRUE]

(***************************************************************************)
(* An accepted load starts a new epoch: the tree is replaced and the queue *)
(* and the sequence restart, unless an empty document would wipe a         *)
(* non-empty tree, in which case tree, queue and sequence are kept.        *)
(***************************************************************************)
KeepsLocal(d, doc) == doc = {} /\ d.tree # {}

\* Mutant: the sequence is not restarted.
AcceptedLoadKeepsSeq(d, doc) ==
    [d EXCEPT !.tree = doc, !.queue = <<>>, !.gesture = FALSE]

OnAcceptedDocLoad(d, doc) ==
    [d EXCEPT !.tree = doc, !.queue = <<>>, !.lastSeq = 0, !.gesture = FALSE]

\* Mutant: the wire cursor is not rewound.
AcceptLoadKeepsCursor(d, doc) ==
    LET e == IF KeepsLocal(d, doc) THEN d ELSE OnAcceptedDocLoad(d, doc)
    IN  Emit([ClearHelloCache(e)
                EXCEPT !.epochLive = TRUE, !.handshake = FALSE,
                       !.loadLegal = FALSE, !.awaiting = FALSE],
             LoadAckMsg)

AcceptLoad(d, doc) ==
    LET e == IF KeepsLocal(d, doc) THEN d ELSE OnAcceptedDocLoad(d, doc)
    IN  Emit([ClearHelloCache(e)
                EXCEPT !.cursor = 0, !.epochLive = TRUE, !.handshake = FALSE,
                       !.loadLegal = FALSE, !.awaiting = FALSE],
             LoadAckMsg)

MaybeAcceptDeferredLoad(d) ==
    IF ~d.hasDeferred \/ d.gesture \/ d.preview THEN d
    ELSE AcceptLoad(DrainQueueThenMarkLegal([d EXCEPT !.hasDeferred = FALSE,
                                                      !.deferred = {}]),
                    d.deferred)

OnDrainAck(d) == MaybeAcceptDeferredLoad(DrainQueueThenMarkLegal(d))

\* Mutant: a preview stroke does not defer the load.
OnDocLoadMidPreview(d, doc) ==
    IF d.epochLive /\ ~d.handshake THEN d
    ELSE IF d.gesture THEN [d EXCEPT !.hasDeferred = TRUE, !.deferred = doc]
    ELSE AcceptLoad(DrainQueueThenMarkLegal(d), doc)

OnDocLoad(d, doc) ==
    IF d.epochLive /\ ~d.handshake THEN d                      \* unsolicited
    ELSE IF d.gesture \/ d.preview
    THEN [d EXCEPT !.hasDeferred = TRUE, !.deferred = doc]
    ELSE IF ~d.loadLegal /\ ~d.handshake /\ d.queue = <<>> THEN d
    ELSE AcceptLoad(DrainQueueThenMarkLegal(d), doc)

HandleInbound(d, msg) ==
    IF msg.type = "drain_ack" THEN OnDrainAck(d) ELSE OnDocLoad(d, msg.doc)

(***************************************************************************)
(* Local editing: the document takes the edit, enqueues the change and     *)
(* ends the gesture; the session then publishes if the epoch is live.      *)
(***************************************************************************)
Applies(doc, edit) ==
    IF edit.kind = "create" THEN edit.node \notin doc ELSE edit.node \in doc

ApplyEdit(doc, edit) ==
    IF edit.kind = "create" THEN doc \cup {edit.node} ELSE doc \ {edit.node}

EnqueueChange(d, op, edit) ==
    [d EXCEPT !.lastSeq = @ + 1,
              !.queue = Append(@, [type |-> "doc_change", seq |-> d.lastSeq + 1,
                                   base |-> d.lastSeq, op |-> op, edit |-> edit])]

CommitEdit(d, op, edit) ==
    [EnqueueChange(d, op, edit)
        EXCEPT !.tree = ApplyEdit(@, edit), !.gesture = FALSE]

OnLocalCommit(d) ==
    LET e == MaybeAcceptDeferredLoad(ClearHelloCache(d))
    IN  IF e.linked /\ e.epochLive /\ ~e.handshake /\ ~e.awaiting
        THEN PublishFromCursor(e)
        ELSE e

EndPreviewStroke(d) == MaybeAcceptDeferredLoad([d EXCEPT !.preview = FALSE])
=============================================================================
