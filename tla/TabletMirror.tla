---------------------------- MODULE TabletMirror ----------------------------
(***************************************************************************)
(* The desktop's end of the session: the handshake and the inbound applier *)
(* of TabletSession (infini/src/session/TabletSession.ts) over the mirror  *)
(* tree of VectorDocument.  Handlers are operators on the session's state, *)
(* as in DeviceSync; `out' holds what the handler sends down.              *)
(*                                                                         *)
(* Left out: preview strokes and the painted layer, which no handler reads *)
(* back, and the viewport and follow members, which share no field with    *)
(* the handshake.                                                          *)
(***************************************************************************)
EXTENDS DeviceSync

Phases == {"awaiting_hello", "draining", "awaiting_load_ack", "live"}

DrainAckMsg == [type |-> "drain_ack"]
DocLoadMsg(doc) == [type |-> "doc_load", doc |-> doc]
MirrorMsg == [type : {"drain_ack"}] \cup [type : {"doc_load"}, doc : Doc]

MirrorState ==
    [connected : BOOLEAN,
     phase : Phases,
     drainQueued : Nat,
     last : Int,                \* lastAppliedSeq
     tree : Doc,                \* VectorDocument.rootChildren
     applied : SUBSET Nat,      \* VectorDocument.appliedOpIds
     suspect : BOOLEAN,         \* VectorDocument.mirrorSuspect
     out : Seq(MirrorMsg)]

MirrorInit ==
    [connected |-> FALSE, phase |-> "awaiting_hello", drainQueued |-> 0,
     last |-> 0, tree |-> {}, applied |-> {}, suspect |-> FALSE, out |-> <<>>]

Send(m, msg) == [m EXCEPT !.out = Append(@, msg)]

(***************************************************************************)
(* CanvasStage.handleRmClient: the number of open sockets drives connect   *)
(* and disconnect.                                                         *)
(***************************************************************************)
Connect(m) ==
    [m EXCEPT !.connected = TRUE, !.phase = "awaiting_hello", !.drainQueued = 0]

Disconnect(m) ==
    [m EXCEPT !.connected = FALSE, !.phase = "awaiting_hello", !.drainQueued = 0]

\* Mutant: the last close is ignored.
IgnoreLastClose(m, n) == IF n > 0 /\ ~m.connected THEN Connect(m) ELSE m

HandleRmClient(m, n) ==
    IF n > 0 THEN IF m.connected THEN m ELSE Connect(m)
    ELSE IF m.connected THEN Disconnect(m) ELSE m

(***************************************************************************)
(* The epoch load, sent once per handshake and only when drained.          *)
(***************************************************************************)
\* Mutant: the sequence does not restart with the epoch.
EmitDocLoadKeepsLast(m) ==
    IF \/ m.phase \in {"awaiting_load_ack", "live"}
       \/ m.phase = "draining" /\ m.drainQueued > 0
    THEN m
    ELSE Send([m EXCEPT !.drainQueued = 0, !.phase = "awaiting_load_ack"],
              DocLoadMsg(m.tree))

EmitDocLoad(m) ==
    IF \/ m.phase \in {"awaiting_load_ack", "live"}
       \/ m.phase = "draining" /\ m.drainQueued > 0
    THEN m
    ELSE Send([m EXCEPT !.last = 0, !.drainQueued = 0,
                        !.phase = "awaiting_load_ack"],
              DocLoadMsg(m.tree))

ReplaceTree(m, doc) ==
    [m EXCEPT !.tree = doc, !.applied = {}, !.suspect = FALSE]

ReceiveHello(m, msg) ==
    LET e == [m EXCEPT !.drainQueued = msg.queued]
    IN  IF ~m.connected THEN m
        ELSE IF m.phase = "awaiting_load_ack" /\ msg.queued = 0
        THEN Send(e, DocLoadMsg(m.tree))                       \* resendDocLoad
        ELSE IF m.phase = "live" THEN e
        ELSE IF msg.queued > 0
        THEN Send([e EXCEPT !.last = msg.lastSeq - msg.queued,
                            !.phase = "draining"], DrainAckMsg)
        ELSE LET f == [e EXCEPT !.last = msg.lastSeq]
             IN  EmitDocLoad(IF msg.doc = {} THEN f ELSE ReplaceTree(f, msg.doc))

ReceiveQueueEmpty(m) ==
    IF m.connected /\ m.phase = "draining"
    THEN EmitDocLoad([m EXCEPT !.drainQueued = 0])
    ELSE m

ReceiveLoadAck(m) ==
    IF m.phase = "awaiting_load_ack" THEN [m EXCEPT !.phase = "live"] ELSE m

(***************************************************************************)
(* The applier: duplicates first, then the late-subscriber rule, then the  *)
(* suspect gate, the gap test and the edit itself.                         *)
(***************************************************************************)
AdoptBaseSeq(m, msg) ==
    IF m.phase = "awaiting_hello" /\ m.last = 0
    THEN [m EXCEPT !.last = msg.base, !.phase = "live"]
    ELSE m

MarkSuspect(m) == [m EXCEPT !.suspect = TRUE]

ReceiveDocChange(m, msg) ==
    LET e == AdoptBaseSeq(m, msg)
    IN  IF ~m.connected \/ msg.op \in m.applied THEN m
        ELSE IF e.suspect THEN e
        ELSE IF msg.base # e.last \/ ~Applies(e.tree, msg.edit) THEN MarkSuspect(e)
        ELSE [e EXCEPT !.last = msg.seq,
                       !.tree = ApplyEdit(@, msg.edit),
                       !.applied = @ \cup {msg.op}]

ReceiveLine(m, msg) ==
    CASE msg.type = "hello" -> ReceiveHello(m, msg)
      [] msg.type = "queue_empty" -> ReceiveQueueEmpty(m)
      [] msg.type = "load_ack" -> ReceiveLoadAck(m)
      [] msg.type = "doc_change" -> ReceiveDocChange(m, msg)
=============================================================================
