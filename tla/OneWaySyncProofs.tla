-------------------------- MODULE OneWaySyncProofs --------------------------
(***************************************************************************)
(* Type correctness of the sync session, the shape of its publish queue    *)
(* and the pen against the load, for every bound on the environment and    *)
(* every set of nodes; then the first link session: the mirror tracks the  *)
(* tablet and the session implements the replicated log.                   *)
(*                                                                         *)
(* The handlers are operators on the session's record, so each gets a      *)
(* lemma that it maps a well-formed record to a well-formed record; an     *)
(* action then follows from the lemma of its handler.                      *)
(***************************************************************************)
EXTENDS OneWaySync, SequenceTheorems, WellFoundedInduction, TLAPS

(***************************************************************************)
(* A well-formed session: typed, and its queue in shape after n commits.   *)
(***************************************************************************)
Formed(d, n) == d \in DeviceState /\ QueueShaped(d, n)

\* The shape is a matter of the queue, its numbering and the cursor.
LEMMA ShapeFrame ==
    ASSUME NEW n \in Nat, NEW d, QueueShaped(d, n), NEW e,
           e.queue = d.queue, e.lastSeq = d.lastSeq,
           e.cursor = d.cursor \/ (e.cursor = 0 /\ d.queue \in Seq(Changes))
    PROVE  QueueShaped(e, n)
BY DEF QueueShaped

LEMMA EmitFormed ==
    ASSUME NEW n \in Nat, NEW d, Formed(d, n), NEW msg \in DeviceMsg
    PROVE  Formed(Emit(d, msg), n)
<1>1. d \in DeviceState /\ d.out \in Seq(DeviceMsg)
  BY DEF Formed, DeviceState
<1>2. Append(d.out, msg) \in Seq(DeviceMsg)
  BY <1>1
<1>3. [d EXCEPT !.out = Append(d.out, msg)] \in DeviceState
  BY <1>1, <1>2 DEF DeviceState
<1>4. QueueShaped([d EXCEPT !.out = Append(d.out, msg)], n)
  BY <1>1 DEF Formed, QueueShaped, DeviceState
<1> QED BY <1>3, <1>4 DEF Formed, Emit

LEMMA EmitHelloFormed ==
    ASSUME NEW n \in Nat, NEW d, Formed(d, n)
    PROVE  Formed(EmitHello(d), n)
<1>1. ASSUME NEW doc \in Doc PROVE HelloWith(d, doc) \in DeviceMsg
  BY DEF Formed, DeviceState, HelloWith, DeviceMsg, Hellos
<1>2. {} \in Doc /\ d.cache \in Doc /\ d.tree \in Doc
  BY DEF Formed, DeviceState, Doc
<1>3. ASSUME NEW e, Formed(e, n), NEW doc \in Doc
      PROVE  Formed([e EXCEPT !.hasCache = TRUE, !.cache = doc], n)
  BY <1>3 DEF Formed, DeviceState, QueueShaped
<1> QED BY <1>1, <1>2, <1>3, EmitFormed DEF EmitHello

LEMMA LinkFormed ==
    ASSUME NEW n \in Nat, NEW d, Formed(d, n)
    PROVE  Formed(OnLinkUp(d), n) /\ Formed(OnLinkDown(d), n)
<1> DEFINE up == [d EXCEPT !.linked = TRUE, !.cursor = 0]
<1>1. d \in DeviceState /\ QueueShaped(d, n) /\ 0 \in Nat /\ d.queue \in Seq(Changes)
  BY DEF Formed, DeviceState
<1>2. Formed(up, n)
  <2>1. up \in DeviceState
    BY <1>1, Zenon DEF DeviceState
  <2>2. up.queue = d.queue /\ up.lastSeq = d.lastSeq /\ up.cursor = 0
    BY <1>1 DEF DeviceState
  <2> QED BY <1>1, <2>1, <2>2, ShapeFrame DEF Formed
<1>3. Formed(OnLinkUp(d), n)
  <2> DEFINE e == EmitHello(up)
             f == [e EXCEPT !.handshake = TRUE, !.loadLegal = d.queue = <<>>,
                            !.awaiting = d.queue # <<>>]
  <2>1. e \in DeviceState /\ QueueShaped(e, n)
    BY <1>2, EmitHelloFormed DEF Formed
  <2>2. (d.queue = <<>>) \in BOOLEAN /\ (d.queue # <<>>) \in BOOLEAN
    OBVIOUS
  <2> HIDE DEF e
  <2>3. f \in DeviceState
    BY <2>1, <2>2, Zenon DEF DeviceState
  <2>4. f.queue = e.queue /\ f.lastSeq = e.lastSeq /\ f.cursor = e.cursor
    BY <2>1 DEF DeviceState
  <2>5. Formed(f, n)
    BY <2>1, <2>3, <2>4, ShapeFrame DEF Formed
  <2> QED BY <2>5 DEF OnLinkUp, e
<1>4. Formed(OnLinkDown(d), n)
  <2>1. OnLinkDown(d) \in DeviceState
    BY <1>1, Zenon DEF DeviceState, OnLinkDown
  <2>2. /\ OnLinkDown(d).queue = d.queue /\ OnLinkDown(d).lastSeq = d.lastSeq
        /\ OnLinkDown(d).cursor = 0
    BY <1>1 DEF DeviceState, OnLinkDown
  <2> QED BY <1>1, <2>1, <2>2, ShapeFrame DEF Formed
<1> QED BY <1>3, <1>4

(***************************************************************************)
(* Publishing moves the cursor to the end and leaves the queue alone.      *)
(***************************************************************************)
LEMMA PublishFormed ==
    ASSUME NEW n \in Nat, NEW d, Formed(d, n)
    PROVE  Formed(PublishFromCursor(d), n)
<1> DEFINE sent == SubSeq(d.queue, d.cursor + 1, Len(d.queue))
           e == [d EXCEPT !.out = @ \o sent, !.cursor = Len(d.queue)]
<1>1. /\ d \in DeviceState /\ d.queue \in Seq(Changes) /\ d.cursor \in Nat
      /\ d.out \in Seq(DeviceMsg) /\ Len(d.queue) \in Nat
  BY DEF Formed, DeviceState
<1>2. CASE d.cursor >= Len(d.queue)
  BY <1>2 DEF PublishFromCursor
<1>3. CASE ~(d.cursor >= Len(d.queue))
  <2>1. sent \in Seq(Changes)
    BY <1>1, <1>3
  <2>2. sent \in Seq(DeviceMsg)
    BY <2>1 DEF DeviceMsg
  <2>3. d.out \o sent \in Seq(DeviceMsg)
    BY <1>1, <2>2
  <2>4. e \in DeviceState
    BY <1>1, <2>3, Zenon DEF DeviceState
  <2>5. e.queue = d.queue /\ e.lastSeq = d.lastSeq /\ e.cursor = Len(d.queue)
    BY <1>1 DEF DeviceState
  <2>6. QueueShaped(e, n)
    BY <1>1, <2>5 DEF Formed, QueueShaped
  <2> QED BY <1>3, <2>4, <2>6 DEF Formed, PublishFromCursor
<1> QED BY <1>2, <1>3

LEMMA DrainFormed ==
    ASSUME NEW n \in Nat, NEW d, Formed(d, n)
    PROVE  Formed(DrainQueueThenMarkLegal(d), n)
<1>1. QueueEmptyMsg \in DeviceMsg
  BY DEF QueueEmptyMsg, DeviceMsg, Signals
<1>2. ASSUME NEW e, Formed(e, n)
      PROVE  Formed([e EXCEPT !.awaiting = FALSE, !.loadLegal = TRUE], n)
  <2> DEFINE f == [e EXCEPT !.awaiting = FALSE, !.loadLegal = TRUE]
  <2>1. f \in DeviceState
    BY <1>2, Zenon DEF Formed, DeviceState
  <2>2. f.queue = e.queue /\ f.lastSeq = e.lastSeq /\ f.cursor = e.cursor
    BY <1>2 DEF Formed, DeviceState
  <2> QED BY <1>2, <2>1, <2>2, ShapeFrame DEF Formed
<1> QED BY <1>1, <1>2, PublishFormed, EmitFormed DEF DrainQueueThenMarkLegal

(***************************************************************************)
(* A load: the queue is either kept whole or emptied with its numbering.   *)
(***************************************************************************)
LEMMA AcceptLoadFormed ==
    ASSUME NEW n \in Nat, NEW d, Formed(d, n), NEW doc \in Doc
    PROVE  Formed(AcceptLoad(d, doc), n)
<1>1. LoadAckMsg \in DeviceMsg /\ {} \in Doc /\ 0 \in Nat /\ <<>> \in Seq(Changes)
  BY DEF LoadAckMsg, DeviceMsg, Signals, Doc
<1> DEFINE Loaded(e) == [ClearHelloCache(e)
                EXCEPT !.cursor = 0, !.epochLive = TRUE, !.handshake = FALSE,
                       !.loadLegal = FALSE, !.awaiting = FALSE]
           empty == OnAcceptedDocLoad(d, doc)
<1>2. d \in DeviceState /\ QueueShaped(d, n) /\ d.queue \in Seq(Changes)
  BY DEF Formed, DeviceState
<1>3. ASSUME NEW e \in DeviceState
      PROVE  /\ Loaded(e) \in DeviceState
             /\ Loaded(e).queue = e.queue /\ Loaded(e).lastSeq = e.lastSeq
             /\ Loaded(e).cursor = 0
  <2>1. Loaded(e) \in DeviceState
    BY <1>1, Zenon DEF DeviceState, ClearHelloCache
  <2>2. /\ Loaded(e).queue = e.queue /\ Loaded(e).lastSeq = e.lastSeq
        /\ Loaded(e).cursor = 0
    BY DEF DeviceState, ClearHelloCache
  <2> QED BY <2>1, <2>2
<1>4. empty \in DeviceState
  BY <1>1, <1>2, Zenon DEF DeviceState, OnAcceptedDocLoad
<1>5. empty.queue = <<>> /\ empty.lastSeq = 0
  BY <1>2 DEF DeviceState, OnAcceptedDocLoad
<1> HIDE DEF Loaded, empty
<1>6. Formed(Loaded(d), n)
  BY <1>2, <1>3, ShapeFrame DEF Formed
<1>7. Formed(Loaded(empty), n)
  BY <1>3, <1>4, <1>5 DEF Formed, QueueShaped
<1> USE DEF Loaded, empty
<1> QED BY <1>1, <1>6, <1>7, EmitFormed DEF AcceptLoad

LEMMA DeferredFormed ==
    ASSUME NEW n \in Nat, NEW d, Formed(d, n)
    PROVE  Formed(MaybeAcceptDeferredLoad(d), n)
<1> DEFINE e == [d EXCEPT !.hasDeferred = FALSE, !.deferred = {}]
<1>1. d \in DeviceState /\ QueueShaped(d, n) /\ {} \in Doc /\ d.deferred \in Doc
  BY DEF Formed, DeviceState, Doc
<1>2. e \in DeviceState
  BY <1>1, Zenon DEF DeviceState
<1>3. e.queue = d.queue /\ e.lastSeq = d.lastSeq /\ e.cursor = d.cursor
  BY <1>1 DEF DeviceState
<1>4. Formed(e, n)
  BY <1>1, <1>2, <1>3, ShapeFrame DEF Formed
<1> QED BY <1>1, <1>4, DrainFormed, AcceptLoadFormed DEF MaybeAcceptDeferredLoad

(***************************************************************************)
(* What the desktop may send.                                              *)
(***************************************************************************)
LEMMA InboundFormed ==
    ASSUME NEW n \in Nat, NEW d, Formed(d, n), NEW msg \in MirrorMsg
    PROVE  Formed(HandleInbound(d, msg), n)
<1>1. CASE msg.type = "drain_ack"
  BY <1>1, DrainFormed, DeferredFormed DEF HandleInbound, OnDrainAck
<1>2. CASE msg.type # "drain_ack"
  <2>1. msg.doc \in Doc
    BY <1>2 DEF MirrorMsg
  <2> DEFINE e == [d EXCEPT !.hasDeferred = TRUE, !.deferred = msg.doc]
  <2>2. d \in DeviceState /\ QueueShaped(d, n)
    BY DEF Formed
  <2>3. e \in DeviceState
    BY <2>1, <2>2, Zenon DEF DeviceState
  <2>4. e.queue = d.queue /\ e.lastSeq = d.lastSeq /\ e.cursor = d.cursor
    BY <2>2 DEF DeviceState
  <2>5. Formed(e, n)
    BY <2>2, <2>3, <2>4, ShapeFrame DEF Formed
  <2> QED BY <1>2, <2>1, <2>5, DrainFormed, AcceptLoadFormed DEF HandleInbound, OnDocLoad
<1> QED BY <1>1, <1>2

(***************************************************************************)
(* The pen.  A commit numbers its change past everything in the queue.     *)
(***************************************************************************)
LEMMA CommitFormed ==
    ASSUME NEW n \in Nat, NEW d, Formed(d, n), NEW edit \in Edits
    PROVE  Formed(CommitEdit(d, n + 1, edit), n + 1)
<1> DEFINE change == [type |-> "doc_change", seq |-> d.lastSeq + 1,
                      base |-> d.lastSeq, op |-> n + 1, edit |-> edit]
           longer == Append(d.queue, change)
           grown == ApplyEdit(d.tree, edit)
           e == CommitEdit(d, n + 1, edit)
<1>1. /\ d \in DeviceState /\ d.queue \in Seq(Changes) /\ d.lastSeq \in Nat
      /\ d.cursor \in Nat /\ d.tree \in Doc
  BY DEF Formed, DeviceState
<1>2. change \in Changes /\ d.lastSeq + 1 \in Nat
  BY <1>1 DEF Changes
<1>3. longer \in Seq(Changes)
  BY <1>1, <1>2
<1>4. grown \in Doc
  BY <1>1 DEF Edits, Doc, ApplyEdit
<1>5. e = [d EXCEPT !.lastSeq = d.lastSeq + 1, !.queue = longer,
                    !.tree = grown, !.gesture = FALSE]
  BY <1>1 DEF CommitEdit, EnqueueChange, DeviceState
<1>6. e \in DeviceState
  <2> HIDE DEF longer, grown, e
  <2> QED BY <1>1, <1>2, <1>3, <1>4, <1>5, Zenon DEF DeviceState
<1>7. e.queue = longer /\ e.lastSeq = d.lastSeq + 1 /\ e.cursor = d.cursor
  <2> HIDE DEF longer, grown, e
  <2> QED BY <1>1, <1>5 DEF DeviceState
<1>8. QueueShaped(e, n + 1)
  <2>1. /\ d.lastSeq = Len(d.queue) /\ d.cursor <= Len(d.queue)
        /\ \A i \in DOMAIN d.queue :
            /\ d.queue[i].seq = i /\ d.queue[i].base = i - 1 /\ d.queue[i].op <= n
            /\ \A j \in DOMAIN d.queue : i < j => d.queue[i].op < d.queue[j].op
    BY DEF Formed, QueueShaped
  <2>2. \A i \in DOMAIN d.queue : d.queue[i].op \in Nat
    <3> SUFFICES ASSUME NEW i \in DOMAIN d.queue PROVE d.queue[i].op \in Nat
      OBVIOUS
    <3>1. d.queue[i] \in Changes
      BY <1>1
    <3> QED BY <3>1 DEF Changes
  <2>3. /\ Len(longer) = Len(d.queue) + 1
        /\ DOMAIN longer = 1..(Len(d.queue) + 1) /\ DOMAIN d.queue = 1..Len(d.queue)
        /\ \A i \in DOMAIN d.queue : longer[i] = d.queue[i]
        /\ longer[Len(d.queue) + 1] = change
    BY <1>1, <1>2
  <2>4. \A i \in DOMAIN longer :
            /\ longer[i].seq = i /\ longer[i].base = i - 1 /\ longer[i].op <= n + 1
            /\ \A j \in DOMAIN longer : i < j => longer[i].op < longer[j].op
    <3> SUFFICES ASSUME NEW i \in DOMAIN longer
                 PROVE  /\ longer[i].seq = i /\ longer[i].base = i - 1
                        /\ longer[i].op <= n + 1
                        /\ \A j \in DOMAIN longer : i < j => longer[i].op < longer[j].op
      OBVIOUS
    <3>1. change.seq = d.lastSeq + 1 /\ change.base = d.lastSeq /\ change.op = n + 1
      OBVIOUS
    <3>2. Len(d.queue) \in Nat
      BY <1>1
    <3> HIDE DEF longer, change
    <3>3. CASE i = Len(d.queue) + 1
      BY <2>1, <2>3, <3>1, <3>2, <3>3
    <3>4. CASE i # Len(d.queue) + 1
      <4>1. i \in DOMAIN d.queue
        BY <2>3, <3>2, <3>4
      <4>2. longer[i] = d.queue[i]
        BY <2>3, <4>1
      <4>3. longer[i].seq = i /\ longer[i].base = i - 1 /\ longer[i].op <= n + 1
        BY <2>1, <2>2, <4>1, <4>2
      <4>4. ASSUME NEW j \in DOMAIN longer, i < j PROVE longer[i].op < longer[j].op
        <5>1. CASE j = Len(d.queue) + 1
          BY <2>1, <2>2, <2>3, <3>1, <4>1, <4>2, <5>1
        <5>2. CASE j # Len(d.queue) + 1
          <6>1. j \in DOMAIN d.queue
            BY <2>3, <3>2, <5>2
          <6> QED BY <2>1, <2>3, <4>1, <4>2, <4>4, <6>1
        <5> QED BY <5>1, <5>2
      <4> QED BY <4>3, <4>4
    <3> QED BY <3>3, <3>4
  <2> HIDE DEF longer, e
  <2> QED BY <1>1, <1>7, <2>1, <2>3, <2>4 DEF QueueShaped
<1> QED BY <1>6, <1>8 DEF Formed

LEMMA LocalCommitFormed ==
    ASSUME NEW n \in Nat, NEW d, Formed(d, n)
    PROVE  Formed(OnLocalCommit(d), n)
<1>1. d \in DeviceState /\ QueueShaped(d, n) /\ {} \in Doc
  BY DEF Formed, Doc
<1>2. ClearHelloCache(d) \in DeviceState
  BY <1>1, Zenon DEF DeviceState, ClearHelloCache
<1>3. /\ ClearHelloCache(d).queue = d.queue /\ ClearHelloCache(d).lastSeq = d.lastSeq
      /\ ClearHelloCache(d).cursor = d.cursor
  BY <1>1 DEF DeviceState, ClearHelloCache
<1>4. Formed(ClearHelloCache(d), n)
  BY <1>1, <1>2, <1>3, ShapeFrame DEF Formed
<1> QED BY <1>4, DeferredFormed, PublishFormed DEF OnLocalCommit

\* Flags and the emptied outbox leave the queue alone.
LEMMA FlagsFormed ==
    ASSUME NEW n \in Nat, NEW d, Formed(d, n), NEW b \in BOOLEAN
    PROVE  /\ Formed([d EXCEPT !.gesture = b], n)
           /\ Formed([d EXCEPT !.preview = b], n)
           /\ Formed([d EXCEPT !.out = <<>>], n)
<1>1. d \in DeviceState /\ QueueShaped(d, n) /\ <<>> \in Seq(DeviceMsg)
  BY DEF Formed
<1>2. /\ [d EXCEPT !.gesture = b] \in DeviceState
      /\ [d EXCEPT !.preview = b] \in DeviceState
      /\ [d EXCEPT !.out = <<>>] \in DeviceState
  BY <1>1, Zenon DEF DeviceState
<1>3. ASSUME NEW e, e \in {[d EXCEPT !.gesture = b], [d EXCEPT !.preview = b],
                           [d EXCEPT !.out = <<>>]}
      PROVE  e.queue = d.queue /\ e.lastSeq = d.lastSeq /\ e.cursor = d.cursor
  BY <1>1, <1>3 DEF DeviceState
<1> QED BY <1>1, <1>2, <1>3, ShapeFrame DEF Formed

LEMMA RetransmitFormed ==
    ASSUME NEW n \in Nat, NEW d, Formed(d, n)
    PROVE  Formed(RetransmitHelloIfWaiting(d), n)
BY EmitHelloFormed DEF RetransmitHelloIfWaiting

LEMMA EndPreviewFormed ==
    ASSUME NEW n \in Nat, NEW d, Formed(d, n)
    PROVE  Formed(EndPreviewStroke(d), n)
BY FlagsFormed, DeferredFormed DEF EndPreviewStroke

(***************************************************************************)
(* The mirror's handlers.                                                  *)
(***************************************************************************)
LEMMA SendTyped ==
    ASSUME NEW m \in MirrorState, NEW msg \in MirrorMsg
    PROVE  Send(m, msg) \in MirrorState
<1>1. m.out \in Seq(MirrorMsg)
  BY DEF MirrorState
<1>2. Append(m.out, msg) \in Seq(MirrorMsg)
  BY <1>1
<1>3. [m EXCEPT !.out = Append(m.out, msg)] \in MirrorState
  BY <1>2, Zenon DEF MirrorState
<1>4. Send(m, msg) = [m EXCEPT !.out = Append(m.out, msg)]
  BY DEF Send
<1> QED BY <1>3, <1>4

LEMMA ClientTyped ==
    ASSUME NEW m \in MirrorState, NEW n
    PROVE  HandleRmClient(m, n) \in MirrorState
<1>1. "awaiting_hello" \in Phases /\ 0 \in Nat
  BY DEF Phases
<1>2. Connect(m) \in MirrorState /\ Disconnect(m) \in MirrorState
  BY <1>1, Zenon DEF Connect, Disconnect, MirrorState
<1> QED BY <1>2 DEF HandleRmClient

LEMMA EmitLoadTyped ==
    ASSUME NEW m \in MirrorState
    PROVE  EmitDocLoad(m) \in MirrorState
<1> DEFINE e == [m EXCEPT !.last = 0, !.drainQueued = 0, !.phase = "awaiting_load_ack"]
<1>1. "awaiting_load_ack" \in Phases /\ 0 \in Nat /\ 0 \in Int
  BY DEF Phases
<1>2. e \in MirrorState
  BY <1>1, Zenon DEF MirrorState
<1>3. DocLoadMsg(m.tree) \in MirrorMsg
  BY DEF DocLoadMsg, MirrorMsg, MirrorState
<1> QED BY <1>2, <1>3, SendTyped DEF EmitDocLoad

LEMMA HelloTyped ==
    ASSUME NEW m \in MirrorState, NEW msg \in Hellos
    PROVE  ReceiveHello(m, msg) \in MirrorState
<1>1. msg.queued \in Nat /\ msg.lastSeq \in Nat /\ msg.doc \in Doc
  BY DEF Hellos
<1>2. /\ msg.lastSeq \in Int /\ msg.lastSeq - msg.queued \in Int
      /\ "draining" \in Phases /\ {} \in SUBSET Nat /\ FALSE \in BOOLEAN
  BY <1>1 DEF Phases
<1>3. DrainAckMsg \in MirrorMsg /\ DocLoadMsg(m.tree) \in MirrorMsg
  BY DEF DrainAckMsg, DocLoadMsg, MirrorMsg, MirrorState
<1> DEFINE e == [m EXCEPT !.drainQueued = msg.queued]
           drained == [e EXCEPT !.last = msg.lastSeq - msg.queued, !.phase = "draining"]
           f == [e EXCEPT !.last = msg.lastSeq]
<1>4. e \in MirrorState
  BY <1>1, Zenon DEF MirrorState
<1>5. drained \in MirrorState /\ f \in MirrorState
  <2> HIDE DEF e
  <2> QED BY <1>2, <1>4, Zenon DEF MirrorState
<1>6. ReplaceTree(f, msg.doc) \in MirrorState
  <2> HIDE DEF f
  <2> QED BY <1>1, <1>2, <1>5, Zenon DEF ReplaceTree, MirrorState
<1> QED BY <1>3, <1>4, <1>5, <1>6, SendTyped, EmitLoadTyped DEF ReceiveHello

LEMMA ChangeTyped ==
    ASSUME NEW m \in MirrorState, NEW msg \in Changes
    PROVE  ReceiveDocChange(m, msg) \in MirrorState
<1>1. msg.seq \in Int /\ msg.base \in Int /\ msg.op \in Nat /\ msg.edit \in Edits
  BY DEF Changes
<1>2. "live" \in Phases /\ TRUE \in BOOLEAN
  BY DEF Phases
<1> DEFINE e == AdoptBaseSeq(m, msg)
           shown == [e EXCEPT !.last = msg.seq, !.tree = ApplyEdit(e.tree, msg.edit),
                              !.applied = e.applied \cup {msg.op}]
<1>3. e \in MirrorState
  BY <1>1, <1>2, Zenon DEF AdoptBaseSeq, MirrorState
<1> HIDE DEF e
<1>4. ApplyEdit(e.tree, msg.edit) \in Doc /\ e.applied \cup {msg.op} \in SUBSET Nat
  <2>1. e.tree \in Doc /\ e.applied \in SUBSET Nat /\ msg.edit.node \in Node
    BY <1>1, <1>3 DEF MirrorState, Edits
  <2> QED BY <1>1, <2>1 DEF ApplyEdit, Doc
<1>5. shown \in MirrorState
  BY <1>1, <1>3, <1>4, Zenon DEF MirrorState
<1>6. MarkSuspect(e) \in MirrorState
  BY <1>2, <1>3, Zenon DEF MarkSuspect, MirrorState
<1> QED BY <1>3, <1>5, <1>6 DEF ReceiveDocChange, e

LEMMA LineTyped ==
    ASSUME NEW m \in MirrorState, NEW msg \in DeviceMsg
    PROVE  ReceiveLine(m, msg) \in MirrorState
<1>1. CASE msg \in Hellos
  <2>1. msg.type = "hello"
    BY <1>1 DEF Hellos
  <2> QED BY <1>1, <2>1, HelloTyped DEF ReceiveLine
<1>2. CASE msg \in Changes
  <2>1. msg.type = "doc_change"
    BY <1>2 DEF Changes
  <2> QED BY <1>2, <2>1, ChangeTyped DEF ReceiveLine
<1>3. CASE msg \in Signals
  <2>1. msg.type \in {"queue_empty", "load_ack"}
    BY <1>3 DEF Signals
  <2>2. [m EXCEPT !.drainQueued = 0] \in MirrorState /\ [m EXCEPT !.phase = "live"] \in MirrorState
    <3>1. 0 \in Nat /\ "live" \in Phases
      BY DEF Phases
    <3> QED BY <3>1, Zenon DEF MirrorState
  <2> QED BY <2>1, <2>2, EmitLoadTyped DEF ReceiveLine, ReceiveQueueEmpty, ReceiveLoadAck
<1> QED BY <1>1, <1>2, <1>3 DEF DeviceMsg

LEMMA SentTyped ==
    ASSUME NEW m \in MirrorState
    PROVE  [m EXCEPT !.out = <<>>] \in MirrorState
<1>1. <<>> \in Seq(MirrorMsg)
  OBVIOUS
<1> QED BY <1>1, Zenon DEF MirrorState

-----------------------------------------------------------------------------
(***************************************************************************)
(* The invariant is inductive as it stands: the shape of the queue needs   *)
(* the types, and the type of sockets needs nothing but its own guard.     *)
(***************************************************************************)
Inv == TypeOK /\ QueueShape

LEMMA MovesTyped ==
    ASSUME NEW s \in Seq(InfEvent), NEW out \in Seq(DeviceMsg)
    PROVE  s \o out \in Seq(InfEvent)
<1>1. out \in Seq(InfEvent)
  BY DEF InfEvent
<1> QED BY <1>1

LEMMA DeviceStep ==
    ASSUME TypeOK, NEW n \in Nat, NEW d, Formed(d, n), DeviceRan(d)
    PROVE  /\ dev' \in DeviceState /\ dev'.out = <<>> /\ QueueShaped(dev', n)
           /\ toInf' \in Seq(InfEvent)
<1>1. d \in DeviceState /\ d.out \in Seq(DeviceMsg) /\ toInf \in Seq(InfEvent)
  BY DEF Formed, DeviceState, TypeOK
<1>2. dev' = [d EXCEPT !.out = <<>>] /\ Formed([d EXCEPT !.out = <<>>], n)
  BY FlagsFormed DEF DeviceRan
<1>3. [d EXCEPT !.out = <<>>].out = <<>>
  BY <1>1 DEF DeviceState
<1>4. toInf \o d.out \in Seq(InfEvent)
  BY <1>1, MovesTyped
<1>5. toInf' \in Seq(InfEvent)
  BY <1>1, <1>4 DEF DeviceRan
<1> QED BY <1>2, <1>3, <1>5 DEF Formed

LEMMA MirrorStep ==
    ASSUME TypeOK, NEW m \in MirrorState, MirrorRan(m)
    PROVE  inf' \in MirrorState /\ inf'.out = <<>> /\ toDev' \in Seq(MirrorMsg)
<1>1. m.out \in Seq(MirrorMsg) /\ toDev \in Seq(MirrorMsg)
  BY DEF MirrorState, TypeOK
<1>2. inf' = [m EXCEPT !.out = <<>>] /\ [m EXCEPT !.out = <<>>] \in MirrorState
  BY SentTyped DEF MirrorRan
<1>3. [m EXCEPT !.out = <<>>].out = <<>>
  BY DEF MirrorState
<1>4. toDev' \in Seq(MirrorMsg)
  BY <1>1 DEF MirrorRan
<1> QED BY <1>2, <1>3, <1>4

LEMMA InitInv == Init => Inv
<1> SUFFICES ASSUME Init PROVE Inv
  OBVIOUS
<1>1. {} \in Doc /\ 0 \in Nat /\ 0 \in Int /\ <<>> \in Seq(Changes) /\ <<>> \in Seq(DeviceMsg)
      /\ {} \in SUBSET Nat /\ <<>> \in Seq(MirrorMsg) /\ <<>> \in Seq(InfEvent)
      /\ "awaiting_hello" \in Phases
  BY DEF Doc, Phases
<1>2. DeviceInit \in DeviceState
  BY <1>1 DEF DeviceInit, DeviceState
<1>3. MirrorInit \in MirrorState
  BY <1>1 DEF MirrorInit, MirrorState
<1>4. DeviceInit.out = <<>> /\ DeviceInit.queue = <<>> /\ DeviceInit.lastSeq = 0 /\ DeviceInit.cursor = 0
      /\ MirrorInit.out = <<>>
  BY DEF DeviceInit, MirrorInit
<1>5. QueueShaped(DeviceInit, 0)
  BY <1>4 DEF QueueShaped
<1> QED BY <1>1, <1>2, <1>3, <1>4, <1>5 DEF Init, Inv, TypeOK, QueueShape

LEMMA NextInv == Inv /\ [Next]_vars => Inv'
<1> SUFFICES ASSUME Inv, [Next]_vars PROVE Inv'
  OBVIOUS
<1>1. /\ TypeOK /\ Formed(dev, edits) /\ edits \in Nat /\ inf \in MirrorState
      /\ toInf \in Seq(InfEvent) /\ toDev \in Seq(MirrorMsg)
      /\ TRUE \in BOOLEAN /\ FALSE \in BOOLEAN
  BY DEF Inv, TypeOK, QueueShape, Formed
<1>2. CASE BeginGesture
  <2>1. Formed([dev EXCEPT !.gesture = TRUE], edits)
    BY <1>1, FlagsFormed
  <2> QED BY <1>1, <1>2, <2>1, DeviceStep DEF BeginGesture, PenDown, Inv, TypeOK, QueueShape
<1>3. CASE AbortGesture
  <2>1. Formed([dev EXCEPT !.gesture = FALSE], edits)
    BY <1>1, FlagsFormed
  <2> QED BY <1>1, <1>3, <2>1, DeviceStep DEF AbortGesture, budget, Inv, TypeOK, QueueShape
<1>4. CASE Commit
  <2>1. PICK edit \in Edits : /\ DeviceRan(OnLocalCommit(CommitEdit(dev, edits + 1, edit)))
                              /\ drawn' = ApplyEdit(drawn, edit)
    BY <1>4 DEF Commit
  <2>2. Formed(OnLocalCommit(CommitEdit(dev, edits + 1, edit)), edits + 1)
    BY <1>1, CommitFormed, LocalCommitFormed
  <2>3. ApplyEdit(drawn, edit) \in Doc
    BY <1>1 DEF TypeOK, ApplyEdit, Doc, Edits
  <2>4. /\ dev' \in DeviceState /\ dev'.out = <<>> /\ QueueShaped(dev', edits + 1)
        /\ toInf' \in Seq(InfEvent)
    <3>1. edits + 1 \in Nat
      BY <1>1
    <3> QED BY <1>1, <2>1, <2>2, <3>1, DeviceStep
  <2> QED BY <1>1, <1>4, <2>1, <2>3, <2>4 DEF Commit, Inv, TypeOK, QueueShape
<1>5. CASE BeginPreview
  <2>1. Formed([dev EXCEPT !.preview = TRUE], edits)
    BY <1>1, FlagsFormed
  <2> QED BY <1>1, <1>5, <2>1, DeviceStep DEF BeginPreview, PenDown, Inv, TypeOK, QueueShape
<1>6. CASE EndPreview
  BY <1>1, <1>6, EndPreviewFormed, DeviceStep DEF EndPreview, budget, Inv, TypeOK, QueueShape
<1>7. CASE RetransmitHello
  BY <1>1, <1>7, RetransmitFormed, DeviceStep DEF RetransmitHello, Inv, TypeOK, QueueShape
<1>8. CASE DeviceReceives
  <2>1. Head(toDev) \in MirrorMsg /\ Tail(toDev) \in Seq(MirrorMsg)
    BY <1>1, <1>8 DEF DeviceReceives
  <2>2. Formed(HandleInbound(dev, Head(toDev)), edits)
    BY <1>1, <2>1, InboundFormed
  <2>3. /\ dev' \in DeviceState /\ dev'.out = <<>> /\ QueueShaped(dev', edits)
        /\ toInf' \in Seq(InfEvent)
    BY <1>1, <1>8, <2>2, DeviceStep DEF DeviceReceives
  <2> QED BY <1>1, <1>8, <2>1, <2>3 DEF DeviceReceives, budget, Inv, TypeOK, QueueShape
<1>9. CASE LinkUp
  <2> DEFINE open == [type |-> "open", n |-> sockets + 1]
             d == OnLinkUp(dev)
  <2>1. Formed(d, edits)
    BY <1>1, LinkFormed
  <2>2. /\ d \in DeviceState /\ d.out \in Seq(DeviceMsg) /\ open \in InfEvent
    BY <1>1, <2>1 DEF Formed, DeviceState, TypeOK, InfEvent, Notices
  <2>3. Append(toInf, open) \o d.out \in Seq(InfEvent)
    BY <1>1, <2>2, MovesTyped
  <2>4. Formed([d EXCEPT !.out = <<>>], edits) /\ [d EXCEPT !.out = <<>>].out = <<>>
    BY <1>1, <2>1, <2>2, FlagsFormed DEF DeviceState
  <2> QED BY <1>1, <1>9, <2>3, <2>4 DEF LinkUp, Formed, Inv, TypeOK, QueueShape
<1>10. CASE WireDies
  <2>1. PICK k \in 0..Len(toInf) : toInf' = SubSeq(toInf, 1, k)
    BY <1>10 DEF WireDies
  <2>2. toInf' \in Seq(InfEvent)
    BY <1>1, <2>1
  <2>3. wire' \in BOOLEAN /\ toDev' \in Seq(MirrorMsg)
    <3>1. wire' = FALSE /\ toDev' = <<>>
      BY <1>10, Zenon DEF WireDies
    <3>2. <<>> \in Seq(MirrorMsg)
      OBVIOUS
    <3> QED BY <1>1, <3>1, <3>2, Zenon
  <2>4. /\ dev' = dev /\ inf' = inf /\ sockets' = sockets /\ drawn' = drawn
        /\ edits' = edits /\ links' = links /\ reloads' = reloads
        /\ gestures' = gestures /\ ticks' = ticks
    BY <1>10 DEF WireDies, budget
  <2> QED BY <1>1, <2>2, <2>3, <2>4 DEF Inv, TypeOK, QueueShape
<1>11. CASE DeviceSeesDown
  BY <1>1, <1>11, LinkFormed, DeviceStep DEF DeviceSeesDown, budget, Inv, TypeOK, QueueShape
<1>12. CASE MainSeesClose
  <2>1. sockets \in Nat /\ sockets > 0 /\ sockets - 1 \in Nat
    BY <1>1, <1>12 DEF MainSeesClose, TypeOK
  <2>2. [type |-> "close", n |-> sockets - 1] \in InfEvent
    BY <2>1 DEF InfEvent, Notices
  <2>3. Append(toInf, [type |-> "close", n |-> sockets - 1]) \in Seq(InfEvent)
    BY <1>1, <2>2
  <2> QED BY <1>1, <1>12, <2>1, <2>3 DEF MainSeesClose, budget, Inv, TypeOK, QueueShape
<1>13. CASE MirrorReceives
  <2> DEFINE event == Head(toInf)
             m == IF IsNotice(event) THEN HandleRmClient(inf, event.n)
                  ELSE ReceiveLine(inf, event)
  <2>1. event \in InfEvent /\ Tail(toInf) \in Seq(InfEvent)
    BY <1>1, <1>13 DEF MirrorReceives
  <2>2. ~IsNotice(event) => event \in DeviceMsg
    BY <2>1 DEF IsNotice, InfEvent, Notices
  <2>3. m \in MirrorState
    BY <1>1, <2>2, ClientTyped, LineTyped
  <2>4. inf' \in MirrorState /\ inf'.out = <<>> /\ toDev' \in Seq(MirrorMsg)
    <3>1. MirrorRan(m)
      BY <1>13 DEF MirrorReceives
    <3> HIDE DEF m
    <3> QED BY <1>1, <2>3, <3>1, MirrorStep
  <2> QED BY <1>1, <1>13, <2>1, <2>4 DEF MirrorReceives, budget, Inv, TypeOK, QueueShape
<1>14. CASE RendererReloads
  <2>1. MirrorInit \in MirrorState /\ MirrorInit.out = <<>>
    <3>1. {} \in Doc /\ 0 \in Nat /\ 0 \in Int /\ <<>> \in Seq(MirrorMsg)
          /\ {} \in SUBSET Nat /\ "awaiting_hello" \in Phases
      BY DEF Doc, Phases
    <3> QED BY <3>1 DEF MirrorInit, MirrorState
  <2>2. HandleRmClient(MirrorInit, sockets) \in MirrorState
    BY <2>1, ClientTyped
  <2>3. HandleRmClient(MirrorInit, sockets).out = <<>>
    BY <2>1 DEF HandleRmClient, Connect, Disconnect, MirrorState
  <2>4. <<>> \in Seq(InfEvent)
    OBVIOUS
  <2> QED BY <1>1, <1>14, <2>2, <2>3, <2>4 DEF RendererReloads, Inv, TypeOK, QueueShape
<1>15. CASE UNCHANGED vars
  BY <1>15 DEF vars, Inv, TypeOK, QueueShape
<1> QED BY <1>2, <1>3, <1>4, <1>5, <1>6, <1>7, <1>8, <1>9, <1>10, <1>11, <1>12, <1>13,
           <1>14, <1>15 DEF Next

\* Every variable, message and record field keeps its type under every handler,
\* whatever the link, the renderer and the pen do.
THEOREM TypeCorrect == Spec => []TypeOK
<1>1. Inv => TypeOK
  BY DEF Inv
<1> QED BY <1>1, InitInv, NextInv, PTL DEF Spec

\* The publish queue stays numbered 1..lastSeq without holes or repeated opIds and
\* the wire cursor stays within it, over any number of commits, links and loads.
THEOREM QueueStaysShaped == Spec => []QueueShape
<1>1. Inv => QueueShape
  BY DEF Inv
<1> QED BY <1>1, InitInv, NextInv, PTL DEF Spec

-----------------------------------------------------------------------------
(***************************************************************************)
(* The pen against the load.  Every handler but an accepted load leaves    *)
(* the tree and the pen alone, and no handler accepts a load under the pen.*)
(***************************************************************************)
UnderPen(d) == d.gesture \/ d.preview

\* e has the tree and the pen of d.
SamePen(d, e) == e.tree = d.tree /\ e.gesture = d.gesture /\ e.preview = d.preview

LEMMA DrainSamePen ==
    ASSUME NEW d \in DeviceState
    PROVE  SamePen(d, DrainQueueThenMarkLegal(d))
BY DEF DeviceState, SamePen, DrainQueueThenMarkLegal, PublishFromCursor, Emit

LEMMA HelloSamePen ==
    ASSUME NEW d \in DeviceState
    PROVE  SamePen(d, EmitHello(d))
BY DEF DeviceState, SamePen, EmitHello, Emit

LEMMA LinkSamePen ==
    ASSUME NEW n \in Nat, NEW d, Formed(d, n)
    PROVE  SamePen(d, OnLinkUp(d)) /\ SamePen(d, OnLinkDown(d))
<1> DEFINE up == [d EXCEPT !.linked = TRUE, !.cursor = 0]
           e == EmitHello(up)
<1>1. d \in DeviceState /\ 0 \in Nat
  BY DEF Formed
<1>2. up \in DeviceState
  BY <1>1, Zenon DEF DeviceState
<1>3. SamePen(d, up)
  BY <1>1 DEF DeviceState, SamePen
<1>4. SamePen(up, e)
  BY <1>2, HelloSamePen
<1>5. SamePen(e, OnLinkUp(d))
  <2>1. up.queue = d.queue
    BY <1>1 DEF DeviceState
  <2>2. up.lastSeq = d.lastSeq /\ up.cursor = 0 /\ d.queue \in Seq(Changes)
    BY <1>1 DEF DeviceState
  <2>3. Formed(up, n)
    BY <1>2, <2>1, <2>2, ShapeFrame DEF Formed
  <2>4. e \in DeviceState
    BY <2>3, EmitHelloFormed DEF Formed
  <2> QED BY <2>4 DEF OnLinkUp, SamePen, DeviceState
<1>6. SamePen(d, OnLinkDown(d))
  BY <1>1 DEF OnLinkDown, SamePen, DeviceState
<1> QED BY <1>3, <1>4, <1>5, <1>6 DEF SamePen

LEMMA InboundSamePen ==
    ASSUME NEW n \in Nat, NEW d, Formed(d, n), NEW msg \in MirrorMsg, UnderPen(d)
    PROVE  SamePen(d, HandleInbound(d, msg))
<1>1. d \in DeviceState
  BY DEF Formed
<1>2. CASE msg.type = "drain_ack"
  <2>1. SamePen(d, DrainQueueThenMarkLegal(d))
    BY <1>1, DrainSamePen
  <2> QED BY <1>2, <2>1 DEF HandleInbound, OnDrainAck, MaybeAcceptDeferredLoad,
                            UnderPen, SamePen
<1>3. CASE msg.type # "drain_ack"
  BY <1>1, <1>3 DEF HandleInbound, OnDocLoad, UnderPen, SamePen, DeviceState
<1> QED BY <1>2, <1>3

\* No load replaces the tree under the pen: while a gesture or a preview stroke is
\* in progress the document changes only by the creator's own commits, whatever
\* arrives, however the link behaves and for any number of each.
THEOREM PenKeepsItsTree == Spec => LoadWaitsForPen
<1> DEFINE Held == dev.gesture \/ (dev.preview /\ dev'.preview)
           Kept == dev'.tree = dev.tree \/ edits' # edits
<1>1. Inv /\ [Next]_vars => [Held => Kept]_vars
  <2> SUFFICES ASSUME Inv, Next, Held PROVE Kept
    OBVIOUS
  <2>1. Formed(dev, edits) /\ edits \in Nat /\ dev \in DeviceState
    BY DEF Inv, TypeOK, QueueShape, Formed
  <2>2. ASSUME NEW d, DeviceRan(d), d.tree = dev.tree, d \in DeviceState PROVE Kept
    BY <2>2 DEF DeviceRan, DeviceState
  <2>3. CASE BeginGesture
    <3>1. [dev EXCEPT !.gesture = TRUE] \in DeviceState
      BY <2>1, FlagsFormed DEF Formed
    <3>2. [dev EXCEPT !.gesture = TRUE].tree = dev.tree
      BY <2>1 DEF DeviceState
    <3> QED BY <2>2, <2>3, <3>1, <3>2 DEF BeginGesture
  <2>4. CASE AbortGesture
    <3>1. [dev EXCEPT !.gesture = FALSE] \in DeviceState
      BY <2>1, FlagsFormed DEF Formed
    <3>2. [dev EXCEPT !.gesture = FALSE].tree = dev.tree
      BY <2>1 DEF DeviceState
    <3> QED BY <2>2, <2>4, <3>1, <3>2 DEF AbortGesture
  <2>5. CASE Commit
    BY <2>1, <2>5 DEF Commit
  <2>6. CASE BeginPreview
    <3>1. [dev EXCEPT !.preview = TRUE] \in DeviceState
      BY <2>1, FlagsFormed DEF Formed
    <3>2. [dev EXCEPT !.preview = TRUE].tree = dev.tree
      BY <2>1 DEF DeviceState
    <3> QED BY <2>2, <2>6, <3>1, <3>2 DEF BeginPreview
  <2>7. CASE EndPreview
    <3> DEFINE e == [dev EXCEPT !.preview = FALSE]
    <3>1. /\ Formed(e, edits) /\ Formed(EndPreviewStroke(dev), edits)
      BY <2>1, FlagsFormed, EndPreviewFormed
    <3>2. e.preview = FALSE /\ e.gesture = dev.gesture /\ e.tree = dev.tree
      BY <2>1 DEF DeviceState
    <3>3. CASE dev.gesture
      <4>1. EndPreviewStroke(dev) = e
        BY <3>2, <3>3 DEF EndPreviewStroke, MaybeAcceptDeferredLoad
      <4> QED BY <2>2, <2>7, <3>1, <3>2, <4>1 DEF EndPreview, Formed
    <3>4. CASE ~dev.gesture
      <4>1. dev'.preview
        BY <3>4
      <4>2. e \in DeviceState
        BY <3>1 DEF Formed
      <4>3. EndPreviewStroke(dev).preview = FALSE
        BY <3>2, <4>2 DEF EndPreviewStroke, MaybeAcceptDeferredLoad, AcceptLoad, Emit,
           DrainQueueThenMarkLegal, PublishFromCursor, ClearHelloCache, OnAcceptedDocLoad,
           DeviceState
      <4>4. dev'.preview = FALSE
        BY <2>7, <3>1, <4>3 DEF EndPreview, DeviceRan, Formed, DeviceState
      <4> QED BY <4>1, <4>4
    <3> QED BY <3>3, <3>4
  <2>8. CASE RetransmitHello
    <3>1. SamePen(dev, RetransmitHelloIfWaiting(dev))
      BY <2>1, HelloSamePen DEF RetransmitHelloIfWaiting, SamePen
    <3>2. RetransmitHelloIfWaiting(dev) \in DeviceState
      BY <2>1, RetransmitFormed DEF Formed
    <3> QED BY <2>2, <2>8, <3>1, <3>2 DEF RetransmitHello, SamePen
  <2>9. CASE DeviceReceives
    <3>1. Head(toDev) \in MirrorMsg
      BY <2>9 DEF DeviceReceives, Inv, TypeOK
    <3>2. SamePen(dev, HandleInbound(dev, Head(toDev)))
      BY <2>1, <3>1, InboundSamePen DEF UnderPen
    <3>3. HandleInbound(dev, Head(toDev)) \in DeviceState
      BY <2>1, <3>1, InboundFormed DEF Formed
    <3> QED BY <2>2, <2>9, <3>2, <3>3 DEF DeviceReceives, SamePen
  <2>10. CASE LinkUp
    <3>1. SamePen(dev, OnLinkUp(dev)) /\ OnLinkUp(dev) \in DeviceState
      BY <2>1, LinkSamePen, LinkFormed DEF Formed
    <3> QED BY <2>10, <3>1 DEF LinkUp, SamePen, DeviceState
  <2>11. CASE DeviceSeesDown
    <3>1. SamePen(dev, OnLinkDown(dev)) /\ OnLinkDown(dev) \in DeviceState
      BY <2>1, LinkSamePen, LinkFormed DEF Formed
    <3> QED BY <2>2, <2>11, <3>1 DEF DeviceSeesDown, SamePen
  <2>12. CASE WireDies \/ MainSeesClose \/ MirrorReceives \/ RendererReloads
    BY <2>12 DEF WireDies, MainSeesClose, MirrorReceives, RendererReloads
  <2> QED BY <2>3, <2>4, <2>5, <2>6, <2>7, <2>8, <2>9, <2>10, <2>11, <2>12 DEF Next
<1> QED BY <1>1, InitInv, NextInv, PTL DEF Spec, LoadWaitsForPen

-----------------------------------------------------------------------------
(***************************************************************************)
(* The invariant of the first link session.  Two functions witness it:     *)
(* D[i] is the document after the first i changes of the queue, and P[i]   *)
(* is how many of them the mirror will have applied once it has read the   *)
(* first i events on their way, so P[0] is what it shows now.              *)
(***************************************************************************)
\* D is the run of documents of the queue q.
Runs(q, D) ==
    \A i \in 1..Len(q) : Applies(D[i - 1], q[i].edit) /\ D[i] = ApplyEdit(D[i - 1], q[i].edit)

\* P is the reading of the queue q by the events s: each change is the next one.
Reads(s, q, P) ==
    /\ P \in [0..Len(s) -> 0..Len(q)]
    /\ \A i \in 1..Len(s) :
          IF IsChange(s[i]) THEN P[i] = P[i - 1] + 1 /\ s[i] = q[P[i]] ELSE P[i] = P[i - 1]
    /\ \A i, j \in 0..Len(s) : i <= j => P[i] <= P[j]

\* The mirror will hear the lines on their way.
Listening == inf.connected \/ (toInf # <<>> /\ toInf[1].type = "open")

\* The tablet and the link: a live epoch has everything sent, a handshake nothing or all.
LinkOK ==
    /\ dev.tree = drawn
    /\ dev.cache = {}
    /\ dev.queue = <<>> /\ ~dev.epochLive => dev.tree = {}
    /\ links = 0 => /\ ~wire /\ ~dev.linked /\ ~dev.epochLive
                    /\ sockets = 0 /\ toInf = <<>> /\ inf.applied = {}
    /\ wire => dev.linked /\ sockets = 1 /\ Listening
    /\ ~wire => toDev = <<>>
    /\ sockets <= 1
    /\ dev.linked => (dev.handshake <=> ~dev.epochLive) /\ links # 0
    /\ ~dev.linked => ~dev.handshake
    /\ dev.linked /\ dev.handshake => dev.cursor \in {0, Len(dev.queue)}
    /\ dev.linked /\ dev.epochLive => dev.cursor = Len(dev.queue) /\ ~dev.awaiting

\* The events: notices frame the session, a hello is read before anything was applied or
\* after everything, and queue_empty stands where the drained queue ends.
EventsOK(P) ==
    \A i \in 1..Len(toInf) :
        LET e == toInf[i] IN
        /\ e.type = "open" => i = 1 /\ e.n = 1
        /\ e.type = "close" => i = Len(toInf) /\ e.n = 0 /\ ~wire /\ sockets = 0
        /\ ~IsNotice(e) => Listening
        /\ e.type = "hello" =>
              /\ e.lastSeq = e.queued /\ e.doc = {}
              /\ wire /\ ~dev.epochLive => e.queued = Len(dev.queue)
              /\ P[i] = 0 \/ (~dev.epochLive /\ P[i] = P[Len(toInf)])
        /\ e.type = "queue_empty" =>
              /\ ~dev.epochLive /\ P[i] = P[Len(toInf)]
              /\ wire => dev.cursor = Len(dev.queue) /\ dev.queue # <<>>
              /\ \A j \in 1..Len(toInf) : toInf[j].type = "queue_empty" => j = i

\* A load of the handshake loads what the tablet has: the mirror has read the whole queue.
LoadsOK(P) ==
    \A i \in 1..Len(toDev) :
        toDev[i].type = "doc_load" /\ ~dev.epochLive =>
            /\ P[0] = Len(dev.queue) /\ toDev[i].doc = inf.tree /\ inf.last = 0
            /\ \A j \in 1..Len(toInf) : toInf[j].type # "queue_empty"

\* The mirror is a prefix of the tablet, and its sequence number is at the prefix
\* whenever a change is to come.
MirrorOK(D, P) ==
    /\ Runs(dev.queue, D) /\ D[Len(dev.queue)] = dev.tree /\ D[P[0]] = inf.tree
    /\ Reads(toInf, dev.queue, P)
    /\ wire => P[Len(toInf)] = dev.cursor
    /\ \A i \in 1..Len(dev.queue) : dev.queue[i].op \in inf.applied <=> i <= P[0]
    /\ \A op \in inf.applied : op <= edits
    /\ ~inf.suspect
    /\ inf.last \in {0, P[0]}
    /\ P[0] < P[Len(toInf)] \/ (wire /\ dev.epochLive) => inf.last = P[0]

J(D, P) == LinkOK /\ EventsOK(P) /\ LoadsOK(P) /\ MirrorOK(D, P)

\* A set of numbers that is not empty has a smallest member.
LEMMA SmallestOf ==
    ASSUME NEW T, T \subseteq Nat, T # {}
    PROVE  \E x \in T : \A y \in T : x <= y
<1> DEFINE R == OpToRel(<, Nat)
<1>1. IsWellFoundedOn(R, Nat)
  BY NatLessThanWellFounded
<1>2. \A x, y \in Nat : <<y, x>> \in R <=> y < x
  BY DEF OpToRel
<1> HIDE DEF R
<1>3. PICK x \in T : \A y \in T : ~ (<<y, x>> \in R)
  BY <1>1, WFMin
<1>4. \A y \in T : ~ (y < x)
  <2> TAKE y \in T
  <2>1. x \in Nat /\ y \in Nat
    OBVIOUS
  <2> QED
    BY <2>1, <1>2, <1>3
<1> QED
  BY <1>4

\* Induction over the numbers, stated of a set.
LEMMA InductionSet ==
    ASSUME NEW S, 0 \in S, \A n \in Nat : n \in S => n + 1 \in S
    PROVE  Nat \subseteq S
<1> SUFFICES ASSUME Nat \ S # {} PROVE FALSE
  OBVIOUS
<1>1. PICK x \in Nat \ S : \A y \in Nat \ S : x <= y
  <2> DEFINE T == Nat \ S
  <2>1. T \subseteq Nat /\ T # {}
    OBVIOUS
  <2> HIDE DEF T
  <2>2. \E x \in T : \A y \in T : x <= y
    BY <2>1, SmallestOf
  <2> QED
    BY <2>2 DEF T
<1>2. x # 0 /\ x - 1 \in Nat /\ x - 1 < x
  OBVIOUS
<1>3. x - 1 \in S
  BY <1>1, <1>2
<1>4. x - 1 + 1 \in S
  BY <1>2, <1>3
<1> QED
  BY <1>4

\* Every element of the queue is a change.
LEMMA QueueOfChanges ==
    ASSUME NEW q \in Seq(Changes), NEW i \in 1..Len(q)
    PROVE  q[i] \in Changes /\ IsChange(q[i]) /\ q[i].edit \in Edits
<1>1. q[i] \in Changes
  OBVIOUS
<1> QED BY <1>1 DEF Changes, IsChange

\* What reads s leaves at i when something else is appended.
Stay(P, k) == [i \in 0..(k + 1) |-> IF i <= k THEN P[i] ELSE P[k]]

\* An event that is no change leaves the reading where it is.
LEMMA ReadsOther ==
    ASSUME NEW U, NEW s \in Seq(U), NEW q \in Seq(Changes), NEW P, Reads(s, q, P),
           NEW e \in U, ~IsChange(e)
    PROVE  Reads(Append(s, e), q, Stay(P, Len(s)))
<1> DEFINE k == Len(s)
           n == Len(q)
           t == Append(s, e)
           Q == Stay(P, k)
<1>1. /\ k \in Nat /\ n \in Nat /\ Len(t) = k + 1
      /\ \A i \in 1..k : t[i] = s[i]
      /\ t[k + 1] = e
  OBVIOUS
<1>2. /\ P \in [0..k -> 0..n]
      /\ \A i \in 1..k : IF IsChange(s[i]) THEN P[i] = P[i - 1] + 1 /\ s[i] = q[P[i]]
                         ELSE P[i] = P[i - 1]
      /\ \A i, j \in 0..k : i <= j => P[i] <= P[j]
  BY DEF Reads
<1> HIDE DEF k, n, t
<1>3. \A i \in 0..k : P[i] \in 0..n
  BY <1>2
<1>4. /\ \A i \in 0..k : Q[i] = P[i]
      /\ Q[k + 1] = P[k]
      /\ Q \in [0..(k + 1) -> 0..n]
  BY <1>1, <1>3 DEF Stay
<1> HIDE DEF Q
<1>5. ASSUME NEW i \in 1..(k + 1)
      PROVE  IF IsChange(t[i]) THEN Q[i] = Q[i - 1] + 1 /\ t[i] = q[Q[i]] ELSE Q[i] = Q[i - 1]
  <2>1. CASE i = k + 1
    <3>1. i - 1 = k /\ k \in 0..k
      BY <2>1, <1>1
    <3> QED BY <2>1, <3>1, <1>1, <1>4
  <2>2. CASE i # k + 1
    <3>1. i \in 1..k /\ i \in 0..k /\ i - 1 \in 0..k
      BY <2>2, <1>1
    <3> QED BY <3>1, <1>1, <1>2, <1>4
  <2> QED BY <2>1, <2>2
<1>6. ASSUME NEW i \in 0..(k + 1), NEW j \in 0..(k + 1), i <= j PROVE Q[i] <= Q[j]
  <2>1. CASE j = k + 1
    <3>1. CASE i = k + 1
      BY <2>1, <3>1, <1>4, <1>1
    <3>2. CASE i # k + 1
      <4>1. i \in 0..k /\ k \in 0..k /\ i <= k
        BY <3>2, <1>1
      <4> QED BY <4>1, <2>1, <1>2, <1>4
    <3> QED BY <3>1, <3>2
  <2>2. CASE j # k + 1
    <3>1. i \in 0..k /\ j \in 0..k
      BY <2>2, <1>6, <1>1
    <3> QED BY <3>1, <1>2, <1>4, <1>6
  <2> QED BY <2>1, <2>2
<1> QED BY <1>1, <1>4, <1>5, <1>6 DEF Reads, Q, k, n, t

\* The queue from c on is appended: the reading goes to its end.
Onward(P, k, c, n) == [i \in 0..(k + (n - c)) |-> IF i <= k THEN P[i] ELSE c + (i - k)]

\* The rest of the queue is sent.
LEMMA ReadsRun ==
    ASSUME NEW U, NEW s \in Seq(U), NEW q \in Seq(Changes), q \in Seq(U), NEW P, Reads(s, q, P),
           NEW c \in 0..Len(q), P[Len(s)] = c
    PROVE  /\ Reads(s \o SubSeq(q, c + 1, Len(q)), q, Onward(P, Len(s), c, Len(q)))
           /\ Len(s \o SubSeq(q, c + 1, Len(q))) = Len(s) + (Len(q) - c)
           /\ \A i \in 1..Len(s) : (s \o SubSeq(q, c + 1, Len(q)))[i] = s[i]
           /\ \A i \in (Len(s) + 1)..(Len(s) + (Len(q) - c)) :
                 (s \o SubSeq(q, c + 1, Len(q)))[i] = q[c + (i - Len(s))]
<1> DEFINE k == Len(s)
           n == Len(q)
           r == SubSeq(q, c + 1, n)
           t == s \o r
           m == k + (n - c)
           Q == Onward(P, k, c, n)
<1>1. k \in Nat /\ n \in Nat /\ c \in 0..n /\ m \in Nat /\ m - k = n - c /\ k <= m /\ n - c \in Nat
  OBVIOUS
<1>2. r \in Seq(U) /\ Len(r) = n - c /\ \A i \in 1..(n - c) : r[i] = q[c + i]
  <2>1. c + 1 \in 1..(n + 1)
    BY <1>1
  <2>2. Len(r) = IF c + 1 <= n THEN n - (c + 1) + 1 ELSE 0
    BY <1>1, <2>1, SubSeqProperties
  <2>3. r \in Seq(U) /\ \A i \in 1..(n - (c + 1) + 1) : r[i] = q[c + 1 + i - 1]
    BY <1>1, <2>1, SubSeqProperties
  <2>4. n - (c + 1) + 1 = n - c /\ (~(c + 1 <= n) => n - c = 0)
    <3> HIDE DEF k, n, r, t, m, Q
    <3> QED BY <1>1
  <2>5. \A i \in 1..(n - c) : c + 1 + i - 1 = c + i
    BY <1>1
  <2> QED BY <2>2, <2>3, <2>4, <2>5
<1>3. /\ Len(t) = m
      /\ \A i \in 1..k : t[i] = s[i]
      /\ \A i \in (k + 1)..m : t[i] = q[c + (i - k)]
  <2>1. Len(t) = k + Len(r)
    BY <1>2, ConcatProperties
  <2> HIDE DEF r
  <2>2. \A i \in 1..k : t[i] = s[i]
    BY <1>1, <1>2
  <2>3. \A i \in (k + 1)..m : t[i] = r[i - k] /\ i - k \in 1..(n - c)
    BY <1>1, <1>2
  <2> QED BY <2>1, <2>2, <2>3, <1>2
<1>4. /\ P \in [0..k -> 0..n]
      /\ \A i \in 1..k : IF IsChange(s[i]) THEN P[i] = P[i - 1] + 1 /\ s[i] = q[P[i]]
                         ELSE P[i] = P[i - 1]
      /\ \A i, j \in 0..k : i <= j => P[i] <= P[j]
      /\ P[k] = c
  BY DEF Reads
<1>5. \A i \in 1..n : IsChange(q[i])
  BY QueueOfChanges
<1> HIDE DEF k, n, t, r, m
<1>6. /\ \A i \in 0..k : Q[i] = P[i]
      /\ \A i \in k..m : Q[i] = c + (i - k)
      /\ \A i \in k..m : c + (i - k) \in 0..n
  <2>1. \A i \in k..m : c + (i - k) \in 0..n /\ i \in 0..m
    BY <1>1
  <2>2. \A i \in 0..m : Q[i] = IF i <= k THEN P[i] ELSE c + (i - k)
    BY DEF Onward, m
  <2> HIDE DEF Q
  <2>3. \A i \in 0..k : i \in 0..m /\ i <= k
    BY <1>1
  <2>4. ASSUME NEW i \in k..m PROVE Q[i] = c + (i - k)
    <3>1. CASE i <= k
      <4>1. i = k /\ c + (i - k) = c /\ i \in 0..m
        BY <3>1, <1>1
      <4> QED BY <4>1, <1>4, <2>2
    <3>2. CASE ~(i <= k)
      BY <3>2, <2>1, <2>2
    <3> QED BY <3>1, <3>2
  <2> QED BY <2>1, <2>2, <2>3, <2>4
<1>10. Q = [i \in 0..m |-> Q[i]]
  BY DEF Onward, m
<1>7. Q \in [0..m -> 0..n]
  <2>1. \A i \in 0..m : Q[i] \in 0..n
    <3> TAKE i \in 0..m
    <3>1. CASE i \in 0..k
      BY <3>1, <1>4, <1>6
    <3>2. CASE i \in k..m
      BY <3>2, <1>6
    <3> QED BY <3>1, <3>2, <1>1
  <2> HIDE DEF Q
  <2> QED BY <2>1, <1>10
<1> HIDE DEF Q
<1>8. ASSUME NEW i \in 1..m
      PROVE  IF IsChange(t[i]) THEN Q[i] = Q[i - 1] + 1 /\ t[i] = q[Q[i]] ELSE Q[i] = Q[i - 1]
  <2>1. CASE i \in 1..k
    <3>1. i \in 0..k /\ i - 1 \in 0..k
      BY <2>1, <1>1
    <3> QED BY <2>1, <3>1, <1>3, <1>4, <1>6
  <2>2. CASE i \in (k + 1)..m
    <3>1. i \in k..m /\ i - 1 \in k..m /\ c + (i - k) \in 1..n
          /\ c + (i - k) = c + (i - 1 - k) + 1
      BY <2>2, <1>1 DEF m
    <3>2. Q[i] = c + (i - k) /\ Q[i - 1] = c + (i - 1 - k) /\ t[i] = q[c + (i - k)]
      BY <2>2, <3>1, <1>3, <1>6
    <3> QED BY <3>1, <3>2, <1>5
  <2> QED BY <2>1, <2>2, <1>1
<1>9. ASSUME NEW i \in 0..m, NEW j \in 0..m, i <= j PROVE Q[i] <= Q[j]
  <2>1. CASE j \in 0..k
    <3>1. i \in 0..k
      BY <2>1, <1>9, <1>1
    <3> QED BY <2>1, <3>1, <1>4, <1>6, <1>9
  <2>2. CASE j \in k..m /\ i \in 0..k
    <3>1. k \in 0..k /\ i <= k /\ j - k >= 0
      BY <2>2, <1>1
    <3>2. P[i] <= P[k] /\ P[i] \in 0..n
      BY <2>2, <3>1, <1>4
    <3>3. Q[i] = P[i] /\ Q[j] = c + (j - k)
      BY <2>2, <1>6
    <3> QED BY <2>2, <3>1, <3>2, <3>3, <1>1, <1>4
  <2>3. CASE j \in k..m /\ i \in k..m
    <3>1. Q[i] = c + (i - k) /\ Q[j] = c + (j - k)
      BY <2>3, <1>6
    <3> QED BY <2>3, <3>1, <1>1, <1>9
  <2> QED BY <2>1, <2>2, <2>3, <1>1
<1> QED BY <1>3, <1>7, <1>8, <1>9 DEF Reads, Q, k, n, t, r, m

\* One event is received.
LEMMA ReadsTail ==
    ASSUME NEW U, NEW s \in Seq(U), s # <<>>, NEW q \in Seq(Changes), NEW P, Reads(s, q, P)
    PROVE  Reads(Tail(s), q, [i \in 0..(Len(s) - 1) |-> P[i + 1]])
<1> DEFINE k == Len(s)
           n == Len(q)
           t == Tail(s)
           Q == [i \in 0..(k - 1) |-> P[i + 1]]
<1>1. k \in Nat \ {0} /\ n \in Nat /\ Len(t) = k - 1 /\ \A i \in 1..(k - 1) : t[i] = s[i + 1]
  OBVIOUS
<1>2. /\ P \in [0..k -> 0..n]
      /\ \A i \in 1..k : IF IsChange(s[i]) THEN P[i] = P[i - 1] + 1 /\ s[i] = q[P[i]]
                         ELSE P[i] = P[i - 1]
      /\ \A i, j \in 0..k : i <= j => P[i] <= P[j]
  BY DEF Reads
<1> HIDE DEF k, n, t
<1>3. Q \in [0..(k - 1) -> 0..n] /\ \A i \in 0..(k - 1) : Q[i] = P[i + 1]
  BY <1>1, <1>2
<1> HIDE DEF Q
<1>4. ASSUME NEW i \in 1..(k - 1)
      PROVE  IF IsChange(t[i]) THEN Q[i] = Q[i - 1] + 1 /\ t[i] = q[Q[i]] ELSE Q[i] = Q[i - 1]
  <2>1. i + 1 \in 1..k /\ i \in 0..(k - 1) /\ i - 1 \in 0..(k - 1) /\ i + 1 - 1 = i /\ i - 1 + 1 = i
    BY <1>1
  <2>2. Q[i] = P[i + 1] /\ Q[i - 1] = P[i] /\ t[i] = s[i + 1]
    BY <1>1, <1>3, <2>1
  <2>3. IF IsChange(s[i + 1]) THEN P[i + 1] = P[i] + 1 /\ s[i + 1] = q[P[i + 1]]
                              ELSE P[i + 1] = P[i]
    BY <1>2, <2>1
  <2> QED BY <2>2, <2>3
<1>5. ASSUME NEW i \in 0..(k - 1), NEW j \in 0..(k - 1), i <= j PROVE Q[i] <= Q[j]
  <2>1. i + 1 \in 0..k /\ j + 1 \in 0..k /\ i + 1 <= j + 1
    BY <1>1, <1>5
  <2> QED BY <2>1, <1>2, <1>3
<1> QED BY <1>1, <1>3, <1>4, <1>5 DEF Reads, Q, k, n, t

\* The last events are lost.
LEMMA ReadsPrefix ==
    ASSUME NEW U, NEW s \in Seq(U), NEW q \in Seq(Changes), NEW P, Reads(s, q, P),
           NEW m \in 0..Len(s)
    PROVE  /\ Reads(SubSeq(s, 1, m), q, [i \in 0..m |-> P[i]])
           /\ Len(SubSeq(s, 1, m)) = m
           /\ \A i \in 1..m : SubSeq(s, 1, m)[i] = s[i]
<1> DEFINE k == Len(s)
           n == Len(q)
           t == SubSeq(s, 1, m)
           Q == [i \in 0..m |-> P[i]]
<1>1. k \in Nat /\ n \in Nat /\ m \in 0..k /\ m \in Nat
  OBVIOUS
<1>2. Len(t) = m /\ \A i \in 1..m : t[i] = s[i]
  OBVIOUS
<1>3. /\ P \in [0..k -> 0..n]
      /\ \A i \in 1..k : IF IsChange(s[i]) THEN P[i] = P[i - 1] + 1 /\ s[i] = q[P[i]]
                         ELSE P[i] = P[i - 1]
      /\ \A i, j \in 0..k : i <= j => P[i] <= P[j]
  BY DEF Reads
<1> HIDE DEF k, n, t
<1>4. Q \in [0..m -> 0..n] /\ \A i \in 0..m : Q[i] = P[i]
  BY <1>1, <1>3
<1> HIDE DEF Q
<1>5. \A i \in 1..m : i \in 1..k /\ i \in 0..m /\ i - 1 \in 0..m
  BY <1>1
<1>6. \A i \in 1..m : IF IsChange(t[i]) THEN Q[i] = Q[i - 1] + 1 /\ t[i] = q[Q[i]] ELSE Q[i] = Q[i - 1]
  BY <1>2, <1>3, <1>4, <1>5
<1>7. \A i, j \in 0..m : i <= j => Q[i] <= Q[j]
  BY <1>1, <1>3, <1>4
<1> QED BY <1>2, <1>4, <1>6, <1>7 DEF Reads, Q, k, n, t

\* The queue grows.
LEMMA ReadsGrow ==
    ASSUME NEW s, Len(s) \in Nat, NEW q \in Seq(Changes), NEW P, Reads(s, q, P), NEW c \in Changes
    PROVE  Reads(s, Append(q, c), P)
<1> DEFINE k == Len(s)
           n == Len(q)
           w == Append(q, c)
<1>1. k \in Nat /\ n \in Nat /\ Len(w) = n + 1 /\ \A i \in 1..n : w[i] = q[i]
  OBVIOUS
<1>2. /\ P \in [0..k -> 0..n]
      /\ \A i \in 1..k : IF IsChange(s[i]) THEN P[i] = P[i - 1] + 1 /\ s[i] = q[P[i]]
                         ELSE P[i] = P[i - 1]
      /\ \A i, j \in 0..k : i <= j => P[i] <= P[j]
  BY DEF Reads
<1> HIDE DEF k, n, w
<1>3. P \in [0..k -> 0..(n + 1)]
  BY <1>1, <1>2
<1>4. ASSUME NEW i \in 1..k
      PROVE  IF IsChange(s[i]) THEN P[i] = P[i - 1] + 1 /\ s[i] = w[P[i]] ELSE P[i] = P[i - 1]
  <2>1. i \in 0..k /\ i - 1 \in 0..k
    BY <1>1
  <2>2. P[i] \in 0..n /\ P[i - 1] \in 0..n
    BY <2>1, <1>2
  <2>3. CASE IsChange(s[i])
    <3>1. P[i] = P[i - 1] + 1 /\ s[i] = q[P[i]]
      BY <2>3, <1>2
    <3>2. P[i] \in 1..n
      BY <3>1, <2>2, <1>1
    <3> QED BY <2>3, <3>1, <3>2, <1>1
  <2>4. CASE ~IsChange(s[i])
    BY <2>4, <1>2
  <2> QED BY <2>3, <2>4
<1> QED BY <1>1, <1>2, <1>3, <1>4 DEF Reads, k, n, w

\* Nothing to read.
LEMMA ReadsNone ==
    ASSUME NEW s, Len(s) \in Nat, \A i \in 1..Len(s) : ~IsChange(s[i])
    PROVE  Reads(s, <<>>, [i \in 0..Len(s) |-> 0])
<1> DEFINE k == Len(s)
           Q == [i \in 0..k |-> 0]
<1>1. Len(<<>>) = 0 /\ k \in Nat
  OBVIOUS
<1> HIDE DEF k
<1>2. Q \in [0..k -> 0..0] /\ \A i \in 0..k : Q[i] = 0
  OBVIOUS
<1>3. \A i \in 1..k : i \in 0..k /\ i - 1 \in 0..k
  BY <1>1
<1> HIDE DEF Q
<1> QED BY <1>1, <1>2, <1>3 DEF Reads, Q, k

-----------------------------------------------------------------------------
\* One more change is queued.
LEMMA RunsGrow ==
    ASSUME NEW q \in Seq(Changes), NEW D, Runs(q, D), NEW c \in Changes,
           Applies(D[Len(q)], c.edit)
    PROVE  \E E : /\ Runs(Append(q, c), E)
                  /\ \A i \in 0..Len(q) : E[i] = D[i]
                  /\ E[Len(q) + 1] = ApplyEdit(D[Len(q)], c.edit)
<1> DEFINE n == Len(q)
           w == Append(q, c)
           E == [i \in 0..(n + 1) |-> IF i <= n THEN D[i] ELSE ApplyEdit(D[n], c.edit)]
<1>1. /\ n \in Nat /\ Len(w) = n + 1 /\ \A i \in 1..n : w[i] = q[i]
      /\ w[n + 1] = c
  OBVIOUS
<1>2. \A i \in 1..n : Applies(D[i - 1], q[i].edit) /\ D[i] = ApplyEdit(D[i - 1], q[i].edit)
  BY DEF Runs
<1> HIDE DEF n, w
<1>3. (\A i \in 0..n : E[i] = D[i]) /\ E[n + 1] = ApplyEdit(D[n], c.edit)
  BY <1>1
<1> HIDE DEF E
<1>4. ASSUME NEW i \in 1..(n + 1)
      PROVE  Applies(E[i - 1], w[i].edit) /\ E[i] = ApplyEdit(E[i - 1], w[i].edit)
  <2>1. CASE i = n + 1
    <3>1. i - 1 = n /\ n \in 0..n
      BY <2>1, <1>1
    <3> QED BY <2>1, <3>1, <1>1, <1>3 DEF n
  <2>2. CASE i # n + 1
    <3>1. i \in 1..n /\ i \in 0..n /\ i - 1 \in 0..n
      BY <2>2, <1>1
    <3> QED BY <3>1, <1>1, <1>2, <1>3
  <2> QED BY <2>1, <2>2
<1>5. Runs(w, E)
  BY <1>1, <1>4 DEF Runs
<1> QED BY <1>3, <1>5 DEF n, w

-----------------------------------------------------------------------------
(***************************************************************************)
(* Replay and NotShown are recursive functions: first unfolded, then       *)
(* evaluated along a reading by induction on the number of events.         *)
(***************************************************************************)
ReplayStep(doc, e) == IF IsChange(e) THEN ApplyEdit(doc, e.edit) ELSE doc

\* The recursive function of Replay has its defining equations.
LEMMA ReplayUnfold ==
  ASSUME NEW doc, NEW s, Len(s) \in Nat
  PROVE  \E f : /\ f[0] = doc
                /\ \A i \in 1..Len(s) : f[i] = ReplayStep(f[i - 1], s[i])
                /\ Replay(doc, s) = f[Len(s)]
<1> DEFINE n == Len(s)
           Eq(f, m) == f = [i \in 0..m |-> IF i = 0 THEN doc ELSE ReplayStep(f[i - 1], s[i])]
           S == {m \in Nat : \E f : Eq(f, m)}
<1>1. 0 \in S
  <2>1. Eq([i \in 0..0 |-> doc], 0)
    OBVIOUS
  <2> HIDE DEF Eq
  <2> QED BY <2>1
<1>2. ASSUME NEW m \in Nat, m \in S PROVE m + 1 \in S
  <2>1. PICK f : Eq(f, m)
    BY <1>2
  <2> DEFINE g == [i \in 0..(m + 1) |-> IF i = m + 1 THEN ReplayStep(f[m], s[m + 1]) ELSE f[i]]
             w == [i \in 0..(m + 1) |-> IF i = 0 THEN doc ELSE ReplayStep(g[i - 1], s[i])]
  <2>2. \A i \in 0..(m + 1) : g[i] = w[i]
    <3> TAKE i \in 0..(m + 1)
    <3>1. CASE i = 0
      BY <2>1, <3>1
    <3>2. CASE i = m + 1
      <4>1. g[i] = ReplayStep(f[m], s[m + 1]) /\ i - 1 = m /\ i # 0 /\ m \in 0..(m + 1) /\ m # m + 1
        BY <3>2
      <4>2. g[m] = f[m]
        BY <4>1
      <4> QED BY <3>2, <4>1, <4>2
    <3>3. CASE i \in 1..m
      <4>1. i \in 0..m /\ i # 0 /\ i # m + 1 /\ i - 1 \in 0..m /\ i - 1 # m + 1 /\ i - 1 \in 0..(m + 1)
        BY <3>3
      <4>2. g[i] = f[i] /\ g[i - 1] = f[i - 1]
        BY <4>1
      <4>3. f[i] = ReplayStep(f[i - 1], s[i])
        BY <2>1, <4>1
      <4> QED BY <4>1, <4>2, <4>3
    <3> QED BY <3>1, <3>2, <3>3
  <2>3. g = w
    BY <2>2
  <2> HIDE DEF g
  <2>4. Eq(g, m + 1)
    BY <2>3
  <2> HIDE DEF Eq
  <2> QED BY <2>4
<1> HIDE DEF S
<1>3. n \in S
  BY <1>1, <1>2, InductionSet
<1>4. PICK f : Eq(f, n)
  BY <1>3 DEF S
<1> DEFINE a == CHOOSE x : Eq(x, n)
<1>5. Eq(a, n)
  <2> HIDE DEF Eq
  <2> QED BY <1>4
<1>6. Replay(doc, s) = a[n]
  BY DEF Replay, ReplayStep
<1> HIDE DEF a
<1>7. /\ a[0] = doc
      /\ \A i \in 1..n : a[i] = ReplayStep(a[i - 1], s[i])
  <2>1. \A i \in 0..n : a[i] = IF i = 0 THEN doc ELSE ReplayStep(a[i - 1], s[i])
    BY <1>5
  <2>2. 0 \in 0..n /\ \A i \in 1..n : i \in 0..n /\ i # 0
    OBVIOUS
  <2> HIDE DEF n
  <2> QED BY <2>1, <2>2
<1> QED BY <1>6, <1>7

\* Reading the queue replays it.
LEMMA ReplayReads ==
  ASSUME NEW s, Len(s) \in Nat, NEW q \in Seq(Changes), NEW P, Reads(s, q, P), NEW D, Runs(q, D)
  PROVE  Replay(D[P[0]], s) = D[P[Len(s)]]
<1> DEFINE n == Len(s)
<1>1. PICK f : /\ f[0] = D[P[0]]
               /\ \A i \in 1..n : f[i] = ReplayStep(f[i - 1], s[i])
               /\ Replay(D[P[0]], s) = f[n]
  BY ReplayUnfold
<1>2. /\ P \in [0..n -> 0..Len(q)] /\ Len(q) \in Nat /\ n \in Nat
      /\ \A i \in 1..n : IF IsChange(s[i]) THEN P[i] = P[i - 1] + 1 /\ s[i] = q[P[i]]
                         ELSE P[i] = P[i - 1]
  BY DEF Reads
<1> HIDE DEF n
<1> DEFINE S == {i \in Nat : i <= n => f[i] = D[P[i]]}
<1>3. 0 \in S
  BY <1>1
<1>4. ASSUME NEW i \in Nat, i \in S PROVE i + 1 \in S
  <2> SUFFICES ASSUME i + 1 <= n PROVE f[i + 1] = D[P[i + 1]]
    OBVIOUS
  <2>1. i + 1 \in 1..n /\ i + 1 - 1 = i /\ i \in 0..n /\ i + 1 \in 0..n /\ i <= n
    BY <1>2
  <2>2. f[i] = D[P[i]] /\ f[i + 1] = ReplayStep(f[i], s[i + 1])
    BY <1>1, <1>4, <2>1
  <2>3. IF IsChange(s[i + 1]) THEN P[i + 1] = P[i] + 1 /\ s[i + 1] = q[P[i + 1]]
        ELSE P[i + 1] = P[i]
    BY <1>2, <2>1
  <2>4. P[i] \in 0..Len(q) /\ P[i + 1] \in 0..Len(q)
    BY <1>2, <2>1
  <2>5. CASE IsChange(s[i + 1])
    <3>1. P[i + 1] \in 1..Len(q) /\ P[i + 1] - 1 = P[i]
      <4>1. P[i + 1] = P[i] + 1
        BY <2>3, <2>5
      <4> DEFINE a == P[i]
                 b == P[i + 1]
                 m == Len(q)
      <4>2. a \in 0..m /\ b \in 0..m /\ b = a + 1 /\ m \in Nat
        BY <2>4, <4>1, <1>2
      <4> HIDE DEF a, b, m
      <4>3. b \in 1..m /\ b - 1 = a
        BY <4>2
      <4> QED BY <4>3 DEF a, b, m
    <3>2. D[P[i + 1]] = ApplyEdit(D[P[i]], q[P[i + 1]].edit)
      BY <3>1 DEF Runs
    <3> QED BY <2>2, <2>3, <2>5, <3>2 DEF ReplayStep
  <2>6. CASE ~IsChange(s[i + 1])
    BY <2>2, <2>3, <2>6 DEF ReplayStep
  <2> QED BY <2>5, <2>6
<1> HIDE DEF S
<1>5. n \in S
  BY <1>2, <1>3, <1>4, InductionSet
<1> QED BY <1>1, <1>2, <1>5 DEF S, n

\* A function on 1..k is a sequence of length k.
LEMMA SeqOfFunction ==
  ASSUME NEW U, NEW k \in Nat, NEW f \in [1..k -> U]
  PROVE  f \in Seq(U) /\ Len(f) = k
<1>1. f \in Seq(U)
  BY IsASeq
<1>2. DOMAIN f = 1..k
  OBVIOUS
<1> QED BY <1>1, <1>2, LenProperties

ShownStep(edits_, c, applied) == IF c.op \in applied THEN edits_ ELSE Append(edits_, c.edit)

\* The recursive function of NotShown has its defining equations.
LEMMA NotShownUnfold ==
  ASSUME NEW q, NEW applied, Len(q) \in Nat
  PROVE  \E f : /\ f[0] = <<>>
                /\ \A i \in 1..Len(q) : f[i] = ShownStep(f[i - 1], q[i], applied)
                /\ NotShown(q, applied) = f[Len(q)]
<1> DEFINE n == Len(q)
           Eq(f, m) == f = [i \in 0..m |-> IF i = 0 THEN <<>> ELSE ShownStep(f[i - 1], q[i], applied)]
           S == {m \in Nat : \E f : Eq(f, m)}
<1>1. 0 \in S
  <2>1. Eq([i \in 0..0 |-> <<>>], 0)
    OBVIOUS
  <2> HIDE DEF Eq
  <2> QED BY <2>1
<1>2. ASSUME NEW m \in Nat, m \in S PROVE m + 1 \in S
  <2>1. PICK f : Eq(f, m)
    BY <1>2
  <2> DEFINE g == [i \in 0..(m + 1) |-> IF i = m + 1 THEN ShownStep(f[m], q[m + 1], applied) ELSE f[i]]
             w == [i \in 0..(m + 1) |-> IF i = 0 THEN <<>> ELSE ShownStep(g[i - 1], q[i], applied)]
  <2>2. \A i \in 0..(m + 1) : g[i] = w[i]
    <3> TAKE i \in 0..(m + 1)
    <3>1. CASE i = 0
      BY <2>1, <3>1
    <3>2. CASE i = m + 1
      <4>1. g[i] = ShownStep(f[m], q[m + 1], applied) /\ i - 1 = m /\ i # 0 /\ m \in 0..(m + 1) /\ m # m + 1
        BY <3>2
      <4>2. g[m] = f[m]
        BY <4>1
      <4> QED BY <3>2, <4>1, <4>2
    <3>3. CASE i \in 1..m
      <4>1. i \in 0..m /\ i # 0 /\ i # m + 1 /\ i - 1 \in 0..m /\ i - 1 # m + 1 /\ i - 1 \in 0..(m + 1)
        BY <3>3
      <4>2. g[i] = f[i] /\ g[i - 1] = f[i - 1]
        BY <4>1
      <4>3. f[i] = ShownStep(f[i - 1], q[i], applied)
        BY <2>1, <4>1
      <4> QED BY <4>1, <4>2, <4>3
    <3> QED BY <3>1, <3>2, <3>3
  <2>3. g = w
    BY <2>2
  <2> HIDE DEF g
  <2>4. Eq(g, m + 1)
    BY <2>3
  <2> HIDE DEF Eq
  <2> QED BY <2>4
<1> HIDE DEF S
<1>3. n \in S
  BY <1>1, <1>2, InductionSet
<1>4. PICK f : Eq(f, n)
  BY <1>3 DEF S
<1> DEFINE a == CHOOSE x : Eq(x, n)
<1>5. Eq(a, n)
  <2> HIDE DEF Eq
  <2> QED BY <1>4
<1>6. NotShown(q, applied) = a[n]
  BY DEF NotShown, ShownStep
<1> HIDE DEF a
<1>7. /\ a[0] = <<>>
      /\ \A i \in 1..n : a[i] = ShownStep(a[i - 1], q[i], applied)
  <2>1. \A i \in 0..n : a[i] = IF i = 0 THEN <<>> ELSE ShownStep(a[i - 1], q[i], applied)
    BY <1>5
  <2>2. 0 \in 0..n /\ \A i \in 1..n : i \in 0..n /\ i # 0
    OBVIOUS
  <2> HIDE DEF n
  <2> QED BY <2>1, <2>2
<1> QED BY <1>6, <1>7

\* When a prefix of the queue has been applied, what is not shown is the rest.
Rest(q, p) == [i \in 1..(Len(q) - p) |-> q[p + i].edit]

LEMMA NotShownIs ==
  ASSUME NEW q \in Seq(Changes), NEW applied, NEW p \in 0..Len(q),
         \A i \in 1..Len(q) : q[i].op \in applied <=> i <= p
  PROVE  NotShown(q, applied) = Rest(q, p) /\ Rest(q, p) \in Seq(Edits)
<1> DEFINE n == Len(q)
           R(i) == [j \in 1..(i - p) |-> q[p + j].edit]
<1>1. PICK f : /\ f[0] = <<>>
               /\ \A i \in 1..n : f[i] = ShownStep(f[i - 1], q[i], applied)
               /\ NotShown(q, applied) = f[n]
  BY NotShownUnfold
<1>2. n \in Nat /\ p \in 0..n /\ \A i \in 1..n : q[i].edit \in Edits
  BY QueueOfChanges
<1>3. \A i \in 1..n : q[i].op \in applied <=> i <= p
  OBVIOUS
<1> HIDE DEF n
<1>4. ASSUME NEW i \in 0..n, i >= p PROVE R(i) \in Seq(Edits) /\ Len(R(i)) = i - p
  <2>1. i - p \in Nat /\ \A j \in 1..(i - p) : p + j \in 1..n
    BY <1>2, <1>4
  <2>2. R(i) \in [1..(i - p) -> Edits]
    BY <1>2, <2>1
  <2> HIDE DEF R
  <2> QED BY <2>1, <2>2, SeqOfFunction
<1> DEFINE S == {i \in Nat : i <= n => f[i] = IF i <= p THEN <<>> ELSE R(i)}
<1>5. 0 \in S
  BY <1>1, <1>2
<1>6. ASSUME NEW i \in Nat, i \in S PROVE i + 1 \in S
  <2> SUFFICES ASSUME i + 1 <= n PROVE f[i + 1] = IF i + 1 <= p THEN <<>> ELSE R(i + 1)
    OBVIOUS
  <2>1. i + 1 \in 1..n /\ i + 1 - 1 = i /\ i \in 0..n /\ i + 1 \in 0..n /\ i <= n
    BY <1>2
  <2>2. f[i] = (IF i <= p THEN <<>> ELSE R(i)) /\ f[i + 1] = ShownStep(f[i], q[i + 1], applied)
    <3> HIDE DEF R
    <3> QED BY <1>1, <1>6, <2>1
  <2>3. CASE i + 1 <= p
    <3>1. q[i + 1].op \in applied /\ i <= p
      BY <2>1, <2>3, <1>2, <1>3
    <3> QED BY <2>2, <2>3, <3>1 DEF ShownStep
  <2>4. CASE ~(i + 1 <= p)
    <3>1. q[i + 1].op \notin applied /\ i >= p
      BY <2>1, <2>4, <1>2, <1>3
    <3>2. f[i] = R(i)
      <4>1. CASE i <= p
        <5>1. i = p /\ i - p = 0
          BY <3>1, <4>1, <1>2, <2>1
        <5>2. R(i) \in Seq(Edits) /\ Len(R(i)) = 0
          BY <5>1, <3>1, <1>4, <2>1
        <5>3. R(i) = <<>>
          <6> HIDE DEF R
          <6> QED BY <5>2, EmptySeq
        <5> QED BY <2>2, <4>1, <5>3
      <4>2. CASE ~(i <= p)
        BY <2>2, <4>2
      <4> QED BY <4>1, <4>2
    <3>3. f[i + 1] = Append(R(i), q[i + 1].edit)
      BY <2>2, <3>1, <3>2 DEF ShownStep
    <3>4. Append(R(i), q[i + 1].edit) = R(i + 1)
      <4>1. R(i) \in Seq(Edits) /\ Len(R(i)) = i - p /\ i - p \in Nat
        BY <1>2, <1>4, <2>1, <3>1
      <4>2. R(i + 1) \in Seq(Edits) /\ Len(R(i + 1)) = i + 1 - p /\ i + 1 - p = (i - p) + 1
        BY <1>2, <1>4, <2>1, <3>1
      <4>3. \A j \in 1..(i - p) : R(i)[j] = R(i + 1)[j]
        BY <4>1, <4>2
      <4>4. R(i + 1)[(i - p) + 1] = q[i + 1].edit
        <5>1. (i - p) + 1 \in 1..(i + 1 - p) /\ p + ((i - p) + 1) = i + 1
          BY <4>1, <1>2, <2>1
        <5> QED BY <5>1
      <4>5. q[i + 1].edit \in Edits
        BY <1>2, <2>1
      <4> DEFINE x == q[i + 1].edit
                 a == R(i)
                 b == R(i + 1)
                 k == i - p
      <4>6. a \in Seq(Edits) /\ Len(a) = k /\ b \in Seq(Edits) /\ Len(b) = k + 1 /\ k \in Nat
            /\ (\A j \in 1..k : a[j] = b[j]) /\ b[k + 1] = x /\ x \in Edits
        BY <4>1, <4>2, <4>3, <4>4, <4>5
      <4> HIDE DEF a, b, k, x
      <4>7. Append(a, x) \in Seq(Edits) /\ Len(Append(a, x)) = k + 1
            /\ \A j \in 1..(k + 1) : Append(a, x)[j] = b[j]
        BY <4>6
      <4>8. Append(a, x) = b
        BY <4>6, <4>7, SeqEqual
      <4> QED BY <4>8 DEF a, b, x
    <3> QED BY <2>4, <3>3, <3>4
  <2> HIDE DEF R
  <2> QED BY <2>3, <2>4
<1> HIDE DEF S
<1>7. n \in S
  BY <1>2, <1>5, <1>6, InductionSet
<1>8. f[n] = IF n <= p THEN <<>> ELSE R(n)
  BY <1>2, <1>7 DEF S
<1>9. R(n) \in Seq(Edits) /\ (n <= p => R(n) = <<>>)
  <2>1. R(n) \in Seq(Edits) /\ Len(R(n)) = n - p
    BY <1>2, <1>4
  <2> HIDE DEF R
  <2>2. n <= p => Len(R(n)) = 0
    BY <1>2, <2>1
  <2> QED BY <2>1, <2>2, EmptySeq
<1>10. NotShown(q, applied) = R(n)
  <2> HIDE DEF R
  <2> QED BY <1>1, <1>8, <1>9
<1> QED BY <1>9, <1>10 DEF Rest, n

-----------------------------------------------------------------------------
(***************************************************************************)
(* What the tablet's handlers do to the fields the invariant is about.     *)
(***************************************************************************)
Same(d, e) ==
    /\ e.linked = d.linked /\ e.epochLive = d.epochLive /\ e.handshake = d.handshake
    /\ e.cache = d.cache /\ e.tree = d.tree /\ e.queue = d.queue /\ e.cursor = d.cursor
    /\ e.awaiting => d.awaiting

\* The flags of the pen and of a load held back.
LEMMA FlagEffect ==
    ASSUME NEW d \in DeviceState, NEW b, NEW doc
    PROVE  /\ Same(d, [d EXCEPT !.gesture = b]) /\ [d EXCEPT !.gesture = b].out = d.out
           /\ Same(d, [d EXCEPT !.preview = b]) /\ [d EXCEPT !.preview = b].out = d.out
           /\ Same(d, [d EXCEPT !.hasDeferred = b, !.deferred = doc])
           /\ [d EXCEPT !.hasDeferred = b, !.deferred = doc].out = d.out
           /\ Same(d, [d EXCEPT !.out = <<>>])
           /\ [d EXCEPT !.preview = b].hasDeferred = d.hasDeferred
BY DEF DeviceState, Same

\* A hello is said, without a document.
LEMMA HelloEffect ==
    ASSUME NEW d \in DeviceState, d.cache = {}, d.queue = <<>> => d.tree = {}
    PROVE  /\ Same(d, EmitHello(d))
           /\ EmitHello(d).out = Append(d.out, HelloWith(d, {}))
<1>1. ASSUME NEW msg PROVE Same(d, Emit(d, msg)) /\ Emit(d, msg).out = Append(d.out, msg)
                           /\ Emit(d, msg) = [d EXCEPT !.out = Append(d.out, msg)]
  BY DEF DeviceState, Same, Emit
<1>2. CASE d.queue # <<>>
  BY <1>1, <1>2 DEF EmitHello
<1>3. CASE d.queue = <<>> /\ d.hasCache
  BY <1>1, <1>3 DEF EmitHello
<1>4. CASE d.queue = <<>> /\ ~d.hasCache
  <2> DEFINE e == [d EXCEPT !.out = Append(d.out, HelloWith(d, d.tree))]
  <2>1. EmitHello(d) = [e EXCEPT !.hasCache = TRUE, !.cache = d.tree]
    BY <1>1, <1>4 DEF EmitHello
  <2>2. /\ Same(d, [e EXCEPT !.hasCache = TRUE, !.cache = d.tree])
        /\ [e EXCEPT !.hasCache = TRUE, !.cache = d.tree].out = Append(d.out, HelloWith(d, d.tree))
    BY <1>4 DEF DeviceState, Same
  <2> QED BY <1>4, <2>1, <2>2
<1> QED BY <1>2, <1>3, <1>4

\* Everything is sent, with queue_empty if there was anything.
LEMMA DrainEffect ==
    ASSUME NEW d \in DeviceState, d.cursor <= Len(d.queue)
    PROVE  /\ DrainQueueThenMarkLegal(d).linked = d.linked
           /\ DrainQueueThenMarkLegal(d).epochLive = d.epochLive
           /\ DrainQueueThenMarkLegal(d).handshake = d.handshake
           /\ DrainQueueThenMarkLegal(d).cache = d.cache
           /\ DrainQueueThenMarkLegal(d).tree = d.tree
           /\ DrainQueueThenMarkLegal(d).queue = d.queue
           /\ DrainQueueThenMarkLegal(d).hasDeferred = d.hasDeferred
           /\ DrainQueueThenMarkLegal(d).awaiting = FALSE
           /\ DrainQueueThenMarkLegal(d).cursor = Len(d.queue)
           /\ d.cursor = Len(d.queue) => DrainQueueThenMarkLegal(d).out = d.out
           /\ d.cursor # Len(d.queue) =>
                DrainQueueThenMarkLegal(d).out =
                   Append(d.out \o SubSeq(d.queue, d.cursor + 1, Len(d.queue)), QueueEmptyMsg)
<1> DEFINE n == Len(d.queue)
           sent == d.out \o SubSeq(d.queue, d.cursor + 1, n)
<1>1. d.cursor \in Nat /\ n \in Nat /\ d.cursor <= n
  BY DEF DeviceState
<1>2. CASE d.cursor = n
  <2>1. PublishFromCursor(d) = d
    BY <1>1, <1>2 DEF PublishFromCursor
  <2>2. DrainQueueThenMarkLegal(d) = [d EXCEPT !.awaiting = FALSE, !.loadLegal = TRUE]
    <3>1. ~(d.cursor > d.cursor)
      BY <1>1
    <3> QED BY <2>1, <3>1 DEF DrainQueueThenMarkLegal
  <2> QED BY <1>2, <2>2 DEF DeviceState
<1>3. CASE d.cursor # n
  <2> DEFINE p == [d EXCEPT !.out = sent, !.cursor = n]
  <2>1. PublishFromCursor(d) = p /\ p.cursor > d.cursor /\ p.out = sent
    <3> HIDE DEF n
    <3>1. ~(d.cursor >= n) /\ n > d.cursor
      BY <1>1, <1>3
    <3>2. p.cursor = n /\ p.out = sent
      <4> HIDE DEF sent
      <4> QED BY DEF DeviceState
    <3>3. PublishFromCursor(d) = p
      BY <3>1 DEF PublishFromCursor, n
    <3> QED BY <3>1, <3>2, <3>3
  <2>2. DrainQueueThenMarkLegal(d) = [[p EXCEPT !.out = Append(sent, QueueEmptyMsg)]
                                         EXCEPT !.awaiting = FALSE, !.loadLegal = TRUE]
    <3> HIDE DEF p, sent
    <3> QED BY <2>1 DEF DrainQueueThenMarkLegal, Emit
  <2> HIDE DEF sent
  <2> QED BY <1>3, <2>2 DEF DeviceState, sent
<1> QED BY <1>2, <1>3

\* A load of the tablet's own document is accepted.
LEMMA AcceptEffect ==
    ASSUME NEW d \in DeviceState
    PROVE  /\ AcceptLoad(d, d.tree).linked = d.linked
           /\ AcceptLoad(d, d.tree).epochLive = TRUE
           /\ AcceptLoad(d, d.tree).handshake = FALSE
           /\ AcceptLoad(d, d.tree).awaiting = FALSE
           /\ AcceptLoad(d, d.tree).cache = {}
           /\ AcceptLoad(d, d.tree).tree = d.tree
           /\ AcceptLoad(d, d.tree).queue = <<>>
           /\ AcceptLoad(d, d.tree).cursor = 0
           /\ AcceptLoad(d, d.tree).out = Append(d.out, LoadAckMsg)
<1>1. ~KeepsLocal(d, d.tree)
  BY DEF KeepsLocal
<1> DEFINE e == OnAcceptedDocLoad(d, d.tree)
<1>2. AcceptLoad(d, d.tree) = Emit([ClearHelloCache(e)
                EXCEPT !.cursor = 0, !.epochLive = TRUE, !.handshake = FALSE,
                       !.loadLegal = FALSE, !.awaiting = FALSE],
             LoadAckMsg)
  BY <1>1 DEF AcceptLoad
<1> QED BY <1>2 DEF DeviceState, Emit, ClearHelloCache, OnAcceptedDocLoad

\* The commit is queued.
LEMMA CommitEffect ==
    ASSUME NEW d \in DeviceState, NEW op, NEW edit
    PROVE  /\ CommitEdit(d, op, edit).linked = d.linked
           /\ CommitEdit(d, op, edit).epochLive = d.epochLive
           /\ CommitEdit(d, op, edit).handshake = d.handshake
           /\ CommitEdit(d, op, edit).awaiting = d.awaiting
           /\ CommitEdit(d, op, edit).cache = d.cache
           /\ CommitEdit(d, op, edit).hasDeferred = d.hasDeferred
           /\ CommitEdit(d, op, edit).cursor = d.cursor
           /\ CommitEdit(d, op, edit).out = d.out
           /\ CommitEdit(d, op, edit).tree = ApplyEdit(d.tree, edit)
           /\ CommitEdit(d, op, edit).queue =
                Append(d.queue, [type |-> "doc_change", seq |-> d.lastSeq + 1,
                                 base |-> d.lastSeq, op |-> op, edit |-> edit])
<1> DEFINE grown == ApplyEdit(d.tree, edit)
           longer == Append(d.queue, [type |-> "doc_change", seq |-> d.lastSeq + 1,
                                 base |-> d.lastSeq, op |-> op, edit |-> edit])
<1>1. CommitEdit(d, op, edit) = [d EXCEPT !.lastSeq = d.lastSeq + 1, !.queue = longer,
                                          !.tree = grown, !.gesture = FALSE]
  <2> HIDE DEF longer
  <2> QED BY DEF CommitEdit, EnqueueChange, DeviceState, longer
<1> HIDE DEF longer, grown
<1> QED BY <1>1 DEF DeviceState, longer, grown

\* After a commit: at once to the desktop when the epoch is live, otherwise queued.
LEMMA LocalEffect ==
    ASSUME NEW d \in DeviceState, ~d.hasDeferred, d.cache = {}, d.cursor < Len(d.queue)
    PROVE  /\ OnLocalCommit(d).linked = d.linked
           /\ OnLocalCommit(d).epochLive = d.epochLive
           /\ OnLocalCommit(d).handshake = d.handshake
           /\ OnLocalCommit(d).awaiting = d.awaiting
           /\ OnLocalCommit(d).cache = {}
           /\ OnLocalCommit(d).tree = d.tree
           /\ OnLocalCommit(d).queue = d.queue
           /\ ~(d.linked /\ d.epochLive /\ ~d.handshake /\ ~d.awaiting) =>
                 OnLocalCommit(d).cursor = d.cursor /\ OnLocalCommit(d).out = d.out
           /\ d.linked /\ d.epochLive /\ ~d.handshake /\ ~d.awaiting =>
                 /\ OnLocalCommit(d).cursor = Len(d.queue)
                 /\ OnLocalCommit(d).out = d.out \o SubSeq(d.queue, d.cursor + 1, Len(d.queue))
<1> DEFINE e == [d EXCEPT !.hasCache = FALSE, !.cache = {}]
           live == d.linked /\ d.epochLive /\ ~d.handshake /\ ~d.awaiting
           n == Len(d.queue)
           sent == d.out \o SubSeq(d.queue, d.cursor + 1, n)
<1>1. /\ e.linked = d.linked /\ e.epochLive = d.epochLive /\ e.handshake = d.handshake
      /\ e.awaiting = d.awaiting /\ e.hasDeferred = d.hasDeferred /\ e.cursor = d.cursor
      /\ e.queue = d.queue /\ e.out = d.out /\ e.tree = d.tree /\ e.cache = {}
  BY DEF DeviceState
<1>2. MaybeAcceptDeferredLoad(ClearHelloCache(d)) = e
  <2>1. ClearHelloCache(d) = e
    BY DEF ClearHelloCache
  <2> HIDE DEF e
  <2> QED BY <1>1, <2>1 DEF MaybeAcceptDeferredLoad
<1>3. CASE ~live
  <2>1. OnLocalCommit(d) = e
    <3> HIDE DEF e
    <3> QED BY <1>1, <1>2, <1>3 DEF OnLocalCommit
  <2> HIDE DEF e
  <2> QED BY <1>1, <1>3, <2>1
<1>4. CASE live
  <2>1. OnLocalCommit(d) = PublishFromCursor(e)
    <3> HIDE DEF e
    <3> QED BY <1>1, <1>2, <1>4 DEF OnLocalCommit
  <2>2. PublishFromCursor(e) = [e EXCEPT !.out = sent, !.cursor = n]
    <3>1. ~(d.cursor >= n)
      BY DEF DeviceState
    <3> HIDE DEF e
    <3> QED BY <1>1, <3>1 DEF PublishFromCursor
  <2>3. OnLocalCommit(d) = [e EXCEPT !.out = sent, !.cursor = n]
    BY <2>1, <2>2
  <2> HIDE DEF sent, n
  <2> QED BY <1>4, <2>3 DEF DeviceState, sent, n
<1> QED BY <1>3, <1>4

\* A session begins and ends.
LEMMA LinkEffect ==
    ASSUME NEW d \in DeviceState, d.cache = {}, d.queue = <<>> => d.tree = {}, d.out = <<>>
    PROVE  /\ OnLinkUp(d).linked = TRUE /\ OnLinkUp(d).handshake = TRUE
           /\ OnLinkUp(d).epochLive = d.epochLive /\ OnLinkUp(d).cursor = 0
           /\ OnLinkUp(d).cache = {} /\ OnLinkUp(d).tree = d.tree /\ OnLinkUp(d).queue = d.queue
           /\ OnLinkUp(d).out = <<HelloWith(d, {})>>
           /\ OnLinkDown(d).linked = FALSE /\ OnLinkDown(d).handshake = FALSE
           /\ OnLinkDown(d).epochLive = d.epochLive /\ OnLinkDown(d).cursor = 0
           /\ OnLinkDown(d).cache = {} /\ OnLinkDown(d).tree = d.tree
           /\ OnLinkDown(d).queue = d.queue /\ OnLinkDown(d).out = <<>>
<1> DEFINE up == [d EXCEPT !.linked = TRUE, !.cursor = 0]
           e == EmitHello(up)
<1>1. up \in DeviceState
  <2>1. 0 \in Nat
    OBVIOUS
  <2> QED BY <2>1, Zenon DEF DeviceState
<1>2. /\ up.linked = TRUE /\ up.cursor = 0 /\ up.queue = d.queue /\ up.tree = d.tree
      /\ up.cache = {} /\ up.out = <<>> /\ up.epochLive = d.epochLive /\ up.lastSeq = d.lastSeq
  BY DEF DeviceState
<1> HIDE DEF up
<1>3. /\ Same(up, e) /\ e.out = Append(<<>>, HelloWith(up, {}))
  BY <1>1, <1>2, HelloEffect
<1>4. HelloWith(up, {}) = HelloWith(d, {}) /\ Append(<<>>, HelloWith(d, {})) = <<HelloWith(d, {})>>
  BY <1>2 DEF HelloWith
<1>5. OnLinkUp(d) = [e EXCEPT !.handshake = TRUE, !.loadLegal = d.queue = <<>>,
                              !.awaiting = d.queue # <<>>]
  BY DEF OnLinkUp, up
<1>6. e \in DeviceState
  <2>1. \A doc \in Doc : HelloWith(up, doc) \in DeviceMsg
    BY <1>1 DEF DeviceState, HelloWith, DeviceMsg, Hellos
  <2>2. {} \in Doc /\ up.cache \in Doc /\ up.tree \in Doc /\ up.out \in Seq(DeviceMsg)
    BY <1>1 DEF DeviceState, Doc
  <2>3. \A doc \in Doc : Append(up.out, HelloWith(up, doc)) \in Seq(DeviceMsg)
    BY <2>1, <2>2
  <2>4. \A doc \in Doc : Emit(up, HelloWith(up, doc)) \in DeviceState
    BY <1>1, <2>3, Zenon DEF Emit, DeviceState
  <2>5. \A x \in DeviceState : [x EXCEPT !.hasCache = TRUE, !.cache = up.tree] \in DeviceState
    BY <2>2, Zenon DEF DeviceState
  <2> QED BY <2>2, <2>4, <2>5 DEF EmitHello
<1> HIDE DEF e
<1>7. /\ OnLinkUp(d).linked = e.linked /\ OnLinkUp(d).handshake = TRUE
      /\ OnLinkUp(d).epochLive = e.epochLive /\ OnLinkUp(d).cursor = e.cursor
      /\ OnLinkUp(d).cache = e.cache /\ OnLinkUp(d).tree = e.tree
      /\ OnLinkUp(d).queue = e.queue /\ OnLinkUp(d).out = e.out
  BY <1>5, <1>6 DEF DeviceState
<1>8. /\ OnLinkDown(d).linked = FALSE /\ OnLinkDown(d).handshake = FALSE
      /\ OnLinkDown(d).epochLive = d.epochLive /\ OnLinkDown(d).cursor = 0
      /\ OnLinkDown(d).cache = {} /\ OnLinkDown(d).tree = d.tree
      /\ OnLinkDown(d).queue = d.queue /\ OnLinkDown(d).out = <<>>
  BY DEF OnLinkDown, DeviceState
<1> QED BY <1>2, <1>3, <1>4, <1>7, <1>8 DEF Same

-----------------------------------------------------------------------------
(***************************************************************************)
(* What the desktop's handlers do to the fields the invariant is about.    *)
(***************************************************************************)
SameCopy(m, r) == r.tree = m.tree /\ r.applied = m.applied /\ r.suspect = m.suspect

\* A notice of the main process.
LEMMA ClientEffect ==
    ASSUME NEW m \in MirrorState, NEW n \in Nat
    PROVE  /\ SameCopy(m, HandleRmClient(m, n))
           /\ HandleRmClient(m, n).last = m.last /\ HandleRmClient(m, n).out = m.out
           /\ HandleRmClient(m, n).connected <=> n > 0
BY DEF HandleRmClient, Connect, Disconnect, MirrorState, SameCopy

\* The epoch load is sent, or it is not the time.
LEMMA LoadEffect ==
    ASSUME NEW m \in MirrorState
    PROVE  /\ SameCopy(m, EmitDocLoad(m)) /\ EmitDocLoad(m).connected = m.connected
           /\ \/ EmitDocLoad(m).out = m.out /\ EmitDocLoad(m).last = m.last
              \/ EmitDocLoad(m).out = Append(m.out, DocLoadMsg(m.tree)) /\ EmitDocLoad(m).last = 0
BY DEF EmitDocLoad, Send, MirrorState, SameCopy

\* A message is appended to what is to be sent and nothing else changes.
LEMMA SendEffect ==
    ASSUME NEW m \in MirrorState, NEW msg
    PROVE  /\ SameCopy(m, Send(m, msg)) /\ Send(m, msg).connected = m.connected
           /\ Send(m, msg).last = m.last /\ Send(m, msg).out = Append(m.out, msg)
BY DEF Send, MirrorState, SameCopy

\* A hello that carries no document leaves the copy alone.
LEMMA HelloMirrored ==
    ASSUME NEW m \in MirrorState, NEW msg \in Hellos, msg.lastSeq = msg.queued, msg.doc = {}
    PROVE  /\ SameCopy(m, ReceiveHello(m, msg)) /\ ReceiveHello(m, msg).connected = m.connected
           /\ ReceiveHello(m, msg).last \in {m.last, 0}
           /\ \/ ReceiveHello(m, msg).out = m.out
              \/ ReceiveHello(m, msg).out = Append(m.out, DrainAckMsg)
              \/ ReceiveHello(m, msg).out = Append(m.out, DocLoadMsg(m.tree)) /\ msg.queued = 0
<1> DEFINE e == [m EXCEPT !.drainQueued = msg.queued]
           drained == [e EXCEPT !.last = 0, !.phase = "draining"]
           f == [e EXCEPT !.last = 0]
<1>1. msg.queued \in Nat /\ msg.lastSeq - msg.queued = 0
  BY DEF Hellos
<1>2. e \in MirrorState
  BY <1>1, Zenon DEF MirrorState
<1>3. SameCopy(m, e) /\ e.connected = m.connected /\ e.last = m.last /\ e.out = m.out
      /\ e.phase = m.phase
  BY DEF MirrorState, SameCopy
<1>4. f \in MirrorState
  <2>1. 0 \in Int
    OBVIOUS
  <2> HIDE DEF e
  <2> QED BY <1>2, <2>1, Zenon DEF MirrorState
<1>5. SameCopy(m, f) /\ f.connected = m.connected /\ f.last = 0 /\ f.out = m.out
  BY <1>2, <1>3 DEF MirrorState, SameCopy
<1>6. CASE ~m.connected
  BY <1>6 DEF ReceiveHello, SameCopy
<1>7. CASE m.connected /\ m.phase = "awaiting_load_ack" /\ msg.queued = 0
  <2>1. ReceiveHello(m, msg) = Send(e, DocLoadMsg(m.tree))
    BY <1>7 DEF ReceiveHello
  <2> DEFINE load == DocLoadMsg(m.tree)
  <2>2. /\ SameCopy(e, Send(e, load)) /\ Send(e, load).connected = e.connected
        /\ Send(e, load).last = e.last /\ Send(e, load).out = Append(e.out, load)
    BY <1>2, SendEffect
  <2> HIDE DEF e, load
  <2> QED BY <1>3, <1>7, <2>1, <2>2 DEF SameCopy, load
<1>8. CASE m.connected /\ ~(m.phase = "awaiting_load_ack" /\ msg.queued = 0) /\ m.phase = "live"
  <2>1. ReceiveHello(m, msg) = e
    BY <1>8 DEF ReceiveHello
  <2> HIDE DEF e
  <2> QED BY <1>3, <2>1
<1>9. CASE m.connected /\ m.phase # "live" /\ msg.queued > 0
  <2>1. ReceiveHello(m, msg) = Send(drained, DrainAckMsg)
    <3>1. msg.queued # 0
      BY <1>1, <1>9
    <3>2. [e EXCEPT !.last = msg.lastSeq - msg.queued, !.phase = "draining"] = drained
      BY <1>1
    <3> HIDE DEF drained
    <3> QED BY <1>9, <3>1, <3>2 DEF ReceiveHello
  <2> HIDE DEF e
  <2> QED BY <1>2, <1>3, <2>1 DEF Send, MirrorState, SameCopy
<1>10. CASE m.connected /\ ~(m.phase = "awaiting_load_ack" /\ msg.queued = 0)
            /\ m.phase # "live" /\ ~(msg.queued > 0)
  <2>1. msg.queued = 0 /\ msg.lastSeq = 0
    BY <1>1, <1>10
  <2>2. ReceiveHello(m, msg) = EmitDocLoad(f)
    BY <1>10, <2>1 DEF ReceiveHello
  <2>3. f.tree = m.tree
    BY <1>5 DEF SameCopy
  <2> HIDE DEF f
  <2> QED BY <1>4, <1>5, <2>1, <2>2, <2>3, LoadEffect DEF SameCopy
<1> QED BY <1>6, <1>7, <1>8, <1>9, <1>10

\* The queue is drained.
LEMMA QueueEmptyMirrored ==
    ASSUME NEW m \in MirrorState
    PROVE  /\ SameCopy(m, ReceiveQueueEmpty(m)) /\ ReceiveQueueEmpty(m).connected = m.connected
           /\ \/ ReceiveQueueEmpty(m).out = m.out /\ ReceiveQueueEmpty(m).last = m.last
              \/ /\ ReceiveQueueEmpty(m).out = Append(m.out, DocLoadMsg(m.tree))
                 /\ ReceiveQueueEmpty(m).last = 0
<1> DEFINE e == [m EXCEPT !.drainQueued = 0]
<1>1. e \in MirrorState
  <2>1. 0 \in Nat
    OBVIOUS
  <2> QED BY <2>1, Zenon DEF MirrorState
<1>2. SameCopy(m, e) /\ e.connected = m.connected /\ e.last = m.last /\ e.out = m.out /\ e.tree = m.tree
  BY DEF MirrorState, SameCopy
<1> HIDE DEF e
<1>3. ReceiveQueueEmpty(m) = m \/ ReceiveQueueEmpty(m) = EmitDocLoad(e)
  BY DEF ReceiveQueueEmpty, e
<1> QED BY <1>1, <1>2, <1>3, LoadEffect DEF SameCopy

\* The load is acknowledged.
LEMMA LoadAckMirrored ==
    ASSUME NEW m \in MirrorState
    PROVE  /\ SameCopy(m, ReceiveLoadAck(m)) /\ ReceiveLoadAck(m).connected = m.connected
           /\ ReceiveLoadAck(m).last = m.last /\ ReceiveLoadAck(m).out = m.out
BY DEF ReceiveLoadAck, MirrorState, SameCopy

\* The next change is applied.
LEMMA ChangeMirrored ==
    ASSUME NEW m \in MirrorState, NEW msg \in Changes, m.connected, ~m.suspect,
           msg.op \notin m.applied, msg.base = m.last, Applies(m.tree, msg.edit)
    PROVE  /\ ReceiveDocChange(m, msg).connected = m.connected
           /\ ReceiveDocChange(m, msg).suspect = m.suspect
           /\ ReceiveDocChange(m, msg).last = msg.seq
           /\ ReceiveDocChange(m, msg).tree = ApplyEdit(m.tree, msg.edit)
           /\ ReceiveDocChange(m, msg).applied = m.applied \cup {msg.op}
           /\ ReceiveDocChange(m, msg).out = m.out
<1> DEFINE e == AdoptBaseSeq(m, msg)
<1>1. /\ e.connected = m.connected /\ SameCopy(m, e) /\ e.last = m.last /\ e.out = m.out
  BY DEF AdoptBaseSeq, MirrorState, SameCopy
<1>2. e \in MirrorState
  <2>1. msg.base \in Int /\ "live" \in Phases
    BY DEF Changes, Phases
  <2> QED BY <2>1, Zenon DEF AdoptBaseSeq, MirrorState
<1> HIDE DEF e
<1> DEFINE grown == ApplyEdit(e.tree, msg.edit)
<1>3. ReceiveDocChange(m, msg) = [e EXCEPT !.last = msg.seq, !.tree = grown,
                                           !.applied = e.applied \cup {msg.op}]
  BY <1>1 DEF ReceiveDocChange, e, SameCopy
<1>4. grown = ApplyEdit(m.tree, msg.edit)
  BY <1>1 DEF SameCopy
<1> HIDE DEF grown
<1> QED BY <1>1, <1>2, <1>3, <1>4 DEF MirrorState, SameCopy

-----------------------------------------------------------------------------
(***************************************************************************)
(* Steps of the tablet.                                                    *)
(***************************************************************************)
Among(s, t) == \A i \in 1..Len(s) : \E j \in 1..Len(t) : s[i] = t[j]

\* What is left of a sequence after its head.
LEMMA TailIs ==
    ASSUME NEW U, NEW s \in Seq(U), s # <<>>
    PROVE  /\ Len(s) \in Nat \ {0} /\ Len(Tail(s)) = Len(s) - 1 /\ Head(s) = s[1]
           /\ Tail(s) \in Seq(U) /\ Head(s) \in U
           /\ \A i \in 1..(Len(s) - 1) : Tail(s)[i] = s[i + 1] /\ i + 1 \in 1..Len(s)
           /\ Among(Tail(s), s)
<1>1. /\ Len(s) \in Nat \ {0} /\ Len(Tail(s)) = Len(s) - 1 /\ Head(s) = s[1]
      /\ Tail(s) \in Seq(U) /\ Head(s) \in U
      /\ \A i \in 1..(Len(s) - 1) : Tail(s)[i] = s[i + 1] /\ i + 1 \in 1..Len(s)
  OBVIOUS
<1> QED BY <1>1 DEF Among

\* The types the steps need, in one place.
LEMMA Typed ==
    ASSUME Inv
    PROVE  /\ dev \in DeviceState /\ dev.out = <<>> /\ dev.queue \in Seq(Changes)
           /\ Len(dev.queue) \in Nat /\ dev.cursor \in 0..Len(dev.queue) /\ dev.tree \in Doc
           /\ dev.lastSeq = Len(dev.queue)
           /\ inf \in MirrorState /\ inf.out = <<>> /\ inf.tree \in Doc /\ inf.last \in Int
           /\ toInf \in Seq(InfEvent) /\ toDev \in Seq(MirrorMsg)
           /\ Len(toInf) \in Nat /\ Len(toDev) \in Nat
           /\ wire \in BOOLEAN /\ sockets \in Nat /\ edits \in Nat /\ links \in Nat
           /\ \A i \in 1..Len(dev.queue) : dev.queue[i].seq = i /\ dev.queue[i].base = i - 1
                                           /\ dev.queue[i].op <= edits
BY DEF Inv, TypeOK, QueueShape, QueueShaped, DeviceState, MirrorState

\* Nothing is said: flags change, or a line is received and has no effect.
LEMMA QuietStep ==
    ASSUME Inv, NEW D, NEW P, J(D, P), Same(dev, dev'),
           UNCHANGED <<inf, toInf, wire, sockets, drawn, edits, links>>,
           Among(toDev', toDev), ~wire => toDev' = <<>>
    PROVE  J(D, P)'
<1>1. /\ dev'.linked = dev.linked /\ dev'.epochLive = dev.epochLive
      /\ dev'.handshake = dev.handshake /\ dev'.cache = dev.cache /\ dev'.tree = dev.tree
      /\ dev'.queue = dev.queue /\ dev'.cursor = dev.cursor /\ (dev'.awaiting => dev.awaiting)
      /\ inf' = inf /\ toInf' = toInf /\ wire' = wire /\ sockets' = sockets /\ drawn' = drawn
      /\ edits' = edits /\ links' = links
  BY DEF Same
<1>2. LinkOK /\ EventsOK(P) /\ LoadsOK(P) /\ MirrorOK(D, P)
  BY DEF J
<1>3. LinkOK'
  BY <1>1, <1>2 DEF LinkOK, Listening
<1>4. EventsOK(P)'
  BY <1>1, <1>2 DEF EventsOK, Listening
<1>5. LoadsOK(P)'
  BY <1>1, <1>2 DEF LoadsOK, Among
<1>6. MirrorOK(D, P)'
  BY <1>1, <1>2 DEF MirrorOK
<1> QED BY <1>3, <1>4, <1>5, <1>6 DEF J

\* What a reading is made of.
LEMMA ReadingIs ==
    ASSUME Inv, NEW D, NEW P, J(D, P)
    PROVE  /\ \A i \in 0..Len(toInf) : P[i] \in 0..Len(dev.queue)
           /\ \A i \in 0..Len(toInf) : P[0] <= P[i] /\ P[i] <= P[Len(toInf)]
           /\ \A i \in 1..Len(toInf) :
                 IF IsChange(toInf[i]) THEN P[i] = P[i - 1] + 1 /\ toInf[i] = dev.queue[P[i]]
                 ELSE P[i] = P[i - 1]
<1> DEFINE k == Len(toInf)
           n == Len(dev.queue)
<1>1. k \in Nat /\ n \in Nat
  BY Typed
<1>2. /\ P \in [0..k -> 0..n]
      /\ \A i \in 1..k : IF IsChange(toInf[i]) THEN P[i] = P[i - 1] + 1 /\ toInf[i] = dev.queue[P[i]]
                         ELSE P[i] = P[i - 1]
      /\ \A i, j \in 0..k : i <= j => P[i] <= P[j]
  BY DEF J, MirrorOK, Reads
<1> HIDE DEF k, n
<1>3. \A i \in 0..k : 0 \in 0..k /\ k \in 0..k /\ 0 <= i /\ i <= k
  BY <1>1
<1> QED BY <1>1, <1>2, <1>3 DEF k, n

\* The hello is sent again.
LEMMA HelloStep ==
    ASSUME Inv, NEW D, NEW P, J(D, P), wire, ~dev.epochLive, Same(dev, dev'),
           toInf' = Append(toInf, HelloWith(dev, {})),
           UNCHANGED <<inf, toDev, wire, sockets, drawn, edits, links>>
    PROVE  \E Q : J(D, Q)'
<1> DEFINE k == Len(toInf)
           n == Len(dev.queue)
           msg == HelloWith(dev, {})
<1>0. PICK Q : Q = Stay(P, k)
  OBVIOUS
<1>1. /\ dev'.linked = dev.linked /\ dev'.epochLive = dev.epochLive
      /\ dev'.handshake = dev.handshake /\ dev'.cache = dev.cache /\ dev'.tree = dev.tree
      /\ dev'.queue = dev.queue /\ dev'.cursor = dev.cursor /\ (dev'.awaiting => dev.awaiting)
      /\ inf' = inf /\ toDev' = toDev /\ wire' = wire /\ sockets' = sockets /\ drawn' = drawn
      /\ edits' = edits /\ links' = links
  BY DEF Same
<1>2. LinkOK /\ EventsOK(P) /\ LoadsOK(P) /\ MirrorOK(D, P)
  BY DEF J
<1>3. /\ msg.type = "hello" /\ msg.lastSeq = n /\ msg.queued = n /\ msg.doc = {}
      /\ msg \in InfEvent /\ ~IsChange(msg) /\ ~IsNotice(msg)
  <2>1. dev.lastSeq = n /\ n \in Nat /\ {} \in Doc
    BY Typed DEF Doc
  <2>2. msg \in Hellos
    BY <2>1 DEF HelloWith, Hellos
  <2> QED BY <2>1, <2>2 DEF HelloWith, InfEvent, DeviceMsg, IsChange, IsNotice
<1>4. /\ k \in Nat /\ n \in Nat /\ Len(toInf') = k + 1
      /\ \A i \in 1..k : toInf'[i] = toInf[i]
      /\ toInf'[k + 1] = msg /\ toInf' # <<>>
  <2>1. toInf \in Seq(InfEvent) /\ k \in Nat /\ n \in Nat
    BY Typed
  <2> HIDE DEF msg, n
  <2> QED BY <2>1, <1>3 DEF msg
<1>5. /\ \A i \in 0..k : Q[i] = P[i]
      /\ Q[k + 1] = P[k]
  <2> HIDE DEF k
  <2> QED BY <1>0, <1>4 DEF Stay
<1>6. Reads(toInf', dev'.queue, Q)
  <2>1. toInf \in Seq(InfEvent) /\ dev.queue \in Seq(Changes) /\ Reads(toInf, dev.queue, P)
    BY <1>2, Typed DEF MirrorOK
  <2> HIDE DEF msg
  <2> QED BY <2>1, <1>0, <1>1, <1>3, ReadsOther DEF msg
<1>7. 0 \in 0..k /\ Q[0] = P[0] /\ k + 1 \in Nat
  BY <1>4, <1>5
<1> HIDE DEF k, n, msg
<1>8. Listening /\ Listening'
  <2>1. Listening
    BY <1>2 DEF LinkOK
  <2>2. toInf # <<>> => toInf'[1] = toInf[1]
    <3> SUFFICES ASSUME toInf # <<>> PROVE toInf'[1] = toInf[1]
      OBVIOUS
    <3>1. 1 \in 1..k
      BY <1>4, Typed DEF k
    <3> QED BY <3>1, <1>4
  <2> QED BY <2>1, <2>2, <1>1, <1>4 DEF Listening
<1>9. LinkOK'
  BY <1>1, <1>2, <1>8 DEF LinkOK
<1>10. EventsOK(Q)'
  <2> SUFFICES ASSUME NEW i \in 1..(k + 1)
               PROVE  LET e == toInf'[i] IN
        /\ e.type = "open" => i = 1 /\ e.n = 1
        /\ e.type = "close" => i = k + 1 /\ e.n = 0 /\ ~wire' /\ sockets' = 0
        /\ ~IsNotice(e) => Listening'
        /\ e.type = "hello" =>
              /\ e.lastSeq = e.queued /\ e.doc = {}
              /\ wire' /\ ~dev'.epochLive => e.queued = Len(dev'.queue)
              /\ Q[i] = 0 \/ (~dev'.epochLive /\ Q[i] = Q[k + 1])
        /\ e.type = "queue_empty" =>
              /\ ~dev'.epochLive /\ Q[i] = Q[k + 1]
              /\ wire' => dev'.cursor = Len(dev'.queue) /\ dev'.queue # <<>>
              /\ \A j \in 1..(k + 1) : toInf'[j].type = "queue_empty" => j = i
    BY <1>4 DEF EventsOK
  <2>1. CASE i = k + 1
    BY <2>1, <1>1, <1>3, <1>4, <1>5, <1>8 DEF n, IsNotice
  <2>2. CASE i # k + 1
    <3>1. i \in 1..k /\ i \in 0..k
      BY <2>2, <1>4
    <3>2. toInf'[i] = toInf[i] /\ Q[i] = P[i]
      BY <3>1, <1>4, <1>5
    <3>3. /\ toInf[i].type = "open" => i = 1 /\ toInf[i].n = 1
          /\ toInf[i].type # "close"
          /\ toInf[i].type = "hello" =>
              /\ toInf[i].lastSeq = toInf[i].queued /\ toInf[i].doc = {}
              /\ wire /\ ~dev.epochLive => toInf[i].queued = Len(dev.queue)
              /\ P[i] = 0 \/ (~dev.epochLive /\ P[i] = P[k])
          /\ toInf[i].type = "queue_empty" =>
              /\ ~dev.epochLive /\ P[i] = P[k]
              /\ wire => dev.cursor = Len(dev.queue) /\ dev.queue # <<>>
              /\ \A j \in 1..k : toInf[j].type = "queue_empty" => j = i
      BY <1>2, <3>1 DEF EventsOK, k
    <3>4. \A j \in 1..(k + 1) : toInf'[j].type = "queue_empty" => j \in 1..k /\ toInf'[j] = toInf[j]
      BY <1>3, <1>4
    <3> QED BY <3>2, <3>3, <3>4, <1>1, <1>5, <1>8
  <2> QED BY <2>1, <2>2
<1>11. LoadsOK(Q)'
  <2> SUFFICES ASSUME NEW i \in 1..Len(toDev), toDev[i].type = "doc_load", ~dev.epochLive
               PROVE  /\ Q[0] = Len(dev'.queue) /\ toDev[i].doc = inf.tree /\ inf.last = 0
                      /\ \A j \in 1..(k + 1) : toInf'[j].type # "queue_empty"
    BY <1>1, <1>4 DEF LoadsOK
  <2>1. /\ P[0] = Len(dev.queue) /\ toDev[i].doc = inf.tree /\ inf.last = 0
        /\ \A j \in 1..k : toInf[j].type # "queue_empty"
    BY <1>2 DEF LoadsOK, k
  <2>2. \A j \in 1..(k + 1) : toInf'[j].type # "queue_empty"
    <3> TAKE j \in 1..(k + 1)
    <3>1. CASE j = k + 1
      BY <3>1, <1>3, <1>4
    <3>2. CASE j # k + 1
      <4>1. j \in 1..k
        BY <3>2, <1>4
      <4> QED BY <4>1, <2>1, <1>4
    <3> QED BY <3>1, <3>2
  <2> QED BY <2>1, <2>2, <1>1, <1>7
<1>12. MirrorOK(D, Q)'
  BY <1>1, <1>2, <1>4, <1>5, <1>6, <1>7 DEF MirrorOK, k
<1> QED BY <1>9, <1>10, <1>11, <1>12 DEF J

\* The queue is drained: its changes and queue_empty are sent.
Drains ==
    /\ wire /\ dev.cursor # Len(dev.queue)
    /\ dev'.linked = dev.linked /\ dev'.epochLive = dev.epochLive
    /\ dev'.handshake = dev.handshake /\ dev'.cache = dev.cache /\ dev'.tree = dev.tree
    /\ dev'.queue = dev.queue /\ dev'.cursor = Len(dev.queue)
    /\ toInf' = Append(toInf \o SubSeq(dev.queue, dev.cursor + 1, Len(dev.queue)), QueueEmptyMsg)
    /\ UNCHANGED <<inf, wire, sockets, drawn, edits, links>>
    /\ Among(toDev', toDev)

\* The drained queue is read to its end.
LEMMA DrainStep ==
    ASSUME Inv, NEW D, NEW P, J(D, P), Drains
    PROVE  \E Q : J(D, Q)'
<1> DEFINE k == Len(toInf)
           n == Len(dev.queue)
           mid == toInf \o SubSeq(dev.queue, dev.cursor + 1, n)
<1>1. /\ inf' = inf /\ wire' = wire /\ sockets' = sockets /\ drawn' = drawn
      /\ edits' = edits /\ links' = links /\ wire
      /\ dev'.linked = dev.linked /\ dev'.epochLive = dev.epochLive
      /\ dev'.handshake = dev.handshake /\ dev'.cache = dev.cache /\ dev'.tree = dev.tree
      /\ dev'.queue = dev.queue /\ dev'.cursor = n /\ dev.cursor # n
  BY DEF Drains
<1>2. LinkOK /\ EventsOK(P) /\ LoadsOK(P) /\ MirrorOK(D, P)
  BY DEF J
<1>3. /\ toInf \in Seq(InfEvent) /\ dev.queue \in Seq(Changes) /\ k \in Nat /\ n \in Nat
      /\ dev.cursor \in 0..n /\ dev.cursor # n
  BY <1>1, Typed
\* The session is in its handshake and nothing has been sent yet.
<1>4. /\ dev.linked /\ ~dev.epochLive /\ dev.handshake /\ dev.cursor = 0 /\ n > 0 /\ P[k] = 0
      /\ Listening
  <2>1. dev.linked /\ ~dev.epochLive /\ dev.handshake /\ dev.cursor \in {0, n} /\ Listening
    BY <1>1, <1>2, <1>3 DEF LinkOK
  <2>2. P[k] = dev.cursor
    BY <1>1, <1>2 DEF MirrorOK
  <2> HIDE DEF n, k
  <2> QED BY <1>3, <2>1, <2>2
<1>5. P[0] = 0 /\ \A i \in 0..k : P[i] = 0
  <2>1. \A i \in 0..k : P[i] \in 0..n /\ P[i] <= P[k]
    BY ReadingIs
  <2> HIDE DEF n, k
  <2>2. \A i \in 0..k : P[i] = 0
    BY <1>3, <1>4, <2>1
  <2> QED BY <2>2, <1>3
<1>0. PICK R : R = Onward(P, k, 0, n)
  OBVIOUS
<1>6. /\ Reads(mid, dev.queue, R) /\ Len(mid) = k + n
      /\ \A i \in 1..k : mid[i] = toInf[i]
      /\ \A i \in (k + 1)..(k + n) : mid[i] = dev.queue[i - k]
      /\ mid \in Seq(InfEvent)
  <2>1. dev.queue \in Seq(InfEvent)
    BY <1>3 DEF InfEvent, DeviceMsg
  <2>2. Reads(toInf, dev.queue, P) /\ 0 \in 0..n
    BY <1>2, <1>3 DEF MirrorOK
  <2> DEFINE c == dev.cursor
  <2>3. c = 0 /\ P[k] = c /\ c \in 0..n
    BY <1>4, <2>2
  <2>4. /\ Reads(mid, dev.queue, Onward(P, k, c, n)) /\ Len(mid) = k + (n - c)
        /\ \A i \in 1..k : mid[i] = toInf[i]
        /\ \A i \in (k + 1)..(k + (n - c)) : mid[i] = dev.queue[c + (i - k)]
    BY <1>3, <2>1, <2>2, <2>3, ReadsRun
  <2>5. mid \in Seq(InfEvent)
    <3>1. SubSeq(dev.queue, dev.cursor + 1, n) \in Seq(InfEvent)
      BY <1>3, <2>1
    <3> QED BY <1>3, <3>1
  <2> HIDE DEF mid, n, k, c
  <2>6. k + (n - c) = k + n /\ \A i \in (k + 1)..(k + n) : c + (i - k) = i - k
    BY <1>3, <2>3
  <2> QED BY <1>0, <2>3, <2>4, <2>5, <2>6
<1>7. PICK Q : Q = Stay(R, k + n)
  OBVIOUS
<1>8. ~IsChange(QueueEmptyMsg) /\ ~IsNotice(QueueEmptyMsg) /\ QueueEmptyMsg \in InfEvent
      /\ QueueEmptyMsg.type = "queue_empty"
  BY DEF QueueEmptyMsg, IsChange, IsNotice, InfEvent, DeviceMsg, Signals
<1>9. Reads(toInf', dev'.queue, Q)
  <2> HIDE DEF mid
  <2>1. toInf' = Append(mid, QueueEmptyMsg)
    BY DEF mid, Drains
  <2> QED BY <2>1, <1>1, <1>3, <1>6, <1>7, <1>8, ReadsOther
<1> DEFINE m == k + n + 1
<1>10. /\ Len(toInf') = m /\ m \in Nat /\ k + n \in Nat
       /\ \A i \in 1..k : toInf'[i] = toInf[i]
       /\ \A i \in (k + 1)..(k + n) : toInf'[i] = dev.queue[i - k]
       /\ toInf'[m] = QueueEmptyMsg
  <2> HIDE DEF mid, k, n
  <2>1. toInf' = Append(mid, QueueEmptyMsg)
    BY DEF mid, n, Drains
  <2>2. /\ Len(toInf') = k + n + 1 /\ toInf'[k + n + 1] = QueueEmptyMsg
        /\ \A i \in 1..(k + n) : toInf'[i] = mid[i]
    BY <1>6, <2>1
  <2>3. \A i \in 1..k : i \in 1..(k + n)
    BY <1>3
  <2>4. \A i \in (k + 1)..(k + n) : i \in 1..(k + n)
    BY <1>3
  <2> QED BY <1>3, <1>6, <2>2, <2>3, <2>4
<1> HIDE DEF mid
<1>11. /\ \A i \in 0..k : Q[i] = 0
       /\ Q[m] = n
  <2> HIDE DEF k, n
  <2>1. \A i \in 0..(k + n) : R[i] = IF i <= k THEN P[i] ELSE 0 + (i - k)
    <3>1. k + (n - 0) = k + n
      BY <1>3
    <3> QED BY <1>0, <3>1 DEF Onward
  <2>2. \A i \in 0..(k + n + 1) : Q[i] = IF i <= k + n THEN R[i] ELSE R[k + n]
    BY <1>7 DEF Stay
  <2>3. R[k + n] = n
    <3> DEFINE x == k + n
    <3>1. x \in 0..(k + n) /\ ~(x <= k) /\ 0 + (x - k) = n
      BY <1>3, <1>4
    <3> HIDE DEF x
    <3>2. R[x] = n
      BY <3>1, <2>1
    <3> QED BY <3>2 DEF x
  <2>4. m \in 0..(k + n + 1) /\ ~(m <= k + n)
    BY <1>3
  <2>5. Q[m] = n
    BY <2>2, <2>3, <2>4
  <2>6. \A i \in 0..k : i \in 0..(k + n) /\ i \in 0..(k + n + 1) /\ i <= k /\ i <= k + n
    BY <1>3
  <2>7. \A i \in 0..k : Q[i] = P[i]
    BY <2>1, <2>2, <2>6
  <2> QED BY <2>5, <2>7, <1>5
<1>12. Listening'
  <2>1. toInf # <<>> => toInf'[1] = toInf[1] /\ toInf' # <<>>
    <3> SUFFICES ASSUME toInf # <<>> PROVE toInf'[1] = toInf[1] /\ toInf' # <<>>
      OBVIOUS
    <3>1. 1 \in 1..k
      BY <1>3
    <3>2. toInf' # <<>>
      BY <1>10, <1>3
    <3> HIDE DEF k
    <3> QED BY <3>1, <3>2, <1>10
  <2> QED BY <2>1, <1>1, <1>4 DEF Listening
<1>13. \A i \in 1..Len(toDev) : toDev[i].type # "doc_load"
  <2>1. P[0] # n
    <3> HIDE DEF n
    <3> QED BY <1>3, <1>4, <1>5
  <2> QED BY <2>1, <1>2, <1>4 DEF LoadsOK
<1> HIDE DEF k, n, m
<1>14. LinkOK'
  <2>1. toDev' = <<>> \/ wire'
    BY <1>1
  <2>2. dev'.cursor = Len(dev'.queue)
    BY <1>1 DEF n
  <2> QED BY <1>1, <1>2, <1>4, <1>12, <2>1, <2>2 DEF LinkOK
\* No queue_empty was on its way before.
<1>15. \A i \in 1..k : toInf[i].type \notin {"queue_empty", "close"}
  BY <1>1, <1>2, <1>3 DEF EventsOK, k, n
<1>16. \A i \in 1..k : toInf'[i].type \notin {"queue_empty", "close"}
  BY <1>10, <1>15
<1>17. \A i \in (k + 1)..(k + n) : toInf'[i].type = "doc_change" /\ ~IsNotice(toInf'[i])
  <2> TAKE i \in (k + 1)..(k + n)
  <2>1. i - k \in 1..n
    BY <1>3
  <2>2. IsChange(dev.queue[i - k])
    BY <2>1, <1>3, QueueOfChanges DEF n
  <2>3. toInf'[i] = dev.queue[i - k]
    BY <1>10
  <2> QED BY <2>2, <2>3 DEF IsChange, IsNotice
<1>18. EventsOK(Q)'
  <2> SUFFICES ASSUME NEW i \in 1..m
               PROVE  LET e == toInf'[i] IN
        /\ e.type = "open" => i = 1 /\ e.n = 1
        /\ e.type = "close" => i = m /\ e.n = 0 /\ ~wire' /\ sockets' = 0
        /\ ~IsNotice(e) => Listening'
        /\ e.type = "hello" =>
              /\ e.lastSeq = e.queued /\ e.doc = {}
              /\ wire' /\ ~dev'.epochLive => e.queued = Len(dev'.queue)
              /\ Q[i] = 0 \/ (~dev'.epochLive /\ Q[i] = Q[m])
        /\ e.type = "queue_empty" =>
              /\ ~dev'.epochLive /\ Q[i] = Q[m]
              /\ wire' => dev'.cursor = Len(dev'.queue) /\ dev'.queue # <<>>
              /\ \A j \in 1..m : toInf'[j].type = "queue_empty" => j = i
    BY <1>10 DEF EventsOK
  <2>0. \A j \in 1..m : j \in 1..k \/ j \in (k + 1)..(k + n) \/ j = m
    BY <1>3 DEF m
  <2>1. CASE i = m
    <3>1. \A j \in 1..m : toInf'[j].type = "queue_empty" => j = m
      <4> TAKE j \in 1..m
      <4>1. CASE j \in 1..k
        BY <4>1, <1>16
      <4>2. CASE j \in (k + 1)..(k + n)
        BY <4>2, <1>17
      <4> QED BY <4>1, <4>2, <2>0
    <3>2. dev.queue # <<>>
      BY <1>4 DEF n
    <3>3. toInf'[i] = QueueEmptyMsg
      BY <2>1, <1>10
    <3>4. ~dev'.epochLive /\ dev'.cursor = Len(dev'.queue) /\ dev'.queue # <<>>
      BY <1>1, <1>4, <3>2 DEF n
    <3>5. Q[i] = Q[m] /\ \A j \in 1..m : toInf'[j].type = "queue_empty" => j = i
      BY <2>1, <3>1
    <3>6. /\ QueueEmptyMsg.type \notin {"open", "close", "hello"} /\ QueueEmptyMsg.type = "queue_empty"
      BY <1>8
    <3> QED BY <3>3, <3>4, <3>5, <3>6, <1>12
  <2>2. CASE i \in 1..k
    <3>1. i \in 0..k
      BY <2>2, <1>3
    <3>2. toInf'[i] = toInf[i] /\ Q[i] = 0 /\ toInf'[i].type \notin {"queue_empty", "close"}
      BY <2>2, <3>1, <1>10, <1>11, <1>16
    <3>3. /\ toInf[i].type = "open" => i = 1 /\ toInf[i].n = 1
          /\ toInf[i].type = "hello" =>
              /\ toInf[i].lastSeq = toInf[i].queued /\ toInf[i].doc = {}
              /\ wire /\ ~dev.epochLive => toInf[i].queued = Len(dev.queue)
      BY <1>2, <2>2 DEF EventsOK, k
    <3> QED BY <3>2, <3>3, <1>1, <1>12
  <2>3. CASE i \in (k + 1)..(k + n)
    BY <2>3, <1>12, <1>17
  <2> QED BY <2>0, <2>1, <2>2, <2>3
<1>19. LoadsOK(Q)'
  BY <1>13 DEF LoadsOK, Among, Drains
<1>20. MirrorOK(D, Q)'
  <2>1. Q[0] = 0 /\ 0 \in 0..k
    BY <1>3, <1>11
  <2>2. inf.last = 0
    BY <1>2, <1>5 DEF MirrorOK
  <2> QED BY <1>1, <1>2, <1>5, <1>9, <1>10, <1>11, <2>1, <2>2 DEF MirrorOK, n
<1> QED BY <1>14, <1>18, <1>19, <1>20 DEF J

\* The load is accepted: the mirror has everything, and the queue starts anew.
LEMMA AcceptStep ==
    ASSUME Inv, NEW D, NEW P, J(D, P), wire, ~dev.epochLive,
           NEW i \in 1..Len(toDev), toDev[i].type = "doc_load",
           dev'.linked = dev.linked, dev'.epochLive = TRUE, dev'.handshake = FALSE,
           dev'.awaiting = FALSE, dev'.cache = {}, dev'.tree = dev.tree,
           dev'.queue = <<>>, dev'.cursor = 0,
           toInf' = Append(toInf, LoadAckMsg),
           UNCHANGED <<inf, wire, sockets, drawn, edits, links>>
    PROVE  \E E, Q : J(E, Q)'
<1> DEFINE k == Len(toInf)
           n == Len(dev.queue)
<1>1. /\ inf' = inf /\ wire' = wire /\ sockets' = sockets /\ drawn' = drawn
      /\ edits' = edits /\ links' = links
  OBVIOUS
<1>2. LinkOK /\ EventsOK(P) /\ LoadsOK(P) /\ MirrorOK(D, P)
  BY DEF J
<1>3. /\ toInf \in Seq(InfEvent) /\ k \in Nat /\ n \in Nat /\ dev.cursor \in 0..n
  BY Typed
<1>4. /\ P[0] = n /\ inf.last = 0 /\ toDev[i].doc = inf.tree
      /\ \A j \in 1..k : toInf[j].type # "queue_empty"
  BY <1>2 DEF LoadsOK
<1>5. inf.tree = dev.tree
  BY <1>2, <1>4 DEF MirrorOK
<1>6. \A j \in 1..k : ~IsChange(toInf[j])
  <2> SUFFICES ASSUME NEW j \in 1..k, IsChange(toInf[j]) PROVE FALSE
    OBVIOUS
  <2>1. \A x \in 0..k : P[x] \in 0..n /\ P[0] <= P[x]
    BY ReadingIs
  <2>2. P[j] = P[j - 1] + 1
    BY ReadingIs
  <2> HIDE DEF k, n
  <2>3. j \in 0..k /\ j - 1 \in 0..k
    BY <1>3
  <2>4. P[j] \in 0..n /\ P[j - 1] \in 0..n /\ n <= P[j - 1] /\ n \in Nat
    BY <1>3, <1>4, <2>1, <2>3
  <2> QED BY <2>2, <2>4
<1>7. ~IsChange(LoadAckMsg) /\ ~IsNotice(LoadAckMsg) /\ LoadAckMsg.type = "load_ack"
      /\ LoadAckMsg \in InfEvent
  BY DEF LoadAckMsg, IsChange, IsNotice, InfEvent, DeviceMsg, Signals
<1>8. /\ Len(toInf') = k + 1 /\ toInf' # <<>>
      /\ \A j \in 1..k : toInf'[j] = toInf[j]
      /\ toInf'[k + 1] = LoadAckMsg
  BY <1>3, <1>7
<1> HIDE DEF k, n
<1>9. PICK Q : Q = [x \in 0..(k + 1) |-> 0]
  OBVIOUS
<1>10. PICK E : E = [x \in {0} |-> dev.tree]
  OBVIOUS
<1>11. \A j \in 1..(k + 1) : j \in 1..k \/ j = k + 1
  BY <1>3
<1>12. Reads(toInf', <<>>, Q)
  <2>1. \A j \in 1..(k + 1) : ~IsChange(toInf'[j])
    BY <1>6, <1>7, <1>8, <1>11
  <2>2. k + 1 \in Nat
    BY <1>3
  <2> QED BY <2>1, <2>2, <1>8, <1>9, ReadsNone
<1>13. \A x \in 0..(k + 1) : Q[x] = 0
  BY <1>9
<1>14. 0 \in 0..(k + 1) /\ k + 1 \in 0..(k + 1)
  BY <1>3
<1>15. Listening /\ Listening'
  <2>1. Listening
    BY <1>2 DEF LinkOK
  <2>2. toInf # <<>> => toInf'[1] = toInf[1]
    <3> SUFFICES ASSUME toInf # <<>> PROVE toInf'[1] = toInf[1]
      OBVIOUS
    <3>1. 1 \in 1..k
      BY <1>3 DEF k
    <3> QED BY <3>1, <1>8
  <2> QED BY <2>1, <2>2, <1>1, <1>8 DEF Listening
<1>16. LinkOK'
  BY <1>1, <1>2, <1>15 DEF LinkOK
<1>17. EventsOK(Q)'
  <2> SUFFICES ASSUME NEW j \in 1..(k + 1)
               PROVE  LET e == toInf'[j] IN
        /\ e.type = "open" => j = 1 /\ e.n = 1
        /\ e.type # "close"
        /\ ~IsNotice(e) => Listening'
        /\ e.type = "hello" => e.lastSeq = e.queued /\ e.doc = {}
        /\ e.type # "queue_empty"
    <3>1. \A j \in 1..(k + 1) : Q[j] = 0
      BY <1>3, <1>13
    <3> QED BY <1>8, <3>1 DEF EventsOK
  <2>1. CASE j = k + 1
    BY <2>1, <1>7, <1>8, <1>15 DEF IsNotice
  <2>2. CASE j \in 1..k
    <3>1. /\ toInf[j].type = "open" => j = 1 /\ toInf[j].n = 1
          /\ toInf[j].type # "close"
          /\ toInf[j].type = "hello" => toInf[j].lastSeq = toInf[j].queued /\ toInf[j].doc = {}
      BY <1>2, <2>2 DEF EventsOK, k
    <3>2. toInf'[j] = toInf[j]
      BY <2>2, <1>8
    <3> QED BY <2>2, <3>1, <3>2, <1>4, <1>15
  <2> QED BY <2>1, <2>2, <1>11
<1>18. LoadsOK(Q)'
  BY DEF LoadsOK
<1>19. MirrorOK(E, Q)'
  <2>1. Len(<<>>) = 0 /\ Q[0] = 0 /\ Q[k + 1] = 0 /\ E[0] = dev.tree
    BY <1>10, <1>13, <1>14
  <2>2. Runs(<<>>, E)
    BY DEF Runs
  <2> QED BY <1>1, <1>2, <1>4, <1>5, <1>8, <1>12, <2>1, <2>2 DEF MirrorOK
<1> QED BY <1>16, <1>17, <1>18, <1>19 DEF J

-----------------------------------------------------------------------------
(***************************************************************************)
(* What a step may do to the two copies and to the queue between them,     *)
(* when the mirror has applied the first p changes of the queue.           *)
(***************************************************************************)
Still ==
    /\ dev'.tree = dev.tree /\ dev'.queue = dev.queue
    /\ inf'.tree = inf.tree /\ inf'.applied = inf.applied

Clears(p) ==
    /\ p = Len(dev.queue) /\ dev'.queue = <<>>
    /\ dev'.tree = dev.tree /\ inf'.tree = inf.tree

Draws(edit, c) ==
    /\ Applies(dev.tree, edit) /\ c \in Changes /\ c.edit = edit /\ c.op \notin inf.applied
    /\ dev'.tree = ApplyEdit(dev.tree, edit) /\ dev'.queue = Append(dev.queue, c)
    /\ inf'.tree = inf.tree /\ inf'.applied = inf.applied

Shows(p) ==
    /\ dev'.tree = dev.tree /\ dev'.queue = dev.queue
    /\ p + 1 \in 1..Len(dev.queue)
    /\ inf'.tree = ApplyEdit(inf.tree, dev.queue[p + 1].edit)
    /\ \A i \in 1..Len(dev.queue) : dev.queue[i].op \in inf'.applied <=> i <= p + 1

Moves(p) == Still \/ Clears(p) \/ (\E edit \in Edits, c \in Changes : Draws(edit, c)) \/ Shows(p)

-----------------------------------------------------------------------------
(***************************************************************************)
(* Steps of the link.                                                      *)
(***************************************************************************)
\* What was not read yet is lost: the reading stops earlier.
LEMMA WireDiesStep ==
    ASSUME Inv, NEW D, NEW P, J(D, P), WireDies
    PROVE  Still /\ \E Q : J(D, Q)'
<1> DEFINE k == Len(toInf)
<1>1. /\ inf' = inf /\ dev' = dev /\ sockets' = sockets /\ drawn' = drawn
      /\ edits' = edits /\ links' = links /\ wire /\ wire' = FALSE /\ toDev' = <<>>
  BY DEF WireDies, budget
<1>2. LinkOK /\ EventsOK(P) /\ LoadsOK(P) /\ MirrorOK(D, P)
  BY DEF J
<1>3. PICK m \in 0..k : toInf' = SubSeq(toInf, 1, m)
  BY DEF WireDies
<1>4. toInf \in Seq(InfEvent) /\ dev.queue \in Seq(Changes) /\ k \in Nat /\ m \in 0..k
  BY <1>3, Typed
<1>5. PICK Q : Q = [i \in 0..m |-> P[i]]
  OBVIOUS
<1>6. /\ Reads(toInf', dev'.queue, Q) /\ Len(toInf') = m
      /\ \A i \in 1..m : toInf'[i] = toInf[i]
  BY <1>1, <1>2, <1>3, <1>4, <1>5, ReadsPrefix DEF MirrorOK
<1>7. \A i, j \in 0..k : i <= j => P[i] <= P[j]
  BY <1>2 DEF MirrorOK, Reads
<1>8. \A i \in 0..k : P[i] \in Nat
  <2>1. \A i \in 0..k : P[i] \in 0..Len(dev.queue) /\ Len(dev.queue) \in Nat
    BY ReadingIs, Typed
  <2> QED BY <2>1
<1> HIDE DEF k
<1>9. /\ \A i \in 0..m : Q[i] = P[i] /\ i \in 0..k
      /\ 0 \in 0..m /\ m \in 0..m /\ m \in 0..k /\ k \in 0..k /\ 0 \in 0..k /\ m <= k /\ m \in Nat
  BY <1>4, <1>5
<1>10. \A i \in 1..m : i \in 0..m /\ i \in 1..k /\ i <= m
  BY <1>4
<1>11. LinkOK'
  BY <1>1, <1>2 DEF LinkOK
<1>12. EventsOK(Q)'
  <2> SUFFICES ASSUME NEW i \in 1..m
               PROVE  LET e == toInf'[i] IN
        /\ e.type = "open" => i = 1 /\ e.n = 1
        /\ e.type # "close"
        /\ ~IsNotice(e) => Listening'
        /\ e.type = "hello" =>
              /\ e.lastSeq = e.queued /\ e.doc = {}
              /\ Q[i] = 0 \/ (~dev.epochLive /\ Q[i] = Q[m])
        /\ e.type = "queue_empty" =>
              /\ ~dev.epochLive /\ Q[i] = Q[m]
              /\ \A j \in 1..m : toInf'[j].type = "queue_empty" => j = i
    BY <1>1, <1>6 DEF EventsOK
  <2>1. toInf'[i] = toInf[i] /\ Q[i] = P[i] /\ Q[m] = P[m] /\ i \in 1..k
    BY <1>6, <1>9, <1>10
  <2>2. P[i] = P[k] => P[i] = P[m]
    <3>1. P[i] <= P[m] /\ P[m] <= P[k] /\ P[i] \in Nat /\ P[m] \in Nat /\ P[k] \in Nat
      BY <1>7, <1>8, <1>9, <1>10
    <3> QED BY <3>1
  <2>3. Listening => Listening'
    <3>1. toInf'[1] = toInf[1] /\ toInf' # <<>>
      <4>1. 1 \in 1..m /\ m # 0
        BY <1>9
      <4> QED BY <4>1, <1>6
    <3> QED BY <3>1, <1>1 DEF Listening
  <2>4. /\ toInf[i].type = "open" => i = 1 /\ toInf[i].n = 1
        /\ toInf[i].type # "close"
        /\ ~IsNotice(toInf[i]) => Listening
        /\ toInf[i].type = "hello" =>
              /\ toInf[i].lastSeq = toInf[i].queued /\ toInf[i].doc = {}
              /\ P[i] = 0 \/ (~dev.epochLive /\ P[i] = P[k])
        /\ toInf[i].type = "queue_empty" =>
              /\ ~dev.epochLive /\ P[i] = P[k]
              /\ \A j \in 1..k : toInf[j].type = "queue_empty" => j = i
    BY <1>1, <1>2, <2>1 DEF EventsOK, k
  <2>5. \A j \in 1..m : toInf'[j] = toInf[j] /\ j \in 1..k
    BY <1>6, <1>10
  <2> QED BY <2>1, <2>2, <2>3, <2>4, <2>5
<1>13. LoadsOK(Q)'
  BY <1>1 DEF LoadsOK
<1>14. MirrorOK(D, Q)'
  <2>1. Q[0] = P[0] /\ Q[m] = P[m] /\ (P[0] < P[m] => P[0] < P[k])
    <3>1. P[0] \in Nat /\ P[m] \in Nat /\ P[k] \in Nat /\ P[m] <= P[k] /\ Q[0] = P[0] /\ Q[m] = P[m]
      BY <1>7, <1>8, <1>9
    <3> QED BY <3>1
  <2> QED BY <1>1, <1>2, <1>6, <2>1 DEF MirrorOK, k
<1> QED BY <1>1, <1>11, <1>12, <1>13, <1>14 DEF J, Still

\* The tablet sees its link gone.
LEMMA DeviceSeesDownStep ==
    ASSUME Inv, NEW D, NEW P, J(D, P), DeviceSeesDown
    PROVE  Still /\ J(D, P)'
<1>1. LinkOK /\ EventsOK(P) /\ LoadsOK(P) /\ MirrorOK(D, P)
  BY DEF J
<1>2. dev \in DeviceState /\ dev.out = <<>> /\ dev.cache = {} /\ (dev.queue = <<>> /\ ~dev.epochLive => dev.tree = {})
  BY <1>1, Typed DEF LinkOK
<1>3. /\ inf' = inf /\ toInf' = toInf /\ toDev' = toDev /\ wire' = wire /\ sockets' = sockets
      /\ drawn' = drawn /\ edits' = edits /\ links' = links /\ ~wire
      /\ dev' = [OnLinkDown(dev) EXCEPT !.out = <<>>]
  BY DEF DeviceSeesDown, DeviceRan, budget
<1>4. /\ dev'.linked = FALSE /\ dev'.handshake = FALSE /\ dev'.epochLive = dev.epochLive
      /\ dev'.cache = {} /\ dev'.tree = dev.tree /\ dev'.queue = dev.queue
  BY <1>2, <1>3 DEF OnLinkDown, DeviceState
<1>5. LinkOK'
  BY <1>1, <1>3, <1>4 DEF LinkOK
<1>6. EventsOK(P)'
  BY <1>1, <1>3, <1>4 DEF EventsOK, Listening
<1>7. LoadsOK(P)'
  BY <1>1, <1>3, <1>4 DEF LoadsOK
<1>8. MirrorOK(D, P)'
  BY <1>1, <1>3, <1>4 DEF MirrorOK
<1> QED BY <1>3, <1>4, <1>5, <1>6, <1>7, <1>8 DEF J, Still

\* The main process says the link is gone, after everything it has read.
LEMMA MainSeesCloseStep ==
    ASSUME Inv, NEW D, NEW P, J(D, P), MainSeesClose
    PROVE  Still /\ \E Q : J(D, Q)'
<1> DEFINE k == Len(toInf)
           msg == [type |-> "close", n |-> sockets - 1]
<1>1. LinkOK /\ EventsOK(P) /\ LoadsOK(P) /\ MirrorOK(D, P)
  BY DEF J
<1>2. ~wire /\ sockets = 1
  BY <1>1, Typed DEF MainSeesClose, LinkOK
<1>3. /\ inf' = inf /\ dev' = dev /\ toDev' = toDev /\ wire' = wire /\ drawn' = drawn
      /\ edits' = edits /\ links' = links /\ sockets' = 0 /\ toInf' = Append(toInf, msg)
  BY <1>2 DEF MainSeesClose, budget
<1>4. /\ toInf \in Seq(InfEvent) /\ dev.queue \in Seq(Changes) /\ k \in Nat
      /\ Reads(toInf, dev.queue, P)
  BY <1>1, Typed DEF MirrorOK
<1>5. msg \in InfEvent /\ ~IsChange(msg) /\ IsNotice(msg) /\ msg.type = "close" /\ msg.n = 0
  BY <1>2 DEF InfEvent, Notices, IsChange, IsNotice
<1>6. PICK Q : Q = Stay(P, k)
  OBVIOUS
<1> HIDE DEF msg
<1>7. /\ Len(toInf') = k + 1 /\ toInf' # <<>>
      /\ \A i \in 1..k : toInf'[i] = toInf[i]
      /\ toInf'[k + 1] = msg
  BY <1>3, <1>4, <1>5
<1>8. Reads(toInf', dev'.queue, Q)
  BY <1>3, <1>4, <1>5, <1>6, ReadsOther
<1> HIDE DEF k
<1>9. /\ \A i \in 0..k : Q[i] = P[i]
      /\ Q[k + 1] = P[k] /\ 0 \in 0..k
  BY <1>4, <1>6 DEF Stay
<1>10. \A i \in 1..(k + 1) : i = k + 1 \/ (i \in 1..k /\ i \in 0..k)
  BY <1>4
<1>11. LinkOK'
  BY <1>1, <1>2, <1>3 DEF LinkOK
<1>12. EventsOK(Q)'
  <2> SUFFICES ASSUME NEW i \in 1..(k + 1)
               PROVE  LET e == toInf'[i] IN
        /\ e.type = "open" => i = 1 /\ e.n = 1
        /\ e.type = "close" => i = k + 1 /\ e.n = 0
        /\ ~IsNotice(e) => Listening'
        /\ e.type = "hello" =>
              /\ e.lastSeq = e.queued /\ e.doc = {}
              /\ Q[i] = 0 \/ (~dev.epochLive /\ Q[i] = Q[k + 1])
        /\ e.type = "queue_empty" =>
              /\ ~dev.epochLive /\ Q[i] = Q[k + 1]
              /\ \A j \in 1..(k + 1) : toInf'[j].type = "queue_empty" => j = i
    BY <1>2, <1>3, <1>7 DEF EventsOK
  <2>1. CASE i = k + 1
    BY <2>1, <1>5, <1>7
  <2>2. CASE i \in 1..k /\ i \in 0..k
    <3>1. toInf'[i] = toInf[i] /\ Q[i] = P[i]
      BY <2>2, <1>7, <1>9
    <3>2. /\ toInf[i].type = "open" => i = 1 /\ toInf[i].n = 1
          /\ toInf[i].type # "close"
          /\ ~IsNotice(toInf[i]) => Listening
          /\ toInf[i].type = "hello" =>
              /\ toInf[i].lastSeq = toInf[i].queued /\ toInf[i].doc = {}
              /\ P[i] = 0 \/ (~dev.epochLive /\ P[i] = P[k])
          /\ toInf[i].type = "queue_empty" =>
              /\ ~dev.epochLive /\ P[i] = P[k]
              /\ \A j \in 1..k : toInf[j].type = "queue_empty" => j = i
      BY <1>1, <1>2, <2>2 DEF EventsOK, k
    <3>3. \A j \in 1..(k + 1) : toInf'[j].type = "queue_empty" => j \in 1..k /\ toInf'[j] = toInf[j]
      BY <1>5, <1>7, <1>10
    <3>4. Listening => Listening'
      <4>1. toInf # <<>> => toInf'[1] = toInf[1]
        <5> SUFFICES ASSUME toInf # <<>> PROVE toInf'[1] = toInf[1]
          OBVIOUS
        <5>1. 1 \in 1..k
          BY <1>4 DEF k
        <5> QED BY <5>1, <1>7
      <4> QED BY <4>1, <1>3, <1>7 DEF Listening
    <3> QED BY <3>1, <3>2, <3>3, <3>4, <1>9
  <2> QED BY <2>1, <2>2, <1>10
<1>13. LoadsOK(Q)'
  <2>1. toDev' = <<>>
    BY <1>1, <1>2, <1>3 DEF LinkOK
  <2> QED BY <2>1 DEF LoadsOK
<1>14. MirrorOK(D, Q)'
  BY <1>1, <1>2, <1>3, <1>7, <1>8, <1>9 DEF MirrorOK, k
<1> QED BY <1>3, <1>11, <1>12, <1>13, <1>14 DEF J, Still

\* The first session opens: the mirror has seen nothing yet.
LEMMA LinkUpStep ==
    ASSUME Inv, NEW D, NEW P, J(D, P), LinkUp, links' <= 1
    PROVE  Still /\ \E Q : J(D, Q)'
<1> DEFINE n == Len(dev.queue)
           open == [type |-> "open", n |-> 1]
           hello == HelloWith(dev, {})
<1>1. LinkOK /\ EventsOK(P) /\ LoadsOK(P) /\ MirrorOK(D, P)
  BY DEF J
<1>2. links = 0
  BY Typed DEF LinkUp
<1>3. ~dev.linked /\ ~dev.epochLive /\ sockets = 0 /\ toInf = <<>> /\ inf.applied = {}
  BY <1>1, <1>2 DEF LinkOK
<1>4. dev \in DeviceState /\ dev.out = <<>> /\ dev.cache = {} /\ (dev.queue = <<>> => dev.tree = {})
  BY <1>1, <1>3, Typed DEF LinkOK
<1>5. /\ OnLinkUp(dev).linked = TRUE /\ OnLinkUp(dev).handshake = TRUE
      /\ OnLinkUp(dev).epochLive = dev.epochLive /\ OnLinkUp(dev).cursor = 0
      /\ OnLinkUp(dev).cache = {} /\ OnLinkUp(dev).tree = dev.tree /\ OnLinkUp(dev).queue = dev.queue
      /\ OnLinkUp(dev).out = <<hello>>
  BY <1>4, LinkEffect
<1>6. OnLinkUp(dev) \in DeviceState
  BY LinkFormed, <1>4 DEF Inv, TypeOK, QueueShape, Formed
<1>7. /\ inf' = inf /\ drawn' = drawn /\ edits' = edits /\ links' = 1
      /\ wire' = TRUE /\ toDev' = <<>> /\ sockets' = 1
      /\ toInf' = Append(<<>>, open) \o <<hello>>
      /\ dev' = [OnLinkUp(dev) EXCEPT !.out = <<>>]
  BY <1>2, <1>3, <1>5 DEF LinkUp
<1>8. /\ dev'.linked = TRUE /\ dev'.handshake = TRUE /\ dev'.epochLive = FALSE /\ dev'.cursor = 0
      /\ dev'.cache = {} /\ dev'.tree = dev.tree /\ dev'.queue = dev.queue
  <2> DEFINE d == OnLinkUp(dev)
  <2> HIDE DEF d
  <2>1. d \in DeviceState
    BY <1>6 DEF d
  <2>2. LET e == [d EXCEPT !.out = <<>>] IN
        /\ e.linked = d.linked /\ e.handshake = d.handshake /\ e.epochLive = d.epochLive
        /\ e.cursor = d.cursor /\ e.cache = d.cache /\ e.tree = d.tree /\ e.queue = d.queue
    BY <2>1 DEF DeviceState
  <2> QED BY <2>2, <1>3, <1>5, <1>7 DEF d
<1>9. /\ hello.type = "hello" /\ hello.lastSeq = n /\ hello.queued = n /\ hello.doc = {}
      /\ hello \in InfEvent /\ ~IsChange(hello) /\ ~IsNotice(hello)
  <2>1. dev.lastSeq = n /\ n \in Nat /\ {} \in Doc
    BY Typed DEF Doc
  <2>2. hello \in Hellos
    BY <2>1 DEF HelloWith, Hellos
  <2> QED BY <2>1, <2>2 DEF HelloWith, InfEvent, DeviceMsg, IsChange, IsNotice
<1>10. open \in InfEvent /\ ~IsChange(open) /\ open.type = "open" /\ open.n = 1 /\ IsNotice(open)
  BY DEF InfEvent, Notices, IsChange, IsNotice
<1>11. dev.queue \in Seq(Changes) /\ n \in Nat
  BY Typed
<1>12. P[0] = 0
  <2>1. P[0] \in 0..n
    <3>1. 0 \in 0..Len(toInf)
      BY <1>3
    <3> QED BY <3>1, ReadingIs
  <2>2. \A i \in 1..n : ~(i <= P[0])
    BY <1>1, <1>3 DEF MirrorOK
  <2> HIDE DEF n
  <2> QED BY <1>11, <2>1, <2>2
<1> HIDE DEF open, hello
<1>13. /\ Len(toInf') = 2 /\ toInf'[1] = open /\ toInf'[2] = hello
       /\ toInf' = Append(<<open>>, hello)
  BY <1>7
<1>14. PICK Q : Q = [i \in 0..2 |-> 0]
  OBVIOUS
<1>15. Q[0] = 0 /\ Q[1] = 0 /\ Q[2] = 0 /\ \A i \in 0..2 : Q[i] = 0
  BY <1>14
<1>16. Reads(toInf', dev'.queue, Q)
  <2>1. Q \in [0..2 -> 0..n]
    <3>1. 0 \in 0..n
      BY <1>11
    <3> HIDE DEF n
    <3> QED BY <3>1, <1>14
  <2>2. \A i \in 1..2 : ~IsChange(toInf'[i]) /\ Q[i] = Q[i - 1]
    <3> TAKE i \in 1..2
    <3>1. i = 1 \/ i = 2
      OBVIOUS
    <3> QED BY <3>1, <1>9, <1>10, <1>13, <1>15
  <2>3. \A i, j \in 0..2 : Q[i] <= Q[j]
    BY <1>15
  <2> QED BY <2>1, <2>2, <2>3, <1>8, <1>13 DEF Reads
<1>17. Listening'
  <2>1. toInf' # <<>>
    BY <1>13
  <2> QED BY <2>1, <1>10, <1>13 DEF Listening
<1>18. LinkOK'
  BY <1>1, <1>3, <1>7, <1>8, <1>17 DEF LinkOK
<1>19. EventsOK(Q)'
  <2> SUFFICES ASSUME NEW i \in 1..2
               PROVE  LET e == toInf'[i] IN
        /\ e.type = "open" => i = 1 /\ e.n = 1
        /\ e.type # "close"
        /\ ~IsNotice(e) => Listening'
        /\ e.type = "hello" => e.lastSeq = e.queued /\ e.doc = {} /\ e.queued = n /\ Q[i] = 0
        /\ e.type # "queue_empty"
    BY <1>8, <1>13 DEF EventsOK
  <2>1. i = 1 \/ i = 2
    OBVIOUS
  <2> QED BY <2>1, <1>9, <1>10, <1>13, <1>15, <1>17
<1>20. LoadsOK(Q)'
  BY <1>7 DEF LoadsOK
<1>21. MirrorOK(D, Q)'
  BY <1>1, <1>7, <1>8, <1>12, <1>13, <1>15, <1>16 DEF MirrorOK
<1> QED BY <1>7, <1>8, <1>18, <1>19, <1>20, <1>21 DEF J, Still

\* A commit: the queue grows, and the change is sent when the session publishes.
Commits(edit, c) ==
    /\ Applies(dev.tree, edit)
    /\ c = [type |-> "doc_change", seq |-> dev.lastSeq + 1, base |-> dev.lastSeq,
            op |-> edits + 1, edit |-> edit]
    /\ dev'.linked = dev.linked /\ dev'.epochLive = dev.epochLive
    /\ dev'.handshake = dev.handshake /\ dev'.awaiting = dev.awaiting
    /\ dev'.cache = {} /\ dev'.tree = ApplyEdit(dev.tree, edit)
    /\ dev'.queue = Append(dev.queue, c)
    /\ drawn' = ApplyEdit(drawn, edit) /\ edits' = edits + 1
    /\ UNCHANGED <<inf, toDev, wire, sockets, links>>

\* What a commit does to the queue, its documents and the mirror's opIds.
LEMMA CommitGrows ==
    ASSUME Inv, NEW D, NEW P, J(D, P), NEW edit \in Edits, NEW c, Commits(edit, c)
    PROVE  /\ c \in Changes /\ IsChange(c) /\ ~IsNotice(c)
           /\ Len(dev'.queue) = Len(dev.queue) + 1 /\ dev'.queue \in Seq(Changes)
           /\ \A i \in 1..Len(dev.queue) : dev'.queue[i] = dev.queue[i]
           /\ dev'.queue[Len(dev.queue) + 1] = c
           /\ \A i \in 1..Len(dev'.queue) : dev'.queue[i].op \in inf.applied <=> i <= P[0]
           /\ \A op \in inf.applied : op <= edits'
           /\ \E E : /\ Runs(dev'.queue, E) /\ E[Len(dev'.queue)] = dev'.tree
                     /\ E[P[0]] = inf.tree
<1> DEFINE n == Len(dev.queue)
<1>1. LinkOK /\ MirrorOK(D, P)
  BY DEF J
<1>2. /\ dev.queue \in Seq(Changes) /\ n \in Nat /\ dev.lastSeq = n /\ edits \in Nat
      /\ dev.cursor \in 0..n /\ toInf \in Seq(InfEvent) /\ Len(toInf) \in Nat
  BY Typed
<1>3. c \in Changes /\ c.edit = edit /\ c.op = edits + 1 /\ IsChange(c) /\ ~IsNotice(c)
  <2>1. edits + 1 \in Nat /\ dev.lastSeq \in Nat /\ dev.lastSeq + 1 \in Nat
    BY <1>2
  <2>2. c = [type |-> "doc_change", seq |-> dev.lastSeq + 1, base |-> dev.lastSeq,
             op |-> edits + 1, edit |-> edit]
    BY DEF Commits
  <2> QED BY <2>1, <2>2 DEF Changes, IsChange, IsNotice
<1>4. /\ dev'.queue = Append(dev.queue, c) /\ dev'.queue \in Seq(Changes)
      /\ Len(dev'.queue) = n + 1 /\ dev'.queue[n + 1] = c
      /\ \A i \in 1..n : dev'.queue[i] = dev.queue[i]
  <2>1. dev'.queue = Append(dev.queue, c)
    BY DEF Commits
  <2>2. /\ Append(dev.queue, c) \in Seq(Changes) /\ Len(Append(dev.queue, c)) = n + 1
        /\ Append(dev.queue, c)[n + 1] = c
        /\ \A i \in 1..n : Append(dev.queue, c)[i] = dev.queue[i]
    BY <1>2, <1>3
  <2> QED BY <2>1, <2>2
<1>5. P[0] \in 0..n
  <2>1. 0 \in 0..Len(toInf)
    BY <1>2
  <2> QED BY <2>1, ReadingIs
<1>6. PICK E : /\ Runs(dev'.queue, E)
               /\ \A i \in 0..n : E[i] = D[i]
               /\ E[n + 1] = ApplyEdit(D[n], c.edit)
  <2>1. Applies(D[n], c.edit) /\ Runs(dev.queue, D)
    BY <1>1, <1>3 DEF MirrorOK, Commits
  <2>2. \E E : /\ Runs(Append(dev.queue, c), E)
                /\ \A i \in 0..n : E[i] = D[i]
                /\ E[n + 1] = ApplyEdit(D[n], c.edit)
    <3>1. dev.queue \in Seq(Changes) /\ c \in Changes
      BY <1>2, <1>3
    <3> QED BY <2>1, <3>1, RunsGrow
  <2>3. PICK E : /\ Runs(Append(dev.queue, c), E)
                 /\ \A i \in 0..n : E[i] = D[i]
                 /\ E[n + 1] = ApplyEdit(D[n], c.edit)
    BY <2>2
  <2>4. Runs(dev'.queue, E)
    BY <2>3, <1>4, Zenon
  <2> HIDE DEF n
  <2> QED BY <2>3, <2>4
<1>7. E[Len(dev'.queue)] = dev'.tree /\ E[P[0]] = inf.tree
  BY <1>1, <1>3, <1>4, <1>5, <1>6 DEF MirrorOK, Commits
<1>8. edits' = edits + 1
  BY DEF Commits
<1>9. \A i \in 1..n : dev.queue[i].op \in inf.applied <=> i <= P[0]
  BY <1>1 DEF MirrorOK
<1>10. \A op \in inf.applied : op <= edits /\ op \in Nat
  BY <1>1, Typed DEF MirrorOK, MirrorState
<1> HIDE DEF n
<1>11. \A i \in 1..(n + 1) : dev'.queue[i].op \in inf.applied <=> i <= P[0]
  <2> TAKE i \in 1..(n + 1)
  <2>1. CASE i = n + 1
    <3>1. dev'.queue[i].op = edits + 1 /\ edits + 1 \notin inf.applied
      BY <2>1, <1>2, <1>3, <1>4, <1>10
    <3>2. ~(i <= P[0])
      BY <2>1, <1>2, <1>5
    <3> QED BY <3>1, <3>2
  <2>2. CASE i # n + 1
    <3>1. i \in 1..n
      BY <2>2, <1>2
    <3> QED BY <3>1, <1>4, <1>9
  <2> QED BY <2>1, <2>2
<1>12. \A op \in inf.applied : op <= edits'
  <2> TAKE op \in inf.applied
  <2> QED BY <1>2, <1>8, <1>10
<1> QED BY <1>3, <1>4, <1>6, <1>7, <1>11, <1>12 DEF n

\* Nothing is sent.
LEMMA UnheardCommitStep ==
    ASSUME Inv, NEW D, NEW P, J(D, P), NEW edit \in Edits, NEW c, Commits(edit, c), ~wire,
           ~dev.handshake, dev.linked => dev'.cursor = Len(dev'.queue), toInf' = toInf
    PROVE  \E E : J(E, P)'
<1>1. LinkOK /\ EventsOK(P) /\ LoadsOK(P) /\ MirrorOK(D, P)
  BY DEF J
<1>2. PICK E : /\ Runs(dev'.queue, E) /\ E[Len(dev'.queue)] = dev'.tree
               /\ E[P[0]] = inf.tree
  BY CommitGrows
<1>3. /\ c \in Changes /\ Len(dev'.queue) = Len(dev.queue) + 1
      /\ \A i \in 1..Len(dev'.queue) : dev'.queue[i].op \in inf.applied <=> i <= P[0]
      /\ \A op \in inf.applied : op <= edits'
  BY CommitGrows
<1>4. /\ dev'.linked = dev.linked /\ dev'.epochLive = dev.epochLive
      /\ dev'.handshake = dev.handshake /\ dev'.awaiting = dev.awaiting
      /\ dev'.cache = {} /\ dev'.tree = ApplyEdit(dev.tree, edit)
      /\ dev'.queue = Append(dev.queue, c)
      /\ drawn' = ApplyEdit(drawn, edit)
      /\ inf' = inf /\ toDev' = toDev /\ wire' = wire /\ sockets' = sockets /\ links' = links
  BY DEF Commits
<1>5. dev.queue \in Seq(Changes) /\ Len(dev.queue) \in Nat /\ Len(toInf) \in Nat /\ dev'.queue # <<>>
  <2>1. dev.queue \in Seq(Changes) /\ Len(dev.queue) \in Nat /\ Len(toInf) \in Nat
    BY Typed
  <2>2. Append(dev.queue, c) # <<>>
    BY <1>3, <2>1
  <2> QED BY <1>4, <2>1, <2>2
<1>6. Reads(toInf', dev'.queue, P)
  BY <1>1, <1>3, <1>4, <1>5, ReadsGrow DEF MirrorOK
<1>7. LinkOK'
  BY <1>1, <1>4, <1>5 DEF LinkOK
<1>8. EventsOK(P)'
  BY <1>1, <1>4 DEF EventsOK, Listening
<1>9. LoadsOK(P)'
  BY <1>1, <1>4 DEF LoadsOK, LinkOK
<1>10. MirrorOK(E, P)'
  BY <1>1, <1>2, <1>3, <1>4, <1>6 DEF MirrorOK
<1> QED BY <1>7, <1>8, <1>9, <1>10 DEF J

\* The change is sent at once: everything before it has been.
LEMMA HeardCommitStep ==
    ASSUME Inv, NEW D, NEW P, J(D, P), NEW edit \in Edits, NEW c, Commits(edit, c), wire,
           ~dev.handshake, dev'.cursor = Len(dev'.queue),
           toInf' = toInf \o SubSeq(dev'.queue, Len(dev.queue) + 1, Len(dev'.queue))
    PROVE  \E E, Q : J(E, Q)'
<1> DEFINE k == Len(toInf)
           n == Len(dev.queue)
<1>1. LinkOK /\ EventsOK(P) /\ LoadsOK(P) /\ MirrorOK(D, P)
  BY DEF J
<1>2. PICK E : /\ Runs(dev'.queue, E) /\ E[Len(dev'.queue)] = dev'.tree
               /\ E[P[0]] = inf.tree
  BY CommitGrows
<1>3. /\ c \in Changes /\ IsChange(c) /\ ~IsNotice(c)
      /\ Len(dev'.queue) = n + 1 /\ dev'.queue \in Seq(Changes)
      /\ dev'.queue[n + 1] = c
      /\ \A i \in 1..Len(dev'.queue) : dev'.queue[i].op \in inf.applied <=> i <= P[0]
      /\ \A op \in inf.applied : op <= edits'
  BY CommitGrows
<1>4. /\ dev'.linked = dev.linked /\ dev'.epochLive = dev.epochLive
      /\ dev'.handshake = dev.handshake /\ dev'.awaiting = dev.awaiting
      /\ dev'.cache = {} /\ dev'.tree = ApplyEdit(dev.tree, edit)
      /\ dev'.queue = Append(dev.queue, c)
      /\ drawn' = ApplyEdit(drawn, edit)
      /\ inf' = inf /\ toDev' = toDev /\ wire' = wire /\ sockets' = sockets /\ links' = links
  BY DEF Commits
<1>5. dev.linked /\ dev.epochLive /\ dev.cursor = n /\ Listening /\ inf.last = P[0] /\ P[k] = n
  BY <1>1 DEF LinkOK, MirrorOK
<1>6. /\ dev.queue \in Seq(Changes) /\ n \in Nat /\ k \in Nat /\ toInf \in Seq(InfEvent)
      /\ dev'.queue # <<>> /\ dev'.queue \in Seq(InfEvent)
  <2>1. dev.queue \in Seq(Changes) /\ n \in Nat /\ k \in Nat /\ toInf \in Seq(InfEvent)
    BY Typed
  <2>2. dev'.queue # <<>>
    BY <1>3, <2>1
  <2>3. dev'.queue \in Seq(InfEvent)
    BY <1>3 DEF InfEvent, DeviceMsg
  <2> QED BY <2>1, <2>2, <2>3
<1>0. PICK Q : Q = Onward(P, k, n, n + 1)
  OBVIOUS
<1>7. /\ Reads(toInf', dev'.queue, Q) /\ Len(toInf') = k + 1
      /\ \A i \in 1..k : toInf'[i] = toInf[i]
      /\ toInf'[k + 1] = c
  <2> DEFINE q == dev'.queue
             r == toInf \o SubSeq(q, n + 1, Len(q))
  <2>1. Reads(toInf, q, P)
    BY <1>1, <1>3, <1>4, <1>6, ReadsGrow DEF MirrorOK
  <2>2. n \in 0..Len(q) /\ Len(q) = n + 1 /\ q \in Seq(Changes) /\ q \in Seq(InfEvent)
        /\ q[n + 1] = c
    BY <1>3, <1>6
  <2>3. toInf' = r
    BY <1>3
  <2> HIDE DEF q
  <2>4. /\ Reads(r, q, Onward(P, k, n, Len(q)))
        /\ Len(r) = k + (Len(q) - n)
        /\ \A i \in 1..k : r[i] = toInf[i]
        /\ \A i \in (k + 1)..(k + (Len(q) - n)) : r[i] = q[n + (i - k)]
    <3>1. toInf \in Seq(InfEvent) /\ P[Len(toInf)] = n
      BY <1>5, <1>6
    <3> HIDE DEF n
    <3> QED BY <2>1, <2>2, <3>1, ReadsRun
  <2> HIDE DEF r, n, k
  <2>5. Len(q) - n = 1 /\ k + 1 \in (k + 1)..(k + (Len(q) - n)) /\ n + ((k + 1) - k) = n + 1
    BY <1>6, <2>2
  <2>6. r[k + 1] = c
    BY <2>2, <2>4, <2>5
  <2> QED BY <1>0, <2>2, <2>3, <2>4, <2>5, <2>6 DEF q
<1> HIDE DEF k, n
<1>8. /\ \A i \in 0..k : Q[i] = P[i]
      /\ Q[k + 1] = n + 1 /\ 0 \in 0..k
  <2> DEFINE x == k + 1
  <2>1. \A i \in 0..x : Q[i] = IF i <= k THEN P[i] ELSE n + (i - k)
    <3>1. k + ((n + 1) - n) = x
      BY <1>6
    <3> HIDE DEF x
    <3> QED BY <1>0, <3>1 DEF Onward
  <2>2. x \in 0..x /\ ~(x <= k) /\ n + (x - k) = n + 1
    BY <1>6
  <2>3. \A i \in 0..k : i \in 0..x /\ i <= k
    BY <1>6
  <2>4. 0 \in 0..k
    BY <1>6
  <2> HIDE DEF x
  <2>5. Q[x] = n + 1
    BY <2>1, <2>2
  <2> QED BY <2>1, <2>3, <2>4, <2>5 DEF x
<1>9. \A i \in 1..(k + 1) : i = k + 1 \/ (i \in 1..k /\ i \in 0..k)
  BY <1>6
<1>10. Listening'
  <2>1. toInf # <<>> => toInf'[1] = toInf[1] /\ toInf' # <<>>
    <3> SUFFICES ASSUME toInf # <<>> PROVE toInf'[1] = toInf[1] /\ toInf' # <<>>
      OBVIOUS
    <3>1. 1 \in 1..k
      BY <1>6 DEF k
    <3>2. toInf' # <<>>
      <4>1. Len(toInf') # 0 /\ Len(<<>>) = 0
        BY <1>6, <1>7
      <4> QED BY <4>1, Zenon
    <3> QED BY <3>1, <3>2, <1>7
  <2> QED BY <2>1, <1>4, <1>5 DEF Listening
<1>11. LinkOK'
  BY <1>1, <1>4, <1>5, <1>6, <1>10 DEF LinkOK
<1>12. EventsOK(Q)'
  <2> DEFINE Simple(i, e) ==
        /\ e.type = "open" => i = 1 /\ e.n = 1
        /\ e.type # "close"
        /\ e.type = "hello" => e.lastSeq = e.queued /\ e.doc = {} /\ Q[i] = 0
        /\ e.type # "queue_empty"
  <2> SUFFICES ASSUME NEW i \in 1..(k + 1) PROVE Simple(i, toInf'[i])
    <3>1. \A i \in 1..(k + 1) : Simple(i, toInf'[i])
      OBVIOUS
    <3>2. dev'.epochLive /\ Listening' /\ Len(toInf') = k + 1
      BY <1>4, <1>5, <1>7, <1>10
    <3> QED BY <3>1, <3>2 DEF EventsOK
  <2>1. CASE i = k + 1
    BY <2>1, <1>3, <1>7 DEF IsChange
  <2>2. CASE i \in 1..k /\ i \in 0..k
    <3>1. toInf'[i] = toInf[i] /\ Q[i] = P[i]
      BY <2>2, <1>7, <1>8
    <3>2. /\ toInf[i].type = "open" => i = 1 /\ toInf[i].n = 1
          /\ toInf[i].type # "close"
          /\ toInf[i].type = "hello" => toInf[i].lastSeq = toInf[i].queued /\ toInf[i].doc = {} /\ P[i] = 0
          /\ toInf[i].type # "queue_empty"
      BY <1>1, <1>5, <2>2 DEF EventsOK, k
    <3> QED BY <3>1, <3>2
  <2> QED BY <2>1, <2>2, <1>9
<1>13. LoadsOK(Q)'
  BY <1>4, <1>5 DEF LoadsOK
<1>14. MirrorOK(E, Q)'
  <2>1. Q[0] = P[0] /\ Q[Len(toInf')] = dev'.cursor
    BY <1>3, <1>7, <1>8
  <2> QED BY <1>1, <1>2, <1>3, <1>4, <1>5, <1>7, <2>1 DEF MirrorOK
<1> QED BY <1>11, <1>12, <1>13, <1>14 DEF J

-----------------------------------------------------------------------------
(***************************************************************************)
(* Steps of the mirror.  The reading of the events left is the old one,    *)
(* one event later.                                                        *)
(***************************************************************************)
Later(P, k) == [i \in 0..(k - 1) |-> P[i + 1]]

\* One event is taken, and the tablet's side and the link stay.
Takes ==
    /\ toInf # <<>> /\ toInf' = Tail(toInf)
    /\ dev' = dev /\ wire' = wire /\ sockets' = sockets
    /\ drawn' = drawn /\ edits' = edits /\ links' = links
    /\ ~wire => toDev' = toDev

\* The reading of what is left.
LEMMA TakeReads ==
    ASSUME Inv, NEW D, NEW P, J(D, P), Takes
    PROVE  /\ Reads(toInf', dev.queue, Later(P, Len(toInf)))
           /\ Len(toInf) \in Nat \ {0} /\ Len(toInf') = Len(toInf) - 1
           /\ toInf[1] = Head(toInf) /\ toInf[1] \in InfEvent
           /\ \A i \in 1..(Len(toInf) - 1) : toInf'[i] = toInf[i + 1] /\ i + 1 \in 1..Len(toInf)
           /\ \A i \in 0..(Len(toInf) - 1) : Later(P, Len(toInf))[i] = P[i + 1]
           /\ Later(P, Len(toInf))[0] = P[1]
           /\ Later(P, Len(toInf))[Len(toInf')] = P[Len(toInf)]
<1> DEFINE k == Len(toInf)
<1>1. toInf \in Seq(InfEvent) /\ toInf # <<>> /\ toInf' = Tail(toInf) /\ dev.queue \in Seq(Changes)
  BY Typed DEF Takes
<1>2. /\ k \in Nat \ {0} /\ Len(Tail(toInf)) = k - 1 /\ Head(toInf) = toInf[1] /\ Head(toInf) \in InfEvent
      /\ \A i \in 1..(k - 1) : Tail(toInf)[i] = toInf[i + 1] /\ i + 1 \in 1..k
  BY <1>1, TailIs
<1>3. Reads(Tail(toInf), dev.queue, Later(P, k))
  <2>1. Reads(toInf, dev.queue, P)
    BY DEF J, MirrorOK
  <2> QED BY <1>1, <2>1, ReadsTail DEF Later
<1>4. \A i \in 0..(k - 1) : Later(P, k)[i] = P[i + 1]
  BY DEF Later
<1>5. Later(P, k)[0] = P[1] /\ Later(P, k)[k - 1] = P[k]
  <2> HIDE DEF k
  <2>1. 0 \in 0..(k - 1) /\ k - 1 \in 0..(k - 1) /\ (k - 1) + 1 = k /\ 0 + 1 = 1
    BY <1>2
  <2> DEFINE x == k - 1
  <2> HIDE DEF x
  <2>2. 0 \in 0..x /\ x \in 0..x /\ x + 1 = k /\ \A i \in 0..x : Later(P, k)[i] = P[i + 1]
    BY <1>4, <2>1 DEF x
  <2>3. Later(P, k)[0] = P[1] /\ Later(P, k)[x] = P[k]
    BY <2>2
  <2> QED BY <2>3 DEF x
<1>6. Later(P, k)[Len(toInf')] = P[k]
  BY <1>1, <1>2, <1>5
<1> QED BY <1>1, <1>2, <1>3, <1>4, <1>5, <1>6

\* The mirror hears the events that are left.
LEMMA TakeListens ==
    ASSUME Inv, NEW D, NEW P, J(D, P), Takes,
           IF IsNotice(toInf[1]) THEN inf'.connected <=> toInf[1].n > 0
           ELSE inf'.connected = inf.connected
    PROVE  inf'.connected \/ (Len(toInf) = 1 /\ ~wire)
<1>1. 1 \in 1..Len(toInf) /\ toInf[1] \in InfEvent
  BY TakeReads
<1>2. LET e == toInf[1] IN
      /\ e.type = "open" => e.n = 1
      /\ e.type = "close" => 1 = Len(toInf) /\ ~wire
      /\ ~IsNotice(e) => Listening
  BY <1>1 DEF J, EventsOK
<1>3. CASE toInf[1].type = "open"
  <2>1. 1 > 0
    OBVIOUS
  <2> QED BY <1>2, <1>3, <2>1 DEF IsNotice
<1>4. CASE toInf[1].type = "close"
  BY <1>2, <1>4
<1>5. CASE ~IsNotice(toInf[1])
  BY <1>2, <1>5 DEF IsNotice, Listening
<1> QED BY <1>3, <1>4, <1>5 DEF IsNotice

\* The link and the events that are left.
LEMMA TakeLink ==
    ASSUME Inv, NEW D, NEW P, J(D, P), Takes, inf'.connected \/ (Len(toInf) = 1 /\ ~wire),
           NEW Q, Q = Later(P, Len(toInf))
    PROVE  LinkOK' /\ EventsOK(Q)'
<1> DEFINE k == Len(toInf)
<1>1. LinkOK /\ EventsOK(P)
  BY DEF J
<1>2. /\ k \in Nat \ {0} /\ Len(toInf') = k - 1
      /\ \A i \in 1..(k - 1) : toInf'[i] = toInf[i + 1] /\ i + 1 \in 1..k
      /\ \A i \in 0..(k - 1) : Q[i] = P[i + 1]
      /\ Q[k - 1] = P[k]
  BY TakeReads
<1>3. /\ dev' = dev /\ wire' = wire /\ sockets' = sockets /\ toInf # <<>>
      /\ drawn' = drawn /\ links' = links /\ (~wire => toDev' = toDev)
  BY DEF Takes
<1>4. wire => Listening'
  BY DEF Listening
<1>5. LinkOK'
  BY <1>1, <1>3, <1>4 DEF LinkOK
<1> HIDE DEF k
<1>6. EventsOK(Q)'
  <2> SUFFICES ASSUME NEW i \in 1..(k - 1)
               PROVE  LET e == toInf'[i] IN
        /\ e.type # "open"
        /\ e.type = "close" => i = k - 1 /\ e.n = 0 /\ ~wire /\ sockets = 0
        /\ Listening'
        /\ e.type = "hello" =>
              /\ e.lastSeq = e.queued /\ e.doc = {}
              /\ wire /\ ~dev.epochLive => e.queued = Len(dev.queue)
              /\ Q[i] = 0 \/ (~dev.epochLive /\ Q[i] = Q[k - 1])
        /\ e.type = "queue_empty" =>
              /\ ~dev.epochLive /\ Q[i] = Q[k - 1]
              /\ wire => dev.cursor = Len(dev.queue) /\ dev.queue # <<>>
              /\ \A j \in 1..(k - 1) : toInf'[j].type = "queue_empty" => j = i
    BY <1>2, <1>3 DEF EventsOK
  <2>1. toInf'[i] = toInf[i + 1] /\ i + 1 \in 1..k /\ i + 1 # 1 /\ Q[i] = P[i + 1] /\ Q[k - 1] = P[k]
        /\ (i + 1 = k <=> i = k - 1)
    <3>1. i \in 0..(k - 1) /\ i + 1 # 1 /\ (i + 1 = k <=> i = k - 1)
      BY <1>2
    <3> QED BY <3>1, <1>2
  <2>2. Listening'
    <3>1. k # 1
      BY <1>2
    <3> QED BY <3>1 DEF Listening, k
  <2>3. \A j \in 1..(k - 1) : /\ toInf'[j] = toInf[j + 1] /\ j + 1 \in 1..k
                              /\ (j + 1 = i + 1 => j = i)
    <3> TAKE j \in 1..(k - 1)
    <3>1. j + 1 = i + 1 => j = i
      OBVIOUS
    <3> QED BY <3>1, <1>2
  <2>4. LET e == toInf[i + 1] IN
        /\ e.type = "open" => i + 1 = 1
        /\ e.type = "close" => i + 1 = k /\ e.n = 0 /\ ~wire /\ sockets = 0
        /\ e.type = "hello" =>
              /\ e.lastSeq = e.queued /\ e.doc = {}
              /\ wire /\ ~dev.epochLive => e.queued = Len(dev.queue)
              /\ P[i + 1] = 0 \/ (~dev.epochLive /\ P[i + 1] = P[k])
        /\ e.type = "queue_empty" =>
              /\ ~dev.epochLive /\ P[i + 1] = P[k]
              /\ wire => dev.cursor = Len(dev.queue) /\ dev.queue # <<>>
              /\ \A j \in 1..k : toInf[j].type = "queue_empty" => j = i + 1
    BY <1>1, <2>1 DEF EventsOK, k
  <2>5. toInf'[i].type = "queue_empty" =>
            \A j \in 1..(k - 1) : toInf'[j].type = "queue_empty" => j = i
    BY <2>1, <2>3, <2>4
  <2> QED BY <2>1, <2>2, <2>4, <2>5
<1> QED BY <1>5, <1>6

\* Anything but a change leaves the mirror's copy alone.
LEMMA TakeOther ==
    ASSUME Inv, NEW D, NEW P, J(D, P), Takes, inf'.connected \/ (Len(toInf) = 1 /\ ~wire),
           ~IsChange(toInf[1]), SameCopy(inf, inf'),
           inf'.last \in {inf.last, 0},
           P[0] < P[Len(toInf)] \/ (wire /\ dev.epochLive) => inf'.last = P[0],
           NEW Q, Q = Later(P, Len(toInf)), Among(toDev', toDev) \/ LoadsOK(Q)'
    PROVE  J(D, Q)'
<1> DEFINE k == Len(toInf)
<1>1. LoadsOK(P) /\ MirrorOK(D, P)
  BY DEF J
<1>2. /\ dev' = dev /\ wire' = wire /\ edits' = edits
  BY DEF Takes
<1>3. /\ Reads(toInf', dev.queue, Q) /\ k \in Nat \ {0} /\ Len(toInf') = k - 1
      /\ Q[0] = P[1] /\ Q[Len(toInf')] = P[k]
      /\ \A i \in 1..(k - 1) : toInf'[i] = toInf[i + 1] /\ i + 1 \in 1..k
  BY TakeReads
<1>4. P[1] = P[0]
  <2>1. 1 \in 1..k /\ 1 - 1 = 0
    BY <1>3
  <2> QED BY <2>1, ReadingIs
<1>5. LinkOK' /\ EventsOK(Q)'
  BY TakeLink
<1>6. LoadsOK(Q)'
  <2>1. ASSUME Among(toDev', toDev) PROVE LoadsOK(Q)'
    <3> SUFFICES ASSUME NEW i \in 1..Len(toDev'), toDev'[i].type = "doc_load", ~dev.epochLive
                 PROVE  /\ Q[0] = Len(dev.queue) /\ toDev'[i].doc = inf'.tree /\ inf'.last = 0
                        /\ \A j \in 1..(k - 1) : toInf'[j].type # "queue_empty"
      BY <1>2, <1>3 DEF LoadsOK
    <3>1. PICK j \in 1..Len(toDev) : toDev'[i] = toDev[j]
      BY <2>1 DEF Among
    <3>2. /\ P[0] = Len(dev.queue) /\ toDev[j].doc = inf.tree /\ inf.last = 0
          /\ \A x \in 1..k : toInf[x].type # "queue_empty"
      BY <3>1, <1>1 DEF LoadsOK
    <3>3. \A x \in 1..(k - 1) : toInf'[x].type # "queue_empty"
      BY <1>3, <3>2
    <3>4. inf'.tree = inf.tree /\ inf'.last = 0
      BY <3>2 DEF SameCopy
    <3> HIDE DEF k
    <3> QED BY <3>1, <3>2, <3>3, <3>4, <1>3, <1>4
  <2> QED BY <2>1
<1>7. MirrorOK(D, Q)'
  BY <1>1, <1>2, <1>3, <1>4 DEF MirrorOK, SameCopy
<1> QED BY <1>5, <1>6, <1>7 DEF J

\* The next change of the queue: it is new, it follows, and it applies.
LEMMA NextChange ==
    ASSUME Inv, NEW D, NEW P, J(D, P), toInf # <<>>, IsChange(toInf[1])
    PROVE  /\ toInf[1] \in Changes /\ inf.connected /\ toInf[1].op \notin inf.applied
           /\ toInf[1].base = inf.last /\ Applies(inf.tree, toInf[1].edit)
           /\ P[1] = P[0] + 1 /\ P[1] \in 1..Len(dev.queue) /\ toInf[1] = dev.queue[P[1]]
           /\ toInf[1].seq = P[1] /\ P[0] \in 0..Len(dev.queue)
           /\ D[P[1]] = ApplyEdit(inf.tree, toInf[1].edit)
<1> DEFINE k == Len(toInf)
           n == Len(dev.queue)
<1>1. LinkOK /\ EventsOK(P) /\ MirrorOK(D, P)
  BY DEF J
<1>2. toInf \in Seq(InfEvent) /\ k \in Nat \ {0} /\ n \in Nat
  BY Typed
<1>3. /\ P[0] \in 0..n /\ P[1] \in 0..n /\ P[1] = P[0] + 1 /\ toInf[1] = dev.queue[P[1]] /\ P[1] <= P[k]
      /\ P[k] \in 0..n
  <2>1. 1 \in 1..k /\ 1 - 1 = 0 /\ 0 \in 0..k /\ 1 \in 0..k /\ k \in 0..k
    BY <1>2
  <2> HIDE DEF k, n
  <2>2. /\ \A i \in 0..k : P[i] \in 0..n /\ P[i] <= P[k]
        /\ \A i \in 1..k : IF IsChange(toInf[i]) THEN P[i] = P[i - 1] + 1 /\ toInf[i] = dev.queue[P[i]]
                           ELSE P[i] = P[i - 1]
    BY ReadingIs DEF k, n
  <2> QED BY <2>1, <2>2
<1> DEFINE p == P[1]
<1>4. p \in 1..n /\ p - 1 = P[0] /\ p # 0 /\ ~(p <= P[0]) /\ P[0] < P[k]
  <2> HIDE DEF n
  <2> QED BY <1>2, <1>3
<1>5. toInf[1] \in Changes /\ toInf[1].seq = p /\ toInf[1].base = P[0] /\ toInf[1].op \notin inf.applied
  <2>1. dev.queue \in Seq(Changes)
    BY Typed
  <2>2. dev.queue[p] \in Changes
    BY <1>4, <2>1, QueueOfChanges
  <2>3. dev.queue[p].seq = p /\ dev.queue[p].base = P[0]
    BY <1>4, Typed
  <2>4. dev.queue[p].op \notin inf.applied
    BY <1>1, <1>4 DEF MirrorOK
  <2> QED BY <1>3, <2>2, <2>3, <2>4
<1>6. inf.connected
  <2>1. ~IsNotice(toInf[1]) /\ toInf[1].type # "open"
    BY DEF IsChange, IsNotice
  <2>2. 1 \in 1..k
    BY <1>2
  <2>3. Listening
    BY <1>1, <2>1, <2>2 DEF EventsOK
  <2> QED BY <2>1, <2>3 DEF Listening
<1>7. inf.last = P[0]
  BY <1>1, <1>4 DEF MirrorOK
<1>8. Applies(inf.tree, toInf[1].edit) /\ D[p] = ApplyEdit(inf.tree, toInf[1].edit)
  <2>1. Applies(D[p - 1], dev.queue[p].edit) /\ D[p] = ApplyEdit(D[p - 1], dev.queue[p].edit)
    BY <1>1, <1>4 DEF MirrorOK, Runs
  <2>2. D[p - 1] = inf.tree
    BY <1>1, <1>4 DEF MirrorOK
  <2> QED BY <1>3, <2>1, <2>2
<1> QED BY <1>3, <1>4, <1>5, <1>6, <1>7, <1>8

\* The next change of the queue is read.
LEMMA TakeChange ==
    ASSUME Inv, NEW D, NEW P, J(D, P), Takes, IsChange(toInf[1]), toDev' = toDev,
           inf'.connected, ~inf'.suspect, inf'.last = toInf[1].seq,
           inf'.tree = ApplyEdit(inf.tree, toInf[1].edit),
           inf'.applied = inf.applied \cup {toInf[1].op},
           NEW Q, Q = Later(P, Len(toInf))
    PROVE  Shows(P[0]) /\ J(D, Q)'
<1> DEFINE k == Len(toInf)
           n == Len(dev.queue)
<1>1. LinkOK /\ LoadsOK(P) /\ MirrorOK(D, P)
  BY DEF J
<1>2. /\ dev' = dev /\ wire' = wire /\ edits' = edits /\ toInf # <<>>
  BY DEF Takes
<1>3. /\ Reads(toInf', dev.queue, Q) /\ Q[0] = P[1] /\ Q[Len(toInf')] = P[k]
  BY TakeReads
<1>4. /\ P[1] = P[0] + 1 /\ P[1] \in 1..n /\ P[0] \in 0..n /\ inf'.last = P[1]
      /\ inf'.tree = D[P[1]] /\ toInf[1].op = dev.queue[P[1]].op
  BY <1>2, NextChange
<1>5. LinkOK' /\ EventsOK(Q)'
  BY TakeLink
<1>6. LoadsOK(Q)'
  <2>1. P[0] # n
    <3>1. n \in Nat
      BY Typed
    <3> HIDE DEF n
    <3> QED BY <1>4, <3>1
  <2> QED BY <2>1, <1>1, <1>2 DEF LoadsOK
<1>7. \A i \in 1..n : dev.queue[i].op \in inf'.applied <=> i <= P[1]
  <2>1. \A i \in 1..n : dev.queue[i].op \in inf.applied <=> i <= P[0]
    BY <1>1 DEF MirrorOK
  <2>2. \A i \in 1..n : dev.queue[i].op = dev.queue[P[1]].op <=> i = P[1]
    <3>1. \A i, j \in 1..n : i < j => dev.queue[i].op < dev.queue[j].op
      BY DEF Inv, QueueShape, QueueShaped
    <3>2. \A i \in 1..n : dev.queue[i].op \in Nat
      <4> TAKE i \in 1..n
      <4>1. dev.queue[i] \in Changes
        BY Typed, QueueOfChanges
      <4> QED BY <4>1 DEF Changes
    <3>3. n \in Nat
      BY Typed
    <3> HIDE DEF n
    <3> TAKE i \in 1..n
    <3>4. i < P[1] \/ i = P[1] \/ P[1] < i
      BY <1>4, <3>3
    <3>5. dev.queue[i].op \in Nat /\ dev.queue[P[1]].op \in Nat
      BY <1>4, <3>2
    <3>6. (i < P[1] => dev.queue[i].op < dev.queue[P[1]].op) /\ (P[1] < i => dev.queue[P[1]].op < dev.queue[i].op)
      BY <1>4, <3>1
    <3> QED BY <3>4, <3>5, <3>6
  <2>3. \A i \in 1..n : i <= P[1] <=> i <= P[0] \/ i = P[1]
    <3>1. n \in Nat
      BY Typed
    <3> HIDE DEF n
    <3> QED BY <1>4, <3>1
  <2> HIDE DEF n
  <2> TAKE i \in 1..n
  <2> QED BY <2>1, <2>2, <2>3, <1>4
<1>8. \A op \in inf'.applied : op <= edits
  <2>1. dev.queue[P[1]].op <= edits
    BY <1>4, Typed
  <2> QED BY <2>1, <1>1, <1>4 DEF MirrorOK
<1>9. MirrorOK(D, Q)'
  BY <1>1, <1>2, <1>3, <1>4, <1>7, <1>8 DEF MirrorOK
<1>10. Shows(P[0])
  <2>1. toInf[1] = dev.queue[P[1]]
    BY <1>2, NextChange
  <2>2. P[0] + 1 = P[1]
    BY <1>4
  <2> QED BY <1>2, <1>4, <1>7, <2>1, <2>2 DEF Shows
<1> QED BY <1>5, <1>6, <1>9, <1>10 DEF J

\* A line is written to the tablet; if it is a load, it loads what the tablet has.
LEMMA SaidLoads ==
    ASSUME Inv, NEW D, NEW P, J(D, P), Takes, ~IsChange(toInf[1]), SameCopy(inf, inf'),
           inf'.last \in {inf.last, 0}, NEW msg \in MirrorMsg, toDev' = Append(toDev, msg),
           msg.type = "doc_load" /\ ~dev.epochLive =>
               /\ P[0] = Len(dev.queue) /\ msg.doc = inf.tree /\ inf'.last = 0
               /\ \A j \in 1..Len(toInf') : toInf'[j].type # "queue_empty",
           NEW Q, Q = Later(P, Len(toInf))
    PROVE  LoadsOK(Q)'
<1> DEFINE k == Len(toInf)
           t == Len(toDev)
<1>1. LoadsOK(P)
  BY DEF J
<1>2. /\ dev' = dev
  BY DEF Takes
<1>3. /\ k \in Nat \ {0} /\ Len(toInf') = k - 1 /\ Q[0] = P[1]
      /\ \A i \in 1..(k - 1) : toInf'[i] = toInf[i + 1] /\ i + 1 \in 1..k
  BY TakeReads
<1>4. P[1] = P[0]
  <2>1. 1 \in 1..k /\ 1 - 1 = 0
    BY <1>3
  <2> QED BY <2>1, ReadingIs
<1>5. Len(toDev') = t + 1 /\ toDev'[t + 1] = msg /\ \A i \in 1..t : toDev'[i] = toDev[i]
  <2>1. toDev \in Seq(MirrorMsg)
    BY Typed
  <2> QED BY <2>1
<1>6. t \in Nat
  BY Typed
<1> HIDE DEF t, k
<1> SUFFICES ASSUME NEW i \in 1..(t + 1), toDev'[i].type = "doc_load", ~dev.epochLive
             PROVE  /\ Q[0] = Len(dev.queue) /\ toDev'[i].doc = inf'.tree /\ inf'.last = 0
                    /\ \A j \in 1..Len(toInf') : toInf'[j].type # "queue_empty"
  BY <1>2, <1>5 DEF LoadsOK
<1>7. CASE i = t + 1
  BY <1>3, <1>4, <1>5, <1>7 DEF SameCopy
<1>8. CASE i # t + 1
  <2>1. i \in 1..t
    BY <1>6, <1>8
  <2>2. /\ P[0] = Len(dev.queue) /\ toDev[i].doc = inf.tree /\ inf.last = 0
        /\ \A x \in 1..k : toInf[x].type # "queue_empty"
    BY <2>1, <1>1, <1>5 DEF LoadsOK, k, t
  <2>3. inf'.tree = inf.tree /\ inf'.last = 0 /\ toDev'[i] = toDev[i]
    BY <2>1, <2>2, <1>5 DEF SameCopy
  <2>4. \A j \in 1..Len(toInf') : toInf'[j].type # "queue_empty"
    <3> SUFFICES ASSUME NEW j \in 1..(k - 1) PROVE toInf'[j].type # "queue_empty"
      BY <1>3
    <3>1. toInf'[j] = toInf[j + 1] /\ j + 1 \in 1..k
      BY <1>3
    <3> QED BY <2>2, <3>1
  <2> QED BY <2>2, <2>3, <2>4, <1>3, <1>4
<1> QED BY <1>7, <1>8

\* The mirror reads the next event.
LEMMA MirrorReceivesStep ==
    ASSUME Inv, NEW D, NEW P, J(D, P), MirrorReceives
    PROVE  Moves(P[0]) /\ \E Q : J(D, Q)'
<1> DEFINE k == Len(toInf)
           event == Head(toInf)
           m == IF IsNotice(event) THEN HandleRmClient(inf, event.n)
                ELSE ReceiveLine(inf, event)
<1>0. PICK Q : Q = Later(P, k)
  OBVIOUS
<1>1. LinkOK /\ EventsOK(P) /\ LoadsOK(P) /\ MirrorOK(D, P)
  BY DEF J
<1>2. /\ toInf \in Seq(InfEvent) /\ toInf # <<>> /\ toDev \in Seq(MirrorMsg)
      /\ inf \in MirrorState /\ inf.out = <<>>
  BY Typed DEF MirrorReceives
<1>3. event \in InfEvent /\ event = toInf[1] /\ (~IsNotice(event) => event \in DeviceMsg)
      /\ (IsNotice(event) => event \in Notices)
  <2>1. event \in InfEvent /\ event = toInf[1]
    BY <1>2
  <2> QED BY <2>1 DEF IsNotice, InfEvent, Notices, DeviceMsg, Changes, Hellos, Signals
<1>4. m \in MirrorState
  BY <1>2, <1>3, ClientTyped, LineTyped
<1>5. inf' = [m EXCEPT !.out = <<>>] /\ toDev' = IF wire THEN toDev \o m.out ELSE toDev
  BY DEF MirrorReceives, MirrorRan
<1>6. Takes
  BY <1>5 DEF MirrorReceives, Takes, budget
<1> HIDE DEF m
<1>7. /\ inf'.connected = m.connected /\ inf'.last = m.last /\ inf'.tree = m.tree
      /\ inf'.applied = m.applied /\ inf'.suspect = m.suspect
  BY <1>4, <1>5 DEF MirrorState
<1>8. m.out = <<>> => toDev' = toDev /\ Among(toDev', toDev)
  BY <1>2, <1>5 DEF Among
<1>9. ASSUME NEW msg, wire, m.out = Append(<<>>, msg) PROVE toDev' = Append(toDev, msg)
  <2>1. Append(<<>>, msg) = <<msg>>
    OBVIOUS
  <2>2. toDev \o <<msg>> = Append(toDev, msg)
    BY <1>2
  <2> QED BY <1>5, <1>9, <2>1, <2>2
<1>10. ~wire => toDev' = toDev /\ Among(toDev', toDev)
  BY <1>5 DEF Among
<1>11. /\ 1 \in 1..k /\ 0 \in 0..k /\ k \in Nat \ {0} /\ Len(toInf') = k - 1
       /\ \A i \in 1..(k - 1) : toInf'[i] = toInf[i + 1] /\ i + 1 \in 1..k
  BY <1>6, TakeReads
<1>17. dev' = dev
  BY <1>6 DEF Takes
<1>12. CASE IsNotice(event)
  <2>1. m = HandleRmClient(inf, event.n) /\ event.n \in Nat
    BY <1>3, <1>12 DEF m, Notices
  <2>2. SameCopy(inf, m) /\ m.last = inf.last /\ m.out = <<>> /\ (m.connected <=> event.n > 0)
    BY <1>2, <2>1, ClientEffect
  <2>3. ~IsChange(event)
    BY <1>12 DEF IsNotice, IsChange
  <2>4. inf'.connected \/ (Len(toInf) = 1 /\ ~wire)
    BY <1>3, <1>6, <1>7, <1>12, <2>2, TakeListens
  <2>5. SameCopy(inf, inf') /\ inf'.last = inf.last
    BY <1>7, <2>2 DEF SameCopy
  <2>6. J(D, Q)'
    <3>1. P[0] < P[k] \/ (wire /\ dev.epochLive) => inf'.last = P[0]
      BY <1>1, <2>5 DEF MirrorOK
    <3> QED BY <1>0, <1>3, <1>6, <1>8, <2>2, <2>3, <2>4, <2>5, <3>1, TakeOther
  <2> QED BY <1>17, <2>5, <2>6 DEF SameCopy, Still, Moves
<1>13. CASE ~IsNotice(event) /\ event.type = "hello"
  <2>1. m = ReceiveHello(inf, event) /\ event \in Hellos
    BY <1>3, <1>13 DEF m, ReceiveLine, DeviceMsg, Changes, Signals
  <2>2. /\ event.lastSeq = event.queued /\ event.doc = {}
        /\ wire /\ ~dev.epochLive => event.queued = Len(dev.queue)
        /\ P[1] = 0 \/ (~dev.epochLive /\ P[1] = P[k])
    BY <1>1, <1>3, <1>11, <1>13 DEF EventsOK
  <2>3. /\ SameCopy(inf, m) /\ m.connected = inf.connected /\ m.last \in {inf.last, 0}
        /\ \/ m.out = <<>>
           \/ m.out = Append(<<>>, DrainAckMsg)
           \/ m.out = Append(<<>>, DocLoadMsg(inf.tree)) /\ event.queued = 0
    BY <1>2, <2>1, <2>2, HelloMirrored
  <2>4. ~IsChange(event)
    BY <1>13 DEF IsChange
  <2>5. inf'.connected \/ (Len(toInf) = 1 /\ ~wire)
    BY <1>3, <1>6, <1>7, <1>13, <2>3, TakeListens
  <2>6. SameCopy(inf, inf') /\ inf'.last \in {inf.last, 0}
    BY <1>7, <2>3 DEF SameCopy
  <2>7. P[1] = P[0]
    <3>1. 1 - 1 = 0
      OBVIOUS
    <3> QED BY <1>3, <1>11, <2>4, <3>1, ReadingIs
  <2>8. P[0] \in Nat /\ P[k] \in Nat /\ P[0] <= Len(dev.queue) /\ inf.last \in {0, P[0]}
    <3>1. P[0] \in 0..Len(dev.queue) /\ P[k] \in 0..Len(dev.queue) /\ Len(dev.queue) \in Nat
      <4>1. k \in 0..k
        BY <1>11
      <4> QED BY <1>11, <4>1, ReadingIs, Typed
    <3> QED BY <1>1, <3>1 DEF MirrorOK
  <2>9. P[0] < P[k] \/ (wire /\ dev.epochLive) => inf'.last = P[0]
    BY <1>1, <2>2, <2>6, <2>7, <2>8 DEF MirrorOK
  <2>10. Among(toDev', toDev) \/ LoadsOK(Q)'
    <3>1. CASE ~wire \/ m.out = <<>>
      BY <1>8, <1>10, <3>1
    <3>2. CASE wire /\ m.out = Append(<<>>, DrainAckMsg)
      <4>1. toDev' = Append(toDev, DrainAckMsg)
        BY <1>9, <3>2
      <4>2. DrainAckMsg \in MirrorMsg /\ DrainAckMsg.type # "doc_load"
        BY DEF DrainAckMsg, MirrorMsg
      <4> QED BY <1>0, <1>3, <1>6, <2>4, <2>6, <4>1, <4>2, SaidLoads
    <3>3. CASE wire /\ m.out = Append(<<>>, DocLoadMsg(inf.tree)) /\ event.queued = 0
      <4>1. toDev' = Append(toDev, DocLoadMsg(inf.tree))
        BY <1>9, <3>3
      <4>2. /\ DocLoadMsg(inf.tree) \in MirrorMsg
            /\ DocLoadMsg(inf.tree).doc = inf.tree
        BY Typed DEF DocLoadMsg, MirrorMsg
      <4>3. ASSUME ~dev.epochLive
            PROVE  /\ P[0] = Len(dev.queue) /\ inf'.last = 0
                   /\ \A j \in 1..Len(toInf') : toInf'[j].type # "queue_empty"
        <5>1. Len(dev.queue) = 0 /\ dev.queue = <<>>
          BY <2>2, <3>3, <4>3, Typed
        <5>2. P[0] = 0 /\ inf'.last = 0
          BY <2>6, <2>8, <5>1
        <5>3. \A j \in 1..k : toInf[j].type # "queue_empty"
          BY <1>1, <3>3, <5>1 DEF EventsOK
        <5>4. \A j \in 1..Len(toInf') : toInf'[j].type # "queue_empty"
          BY <1>11, <5>3
        <5> QED BY <5>1, <5>2, <5>4
      <4> QED BY <1>0, <1>3, <1>6, <2>4, <2>6, <4>1, <4>2, <4>3, SaidLoads
    <3> QED BY <2>3, <3>1, <3>2, <3>3
  <2>11. J(D, Q)'
    BY <1>0, <1>3, <1>6, <2>4, <2>5, <2>6, <2>9, <2>10, TakeOther
  <2> QED BY <1>17, <2>6, <2>11 DEF SameCopy, Still, Moves
<1>14. CASE ~IsNotice(event) /\ event.type = "queue_empty"
  <2>1. m = ReceiveQueueEmpty(inf)
    BY <1>14 DEF m, ReceiveLine
  <2>2. /\ ~dev.epochLive /\ P[1] = P[k]
        /\ wire => dev.cursor = Len(dev.queue)
        /\ \A j \in 1..k : toInf[j].type = "queue_empty" => j = 1
    BY <1>1, <1>3, <1>11, <1>14 DEF EventsOK
  <2>3. /\ SameCopy(inf, m) /\ m.connected = inf.connected
        /\ \/ m.out = <<>> /\ m.last = inf.last
           \/ m.out = Append(<<>>, DocLoadMsg(inf.tree)) /\ m.last = 0
    BY <1>2, <2>1, QueueEmptyMirrored
  <2>4. ~IsChange(event)
    BY <1>14 DEF IsChange
  <2>5. inf'.connected \/ (Len(toInf) = 1 /\ ~wire)
    BY <1>3, <1>6, <1>7, <1>14, <2>3, TakeListens
  <2>6. SameCopy(inf, inf') /\ inf'.last \in {inf.last, 0}
    BY <1>7, <2>3 DEF SameCopy
  <2>7. P[1] = P[0] /\ P[0] \in Nat
    <3>1. 1 - 1 = 0
      OBVIOUS
    <3>2. P[0] \in 0..Len(dev.queue)
      BY <1>11, ReadingIs
    <3> QED BY <1>3, <1>11, <2>4, <3>1, <3>2, ReadingIs
  <2>8. P[0] < P[k] \/ (wire /\ dev.epochLive) => inf'.last = P[0]
    BY <2>2, <2>7
  <2>9. Among(toDev', toDev) \/ LoadsOK(Q)'
    <3>1. CASE ~wire \/ m.out = <<>>
      BY <1>8, <1>10, <3>1
    <3>2. CASE wire /\ m.out = Append(<<>>, DocLoadMsg(inf.tree)) /\ m.last = 0
      <4>1. toDev' = Append(toDev, DocLoadMsg(inf.tree))
        BY <1>9, <3>2
      <4>2. /\ DocLoadMsg(inf.tree) \in MirrorMsg
            /\ DocLoadMsg(inf.tree).doc = inf.tree
        BY Typed DEF DocLoadMsg, MirrorMsg
      <4>3. /\ P[0] = Len(dev.queue) /\ inf'.last = 0
        BY <1>1, <1>7, <2>2, <2>7, <3>2 DEF MirrorOK
      <4>4. \A j \in 1..Len(toInf') : toInf'[j].type # "queue_empty"
        <5> HIDE DEF k
        <5> SUFFICES ASSUME NEW j \in 1..(k - 1), toInf[j + 1].type = "queue_empty" PROVE FALSE
          BY <1>11
        <5>1. j + 1 \in 1..k /\ j + 1 # 1
          BY <1>11
        <5> QED BY <5>1, <2>2
      <4> QED BY <1>0, <1>3, <1>6, <2>4, <2>6, <4>1, <4>2, <4>3, <4>4, SaidLoads
    <3> QED BY <2>3, <3>1, <3>2
  <2>10. J(D, Q)'
    BY <1>0, <1>3, <1>6, <2>4, <2>5, <2>6, <2>8, <2>9, TakeOther
  <2> QED BY <1>17, <2>6, <2>10 DEF SameCopy, Still, Moves
<1>15. CASE ~IsNotice(event) /\ event.type = "load_ack"
  <2>1. m = ReceiveLoadAck(inf)
    BY <1>15 DEF m, ReceiveLine
  <2>2. SameCopy(inf, m) /\ m.connected = inf.connected /\ m.last = inf.last /\ m.out = <<>>
    BY <1>2, <2>1, LoadAckMirrored
  <2>3. ~IsChange(event)
    BY <1>15 DEF IsChange
  <2>4. inf'.connected \/ (Len(toInf) = 1 /\ ~wire)
    BY <1>3, <1>6, <1>7, <1>15, <2>2, TakeListens
  <2>5. SameCopy(inf, inf') /\ inf'.last = inf.last
    BY <1>7, <2>2 DEF SameCopy
  <2>6. P[0] < P[k] \/ (wire /\ dev.epochLive) => inf'.last = P[0]
    BY <1>1, <2>5 DEF MirrorOK
  <2>7. J(D, Q)'
    BY <1>0, <1>3, <1>6, <1>8, <2>2, <2>3, <2>4, <2>5, <2>6, TakeOther
  <2> QED BY <1>17, <2>5, <2>7 DEF SameCopy, Still, Moves
<1>16. CASE ~IsNotice(event) /\ event.type = "doc_change"
  <2>1. m = ReceiveDocChange(inf, event) /\ IsChange(toInf[1])
    BY <1>3, <1>16 DEF m, ReceiveLine, IsChange
  <2>2. /\ event \in Changes /\ inf.connected /\ event.op \notin inf.applied
        /\ event.base = inf.last /\ Applies(inf.tree, event.edit)
    BY <1>2, <1>3, <2>1, NextChange
  <2>3. ~inf.suspect
    BY <1>1 DEF MirrorOK
  <2>4. /\ m.connected = inf.connected /\ m.suspect = inf.suspect /\ m.last = event.seq
        /\ m.tree = ApplyEdit(inf.tree, event.edit)
        /\ m.applied = inf.applied \cup {event.op} /\ m.out = <<>>
    BY <1>2, <2>1, <2>2, <2>3, ChangeMirrored
  <2>5. Shows(P[0]) /\ J(D, Q)'
    BY <1>0, <1>3, <1>6, <1>7, <1>8, <2>1, <2>2, <2>3, <2>4, TakeChange
  <2> QED BY <2>5 DEF Moves
<1>18. IsNotice(event) \/ event.type \in {"hello", "queue_empty", "load_ack", "doc_change"}
  BY <1>3 DEF DeviceMsg, Changes, Hellos, Signals
<1> QED BY <1>12, <1>13, <1>14, <1>15, <1>16, <1>18

-----------------------------------------------------------------------------
(***************************************************************************)
(* The tablet's own steps, and all of them together.                       *)
(***************************************************************************)
\* A handler with nothing to say that leaves the session alone.
LEMMA SilentStep ==
    ASSUME Inv, NEW D, NEW P, J(D, P), NEW d \in DeviceState, Same(dev, d), d.out = <<>>,
           DeviceRan(d), UNCHANGED <<inf, wire, sockets, drawn, edits, links>>,
           Among(toDev', toDev), ~wire => toDev' = <<>>
    PROVE  Still /\ J(D, P)'
<1>1. dev' = [d EXCEPT !.out = <<>>] /\ Same(d, [d EXCEPT !.out = <<>>])
  BY FlagEffect DEF DeviceRan
<1>2. Same(dev, dev')
  BY <1>1 DEF Same
<1>3. toInf' = toInf
  <2>1. toInf \o <<>> = toInf
    BY Typed
  <2> QED BY <2>1 DEF DeviceRan
<1>4. Still
  BY <1>2 DEF Same, Still
<1> QED BY <1>2, <1>3, <1>4, QuietStep

\* The pen goes down or up.
LEMMA FlagStep ==
    ASSUME Inv, NEW D, NEW P, J(D, P),
           BeginGesture \/ AbortGesture \/ BeginPreview \/ EndPreview, ~dev.hasDeferred
    PROVE  Still /\ J(D, P)'
<1>1. dev \in DeviceState /\ dev.out = <<>> /\ Formed(dev, edits) /\ edits \in Nat
  BY Typed DEF Inv, QueueShape, Formed
<1>2. PICK d \in DeviceState : Same(dev, d) /\ d.out = <<>> /\ DeviceRan(d)
  <2>1. CASE BeginGesture
    <3>1. [dev EXCEPT !.gesture = TRUE] \in DeviceState
      BY <1>1, FlagsFormed DEF Formed
    <3> QED BY <1>1, <2>1, <3>1, FlagEffect DEF BeginGesture
  <2>2. CASE AbortGesture
    <3>1. [dev EXCEPT !.gesture = FALSE] \in DeviceState
      BY <1>1, FlagsFormed DEF Formed
    <3> QED BY <1>1, <2>2, <3>1, FlagEffect DEF AbortGesture
  <2>3. CASE BeginPreview
    <3>1. [dev EXCEPT !.preview = TRUE] \in DeviceState
      BY <1>1, FlagsFormed DEF Formed
    <3> QED BY <1>1, <2>3, <3>1, FlagEffect DEF BeginPreview
  <2>4. CASE EndPreview
    <3> DEFINE d == [dev EXCEPT !.preview = FALSE]
    <3>1. d \in DeviceState /\ Same(dev, d) /\ d.out = <<>> /\ d.hasDeferred = dev.hasDeferred
      BY <1>1, FlagsFormed, FlagEffect DEF Formed
    <3>2. EndPreviewStroke(dev) = d
      BY <3>1 DEF EndPreviewStroke, MaybeAcceptDeferredLoad
    <3>3. DeviceRan(EndPreviewStroke(dev))
      BY <2>4 DEF EndPreview
    <3> HIDE DEF d
    <3> QED BY <3>1, <3>2, <3>3
  <2> QED BY <2>1, <2>2, <2>3, <2>4
<1>3. /\ inf' = inf /\ toDev' = toDev /\ wire' = wire /\ sockets' = sockets
      /\ drawn' = drawn /\ edits' = edits /\ links' = links
  BY DEF BeginGesture, AbortGesture, BeginPreview, EndPreview, PenDown, budget
<1>4. Among(toDev', toDev) /\ (~wire => toDev' = <<>>)
  BY <1>3 DEF Among, J, LinkOK
<1> QED BY <1>2, <1>3, <1>4, SilentStep

\* The hello timer fires.
LEMMA RetransmitStep ==
    ASSUME Inv, NEW D, NEW P, J(D, P), RetransmitHello
    PROVE  Still /\ \E Q : J(D, Q)'
<1>1. dev \in DeviceState /\ dev.out = <<>> /\ Formed(dev, edits) /\ edits \in Nat
      /\ toInf \in Seq(InfEvent)
  BY Typed DEF Inv, QueueShape, Formed
<1>2. LinkOK
  BY DEF J
<1>3. /\ inf' = inf /\ toDev' = toDev /\ wire' = wire /\ sockets' = sockets
      /\ drawn' = drawn /\ edits' = edits /\ links' = links
      /\ DeviceRan(RetransmitHelloIfWaiting(dev))
  BY DEF RetransmitHello
<1>4. Among(toDev', toDev) /\ (~wire => toDev' = <<>>)
  BY <1>2, <1>3 DEF Among, LinkOK
<1>5. CASE ~dev.linked \/ dev.epochLive
  <2>1. RetransmitHelloIfWaiting(dev) = dev /\ Same(dev, dev)
    BY <1>5 DEF RetransmitHelloIfWaiting, Same
  <2>2. Still /\ J(D, P)'
    BY <1>1, <1>3, <1>4, <2>1, SilentStep
  <2> QED BY <2>2
<1>6. CASE dev.linked /\ ~dev.epochLive
  <2> DEFINE d == EmitHello(dev)
  <2>1. RetransmitHelloIfWaiting(dev) = d
    BY <1>6 DEF RetransmitHelloIfWaiting
  <2>2. dev.cache = {} /\ (dev.queue = <<>> => dev.tree = {})
    BY <1>2, <1>6 DEF LinkOK
  <2>3. d \in DeviceState
    BY <1>1, EmitHelloFormed DEF Formed
  <2>4. Same(dev, d) /\ d.out = Append(<<>>, HelloWith(dev, {}))
    BY <1>1, <2>2, HelloEffect
  <2> HIDE DEF d
  <2>5. dev' = [d EXCEPT !.out = <<>>] /\ Same(d, [d EXCEPT !.out = <<>>])
        /\ toInf' = IF wire THEN toInf \o d.out ELSE toInf
    BY <1>3, <2>1, <2>3, FlagEffect DEF DeviceRan
  <2>6. Same(dev, dev')
    BY <2>4, <2>5 DEF Same
  <2>9. Still
    BY <1>3, <2>6 DEF Same, Still
  <2>7. CASE wire
    <3>1. toInf \o Append(<<>>, HelloWith(dev, {})) = Append(toInf, HelloWith(dev, {}))
      <4> DEFINE hello == HelloWith(dev, {})
      <4> HIDE DEF hello
      <4>1. Append(<<>>, hello) = <<hello>>
        OBVIOUS
      <4>2. toInf \o <<hello>> = Append(toInf, hello)
        BY <1>1
      <4> QED BY <4>1, <4>2 DEF hello
    <3>2. toInf' = Append(toInf, HelloWith(dev, {}))
      BY <2>4, <2>5, <2>7, <3>1
    <3> QED BY <1>3, <1>6, <2>6, <2>7, <2>9, <3>2, HelloStep
  <2>8. CASE ~wire
    <3>1. J(D, P)'
      BY <1>3, <1>4, <2>5, <2>6, <2>8, QuietStep
    <3> QED BY <2>9, <3>1
  <2> QED BY <2>7, <2>8
<1> QED BY <1>5, <1>6

\* The creator commits.
LEMMA CommitStep ==
    ASSUME EditInHandshake = FALSE, Inv, NEW D, NEW P, J(D, P), Commit, ~dev.hasDeferred
    PROVE  Moves(P[0]) /\ \E E, Q : J(E, Q)'
<1>1. dev \in DeviceState /\ dev.out = <<>> /\ Formed(dev, edits) /\ edits \in Nat
      /\ toInf \in Seq(InfEvent) /\ dev.queue \in Seq(Changes) /\ Len(dev.queue) \in Nat
      /\ dev.cursor \in 0..Len(dev.queue) /\ wire \in BOOLEAN
  BY Typed DEF Inv, QueueShape, Formed
<1>2. LinkOK
  BY DEF J
<1>3. PICK edit \in Edits : /\ Applies(dev.tree, edit)
                            /\ DeviceRan(OnLocalCommit(CommitEdit(dev, edits + 1, edit)))
                            /\ drawn' = ApplyEdit(drawn, edit)
  BY DEF Commit
<1>4. /\ inf' = inf /\ toDev' = toDev /\ wire' = wire /\ sockets' = sockets
      /\ edits' = edits + 1 /\ links' = links /\ ~dev.handshake
  BY DEF Commit
<1> DEFINE c == [type |-> "doc_change", seq |-> dev.lastSeq + 1, base |-> dev.lastSeq,
                 op |-> edits + 1, edit |-> edit]
           e == CommitEdit(dev, edits + 1, edit)
           d == OnLocalCommit(e)
           n == Len(dev.queue)
<1>5. e \in DeviceState /\ d \in DeviceState
  <2>1. Formed(e, edits + 1) /\ edits + 1 \in Nat
    BY <1>1, CommitFormed
  <2>2. Formed(d, edits + 1)
    BY <2>1, LocalCommitFormed
  <2> QED BY <2>1, <2>2 DEF Formed
<1>6. /\ e.linked = dev.linked /\ e.epochLive = dev.epochLive /\ e.handshake = dev.handshake
      /\ e.awaiting = dev.awaiting /\ e.cache = {} /\ ~e.hasDeferred /\ e.cursor = dev.cursor
      /\ e.out = <<>> /\ e.tree = ApplyEdit(dev.tree, edit) /\ e.queue = Append(dev.queue, c)
  <2>1. dev.cache = {}
    BY <1>2 DEF LinkOK
  <2> QED BY <1>1, <2>1, CommitEffect, SMTT(40)
<1> HIDE DEF e, c
<1>7. Len(e.queue) = n + 1 /\ e.cursor < Len(e.queue)
  <2>1. Len(Append(dev.queue, c)) = n + 1
    BY <1>1
  <2> HIDE DEF n
  <2> QED BY <1>1, <1>6, <2>1 DEF n
<1>8. /\ d.linked = dev.linked /\ d.epochLive = dev.epochLive /\ d.handshake = dev.handshake
      /\ d.awaiting = dev.awaiting /\ d.cache = {} /\ d.tree = e.tree /\ d.queue = e.queue
      /\ ~(dev.linked /\ dev.epochLive /\ ~dev.awaiting) => d.out = <<>>
      /\ dev.linked /\ dev.epochLive /\ ~dev.awaiting =>
            /\ d.cursor = Len(e.queue)
            /\ d.out = <<>> \o SubSeq(e.queue, dev.cursor + 1, Len(e.queue))
  BY <1>4, <1>5, <1>6, <1>7, LocalEffect
<1> HIDE DEF d
<1>9. /\ dev' = [d EXCEPT !.out = <<>>] /\ toInf' = IF wire THEN toInf \o d.out ELSE toInf
  BY <1>3 DEF DeviceRan, d, e
<1>10. /\ dev'.linked = d.linked /\ dev'.epochLive = d.epochLive /\ dev'.handshake = d.handshake
       /\ dev'.awaiting = d.awaiting /\ dev'.cache = d.cache /\ dev'.tree = d.tree
       /\ dev'.queue = d.queue /\ dev'.cursor = d.cursor
  BY <1>5, <1>9 DEF DeviceState
<1>11. Commits(edit, c)
  BY <1>3, <1>4, <1>6, <1>8, <1>10 DEF Commits, c
<1>15. Moves(P[0])
  <2>1. /\ c \in Changes /\ c.edit = edit /\ c.op = edits + 1
    <3>1. edits + 1 \in Nat /\ dev.lastSeq \in Nat /\ dev.lastSeq + 1 \in Nat
      BY <1>1, Typed
    <3> QED BY <3>1 DEF c, Changes
  <2>2. c.op \notin inf.applied
    <3>1. \A op \in inf.applied : op <= edits /\ op \in Nat
      BY Typed DEF J, MirrorOK, MirrorState
    <3> QED BY <1>1, <2>1, <3>1
  <2>3. Draws(edit, c)
    BY <1>4, <1>11, <2>1, <2>2 DEF Commits, Draws
  <2> QED BY <2>1, <2>3 DEF Moves
<1>12. dev.linked => dev.epochLive /\ ~dev.awaiting /\ dev.cursor = n
  BY <1>2, <1>4 DEF LinkOK
<1>13. CASE wire
  <2>1. dev.linked
    BY <1>2, <1>13 DEF LinkOK
  <2>2. dev'.cursor = Len(dev'.queue)
    BY <1>8, <1>10, <1>12, <2>1
  <2>3. d.out = SubSeq(e.queue, n + 1, Len(e.queue))
    <3>1. d.out = <<>> \o SubSeq(e.queue, n + 1, Len(e.queue))
      BY <1>8, <1>12, <2>1
    <3>2. e.queue \in Seq(Changes)
      BY <1>5 DEF DeviceState
    <3> HIDE DEF n
    <3>3. n \in Nat
      BY <1>1 DEF n
    <3>4. SubSeq(e.queue, n + 1, Len(e.queue)) \in Seq(Changes)
      BY <1>7, <3>2, <3>3
    <3>5. <<>> \o SubSeq(e.queue, n + 1, Len(e.queue)) = SubSeq(e.queue, n + 1, Len(e.queue))
      BY <3>4
    <3> QED BY <3>1, <3>5
  <2>4. toInf' = toInf \o SubSeq(dev'.queue, Len(dev.queue) + 1, Len(dev'.queue))
    BY <1>8, <1>9, <1>10, <1>13, <2>3
  <2> HIDE DEF n
  <2> QED BY <1>4, <1>11, <1>13, <1>15, <2>2, <2>4, HeardCommitStep
<1>14. CASE ~wire
  <2>1. dev.linked => dev'.cursor = Len(dev'.queue)
    BY <1>8, <1>10, <1>12
  <2>2. toInf' = toInf
    BY <1>9, <1>14
  <2>3. \E E : J(E, P)'
    BY <1>4, <1>11, <1>14, <2>1, <2>2, UnheardCommitStep
  <2> QED BY <1>15, <2>3
<1> QED BY <1>1, <1>13, <1>14

\* The tablet reads the next line.
LEMMA DeviceReceivesStep ==
    ASSUME Inv, NEW D, NEW P, J(D, P), DeviceReceives, ~dev.hasDeferred
    PROVE  Moves(P[0]) /\ \E E, Q : J(E, Q)'
<1> DEFINE k == Len(toInf)
           n == Len(dev.queue)
           msg == Head(toDev)
<1>1. dev \in DeviceState /\ dev.out = <<>> /\ Formed(dev, edits) /\ edits \in Nat
      /\ toInf \in Seq(InfEvent) /\ toDev \in Seq(MirrorMsg) /\ dev.queue \in Seq(Changes)
      /\ n \in Nat /\ k \in Nat /\ dev.cursor \in 0..n
  BY Typed DEF Inv, QueueShape, Formed
<1>2. LinkOK /\ EventsOK(P) /\ LoadsOK(P) /\ MirrorOK(D, P)
  BY DEF J
<1>3. /\ inf' = inf /\ toDev' = Tail(toDev) /\ wire' = wire /\ sockets' = sockets
      /\ drawn' = drawn /\ edits' = edits /\ links' = links /\ wire /\ toDev # <<>>
      /\ DeviceRan(HandleInbound(dev, msg))
  BY DEF DeviceReceives, budget
<1>4. /\ Among(toDev', toDev) /\ msg \in MirrorMsg /\ msg = toDev[1] /\ 1 \in 1..Len(toDev)
  <2>1. Among(Tail(toDev), toDev) /\ Head(toDev) \in MirrorMsg /\ Head(toDev) = toDev[1]
        /\ Len(toDev) \in Nat \ {0}
    BY <1>1, <1>3, TailIs
  <2> QED BY <1>3, <2>1
<1> DEFINE s == DrainQueueThenMarkLegal(dev)
<1>5. /\ s.linked = dev.linked /\ s.epochLive = dev.epochLive /\ s.handshake = dev.handshake
      /\ s.cache = dev.cache /\ s.tree = dev.tree /\ s.queue = dev.queue
      /\ ~s.hasDeferred /\ s.awaiting = FALSE /\ s.cursor = n
      /\ dev.cursor = n => s.out = <<>>
      /\ dev.cursor # n => s.out = Append(<<>> \o SubSeq(dev.queue, dev.cursor + 1, n), QueueEmptyMsg)
  <2>1. dev.cursor <= Len(dev.queue)
    BY <1>1
  <2> QED BY <1>1, <2>1, DrainEffect
<1>6. s \in DeviceState
  BY <1>1, DrainFormed DEF Formed
<1> HIDE DEF s
<1>7. CASE msg.type = "drain_ack"
  <2>1. HandleInbound(dev, msg) = s
    BY <1>5, <1>7 DEF HandleInbound, OnDrainAck, MaybeAcceptDeferredLoad, s
  <2>2. DeviceRan(s)
    BY <1>3, <2>1
  <2>3. CASE dev.cursor = n
    <3>1. Same(dev, s) /\ s.out = <<>>
      BY <1>5, <2>3 DEF Same
    <3>2. Still /\ J(D, P)'
      BY <1>3, <1>4, <1>6, <2>2, <3>1, SilentStep
    <3> QED BY <3>2 DEF Moves
  <2>4. CASE dev.cursor # n
    <3>1. dev' = [s EXCEPT !.out = <<>>] /\ toInf' = toInf \o s.out
      BY <1>3, <2>2 DEF DeviceRan
    <3>2. /\ dev'.linked = s.linked /\ dev'.epochLive = s.epochLive /\ dev'.handshake = s.handshake
          /\ dev'.cache = s.cache /\ dev'.tree = s.tree
          /\ dev'.queue = s.queue /\ dev'.cursor = s.cursor
      BY <1>6, <3>1 DEF DeviceState
    <3>3. toInf' = Append(toInf \o SubSeq(dev.queue, dev.cursor + 1, n), QueueEmptyMsg)
      <4> DEFINE r == SubSeq(dev.queue, dev.cursor + 1, n)
      <4>1. r \in Seq(InfEvent)
        <5>1. r \in Seq(Changes)
          BY <1>1
        <5> HIDE DEF r
        <5> QED BY <5>1 DEF InfEvent, DeviceMsg
      <4>2. QueueEmptyMsg \in InfEvent
        BY DEF QueueEmptyMsg, InfEvent, DeviceMsg, Signals
      <4>3. toInf' = toInf \o Append(<<>> \o r, QueueEmptyMsg)
        BY <1>5, <2>4, <3>1
      <4> HIDE DEF r
      <4>4. <<>> \o r = r /\ toInf \o Append(r, QueueEmptyMsg) = Append(toInf \o r, QueueEmptyMsg)
        BY <1>1, <4>1, <4>2
      <4> QED BY <4>3, <4>4 DEF r
    <3>4. Drains
      BY <1>3, <1>4, <1>5, <2>4, <3>2, <3>3 DEF Drains
    <3>5. Still
      BY <1>3, <3>4 DEF Drains, Still
    <3> QED BY <3>4, <3>5, DrainStep DEF Moves
  <2> QED BY <2>3, <2>4
<1>8. CASE msg.type # "drain_ack"
  <2>1. msg.type = "doc_load" /\ msg.doc \in Doc
    BY <1>4, <1>8 DEF MirrorMsg
  <2>2. HandleInbound(dev, msg) = OnDocLoad(dev, msg.doc)
    BY <1>8 DEF HandleInbound
  <2>3. CASE \/ dev.epochLive /\ ~dev.handshake
             \/ ~(dev.gesture \/ dev.preview) /\ ~dev.loadLegal /\ ~dev.handshake /\ dev.queue = <<>>
    <3>1. OnDocLoad(dev, msg.doc) = dev /\ Same(dev, dev)
      BY <2>3 DEF OnDocLoad, Same
    <3>2. Still /\ J(D, P)'
      BY <1>1, <1>3, <1>4, <2>2, <3>1, SilentStep
    <3> QED BY <3>2 DEF Moves
  <2>4. CASE ~(dev.epochLive /\ ~dev.handshake) /\ (dev.gesture \/ dev.preview)
    <3> DEFINE d == [dev EXCEPT !.hasDeferred = TRUE, !.deferred = msg.doc]
    <3>1. OnDocLoad(dev, msg.doc) = d
      BY <2>4 DEF OnDocLoad
    <3>2. d \in DeviceState /\ Same(dev, d) /\ d.out = <<>>
      <4>1. TRUE \in BOOLEAN
        OBVIOUS
      <4>2. d \in DeviceState
        BY <1>1, <2>1, <4>1, Zenon DEF DeviceState
      <4>3. \A doc : LET e == [dev EXCEPT !.hasDeferred = TRUE, !.deferred = doc]
                     IN  Same(dev, e) /\ e.out = dev.out
        <5> TAKE doc
        <5> DEFINE e == [dev EXCEPT !.hasDeferred = TRUE, !.deferred = doc]
        <5>1. Same(dev, e) /\ e.out = dev.out
          BY <1>1 DEF DeviceState, Same
        <5> QED BY <5>1
      <4> QED BY <1>1, <4>2, <4>3
    <3> HIDE DEF d
    <3>3. Still /\ J(D, P)'
      BY <1>3, <1>4, <2>2, <3>1, <3>2, SilentStep
    <3> QED BY <3>3 DEF Moves
  <2>5. CASE /\ ~(dev.epochLive /\ ~dev.handshake) /\ ~(dev.gesture \/ dev.preview)
             /\ ~(~dev.loadLegal /\ ~dev.handshake /\ dev.queue = <<>>)
    <3>1. OnDocLoad(dev, msg.doc) = AcceptLoad(s, msg.doc)
      BY <2>5 DEF OnDocLoad, s
    <3>2. ~dev.epochLive
      BY <1>2, <1>3, <2>5 DEF LinkOK
    <3>3. P[0] = n /\ msg.doc = inf.tree
      BY <1>2, <1>4, <2>1, <3>2 DEF LoadsOK
    <3>4. dev.cursor = n
      <4>1. P[k] = dev.cursor
        BY <1>2, <1>3 DEF MirrorOK
      <4>2. P[0] <= P[k] /\ P[k] \in 0..n
        <5>1. k \in 0..k
          BY <1>1
        <5> QED BY <5>1, ReadingIs
      <4> HIDE DEF n, k
      <4> QED BY <1>1, <3>3, <4>1, <4>2
    <3>5. msg.doc = s.tree /\ s.out = <<>>
      BY <1>2, <1>5, <3>3, <3>4 DEF MirrorOK
    <3> DEFINE d == AcceptLoad(s, s.tree)
    <3>6. /\ d.linked = s.linked /\ d.epochLive = TRUE /\ d.handshake = FALSE
          /\ d.awaiting = FALSE /\ d.cache = {} /\ d.tree = s.tree
          /\ d.queue = <<>> /\ d.cursor = 0 /\ d.out = Append(<<>>, LoadAckMsg)
      BY <1>6, <3>5, AcceptEffect
    <3>7. d \in DeviceState
      <4>1. Formed(s, edits) /\ s.tree \in Doc
        BY <1>1, <1>6, DrainFormed DEF s, DeviceState
      <4> QED BY <1>1, <4>1, AcceptLoadFormed DEF Formed
    <3>8. HandleInbound(dev, msg) = d
      BY <2>2, <3>1, <3>5
    <3> HIDE DEF d
    <3>9. dev' = [d EXCEPT !.out = <<>>] /\ toInf' = toInf \o d.out
      BY <1>3, <3>8 DEF DeviceRan
    <3>10. /\ dev'.linked = d.linked /\ dev'.epochLive = d.epochLive /\ dev'.handshake = d.handshake
           /\ dev'.awaiting = d.awaiting /\ dev'.cache = d.cache /\ dev'.tree = d.tree
           /\ dev'.queue = d.queue /\ dev'.cursor = d.cursor
      BY <3>7, <3>9 DEF DeviceState
    <3>11. toInf' = Append(toInf, LoadAckMsg)
      <4>1. Append(<<>>, LoadAckMsg) = <<LoadAckMsg>>
        OBVIOUS
      <4>2. toInf \o <<LoadAckMsg>> = Append(toInf, LoadAckMsg)
        BY <1>1
      <4> QED BY <3>6, <3>9, <4>1, <4>2
    <3>12. Moves(P[0])
      BY <1>3, <1>5, <3>3, <3>6, <3>10 DEF Clears, Moves
    <3>13. \E E, Q : J(E, Q)'
      BY <1>3, <1>4, <1>5, <2>1, <3>2, <3>6, <3>10, <3>11, AcceptStep
    <3> QED BY <3>12, <3>13
  <2> QED BY <2>3, <2>4, <2>5
<1> QED BY <1>7, <1>8

\* The first link session: one link, no reload, and no load held back for the pen.
FirstLink == links <= 1 /\ reloads = 0 /\ ~dev.hasDeferred

Joined == Inv /\ \E D, P : J(D, P)

\* Nothing is drawn and nothing is linked.
LEMMA InitJoined == Init => Joined
<1> SUFFICES ASSUME Init PROVE Joined
  OBVIOUS
<1>1. Inv
  BY InitInv
<1> DEFINE D == [i \in {0} |-> {}]
           P == [i \in {0} |-> 0]
<1>2. /\ dev = DeviceInit /\ inf = MirrorInit /\ toInf = <<>> /\ toDev = <<>> /\ wire = FALSE
      /\ sockets = 0 /\ drawn = {} /\ links = 0
  BY DEF Init
<1>3. /\ dev.queue = <<>> /\ dev.tree = {} /\ dev.cache = {} /\ dev.cursor = 0
      /\ dev.linked = FALSE /\ dev.epochLive = FALSE /\ dev.handshake = FALSE
      /\ inf.tree = {} /\ inf.applied = {} /\ inf.suspect = FALSE /\ inf.last = 0
  BY <1>2 DEF DeviceInit, MirrorInit
<1>4. D[0] = {} /\ P[0] = 0 /\ Len(<<>>) = 0 /\ P \in [0..0 -> 0..0]
  OBVIOUS
<1> HIDE DEF D, P
<1>5. LinkOK
  BY <1>2, <1>3 DEF LinkOK
<1>6. EventsOK(P) /\ LoadsOK(P)
  BY <1>2 DEF EventsOK, LoadsOK
<1>7. Reads(<<>>, <<>>, P)
  <2>1. \A i, j \in 0..0 : P[i] <= P[j]
    BY <1>4
  <2> QED BY <1>4, <2>1 DEF Reads
<1>8. Runs(<<>>, D)
  BY DEF Runs
<1>9. MirrorOK(D, P)
  BY <1>2, <1>3, <1>4, <1>7, <1>8 DEF MirrorOK
<1> QED BY <1>1, <1>5, <1>6, <1>9 DEF Joined, J

\* Every step keeps the invariant and moves the copies in one of the four ways.
LEMMA StepMoves ==
    ASSUME EditInHandshake = FALSE, Inv, FirstLink, FirstLink', [Next]_vars, NEW D, NEW P, J(D, P)
    PROVE  Moves(P[0]) /\ \E E, Q : J(E, Q)'
<1>1. Still => Moves(P[0])
  BY DEF Moves
<1>2. ~dev.hasDeferred /\ links' <= 1 /\ reloads' = 0
  BY DEF FirstLink
<1>3. CASE BeginGesture \/ AbortGesture \/ BeginPreview \/ EndPreview
  <2>1. Still /\ J(D, P)'
    BY <1>2, <1>3, FlagStep
  <2> QED BY <1>1, <2>1
<1>4. CASE Commit
  BY <1>2, <1>4, CommitStep
<1>5. CASE RetransmitHello
  <2>1. Still /\ \E Q : J(D, Q)'
    BY <1>5, RetransmitStep
  <2> QED BY <1>1, <2>1
<1>6. CASE DeviceReceives
  BY <1>2, <1>6, DeviceReceivesStep
<1>7. CASE LinkUp
  <2>1. Still /\ \E Q : J(D, Q)'
    BY <1>2, <1>7, LinkUpStep
  <2> QED BY <1>1, <2>1
<1>8. CASE WireDies
  <2>1. Still /\ \E Q : J(D, Q)'
    BY <1>8, WireDiesStep
  <2> QED BY <1>1, <2>1
<1>9. CASE DeviceSeesDown
  <2>1. Still /\ J(D, P)'
    BY <1>9, DeviceSeesDownStep
  <2> QED BY <1>1, <2>1
<1>10. CASE MainSeesClose
  <2>1. Still /\ \E Q : J(D, Q)'
    BY <1>10, MainSeesCloseStep
  <2> QED BY <1>1, <2>1
<1>11. CASE MirrorReceives
  <2>1. Moves(P[0]) /\ \E Q : J(D, Q)'
    BY <1>11, MirrorReceivesStep
  <2> QED BY <2>1
<1>12. CASE RendererReloads
  BY <1>2, <1>12 DEF RendererReloads, Inv, TypeOK
<1>13. CASE UNCHANGED vars
  <2>1. /\ dev' = dev /\ inf' = inf /\ toInf' = toInf /\ toDev' = toDev /\ wire' = wire
        /\ sockets' = sockets /\ drawn' = drawn /\ edits' = edits /\ links' = links
    BY <1>13 DEF vars
  <2>2. Same(dev, dev') /\ Among(toDev', toDev) /\ Still
    BY <2>1 DEF Same, Among, Still
  <2>3. ~wire => toDev' = <<>>
    BY <2>1 DEF J, LinkOK
  <2>4. J(D, P)'
    BY <2>1, <2>2, <2>3, QuietStep
  <2> QED BY <1>1, <2>2, <2>4
<1> QED BY <1>3, <1>4, <1>5, <1>6, <1>7, <1>8, <1>9, <1>10, <1>11, <1>12, <1>13 DEF Next

\* The invariant is inductive while the first session lasts.
LEMMA NextJoined ==
    ASSUME EditInHandshake = FALSE, Joined, FirstLink, FirstLink', [Next]_vars
    PROVE  Joined'
<1>1. PICK D, P : J(D, P)
  BY DEF Joined
<1>2. \E E, Q : J(E, Q)'
  BY <1>1, StepMoves DEF Joined
<1> QED BY <1>2, NextInv DEF Joined

-----------------------------------------------------------------------------
(***************************************************************************)
(* The mirror follows the tablet.                                          *)
(***************************************************************************)

\* The invariant says what the two properties ask.
LEMMA JoinedTracks == Joined => MirrorTracksDevice /\ NothingLost
<1> SUFFICES ASSUME Joined PROVE MirrorTracksDevice /\ NothingLost
  OBVIOUS
<1> DEFINE n == Len(dev.queue)
           k == Len(toInf)
<1>1. Inv
  BY DEF Joined
<1>2. PICK D, P : J(D, P)
  BY DEF Joined
<1>3. LinkOK /\ MirrorOK(D, P)
  BY <1>2 DEF J
<1>4. NothingLost
  BY <1>3 DEF LinkOK, NothingLost
<1>5. ASSUME wire, dev.linked, ~dev.handshake PROVE Replay(inf.tree, toInf \o Unsent) = dev.tree
  <2>1. /\ toInf \in Seq(InfEvent) /\ dev.queue \in Seq(Changes) /\ n \in Nat /\ k \in Nat
    BY <1>1, Typed
  <2>2. dev.cursor = n /\ P[k] = n
    BY <1>3, <1>5 DEF LinkOK, MirrorOK
  <2>3. toInf \o Unsent = toInf
    <3>1. SubSeq(dev.queue, n + 1, n) = <<>>
      BY <2>1
    <3>2. toInf \o <<>> = toInf
      BY <2>1
    <3> QED BY <2>2, <3>1, <3>2 DEF Unsent
  <2>4. Replay(D[P[0]], toInf) = D[P[k]]
    BY <1>3, <2>1, ReplayReads DEF MirrorOK
  <2>5. D[P[0]] = inf.tree /\ D[n] = dev.tree
    BY <1>3 DEF MirrorOK
  <2> QED BY <2>2, <2>3, <2>4, <2>5
<1> QED BY <1>4, <1>5 DEF MirrorTracksDevice

\* The edits not shown yet, as the queue grows and as they are shown.
LEMMA RestMoves ==
    ASSUME NEW q \in Seq(Changes), NEW p \in 0..Len(q)
    PROVE  /\ p = Len(q) => Rest(q, p) = <<>>
           /\ \A c \in Changes : Rest(Append(q, c), p) = Append(Rest(q, p), c.edit)
           /\ p + 1 \in 1..Len(q) => /\ Rest(q, p) # <<>> /\ Head(Rest(q, p)) = q[p + 1].edit
                                      /\ Tail(Rest(q, p)) = Rest(q, p + 1)
<1> DEFINE n == Len(q)
<1>1. n \in Nat /\ p \in 0..n /\ \A i \in 1..n : q[i].edit \in Edits
  BY QueueOfChanges
<1>2. ASSUME NEW x \in 0..n PROVE Rest(q, x) \in Seq(Edits) /\ Len(Rest(q, x)) = n - x
                                 /\ \A i \in 1..(n - x) : Rest(q, x)[i] = q[x + i].edit
  <2>1. n - x \in Nat /\ \A i \in 1..(n - x) : x + i \in 1..n
    BY <1>1
  <2>2. [i \in 1..(n - x) |-> q[x + i].edit] \in [1..(n - x) -> Edits]
    <3> HIDE DEF n
    <3> QED BY <1>1, <2>1
  <2>3. Rest(q, x) = [i \in 1..(n - x) |-> q[x + i].edit]
    BY DEF Rest
  <2> HIDE DEF n
  <2> QED BY <2>1, <2>2, <2>3, SeqOfFunction
<1>3. ASSUME p = n PROVE Rest(q, p) = <<>>
  <2>1. Len(Rest(q, p)) = 0 /\ Rest(q, p) \in Seq(Edits)
    BY <1>1, <1>2, <1>3
  <2> QED BY <2>1
<1>4. ASSUME NEW c \in Changes PROVE Rest(Append(q, c), p) = Append(Rest(q, p), c.edit)
  <2> DEFINE w == Append(q, c)
             m == n - p
  <2>1. Len(w) = n + 1 /\ (\A i \in 1..n : w[i] = q[i]) /\ w[n + 1] = c
    OBVIOUS
  <2>2. Rest(w, p) = [i \in 1..((n + 1) - p) |-> w[p + i].edit]
    BY <2>1 DEF Rest
  <2>3. Rest(q, p) \in Seq(Edits) /\ Len(Rest(q, p)) = m /\ \A i \in 1..m : Rest(q, p)[i] = q[p + i].edit
    BY <1>1, <1>2
  <2>4. c.edit \in Edits
    BY DEF Changes
  <2> HIDE DEF w, n
  <2>5. m \in Nat /\ (n + 1) - p = m + 1 /\ p + (m + 1) = n + 1
    BY <1>1
  <2>6. \A i \in 1..m : p + i \in 1..n
    BY <1>1
  <2> HIDE DEF m
  <2>7. Append(Rest(q, p), c.edit) = [i \in 1..(m + 1) |-> IF i = m + 1 THEN c.edit ELSE Rest(q, p)[i]]
    BY <2>3, <2>4, <2>5
  <2>8. ASSUME NEW i \in 1..(m + 1) PROVE w[p + i].edit = IF i = m + 1 THEN c.edit ELSE Rest(q, p)[i]
    <3>1. CASE i = m + 1
      BY <3>1, <2>1, <2>5
    <3>2. CASE i # m + 1
      <4>1. i \in 1..m
        BY <3>2, <2>5
      <4> QED BY <3>2, <4>1, <2>1, <2>3, <2>6
    <3> QED BY <3>1, <3>2
  <2>9. [i \in 1..(m + 1) |-> w[p + i].edit] = [i \in 1..(m + 1) |-> IF i = m + 1 THEN c.edit ELSE Rest(q, p)[i]]
    BY <2>8
  <2> QED BY <2>2, <2>5, <2>7, <2>9 DEF w
<1>5. ASSUME p + 1 \in 1..n
      PROVE  /\ Rest(q, p) # <<>> /\ Head(Rest(q, p)) = q[p + 1].edit
             /\ Tail(Rest(q, p)) = Rest(q, p + 1)
  <2> DEFINE r == Rest(q, p)
             m == n - p
  <2>1. r \in Seq(Edits) /\ Len(r) = m /\ \A i \in 1..m : r[i] = q[p + i].edit
    BY <1>1, <1>2
  <2>2. p + 1 \in 0..n
    BY <1>1, <1>5
  <2> DEFINE t == Rest(q, p + 1)
  <2>3. t \in Seq(Edits) /\ Len(t) = n - (p + 1)
        /\ \A i \in 1..(n - (p + 1)) : t[i] = q[(p + 1) + i].edit
    BY <1>2, <2>2
  <2> HIDE DEF r, t, n
  <2>4. m \in Nat \ {0} /\ n - (p + 1) = m - 1 /\ 1 \in 1..m
        /\ \A i \in 1..(m - 1) : i + 1 \in 1..m /\ p + (i + 1) = (p + 1) + i
    BY <1>1, <1>5
  <2> HIDE DEF m
  <2>5. r # <<>> /\ Head(r) = r[1] /\ Tail(r) \in Seq(Edits) /\ Len(Tail(r)) = m - 1
        /\ \A i \in 1..(m - 1) : Tail(r)[i] = r[i + 1]
    BY <2>1, <2>4
  <2>6. ASSUME NEW i \in 1..(m - 1) PROVE Tail(r)[i] = t[i]
    <3>1. Tail(r)[i] = r[i + 1] /\ i + 1 \in 1..m /\ p + (i + 1) = (p + 1) + i
      BY <2>4, <2>5
    <3>2. r[i + 1] = q[p + (i + 1)].edit
      BY <2>1, <3>1
    <3>3. t[i] = q[(p + 1) + i].edit
      BY <2>3, <2>4
    <3> QED BY <3>1, <3>2, <3>3
  <2>7. Tail(r) = t
    BY <2>3, <2>4, <2>5, <2>6, SeqEqual
  <2>8. r[1] = q[p + 1].edit
    BY <2>1, <2>4
  <2> QED BY <2>5, <2>7, <2>8 DEF r, t
<1> QED BY <1>3, <1>4, <1>5

\* The log starts empty.
LEMMA InitReplica == Init => Replica!Init
<1> SUFFICES ASSUME Init PROVE Replica!Init
  OBVIOUS
<1>1. dev.queue = <<>> /\ dev.tree = {} /\ inf.tree = {}
  BY DEF Init, DeviceInit, MirrorInit
<1>2. NotShown(<<>>, inf.applied) = <<>>
  <2>1. <<>> \in Seq(Changes) /\ 0 \in 0..Len(<<>>) /\ Len(<<>>) = 0
    OBVIOUS
  <2>2. \A i \in 1..Len(<<>>) : <<>>[i].op \in inf.applied <=> i <= 0
    BY <2>1
  <2>3. NotShown(<<>>, inf.applied) = Rest(<<>>, 0)
    BY <2>1, <2>2, NotShownIs
  <2> QED BY <2>1, <2>3, RestMoves
<1> QED BY <1>1, <1>2 DEF Replica!Init

\* A commit draws, a change shows, and nothing else is seen of the log.
LEMMA StepReplica ==
    ASSUME Inv, Inv', NEW D, NEW P, J(D, P), Moves(P[0]), NEW E, NEW Q, J(E, Q)'
    PROVE  Replica!Next \/ (/\ dev'.tree = dev.tree /\ inf'.tree = inf.tree
                            /\ NotShown(dev.queue, inf.applied)' = NotShown(dev.queue, inf.applied))
<1> DEFINE n == Len(dev.queue)
           p == P[0]
<1>1. /\ dev.queue \in Seq(Changes) /\ n \in Nat /\ inf.tree \in Doc /\ dev.tree \in Doc
      /\ dev'.queue \in Seq(Changes)
  BY Typed DEF Inv, TypeOK, DeviceState
<1>2. p \in 0..n /\ \A i \in 1..n : dev.queue[i].op \in inf.applied <=> i <= p
  <2>1. 0 \in 0..Len(toInf)
    BY Typed
  <2> QED BY <2>1, ReadingIs DEF J, MirrorOK
<1>3. NotShown(dev.queue, inf.applied) = Rest(dev.queue, p)
  BY <1>1, <1>2, NotShownIs
<1>4. CASE Still
  BY <1>4 DEF Still
<1>5. CASE Clears(p)
  <2>1. dev'.queue = <<>> /\ p = n /\ dev'.tree = dev.tree /\ inf'.tree = inf.tree
    BY <1>5 DEF Clears
  <2>2. Rest(dev.queue, p) = <<>>
    BY <1>1, <1>2, <2>1, RestMoves
  <2>3. NotShown(<<>>, inf'.applied) = <<>>
    <3>1. <<>> \in Seq(Changes) /\ 0 \in 0..Len(<<>>) /\ Len(<<>>) = 0
      OBVIOUS
    <3>2. \A i \in 1..Len(<<>>) : <<>>[i].op \in inf'.applied <=> i <= 0
      BY <3>1
    <3>3. NotShown(<<>>, inf'.applied) = Rest(<<>>, 0)
      BY <3>1, <3>2, NotShownIs
    <3> QED BY <3>1, <3>3, RestMoves
  <2> QED BY <1>3, <2>1, <2>2, <2>3
<1>6. ASSUME NEW edit \in Edits, NEW c \in Changes, Draws(edit, c) PROVE Replica!Next
  <2>1. /\ Applies(dev.tree, edit) /\ c.edit = edit /\ c.op \notin inf.applied
        /\ dev'.tree = ApplyEdit(dev.tree, edit) /\ dev'.queue = Append(dev.queue, c)
        /\ inf'.tree = inf.tree /\ inf'.applied = inf.applied
    BY <1>6 DEF Draws
  <2> DEFINE q == Append(dev.queue, c)
  <2>2. q \in Seq(Changes) /\ Len(q) = n + 1 /\ q[n + 1] = c /\ \A i \in 1..n : q[i] = dev.queue[i]
    BY <1>1
  <2> HIDE DEF n, q
  <2>3. p \in 0..(n + 1) /\ \A i \in 1..(n + 1) : q[i].op \in inf.applied <=> i <= p
    <3>1. p \in 0..(n + 1)
      BY <1>1, <1>2
    <3>2. ASSUME NEW i \in 1..(n + 1) PROVE q[i].op \in inf.applied <=> i <= p
      <4>1. CASE i = n + 1
        <5>1. ~(i <= p)
          BY <4>1, <1>1, <1>2
        <5> QED BY <4>1, <5>1, <2>1, <2>2
      <4>2. CASE i # n + 1
        <5>1. i \in 1..n
          BY <4>2, <1>1
        <5> QED BY <5>1, <1>2, <2>2
      <4> QED BY <4>1, <4>2
    <3> QED BY <3>1, <3>2
  <2>4. NotShown(q, inf.applied) = Rest(q, p)
    BY <2>2, <2>3, NotShownIs
  <2>5. Rest(q, p) = Append(Rest(dev.queue, p), edit)
    BY <1>1, <1>2, <2>1, RestMoves DEF q, n
  <2>6. NotShown(dev'.queue, inf'.applied) = Append(NotShown(dev.queue, inf.applied), edit)
    BY <1>3, <2>1, <2>4, <2>5 DEF q
  <2>7. Replica!Draw(edit)
    BY <2>1, <2>6 DEF Replica!Draw, Replica!Applies, Replica!ApplyEdit, Applies, ApplyEdit
  <2>8. edit \in Replica!Edits
    BY DEF Edits, Replica!Edits
  <2> QED BY <2>7, <2>8 DEF Replica!Next
<1>7. CASE Shows(p)
  <2>1. /\ dev'.tree = dev.tree /\ dev'.queue = dev.queue /\ p + 1 \in 1..n
        /\ inf'.tree = ApplyEdit(inf.tree, dev.queue[p + 1].edit)
        /\ \A i \in 1..n : dev.queue[i].op \in inf'.applied <=> i <= p + 1
    BY <1>7 DEF Shows
  <2>2. p + 1 \in 0..n
    <3> HIDE DEF n
    <3> QED BY <1>1, <2>1
  <2>3. NotShown(dev.queue, inf'.applied) = Rest(dev.queue, p + 1)
    BY <1>1, <2>1, <2>2, NotShownIs
  <2>4. /\ Rest(dev.queue, p) # <<>> /\ Head(Rest(dev.queue, p)) = dev.queue[p + 1].edit
        /\ Tail(Rest(dev.queue, p)) = Rest(dev.queue, p + 1)
    BY <1>1, <1>2, <2>1, RestMoves
  <2>5. /\ NotShown(dev.queue, inf.applied) # <<>>
        /\ inf'.tree = ApplyEdit(inf.tree, Head(NotShown(dev.queue, inf.applied)))
        /\ NotShown(dev'.queue, inf'.applied) = Tail(NotShown(dev.queue, inf.applied))
    BY <1>3, <2>1, <2>3, <2>4
  <2>6. Replica!Show
    BY <2>1, <2>5 DEF Replica!Show, Replica!ApplyEdit, ApplyEdit
  <2> QED BY <2>6 DEF Replica!Next
<1> QED BY <1>4, <1>5, <1>6, <1>7 DEF Moves

\* Every step is a step of the log or none.
LEMMA NextReplica ==
    ASSUME EditInHandshake = FALSE, Joined, FirstLink, FirstLink', [Next]_vars
    PROVE  [Replica!Next]_<<dev.tree, inf.tree, NotShown(dev.queue, inf.applied)>>
<1>1. PICK D, P : J(D, P)
  BY DEF Joined
<1>2. Inv /\ Inv'
  BY NextInv DEF Joined
<1>3. Moves(P[0]) /\ \E E, Q : J(E, Q)'
  BY <1>1, <1>2, StepMoves
<1>4. PICK E, Q : J(E, Q)'
  BY <1>3
<1>5. Replica!Next \/ (/\ dev'.tree = dev.tree /\ inf'.tree = inf.tree
                      /\ NotShown(dev.queue, inf.applied)' = NotShown(dev.queue, inf.applied))
  BY <1>1, <1>2, <1>3, <1>4, StepReplica
<1> QED BY <1>5

\* Once an epoch is live the mirror plus the changes on the way is the tablet's
\* document, for every set of nodes and any number of commits, strokes and hello ticks,
\* whenever the socket dies: through the first link session, when the pen waits for the
\* handshake and no load was held back for it.
THEOREM MirrorTracks ==
    ASSUME EditInHandshake = FALSE
    PROVE  Spec /\ []FirstLink => []MirrorTracksDevice
<1>1. Joined /\ FirstLink /\ FirstLink' /\ [Next]_vars => Joined'
  BY NextJoined
<1>2. Init => Joined
  BY InitJoined
<1>3. Joined => MirrorTracksDevice
  BY JoinedTracks
<1> QED BY <1>1, <1>2, <1>3, PTL DEF Spec

\* In the first link session no load takes an edit away, whatever was drawn before it,
\* so what NothingLost fails on needs a second session, a reload or a held load.
THEOREM FirstLinkLosesNothing ==
    ASSUME EditInHandshake = FALSE
    PROVE  Spec /\ []FirstLink => []NothingLost
<1>1. Joined /\ FirstLink /\ FirstLink' /\ [Next]_vars => Joined'
  BY NextJoined
<1>2. Init => Joined
  BY InitJoined
<1>3. Joined => NothingLost
  BY JoinedTracks
<1> QED BY <1>1, <1>2, <1>3, PTL DEF Spec

\* The first link session implements the replicated log: the mirror shows every edit
\* once, in the order it was drawn, and only the creator changes the tablet's document.
THEOREM FirstLinkIsReplica ==
    ASSUME EditInHandshake = FALSE
    PROVE  Spec /\ []FirstLink => ImplementsReplica
<1>1. Joined /\ FirstLink /\ FirstLink' /\ [Next]_vars => Joined'
  BY NextJoined
<1>2. Init => Joined /\ Replica!Init
  BY InitJoined, InitReplica
<1>3. Joined /\ FirstLink /\ FirstLink' /\ [Next]_vars
        => [Replica!Next]_<<dev.tree, inf.tree, NotShown(dev.queue, inf.applied)>>
  BY NextReplica
<1> QED BY <1>1, <1>2, <1>3, PTL DEF Spec, ImplementsReplica, Replica!Spec
=============================================================================
