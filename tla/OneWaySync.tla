----------------------------- MODULE OneWaySync -----------------------------
(***************************************************************************)
(* The tablet (DeviceSync) and the desktop mirror (TabletMirror) joined by *)
(* the JSON-lines TCP socket and the Electron main process.                *)
(*                                                                         *)
(* toInf is everything on its way to the renderer, in order: the lines of  *)
(* the tablet and the "rm-client" notices the main process puts between    *)
(* them.  toDev is what has been written to the tablet's socket.  wire     *)
(* says whether the tablet's present socket still carries; sockets is      *)
(* rmClients.size, which may count a socket the tablet has already left.   *)
(*                                                                         *)
(* Environment: a socket may die at any moment and take with it the lines  *)
(* not yet received; each end notices on its own; the renderer may reload. *)
(* MaxEdits, MaxLinks, MaxReloads, MaxGestures and MaxTicks bound the      *)
(* environment, the flags narrow it.  Nothing else is bounded.             *)
(***************************************************************************)
EXTENDS TabletMirror

CONSTANTS
    MaxEdits,            \* commits
    MaxLinks,            \* link sessions
    MaxReloads,          \* renderer reloads
    MaxGestures,         \* pen gestures and preview strokes
    MaxTicks,            \* hello timer ticks
    EditInHandshake,     \* the pen may commit while a load is being negotiated
    Overlap              \* the tablet may redial before the desktop has dealt with the
                         \* end of the previous link (5 s retry against a busy or
                         \* half-open peer)

ASSUME BoundsAssumption ==
    /\ MaxEdits \in Nat /\ MaxLinks \in Nat /\ MaxReloads \in Nat
    /\ MaxGestures \in Nat /\ MaxTicks \in Nat
    /\ EditInHandshake \in BOOLEAN /\ Overlap \in BOOLEAN

VARIABLES
    dev,        \* the tablet's session and document
    inf,        \* the desktop's session and mirror
    toInf,      \* events on their way to the renderer
    toDev,      \* lines on their way to the tablet
    wire,       \* the tablet's present socket carries
    sockets,    \* rmClients.size
    drawn,      \* history: the document the creator has drawn
    edits,      \* commits so far: the next opId
    links,      \* link sessions so far
    reloads,    \* renderer reloads so far
    gestures,   \* gestures and previews so far
    ticks       \* hello timer ticks so far

budget == <<drawn, edits, links, reloads, gestures, ticks>>
vars == <<dev, inf, toInf, toDev, wire, sockets, drawn, edits, links, reloads, gestures, ticks>>

Notices == [type : {"open", "close"}, n : Nat]
InfEvent == DeviceMsg \cup Notices

\* Every message, record field and counter keeps its type, and a handler's output
\* is always handed over before the next handler runs.
TypeOK ==
    /\ dev \in DeviceState /\ dev.out = <<>>
    /\ inf \in MirrorState /\ inf.out = <<>>
    /\ toInf \in Seq(InfEvent)
    /\ toDev \in Seq(MirrorMsg)
    /\ wire \in BOOLEAN
    /\ sockets \in Nat
    /\ drawn \in Doc
    /\ edits \in Nat /\ links \in Nat /\ reloads \in Nat
    /\ gestures \in Nat /\ ticks \in Nat

Init ==
    /\ dev = DeviceInit /\ inf = MirrorInit
    /\ toInf = <<>> /\ toDev = <<>>
    /\ wire = FALSE /\ sockets = 0
    /\ drawn = {}
    /\ edits = 0 /\ links = 0 /\ reloads = 0 /\ gestures = 0 /\ ticks = 0

-----------------------------------------------------------------------------
(***************************************************************************)
(* A handler has run: what it emitted goes to the transport.  Lines        *)
(* emitted with no live socket reach nobody.                               *)
(***************************************************************************)
DeviceRan(d) ==
    /\ dev' = [d EXCEPT !.out = <<>>]
    /\ toInf' = IF wire THEN toInf \o d.out ELSE toInf

MirrorRan(m) ==
    /\ inf' = [m EXCEPT !.out = <<>>]
    /\ toDev' = IF wire THEN toDev \o m.out ELSE toDev

PenDown ==
    /\ gestures < MaxGestures /\ gestures' = gestures + 1
    /\ UNCHANGED <<drawn, edits, links, reloads, ticks>>

(***************************************************************************)
(* The pen and the timers of the tablet.                                   *)
(***************************************************************************)
BeginGesture ==
    /\ ~dev.gesture /\ PenDown
    /\ DeviceRan([dev EXCEPT !.gesture = TRUE])
    /\ UNCHANGED <<inf, toDev, wire, sockets>>

AbortGesture ==
    /\ dev.gesture
    /\ DeviceRan([dev EXCEPT !.gesture = FALSE])
    /\ UNCHANGED <<inf, toDev, wire, sockets, budget>>

Commit ==
    /\ edits < MaxEdits
    /\ dev.handshake => EditInHandshake
    /\ \E edit \in Edits :
        /\ Applies(dev.tree, edit)
        /\ DeviceRan(OnLocalCommit(CommitEdit(dev, edits + 1, edit)))
        /\ drawn' = ApplyEdit(drawn, edit)
    /\ edits' = edits + 1
    /\ UNCHANGED <<inf, toDev, wire, sockets, links, reloads, gestures, ticks>>

BeginPreview ==
    /\ ~dev.preview /\ PenDown
    /\ DeviceRan([dev EXCEPT !.preview = TRUE])
    /\ UNCHANGED <<inf, toDev, wire, sockets>>

EndPreview ==
    /\ dev.preview
    /\ DeviceRan(EndPreviewStroke(dev))
    /\ UNCHANGED <<inf, toDev, wire, sockets, budget>>

RetransmitHello ==
    /\ ticks < MaxTicks /\ ticks' = ticks + 1
    /\ DeviceRan(RetransmitHelloIfWaiting(dev))
    /\ UNCHANGED <<inf, toDev, wire, sockets, drawn, edits, links, reloads, gestures>>

DeviceReceives ==
    /\ wire /\ toDev # <<>>
    /\ DeviceRan(HandleInbound(dev, Head(toDev)))
    /\ toDev' = Tail(toDev)
    /\ UNCHANGED <<inf, wire, sockets, budget>>

(***************************************************************************)
(* The link.                                                               *)
(***************************************************************************)
LinkUp ==
    /\ ~dev.linked /\ links < MaxLinks
    /\ Overlap \/ (sockets = 0 /\ toInf = <<>>)
    /\ dev' = [OnLinkUp(dev) EXCEPT !.out = <<>>]
    /\ toInf' = Append(toInf, [type |-> "open", n |-> sockets + 1]) \o OnLinkUp(dev).out
    /\ wire' = TRUE /\ toDev' = <<>>
    /\ sockets' = sockets + 1 /\ links' = links + 1
    /\ UNCHANGED <<inf, drawn, edits, reloads, gestures, ticks>>

IsNotice(event) == event.type \in {"open", "close"}

\* The socket dies with the lines the main process has not read yet.
WireDies ==
    /\ wire
    /\ wire' = FALSE /\ toDev' = <<>>
    /\ \E k \in 0..Len(toInf) :
        /\ \A i \in (k + 1)..Len(toInf) : ~IsNotice(toInf[i])
        /\ toInf' = SubSeq(toInf, 1, k)
    /\ UNCHANGED <<dev, inf, sockets, budget>>

DeviceSeesDown ==
    /\ dev.linked /\ ~wire
    /\ DeviceRan(OnLinkDown(dev))
    /\ UNCHANGED <<inf, toDev, wire, sockets, budget>>

MainSeesClose ==
    /\ sockets > (IF wire THEN 1 ELSE 0)
    /\ sockets' = sockets - 1
    /\ toInf' = Append(toInf, [type |-> "close", n |-> sockets - 1])
    /\ UNCHANGED <<dev, inf, toDev, wire, budget>>

(***************************************************************************)
(* The renderer.                                                           *)
(***************************************************************************)
MirrorReceives ==
    /\ toInf # <<>>
    /\ LET event == Head(toInf) IN
        MirrorRan(IF IsNotice(event) THEN HandleRmClient(inf, event.n)
                  ELSE ReceiveLine(inf, event))
    /\ toInf' = Tail(toInf)
    /\ UNCHANGED <<dev, wire, sockets, budget>>

\* A reload builds a new session and asks the main process for its count.
RendererReloads ==
    /\ reloads < MaxReloads /\ reloads' = reloads + 1
    /\ inf' = HandleRmClient(MirrorInit, sockets)
    /\ toInf' = <<>>
    /\ UNCHANGED <<dev, toDev, wire, sockets, drawn, edits, links, gestures, ticks>>

Next ==
    \/ BeginGesture \/ AbortGesture \/ Commit \/ BeginPreview \/ EndPreview
    \/ RetransmitHello \/ DeviceReceives
    \/ LinkUp \/ WireDies \/ DeviceSeesDown \/ MainSeesClose
    \/ MirrorReceives \/ RendererReloads

Spec == Init /\ [][Next]_vars

(***************************************************************************)
(* Lines are delivered, both ends eventually notice a dead socket, the     *)
(* tablet redials (while the bound lasts), and a pen stroke ends.          *)
(***************************************************************************)
Fairness ==
    /\ WF_vars(DeviceReceives) /\ WF_vars(MirrorReceives)
    /\ WF_vars(DeviceSeesDown) /\ WF_vars(MainSeesClose)
    /\ WF_vars(LinkUp) /\ WF_vars(EndPreview)

FairSpec == Spec /\ Fairness
-----------------------------------------------------------------------------
(* Properties *)

\* The publish queue is numbered 1..lastSeq without holes, every change's base
\* is its predecessor, no two carry the same opId, and the wire cursor never
\* runs past the end: over commits, drains, relinks, kept and replaced trees.
QueueShaped(d, n) ==
    /\ d.lastSeq = Len(d.queue)
    /\ d.cursor <= Len(d.queue)
    /\ \A i \in DOMAIN d.queue :
        /\ d.queue[i].seq = i /\ d.queue[i].base = i - 1
        /\ d.queue[i].op <= n
        /\ \A j \in DOMAIN d.queue : i < j => d.queue[i].op < d.queue[j].op

QueueShape == QueueShaped(dev, edits)

IsChange(event) == event.type = "doc_change"
Unsent == SubSeq(dev.queue, dev.cursor + 1, Len(dev.queue))

\* The document after the changes among these events.
Replay(doc, events) ==
    LET after[i \in 0..Len(events)] ==
            IF i = 0 THEN doc
            ELSE IF IsChange(events[i]) THEN ApplyEdit(after[i - 1], events[i].edit)
            ELSE after[i - 1]
    IN  after[Len(events)]

\* Once an epoch is live, the mirror plus the changes on the way plus those not
\* sent yet is the tablet's document (SRS-IN-08: 0 divergent nodes).
MirrorTracksDevice ==
    (/\ inf.phase = "live" /\ ~inf.suspect
     /\ wire /\ dev.linked /\ ~dev.handshake)
    => Replay(inf.tree, toInf \o Unsent) = dev.tree

\* The tablet's document is what the creator has drawn: no load takes an edit
\* away (SRS-EP-08: 0 queued changes discarded).
NothingLost == dev.tree = drawn

\* The edits of the tablet's queue that the mirror has not applied yet.
NotShown(queue, applied) ==
    LET upTo[i \in 0..Len(queue)] ==
            IF i = 0 THEN <<>>
            ELSE IF queue[i].op \in applied THEN upTo[i - 1]
            ELSE Append(upTo[i - 1], queue[i].edit)
    IN  upTo[Len(queue)]

Replica == INSTANCE ReplicaLog WITH
    doc <- dev.tree, mirror <- inf.tree,
    pending <- NotShown(dev.queue, inf.applied)

\* The session implements the replicated log.
ImplementsReplica == Replica!Spec

\* While a gesture or a preview stroke is in progress no load replaces the tree
\* under the pen: only the creator's own commits change it.
LoadWaitsForPen ==
    [][dev.gesture \/ (dev.preview /\ dev'.preview)
        => dev'.tree = dev.tree \/ edits' # edits]_vars

Settled == inf.phase = "live" /\ dev.epochLive /\ ~dev.handshake

\* A connection that stays up completes the tablet's handshake, or has brought
\* the load as far as the tablet, which holds it back for the pen.
TabletSettles ==
    wire ~> ((dev.epochLive /\ ~dev.handshake) \/ dev.hasDeferred \/ ~wire)

\* A connection that stays up brings the mirror to the tablet's document.
MirrorConverges ==
    wire ~> (~wire \/ (Settled /\ inf.tree = dev.tree))
=============================================================================
