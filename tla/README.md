# Reawa: a verification development

The repository holds four programs: *Epaper*, the drawing application of the
reMarkable tablet (`epaper_old/` is the application, `epaper/` the beginning of its
rewrite); *Infini*, the desktop canvas that mirrors the tablet's document
(`infini/`, TypeScript on Electron); and *Reawa*, the macOS menu-bar driver that
turns the tablet's pen into a pointer over SSH (`macOS/`).  This directory holds
TLA+ models of their control logic, TLC runs that check them, and TLAPS proofs.

## 1. Inventory

| Part | State | Operations | Talks to | What is hard |
|---|---|---|---|---|
| One-way sync session, tablet (`epaper_old/document/one_way_sync.hpp`) | link, epoch and handshake flags, wire cursor, deferred load, hello cache | link up/down, hello timer, drain ack, load, local commit, preview stroke | document (publish queue), TCP socket | handshake against commits, strokes, link drops |
| Device document (`epaper_old/document/device_document.hpp`, `operations/`) | node tree, publish queue, applied opIds, undo and redo rings, latch | apply, commit one edit or a gesture, undo, redo, abort, accepted load | sync session, drawing tools | ring limits, latched history, rejected and rolled-back commits |
| Tablet session, desktop (`infini/src/session/TabletSession.ts`) | handshake phase, last sequence, follow direction, previews | hello, queue empty, load ack, change, viewport, follow | mirror document, main process | duplicates, gaps, reloads |
| Mirror document (`infini/src/document/VectorDocument.ts`) | tree, applied opIds, suspect flag | apply op, replace tree | tablet session | idempotence, refusing to diverge silently |
| Electron main (`infini/electron/main.cjs`) | sockets, debug ring | accept, data, close, suspend | TCP, renderer | overlapping sockets, renderer reload |
| Viewport follow (`viewport_follow.hpp`, `viewportFollow.ts`) | who follows whom, sequence, pending viewport | toggle, viewport in/out | both sessions | concurrent toggles with equal sequence |
| Background jobs (`epaper_old/util/latest_job.hpp`, `drawing/camera_sharp_job.hpp`) | pending job, cancel flag, generation | submit, cancel, run, wait | UI thread, worker thread | newest job wins, cancel against start |
| Node store of the rewrite (`epaper/src/doc/node_store.hpp`) | slot table with generations, parent/child links | create, remove, move, lookup | native canvas | stale handles, reuse of slots |
| USB link, stroke sync (`connectivity/`, `regionsync/strokesync.cpp`) | socket, send queue, retry timer | connect, send, drop, retry | desktop | bounded queue across drops |
| Debug log (`debug/debug_log_*.hpp`, `infini/electron/debugLogChannel.cjs`) | bounded queue, drop counter | push, ship, ring | desktop panel | backpressure |
| Hand touch, stylus proximity (`input/qtinputfilter.cpp`, `qml/Main.qml`) | contacts, latches, pen near | touch, move, lift, pen near/far | tools | palm rejection, a pen that lands under a gesture |
| Drawing tools (`drawing/tools/`, `drawing/canvas_session.cpp`) | tool, lock, operation in progress, selection | pen and finger calls, chip, nib eraser | canvas, document | cancel and mode switch mid-operation |
| Canvas (`drawing/tabletcanvasitem.cpp`, `rendering/`) | bitmap, repaints owed, live stroke, sharpen job | repaint, pan, zoom, stamp, sharp result | worker thread, document | a repaint against a stroke, a late picture |
| Recognisers (`recognizer_dispatch.hpp`, `recognize_*.hpp`, `membership.hpp`) | the latch of the buttons | pen-up | document | several commits of one pen-up |
| Page gestures (`erase_*.hpp`, `surround_create.hpp`, `tools/clipboard.hpp`, `endpoint_ink.hpp`, `connector_warp.hpp`) | clipboard | erase, group, drag, cut, paste | document | nested boxes, undo of compound gestures |
| Reawa driver (`macOS/Sources/ReawaApp`) | connections, session threads, picker, overlay | connect, stop, pause, mode, USB poll, pen frames | SSH, window server | main actor against session threads |

## 2. What makes each part correct

* **Sync.** The mirror plus what is on its way is the tablet's document; no edit is lost,
  reordered or shown twice; a handshake completes; a load never lands under the pen.
* **Document.** Undo then redo restores what it undid; the rings stay within their
  depth; history never overwrites a later edit.
* **Jobs.** The newest submitted job is the one whose result is seen.
* **Page.** A gesture changes the marks it is meant to and moves no other; its undo restores
  the page it began with; connector ends follow their boxes.
* **Tablet input and canvas.** What a pointer has begun can be finished by it, nothing of it
  is left behind, live ink is not wiped, every change is shown in the end.
* **Node store.** A handle that went stale stays stale; the id map finds what is live; a
  retired node takes what it holds with it; no slot is handed out twice.
* **USB link.** A tap brings the connection up again; the log is shipped while its panel is open.
* **Reawa driver.** The mouse button comes up however a session ends; a stop or a pause is
  heeded within a frame; the active session has the saved mode; input is held back exactly
  while the picker is shown.

## 3. Modules and how they correspond to the code

| Module | Models | Depends on |
|---|---|---|
| `DeviceSync` | `OneWaySyncSession` over the publish queue of `DeviceDocument` | |
| `TabletMirror` | handshake and applier of `TabletSession`, `VectorDocument.applyOp`, `CanvasStage.handleRmClient` | `DeviceSync` (messages) |
| `OneWaySync` | both ends, the socket, the Electron main process, the pen and the timers | `TabletMirror` |
| `ReplicaLog` | what the session promises: every edit shown once, in order | refined by `OneWaySync` |
| `DocumentEdits` | `DocEdit` operations, the node tree and its id index | |
| `UndoHistory` | commit path and undo rings of `DeviceDocument`, with the desktop's copy | `DocumentEdits` |
| `LinearHistory` | what the rings promise: a linear past of whole documents | refined by `UndoHistory` |
| `LatestJob` | the background job runner, GUI thread against worker thread | |
| `EraseOverlay` | the object eraser's live overlay, the runner's client | `LatestJob` |
| `PageTree` | the nested page, every edit on it with its inverse, the commit path | |
| `PenUp` | what a finished stroke becomes | `PageTree` |
| `PageGestures` | erasers, grouping, dragging, the clipboard | `PenUp` |
| `PageShape` | what a well-formed page, stroke and sweep are | `PageTree` |
| `Page` | the page under gestures, undo and redo | `PageGestures`, `PageShape` |
| `CanvasRaster` | `TabletCanvasItem`: bitmap, repaints, live stroke, sharpening | |
| `ToolHost` | tool chip, input hub, modes and operations, `ToolCanvasItem` | `CanvasRaster` |
| `TabletInput` | touch filter, pointer handlers, worker, composed with the host | `ToolHost` |
| `PenBackends` | the three input drivers of the macOS app | |
| `DriverSession` | one pen stream: its thread, its ssh process | `PenBackends` |
| `ConnectionManager` | the saved tablets and the active session | `DriverSession` |
| `AppController` | window picker, overlay, follow timer, mode changes | `ConnectionManager` |
| `DriverApp` | main actor, session threads, USB watcher and user, composed | `AppController` |
| `NodeStore` | `SlotTable` and `NodeStore` of the rewrite: slots, generations, links, retiring | |
| `TabletLink` | USB probe, the connection of the debug log with its retries, the desktop's log server and panel | |
| `OneWaySyncProofs`, `UndoHistoryProofs`, `EraseOverlayProofs`, `NodeStoreProofs`, `DriverAppProofs` | theorems | the module named, `TLAPS` |
| `TabletProofs` | theorems of `TabletInput` with lemmas of its canvas, and of `TabletLink` | both, `TLAPS` |
| `PageTreeProofs` | what edits, commits, undo and redo make of any page | `PageShape`, `TLAPS` |
| `PageProofs` | theorems of `Page`, gesture by gesture | `Page`, `PageTreeProofs` |
| `MCOneWaySync`, `MCUndoHistory`, `MCEraseOverlay`, `MCPage`, `MCTabletInput`, `MCNodeStore`, `MCTabletLink`, `MCDriverApp` | instances for TLC | the module named |

A definition whose comment begins with `Mutant:` is a plausible bug of the
definition after it.  No specification uses it; each property has one that breaks it.

Handlers that run to completion are operators from a component's record to its next value,
named as in the code; an action is a way in (an input, a timer, a message, a step of a thread).

### 3.1 One-way sync

The tablet's session is single threaded and each handler runs to completion, so a
handler is an operator from the session's record to its next value and the name is
the method's: `OnLinkUp`, `OnDrainAck`, `OnDocLoad`, `OnLocalCommit`.  What the method
puts in `m_outbound` collects in the field `out`, and the action that ran the handler
gives it to the socket.  `TabletMirror` has the desktop's handlers in the same style.
`OneWaySync` has one action for each way in: a pen gesture or preview, a commit, the
hello timer, a line received at either end, and every event of the link.

The socket is two sequences.  `toInf` holds the lines on their way to the renderer
together with the notices of the main process, because Electron delivers both over one
IPC channel in order.  When the wire dies a suffix of `toInf` is lost, up to the last
notice; what the main process has read is delivered.  A line emitted with no live
socket is lost.  `sockets` is `rmClients.size`: after a redial the main process may
count a socket the tablet has left, which is what `Overlap` allows.

*Abstractions.*  A document is a set of node ids, an edit creates or removes one and
an opId is the number of the commit.  The preview map, the painted layer, the viewport
and the logs of rejected lines are left out: no handler of the handshake reads them.
The desktop starts with an empty tree.  `OneWaySyncSession` is the tablet's implementation
of the protocol and its tests drive it; at this commit the tablet's canvas no longer
instantiates it (`drawing/tabletcanvasitem.cpp:589`), while the desktop's end is wired in
(`CanvasStage.tsx`).  The model is of the protocol the two files implement together.

### 3.2 Commits, undo and redo

`h` holds the document, the two rings and the desktop's mirror.  A committing action
is `CommitEdit` or `CommitGesture` (`commitEdit`, `commitParts`), a refusal is
`RejectEdit`, `RejectDuplicate` or `RejectParts`, and `AskUndo`, `AskRedo`, `BeginGesture`,
`AbortGesture`, `ApplyOutside` (`applyJson`) and `AcceptLoad` are the other entry points.
Every path that ends a gesture goes through `EndGesture`, which runs the latched request.

The id index `m_byId` maps an id to an address in a vector, so it is modelled as a map from
an id to a slot: an entry that is not renewed when the vector moves points at whatever node
is in the slot now.  That is the content of `Rebind` and the reason for `IndexTrue`.

Two history variables say what a property may speak of.  `tracked` is TRUE while everything
that happened to the document since it was loaded went the whole way.  Four steps end it: an
edit kept off the wire (`skipPublish`), an edit of `applyJson`, a gesture rolled back in a later
part, and an edit refused on a full ring.  The properties of the linear history and of the mirror
speak of what is tracked.  `rolledBack` is TRUE from a rolled-back gesture to the next load:
such a gesture leaves ids in the index whose slots are past the vector's end, so `IndexTrue`,
`NoUndoThrough` and the document's part of `TypeOK` stop there.  Each of these steps is a
behaviour section 5 lists, and what follows it is still explored.

*Abstractions.*  One level of siblings; a node is its id, its `lastOpId` and one payload
value for transform, samples and style.  `pre` and `post` of an entry are history
variables: they record the whole trees before and after it for `LinearHistory` and no guard reads
them.
Live preview, tool, viewport and selection are left out.  An id that a refused gesture
left in the index without a node is never named by a tool, as no tool has seen it; the
lookup would read past the vector.

### 3.3 Background jobs and the erase overlay

`LatestJob` has one action for each stretch between two accesses to shared state.  The
worker's position in `loop()` is `pc`.  `submit` holds the mutex over two accesses,
placing the request and raising the cancel flag, and is two actions with
`caller = "cancelling"` between them; the worker's actions that need the mutex wait for it
(`LockFree`).  `Compute` either saw the flag or finished before: `cut` says which.
A result is posted to the GUI thread's queue (`events`), so it may be handled long after.

`EraseOverlay` is the GUI thread: strokes (`Down`, `Move`, `Commit`, `Cancel`), the hit
timer, the posted result and the destructor.  A path is a stroke and its number of points;
the frames on screen are named by the request they answer.  Geometry, the path's raster
and the erase itself are left out.

### 3.4 The page

`PageTree` keeps the tree as two functions, the node records by id and the children of each id
in paint order; `PageTree`'s edits are the classes of `operations/`, each with the inverse it
generates, and `Commit` is `commitParts` with its roll-back, its push on the undo ring and the
latched request.  `PenUp` follows `recognizer_dispatch.hpp` in the order it tries the
recognisers; a pen-up may commit several gestures, and a latched undo runs between them.
`PageGestures` has each eraser, grouping, drag and clipboard call as the list of edits it
commits.  An action of `Page` is one finished gesture with everything its commits change.
`PageShape` says what `Page` may be given.  A page loaded (`PagesAssumption`) is a tree of well-formed nodes
with each id in one place, and its connectors are where their boxes are: the code refreshes them at
every full repaint (`tabletcanvasitem.cpp:1229`), hence before a pen comes down on what was loaded.
A stroke and a region swept are intervals with at least one cell (`GesturesAssumption`).

*Abstractions.*  The page has one axis divided into cells: an ink is an interval, drawn from
left to right, an area its extent, a length its number of cells.  Transforms are translations.
A connector runs straight between its ends, and style strokes move with their end.
Shape classification is an input (`neat`).  `std::sort` is taken as stable, the address a
join remembers as still good, and the selection as made just before the gesture.
`chooseParent`'s overlap rule does not arise as whatever else it may hit is on the page itself.
Node ids and remnant ids are numbers handed out in order.  After a gesture that was refused
nothing more is modelled (`stuck`), because the id index is then wrong (section 5).
Clipboard copies are of the page that was loaded (`CopyOps = 0`).  Properties speak of boxes on
the page itself where the code composes the transforms of nested boxes in one place and not in
another (section 5); `VIEW` leaves out the history variable `last`.

### 3.5 The tablet's input and canvas

`CanvasRaster` does not draw: a cell of the bitmap remembers the document version it shows, the
camera it was painted for, whether it is sharp, and whether live ink was stamped on it.
`why`, `dirty`, `pending`, `consume`, `timer`, `erase` and `busy` are the item's flags.
`ToolHost` is the exclusive tool, the lock of the input hub, the pan state and the operation in
progress; each operator is a handler of `ToolCanvasItem` with the mode and operation it calls.
`TabletInput` has an action for each event of pen, finger, filter, chip, timer and worker.

*Abstractions.*  One box, two cells, two cameras that overlap in part.  The worker's taking of a
job and the posting of its result are one step.  A finger moves the camera by less than a panel at
a time.  Qt's pointer handlers are external: the drag the pinch takes the grab from ends before
the pinch is active, and fingers a `TouchCancel` took away do nothing until all are lifted.
Hover, the idle timer of the proximity, the nib's momentary eraser at light pressure and the
buttons of a selection are left out.  `Racing = FALSE` lets the pen touch only after the touches
it displaces were cancelled.

### 3.6 The macOS driver

A session's thread is cut where it touches what it shares with the main actor under the lock
(`pc`): connecting, a read, the checks before a frame, the frame, and the wait for the process.
Its events are queued for the main actor, which is not reentrant: a call of
`ConnectionManager` or `AppController` is an operator.  `applyPoll` awaits nothing and connects
the tablets it found one by one while the threads go on, so it is several actions that keep
the main actor (`MainFree`).

*Abstractions.*  A backend is its flags and the button events it posts: where the cursor goes,
the region and window geometry, keys, keychain, the store, the scan of the network, menus,
the handles of the region and quitting are left out.  A frame is its range and touch bits.

### 3.7 The node store of the rewrite

`NodeStore` has an action for each public call (`Allocate`, `Link`, `Unlink`, `Retire`, `FreeSlot`);
`retire`, which recurses, is cut at each visited link (`VisitChild`) and at each node it leaves
(`LeaveNode`), and `walk` is its call stack.  The state is the fields of `SlotHeader`,
`SlotTable` and `NodeStore`, one function per field; `issued` is a history variable with every
handle `allocate` has returned.

*Environment.*  `allocate` is called for an id that is not bound, as the tests and `handles.md`
do.  `link` is called for a child that does not contain the parent: no line of
`node_store.hpp` refuses a cycle, and `retire` would not end on one.  There is one writer.

*Abstractions.*  Payloads are the type they were made for; of the node fields, the id, the parent and
the children are kept.  Readers are left out: `resolve` loads the generation and then the
state, and a reader between the two needs a memory model.

### 3.8 The USB link and the debug log

`TabletLink` joins `UsbLinkWorker` (the probe and the flag `g_usbEthernetLive` that every
connection obeys), `DebugLogWorker` (a connection with `kTcpRetryLimit` attempts, shipping while
it is asked to) and the desktop's log server with its panel.  The calls queued between threads
are counters (`taps`, `recovers`, `arms`); `wire` is the control lines under way.

*Abstractions.*  The HUD's texts, the ring of lines and its drop counter, the throttle of the
panel and the keep-alive are left out, and so is `debug_request`, on which neither end acts.
`StrokeSync` is compiled and never created.

## 4. What the runs show

| Run | Instance | Expected | Shows |
|---|---|---|---|
| `SyncFirstLink` | one link, 3 edits, none while a load is negotiated | pass | the session implements `ReplicaLog`; the mirror tracks the device and converges |
| `SyncPen` | two links, edits, strokes and hello ticks in the handshake | pass | no load lands under the pen; the tablet's handshake ends |
| `SyncRoughLink` | overlapping sockets, a renderer reload, edits any time | pass | `QueueShape` |
| `SyncOfflineEdit` | an edit while the link is down | violation | finding 1 |
| `HistoryGestures` | commits, pairs, refusals, latched undo and redo, loads, edits off the wire, ring of 2 | pass | `LinearSpec`, `IndexTrue`, the latch, no undo through a later edit; the desktop's copy is the tree or suspect |
| `EraseOverlay` | two strokes of up to five points, both threads | pass | results in order, of this stroke and complete; busy is answered; the newest path appears; the destructor ends |
| `PageEditing` | two gestures of any kind on four pages | pass | strokes and marks stay where they are, ends follow boxes, brush and paste do what they show, undo returns |
| `PageAreaErase` | the same pages | violation | finding 2 |
| `TabletInput` | pen, two fingers, chip and worker; two gestures, two camera moves | pass | gestures can be finished and leave nothing, live ink is kept, changes are shown |
| `NodeStore` | two ids, three slots of two generations, two links each | pass | ids and live nodes agree, a retired node leaves no live child, a retire takes the linked occupancy and never its successor, a stale handle stays stale |
| `TabletLink` | two attempts, one change of cable, two of the desktop, two of the panel, one tap | pass | shipping follows the panel; a tap connects |
| `DriverInput` | one tablet, reads of up to two frames, four things the user does | pass | the button comes up, stop and pause are heeded, the picker holds the input, the session is as saved, a dead stream ends |

### Bounds, and why they are enough

* *Sync.* `MaxEdits`, `MaxLinks`, `MaxReloads`, `MaxGestures` and `MaxTicks` bound the
  environment and nothing else.  Two edits are the least that can be reordered or have a gap,
  a third follows a gap; two links are the least at which state of one link can reach the
  next.  Two nodes allow a create, a remove and a re-create.
* *History.* A ring of depth 2 overflows at the third commit, so `MaxOps = 3` meets a push
  on a full ring by a commit, an undo, a redo and a latched request.  Three ids give a
  removal a node before it and one after it.  `Shapes` names the gestures of a run.
* *Erase.* A search needs three points, so five points allow three paths of one stroke: one
  in work, one pending, one replaced.  Two strokes suffice for a late result.  `MaxGen`
  bounds cancels without a stroke, which change the generation only.
* *Page.* Every gesture is tried on every page after every other, with undo and redo between:
  two gestures (`MaxOps`) are what an interaction takes.  The four pages are a blank one, two
  boxes joined by a connector with a style stroke, a box in a box, and boxes with arms one
  stroke short of a connector.  The thresholds (`EndRadius`, `SnapDist`, `MinWithContent`, `MinEmpty`,
  `MinConnector`, `RemnantFloor`) are a few cells, in the order of the code's; strokes and regions
  were chosen so that each recogniser accepts one and refuses one.
* *Tablet.* Two gestures (`Starts`) are a pen and fingers together, or one after the other;
  two camera moves (`Moves`) go and come back; one result waits in the event queue (`Posted`).
* *Node store.* Three slots in chunks of one make the table grow twice; two generations
  (`MaxGen = 1`) wear a slot out; two links let a child be linked twice, the case for which
  `retire` may meet a node a second time.
* *USB link.* Two attempts (`RetryLimit`) are one to use up and one left; the desktop may drop its
  sockets and quit, or quit and start; the panel is opened and closed; one tap while the cable changes.
* *macOS.* One session meets all its own steps with chunks of two frames (a frame that passed its
  checks and one that has not).  `MaxEvents` bounds the events waiting; a thread that would exceed
  it waits.  Two tablets are left to the proofs: `ActiveAsSaved` holds for any number of them.
* Symmetry is used only where no liveness is checked and the ids or nodes are interchangeable.
* `TabletLink` and the history run keep the deadlock check on; the others turn it off: their
  bounded environment runs out, every slot wears out, and a destroyed operation has nothing left
  to do.

### Fairness

* *Sync.* Weak fairness on receiving at both ends, on both ends noticing a dead socket, on
  redialling (the tablet's connect timer repeats) and on the end of a preview stroke (the pen
  is lifted).  A commit, a gesture and the hello timer are not obliged to happen.  With
  `TabletSettles` and `MirrorConverges` it is the connection that must stay up: the
  properties excuse a dead wire.
* *Erase.* Weak fairness on the worker thread, on the GUI thread leaving `submit` and `stop`, on
  the repeating hit timer and on the event loop.  `compute` is assumed to return.  Nothing
  obliges the pen, so `NewestPathShown` excuses a moved pen.
* *Tablet.* Weak fairness on the raster timer, the worker and the delivery of its result.
  No pen or finger is obliged to do anything; `ChangesAreShown` excuses a hand that moves.
* *USB link.* Weak fairness on the repeating timers (probe, retry, drain), on the queued calls, and
  on what the socket and the IPC channel report.  Cable, desktop and user owe nothing:
  `TapConnects` excuses a desktop that cannot be reached.
* *macOS.* Weak fairness on each thread, on the main actor taking the next event, and on the rest
  of `applyPoll`.  Nothing obliges the user, the watcher or a process to end: `DeadStreamEnds`
  is about one that has.

## 5. Findings

Each is a run whose property quotes the repository's own documents.

1. **An offline edit is lost** (`SyncOfflineEdit`).  Published changes stay in the queue, so a
   reconnect redelivers those the mirror has.  A duplicate does not advance
   `lastAppliedSeq` (`TabletSession.ts:549`), the next change looks like a gap, the mirror turns
   suspect and the epoch load carries it over the edits made offline.
2. **An area erase around nested boxes erases nothing** (`PageAreaErase`).  The plan still edits
   inks and boxes inside a box it has removed (`erase_area.hpp:104-122`), and the style ink of a
   connector it has removed (`endpoint_ink.hpp:184`): the part is refused and the whole gesture
   rolled back.

### Other behaviour met while modelling

The instances above are drawn around it; where a constant is named, changing it shows it.

*Sync and history.*

* A repeated hello that counts the queue puts the desktop from `awaiting_load_ack` back to
  `draining` (`TabletSession.ts:201`): the `load_ack` is ignored and the drain never ends.
* A commit between the drain and the load is published and then wiped by the load
  (`SyncFirstLink` with `EditInHandshake = TRUE`).
* A deferred load outlives its link: accepted without one, it clears the queue the tablet keeps.
* A renderer reload in a live epoch adopts the base of the next change and shows only what
  follows (`SyncFirstLink` with `MaxReloads = 1`: `MirrorTracksDevice`; `SyncPen` with the same:
  `TabletSettles`).
* When a redial overtakes the close of the old socket, the desktop stays in its old epoch and
  ignores the new hello (`SyncPen` with `Overlap = TRUE`: `TabletSettles`).
* The hello timer is silent from the second link on, as `epochLive` is never reset
  (`one_way_sync.hpp:123`).
* An edit refused while the undo ring is full costs the ring its oldest entry, as the push comes
  first (`device_document.hpp:1132`); from then on the document counts as not `tracked`, and
  `LinearSpec` promises nothing.
* Undoing the removal of siblings, by a cut or an eraser, changes the paint order: the inverses
  of a gesture are all taken before it (`device_document.hpp:1182`; `prd.md:717`).  So
  `HistoryReturns` compares contents and not order.
* A gesture refused in a later part is rolled back in the tree and not in the id index
  (`device_document.hpp:1209`).
* The desktop cannot follow the undo of a removal: `opReparent` ignores the node's body
  (`VectorDocument.ts:584`).  A compound change is unknown to it (`VectorDocument.ts:255`), so the
  mirror is suspect until the next load.  A commit kept off the wire (`skipPublish`) is
  not on the desktop until then.
* `abortGesture` does not tell the session, so a load held back for the gesture waits for the
  next commit or the end of a preview.

*Page.*

* `smartGroupsInPaintOrder` does not descend into boxes, so drawing into a nested box joins the
  outer one (ink-box `srs-logic.md:109` says the innermost).
* Erasers, connectors and paste use the transform of the immediate box only (`srs-logic.md:406`).
* Erasing all direct ink of an outer box removes the boxes nested in it, never touched.
* A brush over an outer and a nested box together can be refused, depending on hash order.
* Endpoint bind, join of a box and a connector's making leave two undo entries where
  ink-box `srs-product.md:68`, connector-ink `srs-product.md:77` and `prd.md:752` say one.
* Dissolving an otherwise empty box drops a connector or text it held.
* With one selected ink and a box, any ink counts as the one that surrounds.
* The enclose thresholds are 36 and 42 where ink-box `srs-logic.md:64` says 28 and 36.

*Tablet.*

* A pinch that ends while the pen is drawing releases the pen's lock
  (`toolcanvasitem.cpp:352`; `TabletInput` with `Racing = TRUE`: `InFlightIsLocked`).
* Both fingers lifting in one frame leaves `lockedUntilLift` set (`Main.qml:85`).
* A stale `m_clearedOnTap` makes a later pinch in ink mode switch to the freeform selection.
* `applyEdit`'s result is ignored when a transform is committed.
* A full repaint due during a stroke would be dropped by the raster timer; nothing asks for one then.
* A dirty box painted when the bitmap is still at another camera mixes two cameras, and clears
  `m_cameraNeedsSharp` for the whole panel (`tabletcanvasitem.cpp:1265`).
* An area erase marks only its last point dirty; a tap of one sample paints a dot that is not kept.
* `event-flow.md:236` says `cancelHandTouch` clears the latch; it does not.

*Node store and USB link.*

* `handles.md` says that a leaf refuses children and that a child is put by binary search; `link`
  checks no type, and scans (`node_store.hpp`).
* `net_retry.hpp:25` calls the limit a hard cap that only a plug edge or a tap resets; it is reset by
  every connect and disconnect too.
* `net_retry.hpp:29` calls the timer's probe read-only; `refresh` assigns the address on it.
* A drop count is lost when `takeAll` finds the queue empty.
* A renderer that reloads leaves `debugPanelOpen` set: shipping goes on with the panel closed.

*macOS.*

* With two tablets, a picker can close over a paused session.  Tablet 1 is toggled twice while it
  connects, which leaves a session nobody stops; tablet 2 is toggled, with a native pen whose driver
  falls back; absolute mode is chosen, so that the picker is up and the session is paused; the
  fallback puts the mode back to relative; the first tablet's late "stopped" clears
  `activeSessionConnected`; choosing absolute in the settings closes the picker, and `updateOverlay`
  does not reopen it.  The 13 steps are within `DriverApp`; `PickerHolds` needs its hypothesis for this.
* `connect` of a connection still connecting starts a second session and never stops the first
  (connection-management `srs-logic.md:57`); its late events set the state of its successor.
* `stop` during `connectPenStream` finds no process, and the thread waits for the one it then gets.
* `AbsolutePenDriver.cleanup` keeps `wasTouching`.
* An automatic connect that failed is not retried until the tablet goes and comes back.
* A native stylus error is cleared by the next frame, and its reports are sent from unordered tasks.
* A connect to an id that is not saved disconnects the current one first.

## 6. What is proved

For every value of the constants, without bounds on the environment other than the counters
themselves (which may be any naturals):

* `OneWaySyncProofs`: `TypeCorrect`, `QueueStaysShaped`, `PenKeepsItsTree`.
  `Inv == TypeOK /\ QueueShape` is inductive.  A lemma for each handler says that it keeps a
  well-formed record well-formed; the step lemma has one case for each action.  The shape
  of the queue is needed for the types already: `SubSeq` from the cursor is a sequence of
  changes only as the cursor stays within the queue.  The pen's property follows from a lemma that none
  of the handlers for which no load is accepted touches tree, gesture or preview.
  These hold for any number of links and reloads.  `MirrorTracks`, `FirstLinkLosesNothing` and
  `FirstLinkIsReplica` are about the first link session, `FirstLink`: the tablet may be drawn on
  before it, the socket may die at any moment of it, but it is not redialled, the renderer is not
  reloaded and no load has had to wait for the pen; and the pen waits for the handshake
  (`EditInHandshake = FALSE`).  Each hypothesis is needed: beyond it the code loses edits or goes on
  from a wrong base (section 5, finding 1 and the first points on sync).
  The invariant is `Joined == Inv /\ \E D, P : J(D, P)`.  `D` is what the tablet's document was
  after each change of the queue, and `P` is the reading plan: how many changes of the queue the
  mirror will have applied after each event of the wire.  `J` says that the wire reads off the
  queue that way (`MirrorOK`: `P` grows by one at a change that is not a duplicate, the mirror
  has what is up to `P[0]`, and its `last` fits the next one), that notices, hello and
  `queue_empty` come where they may (`EventsOK`), that a load on its way holds the document the
  queue ends with (`LoadsOK`), and how the flags of the link go together (`LinkOK`).  `D` and `P` are
  constants of a step: a lemma for each action names the next ones.  Every step moves the two copies
  in one of four ways (`Moves`): not at all, an accepted load empties a queue the mirror has all of,
  the creator draws, or the mirror shows the next edit.  These are the steps and the stuttering of `ReplicaLog`.
* `UndoHistoryProofs`, for any depth of the rings, any gestures and any bounds, under
  `DepthAssumption`, `ShapesAssumption` and `ValsAssumption`.  The first part is about the rings and the
  latch: `RingsStayBounded`, `NoRequestLeftBehind`, `RequestsWaitForGesture`; there a ring is "a
  sequence no longer than `Depth`", whatever its entries hold.  The second is about what they hold:
  `TypeCorrect`, `IndexStaysTrue`, `MirrorFollowsHolds`, `NothingUndoneThrough`, all from
  `SoundInv`.  Its parts are `Good`, of the document and the entries (the ids of the tree are
  distinct and the index is their inverse; the edits of an entry name only its targets; no
  `lastOpId` is later than the last commit), and `Clean`, of what the mirror depends on.  The
  mirror cannot follow the undo of a removal, so `MirrorFollows` alone is not inductive:
  `Clean` says that as long as it is not suspect each entry is one edit with its counterpart of
  a matching kind (`UndoPairs`, `RedoPairs`), and that no node carries the opId of a removal
  still in the undo ring (`Free`), so that the guard against undoing through later edits never
  refuses half of what was published.
  The edits of a gesture are applied by a recursive function over the list of them.  What it returns
  is proved by induction on its length: `InductionSet` states induction for a *set* of numbers that
  contains 0 and each successor, from the well-foundedness of the naturals, so no operator is
  passed as a parameter.
  The third part is a refinement: `SingleEditsAreLinear`, under the hypothesis that every gesture is
  one edit (the creation, paste, removal or change of one node).  `LinearInv` adds to `SoundInv` that,
  while everything is tracked, each ring is a `Chain`: its newest entry applies to the document as
  it is, and each other entry to the tree the next newer one leads to.  An edit and its inverse lead from
  one tree to the other *exactly*, with paint order and `lastOpId`s (`UndoStep`, `RedoStep`), so no
  entry of a chain is ever blocked and a step keeps both rings chains (`HistoryLinear`).  A weaker
  invariant, that an undo shows the right content, is not inductive: the guard against undoing
  through another edit reads the `lastOpId`s.
* `EraseOverlayProofs`: `TypeCorrect`, `ResultsComeInOrder`, `FramesAreOfThisStroke`,
  `BusyHasAnAnswer`.  The inductive invariant adds to these:
  `Handshake` (while `submit` is between its accesses its request is pending, and a search cut
  short implies the flag is still raised, so that it is never delivered), `JobsOfStroke`
  (a job whose generation is not stale belongs to the stroke being drawn and has at most its
  points) and the order of generations over events, work and pending.  Without the order the
  frames could be of an older stroke; without `Handshake` the raised flag might hit the
  new request.
* `DriverAppProofs`: `Types`, `MouseLeftAlone`, `ActiveAsSaved`, for any set of tablets and any
  number of sessions, frames in a read, polls and user calls.  The inductive invariant `Inv`
  has two parts that the properties lack.  `SessionOK` says of every session that the button is
  where its backend says (so that `cleanup` lets it go; a native backend never has it down)
  and that a frame already past its checks (`pc = "handle"`) has not yet been counted as late:
  without this the bound of one late frame is not inductive.  `ActiveOK` says that the active
  session is one of the active connection, which is saved: without it the mode could
  be given to one connection and the session be of another.  A lemma for each call of the
  main actor and each step of the thread keeps its part; the controller's calls are made of the
  manager's.  The assumptions are that `MaxChunk`, `MaxEvents`, `MaxUser` and `MaxPolls` are
  naturals, there is at least one session, "none" is no tablet, and the auto-connected tablets are
  tablets.
  The last part of the module is `PickerHolds`, under the hypothesis that there is one tablet; with two it is
  false (section 5).  The
  invariant adds to `Inv` that a paused session is connected and being picked for, so that
  `updateOverlay` is sure to reopen the picker.  The lemmas follow the calls: none leaves a session
  paused that was not, or disconnects a paused one (`Calmer`); a session that ends is the active
  one, as there is no other.
* `TabletProofs`, of `TabletInput`: `TypeCorrect`, `InkStays`, `PictureNeverOlder`
  for any `Racing`; `OperationIsLocked`, `RestLeavesNothing`, `PenComesFirst` under `~Racing`: a pen
  frame that overtakes the touches it displaces breaks each of them (section 5).
  The invariant has three parts.  `CanvasOK` relates the canvas's flags to its bitmap: what a cell
  shows and what repaint is still owed for it.  `Types` adds the host and the worker: a result that
  is still to come belongs to an epoch before the stroke in progress or is applied as a deferred one.
  `Hand` says whose the operation in progress is: what is begun is held by the lock, the lock is
  held by the pen or by the fingers that are down, and what rests holds nothing.  Each operator
  of `ToolHost` has a lemma with what it lets go and what it leaves alone.
* `NodeStoreProofs`: `IdsFindTheLive`, `RetireIsExact`, `StaleStaysStale`, and of
  the model's own structure `NoSlotTwice` (every slot is in one place), `NoFrameTwice` (a running
  `retire` is in no node twice, hence ends) and `PaintOrderKept`, for any number of slots,
  generations, chunks, links and ids.  The invariant needs `Tree` (what a node contains
  never contains it, by the guard of `Link`) for `Frames`: the frames of `retire` are live nodes,
  each the child of the one before, and what lies behind a frame's position is gone.  A retire leaves
  a node only when the whole list is behind it, and enters what the link names; the two make
  `RetireTakesSubtree`.
* `TabletProofs`, of `TabletLink`: `PanelHolds`, for any bounds.  What the tablet is told goes through two queues,
  so the invariant says what each will make of its end: the calls of the panel are pairs whose last
  says how the panel is, and what the tablet will do when it has read every line (`Told`) is what the
  main process believes, except between the two calls of one toggle.  A line told on a
  connection that ends is forgotten with it, as `OnConnected` starts from what the main
  process believes and not from what was said before.

* `PageProofs`, on `PageTreeProofs`: `PageStaysTree`, `HistoryStays`, `LatchedUndoTakesAllHolds` and
  `NoGhostBoxStays`, all from `Invariance`, for any pages, strokes, regions, thresholds and bounds under the assumptions of 3.4 and
  `SizesAssumption`, `FloorAssumption`.
  *The invariant.*  `Inv == Sane(doc) /\ SlotOK(slot, doc.next)`.  A document is `Sane` when no undo is latched and
  (`DocOK`) its page is `PageOK` and each entry of either ring `Leads` from one page to another: on *any* page with the
  outline of the entry's `post` its edits are not stale, all apply, and what results has the outline of its
  `pre`.  Or a gesture was refused (`Broken`, `doc.stuck`): then the page is still a tree.
  `HistoryReturns` alone is not inductive, as it says nothing of the entries further down the ring or of
  what the inverses do.  `SlotOK` says that the clipboard holds bodies whose ids were handed out.
  *Outlines.*  An outline is the page without the order of siblings, the parent of every id.  A lemma for each
  edit (`AppendFits`, `GroupFits`, ...) says that the edit on the page, with its insertions into lists and
  its detaching, is the edit on the outline, which is prunings and graftings.  The order has to be forgotten,
  for the code does not bring it back (section 5).
  *Undoing.*  The inverses of a gesture are all captured on the page before it and then run one after the
  other on the page after it.  `Mending` relates the outline half-way to the one before the gesture:
  which nodes are still missing, which are still extra, and which fields of which nodes are
  still open.  `MendTurn` says that the next inverse applies and leaves less to mend; `Marring`
  says the same of the parts of a gesture going forward.  At the end only `lastOpId`s and the poses of connectors
  may differ, and stamping and refreshing settle both (`SettleSame`).  So an undo lands on the page its
  entry began with, and the entry, turned, leads back (`UndoIs`, `RedoIs`).
  *Gestures.*  A gesture of parts is sound if its parts are planned on one page and make different ids
  (`Planned`); a gesture of one edit if it is `Reverted` by its inverse.  For each eraser, grouping, drag, paste and
  recogniser a lemma (`BrushSane`, `MoveSane`, `ConnectorSane`, ...) says that what it commits is one of
  these.  For the area eraser, whose parts the code does refuse (section 5, finding 2), it says that either all
  parts apply or the document is `Broken`.
  The walks up and down the tree and the runs of edits are recursive functions over lists; what they
  return is proved by induction on sets of numbers, as for `UndoHistory`.
  *Boxes without ink.*  `NoGhostBoxStays` is `Spec /\ NoGhostBox => []NoGhostBox`: nothing in the code that loads a
  document looks for such boxes, so that the first page has none is a hypothesis of the theorem and not of
  the model.  `NoGhostBox` is not inductive, since an undo may go to any page of the rings and a paste may bring any body
  of the clipboard.  `Fill` adds both: the page, the `pre` and `post` of every entry, and the bodies of the
  slot are `Inked`.  Each lemma of a gesture concludes `Fills`, that a filled document stays filled unless the
  gesture was refused: what a recogniser or a grouping makes holds an ink (`GroupInked`, `ConnectorInked`); an eraser
  that takes all inks of a box takes the box (`Spares`, `CullInked`), which needs the walk of
  `EmptiedBoxes` to find every such box; what it keeps of a box is an ink of that box; a cut takes root nodes
  or a box, never an ink out of one (`Selected`).  Undo and redo need nothing but the rings.

Model-checked only:

* liveness (`TabletSettles`, `MirrorConverges`, `NewestPathShown`, `DestroyEnds`, `DeadStreamEnds`, `ChangesAreShown`,
  `TapConnects`), which the provers cannot reason about;
* `LinearHistory` for gestures of several edits, since two removals in one gesture may return in another
  paint order, so that it holds of some gestures only, among them the pairs `HistoryGestures` runs;
* `PenUpKeepsStroke`, `MarksStayPut`, `EndsFollow`, `BrushTakesItsSweep`, `PasteLands`: they are about cells, sums of
  transforms and what a filter of intervals leaves, and hold on the pages of the run and not on all (each has the
  exceptions of section 5, as nested boxes whose transforms the code composes in one place only);
* `AreaTakesWhole` is false (finding 2).

## 7. Plan

In order; the most valuable first.

1. `LinearHistory` for gestures of several edits that remove at most one node.
2. `MirrorTracks` under weaker hypotheses, as a reload of the renderer before the first epoch.
3. `ViewportFollow`: who follows whom when both ends toggle with the same sequence number.
4. `DesktopUndo`: the snapshot ring, to implement `LinearHistory` without redo.

## 8. Not modelled

Viewport follow and the desktop's undo ring are parts with state that the plan has left.  The
drawing of pixels, the e-ink bridge, the desktop's canvas, its SVG profile and the layout of both
interfaces have no state with an order to it beyond what is modelled.  USB gadget setup, the
canvas session file and the region session are plain input and output with one writer.  Of the
parts that are modelled, section 3 names what is left out.  `PROJECT.json` lists each part with its
reason.
