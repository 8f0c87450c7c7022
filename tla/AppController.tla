--------------------------- MODULE AppController ---------------------------
(***************************************************************************)
(* What the macOS app does around a connection: the window picker of the   *)
(* Absolute mode, the overlay of the region it maps to and the timer that  *)
(* follows the window (AppController.swift, with the picker of             *)
(* Overlays.swift and the state of WindowSnap.swift).  Windows and regions *)
(* are left out but for the lifecycle of the snapped window, which the     *)
(* window server decides.                                                  *)
(***************************************************************************)
EXTENDS ConnectionManager

Lifecycle == {"closed", "minimized", "maximized", "normal"}

Controller == [
    picking : BOOLEAN, picker : BOOLEAN,         \* the flag; the picker's windows
    snapped : Conns \cup {None},                 \* snappedConnectionID
    snappedWindow : BOOLEAN,                     \* WindowSnapController has one
    windowState : Lifecycle,                     \* snappedWindowState
    follow : BOOLEAN, overlay : BOOLEAN]         \* followTimer; regionOverlay shown

Idle == [picking |-> FALSE, picker |-> FALSE, snapped |-> None, snappedWindow |-> FALSE,
         windowState |-> "normal", follow |-> FALSE, overlay |-> FALSE]

\* The state the main actor keeps: the manager's and the controller's.
App == [m : Manager, u : Controller]

ActiveSaved(a) == a.m.active \in a.m.saved
ActiveMode(a) == a.m.mode[a.m.active]

StartPick(a) ==
    IF a.u.picking THEN a
    ELSE [m |-> PauseInput(a.m),
          u |-> [a.u EXCEPT !.picking = TRUE, !.picker = TRUE, !.overlay = FALSE,
                            !.follow = FALSE]]

\* Mutant: the picker is closed and the flag left set.
CancelPickKeepsFlag(a) == [a EXCEPT !.u.picker = FALSE]

CancelPick(a) ==
    IF a.u.picking THEN [a EXCEPT !.u.picking = FALSE, !.u.picker = FALSE] ELSE a

\* What updateOverlay does away from an absolute connection.
NoOverlay(u) == [u EXCEPT !.overlay = FALSE, !.follow = FALSE, !.snapped = None]

ShownConnected(a) == ActiveSaved(a) /\ a.m.connected

\* updateOverlay: the picker opens for an absolute connection with no window.
UpdateOverlay(a, life) ==
    CASE ~ShownConnected(a) -> IF a.u.picking THEN a ELSE [a EXCEPT !.u = NoOverlay(@)]
      [] ShownConnected(a) /\ ActiveMode(a) # "absolute" -> [a EXCEPT !.u = NoOverlay(@)]
      [] OTHER -> IF a.u.picking THEN a
                  ELSE IF a.u.snapped # a.m.active THEN StartPick(a)
                  ELSE [a EXCEPT !.u.follow = TRUE,
                                 !.u.overlay = @ \/ "minimized" \notin {life, a.u.windowState}]

\* The window server's answer; with no window there is one only.
LifeNow(a) == IF a.u.snappedWindow THEN Lifecycle ELSE {"closed"}

RefreshMenu(a, life) == UpdateOverlay(a, life)

RevertToRelative(a, c, life) ==
    LET b == CancelPick(a)
    IN  IF c \notin b.m.saved THEN b
        ELSE RefreshMenu(
            [m |-> ResumeInput(UpdateConnection(b.m, c, "relative")),
             u |-> [NoOverlay(b.u) EXCEPT !.snappedWindow = FALSE, !.windowState = "normal"]],
            life)

\* picked: the picker closed itself before.  The window may not be found.
Picked(a, found, life) ==
    LET b == [a EXCEPT !.u.picker = FALSE, !.u.picking = FALSE]
    IN  IF ~ActiveSaved(a) THEN b
        ELSE RefreshMenu(
            [m |-> ResumeInput(UpdateConnection(a.m, a.m.active, "absolute")),
             u |-> [b.u EXCEPT !.snapped = a.m.active, !.windowState = "normal",
                               !.snappedWindow = found]], life)

PickCancelled(a, life) ==
    LET b == [a EXCEPT !.u.picker = FALSE, !.u.picking = FALSE]
    IN  IF ActiveSaved(b) THEN RevertToRelative(b, b.m.active, life) ELSE b

SwitchToMode(a, mode, life) ==
    CASE mode = "relative" -> RevertToRelative(a, a.m.active, life)
      [] mode = "absolute" ->
            LET b == CancelPick([a EXCEPT !.u.snapped = None,
                                          !.m = UpdateConnection(@, a.m.active, mode)])
            IN  RefreshMenu(b, life)
      [] OTHER ->
            LET b == CancelPick(a)
            IN  RefreshMenu([m |-> UpdateConnection(ResumeInput(b.m), a.m.active, mode),
                             u |-> NoOverlay(b.u)], life)

RestartPick(a) == StartPick([CancelPick(a) EXCEPT !.u.snapped = None])

\* The settings window has updated the connection when it tells the controller.
SettingsModeChanged(a, c, mode, life) ==
    LET b == [a EXCEPT !.m = UpdateConnection(@, c, mode)]
        d == CancelPick([b EXCEPT !.u.snapped = None])
    IN  CASE b.m.active # c -> RefreshMenu(b, life)
          [] b.m.active = c /\ mode = "relative" -> RevertToRelative(b, c, life)
          [] b.m.active = c /\ mode = "absolute" -> RefreshMenu(d, life)
          [] OTHER -> RefreshMenu([m |-> ResumeInput(d.m), u |-> NoOverlay(d.u)], life)

\* followTick, for the connection the timer's window belongs to.
FollowTick(a, life) ==
    CASE life = "closed" ->
            RevertToRelative([a EXCEPT !.u.windowState = "closed"], a.m.active, life)
      [] life = "minimized" ->
            [a EXCEPT !.u.overlay = FALSE, !.u.windowState = "minimized"]
      [] life = "maximized" ->
            [a EXCEPT !.u.overlay = TRUE, !.u.windowState = "maximized", !.m.refresh = TRUE]
      [] OTHER ->
            IF a.u.windowState \in {"minimized", "maximized"}
            THEN [a EXCEPT !.u.overlay = TRUE, !.u.windowState = "normal", !.m.refresh = TRUE]
            ELSE [a EXCEPT !.m.refresh = TRUE]
=============================================================================
