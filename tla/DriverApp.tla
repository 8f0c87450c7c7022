----------------------------- MODULE DriverApp -----------------------------
(***************************************************************************)
(* The macOS app as a whole: the main actor with its user, its run loop    *)
(* and the USB watcher (Discovery.swift), the threads of its driver        *)
(* sessions, and the tablets that come and go.                             *)
(***************************************************************************)
EXTENDS AppController, FiniteSets

CONSTANTS AutoConnect,    \* connections with autoConnect set
          MaxEvents,      \* session events waiting for the main actor
          MaxUser,        \* things the user does in a run, answers to the picker apart
          MaxPolls        \* polls in a run

ASSUME AppAssumption ==
    /\ AutoConnect \subseteq Conns
    /\ MaxEvents \in Nat /\ MaxUser \in Nat /\ MaxPolls \in Nat

VARIABLES
    app,     \* what the main actor keeps
    queue,   \* session events posted to it
    poll,    \* USBWatcher: pollTask's connections, wasReachable, and applyPoll
    done     \* what MaxUser and MaxPolls bound

vars == <<app, queue, poll, done>>

Init ==
    /\ \E mode \in [Conns -> OutputMode] :    \* as the file of connections says
        app = [m |-> [saved |-> Conns, mode |-> mode,
                      lastMouse |-> [c \in Conns |-> Keep(mode[c], None)],
                      reachable |-> {}, errors |-> {}, statuses |-> {},
                      active |-> None, connected |-> FALSE, session |-> NoSid,
                      sessions |-> [s \in Sids |-> Unused], started |-> 0,
                      refresh |-> FALSE],
               u |-> Idle]
    /\ queue = <<>>
    /\ poll = [asked |-> <<>>, wasReachable |-> {}, reached |-> {}, newlyOnline |-> {},
               applying |-> FALSE]
    /\ done = [user |-> 0, polls |-> 0]

-----------------------------------------------------------------------------
(* The session threads, and the processes they read from. *)

Thread(s) ==
    /\ \E out \in ThreadSteps(app.m.sessions[s]) :
        /\ Len(queue) + Len(out.emits) <= MaxEvents
        /\ app' = [app EXCEPT !.m.sessions[s] = out.session]
        /\ queue' = queue \o [i \in DOMAIN out.emits |->
                        [kind |-> out.emits[i].kind, active |-> out.emits[i].active,
                         conn |-> out.session.conn]]
    /\ UNCHANGED <<poll, done>>

\* The tablet is unplugged, or the remote dd ends.
StreamEnds(s) ==
    /\ app.m.sessions[s].process = "running"
    /\ \E how \in {"ended", "broken"} : app' = [app EXCEPT !.m.sessions[s].process = how]
    /\ UNCHANGED <<queue, poll, done>>

-----------------------------------------------------------------------------
(* The main actor; applyPoll keeps it for several steps. *)

MainFree == ~poll.applying

SessionEvent ==
    /\ MainFree /\ queue # <<>>
    /\ app' = [app EXCEPT !.m = HandleSessionEvent(@, Head(queue))]
    /\ queue' = Tail(queue)
    /\ UNCHANGED <<poll, done>>

Refresh ==
    /\ MainFree /\ app.m.refresh
    /\ \E life \in LifeNow(app) : app' = RefreshMenu([app EXCEPT !.m.refresh = FALSE], life)
    /\ UNCHANGED <<queue, poll, done>>

Ui == MainFree /\ done.user < MaxUser /\ done' = [done EXCEPT !.user = @ + 1] /\ UNCHANGED <<queue, poll>>

Toggle(c) ==
    /\ CanStart(app.m)
    /\ \E life \in LifeNow(app) :
        app' = RefreshMenu([app EXCEPT !.m = ToggleConnection(@, c)], life)
    /\ Ui

RemoveTablet(c) == c \in app.m.saved /\ app' = [app EXCEPT !.m = RemoveConnection(@, c)] /\ Ui

ChooseMode(mode) ==
    /\ ShownConnected(app) /\ ActiveMode(app) # mode
    /\ \E life \in LifeNow(app) : app' = SwitchToMode(app, mode, life)
    /\ Ui

ChooseModeInSettings(c, mode) ==
    /\ c \in app.m.saved /\ app.m.mode[c] # mode
    /\ \E life \in LifeNow(app) : app' = SettingsModeChanged(app, c, mode, life)
    /\ Ui

ChooseWindow ==
    /\ ShownConnected(app) /\ ActiveMode(app) = "absolute"
    /\ app' = RestartPick(app)
    /\ Ui

PickWindow ==
    /\ app.u.picker
    /\ \E found \in BOOLEAN, life \in Lifecycle :
        /\ found \/ life = "closed"
        /\ app' = Picked(app, found, life)
    /\ MainFree /\ UNCHANGED <<queue, poll, done>>

LeavePicker ==
    /\ app.u.picker
    /\ \E life \in LifeNow(app) : app' = PickCancelled(app, life)
    /\ MainFree /\ UNCHANGED <<queue, poll, done>>

Tick ==
    /\ MainFree /\ app.u.follow /\ ~app.u.picking
    /\ ActiveSaved(app) /\ app.u.snapped = app.m.active /\ ActiveMode(app) = "absolute"
    /\ \E life \in LifeNow(app) : app' = FollowTick(app, life)
    /\ UNCHANGED <<queue, poll, done>>

-----------------------------------------------------------------------------
(***************************************************************************)
(* USBWatcher.  A poll looks for the connections there were when it began  *)
(* and is applied to those there are when it ends: the tablets that came   *)
(* online are connected one by one, in the order of a Set, and the active  *)
(* one is dropped when it went offline.  The session threads go on.        *)
(***************************************************************************)
SchedulePoll ==
    /\ MainFree /\ poll.asked = <<>>
    /\ poll' = [poll EXCEPT !.asked = <<app.m.saved>>]
    /\ done.polls < MaxPolls /\ done' = [done EXCEPT !.polls = @ + 1]
    /\ UNCHANGED <<app, queue>>

ApplyPoll ==
    /\ MainFree /\ poll.asked # <<>>
    /\ \E reached \in SUBSET poll.asked[1] :
        LET online == app.m.saved \cap AutoConnect \cap (reached \ poll.wasReachable)
        IN  /\ app.m.started + Cardinality(online) <= MaxSessions
            /\ app' = [app EXCEPT !.m = UpdateReachability(@, reached)]
            /\ poll' = [poll EXCEPT !.asked = <<>>, !.applying = TRUE, !.reached = reached,
                                    !.newlyOnline = online]
    /\ UNCHANGED <<queue, done>>

AutoConnected(c) ==
    /\ c \in poll.newlyOnline /\ CanStart(app.m)
    /\ app' = [app EXCEPT !.m = Connect(@, c)]
    /\ poll' = [poll EXCEPT !.newlyOnline = @ \ {c}]
    /\ UNCHANGED <<queue, done>>

DropOffline(m, reached) ==
    IF m.saved # {} /\ m.active \in poll.wasReachable \ reached THEN Disconnect(m) ELSE m

PollApplied ==
    /\ poll.applying /\ poll.newlyOnline = {}
    /\ app' = [app EXCEPT !.m = DropOffline(@, poll.reached)]
    /\ poll' = [poll EXCEPT !.wasReachable = poll.reached, !.reached = {}, !.applying = FALSE]
    /\ UNCHANGED <<queue, done>>

Applying == (\E c \in Conns : AutoConnected(c)) \/ PollApplied

-----------------------------------------------------------------------------
User ==
    \/ \E c \in Conns : Toggle(c) \/ RemoveTablet(c)
    \/ \E mode \in OutputMode : ChooseMode(mode)
    \/ \E c \in Conns, mode \in OutputMode : ChooseModeInSettings(c, mode)
    \/ ChooseWindow \/ PickWindow \/ LeavePicker

Next ==
    \/ \E s \in Sids : Thread(s) \/ StreamEnds(s)
    \/ SessionEvent \/ Refresh \/ User \/ Tick
    \/ SchedulePoll \/ ApplyPoll \/ Applying

Spec == Init /\ [][Next]_vars

\* Threads are scheduled and the main run loop turns.
FairSpec ==
    /\ Spec /\ WF_vars(SessionEvent) /\ WF_vars(Applying)
    /\ \A s \in Sids : WF_vars(Thread(s))
-----------------------------------------------------------------------------
(* Properties *)

TypeOK ==
    /\ app \in App
    /\ \A i \in DOMAIN queue : queue[i].conn \in Conns
    /\ poll.wasReachable \cup poll.reached \cup poll.newlyOnline \subseteq Conns

Sessions == {app.m.sessions[s] : s \in Sids}

\* A session that is over, stopped or paused leaves the mouse alone: however it
\* ends, by a stop or a broken stream in any step, after any mode change or
\* pause, the left button is up (cleanup() on every path), and a stop or a
\* pause lets one more frame through at most, one that had passed its checks.
HandsOff ==
    \A s \in Sessions :
        /\ s.pc \in {"waiting", "done"} => ~s.button
        /\ s.late <= 1 /\ s.latePaused <= 1

\* The picker is on screen exactly while the flag says so, and only it holds
\* input back: a flag left set makes startPick do nothing for good, a pause
\* left behind silences the pen.
PickerHoldsInput ==
    /\ app.u.picker = app.u.picking
    /\ app.m.session # NoSid /\ app.m.sessions[app.m.session].paused => app.u.picking

\* The connection that is active is a saved one and its session has the mode
\* saved for it, whatever poll, event or removal was under way.
SessionIsAsSaved ==
    /\ app.m.active # None => app.m.active \in app.m.saved
    /\ app.m.session # NoSid =>
          LET s == app.m.sessions[app.m.session] IN s.mode = app.m.mode[s.conn]

\* A session whose stream is over, however it ended, ends.
DeadStreamEnds ==
    \A s \in Sids : app.m.sessions[s].process \notin {"none", "running"}
                        ~> app.m.sessions[s].pc = "done"
=============================================================================
