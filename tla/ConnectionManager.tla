------------------------- MODULE ConnectionManager -------------------------
(***************************************************************************)
(* The macOS app's registry of tablets and the one it is connected to      *)
(* (ConnectionManager, macOS/Sources/ReawaApp/ConnectionManager.swift).    *)
(* Everything runs on the main actor, so an operator is a whole call: it   *)
(* takes the app's state and returns the next one.  The store, the         *)
(* keychain and the log are left out; a saved connection is its id and its *)
(* output mode.                                                            *)
(***************************************************************************)
EXTENDS DriverSession

CONSTANTS MaxSessions   \* sessions a run may start

ASSUME ManagerAssumption == MaxSessions \in Nat \ {0} /\ None \notin Conns

Sids == 1..MaxSessions
NoSid == 0

Manager == [
    saved : SUBSET Conns,                        \* connections
    mode : [Conns -> OutputMode],                \* their deviceConfig.outputMode
    lastMouse : [Conns -> MouseEmulation \cup {None}],
    reachable : SUBSET Conns, errors : SUBSET Conns, statuses : SUBSET Conns,
    active : Conns \cup {None},                  \* activeConnectionID
    connected : BOOLEAN,                         \* activeSessionConnected
    session : Sids \cup {NoSid},                 \* activeSession
    sessions : [Sids -> Session], started : 0..MaxSessions,
    refresh : BOOLEAN]   \* an objectWillChange the main run loop has not delivered

Keep(mode, old) == IF mode \in MouseEmulation THEN mode ELSE old

Status(a, c) ==
    CASE a.active = c /\ a.connected -> "connected"
      [] c \in a.errors -> "error"
      [] c \in a.reachable -> "online"
      [] OTHER -> "offline"

OnSession(a, Op(_)) ==
    IF a.session = NoSid THEN a ELSE [a EXCEPT !.sessions[a.session] = Op(@)]

Disconnect(a) ==
    [OnSession(a, StopSession) EXCEPT
        !.session = NoSid, !.statuses = @ \ {a.active},
        !.active = None, !.connected = FALSE, !.refresh = TRUE]

CanStart(a) == a.started < MaxSessions

Begin(a, c) ==
    LET sid == a.started + 1
    IN  [a EXCEPT !.errors = @ \ {c}, !.active = c, !.connected = FALSE,
                  !.lastMouse[c] = Keep(a.mode[c], @),
                  !.sessions[sid] = StartSession(c, a.mode[c]),
                  !.session = sid, !.started = sid, !.refresh = TRUE]

\* connect: the other connection is dropped before this one is looked up; the
\* same connection still connecting is not recognised and gets a second session.
Connect(a, c) ==
    IF a.active = c /\ a.connected THEN a
    ELSE LET b == IF a.active \notin {None, c} THEN Disconnect(a) ELSE a
         IN  IF c \in b.saved THEN Begin(b, c) ELSE b

ToggleConnection(a, c) ==
    IF a.active = c /\ a.connected THEN Disconnect(a) ELSE Connect(a, c)

\* Mutant: the config is saved and the running session not told.
UpdateConnectionSavesOnly(a, c, mode) ==
    IF c \notin a.saved THEN a
    ELSE [a EXCEPT !.mode[c] = mode, !.lastMouse[c] = Keep(mode, @), !.refresh = TRUE]

UpdateConnection(a, c, mode) ==
    IF c \notin a.saved THEN a
    ELSE LET b == [a EXCEPT !.mode[c] = mode, !.lastMouse[c] = Keep(mode, @),
                            !.refresh = TRUE]
             Config(s) == UpdateConfig(s, mode)
         IN  IF b.active = c THEN OnSession(b, Config) ELSE b

RemoveConnection(a, c) ==
    LET b == IF a.active = c THEN Disconnect(a) ELSE a
    IN  [b EXCEPT !.saved = @ \ {c}, !.reachable = @ \ {c}, !.errors = @ \ {c},
                  !.refresh = TRUE]

\* updateReachability, and setDiscoveredIPs that always comes with it.
UpdateReachability(a, reached) ==
    [a EXCEPT !.errors = @ \ (a.reachable \ reached), !.reachable = reached,
              !.refresh = TRUE]

PauseInput(a) == OnSession(a, PauseSession)
ResumeInput(a) == OnSession(a, ResumeSession)

-----------------------------------------------------------------------------
(* handleSessionEvent: an event names the connection, not the session. *)

Drop(a, c) == IF a.active = c THEN [a EXCEPT !.active = None, !.session = NoSid] ELSE a

OnFailed(a, c) ==
    [Drop(a, c) EXCEPT !.connected = FALSE, !.errors = @ \cup {c}, !.statuses = @ \ {c}]

OnModeFallback(a, c, active) ==
    IF c \notin a.saved THEN a
    ELSE UpdateConnection(a, c, IF active \in MouseEmulation THEN active
                                ELSE IF a.lastMouse[c] = None THEN "relative"
                                ELSE a.lastMouse[c])

HandleSessionEvent(a, e) ==
    LET b == CASE e.kind = "connected" -> [a EXCEPT !.connected = TRUE]
               [] e.kind = "stopped" -> [Drop(a, e.conn) EXCEPT !.connected = FALSE]
               [] e.kind = "failed" -> OnFailed(a, e.conn)
               [] e.kind = "statusSet" -> [a EXCEPT !.statuses = @ \cup {e.conn}]
               [] e.kind = "statusGone" -> [a EXCEPT !.statuses = @ \ {e.conn}]
               [] OTHER -> OnModeFallback(a, e.conn, e.active)
    IN  [b EXCEPT !.refresh = TRUE]
=============================================================================
