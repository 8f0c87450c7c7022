----------------------------- MODULE TabletLink -----------------------------
(***************************************************************************)
(* The USB link of the tablet and the debug log that is shipped over it:   *)
(* UsbLinkWorker (usb_link.cpp), which probes usb0 and sets the flag every *)
(* connection obeys; DebugLogWorker (debug_log_ship.cpp), which connects   *)
(* to the desktop a limited number of times and ships while it is asked    *)
(* to; and the desktop's log server and panel (main.cjs,                   *)
(* DeviceLogChrome.tsx), which ask.                                        *)
(*                                                                         *)
(* Three threads of the tablet and two processes of the desktop, joined by *)
(* queued calls: `taps', `recovers' and `arms' count calls not yet run.    *)
(* The lines of the log, the texts of the HUD and the keep-alive of TCP    *)
(* are left out.  debug_request is left out: neither end acts on it.       *)
(***************************************************************************)
EXTENDS Integers, Sequences

CONSTANTS
    RetryLimit, \* kTcpRetryLimit
    MaxCable,   \* bound: times the cable or the address changes
    MaxDesk,    \* bound: times the desktop starts, quits or drops its sockets
    MaxPanel,   \* bound: times the log panel is opened or closed
    MaxTaps     \* bound: taps of the USB button

ASSUME LinkAssumption ==
    /\ RetryLimit \in Nat \ {0}
    /\ {MaxCable, MaxDesk, MaxPanel, MaxTaps} \subseteq Nat

VARIABLES
    udc,        \* state of the USB device controller; "" if it cannot be read
    usb0,       \* the interface: absent, without address, down, or ready
    live,       \* g_usbEthernetLive
    wasPlugged, \* UsbLinkWorker.m_wasPlugged
    taps, recovers, arms,
    sock, retriesLeft, wasConnected, shipping,  \* DebugLogWorker
    wire,       \* control lines on their way to the tablet
    client,     \* the desktop's end of this connection
    listening, panelOpen,   \* main.cjs
    open, ipc,  \* the panel, and its calls on their way to the main process
    used        \* how much of each bound is used

usbVars == <<udc, usb0, live, wasPlugged>>
sockVars == <<sock, retriesLeft, wasConnected, shipping>>
deskVars == <<listening, panelOpen, open, ipc>>
linkVars == <<usbVars, taps, recovers, arms, sockVars, wire, client, deskVars, used>>

UdcStates == {"configured", "suspended", "not attached", ""}
Interface == {"absent", "noAddress", "down", "ready"}

LinkInit ==
    /\ udc \in UdcStates /\ usb0 \in Interface
    /\ live = FALSE /\ wasPlugged = FALSE
    /\ taps = 0 /\ recovers = 0 /\ arms = 0
    /\ sock = "Unconnected" /\ retriesLeft = RetryLimit
    /\ wasConnected = FALSE /\ shipping = FALSE
    /\ wire = <<>> /\ client = "none"
    /\ listening \in BOOLEAN /\ panelOpen = FALSE /\ open = FALSE /\ ipc = <<>>
    /\ used = [cable |-> 0, desk |-> 0, panel |-> 0, taps |-> 0]

Spend(kind, max) == used[kind] < max /\ used' = [used EXCEPT ![kind] = @ + 1]

-----------------------------------------------------------------------------
(* UsbLinkWorker *)

\* assignUsb0Address gives the interface its address and brings it up.
Assigned(i) == IF i = "absent" THEN i ELSE "ready"

Unplugged(i) == IF udc = "" THEN i \notin {"down", "ready"} ELSE udc = "not attached"
Plugged(i) == ~Unplugged(i) /\ udc # "suspended"

\* refresh, for the interface it finds: it assigns the address where the gadget
\* is down, sets the flag, and has the connections re-armed at either edge of the
\* plug.  `asked' is one more re-arming, that recover emits.
Probe(found, asked) ==
    LET i == IF Plugged(found) /\ found # "ready" THEN Assigned(found) ELSE found
    IN  /\ usb0' = i
        /\ live' = (i = "ready")
        /\ wasPlugged' = Plugged(i)
        /\ recovers' = recovers + asked + (IF Plugged(i) # wasPlugged THEN 1 ELSE 0)

\* Every kUsbLinkCheckMs, and after each connect and disconnect.
Refresh ==
    /\ Probe(usb0, 0)
    /\ UNCHANGED <<udc, taps, arms, sockVars, wire, client, deskVars, used>>

\* A tap of the USB button, queued for the worker.
Tap ==
    /\ Spend("taps", MaxTaps)
    /\ taps' = taps + 1
    /\ UNCHANGED <<usbVars, recovers, arms, sockVars, wire, client, deskVars>>

Recover ==
    /\ taps > 0
    /\ taps' = taps - 1
    /\ Probe(Assigned(usb0), 1)
    /\ UNCHANGED <<udc, arms, sockVars, wire, client, deskVars, used>>

\* On the GUI thread: onRecoverApps, requestAppReconnect and DebugLogShip's
\* armReconnect, which queues the call for its own worker.
OnRecoverApps ==
    /\ recovers > 0
    /\ recovers' = recovers - 1
    /\ arms' = arms + 1
    /\ UNCHANGED <<usbVars, taps, sockVars, wire, client, deskVars, used>>

-----------------------------------------------------------------------------
(* DebugLogWorker *)

\* onDisconnected, which the socket's signal runs at once, or an abort while the
\* connection was still being made.
Disconnected(retries) ==
    /\ sock' = "Unconnected"
    /\ wasConnected' = FALSE
    /\ retriesLeft' = IF wasConnected THEN RetryLimit ELSE retries
    /\ shipping' = FALSE
    /\ wire' = <<>> /\ client' = "none"

\* tryConnect, with so many retries left.
TryConnect(retries) ==
    \/ ~live /\ sock # "Unconnected" /\ Disconnected(retries)
    \/ /\ live /\ sock = "Unconnected" /\ retries > 0
       /\ sock' = "Connecting" /\ retriesLeft' = retries - 1
       /\ UNCHANGED <<wasConnected, shipping, wire, client>>
    \/ /\ IF live THEN sock # "Unconnected" \/ retries = 0 ELSE sock = "Unconnected"
       /\ retriesLeft' = retries
       /\ UNCHANGED <<sock, wasConnected, shipping, wire, client>>

\* Mutant: the call connects with the retries that are left.
ArmUsedUp ==
    /\ arms > 0
    /\ arms' = arms - 1
    /\ TryConnect(retriesLeft)
    /\ UNCHANGED <<usbVars, taps, recovers, deskVars, used>>

ArmReconnect ==
    /\ arms > 0
    /\ arms' = arms - 1
    /\ TryConnect(RetryLimit)
    /\ UNCHANGED <<usbVars, taps, recovers, deskVars, used>>

RetryTick ==
    /\ TryConnect(retriesLeft)
    /\ UNCHANGED <<usbVars, taps, recovers, arms, deskVars, used>>

\* drainQueue with the path gone; with the path there it only ships.
DrainTick ==
    /\ ~live /\ (shipping \/ sock # "Unconnected")
    /\ Disconnected(retriesLeft)
    /\ UNCHANGED <<usbVars, taps, recovers, arms, deskVars, used>>

\* It ends with a drain, which leaves at once where the path is gone.
OnConnected ==
    /\ sock = "Connecting" /\ client # "none"
    /\ retriesLeft' = RetryLimit
    /\ wasConnected' = live
    /\ IF live THEN sock' = "Connected" /\ UNCHANGED <<shipping, wire, client>>
       ELSE sock' = "Unconnected" /\ shipping' = FALSE /\ wire' = <<>> /\ client' = "none"
    /\ UNCHANGED <<usbVars, taps, recovers, arms, deskVars, used>>

\* The desktop cannot be reached, or it has closed its end.
CanReach == listening /\ udc = "configured" /\ usb0 # "absent"
OnSocketError ==
    /\ \/ sock = "Connecting" /\ client = "none" /\ ~CanReach
       \/ sock = "Connected" /\ client = "closed"
    /\ Disconnected(retriesLeft)
    /\ UNCHANGED <<usbVars, taps, recovers, arms, deskVars, used>>

OnReadyRead ==
    /\ sock = "Connected" /\ wire # <<>>
    /\ shipping' = (Head(wire) = "debug_start")
    /\ wire' = Tail(wire)
    /\ UNCHANGED <<usbVars, taps, recovers, arms, sock, retriesLeft, wasConnected, client,
                   deskVars, used>>

-----------------------------------------------------------------------------
(* The desktop *)

\* The log server's connection handler; an open panel is served at once.
Accept ==
    /\ sock = "Connecting" /\ client = "none" /\ CanReach
    /\ client' = "open"
    /\ wire' = IF panelOpen THEN <<"debug_start">> ELSE <<>>
    /\ UNCHANGED <<usbVars, taps, recovers, arms, sockVars, deskVars, used>>

\* The main process takes the next call of the panel: debug-set-panel-open, or
\* debug-send, which writes to the sockets there are.
OnIpc ==
    /\ ipc # <<>>
    /\ ipc' = Tail(ipc)
    /\ panelOpen' = CASE Head(ipc) = "open" -> TRUE
                      [] Head(ipc) = "close" -> FALSE
                      [] OTHER -> panelOpen
    /\ wire' = IF Head(ipc) \in {"debug_start", "debug_stop"} /\ client = "open"
               THEN Append(wire, Head(ipc)) ELSE wire
    /\ UNCHANGED <<usbVars, taps, recovers, arms, sockVars, client, listening, open, used>>

\* Mutant: the sockets are told before the main process is.
ToggleTellsFirst ==
    /\ listening /\ Spend("panel", MaxPanel)
    /\ open' = ~open
    /\ ipc' = ipc \o IF open THEN <<"debug_stop", "close">> ELSE <<"debug_start", "open">>
    /\ UNCHANGED <<usbVars, taps, recovers, arms, sockVars, wire, client, listening, panelOpen>>

\* The button of the panel: openOverlay and closeOverlay.
Toggle ==
    /\ listening /\ Spend("panel", MaxPanel)
    /\ open' = ~open
    /\ ipc' = ipc \o IF open THEN <<"close", "debug_stop">> ELSE <<"open", "debug_start">>
    /\ UNCHANGED <<usbVars, taps, recovers, arms, sockVars, wire, client, listening, panelOpen>>

Shut == client' = IF client = "open" THEN "closed" ELSE client

\* Before the desktop sleeps and after it wakes.
DropAllRmSockets ==
    /\ client = "open" /\ Spend("desk", MaxDesk)
    /\ Shut
    /\ UNCHANGED <<usbVars, taps, recovers, arms, sockVars, wire, deskVars>>

DesktopQuits ==
    /\ listening /\ Spend("desk", MaxDesk)
    /\ listening' = FALSE /\ panelOpen' = FALSE /\ open' = FALSE /\ ipc' = <<>>
    /\ Shut
    /\ UNCHANGED <<usbVars, taps, recovers, arms, sockVars, wire>>

DesktopStarts ==
    /\ ~listening /\ Spend("desk", MaxDesk)
    /\ listening' = TRUE
    /\ UNCHANGED <<usbVars, taps, recovers, arms, sockVars, wire, client, panelOpen, open, ipc>>

\* The cable is pulled or put back, the host sleeps or wakes, the interface
\* appears, goes, or loses its address.
Cable ==
    /\ Spend("cable", MaxCable)
    /\ udc' \in UdcStates /\ usb0' \in Interface
    /\ UNCHANGED <<live, wasPlugged, taps, recovers, arms, sockVars, wire, client, deskVars>>

LinkNext ==
    \/ Refresh \/ Tap \/ Recover \/ OnRecoverApps
    \/ ArmReconnect \/ RetryTick \/ DrainTick \/ OnConnected \/ OnSocketError \/ OnReadyRead
    \/ Accept \/ OnIpc \/ Toggle \/ DropAllRmSockets \/ DesktopQuits \/ DesktopStarts
    \/ Cable

LinkSpec == LinkInit /\ [][LinkNext]_linkVars

\* Timers keep ticking, queued calls are run, sockets report.  The cable, the
\* desktop and the user owe nothing.
FairLinkSpec ==
    /\ LinkSpec
    /\ WF_linkVars(Refresh) /\ WF_linkVars(Recover) /\ WF_linkVars(OnRecoverApps)
    /\ WF_linkVars(ArmReconnect) /\ WF_linkVars(RetryTick) /\ WF_linkVars(DrainTick)
    /\ WF_linkVars(OnConnected) /\ WF_linkVars(OnSocketError) /\ WF_linkVars(OnReadyRead)
    /\ WF_linkVars(Accept) /\ WF_linkVars(OnIpc)

-----------------------------------------------------------------------------
(* Properties. *)

\* Once the calls of the panel have arrived, the tablet ships exactly while the
\* panel is open, whatever connected, dropped or reconnected in between.
PanelDecides ==
    ipc = <<>> /\ wire = <<>> /\ sock = "Connected" /\ client = "open" => shipping = open

\* A tap of the USB button brings the connection up, if the cable and the desktop
\* stay: however many attempts were used up before, and also when the connection
\* the tablet believes in is one the desktop has closed.
TapConnects ==
    (taps > 0 /\ CanReach) ~> ((sock = "Connected" /\ client = "open") \/ ~CanReach)
=============================================================================
