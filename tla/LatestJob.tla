----------------------------- MODULE LatestJob -----------------------------
(***************************************************************************)
(* The background job runner of the tablet (epaper_old/util/               *)
(* latest_job.hpp): one request in flight and at most one pending, a newer *)
(* one replacing it.  The caller is the GUI thread, the worker a thread of *)
(* its own.  A step is what one of them does between two accesses to the   *)
(* state they share: the atomics stopped, cancel and inFlight, and pending *)
(* under the mutex.                                                        *)
(*                                                                         *)
(* The deliver callbacks of all clients post their result to the GUI       *)
(* thread's event queue (Qt::QueuedConnection), so delivering is appending *)
(* to `events'.  Lowering the worker's priority is left out.               *)
(***************************************************************************)
EXTENDS Naturals, Sequences

VARIABLES
    pending,    \* m_pending: <<>> or <<request>>
    stopped,    \* m_stop
    cancel,     \* m_cancel
    inFlight,   \* m_inFlight
    pc,         \* where the worker is in loop()
    req,        \* the worker's request: <<>> before the first
    cut,        \* compute saw the cancel flag and returned early
    events,     \* results posted to the GUI thread
    caller      \* "away", or inside submit or stop

jobVars == <<pending, stopped, cancel, inFlight, pc, req, cut, events, caller>>

\* std::optional
AtMostOne(o, S) == o \in Seq(S) /\ Len(o) <= 1

JobTypeOK(Request) ==
    /\ AtMostOne(pending, Request)
    /\ stopped \in BOOLEAN /\ cancel \in BOOLEAN /\ inFlight \in BOOLEAN
    /\ pc \in {"waiting", "taken", "computing", "computed", "done", "checked", "exited"}
    /\ AtMostOne(req, Request)
    /\ cut \in BOOLEAN
    /\ events \in Seq([request : Request, cut : BOOLEAN])
    /\ caller \in {"away", "cancelling", "joining", "joined"}

\* start(): the worker begins in its wait.
Start ==
    /\ pending = <<>> /\ stopped = FALSE /\ cancel = FALSE /\ inFlight = FALSE
    /\ pc = "waiting" /\ req = <<>> /\ cut = FALSE /\ events = <<>>
    /\ caller = "away"

-----------------------------------------------------------------------------
(***************************************************************************)
(* The caller.  submit() holds the mutex over two accesses: it places the  *)
(* request and then, if a job is in flight, raises the cancel flag.        *)
(***************************************************************************)
Submit(r, cancelRunning) ==
    /\ caller = "away"
    /\ pending' = IF stopped THEN pending ELSE <<r>>
    /\ caller' = IF ~stopped /\ cancelRunning /\ inFlight THEN "cancelling" ELSE "away"
    /\ UNCHANGED <<stopped, cancel, inFlight, pc, req, cut, events>>

RaiseCancel ==
    /\ caller = "cancelling"
    /\ cancel' = TRUE
    /\ caller' = "away"
    /\ UNCHANGED <<pending, stopped, inFlight, pc, req, cut, events>>

Stop ==
    /\ caller = "away"
    /\ stopped' = TRUE /\ cancel' = TRUE /\ pending' = <<>>
    /\ caller' = "joining"
    /\ UNCHANGED <<inFlight, pc, req, cut, events>>

Join ==
    /\ caller = "joining" /\ pc = "exited"
    /\ caller' = "joined"
    /\ UNCHANGED <<pending, stopped, cancel, inFlight, pc, req, cut, events>>

-----------------------------------------------------------------------------
(***************************************************************************)
(* The worker: loop().                                                     *)
(***************************************************************************)
LockFree == caller # "cancelling"

\* Mutant: the request is taken while submit still holds the mutex.
TakeUnlocked ==
    /\ pc = "waiting" /\ pending # <<>>
    /\ req' = pending /\ pending' = <<>>
    /\ inFlight' = TRUE
    /\ pc' = "taken"
    /\ UNCHANGED <<stopped, cancel, cut, events, caller>>

\* Mutant: the request stays pending after it was taken.
TakeKeepsPending ==
    /\ pc = "waiting" /\ LockFree /\ pending # <<>>
    /\ req' = pending
    /\ inFlight' = TRUE
    /\ pc' = "taken"
    /\ UNCHANGED <<pending, stopped, cancel, cut, events, caller>>

TakePending ==
    /\ pc = "waiting" /\ LockFree /\ pending # <<>>
    /\ req' = pending /\ pending' = <<>>
    /\ inFlight' = TRUE
    /\ pc' = "taken"
    /\ UNCHANGED <<stopped, cancel, cut, events, caller>>

\* Mutant: the wait ends for a request only.
ExitWithRequest ==
    /\ pc = "waiting" /\ LockFree /\ stopped /\ pending # <<>>
    /\ pc' = "exited"
    /\ UNCHANGED <<pending, stopped, cancel, inFlight, req, cut, events, caller>>

ExitWaiting ==
    /\ pc = "waiting" /\ LockFree /\ stopped /\ pending = <<>>
    /\ pc' = "exited"
    /\ UNCHANGED <<pending, stopped, cancel, inFlight, req, cut, events, caller>>

\* Mutant: the flag raised against the previous job stays.
KeepCancel ==
    /\ pc = "taken"
    /\ cut' = FALSE
    /\ pc' = "computing"
    /\ UNCHANGED <<pending, stopped, cancel, inFlight, req, events, caller>>

ClearCancel ==
    /\ pc = "taken"
    /\ cancel' = FALSE /\ cut' = FALSE
    /\ pc' = "computing"
    /\ UNCHANGED <<pending, stopped, inFlight, req, events, caller>>

\* compute polls the flag: it may have seen it or have finished before.
Compute ==
    /\ pc = "computing"
    /\ cut' \in {FALSE, cancel}
    /\ pc' = "computed"
    /\ UNCHANGED <<pending, stopped, cancel, inFlight, req, events, caller>>

LeaveFlight ==
    /\ pc = "computed"
    /\ inFlight' = FALSE
    /\ pc' = "done"
    /\ UNCHANGED <<pending, stopped, cancel, req, cut, events, caller>>

CheckStop ==
    /\ pc = "done"
    /\ pc' = IF stopped THEN "exited" ELSE "checked"
    /\ UNCHANGED <<pending, stopped, cancel, inFlight, req, cut, events, caller>>

Deliver ==
    /\ pc = "checked"
    /\ events' = IF cancel THEN events
                 ELSE Append(events, [request |-> req[1], cut |-> cut])
    /\ pc' = "waiting"
    /\ UNCHANGED <<pending, stopped, cancel, inFlight, req, cut, caller>>

Worker ==
    \/ TakePending \/ ExitWaiting \/ ClearCancel \/ Compute
    \/ LeaveFlight \/ CheckStop \/ Deliver
=============================================================================
