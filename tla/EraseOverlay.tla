---------------------------- MODULE EraseOverlay ----------------------------
(***************************************************************************)
(* The live overlay of the object eraser (ObjectEraseOperation in          *)
(* drawing/tools/operations/object_erase_operation.hpp): while the pen     *)
(* draws a lasso, a timer hands the path so far to a LatestJob and the     *)
(* nodes it finds are framed on the tool canvas.                           *)
(*                                                                         *)
(* A path is its stroke and its number of points; the frames shown are     *)
(* named by the path they were computed for.  The raster of the path, its  *)
(* damage rectangles and the erase itself are left out.                    *)
(***************************************************************************)
EXTENDS LatestJob

CONSTANTS MaxStrokes, MaxPoints, MaxGen   \* bounds of a run

ASSUME BoundsAssumption == MaxStrokes \in Nat /\ MaxPoints \in Nat /\ MaxGen \in Nat

VARIABLES
    stroke,      \* which stroke, counting downs
    len,         \* m_pts.size(); the hit timer runs while it is not 0
    hits,        \* m_hitPanelRects: <<>> or <<the result they come from>>
    submitGen,   \* m_submitGen
    appliedGen,  \* m_appliedGen
    busy,        \* m_jobBusy
    waiting      \* m_resnapWaiting

uiVars == <<stroke, len, hits, submitGen, appliedGen, busy, waiting>>
vars == <<jobVars, uiVars>>

Request == [gen : Nat, stroke : Nat, len : Nat]
Result == [request : Request, cut : BOOLEAN]

Init ==
    /\ Start
    /\ stroke = 0 /\ len = 0 /\ hits = <<>>
    /\ submitGen = 0 /\ appliedGen = 0
    /\ busy = FALSE /\ waiting = FALSE

\* The GUI thread is not inside a call and the operation exists.
Free == caller = "away"

(***************************************************************************)
(* bumpEpoch: results of jobs submitted before are stale from here on.     *)
(***************************************************************************)
\* Mutant: the generation advances but older results still count.
BumpSubmitOnly ==
    /\ submitGen' = submitGen + 1
    /\ appliedGen' = appliedGen
    /\ busy' = FALSE /\ waiting' = FALSE

BumpEpoch ==
    /\ submitGen' = submitGen + 1
    /\ appliedGen' = submitGen + 1
    /\ busy' = FALSE /\ waiting' = FALSE

Down ==
    /\ Free /\ len = 0 /\ stroke < MaxStrokes
    /\ BumpEpoch
    /\ stroke' = stroke + 1 /\ len' = 1 /\ hits' = <<>>
    /\ UNCHANGED jobVars

Move ==
    /\ Free /\ len > 0 /\ len < MaxPoints
    /\ len' = len + 1
    /\ waiting' = TRUE
    /\ UNCHANGED <<jobVars, stroke, hits, submitGen, appliedGen, busy>>

\* The stroke ends: its path, its frames and its jobs are forgotten.
Forget ==
    /\ BumpEpoch
    /\ len' = 0 /\ hits' = <<>>
    /\ UNCHANGED <<jobVars, stroke>>

Commit == Free /\ len > 0 /\ Forget

\* A mode change may cancel an operation that has no stroke.
Cancel == Free /\ (len > 0 \/ submitGen < MaxGen) /\ Forget

(***************************************************************************)
(* The hit timer and the result posted back.                               *)
(***************************************************************************)
HitTimer ==
    /\ Free /\ len >= 3 /\ waiting /\ ~busy
    /\ waiting' = FALSE /\ busy' = TRUE
    /\ submitGen' = submitGen + 1
    /\ Submit([gen |-> submitGen + 1, stroke |-> stroke, len |-> len], TRUE)
    /\ UNCHANGED <<stroke, len, hits, appliedGen>>

OnOverlayResult(result) ==
    /\ busy' = FALSE
    /\ appliedGen' = IF result.request.gen < appliedGen THEN appliedGen ELSE result.request.gen
    /\ hits' = IF result.request.gen < appliedGen \/ len < 3 THEN hits ELSE <<result>>
    /\ UNCHANGED <<stroke, len, submitGen, waiting>>

\* The event loop runs a posted result; the bridge of a destroyed operation
\* lets it pass.
HandleResult ==
    /\ caller \in {"away", "joined"} /\ events # <<>>
    /\ events' = Tail(events)
    /\ IF caller = "away" THEN OnOverlayResult(Head(events)) ELSE UNCHANGED uiVars
    /\ UNCHANGED <<pending, stopped, cancel, inFlight, pc, req, cut, caller>>

\* The destructor stops the timer and waits for the worker.
Destroy == Stop /\ UNCHANGED uiVars

Gui == RaiseCancel \/ Join
Next ==
    \/ Down \/ Move \/ Commit \/ Cancel \/ HitTimer \/ HandleResult \/ Destroy
    \/ (Gui \/ Worker) /\ UNCHANGED uiVars

Spec == Init /\ [][Next]_vars

(***************************************************************************)
(* Both threads run, compute returns, and the timer and the posted events  *)
(* get their turn.  Nothing obliges the pen.                               *)
(***************************************************************************)
Fairness ==
    /\ WF_vars(Worker /\ UNCHANGED uiVars)
    /\ WF_vars(Gui /\ UNCHANGED uiVars)
    /\ WF_vars(HitTimer)
    /\ WF_vars(HandleResult)

FairSpec == Spec /\ Fairness
-----------------------------------------------------------------------------
(* Properties *)

\* Every variable keeps its type; in particular at most one request is pending
\* (submit replaces it).
TypeOK ==
    /\ JobTypeOK(Request)
    /\ stroke \in Nat /\ len \in Nat
    /\ AtMostOne(hits, Result)
    /\ submitGen \in Nat /\ appliedGen \in Nat
    /\ busy \in BOOLEAN /\ waiting \in BOOLEAN

InWork == pc \in {"taken", "computing", "computed", "done", "checked"}

\* Jobs come back in the order they were submitted and each at most once: the
\* posted results, the job in work and the pending one have rising generations.
JobsInOrder ==
    /\ \A i, j \in DOMAIN events : i < j => events[i].request.gen < events[j].request.gen
    /\ \A i \in DOMAIN events :
        /\ events[i].request.gen <= submitGen
        /\ InWork => events[i].request.gen < req[1].gen
        /\ pending # <<>> => events[i].request.gen < pending[1].gen
    /\ InWork => /\ req[1].gen <= submitGen
                 /\ pending # <<>> => req[1].gen < pending[1].gen
    /\ pending # <<>> => pending[1].gen <= submitGen

\* The frames on screen are the whole answer for the stroke being drawn: never
\* those of an earlier stroke, never a search that was cut short.
OverlayOfThisStroke ==
    hits # <<>> =>
        /\ len >= 3
        /\ hits[1].request.stroke = stroke /\ hits[1].request.len <= len
        /\ ~hits[1].cut

\* m_jobBusy stops the timer, so it is never left set with no answer to come:
\* the newest job is pending, in work and not cancelled, or posted.
NewestOnItsWay ==
    \/ pending # <<>> /\ pending[1].gen = submitGen
    \/ pc = "taken" /\ req[1].gen = submitGen
    \/ pc \in {"computing", "computed", "done", "checked"}
       /\ req[1].gen = submitGen /\ ~cancel
    \/ \E i \in DOMAIN events : events[i].request.gen = submitGen
BusyIsAnswered == busy /\ ~stopped => NewestOnItsWay

Resting(s, n) == stroke = s /\ len = n /\ ~stopped
Shown(s, n) == hits # <<>> /\ hits[1].request.stroke = s /\ hits[1].request.len = n

\* Wherever the pen rests, the frames of the whole path appear, whatever older
\* jobs were cancelled, finished late or belong to an earlier stroke.
NewestPathShown ==
    \A s \in 1..MaxStrokes, n \in 3..MaxPoints :
        Resting(s, n) ~> (Shown(s, n) \/ ~Resting(s, n))

\* The destructor does not hang: the worker notices stop() wherever it is.
DestroyEnds == stopped ~> (caller = "joined")
=============================================================================
