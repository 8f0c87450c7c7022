------------------------- MODULE EraseOverlayProofs -------------------------
(***************************************************************************)
(* Proofs about EraseOverlay, for any number of strokes, points and jobs.  *)
(***************************************************************************)
EXTENDS EraseOverlay, TLAPS

\* What the worker and the caller know of each other: a cut result goes with
\* a raised flag, and submit raises the flag only with its request in place.
Handshake ==
    /\ InWork => req # <<>>
    /\ pc \in {"computed", "done", "checked"} /\ cut => cancel
    /\ \A i \in DOMAIN events : ~events[i].cut
    /\ caller = "cancelling" => pending # <<>> /\ pending[1].gen = submitGen
    /\ caller \in {"joining", "joined"} => stopped
    /\ appliedGen <= submitGen

\* A job that is not stale belongs to the stroke being drawn.
OfStroke(r) ==
    r.gen >= appliedGen => r.stroke = stroke /\ r.len >= 3 /\ r.len <= len
JobsOfStroke ==
    /\ pending # <<>> => OfStroke(pending[1])
    /\ InWork => OfStroke(req[1])
    /\ \A i \in DOMAIN events : OfStroke(events[i].request)

Inv ==
    /\ TypeOK /\ JobsInOrder /\ Handshake /\ JobsOfStroke
    /\ OverlayOfThisStroke /\ BusyIsAnswered

-----------------------------------------------------------------------------
(* Facts about sequences *)

LEMMA TailFacts ==
  ASSUME NEW S, NEW s \in Seq(S), s # <<>>
  PROVE  /\ Tail(s) \in Seq(S) /\ Head(s) \in S /\ Head(s) = s[1] /\ 1 \in DOMAIN s
         /\ \A i \in DOMAIN Tail(s) :
              i \in Nat \ {0} /\ i + 1 \in DOMAIN s /\ Tail(s)[i] = s[i + 1]
         /\ \A i \in DOMAIN s : i # 1 => i - 1 \in DOMAIN Tail(s) /\ Tail(s)[i - 1] = s[i]
  OBVIOUS

LEMMA AppendFacts ==
  ASSUME NEW S, NEW s \in Seq(S), NEW e \in S
  PROVE  /\ Append(s, e) \in Seq(S)
         /\ \A i \in DOMAIN s : i \in DOMAIN Append(s, e) /\ Append(s, e)[i] = s[i]
         /\ \A i \in DOMAIN Append(s, e) :
              \/ i \in DOMAIN s /\ Append(s, e)[i] = s[i]
              \/ i \notin DOMAIN s /\ Append(s, e)[i] = e /\ (\A j \in DOMAIN s : j < i)
         /\ \E i \in DOMAIN Append(s, e) : Append(s, e)[i] = e
<1>1. Len(s) + 1 \in DOMAIN Append(s, e) /\ Append(s, e)[Len(s) + 1] = e
  OBVIOUS
<1> QED
  BY <1>1

LEMMA OptionFacts ==
  ASSUME NEW S
  PROVE  /\ AtMostOne(<<>>, S)
         /\ \A r \in S : AtMostOne(<<r>>, S) /\ <<r>> # <<>> /\ <<r>>[1] = r
         /\ \A o : AtMostOne(o, S) /\ o # <<>> => o[1] \in S
<1>1. AtMostOne(<<>>, S)
  BY DEF AtMostOne
<1>2. ASSUME NEW r \in S PROVE AtMostOne(<<r>>, S) /\ <<r>> # <<>> /\ <<r>>[1] = r
  BY DEF AtMostOne
<1>3. ASSUME NEW o, AtMostOne(o, S), o # <<>> PROVE o[1] \in S
  BY <1>3 DEF AtMostOne
<1> QED
  BY <1>1, <1>2, <1>3, Zenon

\* What the types say of one element.
Elements ==
    /\ submitGen \in Nat /\ appliedGen \in Nat /\ stroke \in Nat /\ len \in Nat
    /\ \A i \in DOMAIN events :
        /\ events[i].request.gen \in Nat /\ events[i].request.len \in Nat
        /\ i \in Nat \ {0}
    /\ pending # <<>> => pending[1] \in Request /\ pending[1].gen \in Nat /\ pending[1].len \in Nat
    /\ InWork => req # <<>> /\ req[1] \in Request /\ req[1].gen \in Nat /\ req[1].len \in Nat
    /\ hits # <<>> => hits[1].request.len \in Nat

LEMMA ElementTypes == TypeOK /\ (InWork => req # <<>>) => Elements
<1> SUFFICES ASSUME TypeOK, InWork => req # <<>> PROVE Elements
  OBVIOUS
<1>1. events \in Seq(Result)
  BY DEF TypeOK, JobTypeOK, Result
<1>2. ASSUME NEW i \in DOMAIN events
      PROVE  events[i] \in Result /\ i \in Nat \ {0}
  BY <1>1
<1>3. \A r \in Result : r.request \in Request
  BY DEF Result
<1>4. \A r \in Request : r.gen \in Nat /\ r.len \in Nat
  BY DEF Request
<1>5. \A i \in DOMAIN events : events[i].request \in Request /\ i \in Nat \ {0}
  BY <1>2, <1>3
<1>6. pending # <<>> => pending[1] \in Request
  BY OptionFacts DEF TypeOK, JobTypeOK
<1>7. req # <<>> => req[1] \in Request
  BY OptionFacts DEF TypeOK, JobTypeOK
<1>8. hits # <<>> => hits[1].request \in Request
  BY OptionFacts, <1>3 DEF TypeOK
<1>9. \A i \in DOMAIN events :
        events[i].request.gen \in Nat /\ events[i].request.len \in Nat /\ i \in Nat \ {0}
  BY <1>4, <1>5
<1> QED
  BY <1>4, <1>6, <1>7, <1>8, <1>9 DEF Elements, TypeOK

-----------------------------------------------------------------------------
LEMMA InitInv == Init => Inv
<1> SUFFICES ASSUME Init PROVE Inv
  OBVIOUS
<1> USE DEF Init, Start
<1>1. <<>> \in Seq([request : Request, cut : BOOLEAN])
  OBVIOUS
<1>2. TypeOK
  BY <1>1, OptionFacts, Zenon DEF TypeOK, JobTypeOK
<1>3. DOMAIN events = {}
  OBVIOUS
<1>4. JobsInOrder /\ Handshake /\ JobsOfStroke
  BY <1>3 DEF JobsInOrder, Handshake, JobsOfStroke, InWork
<1>5. OverlayOfThisStroke /\ BusyIsAnswered
  BY DEF OverlayOfThisStroke, BusyIsAnswered
<1> QED
  BY <1>2, <1>4, <1>5 DEF Inv

-----------------------------------------------------------------------------
\* One step keeps the types.
LEMMA TypeStep == TypeOK /\ (InWork => req # <<>>) /\ [Next]_vars => TypeOK'
<1> SUFFICES ASSUME TypeOK, InWork => req # <<>>, [Next]_vars PROVE TypeOK'
  OBVIOUS
<1>0. Elements
  BY ElementTypes
<1>a. AtMostOne(<<>>, Result) /\ AtMostOne(<<>>, Request)
  BY OptionFacts
<1> USE DEF TypeOK, JobTypeOK
<1>1. CASE Down
  <2>1. submitGen + 1 \in Nat /\ stroke + 1 \in Nat
    OBVIOUS
  <2> QED
    BY <1>1, <1>a, <2>1 DEF Down, BumpEpoch, jobVars
<1>2. CASE Move
  BY <1>2 DEF Move, jobVars
<1>3. CASE Commit \/ Cancel
  <2>1. submitGen + 1 \in Nat
    OBVIOUS
  <2>2. Forget
    BY <1>3 DEF Commit, Cancel
  <2> QED
    BY <1>a, <2>1, <2>2 DEF Forget, BumpEpoch, jobVars
<1>4. CASE HitTimer
  <2> DEFINE r == [gen |-> submitGen + 1, stroke |-> stroke, len |-> len]
  <2>1. AtMostOne(<<r>>, Request)
    <3>1. r \in Request
      BY DEF Request
    <3> HIDE DEF r
    <3> QED
      BY <3>1, OptionFacts
  <2>2. Submit(r, TRUE)
    BY <1>4 DEF HitTimer
  <2> HIDE DEF r
  <2>3. AtMostOne(pending, Request)'
    BY <2>1, <2>2 DEF Submit
  <2>4. submitGen' \in Nat
    BY <1>4 DEF HitTimer
  <2> QED
    BY <1>4, <2>2, <2>3, <2>4 DEF HitTimer, Submit
<1>5. CASE HandleResult
  <2>1. Head(events) \in Result /\ Tail(events) \in Seq(Result)
    BY <1>5, TailFacts DEF HandleResult, Result
  <2>2. Head(events).request.gen \in Nat
    BY <2>1 DEF Result, Request
  <2>3. hits' = hits \/ hits' = <<Head(events)>>
    BY <1>5 DEF HandleResult, OnOverlayResult, uiVars
  <2>4. AtMostOne(hits, Result)'
    BY <2>1, <2>3, OptionFacts
  <2>5. appliedGen' \in Nat /\ busy' \in BOOLEAN
    BY <1>5, <2>2 DEF HandleResult, OnOverlayResult, uiVars
  <2>6. events' \in Seq([request : Request, cut : BOOLEAN])
    BY <1>5, <2>1 DEF HandleResult, Result
  <2> QED
    BY <1>5, <2>4, <2>5, <2>6 DEF HandleResult, OnOverlayResult, uiVars
<1>6. CASE Destroy
  BY <1>6, OptionFacts DEF Destroy, Stop, uiVars
<1>7. CASE Gui /\ UNCHANGED uiVars
  BY <1>7 DEF Gui, RaiseCancel, Join, uiVars
<1>8. CASE Worker /\ UNCHANGED uiVars
  <2> USE <1>8 DEF uiVars
  <2>1. CASE TakePending
    BY <2>1, OptionFacts DEF TakePending
  <2>2. CASE ExitWaiting \/ ClearCancel \/ Compute \/ LeaveFlight \/ CheckStop
    BY ZenonT(60), <2>2 DEF ExitWaiting, ClearCancel, Compute, LeaveFlight, CheckStop
  <2>3. CASE Deliver
    <3> DEFINE r == [request |-> req[1], cut |-> cut]
    <3>1. r \in Result
      BY <1>0, <2>3 DEF Deliver, InWork, Elements, Result
    <3>2. events' = events \/ events' = Append(events, r)
      BY <2>3 DEF Deliver
    <3> HIDE DEF r
    <3>3. events \in Seq(Result)
      BY DEF Result
    <3>4. events' \in Seq(Result)
      BY <3>1, <3>2, <3>3, AppendFacts
    <3> QED
      BY <2>3, <3>4 DEF Deliver, Result
  <2> QED
    BY <2>1, <2>2, <2>3 DEF Worker
<1>9. CASE UNCHANGED vars
  BY <1>9 DEF vars, jobVars, uiVars
<1> QED
  BY <1>1, <1>2, <1>3, <1>4, <1>5, <1>6, <1>7, <1>8, <1>9 DEF Next

-----------------------------------------------------------------------------
LEMMA InvStep == Inv /\ [Next]_vars => Inv'
<1> SUFFICES ASSUME Inv, [Next]_vars PROVE Inv'
  OBVIOUS
<1>0. TypeOK /\ JobsInOrder /\ Handshake /\ JobsOfStroke /\ OverlayOfThisStroke /\ BusyIsAnswered
  BY DEF Inv
<1>a. TypeOK'
  BY <1>0, TypeStep DEF Handshake
<1>b. Elements
  BY <1>0, ElementTypes DEF Handshake
<1> USE <1>b DEF Elements, InWork
<1>1. CASE Down
  <2> USE <1>1 DEF Down, BumpEpoch, jobVars
  <2>1. JobsInOrder'
    BY <1>0 DEF JobsInOrder
  <2>2. Handshake'
    BY <1>0 DEF Handshake, Free
  <2>3. JobsOfStroke'
    BY <1>0 DEF JobsOfStroke, OfStroke, JobsInOrder
  <2>4. OverlayOfThisStroke'
    BY <1>0 DEF OverlayOfThisStroke
  <2>5. BusyIsAnswered'
    BY <1>0 DEF BusyIsAnswered, NewestOnItsWay
  <2> QED
    BY <1>a, <2>1, <2>2, <2>3, <2>4, <2>5 DEF Inv
<1>2. CASE Move
  <2> USE <1>2 DEF Move, jobVars
  <2>1. JobsInOrder'
    BY <1>0 DEF JobsInOrder
  <2>2. Handshake'
    BY <1>0 DEF Handshake
  <2>3. JobsOfStroke'
    BY <1>0 DEF JobsOfStroke, OfStroke
  <2>4. OverlayOfThisStroke'
    BY <1>0 DEF OverlayOfThisStroke
  <2>5. BusyIsAnswered'
    BY <1>0 DEF BusyIsAnswered, NewestOnItsWay
  <2> QED
    BY <1>a, <2>1, <2>2, <2>3, <2>4, <2>5 DEF Inv
<1>3. CASE Commit \/ Cancel
  <2> USE <1>3 DEF Commit, Cancel, Forget, BumpEpoch, jobVars
  <2>1. JobsInOrder'
    BY <1>0 DEF JobsInOrder
  <2>2. Handshake'
    BY <1>0 DEF Handshake, Free
  <2>3. JobsOfStroke'
    BY <1>0 DEF JobsOfStroke, OfStroke, JobsInOrder
  <2>4. OverlayOfThisStroke'
    BY <1>0 DEF OverlayOfThisStroke
  <2>5. BusyIsAnswered'
    BY <1>0 DEF BusyIsAnswered, NewestOnItsWay
  <2> QED
    BY <1>a, <2>1, <2>2, <2>3, <2>4, <2>5 DEF Inv
<1>4. CASE HitTimer
  <2> USE <1>4
  <2> DEFINE r == [gen |-> submitGen + 1, stroke |-> stroke, len |-> len]
  <2>a. /\ r.gen = submitGen + 1 /\ r.stroke = stroke /\ r.len = len
        /\ <<r>> # <<>> /\ <<r>>[1] = r
    OBVIOUS
  <2>b. /\ Submit(r, TRUE) /\ UNCHANGED <<stroke, len, hits, appliedGen>>
        /\ submitGen' = submitGen + 1 /\ len >= 3 /\ Free
    BY DEF HitTimer
  <2> HIDE DEF r
  <2> USE <2>a, <2>b DEF Submit, Free
  <2>1. JobsInOrder'
    BY <1>0 DEF JobsInOrder
  <2>2. Handshake'
    BY <1>0 DEF Handshake
  <2>3. JobsOfStroke'
    BY <1>0 DEF JobsOfStroke, OfStroke
  <2>4. OverlayOfThisStroke'
    BY <1>0 DEF OverlayOfThisStroke
  <2>5. BusyIsAnswered'
    BY <1>0 DEF BusyIsAnswered, NewestOnItsWay
  <2> QED
    BY <1>a, <2>1, <2>2, <2>3, <2>4, <2>5 DEF Inv
<1>5. CASE HandleResult
  <2> USE <1>5 DEF HandleResult, OnOverlayResult, uiVars
  <2> DEFINE s == events
  <2>a. /\ Head(s) = s[1] /\ 1 \in DOMAIN s /\ events' = Tail(s)
        /\ \A i \in DOMAIN Tail(s) :
              i \in Nat \ {0} /\ i + 1 \in DOMAIN s /\ Tail(s)[i] = s[i + 1]
        /\ \A i \in DOMAIN s : i # 1 => i - 1 \in DOMAIN Tail(s) /\ Tail(s)[i - 1] = s[i]
    BY <1>0, TailFacts DEF TypeOK, JobTypeOK
  <2>b. appliedGen' \in Nat /\ appliedGen' >= appliedGen /\ UNCHANGED <<stroke, len>>
    BY <2>a
  <2> USE <2>a, <2>b
  <2>1. JobsInOrder'
    BY <1>0 DEF JobsInOrder
  <2>2. Handshake'
    BY <1>0 DEF Handshake, JobsInOrder
  <2>3. JobsOfStroke'
    BY <1>0 DEF JobsOfStroke, OfStroke, JobsInOrder
  <2>4. OverlayOfThisStroke'
    BY <1>0 DEF OverlayOfThisStroke, JobsOfStroke, OfStroke, Handshake
  <2>5. BusyIsAnswered'
    BY <1>0 DEF BusyIsAnswered, NewestOnItsWay, Handshake, JobsInOrder
  <2> QED
    BY <1>a, <2>1, <2>2, <2>3, <2>4, <2>5 DEF Inv
<1>6. CASE Destroy
  <2> USE <1>6 DEF Destroy, Stop, uiVars
  <2>1. JobsInOrder'
    BY <1>0 DEF JobsInOrder
  <2>2. Handshake'
    BY <1>0 DEF Handshake
  <2>3. JobsOfStroke'
    BY <1>0 DEF JobsOfStroke, OfStroke
  <2>4. OverlayOfThisStroke'
    BY <1>0 DEF OverlayOfThisStroke
  <2>5. BusyIsAnswered'
    BY <1>0 DEF BusyIsAnswered, NewestOnItsWay, Handshake
  <2> QED
    BY <1>a, <2>1, <2>2, <2>3, <2>4, <2>5 DEF Inv
<1>7. CASE Gui /\ UNCHANGED uiVars
  <2> USE <1>7 DEF Gui, RaiseCancel, Join, uiVars
  <2>1. JobsInOrder'
    BY <1>0 DEF JobsInOrder
  <2>2. Handshake'
    BY <1>0 DEF Handshake
  <2>3. JobsOfStroke'
    BY <1>0 DEF JobsOfStroke, OfStroke
  <2>4. OverlayOfThisStroke'
    BY <1>0 DEF OverlayOfThisStroke
  <2>5. BusyIsAnswered'
    BY <1>0 DEF BusyIsAnswered, NewestOnItsWay, Handshake, JobsInOrder
  <2> QED
    BY <1>a, <2>1, <2>2, <2>3, <2>4, <2>5 DEF Inv
<1>8. CASE Worker /\ UNCHANGED uiVars
  <2> USE <1>8 DEF uiVars
  <2>1. CASE TakePending
    <3> USE <2>1 DEF TakePending, LockFree
    <3>1. JobsInOrder'
      BY <1>0 DEF JobsInOrder
    <3>2. Handshake'
      BY <1>0 DEF Handshake
    <3>3. JobsOfStroke'
      BY <1>0 DEF JobsOfStroke, OfStroke
    <3>4. OverlayOfThisStroke'
      BY <1>0 DEF OverlayOfThisStroke
    <3>5. BusyIsAnswered'
      BY <1>0 DEF BusyIsAnswered, NewestOnItsWay
    <3> QED
      BY <1>a, <3>1, <3>2, <3>3, <3>4, <3>5 DEF Inv
  <2>2. CASE ExitWaiting
    <3> USE <2>2 DEF ExitWaiting, LockFree
    <3>1. JobsInOrder'
      BY <1>0 DEF JobsInOrder
    <3>2. Handshake'
      BY <1>0 DEF Handshake
    <3>3. JobsOfStroke'
      BY <1>0 DEF JobsOfStroke, OfStroke
    <3>4. OverlayOfThisStroke'
      BY <1>0 DEF OverlayOfThisStroke
    <3>5. BusyIsAnswered'
      BY <1>0 DEF BusyIsAnswered, NewestOnItsWay
    <3> QED
      BY <1>a, <3>1, <3>2, <3>3, <3>4, <3>5 DEF Inv
  <2>3. CASE ClearCancel
    <3> USE <2>3 DEF ClearCancel, LockFree
    <3>1. JobsInOrder'
      BY <1>0 DEF JobsInOrder
    <3>2. Handshake'
      BY <1>0 DEF Handshake
    <3>3. JobsOfStroke'
      BY <1>0 DEF JobsOfStroke, OfStroke
    <3>4. OverlayOfThisStroke'
      BY <1>0 DEF OverlayOfThisStroke
    <3>5. BusyIsAnswered'
      BY <1>0 DEF BusyIsAnswered, NewestOnItsWay
    <3> QED
      BY <1>a, <3>1, <3>2, <3>3, <3>4, <3>5 DEF Inv
  <2>4. CASE Compute
    <3> USE <2>4 DEF Compute, LockFree
    <3>a. cut' => cancel'
      <4>1. (cut' = FALSE \/ cut' = cancel) /\ cancel' = cancel
        OBVIOUS
      <4>2. CASE cut' = FALSE
        BY <4>2, SMT
      <4>3. CASE cut' = cancel
        BY <4>1, <4>3, SMT
      <4> QED
        BY <4>1, <4>2, <4>3, SMT
    <3> USE <3>a
    <3>1. JobsInOrder'
      BY <1>0 DEF JobsInOrder
    <3>2. Handshake'
      BY <1>0 DEF Handshake
    <3>3. JobsOfStroke'
      BY <1>0 DEF JobsOfStroke, OfStroke
    <3>4. OverlayOfThisStroke'
      BY <1>0 DEF OverlayOfThisStroke
    <3>5. BusyIsAnswered'
      BY <1>0 DEF BusyIsAnswered, NewestOnItsWay
    <3> QED
      BY <1>a, <3>1, <3>2, <3>3, <3>4, <3>5 DEF Inv
  <2>5. CASE LeaveFlight
    <3> USE <2>5 DEF LeaveFlight, LockFree
    <3>1. JobsInOrder'
      BY <1>0 DEF JobsInOrder
    <3>2. Handshake'
      BY <1>0 DEF Handshake
    <3>3. JobsOfStroke'
      BY <1>0 DEF JobsOfStroke, OfStroke
    <3>4. OverlayOfThisStroke'
      BY <1>0 DEF OverlayOfThisStroke
    <3>5. BusyIsAnswered'
      BY <1>0 DEF BusyIsAnswered, NewestOnItsWay
    <3> QED
      BY <1>a, <3>1, <3>2, <3>3, <3>4, <3>5 DEF Inv
  <2>6. CASE CheckStop
    <3> USE <2>6 DEF CheckStop, LockFree
    <3>1. JobsInOrder'
      BY <1>0 DEF JobsInOrder
    <3>2. Handshake'
      BY <1>0 DEF Handshake
    <3>3. JobsOfStroke'
      BY <1>0 DEF JobsOfStroke, OfStroke
    <3>4. OverlayOfThisStroke'
      BY <1>0 DEF OverlayOfThisStroke
    <3>5. BusyIsAnswered'
      BY <1>0 DEF BusyIsAnswered, NewestOnItsWay
    <3> QED
      BY <1>a, <3>1, <3>2, <3>3, <3>4, <3>5 DEF Inv
  <2>7. CASE Deliver
    <3> USE <2>7 DEF Deliver, LockFree
    <3> DEFINE r == [request |-> req[1], cut |-> cut]
    <3>a. r \in Result /\ r.request = req[1] /\ r.cut = cut
      BY <1>0 DEF Handshake, TypeOK, JobTypeOK, Result
    <3>b. IF cancel THEN events' = events ELSE events' = Append(events, r)
      OBVIOUS
    <3>c. ~cancel => ~r.cut
      BY <1>0, <3>a DEF Handshake
    <3> HIDE DEF r
    <3>d. ~cancel =>
            /\ \A i \in DOMAIN events : i \in DOMAIN events' /\ events'[i] = events[i]
            /\ \A i \in DOMAIN events' :
                 \/ i \in DOMAIN events /\ events'[i] = events[i]
                 \/ i \notin DOMAIN events /\ events'[i] = r /\ (\A j \in DOMAIN events : j < i)
            /\ \E i \in DOMAIN events' : events'[i] = r
      BY <1>0, <3>a, <3>b, AppendFacts DEF TypeOK, JobTypeOK, Result
    <3> USE <3>a, <3>b, <3>c, <3>d
    <3>1. JobsInOrder'
      BY <1>0 DEF JobsInOrder
    <3>2. Handshake'
      BY <1>0 DEF Handshake
    <3>3. JobsOfStroke'
      BY SMTT(60), <1>0 DEF JobsOfStroke, OfStroke
    <3>4. OverlayOfThisStroke'
      BY <1>0 DEF OverlayOfThisStroke
    <3>5. BusyIsAnswered'
      BY <1>0 DEF BusyIsAnswered, NewestOnItsWay
    <3> QED
      BY <1>a, <3>1, <3>2, <3>3, <3>4, <3>5 DEF Inv
  <2> QED
    BY <2>1, <2>2, <2>3, <2>4, <2>5, <2>6, <2>7 DEF Worker
<1>9. CASE UNCHANGED vars
  <2> USE <1>9 DEF vars, jobVars, uiVars
  <2>1. JobsInOrder'
    BY <1>0 DEF JobsInOrder
  <2>2. Handshake'
    BY <1>0 DEF Handshake
  <2>3. JobsOfStroke'
    BY <1>0 DEF JobsOfStroke, OfStroke
  <2>4. OverlayOfThisStroke'
    BY <1>0 DEF OverlayOfThisStroke
  <2>5. BusyIsAnswered'
    BY <1>0 DEF BusyIsAnswered, NewestOnItsWay
  <2> QED
    BY <1>a, <2>1, <2>2, <2>3, <2>4, <2>5 DEF Inv
<1> QED
  BY <1>1, <1>2, <1>3, <1>4, <1>5, <1>6, <1>7, <1>8, <1>9 DEF Next

-----------------------------------------------------------------------------
LEMMA InvHolds == Spec => []Inv
  BY InitInv, InvStep, PTL DEF Spec

\* Every variable keeps its type, at most one request pending.
THEOREM TypeCorrect == Spec => []TypeOK
  BY InvHolds, PTL DEF Inv

\* Results come back in the order of their submission, each at most once.
THEOREM ResultsComeInOrder == Spec => []JobsInOrder
  BY InvHolds, PTL DEF Inv

\* The frames shown are the whole answer for the stroke being drawn.
THEOREM FramesAreOfThisStroke == Spec => []OverlayOfThisStroke
  BY InvHolds, PTL DEF Inv

\* While m_jobBusy is set an answer that will arrive is on its way.
THEOREM BusyHasAnAnswer == Spec => []BusyIsAnswered
  BY InvHolds, PTL DEF Inv
=============================================================================
