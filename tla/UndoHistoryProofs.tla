------------------------- MODULE UndoHistoryProofs -------------------------
(***************************************************************************)
(* Proofs about UndoHistory for every depth of the rings, every set of     *)
(* gestures and every choice of the bounds.                                *)
(*                                                                         *)
(* The first part is about the rings and the latch alone: what an entry    *)
(* holds does not matter to it, so its inductive invariant Inv says of a   *)
(* ring only that it is a sequence of something, no longer than Depth.     *)
(*                                                                         *)
(* The rest is about the document, the entries and the desktop's mirror    *)
(* (SoundInv): types, m_byId, the mirror, and that no history step undoes  *)
(* through another edit.                                                   *)
(***************************************************************************)
EXTENDS UndoHistory, SequenceTheorems, WellFoundedInduction, TLAPS

Ring(r) == (\E S : r \in Seq(S)) /\ Len(r) <= Depth

IsState(s) ==
    /\ s = [doc |-> s.doc, undo |-> s.undo, redo |-> s.redo, mirror |-> s.mirror]
    /\ Ring(s.undo) /\ Ring(s.redo)

(***************************************************************************)
(* Pushing keeps a ring within its depth: a full one loses its oldest.     *)
(***************************************************************************)
LEMMA PushKeepsRing ==
    ASSUME NEW r, Ring(r), NEW e
    PROVE  Ring(Push(r, e)) /\ Push(r, e) # <<>>
<1>1. PICK S : r \in Seq(S)
  BY DEF Ring
<1> DEFINE T == S \cup {e}
           m == MakeRoom(r)
<1>2. r \in Seq(T) /\ e \in T /\ Len(r) \in Nat /\ Len(r) <= Depth /\ Depth \in Nat \ {0}
  BY <1>1, DepthAssumption DEF Ring
<1>3. m \in Seq(T) /\ Len(m) + 1 <= Depth
  <2>1. CASE Len(r) = Depth
    <3>1. r # <<>>
      BY <2>1, <1>2
    <3>2. Tail(r) \in Seq(T) /\ Len(Tail(r)) = Len(r) - 1
      BY <3>1, <1>2
    <3> QED
      BY <3>2, <2>1, <1>2 DEF MakeRoom
  <2>2. CASE Len(r) # Depth
    BY <2>2, <1>2 DEF MakeRoom
  <2> QED
    BY <2>1, <2>2
<1>4. Append(m, e) \in Seq(T) /\ Len(Append(m, e)) = Len(m) + 1 /\ Len(m) \in Nat
  BY <1>2, <1>3
<1>5. Push(r, e) = Append(m, e)
  BY DEF Push
<1> HIDE DEF T, m
<1>6. Len(Append(m, e)) <= Depth /\ Append(m, e) # <<>>
  BY <1>3, <1>4, <1>2
<1> QED
  BY <1>4, <1>5, <1>6 DEF Ring

(***************************************************************************)
(* Taking the newest entry keeps a ring a ring.                            *)
(***************************************************************************)
LEMMA FrontKeepsRing ==
    ASSUME NEW r, Ring(r), r # <<>>
    PROVE  Ring(Front(r))
<1>1. PICK S : r \in Seq(S)
  BY DEF Ring
<1>0. Len(r) \in Nat \ {0} /\ 1 \in Int /\ Len(r) - 1 \in Int
  BY <1>1
<1>5. \A i \in 1 .. Len(r) - 1 : r[i] \in S
  BY <1>1, <1>0
<1> DEFINE n == Len(r) - 1
           f == SubSeq(r, 1, n)
<1> HIDE DEF n
<1>6. f \in Seq(S) /\ Len(f) = IF 1 <= n THEN n - 1 + 1 ELSE 0
  BY <1>0, <1>5, SubSeqProperties DEF n
<1>7. n \in Nat
  BY <1>0 DEF n
<1>8. f \in Seq(S) /\ Len(f) = n
  <2> HIDE DEF f
  <2> QED
    BY <1>6, <1>7
<1>2. Front(r) \in Seq(S) /\ Len(Front(r)) = Len(r) - 1
  BY <1>8 DEF Front, n
<1>3. Len(r) \in Nat /\ Len(r) <= Depth /\ Depth \in Nat
  BY <1>1, DepthAssumption DEF Ring
<1>4. Len(Front(r)) <= Depth
  BY <1>2, <1>3
<1> QED
  BY <1>2, <1>4 DEF Ring

LEMMA EmptyRing == Ring(<<>>)
<1>1. <<>> \in Seq({}) /\ Len(<<>>) = 0 /\ 0 <= Depth
  BY DepthAssumption
<1> QED
  BY <1>1 DEF Ring
(***************************************************************************)
(* A history step, asked for or latched, moves at most one entry from a    *)
(* ring to the other.                                                      *)
(***************************************************************************)
LEMMA HistoryKeepsState ==
    ASSUME NEW s, IsState(s), NEW isUndo \in BOOLEAN
    PROVE  IsState(History(s, isUndo))
<1> DEFINE ring == IF isUndo THEN s.undo ELSE s.redo
           e == Last(ring)
           popped == IF isUndo THEN [s EXCEPT !.undo = Front(@)] ELSE [s EXCEPT !.redo = Front(@)]
           r == Replay(s.doc, e.inverses)
           moved == [doc |-> Restamp(r.doc, e, isUndo),
                     undo |-> IF isUndo THEN popped.undo ELSE Push(s.undo, Counterpart(e)),
                     redo |-> IF isUndo THEN Push(s.redo, Counterpart(e)) ELSE popped.redo,
                     mirror |-> PublishHistory(s, e, isUndo, r.ran)]
<1>1. /\ s = [doc |-> s.doc, undo |-> s.undo, redo |-> s.redo, mirror |-> s.mirror]
      /\ Ring(s.undo) /\ Ring(s.redo)
  BY DEF IsState
<1>2. History(s, isUndo) =
        IF ring = <<>> THEN s
        ELSE IF Blocked(s.doc, e, isUndo) THEN popped
        ELSE IF r.ran = <<>> THEN popped ELSE moved
  BY DEF History
<1>3. ASSUME ring # <<>> PROVE IsState(popped) /\ IsState(moved)
  <2> HIDE DEF r, e
  <2>1. CASE isUndo
    <3>1. Ring(Front(s.undo)) /\ Ring(Push(s.redo, Counterpart(e)))
      BY <1>1, <1>3, <2>1, FrontKeepsRing, PushKeepsRing
    <3>2. popped = [doc |-> s.doc, undo |-> Front(s.undo), redo |-> s.redo, mirror |-> s.mirror]
      BY <1>1, <2>1
    <3>3. IsState(popped)
      BY <3>1, <3>2, <1>1 DEF IsState
    <3>4. moved.undo = Front(s.undo) /\ moved.redo = Push(s.redo, Counterpart(e))
      BY <3>2, <2>1
    <3> QED
      BY <3>3, <3>4, <3>1 DEF IsState
  <2>2. CASE ~isUndo
    <3>1. Ring(Front(s.redo)) /\ Ring(Push(s.undo, Counterpart(e)))
      BY <1>1, <1>3, <2>2, FrontKeepsRing, PushKeepsRing
    <3>2. popped = [doc |-> s.doc, undo |-> s.undo, redo |-> Front(s.redo), mirror |-> s.mirror]
      BY <1>1, <2>2
    <3>3. IsState(popped)
      BY <3>1, <3>2, <1>1 DEF IsState
    <3>4. moved.redo = Front(s.redo) /\ moved.undo = Push(s.undo, Counterpart(e))
      BY <3>2, <2>2
    <3> QED
      BY <3>3, <3>4, <3>1 DEF IsState
  <2> QED
    BY <2>1, <2>2
<1> HIDE DEF ring, e, popped, r, moved
<1> QED
  BY <1>2, <1>3

LEMMA LatchedKeepsState ==
    ASSUME NEW s, IsState(s)
    PROVE  IsState(RunLatched(s))
<1>1. RunLatched(s) \in {History(s, TRUE), History(s, FALSE), s}
  BY DEF RunLatched
<1> QED
  BY <1>1, HistoryKeepsState

(***************************************************************************)
(* The inductive invariant and its steps.                                  *)
(***************************************************************************)
Inv == IsState(h) /\ LatchOnlyInGesture

LEMMA InitInv == Init => Inv
<1> SUFFICES ASSUME Init PROVE Inv
  OBVIOUS
<1>1. h.undo = <<>> /\ h.redo = <<>>
  BY DEF Init
<1>2. IsState(h)
  BY <1>1, EmptyRing DEF Init, IsState
<1> QED
  BY <1>2 DEF Inv, Init, LatchOnlyInGesture

\* The end of a gesture, shared by both commits and an abort.
LEMMA EndGestureInv ==
    ASSUME NEW s, IsState(s), EndGesture(s)
    PROVE  Inv'
<1>1. IsState(h')
  BY LatchedKeepsState DEF EndGesture
<1>2. LatchOnlyInGesture'
  BY DEF EndGesture, LatchOnlyInGesture
<1> QED
  BY <1>1, <1>2 DEF Inv, IsState

LEMMA AcceptInv ==
    ASSUME Inv, NEW op, NEW parts, NEW enqueue, NEW doc, Accept(op, parts, enqueue, doc)
    PROVE  Inv'
<1> DEFINE s == Committed(op, parts, enqueue, doc)
<1>1. Ring(Push(h.undo, EntryOf(op, parts, enqueue, doc)))
  BY PushKeepsRing DEF Inv, IsState
<1>2. IsState(s)
  BY <1>1, EmptyRing DEF Committed, IsState
<1>3. EndGesture(s)
  BY DEF Accept
<1> QED
  BY <1>2, <1>3, EndGestureInv

\* A refused single edit pushes an entry and pops it again.
LEMMA RejectInv ==
    ASSUME Inv, NEW e, h' = [h EXCEPT !.undo = RejectedRing(@, e)],
           UNCHANGED <<latch, gesture>>
    PROVE  Inv'
<1>1. /\ h = [doc |-> h.doc, undo |-> h.undo, redo |-> h.redo, mirror |-> h.mirror]
      /\ Ring(h.undo) /\ Ring(h.redo)
  BY DEF Inv, IsState
<1>2. Ring(RejectedRing(h.undo, e))
  BY <1>1, PushKeepsRing, FrontKeepsRing DEF RejectedRing
<1>3. h' = [doc |-> h.doc, undo |-> RejectedRing(h.undo, e), redo |-> h.redo,
            mirror |-> h.mirror]
  BY <1>1
<1>4. IsState(h')
  BY <1>1, <1>2, <1>3 DEF IsState
<1> QED
  BY <1>4 DEF Inv, IsState, LatchOnlyInGesture

\* Steps that change the document of h and nothing else of it.
LEMMA OtherDocInv ==
    ASSUME Inv, NEW doc, h' = [h EXCEPT !.doc = doc], UNCHANGED <<latch, gesture>>
    PROVE  Inv'
<1>1. /\ h = [doc |-> h.doc, undo |-> h.undo, redo |-> h.redo, mirror |-> h.mirror]
      /\ Ring(h.undo) /\ Ring(h.redo)
  BY DEF Inv, IsState
<1>2. h' = [doc |-> doc, undo |-> h.undo, redo |-> h.redo, mirror |-> h.mirror]
  BY <1>1
<1>3. IsState(h')
  BY <1>1, <1>2 DEF IsState
<1> QED
  BY <1>3 DEF Inv, IsState, LatchOnlyInGesture

LEMMA AskInv ==
    ASSUME Inv, AskUndo \/ AskRedo
    PROVE  Inv'
<1>1. IsState(h) /\ LatchOnlyInGesture
  BY DEF Inv
<1>2. IsState(History(h, TRUE)) /\ IsState(History(h, FALSE))
  BY <1>1, HistoryKeepsState
<1>3. CASE gesture
  <2>1. h' = h /\ gesture' = gesture
    BY <1>3 DEF AskUndo, AskRedo
  <2> QED
    BY <2>1, <1>1, <1>3 DEF Inv, IsState, LatchOnlyInGesture
<1>4. CASE ~gesture
  <2>1. h' \in {History(h, TRUE), History(h, FALSE)} /\ latch' = latch /\ gesture' = gesture
    BY <1>4 DEF AskUndo, AskRedo
  <2>2. IsState(h')
    BY <2>1, <1>2
  <2> QED
    BY <2>1, <2>2, <1>1 DEF Inv, IsState, LatchOnlyInGesture
<1> QED
  BY <1>3, <1>4

LEMMA NextInv == Inv /\ [Next]_vars => Inv'
<1> SUFFICES ASSUME Inv, [Next]_vars PROVE Inv'
  OBVIOUS
<1>1. CASE Commits
  <2>1. PICK shape \in Shapes : \E p \in Parts(shape) :
          \/ \E enqueue \in {TRUE} \cup (IF ops < MaxLoose THEN {FALSE} ELSE {}) :
                \/ Len(p) = 1 /\ CommitEdit(p[1], enqueue)
                \/ Len(p) > 1 /\ CommitGesture(p, enqueue)
          \/ Len(p) = 1 /\ RejectEdit(p[1])
          \/ Len(p) = 1 /\ RejectDuplicate(p[1])
          \/ Len(p) > 1 /\ RejectParts(p)
          \/ Len(p) = 1 /\ ApplyOutside(p[1])
    BY <1>1 DEF Commits
  <2>0. PICK parts \in Parts(shape) :
          \/ \E enqueue \in {TRUE} \cup (IF ops < MaxLoose THEN {FALSE} ELSE {}) :
                \/ Len(parts) = 1 /\ CommitEdit(parts[1], enqueue)
                \/ Len(parts) > 1 /\ CommitGesture(parts, enqueue)
          \/ Len(parts) = 1 /\ RejectEdit(parts[1])
          \/ Len(parts) = 1 /\ RejectDuplicate(parts[1])
          \/ Len(parts) > 1 /\ RejectParts(parts)
          \/ Len(parts) = 1 /\ ApplyOutside(parts[1])
    BY <2>1
  <2>2. ASSUME NEW enqueue, CommitEdit(parts[1], enqueue) PROVE Inv'
    BY <2>2, AcceptInv DEF CommitEdit
  <2>3. ASSUME NEW enqueue, CommitGesture(parts, enqueue) PROVE Inv'
    BY <2>3, AcceptInv DEF CommitGesture
  <2>4. CASE RejectEdit(parts[1]) \/ RejectDuplicate(parts[1])
    BY <2>4, RejectInv DEF RejectEdit, RejectDuplicate
  <2>5. CASE RejectParts(parts)
    BY <2>5, OtherDocInv DEF RejectParts
  <2>6. CASE ApplyOutside(parts[1])
    BY <2>6, OtherDocInv DEF ApplyOutside
  <2> QED
    BY <2>0, <2>2, <2>3, <2>4, <2>5, <2>6
<1>2. CASE AskUndo \/ AskRedo
  BY <1>2, AskInv
<1>3. CASE BeginGesture
  BY <1>3 DEF BeginGesture, Inv, IsState, LatchOnlyInGesture
<1>4. CASE AbortGesture
  BY <1>4, EndGestureInv DEF AbortGesture, Inv
<1>5. ASSUME NEW tree \in LoadTrees, AcceptLoad(tree) PROVE Inv'
  <2>1. h'.undo = <<>> /\ h'.redo = <<>>
    BY <1>5 DEF AcceptLoad
  <2>2. IsState(h')
    BY <1>5, <2>1, EmptyRing DEF AcceptLoad, IsState
  <2> QED
    BY <1>5, <2>2 DEF AcceptLoad, Inv, IsState, LatchOnlyInGesture
<1>6. CASE UNCHANGED vars
  BY <1>6 DEF vars, Inv, IsState, LatchOnlyInGesture
<1> QED
  BY <1>1, <1>2, <1>3, <1>4, <1>5, <1>6 DEF Next

\* The rings' depth and the latch, in every state: pushes of UndoRing and
\* runLatchedHistory keep them.
THEOREM InvHolds == Spec => []Inv
<1>1. Init => Inv
  BY InitInv
<1>2. Inv /\ [Next]_vars => Inv'
  BY NextInv
<1> QED
  BY <1>1, <1>2, PTL DEF Spec

(***************************************************************************)
(* Neither ring ever holds more than kUndoRingDepth entries, whatever the  *)
(* order of commits, refusals, undos, redos and latched requests.          *)
(***************************************************************************)
THEOREM RingsStayBounded == Spec => []RingsBounded
<1>1. Inv => RingsBounded
  BY DEF Inv, IsState, Ring, RingsBounded
<1> QED
  BY <1>1, InvHolds, PTL

(***************************************************************************)
(* No request stays latched once no gesture is in flight: every way a      *)
(* gesture ends consumes it (runLatchedHistory, onAcceptedDocLoad).        *)
(***************************************************************************)
THEOREM NoRequestLeftBehind == Spec => []LatchOnlyInGesture
<1>1. Inv => LatchOnlyInGesture
  BY DEF Inv
<1> QED
  BY <1>1, InvHolds, PTL

(***************************************************************************)
(* opIds are handed out as numbers; every step keeps or raises the last.   *)
(***************************************************************************)
OpsType == ops \in Nat

LEMMA OpsTypeHolds == Spec => []OpsType
<1>1. Init => OpsType
  BY DEF Init, OpsType
<1>2. OpsType /\ [Next]_vars => OpsType'
  <2> SUFFICES ASSUME OpsType, [Next]_vars PROVE OpsType'
    OBVIOUS
  <2>1. ops' \in {ops, ops + 1}
    BY DEF Next, vars, Commits, CommitEdit, CommitGesture, Accept, RejectEdit,
           RejectDuplicate, RejectParts, ApplyOutside, AskUndo, AskRedo, BeginGesture,
           AbortGesture, AcceptLoad
  <2> QED
    BY <2>1 DEF OpsType
<1> QED
  BY <1>1, <1>2, PTL DEF Spec

(***************************************************************************)
(* While a gesture lasts, undo and redo requests reach neither the tree    *)
(* nor the redo ring (undo, redo: the latch).                              *)
(***************************************************************************)
THEOREM RequestsWaitForGesture == Spec => HistoryWaitsForGesture
<1> DEFINE Waits == gesture /\ gesture' /\ ops' = ops
                    => h'.doc.tree = h.doc.tree /\ h'.redo = h.redo
<1>1. Inv /\ OpsType /\ [Next]_vars => [Waits]_vars
  <2> SUFFICES ASSUME Inv, OpsType, Next, gesture, gesture', ops' = ops
               PROVE  h'.doc.tree = h.doc.tree /\ h'.redo = h.redo
    OBVIOUS
  <2>1. h = [doc |-> h.doc, undo |-> h.undo, redo |-> h.redo, mirror |-> h.mirror]
    BY DEF Inv, IsState
  <2>2. ops + 1 # ops
    BY DEF OpsType
  <2>3. CASE Commits
    <3>1. \/ h' = h
          \/ \E u : h' = [h EXCEPT !.undo = u]
          \/ \E ix : h' = [h EXCEPT !.doc = [tree |-> h.doc.tree, index |-> ix]]
      BY <2>2, <2>3 DEF Commits, CommitEdit, CommitGesture, Accept, EndGesture, RejectEdit,
             RejectDuplicate, RejectParts, RollBack, ApplyOutside
    <3> QED
      BY <3>1, <2>1
  <2>4. CASE AskUndo \/ AskRedo
    BY <2>4 DEF AskUndo, AskRedo
  <2>5. CASE BeginGesture \/ AbortGesture
    BY <2>5 DEF BeginGesture, AbortGesture, EndGesture
  <2>6. CASE \E tree \in LoadTrees : AcceptLoad(tree)
    BY <2>6 DEF AcceptLoad
  <2> QED
    BY <2>3, <2>4, <2>5, <2>6 DEF Next
<1> HIDE DEF Waits
<1>2. Spec => [][Waits]_vars
  BY <1>1, InvHolds, OpsTypeHolds, PTL DEF Spec
<1> QED
  BY <1>2 DEF Waits, HistoryWaitsForGesture

-----------------------------------------------------------------------------
(***************************************************************************)
(* Sequences, trees and their index: what the vector of root nodes and     *)
(* m_byId are after an insertion, a removal, a payload edit and a stamp.   *)
(***************************************************************************)

\* InsertAt makes room for one element at k (std::vector::insert).
LEMMA InsertAtIs ==
  ASSUME NEW S, NEW t \in Seq(S), NEW k \in 1..(Len(t) + 1), NEW x \in S
  PROVE  LET u == InsertAt(t, k, x)
         IN  /\ u \in Seq(S) /\ Len(u) = Len(t) + 1 /\ DOMAIN u = 1..(Len(t) + 1)
             /\ \A i \in 1..(Len(t) + 1) :
                   u[i] = IF i < k THEN t[i] ELSE IF i = k THEN x ELSE t[i - 1]
<1> DEFINE n == Len(t)
           p == SubSeq(t, 1, k - 1)
           q == SubSeq(t, k, n)
           u == InsertAt(t, k, x)
<1>1. n \in Nat /\ k \in Nat /\ k >= 1 /\ k <= n + 1 /\ DOMAIN t = 1..n
  OBVIOUS
<1>2. p \in Seq(S) /\ Len(p) = k - 1 /\ \A i \in 1..(k - 1) : p[i] = t[i]
  <2>1. \A i \in 1..(k - 1) : t[i] \in S
    BY <1>1
  <2>2. /\ p \in Seq(S) /\ Len(p) = IF 1 <= k - 1 THEN k - 1 - 1 + 1 ELSE 0
        /\ \A i \in 1..(k - 1 - 1 + 1) : p[i] = t[1 + i - 1]
    BY <1>1, <2>1, SubSeqProperties
  <2>3. k - 1 - 1 + 1 = k - 1 /\ (~(1 <= k - 1) => k - 1 = 0) /\ \A i \in 1..(k - 1) : 1 + i - 1 = i
    BY <1>1
  <2> HIDE DEF p
  <2> QED
    BY <2>2, <2>3
<1>3. q \in Seq(S) /\ Len(q) = n - k + 1 /\ \A i \in 1..(n - k + 1) : q[i] = t[k + i - 1]
  <2>1. \A i \in k..n : t[i] \in S
    BY <1>1
  <2>2. /\ q \in Seq(S) /\ Len(q) = IF k <= n THEN n - k + 1 ELSE 0
        /\ \A i \in 1..(n - k + 1) : q[i] = t[k + i - 1]
    BY <1>1, <2>1, SubSeqProperties
  <2>3. ~(k <= n) => n - k + 1 = 0
    BY <1>1
  <2> HIDE DEF q
  <2> QED
    BY <2>2, <2>3
<1> DEFINE m == p \o <<x>>
<1> HIDE DEF p, q
<1>4. /\ m \in Seq(S) /\ Len(m) = k
      /\ \A i \in 1..k : m[i] = IF i < k THEN p[i] ELSE x
  <2>1. <<x>> \in Seq(S) /\ Len(<<x>>) = 1 /\ <<x>>[1] = x
    OBVIOUS
  <2>2. /\ m \in Seq(S) /\ Len(m) = Len(p) + 1
        /\ \A i \in 1..(Len(p) + 1) : m[i] = IF i <= Len(p) THEN p[i] ELSE <<x>>[i - Len(p)]
    BY <1>2, <2>1, ConcatProperties
  <2>3. Len(p) + 1 = k /\ \A i \in 1..k : (i <= Len(p) <=> i < k) /\ (~(i < k) => i - Len(p) = 1)
    BY <1>1, <1>2
  <2> HIDE DEF m
  <2> QED
    BY <2>1, <2>2, <2>3
<1> HIDE DEF m
<1>5. u = m \o q
  BY DEF InsertAt, m, p, q
<1> HIDE DEF u
<1>6. /\ u \in Seq(S) /\ Len(u) = Len(m) + Len(q)
      /\ \A i \in 1..(Len(m) + Len(q)) : u[i] = IF i <= Len(m) THEN m[i] ELSE q[i - Len(m)]
  BY <1>3, <1>4, <1>5, ConcatProperties
<1>7. Len(m) + Len(q) = n + 1
  BY <1>1, <1>3, <1>4
<1>8. \A i \in 1..(n + 1) : u[i] = IF i < k THEN t[i] ELSE IF i = k THEN x ELSE t[i - 1]
  <2> TAKE i \in 1..(n + 1)
  <2>1. CASE i < k
    <3>1. i \in 1..k /\ i \in 1..(k - 1) /\ i <= Len(m)
      BY <1>1, <1>4, <2>1
    <3> QED
      BY <1>2, <1>4, <1>6, <1>7, <2>1, <3>1
  <2>2. CASE i = k
    <3>1. i \in 1..k /\ i <= Len(m) /\ ~(i < k)
      BY <1>1, <1>4, <2>2
    <3> QED
      BY <1>4, <1>6, <1>7, <2>2, <3>1
  <2>3. CASE i > k
    <3>1. i - k \in 1..(n - k + 1) /\ ~(i <= Len(m)) /\ i - Len(m) = i - k /\ k + (i - k) - 1 = i - 1
          /\ ~(i < k) /\ i # k
      BY <1>1, <1>4, <2>3
    <3> QED
      BY <1>3, <1>6, <1>7, <3>1
  <2> QED
    BY <1>1, <2>1, <2>2, <2>3
<1>9. Len(u) = n + 1 /\ DOMAIN u = 1..(n + 1)
  BY <1>6, <1>7
<1> HIDE DEF n
<1> QED
  BY <1>6, <1>8, <1>9 DEF u, n

\* RemoveAt closes the gap (std::vector::erase).
LEMMA RemoveAtIs ==
  ASSUME NEW S, NEW t \in Seq(S), NEW k \in 1..Len(t)
  PROVE  LET u == RemoveAt(t, k)
         IN  /\ u \in Seq(S) /\ Len(u) = Len(t) - 1 /\ DOMAIN u = 1..(Len(t) - 1)
             /\ \A i \in 1..(Len(t) - 1) : u[i] = IF i < k THEN t[i] ELSE t[i + 1]
<1> DEFINE n == Len(t)
           p == SubSeq(t, 1, k - 1)
           q == SubSeq(t, k + 1, n)
           u == RemoveAt(t, k)
<1>1. n \in Nat /\ k \in Nat /\ k >= 1 /\ k <= n /\ DOMAIN t = 1..n
  OBVIOUS
<1>2. p \in Seq(S) /\ Len(p) = k - 1 /\ \A i \in 1..(k - 1) : p[i] = t[i]
  <2>1. \A i \in 1..(k - 1) : t[i] \in S
    BY <1>1
  <2>2. /\ p \in Seq(S) /\ Len(p) = IF 1 <= k - 1 THEN k - 1 - 1 + 1 ELSE 0
        /\ \A i \in 1..(k - 1 - 1 + 1) : p[i] = t[1 + i - 1]
    BY <1>1, <2>1, SubSeqProperties
  <2>3. k - 1 - 1 + 1 = k - 1 /\ (~(1 <= k - 1) => k - 1 = 0) /\ \A i \in 1..(k - 1) : 1 + i - 1 = i
    BY <1>1
  <2> HIDE DEF p
  <2> QED
    BY <2>2, <2>3
<1>3. q \in Seq(S) /\ Len(q) = n - k /\ \A i \in 1..(n - k) : q[i] = t[k + i]
  <2>1. \A i \in (k + 1)..n : t[i] \in S
    BY <1>1
  <2>2. /\ q \in Seq(S) /\ Len(q) = IF k + 1 <= n THEN n - (k + 1) + 1 ELSE 0
        /\ \A i \in 1..(n - (k + 1) + 1) : q[i] = t[k + 1 + i - 1]
    BY <1>1, <2>1, SubSeqProperties
  <2> HIDE DEF n
  <2>3. ~(k + 1 <= n) => n - k = 0
    BY <1>1
  <2>4. n - (k + 1) + 1 = n - k
    BY <1>1
  <2>5. \A i \in 1..(n - k) : k + 1 + i - 1 = k + i
    BY <1>1
  <2> HIDE DEF q
  <2> QED
    BY <2>2, <2>3, <2>4, <2>5
<1> HIDE DEF p, q
<1>4. u = p \o q
  BY DEF RemoveAt, p, q
<1> HIDE DEF u
<1>5. /\ u \in Seq(S) /\ Len(u) = Len(p) + Len(q)
      /\ \A i \in 1..(Len(p) + Len(q)) : u[i] = IF i <= Len(p) THEN p[i] ELSE q[i - Len(p)]
  BY <1>2, <1>3, <1>4, ConcatProperties
<1>6. Len(p) + Len(q) = n - 1 /\ n - 1 \in Nat
  BY <1>1, <1>2, <1>3
<1>7. \A i \in 1..(n - 1) : u[i] = IF i < k THEN t[i] ELSE t[i + 1]
  <2> TAKE i \in 1..(n - 1)
  <2>1. CASE i < k
    <3>1. i \in 1..(k - 1) /\ i <= Len(p)
      BY <1>1, <1>2, <2>1
    <3> QED
      BY <1>2, <1>5, <1>6, <2>1, <3>1
  <2>2. CASE i >= k
    <3>1. i - (k - 1) \in 1..(n - k) /\ ~(i <= Len(p)) /\ i - Len(p) = i - (k - 1)
          /\ k + (i - (k - 1)) = i + 1 /\ ~(i < k)
      BY <1>1, <1>2, <2>2
    <3> QED
      BY <1>3, <1>5, <1>6, <3>1
  <2> QED
    BY <1>1, <2>1, <2>2
<1>8. Len(u) = n - 1 /\ DOMAIN u = 1..(n - 1)
  BY <1>5, <1>6
<1> QED
  BY <1>5, <1>7, <1>8 DEF u

(***************************************************************************)
(* Documents whose index is true                                           *)
(***************************************************************************)
IsTree(t) == t \in Seq(Node) /\ \A i, j \in DOMAIN t : t[i].id = t[j].id => i = j

\* The document with this tree and every id pointed at its node.
Doc(t) == [tree |-> t, index |-> [id \in IdsOf(t) |-> Place(t, id)]]

\* A node of a tree is found at its own place.
LEMMA PlaceIs ==
  ASSUME NEW t, IsTree(t), NEW i \in DOMAIN t
  PROVE  t[i].id \in IdsOf(t) /\ t[i].id \in Ids /\ Place(t, t[i].id) = i
<1>1. t[i].id \in IdsOf(t)
  BY DEF IdsOf
<1>2. t[i] \in Node
  BY DEF IsTree
<1>3. \A j \in DOMAIN t : t[j].id = t[i].id => j = i
  BY DEF IsTree
<1> DEFINE P(j) == j \in DOMAIN t /\ t[j].id = t[i].id
<1>4. Place(t, t[i].id) \in DOMAIN t /\ t[Place(t, t[i].id)].id = t[i].id
  BY DEF Place
<1> QED
  BY <1>1, <1>2, <1>3, <1>4 DEF Node

\* The place of an id that is in the tree holds the node of that id.
LEMMA PlaceOf ==
  ASSUME NEW t, IsTree(t), NEW id \in IdsOf(t)
  PROVE  /\ Place(t, id) \in DOMAIN t /\ Place(t, id) \in 1..Len(t)
         /\ t[Place(t, id)].id = id /\ id \in Ids /\ t[Place(t, id)] \in Node
<1>1. PICK i \in DOMAIN t : t[i].id = id
  BY DEF IdsOf
<1>2. Place(t, id) = i /\ id \in Ids
  BY <1>1, PlaceIs
<1>3. t \in Seq(Node)
  BY DEF IsTree
<1> QED
  BY <1>1, <1>2, <1>3

\* Looking an id up in the index finds the place of its node.
LEMMA FindIs ==
  ASSUME NEW t, IsTree(t), NEW id
  PROVE  /\ Find(Doc(t), id) = IF id \in IdsOf(t) THEN Place(t, id) ELSE 0
         /\ Find(Doc(t), id) # 0 <=> id \in IdsOf(t)
<1>1. Find(Doc(t), id) = IF id \in IdsOf(t) THEN Place(t, id) ELSE 0
  BY DEF Find, Doc
<1>2. id \in IdsOf(t) => Place(t, id) # 0
  <2> SUFFICES ASSUME id \in IdsOf(t) PROVE Place(t, id) # 0
    OBVIOUS
  <2>1. Place(t, id) \in 1..Len(t) /\ t \in Seq(Node)
    BY PlaceOf DEF IsTree
  <2> QED
    BY <2>1
<1> QED
  BY <1>1, <1>2

\* Two trees with the same ids at the same places have the same index.
LEMMA SameIndex ==
  ASSUME NEW t, IsTree(t), NEW u, Len(u) = Len(t), u \in Seq(Node),
         \A i \in DOMAIN t : u[i].id = t[i].id
  PROVE  IsTree(u) /\ IdsOf(u) = IdsOf(t) /\ Doc(u) = [tree |-> u, index |-> Doc(t).index]
<1>1. t \in Seq(Node) /\ DOMAIN t = 1..Len(t) /\ DOMAIN u = 1..Len(t)
  BY DEF IsTree
<1>2. IsTree(u)
  BY <1>1 DEF IsTree
<1>3. IdsOf(u) = IdsOf(t)
  BY <1>1 DEF IdsOf
<1>4. \A id \in IdsOf(t) : Place(u, id) = Place(t, id)
  <2> TAKE id \in IdsOf(t)
  <2>1. PICK i \in DOMAIN t : t[i].id = id
    BY DEF IdsOf
  <2>2. i \in DOMAIN u /\ u[i].id = id
    BY <1>1, <2>1
  <2> QED
    BY <1>2, <2>1, <2>2, PlaceIs
<1> QED
  BY <1>2, <1>3, <1>4 DEF Doc

At(t, at) == IF at < 0 \/ at > Len(t) THEN Len(t) ELSE at
Put(t, node, at) == InsertAt(t, At(t, at) + 1, node)
Drop(t, id) == IF id \in IdsOf(t) THEN RemoveAt(t, Place(t, id)) ELSE t

\* Inserting a new node moves the nodes behind it by one and leaves a tree.
LEMMA PutIs ==
  ASSUME NEW t, IsTree(t), NEW node \in Node, NEW at \in Int, node.id \notin IdsOf(t)
  PROVE  LET u == Put(t, node, at)
             k == At(t, at) + 1
         IN  /\ k \in 1..(Len(t) + 1) /\ Len(u) = Len(t) + 1 /\ DOMAIN u = 1..(Len(t) + 1)
             /\ \A i \in 1..(Len(t) + 1) :
                   u[i] = IF i < k THEN t[i] ELSE IF i = k THEN node ELSE t[i - 1]
             /\ IsTree(u) /\ IdsOf(u) = IdsOf(t) \cup {node.id} /\ Place(u, node.id) = k
<1> DEFINE n == Len(t)
           k == At(t, at) + 1
           u == Put(t, node, at)
<1>1. t \in Seq(Node) /\ n \in Nat /\ DOMAIN t = 1..n
  BY DEF IsTree
<1>2. k \in 1..(n + 1)
  <2> HIDE DEF n
  <2>1. At(t, at) = IF at < 0 \/ at > n THEN n ELSE at
    BY DEF At, n
  <2> QED
    BY <1>1, <2>1
<1>3. /\ u \in Seq(Node) /\ Len(u) = n + 1 /\ DOMAIN u = 1..(n + 1)
      /\ \A i \in 1..(n + 1) :
            u[i] = IF i < k THEN t[i] ELSE IF i = k THEN node ELSE t[i - 1]
  <2>1. u = InsertAt(t, k, node)
    BY DEF Put
  <2> HIDE DEF u, k
  <2>2. /\ InsertAt(t, k, node) \in Seq(Node) /\ Len(InsertAt(t, k, node)) = n + 1
        /\ DOMAIN InsertAt(t, k, node) = 1..(n + 1)
        /\ \A i \in 1..(n + 1) : InsertAt(t, k, node)[i] =
              IF i < k THEN t[i] ELSE IF i = k THEN node ELSE t[i - 1]
    BY <1>1, <1>2, InsertAtIs, SMTT(30)
  <2> QED
    BY <2>1, <2>2
<1> HIDE DEF u, k, n
<1>4. \A i \in 1..(n + 1) :
        \/ i < k /\ i \in 1..n /\ u[i] = t[i]
        \/ i = k /\ u[i] = node
        \/ i > k /\ i - 1 \in 1..n /\ u[i] = t[i - 1]
  BY <1>1, <1>2, <1>3
<1>5. \A i \in 1..n : t[i].id # node.id /\ t[i].id \in IdsOf(t)
  BY <1>1 DEF IdsOf
<1>6. \A i, j \in 1..n : t[i].id = t[j].id => i = j
  BY <1>1 DEF IsTree
<1>7. \A i, j \in DOMAIN u : u[i].id = u[j].id => i = j
  <2> SUFFICES ASSUME NEW i \in 1..(n + 1), NEW j \in 1..(n + 1), u[i].id = u[j].id
               PROVE  i = j
    BY <1>3
  <2> QED
    BY <1>1, <1>2, <1>4, <1>5, <1>6
<1>8. IsTree(u)
  BY <1>3, <1>7 DEF IsTree
<1>9. IdsOf(u) = IdsOf(t) \cup {node.id}
  <2>1. \A i \in DOMAIN u : u[i].id \in IdsOf(t) \cup {node.id}
    BY <1>3, <1>4, <1>5
  <2>2. \A i \in 1..n : \E j \in 1..(n + 1) : u[j].id = t[i].id
    <3> TAKE i \in 1..n
    <3>1. CASE i < k
      <4>1. i \in 1..(n + 1) /\ u[i] = t[i]
        BY <1>1, <1>3, <3>1
      <4> QED
        BY <4>1
    <3>2. CASE i >= k
      <4>1. i + 1 \in 1..(n + 1) /\ i + 1 - 1 = i /\ ~(i + 1 < k) /\ i + 1 # k
        BY <1>1, <1>2, <3>2
      <4>2. u[i + 1] = t[i]
        BY <1>3, <4>1
      <4> QED
        BY <4>1, <4>2
    <3> QED
      BY <1>1, <1>2, <3>1, <3>2
  <2>3. u[k].id = node.id /\ k \in DOMAIN u
    BY <1>2, <1>3
  <2> QED
    <3>1. \A x \in IdsOf(u) : x \in IdsOf(t) \cup {node.id}
      BY <2>1 DEF IdsOf
    <3>2. \A x \in IdsOf(t) : x \in IdsOf(u)
      BY <1>1, <1>3, <2>2 DEF IdsOf
    <3>3. node.id \in IdsOf(u)
      BY <2>3 DEF IdsOf
    <3> QED
      BY <3>1, <3>2, <3>3
<1>10. Place(u, node.id) = k
  <2>1. k \in DOMAIN u /\ u[k].id = node.id
    BY <1>2, <1>3
  <2> QED
    BY <1>8, <2>1, PlaceIs
<1> QED
  BY <1>2, <1>3, <1>8, <1>9, <1>10 DEF u, k, n

\* Removing a node moves the nodes behind it back by one and leaves a tree.
LEMMA DropIs ==
  ASSUME NEW t, IsTree(t), NEW id \in IdsOf(t)
  PROVE  LET u == Drop(t, id)
             k == Place(t, id)
         IN  /\ k \in 1..Len(t) /\ Len(u) = Len(t) - 1 /\ DOMAIN u = 1..(Len(t) - 1)
             /\ \A i \in 1..(Len(t) - 1) : u[i] = IF i < k THEN t[i] ELSE t[i + 1]
             /\ IsTree(u) /\ IdsOf(u) = IdsOf(t) \ {id}
<1> DEFINE n == Len(t)
           k == Place(t, id)
           u == Drop(t, id)
<1>1. t \in Seq(Node) /\ n \in Nat /\ DOMAIN t = 1..n
  BY DEF IsTree
<1>2. k \in 1..n /\ t[k].id = id
  BY PlaceOf
<1>3. /\ u \in Seq(Node) /\ Len(u) = n - 1 /\ DOMAIN u = 1..(n - 1)
      /\ \A i \in 1..(n - 1) : u[i] = IF i < k THEN t[i] ELSE t[i + 1]
  BY <1>1, <1>2, RemoveAtIs DEF Drop
<1> HIDE DEF u, k, n
<1>4. \A i \in 1..(n - 1) :
        \/ i < k /\ i \in 1..n /\ u[i] = t[i]
        \/ i >= k /\ i + 1 \in 1..n /\ u[i] = t[i + 1]
  BY <1>1, <1>2, <1>3
<1>6. \A i, j \in 1..n : t[i].id = t[j].id => i = j
  BY <1>1 DEF IsTree
<1>7. \A i, j \in DOMAIN u : u[i].id = u[j].id => i = j
  <2> SUFFICES ASSUME NEW i \in 1..(n - 1), NEW j \in 1..(n - 1), u[i].id = u[j].id
               PROVE  i = j
    BY <1>3
  <2> QED
    BY <1>1, <1>2, <1>4, <1>6
<1>8. IsTree(u)
  BY <1>3, <1>7 DEF IsTree
<1>9. IdsOf(u) = IdsOf(t) \ {id}
  <2>1. \A i \in DOMAIN u : u[i].id \in IdsOf(t) \ {id}
    <3> SUFFICES ASSUME NEW i \in 1..(n - 1) PROVE u[i].id \in IdsOf(t) \ {id}
      BY <1>3
    <3>1. PICK j \in 1..n : u[i] = t[j] /\ j # k
      BY <1>1, <1>2, <1>4
    <3> QED
      BY <1>1, <1>2, <1>6, <3>1 DEF IdsOf
  <2>2. \A i \in 1..n : i # k => \E j \in 1..(n - 1) : u[j].id = t[i].id
    <3> SUFFICES ASSUME NEW i \in 1..n, i # k PROVE \E j \in 1..(n - 1) : u[j].id = t[i].id
      OBVIOUS
    <3>1. CASE i < k
      <4>1. i \in 1..(n - 1) /\ u[i] = t[i]
        BY <1>1, <1>2, <1>3, <3>1
      <4> QED
        BY <4>1
    <3>2. CASE i > k
      <4>1. i - 1 \in 1..(n - 1) /\ i - 1 + 1 = i /\ ~(i - 1 < k)
        BY <1>1, <1>2, <3>2
      <4>2. u[i - 1] = t[i]
        BY <1>3, <4>1
      <4> QED
        BY <4>1, <4>2
    <3> QED
      BY <1>1, <1>2, <3>1, <3>2
  <2> QED
    <3>1. \A x \in IdsOf(u) : x \in IdsOf(t) \ {id}
      BY <2>1 DEF IdsOf
    <3>2. \A x \in IdsOf(t) \ {id} : x \in IdsOf(u)
      <4> TAKE x \in IdsOf(t) \ {id}
      <4>1. PICK i \in 1..n : t[i].id = x
        BY <1>1 DEF IdsOf
      <4>2. PICK j \in 1..(n - 1) : u[j].id = t[i].id
        BY <1>2, <2>2, <4>1
      <4> QED
        BY <1>3, <4>1, <4>2 DEF IdsOf
    <3> QED
      BY <3>1, <3>2
<1> QED
  BY <1>2, <1>3, <1>8, <1>9 DEF u, k, n

\* Rebinding the index points every id of the tree at its node.
LEMMA RebindIs ==
  ASSUME NEW u, NEW index, DOMAIN index \subseteq IdsOf(u)
  PROVE  [tree |-> u, index |-> Rebind(u, index)] = Doc(u)
  BY DEF Rebind, Doc

\* Inserting a node leaves every id pointed at its node (rebindSiblings).
LEMMA InsertDoc ==
  ASSUME NEW t, IsTree(t), NEW node \in Node, NEW at \in Int, node.id \notin IdsOf(t)
  PROVE  Insert(Doc(t), node, at) = Doc(Put(t, node, at))
<1>1. DOMAIN Doc(t).index \subseteq IdsOf(Put(t, node, at)) /\ Doc(t).tree = t
  BY PutIs DEF Doc
<1>2. Insert(Doc(t), node, at) =
        [tree |-> Put(t, node, at), index |-> Rebind(Put(t, node, at), Doc(t).index)]
  BY <1>1 DEF Insert, Put, At
<1> QED
  BY <1>1, <1>2, RebindIs

\* Detaching a node leaves every id pointed at its node.
LEMMA DetachDoc ==
  ASSUME NEW t, IsTree(t), NEW id
  PROVE  Detach(Doc(t), id) = Doc(Drop(t, id))
<1>1. CASE id \notin IdsOf(t)
  BY <1>1 DEF Detach, Drop, Doc
<1>2. CASE id \in IdsOf(t)
  <2> DEFINE index == Restrict(Doc(t).index, DOMAIN Doc(t).index \ {id})
  <2>1. DOMAIN index \subseteq IdsOf(Drop(t, id)) /\ Doc(t).tree = t
    BY <1>2, DropIs DEF Doc, Restrict
  <2>2. Detach(Doc(t), id) = [tree |-> Drop(t, id), index |-> Rebind(Drop(t, id), index)]
    BY <1>2, <2>1 DEF Detach, Drop
  <2> HIDE DEF index
  <2> QED
    BY <2>1, <2>2, RebindIs
<1> QED
  BY <1>1, <1>2

\* Changing a payload disturbs no place.
LEMMA SetValIs ==
  ASSUME NEW t, IsTree(t), NEW k, NEW v \in Vals
  PROVE  LET u == SetVal(t, k, v)
         IN  /\ IsTree(u) /\ IdsOf(u) = IdsOf(t) /\ Len(u) = Len(t) /\ DOMAIN u = DOMAIN t
             /\ Doc(u) = [tree |-> u, index |-> Doc(t).index]
             /\ \A i \in DOMAIN t :
                  u[i] = IF i = k THEN [id |-> t[i].id, last |-> t[i].last, val |-> v] ELSE t[i]
<1> DEFINE u == SetVal(t, k, v)
<1>1. t \in Seq(Node) /\ DOMAIN t = 1..Len(t) /\ \A i \in DOMAIN t : t[i] \in Node
  BY DEF IsTree
<1>2. \A i \in DOMAIN t :
        /\ u[i] = IF i = k THEN [id |-> t[i].id, last |-> t[i].last, val |-> v] ELSE t[i]
        /\ u[i] \in Node /\ u[i].id = t[i].id
  BY <1>1 DEF SetVal, Node
<1>3. u \in Seq(Node) /\ Len(u) = Len(t) /\ DOMAIN u = DOMAIN t
  <2>1. DOMAIN u = 1..Len(t) /\ u = [i \in 1..Len(t) |-> u[i]] /\ Len(t) \in Nat
    BY <1>1 DEF SetVal
  <2> HIDE DEF u
  <2>2. u \in [1..Len(t) -> Node]
    BY <1>1, <1>2, <2>1
  <2> QED
    BY <1>1, <2>1, <2>2
<1> HIDE DEF u
<1>4. IsTree(u) /\ IdsOf(u) = IdsOf(t) /\ Doc(u) = [tree |-> u, index |-> Doc(t).index]
  BY <1>2, <1>3, SameIndex
<1> QED
  BY <1>2, <1>3, <1>4 DEF u

\* The tree of a stamped document.
Stamped(t, stamp) ==
    [i \in DOMAIN t |-> IF t[i].id \in DOMAIN stamp
                        THEN [id |-> t[i].id, last |-> stamp[t[i].id], val |-> t[i].val]
                        ELSE t[i]]

\* Stamping the last edit of nodes disturbs neither places nor payloads.
LEMMA StampDoc ==
  ASSUME NEW t, IsTree(t), NEW stamp, \A id \in DOMAIN stamp : stamp[id] \in Nat
  PROVE  LET u == Stamped(t, stamp)
         IN  /\ Stamp(Doc(t), stamp) = Doc(u)
             /\ IsTree(u) /\ IdsOf(u) = IdsOf(t) /\ Len(u) = Len(t) /\ DOMAIN u = DOMAIN t
             /\ \A i \in DOMAIN t : u[i].id = t[i].id /\ u[i].val = t[i].val
<1> DEFINE u == Stamped(t, stamp)
           hits(i) == {id \in DOMAIN stamp : Find(Doc(t), id) = i}
<1>1. t \in Seq(Node) /\ DOMAIN t = 1..Len(t) /\ (\A i \in DOMAIN t : t[i] \in Node)
      /\ Doc(t).tree = t /\ Len(t) \in Nat
  BY DEF IsTree, Doc
<1>2. ASSUME NEW i \in DOMAIN t
      PROVE  hits(i) = IF t[i].id \in DOMAIN stamp THEN {t[i].id} ELSE {}
  <2>1. \A id : Find(Doc(t), id) = i <=> id = t[i].id
    <3> TAKE id
    <3>1. Find(Doc(t), t[i].id) = i
      BY FindIs, PlaceIs
    <3>2. ASSUME Find(Doc(t), id) = i PROVE id = t[i].id
      <4>1. i # 0
        BY <1>1
      <4>2. id \in IdsOf(t) /\ Place(t, id) = i
        BY <3>2, <4>1, FindIs
      <4> QED
        BY <4>2, PlaceOf
    <3> QED
      BY <3>1, <3>2
  <2> QED
    BY <2>1
<1>3. \A i \in DOMAIN t :
        (IF hits(i) = {} THEN t[i]
         ELSE [t[i] EXCEPT !.last = stamp[CHOOSE id \in hits(i) : TRUE]]) = u[i]
  <2> TAKE i \in DOMAIN t
  <2>1. CASE t[i].id \in DOMAIN stamp
    <3>1. hits(i) = {t[i].id}
      BY <1>2, <2>1
    <3> HIDE DEF hits
    <3>2. (CHOOSE id \in hits(i) : TRUE) = t[i].id /\ hits(i) # {}
      BY <3>1
    <3>3. t[i] \in Node
      BY <1>1
    <3>4. [t[i] EXCEPT !.last = stamp[t[i].id]] =
            [id |-> t[i].id, last |-> stamp[t[i].id], val |-> t[i].val]
      BY <3>3 DEF Node
    <3> QED
      BY <2>1, <3>2, <3>4 DEF Stamped
  <2>2. CASE t[i].id \notin DOMAIN stamp
    <3>1. hits(i) = {}
      BY <1>2, <2>2
    <3> HIDE DEF hits
    <3> QED
      BY <2>2, <3>1 DEF Stamped
  <2> QED
    BY <2>1, <2>2
<1>4. Stamp(Doc(t), stamp) = [Doc(t) EXCEPT !.tree =
            [i \in DOMAIN t |->
                IF hits(i) = {} THEN t[i]
                ELSE [t[i] EXCEPT !.last = stamp[CHOOSE id \in hits(i) : TRUE]]]]
  BY <1>1 DEF Stamp
<1> HIDE DEF hits
<1>5. u = [i \in DOMAIN t |-> u[i]] /\ DOMAIN u = DOMAIN t
  BY DEF Stamped
<1>6. Stamp(Doc(t), stamp) = [Doc(t) EXCEPT !.tree = u]
  <2> HIDE DEF u
  <2> QED
    BY <1>3, <1>4, <1>5
<1>7. Stamp(Doc(t), stamp) = [tree |-> u, index |-> Doc(t).index]
  <2> HIDE DEF u
  <2> QED
    BY <1>6 DEF Doc
<1>8. \A i \in DOMAIN t : u[i].id = t[i].id /\ u[i].val = t[i].val /\ u[i] \in Node
  BY <1>1 DEF Stamped, Node
<1>9. u \in Seq(Node) /\ Len(u) = Len(t)
  <2> HIDE DEF u
  <2>2. u \in [1..Len(t) -> Node] /\ DOMAIN u = 1..Len(t)
    BY <1>1, <1>5, <1>8
  <2> QED
    BY <1>1, <2>2
<1> HIDE DEF u
<1>10. IsTree(u) /\ IdsOf(u) = IdsOf(t) /\ Doc(u) = [tree |-> u, index |-> Doc(t).index]
  BY <1>8, <1>9, SameIndex
<1> QED
  BY <1>5, <1>7, <1>8, <1>9, <1>10 DEF u

-----------------------------------------------------------------------------
(***************************************************************************)
(* Edits: one, several in a row (ApplyParts) and replayed ones (Replay).   *)
(* Both are recursive functions, so each is first unfolded; what holds     *)
(* after any number of edits is then proved by induction on that number.   *)
(***************************************************************************)

\* A set of numbers that is not empty has a smallest member.
LEMMA SmallestOf ==
    ASSUME NEW T, T \subseteq Nat, T # {}
    PROVE  \E x \in T : \A y \in T : x <= y
<1> DEFINE R == OpToRel(<, Nat)
<1>1. IsWellFoundedOn(R, Nat)
  BY NatLessThanWellFounded
<1>2. \A x, y \in Nat : <<y, x>> \in R <=> y < x
  BY DEF OpToRel
<1> HIDE DEF R
<1>3. PICK x \in T : \A y \in T : ~ (<<y, x>> \in R)
  BY <1>1, WFMin
<1>4. \A y \in T : ~ (y < x)
  <2> TAKE y \in T
  <2>1. x \in Nat /\ y \in Nat
    OBVIOUS
  <2> QED
    BY <2>1, <1>2, <1>3
<1> QED
  BY <1>4

\* Induction over the numbers, stated of a set.
LEMMA InductionSet ==
    ASSUME NEW S, 0 \in S, \A n \in Nat : n \in S => n + 1 \in S
    PROVE  Nat \subseteq S
<1> SUFFICES ASSUME Nat \ S # {} PROVE FALSE
  OBVIOUS
<1>1. PICK x \in Nat \ S : \A y \in Nat \ S : x <= y
  <2> DEFINE T == Nat \ S
  <2>1. T \subseteq Nat /\ T # {}
    OBVIOUS
  <2> HIDE DEF T
  <2>2. \E x \in T : \A y \in T : x <= y
    BY <2>1, SmallestOf
  <2> QED
    BY <2>2 DEF T
<1>2. x # 0 /\ x - 1 \in Nat /\ x - 1 < x
  OBVIOUS
<1>3. x - 1 \in S
  BY <1>1, <1>2
<1>4. x - 1 + 1 \in S
  BY <1>2, <1>3
<1> QED
  BY <1>4

PartStep(r, e) == IF r.ok THEN Apply(r.doc, e) ELSE r

\* The documents ApplyParts goes through.
PartsRun(f, doc, parts) ==
    /\ f[0] = Done(doc)
    /\ \A i \in 1..Len(parts) : f[i] = PartStep(f[i - 1], parts[i])
    /\ ApplyParts(doc, parts) = f[Len(parts)]

\* The recursion of ApplyParts, step by step.
LEMMA PartsUnfold ==
  ASSUME NEW doc, NEW parts, Len(parts) \in Nat
  PROVE  \E f : PartsRun(f, doc, parts)
<1> DEFINE n == Len(parts)
           Eq(f, m) == f = [i \in 0..m |-> IF i = 0 THEN Done(doc) ELSE PartStep(f[i - 1], parts[i])]
           S == {m \in Nat : \E f : Eq(f, m)}
<1>1. 0 \in S
  <2>1. Eq([i \in 0..0 |-> Done(doc)], 0)
    OBVIOUS
  <2> HIDE DEF Eq
  <2> QED
    BY <2>1
<1>2. ASSUME NEW m \in Nat, m \in S PROVE m + 1 \in S
  <2>1. PICK f : Eq(f, m)
    BY <1>2
  <2> DEFINE g == [i \in 0..(m + 1) |-> IF i = m + 1 THEN PartStep(f[m], parts[m + 1]) ELSE f[i]]
             w == [i \in 0..(m + 1) |-> IF i = 0 THEN Done(doc) ELSE PartStep(g[i - 1], parts[i])]
  <2>2. \A i \in 0..(m + 1) : g[i] = w[i]
    <3> TAKE i \in 0..(m + 1)
    <3>1. CASE i = 0
      BY <2>1, <3>1
    <3>2. CASE i = m + 1
      <4>1. g[i] = PartStep(f[m], parts[m + 1]) /\ i - 1 = m /\ i # 0 /\ m \in 0..(m + 1) /\ m # m + 1
        BY <3>2
      <4>2. g[m] = f[m]
        BY <4>1
      <4> QED
        BY <3>2, <4>1, <4>2
    <3>3. CASE i \in 1..m
      <4>1. i \in 0..m /\ i # 0 /\ i # m + 1 /\ i - 1 \in 0..m /\ i - 1 # m + 1 /\ i - 1 \in 0..(m + 1)
        BY <3>3
      <4>2. g[i] = f[i] /\ g[i - 1] = f[i - 1]
        BY <4>1
      <4>3. f[i] = PartStep(f[i - 1], parts[i])
        BY <2>1, <4>1
      <4> QED
        BY <4>1, <4>2, <4>3
    <3> QED
      BY <3>1, <3>2, <3>3
  <2>3. g = w
    BY <2>2
  <2> HIDE DEF g
  <2>4. Eq(g, m + 1)
    BY <2>3
  <2> HIDE DEF Eq
  <2> QED
    BY <2>4
<1> HIDE DEF S
<1>3. n \in S
  BY <1>1, <1>2, InductionSet
<1>4. PICK f : Eq(f, n)
  BY <1>3 DEF S
<1> DEFINE a == CHOOSE x : Eq(x, n)
<1>5. Eq(a, n)
  <2> HIDE DEF Eq
  <2> QED
    BY <1>4
<1>6. ApplyParts(doc, parts) = a[n]
  BY DEF ApplyParts, PartStep
<1> HIDE DEF a
<1>7. a[0] = Done(doc) /\ \A i \in 1..n : a[i] = PartStep(a[i - 1], parts[i])
  BY <1>5
<1> QED
  BY <1>6, <1>7 DEF PartsRun

OkOn(t, e) ==
    CASE e.kind = "create" -> e.id \notin IdsOf(t)
      [] e.kind \in {"remove", "set"} -> e.id \in IdsOf(t)
      [] OTHER -> TRUE

Blank(e) == [id |-> e.id, last |-> 0, val |-> e.val]
Body(e) == [id |-> e.id, last |-> e.last, val |-> e.val]

After(t, e) ==
    CASE e.kind = "create" -> Put(t, Blank(e), -1)
      [] e.kind = "remove" -> Drop(t, e.id)
      [] e.kind = "set" -> SetVal(t, Place(t, e.id), e.val)
      [] OTHER -> Put(Drop(t, e.id), Body(e), e.at)

\* Removing a node that is not there changes nothing.
LEMMA DropMissing ==
  ASSUME NEW t, IsTree(t), NEW id
  PROVE  IsTree(Drop(t, id)) /\ id \notin IdsOf(Drop(t, id)) /\ IdsOf(Drop(t, id)) \subseteq IdsOf(t)
<1>1. CASE id \in IdsOf(t)
  BY <1>1, DropIs
<1>2. CASE id \notin IdsOf(t)
  BY <1>2 DEF Drop
<1> QED
  BY <1>1, <1>2

\* What the fields of an edit are, and the nodes it may insert.
LEMMA EditFacts ==
  ASSUME NEW e \in Edit
  PROVE  /\ e.kind \in {"create", "remove", "set", "restore"} /\ e.id \in Ids /\ e.val \in Vals
         /\ e.at \in Int /\ e.last \in Nat
         /\ Blank(e) \in Node /\ Body(e) \in Node /\ Blank(e).id = e.id /\ Body(e).id = e.id
  BY DEF Edit, Node, Blank, Body

\* applyEdit on a tree: refused, or the tree after the edit with a true index.
LEMMA ApplyIs ==
  ASSUME NEW t, IsTree(t), NEW e \in Edit
  PROVE  /\ Apply(Doc(t), e) = IF OkOn(t, e) THEN Done(Doc(After(t, e))) ELSE Refused(Doc(t))
         /\ OkOn(t, e) => IsTree(After(t, e))
<1>1. Doc(t).tree = t /\ DOMAIN Doc(t).index = IdsOf(t)
  BY DEF Doc
<1>2. /\ e.kind \in {"create", "remove", "set", "restore"} /\ e.val \in Vals
      /\ e.at \in Int /\ -1 \in Int
      /\ Blank(e) \in Node /\ Body(e) \in Node /\ Blank(e).id = e.id /\ Body(e).id = e.id
  BY EditFacts
<1>3. CASE e.kind = "create"
  <2>1. OkOn(t, e) <=> e.id \notin IdsOf(t)
    BY <1>3 DEF OkOn
  <2>2. After(t, e) = Put(t, Blank(e), -1)
    BY <1>3 DEF After
  <2>3. Apply(Doc(t), e) = IF e.id \in IdsOf(t) THEN Refused(Doc(t))
                           ELSE Done(Insert(Doc(t), Blank(e), -1))
    BY <1>1, <1>3 DEF Apply, Blank
  <2> QED
    BY <1>2, <2>1, <2>2, <2>3, InsertDoc, PutIs
<1>4. CASE e.kind = "remove"
  <2>1. OkOn(t, e) <=> e.id \in IdsOf(t)
    BY <1>4 DEF OkOn
  <2>2. After(t, e) = Drop(t, e.id)
    BY <1>4 DEF After
  <2>3. Apply(Doc(t), e) = IF e.id \notin IdsOf(t) THEN Refused(Doc(t))
                           ELSE Done(Detach(Doc(t), e.id))
    BY <1>1, <1>4 DEF Apply
  <2> QED
    BY <2>1, <2>2, <2>3, DetachDoc, DropMissing
<1>5. CASE e.kind = "set"
  <2>1. OkOn(t, e) <=> e.id \in IdsOf(t)
    BY <1>5 DEF OkOn
  <2>2. After(t, e) = SetVal(t, Place(t, e.id), e.val)
    BY <1>5 DEF After
  <2>3. Apply(Doc(t), e) = IF Find(Doc(t), e.id) = 0 THEN Refused(Doc(t))
                           ELSE Done([Doc(t) EXCEPT !.tree = SetVal(@, Find(Doc(t), e.id), e.val)])
    BY <1>5 DEF Apply
  <2>4. Find(Doc(t), e.id) = 0 <=> e.id \notin IdsOf(t)
    BY FindIs
  <2>5. ASSUME e.id \in IdsOf(t)
        PROVE  /\ IsTree(After(t, e))
               /\ [Doc(t) EXCEPT !.tree = SetVal(@, Find(Doc(t), e.id), e.val)] = Doc(After(t, e))
    <3>1. Find(Doc(t), e.id) = Place(t, e.id)
      BY <2>5, FindIs
    <3>2. [Doc(t) EXCEPT !.tree = SetVal(@, Find(Doc(t), e.id), e.val)] =
            [tree |-> After(t, e), index |-> Doc(t).index]
      BY <1>1, <2>2, <3>1 DEF Doc
    <3>3. /\ IsTree(After(t, e))
          /\ Doc(After(t, e)) = [tree |-> After(t, e), index |-> Doc(t).index]
      BY <1>2, <2>2, SetValIs
    <3> QED
      BY <3>2, <3>3
  <2> QED
    BY <2>1, <2>3, <2>4, <2>5
<1>6. CASE e.kind = "restore"
  <2>1. OkOn(t, e)
    BY <1>6 DEF OkOn
  <2>2. After(t, e) = Put(Drop(t, e.id), Body(e), e.at)
    BY <1>6 DEF After
  <2>3. Apply(Doc(t), e) = Done(Insert(Detach(Doc(t), e.id), Body(e), e.at))
    BY <1>6 DEF Apply, Body
  <2>4. IsTree(Drop(t, e.id)) /\ e.id \notin IdsOf(Drop(t, e.id))
    BY DropMissing
  <2>5. Detach(Doc(t), e.id) = Doc(Drop(t, e.id))
    BY DetachDoc
  <2>6. Insert(Doc(Drop(t, e.id)), Body(e), e.at) = Doc(After(t, e)) /\ IsTree(After(t, e))
    BY <1>2, <2>2, <2>4, InsertDoc, PutIs
  <2> QED
    BY <2>1, <2>3, <2>5, <2>6
<1> QED
  BY <1>2, <1>3, <1>4, <1>5, <1>6

LastsIn(t, L) == \A i \in DOMAIN t : t[i].last \in L

\* The last edits after an edit are old ones, or those the edit carries.
LEMMA AfterLasts ==
  ASSUME NEW t, IsTree(t), NEW e \in Edit, OkOn(t, e), NEW L, LastsIn(t, L), 0 \in L,
         e.kind = "restore" => e.last \in L
  PROVE  LastsIn(After(t, e), L)
<1>1. t \in Seq(Node) /\ DOMAIN t = 1..Len(t) /\ Len(t) \in Nat
  BY DEF IsTree
<1>2. /\ e.kind \in {"create", "remove", "set", "restore"} /\ e.val \in Vals
      /\ e.at \in Int /\ -1 \in Int
      /\ Blank(e) \in Node /\ Body(e) \in Node /\ Blank(e).id = e.id /\ Body(e).id = e.id
  BY EditFacts
<1>3. ASSUME NEW u, IsTree(u), LastsIn(u, L), NEW x \in Node, x.last \in L, NEW at \in Int,
             x.id \notin IdsOf(u)
      PROVE  LastsIn(Put(u, x, at), L)
  <2>1. u \in Seq(Node) /\ DOMAIN u = 1..Len(u) /\ Len(u) \in Nat
    BY <1>3 DEF IsTree
  <2> DEFINE v == Put(u, x, at)
             k == At(u, at) + 1
  <2>2. /\ k \in 1..(Len(u) + 1) /\ DOMAIN v = 1..(Len(u) + 1)
        /\ \A i \in 1..(Len(u) + 1) :
               v[i] = IF i < k THEN u[i] ELSE IF i = k THEN x ELSE u[i - 1]
    BY <1>3, PutIs
  <2> HIDE DEF v, k
  <2>3. \A i \in DOMAIN v : v[i] = x \/ \E j \in DOMAIN u : v[i] = u[j]
    <3> TAKE i \in DOMAIN v
    <3>1. CASE i < k
      BY <2>1, <2>2, <3>1
    <3>2. CASE i > k
      <4>1. i - 1 \in DOMAIN u /\ ~(i < k) /\ i # k
        BY <2>1, <2>2, <3>2
      <4> QED
        BY <2>2, <4>1
    <3> QED
      BY <2>1, <2>2, <3>1, <3>2
  <2>4. \A i \in DOMAIN v : v[i].last \in L
    BY <1>3, <2>3 DEF LastsIn
  <2> QED
    BY <2>4 DEF LastsIn, v
<1>4. LastsIn(Drop(t, e.id), L) /\ IsTree(Drop(t, e.id)) /\ e.id \notin IdsOf(Drop(t, e.id))
  <2>1. CASE e.id \in IdsOf(t)
    <3> DEFINE u == Drop(t, e.id)
               k == Place(t, e.id)
    <3>1. /\ k \in 1..Len(t) /\ DOMAIN u = 1..(Len(t) - 1)
          /\ \A i \in 1..(Len(t) - 1) : u[i] = IF i < k THEN t[i] ELSE t[i + 1]
      BY <2>1, DropIs
    <3> HIDE DEF u, k
    <3>2. \A i \in DOMAIN u : \E j \in DOMAIN t : u[i] = t[j]
      <4> TAKE i \in DOMAIN u
      <4>1. i \in DOMAIN t /\ i + 1 \in DOMAIN t
        BY <1>1, <3>1
      <4> QED
        BY <3>1, <4>1
    <3>3. \A i \in DOMAIN u : u[i].last \in L
      BY <3>2 DEF LastsIn
    <3> QED
      BY <3>3, DropMissing DEF LastsIn, u
  <2>2. CASE e.id \notin IdsOf(t)
    BY <2>2 DEF Drop
  <2> QED
    BY <2>1, <2>2
<1>5. CASE e.kind = "create"
  <2>1. e.id \notin IdsOf(t) /\ After(t, e) = Put(t, Blank(e), -1) /\ Blank(e).last \in L
    BY <1>5 DEF OkOn, After, Blank
  <2> QED
    BY <1>2, <1>3, <2>1
<1>6. CASE e.kind = "remove"
  BY <1>4, <1>6 DEF After
<1>7. CASE e.kind = "set"
  <2> DEFINE u == SetVal(t, Place(t, e.id), e.val)
             k == Place(t, e.id)
  <2>1. After(t, e) = u
    BY <1>7 DEF After
  <2>2. /\ DOMAIN u = DOMAIN t
        /\ \A i \in DOMAIN t :
             u[i] = IF i = k THEN [id |-> t[i].id, last |-> t[i].last, val |-> e.val] ELSE t[i]
    BY <1>2, SetValIs
  <2> HIDE DEF u, k
  <2>3. \A i \in DOMAIN u : u[i].last = t[i].last
    BY <2>2
  <2> QED
    BY <2>1, <2>2, <2>3 DEF LastsIn
<1>8. CASE e.kind = "restore"
  <2>1. After(t, e) = Put(Drop(t, e.id), Body(e), e.at) /\ Body(e).last \in L
    BY <1>8 DEF After, Body
  <2> QED
    BY <1>2, <1>3, <1>4, <2>1
<1> QED
  BY <1>2, <1>5, <1>6, <1>7, <1>8

\* The last edits after stamping are old ones, or stamps.
LEMMA StampedLasts ==
  ASSUME NEW t, IsTree(t), NEW L, LastsIn(t, L), NEW stamp,
         \A id \in DOMAIN stamp : id \in IdsOf(t) => stamp[id] \in L
  PROVE  LastsIn(Stamped(t, stamp), L)
<1>1. \A i \in DOMAIN t : t[i].id \in IdsOf(t)
  BY DEF IdsOf
<1> QED
  BY <1>1 DEF LastsIn, Stamped

\* A document whose index is true and whose last edits are in L.
GoodDoc(doc, L) == IsTree(doc.tree) /\ doc = Doc(doc.tree) /\ LastsIn(doc.tree, L)

\* Every node of t outside T is in u as it is.
Kept(t, u, T) == \A i \in DOMAIN t : t[i].id \notin T => \E j \in DOMAIN u : u[j] = t[i]

EditsIn(s, L) == s \in Seq(Edit) /\ \A i \in DOMAIN s : s[i].last \in L

\* What two changes keep, both together keep.
LEMMA KeptTwice ==
  ASSUME NEW t, NEW u, NEW w, NEW T, Kept(t, u, T), Kept(u, w, T)
  PROVE  Kept(t, w, T)
  BY DEF Kept

\* An edit leaves every node but its own as it is.
LEMMA AfterKeeps ==
  ASSUME NEW t, IsTree(t), NEW e \in Edit, OkOn(t, e)
  PROVE  Kept(t, After(t, e), {e.id})
<1>1. t \in Seq(Node) /\ DOMAIN t = 1..Len(t) /\ Len(t) \in Nat
  BY DEF IsTree
<1>2. /\ e.kind \in {"create", "remove", "set", "restore"} /\ e.val \in Vals
      /\ e.at \in Int /\ -1 \in Int
      /\ Blank(e) \in Node /\ Body(e) \in Node /\ Blank(e).id = e.id /\ Body(e).id = e.id
  BY EditFacts
<1>3. ASSUME NEW u, IsTree(u), NEW x \in Node, NEW at \in Int, x.id \notin IdsOf(u)
      PROVE  Kept(u, Put(u, x, at), {e.id})
  <2>1. u \in Seq(Node) /\ DOMAIN u = 1..Len(u) /\ Len(u) \in Nat
    BY <1>3 DEF IsTree
  <2> DEFINE v == Put(u, x, at)
             k == At(u, at) + 1
  <2>2. /\ k \in 1..(Len(u) + 1) /\ DOMAIN v = 1..(Len(u) + 1)
        /\ \A i \in 1..(Len(u) + 1) :
               v[i] = IF i < k THEN u[i] ELSE IF i = k THEN x ELSE u[i - 1]
    BY <1>3, PutIs
  <2> HIDE DEF v, k
  <2>3. \A i \in DOMAIN u : \E j \in DOMAIN v : v[j] = u[i]
    <3> TAKE i \in DOMAIN u
    <3>1. CASE i < k
      <4>1. i \in DOMAIN v
        BY <2>1, <2>2
      <4> QED
        BY <2>2, <3>1, <4>1
    <3>2. CASE ~(i < k)
      <4>1. i + 1 \in DOMAIN v /\ ~(i + 1 < k) /\ i + 1 # k /\ (i + 1) - 1 = i
        BY <2>1, <2>2, <3>2
      <4>2. v[i + 1] = u[i]
        BY <2>2, <4>1
      <4> QED
        BY <4>1, <4>2
    <3> QED
      BY <3>1, <3>2
  <2> QED
    BY <2>3 DEF Kept, v
<1>4. Kept(t, Drop(t, e.id), {e.id}) /\ IsTree(Drop(t, e.id)) /\ e.id \notin IdsOf(Drop(t, e.id))
  <2>1. CASE e.id \in IdsOf(t)
    <3> DEFINE u == Drop(t, e.id)
               k == Place(t, e.id)
    <3>1. /\ k \in 1..Len(t) /\ DOMAIN u = 1..(Len(t) - 1) /\ t[k].id = e.id
          /\ \A i \in 1..(Len(t) - 1) : u[i] = IF i < k THEN t[i] ELSE t[i + 1]
      BY <2>1, DropIs, PlaceOf
    <3> HIDE DEF u, k
    <3>2. \A i \in DOMAIN t : i # k => \E j \in DOMAIN u : u[j] = t[i]
      <4> SUFFICES ASSUME NEW i \in DOMAIN t, i # k PROVE \E j \in DOMAIN u : u[j] = t[i]
        OBVIOUS
      <4>1. CASE i < k
        <5>1. i \in DOMAIN u
          BY <1>1, <3>1, <4>1
        <5> QED
          BY <3>1, <4>1, <5>1
      <4>2. CASE ~(i < k)
        <5>1. i - 1 \in DOMAIN u /\ ~(i - 1 < k) /\ (i - 1) + 1 = i
          BY <1>1, <3>1, <4>2
        <5>2. u[i - 1] = t[i]
          BY <3>1, <5>1
        <5> QED
          BY <5>1, <5>2
      <4> QED
        BY <4>1, <4>2
    <3>3. Kept(t, u, {e.id})
      BY <3>1, <3>2 DEF Kept
    <3> QED
      BY <3>3, DropMissing DEF u
  <2>2. CASE e.id \notin IdsOf(t)
    BY <2>2 DEF Drop, Kept
  <2> QED
    BY <2>1, <2>2
<1>5. CASE e.kind = "create"
  <2>1. e.id \notin IdsOf(t) /\ After(t, e) = Put(t, Blank(e), -1)
    BY <1>5 DEF OkOn, After
  <2> QED
    BY <1>2, <1>3, <2>1
<1>6. CASE e.kind = "remove"
  BY <1>4, <1>6 DEF After
<1>7. CASE e.kind = "set"
  <2> DEFINE u == SetVal(t, Place(t, e.id), e.val)
             k == Place(t, e.id)
  <2>1. After(t, e) = u /\ t[k].id = e.id
    BY <1>7, PlaceOf DEF After, OkOn
  <2>2. /\ DOMAIN u = DOMAIN t
        /\ \A i \in DOMAIN t :
             u[i] = IF i = k THEN [id |-> t[i].id, last |-> t[i].last, val |-> e.val] ELSE t[i]
    BY <1>2, SetValIs
  <2> HIDE DEF u, k
  <2> QED
    BY <2>1, <2>2 DEF Kept
<1>8. CASE e.kind = "restore"
  <2>1. After(t, e) = Put(Drop(t, e.id), Body(e), e.at)
    BY <1>8 DEF After
  <2>2. Kept(Drop(t, e.id), After(t, e), {e.id})
    BY <1>2, <1>3, <1>4, <2>1
  <2> QED
    BY <1>4, <2>2, KeptTwice
<1> QED
  BY <1>2, <1>5, <1>6, <1>7, <1>8

\* applyEdit keeps a document well formed and disturbs one id at most.
LEMMA ApplyGood ==
  ASSUME NEW L, 0 \in L, NEW doc, GoodDoc(doc, L), NEW e \in Edit, e.last \in L
  PROVE  /\ GoodDoc(Apply(doc, e).doc, L)
         /\ Kept(doc.tree, Apply(doc, e).doc.tree, {e.id})
         /\ Apply(doc, e).ok \in BOOLEAN
         /\ Apply(doc, e).ok <=> OkOn(doc.tree, e)
         /\ OkOn(doc.tree, e) => Apply(doc, e).doc = Doc(After(doc.tree, e))
<1> DEFINE t == doc.tree
<1>1. IsTree(t) /\ doc = Doc(t) /\ LastsIn(t, L)
  BY DEF GoodDoc
<1> HIDE DEF t
<1>2. Apply(doc, e) = IF OkOn(t, e) THEN Done(Doc(After(t, e))) ELSE Refused(Doc(t))
  BY <1>1, ApplyIs
<1>3. CASE OkOn(t, e)
  <2>1. IsTree(After(t, e)) /\ LastsIn(After(t, e), L) /\ Kept(t, After(t, e), {e.id})
    BY <1>1, <1>3, ApplyIs, AfterLasts, AfterKeeps
  <2>2. Apply(doc, e).doc = Doc(After(t, e)) /\ Apply(doc, e).ok = TRUE
    BY <1>2, <1>3 DEF Done
  <2>3. Doc(After(t, e)).tree = After(t, e)
    BY DEF Doc
  <2> QED
    BY <1>3, <2>1, <2>2, <2>3 DEF GoodDoc, t
<1>4. CASE ~OkOn(t, e)
  <2>1. Apply(doc, e).doc = doc /\ Apply(doc, e).ok = FALSE
    BY <1>1, <1>2, <1>4 DEF Refused
  <2>2. Kept(t, t, {e.id})
    BY DEF Kept
  <2> QED
    BY <1>4, <2>1, <2>2 DEF t
<1> QED
  BY <1>3, <1>4

\* So does a gesture of any number of edits, as far as it gets.
LEMMA PartsOK ==
  ASSUME NEW L, 0 \in L, NEW doc, GoodDoc(doc, L), NEW parts, EditsIn(parts, L)
  PROVE  GoodDoc(ApplyParts(doc, parts).doc, L)
<1> DEFINE n == Len(parts)
<1>1. n \in Nat /\ \A i \in 1..n : parts[i] \in Edit /\ parts[i].last \in L
  BY DEF EditsIn
<1>2. PICK f : PartsRun(f, doc, parts)
  BY <1>1, PartsUnfold
<1>3. /\ f[0] = Done(doc) /\ \A i \in 1..n : f[i] = PartStep(f[i - 1], parts[i])
      /\ ApplyParts(doc, parts) = f[n]
  BY <1>2 DEF PartsRun
<1> HIDE DEF n
<1> DEFINE S == {i \in Nat : i <= n => GoodDoc(f[i].doc, L)}
<1>4. 0 \in S
  BY <1>3 DEF Done
<1>5. ASSUME NEW i \in Nat, i \in S PROVE i + 1 \in S
  <2> SUFFICES ASSUME i + 1 <= n PROVE GoodDoc(f[i + 1].doc, L)
    OBVIOUS
  <2>1. i + 1 \in 1..n /\ i <= n /\ (i + 1) - 1 = i
    BY <1>1
  <2>2. GoodDoc(f[i].doc, L) /\ f[i + 1] = PartStep(f[i], parts[i + 1])
    BY <1>3, <1>5, <2>1
  <2>3. parts[i + 1] \in Edit /\ parts[i + 1].last \in L
    BY <1>1, <2>1
  <2> QED
    BY <2>2, <2>3, ApplyGood DEF PartStep
<1> HIDE DEF S
<1>6. n \in S
  BY <1>1, <1>4, <1>5, InductionSet
<1> QED
  BY <1>1, <1>3, <1>6 DEF S

-----------------------------------------------------------------------------
Passes(r, e) ==
    (e.kind \in {"set", "remove"} /\ Find(r.doc, e.id) = 0) \/ ~Apply(r.doc, e).ok

ReplayStep(r, e) ==
    IF Passes(r, e) THEN r ELSE [doc |-> Apply(r.doc, e).doc, ran |-> Append(r.ran, e)]

\* The documents Replay goes through.
ReplayRun(f, doc, edits) ==
    /\ f[0] = [doc |-> doc, ran |-> <<>>]
    /\ \A i \in 1..Len(edits) : f[i] = ReplayStep(f[i - 1], edits[i])
    /\ Replay(doc, edits) = f[Len(edits)]

\* The recursion of Replay, step by step.
LEMMA ReplayUnfold ==
  ASSUME NEW doc, NEW edits, Len(edits) \in Nat
  PROVE  \E f : ReplayRun(f, doc, edits)
<1> DEFINE n == Len(edits)
           start == [doc |-> doc, ran |-> <<>>]
           Eq(f, m) == f = [i \in 0..m |-> IF i = 0 THEN start ELSE ReplayStep(f[i - 1], edits[i])]
           S == {m \in Nat : \E f : Eq(f, m)}
<1>1. 0 \in S
  <2>1. Eq([i \in 0..0 |-> start], 0)
    OBVIOUS
  <2> HIDE DEF Eq
  <2> QED
    BY <2>1
<1>2. ASSUME NEW m \in Nat, m \in S PROVE m + 1 \in S
  <2>1. PICK f : Eq(f, m)
    BY <1>2
  <2> DEFINE g == [i \in 0..(m + 1) |-> IF i = m + 1 THEN ReplayStep(f[m], edits[m + 1]) ELSE f[i]]
             k == [i \in 0..(m + 1) |-> IF i = 0 THEN start ELSE ReplayStep(g[i - 1], edits[i])]
  <2> HIDE DEF start
  <2>2. \A i \in 0..(m + 1) : g[i] = k[i]
    <3> TAKE i \in 0..(m + 1)
    <3>1. CASE i = 0
      BY <2>1, <3>1
    <3>2. CASE i = m + 1
      <4>1. g[i] = ReplayStep(f[m], edits[m + 1]) /\ i - 1 = m /\ i # 0 /\ m \in 0..(m + 1) /\ m # m + 1
        BY <3>2
      <4>2. g[m] = f[m]
        BY <4>1
      <4> QED
        BY <3>2, <4>1, <4>2
    <3>3. CASE i \in 1..m
      <4>1. i \in 0..m /\ i # 0 /\ i # m + 1 /\ i - 1 \in 0..m /\ i - 1 # m + 1 /\ i - 1 \in 0..(m + 1)
        BY <3>3
      <4>2. g[i] = f[i] /\ g[i - 1] = f[i - 1]
        BY <4>1
      <4>3. f[i] = ReplayStep(f[i - 1], edits[i])
        BY <2>1, <4>1
      <4> QED
        BY <4>1, <4>2, <4>3
    <3> QED
      BY <3>1, <3>2, <3>3
  <2>3. g = k
    BY <2>2
  <2> HIDE DEF g
  <2>4. Eq(g, m + 1)
    BY <2>3
  <2> HIDE DEF Eq
  <2> QED
    BY <2>4
<1> HIDE DEF S
<1>3. n \in S
  BY <1>1, <1>2, InductionSet
<1>4. PICK f : Eq(f, n)
  BY <1>3 DEF S
<1> DEFINE a == CHOOSE x : Eq(x, n)
<1>5. Eq(a, n)
  <2> HIDE DEF Eq
  <2> QED
    BY <1>4
<1>6. Replay(doc, edits) = a[n]
  BY DEF Replay, ReplayStep, Passes
<1> HIDE DEF a
<1>7. a[0] = start /\ \A i \in 1..n : a[i] = ReplayStep(a[i - 1], edits[i])
  BY <1>5
<1> QED
  BY <1>6, <1>7 DEF ReplayRun

\* Replaying any number of edits keeps a document well formed and disturbs
\* only the nodes they name.
LEMMA ReplayOK ==
  ASSUME NEW L, 0 \in L, NEW doc, GoodDoc(doc, L), NEW edits, EditsIn(edits, L),
         NEW T, \A i \in DOMAIN edits : edits[i].id \in T
  PROVE  LET r == Replay(doc, edits)
         IN  GoodDoc(r.doc, L) /\ EditsIn(r.ran, L) /\ Kept(doc.tree, r.doc.tree, T)
<1> DEFINE n == Len(edits)
<1>1. n \in Nat /\ \A i \in 1..n : edits[i] \in Edit /\ edits[i].last \in L /\ edits[i].id \in T
  BY DEF EditsIn
<1>2. PICK f : ReplayRun(f, doc, edits)
  BY <1>1, ReplayUnfold
<1>3. /\ f[0] = [doc |-> doc, ran |-> <<>>]
      /\ \A i \in 1..n : f[i] = ReplayStep(f[i - 1], edits[i])
      /\ Replay(doc, edits) = f[n]
  BY <1>2 DEF ReplayRun
<1> HIDE DEF n
<1> DEFINE Good(r) == GoodDoc(r.doc, L) /\ EditsIn(r.ran, L) /\ Kept(doc.tree, r.doc.tree, T)
           S == {i \in Nat : i <= n => Good(f[i])}
<1>4. 0 \in S
  <2>1. EditsIn(<<>>, L) /\ Kept(doc.tree, doc.tree, T)
    BY DEF EditsIn, Kept
  <2> QED
    BY <1>3, <2>1
<1>5. ASSUME NEW i \in Nat, i \in S PROVE i + 1 \in S
  <2> SUFFICES ASSUME i + 1 <= n PROVE Good(f[i + 1])
    OBVIOUS
  <2>1. i + 1 \in 1..n /\ i <= n /\ (i + 1) - 1 = i
    BY <1>1
  <2> DEFINE r == f[i]
             e == edits[i + 1]
  <2>2. Good(r) /\ f[i + 1] = ReplayStep(r, e)
    BY <1>3, <1>5, <2>1
  <2>3. e \in Edit /\ e.last \in L /\ e.id \in T
    BY <1>1, <2>1
  <2> HIDE DEF r, e
  <2>4. GoodDoc(Apply(r.doc, e).doc, L) /\ Kept(r.doc.tree, Apply(r.doc, e).doc.tree, {e.id})
    BY <2>2, <2>3, ApplyGood
  <2>5. Kept(doc.tree, Apply(r.doc, e).doc.tree, T)
    BY <2>2, <2>3, <2>4 DEF Kept
  <2>6. EditsIn(Append(r.ran, e), L)
    BY <2>2, <2>3 DEF EditsIn
  <2> QED
    BY <2>2, <2>4, <2>5, <2>6 DEF ReplayStep
<1> HIDE DEF S
<1>6. n \in S
  BY <1>1, <1>4, <1>5, InductionSet
<1> QED
  BY <1>1, <1>3, <1>6 DEF S

\* A list of one edit.
LEMMA ReplayOne ==
  ASSUME NEW L, 0 \in L, NEW doc, GoodDoc(doc, L), NEW e \in Edit, e.last \in L
  PROVE  Replay(doc, <<e>>) =
            IF OkOn(doc.tree, e) THEN [doc |-> Doc(After(doc.tree, e)), ran |-> <<e>>]
            ELSE [doc |-> doc, ran |-> <<>>]
<1>1. Len(<<e>>) = 1 /\ <<e>>[1] = e
  OBVIOUS
<1>2. PICK f : ReplayRun(f, doc, <<e>>)
  BY <1>1, ReplayUnfold
<1> DEFINE r == [doc |-> doc, ran |-> <<>>]
<1>3. Replay(doc, <<e>>) = ReplayStep(r, e)
  <2>1. f[0] = r /\ f[1] = ReplayStep(f[1 - 1], <<e>>[1]) /\ Replay(doc, <<e>>) = f[1]
    BY <1>1, <1>2 DEF ReplayRun
  <2> QED
    BY <1>1, <2>1
<1>4. /\ Apply(doc, e).ok <=> OkOn(doc.tree, e)
      /\ OkOn(doc.tree, e) => Apply(doc, e).doc = Doc(After(doc.tree, e))
  BY ApplyGood
<1>5. e.kind \in {"set", "remove"} /\ OkOn(doc.tree, e) => Find(doc, e.id) # 0
  <2>1. IsTree(doc.tree) /\ doc = Doc(doc.tree)
    BY DEF GoodDoc
  <2>2. Find(doc, e.id) # 0 <=> e.id \in IdsOf(doc.tree)
    BY <2>1, FindIs
  <2> QED
    BY <2>2 DEF OkOn
<1>6. r.doc = doc /\ Append(r.ran, e) = <<e>>
  OBVIOUS
<1>7. Passes(r, e) <=> ~OkOn(doc.tree, e)
  BY <1>4, <1>5, <1>6 DEF Passes
<1> HIDE DEF r
<1> QED
  BY <1>3, <1>4, <1>6, <1>7 DEF ReplayStep, r

-----------------------------------------------------------------------------
(***************************************************************************)
(* Rings as sets of entries, and the desktop's mirror.                     *)
(***************************************************************************)

\* A ring without its newest entry.
LEMMA FrontIs ==
  ASSUME NEW S, NEW r \in Seq(S), r # <<>>
  PROVE  /\ Front(r) \in Seq(S) /\ Len(Front(r)) = Len(r) - 1
         /\ \A i \in 1..(Len(r) - 1) : Front(r)[i] = r[i]
         /\ Range(Front(r)) \subseteq Range(r) /\ Last(r) \in Range(r) /\ Last(r) \in S
<1> DEFINE n == Len(r) - 1
           f == Front(r)
<1>0. Len(r) \in Nat \ {0} /\ DOMAIN r = 1..Len(r)
  OBVIOUS
<1>1. n \in Nat /\ n + 1 = Len(r) /\ 1 \in Int /\ n \in Int
  BY <1>0
<1>2. \A i \in 1..n : r[i] \in S
  BY <1>0
<1>3. f = SubSeq(r, 1, n)
  BY DEF Front
<1> HIDE DEF n, f
<1>4. /\ f \in Seq(S) /\ Len(f) = IF 1 <= n THEN n - 1 + 1 ELSE 0
      /\ \A i \in 1..(n - 1 + 1) : f[i] = r[1 + i - 1]
  BY <1>1, <1>2, <1>3, SubSeqProperties
<1>5. Len(f) = n /\ DOMAIN f = 1..n /\ \A i \in 1..n : f[i] = r[i]
  BY <1>1, <1>4
<1>6. \A i \in 1..n : i \in DOMAIN r
  BY <1>0, <1>1
<1>7. Range(f) \subseteq Range(r)
  BY <1>5, <1>6 DEF Range
<1>8. Last(r) \in Range(r) /\ Last(r) \in S
  BY <1>0 DEF Last, Range
<1> QED
  BY <1>1, <1>4, <1>5, <1>7, <1>8 DEF n, f

\* A ring with one entry more; the oldest may be gone.
LEMMA PushIs ==
  ASSUME NEW S, NEW r \in Seq(S), NEW e \in S
  PROVE  Push(r, e) \in Seq(S) /\ Push(r, e) # <<>> /\ Range(Push(r, e)) \subseteq Range(r) \cup {e}
<1> DEFINE m == MakeRoom(r)
<1>1. m \in Seq(S) /\ Range(m) \subseteq Range(r)
  <2>1. CASE Len(r) = Depth
    <3>1. r # <<>> /\ m = Tail(r)
      BY <2>1, DepthAssumption DEF MakeRoom
    <3>2. /\ Tail(r) \in Seq(S) /\ DOMAIN Tail(r) = 1..(Len(r) - 1) /\ Len(r) \in Nat
          /\ \A i \in 1..(Len(r) - 1) : Tail(r)[i] = r[i + 1] /\ i + 1 \in DOMAIN r
      BY <3>1
    <3>3. Range(Tail(r)) \subseteq Range(r)
      BY <3>2 DEF Range
    <3> QED
      BY <3>1, <3>2, <3>3
  <2>2. CASE Len(r) # Depth
    BY <2>2 DEF MakeRoom
  <2> QED
    BY <2>1, <2>2
<1>2. Push(r, e) = Append(m, e)
  BY DEF Push
<1> HIDE DEF m
<1>3. /\ Append(m, e) \in Seq(S) /\ Append(m, e) # <<>> /\ Len(m) \in Nat
      /\ DOMAIN Append(m, e) = 1..(Len(m) + 1) /\ DOMAIN m = 1..Len(m)
      /\ \A i \in 1..Len(m) : Append(m, e)[i] = m[i]
      /\ Append(m, e)[Len(m) + 1] = e
  BY <1>1
<1>4. \A i \in DOMAIN Append(m, e) : Append(m, e)[i] \in Range(m) \cup {e}
  <2> TAKE i \in DOMAIN Append(m, e)
  <2>1. i \in 1..Len(m) \/ i = Len(m) + 1
    BY <1>3
  <2>2. CASE i \in 1..Len(m)
    <3>1. Append(m, e)[i] = m[i] /\ i \in DOMAIN m
      BY <1>3, <2>2
    <3> QED
      BY <3>1 DEF Range
  <2> QED
    BY <1>3, <2>1, <2>2
<1>5. Range(Append(m, e)) \subseteq Range(m) \cup {e}
  BY <1>4 DEF Range
<1> QED
  BY <1>1, <1>2, <1>3, <1>5

\* An empty ring holds no entry.
LEMMA EmptyRange == Range(<<>>) = {}
  BY DEF Range

-----------------------------------------------------------------------------
\* The mirror.
MirrorType == [tree : View, suspect : BOOLEAN]

\* The content of a tree is a view of it with the same ids at the same places.
LEMMA ContentIs ==
  ASSUME NEW t, IsTree(t)
  PROVE  /\ Content(t) \in View /\ Len(Content(t)) = Len(t) /\ DOMAIN Content(t) = DOMAIN t
         /\ \A i \in DOMAIN t : /\ Content(t)[i] = [id |-> t[i].id, val |-> t[i].val]
                                /\ Content(t)[i].id = t[i].id
         /\ {Content(t)[i].id : i \in DOMAIN Content(t)} = IdsOf(t)
         /\ \A id : (CHOOSE i \in DOMAIN Content(t) : Content(t)[i].id = id) = Place(t, id)
<1> DEFINE c == Content(t)
<1>1. t \in Seq(Node) /\ DOMAIN t = 1..Len(t) /\ Len(t) \in Nat /\ \A i \in DOMAIN t : t[i] \in Node
  BY DEF IsTree
<1>2. DOMAIN c = DOMAIN t /\ c = [i \in DOMAIN t |-> c[i]]
      /\ \A i \in DOMAIN t : c[i] = [id |-> t[i].id, val |-> t[i].val] /\ c[i].id = t[i].id
  BY DEF Content
<1>3. \A i \in DOMAIN t : c[i] \in [id : Ids, val : Vals]
  BY <1>1, <1>2 DEF Node
<1> HIDE DEF c
<1>4. c \in View /\ Len(c) = Len(t)
  <2>1. c \in [1..Len(t) -> [id : Ids, val : Vals]]
    BY <1>1, <1>2, <1>3
  <2> QED
    BY <1>1, <1>2, <2>1 DEF View
<1>5. {c[i].id : i \in DOMAIN c} = IdsOf(t)
  BY <1>2 DEF IdsOf
<1>6. \A id : (CHOOSE i \in DOMAIN c : c[i].id = id) = Place(t, id)
  <2> TAKE id
  <2>1. \A i : (i \in DOMAIN c /\ c[i].id = id) <=> (i \in DOMAIN t /\ t[i].id = id)
    BY <1>2
  <2> QED
    BY <2>1 DEF Place
<1> QED
  BY <1>2, <1>4, <1>5, <1>6 DEF c

\* A sequence of views is the content of a tree if it is so node by node.
LEMMA SameContent ==
  ASSUME NEW u, IsTree(u), NEW w \in View, Len(w) = Len(u),
         \A i \in 1..Len(u) : w[i] = [id |-> u[i].id, val |-> u[i].val]
  PROVE  w = Content(u)
<1>1. u \in Seq(Node) /\ DOMAIN u = 1..Len(u)
  BY DEF IsTree
<1>2. w = [i \in 1..Len(w) |-> w[i]]
  BY DEF View
<1> QED
  BY <1>1, <1>2 DEF Content

\* The mirror appends a created node as the document does.
LEMMA MirrorCreates ==
  ASSUME NEW t, IsTree(t), NEW x \in Node, x.id \notin IdsOf(t)
  PROVE  Append(Content(t), [id |-> x.id, val |-> x.val]) = Content(Put(t, x, -1))
<1> DEFINE u == Put(t, x, -1)
           k == At(t, -1) + 1
           n == Len(t)
           v == [id |-> x.id, val |-> x.val]
           c == Content(t)
           w == Append(c, v)
<1>1. n \in Nat /\ DOMAIN t = 1..n /\ k = n + 1
  BY DEF IsTree, At
<1>2. /\ IsTree(u) /\ Len(u) = n + 1
      /\ \A i \in 1..(n + 1) : u[i] = IF i < k THEN t[i] ELSE IF i = k THEN x ELSE t[i - 1]
  BY PutIs
<1>3. c \in View /\ Len(c) = n /\ \A i \in 1..n : c[i] = [id |-> t[i].id, val |-> t[i].val]
  BY <1>1, ContentIs
<1>4. v \in [id : Ids, val : Vals]
  BY DEF Node
<1> HIDE DEF u, k, n, c, v
<1>5. /\ w \in View /\ Len(w) = n + 1 /\ w[n + 1] = v
      /\ \A i \in 1..n : w[i] = c[i]
  BY <1>1, <1>3, <1>4 DEF View
<1>6. \A i \in 1..(n + 1) : w[i] = [id |-> u[i].id, val |-> u[i].val]
  <2> TAKE i \in 1..(n + 1)
  <2>1. CASE i = n + 1
    <3>1. u[i] = x
      BY <1>1, <1>2, <2>1
    <3> QED
      BY <1>5, <2>1, <3>1 DEF v
  <2>2. CASE i \in 1..n
    <3>1. i < k
      BY <1>1, <2>2
    <3>2. u[i] = t[i]
      BY <1>2, <3>1
    <3> QED
      BY <1>3, <1>5, <2>2, <3>2
  <2>3. i = n + 1 \/ i \in 1..n
    BY <1>1
  <2> QED
    BY <2>1, <2>2, <2>3
<1> HIDE DEF w
<1> QED
  BY <1>2, <1>5, <1>6, SameContent DEF u, w, c, v

\* The mirror removes a node as the document does.
LEMMA MirrorRemoves ==
  ASSUME NEW t, IsTree(t), NEW id \in IdsOf(t)
  PROVE  RemoveAt(Content(t), Place(t, id)) = Content(Drop(t, id))
<1> DEFINE u == Drop(t, id)
           k == Place(t, id)
           n == Len(t)
           c == Content(t)
           w == RemoveAt(c, k)
<1>1. n \in Nat /\ DOMAIN t = 1..n
  BY DEF IsTree
<1>2. /\ IsTree(u) /\ Len(u) = n - 1 /\ k \in 1..n
      /\ \A i \in 1..(n - 1) : u[i] = IF i < k THEN t[i] ELSE t[i + 1]
  BY DropIs
<1>3. c \in View /\ Len(c) = n /\ \A i \in 1..n : c[i] = [id |-> t[i].id, val |-> t[i].val]
  BY <1>1, ContentIs
<1> HIDE DEF u, k, n, c
<1>4. /\ w \in View /\ Len(w) = n - 1
      /\ \A i \in 1..(n - 1) : w[i] = IF i < k THEN c[i] ELSE c[i + 1]
  BY <1>2, <1>3, RemoveAtIs DEF View
<1> HIDE DEF w
<1>5. \A i \in 1..(n - 1) : w[i] = [id |-> u[i].id, val |-> u[i].val]
  <2> TAKE i \in 1..(n - 1)
  <2>1. i \in 1..n /\ i + 1 \in 1..n
    BY <1>1
  <2> QED
    BY <1>2, <1>3, <1>4, <2>1
<1>6. \A i \in 1..Len(u) : w[i] = [id |-> u[i].id, val |-> u[i].val]
  BY <1>2, <1>5
<1> QED
  BY <1>2, <1>4, <1>6, SameContent DEF u, w, c, k

\* The mirror changes a payload as the document does.
LEMMA MirrorSets ==
  ASSUME NEW t, IsTree(t), NEW id \in IdsOf(t), NEW v \in Vals
  PROVE  SetVal(Content(t), Place(t, id), v) = Content(SetVal(t, Place(t, id), v))
<1> DEFINE k == Place(t, id)
           u == SetVal(t, k, v)
           c == Content(t)
           w == SetVal(c, k, v)
<1>1. c \in View /\ DOMAIN c = DOMAIN t /\ \A i \in DOMAIN t : c[i] = [id |-> t[i].id, val |-> t[i].val]
  BY ContentIs
<1>2. /\ DOMAIN u = DOMAIN t
      /\ \A i \in DOMAIN t :
           u[i] = IF i = k THEN [id |-> t[i].id, last |-> t[i].last, val |-> v] ELSE t[i]
  BY SetValIs
<1> HIDE DEF u, k, c
<1>3. \A i \in DOMAIN t : [c[i] EXCEPT !.val = v] = [id |-> t[i].id, val |-> v]
  BY <1>1
<1>4. w = [i \in DOMAIN t |-> IF i = k THEN [id |-> t[i].id, val |-> v] ELSE c[i]]
  BY <1>1, <1>3 DEF SetVal
<1>5. \A i \in DOMAIN t : (IF i = k THEN [id |-> t[i].id, val |-> v] ELSE c[i])
                           = [id |-> u[i].id, val |-> u[i].val]
  BY <1>1, <1>2
<1>6. w = [i \in DOMAIN t |-> [id |-> u[i].id, val |-> u[i].val]]
  BY <1>4, <1>5
<1> HIDE DEF w
<1> QED
  BY <1>2, <1>6 DEF u, k, c, w, Content

\* One published edit the tablet has applied.
LEMMA MirrorStep ==
  ASSUME NEW t, IsTree(t),
         NEW e \in Edit, OkOn(t, e), e.kind = "restore" => e.id \notin IdsOf(t)
  PROVE  LET w == Mirrored([tree |-> Content(t), suspect |-> FALSE], e)
         IN  /\ w \in MirrorType
             /\ ~w.suspect => e.kind # "restore" /\ w.tree = Content(After(t, e))
<1> DEFINE c == Content(t)
           k == Place(t, e.id)
           m == [tree |-> c, suspect |-> FALSE]
           suspected == [tree |-> c, suspect |-> TRUE]
           node == [id |-> e.id, val |-> e.val]
           with(tree) == [tree |-> tree, suspect |-> FALSE]
<1>1. /\ e.kind \in {"create", "remove", "set", "restore"} /\ e.val \in Vals /\ e.id \in Ids
      /\ Blank(e) \in Node /\ Blank(e).id = e.id /\ Blank(e).val = e.val
  BY EditFacts DEF Blank
<1>2. c \in View /\ {c[i].id : i \in DOMAIN c} = IdsOf(t) /\ MirrorPlace(m, e.id) = k
  BY ContentIs DEF MirrorPlace
<1>3. /\ e.kind = "create" /\ e.id \notin IdsOf(t) => Mirrored(m, e) = with(Append(c, node))
      /\ e.kind = "remove" /\ e.id \in IdsOf(t) => Mirrored(m, e) = with(RemoveAt(c, k))
      /\ e.kind = "set" /\ e.id \in IdsOf(t) => Mirrored(m, e) = with(SetVal(c, k, e.val))
      /\ e.kind = "restore" /\ e.id \notin IdsOf(t) => Mirrored(m, e) = suspected
  <2>1. m.tree = c /\ m.suspect = FALSE
    OBVIOUS
  <2>2. e.id \in {m.tree[i].id : i \in DOMAIN m.tree} <=> e.id \in IdsOf(t)
    <3> HIDE DEF m, c
    <3> QED
      BY <1>2, <2>1
  <2>3. Suspected(m) = suspected
    BY DEF Suspected
  <2> HIDE DEF m, suspected, c, k
  <2> QED
    BY <1>1, <1>2, <2>1, <2>2, <2>3 DEF Mirrored
<1>4. suspected \in MirrorType /\ suspected.suspect
  BY <1>2 DEF MirrorType
<1>5. ASSUME Mirrored(m, e) = with(Content(After(t, e))), e.kind # "restore",
             IsTree(After(t, e))
      PROVE  /\ Mirrored(m, e) \in MirrorType
             /\ ~Mirrored(m, e).suspect =>
                    e.kind # "restore" /\ Mirrored(m, e).tree = Content(After(t, e))
  <2>1. Content(After(t, e)) \in View
    BY <1>5, ContentIs
  <2>2. /\ with(Content(After(t, e))) \in MirrorType
        /\ with(Content(After(t, e))).tree = Content(After(t, e))
    BY <2>1 DEF MirrorType
  <2> HIDE DEF with
  <2> QED
    BY <1>5, <2>2
<1>6. IsTree(After(t, e))
  BY ApplyIs
<1>7. CASE e.kind = "create"
  <2>1. e.id \notin IdsOf(t) /\ After(t, e) = Put(t, Blank(e), -1)
    BY <1>7 DEF OkOn, After
  <2>2. Append(c, node) = Content(After(t, e))
    BY <1>1, <2>1, MirrorCreates
  <2>3. Mirrored(m, e) = with(Content(After(t, e)))
    <3> HIDE DEF c, node, with
    <3> QED
      BY <1>3, <1>7, <2>1, <2>2
  <2> QED
    BY <1>5, <1>6, <1>7, <2>3
<1>8. CASE e.kind = "remove"
  <2>1. e.id \in IdsOf(t) /\ After(t, e) = Drop(t, e.id)
    BY <1>8 DEF OkOn, After
  <2>2. RemoveAt(c, k) = Content(After(t, e))
    BY <2>1, MirrorRemoves
  <2>3. Mirrored(m, e) = with(Content(After(t, e)))
    <3> HIDE DEF c, k, with
    <3> QED
      BY <1>3, <1>8, <2>1, <2>2
  <2> QED
    BY <1>5, <1>6, <1>8, <2>3
<1>9. CASE e.kind = "set"
  <2>1. e.id \in IdsOf(t) /\ After(t, e) = SetVal(t, Place(t, e.id), e.val)
    BY <1>9 DEF OkOn, After
  <2>2. SetVal(c, k, e.val) = Content(After(t, e))
    BY <1>1, <2>1, MirrorSets
  <2>3. Mirrored(m, e) = with(Content(After(t, e)))
    <3> HIDE DEF c, k, with
    <3> QED
      BY <1>3, <1>9, <2>1, <2>2
  <2> QED
    BY <1>5, <1>6, <1>9, <2>3
<1>10. CASE e.kind = "restore"
  <2>1. Mirrored(m, e) = suspected /\ e.id \notin IdsOf(t)
    <3> HIDE DEF suspected, m
    <3> QED
      BY <1>3, <1>10
  <2> HIDE DEF suspected
  <2> QED
    BY <1>4, <2>1
<1> QED
  BY <1>1, <1>7, <1>8, <1>9, <1>10

\* Whatever is published, the mirror stays a tree of views.
LEMMA MirroredType ==
  ASSUME NEW m \in MirrorType, NEW e \in Edit
  PROVE  Mirrored(m, e) \in MirrorType
<1> DEFINE known == e.id \in {m.tree[i].id : i \in DOMAIN m.tree}
           k == MirrorPlace(m, e.id)
           rest == RemoveAt(m.tree, k)
           at == MirrorSlot(Len(rest), e.at)
           V == [id : Ids, val : Vals]
<1>1. /\ e.kind \in {"create", "remove", "set", "restore"} /\ e.val \in Vals /\ e.id \in Ids
      /\ e.at \in Int
  BY EditFacts
<1>2. m.tree \in Seq(V) /\ m.suspect \in BOOLEAN /\ Len(m.tree) \in Nat
  BY DEF MirrorType, View
<1>3. Suspected(m) \in MirrorType
  BY DEF Suspected, MirrorType
<1>4. ASSUME known PROVE k \in 1..Len(m.tree) /\ m.tree[k] \in V
  <2>1. \E i : i \in DOMAIN m.tree /\ m.tree[i].id = e.id
    BY <1>4
  <2>2. k \in DOMAIN m.tree
    BY <2>1 DEF MirrorPlace
  <2>3. DOMAIN m.tree = 1..Len(m.tree)
    BY <1>2
  <2> HIDE DEF V, k
  <2>4. k \in 1..Len(m.tree)
    BY <2>2, <2>3
  <2> QED
    BY <1>2, <2>4
<1> HIDE DEF known, k
<1>5. ASSUME known PROVE rest \in Seq(V) /\ Len(rest) \in Nat
  BY <1>2, <1>4, <1>5, RemoveAtIs
<1> HIDE DEF rest
<1>6. ASSUME NEW tree \in Seq(V) PROVE [suspect |-> m.suspect, tree |-> tree] \in MirrorType
  BY <1>2, <1>6 DEF MirrorType, View
<1>7. CASE known <=> e.kind = "create"
  <2>1. Mirrored(m, e) = Suspected(m)
    BY <1>7 DEF Mirrored, known
  <2> QED
    BY <1>3, <2>1
<1>8. CASE e.kind = "create" /\ ~known
  <2> DEFINE v == [id |-> e.id, val |-> e.val]
  <2>1. Mirrored(m, e) = [suspect |-> m.suspect, tree |-> Append(m.tree, v)]
    BY <1>8 DEF Mirrored, known
  <2>2. v \in V
    BY <1>1
  <2> HIDE DEF v
  <2>3. Append(m.tree, v) \in Seq(V)
    BY <1>2, <2>2
  <2> QED
    BY <1>6, <2>1, <2>3
<1>9. CASE e.kind = "remove" /\ known
  <2>1. Mirrored(m, e) = [suspect |-> m.suspect, tree |-> rest]
    BY <1>9 DEF Mirrored, known, rest, k
  <2> QED
    BY <1>5, <1>6, <1>9, <2>1
<1>10. CASE e.kind = "set" /\ known
  <2> DEFINE u == SetVal(m.tree, k, e.val)
  <2>1. Mirrored(m, e) = [suspect |-> m.suspect, tree |-> u]
    BY <1>10 DEF Mirrored, known, k
  <2>2. \A i \in DOMAIN m.tree : m.tree[i] \in V /\ [m.tree[i] EXCEPT !.val = e.val] \in V
    <3> TAKE i \in DOMAIN m.tree
    <3> DEFINE y == m.tree[i]
    <3>1. y \in V
      <4> HIDE DEF V
      <4> QED
        BY <1>2
    <3> HIDE DEF y
    <3>2. [y EXCEPT !.val = e.val] \in V
      BY <1>1, <3>1
    <3> QED
      BY <3>1, <3>2 DEF y
  <2>3. DOMAIN m.tree = 1..Len(m.tree)
    BY <1>2
  <2>4. u \in [1..Len(m.tree) -> V]
    BY <2>2, <2>3 DEF SetVal
  <2> HIDE DEF u
  <2>5. u \in Seq(V)
    BY <1>2, <2>4
  <2> QED
    BY <1>6, <2>1, <2>5
<1>11. CASE e.kind = "restore" /\ known
  <2> DEFINE u == InsertAt(rest, at + 1, m.tree[k])
  <2>1. Mirrored(m, e) = [suspect |-> m.suspect, tree |-> u]
    BY <1>11 DEF Mirrored, known, k, rest
  <2>2. at + 1 \in 1..(Len(rest) + 1)
    BY <1>1, <1>5, <1>11 DEF MirrorSlot
  <2>3. u \in Seq(V)
    BY <1>4, <1>5, <1>11, <2>2, InsertAtIs, ZenonT(60)
  <2> HIDE DEF u
  <2> QED
    BY <1>6, <2>1, <2>3
<1> QED
  BY <1>1, <1>7, <1>8, <1>9, <1>10, <1>11

\* Whatever is published, the mirror stays a view or becomes suspect.
LEMMA PublishType ==
  ASSUME NEW m \in MirrorType, NEW edits \in Seq(Edit), edits # <<>>
  PROVE  Publish(m, edits) \in MirrorType
<1>1. Suspected(m) \in MirrorType
  BY DEF Suspected, MirrorType
<1>2. edits[1] \in Edit
  BY SMT
<1>3. Mirrored(m, edits[1]) \in MirrorType
  BY <1>2, MirroredType
<1> QED
  BY <1>1, <1>3 DEF Publish

-----------------------------------------------------------------------------
(***************************************************************************)
(* What is true of h in every state.  Good says it of a state s in which n *)
(* opIds have been handed out and b tells whether everything was tracked:  *)
(* the document is well formed, the entries hold edits of their targets,   *)
(* and while the mirror is not suspect the state is Clean.                 *)
(***************************************************************************)

GoodEntry(e, n) ==
    /\ e = [fwd |-> e.fwd, inverses |-> e.inverses, counterparts |-> e.counterparts,
            targets |-> e.targets, skip |-> e.skip, pre |-> e.pre, post |-> e.post]
    /\ e.fwd \in 1..n /\ e.skip \in BOOLEAN
    /\ EditsIn(e.inverses, 0..n) /\ EditsIn(e.counterparts, 0..n)
    /\ DOMAIN e.targets \subseteq Ids /\ e.targets \in [DOMAIN e.targets -> 0..n]
    /\ \A i \in DOMAIN e.inverses : e.inverses[i].id \in DOMAIN e.targets
    /\ \A i \in DOMAIN e.counterparts : e.counterparts[i].id \in DOMAIN e.targets
    /\ e.pre \in Seq(Node) /\ e.post \in Seq(Node)

\* The kinds of the edit an entry replays and of its counterpart.  Taking back
\* a removal makes the mirror suspect, so no clean state can redo one.
UndoPairs == {<<"remove", "create">>, <<"restore", "remove">>, <<"set", "set">>}
RedoPairs == {<<"create", "remove">>, <<"set", "set">>}

Single(e, pairs) ==
    e.skip = FALSE /\ \E x, y \in Edit :
        /\ e.inverses = <<x>> /\ e.counterparts = <<y>>
        /\ <<x.kind, y.kind>> \in pairs

TakesBackRemoval(e) == e.inverses[1].kind = "restore"

\* The opIds no removal in this ring has.
Free(ring, n) == {k \in 0..n : \A r \in Range(ring) : TakesBackRemoval(r) => r.fwd # k}

StampsIn(e, F) ==
    /\ TakesBackRemoval(e) \/ e.fwd \in F
    /\ \A id \in DOMAIN e.targets : e.targets[id] \in F

Clean(s, n) ==
    /\ s.mirror = [tree |-> Content(s.doc.tree), suspect |-> FALSE]
    /\ LastsIn(s.doc.tree, Free(s.undo, n))
    /\ \A e \in Range(s.undo) : Single(e, UndoPairs) /\ StampsIn(e, Free(s.undo, n))
    /\ \A e \in Range(s.redo) : Single(e, RedoPairs) /\ StampsIn(e, Free(s.undo, n))

Good(s, n, b) ==
    /\ s = [doc |-> s.doc, undo |-> s.undo, redo |-> s.redo, mirror |-> s.mirror]
    /\ \E S : s.undo \in Seq(S)
    /\ \E S : s.redo \in Seq(S)
    /\ GoodDoc(s.doc, 0..n)
    /\ \A e \in Range(s.undo) \cup Range(s.redo) : GoodEntry(e, n)
    /\ s.mirror \in MirrorType
    /\ b /\ ~s.mirror.suspect => Clean(s, n)

\* A larger ring frees fewer opIds; opId 0 is always free.
LEMMA FreeIs ==
  ASSUME NEW n \in Nat, NEW u, NEW w, Range(u) \subseteq Range(w),
         \A e \in Range(w) : GoodEntry(e, n)
  PROVE  /\ Free(w, n) \subseteq Free(u, n) /\ 0 \in Free(w, n) /\ Free(w, n) \subseteq 0..n
         /\ \A e \in Range(w) : TakesBackRemoval(e) => e.fwd \notin Free(w, n)
<1>1. \A e \in Range(w) : e.fwd \in 1..n
  BY DEF GoodEntry
<1> QED
  BY <1>1 DEF Free

\* Stamping keeps a document well formed and its content as it is.
LEMMA StampGood ==
  ASSUME NEW L, L \subseteq Nat, NEW doc, GoodDoc(doc, L), NEW stamp,
         \A id \in DOMAIN stamp : stamp[id] \in Nat,
         \A id \in DOMAIN stamp : id \in IdsOf(doc.tree) => stamp[id] \in L
  PROVE  LET d == Stamp(doc, stamp)
         IN  /\ GoodDoc(d, L) /\ d = Doc(Stamped(doc.tree, stamp))
             /\ Content(d.tree) = Content(doc.tree)
<1> DEFINE t == doc.tree
           u == Stamped(t, stamp)
<1>1. IsTree(t) /\ doc = Doc(t) /\ LastsIn(t, L)
  BY DEF GoodDoc
<1> HIDE DEF t
<1>2. /\ Stamp(Doc(t), stamp) = Doc(u) /\ IsTree(u) /\ DOMAIN u = DOMAIN t
      /\ \A i \in DOMAIN t : u[i].id = t[i].id /\ u[i].val = t[i].val
  BY <1>1, StampDoc
<1>3. LastsIn(u, L)
  BY <1>1, StampedLasts DEF t
<1> HIDE DEF u
<1>4. Doc(u).tree = u
  BY DEF Doc
<1>5. Content(u) = Content(t)
  BY <1>2 DEF Content
<1> QED
  BY <1>1, <1>2, <1>3, <1>4, <1>5 DEF GoodDoc, t, u

\* A suspect mirror stays suspect; a compound change makes one suspect.
LEMMA PublishSuspect ==
  ASSUME NEW m \in MirrorType, NEW edits, m.suspect \/ Len(edits) > 1
  PROVE  Publish(m, edits) \in MirrorType /\ Publish(m, edits).suspect
<1>1. Suspected(m) \in MirrorType /\ Suspected(m).suspect
  BY DEF Suspected, MirrorType
<1> QED
  BY <1>1 DEF Publish

\* Taking entries out of the rings keeps the state good.
LEMMA PopGood ==
  ASSUME NEW n \in Nat, NEW s, NEW b, Good(s, n, b), NEW u, NEW r,
         \E S : u \in Seq(S), \E S : r \in Seq(S),
         Range(u) \subseteq Range(s.undo), Range(r) \subseteq Range(s.redo)
  PROVE  Good([doc |-> s.doc, undo |-> u, redo |-> r, mirror |-> s.mirror], n, b)
<1> DEFINE p == [doc |-> s.doc, undo |-> u, redo |-> r, mirror |-> s.mirror]
<1>1. p.doc = s.doc /\ p.undo = u /\ p.redo = r /\ p.mirror = s.mirror
      /\ p = [doc |-> p.doc, undo |-> p.undo, redo |-> p.redo, mirror |-> p.mirror]
  OBVIOUS
<1> HIDE DEF p
<1>2. Free(s.undo, n) \subseteq Free(u, n)
  BY FreeIs DEF Good
<1>3. b /\ ~s.mirror.suspect => Clean(p, n)
  <2> SUFFICES ASSUME Clean(s, n) PROVE Clean(p, n)
    BY DEF Good
  <2>1. LastsIn(p.doc.tree, Free(p.undo, n))
    BY <1>1, <1>2 DEF Clean, LastsIn
  <2>2. \A e : StampsIn(e, Free(s.undo, n)) => StampsIn(e, Free(p.undo, n))
    BY <1>1, <1>2 DEF StampsIn
  <2> QED
    BY <1>1, <2>1, <2>2 DEF Clean
<1> QED
  BY <1>1, <1>3 DEF Good, p

\* The counterpart of a good entry is a good entry.
LEMMA CounterpartGood ==
  ASSUME NEW n, NEW e, GoodEntry(e, n)
  PROVE  GoodEntry(Counterpart(e), n)
<1> DEFINE c == Counterpart(e)
<1>1. /\ c.fwd = e.fwd /\ c.inverses = e.counterparts /\ c.counterparts = e.inverses
      /\ c.targets = e.targets /\ c.skip = e.skip /\ c.pre = e.post /\ c.post = e.pre
      /\ c = [fwd |-> c.fwd, inverses |-> c.inverses, counterparts |-> c.counterparts,
              targets |-> c.targets, skip |-> c.skip, pre |-> c.pre, post |-> c.post]
  BY DEF Counterpart
<1> HIDE DEF c
<1>2. GoodEntry(c, n)
  BY <1>1 DEF GoodEntry
<1> QED
  BY <1>2 DEF c

\* What an undo or a redo does with an entry it can use.
LEMMA MovedGood ==
  ASSUME NEW n \in Nat, NEW s, NEW b, Good(s, n, b), NEW isUndo \in BOOLEAN,
         NEW e, e \in IF isUndo THEN Range(s.undo) ELSE Range(s.redo),
         ~Blocked(s.doc, e, isUndo),
         Replay(s.doc, e.inverses).ran # <<>>,
         NEW u, \E S : u \in Seq(S), NEW w, \E S : w \in Seq(S),
         Range(u) \subseteq Range(s.undo) \cup (IF isUndo THEN {} ELSE {Counterpart(e)}),
         Range(w) \subseteq Range(s.redo) \cup (IF isUndo THEN {Counterpart(e)} ELSE {})
  PROVE  Good([doc |-> Restamp(Replay(s.doc, e.inverses).doc, e, isUndo), undo |-> u, redo |-> w,
               mirror |-> PublishHistory(s, e, isUndo, Replay(s.doc, e.inverses).ran)], n, b)
<1> DEFINE r == Replay(s.doc, e.inverses)
           d == Restamp(r.doc, e, isUndo)
           m == PublishHistory(s, e, isUndo, r.ran)
           p == [doc |-> d, undo |-> u, redo |-> w, mirror |-> m]
           C == Counterpart(e)
           L == 0..n
<1>0. /\ 0 \in L /\ L \subseteq Nat /\ GoodDoc(s.doc, L) /\ s.mirror \in MirrorType
      /\ \A x \in Range(s.undo) \cup Range(s.redo) : GoodEntry(x, n)
      /\ b /\ ~s.mirror.suspect => Clean(s, n)
  BY DEF Good
<1>1. /\ p.doc = d /\ p.undo = u /\ p.redo = w /\ p.mirror = m
      /\ p = [doc |-> p.doc, undo |-> p.undo, redo |-> p.redo, mirror |-> p.mirror]
  OBVIOUS
<1> HIDE DEF p, L
<1>2. GoodEntry(e, n)
  BY <1>0
<1>3. /\ e.fwd \in L /\ e.fwd \in Nat /\ e.skip \in BOOLEAN /\ EditsIn(e.inverses, L)
      /\ \A id \in DOMAIN e.targets : e.targets[id] \in L /\ e.targets[id] \in Nat
      /\ \A i \in DOMAIN e.inverses : e.inverses[i].id \in DOMAIN e.targets
  BY <1>0, <1>2 DEF GoodEntry, L
<1>4. GoodDoc(r.doc, L) /\ EditsIn(r.ran, L)
  BY <1>0, <1>3, ReplayOK
<1>5. m = (IF e.skip THEN s.mirror ELSE Publish(s.mirror, r.ran)) /\ m \in MirrorType
  <2>1. r.ran \in Seq(Edit) /\ r.ran # <<>>
    BY <1>4 DEF EditsIn
  <2>2. Publish(s.mirror, r.ran) \in MirrorType
    BY <1>0, <2>1, PublishType
  <2> QED
    BY <1>0, <2>2 DEF PublishHistory
<1> DEFINE stamp == IF isUndo THEN e.targets ELSE [id \in DOMAIN e.targets |-> e.fwd]
<1>6. /\ d = Stamp(r.doc, stamp) /\ DOMAIN stamp = DOMAIN e.targets
      /\ \A id \in DOMAIN stamp : stamp[id] = IF isUndo THEN e.targets[id] ELSE e.fwd
  BY DEF Restamp, StampOp
<1> HIDE DEF r, d, m, C, stamp
<1>7. GoodDoc(d, L)
  BY <1>0, <1>3, <1>4, <1>6, StampGood
<1>8. GoodEntry(C, n)
  BY <1>2, CounterpartGood DEF C
<1>9. \A x \in Range(u) \cup Range(w) : GoodEntry(x, n)
  BY <1>0, <1>8 DEF C
<1>10. ASSUME b /\ ~m.suspect => Clean(p, n) PROVE Good(p, n, b)
  BY <1>1, <1>5, <1>7, <1>9, <1>10 DEF Good, L
<1>11. CASE ~b \/ s.mirror.suspect
  <2>1. ~b \/ m.suspect
    BY <1>0, <1>5, <1>11, PublishSuspect
  <2> QED
    BY <1>10, <2>1 DEF p, r, d, m
<1>12. CASE b /\ ~s.mirror.suspect
  <2> DEFINE t == s.doc.tree
             F == Free(s.undo, n)
             pairs == IF isUndo THEN UndoPairs ELSE RedoPairs
  <2>1. Clean(s, n) /\ s.mirror = [tree |-> Content(t), suspect |-> FALSE]
    BY <1>0, <1>12 DEF Clean
  <2>2. Single(e, pairs) /\ StampsIn(e, F) /\ LastsIn(t, F)
    BY <2>1 DEF Clean
  <2>3. PICK x \in Edit, y \in Edit :
          e.inverses = <<x>> /\ e.counterparts = <<y>> /\ <<x.kind, y.kind>> \in pairs
    BY <2>2 DEF Single
  <2>4. 0 \in F /\ F \subseteq L /\ (TakesBackRemoval(e) /\ isUndo => e.fwd \notin F)
    BY <1>0, FreeIs DEF L
  <2>5. IsTree(t) /\ s.doc = Doc(t)
    BY <1>0 DEF GoodDoc
  <2> HIDE DEF t, F, pairs
  <2>6. e.inverses[1] = x /\ x.last \in L /\ x.id \in DOMAIN e.targets
    <3>1. e.inverses[1] = x /\ 1 \in DOMAIN e.inverses
      BY <2>3
    <3> QED
      BY <1>3, <3>1 DEF EditsIn
  <2>7. OkOn(t, x) /\ r.doc = Doc(After(t, x)) /\ r.ran = <<x>>
    <3>1. Replay(s.doc, <<x>>) =
            IF OkOn(t, x) THEN [doc |-> Doc(After(t, x)), ran |-> <<x>>]
            ELSE [doc |-> s.doc, ran |-> <<>>]
      BY <1>0, <2>6, ReplayOne DEF t
    <3>2. r = Replay(s.doc, <<x>>) /\ r.ran # <<>>
      BY <2>3 DEF r
    <3> QED
      BY <3>1, <3>2
  <2>8. x.kind = "restore" => x.id \notin IdsOf(t)
    <3> SUFFICES ASSUME x.kind = "restore", x.id \in IdsOf(t) PROVE FALSE
      OBVIOUS
    <3>1. isUndo
      BY <2>3 DEF pairs, RedoPairs
    <3>2. e.fwd \notin F
      BY <2>4, <2>6, <3>1 DEF TakesBackRemoval
    <3>3. Find(s.doc, x.id) = Place(t, x.id) /\ Find(s.doc, x.id) # 0 /\ Place(t, x.id) \in DOMAIN t
      BY <2>5, FindIs, PlaceOf
    <3>4. t[Place(t, x.id)].last # e.fwd
      BY <2>2, <3>2, <3>3 DEF LastsIn
    <3>5. s.doc.tree[Find(s.doc, x.id)].last # e.fwd
      BY <3>3, <3>4 DEF t
    <3> QED
      BY <2>6, <3>1, <3>3, <3>5 DEF Blocked
  <2>9. m = Mirrored([tree |-> Content(t), suspect |-> FALSE], x)
    <3>1. Len(<<x>>) = 1 /\ <<x>>[1] = x /\ s.mirror.suspect = FALSE /\ e.skip = FALSE
      BY <2>1, <2>2 DEF Single
    <3> QED
      BY <1>5, <2>1, <2>7, <3>1 DEF Publish
  <2>10. m \in MirrorType /\ (~m.suspect => x.kind # "restore" /\ m.tree = Content(After(t, x)))
    BY <2>5, <2>7, <2>8, <2>9, MirrorStep
  <2>11. ASSUME ~m.suspect PROVE Clean(p, n)
    <3>1. x.kind # "restore" /\ m = [tree |-> Content(After(t, x)), suspect |-> FALSE]
      BY <2>10, <2>11 DEF MirrorType
    <3>2. e.fwd \in F /\ \A id \in DOMAIN e.targets : e.targets[id] \in F
      BY <2>2, <2>6, <3>1 DEF StampsIn, TakesBackRemoval
    <3>3. IsTree(After(t, x)) /\ LastsIn(After(t, x), F)
      BY <2>2, <2>4, <2>5, <2>7, <3>1, ApplyIs, AfterLasts
    <3>4. GoodDoc(r.doc, F) /\ r.doc.tree = After(t, x)
      BY <2>7, <3>3 DEF GoodDoc, Doc
    <3>5. GoodDoc(d, F) /\ Content(d.tree) = Content(After(t, x))
      <4>1. F \subseteq Nat
        BY <1>0, <2>4
      <4>2. \A id \in DOMAIN stamp : stamp[id] \in Nat /\ stamp[id] \in F
        BY <1>3, <1>6, <3>2
      <4>3. GoodDoc(d, F) /\ Content(d.tree) = Content(r.doc.tree)
        BY <1>6, <3>4, <4>1, <4>2, StampGood, ZenonT(60)
      <4> QED
        BY <3>4, <4>3
    <3>6. C.inverses = <<y>> /\ C.counterparts = <<x>> /\ C.fwd = e.fwd /\ C.targets = e.targets
          /\ C.skip = FALSE
      BY <2>2, <2>3 DEF C, Counterpart, Single
    <3>7. F \subseteq Free(u, n)
      <4>1. CASE isUndo
        BY <1>0, <4>1, FreeIs DEF F
      <4>2. CASE ~isUndo
        <5>1. y.kind # "restore" /\ C.inverses[1] = y
          BY <2>3, <3>6, <4>2 DEF pairs, RedoPairs
        <5>2. ~TakesBackRemoval(C)
          BY <5>1 DEF TakesBackRemoval
        <5> QED
          BY <4>2, <5>2 DEF F, Free, C
      <4> QED
        BY <4>1, <4>2
    <3>8. StampsIn(C, F)
      BY <3>2, <3>6 DEF StampsIn
    <3>9. Single(C, IF isUndo THEN RedoPairs ELSE UndoPairs)
      <4>1. <<y.kind, x.kind>> \in IF isUndo THEN RedoPairs ELSE UndoPairs
        BY <2>3, <3>1 DEF pairs, RedoPairs, UndoPairs
      <4> QED
        BY <3>6, <4>1 DEF Single
    <3>10. \A z : StampsIn(z, F) => StampsIn(z, Free(u, n))
      BY <3>7 DEF StampsIn
    <3>11. \A z \in Range(u) : Single(z, UndoPairs) /\ StampsIn(z, Free(u, n))
      BY <2>1, <3>8, <3>9, <3>10 DEF Clean, F, C
    <3>12. \A z \in Range(w) : Single(z, RedoPairs) /\ StampsIn(z, Free(u, n))
      BY <2>1, <3>8, <3>9, <3>10 DEF Clean, F, C
    <3>13. LastsIn(d.tree, Free(u, n))
      BY <3>5, <3>7 DEF GoodDoc, LastsIn
    <3> QED
      BY <1>1, <3>1, <3>5, <3>11, <3>12, <3>13 DEF Clean
  <2>12. Good(p, n, b)
    BY <1>10, <2>10, <2>11
  <2> QED
    BY <2>12 DEF p, r, d, m
<1> QED
  BY <1>11, <1>12

\* A history step keeps the state good, whichever way it ends.
LEMMA HistoryGood ==
  ASSUME NEW n \in Nat, NEW s, NEW b, Good(s, n, b), NEW isUndo \in BOOLEAN
  PROVE  Good(History(s, isUndo), n, b)
<1> DEFINE ring == IF isUndo THEN s.undo ELSE s.redo
           e == Last(ring)
           popped == IF isUndo THEN [s EXCEPT !.undo = Front(@)] ELSE [s EXCEPT !.redo = Front(@)]
           r == Replay(s.doc, e.inverses)
           d == Restamp(r.doc, e, isUndo)
           m == PublishHistory(s, e, isUndo, r.ran)
           C == Counterpart(e)
           moved == [doc |-> d,
                     undo |-> IF isUndo THEN popped.undo ELSE Push(s.undo, C),
                     redo |-> IF isUndo THEN Push(s.redo, C) ELSE popped.redo,
                     mirror |-> m]
<1>1. History(s, isUndo) =
        IF ring = <<>> THEN s
        ELSE IF Blocked(s.doc, e, isUndo) THEN popped
        ELSE IF r.ran = <<>> THEN popped ELSE moved
  BY DEF History
<1>2. s = [doc |-> s.doc, undo |-> s.undo, redo |-> s.redo, mirror |-> s.mirror]
  BY DEF Good
<1>3. PICK U : s.undo \in Seq(U)
  BY DEF Good
<1>4. PICK W : s.redo \in Seq(W)
  BY DEF Good
<1>5. ASSUME ring # <<>>
      PROVE  /\ Good(popped, n, b)
             /\ ~Blocked(s.doc, e, isUndo) /\ r.ran # <<>> => Good(moved, n, b)
  <2> HIDE DEF e, r, d, m, C
  <2>1. CASE isUndo
    <3>1. s.undo # <<>> /\ e = Last(s.undo)
      BY <1>5, <2>1 DEF e
    <3>2. /\ Front(s.undo) \in Seq(U) /\ Range(Front(s.undo)) \subseteq Range(s.undo)
          /\ e \in Range(s.undo)
      BY <1>3, <3>1, FrontIs
    <3>3. /\ Push(s.redo, C) \in Seq(W \cup {C})
          /\ Range(Push(s.redo, C)) \subseteq Range(s.redo) \cup {C}
      <4>1. s.redo \in Seq(W \cup {C}) /\ C \in W \cup {C}
        BY <1>4
      <4> QED
        BY <4>1, PushIs
    <3>4. popped = [doc |-> s.doc, undo |-> Front(s.undo), redo |-> s.redo, mirror |-> s.mirror]
      BY <1>2, <2>1
    <3>5. Good(popped, n, b)
      BY <1>4, <3>2, <3>4, PopGood
    <3>6. moved = [doc |-> d, undo |-> Front(s.undo), redo |-> Push(s.redo, C), mirror |-> m]
      BY <2>1, <3>4
    <3> HIDE DEF popped, moved
    <3>7. ASSUME ~Blocked(s.doc, e, isUndo), r.ran # <<>> PROVE Good(moved, n, b)
      BY <2>1, <3>2, <3>3, <3>6, <3>7, MovedGood DEF d, m, r, C
    <3> QED
      BY <3>5, <3>7
  <2>2. CASE ~isUndo
    <3>1. s.redo # <<>> /\ e = Last(s.redo)
      BY <1>5, <2>2 DEF e
    <3>2. /\ Front(s.redo) \in Seq(W) /\ Range(Front(s.redo)) \subseteq Range(s.redo)
          /\ e \in Range(s.redo)
      BY <1>4, <3>1, FrontIs
    <3>3. /\ Push(s.undo, C) \in Seq(U \cup {C})
          /\ Range(Push(s.undo, C)) \subseteq Range(s.undo) \cup {C}
      <4>1. s.undo \in Seq(U \cup {C}) /\ C \in U \cup {C}
        BY <1>3
      <4> QED
        BY <4>1, PushIs
    <3>4. popped = [doc |-> s.doc, undo |-> s.undo, redo |-> Front(s.redo), mirror |-> s.mirror]
      BY <1>2, <2>2
    <3>5. Good(popped, n, b)
      BY <1>3, <3>2, <3>4, PopGood
    <3>6. moved = [doc |-> d, undo |-> Push(s.undo, C), redo |-> Front(s.redo), mirror |-> m]
      BY <2>2, <3>4
    <3> HIDE DEF popped, moved
    <3>7. ASSUME ~Blocked(s.doc, e, isUndo), r.ran # <<>> PROVE Good(moved, n, b)
      BY <2>2, <3>2, <3>3, <3>6, <3>7, MovedGood DEF d, m, r, C
    <3> QED
      BY <3>5, <3>7
  <2> QED
    BY <2>1, <2>2
<1> HIDE DEF ring, e, popped, r, moved
<1> QED
  BY <1>1, <1>5

\* generateUndo makes an edit that carries an old last edit.
LEMMA UndoEdit ==
  ASSUME NEW L, 0 \in L, NEW doc, GoodDoc(doc, L), NEW e \in Edit
  PROVE  /\ GenerateUndo(doc, e) \in Edit /\ GenerateUndo(doc, e).id = e.id
         /\ GenerateUndo(doc, e).last \in L
         /\ e.kind = "create" => GenerateUndo(doc, e).kind = "remove"
         /\ e.kind = "set" => GenerateUndo(doc, e).kind = "set"
         /\ e.kind = "remove" /\ e.id \in IdsOf(doc.tree) => GenerateUndo(doc, e).kind = "restore"
<1> DEFINE t == doc.tree
           slot == Find(doc, e.id)
           x == GenerateUndo(doc, e)
<1>1. IsTree(t) /\ doc = Doc(t) /\ LastsIn(t, L)
  BY DEF GoodDoc
<1>2. e.kind \in {"create", "remove", "set", "restore"} /\ e.id \in Ids /\ AnyVal \in Vals
      /\ -1 \in Int
  BY EditFacts, ValsAssumption DEF AnyVal
<1> HIDE DEF t, slot
<1>3. slot # 0 <=> e.id \in IdsOf(t)
  BY <1>1, FindIs DEF slot, t
<1>4. ASSUME e.id \in IdsOf(t)
      PROVE  /\ slot = Place(t, e.id) /\ slot \in DOMAIN t /\ slot \in 1..Len(t) /\ t[slot] \in Node
             /\ t[slot].last \in L /\ t[slot].last \in Nat /\ t[slot].val \in Vals
             /\ slot - 1 \in Int
  <2>1. slot = Place(t, e.id) /\ slot \in DOMAIN t /\ slot \in 1..Len(t) /\ t[slot] \in Node
    BY <1>1, <1>4, FindIs, PlaceOf DEF slot, t
  <2> QED
    BY <1>1, <2>1 DEF LastsIn, Node
<1>5. RemoveNode(e.id) \in Edit /\ RemoveNode(e.id).id = e.id /\ RemoveNode(e.id).last \in L
      /\ RemoveNode(e.id).kind = "remove"
  BY <1>2 DEF RemoveNode, Edit
<1>6. CASE e.kind = "create"
  <2>1. x = RemoveNode(e.id)
    BY <1>6 DEF GenerateUndo
  <2> QED
    BY <1>5, <1>6, <2>1
<1>7. CASE e.kind = "set"
  <2> DEFINE v == IF slot # 0 THEN t[slot].val ELSE AnyVal
  <2>1. x = SetNode(e.id, v)
    BY <1>7 DEF GenerateUndo, slot, t
  <2>2. v \in Vals
    BY <1>2, <1>3, <1>4
  <2> HIDE DEF v
  <2>3. SetNode(e.id, v) \in Edit /\ SetNode(e.id, v).id = e.id /\ SetNode(e.id, v).last \in L
        /\ SetNode(e.id, v).kind = "set"
    BY <1>2, <2>2 DEF SetNode, Edit
  <2> QED
    BY <1>7, <2>1, <2>3
<1>8. CASE e.kind \in {"remove", "restore"} /\ e.id \in IdsOf(t)
  <2> DEFINE y == RestoreNode(e.id, t[slot], Place(t, e.id) - 1)
  <2>1. x = y
    BY <1>3, <1>8 DEF GenerateUndo, slot, t
  <2>2. y \in Edit /\ y.id = e.id /\ y.last \in L /\ y.kind = "restore"
    BY <1>2, <1>4, <1>8 DEF RestoreNode, Edit
  <2> QED
    BY <1>8, <2>1, <2>2
<1>9. CASE e.kind \in {"remove", "restore"} /\ e.id \notin IdsOf(t)
  <2>1. x = RemoveNode(e.id)
    BY <1>3, <1>9 DEF GenerateUndo, slot, t
  <2> QED
    BY <1>5, <1>9, <2>1 DEF t
<1> QED
  BY <1>2, <1>6, <1>7, <1>8, <1>9 DEF t

\* The targets of a gesture are the nodes its parts name.
LEMMA TargetsDom ==
  ASSUME NEW doc, NEW parts
  PROVE  DOMAIN Targets(doc, parts) = {parts[i].id : i \in DOMAIN parts}
  BY DEF Targets

\* What targets remember are last edits of the document.
LEMMA TargetsIn ==
  ASSUME NEW L, 0 \in L, NEW doc, GoodDoc(doc, L), NEW parts
  PROVE  /\ \A id \in DOMAIN Targets(doc, parts) : Targets(doc, parts)[id] \in L
         /\ Targets(doc, parts) \in [DOMAIN Targets(doc, parts) -> L]
<1> DEFINE T == Targets(doc, parts)
<1>1. /\ T = [id \in DOMAIN T |-> T[id]]
      /\ \A id \in DOMAIN T : T[id] = IF Find(doc, id) # 0 THEN doc.tree[Find(doc, id)].last ELSE 0
  BY DEF Targets
<1> HIDE DEF T
<1>2. \A id : Find(doc, id) # 0 => doc.tree[Find(doc, id)].last \in L
  <2> SUFFICES ASSUME NEW id, Find(doc, id) # 0 PROVE doc.tree[Find(doc, id)].last \in L
    OBVIOUS
  <2>1. IsTree(doc.tree) /\ doc = Doc(doc.tree) /\ LastsIn(doc.tree, L)
    BY DEF GoodDoc
  <2>2. Find(doc, id) \in DOMAIN doc.tree
    BY <2>1, FindIs, PlaceOf
  <2> QED
    BY <2>1, <2>2 DEF LastsIn
<1>3. \A id \in DOMAIN T : T[id] \in L
  BY <1>1, <1>2
<1> QED
  BY <1>1, <1>3 DEF T

\* Reversing a list keeps its members.
LEMMA ReverseIs ==
  ASSUME NEW S, NEW s \in Seq(S)
  PROVE  /\ Reverse(s) \in Seq(S) /\ DOMAIN Reverse(s) = DOMAIN s
         /\ \A i \in DOMAIN s : \E j \in DOMAIN s : Reverse(s)[i] = s[j]
<1> DEFINE r == Reverse(s)
           n == Len(s)
<1>1. n \in Nat /\ DOMAIN s = 1..n
  OBVIOUS
<1>2. r = [i \in 1..n |-> s[(n - i) + 1]]
  BY DEF Reverse
<1> HIDE DEF n, r
<1>3. \A i \in 1..n : (n - i) + 1 \in 1..n
  BY <1>1
<1>4. r \in [1..n -> S] /\ DOMAIN r = 1..n
  BY <1>1, <1>2, <1>3
<1>5. r \in Seq(S)
  BY <1>1, <1>4
<1>6. \A i \in 1..n : r[i] = s[(n - i) + 1]
  BY <1>2
<1> QED
  BY <1>1, <1>3, <1>4, <1>5, <1>6 DEF r

\* The entry a commit of these parts makes.
LEMMA EntryOfGood ==
  ASSUME NEW n \in Nat, GoodDoc(h.doc, 0..n), NEW parts, EditsIn(parts, {0}),
         NEW enqueue \in BOOLEAN, NEW doc, doc.tree \in Seq(Node)
  PROVE  /\ GoodEntry(EntryOf(n + 1, parts, enqueue, doc), n + 1)
         /\ EntryOf(n + 1, parts, enqueue, doc).fwd = n + 1
         /\ EntryOf(n + 1, parts, enqueue, doc).targets = Targets(h.doc, parts)
<1> DEFINE undos == [i \in DOMAIN parts |-> GenerateUndo(h.doc, parts[i])]
           T == Targets(h.doc, parts)
           E == EntryOf(n + 1, parts, enqueue, doc)
           L == 0..n
<1>0. /\ 0 \in L /\ L \subseteq Nat /\ n + 1 \in 1..(n + 1) /\ L \subseteq 0..(n + 1)
      /\ 0 \in 0..(n + 1) /\ GoodDoc(h.doc, L)
  OBVIOUS
<1>1. /\ E.fwd = n + 1 /\ E.inverses = Reverse(undos) /\ E.counterparts = parts /\ E.targets = T
      /\ E.skip = ~enqueue /\ E.pre = h.doc.tree /\ E.post = doc.tree
      /\ E = [fwd |-> E.fwd, inverses |-> E.inverses, counterparts |-> E.counterparts,
              targets |-> E.targets, skip |-> E.skip, pre |-> E.pre, post |-> E.post]
  BY DEF EntryOf
<1> HIDE DEF E, L
<1>2. parts \in Seq(Edit) /\ \A i \in DOMAIN parts : parts[i] \in Edit /\ parts[i].id \in Ids
                                                      /\ parts[i].last = 0
  BY EditFacts DEF EditsIn
<1>3. \A i \in DOMAIN parts :
        /\ GenerateUndo(h.doc, parts[i]) \in Edit
        /\ GenerateUndo(h.doc, parts[i]).id = parts[i].id
        /\ GenerateUndo(h.doc, parts[i]).last \in L
  <2> TAKE i \in DOMAIN parts
  <2>1. parts[i] \in Edit
    BY <1>2
  <2> QED
    BY <1>0, <2>1, UndoEdit
<1>4. undos \in Seq(Edit) /\ DOMAIN undos = DOMAIN parts
      /\ \A i \in DOMAIN parts : undos[i].id = parts[i].id /\ undos[i].last \in L
  <2>1. undos \in [1..Len(parts) -> Edit]
    BY <1>2, <1>3
  <2>2. \A i \in DOMAIN parts : undos[i] = GenerateUndo(h.doc, parts[i])
    OBVIOUS
  <2>3. DOMAIN undos = DOMAIN parts
    OBVIOUS
  <2> HIDE DEF undos
  <2> QED
    BY <1>2, <1>3, <2>1, <2>2, <2>3
<1> HIDE DEF undos
<1>5. DOMAIN T = {parts[i].id : i \in DOMAIN parts} /\ T \in [DOMAIN T -> L]
      /\ \A id \in DOMAIN T : T[id] \in L
  BY <1>0, TargetsIn, TargetsDom
<1> HIDE DEF T
<1>6. /\ Reverse(undos) \in Seq(Edit) /\ DOMAIN Reverse(undos) = DOMAIN parts
      /\ \A i \in DOMAIN parts : \E j \in DOMAIN parts : Reverse(undos)[i] = undos[j]
  BY <1>4, ReverseIs
<1>7. EditsIn(E.inverses, 0..(n + 1)) /\ \A i \in DOMAIN E.inverses : E.inverses[i].id \in DOMAIN T
  <2>1. \A i \in DOMAIN parts :
          Reverse(undos)[i].last \in 0..(n + 1) /\ Reverse(undos)[i].id \in DOMAIN T
    <3> TAKE i \in DOMAIN parts
    <3>1. PICK j \in DOMAIN parts : Reverse(undos)[i] = undos[j]
      BY <1>6
    <3>2. undos[j].last \in L /\ undos[j].id = parts[j].id /\ parts[j].id \in DOMAIN T
      BY <1>4, <1>5
    <3> QED
      BY <1>0, <3>1, <3>2
  <2> QED
    BY <1>1, <1>6, <2>1 DEF EditsIn
<1>8. EditsIn(E.counterparts, 0..(n + 1)) /\ \A i \in DOMAIN E.counterparts : E.counterparts[i].id \in DOMAIN T
  BY <1>0, <1>1, <1>2, <1>5 DEF EditsIn
<1>9. DOMAIN T \subseteq Ids /\ T \in [DOMAIN T -> 0..(n + 1)]
  BY <1>0, <1>2, <1>5
<1>10. h.doc.tree \in Seq(Node)
  BY DEF GoodDoc, IsTree
<1>11. GoodEntry(E, n + 1)
  BY <1>0, <1>1, <1>7, <1>8, <1>9, <1>10 DEF GoodEntry
<1> QED
  BY <1>1, <1>11 DEF E, T

\* A good entry stays good when more opIds are handed out.
LEMMA LargerLasts ==
  ASSUME NEW n \in Nat, NEW x, GoodEntry(x, n)
  PROVE  GoodEntry(x, n + 1)
<1>1. 0..n \subseteq 0..(n + 1) /\ 1..n \subseteq 1..(n + 1)
  OBVIOUS
<1>2. x.fwd \in 1..(n + 1) /\ EditsIn(x.inverses, 0..(n + 1)) /\ EditsIn(x.counterparts, 0..(n + 1))
      /\ x.targets \in [DOMAIN x.targets -> 0..(n + 1)]
  BY <1>1 DEF GoodEntry, EditsIn
<1> QED
  BY <1>2 DEF GoodEntry

\* An accepted commit keeps the state good.
LEMMA CommittedGood ==
  ASSUME NEW n \in Nat, NEW b \in BOOLEAN, Good(h, n, b), NEW enqueue \in BOOLEAN,
         NEW parts, EditsIn(parts, {0}), Len(parts) >= 1,
         NEW doc, GoodDoc(doc, 0..n),
         Len(parts) = 1 =>
            /\ OkOn(h.doc.tree, parts[1]) /\ doc = Doc(After(h.doc.tree, parts[1]))
            /\ parts[1].kind = "restore" => parts[1].id \notin IdsOf(h.doc.tree)
  PROVE  Good(Committed(n + 1, parts, enqueue, doc), n + 1, b /\ enqueue)
<1> DEFINE p == Committed(n + 1, parts, enqueue, doc)
           E == EntryOf(n + 1, parts, enqueue, doc)
           T == Targets(h.doc, parts)
           stamp == [id \in DOMAIN T |-> n + 1]
           d == Stamp(doc, stamp)
           u == Push(h.undo, E)
           m == IF enqueue THEN Publish(h.mirror, parts) ELSE h.mirror
           L == 0..n
           K == 0..(n + 1)
<1>0. /\ 0 \in L /\ L \subseteq Nat /\ L \subseteq K /\ K \subseteq Nat /\ n + 1 \in K /\ n + 1 \in Nat
      /\ n + 1 \notin L
  OBVIOUS
<1>1. /\ GoodDoc(h.doc, L) /\ h.mirror \in MirrorType
      /\ \A x \in Range(h.undo) \cup Range(h.redo) : GoodEntry(x, n)
      /\ b /\ ~h.mirror.suspect => Clean(h, n)
  BY DEF Good
<1>2. /\ p.doc = d /\ p.undo = u /\ p.redo = <<>> /\ p.mirror = m
      /\ p = [doc |-> p.doc, undo |-> p.undo, redo |-> p.redo, mirror |-> p.mirror]
  BY DEF Committed, StampOp
<1> HIDE DEF p, L, K
<1>3. GoodEntry(E, n + 1) /\ E.fwd = n + 1 /\ E.targets = T
  <2>1. doc.tree \in Seq(Node)
    BY DEF GoodDoc, IsTree
  <2> QED
    BY <1>1, <2>1, EntryOfGood DEF L
<1>4. DOMAIN T = {parts[i].id : i \in DOMAIN parts} /\ \A id \in DOMAIN T : T[id] \in L
  BY <1>0, <1>1, TargetsIn, TargetsDom
<1>5. DOMAIN stamp = DOMAIN T /\ \A id \in DOMAIN stamp : stamp[id] = n + 1
  OBVIOUS
<1>6. PICK U : h.undo \in Seq(U)
  BY DEF Good
<1>7. u \in Seq(U \cup {E}) /\ Range(u) \subseteq Range(h.undo) \cup {E}
  <2> HIDE DEF E
  <2>1. h.undo \in Seq(U \cup {E}) /\ E \in U \cup {E}
    BY <1>6
  <2> QED
    BY <2>1, PushIs
<1> HIDE DEF E, T, stamp, d, u, m
<1>8. GoodDoc(d, K) /\ Content(d.tree) = Content(doc.tree)
  <2>1. GoodDoc(doc, K)
    BY <1>0 DEF GoodDoc, LastsIn, L
  <2>2. \A id \in DOMAIN stamp : stamp[id] \in Nat /\ stamp[id] \in K
    BY <1>0, <1>5
  <2>3. K \subseteq Nat
    BY <1>0
  <2> QED
    BY <2>1, <2>2, <2>3, StampGood DEF d
<1>9. \A x \in Range(u) \cup Range(<<>>) : GoodEntry(x, n + 1)
  BY <1>1, <1>3, <1>7, EmptyRange, LargerLasts
<1>10. ASSUME b /\ enqueue /\ ~m.suspect => Clean(p, n + 1) PROVE Good(p, n + 1, b /\ enqueue)
  <2>0. m \in MirrorType
    <3>1. parts \in Seq(Edit) /\ parts # <<>>
      BY DEF EditsIn
    <3> QED
      BY <1>1, <3>1, PublishType DEF m
  <2>1. \E S : u \in Seq(S)
    BY <1>7
  <2>2. \E S : <<>> \in Seq(S)
    OBVIOUS
  <2> QED
    BY <1>2, <1>8, <1>9, <1>10, <2>0, <2>1, <2>2 DEF Good, K
<1>11. CASE ~b \/ ~enqueue \/ h.mirror.suspect \/ Len(parts) > 1
  <2>1. b /\ enqueue => m.suspect
    BY <1>1, <1>11, PublishSuspect DEF m
  <2> QED
    BY <1>10, <2>1 DEF p
<1>12. CASE b /\ enqueue /\ ~h.mirror.suspect /\ ~(Len(parts) > 1)
  <2> DEFINE t == h.doc.tree
             F == Free(h.undo, n)
             G == Free(u, n + 1)
             e == parts[1]
  <2>0. parts \in Seq(Edit) /\ Len(parts) = 1 /\ DOMAIN parts = 1..1 /\ e \in Edit /\ e.last = 0
        /\ parts = <<e>>
    <3>1. parts \in Seq(Edit) /\ \A i \in DOMAIN parts : parts[i].last = 0
      BY DEF EditsIn
    <3>2. Len(parts) = 1
      <4>1. ~(Len(parts) > 1)
        BY <1>12
      <4>2. Len(parts) \in Nat
        BY <3>1
      <4>3. Len(parts) >= 1
        OBVIOUS
      <4> DEFINE k == Len(parts)
      <4>4. k \in Nat /\ k >= 1 /\ ~(k > 1)
        BY <4>1, <4>2, <4>3
      <4> HIDE DEF k
      <4>5. k = 1
        BY <4>4
      <4> QED
        BY <4>5 DEF k
    <3> QED
      BY <3>1, <3>2
  <2>1. Clean(h, n) /\ h.mirror = [tree |-> Content(t), suspect |-> FALSE] /\ LastsIn(t, F)
        /\ (\A x \in Range(h.undo) : Single(x, UndoPairs) /\ StampsIn(x, F))
    BY <1>1, <1>12 DEF Clean
  <2>2. IsTree(t) /\ h.doc = Doc(t)
    BY <1>1 DEF GoodDoc
  <2>3. 0 \in F /\ F \subseteq L /\ \A x \in Range(h.undo) : x.fwd \in 1..n
    BY <1>1, FreeIs DEF L, GoodEntry
  <2>4. OkOn(t, e) /\ doc = Doc(After(t, e)) /\ (e.kind = "restore" => e.id \notin IdsOf(t))
    BY <2>0
  <2> HIDE DEF t, F, G, e
  <2>5. m = Mirrored([tree |-> Content(t), suspect |-> FALSE], e)
    <3>1. ~(Len(parts) > 1) /\ parts[1] = e /\ h.mirror.suspect = FALSE /\ enqueue
      BY <1>12, <2>1 DEF e
    <3> QED
      BY <2>1, <3>1 DEF Publish, m
  <2>6. m \in MirrorType /\ (~m.suspect => e.kind # "restore" /\ m.tree = Content(After(t, e)))
    BY <2>0, <2>2, <2>4, <2>5, MirrorStep
  <2>7. ASSUME ~m.suspect PROVE Clean(p, n + 1)
    <3>1. e.kind # "restore" /\ m = [tree |-> Content(After(t, e)), suspect |-> FALSE]
      BY <2>6, <2>7 DEF MirrorType
    <3>2. e.kind \in {"create", "remove", "set"}
      BY <2>0, <3>1, EditFacts
    <3>3. IsTree(After(t, e)) /\ LastsIn(After(t, e), F) /\ doc.tree = After(t, e)
      BY <2>0, <2>1, <2>2, <2>3, <2>4, <3>1, ApplyIs, AfterLasts DEF Doc
    <3>4. F \subseteq G
      BY <1>0, <1>3, <1>7, <2>3 DEF F, G, Free, K, L
    <3> DEFINE x == GenerateUndo(h.doc, e)
    <3>5. E.inverses = <<x>> /\ E.counterparts = <<e>> /\ E.skip = FALSE
      <4>1. Reverse([i \in DOMAIN parts |-> GenerateUndo(h.doc, parts[i])]) = <<x>>
        <5> DEFINE s == [i \in DOMAIN parts |-> GenerateUndo(h.doc, parts[i])]
        <5>1. s = <<x>>
          BY <2>0 DEF e
        <5>2. \A y : Reverse(<<y>>) = <<y>>
          BY DEF Reverse
        <5> QED
          BY <5>1, <5>2
      <4> QED
        BY <1>12, <2>0, <4>1 DEF E, EntryOf
    <3>6. x \in Edit /\ <<x.kind, e.kind>> \in UndoPairs /\ (e.kind # "remove" => x.kind # "restore")
      <4>1. /\ x \in Edit
            /\ e.kind = "create" => x.kind = "remove"
            /\ e.kind = "set" => x.kind = "set"
            /\ e.kind = "remove" /\ e.id \in IdsOf(t) => x.kind = "restore"
        <5> HIDE DEF x
        <5>1. x = GenerateUndo(h.doc, e) /\ GoodDoc(h.doc, L)
          BY <1>1 DEF x
        <5> QED
          BY <1>0, <2>0, <5>1, UndoEdit DEF t
      <4>2. e.kind = "remove" => e.id \in IdsOf(t)
        BY <2>4 DEF OkOn
      <4> QED
        BY <3>2, <4>1, <4>2 DEF UndoPairs
    <3> HIDE DEF x
    <3>7. E.inverses[1] = x
      BY <3>5
    <3>8. e.kind = "remove" => TakesBackRemoval(E)
      <4>1. e.kind = "remove" => x.kind = "restore"
        BY <3>6 DEF UndoPairs
      <4> QED
        BY <3>7, <4>1 DEF TakesBackRemoval
    <3>9. e.kind # "remove" => n + 1 \in G
      <4> SUFFICES ASSUME e.kind # "remove" PROVE n + 1 \in G
        OBVIOUS
      <4>1. ~TakesBackRemoval(E)
        BY <3>6, <3>7 DEF TakesBackRemoval
      <4>2. \A z \in Range(h.undo) : z.fwd # n + 1
        BY <2>3
      <4> QED
        BY <1>0, <1>7, <4>1, <4>2 DEF G, Free, K
    <3>10. StampsIn(E, G)
      <4>1. \A id \in DOMAIN E.targets : E.targets[id] \in F
        <5>1. GoodDoc(h.doc, F)
          BY <2>1, <2>2 DEF GoodDoc, t
        <5> QED
          BY <1>3, <2>3, <5>1, TargetsIn DEF T
      <4> QED
        BY <1>3, <3>4, <3>8, <3>9, <4>1 DEF StampsIn
    <3>11. Single(E, UndoPairs)
      BY <2>0, <3>5, <3>6 DEF Single
    <3>12. \A z \in Range(u) : Single(z, UndoPairs) /\ StampsIn(z, G)
      <4>1. \A z : StampsIn(z, F) => StampsIn(z, G)
        BY <3>4 DEF StampsIn
      <4> QED
        BY <1>7, <2>1, <3>10, <3>11, <4>1
    <3>13. GoodDoc(d, G)
      <4>1. GoodDoc(doc, G) /\ G \subseteq Nat
        BY <1>0, <2>4, <3>3, <3>4 DEF GoodDoc, LastsIn, G, Free
      <4>2. \A id \in DOMAIN stamp : id \in IdsOf(doc.tree) => stamp[id] \in G
        <5> SUFFICES ASSUME NEW id \in DOMAIN stamp, id \in IdsOf(doc.tree) PROVE stamp[id] \in G
          OBVIOUS
        <5>1. id = e.id
          BY <1>4, <1>5, <2>0 DEF e
        <5>2. e.kind # "remove"
          <6> SUFFICES ASSUME e.kind = "remove" PROVE FALSE
            OBVIOUS
          <6>1. doc.tree = Drop(t, e.id)
            BY <3>3 DEF After
          <6> QED
            BY <2>2, <5>1, <6>1, DropMissing
        <5> QED
          BY <1>5, <3>9, <5>2
      <4>3. \A id \in DOMAIN stamp : stamp[id] \in Nat
        BY <1>0, <1>5
      <4> QED
        BY <4>1, <4>2, <4>3, StampGood DEF d
    <3>14. LastsIn(d.tree, G) /\ m = [tree |-> Content(d.tree), suspect |-> FALSE]
      BY <1>8, <3>1, <3>3, <3>13 DEF GoodDoc
    <3> QED
      BY <1>2, <3>12, <3>14, EmptyRange DEF Clean, G
  <2>8. Good(p, n + 1, b /\ enqueue)
    BY <1>10, <2>6, <2>7
  <2> QED
    BY <2>8 DEF p
<1> QED
  BY <1>11, <1>12

-----------------------------------------------------------------------------
(***************************************************************************)
(* The inductive invariant behind the properties of the document, and one  *)
(* lemma for every action.                                                 *)
(***************************************************************************)

SoundInv ==
    /\ latch \in {"none", "undo", "redo"} /\ gesture \in BOOLEAN
    /\ ops \in Nat /\ applied \subseteq 1..ops
    /\ tracked \in BOOLEAN /\ rolledBack \in BOOLEAN
    /\ rolledBack => ~tracked
    /\ ~rolledBack => Good(h, ops, tracked)

\* A state that is good while tracked is good without.
LEMMA WeakerGood ==
  ASSUME NEW n, NEW s, NEW b \in BOOLEAN, Good(s, n, b), NEW c \in BOOLEAN, c => b
  PROVE  Good(s, n, c)
  BY DEF Good

\* A latched request keeps the state good.
LEMMA LatchedGood ==
  ASSUME NEW n \in Nat, NEW s, NEW b, Good(s, n, b)
  PROVE  Good(RunLatched(s), n, b)
<1>1. RunLatched(s) \in {History(s, TRUE), History(s, FALSE), s}
  BY DEF RunLatched
<1>2. Good(History(s, TRUE), n, b) /\ Good(History(s, FALSE), n, b)
  BY HistoryGood
<1> QED
  BY <1>1, <1>2

\* An edit a tool may hand in carries no last edit, and pastes a new node.
LEMMA EditsOfKind ==
  ASSUME NEW kind \in {"create", "paste", "remove", "set"}, NEW e \in EditsOf(kind)
  PROVE  e \in Edit /\ e.last = 0 /\ (e.kind = "restore" => e.id \notin IdsOf(h.doc.tree))
<1>1. Fresh \subseteq Ids /\ \A id \in Fresh : id \notin IdsOf(h.doc.tree)
  BY DEF Fresh
<1>2. AnyVal \in Vals /\ -1 \in Int
  BY ValsAssumption DEF AnyVal
<1>3. CASE kind = "create"
  <2>1. PICK id \in Fresh, v \in Vals : e = CreateNode(id, v)
    BY <1>3 DEF EditsOf
  <2> QED
    BY <1>1, <1>2, <2>1 DEF CreateNode, Edit
<1>4. CASE kind = "paste"
  <2>1. PICK id \in Fresh, v \in Vals : e = RestoreNode(id, [last |-> 0, val |-> v], -1)
    BY <1>4 DEF EditsOf
  <2> QED
    BY <1>1, <1>2, <2>1 DEF RestoreNode, Edit
<1>5. CASE kind = "remove"
  <2>1. PICK id \in Ids : e = RemoveNode(id)
    BY <1>5 DEF EditsOf
  <2> QED
    BY <1>2, <2>1 DEF RemoveNode, Edit
<1>6. CASE kind = "set"
  <2>1. PICK id \in Ids, v \in Vals : e = SetNode(id, v)
    BY <1>6 DEF EditsOf
  <2> QED
    BY <1>2, <2>1 DEF SetNode, Edit
<1> QED
  BY <1>3, <1>4, <1>5, <1>6

\* A function on 1..n with its values in S is a sequence over S.
LEMMA ElementsOf ==
  ASSUME NEW n \in Nat, NEW U, NEW f \in [1..n -> U], NEW S, \A i \in 1..n : f[i] \in S
  PROVE  f \in Seq(S) /\ DOMAIN f = 1..n
<1>1. f \in [1..n -> S]
  OBVIOUS
<1> QED
  BY <1>1

\* The parts of a gesture are edits of tools.
LEMMA PartsAre ==
  ASSUME NEW shape \in Shapes, NEW parts \in Parts(shape)
  PROVE  /\ EditsIn(parts, {0})
         /\ \A i \in DOMAIN parts :
               parts[i].kind = "restore" => parts[i].id \notin IdsOf(h.doc.tree)
<1>1. shape \in Seq({"create", "paste", "remove", "set"})
  BY ShapesAssumption
<1>2. DOMAIN shape = 1..Len(shape) /\ Len(shape) \in Nat
      /\ \A i \in DOMAIN shape : shape[i] \in {"create", "paste", "remove", "set"}
  BY <1>1
<1>3. /\ parts \in [DOMAIN shape -> UNION {EditsOf(shape[i]) : i \in DOMAIN shape}]
      /\ \A i \in DOMAIN shape : parts[i] \in EditsOf(shape[i])
  BY DEF Parts
<1>4. \A i \in DOMAIN shape :
        /\ parts[i] \in Edit /\ parts[i].last = 0
        /\ parts[i].kind = "restore" => parts[i].id \notin IdsOf(h.doc.tree)
  <2> TAKE i \in DOMAIN shape
  <2>1. shape[i] \in {"create", "paste", "remove", "set"} /\ parts[i] \in EditsOf(shape[i])
    BY <1>2, <1>3
  <2> QED
    BY <2>1, EditsOfKind
<1> DEFINE U == UNION {EditsOf(shape[i]) : i \in DOMAIN shape}
<1>5. parts \in [DOMAIN shape -> U]
  BY <1>3
<1> HIDE DEF U
<1>6. parts \in [1..Len(shape) -> U]
  BY <1>2, <1>5
<1>7. DOMAIN shape = 1..Len(shape) /\ Len(shape) \in Nat
  BY <1>2
<1>8. \A i \in 1..Len(shape) : parts[i] \in Edit
  BY <1>4, <1>7
<1> DEFINE k == Len(shape)
<1>9. k \in Nat /\ parts \in [1..k -> U] /\ \A i \in 1..k : parts[i] \in Edit
  BY <1>6, <1>7, <1>8
<1> HIDE DEF k
<1>10. parts \in Seq(Edit) /\ DOMAIN parts = 1..k
  BY <1>9, ElementsOf
<1>11. \A i \in 1..k :
        /\ parts[i].last = 0
        /\ parts[i].kind = "restore" => parts[i].id \notin IdsOf(h.doc.tree)
  BY <1>4, <1>7 DEF k
<1> QED
  BY <1>10, <1>11 DEF EditsIn

\* An accepted commit.
LEMMA AcceptSound ==
  ASSUME SoundInv, NEW parts, EditsIn(parts, {0}), Len(parts) >= 1, NEW enqueue \in BOOLEAN,
         NEW doc, GoodDoc(h.doc, 0..ops) => GoodDoc(doc, 0..ops),
         Len(parts) = 1 /\ GoodDoc(h.doc, 0..ops) =>
            /\ OkOn(h.doc.tree, parts[1]) /\ doc = Doc(After(h.doc.tree, parts[1]))
            /\ parts[1].kind = "restore" => parts[1].id \notin IdsOf(h.doc.tree),
         Accept(ops + 1, parts, enqueue, doc)
  PROVE  SoundInv'
<1>1. /\ h' = RunLatched(Committed(ops + 1, parts, enqueue, doc))
      /\ latch' = "none" /\ gesture' = FALSE
      /\ applied' = applied \cup {ops + 1} /\ ops' = ops + 1
      /\ tracked' = (tracked /\ enqueue) /\ rolledBack' = rolledBack
  BY DEF Accept, EndGesture
<1>2. ops' \in Nat /\ applied' \subseteq 1..ops' /\ tracked' \in BOOLEAN /\ rolledBack' \in BOOLEAN
      /\ (rolledBack' => ~tracked') /\ ops \in Nat /\ tracked \in BOOLEAN
  BY <1>1 DEF SoundInv
<1>3. ASSUME ~rolledBack PROVE Good(h', ops', tracked')
  <2>1. Good(h, ops, tracked)
    BY <1>3 DEF SoundInv
  <2>2. GoodDoc(h.doc, 0..ops)
    BY <2>1 DEF Good
  <2> DEFINE s == Committed(ops + 1, parts, enqueue, doc)
             b == tracked /\ enqueue
  <2>3. Good(s, ops + 1, b)
    BY <1>2, <2>1, <2>2, CommittedGood
  <2> HIDE DEF s, b
  <2>4. ops + 1 \in Nat
    BY <1>2
  <2>5. Good(RunLatched(s), ops + 1, b)
    BY <2>3, <2>4, LatchedGood
  <2> QED
    BY <1>1, <2>5 DEF s, b
<1>4. ~rolledBack' => Good(h', ops', tracked')
  BY <1>1, <1>3
<1> QED
  BY <1>1, <1>2, <1>4 DEF SoundInv, Good

\* A refused single edit pushes an entry and pops it again; at most the
\* oldest entry is lost.
LEMMA RejectedIs ==
  ASSUME NEW S, NEW r \in Seq(S), NEW e
  PROVE  (\E U : RejectedRing(r, e) \in Seq(U)) /\ Range(RejectedRing(r, e)) \subseteq Range(r)
<1> DEFINE x == EntryOf(ops + 1, <<e>>, TRUE, h.doc)
           T == S \cup {x}
           m == MakeRoom(r)
           p == Append(m, x)
           f == Front(p)
<1> HIDE DEF x
<1>1. m \in Seq(S) /\ Range(m) \subseteq Range(r)
  <2>1. CASE Len(r) = Depth
    <3>1. r # <<>> /\ m = Tail(r)
      BY <2>1, DepthAssumption DEF MakeRoom
    <3>2. /\ Tail(r) \in Seq(S) /\ DOMAIN Tail(r) = 1..(Len(r) - 1) /\ Len(r) \in Nat
          /\ \A i \in 1..(Len(r) - 1) : Tail(r)[i] = r[i + 1] /\ i + 1 \in DOMAIN r
      BY <3>1
    <3>3. Range(Tail(r)) \subseteq Range(r)
      BY <3>2 DEF Range
    <3> QED
      BY <3>1, <3>2, <3>3
  <2>2. CASE Len(r) # Depth
    BY <2>2 DEF MakeRoom
  <2> QED
    BY <2>1, <2>2
<1>2. RejectedRing(r, e) = f
  BY DEF RejectedRing, Push, x
<1> HIDE DEF m, T
<1>3. m \in Seq(T) /\ x \in T
  BY <1>1 DEF T
<1>4. p \in Seq(T) /\ p # <<>> /\ Len(p) = Len(m) + 1 /\ Len(m) \in Nat
      /\ \A i \in 1..Len(m) : p[i] = m[i]
  BY <1>3
<1> HIDE DEF p, f
<1>5. /\ f \in Seq(T) /\ Len(f) = Len(p) - 1
      /\ \A i \in 1..(Len(p) - 1) : f[i] = p[i]
  BY <1>4, FrontIs DEF f
<1>6. DOMAIN f = 1..Len(m) /\ DOMAIN m = 1..Len(m) /\ \A i \in 1..Len(m) : f[i] = m[i]
  BY <1>3, <1>4, <1>5
<1>7. Range(f) \subseteq Range(m)
  BY <1>6 DEF Range
<1> QED
  BY <1>1, <1>2, <1>5, <1>7

\* A refused edit, or one that arrives a second time.
LEMMA RejectSound ==
  ASSUME SoundInv, NEW e, h' = [h EXCEPT !.undo = RejectedRing(@, e)],
         tracked' = (tracked /\ Len(h.undo) < Depth),
         UNCHANGED <<latch, gesture, applied, ops, rolledBack>>
  PROVE  SoundInv'
<1>1. tracked' \in BOOLEAN /\ (tracked' => tracked)
  BY DEF SoundInv
<1>2. ASSUME ~rolledBack PROVE Good(h', ops, tracked')
  <2>1. Good(h, ops, tracked) /\ ops \in Nat /\ tracked \in BOOLEAN
    BY <1>2 DEF SoundInv
  <2>2. PICK S : h.undo \in Seq(S)
    BY <2>1 DEF Good
  <2> DEFINE u == RejectedRing(h.undo, e)
  <2>3. (\E U : u \in Seq(U)) /\ Range(u) \subseteq Range(h.undo)
    BY <2>2, RejectedIs
  <2> HIDE DEF u
  <2>4. h = [doc |-> h.doc, undo |-> h.undo, redo |-> h.redo, mirror |-> h.mirror]
        /\ \E W : h.redo \in Seq(W)
    BY <2>1 DEF Good
  <2>5. h' = [doc |-> h.doc, undo |-> u, redo |-> h.redo, mirror |-> h.mirror]
    BY <2>4 DEF u
  <2>6. Good([doc |-> h.doc, undo |-> u, redo |-> h.redo, mirror |-> h.mirror], ops, tracked)
    BY <2>1, <2>3, <2>4, PopGood
  <2> QED
    BY <1>1, <2>1, <2>5, <2>6, WeakerGood
<1> QED
  BY <1>1, <1>2 DEF SoundInv

\* An edit of applyJson.
LEMMA OutsideSound ==
  ASSUME SoundInv, NEW e \in Edit, e.last = 0, ApplyOutside(e)
  PROVE  SoundInv'
<1> DEFINE n == ops
           r == Apply(h.doc, e).doc
           T == Targets(r, <<e>>)
           stamp == [id \in DOMAIN T |-> n + 1]
           d == Stamp(r, stamp)
           K == 0..(n + 1)
<1>1. /\ h' = [h EXCEPT !.doc = d] /\ ops' = n + 1 /\ applied' = applied \cup {n + 1}
      /\ tracked' = FALSE /\ UNCHANGED <<latch, gesture, rolledBack>>
  BY DEF ApplyOutside, StampOp
<1>2. n \in Nat /\ n + 1 \in Nat /\ n + 1 \in K /\ 0 \in K /\ K \subseteq Nat /\ 0..n \subseteq K
  BY DEF SoundInv
<1>3. ASSUME ~rolledBack PROVE Good(h', n + 1, FALSE)
  <2>1. /\ h = [doc |-> h.doc, undo |-> h.undo, redo |-> h.redo, mirror |-> h.mirror]
        /\ \E S : h.undo \in Seq(S)
        /\ \E S : h.redo \in Seq(S)
        /\ GoodDoc(h.doc, 0..n) /\ h.mirror \in MirrorType
        /\ \A x \in Range(h.undo) \cup Range(h.redo) : GoodEntry(x, n)
    BY <1>3 DEF SoundInv, Good
  <2> HIDE DEF K
  <2>2. GoodDoc(h.doc, K)
    BY <1>2, <2>1 DEF GoodDoc, LastsIn
  <2>3. GoodDoc(r, K)
    BY <1>2, <2>2, ApplyGood
  <2>4. DOMAIN stamp = DOMAIN T /\ \A id \in DOMAIN stamp : stamp[id] = n + 1
    OBVIOUS
  <2> HIDE DEF r, T, stamp
  <2>5. GoodDoc(d, K)
    BY <1>2, <2>3, <2>4, StampGood
  <2>6. h' = [doc |-> d, undo |-> h.undo, redo |-> h.redo, mirror |-> h.mirror]
    BY <1>1, <2>1
  <2> HIDE DEF d
  <2>7. \A x \in Range(h.undo) \cup Range(h.redo) : GoodEntry(x, n + 1)
    BY <1>2, <2>1, LargerLasts
  <2> DEFINE p == [doc |-> d, undo |-> h.undo, redo |-> h.redo, mirror |-> h.mirror]
  <2>8. p.doc = d /\ p.undo = h.undo /\ p.redo = h.redo /\ p.mirror = h.mirror
    OBVIOUS
  <2> HIDE DEF p
  <2>9. Good(p, n + 1, FALSE)
    BY <2>1, <2>5, <2>7, <2>8 DEF Good, K, p
  <2> QED
    BY <2>6, <2>9 DEF p
<1>4. applied' \subseteq 1..(n + 1)
  BY <1>1, <1>2 DEF SoundInv
<1> QED
  BY <1>1, <1>2, <1>3, <1>4 DEF SoundInv

\* An accepted load starts over.
LEMMA LoadSound ==
  ASSUME SoundInv, NEW tree \in LoadTrees, AcceptLoad(tree)
  PROVE  SoundInv'
<1> DEFINE d == [tree |-> tree, index |-> Rebind(tree, <<>>)]
           m == [tree |-> Content(tree), suspect |-> FALSE]
           p == [doc |-> d, undo |-> <<>>, redo |-> <<>>, mirror |-> m]
<1>1. AnyVal \in Vals
  BY ValsAssumption DEF AnyVal
<1>2. IsTree(tree) /\ \A i \in DOMAIN tree : tree[i].last = 0
  <2>1. CASE tree = <<>>
    BY <2>1 DEF IsTree
  <2>2. CASE tree # <<>>
    <3>1. PICK id \in Ids : tree = <<[id |-> id, last |-> 0, val |-> AnyVal]>>
      BY <2>2 DEF LoadTrees
    <3> DEFINE x == [id |-> id, last |-> 0, val |-> AnyVal]
    <3>2. x \in Node /\ x.last = 0
      BY <1>1 DEF Node
    <3>3. tree = <<x>>
      BY <3>1
    <3> HIDE DEF x
    <3>4. tree \in Seq(Node) /\ DOMAIN tree = {1} /\ tree[1] = x
      BY <3>2, <3>3
    <3> QED
      BY <3>2, <3>4 DEF IsTree
  <2> QED
    BY <2>1, <2>2
<1>3. d = Doc(tree)
  <2>1. DOMAIN <<>> \subseteq IdsOf(tree)
    OBVIOUS
  <2> QED
    BY <2>1, RebindIs
<1>4. ops \in Nat /\ 0 \in 0..ops
  BY DEF SoundInv
<1>5. GoodDoc(d, 0..ops) /\ LastsIn(tree, 0..ops)
  BY <1>2, <1>3, <1>4 DEF GoodDoc, LastsIn
<1>6. m \in MirrorType
  BY <1>2, ContentIs DEF MirrorType
<1>7. p.doc = d /\ p.undo = <<>> /\ p.redo = <<>> /\ p.mirror = m /\ d.tree = tree
  OBVIOUS
<1> HIDE DEF p
<1>8. Free(<<>>, ops) = 0..ops
  BY EmptyRange DEF Free
<1>9. Clean(p, ops)
  BY <1>5, <1>7, <1>8, EmptyRange DEF Clean
<1> HIDE DEF d, m
<1>10. \E S : <<>> \in Seq(S)
  OBVIOUS
<1>11. Good(p, ops, TRUE)
  BY <1>5, <1>6, <1>7, <1>9, <1>10, EmptyRange DEF Good, p
<1>12. /\ h' = p /\ latch' = "none" /\ gesture' = FALSE /\ applied' = {} /\ tracked' = TRUE
       /\ rolledBack' = FALSE /\ ops' = ops
  BY DEF AcceptLoad, p, d, m
<1> QED
  BY <1>4, <1>11, <1>12 DEF SoundInv

\* A request to undo or redo.
LEMMA AskSound ==
  ASSUME SoundInv, AskUndo \/ AskRedo
  PROVE  SoundInv'
<1>1. UNCHANGED <<gesture, applied, ops, tracked, rolledBack>> /\ latch' \in {"none", "undo", "redo"}
      /\ h' \in {h, History(h, TRUE), History(h, FALSE)}
  BY DEF AskUndo, AskRedo, ghosts, SoundInv
<1>2. ~rolledBack => Good(h', ops, tracked)
  BY <1>1, HistoryGood DEF SoundInv
<1> QED
  BY <1>1, <1>2 DEF SoundInv

\* The end of a gesture that commits nothing.
LEMMA AbortSound ==
  ASSUME SoundInv, AbortGesture
  PROVE  SoundInv'
<1>1. UNCHANGED <<applied, ops, tracked, rolledBack>> /\ latch' = "none" /\ gesture' = FALSE
      /\ h' = RunLatched(h)
  BY DEF AbortGesture, EndGesture, ghosts
<1>2. ~rolledBack => Good(h', ops, tracked)
  BY <1>1, LatchedGood DEF SoundInv
<1> QED
  BY <1>1, <1>2 DEF SoundInv

\* commitEdit.
LEMMA CommitSound ==
  ASSUME SoundInv, NEW e \in Edit, e.last = 0,
         e.kind = "restore" => e.id \notin IdsOf(h.doc.tree),
         NEW enqueue \in BOOLEAN, CommitEdit(e, enqueue)
  PROVE  SoundInv'
<1> DEFINE parts == <<e>>
           doc == Apply(h.doc, e).doc
<1>1. Apply(h.doc, e).ok /\ Accept(ops + 1, parts, enqueue, doc)
  BY DEF CommitEdit
<1>2. parts \in Seq(Edit) /\ Len(parts) = 1 /\ parts[1] = e /\ DOMAIN parts = {1}
  OBVIOUS
<1>3. EditsIn(parts, {0}) /\ Len(parts) >= 1
  BY <1>2 DEF EditsIn
<1>4. ops \in Nat /\ 0 \in 0..ops
  BY DEF SoundInv
<1>5. ASSUME GoodDoc(h.doc, 0..ops)
      PROVE  GoodDoc(doc, 0..ops) /\ OkOn(h.doc.tree, e) /\ doc = Doc(After(h.doc.tree, e))
  BY <1>1, <1>4, <1>5, ApplyGood
<1> HIDE DEF parts, doc
<1>6. /\ GoodDoc(h.doc, 0..ops) => GoodDoc(doc, 0..ops)
      /\ Len(parts) = 1 /\ GoodDoc(h.doc, 0..ops) =>
            /\ OkOn(h.doc.tree, parts[1]) /\ doc = Doc(After(h.doc.tree, parts[1]))
            /\ parts[1].kind = "restore" => parts[1].id \notin IdsOf(h.doc.tree)
  BY <1>2, <1>5
<1> QED
  BY <1>1, <1>3, <1>6, AcceptSound

\* commitParts.
LEMMA GestureSound ==
  ASSUME SoundInv, NEW parts, EditsIn(parts, {0}), Len(parts) > 1,
         NEW enqueue \in BOOLEAN, CommitGesture(parts, enqueue)
  PROVE  SoundInv'
<1> DEFINE doc == ApplyParts(h.doc, parts).doc
<1>1. Accept(ops + 1, parts, enqueue, doc)
  BY DEF CommitGesture
<1>2. ops \in Nat /\ 0 \in 0..ops /\ Len(parts) \in Nat
  BY DEF SoundInv, EditsIn
<1>3. EditsIn(parts, 0..ops)
  BY <1>2 DEF EditsIn
<1>4. GoodDoc(h.doc, 0..ops) => GoodDoc(doc, 0..ops)
  BY <1>2, <1>3, PartsOK
<1> HIDE DEF doc
<1> DEFINE k == Len(parts)
<1>5. k \in Nat /\ k > 1
  BY <1>2
<1> HIDE DEF k
<1>6. k >= 1 /\ k # 1
  BY <1>5
<1> QED
  BY <1>1, <1>4, <1>6, AcceptSound DEF k

\* Every way a gesture of edits ends.
LEMMA CommitsSound ==
  ASSUME SoundInv, Commits
  PROVE  SoundInv'
<1>1. PICK shape \in Shapes : \E p \in Parts(shape) :
        \/ \E enqueue \in {TRUE} \cup (IF ops < MaxLoose THEN {FALSE} ELSE {}) :
              \/ Len(p) = 1 /\ CommitEdit(p[1], enqueue)
              \/ Len(p) > 1 /\ CommitGesture(p, enqueue)
        \/ Len(p) = 1 /\ RejectEdit(p[1])
        \/ Len(p) = 1 /\ RejectDuplicate(p[1])
        \/ Len(p) > 1 /\ RejectParts(p)
        \/ Len(p) = 1 /\ ApplyOutside(p[1])
  BY DEF Commits
<1>2. PICK parts \in Parts(shape) :
        \/ \E enqueue \in {TRUE} \cup (IF ops < MaxLoose THEN {FALSE} ELSE {}) :
              \/ Len(parts) = 1 /\ CommitEdit(parts[1], enqueue)
              \/ Len(parts) > 1 /\ CommitGesture(parts, enqueue)
        \/ Len(parts) = 1 /\ RejectEdit(parts[1])
        \/ Len(parts) = 1 /\ RejectDuplicate(parts[1])
        \/ Len(parts) > 1 /\ RejectParts(parts)
        \/ Len(parts) = 1 /\ ApplyOutside(parts[1])
  BY <1>1
<1>3. /\ EditsIn(parts, {0})
      /\ \A i \in DOMAIN parts :
            parts[i].kind = "restore" => parts[i].id \notin IdsOf(h.doc.tree)
  BY PartsAre
<1>4. ASSUME Len(parts) = 1
      PROVE  /\ parts[1] \in Edit /\ parts[1].last = 0
             /\ parts[1].kind = "restore" => parts[1].id \notin IdsOf(h.doc.tree)
  <2>1. 1 \in DOMAIN parts
    BY <1>3, <1>4 DEF EditsIn
  <2> QED
    BY <1>3, <2>1 DEF EditsIn
<1>5. ASSUME NEW enqueue \in BOOLEAN, Len(parts) = 1, CommitEdit(parts[1], enqueue)
      PROVE  SoundInv'
  BY <1>4, <1>5, CommitSound
<1>6. ASSUME NEW enqueue \in BOOLEAN, Len(parts) > 1, CommitGesture(parts, enqueue)
      PROVE  SoundInv'
  BY <1>3, <1>6, GestureSound
<1>7. CASE RejectEdit(parts[1]) \/ RejectDuplicate(parts[1])
  BY <1>7, RejectSound DEF RejectEdit, RejectDuplicate
<1>8. CASE RejectParts(parts)
  BY <1>8 DEF RejectParts, SoundInv
<1>9. CASE Len(parts) = 1 /\ ApplyOutside(parts[1])
  BY <1>4, <1>9, OutsideSound
<1> QED
  BY <1>2, <1>5, <1>6, <1>7, <1>8, <1>9

\* The function of nothing is the empty sequence.
LEMMA EmptyFunction ==
  ASSUME NEW f, DOMAIN f = {}, f = [x \in DOMAIN f |-> f[x]]
  PROVE  f = <<>>
<1>1. 1..0 = {}
  OBVIOUS
<1>2. f \in [1..0 -> Nat]
  BY <1>1
<1>3. f \in Seq(Nat) /\ DOMAIN f = 1..0
  BY <1>2
<1>4. Len(f) = 0
  BY <1>3
<1> QED
  BY <1>3, <1>4, EmptySeq

\* The new document is sound.
LEMMA InitSound == Init => SoundInv
<1> SUFFICES ASSUME Init PROVE SoundInv
  OBVIOUS
<1> DEFINE d == [tree |-> <<>>, index |-> <<>>]
           m == [tree |-> <<>>, suspect |-> FALSE]
           p == [doc |-> d, undo |-> <<>>, redo |-> <<>>, mirror |-> m]
<1>1. IsTree(<<>>) /\ LastsIn(<<>>, 0..0) /\ IdsOf(<<>>) = {} /\ Content(<<>>) = <<>>
  BY DEF IsTree, LastsIn, IdsOf, Content
<1>2. d = Doc(<<>>)
  <2> DEFINE f == [id \in {} |-> Place(<<>>, id)]
  <2>1. DOMAIN f = {} /\ f = [id \in DOMAIN f |-> f[id]]
    OBVIOUS
  <2> HIDE DEF f
  <2>2. f = <<>>
    BY <2>1, EmptyFunction
  <2> QED
    BY <1>1, <2>2 DEF Doc, f
<1>3. GoodDoc(d, 0..0)
  BY <1>1, <1>2 DEF GoodDoc
<1>4. m \in MirrorType
  BY <1>1, ContentIs DEF MirrorType
<1>5. p.doc = d /\ p.undo = <<>> /\ p.redo = <<>> /\ p.mirror = m /\ d.tree = <<>>
  OBVIOUS
<1> HIDE DEF p
<1>6. Clean(p, 0)
  <2>1. LastsIn(p.doc.tree, Free(p.undo, 0))
    BY <1>5 DEF LastsIn
  <2>2. p.mirror = [tree |-> Content(p.doc.tree), suspect |-> FALSE]
    BY <1>1, <1>5
  <2> QED
    BY <1>5, <2>1, <2>2, EmptyRange DEF Clean
<1> HIDE DEF d, m
<1>7. \E S : <<>> \in Seq(S)
  OBVIOUS
<1>8. Good(p, 0, TRUE)
  BY <1>3, <1>4, <1>5, <1>6, <1>7, EmptyRange DEF Good, p
<1>9. /\ h = p /\ latch = "none" /\ gesture = FALSE /\ applied = {} /\ tracked = TRUE
      /\ rolledBack = FALSE /\ ops = 0
  BY DEF Init, p, d, m
<1> QED
  BY <1>8, <1>9 DEF SoundInv

\* Every step keeps SoundInv.
LEMMA NextSound == SoundInv /\ [Next]_vars => SoundInv'
<1> SUFFICES ASSUME SoundInv, [Next]_vars PROVE SoundInv'
  OBVIOUS
<1>1. CASE Commits
  BY <1>1, CommitsSound
<1>2. CASE AskUndo \/ AskRedo
  BY <1>2, AskSound
<1>3. CASE BeginGesture
  BY <1>3 DEF BeginGesture, ghosts, SoundInv
<1>4. CASE AbortGesture
  BY <1>4, AbortSound
<1>5. ASSUME NEW tree \in LoadTrees, AcceptLoad(tree) PROVE SoundInv'
  BY <1>5, LoadSound
<1>6. CASE UNCHANGED vars
  BY <1>6 DEF vars, ghosts, SoundInv
<1> QED
  BY <1>1, <1>2, <1>3, <1>4, <1>5, <1>6 DEF Next

(***************************************************************************)
(* SoundInv holds in every state, for every depth of the rings, every set  *)
(* of gestures of any length and every choice of the bounds.               *)
(***************************************************************************)
THEOREM SoundHolds == Spec => []SoundInv
<1>1. Init => SoundInv
  BY InitSound
<1>2. SoundInv /\ [Next]_vars => SoundInv'
  BY NextSound
<1> QED
  BY <1>1, <1>2, PTL DEF Spec

(***************************************************************************)
(* While everything is tracked, the desktop's mirror shows the tablet's    *)
(* document or is suspect: commits, undos, redos and latched requests all  *)
(* publish what they did (enqueueChange, applyOp).                         *)
(***************************************************************************)
THEOREM MirrorFollowsHolds == Spec => []MirrorFollows
<1>1. SoundInv => MirrorFollows
  BY DEF SoundInv, Good, Clean, MirrorFollows
<1> QED
  BY <1>1, SoundHolds, PTL

(***************************************************************************)
(* m_byId points every id at its node after any sequence of commits,       *)
(* undos, redos and loads, until a gesture is rolled back (rollback of     *)
(* commitParts restores the vector and not the index).                     *)
(***************************************************************************)
THEOREM IndexStaysTrue == Spec => []IndexTrue
<1>1. SoundInv => IndexTrue
  <2> SUFFICES ASSUME SoundInv, ~rolledBack
               PROVE  /\ DOMAIN h.doc.index = IdsOf(h.doc.tree)
                      /\ \A id \in DOMAIN h.doc.index :
                            /\ h.doc.index[id] <= Len(h.doc.tree)
                            /\ h.doc.tree[h.doc.index[id]].id = id
    BY DEF IndexTrue
  <2> DEFINE t == h.doc.tree
  <2>1. IsTree(t) /\ h.doc = Doc(t)
    BY DEF SoundInv, Good, GoodDoc
  <2> HIDE DEF t
  <2>2. h.doc.index = [id \in IdsOf(t) |-> Place(t, id)]
    BY <2>1 DEF Doc
  <2>3. \A id \in IdsOf(t) : Place(t, id) \in 1..Len(t) /\ t[Place(t, id)].id = id
    BY <2>1, PlaceOf
  <2>4. Len(t) \in Nat
    BY <2>1 DEF IsTree
  <2> QED
    BY <2>2, <2>3, <2>4 DEF t
<1> QED
  BY <1>1, SoundHolds, PTL

\* A good entry has the shape of an entry.
LEMMA EntryTyped ==
  ASSUME NEW n \in Nat, NEW e, GoodEntry(e, n)
  PROVE  IsEntry(e)
<1>1. DOMAIN e = {"fwd", "inverses", "counterparts", "targets", "skip", "pre", "post"}
  <2>1. e = [fwd |-> e.fwd, inverses |-> e.inverses, counterparts |-> e.counterparts,
             targets |-> e.targets, skip |-> e.skip, pre |-> e.pre, post |-> e.post]
    BY DEF GoodEntry
  <2> QED
    BY <2>1, Zenon
<1>2. /\ e.fwd \in 1..n /\ e.skip \in BOOLEAN
      /\ e.inverses \in Seq(Edit) /\ e.counterparts \in Seq(Edit)
      /\ DOMAIN e.targets \subseteq Ids /\ e.targets \in [DOMAIN e.targets -> 0..n]
      /\ e.pre \in Seq(Node) /\ e.post \in Seq(Node)
  BY DEF GoodEntry, EditsIn
<1>3. e.fwd \in Nat
  BY <1>2
<1>4. e.targets \in [DOMAIN e.targets -> Nat]
  <2> DEFINE D == DOMAIN e.targets
             f == e.targets
  <2>1. f \in [D -> 0..n]
    BY <1>2
  <2> HIDE DEF D, f
  <2>2. f \in [D -> Nat]
    BY <2>1
  <2> QED
    BY <2>2 DEF D, f
<1> QED
  BY <1>1, <1>2, <1>3, <1>4 DEF IsEntry

\* The index of a well formed document.
LEMMA IndexIs ==
  ASSUME NEW t, IsTree(t), NEW doc, doc = Doc(t)
  PROVE  /\ doc.index \in [IdsOf(t) -> 1..Len(t)] /\ DOMAIN doc.index = IdsOf(t)
         /\ \A id \in DOMAIN doc.index :
               doc.index[id] <= Len(t) /\ t[doc.index[id]].id = id
<1>1. doc.index = [id \in IdsOf(t) |-> Place(t, id)]
  BY DEF Doc
<1>2. \A id \in IdsOf(t) : Place(t, id) \in 1..Len(t) /\ t[Place(t, id)].id = id
  BY PlaceOf
<1>3. Len(t) \in Nat
  BY DEF IsTree
<1> QED
  BY <1>1, <1>2, <1>3

\* SoundInv contains the type invariant.
LEMMA SoundTyped == SoundInv => TypeOK
<1> SUFFICES ASSUME SoundInv PROVE TypeOK
  OBVIOUS
<1>1. /\ latch \in {"none", "undo", "redo"} /\ gesture \in BOOLEAN
      /\ applied \subseteq 1..ops /\ ops \in Nat
      /\ tracked \in BOOLEAN /\ rolledBack \in BOOLEAN
  BY DEF SoundInv
<1>2. ASSUME ~rolledBack
      PROVE  /\ h.doc.tree \in Seq(Node)
             /\ h.doc.index \in [IdsOf(h.doc.tree) -> 1..Len(h.doc.tree)]
             /\ \A i \in DOMAIN h.undo : IsEntry(h.undo[i])
             /\ \A i \in DOMAIN h.redo : IsEntry(h.redo[i])
             /\ h.mirror \in [tree : View, suspect : BOOLEAN]
  <2>1. Good(h, ops, tracked)
    BY <1>2 DEF SoundInv
  <2>2. IsTree(h.doc.tree) /\ h.doc = Doc(h.doc.tree)
    BY <2>1 DEF Good, GoodDoc
  <2>3. h.doc.index \in [IdsOf(h.doc.tree) -> 1..Len(h.doc.tree)]
    BY <2>2, IndexIs
  <2>4. \A i \in DOMAIN h.undo : h.undo[i] \in Range(h.undo)
    BY DEF Range
  <2>5. \A i \in DOMAIN h.redo : h.redo[i] \in Range(h.redo)
    BY DEF Range
  <2>6. \A e \in Range(h.undo) \cup Range(h.redo) : IsEntry(e)
    BY <1>1, <2>1, EntryTyped DEF Good
  <2>7. h.doc.tree \in Seq(Node)
    BY <2>2 DEF IsTree
  <2>8. h.mirror \in [tree : View, suspect : BOOLEAN]
    BY <2>1 DEF Good, MirrorType
  <2> QED
    BY <2>3, <2>4, <2>5, <2>6, <2>7, <2>8
<1> QED
  BY <1>1, <1>2 DEF TypeOK

(***************************************************************************)
(* Every variable keeps its type.                                          *)
(***************************************************************************)
THEOREM TypeCorrect == Spec => []TypeOK
<1> QED
  BY SoundTyped, SoundHolds, PTL

\* Stamping leaves every node outside the stamps as it is.
LEMMA StampKeeps ==
  ASSUME NEW t, IsTree(t), NEW stamp, \A id \in DOMAIN stamp : stamp[id] \in Nat
  PROVE  Kept(t, Stamp(Doc(t), stamp).tree, DOMAIN stamp)
<1> DEFINE u == Stamped(t, stamp)
<1>1. Stamp(Doc(t), stamp) = Doc(u) /\ DOMAIN u = DOMAIN t
  BY StampDoc
<1>2. Doc(u).tree = u
  BY DEF Doc
<1>3. \A i \in DOMAIN t : t[i].id \notin DOMAIN stamp => u[i] = t[i]
  BY DEF Stamped
<1> HIDE DEF u
<1>4. Kept(t, u, DOMAIN stamp)
  BY <1>1, <1>3 DEF Kept
<1> QED
  BY <1>1, <1>2, <1>4

\* What the node's last edit must be for a history step to touch it.
Own(e, isUndo, id) == IF isUndo THEN e.fwd ELSE e.targets[id]

\* An entry that is not blocked names no node it does not own.
LEMMA Unblocked ==
  ASSUME NEW t, IsTree(t), NEW doc, doc = Doc(t), NEW e, NEW isUndo \in BOOLEAN,
         ~Blocked(doc, e, isUndo), NEW i \in DOMAIN t,
         t[i].id \notin DOMAIN e.targets \/ t[i].last # Own(e, isUndo, t[i].id)
  PROVE  t[i].id \notin DOMAIN e.targets
<1> DEFINE id == t[i].id
<1>1. id \in IdsOf(t) /\ Place(t, id) = i
  BY PlaceIs
<1>2. Find(doc, id) = i /\ Find(doc, id) # 0
  BY <1>1, FindIs
<1>3. doc.tree = t
  BY DEF Doc
<1>4. ASSUME id \in DOMAIN e.targets PROVE FALSE
  BY <1>2, <1>3, <1>4 DEF Blocked, Own
<1> QED
  BY <1>4

\* A history step leaves every node as it is that its entry does not own.
LEMMA HistoryPassesOver ==
  ASSUME NEW n \in Nat, NEW s, NEW b, Good(s, n, b), NEW isUndo \in BOOLEAN,
         NEW ring, ring = (IF isUndo THEN s.undo ELSE s.redo), ring # <<>>,
         NEW i \in DOMAIN s.doc.tree,
         \/ s.doc.tree[i].id \notin DOMAIN Last(ring).targets
         \/ s.doc.tree[i].last # Own(Last(ring), isUndo, s.doc.tree[i].id)
  PROVE  \E j \in DOMAIN History(s, isUndo).doc.tree :
            History(s, isUndo).doc.tree[j] = s.doc.tree[i]
<1> DEFINE e == Last(ring)
           popped == IF isUndo THEN [s EXCEPT !.undo = Front(@)] ELSE [s EXCEPT !.redo = Front(@)]
           r == Replay(s.doc, e.inverses)
           d == Restamp(r.doc, e, isUndo)
           moved == [doc |-> d,
                     undo |-> IF isUndo THEN popped.undo ELSE Push(s.undo, Counterpart(e)),
                     redo |-> IF isUndo THEN Push(s.redo, Counterpart(e)) ELSE popped.redo,
                     mirror |-> PublishHistory(s, e, isUndo, r.ran)]
           t == s.doc.tree
           L == 0..n
<1>1. History(s, isUndo) =
        IF Blocked(s.doc, e, isUndo) THEN popped
        ELSE IF r.ran = <<>> THEN popped ELSE moved
  BY DEF History
<1>2. /\ s = [doc |-> s.doc, undo |-> s.undo, redo |-> s.redo, mirror |-> s.mirror]
      /\ GoodDoc(s.doc, L) /\ \A x \in Range(s.undo) \cup Range(s.redo) : GoodEntry(x, n)
      /\ \E S : s.undo \in Seq(S)
      /\ \E S : s.redo \in Seq(S)
  BY DEF Good
<1>3. GoodEntry(e, n)
  <2>1. PICK S : ring \in Seq(S)
    BY <1>2
  <2>2. e \in Range(ring)
    BY <2>1, FrontIs
  <2> QED
    BY <1>2, <2>2
<1>4. popped.doc = s.doc
  BY <1>2
<1>5. moved.doc = d
  OBVIOUS
<1> HIDE DEF e, popped, moved, L
<1>6. ASSUME ~Blocked(s.doc, e, isUndo)
      PROVE  \E j \in DOMAIN d.tree : d.tree[j] = t[i]
  <2>1. 0 \in L /\ IsTree(t) /\ s.doc = Doc(t) /\ L \subseteq Nat
    BY <1>2 DEF GoodDoc, L
  <2> DEFINE T == DOMAIN e.targets
  <2>2. t[i].id \notin T
    BY <1>6, <2>1, Unblocked DEF e
  <2>3. /\ EditsIn(e.inverses, L) /\ e.fwd \in Nat
        /\ \A id \in T : e.targets[id] \in Nat
        /\ \A k \in DOMAIN e.inverses : e.inverses[k].id \in T
    BY <1>3, <2>1 DEF GoodEntry, L
  <2> HIDE DEF T
  <2>4. GoodDoc(r.doc, L) /\ Kept(t, r.doc.tree, T)
    BY <1>2, <2>1, <2>3, ReplayOK
  <2> DEFINE w == r.doc.tree
             stamp == IF isUndo THEN e.targets ELSE [id \in DOMAIN e.targets |-> e.fwd]
  <2>5. IsTree(w) /\ r.doc = Doc(w)
    BY <2>4 DEF GoodDoc
  <2>6. /\ d = Stamp(r.doc, stamp) /\ DOMAIN stamp = T
        /\ \A id \in DOMAIN stamp : stamp[id] = IF isUndo THEN e.targets[id] ELSE e.fwd
    BY DEF Restamp, StampOp, T
  <2> HIDE DEF stamp, r, d
  <2>7. \A id \in DOMAIN stamp : stamp[id] \in Nat
    BY <2>3, <2>6
  <2>8. Kept(w, d.tree, T)
    BY <2>5, <2>6, <2>7, StampKeeps
  <2>9. Kept(t, d.tree, T)
    BY <2>4, <2>8, KeptTwice
  <2> QED
    BY <2>2, <2>9 DEF Kept
<1> HIDE DEF r, d
<1>7. CASE Blocked(s.doc, e, isUndo) \/ r.ran = <<>>
  <2>1. History(s, isUndo).doc = s.doc
    BY <1>1, <1>4, <1>7
  <2> QED
    BY <2>1
<1>8. CASE ~Blocked(s.doc, e, isUndo) /\ r.ran # <<>>
  <2>1. History(s, isUndo).doc = d
    BY <1>1, <1>5, <1>8
  <2> QED
    BY <1>6, <1>8, <2>1
<1> QED
  BY <1>7, <1>8

(***************************************************************************)
(* No history step, asked for or latched, changes a node whose last edit   *)
(* is not the one its entry remembers (applyHistoryEntry: skip-whole).     *)
(***************************************************************************)
THEOREM NothingUndoneThrough == Spec => NoUndoThrough
<1>1. SoundInv => (~rolledBack => PassesOver)
  <2> SUFFICES ASSUME SoundInv, ~rolledBack PROVE PassesOver
    OBVIOUS
  <2>1. Good(h, ops, tracked) /\ ops \in Nat
    BY DEF SoundInv
  <2>2. ASSUME NEW isUndo \in BOOLEAN, NEW ring, ring = (IF isUndo THEN h.undo ELSE h.redo),
               ring # <<>>, h' = History(h, isUndo), NEW i \in DOMAIN h.doc.tree,
               \/ h.doc.tree[i].id \notin DOMAIN Last(ring).targets
               \/ h.doc.tree[i].last # IF isUndo THEN Last(ring).fwd
                                       ELSE Last(ring).targets[h.doc.tree[i].id]
        PROVE  \E j \in DOMAIN h'.doc.tree : h'.doc.tree[j] = h.doc.tree[i]
    BY <2>1, <2>2, HistoryPassesOver, SMTT(60) DEF Own
  <2> QED
    BY <2>2 DEF PassesOver
<1>2. SoundInv => [~rolledBack => PassesOver]_vars
  BY <1>1
<1>3. Spec => [][~rolledBack => PassesOver]_vars
  BY <1>2, SoundHolds, PTL DEF Spec
<1> QED
  BY <1>3 DEF NoUndoThrough

-----------------------------------------------------------------------------
(***************************************************************************)
(* The linear history, for gestures of one edit.  The inverse of an edit   *)
(* leads back to the very tree it was taken against, and the edit forth to *)
(* the very tree its commit left, last edits included.  So while           *)
(* everything is tracked the two rings are chains of trees that meet in    *)
(* the document, no entry is ever blocked, and every history step is one   *)
(* of LinearHistory.                                                       *)
(***************************************************************************)

(***************************************************************************)
(* The entry of a commit of the one edit d, taken against the tree `pre'.  *)
(***************************************************************************)
OfEdit(e, d) ==
    /\ IsTree(e.pre) /\ e.fwd \in Nat
    /\ d \in Edit /\ OkOn(e.pre, d)
    /\ d.kind = "restore" => d.id \notin IdsOf(e.pre)
    /\ e.counterparts = <<d>>
    /\ e.inverses = <<GenerateUndo(Doc(e.pre), d)>>
    /\ e.targets = Targets(Doc(e.pre), <<d>>)
    /\ e.post = After(e.pre, d)

\* The entry of some edit.
IsEdit(e) == \E d : OfEdit(e, d)

\* The tree the commit of an entry left: its targets carry the commit's opId.
LeftBy(e) == Stamped(e.post, [id \in DOMAIN e.targets |-> e.fwd])

\* The one target of an edit, with its node's last edit.
LEMMA TargetOf ==
  ASSUME NEW t, IsTree(t), NEW d \in Edit
  PROVE  LET T == Targets(Doc(t), <<d>>)
         IN  /\ DOMAIN T = {d.id}
             /\ T[d.id] = IF d.id \in IdsOf(t) THEN t[Place(t, d.id)].last ELSE 0
             /\ T[d.id] \in Nat
<1> DEFINE T == Targets(Doc(t), <<d>>)
           p == Find(Doc(t), d.id)
<1>1. T = [id \in {d.id} |-> IF Find(Doc(t), id) # 0 THEN Doc(t).tree[Find(Doc(t), id)].last ELSE 0]
  <2>1. {<<d>>[i].id : i \in DOMAIN <<d>>} = {d.id}
    OBVIOUS
  <2> QED
    BY <2>1 DEF Targets
<1>2. DOMAIN T = {d.id} /\ T[d.id] = IF p # 0 THEN t[p].last ELSE 0
  BY <1>1 DEF Doc
<1> HIDE DEF T, p
<1>3. p = (IF d.id \in IdsOf(t) THEN Place(t, d.id) ELSE 0) /\ (p # 0 <=> d.id \in IdsOf(t))
  BY FindIs DEF p
<1>4. d.id \in IdsOf(t) => t[Place(t, d.id)] \in Node
  BY PlaceOf
<1>5. T[d.id] \in Nat
  BY <1>2, <1>3, <1>4 DEF Node
<1> QED
  BY <1>2, <1>3, <1>5 DEF T

\* The tree a commit left, and the stamp its targets got.
LEMMA LeftIs ==
  ASSUME NEW e, NEW d, OfEdit(e, d)
  PROVE  LET u == e.post
             w == LeftBy(e)
         IN  /\ IsTree(u) /\ IsTree(w) /\ IdsOf(w) = IdsOf(u) /\ Len(w) = Len(u)
             /\ DOMAIN w = DOMAIN u /\ w \in Seq(Node) /\ u \in Seq(Node)
             /\ DOMAIN e.targets = {d.id} /\ e.targets[d.id] \in Nat
             /\ StampOp(Doc(u), e.targets, e.fwd) = Doc(w)
             /\ \A i \in DOMAIN u :
                   w[i] = IF u[i].id = d.id THEN [id |-> d.id, last |-> e.fwd, val |-> u[i].val]
                          ELSE u[i]
             /\ Content(w) = Content(u)
<1> DEFINE u == e.post
           w == LeftBy(e)
           stamp == [id \in DOMAIN e.targets |-> e.fwd]
<1>1. IsTree(e.pre) /\ d \in Edit /\ OkOn(e.pre, d) /\ e.targets = Targets(Doc(e.pre), <<d>>)
      /\ e.post = After(e.pre, d) /\ e.fwd \in Nat
  BY DEF OfEdit
<1>2. DOMAIN e.targets = {d.id} /\ e.targets[d.id] \in Nat
  BY <1>1, TargetOf
<1>3. IsTree(u)
  BY <1>1, ApplyIs
<1>4. DOMAIN stamp = {d.id} /\ \A id \in DOMAIN stamp : stamp[id] = e.fwd /\ stamp[id] \in Nat
  BY <1>1, <1>2
<1>5. w = Stamped(u, stamp) /\ StampOp(Doc(u), e.targets, e.fwd) = Stamp(Doc(u), stamp)
  BY DEF LeftBy, StampOp
<1> HIDE DEF u, w, stamp
<1>6. /\ Stamp(Doc(u), stamp) = Doc(w) /\ IsTree(w) /\ IdsOf(w) = IdsOf(u) /\ Len(w) = Len(u)
      /\ DOMAIN w = DOMAIN u
      /\ \A i \in DOMAIN u : w[i].id = u[i].id /\ w[i].val = u[i].val
  BY <1>3, <1>4, <1>5, StampDoc
<1>7. \A i \in DOMAIN u :
         w[i] = IF u[i].id = d.id THEN [id |-> d.id, last |-> e.fwd, val |-> u[i].val] ELSE u[i]
  BY <1>4, <1>5 DEF Stamped
<1>8. w \in Seq(Node) /\ u \in Seq(Node)
  BY <1>3, <1>6 DEF IsTree
<1>9. Content(w) = Content(u)
  BY <1>6 DEF Content
<1> QED
  BY <1>2, <1>3, <1>5, <1>6, <1>7, <1>8, <1>9 DEF u, w

\* A tree's document is well formed; its last edits are numbers.
LEMMA TreeGood ==
  ASSUME NEW t, IsTree(t)
  PROVE  GoodDoc(Doc(t), Nat)
<1>1. Doc(t).tree = t
  BY DEF Doc
<1>2. \A i \in DOMAIN t : t[i] \in Node
  BY DEF IsTree
<1>3. LastsIn(t, Nat)
  BY <1>2 DEF LastsIn, Node
<1> QED
  BY <1>1, <1>3 DEF GoodDoc

\* A history step of one edit that the tree accepts.
LEMMA RunsOne ==
  ASSUME NEW t, IsTree(t), NEW d \in Edit, OkOn(t, d)
  PROVE  LET r == Replay(Doc(t), <<d>>)
         IN  r.doc = Doc(After(t, d)) /\ r.ran # <<>>
<1> DEFINE L == Nat
           one == <<d>>
<1>1. 0 \in L /\ GoodDoc(Doc(t), L) /\ d.last \in L
  BY TreeGood DEF Edit
<1>2. one # <<>>
  OBVIOUS
<1>3. Doc(t).tree = t
  BY DEF Doc
<1> HIDE DEF L
<1>4. Replay(Doc(t), <<d>>) = [doc |-> Doc(After(t, d)), ran |-> one]
  BY <1>1, <1>3, ReplayOne DEF one
<1> HIDE DEF one
<1> QED
  BY <1>2, <1>4

\* Redo: from the tree before the commit the edit runs again, and leaves the
\* tree the commit left.
LEMMA RedoStep ==
  ASSUME NEW e, NEW d, OfEdit(e, d), NEW x, x = Counterpart(e)
  PROVE  /\ ~Blocked(Doc(e.pre), x, FALSE)
         /\ Replay(Doc(e.pre), x.inverses).ran # <<>>
         /\ Restamp(Replay(Doc(e.pre), x.inverses).doc, x, FALSE) = Doc(LeftBy(e))
<1> DEFINE t == e.pre
<1>1. IsTree(t) /\ d \in Edit /\ OkOn(t, d) /\ e.targets = Targets(Doc(t), <<d>>)
      /\ e.post = After(t, d) /\ e.counterparts = <<d>>
  BY DEF OfEdit
<1>2. x.inverses = <<d>> /\ x.targets = e.targets /\ x.fwd = e.fwd
  BY <1>1 DEF Counterpart
<1>3. DOMAIN e.targets = {d.id}
      /\ e.targets[d.id] = IF d.id \in IdsOf(t) THEN t[Place(t, d.id)].last ELSE 0
  BY <1>1, TargetOf
<1>4. StampOp(Doc(e.post), e.targets, e.fwd) = Doc(LeftBy(e))
  BY LeftIs
<1>5. Doc(t).tree = t
  BY DEF Doc
<1> HIDE DEF t
<1>6. ~Blocked(Doc(t), x, FALSE)
  <2>1. /\ Find(Doc(t), d.id) = IF d.id \in IdsOf(t) THEN Place(t, d.id) ELSE 0
        /\ Find(Doc(t), d.id) # 0 <=> d.id \in IdsOf(t)
    BY <1>1, FindIs
  <2>2. d.kind = "create" => d.id \notin IdsOf(t)
    BY <1>1 DEF OkOn
  <2>3. \A i \in DOMAIN x.inverses :
           ~(x.inverses[i].kind = "create" /\ Find(Doc(t), x.inverses[i].id) # 0)
    BY <1>2, <2>1, <2>2
  <2>4. \A id \in DOMAIN x.targets :
           Find(Doc(t), id) # 0 => Doc(t).tree[Find(Doc(t), id)].last = x.targets[id]
    BY <1>2, <1>3, <1>5, <2>1
  <2> QED
    BY <2>3, <2>4 DEF Blocked
<1>7. Replay(Doc(t), x.inverses).doc = Doc(e.post) /\ Replay(Doc(t), x.inverses).ran # <<>>
  <2>1. Replay(Doc(t), <<d>>).doc = Doc(After(t, d)) /\ Replay(Doc(t), <<d>>).ran # <<>>
    BY <1>1, RunsOne
  <2> QED
    BY <1>1, <1>2, <2>1
<1>8. Restamp(Doc(e.post), x, FALSE) = Doc(LeftBy(e))
  BY <1>2, <1>4 DEF Restamp
<1> QED
  BY <1>6, <1>7, <1>8 DEF t

\* Two trees that agree at every place are the same.
LEMMA SameTree ==
  ASSUME NEW t \in Seq(Node), NEW u \in Seq(Node), Len(u) = Len(t),
         \A i \in 1..Len(t) : u[i] = t[i]
  PROVE  u = t
OBVIOUS

\* Writing a tree's own last edits back changes nothing.
LEMMA StampBack ==
  ASSUME NEW t, IsTree(t), NEW u \in Seq(Node), Len(u) = Len(t), NEW T, NEW id,
         DOMAIN T = {id}, T[id] \in Nat,
         T[id] = IF id \in IdsOf(t) THEN t[Place(t, id)].last ELSE 0,
         \A i \in 1..Len(t) :
            IF t[i].id = id THEN u[i].id = id /\ u[i].val = t[i].val ELSE u[i] = t[i]
  PROVE  Stamp(Doc(u), T) = Doc(t)
<1>1. t \in Seq(Node) /\ DOMAIN t = 1..Len(t) /\ DOMAIN u = 1..Len(t)
  BY DEF IsTree
<1>2. \A i \in DOMAIN t : u[i].id = t[i].id
  BY <1>1
<1>3. IsTree(u)
  BY <1>2, SameIndex
<1> DEFINE w == Stamped(u, T)
<1>4. \A k \in DOMAIN T : T[k] \in Nat
  OBVIOUS
<1>5. Stamp(Doc(u), T) = Doc(w) /\ IsTree(w) /\ Len(w) = Len(u)
  BY <1>3, <1>4, StampDoc
<1>6. \A i \in 1..Len(t) : w[i] = t[i]
  <2> TAKE i \in 1..Len(t)
  <2>1. t[i] \in Node
    BY <1>1
  <2>2. CASE t[i].id = id
    <3>1. id \in IdsOf(t) /\ Place(t, id) = i
      BY <1>1, <2>2, PlaceIs
    <3>2. w[i] = [id |-> id, last |-> t[i].last, val |-> t[i].val]
      BY <1>1, <1>2, <2>2, <3>1 DEF Stamped
    <3> QED
      BY <2>1, <2>2, <3>2 DEF Node
  <2>3. CASE t[i].id # id
    BY <1>1, <1>2, <2>3 DEF Stamped
  <2> QED
    BY <2>2, <2>3
<1>7. w \in Seq(Node)
  BY <1>5 DEF IsTree
<1> HIDE DEF w
<1>8. w = t
  BY <1>1, <1>5, <1>6, <1>7, SameTree
<1> QED
  BY <1>5, <1>8

\* What the inverse of the edit d leaves of the tree the commit left, before
\* the last edits are written back.
Undone(t, u, id) ==
    /\ u \in Seq(Node) /\ Len(u) = Len(t)
    /\ \A i \in 1..Len(t) :
          IF t[i].id = id THEN u[i].id = id /\ u[i].val = t[i].val ELSE u[i] = t[i]

\* Undoing an edit that made a node.
LEMMA UndoNew ==
  ASSUME NEW e, NEW d, OfEdit(e, d), d.kind \in {"create", "restore"},
         NEW x, x = GenerateUndo(Doc(e.pre), d), NEW w, w = LeftBy(e)
  PROVE  x \in Edit /\ x.kind # "create" /\ OkOn(w, x) /\ Undone(e.pre, After(w, x), d.id)
<1> DEFINE t == e.pre
           u == e.post
<1>1. IsTree(t) /\ d \in Edit /\ d.id \notin IdsOf(t) /\ u = After(t, d)
  BY DEF OfEdit, OkOn
<1>2. /\ d.id \in Ids /\ d.at \in Int /\ Blank(d) \in Node /\ Body(d) \in Node
      /\ Blank(d).id = d.id /\ Body(d).id = d.id /\ -1 \in Int
  BY <1>1, EditFacts
<1>3. PICK node \in Node, at \in Int : node.id = d.id /\ u = Put(t, node, at)
  <2>1. Drop(t, d.id) = t
    BY <1>1 DEF Drop
  <2> QED
    BY <1>1, <1>2, <2>1 DEF After
<1>4. x = RemoveNode(d.id)
  BY <1>1 DEF GenerateUndo, Doc
<1>5. AnyVal \in Vals
  BY ValsAssumption DEF AnyVal
<1>6. x \in Edit /\ x.kind = "remove" /\ x.id = d.id
  BY <1>2, <1>4, <1>5 DEF RemoveNode, Edit
<1>7. /\ IsTree(w) /\ IdsOf(w) = IdsOf(u) /\ Len(w) = Len(u) /\ DOMAIN w = DOMAIN u
      /\ \A i \in DOMAIN u :
            w[i] = IF u[i].id = d.id THEN [id |-> d.id, last |-> e.fwd, val |-> u[i].val] ELSE u[i]
  BY LeftIs
<1> HIDE DEF t, u
<1> DEFINE k == At(t, at) + 1
<1>8. /\ k \in 1..(Len(t) + 1) /\ Len(u) = Len(t) + 1 /\ DOMAIN u = 1..(Len(t) + 1)
      /\ \A i \in 1..(Len(t) + 1) :
            u[i] = IF i < k THEN t[i] ELSE IF i = k THEN node ELSE t[i - 1]
      /\ IsTree(u) /\ IdsOf(u) = IdsOf(t) \cup {node.id}
  BY <1>1, <1>3, PutIs
<1> HIDE DEF k
<1>9. d.id \in IdsOf(w)
  BY <1>3, <1>7, <1>8
<1>10. Place(w, d.id) = k
  <2>1. k \in DOMAIN w /\ w[k].id = d.id
    BY <1>3, <1>7, <1>8
  <2> QED
    BY <1>7, <2>1, PlaceIs
<1> DEFINE v == Drop(w, d.id)
<1>11. /\ Len(v) = Len(w) - 1 /\ IsTree(v)
       /\ \A i \in 1..(Len(w) - 1) : v[i] = IF i < k THEN w[i] ELSE w[i + 1]
  BY <1>7, <1>9, <1>10, DropIs
<1>12. After(w, x) = v /\ OkOn(w, x)
  BY <1>6, <1>9 DEF After, OkOn
<1> HIDE DEF v
<1> DEFINE n == Len(t)
<1>13. n \in Nat /\ t \in Seq(Node) /\ DOMAIN t = 1..n /\ v \in Seq(Node)
  BY <1>1, <1>11 DEF IsTree
<1>14. \A i \in 1..n : t[i].id # d.id
  <2> TAKE i \in 1..n
  <2> QED
    BY <1>1, <1>13 DEF IdsOf
<1>15. Len(v) = n
  BY <1>7, <1>8, <1>11, <1>13
<1>16. \A i \in 1..n : v[i] = t[i]
  <2> TAKE i \in 1..n
  <2>1. k \in 1..(n + 1) /\ Len(u) = n + 1 /\ Len(w) = n + 1 /\ DOMAIN u = 1..(n + 1)
    BY <1>7, <1>8
  <2>2. v[i] = IF i < k THEN w[i] ELSE w[i + 1]
    BY <1>11, <1>13, <2>1
  <2>3. \A j \in 1..(n + 1) : u[j] = IF j < k THEN t[j] ELSE IF j = k THEN node ELSE t[j - 1]
    BY <1>8
  <2> HIDE DEF n
  <2>4. CASE i < k
    <3>1. i \in 1..(n + 1) /\ u[i] = t[i]
      BY <1>13, <2>3, <2>4
    <3> QED
      BY <1>7, <1>14, <2>1, <2>2, <2>4, <3>1
  <2>5. CASE ~(i < k)
    <3>1. i + 1 \in 1..(n + 1) /\ ~(i + 1 < k) /\ i + 1 # k /\ (i + 1) - 1 = i
      BY <1>13, <2>1, <2>5
    <3>2. u[i + 1] = t[i]
      BY <2>3, <3>1
    <3> QED
      BY <1>7, <1>14, <2>1, <2>2, <2>5, <3>1, <3>2
  <2> QED
    BY <2>4, <2>5
<1> HIDE DEF n
<1>17. Undone(t, v, d.id)
  BY <1>13, <1>14, <1>15, <1>16 DEF Undone, n
<1> QED
  BY <1>6, <1>12, <1>17 DEF t

\* Undoing a change of payload.
LEMMA UndoSet ==
  ASSUME NEW e, NEW d, OfEdit(e, d), d.kind = "set",
         NEW x, x = GenerateUndo(Doc(e.pre), d), NEW w, w = LeftBy(e)
  PROVE  x \in Edit /\ x.kind # "create" /\ OkOn(w, x) /\ Undone(e.pre, After(w, x), d.id)
<1> DEFINE t == e.pre
           u == e.post
           k == Place(t, d.id)
<1>1. IsTree(t) /\ d \in Edit /\ d.id \in IdsOf(t) /\ u = SetVal(t, k, d.val) /\ d.id \in Ids
      /\ d.val \in Vals
  <2>1. IsTree(t) /\ d \in Edit /\ OkOn(t, d) /\ u = After(t, d)
    BY DEF OfEdit
  <2> HIDE DEF t, u
  <2>2. d.id \in IdsOf(t) /\ After(t, d) = SetVal(t, Place(t, d.id), d.val)
    BY <2>1 DEF OkOn, After
  <2> QED
    BY <2>1, <2>2, EditFacts
<1>2. k \in DOMAIN t /\ k \in 1..Len(t) /\ t[k].id = d.id /\ t[k] \in Node
  BY <1>1, PlaceOf
<1>3. Find(Doc(t), d.id) = k /\ Doc(t).tree = t /\ k # 0
  BY <1>1, FindIs DEF Doc
<1>4. x = SetNode(d.id, t[k].val)
  <2>1. x = SetNode(d.id, IF Find(Doc(t), d.id) # 0 THEN Doc(t).tree[Find(Doc(t), d.id)].val
                          ELSE AnyVal)
    BY DEF GenerateUndo
  <2> HIDE DEF k, t
  <2> QED
    BY <1>3, <2>1
<1>5. x \in Edit /\ x.kind = "set" /\ x.id = d.id /\ x.val = t[k].val
  <2> DEFINE v == t[k].val
  <2>1. v \in Vals /\ -1 \in Int /\ x = SetNode(d.id, v) /\ d.id \in Ids
    BY <1>1, <1>2, <1>4 DEF Node
  <2> HIDE DEF v
  <2>2. x \in Edit /\ x.kind = "set" /\ x.id = d.id /\ x.val = v
    BY <2>1 DEF SetNode, Edit
  <2> QED
    BY <2>2 DEF v
<1>6. /\ IsTree(w) /\ IdsOf(w) = IdsOf(u) /\ Len(w) = Len(u) /\ DOMAIN w = DOMAIN u
      /\ \A i \in DOMAIN u :
            w[i] = IF u[i].id = d.id THEN [id |-> d.id, last |-> e.fwd, val |-> u[i].val] ELSE u[i]
  BY LeftIs
<1> HIDE DEF t, u, k
<1>7. /\ IsTree(u) /\ IdsOf(u) = IdsOf(t) /\ Len(u) = Len(t) /\ DOMAIN u = DOMAIN t
      /\ \A i \in DOMAIN t :
           u[i] = IF i = k THEN [id |-> t[i].id, last |-> t[i].last, val |-> d.val] ELSE t[i]
  BY <1>1, SetValIs
<1>8. d.id \in IdsOf(w) /\ Place(w, d.id) = k
  <2>1. k \in DOMAIN u /\ u[k] = [id |-> d.id, last |-> t[k].last, val |-> d.val]
    BY <1>2, <1>7
  <2>2. u[k].id = d.id
    BY <2>1
  <2>3. k \in DOMAIN w /\ w[k].id = d.id
    BY <1>6, <2>1, <2>2
  <2> QED
    BY <1>1, <1>6, <1>7, <2>3, PlaceIs
<1> DEFINE v == SetVal(w, k, x.val)
<1>9. x.val \in Vals
  BY <1>5 DEF Edit
<1>10. /\ IsTree(v) /\ Len(v) = Len(w)
       /\ \A i \in DOMAIN w :
            v[i] = IF i = k THEN [id |-> w[i].id, last |-> w[i].last, val |-> x.val] ELSE w[i]
  BY <1>6, <1>9, SetValIs
<1>11. After(w, x) = v /\ OkOn(w, x)
  BY <1>5, <1>8 DEF After, OkOn
<1> HIDE DEF v
<1>12. v \in Seq(Node) /\ DOMAIN t = 1..Len(t)
  BY <1>1, <1>10 DEF IsTree
<1>13. \A i \in 1..Len(t) :
          IF t[i].id = d.id THEN v[i].id = d.id /\ v[i].val = t[i].val ELSE v[i] = t[i]
  <2> TAKE i \in 1..Len(t)
  <2>1. CASE i = k
    <3>1. w[k].id = d.id /\ k \in DOMAIN w
      BY <1>2, <1>6, <1>7, <1>8, PlaceOf
    <3>2. v[k] = [id |-> d.id, last |-> w[k].last, val |-> t[k].val]
      BY <1>5, <1>10, <3>1
    <3>3. v[k].id = d.id /\ v[k].val = t[k].val
      BY <3>2
    <3> QED
      BY <1>2, <2>1, <3>3
  <2>2. CASE i # k
    <3>1. t[i].id # d.id
      BY <1>1, <1>2, <1>12, <2>2 DEF IsTree
    <3> QED
      BY <1>6, <1>7, <1>10, <1>12, <2>2, <3>1
  <2> QED
    BY <2>1, <2>2
<1>14. Undone(t, v, d.id)
  BY <1>6, <1>7, <1>10, <1>12, <1>13 DEF Undone
<1> QED
  BY <1>5, <1>11, <1>14 DEF t

\* Undoing a removal: the node returns to its place in the paint order.
LEMMA UndoRemove ==
  ASSUME NEW e, NEW d, OfEdit(e, d), d.kind = "remove",
         NEW x, x = GenerateUndo(Doc(e.pre), d), NEW w, w = LeftBy(e)
  PROVE  x \in Edit /\ x.kind # "create" /\ OkOn(w, x) /\ Undone(e.pre, After(w, x), d.id)
<1> DEFINE t == e.pre
           u == e.post
           k == Place(t, d.id)
           n == Len(t)
<1>1. IsTree(t) /\ d \in Edit /\ d.id \in IdsOf(t) /\ u = Drop(t, d.id)
  <2>1. IsTree(t) /\ d \in Edit /\ OkOn(t, d) /\ u = After(t, d)
    BY DEF OfEdit
  <2> HIDE DEF t, u
  <2> QED
    BY <2>1 DEF OkOn, After
<1>2. k \in DOMAIN t /\ k \in 1..n /\ t[k].id = d.id /\ t[k] \in Node
  BY <1>1, PlaceOf
<1>3. Find(Doc(t), d.id) = k /\ Doc(t).tree = t /\ k # 0
  BY <1>1, FindIs DEF Doc
<1>4. x = RestoreNode(d.id, t[k], k - 1)
  BY <1>1, <1>3 DEF GenerateUndo
<1>5. /\ x \in Edit /\ x.kind = "restore" /\ x.id = d.id /\ x.at = k - 1 /\ Body(x) = t[k]
  <2> DEFINE y == t[k]
             at == k - 1
  <2>1. y \in Node /\ at \in Int /\ x = RestoreNode(d.id, y, at) /\ y.id = d.id
    BY <1>1, <1>2, <1>4
  <2> HIDE DEF y, at
  <2>2. x \in Edit /\ x.kind = "restore" /\ x.id = d.id /\ x.at = at /\ Body(x) = y
    BY <2>1 DEF RestoreNode, Edit, Node, Body
  <2> QED
    BY <2>2 DEF y, at
<1>6. /\ IsTree(w) /\ IdsOf(w) = IdsOf(u) /\ Len(w) = Len(u) /\ DOMAIN w = DOMAIN u
      /\ \A i \in DOMAIN u :
            w[i] = IF u[i].id = d.id THEN [id |-> d.id, last |-> e.fwd, val |-> u[i].val] ELSE u[i]
  BY LeftIs
<1>7. n \in Nat /\ t \in Seq(Node) /\ DOMAIN t = 1..n
  BY <1>1 DEF IsTree
<1> HIDE DEF t, u, k, n
<1>8. /\ k \in 1..n /\ Len(u) = n - 1 /\ DOMAIN u = 1..(n - 1)
      /\ \A i \in 1..(n - 1) : u[i] = IF i < k THEN t[i] ELSE t[i + 1]
      /\ IsTree(u) /\ IdsOf(u) = IdsOf(t) \ {d.id}
  BY <1>1, DropIs DEF k, n
<1>9. \A i \in 1..(n - 1) : w[i] = IF i < k THEN t[i] ELSE t[i + 1]
  <2> TAKE i \in 1..(n - 1)
  <2>1. u[i].id \in IdsOf(u)
    BY <1>8, PlaceIs
  <2> QED
    BY <1>6, <1>8, <2>1
<1>10. d.id \notin IdsOf(w) /\ Drop(w, d.id) = w /\ Len(w) = n - 1
  BY <1>6, <1>8 DEF Drop
<1> DEFINE v == Put(w, Body(x), k - 1)
<1>11. Body(x) \in Node /\ Body(x).id = d.id /\ k - 1 \in Int
  BY <1>2, <1>5
<1>12. At(w, k - 1) + 1 = k
  BY <1>2, <1>7, <1>10 DEF At
<1>13. /\ Len(v) = Len(w) + 1 /\ IsTree(v)
       /\ \A i \in 1..(Len(w) + 1) :
             v[i] = IF i < k THEN w[i] ELSE IF i = k THEN Body(x) ELSE w[i - 1]
  <2> DEFINE node == Body(x)
             at == k - 1
  <2>1. node \in Node /\ node.id = d.id /\ at \in Int /\ At(w, at) + 1 = k
        /\ IsTree(w) /\ d.id \notin IdsOf(w)
    BY <1>6, <1>10, <1>11, <1>12
  <2> HIDE DEF node, at
  <2>2. /\ Len(Put(w, node, at)) = Len(w) + 1 /\ IsTree(Put(w, node, at))
        /\ \A i \in 1..(Len(w) + 1) :
             Put(w, node, at)[i] = IF i < At(w, at) + 1 THEN w[i]
                                   ELSE IF i = At(w, at) + 1 THEN node ELSE w[i - 1]
    BY <2>1, PutIs
  <2> QED
    BY <2>1, <2>2 DEF node, at
<1>14. After(w, x) = v /\ OkOn(w, x)
  BY <1>5, <1>10 DEF After, OkOn
<1> HIDE DEF v
<1>15. v \in Seq(Node) /\ Len(v) = n
  BY <1>7, <1>10, <1>13 DEF IsTree
<1>16. \A i \in 1..n : v[i] = t[i]
  <2> TAKE i \in 1..n
  <2>1. Len(w) + 1 = n
    BY <1>7, <1>10
  <2>2. v[i] = IF i < k THEN w[i] ELSE IF i = k THEN t[k] ELSE w[i - 1]
    BY <1>5, <1>13, <2>1
  <2>3. CASE i < k
    <3>1. i \in 1..(n - 1)
      BY <1>2, <1>7, <2>3
    <3> QED
      BY <1>9, <2>2, <2>3, <3>1
  <2>4. CASE i = k
    BY <2>2, <2>4
  <2>5. CASE ~(i < k) /\ i # k
    <3>1. i - 1 \in 1..(n - 1) /\ ~(i - 1 < k) /\ (i - 1) + 1 = i
      BY <1>2, <1>7, <2>5
    <3>2. w[i - 1] = t[i]
      BY <1>9, <3>1
    <3> QED
      BY <2>2, <2>5, <3>2
  <2> QED
    BY <2>3, <2>4, <2>5
<1>17. Undone(t, v, d.id)
  <2>1. \A i \in 1..n : t[i].id = d.id => v[i].id = d.id /\ v[i].val = t[i].val
    BY <1>16
  <2> QED
    BY <1>15, <1>16, <2>1 DEF Undone, n
<1> QED
  BY <1>5, <1>14, <1>17 DEF t

\* Undo: from the tree the commit left the inverse runs, and with the old last
\* edits written back leaves exactly the tree before the commit.
LEMMA UndoStep ==
  ASSUME NEW e, NEW d, OfEdit(e, d)
  PROVE  /\ ~Blocked(Doc(LeftBy(e)), e, TRUE)
         /\ Replay(Doc(LeftBy(e)), e.inverses).ran # <<>>
         /\ Restamp(Replay(Doc(LeftBy(e)), e.inverses).doc, e, TRUE) = Doc(e.pre)
<1> DEFINE t == e.pre
           u == e.post
           w == LeftBy(e)
           x == GenerateUndo(Doc(t), d)
<1>1. IsTree(t) /\ d \in Edit /\ e.targets = Targets(Doc(t), <<d>>) /\ e.inverses = <<x>>
  BY DEF OfEdit
<1>2. x \in Edit /\ x.kind # "create" /\ OkOn(w, x) /\ Undone(t, After(w, x), d.id)
  <2>1. d.kind \in {"create", "remove", "set", "restore"}
    BY <1>1, EditFacts
  <2> QED
    BY <2>1, UndoNew, UndoSet, UndoRemove
<1>3. DOMAIN e.targets = {d.id} /\ e.targets[d.id] \in Nat
      /\ e.targets[d.id] = IF d.id \in IdsOf(t) THEN t[Place(t, d.id)].last ELSE 0
  BY <1>1, TargetOf
<1>4. /\ IsTree(w) /\ IdsOf(w) = IdsOf(u) /\ Len(w) = Len(u) /\ DOMAIN w = DOMAIN u
      /\ \A i \in DOMAIN u :
            w[i] = IF u[i].id = d.id THEN [id |-> d.id, last |-> e.fwd, val |-> u[i].val] ELSE u[i]
      /\ \A i \in DOMAIN u : w[i].id = u[i].id
  <2>1. /\ IsTree(w) /\ IdsOf(w) = IdsOf(u) /\ Len(w) = Len(u) /\ DOMAIN w = DOMAIN u
        /\ \A i \in DOMAIN u :
            w[i] = IF u[i].id = d.id THEN [id |-> d.id, last |-> e.fwd, val |-> u[i].val] ELSE u[i]
    BY LeftIs
  <2> HIDE DEF w, u
  <2> QED
    BY <2>1
<1> HIDE DEF t, u, w, x
<1>5. ~Blocked(Doc(w), e, TRUE)
  <2>1. Doc(w).tree = w
    BY DEF Doc
  <2>2. \A i \in DOMAIN e.inverses : ~(e.inverses[i].kind = "create")
    BY <1>1, <1>2
  <2>3. ASSUME d.id \in IdsOf(w) PROVE w[Place(w, d.id)].last = e.fwd
    <3> DEFINE k == Place(w, d.id)
    <3>1. k \in DOMAIN w /\ w[k].id = d.id
      BY <1>4, <2>3, PlaceOf
    <3> HIDE DEF k
    <3>2. u[k].id = d.id /\ k \in DOMAIN u
      BY <1>4, <3>1
    <3>3. w[k] = [id |-> d.id, last |-> e.fwd, val |-> u[k].val]
      BY <1>4, <3>2
    <3>4. w[k].last = e.fwd
      BY <3>3
    <3> QED
      BY <3>4 DEF k
  <2>4. /\ Find(Doc(w), d.id) = IF d.id \in IdsOf(w) THEN Place(w, d.id) ELSE 0
        /\ Find(Doc(w), d.id) # 0 <=> d.id \in IdsOf(w)
    BY <1>4, FindIs
  <2>5. \A id \in DOMAIN e.targets :
           Find(Doc(w), id) # 0 => Doc(w).tree[Find(Doc(w), id)].last = e.fwd
    BY <1>3, <2>1, <2>3, <2>4
  <2> QED
    BY <2>2, <2>5 DEF Blocked
<1>6. Replay(Doc(w), <<x>>).doc = Doc(After(w, x)) /\ Replay(Doc(w), <<x>>).ran # <<>>
  BY <1>2, <1>4, RunsOne
<1>7. Stamp(Doc(After(w, x)), e.targets) = Doc(t)
  <2> DEFINE v == After(w, x)
             T == e.targets
             id == d.id
  <2>1. v \in Seq(Node) /\ Len(v) = Len(t)
        /\ \A i \in 1..Len(t) :
             IF t[i].id = id THEN v[i].id = id /\ v[i].val = t[i].val ELSE v[i] = t[i]
    BY <1>2 DEF Undone
  <2>2. DOMAIN T = {id} /\ T[id] \in Nat
        /\ T[id] = IF id \in IdsOf(t) THEN t[Place(t, id)].last ELSE 0
    BY <1>3
  <2> HIDE DEF v, T, id
  <2>3. Stamp(Doc(v), T) = Doc(t)
    BY <1>1, <2>1, <2>2, StampBack
  <2> QED
    BY <2>3 DEF v, T
<1>8. Restamp(Doc(After(w, x)), e, TRUE) = Doc(t)
  BY <1>7 DEF Restamp
<1>9. /\ Replay(Doc(w), e.inverses).doc = Doc(After(w, x))
      /\ Replay(Doc(w), e.inverses).ran # <<>>
  BY <1>1, <1>6
<1> QED
  BY <1>5, <1>8, <1>9 DEF w, t

-----------------------------------------------------------------------------
(***************************************************************************)
(* A ring as a chain of trees.  The entry of an undo ring is a commit; the *)
(* one of a redo ring is the counterpart of one.  Each entry applies to    *)
(* the tree it comes From and leads To another.                            *)
(***************************************************************************)
Base(x, isUndo) == IF isUndo THEN x ELSE Counterpart(x)
From(x, isUndo) == IF isUndo THEN LeftBy(x) ELSE x.post
To(x, isUndo) == IF isUndo THEN x.pre ELSE LeftBy(Counterpart(x))

\* Entries of single edits, the newest of which applies to this tree and each
\* other to the tree the next newer one leads to.
Chain(ring, tree, isUndo) ==
    \A i \in 1..Len(ring) :
        /\ IsEdit(Base(ring[i], isUndo))
        /\ From(ring[i], isUndo) = IF i = Len(ring) THEN tree ELSE To(ring[i + 1], isUndo)

\* The fields of an entry.
IsRecord(e) ==
    e = [fwd |-> e.fwd, inverses |-> e.inverses, counterparts |-> e.counterparts,
         targets |-> e.targets, skip |-> e.skip, pre |-> e.pre, post |-> e.post]

\* The counterpart of a counterpart is the entry.
LEMMA TwiceTurned ==
  ASSUME NEW e, IsRecord(e)
  PROVE  Counterpart(Counterpart(e)) = e
BY DEF IsRecord, Counterpart

\* An entry turned round leads back.
LEMMA Turned ==
  ASSUME NEW x, IsRecord(x), NEW isUndo \in BOOLEAN, NEW y, y = Counterpart(x)
  PROVE  /\ From(y, ~isUndo) = To(x, isUndo) /\ To(y, ~isUndo) = From(x, isUndo)
         /\ Base(y, ~isUndo) = Base(x, isUndo)
<1>1. y.post = x.pre /\ y.pre = x.post /\ Counterpart(y) = x
  BY TwiceTurned DEF Counterpart
<1>2. CASE isUndo
  <2>1. From(y, ~isUndo) = y.post /\ To(y, ~isUndo) = LeftBy(x) /\ Base(y, ~isUndo) = x
    BY <1>1, <1>2 DEF From, To, Base
  <2> QED
    BY <1>1, <1>2, <2>1 DEF From, To, Base
<1>3. CASE ~isUndo
  <2>1. From(y, ~isUndo) = LeftBy(y) /\ To(y, ~isUndo) = y.pre /\ Base(y, ~isUndo) = y
    BY <1>3 DEF From, To, Base
  <2> QED
    BY <1>1, <1>3, <2>1 DEF From, To, Base
<1> QED
  BY <1>2, <1>3

\* A history step whose entry meets the tree it comes from leads exactly where
\* the entry leads, and shows what the entry remembers.
LEMMA OneStep ==
  ASSUME NEW x, IsRecord(x), NEW isUndo \in BOOLEAN, IsEdit(Base(x, isUndo)),
         NEW doc, doc = Doc(From(x, isUndo))
  PROVE  /\ ~Blocked(doc, x, isUndo)
         /\ Replay(doc, x.inverses).ran # <<>>
         /\ Restamp(Replay(doc, x.inverses).doc, x, isUndo) = Doc(To(x, isUndo))
         /\ Content(To(x, isUndo)) = Content(x.pre)
         /\ Content(From(x, isUndo)) = Content(x.post)
<1> DEFINE e == Base(x, isUndo)
<1>1. PICK d : OfEdit(e, d)
  BY DEF IsEdit
<1>2. Content(LeftBy(e)) = Content(e.post)
  BY <1>1, LeftIs
<1>3. CASE isUndo
  <2>1. e = x /\ From(x, isUndo) = LeftBy(x) /\ To(x, isUndo) = x.pre
    BY <1>3 DEF Base, From, To
  <2> HIDE DEF e
  <2>2. /\ ~Blocked(Doc(LeftBy(x)), x, TRUE)
        /\ Replay(Doc(LeftBy(x)), x.inverses).ran # <<>>
        /\ Restamp(Replay(Doc(LeftBy(x)), x.inverses).doc, x, TRUE) = Doc(x.pre)
    BY <1>1, <2>1, UndoStep
  <2>3. isUndo = TRUE
    BY <1>3
  <2> QED
    BY <1>2, <2>1, <2>2, <2>3
<1>4. CASE ~isUndo
  <2>1. e = Counterpart(x) /\ From(x, isUndo) = x.post /\ To(x, isUndo) = LeftBy(e)
        /\ x = Counterpart(e) /\ e.pre = x.post /\ e.post = x.pre
    BY <1>4, TwiceTurned DEF Base, From, To, Counterpart
  <2> HIDE DEF e
  <2>2. /\ ~Blocked(Doc(e.pre), x, FALSE)
        /\ Replay(Doc(e.pre), x.inverses).ran # <<>>
        /\ Restamp(Replay(Doc(e.pre), x.inverses).doc, x, FALSE) = Doc(LeftBy(e))
    BY <1>1, <2>1, RedoStep
  <2>3. isUndo = FALSE
    BY <1>4
  <2> QED
    BY <1>2, <2>1, <2>2, <2>3
<1> QED
  BY <1>3, <1>4

\* The documents a ring stands for.
Pictures(ring) == [i \in DOMAIN ring |-> Content(ring[i].pre)]

\* The empty ring is a chain to any tree.
LEMMA NoChain ==
  ASSUME NEW tree, NEW isUndo
  PROVE  Chain(<<>>, tree, isUndo) /\ Pictures(<<>>) = <<>>
<1>1. \A i \in 1..Len(<<>>) : FALSE
  OBVIOUS
<1>2. DOMAIN Pictures(<<>>) = {}
  BY DEF Pictures
<1>3. Pictures(<<>>) = [i \in DOMAIN Pictures(<<>>) |-> Pictures(<<>>)[i]]
  BY DEF Pictures
<1> QED
  BY <1>1, <1>2, <1>3, EmptyFunction DEF Chain

\* The pictures of a ring are a sequence as long as it.
LEMMA PicturesAre ==
  ASSUME NEW S, NEW r \in Seq(S)
  PROVE  /\ \E P : Pictures(r) \in Seq(P)
         /\ Len(Pictures(r)) = Len(r) /\ DOMAIN Pictures(r) = 1..Len(r) /\ Len(r) \in Nat
         /\ \A i \in 1..Len(r) : Pictures(r)[i] = Content(r[i].pre)
<1> DEFINE n == Len(r)
           P == {Content(r[i].pre) : i \in DOMAIN r}
<1>1. n \in Nat /\ DOMAIN r = 1..n
  OBVIOUS
<1>2. Pictures(r) = [i \in 1..n |-> Content(r[i].pre)]
  BY <1>1 DEF Pictures
<1>3. \A i \in 1..n : Content(r[i].pre) \in P
  BY <1>1
<1> HIDE DEF n, P
<1>4. Pictures(r) \in [1..n -> P]
  BY <1>2, <1>3
<1>5. Pictures(r) \in Seq(P) /\ Len(Pictures(r)) = n /\ DOMAIN Pictures(r) = 1..n
  BY <1>1, <1>4
<1> QED
  BY <1>1, <1>2, <1>5 DEF n

\* The newest entry taken from a ring.
LEMMA ChainPop ==
  ASSUME NEW S, NEW r \in Seq(S), r # <<>>, NEW tree, NEW isUndo, Chain(r, tree, isUndo)
  PROVE  /\ IsEdit(Base(Last(r), isUndo)) /\ From(Last(r), isUndo) = tree
         /\ Chain(Front(r), To(Last(r), isUndo), isUndo)
         /\ Pictures(r) # <<>> /\ Pictures(r)[Len(Pictures(r))] = Content(Last(r).pre)
         /\ Pictures(Front(r)) = SubSeq(Pictures(r), 1, Len(Pictures(r)) - 1)
<1> DEFINE n == Len(r)
           f == Front(r)
<1>1. n \in Nat /\ n >= 1 /\ DOMAIN r = 1..n /\ Last(r) = r[n]
  BY DEF Last
<1>2. f \in Seq(S) /\ Len(f) = n - 1 /\ \A i \in 1..(n - 1) : f[i] = r[i]
  BY FrontIs
<1>3. \A i \in 1..n :
        /\ IsEdit(Base(r[i], isUndo))
        /\ From(r[i], isUndo) = IF i = n THEN tree ELSE To(r[i + 1], isUndo)
  BY DEF Chain
<1> HIDE DEF n, f
<1>4. Chain(f, To(r[n], isUndo), isUndo)
  <2> SUFFICES ASSUME NEW i \in 1..Len(f)
               PROVE  /\ IsEdit(Base(f[i], isUndo))
                      /\ From(f[i], isUndo) =
                            IF i = Len(f) THEN To(r[n], isUndo) ELSE To(f[i + 1], isUndo)
    BY DEF Chain
  <2>1. i \in 1..(n - 1) /\ i \in 1..n /\ i # n /\ f[i] = r[i]
    BY <1>1, <1>2
  <2>2. CASE i = Len(f)
    <3>1. i + 1 = n
      BY <1>1, <1>2, <2>2
    <3> QED
      BY <1>3, <2>1, <2>2, <3>1
  <2>3. CASE i # Len(f)
    <3>1. i + 1 \in 1..(n - 1)
      BY <1>1, <1>2, <2>1, <2>3
    <3>2. f[i + 1] = r[i + 1]
      BY <1>2, <3>1
    <3> QED
      BY <1>3, <2>1, <2>3, <3>2
  <2> QED
    BY <2>2, <2>3
<1>5. IsEdit(Base(r[n], isUndo)) /\ From(r[n], isUndo) = tree
  BY <1>1, <1>3
<1> DEFINE p == Pictures(r)
           q == Pictures(f)
<1>6. PICK P : p \in Seq(P)
  BY PicturesAre
<1>7. PICK Q : q \in Seq(Q)
  BY <1>2, PicturesAre
<1>8. Len(p) = n /\ \A i \in 1..n : p[i] = Content(r[i].pre)
  BY PicturesAre DEF n
<1>9. Len(q) = n - 1 /\ \A i \in 1..(n - 1) : q[i] = Content(f[i].pre)
  BY <1>2, PicturesAre
<1> HIDE DEF p, q
<1>10. p # <<>> /\ p[Len(p)] = Content(r[n].pre)
  <2>1. n \in 1..n
    BY <1>1
  <2> QED
    BY <1>6, <1>8, <2>1
<1>11. q = SubSeq(p, 1, n - 1)
  <2>1. n - 1 \in 0..n
    BY <1>1
  <2>2. \A i \in 1..(n - 1) : q[i] = p[i]
    <3> TAKE i \in 1..(n - 1)
    <3>1. i \in 1..n
      BY <1>1
    <3> QED
      BY <1>2, <1>8, <1>9, <3>1
  <2>3. \A i \in 1..(n - 1) : SubSeq(p, 1, n - 1)[i] = p[i]
    BY <1>1, <1>6, <1>8
  <2>4. SubSeq(p, 1, n - 1) \in Seq(P) /\ Len(SubSeq(p, 1, n - 1)) = n - 1
    BY <1>1, <1>6, <1>8
  <2> DEFINE s == SubSeq(p, 1, n - 1)
  <2>5. s \in Seq(P) /\ Len(s) = n - 1 /\ \A i \in 1..(n - 1) : q[i] = s[i]
    BY <2>2, <2>3, <2>4
  <2> HIDE DEF s
  <2>6. q = s
    BY <1>7, <1>9, <2>5
  <2> QED
    BY <2>6 DEF s
<1> QED
  BY <1>1, <1>4, <1>5, <1>8, <1>10, <1>11 DEF p, q, f

\* A full ring loses its oldest entry (popOldestIfFull).
LEMMA RoomIs ==
  ASSUME NEW S, NEW r \in Seq(S)
  PROVE  \E o \in {0, 1} :
            /\ o = 1 <=> Len(r) = Depth
            /\ MakeRoom(r) \in Seq(S) /\ Len(MakeRoom(r)) = Len(r) - o
            /\ \A i \in 1..(Len(r) - o) : MakeRoom(r)[i] = r[i + o]
<1>1. CASE Len(r) = Depth
  <2>1. r # <<>> /\ MakeRoom(r) = Tail(r)
    BY <1>1, DepthAssumption DEF MakeRoom
  <2>2. Tail(r) \in Seq(S) /\ Len(Tail(r)) = Len(r) - 1
        /\ \A i \in 1..(Len(r) - 1) : Tail(r)[i] = r[i + 1]
    BY <2>1
  <2> QED
    BY <1>1, <2>1, <2>2
<1>2. CASE Len(r) # Depth
  <2>1. MakeRoom(r) = r
    BY <1>2 DEF MakeRoom
  <2> DEFINE n == Len(r)
  <2>2. n \in Nat
    OBVIOUS
  <2> HIDE DEF n
  <2>3. n - 0 = n /\ \A i \in 1..(n - 0) : i + 0 = i
    BY <2>2
  <2>4. \A i \in 1..(n - 0) : MakeRoom(r)[i] = r[i + 0]
    BY <2>1, <2>3
  <2>5. (0 = 1 <=> n = Depth) /\ MakeRoom(r) \in Seq(S) /\ Len(MakeRoom(r)) = n - 0
    BY <1>2, <2>1, <2>3 DEF n
  <2> HIDE DEF MakeRoom
  <2> WITNESS 0 \in {0, 1}
  <2> QED
    BY <2>4, <2>5 DEF n
<1> QED
  BY <1>1, <1>2

\* An entry pushed on a ring.
LEMMA ChainPush ==
  ASSUME NEW S, NEW r \in Seq(S), NEW tree, NEW isUndo, Chain(r, tree, isUndo),
         NEW x, IsEdit(Base(x, isUndo)), To(x, isUndo) = tree
  PROVE  Chain(Push(r, x), From(x, isUndo), isUndo)
<1> DEFINE m == MakeRoom(r)
           n == Len(r)
           p == Append(m, x)
<1>1. PICK o \in {0, 1} : /\ m \in Seq(S) /\ Len(m) = n - o
                          /\ \A i \in 1..(n - o) : m[i] = r[i + o]
  BY RoomIs
<1>2. n \in Nat /\ \A i \in 1..n :
        /\ IsEdit(Base(r[i], isUndo))
        /\ From(r[i], isUndo) = IF i = n THEN tree ELSE To(r[i + 1], isUndo)
  BY DEF Chain
<1>3. Push(r, x) = p
  BY DEF Push
<1> HIDE DEF n, m
<1> DEFINE k == n - o
<1>4. k \in Nat
  <2>1. Len(m) \in Nat
    BY <1>1
  <2> QED
    BY <1>1, <2>1
<1>5. Len(p) = k + 1 /\ p[k + 1] = x /\ \A i \in 1..k : p[i] = r[i + o]
  <2> DEFINE T == S \cup {x}
  <2>1. m \in Seq(T) /\ x \in T /\ Len(m) = k
    BY <1>1
  <2> HIDE DEF T, k
  <2>2. Len(p) = k + 1 /\ p[k + 1] = x /\ \A i \in 1..k : p[i] = m[i]
    BY <1>4, <2>1
  <2> QED
    BY <1>1, <2>2 DEF k
<1> HIDE DEF p
<1>6. SUFFICES ASSUME NEW i \in 1..(k + 1)
               PROVE  /\ IsEdit(Base(p[i], isUndo))
                      /\ From(p[i], isUndo) =
                            IF i = k + 1 THEN From(x, isUndo) ELSE To(p[i + 1], isUndo)
  BY <1>3, <1>5 DEF Chain
<1>7. CASE i = k + 1
  BY <1>5, <1>7
<1>8. CASE i = k
  <2>1. i + o = n /\ n \in 1..n /\ i \in 1..k /\ i # k + 1
    BY <1>2, <1>4, <1>6, <1>8
  <2>2. p[i] = r[n] /\ p[i + 1] = x
    BY <1>5, <1>8, <2>1
  <2> QED
    BY <1>2, <2>1, <2>2
<1>9. CASE i < k
  <2>1. i \in 1..k /\ i + 1 \in 1..k /\ i + o \in 1..n /\ i + o # n /\ (i + 1) + o = (i + o) + 1
        /\ i # k + 1
    BY <1>2, <1>4, <1>6, <1>9
  <2>2. p[i] = r[i + o] /\ p[i + 1] = r[(i + o) + 1]
    BY <1>5, <2>1
  <2> QED
    BY <1>2, <2>1, <2>2
<1> QED
  BY <1>4, <1>6, <1>7, <1>8, <1>9

\* The pictures of a ring with one entry more.
LEMMA PicturesPush ==
  ASSUME NEW S, NEW r \in Seq(S), NEW x, NEW c, c = Content(x.pre)
  PROVE  Pictures(Push(r, x)) = Linear!Push(Pictures(r), c)
<1> DEFINE m == MakeRoom(r)
           n == Len(r)
           p == Append(m, x)
           q == Pictures(r)
           l == IF Len(q) = Depth THEN Tail(q) ELSE q
<1>1. PICK o \in {0, 1} : /\ o = 1 <=> n = Depth
                          /\ m \in Seq(S) /\ Len(m) = n - o
                          /\ \A i \in 1..(n - o) : m[i] = r[i + o]
  BY RoomIs
<1>2. Push(r, x) = p /\ Linear!Push(q, c) = Append(l, c)
  BY DEF Push, Linear!Push
<1>3. PICK P : q \in Seq(P)
  BY PicturesAre
<1>4. Len(q) = n /\ n \in Nat /\ \A i \in 1..n : q[i] = Content(r[i].pre)
  BY PicturesAre
<1> HIDE DEF n, m, q
<1> DEFINE k == n - o
<1>5. k \in Nat
  <2>1. Len(m) \in Nat
    BY <1>1
  <2> QED
    BY <1>1, <2>1
<1>6. l \in Seq(P) /\ Len(l) = k /\ \A i \in 1..k : l[i] = q[i + o]
  <2>1. CASE n = Depth
    <3>1. o = 1 /\ q # <<>> /\ l = Tail(q)
      BY <1>1, <1>3, <1>4, <2>1, DepthAssumption
    <3>2. Tail(q) \in Seq(P) /\ Len(Tail(q)) = n - 1 /\ \A i \in 1..(n - 1) : Tail(q)[i] = q[i + 1]
      BY <1>3, <1>4, <3>1
    <3> QED
      BY <3>1, <3>2
  <2>2. CASE n # Depth
    <3>1. o = 0 /\ l = q
      BY <1>1, <1>4, <2>2
    <3> HIDE DEF l
    <3>2. k = n /\ \A i \in 1..k : q[i + o] = q[i]
      BY <1>4, <3>1
    <3> QED
      BY <1>3, <1>4, <3>1, <3>2
  <2> QED
    BY <2>1, <2>2
<1> HIDE DEF l
<1>7. p \in Seq(S \cup {x}) /\ Len(p) = k + 1 /\ p[k + 1] = x /\ \A i \in 1..k : p[i] = r[i + o]
  <2> DEFINE T == S \cup {x}
  <2>1. m \in Seq(T) /\ x \in T /\ Len(m) = k
    BY <1>1
  <2> HIDE DEF T, k
  <2>2. p \in Seq(T) /\ Len(p) = k + 1 /\ p[k + 1] = x /\ \A i \in 1..k : p[i] = m[i]
    BY <1>5, <2>1
  <2> QED
    BY <1>1, <2>2 DEF k, T
<1> HIDE DEF p
<1>8. PICK Q : Pictures(p) \in Seq(Q)
  BY <1>7, PicturesAre
<1>9. Len(Pictures(p)) = k + 1 /\ \A i \in 1..(k + 1) : Pictures(p)[i] = Content(p[i].pre)
  BY <1>7, PicturesAre
<1> DEFINE a == Append(l, c)
           U == P \cup {c}
<1>10. l \in Seq(U) /\ c \in U
  BY <1>6
<1> HIDE DEF U, k
<1>11. a \in Seq(U) /\ Len(a) = k + 1 /\ a[k + 1] = c /\ \A i \in 1..k : a[i] = l[i]
  BY <1>5, <1>6, <1>10
<1> HIDE DEF a
<1>12. \A i \in 1..(k + 1) : Pictures(p)[i] = a[i]
  <2> TAKE i \in 1..(k + 1)
  <2>1. CASE i = k + 1
    BY <1>7, <1>9, <1>11, <2>1
  <2>2. CASE i \in 1..k
    <3>1. i + o \in 1..n
      BY <1>1, <1>4, <1>5, <2>2 DEF k
    <3>2. a[i] = Content(r[i + o].pre)
      BY <1>4, <1>6, <1>11, <2>2, <3>1
    <3> QED
      BY <1>7, <1>9, <2>2, <3>2
  <2> QED
    BY <1>5, <2>1, <2>2
<1>13. Pictures(p) = a
  BY <1>5, <1>8, <1>9, <1>11, <1>12
<1> QED
  BY <1>2, <1>13 DEF a, q

\* The tree of a tree's document.
LEMMA DocTree == ASSUME NEW t PROVE Doc(t).tree = t
BY DEF Doc

\* Both rings lead away from the document.
Linked(s) == Chain(s.undo, s.doc.tree, TRUE) /\ Chain(s.redo, s.doc.tree, FALSE)

Shown(s) == Content(s.doc.tree)

\* The document moved to the newest picture of one ring, and the other ring
\* got the picture it leaves.
Moves(s, t, from, to, fromNow, toNow) ==
    /\ Pictures(from) # <<>>
    /\ Shown(t) = Linear!Newest(Pictures(from))
    /\ Pictures(fromNow) = Linear!Older(Pictures(from))
    /\ Pictures(toNow) = Linear!Push(Pictures(to), Shown(s))

MovesBack(s, t) == Moves(s, t, s.undo, s.redo, t.undo, t.redo)
MovesOn(s, t) == Moves(s, t, s.redo, s.undo, t.redo, t.undo)

\* A history step on linked rings is one step of the linear history.
LEMMA HistoryLinear ==
  ASSUME NEW n \in Nat, NEW s, NEW b, Good(s, n, b), Linked(s), NEW isUndo \in BOOLEAN,
         NEW ring, ring = IF isUndo THEN s.undo ELSE s.redo
  PROVE  LET t == History(s, isUndo)
         IN  /\ Linked(t)
             /\ ring = <<>> => t = s
             /\ ring # <<>> => IF isUndo THEN MovesBack(s, t) ELSE MovesOn(s, t)
<1> DEFINE t == History(s, isUndo)
           x == Last(ring)
           other == IF isUndo THEN s.redo ELSE s.undo
           C == Counterpart(x)
           r == Replay(s.doc, x.inverses)
<1>1. CASE ring = <<>>
  BY <1>1 DEF History
<1>2. ASSUME ring # <<>>
      PROVE  Linked(t) /\ IF isUndo THEN MovesBack(s, t) ELSE MovesOn(s, t)
  <2>1. PICK S : ring \in Seq(S)
    BY DEF Good
  <2>2. PICK O : other \in Seq(O)
    BY DEF Good
  <2>3. Chain(ring, s.doc.tree, isUndo) /\ Chain(other, s.doc.tree, ~isUndo)
    <3>1. isUndo = TRUE \/ isUndo = FALSE
      OBVIOUS
    <3> QED
      BY <3>1 DEF Linked
  <2>4. /\ IsEdit(Base(x, isUndo)) /\ From(x, isUndo) = s.doc.tree
        /\ Chain(Front(ring), To(x, isUndo), isUndo)
        /\ Pictures(ring) # <<>> /\ Pictures(ring)[Len(Pictures(ring))] = Content(x.pre)
        /\ Pictures(Front(ring)) = SubSeq(Pictures(ring), 1, Len(Pictures(ring)) - 1)
    BY <1>2, <2>1, <2>3, ChainPop
  <2>5. x \in Range(s.undo) \cup Range(s.redo)
    <3>1. x \in Range(ring)
      BY <1>2, <2>1, FrontIs
    <3> QED
      BY <3>1
  <2>6. IsRecord(x) /\ s.doc = Doc(s.doc.tree)
    BY <2>5 DEF Good, GoodEntry, IsRecord, GoodDoc
  <2> HIDE DEF x, other
  <2>7. /\ ~Blocked(s.doc, x, isUndo) /\ r.ran # <<>>
        /\ Restamp(r.doc, x, isUndo) = Doc(To(x, isUndo))
        /\ Content(To(x, isUndo)) = Content(x.pre)
        /\ Content(From(x, isUndo)) = Content(x.post)
    BY <2>4, <2>6, OneStep
  <2> HIDE DEF r
  <2>8. /\ From(C, ~isUndo) = To(x, isUndo) /\ To(C, ~isUndo) = From(x, isUndo)
        /\ Base(C, ~isUndo) = Base(x, isUndo)
    BY <2>6, Turned
  <2>9. C.pre = x.post
    BY DEF Counterpart
  <2> HIDE DEF C
  <2>10. Chain(Push(other, C), To(x, isUndo), ~isUndo)
    <3>1. IsEdit(Base(C, ~isUndo)) /\ To(C, ~isUndo) = s.doc.tree
      BY <2>4, <2>8
    <3> DEFINE u == ~isUndo
    <3>2. Chain(other, s.doc.tree, u) /\ IsEdit(Base(C, u)) /\ To(C, u) = s.doc.tree
      BY <2>3, <3>1
    <3> HIDE DEF u
    <3>3. Chain(Push(other, C), From(C, u), u)
      BY <2>2, <3>2, ChainPush
    <3> QED
      BY <2>8, <3>3 DEF u
  <2>11. Pictures(Push(other, C)) = Linear!Push(Pictures(other), Content(s.doc.tree))
    <3>1. Content(s.doc.tree) = Content(C.pre)
      BY <2>4, <2>7, <2>9
    <3> QED
      BY <2>2, <3>1, PicturesPush
  <2>12. Doc(To(x, isUndo)).tree = To(x, isUndo)
    BY DEF Doc
  <2>13. /\ Linear!Newest(Pictures(ring)) = Content(x.pre)
         /\ Linear!Older(Pictures(ring)) = Pictures(Front(ring))
    BY <2>4 DEF Linear!Newest, Linear!Older
  <2>14. s = [doc |-> s.doc, undo |-> s.undo, redo |-> s.redo, mirror |-> s.mirror]
    BY DEF Good
  <2> DEFINE popped == IF isUndo THEN [s EXCEPT !.undo = Front(@)] ELSE [s EXCEPT !.redo = Front(@)]
             moved == [doc |-> Restamp(r.doc, x, isUndo),
                       undo |-> IF isUndo THEN popped.undo ELSE Push(s.undo, C),
                       redo |-> IF isUndo THEN Push(s.redo, C) ELSE popped.redo,
                       mirror |-> PublishHistory(s, x, isUndo, r.ran)]
  <2>15. t = moved
    <3>1. History(s, isUndo) =
            IF ring = <<>> THEN s
            ELSE IF Blocked(s.doc, x, isUndo) THEN popped
            ELSE IF r.ran = <<>> THEN popped ELSE moved
      BY DEF History, r, x, C
    <3> HIDE DEF popped, moved
    <3> QED
      BY <1>2, <2>7, <3>1
  <2>16. t.doc = Doc(To(x, isUndo))
    BY <2>7, <2>15
  <2>17. CASE isUndo
    <3>1. ring = s.undo /\ other = s.redo /\ ~isUndo = FALSE
      BY <2>17 DEF other
    <3>2. popped.undo = Front(s.undo)
      BY <2>14, <2>17
    <3> HIDE DEF popped
    <3>3. t.undo = Front(ring) /\ t.redo = Push(other, C)
      BY <2>15, <2>17, <3>1, <3>2
    <3> HIDE DEF t
    <3>4. Chain(t.undo, t.doc.tree, isUndo) /\ Chain(t.redo, t.doc.tree, ~isUndo)
      BY <2>4, <2>10, <2>12, <2>16, <3>3
    <3>5. Linked(t)
      BY <2>17, <3>1, <3>4 DEF Linked
    <3>6. MovesBack(s, t)
      BY <2>4, <2>7, <2>11, <2>12, <2>13, <2>16, <3>1, <3>3 DEF MovesBack, Moves, Shown
    <3> QED
      BY <2>17, <3>5, <3>6
  <2>18. CASE ~isUndo
    <3>1. ring = s.redo /\ other = s.undo /\ ~isUndo = TRUE
      BY <2>18 DEF other
    <3>2. popped.redo = Front(s.redo)
      BY <2>14, <2>18
    <3> HIDE DEF popped
    <3>3. t.redo = Front(ring) /\ t.undo = Push(other, C)
      BY <2>15, <2>18, <3>1, <3>2
    <3> HIDE DEF t
    <3>4. Chain(t.redo, t.doc.tree, isUndo) /\ Chain(t.undo, t.doc.tree, ~isUndo)
      BY <2>4, <2>10, <2>12, <2>16, <3>3
    <3>5. Linked(t)
      BY <2>18, <3>1, <3>4 DEF Linked
    <3>6. MovesOn(s, t)
      BY <2>4, <2>7, <2>11, <2>12, <2>13, <2>16, <3>1, <3>3 DEF MovesOn, Moves, Shown
    <3> QED
      BY <2>18, <3>5, <3>6
  <2> QED
    BY <2>17, <2>18
<1>3. ring = <<>> => Linked(t) /\ t = s
  BY <1>1 DEF History
<1> QED
  BY <1>2, <1>3

\* Reversing a list of one.
LEMMA ReverseOne ==
  ASSUME NEW S, NEW y \in S
  PROVE  Reverse(<<y>>) = <<y>>
<1>1. <<y>> \in Seq(S) /\ DOMAIN <<y>> = {1} /\ <<y>>[1] = y
  OBVIOUS
<1>2. Reverse(<<y>>) \in Seq(S) /\ DOMAIN Reverse(<<y>>) = {1} /\ Reverse(<<y>>)[1] = y
  BY <1>1, ReverseIs
<1> DEFINE z == Reverse(<<y>>)
<1> HIDE DEF z
<1>3. z \in Seq(S) /\ DOMAIN z = {1} /\ z[1] = y
  BY <1>2 DEF z
<1>4. Len(z) = 1
  BY <1>3
<1>5. z = <<y>>
  BY <1>3, <1>4
<1> QED
  BY <1>5 DEF z

\* The commit of one edit links the rings again.
LEMMA CommitLinks ==
  ASSUME NEW n \in Nat, GoodDoc(h.doc, 0..n), \E S : h.undo \in Seq(S), Linked(h),
         NEW d \in Edit, OkOn(h.doc.tree, d),
         d.kind = "restore" => d.id \notin IdsOf(h.doc.tree),
         NEW doc, doc = Doc(After(h.doc.tree, d)),
         NEW p, p = Committed(n + 1, <<d>>, TRUE, doc)
  PROVE  /\ Linked(p) /\ p.redo = <<>>
         /\ Pictures(p.undo) = Linear!Push(Pictures(h.undo), Shown(h))
<1> DEFINE x == EntryOf(n + 1, <<d>>, TRUE, doc)
           t == h.doc.tree
<1>1. IsTree(t) /\ h.doc = Doc(t) /\ doc.tree = After(t, d)
  BY DEF GoodDoc, Doc
<1>2. PICK S : h.undo \in Seq(S)
  OBVIOUS
<1>3. x.inverses = <<GenerateUndo(Doc(t), d)>>
  <2> DEFINE y == GenerateUndo(h.doc, d)
             f == [i \in DOMAIN <<d>> |-> GenerateUndo(h.doc, <<d>>[i])]
  <2>1. x.inverses = Reverse(f)
    BY DEF EntryOf
  <2>2. f = <<y>>
    <3>1. DOMAIN f = {1} /\ f[1] = y /\ f \in [1..1 -> {y}]
      OBVIOUS
    <3> HIDE DEF f, y
    <3>2. f \in Seq({y}) /\ Len(f) = 1
      <4>1. \A i \in 1..1 : f[i] \in {y}
        BY <3>1
      <4>2. f \in Seq({y}) /\ DOMAIN f = 1..1
        BY <3>1, <4>1, ElementsOf
      <4> QED
        BY <4>2
    <3> QED
      BY <3>1, <3>2
  <2>3. Reverse(<<y>>) = <<y>>
    <3> HIDE DEF y
    <3>1. y \in {y}
      OBVIOUS
    <3> QED
      BY <3>1, ReverseOne
  <2> HIDE DEF x, f, t
  <2> QED
    BY <1>1, <2>1, <2>2, <2>3
<1>4. /\ x.fwd = n + 1 /\ x.counterparts = <<d>> /\ x.targets = Targets(h.doc, <<d>>)
      /\ x.pre = t /\ x.post = doc.tree
  BY DEF EntryOf
<1>5. /\ p.undo = Push(h.undo, x) /\ p.redo = <<>>
      /\ p.doc = StampOp(doc, Targets(h.doc, <<d>>), n + 1)
  BY DEF Committed
<1> HIDE DEF x, t
<1>6. OfEdit(x, d)
  <2>1. x.fwd \in Nat /\ OkOn(t, d) /\ (d.kind = "restore" => d.id \notin IdsOf(t))
    BY <1>4 DEF t
  <2> QED
    BY <1>1, <1>3, <1>4, <2>1 DEF OfEdit
<1>7. p.doc = Doc(LeftBy(x))
  <2>1. doc = Doc(x.post)
    <3>1. x.post = After(t, d)
      BY <1>1, <1>4
    <3> QED
      BY <3>1 DEF t
  <2>2. StampOp(Doc(x.post), x.targets, x.fwd) = Doc(LeftBy(x))
    BY <1>6, LeftIs
  <2> QED
    BY <1>4, <1>5, <2>1, <2>2
<1>8. IsEdit(Base(x, TRUE)) /\ To(x, TRUE) = t /\ From(x, TRUE) = LeftBy(x)
  BY <1>4, <1>6 DEF IsEdit, Base, To, From
<1>9. Chain(Push(h.undo, x), LeftBy(x), TRUE)
  <2>1. Chain(h.undo, t, TRUE)
    BY DEF Linked, t
  <2> QED
    BY <1>2, <1>8, <2>1, ChainPush
<1>10. p.doc.tree = LeftBy(x)
  BY <1>7, DocTree
<1>11. Linked(p)
  BY <1>5, <1>9, <1>10, NoChain DEF Linked
<1>12. Pictures(p.undo) = Linear!Push(Pictures(h.undo), Shown(h))
  <2>1. Shown(h) = Content(x.pre)
    BY <1>4 DEF Shown, t
  <2>2. Pictures(Push(h.undo, x)) = Linear!Push(Pictures(h.undo), Content(x.pre))
    BY <1>2, PicturesPush
  <2> QED
    BY <1>5, <2>1, <2>2
<1> QED
  BY <1>5, <1>11, <1>12

\* What a step of the rings is to the linear history.
LEMMA MovesLinear ==
  ASSUME tracked, tracked'
  PROVE  /\ MovesBack(h, h') => Linear!Undo
         /\ MovesOn(h, h') => Linear!Redo
         /\ (/\ Pictures(h'.undo) = Linear!Push(Pictures(h.undo), Shown(h))
             /\ Pictures(h'.redo) = <<>>) => Linear!Commit
         /\ (/\ Pictures(h'.undo) = Linear!Older(Linear!Push(Pictures(h.undo), Shown(h)))
             /\ Len(Pictures(h'.redo)) = 1
             /\ Shown(h') = Shown(h)) => Linear!CommitThenUndo
<1> DEFINE P == IF tracked THEN [i \in DOMAIN h.undo |-> Content(h.undo[i].pre)] ELSE <<>>
           F == IF tracked THEN [i \in DOMAIN h.redo |-> Content(h.redo[i].pre)] ELSE <<>>
           c == Content(h.doc.tree)
<1>1. P = Pictures(h.undo) /\ F = Pictures(h.redo) /\ c = Shown(h)
  BY DEF Pictures, Shown
<1>2. P' = Pictures(h'.undo) /\ F' = Pictures(h'.redo) /\ c' = Shown(h')
  BY DEF Pictures, Shown
<1>3. Linear!Undo <=> /\ P # <<>>
                      /\ c' = Linear!Newest(P) /\ P' = Linear!Older(P)
                      /\ F' = Linear!Push(F, c)
  BY DEF Linear!Undo
<1>4. Linear!Redo <=> /\ F # <<>>
                      /\ c' = Linear!Newest(F) /\ F' = Linear!Older(F)
                      /\ P' = Linear!Push(P, c)
  BY DEF Linear!Redo
<1>5. Linear!Commit <=> P' = Linear!Push(P, c) /\ F' = <<>>
  BY DEF Linear!Commit
<1>6. Linear!CommitThenUndo <=> /\ P' = Linear!Older(Linear!Push(P, c))
                                /\ Len(F') = 1 /\ c' = c
  BY DEF Linear!CommitThenUndo
<1> HIDE DEF P, F, c
<1> QED
  BY <1>1, <1>2, <1>3, <1>4, <1>5, <1>6 DEF MovesBack, MovesOn, Moves

\* A document that is not tracked has no history.
LEMMA UntrackedLoads ==
  ASSUME tracked' = FALSE
  PROVE  Linear!Load
BY DEF Linear!Load

\* So has one just loaded.
LEMMA EmptyLoads ==
  ASSUME h'.undo = <<>>, h'.redo = <<>>
  PROVE  Linear!Load
<1>1. Pictures(h'.undo) = <<>> /\ Pictures(h'.redo) = <<>>
  BY NoChain
<1> QED
  BY <1>1 DEF Linear!Load, Pictures

\* The rings and the document, while everything is tracked.
LinearInv == SoundInv /\ (tracked => Linked(h))

LinearStep == [Linear!Next]_Linear!vars

\* Nothing moved.
LEMMA SameLinear ==
  ASSUME LinearInv, UNCHANGED <<h, tracked>>
  PROVE  (tracked' => Linked(h')) /\ LinearStep
<1>1. UNCHANGED Linear!vars
  BY DEF Linear!vars
<1>2. LinearStep
  BY <1>1 DEF LinearStep
<1> QED
  BY <1>2 DEF LinearInv

\* While tracked the state is good, and the rings are sequences.
LEMMA TrackedGood ==
  ASSUME LinearInv, tracked
  PROVE  /\ ops \in Nat /\ Good(h, ops, tracked) /\ Linked(h) /\ GoodDoc(h.doc, 0..ops)
         /\ \E S : h.undo \in Seq(S)
<1>1. ops \in Nat /\ Good(h, ops, tracked) /\ Linked(h)
  BY DEF LinearInv, SoundInv
<1> QED
  BY <1>1 DEF Good

\* An undo or a redo of the whole document, or nothing.
LEMMA HistoryIsLinear ==
  ASSUME LinearInv, tracked, tracked', NEW isUndo \in BOOLEAN, h' = History(h, isUndo)
  PROVE  Linked(h') /\ LinearStep
<1> DEFINE ring == IF isUndo THEN h.undo ELSE h.redo
<1>1. ops \in Nat /\ Good(h, ops, tracked) /\ Linked(h)
  BY TrackedGood
<1>2. /\ Linked(h')
      /\ ring = <<>> => h' = h
      /\ ring # <<>> => IF isUndo THEN MovesBack(h, h') ELSE MovesOn(h, h')
  BY <1>1, HistoryLinear
<1>3. CASE ring = <<>>
  <2>1. UNCHANGED <<h, tracked>>
    BY <1>2, <1>3 DEF LinearInv, SoundInv
  <2> QED
    BY <1>2, <2>1, SameLinear
<1>4. CASE ring # <<>>
  <2>1. Linear!Undo \/ Linear!Redo
    BY <1>2, <1>4, MovesLinear
  <2> QED
    BY <1>2, <2>1 DEF LinearStep, Linear!Next
<1> QED
  BY <1>3, <1>4

\* A commit of one published edit, and whatever request was latched meanwhile.
LEMMA CommitIsLinear ==
  ASSUME LinearInv, tracked, tracked', NEW d \in Edit, d.last = 0,
         d.kind = "restore" => d.id \notin IdsOf(h.doc.tree), CommitEdit(d, TRUE)
  PROVE  Linked(h') /\ LinearStep
<1> DEFINE doc == Apply(h.doc, d).doc
           p == Committed(ops + 1, <<d>>, TRUE, doc)
<1>1. ops \in Nat /\ Good(h, ops, tracked) /\ Linked(h) /\ GoodDoc(h.doc, 0..ops)
      /\ \E S : h.undo \in Seq(S)
  BY TrackedGood
<1>2. Apply(h.doc, d).ok /\ h' = RunLatched(p)
  BY DEF CommitEdit, Accept, EndGesture
<1>3. /\ GoodDoc(doc, 0..ops) /\ OkOn(h.doc.tree, d)
      /\ doc = Doc(After(h.doc.tree, d))
  <2>1. 0 \in 0..ops
    BY <1>1
  <2> QED
    BY <1>1, <1>2, <2>1, ApplyGood
<1> HIDE DEF doc
<1>4. /\ Linked(p) /\ p.redo = <<>>
      /\ Pictures(p.undo) = Linear!Push(Pictures(h.undo), Shown(h))
  BY <1>1, <1>3, CommitLinks
<1>5. \E b : Good(p, ops + 1, b)
  <2> DEFINE parts == <<d>>
  <2>1. parts \in Seq(Edit) /\ Len(parts) = 1 /\ parts[1] = d /\ DOMAIN parts = {1}
    OBVIOUS
  <2>2. EditsIn(parts, {0}) /\ Len(parts) >= 1
    BY <2>1 DEF EditsIn
  <2> HIDE DEF parts
  <2>3. tracked \in BOOLEAN /\ TRUE \in BOOLEAN
    BY DEF LinearInv, SoundInv
  <2>4. Good(Committed(ops + 1, parts, TRUE, doc), ops + 1, tracked /\ TRUE)
    BY <1>1, <1>3, <2>1, <2>2, <2>3, CommittedGood
  <2> QED
    BY <2>4 DEF parts
<1> HIDE DEF p
<1>6. latch \in {"none", "undo", "redo"}
  BY DEF LinearInv, SoundInv
<1>7. CASE latch # "undo"
  <2>1. h' = p
    <3>1. History(p, FALSE) = p
      BY <1>4 DEF History
    <3> QED
      BY <1>2, <1>6, <1>7, <3>1 DEF RunLatched
  <2>2. Pictures(h'.redo) = <<>>
    BY <1>4, <2>1, NoChain
  <2>3. Linear!Commit
    BY <1>4, <2>1, <2>2, MovesLinear
  <2> QED
    BY <1>4, <2>1, <2>3 DEF LinearStep, Linear!Next
<1>8. CASE latch = "undo"
  <2>1. h' = History(p, TRUE)
    BY <1>2, <1>8 DEF RunLatched
  <2>2. p.undo # <<>>
    <3>1. p.undo = Push(h.undo, EntryOf(ops + 1, <<d>>, TRUE, doc))
      BY DEF p, Committed
    <3>2. \A e : Push(h.undo, e) # <<>>
      <4> TAKE e
      <4>1. PICK S : h.undo \in Seq(S)
        BY <1>1
      <4>2. h.undo \in Seq(S \cup {e}) /\ e \in S \cup {e}
        BY <4>1
      <4> QED
        BY <4>2, PushIs
    <3> QED
      BY <3>1, <3>2
  <2>3. PICK b : Good(p, ops + 1, b)
    BY <1>5
  <2>4. ops + 1 \in Nat
    BY <1>1
  <2>5. Linked(h') /\ MovesBack(p, h')
    <3> DEFINE ring == p.undo
               u == TRUE
    <3>1. u \in BOOLEAN /\ ring = (IF u THEN p.undo ELSE p.redo) /\ ring # <<>>
      BY <2>2
    <3> HIDE DEF ring, u
    <3>2. Linked(History(p, u))
          /\ IF u THEN MovesBack(p, History(p, u)) ELSE MovesOn(p, History(p, u))
      BY <1>4, <2>3, <2>4, <3>1, HistoryLinear
    <3> QED
      BY <2>1, <3>2 DEF u
  <2> DEFINE past == Pictures(h.undo)
             c == Shown(h)
             pushed == Linear!Push(past, c)
  <2>6. /\ Shown(h') = Linear!Newest(pushed) /\ Pictures(h'.undo) = Linear!Older(pushed)
        /\ Pictures(h'.redo) = Linear!Push(<<>>, Shown(p))
    <3>1. Pictures(<<>>) = <<>>
      BY NoChain
    <3> QED
      BY <1>4, <2>5, <3>1 DEF MovesBack, Moves
  <2>7. Linear!Newest(pushed) = c
    <3>1. PICK Q : past \in Seq(Q)
      BY <1>1, PicturesAre
    <3> HIDE DEF past, c
    <3> DEFINE l == IF Len(past) = Depth THEN Tail(past) ELSE past
    <3>2. pushed = Append(l, c)
      BY DEF Linear!Push
    <3>3. l \in Seq(Q)
      <4>1. CASE Len(past) = Depth
        <5>1. past # <<>>
          BY <4>1, DepthAssumption
        <5> QED
          BY <3>1, <4>1, <5>1
      <4> QED
        BY <3>1, <4>1
    <3> HIDE DEF l
    <3>4. Append(l, c)[Len(Append(l, c))] = c
      <4> DEFINE U == Q \cup {c}
      <4>1. l \in Seq(U) /\ c \in U
        BY <3>3
      <4> HIDE DEF U
      <4> QED
        BY <4>1
    <3> QED
      BY <3>2, <3>4 DEF Linear!Newest
  <2>8. Len(Pictures(h'.redo)) = 1
    <3> DEFINE x == Shown(p)
    <3>1. Linear!Push(<<>>, x) = <<x>>
      <4>1. Len(<<>>) # Depth
        BY DepthAssumption
      <4> QED
        BY <4>1 DEF Linear!Push
    <3> HIDE DEF x
    <3>2. Len(<<x>>) = 1
      OBVIOUS
    <3> QED
      BY <2>6, <3>1, <3>2 DEF x
  <2>9. Linear!CommitThenUndo
    BY <2>6, <2>7, <2>8, MovesLinear
  <2> QED
    BY <2>5, <2>9 DEF LinearStep, Linear!Next
<1> QED
  BY <1>7, <1>8

\* A refused edit leaves the rings as they were, unless the undo ring is full.
LEMMA RejectIsLinear ==
  ASSUME LinearInv, tracked, tracked', NEW e, h' = [h EXCEPT !.undo = RejectedRing(@, e)],
         tracked' = (tracked /\ Len(h.undo) < Depth)
  PROVE  Linked(h') /\ LinearStep
<1> DEFINE r == h.undo
           x == EntryOf(ops + 1, <<e>>, TRUE, h.doc)
<1>1. Good(h, ops, tracked) /\ Linked(h)
  BY TrackedGood
<1>2. PICK S : r \in Seq(S)
  BY <1>1, TrackedGood
<1>3. RejectedRing(r, e) = Front(Append(r, x))
  <2>1. Len(r) # Depth
    <3>1. Len(r) < Depth
      OBVIOUS
    <3> DEFINE n == Len(r)
    <3>2. n \in Nat /\ n < Depth
      BY <1>2, <3>1
    <3> HIDE DEF n
    <3>3. n # Depth
      BY <3>2, DepthAssumption
    <3> QED
      BY <3>3 DEF n
  <2> QED
    BY <2>1 DEF RejectedRing, Push, MakeRoom
<1> HIDE DEF x
<1>4. Front(Append(r, x)) = r
  <2> DEFINE T == S \cup {x}
             n == Len(r)
             p == Append(r, x)
             f == Front(p)
  <2>1. r \in Seq(T) /\ x \in T
    BY <1>2
  <2>2. p \in Seq(T) /\ p # <<>> /\ Len(p) = n + 1 /\ n \in Nat /\ \A i \in 1..n : p[i] = r[i]
    BY <2>1
  <2> HIDE DEF T, n, p, r
  <2>3. f \in Seq(T) /\ Len(f) = Len(p) - 1 /\ \A i \in 1..(Len(p) - 1) : f[i] = p[i]
    BY <2>2, FrontIs
  <2> HIDE DEF f
  <2>4. Len(f) = n /\ \A i \in 1..n : f[i] = r[i]
    BY <2>2, <2>3
  <2>5. f = r
    BY <2>1, <2>3, <2>4 DEF n
  <2> QED
    BY <2>5 DEF f, p
<1>5. h' = h
  <2>1. h = [doc |-> h.doc, undo |-> h.undo, redo |-> h.redo, mirror |-> h.mirror]
    BY <1>1 DEF Good
  <2>2. h' = [h EXCEPT !.undo = r]
    BY <1>3, <1>4
  <2> QED
    BY <2>1, <2>2
<1>6. tracked = tracked'
  BY DEF LinearInv, SoundInv
<1>7. (tracked' => Linked(h')) /\ LinearStep
  BY <1>5, <1>6, SameLinear
<1> QED
  BY <1>7

\* A load starts an empty history.
LEMMA LoadIsLinear ==
  ASSUME NEW tree \in LoadTrees, AcceptLoad(tree)
  PROVE  Linked(h') /\ LinearStep
<1>1. h'.undo = <<>> /\ h'.redo = <<>>
  BY DEF AcceptLoad
<1>2. Linked(h')
  BY <1>1, NoChain DEF Linked
<1>3. Linear!Load
  BY <1>1, EmptyLoads
<1> QED
  BY <1>2, <1>3 DEF LinearStep, Linear!Next

\* Every gesture is one edit.
SingleEdits == \A shape \in Shapes : Len(shape) = 1

\* Every end of a gesture of one edit that stays tracked.
LEMMA CommitsAreLinear ==
  ASSUME SingleEdits, LinearInv, tracked, tracked', Commits
  PROVE  Linked(h') /\ LinearStep
<1>1. PICK shape \in Shapes : \E p \in Parts(shape) :
        \/ \E enqueue \in {TRUE} \cup (IF ops < MaxLoose THEN {FALSE} ELSE {}) :
              \/ Len(p) = 1 /\ CommitEdit(p[1], enqueue)
              \/ Len(p) > 1 /\ CommitGesture(p, enqueue)
        \/ Len(p) = 1 /\ RejectEdit(p[1])
        \/ Len(p) = 1 /\ RejectDuplicate(p[1])
        \/ Len(p) > 1 /\ RejectParts(p)
        \/ Len(p) = 1 /\ ApplyOutside(p[1])
  BY DEF Commits
<1>2. PICK parts \in Parts(shape) :
        \/ \E enqueue \in {TRUE} \cup (IF ops < MaxLoose THEN {FALSE} ELSE {}) :
              \/ Len(parts) = 1 /\ CommitEdit(parts[1], enqueue)
              \/ Len(parts) > 1 /\ CommitGesture(parts, enqueue)
        \/ Len(parts) = 1 /\ RejectEdit(parts[1])
        \/ Len(parts) = 1 /\ RejectDuplicate(parts[1])
        \/ Len(parts) > 1 /\ RejectParts(parts)
        \/ Len(parts) = 1 /\ ApplyOutside(parts[1])
  BY <1>1
<1>3. /\ EditsIn(parts, {0})
      /\ \A i \in DOMAIN parts :
            parts[i].kind = "restore" => parts[i].id \notin IdsOf(h.doc.tree)
  BY PartsAre
<1>4. Len(parts) = 1 /\ 1 \in DOMAIN parts
  <2>1. Len(shape) = 1 /\ shape \in Seq({"create", "paste", "remove", "set"})
    BY ShapesAssumption DEF SingleEdits
  <2>2. DOMAIN parts = DOMAIN shape
    BY DEF Parts
  <2>3. DOMAIN parts = 1..1 /\ parts \in Seq(Edit)
    BY <1>3, <2>1, <2>2 DEF EditsIn
  <2> QED
    BY <2>3
<1>5. /\ parts[1] \in Edit /\ parts[1].last = 0
      /\ parts[1].kind = "restore" => parts[1].id \notin IdsOf(h.doc.tree)
  <2>1. 1 \in DOMAIN parts
    BY <1>4
  <2> QED
    BY <1>3, <2>1 DEF EditsIn
<1>6. ASSUME NEW enqueue \in BOOLEAN, CommitEdit(parts[1], enqueue)
      PROVE  Linked(h') /\ LinearStep
  <2>1. enqueue = TRUE
    BY <1>6 DEF CommitEdit, Accept
  <2>2. CommitEdit(parts[1], TRUE)
    BY <1>6, <2>1
  <2> QED
    BY <1>5, <2>2, CommitIsLinear
<1>7. CASE RejectEdit(parts[1]) \/ RejectDuplicate(parts[1])
  BY <1>7, RejectIsLinear DEF RejectEdit, RejectDuplicate
<1>8. ~ApplyOutside(parts[1])
  BY DEF ApplyOutside
<1>9. ~(Len(parts) > 1)
  BY <1>4
<1> QED
  BY <1>2, <1>6, <1>7, <1>8, <1>9

\* The rings start as an empty history.
LEMMA InitLinear ==
  Init => /\ LinearInv
          /\ (IF tracked THEN Pictures(h.undo) ELSE <<>>) = <<>>
          /\ (IF tracked THEN Pictures(h.redo) ELSE <<>>) = <<>>
<1> SUFFICES ASSUME Init
             PROVE  /\ LinearInv
                    /\ (IF tracked THEN Pictures(h.undo) ELSE <<>>) = <<>>
                    /\ (IF tracked THEN Pictures(h.redo) ELSE <<>>) = <<>>
  OBVIOUS
<1>1. h.undo = <<>> /\ h.redo = <<>>
  BY DEF Init
<1>2. Linked(h) /\ Pictures(<<>>) = <<>>
  BY <1>1, NoChain DEF Linked
<1> QED
  BY <1>1, <1>2, InitSound DEF LinearInv

\* Every step keeps the rings linked and is one of the linear history.
LEMMA NextLinear ==
  ASSUME SingleEdits
  PROVE  LinearInv /\ [Next]_vars => LinearInv' /\ LinearStep
<1> SUFFICES ASSUME LinearInv, [Next]_vars PROVE LinearInv' /\ LinearStep
  OBVIOUS
<1>1. SoundInv'
  BY NextSound DEF LinearInv
<1>2. tracked \in BOOLEAN /\ tracked' \in BOOLEAN
  BY <1>1 DEF LinearInv, SoundInv
<1>3. CASE ~tracked'
  <2>1. tracked' = FALSE
    BY <1>2, <1>3
  <2>2. Linear!Load
    BY <2>1, UntrackedLoads
  <2> QED
    BY <1>1, <1>3, <2>2 DEF LinearInv, LinearStep, Linear!Next
<1>4. CASE tracked'
  <2> SUFFICES Linked(h') /\ LinearStep
    BY <1>1 DEF LinearInv
  <2>1. ASSUME NEW tree \in LoadTrees, AcceptLoad(tree) PROVE Linked(h') /\ LinearStep
    BY <2>1, LoadIsLinear
  <2>2. CASE tracked
    <3>1. CASE Commits
      BY <1>4, <2>2, <3>1, CommitsAreLinear
    <3>2. ASSUME UNCHANGED h PROVE Linked(h') /\ LinearStep
      <4>1. UNCHANGED <<h, tracked>>
        BY <1>2, <1>4, <2>2, <3>2
      <4> QED
        BY <1>4, <4>1, SameLinear
    <3>3. CASE AskUndo \/ AskRedo
      <4>1. UNCHANGED h \/ \E isUndo \in BOOLEAN : h' = History(h, isUndo)
        BY <3>3 DEF AskUndo, AskRedo
      <4> QED
        BY <1>4, <2>2, <3>2, <4>1, HistoryIsLinear
    <3>4. CASE AbortGesture
      <4>1. UNCHANGED h \/ \E isUndo \in BOOLEAN : h' = History(h, isUndo)
        BY <3>4 DEF AbortGesture, EndGesture, RunLatched
      <4> QED
        BY <1>4, <2>2, <3>2, <4>1, HistoryIsLinear
    <3>5. CASE BeginGesture \/ UNCHANGED vars
      BY <3>2, <3>5 DEF BeginGesture, vars
    <3> QED
      BY <2>1, <3>1, <3>3, <3>4, <3>5 DEF Next
  <2>3. CASE ~tracked
    <3>1. CASE Commits
      <4>1. tracked' => tracked
        BY <3>1 DEF Commits, CommitEdit, CommitGesture, Accept, RejectEdit, RejectDuplicate,
                    RejectParts, ApplyOutside
      <4> QED
        BY <1>4, <2>3, <4>1
    <3>2. CASE AskUndo \/ AskRedo \/ BeginGesture \/ AbortGesture \/ UNCHANGED vars
      <4>1. tracked' = tracked
        BY <3>2 DEF AskUndo, AskRedo, BeginGesture, AbortGesture, vars, ghosts
      <4> QED
        BY <1>4, <2>3, <4>1
    <3> QED
      BY <2>1, <3>1, <3>2 DEF Next
  <2> QED
    BY <2>2, <2>3
<1> QED
  BY <1>3, <1>4

(***************************************************************************)
(* Gestures of one edit implement the linear history of whole documents:   *)
(* every undo shows exactly the document before its commit, every redo the *)
(* one after it, at any depth of the rings and over every interleaving     *)
(* with commits, latched requests, refusals and loads                      *)
(* (applyHistoryEntry, UndoStack).                                         *)
(***************************************************************************)
THEOREM SingleEditsAreLinear ==
  ASSUME \A shape \in Shapes : Len(shape) = 1
  PROVE  Spec => LinearSpec
<1>1. Init => LinearInv
  BY InitLinear
<1>3. Init => /\ (IF tracked THEN [i \in DOMAIN h.undo |-> Content(h.undo[i].pre)] ELSE <<>>) = <<>>
              /\ (IF tracked THEN [i \in DOMAIN h.redo |-> Content(h.redo[i].pre)] ELSE <<>>) = <<>>
  BY InitLinear DEF Pictures
<1>2. LinearInv /\ [Next]_vars => LinearInv' /\ LinearStep
  BY NextLinear DEF SingleEdits
<1> QED
  BY <1>1, <1>2, <1>3, PTL DEF Spec, LinearSpec, Linear!Spec, LinearStep
=============================================================================
