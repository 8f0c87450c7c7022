-------------------------- MODULE NodeStoreProofs --------------------------
(***************************************************************************)
(* Proofs about the node store, for any number of slots, generations,      *)
(* chunks and nodes.                                                       *)
(*                                                                         *)
(* The invariant has five parts.  Types: the ranges.  Slots: every slot is *)
(* in one place.  Handles: a handle that was issued names this occupancy   *)
(* of its slot or an older one, and child lists hold only such handles.    *)
(* Tree: no node contains itself.  Frames: the frames of a running retire  *)
(* are live nodes, each a child of the one before, and the links behind a  *)
(* frame's position no longer resolve.                                     *)
(***************************************************************************)
EXTENDS NodeStore, TLAPS

HandleRec == [slot : SlotNo, gen : 0..MaxGen]
LinkRec == [node : HandleRec, orderKey : Nat]
FrameRec == [slot : SlotNo, next : Nat \ {0}]

Types ==
    /\ gen \in [SlotNo -> 0..MaxGen]
    /\ state \in [SlotNo -> {"Free", "Live", "Retired"}]
    /\ nodeId \in [SlotNo -> NodeIds \union {"none"}]
    /\ children \in [SlotNo -> Seq(LinkRec)]
    /\ payload \in [SlotNo -> NodeTypes \union {"none"}]
    /\ nextUnused \in 0..MaxSlots
    /\ freeList \in Seq(SlotNo) /\ retired \in Seq(SlotNo)
    /\ chunkCount \in Nat \ {0} /\ chunkCapacity \in Nat
    /\ DOMAIN ids = NodeIds
    /\ walk \in Seq(FrameRec)
    /\ issued \subseteq HandleRec

Past(h) ==
    /\ h.slot < nextUnused /\ h.gen <= gen[h.slot]
    /\ h.gen = gen[h.slot] => ~InFreeList(h.slot)

Handles ==
    /\ \A h \in issued : Past(h)
    /\ \A s \in SlotNo : \A i \in DOMAIN children[s] : children[s][i].node \in issued
    /\ \A n \in NodeIds : ids[n] = NoParent \/ ids[n] \in issued

IsTree(E) == \A e \in E : e[1] \notin Under(E, e[2])
Tree == IsTree(Edges)

Frames ==
    /\ \A k \in DOMAIN walk :
          /\ state[walk[k].slot] = "Live"
          /\ walk[k].next <= Len(children[walk[k].slot]) + 1
    /\ \A k \in DOMAIN walk : k + 1 \in DOMAIN walk =>
          /\ walk[k].next > 1
          /\ children[walk[k].slot][walk[k].next - 1].node = HandleOf(walk[k + 1].slot)
    /\ \A j, k \in DOMAIN walk : j <= k => walk[k].slot \in Under(Edges, walk[j].slot)
    /\ \A k \in DOMAIN walk : \A i \in 1..(walk[k].next - 1) :
          \/ ~Enters(children[walk[k].slot][i].node)
          \/ k + 1 \in DOMAIN walk /\ i = walk[k].next - 1

Inv == Types /\ SlotsAccounted /\ Handles /\ Tree /\ Frames /\ SubtreeGone /\ IdsTrue

-----------------------------------------------------------------------------
(* What can be reached along a set of edges *)

LEMMA UnderSelf ==
  ASSUME NEW E, NEW s \in SlotNo
  PROVE  s \in Under(E, s)
  BY DEF Under

LEMMA UnderStep ==
  ASSUME NEW E \in SUBSET (SlotNo \X SlotNo), NEW s, NEW e \in E, e[1] \in Under(E, s)
  PROVE  e[2] \in Under(E, s)
<1>1. e[2] \in SlotNo
  OBVIOUS
<1> QED
  BY <1>1 DEF Under, Closed

LEMMA UnderLeast ==
  ASSUME NEW E, NEW s, NEW S \in SUBSET SlotNo, s \in S, Closed(E, S)
  PROVE  Under(E, s) \subseteq S
  BY DEF Under

LEMMA UnderTransitive ==
  ASSUME NEW E \in SUBSET (SlotNo \X SlotNo), NEW s, NEW t \in Under(E, s)
  PROVE  Under(E, t) \subseteq Under(E, s)
<1>1. Closed(E, Under(E, s))
  BY UnderStep DEF Closed
<1>2. Under(E, s) \in SUBSET SlotNo
  BY DEF Under
<1> QED
  BY <1>1, <1>2, UnderLeast

LEMMA UnderMonotone ==
  ASSUME NEW E, NEW F \in SUBSET E, NEW s
  PROVE  Under(F, s) \subseteq Under(E, s)
  BY DEF Under, Closed

LEMMA TreeShrinks ==
  ASSUME NEW E, NEW F \in SUBSET E, IsTree(E)
  PROVE  IsTree(F)
  BY UnderMonotone DEF IsTree

\* One more edge makes no cycle unless its head could reach its tail.
LEMMA TreeGrows ==
  ASSUME NEW E \in SUBSET (SlotNo \X SlotNo), IsTree(E),
         NEW p \in SlotNo, NEW h \in SlotNo, p \notin Under(E, h),
         NEW F \in SUBSET (E \union {<<p, h>>})
  PROVE  IsTree(F)
<1> SUFFICES ASSUME NEW e \in F PROVE e[1] \notin Under(F, e[2])
  BY DEF IsTree
<1> DEFINE A == Under(E, e[2])
           H == Under(E, h)
           U == IF p \in A THEN A \union H ELSE A
<1>1. e \in SlotNo \X SlotNo /\ e[1] \in SlotNo /\ e[2] \in SlotNo
  OBVIOUS
<1>2. e[2] \in A /\ h \in H /\ U \in SUBSET SlotNo /\ e[2] \in U
  BY <1>1, UnderSelf DEF Under
<1>3. Closed(F, U)
  <2> SUFFICES ASSUME NEW f \in F, f[1] \in U PROVE f[2] \in U
    BY DEF Closed
  <2>1. CASE f \in E
    <3>1. (f[1] \in A => f[2] \in A) /\ (f[1] \in H => f[2] \in H)
      BY <2>1, UnderStep
    <3> QED
      BY <3>1
  <2>2. CASE f = <<p, h>>
    BY <1>2, <2>2
  <2> QED
    BY <2>1, <2>2
<1>4. Under(F, e[2]) \subseteq U
  BY <1>2, <1>3, UnderLeast
<1>5. e[1] \notin U
  <2>1. CASE e \in E
    <3>1. e[1] \notin A
      BY <2>1 DEF IsTree
    <3>2. ASSUME e[1] \in H, p \in A PROVE FALSE
      <4>1. e[2] \in H
        BY <2>1, <3>2, UnderStep
      <4>2. A \subseteq H
        BY <4>1, UnderTransitive
      <4> QED
        BY <3>2, <4>2
    <3> QED
      BY <3>1, <3>2
  <2>2. CASE e = <<p, h>>
    BY <2>2
  <2> QED
    BY <2>1, <2>2
<1> QED
  BY <1>4, <1>5

\* When a node nothing hangs below goes, what was reached otherwise still is.
LEMMA UnderWithoutLeaf ==
  ASSUME NEW E \in SUBSET (SlotNo \X SlotNo), NEW F, NEW x \in SlotNo,
         \A e \in E : e \in F \/ e[2] = x,
         \A e \in E : e[1] # x,
         NEW s \in SlotNo, NEW t \in Under(E, s), t # x
  PROVE  t \in Under(F, s)
<1>1. t \in SlotNo
  BY DEF Under
<1> SUFFICES ASSUME NEW S \in SUBSET SlotNo, s \in S, Closed(F, S) PROVE t \in S
  BY <1>1 DEF Under
<1>2. Closed(E, S \union {x})
  BY DEF Closed
<1>3. S \union {x} \in SUBSET SlotNo /\ s \in S \union {x}
  OBVIOUS
<1>4. Under(E, s) \subseteq S \union {x}
  BY <1>2, <1>3, UnderLeast
<1> QED
  BY <1>4

-----------------------------------------------------------------------------
(* retire *)

LEMMA LinksTyped ==
  ASSUME Types, NEW s \in SlotNo
  PROVE  /\ children[s] \in Seq(LinkRec) /\ Len(children[s]) \in Nat
         /\ DOMAIN children[s] = 1..Len(children[s])
         /\ \A i \in DOMAIN children[s] :
               /\ children[s][i] \in LinkRec /\ children[s][i].node \in HandleRec
               /\ children[s][i].orderKey \in Nat
<1>1. children[s] \in Seq(LinkRec)
  BY DEF Types
<1>2. \A i \in DOMAIN children[s] : children[s][i] \in LinkRec
  BY <1>1
<1> QED
  BY <1>1, <1>2 DEF LinkRec

LEMMA FramesTyped ==
  ASSUME Types
  PROVE  /\ walk \in Seq(FrameRec) /\ Len(walk) \in Nat /\ DOMAIN walk = 1..Len(walk)
         /\ \A k \in DOMAIN walk : /\ walk[k] \in FrameRec
                                  /\ walk[k].slot \in SlotNo /\ walk[k].next \in Nat \ {0}
<1>1. walk \in Seq(FrameRec)
  BY DEF Types
<1>2. \A k \in DOMAIN walk : walk[k] \in FrameRec
  BY <1>1
<1> QED
  BY <1>1, <1>2 DEF FrameRec

LEMMA EdgesInTable == Edges \in SUBSET (SlotNo \X SlotNo)
  BY DEF Edges

LEMMA EdgeOfLink ==
  ASSUME Types, NEW s \in SlotNo, NEW i \in DOMAIN children[s],
         Enters(children[s][i].node)
  PROVE  <<s, children[s][i].node.slot>> \in Edges
<1> DEFINE h == children[s][i].node
<1>1. h \in HandleRec
  BY LinksTyped
<1>2. h = HandleOf(h.slot) /\ state[h.slot] = "Live" /\ h.slot \in SlotNo
  BY <1>1 DEF HandleOf, Enters, HandleRec
<1> QED
  BY <1>2 DEF Edges

\* The frames of one call are different nodes.
LEMMA FramesDiffer ==
  ASSUME Types, Tree, Frames, NEW j \in DOMAIN walk, NEW k \in DOMAIN walk, j < k
  PROVE  walk[j].slot # walk[k].slot
<1>1. j + 1 \in DOMAIN walk /\ j + 1 <= k
  BY FramesTyped
<1>2. walk[j].slot \in SlotNo /\ walk[j + 1].slot \in SlotNo
  BY <1>1, FramesTyped
<1>3. <<walk[j].slot, walk[j + 1].slot>> \in Edges
  <2>1. walk[j].next - 1 \in DOMAIN children[walk[j].slot]
    <3>1. walk[j].next > 1 /\ walk[j].next <= Len(children[walk[j].slot]) + 1
      BY <1>1 DEF Frames
    <3>2. /\ walk[j].next \in Nat /\ Len(children[walk[j].slot]) \in Nat
          /\ DOMAIN children[walk[j].slot] = 1..Len(children[walk[j].slot])
      BY <1>2, FramesTyped, LinksTyped
    <3> QED
      BY <3>1, <3>2
  <2>2. /\ children[walk[j].slot][walk[j].next - 1].node = HandleOf(walk[j + 1].slot)
        /\ state[walk[j + 1].slot] = "Live"
    BY <1>1 DEF Frames
  <2> QED
    BY <1>2, <2>1, <2>2 DEF Edges
<1>4. walk[j].slot \notin Under(Edges, walk[j + 1].slot)
  BY <1>3 DEF Tree, IsTree
<1>5. walk[k].slot \in Under(Edges, walk[j + 1].slot)
  BY <1>1 DEF Frames
<1> QED
  BY <1>4, <1>5

LEMMA VisitChildOK ==
  ASSUME Inv, VisitChild
  PROVE  Inv'
<1> DEFINE k == Len(walk)
           s == walk[k].slot
           n == walk[k].next
           h == children[s][n].node
           f == [slot |-> s, next |-> n + 1]
           after == [walk EXCEPT ![k] = f]
<1>0. Types /\ walk # <<>> /\ n <= Len(children[s])
  BY DEF Inv, VisitChild
<1>1. walk \in Seq(FrameRec) /\ k \in Nat /\ k \in DOMAIN walk
  BY <1>0, FramesTyped
<1>2. s \in SlotNo /\ n \in Nat \ {0} /\ f \in FrameRec
  BY <1>0, <1>1, FramesTyped DEF FrameRec
<1>3. n \in DOMAIN children[s] /\ children[s] \in Seq(LinkRec) /\ n <= Len(children[s])
      /\ Len(children[s]) \in Nat
  BY <1>0, <1>2, LinksTyped
<1>4. h \in HandleRec /\ h.slot \in SlotNo /\ h.gen \in 0..MaxGen
  BY <1>0, <1>2, <1>3, LinksTyped DEF HandleRec
<1>5. walk' = IF Enters(h) THEN Append(after, Frame(h.slot)) ELSE after
  BY DEF VisitChild
<1>6. UNCHANGED <<gen, state, nodeId, parent, children, payload, tableVars, retired, ids, issued>>
  BY DEF VisitChild
<1>7. /\ after \in Seq(FrameRec) /\ Len(after) = k /\ after[k] = f
      /\ \A i \in 1..k : i # k => after[i] = walk[i]
  BY <1>1, <1>2
<1> HIDE DEF after
<1>8. walk' \in Seq(FrameRec)
  <2>1. Frame(h.slot) \in FrameRec
    BY SMTT(60), <1>4 DEF Frame, FrameRec
  <2> QED
    BY SMTT(60), <1>5, <1>7, <2>1
<1>9. Types' /\ SlotsAccounted' /\ Handles' /\ SubtreeGone' /\ IdsTrue' /\ Edges' = Edges
  <2>1. Types'
    BY <1>6, <1>8 DEF Inv, Types, tableVars
  <2>2. SlotsAccounted'
    BY <1>6 DEF Inv, SlotsAccounted, tableVars, Distinct, InFreeList, InRetired
  <2>3. Handles'
    BY <1>6 DEF Inv, Handles, Past, tableVars, InFreeList
  <2>4. SubtreeGone' /\ IdsTrue'
    BY <1>6 DEF Inv, SubtreeGone, IdsTrue, Resolves, HandleOf, tableVars
  <2>5. Edges' = Edges
    BY <1>6 DEF Edges, HandleOf
  <2> QED
    BY <2>1, <2>2, <2>3, <2>4, <2>5
<1>10. Tree'
  BY <1>9 DEF Inv, Tree
<1>a. Len(walk') \in {k, k + 1} /\ \A i \in 1..k : walk'[i] = after[i]
  BY <1>5, <1>7, <1>1
<1>b. \A i \in 1..k : walk'[i].slot = walk[i].slot
  BY <1>7, <1>a
<1>11. ASSUME Enters(h)
       PROVE  /\ Len(walk') = k + 1 /\ walk'[k + 1] = Frame(h.slot)
              /\ h = HandleOf(h.slot) /\ <<s, h.slot>> \in Edges
  <2>1. Len(walk') = k + 1 /\ walk'[k + 1] = Frame(h.slot)
    BY SMTT(60), <1>5, <1>7, <1>11
  <2>2. h = HandleOf(h.slot)
    BY <1>4, <1>11 DEF Enters, HandleOf, HandleRec
  <2>3. <<s, h.slot>> \in Edges
    BY <1>0, <1>2, <1>3, <1>11, EdgeOfLink
  <2> QED
    BY <2>1, <2>2, <2>3
<1>12. Enters(h) => walk'[k + 1].slot = h.slot /\ walk'[k + 1].next = 1
  <2>1. Frame(h.slot).slot = h.slot /\ Frame(h.slot).next = 1
    BY DEF Frame
  <2> QED
    BY <1>11, <2>1
<1>13. Frames'
  <2>1. \A j \in DOMAIN walk' :
          /\ state[walk'[j].slot] = "Live"
          /\ walk'[j].next <= Len(children[walk'[j].slot]) + 1
    <3> SUFFICES ASSUME NEW j \in DOMAIN walk'
                 PROVE  /\ state[walk'[j].slot] = "Live"
                        /\ walk'[j].next <= Len(children[walk'[j].slot]) + 1
      OBVIOUS
    <3>1. CASE j \in 1..k /\ j # k
      BY <1>1, <1>7, <1>a, <3>1 DEF Inv, Frames
    <3>2. CASE j = k
      BY <1>1, <1>2, <1>3, <1>7, <1>a, <3>2 DEF Inv, Frames
    <3>3. CASE j \notin 1..k
      <4>1. Enters(h) /\ j = k + 1
        BY <1>1, <1>5, <1>7, <1>8, <3>3
      <4>2. Len(children[h.slot]) \in Nat
        BY <1>0, <1>4, LinksTyped
      <4>3. walk'[j].slot = h.slot /\ walk'[j].next = 1
        BY <1>12, <4>1
      <4>4. state[h.slot] = "Live"
        BY <4>1 DEF Enters
      <4>a. \A m \in Nat : 1 <= m + 1
        OBVIOUS
      <4>5. 1 <= Len(children[h.slot]) + 1
        BY ONLY <4>2, <4>a
      <4> QED
        BY <4>3, <4>4, <4>5
    <3> QED
      BY <3>1, <3>2, <3>3
  <2>2. \A j \in DOMAIN walk' : j + 1 \in DOMAIN walk' =>
          /\ walk'[j].next > 1
          /\ children[walk'[j].slot][walk'[j].next - 1].node = HandleOf(walk'[j + 1].slot)
    <3> SUFFICES ASSUME NEW j \in DOMAIN walk', j + 1 \in DOMAIN walk'
                 PROVE  /\ walk'[j].next > 1
                        /\ children[walk'[j].slot][walk'[j].next - 1].node
                             = HandleOf(walk'[j + 1].slot)
      OBVIOUS
    <3>1. CASE j < k
      <4>1. j \in DOMAIN walk /\ j + 1 \in DOMAIN walk /\ j \in 1..k /\ j + 1 \in 1..k /\ j # k
        BY <1>1, <1>8, <3>1
      <4>2. walk'[j] = walk[j] /\ walk'[j + 1].slot = walk[j + 1].slot
        BY <1>7, <1>a, <1>b, <4>1
      <4> QED
        BY <4>1, <4>2 DEF Inv, Frames
    <3>2. CASE j >= k
      <4>1. j = k /\ Enters(h) /\ walk'[k] = f
        <5>1. j \in 1..Len(walk') /\ j + 1 \in 1..Len(walk')
          BY <1>8
        <5>2. j = k /\ Len(walk') = k + 1
          BY <1>1, <1>a, <3>2, <5>1
        <5> QED
          BY SMTT(60), <1>1, <1>5, <1>7, <1>a, <5>2
      <4>2. walk'[j].slot = s /\ walk'[j].next - 1 = n /\ walk'[j].next > 1
        BY <1>2, <4>1
      <4>3. walk'[j + 1].slot = h.slot /\ h = HandleOf(h.slot)
        BY <1>11, <1>12, <4>1
      <4> QED
        BY <4>2, <4>3
    <3> QED
      BY <1>1, <1>8, <3>1, <3>2
  <2>3. \A i, j \in DOMAIN walk' : i <= j => walk'[j].slot \in Under(Edges, walk'[i].slot)
    <3> SUFFICES ASSUME NEW i \in DOMAIN walk', NEW j \in DOMAIN walk', i <= j
                 PROVE  walk'[j].slot \in Under(Edges, walk'[i].slot)
      OBVIOUS
    <3>1. CASE j \in 1..k
      <4>1. i \in 1..k /\ i \in DOMAIN walk /\ j \in DOMAIN walk
        BY <1>1, <1>8, <3>1
      <4> QED
        BY <1>b, <3>1, <4>1 DEF Inv, Frames
    <3>2. CASE j \notin 1..k
      <4>1. Enters(h) /\ j = k + 1 /\ walk'[j].slot = h.slot
        BY SMTT(60), <1>1, <1>5, <1>7, <1>8, <1>11, <3>2 DEF Frame
      <4>2. CASE i \in 1..k
        <5>1. i \in DOMAIN walk /\ i <= k /\ walk'[i].slot = walk[i].slot
          BY <1>1, <1>b, <4>2
        <5>2. s \in Under(Edges, walk[i].slot)
          BY <1>1, <5>1 DEF Inv, Frames
        <5> QED
          BY <1>11, <4>1, <5>1, <5>2, UnderStep, EdgesInTable
      <4>3. CASE i \notin 1..k
        <5>1. i = j
          BY <1>1, <1>8, <4>1, <4>3
        <5> QED
          BY <1>4, <4>1, <5>1, UnderSelf
      <4> QED
        BY <4>2, <4>3
    <3> QED
      BY <3>1, <3>2
  <2>4. \A j \in DOMAIN walk' : \A i \in 1..(walk'[j].next - 1) :
          \/ ~Enters(children[walk'[j].slot][i].node)
          \/ j + 1 \in DOMAIN walk' /\ i = walk'[j].next - 1
    <3> SUFFICES ASSUME NEW j \in DOMAIN walk', NEW i \in 1..(walk'[j].next - 1)
                 PROVE  \/ ~Enters(children[walk'[j].slot][i].node)
                        \/ j + 1 \in DOMAIN walk' /\ i = walk'[j].next - 1
      OBVIOUS
    <3>1. CASE j \in 1..k /\ j # k
      <4>1. j \in DOMAIN walk /\ j + 1 \in DOMAIN walk' /\ walk'[j] = walk[j]
        BY <1>1, <1>7, <1>8, <1>a, <3>1
      <4> QED
        BY <4>1 DEF Inv, Frames
    <3>2. CASE j = k
      <4>1. walk'[j] = f /\ i \in 1..n
        BY <1>1, <1>2, <1>7, <1>a, <3>2
      <4>2. CASE i = n
        BY SMTT(60), <1>2, <1>8, <1>11, <3>2, <4>1, <4>2
      <4>3. CASE i # n
        <5>1. i \in 1..(walk[k].next - 1) /\ k + 1 \notin DOMAIN walk
          BY <1>1, <1>2, <4>1, <4>3
        <5> QED
          BY <1>1, <4>1, <5>1 DEF Inv, Frames
      <4> QED
        BY <4>2, <4>3
    <3>3. CASE j \notin 1..k
      <4>1. Enters(h) /\ j = k + 1
        BY SMTT(60), <1>1, <1>5, <1>7, <1>8, <3>3
      <4>2. walk'[j].next = 1
        BY <1>12, <4>1
      <4> QED
        BY <4>2
    <3> QED
      BY <3>1, <3>2, <3>3
  <2>5. /\ \A r : HandleOf(r)' = HandleOf(r)
        /\ \A g : Enters(g)' = Enters(g)
    BY <1>6 DEF HandleOf, Enters
  <2> QED
    BY <1>6, <1>9, <2>1, <2>2, <2>3, <2>4, <2>5 DEF Frames
<1> QED
  BY <1>9, <1>10, <1>13 DEF Inv

LEMMA LeaveNodeOK ==
  ASSUME Inv, LeaveNode
  PROVE  Inv' /\ \A h \in HandleRec : Resolves(h)' => Resolves(h)
<1> DEFINE k == Len(walk)
           s == walk[k].slot
           Then(g) == gen[g.slot] = g.gen /\ state'[g.slot] = "Live"
<1>0. Types /\ SlotsAccounted /\ Handles /\ Tree /\ Frames /\ SubtreeGone /\ IdsTrue
  BY DEF Inv
<1>1. walk \in Seq(FrameRec) /\ k \in Nat \ {0} /\ k \in DOMAIN walk /\ DOMAIN walk = 1..k
  BY <1>0, FramesTyped DEF LeaveNode
<1>2. s \in SlotNo /\ walk[k].next \in Nat \ {0} /\ walk[k].next > Len(children[s])
  BY <1>0, <1>1, FramesTyped DEF LeaveNode
<1>3. /\ state' = [state EXCEPT ![s] = "Retired"]
      /\ ids' = [ids EXCEPT ![nodeId[s]] = NoParent]
      /\ retired' = Append(retired, s)
      /\ walk' = SubSeq(walk, 1, k - 1)
      /\ UNCHANGED <<gen, nodeId, parent, children, payload, tableVars, issued>>
  BY DEF LeaveNode
<1>4. state[s] = "Live" /\ state \in [SlotNo -> {"Free", "Live", "Retired"}]
  BY <1>0, <1>1 DEF Frames, Types
<1>5. \A t \in SlotNo : state'[t] = IF t = s THEN "Retired" ELSE state[t]
  BY <1>2, <1>3, <1>4
<1>6. \A g \in HandleRec : Then(g) => Enters(g) /\ g.slot # s
  BY <1>3, <1>5 DEF Enters, HandleRec
<1>7. \A i \in DOMAIN children[s] : ~Enters(children[s][i].node)
  <2> SUFFICES ASSUME NEW i \in DOMAIN children[s] PROVE ~Enters(children[s][i].node)
    OBVIOUS
  <2>1. i \in 1..(walk[k].next - 1)
    BY <1>0, <1>2, LinksTyped
  <2>2. k + 1 \notin DOMAIN walk
    BY <1>1
  <2> QED
    BY <1>0, <1>1, <2>1, <2>2 DEF Frames
<1>8. Edges' \subseteq Edges /\ \A e \in Edges : e[1] # s /\ (e \in Edges' \/ e[2] = s)
  <2>1. \A e \in Edges : e[1] # s
    <3> SUFFICES ASSUME NEW e \in Edges, e[1] = s PROVE FALSE
      OBVIOUS
    <3>1. PICK i \in DOMAIN children[s] : children[s][i].node = HandleOf(e[2])
      BY DEF Edges
    <3>2. state[e[2]] = "Live"
      BY DEF Edges
    <3> QED
      BY SMTT(60), <1>7, <3>1, <3>2 DEF Enters, HandleOf
  <2>2. Edges' \subseteq Edges
    BY <1>3, <1>5 DEF Edges, HandleOf
  <2>3. \A e \in Edges : e \in Edges' \/ e[2] = s
    BY <1>3, <1>5 DEF Edges, HandleOf
  <2> QED
    BY <2>1, <2>2, <2>3
<1>9. /\ walk' \in Seq(FrameRec) /\ Len(walk') = k - 1 /\ DOMAIN walk' = 1..(k - 1)
      /\ \A j \in 1..(k - 1) : walk'[j] = walk[j] /\ j \in DOMAIN walk
  BY <1>1, <1>3
<1>10. \A t \in SlotNo : HandleOf(t)' = HandleOf(t)
  BY <1>3 DEF HandleOf
<1>11. ~InRetired(s) /\ retired \in Seq(SlotNo)
  BY <1>0, <1>2, <1>4 DEF SlotsAccounted, Types
<1>12. /\ retired' \in Seq(SlotNo) /\ Distinct(retired')
       /\ \A t : InRetired(t)' <=> InRetired(t) \/ t = s
  <2>1. /\ retired' \in Seq(SlotNo) /\ DOMAIN retired' = 1..(Len(retired) + 1)
        /\ DOMAIN retired = 1..Len(retired) /\ Len(retired) \in Nat
        /\ retired'[Len(retired) + 1] = s
        /\ \A i \in 1..Len(retired) : retired'[i] = retired[i]
    BY <1>2, <1>3, <1>11
  <2>2. \A i \in 1..Len(retired) : retired'[i] # s
    BY <1>11, <2>1 DEF InRetired
  <2>3. Distinct(retired)
    BY <1>0 DEF SlotsAccounted
  <2>4. Distinct(retired')
    BY <2>1, <2>2, <2>3 DEF Distinct
  <2>5. \A t : InRetired(t)' <=> InRetired(t) \/ t = s
    BY <2>1 DEF InRetired
  <2> QED
    BY <2>1, <2>4, <2>5
<1>13. Types'
  BY <1>0, <1>3, <1>4, <1>9, <1>12 DEF Types, tableVars
<1>14. SlotsAccounted'
  <2>1. \A t \in SlotNo :
          /\ t >= nextUnused => state'[t] = "Free" /\ ~InFreeList(t)
          /\ InFreeList(t) => state'[t] = "Free"
          /\ InRetired(t)' <=> state'[t] = "Retired"
          /\ t < nextUnused /\ state'[t] = "Free" /\ ~InFreeList(t) => gen[t] = MaxGen
          /\ payload[t] = IF state'[t] = "Free" THEN "none" ELSE CreatePayload(TypeOf[nodeId[t]])
    BY <1>0, <1>4, <1>5, <1>12 DEF SlotsAccounted
  <2>2. \A t : InFreeList(t)' <=> InFreeList(t)
    BY <1>3 DEF InFreeList, tableVars
  <2>3. /\ Distinct(freeList') /\ nextUnused' <= chunkCount' * ChunkSize
        /\ chunkCount' <= chunkCapacity'
    BY <1>0, <1>3 DEF SlotsAccounted, tableVars
  <2> QED
    BY <1>3, <1>12, <2>1, <2>2, <2>3 DEF SlotsAccounted, tableVars
<1>15. Handles'
  <2>1. \A x \in NodeIds : ids'[x] = NoParent \/ ids'[x] \in issued
    BY <1>0, <1>3 DEF Handles, Types
  <2> QED
    BY <1>0, <1>3, <2>1 DEF Handles, Past, InFreeList, tableVars
<1>16. Tree'
  BY <1>0, <1>8, TreeShrinks DEF Tree
<1>17. \A j \in 1..(k - 1) : walk[j].slot # s /\ walk[j].slot \in SlotNo
  BY <1>0, <1>1, FramesDiffer, FramesTyped
<1>18. Frames'
  <2>1. \A j \in DOMAIN walk' :
          /\ state'[walk'[j].slot] = "Live"
          /\ walk'[j].next <= Len(children[walk'[j].slot]) + 1
    BY <1>0, <1>5, <1>9, <1>17 DEF Frames
  <2>2. \A j \in DOMAIN walk' : j + 1 \in DOMAIN walk' =>
          /\ walk'[j].next > 1
          /\ children[walk'[j].slot][walk'[j].next - 1].node = HandleOf(walk'[j + 1].slot)
    BY <1>0, <1>9 DEF Frames
  <2>3. \A i, j \in DOMAIN walk' : i <= j => walk'[j].slot \in Under(Edges', walk'[i].slot)
    <3> SUFFICES ASSUME NEW i \in DOMAIN walk', NEW j \in DOMAIN walk', i <= j
                 PROVE  walk'[j].slot \in Under(Edges', walk'[i].slot)
      OBVIOUS
    <3>1. walk[j].slot \in Under(Edges, walk[i].slot) /\ walk'[i] = walk[i] /\ walk'[j] = walk[j]
      BY <1>0, <1>9 DEF Frames
    <3>2. walk[i].slot \in SlotNo /\ walk[j].slot # s
      BY <1>9, <1>17
    <3> QED
      BY <1>2, <1>8, <3>1, <3>2, UnderWithoutLeaf, EdgesInTable
  <2>4. \A j \in DOMAIN walk' : \A i \in 1..(walk'[j].next - 1) :
          \/ ~Then(children[walk'[j].slot][i].node)
          \/ j + 1 \in DOMAIN walk' /\ i = walk'[j].next - 1
    <3> SUFFICES ASSUME NEW j \in DOMAIN walk', NEW i \in 1..(walk'[j].next - 1),
                        Then(children[walk'[j].slot][i].node)
                 PROVE  j + 1 \in DOMAIN walk' /\ i = walk'[j].next - 1
      OBVIOUS
    <3> DEFINE g == children[walk[j].slot][i].node
    <3>1. walk'[j] = walk[j] /\ j \in DOMAIN walk /\ j \in 1..(k - 1) /\ i \in 1..(walk[j].next - 1)
      BY <1>9
    <3>2. i \in DOMAIN children[walk[j].slot] /\ g \in HandleRec
      <4>1. walk[j].next <= Len(children[walk[j].slot]) + 1 /\ walk[j].slot \in SlotNo
            /\ walk[j].next \in Nat
        BY <1>0, <1>17, <3>1, FramesTyped DEF Frames
      <4>2. i \in DOMAIN children[walk[j].slot]
        BY <1>0, <3>1, <4>1, LinksTyped
      <4> QED
        BY <1>0, <4>1, <4>2, LinksTyped
    <3>3. Enters(g) /\ g.slot # s
      <4>1. Then(g)
        BY <3>1
      <4> QED
        BY <1>6, <3>2, <4>1
    <3>4. j + 1 \in DOMAIN walk /\ i = walk[j].next - 1
      BY <1>0, <3>1, <3>3 DEF Frames
    <3>5. g = HandleOf(walk[j + 1].slot)
      BY <1>0, <3>1, <3>4 DEF Frames
    <3>6. j + 1 # k
      BY <3>3, <3>5 DEF HandleOf
    <3> QED
      BY SMTT(60), <1>1, <1>9, <3>1, <3>4, <3>6
  <2>5. (\A j \in DOMAIN walk : /\ state[walk[j].slot] = "Live"
                              /\ walk[j].next <= Len(children[walk[j].slot]) + 1)'
    BY <1>3, <2>1
  <2>6. (\A j \in DOMAIN walk : j + 1 \in DOMAIN walk =>
          /\ walk[j].next > 1
          /\ children[walk[j].slot][walk[j].next - 1].node = HandleOf(walk[j + 1].slot))'
    BY <1>3, <2>2 DEF HandleOf
  <2>7. (\A i, j \in DOMAIN walk : i <= j => walk[j].slot \in Under(Edges, walk[i].slot))'
    BY <2>3 DEF Under, Closed
  <2>8. (\A j \in DOMAIN walk : \A i \in 1..(walk[j].next - 1) :
          \/ ~Enters(children[walk[j].slot][i].node)
          \/ j + 1 \in DOMAIN walk /\ i = walk[j].next - 1)'
    <3>1. gen' = gen /\ children' = children
      BY <1>3
    <3> QED
      BY <2>4, <3>1 DEF Enters
  <2> QED
    BY <2>5, <2>6, <2>7, <2>8 DEF Frames
<1>19. SubtreeGone'
  <2> SUFFICES ASSUME NEW t \in SlotNo, state'[t] = "Retired", NEW i \in DOMAIN children[t],
                      Resolves(children[t][i].node)'
               PROVE  FALSE
    BY <1>3 DEF SubtreeGone
  <2>1. children[t][i].node \in HandleRec
    BY <1>0, LinksTyped
  <2>2. Enters(children[t][i].node) /\ Resolves(children[t][i].node)
    <3>1. Then(children[t][i].node)
      BY <1>3 DEF Resolves
    <3>2. Enters(children[t][i].node)
      BY <1>6, <2>1, <3>1
    <3> QED
      BY <1>3, <3>2 DEF Resolves, Enters, tableVars
  <2> QED
    BY <1>0, <1>5, <1>7, <2>2 DEF SubtreeGone
<1>20. IdsTrue'
  <2>1. nodeId[s] \in NodeIds /\ ids[nodeId[s]] = HandleOf(s)
    BY <1>0, <1>2, <1>4 DEF IdsTrue
  <2>2. \A n \in NodeIds : ids'[n] = IF n = nodeId[s] THEN NoParent ELSE ids[n]
    BY <1>0, <1>3, <2>1 DEF Types
  <2>3. ASSUME NEW n \in NodeIds, ids'[n] # NoParent
        PROVE  /\ ids'[n].slot < chunkCount * ChunkSize /\ Then(ids'[n])
               /\ nodeId[ids'[n].slot] = n
    <3>1. n # nodeId[s] /\ ids'[n] = ids[n] /\ Resolves(ids[n]) /\ nodeId[ids[n].slot] = n
      BY <1>0, <2>2, <2>3 DEF IdsTrue
    <3>2. ids[n].slot # s
      BY <3>1
    <3>a. ids[n].slot \in SlotNo
      BY <1>0, <2>3, <3>1 DEF Handles, Types, HandleRec
    <3>3. state'[ids[n].slot] = state[ids[n].slot]
      BY <1>5, <3>2, <3>a
    <3> QED
      BY <3>1, <3>3 DEF Resolves
  <2>4. ASSUME NEW t \in SlotNo, state'[t] = "Live"
        PROVE  nodeId[t] \in NodeIds /\ ids'[nodeId[t]] = HandleOf(t)
    <3>1. t # s /\ nodeId[t] \in NodeIds /\ ids[nodeId[t]] = HandleOf(t)
      BY <1>0, <1>5, <2>4 DEF IdsTrue
    <3>2. nodeId[t] # nodeId[s]
      BY <2>1, <3>1 DEF HandleOf
    <3> QED
      BY <2>2, <3>1, <3>2
  <2> QED
    BY <1>3, <2>3, <2>4 DEF IdsTrue, Resolves, HandleOf, tableVars
<1>21. \A h \in HandleRec : Resolves(h)' => Resolves(h)
  BY <1>3, <1>6 DEF Resolves, Enters, tableVars, HandleRec
<1> QED
  BY <1>13, <1>14, <1>15, <1>16, <1>18, <1>19, <1>20, <1>21 DEF Inv

LEMMA FreeSlotOK ==
  ASSUME Inv, FreeSlot
  PROVE  Inv' /\ \A h \in HandleRec : Resolves(h)' => Resolves(h)
<1> DEFINE s == retired[1]
           worn == gen[s] = MaxGen
           n == Len(retired)
           m == Len(freeList)
<1>0. Types /\ SlotsAccounted /\ Handles /\ Tree /\ Frames /\ SubtreeGone /\ IdsTrue
  BY DEF Inv
<1>1. /\ retired \in Seq(SlotNo) /\ n \in Nat \ {0} /\ DOMAIN retired = 1..n /\ s \in SlotNo
      /\ freeList \in Seq(SlotNo) /\ m \in Nat /\ DOMAIN freeList = 1..m
  <2>1. retired \in Seq(SlotNo) /\ freeList \in Seq(SlotNo) /\ retired # <<>>
    BY <1>0 DEF Types, FreeSlot
  <2> QED
    BY <2>1
<1>2. state[s] = "Retired"
  BY <1>0, <1>1 DEF SlotsAccounted, InRetired
<1>3. /\ payload' = [payload EXCEPT ![s] = "none"]
      /\ children' = [children EXCEPT ![s] = <<>>]
      /\ state' = [state EXCEPT ![s] = "Free"]
      /\ worn => gen' = gen /\ freeList' = freeList
      /\ ~worn => gen' = [gen EXCEPT ![s] = gen[s] + 1] /\ freeList' = Append(freeList, s)
      /\ retired' = SubSeq(retired, 2, n)
      /\ walk = <<>> /\ walk' = walk
      /\ UNCHANGED <<nodeId, parent, nextUnused, chunkCount, chunkCapacity, ids, issued>>
  BY DEF FreeSlot
<1>4. /\ gen \in [SlotNo -> 0..MaxGen] /\ state \in [SlotNo -> {"Free", "Live", "Retired"}]
      /\ children \in [SlotNo -> Seq(LinkRec)]
      /\ payload \in [SlotNo -> NodeTypes \union {"none"}] /\ MaxGen \in Nat
  BY <1>0, StoreAssumption DEF Types
<1>5. \A t \in SlotNo :
        /\ state'[t] = IF t = s THEN "Free" ELSE state[t]
        /\ payload'[t] = IF t = s THEN "none" ELSE payload[t]
        /\ children'[t] = IF t = s THEN <<>> ELSE children[t]
        /\ t # s => gen'[t] = gen[t]
        /\ gen'[s] = IF worn THEN gen[s] ELSE gen[s] + 1
  BY <1>1, <1>3, <1>4
<1>6. /\ retired' \in Seq(SlotNo) /\ DOMAIN retired' = 1..(n - 1)
      /\ \A i \in 1..(n - 1) : retired'[i] = retired[i + 1]
  BY <1>1, <1>3
<1>7. Distinct(retired') /\ \A t : InRetired(t)' <=> InRetired(t) /\ t # s
  <2>1. \A i, j \in 1..n : retired[i] = retired[j] => i = j
    BY <1>0, <1>1 DEF SlotsAccounted, Distinct
  <2>2. Distinct(retired')
    <3> SUFFICES ASSUME NEW i \in 1..(n - 1), NEW j \in 1..(n - 1), retired'[i] = retired'[j]
                 PROVE  i = j
      BY <1>6 DEF Distinct
    <3>1. i + 1 \in 1..n /\ j + 1 \in 1..n /\ retired[i + 1] = retired[j + 1]
      BY <1>1, <1>6
    <3>2. i + 1 = j + 1
      BY <2>1, <3>1
    <3> QED
      BY <1>1, <3>2
  <2>3. ASSUME NEW t, InRetired(t)' PROVE InRetired(t) /\ t # s
    <3>1. PICK i \in 1..(n - 1) : retired'[i] = t
      BY <1>6, <2>3 DEF InRetired
    <3>2. i + 1 \in 1..n /\ retired[i + 1] = t /\ i + 1 # 1 /\ 1 \in 1..n
      BY <1>1, <1>6, <3>1
    <3> QED
      BY <1>1, <2>1, <3>2 DEF InRetired
  <2>4. ASSUME NEW t, InRetired(t), t # s PROVE InRetired(t)'
    <3>1. PICK i \in 1..n : retired[i] = t
      BY <1>1, <2>4 DEF InRetired
    <3>2. i - 1 \in 1..(n - 1) /\ (i - 1) + 1 = i
      BY <1>1, <2>4, <3>1
    <3>3. retired'[i - 1] = t
      BY <1>6, <3>1, <3>2
    <3> QED
      BY <1>6, <3>2, <3>3 DEF InRetired
  <2> QED
    BY <2>2, <2>3, <2>4
<1>8. ~InFreeList(s) /\ s < nextUnused
  <2>1. nextUnused \in Nat
    BY <1>0, StoreAssumption DEF Types
  <2> QED
    BY <1>0, <1>1, <1>2, <2>1 DEF SlotsAccounted, SlotNo
<1>9. /\ freeList' \in Seq(SlotNo) /\ Distinct(freeList')
      /\ \A t : InFreeList(t)' <=> InFreeList(t) \/ (t = s /\ ~worn)
  <2>1. Distinct(freeList)
    BY <1>0 DEF SlotsAccounted
  <2>2. CASE worn
    BY <1>1, <1>3, <2>1, <2>2 DEF InFreeList
  <2>3. CASE ~worn
    <3>1. freeList' = Append(freeList, s)
      BY <1>3, <2>3
    <3>2. /\ freeList' \in Seq(SlotNo) /\ DOMAIN freeList' = 1..(m + 1)
          /\ freeList'[m + 1] = s /\ \A i \in 1..m : freeList'[i] = freeList[i]
      BY <1>1, <3>1
    <3>3. \A i \in 1..m : freeList[i] # s
      BY <1>1, <1>8 DEF InFreeList
    <3>4. Distinct(freeList')
      BY <1>1, <2>1, <3>2, <3>3 DEF Distinct
    <3>5. \A t : InFreeList(t)' <=> InFreeList(t) \/ t = s
      BY <1>1, <3>2 DEF InFreeList
    <3> QED
      BY <2>3, <3>2, <3>4, <3>5
  <2> QED
    BY <2>2, <2>3
<1> HIDE DEF s, worn
<1>10. Types'
  <2>1. gen' \in [SlotNo -> 0..MaxGen]
    <3>1. worn \/ gen[s] + 1 \in 0..MaxGen
      BY <1>1, <1>4 DEF worn
    <3> QED
      BY <1>1, <1>3, <1>4, <3>1
  <2>2. /\ state' \in [SlotNo -> {"Free", "Live", "Retired"}]
        /\ payload' \in [SlotNo -> NodeTypes \union {"none"}]
    BY <1>1, <1>3, <1>4
  <2>3. children' \in [SlotNo -> Seq(LinkRec)]
    <3>1. <<>> \in Seq(LinkRec)
      OBVIOUS
    <3> QED
      BY <1>1, <1>3, <1>4, <3>1
  <2> QED
    BY <1>0, <1>3, <1>6, <1>9, <2>1, <2>2, <2>3 DEF Types
<1>11. SlotsAccounted'
  <2>1. \A t \in SlotNo :
          /\ t >= nextUnused => state'[t] = "Free" /\ ~InFreeList(t)'
          /\ InFreeList(t)' => state'[t] = "Free"
          /\ InRetired(t)' <=> state'[t] = "Retired"
          /\ t < nextUnused /\ state'[t] = "Free" /\ ~InFreeList(t)' => gen'[t] = MaxGen
          /\ payload'[t] = IF state'[t] = "Free" THEN "none" ELSE CreatePayload(TypeOf[nodeId[t]])
    <3> SUFFICES ASSUME NEW t \in SlotNo
                 PROVE
          /\ t >= nextUnused => state'[t] = "Free" /\ ~InFreeList(t)'
          /\ InFreeList(t)' => state'[t] = "Free"
          /\ InRetired(t)' <=> state'[t] = "Retired"
          /\ t < nextUnused /\ state'[t] = "Free" /\ ~InFreeList(t)' => gen'[t] = MaxGen
          /\ payload'[t] = IF state'[t] = "Free" THEN "none" ELSE CreatePayload(TypeOf[nodeId[t]])
      OBVIOUS
    <3>1. CASE t = s
      <4>1. ~(t >= nextUnused)
        BY <1>0, <1>8, <3>1, StoreAssumption DEF Types, SlotNo
      <4>2. worn => gen'[t] = MaxGen
        BY <1>5, <3>1 DEF worn
      <4> QED
        BY <1>5, <1>7, <1>9, <3>1, <4>1, <4>2
    <3>2. CASE t # s
      BY <1>0, <1>5, <1>7, <1>9, <3>2 DEF SlotsAccounted
    <3> QED
      BY <3>1, <3>2
  <2>2. nextUnused <= chunkCount * ChunkSize /\ chunkCount <= chunkCapacity
    BY <1>0 DEF SlotsAccounted
  <2> QED
    BY <1>3, <1>7, <1>9, <2>1, <2>2 DEF SlotsAccounted
<1>12. Handles'
  <2>1. ASSUME NEW h \in issued PROVE Past(h)'
    <3>1. h \in HandleRec /\ h.slot \in SlotNo /\ h.gen \in 0..MaxGen /\ Past(h)
      BY <1>0 DEF Types, HandleRec, Handles
    <3>2. h.gen <= gen'[h.slot] /\ (h.gen = gen'[h.slot] => ~InFreeList(h.slot)')
      <4>1. CASE h.slot = s /\ ~worn
        <5>1. h.gen <= gen[s] /\ gen'[s] = gen[s] + 1 /\ gen[s] \in Nat
          BY <1>1, <1>4, <1>5, <3>1, <4>1 DEF Past
        <5> QED
          BY <3>1, <4>1, <5>1
      <4>2. CASE ~(h.slot = s /\ ~worn)
        <5>1. gen'[h.slot] = gen[h.slot] /\ (InFreeList(h.slot)' <=> InFreeList(h.slot))
          BY <1>5, <1>9, <3>1, <4>2
        <5> QED
          BY <3>1, <5>1 DEF Past
      <4> QED
        BY <4>1, <4>2
    <3> QED
      BY <1>3, <3>1, <3>2 DEF Past
  <2>2. ASSUME NEW t \in SlotNo, NEW i \in DOMAIN children'[t]
        PROVE  children'[t][i].node \in issued
    <3>1. t # s
      <4>1. t = s => DOMAIN children'[t] = {}
        BY <1>5
      <4> QED
        BY <4>1
    <3> QED
      BY <1>0, <1>5, <2>2, <3>1 DEF Handles
  <2>3. \A x \in NodeIds : ids[x] = NoParent \/ ids[x] \in issued
    BY <1>0 DEF Handles
  <2> QED
    BY <1>3, <2>1, <2>2, <2>3 DEF Handles
<1>13. Edges' \subseteq Edges
  <2> SUFFICES ASSUME NEW e \in Edges' PROVE e \in Edges
    OBVIOUS
  <2>1. /\ e \in SlotNo \X SlotNo /\ e[1] \in SlotNo /\ e[2] \in SlotNo /\ state'[e[2]] = "Live"
        /\ \E i \in DOMAIN children'[e[1]] :
              children'[e[1]][i].node = [slot |-> e[2], gen |-> gen'[e[2]]]
    BY DEF Edges, HandleOf
  <2>2. e[2] # s /\ state[e[2]] = "Live" /\ gen'[e[2]] = gen[e[2]]
    BY <1>5, <2>1
  <2>3. e[1] # s
    <3>1. e[1] = s => DOMAIN children'[e[1]] = {}
      BY <1>5, <2>1
    <3> QED
      BY <2>1, <3>1
  <2>4. children'[e[1]] = children[e[1]]
    BY <1>5, <2>1, <2>3
  <2> QED
    BY <2>1, <2>2, <2>4 DEF Edges, HandleOf
<1>14. Tree'
  BY <1>0, <1>13, TreeShrinks DEF Tree
<1>15. Frames'
  <2>1. DOMAIN walk' = {}
    BY <1>3
  <2> QED
    BY <2>1 DEF Frames
<1>16. \A h \in HandleRec : Resolves(h)' => Resolves(h)
  BY <1>3, <1>5 DEF Resolves, HandleRec
<1>17. SubtreeGone'
  <2> SUFFICES ASSUME NEW t \in SlotNo, state'[t] = "Retired", NEW i \in DOMAIN children'[t],
                      Resolves(children[t][i].node)'
               PROVE  FALSE
    BY DEF SubtreeGone
  <2>1. state[t] = "Retired" /\ children'[t] = children[t]
    BY <1>5
  <2>2. children[t][i].node \in HandleRec
    BY <1>0, <2>1, LinksTyped
  <2>3. chunkCount' = chunkCount
    BY <1>3
  <2> DEFINE h == children[t][i].node
  <2>4. h.slot < chunkCount * ChunkSize /\ gen'[h.slot] = h.gen /\ state'[h.slot] = "Live"
    BY <2>1, <2>3 DEF Resolves
  <2>5. Resolves(h)
    BY <1>5, <2>2, <2>4 DEF Resolves, HandleRec
  <2> QED
    BY <1>0, <2>1, <2>5 DEF SubtreeGone
<1>18. IdsTrue'
  <2>1. ASSUME NEW x \in NodeIds, ids[x] # NoParent
        PROVE  /\ ids[x].slot < chunkCount * ChunkSize /\ gen'[ids[x].slot] = ids[x].gen
               /\ state'[ids[x].slot] = "Live" /\ nodeId[ids[x].slot] = x
    <3>1. Resolves(ids[x]) /\ nodeId[ids[x].slot] = x
      BY <1>0, <2>1 DEF IdsTrue
    <3>2. ids[x].slot # s
      BY <1>2, <3>1 DEF Resolves
    <3>a. ids[x].slot \in SlotNo
      BY <1>0, <2>1 DEF Handles, Types, HandleRec
    <3>3. state'[ids[x].slot] = state[ids[x].slot] /\ gen'[ids[x].slot] = gen[ids[x].slot]
      BY <1>5, <3>2, <3>a
    <3> QED
      BY <3>1, <3>3 DEF Resolves
  <2>2. ASSUME NEW t \in SlotNo, state'[t] = "Live"
        PROVE  nodeId[t] \in NodeIds /\ ids[nodeId[t]] = [slot |-> t, gen |-> gen'[t]]
    <3>1. t # s /\ state[t] = "Live" /\ gen'[t] = gen[t]
      BY <1>5, <2>2
    <3> QED
      BY <1>0, <3>1 DEF IdsTrue, HandleOf
  <2> QED
    BY <1>3, <2>1, <2>2 DEF IdsTrue, Resolves, HandleOf
<1> QED
  BY <1>10, <1>11, <1>12, <1>14, <1>15, <1>16, <1>17, <1>18 DEF Inv

LEMMA RetireOK ==
  ASSUME Inv, NEW h \in issued, Retire(h)
  PROVE  Inv'
<1>0. Types /\ SlotsAccounted /\ Handles /\ Tree /\ SubtreeGone /\ IdsTrue
  BY DEF Inv
<1>1. /\ walk' = <<Frame(h.slot)>> /\ Enters(h)
      /\ UNCHANGED <<gen, state, nodeId, parent, children, payload, tableVars, retired, ids, issued>>
  BY DEF Retire
<1>2. h.slot \in SlotNo /\ Frame(h.slot) \in FrameRec
  BY <1>0 DEF Types, HandleRec, FrameRec, Frame
<1>3. /\ walk' \in Seq(FrameRec) /\ DOMAIN walk' = {1} /\ walk'[1].slot = h.slot
      /\ walk'[1].next = 1
  BY <1>1, <1>2 DEF Frame
<1>4. Types' /\ SlotsAccounted' /\ Handles' /\ SubtreeGone' /\ IdsTrue' /\ Edges' = Edges
  <2>1. Types'
    BY <1>0, <1>1, <1>3 DEF Types, tableVars
  <2>2. SlotsAccounted'
    BY <1>0, <1>1 DEF SlotsAccounted, tableVars, Distinct, InFreeList, InRetired
  <2>3. Handles'
    BY <1>0, <1>1 DEF Handles, Past, tableVars, InFreeList
  <2>4. SubtreeGone' /\ IdsTrue'
    BY <1>0, <1>1 DEF SubtreeGone, IdsTrue, Resolves, HandleOf, tableVars
  <2>5. Edges' = Edges
    BY <1>1 DEF Edges, HandleOf
  <2> QED
    BY <2>1, <2>2, <2>3, <2>4, <2>5
<1>5. Tree'
  BY <1>0, <1>4 DEF Tree
<1>6. Frames'
  <2>1. Len(children[h.slot]) \in Nat
    BY <1>0, <1>2, LinksTyped
  <2>a. \A m \in Nat : 1 <= m + 1
    OBVIOUS
  <2>2. state[h.slot] = "Live" /\ 1 <= Len(children[h.slot]) + 1
    BY <1>1, <2>1, <2>a DEF Enters
  <2>3. h.slot \in Under(Edges, h.slot)
    BY <1>2, UnderSelf
  <2>4. (\A j \in DOMAIN walk : /\ state[walk[j].slot] = "Live"
                                /\ walk[j].next <= Len(children[walk[j].slot]) + 1)'
    BY <1>1, <1>3, <2>2
  <2>5. (\A j \in DOMAIN walk : j + 1 \in DOMAIN walk =>
          /\ walk[j].next > 1
          /\ children[walk[j].slot][walk[j].next - 1].node = HandleOf(walk[j + 1].slot))'
    BY <1>3
  <2>6. (\A i, j \in DOMAIN walk : i <= j => walk[j].slot \in Under(Edges, walk[i].slot))'
    <3>1. \A i, j \in DOMAIN walk' : walk'[j].slot \in Under(Edges', walk'[i].slot)
      BY <1>3, <1>4, <2>3
    <3> QED
      BY <3>1 DEF Under, Closed
  <2>7. (\A j \in DOMAIN walk : \A i \in 1..(walk[j].next - 1) :
          \/ ~Enters(children[walk[j].slot][i].node)
          \/ j + 1 \in DOMAIN walk /\ i = walk[j].next - 1)'
    BY <1>3
  <2> QED
    BY <2>4, <2>5, <2>6, <2>7 DEF Frames
<1> QED
  BY <1>4, <1>5, <1>6 DEF Inv

-----------------------------------------------------------------------------
(* link, unlink and allocate *)

\* Nothing is retired between two calls.
LEMMA NothingRetired ==
  ASSUME Inv, Idle
  PROVE  \A s \in SlotNo : state[s] # "Retired"
<1>1. \A s : ~InRetired(s)
  BY DEF Idle, InRetired
<1> QED
  BY <1>1 DEF Inv, SlotsAccounted

LEMMA IdleFrames ==
  ASSUME Idle, UNCHANGED walk
  PROVE  Frames'
<1>1. DOMAIN walk' = {}
  BY DEF Idle
<1> QED
  BY <1>1 DEF Frames

LEMMA ChildrenOnly ==
  ASSUME Inv, Idle, NEW s \in SlotNo, NEW new \in Seq(LinkRec),
         children' = [children EXCEPT ![s] = new],
         \A i \in DOMAIN new : new[i].node \in issued,
         IsTree(Edges'),
         UNCHANGED <<gen, state, nodeId, payload, tableVars, retired, ids, walk, issued>>
  PROVE  Inv'
<1>0. Types /\ SlotsAccounted /\ Handles /\ Tree /\ SubtreeGone /\ IdsTrue
  BY DEF Inv
<1>1. children \in [SlotNo -> Seq(LinkRec)]
  BY <1>0 DEF Types
<1>2. Types'
  BY <1>0, <1>1 DEF Types, tableVars
<1>3. SlotsAccounted'
  BY <1>0 DEF SlotsAccounted, tableVars, Distinct, InFreeList, InRetired
<1>4. Handles'
  <2>1. \A t \in SlotNo : \A i \in DOMAIN children'[t] : children'[t][i].node \in issued
    BY <1>0, <1>1 DEF Handles
  <2> QED
    BY <1>0, <2>1 DEF Handles, Past, tableVars, InFreeList
<1>5. SubtreeGone'
  BY NothingRetired DEF SubtreeGone
<1>6. IdsTrue'
  BY <1>0 DEF IdsTrue, Resolves, HandleOf, tableVars
<1> QED
  BY <1>2, <1>3, <1>4, <1>5, <1>6, IdleFrames DEF Inv, Tree

LEMMA InsertedIs ==
  ASSUME NEW T, NEW l \in Seq(T), NEW p \in 1..(Len(l) + 1), NEW e \in T
  PROVE  /\ Inserted(l, p, e) \in Seq(T) /\ DOMAIN Inserted(l, p, e) = 1..(Len(l) + 1)
         /\ \A i \in DOMAIN Inserted(l, p, e) :
               \/ i < p /\ i \in DOMAIN l /\ Inserted(l, p, e)[i] = l[i]
               \/ i = p /\ Inserted(l, p, e)[i] = e
               \/ i > p /\ i - 1 \in DOMAIN l /\ Inserted(l, p, e)[i] = l[i - 1]
<1> DEFINE n == Len(l)
           new == Inserted(l, p, e)
<1>1. n \in Nat /\ DOMAIN l = 1..n /\ \A i \in 1..n : l[i] \in T
  OBVIOUS
<1>2. DOMAIN new = 1..(n + 1)
  BY DEF Inserted
<1>3. \A i \in 1..(n + 1) :
         \/ i < p /\ i \in DOMAIN l /\ new[i] = l[i]
         \/ i = p /\ new[i] = e
         \/ i > p /\ i - 1 \in DOMAIN l /\ new[i] = l[i - 1]
  BY <1>1 DEF Inserted
<1>4. new = [i \in 1..(n + 1) |-> new[i]] /\ n + 1 \in Nat
  BY <1>1 DEF Inserted
<1>5. \A i \in 1..(n + 1) : new[i] \in T
  BY <1>1, <1>3
<1>6. new \in Seq(T)
  <2>1. [i \in 1..(n + 1) |-> new[i]] \in [1..(n + 1) -> T]
    BY <1>5
  <2> HIDE DEF new, n
  <2> QED
    BY <1>4, <2>1
<1> QED
  BY <1>2, <1>3, <1>6

LEMMA RemovedIs ==
  ASSUME NEW T, NEW l \in Seq(T), NEW p \in DOMAIN l
  PROVE  /\ Removed(l, p) \in Seq(T) /\ DOMAIN Removed(l, p) = 1..(Len(l) - 1)
         /\ \A i \in DOMAIN Removed(l, p) :
               \/ i < p /\ i \in DOMAIN l /\ Removed(l, p)[i] = l[i]
               \/ i >= p /\ i + 1 \in DOMAIN l /\ Removed(l, p)[i] = l[i + 1]
<1> DEFINE n == Len(l)
           new == Removed(l, p)
<1>1. n \in Nat \ {0} /\ DOMAIN l = 1..n /\ \A i \in 1..n : l[i] \in T
  OBVIOUS
<1>2. DOMAIN new = 1..(n - 1)
  BY DEF Removed
<1>3. \A i \in 1..(n - 1) :
         \/ i < p /\ i \in DOMAIN l /\ new[i] = l[i]
         \/ i >= p /\ i + 1 \in DOMAIN l /\ new[i] = l[i + 1]
  BY <1>1 DEF Removed
<1>4. new = [i \in 1..(n - 1) |-> new[i]] /\ n - 1 \in Nat
  BY <1>1 DEF Removed
<1>5. \A i \in 1..(n - 1) : new[i] \in T
  BY <1>1, <1>3
<1>6. new \in Seq(T)
  <2>1. [i \in 1..(n - 1) |-> new[i]] \in [1..(n - 1) -> T]
    BY <1>5
  <2> HIDE DEF new, n
  <2> QED
    BY <1>4, <2>1
<1> QED
  BY <1>2, <1>3, <1>6

LEMMA UnlinkOK ==
  ASSUME Inv, NEW P \in issued, NEW h \in issued, Unlink(P, h)
  PROVE  Inv'
<1> DEFINE s == P.slot
           l == children[s]
<1>0. Types /\ Handles /\ Tree /\ Idle
  BY DEF Inv, Unlink
<1>1. s \in SlotNo /\ l \in Seq(LinkRec)
  BY <1>0, LinksTyped DEF Types, HandleRec
<1>2. PICK p \in DOMAIN l : children' = [children EXCEPT ![s] = Removed(l, p)]
  BY DEF Unlink
<1>3. UNCHANGED <<gen, state, nodeId, payload, tableVars, retired, ids, walk, issued>>
  BY DEF Unlink
<1> DEFINE new == Removed(l, p)
<1>4. /\ new \in Seq(LinkRec)
      /\ \A i \in DOMAIN new : \E j \in DOMAIN l : new[i] = l[j]
  <2> HIDE DEF s, l
  <2>1. /\ Removed(l, p) \in Seq(LinkRec)
        /\ \A i \in DOMAIN Removed(l, p) :
              \/ i < p /\ i \in DOMAIN l /\ Removed(l, p)[i] = l[i]
              \/ i >= p /\ i + 1 \in DOMAIN l /\ Removed(l, p)[i] = l[i + 1]
    BY <1>1, RemovedIs
  <2> QED
    BY <2>1
<1>5. \A i \in DOMAIN new : new[i].node \in issued
  BY <1>0, <1>1, <1>4 DEF Handles
<1> HIDE DEF new
<1>6. \A t \in SlotNo : children'[t] = IF t = s THEN new ELSE children[t]
  BY <1>0, <1>1, <1>2 DEF Types, new
<1>7. Edges' \subseteq Edges
  BY <1>3, <1>4, <1>6 DEF Edges, HandleOf
<1>8. IsTree(Edges')
  BY <1>0, <1>7, TreeShrinks DEF Tree
<1>9. children' = [children EXCEPT ![s] = new]
  BY <1>2 DEF new
<1> QED
  BY <1>0, <1>1, <1>3, <1>4, <1>5, <1>8, <1>9, ChildrenOnly

LEMMA LinkOK ==
  ASSUME Inv, NEW P \in issued, NEW h \in issued, NEW key \in Keys, Link(P, h, key)
  PROVE  Inv'
<1> DEFINE s == P.slot
           l == children[s]
           e == [node |-> h, orderKey |-> key]
<1>0. Types /\ Handles /\ Tree /\ Idle
  BY DEF Inv, Link
<1>1. s \in SlotNo /\ l \in Seq(LinkRec) /\ h \in HandleRec /\ h.slot \in SlotNo
  BY <1>0, LinksTyped DEF Types, HandleRec
<1>2. PICK p \in 1..(Len(l) + 1) : children' = [children EXCEPT ![s] = Inserted(l, p, e)]
  BY DEF Link
<1>3. /\ UNCHANGED <<gen, state, nodeId, payload, tableVars, retired, ids, walk, issued>>
      /\ Resolves(h) /\ s \notin Under(Edges, h.slot)
  BY DEF Link
<1>4. e \in LinkRec /\ e.node = h /\ h = HandleOf(h.slot)
  BY <1>1, <1>3, StoreAssumption DEF LinkRec, Resolves, HandleOf, HandleRec
<1> HIDE DEF e
<1> DEFINE new == Inserted(l, p, e)
<1>5. /\ new \in Seq(LinkRec)
      /\ \A i \in DOMAIN new : new[i] = e \/ \E j \in DOMAIN l : new[i] = l[j]
  <2> HIDE DEF l
  <2>1. /\ Inserted(l, p, e) \in Seq(LinkRec)
        /\ \A i \in DOMAIN Inserted(l, p, e) :
               \/ i < p /\ i \in DOMAIN l /\ Inserted(l, p, e)[i] = l[i]
               \/ i = p /\ Inserted(l, p, e)[i] = e
               \/ i > p /\ i - 1 \in DOMAIN l /\ Inserted(l, p, e)[i] = l[i - 1]
    BY <1>1, <1>2, <1>4, InsertedIs
  <2> QED
    BY <2>1
<1> HIDE DEF new
<1>6. \A i \in DOMAIN new : new[i].node \in issued
  BY <1>0, <1>1, <1>4, <1>5 DEF Handles
<1>7. \A t \in SlotNo : children'[t] = IF t = s THEN new ELSE children[t]
  BY <1>0, <1>1, <1>2 DEF Types, new
<1>8. Edges' \subseteq Edges \union {<<s, h.slot>>}
  <2> SUFFICES ASSUME NEW x \in Edges', x \notin Edges PROVE x = <<s, h.slot>>
    OBVIOUS
  <2>1. /\ x \in SlotNo \X SlotNo /\ x[1] \in SlotNo /\ x[2] \in SlotNo /\ state[x[2]] = "Live"
        /\ \E i \in DOMAIN children'[x[1]] : children'[x[1]][i].node = HandleOf(x[2])
    BY <1>3 DEF Edges, HandleOf
  <2>2. ~ \E i \in DOMAIN children[x[1]] : children[x[1]][i].node = HandleOf(x[2])
    BY <2>1 DEF Edges
  <2>3. x[1] = s
    BY <1>7, <2>1, <2>2
  <2>4. h = HandleOf(x[2])
    BY <1>4, <1>5, <1>7, <2>1, <2>2, <2>3
  <2> QED
    BY <2>1, <2>3, <2>4 DEF HandleOf
<1>9. IsTree(Edges')
  BY <1>0, <1>1, <1>3, <1>8, TreeGrows, EdgesInTable DEF Tree
<1>10. children' = [children EXCEPT ![s] = new]
  BY <1>2 DEF new
<1> QED
  BY <1>0, <1>1, <1>3, <1>5, <1>6, <1>9, <1>10, ChildrenOnly

LEMMA OneChunkMore ==
  ASSUME NEW n \in Nat, NEW k \in Nat \ {0}
  PROVE  n * k \in Nat /\ (n + 1) * k = n * k + k /\ n * k + 1 <= (n + 1) * k
<1>1. n * k \in Nat /\ (n + 1) * k = n * k + k
  OBVIOUS
<1> QED
  BY <1>1

LEMMA ClaimOK ==
  ASSUME Inv, NEW s \in SlotNo, Claim(s)
  PROVE  /\ state[s] = "Free" /\ ~InFreeList(s)'
         /\ \A t : t # s => (InFreeList(t)' <=> InFreeList(t))
         /\ Distinct(freeList') /\ freeList' \in Seq(SlotNo)
         /\ nextUnused' \in 0..MaxSlots /\ s < nextUnused' /\ nextUnused <= nextUnused'
         /\ \A t \in SlotNo : t < nextUnused' /\ t # s => t < nextUnused
         /\ chunkCount' \in Nat \ {0} /\ chunkCapacity' \in Nat
         /\ chunkCount <= chunkCount' /\ chunkCount * ChunkSize <= chunkCount' * ChunkSize
         /\ nextUnused' <= chunkCount' * ChunkSize /\ chunkCount' <= chunkCapacity'
         /\ \A h \in issued : h # HandleOf(s)
<1>0. Types /\ SlotsAccounted /\ Handles
  BY DEF Inv
<1>1. /\ nextUnused \in 0..MaxSlots /\ MaxSlots \in Nat /\ ChunkSize \in Nat \ {0}
      /\ chunkCount \in Nat \ {0} /\ chunkCapacity \in Nat /\ freeList \in Seq(SlotNo)
      /\ nextUnused <= chunkCount * ChunkSize /\ chunkCount <= chunkCapacity
      /\ Distinct(freeList) /\ SlotNo = 0..(MaxSlots - 1)
  BY <1>0, StoreAssumption DEF Types, SlotsAccounted, SlotNo
<1>2. chunkCount * ChunkSize \in Nat
  BY <1>1, OneChunkMore
<1>3. \A h \in issued : Past(h) /\ h.slot \in SlotNo
  BY <1>0 DEF Handles, Types, HandleRec
<1>4. CASE freeList # <<>>
  <2> DEFINE m == Len(freeList)
  <2>1. /\ m \in Nat \ {0} /\ DOMAIN freeList = 1..m /\ s = freeList[m]
        /\ freeList' = SubSeq(freeList, 1, m - 1)
        /\ UNCHANGED <<nextUnused, chunkCount, chunkCapacity>>
    BY <1>1, <1>4 DEF Claim
  <2>2. /\ freeList' \in Seq(SlotNo) /\ DOMAIN freeList' = 1..(m - 1)
        /\ \A i \in 1..(m - 1) : freeList'[i] = freeList[i]
    BY <1>1, <2>1
  <2>3. \A i \in 1..(m - 1) : freeList[i] # s
    BY SMTT(60), <1>1, <2>1 DEF Distinct
  <2>4. Distinct(freeList')
    BY <1>1, <2>1, <2>2 DEF Distinct
  <2>5. ~InFreeList(s)' /\ InFreeList(s)
    BY <2>1, <2>2, <2>3 DEF InFreeList
  <2>6. ASSUME NEW t, t # s PROVE InFreeList(t)' <=> InFreeList(t)
    <3>a. m \in Nat \ {0}
      BY <2>1
    <3>1. \A i \in 1..m : i = m \/ i \in 1..(m - 1)
      <4> HIDE DEF m
      <4> QED
        BY <3>a
    <3>2. \A i \in 1..(m - 1) : i \in 1..m
      <4> HIDE DEF m
      <4> QED
        BY <3>a
    <3> QED
      BY <2>1, <2>2, <2>6, <3>1, <3>2 DEF InFreeList
  <2>7. state[s] = "Free" /\ s < nextUnused
    BY <1>0, <1>1, <2>5 DEF SlotsAccounted
  <2>8. \A h \in issued : h # HandleOf(s)
    BY <1>3, <2>5 DEF Past, HandleOf
  <2> QED
    BY <1>1, <1>2, <2>1, <2>2, <2>4, <2>5, <2>6, <2>7, <2>8
<1>5. CASE freeList = <<>>
  <2>1. /\ s = nextUnused /\ nextUnused' = nextUnused + 1 /\ freeList' = freeList
        /\ IF s = chunkCount * ChunkSize THEN Grow
           ELSE chunkCount' = chunkCount /\ chunkCapacity' = chunkCapacity
    BY <1>5 DEF Claim
  <2>2. state[s] = "Free" /\ ~InFreeList(s)
    BY <1>0, <1>1, <2>1 DEF SlotsAccounted
  <2>3. \A t : InFreeList(t)' <=> InFreeList(t)
    BY <2>1 DEF InFreeList
  <2>4. /\ chunkCount' \in Nat \ {0} /\ chunkCapacity' \in Nat /\ chunkCount <= chunkCount'
        /\ chunkCount' <= chunkCapacity'
    <3>1. CASE s = chunkCount * ChunkSize
      <4>1. /\ chunkCount' = chunkCount + 1
            /\ chunkCapacity' = IF chunkCount >= chunkCapacity THEN 2 * chunkCapacity
                                ELSE chunkCapacity
        BY <2>1, <3>1 DEF Grow
      <4> QED
        BY <1>1, <4>1
    <3>2. CASE s # chunkCount * ChunkSize
      BY <1>1, <2>1, <3>2
    <3> QED
      BY <3>1, <3>2
  <2>5. nextUnused' <= chunkCount' * ChunkSize /\ chunkCount * ChunkSize <= chunkCount' * ChunkSize
    <3>1. CASE s = chunkCount * ChunkSize
      <4>1. chunkCount' = chunkCount + 1
        BY <2>1, <3>1 DEF Grow
      <4>2. chunkCount * ChunkSize + 1 <= chunkCount' * ChunkSize /\ chunkCount' * ChunkSize \in Nat
        BY <1>1, <4>1, OneChunkMore
      <4> DEFINE x == chunkCount * ChunkSize
                 y == chunkCount' * ChunkSize
      <4> HIDE DEF x, y
      <4>3. x \in Nat /\ y \in Nat /\ x + 1 <= y /\ nextUnused' = x + 1
        BY <1>2, <2>1, <3>1, <4>2 DEF x, y
      <4>4. nextUnused' <= y /\ x <= y
        BY <4>3
      <4> QED
        BY <4>4 DEF x, y
    <3>2. CASE s # chunkCount * ChunkSize
      <4>1. chunkCount' = chunkCount
        BY <2>1, <3>2
      <4> DEFINE x == chunkCount * ChunkSize
      <4> HIDE DEF x
      <4>2. x \in Nat /\ nextUnused <= x /\ nextUnused # x
        BY <1>1, <1>2, <2>1, <3>2 DEF x
      <4>3. nextUnused' <= x /\ x <= x
        BY <1>1, <2>1, <4>2
      <4> QED
        BY <4>1, <4>3 DEF x
    <3> QED
      BY <3>1, <3>2
  <2>6. \A h \in issued : h # HandleOf(s)
    BY <1>1, <1>3, <2>1 DEF Past, HandleOf
  <2>7. /\ nextUnused' \in 0..MaxSlots /\ s < nextUnused' /\ nextUnused <= nextUnused'
        /\ \A t \in SlotNo : t < nextUnused' /\ t # s => t < nextUnused
    BY <1>1, <2>1
  <2> QED
    BY <1>1, <2>1, <2>2, <2>3, <2>4, <2>5, <2>6, <2>7
<1> QED
  BY <1>4, <1>5

LEMMA AllocateOK ==
  ASSUME Inv, NEW n \in NodeIds, Allocate(n)
  PROVE  Inv' /\ \A h \in issued : ~Resolves(h) => ~Resolves(h)'
<1>0. Types /\ SlotsAccounted /\ Handles /\ Tree /\ IdsTrue /\ Idle /\ ids[n] = NoParent
  BY DEF Inv, Allocate
<1>1. PICK s \in SlotNo :
        /\ Claim(s)
        /\ nodeId' = [nodeId EXCEPT ![s] = n]
        /\ children' = [children EXCEPT ![s] = <<>>]
        /\ payload' = [payload EXCEPT ![s] = CreatePayload(TypeOf[n])]
        /\ state' = [state EXCEPT ![s] = "Live"]
        /\ ids' = [ids EXCEPT ![n] = HandleOf(s)]
        /\ issued' = issued \union {HandleOf(s)}
  BY DEF Allocate
<1>2. gen' = gen /\ retired' = retired /\ walk' = walk
  BY DEF Allocate
<1>3. /\ state[s] = "Free" /\ ~InFreeList(s)'
      /\ \A t : t # s => (InFreeList(t)' <=> InFreeList(t))
      /\ Distinct(freeList') /\ freeList' \in Seq(SlotNo)
      /\ nextUnused' \in 0..MaxSlots /\ s < nextUnused' /\ nextUnused <= nextUnused'
      /\ \A t \in SlotNo : t < nextUnused' /\ t # s => t < nextUnused
      /\ chunkCount' \in Nat \ {0} /\ chunkCapacity' \in Nat
      /\ chunkCount <= chunkCount' /\ chunkCount * ChunkSize <= chunkCount' * ChunkSize
      /\ nextUnused' <= chunkCount' * ChunkSize /\ chunkCount' <= chunkCapacity'
      /\ \A h \in issued : h # HandleOf(s)
  BY <1>1, ClaimOK
<1>4. /\ gen \in [SlotNo -> 0..MaxGen] /\ state \in [SlotNo -> {"Free", "Live", "Retired"}]
      /\ nodeId \in [SlotNo -> NodeIds \union {"none"}]
      /\ children \in [SlotNo -> Seq(LinkRec)]
      /\ payload \in [SlotNo -> NodeTypes \union {"none"}] /\ DOMAIN ids = NodeIds
      /\ nextUnused \in 0..MaxSlots /\ MaxSlots \in Nat
      /\ chunkCount * ChunkSize \in Nat /\ chunkCount' * ChunkSize \in Nat
  <2>1. chunkCount * ChunkSize \in Nat /\ chunkCount' * ChunkSize \in Nat
    BY <1>0, <1>3, OneChunkMore, StoreAssumption DEF Types
  <2> QED
    BY <1>0, <2>1, StoreAssumption DEF Types
<1>5. \A t \in SlotNo :
        /\ state'[t] = IF t = s THEN "Live" ELSE state[t]
        /\ nodeId'[t] = IF t = s THEN n ELSE nodeId[t]
        /\ payload'[t] = IF t = s THEN CreatePayload(TypeOf[n]) ELSE payload[t]
        /\ children'[t] = IF t = s THEN <<>> ELSE children[t]
  BY <1>1, <1>4
<1>6. HandleOf(s) \in HandleRec /\ HandleOf(s) # NoParent
      /\ HandleOf(s).slot = s /\ HandleOf(s).gen = gen[s]
  <2>1. HandleOf(s) \in HandleRec /\ HandleOf(s).slot = s /\ HandleOf(s).gen = gen[s]
    BY <1>4 DEF HandleOf, HandleRec
  <2>2. s < Invalid
    BY <1>4, StoreAssumption DEF SlotNo
  <2>3. NoParent.slot = Invalid
    BY DEF NoParent
  <2> QED
    BY <1>4, <2>1, <2>2, <2>3, StoreAssumption DEF SlotNo
<1>7. \A x \in NodeIds : ids'[x] = IF x = n THEN HandleOf(s) ELSE ids[x]
  BY <1>1, <1>4
<1>8. Types'
  <2>1. CreatePayload(TypeOf[n]) \in NodeTypes \union {"none"}
    BY StoreAssumption DEF CreatePayload
  <2>2. <<>> \in Seq(LinkRec)
    OBVIOUS
  <2>3. /\ state' \in [SlotNo -> {"Free", "Live", "Retired"}]
        /\ nodeId' \in [SlotNo -> NodeIds \union {"none"}]
        /\ children' \in [SlotNo -> Seq(LinkRec)]
        /\ payload' \in [SlotNo -> NodeTypes \union {"none"}]
        /\ DOMAIN ids' = NodeIds
    BY <1>1, <1>4, <2>1, <2>2
  <2>4. issued' \subseteq HandleRec
    BY <1>0, <1>1, <1>6 DEF Types
  <2> QED
    BY <1>0, <1>2, <1>3, <2>3, <2>4 DEF Types
<1>9. \A t \in SlotNo : state[t] # "Retired" /\ ~InRetired(t)
  BY <1>0, NothingRetired DEF Inv, SlotsAccounted
<1>10. SlotsAccounted'
  <2>1. \A t \in SlotNo :
          /\ t >= nextUnused' => state'[t] = "Free" /\ ~InFreeList(t)'
          /\ InFreeList(t)' => state'[t] = "Free"
          /\ InRetired(t)' <=> state'[t] = "Retired"
          /\ t < nextUnused' /\ state'[t] = "Free" /\ ~InFreeList(t)' => gen[t] = MaxGen
          /\ payload'[t] = IF state'[t] = "Free" THEN "none"
                           ELSE CreatePayload(TypeOf[nodeId'[t]])
    <3> SUFFICES ASSUME NEW t \in SlotNo
                 PROVE
          /\ t >= nextUnused' => state'[t] = "Free" /\ ~InFreeList(t)'
          /\ InFreeList(t)' => state'[t] = "Free"
          /\ InRetired(t)' <=> state'[t] = "Retired"
          /\ t < nextUnused' /\ state'[t] = "Free" /\ ~InFreeList(t)' => gen[t] = MaxGen
          /\ payload'[t] = IF state'[t] = "Free" THEN "none"
                           ELSE CreatePayload(TypeOf[nodeId'[t]])
      OBVIOUS
    <3>1. InRetired(t)' <=> InRetired(t)
      BY <1>2 DEF InRetired
    <3>2. CASE t = s
      <4>1. ~(t >= nextUnused')
        BY <1>3, <1>4, <3>2 DEF SlotNo
      <4> QED
        BY <1>3, <1>5, <1>9, <3>1, <3>2, <4>1
    <3>3. CASE t # s
      <4>1. t >= nextUnused' => t >= nextUnused
        BY <1>3, <1>4 DEF SlotNo
      <4> QED
        BY <1>0, <1>3, <1>5, <3>1, <3>3, <4>1 DEF SlotsAccounted
    <3> QED
      BY <3>2, <3>3
  <2>2. Distinct(retired')
    BY <1>0, <1>2 DEF SlotsAccounted
  <2> QED
    BY <1>2, <1>3, <2>1, <2>2 DEF SlotsAccounted
<1>11. Handles'
  <2>1. ASSUME NEW h \in issued' PROVE Past(h)'
    <3>1. CASE h = HandleOf(s)
      <4>1. h.slot < nextUnused' /\ h.gen <= gen'[h.slot] /\ ~InFreeList(h.slot)'
        BY <1>2, <1>3, <1>4, <1>6, <3>1
      <4> QED
        BY <4>1 DEF Past
    <3>2. CASE h \in issued
      <4>1. Past(h) /\ h.slot \in SlotNo
        BY <1>0, <3>2 DEF Handles, Types, HandleRec
      <4>2. h.slot < nextUnused'
        BY <1>3, <1>4, <4>1 DEF Past, SlotNo
      <4>3. InFreeList(h.slot)' => InFreeList(h.slot)
        BY <1>3
      <4> QED
        BY <1>2, <4>1, <4>2, <4>3 DEF Past
    <3> QED
      BY <1>1, <3>1, <3>2
  <2>2. ASSUME NEW t \in SlotNo, NEW i \in DOMAIN children'[t]
        PROVE  children'[t][i].node \in issued'
    <3>1. t # s
      <4>1. t = s => DOMAIN children'[t] = {}
        BY <1>5
      <4> QED
        BY <4>1
    <3>2. children[t][i].node \in issued /\ children'[t] = children[t]
      BY <1>0, <1>5, <2>2, <3>1 DEF Handles
    <3> QED
      BY <1>1, <3>2
  <2>3. \A x \in NodeIds : ids'[x] = NoParent \/ ids'[x] \in issued'
    BY <1>0, <1>1, <1>7 DEF Handles
  <2> QED
    BY <2>1, <2>2, <2>3 DEF Handles
<1>12. Edges' \subseteq Edges
  <2> SUFFICES ASSUME NEW e \in Edges' PROVE e \in Edges
    OBVIOUS
  <2>1. /\ e \in SlotNo \X SlotNo /\ e[1] \in SlotNo /\ e[2] \in SlotNo /\ state'[e[2]] = "Live"
        /\ \E i \in DOMAIN children'[e[1]] : children'[e[1]][i].node = HandleOf(e[2])
    BY <1>2 DEF Edges, HandleOf
  <2>2. e[1] # s
    <3>1. e[1] = s => DOMAIN children'[e[1]] = {}
      BY <1>5, <2>1
    <3> QED
      BY <2>1, <3>1
  <2>3. children'[e[1]] = children[e[1]]
    BY <1>5, <2>1, <2>2
  <2>4. HandleOf(e[2]) \in issued
    BY <1>0, <2>1, <2>3 DEF Handles
  <2>5. e[2] # s
    BY <1>3, <2>4
  <2> QED
    BY <1>5, <2>1, <2>3, <2>5 DEF Edges
<1>13. Tree'
  BY <1>0, <1>12, TreeShrinks DEF Tree
<1>14. Frames'
  BY <1>0, <1>2, IdleFrames
<1>15. SubtreeGone'
  BY <1>5, <1>9 DEF SubtreeGone
<1>16. IdsTrue'
  <2>1. ASSUME NEW x \in NodeIds, ids'[x] # NoParent
        PROVE  /\ ids'[x].slot < chunkCount' * ChunkSize /\ gen[ids'[x].slot] = ids'[x].gen
               /\ state'[ids'[x].slot] = "Live" /\ nodeId'[ids'[x].slot] = x
    <3>1. CASE x = n
      <4>1. ids'[x] = HandleOf(s)
        BY <1>7, <3>1
      <4>2. s < chunkCount' * ChunkSize
        BY <1>3, <1>4 DEF SlotNo
      <4> QED
        BY <1>5, <1>6, <3>1, <4>1, <4>2
    <3>2. CASE x # n
      <4>1. /\ ids'[x] = ids[x] /\ Resolves(ids[x]) /\ nodeId[ids[x].slot] = x
            /\ ids[x].slot \in SlotNo
        BY <1>0, <1>7, <2>1, <3>2 DEF IdsTrue, Handles, Types, HandleRec
      <4>2. ids[x].slot # s
        BY <1>3, <4>1 DEF Resolves
      <4>3. ids[x].slot < chunkCount' * ChunkSize
        BY <1>3, <1>4, <4>1 DEF Resolves, SlotNo
      <4> QED
        BY <1>5, <4>1, <4>2, <4>3 DEF Resolves
    <3> QED
      BY <3>1, <3>2
  <2>2. ASSUME NEW t \in SlotNo, state'[t] = "Live"
        PROVE  nodeId'[t] \in NodeIds /\ ids'[nodeId'[t]] = HandleOf(t)
    <3>1. CASE t = s
      BY <1>5, <1>7, <3>1
    <3>2. CASE t # s
      <4>1. nodeId'[t] = nodeId[t] /\ nodeId[t] \in NodeIds /\ ids[nodeId[t]] = HandleOf(t)
        BY <1>0, <1>5, <2>2, <3>2 DEF IdsTrue
      <4>2. HandleOf(t) # NoParent
        <5>1. HandleOf(t).slot = t /\ NoParent.slot = Invalid /\ t < Invalid
          BY <1>4, StoreAssumption DEF HandleOf, NoParent, SlotNo
        <5> QED
          BY <1>4, <5>1, StoreAssumption DEF SlotNo
      <4>3. nodeId[t] # n
        BY <1>0, <4>1, <4>2
      <4> QED
        BY <1>7, <4>1, <4>3
    <3> QED
      BY <3>1, <3>2
  <2> QED
    BY <1>2, <2>1, <2>2 DEF IdsTrue, Resolves, HandleOf
<1>17. ASSUME NEW h \in issued, ~Resolves(h) PROVE ~Resolves(h)'
  <2>1. Past(h) /\ h.slot \in SlotNo /\ h # HandleOf(s) /\ h \in HandleRec
    BY <1>0, <1>3 DEF Handles, Types, HandleRec
  <2>2. h.slot < chunkCount * ChunkSize
    BY <1>0, <1>4, <2>1 DEF Past, SlotsAccounted, SlotNo
  <2>3. ~(gen[h.slot] = h.gen /\ state[h.slot] = "Live")
    BY <1>17, <2>2 DEF Resolves
  <2>4. ~(gen[h.slot] = h.gen /\ h.slot = s)
    BY <2>1 DEF HandleOf, HandleRec
  <2>5. ~(gen[h.slot] = h.gen /\ state'[h.slot] = "Live")
    BY <1>5, <2>1, <2>3, <2>4
  <2> QED
    BY <1>2, <2>5 DEF Resolves
<1> QED
  BY <1>8, <1>10, <1>11, <1>13, <1>14, <1>15, <1>16, <1>17 DEF Inv

-----------------------------------------------------------------------------
(* The theorems *)

LEMMA InitOK ==
  ASSUME Init
  PROVE  Inv
<1>1. /\ MaxGen \in Nat /\ MaxSlots \in Nat /\ ChunkSize \in Nat \ {0} /\ Capacity \in Nat \ {0}
      /\ 0 \in 0..MaxGen /\ 0 \in 0..MaxSlots
  BY StoreAssumption
<1>2. DOMAIN freeList = {} /\ DOMAIN retired = {} /\ DOMAIN walk = {}
  BY DEF Init
<1>3. \A s \in SlotNo : DOMAIN children[s] = {} /\ state[s] = "Free" /\ payload[s] = "none"
  BY DEF Init
<1>4. Types
  <2>1. /\ <<>> \in Seq(LinkRec) /\ <<>> \in Seq(SlotNo) /\ <<>> \in Seq(FrameRec)
    OBVIOUS
  <2>2. /\ gen \in [SlotNo -> 0..MaxGen] /\ state \in [SlotNo -> {"Free", "Live", "Retired"}]
        /\ nodeId \in [SlotNo -> NodeIds \union {"none"}]
        /\ payload \in [SlotNo -> NodeTypes \union {"none"}]
    BY <1>1 DEF Init
  <2>3. children \in [SlotNo -> Seq(LinkRec)]
    BY <2>1 DEF Init
  <2>4. /\ nextUnused = 0 /\ freeList = <<>> /\ retired = <<>> /\ walk = <<>> /\ issued = {}
        /\ chunkCount = 1 /\ chunkCapacity = Capacity /\ DOMAIN ids = NodeIds
    BY DEF Init
  <2> QED
    BY <1>1, <2>1, <2>2, <2>3, <2>4 DEF Types
<1>5. SlotsAccounted
  <2>1. Distinct(freeList) /\ Distinct(retired)
    BY <1>2 DEF Distinct
  <2>2. \A s : ~InFreeList(s) /\ ~InRetired(s)
    BY <1>2 DEF InFreeList, InRetired
  <2>3. nextUnused <= chunkCount * ChunkSize /\ chunkCount <= chunkCapacity
    BY <1>1 DEF Init
  <2>4. \A s \in SlotNo : ~(s < nextUnused)
    BY <1>1 DEF Init, SlotNo
  <2> QED
    BY <1>3, <2>1, <2>2, <2>3, <2>4 DEF SlotsAccounted
<1>6. Handles
  BY <1>3 DEF Handles, Init
<1>7. Tree
  <2>1. Edges = {}
    BY <1>3 DEF Edges
  <2> QED
    BY <2>1 DEF Tree, IsTree
<1>8. Frames
  BY <1>2 DEF Frames
<1>9. SubtreeGone
  BY <1>3 DEF SubtreeGone
<1>10. IdsTrue
  BY <1>3 DEF IdsTrue, Init
<1> QED
  BY <1>4, <1>5, <1>6, <1>7, <1>8, <1>9, <1>10 DEF Inv

LEMMA StepOK ==
  ASSUME Inv, [Next]_vars
  PROVE  Inv'
<1>1. CASE UNCHANGED vars
  <2>1. Types' /\ SlotsAccounted' /\ Handles'
    BY <1>1 DEF vars, tableVars, Inv, Types, SlotsAccounted, Distinct, InFreeList, InRetired,
       Handles, Past
  <2>2. SubtreeGone' /\ IdsTrue'
    BY <1>1 DEF vars, tableVars, Inv, SubtreeGone, IdsTrue, Resolves, HandleOf
  <2>3. Edges' = Edges /\ UNCHANGED <<walk, state, children, gen>>
    BY <1>1 DEF vars, Edges, HandleOf
  <2>4. Tree' /\ Frames'
    BY <2>3 DEF Inv, Tree, Frames, IsTree, Under, Closed, HandleOf, Enters
  <2> QED
    BY <2>1, <2>2, <2>4 DEF Inv
<1>2. CASE Next
  BY <1>2, AllocateOK, LinkOK, UnlinkOK, RetireOK, VisitChildOK, LeaveNodeOK, FreeSlotOK DEF Next
<1> QED
  BY <1>1, <1>2

LEMMA Invariance == Spec => []Inv
<1>1. Init => Inv
  BY InitOK
<1>2. Inv /\ [Next]_vars => Inv'
  BY StepOK
<1> QED
  BY <1>1, <1>2, PTL DEF Spec

\* No slot is lost and none is freed twice, whatever a retire meets twice on
\* its way down: free list, live nodes, retired nodes and worn-out slots are a
\* partition of the slots used, and the directory covers them (SlotTable).
THEOREM NoSlotTwice == Spec => []SlotsAccounted
<1>1. Inv => SlotsAccounted
  BY DEF Inv
<1> QED
  BY <1>1, Invariance, PTL

\* The id map finds a node exactly while its handle resolves (NodeStore::ids).
THEOREM IdsFindTheLive == Spec => []IdsTrue
<1>1. Inv => IdsTrue
  BY DEF Inv
<1> QED
  BY <1>1, Invariance, PTL

\* A retired node leaves no child behind that still resolves, and no successor of
\* a child that is gone is retired in its place (NodeStore::retire).
THEOREM RetireIsExact == Spec => []RetireTakesSubtree
<1>1. Inv => OnlyTheLinked
  BY DEF Inv, Frames, OnlyTheLinked
<1>2. Inv => RetireTakesSubtree
  BY <1>1 DEF Inv, RetireTakesSubtree
<1> QED
  BY <1>2, Invariance, PTL

\* The recursion of retire never meets a node that is on its stack: the frames
\* of a running call are live, and all different.
THEOREM NoFrameTwice ==
  Spec => [](\A j, k \in DOMAIN walk : j < k => walk[j].slot # walk[k].slot)
<1>1. Inv => \A j, k \in DOMAIN walk : j < k => walk[j].slot # walk[k].slot
  BY FramesDiffer DEF Inv
<1> QED
  BY <1>1, Invariance, PTL

LEMMA GoneStep ==
  ASSUME Inv, [Next]_vars, NEW h \in issued, ~Resolves(h)
  PROVE  ~Resolves(h)'
<1>1. h \in HandleRec
  BY DEF Inv, Types
<1>2. CASE UNCHANGED <<gen, state, chunkCount>>
  BY <1>2 DEF Resolves
<1>3. CASE \E n \in NodeIds : Allocate(n)
  BY <1>3, AllocateOK
<1>4. CASE LeaveNode \/ FreeSlot
  BY <1>1, <1>4, LeaveNodeOK, FreeSlotOK
<1>5. CASE UNCHANGED vars
  BY <1>2, <1>5 DEF vars, tableVars
<1>6. CASE \/ \E P, c \in issued, k \in Keys : Link(P, c, k)
           \/ \E P, c \in issued : Unlink(P, c)
           \/ \E c \in issued : Retire(c)
           \/ VisitChild
  BY <1>2, <1>6 DEF Link, Unlink, Retire, VisitChild, tableVars
<1> QED
  BY <1>3, <1>4, <1>5, <1>6 DEF Next

\* Once a handle no longer resolves it never does again, for every number of
\* reuses of its slot: the last generation is never handed out a second time
\* (SlotTable::free, SlotTable::claim).
THEOREM StaleStaysStale == Spec => GoneForGood
<1>1. Inv /\ [Next]_vars => [\A h \in issued : ~Resolves(h) => ~Resolves(h)']_vars
  BY GoneStep
<1> QED
  BY <1>1, Invariance, PTL DEF Spec, GoneForGood

-----------------------------------------------------------------------------
(* Paint order *)

Sorted(l) == \A i, j \in DOMAIN l : i <= j => l[i].orderKey <= l[j].orderKey

LEMMA InsertedSorted ==
  ASSUME NEW l \in Seq(LinkRec), Sorted(l), NEW e \in LinkRec,
         NEW p \in 1..(Len(l) + 1), IsLowerBound(l, e.orderKey, p)
  PROVE  Sorted(Inserted(l, p, e))
<1> DEFINE new == Inserted(l, p, e)
<1>1. /\ DOMAIN new = 1..(Len(l) + 1)
      /\ \A i \in DOMAIN new :
               \/ i < p /\ i \in DOMAIN l /\ new[i] = l[i]
               \/ i = p /\ new[i] = e
               \/ i > p /\ i - 1 \in DOMAIN l /\ new[i] = l[i - 1]
  BY InsertedIs
<1> HIDE DEF new
<1>2. /\ DOMAIN l = 1..Len(l) /\ Len(l) \in Nat /\ e.orderKey \in Nat
      /\ \A i \in DOMAIN l : l[i].orderKey \in Nat
  <2>1. DOMAIN l = 1..Len(l) /\ Len(l) \in Nat /\ \A i \in DOMAIN l : l[i] \in LinkRec
    OBVIOUS
  <2> QED
    BY <2>1 DEF LinkRec
<1>3. \A i \in DOMAIN l : i < p => l[i].orderKey < e.orderKey
  BY <1>2 DEF IsLowerBound
<1>4. \A i \in DOMAIN l : i >= p => e.orderKey <= l[i].orderKey
  <2> SUFFICES ASSUME NEW i \in DOMAIN l, i >= p PROVE e.orderKey <= l[i].orderKey
    OBVIOUS
  <2>1. p \in DOMAIN l /\ p <= Len(l)
    BY <1>2
  <2>2. e.orderKey <= l[p].orderKey
    BY <1>2, <2>1 DEF IsLowerBound
  <2>3. l[p].orderKey <= l[i].orderKey
    BY <2>1 DEF Sorted
  <2> QED
    BY <1>2, <2>1, <2>2, <2>3
<1> SUFFICES ASSUME NEW i \in DOMAIN new, NEW j \in DOMAIN new, i <= j
             PROVE  new[i].orderKey <= new[j].orderKey
  BY DEF Sorted, new
<1>5. i \in Nat /\ j \in Nat /\ p \in Nat
  BY <1>1
<1>6. CASE i < p /\ j < p
  BY <1>1, <1>5, <1>6 DEF Sorted
<1>7. CASE i < p /\ j = p
  BY <1>1, <1>2, <1>3, <1>5, <1>7
<1>8. CASE i < p /\ j > p
  <2>1. /\ i \in DOMAIN l /\ new[i] = l[i] /\ j - 1 \in DOMAIN l /\ new[j] = l[j - 1]
        /\ i <= j - 1
    BY <1>1, <1>5, <1>8
  <2> QED
    BY <2>1 DEF Sorted
<1>9. CASE i = p /\ j = p
  BY <1>1, <1>2, <1>5, <1>9
<1>10. CASE i = p /\ j > p
  <2>1. new[i] = e /\ j - 1 \in DOMAIN l /\ new[j] = l[j - 1] /\ j - 1 >= p
    BY <1>1, <1>5, <1>10
  <2> QED
    BY <1>4, <2>1
<1>11. CASE i > p /\ j > p
  <2>1. /\ i - 1 \in DOMAIN l /\ new[i] = l[i - 1] /\ j - 1 \in DOMAIN l /\ new[j] = l[j - 1]
        /\ i - 1 <= j - 1
    BY <1>1, <1>5, <1>11
  <2> QED
    BY <2>1 DEF Sorted
<1> QED
  BY <1>5, <1>6, <1>7, <1>8, <1>9, <1>10, <1>11

LEMMA RemovedSorted ==
  ASSUME NEW l \in Seq(LinkRec), Sorted(l), NEW p \in DOMAIN l
  PROVE  Sorted(Removed(l, p))
<1> DEFINE new == Removed(l, p)
<1>1. /\ DOMAIN new = 1..(Len(l) - 1)
      /\ \A i \in DOMAIN new :
               \/ i < p /\ i \in DOMAIN l /\ new[i] = l[i]
               \/ i >= p /\ i + 1 \in DOMAIN l /\ new[i] = l[i + 1]
  BY RemovedIs
<1> HIDE DEF new
<1> SUFFICES ASSUME NEW i \in DOMAIN new, NEW j \in DOMAIN new, i <= j
             PROVE  new[i].orderKey <= new[j].orderKey
  BY DEF Sorted, new
<1>2. i \in Nat /\ j \in Nat /\ p \in Nat
  BY <1>1
<1>3. \E x, y \in DOMAIN l : x <= y /\ new[i] = l[x] /\ new[j] = l[y]
  <2>1. CASE i < p /\ j < p
    BY <1>1, <1>2, <2>1
  <2>2. CASE i < p /\ j >= p
    <3>1. i \in DOMAIN l /\ j + 1 \in DOMAIN l /\ new[i] = l[i] /\ new[j] = l[j + 1] /\ i <= j + 1
      BY <1>1, <1>2, <2>2
    <3> QED
      BY <3>1
  <2>3. CASE i >= p /\ j >= p
    <3>1. /\ i + 1 \in DOMAIN l /\ j + 1 \in DOMAIN l /\ new[i] = l[i + 1] /\ new[j] = l[j + 1]
          /\ i + 1 <= j + 1
      BY <1>1, <1>2, <2>3
    <3> QED
      BY <3>1
  <2> QED
    BY <1>2, <2>1, <2>2, <2>3
<1> QED
  BY <1>3 DEF Sorted

LEMMA SortedStep ==
  ASSUME Inv, LinksSorted, [Next]_vars
  PROVE  LinksSorted'
<1>1. \A s \in SlotNo : children[s] \in Seq(LinkRec) /\ Sorted(children[s])
  BY LinksTyped DEF Inv, LinksSorted, Sorted
<1>2. children \in [SlotNo -> Seq(LinkRec)]
  BY DEF Inv, Types
<1>3. ASSUME NEW s \in SlotNo, NEW new, Sorted(new), children' = [children EXCEPT ![s] = new]
      PROVE  LinksSorted'
  <2>1. \A t \in SlotNo : Sorted(children'[t])
    BY <1>1, <1>2, <1>3
  <2> QED
    BY <2>1 DEF LinksSorted, Sorted
<1>4. Sorted(<<>>)
  BY DEF Sorted
<1>5. CASE UNCHANGED children
  BY <1>5 DEF LinksSorted
<1>6. ASSUME NEW n \in NodeIds, Allocate(n) PROVE LinksSorted'
  <2>1. PICK s \in SlotNo : children' = [children EXCEPT ![s] = <<>>]
    BY <1>6 DEF Allocate
  <2> QED
    BY <1>3, <1>4, <2>1
<1>7. CASE FreeSlot
  <2>1. retired \in Seq(SlotNo) /\ retired # <<>>
    BY <1>7 DEF FreeSlot, Inv, Types
  <2>2. retired[1] \in SlotNo
    BY <2>1
  <2>3. children' = [children EXCEPT ![retired[1]] = <<>>]
    BY <1>7 DEF FreeSlot
  <2> QED
    BY <1>3, <1>4, <2>2, <2>3
<1>8. ASSUME NEW P \in issued, NEW h \in issued, Unlink(P, h) PROVE LinksSorted'
  <2>1. P.slot \in SlotNo
    BY DEF Inv, Types, HandleRec
  <2>2. PICK p \in DOMAIN children[P.slot] :
          children' = [children EXCEPT ![P.slot] = Removed(children[P.slot], p)]
    BY <1>8 DEF Unlink
  <2>3. Sorted(Removed(children[P.slot], p))
    BY <1>1, <2>1, <2>2, RemovedSorted
  <2> QED
    BY <1>3, <2>1, <2>2, <2>3
<1>9. ASSUME NEW P \in issued, NEW h \in issued, NEW k \in Keys, Link(P, h, k)
      PROVE  LinksSorted'
  <2> DEFINE e == [node |-> h, orderKey |-> k]
             l == children[P.slot]
  <2>1. P.slot \in SlotNo /\ e \in LinkRec /\ e.orderKey = k
    BY StoreAssumption DEF Inv, Types, HandleRec, LinkRec
  <2>2. PICK p \in 1..(Len(l) + 1) :
          IsLowerBound(l, k, p) /\ children' = [children EXCEPT ![P.slot] = Inserted(l, p, e)]
    BY <1>9 DEF Link
  <2>3. Sorted(Inserted(l, p, e))
    <3>1. l \in Seq(LinkRec) /\ Sorted(l) /\ IsLowerBound(l, e.orderKey, p)
      BY <1>1, <2>1, <2>2
    <3> HIDE DEF l, e
    <3> QED
      BY <2>1, <2>2, <3>1, InsertedSorted
  <2> QED
    BY <1>3, <2>1, <2>2, <2>3
<1>10. CASE \/ \E h \in issued : Retire(h)
            \/ VisitChild \/ LeaveNode
            \/ UNCHANGED vars
  BY <1>5, <1>10 DEF Retire, VisitChild, LeaveNode, vars
<1> QED
  BY <1>6, <1>7, <1>8, <1>9, <1>10 DEF Next

\* The children of a node are in paint order after any links and unlinks
\* (NodeStore::link puts a child at the lower bound of its key).
THEOREM PaintOrderKept == Spec => []LinksSorted
<1>1. Init => LinksSorted
  <2>1. ASSUME Init, NEW s \in SlotNo PROVE DOMAIN children[s] = {}
    BY <2>1 DEF Init
  <2> QED
    BY <2>1 DEF LinksSorted
<1>2. Inv /\ LinksSorted /\ [Next]_vars => LinksSorted'
  BY SortedStep
<1> QED
  BY <1>1, <1>2, Invariance, PTL DEF Spec
=============================================================================
